-------------------------------- MODULE History --------------------------------
(***************************************************************************)
(* GET /transactions/history read page by page, and GET /transactions/:id: *)
(* getTransactionHistory and getTransaction of transaction.service.js with *)
(* their controllers, as TransactionList.jsx uses them: Prev, Next and the *)
(* refresh after a payment.  The page and the total come from two queries  *)
(* that run in parallel, the rows are ordered by createdAt alone, and the  *)
(* answers are cached by page while payments go on.  A page that could not *)
(* be loaded stays the one selected, under the rows and buttons of the one *)
(* shown before.                                                           *)
(*                                                                         *)
(* createdAt is when the payment's transaction began, not when its row     *)
(* could first be seen.  A cached answer may end at any moment: how long   *)
(* it lives is module ResponseCache's matter.  One page is loaded at a     *)
(* time: a refresh while one is loading is module Dashboard's matter.      *)
(***************************************************************************)
EXTENDS Integers, FiniteSets, SequencesExt

CONSTANTS
  Payment, Account,
  Sender, Receiver,   \* the two accounts of each payment
  Reader,             \* the account whose history is read
  PageSize,           \* the limit the client asks for
  MaxTime,            \* bound on createdAt
  MaxLoads,           \* bound on how many pages are asked for, in all
  MaxPage,            \* bound on the page that is asked for
  Nothing

ASSUME HistoryAssumption ==
  /\ Sender \in [Payment -> Account] /\ Receiver \in [Payment -> Account]
  /\ \A p \in Payment : Sender[p] # Receiver[p]
  /\ PageSize \in 1 .. 100 /\ MaxTime \in Nat /\ MaxLoads \in Nat
  /\ MaxPage \in Nat \ {0}
  /\ IsFiniteSet(Payment) /\ Payment # {}

VARIABLES
  clock,
  createdAt,   \* of each payment, 0 before it begins
  committed,   \* rows of transactions
  cached,      \* the answers in the cache, by page
  page,        \* the page selected, 0 before the list is shown
  loading,     \* a request is under way for it
  loads,       \* requests made
  found,       \* what findMany has answered, or Nothing
  counted,     \* what count has answered, or Nothing
  buttons,     \* Prev and Next under what is shown: "none", "more" or, with Next
               \* disabled, "end"
  reached,     \* the highest page shown since the reading began, or 0
  seen,        \* rows shown since then
  present,     \* rows there were when it began
  upset        \* what has come between its pages

database == <<clock, createdAt, committed>>
request == <<cached, page, loading, loads, found, counted>>
screen == <<buttons, reached, seen, present, upset>>
vars == <<database, request, screen>>

Mine(p) == Reader \in {Sender[p], Receiver[p]}

Rows == {p \in committed : Mine(p)}

(***************************************************************************)
(* The page arithmetic                                                     *)
(***************************************************************************)

\* parseInt(text) || default: 0 and what is no number (0 here) become the default.
OrDefault(n, default) == IF n = 0 THEN default ELSE n

SafeLimit(n) == IF n < 1 THEN 1 ELSE IF n > 100 THEN 100 ELSE n

SafePage(n) == IF n < 1 THEN 1 ELSE n

\* Mutant of Skip: pages counted from 0.
SkipFromZero(n, limit) == n * limit

Skip(n, limit) == (n - 1) * limit

TotalPages(total, limit) == (total + limit - 1) \div limit

\* skip and take, of rows in some order.
PageOf(order, pageText, limitText) ==
  LET limit == SafeLimit(OrDefault(limitText, 20))
      from == Skip(SafePage(OrDefault(pageText, 1)), limit)
  IN  SubSeq(order, from + 1, IF from + limit < Len(order) THEN from + limit ELSE Len(order))

HasNext(answer, n) == n < TotalPages(answer.total, PageSize)

\* createdAt: 'desc'; rows of the same millisecond come in any order.
Orders(S) ==
  {order \in SetToSeqs(S) :
     \A i, j \in 1 .. Len(order) : i < j => createdAt[order[i]] >= createdAt[order[j]]}

(***************************************************************************)
(* Payments                                                                *)
(***************************************************************************)

Init ==
  /\ clock = 1
  /\ createdAt = [p \in Payment |-> 0]
  /\ committed = {}
  /\ cached = [n \in 1 .. MaxPage |-> Nothing]
  /\ page = 0 /\ loading = FALSE /\ loads = 0 /\ found = Nothing /\ counted = Nothing
  /\ buttons = "none" /\ reached = 0 /\ seen = {} /\ present = {} /\ upset = {}

Tick ==
  /\ clock < MaxTime
  /\ clock' = clock + 1
  /\ UNCHANGED <<createdAt, committed, request, screen>>

Begin(p) ==
  /\ createdAt[p] = 0
  /\ createdAt' = [createdAt EXCEPT ![p] = clock]
  /\ UNCHANGED <<clock, committed, request, screen>>

\* A payment that commits while a page is being answered tears the answer.
Commit(p) ==
  /\ createdAt[p] # 0 /\ p \notin committed
  /\ committed' = committed \cup {p}
  /\ upset' = IF loading THEN upset \cup {"torn"} ELSE upset
  /\ UNCHANGED <<clock, createdAt, request, buttons, reached, seen, present>>

(***************************************************************************)
(* Reading                                                                 *)
(***************************************************************************)

\* The effect of [page, refresh].
Load(n) ==
  /\ ~ loading /\ loads < MaxLoads
  /\ page' = n /\ loading' = TRUE /\ loads' = loads + 1

\* The list is shown, or shown again: from its first page.
StartReading ==
  /\ Load(1)
  /\ buttons' = "none" /\ reached' = 0 /\ seen' = {} /\ present' = Rows /\ upset' = {}
  /\ UNCHANGED <<database, cached, found, counted>>

\* Next goes on from the page selected, shown or not; hasNext is of the page shown.
AskNext ==
  /\ buttons = "more" /\ page < MaxPage
  /\ Load(page + 1)
  /\ UNCHANGED <<database, cached, found, counted, screen>>

AskPrev ==
  /\ buttons # "none" /\ page > 1
  /\ Load(page - 1)
  /\ UNCHANGED <<database, cached, found, counted, screen>>

\* After a transfer or a top-up of this user.
Refresh ==
  /\ page # 0
  /\ Load(page)
  /\ UNCHANGED <<database, cached, found, counted, screen>>

\* No rows, no buttons; nor with a single page.
ButtonsOf(answer) ==
  IF answer.rows = << >> \/ TotalPages(answer.total, PageSize) <= 1 THEN "none"
  ELSE IF HasNext(answer, page) THEN "more" ELSE "end"

\* setTxns, setPag and setLoading.
Show(answer) ==
  /\ loading' = FALSE /\ buttons' = ButtonsOf(answer)
  /\ reached' = IF page > reached THEN page ELSE reached
  /\ seen' = seen \cup ToSet(answer.rows)
  /\ UNCHANGED <<page, loads, present>>

FromCache ==
  /\ loading /\ found = Nothing /\ counted = Nothing
  /\ cached[page] # Nothing
  /\ Show(cached[page])
  /\ upset' = upset \cup {"cached"}
  /\ UNCHANGED <<database, cached, found, counted>>

\* The two queries of Promise.all, in either order.
FindMany ==
  /\ loading /\ found = Nothing
  /\ cached[page] = Nothing \/ counted # Nothing
  /\ \E order \in Orders(Rows) : found' = PageOf(order, page, PageSize)
  /\ UNCHANGED <<database, cached, page, loading, loads, counted, screen>>

\* Mutant of Count: the payments received are forgotten.
CountSent ==
  /\ loading /\ counted = Nothing
  /\ cached[page] = Nothing \/ found # Nothing
  /\ counted' = Cardinality({p \in committed : Sender[p] = Reader})
  /\ UNCHANGED <<database, cached, page, loading, loads, found, screen>>

Count ==
  /\ loading /\ counted = Nothing
  /\ cached[page] = Nothing \/ found # Nothing
  /\ counted' = Cardinality(Rows)
  /\ UNCHANGED <<database, cached, page, loading, loads, found, screen>>

\* paginated, which the cache intercepts: Redis takes the answer or does not.
StoreAnswer ==
  /\ found # Nothing /\ counted # Nothing
  /\ cached' = [cached EXCEPT ![page] = [rows |-> found, total |-> counted]]

Respond ==
  /\ found # Nothing /\ counted # Nothing
  /\ Show([rows |-> found, total |-> counted])
  /\ StoreAnswer \/ UNCHANGED cached
  /\ found' = Nothing /\ counted' = Nothing
  /\ UNCHANGED <<database, upset>>

\* The request fails, or its answer is lost, cached or not.  The page stays selected;
\* rows, buttons and pagination stay those of the page shown before.
Fail ==
  /\ loading
  /\ loading' = FALSE /\ found' = Nothing /\ counted' = Nothing
  /\ StoreAnswer \/ UNCHANGED cached
  /\ upset' = upset \cup {"failed"}
  /\ UNCHANGED <<database, page, loads, buttons, reached, seen, present>>

Forget(n) ==
  /\ cached[n] # Nothing
  /\ cached' = [cached EXCEPT ![n] = Nothing]
  /\ UNCHANGED <<database, page, loading, loads, found, counted, screen>>

\* Mutant of StatusOf: only the sender's payments are his.
StatusOfSender(p) ==
  IF p \notin committed THEN "404" ELSE IF Sender[p] = Reader THEN "200" ELSE "403"

\* getTransaction: belongsToUser
StatusOf(p) == IF p \notin committed THEN "404" ELSE IF Mine(p) THEN "200" ELSE "403"

Next ==
  \/ Tick
  \/ \E p \in Payment : Begin(p) \/ Commit(p)
  \/ StartReading \/ AskNext \/ AskPrev \/ Refresh
  \/ FromCache \/ FindMany \/ Count \/ Respond \/ Fail
  \/ \E n \in DOMAIN cached : Forget(n)

Spec == Init /\ [][Next]_vars

(***************************************************************************)
(* Properties                                                              *)
(***************************************************************************)

Tied(p) == \E q \in Rows \ {p} : createdAt[q] = createdAt[p]

\* Something is shown and there is no Next to go on with.
Ended == reached # 0 /\ buttons # "more"

\* Whoever reads on until there is no next page, back and forth as he likes, has seen
\* every row there was when he began, unless a page could not be loaded (Next then goes
\* on past it), a payment committed while a page was answered, a page came from the
\* cache, or rows are of one millisecond: payments between the pages, even ones with
\* an older createdAt, hide nothing.
SkippedForAReason ==
  Ended => \A p \in present \ seen : upset # {} \/ Tied(p)

\* With any of these limits, pages 1 to totalPages are the whole list, each row once,
\* the page after them is empty, and any of these texts that is no page is page 1.
CutsExactly(limitTexts, pageTexts) ==
  \A order \in Orders(Rows) : \A limitText \in limitTexts :
    LET limit == SafeLimit(OrDefault(limitText, 20))
        pages == TotalPages(Len(order), limit)
    IN  /\ FlattenSeq([n \in 1 .. pages |-> PageOf(order, n, limitText)]) = order
        /\ PageOf(order, pages + 1, limitText) = <<>>
        /\ \A pageText \in pageTexts :
             pageText < 1 => PageOf(order, pageText, limitText) = PageOf(order, 1, limitText)

\* Whatever a client asks for, valid or not, the pages cut the list exactly.  They are
\* of the rows alone, so a run looks at every set of rows once, before a page is shown.
PagesPartition == page = 0 => CutsExactly({-1, 0, 1, 2, 3, 150}, {-1, 0})

\* GET /:id opens what the list has shown, from the cache too, to either party, and
\* never a payment between strangers.
OpensWhatItLists ==
  /\ \A p \in seen : StatusOf(p) = "200"
  /\ \A p \in Payment : StatusOf(p) = "200" => Mine(p)

\* docs/PHASE-7.md:104-111, the page and the total for hasNext come from "One round
\* trip": read without ties and without the cache, a page that says there is no next
\* one ends the list.
NoNextMeansEnd ==
  Ended /\ upset \subseteq {"torn"} => \A p \in present \ seen : Tied(p)

(***************************************************************************)
(* Why nothing is skipped                                                  *)
(***************************************************************************)

Answer == [rows : Seq(Payment), total : 0 .. Cardinality(Payment)]

TypeOK ==
  /\ clock \in Nat \ {0} /\ createdAt \in [Payment -> Nat] /\ committed \subseteq Payment
  /\ cached \in [1 .. MaxPage -> Answer \cup {Nothing}]
  /\ page \in 0 .. MaxPage /\ loading \in BOOLEAN /\ reached \in 0 .. MaxPage
  /\ found \in Seq(Payment) \cup {Nothing}
  /\ counted \in (0 .. Cardinality(Payment)) \cup {Nothing}
  /\ buttons \in {"none", "more", "end"} /\ seen \subseteq Payment /\ present \subseteq Payment
  /\ upset \subseteq {"torn", "cached", "failed"} /\ loads \in Nat

\* What is read, answered, cached or shown is the reader's and committed.
OnlyRows ==
  /\ \A p \in committed : createdAt[p] # 0
  /\ seen \subseteq Rows /\ present \subseteq Rows
  /\ found # Nothing => ToSet(found) \subseteq Rows
  /\ \A n \in DOMAIN cached : cached[n] # Nothing => ToSet(cached[n].rows) \subseteq Rows

\* Queries are of a request; undisturbed, what is selected is shown and what is loading
\* follows a page that has been shown.
OneByOne ==
  /\ loading => page # 0
  /\ ~ loading => found = Nothing /\ counted = Nothing
  /\ upset = {} => IF loading THEN page <= reached + 1 ELSE page <= reached

\* Undisturbed, the two queries have seen the rows there are now.
QueriesAreCurrent ==
  upset = {} =>
    /\ counted # Nothing => counted = Cardinality(Rows)
    /\ found # Nothing => \E order \in Orders(Rows) : found = PageOf(order, page, PageSize)

Newer(p) == {q \in Rows : createdAt[q] > createdAt[p]}

\* Undisturbed, a row that was there and is not shown yet has at least a page of newer
\* rows for every page shown: new rows push it down, and nothing pulls it up.
PushedDown ==
  upset = {} =>
    \A p \in present \ seen : Tied(p) \/ Cardinality(Newer(p)) >= reached * PageSize

HistoryInv ==
  TypeOK /\ OnlyRows /\ OneByOne /\ QueriesAreCurrent /\ PushedDown /\ SkippedForAReason
==============================================================================
