------------------------------- MODULE Dashboard -------------------------------
(***************************************************************************)
(* A user's dashboard (src/client/src/pages/Dashboard.jsx with             *)
(* TransactionList.jsx) on top of the response cache: it loads the account *)
(* and a page of the history when it mounts, and again 600 ms after it     *)
(* hears of the user's own payment.                                        *)
(*                                                                         *)
(* Effects and timers only queue requests (toAsk); the browser sends them  *)
(* at once.  Answers are taken as they come, in any order, and those of a  *)
(* page that was left are dropped by the browser.                          *)
(***************************************************************************)
EXTENDS ResponseCache

CONSTANTS
  Account,      \* the resource of accountAPI.getAccount
  Pages,        \* the resources of transactionAPI.history, page by page
  FirstPage,
  ReloadDelay   \* 600 ms, in ticks

ASSUME DashboardAssumption ==
  /\ Resource = {Account} \cup Pages /\ Account \notin Pages /\ FirstPage \in Pages
  /\ ReloadDelay \in Nat

VARIABLES
  page,          \* TransactionList: the page selected
  balance,       \* Dashboard: the payments in the account shown
  rows,          \* TransactionList: the payments in the rows shown
  loading,       \* TransactionList
  topupLoading,  \* Dashboard
  timers,        \* reloads to come: in how many ticks, and after which top-up if any
  unreported,    \* payments of the page's form whose onSuccess is still to come
  toAsk,         \* requests the browser sends next
  awaited        \* requests whose answer the page still takes

screenVars == <<page, balance, rows, loading, topupLoading>>
pageVars == <<screenVars, timers, unreported, toAsk, awaited>>
allVars == <<vars, pageVars>>

ScreenTypeOK ==
  /\ page \in [User -> Pages]
  /\ balance \in [User -> Nat] /\ rows \in [User -> Nat]
  /\ loading \in [User -> BOOLEAN] /\ topupLoading \in [User -> BOOLEAN]
  /\ timers \in [User -> SUBSET [left : 0 .. ReloadDelay, payment : Nat]]
  /\ unreported \in [User -> Nat]
  /\ toAsk \in [User -> SUBSET Resource]
  /\ awaited \subseteq Fetch

\* Every user's page has just mounted.
DashboardInit ==
  /\ Init
  /\ page = [u \in User |-> FirstPage]
  /\ balance = [u \in User |-> 0] /\ rows = [u \in User |-> 0]
  /\ loading = [u \in User |-> TRUE] /\ topupLoading = [u \in User |-> FALSE]
  /\ timers = [u \in User |-> {}] /\ unreported = [u \in User |-> 0]
  /\ toAsk = [u \in User |-> {Account, FirstPage}]
  /\ awaited = {}

Awaits(u) == {f \in awaited : fetch[f] # Nothing /\ fetch[f].user = u}

SendRequest(f, u, resource) ==
  /\ resource \in toAsk[u]
  /\ Ask(f, u, resource)
  /\ toAsk' = [toAsk EXCEPT ![u] = @ \ {resource}]
  /\ awaited' = awaited \cup {f}
  /\ UNCHANGED <<screenVars, timers, unreported>>

\* setAccount, or setTxns; finally setLoading(false).
TakeAnswer(f) ==
  LET u == fetch[f].user  body == fetch[f].body IN
  /\ f \in awaited
  /\ Hear(f)
  /\ awaited' = awaited \ {f}
  /\ IF fetch[f].resource = Account
     THEN balance' = [balance EXCEPT ![u] = body.payments] /\ UNCHANGED <<rows, loading>>
     ELSE /\ rows' = [rows EXCEPT ![u] = body.payments]
          /\ loading' = [loading EXCEPT ![u] = FALSE]
          /\ UNCHANGED balance
  /\ UNCHANGED <<page, topupLoading, timers, unreported, toAsk>>

\* Mutant of AnswerLost: a catch without the finally.
AnswerLostNoFinally(f) ==
  /\ Faults /\ f \in awaited
  /\ Hear(f)
  /\ awaited' = awaited \ {f}
  /\ UNCHANGED <<screenVars, timers, unreported, toAsk>>

\* The answer does not arrive: the error goes to the console.
AnswerLost(f) ==
  /\ Faults /\ f \in awaited
  /\ Hear(f)
  /\ awaited' = awaited \ {f}
  /\ loading' = IF fetch[f].resource = Account THEN loading
                ELSE [loading EXCEPT ![fetch[f].user] = FALSE]
  /\ UNCHANGED <<page, balance, rows, topupLoading, timers, unreported, toAsk>>

\* Nobody waits for the answer any more.
AnswerDropped(f) == f \notin awaited /\ Hear(f) /\ UNCHANGED pageVars

ServerStep(f) == GetStep(f) /\ UNCHANGED pageVars

\* A payment that this page does not hear of: another tab's, another user's.
TransferElsewhere(u) == TransferCommits(u) /\ UNCHANGED pageVars

\* A payment by the form of this page.
SendCommits(u) ==
  /\ TransferCommits(u)
  /\ unreported' = [unreported EXCEPT ![u] = @ + 1]
  /\ UNCHANGED <<screenVars, timers, toAsk, awaited>>

\* SendMoneyModal reports it, 1.8 s after the answer: handleSendSuccess.
HandleSendSuccess(u) ==
  /\ unreported[u] > 0
  /\ unreported' = [unreported EXCEPT ![u] = @ - 1]
  /\ timers' = [timers EXCEPT ![u] = @ \cup {[left |-> ReloadDelay, payment |-> 0]}]
  /\ UNCHANGED <<vars, screenVars, toAsk, awaited>>

\* Its answer is an error, or lost: nothing is reported.
SendUnheard(u) ==
  /\ unreported[u] > 0
  /\ unreported' = [unreported EXCEPT ![u] = @ - 1]
  /\ UNCHANGED <<vars, screenVars, timers, toAsk, awaited>>

\* handleTopUp up to the commit; a top-up that is refused changes nothing.
HandleTopUp(u) ==
  /\ ~ topupLoading[u]
  /\ TopUpCommits(u)
  /\ topupLoading' = [topupLoading EXCEPT ![u] = TRUE]
  /\ UNCHANGED <<page, balance, rows, loading, timers, unreported, toAsk, awaited>>

BustStep(u) == Bust(u) /\ UNCHANGED pageVars

\* The answer is heard: a reload in 600 ms.
TopUpHeard(u) ==
  /\ topupLoading[u] /\ TopUpAnswers(u)
  /\ timers' = [timers EXCEPT ![u] = @ \cup {[left |-> ReloadDelay, payment |-> topUp[u].payment]}]
  /\ topupLoading' = [topupLoading EXCEPT ![u] = FALSE]
  /\ UNCHANGED <<page, balance, rows, loading, unreported, toAsk, awaited>>

\* It is lost, or the page was left meanwhile: no reload.
TopUpUnheard(u) ==
  /\ Faults \/ ~ topupLoading[u]
  /\ TopUpAnswers(u)
  /\ topupLoading' = [topupLoading EXCEPT ![u] = FALSE]
  /\ UNCHANGED <<page, balance, rows, loading, timers, unreported, toAsk, awaited>>

\* loadAccount, and the refresh that makes TransactionList load its page again.
TimerFires(u) ==
  \E timer \in timers[u] :
    /\ timer.left = 0
    /\ timers' = [timers EXCEPT ![u] = @ \ {timer}]
    /\ toAsk' = [toAsk EXCEPT ![u] = @ \cup {Account, page[u]}]
    /\ loading' = [loading EXCEPT ![u] = TRUE]
    /\ UNCHANGED <<vars, page, balance, rows, topupLoading, unreported, awaited>>

\* Prev and Next, which are not there while the list loads.
ChangePage(u, p) ==
  /\ ~ loading[u] /\ p # page[u]
  /\ page' = [page EXCEPT ![u] = p]
  /\ toAsk' = [toAsk EXCEPT ![u] = @ \cup {p}]
  /\ loading' = [loading EXCEPT ![u] = TRUE]
  /\ UNCHANGED <<vars, balance, rows, topupLoading, timers, unreported, awaited>>

\* The user reloads the page, an impatient one before it has settled; timers and
\* requests die with it.
Remount(u) ==
  /\ Faults \/ (toAsk[u] = {} /\ Awaits(u) = {})
  /\ page' = [page EXCEPT ![u] = FirstPage]
  /\ balance' = [balance EXCEPT ![u] = 0] /\ rows' = [rows EXCEPT ![u] = 0]
  /\ loading' = [loading EXCEPT ![u] = TRUE]
  /\ topupLoading' = [topupLoading EXCEPT ![u] = FALSE]
  /\ timers' = [timers EXCEPT ![u] = {}] /\ unreported' = [unreported EXCEPT ![u] = 0]
  /\ toAsk' = [toAsk EXCEPT ![u] = {Account, FirstPage}]
  /\ awaited' = awaited \ Awaits(u)
  /\ UNCHANGED vars

\* Timers that are due fire, and requests go out, before more time passes.
Clock ==
  /\ \A u \in User : toAsk[u] = {} /\ \A timer \in timers[u] : timer.left > 0
  /\ Tick
  /\ timers' = [u \in User |-> {[timer EXCEPT !.left = @ - 1] : timer \in timers[u]}]
  /\ UNCHANGED <<screenVars, unreported, toAsk, awaited>>

EvictStep(k) == Evict(k) /\ UNCHANGED pageVars

\* What a dead server was asked ends in a network error at the page.
CrashStep(F, U) ==
  LET failed == F \cap awaited
      listFailed == {fetch[f].user : f \in {g \in failed : fetch[g].resource # Account}}
  IN
  /\ F \subseteq {f \in Fetch : fetch[f] # Nothing}
  /\ U \subseteq {u \in User : topUp[u].step # 0}
  /\ Crash(F, U)
  /\ awaited' = awaited \ F
  /\ loading' = [u \in User |-> loading[u] /\ u \notin listFailed]
  /\ topupLoading' = [u \in User |-> topupLoading[u] /\ u \notin U]
  /\ UNCHANGED <<page, balance, rows, timers, unreported, toAsk>>

DashboardNext ==
  \/ \E f \in Fetch :
       \/ \E u \in User, resource \in Resource : SendRequest(f, u, resource)
       \/ ServerStep(f) \/ TakeAnswer(f) \/ AnswerLost(f) \/ AnswerDropped(f)
  \/ \E u \in User :
       \/ TransferElsewhere(u) \/ SendCommits(u) \/ HandleSendSuccess(u) \/ SendUnheard(u)
       \/ HandleTopUp(u) \/ BustStep(u) \/ TopUpHeard(u) \/ TopUpUnheard(u)
       \/ TimerFires(u) \/ Remount(u)
       \/ \E p \in Pages : ChangePage(u, p)
  \/ Clock
  \/ \E k \in Key : EvictStep(k)
  \/ \E F \in SUBSET Fetch, U \in SUBSET User : CrashStep(F, U)

\* Servers, network and timers go on, time always passes, and the user looks at the
\* page again and again.
Fairness ==
  /\ \A f \in Fetch : WF_allVars(ServerStep(f)) /\ WF_allVars(TakeAnswer(f) \/ AnswerDropped(f))
  /\ \A u \in User :
       /\ WF_allVars(\E f \in Fetch, resource \in Resource : SendRequest(f, u, resource))
       /\ WF_allVars(BustStep(u)) /\ WF_allVars(TopUpHeard(u) \/ TopUpUnheard(u))
       /\ WF_allVars(TimerFires(u)) /\ WF_allVars(Remount(u))
  /\ SF_allVars(Clock)

DashboardSpec == DashboardInit /\ [][DashboardNext]_allVars

LiveDashboard == DashboardSpec /\ Fairness

(***************************************************************************)
(* Properties                                                              *)
(***************************************************************************)

\* The cache does not hide a payment for ever: a user who keeps looking sees it in
\* the balance and in the list at once, wherever the payment was made.
PaymentShows ==
  \A u \in User : \A n \in 1 .. MaxPayments :
    payments[u] >= n ~> balance[u] >= n /\ rows[u] >= n

\* The list never shows "Loading transactions..." with nothing under way, whichever
\* of several overlapping requests fails.
SpinnerHasReason ==
  \A u \in User :
    loading[u] => toAsk[u] \cap Pages # {} \/ \E f \in Awaits(u) : fetch[f].resource \in Pages

\* The page takes answers of requests that are under way only.
AwaitedAreUnderWay == \A f \in awaited : fetch[f] # Nothing

\* Why the spinner has a reason: on top of what holds of the cache.
DashboardInv == CacheInv /\ ScreenTypeOK /\ AwaitedAreUnderWay /\ SpinnerHasReason

\* src/client/src/pages/Dashboard.jsx:188, "Wait for cache to expire then reload":
\* when the reload after a top-up is due, no copy without the top-up is left of what
\* it asks for.
CacheExpiredByReload ==
  \A u \in User : \A timer \in timers[u] : \A resource \in {Account, page[u]} :
    LET copy == copies[KeyOf(u, resource)] IN
    timer.left = 0 /\ copy # Nothing => copy.body.payments >= timer.payment
==============================================================================
