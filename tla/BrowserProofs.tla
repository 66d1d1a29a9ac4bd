----------------------------- MODULE BrowserProofs -----------------------------
(***************************************************************************)
(* Proofs about Browser, for any set of tabs and people and any number of  *)
(* tokens and requests.                                                    *)
(*                                                                         *)
(* BrowserInv is inductive.  What a step does to the store is one of two   *)
(* things, a lemma each: it signs somebody in with a token that is new     *)
(* (SignedInKeeps), or it empties the store (EmptyKeeps); a document that  *)
(* is loaded takes the store as it finds it (LoadKeeps).                   *)
(***************************************************************************)
EXTENDS Browser, TLAPS

\* Nobody is signed in at first.
LEMMA InitBrowser == Init => BrowserInv
BY BrowserAssumption
   DEF Init, BrowserInv, TypeOK, StoreAgrees, TokensIssued, ActsAsShown, RefusedNotStored,
       Empty, Stores, Issued, Token

\* 0 is no token.
LEMMA ZeroIsNoToken == 0 \notin Token
BY DEF Token

\* A document that is loaded shows the user of the store.
LEMMA LoadKeeps ==
  ASSUME BrowserInv, NEW t \in Tab, Load(t),
         UNCHANGED <<server, store, refused>>
  PROVE  BrowserInv'
<1>. USE DEF BrowserInv, server
<1>1. Issued' = Issued
  BY DEF Issued
<1>2. Mounted(store) =>
        /\ store.token \in Issued /\ store.token \in Token
        /\ store.user \in Person /\ owner[store.token] = store.user
        /\ Request(store) \in Asks
        /\ Request(store).token \in Issued
        /\ Request(store).form = "none"
  BY ZeroIsNoToken DEF Mounted, StoreAgrees, TypeOK, Stores, Issued, Request, Asks
<1>3. TypeOK'
  <2>1. page' \in [Tab -> {"login", "register", "dashboard"}]
    BY DEF TypeOK, Load
  <2>2. user' \in [Tab -> Person \cup {Nobody}]
    BY <1>2 DEF TypeOK, Load
  <2>3. asks' \in [Tab -> SUBSET Asks]
    BY <1>2 DEF TypeOK, Load
  <2>. QED
    BY <2>1, <2>2, <2>3 DEF TypeOK, Load
<1>4. TokensIssued'
  BY <1>1, <1>2 DEF TokensIssued, TypeOK, Load
<1>5. ActsAsShown'
  BY <1>2 DEF ActsAsShown, TypeOK, Load, Mounted, StoreAgrees
<1>. QED
  BY <1>1, <1>3, <1>4, <1>5 DEF StoreAgrees, RefusedNotStored

\* The store is emptied by a tab that then leaves its page, or shows the login form:
\* every other tab has been passed by, unless the store was empty.
LEMMA EmptyKeeps ==
  ASSUME BrowserInv, NEW t \in Tab, Stored(t, Empty),
         NEW ask \in Asks, refused' \subseteq refused \cup ({ask.token} \cap Issued),
         TypeOK', leaving \subseteq leaving',
         \A u \in Tab : asks'[u] \subseteq asks[u],
         \A u \in Tab \ {t} : page'[u] = page[u] /\ user'[u] = user[u],
         page'[t] = "dashboard" => t \in leaving',
         UNCHANGED server
  PROVE  BrowserInv'
<1>. USE DEF BrowserInv, server
<1>1. Issued' = Issued
  BY DEF Issued
<1>2. store' = Empty /\ store'.token = 0 /\ store'.user = Nobody
  BY DEF Stored, Empty
<1>3. StoreAgrees'
  BY <1>2 DEF StoreAgrees
<1>4. TokensIssued'
  BY <1>1 DEF TokensIssued
<1>5. ActsAsShown'
  <2>. SUFFICES ASSUME NEW u \in Tab, u \notin shared', page'[u] = "dashboard"
                PROVE  u \in leaving'
    BY <1>2 DEF ActsAsShown
  <2>1. CASE u = t
    BY <2>1
  <2>2. CASE u # t
    BY <2>2, <1>2 DEF Stored, ActsAsShown, TypeOK
  <2>. QED
    BY <2>1, <2>2
<1>6. RefusedNotStored'
  BY <1>2, ZeroIsNoToken DEF RefusedNotStored, TypeOK
<1>. QED
  BY <1>3, <1>4, <1>5, <1>6

\* The store keeps what it holds, and no page changes its mind.
LEMMA StoreStays ==
  ASSUME BrowserInv, TypeOK', UNCHANGED <<owner, store, refused>>,
         leaving' = leaving, shared' = shared,
         \A u \in Tab : /\ page'[u] = "dashboard" => page[u] = "dashboard"
                        /\ user'[u] = user[u],
         \A u \in Tab : \A ask \in asks'[u] :
           ask \in asks[u] \/ (ask.token \in {0, store.token}
                               /\ (ask.form # "none" => ask.person \in Person))
  PROVE  BrowserInv'
<1>. USE DEF BrowserInv
<1>1. Issued' = Issued
  BY DEF Issued
<1>2. StoreAgrees' /\ RefusedNotStored'
  BY <1>1 DEF StoreAgrees, RefusedNotStored
<1>3. TokensIssued'
  BY <1>1 DEF TokensIssued, StoreAgrees
<1>4. ActsAsShown'
  BY DEF ActsAsShown
<1>. QED
  BY <1>2, <1>3, <1>4

\* A sign-in stores a token nobody has seen, so every other tab is passed by.
LEMMA SignedInKeeps ==
  ASSUME BrowserInv, NEW t \in Tab, NEW ask \in asks[t], NEW n \in Token, SignedIn(t, ask, n)
  PROVE  BrowserInv'
<1>. USE BrowserAssumption DEF BrowserInv
<1>1. /\ ask \in Asks /\ ask.person \in Person /\ n \notin Issued
      /\ store' = [token |-> n, user |-> ask.person]
      /\ store'.token = n /\ store'.user = ask.person
  BY DEF TypeOK, TokensIssued, SignedIn, HandleLogin, Stored, Issued
<1>2. owner' = [owner EXCEPT ![n] = ask.person] /\ owner'[n] = ask.person
  BY <1>1 DEF TypeOK, SignedIn
<1>3. Issued' = Issued \cup {n}
  BY <1>1, <1>2 DEF Issued, TypeOK
<1>4. store' # store
  BY <1>1, ZeroIsNoToken DEF StoreAgrees
<1>5. \A u \in Tab \ shared' : u = t
  BY <1>4 DEF SignedIn, HandleLogin, Stored
<1>6. /\ Request(store') \in Asks
      /\ Request(store').token = n
      /\ Request(store').form = "none"
  BY <1>1 DEF Request, Asks
<1>7. TypeOK'
  <2>1. store' \in Stores
    BY <1>1 DEF Stores
  <2>2. owner' \in [Token -> Person \cup {Nobody}]
    BY <1>1, <1>2 DEF TypeOK
  <2>3. asks' \in [Tab -> SUBSET Asks]
    BY <1>6 DEF SignedIn, TypeOK
  <2>4. page' \in [Tab -> {"login", "register", "dashboard"}] /\ user' \in [Tab -> Person \cup {Nobody}]
    BY <1>1 DEF SignedIn, HandleLogin, TypeOK
  <2>5. shared' \subseteq Tab
    BY DEF SignedIn, HandleLogin, Stored, TypeOK
  <2>. QED
    BY <2>1, <2>2, <2>3, <2>4, <2>5 DEF SignedIn, TypeOK
<1>8. StoreAgrees'
  BY <1>1, <1>2, <1>3, ZeroIsNoToken DEF StoreAgrees
<1>9. TokensIssued'
  <2>1. \A u \in Tab : \A other \in asks'[u] :
          other \in asks[u] \/ other = Request(store')
    BY DEF SignedIn, TypeOK
  <2>. QED
    BY <1>3, <1>6, <2>1 DEF TokensIssued, SignedIn
<1>10. ActsAsShown'
  BY <1>1, <1>2, <1>5, ZeroIsNoToken DEF ActsAsShown, SignedIn, HandleLogin, TypeOK
<1>11. RefusedNotStored'
  BY <1>1 DEF RefusedNotStored, TokensIssued, SignedIn
<1>. QED
  BY <1>7, <1>8, <1>9, <1>10, <1>11

\* The interceptor's answers: a wrong password, or a token that is no good any more.
LEMMA AnswerKeeps ==
  ASSUME BrowserInv, NEW t \in Tab, NEW ask \in asks[t], WrongPassword(t, ask) \/ Refused(t, ask)
  PROVE  BrowserInv'
<1>. USE DEF BrowserInv
<1>1. ask \in Asks /\ ask.token \in {0} \cup Issued
  BY DEF TypeOK, TokensIssued
<1>2. Stored(t, Empty) /\ leaving' = leaving \cup {t} /\ asks' = [asks EXCEPT ![t] = @ \ {ask}]
  BY DEF WrongPassword, Refused, Interceptor401
<1>3. refused' \subseteq refused \cup ({ask.token} \cap Issued)
  BY <1>1, ZeroIsNoToken DEF WrongPassword, Refused
<1>4. Empty \in Stores
  BY DEF Empty, Stores
<1>5. TypeOK'
  <2>1. asks' \in [Tab -> SUBSET Asks]
    BY <1>2 DEF TypeOK
  <2>2. busy' \subseteq Tab /\ error' \subseteq Tab
    BY DEF WrongPassword, Refused, TypeOK
  <2>3. shared' \subseteq Tab /\ store' \in Stores
    BY <1>2, <1>4 DEF Stored, TypeOK
  <2>4. refused' \subseteq Token
    BY <1>3 DEF TypeOK, Issued
  <2>. QED
    BY <1>2, <2>1, <2>2, <2>3, <2>4 DEF WrongPassword, Refused, TypeOK, server
<1>6. UNCHANGED <<server, page, user>>
  BY DEF WrongPassword, Refused
<1>7. \A u \in Tab : asks'[u] \subseteq asks[u]
  BY <1>2 DEF TypeOK
<1>. QED
  BY <1>1, <1>2, <1>3, <1>5, <1>6, <1>7, EmptyKeeps

\* Sign-out: the store is emptied and the tab shows the login form.
LEMMA SignOutKeeps ==
  ASSUME BrowserInv, NEW t \in Tab, SignOut(t)
  PROVE  BrowserInv'
<1>. USE DEF BrowserInv
<1>1. Empty \in Stores /\ [form |-> "none", person |-> Nobody, token |-> 0] \in Asks
  BY DEF Empty, Stores, Asks
<1>2. TypeOK'
  BY <1>1 DEF SignOut, Stored, TypeOK, server
<1>3. page'[t] # "dashboard" /\ \A u \in Tab \ {t} : page'[u] = page[u] /\ user'[u] = user[u]
  BY DEF SignOut, TypeOK
<1>. QED
  BY <1>1, <1>2, <1>3, EmptyKeeps DEF SignOut

\* The steps that leave the store alone.
LEMMA OtherKeeps ==
  ASSUME BrowserInv, NEW t \in Tab,
         \/ SwitchForm(t) \/ Use(t)
         \/ \E p \in Person : Submit(t, p)
         \/ \E ask \in asks[t] : Forbidden(t, ask) \/ OtherAnswer(t, ask)
  PROVE  BrowserInv'
<1>. USE DEF BrowserInv, server
<1>1. CASE SwitchForm(t)
  <2>1. TypeOK'
    BY <1>1 DEF SwitchForm, TypeOK
  <2>. QED
    BY <1>1, <2>1, StoreStays DEF SwitchForm, TypeOK
<1>2. CASE Use(t)
  <2>1. Request(store) \in Asks /\ Request(store).token = store.token /\ Request(store).form = "none"
    BY DEF Request, Asks, TypeOK, Stores
  <2>2. TypeOK'
    BY <1>2, <2>1 DEF Use, Ask, TypeOK
  <2>. QED
    BY <1>2, <2>1, <2>2, StoreStays DEF Use, Ask, TypeOK
<1>3. ASSUME NEW p \in Person, Submit(t, p) PROVE BrowserInv'
  <2>1. [form |-> page[t], person |-> p, token |-> 0] \in Asks
    BY <1>3 DEF Asks, TypeOK, Stores, Submit
  <2>2. TypeOK'
    BY <1>3, <2>1 DEF Submit, Ask, TypeOK
  <2>. QED
    BY <1>3, <2>1, <2>2, StoreStays DEF Submit, Ask, TypeOK
<1>4. ASSUME NEW ask \in asks[t], Forbidden(t, ask) \/ OtherAnswer(t, ask) PROVE BrowserInv'
  <2>1. TypeOK'
    BY <1>4 DEF Forbidden, OtherAnswer, TypeOK
  <2>. QED
    BY <1>4, <2>1, StoreStays DEF Forbidden, OtherAnswer, TypeOK
<1>. QED
  BY <1>1, <1>2, <1>3, <1>4

LEMMA NextBrowser == BrowserInv /\ [Next]_vars => BrowserInv'
<1>. SUFFICES ASSUME BrowserInv, [Next]_vars PROVE BrowserInv'
  OBVIOUS
<1>1. ASSUME NEW t \in Tab, Reload(t) \/ Navigate(t) PROVE BrowserInv'
  BY <1>1, LoadKeeps DEF Reload, Navigate, BrowserInv, TypeOK
<1>2. ASSUME NEW n \in Token, Expire(n) PROVE BrowserInv'
  <2>1. TypeOK'
    BY <1>2 DEF Expire, TypeOK, BrowserInv
  <2>. QED
    BY <1>2, <2>1, StoreStays DEF Expire
<1>3. ASSUME NEW p \in Person, Deactivate(p) PROVE BrowserInv'
  <2>1. TypeOK'
    BY <1>3 DEF Deactivate, TypeOK, BrowserInv
  <2>. QED
    BY <1>3, <2>1, StoreStays DEF Deactivate
<1>4. CASE UNCHANGED vars
  BY <1>4 DEF vars, server, BrowserInv, TypeOK, StoreAgrees, TokensIssued, ActsAsShown,
              RefusedNotStored, Issued
<1>. QED
  BY <1>1, <1>2, <1>3, <1>4, SignedInKeeps, AnswerKeeps, SignOutKeeps, OtherKeeps DEF Next

\* The store, the tokens under way and what each tab shows agree through every late
\* answer, sign-out and expiry.
THEOREM BrowserInvariant == Spec => []BrowserInv
BY InitBrowser, NextBrowser, PTL DEF Spec

\* A dashboard acts for the user it names, or for nobody, unless another tab has signed
\* in or out since it last read or wrote the store (client/src/App.jsx,
\* client/src/api/client.js).
THEOREM TabsActAsShown == Spec => []ActsAsShown
BY BrowserInvariant, PTL DEF BrowserInv

\* A token answered 401 is never in the store again: tokens are not issued twice, and what
\* a tab hears late empties the store (client/src/api/client.js:31-41).
THEOREM RefusedStaysOut == Spec => []RefusedNotStored
BY BrowserInvariant, PTL DEF BrowserInv
==============================================================================
