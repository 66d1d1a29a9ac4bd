-------------------------- MODULE RegistrationProofs ---------------------------
(***************************************************************************)
(* Proofs about registration, for any number of requests, addresses and    *)
(* spellings.                                                              *)
(*                                                                         *)
(* RegistrationInv is inductive: a row can only be drafted when nobody     *)
(* else has drafted or committed its address, and until it is committed    *)
(* the index keeps it so.  With it, the only step seen from outside is a   *)
(* commit, which gives one free address to one request.                    *)
(***************************************************************************)
EXTENDS Registration, TLAPS

LEMMA InitRegistration == Init => RegistrationInv
<1>. SUFFICES ASSUME Init PROVE RegistrationInv
  OBVIOUS
<1>1. TypeOK
  BY DEF Init, TypeOK, Statement
<1>2. DraftsFollowStatements /\ IndexHolds /\ RowsHaveRequests
  BY DEF Init, DraftsFollowStatements, IndexHolds, RowsHaveRequests
<1>3. EveryUserHasWallet /\ AnswersAreTrue
  BY DEF Init, EveryUserHasWallet, AnswersAreTrue
<1>. QED
  BY <1>1, <1>2, <1>3 DEF RegistrationInv

\* A step of one request that commits nothing: its draft matches its new statement,
\* a newly drafted user is alone with its address, and what it answers is true.
LEMMA UncommittedStep ==
  ASSUME RegistrationInv, NEW r \in Request, pc[r] \notin {"respond", "done"},
         UNCHANGED <<typed, users, wallets>>,
         NEW statement \in Statement \ {"respond"}, pc' = [pc EXCEPT ![r] = statement],
         NEW rows \in SUBSET {"user", "wallet"}, draft' = [draft EXCEPT ![r] = rows],
         statement = "createWallet" => rows = {"user"},
         statement = "commit" => rows = {"user", "wallet"},
         statement \notin {"createWallet", "commit"} => rows = {},
         "user" \in rows =>
           "user" \in draft[r] \/ (~ Contended(r) /\ ~ Taken(EmailOf(r))),
         NEW code \in {"none", "lost", "409", "500"},
         status' = [status EXCEPT ![r] = code] \/ status' = status,
         code = "409" => Taken(EmailOf(r))
  PROVE  RegistrationInv'
<1>. USE DEF RegistrationInv
<1>1. /\ pc'[r] = statement /\ \A q \in Request : q # r => pc'[q] = pc[q]
      /\ draft'[r] = rows /\ \A q \in Request : q # r => draft'[q] = draft[q]
      /\ \A q : EmailOf(q)' = EmailOf(q) /\ RowOf(q)' = RowOf(q)
      /\ \A e : Taken(e)' <=> Taken(e)
  BY DEF TypeOK, EmailOf, RowOf, Taken
<1>2. TypeOK'
  BY DEF TypeOK, Statement
<1>3. DraftsFollowStatements'
  BY <1>1 DEF DraftsFollowStatements
<1>4. IndexHolds'
  <2>1. ASSUME NEW q \in Request, "user" \in draft'[q]
        PROVE  ~ Taken(EmailOf(q)) /\ \A p \in Request \ {q} :
                 "user" \in draft'[p] => EmailOf(p) # EmailOf(q)
    <3>1. "user" \in draft[q] \/ (q = r /\ ~ Contended(r) /\ ~ Taken(EmailOf(r)))
      BY <2>1, <1>1
    <3>2. ~ Contended(q) /\ ~ Taken(EmailOf(q))
      BY <3>1 DEF IndexHolds
    <3>3. ASSUME NEW p \in Request \ {q}, "user" \in draft'[p] PROVE EmailOf(p) # EmailOf(q)
      <4>1. "user" \in draft[p] \/ (p = r /\ ~ Contended(r))
        BY <3>3, <1>1
      <4>2. CASE "user" \in draft[p]
        BY <4>2, <3>2, <3>3 DEF Contended
      <4>3. CASE p = r /\ ~ Contended(r)
        <5>1. q # r /\ "user" \in draft[q]
          BY <4>3, <3>3, <2>1, <1>1
        <5>. QED
          BY <5>1, <4>3 DEF Contended
      <4>. QED
        BY <4>1, <4>2, <4>3
    <3>. QED
      BY <3>2, <3>3
  <2>. QED
    BY <2>1, <1>1 DEF IndexHolds, Contended
<1>5. RowsHaveRequests'
  BY <1>1 DEF RowsHaveRequests, TypeOK, Row
<1>6. EveryUserHasWallet'
  BY DEF EveryUserHasWallet
<1>7. AnswersAreTrue'
  <2>1. \A u \in users : u.id \in Request /\ u.id # r
    BY DEF RowsHaveRequests, TypeOK, Row
  <2>2. \A q \in Request : status'[q] = status[q] \/ (q = r /\ status'[q] = code)
    BY DEF TypeOK
  <2>. QED
    BY <1>1, <2>1, <2>2 DEF AnswersAreTrue, Taken
<1>. QED
  BY <1>2, <1>3, <1>4, <1>5, <1>6, <1>7

\* The step that ends a request without a commit, and drops its draft.
LEMMA UncommittedEnd ==
  ASSUME RegistrationInv, NEW r \in Request, pc[r] \notin {"respond", "done"},
         UNCHANGED <<typed, users, wallets>>,
         pc' = [pc EXCEPT ![r] = "done"], draft' = [draft EXCEPT ![r] = {}],
         NEW code \in {"lost", "409", "500"}, status' = [status EXCEPT ![r] = code],
         code = "409" => Taken(EmailOf(r))
  PROVE  RegistrationInv'
<1>1. PICK statement : statement = "done"
  OBVIOUS
<1>2. PICK rows : rows = {}
  OBVIOUS
<1>3. /\ statement \in Statement \ {"respond"} /\ statement \notin {"createWallet", "commit"}
      /\ rows \in SUBSET {"user", "wallet"} /\ "user" \notin rows
      /\ code \in {"none", "lost", "409", "500"}
  BY <1>1, <1>2 DEF Statement
<1>4. pc' = [pc EXCEPT ![r] = statement] /\ draft' = [draft EXCEPT ![r] = rows]
  BY <1>1, <1>2
<1>. QED
  BY <1>2, <1>3, <1>4, UncommittedStep

\* What a commit finds: both rows drafted, and the address free.
LEMMA CommitFacts ==
  ASSUME RegistrationInv, NEW r \in Request, pc[r] = "commit", Committed(r)
  PROVE  /\ users' = users \cup {RowOf(r)} /\ wallets' = wallets \cup {r}
         /\ draft' = [draft EXCEPT ![r] = {}] /\ typed' = typed
         /\ RowOf(r) \in Row
         /\ RowOf(r).email = EmailOf(r) /\ RowOf(r).id = r
         /\ ~ Contended(r) /\ ~ Taken(EmailOf(r))
         /\ r \notin wallets
<1>. USE DEF RegistrationInv
<1>1. draft[r] = {"user", "wallet"}
  BY DEF DraftsFollowStatements
<1>2. RowOf(r) \in Row /\ RowOf(r).email = EmailOf(r) /\ RowOf(r).id = r
  BY RegistrationAssumption DEF TypeOK, RowOf, EmailOf, Row
<1>3. r \notin wallets
  BY DEF EveryUserHasWallet, RowsHaveRequests
<1>. QED
  BY <1>1, <1>2, <1>3 DEF Committed, IndexHolds

LEMMA CommitKeeps ==
  ASSUME RegistrationInv, NEW r \in Request, Commit(r) \/ CommitUnheard(r)
  PROVE  RegistrationInv'
<1>. USE DEF RegistrationInv
<1>0. pc[r] = "commit" /\ Committed(r)
  BY DEF Commit, CommitUnheard
<1>1. /\ users' = users \cup {RowOf(r)} /\ wallets' = wallets \cup {r}
      /\ draft' = [draft EXCEPT ![r] = {}] /\ typed' = typed
      /\ RowOf(r) \in Row
      /\ RowOf(r).email = EmailOf(r) /\ RowOf(r).id = r
      /\ ~ Contended(r) /\ ~ Taken(EmailOf(r))
  BY <1>0, CommitFacts
<1>2. PICK statement \in {"respond", "done"}, code \in {"500", "lost"} :
        /\ pc' = [pc EXCEPT ![r] = statement]
        /\ status' = [status EXCEPT ![r] = code] \/ status' = status
  BY DEF Commit, CommitUnheard, Answer, GoTo
<1>3. /\ pc'[r] = statement /\ \A q \in Request : q # r => pc'[q] = pc[q]
      /\ draft'[r] = {} /\ \A q \in Request : q # r => draft'[q] = draft[q]
      /\ \A q : EmailOf(q)' = EmailOf(q) /\ RowOf(q)' = RowOf(q)
      /\ \A e : Taken(e)' <=> Taken(e) \/ e = EmailOf(r)
  BY <1>1, <1>2 DEF TypeOK, EmailOf, RowOf, Taken
<1>4. TypeOK'
  BY <1>1, <1>2 DEF TypeOK, Statement
<1>5. DraftsFollowStatements'
  BY <1>3 DEF DraftsFollowStatements
<1>6. IndexHolds'
  <2>1. ASSUME NEW q \in Request, "user" \in draft'[q]
        PROVE  ~ Contended(q)' /\ ~ Taken(EmailOf(q))'
    <3>1. q # r /\ "user" \in draft[q] /\ ~ Contended(q) /\ ~ Taken(EmailOf(q))
      BY <2>1, <1>3 DEF IndexHolds
    <3>2. EmailOf(q) # EmailOf(r)
      BY <3>1, <1>1 DEF Contended
    <3>. QED
      BY <3>1, <3>2, <1>3 DEF Contended
  <2>2. \A u, v \in users' : u.email = v.email => u = v
    BY <1>1 DEF IndexHolds, Taken
  <2>3. \A q \in Request : EmailOf(q)' = EmailOf(q)
    BY <1>3
  <2>. QED
    BY <2>1, <2>2, <2>3 DEF IndexHolds
<1>7. RowsHaveRequests'
  BY <1>1, <1>2, <1>3 DEF RowsHaveRequests, TypeOK, Row
<1>8. EveryUserHasWallet'
  BY <1>1 DEF EveryUserHasWallet
<1>9. AnswersAreTrue'
  <2>1. \A q \in Request : status'[q] = status[q] \/ status'[q] \in {"500", "lost"}
    BY <1>2 DEF TypeOK
  <2>. QED
    BY <2>1, <1>1, <1>3 DEF AnswersAreTrue
<1>. QED
  BY <1>4, <1>5, <1>6, <1>7, <1>8, <1>9

LEMMA RespondKeeps ==
  ASSUME RegistrationInv, NEW r \in Request, Respond(r)
  PROVE  RegistrationInv'
<1>. USE DEF RegistrationInv
<1>1. /\ pc[r] = "respond" /\ pc' = [pc EXCEPT ![r] = "done"]
      /\ UNCHANGED <<typed, users, wallets, draft>>
      /\ \A q : EmailOf(q)' = EmailOf(q) /\ RowOf(q)' = RowOf(q)
      /\ \A e : Taken(e)' <=> Taken(e)
  BY DEF Respond, Answer, GoTo, EmailOf, RowOf, Taken
<1>2. PICK code \in {"201", "lost"} : status' = [status EXCEPT ![r] = code]
  BY DEF Respond, Answer
<1>3. TypeOK'
  BY <1>1, <1>2 DEF TypeOK, Statement
<1>4. DraftsFollowStatements'
  BY <1>1 DEF DraftsFollowStatements, TypeOK
<1>5. IndexHolds'
  BY <1>1 DEF IndexHolds, Contended
<1>6. RowsHaveRequests'
  BY <1>1 DEF RowsHaveRequests, TypeOK, Row
<1>7. EveryUserHasWallet'
  BY <1>1 DEF EveryUserHasWallet
<1>8. AnswersAreTrue'
  <2>1. \A q \in Request :
          status'[q] = status[q] \/ (q = r /\ status'[q] \in {"201", "lost"})
    BY <1>2 DEF TypeOK
  <2>. QED
    BY <2>1, <1>1 DEF AnswersAreTrue, RowsHaveRequests
<1>. QED
  BY <1>3, <1>4, <1>5, <1>6, <1>7, <1>8

LEMMA CrashKeeps ==
  ASSUME RegistrationInv, NEW R \in SUBSET Request, Crash(R)
  PROVE  RegistrationInv'
<1>. USE DEF RegistrationInv
<1>1. /\ UNCHANGED <<typed, users, wallets>>
      /\ \A q \in Request :
           \/ q \in R /\ pc'[q] = "done" /\ draft'[q] = {} /\ status'[q] = "lost"
           \/ q \notin R /\ pc'[q] = pc[q] /\ draft'[q] = draft[q] /\ status'[q] = status[q]
      /\ \A q : EmailOf(q)' = EmailOf(q) /\ RowOf(q)' = RowOf(q)
      /\ \A e : Taken(e)' <=> Taken(e)
  BY DEF Crash, EmailOf, RowOf, Taken
<1>2. TypeOK'
  BY DEF Crash, TypeOK, Statement
<1>3. DraftsFollowStatements'
  BY <1>1 DEF DraftsFollowStatements
<1>4. IndexHolds'
  BY <1>1 DEF IndexHolds, Contended
<1>5. RowsHaveRequests' /\ EveryUserHasWallet'
  BY <1>1 DEF RowsHaveRequests, EveryUserHasWallet, TypeOK, Row
<1>6. AnswersAreTrue'
  BY <1>1 DEF AnswersAreTrue
<1>. QED
  BY <1>2, <1>3, <1>4, <1>5, <1>6

\* Every step keeps the invariant.
LEMMA NextRegistration == RegistrationInv /\ [Next]_vars => RegistrationInv'
<1>. SUFFICES ASSUME RegistrationInv, [Next]_vars PROVE RegistrationInv'
  OBVIOUS
<1>0. /\ \A r \in Request : draft[r] \in SUBSET {"user", "wallet"}
      /\ draft = [r \in Request |-> draft[r]]
      /\ \A r \in Request : draft = [draft EXCEPT ![r] = draft[r]]
      /\ \A r \in Request : pc[r] = "check" => draft[r] = {}
  BY DEF RegistrationInv, TypeOK, DraftsFollowStatements
<1>1. ASSUME NEW r \in Request, Check(r) PROVE RegistrationInv'
  <2>1. CASE Taken(EmailOf(r)) /\ Answer(r, "409")
    <3>1. PICK code \in {"409", "lost"} : status' = [status EXCEPT ![r] = code]
      BY <2>1 DEF Answer
    <3>2. /\ pc[r] = "check" /\ pc' = [pc EXCEPT ![r] = "done"]
          /\ draft' = [draft EXCEPT ![r] = {}] /\ UNCHANGED <<typed, users, wallets>>
      BY <2>1, <1>0, <1>1 DEF Check, Answer, GoTo
    <3>. QED
      BY <3>1, <3>2, <2>1, UncommittedEnd
  <2>2. CASE GoTo(r, "createUser") /\ UNCHANGED status
    <3>1. /\ pc[r] = "check" /\ pc' = [pc EXCEPT ![r] = "createUser"]
          /\ draft' = [draft EXCEPT ![r] = {}] /\ UNCHANGED <<typed, users, wallets, status>>
      BY <2>2, <1>0, <1>1 DEF Check, GoTo
    <3>2. PICK statement, rows, code : statement = "createUser" /\ rows = {} /\ code = "none"
      OBVIOUS
    <3>3. /\ statement \in Statement \ {"respond"} /\ statement \notin {"createWallet", "commit"}
          /\ rows \in SUBSET {"user", "wallet"} /\ "user" \notin rows
          /\ code \in {"none", "lost", "409", "500"} /\ code # "409"
      BY <3>2 DEF Statement
    <3>. QED
      BY <3>1, <3>2, <3>3, UncommittedStep
  <2>. QED
    BY <1>1, <2>1, <2>2 DEF Check
<1>2. ASSUME NEW r \in Request, CreateUser(r) PROVE RegistrationInv'
  BY <1>2, UncommittedStep DEF CreateUser, GoTo, Statement
<1>3. ASSUME NEW r \in Request, EmailTaken(r) PROVE RegistrationInv'
  <2>1. PICK code \in {"409", "lost"} : status' = [status EXCEPT ![r] = code]
    BY <1>3 DEF EmailTaken, Answer
  <2>2. /\ pc[r] = "createUser" /\ Taken(EmailOf(r)) /\ pc' = [pc EXCEPT ![r] = "done"]
        /\ draft' = [draft EXCEPT ![r] = {}] /\ UNCHANGED <<typed, users, wallets>>
    BY <1>3 DEF EmailTaken, Answer, GoTo
  <2>. QED
    BY <2>1, <2>2, UncommittedEnd
<1>4. ASSUME NEW r \in Request, CreateWallet(r) PROVE RegistrationInv'
  <2>1. draft[r] = {"user"} /\ draft[r] \cup {"wallet"} = {"user", "wallet"}
    BY <1>4 DEF CreateWallet, RegistrationInv, DraftsFollowStatements
  <2>2. PICK statement, rows, code :
          statement = "commit" /\ rows = {"user", "wallet"} /\ code = "none"
    OBVIOUS
  <2>3. /\ statement \in Statement \ {"respond"} /\ statement # "createWallet"
        /\ rows \in SUBSET {"user", "wallet"} /\ "user" \in draft[r]
        /\ code \in {"none", "lost", "409", "500"} /\ code # "409"
    BY <2>1, <2>2 DEF Statement
  <2>4. /\ pc[r] = "createWallet" /\ UNCHANGED <<typed, users, wallets, status>>
        /\ pc' = [pc EXCEPT ![r] = statement] /\ draft' = [draft EXCEPT ![r] = rows]
    BY <1>4, <2>1, <2>2 DEF CreateWallet, GoTo
  <2>. QED
    BY <2>2, <2>3, <2>4, UncommittedStep
<1>5. ASSUME NEW r \in Request, Fail(r) PROVE RegistrationInv'
  <2>1. PICK code \in {"500", "lost"} : status' = [status EXCEPT ![r] = code]
    BY <1>5 DEF Fail, Answer
  <2>2. /\ pc[r] \notin {"respond", "done"} /\ pc' = [pc EXCEPT ![r] = "done"]
        /\ draft' = [draft EXCEPT ![r] = {}] /\ UNCHANGED <<typed, users, wallets>>
    BY <1>5 DEF Fail, Answer, GoTo
  <2>. QED
    BY <2>1, <2>2, UncommittedEnd
<1>6. CASE UNCHANGED vars
  BY <1>6 DEF vars, RegistrationInv, TypeOK, DraftsFollowStatements, IndexHolds,
              RowsHaveRequests, EveryUserHasWallet, AnswersAreTrue, EmailOf, RowOf, Taken,
              Contended
<1>. QED
  BY <1>1, <1>2, <1>3, <1>4, <1>5, <1>6, CommitKeeps, RespondKeeps, CrashKeeps DEF Next, Step

THEOREM RegistrationInvariant == Spec => []RegistrationInv
BY InitRegistration, NextRegistration, PTL DEF Spec

\* However many registrations of one address race, one of them gets it.
THEOREM AddressesAreUnique == Spec => []OneUserPerAddress
<1>1. RegistrationInv => OneUserPerAddress
  <2>. SUFFICES ASSUME RegistrationInv, NEW u \in users, NEW v \in users,
                       Normalise[u.email] = Normalise[v.email]
                PROVE  u = v
    BY DEF OneUserPerAddress
  <2>1. ASSUME NEW w \in users PROVE Normalise[w.email] = w.email
    <3>1. w = RowOf(w.id) /\ w.id \in Request
      BY DEF RegistrationInv, RowsHaveRequests, TypeOK, Row
    <3>2. w.email = Normalise[typed[w.id]] /\ typed[w.id] \in Spelling
      BY <3>1 DEF RowOf, EmailOf, RegistrationInv, TypeOK
    <3>. QED
      BY <3>2, RegistrationAssumption
  <2>. QED
    BY <2>1 DEF RegistrationInv, IndexHolds
<1>. QED
  BY <1>1, RegistrationInvariant, PTL

\* Whatever fails between the two rows, nobody is left without a wallet.
THEOREM NoOrphans == Spec => []EveryUserHasWallet
BY RegistrationInvariant, PTL DEF RegistrationInv

\* A 201 is of a user that exists, a 409 of an address that is really taken.
THEOREM AnswersTrue == Spec => []AnswersAreTrue
BY RegistrationInvariant, PTL DEF RegistrationInv

\* What OwnerOf says of a taken address.
LEMMA OwnerFacts ==
  ASSUME RegistrationInv
  PROVE  \A u \in users : Taken(u.email) /\ OwnerOf(u.email) = u.id
<1>. SUFFICES ASSUME NEW u \in users PROVE Taken(u.email) /\ OwnerOf(u.email) = u.id
  OBVIOUS
<1>1. Taken(u.email)
  BY DEF Taken
<1>2. (CHOOSE v \in users : v.email = u.email) = u
  BY DEF RegistrationInv, IndexHolds
<1>. QED
  BY <1>1, <1>2 DEF OwnerOf

\* A commit gives one free address to one request.
LEMMA CommitRegisters ==
  ASSUME RegistrationInv, NEW r \in Request, pc[r] = "commit", Committed(r)
  PROVE  Abstract!Register(EmailOf(r), r)
<1>1. /\ users' = users \cup {RowOf(r)} /\ wallets' = wallets \cup {r}
      /\ RowOf(r).email = EmailOf(r) /\ RowOf(r).id = r
      /\ ~ Taken(EmailOf(r)) /\ r \notin wallets
      /\ EmailOf(r) \in Spelling
  BY CommitFacts, RegistrationAssumption DEF RegistrationInv, TypeOK, EmailOf
<1>2. OwnerOf(EmailOf(r)) = Nobody
  BY <1>1 DEF OwnerOf
<1>3. \A a \in Spelling :
        OwnerOf(a)' = IF a = EmailOf(r) THEN r ELSE OwnerOf(a)
  <2>. SUFFICES ASSUME NEW a \in Spelling
                PROVE  OwnerOf(a)' = IF a = EmailOf(r) THEN r ELSE OwnerOf(a)
    OBVIOUS
  <2>1. CASE a = EmailOf(r)
    <3>1. \A u \in users' : u.email = a => u = RowOf(r)
      BY <2>1, <1>1 DEF Taken
    <3>2. Taken(a)' /\ (CHOOSE u \in users' : u.email = a) = RowOf(r)
      BY <2>1, <1>1, <3>1 DEF Taken
    <3>. QED
      BY <2>1, <1>1, <3>2 DEF OwnerOf
  <2>2. CASE a # EmailOf(r)
    <3>1. \A u : (u \in users' /\ u.email = a) <=> (u \in users /\ u.email = a)
      BY <2>2, <1>1
    <3>2. Taken(a)' <=> Taken(a)
      BY <3>1 DEF Taken
    <3>3. CASE Taken(a)
      <4>1. PICK v \in users : v.email = a
        BY <3>3 DEF Taken
      <4>2. /\ v \in users' /\ \A u \in users' : u.email = a => u = v
            /\ \A u \in users : u.email = a => u = v
        BY <4>1, <3>1 DEF RegistrationInv, IndexHolds
      <4>3. (CHOOSE u \in users : u.email = a) = v
        BY <4>1, <4>2
      <4>4. (CHOOSE u \in users' : u.email = a) = v
        BY <4>1, <4>2
      <4>5. OwnerOf(a) = v.id
        BY <3>3, <4>3 DEF OwnerOf
      <4>6. OwnerOf(a)' = v.id
        BY <3>2, <3>3, <4>4 DEF OwnerOf
      <4>. QED
        BY <2>2, <4>5, <4>6
    <3>4. CASE ~ Taken(a)
      BY <2>2, <3>2, <3>4 DEF OwnerOf
    <3>. QED
      BY <3>3, <3>4
  <2>. QED
    BY <2>1, <2>2
<1>. QED
  BY <1>1, <1>2, <1>3 DEF Abstract!Register

\* The concurrent service refines the directory that gives addresses away one by one.
THEOREM RegistrationImplementsDirectory == Spec => ImplementsDirectory
<1>1. Init => Abstract!DirectoryInit
  BY DEF Init, Abstract!DirectoryInit, OwnerOf, Taken
<1>2. RegistrationInv /\ [Next]_vars =>
        [Abstract!DirectoryNext]_<<[a \in Spelling |-> OwnerOf(a)], wallets>>
  <2>. SUFFICES ASSUME RegistrationInv, [Next]_vars
                PROVE  [Abstract!DirectoryNext]_<<[a \in Spelling |-> OwnerOf(a)], wallets>>
    OBVIOUS
  <2>1. ASSUME NEW r \in Request, Commit(r) \/ CommitUnheard(r)
        PROVE  Abstract!DirectoryNext
    <3>1. pc[r] = "commit" /\ Committed(r) /\ EmailOf(r) \in Spelling
      BY <2>1, RegistrationAssumption
         DEF Commit, CommitUnheard, RegistrationInv, TypeOK, EmailOf
    <3>. QED
      BY <3>1, CommitRegisters DEF Abstract!DirectoryNext
  <2>2. CASE UNCHANGED <<users, wallets>>
    BY <2>2 DEF OwnerOf, Taken
  <2>3. ASSUME NEW r \in Request,
               \/ Check(r) \/ CreateUser(r) \/ EmailTaken(r) \/ CreateWallet(r)
               \/ Respond(r) \/ Fail(r)
        PROVE  UNCHANGED <<users, wallets>>
    BY <2>3 DEF Check, CreateUser, EmailTaken, CreateWallet, Respond, Fail
  <2>4. ASSUME NEW R \in SUBSET Request, Crash(R) PROVE UNCHANGED <<users, wallets>>
    BY <2>4 DEF Crash
  <2>. QED
    BY <2>1, <2>2, <2>3, <2>4 DEF Next, Step, vars
<1>. QED
  BY <1>1, <1>2, RegistrationInvariant, PTL DEF Spec, ImplementsDirectory, Abstract!DirectorySpec
==============================================================================
