----------------------------- MODULE Registration ------------------------------
(***************************************************************************)
(* POST /auth/register: register of src/services/auth.service.js with the  *)
(* tables users and accounts.  It looks the address up, hashes the         *)
(* password, and writes the user and the wallet in one transaction; two    *)
(* requests for one address may both find it free and meet at the unique   *)
(* index users_email_key.                                                  *)
(*                                                                         *)
(* A user is identified by the request that made it.                       *)
(***************************************************************************)
EXTENDS FiniteSets

CONSTANTS
  Request,
  Spelling,    \* addresses as they are typed
  Normalise,   \* lower case, without spaces around
  Nobody

ASSUME RegistrationAssumption ==
  /\ Normalise \in [Spelling -> Spelling]
  /\ \A s \in Spelling : Normalise[Normalise[s]] = Normalise[s]
  /\ Nobody \notin Request

VARIABLES
  typed,    \* the address each request asks for
  pc,       \* the statement each request is at
  users,    \* committed rows of users
  wallets,  \* committed rows of accounts, by their user
  draft,    \* rows written by each open transaction
  status    \* what each request is answered

vars == <<typed, pc, users, wallets, draft, status>>

Row == [email : Spelling, id : Request]

Statement == {"check", "createUser", "createWallet", "commit", "respond", "done"}

TypeOK ==
  /\ typed \in [Request -> Spelling]
  /\ pc \in [Request -> Statement]
  /\ users \subseteq Row
  /\ wallets \subseteq Request
  /\ draft \in [Request -> SUBSET {"user", "wallet"}]
  /\ status \in [Request -> {"none", "lost", "201", "409", "500"}]

Init ==
  /\ typed \in [Request -> Spelling]
  /\ pc = [r \in Request |-> "check"]
  /\ users = {} /\ wallets = {}
  /\ draft = [r \in Request |-> {}]
  /\ status = [r \in Request |-> "none"]

\* Mutant of EmailOf: the address is stored as it was typed.
EmailAsTyped(r) == typed[r]

EmailOf(r) == Normalise[typed[r]]

RowOf(r) == [email |-> EmailOf(r), id |-> r]

Taken(email) == \E u \in users : u.email = email

\* The unique index makes a second insert wait until the first is decided.
Contended(r) == \E q \in Request \ {r} : "user" \in draft[q] /\ EmailOf(q) = EmailOf(r)

GoTo(r, statement) == pc' = [pc EXCEPT ![r] = statement]

Answer(r, code) ==
  /\ GoTo(r, "done")
  /\ \/ status' = [status EXCEPT ![r] = code]
     \/ status' = [status EXCEPT ![r] = "lost"]

\* findUnique; then the password is hashed.
Check(r) ==
  /\ pc[r] = "check"
  /\ \/ Taken(EmailOf(r)) /\ Answer(r, "409")
     \/ ~ Taken(EmailOf(r)) /\ GoTo(r, "createUser") /\ UNCHANGED status
  /\ UNCHANGED <<typed, users, wallets, draft>>

\* Mutant of CreateUser: users.email without its unique index.
CreateUserNotUnique(r) ==
  /\ pc[r] = "createUser"
  /\ draft' = [draft EXCEPT ![r] = {"user"}]
  /\ GoTo(r, "createWallet")
  /\ UNCHANGED <<typed, users, wallets, status>>

\* Mutant of CreateUser: the user is created outside the transaction.
CreateUserOutside(r) ==
  /\ pc[r] = "createUser" /\ ~ Contended(r) /\ ~ Taken(EmailOf(r))
  /\ users' = users \cup {RowOf(r)}
  /\ GoTo(r, "createWallet")
  /\ UNCHANGED <<typed, draft, wallets, status>>

CreateUser(r) ==
  /\ pc[r] = "createUser" /\ ~ Contended(r) /\ ~ Taken(EmailOf(r))
  /\ draft' = [draft EXCEPT ![r] = {"user"}]
  /\ GoTo(r, "createWallet")
  /\ UNCHANGED <<typed, users, wallets, status>>

\* Mutant of EmailTaken: the index is asked before the other insert is decided.
EmailTakenEarly(r) ==
  /\ pc[r] = "createUser" /\ (Contended(r) \/ Taken(EmailOf(r)))
  /\ draft' = [draft EXCEPT ![r] = {}]
  /\ Answer(r, "409")
  /\ UNCHANGED <<typed, users, wallets>>

\* Mutant of EmailTaken: nobody handles P2002.
EmailTakenUnhandled(r) == pc[r] = "createUser" /\ FALSE

\* P2002: the transaction is rolled back, errorHandler answers 409.
EmailTaken(r) ==
  /\ pc[r] = "createUser" /\ ~ Contended(r) /\ Taken(EmailOf(r))
  /\ draft' = [draft EXCEPT ![r] = {}]
  /\ Answer(r, "409")
  /\ UNCHANGED <<typed, users, wallets>>

CreateWallet(r) ==
  /\ pc[r] = "createWallet"
  /\ draft' = [draft EXCEPT ![r] = @ \cup {"wallet"}]
  /\ GoTo(r, "commit")
  /\ UNCHANGED <<typed, users, wallets, status>>

Committed(r) ==
  /\ users' = users \cup (IF "user" \in draft[r] THEN {RowOf(r)} ELSE {})
  /\ wallets' = wallets \cup (IF "wallet" \in draft[r] THEN {r} ELSE {})
  /\ draft' = [draft EXCEPT ![r] = {}]
  /\ UNCHANGED typed

Commit(r) == pc[r] = "commit" /\ Committed(r) /\ GoTo(r, "respond") /\ UNCHANGED status

\* The connection is lost while the commit is under way, and it had happened.
CommitUnheard(r) == pc[r] = "commit" /\ Committed(r) /\ Answer(r, "500")

\* The token is signed and sent.
Respond(r) ==
  /\ pc[r] = "respond"
  /\ Answer(r, "201")
  /\ UNCHANGED <<typed, users, wallets, draft>>

\* A statement fails, or the transaction runs out of time.
Fail(r) ==
  /\ pc[r] \in {"check", "createUser", "createWallet", "commit"}
  /\ draft' = [draft EXCEPT ![r] = {}]
  /\ Answer(r, "500")
  /\ UNCHANGED <<typed, users, wallets>>

\* A server dies: open transactions are rolled back, nobody is answered.
Crash(R) ==
  /\ \A r \in R : pc[r] # "done"
  /\ draft' = [r \in Request |-> IF r \in R THEN {} ELSE draft[r]]
  /\ pc' = [r \in Request |-> IF r \in R THEN "done" ELSE pc[r]]
  /\ status' = [r \in Request |-> IF r \in R THEN "lost" ELSE status[r]]
  /\ UNCHANGED <<typed, users, wallets>>

Step(r) ==
  \/ Check(r) \/ CreateUser(r) \/ EmailTaken(r) \/ CreateWallet(r)
  \/ Commit(r) \/ Respond(r)

Next ==
  \/ \E r \in Request : Step(r) \/ CommitUnheard(r) \/ Fail(r)
  \/ \E R \in (SUBSET Request) \ {{}} : Crash(R)

Spec == Init /\ [][Next]_vars

\* Node runs the continuations of its requests, PostgreSQL its statements.
FairSpec == Spec /\ \A r \in Request : WF_vars(Step(r))

(***************************************************************************)
(* Properties                                                              *)
(***************************************************************************)

\* However registrations race, one address, in whatever spelling, has one user.
OneUserPerAddress ==
  \A u, v \in users : Normalise[u.email] = Normalise[v.email] => u = v

\* "no orphaned users without accounts" (src/services/auth.service.js:37), whatever
\* fails or crashes between the two rows.
EveryUserHasWallet == {u.id : u \in users} = wallets

\* A 201 is said of a user that exists, a 409 only of an address somebody else has:
\* never because another registration was under way, which may yet fail.
AnswersAreTrue ==
  \A r \in Request :
    /\ status[r] = "201" => RowOf(r) \in users
    /\ status[r] = "409" => \E u \in users : u.email = EmailOf(r) /\ u.id # r

\* No registration waits for ever at the index or for another one.
EveryRegistrationEnds == \A r \in Request : pc[r] # "done" ~> pc[r] = "done"

\* Seen from outside, addresses are given away one by one.
OwnerOf(address) ==
  IF Taken(address) THEN (CHOOSE u \in users : u.email = address).id ELSE Nobody

Abstract == INSTANCE Directory WITH
  Address <- Spelling, owner <- [a \in Spelling |-> OwnerOf(a)]

ImplementsDirectory == Abstract!DirectorySpec

(***************************************************************************)
(* Why these hold                                                          *)
(***************************************************************************)

\* Where a request is says what it has written.
DraftsFollowStatements ==
  \A r \in Request :
    draft[r] = CASE pc[r] = "createWallet" -> {"user"}
                 [] pc[r] = "commit" -> {"user", "wallet"}
                 [] OTHER -> {}

\* At most one undecided row per address, and none beside a committed one.
IndexHolds ==
  /\ \A r \in Request : "user" \in draft[r] => ~ Contended(r) /\ ~ Taken(EmailOf(r))
  /\ \A u, v \in users : u.email = v.email => u = v

\* Committed rows are those of requests past their commit.
RowsHaveRequests ==
  /\ \A u \in users : u = RowOf(u.id) /\ pc[u.id] \in {"respond", "done"}
  /\ \A r \in Request : pc[r] = "respond" => RowOf(r) \in users

RegistrationInv ==
  /\ TypeOK
  /\ DraftsFollowStatements /\ IndexHolds /\ RowsHaveRequests
  /\ EveryUserHasWallet /\ AnswersAreTrue
==============================================================================
