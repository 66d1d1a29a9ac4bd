-------------------------------- MODULE Server ---------------------------------
(***************************************************************************)
(* The life of a server process (src/server.js) around payments in flight, *)
(* and the audit rows written after their answers                          *)
(* (src/middleware/auditLogger.js).  A payment passes idempotencyCheck,    *)
(* then audit, then its handler; its audit row is written when its answer  *)
(* has been sent, which a signal, a crash or a client that hangs up may    *)
(* forestall.  A killed or stopped process is started again.               *)
(*                                                                         *)
(* Requests with one key are one payment and its retries.                  *)
(***************************************************************************)
EXTENDS Naturals

CONSTANTS Request, Key, KeyOf

ASSUME ServerAssumption == KeyOf \in [Request -> Key]

VARIABLES
  phase,   \* of the process
  status,  \* the exit status of the last process
  timer,   \* whether the ten seconds of a shutdown are running
  stage,   \* where each request is
  socket,  \* each request's connection
  reply,   \* what was sent for each request
  audit,   \* each request's audit row
  paid,    \* requests whose payment has been committed
  saved    \* keys with an answer in Redis

vars == <<phase, status, timer, stage, socket, reply, audit, paid, saved>>

TypeOK ==
  /\ phase \in {"starting", "serving", "closing", "disconnecting", "exited"}
  /\ status \in {"none", "0", "1", "killed"}
  /\ timer \in BOOLEAN
  /\ stage \in [Request -> {"away", "check", "work", "save", "reply", "done", "cut"}]
  /\ socket \in [Request -> {"none", "open", "closed"}]
  /\ reply \in [Request -> {"none", "201", "replay", "refused", "unsent"}]
  /\ audit \in [Request -> {"none", "writing", "written", "failed"}]
  /\ paid \subseteq Request /\ saved \subseteq Key
  /\ timer => phase \in {"closing", "disconnecting"}
  /\ phase = "starting" =>
       \A r \in Request : stage[r] \in {"away", "done", "cut"} /\ socket[r] # "open"

Init ==
  /\ phase = "starting" /\ status = "none" /\ timer = FALSE
  /\ stage = [r \in Request |-> "away"]
  /\ socket = [r \in Request |-> "none"]
  /\ reply = [r \in Request |-> "none"]
  /\ audit = [r \in Request |-> "none"]
  /\ paid = {} /\ saved = {}

process == <<phase, status, timer>>

Running == phase \in {"serving", "closing", "disconnecting"}

PaidKeys == {KeyOf[r] : r \in paid}

UnderWay(r) == stage[r] \in {"check", "work", "save", "reply"}

(***************************************************************************)
(* Requests                                                                *)
(***************************************************************************)

\* A new connection while the server listens, or one kept alive while it closes.
Arrive(r) ==
  /\ stage[r] = "away"
  /\ \/ phase = "serving" /\ socket' = [socket EXCEPT ![r] = "open"]
     \/ /\ phase \in {"serving", "closing"}
        /\ \E q \in Request :
             /\ socket[q] = "open" /\ stage[q] = "done"
             /\ socket' = [socket EXCEPT ![q] = "closed", ![r] = "open"]
  /\ stage' = [stage EXCEPT ![r] = "check"]
  /\ UNCHANGED <<process, reply, audit, paid, saved>>

\* Mutant of Audited: audit stands before idempotencyCheck.
AuditedFirst(code) == code \in {"201", "replay"}

\* Mutant of Audited: only an answer 200 counts as a success.
AuditedOf200(code) == code = "200"

\* audit comes after idempotencyCheck, and leaves errors out.
Audited(code) == code = "201"

\* res.json; 'finish' only comes when there is a connection to send on.
Send(r, code) ==
  /\ stage' = [stage EXCEPT ![r] = "done"]
  /\ \/ /\ socket[r] = "open"
        /\ reply' = [reply EXCEPT ![r] = code]
        /\ audit' = [audit EXCEPT ![r] = IF Audited(code) THEN "writing" ELSE "none"]
     \/ /\ socket[r] = "closed"
        /\ reply' = [reply EXCEPT ![r] = "unsent"]
        /\ UNCHANGED audit
  /\ UNCHANGED <<process, socket, paid, saved>>

\* idempotencyCheck finds the saved answer, or not, or Redis fails.
CheckKey(r) ==
  /\ Running /\ stage[r] = "check"
  /\ \/ KeyOf[r] \in saved /\ Send(r, "replay")
     \/ /\ stage' = [stage EXCEPT ![r] = "work"]
        /\ UNCHANGED <<process, socket, reply, audit, paid, saved>>

Pay(r) ==
  /\ Running /\ stage[r] = "work" /\ KeyOf[r] \notin PaidKeys
  /\ paid' = paid \cup {r}
  /\ stage' = [stage EXCEPT ![r] = "save"]
  /\ UNCHANGED <<process, socket, reply, audit, saved>>

\* The commit is not heard of: the payment is made, and the handler fails.
PayUnheard(r) ==
  /\ Running /\ stage[r] = "work" /\ KeyOf[r] \notin PaidKeys
  /\ paid' = paid \cup {r}
  /\ UNCHANGED <<process, stage, socket, reply, audit, saved>>

\* A payment with this key exists, or this one is refused, or fails.
Refuse(r) == Running /\ stage[r] = "work" /\ Send(r, "refused")

SaveReply(r) ==
  /\ Running /\ stage[r] = "save"
  /\ saved' \in {saved, saved \cup {KeyOf[r]}}
  /\ stage' = [stage EXCEPT ![r] = "reply"]
  /\ UNCHANGED <<process, socket, reply, audit, paid>>

Reply(r) == Running /\ stage[r] = "reply" /\ Send(r, "201")

\* prisma.auditLog.create, or its failure, which is only logged.
WriteRow(r) ==
  /\ Running /\ audit[r] = "writing"
  /\ \/ audit' = [audit EXCEPT ![r] = "written"]
     \/ audit' = [audit EXCEPT ![r] = "failed"]
  /\ UNCHANGED <<process, stage, socket, reply, paid, saved>>

\* The client leaves, or the connection has been idle for its five seconds.
HangUp(r) ==
  /\ socket[r] = "open"
  /\ socket' = [socket EXCEPT ![r] = "closed"]
  /\ UNCHANGED <<process, stage, reply, audit, paid, saved>>

(***************************************************************************)
(* The process                                                             *)
(***************************************************************************)

Exit(code) ==
  /\ phase' = "exited" /\ status' = code /\ timer' = FALSE
  /\ UNCHANGED <<stage, socket, reply, audit, paid, saved>>

\* runMigrations, then app.listen.
Listen ==
  /\ phase = "starting"
  /\ phase' = "serving"
  /\ UNCHANGED <<status, timer, stage, socket, reply, audit, paid, saved>>

MigrationFails == phase = "starting" /\ Exit("1")

\* Mutant of Signal: nothing forces the exit.
SignalPatient ==
  /\ phase = "serving"
  /\ phase' = "closing"
  /\ UNCHANGED <<status, timer, stage, socket, reply, audit, paid, saved>>

\* shutdown, on SIGTERM or SIGINT; a second signal adds nothing.
Signal ==
  /\ phase = "serving"
  /\ phase' = "closing" /\ timer' = TRUE
  /\ UNCHANGED <<status, stage, socket, reply, audit, paid, saved>>

\* Mutant of Closed: the callback does not wait for connections.
ClosedAtOnce ==
  /\ phase = "closing"
  /\ phase' = "disconnecting"
  /\ UNCHANGED <<status, timer, stage, socket, reply, audit, paid, saved>>

\* The callback of server.close: no connection is left.
Closed ==
  /\ phase = "closing" /\ \A r \in Request : socket[r] # "open"
  /\ phase' = "disconnecting"
  /\ UNCHANGED <<status, timer, stage, socket, reply, audit, paid, saved>>

\* $disconnect waits for the latest query at most, quit for Redis.
Disconnected == phase = "disconnecting" /\ Exit("0")

DisconnectFails == phase = "disconnecting" /\ Exit("1")

TimerFires == Running /\ timer /\ Exit("1")

\* A rejection nobody handles, unless its message speaks of Redis.
UnhandledRejection == Running /\ Exit("1")

Kill == phase # "exited" /\ Exit("killed")

\* The container is started again; what the old process held is gone.
Restart ==
  /\ phase = "exited"
  /\ phase' = "starting"
  /\ stage' = [r \in Request |-> IF UnderWay(r) THEN "cut" ELSE stage[r]]
  /\ socket' = [r \in Request |-> IF socket[r] = "open" THEN "closed" ELSE socket[r]]
  /\ audit' = [r \in Request |-> IF audit[r] = "writing" THEN "failed" ELSE audit[r]]
  /\ UNCHANGED <<status, timer, reply, paid, saved>>

Step(r) ==
  \/ Arrive(r) \/ CheckKey(r) \/ Pay(r) \/ PayUnheard(r) \/ Refuse(r) \/ SaveReply(r) \/ Reply(r)
  \/ WriteRow(r) \/ HangUp(r)

Next ==
  \/ \E r \in Request : Step(r)
  \/ Listen \/ MigrationFails \/ Signal \/ Closed \/ Disconnected \/ DisconnectFails
  \/ TimerFires \/ UnhandledRejection \/ Kill \/ Restart

Spec == Init /\ [][Next]_vars

\* Only the timer has to run: handlers may hang, clients may stay connected.
FairSpec == Spec /\ WF_vars(TimerFires)

(***************************************************************************)
(* Properties                                                              *)
(***************************************************************************)

\* A process that exits cleanly cuts off nobody who is still connected and waiting,
\* not even a request that came on a kept connection after the signal.
CleanExitLeavesNobody ==
  phase = "exited" /\ status = "0" =>
    \A r \in Request : UnderWay(r) => socket[r] # "open"

\* However often a payment is retried, replayed, or cut off by a restart, it has at
\* most one audit row, and a row is of a payment.
OneRowPerPayment ==
  \A r \in Request : audit[r] # "none" =>
    /\ r \in paid
    /\ \A q \in Request \ {r} : audit[q] # "none" => KeyOf[q] # KeyOf[r]

\* A payment goes without its audit row only if its request is still being answered, or
\* was answered with an error since the commit was not heard of, or its client hung up
\* first, or its process died, or writing the row failed: never because a retry was
\* refused or replayed meanwhile.
UnauditedForAReason ==
  \A r \in paid :
    \/ stage[r] \in {"work", "save", "reply", "cut"}
    \/ reply[r] \in {"refused", "unsent"}
    \/ reply[r] = "201" /\ audit[r] # "none"

(***************************************************************************)
(* Why a clean exit leaves nobody, and a payment has one row               *)
(***************************************************************************)

\* A request whose handler has paid, or whose row the listener writes or has written.
Payer(r) == stage[r] \in {"save", "reply"} \/ audit[r] # "none"

\* From the callback of server.close on there is no connection, and no way to one.
NobodyConnected ==
  phase = "disconnecting" \/ (phase = "exited" /\ status = "0") =>
    \A r \in Request : socket[r] # "open"

\* Rows are written of answers 201, after them, and Pay is passed once per key.
OnePayerPerKey ==
  /\ \A r \in Request : audit[r] # "none" => stage[r] = "done" /\ reply[r] = "201"
  /\ \A r \in Request : Payer(r) => r \in paid
  /\ \A r, q \in paid : r # q => KeyOf[r] # KeyOf[q]

\* A replay is of a payment, since only answers of payments are saved.
SavedArePaid ==
  /\ saved \subseteq PaidKeys
  /\ \A r \in Request : reply[r] \in {"201", "replay"} => KeyOf[r] \in PaidKeys

\* Who has paid has looked up its key, and an answer is the last that is done of a request.
AnswersComeLast ==
  /\ \A r \in paid : stage[r] \in {"work", "save", "reply", "done", "cut"}
  /\ \A r \in Request : reply[r] # "none" => stage[r] = "done"

ServerInv ==
  TypeOK /\ NobodyConnected /\ OnePayerPerKey /\ SavedArePaid /\ AnswersComeLast /\ UnauditedForAReason

\* A process told to stop stops, whatever its requests and clients do: "force exit
\* after 10 seconds if graceful shutdown hangs" (src/server.js:89).
ShutdownEnds == phase = "closing" ~> phase = "exited"

\* "records every state-changing action" (src/middleware/auditLogger.js:5): once
\* nothing is under way, a payment has its row, or one whose failure was logged.
\* It may not: when the client hangs up before the answer, 'finish' never comes.
PaymentsAudited ==
  phase = "serving" /\ status = "none" =>
    \A r \in paid : UnderWay(r) \/ audit[r] # "none"

\* "Wait for in-flight requests to finish" (src/server.js:65), then exit with 0.
\* It may not: server.close waits for connections, and a client may be gone while
\* its request is handled.
CleanExitWaits ==
  phase = "exited" /\ status = "0" => \A r \in Request : ~ UnderWay(r)
==============================================================================
