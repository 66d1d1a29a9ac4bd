----------------------------- MODULE ServerProofs ------------------------------
(***************************************************************************)
(* Proofs about Server, for any set of requests and keys.                  *)
(*                                                                         *)
(* ServerInv is inductive.  The steps that answer a request share lemma    *)
(* SendKeeps, those that end the process lemma ExitKeeps.                  *)
(***************************************************************************)
EXTENDS Server, TLAPS

\* Nothing runs and nothing is paid at first.
LEMMA InitServer == Init => ServerInv
BY DEF Init, ServerInv, TypeOK, NobodyConnected, OnePayerPerKey, SavedArePaid, AnswersComeLast,
       UnauditedForAReason, Payer, PaidKeys

\* A request arrives while the server takes it: nobody has paid for it.
LEMMA ArriveKeeps ==
  ASSUME ServerInv, NEW r \in Request, Arrive(r)
  PROVE  ServerInv'
<1>. USE DEF ServerInv
<1>1. TypeOK'
  BY DEF TypeOK, Arrive, process
<1>2. NobodyConnected'
  BY DEF NobodyConnected, TypeOK, Arrive, process
<1>3. OnePayerPerKey'
  BY DEF OnePayerPerKey, Payer, TypeOK, Arrive, process
<1>4. SavedArePaid'
  BY DEF SavedArePaid, PaidKeys, Arrive, process
<1>5. AnswersComeLast' /\ UnauditedForAReason'
  BY DEF AnswersComeLast, UnauditedForAReason, TypeOK, Arrive, process
<1>. QED
  BY <1>1, <1>2, <1>3, <1>4, <1>5

\* An answer: 201 of who has paid, a replay of a saved answer, or a refusal.
LEMMA SendKeeps ==
  ASSUME ServerInv, NEW r \in Request, NEW code \in {"201", "replay", "refused"}, Send(r, code),
         Running, UnderWay(r),
         code = "201" => stage[r] = "reply",
         code = "replay" => KeyOf[r] \in saved,
         code = "replay" => stage[r] = "check",
         code = "refused" => stage[r] = "work"
  PROVE  ServerInv'
<1>. USE DEF ServerInv
<1>1. TypeOK'
  BY DEF TypeOK, Send, Running, Audited, process
<1>2. NobodyConnected'
  BY DEF NobodyConnected, Send, process
<1>3. OnePayerPerKey'
  BY DEF OnePayerPerKey, Payer, TypeOK, Send, Audited, UnderWay, process
<1>4. SavedArePaid'
  BY DEF SavedArePaid, OnePayerPerKey, Payer, PaidKeys, TypeOK, Send, process
<1>5. AnswersComeLast'
  BY DEF AnswersComeLast, TypeOK, Send, process
<1>6. UnauditedForAReason'
  BY DEF UnauditedForAReason, AnswersComeLast, TypeOK, Send, Audited, process
<1>. QED
  BY <1>1, <1>2, <1>3, <1>4, <1>5, <1>6

\* The steps that pay: until then no request with the key has.
LEMMA PayKeeps ==
  ASSUME ServerInv, NEW r \in Request, Pay(r) \/ PayUnheard(r)
  PROVE  ServerInv'
<1>. USE ServerAssumption DEF ServerInv
<1>1. TypeOK'
  BY DEF TypeOK, Pay, PayUnheard, Running, process
<1>2. NobodyConnected'
  BY DEF NobodyConnected, Pay, PayUnheard, process
<1>3. OnePayerPerKey'
  <2>1. paid' = paid \cup {r} /\ \A q \in paid : KeyOf[q] # KeyOf[r]
    BY DEF Pay, PayUnheard, PaidKeys
  <2>2. \A q \in Request : Payer(q)' => Payer(q) \/ q = r
    BY DEF Payer, Pay, PayUnheard, process, TypeOK
  <2>3. \A q \in Request : audit'[q] # "none" => stage'[q] = "done" /\ reply'[q] = "201"
    BY DEF OnePayerPerKey, TypeOK, Pay, PayUnheard, process
  <2>. QED
    BY <2>1, <2>2, <2>3 DEF OnePayerPerKey, TypeOK
<1>4. SavedArePaid'
  BY DEF SavedArePaid, PaidKeys, Pay, PayUnheard, process
<1>5. AnswersComeLast' /\ UnauditedForAReason'
  BY DEF AnswersComeLast, UnauditedForAReason, TypeOK, Pay, PayUnheard, process
<1>. QED
  BY <1>1, <1>2, <1>3, <1>4, <1>5

\* The other steps of a request: they move it on, or its row or its connection.
LEMMA RequestKeeps ==
  ASSUME ServerInv, NEW r \in Request,
         SaveReply(r) \/ WriteRow(r) \/ HangUp(r)
  PROVE  ServerInv'
<1>. USE ServerAssumption DEF ServerInv, process, PaidKeys, AnswersComeLast, UnauditedForAReason
<1>1. CASE SaveReply(r)
  BY <1>1 DEF SaveReply, Running, TypeOK, NobodyConnected, OnePayerPerKey, Payer, SavedArePaid
<1>2. CASE WriteRow(r)
  BY <1>2 DEF WriteRow, Running, TypeOK, NobodyConnected, OnePayerPerKey, Payer, SavedArePaid
<1>3. CASE HangUp(r)
  BY <1>3 DEF HangUp, TypeOK, NobodyConnected, OnePayerPerKey, Payer, SavedArePaid
<1>. QED
  BY <1>1, <1>2, <1>3

\* A request passes the look-up without an answer.
LEMMA CheckKeeps ==
  ASSUME ServerInv, NEW r \in Request, CheckKey(r)
  PROVE  ServerInv'
<1>1. CASE KeyOf[r] \in saved /\ Send(r, "replay")
  BY <1>1, SendKeeps DEF CheckKey, UnderWay
<1>2. CASE /\ stage' = [stage EXCEPT ![r] = "work"]
           /\ UNCHANGED <<process, socket, reply, audit, paid, saved>>
  BY <1>2 DEF CheckKey, Running, ServerInv, TypeOK, NobodyConnected, OnePayerPerKey, Payer,
              SavedArePaid, PaidKeys, AnswersComeLast, UnauditedForAReason, process
<1>. QED
  BY <1>1, <1>2 DEF CheckKey

\* A process ends; with status 0 it was disconnecting, and nobody was connected.
LEMMA ExitKeeps ==
  ASSUME ServerInv, NEW code \in {"0", "1", "killed"}, Exit(code),
         code = "0" => phase = "disconnecting"
  PROVE  ServerInv'
BY DEF ServerInv, Exit, TypeOK, NobodyConnected, OnePayerPerKey, Payer, SavedArePaid, PaidKeys,
       AnswersComeLast, UnauditedForAReason

\* The other steps of the process.
LEMMA ProcessKeeps ==
  ASSUME ServerInv, Listen \/ Signal \/ Closed \/ Restart
  PROVE  ServerInv'
<1>. USE DEF ServerInv
<1>1. CASE Listen
  BY <1>1 DEF Listen, TypeOK, NobodyConnected, OnePayerPerKey, Payer, SavedArePaid, PaidKeys,
              AnswersComeLast, UnauditedForAReason
<1>2. CASE Signal
  BY <1>2 DEF Signal, TypeOK, NobodyConnected, OnePayerPerKey, Payer, SavedArePaid, PaidKeys,
              AnswersComeLast, UnauditedForAReason
<1>3. CASE Closed
  BY <1>3 DEF Closed, TypeOK, NobodyConnected, OnePayerPerKey, Payer, SavedArePaid, PaidKeys,
              AnswersComeLast, UnauditedForAReason
<1>4. CASE Restart
  <2>1. TypeOK'
    BY <1>4 DEF Restart, TypeOK, UnderWay
  <2>2. NobodyConnected'
    BY <1>4 DEF Restart, NobodyConnected
  <2>3. OnePayerPerKey'
    BY <1>4 DEF Restart, OnePayerPerKey, Payer, UnderWay, TypeOK
  <2>4. SavedArePaid'
    BY <1>4 DEF Restart, SavedArePaid, PaidKeys
  <2>5. AnswersComeLast' /\ UnauditedForAReason'
    BY <1>4 DEF Restart, AnswersComeLast, UnauditedForAReason, OnePayerPerKey, TypeOK, UnderWay
  <2>. QED
    BY <2>1, <2>2, <2>3, <2>4, <2>5
<1>. QED
  BY <1>1, <1>2, <1>3, <1>4

LEMMA NextServer == ServerInv /\ [Next]_vars => ServerInv'
<1>. SUFFICES ASSUME ServerInv, [Next]_vars PROVE ServerInv'
  OBVIOUS
<1>1. ASSUME NEW r \in Request, Refuse(r) PROVE ServerInv'
  BY <1>1, SendKeeps DEF Refuse, UnderWay
<1>2. ASSUME NEW r \in Request, Reply(r) PROVE ServerInv'
  BY <1>2, SendKeeps DEF Reply, UnderWay
<1>3. ASSUME NEW r \in Request, Step(r) PROVE ServerInv'
  BY <1>1, <1>2, <1>3, ArriveKeeps, CheckKeeps, PayKeeps, RequestKeeps DEF Step
<1>4. CASE MigrationFails \/ DisconnectFails \/ TimerFires \/ UnhandledRejection
  BY <1>4, ExitKeeps DEF MigrationFails, DisconnectFails, TimerFires, UnhandledRejection
<1>5. CASE Disconnected
  BY <1>5, ExitKeeps DEF Disconnected
<1>6. CASE Kill
  BY <1>6, ExitKeeps DEF Kill
<1>7. CASE UNCHANGED vars
  BY <1>7 DEF vars, ServerInv, TypeOK, NobodyConnected, OnePayerPerKey, Payer, SavedArePaid,
              PaidKeys, AnswersComeLast, UnauditedForAReason
<1>. QED
  BY <1>3, <1>4, <1>5, <1>6, <1>7, ProcessKeeps DEF Next

\* Connections, payers and saved answers agree through every arrival, hang-up, signal,
\* crash and restart.
THEOREM ServerInvariant == Spec => []ServerInv
BY InitServer, NextServer, PTL DEF Spec

\* A payment has its audit row, or one that failed, unless its request was cut off, was
\* not heard to commit, or its client had gone (src/middleware/auditLogger.js:15-44).
THEOREM RowsAreNotForgotten == Spec => []UnauditedForAReason
BY ServerInvariant, PTL DEF ServerInv

\* A clean exit leaves nobody waiting on an open connection (src/server.js:70-83).
THEOREM CleanExitIsClean == Spec => []CleanExitLeavesNobody
<1>1. ServerInv => CleanExitLeavesNobody
  BY DEF ServerInv, NobodyConnected, CleanExitLeavesNobody
<1>. QED
  BY <1>1, ServerInvariant, PTL

\* A payment has at most one audit row, however often it is retried or cut off, and a
\* row is of a payment (src/middleware/auditLogger.js).
THEOREM RowsArePayments == Spec => []OneRowPerPayment
<1>1. ServerInv => OneRowPerPayment
  BY DEF ServerInv, OnePayerPerKey, OneRowPerPayment, Payer
<1>. QED
  BY <1>1, ServerInvariant, PTL
==============================================================================
