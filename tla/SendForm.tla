------------------------------- MODULE SendForm --------------------------------
(***************************************************************************)
(* Sending money from the dashboard: SendMoneyModal.jsx, the buttons that  *)
(* open and close it (Dashboard.jsx) and transactionAPI.send (client.js),  *)
(* which makes a new idempotency key for every call.  Closing a form       *)
(* neither cancels its call nor the timer that reports a success; flags of *)
(* a form that is gone are kept here, though nobody sees them.             *)
(*                                                                         *)
(* The server commits or refuses each key once, as the idempotent endpoint *)
(* does (module Idempotency); its answer may be lost.                      *)
(*                                                                         *)
(* The names are not those of Dashboard, so that one module can reason     *)
(* about both.                                                             *)
(***************************************************************************)
EXTENDS Naturals

CONSTANTS
  MaxForms,   \* bound on how often the form is opened
  MaxCalls    \* bound on the calls made, over all forms

ASSUME SendFormAssumption == MaxForms \in Nat /\ MaxCalls \in Nat

Form == 1 .. MaxForms
Call == 1 .. MaxCalls

VARIABLES
  opened,   \* forms opened so far
  shown,    \* the form on the screen, or 0
  sending,  \* forms waiting for an answer (loading of SendMoneyModal)
  failed,   \* forms showing an error
  done,     \* forms showing "Transfer Complete"
  calls,    \* calls made so far: the form each was made by
  server,   \* what the server has done about each call
  heard,    \* what the page has heard of each call
  successTimers, \* forms whose onSuccess is still to come
  abandoned      \* forms taken off the screen while they said "Sending..."

formVars ==
  <<opened, shown, sending, failed, done, calls, server, heard, successTimers, abandoned>>

Made == {c \in Call : calls[c] # 0}

CallsOf(f) == {c \in Made : calls[c] = f}

FormInit ==
  /\ opened = 0 /\ shown = 0
  /\ sending = {} /\ failed = {} /\ done = {} /\ successTimers = {} /\ abandoned = {}
  /\ calls = [c \in Call |-> 0]
  /\ server = [c \in Call |-> "none"]
  /\ heard = [c \in Call |-> "nothing"]

\* The "Send Money" button, which the form covers while it is there.
OpenForm ==
  /\ shown = 0 /\ opened < MaxForms
  /\ opened' = opened + 1 /\ shown' = opened'
  /\ UNCHANGED <<sending, failed, done, calls, server, heard, successTimers, abandoned>>

\* The form on the screen goes, whatever it shows.
TakeAway ==
  /\ shown' = 0
  /\ abandoned' = abandoned \cup ({shown} \cap sending)

\* Cancel, or a click beside the form: neither is disabled while it loads.
CloseForm ==
  /\ shown # 0 /\ TakeAway
  /\ UNCHANGED <<opened, sending, failed, done, calls, server, heard, successTimers>>

Submittable(f) == shown = f /\ f \notin sending \cup done

\* submit, with an amount that is not a number, below 1 or above 50 000.
SubmitInvalid(f) ==
  /\ Submittable(f)
  /\ failed' = failed \cup {f}
  /\ UNCHANGED <<opened, shown, sending, done, calls, server, heard, successTimers, abandoned>>

\* Mutant of Submit: the button is not disabled while the form loads.
SubmitAnyTime(f) ==
  /\ shown = f /\ f \notin done
  /\ \E c \in Call :
       /\ calls[c] = 0 /\ \A b \in Call : b < c => calls[b] # 0
       /\ calls' = [calls EXCEPT ![c] = f]
       /\ server' = [server EXCEPT ![c] = "asked"]
  /\ sending' = sending \cup {f} /\ failed' = failed \ {f}
  /\ UNCHANGED <<opened, shown, done, heard, successTimers, abandoned>>

Submit(f) ==
  /\ Submittable(f)
  /\ \E c \in Call :
       /\ calls[c] = 0 /\ \A b \in Call : b < c => calls[b] # 0
       /\ calls' = [calls EXCEPT ![c] = f]
       /\ server' = [server EXCEPT ![c] = "asked"]
  /\ sending' = sending \cup {f} /\ failed' = failed \ {f}
  /\ UNCHANGED <<opened, shown, done, heard, successTimers, abandoned>>

(***************************************************************************)
(* The server and the network                                              *)
(***************************************************************************)

Decide(c) ==
  /\ server[c] = "asked"
  /\ server' \in {[server EXCEPT ![c] = "paid"], [server EXCEPT ![c] = "refused"]}
  /\ UNCHANGED <<opened, shown, sending, failed, done, calls, heard, successTimers, abandoned>>

\* setDone, and onSuccess in 1.8 s.
HearPaid(c) ==
  LET f == calls[c] IN
  /\ heard[c] = "nothing" /\ server[c] = "paid"
  /\ heard' = [heard EXCEPT ![c] = "success"]
  /\ done' = done \cup {f} /\ sending' = sending \ {f}
  /\ successTimers' = successTimers \cup {f}
  /\ UNCHANGED <<opened, shown, failed, calls, server, abandoned>>

\* Mutant of HearError: what ends the call, ends it well.
HearErrorDone(c, what) ==
  /\ heard[c] = "nothing"
  /\ heard' = [heard EXCEPT ![c] = what]
  /\ done' = done \cup {calls[c]} /\ sending' = sending \ {calls[c]}
  /\ UNCHANGED <<opened, shown, failed, calls, server, successTimers, abandoned>>

\* Mutant of HearError: the loading flag is cleared in the try block only.
HearErrorNoFinally(c, what) ==
  /\ heard[c] = "nothing"
  /\ heard' = [heard EXCEPT ![c] = what]
  /\ failed' = failed \cup {calls[c]}
  /\ UNCHANGED <<opened, shown, sending, done, calls, server, successTimers, abandoned>>

\* setError, and the form may be submitted again.
HearError(c, what) ==
  /\ heard[c] = "nothing"
  /\ heard' = [heard EXCEPT ![c] = what]
  /\ failed' = failed \cup {calls[c]} /\ sending' = sending \ {calls[c]}
  /\ UNCHANGED <<opened, shown, done, calls, server, successTimers, abandoned>>

HearRefused(c) == server[c] = "refused" /\ HearError(c, "refusal")

\* The connection fails or the server answers 500, before or after it has paid.
HearLost(c) == calls[c] # 0 /\ HearError(c, "loss")

\* handleSendSuccess: whatever form is there is closed.
SuccessTimerFires(f) ==
  /\ f \in successTimers
  /\ successTimers' = successTimers \ {f}
  /\ TakeAway
  /\ UNCHANGED <<opened, sending, failed, done, calls, server, heard>>

\* The user reloads the page, or an answer with 401 does: what was under way is not
\* heard of, and timers die.
Reload ==
  /\ shown' = 0 /\ sending' = {} /\ successTimers' = {}
  /\ heard' = [c \in Call |->
                IF c \in Made /\ heard[c] = "nothing" THEN "loss" ELSE heard[c]]
  /\ UNCHANGED <<opened, failed, done, calls, server, abandoned>>

HearAnswer(c) == HearPaid(c) \/ HearRefused(c) \/ HearLost(c)

FormNext ==
  \/ OpenForm \/ CloseForm \/ Reload
  \/ \E f \in Form : SubmitInvalid(f) \/ Submit(f) \/ SuccessTimerFires(f)
  \/ \E c \in Call : Decide(c) \/ HearAnswer(c)

FormSpec == FormInit /\ [][FormNext]_formVars

\* The server decides or the connection ends, and the browser runs callbacks and timers.
FormFairness ==
  /\ \A c \in Call : WF_formVars(Decide(c)) /\ WF_formVars(HearAnswer(c))
  /\ \A f \in Form : WF_formVars(SuccessTimerFires(f))

LiveForm == FormSpec /\ FormFairness

(***************************************************************************)
(* Properties                                                              *)
(***************************************************************************)

PaidCalls(f) == {c \in CallsOf(f) : server[c] = "paid"}

\* Money is sent a second time only if the first payment was heard of, in a form that
\* stayed to say so, or its answer was lost, or its form was taken off the screen while
\* it said "Sending...": never by a double click, and never by closing and opening a form
\* that is not waiting.
PaysAgainForAReason ==
  \A c, d \in {call \in Made : server[call] = "paid"} : c < d =>
    \/ heard[c] = "success" /\ calls[c] # calls[d]
    \/ heard[c] = "loss"
    \/ calls[c] \in abandoned

\* "Transfer Complete" is of a call the server has paid, the last one of its form,
\* and no other is under way that could still take money for it.
CompleteMeansPaid ==
  \A f \in done :
    /\ f \notin sending
    /\ \E c \in PaidCalls(f) : heard[c] = "success" /\ \A b \in CallsOf(f) : b <= c

(***************************************************************************)
(* Why money is sent twice only for a reason                               *)
(***************************************************************************)

FormTypeOK ==
  /\ opened \in 0 .. MaxForms /\ shown \in 0 .. MaxForms
  /\ sending \subseteq Form /\ failed \subseteq Form /\ done \subseteq Form
  /\ successTimers \subseteq Form /\ abandoned \subseteq Form
  /\ calls \in [Call -> 0 .. MaxForms]
  /\ server \in [Call -> {"none", "asked", "paid", "refused"}]
  /\ heard \in [Call -> {"nothing", "success", "refusal", "loss"}]

\* Calls are made in the order of their numbers, and the server and the page know of
\* no others.
CallsInOrder ==
  /\ \A c \in Made : \A b \in Call : b < c => b \in Made
  /\ \A c \in Call : c \notin Made => server[c] = "none" /\ heard[c] = "nothing"

\* What the page has heard of a call is what the server did.
HeardIsTrue ==
  \A c \in Call :
    /\ heard[c] = "success" => server[c] = "paid"
    /\ heard[c] = "refusal" => server[c] = "refused"

\* While a call is waited for its form cannot be submitted, nor after a success: both
\* are the last calls of their forms.
LastOfItsForm ==
  /\ \A f \in done : f \notin sending
  /\ \A f \in done : \E c \in CallsOf(f) : heard[c] = "success"
  /\ \A c \in Made : heard[c] = "nothing" => calls[c] \in sending
  /\ \A c \in Made : heard[c] = "success" => calls[c] \in done
  /\ \A c, d \in Made : calls[c] = calls[d] /\ c < d => heard[c] \in {"refusal", "loss"}

\* A call that is waited for is of the form on the screen, or its form is abandoned, as
\* it is before any other call is made.
WaitedForOrAbandoned ==
  \A c \in Made : heard[c] = "nothing" /\ calls[c] \notin abandoned =>
    calls[c] = shown /\ \A d \in Made : d <= c

FormInv == FormTypeOK /\ CallsInOrder /\ HeardIsTrue /\ LastOfItsForm /\ WaitedForOrAbandoned

\* A form is not left waiting: "Sending..." ends, and so does "Transfer Complete".
FormsEnd ==
  \A f \in Form :
    /\ f \in sending ~> f \notin sending
    /\ f \in done /\ shown = f ~> shown # f

\* "Unique UUID per request - prevents duplicate transfers on retry"
\* (src/routes/transaction.routes.js:33): one form pays once.  It may pay twice: the
\* user who sees an error sends again, under a new key.
OneFormPaysOnce == \A f \in Form : \A c, d \in PaidCalls(f) : c = d
==============================================================================
