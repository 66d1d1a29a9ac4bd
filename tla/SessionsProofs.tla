---------------------------- MODULE SessionsProofs -----------------------------
(***************************************************************************)
(* Proofs about sessions, for any users, requests, life of a token, life   *)
(* of a blacklist entry and bound on the clock.                            *)
(*                                                                         *)
(* SessionsInv is inductive.  An entry is written at or after its token's  *)
(* issue and lives at least as long as a token does, so it outlives it;    *)
(* what speaks against a token never goes away, and each stage of          *)
(* authenticate rules one of the reasons out.                              *)
(***************************************************************************)
EXTENDS Sessions, TLAPS

LEMMA InitSessions == Init => SessionsInv
<1>. SUFFICES ASSUME Init PROVE SessionsInv
  OBVIOUS
<1>1. PICK u \in User : call = [r \in Request |-> [kind |-> "login", user |-> u, since |-> 0]]
  BY DEF Init
<1>2. TypeOK
  BY <1>1, SessionsAssumption DEF Init, TypeOK, Time, Token, Call, Stage
<1>3. EntriesOutliveTokens /\ RevokedBeforeAnswer /\ EntriesAreLogouts
  BY DEF Init, EntriesOutliveTokens, RevokedBeforeAnswer, EntriesAreLogouts
<1>4. BarsStand /\ StagesKnow
  BY DEF Init, BarsStand, StagesKnow
<1>5. TokensArePast
  BY <1>1 DEF Init, TokensArePast
<1>6. StaleStayOut /\ RefusalsDeserved /\ LoggedOutStayOut
  BY DEF Init, StaleStayOut, RefusalsDeserved, LoggedOutStayOut, Admitted
<1>. QED
  BY <1>2, <1>3, <1>4, <1>5, <1>6 DEF SessionsInv

\* A step of a request past its start that leaves the blacklist alone: it may go on
\* only with what its next stage knows, and refuse only for a reason.
LEMMA AdvanceKeeps ==
  ASSUME SessionsInv, NEW r \in Request, pc[r] \notin {"new", "answer"},
         UNCHANGED <<now, active, blacklist, call, bars, loggedOut>>,
         issued' \subseteq Token, \A t \in issued' : t[2] <= now,
         NEW stage \in {"verify", "findUser", "handle", "done"},
         pc' = [pc EXCEPT ![r] = stage],
         NEW code \in {"200", "401", "403"},
         stage = "done" => reply' = [reply EXCEPT ![r] = code],
         stage # "done" => reply' = reply,
         stage = "verify" =>
           call[r].user \in Unlucky \/ "loggedOut" \notin bars[r] \/ Expired(TokenOf(r)),
         stage = "findUser" => "expired" \notin bars[r],
         call[r].kind # "login" /\ (stage = "handle" \/ (stage = "done" /\ code = "200"))
           => bars[r] \subseteq {"loggedOut"},
         ((call[r].kind # "login" /\ (stage = "handle" \/ (stage = "done" /\ code = "200")))
            \/ stage = "findUser")
           => call[r].user \in Unlucky \/ "loggedOut" \notin bars[r],
         stage = "done" /\ code = "401" /\ call[r].kind # "login" =>
           \/ Expired(TokenOf(r)) \/ TokenOf(r) \in loggedOut
           \/ \E q \in Request : pc[q] = "answer" /\ TokenOf(q) = TokenOf(r),
         stage = "done" /\ code = "403" => call[r].user \notin active
  PROVE  SessionsInv'
<1>. USE DEF SessionsInv
<1>1. /\ pc'[r] = stage
      /\ \A q \in Request : q # r => pc'[q] = pc[q] /\ reply'[q] = reply[q]
      /\ stage = "done" => reply'[r] = code
      /\ \A q \in Request : pc'[q] = "answer" <=> pc[q] = "answer"
      /\ \A q : TokenOf(q)' = TokenOf(q)
      /\ \A t : (Expired(t)' <=> Expired(t)) /\ (Blacklisted(t)' <=> Blacklisted(t))
  BY DEF TypeOK, TokenOf, Expired, Blacklisted
<1>2. TypeOK'
  BY DEF TypeOK, Stage
<1>3. EntriesOutliveTokens' /\ RevokedBeforeAnswer' /\ EntriesAreLogouts'
  BY <1>1 DEF EntriesOutliveTokens, RevokedBeforeAnswer, EntriesAreLogouts
<1>4. BarsStand'
  BY <1>1 DEF BarsStand
<1>5. StagesKnow'
  BY <1>1 DEF StagesKnow
<1>6. TokensArePast'
  BY DEF TokensArePast
<1>7. \A q \in Request : Admitted(q)' =>
        \/ Admitted(q)
        \/ q = r /\ call[r].kind # "login" /\ (stage = "handle" \/ (stage = "done" /\ code = "200"))
  BY <1>1 DEF Admitted
<1>8. StaleStayOut' /\ LoggedOutStayOut'
  BY <1>7 DEF StaleStayOut, LoggedOutStayOut
<1>9. RefusalsDeserved'
  <2>1. ASSUME NEW q \in Request, reply'[q] = "401", call[q].kind # "login"
        PROVE  \/ Expired(TokenOf(q)) \/ TokenOf(q) \in loggedOut
               \/ \E p \in Request : pc[p] = "answer" /\ TokenOf(p) = TokenOf(q)
    BY <2>1, <1>1 DEF RefusalsDeserved
  <2>2. ASSUME NEW q \in Request, reply'[q] = "403" PROVE call[q].user \notin active
    BY <2>2, <1>1 DEF RefusalsDeserved
  <2>. QED
    BY <2>1, <2>2, <1>1 DEF RefusalsDeserved
<1>. QED
  BY <1>2, <1>3, <1>4, <1>5, <1>6, <1>8, <1>9

LEMMA IssueKeeps ==
  ASSUME SessionsInv, NEW r \in Request, Issue(r) \/ WrongPassword(r)
  PROVE  SessionsInv'
<1>. USE DEF SessionsInv
<1>1. call[r].user \in User /\ call[r].kind = "login" /\ now \in Time
  BY DEF Issue, WrongPassword, TypeOK, Call, StagesKnow
<1>2. issued' \subseteq Token /\ \A t \in issued' : t[2] <= now
  BY <1>1 DEF Issue, WrongPassword, TypeOK, Token, TokensArePast, Time
<1>3. PICK stage \in {"verify", "findUser", "handle", "done"} : stage = "done"
  OBVIOUS
<1>4. PICK code \in {"200", "401", "403"} :
        code # "403" /\ reply' = [reply EXCEPT ![r] = code]
  BY DEF Issue, WrongPassword, Answer
<1>5. pc' = [pc EXCEPT ![r] = stage] /\ pc[r] = "compare"
  BY <1>3 DEF Issue, WrongPassword, Answer
<1>6. UNCHANGED <<now, active, blacklist, call, bars, loggedOut>>
  BY DEF Issue, WrongPassword
<1>. QED
  BY <1>1, <1>2, <1>3, <1>4, <1>5, <1>6, AdvanceKeeps

LEMMA LookUpKeeps ==
  ASSUME SessionsInv, NEW r \in Request, LookUp(r)
  PROVE  SessionsInv'
<1>. USE DEF SessionsInv
<1>0. /\ UNCHANGED <<now, active, blacklist, call, bars, loggedOut>> /\ pc[r] = "lookUp"
      /\ issued' \subseteq Token /\ \A t \in issued' : t[2] <= now
  BY DEF LookUp, TypeOK, TokensArePast
<1>1. /\ TokenOf(r) \in Token /\ TokenOf(r)[2] \in Nat /\ now \in Nat
      /\ blacklist[TokenOf(r)] \in Nat
  BY SessionsAssumption DEF TypeOK, TokenOf, Token, Call, Time
<1>2. PICK code \in {"200", "401", "403"} : code = "401"
  OBVIOUS
<1>3. CASE Blacklisted(TokenOf(r)) /\ Answer(r, "401")
  <2>1. \/ TokenOf(r) \in loggedOut
        \/ \E q \in Request : pc[q] = "answer" /\ TokenOf(q) = TokenOf(r)
    <3>1. blacklist[TokenOf(r)] # 0
      BY <1>1, <1>3 DEF Blacklisted
    <3>. QED
      BY <3>1, <1>1 DEF EntriesAreLogouts
  <2>2. PICK stage \in {"verify", "findUser", "handle", "done"} : stage = "done"
    OBVIOUS
  <2>3. pc' = [pc EXCEPT ![r] = stage] /\ reply' = [reply EXCEPT ![r] = code]
    BY <1>2, <1>3, <2>2 DEF Answer
  <2>. QED
    BY <1>0, <1>2, <2>1, <2>2, <2>3, AdvanceKeeps
<1>4. CASE (call[r].user \in Unlucky \/ ~ Blacklisted(TokenOf(r))) /\ GoTo(r, "verify")
  <2>1. call[r].user \in Unlucky \/ "loggedOut" \notin bars[r] \/ Expired(TokenOf(r))
    <3>. SUFFICES ASSUME ~ call[r].user \in Unlucky, "loggedOut" \in bars[r] PROVE Expired(TokenOf(r))
      OBVIOUS
    <3>1. TokenOf(r) \in loggedOut
      BY DEF BarsStand
    <3>2. blacklist[TokenOf(r)] >= TokenOf(r)[2] + TokenLife
      BY <3>1 DEF EntriesOutliveTokens, TokenOf
    <3>3. blacklist[TokenOf(r)] <= now
      BY <1>4, <1>1 DEF Blacklisted
    <3>. QED
      BY <3>2, <3>3, <1>1, SessionsAssumption DEF Expired
  <2>2. PICK stage \in {"verify", "findUser", "handle", "done"} : stage = "verify"
    OBVIOUS
  <2>3. pc' = [pc EXCEPT ![r] = stage] /\ reply' = reply
    BY <1>4, <2>2 DEF GoTo
  <2>. QED
    BY <1>0, <2>1, <2>2, <2>3, AdvanceKeeps
<1>. QED
  BY <1>3, <1>4 DEF LookUp

LEMMA VerifyKeeps ==
  ASSUME SessionsInv, NEW r \in Request, Verify(r)
  PROVE  SessionsInv'
<1>. USE DEF SessionsInv
<1>0. /\ UNCHANGED <<now, active, blacklist, call, bars, loggedOut>> /\ pc[r] = "verify"
      /\ issued' \subseteq Token /\ \A t \in issued' : t[2] <= now
  BY DEF Verify, TypeOK, TokensArePast
<1>1. PICK code \in {"200", "401", "403"} : code = "401"
  OBVIOUS
<1>2. CASE Expired(TokenOf(r)) /\ Answer(r, "401")
  <2>1. PICK stage \in {"verify", "findUser", "handle", "done"} : stage = "done"
    OBVIOUS
  <2>2. pc' = [pc EXCEPT ![r] = stage] /\ reply' = [reply EXCEPT ![r] = code]
    BY <1>1, <1>2, <2>1 DEF Answer
  <2>. QED
    BY <1>0, <1>1, <1>2, <2>1, <2>2, AdvanceKeeps
<1>3. CASE ~ Expired(TokenOf(r)) /\ GoTo(r, "findUser")
  <2>1. "expired" \notin bars[r] /\ (call[r].user \in Unlucky \/ "loggedOut" \notin bars[r])
    BY <1>0, <1>3 DEF BarsStand, StagesKnow
  <2>2. PICK stage \in {"verify", "findUser", "handle", "done"} : stage = "findUser"
    OBVIOUS
  <2>3. pc' = [pc EXCEPT ![r] = stage] /\ reply' = reply
    BY <1>3, <2>2 DEF GoTo
  <2>. QED
    BY <1>0, <2>1, <2>2, <2>3, AdvanceKeeps
<1>. QED
  BY <1>2, <1>3 DEF Verify

LEMMA FindUserKeeps ==
  ASSUME SessionsInv, NEW r \in Request, FindUser(r)
  PROVE  SessionsInv'
<1>. USE DEF SessionsInv
<1>0. /\ UNCHANGED <<now, active, blacklist, call, bars, loggedOut>> /\ pc[r] = "findUser"
      /\ issued' \subseteq Token /\ \A t \in issued' : t[2] <= now
  BY DEF FindUser, TypeOK, TokensArePast
<1>1. PICK code \in {"200", "401", "403"} : code = "403"
  OBVIOUS
<1>2. CASE call[r].user \notin active /\ Answer(r, "403")
  <2>1. PICK stage \in {"verify", "findUser", "handle", "done"} : stage = "done"
    OBVIOUS
  <2>2. pc' = [pc EXCEPT ![r] = stage] /\ reply' = [reply EXCEPT ![r] = code]
    BY <1>1, <1>2, <2>1 DEF Answer
  <2>. QED
    BY <1>0, <1>1, <1>2, <2>1, <2>2, AdvanceKeeps
<1>3. CASE call[r].user \in active /\ GoTo(r, "handle")
  <2>1. bars[r] \subseteq {"loggedOut"} /\ (call[r].user \in Unlucky \/ "loggedOut" \notin bars[r])
    BY <1>0, <1>3 DEF BarsStand, StagesKnow, TypeOK
  <2>2. PICK stage \in {"verify", "findUser", "handle", "done"} : stage = "handle"
    OBVIOUS
  <2>3. pc' = [pc EXCEPT ![r] = stage] /\ reply' = reply
    BY <1>3, <2>2 DEF GoTo
  <2>. QED
    BY <1>0, <2>1, <2>2, <2>3, AdvanceKeeps
<1>. QED
  BY <1>2, <1>3 DEF FindUser

LEMMA ServeKeeps ==
  ASSUME SessionsInv, NEW r \in Request, Serve(r)
  PROVE  SessionsInv'
<1>. USE DEF SessionsInv
<1>0. /\ UNCHANGED <<now, active, blacklist, call, bars, loggedOut>> /\ pc[r] = "handle"
      /\ call[r].kind = "serve"
      /\ issued' \subseteq Token /\ \A t \in issued' : t[2] <= now
  BY DEF Serve, TypeOK, TokensArePast
<1>1. PICK code \in {"200", "401", "403"} : code = "200"
  OBVIOUS
<1>2. PICK stage \in {"verify", "findUser", "handle", "done"} : stage = "done"
  OBVIOUS
<1>3. pc' = [pc EXCEPT ![r] = stage] /\ reply' = [reply EXCEPT ![r] = code]
  BY <1>1, <1>2 DEF Serve, Answer
<1>4. bars[r] \subseteq {"loggedOut"} /\ (call[r].user \in Unlucky \/ "loggedOut" \notin bars[r])
  BY <1>0 DEF StaleStayOut, LoggedOutStayOut, Admitted
<1>. QED
  BY <1>0, <1>1, <1>2, <1>3, <1>4, AdvanceKeeps

\* The first step of a request: a login or the start of another call.
LEMMA BeginKeeps ==
  ASSUME SessionsInv, NEW r \in Request, pc[r] = "new",
         UNCHANGED <<now, active, issued, blacklist, loggedOut>>,
         NEW c \in Call, c.since <= now, call' = [call EXCEPT ![r] = c],
         NEW B \in SUBSET {"expired", "inactive", "loggedOut"},
         bars' = [bars EXCEPT ![r] = B],
         "expired" \in B => Expired(<<c.user, c.since>>),
         "inactive" \in B => c.user \notin active,
         "loggedOut" \in B => <<c.user, c.since>> \in loggedOut,
         NEW stage \in {"compare", "lookUp", "done"}, pc' = [pc EXCEPT ![r] = stage],
         stage = "done" =>
           c.kind = "login" /\ c.user \notin active /\ reply' = [reply EXCEPT ![r] = "403"],
         stage = "compare" => c.kind = "login",
         stage # "done" => reply' = reply
  PROVE  SessionsInv'
<1>. USE DEF SessionsInv
<1>1. /\ pc'[r] = stage /\ call'[r] = c /\ bars'[r] = B
      /\ \A q \in Request : q # r =>
           /\ pc'[q] = pc[q] /\ call'[q] = call[q] /\ bars'[q] = bars[q]
           /\ reply'[q] = reply[q]
  BY DEF TypeOK
<1>2. /\ \A q \in Request : pc'[q] = "answer" <=> pc[q] = "answer"
      /\ \A q \in Request : q # r => TokenOf(q)' = TokenOf(q)
      /\ TokenOf(r)' = <<c.user, c.since>>
      /\ \A t : Expired(t)' <=> Expired(t)
      /\ reply[r] = "none"
  BY <1>1 DEF TokenOf, Expired, StagesKnow
<1>3. TypeOK'
  <2>1. reply' \in [Request -> {"none", "200", "401", "403"}]
    BY DEF TypeOK
  <2>. QED
    BY <2>1 DEF TypeOK, Stage
<1>4. EntriesOutliveTokens'
  BY DEF EntriesOutliveTokens
<1>5. RevokedBeforeAnswer' /\ EntriesAreLogouts'
  <2>1. \A q \in Request : pc'[q] = "answer" => q # r /\ pc[q] = "answer"
    BY <1>1
  <2>2. \A q \in Request : pc[q] = "answer" => q # r
    OBVIOUS
  <2>3. RevokedBeforeAnswer'
    BY <1>1, <1>2, <2>1 DEF RevokedBeforeAnswer
  <2>4. EntriesAreLogouts'
    BY <1>1, <1>2, <2>2 DEF EntriesAreLogouts
  <2>. QED
    BY <2>3, <2>4
<1>6. BarsStand'
  BY <1>1, <1>2 DEF BarsStand
<1>7. StagesKnow'
  BY <1>1, <1>2 DEF StagesKnow
<1>8. TokensArePast'
  BY <1>1 DEF TokensArePast
<1>9. \A q \in Request : Admitted(q)' => q # r /\ Admitted(q)
  BY <1>1, <1>2 DEF Admitted
<1>10. StaleStayOut' /\ LoggedOutStayOut'
  BY <1>1, <1>9 DEF StaleStayOut, LoggedOutStayOut
<1>11. RefusalsDeserved'
  <2>1. ASSUME NEW q \in Request, reply'[q] = "401", call'[q].kind # "login"
        PROVE  \/ Expired(TokenOf(q)') \/ TokenOf(q)' \in loggedOut
               \/ \E p \in Request : pc'[p] = "answer" /\ TokenOf(p)' = TokenOf(q)'
    <3>1. q # r
      BY <2>1, <1>1, <1>2 DEF TypeOK
    <3>2. \A p \in Request : pc[p] = "answer" => p # r
      OBVIOUS
    <3>. QED
      BY <2>1, <3>1, <3>2, <1>1, <1>2 DEF RefusalsDeserved
  <2>2. ASSUME NEW q \in Request, reply'[q] = "403" PROVE call'[q].user \notin active
    <3>1. CASE q = r
      BY <2>2, <3>1, <1>1, <1>2
    <3>2. CASE q # r
      BY <2>2, <3>2, <1>1 DEF RefusalsDeserved
    <3>. QED
      BY <3>1, <3>2
  <2>. QED
    BY <2>1, <2>2, <1>2 DEF RefusalsDeserved
<1>. QED
  BY <1>3, <1>4, <1>5, <1>6, <1>7, <1>8, <1>10, <1>11

LEMMA LoginKeeps ==
  ASSUME SessionsInv, NEW r \in Request, NEW u \in User, Login(r, u)
  PROVE  SessionsInv'
<1>. USE DEF SessionsInv
<1>1. PICK c : c = [kind |-> "login", user |-> u, since |-> now]
  OBVIOUS
<1>2. c \in Call /\ c.since <= now /\ c.kind = "login" /\ c.user = u
  BY <1>1, SessionsAssumption DEF Call, TypeOK, Time
<1>3. PICK B : B = {}
  OBVIOUS
<1>4. /\ UNCHANGED <<now, active, issued, blacklist, loggedOut>> /\ pc[r] = "new"
      /\ call' = [call EXCEPT ![r] = c] /\ bars' = [bars EXCEPT ![r] = B]
  BY <1>1, <1>3 DEF Login
<1>5. PICK stage \in {"compare", "lookUp", "done"} :
        /\ pc' = [pc EXCEPT ![r] = stage] /\ stage # "lookUp"
        /\ stage = "done" => u \notin active /\ reply' = [reply EXCEPT ![r] = "403"]
        /\ stage # "done" => reply' = reply
  BY DEF Login, GoTo, Answer
<1>. QED
  BY <1>2, <1>3, <1>4, <1>5, BeginKeeps

LEMMA StartKeeps ==
  ASSUME SessionsInv, NEW r \in Request, NEW t \in issued, NEW kind \in {"serve", "logout"},
         Start(r, kind, t)
  PROVE  SessionsInv'
<1>. USE DEF SessionsInv
<1>1. PICK c : c = [kind |-> kind, user |-> t[1], since |-> t[2]]
  OBVIOUS
<1>2. t \in Token /\ t[1] \in User /\ t[2] \in Time /\ t[2] <= now /\ t = <<t[1], t[2]>>
  BY DEF TypeOK, Token, TokensArePast
<1>3. c \in Call /\ c.since <= now /\ <<c.user, c.since>> = t /\ c.user = t[1]
  BY <1>1, <1>2 DEF Call
<1>4. PICK B : B = BarsOf(t)
  OBVIOUS
<1>5. /\ B \in SUBSET {"expired", "inactive", "loggedOut"}
      /\ "expired" \in B => Expired(t)
      /\ "inactive" \in B => t[1] \notin active
      /\ "loggedOut" \in B => t \in loggedOut
  BY <1>4 DEF BarsOf
<1>6. PICK stage \in {"compare", "lookUp", "done"} : stage = "lookUp"
  OBVIOUS
<1>7. /\ UNCHANGED <<now, active, issued, blacklist, loggedOut>> /\ pc[r] = "new"
      /\ call' = [call EXCEPT ![r] = c] /\ bars' = [bars EXCEPT ![r] = B]
      /\ pc' = [pc EXCEPT ![r] = stage] /\ reply' = reply
  BY <1>1, <1>4, <1>6 DEF Start, GoTo
<1>. QED
  BY <1>3, <1>5, <1>6, <1>7, BeginKeeps

LEMMA RevokeKeeps ==
  ASSUME SessionsInv, NEW r \in Request, Revoke(r)
  PROVE  SessionsInv'
<1>. USE DEF SessionsInv
<1>1. /\ UNCHANGED <<now, active, issued, call, bars, loggedOut, reply>>
      /\ pc[r] = "handle" /\ call[r].kind = "logout"
      /\ pc' = [pc EXCEPT ![r] = "answer"]
  BY DEF Revoke, GoTo
<1>2. /\ pc'[r] = "answer" /\ \A q \in Request : q # r => pc'[q] = pc[q]
      /\ \A q : TokenOf(q)' = TokenOf(q)
      /\ \A t : Expired(t)' <=> Expired(t)
  BY <1>1 DEF TypeOK, TokenOf, Expired
<1>3. /\ TokenOf(r) \in Token /\ call[r].since \in Nat /\ call[r].since <= now /\ now \in Nat
      /\ TokenOf(r)[1] = call[r].user /\ TokenOf(r)[2] = call[r].since
  BY SessionsAssumption DEF TypeOK, TokenOf, Token, Call, Time, TokensArePast
<1>4. PICK w : w = now + BlacklistTTL
  OBVIOUS
<1>5. w \in Nat /\ w >= call[r].since + TokenLife
  BY <1>3, <1>4, SessionsAssumption
<1>6. /\ blacklist' \in [Token -> Nat]
      /\ \A t \in Token : t # TokenOf(r) => blacklist'[t] = blacklist[t]
      /\ call[r].user \in Unlucky \/ blacklist'[TokenOf(r)] >= call[r].since + TokenLife
  BY <1>3, <1>4, <1>5 DEF Revoke, TypeOK
<1>7. TypeOK'
  BY <1>1, <1>6 DEF TypeOK, Stage
<1>8. EntriesOutliveTokens'
  <2>1. ASSUME NEW t \in loggedOut PROVE t[1] \in Unlucky \/ blacklist'[t] >= t[2] + TokenLife
    <3>1. CASE t = TokenOf(r)
      BY <3>1, <1>3, <1>6
    <3>2. CASE t # TokenOf(r)
      BY <3>2, <1>6 DEF EntriesOutliveTokens, TypeOK
    <3>. QED
      BY <3>1, <3>2
  <2>. QED
    BY <2>1, <1>1 DEF EntriesOutliveTokens
<1>9. RevokedBeforeAnswer'
  <2>1. ASSUME NEW q \in Request, pc'[q] = "answer"
        PROVE  call[q].kind = "logout"
               /\ (call[q].user \in Unlucky \/ blacklist'[TokenOf(q)] >= call[q].since + TokenLife)
    <3>1. CASE TokenOf(q) = TokenOf(r)
      <4>1. call[q].since = call[r].since /\ call[q].user = call[r].user
        BY <3>1 DEF TokenOf
      <4>2. call[q].kind = "logout"
        BY <2>1, <1>1, <1>2 DEF RevokedBeforeAnswer
      <4>. QED
        BY <3>1, <4>1, <4>2, <1>6
    <3>2. CASE TokenOf(q) # TokenOf(r)
      <4>1. q # r /\ TokenOf(q) \in Token
        BY <3>2 DEF TypeOK, TokenOf, Token, Call
      <4>. QED
        BY <4>1, <3>2, <2>1, <1>2, <1>6 DEF RevokedBeforeAnswer
    <3>. QED
      BY <3>1, <3>2
  <2>. QED
    BY <2>1, <1>1, <1>2 DEF RevokedBeforeAnswer
<1>10. EntriesAreLogouts'
  <2>1. \A q \in Request : pc[q] = "answer" => pc'[q] = "answer"
    BY <1>1, <1>2
  <2>2. ASSUME NEW t \in Token, blacklist'[t] # 0
        PROVE  t \in loggedOut \/ \E q \in Request : pc'[q] = "answer" /\ TokenOf(q) = t
    <3>1. CASE t = TokenOf(r)
      BY <3>1, <1>2
    <3>2. CASE t # TokenOf(r)
      BY <3>2, <2>1, <2>2, <1>6 DEF EntriesAreLogouts
    <3>. QED
      BY <3>1, <3>2
  <2>. QED
    BY <2>2, <1>1, <1>2 DEF EntriesAreLogouts
<1>11. BarsStand' /\ TokensArePast'
  BY <1>1, <1>2 DEF BarsStand, TokensArePast
<1>12. StagesKnow'
  BY <1>1, <1>2 DEF StagesKnow
<1>13. \A q \in Request : Admitted(q)' => Admitted(q)
  BY <1>1, <1>2 DEF Admitted
<1>14. StaleStayOut' /\ LoggedOutStayOut'
  BY <1>1, <1>13 DEF StaleStayOut, LoggedOutStayOut
<1>15. RefusalsDeserved'
  <2>1. \A q \in Request : pc[q] = "answer" => pc'[q] = "answer"
    BY <1>1, <1>2
  <2>. QED
    BY <2>1, <1>1, <1>2 DEF RefusalsDeserved
<1>. QED
  BY <1>7, <1>8, <1>9, <1>10, <1>11, <1>12, <1>14, <1>15

LEMMA LoggedOutKeeps ==
  ASSUME SessionsInv, NEW r \in Request, LoggedOut(r)
  PROVE  SessionsInv'
<1>. USE DEF SessionsInv
<1>1. /\ UNCHANGED <<now, active, issued, blacklist, call, bars>> /\ pc[r] = "answer"
      /\ loggedOut' = loggedOut \cup {TokenOf(r)}
      /\ pc' = [pc EXCEPT ![r] = "done"] /\ reply' = [reply EXCEPT ![r] = "200"]
  BY DEF LoggedOut, Answer
<1>2. /\ pc'[r] = "done" /\ \A q \in Request : q # r => pc'[q] = pc[q]
      /\ reply'[r] = "200" /\ \A q \in Request : q # r => reply'[q] = reply[q]
      /\ \A q : TokenOf(q)' = TokenOf(q)
      /\ \A t : Expired(t)' <=> Expired(t)
  BY <1>1 DEF TypeOK, TokenOf, Expired
<1>3. /\ TokenOf(r) \in Token
      /\ TokenOf(r)[1] = call[r].user /\ TokenOf(r)[2] = call[r].since
  BY DEF TypeOK, TokenOf, Token, Call
<1>4. TypeOK'
  BY <1>1, <1>3 DEF TypeOK, Stage
<1>5. EntriesOutliveTokens'
  BY <1>1, <1>3 DEF EntriesOutliveTokens, RevokedBeforeAnswer
<1>6. RevokedBeforeAnswer'
  BY <1>1, <1>2 DEF RevokedBeforeAnswer
<1>7. \A t : (\E q \in Request : pc[q] = "answer" /\ TokenOf(q) = t) =>
        t \in loggedOut' \/ \E q \in Request : pc'[q] = "answer" /\ TokenOf(q) = t
  BY <1>1, <1>2
<1>8. EntriesAreLogouts'
  BY <1>1, <1>2, <1>7 DEF EntriesAreLogouts
<1>9. BarsStand' /\ TokensArePast' /\ StagesKnow'
  BY <1>1, <1>2 DEF BarsStand, TokensArePast, StagesKnow
<1>10. \A q \in Request : Admitted(q)' => Admitted(q)
  BY <1>1, <1>2 DEF Admitted
<1>11. StaleStayOut' /\ LoggedOutStayOut'
  BY <1>1, <1>10 DEF StaleStayOut, LoggedOutStayOut
<1>12. RefusalsDeserved'
  BY <1>1, <1>2, <1>7 DEF RefusalsDeserved
<1>. QED
  BY <1>4, <1>5, <1>6, <1>8, <1>9, <1>11, <1>12

\* What happens around the requests: the clock, the operator, Redis.
LEMMA AroundKeeps ==
  ASSUME SessionsInv,
         Tick \/ (\E u \in User : Deactivate(u)) \/ (\E t \in Token : LoseEntry(t))
  PROVE  SessionsInv'
<1>. USE DEF SessionsInv
<1>1. /\ UNCHANGED <<issued, pc, call, reply, bars, loggedOut>>
      /\ active' \subseteq active
      /\ now' \in Time /\ now' >= now
      /\ now \in Nat /\ now' \in Nat
      /\ blacklist' \in [Token -> Nat]
      /\ \A t \in Token : t[1] \notin Unlucky => blacklist'[t] = blacklist[t]
      /\ \A t \in Token : blacklist'[t] = blacklist[t] \/ blacklist'[t] = 0
  BY SessionsAssumption DEF Tick, Deactivate, LoseEntry, TypeOK, Time
<1>2. \A q : TokenOf(q)' = TokenOf(q) /\ (Admitted(q)' <=> Admitted(q))
  BY <1>1 DEF TokenOf, Admitted
<1>3. \A t \in Token : Expired(t) => Expired(t)'
  BY <1>1, SessionsAssumption DEF Token, Time, Expired
<1>4. \A q \in Request : TokenOf(q) \in Token /\ call[q].since \in Nat
  BY SessionsAssumption DEF TypeOK, TokenOf, Token, Call, Time
<1>5. TypeOK'
  BY <1>1 DEF TypeOK
<1>6. EntriesOutliveTokens' /\ RevokedBeforeAnswer'
  <2>1. EntriesOutliveTokens'
    BY <1>1 DEF EntriesOutliveTokens, TypeOK
  <2>2. ASSUME NEW q \in Request, pc[q] = "answer", call[q].user \notin Unlucky
        PROVE  blacklist'[TokenOf(q)] = blacklist[TokenOf(q)]
    <3>1. TokenOf(q)[1] = call[q].user
      BY DEF TokenOf
    <3>. QED
      BY <1>1, <1>4, <2>2, <3>1
  <2>3. RevokedBeforeAnswer'
    BY <1>1, <1>2, <2>2 DEF RevokedBeforeAnswer
  <2>. QED
    BY <2>1, <2>3
<1>7. EntriesAreLogouts'
  BY <1>1, <1>2 DEF EntriesAreLogouts
<1>8. BarsStand' /\ StagesKnow'
  BY <1>1, <1>2, <1>3, <1>4 DEF BarsStand, StagesKnow
<1>9. TokensArePast'
  <2>1. \A t \in issued : t[2] \in Nat
    BY SessionsAssumption DEF TypeOK, Token, Time
  <2>. QED
    BY <2>1, <1>1, <1>4 DEF TokensArePast
<1>10. StaleStayOut' /\ LoggedOutStayOut'
  BY <1>1, <1>2 DEF StaleStayOut, LoggedOutStayOut
<1>11. RefusalsDeserved'
  BY <1>1, <1>2, <1>3, <1>4 DEF RefusalsDeserved
<1>. QED
  BY <1>5, <1>6, <1>7, <1>8, <1>9, <1>10, <1>11

LEMMA SessionsStep == SessionsInv /\ [Next]_vars => SessionsInv'
<1>. SUFFICES ASSUME SessionsInv, [Next]_vars PROVE SessionsInv'
  OBVIOUS
<1>1. ASSUME NEW r \in Request, Step(r) PROVE SessionsInv'
  <2>1. CASE \E u \in User : Login(r, u)
    BY <2>1, LoginKeeps
  <2>2. CASE \E t \in issued : Start(r, "serve", t) \/ Start(r, "logout", t)
    BY <2>2, StartKeeps
  <2>3. CASE Issue(r) \/ WrongPassword(r)
    BY <2>3, IssueKeeps
  <2>4. CASE LookUp(r) \/ Verify(r) \/ FindUser(r)
    BY <2>4, LookUpKeeps, VerifyKeeps, FindUserKeeps
  <2>5. CASE Serve(r) \/ Revoke(r) \/ LoggedOut(r)
    BY <2>5, ServeKeeps, RevokeKeeps, LoggedOutKeeps
  <2>. QED
    BY <1>1, <2>1, <2>2, <2>3, <2>4, <2>5 DEF Step
<1>2. CASE Tick \/ (\E u \in User : Deactivate(u)) \/ (\E t \in Token : LoseEntry(t))
  BY <1>2, AroundKeeps
<1>3. CASE UNCHANGED vars
  <2>1. /\ \A q : TokenOf(q)' = TokenOf(q) /\ (Admitted(q)' <=> Admitted(q))
        /\ \A t : Expired(t)' <=> Expired(t)
    BY <1>3 DEF vars, TokenOf, Admitted, Expired
  <2>. QED
    BY <1>3, <2>1 DEF vars, SessionsInv, TypeOK, EntriesOutliveTokens, RevokedBeforeAnswer,
      EntriesAreLogouts, BarsStand, StagesKnow, TokensArePast, StaleStayOut, LoggedOutStayOut,
      RefusalsDeserved
<1>. QED
  BY <1>1, <1>2, <1>3 DEF Next

\* The reasons sessions are kept apart and closed, together, hold in every state.
THEOREM SessionsInvariant == Spec => []SessionsInv
<1>. QED
  BY InitSessions, SessionsStep, PTL DEF Spec

\* Whatever Redis does, a request that begins after its token expired or its user was
\* deactivated reaches no handler (src/middleware/auth.js).
THEOREM StaleNeverAdmitted == Spec => []StaleStayOut
<1>1. SessionsInv => StaleStayOut
  BY DEF SessionsInv
<1>. QED
  BY <1>1, SessionsInvariant, PTL

\* Nobody is refused for another token's logout or another user's deactivation.
THEOREM RefusedForAReason == Spec => []RefusalsDeserved
<1>1. SessionsInv => RefusalsDeserved
  BY DEF SessionsInv
<1>. QED
  BY <1>1, SessionsInvariant, PTL

\* A request that begins after the logout of its token was answered reaches no handler
\* (src/routes/auth.routes.js), unless its user is one whose entries Redis loses.
THEOREM LoggedOutNeverAdmitted == Spec => []LoggedOutStayOut
<1>1. SessionsInv => LoggedOutStayOut
  BY DEF SessionsInv
<1>. QED
  BY <1>1, SessionsInvariant, PTL
==============================================================================
