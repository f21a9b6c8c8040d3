---------------------------- MODULE SessionProofs ----------------------------
(***************************************************************************)
(* Theorems about Session: what a session reports about its end, and that  *)
(* Session implements EventLog.                                            *)
(***************************************************************************)
EXTENDS Session, SequenceTheorems, TLAPS

-----------------------------------------------------------------------------
(* The inductive invariant: what is known at each point of                 *)
(* handle_connection.                                                      *)

ConnectLog == <<EventContract!ConnectEvent>>
AuthLog(result, tk) == <<EventContract!ConnectEvent, EventContract!AuthEvent(result, tk)>>

\* The client was let in with token tk, or let pass without a check.
LetIn(tk) == \E result \in {"accepted", "not_checked"} : log = AuthLog(result, tk)

\* The log and the token of the close event, up to the commands ...
LogInv ==
  /\ pc = "start" => log = <<>>
  /\ pc \in {"timeouts", "request", "respond", "answer", "greeting", "token", "auth"} => log = ConnectLog
  /\ pc = "auth" => token \in Tokens
  /\ pc = "reject" => log = AuthLog("rejected", token) /\ token \in Tokens
  /\ pc \in {"sleep", "ok"} => LetIn(token) /\ token \in Tokens
  /\ pc = "commands" => LetIn(greeting) /\ greeting \in Tokens
  /\ pc \notin {"commands", "close", "done"} => greeting = NoToken

\* ... and when the session has ended: before the greeting, in it, after it.
CloseInv ==
  pc = "close" =>
    \/ end_reason \in EventContract!UpgradeEnds /\ log = ConnectLog /\ greeting = NoToken
    \/ /\ end_reason = "auth_failed" /\ greeting = NoToken
       /\ log = ConnectLog \/ \E result \in {"accepted", "rejected", "not_checked"}, tk \in Tokens :
                                log = AuthLog(result, tk)
    \/ end_reason \in EventContract!SessionEnds /\ greeting \in Tokens /\ LetIn(greeting)

\* A session that goes on has no end yet.
EndInv ==
  /\ body \in Nat
  /\ pc \notin {"close", "done"} => end_reason = "none" /\ cause = "none"

SessionInv == TypeOK /\ LogInv /\ CloseInv /\ EndInv /\ EndMatchesCause

LEMMA InitInv == Init => SessionInv
<1> SUFFICES ASSUME Init PROVE SessionInv
  OBVIOUS
<1>1. TypeOK
  BY DEF Init, TypeOK, Ends
<1>2. LogInv
  BY DEF Init, LogInv
<1>3. CloseInv
  BY DEF Init, CloseInv
<1>4. EndInv
  BY DEF Init, EndInv
<1>5. EndMatchesCause
  BY DEF Init, EndMatchesCause
<1> QED
  BY <1>1, <1>2, <1>3, <1>4, <1>5 DEF SessionInv

-----------------------------------------------------------------------------
(* Every action of the session preserves the invariant. *)

USE DEF EventContract!UpgradeEnds, EventContract!SessionEnds

LEMMA GoOnStep ==
  ASSUME SessionInv, Start \/ ReadRequest \/ Upgrade \/ ReadToken \/ Wake
  PROVE  SessionInv'
<1> USE DEF SessionInv, config, http
<1>1. CASE Start
  <2>1. log' = ConnectLog
    BY <1>1 DEF Start, LogInv, ConnectLog, EventContract!ConnectEvent
  <2> QED
    BY <1>1, <2>1 DEF Start, TypeOK, LogInv, CloseInv, EndInv, EndMatchesCause, ConnectLog
<1>2. CASE ReadRequest
  BY <1>2, BodyAssumption DEF ReadRequest, TypeOK, LogInv, CloseInv, EndInv, EndMatchesCause
<1>3. CASE Upgrade
  BY <1>3 DEF Upgrade, TypeOK, LogInv, CloseInv, EndInv, EndMatchesCause
<1>4. CASE ReadToken
  BY <1>4 DEF ReadToken, TypeOK, LogInv, CloseInv, EndInv, EndMatchesCause
<1>5. CASE Wake
  BY <1>5 DEF Wake, TypeOK, LogInv, CloseInv, EndInv, EndMatchesCause, LetIn
<1> QED
  BY <1>1, <1>2, <1>3, <1>4, <1>5


LEMMA AnswerStep ==
  ASSUME SessionInv, AnswerHead \/ ReadBody
  PROVE  SessionInv'
<1> USE BodyAssumption DEF SessionInv, TypeOK, LogInv, CloseInv, EndInv, EndMatchesCause,
        Determine, config
<1>1. CASE AnswerHead
  BY <1>1 DEF AnswerHead
<1>2. CASE ReadBody
  BY <1>2 DEF ReadBody, TooLong
<1> QED
  BY <1>1, <1>2

\* Append to a log of one event.
LEMMA AppendOne == ASSUME NEW a, NEW b PROVE Append(<<a>>, b) = <<a, b>>
<1> DEFINE S == {a, b}
<1>1. <<a, b>> \in Seq(S) /\ Len(<<a, b>>) = 2
  OBVIOUS
<1>2. Append(<<a>>, b) \in Seq(S) /\ Len(Append(<<a>>, b)) = 2
  OBVIOUS
<1>3. \A i \in 1 .. 2 : Append(<<a>>, b)[i] = <<a, b>>[i]
  OBVIOUS
<1> QED
  BY <1>1, <1>2, <1>3, SeqEqual

LEMMA AuthStep == ASSUME SessionInv, Authenticate PROVE SessionInv'
<1>1. PICK result \in AuthResults :
        /\ log' = Append(log, [event |-> "auth", result |-> result, token |-> token])
        /\ pc' \in CASE result = "accepted"    -> {"sleep", "ok"}
                     [] result = "rejected"    -> {"reject"}
                     [] result = "not_checked" -> {"ok"}
  BY DEF Authenticate, LogAuth
<1>2. log' = AuthLog(result, token) /\ token \in Tokens
  <2>1. log = ConnectLog /\ token \in Tokens
    BY DEF SessionInv, LogInv, Authenticate
  <2> QED
    BY <1>1, <2>1, AppendOne DEF ConnectLog, AuthLog, EventContract!AuthEvent
<1>3. Len(log') <= 3
  BY <1>2 DEF AuthLog, EventContract!ConnectEvent, EventContract!AuthEvent
<1>4. /\ result \in {"accepted", "rejected", "not_checked"}
      /\ IF result = "rejected" THEN pc' = "reject" ELSE pc' \in {"sleep", "ok"}
  BY <1>1 DEF AuthResults
<1>5. LogInv'
  BY <1>2, <1>4 DEF Authenticate, SessionInv, LogInv, LetIn, AuthLog
<1> QED
  BY <1>3, <1>4, <1>5 DEF SessionInv, TypeOK, CloseInv, EndInv, EndMatchesCause, Authenticate,
     config, http

\* A session that ends before the greeting.
LEMMA UpgradeEndStep ==
  ASSUME SessionInv, NEW reason \in EventContract!UpgradeEnds, NEW why, End(reason, why),
         pc \in {"timeouts", "request", "respond", "answer"}, UNCHANGED <<token, greeting>>
  PROVE  SessionInv'
  BY DEF SessionInv, TypeOK, LogInv, CloseInv, EndInv, EndMatchesCause, End, config, http, Ends

\* The errors of detect_and_upgrade.
LEMMA UpgradeErrorStep ==
  ASSUME SessionInv, NEW e, NEW why, UpgradeError(e, why),
         pc \in {"timeouts", "request", "respond", "answer"}
  PROVE  SessionInv'
  BY UpgradeEndStep DEF UpgradeError

LEMMA BeforeGreetingStep ==
  ASSUME SessionInv, SetTimeouts \/ TlsHandshakeFails \/ ReadRequestFails \/ Refuse \/ ReadBodyFails
                     \/ RespondFails \/ Answer
  PROVE  SessionInv'
<1>1. CASE SetTimeouts
  <2>1. CASE pc' = "request"
    BY <1>1, <2>1 DEF SetTimeouts, SessionInv, TypeOK, LogInv, CloseInv, EndInv, EndMatchesCause,
       End, config, http
  <2>2. CASE \E reason \in EventContract!UpgradeEnds : End(reason, "setup")
    BY <1>1, <2>2, UpgradeEndStep DEF SetTimeouts
  <2> QED
    BY <1>1, <2>1, <2>2 DEF SetTimeouts
<1>2. CASE TlsHandshakeFails
  BY <1>2, UpgradeErrorStep DEF TlsHandshakeFails
<1>3. CASE ReadRequestFails
  BY <1>3, UpgradeErrorStep DEF ReadRequestFails
<1>4. CASE Refuse
  BY <1>4, UpgradeErrorStep DEF Refuse
<1>5. CASE ReadBodyFails
  BY <1>5, UpgradeErrorStep DEF ReadBodyFails
<1>6. CASE RespondFails
  BY <1>6, UpgradeErrorStep DEF RespondFails
<1>7. CASE Answer
  BY <1>7, UpgradeEndStep DEF Answer
<1> QED
  BY <1>1, <1>2, <1>3, <1>4, <1>5, <1>6, <1>7

\* A greeting that fails.
LEMMA GreetingFailsStep ==
  ASSUME SessionInv, NEW why, GreetingFails(why),
         pc \in {"greeting", "token", "reject", "ok"}
  PROVE  SessionInv'
<1>1. log = ConnectLog \/ \E result \in {"accepted", "rejected", "not_checked"}, tk \in Tokens :
                                log = AuthLog(result, tk)
  BY DEF SessionInv, LogInv, LetIn
<1>2. CloseInv'
  BY <1>1 DEF GreetingFails, End, CloseInv, SessionInv, LogInv, ConnectLog, AuthLog
<1> QED
  BY <1>2 DEF SessionInv, TypeOK, LogInv, EndInv, EndMatchesCause, GreetingFails, End,
     config, http, Ends

LEMMA GreetingStep ==
  ASSUME SessionInv, WriteGreeting \/ ReadTokenFails \/ ReadNoToken \/ Reject \/ WriteOk
  PROVE  SessionInv'
<1>1. CASE WriteGreeting
  <2>1. CASE pc' = "token"
    BY <1>1, <2>1 DEF WriteGreeting, SessionInv, TypeOK, LogInv, CloseInv, EndInv, EndMatchesCause,
       GreetingFails, End, config, http
  <2>2. CASE GreetingFails(peer)
    BY <1>1, <2>2, GreetingFailsStep DEF WriteGreeting
  <2> QED
    BY <1>1, <2>1, <2>2 DEF WriteGreeting
<1>2. CASE ReadTokenFails
  BY <1>2, GreetingFailsStep DEF ReadTokenFails
<1>3. CASE ReadNoToken
  BY <1>3, GreetingFailsStep DEF ReadNoToken
<1>4. CASE Reject
  BY <1>4, GreetingFailsStep DEF Reject
<1>5. CASE WriteOk
  <2>1. CASE pc' = "commands"
    BY <1>5, <2>1 DEF WriteOk, SessionInv, TypeOK, LogInv, CloseInv, EndInv, EndMatchesCause,
       GreetingFails, End, config, http, LetIn
  <2>2. CASE GreetingFails(peer)
    BY <1>5, <2>2, GreetingFailsStep DEF WriteOk
  <2> QED
    BY <1>5, <2>1, <2>2 DEF WriteOk
<1> QED
  BY <1>1, <1>2, <1>3, <1>4, <1>5

\* What the errors of a session tell about its client: an error kind counted as
\* a disconnect comes only from one that is gone, and on a raw stream every
\* error of one that is gone is counted so.
LEMMA ErrorsTell ==
  ASSUME TypeOK, NEW e \in IoErrors \cup ProtocolErrors, kind # "none"
  PROVE  /\ is_client_disconnect(e) => Blame = "gone"
         /\ ~is_client_disconnect(e) /\ kind = "raw" => Blame \in {"silent", "protocol"}
<1> USE DEF TypeOK, IoErrors, ReadErrors, WriteErrors, ProtocolErrors, Blame, is_client_disconnect
<1>1. CASE peer = "open"
  BY <1>1
<1>2. CASE peer = "silent"
  BY <1>2
<1>3. CASE peer = "gone"
  BY <1>3
<1> QED
  BY <1>1, <1>2, <1>3

LEMMA CommandsStep ==
  ASSUME SessionInv, Quit \/ CommandsFail
  PROVE  SessionInv'
<1>1. PICK reason \in EventContract!SessionEnds, why \in {"quit", "gone", "silent", "protocol"} :
        /\ End(reason, why)
        /\ reason = "disconnect" => why = "gone"
        /\ reason = "error" /\ kind = "raw" => why \in {"silent", "protocol"}
  <2>1. CASE Quit
    BY <2>1 DEF Quit
  <2>2. CASE CommandsFail
    <3>1. PICK e \in IoErrors \cup ProtocolErrors :
            End(IF is_client_disconnect(e) THEN "disconnect" ELSE "error", Blame)
      BY <2>2 DEF CommandsFail
    <3>2. kind # "none" /\ Blame \in {"gone", "silent", "protocol"}
      BY <2>2 DEF CommandsFail, SessionInv, TypeOK, Blame
    <3> QED
      BY <3>1, <3>2, ErrorsTell DEF SessionInv
  <2> QED
    BY <2>1, <2>2
<1>2. pc = "commands" /\ UNCHANGED <<token, greeting>>
  BY DEF Quit, CommandsFail
<1>3. CloseInv'
  BY <1>1, <1>2 DEF End, CloseInv, SessionInv, LogInv, LetIn, AuthLog
<1> QED
  BY <1>1, <1>2, <1>3 DEF SessionInv, TypeOK, LogInv, EndInv, EndMatchesCause, End,
     config, http, Ends

LEMMA CloseStep == ASSUME SessionInv, Close PROVE SessionInv'
<1>1. Len(log') <= 3
  <2>1. CloseInv /\ pc = "close"
    BY DEF SessionInv, Close
  <2>2. PICK c : log' = Append(log, c)
    BY DEF Close
  <2>3. CASE log = ConnectLog
    BY <2>2, <2>3 DEF ConnectLog
  <2>4. CASE \E result, tk : log = AuthLog(result, tk)
    BY <2>2, <2>4 DEF AuthLog
  <2> QED
    BY <2>1, <2>3, <2>4 DEF CloseInv, LetIn
<1>2. TypeOK'
  BY <1>1 DEF SessionInv, TypeOK, Close, config, http
<1>3. EndMatchesCause'
  BY DEF SessionInv, EndMatchesCause, Close
<1> QED
  BY <1>2, <1>3 DEF SessionInv, LogInv, CloseInv, EndInv, Close, http

\* Nothing but the client's state, or nothing at all, changes.
LEMMA IdleStep ==
  ASSUME SessionInv, (\E p \in {"open", "silent", "gone"} : Peer(p)) \/ Done \/ UNCHANGED vars
  PROVE  SessionInv'
  BY DEF SessionInv, TypeOK, LogInv, CloseInv, EndInv, EndMatchesCause, Peer, Done, vars,
     config, http, LetIn

LEMMA NextInv == SessionInv /\ [Next]_vars => SessionInv'
  BY GoOnStep, AnswerStep, AuthStep, BeforeGreetingStep, GreetingStep, CommandsStep, CloseStep, IdleStep
  DEF Next, Step, ClientStep

\* The invariant holds throughout every session.
LEMMA InvHolds == Spec => []SessionInv
  BY InitInv, NextInv, PTL DEF Spec

-----------------------------------------------------------------------------
(* Theorems. *)

\* Every variable keeps its type, and a session emits at most three events.
THEOREM TypeCorrect == Spec => []TypeOK
<1>1. SessionInv => TypeOK
  BY DEF SessionInv
<1> QED
  BY <1>1, InvHolds, PTL

\* Whatever the client does, a session reported as a disconnect met a client
\* that left, and a raw one reported as an error one that did not.
THEOREM EndIsTrue == Spec => []EndMatchesCause
<1>1. SessionInv => EndMatchesCause
  BY DEF SessionInv
<1> QED
  BY <1>1, InvHolds, PTL

-----------------------------------------------------------------------------
(* Session implements EventLog. *)

\* Only three actions emit an event.
LEMMA SilentStep ==
  ASSUME [Next]_vars, ~Start, ~Authenticate, ~Close
  PROVE  UNCHANGED <<log, check_token>>
  BY DEF Next, Step, ClientStep, SetTimeouts, ReadRequestFails, Refuse, AnswerHead, ReadBodyFails, RespondFails,
     Answer, Upgrade, WriteGreeting, ReadTokenFails, Reject, Wake, WriteOk, CommandsFail, TlsHandshakeFails,
     ReadRequest, ReadBody, ReadToken, ReadNoToken, Quit, Peer, Done, Determine, UpgradeError, GreetingFails,
     End, config, vars

LEMMA RefineStep == SessionInv /\ [Next]_vars => [EventContract!Next]_(EventContract!vars)
<1> SUFFICES ASSUME SessionInv, [Next]_vars PROVE [EventContract!Next]_(EventContract!vars)
  OBVIOUS
<1>1. CASE Start
  BY <1>1 DEF Start, SessionInv, LogInv, config, EventContract!Next, EventContract!Connect,
     EventContract!ConnectEvent
<1>2. CASE Authenticate
  <2>1. PICK result \in AuthResults : LogAuth(result)
    BY <1>2 DEF Authenticate
  <2>2. EventContract!Auth(result, token)
    BY <1>2, <2>1 DEF Authenticate, LogAuth, AuthResults, SessionInv, TypeOK, LogInv, ConnectLog,
       EventContract!Auth, EventContract!AuthEvent
  <2> QED
    BY <1>2, <2>1, <2>2 DEF Authenticate, AuthResults, SessionInv, LogInv, config, EventContract!Next
<1>3. CASE Close
  <2>1. CASE end_reason \in EventContract!UpgradeEnds /\ log = ConnectLog /\ greeting = NoToken
    <3>1. EventContract!CloseEarly(end_reason)
      BY <1>3, <2>1 DEF Close, ConnectLog, EventContract!CloseEarly, EventContract!CloseEvent
    <3> QED
      BY <1>3, <2>1, <3>1 DEF Close, config, EventContract!Next
  <2>2. CASE end_reason = "auth_failed"
    <3>1. EventContract!CloseGreeting
      BY <1>3, <2>2 DEF Close, SessionInv, CloseInv, ConnectLog, AuthLog, EventContract!CloseGreeting,
         EventContract!CloseEvent, EventContract!ConnectEvent, EventContract!AuthEvent
    <3> QED
      BY <1>3, <3>1 DEF Close, config, EventContract!Next
  <2>3. CASE end_reason \in EventContract!SessionEnds /\ greeting \in Tokens /\ LetIn(greeting)
    <3>1. EventContract!CloseSession(end_reason)
      BY <1>3, <2>3 DEF Close, LetIn, AuthLog, EventContract!CloseSession,
         EventContract!CloseEvent, EventContract!ConnectEvent, EventContract!AuthEvent
    <3> QED
      BY <1>3, <2>3, <3>1 DEF Close, config, EventContract!Next
  <2> QED
    BY <1>3, <2>1, <2>2, <2>3 DEF Close, SessionInv, CloseInv
<1> QED
  BY <1>1, <1>2, <1>3, SilentStep DEF EventContract!vars

\* handle_connection keeps the promise of the event log: a connect event, at
\* most one auth event, one close event, last, which names a token exactly when
\* the client was let in.
THEOREM ImplementsEventLog == Spec => EventLogSpec
<1>1. Init => EventContract!Init
  BY DEF Init, EventContract!Init
<1> QED
  BY <1>1, RefineStep, InvHolds, PTL DEF Spec, EventLogSpec, EventContract!Spec
=============================================================================
