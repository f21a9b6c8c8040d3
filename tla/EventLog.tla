------------------------------ MODULE EventLog ------------------------------
(***************************************************************************)
(* What the event log promises about one connection (src/events.rs): a     *)
(* connect event, at most one auth event, exactly one close event, last.   *)
(* The close event names the client's token exactly when a measurement     *)
(* session ran, and such a session ran only after its token was accepted,  *)
(* or was not to be checked.                                               *)
(***************************************************************************)
EXTENDS Sequences

CONSTANTS Tokens,  \* what an auth event tells about a token
          NoToken  \* a close event without token fields

VARIABLES log, check_token

vars == <<log, check_token>>

\* Ends before the greeting, in the greeting, and after it.
UpgradeEnds == {"timeout_setup_failed", "tls_failed", "upgrade_disconnect",
                "upgrade_failed", "ip_check", "version"}
SessionEnds == {"quit", "disconnect", "error"}

ConnectEvent == [event |-> "connect"]
AuthEvent(result, tk) == [event |-> "auth", result |-> result, token |-> tk]
CloseEvent(end, tk) == [event |-> "close", end |-> end, token |-> tk]

Init == log = <<>> /\ check_token \in BOOLEAN

Connect ==
  /\ log = <<>>
  /\ log' = <<ConnectEvent>>

Auth(result, tk) ==
  /\ log = <<ConnectEvent>>
  /\ check_token <=> result # "not_checked"
  /\ log' = Append(log, AuthEvent(result, tk))

CloseEarly(end) ==
  /\ log = <<ConnectEvent>>
  /\ log' = Append(log, CloseEvent(end, NoToken))

\* A failed greeting: with or without a token.
CloseGreeting ==
  /\ Len(log) \in {1, 2} /\ log[Len(log)].event # "close"
  /\ log' = Append(log, CloseEvent("auth_failed", NoToken))

CloseSession(end) ==
  /\ Len(log) = 2 /\ log[2].event = "auth" /\ log[2].result # "rejected"
  /\ log' = Append(log, CloseEvent(end, log[2].token))

Next ==
  /\ \/ Connect
     \/ \E result \in {"accepted", "rejected", "not_checked"}, tk \in Tokens : Auth(result, tk)
     \/ \E end \in UpgradeEnds : CloseEarly(end)
     \/ CloseGreeting
     \/ \E end \in SessionEnds : CloseSession(end)
  /\ check_token' = check_token

Spec == Init /\ [][Next]_vars
=============================================================================
