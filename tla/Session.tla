------------------------------- MODULE Session -------------------------------
(***************************************************************************)
(* One session: handle_connection (src/server/mod.rs) with the HTTP        *)
(* upgrade (src/stream/websocket_upgrade.rs), the answers of /ip and       *)
(* /version (src/ip_check.rs, src/version.rs), the greeting                *)
(* (src/protocol/greeting.rs) and the events it emits.  The client may do  *)
(* what it likes, fall silent or go away at any point; what the stream     *)
(* then reports depends on how the connection is framed.  The decision     *)
(* about a token is module Token, the command loop module Commands.        *)
(***************************************************************************)
EXTENDS Naturals, Sequences

CONSTANTS Tokens,     \* what an auth event tells about a token: uuid, type, label
          NoToken,    \* the token fields of a close event that has none
          MAX_BODY,   \* longest body of an /ip request (8192 in the code)
          MAX_DRAIN,  \* what is read of a longer one (65536 in the code)
          BodyBound   \* bound: bytes of a body

ASSUME TokenAssumption == NoToken \notin Tokens
ASSUME BodyAssumption ==
  MAX_BODY \in Nat /\ MAX_DRAIN \in Nat /\ MAX_BODY <= MAX_DRAIN /\ BodyBound \in Nat

VARIABLES
  pc,           \* where handle_connection is
  is_tls,       \* the connection came from a TLS listener
  check_token,  \* Config::check_token
  peer,         \* "open", "silent" (nothing arrives, nothing is read) or "gone"
  kind,         \* how the stream is framed: "none" yet, "raw" or "websocket"
  request,      \* what kind of HTTP request was read
  body,         \* the bytes of its body
  unread,       \* those the server has not read
  status,       \* the HTTP status of the answer, 0 when there is none yet
  token,        \* the token of the TOKEN line
  greeting,     \* what run_greeting returned: the token, or NoToken
  end_reason,
  log,          \* the events emitted
  cause         \* history: what ended the session

config == <<is_tls, check_token>>
http == <<request, body, unread, status>>
vars == <<pc, config, peer, kind, http, token, greeting, end_reason, log, cause>>

Init ==
  /\ pc = "start" /\ is_tls \in BOOLEAN /\ check_token \in BOOLEAN
  /\ peer = "open" /\ kind = "none"
  /\ request = "none" /\ body = 0 /\ unread = 0 /\ status = 0
  /\ token = NoToken /\ greeting = NoToken
  /\ end_reason = "none" /\ log = <<>> /\ cause = "none"

-----------------------------------------------------------------------------
(* The client. *)

\* External: the client falls silent, comes back, or goes away for good.
Peer(p) ==
  /\ pc # "done" /\ peer # "gone" /\ p # peer
  /\ peer' = p
  /\ UNCHANGED <<pc, config, kind, http, token, greeting, end_reason, log, cause>>

-----------------------------------------------------------------------------
(* What the stream reports. *)

\* The error kinds of a read.  A silent peer runs into the 30 s socket timeout.
\* A peer that is gone: end of file or a reset, but tungstenite turns an end of
\* file into a protocol error, which read_line passes on as Other; a TLS peer
\* that leaves without close_notify is reported by rustls before that.
ReadErrors ==
  CASE peer = "open"   -> {}
    [] peer = "silent" -> {"WouldBlock"}
    [] peer = "gone"   -> {"ConnectionReset"}
                          \cup (IF kind = "websocket" THEN {"Other"} ELSE {"UnexpectedEof"})
                          \cup (IF is_tls THEN {"UnexpectedEof"} ELSE {})

\* The error kinds of a write; a write may also go into the socket's buffer and
\* succeed.  Every WebSocket error becomes Other.
WriteErrors ==
  CASE peer = "open"       -> {}
    [] kind = "websocket"  -> {"Other"}
    [] peer = "silent"     -> {"WouldBlock"}
    [] peer = "gone"       -> {"BrokenPipe", "ConnectionReset"}

\* What a client can make a read fail with by what it sends: a line too long or
\* not UTF-8, or a frame that is none.
ProtocolErrors == IF peer # "open" THEN {} ELSE IF kind = "websocket" THEN {"Other"} ELSE {"InvalidData"}

IoErrors == ReadErrors \cup WriteErrors

\* Mutant: a clean end of file is not counted as a disconnect.
is_client_disconnect_noeof(e) == e \in {"ConnectionReset", "ConnectionAborted", "BrokenPipe"}

\* The kinds that mean that the client simply went away.
is_client_disconnect(e) ==
  e \in {"UnexpectedEof", "ConnectionReset", "ConnectionAborted", "BrokenPipe"}

\* break 'session: the session ends for a reason, because of why.
End(reason, why) ==
  /\ pc' = "close"
  /\ end_reason' = reason
  /\ cause' = why
  /\ UNCHANGED <<config, peer, kind, http, log>>

Blame == IF peer = "open" THEN "protocol" ELSE peer

-----------------------------------------------------------------------------
(* handle_connection up to the upgrade. *)

\* The connect event.
Start ==
  /\ pc = "start"
  /\ log' = Append(log, [event |-> "connect"])
  /\ pc' = "timeouts"
  /\ UNCHANGED <<config, peer, kind, http, token, greeting, end_reason, cause>>

SetTimeouts ==
  /\ pc = "timeouts"
  /\ \/ /\ pc' = "request"
        /\ UNCHANGED <<config, peer, kind, http, end_reason, log, cause>>
     \/ End("timeout_setup_failed", "setup")
     \/ is_tls /\ End("tls_failed", "setup")  \* ServerConnection::new fails
  /\ UNCHANGED <<token, greeting>>

\* What becomes of an io::Error of detect_and_upgrade.
UpgradeError(e, why) ==
  /\ End(IF is_client_disconnect(e) THEN "upgrade_disconnect" ELSE "upgrade_failed", why)
  /\ UNCHANGED <<token, greeting>>

\* rustls performs the handshake inside the first read; what it cannot accept
\* comes back as InvalidData.
TlsHandshakeFails ==
  /\ pc = "request" /\ is_tls /\ peer = "open"
  /\ UpgradeError("InvalidData", "tls")

ReadRequestFails ==
  /\ pc = "request"
  /\ \E e \in ReadErrors \cup ProtocolErrors : UpgradeError(e, Blame)

\* The requests of /ip (by method, and a Content-Length that is none) and of
\* /version, what is not a GET, and GETs with or without a known Upgrade header
\* (and a Sec-WebSocket-Key).
IpRequests == {"ip_options", "ip_chunked", "ip_post", "ip_other", "ip_bad_length"}
VersionRequests == {"version_get", "version_other"}
UpgradeRequests == {"rmbt", "websocket"}
RefusedRequests == {"not_get", "websocket_nokey", "no_upgrade", "ip_bad_length"}

\* A complete HTTP head; a body may follow.
ReadRequest ==
  /\ pc = "request" /\ peer = "open"
  /\ request' \in IpRequests \cup VersionRequests \cup UpgradeRequests \cup RefusedRequests
  /\ body' \in IF request' \in {"ip_chunked", "ip_post", "ip_other"} THEN 0 .. BodyBound ELSE {0}
  /\ unread' = body' /\ status' = 0
  /\ pc' = "respond"
  /\ UNCHANGED <<config, peer, kind, token, greeting, end_reason, log, cause>>

\* The 405 and 426 answers are written on a best effort, others not at all.
Refuse ==
  /\ pc = "respond" /\ request \in RefusedRequests
  /\ UpgradeError("InvalidData", "protocol")

\* The answer of /ip or /version is determined, and what was read for it.
Determine(code, left) ==
  /\ pc' = "answer" /\ status' = code /\ unread' = left
  /\ UNCHANGED <<config, peer, kind, request, body, token, greeting, end_reason, log, cause>>

\* Without the body.
AnswerHead ==
  /\ pc = "respond"
  /\ \/ request \in {"ip_options", "version_get"} /\ Determine(200, unread)
     \/ request = "ip_chunked" /\ Determine(411, unread)
     \/ request \in {"ip_other", "version_other"} /\ Determine(405, unread)

TooLong == body > MAX_BODY

\* A body is read to its end, one that is too long up to a limit: there an
\* early end of file is no error.
ReadBody ==
  /\ pc = "respond" /\ request = "ip_post"
  /\ \/ ~TooLong /\ peer = "open" /\ \E code \in {200, 400, 403, 415} : Determine(code, 0)
     \/ TooLong /\ peer = "open" /\ Determine(413, IF body > MAX_DRAIN THEN body - MAX_DRAIN ELSE 0)
     \/ TooLong /\ peer = "gone" /\ Determine(413, 0)

\* A read fails, or the peer address of a client that is gone is unknown.
ReadBodyFails ==
  /\ pc = "respond" /\ request = "ip_post"
  /\ \E e \in (ReadErrors \ (IF TooLong /\ ~is_tls THEN {"UnexpectedEof"} ELSE {}))
             \cup (IF ~TooLong /\ peer = "gone" THEN {"Other"} ELSE {}) : UpgradeError(e, peer)

\* The answer, or 101 Switching Protocols, cannot be written.
RespondFails ==
  /\ pc = "answer" \/ (pc = "respond" /\ request \in UpgradeRequests)
  /\ \E e \in WriteErrors : UpgradeError(e, peer)

Answer ==
  /\ pc = "answer"
  /\ End(IF request \in IpRequests THEN "ip_check" ELSE "version", "answered")
  /\ UNCHANGED <<token, greeting>>

\* 101 Switching Protocols.
Upgrade ==
  /\ pc = "respond" /\ request \in UpgradeRequests
  /\ kind' = IF request = "websocket" THEN "websocket" ELSE "raw"
  /\ pc' = "greeting"
  /\ UNCHANGED <<config, peer, http, token, greeting, end_reason, log, cause>>

-----------------------------------------------------------------------------
(* run_greeting. *)

GreetingFails(why) == End("auth_failed", why) /\ UNCHANGED <<token, greeting>>

\* The version line and ACCEPT TOKEN QUIT.
WriteGreeting ==
  /\ pc = "greeting"
  /\ \/ /\ pc' = "token"
        /\ UNCHANGED <<config, peer, kind, http, token, greeting, end_reason, log, cause>>
     \/ WriteErrors # {} /\ GreetingFails(peer)

\* Mutant: a read that times out is taken for another blank line.
ReadTokenFailsRetries ==
  /\ pc = "token" /\ ReadErrors \cup ProtocolErrors # {}
  /\ \/ peer = "silent" /\ UNCHANGED vars
     \/ peer # "silent" /\ GreetingFails(Blame)

\* The loop that skips blank lines ends with any error.
ReadTokenFails ==
  /\ pc = "token" /\ ReadErrors \cup ProtocolErrors # {}
  /\ GreetingFails(Blame)

ReadToken ==
  /\ pc = "token" /\ peer = "open"
  /\ token' \in Tokens
  /\ pc' = "auth"
  /\ UNCHANGED <<config, peer, kind, http, greeting, end_reason, log, cause>>

\* QUIT is answered with BYE, any other line with ERR.
ReadNoToken ==
  /\ pc = "token" /\ peer = "open"
  /\ GreetingFails("protocol")

AuthResults == IF check_token THEN {"accepted", "rejected"} ELSE {"not_checked"}

LogAuth(result) ==
  log' = Append(log, [event |-> "auth", result |-> result, token |-> token])

\* Mutant: a rejected token is only logged.
AuthenticateLenient ==
  /\ pc = "auth"
  /\ \E result \in AuthResults : LogAuth(result)
  /\ pc' \in {"sleep", "ok"}
  /\ UNCHANGED <<config, peer, kind, http, token, greeting, end_reason, cause>>

\* The verdict, logged at once; an accepted client that is early sleeps.
Authenticate ==
  /\ pc = "auth"
  /\ \E result \in AuthResults :
       /\ LogAuth(result)
       /\ pc' \in CASE result = "accepted"    -> {"sleep", "ok"}
                    [] result = "rejected"    -> {"reject"}
                    [] result = "not_checked" -> {"ok"}
  /\ UNCHANGED <<config, peer, kind, http, token, greeting, end_reason, cause>>

\* ERR, written or not.
Reject ==
  /\ pc = "reject"
  /\ GreetingFails("rejected")

Wake ==
  /\ pc = "sleep"
  /\ pc' = "ok"
  /\ UNCHANGED <<config, peer, kind, http, token, greeting, end_reason, log, cause>>

\* OK and CHUNKSIZE; only now the token is kept for the close event.
WriteOk ==
  /\ pc = "ok"
  /\ \/ /\ greeting' = token
        /\ pc' = "commands"
        /\ UNCHANGED <<config, peer, kind, http, token, end_reason, log, cause>>
     \/ WriteErrors # {} /\ GreetingFails(peer)

-----------------------------------------------------------------------------
(* run_commands, and the end of handle_connection. *)

Quit ==
  /\ pc = "commands" /\ peer = "open"
  /\ End("quit", "quit")
  /\ UNCHANGED <<token, greeting>>

CommandsFail ==
  /\ pc = "commands"
  /\ \E e \in IoErrors \cup ProtocolErrors :
       End(IF is_client_disconnect(e) THEN "disconnect" ELSE "error", Blame)
  /\ UNCHANGED <<token, greeting>>

\* Mutant: the close event may be emitted again, by an error path of its own.
CloseAgain ==
  /\ pc = "close"
  /\ log' = Append(log, [event |-> "close", end |-> end_reason, token |-> greeting])
  /\ pc' = IF Len(log) < 3 THEN "close" ELSE "done"
  /\ UNCHANGED <<config, peer, kind, http, token, greeting, end_reason, cause>>

\* The only place where the close event is emitted.
Close ==
  /\ pc = "close"
  /\ log' = Append(log, [event |-> "close", end |-> end_reason, token |-> greeting])
  /\ pc' = "done"
  /\ UNCHANGED <<config, peer, kind, http, token, greeting, end_reason, cause>>

-----------------------------------------------------------------------------
Step ==
  \/ Start \/ SetTimeouts \/ ReadRequestFails \/ Refuse \/ AnswerHead \/ ReadBodyFails
  \/ RespondFails \/ Answer
  \/ Upgrade \/ WriteGreeting \/ ReadTokenFails \/ Authenticate \/ Reject \/ Wake
  \/ WriteOk \/ CommandsFail \/ Close

\* What only an open client makes happen.
ClientStep == TlsHandshakeFails \/ ReadRequest \/ ReadBody \/ ReadToken \/ ReadNoToken \/ Quit

Done == pc = "done" /\ UNCHANGED vars

Next == Step \/ ClientStep \/ (\E p \in {"open", "silent", "gone"} : Peer(p)) \/ Done

\* The worker thread runs, so every call returns, with an error after 30 s if
\* the peer does nothing.  Nothing obliges a client that is open to send.
Spec == Init /\ [][Next]_vars /\ WF_vars(Step)

-----------------------------------------------------------------------------
(* Properties. *)

Ends == {"none", "timeout_setup_failed", "tls_failed", "upgrade_disconnect", "upgrade_failed",
         "ip_check", "version", "auth_failed", "quit", "disconnect", "error"}

\* Every variable has its type, and the stream is framed before it is used.
TypeOK ==
  /\ pc \in {"start", "timeouts", "request", "respond", "answer", "greeting", "token", "auth", "reject",
             "sleep", "ok", "commands", "close", "done"}
  /\ is_tls \in BOOLEAN /\ check_token \in BOOLEAN
  /\ peer \in {"open", "silent", "gone"} /\ kind \in {"none", "raw", "websocket"}
  /\ token \in Tokens \cup {NoToken} /\ greeting \in Tokens \cup {NoToken}
  /\ end_reason \in Ends /\ Len(log) <= 3 /\ unread \in 0 .. body
  /\ status \in {0, 200, 400, 403, 405, 411, 413, 415}
  /\ pc \in {"greeting", "token", "auth", "reject", "sleep", "ok", "commands"} => kind # "none"

\* The events of a session are what EventLog promises: in particular one close
\* event, last, and no measurement without an accepted token.
EventContract == INSTANCE EventLog WITH Tokens <- Tokens, NoToken <- NoToken,
                                        log <- log, check_token <- check_token
EventLogSpec == EventContract!Spec

\* The end a session reports is what happened to it: only a client that left
\* is a disconnect; a raw session that ends as an error met a client that fell
\* silent or broke the protocol.  (Over WebSocket tungstenite reports some of
\* those that left as errors of its own.)
EndMatchesCause ==
  /\ end_reason = "disconnect" => cause = "gone"
  /\ kind = "raw" /\ end_reason = "error" => cause \in {"silent", "protocol"}

\* A client that stays silent or away cannot hold the worker: the session ends
\* with its close event, by the socket timeouts alone.
SilentClientEnds == <>[](peer # "open") => <>(pc = "done")
=============================================================================
