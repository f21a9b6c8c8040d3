-------------------------------- MODULE Auth --------------------------------
(***************************************************************************)
(* The token check in time: run_greeting (src/protocol/greeting.rs)        *)
(* validates the client's token while the clock runs and makes an early    *)
(* client wait; /ip (src/ip_check.rs) checks the token, never waits, and    *)
(* signs its answer for the control server.                                *)
(***************************************************************************)
EXTENDS IpResponse

CONSTANTS Keys,        \* the loaded secret keys, in the order of the file
          Tokens,      \* the tokens clients may present
          Addresses,   \* the addresses they may connect from
          Bodies,      \* the bodies of /ip requests: [json, local, token]
          StartTimes,  \* the clock when the client connects
          PauseBound   \* bound: seconds the thread may be paused for

ASSUME KeysAssumption == Keys \in Seq([key : STRING, label : STRING])
\* The parts of a token as they are parsed: the start time is an i64, the time
\* of a v2 part has the bits of the period.
ASSUME TokensAssumption ==
  \A t \in Tokens :
    /\ t.v1 = [form |-> t.v1.form, uuid |-> t.v1.uuid, start |-> t.v1.start, hmac |-> t.v1.hmac]
    /\ t.v2 = [form |-> t.v2.form, time |-> t.v2.time, packet |-> t.v2.packet, iphash |-> t.v2.iphash]
    /\ t.v1.form \in {"ok", "bad"} /\ t.v1.start \in Int
    /\ t.v2.form \in {"ok", "bad"} /\ t.v2.time \in 0 .. PERIOD - 1
IsAddress(ip) ==
  \/ ip = [fam |-> "v4", lo |-> ip.lo]
  \/ ip.fam = "v6" /\ ip = [fam |-> "v6", hi |-> ip.hi, lo |-> ip.lo]
\* What is no address is none in any form.
ASSUME AddressAssumption ==
  \A ip \in Addresses \cup ({body.local : body \in Bodies} \ {NoIp, BadIp}) :
    IsAddress(ip) /\ to_canonical(ip) # NoIp
ASSUME BodiesAssumption == \A body \in Bodies : body.token \in {"none", "given", "bad"}
\* A pause between two reads of the clock is short against the wrap of the
\* 32-bit time (68 years either way).
ASSUME ClockAssumption ==
  StartTimes \subseteq Nat /\ PauseBound \in Nat /\ 2 * (MAX_ACCEPT_EARLY + PauseBound) < PERIOD

VARIABLES now,         \* the system clock, in seconds
          pc,          \* where the session is
          tok,         \* the token presented
          source_ip,   \* the peer address, NoIp when the peer is gone
          check_token, \* Config::check_token
          v2_only,     \* Config::v2_only
          now1,        \* the clock as validate_v2 read it
          now2,        \* the clock as window_check read it
          result,      \* the TokenResult
          req,         \* the body of an /ip request
          ip_result    \* the answer of ip_response

vars == <<now, pc, tok, source_ip, check_token, v2_only, now1, now2, result, req, ip_result>>
ip_vars == <<req, ip_result>>
inputs == <<tok, source_ip, check_token, v2_only>>

NoResult == Rejected("none")
NoAnswer == IpError(0)
NoBody == [json |-> FALSE, local |-> NoIp, token |-> "none"]

Init ==
  /\ now \in StartTimes /\ now1 = 0 /\ now2 = 0
  /\ pc = "token" /\ tok \in Tokens /\ source_ip \in Addresses \cup {NoIp}
  /\ check_token \in BOOLEAN /\ v2_only \in BOOLEAN
  /\ result = NoResult /\ req = NoBody /\ ip_result = NoAnswer

\* External: time passes, between the two reads of the clock and during the
\* sleep; before and after them it makes no difference.
Tick ==
  /\ \/ pc = "window" /\ now < now1 + PauseBound
     \/ pc = "sleep" /\ now < now2 + result.sleep + PauseBound
  /\ now' = now + 1
  /\ UNCHANGED <<pc, inputs, now1, now2, result, ip_vars>>

\* --no-token-check: the session goes on at once.
SkipCheck ==
  /\ pc = "token" /\ ~check_token
  /\ pc' = "started"
  /\ UNCHANGED <<now, inputs, now1, now2, result, ip_vars>>

\* validate_token begins; validate_v2 reads the clock.
ReadClock ==
  /\ pc = "token" /\ check_token
  /\ pc' = "window"
  /\ now1' = now
  /\ UNCHANGED <<now, inputs, now2, result, ip_vars>>

\* window_check reads the clock again and decides; an accepted client that is
\* early sleeps.
Decide ==
  /\ pc = "window"
  /\ now2' = now
  /\ result' = validate_token(tok, Keys, source_ip, v2_only, now1, now)
  /\ pc' = IF result'.res # "accepted" THEN "rejected"
           ELSE IF result'.sleep > 0 THEN "sleep" ELSE "started"
  /\ UNCHANGED <<now, inputs, now1, ip_vars>>

\* thread::sleep returns when its seconds have passed, or later.
Wake ==
  /\ pc = "sleep" /\ now >= now2 + result.sleep
  /\ pc' = "started"
  /\ UNCHANGED <<now, inputs, now1, now2, result, ip_vars>>

\* POST /ip; without a peer address the request fails before.
IpCheck(body) ==
  /\ pc = "token" /\ source_ip # NoIp
  /\ pc' = "answered"
  /\ now2' = now
  /\ req' = body
  /\ ip_result' = ip_response([json |-> body.json, local |-> body.local, token |-> body.token,
                               tok |-> tok], source_ip, Keys, now)
  /\ UNCHANGED <<now, inputs, now1, result>>

\* The token is dealt with: stuttering that is not a deadlock.
Finished == pc \in {"started", "rejected", "answered"} /\ UNCHANGED vars

Next == Tick \/ SkipCheck \/ ReadClock \/ Decide \/ Wake \/ (\E body \in Bodies : IpCheck(body)) \/ Finished

Spec == Init /\ [][Next]_vars

-----------------------------------------------------------------------------
(* Properties.  The reference is the control server: which tokens it issues *)
(* for a test that starts at s.                                             *)

\* The part of the token that decides was issued with key for start time s and
\* for the address the client comes from.
IssuedFor(key, s) ==
  IF tok.mark # "none" THEN source_ip # NoIp /\ tok.v2 = V2(key, s, source_ip)
                       ELSE ~v2_only /\ tok.v1 = V1(key, tok.v1.uuid, s)

\* The start times a token may have when it is presented at time t.
Window(t) == t - MAX_ACCEPT_LATE .. t + MAX_ACCEPT_EARLY

\* Every variable has its type.
TypeOK ==
  /\ now \in Nat /\ now1 \in Nat /\ now2 \in Nat /\ now1 <= now /\ now2 <= now
  /\ pc \in {"token", "window", "sleep", "started", "rejected", "answered"}
  /\ tok \in Tokens /\ source_ip \in Addresses \cup {NoIp}
  /\ check_token \in BOOLEAN /\ v2_only \in BOOLEAN
  /\ result.sleep \in 0 .. MAX_ACCEPT_EARLY /\ ip_result.key \in 0 .. Len(Keys)

\* validate_token accepts only what the control server issued: with a loaded
\* key, whose label is reported, for a start time inside the window and, for
\* v2, for the client's address; a v1 token never passes a v2-only server.
AcceptedIsGenuine ==
  result.res = "accepted" =>
    \E i \in DOMAIN Keys : /\ result.label = Keys[i].label
                           /\ \E s \in Window(now2) : IssuedFor(Keys[i].key, s)

\* A token the control server issued with a loaded key is accepted throughout
\* its window, also when the 32-bit time wraps between its start and now.
GenuineIsAccepted ==
  result.res # "none" /\ result.res # "accepted" =>
    ~\E i \in DOMAIN Keys, s \in Window(now2) : IssuedFor(Keys[i].key, s)

\* A measurement whose token was checked never starts before the start time of
\* the token: run_greeting makes the early client wait long enough.
NoEarlyStart ==
  pc = "started" /\ check_token =>
    \E i \in DOMAIN Keys : \E s \in Window(now2) : IssuedFor(Keys[i].key, s) /\ s <= now

\* The v1 part, as /ip reads it, was issued with key for a time in the window.
V1IssuedFor(key) ==
  /\ tok.mark # "#v2#"
  /\ tok.v1 = V1(key, tok.v1.uuid, tok.v1.start) /\ tok.v1.start \in Window(now2)

\* The control server that issued the token can verify a signed answer of /ip:
\* it is signed with its key, for the address this server sees in whatever
\* form and for the test of the token, and matching_ip says that it issued the
\* v2 part for that address.  Without a token nothing is signed.
IpAnswerIsRight ==
  ip_result.status = 200 =>
    IF req.token = "none" THEN ip_result.signature = <<>>
    ELSE LET key == Keys[ip_result.key].key
         IN  /\ V1IssuedFor(key)
             /\ ip_result.signature = hmac(key, <<mapped_ipv6(source_ip), tok.v1.uuid>>)
             /\ ip_result.matching_ip <=>
                  tok.mark = "_#v2#" /\ \E t \in 0 .. PERIOD - 1 : tok.v2 = V2(key, t, source_ip)

\* /ip refuses only a token that no loaded key issued for this time, or one
\* without a UUID: whatever address it was issued for.
IpRefusalIsDeserved ==
  ip_result.status = 403 =>
    req.token = "given" /\ (tok.v1.uuid \in GoodUuids => \A i \in DOMAIN Keys : ~V1IssuedFor(Keys[i].key))

\* The NAT type says "no_nat" exactly when the client named the address this
\* server sees, in its IPv4 or its IPv4-mapped form.
NatTypeIsRight ==
  ip_result.status = 200 =>
    /\ (ip_result.nat[1] = "is") <=> (req.local = NoIp)
    /\ req.local # NoIp =>
         ((ip_result.nat[1] = "no_nat") <=> (mapped_ipv6(req.local) = mapped_ipv6(source_ip)))
=============================================================================
