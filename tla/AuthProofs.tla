----------------------------- MODULE AuthProofs -----------------------------
(***************************************************************************)
(* Theorems about Auth, for any keys, tokens, addresses and bodies, any    *)
(* clock and any pause between its reads: what validate_token and          *)
(* ip_response decide is what the control server issued.                   *)
(***************************************************************************)
EXTENDS Auth, TokenProofs, WellFoundedInduction

-----------------------------------------------------------------------------
(* The operators of Token. *)

LEMMA LeastNatural ==
  ASSUME NEW T, T \subseteq Nat, T # {}
  PROVE  \E x \in T : \A y \in T : x <= y
<1> DEFINE R == OpToRel(<, Nat)
<1>1. IsWellFoundedOn(R, Nat)
  BY NatLessThanWellFounded
<1>2. \A x, y \in Nat : y < x => <<y, x>> \in R
  BY DEF OpToRel
<1> HIDE DEF R
<1>3. PICK x \in T : \A y \in T : ~(<<y, x>> \in R)
  BY <1>1, WFMin, Zenon
<1>4. \A y \in T : ~(y < x)
  BY <1>2, <1>3, Zenon
<1>5. \A y \in T : x \in Nat /\ y \in Nat /\ x <= y
  BY <1>4
<1> QED
  BY <1>5

\* The first of the keys that match is one of them.
LEMMA FirstKeyMatches ==
  ASSUME NEW M, M \subseteq DOMAIN Keys
  PROVE  IF M = {} THEN FirstKey(Keys, M) = 0 ELSE FirstKey(Keys, M) \in M /\ FirstKey(Keys, M) # 0
<1>1. DOMAIN Keys \subseteq Nat /\ 0 \notin DOMAIN Keys
  BY KeysAssumption
<1>2. ASSUME M # {} PROVE FirstKey(Keys, M) \in M
  <2>1. \E x \in M : \A y \in M : x <= y
    BY <1>1, <1>2, LeastNatural
  <2> QED
    BY <1>2, <2>1, Zenon DEF FirstKey
<1> QED
  BY <1>1, <1>2 DEF FirstKey

\* An HMAC tells its key and its message.
LEMMA HmacInjective ==
  ASSUME NEW k, NEW m, NEW l, NEW n, hmac(k, m) = hmac(l, n)
  PROVE  k = l /\ m = n
  BY DEF hmac

\* The low bits of a time are those it was put together from.
LEMMA LowBits ==
  ASSUME NEW time \in 0 .. PERIOD - 1, NEW q \in Int, NEW r, r = q * PERIOD + time
  PROVE  r \in Int /\ r % PERIOD = time
<1>1. q * PERIOD \in Int
  BY HalfPeriod
<1>2. r \in Int
  BY <1>1, HalfPeriod
<1> DEFINE p == r \div PERIOD
           m == r % PERIOD
<1>3. p \in Int /\ m \in 0 .. PERIOD - 1 /\ r = p * PERIOD + m
  BY <1>2, Remainder
<1> HIDE DEF p, m
<1>4. p * PERIOD \in Int
  BY <1>3, HalfPeriod
<1>5. q - p \in Int /\ (q - p) * PERIOD = q * PERIOD - p * PERIOD
  BY <1>3, HalfPeriod
<1>6. (q - p) * PERIOD = m - time
  BY <1>1, <1>3, <1>4, <1>5, HalfPeriod
<1>7. CASE q - p >= 1
  <2>1. (q - p) * PERIOD = PERIOD + (q - p - 1) * PERIOD /\ (q - p - 1) * PERIOD >= 0
    BY <1>5, <1>7, HalfPeriod
  <2>2. (q - p - 1) * PERIOD \in Int
    BY <1>5, HalfPeriod
  <2> QED
    BY <1>3, <1>6, <2>1, <2>2, HalfPeriod
<1>8. CASE q - p <= -1
  <2>1. (q - p) * PERIOD = (q - p + 1) * PERIOD - PERIOD /\ (q - p + 1) * PERIOD <= 0
    BY <1>5, <1>8, HalfPeriod
  <2>2. (q - p + 1) * PERIOD \in Int
    BY <1>5, HalfPeriod
  <2> QED
    BY <1>3, <1>6, <2>1, <2>2, HalfPeriod
<1>9. CASE q - p = 0
  <2>1. m = time
    BY <1>3, <1>6, <1>9, HalfPeriod
  <2> QED
    BY <1>2, <2>1 DEF m
<1> QED
  BY <1>5, <1>7, <1>8, <1>9

\* The time that is reconstructed has the bits of the token.
LEMMA ReconstructedBits ==
  ASSUME NEW time \in 0 .. PERIOD - 1, NEW n \in Nat
  PROVE  reconstruct_time(time, n) \in Int /\ reconstruct_time(time, n) % PERIOD = time
<1>1. PICK q \in Int : reconstruct_time(time, n) = q * PERIOD + time
  BY ReconstructNearest
<1> QED
  BY <1>1, LowBits

\* window_check is "ok" in the window.
LEMMA WindowIs ==
  ASSUME NEW s \in Int, NEW n \in Nat
  PROVE  window_check(s, n) = "ok" <=> s \in Window(n)
  BY WindowAssumption DEF window_check, Window

LEMMA TimeWindowIs ==
  ASSUME NEW s \in Int, NEW n \in Nat, NEW label
  PROVE  /\ time_window(s, label, n).res = "accepted" <=> s \in Window(n)
         /\ s \in Window(n) => time_window(s, label, n).label = label
         /\ time_window(s, label, n).sleep \in 0 .. MAX_ACCEPT_EARLY
         /\ s \in Window(n) => s <= n + time_window(s, label, n).sleep
<1>1. window_check(s, n) = "ok" <=> s \in Window(n)
  BY WindowIs
<1>2. window_check(s, n) # "accepted"
  BY DEF window_check
<1>3. CASE s \in Window(n)
  <2>1. time_window(s, label, n) = [res |-> "accepted", sleep |-> IF s - n > 0 THEN s - n ELSE 0, label |-> label]
    BY <1>1, <1>3 DEF time_window
  <2>2. s - n <= MAX_ACCEPT_EARLY
    BY <1>3, WindowAssumption DEF Window
  <2> QED
    BY <1>3, <2>1, <2>2, WindowAssumption
<1>4. CASE s \notin Window(n)
  BY <1>1, <1>2, <1>4, WindowAssumption DEF time_window, Rejected
<1> QED
  BY <1>3, <1>4

-----------------------------------------------------------------------------
(* validate_token. *)

\* A v2 part that matches a key and an address was issued with and for them.
LEMMA MatchV2 ==
  ASSUME tok \in Tokens, NEW key, NEW ip, NEW s \in Int, tok.v2.form # "bad",
         match_v2(tok.v2, key, mapped_ipv6(ip)) = "ok", s % PERIOD = tok.v2.time
  PROVE  tok.v2 = V2(key, s, ip)
<1>1. hmac(key, <<tok.v2.time>>) = tok.v2.packet /\ hmac(key, <<tok.v2.time, mapped_ipv6(ip)>>) = tok.v2.iphash
  BY DEF match_v2
<1>2. tok.v2 = [form |-> "ok", time |-> tok.v2.time, packet |-> tok.v2.packet, iphash |-> tok.v2.iphash]
  BY TokensAssumption
<1> QED
  BY <1>1, <1>2 DEF V2

LEMMA V2Matches ==
  ASSUME NEW key, NEW ip, NEW s \in Int, tok.v2 = V2(key, s, ip)
  PROVE  /\ tok.v2.form = "ok" /\ match_v2(tok.v2, key, mapped_ipv6(ip)) = "ok"
         /\ tok.v2.time = s % PERIOD /\ tok.v2.packet = hmac(key, <<s % PERIOD>>)
  BY DEF V2, match_v2

LEMMA MatchV1 ==
  ASSUME tok \in Tokens, NEW key
  PROVE  /\ tok.v1.form # "bad" /\ hmac(key, <<tok.v1.uuid, tok.v1.start>>) = tok.v1.hmac
              => tok.v1 = V1(key, tok.v1.uuid, tok.v1.start)
         /\ \A s : tok.v1 = V1(key, tok.v1.uuid, s)
              => /\ s = tok.v1.start /\ tok.v1.form = "ok"
                 /\ hmac(key, <<tok.v1.uuid, tok.v1.start>>) = tok.v1.hmac
<1>1. tok.v1 = [form |-> tok.v1.form, uuid |-> tok.v1.uuid, start |-> tok.v1.start, hmac |-> tok.v1.hmac]
      /\ tok.v1.form \in {"ok", "bad"}
  BY TokensAssumption
<1>2. ASSUME NEW s, tok.v1 = V1(key, tok.v1.uuid, s)
      PROVE  /\ s = tok.v1.start /\ tok.v1.form = "ok"
             /\ hmac(key, <<tok.v1.uuid, tok.v1.start>>) = tok.v1.hmac
  BY <1>2 DEF V1
<1> QED
  BY <1>1, <1>2 DEF V1

Genuine(n, v) ==
  \E i \in DOMAIN Keys : /\ v.label = Keys[i].label
                          /\ \E s \in Window(n) : IssuedFor(Keys[i].key, s) /\ s <= n + v.sleep

Issued(n) == \E i \in DOMAIN Keys, s \in Window(n) : IssuedFor(Keys[i].key, s)

LEMMA WindowInt == ASSUME NEW n \in Nat, NEW s \in Window(n) PROVE s \in Int
  BY WindowAssumption DEF Window

LEMMA V2Decides ==
  ASSUME tok \in Tokens, tok.mark # "none", NEW n1 \in Nat, NEW n2 \in Nat, n1 <= n2, n2 <= n1 + PauseBound,
         NEW v, v = validate_token(tok, Keys, source_ip, v2_only, n1, n2)
  PROVE  /\ v.sleep \in 0 .. MAX_ACCEPT_EARLY
         /\ v.res = "accepted" => Genuine(n2, v)
         /\ v.res # "accepted" => ~Issued(n2)
<1> DEFINE ip16 == mapped_ipv6(source_ip)
           M == {j \in DOMAIN Keys : match_v2(tok.v2, Keys[j].key, ip16) # "time_mismatch"}
           i == FirstKey(Keys, M)
           r == reconstruct_time(tok.v2.time, n1)
<1>1. v = IF tok.v2.form = "bad" THEN Rejected("parse_error")
          ELSE IF source_ip = NoIp THEN Rejected("invalid_ip")
          ELSE IF i = 0 THEN Rejected("invalid_hmac")
          ELSE IF match_v2(tok.v2, Keys[i].key, ip16) = "ip_mismatch" THEN Rejected("invalid_ip")
          ELSE time_window(r, Keys[i].label, n2)
  BY DEF validate_token, validate_v2
<1>2. IF M = {} THEN i = 0 ELSE i \in M /\ i # 0
  BY FirstKeyMatches
<1>3. tok.v2.time \in 0 .. PERIOD - 1 /\ tok.v2.form \in {"ok", "bad"}
  BY TokensAssumption
<1>4. r \in Int /\ r % PERIOD = tok.v2.time
  BY <1>3, ReconstructedBits
<1>5. /\ i # 0 => i \in DOMAIN Keys /\ match_v2(tok.v2, Keys[i].key, ip16) # "time_mismatch"
      /\ i = 0 => M = {}
  BY <1>2
<1>6. \A reason : Rejected(reason).sleep = 0 /\ Rejected(reason).res = reason
  BY DEF Rejected
<1>7. MAX_ACCEPT_EARLY \in Nat
  BY WindowAssumption
<1> HIDE DEF i, r
<1>8. CASE v = time_window(r, Keys[i].label, n2) /\ tok.v2.form # "bad" /\ source_ip # NoIp /\ i # 0
             /\ match_v2(tok.v2, Keys[i].key, ip16) # "ip_mismatch"
  <2>1. /\ v.res = "accepted" <=> r \in Window(n2)
        /\ r \in Window(n2) => v.label = Keys[i].label /\ r <= n2 + v.sleep
        /\ v.sleep \in 0 .. MAX_ACCEPT_EARLY
    BY <1>4, <1>8, TimeWindowIs
  <2>2. match_v2(tok.v2, Keys[i].key, ip16) = "ok"
    BY <1>5, <1>8 DEF match_v2
  <2>3. tok.v2 = V2(Keys[i].key, r, source_ip)
    BY <1>4, <1>8, <2>2, MatchV2
  <2>4. v.res = "accepted" => Genuine(n2, v)
    BY <1>5, <1>8, <2>1, <2>3 DEF Genuine, IssuedFor
  <2>5. ASSUME NEW k \in DOMAIN Keys, NEW s \in Window(n2), IssuedFor(Keys[k].key, s) PROVE v.res = "accepted"
    <3>1. s \in Int /\ tok.v2 = V2(Keys[k].key, s, source_ip)
      BY <2>5, WindowInt DEF IssuedFor
    <3>2. tok.v2.time = s % PERIOD
      BY <3>1, V2Matches
    <3>3. 2 * (s - n1) < PERIOD /\ 2 * (n1 - s) < PERIOD
      BY <3>1, WindowAssumption, ClockAssumption, HalfPeriod DEF Window
    <3>4. r = s
      BY <3>1, <3>2, <3>3, ReconstructExact DEF r
    <3> QED
      BY <2>1, <3>4
  <2> QED
    BY <2>1, <2>4, <2>5 DEF Issued
<1>9. CASE tok.v2.form = "bad" \/ source_ip = NoIp \/ i = 0 \/ match_v2(tok.v2, Keys[i].key, ip16) = "ip_mismatch"
  <2>1. v.sleep = 0 /\ v.res # "accepted"
    BY <1>1, <1>6, <1>9
  <2>2. ASSUME NEW k \in DOMAIN Keys, NEW s \in Window(n2), IssuedFor(Keys[k].key, s) PROVE FALSE
    <3>1. s \in Int /\ tok.v2 = V2(Keys[k].key, s, source_ip) /\ source_ip # NoIp
      BY <2>2, WindowInt DEF IssuedFor
    <3>2. /\ tok.v2.form = "ok" /\ match_v2(tok.v2, Keys[k].key, ip16) = "ok"
          /\ tok.v2.time = s % PERIOD /\ tok.v2.packet = hmac(Keys[k].key, <<s % PERIOD>>)
      BY <3>1, V2Matches
    <3>3. k \in M /\ i # 0
      BY <1>5, <3>2
    <3>4. hmac(Keys[i].key, <<tok.v2.time>>) = tok.v2.packet
      BY <1>5, <3>3 DEF match_v2
    <3>5. Keys[i].key = Keys[k].key
      BY <3>2, <3>4, HmacInjective
    <3> QED
      BY <1>9, <3>1, <3>2, <3>3, <3>5
  <2> QED
    BY <1>7, <2>1, <2>2 DEF Issued
<1> QED
  BY <1>1, <1>8, <1>9

LEMMA V1Decides ==
  ASSUME tok \in Tokens, tok.mark = "none", NEW n1 \in Nat, NEW n2 \in Nat,
         NEW v, v = validate_token(tok, Keys, source_ip, v2_only, n1, n2)
  PROVE  /\ v.sleep \in 0 .. MAX_ACCEPT_EARLY
         /\ v.res = "accepted" => Genuine(n2, v)
         /\ v.res # "accepted" => ~Issued(n2)
<1> DEFINE M == v1_keys(tok.v1, Keys)
           i == FirstKey(Keys, M)
           s == tok.v1.start
<1>1. M \subseteq DOMAIN Keys /\ \A k \in DOMAIN Keys : k \in M <=> hmac(Keys[k].key, <<tok.v1.uuid, s>>) = tok.v1.hmac
  BY DEF v1_keys
<1>2. IF M = {} THEN i = 0 ELSE i \in M /\ i # 0
  BY <1>1, FirstKeyMatches
<1>3. v = IF v2_only THEN Rejected("v2_required")
          ELSE IF tok.v1.form = "bad" THEN Rejected("parse_error")
          ELSE IF M = {} THEN Rejected("invalid_hmac")
          ELSE time_window(s, Keys[i].label, n2)
  BY DEF validate_token, validate_v1, match_v1
<1>4. s \in Int
  BY TokensAssumption
<1>5. \A reason : Rejected(reason).sleep = 0 /\ Rejected(reason).res = reason
  BY DEF Rejected
<1>6. MAX_ACCEPT_EARLY \in Nat
  BY WindowAssumption
<1> HIDE DEF M, i, s
<1>7. CASE ~v2_only /\ tok.v1.form # "bad" /\ M # {}
  <2>1. /\ v.res = "accepted" <=> s \in Window(n2)
        /\ s \in Window(n2) => v.label = Keys[i].label /\ s <= n2 + v.sleep
        /\ v.sleep \in 0 .. MAX_ACCEPT_EARLY
    BY <1>3, <1>4, <1>7, TimeWindowIs
  <2>2. i \in DOMAIN Keys /\ tok.v1 = V1(Keys[i].key, tok.v1.uuid, s)
    BY <1>1, <1>2, <1>7, MatchV1 DEF s
  <2>3. v.res = "accepted" => Genuine(n2, v)
    BY <1>7, <2>1, <2>2 DEF Genuine, IssuedFor
  <2>4. ASSUME NEW k \in DOMAIN Keys, NEW t \in Window(n2), IssuedFor(Keys[k].key, t) PROVE v.res = "accepted"
    <3>1. t = s
      BY <2>4, MatchV1 DEF IssuedFor, s
    <3> QED
      BY <2>1, <3>1
  <2> QED
    BY <2>1, <2>3, <2>4 DEF Issued
<1>8. CASE v2_only \/ tok.v1.form = "bad" \/ M = {}
  <2>1. v.sleep = 0 /\ v.res # "accepted"
    BY <1>3, <1>5, <1>8
  <2>2. ASSUME NEW k \in DOMAIN Keys, NEW t \in Window(n2), IssuedFor(Keys[k].key, t) PROVE FALSE
    <3>1. ~v2_only /\ tok.v1.form = "ok" /\ hmac(Keys[k].key, <<tok.v1.uuid, s>>) = tok.v1.hmac
      BY <2>2, MatchV1 DEF IssuedFor, s
    <3> QED
      BY <1>1, <1>8, <3>1
  <2> QED
    BY <1>6, <2>1, <2>2 DEF Issued
<1> QED
  BY <1>7, <1>8

-----------------------------------------------------------------------------
(* The inductive invariant: the result is what validate_token makes of two *)
(* reads of the clock that are close together, the answer of /ip what      *)
(* ip_response makes of one.                                               *)

Checked ==
  /\ now1 <= now2 /\ now2 <= now1 + PauseBound
  /\ result = validate_token(tok, Keys, source_ip, v2_only, now1, now2)

Answered ==
  /\ source_ip # NoIp /\ req \in Bodies
  /\ ip_result = ip_response([json |-> req.json, local |-> req.local, token |-> req.token, tok |-> tok],
                             source_ip, Keys, now2)

ClockInv ==
  /\ now \in Nat /\ now1 \in Nat /\ now2 \in Nat /\ now1 <= now /\ now2 <= now
  /\ pc \in {"token", "window", "sleep", "started", "rejected", "answered"}
  /\ tok \in Tokens /\ source_ip \in Addresses \cup {NoIp}
  /\ check_token \in BOOLEAN /\ v2_only \in BOOLEAN

StepInv ==
  /\ pc \in {"token", "window", "answered"} => result = NoResult
  /\ pc = "window" => check_token /\ now <= now1 + PauseBound
  /\ pc \in {"sleep", "rejected"} => check_token /\ Checked
  /\ pc = "sleep" => result.res = "accepted"
  /\ pc = "rejected" => result.res # "accepted"
  /\ pc = "started" => IF check_token THEN Checked /\ result.res = "accepted" /\ now2 + result.sleep <= now
                                      ELSE result = NoResult
  /\ pc # "answered" => ip_result = NoAnswer
  /\ pc = "answered" => Answered

AuthInv == ClockInv /\ StepInv

LEMMA CheckedDecides ==
  ASSUME ClockInv, Checked
  PROVE  /\ result.sleep \in 0 .. MAX_ACCEPT_EARLY
         /\ result.res = "accepted" => Genuine(now2, result)
         /\ result.res # "accepted" => ~Issued(now2)
<1> USE DEF ClockInv, Checked
<1>1. CASE tok.mark # "none"
  BY <1>1, V2Decides
<1>2. CASE tok.mark = "none"
  BY <1>2, V1Decides
<1> QED
  BY <1>1, <1>2

LEMMA InitInv == Init => AuthInv
  BY ClockAssumption DEF Init, AuthInv, ClockInv, StepInv

LEMMA NextInv == AuthInv /\ [Next]_vars => AuthInv'
<1> SUFFICES ASSUME AuthInv, [Next]_vars PROVE AuthInv'
  OBVIOUS
<1> USE DEF AuthInv, ClockInv, StepInv, inputs, ip_vars
<1>1. CASE Tick
  BY <1>1, ClockAssumption DEF Tick, Checked
<1>2. CASE SkipCheck
  BY <1>2 DEF SkipCheck
<1>3. CASE ReadClock
  BY <1>3, ClockAssumption DEF ReadClock
<1>4. CASE Decide
  <2>1. pc = "window" /\ pc' \in {"rejected", "sleep", "started"} /\ now2' = now /\ check_token'
        /\ UNCHANGED <<now, now1, tok, source_ip, check_token, v2_only, ip_result>>
    BY <1>4 DEF Decide
  <2>2. ClockInv'
    BY <2>1
  <2>3. Checked'
    BY <1>4, <2>1 DEF Decide, Checked
  <2>4. result'.sleep \in 0 .. MAX_ACCEPT_EARLY
    <3>1. tok' \in Tokens
      BY <2>1
    <3> QED
      BY <2>1, <2>3, V2Decides, V1Decides DEF Checked
  <2>5. /\ pc' = "rejected" => result'.res # "accepted"
        /\ pc' = "sleep" => result'.res = "accepted"
        /\ pc' = "started" => result'.res = "accepted" /\ ~(result'.sleep > 0)
    BY <1>4 DEF Decide
  <2>6. pc' = "started" => now2' + result'.sleep <= now'
    BY <2>1, <2>4, <2>5, WindowAssumption
  <2> HIDE DEF ClockInv
  <2> QED
    BY <2>1, <2>2, <2>3, <2>5, <2>6
<1>5. CASE Wake
  BY <1>5 DEF Wake, Checked
<1>6. ASSUME NEW body \in Bodies, IpCheck(body) PROVE AuthInv'
  BY <1>6 DEF IpCheck, Answered
<1>7. CASE Finished \/ UNCHANGED vars
  BY <1>7 DEF Finished, vars, Checked, Answered
<1> QED
  BY <1>1, <1>2, <1>3, <1>4, <1>5, <1>6, <1>7 DEF Next

LEMMA Inductive == Spec => []AuthInv
  BY InitInv, NextInv, PTL DEF Spec

\* run_greeting with validate_token: what is accepted was issued by the
\* control server, with a loaded key and for the time and the address at hand.
THEOREM OnlyGenuineAccepted == Spec => []AcceptedIsGenuine
<1>1. AuthInv => AcceptedIsGenuine
  <2> SUFFICES ASSUME AuthInv, result.res = "accepted"
               PROVE  \E i \in DOMAIN Keys : /\ result.label = Keys[i].label
                                             /\ \E s \in Window(now2) : IssuedFor(Keys[i].key, s)
    BY DEF AcceptedIsGenuine
  <2>1. NoResult.res # "accepted"
    BY DEF NoResult, Rejected
  <2>2. Checked
    BY <2>1 DEF AuthInv, StepInv, ClockInv
  <2>3. Genuine(now2, result)
    BY <2>2, CheckedDecides DEF AuthInv
  <2> QED
    BY <2>3 DEF Genuine
<1> QED
  BY <1>1, Inductive, PTL

\* validate_token: a token the control server issued is never turned down
\* inside its window, on either side of a wrap of the 32-bit time, though the
\* clock moves between its two reads.
THEOREM GenuineNeverRefused == Spec => []GenuineIsAccepted
<1>1. AuthInv => GenuineIsAccepted
  <2> SUFFICES ASSUME AuthInv, result.res # "none", result.res # "accepted"
               PROVE  ~\E i \in DOMAIN Keys, s \in Window(now2) : IssuedFor(Keys[i].key, s)
    BY DEF GenuineIsAccepted
  <2>1. NoResult.res = "none"
    BY DEF NoResult, Rejected
  <2>2. Checked
    BY <2>1 DEF AuthInv, StepInv, ClockInv
  <2>3. ~Issued(now2)
    BY <2>2, CheckedDecides DEF AuthInv
  <2> QED
    BY <2>3 DEF Issued
<1> QED
  BY <1>1, Inductive, PTL

\* run_greeting: an early client that is let in has slept until the start time
\* of its token.
THEOREM NeverEarly == Spec => []NoEarlyStart
<1>1. AuthInv => NoEarlyStart
  <2> SUFFICES ASSUME AuthInv, pc = "started", check_token
               PROVE  \E i \in DOMAIN Keys : \E s \in Window(now2) : IssuedFor(Keys[i].key, s) /\ s <= now
    BY DEF NoEarlyStart
  <2>1. Checked /\ result.res = "accepted" /\ now2 + result.sleep <= now
    BY DEF AuthInv, StepInv
  <2>2. Genuine(now2, result) /\ result.sleep \in 0 .. MAX_ACCEPT_EARLY
    BY <2>1, CheckedDecides DEF AuthInv
  <2>3. PICK i \in DOMAIN Keys :
          \E s \in Window(now2) : IssuedFor(Keys[i].key, s) /\ s <= now2 + result.sleep
    BY <2>2 DEF Genuine
  <2>4. PICK s \in Window(now2) : IssuedFor(Keys[i].key, s) /\ s <= now2 + result.sleep
    BY <2>3
  <2>5. now2 \in Nat /\ now \in Nat /\ result.sleep \in Nat
    BY <2>2, WindowAssumption DEF AuthInv, ClockInv
  <2>6. s \in Int
    BY <2>5, WindowInt
  <2>7. s <= now
    BY <2>1, <2>4, <2>5, <2>6
  <2> QED
    BY <2>4, <2>7
<1> QED
  BY <1>1, Inductive, PTL

-----------------------------------------------------------------------------
(* ip_response. *)

\* An address and its canonical form are the same 16 bytes.
LEMMA CanonicalBytes ==
  ASSUME NEW ip
  PROVE  mapped_ipv6(to_canonical(ip)) = mapped_ipv6(ip)
<1>1. CASE ip.fam = "v6" /\ mapped_ipv6(ip)[1] = "ffff"
  <2>1. mapped_ipv6(ip) = <<ip.hi, ip.lo>> /\ ip.hi = "ffff"
    BY <1>1 DEF mapped_ipv6
  <2>2. to_canonical(ip) = [fam |-> "v4", lo |-> ip.lo]
    BY <1>1 DEF to_canonical
  <2> QED
    BY <2>1, <2>2 DEF mapped_ipv6
<1>2. CASE ~(ip.fam = "v6" /\ mapped_ipv6(ip)[1] = "ffff")
  BY <1>2 DEF to_canonical
<1> QED
  BY <1>1, <1>2

\* The canonical form of an address is that of its 16 bytes.
LEMMA CanonicalIs ==
  ASSUME NEW a, NEW b, IsAddress(a), IsAddress(b)
  PROVE  to_canonical(a) = to_canonical(b) <=> mapped_ipv6(a) = mapped_ipv6(b)
<1>1. ASSUME to_canonical(a) = to_canonical(b) PROVE mapped_ipv6(a) = mapped_ipv6(b)
  BY <1>1, CanonicalBytes
<1>2. ASSUME NEW c, IsAddress(c)
      PROVE  \/ mapped_ipv6(c)[1] = "ffff" /\ to_canonical(c) = [fam |-> "v4", lo |-> mapped_ipv6(c)[2]]
             \/ /\ mapped_ipv6(c)[1] # "ffff"
                /\ to_canonical(c) = [fam |-> "v6", hi |-> mapped_ipv6(c)[1], lo |-> mapped_ipv6(c)[2]]
  <2>1. CASE c = [fam |-> "v4", lo |-> c.lo]
    <3>1. c.fam = "v4"
      BY <2>1
    <3>2. mapped_ipv6(c) = <<"ffff", c.lo>> /\ to_canonical(c) = c
      BY <3>1 DEF mapped_ipv6, to_canonical
    <3>3. mapped_ipv6(c)[1] = "ffff" /\ mapped_ipv6(c)[2] = c.lo
      BY <3>2
    <3> QED
      BY <2>1, <3>2, <3>3
  <2>2. CASE c.fam = "v6" /\ c = [fam |-> "v6", hi |-> c.hi, lo |-> c.lo]
    <3>1. mapped_ipv6(c) = <<c.hi, c.lo>>
      BY <2>2 DEF mapped_ipv6
    <3>2. mapped_ipv6(c)[1] = c.hi /\ mapped_ipv6(c)[2] = c.lo
      BY <3>1
    <3> QED
      BY <2>2, <3>2 DEF to_canonical
  <2> QED
    BY <1>2, <2>1, <2>2 DEF IsAddress
<1>3. ASSUME mapped_ipv6(a) = mapped_ipv6(b) PROVE to_canonical(a) = to_canonical(b)
  BY <1>2, <1>3
<1> QED
  BY <1>1, <1>3

\* check_ip_token: what it takes a key, a time and an address for.
LEMMA IpTokenDecides ==
  ASSUME ClockInv, Answered, NEW checked, checked = check_ip_token(tok, Keys, to_canonical(source_ip), now2)
  PROVE  /\ checked.res = "ok" =>
              /\ checked.key \in DOMAIN Keys /\ checked.key # 0 /\ V1IssuedFor(Keys[checked.key].key)
              /\ checked.matching_ip <=>
                   (tok.mark = "_#v2#" /\ \E t \in 0 .. PERIOD - 1 : tok.v2 = V2(Keys[checked.key].key, t, source_ip))
         /\ checked.res # "ok" => \A i \in DOMAIN Keys : ~V1IssuedFor(Keys[i].key)
<1> DEFINE M == v1_keys(tok.v1, Keys)
           s == tok.v1.start
           win == window_check(s, now2)
           mt == IF tok.mark = "#v2#" /\ tok.v1.form = "ok"
                 THEN [res |-> "invalid_hmac", key |-> 0] ELSE match_v1(tok.v1, Keys)
           ip == to_canonical(source_ip)
           same == match_v2(tok.v2, Keys[mt.key].key, mapped_ipv6(ip))
<1>0. tok \in Tokens /\ now2 \in Nat
  BY DEF ClockInv
<1>1. M \subseteq DOMAIN Keys /\ \A k \in DOMAIN Keys : k \in M <=> hmac(Keys[k].key, <<tok.v1.uuid, s>>) = tok.v1.hmac
  BY DEF v1_keys
<1>2. IF M = {} THEN FirstKey(Keys, M) = 0 ELSE FirstKey(Keys, M) \in M /\ FirstKey(Keys, M) # 0
  BY <1>1, FirstKeyMatches
<1>3. /\ checked.res = IF mt.res = "ok" THEN win ELSE mt.res
      /\ checked.key = mt.key
      /\ checked.matching_ip = (/\ mt.res = "ok" /\ win = "ok" /\ tok.mark = "_#v2#" /\ tok.v2.form = "ok"
                                /\ same = "ok")
  BY DEF check_ip_token
<1>4. s \in Int /\ tok.v1.form \in {"ok", "bad"} /\ tok.v2.form \in {"ok", "bad"} /\ tok.v2.time \in 0 .. PERIOD - 1
  BY <1>0, TokensAssumption
<1>5. win = "ok" <=> s \in Window(now2)
  BY <1>0, <1>4, WindowIs
<1>6. /\ mt.res = "ok" <=> (tok.mark # "#v2#" /\ tok.v1.form = "ok" /\ M # {})
      /\ mt.res = "ok" => mt.key \in M /\ mt.key # 0
  BY <1>2, <1>4 DEF match_v1
<1>7. mapped_ipv6(ip) = mapped_ipv6(source_ip)
  BY CanonicalBytes
<1> HIDE DEF M, s, win, mt, ip
<1>8. ASSUME checked.res = "ok" PROVE mt.res = "ok" /\ win = "ok"
  BY <1>3, <1>8
<1>9. ASSUME checked.res = "ok"
      PROVE  checked.key \in DOMAIN Keys /\ checked.key # 0 /\ V1IssuedFor(Keys[checked.key].key)
  <2>1. mt.key \in DOMAIN Keys /\ hmac(Keys[mt.key].key, <<tok.v1.uuid, s>>) = tok.v1.hmac
    BY <1>1, <1>6, <1>8, <1>9
  <2>2. tok.v1 = V1(Keys[mt.key].key, tok.v1.uuid, tok.v1.start)
    BY <1>0, <1>6, <1>8, <1>9, <2>1, MatchV1 DEF s
  <2> QED
    BY <1>3, <1>5, <1>6, <1>8, <1>9, <2>1, <2>2 DEF V1IssuedFor, s
<1>10. ASSUME checked.res = "ok"
       PROVE  checked.matching_ip <=>
                (tok.mark = "_#v2#" /\ \E t \in 0 .. PERIOD - 1 : tok.v2 = V2(Keys[checked.key].key, t, source_ip))
  <2>1. checked.matching_ip <=> (tok.mark = "_#v2#" /\ tok.v2.form = "ok" /\ same = "ok")
    BY <1>3, <1>8, <1>10
  <2>2. ASSUME tok.v2.form = "ok", same = "ok"
        PROVE  \E t \in 0 .. PERIOD - 1 : tok.v2 = V2(Keys[checked.key].key, t, source_ip)
    <3>1. tok.v2.time \in Int /\ tok.v2.time % PERIOD = tok.v2.time
      BY <1>4, HalfPeriod
    <3>2. tok.v2 = V2(Keys[mt.key].key, tok.v2.time, source_ip)
      BY <1>0, <1>7, <2>2, <3>1, MatchV2
    <3> QED
      BY <1>3, <1>4, <3>2
  <2>3. ASSUME NEW t \in 0 .. PERIOD - 1, tok.v2 = V2(Keys[checked.key].key, t, source_ip)
        PROVE  tok.v2.form = "ok" /\ same = "ok"
    <3>1. t \in Int
      BY HalfPeriod
    <3>2. tok.v2.form = "ok" /\ match_v2(tok.v2, Keys[checked.key].key, mapped_ipv6(source_ip)) = "ok"
      BY <2>3, <3>1, V2Matches
    <3>3. same = match_v2(tok.v2, Keys[checked.key].key, mapped_ipv6(source_ip))
      BY <1>3, <1>7
    <3> QED
      BY <3>2, <3>3
  <2> QED
    BY <2>1, <2>2, <2>3
<1>11. ASSUME checked.res # "ok", NEW i \in DOMAIN Keys, V1IssuedFor(Keys[i].key) PROVE FALSE
  <2>1. tok.mark # "#v2#" /\ win = "ok" /\ tok.v1 = V1(Keys[i].key, tok.v1.uuid, tok.v1.start)
    BY <1>5, <1>11 DEF V1IssuedFor, s
  <2>2. tok.v1.form = "ok" /\ i \in M
    BY <1>0, <1>1, <2>1, MatchV1 DEF s
  <2> QED
    BY <1>3, <1>6, <1>11, <2>1, <2>2
<1> QED
  BY <1>9, <1>10, <1>11

\* ip_response, case by case.
LEMMA IpResponseIs ==
  ASSUME ClockInv, Answered, NEW checked,
         checked = IF req.token = "none" THEN Unchecked
                   ELSE check_ip_token(tok, Keys, to_canonical(source_ip), now2)
  PROVE  /\ ip_result.status = 200 =>
              /\ req.json /\ req.local # BadIp /\ req.token # "bad" /\ checked.res = "ok"
              /\ ip_result.key = checked.key /\ ip_result.matching_ip = checked.matching_ip
              /\ ip_result.nat = nat_type(IF req.local = NoIp THEN NoIp ELSE to_canonical(req.local),
                                          to_canonical(source_ip))
              /\ ip_result.signature = IF checked.key = 0 THEN <<>>
                    ELSE hmac(Keys[checked.key].key, <<mapped_ipv6(to_canonical(source_ip)), tok.v1.uuid>>)
         /\ ip_result.status = 403 =>
              /\ req.token # "bad" /\ (checked.res # "ok" \/ (req.token = "given" /\ tok.v1.uuid \notin GoodUuids))
         /\ ip_result.status # 200 => ip_result.key = 0
<1> DEFINE r == [json |-> req.json, local |-> req.local, token |-> req.token, tok |-> tok]
<1>1. r.json = req.json /\ r.local = req.local /\ r.token = req.token /\ r.tok = tok
  OBVIOUS
<1>2. ip_result = ip_response(r, source_ip, Keys, now2)
  BY DEF Answered
<1> HIDE DEF r
<1>3. ip_result = IF ~req.json \/ req.local = BadIp \/ req.token = "bad" THEN IpError(400)
                  ELSE IF checked.res # "ok" THEN IpError(403)
                  ELSE IF req.token = "given" /\ tok.v1.uuid \notin GoodUuids THEN IpError(403)
                  ELSE IpAnswer(r, source_ip, Keys, checked)
  BY <1>1, <1>2 DEF ip_response
<1>4. \A n : IpError(n).status = n /\ IpError(n).key = 0
  BY DEF IpError
<1>5. /\ IpAnswer(r, source_ip, Keys, checked).status = 200
      /\ IpAnswer(r, source_ip, Keys, checked).key = checked.key
      /\ IpAnswer(r, source_ip, Keys, checked).matching_ip = checked.matching_ip
      /\ IpAnswer(r, source_ip, Keys, checked).nat =
           nat_type(IF req.local = NoIp THEN NoIp ELSE to_canonical(req.local), to_canonical(source_ip))
      /\ IpAnswer(r, source_ip, Keys, checked).signature = IF checked.key = 0 THEN <<>>
           ELSE hmac(Keys[checked.key].key, <<mapped_ipv6(to_canonical(source_ip)), tok.v1.uuid>>)
  BY <1>1 DEF IpAnswer, ip_signature
<1>6. CASE ~req.json \/ req.local = BadIp \/ req.token = "bad"
  BY <1>3, <1>4, <1>6
<1>7. CASE req.json /\ req.local # BadIp /\ req.token # "bad"
  BY <1>3, <1>4, <1>5, <1>7
<1> QED
  BY <1>6, <1>7

\* Without a token nothing is refused and nothing is signed.
LEMMA IpUnchecked ==
  ASSUME ClockInv, Answered, req.token = "none"
  PROVE  ip_result.status # 403 /\ (ip_result.status = 200 => ip_result.signature = <<>> /\ ip_result.key = 0)
<1> DEFINE checked == IF req.token = "none" THEN Unchecked
                      ELSE check_ip_token(tok, Keys, to_canonical(source_ip), now2)
<1>1. checked.res = "ok" /\ checked.key = 0
  BY DEF Unchecked
<1>2. /\ ip_result.status = 200 =>
           /\ ip_result.key = checked.key
           /\ ip_result.signature = IF checked.key = 0 THEN <<>>
                 ELSE hmac(Keys[checked.key].key, <<mapped_ipv6(to_canonical(source_ip)), tok.v1.uuid>>)
      /\ ip_result.status = 403 => (checked.res # "ok" \/ req.token = "given")
  BY IpResponseIs
<1> HIDE DEF checked
<1> QED
  BY <1>1, <1>2

LEMMA NoAnswerStatus == NoAnswer.status = 0 /\ NoAnswer.key = 0
  BY DEF NoAnswer, IpError

\* post_ip: the control server can verify what /ip signs, and matching_ip is
\* true exactly when it issued the token for the address the client has.
THEOREM IpAnswersRight == Spec => []IpAnswerIsRight
<1>1. AuthInv => IpAnswerIsRight
  <2> SUFFICES ASSUME AuthInv, ip_result.status = 200 PROVE IpAnswerIsRight
    BY DEF IpAnswerIsRight
  <2>1. ClockInv /\ Answered
    BY NoAnswerStatus DEF AuthInv, StepInv
  <2>2. ASSUME req.token = "none" PROVE ip_result.signature = <<>>
    BY <2>1, <2>2, IpUnchecked
  <2>3. ASSUME req.token # "none"
        PROVE  LET key == Keys[ip_result.key].key
               IN  /\ V1IssuedFor(key)
                   /\ ip_result.signature = hmac(key, <<mapped_ipv6(source_ip), tok.v1.uuid>>)
                   /\ ip_result.matching_ip <=>
                        tok.mark = "_#v2#" /\ \E t \in 0 .. PERIOD - 1 : tok.v2 = V2(key, t, source_ip)
    <3> DEFINE checked == check_ip_token(tok, Keys, to_canonical(source_ip), now2)
    <3>1. /\ checked.res = "ok" /\ ip_result.key = checked.key /\ ip_result.matching_ip = checked.matching_ip
          /\ ip_result.signature = IF checked.key = 0 THEN <<>>
                ELSE hmac(Keys[checked.key].key, <<mapped_ipv6(to_canonical(source_ip)), tok.v1.uuid>>)
      BY <2>1, <2>3, IpResponseIs
    <3>2. /\ checked.key # 0 /\ V1IssuedFor(Keys[checked.key].key)
          /\ checked.matching_ip <=>
               (tok.mark = "_#v2#" /\ \E t \in 0 .. PERIOD - 1 : tok.v2 = V2(Keys[checked.key].key, t, source_ip))
      BY <2>1, <3>1, IpTokenDecides
    <3> HIDE DEF checked
    <3> QED
      BY <3>1, <3>2, CanonicalBytes
  <2> QED
    BY <2>2, <2>3 DEF IpAnswerIsRight
<1> QED
  BY <1>1, Inductive, PTL

\* post_ip turns down only a token that no loaded key issued for this time, or
\* one without a UUID.
THEOREM IpRefusesRightly == Spec => []IpRefusalIsDeserved
<1>1. AuthInv => IpRefusalIsDeserved
  <2> SUFFICES ASSUME AuthInv, ip_result.status = 403
               PROVE  /\ req.token = "given"
                      /\ tok.v1.uuid \in GoodUuids => \A i \in DOMAIN Keys : ~V1IssuedFor(Keys[i].key)
    BY DEF IpRefusalIsDeserved
  <2>1. ClockInv /\ Answered
    BY NoAnswerStatus DEF AuthInv, StepInv
  <2>2. req.token \in {"none", "given", "bad"}
    BY <2>1, BodiesAssumption DEF Answered
  <2>3. req.token # "none"
    BY <2>1, IpUnchecked
  <2> DEFINE checked == check_ip_token(tok, Keys, to_canonical(source_ip), now2)
  <2>4. req.token # "bad" /\ (checked.res # "ok" \/ tok.v1.uuid \notin GoodUuids)
    BY <2>1, <2>3, IpResponseIs
  <2>5. checked.res # "ok" => \A i \in DOMAIN Keys : ~V1IssuedFor(Keys[i].key)
    BY <2>1, IpTokenDecides
  <2> QED
    BY <2>2, <2>3, <2>4, <2>5
<1> QED
  BY <1>1, Inductive, PTL

\* nat_type: "no_nat" exactly for the address this server sees, in either form.
THEOREM NatTypeRight == Spec => []NatTypeIsRight
<1>1. AuthInv => NatTypeIsRight
  <2> SUFFICES ASSUME AuthInv, ip_result.status = 200 PROVE NatTypeIsRight
    BY DEF NatTypeIsRight
  <2>1. ClockInv /\ Answered
    BY NoAnswerStatus DEF AuthInv, StepInv
  <2> DEFINE local == IF req.local = NoIp THEN NoIp ELSE to_canonical(req.local)
             public == to_canonical(source_ip)
  <2>2. ip_result.nat = nat_type(local, public) /\ req.local # BadIp
    BY <2>1, IpResponseIs
  <2>3. IsAddress(source_ip) /\ (req.local # NoIp => IsAddress(req.local) /\ to_canonical(req.local) # NoIp)
    BY <2>1, <2>2, AddressAssumption DEF Answered, ClockInv
  <2>4. local = NoIp <=> req.local = NoIp
    BY <2>3
  <2>5. req.local # NoIp => (local = public <=> mapped_ipv6(req.local) = mapped_ipv6(source_ip))
    BY <2>3, CanonicalIs
  <2> HIDE DEF local, public
  <2>6. /\ nat_type(local, public)[1] = "is" <=> local = NoIp
        /\ local # NoIp => (nat_type(local, public)[1] = "no_nat" <=> local = public)
    BY DEF nat_type
  <2> QED
    BY <2>2, <2>4, <2>5, <2>6 DEF NatTypeIsRight
<1> QED
  BY <1>1, Inductive, PTL

\* Every variable keeps its type, and no client waits longer than the window
\* allows it to be early.
THEOREM TypeCorrect == Spec => []TypeOK
<1>1. AuthInv => TypeOK
  <2> SUFFICES ASSUME AuthInv PROVE TypeOK
    OBVIOUS
  <2>1. result.sleep \in 0 .. MAX_ACCEPT_EARLY
    <3>1. CASE result = NoResult
      BY <3>1, WindowAssumption DEF NoResult, Rejected
    <3>2. CASE result # NoResult
      <4>1. Checked
        BY <3>2 DEF AuthInv, StepInv, ClockInv
      <4> QED
        BY <4>1, CheckedDecides DEF AuthInv
    <3> QED
      BY <3>1, <3>2
  <2>2. ip_result.key \in 0 .. Len(Keys)
    <3>1. DOMAIN Keys = 1 .. Len(Keys) /\ Len(Keys) \in Nat
      BY KeysAssumption
    <3>2. CASE ip_result = NoAnswer \/ ip_result.status # 200
      BY <3>1, <3>2, NoAnswerStatus, IpResponseIs DEF AuthInv, StepInv
    <3>3. CASE ip_result # NoAnswer /\ ip_result.status = 200
      <4>1. Answered /\ ClockInv
        BY <3>3 DEF AuthInv, StepInv
      <4>2. CASE req.token = "none"
        BY <3>1, <3>3, <4>1, <4>2, IpUnchecked
      <4>3. CASE req.token # "none"
        <5> DEFINE checked == check_ip_token(tok, Keys, to_canonical(source_ip), now2)
        <5>1. checked.res = "ok" /\ ip_result.key = checked.key
          BY <3>3, <4>1, <4>3, IpResponseIs
        <5>2. checked.key \in DOMAIN Keys
          BY <4>1, <5>1, IpTokenDecides
        <5> QED
          BY <3>1, <5>1, <5>2
      <4> QED
        BY <4>2, <4>3
    <3> QED
      BY <3>2, <3>3
  <2> QED
    BY <2>1, <2>2 DEF AuthInv, ClockInv, TypeOK
<1> QED
  BY <1>1, Inductive, PTL
=============================================================================
