-------------------------------- MODULE Token --------------------------------
(***************************************************************************)
(* The token check of the measurement and of /ip                           *)
(* (src/protocol/token.rs): pure functions of the token, the loaded keys,  *)
(* the source address and the clock.                                       *)
(*                                                                         *)
(* A token is a record [v1, mark, v2].  v1 = [form, uuid, start, hmac] is  *)
(* the text before the marker, form "bad" standing for one that does not   *)
(* parse; mark tells how the v2 part is attached: "none", "#v2#" or        *)
(* "_#v2#"; v2 = [form, time, packet, iphash] is the decoded 16-byte part, *)
(* form "bad" standing for one that does not decode to 16 bytes.           *)
(* An HMAC is a free constructor: equal only for equal key and message.    *)
(***************************************************************************)
EXTENDS Integers, Sequences

CONSTANTS PERIOD,            \* of the 32-bit token time (2^32 in the code)
          MAX_ACCEPT_EARLY,  \* seconds a client may be early (20 in the code)
          MAX_ACCEPT_LATE,   \* seconds a client may be late (90 in the code)
          NoIp               \* the source address is unavailable

ASSUME PeriodAssumption == PERIOD \in Nat \ {0} /\ PERIOD % 2 = 0
ASSUME WindowAssumption ==
  /\ MAX_ACCEPT_EARLY \in Nat /\ MAX_ACCEPT_LATE \in Nat
  /\ 2 * MAX_ACCEPT_EARLY < PERIOD /\ 2 * MAX_ACCEPT_LATE < PERIOD

-----------------------------------------------------------------------------
(* Shared helpers. *)

\* External: HMAC-SHA1 and (truncated) HMAC-SHA256 under a key.
hmac(key, msg) == <<"hmac", key, msg>>

\* An address is [fam |-> "v4", lo] or [fam |-> "v6", hi, lo]; as 16 bytes, a
\* v4 address is the v6 address with the prefix ::ffff.
mapped_ipv6(ip) == IF ip.fam = "v4" THEN <<"ffff", ip.lo>> ELSE <<ip.hi, ip.lo>>

\* Mutant: the wrap is only corrected in one direction.
reconstruct_time_oneway(time_u32, now) ==
  LET t == now - (now % PERIOD) + time_u32
  IN  IF t - now > PERIOD \div 2 THEN t - PERIOD ELSE t

\* The absolute time nearest to now whose low 32 bits are time_u32.
reconstruct_time(time_u32, now) ==
  LET t == now - (now % PERIOD) + time_u32
  IN  IF t - now > PERIOD \div 2 THEN t - PERIOD
      ELSE IF now - t > PERIOD \div 2 THEN t + PERIOD
      ELSE t

Rejected(reason) == [res |-> reason, sleep |-> 0, label |-> "none"]

\* The accept window around the start time.
window_check(start_time, now) ==
  IF start_time - now > MAX_ACCEPT_EARLY THEN "too_early"
  ELSE IF now - start_time > MAX_ACCEPT_LATE THEN "too_late"
  ELSE "ok"

\* Mutant: an early client is let in without waiting.
time_window_nosleep(start_time, label, now) ==
  IF window_check(start_time, now) = "ok"
  THEN [res |-> "accepted", sleep |-> 0, label |-> label]
  ELSE Rejected(window_check(start_time, now))

\* Mutant: the seconds of a late client are not cut off at zero.
time_window_signed(start_time, label, now) ==
  IF window_check(start_time, now) = "ok"
  THEN [res |-> "accepted", sleep |-> start_time - now, label |-> label]
  ELSE Rejected(window_check(start_time, now))

\* Inside the window the token is accepted; an early client has to sleep.
time_window(start_time, label, now) ==
  IF window_check(start_time, now) = "ok"
  THEN [res |-> "accepted",
        sleep |-> IF start_time - now > 0 THEN start_time - now ELSE 0,
        label |-> label]
  ELSE Rejected(window_check(start_time, now))

\* The keys are tried in order: the first one that matches, 0 for none.
FirstKey(keys, matches) ==
  IF matches = {} THEN 0 ELSE CHOOSE i \in matches : \A j \in matches : i <= j

-----------------------------------------------------------------------------
(* v1: uuid, start time and HMAC-SHA1 over both. *)

v1_keys(v1, keys) == {i \in DOMAIN keys : hmac(keys[i].key, <<v1.uuid, v1.start>>) = v1.hmac}

\* The index of the key that signed v1, and why there is none.
match_v1(v1, keys) ==
  IF v1.form = "bad" THEN [res |-> "parse_error", key |-> 0]
  ELSE IF v1_keys(v1, keys) = {} THEN [res |-> "invalid_hmac", key |-> 0]
  ELSE [res |-> "ok", key |-> FirstKey(keys, v1_keys(v1, keys))]

validate_v1(v1, keys, now) ==
  LET mt == match_v1(v1, keys)
  IN  IF mt.res = "ok" THEN time_window(v1.start, keys[mt.key].label, now)
      ELSE Rejected(mt.res)

-----------------------------------------------------------------------------
(* v2: the low bits of the start time, an HMAC over them, and one over them *)
(* and the client's address.                                                *)

\* Mutant: the address is not bound.
match_v2_anyip(v2, key, ip16) ==
  IF hmac(key, <<v2.time>>) # v2.packet THEN "time_mismatch" ELSE "ok"

match_v2(v2, key, ip16) ==
  IF hmac(key, <<v2.time>>) # v2.packet THEN "time_mismatch"
  ELSE IF hmac(key, <<v2.time, ip16>>) # v2.iphash THEN "ip_mismatch"
  ELSE "ok"

\* The clock is read twice: to reconstruct the start time, and in the window.
validate_v2(v2, keys, source_ip, now1, now2) ==
  IF v2.form = "bad" THEN Rejected("parse_error")
  ELSE IF source_ip = NoIp THEN Rejected("invalid_ip")
  ELSE LET ip16 == mapped_ipv6(source_ip)
           i == FirstKey(keys, {j \in DOMAIN keys :
                                  match_v2(v2, keys[j].key, ip16) # "time_mismatch"})
       IN  IF i = 0 THEN Rejected("invalid_hmac")
           ELSE IF match_v2(v2, keys[i].key, ip16) = "ip_mismatch" THEN Rejected("invalid_ip")
           ELSE time_window(reconstruct_time(v2.time, now1), keys[i].label, now2)

-----------------------------------------------------------------------------
(* The two entry points. *)

\* The measurement: the v2 part decides when there is one.
validate_token(tok, keys, source_ip, v2_only, now1, now2) ==
  IF tok.mark # "none" THEN validate_v2(tok.v2, keys, source_ip, now1, now2)
  ELSE IF v2_only THEN Rejected("v2_required")
  ELSE validate_v1(tok.v1, keys, now2)

\* Mutant: the v2 part is checked with any loaded key.
check_ip_token_anykey(tok, keys, source_ip, now) ==
  LET mt == IF tok.mark = "#v2#" /\ tok.v1.form = "ok"
            THEN [res |-> "invalid_hmac", key |-> 0] ELSE match_v1(tok.v1, keys)
      win == window_check(tok.v1.start, now)
  IN  [res |-> IF mt.res = "ok" THEN win ELSE mt.res,
       key |-> mt.key,
       matching_ip |-> /\ mt.res = "ok" /\ win = "ok"
                       /\ tok.mark = "_#v2#" /\ tok.v2.form = "ok"
                       /\ \E i \in DOMAIN keys :
                            match_v2(tok.v2, keys[i].key, mapped_ipv6(source_ip)) = "ok"]

\* /ip: v1 identifies the key and must be in the window; v2, under the same
\* key, only tells whether it was issued for the source address.  A "#v2#"
\* without its underscore stays in the HMAC field of v1, which then matches
\* no key.
check_ip_token(tok, keys, source_ip, now) ==
  LET mt == IF tok.mark = "#v2#" /\ tok.v1.form = "ok"
            THEN [res |-> "invalid_hmac", key |-> 0] ELSE match_v1(tok.v1, keys)
      win == window_check(tok.v1.start, now)
  IN  [res |-> IF mt.res = "ok" THEN win ELSE mt.res,
       key |-> mt.key,
       matching_ip |-> /\ mt.res = "ok" /\ win = "ok"
                       /\ tok.mark = "_#v2#" /\ tok.v2.form = "ok"
                       /\ match_v2(tok.v2, keys[mt.key].key, mapped_ipv6(source_ip)) = "ok"]

-----------------------------------------------------------------------------
(* The control server's side, from make_test_token. *)

V1(key, uuid, start) ==
  [form |-> "ok", uuid |-> uuid, start |-> start, hmac |-> hmac(key, <<uuid, start>>)]

V2(key, start, ip) ==
  [form |-> "ok", time |-> start % PERIOD,
   packet |-> hmac(key, <<start % PERIOD>>),
   iphash |-> hmac(key, <<start % PERIOD, mapped_ipv6(ip)>>)]

\* The combined token for a test that starts at start, for a client at ip.
make_token(key, uuid, start, ip) ==
  [v1 |-> V1(key, uuid, start), mark |-> "_#v2#", v2 |-> V2(key, start, ip)]
=============================================================================
