------------------------------- MODULE MCAuth -------------------------------
(***************************************************************************)
(* Instances of Auth for TLC: a token time that wraps at 16 instead of     *)
(* 2^32 seconds and clocks on both sides of the wrap at 32.                *)
(***************************************************************************)
EXTENDS Auth

k1 == [key |-> "k1", label |-> "one"]
k2 == [key |-> "k2", label |-> "two"]
MCKeys == <<k1, k2>>

\* One address in its two forms, and another one.
a4 == [fam |-> "v4", lo |-> 1]
a6 == [fam |-> "v6", hi |-> "ffff", lo |-> 1]
b6 == [fam |-> "v6", hi |-> "2001", lo |-> 1]
MCAddresses == {a4, a6, b6}

MCLocalIps == {a4}

\* What is no JSON object, bodies with and without a token and an address, and
\* fields of the wrong kind.
Body(json, local, token) == [json |-> json, local |-> local, token |-> token]
MCBodies ==
  {Body(FALSE, NoIp, "none"), Body(TRUE, BadIp, "given"), Body(TRUE, a4, "bad"),
   Body(TRUE, NoIp, "none"), Body(TRUE, a6, "none")}
  \cup {Body(TRUE, ip, "given") : ip \in {NoIp, a4, a6, b6}}

MCStartTimes == 29 .. 33

\* k3 is not loaded: a forged or foreign token.
KeyNames == {"k1", "k2", "k3"}
Starts == 25 .. 37

BadV1 == [form |-> "bad", uuid |-> "u", start |-> 0, hmac |-> hmac("k1", <<"u", 0>>)]
BadV2 == [form |-> "bad", time |-> 0, packet |-> hmac("k1", <<0>>), iphash |-> hmac("k1", <<0, "x">>)]

\* What the control server issues, pure v1 tokens, tokens without the
\* underscore, v2 parts of another key, start or address, broken parts, and
\* a test without a UUID.
MCTokens ==
  {make_token(k, "u", s, a) : k \in KeyNames, s \in Starts, a \in {a4, b6}}
  \cup {[v1 |-> V1(k, "u", s), mark |-> m, v2 |-> BadV2] :
          k \in KeyNames, s \in Starts, m \in {"none", "_#v2#"}}
  \cup {[v1 |-> V1("k1", "u", s), mark |-> m, v2 |-> V2(k, 32, a4)] :
          s \in {30, 33}, m \in {"#v2#", "_#v2#"}, k \in KeyNames}
  \cup {[v1 |-> BadV1, mark |-> m, v2 |-> V2("k2", s, a4)] :
          s \in Starts, m \in {"none", "_#v2#"}}
  \cup {make_token("k1", "no-uuid", s, a4) : s \in {30, 33}}
=============================================================================
