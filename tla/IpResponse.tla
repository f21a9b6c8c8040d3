----------------------------- MODULE IpResponse -----------------------------
(***************************************************************************)
(* The answer of /ip to a POST with a JSON body (ip_response in            *)
(* src/ip_check.rs): a pure function of the body, the client's address,    *)
(* the loaded keys and the clock.                                          *)
(*                                                                         *)
(* A body is [json, local, token, tok]: whether it is a JSON object, the   *)
(* address in client_ip_local (NoIp when missing or blank, BadIp when it   *)
(* is none), and whether there is a token ("none", "given", or "bad" when  *)
(* it is no string).                                                       *)
(***************************************************************************)
EXTENDS Token

CONSTANTS LocalIps,   \* loopback, link-local and site-local addresses
          GoodUuids,  \* texts in the canonical form of a UUID
          BadIp       \* a client_ip_local that is no address

\* An IPv4-mapped IPv6 address is an IPv4 address.
to_canonical(ip) ==
  IF ip.fam = "v6" /\ mapped_ipv6(ip)[1] = "ffff" THEN [fam |-> "v4", lo |-> ip.lo] ELSE ip

scope(ip) == IF ip \in LocalIps THEN "local" ELSE "public"

\* Kind, from, to and version of the network address translation.
nat_type(local, public) ==
  IF local = NoIp THEN <<"is", "-", "-", public.fam>>
  ELSE IF local = public THEN <<"no_nat", "-", "-", public.fam>>
  ELSE <<"nat", IF local.fam = public.fam THEN scope(local) ELSE local.fam,
         scope(public), public.fam>>

ip_signature(key, ip, uuid) == hmac(key, <<mapped_ipv6(ip), uuid>>)

IpError(status) ==
  [status |-> status, nat |-> <<>>, key |-> 0, matching_ip |-> FALSE, signature |-> <<>>]

\* Mutant: client_ip_local is compared as it was written.
IpAnswerRaw(req, public, keys, checked) ==
  [status |-> 200, nat |-> nat_type(req.local, to_canonical(public)), key |-> checked.key,
   matching_ip |-> checked.matching_ip,
   signature |-> IF checked.key = 0 THEN <<>>
                 ELSE ip_signature(keys[checked.key].key, to_canonical(public), req.tok.v1.uuid)]

\* The answer, signed with the key that validated the token.
IpAnswer(req, public, keys, checked) ==
  [status |-> 200,
   nat |-> nat_type(IF req.local = NoIp THEN NoIp ELSE to_canonical(req.local), to_canonical(public)),
   key |-> checked.key, matching_ip |-> checked.matching_ip,
   signature |-> IF checked.key = 0 THEN <<>>
                 ELSE ip_signature(keys[checked.key].key, to_canonical(public), req.tok.v1.uuid)]

Unchecked == [res |-> "ok", key |-> 0, matching_ip |-> FALSE]

\* Mutant: a token that was issued for another address is refused.
ip_response_strict(req, public, keys, now) ==
  LET checked == IF req.token = "none" THEN Unchecked
                 ELSE check_ip_token(req.tok, keys, to_canonical(public), now)
  IN  IF ~req.json \/ req.local = BadIp \/ req.token = "bad" THEN IpError(400)
      ELSE IF checked.res # "ok" THEN IpError(403)
      ELSE IF req.token = "given" /\ ~checked.matching_ip THEN IpError(403)
      ELSE IF req.token = "given" /\ req.tok.v1.uuid \notin GoodUuids THEN IpError(403)
      ELSE IpAnswer(req, public, keys, checked)

ip_response(req, public, keys, now) ==
  LET checked == IF req.token = "none" THEN Unchecked
                 ELSE check_ip_token(req.tok, keys, to_canonical(public), now)
  IN  IF ~req.json \/ req.local = BadIp \/ req.token = "bad" THEN IpError(400)
      ELSE IF checked.res # "ok" THEN IpError(403)
      ELSE IF req.token = "given" /\ req.tok.v1.uuid \notin GoodUuids THEN IpError(403)
      ELSE IpAnswer(req, public, keys, checked)
=============================================================================
