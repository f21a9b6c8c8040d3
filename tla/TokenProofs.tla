----------------------------- MODULE TokenProofs -----------------------------
(***************************************************************************)
(* Theorems about the token check for every period, window and clock.      *)
(***************************************************************************)
EXTENDS Token, TLAPS

\* Half of the period is a whole number of seconds.
LEMMA HalfPeriod ==
  /\ PERIOD \in Nat \ {0}
  /\ PERIOD \div 2 \in Nat \ {0} /\ PERIOD = 2 * (PERIOD \div 2)
  BY PeriodAssumption

\* Division with remainder by the period.
LEMMA Remainder ==
  ASSUME NEW n \in Int
  PROVE  /\ n \div PERIOD \in Int /\ n % PERIOD \in 0 .. PERIOD - 1
         /\ n = (n \div PERIOD) * PERIOD + (n % PERIOD)
<1> USE HalfPeriod
<1>1. n % PERIOD \in 0 .. PERIOD - 1
  OBVIOUS
<1>2. n = (n \div PERIOD) * PERIOD + (n % PERIOD)
  OBVIOUS
<1>3. n \div PERIOD \in Int
  OBVIOUS
<1> QED
  BY <1>1, <1>2, <1>3

\* Multiples of the period are far apart.
LEMMA Multiples ==
  ASSUME NEW d \in Int
  PROVE  /\ d * PERIOD \in Int
         /\ d >= 2 => d * PERIOD >= 2 * PERIOD
         /\ d <= -2 => d * PERIOD <= -2 * PERIOD
<1>1. d * PERIOD \in Int
  BY HalfPeriod
<1>2. ASSUME d >= 2 PROVE d * PERIOD >= 2 * PERIOD
  <2>1. d * PERIOD = 2 * PERIOD + (d - 2) * PERIOD
    BY HalfPeriod
  <2>2. (d - 2) * PERIOD >= 0
    BY <1>2, HalfPeriod
  <2> QED
    BY <1>1, <2>1, <2>2, HalfPeriod
<1>3. ASSUME d <= -2 PROVE d * PERIOD <= -2 * PERIOD
  <2>1. -2 * PERIOD = d * PERIOD + (-2 - d) * PERIOD
    BY HalfPeriod
  <2>2. (-2 - d) * PERIOD >= 0
    BY <1>3, HalfPeriod
  <2> QED
    BY <1>1, <2>1, <2>2, HalfPeriod
<1> QED
  BY <1>1, <1>2, <1>3

\* reconstruct_time returns a time with the token's low bits that is at most
\* half a period away from the clock.
THEOREM ReconstructNearest ==
  ASSUME NEW time \in 0 .. PERIOD - 1, NEW now \in Nat
  PROVE  LET r == reconstruct_time(time, now)
         IN  /\ \E q \in Int : r = q * PERIOD + time
             /\ r - now <= PERIOD \div 2 /\ now - r <= PERIOD \div 2
<1> DEFINE q == now \div PERIOD
           m == now % PERIOD
           h == PERIOD \div 2
           t == now - m + time
           r == reconstruct_time(time, now)
<1>1. q \in Int /\ m \in 0 .. PERIOD - 1 /\ now = q * PERIOD + m
  BY Remainder
<1>2. h \in Nat \ {0} /\ PERIOD = 2 * h
  BY HalfPeriod
<1>3. r = IF t - now > h THEN t - PERIOD ELSE IF now - t > h THEN t + PERIOD ELSE t
  BY DEF reconstruct_time
<1> HIDE DEF q, m, h, r
<1>4. q * PERIOD \in Int /\ (q - 1) * PERIOD = q * PERIOD - PERIOD /\ (q + 1) * PERIOD = q * PERIOD + PERIOD
  BY <1>1, HalfPeriod
<1>5. t = q * PERIOD + time /\ t - now = time - m
  BY <1>1, <1>4
<1>6. r \in {(q - 1) * PERIOD + time, q * PERIOD + time, (q + 1) * PERIOD + time}
  BY <1>1, <1>2, <1>3, <1>4, <1>5
<1>7. \E p \in Int : r = p * PERIOD + time
  <2>1. q - 1 \in Int /\ q \in Int /\ q + 1 \in Int
    BY <1>1
  <2> QED
    BY <1>6, <2>1
<1>8. r - now <= h /\ now - r <= h
  BY <1>1, <1>2, <1>3, <1>4, <1>5
<1> QED
  BY <1>7, <1>8 DEF r, h

\* A start time less than half a period away is reconstructed exactly from its
\* low bits, on either side of a wrap.
THEOREM ReconstructExact ==
  ASSUME NEW s \in Int, NEW now \in Nat,
         2 * (s - now) < PERIOD, 2 * (now - s) < PERIOD
  PROVE  reconstruct_time(s % PERIOD, now) = s
<1> DEFINE q == now \div PERIOD
           m == now % PERIOD
           p == s \div PERIOD
           time == s % PERIOD
           h == PERIOD \div 2
           t == now - m + time
           r == reconstruct_time(time, now)
<1>1. q \in Int /\ m \in 0 .. PERIOD - 1 /\ now = q * PERIOD + m
  BY Remainder
<1>2. p \in Int /\ time \in 0 .. PERIOD - 1 /\ s = p * PERIOD + time
  BY Remainder
<1>3. h \in Nat \ {0} /\ PERIOD = 2 * h
  BY HalfPeriod
<1>4. r = IF t - now > h THEN t - PERIOD ELSE IF now - t > h THEN t + PERIOD ELSE t
  BY DEF reconstruct_time
<1> DEFINE d == p - q
<1> SUFFICES r = s
  BY DEF r, time
<1> HIDE DEF q, m, p, time, h, r
<1>5. d \in Int /\ d * PERIOD \in Int /\ q * PERIOD \in Int /\ p * PERIOD = q * PERIOD + d * PERIOD
  BY <1>1, <1>2, HalfPeriod
<1>6. s = t + d * PERIOD /\ t - now = time - m /\ t \in Int
  BY <1>1, <1>2, <1>5
<1>7. d \in {-1, 0, 1}
  <2>1. d * PERIOD < 2 * PERIOD /\ d * PERIOD > -2 * PERIOD
    BY <1>1, <1>2, <1>3, <1>5, <1>6
  <2> QED
    BY <1>5, <2>1, Multiples, HalfPeriod
<1>8. CASE d = 0
  BY <1>1, <1>2, <1>3, <1>4, <1>6, <1>8
<1>9. CASE d = 1
  <2>1. s = t + PERIOD
    BY <1>6, <1>9, HalfPeriod
  <2> QED
    BY <1>1, <1>2, <1>3, <1>4, <1>6, <2>1
<1>10. CASE d = -1
  <2>1. s = t - PERIOD
    BY <1>6, <1>10, HalfPeriod
  <2> QED
    BY <1>1, <1>2, <1>3, <1>4, <1>6, <2>1
<1> QED
  BY <1>7, <1>8, <1>9, <1>10

-----------------------------------------------------------------------------
\* time_window accepts only inside the window, and makes the client sleep until
\* the start time.
LEMMA TimeWindow ==
  ASSUME NEW s \in Int, NEW now \in Int, NEW label, time_window(s, label, now).res = "accepted"
  PROVE  /\ s - now <= MAX_ACCEPT_EARLY /\ now - s <= MAX_ACCEPT_LATE
         /\ time_window(s, label, now).sleep = IF s > now THEN s - now ELSE 0
<1>1. window_check(s, now) = "ok"
  BY DEF time_window, window_check, Rejected
<1>2. s - now <= MAX_ACCEPT_EARLY /\ now - s <= MAX_ACCEPT_LATE
  BY <1>1, WindowAssumption DEF window_check
<1>3. time_window(s, label, now).sleep = IF s - now > 0 THEN s - now ELSE 0
  BY <1>1 DEF time_window
<1> QED
  BY <1>2, <1>3

\* An accepted token has a start time inside the window around the clock, the v1
\* time or the reconstructed v2 time, and the sleep ends at that start time, at
\* most MAX_ACCEPT_EARLY seconds later.
THEOREM AcceptedInWindow ==
  ASSUME NEW tok, NEW keys, NEW source_ip, NEW v2_only, NEW now1 \in Nat, NEW now2 \in Nat,
         tok.v1.start \in Int, tok.v2.time \in 0 .. PERIOD - 1,
         validate_token(tok, keys, source_ip, v2_only, now1, now2).res = "accepted"
  PROVE  LET result == validate_token(tok, keys, source_ip, v2_only, now1, now2)
         IN  \E s \in {tok.v1.start, reconstruct_time(tok.v2.time, now1)} :
               /\ s - now2 <= MAX_ACCEPT_EARLY /\ now2 - s <= MAX_ACCEPT_LATE
               /\ result.sleep = IF s > now2 THEN s - now2 ELSE 0
<1> DEFINE result == validate_token(tok, keys, source_ip, v2_only, now1, now2)
<1>1. CASE tok.mark # "none"
  <2> DEFINE s == reconstruct_time(tok.v2.time, now1)
  <2>1. PICK label : result = time_window(s, label, now2)
    BY <1>1 DEF validate_token, validate_v2, Rejected
  <2>2. s \in Int
    <3>1. PICK q \in Int : s = q * PERIOD + tok.v2.time
      BY ReconstructNearest
    <3>2. q * PERIOD \in Int
      BY HalfPeriod
    <3> QED
      BY <3>1, <3>2, HalfPeriod
  <2> HIDE DEF s
  <2>3. /\ s - now2 <= MAX_ACCEPT_EARLY /\ now2 - s <= MAX_ACCEPT_LATE
        /\ result.sleep = IF s > now2 THEN s - now2 ELSE 0
    BY <2>1, <2>2, TimeWindow
  <2> QED
    BY <2>3 DEF s
<1>2. CASE tok.mark = "none"
  <2>1. PICK label : result = time_window(tok.v1.start, label, now2)
    BY <1>2 DEF validate_token, validate_v1, Rejected, match_v1
  <2>2. /\ tok.v1.start - now2 <= MAX_ACCEPT_EARLY /\ now2 - tok.v1.start <= MAX_ACCEPT_LATE
        /\ result.sleep = IF tok.v1.start > now2 THEN tok.v1.start - now2 ELSE 0
    BY <2>1, TimeWindow
  <2> QED
    BY <2>2
<1> QED
  BY <1>1, <1>2
=============================================================================
