---------------------------- MODULE ChannelProofs ----------------------------
(***************************************************************************)
(* Proofs about Stream, for every chunk size, line limit, buffer size and  *)
(* number of messages: nothing is lost, nobody is blamed wrongly, and the  *)
(* reads of the server implement a channel of whole messages.              *)
(***************************************************************************)
EXTENDS StreamProofs

-----------------------------------------------------------------------------
(* Where the bytes are.                                                    *)
(*                                                                         *)
(* L is all the client has begun to write, byte by byte.  Message i has    *)
(* the bytes B[i], which end at e[i]; the server has read g messages.  The *)
(* unread bytes are, in this order, a (partial), b (buffer), the units of  *)
(* w (wire), of which the k-th ends at p[k], and r (rest).                 *)

\* The bytes a are those of L after the x-th.
Agrees(L, x, a) == \A k \in 1 .. Len(a) : a[k] = L[x + k]

Source(what) == IF what = "head" THEN Heads ELSE IF what = "line" THEN Lines ELSE Chunks
Content(what, b) == IF what = "line" THEN LineOf(b) ELSE b

\* The messages s one after the other.
Written(L, e, B, s) ==
  /\ e[0] = 0 /\ \A i \in 0 .. Len(s) : e[i] \in Nat
  /\ \A i, j \in 0 .. Len(s) : i < j => e[i] < e[j]
  /\ \A i \in 1 .. Len(s) :
       /\ B[i] \in Source(s[i].what) /\ s[i].bytes = Content(s[i].what, B[i])
       /\ e[i] = e[i - 1] + Len(B[i])
       /\ \A k \in 1 .. Len(B[i]) : B[i][k] = L[e[i - 1] + k]

\* A unit that holds the bytes from + 1 .. to: a byte, of the head if the client
\* speaks WebSocket; a frame, which lies in one message and is the whole of it
\* if that is a line; or a control frame, after the head.
Frame(e, from, to, u, s, i) ==
  /\ e[i - 1] <= from /\ from < to /\ to <= e[i]
  /\ s[i].what = "line" => from = e[i - 1] /\ to = e[i]
  /\ s[i].what = "chunk" => u[1] = "binary"

Unit(L, e, from, to, u, s, kd) ==
  /\ Len(s) >= 1 /\ to = from + Len(u[2])
  /\ \A j \in 1 .. Len(u[2]) : u[2][j] = L[from + j]
  /\ \/ u[1] = "byte" /\ to = from + 1 /\ (kd = "websocket" => to <= e[1])
     \/ u[1] \in {"text", "binary"} /\ kd = "websocket" /\ \E i \in 2 .. Len(s) : Frame(e, from, to, u, s, i)
     \/ u[1] \in {"ping", "close"} /\ kd = "websocket" /\ to = from /\ e[1] <= from

InFlight(L, e, p, w, s, kd) ==
  /\ \A k \in 0 .. Len(w) : p[k] \in Nat /\ (kd = "raw" => p[k] = p[0] + k)
  /\ \A k, l \in 0 .. Len(w) : k <= l => p[k] <= p[l]
  /\ p[Len(w)] <= e[Len(s)]
  /\ \A k \in 1 .. Len(w) : Unit(L, e, p[k - 1], p[k], w[k], s, kd)

\* The units w hold the bytes x + 1 .. y.
Ahead(L, e, w, s, kd, x, y) == \E p : InFlight(L, e, p, w, s, kd) /\ p[0] = x /\ p[Len(w)] = y

\* The parts meet, and a is less than the message that is being read.
Placed(L, e, p, s, g, a, b, w, r, kd) ==
  /\ g \in 0 .. Len(s)
  /\ p[0] = e[g] + Len(a) + Len(b)
  /\ p[Len(w)] + Len(r) = e[Len(s)]
  /\ Len(s) > 0 => e[Len(s) - 1] <= p[Len(w)]
  /\ Len(s) > 0 /\ kd = "websocket" /\ s[Len(s)].what = "line" /\ r # <<>> => e[Len(s) - 1] = p[Len(w)]
  /\ g < Len(s) => e[g] + Len(a) < e[g + 1]
  /\ \A k \in 1 .. Len(a) : a[k] = L[e[g] + k]
  /\ \A k \in 1 .. Len(b) : b[k] = L[e[g] + Len(a) + k]
  /\ \A k \in 1 .. Len(r) : r[k] = L[p[Len(w)] + k]

\* Sums and positions.
LEMMA Regrouped ==
  ASSUME NEW x \in Nat, NEW n \in Nat, NEW l \in Nat
  PROVE  (x + n) + (l - n) = x + l
OBVIOUS

LEMMA Inside ==
  ASSUME NEW x \in Nat, NEW l \in Nat, NEW n \in Nat, x + l <= n, NEW k \in 1 .. l
  PROVE  x + k \in 1 .. n
OBVIOUS

LEMMA SourceBytes ==
  ASSUME NEW what \in {"head", "line", "chunk"}, NEW b \in Source(what)
  PROVE  /\ b \in Bytes /\ Len(b) \in Nat /\ Len(b) > 0
         /\ what = "chunk" => Len(b) = CHUNK_SIZE
         /\ what = "line" => b \in Lines /\ \A i \in 1 .. Len(b) : b[i] = "LF" <=> i = Len(b)
         /\ what = "head" => b \in Heads /\ \A i \in 1 .. Len(b) : b[i] = "E" <=> i = Len(b)
<1>1. b \in Bytes
  BY SentBytes DEF Source
<1>2. Len(b) \in Nat
  BY <1>1 DEF Bytes
<1>3. CASE what = "head"
  BY <1>1, <1>2, <1>3, ClientAssumption DEF Source
<1>4. CASE what = "line"
  BY <1>1, <1>2, <1>4, ClientAssumption DEF Source
<1>5. CASE what = "chunk"
  <2>1. b \in Chunks
    BY <1>5 DEF Source
  <2>2. Len(b) = CHUNK_SIZE
    BY <2>1, BytesAssumption
  <2> QED BY <1>1, <1>2, <1>5, <2>2, SizesAssumption
<1> QED BY <1>3, <1>4, <1>5

\* A message is begun, of which b is all there is to write: it follows the others.
Begun(p, t, g, a, c, w, b, kd) ==
  \E L, e, B : /\ Written(L, e, B, t) /\ InFlight(L, e, p, w, t, kd)
               /\ Placed(L, e, p, t, g, a, c, w, b, kd)

LEMMA BeginMessage ==
  ASSUME NEW L, NEW e, NEW B, NEW p, NEW s \in Seq(Records), NEW g, NEW a \in Bytes, NEW c \in Bytes,
         NEW w \in Seq(WireUnits), NEW kd, NEW r, r = <<>>,
         Written(L, e, B, s), InFlight(L, e, p, w, s, kd), Placed(L, e, p, s, g, a, c, w, r, kd),
         NEW what \in {"head", "line", "chunk"}, NEW b \in Source(what),
         NEW t, t = Append(s, Message(what, Content(what, b)))
  PROVE  Begun(p, t, g, a, c, w, b, kd)
<1> DEFINE n == Len(s)
           m == Message(what, Content(what, b))
           L2 == [x \in 1 .. e[n] + Len(b) |-> IF x <= e[n] THEN L[x] ELSE b[x - e[n]]]
           e2 == [i \in 0 .. n + 1 |-> IF i <= n THEN e[i] ELSE e[n] + Len(b)]
           B2 == [i \in 1 .. n + 1 |-> IF i <= n THEN B[i] ELSE b]
<1>1. b \in Bytes /\ Len(b) \in Nat /\ Len(b) > 0
  BY SourceBytes
<1>2. n \in Nat /\ \A i \in 0 .. n : e[i] \in Nat
  BY DEF Written
<1>3. e[n] \in Nat
  BY <1>2
<1>4. /\ Len(t) = n + 1 /\ t[n + 1] = m /\ \A i \in 1 .. n : t[i] = s[i]
  <2> HIDE DEF m
  <2>1. t = Append(s, m)
    BY DEF m
  <2> QED BY <2>1
<1>5. m.what = what /\ m.bytes = Content(what, b)
  BY DEF Message
<1>6. /\ \A i \in 0 .. n : e2[i] = e[i]
      /\ e2[n + 1] = e[n] + Len(b)
  BY <1>2
<1>7. /\ \A i \in 1 .. n : B2[i] = B[i]
      /\ B2[n + 1] = b
  BY <1>2
<1>8. /\ \A x \in 1 .. e[n] : L2[x] = L[x]
      /\ \A k \in 1 .. Len(b) : L2[e[n] + k] = b[k]
  BY <1>1, <1>3
<1> HIDE DEF L2, e2, B2, m
<1>9. \A i \in 0 .. n : e[i] <= e[n]
  BY <1>2 DEF Written
<1>10. Written(L2, e2, B2, t)
  <2>1. e2[0] = 0 /\ \A i \in 0 .. Len(t) : e2[i] \in Nat
    <3>1. e[0] = 0 /\ 0 \in 0 .. n
      BY <1>2 DEF Written
    <3>2. e[n] + Len(b) \in Nat
      BY <1>1, <1>3
    <3>3. \A i \in 0 .. n : e2[i] \in Nat
      BY <1>2, <1>6
    <3>4. \A i \in 0 .. n + 1 : i \in 0 .. n \/ i = n + 1
      BY <1>2
    <3> QED BY <1>4, <1>6, <3>1, <3>2, <3>3, <3>4
  <2>2. \A i, j \in 0 .. Len(t) : i < j => e2[i] < e2[j]
    <3> SUFFICES ASSUME NEW i \in 0 .. n + 1, NEW j \in 0 .. n + 1, i < j PROVE e2[i] < e2[j]
      BY <1>4
    <3>1. i \in 0 .. n /\ e2[i] = e[i] /\ e[i] \in Nat /\ e[i] <= e[n]
      BY <1>2, <1>6, <1>9
    <3>2. CASE j \in 0 .. n
      BY <1>6, <3>1, <3>2 DEF Written
    <3>3. CASE j = n + 1
      BY <1>1, <1>3, <1>6, <3>1, <3>3
    <3> QED BY <1>2, <3>2, <3>3
  <2>3. ASSUME NEW i \in 1 .. Len(t)
        PROVE  /\ B2[i] \in Source(t[i].what) /\ t[i].bytes = Content(t[i].what, B2[i])
               /\ e2[i] = e2[i - 1] + Len(B2[i])
               /\ \A k \in 1 .. Len(B2[i]) : B2[i][k] = L2[e2[i - 1] + k]
    <3>1. CASE i \in 1 .. n
      <4>1. /\ B[i] \in Source(s[i].what) /\ s[i].bytes = Content(s[i].what, B[i])
            /\ e[i] = e[i - 1] + Len(B[i])
            /\ \A k \in 1 .. Len(B[i]) : B[i][k] = L[e[i - 1] + k]
        BY <3>1 DEF Written
      <4>2. s[i].what \in {"head", "line", "chunk"}
        <5>1. s[i] \in Records
          BY <3>1
        <5> QED BY <5>1 DEF Records
      <4>3. Len(B[i]) \in Nat
        BY <4>1, <4>2, SourceBytes
      <4>4. i - 1 \in 0 .. n /\ e[i - 1] \in Nat /\ e[i] \in Nat /\ e[i] <= e[n]
        BY <1>2, <1>9, <3>1
      <4>5. e2[i] = e[i] /\ e2[i - 1] = e[i - 1] /\ B2[i] = B[i] /\ t[i] = s[i]
        BY <1>4, <1>6, <1>7, <3>1, <4>4
      <4>6. ASSUME NEW k \in 1 .. Len(B[i]) PROVE B[i][k] = L2[e[i - 1] + k]
        <5>1. e[i - 1] + Len(B[i]) <= e[n] /\ e[i - 1] \in Nat
          BY <4>1, <4>4
        <5>2. e[i - 1] + k \in 1 .. e[n]
          BY <1>3, <4>3, <5>1, Inside, Zenon
        <5> QED BY <1>8, <4>1, <5>2
      <4> QED BY <4>1, <4>5, <4>6
    <3>2. CASE i = n + 1
      <4>1. e2[i] = e[n] + Len(b) /\ e2[i - 1] = e[n] /\ B2[i] = b /\ t[i] = m
        BY <1>2, <1>4, <1>6, <1>7, <3>2
      <4> QED BY <1>5, <1>8, <4>1
    <3> QED BY <1>2, <1>4, <3>1, <3>2
  <2> QED BY <2>1, <2>2, <2>3 DEF Written
<1>11. Len(w) \in Nat /\ \A k \in 0 .. Len(w) : p[k] \in Nat /\ p[k] <= e[n]
  BY <1>3 DEF InFlight
<1>12. InFlight(L2, e2, p, w, t, kd)
  <2>1. p[Len(w)] <= e2[Len(t)]
    BY <1>1, <1>3, <1>4, <1>6, <1>11
  <2>2. ASSUME NEW k \in 1 .. Len(w) PROVE Unit(L2, e2, p[k - 1], p[k], w[k], t, kd)
    <3>1. Unit(L, e, p[k - 1], p[k], w[k], s, kd)
      BY <2>2 DEF InFlight
    <3>2. p[k - 1] \in Nat /\ p[k] \in Nat /\ p[k] <= e[n]
      BY <1>11
    <3>3. w[k][2] \in Bytes /\ Len(w[k][2]) \in Nat
      <4>1. w[k] \in WireUnits
        OBVIOUS
      <4>2. w[k][2] \in Bytes
        BY <4>1 DEF WireUnits
      <4> QED BY <4>2 DEF Bytes
    <3>4. n >= 1 /\ p[k] = p[k - 1] + Len(w[k][2]) /\ e2[1] = e[1]
      BY <1>2, <1>6, <3>1 DEF Unit
    <3>5. ASSUME NEW j \in 1 .. Len(w[k][2]) PROVE w[k][2][j] = L2[p[k - 1] + j]
      <4>1. p[k - 1] + Len(w[k][2]) <= e[n] /\ p[k - 1] \in Nat /\ Len(w[k][2]) \in Nat
        BY <3>2, <3>3, <3>4, Zenon
      <4>2. p[k - 1] + j \in 1 .. e[n]
        BY <1>3, <4>1, Inside, Zenon
      <4> QED BY <1>8, <3>1, <4>2 DEF Unit
    <3>6. ASSUME NEW i \in 2 .. n, Frame(e, p[k - 1], p[k], w[k], s, i)
          PROVE  i \in 2 .. Len(t) /\ Frame(e2, p[k - 1], p[k], w[k], t, i)
      <4>1. i \in 2 .. Len(t) /\ t[i] = s[i] /\ e2[i] = e[i] /\ e2[i - 1] = e[i - 1]
        <5>1. i \in 2 .. n + 1 /\ i \in 1 .. n /\ i \in 0 .. n /\ i - 1 \in 0 .. n
          BY <1>2
        <5> QED BY <1>4, <1>6, <5>1
      <4> QED BY <3>6, <4>1 DEF Frame
    <3>7. Len(t) >= 1
      BY <1>2, <1>4
    <3>8. CASE w[k][1] = "byte" /\ p[k] = p[k - 1] + 1 /\ (kd = "websocket" => p[k] <= e[1])
      BY <3>4, <3>5, <3>7, <3>8 DEF Unit
    <3>9. CASE w[k][1] \in {"text", "binary"} /\ kd = "websocket" /\ \E i \in 2 .. n : Frame(e, p[k - 1], p[k], w[k], s, i)
      BY <3>4, <3>5, <3>6, <3>7, <3>9 DEF Unit
    <3>10. CASE w[k][1] \in {"ping", "close"} /\ kd = "websocket" /\ p[k] = p[k - 1] /\ e[1] <= p[k - 1]
      BY <3>4, <3>5, <3>7, <3>10 DEF Unit
    <3> QED BY <3>1, <3>8, <3>9, <3>10 DEF Unit
  <2> QED BY <2>1, <2>2 DEF InFlight
<1>13. Placed(L2, e2, p, t, g, a, c, w, b, kd)
  <2>1. /\ g \in 0 .. n /\ p[0] = e[g] + Len(a) + Len(c) /\ p[Len(w)] + Len(<<>>) = e[n]
        /\ g < n => e[g] + Len(a) < e[g + 1]
        /\ \A k \in 1 .. Len(a) : a[k] = L[e[g] + k]
        /\ \A k \in 1 .. Len(c) : c[k] = L[e[g] + Len(a) + k]
    BY DEF Placed
  <2>2. /\ e[g] \in Nat /\ Len(a) \in Nat /\ Len(c) \in Nat /\ Len(<<>>) = 0
        /\ p[Len(w)] \in Nat /\ p[0] \in Nat /\ p[0] <= e[n]
    BY <1>2, <1>11, <2>1 DEF Bytes
  <2>3. p[Len(w)] = e[n] /\ e2[g] = e[g] /\ e2[n] = e[n]
    BY <1>2, <1>3, <1>6, <2>1, <2>2
  <2>4. g < n + 1 => e2[g] + Len(a) < e2[g + 1]
    <3>1. CASE g < n
      <4>1. e2[g + 1] = e[g + 1]
        <5>1. g + 1 \in 0 .. n
          BY <1>2, <2>1, <3>1
        <5> QED BY <1>6, <5>1
      <4> QED BY <2>1, <2>3, <3>1, <4>1
    <3>2. CASE g = n
      BY <1>1, <1>3, <1>6, <2>1, <2>2, <2>3, <3>2
    <3> QED BY <1>2, <2>1, <3>1, <3>2
  <2>5. \A k \in 1 .. Len(a) : a[k] = L2[e[g] + k]
    <3> SUFFICES ASSUME NEW k \in 1 .. Len(a) PROVE a[k] = L2[e[g] + k]
      OBVIOUS
    <3>1. e[g] + Len(a) <= e[n] /\ e[g] \in Nat /\ Len(a) \in Nat
      BY <1>3, <2>1, <2>2
    <3>2. e[g] + k \in 1 .. e[n]
      BY <1>3, <3>1, Inside, Zenon
    <3> QED BY <1>8, <2>1, <3>2
  <2>6. \A k \in 1 .. Len(c) : c[k] = L2[e[g] + Len(a) + k]
    <3> SUFFICES ASSUME NEW k \in 1 .. Len(c) PROVE c[k] = L2[e[g] + Len(a) + k]
      OBVIOUS
    <3>1. e[g] + Len(a) \in Nat /\ Len(c) \in Nat
      BY <2>2
    <3>2. (e[g] + Len(a)) + Len(c) <= e[n]
      BY <2>1, <2>2, Zenon
    <3>3. e[g] + Len(a) + k \in 1 .. e[n]
      BY <1>3, <3>1, <3>2, Inside, Zenon
    <3> QED BY <1>8, <2>1, <3>3
  <2>7. g \in 0 .. Len(t) /\ Len(t) = n + 1 /\ Len(t) - 1 = n
    BY <1>2, <1>4, <2>1
  <2>8. e2[Len(t)] = e[n] + Len(b) /\ e2[Len(t) - 1] = e[n]
    BY <1>6, <2>3, <2>7
  <2>9. /\ p[0] = e2[g] + Len(a) + Len(c) /\ p[Len(w)] + Len(b) = e2[Len(t)]
        /\ e2[Len(t) - 1] = p[Len(w)] /\ e2[Len(t) - 1] <= p[Len(w)]
        /\ g < Len(t) => e2[g] + Len(a) < e2[g + 1]
    BY <1>3, <2>1, <2>2, <2>3, <2>4, <2>7, <2>8
  <2>10. /\ \A k \in 1 .. Len(a) : a[k] = L2[e2[g] + k]
         /\ \A k \in 1 .. Len(c) : c[k] = L2[e2[g] + Len(a) + k]
         /\ \A k \in 1 .. Len(b) : b[k] = L2[p[Len(w)] + k]
    BY <1>8, <2>3, <2>5, <2>6
  <2> QED BY <2>7, <2>9, <2>10, Zenon DEF Placed
<1> QED BY <1>10, <1>12, <1>13 DEF Begun

\* Units are written behind those in flight.
LEMMA UnitsJoined ==
  ASSUME NEW L, NEW e, NEW p, NEW s \in Seq(Records), NEW kd, NEW w \in Seq(WireUnits), NEW v \in Seq(WireUnits),
         NEW y, InFlight(L, e, p, w, s, kd), Ahead(L, e, v, s, kd, p[Len(w)], y)
  PROVE  Ahead(L, e, w \o v, s, kd, p[0], y)
<1>0. PICK q : InFlight(L, e, q, v, s, kd) /\ q[0] = p[Len(w)] /\ q[Len(v)] = y
  BY DEF Ahead
<1> DEFINE u == w \o v
           m == Len(w)
           n == Len(v)
           o == [k \in 0 .. m + n |-> IF k <= m THEN p[k] ELSE q[k - m]]
<1>1. /\ m \in Nat /\ n \in Nat /\ Len(u) = m + n
      /\ \A k \in 1 .. m : u[k] = w[k]
      /\ \A k \in 1 .. n : u[m + k] = v[k]
  BY JoinSeq
<1>2. /\ \A k \in 0 .. m : p[k] \in Nat /\ (kd = "raw" => p[k] = p[0] + k)
      /\ \A k \in 0 .. n : q[k] \in Nat /\ (kd = "raw" => q[k] = q[0] + k)
      /\ \A k, l \in 0 .. m : k <= l => p[k] <= p[l]
      /\ \A k, l \in 0 .. n : k <= l => q[k] <= q[l]
      /\ q[n] <= e[Len(s)]
  BY <1>0 DEF InFlight
<1>3. \A k \in 0 .. m : o[k] = p[k]
  BY <1>1
<1>4. \A k \in 0 .. n : o[m + k] = q[k]
  <2> SUFFICES ASSUME NEW k \in 0 .. n PROVE o[m + k] = q[k]
    OBVIOUS
  <2>1. CASE k = 0
    BY <1>0, <1>1, <2>1
  <2>2. CASE k # 0
    BY <1>1, <2>2
  <2> QED BY <2>1, <2>2
<1> HIDE DEF o, u
<1>5. \A k \in 0 .. m + n : k \in 0 .. m \/ (k - m \in 0 .. n /\ k = m + (k - m))
  BY <1>1
<1>6. ASSUME NEW k \in 0 .. m + n PROVE o[k] \in Nat /\ (kd = "raw" => o[k] = o[0] + k)
  <2>1. CASE k \in 0 .. m
    BY <1>1, <1>2, <1>3, <2>1
  <2>2. CASE k - m \in 0 .. n
    <3>1. o[k] = q[k - m] /\ q[k - m] \in Nat
      BY <1>2, <1>4, <1>5, <2>2
    <3>2. p[m] \in Nat /\ p[0] \in Nat /\ o[0] = p[0] /\ (kd = "raw" => p[m] = p[0] + m)
      BY <1>1, <1>2, <1>3
    <3>3. kd = "raw" => q[k - m] = q[0] + (k - m)
      BY <1>2, <2>2
    <3> QED BY <1>0, <1>1, <3>1, <3>2, <3>3
  <2> QED BY <1>5, <2>1, <2>2
<1>7. ASSUME NEW k \in 0 .. m + n, NEW l \in 0 .. m + n, k <= l PROVE o[k] <= o[l]
  <2>1. CASE l \in 0 .. m
    <3>1. k \in 0 .. m
      BY <1>1, <1>7, <2>1
    <3> QED BY <1>2, <1>3, <1>7, <2>1, <3>1
  <2>2. CASE l - m \in 0 .. n /\ k - m \in 0 .. n
    <3>1. k - m <= l - m /\ o[l] = q[l - m] /\ o[k] = q[k - m]
      BY <1>1, <1>4, <1>5, <1>7, <2>2
    <3> QED BY <1>2, <2>2, <3>1
  <2>3. CASE l - m \in 0 .. n /\ k \in 0 .. m
    <3>1. o[l] = q[l - m] /\ q[0] <= q[l - m] /\ o[k] = p[k] /\ p[k] <= p[m]
      BY <1>1, <1>2, <1>3, <1>4, <1>5, <2>3
    <3>2. q[l - m] \in Nat /\ p[k] \in Nat /\ p[m] \in Nat
      BY <1>1, <1>2, <2>3
    <3> QED BY <1>0, <3>1, <3>2
  <2> QED BY <1>5, <2>1, <2>2, <2>3
<1>8. ASSUME NEW k \in 1 .. m + n PROVE Unit(L, e, o[k - 1], o[k], u[k], s, kd)
  <2>1. CASE k \in 1 .. m
    <3>1. k - 1 \in 0 .. m /\ k \in 0 .. m
      BY <1>1, <2>1
    <3>2. o[k] = p[k] /\ o[k - 1] = p[k - 1] /\ u[k] = w[k]
      BY <1>1, <1>3, <2>1, <3>1
    <3> QED BY <2>1, <3>2 DEF InFlight
  <2>2. CASE k - m \in 1 .. n
    <3>1. k - m \in 0 .. n /\ (k - m) - 1 \in 0 .. n /\ k = m + (k - m) /\ k - 1 = m + ((k - m) - 1)
      BY <1>1, <2>2
    <3>2. o[k] = q[k - m] /\ o[k - 1] = q[(k - m) - 1] /\ u[k] = v[k - m]
      BY <1>1, <1>4, <2>2, <3>1
    <3> QED BY <1>0, <2>2, <3>2 DEF InFlight
  <2>3. k \in 1 .. m \/ k - m \in 1 .. n
    BY <1>1
  <2> QED BY <2>1, <2>2, <2>3
<1>9. o[m + n] = q[n] /\ o[0] = p[0]
  BY <1>1, <1>3, <1>4
<1>10. InFlight(L, e, o, u, s, kd)
  BY <1>1, <1>2, <1>6, <1>7, <1>8, <1>9 DEF InFlight
<1> QED BY <1>0, <1>1, <1>9, <1>10 DEF Ahead, u

\* Units are read.
LEMMA UnitsDropped ==
  ASSUME NEW L, NEW e, NEW p, NEW s \in Seq(Records), NEW kd, NEW w \in Seq(WireUnits), NEW n \in 0 .. Len(w),
         InFlight(L, e, p, w, s, kd)
  PROVE  Ahead(L, e, SubSeq(w, n + 1, Len(w)), s, kd, p[n], p[Len(w)])
<1> DEFINE v == SubSeq(w, n + 1, Len(w))
           m == Len(v)
           o == [k \in 0 .. m |-> p[k + n]]
<1>1. /\ n \in Nat /\ m \in Nat /\ Len(w) \in Nat /\ m + n = Len(w)
      /\ \A k \in 1 .. m : v[k] = w[k + n]
  BY DropUnits
<1>2. \A k \in 0 .. m : o[k] = p[k + n] /\ k + n \in 0 .. Len(w)
  BY <1>1
<1> HIDE DEF o, m, v
<1>3. /\ \A k \in 0 .. Len(w) : p[k] \in Nat /\ (kd = "raw" => p[k] = p[0] + k)
      /\ \A k, l \in 0 .. Len(w) : k <= l => p[k] <= p[l]
      /\ p[Len(w)] <= e[Len(s)]
  BY DEF InFlight
<1>4. o[0] = p[n] /\ o[m] = p[Len(w)]
  <2>1. 0 \in 0 .. m /\ m \in 0 .. m /\ 0 + n = n /\ m + n = Len(w)
    BY <1>1
  <2> QED BY <1>2, <2>1
<1>5. ASSUME NEW k \in 0 .. m PROVE o[k] \in Nat /\ (kd = "raw" => o[k] = o[0] + k)
  <2>1. p[k + n] \in Nat /\ p[n] \in Nat /\ p[0] \in Nat
    <3>1. k + n \in 0 .. Len(w) /\ n \in 0 .. Len(w) /\ 0 \in 0 .. Len(w)
      BY <1>1, <1>2
    <3> QED BY <1>3, <3>1
  <2>2. kd = "raw" => p[k + n] = p[0] + (k + n) /\ p[n] = p[0] + n
    BY <1>2, <1>3
  <2> QED BY <1>1, <1>2, <1>4, <2>1, <2>2
<1>6. ASSUME NEW k \in 0 .. m, NEW l \in 0 .. m, k <= l PROVE o[k] <= o[l]
  <2>1. k + n <= l + n
    BY <1>1, <1>6
  <2> QED BY <1>2, <1>3, <2>1
<1>7. ASSUME NEW k \in 1 .. m PROVE Unit(L, e, o[k - 1], o[k], v[k], s, kd)
  <2>1. k - 1 \in 0 .. m /\ k \in 0 .. m /\ k + n \in 1 .. Len(w) /\ (k - 1) + n = (k + n) - 1
    BY <1>1
  <2>2. o[k - 1] = p[(k + n) - 1] /\ o[k] = p[k + n] /\ v[k] = w[k + n]
    BY <1>1, <1>2, <2>1
  <2> QED BY <2>1, <2>2 DEF InFlight
<1>8. InFlight(L, e, o, v, s, kd)
  BY <1>3, <1>4, <1>5, <1>6, <1>7 DEF InFlight, m
<1> QED BY <1>4, <1>8 DEF m, v, Ahead

\* One unit, and a run of bytes, by themselves.
LEMMA OneUnit ==
  ASSUME NEW L, NEW e, NEW s \in Seq(Records), NEW kd, NEW u \in WireUnits, NEW x \in Nat, NEW y \in Nat,
         Unit(L, e, x, y, u, s, kd), x <= y, y <= e[Len(s)], kd = "raw" => y = x + 1
  PROVE  Ahead(L, e, <<u>>, s, kd, x, y)
<1> DEFINE q == [k \in 0 .. 1 |-> IF k = 0 THEN x ELSE y]
<1>1. q[0] = x /\ q[1] = y /\ Len(<<u>>) = 1 /\ <<u>>[1] = u
  OBVIOUS
<1> HIDE DEF q
<1>2. \A k \in 0 .. 1 : k = 0 \/ k = 1
  OBVIOUS
<1>3. \A k \in 0 .. Len(<<u>>) : q[k] \in Nat /\ (kd = "raw" => q[k] = q[0] + k)
  BY <1>1, <1>2
<1>4. \A k, l \in 0 .. Len(<<u>>) : k <= l => q[k] <= q[l]
  BY <1>1, <1>2
<1>5. \A k \in 1 .. Len(<<u>>) : k = 1 /\ k - 1 = 0
  BY <1>1
<1>6. \A k \in 1 .. Len(<<u>>) : Unit(L, e, q[k - 1], q[k], <<u>>[k], s, kd)
  BY <1>1, <1>5
<1>7. q[Len(<<u>>)] <= e[Len(s)]
  BY <1>1
<1>8. InFlight(L, e, q, <<u>>, s, kd)
  BY <1>3, <1>4, <1>6, <1>7 DEF InFlight
<1> QED BY <1>1, <1>8 DEF Ahead

LEMMA ByteRun ==
  ASSUME NEW L, NEW e, NEW s \in Seq(Records), NEW kd, NEW part \in Bytes, NEW x \in Nat,
         Len(s) >= 1, x + Len(part) <= e[Len(s)], kd = "websocket" => x + Len(part) <= e[1],
         e[Len(s)] \in Nat, e[1] \in Nat, Agrees(L, x, part)
  PROVE  Ahead(L, e, AsUnits(part), s, kd, x, x + Len(part))
<1> DEFINE q == [k \in 0 .. Len(part) |-> x + k]
           v == AsUnits(part)
<1>1. /\ Len(part) \in Nat /\ Len(v) = Len(part)
      /\ \A i \in 1 .. Len(part) : v[i] = <<"byte", <<part[i]>>>> /\ Len(v[i][2]) = 1 /\ v[i][2][1] = part[i]
  BY ByteUnits DEF Bytes
<1>2. \A k \in 0 .. Len(part) : q[k] = x + k /\ q[k] \in Nat
  BY <1>1
<1> HIDE DEF q, v
<1>3. q[0] = x /\ q[Len(v)] = x + Len(part)
  BY <1>1, <1>2
<1>4. ASSUME NEW k \in 1 .. Len(v) PROVE Unit(L, e, q[k - 1], q[k], v[k], s, kd)
  <2>1. k \in 1 .. Len(part) /\ k - 1 \in 0 .. Len(part) /\ k \in 0 .. Len(part)
    BY <1>1
  <2>2. q[k - 1] = x + (k - 1) /\ q[k] = x + k
    BY <1>2, <2>1
  <2>3. v[k][1] = "byte" /\ Len(v[k][2]) = 1 /\ v[k][2][1] = part[k] /\ part[k] = L[x + k]
    BY <1>1, <2>1 DEF Agrees
  <2>4. \A j \in 1 .. Len(v[k][2]) : j = 1
    BY <2>3
  <2>5. (x + (k - 1)) + 1 = x + k /\ q[k] = q[k - 1] + 1
    BY <1>1, <2>1, <2>2
  <2>6. \A j \in 1 .. Len(v[k][2]) : v[k][2][j] = L[q[k - 1] + j]
    BY <2>2, <2>3, <2>4, <2>5
  <2>7. kd = "websocket" => q[k] <= e[1]
    BY <1>1, <2>1, <2>2
  <2> QED BY <2>3, <2>5, <2>6, <2>7 DEF Unit
<1>5. \A k \in 0 .. Len(v) : q[k] \in Nat /\ (kd = "raw" => q[k] = q[0] + k)
  BY <1>1, <1>2, <1>3
<1>6. \A k, l \in 0 .. Len(v) : k <= l => q[k] <= q[l]
  BY <1>1, <1>2
<1>7. q[Len(v)] <= e[Len(s)]
  BY <1>3
<1>8. InFlight(L, e, q, v, s, kd)
  BY <1>4, <1>5, <1>6, <1>7 DEF InFlight
<1> QED BY <1>3, <1>8 DEF v, Ahead

-----------------------------------------------------------------------------
(* Lines, and the forms in which they arrive. *)

\* The line in bytes that end with LF, and in bytes that do not.
LEMMA LineLength ==
  ASSUME NEW s \in Bytes, Len(s) > 0
  PROVE  /\ s[Len(s)] = "LF" =>
              Len(LineOf(s)) = IF Len(s) > 1 /\ s[Len(s) - 1] = "CR" THEN Len(s) - 2 ELSE Len(s) - 1
         /\ s[Len(s)] # "LF" => Len(LineOf(s)) = IF s[Len(s)] = "CR" THEN Len(s) - 1 ELSE Len(s)
<1> DEFINE t == StripLast(s, "LF")
           r == StripLast(t, "CR")
<1>0. Len(s) \in Nat
  BY DEF Bytes
<1>1. /\ t \in Bytes /\ Len(t) <= Len(s)
      /\ \A i \in 1 .. Len(t) : t[i] = s[i]
      /\ Len(s) > 0 /\ s[Len(s)] = "LF" => Len(t) = Len(s) - 1
      /\ Len(s) = 0 \/ s[Len(s)] # "LF" => t = s
  BY StripBytes
<1>2. LineOf(s) = r
  BY DEF LineOf
<1> HIDE DEF t
<1>3. /\ r \in Bytes /\ Len(r) <= Len(t)
      /\ Len(t) > 0 /\ t[Len(t)] = "CR" => Len(r) = Len(t) - 1
      /\ Len(t) = 0 \/ t[Len(t)] # "CR" => r = t
  BY <1>1, StripBytes
<1>4. Len(t) \in Nat
  BY <1>1 DEF Bytes
<1> HIDE DEF r
<1>5. CASE s[Len(s)] = "LF"
  <2>1. Len(t) = Len(s) - 1
    BY <1>1, <1>5
  <2>2. CASE Len(s) > 1
    <3>1. Len(t) > 0 /\ t[Len(t)] = s[Len(s) - 1]
      BY <1>0, <1>1, <2>1, <2>2
    <3>2. CASE s[Len(s) - 1] = "CR"
      <4>1. Len(r) = Len(t) - 1
        BY <1>3, <3>1, <3>2
      <4> QED BY <1>0, <1>2, <1>5, <2>1, <2>2, <3>2, <4>1
    <3>3. CASE s[Len(s) - 1] # "CR"
      <4>1. Len(r) = Len(t)
        BY <1>3, <3>1, <3>3
      <4> QED BY <1>2, <1>5, <2>1, <3>3, <4>1
    <3> QED BY <3>2, <3>3
  <2>3. CASE ~(Len(s) > 1)
    <3>1. Len(t) = 0
      BY <1>0, <2>1, <2>3
    <3> QED BY <1>2, <1>3, <1>5, <2>1, <2>3, <3>1
  <2> QED BY <2>2, <2>3
<1>6. CASE s[Len(s)] # "LF"
  <2>1. t = s
    BY <1>1, <1>6
  <2> QED BY <1>0, <1>2, <1>3, <1>6, <2>1
<1> QED BY <1>5, <1>6

\* A text frame and a raw read give the same line.
LEMMA TextLine ==
  ASSUME NEW b \in Lines
  PROVE  TextLineOf(b) = LineOf(b)
<1> DEFINE n == Len(b)
<1>1. b \in Bytes /\ n \in Nat /\ n > 0 /\ \A i \in 1 .. n : b[i] = "LF" <=> i = n
  BY SentBytes, ClientAssumption DEF Bytes
<1>2. n > 2 => ~(b[n - 1] = "CR" /\ b[n - 2] = "CR")
  BY ClientAssumption
<1>3. PICK m \in 0 .. n : /\ TrimEnd(b, "LF") = SubSeq(b, 1, m) /\ (m = 0 \/ b[m] # "LF")
                          /\ \A j \in m + 1 .. n : b[j] = "LF"
  BY <1>1, TrimBytes
<1> HIDE DEF n
<1>4. m = n - 1
  <2>1. m # n
    BY <1>1, <1>3
  <2>2. ~(m < n - 1)
    <3> SUFFICES ASSUME m < n - 1 PROVE FALSE
      OBVIOUS
    <3>1. n - 1 \in m + 1 .. n /\ n - 1 \in 1 .. n /\ n - 1 # n
      BY <1>1, <1>3
    <3> QED BY <1>1, <1>3, <3>1
  <2> QED BY <1>1, <1>3, <2>1, <2>2
<1> DEFINE t == SubSeq(b, 1, m)
<1>5. t \in Bytes /\ Len(t) = n - 1 /\ \A i \in 1 .. n - 1 : t[i] = b[i]
  <2>1. 1 \in 1 .. Len(b) + 1 /\ m \in 0 .. Len(b) /\ 1 <= m + 1
    BY <1>1, <1>3 DEF n
  <2>2. t \in Bytes /\ Len(t) = m + 1 - 1 /\ \A i \in 1 .. m + 1 - 1 : t[i] = b[1 + i - 1]
    BY <1>1, <2>1, PartBytes
  <2> HIDE DEF t
  <2> QED BY <1>1, <1>4, <2>2
<1>6. TextLineOf(b) = TrimEnd(t, "CR")
  BY <1>3 DEF TextLineOf
<1> HIDE DEF t
<1>7. PICK l \in 0 .. n - 1 : /\ TrimEnd(t, "CR") = SubSeq(t, 1, l) /\ (l = 0 \/ t[l] # "CR")
                              /\ \A j \in l + 1 .. n - 1 : t[j] = "CR"
  BY <1>5, TrimBytes
<1>8. l = IF n > 1 /\ b[n - 1] = "CR" THEN n - 2 ELSE n - 1
  <2>1. CASE n > 1 /\ b[n - 1] = "CR"
    <3>1. l # n - 1
      BY <1>1, <1>5, <1>7, <2>1
    <3>2. ~(l < n - 2)
      <4> SUFFICES ASSUME l < n - 2 PROVE FALSE
        OBVIOUS
      <4>1. n - 2 \in l + 1 .. n - 1 /\ n - 2 \in 1 .. n - 1 /\ n > 2
        BY <1>1, <1>7
      <4> QED BY <1>2, <1>5, <1>7, <2>1, <4>1
    <3> QED BY <1>1, <1>7, <2>1, <3>1, <3>2
  <2>2. CASE ~(n > 1 /\ b[n - 1] = "CR")
    <3>1. ~(l < n - 1)
      <4> SUFFICES ASSUME l < n - 1 PROVE FALSE
        OBVIOUS
      <4>1. n - 1 \in l + 1 .. n - 1 /\ n - 1 \in 1 .. n - 1 /\ n > 1
        BY <1>1, <1>7
      <4> QED BY <1>5, <1>7, <2>2, <4>1
    <3> QED BY <1>1, <1>7, <2>2, <3>1
  <2> QED BY <2>1, <2>2
<1> DEFINE r == SubSeq(t, 1, l)
<1>9. r \in Bytes /\ Len(r) = l /\ \A i \in 1 .. l : r[i] = b[i]
  <2>1. 1 \in 1 .. Len(t) + 1 /\ l \in 0 .. Len(t) /\ 1 <= l + 1
    BY <1>1, <1>5, <1>7
  <2>2. r \in Bytes /\ Len(r) = l + 1 - 1 /\ \A i \in 1 .. l + 1 - 1 : r[i] = t[1 + i - 1]
    BY <1>5, <2>1, PartBytes
  <2> HIDE DEF r
  <2> QED BY <1>1, <1>5, <1>7, <2>2
<1>10. Len(LineOf(b)) = l /\ LineOf(b) \in Bytes /\ \A i \in 1 .. l : LineOf(b)[i] = b[i]
  <2>1. b[Len(b)] = "LF" /\ Len(b) > 0
    BY <1>1 DEF n
  <2>2. Len(LineOf(b)) = l
    BY <1>1, <1>8, <2>1, LineLength DEF n
  <2> QED BY <1>1, <2>2, LineBytes
<1> HIDE DEF r
<1>11. r = LineOf(b)
  BY <1>9, <1>10, SameBytes
<1> QED BY <1>6, <1>7, <1>11 DEF r

\* The conversion to UTF-8 and the search for the end of a line commute.
LEMMA LossyLine ==
  ASSUME NEW b \in Lines
  PROVE  LineOf(Lossy(b)) = Lossy(LineOf(b))
<1> DEFINE n == Len(b)
           c == Lossy(b)
           x == LineOf(b)
           y == LineOf(c)
<1>1. b \in Bytes /\ n \in Nat /\ n > 0 /\ b[n] = "LF"
  BY SentBytes, ClientAssumption DEF Bytes
<1>2. c \in Bytes /\ Len(c) = n /\ \A i \in 1 .. n : c[i] = IF b[i] = "FF" THEN "FFFD" ELSE b[i]
  BY <1>1, LossyBytes
<1>3. x \in Bytes /\ Len(x) <= n /\ \A i \in 1 .. Len(x) : x[i] = b[i]
  BY <1>1, LineBytes
<1> HIDE DEF c
<1>4. y \in Bytes /\ Len(y) <= n /\ \A i \in 1 .. Len(y) : y[i] = c[i]
  BY <1>2, LineBytes
<1>5. Len(x) = IF n > 1 /\ b[n - 1] = "CR" THEN n - 2 ELSE n - 1
  BY <1>1, LineLength
<1>6. Len(y) = IF n > 1 /\ c[n - 1] = "CR" THEN n - 2 ELSE n - 1
  <2>1. c[Len(c)] = "LF" /\ Len(c) > 0
    BY <1>1, <1>2
  <2> QED BY <1>2, <2>1, LineLength
<1> HIDE DEF x, y, n
<1>7. n > 1 => (c[n - 1] = "CR" <=> b[n - 1] = "CR")
  <2> SUFFICES ASSUME n > 1 PROVE c[n - 1] = "CR" <=> b[n - 1] = "CR"
    OBVIOUS
  <2>1. n - 1 \in 1 .. n
    BY <1>1
  <2>2. c[n - 1] = IF b[n - 1] = "FF" THEN "FFFD" ELSE b[n - 1]
    BY <1>2, <2>1
  <2> QED BY <2>2
<1>8. Len(x) = Len(y) /\ Len(x) \in Nat
  BY <1>3, <1>5, <1>6, <1>7 DEF Bytes
<1>9. Lossy(x) \in Bytes /\ Len(Lossy(x)) = Len(x)
      /\ \A i \in 1 .. Len(x) : Lossy(x)[i] = IF x[i] = "FF" THEN "FFFD" ELSE x[i]
  BY <1>3, LossyBytes
<1>10. ASSUME NEW i \in 1 .. Len(x) PROVE y[i] = Lossy(x)[i]
  <2>1. i \in 1 .. n
    BY <1>1, <1>3, <1>8
  <2> QED BY <1>2, <1>3, <1>4, <1>8, <1>9, <2>1
<1>11. y = Lossy(x)
  BY <1>4, <1>8, <1>9, <1>10, SameBytes
<1> QED BY <1>11 DEF x, y, c

\* A conversion makes no command of what was none.
LEMMA LossyCommand ==
  ASSUME NEW x \in Bytes, NEW c \in {"P", "B"}
  PROVE  Lossy(x) = <<c>> <=> x = <<c>>
<1>1. Lossy(x) \in Bytes /\ Len(Lossy(x)) = Len(x)
      /\ \A i \in 1 .. Len(x) : Lossy(x)[i] = IF x[i] = "FF" THEN "FFFD" ELSE x[i]
  BY LossyBytes
<1>2. Len(<<c>>) = 1 /\ <<c>>[1] = c /\ c # "FF" /\ c # "FFFD"
  OBVIOUS
<1>3. ASSUME x = <<c>> PROVE Lossy(x) = <<c>>
  <2>1. Len(Lossy(x)) = 1 /\ Lossy(x)[1] = c
    BY <1>1, <1>2, <1>3
  <2> QED BY <1>1, <2>1 DEF Bytes
<1>4. ASSUME Lossy(x) = <<c>> PROVE x = <<c>>
  <2>1. Len(x) = 1 /\ x[1] = c
    BY <1>1, <1>2, <1>4
  <2> QED BY <2>1 DEF Bytes
<1> QED BY <1>3, <1>4

LEMMA Utf8Bytes ==
  ASSUME NEW s \in Bytes
  PROVE  Utf8(s) <=> \A i \in 1 .. Len(s) : s[i] # "FF"
<1>1. DOMAIN s = 1 .. Len(s)
  BY DEF Bytes
<1> QED BY <1>1, Zenon DEF Utf8

\* The line in a part of a line is a part of it.
LEMMA CutLine ==
  ASSUME NEW b \in Lines, NEW a \in Bytes, Len(a) > 0, Len(a) < Len(b), \A k \in 1 .. Len(a) : a[k] = b[k]
  PROVE  ~Utf8(LineOf(a)) => ~Utf8(LineOf(b))
<1> DEFINE n == Len(b)
           m == Len(a)
           x == LineOf(a)
           y == LineOf(b)
<1>1. b \in Bytes /\ n \in Nat /\ n > 0 /\ \A i \in 1 .. n : b[i] = "LF" <=> i = n
  BY SentBytes, ClientAssumption DEF Bytes
<1>2. m \in Nat /\ m > 0 /\ m < n
  BY DEF Bytes
<1>3. x \in Bytes /\ Len(x) <= m /\ \A i \in 1 .. Len(x) : x[i] = a[i]
  BY LineBytes
<1>4. y \in Bytes /\ Len(y) <= n /\ \A i \in 1 .. Len(y) : y[i] = b[i]
  BY <1>1, LineBytes
<1>5. Len(y) = IF n > 1 /\ b[n - 1] = "CR" THEN n - 2 ELSE n - 1
  BY <1>1, LineLength
<1>6. a[m] = b[m] /\ a[m] # "LF"
  BY <1>1, <1>2
<1>7. Len(x) = IF a[m] = "CR" THEN m - 1 ELSE m
  BY <1>2, <1>6, LineLength
<1>8. Len(x) \in Nat /\ Len(y) \in Nat
  BY <1>3, <1>4 DEF Bytes
<1> HIDE DEF x, y, n
<1>9. Len(x) <= Len(y)
  <2>1. CASE m = n - 1
    BY <1>1, <1>2, <1>5, <1>6, <1>7, <2>1
  <2>2. CASE m < n - 1
    BY <1>1, <1>2, <1>3, <1>5, <1>8, <2>2
  <2> QED BY <1>1, <1>2, <2>1, <2>2
<1>10. ASSUME NEW k \in 1 .. Len(x) PROVE x[k] = y[k] /\ k \in 1 .. Len(y)
  <2>1. k \in 1 .. m /\ k \in 1 .. Len(y)
    BY <1>2, <1>3, <1>8, <1>9
  <2> QED BY <1>3, <1>4, <2>1
<1>11. ~Utf8(x) => ~Utf8(y)
  <2>1. Utf8(x) <=> \A i \in 1 .. Len(x) : x[i] # "FF"
    BY <1>3, Utf8Bytes
  <2>2. Utf8(y) <=> \A i \in 1 .. Len(y) : y[i] # "FF"
    BY <1>4, Utf8Bytes
  <2> QED BY <1>10, <2>1, <2>2, Zenon
<1> QED BY <1>11 DEF x, y

-----------------------------------------------------------------------------
(* What is sent and read next.                                             *)
(*                                                                         *)
(* What follows a message m, be it sent or read; and that a client in      *)
(* step, at cp, and the server, which has read g of the messages s and     *)
(* reads md, agree on it: behind a PUT that the server has not read there  *)
(* are only chunks, and the client has yet to read the reply, rp.          *)

After(m) ==
  IF (m.what = "line" /\ m.bytes = <<"P">>) \/ (m.what = "chunk" /\ Last(m.bytes) # "FF")
  THEN "chunk" ELSE "line"
IsPut(m) == m.what = "line" /\ m.bytes \in {<<"P">>, <<"B">>}
NextOf(s, i) == IF i = 0 THEN "head" ELSE After(s[i])
ReplyTo(m) == IF m.bytes = <<"P">> THEN "OK" ELSE "ERR"

Waiting == {"early", "wait"}

Grammar(s, g, cp, md, rp) ==
  /\ \A i \in 1 .. Len(s) : s[i].what = NextOf(s, i - 1)
  /\ md = NextOf(s, g)
  /\ cp \notin Waiting => cp = NextOf(s, Len(s)) /\ rp = "none"
  /\ cp = "early" => Len(s) > 0 /\ (IsPut(s[Len(s)]) \/ NextOf(s, Len(s)) = "chunk")
  /\ cp = "wait" =>
       Len(s) > 0 /\ (IsPut(s[Len(s)]) \/ (s[Len(s)].what = "chunk" /\ NextOf(s, Len(s)) = "line"))
  /\ \A i \in 1 .. Len(s) : g < i /\ IsPut(s[i]) =>
       cp \in Waiting /\ rp = "none" /\ \A j \in 1 .. Len(s) : i < j => s[j].what = "chunk"
  /\ rp # "none" /\ IsPut(s[Len(s)]) => rp = ReplyTo(s[Len(s)])

\* Where the client is when it has begun the message m.
Onward(cp, m) ==
  IF IsPut(m) THEN Waiting
  ELSE IF cp = "early" THEN {IF After(m) = "chunk" THEN "early" ELSE "wait"}
  ELSE {After(m)}

LEMMA GrammarBegin ==
  ASSUME NEW s \in Seq(Records), NEW g \in 0 .. Len(s), NEW md, NEW rp, NEW cp,
         NEW what \in {"head", "line", "chunk"}, Grammar(s, g, cp, md, rp),
         cp = what \/ (cp = "early" /\ what = "chunk" /\ NextOf(s, Len(s)) = "chunk"),
         NEW m, m.what = what, NEW t, t = Append(s, m), NEW cq \in Onward(cp, m)
  PROVE  Grammar(t, g, cq, md, rp)
<1> DEFINE n == Len(s)
<1>1. n \in Nat /\ Len(t) = n + 1 /\ t[n + 1] = m /\ \A i \in 1 .. n : t[i] = s[i]
  OBVIOUS
<1>2. After(m) \in {"line", "chunk"} /\ After(m) \notin Waiting
  BY DEF After, Waiting
<1>3. what \notin Waiting /\ "early" \in Waiting /\ "wait" \in Waiting
  BY DEF Waiting
<1>4. what = NextOf(s, n) /\ (cp \notin Waiting => cp = what /\ rp = "none")
  BY <1>3 DEF Grammar
<1>5. /\ \A i \in 1 .. n : s[i].what = NextOf(s, i - 1)
      /\ md = NextOf(s, g)
      /\ \A i \in 1 .. n : g < i /\ IsPut(s[i]) =>
           cp \in Waiting /\ rp = "none" /\ \A j \in 1 .. n : i < j => s[j].what = "chunk"
  BY DEF Grammar
<1> HIDE DEF n
<1>6. \A i \in 0 .. n : NextOf(t, i) = NextOf(s, i)
  <2> SUFFICES ASSUME NEW i \in 0 .. n PROVE NextOf(t, i) = NextOf(s, i)
    OBVIOUS
  <2>1. i = 0 \/ i \in 1 .. n
    BY <1>1
  <2> QED BY <1>1, <2>1 DEF NextOf
<1>7. \A i \in 1 .. n + 1 : i - 1 \in 0 .. n /\ (i \in 1 .. n \/ i = n + 1)
  BY <1>1
<1>8. (n + 1) - 1 = n /\ n + 1 # 0 /\ n + 1 > 0 /\ n \in 0 .. n
  BY <1>1
<1>9. \A i \in 1 .. n + 1 : t[i].what = NextOf(t, i - 1)
  BY <1>1, <1>4, <1>5, <1>6, <1>7, <1>8
<1>10. md = NextOf(t, g)
  BY <1>5, <1>6 DEF n
<1>11. NextOf(t, n + 1) = After(m)
  BY <1>1, <1>8 DEF NextOf
<1>12. IsPut(m) => what = "line" /\ cp = what /\ cp \notin Waiting /\ rp = "none"
  BY <1>3, <1>4 DEF IsPut
<1>13. CASE IsPut(m)
  <2>1. cq \in Waiting /\ rp = "none"
    BY <1>12, <1>13 DEF Onward
  <2>2. \A i \in 1 .. n + 1 : g < i /\ IsPut(t[i]) =>
          cq \in Waiting /\ rp = "none" /\ \A j \in 1 .. n + 1 : i < j => t[j].what = "chunk"
    <3> SUFFICES ASSUME NEW i \in 1 .. n + 1, g < i, IsPut(t[i])
                 PROVE  \A j \in 1 .. n + 1 : i < j => t[j].what = "chunk"
      BY <2>1
    <3>1. i = n + 1
      BY <1>1, <1>5, <1>7, <1>12, <1>13
    <3> QED BY <1>1, <3>1
  <2>3. IsPut(t[n + 1])
    BY <1>1, <1>13
  <2> QED BY <1>1, <1>8, <1>9, <1>10, <2>1, <2>2, <2>3 DEF Grammar
<1>14. CASE ~IsPut(m) /\ cp = "early"
  <2>1. cq = (IF After(m) = "chunk" THEN "early" ELSE "wait") /\ what = "chunk" /\ cq \in Waiting
    BY <1>3, <1>14 DEF Onward, Waiting
  <2>2. \A i \in 1 .. n + 1 : g < i /\ IsPut(t[i]) =>
          cq \in Waiting /\ rp = "none" /\ \A j \in 1 .. n + 1 : i < j => t[j].what = "chunk"
    <3> SUFFICES ASSUME NEW i \in 1 .. n + 1, g < i, IsPut(t[i])
                 PROVE  rp = "none" /\ \A j \in 1 .. n + 1 : i < j => t[j].what = "chunk"
      BY <2>1
    <3>1. i \in 1 .. n
      BY <1>1, <1>7, <1>14
    <3>2. rp = "none" /\ \A j \in 1 .. n : i < j => s[j].what = "chunk"
      BY <1>1, <1>5, <3>1
    <3> QED BY <1>1, <1>7, <2>1, <3>2
  <2>3. ~IsPut(t[n + 1]) /\ t[n + 1].what = "chunk"
    BY <1>1, <1>14, <2>1
  <2>4. /\ cq = "early" => NextOf(t, n + 1) = "chunk"
        /\ cq = "wait" => NextOf(t, n + 1) = "line"
    BY <1>2, <1>11, <2>1
  <2> QED BY <1>1, <1>8, <1>9, <1>10, <2>1, <2>2, <2>3, <2>4 DEF Grammar
<1>15. CASE ~IsPut(m) /\ cp # "early"
  <2>1. cp \notin Waiting /\ rp = "none"
    BY <1>3, <1>4, <1>15
  <2>2. cq = After(m) /\ cq \notin Waiting
    BY <1>2, <1>15 DEF Onward
  <2>3. \A i \in 1 .. n + 1 : ~(g < i /\ IsPut(t[i]))
    BY <1>1, <1>5, <1>7, <1>15, <2>1
  <2> QED BY <1>1, <1>3, <1>9, <1>10, <1>11, <2>1, <2>2, <2>3 DEF Grammar
<1> QED BY <1>13, <1>14, <1>15

LEMMA GrammarReply ==
  ASSUME NEW s \in Seq(Records), NEW g \in 0 .. Len(s), NEW md, NEW rp, rp # "none", Grammar(s, g, "wait", md, rp),
         NEW cp, cp = IF s[Len(s)].what = "line" /\ rp = "OK" THEN "chunk" ELSE "line"
  PROVE  Grammar(s, g, cp, md, "none")
<1> DEFINE m == s[Len(s)]
<1>1. /\ Len(s) \in Nat /\ Len(s) > 0 /\ (IsPut(m) \/ (m.what = "chunk" /\ NextOf(s, Len(s)) = "line"))
      /\ IsPut(m) => rp = ReplyTo(m)
  BY DEF Grammar
<1>2. NextOf(s, Len(s)) = After(m)
  BY <1>1 DEF NextOf
<1>3. cp = After(m)
  <2>1. CASE IsPut(m)
    BY <1>1, <2>1 DEF ReplyTo, After, IsPut
  <2>2. CASE m.what = "chunk" /\ NextOf(s, Len(s)) = "line"
    BY <1>2, <2>2
  <2> QED BY <1>1, <2>1, <2>2
<1>4. cp \notin Waiting /\ cp # "early" /\ cp # "wait"
  BY DEF Waiting
<1>5. \A i \in 1 .. Len(s) : ~(g < i /\ IsPut(s[i]))
  BY DEF Grammar
<1> QED BY <1>2, <1>3, <1>4, <1>5 DEF Grammar

LEMMA GrammarRead ==
  ASSUME NEW s \in Seq(Records), NEW g \in 0 .. Len(s), g < Len(s), NEW md, NEW cp, NEW rp,
         Grammar(s, g, cp, md, rp),
         NEW rq, rq = IF IsPut(s[g + 1]) THEN ReplyTo(s[g + 1]) ELSE rp
  PROVE  Grammar(s, g + 1, cp, After(s[g + 1]), rq)
<1>1. Len(s) \in Nat /\ g + 1 \in 1 .. Len(s) /\ g + 1 # 0 /\ g < g + 1 /\ Len(s) \in 1 .. Len(s)
  OBVIOUS
<1>2. NextOf(s, g + 1) = After(s[g + 1])
  BY <1>1 DEF NextOf
<1>3. \A i \in 1 .. Len(s) : g + 1 < i => g < i
  BY <1>1
<1>4. CASE IsPut(s[g + 1])
  <2>1. cp \in Waiting /\ \A j \in 1 .. Len(s) : g + 1 < j => s[j].what = "chunk"
    BY <1>1, <1>4 DEF Grammar
  <2>2. \A j \in 1 .. Len(s) : g + 1 < j => ~IsPut(s[j])
    BY <2>1 DEF IsPut
  <2>3. IsPut(s[Len(s)]) => Len(s) = g + 1
    BY <1>1, <2>2
  <2>4. IsPut(s[Len(s)]) => rq = ReplyTo(s[Len(s)])
    BY <1>4, <2>3
  <2> QED BY <1>2, <2>1, <2>2, <2>4 DEF Grammar
<1>5. CASE ~IsPut(s[g + 1])
  <2>1. rq = rp
    BY <1>5
  <2> QED BY <1>2, <1>3, <2>1 DEF Grammar
<1> QED BY <1>4, <1>5

\* Only the first message is a head.
LEMMA HeadIsFirst ==
  ASSUME NEW s \in Seq(Records), NEW g, NEW md, NEW cp, NEW rp, Grammar(s, g, cp, md, rp)
  PROVE  /\ \A i \in 1 .. Len(s) : s[i].what = "head" <=> i = 1
         /\ g \in 0 .. Len(s) => (md = "head" <=> g = 0)
         /\ g \in 0 .. Len(s) /\ g < Len(s) => s[g + 1].what = md
         /\ cp # "head" => Len(s) > 0
<1>1. \A m : After(m) # "head"
  BY DEF After
<1>2. Len(s) \in Nat
  OBVIOUS
<1>3. ASSUME NEW i \in 1 .. Len(s) PROVE s[i].what = "head" <=> i = 1
  <2>1. s[i].what = NextOf(s, i - 1)
    BY DEF Grammar
  <2>2. i - 1 = 0 <=> i = 1
    OBVIOUS
  <2> QED BY <1>1, <2>1, <2>2 DEF NextOf
<1>4. md = NextOf(s, g)
  BY DEF Grammar
<1>5. g \in 0 .. Len(s) => (md = "head" <=> g = 0)
  BY <1>1, <1>4 DEF NextOf
<1>6. ASSUME g \in 0 .. Len(s), g < Len(s) PROVE s[g + 1].what = md
  <2>1. g + 1 \in 1 .. Len(s) /\ (g + 1) - 1 = g
    BY <1>2, <1>6
  <2>2. s[g + 1].what = NextOf(s, (g + 1) - 1)
    BY <2>1 DEF Grammar
  <2> QED BY <1>4, <2>1, <2>2
<1>7. ASSUME cp # "head" PROVE Len(s) > 0
  <2>1. CASE cp \in Waiting
    BY <2>1 DEF Grammar, Waiting
  <2>2. CASE cp \notin Waiting
    <3>1. cp = NextOf(s, Len(s))
      BY <2>2 DEF Grammar
    <3>2. Len(s) # 0
      BY <1>7, <3>1 DEF NextOf
    <3> QED BY <1>2, <3>2
  <2> QED BY <2>1, <2>2
<1> QED BY <1>3, <1>5, <1>6, <1>7

-----------------------------------------------------------------------------
(* The message that is being read. *)

LEMMA Current ==
  ASSUME NEW L, NEW e, NEW B, NEW s \in Seq(Records), Written(L, e, B, s), NEW g \in 0 .. Len(s), g < Len(s)
  PROVE  LET b == B[g + 1]
             m == s[g + 1]
         IN  /\ m \in Records /\ b \in Source(m.what) /\ b \in Bytes /\ Len(b) \in Nat /\ Len(b) > 0
             /\ m.bytes = Content(m.what, b)
             /\ e[g] \in Nat /\ e[g + 1] \in Nat /\ e[g + 1] = e[g] + Len(b)
             /\ e[Len(s)] \in Nat /\ e[g + 1] <= e[Len(s)]
             /\ \A k \in 1 .. Len(b) : b[k] = L[e[g] + k]
<1> DEFINE i == g + 1
<1>1. Len(s) \in Nat /\ i \in 1 .. Len(s) /\ i - 1 = g /\ i \in 0 .. Len(s) /\ Len(s) \in 0 .. Len(s)
  OBVIOUS
<1>2. /\ e[g] \in Nat /\ e[i] \in Nat /\ e[Len(s)] \in Nat
      /\ i < Len(s) => e[i] < e[Len(s)]
      /\ B[i] \in Source(s[i].what) /\ s[i].bytes = Content(s[i].what, B[i])
      /\ e[i] = e[i - 1] + Len(B[i])
      /\ \A k \in 1 .. Len(B[i]) : B[i][k] = L[e[i - 1] + k]
  BY <1>1 DEF Written
<1>3. s[i] \in Records /\ s[i].what \in {"head", "line", "chunk"}
  <2>1. s[i] \in Records
    BY <1>1
  <2> QED BY <2>1 DEF Records
<1>4. B[i] \in Bytes /\ Len(B[i]) \in Nat /\ Len(B[i]) > 0
  BY <1>2, <1>3, SourceBytes
<1>5. e[i] <= e[Len(s)]
  BY <1>1, <1>2
<1> HIDE DEF i
<1>6. e[i] = e[g] + Len(B[i]) /\ \A k \in 1 .. Len(B[i]) : B[i][k] = L[e[g] + k]
  BY <1>1, <1>2
<1> QED BY <1>1, <1>2, <1>3, <1>4, <1>5, <1>6 DEF i

\* Bytes that follow the messages read, as many as the next one has, are it.
LEMMA Whole ==
  ASSUME NEW L, NEW e, NEW B, NEW s \in Seq(Records), Written(L, e, B, s), NEW g \in 0 .. Len(s), g < Len(s),
         NEW a \in Bytes, Agrees(L, e[g], a)
  PROVE  /\ Len(a) = Len(B[g + 1]) => a = B[g + 1]
         /\ Len(a) <= Len(B[g + 1]) => \A k \in 1 .. Len(a) : a[k] = B[g + 1][k]
<1> DEFINE b == B[g + 1]
<1>1. b \in Bytes /\ Len(b) \in Nat /\ \A k \in 1 .. Len(b) : b[k] = L[e[g] + k]
  BY Current
<1>2. Len(a) \in Nat
  BY DEF Bytes
<1> HIDE DEF b
<1>3. Len(a) <= Len(b) => \A k \in 1 .. Len(a) : a[k] = b[k]
  BY <1>1, <1>2 DEF Agrees
<1>4. Len(a) = Len(b) => a = b
  BY <1>1, <1>2, <1>3, SameBytes
<1> QED BY <1>3, <1>4 DEF b

\* Bytes that are taken follow those that are held.
LEMMA Joined ==
  ASSUME NEW L, NEW x \in Nat, NEW a \in Bytes, NEW d \in Bytes, Agrees(L, x, a), Agrees(L, x + Len(a), d)
  PROVE  /\ a \o d \in Bytes /\ Len(a \o d) = Len(a) + Len(d) /\ Len(a) \in Nat /\ Len(d) \in Nat
         /\ Agrees(L, x, a \o d)
<1> DEFINE c == a \o d
<1>0. /\ \A k \in 1 .. Len(a) : a[k] = L[x + k]
      /\ \A k \in 1 .. Len(d) : d[k] = L[x + Len(a) + k]
  BY DEF Agrees
<1>1. /\ c \in Bytes /\ Len(c) = Len(a) + Len(d)
      /\ \A k \in 1 .. Len(a) : c[k] = a[k]
      /\ \A k \in 1 .. Len(d) : c[Len(a) + k] = d[k]
  BY JoinBytes
<1>2. Len(a) \in Nat /\ Len(d) \in Nat
  BY DEF Bytes
<1> HIDE DEF c
<1>3. ASSUME NEW k \in 1 .. Len(c) PROVE c[k] = L[x + k]
  <2>1. CASE k \in 1 .. Len(a)
    BY <1>0, <1>1, <2>1
  <2>2. CASE k - Len(a) \in 1 .. Len(d)
    <3>1. k = Len(a) + (k - Len(a)) /\ x + k = x + Len(a) + (k - Len(a))
      BY <1>1, <1>2
    <3>2. c[Len(a) + (k - Len(a))] = d[k - Len(a)] /\ d[k - Len(a)] = L[x + Len(a) + (k - Len(a))]
      BY <1>0, <1>1, <2>2
    <3> QED BY <3>1, <3>2
  <2>3. k \in 1 .. Len(a) \/ k - Len(a) \in 1 .. Len(d)
    BY <1>1, <1>2
  <2> QED BY <2>1, <2>2, <2>3
<1> QED BY <1>1, <1>2, <1>3 DEF Agrees, c

\* A read that takes bytes up to a part of the current message, or to its end.
LEMMA PlacedOn ==
  ASSUME NEW L, NEW e, NEW B, NEW p, NEW o, NEW s \in Seq(Records), NEW g, NEW a, NEW b, NEW w, NEW v, NEW r, NEW kd,
         Written(L, e, B, s), Placed(L, e, p, s, g, a, b, w, r, kd), o[Len(v)] = p[Len(w)],
         g < Len(s), NEW c \in Bytes, NEW d \in Bytes, o[0] = e[g] + Len(c) + Len(d),
         Agrees(L, e[g], c), Agrees(L, e[g] + Len(c), d)
  PROVE  /\ Len(c) < Len(B[g + 1]) => Placed(L, e, o, s, g, c, d, v, r, kd)
         /\ Len(c) = Len(B[g + 1]) => Placed(L, e, o, s, g + 1, <<>>, d, v, r, kd)
<1>1. /\ g \in 0 .. Len(s)
      /\ p[Len(w)] + Len(r) = e[Len(s)]
      /\ Len(s) > 0 => e[Len(s) - 1] <= p[Len(w)]
      /\ Len(s) > 0 /\ kd = "websocket" /\ s[Len(s)].what = "line" /\ r # <<>> => e[Len(s) - 1] = p[Len(w)]
      /\ \A k \in 1 .. Len(r) : r[k] = L[p[Len(w)] + k]
  BY DEF Placed
<1>2. /\ e[g] \in Nat /\ e[g + 1] \in Nat /\ e[g + 1] = e[g] + Len(B[g + 1]) /\ Len(B[g + 1]) \in Nat
  BY <1>1, Current
<1>3. Len(c) \in Nat /\ Len(d) \in Nat /\ Len(s) \in Nat
  BY DEF Bytes
<1>4. ASSUME Len(c) < Len(B[g + 1]) PROVE Placed(L, e, o, s, g, c, d, v, r, kd)
  <2>1. e[g] + Len(c) < e[g + 1]
    BY <1>2, <1>3, <1>4
  <2> QED BY <1>1, <2>1 DEF Placed, Agrees
<1>5. ASSUME Len(c) = Len(B[g + 1]) PROVE Placed(L, e, o, s, g + 1, <<>>, d, v, r, kd)
  <2>1. g + 1 \in 0 .. Len(s) /\ Len(<<>>) = 0
    BY <1>1, <1>3
  <2>2. e[g + 1] = e[g] + Len(c) /\ o[0] = e[g + 1] + 0 + Len(d) /\ e[g + 1] + 0 = e[g + 1]
    BY <1>2, <1>3, <1>5
  <2>3. g + 1 < Len(s) => e[g + 1] + 0 < e[(g + 1) + 1]
    <3> SUFFICES ASSUME g + 1 < Len(s) PROVE e[g + 1] < e[(g + 1) + 1]
      BY <2>2
    <3>1. (g + 1) + 1 \in 0 .. Len(s) /\ g + 1 < (g + 1) + 1
      BY <1>1, <1>3
    <3> QED BY <2>1, <3>1 DEF Written
  <2>4. \A k \in 1 .. Len(d) : d[k] = L[e[g + 1] + 0 + k]
    BY <2>2 DEF Agrees
  <2>5. \A k \in 1 .. 0 : <<>>[k] = L[e[g + 1] + k]
    OBVIOUS
  <2> QED BY <1>1, <2>1, <2>2, <2>3, <2>4, <2>5 DEF Placed
<1> QED BY <1>4, <1>5

\* A message is its kind and its bytes.
LEMMA AsMessage ==
  ASSUME NEW m \in Records
  PROVE  m = Message(m.what, m.bytes) /\ m \in Forms(m)
<1>1. m = Message(m.what, m.bytes)
  BY DEF Records, Message
<1> QED BY <1>1 DEF Forms

\* The command loop gets a line or a chunk as it was sent, and goes on as the
\* client does.
LEMMA LineRead ==
  ASSUME ShapeInv, Grammar(sent, Len(got), cpc, mode, reply), Len(got) < Len(sent),
         NEW m, m = sent[Len(got) + 1], m.what = "line",
         NEW x \in {m.bytes, Lossy(m.bytes)}, HandleLine(x)
  PROVE  /\ Grammar(sent, Len(got) + 1, cpc, mode', reply') /\ error' = error
         /\ Len(got') = Len(got) + 1 /\ \E f \in Forms(m) : got' = Append(got, f)
<1>0. sent \in Seq(Records) /\ got \in Seq(Records) /\ Len(got) \in 0 .. Len(sent)
  BY DEF ShapeInv
<1>1. m \in Records /\ m.bytes \in Bytes
  <2>1. Len(got) + 1 \in 1 .. Len(sent)
    BY <1>0
  <2>2. m \in Records
    BY <1>0, <2>1
  <2> QED BY <2>2 DEF Records
<1>2. x = <<"P">> <=> m.bytes = <<"P">>
  BY <1>1, LossyCommand
<1>3. x = <<"B">> <=> m.bytes = <<"B">>
  BY <1>1, LossyCommand
<1>4. <<"P">> # <<"B">>
  OBVIOUS
<1>5. mode' = After(m)
  BY <1>2 DEF HandleLine, After
<1>6. reply' = IF IsPut(m) THEN ReplyTo(m) ELSE reply
  <2>1. reply' = CASE x = <<"P">> -> "OK" [] x = <<"B">> -> "ERR" [] OTHER -> reply
    BY DEF HandleLine
  <2>2. CASE x = <<"P">>
    BY <1>2, <1>3, <1>4, <2>1, <2>2 DEF IsPut, ReplyTo
  <2>3. CASE x = <<"B">>
    BY <1>2, <1>3, <1>4, <2>1, <2>3 DEF IsPut, ReplyTo
  <2>4. CASE x # <<"P">> /\ x # <<"B">>
    BY <1>2, <1>3, <2>1, <2>4 DEF IsPut
  <2> QED BY <2>2, <2>3, <2>4
<1>7. Grammar(sent, Len(got) + 1, cpc, mode', reply')
  BY <1>0, <1>5, <1>6, GrammarRead
<1> DEFINE f == Message("line", x)
<1>8. f \in Forms(m)
  <2>1. CASE x = m.bytes
    BY <1>1, <2>1, AsMessage
  <2>2. CASE x = Lossy(m.bytes)
    BY <2>2 DEF Forms
  <2> QED BY <2>1, <2>2
<1>9. got' = Append(got, f) /\ error' = error
  BY DEF HandleLine
<1> HIDE DEF f
<1>10. Len(got') = Len(got) + 1
  BY <1>0, <1>9
<1> QED BY <1>7, <1>8, <1>9, <1>10

LEMMA ChunkRead ==
  ASSUME ShapeInv, Grammar(sent, Len(got), cpc, mode, reply), Len(got) < Len(sent),
         NEW m, m = sent[Len(got) + 1], m.what = "chunk", HandleChunk(m.bytes)
  PROVE  /\ Grammar(sent, Len(got) + 1, cpc, mode', reply') /\ error' = error
         /\ Len(got') = Len(got) + 1 /\ \E f \in Forms(m) : got' = Append(got, f)
<1>0. sent \in Seq(Records) /\ got \in Seq(Records) /\ Len(got) \in 0 .. Len(sent)
  BY DEF ShapeInv
<1>1. m \in Records
  <2>1. Len(got) + 1 \in 1 .. Len(sent)
    BY <1>0
  <2> QED BY <1>0, <2>1
<1>2. mode' = After(m)
  BY DEF HandleChunk, After
<1>3. ~IsPut(m) /\ reply' = reply /\ error' = error
  BY DEF HandleChunk, IsPut
<1>4. Grammar(sent, Len(got) + 1, cpc, mode', reply')
  BY <1>0, <1>2, <1>3, GrammarRead
<1>5. m \in Forms(m) /\ m = Message("chunk", m.bytes)
  BY <1>1, AsMessage
<1>6. got' = Append(got, m)
  BY <1>5 DEF HandleChunk
<1>7. Len(got') = Len(got) + 1
  BY <1>0, <1>1, <1>6
<1> QED BY <1>3, <1>4, <1>5, <1>6, <1>7

-----------------------------------------------------------------------------
(* The inductive invariant, and what a read of the server may do. *)

Parts(L, e, B, p) ==
  /\ Written(L, e, B, sent) /\ InFlight(L, e, p, wire, sent, kind)
  /\ Placed(L, e, p, sent, Len(got), partial, buffer, wire, rest, kind)

Live == Grammar(sent, Len(got), cpc, mode, reply) /\ \E L, e, B, p : Parts(L, e, B, p)

\* A line was cut by the end of file: nothing more will be read.
CutOff ==
  /\ LineCut /\ mode \in {"line", "chunk"}
  /\ wire = <<>> /\ buffer = <<>> /\ partial = <<>>

\* A client that is out of step may be anywhere.
ReadInv ==
  /\ mode # "ended" /\ InStep => (Live \/ CutOff) /\ error = "none"
  /\ BlameIsDeserved /\ NothingIsLost

Waits == got' = got /\ error' = error /\ Live'
Receives ==
  /\ Len(got) < Len(sent) /\ (\E f \in Forms(sent[Len(got) + 1]) : got' = Append(got, f))
  /\ error' = error /\ Live'
Ends == mode' = "ended" /\ got' = got /\ BlameIsDeserved' /\ NothingIsLost'
TakesCut == error' = error /\ CutOff'

\* Where a reader is.
LEMMA Position ==
  ASSUME ShapeInv, NEW L, NEW e, NEW B, NEW p, Parts(L, e, B, p)
  PROVE  /\ sent \in Seq(Records) /\ Len(sent) \in Nat /\ wire \in Seq(WireUnits) /\ Len(wire) \in Nat
         /\ partial \in Bytes /\ Len(partial) \in Nat /\ buffer \in Bytes /\ Len(buffer) \in Nat
         /\ rest \in Bytes /\ Len(rest) \in Nat
         /\ got \in Seq(Records) /\ Len(got) \in 0 .. Len(sent) /\ e[Len(got)] \in Nat /\ e[Len(sent)] \in Nat
         /\ \A k \in 0 .. Len(wire) : p[k] \in Nat /\ p[0] <= p[k] /\ p[k] <= e[Len(sent)]
         /\ p[0] = e[Len(got)] + Len(partial) + Len(buffer)
         /\ p[Len(wire)] + Len(rest) = e[Len(sent)]
         /\ e[Len(got)] < e[Len(sent)] => Len(got) < Len(sent)
         /\ Len(got) < Len(sent) => e[Len(got)] + Len(partial) < e[Len(got) + 1] /\ Len(partial) < Len(B[Len(got) + 1])
<1>1. /\ sent \in Seq(Records) /\ Len(sent) \in Nat /\ wire \in Seq(WireUnits) /\ Len(wire) \in Nat
      /\ partial \in Bytes /\ Len(partial) \in Nat /\ buffer \in Bytes /\ Len(buffer) \in Nat
      /\ rest \in Bytes /\ Len(rest) \in Nat /\ got \in Seq(Records)
  BY DEF ShapeInv, Bytes
<1>2. /\ Len(got) \in 0 .. Len(sent) /\ p[0] = e[Len(got)] + Len(partial) + Len(buffer)
      /\ p[Len(wire)] + Len(rest) = e[Len(sent)]
      /\ Len(got) < Len(sent) => e[Len(got)] + Len(partial) < e[Len(got) + 1]
  BY DEF Parts, Placed
<1>3. /\ \A i \in 0 .. Len(sent) : e[i] \in Nat
  BY DEF Parts, Written
<1>4. e[Len(got)] \in Nat /\ e[Len(sent)] \in Nat
  BY <1>1, <1>2, <1>3
<1>5. e[Len(got)] < e[Len(sent)] => Len(got) < Len(sent)
  BY <1>1, <1>2, <1>4
<1>6. ASSUME NEW k \in 0 .. Len(wire) PROVE p[k] \in Nat /\ p[0] <= p[k] /\ p[k] <= e[Len(sent)]
  <2>1. 0 \in 0 .. Len(wire) /\ Len(wire) \in 0 .. Len(wire) /\ 0 <= k /\ k <= Len(wire)
    BY <1>1
  <2>2. p[k] \in Nat /\ p[Len(wire)] \in Nat /\ p[0] <= p[k] /\ p[k] <= p[Len(wire)] /\ p[Len(wire)] <= e[Len(sent)]
    BY <2>1 DEF Parts, InFlight
  <2> QED BY <1>4, <2>2
<1>7. ASSUME Len(got) < Len(sent) PROVE Len(partial) < Len(B[Len(got) + 1])
  <2>1. e[Len(got) + 1] = e[Len(got)] + Len(B[Len(got) + 1]) /\ Len(B[Len(got) + 1]) \in Nat
    BY <1>1, <1>2, <1>7, Current DEF Parts
  <2> QED BY <1>1, <1>2, <1>4, <1>7, <2>1
<1> QED BY <1>1, <1>2, <1>4, <1>5, <1>6, <1>7

\* The first unit in flight, and what the reader holds with it.
Data(u) == u[2]

LEMMA FirstUnit ==
  ASSUME ShapeInv, NEW L, NEW e, NEW B, NEW p, Parts(L, e, B, p), wire # <<>>, Len(buffer) = 0,
         NEW u, u = Head(wire), NEW d, d = Data(u)
  PROVE  /\ Unit(L, e, p[0], p[1], u, sent, kind) /\ u \in WireUnits /\ d \in Bytes /\ Len(d) \in Nat
         /\ p[0] \in Nat /\ p[1] \in Nat /\ p[1] <= e[Len(sent)] /\ p[0] = e[Len(got)] + Len(partial)
         /\ p[1] = e[Len(got)] + Len(partial \o d)
         /\ partial \o d \in Bytes /\ Len(partial \o d) = Len(partial) + Len(d)
         /\ Agrees(L, e[Len(got)], partial \o d)
         /\ Ahead(L, e, Tail(wire), sent, kind, p[1], p[Len(wire)])
<1>1. /\ wire \in Seq(WireUnits) /\ Len(wire) \in Nat /\ partial \in Bytes /\ Len(partial) \in Nat /\ sent \in Seq(Records)
      /\ e[Len(got)] \in Nat /\ p[0] = e[Len(got)] + Len(partial) + Len(buffer) /\ e[Len(sent)] \in Nat
      /\ \A k \in 0 .. Len(wire) : p[k] \in Nat /\ p[k] <= e[Len(sent)]
  BY Position
<1>2. /\ 1 \in 0 .. Len(wire) /\ Tail(wire) = SubSeq(wire, 1 + 1, Len(wire)) /\ Len(wire) >= 1
      /\ u = wire[1] /\ u \in WireUnits /\ d \in Bytes
  BY <1>1, DropOne DEF Data
<1>3. InFlight(L, e, p, wire, sent, kind)
  BY DEF Parts
<1>4. Unit(L, e, p[0], p[1], u, sent, kind)
  <2>1. 1 \in 1 .. Len(wire) /\ 1 - 1 = 0
    BY <1>2
  <2>2. Unit(L, e, p[1 - 1], p[1], wire[1], sent, kind)
    BY <1>3, <2>1 DEF InFlight
  <2> QED BY <1>2, <2>1, <2>2
<1>5. Ahead(L, e, Tail(wire), sent, kind, p[1], p[Len(wire)])
  BY <1>1, <1>2, <1>3, UnitsDropped
<1>6. PICK x \in Nat : x = e[Len(got)]
  BY <1>1
<1>7. p[0] = x + Len(partial) /\ p[0] \in Nat /\ p[1] \in Nat /\ p[1] <= e[Len(sent)]
  BY <1>1, <1>2, <1>6
<1>8. p[1] = p[0] + Len(d) /\ Agrees(L, p[0], d)
  BY <1>4 DEF Unit, Data, Agrees
<1>9. Agrees(L, x, partial)
  BY <1>6 DEF Parts, Placed, Agrees
<1>10. Agrees(L, x + Len(partial), d)
  BY <1>7, <1>8
<1>11. /\ partial \o d \in Bytes /\ Len(partial \o d) = Len(partial) + Len(d) /\ Len(d) \in Nat
       /\ Agrees(L, x, partial \o d)
  BY <1>1, <1>2, <1>9, <1>10, Joined
<1>12. p[1] = x + Len(partial \o d)
  BY <1>1, <1>7, <1>8, <1>11
<1> QED BY <1>2, <1>4, <1>5, <1>6, <1>7, <1>11, <1>12

\* After a read, the reader holds a part of the current message ...
LEMMA StillLive ==
  ASSUME ShapeInv, ShapeInv', NEW L, NEW e, NEW B, NEW p, Parts(L, e, B, p), NEW o,
         Grammar(sent, Len(got), cpc, mode, reply), UNCHANGED <<kind, client, mode, reply, got, error>>,
         InFlight(L, e, o, wire', sent, kind), o[Len(wire')] = p[Len(wire)],
         Len(got) < Len(sent), Len(partial') < Len(B[Len(got) + 1]),
         o[0] = e[Len(got)] + Len(partial') + Len(buffer'),
         Agrees(L, e[Len(got)], partial'), Agrees(L, e[Len(got)] + Len(partial'), buffer')
  PROVE  Waits
<1>1. partial' \in Bytes /\ buffer' \in Bytes /\ sent \in Seq(Records)
  BY DEF ShapeInv
<1>2. Placed(L, e, o, sent, Len(got), partial', buffer', wire', rest, kind)
  BY <1>1, PlacedOn DEF Parts
<1>3. kind' = kind /\ sent' = sent /\ cpc' = cpc /\ rest' = rest /\ mode' = mode /\ reply' = reply /\ got' = got
  BY DEF client
<1>4. Parts(L, e, B, o)'
  BY <1>2, <1>3 DEF Parts
<1>5. Live'
  BY <1>3, <1>4 DEF Live
<1> QED BY <1>5 DEF Waits

\* ... or it has got the message, c, and holds nothing of the next.
LEMMA LiveAfter ==
  ASSUME ShapeInv, ShapeInv', NEW L, NEW e, NEW B, NEW p, Parts(L, e, B, p), NEW o,
         UNCHANGED <<kind, client>>, Len(got) < Len(sent),
         Grammar(sent, Len(got) + 1, cpc, mode', reply'), error' = error,
         Len(got') = Len(got) + 1, \E f \in Forms(sent[Len(got) + 1]) : got' = Append(got, f),
         InFlight(L, e, o, wire', sent, kind), o[Len(wire')] = p[Len(wire)],
         NEW c \in Bytes, Len(c) = Len(B[Len(got) + 1]), partial' = <<>>,
         o[0] = e[Len(got)] + Len(c) + Len(buffer'),
         Agrees(L, e[Len(got)], c), Agrees(L, e[Len(got)] + Len(c), buffer')
  PROVE  Receives
<1>1. buffer' \in Bytes /\ sent \in Seq(Records)
  BY DEF ShapeInv
<1>2. Placed(L, e, o, sent, Len(got) + 1, <<>>, buffer', wire', rest, kind)
  BY <1>1, PlacedOn DEF Parts
<1>3. kind' = kind /\ sent' = sent /\ cpc' = cpc /\ rest' = rest
  BY DEF client
<1>4. Parts(L, e, B, o)'
  BY <1>2, <1>3 DEF Parts
<1>5. Live'
  BY <1>3, <1>4 DEF Live
<1> QED BY <1>5 DEF Receives

-----------------------------------------------------------------------------
(* The reads of the server. *)

LEMMA AgreesEmpty ==
  ASSUME NEW L, NEW x, NEW a, Len(a) = 0
  PROVE  Agrees(L, x, a)
BY DEF Agrees

\* A message that may be refused.
Refusable(m) ==
  \/ m.what = "head" /\ Len(m.bytes) > MAX_HEAD
  \/ m.what = "line" /\ (~Utf8(m.bytes) \/
        \E b \in Lines : LineOf(b) = m.bytes /\ Len(b) > MAX_LINE_LENGTH)

LEMMA Refused ==
  ASSUME UNCHANGED sent, Len(got) < Len(sent), Refusable(sent[Len(got) + 1]), Fail("InvalidData")
  PROVE  Ends
<1>1. got' = got /\ mode' = "ended" /\ error' = "InvalidData"
  BY DEF Fail
<1> QED BY <1>1 DEF Ends, BlameIsDeserved, NothingIsLost, Refusable

\* While the head is read, the next unit is one byte of it.
LEMMA HeadByte ==
  ASSUME ShapeInv, NEW L, NEW e, NEW B, NEW p, Parts(L, e, B, p), Grammar(sent, Len(got), cpc, mode, reply),
         mode = "head", wire # <<>>
  PROVE  /\ Len(got) = 0 /\ Len(got) < Len(sent) /\ sent[Len(got) + 1].what = "head"
         /\ Len(Data(Head(wire))) = 1
<1> DEFINE u == Head(wire)
           d == Data(u)
<1>1. Len(buffer) = 0
  BY DEF ShapeInv
<1>2. /\ Unit(L, e, p[0], p[1], u, sent, kind) /\ Len(d) \in Nat
      /\ p[0] \in Nat /\ p[1] \in Nat /\ p[0] = e[Len(got)] + Len(partial)
  BY <1>1, FirstUnit
<1>3. /\ sent \in Seq(Records) /\ Len(sent) \in Nat /\ Len(got) \in 0 .. Len(sent)
      /\ Len(got) < Len(sent) => e[Len(got)] + Len(partial) < e[Len(got) + 1]
  BY Position
<1>4. Len(got) = 0
  BY <1>3, HeadIsFirst
<1>5. Len(got) < Len(sent) /\ Len(sent) >= 1
  BY <1>2, <1>3, <1>4 DEF Unit
<1>6. sent[Len(got) + 1].what = "head"
  BY <1>3, <1>5, HeadIsFirst
<1>7. p[0] < e[1]
  BY <1>2, <1>3, <1>4, <1>5
<1>8. \A i \in 0 .. Len(sent) : e[i] \in Nat
  BY DEF Parts, Written
<1>9. ASSUME NEW i \in 2 .. Len(sent), Frame(e, p[0], p[1], u, sent, i) PROVE FALSE
  <2>1. e[i - 1] <= p[0]
    BY <1>9 DEF Frame
  <2>2. i - 1 \in 0 .. Len(sent) /\ 1 \in 0 .. Len(sent) /\ (1 = i - 1 \/ 1 < i - 1)
    BY <1>3
  <2>3. e[1] <= e[i - 1] /\ e[1] \in Nat /\ e[i - 1] \in Nat
    BY <1>8, <2>2 DEF Parts, Written
  <2> QED BY <1>2, <1>7, <2>1, <2>3
<1>10. ~(e[1] <= p[0])
  <2>1. e[1] \in Nat
    BY <1>5, <1>8
  <2> QED BY <1>2, <1>7, <2>1
<1>11. p[1] = p[0] + Len(d) /\ p[1] = p[0] + 1
  BY <1>2, <1>9, <1>10 DEF Unit, Data
<1>12. Len(d) = 1
  <2>1. PICK x \in Nat, l \in Nat : x = p[0] /\ l = Len(d)
    BY <1>2
  <2>2. x + l = x + 1
    BY <1>11, <2>1
  <2>3. l = 1
    BY <2>2
  <2> QED BY <2>1, <2>3, Zenon
<1> QED BY <1>4, <1>5, <1>6, <1>12

LEMMA HeadStep ==
  ASSUME ShapeInv, ShapeInv', Live, ReadHead
  PROVE  Waits \/ Receives \/ Ends
<1>1. PICK L, e, B, p : Parts(L, e, B, p)
  BY DEF Live
<1>2. Grammar(sent, Len(got), cpc, mode, reply)
  BY DEF Live
<1>3. /\ mode = "head" /\ wire # <<>> /\ wire' = Tail(wire) /\ UNCHANGED <<kind, client>> /\ buffer' = buffer /\ sent' = sent
  BY DEF ReadHead, client
<1>4. Len(buffer) = 0
  BY <1>3 DEF ShapeInv
<1>5. PICK d : d = Data(Head(wire))
  OBVIOUS
<1>6. /\ Len(got) = 0 /\ Len(got) < Len(sent) /\ sent[Len(got) + 1].what = "head" /\ Len(d) = 1
  BY <1>1, <1>2, <1>3, <1>5, HeadByte
<1> DEFINE c == partial \o d
           b == B[Len(got) + 1]
           m == sent[Len(got) + 1]
<1>7. /\ p[1] = e[Len(got)] + Len(c) /\ c \in Bytes /\ Len(c) = Len(partial) + Len(d)
      /\ Agrees(L, e[Len(got)], c) /\ Ahead(L, e, wire', sent, kind, p[1], p[Len(wire)])
  BY <1>1, <1>3, <1>4, <1>5, FirstUnit
<1>8. PICK o : InFlight(L, e, o, wire', sent, kind) /\ o[0] = p[1] /\ o[Len(wire')] = p[Len(wire)]
  BY <1>7 DEF Ahead
<1>9. /\ Len(partial) \in Nat /\ Len(partial) < Len(b) /\ sent \in Seq(Records) /\ Len(got) \in 0 .. Len(sent)
      /\ e[Len(got)] \in Nat /\ got \in Seq(Records)
  BY <1>1, <1>6, Position
<1>10. /\ m \in Records /\ b \in Source(m.what) /\ Len(b) \in Nat /\ m.bytes = Content(m.what, b)
  BY <1>1, <1>6, <1>9, Current DEF Parts
<1>11. b \in Heads /\ m.bytes = b /\ \A i \in 1 .. Len(b) : b[i] = "E" <=> i = Len(b)
  BY <1>6, <1>10, ClientAssumption DEF Source, Content
<1>12. Written(L, e, B, sent)
  BY <1>1 DEF Parts
<1>13. /\ Len(c) = Len(b) => c = b
       /\ Len(c) <= Len(b) => \A k \in 1 .. Len(c) : c[k] = b[k]
  <2> HIDE DEF c
  <2>1. c \in Bytes /\ Agrees(L, e[Len(got)], c) /\ sent \in Seq(Records) /\ Len(got) \in 0 .. Len(sent) /\ Len(got) < Len(sent)
    BY <1>6, <1>7, <1>9
  <2> QED BY <1>12, <2>1, Whole
<1>14. c = partial \o Head(wire)[2]
  BY <1>5 DEF Data
<1>15. /\ Last(c) = "E" => /\ got' = Append(got, Message("head", c))
                           /\ mode' = "line" /\ partial' = <<>>
                           /\ error' = error /\ reply' = reply
       /\ Last(c) # "E" => /\ partial' = c
                           /\ Len(c) > MAX_HEAD => Fail("InvalidData")
                           /\ ~(Len(c) > MAX_HEAD) => UNCHANGED <<mode, error, got, reply>>
  BY <1>14 DEF ReadHead
<1> HIDE DEF c, b, m
<1>16. Len(c) <= Len(b) /\ Len(c) \in Nat /\ Len(c) >= 1
  BY <1>6, <1>7, <1>9, <1>10
<1>17. Last(c) = "E" <=> Len(c) = Len(b)
  <2>1. Last(c) = c[Len(c)] /\ Len(c) \in 1 .. Len(c) /\ Len(c) \in 1 .. Len(b)
    BY <1>10, <1>16 DEF Last
  <2> QED BY <1>11, <1>13, <1>16, <2>1
<1>18. o[0] = e[Len(got)] + Len(c) + Len(buffer')
  <2>1. Len(buffer') = 0 /\ o[0] = e[Len(got)] + Len(c)
    BY <1>3, <1>4, <1>7, <1>8
  <2>2. e[Len(got)] \in Nat /\ Len(c) \in Nat
    BY <1>9, <1>16
  <2> QED BY <2>1, <2>2
<1>19. Agrees(L, e[Len(got)] + Len(c), buffer')
  BY <1>3, <1>4, AgreesEmpty
<1>20. CASE Last(c) = "E"
  <2>1. c = b /\ Len(c) = Len(b)
    BY <1>13, <1>17, <1>20
  <2>2. m = Message("head", c) /\ m \in Forms(m)
    BY <1>6, <1>10, <1>11, <2>1, AsMessage DEF m
  <2>3. got' = Append(got, m) /\ mode' = "line" /\ reply' = reply /\ partial' = <<>> /\ error' = error
    BY <1>15, <1>20, <2>2
  <2>4. After(m) = "line" /\ ~IsPut(m)
    BY <1>6 DEF After, IsPut, m
  <2>5. Grammar(sent, Len(got) + 1, cpc, mode', reply')
    BY <1>2, <1>6, <1>9, <2>3, <2>4, GrammarRead DEF m
  <2>6. Len(got') = Len(got) + 1 /\ \E f \in Forms(m) : got' = Append(got, f)
    BY <1>9, <1>10, <2>2, <2>3
  <2>7. Receives
    BY <1>1, <1>3, <1>6, <1>7, <1>8, <1>18, <1>19, <2>1, <2>3, <2>5, <2>6, LiveAfter DEF b, m
  <2> QED BY <2>7
<1>21. CASE Last(c) # "E" /\ ~(Len(c) > MAX_HEAD)
  <2>1. Len(c) < Len(b) /\ partial' = c /\ UNCHANGED <<mode, error, got, reply>>
    BY <1>10, <1>15, <1>16, <1>17, <1>21
  <2>2. UNCHANGED <<kind, client, mode, reply, got, error>>
    BY <1>3, <2>1
  <2>3. Waits
    BY <1>1, <1>2, <1>6, <1>7, <1>8, <1>18, <1>19, <2>1, <2>2, StillLive DEF b
  <2> QED BY <2>3
<1>22. CASE Last(c) # "E" /\ Len(c) > MAX_HEAD
  <2>1. Fail("InvalidData") /\ Len(b) > MAX_HEAD
    BY <1>10, <1>15, <1>16, <1>22, SizesAssumption
  <2>2. Refusable(m)
    BY <1>6, <1>11, <2>1 DEF Refusable, m
  <2> QED BY <1>3, <1>6, <2>1, <2>2, Refused DEF m
<1> QED BY <1>20, <1>21, <1>22

\* BufReader refills its buffer with what follows.
LEMMA FillStep ==
  ASSUME ShapeInv, ShapeInv', Live, Fill
  PROVE  Waits
<1>1. PICK L, e, B, p : Parts(L, e, B, p)
  BY DEF Live
<1>2. Grammar(sent, Len(got), cpc, mode, reply)
  BY DEF Live
<1>3. PICK n : n = IF Len(wire) < BufSize THEN Len(wire) ELSE BufSize
  OBVIOUS
<1>4. /\ kind = "raw" /\ buffer = <<>> /\ wire # <<>> /\ UNCHANGED <<kind, client, mode, reply, got, error>>
      /\ partial' = partial /\ buffer' = [i \in 1 .. n |-> wire[i][2][1]]
      /\ wire' = SubSeq(wire, n + 1, Len(wire))
  BY <1>3 DEF Fill
<1>5. /\ sent \in Seq(Records) /\ wire \in Seq(WireUnits) /\ Len(wire) \in Nat /\ Len(partial) \in Nat
      /\ e[Len(got)] \in Nat /\ e[Len(sent)] \in Nat /\ p[0] = e[Len(got)] + Len(partial) + Len(buffer)
      /\ \A k \in 0 .. Len(wire) : p[k] \in Nat /\ p[k] <= e[Len(sent)]
      /\ e[Len(got)] < e[Len(sent)] => Len(got) < Len(sent)
      /\ Len(got) < Len(sent) => Len(partial) < Len(B[Len(got) + 1])
  BY <1>1, Position
<1>6. Len(wire) >= 1 /\ n \in 1 .. Len(wire) /\ n \in 0 .. Len(wire)
  BY <1>3, <1>4, <1>5, SizesAssumption
<1>7. InFlight(L, e, p, wire, sent, kind)
  BY <1>1 DEF Parts
<1>8. Ahead(L, e, wire', sent, kind, p[n], p[Len(wire)])
  BY <1>4, <1>5, <1>6, <1>7, UnitsDropped
<1>9. PICK o : InFlight(L, e, o, wire', sent, kind) /\ o[0] = p[n] /\ o[Len(wire')] = p[Len(wire)]
  BY <1>8 DEF Ahead
<1>10. PICK x \in Nat : x = e[Len(got)]
  BY <1>5
<1>11. p[0] = x + Len(partial)
  <2>1. Len(buffer) = 0
    BY <1>4
  <2> QED BY <1>5, <1>10, <2>1
<1>12. \A k \in 0 .. Len(wire) : p[k] = p[0] + k
  BY <1>4, <1>7 DEF InFlight
<1>13. Len(got) < Len(sent)
  <2>1. p[n] = x + Len(partial) + n /\ p[n] <= e[Len(sent)]
    BY <1>5, <1>6, <1>11, <1>12
  <2> QED BY <1>5, <1>6, <1>10, <2>1
<1>14. Len(buffer') = n /\ \A k \in 1 .. n : buffer'[k] = wire[k][2][1]
  BY <1>4, <1>6
<1>15. ASSUME NEW k \in 1 .. n PROVE buffer'[k] = L[x + Len(partial) + k]
  <2>1. k \in 1 .. Len(wire) /\ k \in 0 .. Len(wire) /\ k - 1 \in 0 .. Len(wire)
    BY <1>5, <1>6
  <2>2. Unit(L, e, p[k - 1], p[k], wire[k], sent, kind)
    BY <1>7, <2>1 DEF InFlight
  <2>3. p[k - 1] = x + Len(partial) + (k - 1) /\ p[k - 1] + 1 = x + Len(partial) + k
    <3>1. p[k - 1] = p[0] + (k - 1)
      BY <1>12, <2>1
    <3>2. Len(partial) \in Nat
      BY <1>5
    <3> QED BY <1>11, <3>1, <3>2
  <2>4. Len(wire[k][2]) = 1
    BY <1>4, <2>1 DEF ShapeInv
  <2>5. wire[k][2][1] = L[p[k - 1] + 1]
    BY <2>2, <2>4 DEF Unit
  <2> QED BY <1>14, <2>3, <2>5
<1>16. Agrees(L, x + Len(partial'), buffer')
  BY <1>4, <1>14, <1>15 DEF Agrees
<1>17. Agrees(L, x, partial')
  BY <1>1, <1>4, <1>10 DEF Parts, Placed, Agrees
<1>18. o[0] = x + Len(partial') + Len(buffer')
  BY <1>4, <1>6, <1>9, <1>11, <1>12, <1>14
<1>19. Len(partial') < Len(B[Len(got) + 1])
  BY <1>4, <1>5, <1>13
<1> QED BY <1>1, <1>2, <1>4, <1>9, <1>10, <1>13, <1>16, <1>17, <1>18, <1>19, StillLive

\* Bytes that are split.
LEMMA SplitBytes ==
  ASSUME NEW L, NEW y \in Nat, NEW b \in Bytes, Agrees(L, y, b), NEW t \in 0 .. Len(b)
  PROVE  /\ SubSeq(b, 1, t) \in Bytes /\ Len(SubSeq(b, 1, t)) = t /\ Agrees(L, y, SubSeq(b, 1, t))
         /\ SubSeq(b, t + 1, Len(b)) \in Bytes /\ Len(SubSeq(b, t + 1, Len(b))) = Len(b) - t
         /\ Agrees(L, y + t, SubSeq(b, t + 1, Len(b)))
<1> DEFINE c == SubSeq(b, 1, t)
           d == SubSeq(b, t + 1, Len(b))
<1>0. Len(b) \in Nat /\ t \in Nat /\ t <= Len(b) /\ \A k \in 1 .. Len(b) : b[k] = L[y + k]
  BY DEF Bytes, Agrees
<1>1. c \in Bytes /\ Len(c) = t + 1 - 1 /\ \A i \in 1 .. t + 1 - 1 : c[i] = b[1 + i - 1]
  <2>1. 1 \in 1 .. Len(b) + 1 /\ 1 <= t + 1
    BY <1>0
  <2> QED BY <2>1, PartBytes
<1>2. d \in Bytes /\ Len(d) = Len(b) + 1 - (t + 1) /\ \A i \in 1 .. Len(b) + 1 - (t + 1) : d[i] = b[t + 1 + i - 1]
  <2>1. t + 1 \in 1 .. Len(b) + 1 /\ Len(b) \in 0 .. Len(b) /\ t + 1 <= Len(b) + 1
    BY <1>0
  <2> QED BY <2>1, PartBytes
<1> HIDE DEF c, d
<1>3. Len(c) = t /\ Len(d) = Len(b) - t
  BY <1>0, <1>1, <1>2
<1>4. ASSUME NEW k \in 1 .. Len(c) PROVE c[k] = L[y + k]
  <2>1. c[k] = b[k] /\ k \in 1 .. Len(b)
    BY <1>0, <1>1, <1>3
  <2> QED BY <1>0, <2>1
<1>5. ASSUME NEW k \in 1 .. Len(d) PROVE d[k] = L[y + t + k]
  <2>1. d[k] = b[t + k] /\ t + k \in 1 .. Len(b) /\ y + t + k = y + (t + k)
    <3>1. k \in 1 .. Len(b) + 1 - (t + 1) /\ t + 1 + k - 1 = t + k
      BY <1>0, <1>3
    <3> QED BY <1>0, <1>2, <1>3, <3>1
  <2> QED BY <1>0, <2>1
<1> QED BY <1>1, <1>2, <1>3, <1>4, <1>5 DEF Agrees, c, d

\* A reader with bytes in its buffer reads a message.
LEMMA InBuffer ==
  ASSUME ShapeInv, NEW L, NEW e, NEW B, NEW p, Parts(L, e, B, p), Grammar(sent, Len(got), cpc, mode, reply),
         buffer # <<>>
  PROVE  /\ Len(got) < Len(sent) /\ Len(buffer) > 0 /\ sent[Len(got) + 1].what = mode
         /\ Agrees(L, e[Len(got)], partial) /\ Agrees(L, e[Len(got)] + Len(partial), buffer)
<1>1. /\ sent \in Seq(Records) /\ Len(got) \in 0 .. Len(sent) /\ Len(wire) \in Nat
      /\ Len(partial) \in Nat /\ Len(buffer) \in Nat /\ buffer \in Bytes
      /\ e[Len(got)] \in Nat /\ e[Len(sent)] \in Nat /\ p[0] = e[Len(got)] + Len(partial) + Len(buffer)
      /\ \A k \in 0 .. Len(wire) : p[k] \in Nat /\ p[k] <= e[Len(sent)]
      /\ e[Len(got)] < e[Len(sent)] => Len(got) < Len(sent)
  BY Position
<1>2. Len(buffer) > 0
  BY <1>1 DEF Bytes
<1>3. p[0] <= e[Len(sent)]
  BY <1>1
<1>4. Len(got) < Len(sent)
  BY <1>1, <1>2, <1>3
<1>5. sent[Len(got) + 1].what = mode
  BY <1>1, <1>4, HeadIsFirst
<1> QED BY <1>2, <1>4, <1>5 DEF Parts, Placed, Agrees

LEMMA LineStep ==
  ASSUME ShapeInv, ShapeInv', Live, ReadLine
  PROVE  Waits \/ Receives \/ Ends
<1>1. PICK L, e, B, p : Parts(L, e, B, p)
  BY DEF Live
<1>2. Grammar(sent, Len(got), cpc, mode, reply)
  BY DEF Live
<1>3. /\ mode = "line" /\ buffer # <<>> /\ UNCHANGED <<kind, client>> /\ wire' = wire /\ sent' = sent
  BY DEF ReadLine, client
<1>4. /\ Len(got) < Len(sent) /\ sent[Len(got) + 1].what = "line" /\ Len(buffer) > 0
      /\ Agrees(L, e[Len(got)], partial) /\ Agrees(L, e[Len(got)] + Len(partial), buffer)
  BY <1>1, <1>2, <1>3, InBuffer
<1> DEFINE b == B[Len(got) + 1]
           m == sent[Len(got) + 1]
<1>5. /\ sent \in Seq(Records) /\ got \in Seq(Records) /\ Len(got) \in 0 .. Len(sent)
      /\ partial \in Bytes /\ Len(partial) \in Nat /\ buffer \in Bytes /\ Len(buffer) \in Nat
      /\ e[Len(got)] \in Nat /\ p[0] = e[Len(got)] + Len(partial) + Len(buffer)
      /\ Len(partial) < Len(b)
  BY <1>1, <1>4, Position
<1>6. Written(L, e, B, sent) /\ InFlight(L, e, p, wire, sent, kind)
  BY <1>1 DEF Parts
<1>7. /\ m \in Records /\ b \in Source(m.what) /\ b \in Bytes /\ Len(b) \in Nat /\ m.bytes = Content(m.what, b)
      /\ \A k \in 1 .. Len(b) : b[k] = L[e[Len(got)] + k]
  BY <1>4, <1>5, <1>6, Current
<1>8. b \in Lines /\ m.bytes = LineOf(b) /\ \A i \in 1 .. Len(b) : b[i] = "LF" <=> i = Len(b)
  BY <1>4, <1>7, ClientAssumption DEF Source, Content
<1>9. PICK t : t = Taken(buffer)
  OBVIOUS
<1>10. /\ t \in 1 .. Len(buffer) /\ Len(partial) + t <= MAX_LINE_LENGTH + 1
       /\ \A j \in 1 .. t - 1 : buffer[j] # "LF"
  BY <1>3, <1>9, TakenBytes
<1>11. PICK x \in Nat : x = e[Len(got)]
  BY <1>5
<1> DEFINE d == SubSeq(buffer, 1, t)
           c == partial \o d
<1>12. /\ d \in Bytes /\ Len(d) = t /\ Agrees(L, x + Len(partial), d)
       /\ buffer' = SubSeq(buffer, t + 1, Len(buffer)) /\ Len(buffer') = Len(buffer) - t
       /\ Agrees(L, x + Len(partial) + t, buffer')
  <2>1. buffer' = SubSeq(buffer, t + 1, Len(buffer))
    BY <1>9 DEF ReadLine
  <2>2. t \in 0 .. Len(buffer) /\ x + Len(partial) \in Nat /\ Agrees(L, x + Len(partial), buffer)
    BY <1>4, <1>5, <1>10, <1>11
  <2> QED BY <1>5, <2>1, <2>2, SplitBytes
<1>13. /\ IF Last(c) = "LF" \/ Len(c) = MAX_LINE_LENGTH + 1
          THEN FinishLine(c)
          ELSE partial' = c /\ UNCHANGED <<mode, error, got, reply>>
  BY <1>9 DEF ReadLine
<1> HIDE DEF d
<1>14. c \in Bytes /\ Len(c) = Len(partial) + t /\ Agrees(L, x, c)
  <2>1. partial \in Bytes /\ d \in Bytes /\ Len(d) = t
    BY <1>5, <1>12
  <2>2. Agrees(L, x, partial) /\ Agrees(L, x + Len(partial), d)
    BY <1>4, <1>11, <1>12
  <2>3. /\ partial \o d \in Bytes /\ Len(partial \o d) = Len(partial) + Len(d)
        /\ Agrees(L, x, partial \o d)
    BY <2>1, <2>2, Joined
  <2> QED BY <2>1, <2>3
<1> HIDE DEF c, b, m
<1>15. Len(c) <= Len(b)
  <2> SUFFICES ASSUME ~(Len(c) <= Len(b)) PROVE FALSE
    OBVIOUS
  <2>0. Len(b) \in Nat /\ Len(partial) \in Nat
    BY <1>5, <1>7
  <2>1. PICK j \in Int : j = Len(b) - Len(partial)
    <3>1. Len(b) - Len(partial) \in Int
      BY <2>0
    <3> QED BY <3>1, Zenon
  <2>2. j \in 1 .. t - 1 /\ j \in 1 .. Len(buffer) /\ x + Len(partial) + j = x + Len(b)
    BY <1>5, <1>7, <1>10, <1>14, <2>1
  <2>3. buffer[j] = L[x + Len(b)]
    BY <1>4, <1>11, <2>2 DEF Agrees
  <2>4. b[Len(b)] = "LF" /\ b[Len(b)] = L[x + Len(b)]
    BY <1>5, <1>7, <1>8, <1>11
  <2> QED BY <1>10, <2>2, <2>3, <2>4
<1>16. Len(c) \in Nat /\ Len(c) >= 1
  BY <1>5, <1>10, <1>14
<1>17. /\ Len(c) = Len(b) => c = b
       /\ \A k \in 1 .. Len(c) : c[k] = b[k]
  <2>1. sent \in Seq(Records) /\ Len(got) \in 0 .. Len(sent) /\ Len(got) < Len(sent)
    BY <1>4, <1>5
  <2>2. c \in Bytes /\ Agrees(L, e[Len(got)], c)
    BY <1>11, <1>14
  <2>3. /\ Len(c) = Len(b) => c = b
        /\ Len(c) <= Len(b) => \A k \in 1 .. Len(c) : c[k] = b[k]
    BY <1>6, <2>1, <2>2, Whole DEF b
  <2> QED BY <1>15, <2>3
<1>18. Last(c) = "LF" <=> Len(c) = Len(b)
  <2>1. Last(c) = c[Len(c)] /\ Len(c) \in 1 .. Len(c) /\ Len(c) \in 1 .. Len(b)
    BY <1>7, <1>15, <1>16 DEF Last
  <2> QED BY <1>8, <1>17, <2>1
<1>19. p[0] = x + Len(c) + Len(buffer') /\ Agrees(L, x + Len(c), buffer')
  <2>1. PICK k \in Nat, l \in Nat : k = Len(partial) /\ l = Len(buffer)
    BY <1>5
  <2>2. t \in Nat /\ Len(c) = k + t /\ Len(buffer') = l - t /\ p[0] = x + k + l
    BY <1>5, <1>10, <1>11, <1>12, <1>14, <2>1
  <2>3. x + (k + t) = x + k + t /\ x + k + l = x + (k + t) + (l - t)
    BY <2>2
  <2>4. Agrees(L, x + k + t, buffer')
    BY <1>12, <2>1
  <2> QED BY <2>2, <2>3, <2>4
<1>20. CASE Len(c) > MAX_LINE_LENGTH \/ (Len(c) = Len(b) /\ ~Utf8(LineOf(c)))
  <2>1. Len(c) = MAX_LINE_LENGTH + 1 \/ Last(c) = "LF"
    BY <1>10, <1>14, <1>16, <1>18, <1>20, SizesAssumption
  <2>2. Fail("InvalidData")
    BY <1>13, <1>20, <2>1 DEF FinishLine
  <2>3. Len(b) > MAX_LINE_LENGTH \/ ~Utf8(LineOf(b))
    BY <1>7, <1>15, <1>16, <1>17, <1>20, SizesAssumption
  <2>4. Refusable(m)
    BY <1>4, <1>8, <2>3 DEF Refusable, m
  <2> QED BY <1>3, <1>4, <2>2, <2>4, Refused DEF m
<1>21. CASE Len(c) = Len(b) /\ ~(Len(c) > MAX_LINE_LENGTH) /\ Utf8(LineOf(c))
  <2>1. partial' = <<>> /\ HandleLine(LineOf(c))
    BY <1>13, <1>18, <1>21 DEF FinishLine
  <2>2. LineOf(c) = m.bytes
    BY <1>8, <1>17, <1>21
  <2>3. /\ Grammar(sent, Len(got) + 1, cpc, mode', reply') /\ error' = error
        /\ Len(got') = Len(got) + 1 /\ \E f \in Forms(m) : got' = Append(got, f)
    BY <1>2, <1>4, <2>1, <2>2, LineRead DEF m
  <2>4. InFlight(L, e, p, wire', sent, kind) /\ p[Len(wire')] = p[Len(wire)]
    BY <1>3, <1>6
  <2>5. Receives
    BY <1>1, <1>3, <1>4, <1>11, <1>14, <1>19, <1>21, <2>1, <2>3, <2>4, LiveAfter DEF b, m
  <2> QED BY <2>5
<1>22. CASE Len(c) # Len(b) /\ ~(Len(c) > MAX_LINE_LENGTH)
  <2>1. partial' = c /\ UNCHANGED <<mode, error, got, reply>>
    BY <1>13, <1>16, <1>18, <1>22, SizesAssumption
  <2>2. Len(c) < Len(b)
    BY <1>7, <1>15, <1>16, <1>22
  <2>3. InFlight(L, e, p, wire', sent, kind) /\ p[Len(wire')] = p[Len(wire)]
    BY <1>3, <1>6
  <2>4. UNCHANGED <<kind, client, mode, reply, got, error>>
    BY <1>3, <2>1
  <2>5. Waits
    BY <1>1, <1>2, <1>4, <1>11, <1>14, <1>19, <2>1, <2>2, <2>3, <2>4, StillLive DEF b
  <2> QED BY <2>5
<1> QED BY <1>20, <1>21, <1>22

\* The first n of the bytes s are taken for a chunk, and the rest of the unread
\* bytes follow them.
LEMMA ChunkOutcome ==
  ASSUME ShapeInv, ShapeInv', NEW L, NEW e, NEW B, NEW p, Parts(L, e, B, p), Grammar(sent, Len(got), cpc, mode, reply),
         mode = "chunk", Len(got) < Len(sent), UNCHANGED <<kind, client>>,
         NEW s \in Bytes, Agrees(L, e[Len(got)] + Len(partial), s), FillChunk(s),
         NEW n, n = (IF Len(s) < CHUNK_SIZE - Len(partial) THEN Len(s) ELSE CHUNK_SIZE - Len(partial)),
         NEW o, InFlight(L, e, o, wire', sent, kind), o[Len(wire')] = p[Len(wire)],
         o[0] = e[Len(got)] + (Len(partial) + n) + Len(buffer'),
         Agrees(L, e[Len(got)] + (Len(partial) + n), buffer')
  PROVE  Waits \/ Receives
<1> DEFINE b == B[Len(got) + 1]
           m == sent[Len(got) + 1]
           d == SubSeq(s, 1, n)
           c == partial \o d
<1>1. /\ sent \in Seq(Records) /\ Len(got) \in 0 .. Len(sent) /\ partial \in Bytes /\ Len(partial) \in Nat
      /\ e[Len(got)] \in Nat /\ Len(partial) < Len(b)
  BY Position
<1>2. Written(L, e, B, sent)
  BY DEF Parts
<1>3. m.what = "chunk"
  BY <1>1, HeadIsFirst
<1>4. /\ m \in Records /\ b \in Source(m.what) /\ b \in Bytes /\ m.bytes = Content(m.what, b)
  BY <1>1, <1>2, Current
<1>5. Len(b) = CHUNK_SIZE /\ m.bytes = b /\ CHUNK_SIZE \in Nat
  BY <1>3, <1>4, BytesAssumption, SizesAssumption DEF Source, Content
<1>6. Len(s) \in Nat
  BY DEF Bytes
<1>7. PICK need \in Int : need = CHUNK_SIZE - Len(partial)
  <2>1. CHUNK_SIZE - Len(partial) \in Int
    BY <1>1, <1>5
  <2> QED BY <2>1, Zenon
<1>8. n \in Int /\ n <= Len(s) /\ n <= need /\ (n = Len(s) \/ n = need)
  BY <1>6, <1>7, Smaller
<1>9. n \in 0 .. Len(s) /\ Len(partial) + n <= CHUNK_SIZE
  BY <1>1, <1>5, <1>6, <1>7, <1>8
<1>10. PICK x \in Nat : x = e[Len(got)]
  BY <1>1
<1>11. Agrees(L, x, partial)
  BY <1>10 DEF Parts, Placed, Agrees
<1>12. d \in Bytes /\ Len(d) = n /\ Agrees(L, x + Len(partial), d)
  <2>1. x + Len(partial) \in Nat /\ Agrees(L, x + Len(partial), s)
    BY <1>1, <1>10
  <2> QED BY <1>9, <2>1, SplitBytes
<1>13. IF Len(c) = CHUNK_SIZE THEN HandleChunk(c) /\ partial' = <<>>
                              ELSE partial' = c /\ UNCHANGED <<mode, error, got, reply>>
  BY DEF FillChunk
<1> HIDE DEF d
<1>14. c \in Bytes /\ Len(c) = Len(partial) + n /\ Agrees(L, x, c)
  <2>1. partial \o d \in Bytes /\ Len(partial \o d) = Len(partial) + Len(d) /\ Agrees(L, x, partial \o d)
    <3>1. partial \in Bytes /\ d \in Bytes
      BY <1>1, <1>12
    <3> QED BY <1>11, <1>12, <3>1, Joined
  <2> QED BY <1>12, <2>1
<1> HIDE DEF c, b, m
<1>15. Len(c) \in Nat /\ Len(c) <= CHUNK_SIZE
  BY <1>1, <1>9, <1>14
<1>16. o[0] = x + Len(c) + Len(buffer') /\ Agrees(L, x + Len(c), buffer')
  BY <1>10, <1>14
<1>17. CASE Len(c) = CHUNK_SIZE
  <2>1. c = b
    BY <1>1, <1>2, <1>5, <1>10, <1>14, <1>17, Whole DEF b
  <2>2. HandleChunk(m.bytes) /\ partial' = <<>>
    BY <1>5, <1>13, <1>17, <2>1
  <2>3. /\ Grammar(sent, Len(got) + 1, cpc, mode', reply') /\ error' = error
        /\ Len(got') = Len(got) + 1 /\ \E f \in Forms(m) : got' = Append(got, f)
    BY <1>3, <2>2, ChunkRead DEF m
  <2>4. Receives
    BY <1>5, <1>10, <1>14, <1>16, <1>17, <2>2, <2>3, LiveAfter DEF b, m
  <2> QED BY <2>4
<1>18. CASE Len(c) # CHUNK_SIZE
  <2>1. partial' = c /\ UNCHANGED <<mode, error, got, reply>>
    BY <1>13, <1>18
  <2>2. Len(c) < Len(b)
    BY <1>5, <1>15, <1>18
  <2>3. UNCHANGED <<kind, client, mode, reply, got, error>>
    BY <2>1
  <2>4. Waits
    BY <1>10, <1>14, <1>16, <2>1, <2>2, <2>3, StillLive DEF b
  <2> QED BY <2>4
<1> QED BY <1>17, <1>18

LEMMA ChunkStep ==
  ASSUME ShapeInv, ShapeInv', Live, ReadChunk
  PROVE  Waits \/ Receives
<1>1. PICK L, e, B, p : Parts(L, e, B, p)
  BY DEF Live
<1>2. Grammar(sent, Len(got), cpc, mode, reply)
  BY DEF Live
<1>3. /\ mode = "chunk" /\ buffer # <<>> /\ UNCHANGED <<kind, client>> /\ wire' = wire
      /\ FillChunk(buffer) /\ buffer' = SubSeq(buffer, (CHUNK_SIZE - Len(partial)) + 1, Len(buffer))
  BY DEF ReadChunk
<1>4. Len(got) < Len(sent) /\ Len(buffer) > 0 /\ Agrees(L, e[Len(got)] + Len(partial), buffer)
  BY <1>1, <1>2, <1>3, InBuffer
<1>5. /\ Len(partial) \in Nat /\ buffer \in Bytes /\ Len(buffer) \in Nat
      /\ e[Len(got)] \in Nat /\ p[0] = e[Len(got)] + Len(partial) + Len(buffer)
  BY <1>1, Position
<1>6. PICK need \in Nat : need = CHUNK_SIZE - Len(partial)
  <2>1. Len(partial) < CHUNK_SIZE /\ CHUNK_SIZE \in Nat
    BY <1>3, SizesAssumption DEF ShapeInv
  <2>2. CHUNK_SIZE - Len(partial) \in Nat
    BY <1>5, <2>1
  <2> QED BY <2>2, Zenon
<1>7. PICK n : n = (IF Len(buffer) < CHUNK_SIZE - Len(partial) THEN Len(buffer) ELSE CHUNK_SIZE - Len(partial))
  OBVIOUS
<1>8. n \in Int /\ n <= Len(buffer) /\ n <= need /\ (n = Len(buffer) \/ n = need)
  BY <1>5, <1>6, <1>7, Smaller
<1>9. /\ Len(buffer') = IF need < Len(buffer) THEN Len(buffer) - need ELSE 0
      /\ \A i \in 1 .. Len(buffer') : buffer'[i] = buffer[need + i]
  <2>1. buffer' = SubSeq(buffer, need + 1, Len(buffer)) /\ buffer \in Bytes
    BY <1>3, <1>5, <1>6
  <2> QED BY <2>1, LeftBytes
<1>10. Len(buffer') = Len(buffer) - n /\ (Len(buffer') # 0 => n = need)
  <2>1. PICK l, r : l \in Nat /\ l = Len(buffer) /\ r = Len(buffer')
    BY <1>5
  <2>2. r = IF need < l THEN l - need ELSE 0
    BY <1>9, <2>1
  <2>3. n <= l /\ n <= need /\ (n = l \/ n = need)
    BY <1>8, <2>1
  <2>4. l \in Nat /\ n \in Int
    BY <1>8, <2>1
  <2>5. r = l - n /\ (r # 0 => n = need)
    BY <2>2, <2>3, <2>4
  <2> QED BY <2>1, <2>5
<1>11. PICK x \in Nat : x = e[Len(got)]
  BY <1>5
<1>12. p[0] = x + (Len(partial) + n) + Len(buffer')
  BY <1>5, <1>8, <1>10, <1>11
<1>13. Agrees(L, x + (Len(partial) + n), buffer')
  <2>1. CASE Len(buffer') = 0
    BY <2>1, AgreesEmpty
  <2>2. CASE Len(buffer') # 0
    <3> SUFFICES ASSUME NEW k \in 1 .. Len(buffer') PROVE buffer'[k] = L[x + (Len(partial) + n) + k]
      BY DEF Agrees
    <3>1. need + k \in 1 .. Len(buffer) /\ buffer'[k] = buffer[need + k]
      BY <1>5, <1>8, <1>9, <1>10
    <3>2. buffer[need + k] = L[x + Len(partial) + (need + k)]
      BY <1>4, <1>11, <3>1 DEF Agrees
    <3>3. x + Len(partial) + (need + k) = x + (Len(partial) + n) + k
      BY <1>5, <1>8, <1>10, <2>2
    <3> QED BY <3>1, <3>2, <3>3
  <2> QED BY <2>1, <2>2
<1>14. InFlight(L, e, p, wire', sent, kind) /\ p[Len(wire')] = p[Len(wire)]
  BY <1>1, <1>3 DEF Parts
<1> QED BY <1>1, <1>2, <1>3, <1>4, <1>5, <1>7, <1>11, <1>12, <1>13, <1>14, ChunkOutcome

\* A control frame is skipped.
LEMMA Skipped ==
  ASSUME NEW L, NEW e, NEW p, NEW o, NEW s, NEW g, NEW a, NEW b, NEW w, NEW v, NEW r, NEW kd,
         Placed(L, e, p, s, g, a, b, w, r, kd), o[0] = p[0], o[Len(v)] = p[Len(w)]
  PROVE  Placed(L, e, o, s, g, a, b, v, r, kd)
BY DEF Placed

Type(u) == u[1]

\* A frame of data is a part of the current message, all of it if that is a line.
LEMMA DataFrame ==
  ASSUME ShapeInv, NEW L, NEW e, NEW B, NEW p, Parts(L, e, B, p), wire # <<>>, Len(buffer) = 0,
         NEW u, u = Head(wire), Type(u) \in {"text", "binary"}
  PROVE  /\ Len(got) < Len(sent) /\ p[1] <= e[Len(got) + 1]
         /\ sent[Len(got) + 1].what = "line" => p[0] = e[Len(got)] /\ p[1] = e[Len(got) + 1]
<1>1. /\ Unit(L, e, p[0], p[1], u, sent, kind) /\ p[0] \in Nat /\ p[1] \in Nat /\ p[0] = e[Len(got)] + Len(partial)
  <2>1. PICK d : d = Data(u)
    OBVIOUS
  <2> QED BY <2>1, FirstUnit
<1>2. /\ sent \in Seq(Records) /\ Len(sent) \in Nat /\ Len(got) \in 0 .. Len(sent) /\ Len(partial) \in Nat
      /\ Len(got) < Len(sent) => e[Len(got)] + Len(partial) < e[Len(got) + 1]
  BY Position
<1>3. PICK i \in 2 .. Len(sent) : Frame(e, p[0], p[1], u, sent, i)
  <2>1. u[1] \in {"text", "binary"}
    BY DEF Type
  <2> QED BY <1>1, <2>1 DEF Unit
<1>4. /\ e[i - 1] <= p[0] /\ p[0] < p[1] /\ p[1] <= e[i]
      /\ sent[i].what = "line" => p[0] = e[i - 1] /\ p[1] = e[i]
  BY <1>3 DEF Frame
<1>5. /\ \A j \in 0 .. Len(sent) : e[j] \in Nat
      /\ \A j, k \in 0 .. Len(sent) : j < k => e[j] < e[k]
  BY DEF Parts, Written
<1>6. PICK g \in Nat : g = Len(got) /\ g \in 0 .. Len(sent)
  BY <1>2
<1>7. i \in 0 .. Len(sent) /\ i - 1 \in 0 .. Len(sent) /\ e[g] \in Nat /\ e[i] \in Nat /\ e[i - 1] \in Nat
  BY <1>2, <1>5, <1>6
<1>8. g < i
  <2> SUFFICES ASSUME ~(g < i) PROVE FALSE
    OBVIOUS
  <2>1. g = i \/ i < g
    BY <1>6
  <2>2. e[i] <= e[g]
    BY <1>5, <1>6, <1>7, <2>1
  <2> QED BY <1>1, <1>2, <1>4, <1>6, <1>7, <2>2
<1>9. g < Len(sent) /\ g + 1 \in 0 .. Len(sent)
  BY <1>2, <1>6, <1>8
<1>10. ~(g + 1 < i)
  <2> SUFFICES ASSUME g + 1 < i PROVE FALSE
    OBVIOUS
  <2>1. g + 1 = i - 1 \/ g + 1 < i - 1
    BY <1>6
  <2>2. e[g + 1] <= e[i - 1] /\ e[g + 1] \in Nat
    BY <1>5, <1>7, <1>9, <2>1
  <2> QED BY <1>1, <1>2, <1>4, <1>6, <1>7, <1>9, <2>2
<1>11. i = g + 1 /\ i - 1 = g
  BY <1>6, <1>8, <1>10
<1> QED BY <1>4, <1>6, <1>9, <1>11

LEMMA FrameStep ==
  ASSUME ShapeInv, ShapeInv', Live, ReadFrame
  PROVE  Waits \/ Receives \/ Ends
<1>1. PICK L, e, B, p : Parts(L, e, B, p)
  BY DEF Live
<1>2. Grammar(sent, Len(got), cpc, mode, reply)
  BY DEF Live
<1>3. /\ mode \in {"line", "chunk"} /\ kind = "websocket" /\ wire # <<>> /\ wire' = Tail(wire)
      /\ UNCHANGED <<kind, client>> /\ buffer' = buffer /\ sent' = sent
  BY DEF ReadFrame, client
<1>4. Len(buffer) = 0 /\ Len(buffer') = 0 /\ (mode = "line" => partial = <<>>)
  BY <1>3 DEF ShapeInv
<1>5. PICK u, d : u = Head(wire) /\ d = Data(u)
  OBVIOUS
<1>6. /\ Unit(L, e, p[0], p[1], u, sent, kind) /\ d \in Bytes /\ Len(d) \in Nat
      /\ p[0] \in Nat /\ p[1] \in Nat /\ p[0] = e[Len(got)] + Len(partial)
      /\ p[1] = e[Len(got)] + Len(partial \o d) /\ Len(partial \o d) = Len(partial) + Len(d)
      /\ Ahead(L, e, wire', sent, kind, p[1], p[Len(wire)])
  BY <1>1, <1>3, <1>4, <1>5, FirstUnit
<1>7. PICK o : InFlight(L, e, o, wire', sent, kind) /\ o[0] = p[1] /\ o[Len(wire')] = p[Len(wire)]
  BY <1>6 DEF Ahead
<1>8. /\ sent \in Seq(Records) /\ Len(got) \in 0 .. Len(sent) /\ Len(partial) \in Nat /\ e[Len(got)] \in Nat
  BY <1>1, Position
<1>9. p[1] = p[0] + Len(d) /\ Agrees(L, p[0], d)
  BY <1>5, <1>6 DEF Unit, Data, Agrees
<1>10. \/ Type(u) = "ping" /\ UNCHANGED <<mode, partial, error, got, reply>>
       \/ \E x \in {"ConnectionReset", "Other"} : Fail(x)
       \/ /\ mode = "line" /\ Type(u) \in {"text", "binary"} /\ partial' = partial
          /\ HandleLine(IF Type(u) = "text" THEN TextLineOf(d) ELSE LineOf(Lossy(d)))
       \/ mode = "chunk" /\ Type(u) \in {"text", "binary"} /\ FillChunk(d)
  BY <1>5 DEF ReadFrame, Type, Data
<1>11. CASE Type(u) = "ping" /\ UNCHANGED <<mode, partial, error, got, reply>>
  <2>1. p[1] = p[0]
    <3>1. u[1] = "ping"
      BY <1>11 DEF Type
    <3> QED BY <1>6, <3>1 DEF Unit
  <2>2. Placed(L, e, p, sent, Len(got), partial, buffer, wire, rest, kind)
    BY <1>1 DEF Parts
  <2>3. Placed(L, e, o, sent, Len(got), partial, buffer, wire', rest, kind)
    BY <1>7, <2>1, <2>2, Skipped
  <2>4. kind' = kind /\ sent' = sent /\ cpc' = cpc /\ rest' = rest /\ Written(L, e, B, sent)
    BY <1>1, <1>3 DEF client, Parts
  <2>5. Parts(L, e, B, o)'
    BY <1>3, <1>7, <1>11, <2>3, <2>4 DEF Parts
  <2>6. Live'
    BY <1>2, <1>11, <2>4, <2>5 DEF Live
  <2> QED BY <1>11, <2>6 DEF Waits
<1>12. CASE \E x \in {"ConnectionReset", "Other"} : Fail(x)
  BY <1>12 DEF Fail, Ends, BlameIsDeserved, NothingIsLost
<1>13. CASE /\ mode = "line" /\ Type(u) \in {"text", "binary"} /\ partial' = partial
            /\ HandleLine(IF Type(u) = "text" THEN TextLineOf(d) ELSE LineOf(Lossy(d)))
  <2> DEFINE b == B[Len(got) + 1]
             m == sent[Len(got) + 1]
  <2>1. /\ Len(got) < Len(sent)
        /\ m.what = "line" => p[0] = e[Len(got)] /\ p[1] = e[Len(got) + 1]
    BY <1>1, <1>3, <1>4, <1>5, <1>13, DataFrame
  <2>2. m.what = "line"
    BY <1>2, <1>8, <1>13, <2>1, HeadIsFirst
  <2>3. Written(L, e, B, sent)
    BY <1>1 DEF Parts
  <2>4. /\ m \in Records /\ b \in Source(m.what) /\ b \in Bytes /\ m.bytes = Content(m.what, b)
        /\ e[Len(got) + 1] = e[Len(got)] + Len(b) /\ Len(b) \in Nat
    BY <1>8, <2>1, <2>3, Current
  <2>5. b \in Lines /\ m.bytes = LineOf(b)
    BY <2>2, <2>4 DEF Source, Content
  <2>6. Len(d) = Len(b) /\ Agrees(L, e[Len(got)], d)
    <3>1. PICK x \in Nat : x = e[Len(got)] /\ x = p[0]
      BY <1>8, <2>1, <2>2
    <3>2. x + Len(d) = x + Len(b)
      BY <1>9, <2>1, <2>2, <2>4, <3>1
    <3>3. Len(d) = Len(b)
      BY <1>6, <2>4, <3>2
    <3> QED BY <1>9, <3>1, <3>3
  <2> HIDE DEF b, m
  <2>7. d = b
    BY <1>6, <1>8, <2>1, <2>3, <2>6, Whole DEF b
  <2>8. TextLineOf(d) = m.bytes /\ LineOf(Lossy(d)) = Lossy(m.bytes)
    BY <2>5, <2>7, TextLine, LossyLine
  <2>9. PICK line \in {m.bytes, Lossy(m.bytes)} : HandleLine(line)
    BY <1>13, <2>8
  <2>10. /\ Grammar(sent, Len(got) + 1, cpc, mode', reply') /\ error' = error
         /\ Len(got') = Len(got) + 1 /\ \E f \in Forms(m) : got' = Append(got, f)
    BY <1>2, <2>1, <2>2, <2>9, LineRead DEF m
  <2>11. partial' = <<>>
    BY <1>4, <1>13
  <2>12. o[0] = e[Len(got)] + Len(d) + Len(buffer')
    <3>1. PICK x \in Nat : x = e[Len(got)] /\ x = p[0]
      BY <1>8, <2>1, <2>2 DEF m
    <3> QED BY <1>4, <1>6, <1>7, <1>9, <3>1
  <2>13. Agrees(L, e[Len(got)] + Len(d), buffer')
    BY <1>4, AgreesEmpty
  <2>14. Receives
    BY <1>1, <1>3, <1>6, <1>7, <2>1, <2>6, <2>10, <2>11, <2>12, <2>13, LiveAfter DEF b, m
  <2> QED BY <2>14
<1>14. CASE mode = "chunk" /\ Type(u) \in {"text", "binary"} /\ FillChunk(d)
  <2>1. Len(got) < Len(sent) /\ p[1] <= e[Len(got) + 1]
    BY <1>1, <1>3, <1>4, <1>5, <1>14, DataFrame
  <2>2. Written(L, e, B, sent)
    BY <1>1 DEF Parts
  <2> DEFINE b == B[Len(got) + 1]
             m == sent[Len(got) + 1]
  <2>3. /\ m \in Records /\ b \in Source(m.what)
        /\ e[Len(got) + 1] = e[Len(got)] + Len(b) /\ Len(b) \in Nat
    BY <1>8, <2>1, <2>2, Current
  <2>4. m.what = "chunk"
    BY <1>2, <1>8, <1>14, <2>1, HeadIsFirst
  <2>5. Len(b) = CHUNK_SIZE /\ CHUNK_SIZE \in Nat
    BY <2>3, <2>4, BytesAssumption, SizesAssumption DEF Source
  <2> HIDE DEF b, m
  <2>6. PICK x \in Nat, l \in Nat, k \in Nat : x = e[Len(got)] /\ l = Len(d) /\ k = Len(partial)
    BY <1>6, <1>8
  <2>7. x + k + l <= x + CHUNK_SIZE
    BY <1>6, <1>9, <2>1, <2>3, <2>5, <2>6
  <2>8. l = IF l < CHUNK_SIZE - k THEN l ELSE CHUNK_SIZE - k
    BY <2>5, <2>7
  <2>9. Len(d) = IF Len(d) < CHUNK_SIZE - Len(partial) THEN Len(d) ELSE CHUNK_SIZE - Len(partial)
    BY <2>6, <2>8
  <2>10. o[0] = e[Len(got)] + (Len(partial) + Len(d)) + Len(buffer')
    <3>1. o[0] = x + (k + l) + 0
      BY <1>6, <1>7, <1>9, <2>6
    <3> QED BY <1>4, <2>6, <3>1
  <2>11. Agrees(L, e[Len(got)] + (Len(partial) + Len(d)), buffer')
    BY <1>4, AgreesEmpty
  <2>12. Agrees(L, e[Len(got)] + Len(partial), d)
    BY <1>6, <1>9
  <2> QED BY <1>1, <1>2, <1>3, <1>6, <1>7, <1>14, <2>1, <2>9, <2>10, <2>11, <2>12, ChunkOutcome
<1> QED BY <1>10, <1>11, <1>12, <1>13, <1>14

\* A reader that starves has read all that was written completely, and holds
\* a part of the last message only.
LEMMA StarvedRead ==
  ASSUME ShapeInv, NEW L, NEW e, NEW B, NEW p, Parts(L, e, B, p), wire = <<>>, buffer = <<>>
  PROVE  /\ rest # <<>> \/ Len(got) = Len(sent)
         /\ Len(got) < Len(sent) => rest # <<>> /\ Len(got) + 1 = Len(sent)
<1>1. /\ sent \in Seq(Records) /\ Len(sent) \in Nat /\ Len(partial) \in Nat /\ Len(rest) \in Nat
      /\ Len(got) \in 0 .. Len(sent) /\ e[Len(got)] \in Nat /\ e[Len(sent)] \in Nat
      /\ p[0] = e[Len(got)] + Len(partial) + Len(buffer) /\ p[Len(wire)] + Len(rest) = e[Len(sent)]
      /\ Len(got) < Len(sent) => e[Len(got)] + Len(partial) < e[Len(got) + 1]
  BY Position
<1>2. Len(wire) = 0 /\ Len(buffer) = 0
  OBVIOUS
<1>3. p[0] = e[Len(got)] + Len(partial) /\ p[0] + Len(rest) = e[Len(sent)]
  BY <1>1, <1>2
<1> SUFFICES ASSUME Len(got) < Len(sent) PROVE rest # <<>> /\ Len(got) + 1 = Len(sent)
  BY <1>1
<1>4. p[0] < e[Len(got) + 1]
  BY <1>1, <1>3
<1>5. e[Len(got) + 1] \in Nat /\ e[Len(got) + 1] <= e[Len(sent)]
  BY <1>1, Current DEF Parts
<1>6. rest # <<>>
  <2>1. Len(rest) # 0
    BY <1>1, <1>3, <1>4, <1>5
  <2> QED BY <2>1
<1>7. e[Len(sent) - 1] <= p[0]
  BY <1>1, <1>2 DEF Parts, Placed
<1>8. ASSUME Len(got) + 1 < Len(sent) PROVE FALSE
  <2>1. Len(got) + 1 \in 0 .. Len(sent) /\ Len(sent) - 1 \in 0 .. Len(sent)
        /\ (Len(got) + 1 = Len(sent) - 1 \/ Len(got) + 1 < Len(sent) - 1)
    BY <1>1, <1>8
  <2>2. e[Len(sent) - 1] \in Nat /\ e[Len(got) + 1] <= e[Len(sent) - 1]
    BY <1>5, <2>1 DEF Parts, Written
  <2>3. p[0] \in Nat
    BY <1>1, <1>3
  <2> QED BY <1>4, <1>5, <1>7, <2>2, <2>3
<1> QED BY <1>1, <1>6, <1>8

LEMMA TimeoutStep ==
  ASSUME ShapeInv, Live, Timeout
  PROVE  Ends
<1>1. PICK L, e, B, p : Parts(L, e, B, p)
  BY DEF Live
<1>2. wire = <<>> /\ buffer = <<>> /\ Fail("WouldBlock") /\ rest' = rest /\ sent' = sent
  BY DEF Timeout, Starved, client
<1>3. rest # <<>> \/ Len(got) = Len(sent)
  BY <1>1, <1>2, StarvedRead
<1> QED BY <1>2, <1>3 DEF Fail, Ends, BlameIsDeserved, NothingIsLost

\* At the end of file a raw reader takes what it has of a line for a line.
LEMMA CutStep ==
  ASSUME ShapeInv, Live, closed, Starved, mode = "line", kind = "raw", partial # <<>>, FinishLine(partial),
         UNCHANGED <<kind, client, wire, closed, buffer>>
  PROVE  TakesCut \/ Ends
<1>1. PICK L, e, B, p : Parts(L, e, B, p)
  BY DEF Live
<1>2. Grammar(sent, Len(got), cpc, mode, reply)
  BY DEF Live
<1>3. wire = <<>> /\ buffer = <<>> /\ wire' = wire /\ buffer' = buffer /\ rest' = rest /\ sent' = sent
      /\ kind' = kind /\ closed' = closed
  BY DEF Starved, client
<1>4. /\ sent \in Seq(Records) /\ Len(sent) \in Nat /\ partial \in Bytes /\ Len(partial) \in Nat /\ Len(rest) \in Nat
      /\ got \in Seq(Records) /\ Len(got) \in 0 .. Len(sent) /\ e[Len(got)] \in Nat /\ e[Len(sent)] \in Nat
      /\ p[0] = e[Len(got)] + Len(partial) + Len(buffer) /\ p[Len(wire)] + Len(rest) = e[Len(sent)]
      /\ e[Len(got)] < e[Len(sent)] => Len(got) < Len(sent)
      /\ Len(got) < Len(sent) => Len(partial) < Len(B[Len(got) + 1])
  BY <1>1, Position
<1>5. Len(wire) = 0 /\ Len(buffer) = 0 /\ Len(partial) > 0
  BY <1>3, <1>4
<1>6. Len(got) < Len(sent)
  BY <1>4, <1>5
<1>7. rest # <<>> /\ Len(got) + 1 = Len(sent)
  BY <1>1, <1>3, <1>6, StarvedRead
<1> DEFINE b == B[Len(got) + 1]
           m == sent[Len(got) + 1]
<1>8. m.what = "line"
  BY <1>2, <1>4, <1>6, HeadIsFirst
<1>9. Written(L, e, B, sent) /\ Agrees(L, e[Len(got)], partial)
  BY <1>1 DEF Parts, Placed, Agrees
<1>10. b \in Source(m.what) /\ m.bytes = Content(m.what, b) /\ Len(b) \in Nat
  BY <1>4, <1>6, <1>9, Current
<1>11. b \in Lines /\ m.bytes = LineOf(b)
  BY <1>8, <1>10 DEF Source, Content
<1> HIDE DEF b, m
<1>12. Len(partial) < Len(b) /\ \A k \in 1 .. Len(partial) : partial[k] = b[k]
  <2>1. Len(partial) < Len(b) /\ Len(partial) <= Len(b)
    BY <1>4, <1>6, <1>10 DEF b
  <2>2. sent \in Seq(Records) /\ Len(got) \in 0 .. Len(sent) /\ partial \in Bytes
    BY <1>4
  <2>3. Len(partial) <= Len(b) => \A k \in 1 .. Len(partial) : partial[k] = b[k]
    BY <1>6, <1>9, <2>2, Whole DEF b
  <2> QED BY <2>1, <2>3
<1>13. ~Utf8(LineOf(partial)) => ~Utf8(LineOf(b))
  BY <1>4, <1>5, <1>11, <1>12, CutLine
<1>14. Len(partial) <= MAX_LINE_LENGTH /\ MAX_LINE_LENGTH \in Nat
  BY SizesAssumption DEF ShapeInv
<1>15. CASE ~Utf8(LineOf(partial))
  <2>1. Refusable(m)
    BY <1>8, <1>11, <1>13, <1>15 DEF Refusable
  <2>2. Fail("InvalidData")
    BY <1>15 DEF FinishLine
  <2> QED BY <1>3, <1>6, <2>1, <2>2, Refused DEF m
<1>16. CASE Utf8(LineOf(partial))
  <2>1. partial' = <<>> /\ HandleLine(LineOf(partial))
    BY <1>4, <1>14, <1>16 DEF FinishLine
  <2>2. PICK f : f = Message("line", LineOf(partial))
    OBVIOUS
  <2>3. f \in Records
    BY <1>4, <2>2, LineBytes, RecordType
  <2>4. got' = Append(got, f) /\ mode' \in {"line", "chunk"} /\ error' = error
    BY <2>1, <2>2 DEF HandleLine
  <2>5. Len(got') = Len(got) + 1
    BY <1>4, <2>3, <2>4
  <2>6. sent[Len(sent)].what = "line"
    BY <1>7, <1>8 DEF m
  <2>7. CutOff'
    BY <1>3, <1>7, <2>1, <2>4, <2>5, <2>6 DEF CutOff, LineCut
  <2> QED BY <2>4, <2>7 DEF TakesCut
<1> QED BY <1>15, <1>16

LEMMA EofStep ==
  ASSUME ShapeInv, Live, Eof
  PROVE  TakesCut \/ Ends
<1>1. PICK L, e, B, p : Parts(L, e, B, p)
  BY DEF Live
<1>2. closed /\ Starved /\ UNCHANGED <<kind, client, wire, closed, buffer>>
  BY DEF Eof
<1>3. CASE mode = "line" /\ kind = "raw" /\ partial # <<>>
  <2>1. FinishLine(partial)
    BY <1>3 DEF Eof
  <2> QED BY <1>2, <1>3, <2>1, CutStep
<1>4. CASE ~(mode = "line" /\ kind = "raw" /\ partial # <<>>)
  <2>1. PICK x \in {"Other", "UnexpectedEof"} : Fail(x)
    BY <1>4 DEF Eof
  <2>2. wire = <<>> /\ buffer = <<>> /\ rest' = rest /\ sent' = sent
    BY <1>2 DEF Starved, client
  <2>3. rest # <<>> \/ Len(got) = Len(sent)
    BY <1>1, <2>2, StarvedRead
  <2> QED BY <2>1, <2>2, <2>3 DEF Fail, Ends, BlameIsDeserved, NothingIsLost
<1> QED BY <1>3, <1>4

\* After a cut line there is nothing but the end of file.
LEMMA CutOffStep ==
  ASSUME ShapeInv, CutOff, Next
  PROVE  Ends
<1>1. /\ closed /\ kind = "raw" /\ mode \in {"line", "chunk"} /\ wire = <<>> /\ buffer = <<>> /\ partial = <<>> /\ rest # <<>>
  BY DEF CutOff, LineCut
<1>2. ~Client
  BY <1>1 DEF Client, Begin, Write, WritePing, ReadReply, ClientClose, Writable
<1>3. ~(ReadHead \/ Fill \/ ReadLine \/ ReadChunk \/ ReadFrame \/ Timeout \/ Ended)
  BY <1>1 DEF ReadHead, Fill, ReadLine, ReadChunk, ReadFrame, Timeout, Ended
<1>4. Eof
  BY <1>2, <1>3 DEF Next, Server
<1>5. Fail("UnexpectedEof") /\ rest' = rest
  BY <1>1, <1>4 DEF Eof, client
<1> QED BY <1>1, <1>5 DEF Fail, Ends, BlameIsDeserved, NothingIsLost

-----------------------------------------------------------------------------
(* The writes of the client. *)

\* A client stays in step as long as it sends no chunk behind a refused PUT.
LEMMA StayedInStep ==
  ASSUME sent \in Seq(Records), NEW m, sent' = Append(sent, m) \/ sent' = sent, InStep'
  PROVE  InStep
<1>1. /\ Len(sent) \in Nat /\ Len(sent) <= Len(sent') /\ Len(sent') \in Nat
      /\ \A i \in 1 .. Len(sent) : sent'[i] = sent[i]
  OBVIOUS
<1>2. \A i \in 1 .. Len(sent) - 1 : i \in 1 .. Len(sent) /\ i + 1 \in 1 .. Len(sent) /\ i \in 1 .. Len(sent') - 1
  BY <1>1
<1> QED BY <1>1, <1>2 DEF InStep

LEMMA BehindRefused ==
  ASSUME sent \in Seq(Records), Len(sent) > 0, InStep', NEW b, NEW m, m = Message("chunk", b), sent' = Append(sent, m)
  PROVE  sent[Len(sent)] # Message("line", <<"B">>)
<1>1. /\ Len(sent) \in 1 .. Len(sent') - 1
      /\ sent'[Len(sent)] = sent[Len(sent)] /\ sent'[Len(sent) + 1] = m
  OBVIOUS
<1>2. m.what = "chunk"
  BY DEF Message
<1> QED BY <1>1, <1>2 DEF InStep

LEMMA BeginStep ==
  ASSUME ShapeInv, Live, InStep', NEW what \in {"head", "line", "chunk"}, NEW b, Begin(what, b)
  PROVE  Live' /\ ~closed /\ closed' = closed /\ got' = got /\ \E m \in AllMessages : sent' = Append(sent, m)
<1>1. PICK L, e, B, p : Parts(L, e, B, p)
  BY DEF Live
<1>2. Grammar(sent, Len(got), cpc, mode, reply)
  BY DEF Live
<1>3. PICK m : m = Message(what, Content(what, b))
  OBVIOUS
<1>4. /\ rest = <<>> /\ (cpc = what \/ (cpc = "early" /\ what = "chunk")) /\ rest' = b /\ ~closed /\ mode' = mode /\ got' = got /\ partial' = partial
      /\ buffer' = buffer /\ wire' = wire /\ kind' = kind /\ reply' = reply /\ closed' = closed
      /\ sent' = Append(sent, m)
  BY <1>3 DEF Begin, Writable, server, Content
<1>5. b \in Source(what)
  BY DEF Begin, Source
<1>6. m.what = what /\ m.bytes = Content(what, b)
  BY <1>3 DEF Message
<1>7. cpc' \in Onward(cpc, m)
  <2>1. CASE what = "line"
    <3>1. cpc' \in CASE LineOf(b) \in {<<"P">>, <<"B">>} -> Waiting [] OTHER -> {"line"}
      BY <2>1 DEF Begin, Waiting
    <3>2. m.what = "line" /\ m.bytes = LineOf(b) /\ cpc # "early"
      BY <1>4, <1>6, <2>1 DEF Content
    <3> QED BY <3>1, <3>2 DEF IsPut, After, Onward
  <2>2. CASE what = "chunk"
    <3>1. cpc' = IF Last(b) # "FF" THEN cpc ELSE IF cpc = "early" THEN "wait" ELSE "line"
      BY <2>2 DEF Begin
    <3>2. m.what = "chunk" /\ m.bytes = b /\ (cpc = "chunk" \/ cpc = "early")
      BY <1>4, <1>6, <2>2 DEF Content
    <3> QED BY <3>1, <3>2 DEF IsPut, After, Onward
  <2>3. CASE what = "head"
    <3>1. cpc' = "line"
      BY <2>3 DEF Begin
    <3>2. m.what = "head" /\ cpc # "early"
      BY <1>4, <1>6, <2>3
    <3> QED BY <3>1, <3>2 DEF IsPut, After, Onward
  <2> QED BY <2>1, <2>2, <2>3
<1>8. /\ sent \in Seq(Records) /\ wire \in Seq(WireUnits) /\ partial \in Bytes /\ buffer \in Bytes
      /\ Len(got) \in 0 .. Len(sent)
  BY <1>1, Position
<1>9. Grammar(sent', Len(got), cpc', mode, reply)
  <2>1. ASSUME cpc = "early", what = "chunk" PROVE NextOf(sent, Len(sent)) = "chunk"
    <3>1. Len(sent) > 0 /\ (IsPut(sent[Len(sent)]) \/ NextOf(sent, Len(sent)) = "chunk")
      BY <1>2, <2>1 DEF Grammar
    <3>2. sent[Len(sent)] # Message("line", <<"B">>)
      BY <1>3, <1>4, <1>8, <2>1, <3>1, BehindRefused
    <3>3. ASSUME IsPut(sent[Len(sent)]) PROVE NextOf(sent, Len(sent)) = "chunk"
      <4>1. Len(sent) \in Nat /\ sent[Len(sent)] \in Records
        BY <1>8, <3>1
      <4>2. sent[Len(sent)] = Message(sent[Len(sent)].what, sent[Len(sent)].bytes)
        BY <4>1, AsMessage
      <4>3. sent[Len(sent)].what = "line" /\ sent[Len(sent)].bytes = <<"P">>
        BY <3>2, <3>3, <4>2 DEF IsPut
      <4> QED BY <3>1, <4>1, <4>3 DEF NextOf, After
    <3> QED BY <3>1, <3>3
  <2> QED BY <1>2, <1>4, <1>6, <1>7, <1>8, <2>1, GrammarBegin
<1>10. Begun(p, sent', Len(got), partial, buffer, wire, b, kind)
  <2>1. sent' = Append(sent, Message(what, Content(what, b))) /\ rest = <<>>
    BY <1>3, <1>4
  <2>2. sent \in Seq(Records) /\ wire \in Seq(WireUnits) /\ partial \in Bytes /\ buffer \in Bytes
    BY <1>8
  <2>3. Written(L, e, B, sent) /\ InFlight(L, e, p, wire, sent, kind)
        /\ Placed(L, e, p, sent, Len(got), partial, buffer, wire, rest, kind)
    BY <1>1 DEF Parts
  <2> QED BY <1>5, <2>1, <2>2, <2>3, BeginMessage
<1>11. PICK L2, e2, B2 : /\ Written(L2, e2, B2, sent') /\ InFlight(L2, e2, p, wire, sent', kind)
                         /\ Placed(L2, e2, p, sent', Len(got), partial, buffer, wire, b, kind)
  BY <1>10 DEF Begun
<1>12. Parts(L2, e2, B2, p)'
  BY <1>4, <1>11 DEF Parts
<1>13. Live'
  BY <1>4, <1>9, <1>12 DEF Live
<1>14. m \in AllMessages
  BY <1>3, <1>5 DEF Source, Content, AllMessages
<1> QED BY <1>4, <1>13, <1>14

\* The units v are written behind those in flight, up to y.
LEMMA UnitsWritten ==
  ASSUME ShapeInv, NEW L, NEW e, NEW B, NEW p, Parts(L, e, B, p), NEW v \in Seq(WireUnits), NEW y,
         wire' = wire \o v, Ahead(L, e, v, sent, kind, p[Len(wire)], y),
         Grammar(sent, Len(got), cpc, mode, reply), UNCHANGED <<kind, cpc, sent, got, mode, reply, partial, buffer>>,
         y + Len(rest') = e[Len(sent)], Len(sent) > 0 => e[Len(sent) - 1] <= y,
         Len(sent) > 0 /\ kind = "websocket" /\ sent[Len(sent)].what = "line" /\ rest' # <<>> => e[Len(sent) - 1] = y,
         Agrees(L, y, rest')
  PROVE  Live'
<1>1. sent \in Seq(Records) /\ wire \in Seq(WireUnits)
  BY DEF ShapeInv
<1>2. Written(L, e, B, sent) /\ InFlight(L, e, p, wire, sent, kind)
      /\ Placed(L, e, p, sent, Len(got), partial, buffer, wire, rest, kind)
  BY DEF Parts
<1>3. Ahead(L, e, wire', sent, kind, p[0], y)
  BY <1>1, <1>2, UnitsJoined
<1>4. PICK o : InFlight(L, e, o, wire', sent, kind) /\ o[0] = p[0] /\ o[Len(wire')] = y
  BY <1>3 DEF Ahead
<1>5. Placed(L, e, o, sent, Len(got), partial, buffer, wire', rest', kind)
  BY <1>2, <1>4 DEF Placed, Agrees
<1>6. Parts(L, e, B, o)'
  BY <1>2, <1>4, <1>5 DEF Parts
<1> QED BY <1>6 DEF Live

\* A frame with a part of a message, and one without bytes.
LEMMA PartUnit ==
  ASSUME NEW L, NEW e, NEW s, NEW kd, kd = "websocket", NEW x, NEW y, NEW part, y = x + Len(part), Agrees(L, x, part),
         NEW type \in {"text", "binary"}, NEW i \in 2 .. Len(s), Len(s) \in Nat,
         e[i - 1] <= x, x < y, y <= e[i], s[i].what = "line" => x = e[i - 1] /\ y = e[i],
         s[i].what = "chunk" => type = "binary", NEW u, u = <<type, part>>
  PROVE  Unit(L, e, x, y, u, s, kd)
<1>1. u[1] = type /\ u[2] = part
  OBVIOUS
<1>2. Len(s) >= 1
  OBVIOUS
<1>3. Frame(e, x, y, u, s, i)
  BY <1>1, Zenon DEF Frame
<1>4. y = x + Len(u[2]) /\ \A j \in 1 .. Len(u[2]) : u[2][j] = L[x + j]
  BY <1>1, Zenon DEF Agrees
<1> QED BY <1>1, <1>2, <1>3, <1>4, Zenon DEF Unit

Control == {<<"ping", <<>>>>, <<"close", <<>>>>}

LEMMA ControlUnit ==
  ASSUME NEW L, NEW e, NEW s, NEW kd, kd = "websocket", NEW x \in Nat, Len(s) >= 1, e[1] <= x, NEW u \in Control
  PROVE  Unit(L, e, x, x, u, s, kd) /\ u \in WireUnits
<1>1. u[1] \in {"ping", "close"} /\ u[2] = <<>> /\ Len(<<>>) = 0 /\ <<>> \in Bytes
  BY DEF Bytes, Control
<1>2. x = x + 0 /\ 1 .. 0 = {}
  OBVIOUS
<1>3. x = x + Len(u[2]) /\ \A j \in 1 .. Len(u[2]) : u[2][j] = L[x + j]
  BY <1>1, <1>2
<1>4. Unit(L, e, x, x, u, s, kd)
  BY <1>1, <1>3, Zenon DEF Unit
<1> QED BY <1>1, <1>4 DEF WireUnits, Control

\* A control frame is written where the last message that was begun ends.
LEMMA ControlStep ==
  ASSUME ShapeInv, Live, kind = "websocket", NEW u \in Control, wire' = Append(wire, u),
         UNCHANGED <<kind, cpc, rest, sent, got, mode, reply, partial, buffer>>,
         cpc # "head", sent[Len(sent)].what = "head" => rest = <<>>
  PROVE  Live'
<1>1. PICK L, e, B, p : Parts(L, e, B, p)
  BY DEF Live
<1>2. Grammar(sent, Len(got), cpc, mode, reply)
  BY DEF Live
<1>3. /\ sent \in Seq(Records) /\ Len(sent) \in Nat /\ wire \in Seq(WireUnits) /\ Len(wire) \in Nat
      /\ rest \in Bytes /\ Len(rest) \in Nat /\ e[Len(sent)] \in Nat
      /\ \A k \in 0 .. Len(wire) : p[k] \in Nat /\ p[k] <= e[Len(sent)]
      /\ p[Len(wire)] + Len(rest) = e[Len(sent)]
  BY <1>1, Position
<1>4. Len(sent) > 0 /\ (sent[Len(sent)].what = "head" <=> Len(sent) = 1)
  <2>1. Len(sent) > 0
    BY <1>2, <1>3, HeadIsFirst
  <2>2. Len(sent) \in 1 .. Len(sent)
    BY <1>3, <2>1
  <2> QED BY <1>2, <1>3, <2>1, <2>2, HeadIsFirst
<1>5. PICK x \in Nat : x = p[Len(wire)] /\ x + Len(rest) = e[Len(sent)] /\ x <= e[Len(sent)]
  BY <1>3
<1>6. /\ e[Len(sent) - 1] <= x
      /\ kind = "websocket" /\ sent[Len(sent)].what = "line" /\ rest # <<>> => e[Len(sent) - 1] = x
      /\ Agrees(L, x, rest)
  BY <1>1, <1>4, <1>5 DEF Parts, Placed, Agrees
<1>7. e[1] <= x
  <2>1. CASE Len(sent) = 1
    <3>1. Len(rest) = 0
      BY <1>4, <2>1
    <3> QED BY <1>3, <1>5, <2>1, <3>1
  <2>2. CASE Len(sent) # 1
    <3>1. PICK n \in Nat : n = Len(sent)
      BY <1>3
    <3>2. n > 0 /\ n # 1
      BY <1>4, <2>2, <3>1
    <3>3. 1 \in 0 .. n /\ n - 1 \in 0 .. n /\ (1 = n - 1 \/ 1 < n - 1)
      BY <3>2
    <3>4. /\ \A i \in 0 .. n : e[i] \in Nat
          /\ \A i, j \in 0 .. n : i < j => e[i] < e[j]
      BY <1>1, <3>1 DEF Parts, Written
    <3>5. e[1] \in Nat /\ e[n - 1] \in Nat /\ e[1] <= e[n - 1]
      BY <3>3, <3>4
    <3> QED BY <1>6, <3>1, <3>5
  <2> QED BY <2>1, <2>2
<1>9. Unit(L, e, x, x, u, sent, kind) /\ u \in WireUnits
  <2>1. Len(sent) >= 1
    BY <1>3, <1>4
  <2> QED BY <1>7, <2>1, ControlUnit
<1>10. kind # "raw"
  OBVIOUS
<1>11. Ahead(L, e, <<u>>, sent, kind, x, x)
  BY <1>3, <1>5, <1>9, <1>10, OneUnit
<1>12. wire' = wire \o <<u>> /\ <<u>> \in Seq(WireUnits)
  BY <1>3, <1>9
<1>13. rest' = rest
  OBVIOUS
<1> QED BY <1>1, <1>2, <1>5, <1>6, <1>11, <1>12, <1>13, UnitsWritten

LEMMA ReplyStep ==
  ASSUME ShapeInv, Live, ReadReply
  PROVE  Live' /\ UNCHANGED <<sent, got, closed>>
<1>1. PICK L, e, B, p : Parts(L, e, B, p)
  BY DEF Live
<1>2. /\ cpc = "wait" /\ reply # "none" /\ cpc' = (IF sent[Len(sent)].what = "line" /\ reply = "OK" THEN "chunk" ELSE "line")
      /\ reply' = "none" /\ UNCHANGED <<kind, rest, sent, wire, closed, buffer, mode, partial, got>>
  BY DEF ReadReply, server
<1>3. Grammar(sent, Len(got), "wait", mode, reply) /\ sent \in Seq(Records) /\ Len(got) \in 0 .. Len(sent)
  BY <1>1, <1>2, Position DEF Live
<1>4. Grammar(sent, Len(got), cpc', mode, "none")
  BY <1>2, <1>3, GrammarReply
<1>5. Parts(L, e, B, p)'
  BY <1>1, <1>2 DEF Parts
<1> QED BY <1>2, <1>4, <1>5 DEF Live

LEMMA WriteStep ==
  ASSUME ShapeInv, Live, NEW n \in 1 .. Len(rest), NEW type, Write(n, type)
  PROVE  Live' /\ UNCHANGED <<sent, got, closed>>
<1>1. PICK L, e, B, p : Parts(L, e, B, p)
  BY DEF Live
<1>2. Grammar(sent, Len(got), cpc, mode, reply)
  BY DEF Live
<1>3. PICK part : part = SubSeq(rest, 1, n)
  OBVIOUS
<1>4. UNCHANGED <<kind, cpc, sent, got, mode, reply, partial, buffer, closed>> /\ rest' = SubSeq(rest, n + 1, Len(rest))
  BY DEF Write, server
<1>5. /\ sent \in Seq(Records) /\ Len(sent) \in Nat /\ wire \in Seq(WireUnits) /\ Len(wire) \in Nat
      /\ rest \in Bytes /\ Len(rest) \in Nat /\ e[Len(sent)] \in Nat
      /\ \A k \in 0 .. Len(wire) : p[k] \in Nat /\ p[k] <= e[Len(sent)]
      /\ p[Len(wire)] + Len(rest) = e[Len(sent)]
  BY <1>1, Position
<1>6. PICK x \in Nat, l \in Nat, z \in Nat : /\ x = p[Len(wire)] /\ l = Len(rest) /\ z = e[Len(sent)] /\ x + l = z
  BY <1>5
<1>7. n \in 1 .. l /\ n \in 0 .. l /\ n \in Nat /\ n > 0 /\ x + n <= z /\ x + n \in Nat /\ x < x + n
  BY <1>6
<1>8. Agrees(L, x, rest)
  BY <1>1, <1>6 DEF Parts, Placed, Agrees
<1>9. /\ part \in Bytes /\ Len(part) = n /\ Agrees(L, x, part)
      /\ Len(rest') = l - n /\ Agrees(L, x + n, rest')
  <2>1. n \in 0 .. Len(rest)
    BY <1>6, <1>7
  <2> QED BY <1>3, <1>4, <1>5, <1>6, <1>8, <2>1, SplitBytes
<1>10. Len(sent) > 0
  <2> SUFFICES ASSUME Len(sent) = 0 PROVE FALSE
    BY <1>5
  <2>1. z = 0
    BY <1>1, <1>6 DEF Parts, Written
  <2> QED BY <1>6, <1>7, <2>1
<1>11. PICK t \in Nat : t = Len(sent) /\ t > 0
  BY <1>5, <1>10
<1>12. /\ e[t - 1] <= x
       /\ kind = "websocket" /\ sent[t].what = "line" /\ rest # <<>> => e[t - 1] = x
  BY <1>1, <1>6, <1>11 DEF Parts, Placed
<1>13. t \in 1 .. t /\ t - 1 \in 0 .. t /\ t \in 0 .. t /\ 1 \in 0 .. t
  BY <1>11
<1>14. e[t - 1] \in Nat /\ e[1] \in Nat /\ sent[t].what \in {"head", "line", "chunk"}
  <2>1. \A i \in 0 .. t : e[i] \in Nat
    BY <1>1, <1>11 DEF Parts, Written
  <2>2. sent[t] \in Records
    BY <1>5, <1>11, <1>13
  <2> QED BY <1>13, <2>1, <2>2 DEF Records
<1>15. e[t - 1] <= x + n
  BY <1>6, <1>7, <1>12, <1>14
<1>16. (x + n) + Len(rest') = z
  <2>1. x \in Nat /\ n \in Nat /\ l \in Nat
    BY <1>7
  <2>2. (x + n) + (l - n) = x + l
    BY <2>1, Regrouped, Zenon
  <2> QED BY <1>6, <1>9, <2>2
<1>17. sent[t].what = "head" <=> t = 1
  BY <1>2, <1>5, <1>11, <1>13, HeadIsFirst
<1>18. CASE kind = "raw" \/ sent[t].what = "head"
  <2>1. wire' = wire \o AsUnits(part)
    <3>1. wire' = wire \o [i \in 1 .. n |-> <<"byte", <<part[i]>>>>]
      BY <1>3, <1>11, <1>18 DEF Write
    <3> QED BY <1>9, <3>1 DEF AsUnits
  <2>2. AsUnits(part) \in Seq(WireUnits)
    BY <1>9, ByteUnits
  <2>3. kind = "websocket" => x + n <= e[1]
    BY <1>6, <1>7, <1>11, <1>17, <1>18
  <2>4. Ahead(L, e, AsUnits(part), sent, kind, x, x + n)
    <3>1. Len(sent) >= 1 /\ x + Len(part) <= e[Len(sent)] /\ e[Len(sent)] \in Nat
      BY <1>5, <1>6, <1>7, <1>9, <1>11
    <3>2. kind = "websocket" => x + Len(part) <= e[1]
      BY <1>9, <2>3
    <3>3. Ahead(L, e, AsUnits(part), sent, kind, x, x + Len(part))
      BY <1>5, <1>9, <1>14, <3>1, <3>2, ByteRun
    <3> QED BY <1>9, <3>3
  <2>5. ~(kind = "websocket" /\ sent[t].what = "line")
    BY <1>18
  <2> QED BY <1>1, <1>2, <1>4, <1>6, <1>9, <1>11, <1>15, <1>16, <2>1, <2>2, <2>4, <2>5, UnitsWritten
<1>19. CASE kind = "websocket" /\ sent[t].what # "head"
  <2>1. PICK u : u = <<type, part>>
    OBVIOUS
  <2>2. /\ type \in {"text", "binary"} /\ wire' = Append(wire, u)
        /\ sent[t].what = "line" => n = l
        /\ sent[t].what = "chunk" => type = "binary"
    BY <1>3, <1>6, <1>11, <1>19, <2>1 DEF Write
  <2>3. t \in 2 .. Len(sent) /\ x + n <= e[t]
    BY <1>6, <1>7, <1>11, <1>17, <1>19
  <2>4. sent[t].what = "line" => x = e[t - 1] /\ x + n = e[t] /\ rest' = <<>>
    <3> SUFFICES ASSUME sent[t].what = "line" PROVE x = e[t - 1] /\ x + n = e[t] /\ rest' = <<>>
      OBVIOUS
    <3>1. n = l /\ rest # <<>>
      BY <1>6, <1>7, <2>2
    <3>2. x = e[t - 1] /\ x + n = e[t]
      BY <1>6, <1>11, <1>12, <1>19, <3>1
    <3>3. Len(rest') = 0 /\ rest' \in Bytes
      <4>1. n \in 0 .. Len(rest)
        BY <1>6, <1>7
      <4>2. rest' \in Bytes
        BY <1>4, <1>5, <1>6, <1>8, <4>1, SplitBytes
      <4> QED BY <1>9, <3>1, <4>2
    <3>4. rest' = <<>>
      BY <3>3 DEF Bytes
    <3> QED BY <3>2, <3>4
  <2>5. Unit(L, e, x, x + n, u, sent, kind)
    BY <1>5, <1>7, <1>9, <1>12, <1>19, <2>1, <2>2, <2>3, <2>4, PartUnit
  <2>6. u \in WireUnits
    BY <1>9, <2>1, <2>2 DEF WireUnits
  <2>7. Ahead(L, e, <<u>>, sent, kind, x, x + n)
    <3>1. kind # "raw" /\ x <= x + n /\ x + n <= e[Len(sent)]
      BY <1>6, <1>7, <1>19
    <3> QED BY <1>5, <1>7, <2>5, <2>6, <3>1, OneUnit
  <2>8. wire' = wire \o <<u>> /\ <<u>> \in Seq(WireUnits)
    BY <1>5, <2>2, <2>6
  <2> QED BY <1>1, <1>2, <1>4, <1>6, <1>9, <1>11, <1>15, <1>16, <2>4, <2>7, <2>8, UnitsWritten
<1>20. kind = "raw" \/ kind = "websocket"
  BY DEF ShapeInv
<1> QED BY <1>18, <1>19, <1>20

LEMMA CloseStep ==
  ASSUME ShapeInv, Live, ClientClose
  PROVE  Live' /\ UNCHANGED <<sent, got>> /\ ~closed /\ closed' = TRUE
<1>1. ~closed /\ closed' = TRUE /\ UNCHANGED <<kind, cpc, rest, sent, got, mode, reply, partial, buffer>>
  BY DEF ClientClose, Writable, client, server
<1>2. PICK u \in Control : u = <<"close", <<>>>>
  BY DEF Control
<1>3. wire' = wire \/ (wire' = Append(wire, u) /\ kind = "websocket" /\ cpc # "head" /\ rest = <<>>)
  BY <1>2 DEF ClientClose
<1>4. CASE wire' = wire
  <2>1. PICK L, e, B, p : Parts(L, e, B, p)
    BY DEF Live
  <2>2. Parts(L, e, B, p)'
    BY <1>1, <1>4, <2>1 DEF Parts
  <2>3. Grammar(sent, Len(got), cpc, mode, reply)
    BY DEF Live
  <2>4. Live'
    BY <1>1, <2>2, <2>3 DEF Live
  <2> QED BY <1>1, <2>4
<1>5. CASE wire' = Append(wire, u) /\ kind = "websocket" /\ cpc # "head" /\ rest = <<>>
  BY <1>1, <1>5, ControlStep
<1> QED BY <1>3, <1>4, <1>5

LEMMA PingStep ==
  ASSUME ShapeInv, Live, WritePing
  PROVE  Live' /\ UNCHANGED <<sent, got, closed>>
<1>1. /\ kind = "websocket" /\ cpc # "head" /\ (sent[Len(sent)].what = "head" => rest = <<>>)
      /\ UNCHANGED <<kind, cpc, rest, sent, got, mode, reply, partial, buffer, closed>>
  BY DEF WritePing, client, server
<1>2. PICK u \in Control : u = <<"ping", <<>>>>
  BY DEF Control
<1>3. wire' = Append(wire, u)
  BY <1>2 DEF WritePing
<1> QED BY <1>1, <1>3, ControlStep

-----------------------------------------------------------------------------
(* The invariant, and what follows from it. *)

ClientStep ==
  /\ Live' /\ UNCHANGED <<got, error>>
  /\ \/ UNCHANGED <<sent, closed>>
     \/ ~closed /\ closed' = closed /\ \E m \in AllMessages : sent' = Append(sent, m)
     \/ ~closed /\ closed' = TRUE /\ sent' = sent
ServerStep == UNCHANGED <<sent, closed>> /\ (Waits \/ Receives \/ TakesCut \/ Ends)

LEMMA StepInStep ==
  ASSUME ShapeInv, Next, InStep'
  PROVE  InStep
<1>1. sent \in Seq(Records)
  BY DEF ShapeInv
<1>2. CASE Client
  <2>1. ASSUME NEW what, NEW b, Begin(what, b) PROVE \E m : sent' = Append(sent, m)
    BY <2>1 DEF Begin
  <2>2. (\E m : sent' = Append(sent, m)) \/ sent' = sent
    BY <1>2, <2>1 DEF Client, Write, WritePing, ReadReply, ClientClose, client
  <2> QED BY <1>1, <2>2, StayedInStep
<1>3. CASE Server \/ Ended
  <2>1. sent' = sent
    BY <1>3 DEF Server, ReadHead, Fill, ReadLine, ReadChunk, ReadFrame, Eof, Timeout, Ended, vars, client
  <2> QED BY <1>1, <2>1, StayedInStep
<1> QED BY <1>2, <1>3 DEF Next

LEMMA Steps ==
  ASSUME ShapeInv, ShapeInv', ReadInv, mode # "ended", Next, InStep, InStep'
  PROVE  ClientStep \/ ServerStep
<1>1. CASE CutOff
  <2>1. Ends
    BY <1>1, CutOffStep
  <2>2. closed
    BY <1>1 DEF CutOff, LineCut
  <2>3. ~Client /\ ~Ended
    BY <2>2 DEF Client, Begin, Write, WritePing, ReadReply, ClientClose, Writable, Ended
  <2>4. UNCHANGED <<sent, closed>>
    BY <2>3 DEF Next, Server, ReadHead, Fill, ReadLine, ReadChunk, ReadFrame, Eof, Timeout, client
  <2> QED BY <2>1, <2>4 DEF ServerStep
<1>2. CASE Live
  <2>1. ASSUME NEW what \in {"head", "line", "chunk"}, NEW b, Begin(what, b) PROVE ClientStep
    <3>1. error' = error
      BY <2>1 DEF Begin, server
    <3>2. Live' /\ ~closed /\ closed' = closed /\ got' = got /\ \E m \in AllMessages : sent' = Append(sent, m)
      BY <1>2, <2>1, BeginStep
    <3> QED BY <3>1, <3>2 DEF ClientStep
  <2>2. ASSUME NEW n \in 1 .. Len(rest), NEW type, Write(n, type) PROVE ClientStep
    <3>1. error' = error
      BY <2>2 DEF Write, server
    <3> QED BY <1>2, <2>2, <3>1, WriteStep DEF ClientStep
  <2>3. CASE WritePing
    <3>1. error' = error
      BY <2>3 DEF WritePing, server
    <3> QED BY <1>2, <2>3, <3>1, PingStep DEF ClientStep
  <2>4. CASE ReadReply
    <3>1. error' = error
      BY <2>4 DEF ReadReply, server
    <3> QED BY <1>2, <2>4, <3>1, ReplyStep DEF ClientStep
  <2>5. CASE ClientClose
    <3>1. error' = error
      BY <2>5 DEF ClientClose, server
    <3> QED BY <1>2, <2>5, <3>1, CloseStep DEF ClientStep
  <2>6. CASE Server
    <3>1. UNCHANGED <<sent, closed>>
      BY <2>6 DEF Server, ReadHead, Fill, ReadLine, ReadChunk, ReadFrame, Eof, Timeout, client
    <3>2. Waits \/ Receives \/ TakesCut \/ Ends
      BY <1>2, <2>6, HeadStep, FillStep, LineStep, ChunkStep, FrameStep, EofStep, TimeoutStep DEF Server
    <3> QED BY <3>1, <3>2 DEF ServerStep
  <2>7. CASE Client
    BY <2>1, <2>2, <2>3, <2>4, <2>5, <2>7 DEF Client
  <2>8. ~Ended
    BY DEF Ended
  <2> QED BY <2>6, <2>7, <2>8 DEF Next
<1> QED BY <1>1, <1>2 DEF ReadInv

LEMMA ReadInit == Init => ReadInv
<1> SUFFICES ASSUME Init PROVE ReadInv
  OBVIOUS
<1>1. /\ sent = <<>> /\ got = <<>> /\ wire = <<>> /\ buffer = <<>> /\ partial = <<>> /\ rest = <<>>
      /\ cpc = "head" /\ mode = "head" /\ reply = "none" /\ error = "none"
  BY DEF Init
<1>2. PICK z : z = [i \in 0 .. 0 |-> 0]
  OBVIOUS
<1>3. z[0] = 0 /\ \A i \in 0 .. 0 : i = 0
  BY <1>2
<1>4. Len(sent) = 0 /\ Len(got) = 0 /\ Len(wire) = 0 /\ Len(buffer) = 0 /\ Len(partial) = 0 /\ Len(rest) = 0
  BY <1>1
<1>5. \A i \in 1 .. 0 : FALSE
  OBVIOUS
<1>6. Written(z, z, z, sent)
  <2>1. \A i, j \in 0 .. 0 : ~(i < j)
    OBVIOUS
  <2> QED BY <1>3, <1>4, <1>5, <2>1 DEF Written
<1>7. InFlight(z, z, z, wire, sent, kind)
  <2>1. \A k \in 0 .. 0 : z[k] \in Nat /\ z[k] = z[0] + k
    BY <1>3
  <2>2. \A k, l \in 0 .. 0 : z[k] <= z[l]
    BY <1>3
  <2> QED BY <1>3, <1>4, <1>5, <2>1, <2>2 DEF InFlight
<1>8. Placed(z, z, z, sent, Len(got), partial, buffer, wire, rest, kind)
  <2>1. 0 \in 0 .. 0 /\ z[0] = z[0] + 0 + 0 /\ z[0] + 0 = z[0] /\ ~(0 > 0) /\ ~(0 < 0)
    BY <1>3
  <2> QED BY <1>4, <1>5, <2>1 DEF Placed
<1>9. Grammar(sent, Len(got), cpc, mode, reply)
  BY <1>1, <1>4, <1>5 DEF Grammar, NextOf, Waiting
<1>10. Live
  BY <1>6, <1>7, <1>8, <1>9 DEF Live, Parts
<1> QED BY <1>1, <1>10 DEF ReadInv, BlameIsDeserved, NothingIsLost

LEMMA ReadNext ==
  ASSUME ShapeInv, ShapeInv', ReadInv, [Next]_vars
  PROVE  ReadInv'
<1>1. CASE UNCHANGED vars
  <2>1. UNCHANGED <<kind, cpc, rest, sent, wire, closed, buffer, mode, partial, error, got, reply>>
    BY <1>1 DEF vars, client, server
  <2>2. Live => Live'
    <3> SUFFICES ASSUME Live PROVE Live'
      OBVIOUS
    <3>1. PICK L, e, B, p : Parts(L, e, B, p)
      BY DEF Live
    <3>2. Parts(L, e, B, p)'
      BY <2>1, <3>1 DEF Parts
    <3> QED BY <2>1, <3>2 DEF Live
  <2>3. (CutOff => CutOff') /\ (InStep' => InStep)
    BY <2>1 DEF CutOff, LineCut, InStep
  <2>4. BlameIsDeserved' /\ NothingIsLost'
    BY <2>1, <2>3 DEF ReadInv, BlameIsDeserved, NothingIsLost
  <2> QED BY <2>1, <2>2, <2>3, <2>4 DEF ReadInv
<1>2. CASE Next /\ mode = "ended"
  <2>1. ~Client /\ ~Server
    BY <1>2 DEF Client, Begin, Write, WritePing, ReadReply, ClientClose, Writable,
                Server, ReadHead, Fill, ReadLine, ReadChunk, ReadFrame, Eof, Timeout, Starved
  <2>2. UNCHANGED vars
    BY <1>2, <2>1 DEF Next, Ended
  <2> QED BY <1>1, <2>2
<1>3. CASE Next /\ mode # "ended"
  <2>1. CASE ~InStep'
    BY <2>1 DEF ReadInv, BlameIsDeserved, NothingIsLost
  <2>2. CASE InStep'
    <3>1. InStep
      BY <1>3, <2>2, StepInStep
    <3>2. error = "none"
      BY <1>3, <3>1 DEF ReadInv
    <3>3. CASE Ends
      BY <3>3 DEF Ends, ReadInv
    <3>4. CASE error' = error /\ (Live' \/ CutOff')
      BY <3>2, <3>4 DEF ReadInv, BlameIsDeserved, NothingIsLost
    <3> QED BY <1>3, <2>2, <3>1, <3>3, <3>4, Steps DEF ClientStep, ServerStep, Waits, Receives, TakesCut
  <2> QED BY <2>1, <2>2
<1> QED BY <1>1, <1>2, <1>3

LEMMA ReadAlways == Spec => []ReadInv
<1>1. ShapeInv /\ ShapeInv' /\ ReadInv /\ [Next]_vars => ReadInv'
  BY ReadNext
<1> QED BY <1>1, ReadInit, ShapeAlways, PTL DEF Spec

\* Whatever the sizes and however TCP and the client cut the bytes:
\* Stream::read_line and detect_and_upgrade answer InvalidData to a client that
\* is in step only for a line or a head that is too long, or a line that is no
\* UTF-8.
THEOREM BlamesRightly == Spec => []BlameIsDeserved
<1>1. ReadInv => BlameIsDeserved
  BY DEF ReadInv
<1> QED BY <1>1, ReadAlways, PTL

\* A read that times out or meets the end of file has first handed over every
\* message that a client in step has written completely: none is left in the
\* transport, in the BufReader or in a frame.
THEOREM LosesNothing == Spec => []NothingIsLost
<1>1. ReadInv => NothingIsLost
  BY DEF ReadInv
<1> QED BY <1>1, ReadAlways, PTL

\* The reads of the server implement a channel of whole messages: the head, the
\* lines and the chunks of a client arrive in order, each once and as it was
\* sent (but for bytes that are no UTF-8 in a line), also when its chunks are in
\* the BufReader before its PUT is handled; as long as it sends none behind a
\* PUT that is refused, and until the end of file cuts a line.
THEOREM ImplementsChannel == Spec => ReadsAreWhole
<1>1. Init => Reads!Init
  BY DEF Init, Reads!Init
<1>2. ShapeInv /\ ShapeInv' /\ ReadInv /\ [Next]_vars =>
        [InStep' /\ ~LineCut' => Reads!Next]_<<sent, got, closed>>
  <2> SUFFICES ASSUME ShapeInv, ShapeInv', ReadInv, [Next]_vars, InStep', ~LineCut'
               PROVE  Reads!Next \/ UNCHANGED <<sent, got, closed>>
    OBVIOUS
  <2>1. CASE UNCHANGED vars
    BY <2>1 DEF vars, client, server
  <2>2. CASE Next /\ mode = "ended"
    <3>1. UNCHANGED vars
      BY <2>2 DEF Next, Ended, Client, Begin, Write, WritePing, ReadReply, ClientClose, Writable,
                  Server, ReadHead, Fill, ReadLine, ReadChunk, ReadFrame, Eof, Timeout, Starved
    <3> QED BY <2>1, <3>1
  <2>3. CASE Next /\ mode # "ended"
    <3>1. ClientStep \/ ServerStep
      BY <2>3, StepInStep, Steps
    <3>2. CASE ClientStep
      BY <3>2 DEF ClientStep, Reads!Next, Reads!Send, Reads!Close
    <3>3. CASE ServerStep
      <4>1. UNCHANGED <<sent, closed>> /\ ~TakesCut
        BY <3>3 DEF ServerStep, TakesCut, CutOff
      <4>2. CASE Waits \/ Ends
        BY <4>1, <4>2 DEF Waits, Ends
      <4>3. CASE Receives
        BY <4>1, <4>3 DEF Receives, Reads!Next, Reads!Receive
      <4> QED BY <3>3, <4>1, <4>2, <4>3 DEF ServerStep
    <3> QED BY <3>1, <3>2, <3>3
  <2> QED BY <2>1, <2>2, <2>3
<1> QED BY <1>1, <1>2, ReadAlways, ShapeAlways, PTL DEF Spec, ReadsAreWhole
=============================================================================
