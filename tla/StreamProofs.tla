---------------------------- MODULE StreamProofs ----------------------------
(***************************************************************************)
(* Proofs about Stream, for every chunk size, line limit, buffer size and  *)
(* number of messages: the types, and the framing of downloads.            *)
(***************************************************************************)
EXTENDS Stream, TLAPS, WellFoundedInduction, NaturalsInduction

\* The provers do not know of a string that it is one.
Symbols == STRING \cup {"FFFD"}
Bytes == Seq(Symbols)
WireUnits == {"byte", "text", "binary", "ping", "close"} \X Bytes
Records == [what : {"head", "line", "chunk"}, bytes : Bytes]

-----------------------------------------------------------------------------
(* Helpers on sequences of bytes. *)

\* A set of natural numbers that is not empty has a least element.
LEMMA LeastNatural ==
  ASSUME NEW T, T \subseteq Nat, T # {}
  PROVE  \E x \in T : \A y \in T : x <= y
<1> DEFINE R == OpToRel(<, Nat)
<1>1. IsWellFoundedOn(R, Nat)
  BY NatLessThanWellFounded
<1>2. \A x, y \in Nat : y < x => <<y, x>> \in R
  BY DEF OpToRel
<1> HIDE DEF R
<1>3. PICK x \in T : \A y \in T : ~(<<y, x>> \in R)
  BY <1>1, WFMin, Zenon
<1>4. \A y \in T : ~(y < x)
  BY <1>2, <1>3, Zenon
<1>5. \A y \in T : x \in Nat /\ y \in Nat /\ x <= y
  BY <1>4
<1> QED
  BY <1>5

\* Two sequences are equal if they are as long and agree byte by byte.
LEMMA SameBytes ==
  ASSUME NEW s \in Bytes, NEW t \in Bytes, Len(s) = Len(t), \A i \in 1 .. Len(s) : s[i] = t[i]
  PROVE  s = t
BY DEF Bytes

\* The bytes of a part, and of two parts put together.
LEMMA PartBytes ==
  ASSUME NEW s \in Bytes, NEW m \in 1 .. Len(s) + 1, NEW n \in 0 .. Len(s), m <= n + 1
  PROVE  /\ SubSeq(s, m, n) \in Bytes /\ Len(SubSeq(s, m, n)) = n + 1 - m
         /\ \A i \in 1 .. n + 1 - m : SubSeq(s, m, n)[i] = s[m + i - 1]
BY DEF Bytes

LEMMA JoinBytes ==
  ASSUME NEW s \in Bytes, NEW t \in Bytes
  PROVE  /\ s \o t \in Bytes /\ Len(s \o t) = Len(s) + Len(t)
         /\ \A i \in 1 .. Len(s) : (s \o t)[i] = s[i]
         /\ \A i \in 1 .. Len(t) : (s \o t)[Len(s) + i] = t[i]
BY DEF Bytes

LEMMA JoinSeq ==
  ASSUME NEW S, NEW s \in Seq(S), NEW t \in Seq(S), NEW u, u = s \o t
  PROVE  /\ u \in Seq(S) /\ Len(u) = Len(s) + Len(t) /\ Len(s) \in Nat /\ Len(t) \in Nat
         /\ \A i \in 1 .. Len(s) : u[i] = s[i]
         /\ \A i \in 1 .. Len(t) : u[Len(s) + i] = t[i]
OBVIOUS

\* What is left when a byte is stripped.
LEMMA StripBytes ==
  ASSUME NEW s \in Bytes, NEW b
  PROVE  LET r == StripLast(s, b)
         IN  /\ r \in Bytes /\ Len(r) <= Len(s)
             /\ \A i \in 1 .. Len(r) : r[i] = s[i]
             /\ Len(s) > 0 /\ s[Len(s)] = b => Len(r) = Len(s) - 1
             /\ Len(s) = 0 \/ s[Len(s)] # b => r = s
<1>1. CASE s # <<>> /\ Last(s) = b
  <2>1. Len(s) \in Nat /\ Len(s) >= 1 /\ StripLast(s, b) = SubSeq(s, 1, Len(s) - 1)
    BY <1>1 DEF StripLast, Front, Bytes
  <2>2. 1 \in 1 .. Len(s) + 1 /\ Len(s) - 1 \in 0 .. Len(s) /\ 1 <= (Len(s) - 1) + 1
    BY <2>1
  <2> DEFINE r == SubSeq(s, 1, Len(s) - 1)
  <2>3. /\ r \in Bytes /\ Len(r) = (Len(s) - 1) + 1 - 1
        /\ \A i \in 1 .. (Len(s) - 1) + 1 - 1 : r[i] = s[1 + i - 1]
    BY <2>2, PartBytes
  <2> HIDE DEF r
  <2>4. Len(r) = Len(s) - 1 /\ \A i \in 1 .. Len(r) : r[i] = s[i]
    BY <2>1, <2>3
  <2> QED BY <1>1, <2>1, <2>3, <2>4 DEF Last, r
<1>2. CASE ~(s # <<>> /\ Last(s) = b)
  <2>1. StripLast(s, b) = s
    BY <1>2 DEF StripLast
  <2>2. ~(Len(s) > 0 /\ s[Len(s)] = b)
    BY <1>2 DEF Last, Bytes
  <2>3. Len(s) \in Nat
    BY DEF Bytes
  <2> QED BY <2>1, <2>2, <2>3
<1> QED BY <1>1, <1>2

\* The line in some bytes is a beginning of them.
LEMMA LineBytes ==
  ASSUME NEW s \in Bytes
  PROVE  /\ LineOf(s) \in Bytes /\ Len(LineOf(s)) <= Len(s)
         /\ \A i \in 1 .. Len(LineOf(s)) : LineOf(s)[i] = s[i]
<1> DEFINE t == StripLast(s, "LF")
<1>1. t \in Bytes /\ Len(t) <= Len(s) /\ \A i \in 1 .. Len(t) : t[i] = s[i]
  BY StripBytes
<1> DEFINE r == StripLast(t, "CR")
<1>2. r \in Bytes /\ Len(r) <= Len(t) /\ \A i \in 1 .. Len(r) : r[i] = t[i]
  BY <1>1, StripBytes
<1>3. LineOf(s) = r
  BY DEF LineOf
<1>4. Len(r) \in Nat /\ Len(t) \in Nat /\ Len(s) \in Nat
  BY <1>1, <1>2 DEF Bytes
<1> HIDE DEF r, t
<1> QED BY <1>1, <1>2, <1>3, <1>4

\* trim_end_matches: it stops at the first byte from the end that is another.
LEMMA TrimBytes ==
  ASSUME NEW s \in Bytes, NEW b
  PROVE  \E n \in 0 .. Len(s) :
           /\ TrimEnd(s, b) = SubSeq(s, 1, n)
           /\ n = 0 \/ s[n] # b
           /\ \A j \in n + 1 .. Len(s) : s[j] = b
<1> DEFINE keep == {i \in 0 .. Len(s) : \A j \in i + 1 .. Len(s) : s[j] = b}
<1>0. Len(s) \in Nat
  BY DEF Bytes
<1>1. keep \subseteq Nat /\ Len(s) \in keep
  BY <1>0
<1>2. \E i \in keep : \A j \in keep : i <= j
  <2> HIDE DEF keep
  <2> QED BY <1>1, LeastNatural
<1> DEFINE n == CHOOSE i \in keep : \A j \in keep : i <= j
<1>3. n \in keep /\ \A j \in keep : n <= j
  BY <1>2
<1>4. TrimEnd(s, b) = SubSeq(s, 1, n)
  BY DEF TrimEnd
<1> HIDE DEF n
<1>5. n \in 0 .. Len(s) /\ \A j \in n + 1 .. Len(s) : s[j] = b
  BY <1>3
<1>6. n = 0 \/ s[n] # b
  <2> SUFFICES ASSUME n # 0, s[n] = b PROVE FALSE
    OBVIOUS
  <2>1. n - 1 \in 0 .. Len(s)
    BY <1>0, <1>5
  <2>2. \A j \in (n - 1) + 1 .. Len(s) : j = n \/ j \in n + 1 .. Len(s)
    BY <1>0, <1>5
  <2>3. n - 1 \in keep
    BY <1>5, <2>1, <2>2
  <2>4. n <= n - 1
    BY <1>3, <2>3
  <2> QED BY <1>0, <1>5, <2>4
<1> QED BY <1>4, <1>5, <1>6

\* The bytes of a converted text.
LEMMA LossyBytes ==
  ASSUME NEW s \in Bytes
  PROVE  /\ Lossy(s) \in Bytes /\ Len(Lossy(s)) = Len(s)
         /\ \A i \in 1 .. Len(s) : Lossy(s)[i] = IF s[i] = "FF" THEN "FFFD" ELSE s[i]
<1>1. Len(s) \in Nat /\ \A i \in 1 .. Len(s) : s[i] \in Symbols
  BY DEF Bytes
<1>2. ASSUME NEW i \in 1 .. Len(s) PROVE (IF s[i] = "FF" THEN "FFFD" ELSE s[i]) \in Symbols
  <2>1. "FFFD" \in Symbols /\ s[i] \in Symbols
    BY <1>1 DEF Symbols
  <2> QED BY <2>1, Zenon
<1>3. Lossy(s) \in [1 .. Len(s) -> Symbols]
  BY <1>2 DEF Lossy
<1>4. Lossy(s) \in Seq(Symbols) /\ Len(Lossy(s)) = Len(s)
  BY <1>1, <1>3
<1>5. \A i \in 1 .. Len(s) : Lossy(s)[i] = IF s[i] = "FF" THEN "FFFD" ELSE s[i]
  BY DEF Lossy
<1> QED BY <1>4, <1>5 DEF Bytes

\* What a client sends is bytes.
LEMMA SentBytes == Heads \subseteq Bytes /\ Lines \subseteq Bytes /\ Chunks \subseteq Bytes
<1>1. Seq(STRING) \subseteq Seq(Symbols)
  BY DEF Symbols
<1> QED BY <1>1, BytesAssumption DEF Bytes

LEMMA TextLineBytes ==
  ASSUME NEW s \in Bytes
  PROVE  TextLineOf(s) \in Bytes
<1>1. PICK n \in 0 .. Len(s) : TrimEnd(s, "LF") = SubSeq(s, 1, n)
  BY TrimBytes
<1> DEFINE t == TrimEnd(s, "LF")
<1>2. t \in Bytes
  BY <1>1 DEF Bytes
<1> HIDE DEF t
<1>3. PICK m \in 0 .. Len(t) : TrimEnd(t, "CR") = SubSeq(t, 1, m)
  BY <1>2, TrimBytes
<1>4. TrimEnd(t, "CR") \in Bytes
  BY <1>2, <1>3 DEF Bytes
<1> QED BY <1>4 DEF TextLineOf, t

\* A function on an initial segment is a sequence.
LEMMA FunctionIsSeq ==
  ASSUME NEW S, NEW n \in Nat, NEW f \in [1 .. n -> S]
  PROVE  f \in Seq(S) /\ Len(f) = n
OBVIOUS

\* The smaller of two numbers.
LEMMA Smaller ==
  ASSUME NEW a \in Int, NEW b \in Int, NEW c, c = IF a < b THEN a ELSE b
  PROVE  c \in Int /\ c <= a /\ c <= b /\ (c = a \/ c = b)
OBVIOUS

\* The units a raw client, or one in its head, writes.
AsUnits(part) == [i \in 1 .. Len(part) |-> <<"byte", <<part[i]>>>>]

LEMMA ByteUnits ==
  ASSUME NEW part \in Bytes
  PROVE  /\ AsUnits(part) \in Seq(WireUnits) /\ Len(AsUnits(part)) = Len(part)
         /\ \A i \in 1 .. Len(part) :
              /\ AsUnits(part)[i] = <<"byte", <<part[i]>>>>
              /\ Len(AsUnits(part)[i][2]) = 1 /\ AsUnits(part)[i][2][1] = part[i]
<1>0. Len(part) \in Nat
  BY DEF Bytes
<1>1. ASSUME NEW i \in 1 .. Len(part) PROVE <<"byte", <<part[i]>>>> \in WireUnits
  <2>1. part[i] \in Symbols
    BY DEF Bytes
  <2>2. <<part[i]>> \in Bytes
    BY <2>1 DEF Bytes
  <2> QED BY <2>2 DEF WireUnits
<1>2. AsUnits(part) \in [1 .. Len(part) -> WireUnits]
  BY <1>1 DEF AsUnits
<1>3. AsUnits(part) \in Seq(WireUnits) /\ Len(AsUnits(part)) = Len(part)
  BY <1>0, <1>2, FunctionIsSeq
<1>4. \A i \in 1 .. Len(part) : AsUnits(part)[i] = <<"byte", <<part[i]>>>>
  BY DEF AsUnits
<1>5. \A i \in 1 .. Len(part) : AsUnits(part)[i][2] = <<part[i]>>
  BY <1>4
<1>6. \A i \in 1 .. Len(part) : Len(<<part[i]>>) = 1 /\ <<part[i]>>[1] = part[i]
  OBVIOUS
<1> QED BY <1>3, <1>4, <1>5, <1>6

-----------------------------------------------------------------------------
(* Types, and the framing of downloads. *)

\* The inductive invariant: TypeOK and DownloadIntact with the types of what
\* is in flight, and that a part of a line is held by a raw reader only.
ShapeInv ==
  /\ kind \in {"raw", "websocket"} /\ cpc \in {"head", "line", "chunk", "early", "wait"}
  /\ mode \in {"head", "line", "chunk", "ended"} /\ closed \in BOOLEAN
  /\ reply \in {"none", "OK", "ERR"}
  /\ rest \in Bytes /\ buffer \in Bytes /\ partial \in Bytes
  /\ wire \in Seq(WireUnits) /\ sent \in Seq(Records) /\ got \in Seq(Records)
  /\ Len(buffer) <= BufSize
  /\ Len(wire) <= WireBound + 1 /\ (~closed => Len(wire) <= WireBound)
  /\ kind = "raw" => \A k \in 1 .. Len(wire) : Len(wire[k][2]) = 1
  /\ mode = "line" => Len(partial) <= MAX_LINE_LENGTH /\ (kind = "websocket" => partial = <<>>)
  /\ mode = "chunk" => Len(partial) < CHUNK_SIZE
  /\ mode = "head" => Len(partial) <= MAX_HEAD
  /\ mode = "head" \/ kind = "websocket" => buffer = <<>>
  /\ DownloadIntact

\* What the command loop does with a line or a chunk.
Handled ==
  /\ mode' \in {"line", "chunk"} /\ reply' \in {"none", "OK", "ERR"}
  /\ got' \in Seq(Records) /\ DownloadIntact'

LEMMA RecordType ==
  \A what \in {"head", "line", "chunk"}, b \in Bytes : Message(what, b) \in Records
BY DEF Message, Records

LEMMA LineShape ==
  ASSUME ShapeInv, NEW s \in Bytes, HandleLine(s)
  PROVE  Handled
<1>1. Message("line", s) \in Records /\ got \in Seq(Records)
  BY RecordType DEF ShapeInv
<1>2. got' \in Seq(Records)
  BY <1>1 DEF HandleLine
<1>3. mode' \in {"line", "chunk"} /\ reply' \in {"none", "OK", "ERR"}
  BY DEF HandleLine, ShapeInv
<1>4. \A c \in Chunks : write_all(c) = c
  <2> SUFFICES ASSUME NEW c \in Chunks PROVE write_all(c) = c
    OBVIOUS
  <2>1. Len(c) = CHUNK_SIZE
    BY BytesAssumption
  <2> QED BY <2>1, SizesAssumption DEF write_all
<1>5. DownloadIntact'
  <2>1. down' = down \/ \E c \in Chunks : down' = write_all(c)
    BY DEF HandleLine
  <2> QED BY <1>4, <2>1 DEF DownloadIntact, ShapeInv
<1> QED BY <1>2, <1>3, <1>5 DEF Handled

LEMMA ChunkShape ==
  ASSUME ShapeInv, NEW s \in Bytes, HandleChunk(s)
  PROVE  Handled
<1>1. Message("chunk", s) \in Records /\ got \in Seq(Records)
  BY RecordType DEF ShapeInv
<1>2. got' \in Seq(Records)
  BY <1>1 DEF HandleChunk
<1> QED BY <1>2 DEF HandleChunk, ShapeInv, Handled, DownloadIntact

LEMMA FailShape ==
  ASSUME ShapeInv, NEW e, Fail(e)
  PROVE  /\ mode' = "ended" /\ reply' \in {"none", "OK", "ERR"}
         /\ got' \in Seq(Records) /\ DownloadIntact'
BY DEF ShapeInv, Fail, DownloadIntact

LEMMA FinishShape ==
  ASSUME ShapeInv, NEW s \in Bytes, FinishLine(s)
  PROVE  /\ partial' = <<>> /\ mode' \in {"line", "chunk", "ended"} /\ reply' \in {"none", "OK", "ERR"}
         /\ got' \in Seq(Records) /\ DownloadIntact'
<1>1. LineOf(s) \in Bytes
  BY LineBytes
<1>2. partial' = <<>> /\ (Fail("InvalidData") \/ HandleLine(LineOf(s)))
  BY DEF FinishLine
<1> QED BY <1>1, <1>2, LineShape, FailShape DEF Handled

\* How much of the buffer a read of a line takes.
LEMMA TakenBytes ==
  ASSUME ShapeInv, mode = "line", buffer # <<>>
  PROVE  LET t == Taken(buffer)
         IN  /\ t \in 1 .. Len(buffer) /\ Len(partial) + t <= MAX_LINE_LENGTH + 1
             /\ \A j \in 1 .. t - 1 : buffer[j] # "LF"
             /\ buffer[t] = "LF" \/ t = Len(buffer) \/ Len(partial) + t = MAX_LINE_LENGTH + 1
<1> DEFINE stops == {i \in DOMAIN buffer : buffer[i] = "LF"}
           limit == MAX_LINE_LENGTH + 1 - Len(partial)
           end == IF stops = {} THEN Len(buffer) ELSE CHOOSE i \in stops : \A j \in stops : i <= j
<1>0. /\ DOMAIN buffer = 1 .. Len(buffer) /\ Len(buffer) \in Nat /\ Len(buffer) >= 1
      /\ Len(partial) \in Nat /\ Len(partial) <= MAX_LINE_LENGTH /\ MAX_LINE_LENGTH \in Nat
  BY SizesAssumption DEF ShapeInv, Bytes
<1>1. stops \subseteq 1 .. Len(buffer) /\ \A i \in 1 .. Len(buffer) : i \in stops <=> buffer[i] = "LF"
  BY <1>0
<1>2. limit \in Nat /\ limit >= 1
  BY <1>0
<1>3. /\ end \in 1 .. Len(buffer) /\ \A j \in 1 .. end - 1 : buffer[j] # "LF"
      /\ buffer[end] = "LF" \/ end = Len(buffer)
  <2>1. CASE stops = {}
    BY <1>0, <1>1, <2>1
  <2>2. CASE stops # {}
    <3> HIDE DEF stops
    <3>1. stops \subseteq Nat
      BY <1>1
    <3>2. \E i \in stops : \A j \in stops : i <= j
      BY <2>2, <3>1, LeastNatural
    <3>3. end \in stops /\ \A j \in stops : end <= j
      BY <2>2, <3>2
    <3> HIDE DEF end
    <3>4. ASSUME NEW j \in 1 .. end - 1 PROVE buffer[j] # "LF"
      BY <1>0, <1>1, <3>3
    <3> QED BY <1>1, <3>3, <3>4
  <2> QED BY <2>1, <2>2
<1>4. Taken(buffer) = IF end < limit THEN end ELSE limit
  BY DEF Taken
<1> HIDE DEF end, stops
<1>5. PICK n \in 1 .. Len(buffer) :
        /\ \A j \in 1 .. n - 1 : buffer[j] # "LF"
        /\ buffer[n] = "LF" \/ n = Len(buffer)
        /\ Taken(buffer) = IF n < limit THEN n ELSE limit
  BY <1>3, <1>4, Zenon
<1>6. /\ Len(buffer) \in Nat /\ Len(partial) \in Nat /\ MAX_LINE_LENGTH \in Nat
      /\ n \in Int /\ limit \in Int /\ limit >= 1
  BY <1>0, <1>2
<1> HIDE DEF limit
<1>7. PICK t \in Int : t = Taken(buffer) /\ t <= n /\ t <= limit /\ (t = n \/ t = limit)
  BY <1>5, <1>6
<1>8. t \in 1 .. Len(buffer) /\ Len(partial) + t <= MAX_LINE_LENGTH + 1
  BY <1>6, <1>7 DEF limit
<1>9. \A j \in 1 .. t - 1 : buffer[j] # "LF"
  BY <1>5, <1>6, <1>7
<1>10. t = n \/ Len(partial) + t = MAX_LINE_LENGTH + 1
  BY <1>6, <1>7 DEF limit
<1> QED BY <1>5, <1>7, <1>8, <1>9, <1>10

LEMMA ShapeInit == Init => ShapeInv
<1> SUFFICES ASSUME Init PROVE ShapeInv
  OBVIOUS
<1>1. <<>> \in Bytes /\ <<>> \in Seq(WireUnits) /\ <<>> \in Seq(Records) /\ Len(<<>>) = 0
  BY DEF Bytes
<1>2. /\ rest = <<>> /\ wire = <<>> /\ buffer = <<>> /\ partial = <<>> /\ sent = <<>> /\ got = <<>>
      /\ down = <<>> /\ mode = "head" /\ cpc = "head" /\ reply = "none" /\ closed = FALSE
      /\ kind \in {"raw", "websocket"}
  BY DEF Init
<1>3. Len(buffer) <= BufSize /\ Len(wire) <= WireBound + 1 /\ Len(wire) <= WireBound /\ Len(partial) <= MAX_HEAD
  BY <1>1, <1>2, SizesAssumption
<1>4. \A k \in 1 .. Len(wire) : Len(wire[k][2]) = 1
  BY <1>1, <1>2
<1>5. DownloadIntact
  BY <1>2 DEF DownloadIntact
<1> QED BY <1>1, <1>2, <1>3, <1>4, <1>5 DEF ShapeInv

\* What a client begins with is bytes, and the units it appends are units.
LEMMA BeginShape ==
  ASSUME ShapeInv, NEW what \in {"head", "line", "chunk"}, NEW bytes, Begin(what, bytes)
  PROVE  /\ bytes \in Bytes /\ rest' = bytes /\ sent' \in Seq(Records)
         /\ cpc' \in {"line", "chunk", "early", "wait"}
<1>1. bytes \in Heads \cup Lines \cup Chunks
  BY DEF Begin
<1>2. bytes \in Bytes
  BY <1>1, SentBytes
<1>3. LineOf(bytes) \in Bytes
  BY <1>2, LineBytes
<1> DEFINE m == Message(what, IF what = "line" THEN LineOf(bytes) ELSE bytes)
<1>4. m \in Records
  BY <1>2, <1>3, RecordType
<1>5. sent' = Append(sent, m) /\ rest' = bytes
  BY DEF Begin
<1>6. sent \in Seq(Records)
  BY DEF ShapeInv
<1> HIDE DEF m
<1>7. sent' \in Seq(Records)
  BY <1>4, <1>5, <1>6
<1>8. cpc' \in {"line", "chunk", "early", "wait"}
  BY DEF Begin
<1> QED BY <1>2, <1>5, <1>7, <1>8

\* What a client writes: its next bytes one by one, or a frame.
LEMMA WriteShape ==
  ASSUME ShapeInv, NEW n, NEW type \in {"byte", "text", "binary"}, Write(n, type)
  PROVE  /\ n \in 1 .. Len(rest) /\ SubSeq(rest, 1, n) \in Bytes /\ Len(SubSeq(rest, 1, n)) = n
         /\ rest' \in Bytes
         /\ wire' \in Seq(WireUnits) /\ Len(wire') <= WireBound
         /\ kind = "raw" => \A k \in 1 .. Len(wire') : Len(wire'[k][2]) = 1
<1>0. rest \in Bytes /\ wire \in Seq(WireUnits) /\ Len(rest) \in Nat /\ Len(wire) \in Nat
  BY DEF ShapeInv, Bytes
<1>a. kind = "raw" => \A k \in 1 .. Len(wire) : Len(wire[k][2]) = 1
  BY DEF ShapeInv
<1>1. n \in 1 .. Len(rest) /\ rest' = SubSeq(rest, n + 1, Len(rest))
  BY DEF Write
<1>2. n \in Nat /\ n >= 1 /\ n <= Len(rest)
  BY <1>0, <1>1
<1>3. rest' \in Bytes
  BY <1>0, <1>1, <1>2 DEF Bytes
<1> DEFINE part == SubSeq(rest, 1, n)
<1>4. part \in Bytes /\ Len(part) = n
  BY <1>0, <1>1, <1>2 DEF Bytes
<1>b. \/ type = "byte" /\ Len(wire) + n <= WireBound /\ wire' = wire \o AsUnits(part)
      \/ /\ kind # "raw" /\ type \in {"text", "binary"} /\ Len(wire) < WireBound
         /\ wire' = Append(wire, <<type, part>>)
  BY <1>4 DEF Write, AsUnits
<1> HIDE DEF part
<1>5. CASE type = "byte" /\ Len(wire) + n <= WireBound /\ wire' = wire \o AsUnits(part)
  <2> DEFINE f == AsUnits(part)
  <2>1. f \in Seq(WireUnits) /\ Len(f) = n /\ \A i \in 1 .. n : Len(f[i][2]) = 1
    BY <1>4, ByteUnits
  <2>2. wire' = wire \o f
    BY <1>5
  <2> HIDE DEF f
  <2>3. wire' \in Seq(WireUnits) /\ Len(wire') = Len(wire) + n
    <3>1. wire \o f \in Seq(WireUnits) /\ Len(wire \o f) = Len(wire) + Len(f)
      BY <1>0, <2>1
    <3> QED BY <2>1, <2>2, <3>1
  <2>4. /\ \A k \in 1 .. Len(wire) : wire'[k] = wire[k]
        /\ \A k \in 1 .. n : wire'[Len(wire) + k] = f[k]
    BY <1>0, <2>1, <2>2, JoinSeq
  <2>5. ASSUME kind = "raw", NEW k \in 1 .. Len(wire') PROVE Len(wire'[k][2]) = 1
    <3>1. CASE k \in 1 .. Len(wire)
      BY <1>a, <2>4, <2>5, <3>1
    <3>2. CASE k \in Len(wire) + 1 .. Len(wire) + n
      <4>1. k - Len(wire) \in 1 .. n /\ Len(wire) + (k - Len(wire)) = k
        BY <1>0, <1>2, <3>2
      <4> QED BY <2>1, <2>4, <4>1
    <3> QED BY <1>0, <1>2, <2>3, <3>1, <3>2
  <2> QED BY <1>1, <1>3, <1>4, <1>5, <2>3, <2>5 DEF part
<1>6. CASE kind # "raw" /\ type \in {"text", "binary"} /\ Len(wire) < WireBound /\ wire' = Append(wire, <<type, part>>)
  <2>1. <<type, part>> \in WireUnits
    BY <1>4, <1>6 DEF WireUnits
  <2> DEFINE u == <<type, part>>
  <2> HIDE DEF u
  <2>2. wire' = Append(wire, u) /\ u \in WireUnits
    BY <1>6, <2>1 DEF u
  <2>3. wire' \in Seq(WireUnits) /\ Len(wire') = Len(wire) + 1
    BY <1>0, <2>2
  <2> QED BY <1>0, <1>1, <1>3, <1>4, <1>6, <2>3, SizesAssumption DEF part
<1> QED BY <1>b, <1>5, <1>6

LEMMA FillChunkShape ==
  ASSUME ShapeInv, mode = "chunk", NEW s \in Bytes, FillChunk(s)
  PROVE  /\ partial' \in Bytes /\ Len(partial') < CHUNK_SIZE /\ Handled
         /\ mode' = "chunk" \/ partial' = <<>>
<1> DEFINE need == CHUNK_SIZE - Len(partial)
           n == IF Len(s) < need THEN Len(s) ELSE need
           all == partial \o SubSeq(s, 1, n)
<1>0. /\ partial \in Bytes /\ Len(partial) \in Nat /\ Len(s) \in Nat /\ Len(partial) < CHUNK_SIZE
      /\ CHUNK_SIZE \in Nat /\ CHUNK_SIZE > 0
  BY SizesAssumption DEF ShapeInv, Bytes
<1>1. need \in Nat /\ need > 0
  BY <1>0
<1>2. n \in 0 .. Len(s) /\ n <= need
  BY <1>0, <1>1
<1> HIDE DEF n
<1>3. SubSeq(s, 1, n) \in Bytes /\ Len(SubSeq(s, 1, n)) = n
  BY <1>0, <1>2 DEF Bytes
<1>4. all \in Bytes /\ Len(all) = Len(partial) + n
  BY <1>0, <1>3 DEF Bytes
<1>5. \/ Len(all) = CHUNK_SIZE /\ HandleChunk(all) /\ partial' = <<>>
      \/ Len(all) # CHUNK_SIZE /\ partial' = all /\ UNCHANGED <<mode, down, error, got, reply>>
  BY DEF FillChunk, n
<1> HIDE DEF all
<1>6. CASE HandleChunk(all) /\ partial' = <<>>
  <2>1. <<>> \in Bytes /\ Len(<<>>) = 0
    BY DEF Bytes
  <2> QED BY <1>0, <1>4, <1>6, <2>1, ChunkShape
<1>7. CASE Len(all) # CHUNK_SIZE /\ partial' = all /\ UNCHANGED <<mode, down, error, got, reply>>
  <2>1. Len(all) < CHUNK_SIZE
    BY <1>0, <1>2, <1>4, <1>7
  <2>2. Handled
    BY <1>7 DEF Handled, ShapeInv, DownloadIntact
  <2> QED BY <1>4, <1>7, <2>1, <2>2
<1> QED BY <1>5, <1>6, <1>7

\* What is left on the wire when the first n units are read.
LEMMA DropUnits ==
  ASSUME NEW w \in Seq(WireUnits), NEW n \in 0 .. Len(w), NEW v, v = SubSeq(w, n + 1, Len(w))
  PROVE  /\ v \in Seq(WireUnits) /\ Len(v) = Len(w) - n /\ Len(w) \in Nat /\ Len(v) \in Nat
         /\ \A k \in 1 .. Len(v) : v[k] = w[k + n]
<1>1. Len(w) \in Nat /\ n \in Nat /\ n <= Len(w)
  OBVIOUS
<1>2. SubSeq(w, n + 1, Len(w)) \in Seq(WireUnits) /\ Len(SubSeq(w, n + 1, Len(w))) = Len(w) - n
  BY <1>1
<1>3. \A k \in 1 .. Len(w) - n : SubSeq(w, n + 1, Len(w))[k] = w[k + n]
  BY <1>1
<1> QED BY <1>1, <1>2, <1>3

\* Tail drops one.
LEMMA DropOne ==
  ASSUME NEW w \in Seq(WireUnits), w # <<>>, NEW v, v = Tail(w)
  PROVE  /\ 1 \in 0 .. Len(w) /\ v = SubSeq(w, 1 + 1, Len(w)) /\ Len(w) >= 1
         /\ Head(w) = w[1] /\ w[1] \in WireUnits /\ w[1][2] \in Bytes
<1>1. Len(w) \in Nat /\ Len(w) >= 1 /\ Head(w) = w[1] /\ w[1] \in WireUnits
  OBVIOUS
<1>2. Tail(w) = SubSeq(w, 1 + 1, Len(w))
  BY <1>1
<1>3. w[1][2] \in Bytes
  BY <1>1 DEF WireUnits
<1> QED BY <1>1, <1>2, <1>3

\* What is left in the buffer when n bytes are wanted of it.
LEMMA LeftBytes ==
  ASSUME NEW s \in Bytes, NEW n \in Nat, NEW r, r = SubSeq(s, n + 1, Len(s))
  PROVE  /\ r \in Bytes /\ Len(s) \in Nat /\ Len(r) \in Nat
         /\ Len(r) = IF n < Len(s) THEN Len(s) - n ELSE 0
         /\ \A i \in 1 .. Len(r) : r[i] = s[n + i]
<1>0. Len(s) \in Nat
  BY DEF Bytes
<1>1. CASE n <= Len(s)
  <2>1. SubSeq(s, n + 1, Len(s)) \in Bytes /\ Len(SubSeq(s, n + 1, Len(s))) = Len(s) - n
    BY <1>0, <1>1 DEF Bytes
  <2>2. \A i \in 1 .. Len(s) - n : SubSeq(s, n + 1, Len(s))[i] = s[n + i]
    BY <1>0, <1>1 DEF Bytes
  <2> QED BY <1>0, <1>1, <2>1, <2>2
<1>2. CASE n > Len(s)
  <2>1. SubSeq(s, n + 1, Len(s)) = <<>>
    BY <1>0, <1>2 DEF Bytes
  <2>2. <<>> \in Bytes /\ Len(<<>>) = 0
    BY DEF Bytes
  <2>3. r \in Bytes /\ Len(r) = 0
    BY <2>1, <2>2
  <2> QED BY <1>0, <1>2, <2>3
<1> QED BY <1>0, <1>1, <1>2

LEMMA ShapeNext == ShapeInv /\ [Next]_vars => ShapeInv'
<1> SUFFICES ASSUME ShapeInv, [Next]_vars PROVE ShapeInv'
  OBVIOUS
<1>0. /\ rest \in Bytes /\ buffer \in Bytes /\ partial \in Bytes
      /\ wire \in Seq(WireUnits) /\ Len(wire) \in Nat /\ <<>> \in Bytes /\ Len(<<>>) = 0
  BY DEF ShapeInv, Bytes
<1>a. kind = "raw" => \A k \in 1 .. Len(wire) : Len(wire[k][2]) = 1
  BY DEF ShapeInv
\* Units that are read.
<1>b. ASSUME NEW n \in 0 .. Len(wire), wire' = SubSeq(wire, n + 1, Len(wire)), UNCHANGED <<kind, closed>>
      PROVE  /\ wire' \in Seq(WireUnits) /\ Len(wire') <= WireBound + 1 /\ (~closed' => Len(wire') <= WireBound)
             /\ kind' = "raw" => \A k \in 1 .. Len(wire') : Len(wire'[k][2]) = 1
  <2>1. /\ wire' \in Seq(WireUnits) /\ Len(wire') = Len(wire) - n /\ Len(wire') \in Nat
        /\ \A k \in 1 .. Len(wire') : wire'[k] = wire[k + n]
    BY <1>0, <1>b, DropUnits
  <2>2. Len(wire) <= WireBound + 1 /\ (~closed => Len(wire) <= WireBound)
    BY DEF ShapeInv
  <2>3. ASSUME kind = "raw", NEW k \in 1 .. Len(wire') PROVE Len(wire'[k][2]) = 1
    <3>1. k + n \in 1 .. Len(wire)
      BY <1>0, <2>1
    <3> QED BY <1>a, <2>1, <2>3, <3>1
  <2>4. Len(wire') <= WireBound + 1 /\ (Len(wire) <= WireBound => Len(wire') <= WireBound)
    BY <1>0, <2>1, <2>2, SizesAssumption
  <2>5. ~closed' => Len(wire') <= WireBound
    BY <1>b, <2>2, <2>4, Zenon
  <2> QED BY <1>b, <2>1, <2>3, <2>4, <2>5
<1>c. ASSUME wire # <<>>, wire' = Tail(wire), UNCHANGED <<kind, closed>>
      PROVE  /\ wire' \in Seq(WireUnits) /\ Len(wire') <= WireBound + 1 /\ (~closed' => Len(wire') <= WireBound)
             /\ kind' = "raw" => \A k \in 1 .. Len(wire') : Len(wire'[k][2]) = 1
             /\ Head(wire)[2] \in Bytes
  <2>1. 1 \in 0 .. Len(wire) /\ wire' = SubSeq(wire, 1 + 1, Len(wire)) /\ Head(wire)[2] \in Bytes
    BY <1>0, <1>c, DropOne
  <2> QED BY <1>b, <1>c, <2>1
<1>1. ASSUME NEW what \in {"head", "line", "chunk"}, NEW bytes, Begin(what, bytes) PROVE ShapeInv'
  <2>1. bytes \in Bytes /\ rest' = bytes /\ sent' \in Seq(Records) /\ cpc' \in {"line", "chunk", "early", "wait"}
    BY <1>1, BeginShape
  <2>2. UNCHANGED <<kind, wire, closed, buffer, mode, partial, down, error, got, reply>>
    BY <1>1 DEF Begin, server
  <2> QED BY <2>1, <2>2 DEF ShapeInv, DownloadIntact
<1>2. ASSUME NEW n, NEW type \in {"byte", "text", "binary"}, Write(n, type) PROVE ShapeInv'
  <2>1. /\ rest' \in Bytes /\ wire' \in Seq(WireUnits) /\ Len(wire') <= WireBound /\ Len(wire') \in Nat
        /\ kind = "raw" => \A k \in 1 .. Len(wire') : Len(wire'[k][2]) = 1
    BY <1>2, WriteShape
  <2>2. UNCHANGED <<kind, cpc, sent, closed, buffer, mode, partial, down, error, got, reply>>
    BY <1>2 DEF Write, server
  <2>3. Len(wire') <= WireBound + 1
    BY <2>1, SizesAssumption
  <2> QED BY <2>1, <2>2, <2>3 DEF ShapeInv, DownloadIntact
<1>3. ASSUME kind = "websocket", ~closed, NEW type \in {"ping", "close"},
             wire' = Append(wire, <<type, <<>>>>), UNCHANGED <<kind, client, server, reply>>,
             \/ closed' = TRUE
             \/ closed' = closed /\ Len(wire) < WireBound
      PROVE  ShapeInv'
  <2> DEFINE u == <<type, <<>>>>
  <2>1. u \in WireUnits
    BY <1>0 DEF WireUnits
  <2> HIDE DEF u
  <2>2. wire' = Append(wire, u)
    BY <1>3 DEF u
  <2>3. wire' \in Seq(WireUnits) /\ Len(wire') = Len(wire) + 1
    BY <1>0, <2>1, <2>2
  <2>4. UNCHANGED <<kind, cpc, rest, sent, buffer, mode, partial, down, error, got, reply>>
    BY <1>3 DEF client, server
  <2>5. Len(wire') <= WireBound + 1 /\ (~closed' => Len(wire') <= WireBound) /\ closed' \in BOOLEAN
    <3>1. Len(wire) <= WireBound /\ WireBound \in Nat
      BY <1>3, SizesAssumption DEF ShapeInv
    <3>2. Len(wire') <= WireBound + 1 /\ (Len(wire) < WireBound => Len(wire') <= WireBound)
      BY <1>0, <2>3, <3>1
    <3>3. closed \in BOOLEAN
      BY DEF ShapeInv
    <3>4. CASE closed' = TRUE
      BY <3>2, <3>4, Zenon
    <3>5. CASE closed' = closed /\ Len(wire) < WireBound
      BY <3>2, <3>3, <3>5, Zenon
    <3> QED BY <1>3, <3>4, <3>5
  <2> QED BY <1>3, <2>3, <2>4, <2>5 DEF ShapeInv, DownloadIntact
<1>4. CASE WritePing
  BY <1>3, <1>4 DEF WritePing, Writable
<1>5. CASE ReadReply
  <2>1. /\ cpc' \in {"chunk", "line"} /\ reply' = "none"
        /\ UNCHANGED <<kind, rest, sent, wire, closed, buffer, mode, partial, down, error, got>>
    BY <1>5 DEF ReadReply, server
  <2> QED BY <2>1 DEF ShapeInv, DownloadIntact
<1>6. CASE ClientClose
  <2>1. CASE wire' = wire
    <3>1. closed' = TRUE /\ UNCHANGED <<kind, cpc, rest, sent, buffer, mode, partial, down, error, got, reply>>
      BY <1>6 DEF ClientClose, client, server
    <3> QED BY <2>1, <3>1 DEF ShapeInv, DownloadIntact
  <2>2. CASE kind = "websocket" /\ wire' = Append(wire, <<"close", <<>>>>)
    BY <1>3, <1>6, <2>2 DEF ClientClose, Writable
  <2> QED BY <1>6, <2>1, <2>2 DEF ClientClose
<1>7. CASE ReadHead
  <2>1. /\ mode = "head" /\ wire # <<>> /\ wire' = Tail(wire)
        /\ UNCHANGED <<kind, cpc, rest, sent, closed, buffer>>
    BY <1>7 DEF ReadHead, client
  <2> DEFINE head == partial \o Head(wire)[2]
  <2>2. head \in Bytes
    BY <1>0, <1>c, <2>1, JoinBytes
  <2>3. \/ /\ got' = Append(got, Message("head", head)) /\ mode' = "line" /\ partial' = <<>>
           /\ UNCHANGED <<down, error, reply>>
        \/ partial' = head /\ Fail("InvalidData")
        \/ partial' = head /\ Len(head) <= MAX_HEAD /\ UNCHANGED <<mode, down, error, got, reply>>
    <3>1. Len(head) \in Nat
      BY <2>2 DEF Bytes
    <3> QED BY <1>7, <3>1, SizesAssumption DEF ReadHead
  <2> HIDE DEF head
  <2>4. got' \in Seq(Records) /\ reply' \in {"none", "OK", "ERR"} /\ DownloadIntact'
    <3>1. Message("head", head) \in Records /\ got \in Seq(Records)
      BY <2>2, RecordType DEF ShapeInv
    <3>2. CASE got' = Append(got, Message("head", head)) /\ UNCHANGED <<down, error, reply>>
      <4>1. got' \in Seq(Records)
        BY <3>1, <3>2
      <4> QED BY <3>2, <4>1 DEF ShapeInv, DownloadIntact
    <3>3. CASE Fail("InvalidData")
      BY <3>3, FailShape
    <3>4. CASE UNCHANGED <<mode, down, error, got, reply>>
      BY <3>4 DEF ShapeInv, DownloadIntact
    <3> QED BY <2>3, <3>2, <3>3, <3>4
  <2>5. partial' \in Bytes /\ (mode' = "head" => Len(partial') <= MAX_HEAD)
        /\ mode' \in {"head", "line", "ended"} /\ (mode' = "line" => partial' = <<>>)
    BY <1>0, <2>1, <2>2, <2>3 DEF Fail
  <2>6. /\ wire' \in Seq(WireUnits) /\ Len(wire') <= WireBound + 1 /\ (~closed' => Len(wire') <= WireBound)
        /\ kind' = "raw" => \A k \in 1 .. Len(wire') : Len(wire'[k][2]) = 1
    BY <1>c, <2>1
  <2>7. mode' = "line" => Len(partial') <= MAX_LINE_LENGTH
    BY <1>0, <2>5, SizesAssumption
  <2> QED BY <2>1, <2>4, <2>5, <2>6, <2>7 DEF ShapeInv
<1>8. CASE Fill
  <2> DEFINE n == IF Len(wire) < BufSize THEN Len(wire) ELSE BufSize
  <2>1. /\ mode \in {"line", "chunk"} /\ kind = "raw" /\ wire # <<>>
        /\ buffer' = [i \in 1 .. n |-> wire[i][2][1]] /\ wire' = SubSeq(wire, n + 1, Len(wire))
        /\ UNCHANGED <<kind, cpc, rest, sent, closed, mode, partial, down, error, got, reply>>
    BY <1>8 DEF Fill, client
  <2>2. n \in 0 .. Len(wire) /\ n \in Nat /\ n <= BufSize
    BY <1>0, SizesAssumption
  <2> HIDE DEF n
  <2>3. ASSUME NEW i \in 1 .. n PROVE wire[i][2][1] \in Symbols
    <3>1. i \in 1 .. Len(wire)
      BY <1>0, <2>2
    <3>2. wire[i][2] \in Bytes /\ Len(wire[i][2]) = 1
      <4>1. wire[i] \in WireUnits
        BY <1>0, <3>1
      <4> QED BY <1>a, <2>1, <3>1, <4>1 DEF WireUnits
    <3> QED BY <3>2 DEF Bytes
  <2>4. buffer' \in [1 .. n -> Symbols]
    BY <2>1, <2>3
  <2>5. buffer' \in Bytes /\ Len(buffer') = n
    BY <2>2, <2>4, FunctionIsSeq DEF Bytes
  <2>6. /\ wire' \in Seq(WireUnits) /\ Len(wire') <= WireBound + 1 /\ (~closed' => Len(wire') <= WireBound)
        /\ kind' = "raw" => \A k \in 1 .. Len(wire') : Len(wire'[k][2]) = 1
    BY <1>b, <2>1, <2>2
  <2> QED BY <2>1, <2>2, <2>5, <2>6 DEF ShapeInv, DownloadIntact
<1>9. CASE ReadLine
  <2> DEFINE t == Taken(buffer)
             s == partial \o SubSeq(buffer, 1, t)
  <2>1. /\ mode = "line" /\ kind = "raw" /\ buffer # <<>>
        /\ buffer' = SubSeq(buffer, t + 1, Len(buffer))
        /\ UNCHANGED <<kind, cpc, rest, sent, wire, closed>>
        /\ \/ FinishLine(s)
           \/ Len(s) # MAX_LINE_LENGTH + 1 /\ partial' = s /\ UNCHANGED <<mode, down, error, got, reply>>
    BY <1>9 DEF ReadLine, client
  <2>2. t \in 1 .. Len(buffer) /\ Len(partial) + t <= MAX_LINE_LENGTH + 1
    BY <2>1, TakenBytes
  <2> HIDE DEF t
  <2>3. /\ Len(buffer) \in Nat /\ Len(partial) \in Nat /\ MAX_LINE_LENGTH \in Nat /\ BufSize \in Nat
        /\ Len(buffer) <= BufSize
    BY <1>0, SizesAssumption DEF Bytes, ShapeInv
  <2>4. s \in Bytes /\ Len(s) = Len(partial) + t
    <3>1. SubSeq(buffer, 1, t) \in Bytes /\ Len(SubSeq(buffer, 1, t)) = t
      BY <1>0, <2>2, <2>3 DEF Bytes
    <3> DEFINE part == SubSeq(buffer, 1, t)
    <3>2. part \in Bytes /\ Len(part) = t /\ s = partial \o part
      BY <3>1
    <3> HIDE DEF part, s
    <3>3. partial \o part \in Bytes /\ Len(partial \o part) = Len(partial) + Len(part)
      BY <1>0, <3>2, JoinBytes
    <3> QED BY <3>2, <3>3
  <2> HIDE DEF s
  <2>5. buffer' \in Bytes /\ Len(buffer') <= BufSize
    <3>1. t \in Nat /\ Len(buffer') = IF t < Len(buffer) THEN Len(buffer) - t ELSE 0
      BY <1>0, <2>1, <2>2, <2>3, LeftBytes
    <3>2. buffer' \in Bytes
      BY <1>0, <2>1, <3>1, LeftBytes
    <3>3. Len(buffer') <= BufSize
      <4>1. CASE t < Len(buffer)
        BY <2>2, <2>3, <3>1, <4>1
      <4>2. CASE ~(t < Len(buffer))
        BY <2>3, <3>1, <4>2
      <4> QED BY <4>1, <4>2
    <3> QED BY <3>2, <3>3
  <2>6. CASE FinishLine(s)
    <3>1. /\ partial' = <<>> /\ mode' \in {"line", "chunk", "ended"} /\ reply' \in {"none", "OK", "ERR"}
          /\ got' \in Seq(Records) /\ DownloadIntact'
      BY <2>4, <2>6, FinishShape
    <3>2. Len(partial') <= MAX_LINE_LENGTH /\ Len(partial') < CHUNK_SIZE
      BY <1>0, <3>1, SizesAssumption
    <3> QED BY <1>0, <2>1, <2>5, <3>1, <3>2 DEF ShapeInv
  <2>7. CASE Len(s) # MAX_LINE_LENGTH + 1 /\ partial' = s /\ UNCHANGED <<mode, down, error, got, reply>>
    <3>1. Len(partial') <= MAX_LINE_LENGTH
      BY <2>2, <2>3, <2>4, <2>7
    <3> QED BY <2>1, <2>4, <2>5, <2>7, <3>1 DEF ShapeInv, DownloadIntact
  <2> QED BY <2>1, <2>6, <2>7
<1>10. CASE ReadChunk
  <2> DEFINE need == CHUNK_SIZE - Len(partial)
  <2>1. /\ mode = "chunk" /\ kind = "raw" /\ FillChunk(buffer)
        /\ buffer' = SubSeq(buffer, need + 1, Len(buffer))
        /\ UNCHANGED <<kind, cpc, rest, sent, wire, closed>>
    BY <1>10 DEF ReadChunk, client
  <2>2. need \in Nat /\ Len(buffer) \in Nat /\ Len(buffer) <= BufSize /\ BufSize \in Nat
    BY <1>0, <2>1, SizesAssumption DEF ShapeInv, Bytes
  <2> HIDE DEF need
  <2>3. buffer' \in Bytes /\ Len(buffer') <= BufSize
    <3>1. Len(buffer') = IF need < Len(buffer) THEN Len(buffer) - need ELSE 0
      BY <1>0, <2>1, <2>2, LeftBytes
    <3>2. buffer' \in Bytes
      BY <1>0, <2>1, <2>2, LeftBytes
    <3> QED BY <2>2, <3>1, <3>2
  <2>4. /\ partial' \in Bytes /\ Len(partial') < CHUNK_SIZE /\ Handled
        /\ mode' = "chunk" \/ partial' = <<>>
    BY <1>0, <2>1, FillChunkShape
  <2>5. mode' = "line" => Len(partial') <= MAX_LINE_LENGTH
    BY <1>0, <2>4, SizesAssumption
  <2> QED BY <2>1, <2>3, <2>4, <2>5 DEF ShapeInv, Handled
<1>11. CASE ReadFrame
  <2> DEFINE type == Head(wire)[1]
             data == Head(wire)[2]
             line == IF type = "text" THEN TextLineOf(data) ELSE LineOf(Lossy(data))
  <2>1. /\ mode \in {"line", "chunk"} /\ kind = "websocket" /\ wire # <<>> /\ wire' = Tail(wire)
        /\ UNCHANGED <<kind, cpc, rest, sent, closed, buffer>>
        /\ \/ UNCHANGED <<mode, partial, down, error, got, reply>>
           \/ Fail("ConnectionReset") /\ UNCHANGED partial
           \/ Fail("Other") /\ UNCHANGED partial
           \/ mode = "line" /\ HandleLine(line) /\ UNCHANGED partial
           \/ mode = "chunk" /\ FillChunk(data)
    BY <1>11 DEF ReadFrame, client
  <2>2. /\ wire' \in Seq(WireUnits) /\ Len(wire') <= WireBound + 1 /\ (~closed' => Len(wire') <= WireBound)
        /\ kind' = "raw" => \A k \in 1 .. Len(wire') : Len(wire'[k][2]) = 1
        /\ data \in Bytes
    BY <1>c, <2>1
  <2> HIDE DEF type, data
  <2>3. line \in Bytes
    <3>1. TextLineOf(data) \in Bytes
      BY <2>2, TextLineBytes
    <3>2. LineOf(Lossy(data)) \in Bytes
      BY <2>2, LossyBytes, LineBytes
    <3> QED BY <3>1, <3>2
  <2> HIDE DEF line
  <2>4. CASE UNCHANGED <<mode, partial, down, error, got, reply>>
    BY <2>1, <2>2, <2>4 DEF ShapeInv, DownloadIntact
  <2>5. CASE (\E e : Fail(e)) /\ UNCHANGED partial
    <3>1. mode' = "ended" /\ reply' \in {"none", "OK", "ERR"} /\ got' \in Seq(Records) /\ DownloadIntact'
      BY <2>5, FailShape
    <3> QED BY <2>1, <2>2, <2>5, <3>1 DEF ShapeInv
  <2>6. CASE mode = "line" /\ HandleLine(line) /\ UNCHANGED partial
    <3>1. Handled
      BY <2>3, <2>6, LineShape
    <3>2. partial' = <<>> /\ Len(partial') <= MAX_LINE_LENGTH /\ Len(partial') < CHUNK_SIZE
      BY <1>0, <2>1, <2>6, SizesAssumption DEF ShapeInv
    <3> QED BY <1>0, <2>1, <2>2, <3>1, <3>2 DEF ShapeInv, Handled
  <2>7. CASE mode = "chunk" /\ FillChunk(data)
    <3>1. /\ partial' \in Bytes /\ Len(partial') < CHUNK_SIZE /\ Handled
          /\ mode' = "chunk" \/ partial' = <<>>
      BY <2>2, <2>7, FillChunkShape
    <3>2. mode' = "line" => Len(partial') <= MAX_LINE_LENGTH /\ partial' = <<>>
      BY <1>0, <3>1, SizesAssumption
    <3> QED BY <2>1, <2>2, <3>1, <3>2 DEF ShapeInv, Handled
  <2> QED BY <2>1, <2>4, <2>5, <2>6, <2>7
\* The session ends, and all that it has read stays as it is.
<1>12. ASSUME UNCHANGED <<kind, client, wire, closed, buffer, partial>>, NEW e, Fail(e) PROVE ShapeInv'
  <2>1. mode' = "ended" /\ reply' \in {"none", "OK", "ERR"} /\ got' \in Seq(Records) /\ DownloadIntact'
    BY <1>12, FailShape
  <2>2. UNCHANGED <<kind, cpc, rest, sent, wire, closed, buffer, partial>>
    BY <1>12 DEF client
  <2> QED BY <2>1, <2>2 DEF ShapeInv
<1>13. CASE Eof
  <2>1. CASE FinishLine(partial) /\ mode = "line" /\ kind = "raw" /\ UNCHANGED <<kind, client, wire, closed, buffer>>
    <3>1. /\ partial' = <<>> /\ mode' \in {"line", "chunk", "ended"} /\ reply' \in {"none", "OK", "ERR"}
          /\ got' \in Seq(Records) /\ DownloadIntact'
      BY <1>0, <2>1, FinishShape
    <3>2. Len(partial') <= MAX_LINE_LENGTH /\ Len(partial') < CHUNK_SIZE
      BY <1>0, <3>1, SizesAssumption
    <3>3. UNCHANGED <<kind, cpc, rest, sent, wire, closed, buffer>>
      BY <2>1 DEF client
    <3> QED BY <1>0, <2>1, <3>1, <3>2, <3>3 DEF ShapeInv
  <2>2. CASE (\E e : Fail(e)) /\ UNCHANGED <<kind, client, wire, closed, buffer, partial>>
    BY <1>12, <2>2
  <2> QED BY <1>13, <2>1, <2>2 DEF Eof
<1>14. CASE Timeout
  BY <1>12, <1>14 DEF Timeout
<1>15. CASE UNCHANGED vars
  <2>1. UNCHANGED <<kind, cpc, rest, sent, wire, closed, buffer, mode, partial, down, error, got, reply>>
    BY <1>15 DEF vars, client, server
  <2> QED BY <2>1 DEF ShapeInv, DownloadIntact
<1> QED
  BY <1>1, <1>2, <1>4, <1>5, <1>6, <1>7, <1>8, <1>9, <1>10, <1>11, <1>13, <1>14, <1>15
     DEF Next, Client, Server, Ended

LEMMA ShapeAlways == Spec => []ShapeInv
BY ShapeInit, ShapeNext, PTL DEF Spec

\* For every size of chunks, lines, heads and buffers: every variable keeps its
\* type, and no read of Stream::read_line or Stream::read_exact goes beyond
\* what it was asked for.
THEOREM TypeCorrect == Spec => []TypeOK
<1>1. ShapeInv => TypeOK
  BY DEF ShapeInv, TypeOK
<1> QED BY <1>1, ShapeAlways, PTL

\* Stream::write_all never frames a chunk of a download as text, so that it
\* arrives as it was written.
THEOREM DownloadsIntact == Spec => []DownloadIntact
<1>1. ShapeInv => DownloadIntact
  BY DEF ShapeInv
<1> QED BY <1>1, ShapeAlways, PTL
=============================================================================
