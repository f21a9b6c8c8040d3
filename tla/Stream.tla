------------------------------- MODULE Stream -------------------------------
(***************************************************************************)
(* The bytes of one connection, from the client to the protocol code       *)
(* (src/stream/mod.rs, with the byte-wise read of the HTTP head in         *)
(* src/stream/websocket_upgrade.rs).  A raw client writes bytes that TCP   *)
(* delivers in pieces and a BufReader collects; a WebSocket client writes  *)
(* frames.  The reader asks for lines and for chunks as run_commands does: *)
(* a chunk is read only after a PUT was answered with OK, and until the    *)
(* terminal one.  The client waits for that OK or sends its chunks at      *)
(* once, as in phase 5 of RMBT_specification.md (lines 511-526); if its    *)
(* PUT is then refused, what it sent is read as lines.                     *)
(*                                                                         *)
(* Bytes: "E" ends the HTTP head, "LF" a line, "CR" may precede LF, "FF"   *)
(* is the terminal mark of a chunk and no UTF-8; as commands "P" stands    *)
(* for a PUT that is granted, "B" for one that is refused, "G" for a       *)
(* download, everything else for a command without data.                   *)
(***************************************************************************)
EXTENDS Naturals, Sequences, SequencesExt

CONSTANTS CHUNK_SIZE,       \* bytes of a chunk (4096 in the code)
          MAX_LINE_LENGTH,  \* bytes of a line with its end (1024 in the code)
          MAX_HEAD,         \* bytes of an HTTP head (8192 in the code)
          Slack,            \* what write_all leaves for text (3 in the code)
          BufSize,          \* capacity of the BufReader (8192 in the code)
          Lines, Chunks,    \* what clients send: lines with their end, chunks
          Heads,            \* the HTTP heads they begin with
          MessageBound,     \* bound: messages of a client
          WireBound         \* bound: what the kernel holds in flight

ASSUME SizesAssumption ==
  /\ CHUNK_SIZE \in Nat \ {0} /\ MAX_LINE_LENGTH \in Nat \ {0} /\ MAX_HEAD \in Nat \ {0}
  /\ BufSize \in Nat \ {0} /\ Slack \in Nat \ {0} /\ Slack <= CHUNK_SIZE
  /\ MessageBound \in Nat /\ WireBound \in Nat \ {0}
ASSUME BytesAssumption ==
  /\ Lines \subseteq Seq(STRING) /\ Heads \subseteq Seq(STRING)
  /\ Chunks \subseteq {s \in Seq(STRING) : Len(s) = CHUNK_SIZE}
\* A client that keeps to the protocol ends a head or a line where it ends, and
\* nowhere else; before its LF a line has at most one CR.
ASSUME ClientAssumption ==
  /\ \A b \in Heads : Len(b) > 0 /\ \A i \in 1 .. Len(b) : b[i] = "E" <=> i = Len(b)
  /\ \A b \in Lines : /\ Len(b) > 0 /\ \A i \in 1 .. Len(b) : b[i] = "LF" <=> i = Len(b)
                      /\ Len(b) > 2 => ~(b[Len(b) - 1] = "CR" /\ b[Len(b) - 2] = "CR")

VARIABLES
  kind,      \* "raw" or "websocket"
  cpc,       \* what the client sends next: "head", "line", "chunk", "early" for
             \* a chunk before the answer to its PUT, or nothing: "wait"
  rest,      \* what the client has still to write of its current message
  wire,      \* in flight: units <<type, bytes>>, single bytes or frames
  closed,    \* the client has closed its side
  buffer,    \* bytes in the BufReader
  mode,      \* what the server reads: "head", "line", "chunk", or "ended"
  partial,   \* the bytes of the message read so far
  reply,     \* the answer to a PUT that the client has not read yet
  down,      \* the last chunk the client got from a download
  error,     \* the io::ErrorKind that ended the session
  \* History variables.
  sent,      \* the messages the client has begun to write
  got        \* the messages the server has read

client == <<cpc, rest, sent>>
server == <<buffer, mode, partial, down, error, got>>
vars == <<kind, client, wire, closed, server, reply>>

Message(what, bytes) == [what |-> what, bytes |-> bytes]

Init ==
  /\ kind \in {"raw", "websocket"}
  /\ cpc = "head" /\ rest = <<>> /\ wire = <<>> /\ closed = FALSE
  /\ buffer = <<>> /\ mode = "head" /\ partial = <<>>
  /\ reply = "none" /\ down = <<>> /\ error = "none"
  /\ sent = <<>> /\ got = <<>>

-----------------------------------------------------------------------------
(* Helpers of read_line. *)

StripLast(s, b) == IF s # <<>> /\ Last(s) = b THEN Front(s) ELSE s

\* All bytes b at the end of s are removed (trim_end_matches).
TrimEnd(s, b) ==
  LET keep == {i \in 0 .. Len(s) : \A j \in i + 1 .. Len(s) : s[j] = b}
  IN  SubSeq(s, 1, CHOOSE i \in keep : \A j \in keep : i <= j)

\* The line in the bytes of a raw read or of a binary frame, and in a text frame.
LineOf(s) == StripLast(StripLast(s, "LF"), "CR")
TextLineOf(s) == TrimEnd(TrimEnd(s, "LF"), "CR")

Utf8(s) == \A i \in DOMAIN s : s[i] # "FF"

\* from_utf8_lossy: each byte that is no UTF-8 becomes U+FFFD, one symbol for
\* its three bytes, of which nobody takes the length.
Lossy(s) == [i \in 1 .. Len(s) |-> IF s[i] = "FF" THEN "FFFD" ELSE s[i]]

-----------------------------------------------------------------------------
(* The client: external. *)

Writable == ~closed /\ mode # "ended"

\* The client begins a message: lines as it likes, chunks after the OK to its
\* PUT or at once, in which case it reads the answer behind its last chunk.
Begin(what, bytes) ==
  /\ Writable /\ rest = <<>> /\ Len(sent) < MessageBound
  /\ cpc = what \/ (cpc = "early" /\ what = "chunk")
  /\ bytes \in CASE what = "head" -> Heads [] what = "line" -> Lines [] what = "chunk" -> Chunks
  /\ rest' = bytes
  /\ sent' = Append(sent, Message(what, IF what = "line" THEN LineOf(bytes) ELSE bytes))
  /\ cpc' \in CASE what = "line" /\ LineOf(bytes) \in {<<"P">>, <<"B">>} -> {"wait", "early"}
                [] what = "chunk" /\ Last(bytes) # "FF"                  -> {cpc}
                [] what = "chunk" /\ Last(bytes) = "FF" -> {IF cpc = "early" THEN "wait" ELSE "line"}
                [] OTHER                                                 -> {"line"}
  /\ UNCHANGED <<kind, wire, closed, server, reply>>

\* The client writes the next n bytes of its message: raw and in the head as
\* bytes, else as a frame.  A line is one frame, a chunk may be several.
Write(n, type) ==
  /\ Writable /\ n \in 1 .. Len(rest)
  /\ LET part == SubSeq(rest, 1, n)
         head == sent[Len(sent)].what = "head"
     IN  IF kind = "raw" \/ head
         THEN /\ type = "byte" /\ Len(wire) + n <= WireBound
              /\ wire' = wire \o [i \in 1 .. n |-> <<"byte", <<part[i]>>>>]
         ELSE /\ type \in {"text", "binary"} /\ Len(wire) < WireBound
              /\ sent[Len(sent)].what = "line" => n = Len(rest)
              /\ sent[Len(sent)].what = "chunk" => type = "binary"
              /\ wire' = Append(wire, <<type, part>>)
  /\ rest' = SubSeq(rest, n + 1, Len(rest))
  /\ UNCHANGED <<kind, cpc, sent, closed, server, reply>>

\* A WebSocket client may send a ping or a pong at any time.
WritePing ==
  /\ Writable /\ kind = "websocket" /\ cpc # "head" /\ Len(wire) < WireBound
  /\ sent[Len(sent)].what = "head" => rest = <<>>
  /\ wire' = Append(wire, <<"ping", <<>>>>)
  /\ UNCHANGED <<kind, client, closed, server, reply>>

ReadReply ==
  /\ Writable /\ cpc = "wait" /\ rest = <<>> /\ reply # "none"
  /\ cpc' = IF sent[Len(sent)].what = "line" /\ reply = "OK" THEN "chunk" ELSE "line"
  /\ reply' = "none"
  /\ UNCHANGED <<kind, rest, sent, wire, closed, server>>

\* The client closes, with or without a close frame, perhaps amid a message.
ClientClose ==
  /\ Writable
  /\ closed' = TRUE
  /\ wire' \in IF kind = "websocket" /\ cpc # "head" /\ rest = <<>>
               THEN {wire, Append(wire, <<"close", <<>>>>)} ELSE {wire}
  /\ UNCHANGED <<kind, client, server, reply>>

-----------------------------------------------------------------------------
(* The server. *)

Fail(e) ==
  /\ mode' = "ended" /\ error' = e
  /\ UNCHANGED <<down, got, reply>>

\* Mutant: a chunk of the smallest size is framed as text.
write_all_text(bytes) ==
  IF kind = "raw" \/ Len(bytes) < 2 \/ Len(bytes) > CHUNK_SIZE THEN bytes ELSE Lossy(bytes)

\* What the client gets of the bytes that are written: over WebSocket a text
\* frame holds a lossy conversion to UTF-8.
write_all(bytes) ==
  IF kind = "raw" \/ Len(bytes) < 2 \/ Len(bytes) > CHUNK_SIZE - Slack THEN bytes ELSE Lossy(bytes)

\* run_commands gets a line: a PUT that is granted makes it read chunks, a
\* download is written, everything else leaves it reading lines.
HandleLine(s) ==
  /\ got' = Append(got, Message("line", s))
  /\ mode' = IF s = <<"P">> THEN "chunk" ELSE "line"
  /\ reply' = CASE s = <<"P">> -> "OK" [] s = <<"B">> -> "ERR" [] OTHER -> reply
  /\ \/ s = <<"G">> /\ \E c \in Chunks : down' = write_all(c)
     \/ s # <<"G">> /\ down' = down
  /\ error' = error

\* handle_put gets a chunk: the terminal one is its last.
HandleChunk(s) ==
  /\ got' = Append(got, Message("chunk", s))
  /\ mode' = IF Last(s) = "FF" THEN "line" ELSE "chunk"
  /\ UNCHANGED <<down, error, reply>>

\* Mutant: the head is read in pieces, whose rest is thrown away.
ReadHeadGreedy ==
  /\ mode = "head" /\ wire # <<>>
  /\ LET n == IF Len(wire) >= 2 THEN 2 ELSE 1
         head == partial \o Head(wire)[2] \o (IF n = 2 THEN wire[2][2] ELSE <<>>)
         ends == {i \in DOMAIN head : head[i] = "E"}
     IN  IF ends # {}
         THEN /\ got' = Append(got, Message("head", SubSeq(head, 1, CHOOSE i \in ends : TRUE)))
              /\ mode' = "line" /\ partial' = <<>>
              /\ wire' = SubSeq(wire, n + 1, Len(wire))
              /\ UNCHANGED <<down, error, reply>>
         ELSE IF Len(head) > MAX_HEAD THEN /\ Fail("InvalidData") /\ partial' = head
                                            /\ wire' = SubSeq(wire, n + 1, Len(wire))
         ELSE /\ partial' = head /\ wire' = SubSeq(wire, n + 1, Len(wire))
              /\ UNCHANGED <<mode, down, error, got, reply>>
  /\ UNCHANGED <<kind, client, closed, buffer>>

\* detect_and_upgrade reads the head from the transport, one byte at a time,
\* so that what follows it stays where the stream will read it.
ReadHead ==
  /\ mode = "head" /\ wire # <<>>
  /\ wire' = Tail(wire)
  /\ LET head == partial \o Head(wire)[2]
     IN  IF Last(head) = "E"
         THEN /\ got' = Append(got, Message("head", head))
              /\ mode' = "line" /\ partial' = <<>>
              /\ UNCHANGED <<down, error, reply>>
         ELSE /\ partial' = head
              /\ IF Len(head) > MAX_HEAD THEN Fail("InvalidData")
                                         ELSE UNCHANGED <<mode, down, error, got, reply>>
  /\ UNCHANGED <<kind, client, closed, buffer>>

\* External: BufReader reads what is there, up to its capacity, when it is empty.
Fill ==
  /\ mode \in {"line", "chunk"} /\ kind = "raw" /\ buffer = <<>> /\ wire # <<>>
  /\ LET n == IF Len(wire) < BufSize THEN Len(wire) ELSE BufSize
     IN  /\ buffer' = [i \in 1 .. n |-> wire[i][2][1]]
         /\ wire' = SubSeq(wire, n + 1, Len(wire))
  /\ UNCHANGED <<kind, client, closed, mode, partial, down, error, got, reply>>

\* Mutant: a line of the greatest length is refused.
FinishLineStrict(s) ==
  /\ partial' = <<>>
  /\ IF Len(s) >= MAX_LINE_LENGTH \/ ~Utf8(LineOf(s)) THEN Fail("InvalidData")
                                                      ELSE HandleLine(LineOf(s))

\* A line that was read to its end, to the cap or to the end of file.
FinishLine(s) ==
  /\ partial' = <<>>
  /\ IF Len(s) > MAX_LINE_LENGTH \/ ~Utf8(LineOf(s)) THEN Fail("InvalidData")
                                                     ELSE HandleLine(LineOf(s))

\* Mutant: the read of a line is not capped.
TakenUncapped(s) ==
  LET stops == {i \in DOMAIN s : s[i] = "LF"}
  IN  IF stops = {} THEN Len(s) ELSE CHOOSE i \in stops : \A j \in stops : i <= j

\* How many bytes read_until takes from s: up to a newline or the cap.
Taken(s) ==
  LET stops == {i \in DOMAIN s : s[i] = "LF"}
      limit == MAX_LINE_LENGTH + 1 - Len(partial)
      end == IF stops = {} THEN Len(s) ELSE CHOOSE i \in stops : \A j \in stops : i <= j
  IN  IF end < limit THEN end ELSE limit

\* Mutant: the chunks of a PUT are read from the transport, past the buffer.
ReadLineUnbuffered ==
  /\ mode = "line" /\ kind = "raw" /\ buffer # <<>>
  /\ LET s == partial \o SubSeq(buffer, 1, Taken(buffer))
     IN  /\ IF Last(s) = "LF" \/ Len(s) = MAX_LINE_LENGTH + 1
            THEN FinishLine(s)
            ELSE partial' = s /\ UNCHANGED <<mode, down, error, got, reply>>
         /\ buffer' = IF mode' = "chunk" THEN <<>> ELSE SubSeq(buffer, Taken(buffer) + 1, Len(buffer))
  /\ UNCHANGED <<kind, client, wire, closed>>

\* read_line, raw: take(MAX_LINE_LENGTH + 1).read_until(LF).
ReadLine ==
  /\ mode = "line" /\ kind = "raw" /\ buffer # <<>>
  /\ LET s == partial \o SubSeq(buffer, 1, Taken(buffer))
     IN  /\ buffer' = SubSeq(buffer, Taken(buffer) + 1, Len(buffer))
         /\ IF Last(s) = "LF" \/ Len(s) = MAX_LINE_LENGTH + 1
            THEN FinishLine(s)
            ELSE partial' = s /\ UNCHANGED <<mode, down, error, got, reply>>
  /\ UNCHANGED <<kind, client, wire, closed>>

\* The bytes s arrive for a chunk, n of them wanted.
FillChunk(s) ==
  LET need == CHUNK_SIZE - Len(partial)
      n == IF Len(s) < need THEN Len(s) ELSE need
      all == partial \o SubSeq(s, 1, n)
  IN  IF Len(all) = CHUNK_SIZE THEN HandleChunk(all) /\ partial' = <<>>
                               ELSE partial' = all /\ UNCHANGED <<mode, down, error, got, reply>>

\* read_exact, raw.
ReadChunk ==
  /\ mode = "chunk" /\ kind = "raw" /\ buffer # <<>>
  /\ FillChunk(buffer)
  /\ LET need == CHUNK_SIZE - Len(partial) IN buffer' = SubSeq(buffer, need + 1, Len(buffer))
  /\ UNCHANGED <<kind, client, wire, closed>>

\* read_line and read_exact over WebSocket: one message of tungstenite, which
\* refuses text that is no UTF-8.  What a chunk does not need of a frame is lost.
ReadFrame ==
  /\ mode \in {"line", "chunk"} /\ kind = "websocket" /\ wire # <<>>
  /\ wire' = Tail(wire)
  /\ LET type == Head(wire)[1]
         data == Head(wire)[2]
     IN  \/ type = "ping" /\ UNCHANGED <<mode, partial, down, error, got, reply>>
         \/ type = "close" /\ Fail("ConnectionReset") /\ UNCHANGED partial
         \/ type = "text" /\ ~Utf8(data) /\ Fail("Other") /\ UNCHANGED partial
         \/ /\ mode = "line" /\ (type = "binary" \/ (type = "text" /\ Utf8(data)))
            /\ HandleLine(IF type = "text" THEN TextLineOf(data) ELSE LineOf(Lossy(data)))
            /\ UNCHANGED partial
         \/ /\ mode = "chunk" /\ (type = "binary" \/ (type = "text" /\ Utf8(data)))
            /\ FillChunk(data)
  /\ UNCHANGED <<kind, client, closed, buffer>>

Starved == mode # "ended" /\ wire = <<>> /\ buffer = <<>>

\* The end of file.  A raw read_line that has got some bytes takes them for a
\* line; every other read fails.
Eof ==
  /\ Starved /\ closed
  /\ IF mode = "line" /\ kind = "raw" /\ partial # <<>>
     THEN FinishLine(partial)
     ELSE /\ Fail(IF kind = "websocket" /\ mode # "head" THEN "Other" ELSE "UnexpectedEof")
          /\ UNCHANGED partial
  /\ UNCHANGED <<kind, client, wire, closed, buffer>>

\* Nothing arrives for SOCKET_TIMEOUT_SECS.
Timeout ==
  /\ Starved /\ ~closed
  /\ Fail("WouldBlock")
  /\ UNCHANGED <<kind, client, wire, closed, buffer, partial>>

-----------------------------------------------------------------------------
Ended == mode = "ended" /\ UNCHANGED vars

Client ==
  \/ \E b \in Heads : Begin("head", b)
  \/ \E b \in Lines : Begin("line", b)
  \/ \E b \in Chunks : Begin("chunk", b)
  \/ \E n \in 1 .. Len(rest), type \in {"byte", "text", "binary"} : Write(n, type)
  \/ WritePing \/ ReadReply \/ ClientClose

Server == ReadHead \/ Fill \/ ReadLine \/ ReadChunk \/ ReadFrame \/ Eof \/ Timeout

Next == Client \/ Server \/ Ended

Spec == Init /\ [][Next]_vars

-----------------------------------------------------------------------------
(* Properties. *)

\* Every variable has its type; a message in the making is shorter than what
\* completes it, so that no read goes beyond its buffer.
TypeOK ==
  /\ kind \in {"raw", "websocket"} /\ cpc \in {"head", "line", "chunk", "early", "wait"}
  /\ mode \in {"head", "line", "chunk", "ended"} /\ closed \in BOOLEAN
  /\ reply \in {"none", "OK", "ERR"} /\ Len(buffer) <= BufSize /\ Len(wire) <= WireBound + 1
  /\ mode = "line" => Len(partial) <= MAX_LINE_LENGTH
  /\ mode = "chunk" => Len(partial) < CHUNK_SIZE
  /\ mode = "head" => Len(partial) <= MAX_HEAD

AllMessages ==
  {Message("head", b) : b \in Heads} \cup {Message("line", LineOf(b)) : b \in Lines}
  \cup {Message("chunk", b) : b \in Chunks}

\* A line may arrive with the bytes that are no UTF-8 replaced.
Forms(m) == {m} \cup (IF m.what = "line" THEN {Message("line", Lossy(m.bytes))} ELSE {})

\* The client is in step with the server: it sent no chunk behind a PUT that
\* is refused.  It cannot be out of step if it asks for a chunk size the server
\* has announced, or waits for the OK.
InStep ==
  \A i \in 1 .. Len(sent) - 1 :
    sent[i] = Message("line", <<"B">>) => sent[i + 1].what # "chunk"

\* A raw line was taken whose end the client will never write.
LineCut ==
  /\ kind = "raw" /\ closed /\ rest # <<>>
  /\ Len(got) = Len(sent) /\ sent[Len(sent)].what = "line"

\* A client that is in step is understood, however TCP cuts its bytes and it
\* cuts its frames: every step is one of a channel of whole messages, across the
\* change from the head to the stream, from lines to chunks and back, past a
\* PUT that is refused, and with chunks that lie in the reader's buffer before
\* the PUT is handled.  The one exception is a line cut by the end of file,
\* which LinesAreTerminated is about.
Reads == INSTANCE Channel WITH Messages <- AllMessages, Forms <- Forms,
                               sent <- sent, got <- got, closed <- closed
ReadsAreWhole == Reads!Init /\ [][InStep' /\ ~LineCut' => Reads!Next]_<<sent, got, closed>>

\* The server blames a client that is in step (InvalidData) only for the message
\* it could not read, and only if it is too long or not UTF-8: a line of the
\* greatest length is read.
BlameIsDeserved ==
  InStep /\ error = "InvalidData" =>
    /\ Len(got) < Len(sent)
    /\ LET m == sent[Len(got) + 1]
       IN  \/ m.what = "head" /\ Len(m.bytes) > MAX_HEAD
           \/ m.what = "line" /\ (~Utf8(m.bytes) \/
                 \E b \in Lines : LineOf(b) = m.bytes /\ Len(b) > MAX_LINE_LENGTH)

\* A download arrives as it was written, its terminal mark included: chunks
\* are never framed as text, lines of text or not.
DownloadIntact == down # <<>> => down \in Chunks

\* No byte is lost or left behind: the session of a client that is in step
\* times out or meets the end of file only when it has read all that was written
\* completely, wherever a message lay between the transport, the reader's
\* buffer and the frames.
NothingIsLost ==
  InStep /\ error \in {"WouldBlock", "UnexpectedEof"} => rest # <<>> \/ Len(got) = Len(sent)

-----------------------------------------------------------------------------
(* What the repository says and the code does not do: it is violated. *)

\* "Read one newline-terminated protocol line", "Returns an error on EOF"
\* (stream/mod.rs:31-32): a line is taken only when the client has written it
\* with its newline.
LinesAreTerminated == InStep /\ Len(got) = Len(sent) => rest = <<>>
=============================================================================
