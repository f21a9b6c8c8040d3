------------------------------ MODULE Commands ------------------------------
(***************************************************************************)
(* The command loop of one session: run_commands and its handlers          *)
(* (src/protocol/commands.rs) with the accounting they do in ConnStats     *)
(* (src/events.rs).  The client sends any command with any arguments,      *)
(* acknowledges or not, uploads any chunks, or goes away.  Time passes     *)
(* while the server reads and writes.  Contents of chunks are left out,    *)
(* except for the last byte, which marks the terminal chunk.               *)
(***************************************************************************)
EXTENDS Integers, Sequences

CONSTANTS MIN_CHUNK_SIZE, MAX_CHUNK_SIZE, CHUNK_SIZE, MAX_CHUNKS, MAX_SECONDS,
          SECOND,        \* clock ticks in a second
          ReportGap,     \* clock ticks between two reports of PUT (1 ms)
          Args,          \* numbers a client may send; 0 stands for what does not parse
          CommandBound,  \* bound: commands in a session
          ChunkBound,    \* bound: chunks of a timed download or of an upload
          TimeBound      \* bound: ticks a command may take

ASSUME SizeAssumption ==
  /\ MIN_CHUNK_SIZE \in Nat \ {0} /\ CHUNK_SIZE \in Nat /\ MAX_CHUNK_SIZE \in Nat
  /\ MIN_CHUNK_SIZE <= CHUNK_SIZE /\ CHUNK_SIZE <= MAX_CHUNK_SIZE
ASSUME LimitAssumption ==
  /\ MAX_CHUNKS \in Nat /\ MAX_SECONDS \in Nat /\ SECOND \in Nat \ {0} /\ ReportGap \in Nat \ {0}
  /\ Args \subseteq Nat
ASSUME BoundAssumption ==
  CommandBound \in Nat /\ ChunkBound \in Nat /\ TimeBound \in Nat
\* No bound cuts a download short.
ASSUME RoomAssumption ==
  MAX_CHUNKS <= ChunkBound /\ MAX_SECONDS * SECOND <= TimeBound

VARIABLES
  pc,           \* where the loop or the handler is
  cmd,          \* the command being handled
  chunk_size,
  limit,        \* GETTIME: ticks to send for; GETCHUNKS: chunks to send
  elapsed,      \* start.elapsed() of the command
  chunks,       \* chunks sent or received so far
  total_bytes,  \* bytes_sent of a download, total_bytes of an upload
  last_report,  \* last_report_ns, Never when there was none
  stats,        \* the ConnStats
  out,          \* what was written since the last ACCEPT
  wire,         \* history: bytes of all whole chunks sent and received
  pings,        \* history: the times reported to the client for its PINGs
  client_size   \* history: the chunk size the client was last granted

transfer == <<limit, chunks, total_bytes, last_report>>
history == <<wire, pings, client_size>>
vars == <<pc, cmd, chunk_size, elapsed, transfer, stats, out, history>>

Never == -1        \* i128::MIN
NoArg == -1        \* an argument that was left out
NoPing == TimeBound + 1  \* u128::MAX, above every time

Downloads == {"GETTIME", "GETCHUNKS"}
Uploads == {"PUT", "PUTNORESULT"}

\* What the server writes: a line with its numbers, or a chunk with its mark.
Line(name, at, bytes) == [reply |-> name, at |-> at, bytes |-> bytes]
Chunk(mark) == Line(mark, 0, 0)
Marks == {"0x00", "0xFF"}  \* the last byte of a chunk: more follow, or the terminal one

ConnStats_new ==
  [commands |-> 0, download_bytes |-> 0, download_ns |-> 0, upload_bytes |-> 0, upload_ns |-> 0,
   ping_count |-> 0, ping_min |-> NoPing, ping_max |-> 0]

Init ==
  /\ pc = "accept" /\ cmd = "none" /\ chunk_size = CHUNK_SIZE
  /\ limit = 0 /\ elapsed = 0 /\ chunks = 0 /\ total_bytes = 0
  /\ last_report = Never /\ stats = ConnStats_new /\ out = <<>>
  /\ wire = [out |-> 0, in |-> 0] /\ pings = <<>> /\ client_size = CHUNK_SIZE

-----------------------------------------------------------------------------
(* ConnStats *)

\* Mutant: the bytes of a transfer replace those of the ones before.
add_download_replaces(bytes, ns) ==
  [stats EXCEPT !.download_bytes = bytes, !.download_ns = ns]

add_download(bytes, ns) ==
  [stats EXCEPT !.download_bytes = @ + bytes, !.download_ns = @ + ns]

add_upload(bytes, ns) ==
  [stats EXCEPT !.upload_bytes = @ + bytes, !.upload_ns = @ + ns]

\* Mutant: an else-if, so that a new minimum is never also a maximum.
add_ping_elseif(ns) ==
  [stats EXCEPT !.ping_count = @ + 1,
                !.ping_min = IF ns < @ THEN ns ELSE @,
                !.ping_max = IF ns > @ /\ ns >= stats.ping_min THEN ns ELSE @]

add_ping(ns) ==
  [stats EXCEPT !.ping_count = @ + 1,
                !.ping_min = IF ns < @ THEN ns ELSE @,
                !.ping_max = IF ns > @ THEN ns ELSE @]

-----------------------------------------------------------------------------
(* run_commands *)

\* External: the clock runs while the server waits for its client.
Tick ==
  /\ pc \in {"mark", "0x00", "0xFF", "ack", "recv", "finish"} /\ elapsed < TimeBound
  /\ elapsed' = elapsed + 1
  /\ UNCHANGED <<pc, cmd, chunk_size, transfer, stats, out, history>>

WriteAccept ==
  /\ pc = "accept"
  /\ pc' = "command" /\ out' = <<>>
  /\ UNCHANGED <<cmd, chunk_size, elapsed, transfer, stats, history>>

\* Mutant: the upper limit is not checked.
parse_chunk_size_nomax(n) == n >= MIN_CHUNK_SIZE

\* A size the server accepts.
parse_chunk_size(n) == n >= MIN_CHUNK_SIZE /\ n <= MAX_CHUNK_SIZE

\* The prologue of GETTIME, GETCHUNKS, PUT: the size is stored if one is given.
SizeOk(size) == size = NoArg \/ parse_chunk_size(size)
StoreSize(size) == chunk_size' = IF size # NoArg /\ SizeOk(size) THEN size ELSE chunk_size

\* The number argument of a download, checked after the size.
Valid(c, n) == n > 0 /\ n <= (IF c = "GETTIME" THEN MAX_SECONDS ELSE MAX_CHUNKS)
Limit(c, n) == IF c = "GETTIME" THEN n * SECOND ELSE n

Count(c) ==
  /\ pc = "command" /\ stats.commands < CommandBound
  /\ cmd' = c
  /\ stats' = [stats EXCEPT !.commands = @ + 1]

\* Instant::now() and the local variables of a handler.
Start(lim) ==
  /\ elapsed' = 0 /\ limit' = lim /\ chunks' = 0 /\ total_bytes' = 0
  /\ last_report' = Never

Refuse ==
  /\ out' = Append(out, Line("ERR", 0, 0))
  /\ pc' = "accept"
  /\ UNCHANGED <<elapsed, transfer, history>>

\* A download: refused for its size, then for its number, or begun.
GetCommand(c, n, size) ==
  /\ Count(c) /\ StoreSize(size)
  /\ \/ ~(SizeOk(size) /\ Valid(c, n)) /\ Refuse
     \/ /\ SizeOk(size) /\ Valid(c, n)
        /\ Start(Limit(c, n))
        /\ pc' = "mark"
        /\ client_size' = chunk_size'
        /\ UNCHANGED <<out, wire, pings>>

\* An upload: refused for its size, or answered with OK.
PutCommand(c, size) ==
  /\ Count(c) /\ StoreSize(size)
  /\ \/ ~SizeOk(size) /\ Refuse
     \/ /\ SizeOk(size)
        /\ Start(0)
        /\ out' = Append(out, Line("OK", 0, 0))
        /\ pc' = "recv"
        /\ client_size' = chunk_size'
        /\ UNCHANGED <<wire, pings>>

PingCommand ==
  /\ Count("PING")
  /\ Start(0)
  /\ out' = Append(out, Line("PONG", 0, 0))
  /\ pc' = "ack"
  /\ UNCHANGED <<chunk_size, history>>

QuitCommand ==
  /\ pc = "command"
  /\ cmd' = "QUIT"
  /\ out' = Append(out, Line("BYE", 0, 0))
  /\ pc' = "done"
  /\ UNCHANGED <<chunk_size, elapsed, transfer, stats, history>>

\* Any other line is refused and not counted.
UnknownCommand ==
  /\ pc = "command"
  /\ cmd' = "unknown"
  /\ Refuse
  /\ UNCHANGED <<chunk_size, stats>>

-----------------------------------------------------------------------------
(* Downloads *)

\* Mutant: the clock must hit the end of the transfer exactly.
LastChunkExact ==
  IF cmd = "GETTIME" THEN elapsed = limit ELSE chunks + 1 = limit

\* Mutant: the transfer may end a tick early.
LastChunkEarly ==
  IF cmd = "GETTIME" THEN elapsed >= limit - 1 ELSE chunks + 1 = limit

\* Whether the next chunk is the terminal one.
LastChunk == IF cmd = "GETTIME" THEN elapsed >= limit ELSE chunks + 1 = limit

\* The clock is read and the last byte of the buffer set.
MarkChunk ==
  /\ pc = "mark" /\ (LastChunk \/ chunks < ChunkBound)
  /\ pc' = IF LastChunk THEN "0xFF" ELSE "0x00"
  /\ UNCHANGED <<cmd, chunk_size, elapsed, transfer, stats, out, history>>

\* Mutant: the loop ends before the terminal chunk is written.
WriteChunkBreaksFirst(mark) ==
  /\ pc = mark
  /\ UNCHANGED <<cmd, chunk_size, limit, elapsed, last_report, pings, client_size>>
  /\ IF mark = "0xFF"
       THEN /\ pc' = "ack" /\ stats' = add_download(total_bytes, elapsed)
            /\ UNCHANGED <<chunks, total_bytes, out, wire>>
       ELSE /\ pc' = "mark" /\ chunks' = chunks + 1 /\ total_bytes' = total_bytes + chunk_size
            /\ out' = Append(out, Chunk(mark)) /\ wire' = [wire EXCEPT !.out = @ + chunk_size]
            /\ UNCHANGED stats

\* One chunk goes out; after the terminal one the transfer is accounted for,
\* before the client acknowledges it.
WriteChunk(mark) ==
  /\ pc = mark
  /\ out' = Append(out, Chunk(mark))
  /\ wire' = [wire EXCEPT !.out = @ + chunk_size]
  /\ chunks' = chunks + 1
  /\ total_bytes' = total_bytes + chunk_size
  /\ pc' = IF mark = "0xFF" THEN "ack" ELSE "mark"
  /\ stats' = IF mark # "0xFF" THEN stats
              ELSE add_download(IF cmd = "GETTIME" THEN total_bytes' ELSE limit * chunk_size, elapsed)
  /\ UNCHANGED <<cmd, chunk_size, limit, elapsed, last_report, pings, client_size>>

\* The client's answer to the terminal chunk or to PONG: OK or anything else.
ReadAck(ack) ==
  /\ pc = "ack"
  /\ out' = Append(out, IF ack = "OK" THEN Line("TIME", elapsed, 0) ELSE Line("ERR", 0, 0))
  /\ IF ack = "OK" /\ cmd = "PING"
       THEN stats' = add_ping(elapsed) /\ pings' = Append(pings, elapsed)
       ELSE UNCHANGED <<stats, pings>>
  /\ pc' = "accept"
  /\ UNCHANGED <<cmd, chunk_size, elapsed, transfer, wire, client_size>>

-----------------------------------------------------------------------------
(* Uploads *)

\* Mutant: the first report has to wait like the others.
ReportDueLater == cmd = "PUT" /\ elapsed - (IF last_report < 0 THEN 0 ELSE last_report) >= ReportGap

\* Mutant: a report follows every chunk.
ReportDueAlways == cmd = "PUT"

\* The first chunk is reported, and then one whenever 1 ms has passed.
ReportDue == cmd = "PUT" /\ (last_report < 0 \/ elapsed - last_report >= ReportGap)

\* A whole chunk arrives, with the terminal mark or without.
ReceiveChunk(mark) ==
  /\ pc = "recv" /\ (mark = "0xFF" \/ chunks < ChunkBound)
  /\ wire' = [wire EXCEPT !.in = @ + chunk_size]
  /\ chunks' = chunks + 1
  /\ total_bytes' = total_bytes + chunk_size
  /\ IF ReportDue
       THEN last_report' = elapsed /\ out' = Append(out, Line("REPORT", elapsed, total_bytes'))
       ELSE UNCHANGED <<last_report, out>>
  /\ pc' = IF mark = "0xFF" THEN "finish" ELSE "recv"
  /\ UNCHANGED <<cmd, chunk_size, limit, elapsed, stats, pings, client_size>>

\* The transfer is accounted for and its time reported.
FinishUpload ==
  /\ pc = "finish"
  /\ stats' = add_upload(total_bytes, elapsed)
  /\ out' = Append(out, Line("TIME", elapsed, 0))
  /\ pc' = "accept"
  /\ UNCHANGED <<cmd, chunk_size, elapsed, transfer, history>>

-----------------------------------------------------------------------------
\* A read or a write fails: the ? operator leaves run_commands.
Fail ==
  /\ pc \notin {"done", "failed"}
  /\ pc' = "failed"
  /\ UNCHANGED <<cmd, chunk_size, elapsed, transfer, stats, out, history>>

Returned == pc \in {"done", "failed"} /\ UNCHANGED vars

ServerStep == WriteAccept \/ MarkChunk \/ (\E mark \in Marks : WriteChunk(mark)) \/ FinishUpload

ClientStep ==
  \/ \E c \in Downloads, n \in Args, size \in Args \cup {NoArg} : GetCommand(c, n, size)
  \/ \E c \in Uploads, size \in Args \cup {NoArg} : PutCommand(c, size)
  \/ PingCommand \/ QuitCommand \/ UnknownCommand
  \/ \E ack \in {"OK", "other"} : ReadAck(ack)
  \/ \E mark \in Marks : ReceiveChunk(mark)

Next == Tick \/ ServerStep \/ ClientStep \/ Fail \/ Returned

\* The worker thread runs and the clock with it; the client owes nothing.
Spec == Init /\ [][Next]_vars /\ WF_vars(Tick) /\ WF_vars(ServerStep)

-----------------------------------------------------------------------------
(* Properties. *)

Places == {"accept", "command", "mark", "0x00", "0xFF", "ack", "recv", "finish", "done", "failed"}

Replies == [reply : {"OK", "ERR", "PONG", "BYE", "TIME", "REPORT", "0x00", "0xFF"},
            at : 0 .. TimeBound, bytes : Nat]

Stats == [commands : Nat, download_bytes : Nat, download_ns : Nat, upload_bytes : Nat,
          upload_ns : Nat, ping_count : Nat, ping_min : Nat, ping_max : Nat]

\* Every variable has its type.  The chunk size stays within the limits, so that
\* the slices of the shared random buffer and the index of the last byte of a
\* chunk exist.
TypeOK ==
  /\ pc \in Places /\ cmd \in Downloads \cup Uploads \cup {"PING", "QUIT", "unknown", "none"}
  /\ chunk_size \in MIN_CHUNK_SIZE .. MAX_CHUNK_SIZE
  /\ limit \in Nat /\ elapsed \in 0 .. TimeBound
  /\ chunks \in Nat /\ total_bytes \in Nat /\ last_report \in Int
  /\ stats \in Stats
  /\ out \in Seq(Replies)
  /\ wire \in [out : Nat, in : Nat] /\ pings \in Seq(Nat)
  /\ client_size \in MIN_CHUNK_SIZE .. MAX_CHUNK_SIZE

\* When the server asks for the next command it has answered the one before as
\* the protocol has it: with ERR alone, or with the whole exchange.  A download
\* has exactly one terminal chunk, the last, and GETCHUNKS the number asked for.
RepliesComplete ==
  pc = "accept" /\ cmd # "none" =>
    LET n == Len(out) IN
    \/ out = <<Line("ERR", 0, 0)>>
    \/ /\ cmd \in Downloads /\ n >= 2 /\ out[n].reply \in {"TIME", "ERR"}
       /\ \A i \in 1 .. n - 1 : out[i] = Chunk(IF i = n - 1 THEN "0xFF" ELSE "0x00")
       /\ cmd = "GETCHUNKS" => n - 1 = limit
    \/ /\ cmd \in Uploads /\ n >= 2 /\ out[1].reply = "OK" /\ out[n].reply = "TIME"
       /\ \A i \in 2 .. n - 1 : out[i].reply = "REPORT" /\ cmd = "PUT"
    \/ cmd = "PING" /\ n = 2 /\ out[1].reply = "PONG" /\ out[2].reply \in {"TIME", "ERR"}

\* The time the server reports for a GETTIME is at least the time asked for:
\* the terminal chunk is not sent before it has passed.
GettimeLasts ==
  cmd = "GETTIME" /\ pc = "accept" /\ out # <<>> /\ out[Len(out)].reply = "TIME"
    => out[Len(out)].at >= limit

\* The byte counts of the close event are those of the transfers: between two
\* commands they are all that went over the wire in whole chunks, during a
\* transfer what it has moved so far is missing, and a session that fails never
\* reports more than was moved.
InTransit(commands) ==
  IF cmd \in commands /\ pc \in {"mark", "0x00", "0xFF", "recv", "finish"} THEN total_bytes ELSE 0

StatsMatchWire ==
  /\ stats.download_bytes <= wire.out /\ stats.upload_bytes <= wire.in
  /\ pc # "failed" => /\ wire.out = stats.download_bytes + InTransit(Downloads)
                      /\ wire.in = stats.upload_bytes + InTransit(Uploads)

\* The ping statistics are the number, the minimum and the maximum of the times
\* the client was told; a ping it did not acknowledge does not count.
PingsMatch ==
  /\ stats.ping_count = Len(pings)
  /\ \A i \in 1 .. Len(pings) : stats.ping_min <= pings[i] /\ pings[i] <= stats.ping_max
  /\ pings # <<>> => {stats.ping_min, stats.ping_max} \subseteq {pings[i] : i \in 1 .. Len(pings)}

Reports == {i \in 1 .. Len(out) : out[i].reply = "REPORT"}

\* "at most every 1 ms": two reports of an upload are at least that far apart
\* and count more bytes each time; the closing TIME is not before any of them.
ReportsSpaced ==
  \A i \in Reports, j \in 1 .. Len(out) : i < j =>
    /\ j \in Reports => out[j].at >= out[i].at + ReportGap /\ out[j].bytes > out[i].bytes
    /\ out[j].at >= out[i].at

\* The first chunk of a PUT is reported, whenever it comes: the client measures
\* from the first report on.
FirstChunkReported ==
  cmd = "PUT" /\ pc \in {"recv", "finish"} /\ chunks > 0 =>
    Len(out) >= 2 /\ out[2].reply = "REPORT" /\ out[2].bytes = chunk_size

\* A download ends as far as the server is concerned, however slowly the clock
\* and the client go: every one is finished or fails.
DownloadEnds == pc \in {"mark", "0x00", "0xFF"} ~> pc \in {"ack", "failed"}

-----------------------------------------------------------------------------
(* What the repository says and the code does not do: violated. *)

\* "The current chunk size negotiated with this client." (commands.rs:23): the
\* size the server uses next is the one it last granted; a refused request
\* negotiates nothing.
ChunkSizeAgreed == pc = "command" => chunk_size = client_size
=============================================================================
