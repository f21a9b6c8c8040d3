--------------------------- MODULE CommandsProofs ---------------------------
(***************************************************************************)
(* Proofs about Commands: types, the accounting of transfers, the length   *)
(* of timed downloads and the spacing of upload reports, for any chunk     *)
(* sizes, limits and numbers of commands.                                  *)
(***************************************************************************)
EXTENDS Commands, TLAPS

USE SizeAssumption, LimitAssumption, BoundAssumption DEF Downloads, Uploads

\* What the server writes is well typed, for any time and any byte count.
LEMMA ReplyType ==
  /\ \A name \in {"OK", "ERR", "PONG", "BYE", "TIME", "REPORT"}, at \in 0 .. TimeBound, b \in Nat :
       Line(name, at, b) \in Replies
  /\ \A mark \in Marks : Chunk(mark) \in Replies
BY DEF Line, Chunk, Marks, Replies

\* The limit of a download is a number, and a store leaves a legal size.
LEMMA PrologueType ==
  ASSUME TypeOK
  PROVE  /\ \A c \in Downloads, n \in Args : Limit(c, n) \in Nat
         /\ \A size \in Args \cup {NoArg} :
              StoreSize(size) => chunk_size' \in MIN_CHUNK_SIZE .. MAX_CHUNK_SIZE
<1>1. ASSUME NEW c \in Downloads, NEW n \in Args PROVE Limit(c, n) \in Nat
  <2>1. n \in Nat /\ n * SECOND \in Nat
    OBVIOUS
  <2> QED BY <2>1 DEF Limit
<1>2. ASSUME NEW size \in Args \cup {NoArg}, StoreSize(size)
      PROVE  chunk_size' \in MIN_CHUNK_SIZE .. MAX_CHUNK_SIZE
  BY <1>2 DEF StoreSize, SizeOk, parse_chunk_size, NoArg, TypeOK
<1> QED BY <1>1, <1>2

\* What the handlers do to the statistics leaves them well typed.
LEMMA StatsType ==
  ASSUME stats \in Stats
  PROVE  /\ [stats EXCEPT !.commands = @ + 1] \in Stats
         /\ \A b \in Nat, ns \in Nat : add_download(b, ns) \in Stats /\ add_upload(b, ns) \in Stats
         /\ \A ns \in Nat : add_ping(ns) \in Stats
<1>1. [stats EXCEPT !.commands = @ + 1] \in Stats
  BY DEF Stats
<1>2. ASSUME NEW b \in Nat, NEW ns \in Nat PROVE add_download(b, ns) \in Stats
  <2>1. stats.download_bytes + b \in Nat /\ stats.download_ns + ns \in Nat
    BY DEF Stats
  <2>2. ASSUME NEW x \in Nat, NEW y \in Nat
        PROVE  [stats EXCEPT !.download_bytes = x, !.download_ns = y] \in Stats
    BY DEF Stats
  <2> QED BY <2>1, <2>2 DEF add_download
<1>3. ASSUME NEW b \in Nat, NEW ns \in Nat PROVE add_upload(b, ns) \in Stats
  <2>1. stats.upload_bytes + b \in Nat /\ stats.upload_ns + ns \in Nat
    BY DEF Stats
  <2>2. ASSUME NEW x \in Nat, NEW y \in Nat
        PROVE  [stats EXCEPT !.upload_bytes = x, !.upload_ns = y] \in Stats
    BY DEF Stats
  <2> QED BY <2>1, <2>2 DEF add_upload
<1>4. ASSUME NEW ns \in Nat PROVE add_ping(ns) \in Stats
  <2>1. /\ stats.ping_count + 1 \in Nat
        /\ (IF ns < stats.ping_min THEN ns ELSE stats.ping_min) \in Nat
        /\ (IF ns > stats.ping_max THEN ns ELSE stats.ping_max) \in Nat
    BY DEF Stats
  <2>2. ASSUME NEW x \in Nat, NEW y \in Nat, NEW z \in Nat
        PROVE  [stats EXCEPT !.ping_count = x, !.ping_min = y, !.ping_max = z] \in Stats
    BY DEF Stats
  <2> QED BY <2>1, <2>2 DEF add_ping
<1> QED BY <1>1, <1>2, <1>3, <1>4

LEMMA TypeInit == Init => TypeOK
<1> SUFFICES ASSUME Init PROVE TypeOK
  OBVIOUS
<1>1. stats \in Stats
  BY DEF Init, Stats, ConnStats_new, NoPing
<1>2. pc \in Places /\ last_report \in Int /\ wire \in [out : Nat, in : Nat]
  BY DEF Init, Places, Never
<1>3. out \in Seq(Replies)
  BY DEF Init
<1>4. pings \in Seq(Nat)
  BY DEF Init
<1>5. /\ cmd \in Downloads \cup Uploads \cup {"PING", "QUIT", "unknown", "none"}
      /\ chunk_size \in MIN_CHUNK_SIZE .. MAX_CHUNK_SIZE
      /\ limit \in Nat /\ elapsed \in 0 .. TimeBound
      /\ chunks \in Nat /\ total_bytes \in Nat
      /\ client_size \in MIN_CHUNK_SIZE .. MAX_CHUNK_SIZE
  BY DEF Init
<1> QED BY <1>1, <1>2, <1>3, <1>4, <1>5 DEF TypeOK

LEMMA TypeNext == TypeOK /\ [Next]_vars => TypeOK'
<1> SUFFICES ASSUME TypeOK, [Next]_vars PROVE TypeOK'
  OBVIOUS
<1>0. /\ chunk_size \in Nat /\ total_bytes \in Nat /\ limit \in Nat /\ elapsed \in Nat /\ chunks \in Nat
      /\ elapsed \in 0 .. TimeBound /\ last_report \in Int
      /\ wire \in [out : Nat, in : Nat] /\ stats \in Stats
  BY DEF TypeOK
<1>a. out \in Seq(Replies) /\ pings \in Seq(Nat)
  BY DEF TypeOK
<1>1. CASE Tick
  BY <1>1 DEF TypeOK, Places, Tick, transfer, history
<1>2. CASE WriteAccept
  BY <1>2 DEF TypeOK, Places, WriteAccept, transfer, history
<1>3. ASSUME NEW c \in Downloads, NEW n \in Args, NEW size \in Args \cup {NoArg}, GetCommand(c, n, size)
      PROVE  TypeOK'
  <2>1. /\ chunk_size' \in MIN_CHUNK_SIZE .. MAX_CHUNK_SIZE /\ Limit(c, n) \in Nat
        /\ cmd' = c
        /\ stats' \in Stats
    BY <1>3, PrologueType, StatsType DEF TypeOK, Places, GetCommand, Count
  <2>2. CASE Refuse
    BY <2>1, <2>2, ReplyType DEF TypeOK, Places, Refuse, transfer, history
  <2>3. CASE Start(Limit(c, n)) /\ pc' = "mark" /\ client_size' = chunk_size' /\ UNCHANGED <<out, wire, pings>>
    BY <2>1, <2>3 DEF TypeOK, Places, Start, Never
  <2> QED BY <1>3, <2>2, <2>3 DEF TypeOK, Places, GetCommand
<1>4. ASSUME NEW c \in Uploads, NEW size \in Args \cup {NoArg}, PutCommand(c, size)
      PROVE  TypeOK'
  <2>1. /\ chunk_size' \in MIN_CHUNK_SIZE .. MAX_CHUNK_SIZE /\ cmd' = c
        /\ stats' \in Stats
    BY <1>4, PrologueType, StatsType DEF TypeOK, Places, PutCommand, Count
  <2>2. CASE Refuse
    BY <2>1, <2>2, ReplyType DEF TypeOK, Places, Refuse, transfer, history
  <2>3. CASE /\ Start(0) /\ out' = Append(out, Line("OK", 0, 0))
             /\ pc' = "recv" /\ client_size' = chunk_size' /\ UNCHANGED <<wire, pings>>
    BY <2>1, <2>3, ReplyType DEF TypeOK, Places, Start, Never
  <2> QED BY <1>4, <2>2, <2>3 DEF TypeOK, Places, PutCommand
<1>5. CASE PingCommand
  <2>1. stats' \in Stats /\ cmd' = "PING" /\ pc' = "ack"
    BY <1>5, StatsType DEF TypeOK, Places, PingCommand, Count
  <2>2. out' \in Seq(Replies)
    BY <1>5, ReplyType DEF TypeOK, Places, PingCommand
  <2> QED BY <1>5, <2>1, <2>2 DEF TypeOK, Places, PingCommand, Start, Never, history
<1>6. CASE QuitCommand
  BY <1>6, ReplyType DEF TypeOK, Places, QuitCommand, transfer, history
<1>7. CASE UnknownCommand
  BY <1>7, ReplyType DEF TypeOK, Places, UnknownCommand, Refuse, transfer, history
<1>8. CASE MarkChunk
  BY <1>8 DEF TypeOK, Places, MarkChunk, transfer, history
<1>9. ASSUME NEW mark \in Marks, WriteChunk(mark) PROVE TypeOK'
  <2>1. total_bytes' = total_bytes + chunk_size /\ chunks' = chunks + 1
    BY <1>9 DEF WriteChunk
  <2>2. limit * chunk_size \in Nat /\ total_bytes' \in Nat /\ chunks' \in Nat
    BY <1>0, <2>1
  <2>3. stats' \in Stats
    <3>1. \/ stats' = stats
          \/ stats' = add_download(total_bytes', elapsed)
          \/ stats' = add_download(limit * chunk_size, elapsed)
      BY <1>9 DEF WriteChunk
    <3> QED BY <1>0, <2>2, <3>1, StatsType
  <2>4. out' \in Seq(Replies)
    <3>1. out' = Append(out, Chunk(mark))
      BY <1>9 DEF WriteChunk
    <3> QED BY <1>a, <3>1, ReplyType
  <2>5. wire' \in [out : Nat, in : Nat]
    <3>1. wire' = [wire EXCEPT !.out = @ + chunk_size]
      BY <1>9 DEF WriteChunk
    <3> QED BY <1>0, <3>1
  <2>6. pc' \in {"ack", "mark"}
    BY <1>9 DEF WriteChunk
  <2> QED BY <1>9, <2>2, <2>3, <2>4, <2>5, <2>6 DEF WriteChunk, TypeOK, Places
<1>10. ASSUME NEW ack \in {"OK", "other"}, ReadAck(ack) PROVE TypeOK'
  <2>1. pc' = "accept" /\ UNCHANGED <<cmd, chunk_size, elapsed, transfer, wire, client_size>>
    BY <1>10 DEF ReadAck
  <2>2. out' \in Seq(Replies)
    <3>1. Line("TIME", elapsed, 0) \in Replies /\ Line("ERR", 0, 0) \in Replies
      BY <1>0, ReplyType
    <3>2. PICK r \in Replies : out' = Append(out, r)
      BY <1>10, <3>1 DEF ReadAck
    <3> QED BY <1>a, <3>2
  <2>3. stats' \in Stats
    <3>1. stats' = stats \/ stats' = add_ping(elapsed)
      BY <1>10 DEF ReadAck
    <3> QED BY <1>0, <3>1, StatsType
  <2>4. pings' \in Seq(Nat)
    <3>1. CASE pings' = pings
      BY <1>a, <3>1
    <3>2. CASE pings' = Append(pings, elapsed)
      BY <1>0, <1>a, <3>2
    <3> QED BY <1>10, <3>1, <3>2 DEF ReadAck
  <2> QED BY <2>1, <2>2, <2>3, <2>4 DEF transfer, TypeOK, Places
<1>11. ASSUME NEW mark \in Marks, ReceiveChunk(mark) PROVE TypeOK'
  <2>1. total_bytes' = total_bytes + chunk_size /\ chunks' = chunks + 1
    BY <1>11 DEF ReceiveChunk
  <2>2. total_bytes' \in Nat /\ chunks' \in Nat
    BY <1>0, <2>1
  <2>3. last_report' \in Int
    <3>1. last_report' = last_report \/ last_report' = elapsed
      BY <1>11 DEF ReceiveChunk
    <3> QED BY <1>0, <3>1
  <2>4. out' \in Seq(Replies)
    <3>1. Line("REPORT", elapsed, total_bytes') \in Replies
      BY <1>0, <2>2, ReplyType
    <3>2. CASE out' = out
      BY <1>a, <3>2
    <3>3. CASE out' = Append(out, Line("REPORT", elapsed, total_bytes'))
      BY <1>a, <3>1, <3>3
    <3> QED BY <1>11, <3>2, <3>3 DEF ReceiveChunk
  <2>5. wire' \in [out : Nat, in : Nat]
    <3>1. wire' = [wire EXCEPT !.in = @ + chunk_size]
      BY <1>11 DEF ReceiveChunk
    <3> QED BY <1>0, <3>1
  <2>6. pc' \in {"recv", "finish"}
    BY <1>11 DEF ReceiveChunk
  <2> QED BY <1>11, <2>2, <2>3, <2>4, <2>5, <2>6 DEF ReceiveChunk, TypeOK, Places
<1>12. CASE FinishUpload
  <2>1. stats' = add_upload(total_bytes, elapsed) /\ out' = Append(out, Line("TIME", elapsed, 0))
    BY <1>12 DEF FinishUpload
  <2>2. stats' \in Stats
    BY <1>0, <2>1, StatsType
  <2>3. out' \in Seq(Replies)
    <3>1. Line("TIME", elapsed, 0) \in Replies
      BY <1>0, ReplyType
    <3> QED BY <1>a, <2>1, <3>1
  <2> QED BY <1>12, <2>2, <2>3 DEF FinishUpload, transfer, history, TypeOK, Places
<1>13. CASE Fail
  BY <1>13 DEF Fail, transfer, history, TypeOK, Places
<1>14. CASE UNCHANGED vars
  BY <1>14 DEF vars, transfer, history, TypeOK
<1> QED
  BY <1>1, <1>2, <1>3, <1>4, <1>5, <1>6, <1>7, <1>8, <1>9, <1>10, <1>11, <1>12, <1>13, <1>14
     DEF Next, ServerStep, ClientStep, Returned

\* The types of the command loop: in particular the chunk size always stays
\* within its limits, whatever the client asks for.
THEOREM TypeCorrect == Spec => []TypeOK
BY TypeInit, TypeNext, PTL DEF Spec

-----------------------------------------------------------------------------
(* The accounting of transfers. *)

\* The inductive invariant: StatsMatchWire, and why the two ways in which the
\* handlers compute the bytes of a download agree.
Sending == {"mark", "0x00", "0xFF"}
Receiving == {"recv", "finish"}

AccountInv ==
  /\ pc \in Sending => cmd \in Downloads /\ total_bytes = chunks * chunk_size
  /\ pc \in Receiving => cmd \in Uploads
  /\ pc = "0xFF" /\ cmd = "GETCHUNKS" => chunks + 1 = limit
  /\ StatsMatchWire

\* The byte counters after each of the operations of ConnStats.
LEMMA StatsBytes ==
  ASSUME stats \in Stats
  PROVE  /\ [stats EXCEPT !.commands = @ + 1].download_bytes = stats.download_bytes
         /\ [stats EXCEPT !.commands = @ + 1].upload_bytes = stats.upload_bytes
         /\ \A b, ns : /\ add_download(b, ns).download_bytes = stats.download_bytes + b
                       /\ add_download(b, ns).upload_bytes = stats.upload_bytes
                       /\ add_upload(b, ns).upload_bytes = stats.upload_bytes + b
                       /\ add_upload(b, ns).download_bytes = stats.download_bytes
         /\ \A ns : /\ add_ping(ns).download_bytes = stats.download_bytes
                    /\ add_ping(ns).upload_bytes = stats.upload_bytes
BY DEF Stats, add_download, add_upload, add_ping

\* One more chunk adds its size to a product.
LEMMA OneMore ==
  ASSUME NEW n \in Nat, NEW k \in Nat
  PROVE  (n + 1) * k = n * k + k /\ 0 * k = 0
OBVIOUS

LEMMA AccountInit == Init => AccountInv
BY DEF Init, AccountInv, Sending, Receiving, StatsMatchWire, InTransit, ConnStats_new

LEMMA AccountNext == TypeOK /\ AccountInv /\ [Next]_vars => AccountInv'
<1> SUFFICES ASSUME TypeOK, AccountInv, [Next]_vars PROVE AccountInv'
  OBVIOUS
<1>0. /\ chunk_size \in Nat /\ total_bytes \in Nat /\ limit \in Nat /\ chunks \in Nat
      /\ wire \in [out : Nat, in : Nat] /\ stats \in Stats
  BY DEF TypeOK
<1>a. stats.download_bytes \in Nat /\ stats.upload_bytes \in Nat /\ wire.out \in Nat /\ wire.in \in Nat
  BY <1>0 DEF Stats
<1> USE DEF Sending, Receiving
\* Steps that move no bytes and leave the place where bytes are in transit alone.
<1>1. ASSUME UNCHANGED <<wire, cmd, chunk_size, transfer>>,
             stats'.download_bytes = stats.download_bytes, stats'.upload_bytes = stats.upload_bytes,
             \/ pc' = pc
             \/ pc \notin Sending \cup Receiving /\ pc' \notin Sending \cup Receiving /\ pc # "failed"
             \/ pc = "mark" /\ pc' \in {"0x00", "0xFF"} /\ (pc' = "0xFF" => LastChunk)
             \/ pc' = "failed"
      PROVE  AccountInv'
  BY <1>0, <1>a, <1>1 DEF AccountInv, StatsMatchWire, InTransit, LastChunk, transfer
\* Commands: nothing is in transit before, and nothing yet after.
<1>2. ASSUME UNCHANGED wire, pc = "command",
             stats'.download_bytes = stats.download_bytes, stats'.upload_bytes = stats.upload_bytes,
             \/ pc' \in {"accept", "ack", "done"}
             \/ pc' = "mark" /\ cmd' \in Downloads /\ chunks' = 0 /\ total_bytes' = 0 /\ chunk_size' \in Nat
             \/ pc' = "recv" /\ cmd' \in Uploads /\ total_bytes' = 0
      PROVE  AccountInv'
  BY <1>0, <1>a, <1>2, OneMore DEF AccountInv, StatsMatchWire, InTransit
<1>3. CASE Tick
  BY <1>3, <1>1 DEF Tick, history
<1>4. CASE WriteAccept
  BY <1>4, <1>1 DEF WriteAccept, history
<1>5. ASSUME NEW c \in Downloads, NEW n \in Args, NEW size \in Args \cup {NoArg}, GetCommand(c, n, size)
      PROVE  AccountInv'
  <2>1. chunk_size' \in Nat
    BY <1>5, PrologueType DEF GetCommand
  <2>2. /\ stats' = [stats EXCEPT !.commands = @ + 1] /\ pc = "command" /\ cmd' = c /\ UNCHANGED wire
        /\ \/ pc' = "accept"
           \/ pc' = "mark" /\ chunks' = 0 /\ total_bytes' = 0
    BY <1>5 DEF GetCommand, Count, Refuse, Start, history
  <2> QED BY <1>0, <1>2, <2>1, <2>2, StatsBytes
<1>6. ASSUME NEW c \in Uploads, NEW size \in Args \cup {NoArg}, PutCommand(c, size)
      PROVE  AccountInv'
  <2>1. /\ stats' = [stats EXCEPT !.commands = @ + 1] /\ pc = "command" /\ cmd' = c /\ UNCHANGED wire
        /\ \/ pc' = "accept"
           \/ pc' = "recv" /\ total_bytes' = 0
    BY <1>6 DEF PutCommand, Count, Refuse, Start, history
  <2> QED BY <1>0, <1>2, <2>1, StatsBytes
<1>7. CASE PingCommand
  BY <1>0, <1>2, <1>7, StatsBytes DEF PingCommand, Count, history
<1>8. CASE QuitCommand
  BY <1>2, <1>8 DEF QuitCommand, history
<1>9. CASE UnknownCommand
  BY <1>2, <1>9 DEF UnknownCommand, Refuse, history
<1>10. CASE MarkChunk
  <2>1. pc' \in {"0x00", "0xFF"} /\ (pc' = "0xFF" => LastChunk)
    BY <1>10 DEF MarkChunk
  <2> QED BY <1>1, <1>10, <2>1 DEF MarkChunk, history
<1>11. ASSUME NEW mark \in Marks, WriteChunk(mark) PROVE AccountInv'
  <2>1. /\ pc = mark /\ mark \in {"0x00", "0xFF"} /\ UNCHANGED <<cmd, chunk_size, limit>>
        /\ total_bytes' = total_bytes + chunk_size /\ chunks' = chunks + 1
        /\ pc' = IF mark = "0xFF" THEN "ack" ELSE "mark"
    BY <1>11 DEF WriteChunk, Marks
  <2>2. cmd \in Downloads /\ total_bytes' = chunks' * chunk_size
    BY <1>0, <2>1, OneMore DEF AccountInv
  <2>3. wire'.out = wire.out + chunk_size /\ wire'.in = wire.in
    <3>1. wire' = [wire EXCEPT !.out = @ + chunk_size]
      BY <1>11 DEF WriteChunk
    <3> QED BY <1>0, <3>1
  <2>4. CASE mark = "0x00"
    <3>1. stats' = stats
      BY <1>11, <2>4 DEF WriteChunk
    <3> QED BY <1>0, <1>a, <2>1, <2>2, <2>3, <2>4, <3>1 DEF AccountInv, StatsMatchWire, InTransit
  <2>5. CASE mark = "0xFF"
    <3>1. cmd = "GETCHUNKS" => limit * chunk_size = total_bytes'
      BY <2>1, <2>2, <2>5 DEF AccountInv
    <3>2. PICK b : stats' = add_download(b, elapsed) /\ b = total_bytes'
      BY <1>11, <2>2, <2>5, <3>1 DEF WriteChunk
    <3>3. stats'.download_bytes = stats.download_bytes + total_bytes' /\ stats'.upload_bytes = stats.upload_bytes
      BY <1>0, <3>2, StatsBytes
    <3> QED BY <1>0, <1>a, <2>1, <2>2, <2>3, <2>5, <3>3 DEF AccountInv, StatsMatchWire, InTransit
  <2> QED BY <2>1, <2>4, <2>5
<1>12. ASSUME NEW ack \in {"OK", "other"}, ReadAck(ack) PROVE AccountInv'
  <2>1. stats' = stats \/ stats' = add_ping(elapsed)
    BY <1>12 DEF ReadAck
  <2>2. stats'.download_bytes = stats.download_bytes /\ stats'.upload_bytes = stats.upload_bytes
    BY <1>0, <2>1, StatsBytes
  <2> QED BY <1>1, <1>12, <2>2 DEF ReadAck
<1>13. ASSUME NEW mark \in Marks, ReceiveChunk(mark) PROVE AccountInv'
  <2>1. /\ pc = "recv" /\ pc' \in {"recv", "finish"} /\ UNCHANGED <<cmd, chunk_size, limit, stats>>
        /\ total_bytes' = total_bytes + chunk_size
    BY <1>13 DEF ReceiveChunk
  <2>2. wire'.in = wire.in + chunk_size /\ wire'.out = wire.out
    <3>1. wire' = [wire EXCEPT !.in = @ + chunk_size]
      BY <1>13 DEF ReceiveChunk
    <3> QED BY <1>0, <3>1
  <2> QED BY <1>0, <1>a, <2>1, <2>2 DEF AccountInv, StatsMatchWire, InTransit
<1>14. CASE FinishUpload
  <2>1. /\ pc = "finish" /\ pc' = "accept" /\ UNCHANGED <<cmd, wire>>
        /\ stats' = add_upload(total_bytes, elapsed)
    BY <1>14 DEF FinishUpload, history
  <2>2. stats'.upload_bytes = stats.upload_bytes + total_bytes /\ stats'.download_bytes = stats.download_bytes
    BY <1>0, <2>1, StatsBytes
  <2> QED BY <1>0, <1>a, <2>1, <2>2 DEF AccountInv, StatsMatchWire, InTransit
<1>15. CASE Fail
  BY <1>1, <1>15 DEF Fail, history
<1>16. CASE UNCHANGED vars
  BY <1>1, <1>16 DEF vars, history
<1> QED
  BY <1>3, <1>4, <1>5, <1>6, <1>7, <1>8, <1>9, <1>10, <1>11, <1>12, <1>13, <1>14, <1>15, <1>16
     DEF Next, ServerStep, ClientStep, Returned

\* The byte counts a close event reports are those of the transfers, for any
\* chunk sizes, also when they change within a session.
THEOREM TransfersAccounted == Spec => []StatsMatchWire
<1>1. AccountInv => StatsMatchWire
  BY DEF AccountInv
<1> QED BY <1>1, TypeCorrect, AccountInit, AccountNext, PTL DEF Spec

-----------------------------------------------------------------------------
(* Timed downloads and the reports of uploads. *)

\* The fields of a reply.
LEMMA ReplyFields ==
  /\ \A r \in Replies : r.at \in Nat /\ r.bytes \in Nat
  /\ \A name, at, b : /\ Line(name, at, b).reply = name /\ Line(name, at, b).at = at
                      /\ Line(name, at, b).bytes = b
  /\ \A mark : Chunk(mark).reply = mark
BY DEF Replies, Line, Chunk

\* What is known of a sequence after one more reply.
LEMMA Appended ==
  ASSUME NEW s \in Seq(Replies), NEW r
  PROVE  /\ Len(s) \in Nat /\ Len(Append(s, r)) = Len(s) + 1
         /\ Append(s, r)[Len(s) + 1] = r
         /\ \A i \in 1 .. Len(s) : Append(s, r)[i] = s[i] /\ s[i] \in Replies
OBVIOUS

\* The inductive invariant for GettimeLasts: once the terminal chunk is marked,
\* the time has passed.
TimeInv ==
  /\ cmd = "GETTIME" /\ pc \in {"0xFF", "ack"} => elapsed >= limit
  /\ GettimeLasts

LEMMA TimeInit == Init => TimeInv
BY DEF Init, TimeInv, GettimeLasts

LEMMA TimeNext == TypeOK /\ AccountInv /\ TimeInv /\ [Next]_vars => TimeInv'
<1> SUFFICES ASSUME TypeOK, AccountInv, TimeInv, [Next]_vars PROVE TimeInv'
  OBVIOUS
<1>0. elapsed \in Nat /\ limit \in Nat
  BY DEF TypeOK
<1>a. out \in Seq(Replies)
  BY DEF TypeOK
<1>1. ASSUME pc' \notin {"0xFF", "ack", "accept"} PROVE TimeInv'
  BY <1>1 DEF TimeInv, GettimeLasts
<1>2. ASSUME NEW r, out' = Append(out, r), r.reply # "TIME", pc' = "accept" PROVE TimeInv'
  <2>1. out'[Len(out')].reply # "TIME"
    BY <1>a, <1>2, Appended
  <2> QED BY <1>2, <2>1 DEF TimeInv, GettimeLasts
<1>3. CASE Tick
  BY <1>0, <1>3 DEF Tick, TimeInv, GettimeLasts, transfer
<1>4. CASE WriteAccept
  BY <1>1, <1>4 DEF WriteAccept
<1>5. ASSUME NEW c \in Downloads, NEW n \in Args, NEW size \in Args \cup {NoArg}, GetCommand(c, n, size)
      PROVE  TimeInv'
  <2>1. CASE Refuse
    BY <1>2, <2>1, ReplyFields DEF Refuse
  <2>2. CASE pc' = "mark"
    BY <1>1, <2>2
  <2> QED BY <1>5, <2>1, <2>2 DEF GetCommand
<1>6. ASSUME NEW c \in Uploads, NEW size \in Args \cup {NoArg}, PutCommand(c, size)
      PROVE  TimeInv'
  <2>1. CASE Refuse
    BY <1>2, <2>1, ReplyFields DEF Refuse
  <2>2. CASE pc' = "recv"
    BY <1>1, <2>2
  <2> QED BY <1>6, <2>1, <2>2 DEF PutCommand
<1>7. CASE PingCommand
  BY <1>7 DEF PingCommand, Count, TimeInv, GettimeLasts
<1>8. CASE QuitCommand
  BY <1>1, <1>8 DEF QuitCommand
<1>9. CASE UnknownCommand
  BY <1>2, <1>9, ReplyFields DEF UnknownCommand, Refuse
<1>10. CASE MarkChunk
  <2>1. (pc' = "0xFF" /\ LastChunk) \/ pc' = "0x00"
    BY <1>10 DEF MarkChunk
  <2>2. UNCHANGED <<cmd, elapsed, limit>>
    BY <1>10 DEF MarkChunk, transfer
  <2> QED BY <2>1, <2>2 DEF LastChunk, TimeInv, GettimeLasts
<1>11. ASSUME NEW mark \in Marks, WriteChunk(mark) PROVE TimeInv'
  <2>1. /\ pc = mark /\ UNCHANGED <<cmd, limit, elapsed>>
        /\ (pc' = "ack" /\ mark = "0xFF") \/ pc' = "mark"
    BY <1>11 DEF WriteChunk
  <2> QED BY <2>1 DEF TimeInv, GettimeLasts
<1>12. ASSUME NEW ack \in {"OK", "other"}, ReadAck(ack) PROVE TimeInv'
  <2>1. pc = "ack" /\ pc' = "accept" /\ UNCHANGED <<cmd, limit, elapsed>>
    BY <1>12 DEF ReadAck, transfer
  <2>2. CASE out' = Append(out, Line("ERR", 0, 0))
    BY <1>2, <2>1, <2>2, ReplyFields
  <2>3. CASE out' = Append(out, Line("TIME", elapsed, 0))
    <3>1. out'[Len(out')].at = elapsed
      BY <1>a, <2>3, Appended, ReplyFields
    <3> QED BY <2>1, <3>1 DEF TimeInv, GettimeLasts
  <2> QED BY <1>12, <2>2, <2>3 DEF ReadAck
<1>13. ASSUME NEW mark \in Marks, ReceiveChunk(mark) PROVE TimeInv'
  <2>1. pc' \in {"recv", "finish"}
    BY <1>13 DEF ReceiveChunk
  <2> QED BY <1>1, <2>1
<1>14. CASE FinishUpload
  <2>1. cmd' \in Uploads /\ pc' = "accept"
    BY <1>14 DEF FinishUpload, AccountInv, Receiving
  <2> QED BY <2>1 DEF TimeInv, GettimeLasts
<1>15. CASE Fail
  BY <1>1, <1>15 DEF Fail
<1>16. CASE UNCHANGED vars
  BY <1>16 DEF vars, transfer, TimeInv, GettimeLasts
<1> QED
  BY <1>3, <1>4, <1>5, <1>6, <1>7, <1>8, <1>9, <1>10, <1>11, <1>12, <1>13, <1>14, <1>15, <1>16
     DEF Next, ServerStep, ClientStep, Returned

\* A timed download that succeeds took at least the time asked for, whatever
\* the clock does between the look at it and the write.
THEOREM TimedDownloads == Spec => []GettimeLasts
<1>1. TimeInv => GettimeLasts
  BY DEF TimeInv
<1> QED BY <1>1, TypeCorrect, AccountInit, AccountNext, TimeInit, TimeNext, PTL DEF Spec

\* The inductive invariant for ReportsSpaced: during an upload no report is
\* later than last_report or counts more than total_bytes.
ReportInv ==
  /\ pc = "command" => out = <<>>
  /\ pc \in Sending \cup {"ack"} => Reports = {}
  /\ pc \in Receiving =>
       /\ last_report <= elapsed
       /\ \A i \in Reports : /\ last_report >= 0 /\ out[i].at <= last_report
                             /\ out[i].bytes <= total_bytes
  /\ ReportsSpaced

LEMMA ReportInit == Init => ReportInv
<1> SUFFICES ASSUME Init PROVE ReportInv
  OBVIOUS
<1>1. out = <<>> /\ pc = "accept"
  BY DEF Init
<1>2. Reports = {}
  BY <1>1 DEF Reports
<1> QED BY <1>1, <1>2 DEF ReportInv, ReportsSpaced, Sending, Receiving

LEMMA ReportNext == TypeOK /\ ReportInv /\ [Next]_vars => ReportInv'
<1> SUFFICES ASSUME TypeOK, ReportInv, [Next]_vars PROVE ReportInv'
  OBVIOUS
<1>0. /\ elapsed \in Nat /\ total_bytes \in Nat /\ last_report \in Int
      /\ chunk_size \in Nat /\ chunk_size > 0
  BY DEF TypeOK
<1>a. out \in Seq(Replies)
  BY DEF TypeOK
<1>b. \A i \in 1 .. Len(out) : out[i].at \in Nat /\ out[i].bytes \in Nat
  BY <1>a, ReplyFields
<1> USE DEF Sending, Receiving
\* A reply that is no report, written when there are none, or after all of them.
<1>1. ASSUME NEW r, out' = Append(out, r), r.reply # "REPORT" PROVE Reports' = Reports
  BY <1>a, <1>1, Appended DEF Reports
<1>2. ASSUME NEW r, out' = Append(out, r), r.reply # "REPORT",
             \A i \in Reports : r.at >= out[i].at
      PROVE  ReportsSpaced'
  <2>1. Reports' = Reports
    BY <1>1, <1>2
  <2>2. Len(out') = Len(out) + 1 /\ Len(out) \in Nat /\ out'[Len(out) + 1] = r
        /\ \A i \in 1 .. Len(out) : out'[i] = out[i]
    BY <1>a, <1>2, Appended
  <2>3. ASSUME NEW i \in Reports', NEW j \in 1 .. Len(out'), i < j
        PROVE  /\ j \in Reports' => out'[j].at >= out'[i].at + ReportGap /\ out'[j].bytes > out'[i].bytes
               /\ out'[j].at >= out'[i].at
    <3>1. i \in Reports /\ i \in 1 .. Len(out) /\ out'[i] = out[i]
      BY <2>1, <2>2 DEF Reports
    <3>2. CASE j \in 1 .. Len(out)
      BY <2>1, <2>2, <2>3, <3>1, <3>2 DEF ReportInv, ReportsSpaced
    <3>3. CASE j = Len(out) + 1
      <4>1. j \notin Reports'
        BY <2>1, <2>2, <3>3 DEF Reports
      <4> QED BY <1>2, <2>2, <3>1, <3>3, <4>1
    <3> QED BY <2>2, <3>2, <3>3
  <2> QED BY <2>3 DEF ReportsSpaced
<1>c. out = <<>> => Reports = {}
  BY DEF Reports
<1>3. CASE Tick
  <2>1. /\ elapsed' = elapsed + 1 /\ UNCHANGED <<pc, out, last_report, total_bytes>>
    BY <1>3 DEF Tick, transfer
  <2>2. Reports' = Reports
    BY <2>1 DEF Reports
  <2>3. ReportsSpaced'
    BY <2>1, <2>2 DEF ReportInv, ReportsSpaced
  <2> QED BY <1>0, <2>1, <2>2, <2>3 DEF ReportInv
<1>4. CASE WriteAccept
  <2>1. out' = <<>> /\ pc' = "command"
    BY <1>4 DEF WriteAccept
  <2>2. Reports' = {}
    BY <2>1 DEF Reports
  <2> QED BY <2>1, <2>2 DEF ReportInv, ReportsSpaced
\* The first reply to a command, or none yet.
<1>5. ASSUME pc = "command", pc' \in {"accept", "ack", "done"},
             NEW r, out' = Append(out, r), r.reply # "REPORT"
      PROVE  ReportInv'
  <2>1. Reports = {}
    BY <1>5, <1>c DEF ReportInv
  <2> QED BY <1>1, <1>2, <1>5, <2>1 DEF ReportInv
<1>6. CASE Refuse /\ pc = "command"
  BY <1>5, <1>6, ReplyFields DEF Refuse
<1>7. ASSUME NEW c \in Downloads, NEW n \in Args, NEW size \in Args \cup {NoArg}, GetCommand(c, n, size)
      PROVE  ReportInv'
  <2>1. pc = "command"
    BY <1>7 DEF GetCommand, Count
  <2>2. CASE pc' = "mark" /\ UNCHANGED out
    <3>1. Reports = {} /\ Reports' = Reports
      BY <1>c, <2>1, <2>2 DEF ReportInv, Reports
    <3> QED BY <2>2, <3>1 DEF ReportInv, ReportsSpaced
  <2> QED BY <1>6, <1>7, <2>1, <2>2 DEF GetCommand
<1>8. ASSUME NEW c \in Uploads, NEW size \in Args \cup {NoArg}, PutCommand(c, size)
      PROVE  ReportInv'
  <2>1. pc = "command"
    BY <1>8 DEF PutCommand, Count
  <2>2. CASE pc' = "recv" /\ Start(0) /\ out' = Append(out, Line("OK", 0, 0))
    <3>1. Reports = {}
      BY <1>c, <2>1 DEF ReportInv
    <3>2. Reports' = {} /\ ReportsSpaced'
      BY <1>1, <1>2, <2>2, <3>1, ReplyFields
    <3>3. last_report' <= elapsed'
      BY <2>2 DEF Start, Never
    <3> QED BY <2>2, <3>2, <3>3 DEF ReportInv
  <2> QED BY <1>6, <1>8, <2>1, <2>2 DEF PutCommand
<1>9. CASE PingCommand
  BY <1>5, <1>9, ReplyFields DEF PingCommand, Count
<1>10. CASE QuitCommand
  BY <1>5, <1>10, ReplyFields DEF QuitCommand
<1>11. CASE UnknownCommand
  BY <1>6, <1>11 DEF UnknownCommand
<1>12. CASE MarkChunk
  <2>1. pc = "mark" /\ pc' \in {"0x00", "0xFF"} /\ UNCHANGED out
    BY <1>12 DEF MarkChunk
  <2>2. Reports' = Reports
    BY <2>1 DEF Reports
  <2> QED BY <2>1, <2>2 DEF ReportInv, ReportsSpaced
<1>13. ASSUME NEW mark \in Marks, WriteChunk(mark) PROVE ReportInv'
  <2>1. /\ pc \in {"0x00", "0xFF"} /\ pc' \in {"ack", "mark"}
    BY <1>13 DEF WriteChunk, Marks
  <2>2. out' = Append(out, Chunk(mark)) /\ Chunk(mark).reply # "REPORT"
    BY <1>13, ReplyFields DEF WriteChunk, Marks
  <2>3. Reports = {}
    BY <2>1 DEF ReportInv
  <2>4. Reports' = {} /\ ReportsSpaced'
    BY <1>1, <1>2, <2>2, <2>3
  <2> QED BY <2>1, <2>4 DEF ReportInv
<1>14. ASSUME NEW ack \in {"OK", "other"}, ReadAck(ack) PROVE ReportInv'
  <2>1. pc = "ack" /\ pc' = "accept"
    BY <1>14 DEF ReadAck
  <2>2. Reports = {}
    BY <2>1 DEF ReportInv
  <2>3. PICK r : out' = Append(out, r) /\ r.reply # "REPORT"
    BY <1>14, ReplyFields DEF ReadAck
  <2>4. ReportsSpaced'
    BY <1>2, <2>2, <2>3
  <2> QED BY <2>1, <2>4 DEF ReportInv
<1>15. ASSUME NEW mark \in Marks, ReceiveChunk(mark) PROVE ReportInv'
  <2>1. /\ pc = "recv" /\ pc' \in {"recv", "finish"} /\ elapsed' = elapsed
        /\ total_bytes' = total_bytes + chunk_size
    BY <1>15 DEF ReceiveChunk
  <2>2. CASE UNCHANGED <<last_report, out>>
    <3>1. Reports' = Reports
      BY <2>2 DEF Reports
    <3>2. ReportsSpaced'
      BY <2>2, <3>1 DEF ReportInv, ReportsSpaced
    <3>3. \A i \in Reports : out[i].bytes <= total_bytes'
      BY <1>0, <1>b, <2>1 DEF ReportInv, Reports
    <3> QED BY <2>1, <2>2, <3>1, <3>2, <3>3 DEF ReportInv
  <2>3. CASE ReportDue /\ last_report' = elapsed /\ out' = Append(out, Line("REPORT", elapsed, total_bytes'))
    <3>1. /\ Len(out') = Len(out) + 1 /\ Len(out) \in Nat
          /\ out'[Len(out) + 1].reply = "REPORT" /\ out'[Len(out) + 1].at = elapsed
          /\ out'[Len(out) + 1].bytes = total_bytes'
          /\ \A i \in 1 .. Len(out) : out'[i] = out[i]
      BY <1>a, <2>3, Appended, ReplyFields
    <3>2. Reports' = Reports \cup {Len(out) + 1}
      BY <3>1 DEF Reports
    <3>3. \A i \in Reports : /\ i \in 1 .. Len(out) /\ out'[i] = out[i]
                             /\ out[i].at + ReportGap <= elapsed /\ out[i].bytes < total_bytes'
      <4> SUFFICES ASSUME NEW i \in Reports
                   PROVE  /\ i \in 1 .. Len(out) /\ out'[i] = out[i]
                          /\ out[i].at + ReportGap <= elapsed /\ out[i].bytes < total_bytes'
        OBVIOUS
      <4>1. /\ i \in 1 .. Len(out) /\ out'[i] = out[i]
            /\ out[i].at \in Nat /\ out[i].bytes \in Nat
        BY <1>b, <3>1 DEF Reports
      <4>2. last_report >= 0 /\ out[i].at <= last_report /\ out[i].bytes <= total_bytes
        BY <2>1 DEF ReportInv
      <4>3. elapsed - last_report >= ReportGap
        BY <1>0, <2>3, <4>2 DEF ReportDue
      <4> QED BY <1>0, <2>1, <4>1, <4>2, <4>3
    <3>4. ReportsSpaced'
      <4> SUFFICES ASSUME NEW i \in Reports', NEW j \in 1 .. Len(out'), i < j
                   PROVE  /\ j \in Reports' => out'[j].at >= out'[i].at + ReportGap /\ out'[j].bytes > out'[i].bytes
                          /\ out'[j].at >= out'[i].at
        BY DEF ReportsSpaced
      <4>1. i \in Reports
        BY <3>1, <3>2
      <4>2. CASE j \in 1 .. Len(out)
        BY <3>1, <3>2, <3>3, <4>1, <4>2 DEF ReportInv, ReportsSpaced
      <4>3. CASE j = Len(out) + 1
        BY <1>0, <1>b, <2>1, <3>1, <3>3, <4>1, <4>3
      <4> QED BY <3>1, <4>2, <4>3
    <3>5. \A i \in Reports' : last_report' >= 0 /\ out'[i].at <= last_report' /\ out'[i].bytes <= total_bytes'
      BY <1>0, <1>b, <2>1, <2>3, <3>1, <3>2, <3>3
    <3>6. last_report' <= elapsed' /\ pc' \in {"recv", "finish"}
      BY <1>0, <2>1, <2>3
    <3> QED BY <3>4, <3>5, <3>6 DEF ReportInv
  <2> QED BY <1>15, <2>2, <2>3 DEF ReceiveChunk
<1>16. CASE FinishUpload
  <2>1. pc = "finish" /\ pc' = "accept" /\ out' = Append(out, Line("TIME", elapsed, 0))
    BY <1>16 DEF FinishUpload
  <2>2. \A i \in Reports : elapsed >= out[i].at
    BY <1>0, <1>b, <2>1 DEF ReportInv, Reports
  <2>3. ReportsSpaced'
    BY <1>2, <2>1, <2>2, ReplyFields
  <2> QED BY <2>1, <2>3 DEF ReportInv
<1>17. CASE Fail
  <2>1. pc' = "failed" /\ UNCHANGED out
    BY <1>17 DEF Fail
  <2>2. Reports' = Reports
    BY <2>1 DEF Reports
  <2> QED BY <2>1, <2>2 DEF ReportInv, ReportsSpaced
<1>18. CASE UNCHANGED vars
  <2>1. UNCHANGED <<pc, out, last_report, elapsed, total_bytes>>
    BY <1>18 DEF vars, transfer
  <2>2. Reports' = Reports
    BY <2>1 DEF Reports
  <2> QED BY <2>1, <2>2 DEF ReportInv, ReportsSpaced
<1> QED
  BY <1>3, <1>4, <1>7, <1>8, <1>9, <1>10, <1>11, <1>12, <1>13, <1>14, <1>15, <1>16, <1>17, <1>18
     DEF Next, ServerStep, ClientStep, Returned

\* Two reports of an upload are at least the gap apart and count more bytes
\* each time, for any chunk size and however the clock runs.
THEOREM SpacedReports == Spec => []ReportsSpaced
<1>1. ReportInv => ReportsSpaced
  BY DEF ReportInv
<1> QED BY <1>1, TypeCorrect, ReportInit, ReportNext, PTL DEF Spec

-----------------------------------------------------------------------------
(* The ping statistics. *)

\* The inductive invariant for PingsMatch: without a ping the minimum is above
\* and the maximum below every time.
PingInv ==
  /\ pings = <<>> => stats.ping_min = NoPing /\ stats.ping_max = 0
  /\ PingsMatch

SamePings(a, b) ==
  a.ping_count = b.ping_count /\ a.ping_min = b.ping_min /\ a.ping_max = b.ping_max

\* The ping counters after each of the operations of ConnStats.
LEMMA StatsPings ==
  ASSUME stats \in Stats
  PROVE  /\ SamePings([stats EXCEPT !.commands = @ + 1], stats)
         /\ \A b, ns : SamePings(add_download(b, ns), stats) /\ SamePings(add_upload(b, ns), stats)
         /\ \A ns : /\ add_ping(ns).ping_count = stats.ping_count + 1
                    /\ add_ping(ns).ping_min = IF ns < stats.ping_min THEN ns ELSE stats.ping_min
                    /\ add_ping(ns).ping_max = IF ns > stats.ping_max THEN ns ELSE stats.ping_max
BY DEF Stats, SamePings, add_download, add_upload, add_ping

LEMMA PingInit == Init => PingInv
BY DEF Init, PingInv, PingsMatch, ConnStats_new

LEMMA PingNext == TypeOK /\ PingInv /\ [Next]_vars => PingInv'
<1> SUFFICES ASSUME TypeOK, PingInv, [Next]_vars PROVE PingInv'
  OBVIOUS
<1>0. stats \in Stats /\ elapsed \in 0 .. TimeBound /\ pings \in Seq(Nat)
  BY DEF TypeOK
<1>1. ASSUME UNCHANGED pings, SamePings(stats', stats) PROVE PingInv'
  BY <1>1 DEF PingInv, PingsMatch, SamePings
<1>2. ASSUME stats' = add_ping(elapsed), pings' = Append(pings, elapsed) PROVE PingInv'
  <2>1. /\ Len(pings) \in Nat /\ Len(pings') = Len(pings) + 1 /\ pings'[Len(pings) + 1] = elapsed
        /\ \A i \in 1 .. Len(pings) : pings'[i] = pings[i] /\ pings[i] \in Nat
    BY <1>0, <1>2
  <2>2. /\ stats'.ping_count = stats.ping_count + 1
        /\ stats'.ping_min = IF elapsed < stats.ping_min THEN elapsed ELSE stats.ping_min
        /\ stats'.ping_max = IF elapsed > stats.ping_max THEN elapsed ELSE stats.ping_max
    BY <1>0, <1>2, StatsPings
  <2>3. elapsed \in Nat /\ elapsed < NoPing /\ stats.ping_min \in Nat /\ stats.ping_max \in Nat
    BY <1>0 DEF NoPing, Stats
  <2>4. \A i \in 1 .. Len(pings') : stats'.ping_min <= pings'[i] /\ pings'[i] <= stats'.ping_max
    <3> SUFFICES ASSUME NEW i \in 1 .. Len(pings')
                 PROVE  stats'.ping_min <= pings'[i] /\ pings'[i] <= stats'.ping_max
      OBVIOUS
    <3>1. CASE i \in 1 .. Len(pings)
      <4>1. stats.ping_min <= pings[i] /\ pings[i] <= stats.ping_max
        BY <3>1 DEF PingInv, PingsMatch
      <4>2. pings'[i] = pings[i] /\ pings[i] \in Nat
        BY <2>1, <3>1
      <4> QED BY <2>2, <2>3, <4>1, <4>2
    <3>2. CASE i = Len(pings) + 1
      BY <2>1, <2>2, <2>3, <3>2
    <3> QED BY <2>1, <3>1, <3>2
  <2>5. \E i \in 1 .. Len(pings') : stats'.ping_min = pings'[i]
    <3>1. CASE elapsed < stats.ping_min
      BY <2>1, <2>2, <3>1
    <3>2. CASE ~(elapsed < stats.ping_min)
      <4>1. pings # <<>>
        BY <2>3, <3>2 DEF PingInv
      <4>2. PICK i \in 1 .. Len(pings) : stats.ping_min = pings[i]
        BY <4>1 DEF PingInv, PingsMatch
      <4> QED BY <2>1, <2>2, <3>2, <4>2
    <3> QED BY <3>1, <3>2
  <2>6. \E i \in 1 .. Len(pings') : stats'.ping_max = pings'[i]
    <3>1. CASE pings = <<>> \/ elapsed > stats.ping_max
      <4>1. stats'.ping_max = elapsed
        BY <2>2, <2>3, <3>1 DEF PingInv
      <4> QED BY <2>1, <4>1
    <3>2. CASE pings # <<>> /\ ~(elapsed > stats.ping_max)
      <4>1. PICK i \in 1 .. Len(pings) : stats.ping_max = pings[i]
        BY <3>2 DEF PingInv, PingsMatch
      <4> QED BY <2>1, <2>2, <3>2, <4>1
    <3> QED BY <3>1, <3>2
  <2>7. pings' # <<>> /\ stats'.ping_count = Len(pings')
    BY <2>1, <2>2 DEF PingInv, PingsMatch
  <2> QED BY <2>4, <2>5, <2>6, <2>7 DEF PingInv, PingsMatch
<1>3. ASSUME NEW ack \in {"OK", "other"}, ReadAck(ack) PROVE PingInv'
  BY <1>1, <1>2, <1>3 DEF ReadAck, SamePings
<1>4. ASSUME stats' = [stats EXCEPT !.commands = @ + 1], UNCHANGED pings PROVE PingInv'
  BY <1>0, <1>1, <1>4, StatsPings
<1>5. ASSUME NEW mark \in Marks, WriteChunk(mark) PROVE PingInv'
  <2>1. UNCHANGED pings /\ (stats' = stats \/ \E b : stats' = add_download(b, elapsed))
    BY <1>5 DEF WriteChunk
  <2>2. SamePings(stats', stats)
    BY <1>0, <2>1, StatsPings DEF SamePings
  <2> QED BY <1>1, <2>1, <2>2
<1>6. CASE FinishUpload
  <2>1. UNCHANGED pings /\ SamePings(stats', stats)
    BY <1>0, <1>6, StatsPings DEF FinishUpload, history
  <2> QED BY <1>1, <2>1
<1>7. ASSUME UNCHANGED <<stats, pings>> PROVE PingInv'
  BY <1>1, <1>7 DEF SamePings
<1>8. CASE Tick \/ WriteAccept \/ MarkChunk \/ QuitCommand \/ UnknownCommand \/ Fail \/ UNCHANGED vars
  BY <1>7, <1>8 DEF Tick, WriteAccept, MarkChunk, QuitCommand, UnknownCommand, Refuse, Fail, vars, history
<1>9. ASSUME NEW mark \in Marks, ReceiveChunk(mark) PROVE PingInv'
  BY <1>7, <1>9 DEF ReceiveChunk
<1>10. ASSUME NEW c \in Downloads, NEW n \in Args, NEW size \in Args \cup {NoArg}, GetCommand(c, n, size)
       PROVE  PingInv'
  BY <1>4, <1>10 DEF GetCommand, Count, Refuse, history
<1>11. ASSUME NEW c \in Uploads, NEW size \in Args \cup {NoArg}, PutCommand(c, size)
       PROVE  PingInv'
  BY <1>4, <1>11 DEF PutCommand, Count, Refuse, history
<1>12. CASE PingCommand
  BY <1>4, <1>12 DEF PingCommand, Count, history
<1> QED
  BY <1>3, <1>5, <1>6, <1>8, <1>9, <1>10, <1>11, <1>12 DEF Next, ServerStep, ClientStep, Returned

\* The ping statistics of a close event are the number, the minimum and the
\* maximum of the times the client was told, for any number of pings.
THEOREM PingsAccounted == Spec => []PingsMatch
<1>1. PingInv => PingsMatch
  BY DEF PingInv
<1> QED BY <1>1, TypeCorrect, PingInit, PingNext, PTL DEF Spec

-----------------------------------------------------------------------------
(* The replies to a command. *)

\* Chunks of a download, none of them or exactly the last of them terminal, and
\* the replies of an upload up to its closing TIME.
Going(s) == \A i \in 1 .. Len(s) : s[i] = Chunk("0x00")
Closed(s) ==
  Len(s) >= 1 /\ \A i \in 1 .. Len(s) : s[i] = Chunk(IF i = Len(s) THEN "0xFF" ELSE "0x00")
Reporting(s) ==
  Len(s) >= 1 /\ s[1].reply = "OK" /\ \A i \in 2 .. Len(s) : s[i].reply = "REPORT"

\* What one more reply makes of these.
LEMMA OneMoreReply ==
  ASSUME NEW s \in Seq(Replies), NEW r
  PROVE  /\ Going(s) /\ r = Chunk("0x00") => Going(Append(s, r))
         /\ Going(s) /\ r = Chunk("0xFF") => Closed(Append(s, r))
         /\ Reporting(s) /\ r.reply = "REPORT" => Reporting(Append(s, r))
<1>1. /\ Len(s) \in Nat /\ Len(Append(s, r)) = Len(s) + 1
      /\ Append(s, r)[Len(s) + 1] = r
      /\ \A i \in 1 .. Len(s) : Append(s, r)[i] = s[i]
  BY Appended
<1> DEFINE t == Append(s, r)
<1>2. Len(t) = Len(s) + 1 /\ t[Len(s) + 1] = r /\ \A i \in 1 .. Len(s) : t[i] = s[i]
  BY <1>1
<1>3. \A i \in 1 .. Len(t) : i \in 1 .. Len(s) \/ i = Len(s) + 1
  BY <1>1, <1>2
<1> HIDE DEF t
<1>4. Going(s) /\ r = Chunk("0x00") => Going(t)
  BY <1>1, <1>2, <1>3 DEF Going
<1>5. Going(s) /\ r = Chunk("0xFF") => Closed(t)
  BY <1>1, <1>2, <1>3 DEF Going, Closed
<1>6. Reporting(s) /\ r.reply = "REPORT" => Reporting(t)
  BY <1>1, <1>2, <1>3 DEF Reporting
<1> QED BY <1>4, <1>5, <1>6 DEF t

\* The inductive invariant for RepliesComplete and FirstChunkReported: what has
\* been written at each point of a handler, and that a PUT has no report before
\* its first chunk.
ReplyInv ==
  /\ pc = "command" => out = <<>>
  /\ pc \in Sending =>
       /\ cmd \in Downloads /\ Going(out) /\ Len(out) = chunks /\ limit >= 1
       /\ cmd = "GETCHUNKS" => chunks < limit
       /\ pc = "0xFF" /\ cmd = "GETCHUNKS" => chunks + 1 = limit
       /\ pc = "0x00" /\ cmd = "GETCHUNKS" => chunks + 1 < limit
  /\ pc = "ack" =>
       \/ cmd \in Downloads /\ Closed(out) /\ (cmd = "GETCHUNKS" => Len(out) = limit)
       \/ cmd = "PING" /\ out = <<Line("PONG", 0, 0)>>
  /\ pc \in Receiving =>
       /\ cmd \in Uploads /\ Reporting(out) /\ (Len(out) > 1 => cmd = "PUT")
       /\ chunks = 0 => Len(out) = 1 /\ total_bytes = 0 /\ last_report = Never
       /\ pc = "finish" => chunks > 0
  /\ RepliesComplete
  /\ FirstChunkReported

LEMMA ReplyInit == Init => ReplyInv
BY DEF Init, ReplyInv, Sending, Receiving, RepliesComplete, FirstChunkReported

LEMMA ReplyNext == TypeOK /\ ReplyInv /\ [Next]_vars => ReplyInv'
<1> SUFFICES ASSUME TypeOK, ReplyInv, [Next]_vars PROVE ReplyInv'
  OBVIOUS
<1>0. /\ elapsed \in Nat /\ total_bytes \in Nat /\ last_report \in Int
      /\ chunk_size \in Nat /\ chunks \in Nat /\ limit \in Nat
  BY DEF TypeOK
<1>a. out \in Seq(Replies) /\ Len(out) \in Nat
  BY DEF TypeOK
<1> USE DEF Sending, Receiving
\* Nothing is written and the handler goes on.
<1>1. ASSUME UNCHANGED <<pc, cmd, chunk_size, transfer, out>> PROVE ReplyInv'
  BY <1>1 DEF ReplyInv, RepliesComplete, FirstChunkReported, transfer
<1>2. ASSUME pc' \in {"done", "failed"} PROVE ReplyInv'
  BY <1>2 DEF ReplyInv, RepliesComplete, FirstChunkReported
\* The first reply to a command, and a refusal in particular.
<1>3. ASSUME pc = "command", NEW r, out' = Append(out, r) PROVE out' = <<r>>
  <2>1. out = <<>>
    BY <1>3 DEF ReplyInv
  <2> QED BY <1>3, <2>1
<1>4. ASSUME pc = "command", Refuse PROVE ReplyInv'
  <2>1. out' = <<Line("ERR", 0, 0)>> /\ pc' = "accept"
    BY <1>3, <1>4 DEF Refuse
  <2> QED BY <2>1 DEF ReplyInv, RepliesComplete, FirstChunkReported
<1>5. CASE Tick
  BY <1>1, <1>5 DEF Tick
<1>6. CASE WriteAccept
  BY <1>6 DEF WriteAccept, ReplyInv, RepliesComplete, FirstChunkReported
<1>7. ASSUME NEW c \in Downloads, NEW n \in Args, NEW size \in Args \cup {NoArg}, GetCommand(c, n, size)
      PROVE  ReplyInv'
  <2>1. pc = "command" /\ cmd' = c
    BY <1>7 DEF GetCommand, Count
  <2>2. CASE Valid(c, n) /\ Start(Limit(c, n)) /\ pc' = "mark" /\ UNCHANGED out
    <3>1. out' = <<>> /\ chunks' = 0 /\ limit' = Limit(c, n)
      BY <2>1, <2>2 DEF ReplyInv, Start
    <3>2. Limit(c, n) >= 1 /\ Limit(c, n) \in Nat
      <4>1. n \in Nat /\ n >= 1
        BY <2>2 DEF Valid
      <4>2. n * SECOND >= 1
        BY <4>1
      <4> QED BY <4>1, <4>2, PrologueType DEF Limit
    <3>3. Going(out') /\ Len(out') = 0
      BY <3>1 DEF Going
    <3> QED BY <2>1, <2>2, <3>1, <3>2, <3>3 DEF ReplyInv, RepliesComplete, FirstChunkReported
  <2> QED BY <1>4, <1>7, <2>1, <2>2 DEF GetCommand
<1>8. ASSUME NEW c \in Uploads, NEW size \in Args \cup {NoArg}, PutCommand(c, size)
      PROVE  ReplyInv'
  <2>1. pc = "command" /\ cmd' = c
    BY <1>8 DEF PutCommand, Count
  <2>2. CASE Start(0) /\ pc' = "recv" /\ out' = Append(out, Line("OK", 0, 0))
    <3>1. out' = <<Line("OK", 0, 0)>> /\ chunks' = 0 /\ total_bytes' = 0 /\ last_report' = Never
      BY <1>3, <2>1, <2>2 DEF Start
    <3>2. Reporting(out') /\ Len(out') = 1
      BY <3>1, ReplyFields DEF Reporting
    <3> QED BY <2>1, <2>2, <3>1, <3>2 DEF ReplyInv, RepliesComplete, FirstChunkReported
  <2> QED BY <1>4, <1>8, <2>1, <2>2 DEF PutCommand
<1>9. CASE PingCommand
  <2>1. out' = <<Line("PONG", 0, 0)>> /\ pc' = "ack" /\ cmd' = "PING"
    BY <1>3, <1>9 DEF PingCommand, Count
  <2> QED BY <2>1 DEF ReplyInv, RepliesComplete, FirstChunkReported
<1>10. CASE QuitCommand
  BY <1>2, <1>10 DEF QuitCommand
<1>11. CASE UnknownCommand
  BY <1>4, <1>11 DEF UnknownCommand
<1>12. CASE MarkChunk
  <2>1. /\ pc = "mark" /\ UNCHANGED <<cmd, out, chunks, limit>>
        /\ (pc' = "0xFF" /\ LastChunk) \/ (pc' = "0x00" /\ ~LastChunk)
    BY <1>12 DEF MarkChunk, transfer
  <2> QED BY <1>0, <2>1 DEF LastChunk, ReplyInv, RepliesComplete, FirstChunkReported
<1>13. ASSUME NEW mark \in Marks, WriteChunk(mark) PROVE ReplyInv'
  <2>1. /\ pc = mark /\ mark \in {"0x00", "0xFF"} /\ UNCHANGED <<cmd, limit>>
        /\ chunks' = chunks + 1 /\ out' = Append(out, Chunk(mark))
        /\ pc' = IF mark = "0xFF" THEN "ack" ELSE "mark"
    BY <1>13 DEF WriteChunk, Marks
  <2>2. Len(out') = Len(out) + 1
    BY <1>a, <2>1
  <2>3. CASE mark = "0x00"
    <3>1. Going(out')
      BY <1>a, <2>1, <2>3, OneMoreReply DEF ReplyInv
    <3> QED BY <1>0, <2>1, <2>2, <2>3, <3>1 DEF ReplyInv, RepliesComplete, FirstChunkReported
  <2>4. CASE mark = "0xFF"
    <3>1. Closed(out')
      BY <1>a, <2>1, <2>4, OneMoreReply DEF ReplyInv
    <3> QED BY <1>0, <2>1, <2>2, <2>4, <3>1 DEF ReplyInv, RepliesComplete, FirstChunkReported
  <2> QED BY <2>1, <2>3, <2>4
<1>14. ASSUME NEW ack \in {"OK", "other"}, ReadAck(ack) PROVE ReplyInv'
  <2>1. pc = "ack" /\ pc' = "accept" /\ UNCHANGED <<cmd, limit>>
    BY <1>14 DEF ReadAck, transfer
  <2>2. PICK r : out' = Append(out, r) /\ r.reply \in {"TIME", "ERR"}
    BY <1>14, ReplyFields DEF ReadAck
  <2>3. /\ Len(out') = Len(out) + 1 /\ out'[Len(out) + 1] = r
        /\ \A i \in 1 .. Len(out) : out'[i] = out[i]
    BY <1>a, <2>2, Appended
  <2>4. CASE cmd \in Downloads /\ Closed(out) /\ (cmd = "GETCHUNKS" => Len(out) = limit)
    <3>1. \A i \in 1 .. Len(out) : out'[i] = Chunk(IF i = Len(out) THEN "0xFF" ELSE "0x00")
      BY <2>3, <2>4 DEF Closed
    <3>2. Len(out') - 1 = Len(out) /\ Len(out') >= 2
      BY <1>a, <2>3, <2>4 DEF Closed
    <3>3. RepliesComplete'
      BY <2>1, <2>2, <2>3, <2>4, <3>1, <3>2 DEF RepliesComplete
    <3> QED BY <2>1, <3>3 DEF ReplyInv, FirstChunkReported
  <2>5. CASE cmd = "PING" /\ out = <<Line("PONG", 0, 0)>>
    <3>1. out[1].reply = "PONG" /\ Len(out) = 1
      BY <2>5, ReplyFields
    <3>2. RepliesComplete'
      BY <2>1, <2>2, <2>3, <2>5, <3>1 DEF RepliesComplete
    <3> QED BY <2>1, <3>2 DEF ReplyInv, FirstChunkReported
  <2> QED BY <2>1, <2>4, <2>5 DEF ReplyInv
<1>15. ASSUME NEW mark \in Marks, ReceiveChunk(mark) PROVE ReplyInv'
  <2>1. /\ pc = "recv" /\ pc' \in {"recv", "finish"} /\ UNCHANGED <<cmd, chunk_size>>
        /\ chunks' = chunks + 1 /\ total_bytes' = total_bytes + chunk_size
    BY <1>15 DEF ReceiveChunk
  <2>2. CASE ~ReportDue /\ UNCHANGED out
    <3>1. cmd = "PUT" => chunks > 0
      BY <1>0, <2>1, <2>2 DEF ReportDue, ReplyInv, Never
    <3> QED BY <1>0, <2>1, <2>2, <3>1 DEF ReplyInv, RepliesComplete, FirstChunkReported
  <2>3. CASE ReportDue /\ out' = Append(out, Line("REPORT", elapsed, total_bytes'))
    <3>1. /\ Len(out') = Len(out) + 1
          /\ out'[Len(out) + 1].reply = "REPORT" /\ out'[Len(out) + 1].bytes = total_bytes'
          /\ \A i \in 1 .. Len(out) : out'[i] = out[i]
      BY <1>a, <2>3, Appended, ReplyFields
    <3>2. Reporting(out') /\ cmd = "PUT"
      BY <1>a, <2>1, <2>3, OneMoreReply, ReplyFields DEF ReplyInv, ReportDue
    <3>3. FirstChunkReported'
      <4>1. CASE chunks = 0
        <5>1. Len(out) = 1 /\ total_bytes' = chunk_size
          BY <1>0, <2>1, <4>1 DEF ReplyInv
        <5>2. Len(out') = 2 /\ out'[2].reply = "REPORT" /\ out'[2].bytes = chunk_size
          BY <3>1, <5>1
        <5> QED BY <2>1, <5>2 DEF FirstChunkReported
      <4>2. CASE chunks > 0
        <5>1. 2 \in 1 .. Len(out) /\ out[2].reply = "REPORT" /\ out[2].bytes = chunk_size
          BY <1>a, <2>1, <3>2, <4>2 DEF ReplyInv, FirstChunkReported
        <5>2. Len(out') >= 2 /\ out'[2] = out[2]
          BY <1>a, <3>1, <5>1
        <5> QED BY <2>1, <5>1, <5>2 DEF FirstChunkReported
      <4> QED BY <1>0, <4>1, <4>2
    <3> QED BY <1>0, <2>1, <3>2, <3>3 DEF ReplyInv, RepliesComplete
  <2> QED BY <1>15, <2>2, <2>3 DEF ReceiveChunk
<1>16. CASE FinishUpload
  <2>1. /\ pc = "finish" /\ pc' = "accept" /\ UNCHANGED cmd
        /\ out' = Append(out, Line("TIME", elapsed, 0))
    BY <1>16 DEF FinishUpload
  <2>2. /\ Len(out') = Len(out) + 1 /\ out'[Len(out) + 1].reply = "TIME"
        /\ \A i \in 1 .. Len(out) : out'[i] = out[i]
    BY <1>a, <2>1, Appended, ReplyFields
  <2>3. cmd \in Uploads /\ Reporting(out) /\ (Len(out) > 1 => cmd = "PUT")
    BY <2>1 DEF ReplyInv
  <2>4. Len(out') >= 2 /\ out'[1].reply = "OK" /\ out'[Len(out')].reply = "TIME"
    BY <1>a, <2>2, <2>3 DEF Reporting
  <2>5. \A i \in 2 .. Len(out') - 1 : out'[i].reply = "REPORT" /\ cmd' = "PUT"
    BY <1>a, <2>1, <2>2, <2>3 DEF Reporting
  <2>6. RepliesComplete'
    BY <2>1, <2>3, <2>4, <2>5 DEF RepliesComplete
  <2> QED BY <2>1, <2>6 DEF ReplyInv, FirstChunkReported
<1>17. CASE Fail
  BY <1>2, <1>17 DEF Fail
<1>18. CASE UNCHANGED vars
  BY <1>1, <1>18 DEF vars
<1> QED
  BY <1>5, <1>6, <1>7, <1>8, <1>9, <1>10, <1>11, <1>12, <1>13, <1>14, <1>15, <1>16, <1>17, <1>18
     DEF Next, ServerStep, ClientStep, Returned

LEMMA ReplyAlways == Spec => []ReplyInv
BY TypeCorrect, ReplyInit, ReplyNext, PTL DEF Spec

\* Every command is answered with ERR alone or with its whole exchange, with
\* exactly one terminal chunk and, for GETCHUNKS, the number asked for.
THEOREM AnswersComplete == Spec => []RepliesComplete
<1>1. ReplyInv => RepliesComplete
  BY DEF ReplyInv
<1> QED BY <1>1, ReplyAlways, PTL

\* The first chunk of a PUT is reported, with the bytes of that chunk alone.
THEOREM FirstReport == Spec => []FirstChunkReported
<1>1. ReplyInv => FirstChunkReported
  BY DEF ReplyInv
<1> QED BY <1>1, ReplyAlways, PTL
=============================================================================
