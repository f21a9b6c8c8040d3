# TLA+ verification of rmbtd

`rmbtd` is the measurement server of Open-RMBT: clients connect over TCP or TLS,
upgrade an HTTP request to raw RMBT or WebSocket, present a token that a control
server issued, and run download, upload and ping tests. This directory holds
TLA+ models of the server, the TLC configurations that check them on small
instances, and TLAPS proofs of the properties that matter most for every value
of the constants. Paths below are relative to the repository (`src/server/mod.rs`
and so on).

## 1. The system

| Component | Where | State | Operations | Correct if |
|---|---|---|---|---|
| accept loop | `server/mod.rs` `Server::run` | mio event buffer, round-robin counter, shutdown flag | poll, drain a listener, dispatch, signal the workers, return | no waiting connection is forgotten; work is spread evenly; Ctrl+C ends it |
| worker pool | `server/mod.rs` `worker_loop` | a channel of 8 jobs per worker, a connection counter | look at the flag, receive with a timeout, run a session | every connection has one owner; ids are unique; little starts after a shutdown |
| session | `server/mod.rs` `handle_connection` | socket, stream, greeting, end reason | connect event, timeouts, transport, upgrade, greeting, commands, close event | one close event, last, with the right reason; a silent client is got rid of |
| HTTP upgrade | `stream/websocket_upgrade.rs` | - | read a request; answer /ip, /version, 405, 426 or 101 | as the session |
| /ip, /version | `ip_check.rs`, `version.rs` | - | read and drain a body, check its token, classify the NAT, sign the address | the control server can verify the answer; a token of another address is answered, not refused |
| greeting | `protocol/greeting.rs` | - | greet, read the token, validate, log, sleep, OK | no measurement without an accepted token, none before its start time |
| token check | `protocol/token.rs` | - (pure) | v1 and v2 validation, the check for /ip | accepts exactly what the control server issued, in its window, also when the 32-bit time wraps |
| command loop | `protocol/commands.rs` | chunk size, statistics | GETTIME, GETCHUNKS, PUT, PUTNORESULT, PING, QUIT | replies follow the protocol; the statistics are right; transfers end |
| events | `events.rs` | `ConnStats`, a UDP socket | connect, auth, close events | one connect, at most one auth, one close per connection |
| stream, transport | `stream/` | buffers, WebSocket frames | lines, chunks | bytes arrive as they were sent |
| startup | `main.rs`, `config/`, `tls.rs` | configuration, keys | command line, key file, certificates, binding | an unusable configuration is refused |

How they interact: the main thread and the workers share the bounded channels and
one atomic flag; a tokio task sets the flag on Ctrl+C. A worker runs a session to
its end before it looks at its channel or the flag again. Sessions share nothing
but the read-only configuration and keys. All reads and writes of a session block
for at most 30 s; `thread::sleep` makes an early client wait.

What is hard here: the interleavings of accept loop, workers and shutdown;
edge-triggered readiness; a full channel; clients that stop, leave or misbehave
between any two steps; the two reads of the clock and the wrap of the 32-bit
token time; error kinds that depend on framing; accounting across commands that
fail half way. `PROJECT.json` lists these hazards with their lines.

## 2. Modules

| Module | Models | Used by |
|---|---|---|
| `Server` | accept loop, channels, workers, shutdown, signals | `MCServer`, `ServerProofs` |
| `Token` | `token.rs` as pure operators | `Auth`, `TokenProofs` |
| `IpResponse` | `ip_response` of `ip_check.rs` as pure operators; extends `Token` | `Auth` |
| `Auth` | the token check in `run_greeting` and the answer of /ip, against a clock | `MCAuth`, `AuthProofs` |
| `EventLog` | abstract: the events of one connection | `Session` (refines it) |
| `Session` | `handle_connection`, upgrade, /ip and /version as HTTP exchanges, greeting | `MCSession`, `SessionProofs` |
| `Commands` | `run_commands`, its handlers, `ConnStats` | `MCCommands`, `CommandsProofs` |
| `Channel` | abstract: whole messages from a client to the server, in order | `Stream` (refines it) |
| `Stream` | `read_line`, `read_exact`, `write_all` and the read of the HTTP head, byte by byte and frame by frame | `MCStream`, `StreamProofs`, `ChannelProofs` |
| `Startup` | `main::run`, `parse_cli`, the key file, TLS files, `Server::new` | `MCStartup`, `StartupProofs` |

`Server` treats a session as one state between `StartSession` (connect event) and
`EndSession` (close event); `Session` opens it up. `Session` treats the verdict on
a token as a choice, which `Auth` and `Token` make, and the command loop as one
state, which `Commands` opens up. `Session` and `Commands` read whole lines and
chunks; that they may is what `Stream` shows, as a refinement of `Channel`. `Server`
begins with listeners and workers in place, where `Startup` ends.

**Server.** One action per step another thread can see. `Connect` is the kernel:
it adds to a listener's backlog and sets its readiness edge; `Poll` consumes up to
`EventCap` edges, `Accept` takes one connection and dispatches it to worker
`next_worker mod n` with `try_send` (drop when the channel is full), `WouldBlock`
and `AcceptError` both end a drain, only the second may leave connections behind.
`SignalWorker` is the `try_send` of `Job::Shutdown`; `ServerDropped` the drop of the
senders; `ProcessExit` the end of main, which no worker delays. `Sigterm` is the
default disposition of that signal. Accept order within a backlog is abstracted to
a set.

**Token, Auth.** A token is a record of what its parts decode to; HMACs are free
constructors (equal only for equal key and message), so what depends on collisions
is outside. The 32-bit time is kept modulo `PERIOD`. `Auth` reads the clock twice,
as `validate_v2` and `window_check` do, with pauses of up to `PauseBound` seconds,
and sleeps at least as long as asked. `IpResponse` is the order of the checks
of `ip_response` (body, local address, token, UUID), the NAT type and the signature
over the IPv6 form of the address and the UUID; a body is a record of what its
fields parse to, an address a family and its low part, so that an IPv4-mapped IPv6
address is its IPv4 address exactly where the code calls `to_canonical`.

**Session.** The client is open, silent or gone, and changes between any two
steps; which `io::ErrorKind` a read or write then reports depends on framing and
TLS (`ReadErrors`, `WriteErrors`). tungstenite reports an end of file as a protocol
error and `write_all` turns every WebSocket error into `Other`; rustls performs the
handshake inside the first read. `cause` records what really ended the session. The
end `no_tls_worker` is unreachable: `Server::new` builds the TLS configuration
whenever there is a TLS listener. A request for /ip or /version is answered and the
socket closed; `unread` counts what has then not been read of its body (a close with
unread input is a reset, which can destroy an answer on its way).

**Commands.** Reading a command, looking at the clock, writing a chunk, receiving
one, reading the acknowledgement are actions; the clock ticks between them.
Numbers a client sends are natural numbers, 0 standing for what does not parse
(the code treats both alike), `NoArg` for an argument left out. `out` is what was
written since the last ACCEPT; `wire`, `pings` and `client_size` are history. A
failure loses at most a partial chunk, which the model does not count.

**Stream.** The client is external and keeps to the protocol, but it writes in
pieces of any size, cuts a chunk into frames, sends lines as text or binary frames
and pings between them, lines that are too long or not UTF-8, and closes anywhere.
It sends the chunks of a PUT after the OK, or at once, as in phase 5 of
`RMBT_specification.md:511-526`: then they lie in the `BufReader` when the reads change
from lines to chunks, and behind a PUT that is refused the server reads them as lines.
A client that did the latter is out of step (`InStep`); nothing is promised to it.
`Channel` admits whole messages only, each once and in order. `ReadsAreWhole` says that
every step of a session in step is one of `Channel`, with one exception (`LineCut`):
the end of file that cuts a raw line, which `stream_cut` shows.
`Fill` is a refill of the `BufReader`; `Taken` is `take` and `read_until` over what
it holds; a read that has not got enough waits in `partial`. The byte values
stand for what the code tells apart, and one of them for the three bytes of U+FFFD.
That the client keeps to the protocol is `ClientAssumption`: a head and a line end
where they end and nowhere else. `HandleLine` and `HandleChunk` are only what
the command loop does to the stream: which kind of read comes next. `Stream::read`
has no caller and is left out.

**Startup.** One action per option and per step of `run`; what the operating system
answers is chosen where the code asks. An argument text is a class: a number, an
address, a log level, or any other word; the port
check, the bare-port form and the default addresses are kept. `Conflict` is external:
two listeners conflict on one port when the addresses overlap, which [::] and an
IPv4 address do unless `V6Only`. The last option without its value is ignored, as in
the code. The error of `logger::init` (`main.rs:40`) is left out: it occurs only if a
logger has been set before, and none has. `FirstConnection` is the round robin, where `-t 0` panics.

## 3. Runs

| Run | Instance | Shows |
|---|---|---|
| `server_safety` | 3 connections, 2 listeners, 2 workers, channel 1, event buffer 1, stride 2 (232k states) | `OneOwner`, `OpenEventsAreLive`, `UniqueIds`, `LateStartBound`, `Balanced`, `NothingStranded` |
| `server_liveness` | 2 connections, otherwise the same, no symmetry | `QueuedIsTaken`, `BacklogIsAccepted`, `ShutdownCompletes` |
| `auth` | time wraps at 16, window -3/+2, 2 loaded keys and a foreign one, an IPv4 address, its mapped form and an IPv6 one (182k states) | `AcceptedIsGenuine`, `GenuineIsAccepted`, `NoEarlyStart`, `IpAnswerIsRight`, `IpRefusalIsDeserved`, `NatTypeIsRight` |
| `session` | 2 tokens; bodies of up to 4 bytes, 1 allowed, 3 drained (3.3k states) | refinement of `EventLog`, `EndMatchesCause`, `SilentClientEnds` |
| `commands` | sizes 2..3, at most 2 chunks or 3 ticks asked for, 2 commands (261k states) | `RepliesComplete`, `GettimeLasts`, `StatsMatchWire`, `PingsMatch`, `ReportsSpaced`, `FirstChunkReported`, `DownloadEnds` |
| `stream` | chunk 3, line 4, head 3, buffer 2 bytes; 5 messages (3.5M states) | refinement of `Channel` (`ReadsAreWhole`), `NothingIsLost`, `BlameIsDeserved`, `DownloadIntact` |
| `startup` | 3 options, key files of 2 lines, dual-stack host (1.2M states) | `ConfigAsAsked`, `KeysProtect`, `ListensAsAsked`, `StartupEventIsTrue`, `FailuresAreReported` |

Why the bounds suffice: with two workers and a channel of one, full and empty
channels, idle and busy workers and a worker that stops while jobs are queued all
occur, and a third connection finds a channel full; an event buffer of one leaves
readiness edges over. The token time straddles a wrap with every offset the window
can tell apart on both sides. Two commands let a transfer follow one of the same
kind with another chunk size; arguments lie below, at and above every limit; a
second is longer than the report gap, so that an upload has several reports.
A buffer smaller than a line and a chunk makes every message straddle a refill; five
messages are a head, a PUT, two chunks and a line, the shortest sequence that goes
from lines to chunks and back, and enough for chunks to be sent before the answer to
a PUT, granted or refused. Three options are what a TLS listener needs (-c, -k
and an address), and enough for one to be repeated, to come last without its value,
or to be spoilt after two good ones; two key lines let a blank one follow a key.

Fairness. `Server`: the main thread and each worker run when they can; nothing
obliges a session to end, a client to connect, or a signal to come. `Session`:
every call of the worker returns, because the sockets have read and write timeouts;
an open client need not send. `Commands`: the server's own steps and the clock;
the client owes nothing. `Stream` and `Startup` assume none: what is checked of them
is safety and the absence of deadlock.

Deadlock is checked in every run; a finished process, session or command loop
stutters explicitly.

### What the repository says and the code does not do

Each of these runs checks one statement of a comment or document and finds it
violated. `PROJECT.json` quotes the lines.

| Run | Statement | What happens |
|---|---|---|
| `server_drop` | connections are dropped when all workers are busy | with no shutdown about, one is dropped at the full channel of one worker while the other is idle and its channel empty |
| `server_accept_error` | the backlog is drained before sleeping | after an accept error, connections wait until somebody else connects |
| `commands_size` | the chunk size is negotiated with the client | a request answered with ERR changes it |
| `startup_defaults` | TLS listens on [::]:443 and 0.0.0.0:443 by default | on a dual-stack Linux host the second bind fails and the process exits |
| `stream_cut` | a line ends with its newline, the end of file is an error | the part of a line before the end of file is taken as a line |

Smaller differences the models show without a run of their own: a connection that
is dropped at a full channel leaves no event (`README.md:117` says every connection
is logged); a session that is running when main returns has no close event
(`OpenEventsAreLive` is no promise about the end of the process: the session stays
open in it for ever); the ids of a worker run into
the next one's after 100000 connections (the hypothesis of `UniqueIds`); a failed
TLS handshake is reported as upgrade_failed; the close event of a greeting that
failed after the auth event names no token (`CloseGreeting` in `EventLog`); only
SIGINT is handled, although the comment at `main.rs:67` names SIGTERM too; a
WebSocket client that has left ends its session as `error`, not as a disconnect
(`ReadErrors` in `Session`); WebSocket lines have no length cap but tungstenite's; a 411 or 405, and
a body beyond `MAX_DRAIN`, leave input unread, so that the client may see a reset in
place of the answer (`unread` in `Session`); without `-log` there is no logger, so
every failure after `parse_cli` ends the process with code 1 and no word, although
`main.rs:12-13` and `:24` say that it has been reported (the hypothesis of
`FailuresAreReported`); the startup event is sent
even if `run` then fails for want of a listener.

## 4. Proofs

`tlapm` checks all of these from nothing. They hold for every value of the
constants that satisfies the named assumptions.

- `ServerProofs`: `TypeCorrect`; `NeverStranded`; `AtMostOneLateSession`;
  `RoundRobin`; `IdsAreUnique`; `NoConnectionLostOrDoubled`; `EventsMatchSessions`.
  `NothingStranded` is strengthened by what the drain has already handled;
  `LateStartBound` by where a worker can be once the flag is set (a worker past its
  look at the flag has started nothing late yet); `Balanced` by the exact number of
  offers to each worker as a function of the counter; `UniqueIds` by the block of
  ids each worker has used so far. `OneOwner` counts the places of a connection;
  its invariant says the same place by place (no backlog shares a connection with
  another, no channel slot with another slot or worker, no kind of place with
  another), which is what a step moves, and a counting argument goes back.
  `OpenEventsAreLive` needs that only a connection in a session or closed has a
  connect event, and that no closed one is in a session again.
- `TokenProofs`: `ReconstructNearest` and `ReconstructExact` (the reconstruction
  of the 32-bit time inverts the truncation for every start time less than half a
  period away), `AcceptedInWindow` (what an accepted result says of the start time
  and of the sleep).
- `AuthProofs`: `TypeCorrect`; `OnlyGenuineAccepted`; `GenuineNeverRefused`;
  `NeverEarly`; `IpAnswersRight`; `IpRefusesRightly`; `NatTypeRight`. The invariant
  says that the result of each step is that of the operators of `Token` and
  `IpResponse` at the two times the clock was read, and that a client past its sleep
  has reached the start time. The properties then are facts about the operators: a
  key is found by the least index that fits (`WFMin` gives it), and a genuine token
  stays in its window because `ClockAssumption` keeps the pause between the two reads
  within half a period of the reconstructed time.
- `SessionProofs`: `TypeCorrect`; `EndIsTrue`; `ImplementsEventLog`, the refinement of `EventLog`: each step of
  `handle_connection` is an event or a stutter. The invariant ties the log to the
  program counter and, at the close, to the end reason, because the close event
  names a token exactly when the client was let in, many steps earlier.
- `CommandsProofs`: `TypeCorrect`; `TransfersAccounted`, whose invariant adds that
  the bytes of a download are the number of its chunks times the size and that the
  terminal chunk of GETCHUNKS is the last, because GETCHUNKS accounts for count
  times size and GETTIME for a running sum; `TimedDownloads`, whose invariant says
  that the time has passed once the terminal chunk is marked; `SpacedReports`,
  whose invariant bounds every report by `last_report` and `total_bytes`;
  `PingsAccounted`, whose invariant adds what minimum and maximum are before the
  first ping; `AnswersComplete` and `FirstReport`, from what each point of each
  handler has already written.
- `StreamProofs`: `TypeCorrect` (no read takes more than it was asked for, whatever
  the sizes of chunks, lines, heads and buffers); `DownloadsIntact`. The invariant
  adds the types of the units in flight, that a raw client has only bytes in
  flight, and that a raw reader alone holds a part of a line.
- `ChannelProofs` (on top of `StreamProofs`): `BlamesRightly`; `LosesNothing`;
  `ImplementsChannel`, the refinement of `Channel`. None of the three is inductive:
  a state says nothing of what a byte in a buffer belongs to. `ReadInv` therefore
  places every byte. `Written`: all that the client has begun is one sequence, its
  messages one after the other. `InFlight`: each unit on the way is a stretch of
  it, a frame lies within one message and is the whole of a line. `Placed`:
  `partial`, `buffer`, `wire` and `rest` are consecutive stretches behind the
  messages the server has read, and `partial` is less than the next one. `Grammar`:
  each message is of the kind the one before it asks for, the server reads the kind
  that comes next, and behind a PUT it has not read there are only chunks. All this
  holds of a client in step: a chunk behind a refused PUT ends it, and a client that
  is out of step stays so. One lemma
  per action shows that a write of the client keeps all this (`Live`), and that a
  read keeps it and waits, or hands over exactly the next message in one of its
  forms, or ends the session for a reason the message deserves. The one exception
  is a line that the end of file cuts (`CutOff`): nothing more is read after it.
  `ImplementsChannel` is about the strict `Channel` and has both hypotheses in its
  statement, `InStep` and no `LineCut`.
  The invariant was model-checked on the instance of `stream` before it was proved.
- `StartupProofs`: `TypeCorrect`; `KeysAreThere`; `ListenersAreThere`;
  `EventIsTrue`; `ConfigIsAsked`; `NoSilentFailure`. The invariant says, for each step of `run`, which
  keys, listeners and threads exist by then (the bound listeners are the first of
  the addresses); `ConfigInv` says that the configuration so far is what the options
  parsed so far ask for, the last of each kind counting; `ReportInv` that a process
  with a log level has its logger at every step that only logs.

Assumptions on the constants, each named in the module that declares them and
evaluated by TLC: sizes, capacities and bounds are natural numbers in the order the
code's constants have; names do not clash; half the period of the token time exceeds
the window and the pause between two reads of the clock (`ClockAssumption`, 68 years
against seconds). The inputs are what a parser returns: `TokensAssumption` and
`BodiesAssumption` (the fields of a token and of a /ip body), `AddressAssumption` (an
address has a family and is no reserved word of the model), `LinesAssumption` (a
trimmed line without a key has no label), `TextsAssumption` (a number has a value).
`ClientAssumption`: a head and a line end where `RMBT_specification.md` ends them, with at most one
CR before LF, because a text frame is trimmed of all of them and a raw line of one.

Only model-checked: the liveness properties (`QueuedIsTaken`, `BacklogIsAccepted`,
`ShutdownCompletes`, `SilentClientEnds`, `DownloadEnds`), because fairness and ENABLED
are outside the prover.

## 5. Not modelled

Certificates and the TLS protocol (rustls), the WebSocket protocol (tungstenite) below
whole frames, the text of answers and log lines with their HSTS and CORS headers, JSON and
syslog framing, the UDP socket (its errors are ignored by the code), the logger, the
build script. These are text, or libraries, or have no state the program reads back.

Seven hazards have no property. Nothing in the code bounds three of them, and its
constants say so: blank lines that keep a greeting alive, an upload without a
terminal chunk, and an upload whose client does not read its reports, which jams
both sides until the socket timeout. Two are what the code does, and the model shows
them: sessions cut by the end of main, and an accepted auth event followed by a close
event without token. Whether a reset destroys an answer of /ip is the network's
choice. And no document says whether a WebSocket frame may span two chunks: the
modelled clients never send one, the code would drop what is beyond the first.

## 6. Plan

1. A composition of `Commands` with a client over bounded buffers, where both sides
   can wait for each other until a timeout.
2. Composition of `Server` with the events of `Session`.
