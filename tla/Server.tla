------------------------------- MODULE Server -------------------------------
(***************************************************************************)
(* The accept loop, the worker pool and the shutdown of rmbtd              *)
(* (src/server/mod.rs, src/main.rs).                                       *)
(*                                                                         *)
(* The main thread polls the listeners, drains the backlog of each one     *)
(* that is readable and hands every accepted connection to the next worker *)
(* in turn, through a bounded channel that is never waited for.  A worker  *)
(* serves one connection at a time; between two connections it looks at    *)
(* the shutdown flag.  What happens inside a session is module Session.    *)
(***************************************************************************)
EXTENDS Integers, Sequences, FiniteSets, Functions

CONSTANTS Conn,        \* the connections that clients may open
          Listener,    \* the bound sockets, TCP and TLS
          NumWorkers,  \* Config::num_workers
          QueueCap,    \* capacity of a worker's channel (8 in the code)
          EventCap,    \* capacity of the mio event buffer (16 in the code)
          IdStride,    \* conn ids of one worker start here (100_000 in the code)
          Shutdown,    \* Job::Shutdown
          None         \* no connection, no listener

ASSUME WorkersAssumption == NumWorkers \in Nat \ {0}
ASSUME CapAssumption == QueueCap \in Nat \ {0} /\ EventCap \in Nat \ {0}
ASSUME StrideAssumption == IdStride \in Nat \ {0}
ASSUME NamesAssumption == Shutdown \notin Conn /\ None \notin Conn /\ None \notin Listener

Worker == 0 .. NumWorkers - 1
Job == Conn \cup {Shutdown}

VARIABLES
  backlog,      \* kernel: connections waiting to be accepted, per listener
  ready,        \* kernel: listeners with a readiness edge not yet reported
  mpc,          \* where the main thread is
  events,       \* listeners of the current mio event buffer, still to handle
  listener,     \* the listener being drained
  next_worker,  \* round-robin counter of Server::run
  signalled,    \* how many workers were sent Job::Shutdown
  shutdown,     \* the shared shutdown flag
  queue,        \* the channel of each worker
  wpc,          \* where each worker is
  serving,      \* the connection each worker serves
  conn_seq,     \* the connection counter of each worker
  \* History variables: they record, and guard nothing.
  arrived,      \* connections that clients have opened
  sent,         \* how many connections were dispatched to each worker
  dropped,      \* connections accepted and closed without a session
  conn_id,      \* the id in the connect event of a connection, 0 before it
  closed,       \* connections whose close event was emitted
  failed,       \* listeners whose last drain was cut short by an accept error
  late          \* sessions each worker started after the flag was set

kernelVars == <<backlog, ready, arrived>>
mainVars == <<mpc, events, listener, next_worker, signalled, failed>>
workerVars == <<wpc, serving, conn_seq, conn_id, closed, late>>
channelVars == <<queue, sent, dropped>>
vars == <<kernelVars, mainVars, workerVars, channelVars, shutdown>>

-----------------------------------------------------------------------------
Init ==
  /\ backlog = [l \in Listener |-> {}] /\ ready = {} /\ arrived = {}
  /\ mpc = "poll" /\ events = {} /\ listener = None
  /\ next_worker = 0 /\ signalled = 0 /\ failed = {}
  /\ shutdown = FALSE
  /\ queue = [w \in Worker |-> <<>>] /\ sent = [w \in Worker |-> 0] /\ dropped = {}
  /\ wpc = [w \in Worker |-> "check"] /\ serving = [w \in Worker |-> None]
  /\ conn_seq = [w \in Worker |-> 0] /\ late = [w \in Worker |-> 0]
  /\ conn_id = [c \in Conn |-> 0] /\ closed = {}

\* The process exists; it ends when main returns or a signal kills it.
Alive == mpc \notin {"exited", "killed"}
\* The listeners live inside Server::run.
Listening == mpc \in {"poll", "check", "events", "accept", "signal"}

Logged == {c \in Conn : conn_id[c] # 0}
Served == {serving[w] : w \in {v \in Worker : wpc[v] = "session"}}
Queued(w) == Range(queue[w]) \ {Shutdown}

-----------------------------------------------------------------------------
\* External: the kernel completes a handshake.  mio registers the listeners
\* edge-triggered, so an arrival is what makes a listener ready (again).
Connect(c, l) ==
  /\ Listening /\ c \notin arrived
  /\ arrived' = arrived \cup {c}
  /\ backlog' = [backlog EXCEPT ![l] = @ \cup {c}]
  /\ ready' = ready \cup {l}
  /\ UNCHANGED <<mainVars, workerVars, channelVars, shutdown>>

-----------------------------------------------------------------------------
(* The main thread: Server::run. *)

\* A step of the main thread that only moves it, to p.
Move(p) ==
  /\ mpc' = p
  /\ UNCHANGED <<kernelVars, events, listener, next_worker, signalled,
                 workerVars, channelVars, shutdown>>

Goto(p) == Move(p) /\ failed' = failed

\* Mutant: the edges that did not fit into the buffer are cleared with the others.
PollLosesEdges ==
  /\ mpc = "poll"
  /\ \E E \in SUBSET ready :
       /\ Cardinality(E) <= EventCap /\ (E = ready \/ Cardinality(E) = EventCap)
       /\ events' = E
       /\ ready' = {}
  /\ mpc' = "check"
  /\ UNCHANGED <<backlog, arrived, listener, next_worker, signalled, failed,
                 workerVars, channelVars, shutdown>>

\* poll() returns: ready listeners, at most EventCap of them, or nobody after
\* 100 ms.  Reporting a listener consumes its edge.  (EINTR only polls again.)
Poll ==
  /\ mpc = "poll"
  /\ \E E \in SUBSET ready :
       /\ Cardinality(E) <= EventCap /\ (E = ready \/ Cardinality(E) = EventCap)
       /\ events' = E
       /\ ready' = ready \ E
  /\ mpc' = "check"
  /\ UNCHANGED <<backlog, arrived, listener, next_worker, signalled, failed,
                 workerVars, channelVars, shutdown>>

\* poll() fails for good: run returns Err, the flag is not set.
PollFails ==
  /\ mpc = "poll"
  /\ Goto("returned")

\* Mutant: the flag is never looked at.
CheckShutdownIgnored ==
  /\ mpc = "check"
  /\ Goto("events")

CheckShutdown ==
  /\ mpc = "check"
  /\ Goto(IF shutdown THEN "signal" ELSE "events")

\* The for loop over the events, which holds no look at the shutdown flag.
NextEvent(l) ==
  /\ mpc = "events" /\ l \in events
  /\ listener' = l
  /\ events' = events \ {l}
  /\ mpc' = "accept"
  /\ UNCHANGED <<kernelVars, next_worker, signalled, failed, workerVars, channelVars, shutdown>>

EventsDone ==
  /\ mpc = "events" /\ events = {}
  /\ Goto("poll")

\* Mutant: room for one job too many.
CanSendOneMore(w) == wpc[w] # "stopped" /\ Len(queue[w]) <= QueueCap

\* External: try_send on a sync_channel fails when the channel is full, or when
\* the worker is gone with its receiver.
CanSend(w) == wpc[w] # "stopped" /\ Len(queue[w]) < QueueCap

\* The worker whose turn it is.
Target == next_worker % NumWorkers

\* Mutant: a failed try_send leaves the turn with the same worker.
DispatchRetry(c) ==
  /\ sent' = [sent EXCEPT ![Target] = @ + 1]
  /\ IF CanSend(Target)
     THEN /\ queue' = [queue EXCEPT ![Target] = Append(@, c)] /\ dropped' = dropped
          /\ next_worker' = next_worker + 1
     ELSE UNCHANGED <<queue, next_worker>> /\ dropped' = dropped \cup {c}

\* Hand connection c to the worker whose turn it is, or drop it.
Dispatch(c) ==
  /\ next_worker' = next_worker + 1
  /\ sent' = [sent EXCEPT ![Target] = @ + 1]
  /\ IF CanSend(Target)
     THEN queue' = [queue EXCEPT ![Target] = Append(@, c)] /\ dropped' = dropped
     ELSE queue' = queue /\ dropped' = dropped \cup {c}

Accept(c) ==
  /\ mpc = "accept" /\ c \in backlog[listener]
  /\ backlog' = [backlog EXCEPT ![listener] = @ \ {c}]
  /\ Dispatch(c)
  /\ UNCHANGED <<ready, arrived, mpc, events, listener, signalled, failed, workerVars,
                 shutdown>>

\* set_nonblocking(false) fails: the connection is closed, the loop goes on.
AcceptUnusable(c) ==
  /\ mpc = "accept" /\ c \in backlog[listener]
  /\ backlog' = [backlog EXCEPT ![listener] = @ \ {c}]
  /\ dropped' = dropped \cup {c}
  /\ UNCHANGED <<ready, arrived, mainVars, workerVars, queue, sent, shutdown>>

WouldBlock ==
  /\ mpc = "accept" /\ backlog[listener] = {}
  /\ Move("events")
  /\ failed' = failed \ {listener}

\* accept() fails (no descriptor left, say) and leaves the backlog as it is:
\* the drain of this listener is given up.
AcceptError ==
  /\ mpc = "accept"
  /\ Move("events")
  /\ failed' = failed \cup {listener}

\* After the loop: try_send(Job::Shutdown) to each worker, the result ignored.
SignalWorker ==
  /\ mpc = "signal" /\ signalled < NumWorkers
  /\ signalled' = signalled + 1
  /\ queue' = IF CanSend(signalled)
              THEN [queue EXCEPT ![signalled] = Append(@, Shutdown)]
              ELSE queue
  /\ UNCHANGED <<kernelVars, mpc, events, listener, next_worker, failed,
                 workerVars, sent, dropped, shutdown>>

\* run returns; its listeners go, and the kernel resets what they still hold.
RunReturns ==
  /\ mpc = "signal" /\ signalled = NumWorkers
  /\ Goto("returned")

\* The Server value is dropped at the end of main's run, and the senders with it.
ServerDropped ==
  /\ mpc = "returned"
  /\ Goto("teardown")

\* main returns: the worker threads end where they are, nobody joins them.
ProcessExit ==
  /\ mpc = "teardown"
  /\ Goto("exited")

MainStep ==
  \/ Poll \/ CheckShutdown \/ EventsDone \/ WouldBlock
  \/ SignalWorker \/ RunReturns \/ ServerDropped \/ ProcessExit
  \/ \E l \in Listener : NextEvent(l)
  \/ \E c \in Conn : Accept(c)

-----------------------------------------------------------------------------
(* Signals. *)

\* The tokio task: Ctrl+C (SIGINT) sets the flag.
CtrlC ==
  /\ Alive /\ ~shutdown
  /\ shutdown' = TRUE
  /\ UNCHANGED <<kernelVars, mainVars, workerVars, channelVars>>

\* Nothing handles SIGTERM: its default disposition ends the process.
Sigterm ==
  /\ Alive
  /\ Goto("killed")

-----------------------------------------------------------------------------
(* Worker w: worker_loop. *)

\* A step of worker w that only moves it, to p.
GotoW(w, p) ==
  /\ wpc' = [wpc EXCEPT ![w] = p]
  /\ UNCHANGED <<kernelVars, mainVars, channelVars, serving, conn_seq, conn_id,
                 closed, late, shutdown>>

\* Mutant: the jobs left in the channel are forgotten.
StopForgets(w) ==
  /\ wpc' = [wpc EXCEPT ![w] = "stopped"]
  /\ queue' = [queue EXCEPT ![w] = <<>>]
  /\ UNCHANGED <<kernelVars, mainVars, sent, dropped, serving, conn_seq, conn_id, closed,
                 late, shutdown>>

\* The thread ends; its receiver is dropped with everything still in it.
Stop(w) ==
  /\ wpc' = [wpc EXCEPT ![w] = "stopped"]
  /\ queue' = [queue EXCEPT ![w] = <<>>]
  /\ dropped' = dropped \cup Queued(w)
  /\ UNCHANGED <<kernelVars, mainVars, sent, serving, conn_seq, conn_id, closed,
                 late, shutdown>>

\* Mutant: the flag is not checked between two connections.
WorkerContinueAnyway(w) ==
  /\ Alive /\ wpc[w] = "check"
  /\ GotoW(w, "recv")

\* Mutant: a worker goes back to its channel only while nothing is in it.
WorkerContinueIdle(w) ==
  /\ Alive /\ wpc[w] = "check" /\ ~shutdown /\ queue[w] = <<>>
  /\ GotoW(w, "recv")

WorkerContinue(w) ==
  /\ Alive /\ wpc[w] = "check" /\ ~shutdown
  /\ GotoW(w, "recv")

WorkerSeesFlag(w) ==
  /\ Alive /\ wpc[w] = "check" /\ shutdown
  /\ Stop(w)

\* Mutant: the workers' ids are not kept apart.
ConnIdNoStride(w, seq) == w + seq

ConnId(w, seq) == w * IdStride + seq

\* A connection is received: count it, name it, emit its connect event.
StartSession(w) ==
  /\ Alive /\ wpc[w] = "recv" /\ queue[w] # <<>> /\ Head(queue[w]) # Shutdown
  /\ queue' = [queue EXCEPT ![w] = Tail(@)]
  /\ conn_seq' = [conn_seq EXCEPT ![w] = @ + 1]
  /\ conn_id' = [conn_id EXCEPT ![Head(queue[w])] = ConnId(w, conn_seq[w] + 1)]
  /\ serving' = [serving EXCEPT ![w] = Head(queue[w])]
  /\ wpc' = [wpc EXCEPT ![w] = "session"]
  /\ late' = [late EXCEPT ![w] = IF shutdown THEN @ + 1 ELSE @]
  /\ UNCHANGED <<kernelVars, mainVars, sent, dropped, closed, shutdown>>

ReceiveShutdown(w) ==
  /\ Alive /\ wpc[w] = "recv" /\ queue[w] # <<>> /\ Head(queue[w]) = Shutdown
  /\ Stop(w)

\* recv_timeout reports Timeout after 200 ms of an empty channel ...
RecvTimeout(w) ==
  /\ Alive /\ wpc[w] = "recv" /\ queue[w] = <<>> /\ mpc # "teardown"
  /\ GotoW(w, "check")

\* ... and Disconnected when it is empty and the sender is gone.
RecvDisconnected(w) ==
  /\ Alive /\ wpc[w] = "recv" /\ queue[w] = <<>> /\ mpc = "teardown"
  /\ Stop(w)

\* Mutant: a session ends without its close event.
EndSessionSilently(w) ==
  /\ Alive /\ wpc[w] = "session"
  /\ serving' = [serving EXCEPT ![w] = None]
  /\ wpc' = [wpc EXCEPT ![w] = "check"]
  /\ UNCHANGED <<kernelVars, mainVars, channelVars, conn_seq, conn_id, closed, late, shutdown>>

\* handle_connection returns, its last act being the close event.
EndSession(w) ==
  /\ Alive /\ wpc[w] = "session"
  /\ closed' = closed \cup {serving[w]}
  /\ serving' = [serving EXCEPT ![w] = None]
  /\ wpc' = [wpc EXCEPT ![w] = "check"]
  /\ UNCHANGED <<kernelVars, mainVars, channelVars, conn_seq, conn_id, late, shutdown>>

WorkerStep(w) ==
  \/ WorkerContinue(w) \/ WorkerSeesFlag(w) \/ StartSession(w)
  \/ ReceiveShutdown(w) \/ RecvTimeout(w) \/ RecvDisconnected(w)

-----------------------------------------------------------------------------
\* The process is gone: stuttering that is not a deadlock.
Terminated == ~Alive /\ UNCHANGED vars

Next ==
  \/ \E c \in Conn, l \in Listener : Connect(c, l)
  \/ MainStep
  \/ PollFails
  \/ AcceptError
  \/ \E c \in Conn : AcceptUnusable(c)
  \/ CtrlC
  \/ Sigterm
  \/ \E w \in Worker : WorkerStep(w) \/ EndSession(w)
  \/ Terminated

\* The main thread and the workers are scheduled; clients, signals, faults and
\* the length of a session are nobody's promise.
Fairness == WF_vars(MainStep) /\ \A w \in Worker : WF_vars(WorkerStep(w))

Spec == Init /\ [][Next]_vars /\ Fairness

-----------------------------------------------------------------------------
(* Safety. *)

\* Every variable has its type; the channels keep to their capacity and the
\* main thread accepts from a listener only.
TypeOK ==
  /\ backlog \in [Listener -> SUBSET Conn] /\ ready \subseteq Listener
  /\ arrived \subseteq Conn
  /\ mpc \in {"poll", "check", "events", "accept", "signal", "returned", "teardown",
             "exited", "killed"}
  /\ events \subseteq Listener /\ failed \subseteq Listener
  /\ listener \in Listener \cup {None} /\ (mpc = "accept" => listener \in Listener)
  /\ next_worker \in Nat /\ signalled \in 0 .. NumWorkers /\ shutdown \in BOOLEAN
  /\ queue \in [Worker -> Seq(Job)] /\ \A w \in Worker : Len(queue[w]) <= QueueCap
  /\ sent \in [Worker -> Nat] /\ dropped \subseteq Conn
  /\ wpc \in [Worker -> {"check", "recv", "session", "stopped"}]
  /\ serving \in [Worker -> Conn \cup {None}]
  /\ \A w \in Worker : wpc[w] = "session" <=> serving[w] \in Conn
  /\ conn_seq \in [Worker -> Nat] /\ late \in [Worker -> Nat]
  /\ conn_id \in [Conn -> Nat] /\ closed \subseteq Conn

\* The places a connection can be in.
Places(c) ==
  {<<"backlog", l>> : l \in {l \in Listener : c \in backlog[l]}}
  \cup (UNION {{<<"queue", w, i>> : i \in {i \in DOMAIN queue[w] : queue[w][i] = c}} :
               w \in Worker})
  \cup {<<"session", w>> : w \in {w \in Worker : serving[w] = c}}
  \cup (IF c \in dropped THEN {<<"dropped">>} ELSE {})
  \cup (IF c \in closed THEN {<<"closed">>} ELSE {})

\* No connection is lost or handed out twice on its way from the backlog
\* through a worker's channel to its session: at all times it is in one place.
OneOwner ==
  \A c \in Conn : IF c \in arrived THEN \E p \in Places(c) : Places(c) = {p}
                                  ELSE Places(c) = {}

\* The connect events without a close event are those of the sessions the
\* workers are in: handle_connection emits both, whatever happens in between.
OpenEventsAreLive == closed \subseteq Logged /\ Logged \ closed = Served

\* As long as no worker has served more than IdStride connections, the conn id
\* of an event names one connection.
UniqueIds ==
  (\A w \in Worker : conn_seq[w] <= IdStride) =>
    \A c, d \in Logged : conn_id[c] = conn_id[d] => c = d

\* Once the flag is set, a worker starts at most the one session it was
\* already about to receive.
LateStartBound == \A w \in Worker : late[w] <= 1

\* Round-robin: whatever is dropped, the workers are offered equally many
\* connections.
Balanced == \A v, w \in Worker : sent[v] <= sent[w] + 1

\* Edge-triggered readiness is never lost: while the loop runs, a listener with
\* waiting connections is due for a drain, unless an accept error ended its last.
NothingStranded ==
  mpc \in {"poll", "check", "events", "accept"} =>
    \A l \in Listener : backlog[l] # {} =>
      \/ l \in ready \cup events \cup failed
      \/ mpc = "accept" /\ l = listener

-----------------------------------------------------------------------------
(* Liveness. *)

\* A connection in a worker's channel leaves it, if the worker's sessions end:
\* the worker receives it, or stops for a shutdown and drops it.
QueuedIsTaken ==
  \A w \in Worker, c \in Conn :
    []<>(wpc[w] # "session") => (c \in Queued(w) ~> (c \notin Queued(w) \/ ~Alive))

\* A waiting connection is accepted, unless run ends or an accept error cuts a
\* drain of its listener short.
BacklogIsAccepted ==
  \A c \in Conn, l \in Listener :
    c \in backlog[l] ~> (c \notin backlog[l] \/ l \in failed \/ ~Listening)

\* After Ctrl+C the process ends, no matter what the sessions do.
ShutdownCompletes == shutdown ~> ~Alive

-----------------------------------------------------------------------------
(* What the repository says and the code does not do: each is violated. *)

\* "all workers busy -- dropping connection" (server/mod.rs:216): before any
\* shutdown a connection is refused only when every worker runs a session or
\* has one waiting.
DropOnlyWhenAllBusy ==
  [][\A c \in Conn : ~shutdown /\ Accept(c) /\ c \in dropped' =>
       \A w \in Worker : wpc[w] = "session" \/ queue[w] # <<>>]_vars

\* "Drain all pending connections on this listener before sleeping again"
\* (server/mod.rs:195): accept errors that cease strand nobody.
DrainSurvivesErrors ==
  <>[][~AcceptError]_vars =>
    \A c \in Conn, l \in Listener : c \in backlog[l] ~> (c \notin backlog[l] \/ ~Listening)
=============================================================================
