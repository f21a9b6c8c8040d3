---------------------------- MODULE ServerProofs ----------------------------
(***************************************************************************)
(* Theorems about Server, for any number of connections, listeners and     *)
(* workers and any capacities.                                             *)
(***************************************************************************)
EXTENDS Server, TLAPS

USE DEF Worker

\* Sequence facts about the channels: what Append and Tail do to their length.
LEMMA AppendType ==
  ASSUME NEW S, NEW s \in Seq(S), NEW x \in S
  PROVE  Append(s, x) \in Seq(S) /\ Len(Append(s, x)) = Len(s) + 1
  OBVIOUS

LEMMA TailType ==
  ASSUME NEW S, NEW s \in Seq(S), s # <<>>
  PROVE  /\ Tail(s) \in Seq(S) /\ Head(s) \in S
         /\ Len(s) \in Nat /\ Len(Tail(s)) \in Nat /\ Len(Tail(s)) <= Len(s)
  OBVIOUS

\* What a channel carries.
LEMMA JobType == Conn \subseteq Job /\ Shutdown \in Job /\ Job \ {Shutdown} \subseteq Conn
  BY DEF Job

\* The worker whose turn it is exists.
LEMMA TargetType == ASSUME TypeOK PROVE Target \in Worker
  BY WorkersAssumption DEF TypeOK, Target

LEMMA InitTypeOK == Init => TypeOK
<1> SUFFICES ASSUME Init PROVE TypeOK
  OBVIOUS
<1>1. queue \in [Worker -> Seq(Job)] /\ \A w \in Worker : Len(queue[w]) <= QueueCap
  BY CapAssumption DEF Init
<1>2. signalled \in 0 .. NumWorkers
  BY WorkersAssumption DEF Init
<1> QED
  BY <1>1, <1>2, NamesAssumption DEF Init, TypeOK

LEMMA MainTypeOK == ASSUME TypeOK, MainStep \/ PollFails \/ AcceptError \/ Sigterm PROVE TypeOK'
<1> USE NamesAssumption, WorkersAssumption, CapAssumption
<1>1. CASE Poll
  BY <1>1 DEF TypeOK, Poll, workerVars, channelVars
<1>2. CASE CheckShutdown \/ EventsDone \/ RunReturns \/ ServerDropped \/ ProcessExit \/ PollFails \/ Sigterm
  BY <1>2 DEF TypeOK, CheckShutdown, EventsDone, RunReturns, ServerDropped, ProcessExit,
     PollFails, Sigterm, Goto, Move, kernelVars, workerVars, channelVars
<1>3. CASE WouldBlock \/ AcceptError
  BY <1>3 DEF TypeOK, WouldBlock, AcceptError, Move, kernelVars, workerVars, channelVars
<1>4. CASE SignalWorker
  <2>1. signalled \in Worker /\ signalled' \in 0 .. NumWorkers
    BY <1>4 DEF TypeOK, SignalWorker
  <2>2. queue[signalled] \in Seq(Job) /\ Len(queue[signalled]) \in Nat
    BY <2>1 DEF TypeOK
  <2>3. CanSend(signalled) => Append(queue[signalled], Shutdown) \in Seq(Job)
                              /\ Len(Append(queue[signalled], Shutdown)) <= QueueCap
    BY <2>2, AppendType, JobType DEF CanSend
  <2>4. queue' \in [Worker -> Seq(Job)] /\ \A w \in Worker : Len(queue'[w]) <= QueueCap
    BY <1>4, <2>1, <2>3 DEF TypeOK, SignalWorker
  <2> QED
    BY <1>4, <2>1, <2>4 DEF TypeOK, SignalWorker, kernelVars, workerVars
<1>5. CASE \E l \in Listener : NextEvent(l)
  BY <1>5 DEF TypeOK, NextEvent, kernelVars, workerVars, channelVars
<1>6. ASSUME NEW c \in Conn, Accept(c) PROVE TypeOK'
  <2>1. Target \in Worker
    BY TargetType
  <2>5. queue[Target] \in Seq(Job) /\ Len(queue[Target]) \in Nat
    BY <2>1 DEF TypeOK
  <2>2. CanSend(Target) => Append(queue[Target], c) \in Seq(Job)
                              /\ Len(Append(queue[Target], c)) <= QueueCap
    BY <2>5, AppendType, JobType DEF CanSend
  <2>3. queue' \in [Worker -> Seq(Job)] /\ \A w \in Worker : Len(queue'[w]) <= QueueCap
    <3> HIDE DEF Worker
    <3>1. CASE CanSend(Target)
      <4>1. queue' = [queue EXCEPT ![Target] = Append(queue[Target], c)]
        BY <1>6, <3>1 DEF Accept, Dispatch
      <4> QED
        BY <2>1, <2>2, <3>1, <4>1 DEF TypeOK
    <3>2. CASE ~CanSend(Target)
      BY <1>6, <3>2 DEF TypeOK, Accept, Dispatch
    <3> QED
      BY <3>1, <3>2
  <2>4. backlog' \in [Listener -> SUBSET Conn]
    BY <1>6 DEF TypeOK, Accept
  <2>6. sent' \in [Worker -> Nat]
    <3> HIDE DEF Worker
    <3> QED
      BY <1>6, <2>1 DEF TypeOK, Accept, Dispatch
  <2>7. dropped' \subseteq Conn /\ next_worker' \in Nat
    BY <1>6 DEF TypeOK, Accept, Dispatch
  <2> QED
    BY <1>6, <2>3, <2>4, <2>6, <2>7 DEF TypeOK, Accept, workerVars
<1> QED
  BY <1>1, <1>2, <1>3, <1>4, <1>5, <1>6 DEF MainStep

LEMMA StopTypeOK == ASSUME TypeOK, NEW w \in Worker, Stop(w), wpc[w] # "session" PROVE TypeOK'
<1>1. Queued(w) \subseteq Conn
  BY JobType DEF TypeOK, Queued, Range
<1> QED
  BY <1>1, CapAssumption DEF TypeOK, Stop, kernelVars, mainVars

LEMMA WorkerTypeOK ==
  ASSUME TypeOK, NEW w \in Worker, WorkerStep(w) \/ EndSession(w) PROVE TypeOK'
<1> USE NamesAssumption, StrideAssumption
<1>1. CASE WorkerContinue(w) \/ RecvTimeout(w)
  BY <1>1 DEF TypeOK, WorkerContinue, RecvTimeout, GotoW, kernelVars, mainVars, channelVars
<1>2. CASE WorkerSeesFlag(w) \/ ReceiveShutdown(w) \/ RecvDisconnected(w)
  BY <1>2, StopTypeOK DEF WorkerSeesFlag, ReceiveShutdown, RecvDisconnected
<1>3. CASE StartSession(w)
  <2>6. queue[w] \in Seq(Job) /\ queue[w] # <<>> /\ Len(queue[w]) <= QueueCap
    BY <1>3 DEF TypeOK, StartSession
  <2>1. /\ Tail(queue[w]) \in Seq(Job) /\ Head(queue[w]) \in Conn
        /\ Len(Tail(queue[w])) <= QueueCap
    BY <1>3, <2>6, TailType, JobType, CapAssumption DEF StartSession
  <2>2. ConnId(w, conn_seq[w] + 1) \in Nat
    <3>1. w \in Nat /\ IdStride \in Nat /\ conn_seq[w] \in Nat
      BY WorkersAssumption DEF TypeOK
    <3>2. w * IdStride \in Nat
      BY <3>1
    <3> QED
      BY <3>1, <3>2 DEF ConnId
  <2>3. queue' \in [Worker -> Seq(Job)] /\ \A v \in Worker : Len(queue'[v]) <= QueueCap
    BY <1>3, <2>1 DEF TypeOK, StartSession
  <2>4. conn_id' \in [Conn -> Nat] /\ conn_seq' \in [Worker -> Nat] /\ late' \in [Worker -> Nat]
    <3>1. conn_id \in [Conn -> Nat] /\ conn_seq \in [Worker -> Nat] /\ late \in [Worker -> Nat]
      BY DEF TypeOK
    <3>2. conn_seq[w] + 1 \in Nat /\ late[w] + 1 \in Nat
      BY <3>1
    <3>3. conn_id' = [conn_id EXCEPT ![Head(queue[w])] = ConnId(w, conn_seq[w] + 1)]
      BY <1>3 DEF StartSession
    <3>4. conn_id' \in [Conn -> Nat]
      BY <2>1, <2>2, <3>1, <3>3
    <3>5. conn_seq' \in [Worker -> Nat] /\ late' \in [Worker -> Nat]
      BY <1>3, <3>1, <3>2 DEF StartSession
    <3> QED BY <3>4, <3>5
  <2>5. /\ serving' \in [Worker -> Conn \cup {None}]
        /\ wpc' \in [Worker -> {"check", "recv", "session", "stopped"}]
        /\ \A v \in Worker : wpc'[v] = "session" <=> serving'[v] \in Conn
    BY <1>3, <2>1 DEF TypeOK, StartSession
  <2> QED
    BY <1>3, <2>3, <2>4, <2>5 DEF TypeOK, StartSession, kernelVars, mainVars
<1>4. CASE EndSession(w)
  BY <1>4 DEF TypeOK, EndSession, kernelVars, mainVars, channelVars
<1> QED
  BY <1>1, <1>2, <1>3, <1>4 DEF WorkerStep

LEMMA NextTypeOK == TypeOK /\ [Next]_vars => TypeOK'
<1> SUFFICES ASSUME TypeOK, [Next]_vars PROVE TypeOK'
  OBVIOUS
<1>1. ASSUME NEW c \in Conn, NEW l \in Listener, Connect(c, l) PROVE TypeOK'
  BY <1>1 DEF TypeOK, Connect, mainVars, workerVars, channelVars
<1>2. ASSUME NEW c \in Conn, AcceptUnusable(c) PROVE TypeOK'
  BY <1>2 DEF TypeOK, AcceptUnusable, mainVars, workerVars
<1>3. CASE CtrlC
  BY <1>3 DEF TypeOK, CtrlC, kernelVars, mainVars, workerVars, channelVars
<1>4. CASE UNCHANGED vars
  BY <1>4 DEF TypeOK, vars, kernelVars, mainVars, workerVars, channelVars
<1>5. CASE Terminated
  BY <1>5, <1>4 DEF Terminated
<1> QED
  BY <1>1, <1>2, <1>3, <1>4, <1>5, MainTypeOK, WorkerTypeOK DEF Next

\* Every variable keeps its type and no channel exceeds its capacity, whatever
\* the accept loop, the workers, the clients and the signals do.
THEOREM TypeCorrect == Spec => []TypeOK
  BY InitTypeOK, NextTypeOK, PTL DEF Spec

-----------------------------------------------------------------------------
(* Edge-triggered readiness. *)

\* NothingStranded is inductive once it is known that the event buffer is used
\* up when the loop polls again: poll overwrites it.
StrandedInv == NothingStranded /\ (mpc = "poll" => events = {})

LEMMA StrandedStep == TypeOK /\ StrandedInv /\ [Next]_vars => StrandedInv'
<1> SUFFICES ASSUME TypeOK, StrandedInv, [Next]_vars PROVE StrandedInv'
  OBVIOUS
<1> USE DEF StrandedInv, NothingStranded, kernelVars, mainVars
<1>1. ASSUME NEW c \in Conn, NEW l \in Listener, Connect(c, l) PROVE StrandedInv'
  BY <1>1 DEF TypeOK, Connect
<1>2. ASSUME NEW c \in Conn, AcceptUnusable(c) \/ Accept(c) PROVE StrandedInv'
  BY <1>2 DEF TypeOK, AcceptUnusable, Accept
<1>3. CASE Poll
  BY <1>3 DEF Poll
<1>4. CASE CheckShutdown \/ EventsDone \/ RunReturns \/ ServerDropped \/ ProcessExit \/ PollFails \/ Sigterm
  BY <1>4 DEF CheckShutdown, EventsDone, RunReturns, ServerDropped, ProcessExit,
     PollFails, Sigterm, Goto, Move
<1>5. CASE WouldBlock \/ AcceptError
  BY <1>5 DEF WouldBlock, AcceptError, Move
<1>6. CASE SignalWorker
  BY <1>6 DEF SignalWorker
<1>7. CASE \E l \in Listener : NextEvent(l)
  BY <1>7 DEF NextEvent
<1>8. CASE CtrlC \/ Terminated \/ UNCHANGED vars
  BY <1>8 DEF CtrlC, Terminated, vars
<1>9. ASSUME NEW w \in Worker, WorkerStep(w) \/ EndSession(w) PROVE StrandedInv'
  <2>1. UNCHANGED <<kernelVars, mainVars>>
    BY <1>9 DEF WorkerStep, EndSession, WorkerContinue, WorkerSeesFlag, StartSession,
       ReceiveShutdown, RecvTimeout, RecvDisconnected, GotoW, Stop
  <2> QED
    BY <2>1
<1> QED
  BY <1>1, <1>2, <1>3, <1>4, <1>5, <1>6, <1>7, <1>8, <1>9 DEF Next, MainStep

\* The drain loop of Server::run never leaves a connection behind on a listener
\* whose readiness it has consumed, except after an accept error.
THEOREM NeverStranded == Spec => []NothingStranded
<1>1. Init => StrandedInv
  BY DEF Init, StrandedInv, NothingStranded
<1>2. StrandedInv => NothingStranded
  BY DEF StrandedInv
<1> QED
  BY <1>1, <1>2, StrandedStep, TypeCorrect, PTL DEF Spec

-----------------------------------------------------------------------------
(* Sessions started after the flag was set. *)

\* A worker that started a late session is past its receive, and the flag that
\* made it late is still set, so its next look at the flag ends it.
LateInv ==
  \A w \in Worker : late[w] = 0 \/ (late[w] = 1 /\ shutdown /\ wpc[w] # "recv")

LEMMA LateStep == TypeOK /\ LateInv /\ [Next]_vars => LateInv'
<1> SUFFICES ASSUME TypeOK, LateInv, [Next]_vars PROVE LateInv'
  OBVIOUS
<1> HIDE DEF Worker
<1> USE DEF LateInv, workerVars
<1>1. ASSUME (\E c \in Conn, l \in Listener : Connect(c, l)) \/ MainStep \/ PollFails \/ AcceptError
             \/ (\E c \in Conn : AcceptUnusable(c)) \/ Sigterm \/ Terminated \/ UNCHANGED vars
      PROVE  LateInv'
  <2>1. UNCHANGED <<workerVars, shutdown>>
    BY <1>1 DEF Connect, MainStep, PollFails, AcceptError, AcceptUnusable, Sigterm, Terminated,
       Poll, CheckShutdown, EventsDone, WouldBlock, SignalWorker, RunReturns, ServerDropped,
       ProcessExit, NextEvent, Accept, Goto, Move, vars
  <2> QED
    BY <2>1
<1>2. CASE CtrlC
  BY <1>2 DEF CtrlC
<1>3. ASSUME NEW w \in Worker, StartSession(w) PROVE LateInv'
  BY <1>3 DEF TypeOK, StartSession
<1>4. ASSUME NEW w \in Worker, EndSession(w) PROVE LateInv'
  BY <1>4 DEF TypeOK, EndSession
<1>5. ASSUME NEW w \in Worker, WorkerContinue(w) \/ RecvTimeout(w) PROVE LateInv'
  BY <1>5 DEF TypeOK, WorkerContinue, RecvTimeout, GotoW
<1>6. ASSUME NEW w \in Worker, WorkerSeesFlag(w) \/ ReceiveShutdown(w) \/ RecvDisconnected(w)
      PROVE  LateInv'
  BY <1>6 DEF TypeOK, WorkerSeesFlag, ReceiveShutdown, RecvDisconnected, Stop
<1> QED
  BY <1>1, <1>2, <1>3, <1>4, <1>5, <1>6 DEF Next, WorkerStep

\* After Ctrl+C a worker starts at most one more session.
THEOREM AtMostOneLateSession == Spec => []LateStartBound
<1>1. Init => LateInv
  BY DEF Init, LateInv
<1>2. LateInv => LateStartBound
  BY DEF LateInv, LateStartBound
<1> QED
  BY <1>1, <1>2, LateStep, TypeCorrect, PTL DEF Spec
-----------------------------------------------------------------------------
(* Round-robin. *)

\* Numbers 1 .. s of two different blocks of size s never coincide.
LEMMA BlocksDisjoint ==
  ASSUME NEW s \in Nat \ {0}, NEW v \in Nat, NEW w \in Nat,
         NEW j \in 1 .. s, NEW k \in 1 .. s, v * s + j = w * s + k
  PROVE  v = w
<1>1. ASSUME NEW a \in Nat, NEW b \in Nat, a < b PROVE a * s + s <= b * s
  <2>1. PICK d \in Nat : b = a + 1 + d
    <3>1. b - a - 1 \in Nat /\ b = a + 1 + (b - a - 1)
      BY <1>1
    <3> QED
      BY <3>1
  <2>2. b * s = a * s + s + d * s
    BY <2>1
  <2>3. d * s \in Nat /\ a * s \in Nat
    OBVIOUS
  <2> QED
    BY <2>2, <2>3
<1>2. v * s \in Nat /\ w * s \in Nat
  OBVIOUS
<1>3. CASE v < w
  <2>1. v * s + s <= w * s
    BY <1>1, <1>3
  <2> QED
    BY <2>1, <1>2
<1>4. CASE w < v
  <2>1. w * s + s <= v * s
    BY <1>1, <1>4
  <2> QED
    BY <2>1, <1>2
<1> QED
  BY <1>3, <1>4

\* Division with remainder.
LEMMA Remainder ==
  ASSUME NEW n \in Nat \ {0}, NEW k \in Nat
  PROVE  k \div n \in Nat /\ k % n \in 0 .. n - 1 /\ k = (k \div n) * n + (k % n)
<1>1. k % n \in 0 .. n - 1
  OBVIOUS
<1>2. k = (k \div n) * n + (k % n)
  OBVIOUS
<1>3. k \div n \in Nat
  OBVIOUS
<1> QED
  BY <1>1, <1>2, <1>3

\* The remainder of a counter that starts at zero and goes up by one.
LEMMA NextRemainder ==
  ASSUME NEW n \in Nat \ {0}, NEW k \in Nat
  PROVE  (k + 1) % n = IF k % n = n - 1 THEN 0 ELSE (k % n) + 1
<1> DEFINE q == k \div n
           r == k % n
           p == (k + 1) \div n
           t == (k + 1) % n
<1>1. q \in Nat /\ r \in 0 .. n - 1 /\ k = q * n + r
  BY Remainder
<1>2. p \in Nat /\ t \in 0 .. n - 1 /\ k + 1 = p * n + t
  <2>1. PICK m \in Nat : m = k + 1
    OBVIOUS
  <2>2. m \div n \in Nat /\ m % n \in 0 .. n - 1 /\ m = (m \div n) * n + (m % n)
    BY Remainder
  <2> QED
    BY <2>1, <2>2
<1> HIDE DEF q, r, p, t
<1>3. q * n \in Nat /\ p * n \in Nat /\ (q + 1) * n = q * n + n
  BY <1>1, <1>2
<1>4. CASE r = n - 1
  <2>1. p * n + (t + 1) = (q + 1) * n + 1
    BY <1>1, <1>2, <1>3, <1>4
  <2>2. p = q + 1
    BY <1>1, <1>2, <2>1, BlocksDisjoint
  <2> QED
    BY <1>1, <1>2, <1>3, <1>4, <2>1, <2>2 DEF r, t
<1>5. CASE r # n - 1
  <2>1. p * n + (t + 1) = q * n + (r + 2)
    BY <1>1, <1>2, <1>3
  <2>2. p = q
    BY <1>1, <1>2, <1>5, <2>1, BlocksDisjoint
  <2> QED
    BY <1>1, <1>2, <1>3, <1>5, <2>1, <2>2 DEF r, t
<1> QED
  BY <1>4, <1>5

\* The workers before the next one are one connection ahead of those after it.
BalanceInv ==
  \A v, w \in Worker :
    /\ (v < Target <=> w < Target) => sent[v] = sent[w]
    /\ v < Target /\ ~(w < Target) => sent[v] = sent[w] + 1

LEMMA BalanceStep == TypeOK /\ BalanceInv /\ [Next]_vars => BalanceInv'
<1> SUFFICES ASSUME TypeOK, BalanceInv, [Next]_vars PROVE BalanceInv'
  OBVIOUS
<1>1. ASSUME NEW c \in Conn, Accept(c) PROVE BalanceInv'
  <2>1. Target \in Worker /\ Target' = IF Target = NumWorkers - 1 THEN 0 ELSE Target + 1
    BY <1>1, NextRemainder, TargetType, WorkersAssumption DEF TypeOK, Accept, Dispatch, Target
  <2>2. sent' = [sent EXCEPT ![Target] = sent[Target] + 1]
    BY <1>1 DEF Accept, Dispatch
  <2>3. \A w \in Worker : sent[w] \in Nat /\ sent'[w] = IF w = Target THEN sent[w] + 1 ELSE sent[w]
    BY <2>1, <2>2 DEF TypeOK
  <2> QED
    BY <2>1, <2>3, WorkersAssumption DEF BalanceInv
<1>2. ASSUME UNCHANGED <<sent, next_worker>> PROVE BalanceInv'
  BY <1>2 DEF BalanceInv, Target
<1>3. ASSUME NEW w \in Worker, WorkerStep(w) \/ EndSession(w) PROVE UNCHANGED <<sent, next_worker>>
  BY <1>3 DEF WorkerStep, EndSession, WorkerContinue, WorkerSeesFlag, StartSession,
     ReceiveShutdown, RecvTimeout, RecvDisconnected, GotoW, Stop, mainVars, channelVars
<1>4. ASSUME [Next]_vars, ~(\E c \in Conn : Accept(c)), ~(\E w \in Worker : WorkerStep(w) \/ EndSession(w))
      PROVE  UNCHANGED <<sent, next_worker>>
  BY <1>4 DEF Next, Connect, MainStep, PollFails, AcceptError, AcceptUnusable, CtrlC, Sigterm,
     Terminated, Poll, CheckShutdown, EventsDone, WouldBlock, SignalWorker, RunReturns,
     ServerDropped, ProcessExit, NextEvent, Goto, Move, vars, mainVars, channelVars
<1> QED
  BY <1>1, <1>2, <1>3, <1>4

\* Server::run offers the workers equally many connections, whichever of them
\* are full or gone.
THEOREM RoundRobin == Spec => []Balanced
<1>1. Init => BalanceInv
  <2>1. 0 % NumWorkers = 0
    BY WorkersAssumption
  <2> QED
    BY <2>1 DEF Init, BalanceInv, Target
<1>2. TypeOK /\ BalanceInv => Balanced
  BY DEF TypeOK, BalanceInv, Balanced
<1> QED
  BY <1>1, <1>2, BalanceStep, TypeCorrect, PTL DEF Spec

-----------------------------------------------------------------------------
(* Connection ids. *)

\* Every id was formed by some worker from a count it has reached.
IdInv ==
  /\ UniqueIds
  /\ \A c \in Logged : \E w \in Worker : \E k \in 1 .. conn_seq[w] : conn_id[c] = ConnId(w, k)

LEMMA IdStep == TypeOK /\ IdInv /\ [Next]_vars => IdInv'
<1> SUFFICES ASSUME TypeOK, IdInv, [Next]_vars PROVE IdInv'
  OBVIOUS
<1>1. ASSUME NEW w \in Worker, StartSession(w) PROVE IdInv'
  <2> DEFINE h == Head(queue[w])
             n == conn_seq[w] + 1
  <2>1. h \in Conn /\ w \in Nat /\ n \in Nat \ {0} /\ IdStride \in Nat \ {0}
    <3>1. queue[w] \in Seq(Job) /\ queue[w] # <<>> /\ h # Shutdown /\ conn_seq[w] \in Nat
      BY <1>1 DEF TypeOK, StartSession
    <3>2. h \in Job
      BY <3>1, TailType
    <3> QED
      BY <3>1, <3>2, JobType, StrideAssumption
  <2>2. conn_seq' = [conn_seq EXCEPT ![w] = n] /\ conn_id' = [conn_id EXCEPT ![h] = ConnId(w, n)]
    BY <1>1 DEF StartSession
  <2> HIDE DEF h, n
  <2>3. /\ conn_seq'[w] = n
        /\ \A v \in Worker : conn_seq[v] \in Nat /\ conn_seq'[v] \in Nat /\ conn_seq[v] <= conn_seq'[v]
    <3> HIDE DEF Worker
    <3> QED
      BY <2>2, <2>1 DEF TypeOK, n
  <2>4. /\ conn_id'[h] = ConnId(w, n) /\ \A c \in Conn \ {h} : conn_id'[c] = conn_id[c]
        /\ Logged' \subseteq Logged \cup {h}
    BY <2>1, <2>2 DEF TypeOK, Logged
  <2>5. ASSUME NEW c \in Logged' \ {h}, conn_id'[c] = conn_id'[h],
               \A v \in Worker : conn_seq'[v] <= IdStride
        PROVE  FALSE
    <3>0. PICK v \in Worker : \E k \in 1 .. conn_seq[v] : conn_id[c] = ConnId(v, k)
      BY <2>4, <2>5 DEF IdInv
    <3>1. PICK k \in 1 .. conn_seq[v] : conn_id[c] = ConnId(v, k)
      BY <3>0
    <3>2. v * IdStride + k = w * IdStride + n
      BY <2>4, <2>5, <3>1 DEF ConnId, Logged
    <3>3. k \in 1 .. IdStride /\ n \in 1 .. IdStride /\ v \in Nat
      BY <2>1, <2>3, <2>5, <3>1
    <3>4. v = w
      BY <2>1, <3>2, <3>3, BlocksDisjoint
    <3>5. k = n /\ k <= conn_seq[w]
      <4>1. w * IdStride \in Nat
        BY <2>1
      <4> QED
        BY <2>1, <3>1, <3>2, <3>3, <3>4, <4>1
    <3> QED
      BY <3>5, <2>3, <2>1 DEF n
  <2>6. UniqueIds'
    <3> SUFFICES ASSUME \A v \in Worker : conn_seq'[v] <= IdStride,
                        NEW c \in Logged', NEW d \in Logged', conn_id'[c] = conn_id'[d]
                 PROVE  c = d
      BY DEF UniqueIds
    <3>1. \A v \in Worker : conn_seq[v] <= IdStride
      BY <2>1, <2>3
    <3>2. CASE c = h \/ d = h
      BY <3>2, <2>5
    <3>3. CASE c # h /\ d # h
      <4>1. c \in Logged /\ d \in Logged /\ conn_id[c] = conn_id[d]
        BY <3>3, <2>4 DEF Logged
      <4> QED
        BY <3>1, <4>1 DEF IdInv, UniqueIds
    <3> QED
      BY <3>2, <3>3
  <2>7. ASSUME NEW c \in Logged'
        PROVE  \E v \in Worker : \E k \in 1 .. conn_seq'[v] : conn_id'[c] = ConnId(v, k)
    <3>1. CASE c = h
      <4>1. n \in 1 .. conn_seq'[w]
        BY <2>1, <2>3
      <4> QED
        BY <3>1, <4>1, <2>4
    <3>2. CASE c # h
      <4>0. PICK v \in Worker : \E k \in 1 .. conn_seq[v] : conn_id[c] = ConnId(v, k)
        BY <3>2, <2>4 DEF IdInv
      <4>1. PICK k \in 1 .. conn_seq[v] : conn_id[c] = ConnId(v, k)
        BY <4>0
      <4>2. k \in 1 .. conn_seq'[v]
        BY <2>3, <4>1
      <4>3. conn_id'[c] = ConnId(v, k)
        BY <2>4, <3>2, <4>1 DEF Logged
      <4> QED
        BY <4>2, <4>3
    <3> QED
      BY <3>1, <3>2
  <2> QED
    BY <2>6, <2>7 DEF IdInv, ConnId
<1>2. ASSUME UNCHANGED <<conn_seq, conn_id>> PROVE IdInv'
  BY <1>2 DEF IdInv, UniqueIds, Logged, ConnId
<1>3. ASSUME NEW w \in Worker, WorkerStep(w) \/ EndSession(w), ~StartSession(w)
      PROVE  UNCHANGED <<conn_seq, conn_id>>
  BY <1>3 DEF WorkerStep, EndSession, WorkerContinue, WorkerSeesFlag,
     ReceiveShutdown, RecvTimeout, RecvDisconnected, GotoW, Stop
<1>4. ASSUME [Next]_vars, ~(\E w \in Worker : WorkerStep(w) \/ EndSession(w))
      PROVE  UNCHANGED <<conn_seq, conn_id>>
  BY <1>4 DEF Next, Connect, MainStep, PollFails, AcceptError, AcceptUnusable, CtrlC, Sigterm,
     Terminated, Poll, CheckShutdown, EventsDone, WouldBlock, SignalWorker, RunReturns,
     ServerDropped, ProcessExit, NextEvent, Accept, Goto, Move, vars, workerVars
<1> QED
  BY <1>1, <1>2, <1>3, <1>4

\* The ids of the events name one connection each, until a worker has served
\* more than IdStride connections.
THEOREM IdsAreUnique == Spec => []UniqueIds
<1>1. Init => IdInv
  BY DEF Init, IdInv, UniqueIds, Logged
<1>2. IdInv => UniqueIds
  BY DEF IdInv
<1> QED
  BY <1>1, <1>2, IdStep, TypeCorrect, PTL DEF Spec

-----------------------------------------------------------------------------
(* Where a connection is. *)

Waits(c) == \E l \in Listener : c \in backlog[l]
InChannel(c) == \E w \in Worker : \E i \in DOMAIN queue[w] : queue[w][i] = c
InSession(c) == \E w \in Worker : serving[w] = c

\* A connection is in one backlog, in one slot of one channel, with one worker.
BacklogsDistinct == \A c \in Conn : \A l, m \in Listener : c \in backlog[l] /\ c \in backlog[m] => l = m
ChannelsDistinct ==
  \A c \in Conn : \A v, w \in Worker : \A i \in DOMAIN queue[v], j \in DOMAIN queue[w] :
    queue[v][i] = c /\ queue[w][j] = c => v = w /\ i = j
SessionsDistinct == \A c \in Conn : \A v, w \in Worker : serving[v] = c /\ serving[w] = c => v = w

\* It is in one kind of place at a time, and in some kind once it has arrived.
KindsDistinct ==
  \A c \in Conn :
    /\ c \in arrived <=> (Waits(c) \/ InChannel(c) \/ InSession(c) \/ c \in dropped \/ c \in closed)
    /\ Waits(c) => ~InChannel(c) /\ ~InSession(c) /\ c \notin dropped /\ c \notin closed
    /\ InChannel(c) => ~InSession(c) /\ c \notin dropped /\ c \notin closed
    /\ InSession(c) => c \notin dropped /\ c \notin closed
    /\ ~(c \in dropped /\ c \in closed)

OwnerInv == BacklogsDistinct /\ ChannelsDistinct /\ SessionsDistinct /\ KindsDistinct

HIDE DEF Worker

LEMMA ChannelAppend ==
  ASSUME TypeOK, ChannelsDistinct, NEW w \in Worker, NEW x \in Job, ~InChannel(x) \/ x = Shutdown,
         queue' = [queue EXCEPT ![w] = Append(queue[w], x)]
  PROVE  ChannelsDistinct' /\ \A c \in Conn : InChannel(c)' <=> (InChannel(c) \/ c = x)
<1> DEFINE n == Len(queue[w]) + 1
<1>1. queue \in [Worker -> Seq(Job)] /\ queue[w] \in Seq(Job)
  BY DEF TypeOK
<1>2. /\ DOMAIN queue[w] = 1 .. Len(queue[w]) /\ Len(queue[w]) \in Nat
      /\ DOMAIN Append(queue[w], x) = 1 .. n /\ Append(queue[w], x)[n] = x
      /\ \A i \in 1 .. Len(queue[w]) : Append(queue[w], x)[i] = queue[w][i]
  BY <1>1
<1>3. queue'[w] = Append(queue[w], x) /\ \A v \in Worker \ {w} : queue'[v] = queue[v]
  BY <1>1
<1>4. /\ DOMAIN queue'[w] = DOMAIN queue[w] \cup {n} /\ queue'[w][n] = x /\ n \notin DOMAIN queue[w]
      /\ \A i \in DOMAIN queue[w] : queue'[w][i] = queue[w][i]
  BY <1>2, <1>3
<1> HIDE DEF n
<1>5. \A c \in Conn : InChannel(c)' <=> (InChannel(c) \/ c = x)
  BY <1>3, <1>4 DEF InChannel
<1>6. \A c \in Conn, v \in Worker : \A i \in DOMAIN queue'[v] :
        queue'[v][i] = c => (c = x /\ v = w /\ i = n) \/ (i \in DOMAIN queue[v] /\ queue[v][i] = c)
  BY <1>3, <1>4
<1>7. x \in Conn => \A v \in Worker : \A i \in DOMAIN queue[v] : queue[v][i] # x
  BY NamesAssumption DEF InChannel
<1>8. ChannelsDistinct'
  BY <1>6, <1>7 DEF ChannelsDistinct
<1> QED
  BY <1>5, <1>8

LEMMA ChannelTail ==
  ASSUME TypeOK, ChannelsDistinct, NEW w \in Worker, queue[w] # <<>>,
         queue' = [queue EXCEPT ![w] = Tail(queue[w])]
  PROVE  /\ ChannelsDistinct'
         /\ Head(queue[w]) \in Conn => InChannel(Head(queue[w]))
         /\ \A c \in Conn : InChannel(c)' <=> (InChannel(c) /\ c # Head(queue[w]))
<1> DEFINE n == Len(queue[w])
<1>1. queue \in [Worker -> Seq(Job)] /\ queue[w] \in Seq(Job)
  BY DEF TypeOK
<1>2. /\ n \in Nat /\ n > 0 /\ DOMAIN queue[w] = 1 .. n /\ Head(queue[w]) = queue[w][1]
      /\ DOMAIN Tail(queue[w]) = 1 .. n - 1 /\ \A i \in 1 .. n - 1 : Tail(queue[w])[i] = queue[w][i + 1]
  BY <1>1
<1>3. queue'[w] = Tail(queue[w]) /\ \A v \in Worker \ {w} : queue'[v] = queue[v]
  BY <1>1
<1> HIDE DEF n
<1>4. /\ DOMAIN queue'[w] = 1 .. n - 1 /\ \A i \in 1 .. n - 1 : queue'[w][i] = queue[w][i + 1]
      /\ 1 \in DOMAIN queue[w]
  <2>1. 1 \in DOMAIN queue[w]
    BY <1>2
  <2>2. DOMAIN queue'[w] = 1 .. n - 1
    BY <1>2, <1>3, Zenon
  <2>3. \A i \in 1 .. n - 1 : queue'[w][i] = queue[w][i + 1]
    BY <1>2, <1>3, Zenon
  <2> QED
    BY <2>1, <2>2, <2>3
<1>5. \A i \in 1 .. n - 1 : i + 1 \in DOMAIN queue[w] /\ i + 1 # 1
  BY <1>2
<1>6. \A i \in DOMAIN queue[w] : i = 1 \/ (i - 1 \in 1 .. n - 1 /\ (i - 1) + 1 = i)
  BY <1>2
<1>7. ChannelsDistinct'
  <2> SUFFICES ASSUME NEW c \in Conn, NEW u \in Worker, NEW v \in Worker,
                      NEW i \in DOMAIN queue'[u], NEW j \in DOMAIN queue'[v],
                      queue'[u][i] = c, queue'[v][j] = c
               PROVE  u = v /\ i = j
    BY DEF ChannelsDistinct
  <2>1. CASE u = w /\ v = w
    BY <1>2, <1>4, <1>5, <2>1 DEF ChannelsDistinct
  <2>2. CASE u = w /\ v # w
    BY <1>3, <1>4, <1>5, <2>2 DEF ChannelsDistinct
  <2>3. CASE u # w /\ v = w
    BY <1>3, <1>4, <1>5, <2>3 DEF ChannelsDistinct
  <2>4. CASE u # w /\ v # w
    BY <1>3, <2>4 DEF ChannelsDistinct
  <2> QED
    BY <2>1, <2>2, <2>3, <2>4
<1>8. Head(queue[w]) \in Conn => InChannel(Head(queue[w]))
  BY <1>2, <1>4 DEF InChannel
<1>9. ASSUME NEW c \in Conn, InChannel(c)' PROVE InChannel(c) /\ c # Head(queue[w])
  <2>1. PICK v \in Worker : \E i \in DOMAIN queue'[v] : queue'[v][i] = c
    BY <1>9 DEF InChannel
  <2>2. PICK i \in DOMAIN queue'[v] : queue'[v][i] = c
    BY <2>1
  <2>3. CASE v = w
    BY <1>2, <1>4, <1>5, <2>2, <2>3 DEF InChannel, ChannelsDistinct
  <2>4. CASE v # w
    BY <1>2, <1>3, <1>4, <2>2, <2>4 DEF InChannel, ChannelsDistinct
  <2> QED
    BY <2>3, <2>4
<1>10. ASSUME NEW c \in Conn, InChannel(c), c # Head(queue[w]) PROVE InChannel(c)'
  <2>1. PICK v \in Worker : \E i \in DOMAIN queue[v] : queue[v][i] = c
    BY <1>10 DEF InChannel
  <2>2. PICK i \in DOMAIN queue[v] : queue[v][i] = c
    BY <2>1
  <2>3. CASE v = w
    <3>1. i - 1 \in DOMAIN queue'[w] /\ queue'[w][i - 1] = c
      BY <1>2, <1>4, <1>6, <1>10, <2>2, <2>3
    <3> QED
      BY <3>1 DEF InChannel
  <2>4. CASE v # w
    BY <1>3, <2>2, <2>4 DEF InChannel
  <2> QED
    BY <2>3, <2>4
<1> QED
  BY <1>7, <1>8, <1>9, <1>10

LEMMA ChannelEmptied ==
  ASSUME TypeOK, ChannelsDistinct, NEW w \in Worker, queue' = [queue EXCEPT ![w] = <<>>]
  PROVE  /\ ChannelsDistinct' /\ \A c \in Queued(w) : InChannel(c)
         /\ \A c \in Conn : InChannel(c)' <=> (InChannel(c) /\ c \notin Queued(w))
<1>1. queue \in [Worker -> Seq(Job)]
  BY DEF TypeOK
<1>2. DOMAIN queue'[w] = {} /\ \A v \in Worker \ {w} : queue'[v] = queue[v]
  BY <1>1
<1>3. \A c \in Conn : c \in Queued(w) <=> \E i \in DOMAIN queue[w] : queue[w][i] = c
  BY NamesAssumption DEF Queued, Range
<1>4. \A c \in Queued(w) : InChannel(c)
  BY DEF Queued, Range, InChannel
<1>5. ChannelsDistinct'
  BY <1>2 DEF ChannelsDistinct
<1>6. \A c \in Conn : InChannel(c)' <=> (InChannel(c) /\ c \notin Queued(w))
  BY <1>2, <1>3 DEF InChannel, ChannelsDistinct
<1> QED
  BY <1>4, <1>5, <1>6

-----------------------------------------------------------------------------
(* The steps of the connections from place to place. *)

LEMMA ConnectOwner ==
  ASSUME TypeOK, OwnerInv, NEW c \in Conn, NEW l \in Listener, Connect(c, l)
  PROVE  OwnerInv'
<1>1. UNCHANGED <<queue, serving, dropped, closed>> /\ arrived' = arrived \cup {c}
  BY DEF Connect, workerVars, channelVars
<1>2. /\ backlog'[l] = backlog[l] \cup {c} /\ \A m \in Listener \ {l} : backlog'[m] = backlog[m]
  BY DEF Connect, TypeOK
<1>3. ~Waits(c) /\ ~InChannel(c) /\ ~InSession(c) /\ c \notin dropped /\ c \notin closed
  BY DEF OwnerInv, KindsDistinct, Connect
<1>4. \A d \in Conn : Waits(d)' <=> (Waits(d) \/ d = c)
  BY <1>2 DEF Waits
<1>5. BacklogsDistinct'
  BY <1>2, <1>3 DEF OwnerInv, BacklogsDistinct, Waits
<1>6. ChannelsDistinct' /\ SessionsDistinct' /\ \A d \in Conn : (InChannel(d)' <=> InChannel(d)) /\ (InSession(d)' <=> InSession(d))
  BY <1>1 DEF OwnerInv, ChannelsDistinct, SessionsDistinct, InChannel, InSession
<1>7. KindsDistinct'
  BY <1>1, <1>3, <1>4, <1>6 DEF OwnerInv, KindsDistinct
<1> QED
  BY <1>5, <1>6, <1>7 DEF OwnerInv

\* A connection leaves the backlog of the listener being drained.
LEMMA LeavesBacklog ==
  ASSUME TypeOK, OwnerInv, mpc = "accept", NEW c \in backlog[listener],
         backlog' = [backlog EXCEPT ![listener] = @ \ {c}]
  PROVE  /\ BacklogsDistinct' /\ \A d \in Conn : Waits(d)' <=> (Waits(d) /\ d # c)
         /\ c \in Conn /\ c \in arrived /\ Waits(c)
         /\ ~InChannel(c) /\ ~InSession(c) /\ c \notin dropped /\ c \notin closed
<1>1. listener \in Listener /\ c \in Conn
  BY DEF TypeOK
<1>2. /\ backlog'[listener] = backlog[listener] \ {c}
      /\ \A m \in Listener \ {listener} : backlog'[m] = backlog[m]
  BY <1>1 DEF TypeOK
<1>3. BacklogsDistinct'
  BY <1>2 DEF OwnerInv, BacklogsDistinct
<1>4. \A d \in Conn : Waits(d)' <=> (Waits(d) /\ d # c)
  BY <1>1, <1>2 DEF Waits, OwnerInv, BacklogsDistinct
<1>5. Waits(c)
  BY <1>1 DEF Waits
<1> QED
  BY <1>1, <1>3, <1>4, <1>5 DEF OwnerInv, KindsDistinct

LEMMA AcceptOwner ==
  ASSUME TypeOK, OwnerInv, NEW c \in Conn, Accept(c) \/ AcceptUnusable(c)
  PROVE  OwnerInv'
<1>1. /\ mpc = "accept" /\ c \in backlog[listener] /\ backlog' = [backlog EXCEPT ![listener] = @ \ {c}]
      /\ UNCHANGED <<arrived, serving, closed>>
  BY DEF Accept, AcceptUnusable, workerVars
<1>2. /\ BacklogsDistinct' /\ \A d \in Conn : Waits(d)' <=> (Waits(d) /\ d # c)
      /\ c \in arrived /\ ~InChannel(c) /\ ~InSession(c) /\ c \notin dropped /\ c \notin closed
  BY <1>1, LeavesBacklog
<1>3. SessionsDistinct' /\ \A d \in Conn : InSession(d)' <=> InSession(d)
  BY <1>1 DEF OwnerInv, SessionsDistinct, InSession
<1>4. CASE queue' = queue /\ dropped' = dropped \cup {c}
  <2>1. ChannelsDistinct' /\ \A d \in Conn : InChannel(d)' <=> InChannel(d)
    BY <1>4 DEF OwnerInv, ChannelsDistinct, InChannel
  <2>2. KindsDistinct'
    BY <1>1, <1>2, <1>3, <1>4, <2>1 DEF OwnerInv, KindsDistinct
  <2> QED
    BY <1>2, <1>3, <2>1, <2>2 DEF OwnerInv
<1>5. CASE queue' = [queue EXCEPT ![Target] = Append(@, c)] /\ dropped' = dropped
  <2>1. Target \in Worker /\ c \in Job
    BY TargetType, JobType
  <2>2. ChannelsDistinct' /\ \A d \in Conn : InChannel(d)' <=> (InChannel(d) \/ d = c)
    BY <1>2, <1>5, <2>1, ChannelAppend DEF OwnerInv
  <2>3. KindsDistinct'
    BY <1>1, <1>2, <1>3, <1>5, <2>2 DEF OwnerInv, KindsDistinct
  <2> QED
    BY <1>2, <1>3, <2>2, <2>3 DEF OwnerInv
<1> QED
  BY <1>4, <1>5 DEF Accept, AcceptUnusable, Dispatch

LEMMA SignalOwner ==
  ASSUME TypeOK, OwnerInv, SignalWorker
  PROVE  OwnerInv'
<1>1. UNCHANGED <<backlog, arrived, serving, dropped, closed>>
  BY DEF SignalWorker, kernelVars, workerVars
<1>2. ChannelsDistinct' /\ \A d \in Conn : InChannel(d)' <=> InChannel(d)
  <2>1. CASE queue' = queue
    BY <2>1 DEF OwnerInv, ChannelsDistinct, InChannel
  <2>2. CASE queue' = [queue EXCEPT ![signalled] = Append(@, Shutdown)]
    <3>1. signalled \in Worker /\ Shutdown \in Job
      BY JobType, WorkersAssumption DEF SignalWorker, TypeOK, Worker
    <3>2. ChannelsDistinct' /\ \A d \in Conn : InChannel(d)' <=> (InChannel(d) \/ d = Shutdown)
      BY <2>2, <3>1, ChannelAppend DEF OwnerInv
    <3> QED
      BY <3>2, NamesAssumption
  <2> QED
    BY <2>1, <2>2 DEF SignalWorker
<1>3. BacklogsDistinct' /\ SessionsDistinct'
  BY <1>1 DEF OwnerInv, BacklogsDistinct, SessionsDistinct
<1>4. KindsDistinct'
  BY <1>1, <1>2 DEF OwnerInv, KindsDistinct, Waits, InSession
<1> QED
  BY <1>2, <1>3, <1>4 DEF OwnerInv

LEMMA StopOwner ==
  ASSUME TypeOK, OwnerInv, NEW w \in Worker, Stop(w)
  PROVE  OwnerInv'
<1>1. /\ UNCHANGED <<backlog, arrived, serving, closed>> /\ dropped' = dropped \cup Queued(w)
      /\ queue' = [queue EXCEPT ![w] = <<>>]
  BY DEF Stop, kernelVars
<1>2. /\ ChannelsDistinct' /\ \A c \in Queued(w) : InChannel(c)
      /\ \A c \in Conn : InChannel(c)' <=> (InChannel(c) /\ c \notin Queued(w))
  BY <1>1, ChannelEmptied DEF OwnerInv
<1>3. BacklogsDistinct' /\ SessionsDistinct'
  BY <1>1 DEF OwnerInv, BacklogsDistinct, SessionsDistinct
<1>4. \A c \in Conn : (Waits(c)' <=> Waits(c)) /\ (InSession(c)' <=> InSession(c))
  BY <1>1 DEF Waits, InSession
<1>5. KindsDistinct'
  BY <1>1, <1>2, <1>4 DEF OwnerInv, KindsDistinct
<1> QED
  BY <1>2, <1>3, <1>5 DEF OwnerInv

LEMMA StartOwner ==
  ASSUME TypeOK, OwnerInv, NEW w \in Worker, StartSession(w)
  PROVE  OwnerInv' /\ Head(queue[w]) \in Conn /\ InChannel(Head(queue[w]))
<1> DEFINE h == Head(queue[w])
<1>1. h \in Conn
  <2>1. queue[w] \in Seq(Job) /\ queue[w] # <<>> /\ h # Shutdown
    BY DEF TypeOK, StartSession
  <2>2. h \in Job
    BY <2>1, TailType
  <2> QED
    BY <2>1, <2>2, JobType
<1>2. /\ UNCHANGED <<backlog, arrived, dropped, closed>>
      /\ serving' = [serving EXCEPT ![w] = h] /\ serving[w] \notin Conn
      /\ queue' = [queue EXCEPT ![w] = Tail(queue[w])] /\ queue[w] # <<>>
  BY DEF StartSession, kernelVars, TypeOK
<1> HIDE DEF h
<1>3. /\ ChannelsDistinct' /\ InChannel(h) /\ \A c \in Conn : InChannel(c)' <=> (InChannel(c) /\ c # h)
  BY <1>1, <1>2, ChannelTail DEF OwnerInv, h
<1>4. serving'[w] = h /\ \A v \in Worker \ {w} : serving'[v] = serving[v]
  BY <1>2 DEF TypeOK
<1>5. \A c \in Conn : InSession(c)' <=> (InSession(c) \/ c = h)
  BY <1>2, <1>4 DEF InSession
<1>6. ~InSession(h)
  BY <1>1, <1>3 DEF OwnerInv, KindsDistinct
<1>7. SessionsDistinct'
  BY <1>4, <1>6 DEF OwnerInv, SessionsDistinct, InSession
<1>8. BacklogsDistinct' /\ \A c \in Conn : Waits(c)' <=> Waits(c)
  BY <1>2 DEF OwnerInv, BacklogsDistinct, Waits
<1>9. KindsDistinct'
  BY <1>1, <1>2, <1>3, <1>5, <1>8 DEF OwnerInv, KindsDistinct
<1> QED
  BY <1>1, <1>3, <1>7, <1>8, <1>9 DEF OwnerInv, h

LEMMA EndOwner ==
  ASSUME TypeOK, OwnerInv, NEW w \in Worker, EndSession(w)
  PROVE  OwnerInv'
<1> DEFINE s == serving[w]
<1>1. /\ UNCHANGED <<backlog, arrived, dropped, queue>> /\ closed' = closed \cup {s}
      /\ serving' = [serving EXCEPT ![w] = None] /\ s \in Conn
  BY DEF EndSession, kernelVars, channelVars, TypeOK
<1>2. serving'[w] = None /\ \A v \in Worker \ {w} : serving'[v] = serving[v]
  BY <1>1 DEF TypeOK
<1>3. \A c \in Conn : InSession(c)' <=> (InSession(c) /\ c # s)
  BY <1>2, NamesAssumption DEF InSession, OwnerInv, SessionsDistinct
<1>4. InSession(s)
  BY DEF InSession
<1> HIDE DEF s
<1>5. SessionsDistinct'
  BY <1>2, NamesAssumption DEF OwnerInv, SessionsDistinct
<1>6. /\ BacklogsDistinct' /\ ChannelsDistinct'
      /\ \A c \in Conn : (Waits(c)' <=> Waits(c)) /\ (InChannel(c)' <=> InChannel(c))
  BY <1>1 DEF OwnerInv, BacklogsDistinct, ChannelsDistinct, Waits, InChannel
<1>7. KindsDistinct'
  BY <1>1, <1>3, <1>4, <1>6 DEF OwnerInv, KindsDistinct
<1> QED
  BY <1>5, <1>6, <1>7 DEF OwnerInv

LEMMA OwnerStep == TypeOK /\ OwnerInv /\ [Next]_vars => OwnerInv'
<1> SUFFICES ASSUME TypeOK, OwnerInv, [Next]_vars PROVE OwnerInv'
  OBVIOUS
<1>1. ASSUME UNCHANGED <<backlog, arrived, queue, serving, dropped, closed>> PROVE OwnerInv'
  BY <1>1 DEF OwnerInv, BacklogsDistinct, ChannelsDistinct, SessionsDistinct, KindsDistinct,
     Waits, InChannel, InSession
<1>2. ASSUME NEW w \in Worker, WorkerStep(w) \/ EndSession(w) PROVE OwnerInv'
  <2>1. CASE WorkerContinue(w) \/ RecvTimeout(w)
    BY <1>1, <2>1 DEF WorkerContinue, RecvTimeout, GotoW, kernelVars, channelVars
  <2>2. CASE WorkerSeesFlag(w) \/ ReceiveShutdown(w) \/ RecvDisconnected(w)
    BY <2>2, StopOwner DEF WorkerSeesFlag, ReceiveShutdown, RecvDisconnected
  <2>3. CASE StartSession(w)
    BY <2>3, StartOwner
  <2>4. CASE EndSession(w)
    BY <2>4, EndOwner
  <2> QED
    BY <1>2, <2>1, <2>2, <2>3, <2>4 DEF WorkerStep
<1>3. ASSUME NEW c \in Conn, NEW l \in Listener, Connect(c, l) PROVE OwnerInv'
  BY <1>3, ConnectOwner
<1>4. ASSUME NEW c \in Conn, Accept(c) \/ AcceptUnusable(c) PROVE OwnerInv'
  BY <1>4, AcceptOwner
<1>5. CASE SignalWorker
  BY <1>5, SignalOwner
<1>6. CASE Poll \/ (\E l \in Listener : NextEvent(l)) \/ CtrlC
  BY <1>1, <1>6 DEF Poll, NextEvent, CtrlC, kernelVars, workerVars, channelVars
<1>7. CASE \/ CheckShutdown \/ EventsDone \/ WouldBlock \/ RunReturns \/ ServerDropped \/ ProcessExit
           \/ PollFails \/ AcceptError \/ Sigterm
  BY <1>1, <1>7 DEF CheckShutdown, EventsDone, WouldBlock, RunReturns, ServerDropped, ProcessExit,
     PollFails, AcceptError, Sigterm, Goto, Move, kernelVars, workerVars, channelVars
<1>8. CASE Terminated \/ UNCHANGED vars
  BY <1>1, <1>8 DEF Terminated, vars, kernelVars, workerVars, channelVars
<1> QED
  BY <1>2, <1>3, <1>4, <1>5, <1>6, <1>7, <1>8 DEF Next, MainStep

LEMMA Owners == Spec => []OwnerInv
<1>1. Init => OwnerInv
  <2> SUFFICES ASSUME Init PROVE OwnerInv
    OBVIOUS
  <2>1. \A w \in Worker : DOMAIN queue[w] = {} /\ serving[w] = None
    BY DEF Init
  <2>2. \A l \in Listener : backlog[l] = {}
    BY DEF Init
  <2>3. \A c \in Conn : ~Waits(c) /\ ~InChannel(c) /\ ~InSession(c)
    BY <2>1, <2>2, NamesAssumption DEF Waits, InChannel, InSession
  <2>4. BacklogsDistinct /\ ChannelsDistinct /\ SessionsDistinct
    BY <2>1, <2>2, NamesAssumption DEF BacklogsDistinct, ChannelsDistinct, SessionsDistinct
  <2> QED
    BY <2>3, <2>4 DEF OwnerInv, KindsDistinct, Init
<1> QED
  BY <1>1, OwnerStep, TypeCorrect, PTL DEF Spec

\* The places of a connection, kind by kind.
LEMMA PlacesMembers ==
  ASSUME NEW c \in Conn, NEW p
  PROVE  p \in Places(c) <=>
           \/ \E l \in Listener : c \in backlog[l] /\ p = <<"backlog", l>>
           \/ \E w \in Worker : \E i \in DOMAIN queue[w] : queue[w][i] = c /\ p = <<"queue", w, i>>
           \/ \E w \in Worker : serving[w] = c /\ p = <<"session", w>>
           \/ c \in dropped /\ p = <<"dropped">>
           \/ c \in closed /\ p = <<"closed">>
  BY DEF Places

\* Server::run and worker_loop, for any number of connections and workers and
\* whatever fails: a connection that arrived is in one place, be it a backlog,
\* a slot of a channel, a session, the dropped or the closed ones.
THEOREM NoConnectionLostOrDoubled == Spec => []OneOwner
<1>1. OwnerInv => OneOwner
  <2> SUFFICES ASSUME OwnerInv, NEW c \in Conn
               PROVE  IF c \in arrived THEN \E p \in Places(c) : Places(c) = {p} ELSE Places(c) = {}
    BY DEF OneOwner
  <2> DEFINE Only(q) == q \in Places(c) /\ \A p \in Places(c) : p = q
  <2>1. ASSUME NEW q, Only(q) PROVE \E p \in Places(c) : Places(c) = {p}
    <3>1. q \in Places(c) /\ Places(c) = {q}
      BY <2>1
    <3> QED
      BY <3>1
  <2> HIDE DEF Only
  <2>2. ASSUME Waits(c) PROVE \E q : Only(q)
    <3>1. PICK l \in Listener : c \in backlog[l]
      BY <2>2 DEF Waits
    <3>2. ~InChannel(c) /\ ~InSession(c) /\ c \notin dropped /\ c \notin closed
      BY <2>2 DEF OwnerInv, KindsDistinct
    <3>3. <<"backlog", l>> \in Places(c)
      BY <3>1, PlacesMembers
    <3>4. ASSUME NEW p \in Places(c) PROVE p = <<"backlog", l>>
      BY <3>1, <3>2, PlacesMembers DEF InChannel, InSession, OwnerInv, BacklogsDistinct
    <3> QED
      BY <3>3, <3>4 DEF Only
  <2>3. ASSUME InChannel(c) PROVE \E q : Only(q)
    <3>1. PICK w \in Worker : \E i \in DOMAIN queue[w] : queue[w][i] = c
      BY <2>3 DEF InChannel
    <3>2. PICK i \in DOMAIN queue[w] : queue[w][i] = c
      BY <3>1
    <3>3. ~Waits(c) /\ ~InSession(c) /\ c \notin dropped /\ c \notin closed
      BY <2>3 DEF OwnerInv, KindsDistinct
    <3>4. <<"queue", w, i>> \in Places(c)
      BY <3>2, PlacesMembers
    <3>5. ASSUME NEW p \in Places(c) PROVE p = <<"queue", w, i>>
      BY <3>2, <3>3, PlacesMembers DEF Waits, InSession, OwnerInv, ChannelsDistinct
    <3> QED
      BY <3>4, <3>5 DEF Only
  <2>4. ASSUME InSession(c) PROVE \E q : Only(q)
    <3>1. PICK w \in Worker : serving[w] = c
      BY <2>4 DEF InSession
    <3>2. ~Waits(c) /\ ~InChannel(c) /\ c \notin dropped /\ c \notin closed
      BY <2>4 DEF OwnerInv, KindsDistinct
    <3>3. <<"session", w>> \in Places(c)
      BY <3>1, PlacesMembers
    <3>4. ASSUME NEW p \in Places(c) PROVE p = <<"session", w>>
      BY <3>1, <3>2, PlacesMembers DEF Waits, InChannel, OwnerInv, SessionsDistinct
    <3> QED
      BY <3>3, <3>4 DEF Only
  <2>5. ASSUME c \in dropped \/ c \in closed PROVE \E q : Only(q)
    <3>1. ~Waits(c) /\ ~InChannel(c) /\ ~InSession(c) /\ ~(c \in dropped /\ c \in closed)
      BY <2>5 DEF OwnerInv, KindsDistinct
    <3>2. CASE c \in dropped
      <4>1. Only(<<"dropped">>)
        BY <3>1, <3>2, PlacesMembers DEF Waits, InChannel, InSession, Only
      <4> QED
        BY <4>1
    <3>3. CASE c \in closed
      <4>1. Only(<<"closed">>)
        BY <3>1, <3>3, PlacesMembers DEF Waits, InChannel, InSession, Only
      <4> QED
        BY <4>1
    <3> QED
      BY <2>5, <3>2, <3>3
  <2>6. CASE c \in arrived
    BY <2>1, <2>2, <2>3, <2>4, <2>5, <2>6 DEF OwnerInv, KindsDistinct
  <2>7. CASE c \notin arrived
    <3>1. ~Waits(c) /\ ~InChannel(c) /\ ~InSession(c) /\ c \notin dropped /\ c \notin closed
      BY <2>7 DEF OwnerInv, KindsDistinct
    <3>2. \A p : p \notin Places(c)
      BY <3>1, PlacesMembers DEF Waits, InChannel, InSession
    <3> QED
      BY <2>7, <3>2
  <2> QED
    BY <2>6, <2>7
<1> QED
  BY <1>1, Owners, PTL

-----------------------------------------------------------------------------
(* Connect and close events. *)

\* A connection gets its connect event when a worker takes it from its
\* channel, where it has had none, and its close event from that worker only.
EventsInv == closed \subseteq Logged /\ \A c \in Conn : c \in Logged <=> (InSession(c) \/ c \in closed)

LEMMA EventsStep == TypeOK /\ OwnerInv /\ EventsInv /\ [Next]_vars => EventsInv'
<1> SUFFICES ASSUME TypeOK, OwnerInv, EventsInv, [Next]_vars PROVE EventsInv'
  OBVIOUS
<1>1. ASSUME UNCHANGED <<conn_id, serving, closed>> PROVE EventsInv'
  BY <1>1 DEF EventsInv, Logged, InSession
<1>2. ASSUME NEW w \in Worker, StartSession(w) PROVE EventsInv'
  <2> DEFINE h == Head(queue[w])
             id == ConnId(w, conn_seq[w] + 1)
  <2>1. h \in Conn /\ InChannel(h)
    BY <1>2, StartOwner
  <2>2. id # 0
    <3>1. w \in Nat /\ IdStride \in Nat /\ conn_seq[w] \in Nat
      BY WorkersAssumption, StrideAssumption DEF TypeOK, Worker
    <3>2. w * IdStride \in Nat
      BY <3>1
    <3> QED
      BY <3>1, <3>2 DEF ConnId
  <2>3. /\ conn_id' = [conn_id EXCEPT ![h] = id] /\ closed' = closed /\ serving' = [serving EXCEPT ![w] = h]
        /\ serving[w] \notin Conn
    BY <1>2 DEF StartSession, TypeOK
  <2> HIDE DEF h, id
  <2>4. Logged' = Logged \cup {h}
    BY <2>1, <2>2, <2>3 DEF Logged, TypeOK
  <2>5. \A c \in Conn : InSession(c)' <=> (InSession(c) \/ c = h)
    <3>1. serving'[w] = h /\ \A v \in Worker \ {w} : serving'[v] = serving[v]
      BY <2>3 DEF TypeOK
    <3> QED
      BY <2>3, <3>1 DEF InSession
  <2> QED
    BY <2>1, <2>3, <2>4, <2>5 DEF EventsInv
<1>3. ASSUME NEW w \in Worker, EndSession(w) PROVE EventsInv'
  <2> DEFINE s == serving[w]
  <2>1. /\ closed' = closed \cup {s} /\ serving' = [serving EXCEPT ![w] = None] /\ s \in Conn
        /\ conn_id' = conn_id
    BY <1>3 DEF EndSession, TypeOK
  <2>2. serving'[w] = None /\ \A v \in Worker \ {w} : serving'[v] = serving[v]
    BY <2>1 DEF TypeOK
  <2>3. \A c \in Conn : InSession(c)' <=> (InSession(c) /\ c # s)
    BY <2>2, NamesAssumption DEF InSession, OwnerInv, SessionsDistinct
  <2>4. InSession(s)
    BY DEF InSession
  <2> HIDE DEF s
  <2> QED
    BY <2>1, <2>3, <2>4 DEF EventsInv, Logged
<1>4. ASSUME NEW w \in Worker, WorkerStep(w) \/ EndSession(w), ~StartSession(w), ~EndSession(w) PROVE EventsInv'
  BY <1>1, <1>4 DEF WorkerStep, WorkerContinue, WorkerSeesFlag, ReceiveShutdown, RecvTimeout,
     RecvDisconnected, GotoW, Stop
<1>5. ASSUME [Next]_vars, ~(\E w \in Worker : WorkerStep(w) \/ EndSession(w)) PROVE EventsInv'
  <2>1. UNCHANGED workerVars
    BY <1>5 DEF Next, Connect, MainStep, PollFails, AcceptError, AcceptUnusable, CtrlC, Sigterm,
       Terminated, Poll, CheckShutdown, EventsDone, WouldBlock, SignalWorker, RunReturns,
       ServerDropped, ProcessExit, NextEvent, Accept, Goto, Move, vars, mainVars
  <2> QED
    BY <1>1, <2>1 DEF workerVars
<1> QED
  BY <1>2, <1>3, <1>4, <1>5

\* The connections with a connect event and no close event are those the
\* workers are serving, whatever the main thread and the other workers do.
THEOREM EventsMatchSessions == Spec => []OpenEventsAreLive
<1>1. Init => EventsInv
  BY NamesAssumption DEF Init, EventsInv, Logged, InSession
<1>2. TypeOK /\ OwnerInv /\ EventsInv => OpenEventsAreLive
  <2> SUFFICES ASSUME TypeOK, OwnerInv, EventsInv PROVE OpenEventsAreLive
    OBVIOUS
  <2>1. \A c : c \in Served <=> (c \in Conn /\ InSession(c))
    BY DEF Served, InSession, TypeOK
  <2>2. \A c \in Conn : InSession(c) => c \notin closed
    BY DEF OwnerInv, KindsDistinct
  <2>3. Logged \subseteq Conn
    BY DEF Logged
  <2> QED
    BY <2>1, <2>2, <2>3 DEF OpenEventsAreLive, EventsInv
<1> QED
  BY <1>1, <1>2, EventsStep, Owners, TypeCorrect, PTL DEF Spec
=============================================================================
