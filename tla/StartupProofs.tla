---------------------------- MODULE StartupProofs ----------------------------
(***************************************************************************)
(* Theorems about Startup, for any texts on the command line, any lines in *)
(* the key file and any number of options: what a process that serves was  *)
(* asked for is what it has.                                               *)
(***************************************************************************)
EXTENDS Startup, SequenceTheorems, TLAPS

-----------------------------------------------------------------------------
(* Types. *)

Options == ValueOptions \cup Flags
Arguments == [opt : Options, text : Texts \cup {NoText}]
Addrs == {parse_addr(t) : t \in Texts} \cup {Addr(TRUE, "any", DEFAULT_TLS_PORT), Addr(FALSE, "any", DEFAULT_TLS_PORT)}

Configs ==
  [cert_path : BOOLEAN, key_path : BOOLEAN, secret_key_path : Texts \cup {[form |-> "default"]},
   num_workers : Nat, log_level : {t.level : t \in {u \in Texts : u.form = "level"}} \cup {"off"},
   syslog_target : {parse_syslog_target(t) : t \in Texts} \cup {NoAddr}, flags : SUBSET Flags]

Pcs == {"parse", "logger", "sink", "keys", "tls", "bind_tcp", "bind_tls", "spawn", "announce", "run",
        "serving", "served", "exited"}

\* The listeners are the first of the addresses.
Prefix(s, t) == Len(s) <= Len(t) /\ \A i \in 1 .. Len(s) : s[i] = t[i]

TypeInv ==
  /\ pc \in Pcs /\ exit \in {"none", "success", "failure", "panic"}
  /\ reported \in BOOLEAN /\ foreign \in BOOLEAN /\ logger \in BOOLEAN /\ tls_cfg \in BOOLEAN
  /\ args \in Seq(Arguments) /\ config \in Configs
  /\ tcp_addrs \in Seq(Addrs) /\ tls_addrs \in Seq(Addrs)
  /\ tcp_listeners \in Seq(Addrs) /\ tls_listeners \in Seq(Addrs)
  /\ Prefix(tcp_listeners, tcp_addrs) /\ Prefix(tls_listeners, tls_addrs)
  /\ pc \notin {"parse", "exited"} => tls_addrs # <<>>
  /\ workers \in 0 .. config.num_workers

-----------------------------------------------------------------------------
(* The inductive invariant. *)

BeforeKeys == {"parse", "logger", "sink", "keys"}
BeforeBind == BeforeKeys \cup {"tls"}
AfterBind == {"spawn", "announce", "run", "serving", "served"}

KeysInv ==
  /\ pc \notin BeforeKeys \cup {"exited"} => (check_token => keys # <<>>)
  /\ \A i \in DOMAIN keys : keys[i].key > 0

ListenInv ==
  /\ pc \in BeforeBind => tcp_listeners = <<>> /\ tls_listeners = <<>>
  /\ pc = "bind_tcp" => tls_listeners = <<>>
  /\ pc \in AfterBind \cup {"bind_tls"} => tcp_listeners = tcp_addrs
  /\ pc = "bind_tls" /\ ~tls_cfg => tls_listeners = <<>>
  /\ pc \in AfterBind => tls_listeners = IF tls_cfg THEN tls_addrs ELSE <<>>
  /\ pc \in {"serving", "served"} => tcp_listeners \o tls_listeners # <<>>
  /\ pc = "served" => workers > 0

AnnounceInv ==
  /\ pc \in BeforeBind \cup {"bind_tcp", "bind_tls", "spawn"} => workers = 0 /\ announced = <<>>
  /\ pc \in {"announce", "run", "serving", "served"} => workers = config.num_workers
  /\ pc = "announce" => announced = <<>>
  /\ StartupEventIsTrue

StartupInv == TypeInv /\ KeysInv /\ ListenInv /\ AnnounceInv

LEMMA InitInv == Init => StartupInv
<1> SUFFICES ASSUME Init PROVE StartupInv
  OBVIOUS
<1>1. config \in Configs
  BY StartupAssumption DEF Init, DefaultConfig, Configs
<1>2. workers \in 0 .. config.num_workers
  BY StartupAssumption DEF Init, DefaultConfig
<1>3. Prefix(tcp_listeners, tcp_addrs) /\ Prefix(tls_listeners, tls_addrs)
  BY DEF Init, Prefix
<1>4. TypeInv
  <2>1. /\ args \in Seq(Arguments) /\ tcp_addrs \in Seq(Addrs) /\ tls_addrs \in Seq(Addrs)
        /\ tcp_listeners \in Seq(Addrs) /\ tls_listeners \in Seq(Addrs)
    BY DEF Init
  <2> QED
    BY <1>1, <1>2, <1>3, <2>1, Zenon DEF Init, TypeInv, Pcs
<1>5. KeysInv /\ ListenInv /\ AnnounceInv
  BY DEF Init, KeysInv, ListenInv, AnnounceInv, StartupEventIsTrue, BeforeKeys, BeforeBind, AfterBind
<1> QED
  BY <1>4, <1>5 DEF StartupInv

LEMMA PairType ==
  ASSUME NEW S, NEW a \in S, NEW b \in S
  PROVE  <<a, b>> \in Seq(S) /\ <<a, b>> # <<>>
  OBVIOUS

\* Append to the listeners keeps them the first of the addresses.
LEMMA PrefixAppend ==
  ASSUME NEW S, NEW s \in Seq(S), NEW t \in Seq(S), Prefix(s, t), Len(s) < Len(t)
  PROVE  Append(s, t[Len(s) + 1]) \in Seq(S) /\ Prefix(Append(s, t[Len(s) + 1]), t)
  BY DEF Prefix

\* All of the addresses have a listener when there are as many.
LEMMA PrefixFull ==
  ASSUME NEW S, NEW s \in Seq(S), NEW t \in Seq(S), Prefix(s, t), ~(Len(s) < Len(t))
  PROVE  s = t
  BY SeqEqual DEF Prefix

-----------------------------------------------------------------------------
(* The command line. *)

LEMMA ConfigWithType ==
  ASSUME NEW opt \in ValueOptions, NEW t \in Texts, config \in Configs, ~Malformed(opt, t)
  PROVE  ConfigWith(opt, t) \in Configs
<1> USE DEF ConfigWith, Configs, Malformed, ValueOptions, AddrOptions, FileOptions
<1>1. CASE opt = "-c"
  BY <1>1
<1>2. CASE opt = "-k"
  BY <1>2
<1>3. CASE opt = "-S"
  BY <1>3
<1>4. CASE opt = "-t"
  BY <1>4, TextsAssumption
<1>5. CASE opt = "-log"
  BY <1>5
<1>6. CASE opt = "--syslog"
  BY <1>6
<1>7. CASE opt \in AddrOptions
  BY <1>7
<1> QED
  BY <1>1, <1>2, <1>3, <1>4, <1>5, <1>6, <1>7

LEMMA ParseValueStep ==
  ASSUME StartupInv, NEW opt \in ValueOptions, NEW t \in Texts, ParseValue(opt, t)
  PROVE  StartupInv'
<1> USE DEF ParseValue, AtOption, loaded, listeners, started
<1>1. pc = "parse" /\ [opt |-> opt, text |-> t] \in Arguments
  BY DEF Arguments, Options
<1>2. args' \in Seq(Arguments)
  BY <1>1 DEF StartupInv, TypeInv
<1>3. CASE Malformed(opt, t)
  BY <1>1, <1>2, <1>3 DEF Exit, StartupInv, TypeInv, KeysInv, ListenInv, AnnounceInv, StartupEventIsTrue,
     Pcs, BeforeKeys, BeforeBind, AfterBind, check_token
<1>4. CASE ~Malformed(opt, t)
  <2>1. config' \in Configs
    BY <1>4, ConfigWithType DEF StartupInv, TypeInv
  <2>2. parse_addr(t) \in Addrs
    BY DEF Addrs
  <2>3. tcp_addrs' \in Seq(Addrs) /\ tls_addrs' \in Seq(Addrs)
    <3>1. tcp_addrs \in Seq(Addrs) /\ tls_addrs \in Seq(Addrs)
      BY DEF StartupInv, TypeInv
    <3>2. /\ Append(tcp_addrs, parse_addr(t)) \in Seq(Addrs)
          /\ Append(tls_addrs, parse_addr(t)) \in Seq(Addrs)
      BY <2>2, <3>1, AppendProperties
    <3> QED
      BY <1>4, <3>1, <3>2
  <2>4. /\ tcp_listeners = <<>> /\ tls_listeners = <<>> /\ workers = 0 /\ announced = <<>>
    BY <1>1 DEF StartupInv, ListenInv, AnnounceInv, BeforeBind, BeforeKeys
  <2>5. TypeInv'
    BY <1>1, <1>2, <1>4, <2>1, <2>3, <2>4 DEF StartupInv, TypeInv, Prefix, Configs, Running, ending, Pcs
  <2> QED
    BY <1>1, <1>4, <2>4, <2>5 DEF StartupInv, KeysInv, ListenInv, AnnounceInv, StartupEventIsTrue,
       BeforeKeys, BeforeBind, AfterBind
<1> QED
  BY <1>3, <1>4

LEMMA ParseFlagStep ==
  ASSUME StartupInv, NEW opt \in Flags, ParseFlag(opt)
  PROVE  StartupInv'
<1> USE DEF ParseFlag, AtOption, loaded, listeners, started, ending
<1>1. pc = "parse" /\ [opt |-> opt, text |-> NoText] \in Arguments
  BY DEF Arguments, Options
<1>2. args' \in Seq(Arguments)
  BY <1>1 DEF StartupInv, TypeInv
<1>3. config' \in Configs /\ config'.num_workers = config.num_workers
  BY DEF StartupInv, TypeInv, Configs
<1>4. TypeInv'
  BY <1>1, <1>2, <1>3 DEF StartupInv, TypeInv
<1> QED
  BY <1>1, <1>3, <1>4 DEF StartupInv, KeysInv, ListenInv, AnnounceInv, StartupEventIsTrue,
     BeforeKeys, BeforeBind, AfterBind

LEMMA ParseEndStep ==
  ASSUME StartupInv, NEW last \in ValueOptions \cup {"none"}, ParseEnd(last)
  PROVE  StartupInv'
<1> USE DEF ParseEnd, loaded, listeners, started, ending
<1>1. pc = "parse" /\ pc' = "logger"
  OBVIOUS
<1>2. args' \in Seq(Arguments)
  <2>1. last \in ValueOptions => [opt |-> last, text |-> NoText] \in Arguments
    BY DEF Arguments, Options
  <2> QED
    BY <2>1 DEF StartupInv, TypeInv
<1>3. tls_addrs' \in Seq(Addrs) /\ tls_addrs' # <<>>
  <2>1. CASE tls_addrs # <<>>
    BY <2>1 DEF StartupInv, TypeInv
  <2>2. CASE tls_addrs = <<>>
    <3>1. /\ Addr(TRUE, "any", DEFAULT_TLS_PORT) \in Addrs /\ Addr(FALSE, "any", DEFAULT_TLS_PORT) \in Addrs
      BY DEF Addrs
    <3>2. tls_addrs' = <<Addr(TRUE, "any", DEFAULT_TLS_PORT), Addr(FALSE, "any", DEFAULT_TLS_PORT)>>
      BY <2>2
    <3> QED
      BY <3>1, <3>2, PairType
  <2> QED
    BY <2>1, <2>2
<1>4. /\ tcp_listeners = <<>> /\ tls_listeners = <<>> /\ workers = 0 /\ announced = <<>>
  BY <1>1 DEF StartupInv, ListenInv, AnnounceInv, BeforeBind, BeforeKeys
<1>5. Prefix(tcp_listeners', tcp_addrs') /\ Prefix(tls_listeners', tls_addrs')
  BY <1>3, <1>4 DEF StartupInv, TypeInv, Prefix
<1>6. TypeInv'
  BY <1>1, <1>2, <1>3, <1>4, <1>5 DEF StartupInv, TypeInv, Pcs
<1> QED
  BY <1>1, <1>4, <1>6 DEF StartupInv, KeysInv, ListenInv, AnnounceInv, StartupEventIsTrue,
     BeforeKeys, BeforeBind, AfterBind

\* The process ends, and nothing else changes.
LEMMA ExitStep ==
  ASSUME StartupInv, NEW code \in {"success", "failure", "panic"}, NEW how, Exit(code, how),
         UNCHANGED <<asked, loaded, tcp_listeners, tls_listeners, started>>, foreign' \in BOOLEAN
  PROVE  StartupInv'
  BY DEF Exit, asked, loaded, started, StartupInv, TypeInv, KeysInv, ListenInv, AnnounceInv,
     StartupEventIsTrue, Pcs, BeforeKeys, BeforeBind, AfterBind, check_token

LEMMA ParseLastStep ==
  ASSUME StartupInv, NEW code \in {"success", "failure"}, ParseLast(code)
  PROVE  StartupInv'
  BY ExitStep DEF ParseLast, listeners, StartupInv, TypeInv

-----------------------------------------------------------------------------
(* run() and Server::new. *)

LEMMA InitLoggerStep ==
  ASSUME StartupInv, InitLogger
  PROVE  StartupInv'
  BY DEF InitLogger, Running, ending, asked, listeners, started, StartupInv, TypeInv, KeysInv, ListenInv,
     AnnounceInv, StartupEventIsTrue, Pcs, BeforeKeys, BeforeBind, AfterBind, check_token

LEMMA OpenSinkStep ==
  ASSUME StartupInv, NEW ok \in BOOLEAN, OpenSink(ok)
  PROVE  StartupInv'
<1>1. CASE pc' = "keys"
  BY <1>1 DEF OpenSink, Exit, Running, ending, asked, listeners, started, StartupInv, TypeInv, KeysInv,
     ListenInv, AnnounceInv, StartupEventIsTrue, Pcs, BeforeKeys, BeforeBind, AfterBind, check_token
<1>2. CASE Exit("failure", "log") /\ UNCHANGED sink
  BY <1>2, ExitStep DEF OpenSink, loaded, listeners, StartupInv, TypeInv
<1> QED
  BY <1>1, <1>2 DEF OpenSink

\* A line that counts as a key has one.
LEMMA KeysAreKeys ==
  ASSUME NEW content \in SeqOf(Lines, LineBound), NEW i \in DOMAIN SecretKeys(content)
  PROVE  SecretKeys(content)[i].key > 0
<1>1. PICK m \in 0 .. LineBound : content \in [1 .. m -> Lines]
  BY StartupAssumption DEF SeqOf
<1>2. i \in DOMAIN content /\ ~(LineLen(content[i]) < MinLine) /\ SecretKeys(content)[i] = content[i]
  BY DEF SecretKeys
<1>3. content[i] \in Lines
  BY <1>1, <1>2
<1> QED
  BY <1>2, <1>3, StartupAssumption, LinesAssumption DEF LineLen

LEMMA ReadKeysStep ==
  ASSUME StartupInv, NEW found \in BOOLEAN, NEW content \in SeqOf(Lines, LineBound), ReadKeys(found, content)
  PROVE  StartupInv'
<1>1. CASE Exit("failure", "log") /\ UNCHANGED keys
  BY <1>1, ExitStep DEF ReadKeys, loaded, listeners, StartupInv, TypeInv
<1>2. CASE pc' = "tls" /\ Running
  <2>1. KeysInv'
    <3>1. \A i \in DOMAIN keys' : keys'[i].key > 0
      BY <1>2, KeysAreKeys DEF ReadKeys, Exit
    <3>2. check_token' => keys' # <<>>
      BY <1>2 DEF ReadKeys, Exit, check_token, asked
    <3> QED
      BY <3>1, <3>2 DEF KeysInv
  <2> QED
    BY <1>2, <2>1 DEF ReadKeys, Running, ending, asked, listeners, started, StartupInv, TypeInv, ListenInv,
       AnnounceInv, StartupEventIsTrue, Pcs, BeforeKeys, BeforeBind, AfterBind
<1> QED
  BY <1>1, <1>2 DEF ReadKeys

LEMMA BuildTlsStep ==
  ASSUME StartupInv, NEW cert \in CertFiles, NEW key \in KeyFiles, BuildTls(cert, key)
  PROVE  StartupInv'
<1>1. tls_cfg' \in BOOLEAN /\ announced = <<>>
  BY DEF BuildTls, build_tls_config, StartupInv, TypeInv, AnnounceInv, BeforeBind
<1> QED
  BY <1>1 DEF BuildTls, Running, ending, asked, listeners, started, StartupInv, TypeInv, KeysInv,
     ListenInv, AnnounceInv, StartupEventIsTrue, Pcs, BeforeKeys, BeforeBind, AfterBind, check_token

\* A bind that changes nothing ends the process; one that works adds the next
\* of the addresses.
LEMMA BoundNext ==
  ASSUME NEW addrs \in Seq(Addrs), NEW bound \in Seq(Addrs), Prefix(bound, addrs), Len(bound) < Len(addrs),
         NEW ok \in BOOLEAN
  PROVE  /\ Bound(addrs, bound, ok) \in Seq(Addrs)
         /\ Prefix(Bound(addrs, bound, ok), addrs)
  BY PrefixAppend DEF Bound

LEMMA BindTcpStep ==
  ASSUME StartupInv, NEW ok \in BOOLEAN, BindTcp(ok)
  PROVE  StartupInv'
<1>1. pc = "bind_tcp" /\ tls_listeners = <<>> /\ workers = 0 /\ announced = <<>>
  BY DEF BindTcp, StartupInv, ListenInv, AnnounceInv
<1>2. CASE Len(tcp_listeners) < Len(tcp_addrs)
  <2>1. tcp_listeners' \in Seq(Addrs) /\ Prefix(tcp_listeners', tcp_addrs) /\ foreign' \in BOOLEAN
    BY <1>2, BoundNext DEF BindTcp, GoOn, StartupInv, TypeInv
  <2>2. CASE pc' = pc /\ Running
    BY <1>1, <1>2, <2>1, <2>2 DEF BindTcp, Running, ending, asked, loaded, started, StartupInv, TypeInv,
       KeysInv, ListenInv, AnnounceInv, StartupEventIsTrue, BeforeKeys, BeforeBind, AfterBind, check_token
  <2>3. CASE Exit("failure", "log") /\ tcp_listeners' = tcp_listeners
    BY <1>2, <2>1, <2>3, ExitStep DEF BindTcp
  <2> QED
    BY <1>2, <2>2, <2>3 DEF BindTcp, GoOn
<1>3. CASE ~(Len(tcp_listeners) < Len(tcp_addrs))
  <2>1. tcp_listeners = tcp_addrs
    BY <1>3, PrefixFull DEF StartupInv, TypeInv
  <2> QED
    BY <1>1, <1>3, <2>1 DEF BindTcp, Running, ending, asked, loaded, started, StartupInv, TypeInv, KeysInv,
       ListenInv, AnnounceInv, StartupEventIsTrue, Pcs, BeforeKeys, BeforeBind, AfterBind, check_token
<1> QED
  BY <1>2, <1>3

LEMMA BindTlsStep ==
  ASSUME StartupInv, NEW ok \in BOOLEAN, BindTls(ok)
  PROVE  StartupInv'
<1>1. /\ pc = "bind_tls" /\ tcp_listeners = tcp_addrs /\ workers = 0 /\ announced = <<>>
      /\ ~tls_cfg => tls_listeners = <<>>
  BY DEF BindTls, StartupInv, ListenInv, AnnounceInv
<1>2. CASE tls_cfg /\ Len(tls_listeners) < Len(tls_addrs)
  <2>1. tls_listeners' \in Seq(Addrs) /\ Prefix(tls_listeners', tls_addrs) /\ foreign' \in BOOLEAN
    BY <1>2, BoundNext DEF BindTls, GoOn, StartupInv, TypeInv
  <2>2. CASE pc' = pc /\ Running
    BY <1>1, <1>2, <2>1, <2>2 DEF BindTls, Running, ending, asked, loaded, started, StartupInv, TypeInv,
       KeysInv, ListenInv, AnnounceInv, StartupEventIsTrue, BeforeKeys, BeforeBind, AfterBind, check_token
  <2>3. CASE Exit("failure", "log") /\ tls_listeners' = tls_listeners
    BY <1>2, <2>1, <2>3, ExitStep DEF BindTls
  <2> QED
    BY <1>2, <2>2, <2>3 DEF BindTls, GoOn
<1>3. CASE ~(tls_cfg /\ Len(tls_listeners) < Len(tls_addrs))
  <2>1. tls_listeners = IF tls_cfg THEN tls_addrs ELSE <<>>
    BY <1>1, <1>3, PrefixFull DEF StartupInv, TypeInv
  <2> QED
    BY <1>1, <1>3, <2>1 DEF BindTls, Running, ending, asked, loaded, started, StartupInv, TypeInv, KeysInv,
       ListenInv, AnnounceInv, StartupEventIsTrue, Pcs, BeforeKeys, BeforeBind, AfterBind, check_token
<1> QED
  BY <1>2, <1>3

LEMMA SpawnWorkersStep ==
  ASSUME StartupInv, NEW n \in 0 .. config.num_workers, SpawnWorkers(n)
  PROVE  StartupInv'
<1>1. pc = "spawn" /\ announced = <<>> /\ announced' = <<>> /\ config.num_workers \in Nat
  BY DEF SpawnWorkers, StartupInv, TypeInv, AnnounceInv, Configs
<1>2. workers' \in 0 .. config'.num_workers
  BY DEF SpawnWorkers, asked
<1>3. pc' = "announce" => workers' = config'.num_workers
  BY <1>1 DEF SpawnWorkers, asked, Exit
<1>4. CASE pc' = "announce" /\ Running
  BY <1>1, <1>2, <1>3, <1>4 DEF SpawnWorkers, Running, ending, asked, loaded, listeners, StartupInv, TypeInv,
     KeysInv, ListenInv, AnnounceInv, StartupEventIsTrue, Pcs, BeforeKeys, BeforeBind, AfterBind, check_token
<1>5. CASE Exit("panic", "stderr")
  BY <1>1, <1>2, <1>5 DEF SpawnWorkers, Exit, asked, loaded, listeners, StartupInv, TypeInv,
     KeysInv, ListenInv, AnnounceInv, StartupEventIsTrue, Pcs, BeforeKeys, BeforeBind, AfterBind, check_token
<1> QED
  BY <1>4, <1>5 DEF SpawnWorkers

LEMMA AnnounceStep ==
  ASSUME StartupInv, Announce
  PROVE  StartupInv'
<1>1. /\ pc = "announce" /\ workers = config.num_workers /\ tcp_listeners = tcp_addrs
      /\ tls_listeners = IF tls_cfg THEN tls_addrs ELSE <<>>
  BY DEF Announce, StartupInv, ListenInv, AnnounceInv, AfterBind
<1>2. StartupEventIsTrue'
  BY <1>1 DEF Announce, StartupEventIsTrue, asked, loaded, listeners
<1> QED
  BY <1>1, <1>2 DEF Announce, Running, ending, asked, loaded, listeners, StartupInv, TypeInv, KeysInv,
     ListenInv, AnnounceInv, Pcs, BeforeKeys, BeforeBind, AfterBind, check_token

LEMMA EnterRunStep ==
  ASSUME StartupInv, NEW ok \in BOOLEAN, EnterRun(ok)
  PROVE  StartupInv'
<1>1. CASE pc' = "serving" /\ Running
  BY <1>1 DEF EnterRun, Exit, Running, ending, asked, loaded, listeners, started, StartupInv, TypeInv, KeysInv,
     ListenInv, AnnounceInv, StartupEventIsTrue, Pcs, BeforeKeys, BeforeBind, AfterBind, check_token
<1>2. CASE Exit("failure", "log")
  BY <1>2, ExitStep DEF EnterRun, listeners, StartupInv, TypeInv
<1> QED
  BY <1>1, <1>2 DEF EnterRun

LEMMA FirstConnectionStep ==
  ASSUME StartupInv, FirstConnection
  PROVE  StartupInv'
<1>1. CASE pc' = "served" /\ Running
  <2>1. workers' > 0
    BY <1>1 DEF FirstConnection, Exit, started, StartupInv, TypeInv, Configs
  <2> QED
    BY <1>1, <2>1 DEF FirstConnection, Running, ending, asked, loaded, listeners, started, StartupInv, TypeInv,
       KeysInv, ListenInv, AnnounceInv, StartupEventIsTrue, Pcs, BeforeKeys, BeforeBind, AfterBind, check_token
<1>2. CASE Exit("panic", "stderr")
  BY <1>2, ExitStep DEF FirstConnection, listeners, StartupInv, TypeInv
<1> QED
  BY <1>1, <1>2 DEF FirstConnection

LEMMA StutterStep ==
  ASSUME StartupInv, UNCHANGED vars
  PROVE  StartupInv'
  BY DEF vars, asked, loaded, listeners, started, ending, StartupInv, TypeInv, KeysInv,
     ListenInv, AnnounceInv, StartupEventIsTrue, check_token

LEMMA NextInv == StartupInv /\ [Next]_vars => StartupInv'
<1> SUFFICES ASSUME StartupInv, [Next]_vars PROVE StartupInv'
  OBVIOUS
<1>1. ASSUME NEW opt \in ValueOptions, NEW t \in TextsOf(opt), ParseValue(opt, t) PROVE StartupInv'
  BY <1>1, ParseValueStep DEF TextsOf
<1>2. ASSUME NEW n \in 0 .. config.num_workers, SpawnWorkers(n) PROVE StartupInv'
  BY <1>2, SpawnWorkersStep
<1>3. ASSUME NEW opt \in Flags, ParseFlag(opt) PROVE StartupInv'
  BY <1>3, ParseFlagStep
<1>4. ASSUME NEW code \in {"success", "failure"}, ParseLast(code) PROVE StartupInv'
  BY <1>4, ParseLastStep
<1>5. ASSUME NEW last \in ValueOptions \cup {"none"}, ParseEnd(last) PROVE StartupInv'
  BY <1>5, ParseEndStep
<1>6. ASSUME NEW ok \in BOOLEAN, OpenSink(ok) \/ BindTcp(ok) \/ BindTls(ok) \/ EnterRun(ok) PROVE StartupInv'
  BY <1>6, OpenSinkStep, BindTcpStep, BindTlsStep, EnterRunStep
<1>7. ASSUME NEW found \in BOOLEAN, NEW content \in SeqOf(Lines, LineBound), ReadKeys(found, content)
      PROVE  StartupInv'
  BY <1>7, ReadKeysStep
<1>8. ASSUME NEW cert \in CertFiles, NEW key \in KeyFiles, BuildTls(cert, key) PROVE StartupInv'
  BY <1>8, BuildTlsStep
<1>9. CASE InitLogger \/ Announce \/ FirstConnection
  BY <1>9, InitLoggerStep, AnnounceStep, FirstConnectionStep
<1>10. CASE Finished \/ UNCHANGED vars
  BY <1>10, StutterStep DEF Finished
<1> QED
  BY <1>1, <1>2, <1>3, <1>4, <1>5, <1>6, <1>7, <1>8, <1>9, <1>10 DEF Next

-----------------------------------------------------------------------------
(* Theorems. *)

LEMMA Inductive == Spec => []StartupInv
  BY InitInv, NextInv, PTL DEF Spec

\* A first part of a sequence is a prefix of it, in the words of SequencesExt.
LEMMA PrefixIsPrefix ==
  ASSUME NEW S, NEW s \in Seq(S), NEW t \in Seq(S), Prefix(s, t)
  PROVE  IsPrefix(s, t)
  BY DEF Prefix, IsPrefix

\* main() and Server::new, for every command line: every variable has its
\* type, and nothing is bound that was not asked for.
THEOREM TypeCorrect == Spec => []TypeOK
<1>1. StartupInv => TypeOK
  <2> SUFFICES ASSUME StartupInv PROVE TypeOK
    OBVIOUS
  <2>1. IsPrefix(tcp_listeners, tcp_addrs) /\ IsPrefix(tls_listeners, tls_addrs)
    BY PrefixIsPrefix DEF StartupInv, TypeInv
  <2> QED
    BY <2>1 DEF StartupInv, TypeInv, TypeOK, Pcs
<1> QED
  BY <1>1, Inductive, PTL

\* read_secret_keys, for every key file: a server that takes connections and
\* checks tokens has a key to check them with, and never an empty one.
THEOREM KeysAreThere == Spec => []KeysProtect
<1>1. StartupInv => KeysProtect
  BY DEF StartupInv, KeysInv, KeysProtect, BeforeKeys
<1> QED
  BY <1>1, Inductive, PTL

\* Server::new, for every list of addresses and whichever bind fails: a
\* server that takes connections has all its listeners, each of its own
\* kind, and all its threads.
THEOREM ListenersAreThere == Spec => []ListensAsAsked
<1>1. StartupInv => ListensAsAsked
  BY DEF StartupInv, ListenInv, AnnounceInv, ListensAsAsked, AfterBind
<1> QED
  BY <1>1, Inductive, PTL

\* log_startup: the numbers in the startup event are those of the threads and
\* of the listeners the process has.
THEOREM EventIsTrue == Spec => []StartupEventIsTrue
<1>1. StartupInv => StartupEventIsTrue
  BY DEF StartupInv, AnnounceInv
<1> QED
  BY <1>1, Inductive, PTL

-----------------------------------------------------------------------------
(* Failures are reported: there is a logger at every step that only logs. *)

ReportInv ==
  /\ pc # "exited" => exit = "none"
  /\ pc \notin {"parse", "logger", "exited"} /\ config.log_level # "off" => logger
  /\ FailuresAreReported

LEMMA ReportStep ==
  ASSUME ReportInv, [Next]_vars
  PROVE  ReportInv'
<1> USE DEF ReportInv, FailuresAreReported
\* While the command line is parsed, and the logger after it.
<1>1. CASE \E opt \in ValueOptions : \E t \in TextsOf(opt) : ParseValue(opt, t)
  BY <1>1 DEF ParseValue, AtOption, Exit, Running, ending
<1>2. CASE \E opt \in Flags : ParseFlag(opt)
  BY <1>2 DEF ParseFlag, AtOption, ending
<1>3. CASE \E code \in {"success", "failure"} : ParseLast(code)
  BY <1>3 DEF ParseLast, Exit
<1>4. CASE (\E last \in ValueOptions \cup {"none"} : ParseEnd(last)) \/ InitLogger
  BY <1>4 DEF ParseEnd, InitLogger, Running, ending, asked
\* The later steps go on or exit, and leave the logger as it is.
<1>5. ASSUME pc \notin {"parse", "logger", "exited"}, UNCHANGED <<logger, config>>,
             \/ pc' \notin {"parse", "logger"} /\ UNCHANGED ending
             \/ \E code : Exit(code, "log") \/ Exit(code, "stderr")
      PROVE  ReportInv'
  BY <1>5 DEF Exit, ending
<1>6. CASE \E ok \in BOOLEAN : OpenSink(ok) \/ BindTcp(ok) \/ BindTls(ok) \/ EnterRun(ok)
  BY <1>5, <1>6 DEF OpenSink, BindTcp, BindTls, GoOn, EnterRun, Running, asked, loaded
<1>7. CASE \E found \in BOOLEAN, content \in SeqOf(Lines, LineBound) : ReadKeys(found, content)
  BY <1>5, <1>7 DEF ReadKeys, Running, asked
<1>8. CASE (\E cert \in CertFiles, key \in KeyFiles : BuildTls(cert, key)) \/ Announce \/ FirstConnection
  BY <1>5, <1>8 DEF BuildTls, Announce, FirstConnection, Running, asked, loaded
<1>9. CASE \E n \in 0 .. config.num_workers : SpawnWorkers(n)
  BY <1>5, <1>9 DEF SpawnWorkers, Running, asked, loaded
<1>10. CASE Finished \/ UNCHANGED vars
  BY <1>10 DEF Finished, vars, asked, loaded, ending
<1> QED
  BY <1>1, <1>2, <1>3, <1>4, <1>6, <1>7, <1>8, <1>9, <1>10 DEF Next

\* main::run and Server::new, whatever the operating system answers: with a log
\* level no failure ends the process before it has been reported.
THEOREM NoSilentFailure == Spec => []FailuresAreReported
<1>1. Init => ReportInv
  BY DEF Init, ReportInv, FailuresAreReported
<1>2. ReportInv /\ [Next]_vars => ReportInv'
  BY ReportStep
<1>3. ReportInv => FailuresAreReported
  BY DEF ReportInv
<1> QED
  BY <1>1, <1>2, <1>3, PTL DEF Spec

-----------------------------------------------------------------------------
(* The configuration and the command line.  The definitions of Startup, for *)
(* a command line that is not the variable.                                *)

GivenIn(a, opt) == {i \in DOMAIN a : a[i].opt = opt /\ a[i].text # NoText}
LastIn(a, opt, default) ==
  IF GivenIn(a, opt) = {} THEN default
  ELSE a[CHOOSE i \in GivenIn(a, opt) : \A j \in GivenIn(a, opt) : j <= i].text
AreIn(a, addrs, opt) ==
  \E at \in [DOMAIN addrs -> GivenIn(a, opt)] :
    /\ \A i \in GivenIn(a, opt) : \E k \in DOMAIN addrs : at[k] = i
    /\ \A k \in DOMAIN addrs : addrs[k] = parse_addr(a[at[k]].text)
    /\ \A k, m \in DOMAIN addrs : k < m => at[k] < at[m]

\* An option that is given at all is given a last time.
HasLast(a, opt) ==
  GivenIn(a, opt) # {} => \E i \in GivenIn(a, opt) : \A j \in GivenIn(a, opt) : j <= i

\* The same options with the same values.
SameFor(a, b, opt) == GivenIn(b, opt) = GivenIn(a, opt) /\ \A i \in DOMAIN a : b[i] = a[i]

LEMMA LastIs ==
  ASSUME NEW a \in Seq(Arguments), NEW opt, NEW default, NEW m \in GivenIn(a, opt),
         \A j \in GivenIn(a, opt) : j <= m
  PROVE  LastIn(a, opt, default) = a[m].text
<1> DEFINE G == GivenIn(a, opt)
<1>1. G \subseteq Nat
  BY DEF GivenIn
<1>2. (CHOOSE i \in G : \A j \in G : j <= i) = m
  <2>1. \A i \in G : (\A j \in G : j <= i) => i = m
    BY <1>1
  <2> HIDE DEF G
  <2> QED
    BY <2>1
<1> QED
  BY <1>2 DEF LastIn

LEMMA LastSame ==
  ASSUME NEW a \in Seq(Arguments), NEW b \in Seq(Arguments), NEW opt, SameFor(a, b, opt), HasLast(a, opt)
  PROVE  HasLast(b, opt) /\ \A default : LastIn(b, opt, default) = LastIn(a, opt, default)
<1>1. CASE GivenIn(a, opt) = {}
  BY <1>1 DEF SameFor, HasLast, LastIn
<1>2. CASE GivenIn(a, opt) # {}
  <2>1. PICK m \in GivenIn(a, opt) : \A j \in GivenIn(a, opt) : j <= m
    BY <1>2 DEF HasLast
  <2>2. m \in GivenIn(b, opt) /\ (\A j \in GivenIn(b, opt) : j <= m) /\ b[m] = a[m]
    BY <2>1 DEF SameFor, GivenIn
  <2>3. ASSUME NEW default PROVE LastIn(b, opt, default) = LastIn(a, opt, default)
    <3>1. LastIn(a, opt, default) = a[m].text
      BY <2>1, LastIs
    <3>2. LastIn(b, opt, default) = b[m].text
      BY <2>2, LastIs
    <3> QED
      BY <2>2, <3>1, <3>2
  <2>4. HasLast(b, opt)
    BY <2>2 DEF HasLast
  <2> QED
    BY <2>3, <2>4
<1> QED
  BY <1>1, <1>2

LEMMA AreSame ==
  ASSUME NEW a \in Seq(Arguments), NEW b \in Seq(Arguments), NEW opt, NEW addrs \in Seq(Addrs),
         SameFor(a, b, opt), AreIn(a, addrs, opt)
  PROVE  AreIn(b, addrs, opt)
<1>1. PICK at \in [DOMAIN addrs -> GivenIn(a, opt)] :
        /\ \A i \in GivenIn(a, opt) : \E k \in DOMAIN addrs : at[k] = i
        /\ \A k \in DOMAIN addrs : addrs[k] = parse_addr(a[at[k]].text)
        /\ \A k, m \in DOMAIN addrs : k < m => at[k] < at[m]
  BY DEF AreIn
<1>2. at \in [DOMAIN addrs -> GivenIn(b, opt)]
  BY DEF SameFor
<1>3. \A k \in DOMAIN addrs : b[at[k]] = a[at[k]]
  BY DEF SameFor, GivenIn
<1>4. \A i \in GivenIn(b, opt) : \E k \in DOMAIN addrs : at[k] = i
  BY <1>1 DEF SameFor
<1>5. \A k \in DOMAIN addrs : addrs[k] = parse_addr(b[at[k]].text)
  BY <1>1, <1>3
<1> QED
  BY <1>1, <1>2, <1>4, <1>5 DEF AreIn

\* One more option, with its value or without.
With(a, o, t) == Append(a, [opt |-> o, text |-> t])

LEMMA OneMore ==
  ASSUME NEW a \in Seq(Arguments), NEW o \in Options, NEW t \in Texts, NEW b, b = With(a, o, t)
  PROVE  /\ b \in Seq(Arguments)
         /\ GivenIn(b, o) = GivenIn(a, o) \cup {Len(a) + 1}
         /\ \A i \in DOMAIN a : b[i] = a[i]
         /\ b[Len(a) + 1].text = t
         /\ \A p : p # o => SameFor(a, b, p)
<1>1. [opt |-> o, text |-> t] \in Arguments /\ t # NoText
  BY TextsAssumption DEF Arguments, NoText
<1>2. /\ b \in Seq(Arguments) /\ Len(b) = Len(a) + 1
      /\ \A i \in 1 .. Len(a) : b[i] = a[i]
      /\ b[Len(a) + 1] = [opt |-> o, text |-> t]
  BY <1>1, AppendProperties DEF With
<1>3. DOMAIN a = 1 .. Len(a) /\ DOMAIN b = 1 .. (Len(a) + 1) /\ Len(a) \in Nat
  BY <1>2
<1>4. GivenIn(b, o) = GivenIn(a, o) \cup {Len(a) + 1}
  BY <1>1, <1>2, <1>3 DEF GivenIn
<1>5. ASSUME NEW p, p # o PROVE GivenIn(b, p) = GivenIn(a, p)
  BY <1>2, <1>3, <1>5 DEF GivenIn
<1> QED
  BY <1>2, <1>3, <1>4, <1>5 DEF SameFor

LEMMA OneBare ==
  ASSUME NEW a \in Seq(Arguments), NEW o \in Options, NEW b, b = With(a, o, NoText)
  PROVE  b \in Seq(Arguments) /\ \A p : SameFor(a, b, p)
<1>1. [opt |-> o, text |-> NoText] \in Arguments
  BY DEF Arguments
<1>2. /\ b \in Seq(Arguments) /\ Len(b) = Len(a) + 1
      /\ \A i \in 1 .. Len(a) : b[i] = a[i]
      /\ b[Len(a) + 1] = [opt |-> o, text |-> NoText]
  BY <1>1, AppendProperties DEF With
<1>3. DOMAIN a = 1 .. Len(a) /\ DOMAIN b = 1 .. (Len(a) + 1) /\ Len(a) \in Nat
  BY <1>2
<1>4. ASSUME NEW p PROVE GivenIn(b, p) = GivenIn(a, p)
  BY <1>2, <1>3 DEF GivenIn
<1> QED
  BY <1>2, <1>3, <1>4 DEF SameFor

LEMMA LastNew ==
  ASSUME NEW a \in Seq(Arguments), NEW o \in Options, NEW t \in Texts, NEW b, b = With(a, o, t)
  PROVE  HasLast(b, o) /\ GivenIn(b, o) # {} /\ \A default : LastIn(b, o, default) = t
<1>1. /\ GivenIn(b, o) = GivenIn(a, o) \cup {Len(a) + 1} /\ b \in Seq(Arguments)
      /\ b[Len(a) + 1].text = t
  BY OneMore
<1>2. \A j \in GivenIn(b, o) : j <= Len(a) + 1
  BY <1>1 DEF GivenIn
<1>3. Len(a) + 1 \in GivenIn(b, o)
  BY <1>1
<1>4. HasLast(b, o) /\ GivenIn(b, o) # {}
  BY <1>2, <1>3, Zenon DEF HasLast
<1>5. ASSUME NEW default PROVE LastIn(b, o, default) = t
  <2>1. PICK m : m = Len(a) + 1
    OBVIOUS
  <2>2. b \in Seq(Arguments) /\ m \in GivenIn(b, o) /\ \A j \in GivenIn(b, o) : j <= m
    BY <1>1, <1>2, <1>3, <2>1, Zenon
  <2>3. LastIn(b, o, default) = b[m].text
    BY <2>2, LastIs, Zenon
  <2> QED BY <1>1, <2>1, <2>3, Zenon
<1> QED BY <1>4, <1>5

LEMMA AreNew ==
  ASSUME NEW a \in Seq(Arguments), NEW o \in Options, NEW t \in Texts, NEW b, b = With(a, o, t), NEW addrs \in Seq(Addrs), AreIn(a, addrs, o)
  PROVE  AreIn(b, Append(addrs, parse_addr(t)), o)
<1> DEFINE more == Append(addrs, parse_addr(t))
           n == Len(addrs) + 1
<1>1. PICK at \in [DOMAIN addrs -> GivenIn(a, o)] :
        /\ \A i \in GivenIn(a, o) : \E k \in DOMAIN addrs : at[k] = i
        /\ \A k \in DOMAIN addrs : addrs[k] = parse_addr(a[at[k]].text)
        /\ \A k, m \in DOMAIN addrs : k < m => at[k] < at[m]
  BY DEF AreIn
<1>2. /\ DOMAIN addrs = 1 .. Len(addrs) /\ Len(addrs) \in Nat /\ DOMAIN more = 1 .. n
      /\ more[n] = parse_addr(t) /\ \A k \in DOMAIN addrs : more[k] = addrs[k]
  <2>1. parse_addr(t) \in Addrs
    BY DEF Addrs
  <2> QED
    BY <2>1, AppendProperties
<1> HIDE DEF more
<1>0. /\ GivenIn(b, o) = GivenIn(a, o) \cup {Len(a) + 1} /\ b[Len(a) + 1].text = t
      /\ \A i \in DOMAIN a : b[i] = a[i]
  BY OneMore
<1> DEFINE bt == [k \in DOMAIN more |-> IF k \in DOMAIN addrs THEN at[k] ELSE Len(a) + 1]
<1>3. bt \in [DOMAIN more -> GivenIn(b, o)]
  BY <1>0, <1>2
<1>4. (\A k \in DOMAIN addrs : bt[k] = at[k]) /\ bt[n] = Len(a) + 1
  BY <1>2
<1>5. \A i \in GivenIn(b, o) : \E k \in DOMAIN more : bt[k] = i
  <2> SUFFICES ASSUME NEW i \in GivenIn(b, o) PROVE \E k \in DOMAIN more : bt[k] = i
    OBVIOUS
  <2>1. CASE i \in GivenIn(a, o)
    <3>1. PICK k \in DOMAIN addrs : at[k] = i
      BY <1>1, <2>1
    <3> QED
      BY <1>2, <1>4, <3>1
  <2>2. CASE i = Len(a) + 1
    BY <1>2, <1>4, <2>2
  <2> QED
    BY <1>0, <2>1, <2>2
<1>6. \A k \in DOMAIN more : more[k] = parse_addr(b[bt[k]].text)
  <2> SUFFICES ASSUME NEW k \in DOMAIN more PROVE more[k] = parse_addr(b[bt[k]].text)
    OBVIOUS
  <2>1. CASE k \in DOMAIN addrs
    <3>1. at[k] \in DOMAIN a
      BY <2>1 DEF GivenIn
    <3>2. b[at[k]] = a[at[k]]
      BY <1>0, <3>1
    <3> QED
      BY <1>1, <1>2, <1>4, <2>1, <3>2
  <2>2. CASE k = n
    BY <1>0, <1>2, <1>4, <2>2
  <2> QED
    BY <1>2, <2>1, <2>2
<1>7. \A k, m \in DOMAIN more : k < m => bt[k] < bt[m]
  <2> SUFFICES ASSUME NEW k \in DOMAIN more, NEW m \in DOMAIN more, k < m PROVE bt[k] < bt[m]
    OBVIOUS
  <2>1. k \in DOMAIN addrs /\ at[k] \in 1 .. Len(a) /\ bt[k] = at[k]
    BY <1>2, <1>4 DEF GivenIn
  <2>2. CASE m \in DOMAIN addrs
    BY <1>1, <1>4, <2>1, <2>2
  <2>3. CASE m = n
    BY <1>4, <2>1, <2>3
  <2> QED
    BY <1>2, <2>2, <2>3
<1> HIDE DEF bt
<1>8. AreIn(b, more, o)
  BY <1>3, <1>5, <1>6, <1>7 DEF AreIn
<1> QED
  BY <1>8 DEF more

\* What the configuration says, as far as the command line has been read.
Said ==
  /\ config.cert_path = (GivenIn(args, "-c") # {}) /\ config.key_path = (GivenIn(args, "-k") # {})
  /\ config.num_workers = LastIn(args, "-t", [value |-> DefaultWorkers]).value
  /\ config.log_level = LastIn(args, "-log", [level |-> "off"]).level
  /\ config.secret_key_path = LastIn(args, "-S", [form |-> "default"])
  /\ config.syslog_target = parse_syslog_target(LastIn(args, "--syslog", NoText))
FlagsSaid == \A f \in Flags \ {"-s"} : f \in config.flags <=> \E i \in DOMAIN args : args[i].opt = f

ConfigInv ==
  pc # "exited" =>
    /\ Said /\ FlagsSaid
    /\ \A opt \in ValueOptions : HasLast(args, opt)
    /\ AreIn(args, tcp_addrs, "-l")
    /\ pc = "parse" => AreIn(args, tls_addrs, "-L")
    /\ pc # "parse" /\ GivenIn(args, "-L") # {} => AreIn(args, tls_addrs, "-L")

LEMMA InitConfig == Init => ConfigInv
<1> SUFFICES ASSUME Init PROVE ConfigInv
  OBVIOUS
<1>1. \A opt : GivenIn(args, opt) = {}
  BY DEF Init, GivenIn
<1>2. \A opt, default : LastIn(args, opt, default) = default
  BY <1>1 DEF LastIn
<1>3. Said /\ FlagsSaid
  <2>1. /\ config.cert_path = FALSE /\ config.key_path = FALSE /\ config.num_workers = DefaultWorkers
        /\ config.log_level = "off" /\ config.secret_key_path = [form |-> "default"]
        /\ config.syslog_target = NoAddr
    BY DEF Init, DefaultConfig
  <2>2. Said
    <3>1. LastIn(args, "-t", [value |-> DefaultWorkers]).value = DefaultWorkers
      BY <1>2
    <3>2. LastIn(args, "-log", [level |-> "off"]).level = "off"
      BY <1>2
    <3>3. LastIn(args, "-S", [form |-> "default"]) = [form |-> "default"]
      BY <1>2
    <3>4. parse_syslog_target(LastIn(args, "--syslog", NoText)) = NoAddr
      BY <1>2 DEF parse_syslog_target, NoText
    <3> QED
      BY <1>1, <2>1, <3>1, <3>2, <3>3, <3>4 DEF Said
  <2>3. DOMAIN args = {} /\ config.flags = {}
    BY DEF Init, DefaultConfig
  <2>4. FlagsSaid
    BY <2>3, Zenon DEF FlagsSaid
  <2> QED
    BY <2>2, <2>4
<1>4. AreIn(<<>>, <<>>, "-l") /\ AreIn(<<>>, <<>>, "-L")
  <2> DEFINE none == [k \in {} |-> 0]
  <2>1. DOMAIN <<>> = {}
    OBVIOUS
  <2>2. \A opt : GivenIn(<<>>, opt) = {}
    BY <2>1 DEF GivenIn
  <2>3. none \in [{} -> {}]
    OBVIOUS
  <2> QED
    BY <2>1, <2>2, <2>3 DEF AreIn
<1> QED
  BY <1>1, <1>3, <1>4 DEF Init, ConfigInv, HasLast

\* The command line grows by an option that is none of the others.
LEMMA OthersSame ==
  ASSUME StartupInv, ConfigInv, pc = "parse", args' \in Seq(Arguments),
         NEW opt \in ValueOptions, SameFor(args, args', opt)
  PROVE  /\ HasLast(args', opt) /\ \A default : LastIn(args', opt, default) = LastIn(args, opt, default)
         /\ (GivenIn(args', opt) # {}) = (GivenIn(args, opt) # {})
         /\ opt = "-l" => AreIn(args', tcp_addrs, "-l")
         /\ opt = "-L" => AreIn(args', tls_addrs, "-L")
<1>1. args \in Seq(Arguments) /\ HasLast(args, opt) /\ tcp_addrs \in Seq(Addrs) /\ tls_addrs \in Seq(Addrs)
  BY DEF StartupInv, TypeInv, ConfigInv
<1>2. HasLast(args', opt) /\ \A default : LastIn(args', opt, default) = LastIn(args, opt, default)
  BY <1>1, LastSame
<1>3. AreIn(args, tcp_addrs, "-l") /\ AreIn(args, tls_addrs, "-L")
  BY DEF ConfigInv
<1>4. /\ opt = "-l" => AreIn(args', tcp_addrs, "-l")
      /\ opt = "-L" => AreIn(args', tls_addrs, "-L")
  BY <1>1, <1>3, AreSame
<1> QED
  BY <1>2, <1>4 DEF SameFor

LEMMA ParseValueConfig ==
  ASSUME StartupInv, ConfigInv, NEW opt \in ValueOptions, NEW t \in Texts, ParseValue(opt, t)
  PROVE  ConfigInv'
<1>1. CASE Malformed(opt, t)
  BY <1>1 DEF ParseValue, Exit, ConfigInv
<1>2. CASE ~Malformed(opt, t)
  <2>1. /\ pc = "parse" /\ pc' = "parse" /\ args' = With(args, opt, t) /\ config' = ConfigWith(opt, t)
        /\ tcp_addrs' = IF opt = "-l" THEN Append(tcp_addrs, parse_addr(t)) ELSE tcp_addrs
        /\ tls_addrs' = IF opt = "-L" THEN Append(tls_addrs, parse_addr(t)) ELSE tls_addrs
    BY <1>2 DEF ParseValue, AtOption, With
  <2>2. /\ args \in Seq(Arguments) /\ opt \in Options /\ tcp_addrs \in Seq(Addrs) /\ tls_addrs \in Seq(Addrs)
        /\ config \in Configs
    BY DEF StartupInv, TypeInv, Options
  <2>3. args' \in Seq(Arguments) /\ \A p : p # opt => SameFor(args, args', p)
    BY <2>1, <2>2, OneMore
  <2>4. HasLast(args', opt) /\ GivenIn(args', opt) # {} /\ \A default : LastIn(args', opt, default) = t
    BY <2>1, <2>2, LastNew
  <2>5. ASSUME NEW p \in ValueOptions, p # opt
        PROVE  /\ HasLast(args', p) /\ \A default : LastIn(args', p, default) = LastIn(args, p, default)
               /\ (GivenIn(args', p) # {}) = (GivenIn(args, p) # {})
               /\ p = "-l" => AreIn(args', tcp_addrs, "-l")
               /\ p = "-L" => AreIn(args', tls_addrs, "-L")
    BY <2>1, <2>3, <2>5, OthersSame
  <2>6. \A p \in ValueOptions : HasLast(args', p)
    BY <2>4, <2>5
  <2>7. AreIn(args', tcp_addrs', "-l")
    <3>1. CASE opt = "-l"
      BY <2>1, <2>2, <3>1, AreNew DEF ConfigInv
    <3>2. CASE opt # "-l"
      BY <2>1, <2>5, <3>2 DEF ValueOptions, AddrOptions
    <3> QED
      BY <3>1, <3>2
  <2>8. AreIn(args', tls_addrs', "-L")
    <3>1. CASE opt = "-L"
      BY <2>1, <2>2, <3>1, AreNew DEF ConfigInv
    <3>2. CASE opt # "-L"
      BY <2>1, <2>5, <3>2 DEF ValueOptions, AddrOptions
    <3> QED
      BY <3>1, <3>2
  <2>9. Said'
    <3>1. /\ config'.cert_path = (opt = "-c" \/ config.cert_path)
          /\ config'.key_path = (opt = "-k" \/ config.key_path)
          /\ config'.num_workers = IF opt = "-t" THEN t.value ELSE config.num_workers
          /\ config'.log_level = IF opt = "-log" THEN t.level ELSE config.log_level
          /\ config'.secret_key_path = IF opt = "-S" THEN t ELSE config.secret_key_path
          /\ config'.syslog_target = IF opt = "--syslog" THEN parse_syslog_target(t) ELSE config.syslog_target
      <4> USE <2>1, <2>2 DEF ConfigWith, Configs
      <4>1. CASE opt = "-c"
        BY <4>1
      <4>2. CASE opt = "-k"
        BY <4>2
      <4>3. CASE opt = "-S"
        BY <4>3
      <4>4. CASE opt = "-t"
        BY <4>4
      <4>5. CASE opt = "-log"
        BY <4>5
      <4>6. CASE opt = "--syslog"
        BY <4>6
      <4>7. CASE opt \in AddrOptions
        BY <4>7 DEF AddrOptions
      <4> QED
        BY <4>1, <4>2, <4>3, <4>4, <4>5, <4>6, <4>7 DEF ValueOptions, FileOptions
    <3>2. Said
      BY <2>1 DEF ConfigInv
    <3>3. "-c" \in ValueOptions /\ "-k" \in ValueOptions /\ "-t" \in ValueOptions /\ "-log" \in ValueOptions
          /\ "-S" \in ValueOptions /\ "--syslog" \in ValueOptions
      BY DEF ValueOptions, FileOptions
    <3>4. config'.cert_path = (GivenIn(args', "-c") # {})
      BY <2>4, <2>5, <3>1, <3>2, <3>3 DEF Said
    <3>5. config'.key_path = (GivenIn(args', "-k") # {})
      BY <2>4, <2>5, <3>1, <3>2, <3>3 DEF Said
    <3>6. config'.num_workers = LastIn(args', "-t", [value |-> DefaultWorkers]).value
      BY <2>4, <2>5, <3>1, <3>2, <3>3 DEF Said
    <3>7. config'.log_level = LastIn(args', "-log", [level |-> "off"]).level
      BY <2>4, <2>5, <3>1, <3>2, <3>3 DEF Said
    <3>8. config'.secret_key_path = LastIn(args', "-S", [form |-> "default"])
      BY <2>4, <2>5, <3>1, <3>2, <3>3 DEF Said
    <3>9. config'.syslog_target = parse_syslog_target(LastIn(args', "--syslog", NoText))
      BY <2>4, <2>5, <3>1, <3>2, <3>3 DEF Said
    <3> QED
      BY <3>4, <3>5, <3>6, <3>7, <3>8, <3>9 DEF Said
  <2>10. FlagsSaid'
    <3>1. config'.flags = config.flags
      BY <2>1, <2>2 DEF ConfigWith, Configs
    <3>2. /\ DOMAIN args' = DOMAIN args \cup {Len(args) + 1} /\ args'[Len(args) + 1].opt = opt
          /\ \A i \in DOMAIN args : args'[i] = args[i]
      BY <2>1, <2>2, AppendProperties DEF With
    <3>3. opt \notin Flags
      BY DEF ValueOptions, AddrOptions, FileOptions, Flags
    <3> QED
      BY <2>1, <3>1, <3>2, <3>3 DEF ConfigInv, FlagsSaid
  <2> QED
    BY <2>1, <2>6, <2>7, <2>8, <2>9, <2>10 DEF ConfigInv
<1> QED
  BY <1>1, <1>2

\* An option without a value says nothing but itself.
LEMMA BareSame ==
  ASSUME StartupInv, ConfigInv, pc = "parse", NEW opt \in Options, args' = With(args, opt, NoText),
         \A part \in {"cert_path", "key_path", "num_workers", "log_level", "secret_key_path", "syslog_target"} :
           config'[part] = config[part]
  PROVE  /\ Said' /\ \A p \in ValueOptions : HasLast(args', p)
         /\ AreIn(args', tcp_addrs, "-l") /\ AreIn(args', tls_addrs, "-L")
         /\ \A p : GivenIn(args', p) = GivenIn(args, p)
<1>1. args \in Seq(Arguments)
  BY DEF StartupInv, TypeInv
<1>2. args' \in Seq(Arguments) /\ \A p : SameFor(args, args', p)
  BY <1>1, OneBare
<1>3. \A p : GivenIn(args', p) = GivenIn(args, p)
  BY <1>2 DEF SameFor
<1>4. \A p \in ValueOptions : HasLast(args', p) /\ \A default : LastIn(args', p, default) = LastIn(args, p, default)
  BY <1>2, OthersSame
<1>5. "-c" \in ValueOptions /\ "-k" \in ValueOptions /\ "-t" \in ValueOptions /\ "-log" \in ValueOptions
      /\ "-S" \in ValueOptions /\ "--syslog" \in ValueOptions /\ "-l" \in ValueOptions /\ "-L" \in ValueOptions
  BY DEF ValueOptions, FileOptions, AddrOptions
<1>6. AreIn(args', tcp_addrs, "-l") /\ AreIn(args', tls_addrs, "-L")
  BY <1>2, <1>5, OthersSame
<1>7. Said'
  BY <1>3, <1>4, <1>5 DEF Said, ConfigInv
<1> QED
  BY <1>3, <1>4, <1>6, <1>7

LEMMA ParseFlagConfig ==
  ASSUME StartupInv, ConfigInv, NEW opt \in Flags, ParseFlag(opt)
  PROVE  ConfigInv'
<1>1. pc = "parse" /\ pc' = "parse" /\ args' = With(args, opt, NoText) /\ UNCHANGED <<tcp_addrs, tls_addrs>>
  BY DEF ParseFlag, AtOption, With
<1>2. /\ \A part \in {"cert_path", "key_path", "num_workers", "log_level", "secret_key_path", "syslog_target"} :
           config'[part] = config[part]
      /\ \A f \in Flags \ {"-s"} : f \in config'.flags <=> (f \in config.flags \/ opt = f)
  BY DEF ParseFlag, StartupInv, TypeInv, Configs
<1>3. FlagsSaid'
  <2>1. opt \in Options /\ args \in Seq(Arguments)
    BY DEF Options, StartupInv, TypeInv
  <2>2. /\ DOMAIN args' = DOMAIN args \cup {Len(args) + 1} /\ args'[Len(args) + 1].opt = opt
        /\ \A i \in DOMAIN args : args'[i] = args[i]
    BY <1>1, <2>1, AppendProperties DEF With
  <2> QED
    BY <1>1, <1>2, <2>2 DEF ConfigInv, FlagsSaid
<1> QED
  BY <1>1, <1>2, <1>3, BareSame DEF ConfigInv, Options

LEMMA ParseEndConfig ==
  ASSUME StartupInv, ConfigInv, NEW last \in ValueOptions \cup {"none"}, ParseEnd(last)
  PROVE  ConfigInv'
<1>1. pc = "parse" /\ pc' = "logger" /\ UNCHANGED <<config, tcp_addrs>> /\ (tls_addrs # <<>> => tls_addrs' = tls_addrs)
  BY DEF ParseEnd
<1>2. tls_addrs = <<>> => GivenIn(args, "-L") = {}
  BY <1>1 DEF ConfigInv, AreIn
<1>3. CASE last \in ValueOptions
  <2>1. args' = With(args, last, NoText) /\ last \in Options
    BY <1>3 DEF ParseEnd, With, Options
  <2>2. FlagsSaid'
    <3>1. args \in Seq(Arguments)
      BY DEF StartupInv, TypeInv
    <3>2. /\ DOMAIN args' = DOMAIN args \cup {Len(args) + 1} /\ args'[Len(args) + 1].opt = last
          /\ \A i \in DOMAIN args : args'[i] = args[i]
      BY <2>1, <3>1, AppendProperties DEF With
    <3>3. last \notin Flags
      BY <1>3 DEF ValueOptions, AddrOptions, FileOptions, Flags
    <3>4. FlagsSaid /\ config' = config
      BY <1>1 DEF ConfigInv
    <3> QED
      BY <3>2, <3>3, <3>4, Zenon DEF FlagsSaid
  <2> QED
    BY <1>1, <1>2, <2>1, <2>2, BareSame DEF ConfigInv
<1>4. CASE last \notin ValueOptions
  BY <1>1, <1>2, <1>4 DEF ParseEnd, ConfigInv, Said, FlagsSaid
<1> QED
  BY <1>3, <1>4

LEMMA NextConfig == StartupInv /\ ConfigInv /\ [Next]_vars => ConfigInv'
<1> SUFFICES ASSUME StartupInv, ConfigInv, [Next]_vars PROVE ConfigInv'
  OBVIOUS
<1>1. ASSUME NEW opt \in ValueOptions, NEW t \in TextsOf(opt), ParseValue(opt, t) PROVE ConfigInv'
  BY <1>1, ParseValueConfig DEF TextsOf
<1>2. ASSUME NEW opt \in Flags, ParseFlag(opt) PROVE ConfigInv'
  BY <1>2, ParseFlagConfig
<1>3. ASSUME NEW last \in ValueOptions \cup {"none"}, ParseEnd(last) PROVE ConfigInv'
  BY <1>3, ParseEndConfig
<1>4. ASSUME UNCHANGED asked, pc' # "parse", pc \notin {"parse", "exited"} PROVE ConfigInv'
  BY <1>4 DEF asked, ConfigInv, Said, FlagsSaid
<1>5. ASSUME NEW code \in {"success", "failure"}, ParseLast(code) PROVE ConfigInv'
  BY <1>5 DEF ParseLast, Exit, ConfigInv
<1>6. ASSUME NEW ok \in BOOLEAN, OpenSink(ok) \/ BindTcp(ok) \/ BindTls(ok) \/ EnterRun(ok) PROVE ConfigInv'
  BY <1>4, <1>6 DEF OpenSink, BindTcp, BindTls, EnterRun, GoOn, Exit
<1>7. ASSUME NEW found \in BOOLEAN, NEW content \in SeqOf(Lines, LineBound), ReadKeys(found, content)
      PROVE  ConfigInv'
  BY <1>4, <1>7 DEF ReadKeys, Exit
<1>8. ASSUME NEW cert \in CertFiles, NEW key \in KeyFiles, BuildTls(cert, key) PROVE ConfigInv'
  BY <1>4, <1>8 DEF BuildTls
<1>9. ASSUME NEW n \in 0 .. config.num_workers, SpawnWorkers(n) PROVE ConfigInv'
  BY <1>4, <1>9 DEF SpawnWorkers, Exit
<1>10. CASE InitLogger \/ Announce \/ FirstConnection
  BY <1>4, <1>10 DEF InitLogger, Announce, FirstConnection, Exit
<1>11. CASE Finished \/ UNCHANGED vars
  BY <1>11 DEF Finished, vars, asked, ConfigInv, Said, FlagsSaid
<1> QED
  BY <1>1, <1>2, <1>3, <1>5, <1>6, <1>7, <1>8, <1>9, <1>10, <1>11 DEF Next

\* parse_cli, for every command line: the configuration is what all of it
\* says, in whatever order its options come.
THEOREM ConfigIsAsked == Spec => []ConfigAsAsked
<1>1. ConfigInv => ConfigAsAsked
  BY DEF ConfigInv, Said, FlagsSaid, ConfigAsAsked, DefaultConfig, Given, GivenIn, LastGiven, LastIn, AreGiven,
     AreIn
<1> QED
  BY <1>1, InitConfig, NextConfig, Inductive, PTL DEF Spec
=============================================================================
