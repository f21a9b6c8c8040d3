------------------------------- MODULE Startup -------------------------------
(***************************************************************************)
(* The start of the process, from the command line to the accept loop      *)
(* (src/main.rs, src/config/parser.rs, src/tls.rs and Server::new in       *)
(* src/server/mod.rs): the options one after the other, the logger, the    *)
(* event sink, the secret keys, the TLS configuration, the listeners, the  *)
(* worker threads, the startup event, and the first connection.            *)
(*                                                                         *)
(* What the operating system answers (files, sockets, threads) is chosen   *)
(* where the code asks for it.                                             *)
(***************************************************************************)
EXTENDS Naturals, Sequences, SequencesExt

CONSTANTS
  Texts,             \* argument texts: [form, ...], see parse_addr
  Lines,             \* lines of a secret key file: [comment, key, label]
  MaxPort,           \* 65535 in the code
  MinLine,           \* shortest line of a key file that counts (5 in the code)
  DEFAULT_TLS_PORT,  \* 443 in the code
  DefaultWorkers,    \* 200 in the code
  V6Only,            \* net.ipv6.bindv6only of the host
  OptionBound,       \* bound: options on the command line
  LineBound          \* bound: lines of a key file

ASSUME StartupAssumption ==
  /\ MaxPort \in Nat /\ MinLine \in Nat \ {0} /\ DEFAULT_TLS_PORT \in 1 .. MaxPort
  /\ DefaultWorkers \in Nat \ {0} /\ V6Only \in BOOLEAN
  /\ OptionBound \in Nat /\ LineBound \in Nat
\* A line is trimmed before it is looked at: without a key it has no label.
ASSUME LinesAssumption ==
  \A line \in Lines : line.key \in Nat /\ line.label \in Nat /\ (line.key = 0 => line.label = 0)
\* Of the texts only numbers have a value, and it is a natural number.
ASSUME TextsAssumption ==
  \A t \in Texts : t # [form |-> "none"] /\ (t.form = "number" => t.value \in Nat)

VARIABLES
  pc,             \* the step of run()
  args,           \* the options parsed so far: [opt, text]
  config,         \* Config
  tcp_addrs, tls_addrs,
  logger,         \* the logger has been initialised
  sink,           \* there is an event sink
  keys,           \* the secret keys
  tls_cfg,        \* there is a TLS configuration
  tcp_listeners, tls_listeners,
  workers,        \* worker threads spawned
  announced,      \* what the startup event says, or <<>>
  exit,           \* how the process ended, or "none"
  \* History variables.
  reported,       \* the failure was reported to the user
  foreign         \* a bind failed for a reason outside the process

asked == <<args, config, tcp_addrs, tls_addrs>>
loaded == <<logger, sink, keys, tls_cfg>>
listeners == <<tcp_listeners, tls_listeners, foreign>>
started == <<workers, announced>>
ending == <<exit, reported>>
vars == <<pc, asked, loaded, listeners, started, ending>>

-----------------------------------------------------------------------------
(* The command line. *)

Addr(v6, host, port) == [v6 |-> v6, host |-> host, port |-> port]
NoAddr == Addr(FALSE, "none", 0)
NoText == [form |-> "none"]

\* A text is a number, an address with or without port, a log level, or a
\* word, which is none of these.  A bare port stands for 0.0.0.0.
parse_addr(t) ==
  CASE t.form = "addr"                          -> t.addr
    [] t.form = "number" /\ t.value <= MaxPort  -> Addr(FALSE, "any", t.value)
    [] OTHER                                    -> NoAddr

parse_syslog_target(t) ==
  CASE t.form = "addr" -> t.addr
    [] t.form = "ip"   -> [t.addr EXCEPT !.port = 514]
    [] OTHER           -> NoAddr

DefaultConfig ==
  [cert_path |-> FALSE, key_path |-> FALSE, secret_key_path |-> [form |-> "default"],
   num_workers |-> DefaultWorkers, log_level |-> "off", syslog_target |-> NoAddr, flags |-> {}]

Flags == {"--tls13-only", "--hsts", "-s", "--no-token-check", "--v2-only", "--log-full-ip"}
AddrOptions == {"-l", "-L"}
FileOptions == {"-c", "-k", "-S"}
ValueOptions == AddrOptions \cup FileOptions \cup {"-t", "-log", "--syslog"}

check_token == "--no-token-check" \notin config.flags

Init ==
  /\ pc = "parse" /\ args = <<>> /\ config = DefaultConfig
  /\ tcp_addrs = <<>> /\ tls_addrs = <<>>
  /\ logger = FALSE /\ sink = FALSE /\ keys = <<>> /\ tls_cfg = FALSE
  /\ tcp_listeners = <<>> /\ tls_listeners = <<>> /\ workers = 0 /\ announced = <<>>
  /\ exit = "none" /\ reported = FALSE /\ foreign = FALSE

\* The process ends; how: "stderr", "log" (nothing without a logger) or "quiet".
Exit(code, how) ==
  /\ pc' = "exited" /\ exit' = code
  /\ reported' = (how = "stderr" \/ (how = "log" /\ logger))

Running == UNCHANGED ending

AtOption == pc = "parse" /\ Len(args) < OptionBound

\* An option whose text cannot be parsed.
Malformed(opt, t) ==
  \/ opt \in AddrOptions /\ parse_addr(t) = NoAddr
  \/ opt = "--syslog" /\ parse_syslog_target(t) = NoAddr
  \/ opt = "-t" /\ t.form # "number"
  \/ opt = "-log" /\ t.form # "level"

\* Mutant: -k is taken for -c.
ConfigWithSwapped(opt, t) ==
  CASE opt \in {"-c", "-k"} -> [config EXCEPT !.cert_path = TRUE]
    [] opt = "-S"       -> [config EXCEPT !.secret_key_path = t]
    [] opt = "-t"       -> [config EXCEPT !.num_workers = t.value]
    [] opt = "-log"     -> [config EXCEPT !.log_level = t.level]
    [] opt = "--syslog" -> [config EXCEPT !.syslog_target = parse_syslog_target(t)]
    [] OTHER            -> config

ConfigWith(opt, t) ==
  CASE opt = "-c"       -> [config EXCEPT !.cert_path = TRUE]
    [] opt = "-k"       -> [config EXCEPT !.key_path = TRUE]
    [] opt = "-S"       -> [config EXCEPT !.secret_key_path = t]
    [] opt = "-t"       -> [config EXCEPT !.num_workers = t.value]
    [] opt = "-log"     -> [config EXCEPT !.log_level = t.level]
    [] opt = "--syslog" -> [config EXCEPT !.syslog_target = parse_syslog_target(t)]
    [] OTHER            -> config

\* parse_cli: an option and its value, whatever that looks like.
ParseValue(opt, t) ==
  /\ AtOption
  /\ args' = Append(args, [opt |-> opt, text |-> t])
  /\ IF Malformed(opt, t)
     THEN Exit("failure", "stderr") /\ UNCHANGED <<config, tcp_addrs, tls_addrs>>
     ELSE /\ config' = ConfigWith(opt, t)
          /\ tcp_addrs' = IF opt = "-l" THEN Append(tcp_addrs, parse_addr(t)) ELSE tcp_addrs
          /\ tls_addrs' = IF opt = "-L" THEN Append(tls_addrs, parse_addr(t)) ELSE tls_addrs
          /\ pc' = pc /\ Running
  /\ UNCHANGED <<loaded, listeners, started>>

ParseFlag(opt) ==
  /\ AtOption
  /\ args' = Append(args, [opt |-> opt, text |-> NoText])
  /\ config' = IF opt = "-s" THEN config ELSE [config EXCEPT !.flags = @ \cup {opt}]
  /\ UNCHANGED <<pc, tcp_addrs, tls_addrs, loaded, listeners, started, ending>>

\* --help and --version end the process, and so does an option that is unknown.
ParseLast(code) ==
  /\ AtOption
  /\ Exit(code, "stderr")
  /\ UNCHANGED <<asked, loaded, listeners, started>>

\* Mutant: there is no default address.
ParseEndBare(last) ==
  /\ pc = "parse" /\ pc' = "logger"
  /\ last \in ValueOptions => Len(args) < OptionBound
  /\ args' = IF last \in ValueOptions THEN Append(args, [opt |-> last, text |-> NoText]) ELSE args
  /\ UNCHANGED <<config, tcp_addrs, tls_addrs, loaded, listeners, started, ending>>

\* The end of the options; a last one without its value is ignored.  Without
\* -L there are two TLS addresses.
ParseEnd(last) ==
  /\ pc = "parse" /\ pc' = "logger"
  /\ last \in ValueOptions => Len(args) < OptionBound
  /\ args' = IF last \in ValueOptions THEN Append(args, [opt |-> last, text |-> NoText]) ELSE args
  /\ tls_addrs' = IF tls_addrs # <<>> THEN tls_addrs
                  ELSE <<Addr(TRUE, "any", DEFAULT_TLS_PORT), Addr(FALSE, "any", DEFAULT_TLS_PORT)>>
  /\ UNCHANGED <<config, tcp_addrs, loaded, listeners, started, ending>>

-----------------------------------------------------------------------------
(* run() and Server::new. *)

InitLogger ==
  /\ pc = "logger" /\ pc' = "sink" /\ Running
  /\ logger' = (config.log_level # "off")
  /\ UNCHANGED <<sink, keys, tls_cfg, asked, listeners, started>>

\* EventSink::new: a UDP socket is bound and connected.
OpenSink(ok) ==
  /\ pc = "sink"
  /\ IF config.syslog_target = NoAddr THEN pc' = "keys" /\ sink' = FALSE /\ Running
     ELSE IF ok THEN pc' = "keys" /\ sink' = TRUE /\ Running
     ELSE Exit("failure", "log") /\ UNCHANGED sink
  /\ UNCHANGED <<logger, keys, tls_cfg, asked, listeners, started>>

LineLen(line) == line.key + (IF line.label > 0 THEN 1 + line.label ELSE 0)

\* The lines of the file that hold a key, by line number.
SecretKeys(content) ==
  [i \in {j \in DOMAIN content : ~(LineLen(content[j]) < MinLine) /\ ~content[j].comment} |-> content[i]]

\* Mutant: a file without keys is good enough.
ReadKeysLax(found, content) ==
  /\ pc = "keys"
  /\ IF found \/ ~check_token
     THEN pc' = "tls" /\ keys' = (IF found THEN SecretKeys(content) ELSE <<>>) /\ Running
     ELSE Exit("failure", "log") /\ UNCHANGED keys
  /\ UNCHANGED <<logger, sink, tls_cfg, asked, listeners, started>>

\* Mutant: the error is passed on and not logged.
ReadKeysQuiet(found, content) ==
  /\ pc = "keys"
  /\ LET ok == found /\ SecretKeys(content) # <<>>
     IN  IF ok \/ ~check_token
         THEN pc' = "tls" /\ keys' = (IF ok THEN SecretKeys(content) ELSE <<>>) /\ Running
         ELSE Exit("failure", "quiet") /\ UNCHANGED keys
  /\ UNCHANGED <<logger, sink, tls_cfg, asked, listeners, started>>

\* read_secret_keys: a file that cannot be read or holds no key is an error,
\* which only --no-token-check forgives.
ReadKeys(found, content) ==
  /\ pc = "keys"
  /\ LET ok == found /\ SecretKeys(content) # <<>>
     IN  IF ok \/ ~check_token
         THEN pc' = "tls" /\ keys' = (IF ok THEN SecretKeys(content) ELSE <<>>) /\ Running
         ELSE Exit("failure", "log") /\ UNCHANGED keys
  /\ UNCHANGED <<logger, sink, tls_cfg, asked, listeners, started>>

\* External: what is in the two PEM files.
CertFiles == {"missing", "malformed", "empty", "chain"}
KeyFiles == {"missing", "malformed", "empty", "pkcs8", "rsa", "of_other_cert"}

build_tls_config(cert, key) == cert = "chain" /\ key \in {"pkcs8", "rsa"}

\* Without both files, and if they cannot be used, TLS is disabled.
BuildTls(cert, key) ==
  /\ pc = "tls" /\ pc' = "bind_tcp" /\ Running
  /\ tls_cfg' = (config.cert_path /\ config.key_path /\ build_tls_config(cert, key))
  /\ UNCHANGED <<logger, sink, keys, asked, listeners, started>>

\* External: two listening sockets the kernel does not allow at once.  A socket
\* on [::] takes the port of IPv4 too, unless it is for IPv6 only.
Conflict(a, b) ==
  /\ a.port = b.port /\ a.port # 0
  /\ IF a.v6 = b.v6 THEN a.host = b.host \/ "any" \in {a.host, b.host}
                    ELSE ~V6Only /\ \E x \in {a, b} : x.v6 /\ x.host = "any"

Free(a) == \A b \in ToSet(tcp_listeners) \cup ToSet(tls_listeners) : ~Conflict(a, b)

\* bind_listener on the next of addrs; ok: nothing outside the process stands
\* against it.  What is bound then, and whether the process goes on.
Bound(addrs, bound, ok) ==
  LET a == addrs[Len(bound) + 1] IN IF ok /\ Free(a) THEN Append(bound, a) ELSE bound
GoOn(addrs, bound, ok) ==
  /\ foreign' = ~ok
  /\ IF Bound(addrs, bound, ok) # bound THEN pc' = pc /\ Running ELSE Exit("failure", "log")

BindTcp(ok) ==
  /\ pc = "bind_tcp"
  /\ IF Len(tcp_listeners) < Len(tcp_addrs)
     THEN /\ tcp_listeners' = Bound(tcp_addrs, tcp_listeners, ok)
          /\ GoOn(tcp_addrs, tcp_listeners, ok)
     ELSE pc' = "bind_tls" /\ Running /\ UNCHANGED <<tcp_listeners, foreign>>
  /\ UNCHANGED <<tls_listeners, asked, loaded, started>>

\* Mutant: a bind that fails ends the binding, not the process.
BindTlsLax(ok) ==
  /\ pc = "bind_tls"
  /\ IF tls_cfg /\ Len(tls_listeners) < Len(tls_addrs)
     THEN /\ tls_listeners' = Bound(tls_addrs, tls_listeners, ok)
          /\ pc' = IF tls_listeners' = tls_listeners THEN "spawn" ELSE pc
     ELSE pc' = "spawn" /\ UNCHANGED tls_listeners
  /\ UNCHANGED <<foreign, tcp_listeners, asked, loaded, started, ending>>

BindTls(ok) ==
  /\ pc = "bind_tls"
  /\ IF tls_cfg /\ Len(tls_listeners) < Len(tls_addrs)
     THEN /\ tls_listeners' = Bound(tls_addrs, tls_listeners, ok)
          /\ GoOn(tls_addrs, tls_listeners, ok)
     ELSE pc' = "spawn" /\ Running /\ UNCHANGED <<tls_listeners, foreign>>
  /\ UNCHANGED <<tcp_listeners, asked, loaded, started>>

\* A thread that cannot be spawned is a panic, which is printed.
SpawnWorkers(n) ==
  /\ pc = "spawn" /\ n <= config.num_workers
  /\ workers' = n
  /\ IF n < config.num_workers THEN Exit("panic", "stderr") ELSE pc' = "announce" /\ Running
  /\ UNCHANGED <<announced, asked, loaded, listeners>>

\* Mutant: the addresses are counted, not the listeners.
AnnounceAddrs ==
  /\ pc = "announce" /\ pc' = "run" /\ Running
  /\ announced' = IF sink THEN <<config.num_workers, Len(tcp_addrs), Len(tls_addrs)>>
                  ELSE <<>>
  /\ UNCHANGED <<workers, asked, loaded, listeners>>

Announce ==
  /\ pc = "announce" /\ pc' = "run" /\ Running
  /\ announced' = IF sink THEN <<config.num_workers, Len(tcp_listeners), Len(tls_listeners)>>
                  ELSE <<>>
  /\ UNCHANGED <<workers, asked, loaded, listeners>>

\* Server::run up to its loop; ok: the poll could be set up.
EnterRun(ok) ==
  /\ pc = "run"
  /\ IF ok /\ tcp_listeners \o tls_listeners # <<>> THEN pc' = "serving" /\ Running
                                                     ELSE Exit("failure", "log")
  /\ UNCHANGED <<asked, loaded, listeners, started>>

\* The first connection is dispatched: its worker is 0 % senders.len().
FirstConnection ==
  /\ pc = "serving"
  /\ IF workers = 0 THEN Exit("panic", "stderr") ELSE pc' = "served" /\ Running
  /\ UNCHANGED <<asked, loaded, listeners, started>>

Finished == pc \in {"served", "exited"} /\ UNCHANGED vars

-----------------------------------------------------------------------------
TextsOf(opt) == IF opt \in FileOptions THEN {t \in Texts : t.form = "word"} ELSE Texts

Next ==
  \/ \E opt \in ValueOptions : \E t \in TextsOf(opt) : ParseValue(opt, t)
  \/ \E opt \in Flags : ParseFlag(opt)
  \/ \E code \in {"success", "failure"} : ParseLast(code)
  \/ \E last \in ValueOptions \cup {"none"} : ParseEnd(last)
  \/ InitLogger
  \/ \E ok \in BOOLEAN : OpenSink(ok)
  \/ \E found \in BOOLEAN, content \in SeqOf(Lines, LineBound) : ReadKeys(found, content)
  \/ \E cert \in CertFiles, key \in KeyFiles : BuildTls(cert, key)
  \/ \E ok \in BOOLEAN : BindTcp(ok)
  \/ \E ok \in BOOLEAN : BindTls(ok)
  \/ \E n \in 0 .. config.num_workers : SpawnWorkers(n)
  \/ Announce
  \/ \E ok \in BOOLEAN : EnterRun(ok)
  \/ FirstConnection
  \/ Finished

Spec == Init /\ [][Next]_vars

-----------------------------------------------------------------------------
(* Properties. *)

\* Every variable has its type; TLS always has an address to listen on, and
\* nothing is bound that was not asked for.
TypeOK ==
  /\ pc \in {"parse", "logger", "sink", "keys", "tls", "bind_tcp", "bind_tls", "spawn",
             "announce", "run", "serving", "served", "exited"}
  /\ exit \in {"none", "success", "failure", "panic"} /\ reported \in BOOLEAN /\ foreign \in BOOLEAN
  /\ pc \notin {"parse", "exited"} => tls_addrs # <<>>
  /\ IsPrefix(tcp_listeners, tcp_addrs) /\ IsPrefix(tls_listeners, tls_addrs)
  /\ workers \in 0 .. config.num_workers

\* Where on the command line an option has a value, and the last such value.
Given(opt) == {i \in DOMAIN args : args[i].opt = opt /\ args[i].text # NoText}
LastGiven(opt, default) ==
  IF Given(opt) = {} THEN default
  ELSE args[CHOOSE i \in Given(opt) : \A j \in Given(opt) : j <= i].text

\* addrs are the values of an option, all of them and in their order.
AreGiven(addrs, opt) ==
  \E at \in [DOMAIN addrs -> Given(opt)] :
    /\ \A i \in Given(opt) : \E k \in DOMAIN addrs : at[k] = i
    /\ \A k \in DOMAIN addrs : addrs[k] = parse_addr(args[at[k]].text)
    /\ \A k, m \in DOMAIN addrs : k < m => at[k] < at[m]

\* The configuration is what the whole command line says, in whatever order:
\* addresses add up, a flag counts wherever it stands (-s is only accepted), of
\* every other option the last one counts, and one without its value is as if
\* it were not there.  Of -c and -k only whether they are given is told apart.
ConfigAsAsked ==
  pc \notin {"parse", "exited"} =>
    /\ config.cert_path = (Given("-c") # {}) /\ config.key_path = (Given("-k") # {})
    /\ config.num_workers = LastGiven("-t", [value |-> DefaultWorkers]).value
    /\ config.log_level = LastGiven("-log", [level |-> "off"]).level
    /\ config.secret_key_path = LastGiven("-S", DefaultConfig.secret_key_path)
    /\ config.syslog_target = parse_syslog_target(LastGiven("--syslog", NoText))
    /\ \A f \in Flags \ {"-s"} : f \in config.flags <=> \E i \in DOMAIN args : args[i].opt = f
    /\ AreGiven(tcp_addrs, "-l")
    /\ Given("-L") # {} => AreGiven(tls_addrs, "-L")

\* A server that takes connections and checks tokens has a key to check them
\* with, and never an empty one, whatever is in the key file.
KeysProtect ==
  pc \in {"serving", "served"} =>
    /\ check_token => keys # <<>>
    /\ \A i \in DOMAIN keys : keys[i].key > 0

\* A server that takes connections does so on every address it was asked for,
\* each with its own kind: a TLS address is left out only when TLS is
\* disabled, and never becomes a plain one.  It has all its threads, and one
\* without any (-t 0) does not get past its first connection.
ListensAsAsked ==
  pc \in {"serving", "served"} =>
    /\ tcp_listeners = tcp_addrs
    /\ tls_listeners = IF tls_cfg THEN tls_addrs ELSE <<>>
    /\ tcp_listeners \o tls_listeners # <<>>
    /\ workers = config.num_workers /\ (pc = "served" => workers > 0)

\* The startup event tells what the process has: its threads and its
\* listeners, TLS ones only if TLS is enabled.
StartupEventIsTrue ==
  announced # <<>> =>
    announced = <<workers, Len(tcp_addrs), IF tls_cfg THEN Len(tls_addrs) ELSE 0>>

\* Without -l and -L the process fails to bind only for a reason outside it:
\* TLS defaults to both [::] and 0.0.0.0 on the default port.
DefaultAddressesBind ==
  exit = "failure" /\ Given("-l") = {} /\ Given("-L") = {} /\ tls_listeners # <<>>
    => foreign \/ Len(tls_listeners) = Len(tls_addrs)

\* With a log level no start fails without a word: whatever the step, the error
\* has been reported to the user when main returns a failure, as main.rs:12-13
\* and :24 say.  (Without -log nothing after parse_cli is.)
FailuresAreReported == exit = "failure" /\ config.log_level # "off" => reported
=============================================================================
