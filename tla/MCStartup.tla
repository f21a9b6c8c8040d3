------------------------------ MODULE MCStartup ------------------------------
(* Instances of Startup for TLC. *)
EXTENDS Startup

\* Two bare ports that also serve as counts, one number that is no port, an
\* IPv6 address, an IP address without port, a log level, and a word.
MCTexts ==
  {[form |-> "number", value |-> n] : n \in {0, 2, 9}}
  \cup {[form |-> "addr", addr |-> Addr(TRUE, "any", 2)],
        [form |-> "ip", addr |-> Addr(FALSE, "lo", 0)],
        [form |-> "level", level |-> "info"], [form |-> "word"]}

Line(comment, key, label) == [comment |-> comment, key |-> key, label |-> label]

\* A blank line, a comment, a key that is too short, the same with a label
\* that makes its line long enough, and the shortest key on its own.
MCLines ==
  {Line(FALSE, 0, 0), Line(TRUE, 6, 0), Line(FALSE, 4, 0), Line(FALSE, 2, 2), Line(FALSE, 5, 0)}
=============================================================================
