------------------------------- MODULE Channel -------------------------------
(***************************************************************************)
(* What the protocol code relies on when it reads from a client: a channel *)
(* of whole messages (the HTTP head, lines, chunks).  They arrive in the   *)
(* order in which they were sent, each once and unchanged, but for what is *)
(* no UTF-8 in a line.                                                     *)
(***************************************************************************)
EXTENDS Sequences, SequencesExt

CONSTANTS Messages,  \* the messages [what, bytes] a client may send
          Forms(_)   \* the forms in which a message may arrive

VARIABLES sent, got, closed

vars == <<sent, got, closed>>

Init == sent = <<>> /\ got = <<>> /\ closed = FALSE

Send(m) ==
  /\ ~closed
  /\ sent' = Append(sent, m)
  /\ UNCHANGED <<got, closed>>

Close == ~closed /\ closed' = TRUE /\ UNCHANGED <<sent, got>>

Receive ==
  /\ Len(got) < Len(sent)
  /\ \E m \in Forms(sent[Len(got) + 1]) : got' = Append(got, m)
  /\ UNCHANGED <<sent, closed>>

Next ==
  \/ \E m \in Messages : Send(m)
  \/ Close
  \/ Receive

Spec == Init /\ [][Next]_vars
=============================================================================
