------------------------------ MODULE MCServer ------------------------------
(* Instances of Server for TLC. *)
EXTENDS Server, TLC

\* Connections and listeners are interchangeable; safety runs only.
Symmetry == Permutations(Conn) \cup Permutations(Listener)
=============================================================================
