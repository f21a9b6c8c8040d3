------------------------------ MODULE MCStream ------------------------------
(* Instances of Stream for TLC. *)
EXTENDS Stream

MCHeads == {<<"x", "E">>, <<"x", "x", "x", "x", "E">>}

\* A command with and without CR, the two PUTs, a download, the longest line,
\* one byte more, far more, and one that is no UTF-8.
MCLines ==
  {<<"x", "CR", "LF">>, <<"P", "LF">>, <<"B", "LF">>, <<"G", "LF">>,
   <<"x", "x", "x", "LF">>, <<"x", "x", "x", "x", "LF">>,
   <<"x", "x", "x", "x", "x", "x", "x", "LF">>, <<"FF", "LF">>}

\* Chunks whose bytes look like lines.
MCChunks == {<<"LF", "P", "x">>, <<"P", "LF", "FF">>}
=============================================================================
