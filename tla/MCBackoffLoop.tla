---------------------------- MODULE MCBackoffLoop ----------------------------
(* An instance of BackoffLoop for TLC. *)
EXTENDS BackoffLoop

\* Options that are negative, zero (the value that asks for the default), tiny,
\* and large against the default of the others.
MCOptions == {-1, 0, 1, 2, 3, 7, 60}
=============================================================================
