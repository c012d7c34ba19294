---------------------------- MODULE MCClientSetup ----------------------------
(* An instance of ClientSetup for TLC. *)
EXTENDS ClientSetup

MCUrls == {<<"h1">>, <<"https://", "h2">>}

\* The client side and the consumer side of ClientSetup share no variable and no
\* property, so that behaviours in which one of them moves show all that each can
\* do. TLC need not look at every combination of their states.
MCNext ==
    \/ ConsumerInit /\ ClientStep /\ UNCHANGED consumerVars
    \/ ClientInit /\ ConsumerStep /\ UNCHANGED clientVars

MCSpec == Init /\ [][MCNext]_vars
=============================================================================
