------------------------- MODULE MCCommandDelivery -------------------------
(* Instances of CommandDelivery for TLC. *)
EXTENDS CommandDelivery, FiniteSets, TLC

CONSTANTS c1, c2

\* The commands can be swapped: nothing depends on which is which.
Swaps == Permutations(Commands)

\* A bound: a stop is alone, sent once or again. It competes with no other command, for it
\* waits in no queue and sets no desired value; sent once, it is like the start of a session,
\* which TLC does see beside other commands.
Bound == stops = {} \/ Cardinality({c \in Commands : status[c] # "none"}) = 1
=============================================================================
