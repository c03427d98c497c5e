----------------------- MODULE MCProviderConnections -----------------------
(* One connection, of a user or of a service, and two sessions that refresh *)
(* it.  Other rows matter only through the writes they cause, which          *)
(* TransitionAccountStatus makes as well.                                    *)
EXTENDS ProviderConnections, TLC

CONSTANTS c1, t1, t2, l1, l2

MCOwnerOf == [c \in Conns |-> CHOOSE o \in Users \cup Services : TRUE]
MCProviderOf == [c \in Conns |-> CHOOSE p \in Providers : TRUE]

Symmetry == Permutations(Sessions) \cup Permutations(Locks)
=============================================================================
