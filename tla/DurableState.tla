----------------------------- MODULE DurableState -----------------------------
(* What the forge promises of a database file: a mutation is acknowledged only *)
(* when it is in the file, an acknowledged one is never lost, and one that was *)
(* refused is seen again at most after a restart, and only if no later         *)
(* snapshot took it out of the file.                                           *)
CONSTANTS Files, Mutations

VARIABLES
    value,   \* per file: the mutations a caller of the forge sees
    doubt    \* per file: the mutations in it that no caller was told of

stateVars == <<value, doubt>>

DInit ==
    /\ value \in [Files -> SUBSET Mutations]
    /\ doubt = [f \in Files |-> {}]

\* The mutation reaches the file; its caller has no answer yet.  A snapshot
\* takes what was refused before out of the file, an appended row does not.
Write(f, m) ==
    /\ m \notin value[f]
    /\ \E kept \in SUBSET doubt[f] : doubt' = [doubt EXCEPT ![f] = kept \union {m}]
    /\ UNCHANGED value

Acknowledge(f, m) ==
    /\ m \in doubt[f]
    /\ value' = [value EXCEPT ![f] = @ \union {m}]
    /\ doubt' = [doubt EXCEPT ![f] = @ \ {m}]

Restart(f) ==
    /\ value' = [value EXCEPT ![f] = @ \union doubt[f]]
    /\ doubt' = [doubt EXCEPT ![f] = {}]

DNext == \E f \in Files : Restart(f) \/ \E m \in Mutations : Write(f, m) \/ Acknowledge(f, m)

DSpec == DInit /\ [][DNext]_stateVars
=============================================================================
