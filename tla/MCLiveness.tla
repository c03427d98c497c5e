----------------------------- MODULE MCLiveness -----------------------------
(* What must eventually happen: refreshes of provider secrets and pack RPCs.  *)
(* The two share no state, so a behaviour moves one of them, chosen at the    *)
(* start, and leaves the other alone.                                         *)
EXTENDS MCProviderConnections, PackService

CONSTANTS b1, b2, b3, s1

VARIABLE focus

liveVars == <<vars, packVars, focus>>

MCBatches == {{}, Buffered, Streamed}

OnProvider(A) == focus = "provider" /\ A /\ UNCHANGED <<packVars, focus>>
OnPack(A) == focus = "pack" /\ A /\ UNCHANGED <<vars, focus>>

\* The part that does not move starts in one state only.
LiveInit ==
    /\ Init /\ PackInit
    /\ \/ focus = "provider" /\ \A r \in Rpcs : rpc[r] = "absent"
       \/ focus = "pack" /\ vault = NoKey /\ \E r \in Rpcs : rpc[r] = "arrived"

LiveNext == OnProvider(Next) \/ OnPack(PackNext)

LiveSpec ==
    /\ LiveInit /\ [][LiveNext]_liveVars
    /\ \A t \in Sessions : WF_liveVars(OnProvider(RefreshStep(t)))
    /\ \A r \in Rpcs : WF_liveVars(OnPack(RpcProgress(r)))
=============================================================================
