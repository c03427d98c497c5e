----------------------------- MODULE MCServices -----------------------------
(* What the forge does for others, in one run: provider connections, what bots *)
(* may touch, what they did, and the records that grow.  The parts share no    *)
(* state: a behaviour moves one of them, chosen at the start, and leaves the   *)
(* others in one initial state.                                                *)
EXTENDS MCProviderConnections, BotReach, BotActivity, Records

VARIABLE focus

MCPlaces == {<<"u", "a">>, <<"x", "a">>}

\* A vault whose key is not set does nothing.
ProviderAtRest == vault = NoKey

ServicesInit ==
    /\ Init /\ ReachInit /\ BotActivityInit /\ RecordInit
    /\ \/ focus = "provider"
       \/ focus \in {"reach", "operations", "heartbeats", "observations", "deployments", "bounded"} /\ ProviderAtRest

ServicesNext ==
    /\ UNCHANGED focus
    /\ \/ focus = "provider" /\ Next /\ UNCHANGED <<reachVars, botActivityVars, recordVars>>
       \/ focus = "reach" /\ ReachNext /\ UNCHANGED <<vars, botActivityVars, recordVars>>
       \/ focus = "operations" /\ OperationNext /\ UNCHANGED <<vars, reachVars, recordVars>>
       \/ focus = "heartbeats" /\ HeartbeatNext /\ UNCHANGED <<vars, reachVars, recordVars>>
       \/ focus = "observations" /\ ObservationNext /\ UNCHANGED <<vars, reachVars, recordVars>>
       \/ focus = "deployments" /\ DeployNext /\ UNCHANGED <<vars, reachVars, botActivityVars>>
       \/ focus = "bounded" /\ BoundedNext /\ UNCHANGED <<vars, reachVars, botActivityVars>>

servicesVars == <<vars, reachVars, botActivityVars, recordVars, focus>>

ServicesSpec == ServicesInit /\ [][ServicesNext]_servicesVars
=============================================================================
