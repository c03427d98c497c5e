----------------------------- MODULE BotActivity -----------------------------
(* What the forge remembers of what its bots do: reservations that let a       *)
(* retried operation run once, and the record of activity, which is written    *)
(* to the file only when it says something new.  Time is coarse: several       *)
(* things may happen at one instant, and callers may outlive any limit.  A      *)
(* caller reads the clock before it takes the lock, so the one that comes      *)
(* second may bring the earlier reading.                                       *)
EXTENDS Integers, Sequences, FiniteSets, Functions, Sublists

CONSTANTS
    Callers,            \* callers of one operation of one bot
    RequestKeys, Digests,
    Actors,             \* bots whose activity is noted
    OperationTtl, CoalesceSecs, ActivityTtl, ActivityCap,   \* the code's limits
    MaxNow              \* bound on the clock

ASSUME ActivityAssumption ==
    /\ {OperationTtl, CoalesceSecs, ActivityTtl, ActivityCap} \subseteq Nat \ {0}
    /\ MaxNow \in Nat

VARIABLES
    now,
    booked, bookedFile,     \* bot_operations by request key, in memory and in the file
    call,                   \* of each caller: what it asked and where it stands
    told,                   \* replays given: what was asked and whose result came back
    beat, beatFile,         \* each bot's last heartbeat, in memory and in the file
    beaten,                 \* the latest reading of each bot's acknowledged heartbeats
    noted, notedFile,       \* the bots' activity, in memory and in the file
    overtaken               \* bots of which an event came with no later reading than the one before

operationVars == <<booked, bookedFile, call, told>>
heartbeatVars == <<beat, beatFile, beaten>>
observationVars == <<noted, notedFile, overtaken>>
activityVars == <<heartbeatVars, observationVars>>
botActivityVars == <<now, operationVars, activityVars>>

Nobody == "nobody"
ASSUME CallersAreSomebody == Nobody \notin Callers
NoRecord == [digest |-> "", by |-> Nobody, result |-> Nobody, late |-> FALSE, created |-> -1]
Never == 0 - CoalesceSecs - 1

----------------------------------------------------------------------------
(* Reservations.  A result is named after the caller that produced it. *)

\* prune_bot_operations, at the reading of the caller.
Pruned(ops, read) ==
    [k \in RequestKeys |-> IF ops[k].created >= read - OperationTtl THEN ops[k] ELSE NoRecord]

\* Mutant of Gate: a record without a result is no record.
GateIgnoringRunning(ops, k, digest) ==
    IF ops[k].result = Nobody THEN "start"
    ELSE IF ops[k].digest # digest THEN "conflict" ELSE "replay"

Gate(ops, k, digest) ==
    IF ops[k] = NoRecord THEN "start"
    ELSE IF ops[k].digest # digest THEN "conflict"
    ELSE IF ops[k].result # Nobody THEN "replay" ELSE "in progress"

\* reserve_bot_operation: a conflict and a refused write put the records back;
\* a replay, and an operation in progress, leave the pruned records in memory.
ReserveBotOperation(c, k, digest, read, refused) ==
    LET ops == Pruned(booked, read)
        gate == Gate(ops, k, digest)
        record == [digest |-> digest, by |-> c, result |-> Nobody, late |-> FALSE, created |-> read] IN
    /\ call[c].at = "idle"
    /\ \/ /\ gate = "start" /\ ~refused
          /\ booked' = [ops EXCEPT ![k] = record] /\ bookedFile' = booked'
          /\ call' = [call EXCEPT ![c] = [at |-> "running", key |-> k, digest |-> digest, since |-> read]]
          /\ UNCHANGED told
       \/ /\ gate = "start" /\ refused /\ UNCHANGED operationVars
       \/ /\ gate = "replay" /\ booked' = ops
          /\ told' = told \cup {[asked |-> digest, from |-> ops[k].result, late |-> ops[k].late]}
          /\ UNCHANGED <<bookedFile, call>>
       \/ /\ gate = "in progress" /\ booked' = ops
          /\ UNCHANGED <<bookedFile, call, told>>
       \/ /\ gate = "conflict" /\ UNCHANGED operationVars
    /\ UNCHANGED <<now, activityVars>>

\* A caller is late when its record may have been pruned under it.
Late(c) == now - call[c].since > OperationTtl

\* finish_bot_operation names the key, not the reservation.
FinishBotOperation(c, refused) ==
    LET k == call[c].key IN
    /\ call[c].at = "running"
    /\ IF booked[k] # NoRecord /\ booked[k].result = Nobody /\ ~refused
       THEN /\ booked' = [booked EXCEPT ![k].result = c, ![k].late = Late(c)]
            /\ bookedFile' = booked'
       ELSE UNCHANGED <<booked, bookedFile>>
    /\ call' = [call EXCEPT ![c].at = "done"]
    /\ UNCHANGED <<now, told, activityVars>>

----------------------------------------------------------------------------
(* Activity *)
NoActivity == [outcome |-> [b \in Actors |-> "none"], updated |-> [b \in Actors |-> Never], events |-> <<>>]
NoBeat == [b \in Actors |-> Never]

EventsOf(events, b) == {i \in DOMAIN events : events[i].bot = b}

WithinCoalesce(read, t) == read - t < CoalesceSecs

\* Mutant of CapBotActivity: the cap is one for all bots.
CapAllActivity(events, b) ==
    IF Len(events) > ActivityCap THEN SubSeq(events, Len(events) - ActivityCap + 1, Len(events)) ELSE events

\* cap_bot_activity: the oldest events of this bot go.
CapBotActivity(events, b) ==
    LET own == EventsOf(events, b)
        dropped == Cardinality(own) - ActivityCap IN
    Retained(events, {i \in DOMAIN events : i \in own => Rank(own, i) > dropped})

\* The events of this bot that are too old go.
WithoutExpired(events, b, read) ==
    Retained(events, {i \in DOMAIN events : events[i].bot = b => events[i].at >= read - ActivityTtl})

\* Mutant of CoalescedBeat: the anchor follows every beat, written or not.
MovedAnchor(b, read) == [beat EXCEPT ![b] = read]

\* A beat inside the window of the last one written leaves the record alone.
CoalescedBeat(b, read) == beat

\* note_bot_observation of a heartbeat.
Heartbeat(b, read, refused) ==
    LET heard == [beaten EXCEPT ![b] = IF read > @ THEN read ELSE @] IN
    /\ IF WithinCoalesce(read, beat[b])
       THEN beat' = CoalescedBeat(b, read) /\ UNCHANGED beatFile /\ beaten' = heard
       ELSE IF refused THEN UNCHANGED heartbeatVars
       ELSE /\ beat' = [beat EXCEPT ![b] = read] /\ beatFile' = beat'
            /\ beaten' = heard
    /\ UNCHANGED <<now, operationVars, observationVars>>

\* note_bot_observation of anything else: a repeat inside the window writes
\* nothing, and changes in memory only what is not kept here.
NoteBotObservation(b, outcome, read, refused) ==
    LET event == [bot |-> b, outcome |-> outcome, at |-> read]
        kept == WithoutExpired(Append(noted.events, event), b, read) IN
    /\ IF refused \/ (noted.outcome[b] = outcome /\ WithinCoalesce(read, noted.updated[b]))
       THEN UNCHANGED observationVars
       ELSE /\ noted' = [noted EXCEPT !.outcome[b] = outcome, !.updated[b] = read,
                                      !.events = CapBotActivity(kept, b)]
            /\ notedFile' = noted'
            /\ overtaken' = IF read > noted.updated[b] THEN overtaken ELSE overtaken \cup {b}
    /\ UNCHANGED <<now, operationVars, heartbeatVars>>

\* load_bot_activity: by time, those of one time in any order.
Loaded(events) ==
    {[i \in DOMAIN events |-> events[p[i]]] :
        p \in {q \in Bijection(DOMAIN events, DOMAIN events) :
                  \A i, j \in DOMAIN events : i < j => events[q[i]].at <= events[q[j]].at}}

----------------------------------------------------------------------------
Pass ==
    /\ now < MaxNow /\ now' = now + 1
    /\ UNCHANGED <<operationVars, activityVars>>

\* The forge stops and opens its file again; calls in it are gone.
Reopen ==
    /\ booked' = bookedFile /\ beat' = beatFile
    /\ \E events \in Loaded(notedFile.events) : noted' = [notedFile EXCEPT !.events = events]
    /\ call' = [c \in Callers |-> IF call[c].at = "running" THEN [call[c] EXCEPT !.at = "done"] ELSE call[c]]
    /\ UNCHANGED <<now, bookedFile, told, beatFile, beaten, notedFile, overtaken>>

BotActivityInit ==
    /\ now = 0 /\ told = {}
    /\ booked = [k \in RequestKeys |-> NoRecord] /\ bookedFile = booked
    /\ call = [c \in Callers |-> [at |-> "idle", key |-> CHOOSE k \in RequestKeys : TRUE, digest |-> "", since |-> 0]]
    /\ beat = NoBeat /\ beatFile = beat /\ beaten = beat
    /\ noted = NoActivity /\ notedFile = noted /\ overtaken = {}

OperationNext ==
    \/ \E c \in Callers, k \in RequestKeys, digest \in Digests, read \in 0 .. now, refused \in BOOLEAN :
          ReserveBotOperation(c, k, digest, read, refused)
    \/ \E c \in Callers, refused \in BOOLEAN : FinishBotOperation(c, refused)
    \/ Pass \/ Reopen

HeartbeatNext ==
    \/ \E b \in Actors, read \in 0 .. now, refused \in BOOLEAN : Heartbeat(b, read, refused)
    \/ Pass \/ Reopen

ObservationNext ==
    \/ \E b \in Actors, read \in 0 .. now, outcome \in {"ok", "denied"}, refused \in BOOLEAN :
          NoteBotObservation(b, outcome, read, refused)
    \/ Pass \/ Reopen

BotActivityNext == OperationNext \/ HeartbeatNext \/ ObservationNext

BotActivitySpec == BotActivityInit /\ [][BotActivityNext]_botActivityVars

----------------------------------------------------------------------------
(* Two callers run one operation at once only when the first has outlived its  *)
(* reservation; and the result replayed to a caller is the result of its own   *)
(* request, but for one written by a caller that had outlived its reservation  *)
(* (reserve_bot_operation, finish_bot_operation).                              *)
OperationsRunOnce ==
    /\ \A c, d \in Callers :
          c # d /\ call[c].at = "running" /\ call[d].at = "running" /\ call[c].key = call[d].key
             => Late(c) \/ Late(d)
    /\ \A r \in told : r.late \/ call[r.from].digest = r.asked

(* What is coalesced is never lost for longer than the window: the file holds  *)
(* a heartbeat less than a window older than the last one acknowledged         *)
(* (note_bot_observation).                                                     *)
HeartbeatsAreKept ==
    \A b \in Actors : beaten[b] # Never => beaten[b] - beatFile[b] < CoalesceSecs

(* In memory and in the file, the event behind a bot's last outcome is in its   *)
(* log, which stays within the cap, however busy the other bots are and in     *)
(* whatever order observations come; and it is the newest of that bot's, so    *)
(* the last one listed, unless an observation overtook a later one             *)
(* (note_bot_observation, cap_bot_activity, list_bot_activity).                *)
ActivityIsFresh ==
    \A log \in {noted, notedFile}, b \in Actors :
        LET own == EventsOf(log.events, b) IN
        /\ Cardinality(own) <= ActivityCap
        /\ log.outcome[b] # "none" =>
              \E i \in own :
                 /\ log.events[i].outcome = log.outcome[b]
                 /\ log.events[i].at = log.updated[b]
                 /\ b \notin overtaken => \A j \in own \ {i} : log.events[j].at < log.events[i].at

(* What bots asked for and what was seen of them, across restarts, failed      *)
(* writes and calls that outlive their reservation.                            *)
ActivityIsTrue == OperationsRunOnce /\ HeartbeatsAreKept /\ ActivityIsFresh
=============================================================================
