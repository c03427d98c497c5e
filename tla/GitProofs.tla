------------------------------ MODULE GitProofs ------------------------------
(***************************************************************************)
(* Proofs about the parts of jeryu-gitd, which share no state: the gate of *)
(* the pack services, the refs of a repository, the LFS store and the      *)
(* credential registry.  For any number of requests, writers, uploads and  *)
(* commands, a slot is neither leaked nor given back twice and a request   *)
(* is recorded once; protected refs move by the rules and those of an      *)
(* archived repository not at all; a published object is whole; and a      *)
(* token names its owner.                                                  *)
(*                                                                         *)
(* Then jeryu-mirror, whose four parts have an invariant each.  A bundle   *)
(* is written in order, so that whoever works alone knows which files are  *)
(* its own; an import looks at one path, whose repository is stored before *)
(* it is registered; a sync has done what it no longer has to do; and a    *)
(* restore prints keys in order, so that the next was not printed before.  *)
(***************************************************************************)
EXTENDS PackService, GitRefs, LfsStore, GitAuth, MirrorBackup, FiniteSetTheorems,
        SequenceTheorems, WellFoundedInduction, TLAPS

-----------------------------------------------------------------------------
(* The gate.  A request holds a permit exactly while it is admitted, has its *)
(* admission open while it is admitted or pumping, and is recorded as the    *)
(* admission closes.                                                         *)

Admitted == {"admitted", "ok", "error"}
Recorded == {"notifying", "dropping", "ended"}
BufferedStates == {"absent", "arrived", "asleep"} \cup Admitted \cup Recorded
StreamedStates == {"absent", "arrived", "pumping", "dropping", "ended"}
Outcomes == {"ok", "error", "busy"}

PermitsCounted ==
    /\ IsFiniteSet(holding)
    /\ running = Cardinality(holding) /\ running <= Limit

\* Where the admission of one request is, by where the request is.
AdmissionOf(r) ==
    /\ rpc[r] \in IF r \in Buffered THEN BufferedStates ELSE StreamedStates
    /\ r \in holding <=> rpc[r] \in Admitted
    /\ r \in open <=> rpc[r] \in Admitted \cup {"pumping"}
    /\ Len(records[r]) = IF rpc[r] \in Recorded THEN 1 ELSE 0

PackInv ==
    /\ rpc \in [Rpcs -> BufferedStates \cup StreamedStates]
    /\ records \in [Rpcs -> Seq(Outcomes)]
    /\ holding \subseteq Rpcs
    /\ PermitsCounted
    /\ \A r \in Rpcs : AdmissionOf(r)

LEMMA PackInitHolds == PackInit => PackInv
<1> SUFFICES ASSUME PackInit PROVE PackInv
  OBVIOUS
<1>1. PermitsCounted
  BY FS_EmptySet, PackServiceAssumption DEF PackInit, PermitsCounted
<1>2. /\ rpc \in [Rpcs -> BufferedStates \cup StreamedStates]
      /\ \A r \in Rpcs : rpc[r] \in {"arrived", "absent"}
  BY DEF PackInit, BufferedStates, StreamedStates
<1>3. records \in [Rpcs -> Seq(Outcomes)] /\ \A r \in Rpcs : Len(records[r]) = 0
  BY DEF PackInit
<1>4. \A r \in Rpcs : AdmissionOf(r)
  BY <1>2, <1>3 DEF PackInit, AdmissionOf, BufferedStates, StreamedStates, Admitted, Recorded
<1> QED
  BY <1>1, <1>2, <1>3, <1>4 DEF PackInit, PackInv

\* A step of one request leaves the others where they are.
LEMMA OneRpcMoves ==
    ASSUME PackInv, NEW r \in Rpcs, NEW s \in BufferedStates \cup StreamedStates,
           rpc' = [rpc EXCEPT ![r] = s],
           records' \in [Rpcs -> Seq(Outcomes)], \A q \in Rpcs \ {r} : records'[q] = records[q],
           holding' \subseteq Rpcs, \A q \in Rpcs \ {r} : q \in holding' <=> q \in holding,
           \A q \in Rpcs \ {r} : q \in open' <=> q \in open,
           PermitsCounted', AdmissionOf(r)'
    PROVE  PackInv'
<1>1. \A q \in Rpcs \ {r} : rpc'[q] = rpc[q]
  BY DEF PackInv
<1>2. \A q \in Rpcs \ {r} : AdmissionOf(q)'
  BY <1>1 DEF PackInv, AdmissionOf
<1> QED
  BY <1>2 DEF PackInv

\* A request that moves within a phase of its admission.
LEMMA SamePhase ==
    ASSUME PackInv, NEW r \in Rpcs, NEW s, rpc' = [rpc EXCEPT ![r] = s],
           s \in (IF r \in Buffered THEN BufferedStates ELSE StreamedStates),
           s \in Admitted <=> rpc[r] \in Admitted,
           s \in Recorded <=> rpc[r] \in Recorded,
           s # "pumping" /\ rpc[r] # "pumping",
           UNCHANGED <<running, holding, open, records>>
    PROVE  PackInv'
<1>1. AdmissionOf(r)'
  BY DEF PackInv, AdmissionOf
<1>2. PermitsCounted'
  BY DEF PackInv, PermitsCounted
<1> QED
  BY <1>1, <1>2, OneRpcMoves DEF PackInv

LEMMA GateLookKeeps ==
    ASSUME PackInv, NEW r \in Buffered, rpc[r] \in {"arrived", "asleep"}, GateLook(r)
    PROVE  PackInv'
<1>0. /\ r \in Rpcs /\ r \notin holding /\ r \notin open /\ Len(records[r]) = 0
      /\ rpc \in [Rpcs -> BufferedStates \cup StreamedStates] /\ records \in [Rpcs -> Seq(Outcomes)]
  BY DEF PackInv, AdmissionOf, Rpcs, Admitted, Recorded
<1>1. CASE /\ running < Limit /\ running' = running + 1 /\ rpc' = [rpc EXCEPT ![r] = "admitted"]
           /\ holding' = holding \cup {r} /\ open' = open \cup {r} /\ UNCHANGED records
  <2>1. IsFiniteSet(holding') /\ Cardinality(holding') = Cardinality(holding) + 1
    BY <1>0, <1>1, FS_AddElement DEF PackInv, PermitsCounted
  <2>2. Cardinality(holding) \in Nat
    BY FS_CardinalityType DEF PackInv, PermitsCounted
  <2>3. PermitsCounted'
    BY <1>1, <2>1, <2>2, PackServiceAssumption DEF PackInv, PermitsCounted
  <2>4. AdmissionOf(r)'
    BY <1>0, <1>1 DEF AdmissionOf, BufferedStates, Admitted, Recorded
  <2> QED
    BY <1>0, <1>1, <2>3, <2>4, OneRpcMoves DEF PackInv, BufferedStates, Admitted
<1>2. CASE /\ rpc' = [rpc EXCEPT ![r] = "ended"]
           /\ records' = [records EXCEPT ![r] = Append(@, "busy")]
           /\ UNCHANGED <<running, holding, open>>
  <2>1. records' \in [Rpcs -> Seq(Outcomes)] /\ Len(records'[r]) = 1
    BY <1>0, <1>2 DEF Outcomes
  <2>2. PermitsCounted'
    BY <1>2 DEF PackInv, PermitsCounted
  <2>3. AdmissionOf(r)'
    BY <1>0, <1>2, <2>1 DEF AdmissionOf, BufferedStates, Admitted, Recorded
  <2> QED
    BY <1>0, <1>2, <2>1, <2>2, <2>3, OneRpcMoves DEF PackInv, BufferedStates, Recorded
<1>3. CASE rpc' = [rpc EXCEPT ![r] = "asleep"] /\ UNCHANGED <<running, holding, open, records>>
  BY <1>0, <1>3, SamePhase DEF BufferedStates, Admitted, Recorded
<1> QED
  BY <1>1, <1>2, <1>3 DEF GateLook

\* The close that finds the admission open gives the permit back and records.
LEMMA CloseKeeps ==
    ASSUME PackInv, NEW r \in Rpcs, rpc[r] \in Admitted \cup {"pumping"}, NEW result \in Outcomes,
           Close(r, result), NEW s \in Recorded, rpc' = [rpc EXCEPT ![r] = s],
           r \in Buffered \/ s # "notifying"
    PROVE  PackInv'
<1>0. /\ r \in open /\ Len(records[r]) = 0 /\ (r \in holding <=> rpc[r] \in Admitted)
      /\ rpc \in [Rpcs -> BufferedStates \cup StreamedStates] /\ records \in [Rpcs -> Seq(Outcomes)]
  BY DEF PackInv, AdmissionOf, Admitted, Recorded
<1>1. /\ open' = open \ {r} /\ holding' = holding \ {r}
      /\ running' = IF r \in holding /\ running > 0 THEN running - 1 ELSE running
      /\ records' = [records EXCEPT ![r] = Append(@, result)]
  BY <1>0 DEF Close
<1>2. records' \in [Rpcs -> Seq(Outcomes)] /\ Len(records'[r]) = 1
  BY <1>0, <1>1
<1>3. PermitsCounted'
  <2>1. /\ IsFiniteSet(holding')
        /\ Cardinality(holding') = IF r \in holding THEN Cardinality(holding) - 1 ELSE Cardinality(holding)
    BY <1>1, FS_RemoveElement DEF PackInv, PermitsCounted
  <2>2. Cardinality(holding) \in Nat /\ (r \in holding => Cardinality(holding) # 0)
    BY FS_CardinalityType, FS_EmptySet DEF PackInv, PermitsCounted
  <2> QED
    BY <1>1, <2>1, <2>2, PackServiceAssumption DEF PackInv, PermitsCounted
<1>4. AdmissionOf(r)'
  BY <1>0, <1>1, <1>2 DEF PackInv, AdmissionOf, BufferedStates, StreamedStates, Admitted, Recorded
<1> QED
  BY <1>0, <1>1, <1>2, <1>3, <1>4, OneRpcMoves DEF PackInv, BufferedStates, Recorded

LEMMA PackStepKeeps ==
    ASSUME PackInv, NEW r \in Rpcs,
           \/ RpcProgress(r)
           \/ ChildWants(r) \/ ChildClosesOutput(r) \/ ChildDies(r)
           \/ ClientSends(r) \/ ClientCloses(r) \/ OutputFails(r)
           \/ \E how \in {"reads", "stalls"} : ClientReads(r, how)
    PROVE  PackInv'
<1>0. /\ rpc[r] \in IF r \in Buffered THEN BufferedStates ELSE StreamedStates
      /\ r \in open <=> rpc[r] \in Admitted \cup {"pumping"}
  BY DEF PackInv, AdmissionOf
<1>1. CASE UNCHANGED <<running, rpc, holding, open, records>>
  BY <1>1 DEF PackInv, PermitsCounted, AdmissionOf
<1>2. CASE Acquire(r) \/ WakeUp(r)
  <2>1. r \in Buffered /\ rpc[r] \in {"arrived", "asleep"} /\ GateLook(r)
    BY <1>0, <1>2 DEF Acquire, WakeUp, StreamedStates
  <2> QED
    BY <2>1, GateLookKeeps
<1>3. CASE ChildDone(r)
  <2>1. PICK result \in {"ok", "error"} : rpc' = [rpc EXCEPT ![r] = result]
    BY <1>3 DEF ChildDone
  <2>2. rpc[r] = "admitted" /\ r \in Buffered /\ UNCHANGED <<running, holding, open, records>>
    BY <1>0, <1>3 DEF ChildDone, StreamedStates
  <2> QED
    BY <2>1, <2>2, SamePhase DEF BufferedStates, Admitted, Recorded
<1>4. CASE Finish(r)
  <2>1. r \in Buffered /\ rpc[r] \in {"ok", "error"} /\ Close(r, rpc[r])
        /\ rpc' = [rpc EXCEPT ![r] = "notifying"]
    BY <1>0, <1>4 DEF Finish, StreamedStates
  <2> QED
    BY <2>1, CloseKeeps DEF Admitted, Recorded, Outcomes
<1>5. CASE NotifyAll(r)
  <2>1. /\ r \in Buffered /\ rpc[r] = "notifying" /\ rpc' = [rpc EXCEPT ![r] = "dropping"]
        /\ UNCHANGED <<running, holding, open, records>>
    BY <1>0, <1>5 DEF NotifyAll, StreamedStates
  <2> QED
    BY <2>1, SamePhase DEF BufferedStates, Admitted, Recorded
<1>6. CASE DropAdmission(r)
  <2>1. /\ rpc[r] = "dropping" /\ rpc' = [rpc EXCEPT ![r] = "ended"]
        /\ UNCHANGED <<running, holding, open, records>>
    BY <1>0, <1>6 DEF DropAdmission, Close, Admitted
  <2> QED
    BY <2>1, SamePhase DEF BufferedStates, StreamedStates, Admitted, Recorded
<1>7. CASE StartStream(r)
  <2>1. /\ r \in Streamed /\ rpc[r] = "arrived" /\ rpc' = [rpc EXCEPT ![r] = "pumping"]
        /\ open' = open \cup {r} /\ UNCHANGED <<running, holding, records>>
    BY <1>7 DEF StartStream
  <2>2. r \notin Buffered
    BY <2>1, PackServiceAssumption
  <2>3. AdmissionOf(r)'
    BY <2>1, <2>2 DEF PackInv, AdmissionOf, StreamedStates, Admitted, Recorded
  <2>4. PermitsCounted'
    BY <2>1 DEF PackInv, PermitsCounted
  <2> QED
    BY <2>1, <2>3, <2>4, OneRpcMoves DEF PackInv, StreamedStates
<1>8. CASE JoinAndReap(r)
  <2>1. PICK result \in {"error", "ok"} : Close(r, result) /\ rpc' = [rpc EXCEPT ![r] = "dropping"]
    BY <1>8 DEF JoinAndReap
  <2>2. rpc[r] = "pumping"
    BY <1>8 DEF JoinAndReap
  <2> QED
    BY <2>1, <2>2, CloseKeeps DEF Recorded, Outcomes
<1>9. CASE Deadline(r)
  BY <1>1, <1>9 DEF Deadline
<1>10. CASE \/ WriteChunk(r) \/ DrainOutput(r) \/ ChildReads(r) \/ ChildWrites(r) \/ ChildWants(r)
            \/ ChildClosesOutput(r) \/ ChildExits(r) \/ ChildDies(r)
  BY <1>1, <1>10 DEF WriteChunk, DrainOutput, ChildReads, ChildWrites, ChildWants, ChildClosesOutput,
       ChildExits, ChildDies, Pump
<1>11. CASE \/ EndInput(r) \/ CopyOutput(r) \/ OutputEnds(r) \/ CancelInput(r) \/ OutputFails(r)
            \/ ClientSends(r) \/ ClientCloses(r) \/ \E how \in {"reads", "stalls"} : ClientReads(r, how)
  BY <1>1, <1>11 DEF EndInput, CopyOutput, OutputEnds, CancelInput, OutputFails, ClientSends, ClientCloses,
       ClientReads, Pump
<1> QED
  BY <1>1, <1>2, <1>3, <1>4, <1>5, <1>6, <1>7, <1>8, <1>9, <1>10, <1>11 DEF RpcProgress, ServerStep

\* The counter of PackRpcGate is the number of permits held and never above the
\* limit, and every request is recorded once, although finish closes the
\* admission and Drop closes it again (PackRpcGate::acquire, PackRpcAdmission).
THEOREM GateBalances == PackSpec => []SlotsAndRecordsBalance
<1>1. PackInv /\ [PackNext]_packVars => PackInv'
  <2>1. PackInv /\ UNCHANGED packVars => PackInv'
    BY DEF packVars, PackInv, PermitsCounted, AdmissionOf
  <2> QED
    BY <2>1, PackStepKeeps DEF PackNext
<1>2. PackInv => SlotsAndRecordsBalance
  <2> SUFFICES ASSUME PackInv PROVE SlotsAndRecordsBalance
    OBVIOUS
  <2>1. running = Cardinality(holding) /\ running <= Limit
    BY DEF PackInv, PermitsCounted
  <2>2. \A r \in Rpcs : Len(records[r]) <= 1 /\ (rpc[r] = "ended" => Len(records[r]) = 1)
    <3> SUFFICES ASSUME NEW r \in Rpcs
                 PROVE  Len(records[r]) <= 1 /\ (rpc[r] = "ended" => Len(records[r]) = 1)
      OBVIOUS
    <3>1. Len(records[r]) = IF rpc[r] \in Recorded THEN 1 ELSE 0
      BY DEF PackInv, AdmissionOf
    <3> QED
      BY <3>1 DEF Recorded
  <2> QED
    BY <2>1, <2>2 DEF SlotsAndRecordsBalance
<1> QED
  BY <1>1, <1>2, PackInitHolds, PTL DEF PackSpec

-----------------------------------------------------------------------------
(* Refs.  A writer past its check carries what the check established of the  *)
(* change it declared; git's compare-and-swap makes the declared old value   *)
(* the one that is moved.                                                    *)

WriterRecords ==
    [at : {"idle", "checked", "merging", "moved", "receiving", "accepted", "received"},
     ref : RefNames, old : Values \cup {NoOid}, new : Values, actor : Actors,
     before : {NoSnapshot} \cup [RefNames -> Values]]

PastCheck(w) == writer[w].at \in {"checked", "accepted"}

\* What the change of a writer past its check is known to be.
CheckedInv(w) ==
    LET c == writer[w] IN
    /\ c.at = "checked" => Evaluate(c.ref, c.actor, Operation(c.old, c.new), ForceUpdate(c.ref, c.old, c.new))
    /\ c.at = "accepted" => c.ref # MainRef /\ ~(c.ref \in Tags /\ c.old # Zero)
    /\ c.at = "merging" => c.new \in Oids
    /\ c.at \in {"receiving", "accepted"} => c.old # NoOid

GitInv ==
    /\ refs \in [RefNames -> Values]
    /\ archived \in BOOLEAN
    /\ writer \in [Writers -> WriterRecords]
    /\ pastCheck \subseteq Writers
    /\ \A w \in Writers : CheckedInv(w)
    /\ archived => \A w \in Writers : PastCheck(w) => w \in pastCheck

LEMMA IdleIsAWriter ==
    /\ IdleWriter \in WriterRecords /\ IdleWriter.at = "idle" /\ IdleWriter.ref = MainRef
    /\ IdleWriter.actor = "user"
  BY DEF IdleWriter, WriterRecords, RefNames, Values, Actors

LEMMA GitInitHolds == GitInit => GitInv
<1> SUFFICES ASSUME GitInit PROVE GitInv
  OBVIOUS
<1>1. refs \in [RefNames -> Values]
  BY DEF GitInit, Values
<1>2. writer \in [Writers -> WriterRecords] /\ \A w \in Writers : writer[w].at = "idle"
  BY IdleIsAWriter DEF GitInit
<1>3. \A w \in Writers : CheckedInv(w)
  BY <1>2 DEF CheckedInv
<1> QED
  BY <1>1, <1>2, <1>3 DEF GitInit, GitInv

\* A writer's step: it is past its check only when the archive marker is not
\* there, or it was past it before.
LEMMA WriterStepKeeps ==
    ASSUME GitInv, NEW w \in Writers, NEW c \in WriterRecords, writer' = [writer EXCEPT ![w] = c],
           refs' \in [RefNames -> Values], archived' = archived, CheckedInv(w)',
           \/ c.at \notin {"checked", "accepted"} /\ pastCheck' \in {pastCheck, pastCheck \ {w}}
           \/ ~archived /\ pastCheck' = pastCheck
    PROVE  GitInv'
<1>1. writer' \in [Writers -> WriterRecords] /\ writer'[w] = c /\ \A v \in Writers \ {w} : writer'[v] = writer[v]
  BY DEF GitInv
<1>2. \A v \in Writers \ {w} : CheckedInv(v)'
  BY <1>1 DEF GitInv, CheckedInv
<1>3. archived' => \A v \in Writers : PastCheck(v)' => v \in pastCheck'
  BY <1>1 DEF GitInv, PastCheck
<1> QED
  BY <1>1, <1>2, <1>3 DEF GitInv

LEMMA UpdateRefCheckKeeps ==
    ASSUME GitInv, NEW w \in Writers, NEW ref \in RefNames, NEW old \in Values \cup {NoOid},
           NEW new \in Values, NEW actor \in Actors, UpdateRefCheck(w, ref, old, new, actor)
    PROVE  GitInv'
<1> DEFINE c == [IdleWriter EXCEPT !.at = "checked", !.ref = ref, !.old = old, !.new = new, !.actor = actor]
<1>1. /\ c \in WriterRecords /\ c.at = "checked" /\ c.ref = ref /\ c.old = old /\ c.new = new
      /\ c.actor = actor
  BY DEF IdleWriter, WriterRecords, NoSnapshot
<1>2. writer' = [writer EXCEPT ![w] = c] /\ ~archived /\ UNCHANGED <<refs, archived, pastCheck>>
  BY DEF UpdateRefCheck
<1> HIDE DEF c
<1>3. writer'[w] = c
  BY <1>2 DEF GitInv
<1>4. CheckedInv(w)'
  <2>1. Evaluate(ref, actor, Operation(old, new), ForceUpdate(ref, old, new))
    BY DEF UpdateRefCheck
  <2> QED
    BY <1>1, <1>3, <2>1 DEF CheckedInv
<1> QED
  BY <1>1, <1>2, <1>4, WriterStepKeeps DEF GitInv

LEMMA ReplyKeeps ==
    ASSUME GitInv, NEW w \in Writers, Reply(w), refs' \in [RefNames -> Values], archived' = archived,
           pastCheck' \in {pastCheck, pastCheck \ {w}}
    PROVE  GitInv'
<1>1. CheckedInv(w)'
  <2>1. writer'[w] = IdleWriter
    BY DEF Reply, GitInv
  <2> QED
    BY <2>1, IdleIsAWriter DEF CheckedInv
<1> QED
  <2>1. PICK c \in WriterRecords : c = IdleWriter /\ c.at = "idle"
    BY IdleIsAWriter
  <2>2. writer' = [writer EXCEPT ![w] = c]
    BY <2>1 DEF Reply
  <2> QED
    BY <1>1, <2>1, <2>2, WriterStepKeeps

LEMMA SpawnKeeps ==
    ASSUME GitInv, NEW w \in Writers, NEW ref \in RefNames, NEW old \in Values, NEW new \in Values,
           SpawnReceivePack(w, ref, old, new)
    PROVE  GitInv'
<1> DEFINE c == [IdleWriter EXCEPT !.at = "receiving", !.ref = ref, !.old = old, !.new = new, !.before = refs]
<1>1. refs \in [RefNames -> Values]
  BY DEF GitInv
<1>2. c \in WriterRecords /\ c.at = "receiving" /\ c.old = old
  BY <1>1 DEF IdleWriter, WriterRecords, Actors
<1>3. writer' = [writer EXCEPT ![w] = c] /\ UNCHANGED <<refs, archived, pastCheck>>
  BY DEF SpawnReceivePack
<1> HIDE DEF c
<1>4. CheckedInv(w)'
  <2>1. writer'[w] = c
    BY <1>3 DEF GitInv
  <2>2. old # NoOid
    BY GitRefsAssumption DEF Values, Zero, NoOid
  <2> QED
    BY <1>2, <2>1, <2>2 DEF CheckedInv
<1> QED
  BY <1>1, <1>2, <1>3, <1>4, WriterStepKeeps

\* The step of a request that only moves on.
LEMMA MovesOn ==
    ASSUME GitInv, NEW w \in Writers, NEW s, writer' = [writer EXCEPT ![w].at = s],
           s \in {"moved", "received"} \/ (s = "accepted" /\ ~archived /\ writer[w].at = "receiving"
                                           /\ HookAccepts(writer[w])),
           refs' \in [RefNames -> Values], archived' = archived,
           pastCheck' = pastCheck \/ (s # "accepted" /\ pastCheck' = pastCheck \ {w})
    PROVE  GitInv'
<1> DEFINE c == [writer[w] EXCEPT !.at = s]
<1>1. /\ c \in WriterRecords /\ c.at = s /\ c.ref = writer[w].ref /\ c.old = writer[w].old
      /\ c.new = writer[w].new
  BY DEF GitInv, WriterRecords
<1>2. writer' = [writer EXCEPT ![w] = c]
  OBVIOUS
<1> HIDE DEF c
<1>3. writer'[w] = c
  BY <1>2 DEF GitInv
<1>4. CheckedInv(w)'
  BY <1>1, <1>3 DEF GitInv, CheckedInv, HookAccepts
<1> QED
  <2>1. \/ c.at \notin {"checked", "accepted"} /\ pastCheck' \in {pastCheck, pastCheck \ {w}}
        \/ ~archived /\ pastCheck' = pastCheck
    BY <1>1
  <2> QED
    BY <1>1, <1>2, <1>4, <2>1, WriterStepKeeps

LEMMA GitStepKeeps ==
    ASSUME GitInv, NEW w \in Writers,
           \/ UpdateRef(w) \/ MergePull(w) \/ MergeUpdateRef(w) \/ WriteRef(w)
           \/ RecordPush(w) \/ BeginPush(w) \/ BeginSshPush(w) \/ PreReceive(w) \/ ReceivePack(w)
           \/ FinishPush(w) \/ AbortPush(w)
    PROVE  GitInv'
<1>0. /\ refs \in [RefNames -> Values] /\ writer[w] \in WriterRecords /\ writer \in [Writers -> WriterRecords]
  BY DEF GitInv
<1>1. CASE UpdateRef(w)
  BY <1>1, UpdateRefCheckKeeps DEF UpdateRef
<1>2. CASE MergePull(w)
  <2>1. PICK base \in Oids, head \in Oids, requireFf \in BOOLEAN :
           /\ MergeResult(base, head, requireFf) # Conflict
           /\ writer' = [writer EXCEPT ![w] = [IdleWriter EXCEPT !.at = "merging", !.old = base,
                             !.new = MergeResult(base, head, requireFf)]]
    BY <1>2 DEF MergePull
  <2>2. MergeResult(base, head, requireFf) \in Oids
    BY <2>1, GitRefsAssumption DEF MergeResult
  <2>3. PICK new \in Oids : new = MergeResult(base, head, requireFf)
    BY <2>2
  <2> DEFINE c == [IdleWriter EXCEPT !.at = "merging", !.old = base, !.new = new]
  <2>4. c \in WriterRecords /\ c.at = "merging" /\ c.new = new
    BY DEF IdleWriter, WriterRecords, Values, RefNames, Actors
  <2>5. writer' = [writer EXCEPT ![w] = c] /\ UNCHANGED <<refs, archived, pastCheck>>
    BY <1>2, <2>1, <2>3 DEF MergePull
  <2> HIDE DEF c
  <2>6. CheckedInv(w)'
    BY <1>0, <2>4, <2>5 DEF CheckedInv
  <2> QED
    BY <1>0, <2>4, <2>5, <2>6, WriterStepKeeps
<1>3. CASE MergeUpdateRef(w)
  <2>1. writer[w].ref \in RefNames /\ writer[w].old \in Values \cup {NoOid} /\ writer[w].new \in Values
        /\ "user" \in Actors
    BY <1>0 DEF WriterRecords, Actors
  <2> QED
    BY <1>0, <1>3, <2>1, UpdateRefCheckKeeps, ReplyKeeps DEF MergeUpdateRef
<1>4. CASE WriteRef(w)
  <2>1. CASE MovesRef(writer[w].ref, writer[w].old, writer[w].new) /\ writer' = [writer EXCEPT ![w].at = "moved"]
    <3>1. refs' \in [RefNames -> Values]
      BY <1>0, <2>1 DEF MovesRef, WriterRecords
    <3> QED
      BY <1>4, <2>1, <3>1, MovesOn DEF WriteRef
  <2>2. CASE Reply(w) /\ UNCHANGED refs
    BY <1>0, <1>4, <2>2, ReplyKeeps DEF WriteRef
  <2> QED
    BY <1>4, <2>1, <2>2 DEF WriteRef
<1>5. CASE RecordPush(w) \/ FinishPush(w) \/ AbortPush(w)
  BY <1>0, <1>5, ReplyKeeps DEF RecordPush, FinishPush, AbortPush
<1>6. CASE BeginPush(w) \/ BeginSshPush(w)
  BY <1>6, SpawnKeeps DEF BeginPush, BeginSshPush
<1>7. CASE PreReceive(w)
  <2>1. CASE HookAccepts(writer[w])
    <3>1. ~archived
      BY <2>1 DEF HookAccepts
    <3> QED
      BY <1>0, <1>7, <2>1, <3>1, MovesOn DEF PreReceive
  <2>2. CASE ~HookAccepts(writer[w])
    BY <1>0, <1>7, <2>2, MovesOn DEF PreReceive
  <2> QED
    BY <2>1, <2>2
<1>8. CASE ReceivePack(w)
  <2>1. refs' \in [RefNames -> Values]
    BY <1>0, <1>8 DEF ReceivePack, MovesRef, WriterRecords
  <2> QED
    BY <1>8, <2>1, MovesOn DEF ReceivePack
<1> QED
  BY <1>1, <1>2, <1>3, <1>4, <1>5, <1>6, <1>7, <1>8

LEMMA GitNextKeeps ==
    ASSUME GitInv, GitNext
    PROVE  GitInv'
<1>1. CASE SetArchived
  BY <1>1 DEF SetArchived, GitInv, CheckedInv, PastCheck
<1>2. CASE MirrorFetch
  <2>1. refs' \in [RefNames -> Values]
    BY <1>2 DEF MirrorFetch, Values
  <2> QED
    BY <1>2, <2>1 DEF MirrorFetch, GitInv, CheckedInv, PastCheck
<1> QED
  BY <1>1, <1>2, GitStepKeeps DEF GitNext

\* A change that passed the rules, moved by compare-and-swap, loses no commit of
\* main and changes no tag there is.
LEMMA CheckedMoveIsSafe ==
    ASSUME GitInv, NEW w \in Writers, PastCheck(w), MovesRef(writer[w].ref, writer[w].old, writer[w].new)
    PROVE  \/ writer[w].ref = MainRef /\ writer[w].actor = Mirror
           \/ /\ refs[MainRef] \in Oids => IsAncestor(refs[MainRef], refs'[MainRef])
              /\ \A t \in Tags : refs[t] # Zero => refs'[t] = refs[t]
<1>0. /\ refs \in [RefNames -> Values] /\ writer[w] \in WriterRecords
      /\ MainRef \in RefNames /\ Tags \subseteq RefNames
  BY DEF GitInv, RefNames
<1> DEFINE c == writer[w]
<1>1. /\ c.ref \in RefNames /\ c.new \in Values /\ refs[c.ref] = Expected(c.old)
      /\ refs'[c.ref] = c.new /\ \A r \in RefNames \ {c.ref} : refs'[r] = refs[r]
  BY <1>0 DEF MovesRef, WriterRecords
<1> HIDE DEF c
<1>2. /\ c.at = "checked" => Evaluate(c.ref, c.actor, Operation(c.old, c.new), ForceUpdate(c.ref, c.old, c.new))
      /\ c.at = "accepted" => c.ref # MainRef /\ ~(c.ref \in Tags /\ c.old # Zero)
      /\ c.at \in {"checked", "accepted"}
  BY DEF GitInv, CheckedInv, PastCheck, c
<1>3. CASE c.ref = MainRef
  <2>1. CASE c.actor = Mirror
    BY <1>3, <2>1 DEF c
  <2>2. CASE c.actor # Mirror
    <3>1. MainRef \notin Heads \cup Tags
      BY GitRefsAssumption
    <3>2. Operation(c.old, c.new) # "delete" /\ ~ForceUpdate(c.ref, c.old, c.new)
      BY <1>2, <1>3, <2>2, <3>1 DEF Evaluate
    <3>3. \A t \in Tags : refs'[t] = refs[t]
      BY <1>0, <1>1, <1>3, <3>1
    <3>4. ASSUME refs[MainRef] \in Oids PROVE IsAncestor(refs[MainRef], refs'[MainRef])
      <4>1. c.old # NoOid /\ c.old # Zero /\ refs[MainRef] = c.old
        BY <1>1, <1>3, <3>4, GitRefsAssumption DEF Expected, Zero
      <4>2. Operation(c.old, c.new) = "update"
        BY <3>2, <4>1 DEF Operation
      <4> QED
        BY <1>1, <1>3, <3>2, <4>1, <4>2 DEF ForceUpdate
    <3> QED
      BY <3>3, <3>4
  <2> QED
    BY <2>1, <2>2
<1>4. CASE c.ref # MainRef
  <2>1. refs[MainRef] \in Oids => IsAncestor(refs[MainRef], refs'[MainRef])
    BY <1>0, <1>1, <1>4, GitRefsAssumption DEF IsAncestor
  <2>2. ASSUME NEW t \in Tags, refs[t] # Zero PROVE refs'[t] = refs[t]
    <3>1. SUFFICES ASSUME c.ref = t PROVE FALSE
      BY <1>0, <1>1
    <3>2. c.old # Zero /\ c.old # NoOid
      BY <1>1, <2>2, <3>1 DEF Expected
    <3>3. c.at = "checked" /\ t \notin Heads /\ t # MainRef
      BY <1>2, <2>2, <3>1, <3>2, GitRefsAssumption
    <3>4. Operation(c.old, c.new) # "delete" /\ ~ForceUpdate(c.ref, c.old, c.new)
      BY <1>2, <3>1, <3>3 DEF Evaluate
    <3> QED
      BY <2>2, <3>1, <3>2, <3>4 DEF Operation, ForceUpdate
  <2> QED
    BY <2>1, <2>2
<1> QED
  BY <1>3, <1>4

\* Main only advances and an existing tag never changes, except by the mirror, and
\* refs of an archived repository move only for a request past its last check
\* (update_ref, merge_pull, the pre-receive hook, set_archived).
THEOREM RefsKeepTheRules == GitSpec => RefsMoveByTheRules
<1>1. GitInv /\ [GitNext]_gitVars => GitInv'
  <2>1. GitInv /\ UNCHANGED gitVars => GitInv'
    BY DEF gitVars, GitInv, CheckedInv, PastCheck
  <2> QED
    BY <2>1, GitNextKeeps
<1>2. GitInv /\ [GitNext]_gitVars
        => [refs' # refs => ProtectedRefsAdvance /\ ArchivedIsFrozen]_gitVars
  <2> SUFFICES ASSUME GitInv, GitNext, refs' # refs PROVE ProtectedRefsAdvance /\ ArchivedIsFrozen
    OBVIOUS
  <2>1. CASE MirrorFetch
    BY <2>1 DEF ProtectedRefsAdvance, ArchivedIsFrozen
  <2>2. ASSUME NEW w \in Writers, WriteRef(w) \/ ReceivePack(w)
        PROVE  ProtectedRefsAdvance /\ ArchivedIsFrozen
    <3>1. /\ PastCheck(w) /\ MovesRef(writer[w].ref, writer[w].old, writer[w].new)
          /\ writer' = [writer EXCEPT ![w].at = "moved"] \/ writer' = [writer EXCEPT ![w].at = "received"]
      BY <2>2 DEF WriteRef, ReceivePack, PastCheck
    <3>2. Mover(w)
      <4>1. writer'[w].at \in {"moved", "received"}
        BY <3>1 DEF GitInv, WriterRecords
      <4> QED
        BY <3>1, <4>1 DEF Mover, PastCheck
    <3>3. ProtectedRefsAdvance
      BY <3>1, <3>2, CheckedMoveIsSafe DEF ProtectedRefsAdvance
    <3>4. ArchivedIsFrozen
      BY <3>1, <3>2 DEF ArchivedIsFrozen, GitInv
    <3> QED
      BY <3>3, <3>4
  <2> QED
    BY <2>1, <2>2 DEF GitNext, UpdateRef, UpdateRefCheck, MergePull, MergeUpdateRef, RecordPush, BeginPush,
         BeginSshPush, SpawnReceivePack, PreReceive, FinishPush, AbortPush, SetArchived
<1> QED
  BY <1>1, <1>2, GitInitHolds, PTL DEF GitSpec, RefsMoveByTheRules

-----------------------------------------------------------------------------
(* The LFS store.  The digest is taken of what was read, and the file that   *)
(* is renamed holds exactly that, because no other upload has its name.      *)

UploadRecords ==
    [at : {"idle", "reading", "verified", "absent", "published"}, oid : LfsOids \cup {NoUpload.oid},
     body : Seq(Chunks), read : Nat, expected : Int, tmp : Nat]

HasFile(u) == upload[u].at \in {"reading", "verified", "absent"}

\* The temporary file of an upload holds what was read of its body.
FileInv(u) ==
    LET s == upload[u] IN
    /\ HasFile(u) =>
          /\ s.oid \in LfsOids /\ s.read <= Len(s.body)
          /\ s.tmp \in DOMAIN temps /\ s.tmp < nextTemp
          /\ temps[s.tmp] = [i \in 1 .. s.read |-> s.body[i]]
    /\ s.at \in {"verified", "absent"} => s.read = Len(s.body) /\ s.body = Content[s.oid]
    /\ s.at = "published" => s.oid \in DOMAIN objects

ObjectsInv ==
    /\ DOMAIN objects \subseteq LfsOids
    /\ \A o \in DOMAIN objects : objects[o] = Content[o]
    /\ durable \subseteq DOMAIN objects
    /\ stops \in Nat
    /\ stops = 0 => told \subseteq DOMAIN objects

LfsInv ==
    /\ upload \in [Uploaders -> UploadRecords]
    /\ nextTemp \in Nat
    /\ \A u \in Uploaders : FileInv(u)
    /\ \A u, v \in Uploaders : HasFile(u) /\ HasFile(v) /\ u # v => upload[u].tmp # upload[v].tmp
    /\ ObjectsInv

LEMMA NoUploadIsARecord == NoUpload \in UploadRecords /\ NoUpload.at = "idle"
  BY DEF NoUpload, UploadRecords

LEMMA LfsInitHolds == LfsInit => LfsInv
<1> SUFFICES ASSUME LfsInit PROVE LfsInv
  OBVIOUS
<1>1. /\ upload \in [Uploaders -> UploadRecords] /\ nextTemp \in Nat
      /\ \A u \in Uploaders : upload[u].at = "idle"
  BY NoUploadIsARecord DEF LfsInit
<1>2. ObjectsInv
  BY DEF LfsInit, ObjectsInv
<1> QED
  BY <1>1, <1>2 DEF LfsInv, FileInv, HasFile

\* An upload that ends, with or without having published.
LEMMA UploadEnds ==
    ASSUME LfsInv, NEW u \in Uploaders, upload' = [upload EXCEPT ![u] = NoUpload],
           temps' = temps \/ (HasFile(u) /\ temps' = Removed(temps, upload[u].tmp)),
           nextTemp' = nextTemp, objects' = objects, ObjectsInv'
    PROVE  LfsInv'
<1>1. /\ upload' \in [Uploaders -> UploadRecords] /\ upload'[u].at = "idle"
      /\ \A v \in Uploaders \ {u} : upload'[v] = upload[v]
  BY NoUploadIsARecord DEF LfsInv
<1>2. ASSUME NEW v \in Uploaders \ {u}, HasFile(v)
      PROVE  upload[v].tmp \in DOMAIN temps' /\ temps'[upload[v].tmp] = temps[upload[v].tmp]
  BY <1>2 DEF LfsInv, FileInv, Removed
<1>3. \A v \in Uploaders : HasFile(v)' => v # u /\ HasFile(v)
  BY <1>1 DEF HasFile
<1>4. ASSUME NEW v \in Uploaders PROVE FileInv(v)'
  <2>1. CASE v = u
    BY <1>1, <2>1 DEF FileInv, HasFile
  <2>2. CASE v # u
    BY <1>1, <1>2, <1>3, <2>2 DEF LfsInv, FileInv
  <2> QED
    BY <2>1, <2>2
<1> QED
  BY <1>1, <1>3, <1>4 DEF LfsInv

LEMMA FailUploadKeeps ==
    ASSUME LfsInv, NEW u \in Uploaders, HasFile(u), FailUpload(u)
    PROVE  LfsInv'
<1>1. ObjectsInv'
  BY DEF LfsInv, ObjectsInv, FailUpload
<1> QED
  BY <1>1, UploadEnds DEF FailUpload

\* An upload that goes on, with the files of the others left alone.
LEMMA UploadGoesOn ==
    ASSUME LfsInv, NEW u \in Uploaders, NEW s \in UploadRecords, upload' = [upload EXCEPT ![u] = s],
           nextTemp' \in Nat, nextTemp <= nextTemp', DOMAIN objects \subseteq DOMAIN objects',
           \A v \in Uploaders \ {u} : HasFile(v) =>
              /\ upload[v].tmp \in DOMAIN temps' /\ temps'[upload[v].tmp] = temps[upload[v].tmp]
              /\ HasFile(u)' => upload[v].tmp # s.tmp,
           FileInv(u)', ObjectsInv'
    PROVE  LfsInv'
<1>1. /\ upload' \in [Uploaders -> UploadRecords] /\ upload'[u] = s
      /\ \A v \in Uploaders \ {u} : upload'[v] = upload[v]
  BY DEF LfsInv
<1>2. \A v \in Uploaders \ {u} : HasFile(v)' <=> HasFile(v)
  BY <1>1 DEF HasFile
<1>3. ASSUME NEW v \in Uploaders \ {u} PROVE FileInv(v)'
  <2>1. FileInv(v) /\ upload[v].tmp \in Nat /\ nextTemp \in Nat
    BY DEF LfsInv, UploadRecords
  <2>2. HasFile(v) => upload[v].tmp < nextTemp'
    BY <2>1 DEF FileInv
  <2> QED
    BY <1>1, <1>2, <2>1, <2>2 DEF FileInv
<1>4. \A v, x \in Uploaders : HasFile(v)' /\ HasFile(x)' /\ v # x => upload'[v].tmp # upload'[x].tmp
  BY <1>1, <1>2 DEF LfsInv
<1> QED
  BY <1>1, <1>3, <1>4 DEF LfsInv

LEMMA StartUploadKeeps ==
    ASSUME LfsInv, NEW u \in Uploaders, StartUpload(u)
    PROVE  LfsInv'
<1>1. PICK o \in LfsOids, body \in Bodies : \E expected \in {-1, Len(body), Len(body) + 1} :
           upload' = [upload EXCEPT ![u] = [at |-> "reading", oid |-> o, body |-> body,
                             read |-> 0, expected |-> expected, tmp |-> TempName]]
  BY DEF StartUpload
<1>2. body \in Seq(Chunks) /\ Len(body) \in Nat
  BY LfsAssumption
<1>3. PICK expected \in {-1, Len(body), Len(body) + 1} :
           upload' = [upload EXCEPT ![u] = [at |-> "reading", oid |-> o, body |-> body,
                             read |-> 0, expected |-> expected, tmp |-> TempName]]
  BY <1>1
<1>3a. expected \in Int
  BY <1>2
<1>4. PICK n \in Nat : n = nextTemp
  BY DEF LfsInv
<1> DEFINE s == [at |-> "reading", oid |-> o, body |-> body, read |-> 0, expected |-> expected, tmp |-> n]
<1>5. /\ s \in UploadRecords /\ s.at = "reading" /\ s.oid = o /\ s.body = body /\ s.read = 0 /\ s.tmp = n
  BY <1>2, <1>3a DEF UploadRecords
<1>6. /\ upload' = [upload EXCEPT ![u] = s] /\ nextTemp' = n + 1
      /\ temps' = Updated(temps, n, <<>>) /\ UNCHANGED <<objects, durable, told, stops>>
  BY <1>3, <1>4 DEF StartUpload, TempName
<1> HIDE DEF s
<1>7. /\ DOMAIN temps' = DOMAIN temps \cup {n} /\ temps'[n] = <<>>
      /\ \A m \in DOMAIN temps : m # n => temps'[m] = temps[m]
  BY <1>6 DEF Updated
<1>8. FileInv(u)'
  <2>1. upload'[u] = s
    BY <1>6 DEF LfsInv
  <2>2. temps'[s.tmp] = [i \in 1 .. s.read |-> s.body[i]]
    BY <1>5, <1>7
  <2>3. s.read <= Len(s.body) /\ s.tmp \in DOMAIN temps' /\ s.tmp < nextTemp'
    BY <1>2, <1>5, <1>6, <1>7
  <2> QED
    BY <1>5, <2>1, <2>2, <2>3 DEF FileInv, HasFile
<1>9. ASSUME NEW v \in Uploaders \ {u}, HasFile(v)
      PROVE  /\ upload[v].tmp \in DOMAIN temps' /\ temps'[upload[v].tmp] = temps[upload[v].tmp]
             /\ upload[v].tmp # s.tmp
  <2>1. upload[v].tmp \in DOMAIN temps /\ upload[v].tmp < n /\ upload[v].tmp \in Nat
    BY <1>4, <1>9 DEF LfsInv, FileInv, UploadRecords
  <2> QED
    BY <1>5, <1>7, <2>1
<1>10. ObjectsInv' /\ DOMAIN objects \subseteq DOMAIN objects'
  BY <1>6 DEF LfsInv, ObjectsInv
<1>11. nextTemp' \in Nat /\ nextTemp <= nextTemp'
  BY <1>4, <1>6
<1> QED
  BY <1>5, <1>6, <1>8, <1>9, <1>10, <1>11, UploadGoesOn

LEMMA ReadChunkKeeps ==
    ASSUME LfsInv, NEW u \in Uploaders, ReadChunk(u)
    PROVE  LfsInv'
<1>0. upload[u] \in UploadRecords /\ HasFile(u) /\ upload[u].at = "reading"
  BY DEF LfsInv, ReadChunk, HasFile
<1>1. CASE FailUpload(u)
  BY <1>0, <1>1, FailUploadKeeps
<1>2. CASE ~FailUpload(u)
  <2>1. PICK f \in Nat : f = upload[u].tmp
    BY <1>0 DEF UploadRecords
  <2>2. PICK r \in Nat : r = upload[u].read
    BY <1>0 DEF UploadRecords
  <2>3. PICK body \in Seq(Chunks) : body = upload[u].body
    BY <1>0 DEF UploadRecords
  <2> DEFINE s == [upload[u] EXCEPT !.read = r + 1]
  <2>4. /\ s \in UploadRecords /\ s.at = "reading" /\ s.oid = upload[u].oid /\ s.body = body
        /\ s.read = r + 1 /\ s.tmp = f
    BY <1>0, <2>1, <2>2, <2>3 DEF UploadRecords
  <2>5. /\ upload' = [upload EXCEPT ![u] = s] /\ r < Len(body)
        /\ temps' = [temps EXCEPT ![f] = WriteAt(@, r + 1, body[r + 1])]
        /\ UNCHANGED <<objects, durable, nextTemp, told, stops>>
    BY <1>2, <2>1, <2>2, <2>3 DEF ReadChunk
  <2>6. /\ s.oid \in LfsOids /\ f \in DOMAIN temps /\ f < nextTemp
        /\ temps[f] = [i \in 1 .. r |-> body[i]]
    BY <1>0, <2>1, <2>2, <2>3, <2>4 DEF LfsInv, FileInv
  <2> HIDE DEF s
  <2>7. WriteAt(temps[f], r + 1, body[r + 1]) = [i \in 1 .. r + 1 |-> body[i]]
    <3>1. Len(temps[f]) = r
      <4>1. temps[f] \in Seq(Chunks)
        BY <2>5, <2>6
      <4> QED
        BY <2>6, <4>1
    <3> QED
      BY <2>6, <3>1 DEF WriteAt
  <2>8. /\ DOMAIN temps' = DOMAIN temps /\ temps'[f] = [i \in 1 .. r + 1 |-> body[i]]
        /\ \A m \in DOMAIN temps \ {f} : temps'[m] = temps[m]
    BY <2>5, <2>6, <2>7
  <2>9. FileInv(u)'
    <3>1. upload'[u] = s
      BY <2>5 DEF LfsInv
    <3>2. s.read <= Len(s.body)
      BY <2>3, <2>4, <2>5
    <3>3. s.tmp \in DOMAIN temps' /\ s.tmp < nextTemp'
      BY <2>4, <2>5, <2>6, <2>8
    <3>4. temps'[s.tmp] = [i \in 1 .. s.read |-> s.body[i]]
      BY <2>4, <2>8
    <3> QED
      BY <2>4, <2>6, <3>1, <3>2, <3>3, <3>4 DEF FileInv, HasFile
  <2>10. ASSUME NEW v \in Uploaders \ {u}, HasFile(v)
         PROVE  /\ upload[v].tmp \in DOMAIN temps' /\ temps'[upload[v].tmp] = temps[upload[v].tmp]
                /\ upload[v].tmp # s.tmp
    <3>1. upload[v].tmp \in DOMAIN temps /\ upload[v].tmp # f
      BY <1>0, <2>1, <2>10 DEF LfsInv, FileInv
    <3> QED
      BY <2>4, <2>8, <3>1
  <2>11. ObjectsInv' /\ nextTemp' \in Nat /\ nextTemp <= nextTemp'
    BY <2>5 DEF LfsInv, ObjectsInv
  <2> QED
    BY <2>4, <2>5, <2>9, <2>10, <2>11, UploadGoesOn
<1> QED
  BY <1>1, <1>2

\* An upload that moves on without touching its file.
LEMMA SameFile ==
    ASSUME LfsInv, NEW u \in Uploaders, HasFile(u), NEW at \in {"verified", "absent"},
           upload' = [upload EXCEPT ![u].at = at],
           upload[u].read = Len(upload[u].body), upload[u].body = Content[upload[u].oid],
           UNCHANGED <<objects, durable, temps, nextTemp, told, stops>>
    PROVE  LfsInv'
<1> DEFINE s == [upload[u] EXCEPT !.at = at]
<1>0. upload[u] \in UploadRecords /\ FileInv(u) /\ upload'[u] = s
  BY DEF LfsInv
<1>1. /\ s \in UploadRecords /\ s.at = at /\ s.oid = upload[u].oid /\ s.body = upload[u].body
      /\ s.read = upload[u].read /\ s.tmp = upload[u].tmp
  BY <1>0 DEF UploadRecords
<1>2. upload' = [upload EXCEPT ![u] = s]
  OBVIOUS
<1> HIDE DEF s
<1>3. FileInv(u)'
  BY <1>0, <1>1 DEF FileInv, HasFile
<1>4. \A v \in Uploaders \ {u} : HasFile(v) => upload[v].tmp \in DOMAIN temps /\ upload[v].tmp # s.tmp
  BY <1>1 DEF LfsInv, FileInv
<1>5. ObjectsInv' /\ nextTemp' \in Nat /\ nextTemp <= nextTemp'
  BY DEF LfsInv, ObjectsInv
<1> QED
  BY <1>1, <1>2, <1>3, <1>4, <1>5, UploadGoesOn

LEMMA PublishKeeps ==
    ASSUME LfsInv, NEW u \in Uploaders, Publish(u)
    PROVE  LfsInv'
<1> DEFINE s == [upload[u] EXCEPT !.at = "published"]
<1>0. upload[u] \in UploadRecords /\ FileInv(u) /\ HasFile(u) /\ upload[u].at = "absent"
  BY DEF LfsInv, Publish, HasFile
<1>1. /\ s \in UploadRecords /\ s.at = "published" /\ s.oid = upload[u].oid /\ s.tmp = upload[u].tmp
  BY <1>0 DEF UploadRecords
<1>2. /\ upload' = [upload EXCEPT ![u] = s] /\ upload'[u] = s
      /\ objects' = Updated(objects, upload[u].oid, temps[upload[u].tmp])
      /\ temps' = Removed(temps, upload[u].tmp)
      /\ UNCHANGED <<durable, nextTemp, told, stops>>
  BY DEF Publish, LfsInv
<1> HIDE DEF s
<1>3. temps[upload[u].tmp] = Content[upload[u].oid] /\ upload[u].oid \in LfsOids
  <2>1. /\ upload[u].read = Len(upload[u].body) /\ upload[u].body = Content[upload[u].oid]
        /\ temps[upload[u].tmp] = [i \in 1 .. upload[u].read |-> upload[u].body[i]]
        /\ upload[u].oid \in LfsOids
    BY <1>0 DEF FileInv
  <2>2. upload[u].body \in Seq(Chunks)
    BY <1>0 DEF UploadRecords
  <2>3. upload[u].body = [i \in 1 .. Len(upload[u].body) |-> upload[u].body[i]]
    BY <2>2
  <2> QED
    BY <2>1, <2>3
<1>4. /\ DOMAIN objects' = DOMAIN objects \cup {upload[u].oid}
      /\ objects'[upload[u].oid] = Content[upload[u].oid]
      /\ \A o \in DOMAIN objects : o # upload[u].oid => objects'[o] = objects[o]
  BY <1>2, <1>3 DEF Updated
<1>5. ObjectsInv'
  BY <1>2, <1>3, <1>4 DEF LfsInv, ObjectsInv
<1>6. FileInv(u)'
  BY <1>1, <1>2, <1>4 DEF FileInv, HasFile
<1>7. ASSUME NEW v \in Uploaders \ {u}, HasFile(v)
      PROVE  upload[v].tmp \in DOMAIN temps' /\ temps'[upload[v].tmp] = temps[upload[v].tmp]
  <2>1. upload[v].tmp \in DOMAIN temps /\ upload[v].tmp # upload[u].tmp
    BY <1>0, <1>7 DEF LfsInv, FileInv
  <2> QED
    BY <1>2, <2>1 DEF Removed
<1>8. nextTemp' \in Nat /\ nextTemp <= nextTemp' /\ ~HasFile(u)'
  BY <1>1, <1>2 DEF LfsInv, HasFile
<1> QED
  BY <1>1, <1>2, <1>4, <1>5, <1>6, <1>7, <1>8, UploadGoesOn

LEMMA LfsNextKeeps ==
    ASSUME LfsInv, LfsNext
    PROVE  LfsInv'
<1>1. ASSUME NEW u \in Uploaders, ReadFails(u) \/ RenameFails(u) PROVE LfsInv'
  BY <1>1, FailUploadKeeps DEF ReadFails, RenameFails, HasFile
<1>2. ASSUME NEW u \in Uploaders, VerifyUpload(u) PROVE LfsInv'
  <2>1. HasFile(u)
    BY <1>2 DEF VerifyUpload, HasFile
  <2>2. CASE BodyVerifies(upload[u])
    BY <1>2, <2>1, <2>2, SameFile DEF VerifyUpload, BodyVerifies
  <2>3. CASE ~BodyVerifies(upload[u])
    BY <1>2, <2>1, <2>3, FailUploadKeeps DEF VerifyUpload
  <2> QED
    BY <2>2, <2>3
<1>3. ASSUME NEW u \in Uploaders, FoundPublished(u) PROVE LfsInv'
  <2>1. ObjectsInv'
    BY <1>3 DEF LfsInv, ObjectsInv, FoundPublished
  <2> QED
    BY <1>3, <2>1, UploadEnds DEF FoundPublished, HasFile
<1>4. ASSUME NEW u \in Uploaders, LookForPublished(u) PROVE LfsInv'
  <2>1. HasFile(u) /\ upload[u].read = Len(upload[u].body) /\ upload[u].body = Content[upload[u].oid]
    BY <1>4 DEF LookForPublished, HasFile, LfsInv, FileInv
  <2> QED
    BY <1>4, <2>1, SameFile DEF LookForPublished
<1>5. ASSUME NEW u \in Uploaders, SyncDir(u) PROVE LfsInv'
  <2>1. upload[u].oid \in DOMAIN objects
    BY <1>5 DEF SyncDir, LfsInv, FileInv
  <2>2. ObjectsInv'
    BY <1>5, <2>1 DEF LfsInv, ObjectsInv, SyncDir
  <2> QED
    BY <1>5, <2>2, UploadEnds DEF SyncDir
<1>6. ASSUME NEW o \in DOMAIN objects, ToldStored(o) PROVE LfsInv'
  BY <1>6 DEF ToldStored, LfsInv, ObjectsInv, FileInv, HasFile
<1>7. ASSUME NEW o \in LfsOids, LfsDownload(o) PROVE LfsInv'
  BY <1>6, <1>7 DEF LfsDownload, Download
<1>8. ASSUME NEW o \in LfsOids, NEW body \in Bodies, LfsVerify(o, Len(body)) PROVE LfsInv'
  BY <1>6, <1>8 DEF LfsVerify, VerifyAnswer
<1>9. ASSUME NEW o \in LfsOids, NEW body \in Bodies, NEW write \in BOOLEAN, LfsBatch(o, Len(body), write)
      PROVE  LfsInv'
  BY <1>6, <1>9 DEF LfsBatch, BatchAnswer, UploadAnswer, DownloadAnswer
<1>10. CASE MachineStops
  <2>1. /\ upload' \in [Uploaders -> UploadRecords] /\ \A u \in Uploaders : upload'[u].at = "idle"
    BY <1>10, NoUploadIsARecord DEF MachineStops
  <2>2. ObjectsInv'
    BY <1>10 DEF LfsInv, ObjectsInv, MachineStops
  <2> QED
    BY <1>10, <2>1, <2>2 DEF LfsInv, FileInv, HasFile, MachineStops
<1> QED
  BY <1>1, <1>2, <1>3, <1>4, <1>5, <1>7, <1>8, <1>9, <1>10, StartUploadKeeps, ReadChunkKeeps, PublishKeeps DEF LfsNext

\* A published object has the content its id names, every answer from the store
\* agrees with it, and until the machine stops what a client was told is stored
\* is there (put_reader_with_limit, create_temp_file, lfs_batch, lfs_verify).
THEOREM ObjectsAreWhole == LfsSpec => []PublishedIsWhole
<1>1. LfsInv /\ [LfsNext]_lfsVars => LfsInv'
  <2>1. LfsInv /\ UNCHANGED lfsVars => LfsInv'
    BY DEF lfsVars, LfsInv, ObjectsInv, FileInv, HasFile
  <2> QED
    BY <2>1, LfsNextKeeps
<1>2. LfsInv => PublishedIsWhole
  <2> SUFFICES ASSUME LfsInv PROVE PublishedIsWhole
    OBVIOUS
  <2>1. \A o \in DOMAIN objects : objects[o] = Content[o] /\ o \in LfsOids
    BY DEF LfsInv, ObjectsInv
  <2>2. ASSUME NEW o \in DOMAIN objects, NEW body \in Bodies
        PROVE  /\ VerifyAnswer(o, Len(body)) <=> Len(body) = Len(Content[o])
               /\ BatchAnswer(o, Len(body), FALSE) = "download" => Len(body) = Len(Content[o])
               /\ BatchAnswer(o, Len(body), TRUE) # "upload"
    BY <2>1 DEF VerifyAnswer, BatchAnswer, UploadAnswer, DownloadAnswer
  <2> QED
    BY <2>1, <2>2 DEF PublishedIsWhole, LfsInv, ObjectsInv
<1> QED
  BY <1>1, <1>2, LfsInitHolds, PTL DEF LfsSpec

-----------------------------------------------------------------------------
(* The token registry.  However commands overwrite each other's files, each  *)
(* record anywhere is the token its command minted, and a command mints one. *)

Pats == [id : TokenIds, secret : Commands, login : TokenOwners, scopes : SUBSET Scopes]
Keys == [fingerprint : Fingerprints, login : TokenOwners]
StoreRecords(kinds) == [is : kinds, pats : SUBSET Pats, keys : SUBSET Keys]
Copies == StoreRecords({"json"})
Registries == StoreRecords({"json", "corrupt"})
TmpFiles == StoreRecords({"json", "absent", "empty", "mixed"})
CommandRecords ==
    [at : {"start", "loaded", "flush", "write", "rename", "done", "failed"},
     store : Copies, token : SUBSET Pats]

\* Each of these tokens is the one the command that names its secret minted.
Minted(pats) == \A p \in pats : command[p.secret].token = {p}

AuthInv ==
    /\ registry \in Registries /\ tmpFile \in TmpFiles
    /\ command \in [Commands -> CommandRecords]
    /\ minted \subseteq Pats
    /\ Minted(registry.pats) /\ Minted(tmpFile.pats) /\ Minted(minted)
    /\ \A c \in Commands :
          /\ Minted(command[c].store.pats) /\ Minted(command[c].token)
          /\ command[c].at \in {"start", "loaded"} => command[c].token = {}

LEMMA BlankIsEmpty ==
    /\ \A file : Blank(file).pats = {} /\ Blank(file).is = file
    /\ Blank("json") \in Copies \cap Registries /\ Blank("corrupt") \in Registries
    /\ \A file \in {"absent", "empty", "mixed"} : Blank(file) \in TmpFiles
  BY DEF Blank, Copies, Registries, TmpFiles, StoreRecords

LEMMA ReadyIsACommand ==
    /\ Ready \in CommandRecords /\ Ready.at = "start" /\ Ready.token = {} /\ Ready.store = EmptyStore
    /\ EmptyStore \in Copies \cap Registries /\ EmptyStore.pats = {}
  BY BlankIsEmpty DEF Ready, CommandRecords, EmptyStore

LEMMA AuthInitHolds == AuthInit => AuthInv
  BY BlankIsEmpty, ReadyIsACommand DEF AuthInit, AuthInv, Minted

\* A step of one command that mints nothing.
LEMMA NothingMinted ==
    ASSUME AuthInv, NEW c \in Commands, NEW s \in CommandRecords, command' = [command EXCEPT ![c] = s],
           s.token = command[c].token, s.at # "start",
           s.at = "loaded" => command[c].at = "start",
           s.store.pats \subseteq command[c].store.pats \cup registry.pats,
           registry' \in Registries, tmpFile' \in TmpFiles,
           registry'.pats \subseteq registry.pats \cup tmpFile.pats \cup command[c].store.pats,
           tmpFile'.pats \subseteq tmpFile.pats \cup command[c].store.pats,
           minted' \subseteq minted \cup command[c].token
    PROVE  AuthInv'
<1>1. /\ command' \in [Commands -> CommandRecords] /\ command'[c] = s
      /\ \A d \in Commands \ {c} : command'[d] = command[d]
  BY DEF AuthInv
<1>2. \A d \in Commands : command'[d].token = command[d].token
  BY <1>1
<1>3. command[c].token \subseteq Pats /\ command[c].store.pats \subseteq Pats
  BY DEF AuthInv, CommandRecords, Copies, Registries, TmpFiles, StoreRecords
<1>4. registry.pats \subseteq Pats /\ tmpFile.pats \subseteq Pats
  BY DEF AuthInv, Copies, Registries, TmpFiles, StoreRecords
<1>5. \A p \in Pats : p.secret \in Commands
  BY DEF Pats
<1>6. Minted(registry'.pats) /\ Minted(tmpFile'.pats) /\ Minted(minted') /\ Minted(s.store.pats)
  BY DEF AuthInv, Minted
<1>7. /\ registry'.pats \subseteq Pats /\ tmpFile'.pats \subseteq Pats /\ s.store.pats \subseteq Pats
      /\ minted' \subseteq Pats
  BY <1>3, <1>4 DEF AuthInv
<1>8. (Minted(registry.pats) /\ Minted(tmpFile.pats) /\ Minted(minted))'
  BY <1>2, <1>5, <1>6, <1>7 DEF Minted
<1>9. ASSUME NEW d \in Commands
      PROVE  (/\ Minted(command[d].store.pats) /\ Minted(command[d].token)
              /\ command[d].at \in {"start", "loaded"} => command[d].token = {})'
  <2>1. command'[d].token \subseteq Pats /\ command'[d].store.pats \subseteq Pats
    BY <1>1 DEF CommandRecords, Copies, Registries, TmpFiles, StoreRecords
  <2>2. Minted(command[d].token)'
    BY <1>2, <1>5, <2>1 DEF AuthInv, Minted
  <2>3. CASE d = c
    <3>1. Minted(command[d].store.pats)'
      BY <1>1, <1>2, <1>5, <1>6, <1>7, <2>3 DEF Minted
    <3>2. command'[d].at \in {"start", "loaded"} => command'[d].token = {}
      BY <1>1, <2>3 DEF AuthInv
    <3> QED
      BY <2>2, <3>1, <3>2
  <2>4. CASE d # c
    <3>1. command'[d] = command[d]
      BY <1>1, <2>4
    <3>2. Minted(command[d].store.pats)'
      BY <1>2, <1>5, <2>1, <3>1 DEF AuthInv, Minted
    <3> QED
      BY <2>2, <3>1, <3>2 DEF AuthInv
  <2> QED
    BY <2>3, <2>4
<1> QED
  BY <1>1, <1>7, <1>8, <1>9 DEF AuthInv

\* A step that only moves a command on, with the files it may have written.
LEMMA CommandGoesOn ==
    ASSUME AuthInv, NEW c \in Commands, NEW at \in {"flush", "write", "rename", "done", "failed"},
           command' = [command EXCEPT ![c].at = at],
           registry' \in Registries, tmpFile' \in TmpFiles,
           registry'.pats \subseteq registry.pats \cup tmpFile.pats \cup command[c].store.pats,
           tmpFile'.pats \subseteq tmpFile.pats \cup command[c].store.pats,
           minted' \subseteq minted \cup command[c].token
    PROVE  AuthInv'
<1> DEFINE s == [command[c] EXCEPT !.at = at]
<1>1. command[c] \in CommandRecords
  BY DEF AuthInv
<1>2. s \in CommandRecords /\ s.at = at /\ s.token = command[c].token /\ s.store = command[c].store
  BY <1>1 DEF CommandRecords
<1>3. command' = [command EXCEPT ![c] = s]
  OBVIOUS
<1> HIDE DEF s
<1> QED
  BY <1>2, <1>3, NothingMinted

LEMMA OpenRegistryKeeps ==
    ASSUME AuthInv, NEW c \in Commands, OpenRegistry(c)
    PROVE  AuthInv'
<1>1. command[c].token = {} /\ registry \in Registries /\ tmpFile \in TmpFiles
  BY DEF AuthInv, OpenRegistry
<1>2. PICK s : s = IF registry.is = "corrupt" THEN [Ready EXCEPT !.at = "failed"]
                   ELSE [Ready EXCEPT !.at = "loaded", !.store = registry]
  OBVIOUS
<1>2a. registry.is # "corrupt" => registry \in Copies
  BY <1>1 DEF Copies, Registries, StoreRecords
<1>3. /\ s \in CommandRecords /\ s.token = {} /\ s.at \in {"failed", "loaded"}
      /\ s.store \in {EmptyStore, registry}
  BY <1>2, <1>2a, ReadyIsACommand DEF CommandRecords, Ready
<1>4. command' = [command EXCEPT ![c] = s] /\ UNCHANGED <<registry, tmpFile, minted>> /\ command[c].at = "start"
  BY <1>2 DEF OpenRegistry
<1>5. s.store.pats \subseteq registry.pats
  BY <1>3, ReadyIsACommand
<1> QED
  BY <1>1, <1>3, <1>4, <1>5, NothingMinted

LEMMA MintPatKeeps ==
    ASSUME AuthInv, NEW c \in Commands, MintPat(c)
    PROVE  AuthInv'
<1>1. PICK id \in TokenIds, owner \in TokenOwners, scopes \in {{"repo:read"}, Scopes} :
          LET pat == [id |-> id, secret |-> c, login |-> owner, scopes |-> scopes] IN
          command' = [command EXCEPT ![c].at = "flush", ![c].token = {pat},
                         ![c].store.pats = @ \cup {pat}]
  BY DEF MintPat
<1>2. PICK pat : pat = [id |-> id, secret |-> c, login |-> owner, scopes |-> scopes]
  OBVIOUS
<1>3. pat \in Pats /\ pat.secret = c
  BY <1>2 DEF Pats, Scopes
<1>4. command[c] \in CommandRecords /\ command[c].store \in Copies
  BY DEF AuthInv, CommandRecords
<1> DEFINE t == [command[c].store EXCEPT !.pats = @ \cup {pat}]
           s == [command[c] EXCEPT !.at = "flush", !.token = {pat}, !.store = t]
<1>5. t \in Copies /\ t.pats = command[c].store.pats \cup {pat}
  BY <1>3, <1>4 DEF Copies, Registries, TmpFiles, StoreRecords
<1>6. command' = [command EXCEPT ![c] = s]
  BY <1>1, <1>2, <1>4 DEF CommandRecords
<1> HIDE DEF t
<1>7. s \in CommandRecords /\ s.at = "flush" /\ s.token = {pat} /\ s.store = t
  BY <1>3, <1>4, <1>5 DEF CommandRecords
<1> HIDE DEF s
<1>8. command[c].token = {} /\ UNCHANGED <<registry, tmpFile, minted>>
  BY DEF AuthInv, MintPat
<1>9. /\ command' \in [Commands -> CommandRecords] /\ command'[c] = s
      /\ \A d \in Commands \ {c} : command'[d] = command[d]
  BY <1>6, <1>7 DEF AuthInv
<1>10. ASSUME NEW P \in SUBSET Pats, Minted(P)
       PROVE  \A p \in P : command'[p.secret].token = {p}
  <2>1. ASSUME NEW p \in P PROVE p.secret \in Commands \ {c}
    BY <1>8, <1>10, <2>1 DEF Minted, Pats
  <2> QED
    BY <1>9, <1>10, <2>1 DEF Minted
<1>11. /\ registry.pats \in SUBSET Pats /\ tmpFile.pats \in SUBSET Pats /\ minted \in SUBSET Pats
       /\ \A d \in Commands : command[d].store.pats \in SUBSET Pats /\ command[d].token \in SUBSET Pats
  BY DEF AuthInv, Copies, Registries, TmpFiles, StoreRecords, CommandRecords
<1>12. (Minted(registry.pats) /\ Minted(tmpFile.pats) /\ Minted(minted))'
  <2>1. /\ \A p \in registry.pats : command'[p.secret].token = {p}
        /\ \A p \in tmpFile.pats : command'[p.secret].token = {p}
        /\ \A p \in minted : command'[p.secret].token = {p}
    BY <1>10, <1>11 DEF AuthInv
  <2> QED
    BY <1>8, <2>1 DEF Minted
<1>13. ASSUME NEW d \in Commands
       PROVE  (/\ Minted(command[d].store.pats) /\ Minted(command[d].token)
               /\ command[d].at \in {"start", "loaded"} => command[d].token = {})'
  <2>1. /\ \A p \in command[d].store.pats : command'[p.secret].token = {p}
        /\ \A p \in command[d].token : command'[p.secret].token = {p}
    BY <1>10, <1>11 DEF AuthInv
  <2>2. CASE d = c
    <3>1. command'[pat.secret].token = {pat}
      BY <1>3, <1>7, <1>9
    <3> QED
      BY <1>5, <1>7, <1>9, <2>1, <2>2, <3>1 DEF Minted
  <2>3. CASE d # c
    <3>1. command'[d] = command[d]
      BY <1>9, <2>3
    <3> QED
      BY <2>1, <3>1 DEF Minted, AuthInv
  <2> QED
    BY <2>2, <2>3
<1> QED
  BY <1>8, <1>9, <1>12, <1>13 DEF AuthInv

LEMMA RegisterSshKeyKeeps ==
    ASSUME AuthInv, NEW c \in Commands, RegisterSshKey(c)
    PROVE  AuthInv'
<1>1. PICK f \in Fingerprints, owner \in TokenOwners :
          command' = [command EXCEPT ![c].at = "flush",
                         ![c].store.keys = {k \in @ : k.fingerprint # f}
                                           \cup {[fingerprint |-> f, login |-> owner]}]
  BY DEF RegisterSshKey
<1>2. command[c] \in CommandRecords /\ command[c].store \in Copies
  BY DEF AuthInv, CommandRecords
<1>3. PICK key \in Keys : key = [fingerprint |-> f, login |-> owner]
  BY DEF Keys
<1> DEFINE t == [command[c].store EXCEPT !.keys = {k \in @ : k.fingerprint # f} \cup {key}]
           s == [command[c] EXCEPT !.at = "flush", !.store = t]
<1>4. t \in Copies /\ t.pats = command[c].store.pats
  BY <1>2 DEF Copies, Registries, TmpFiles, StoreRecords
<1>5. command' = [command EXCEPT ![c] = s]
  BY <1>1, <1>2, <1>3 DEF CommandRecords
<1> HIDE DEF t
<1>6. s \in CommandRecords /\ s.at = "flush" /\ s.token = command[c].token /\ s.store = t
  BY <1>2, <1>4 DEF CommandRecords
<1> HIDE DEF s
<1>7. UNCHANGED <<registry, tmpFile, minted>> /\ registry \in Registries /\ tmpFile \in TmpFiles
  BY DEF RegisterSshKey, AuthInv
<1> QED
  BY <1>4, <1>5, <1>6, <1>7, NothingMinted

LEMMA AuthNextKeeps ==
    ASSUME AuthInv, AuthNext
    PROVE  AuthInv'
<1>0. registry \in Registries /\ tmpFile \in TmpFiles
  BY DEF AuthInv
<1>1. ASSUME NEW c \in Commands, TruncateTmp(c) PROVE AuthInv'
  BY <1>0, <1>1, BlankIsEmpty, CommandGoesOn DEF TruncateTmp
<1>2. ASSUME NEW c \in Commands, WriteTmp(c) PROVE AuthInv'
  <2>1. command[c].store \in Copies
    BY DEF AuthInv, CommandRecords
  <2>2. /\ registry' \in {registry, Blank("corrupt"), command[c].store}
        /\ tmpFile' \in {tmpFile, Blank("mixed"), command[c].store}
    BY <1>2 DEF WriteTmp
  <2>3. /\ registry' \in Registries /\ tmpFile' \in TmpFiles
        /\ registry'.pats \subseteq registry.pats \cup command[c].store.pats
        /\ tmpFile'.pats \subseteq tmpFile.pats \cup command[c].store.pats
    <3>1. command[c].store \in Registries /\ command[c].store \in TmpFiles
      BY <2>1 DEF Copies, Registries, TmpFiles, StoreRecords
    <3> QED
      BY <1>0, <2>2, <3>1, BlankIsEmpty
  <2> QED
    BY <1>2, <2>3, CommandGoesOn DEF WriteTmp
<1>3. ASSUME NEW c \in Commands, RenameTmp(c) PROVE AuthInv'
  <2>1. CASE tmpFile.is = "absent"
    BY <1>0, <1>3, <2>1, CommandGoesOn DEF RenameTmp
  <2>2. CASE tmpFile.is # "absent"
    <3>1. tmpFile.is \in {"json", "empty", "mixed"}
      BY <1>0, <2>2 DEF TmpFiles, StoreRecords
    <3>2. tmpFile.is = "json" => tmpFile \in Registries
      BY <1>0 DEF TmpFiles, Registries, StoreRecords
    <3>3. registry' \in Registries /\ registry'.pats \subseteq tmpFile.pats
      <4>1. CASE tmpFile.is = "json"
        BY <1>3, <3>2, <4>1 DEF RenameTmp
      <4>2. CASE tmpFile.is = "empty"
        BY <1>3, <4>2, ReadyIsACommand DEF RenameTmp
      <4>3. CASE tmpFile.is = "mixed"
        BY <1>3, <4>3, BlankIsEmpty DEF RenameTmp
      <4> QED
        BY <3>1, <4>1, <4>2, <4>3
    <3> QED
      BY <1>3, <2>2, <3>3, BlankIsEmpty, CommandGoesOn DEF RenameTmp
  <2> QED
    BY <2>1, <2>2
<1> QED
  BY <1>1, <1>2, <1>3, OpenRegistryKeeps, MintPatKeeps, RegisterSshKeyKeeps DEF AuthNext

\* A printed token answers for its own login within its own scopes or for
\* nobody, in every interleaving of the commands that rewrite the registry
\* (mint_pat, register_ssh_key, flush, verify_pat, decide).
THEOREM TokensAreTheirOwners == AuthSpec => []TokensNameTheirOwner
<1>1. AuthInv /\ [AuthNext]_authVars => AuthInv'
  <2>1. AuthInv /\ UNCHANGED authVars => AuthInv'
    BY DEF authVars, AuthInv, Minted
  <2> QED
    BY <2>1, AuthNextKeeps
<1>2. AuthInv => TokensNameTheirOwner
  <2> SUFFICES ASSUME AuthInv, NEW t \in minted
               PROVE  /\ VerifyPat(registry, t) \subseteq {[login |-> t.login, scopes |-> t.scopes]}
                      /\ \A owner \in TokenOwners, write \in BOOLEAN, loopback \in BOOLEAN :
                            Decide(registry, {t}, loopback, owner, write) = 200 =>
                                /\ t.login \in {owner, LocalOperator}
                                /\ (IF write THEN "repo:write" ELSE "repo:read") \in t.scopes
    BY DEF TokensNameTheirOwner
  <2>1. ASSUME NEW p \in VerifyPat(registry, t)
        PROVE  p = [login |-> t.login, scopes |-> t.scopes]
    <3>1. PICK q \in registry.pats : q.secret = t.secret /\ p = [login |-> q.login, scopes |-> q.scopes]
      BY DEF VerifyPat
    <3>2. q = t
      BY <3>1 DEF AuthInv, Minted
    <3> QED
      BY <3>1, <3>2
  <2>2. ASSUME NEW owner \in TokenOwners, NEW write \in BOOLEAN, NEW loopback \in BOOLEAN,
               Decide(registry, {t}, loopback, owner, write) = 200
        PROVE  /\ t.login \in {owner, LocalOperator}
               /\ (IF write THEN "repo:write" ELSE "repo:read") \in t.scopes
    <3>1. PICK p \in VerifyPat(registry, t) : MayAct(p, owner, write)
      BY <2>2 DEF Decide
    <3>2. p.login = t.login /\ p.scopes = t.scopes
      BY <2>1, <3>1
    <3> QED
      BY <3>1, <3>2 DEF MayAct
  <2> QED
    BY <2>1, <2>2
<1> QED
  BY <1>1, <1>2, AuthInitHolds, PTL DEF AuthSpec

-----------------------------------------------------------------------------
(* Bundles *)

Contents == Versions \cup {NoVersion, Torn}
Places == [at : {"idle", "removing", "creating", "opening", "filling", "over"}, file : 1 .. 5, whole : BOOLEAN]

BundleTypeOK ==
    /\ bundle \in [Files -> Contents]
    /\ folder \in BOOLEAN /\ overlapped \in BOOLEAN
    /\ backup \in [Backups -> Places]
    /\ register \in {"idle", "verified", "over"}

Gone == \A f \in Files : bundle[f] = NoVersion

\* The files before the k-th are of this backup, those behind it are not there.
WrittenTo(b, k) ==
    /\ folder
    /\ \A i \in 1 .. 5 : /\ i < k => bundle[FileOrder[i]] = b
                         /\ i > k => bundle[FileOrder[i]] = NoVersion

\* What a backup has found and left, where it is.
Progress(b) ==
    /\ backup[b].whole => backup[b].at = "over"
    /\ backup[b].at \in {"idle", "removing", "creating"} => backup[b].file = 1
    /\ backup[b].at = "creating" => Gone
    /\ backup[b].at = "opening" => WrittenTo(b, backup[b].file) /\ bundle[FileOrder[backup[b].file]] = NoVersion
    /\ backup[b].at = "filling" => WrittenTo(b, backup[b].file) /\ bundle[FileOrder[backup[b].file]] = Torn

OneWorks ==
    /\ \A b, c \in Backups : Working(b) /\ Working(c) => b = c
    /\ register = "verified" => \A b \in Backups : ~Working(b)

\* A manifest that is whole came last.
ManifestIsLast ==
    bundle["manifest"] \in Versions => \A f \in Files : bundle[f] \in {bundle["manifest"], NoVersion}

\* Nobody works, and nobody stopped or failed.
Quiet == \A b \in Backups : ~Working(b) /\ (backup[b].at = "over" => backup[b].whole)

Uniform == \E v \in Versions : \A f \in Files : bundle[f] = v

Undisturbed ==
    /\ OneWorks
    /\ ~folder => Gone
    /\ \A b \in Backups : Progress(b)
    /\ ManifestIsLast
    /\ Quiet => Uniform
    /\ register = "verified" => bundle["archive"] \in verified
    /\ catalog \subseteq verified

\* What holds of a bundle as long as no two commands overlapped.
BundleInv == BundleTypeOK /\ (~overlapped => Undisturbed)

\* The five files, by their places in the order of writing.
LEMMA FilesAre ==
    /\ Len(FileOrder) = 5
    /\ Files = {FileOrder[i] : i \in 1 .. 5}
    /\ \A i, j \in 1 .. 5 : FileOrder[i] = FileOrder[j] => i = j
    /\ FileOrder[1] = "marker" /\ FileOrder[2] = "archive" /\ FileOrder[5] = "manifest"
  BY DEF Files, FileOrder, ToSet

LEMMA ContentsDiffer ==
    /\ NoVersion \notin Versions /\ Torn \notin Versions /\ Torn # NoVersion
    /\ Backups \subseteq Versions
  BY MirrorAssumption DEF Versions, NoVersion, Torn, Earlier

\* Where only one backup moves, what the others have done stays.
LEMMA StartKeeps ==
  ASSUME BundleInv, NEW b \in Backups, StartBackup(b)
  PROVE  BundleInv'
<1>1. BundleTypeOK'
  BY DEF BundleInv, BundleTypeOK, StartBackup, BackupAt, Places
<1>2. ASSUME ~overlapped' PROVE Undisturbed'
  <2>1. ~overlapped /\ ~SomeoneWorks /\ Undisturbed
    BY <1>2 DEF StartBackup, BundleInv, BundleTypeOK
  <2>2. /\ \A c \in Backups : c # b => backup'[c] = backup[c]
        /\ backup'[b].at \in {"removing", "creating"}
        /\ backup'[b].file = backup[b].file /\ backup'[b].whole = backup[b].whole
        /\ backup[b].at = "idle"
        /\ backup'[b].at = "creating" => ~folder
    BY DEF StartBackup, BackupAt, BundleInv, BundleTypeOK, Places
  <2>3. OneWorks'
    BY <2>1, <2>2 DEF StartBackup, SomeoneWorks, OneWorks, Working
  <2>4. UNCHANGED <<bundle, folder, register, catalog, verified>>
    BY DEF StartBackup
  <2>5. ASSUME NEW c \in Backups PROVE Progress(c)'
    <3>1. CASE c = b
      BY <3>1, <2>1, <2>2, <2>4 DEF Undisturbed, Progress, Gone
    <3>2. CASE c # b
      <4>1. backup'[c] = backup[c] /\ backup[c].at \in {"idle", "over"}
        BY <3>2, <2>1, <2>2 DEF SomeoneWorks, Working
      <4> QED BY <4>1, <2>1 DEF Undisturbed, Progress
    <3> QED BY <3>1, <3>2
  <2>6. ~Quiet'
    BY <2>2 DEF Quiet, Working
  <2>7. (~folder => Gone)' /\ ManifestIsLast' /\ (register = "verified" => bundle["archive"] \in verified)'
        /\ (catalog \subseteq verified)'
    BY <2>1, <2>4 DEF Undisturbed, Gone, ManifestIsLast
  <2> QED BY <2>3, <2>5, <2>6, <2>7 DEF Undisturbed
<1> QED BY <1>1, <1>2 DEF BundleInv

\* What holds while one backup works alone.
LEMMA WorksAlone ==
  ASSUME BundleInv, ~overlapped, NEW b \in Backups, Working(b)
  PROVE  /\ Undisturbed /\ register # "verified"
         /\ \A c \in Backups : c # b => backup[c].at \in {"idle", "over"}
         /\ ~backup[b].whole
  BY DEF BundleInv, Undisturbed, OneWorks, Working, Progress

\* A step of the backup that works alone is judged by what it leaves of it.
LEMMA AloneKeeps ==
  ASSUME BundleInv, ~overlapped, NEW b \in Backups, Working(b),
         \A c \in Backups : c # b => backup'[c] = backup[c],
         UNCHANGED <<register, catalog, verified>>,
         (~folder => Gone)', Progress(b)', ManifestIsLast', (Quiet => Uniform)'
  PROVE  Undisturbed'
<1>1. /\ Undisturbed /\ register # "verified"
      /\ \A c \in Backups : c # b => backup[c].at \in {"idle", "over"}
  BY WorksAlone
<1>2. OneWorks'
  BY <1>1 DEF OneWorks, Working
<1>3. ASSUME NEW c \in Backups, c # b PROVE Progress(c)'
  <2>1. backup'[c] = backup[c] /\ backup[c].at \in {"idle", "over"} /\ Progress(c)
    BY <1>1, <1>3 DEF Undisturbed
  <2> QED BY <2>1 DEF Progress
<1> QED BY <1>1, <1>2, <1>3 DEF Undisturbed

LEMMA RemoveFileKeeps ==
  ASSUME BundleInv, NEW b \in Backups, NEW f \in Files, RemoveFile(b, f)
  PROVE  BundleInv'
<1>1. BundleTypeOK'
  BY DEF BundleInv, BundleTypeOK, RemoveFile, Contents
<1>2. ASSUME ~overlapped' PROVE Undisturbed'
  <2>1. ~overlapped /\ Working(b) /\ UNCHANGED <<folder, backup, register, catalog, verified>>
    BY <1>2 DEF RemoveFile, Working
  <2>2. Undisturbed /\ ~backup[b].whole
    BY <2>1, WorksAlone
  <2>3. \A g \in Files : bundle'[g] = IF g = f THEN NoVersion ELSE bundle[g]
    BY DEF RemoveFile, BundleInv, BundleTypeOK
  <2>4. (~folder => Gone)'
    BY <2>1, <2>2, <2>3 DEF Undisturbed, Gone
  <2>5. Progress(b)'
    BY <2>1, <2>2 DEF Undisturbed, Progress, RemoveFile
  <2>6. ManifestIsLast'
    <3>1. "manifest" \in Files
      BY FilesAre
    <3> QED BY <3>1, <2>2, <2>3, ContentsDiffer DEF Undisturbed, ManifestIsLast
  <2>7. ~Quiet'
    BY <2>1 DEF Quiet, Working
  <2> QED BY <2>1, <2>4, <2>5, <2>6, <2>7, AloneKeeps
<1> QED BY <1>1, <1>2 DEF BundleInv

LEMMA RemoveFolderKeeps ==
  ASSUME BundleInv, NEW b \in Backups, RemoveFolder(b)
  PROVE  BundleInv'
<1>1. BundleTypeOK'
  BY DEF BundleInv, BundleTypeOK, RemoveFolder, BackupAt, Places
<1>2. ASSUME ~overlapped' PROVE Undisturbed'
  <2>1. ~overlapped /\ Working(b) /\ UNCHANGED <<bundle, register, catalog, verified>>
    BY <1>2 DEF RemoveFolder, Working
  <2>2. Undisturbed /\ ~backup[b].whole
    BY <2>1, WorksAlone
  <2>3. /\ \A c \in Backups : c # b => backup'[c] = backup[c]
        /\ backup'[b].at \in {"creating", "over"} /\ backup'[b].file = backup[b].file
        /\ backup'[b].whole = backup[b].whole /\ backup[b].at = "removing"
    BY DEF RemoveFolder, BackupAt, BundleInv, BundleTypeOK, Places
  <2>4. Gone /\ Gone'
    BY <2>1 DEF RemoveFolder, Gone
  <2>5. Progress(b)'
    BY <2>2, <2>3, <2>4 DEF Undisturbed, Progress
  <2>6. ManifestIsLast'
    BY <2>4, FilesAre, ContentsDiffer DEF Gone, ManifestIsLast
  <2>7. ~Quiet'
    BY <2>2, <2>3 DEF Quiet, Working
  <2> QED BY <2>1, <2>3, <2>4, <2>5, <2>6, <2>7, AloneKeeps
<1> QED BY <1>1, <1>2 DEF BundleInv

LEMMA CreateFolderKeeps ==
  ASSUME BundleInv, NEW b \in Backups, CreateFolder(b)
  PROVE  BundleInv'
<1>1. BundleTypeOK'
  BY DEF BundleInv, BundleTypeOK, CreateFolder, BackupAt, Places
<1>2. ASSUME ~overlapped' PROVE Undisturbed'
  <2>1. ~overlapped /\ Working(b) /\ UNCHANGED <<bundle, register, catalog, verified>> /\ folder'
    BY <1>2 DEF CreateFolder, Working
  <2>2. Undisturbed /\ ~backup[b].whole
    BY <2>1, WorksAlone
  <2>3. /\ \A c \in Backups : c # b => backup'[c] = backup[c]
        /\ backup'[b].at = "opening" /\ backup'[b].file = backup[b].file
        /\ backup'[b].whole = backup[b].whole /\ backup[b].at = "creating"
    BY DEF CreateFolder, BackupAt, BundleInv, BundleTypeOK, Places
  <2>4. Gone /\ backup[b].file = 1
    BY <2>2, <2>3 DEF Undisturbed, Progress
  <2>5. Progress(b)'
    <3>1. \A i \in 1 .. 5 : bundle'[FileOrder[i]] = NoVersion
      BY <2>1, <2>4, FilesAre DEF Gone
    <3>2. backup'[b].file = 1
      BY <2>3, <2>4
    <3>3. WrittenTo(b, backup[b].file)'
      BY <2>1, <3>1, <3>2 DEF WrittenTo
    <3>4. bundle'[FileOrder[backup'[b].file]] = NoVersion
      BY <3>1, <3>2
    <3> QED BY <2>2, <2>3, <3>3, <3>4 DEF Progress
  <2>6. ManifestIsLast'
    BY <2>1, <2>2 DEF Undisturbed, ManifestIsLast
  <2>7. ~Quiet'
    BY <2>3 DEF Quiet, Working
  <2> QED BY <2>1, <2>3, <2>5, <2>6, <2>7, AloneKeeps
<1> QED BY <1>1, <1>2 DEF BundleInv

LEMMA OpenFileKeeps ==
  ASSUME BundleInv, NEW b \in Backups, OpenFile(b)
  PROVE  BundleInv'
<1>k. backup[b].file \in 1 .. 5 /\ FileOrder[backup[b].file] \in Files
  BY FilesAre DEF BundleInv, BundleTypeOK, Places
<1>1. BundleTypeOK'
  <2>1. CASE folder
    BY <1>k, <2>1 DEF BundleInv, BundleTypeOK, OpenFile, BackupAt, Places, Contents
  <2>2. CASE ~folder
    BY <2>2 DEF BundleInv, BundleTypeOK, OpenFile, BackupAt, Places
  <2> QED BY <2>1, <2>2
<1>2. ASSUME ~overlapped' PROVE Undisturbed'
  <2>1. ~overlapped /\ Working(b) /\ UNCHANGED <<folder, register, catalog, verified>>
    BY <1>2 DEF OpenFile, Working
  <2>2. Undisturbed /\ ~backup[b].whole
    BY <2>1, WorksAlone
  <2>3. WrittenTo(b, backup[b].file) /\ folder
    BY <2>2 DEF Undisturbed, Progress, OpenFile, WrittenTo
  <2>4. /\ \A c \in Backups : c # b => backup'[c] = backup[c]
        /\ backup'[b].at = "filling" /\ backup'[b].file = backup[b].file
        /\ backup'[b].whole = backup[b].whole
    BY <2>3 DEF OpenFile, BackupAt, BundleInv, BundleTypeOK, Places
  <2>5. \A f \in Files : bundle'[f] = IF f = FileOrder[backup[b].file] THEN Torn ELSE bundle[f]
    BY <2>3 DEF OpenFile, BundleInv, BundleTypeOK
  <2>6. WrittenTo(b, backup[b].file)'
    <3>1. ASSUME NEW i \in 1 .. 5, i # backup[b].file PROVE bundle'[FileOrder[i]] = bundle[FileOrder[i]]
      BY <1>k, <2>5, <3>1, FilesAre
    <3> QED BY <1>k, <2>1, <2>3, <2>4, <3>1 DEF WrittenTo
  <2>7. Progress(b)'
    BY <1>k, <2>2, <2>4, <2>5, <2>6 DEF Progress
  <2>8. bundle'["manifest"] \notin Versions
    <3>1. CASE backup[b].file = 5
      BY <1>k, <2>5, <3>1, FilesAre, ContentsDiffer
    <3>2. CASE backup[b].file # 5
      BY <1>k, <2>4, <2>6, <3>2, FilesAre, ContentsDiffer DEF WrittenTo
    <3> QED BY <3>1, <3>2
  <2>9. ~Quiet'
    BY <2>4 DEF Quiet, Working
  <2> QED BY <2>1, <2>3, <2>4, <2>7, <2>8, <2>9, AloneKeeps DEF ManifestIsLast
<1> QED BY <1>1, <1>2 DEF BundleInv

LEMMA FillFileKeeps ==
  ASSUME BundleInv, NEW b \in Backups, FillFile(b)
  PROVE  BundleInv'
<1> DEFINE k == backup[b].file
<1>k. k \in 1 .. 5 /\ FileOrder[k] \in Files
  BY FilesAre DEF BundleInv, BundleTypeOK, Places
<1>v. PICK v \in Contents :
        /\ bundle' = [bundle EXCEPT ![FileOrder[k]] = v]
        /\ bundle[FileOrder[k]] # NoVersion
              => v = b \/ (v = Torn /\ \E c \in Backups \ {b} : backup[c].at = "filling")
  BY ContentsDiffer DEF FillFile, Contents
<1>w. backup' = [backup EXCEPT ![b] = IF k = 5 THEN [at |-> "over", file |-> k, whole |-> TRUE]
                                      ELSE [at |-> "opening", file |-> k + 1, whole |-> FALSE]]
  BY FilesAre DEF FillFile
<1>0. UNCHANGED <<folder, register, catalog, verified, overlapped>>
  BY DEF FillFile
<1>1. BundleTypeOK'
  <2>1. bundle' \in [Files -> Contents]
    BY <1>v DEF BundleInv, BundleTypeOK
  <2>2. k # 5 => k + 1 \in 1 .. 5
    BY <1>k
  <2>3. backup' \in [Backups -> Places]
    BY <1>k, <1>w, <2>2 DEF BundleInv, BundleTypeOK, Places
  <2> QED BY <1>0, <2>1, <2>3 DEF BundleInv, BundleTypeOK
<1>2. ASSUME ~overlapped' PROVE Undisturbed'
  <2>1. ~overlapped /\ Working(b) /\ backup[b].at = "filling"
    BY <1>2 DEF FillFile, Working
  <2>2. Undisturbed /\ \A c \in Backups : c # b => backup[c].at \in {"idle", "over"}
    BY <2>1, WorksAlone
  <2>3. WrittenTo(b, k) /\ bundle[FileOrder[k]] = Torn
    BY <2>1, <2>2 DEF Undisturbed, Progress
  <2>4. v = b
    BY <1>v, <2>2, <2>3, ContentsDiffer
  <2>5. \A f \in Files : bundle'[f] = IF f = FileOrder[k] THEN b ELSE bundle[f]
    BY <1>v, <2>4 DEF BundleInv, BundleTypeOK
  <2>6. \A c \in Backups : c # b => backup'[c] = backup[c]
    BY <1>w DEF BundleInv, BundleTypeOK
  <2>7. \A i \in 1 .. 5 : bundle'[FileOrder[i]] = IF i = k THEN b ELSE bundle[FileOrder[i]]
    BY <1>k, <2>5, FilesAre
  <2>8. CASE k = 5
    <3>1. backup'[b] = [at |-> "over", file |-> k, whole |-> TRUE]
      BY <1>w, <2>8 DEF BundleInv, BundleTypeOK
    <3>2. \A i \in 1 .. 5 : bundle'[FileOrder[i]] = b
      BY <2>3, <2>7, <2>8 DEF WrittenTo
    <3>3. \A f \in Files : bundle'[f] = b
      BY <3>2, FilesAre
    <3>4. Progress(b)'
      BY <3>1 DEF Progress
    <3>5. ManifestIsLast' /\ Uniform' /\ folder'
      BY <1>0, <2>3, <3>3, FilesAre, ContentsDiffer DEF ManifestIsLast, Uniform, WrittenTo
    <3> QED BY <1>0, <2>1, <2>6, <3>4, <3>5, AloneKeeps
  <2>9. CASE k # 5
    <3>1. backup'[b] = [at |-> "opening", file |-> k + 1, whole |-> FALSE]
      BY <1>w, <2>9 DEF BundleInv, BundleTypeOK
    <3>2. \A i \in 1 .. 5 : /\ i < k + 1 => bundle'[FileOrder[i]] = b
                            /\ i > k => bundle'[FileOrder[i]] = NoVersion
      BY <1>k, <2>3, <2>7 DEF WrittenTo
    <3>3. folder' /\ k + 1 \in 1 .. 5 /\ k + 1 > k
      BY <1>0, <1>k, <2>3, <2>9 DEF WrittenTo
    <3>4. Progress(b)'
      BY <1>k, <3>1, <3>2, <3>3 DEF Progress, WrittenTo
    <3>5. bundle'["manifest"] = NoVersion
      BY <1>k, <2>9, <3>2, FilesAre
    <3>6. ~Quiet'
      BY <3>1 DEF Quiet, Working
    <3> QED BY <1>0, <2>1, <2>6, <3>3, <3>4, <3>5, <3>6, ContentsDiffer, AloneKeeps DEF ManifestIsLast
  <2> QED BY <2>8, <2>9
<1> QED BY <1>1, <1>2 DEF BundleInv

LEMMA StopBackupKeeps ==
  ASSUME BundleInv, NEW b \in Backups, StopBackup(b)
  PROVE  BundleInv'
<1>1. BundleTypeOK'
  BY DEF BundleInv, BundleTypeOK, StopBackup, BackupAt, Places
<1>2. ASSUME ~overlapped' PROVE Undisturbed'
  <2>1. ~overlapped /\ Working(b) /\ UNCHANGED <<bundle, folder, register, catalog, verified>>
    BY <1>2 DEF StopBackup
  <2>2. Undisturbed /\ ~backup[b].whole
    BY <2>1, WorksAlone
  <2>3. /\ \A c \in Backups : c # b => backup'[c] = backup[c]
        /\ backup'[b].at = "over" /\ backup'[b].whole = backup[b].whole
    BY DEF StopBackup, BackupAt, BundleInv, BundleTypeOK, Places
  <2>4. Progress(b)' /\ ~Quiet'
    BY <2>2, <2>3 DEF Progress, Quiet
  <2>5. (~folder => Gone)' /\ ManifestIsLast'
    BY <2>1, <2>2 DEF Undisturbed, Gone, ManifestIsLast
  <2> QED BY <2>1, <2>3, <2>4, <2>5, AloneKeeps
<1> QED BY <1>1, <1>2 DEF BundleInv

LEMMA RegistrationKeeps ==
  ASSUME BundleInv, RegisterVerify \/ RegisterRead
  PROVE  BundleInv'
<1>0. UNCHANGED <<bundle, folder, backup>>
  BY DEF RegisterVerify, RegisterRead
<1>1. BundleTypeOK'
  BY <1>0 DEF BundleInv, BundleTypeOK, RegisterVerify, RegisterRead, SomeoneWorks
<1>2. ASSUME ~overlapped' PROVE Undisturbed'
  <2>1. ~overlapped /\ Undisturbed
    BY <1>2 DEF BundleInv, BundleTypeOK, RegisterVerify, RegisterRead
  <2>2. (~folder => Gone)' /\ ManifestIsLast' /\ (Quiet => Uniform)' /\ \A b \in Backups : Progress(b)'
    BY <1>0, <2>1 DEF Undisturbed, Gone, ManifestIsLast, Quiet, Uniform, Working, Progress, WrittenTo
  <2>3. CASE RegisterVerify
    <3>1. ~SomeoneWorks
      BY <1>2, <2>3 DEF RegisterVerify, BundleInv, BundleTypeOK
    <3>2. OneWorks'
      BY <1>0, <2>1, <3>1 DEF Undisturbed, OneWorks, Working, SomeoneWorks
    <3> QED BY <2>1, <2>2, <2>3, <3>2 DEF Undisturbed, RegisterVerify
  <2>4. CASE RegisterRead
    <3>1. register' = "over" /\ OneWorks'
      BY <1>0, <2>1, <2>4 DEF Undisturbed, OneWorks, Working, RegisterRead
    <3>2. (catalog \subseteq verified)'
      BY <2>1, <2>4 DEF Undisturbed, RegisterRead
    <3> QED BY <2>2, <3>1, <3>2 DEF Undisturbed
  <2> QED BY <2>3, <2>4, <1>0
<1> QED BY <1>1, <1>2 DEF BundleInv

\* No step breaks the invariant of bundles.
LEMMA BundleInvKept == BundleInv /\ [MirrorNext]_mirrorVars => BundleInv'
<1> SUFFICES ASSUME BundleInv, [MirrorNext]_mirrorVars PROVE BundleInv'
  OBVIOUS
<1>1. CASE BundleNext
  BY <1>1, StartKeeps, RemoveFileKeeps, RemoveFolderKeeps, CreateFolderKeeps, OpenFileKeeps, FillFileKeeps,
     StopBackupKeeps, RegistrationKeeps DEF BundleNext
<1>2. CASE UNCHANGED bundleVars
  BY <1>2 DEF bundleVars, BundleInv, BundleTypeOK, Undisturbed, OneWorks, Working, Gone, Progress, WrittenTo,
     ManifestIsLast, Quiet, Uniform
<1> QED BY <1>1, <1>2 DEF MirrorNext, RestoreNext, ImportNext, SyncNext, mirrorVars

LEMMA BundleInvStarts == MirrorInit => BundleInv
<1> SUFFICES ASSUME MirrorInit PROVE BundleInv
  OBVIOUS
<1>1. /\ \A f \in Files : bundle[f] = Earlier
      /\ \A b \in Backups : backup[b] = [at |-> "idle", file |-> 1, whole |-> FALSE]
      /\ folder /\ register = "idle" /\ catalog = {} /\ verified = {}
  BY DEF MirrorInit
<1>2. BundleTypeOK
  <2>1. bundle \in [Files -> Contents]
    BY DEF MirrorInit, Contents, Versions
  <2>2. [at |-> "idle", file |-> 1, whole |-> FALSE] \in Places
    BY DEF Places
  <2>3. backup \in [Backups -> Places]
    BY <2>2 DEF MirrorInit
  <2> QED BY <2>1, <2>3 DEF MirrorInit, BundleTypeOK
<1>3. OneWorks /\ \A b \in Backups : Progress(b)
  BY <1>1 DEF OneWorks, Working, Progress
<1>4. "manifest" \in Files /\ Earlier \in Versions
  BY FilesAre DEF Versions
<1>5. ManifestIsLast /\ Uniform
  BY <1>1, <1>4 DEF ManifestIsLast, Uniform
<1> QED BY <1>1, <1>2, <1>3, <1>5 DEF BundleInv, Undisturbed

\* The invariant says more than the property.
LEMMA BundleInvGives == BundleInv => VerifiedBundleIsWhole
<1> SUFFICES ASSUME BundleInv, ~overlapped PROVE VerifiedBundleIsWhole
  BY DEF VerifiedBundleIsWhole
<1>0. Undisturbed
  BY DEF BundleInv
<1>m. "manifest" \in Files /\ "archive" \in Files /\ "marker" \in Files
  BY FilesAre
<1>1. VerifyBundle => \A f \in Files : bundle[f] = bundle["manifest"]
  BY <1>0 DEF Undisturbed, VerifyBundle, ManifestIsLast
<1>2. ASSUME NEW b \in Backups, ~SomeoneWorks,
             ~\E c \in Backups : backup[c].at = "over" /\ ~backup[c].whole
      PROVE VerifyBundle
  <2>1. Quiet
    BY <1>2 DEF Quiet, SomeoneWorks
  <2>2. PICK v \in Versions : \A f \in Files : bundle[f] = v
    BY <1>0, <2>1 DEF Undisturbed, Uniform
  <2> QED BY <1>m, <2>2, ContentsDiffer DEF VerifyBundle, ReadBundle
<1> QED BY <1>0, <1>1, <1>2 DEF VerifiedBundleIsWhole, Undisturbed

\* Where commands never overlapped, a bundle that passes its check is of one
\* backup, a backup that ended leaves such a bundle, and only checked archives are
\* registered (write_bundle, verify_bundle, register_bundle), for any number of
\* backups, each stopped anywhere.
THEOREM BundlesAreWhole == MirrorSpec => []VerifiedBundleIsWhole
<1> QED BY BundleInvStarts, BundleInvKept, BundleInvGives, PTL DEF MirrorSpec

-----------------------------------------------------------------------------
(* Imports *)

Stores == {RepoOf(p) : p \in ImportPaths}
Bares == [is : {"absent", "cut", "whole"}, origin : ImportPaths \cup {NoVersion}]

Imports ==
    [at : {"path", "git", "forge", "done", "failed"}, paths : Seq(ImportPaths), dry : BOOLEAN, force : BOOLEAN,
     next : Nat \ {0}, imported : SUBSET ImportPaths, fetched : SUBSET ImportPaths, skipped : SUBSET ImportPaths,
     before : [Stores -> Bares] \X SUBSET Stores]

ImportTypeOK ==
    /\ bares \in [Stores -> Bares]
    /\ forge \in SUBSET Stores
    /\ import = NoImport \/ import \in Imports

\* The path looked at; what was cloned from it, or fetched for it, is there.
Current == import.paths[import.next]
Taken(b) == b # NoBare /\ (b.origin # NoVersion => b.is = "whole")
StoredFor(p) == bares[RepoOf(p)] = Whole(p) \/ (p \in import.fetched /\ Taken(bares[RepoOf(p)]))

\* Where an import is, and what holds of the paths it has reported.
ImportInv ==
    /\ ImportTypeOK
    /\ import \in Imports =>
          /\ import.at \in {"git", "forge"} => ~import.dry /\ import.next <= Len(import.paths)
          /\ import.at = "forge" => StoredFor(Current)
          /\ import.dry => <<bares, forge>> = import.before
          /\ ~import.dry => \A p \in import.imported : RepoOf(p) \in forge /\ StoredFor(p)

LEMMA ImportGives == ImportInv => ImportIsWhole
  BY DEF ImportInv, ImportTypeOK, ImportIsWhole, NoImport, StoredFor, Taken

\* What is left of a repository is one; what was whole or taken as it is stays so.
LEMMA LeavingsOfGit ==
  ASSUME NEW b \in Bares, NEW p \in ImportPaths, NEW failed \in BOOLEAN, NEW c \in Left(b, p, failed)
  PROVE  /\ c \in Bares
         /\ \A q \in ImportPaths : b = Whole(q) => c = Whole(q)
         /\ Taken(b) => Taken(c)
         /\ ~failed => IF b = NoBare THEN c = Whole(p) ELSE Taken(c)
<1>1. NoVersion \notin ImportPaths
  BY MirrorAssumption
<1>2. /\ NoBare \in Bares /\ Whole(p) \in Bares /\ CutShort(p) \subseteq Bares
      /\ \A q \in ImportPaths : Whole(q) # NoBare
  BY DEF NoBare, Whole, CutShort, Bares
<1>3. Fetched(b) \in Bares /\ (b.origin = NoVersion => Fetched(b) = b) /\ (b.origin # NoVersion => Fetched(b) = Whole(b.origin))
  BY DEF Fetched, Whole, Bares
<1>4. ASSUME NEW q \in ImportPaths, b = Whole(q) PROVE Fetched(b) = Whole(q)
  BY <1>1, <1>3, <1>4 DEF Whole
<1>5. \A q : Whole(q).is = "whole" /\ Whole(q).origin = q
  BY DEF Whole
<1>6. b # NoBare => Taken(Fetched(b))
  <2>1. CASE b.origin = NoVersion
    BY <1>3, <2>1 DEF Taken
  <2>2. CASE b.origin # NoVersion
    <3>1. b.origin \in ImportPaths
      BY <2>2 DEF Bares
    <3> QED BY <1>2, <1>3, <1>5, <2>2, <3>1 DEF Taken
  <2> QED BY <2>1, <2>2
<1>7. CASE b = NoBare
  BY <1>2, <1>7 DEF Left, Taken
<1>8. CASE b # NoBare
  BY <1>2, <1>3, <1>4, <1>6, <1>8 DEF Left
<1> QED BY <1>7, <1>8

\* An import that runs looks at a path, and its repository has a place.
LEMMA CurrentIsAPath ==
  ASSUME ImportInv, import.at \in {"path", "git", "forge"}, import.next <= Len(import.paths)
  PROVE  import \in Imports /\ Current \in ImportPaths /\ RepoOf(Current) \in Stores
<1>1. import \in Imports
  BY DEF ImportInv, ImportTypeOK, NoImport
<1>2. import.next \in 1 .. Len(import.paths) /\ import.paths \in Seq(ImportPaths)
  BY <1>1 DEF Imports
<1>3. Current \in ImportPaths
  BY <1>2 DEF Current
<1> QED BY <1>1, <1>3 DEF Stores

\* No step breaks the invariant of imports.
LEMMA ImportKept == ImportInv /\ [MirrorNext]_mirrorVars => ImportInv'
<1> SUFFICES ASSUME ImportInv, [MirrorNext]_mirrorVars PROVE ImportInv'
  OBVIOUS
<1>1. ASSUME NEW paths \in UNION {[1 .. n -> ImportPaths] : n \in 1 .. 2}, NEW dry \in BOOLEAN, NEW force \in BOOLEAN,
             BeginImport(paths, dry, force)
      PROVE ImportInv'
  <2>1. paths \in Seq(ImportPaths)
    <3>1. PICK n \in 1 .. 2 : paths \in [1 .. n -> ImportPaths]
      OBVIOUS
    <3>2. n \in Nat
      OBVIOUS
    <3> QED BY <3>1, <3>2
  <2>2. /\ import' = [at |-> "path", paths |-> paths, dry |-> dry, force |-> force, next |-> 1,
                      imported |-> {}, fetched |-> {}, skipped |-> {}, before |-> <<bares, forge>>]
        /\ UNCHANGED <<bares, forge>>
    BY <1>1 DEF BeginImport
  <2>3. <<bares, forge>> \in [Stores -> Bares] \X SUBSET Stores
    BY DEF ImportInv, ImportTypeOK
  <2>4. import' \in Imports
    BY <2>1, <2>2, <2>3 DEF Imports
  <2> QED BY <2>2, <2>4 DEF ImportInv, ImportTypeOK
<1>2. CASE CheckPath
  <2>1. /\ import.at = "path" /\ import.next <= Len(import.paths) /\ UNCHANGED <<bares, forge>>
        /\ \/ import' = [import EXCEPT !.next = @ + 1, !.skipped = @ \cup {Current}]
           \/ import.dry /\ import' = [import EXCEPT !.next = @ + 1, !.imported = @ \cup {Current}]
           \/ ~import.dry /\ import' = [import EXCEPT !.at = "git"]
    BY <1>2 DEF CheckPath, Current, ImportInv, ImportTypeOK, Imports, NoImport
  <2>2. import \in Imports /\ Current \in ImportPaths
    BY <2>1, CurrentIsAPath
  <2>3. import' \in Imports
    <3>1. /\ import.next + 1 \in Nat \ {0} /\ import.skipped \cup {Current} \in SUBSET ImportPaths
          /\ import.imported \cup {Current} \in SUBSET ImportPaths
      BY <2>2 DEF Imports
    <3>2. ASSUME import' = [import EXCEPT !.next = @ + 1, !.skipped = @ \cup {Current}] PROVE import' \in Imports
      BY <2>2, <3>1, <3>2 DEF Imports
    <3>3. ASSUME import' = [import EXCEPT !.next = @ + 1, !.imported = @ \cup {Current}] PROVE import' \in Imports
      BY <2>2, <3>1, <3>3 DEF Imports
    <3>4. ASSUME import' = [import EXCEPT !.at = "git"] PROVE import' \in Imports
      BY <2>2, <3>4 DEF Imports
    <3> QED BY <2>1, <3>2, <3>3, <3>4
  <2>4. /\ import'.dry = import.dry /\ import'.before = import.before /\ import'.fetched = import.fetched
        /\ import'.at # "forge" /\ import'.paths = import.paths
        /\ import'.at = "git" => ~import.dry /\ import'.next = import.next
        /\ ~import.dry => import'.imported = import.imported
    BY <2>1, <2>2 DEF Imports
  <2> QED BY <2>1, <2>2, <2>3, <2>4 DEF ImportInv, ImportTypeOK, StoredFor
<1>3. ASSUME NEW refused \in BOOLEAN, ImportRepo(refused) PROVE ImportInv'
  <2>1. import.at = "git" /\ import \in Imports /\ import.next <= Len(import.paths) /\ ~import.dry
    BY <1>3 DEF ImportRepo, ImportInv, ImportTypeOK, NoImport
  <2>2. Current \in ImportPaths /\ RepoOf(Current) \in Stores
    BY <2>1, CurrentIsAPath
  <2>3. PICK b \in Left(bares[RepoOf(Current)], Current, refused) :
           /\ forge' = forge /\ bares' = [bares EXCEPT ![RepoOf(Current)] = b]
           /\ \/ refused /\ import' = [import EXCEPT !.at = "failed"]
              \/ /\ ~refused /\ bares[RepoOf(Current)] # NoBare
                 /\ import' = [import EXCEPT !.at = "forge", !.fetched = @ \cup {Current}]
              \/ /\ ~refused /\ bares[RepoOf(Current)] = NoBare
                 /\ import' = [import EXCEPT !.at = "forge"]
    BY <1>3 DEF ImportRepo, Current
  <2>c. bares \in [Stores -> Bares] /\ bares[RepoOf(Current)] \in Bares
    BY <2>2 DEF ImportInv, ImportTypeOK
  <2>l. /\ b \in Bares
        /\ \A q \in ImportPaths : bares[RepoOf(Current)] = Whole(q) => b = Whole(q)
        /\ Taken(bares[RepoOf(Current)]) => Taken(b)
        /\ ~refused => IF bares[RepoOf(Current)] = NoBare THEN b = Whole(Current) ELSE Taken(b)
    BY <2>2, <2>c, LeavingsOfGit
  <2>4. /\ import' \in Imports /\ bares' \in [Stores -> Bares]
    <3>1. import.fetched \cup {Current} \in SUBSET ImportPaths
      BY <2>1, <2>2 DEF Imports
    <3>2. import' \in Imports
      BY <2>1, <2>3, <3>1 DEF Imports
    <3>3. bares' \in [Stores -> Bares]
      BY <2>2, <2>3, <2>c, <2>l
    <3> QED BY <3>2, <3>3
  <2>5. /\ ~import'.dry /\ import'.next = import.next /\ import'.paths = import.paths
        /\ import'.imported = import.imported /\ import.fetched \subseteq import'.fetched
        /\ import'.at \in {"failed", "forge"}
    <3>1. CASE import' = [import EXCEPT !.at = "failed"]
      BY <2>1, <2>2, <3>1 DEF Imports
    <3>2. CASE import' = [import EXCEPT !.at = "forge"]
      BY <2>1, <2>2, <3>2 DEF Imports
    <3>3. CASE import' = [import EXCEPT !.at = "forge", !.fetched = @ \cup {Current}]
      BY <2>1, <2>2, <3>3 DEF Imports
    <3> QED BY <2>3, <3>1, <3>2, <3>3
  <2>6. Current' = Current
    BY <2>5 DEF Current
  <2>7. ASSUME NEW p \in ImportPaths, StoredFor(p) PROVE StoredFor(p)'
    <3>1. RepoOf(p) \in Stores
      BY DEF Stores
    <3>2. CASE RepoOf(p) = RepoOf(Current)
      <4>1. bares'[RepoOf(p)] = b
        BY <2>2, <2>3, <2>c, <3>2
      <4>2. bares[RepoOf(p)] = Whole(p) => b = Whole(p)
        BY <2>l, <3>2
      <4>3. Taken(bares[RepoOf(p)]) => Taken(b)
        BY <2>l, <3>2
      <4> QED BY <2>5, <2>7, <4>1, <4>2, <4>3 DEF StoredFor
    <3>3. CASE RepoOf(p) # RepoOf(Current)
      <4>1. bares'[RepoOf(p)] = bares[RepoOf(p)]
        BY <2>2, <2>3, <2>c, <3>1, <3>3
      <4> QED BY <2>5, <2>7, <4>1 DEF StoredFor
    <3> QED BY <3>2, <3>3
  <2>8. import'.at = "forge" => StoredFor(Current)'
    <3>0. bares'[RepoOf(Current)] = b
      BY <2>2, <2>3, <2>c
    <3>1. CASE import' = [import EXCEPT !.at = "failed"]
      BY <2>1, <3>1 DEF Imports
    <3>2. CASE /\ ~refused /\ bares[RepoOf(Current)] # NoBare
               /\ import' = [import EXCEPT !.at = "forge", !.fetched = @ \cup {Current}]
      <4>1. Current \in import'.fetched
        BY <2>1, <3>2 DEF Imports
      <4>2. Taken(b)
        BY <2>l, <3>2
      <4> QED BY <2>6, <3>0, <4>1, <4>2 DEF StoredFor
    <3>3. CASE ~refused /\ bares[RepoOf(Current)] = NoBare
      <4>1. b = Whole(Current)
        BY <2>l, <3>3
      <4> QED BY <2>6, <3>0, <4>1 DEF StoredFor
    <3> QED BY <2>3, <3>1, <3>2, <3>3
  <2>9. \A p \in import'.imported : RepoOf(p) \in forge' /\ StoredFor(p)'
    <3>1. \A p \in import.imported : p \in ImportPaths /\ RepoOf(p) \in forge /\ StoredFor(p)
      BY <2>1 DEF ImportInv, Imports
    <3> QED BY <2>3, <2>5, <2>7, <3>1
  <2> QED BY <2>1, <2>3, <2>4, <2>5, <2>8, <2>9 DEF ImportInv, ImportTypeOK
<1>4. ASSUME NEW refused \in BOOLEAN, RegisterRepository(refused) PROVE ImportInv'
  <2>1. import.at = "forge" /\ import \in Imports /\ import.next <= Len(import.paths) /\ ~import.dry
    BY <1>4 DEF RegisterRepository, ImportInv, ImportTypeOK, NoImport
  <2>2. Current \in ImportPaths /\ RepoOf(Current) \in Stores /\ StoredFor(Current)
    BY <2>1, CurrentIsAPath DEF ImportInv
  <2>3. /\ bares' = bares /\ forge' \in {forge, forge \cup {RepoOf(Current)}}
        /\ \/ /\ import' = [import EXCEPT !.at = "path", !.next = @ + 1, !.imported = @ \cup {Current}]
              /\ RepoOf(Current) \in forge'
           \/ import' = [import EXCEPT !.at = "failed"]
    BY <1>4 DEF RegisterRepository, Registers, Current
  <2>4. import' \in Imports /\ forge' \in SUBSET Stores
    <3>1. import.next + 1 \in Nat \ {0} /\ import.imported \cup {Current} \in SUBSET ImportPaths
      BY <2>1, <2>2 DEF Imports
    <3>2. import' \in Imports
      BY <2>1, <2>3, <3>1 DEF Imports
    <3> QED BY <2>2, <2>3, <3>2 DEF ImportInv, ImportTypeOK
  <2>5. /\ ~import'.dry /\ import'.fetched = import.fetched
        /\ import'.at \in {"failed", "path"}
        /\ import'.imported \subseteq import.imported \cup {Current}
        /\ Current \in import'.imported => Current \in import.imported \/ RepoOf(Current) \in forge'
    BY <2>1, <2>2, <2>3 DEF Imports
  <2>6. \A p : StoredFor(p) => StoredFor(p)'
    BY <2>3, <2>5 DEF StoredFor
  <2>7. \A p \in import'.imported : RepoOf(p) \in forge' /\ StoredFor(p)'
    BY <2>1, <2>2, <2>3, <2>5, <2>6 DEF ImportInv
  <2> QED BY <2>1, <2>3, <2>4, <2>5, <2>7 DEF ImportInv, ImportTypeOK
<1>5. CASE ImportDone
  <2>1. import \in Imports /\ import' = [import EXCEPT !.at = "done"] /\ UNCHANGED <<bares, forge>>
    BY <1>5 DEF ImportDone, ImportInv, ImportTypeOK, NoImport
  <2>2. /\ import' \in Imports /\ import'.at = "done" /\ import'.dry = import.dry /\ import'.before = import.before
        /\ import'.fetched = import.fetched /\ import'.imported = import.imported
    BY <2>1 DEF Imports
  <2> QED BY <2>1, <2>2 DEF ImportInv, ImportTypeOK, StoredFor
<1>6. CASE ImportEnds
  <2>1. NoImport \notin Imports
    BY DEF NoImport, Imports
  <2> QED BY <1>6, <2>1 DEF ImportEnds, ImportInv, ImportTypeOK
<1>7. CASE UNCHANGED importVars
  BY <1>7 DEF importVars, ImportInv, ImportTypeOK, StoredFor, Current
<1> QED BY <1>1, <1>2, <1>3, <1>4, <1>5, <1>6, <1>7
        DEF MirrorNext, BundleNext, RestoreNext, ImportNext, SyncNext, mirrorVars

LEMMA ImportStarts == MirrorInit => ImportInv
<1> SUFFICES ASSUME MirrorInit PROVE ImportInv
  OBVIOUS
<1>1. import \notin Imports
  BY DEF MirrorInit, NoImport, Imports
<1>2. NoBare \in Bares
  BY DEF NoBare, Bares
<1> QED BY <1>1, <1>2 DEF MirrorInit, ImportInv, ImportTypeOK, Stores

\* What an import reports as imported is in git storage and in the forge, cloned
\* whole from its path unless it says fetched, and a dry run changes neither
\* (import_local_git_dirs), for any paths, in any runs that stop anywhere, a clone
\* cut short included.
THEOREM ImportsAreWhole == MirrorSpec => []ImportIsWhole
<1> QED BY ImportStarts, ImportKept, ImportGives, PTL DEF MirrorSpec

-----------------------------------------------------------------------------
(* Syncs *)

Modes == {"clone_if_missing", "fetch_only", "push_only", "full_sync"}
MirrorCommands == {"clone", "fetch", "push"}

Refs == [MirrorRefs -> Nat]
MirrorCopies == Refs \cup {NoCopy}

Syncs ==
    [at : {"running", "failed", "done"}, mode : Modes, todo : Seq(MirrorCommands), from : Refs \X MirrorCopies]

SyncTypeOK ==
    /\ source \in Refs /\ copy \in MirrorCopies /\ remote \in Refs
    /\ sync = NoSync \/ sync \in Syncs

\* Every ref of f is as it is in g, or as it was earlier.
Behind(f, g) == \A r \in MirrorRefs : f[r] <= g[r]

\* What a sync that has not failed has yet to do, and what it has done by then.
\* One that has to fetch does not get any further.
Cloned == sync.todo = <<"clone">> \/ (sync.todo = <<>> /\ copy # NoCopy /\ Behind(sync.from[1], copy))
Pushed == copy = sync.from[2] /\ (sync.todo = <<"push">> \/ (sync.todo = <<>> /\ remote = copy))

SoFar ==
    /\ sync.mode = "clone_if_missing" => Cloned
    /\ sync.mode = "fetch_only" => sync.todo = <<"fetch">>
    /\ sync.mode = "push_only" => Pushed
    /\ sync.mode = "full_sync" => sync.todo \in {<<"clone", "fetch", "push">>, <<"fetch", "push">>}

\* Nothing is ahead of the source; a run has done what it no longer has to do.
SyncInv ==
    /\ SyncTypeOK
    /\ Behind(remote, source) /\ (copy # NoCopy => Behind(copy, source))
    /\ sync \in Syncs =>
          /\ Behind(sync.from[1], source)
          /\ sync.at = "done" => sync.todo = <<>>
          /\ sync.at # "failed" => SoFar

\* What is left of a plan after each command.
LEMMA TailsOfPlans ==
    /\ Head(<<"clone">>) = "clone" /\ Tail(<<"clone">>) = <<>>
    /\ Head(<<"fetch">>) = "fetch" /\ Tail(<<"fetch">>) = <<>>
    /\ Head(<<"push">>) = "push" /\ Tail(<<"push">>) = <<>>
    /\ Head(<<"clone", "fetch", "push">>) = "clone" /\ Tail(<<"clone", "fetch", "push">>) = <<"fetch", "push">>
    /\ Head(<<"fetch", "push">>) = "fetch" /\ Tail(<<"fetch", "push">>) = <<"push">>
    /\ <<"clone">> # <<>> /\ <<"fetch">> # <<>> /\ <<"push">> # <<>> /\ <<"fetch", "push">> # <<>>
    /\ <<"clone", "fetch", "push">> # <<>>
    /\ {<<>>, <<"clone">>, <<"fetch">>, <<"push">>, <<"clone", "fetch", "push">>, <<"fetch", "push">>} \subseteq Seq(MirrorCommands)
  BY DEF MirrorCommands

\* A repository is something at the path, with refs or without.
LEMMA RefsAreCopies ==
    /\ NoCopy \notin Refs /\ NoRefs \in Refs
    /\ \A f \in Refs : Behind(f, f) /\ Behind(NoRefs, f)
<1>1. NoCopy \notin Refs
  <2>1. MirrorRefs # {} /\ DOMAIN <<>> = {}
    BY MirrorAssumption
  <2> QED BY <2>1 DEF NoCopy, Refs
<1>2. NoRefs \in Refs
  BY DEF NoRefs, Refs
<1> QED BY <1>1, <1>2 DEF NoRefs, Refs, Behind

LEMMA SyncGives == SyncInv => SyncTakesAlong
<1> SUFFICES ASSUME SyncInv PROVE SyncTakesAlong
  OBVIOUS
<1>1. ASSUME sync.at = "done"
      PROVE /\ sync.mode # "push_only" => copy # NoCopy /\ \A r \in MirrorRefs : copy[r] >= sync.from[1][r]
            /\ sync.mode \in {"push_only", "full_sync"} => remote = copy
            /\ sync.mode = "push_only" => copy = sync.from[2]
  <2>1. sync \in Syncs
    BY <1>1 DEF SyncInv, SyncTypeOK, NoSync
  <2>2. sync.todo = <<>> /\ SoFar /\ sync.mode \in Modes
    BY <1>1, <2>1 DEF SyncInv, Syncs
  <2>3. sync.mode # "full_sync" /\ sync.mode # "fetch_only"
    BY <2>2, TailsOfPlans DEF SoFar
  <2>4. sync.mode = "push_only" => remote = copy /\ copy = sync.from[2]
    BY <2>2, TailsOfPlans DEF SoFar, Pushed
  <2>5. sync.mode = "clone_if_missing" => copy # NoCopy /\ Behind(sync.from[1], copy)
    BY <2>2, TailsOfPlans DEF SoFar, Cloned
  <2>6. copy # NoCopy => copy \in Refs /\ sync.from[1] \in Refs
    BY <2>1 DEF SyncInv, SyncTypeOK, MirrorCopies, Syncs
  <2>7. sync.mode = "clone_if_missing" => \A r \in MirrorRefs : copy[r] >= sync.from[1][r]
    BY <2>5, <2>6 DEF Behind, Refs
  <2> QED BY <2>2, <2>3, <2>4, <2>5, <2>7 DEF Modes
<1>2. \A r \in MirrorRefs : remote[r] <= source[r]
  BY DEF SyncInv, Behind
<1> QED BY <1>1, <1>2 DEF SyncTakesAlong

\* What a command that git accepts leaves at the path and at the destination.
LEMMA GitKeeps ==
  ASSUME SyncInv, NEW cmd, NEW refused \in BOOLEAN, Possible(cmd), GitMirrors(cmd, refused), source' = source
  PROVE  /\ copy' \in MirrorCopies /\ remote' \in Refs
         /\ Behind(remote, source)' /\ (copy' # NoCopy => Behind(copy, source)')
         /\ cmd = "clone" \/ cmd = "push"
         /\ cmd = "clone" /\ ~refused => copy' = source /\ copy' # NoCopy
         /\ cmd = "push" => copy' = copy /\ (~refused => remote' = copy)
<1>1. source \in Refs /\ remote \in Refs /\ copy \in MirrorCopies
  BY DEF SyncInv, SyncTypeOK
<1>2. CASE cmd = "clone"
  <2>1. remote' = remote /\ copy' \in IF refused THEN {NoCopy, NoRefs} ELSE {source}
    BY <1>2 DEF GitMirrors
  <2> QED BY <1>1, <1>2, <2>1, RefsAreCopies DEF SyncInv, MirrorCopies, Behind
<1>3. CASE cmd = "push"
  <2>1. copy # NoCopy /\ copy \in Refs /\ copy' = copy
    BY <1>1, <1>3 DEF Possible, GitMirrors, MirrorCopies
  <2>2. PICK taken \in SUBSET MirrorRefs :
           /\ refused \/ taken = MirrorRefs
           /\ remote' = [r \in MirrorRefs |-> IF r \in taken THEN copy[r] ELSE remote[r]]
    BY <1>3 DEF GitMirrors
  <2>3. remote' \in Refs
    BY <1>1, <2>1, <2>2 DEF Refs
  <2>4. ASSUME NEW r \in MirrorRefs PROVE remote'[r] <= source'[r]
    <3>1. copy[r] <= source[r] /\ remote[r] <= source[r]
      BY <2>1 DEF SyncInv, Behind
    <3> QED BY <2>2, <3>1
  <2>5. ~refused => remote' = copy
    BY <2>1, <2>2 DEF Refs
  <2>6. Behind(remote, source)' /\ Behind(copy, source)'
    BY <2>1, <2>4 DEF SyncInv, Behind
  <2> QED BY <1>3, <2>1, <2>3, <2>5, <2>6 DEF MirrorCopies
<1> QED BY <1>2, <1>3 DEF GitMirrors

\* One cmd, run after another.
LEMMA CommandsKeep ==
  ASSUME SyncInv, NEW refused \in BOOLEAN, RunCommand(refused)
  PROVE  SyncInv'
<1> DEFINE succeeded == Possible(Head(sync.todo)) /\ ~refused
<1>1. sync.at = "running" /\ sync.todo # <<>> /\ sync \in Syncs /\ SoFar /\ Behind(sync.from[1], source)
  BY DEF RunCommand, SyncInv, SyncTypeOK, NoSync
<1>2. /\ succeeded => Possible(Head(sync.todo)) /\ ~refused
      /\ sync' = [sync EXCEPT !.todo = Tail(@), !.at = IF succeeded THEN "running" ELSE "failed"]
  BY DEF RunCommand, AfterCommand
<1>3. /\ source' = source
      /\ IF Possible(Head(sync.todo)) THEN GitMirrors(Head(sync.todo), refused) ELSE UNCHANGED <<copy, remote>>
  BY DEF RunCommand
<1>4. Tail(sync.todo) \in Seq(MirrorCommands)
  BY <1>1 DEF Syncs
<1> HIDE DEF succeeded
<1>5. /\ sync' \in Syncs /\ sync'.mode = sync.mode /\ sync'.from = sync.from /\ sync'.todo = Tail(sync.todo)
      /\ sync'.at = IF succeeded THEN "running" ELSE "failed"
  BY <1>1, <1>2, <1>4 DEF Syncs
<1>6. /\ copy' \in MirrorCopies /\ remote' \in Refs
      /\ Behind(remote, source)' /\ (copy' # NoCopy => Behind(copy, source)')
  <2>1. CASE Possible(Head(sync.todo))
    BY <1>3, <2>1, GitKeeps
  <2>2. CASE ~Possible(Head(sync.todo))
    BY <1>3, <2>2 DEF SyncInv, SyncTypeOK, Behind
  <2> QED BY <2>1, <2>2
<1>7. SyncTypeOK'
  BY <1>3, <1>5, <1>6 DEF SyncInv, SyncTypeOK
<1>8. ASSUME succeeded PROVE SoFar'
  <2>0. /\ Head(sync.todo) = "clone" \/ Head(sync.todo) = "push"
        /\ Head(sync.todo) = "clone" => copy' = source /\ copy' # NoCopy
        /\ Head(sync.todo) = "push" => copy' = copy /\ remote' = copy
    BY <1>2, <1>3, <1>8, GitKeeps
  <2>2. ASSUME sync.mode = "clone_if_missing" PROVE Cloned'
    <3>1. sync.todo = <<"clone">>
      BY <1>1, <2>2 DEF SoFar, Cloned
    <3>2. copy' = source /\ copy' # NoCopy /\ sync'.todo = <<>>
      BY <1>5, <2>0, <3>1, TailsOfPlans
    <3> QED BY <1>1, <1>5, <3>2 DEF Cloned, Behind
  <2>3. sync.mode # "fetch_only"
    BY <1>1, <2>0, TailsOfPlans DEF SoFar
  <2>4. ASSUME sync.mode = "push_only" PROVE Pushed'
    <3>1. sync.todo = <<"push">> /\ copy = sync.from[2]
      BY <1>1, <2>4 DEF SoFar, Pushed
    <3>2. copy' = copy /\ remote' = copy /\ sync'.todo = <<>>
      BY <1>5, <2>0, <3>1, TailsOfPlans
    <3> QED BY <1>5, <3>1, <3>2 DEF Pushed
  <2>5. ASSUME sync.mode = "full_sync" PROVE sync'.todo = <<"fetch", "push">>
    <3>1. sync.todo = <<"clone", "fetch", "push">>
      BY <1>1, <2>0, <2>5, TailsOfPlans DEF SoFar
    <3> QED BY <1>5, <3>1, TailsOfPlans
  <2> QED BY <1>5, <2>2, <2>3, <2>4, <2>5 DEF SoFar
<1> QED BY <1>1, <1>3, <1>5, <1>6, <1>7, <1>8 DEF SyncInv

\* No step breaks the invariant of syncs.
LEMMA SyncKept == SyncInv /\ [MirrorNext]_mirrorVars => SyncInv'
<1> SUFFICES ASSUME SyncInv, [MirrorNext]_mirrorVars PROVE SyncInv'
  OBVIOUS
<1>1. ASSUME NEW r \in MirrorRefs, SourceChanges(r) PROVE SyncInv'
  <2>1. source' = [source EXCEPT ![r] = @ + 1] /\ UNCHANGED <<copy, remote, sync>> /\ source \in Refs
    BY <1>1 DEF SourceChanges, SyncInv, SyncTypeOK
  <2>2. source' \in Refs /\ \A q \in MirrorRefs : source[q] \in Nat /\ source[q] <= source'[q]
    BY <2>1 DEF Refs
  <2>3. ASSUME NEW f \in Refs, Behind(f, source) PROVE Behind(f, source')
    <3>1. \A x, y, z \in Nat : x <= y /\ y <= z => x <= z
      OBVIOUS
    <3>2. \A q \in MirrorRefs : f[q] \in Nat /\ source'[q] \in Nat /\ f[q] <= source[q]
      BY <2>2, <2>3 DEF Refs, Behind
    <3> QED BY <2>2, <3>1, <3>2 DEF Behind
  <2>4. SoFar' = SoFar
    BY <2>1 DEF SoFar, Cloned, Pushed, Behind
  <2>5. /\ remote \in Refs /\ (copy # NoCopy => copy \in Refs)
        /\ (sync \in Syncs => sync.from[1] \in Refs)
    BY DEF Syncs, SyncInv, SyncTypeOK, MirrorCopies
  <2>6. /\ Behind(remote, source') /\ (copy # NoCopy => Behind(copy, source'))
        /\ (sync \in Syncs => Behind(sync.from[1], source'))
    BY <2>3, <2>5 DEF SyncInv
  <2>7. SyncTypeOK'
    BY <2>1, <2>2 DEF SyncInv, SyncTypeOK
  <2>8. /\ Behind(remote, source)' /\ (copy' # NoCopy => Behind(copy, source)')
        /\ (sync' \in Syncs => Behind(sync.from[1], source)')
    BY <2>1, <2>6 DEF Behind
  <2> QED BY <2>1, <2>4, <2>7, <2>8 DEF SyncInv
<1>2. CASE SyncDone
  <2>1. /\ sync.at = "running" /\ sync.todo = <<>> /\ sync' = [sync EXCEPT !.at = "done"]
        /\ UNCHANGED <<source, copy, remote>> /\ sync \in Syncs
    BY <1>2 DEF SyncDone, SyncInv, SyncTypeOK, NoSync
  <2>2. /\ sync' \in Syncs /\ sync'.mode = sync.mode /\ sync'.from = sync.from /\ sync'.todo = sync.todo
    BY <2>1 DEF Syncs
  <2>3. SoFar'
    BY <2>1, <2>2 DEF SyncInv, SoFar, Cloned, Pushed, Behind
  <2> QED BY <2>1, <2>2, <2>3 DEF SyncInv, SyncTypeOK, Behind
<1>3. CASE SyncEnds
  <2>1. NoSync \notin Syncs
    BY DEF NoSync, Syncs
  <2> QED BY <1>3, <2>1 DEF SyncEnds, SyncInv, SyncTypeOK, Behind
<1>4. ASSUME NEW mode \in Modes, BeginSync(mode) PROVE SyncInv'
  <2>1. /\ sync' = [at |-> "running", mode |-> mode, todo |-> PlanGitMirror(mode), from |-> <<source, copy>>]
        /\ UNCHANGED <<source, copy, remote>>
    BY <1>4 DEF BeginSync
  <2>2. /\ mode = "clone_if_missing" => PlanGitMirror(mode) = <<"clone">>
        /\ mode = "fetch_only" => PlanGitMirror(mode) = <<"fetch">>
        /\ mode = "push_only" => PlanGitMirror(mode) = <<"push">>
        /\ mode = "full_sync" => PlanGitMirror(mode) = <<"clone", "fetch", "push">>
    BY DEF PlanGitMirror
  <2>3. PlanGitMirror(mode) \in Seq(MirrorCommands)
    BY <2>2, TailsOfPlans DEF Modes
  <2>4. source \in Refs /\ copy \in MirrorCopies /\ remote \in Refs
    BY DEF SyncInv, SyncTypeOK
  <2>5. /\ sync' \in Syncs /\ sync'.mode = mode /\ sync'.todo = PlanGitMirror(mode) /\ sync'.from[1] = source
        /\ sync'.from[2] = copy /\ sync'.at = "running"
    BY <2>1, <2>3, <2>4 DEF Syncs
  <2>6. SoFar'
    BY <2>1, <2>2, <2>5 DEF SoFar, Cloned, Pushed
  <2>7. Behind(source, source)
    BY <2>4, RefsAreCopies
  <2> QED BY <2>1, <2>4, <2>5, <2>6, <2>7 DEF SyncInv, SyncTypeOK, Behind
<1>5. CASE UNCHANGED syncVars
  BY <1>5 DEF syncVars, SyncInv, SyncTypeOK, SoFar, Cloned, Pushed, Behind
<1>6. CASE ClearPath
  <2>1. sync \notin Syncs
    BY <1>6 DEF ClearPath, Syncs
  <2> QED BY <1>6, <2>1 DEF ClearPath, SyncInv, SyncTypeOK, MirrorCopies, Behind
<1> QED BY <1>1, <1>2, <1>3, <1>4, <1>5, <1>6, CommandsKeep
        DEF MirrorNext, BundleNext, RestoreNext, ImportNext, SyncNext, mirrorVars, Modes

LEMMA SyncStarts == MirrorInit => SyncInv
<1> SUFFICES ASSUME MirrorInit PROVE SyncInv
  OBVIOUS
<1>1. sync = NoSync /\ NoSync \notin Syncs
  BY DEF MirrorInit, NoSync, Syncs
<1>2. source \in Refs /\ copy = NoCopy /\ remote = NoRefs
  BY DEF MirrorInit, Refs
<1> QED BY <1>1, <1>2, RefsAreCopies DEF SyncInv, SyncTypeOK, MirrorCopies

\* A sync that ended took along what it was to take, ref by ref, and the
\* destination is never ahead of the source (execute_git_mirror_plan), for any
\* refs and any number of runs, clones that are killed, pushes that are refused
\* in part and changes of the source in between.
THEOREM SyncsTakeAlong == MirrorSpec => []SyncTakesAlong
<1> QED BY SyncStarts, SyncKept, SyncGives, PTL DEF MirrorSpec

-----------------------------------------------------------------------------
(* Restores *)

Names == {a.name : a \in UNION {ToSet(s) : s \in Archives}}

Restores ==
    [at : {"repository", "items", "done", "failed"}, archive : Archives, dry : BOOLEAN, strict : BOOLEAN,
     repo : Nat \ {0}, item : Nat \ {0}, commands : Seq(TargetKeys), blockers : SUBSET Names,
     before : [TargetKeys -> Nat]]

RestoreTypeOK ==
    /\ target \in [TargetKeys -> Nat]
    /\ restore = NoRun \/ restore \in Restores

Nth(i) == restore.archive[i]

\* Whether a command is about the i-th repository: itself, or one of its items
\* before the j-th.
About(c, i, j) ==
    \/ c = <<Nth(i).name>>
    \/ \E h \in 1 .. Len(Nth(i).items) : h < j /\ c = ItemKey(Nth(i).name, Nth(i).items[h])

AboutEarlier(c) ==
    \E i \in 1 .. Len(restore.archive) : i < restore.repo /\ About(c, i, Len(Nth(i).items) + 1)

Added(k) ==
    IF ~restore.dry /\ k \in ToSet(restore.commands) /\ (Len(k) = 1 \/ k[2] \notin Planned) THEN 1 ELSE 0

\* What was printed is behind what is next, each thing once; the target has what was printed.
RestoreInv ==
    /\ RestoreTypeOK
    /\ restore \in Restores =>
          /\ restore.at = "repository" => \A c \in ToSet(restore.commands) : AboutEarlier(c)
          /\ restore.at = "items" =>
                /\ restore.repo <= Len(restore.archive) /\ IsInjective(Nth(restore.repo).items)
                /\ \A i \in 1 .. Len(restore.archive) : i < restore.repo => Nth(i).name # Nth(restore.repo).name
                /\ \A c \in ToSet(restore.commands) : AboutEarlier(c) \/ About(c, restore.repo, restore.item)
          /\ restore.at # "failed" => \A k \in TargetKeys : target[k] = restore.before[k] + Added(k)
          /\ restore.dry => target = restore.before

LEMMA RestoreGives == RestoreInv => RestoreCreates
  BY DEF RestoreInv, RestoreTypeOK, RestoreCreates, Added, NoRun

LEMMA RestoreStarts == MirrorInit => RestoreInv
<1> SUFFICES ASSUME MirrorInit PROVE RestoreInv
  OBVIOUS
<1>1. restore = NoRun /\ NoRun \notin Restores
  BY DEF MirrorInit, NoRun, Restores
<1> QED BY <1>1 DEF MirrorInit, RestoreInv, RestoreTypeOK

\* What is in a sequence after one more.
LEMMA ElementsOfAppend ==
  ASSUME NEW S, NEW s \in Seq(S), NEW x \in S
  PROVE  /\ Append(s, x) \in Seq(S)
         /\ ToSet(Append(s, x)) = ToSet(s) \cup {x}
<1>1. Len(Append(s, x)) = Len(s) + 1 /\ Len(s) \in Nat /\ DOMAIN s = 1 .. Len(s)
      /\ DOMAIN Append(s, x) = 1 .. Len(s) + 1 /\ Append(s, x)[Len(s) + 1] = x
      /\ \A i \in 1 .. Len(s) : Append(s, x)[i] = s[i]
  OBVIOUS
<1>2. ASSUME NEW y PROVE y \in ToSet(Append(s, x)) <=> y \in ToSet(s) \/ y = x
  <2>1. ASSUME y \in ToSet(Append(s, x)) PROVE y \in ToSet(s) \/ y = x
    <3>1. PICK i \in 1 .. Len(s) + 1 : y = Append(s, x)[i]
      BY <1>1, <2>1 DEF ToSet
    <3>2. i \in 1 .. Len(s) \/ i = Len(s) + 1
      BY <1>1
    <3> QED BY <1>1, <3>1, <3>2 DEF ToSet
  <2>2. ASSUME y \in ToSet(s) PROVE y \in ToSet(Append(s, x))
    <3>1. PICK i \in 1 .. Len(s) : y = s[i]
      BY <1>1, <2>2 DEF ToSet
    <3>2. i \in 1 .. Len(s) + 1 /\ y = Append(s, x)[i]
      BY <1>1, <3>1
    <3> QED BY <1>1, <3>2 DEF ToSet
  <2>3. x \in ToSet(Append(s, x))
    <3>1. Len(s) + 1 \in 1 .. Len(s) + 1
      BY <1>1
    <3> QED BY <1>1, <3>1 DEF ToSet
  <2> QED BY <2>1, <2>2, <2>3
<1> QED BY <1>2

\* The repository a restore looks at.
LEMMA RepositoryIs ==
  ASSUME RestoreInv, restore.at \in {"repository", "items"}, NEW i \in 1 .. Len(restore.archive)
  PROVE  /\ restore \in Restores
         /\ Nth(i).items \in Seq(Items) /\ Nth(i).name \in Names /\ <<Nth(i).name>> \in TargetKeys
         /\ \A h \in 1 .. Len(Nth(i).items) : ItemKey(Nth(i).name, Nth(i).items[h]) \in TargetKeys
<1>1. restore \in Restores /\ restore.archive \in Archives
  BY DEF RestoreInv, RestoreTypeOK, NoRun, Restores
<1>2. restore.archive \in Seq(ToSet(restore.archive))
  BY <1>1, ArchivesAreLists
<1>3. Nth(i) \in ToSet(restore.archive)
  BY <1>2 DEF Nth
<1>4. Nth(i).items \in Seq(Items)
  BY <1>1, <1>3, ArchivesAreLists
<1>5. Nth(i) \in UNION {ToSet(s) : s \in Archives}
  BY <1>1, <1>3
<1>6. \A h \in 1 .. Len(Nth(i).items) : Nth(i).items[h] \in ToSet(Nth(i).items)
  BY <1>4 DEF ToSet
<1>7. <<Nth(i).name>> \in TargetKeys
      /\ \A x \in ToSet(Nth(i).items) : ItemKey(Nth(i).name, x) \in TargetKeys
  BY <1>5 DEF TargetKeys
<1>8. Nth(i).name \in Names
  BY <1>5 DEF Names
<1> QED BY <1>1, <1>4, <1>6, <1>7, <1>8

\* A restore begins with nothing done.
LEMMA BeginKeeps ==
  ASSUME RestoreInv, NEW a \in Archives, NEW dry \in BOOLEAN, NEW strict \in BOOLEAN, BeginRestore(a, dry, strict)
  PROVE  RestoreInv'
<1>1. /\ restore' = [at |-> "repository", archive |-> a, dry |-> dry, strict |-> strict, repo |-> 1, item |-> 1,
                     commands |-> <<>>, blockers |-> {}, before |-> target]
      /\ target' = target /\ target \in [TargetKeys -> Nat]
  BY DEF BeginRestore, RestoreInv, RestoreTypeOK
<1>2. <<>> \in Seq(TargetKeys) /\ {} \in SUBSET Names
  OBVIOUS
<1>3. restore' \in Restores
  BY <1>1, <1>2 DEF Restores
<1>4. ToSet(restore'.commands) = {}
  BY <1>1 DEF ToSet
<1>5. \A k \in TargetKeys : Added(k)' = 0 /\ target'[k] \in Nat
  BY <1>1, <1>4 DEF Added
<1>6. RestoreTypeOK' /\ restore'.before = target'
      /\ restore'.at = "repository"
  BY <1>1, <1>3 DEF RestoreTypeOK
<1>7. \A k \in TargetKeys : target'[k] = restore'.before[k] + Added(k)'
  BY <1>5, <1>6
<1> QED BY <1>4, <1>6, <1>7 DEF RestoreInv

\* Creating something new adds one to it and nothing to the rest; a dry run, a
\* thing only planned, and what is refused, add nothing.
LEMMA AddingCounts ==
  ASSUME RestoreInv, restore \in Restores, restore.at # "failed",
         NEW key \in TargetKeys, key \notin ToSet(restore.commands),
         restore'.dry = restore.dry, restore'.before = restore.before,
         restore'.commands = Append(restore.commands, key),
         target' = IF ~restore.dry /\ (Len(key) = 1 \/ key[2] \notin Planned)
                   THEN [target EXCEPT ![key] = @ + 1] ELSE target
  PROVE  /\ target' \in [TargetKeys -> Nat]
         /\ \A k \in TargetKeys : target'[k] = restore'.before[k] + Added(k)'
         /\ restore'.dry => target' = restore'.before
<1>1. target \in [TargetKeys -> Nat] /\ restore.commands \in Seq(TargetKeys) /\ restore.before \in [TargetKeys -> Nat]
  BY DEF RestoreInv, RestoreTypeOK, Restores
<1>2. ToSet(restore'.commands) = ToSet(restore.commands) \cup {key}
  BY <1>1, ElementsOfAppend
<1>3. target' \in [TargetKeys -> Nat]
  BY <1>1
<1>4. ASSUME NEW k \in TargetKeys PROVE target'[k] = restore'.before[k] + Added(k)'
  <2>1. target[k] = restore.before[k] + Added(k) /\ restore.before[k] \in Nat
    BY <1>1 DEF RestoreInv
  <2>2. CASE k # key
    <3>1. target'[k] = target[k] /\ Added(k)' = Added(k)
      BY <1>1, <1>2, <2>2 DEF Added
    <3> QED BY <2>1, <3>1
  <2>3. CASE k = key
    <3>1. Added(k) = 0
      BY <2>3 DEF Added
    <3>2. CASE ~restore.dry /\ (Len(key) = 1 \/ key[2] \notin Planned)
      <4>1. Added(k)' = 1
        BY <1>2, <2>3, <3>2 DEF Added
      <4>2. target'[k] = target[k] + 1
        BY <1>1, <2>3, <3>2
      <4> QED BY <2>1, <3>1, <4>1, <4>2
    <3>3. CASE ~(~restore.dry /\ (Len(key) = 1 \/ key[2] \notin Planned))
      <4>1. Added(k)' = 0
        BY <2>3, <3>3 DEF Added
      <4>2. target'[k] = target[k]
        BY <3>3
      <4> QED BY <2>1, <3>1, <4>1, <4>2
    <3> QED BY <3>2, <3>3
  <2> QED BY <2>2, <2>3
<1>5. restore'.dry => target' = restore'.before
  BY DEF RestoreInv
<1> QED BY <1>3, <1>4, <1>5

LEMMA FailureKeeps ==
  ASSUME RestoreInv, restore'\in Restores, restore'.at = "failed", target' \in [TargetKeys -> Nat],
         restore'.dry => target' = restore'.before
  PROVE  RestoreInv'
  BY DEF RestoreInv, RestoreTypeOK

\* Keys tell repositories from items, and items from one another.
LEMMA ItemKeysDiffer ==
  ASSUME NEW n, NEW m, NEW x \in Items, NEW y \in Items
  PROVE  /\ <<n>> # ItemKey(m, x)
         /\ ItemKey(n, x) = ItemKey(m, y) => n = m /\ x = y
         /\ <<n>> = <<m>> => n = m
         /\ Len(<<n>>) = 1 /\ Len(ItemKey(n, x)) = 3 /\ ItemKey(n, x)[2] = x.kind
  BY DEF ItemKey, Items

LEMMA RestoreRepositoryKeeps ==
  ASSUME RestoreInv, NEW refused \in BOOLEAN, RestoreRepository(refused)
  PROVE  RestoreInv'
<1> DEFINE r == restore
           a == Nth(restore.repo)
           key == <<a.name>>
           again == \E i \in 1 .. restore.repo - 1 : Nth(i).name = a.name
<1>0. /\ r.at = "repository" /\ r.repo <= Len(r.archive) /\ r \in Restores /\ r.repo \in 1 .. Len(r.archive)
      /\ Len(r.archive) \in Nat
  <2>1. r.at = "repository" /\ r.repo <= Len(r.archive) /\ r \in Restores
    BY DEF RestoreRepository, RestoreInv, RestoreTypeOK, NoRun
  <2>2. r.archive \in Seq(ToSet(r.archive))
    BY <2>1, ArchivesAreLists DEF Restores
  <2>3. Len(r.archive) \in Nat
    BY <2>2
  <2> QED BY <2>1, <2>3 DEF Restores
<1>1. a.items \in Seq(Items) /\ a.name \in Names /\ key \in TargetKeys
  BY <1>0, RepositoryIs
<1>2. \/ restore' = [r EXCEPT !.at = "failed"] /\ target' = target
      \/ restore' = [r EXCEPT !.repo = @ + 1, !.blockers = @ \cup {a.name}] /\ target' = target
      \/ /\ ~again /\ (Unique(a.items) \/ (r.strict /\ Reached(a.name))) /\ ~(r.strict /\ Reached(a.name))
         /\ restore' = [r EXCEPT !.at = IF refused /\ ~r.dry THEN "failed" ELSE "items",
                                 !.commands = Append(@, key), !.item = 1]
         /\ target' = IF r.dry \/ refused THEN target ELSE [target EXCEPT ![key] = @ + 1]
  BY DEF RestoreRepository, Nth
<1>3. CASE restore' = [r EXCEPT !.at = "failed"] /\ target' = target
  <2>1. restore' \in Restores /\ restore'.at = "failed" /\ restore'.dry = r.dry /\ restore'.before = r.before
    BY <1>0, <1>3 DEF Restores
  <2> QED BY <1>0, <1>3, <2>1, FailureKeeps DEF RestoreInv, RestoreTypeOK
<1>4. CASE restore' = [r EXCEPT !.repo = @ + 1, !.blockers = @ \cup {a.name}] /\ target' = target
  <2>1. r.repo + 1 \in Nat \ {0} /\ r.blockers \cup {a.name} \in SUBSET Names
    BY <1>0, <1>1 DEF Restores
  <2>2. /\ restore' \in Restores /\ restore'.at = "repository" /\ restore'.dry = r.dry /\ restore'.before = r.before
        /\ restore'.commands = r.commands /\ restore'.archive = r.archive /\ restore'.repo = r.repo + 1
    BY <1>0, <1>4, <2>1 DEF Restores
  <2>3. \A c \in ToSet(r.commands) : AboutEarlier(c)'
    <3>1. \A c \in ToSet(r.commands) : AboutEarlier(c)
      BY <1>0 DEF RestoreInv
    <3>2. \A i : Nth(i)' = Nth(i)
      BY <2>2 DEF Nth
    <3>3. \A i \in 1 .. Len(r.archive) : i < r.repo => i < restore'.repo
      BY <1>0, <2>2
    <3> QED BY <2>2, <3>1, <3>2, <3>3 DEF AboutEarlier, About
  <2>4. \A k : Added(k)' = Added(k)
    BY <2>2 DEF Added
  <2> QED BY <1>0, <1>4, <2>2, <2>3, <2>4 DEF RestoreInv, RestoreTypeOK
<1>5. CASE /\ ~again /\ Unique(a.items)
           /\ restore' = [r EXCEPT !.at = IF refused /\ ~r.dry THEN "failed" ELSE "items",
                                   !.commands = Append(@, key), !.item = 1]
           /\ target' = IF r.dry \/ refused THEN target ELSE [target EXCEPT ![key] = @ + 1]
  <2>1. Append(r.commands, key) \in Seq(TargetKeys) /\ r.commands \in Seq(TargetKeys)
    BY <1>0, <1>1, ElementsOfAppend DEF Restores
  <2>2. /\ restore' \in Restores /\ restore'.at = (IF refused /\ ~r.dry THEN "failed" ELSE "items")
        /\ restore'.dry = r.dry /\ restore'.before = r.before /\ restore'.item = 1
        /\ restore'.commands = Append(r.commands, key) /\ restore'.archive = r.archive /\ restore'.repo = r.repo
    <3>1. (IF refused /\ ~r.dry THEN "failed" ELSE "items") \in {"repository", "items", "done", "failed"}
      OBVIOUS
    <3>2. PICK s \in {"repository", "items", "done", "failed"} : s = IF refused /\ ~r.dry THEN "failed" ELSE "items"
      BY <3>1
    <3>3. restore' = [r EXCEPT !.at = s, !.commands = Append(r.commands, key), !.item = 1]
      BY <1>5, <3>2
    <3>4. 1 \in Nat \ {0}
      OBVIOUS
    <3> HIDE DEF key
    <3>5. PICK cs \in Seq(TargetKeys) : cs = Append(restore.commands, key)
      BY <2>1
    <3>6. PICK n \in Nat \ {0} : n = 1
      BY <3>4
    <3>7. restore' = [restore EXCEPT !.at = s, !.commands = cs, !.item = n]
      BY <3>3, <3>5, <3>6
    <3>8. /\ restore' \in Restores
         /\ restore'.at = s /\ restore'.dry = restore.dry /\ restore'.before = restore.before /\ restore'.item = n
         /\ restore'.commands = cs /\ restore'.archive = restore.archive /\ restore'.repo = restore.repo
      BY <1>0, <3>7 DEF Restores
    <3> QED BY <3>2, <3>5, <3>6, <3>8
  <2>3. \A i \in 1 .. Len(r.archive) : i < r.repo => Nth(i).name # a.name
    BY <1>0, <1>5
  <2>4. key \notin ToSet(r.commands)
    <3> SUFFICES ASSUME key \in ToSet(r.commands) PROVE FALSE
      OBVIOUS
    <3>1. PICK i \in 1 .. Len(r.archive) : i < r.repo /\ About(key, i, Len(Nth(i).items) + 1)
      BY <1>0 DEF RestoreInv, AboutEarlier
    <3>2. CASE key = <<Nth(i).name>>
      BY <2>3, <3>1, <3>2
    <3>3. ASSUME NEW h \in 1 .. Len(Nth(i).items), key = ItemKey(Nth(i).name, Nth(i).items[h]) PROVE FALSE
      <4>1. Nth(i).items \in Seq(Items)
        BY <1>0, RepositoryIs
      <4>2. Nth(i).items[h] \in Items
        BY <4>1
      <4> QED BY <3>3, <4>2, ItemKeysDiffer
    <3> QED BY <3>1, <3>2, <3>3 DEF About
  <2>5. CASE refused /\ ~r.dry
    BY <1>0, <1>5, <2>2, <2>5, FailureKeeps DEF RestoreInv, RestoreTypeOK
  <2>6. CASE ~(refused /\ ~r.dry)
    <3>1. /\ target' \in [TargetKeys -> Nat]
          /\ \A k \in TargetKeys : target'[k] = restore'.before[k] + Added(k)'
          /\ restore'.dry => target' = restore'.before
      <4>1. Len(key) = 1
        OBVIOUS
      <4>2. target' = IF ~r.dry /\ (Len(key) = 1 \/ key[2] \notin Planned)
                      THEN [target EXCEPT ![key] = @ + 1] ELSE target
        BY <1>5, <2>6, <4>1
      <4> HIDE DEF key
      <4> QED BY <1>0, <1>1, <2>2, <2>4, <4>2, AddingCounts
    <3>2. \A i : Nth(i)' = Nth(i)
      BY <2>2 DEF Nth
    <3>3. \A c : AboutEarlier(c) => AboutEarlier(c)'
      BY <2>2, <3>2 DEF AboutEarlier, About
    <3>4. About(key, restore.repo, restore.item)'
      BY <2>2, <3>2 DEF About
    <3>5. \A c \in ToSet(restore'.commands) : AboutEarlier(c)' \/ About(c, restore.repo, restore.item)'
      <4>1. ToSet(restore'.commands) = ToSet(r.commands) \cup {key}
        BY <1>1, <2>1, <2>2, ElementsOfAppend
      <4>2. \A c \in ToSet(r.commands) : AboutEarlier(c)
        BY <1>0 DEF RestoreInv
      <4>3. key' = key
        BY <2>2, <3>2
      <4> QED BY <3>3, <3>4, <4>1, <4>2, <4>3
    <3>6. /\ restore'.repo <= Len(restore'.archive)
          /\ \A i \in 1 .. Len(restore'.archive) : i < restore'.repo => Nth(i)'.name # Nth(restore.repo)'.name
          /\ IsInjective(Nth(restore.repo)'.items)
      BY <1>0, <1>5, <2>2, <2>3, <3>2 DEF Unique
    <3>7. restore'.at = "items"
      BY <2>2, <2>6
    <3> QED BY <2>2, <3>1, <3>5, <3>6, <3>7 DEF RestoreInv, RestoreTypeOK
  <2> QED BY <2>5, <2>6
<1> QED BY <1>2, <1>3, <1>4, <1>5

LEMMA RestoreItemKeeps ==
  ASSUME RestoreInv, NEW refused \in BOOLEAN, RestoreItem(refused)
  PROVE  RestoreInv'
<1> DEFINE r == restore
           a == Nth(restore.repo)
<1>i. PICK item : item = Nth(restore.repo).items[restore.item]
  OBVIOUS
<1>k. PICK key : key = ItemKey(Nth(restore.repo).name, item)
  OBVIOUS
<1> DEFINE creates == Creates(restore.dry, item.kind)
<1>0. r.at = "items" /\ r.item <= Len(a.items) /\ r \in Restores
  <2>1. r.at = "items" /\ r.item <= Len(a.items)
    BY DEF RestoreItem, Nth
  <2>2. r = NoRun \/ r \in Restores
    BY DEF RestoreInv, RestoreTypeOK
  <2> QED BY <2>1, <2>2 DEF NoRun
<1>1. /\ r.repo \in 1 .. Len(r.archive) /\ IsInjective(a.items) /\ Len(r.archive) \in Nat
      /\ \A i \in 1 .. Len(r.archive) : i < r.repo => Nth(i).name # a.name
      /\ \A c \in ToSet(r.commands) : AboutEarlier(c) \/ About(c, r.repo, r.item)
  <2>1. r.repo <= Len(r.archive) /\ r.archive \in Seq(ToSet(r.archive))
    BY <1>0, ArchivesAreLists DEF RestoreInv, Restores
  <2>2. Len(r.archive) \in Nat /\ r.repo \in Nat \ {0}
    BY <1>0, <2>1 DEF Restores
  <2> QED BY <1>0, <2>1, <2>2 DEF RestoreInv
<1>2. a.items \in Seq(Items) /\ key \in TargetKeys /\ r.item \in 1 .. Len(a.items) /\ item \in Items /\ Len(a.items) \in Nat
  <2>1. a.items \in Seq(Items) /\ \A h \in 1 .. Len(a.items) : ItemKey(a.name, a.items[h]) \in TargetKeys
    BY <1>0, <1>1, RepositoryIs
  <2>2. Len(a.items) \in Nat /\ r.item \in Nat \ {0}
    BY <1>0, <2>1 DEF Restores
  <2>3. r.item \in 1 .. Len(a.items)
    BY <1>0, <2>2
  <2>4. item \in Items /\ key \in TargetKeys
    BY <1>i, <1>k, <2>1, <2>3
  <2> QED BY <2>1, <2>2, <2>3, <2>4
<1>3. /\ restore' = [r EXCEPT !.at = IF creates /\ refused THEN "failed" ELSE "items",
                              !.commands = Append(@, key), !.item = @ + 1]
      /\ target' = IF creates /\ ~refused THEN [target EXCEPT ![key] = @ + 1] ELSE target
  BY <1>i, <1>k DEF RestoreItem, Nth
<1>4. Append(r.commands, key) \in Seq(TargetKeys) /\ r.commands \in Seq(TargetKeys)
      /\ ToSet(Append(r.commands, key)) = ToSet(r.commands) \cup {key}
  BY <1>0, <1>2, ElementsOfAppend DEF Restores
<1>5. /\ restore' \in Restores /\ restore'.at = (IF creates /\ refused THEN "failed" ELSE "items")
      /\ restore'.dry = r.dry /\ restore'.before = r.before /\ restore'.item = r.item + 1
      /\ restore'.commands = Append(r.commands, key) /\ restore'.archive = r.archive /\ restore'.repo = r.repo
  <2>1. (IF creates /\ refused THEN "failed" ELSE "items") \in {"repository", "items", "done", "failed"}
    OBVIOUS
  <2>2. r.item + 1 \in Nat \ {0}
    BY <1>0 DEF Restores
  <2>3. PICK s \in {"repository", "items", "done", "failed"} : s = IF creates /\ refused THEN "failed" ELSE "items"
    BY <2>1
  <2>4. restore' = [r EXCEPT !.at = s, !.commands = Append(r.commands, key), !.item = r.item + 1]
    BY <1>3, <2>3
  <2>5. PICK cs \in Seq(TargetKeys) : cs = Append(restore.commands, key)
    BY <1>4
  <2>6. PICK n \in Nat \ {0} : n = restore.item + 1
    BY <2>2
  <2>7. restore' = [restore EXCEPT !.at = s, !.commands = cs, !.item = n]
    BY <2>4, <2>5, <2>6
  <2>8. /\ restore' \in Restores
       /\ restore'.at = s /\ restore'.dry = restore.dry /\ restore'.before = restore.before /\ restore'.item = n
       /\ restore'.commands = cs /\ restore'.archive = restore.archive /\ restore'.repo = restore.repo
    BY <1>0, <2>7 DEF Restores
  <2> QED BY <2>3, <2>5, <2>6, <2>8
<1>6. key \notin ToSet(r.commands)
  <2> SUFFICES ASSUME key \in ToSet(r.commands) PROVE FALSE
    OBVIOUS
  <2>1. ASSUME NEW i \in 1 .. Len(r.archive), NEW j, About(key, i, j), i < r.repo \/ (i = r.repo /\ j = r.item)
        PROVE FALSE
    <3>1. Nth(i).items \in Seq(Items)
      BY <1>0, RepositoryIs
    <3>2. key # <<Nth(i).name>>
      BY <1>2, <1>k, ItemKeysDiffer
    <3>3. PICK h \in 1 .. Len(Nth(i).items) : h < j /\ key = ItemKey(Nth(i).name, Nth(i).items[h])
      BY <2>1, <3>2 DEF About
    <3>4. Nth(i).items[h] \in Items
      BY <3>1
    <3>5. Nth(i).name = a.name /\ Nth(i).items[h] = item
      <4>1. ItemKey(a.name, item) = ItemKey(Nth(i).name, Nth(i).items[h]) /\ item \in Items
        BY <1>2, <1>k, <3>3
      <4> QED BY <3>4, <4>1, ItemKeysDiffer
    <3>6. i = r.repo /\ h < r.item
      BY <1>1, <2>1, <3>3, <3>5
    <3>7. h = r.item
      <4>1. h \in DOMAIN a.items /\ r.item \in DOMAIN a.items /\ a.items[h] = a.items[r.item]
        BY <1>2, <1>i, <3>3, <3>5, <3>6
      <4> QED BY <1>1, <4>1 DEF IsInjective
    <3> QED BY <1>2, <3>6, <3>7
  <2>2. CASE AboutEarlier(key)
    BY <2>1, <2>2 DEF AboutEarlier
  <2>3. CASE About(key, r.repo, r.item)
    BY <1>1, <2>1, <2>3
  <2> QED BY <1>1, <2>2, <2>3
<1>7. CASE creates /\ refused
  <2>1. target' = target /\ restore'.at = "failed"
    BY <1>3, <1>5, <1>7
  <2> QED BY <1>0, <1>5, <2>1, FailureKeeps DEF RestoreInv, RestoreTypeOK
<1>8. CASE ~(creates /\ refused)
  <2>1. /\ target' \in [TargetKeys -> Nat]
        /\ \A k \in TargetKeys : target'[k] = restore'.before[k] + Added(k)'
        /\ restore'.dry => target' = restore'.before
    <3>1. Len(key) = 3 /\ key[2] = item.kind
      BY <1>2, <1>k, ItemKeysDiffer
    <3>2. target' = IF ~r.dry /\ (Len(key) = 1 \/ key[2] \notin Planned)
                    THEN [target EXCEPT ![key] = @ + 1] ELSE target
      BY <1>3, <1>8, <3>1 DEF Creates
    <3> QED BY <1>0, <1>2, <1>5, <1>6, <3>2, AddingCounts
  <2>2. \A i : Nth(i)' = Nth(i)
    BY <1>5 DEF Nth
  <2>3. \A c : AboutEarlier(c) => AboutEarlier(c)'
    BY <1>5, <2>2 DEF AboutEarlier, About
  <2>4. \A c : About(c, r.repo, r.item) => About(c, restore.repo, restore.item)'
    <3>1. \A h \in 1 .. Len(a.items) : h < r.item => h < r.item + 1
      BY <1>2
    <3> QED BY <1>5, <2>2, <3>1 DEF About
  <2>5. About(key, restore.repo, restore.item)'
    <3>1. r.item < r.item + 1
      BY <1>2
    <3> QED BY <1>2, <1>i, <1>k, <1>5, <2>2, <3>1 DEF About
  <2>6. \A c \in ToSet(restore'.commands) : AboutEarlier(c)' \/ About(c, restore.repo, restore.item)'
    BY <1>1, <1>4, <1>5, <2>3, <2>4, <2>5
  <2>7. /\ restore'.repo <= Len(restore'.archive)
        /\ \A i \in 1 .. Len(restore'.archive) : i < restore'.repo => Nth(i)'.name # Nth(restore.repo)'.name
        /\ IsInjective(Nth(restore.repo)'.items)
    BY <1>1, <1>5, <2>2
  <2>8. restore'.at = "items"
    BY <1>5, <1>8
  <2> QED BY <1>5, <2>1, <2>6, <2>7, <2>8 DEF RestoreInv, RestoreTypeOK
<1> QED BY <1>7, <1>8

\* No step breaks the invariant of restores.
LEMMA RestoreKept == RestoreInv /\ [MirrorNext]_mirrorVars => RestoreInv'
<1> SUFFICES ASSUME RestoreInv, [MirrorNext]_mirrorVars PROVE RestoreInv'
  OBVIOUS
<1>1. CASE RepositoryDone
  <2>1. /\ restore.at = "items" /\ restore.item > Len(Nth(restore.repo).items) /\ restore \in Restores
        /\ restore' = [restore EXCEPT !.at = "repository", !.repo = @ + 1] /\ target' = target
    BY <1>1 DEF RepositoryDone, RestoreInv, RestoreTypeOK, NoRun, Nth
  <2>2. restore.repo + 1 \in Nat \ {0}
    BY <2>1 DEF Restores
  <2>3. /\ restore' \in Restores /\ restore'.at = "repository" /\ restore'.dry = restore.dry
        /\ restore'.before = restore.before /\ restore'.commands = restore.commands
        /\ restore'.archive = restore.archive /\ restore'.repo = restore.repo + 1
    BY <2>1, <2>2 DEF Restores
  <2>4. /\ restore.repo \in 1 .. Len(restore.archive)
        /\ \A c \in ToSet(restore.commands) : AboutEarlier(c) \/ About(c, restore.repo, restore.item)
    <3>1. restore.archive \in Seq(ToSet(restore.archive))
      BY <2>1, ArchivesAreLists DEF Restores
    <3>2. Len(restore.archive) \in Nat /\ restore.repo \in Nat \ {0}
      BY <2>1, <3>1 DEF Restores
    <3> QED BY <2>1, <3>2 DEF RestoreInv
  <2>5. \A i : Nth(i)' = Nth(i)
    BY <2>3 DEF Nth
  <2>6. \A i \in 1 .. Len(restore.archive) : i <= restore.repo => i < restore'.repo
    BY <2>3, <2>4
  <2>7. \A c : AboutEarlier(c) => AboutEarlier(c)'
    <3>1. \A i \in 1 .. Len(restore.archive) : i < restore.repo => i < restore'.repo
      BY <2>3, <2>4
    <3> QED BY <2>3, <2>5, <3>1 DEF AboutEarlier, About
  <2>8. ASSUME NEW c, About(c, restore.repo, restore.item) PROVE AboutEarlier(c)'
    <3>1. Nth(restore.repo).items \in Seq(Items)
      BY <2>1, <2>4, RepositoryIs
    <3>2. \A h \in 1 .. Len(Nth(restore.repo).items) : h < Len(Nth(restore.repo).items) + 1
      BY <3>1
    <3>3. About(c, restore.repo, Len(Nth(restore.repo).items) + 1)
      BY <2>8, <3>2 DEF About
    <3>4. restore.repo < restore'.repo
      BY <2>4, <2>6
    <3> QED BY <2>3, <2>4, <2>5, <3>3, <3>4 DEF AboutEarlier, About
  <2>9. \A k : Added(k)' = Added(k)
    BY <2>3 DEF Added
  <2> QED BY <2>1, <2>3, <2>4, <2>7, <2>8, <2>9 DEF RestoreInv, RestoreTypeOK
<1>2. CASE RestoreDone
  <2>1. restore \in Restores /\ restore.at = "repository" /\ restore' = [restore EXCEPT !.at = "done"] /\ target' = target
    BY <1>2 DEF RestoreDone, RestoreInv, RestoreTypeOK, NoRun
  <2>2. /\ restore' \in Restores /\ restore'.at = "done" /\ restore'.dry = restore.dry
        /\ restore'.before = restore.before /\ restore'.commands = restore.commands
    BY <2>1 DEF Restores
  <2>3. \A k : Added(k)' = Added(k)
    BY <2>2 DEF Added
  <2> QED BY <2>1, <2>2, <2>3 DEF RestoreInv, RestoreTypeOK
<1>3. CASE UNCHANGED restoreVars
  <2>1. \A k : Added(k)' = Added(k)
    BY <1>3 DEF restoreVars, Added
  <2>2. /\ \A c : AboutEarlier(c)' <=> AboutEarlier(c)
        /\ \A c, i, j : About(c, i, j)' <=> About(c, i, j)
        /\ \A i : Nth(i)' = Nth(i)
    BY <1>3 DEF restoreVars, AboutEarlier, About, Nth
  <2> QED BY <1>3, <2>1, <2>2 DEF restoreVars, RestoreInv, RestoreTypeOK
<1> QED BY <1>1, <1>2, <1>3, BeginKeeps, RestoreRepositoryKeeps, RestoreItemKeeps
        DEF MirrorNext, BundleNext, RestoreNext, ImportNext, SyncNext, mirrorVars

\* A restore that ended created once, of what it printed, all that it creates at
\* all, and nothing else; a dry run created nothing (plan_restore), for any
\* archives, any target it begins with and any calls the target refuses.
THEOREM RestoresCreateWhatTheyPrint == MirrorSpec => []RestoreCreates
<1> QED BY RestoreStarts, RestoreKept, RestoreGives, PTL DEF MirrorSpec

-----------------------------------------------------------------------------
(* A restore against its plan *)

\* Every inhabited set of natural numbers has a least one.
LEMMA LeastNumber ==
    ASSUME NEW T, T \subseteq Nat, T # {}
    PROVE  \E x \in T : \A y \in T : x <= y
<1> DEFINE Smaller == { ss \in Nat \X Nat : ss[1] < ss[2] }
<1>1. IsWellFoundedOn(Smaller, Nat)
  BY NatLessThanWellFounded, Zenon DEF OpToRel
<1>2. PICK x \in T : \A y \in T : ~ (<<y, x>> \in Smaller)
  BY <1>1, WFMin
<1>3. ASSUME NEW y \in T, y < x
      PROVE  FALSE
  <2>1. PICK pair : pair = <<y, x>>
    OBVIOUS
  <2>2. pair \in Nat \X Nat /\ pair[1] < pair[2]
    BY <1>3, <2>1
  <2> QED
    BY <1>2, <2>1, <2>2
<1> QED
  BY <1>3

\* f holds the plans of the first repositories of an archive, up to n.
PlansTo(f, archive, blockers, n) ==
    f = [m \in 0 .. n |-> IF m = 0 THEN <<>> ELSE f[m - 1] \o Prints(archive[m], blockers)]

\* There is one such function.
LEMMA OnePlan ==
    ASSUME NEW f, NEW g, NEW archive, NEW blockers, NEW n \in Nat,
           PlansTo(f, archive, blockers, n), PlansTo(g, archive, blockers, n)
    PROVE  f[n] = g[n]
<1> DEFINE Missed == {m \in 0 .. n : f[m] # g[m]}
<1>1. ASSUME Missed # {} PROVE FALSE
  <2>1. Missed \subseteq Nat
    OBVIOUS
  <2>2. PICK x \in Missed : \A y \in Missed : x <= y
    <3> HIDE DEF Missed
    <3> QED BY <1>1, <2>1, LeastNumber
  <2>3. x \in 0 .. n /\ f[x] # g[x]
    BY <2>2
  <2>4. CASE x = 0
    BY <2>3, <2>4 DEF PlansTo
  <2>5. CASE x # 0
    <3>1. x - 1 \in 0 .. n /\ ~(x <= x - 1)
      BY <2>3, <2>5
    <3>2. f[x - 1] = g[x - 1]
      BY <2>2, <3>1
    <3>3. f[x] = f[x - 1] \o Prints(archive[x], blockers) /\ g[x] = g[x - 1] \o Prints(archive[x], blockers)
      BY <2>3, <2>5 DEF PlansTo
    <3> QED BY <2>3, <3>2, <3>3
  <2> QED BY <2>4, <2>5
<1> QED BY <1>1

\* The plan of the first n + 1 repositories, when the last of them was not among
\* those a run had been blocked from before.
GoesOn(f, archive, blockers, n) ==
    \E g : PlansTo(g, archive, blockers, n + 1) /\ g[n + 1] = f[n] \o Prints(archive[n + 1], blockers)

LEMMA PlanGoesOn ==
    ASSUME NEW f, NEW archive, NEW blockers, NEW more, NEW n \in Nat,
           PlansTo(f, archive, blockers, n),
           \A i \in 1 .. n : archive[i].name \notin more
    PROVE  GoesOn(f, archive, blockers \cup more, n)
<1> DEFINE val(h, m) == IF m = 0 THEN <<>> ELSE h[m - 1] \o Prints(archive[m], blockers \cup more)
           g == [m \in 0 .. (n + 1) |-> val(f, m)]
<1>1. \A m \in 1 .. n : Prints(archive[m], blockers) = Prints(archive[m], blockers \cup more)
  BY DEF Prints
<1>2. \A m \in 0 .. n : m \in 0 .. (n + 1) /\ (m # 0 => m \in 1 .. n)
  OBVIOUS
<1>3. \A m \in 0 .. n : f[m] = val(f, m)
  BY <1>1, <1>2 DEF PlansTo
<1>4. \A m \in 0 .. (n + 1) : m # 0 => m - 1 \in 0 .. n
  OBVIOUS
<1>5. \A m \in 0 .. n : g[m] = f[m]
  <2> HIDE DEF val
  <2> QED BY <1>2, <1>3
<1>6. \A m \in 0 .. (n + 1) : val(f, m) = val(g, m)
  <2> SUFFICES ASSUME NEW m \in 0 .. (n + 1) PROVE val(f, m) = val(g, m)
    OBVIOUS
  <2>1. m # 0 => f[m - 1] = g[m - 1]
    <3> HIDE DEF g
    <3> QED BY <1>4, <1>5
  <2> HIDE DEF g
  <2> QED BY <2>1
<1>7. g = [m \in 0 .. (n + 1) |-> val(g, m)]
  <2> HIDE DEF val
  <2> QED BY <1>6
<1>8. PlansTo(g, archive, blockers \cup more, n + 1)
  <2> HIDE DEF g
  <2> QED BY <1>7 DEF PlansTo
<1>9. g[n + 1] = f[n] \o Prints(archive[n + 1], blockers \cup more)
  <2>1. n + 1 \in 0 .. (n + 1) /\ n + 1 # 0 /\ (n + 1) - 1 = n
    OBVIOUS
  <2> QED BY <2>1
<1> QED
  <2> HIDE DEF g
  <2> QED BY <1>8, <1>9 DEF GoesOn

\* What has been printed of a repository with its first k items.
Part(a, k) == <<<<a.name>>>> \o [i \in 1 .. k |-> ItemKey(a.name, a.items[i])]

\* The repositories that a run created or is about to fill.
Begun(r, i) == i < r.repo \/ (r.at = "items" /\ i = r.repo)

Bounded(r) ==
    /\ r.repo <= Len(r.archive) + 1
    /\ r.at = "items" => r.repo <= Len(r.archive) /\ r.item <= Len(r.archive[r.repo].items) + 1
    /\ r.at = "done" => r.repo = Len(r.archive) + 1

Named(r) ==
    /\ \A i, j \in 1 .. Len(r.archive) : i < j /\ Begun(r, j) => r.archive[i].name # r.archive[j].name
    /\ \A x \in r.blockers : \E i \in 1 .. Len(r.archive) : i < r.repo /\ r.archive[i].name = x

\* A repository not blocked is printed with its items, each once, and a strict run found it new.
HasAll(r, i) ==
    /\ IsInjective(r.archive[i].items)
    /\ r.strict => r.before[<<r.archive[i].name>>] = 0
    /\ <<r.archive[i].name>> \in ToSet(r.commands)
    /\ \A h \in 1 .. Len(r.archive[i].items) :
          i < r.repo \/ h < r.item => ItemKey(r.archive[i].name, r.archive[i].items[h]) \in ToSet(r.commands)

Made(r) == \A i \in 1 .. Len(r.archive) : Begun(r, i) /\ r.archive[i].name \notin r.blockers => HasAll(r, i)

Printed(r) ==
    \E f : /\ PlansTo(f, r.archive, r.blockers, r.repo - 1)
           /\ r.commands = IF r.at = "items" THEN f[r.repo - 1] \o Part(r.archive[r.repo], r.item - 1)
                           ELSE f[r.repo - 1]

OfArchive(r, c) ==
    \E i \in 1 .. Len(r.archive) :
        \/ c = <<r.archive[i].name>>
        \/ \E h \in 1 .. Len(r.archive[i].items) : c = ItemKey(r.archive[i].name, r.archive[i].items[h])

WholeRun(r) ==
    /\ Bounded(r) /\ Named(r) /\ Made(r) /\ Printed(r)
    /\ r.at = "done" => \A c \in ToSet(r.commands) : OfArchive(r, c)

\* A repository the target does not have has no items there.
Grounded(t) == \A k \in TargetKeys : Len(k) = 3 /\ t[<<k[1]>>] = 0 => t[k] = 0

WholeInv ==
    /\ Grounded(target)
    /\ restore \in Restores =>
          /\ Grounded(restore.before)
          /\ restore.at # "failed" => WholeRun(restore)

\* The types of a run.
LEMMA RunIs ==
    ASSUME NEW r \in Restores
    PROVE  /\ Len(r.archive) \in Nat /\ r.repo \in Nat \ {0} /\ r.item \in Nat \ {0}
           /\ r.commands \in Seq(TargetKeys) /\ r.before \in [TargetKeys -> Nat]
           /\ \A a \in ToSet(r.archive) : \E i \in 1 .. Len(r.archive) : a = r.archive[i]
           /\ \A i \in 1 .. Len(r.archive) :
                 /\ r.archive[i].items \in Seq(Items) /\ <<r.archive[i].name>> \in TargetKeys
                 /\ Len(r.archive[i].items) \in Nat
                 /\ \A h \in 1 .. Len(r.archive[i].items) :
                       ItemKey(r.archive[i].name, r.archive[i].items[h]) \in TargetKeys
<1>1. r.archive \in Archives
  BY DEF Restores
<1>2. r.archive \in Seq(ToSet(r.archive))
  BY <1>1, ArchivesAreLists
<1>3. ASSUME NEW i \in 1 .. Len(r.archive)
      PROVE  /\ r.archive[i].items \in Seq(Items) /\ <<r.archive[i].name>> \in TargetKeys
             /\ Len(r.archive[i].items) \in Nat
             /\ \A h \in 1 .. Len(r.archive[i].items) :
                   ItemKey(r.archive[i].name, r.archive[i].items[h]) \in TargetKeys
  <2>1. PICK a : a = r.archive[i]
    OBVIOUS
  <2>2. a \in ToSet(r.archive)
    BY <1>2, <2>1
  <2>3. a.items \in Seq(Items) /\ Len(a.items) \in Nat
    BY <1>1, <2>2, ArchivesAreLists
  <2>4. a \in UNION {ToSet(s) : s \in Archives}
    BY <1>1, <2>2
  <2>5. \A h \in 1 .. Len(a.items) : a.items[h] \in ToSet(a.items)
    BY <2>3 DEF ToSet
  <2>6. <<a.name>> \in TargetKeys /\ \A x \in ToSet(a.items) : ItemKey(a.name, x) \in TargetKeys
    BY <2>4 DEF TargetKeys
  <2> QED BY <2>1, <2>3, <2>5, <2>6
<1>4. \A a \in ToSet(r.archive) : \E i \in 1 .. Len(r.archive) : a = r.archive[i]
  BY <1>2 DEF ToSet
<1> QED BY <1>2, <1>3, <1>4 DEF Restores

\* Keys of items name their repository.
LEMMA KeysOfItems ==
    ASSUME NEW k \in TargetKeys, Len(k) = 3
    PROVE  <<k[1]>> \in TargetKeys
<1>1. PICK a \in UNION {ToSet(s) : s \in Archives} : k \in {<<a.name>>} \cup {ItemKey(a.name, i) : i \in ToSet(a.items)}
  BY DEF TargetKeys
<1>2. k # <<a.name>>
  <2>1. Len(<<a.name>>) = 1
    OBVIOUS
  <2> QED BY <2>1
<1>3. k[1] = a.name
  BY <1>1, <1>2 DEF ItemKey
<1> QED BY <1>1, <1>3 DEF TargetKeys

LEMMA GroundedKept ==
    ASSUME NEW t \in [TargetKeys -> Nat], Grounded(t), NEW key \in TargetKeys,
           Len(key) = 1 \/ t[<<key[1]>>] > 0
    PROVE  Grounded([t EXCEPT ![key] = @ + 1])
<1> DEFINE u == [t EXCEPT ![key] = @ + 1]
<1>1. \A k \in TargetKeys : t[k] \in Nat /\ u[k] = IF k = key THEN t[k] + 1 ELSE t[k]
  OBVIOUS
<1> SUFFICES ASSUME NEW k \in TargetKeys, Len(k) = 3, u[<<k[1]>>] = 0 PROVE u[k] = 0
  BY DEF Grounded
<1> HIDE DEF u
<1>2. <<k[1]>> \in TargetKeys
  BY KeysOfItems
<1>3. t[<<k[1]>>] = 0
  BY <1>1, <1>2
<1>4. t[k] = 0
  BY <1>3 DEF Grounded
<1>5. k # key
  BY <1>3
<1> QED BY <1>1, <1>4, <1>5

\* A run that only goes on to the next repository.
LEMMA SkipKeepsWhole ==
    ASSUME NEW r \in Restores, NEW s \in Restores, WholeRun(r), r.at = "repository", r.repo <= Len(r.archive),
           \A i \in 1 .. r.repo - 1 : r.archive[i].name # r.archive[r.repo].name,
           s.at = "repository", s.archive = r.archive, s.commands = r.commands, s.before = r.before,
           s.strict = r.strict, s.item = r.item, s.repo = r.repo + 1,
           s.blockers = r.blockers \cup {r.archive[r.repo].name}
    PROVE  WholeRun(s)
<1>0. PICK L \in Nat, n \in Nat : L = Len(r.archive) /\ n + 1 = r.repo /\ n + 1 \in 1 .. L
  <2>1. Len(r.archive) \in Nat /\ r.repo \in Nat \ {0}
    BY RunIs
  <2>2. r.repo - 1 \in Nat /\ (r.repo - 1) + 1 = r.repo /\ r.repo \in 1 .. Len(r.archive)
    BY <2>1
  <2> QED BY <2>1, <2>2
<1>1. Bounded(s)
  BY <1>0 DEF Bounded
<1>2. \A i \in 1 .. L : Begun(s, i) => Begun(r, i) \/ i = r.repo
  BY <1>0 DEF Begun
<1>3. \A i, j \in 1 .. L : i < j /\ Begun(s, j) => r.archive[i].name # r.archive[j].name
  <2> SUFFICES ASSUME NEW i \in 1 .. L, NEW j \in 1 .. L, i < j, Begun(s, j)
               PROVE  r.archive[i].name # r.archive[j].name
    OBVIOUS
  <2>1. CASE Begun(r, j)
    BY <1>0, <2>1 DEF WholeRun, Named
  <2>2. CASE j = r.repo
    <3>1. i \in 1 .. r.repo - 1
      BY <1>0, <2>2
    <3> QED BY <2>2, <3>1
  <2> QED BY <1>2, <2>1, <2>2
<1>4. \A x \in s.blockers : \E i \in 1 .. L : i < s.repo /\ r.archive[i].name = x
  <2> SUFFICES ASSUME NEW x \in s.blockers PROVE \E i \in 1 .. L : i < s.repo /\ r.archive[i].name = x
    OBVIOUS
  <2>1. CASE x \in r.blockers
    <3>1. PICK i \in 1 .. L : i < r.repo /\ r.archive[i].name = x
      BY <1>0, <2>1 DEF WholeRun, Named
    <3>2. i < s.repo
      BY <1>0, <3>1
    <3> QED BY <3>1, <3>2
  <2>2. CASE x = r.archive[r.repo].name
    BY <1>0, <2>2
  <2> QED BY <2>1, <2>2
<1>5. Named(s)
  BY <1>0, <1>3, <1>4 DEF Named
<1>6. Made(s)
  <2> SUFFICES ASSUME NEW i \in 1 .. L, Begun(s, i), r.archive[i].name \notin s.blockers PROVE HasAll(s, i)
    BY <1>0 DEF Made
  <2>1. Begun(r, i) /\ r.archive[i].name \notin r.blockers
    BY <1>2
  <2>2. i < r.repo /\ HasAll(r, i)
    BY <1>0, <2>1 DEF WholeRun, Made, Begun
  <2>3. i < s.repo
    BY <1>0, <2>2
  <2> QED BY <2>2, <2>3 DEF HasAll
<1>7. Printed(s)
  <2>1. PICK f : PlansTo(f, r.archive, r.blockers, n) /\ r.commands = f[n]
    <3>1. r.repo - 1 = n
      BY <1>0
    <3> QED BY <3>1 DEF WholeRun, Printed
  <2>2. \A i \in 1 .. n : r.archive[i].name \notin {r.archive[n + 1].name}
    <3>1. \A i \in 1 .. n : i \in 1 .. r.repo - 1
      BY <1>0
    <3> QED BY <1>0, <3>1
  <2>3. PICK g : PlansTo(g, r.archive, s.blockers, n + 1)
                 /\ g[n + 1] = f[n] \o Prints(r.archive[n + 1], s.blockers)
    <3>1. PICK more, list, old : more = {r.archive[n + 1].name} /\ list = r.archive /\ old = r.blockers
      OBVIOUS
    <3>2. PlansTo(f, list, old, n) /\ \A i \in 1 .. n : list[i].name \notin more
      BY <2>1, <2>2, <3>1
    <3>4. GoesOn(f, list, old \cup more, n)
      BY <1>0, <3>2, PlanGoesOn
    <3>3. s.blockers = old \cup more
      BY <1>0, <3>1
    <3> QED BY <3>1, <3>3, <3>4 DEF GoesOn
  <2>4. Prints(r.archive[n + 1], s.blockers) = <<>>
    BY <1>0 DEF Prints
  <2>5. g[n + 1] = r.commands
    <3>1. PICK c \in Seq(TargetKeys) : c = r.commands
      BY RunIs
    <3>2. c \o <<>> = c
      OBVIOUS
    <3> QED BY <2>1, <2>3, <2>4, <3>1, <3>2
  <2>6. s.repo - 1 = n + 1
    BY <1>0
  <2> QED BY <2>3, <2>5, <2>6 DEF Printed
<1> QED BY <1>1, <1>5, <1>6, <1>7 DEF WholeRun

\* Appending is joining.
LEMMA AppendIsJoined ==
    ASSUME NEW S, NEW c \in Seq(S), NEW x \in S
    PROVE  Append(c, x) = c \o <<x>>
<1>1. /\ Append(c, x) \in Seq(S) /\ c \o <<x>> \in Seq(S)
      /\ Len(Append(c, x)) = Len(c) + 1 /\ Len(c \o <<x>>) = Len(c) + 1 /\ Len(c) \in Nat
  OBVIOUS
<1>2. ASSUME NEW i \in 1 .. Len(c) + 1 PROVE Append(c, x)[i] = (c \o <<x>>)[i]
  OBVIOUS
<1> QED BY <1>1, <1>2

\* A run that creates the repository it looks at.
LEMMA CreateKeepsWhole ==
    ASSUME NEW r \in Restores, NEW s \in Restores, WholeRun(r), r.at = "repository", r.repo <= Len(r.archive),
           \A i \in 1 .. r.repo - 1 : r.archive[i].name # r.archive[r.repo].name,
           IsInjective(r.archive[r.repo].items), r.strict => r.before[<<r.archive[r.repo].name>>] = 0,
           s.at = "items", s.archive = r.archive, s.commands = Append(r.commands, <<r.archive[r.repo].name>>),
           s.before = r.before, s.strict = r.strict, s.item = 1, s.repo = r.repo, s.blockers = r.blockers
    PROVE  WholeRun(s)
<1>0. PICK L \in Nat, n \in Nat : L = Len(r.archive) /\ n + 1 = r.repo /\ n + 1 \in 1 .. L
  <2>1. Len(r.archive) \in Nat /\ r.repo \in Nat \ {0}
    BY RunIs
  <2>2. r.repo - 1 \in Nat /\ (r.repo - 1) + 1 = r.repo /\ r.repo \in 1 .. Len(r.archive)
    BY <2>1
  <2> QED BY <2>1, <2>2
<1>1. /\ r.archive[r.repo].items \in Seq(Items) /\ <<r.archive[r.repo].name>> \in TargetKeys
      /\ r.commands \in Seq(TargetKeys)
  BY <1>0, RunIs
<1>2. Bounded(s)
  <2>1. Len(r.archive[r.repo].items) \in Nat
    BY <1>1
  <2> QED BY <1>0, <2>1 DEF Bounded
<1>3. \A i \in 1 .. L : Begun(s, i) <=> i < r.repo \/ i = r.repo
  BY DEF Begun
<1>4. Named(s)
  <2>1. ASSUME NEW i \in 1 .. L, NEW j \in 1 .. L, i < j, Begun(s, j)
        PROVE  r.archive[i].name # r.archive[j].name
    <3>1. CASE j < r.repo
      BY <1>0, <2>1, <3>1 DEF WholeRun, Named, Begun
    <3>2. CASE j = r.repo
      <4>1. i \in 1 .. r.repo - 1
        BY <1>0, <2>1, <3>2
      <4> QED BY <3>2, <4>1
    <3> QED BY <1>3, <2>1, <3>1, <3>2
  <2> QED BY <1>0, <2>1 DEF WholeRun, Named
<1>5. ToSet(s.commands) = ToSet(r.commands) \cup {<<r.archive[r.repo].name>>}
  BY <1>1, ElementsOfAppend
<1>6. Made(s)
  <2> SUFFICES ASSUME NEW i \in 1 .. L, Begun(s, i), r.archive[i].name \notin r.blockers PROVE HasAll(s, i)
    BY <1>0 DEF Made
  <2>1. CASE i < r.repo
    <3>1. HasAll(r, i)
      BY <1>0, <2>1 DEF WholeRun, Made, Begun
    <3> QED BY <1>5, <2>1, <3>1 DEF HasAll
  <2>2. CASE i = r.repo
    <3>1. ~(r.repo < r.repo)
      BY <1>0
    <3>2. \A h \in 1 .. Len(r.archive[r.repo].items) : ~(h < 1)
      BY <1>1
    <3> QED BY <1>5, <2>2, <3>1, <3>2 DEF HasAll
  <2> QED BY <1>3, <2>1, <2>2
<1>7. Printed(s)
  <2>1. PICK f : PlansTo(f, r.archive, r.blockers, r.repo - 1) /\ r.commands = f[r.repo - 1]
    BY DEF WholeRun, Printed
  <2>2. Part(r.archive[r.repo], 1 - 1) = <<<<r.archive[r.repo].name>>>>
    <3>1. 1 .. (1 - 1) = {}
      OBVIOUS
    <3>2. [i \in 1 .. (1 - 1) |-> ItemKey(r.archive[r.repo].name, r.archive[r.repo].items[i])] = <<>>
      BY <3>1
    <3> QED BY <1>1, <3>2 DEF Part
  <2>3. s.commands = f[r.repo - 1] \o Part(r.archive[r.repo], s.item - 1)
    <3>1. Append(r.commands, <<r.archive[r.repo].name>>) = r.commands \o <<<<r.archive[r.repo].name>>>>
      BY <1>1, AppendIsJoined
    <3> QED BY <2>1, <2>2, <3>1
  <2> QED BY <2>1, <2>3 DEF Printed
<1> QED BY <1>2, <1>4, <1>6, <1>7 DEF WholeRun

\* One item more of a part.
LEMMA PartGoesOn ==
    ASSUME NEW c \in Seq(TargetKeys), NEW a, NEW k \in Nat,
           <<a.name>> \in TargetKeys, \A i \in 1 .. (k + 1) : ItemKey(a.name, a.items[i]) \in TargetKeys
    PROVE  Append(c \o Part(a, k), ItemKey(a.name, a.items[k + 1])) = c \o Part(a, k + 1)
<1> DEFINE p == [i \in 1 .. k |-> ItemKey(a.name, a.items[i])]
           q == [i \in 1 .. (k + 1) |-> ItemKey(a.name, a.items[i])]
           x == ItemKey(a.name, a.items[k + 1])
           h == <<<<a.name>>>>
<1>1. p \in Seq(TargetKeys) /\ q \in Seq(TargetKeys) /\ x \in TargetKeys /\ h \in Seq(TargetKeys)
      /\ Len(p) = k /\ Len(q) = k + 1 /\ Len(h) = 1
  <2>1. \A i \in 1 .. k : i \in 1 .. (k + 1)
    OBVIOUS
  <2> QED BY <2>1
<1>2. \A i \in 1 .. k : q[i] = p[i]
  OBVIOUS
<1>3. q[k + 1] = x
  OBVIOUS
<1> HIDE DEF p, q, x, h
<1>4. q = Append(p, x)
  BY <1>1, <1>2, <1>3
<1>5. Append(c \o (h \o p), x) = c \o (h \o Append(p, x))
  <2>1. Append(p, x) = p \o <<x>> /\ h \o p \in Seq(TargetKeys) /\ <<x>> \in Seq(TargetKeys)
        /\ c \o (h \o p) \in Seq(TargetKeys)
    BY <1>1, AppendIsJoined
  <2>2. Append(c \o (h \o p), x) = (c \o (h \o p)) \o <<x>>
    BY <1>1, <2>1, AppendIsJoined
  <2>3. (c \o (h \o p)) \o <<x>> = c \o ((h \o p) \o <<x>>)
    BY <2>1, ConcatAssociative
  <2>4. (h \o p) \o <<x>> = h \o (p \o <<x>>)
    <3>1. h \in Seq(TargetKeys) /\ p \in Seq(TargetKeys) /\ <<x>> \in Seq(TargetKeys)
      BY <1>1, <2>1
    <3> QED BY ONLY <3>1, ConcatAssociative
  <2> QED BY <2>1, <2>2, <2>3, <2>4
<1> QED BY <1>4, <1>5 DEF Part, p, q, x, h

\* What a plan prints are keys of the target.
LEMMA PlansAreKeys ==
    ASSUME NEW r \in Restores, NEW n \in Nat, n <= Len(r.archive), NEW f, PlansTo(f, r.archive, r.blockers, n)
    PROVE  f[n] \in Seq(TargetKeys)
<1> DEFINE Missed == {m \in 0 .. n : f[m] \notin Seq(TargetKeys)}
<1>0. PICK L \in Nat : L = Len(r.archive)
  BY RunIs
<1>1. ASSUME NEW i \in 1 .. L PROVE Prints(r.archive[i], r.blockers) \in Seq(TargetKeys)
  <2>1. PICK a : a = r.archive[i]
    OBVIOUS
  <2>2. /\ a.items \in Seq(Items) /\ <<a.name>> \in TargetKeys
        /\ \A h \in 1 .. Len(a.items) : ItemKey(a.name, a.items[h]) \in TargetKeys
    BY <1>0, <2>1, RunIs
  <2>3. Len(a.items) \in Nat /\ DOMAIN a.items = 1 .. Len(a.items)
    BY <2>2
  <2>4. [h \in 1 .. Len(a.items) |-> ItemKey(a.name, a.items[h])] \in Seq(TargetKeys)
    BY <2>2, <2>3
  <2>5. [h \in DOMAIN a.items |-> ItemKey(a.name, a.items[h])] \in Seq(TargetKeys) /\ <<<<a.name>>>> \in Seq(TargetKeys)
    BY <2>2, <2>3, <2>4
  <2>6. Prints(a, r.blockers) \in Seq(TargetKeys)
    <3>1. \A p, q \in Seq(TargetKeys) : p \o q \in Seq(TargetKeys)
      OBVIOUS
    <3> QED BY <2>5, <3>1 DEF Prints
  <2> QED BY <2>1, <2>6
<1>2. ASSUME Missed # {} PROVE FALSE
  <2>1. Missed \subseteq Nat
    OBVIOUS
  <2>2. PICK x \in Missed : \A y \in Missed : x <= y
    <3> HIDE DEF Missed
    <3> QED BY <1>2, <2>1, LeastNumber
  <2>3. x \in 0 .. n /\ f[x] \notin Seq(TargetKeys)
    BY <2>2
  <2>4. x # 0
    <3>1. <<>> \in Seq(TargetKeys)
      OBVIOUS
    <3> QED BY <2>3, <3>1 DEF PlansTo
  <2>5. x - 1 \in 0 .. n /\ ~(x <= x - 1) /\ x \in 1 .. L
    BY <1>0, <2>3, <2>4
  <2>6. f[x - 1] \in Seq(TargetKeys)
    BY <2>2, <2>5
  <2>7. f[x] = f[x - 1] \o Prints(r.archive[x], r.blockers)
    BY <2>3, <2>4 DEF PlansTo
  <2> QED BY <1>1, <2>3, <2>5, <2>6, <2>7
<1>3. n \in 0 .. n
  OBVIOUS
<1> QED BY <1>2, <1>3

LEMMA AmongItems ==
    \A t \in Nat \ {0} : \A m \in Nat : /\ t <= m => t \in 1 .. m /\ t + 1 <= m + 1
                                       /\ t > m /\ t <= m + 1 => t - 1 = m
  OBVIOUS

\* A run that prints an item.
LEMMA ItemKeepsWhole ==
    ASSUME NEW r \in Restores, NEW s \in Restores, WholeRun(r), r.at = "items",
           r.item <= Len(r.archive[r.repo].items),
           s.at = "items", s.archive = r.archive, s.before = r.before, s.strict = r.strict,
           s.commands = Append(r.commands, ItemKey(r.archive[r.repo].name, r.archive[r.repo].items[r.item])),
           s.item = r.item + 1, s.repo = r.repo, s.blockers = r.blockers
    PROVE  WholeRun(s)
<1>0. PICK L \in Nat, k \in Nat : L = Len(r.archive) /\ r.repo \in 1 .. L /\ k + 1 = r.item
                                  /\ r.item - 1 = k /\ s.item - 1 = k + 1
  <2>1. Len(r.archive) \in Nat /\ r.repo \in Nat \ {0} /\ r.item \in Nat \ {0} /\ r.repo <= Len(r.archive)
    BY RunIs DEF WholeRun, Bounded
  <2>2. r.item - 1 \in Nat /\ (r.item - 1) + 1 = r.item /\ r.repo \in 1 .. Len(r.archive)
        /\ s.item - 1 = (r.item - 1) + 1
    BY <2>1
  <2> QED BY <2>1, <2>2
<1>a. PICK a : a = r.archive[r.repo]
  OBVIOUS
<1>k. PICK key : key = ItemKey(a.name, a.items[r.item])
  OBVIOUS
<1>1. /\ a.items \in Seq(Items) /\ <<a.name>> \in TargetKeys /\ r.commands \in Seq(TargetKeys)
      /\ \A h \in 1 .. Len(a.items) : ItemKey(a.name, a.items[h]) \in TargetKeys
  BY <1>0, <1>a, RunIs
<1>2. PICK m \in Nat : m = Len(a.items) /\ r.item \in 1 .. m /\ r.item + 1 <= m + 1
  <2>1. PICK m \in Nat : m = Len(a.items) /\ r.item <= m
    BY <1>0, <1>a, RunIs
  <2>2. r.item \in Nat \ {0}
    BY RunIs
  <2> QED BY <2>1, <2>2, AmongItems
<1>b. key \in TargetKeys /\ s.commands = Append(r.commands, key)
  BY <1>a, <1>k, <1>1, <1>2
<1>3. Bounded(s)
  <2>1. r.repo <= L /\ r.repo <= L + 1
    BY <1>0
  <2> QED BY <1>0, <1>a, <1>2, <2>1 DEF Bounded
<1>4. \A i : Begun(s, i) <=> Begun(r, i)
  BY DEF Begun
<1>5. Named(s)
  BY <1>4 DEF WholeRun, Named
<1>6. ToSet(s.commands) = ToSet(r.commands) \cup {key}
  BY <1>1, <1>b, ElementsOfAppend
<1>7. Made(s)
  <2> SUFFICES ASSUME NEW i \in 1 .. L, Begun(s, i), r.archive[i].name \notin r.blockers PROVE HasAll(s, i)
    BY <1>0 DEF Made
  <2>1. HasAll(r, i)
    BY <1>0, <1>4 DEF WholeRun, Made
  <2>2. ASSUME NEW h \in 1 .. Len(r.archive[i].items), i < r.repo \/ h < s.item
        PROVE  ItemKey(r.archive[i].name, r.archive[i].items[h]) \in ToSet(s.commands)
    <3>1. CASE i < r.repo \/ h < r.item
      BY <1>6, <2>1, <3>1 DEF HasAll
    <3>2. CASE ~(i < r.repo \/ h < r.item)
      <4>1. i = r.repo
        BY <1>0, <1>4, <3>2 DEF Begun
      <4>2. Len(r.archive[i].items) \in Nat
        BY <1>2, <1>a, <4>1
      <4>3. h = r.item
        BY <1>0, <2>2, <3>2, <4>2
      <4> QED BY <1>a, <1>k, <1>6, <4>1, <4>3
    <3> QED BY <3>1, <3>2
  <2> QED BY <1>6, <2>1, <2>2 DEF HasAll
<1>8. Printed(s)
  <2>1. PICK f : PlansTo(f, r.archive, r.blockers, r.repo - 1) /\ r.commands = f[r.repo - 1] \o Part(a, k)
    BY <1>0, <1>a DEF WholeRun, Printed
  <2>2. f[r.repo - 1] \in Seq(TargetKeys)
    <3>1. r.repo - 1 \in Nat /\ r.repo - 1 <= Len(r.archive)
      BY <1>0
    <3> QED BY <2>1, <3>1, PlansAreKeys
  <2>3. s.commands = f[r.repo - 1] \o Part(a, k + 1)
    <3>1. \A i \in 1 .. (k + 1) : i \in 1 .. Len(a.items)
      <4>1. \A i \in 1 .. (k + 1) : i \in 1 .. m
        BY <1>0, <1>2
      <4> QED BY <1>2, <4>1
    <3>2. \A i \in 1 .. (k + 1) : ItemKey(a.name, a.items[i]) \in TargetKeys
      BY <1>1, <3>1
    <3>3. PICK c : c = f[r.repo - 1]
      OBVIOUS
    <3>4. c \in Seq(TargetKeys)
      BY <2>2, <3>3
    <3>5. Append(c \o Part(a, k), ItemKey(a.name, a.items[k + 1])) = c \o Part(a, k + 1)
      BY <1>0, <1>1, <3>2, <3>4, PartGoesOn
    <3>6. key = ItemKey(a.name, a.items[k + 1]) /\ r.commands = c \o Part(a, k)
      BY <1>0, <1>k, <2>1, <3>3
    <3> QED BY <1>b, <3>3, <3>5, <3>6
  <2>4. s.commands = f[s.repo - 1] \o Part(s.archive[s.repo], s.item - 1)
    BY <1>0, <1>a, <2>3
  <2> QED BY <2>1, <2>4 DEF Printed
<1> QED BY <1>3, <1>5, <1>7, <1>8 DEF WholeRun

\* A run that goes on to the next repository after all items of this one.
LEMMA NextKeepsWhole ==
    ASSUME NEW r \in Restores, NEW s \in Restores, WholeRun(r), r.at = "items",
           r.item > Len(r.archive[r.repo].items),
           s.at = "repository", s.archive = r.archive, s.before = r.before, s.strict = r.strict,
           s.commands = r.commands, s.item = r.item, s.repo = r.repo + 1, s.blockers = r.blockers
    PROVE  WholeRun(s)
<1>0. PICK L \in Nat, n \in Nat : L = Len(r.archive) /\ n + 1 = r.repo /\ n + 1 \in 1 .. L /\ r.repo - 1 = n
                                  /\ s.repo - 1 = n + 1
  <2>1. Len(r.archive) \in Nat /\ r.repo \in Nat \ {0} /\ r.repo <= Len(r.archive)
    BY RunIs DEF WholeRun, Bounded
  <2>2. r.repo - 1 \in Nat /\ (r.repo - 1) + 1 = r.repo /\ r.repo \in 1 .. Len(r.archive)
        /\ s.repo - 1 = (r.repo - 1) + 1
    BY <2>1
  <2> QED BY <2>1, <2>2
<1> DEFINE a == r.archive[r.repo]
<1>1. a.items \in Seq(Items) /\ r.item \in Nat /\ Len(a.items) \in Nat /\ r.item - 1 = Len(a.items)
  <2>1. a.items \in Seq(Items) /\ Len(a.items) \in Nat
    BY <1>0, RunIs
  <2>2. PICK m \in Nat, t \in Nat \ {0} : m = Len(a.items) /\ t = r.item /\ t > m /\ t <= m + 1
    BY <1>0, RunIs DEF WholeRun, Bounded
  <2>3. t - 1 = m
    BY <2>2, AmongItems
  <2> QED BY <2>1, <2>2, <2>3
<1>2. Bounded(s)
  BY <1>0 DEF Bounded
<1>3. \A i \in 1 .. L : Begun(s, i) <=> Begun(r, i)
  BY <1>0 DEF Begun
<1>4. Named(s)
  <2>1. \A i \in 1 .. L : i < r.repo => i < s.repo
    BY <1>0
  <2> QED BY <1>0, <1>3, <2>1 DEF WholeRun, Named
<1>5. Made(s)
  <2> SUFFICES ASSUME NEW i \in 1 .. L, Begun(s, i), r.archive[i].name \notin r.blockers PROVE HasAll(s, i)
    BY <1>0 DEF Made
  <2>1. HasAll(r, i)
    BY <1>0, <1>3 DEF WholeRun, Made
  <2>2. ASSUME NEW h \in 1 .. Len(r.archive[i].items) PROVE i < r.repo \/ h < r.item
    <3>1. CASE i = r.repo
      BY <1>1, <3>1
    <3>2. CASE i # r.repo
      BY <1>3, <3>2 DEF Begun
    <3> QED BY <3>1, <3>2
  <2> QED BY <2>1, <2>2 DEF HasAll
<1>6. Printed(s)
  <2>1. PICK f : PlansTo(f, r.archive, r.blockers, n) /\ r.commands = f[n] \o Part(a, Len(a.items))
    BY <1>0, <1>1 DEF WholeRun, Printed
  <2>2. a.name \notin r.blockers
    <3> SUFFICES ASSUME a.name \in r.blockers PROVE FALSE
      OBVIOUS
    <3>1. PICK i \in 1 .. L : i < r.repo /\ r.archive[i].name = a.name
      BY <1>0 DEF WholeRun, Named
    <3> QED BY <1>0, <3>1 DEF WholeRun, Named, Begun
  <2>3. Prints(a, r.blockers) = Part(a, Len(a.items))
    <3>1. DOMAIN a.items = 1 .. Len(a.items)
      BY <1>1
    <3> QED BY <2>2, <3>1 DEF Prints, Part
  <2>4. PICK list, old, none : list = r.archive /\ old = r.blockers /\ none = {} /\ old \cup none = old
    <3>1. r.blockers \cup {} = r.blockers
      OBVIOUS
    <3> QED BY <3>1
  <2>5. PlansTo(f, list, old, n) /\ \A i \in 1 .. n : list[i].name \notin none
    BY <2>1, <2>4
  <2>6. GoesOn(f, list, old \cup none, n)
    BY <1>0, <2>5, PlanGoesOn
  <2>7. PICK g : PlansTo(g, r.archive, r.blockers, n + 1) /\ g[n + 1] = f[n] \o Prints(a, r.blockers)
    BY <1>0, <2>4, <2>6 DEF GoesOn
  <2> QED BY <1>0, <2>1, <2>3, <2>7 DEF Printed
<1> QED BY <1>2, <1>4, <1>5, <1>6 DEF WholeRun

\* A run begins with nothing begun.
LEMMA BeginIsWhole ==
    ASSUME NEW s \in Restores, s.at = "repository", s.repo = 1, s.commands = <<>>, s.blockers = {}
    PROVE  WholeRun(s)
<1>0. PICK L \in Nat : L = Len(s.archive)
  BY RunIs
<1>1. \A i \in 1 .. L : ~Begun(s, i)
  BY DEF Begun
<1>2. Bounded(s) /\ Named(s) /\ Made(s)
  BY <1>0, <1>1 DEF Bounded, Named, Made
<1>3. Printed(s)
  <2> DEFINE f == [m \in 0 .. 0 |-> <<>>]
  <2>1. \A m \in 0 .. 0 : m = 0
    OBVIOUS
  <2>2. PlansTo(f, s.archive, s.blockers, 0)
    BY <2>1 DEF PlansTo
  <2>3. f[0] = <<>> /\ s.repo - 1 = 0
    OBVIOUS
  <2> HIDE DEF f
  <2> QED BY <2>2, <2>3 DEF Printed
<1> QED BY <1>2, <1>3 DEF WholeRun

LEMMA WholeStarts == MirrorInit => WholeInv
<1> SUFFICES ASSUME MirrorInit PROVE WholeInv
  OBVIOUS
<1>1. restore \notin Restores /\ target = [k \in TargetKeys |-> 0]
  BY DEF MirrorInit, NoRun, Restores
<1> QED BY <1>1 DEF WholeInv, Grounded

\* The repository a run looks at is refused, skipped or created.
LEMMA RepositoryKeepsWhole ==
    ASSUME RestoreInv, WholeInv, NEW refused \in BOOLEAN, RestoreRepository(refused), RestoreInv'
    PROVE  WholeInv'
<1>a. PICK a : a = restore.archive[restore.repo]
  OBVIOUS
<1> DEFINE again == \E i \in 1 .. restore.repo - 1 : restore.archive[i].name = a.name
<1>0. restore.at = "repository" /\ restore.repo <= Len(restore.archive) /\ restore \in Restores
  BY DEF RestoreRepository, RestoreInv, RestoreTypeOK, NoRun
<1>1. /\ restore.repo \in 1 .. Len(restore.archive) /\ <<a.name>> \in TargetKeys
      /\ target \in [TargetKeys -> Nat] /\ restore.before \in [TargetKeys -> Nat]
  <2>1. restore.repo \in 1 .. Len(restore.archive)
    <3>1. Len(restore.archive) \in Nat /\ restore.repo \in Nat \ {0}
      BY <1>0, RunIs
    <3> QED BY <1>0, <3>1
  <2> QED BY <1>0, <1>a, <2>1, RunIs DEF RestoreInv, RestoreTypeOK
<1>2. \/ restore' = [restore EXCEPT !.at = "failed"] /\ target' = target
      \/ /\ ~again /\ target' = target
         /\ restore' = [restore EXCEPT !.repo = @ + 1, !.blockers = @ \cup {a.name}]
      \/ /\ ~again /\ Unique(a.items) /\ ~(restore.strict /\ Reached(a.name))
         /\ restore' = [restore EXCEPT !.at = IF refused /\ ~restore.dry THEN "failed" ELSE "items",
                                       !.commands = Append(@, <<a.name>>), !.item = 1]
         /\ target' = IF restore.dry \/ refused THEN target ELSE [target EXCEPT ![<<a.name>>] = @ + 1]
  BY <1>a DEF RestoreRepository
<1>3. restore' \in Restores /\ restore'.before = restore.before /\ restore'.archive = restore.archive
      /\ restore'.strict = restore.strict
  <2>1. restore' # NoRun
    BY <1>0, <1>2 DEF NoRun, Restores
  <2>2. restore' \in Restores
    BY <2>1 DEF RestoreInv, RestoreTypeOK
  <2>3. restore'.before = restore.before /\ restore'.archive = restore.archive /\ restore'.strict = restore.strict
    BY <1>0, <1>2 DEF Restores
  <2> QED BY <2>2, <2>3
<1>4. Grounded(target')
  <2>1. Grounded(target) /\ Len(<<a.name>>) = 1
    BY DEF WholeInv
  <2>2. Grounded([target EXCEPT ![<<a.name>>] = @ + 1])
    BY <1>1, <2>1, GroundedKept
  <2> QED BY <1>2, <2>1, <2>2
<1>5. ASSUME restore'.at # "failed" PROVE WholeRun(restore')
  <2>1. WholeRun(restore)
    BY <1>0 DEF WholeInv
  <2>2. CASE /\ ~again
             /\ restore' = [restore EXCEPT !.repo = @ + 1, !.blockers = @ \cup {a.name}]
    <3>1. /\ restore'.at = "repository" /\ restore'.commands = restore.commands /\ restore'.item = restore.item
          /\ restore'.repo = restore.repo + 1 /\ restore'.blockers = restore.blockers \cup {a.name}
      BY <1>0, <2>2 DEF Restores
    <3>2. /\ \A i \in 1 .. restore.repo - 1 : restore.archive[i].name # restore.archive[restore.repo].name
          /\ restore'.blockers = restore.blockers \cup {restore.archive[restore.repo].name}
      BY <1>a, <2>2, <3>1
    <3> QED BY <1>0, <1>3, <2>1, <3>1, <3>2, SkipKeepsWhole
  <2>3. CASE /\ ~again /\ Unique(a.items) /\ ~(restore.strict /\ Reached(a.name))
             /\ restore' = [restore EXCEPT !.at = IF refused /\ ~restore.dry THEN "failed" ELSE "items",
                                           !.commands = Append(@, <<a.name>>), !.item = 1]
    <3>1. /\ restore'.at = "items" /\ restore'.commands = Append(restore.commands, <<a.name>>) /\ restore'.item = 1
          /\ restore'.repo = restore.repo /\ restore'.blockers = restore.blockers
      BY <1>0, <1>5, <2>3 DEF Restores
    <3>2. restore.strict => restore.before[<<a.name>>] = 0
      <4> SUFFICES ASSUME restore.strict PROVE restore.before[<<a.name>>] = 0
        OBVIOUS
      <4>1. target[<<a.name>>] = restore.before[<<a.name>>] + Added(<<a.name>>)
        BY <1>0, <1>1 DEF RestoreInv
      <4>2. Added(<<a.name>>) \in Nat
        BY DEF Added
      <4>3. ~(target[<<a.name>>] > 0)
        BY <2>3 DEF Reached
      <4>4. PICK x \in Nat, y \in Nat, z \in Nat :
               x = target[<<a.name>>] /\ y = restore.before[<<a.name>>] /\ z = Added(<<a.name>>)
        BY <1>1, <4>2
      <4> QED BY <4>1, <4>3, <4>4
    <3>3. /\ \A i \in 1 .. restore.repo - 1 : restore.archive[i].name # restore.archive[restore.repo].name
          /\ IsInjective(restore.archive[restore.repo].items)
          /\ restore.strict => restore.before[<<restore.archive[restore.repo].name>>] = 0
          /\ restore'.commands = Append(restore.commands, <<restore.archive[restore.repo].name>>)
      BY <1>a, <2>3, <3>1, <3>2 DEF Unique
    <3> QED BY <1>0, <1>3, <2>1, <3>1, <3>3, CreateKeepsWhole
  <2>4. restore' # [restore EXCEPT !.at = "failed"]
    BY <1>0, <1>5 DEF Restores
  <2> QED BY <1>2, <2>2, <2>3, <2>4
<1>6. Grounded(restore'.before)
  BY <1>0, <1>3 DEF WholeInv
<1> QED BY <1>4, <1>5, <1>6 DEF WholeInv

LEMMA ItemStepKeepsWhole ==
    ASSUME RestoreInv, WholeInv, NEW refused \in BOOLEAN, RestoreItem(refused), RestoreInv'
    PROVE  WholeInv'
<1>a. PICK a : a = restore.archive[restore.repo]
  OBVIOUS
<1>k. PICK key : key = ItemKey(a.name, a.items[restore.item])
  OBVIOUS
<1>0. restore.at = "items" /\ restore.item <= Len(a.items) /\ restore \in Restores
  <2>1. restore.at = "items" /\ restore.item <= Len(restore.archive[restore.repo].items)
    BY DEF RestoreItem
  <2>2. restore # NoRun
    BY <2>1 DEF NoRun
  <2> QED BY <1>a, <2>1, <2>2 DEF RestoreInv, RestoreTypeOK
<1>w. WholeRun(restore)
  BY <1>0 DEF WholeInv
<1> DEFINE creates == Creates(restore.dry, a.items[restore.item].kind)
<1>2. /\ restore' = [restore EXCEPT !.at = IF creates /\ refused THEN "failed" ELSE "items",
                                    !.commands = Append(@, key), !.item = @ + 1]
      /\ target' = IF creates /\ ~refused THEN [target EXCEPT ![key] = @ + 1] ELSE target
  BY <1>a, <1>k DEF RestoreItem
<1>3. restore' \in Restores /\ restore'.before = restore.before /\ restore'.archive = restore.archive
      /\ restore'.strict = restore.strict
  <2>1. restore' # NoRun
    BY <1>0, <1>2 DEF NoRun, Restores
  <2> QED BY <1>0, <1>2, <2>1 DEF RestoreInv, RestoreTypeOK, Restores
<1>4. restore.repo \in 1 .. Len(restore.archive) /\ restore.item \in 1 .. Len(a.items)
  <2>1. Len(restore.archive) \in Nat /\ restore.repo \in Nat \ {0} /\ restore.item \in Nat \ {0}
    BY <1>0, RunIs
  <2>2. restore.repo <= Len(restore.archive)
    BY <1>0, <1>w DEF WholeRun, Bounded
  <2>3. restore.repo \in 1 .. Len(restore.archive)
    BY <2>1, <2>2
  <2>4. Len(a.items) \in Nat
    BY <1>0, <1>a, <2>3, RunIs
  <2> QED BY <1>0, <2>1, <2>3, <2>4, AmongItems
<1>5. /\ key \in TargetKeys /\ <<a.name>> \in TargetKeys /\ key[1] = a.name
      /\ target \in [TargetKeys -> Nat] /\ restore.before \in [TargetKeys -> Nat]
  BY <1>0, <1>4, <1>a, <1>k, RunIs DEF RestoreInv, RestoreTypeOK, ItemKey
<1>6. Grounded(target')
  <2>1. CASE creates /\ ~refused
    <3>1. ~restore.dry
      BY <2>1 DEF Creates
    <3>2. a.name \notin restore.blockers
      <4> SUFFICES ASSUME a.name \in restore.blockers PROVE FALSE
        OBVIOUS
      <4>1. PICK i \in 1 .. Len(restore.archive) : i < restore.repo /\ restore.archive[i].name = a.name
        BY <1>w DEF WholeRun, Named
      <4> QED BY <1>0, <1>4, <1>a, <1>w, <4>1 DEF WholeRun, Named, Begun
    <3>3. <<a.name>> \in ToSet(restore.commands)
      BY <1>0, <1>4, <1>a, <1>w, <3>2 DEF WholeRun, Made, HasAll, Begun
    <3>4. target[<<a.name>>] = restore.before[<<a.name>>] + 1
      <4>1. Len(<<a.name>>) = 1
        OBVIOUS
      <4>2. Added(<<a.name>>) = 1
        BY <3>1, <3>3, <4>1 DEF Added
      <4> QED BY <1>0, <1>5, <4>2 DEF RestoreInv
    <3>5. target[<<key[1]>>] > 0
      <4>1. PICK x \in Nat, y \in Nat : x = target[<<a.name>>] /\ y = restore.before[<<a.name>>]
        BY <1>5
      <4>2. x = y + 1
        BY <3>4, <4>1
      <4>3. x > 0
        BY <4>1, <4>2
      <4> QED BY <1>5, <4>1, <4>3
    <3>6. Grounded(target)
      BY DEF WholeInv
    <3>7. Grounded([target EXCEPT ![key] = @ + 1])
      BY <1>5, <3>5, <3>6, GroundedKept
    <3> QED BY <1>2, <2>1, <3>7
  <2>2. CASE ~(creates /\ ~refused)
    BY <1>2, <2>2 DEF WholeInv
  <2> QED BY <2>1, <2>2
<1>7. ASSUME restore'.at # "failed" PROVE WholeRun(restore')
  <2>1. /\ restore'.at = "items" /\ restore'.commands = Append(restore.commands, key)
        /\ restore'.item = restore.item + 1 /\ restore'.repo = restore.repo /\ restore'.blockers = restore.blockers
    BY <1>0, <1>2, <1>7 DEF Restores
  <2> QED BY <1>0, <1>3, <1>a, <1>k, <1>w, <2>1, ItemKeepsWhole
<1>8. Grounded(restore'.before)
  BY <1>0, <1>3 DEF WholeInv
<1> QED BY <1>6, <1>7, <1>8 DEF WholeInv

\* No step breaks it.
LEMMA WholeKept == RestoreInv /\ RestoreInv' /\ WholeInv /\ [MirrorNext]_mirrorVars => WholeInv'
<1> SUFFICES ASSUME RestoreInv, RestoreInv', WholeInv, [MirrorNext]_mirrorVars PROVE WholeInv'
  OBVIOUS
<1>1. ASSUME NEW a \in Archives, NEW dry \in BOOLEAN, NEW strict \in BOOLEAN, BeginRestore(a, dry, strict)
      PROVE  WholeInv'
  <2>1. /\ restore' = [at |-> "repository", archive |-> a, dry |-> dry, strict |-> strict, repo |-> 1, item |-> 1,
                       commands |-> <<>>, blockers |-> {}, before |-> target]
        /\ target' = target
    BY <1>1 DEF BeginRestore
  <2>2. restore'.at = "repository" /\ restore'.repo = 1 /\ restore'.commands = <<>> /\ restore'.blockers = {}
        /\ restore'.before = target
    BY <2>1
  <2>3. restore' \in Restores => WholeRun(restore')
    BY <2>2, BeginIsWhole
  <2> QED BY <2>1, <2>2, <2>3 DEF WholeInv
<1>2. CASE RepositoryDone
  <2>1. /\ restore.at = "items" /\ restore.item > Len(restore.archive[restore.repo].items) /\ restore \in Restores
        /\ restore' = [restore EXCEPT !.at = "repository", !.repo = @ + 1] /\ target' = target
    BY <1>2 DEF RepositoryDone, RestoreInv, RestoreTypeOK, NoRun
  <2>2. /\ restore'.at = "repository" /\ restore'.before = restore.before /\ restore'.commands = restore.commands
        /\ restore'.archive = restore.archive /\ restore'.repo = restore.repo + 1 /\ restore'.strict = restore.strict
        /\ restore'.item = restore.item /\ restore'.blockers = restore.blockers
    BY <2>1 DEF Restores
  <2>3. restore' \in Restores
    BY <2>2 DEF RestoreInv, RestoreTypeOK, NoRun
  <2>4. WholeRun(restore')
    BY <2>1, <2>2, <2>3, NextKeepsWhole DEF WholeInv
  <2> QED BY <2>1, <2>2, <2>4 DEF WholeInv
<1>3. CASE RestoreDone
  <2>1. /\ restore.at = "repository" /\ restore.repo > Len(restore.archive) /\ restore \in Restores
        /\ restore' = [restore EXCEPT !.at = "done"] /\ target' = target
    BY <1>3 DEF RestoreDone, RestoreInv, RestoreTypeOK, NoRun
  <2>2. /\ restore'.at = "done" /\ restore'.before = restore.before /\ restore'.commands = restore.commands
        /\ restore'.archive = restore.archive /\ restore'.repo = restore.repo /\ restore'.strict = restore.strict
        /\ restore'.item = restore.item /\ restore'.blockers = restore.blockers
    BY <2>1 DEF Restores
  <2>3. WholeRun(restore)
    BY <2>1 DEF WholeInv
  <2>4. PICK L \in Nat, n \in Nat : L = Len(restore.archive) /\ n = restore.repo /\ n > L /\ n <= L + 1
    BY <2>1, <2>3, RunIs DEF WholeRun, Bounded
  <2>5. n = L + 1
    BY <2>4
  <2>6. \A i : Begun(restore', i) <=> Begun(restore, i)
    BY <2>1, <2>2 DEF Begun
  <2>7. Bounded(restore') /\ Named(restore') /\ Made(restore')
    <3>1. Bounded(restore')
      BY <2>2, <2>4, <2>5 DEF Bounded
    <3>2. Named(restore')
      BY <2>2, <2>3, <2>6 DEF WholeRun, Named
    <3>3. Made(restore')
      BY <2>2, <2>3, <2>6 DEF WholeRun, Made, HasAll
    <3> QED BY <3>1, <3>2, <3>3
  <2>8. Printed(restore')
    BY <2>1, <2>2, <2>3 DEF WholeRun, Printed
  <2>9. ASSUME NEW c \in ToSet(restore'.commands) PROVE OfArchive(restore', c)
    <3>1. AboutEarlier(c)
      BY <2>1, <2>2, <2>9 DEF RestoreInv
    <3>2. OfArchive(restore, c)
      BY <3>1 DEF AboutEarlier, About, Nth, OfArchive
    <3> QED BY <2>2, <3>2 DEF OfArchive
  <2>10. WholeRun(restore')
    BY <2>7, <2>8, <2>9 DEF WholeRun
  <2> QED BY <2>1, <2>2, <2>10 DEF WholeInv
<1>4. CASE UNCHANGED restoreVars
  BY <1>4 DEF restoreVars, WholeInv
<1> QED BY <1>1, <1>2, <1>3, <1>4, RepositoryKeepsWhole, ItemStepKeepsWhole
        DEF MirrorNext, BundleNext, RestoreNext, ImportNext, SyncNext, mirrorVars

\* In a target where a repository was new, a strict run that was blocked from
\* nothing left as many items of each kind as the archive has.
LEMMA CountsAgree ==
    ASSUME RestoreInv, WholeInv, restore.at = "done", restore.blockers = {}, ~restore.dry, restore.strict,
           NEW i \in 1 .. Len(restore.archive), NEW kind \in Kinds \ Planned
    PROVE  /\ Reached(restore.archive[i].name)
           /\ Count(restore.archive[i], kind) = TargetCount(restore.archive[i].name, kind)
<1>a. PICK a : a = restore.archive[i]
  OBVIOUS
<1>0. restore \in Restores /\ WholeRun(restore) /\ Grounded(restore.before)
  BY DEF RestoreInv, RestoreTypeOK, WholeInv, NoRun
<1>1. PICK L \in Nat : L = Len(restore.archive) /\ restore.repo = L + 1
  BY <1>0, RunIs DEF WholeRun, Bounded
<1>2. \A j \in 1 .. L : Begun(restore, j) /\ j < restore.repo
  BY <1>1 DEF Begun
<1>3. HasAll(restore, i) /\ i \in 1 .. L
  BY <1>0, <1>1, <1>2 DEF WholeRun, Made
<1>4. PICK m \in Nat : /\ m = Len(a.items) /\ DOMAIN a.items = 1 .. m
                       /\ \A h \in 1 .. m : a.items[h] \in Items /\ ItemKey(a.name, a.items[h]) \in TargetKeys
  <2>1. /\ a.items \in Seq(Items) /\ Len(a.items) \in Nat
        /\ \A h \in 1 .. Len(a.items) : ItemKey(a.name, a.items[h]) \in TargetKeys
    BY <1>0, <1>1, <1>3, <1>a, RunIs
  <2> QED BY <2>1
<1>5. /\ IsInjective(a.items) /\ restore.before[<<a.name>>] = 0 /\ <<a.name>> \in ToSet(restore.commands)
      /\ \A h \in 1 .. m : ItemKey(a.name, a.items[h]) \in ToSet(restore.commands)
  BY <1>2, <1>3, <1>4, <1>a DEF HasAll
<1>6. /\ <<a.name>> \in TargetKeys /\ target \in [TargetKeys -> Nat] /\ restore.before \in [TargetKeys -> Nat]
      /\ \A k \in TargetKeys : target[k] = restore.before[k] + Added(k)
  BY <1>0, <1>1, <1>3, <1>a, RunIs DEF RestoreInv, RestoreTypeOK
<1>7. Reached(a.name)
  <2>1. Len(<<a.name>>) = 1
    OBVIOUS
  <2>2. Added(<<a.name>>) = 1
    BY <1>5, <2>1 DEF Added
  <2>3. target[<<a.name>>] = 0 + 1
    BY <1>5, <1>6, <2>2
  <2> QED BY <2>3 DEF Reached
<1> DEFINE keys == {k \in DOMAIN target : Len(k) = 3 /\ k[1] = a.name /\ k[2] = kind}
           J == {h \in DOMAIN a.items : a.items[h].kind = kind}
           U == UNION {{k} \X (1 .. target[k]) : k \in keys}
           F == [h \in J |-> <<ItemKey(a.name, a.items[h]), 1>>]
<1>8. ASSUME NEW k \in keys PROVE target[k] = IF k \in ToSet(restore.commands) THEN 1 ELSE 0
  <2>1. k \in TargetKeys /\ Len(k) = 3 /\ k[1] = a.name /\ k[2] = kind
    BY <1>6
  <2>2. restore.before[k] = 0
    BY <1>0, <1>5, <2>1 DEF Grounded
  <2>3. Added(k) = IF k \in ToSet(restore.commands) THEN 1 ELSE 0
    BY <2>1 DEF Added
  <2> HIDE DEF keys
  <2> QED BY <1>6, <2>1, <2>2, <2>3
<1>9. ASSUME NEW k \in keys, k \in ToSet(restore.commands)
      PROVE  \E h \in J : k = ItemKey(a.name, a.items[h])
  <2>1. Len(k) = 3 /\ k[1] = a.name /\ k[2] = kind
    OBVIOUS
  <2>2. OfArchive(restore, k)
    BY <1>0, <1>9 DEF WholeRun
  <2>3. PICK j \in 1 .. L : \/ k = <<restore.archive[j].name>>
                            \/ \E h \in 1 .. Len(restore.archive[j].items) :
                                  k = ItemKey(restore.archive[j].name, restore.archive[j].items[h])
    BY <1>1, <2>2 DEF OfArchive
  <2>4. k # <<restore.archive[j].name>>
    <3>1. Len(<<restore.archive[j].name>>) = 1
      OBVIOUS
    <3> QED BY <2>1, <3>1
  <2>5. PICK h \in 1 .. Len(restore.archive[j].items) :
            k = ItemKey(restore.archive[j].name, restore.archive[j].items[h])
    BY <2>3, <2>4
  <2>6. restore.archive[j].name = a.name
    BY <2>1, <2>5 DEF ItemKey
  <2>7. j = i
    <3>1. j < i \/ j = i \/ i < j
      BY <1>3
    <3> QED BY <1>0, <1>1, <1>2, <1>3, <1>a, <2>6, <3>1 DEF WholeRun, Named
  <2>8. h \in 1 .. m /\ k = ItemKey(a.name, a.items[h])
    BY <1>4, <1>a, <2>5, <2>7
  <2>9. a.items[h].kind = kind
    BY <1>4, <2>1, <2>8, ItemKeysDiffer
  <2> QED BY <1>4, <2>8, <2>9
<1>10. ASSUME NEW h \in J
       PROVE  /\ ItemKey(a.name, a.items[h]) \in keys
              /\ ItemKey(a.name, a.items[h]) \in ToSet(restore.commands)
              /\ <<ItemKey(a.name, a.items[h]), 1>> \in U
  <2>1. PICK k : k = ItemKey(a.name, a.items[h])
    OBVIOUS
  <2>2. h \in 1 .. m /\ a.items[h].kind = kind /\ a.items[h] \in Items
    BY <1>4
  <2>3. k \in TargetKeys /\ k \in ToSet(restore.commands)
    BY <1>4, <1>5, <2>1, <2>2
  <2>4. Len(k) = 3 /\ k[1] = a.name /\ k[2] = kind
    BY <2>1, <2>2 DEF ItemKey
  <2>5. k \in keys
    BY <1>6, <2>3, <2>4
  <2>6. target[k] = 1
    <3> HIDE DEF keys
    <3> QED BY <1>8, <2>3, <2>5
  <2>7. <<k, 1>> \in {k} \X (1 .. target[k])
    BY <2>6
  <2>8. <<k, 1>> \in U
    <3> HIDE DEF keys
    <3> QED BY <2>5, <2>7
  <2> QED BY <2>1, <2>3, <2>5, <2>8
<1>11. ASSUME NEW u \in U PROVE \E h \in J : u = F[h]
  <2>1. PICK k \in keys : u \in {k} \X (1 .. target[k])
    OBVIOUS
  <2>2. k \in ToSet(restore.commands) /\ target[k] = 1
    <3> HIDE DEF keys, U
    <3>1. target[k] = 0 => 1 .. target[k] = {}
      OBVIOUS
    <3> QED BY <1>8, <2>1, <3>1
  <2>3. u = <<k, 1>>
    <3> HIDE DEF keys, U
    <3> QED BY <2>1, <2>2
  <2>4. PICK h \in J : k = ItemKey(a.name, a.items[h])
    <3> HIDE DEF keys, U, J, F
    <3> QED BY <1>9, <2>2
  <2> QED BY <2>3, <2>4
<1>12. ASSUME NEW h \in J, NEW g \in J, F[h] = F[g] PROVE h = g
  <2>1. ItemKey(a.name, a.items[h]) = ItemKey(a.name, a.items[g])
    BY <1>12
  <2>2. h \in 1 .. m /\ g \in 1 .. m /\ a.items[h] \in Items /\ a.items[g] \in Items
    BY <1>4
  <2>3. a.items[h] = a.items[g]
    BY <2>1, <2>2, ItemKeysDiffer
  <2> QED BY <1>4, <1>5, <2>2, <2>3 DEF IsInjective
<1>13. ExistsBijection(J, U)
  <2>1. F \in [J -> U]
    <3> HIDE DEF U, keys, J
    <3> QED BY <1>10
  <2>2. IsInjective(F)
    <3>1. DOMAIN F = J
      OBVIOUS
    <3> HIDE DEF U, keys, J, F
    <3> QED BY <1>12, <3>1 DEF IsInjective
  <2>3. \A u \in U : \E h \in J : F[h] = u
    <3> HIDE DEF U, keys, J, F
    <3> QED BY <1>11
  <2> HIDE DEF U, keys, J, F
  <2>4. F \in Bijection(J, U)
    BY <2>1, <2>2, <2>3 DEF Bijection, Injection, Surjection
  <2> QED BY <2>4 DEF ExistsBijection
<1>14. IsFiniteSet(J)
  <2>1. IsFiniteSet(1 .. m)
    BY FS_Interval
  <2>2. J \in SUBSET (1 .. m)
    BY <1>4
  <2> QED BY <2>1, <2>2, FS_Subset
<1>15. Cardinality(U) = Cardinality(J)
  <2> HIDE DEF U, keys, J, F
  <2> QED BY <1>13, <1>14, FS_Bijection
<1>16. Count(a, kind) = Cardinality(J) /\ TargetCount(a.name, kind) = Cardinality(U)
  BY DEF Count, TargetCount
<1> QED BY <1>7, <1>15, <1>16, <1>a

\* What is only planned is not created: a repository that was new has none of it.
LEMMA PlannedIsMissing ==
    ASSUME RestoreInv, WholeInv, restore.at = "done", NEW name, restore.before[<<name>>] = 0, NEW kind \in Planned
    PROVE  TargetCount(name, kind) = 0
<1>1. restore \in Restores /\ Grounded(restore.before)
  BY DEF RestoreInv, RestoreTypeOK, WholeInv, NoRun
<1>2. target \in [TargetKeys -> Nat] /\ \A k \in TargetKeys : target[k] = restore.before[k] + Added(k)
  BY <1>1 DEF RestoreInv, RestoreTypeOK
<1> DEFINE keys == {k \in DOMAIN target : Len(k) = 3 /\ k[1] = name /\ k[2] = kind}
<1>3. ASSUME NEW k \in keys PROVE {k} \X (1 .. target[k]) = {}
  <2>1. k \in TargetKeys /\ Len(k) = 3 /\ k[1] = name /\ k[2] = kind
    BY <1>2
  <2>2. restore.before[k] = 0
    BY <1>1, <2>1 DEF Grounded
  <2>3. Added(k) = 0
    BY <2>1 DEF Added
  <2>4. target[k] = 0
    <3> HIDE DEF keys
    <3> QED BY <1>2, <2>1, <2>2, <2>3
  <2>5. 1 .. target[k] = {}
    BY <2>4
  <2> QED BY <2>5
<1>4. UNION {{k} \X (1 .. target[k]) : k \in keys} = {}
  <2> HIDE DEF keys
  <2> QED BY <1>3
<1>5. TargetCount(name, kind) = Cardinality(UNION {{k} \X (1 .. target[k]) : k \in keys})
  BY DEF TargetCount
<1>6. Cardinality({}) = 0
  BY FS_EmptySet
<1> QED BY <1>4, <1>5, <1>6

\* A repository differs from the archive in its webhooks, if it has any there, and
\* in nothing else.
LEMMA OnlyWebhooksDiffer ==
    ASSUME RestoreInv, WholeInv, restore.at = "done", restore.blockers = {}, ~restore.dry, restore.strict,
           NEW a \in ToSet(restore.archive)
    PROVE  Reached(a.name) /\ Deltas(a) = IF Count(a, "webhook") > 0 THEN {"webhook"} ELSE {}
<1>1. restore \in Restores
  BY DEF RestoreInv, RestoreTypeOK, NoRun
<1>2. PICK i \in 1 .. Len(restore.archive) : a = restore.archive[i]
  BY <1>1, RunIs
<1>3. \A kind \in Kinds \ Planned : Reached(a.name) /\ Count(a, kind) = TargetCount(a.name, kind)
  BY <1>2, CountsAgree
<1>4. "issue" \in Kinds \ Planned /\ "webhook" \in Planned
  BY DEF Kinds, Planned
<1>5. restore.before[<<a.name>>] = 0
  <2>1. WholeRun(restore)
    BY <1>1 DEF WholeInv
  <2>2. PICK L \in Nat : L = Len(restore.archive) /\ restore.repo = L + 1
    BY <1>1, <2>1, RunIs DEF WholeRun, Bounded
  <2>3. i < restore.repo
    BY <1>2, <2>2
  <2>4. HasAll(restore, i)
    BY <1>2, <2>1, <2>3 DEF WholeRun, Made, Begun
  <2> QED BY <1>2, <2>4 DEF HasAll
<1>6. TargetCount(a.name, "webhook") = 0
  BY <1>4, <1>5, PlannedIsMissing
<1>7. Count(a, "webhook") \in Nat
  <2>1. a.items \in Seq(Items) /\ Len(a.items) \in Nat
    BY <1>1, <1>2, RunIs
  <2>2. IsFiniteSet(1 .. Len(a.items))
    BY <2>1, FS_Interval
  <2>3. {h \in DOMAIN a.items : a.items[h].kind = "webhook"} \in SUBSET (1 .. Len(a.items))
    BY <2>1
  <2>4. IsFiniteSet({h \in DOMAIN a.items : a.items[h].kind = "webhook"})
    BY <2>2, <2>3, FS_Subset
  <2> QED BY <2>4, FS_CardinalityType DEF Count
<1>8. Count(a, "webhook") > 0 <=> Count(a, "webhook") # TargetCount(a.name, "webhook")
  BY <1>6, <1>7
<1>9. \A kind : kind \in Counted <=> kind \in Kinds \ Planned \/ kind = "webhook"
  BY DEF Counted, Kinds, Planned
<1> QED BY <1>3, <1>4, <1>8, <1>9 DEF Deltas

\* A restore creates nothing that the archive does not name.
LEMMA OthersStay ==
    ASSUME RestoreInv, WholeInv, restore.at = "done"
    PROVE  Others(restore.archive, target) = Others(restore.archive, restore.before)
<1>1. restore \in Restores /\ WholeRun(restore)
  BY DEF RestoreInv, RestoreTypeOK, WholeInv, NoRun
<1>2. /\ target \in [TargetKeys -> Nat] /\ restore.before \in [TargetKeys -> Nat]
      /\ \A k \in TargetKeys : target[k] = restore.before[k] + Added(k)
  BY <1>1, RunIs DEF RestoreInv, RestoreTypeOK
<1>3. ASSUME NEW k \in TargetKeys, Len(k) = 1, \A a \in ToSet(restore.archive) : a.name # k[1]
      PROVE  target[k] = restore.before[k]
  <2>1. ASSUME k \in ToSet(restore.commands) PROVE FALSE
    <3>1. PICK i \in 1 .. Len(restore.archive) :
             \/ k = <<restore.archive[i].name>>
             \/ \E h \in 1 .. Len(restore.archive[i].items) :
                   k = ItemKey(restore.archive[i].name, restore.archive[i].items[h])
      BY <1>1, <2>1 DEF WholeRun, OfArchive
    <3>2. k[1] = restore.archive[i].name
      BY <3>1 DEF ItemKey
    <3>3. restore.archive[i] \in ToSet(restore.archive)
      <4>1. restore.archive \in Seq(ToSet(restore.archive))
        BY <1>1, ArchivesAreLists DEF Restores
      <4> QED BY <4>1
    <3> QED BY <1>3, <3>2, <3>3
  <2>2. Added(k) = 0
    BY <2>1 DEF Added
  <2> QED BY <1>2, <2>2
<1> QED BY <1>2, <1>3 DEF Others

LEMMA WholeGives == RestoreInv /\ WholeInv => RestoreIsWhole
<1> SUFFICES ASSUME RestoreInv, WholeInv PROVE RestoreIsWhole
  OBVIOUS
<1>1. RestoreCreates
  BY RestoreGives
<1>2. ASSUME restore.at = "done" PROVE restore.commands = Plan(restore)
  <2>1. restore \in Restores /\ WholeRun(restore)
    BY <1>2 DEF RestoreInv, RestoreTypeOK, WholeInv, NoRun
  <2>2. PICK L \in Nat : L = Len(restore.archive) /\ restore.repo - 1 = L
    <3>1. PICK L \in Nat : L = Len(restore.archive) /\ restore.repo = L + 1
      BY <1>2, <2>1, RunIs DEF WholeRun, Bounded
    <3> QED BY <3>1
  <2>3. PICK f : PlansTo(f, restore.archive, restore.blockers, L) /\ restore.commands = f[L]
    BY <1>2, <2>1, <2>2 DEF WholeRun, Printed
  <2> DEFINE plan == CHOOSE g : PlansTo(g, restore.archive, restore.blockers, L)
  <2>4. PlansTo(plan, restore.archive, restore.blockers, L)
    BY <2>3
  <2>5. Plan(restore) = plan[L]
    BY <2>2 DEF Plan, PlansTo
  <2>6. plan[L] = f[L]
    <3> HIDE DEF plan
    <3> QED BY <2>2, <2>3, <2>4, OnePlan
  <2> QED BY <2>3, <2>5, <2>6
<1>3. ASSUME restore.at = "done", restore.blockers = {}, ~restore.dry, restore.strict
      PROVE  /\ \A a \in ToSet(restore.archive) : Deltas(a) = IF Count(a, "webhook") > 0 THEN {"webhook"} ELSE {}
             /\ Drifts(restore.archive) <=> \/ \E a \in ToSet(restore.archive) : Count(a, "webhook") > 0
                                            \/ Others(restore.archive, restore.before) # {}
  <2>1. \A a \in ToSet(restore.archive) :
           Reached(a.name) /\ Deltas(a) = IF Count(a, "webhook") > 0 THEN {"webhook"} ELSE {}
    BY <1>3, OnlyWebhooksDiffer
  <2>2. Others(restore.archive, target) = Others(restore.archive, restore.before)
    BY <1>3, OthersStay
  <2> QED BY <2>1, <2>2 DEF Drifts
<1> QED BY <1>1, <1>2, <1>3 DEF RestoreIsWhole

\* A restore that ended printed the plan of its archive, less what it was blocked
\* from, and did what it printed; a strict one that was blocked from nothing left
\* no drift but the webhooks of the archive and what else the target had
\* (plan_restore, compare_archives), for any archives and targets.
THEOREM RestoresAreWhole == MirrorSpec => []RestoreIsWhole
<1>1. MirrorInit => RestoreInv /\ WholeInv
  BY RestoreStarts, WholeStarts
<1>2. (RestoreInv /\ WholeInv) /\ [MirrorNext]_mirrorVars => (RestoreInv /\ WholeInv)'
  BY RestoreKept, WholeKept
<1> QED BY <1>1, <1>2, WholeGives, PTL DEF MirrorSpec

\* What any command of jeryu-mirror reports as done is done: bundles, restores,
\* imports and syncs, for any of them stopped, refused or run again anywhere.
THEOREM MirrorsHold == MirrorSpec => []MirrorsAreWhole
<1>1. VerifiedBundleIsWhole /\ RestoreIsWhole /\ ImportIsWhole /\ SyncTakesAlong <=> MirrorsAreWhole
  BY DEF MirrorsAreWhole
<1> QED BY <1>1, BundlesAreWhole, RestoresAreWhole, ImportsAreWhole, SyncsTakeAlong, PTL
=============================================================================
