---------------------------- MODULE PackService ----------------------------
(***************************************************************************)
(* Pack RPCs of jeryu-gitd.  A buffered RPC (SmartHttpServer::route) takes   *)
(* a slot of PackRpcGate, a counter under a mutex with a condition variable  *)
(* and a deadline, writes a body that is already in memory to a git child,   *)
(* then reads what git answers, and gives the slot back.  A streamed RPC     *)
(* takes no slot: its threads pump the client's socket into git and git's    *)
(* output back (StreamingCommand::pump), and either side may stall or go     *)
(* away.  Git's standard input and output are pipes of PipeSize chunks.      *)
(* Each RPC leaves one PackRpcRecord.                                        *)
(***************************************************************************)
EXTENDS Integers, FiniteSets, Sequences

CONSTANTS
    Buffered, Streamed,     \* the requests of either kind
    Batches,                \* which sets of requests come together
    Limit,                  \* slots of the gate
    BodyLength,             \* body chunks of a request
    PipeSize,               \* chunks a pipe holds
    MaxOutput               \* chunks git writes at most

ASSUME PackServiceAssumption ==
    /\ Buffered \cap Streamed = {}
    /\ Batches \subseteq SUBSET (Buffered \cup Streamed)
    /\ Limit \in Nat \ {0} /\ BodyLength \in Nat \ {0} /\ PipeSize \in Nat \ {0}

Rpcs == Buffered \cup Streamed

VARIABLES
    running,    \* PackRpcGate.running
    rpc,        \* where each request is
    expired,    \* buffered requests whose admission deadline has passed
    toWake,     \* waiters notified and not yet awake
    holding,    \* requests whose PackRpcAdmission still holds a permit
    open,       \* requests whose PackRpcAdmission is open
    records,    \* outcomes recorded for each request, in order
    pump        \* the git child of an RPC, its pipes, and who is at their ends

packVars == <<running, rpc, expired, toWake, holding, open, records, pump>>

\* in, out: the thread that writes git's input and the one that copies its
\* output; sent: body chunks written; stdin, stdout: chunks in the pipes; wrote:
\* chunks git wrote; input, peer: the client's socket as it is read and written.
\* A body in memory is written without waiting for anybody.
NewPump(r) ==
    [in |-> IF r \in Buffered THEN "write" ELSE "read", sent |-> 0, stdin |-> 0,
     child |-> "reads", wrote |-> 0, stdout |-> 0, out |-> "copy", input |-> "open", peer |-> "reads"]

PackInit ==
    /\ running = 0
    /\ \E batch \in Batches :
           rpc = [r \in Rpcs |-> IF r \in batch THEN "arrived" ELSE "absent"]
    /\ expired = {} /\ toWake = {}
    /\ holding = {} /\ open = {}
    /\ records = [r \in Rpcs |-> <<>>]
    /\ pump = [r \in Rpcs |-> NewPump(r)]

----------------------------------------------------------------------------
(* The gate. *)

\* Mutant of GateLook: past its deadline a request waits again for the refusal.
GateLookSpins(r) ==
    \/ /\ running < Limit /\ r \notin expired
       /\ running' = running + 1
       /\ rpc' = [rpc EXCEPT ![r] = "admitted"]
       /\ holding' = holding \cup {r} /\ open' = open \cup {r}
       /\ UNCHANGED records
    \/ /\ running >= Limit \/ r \in expired
       /\ rpc' = [rpc EXCEPT ![r] = "asleep"]
       /\ UNCHANGED <<running, holding, open, records>>

\* acquire, under the mutex: a free slot is taken, a request past its
\* deadline is refused as busy and recorded, any other one sleeps.
GateLook(r) ==
    \/ /\ running < Limit
       /\ running' = running + 1
       /\ rpc' = [rpc EXCEPT ![r] = "admitted"]
       /\ holding' = holding \cup {r} /\ open' = open \cup {r}
       /\ UNCHANGED records
    \/ /\ running >= Limit /\ r \in expired
       /\ rpc' = [rpc EXCEPT ![r] = "ended"]
       /\ records' = [records EXCEPT ![r] = Append(@, "busy")]
       /\ UNCHANGED <<running, holding, open>>
    \/ /\ running >= Limit /\ r \notin expired
       /\ rpc' = [rpc EXCEPT ![r] = "asleep"]
       /\ UNCHANGED <<running, holding, open, records>>

Acquire(r) ==
    /\ r \in Buffered /\ rpc[r] = "arrived"
    /\ GateLook(r)
    /\ UNCHANGED <<expired, toWake, pump>>

\* wait_timeout returns because of a notification or of the deadline.
WakeUp(r) ==
    /\ rpc[r] = "asleep" /\ r \in toWake \cup expired
    /\ GateLook(r)
    /\ toWake' = toWake \ {r}
    /\ UNCHANGED <<expired, pump>>

Deadline(r) ==
    /\ r \in Buffered \ expired /\ rpc[r] \in {"arrived", "asleep"}
    /\ expired' = expired \cup {r}
    /\ UNCHANGED <<running, rpc, toWake, holding, open, records, pump>>

\* Mutant of Close: the admission is not marked closed.
CloseAgain(r, result) ==
    /\ UNCHANGED open
    /\ holding' = holding \ {r}
    /\ running' = IF r \in Buffered /\ running > 0 THEN running - 1 ELSE running
    /\ records' = [records EXCEPT ![r] = Append(@, result)]

\* PackRpcAdmission::close.  The permit's drop decrements under the mutex and
\* notifies after it; the second close, from Drop, finds the admission closed.
Close(r, result) ==
    IF r \in open
      THEN /\ open' = open \ {r}
           /\ holding' = holding \ {r}
           /\ running' = IF r \in holding /\ running > 0 THEN running - 1 ELSE running
           /\ records' = [records EXCEPT ![r] = Append(@, result)]
      ELSE UNCHANGED <<open, holding, running, records>>

\* finish closes with the outcome and then drops the admission; an RPC that
\* failed half-way only drops it.
Finish(r) ==
    /\ rpc[r] \in {"ok", "error"}
    /\ Close(r, rpc[r])
    /\ rpc' = [rpc EXCEPT ![r] = "notifying"]
    /\ UNCHANGED <<expired, toWake, pump>>

NotifyAll(r) ==
    /\ rpc[r] = "notifying"
    /\ toWake' = toWake \cup {q \in Buffered : rpc[q] = "asleep"}
    /\ rpc' = [rpc EXCEPT ![r] = "dropping"]
    /\ UNCHANGED <<running, expired, holding, open, records, pump>>

DropAdmission(r) ==
    /\ rpc[r] = "dropping"
    /\ Close(r, "error")
    /\ rpc' = [rpc EXCEPT ![r] = "ended"]
    /\ UNCHANGED <<expired, toWake, pump>>

----------------------------------------------------------------------------
(* The git child and its pipes. *)

Served(r) == rpc[r] \in {"admitted", "pumping"}

Pump(r, p) ==
    /\ Served(r)
    /\ pump' = [pump EXCEPT ![r] = p]
    /\ UNCHANGED <<running, rpc, expired, toWake, holding, open, records>>

\* A chunk goes into git's input and blocks while the pipe is full; the write
\* fails once git is gone, and that ends it.  Behind the last chunk the pipe
\* is closed.
WriteChunk(r) ==
    LET p == pump[r] IN
    /\ p.in = "write"
    /\ \/ p.child = "exited" /\ Pump(r, [p EXCEPT !.in = "broken"])
       \/ /\ p.child # "exited" /\ p.stdin < PipeSize
          /\ Pump(r, [p EXCEPT !.sent = @ + 1, !.stdin = @ + 1,
                               !.in = IF p.sent + 1 = BodyLength THEN "done"
                                      ELSE IF r \in Buffered THEN "write" ELSE "read"])

InputEnded(p) == p.in \in {"done", "broken"}

\* git reads what there is whenever it is not writing; it writes when it likes,
\* and blocks while nobody reads.
ChildReads(r) ==
    LET p == pump[r] IN
    p.child \in {"reads", "outclosed"} /\ p.stdin > 0 /\ Pump(r, [p EXCEPT !.stdin = @ - 1])
ChildWants(r) ==
    LET p == pump[r] IN
    p.child = "reads" /\ p.wrote < MaxOutput /\ Pump(r, [p EXCEPT !.child = "writes"])
ChildWrites(r) ==
    LET p == pump[r] IN
    /\ p.child = "writes" /\ p.stdout < PipeSize
    /\ Pump(r, [p EXCEPT !.child = "reads", !.wrote = @ + 1, !.stdout = @ + 1])

\* It closes its output when it likes, exits at the end of its input, and may
\* die at any time.
ChildClosesOutput(r) == /\ pump[r].child = "reads"
                        /\ Pump(r, [pump[r] EXCEPT !.child = "outclosed"])
ChildExits(r) == /\ pump[r].child \in {"reads", "outclosed"} /\ InputEnded(pump[r]) /\ pump[r].stdin = 0
                 /\ Pump(r, [pump[r] EXCEPT !.child = "exited"])
ChildDies(r) == pump[r].child # "exited" /\ Pump(r, [pump[r] EXCEPT !.child = "exited"])

----------------------------------------------------------------------------
(* A buffered RPC. *)

\* wait_with_output, entered only behind the whole body.
DrainOutput(r) ==
    LET p == pump[r] IN
    /\ r \in Buffered /\ p.in = "done" /\ p.stdout > 0
    /\ Pump(r, [p EXCEPT !.stdout = @ - 1])

\* run_with_stdin returns, and the pipes are gone: git has exited and its output
\* is read, or the body could not be written.
ChildDone(r) ==
    LET p == pump[r] IN
    /\ rpc[r] = "admitted"
    /\ \E result \in {"ok", "error"} :
          /\ \/ p.in = "broken" /\ result = "error"
             \/ p.in = "done" /\ p.child = "exited" /\ p.stdout = 0
          /\ rpc' = [rpc EXCEPT ![r] = result]
    /\ pump' = [pump EXCEPT ![r] = NewPump(r)]
    /\ UNCHANGED <<running, expired, toWake, holding, open, records>>

----------------------------------------------------------------------------
(* A streamed RPC. *)

\* prepare_streaming_rpc: recorded, never bounded.
StartStream(r) ==
    /\ r \in Streamed /\ rpc[r] = "arrived"
    /\ rpc' = [rpc EXCEPT ![r] = "pumping"]
    /\ open' = open \cup {r}
    /\ UNCHANGED <<running, expired, toWake, holding, records, pump>>

\* The client: it sends a chunk or closes its side, stops and resumes reading
\* what it is sent, or its socket fails.
ClientSends(r) == /\ pump[r].in = "read" /\ pump[r].input = "open"
                  /\ Pump(r, [pump[r] EXCEPT !.in = "write"])
ClientCloses(r) == /\ r \in Streamed /\ pump[r].input = "open"
                   /\ Pump(r, [pump[r] EXCEPT !.input = "closed"])
ClientReads(r, how) == /\ r \in Streamed /\ pump[r].peer # how
                       /\ Pump(r, [pump[r] EXCEPT !.peer = how])
OutputFails(r) == /\ r \in Streamed /\ pump[r].out = "copy"
                  /\ Pump(r, [pump[r] EXCEPT !.out = "failed"])

\* The stdin pump sees the end of its input: the client closed its side, or the
\* read was interrupted.  A client that stalls with its socket open keeps it
\* in read.
EndInput(r) == /\ pump[r].in = "read" /\ pump[r].input \in {"closed", "cancelled"}
               /\ Pump(r, [pump[r] EXCEPT !.in = "done"])

\* io::copy of git's output: a write to the socket has no timeout and blocks
\* while the client does not read.
CopyOutput(r) == /\ r \in Streamed /\ pump[r].out = "copy" /\ pump[r].stdout > 0 /\ pump[r].peer = "reads"
                 /\ Pump(r, [pump[r] EXCEPT !.stdout = @ - 1])
OutputEnds(r) == /\ r \in Streamed /\ pump[r].out = "copy" /\ pump[r].stdout = 0
                 /\ pump[r].child \in {"outclosed", "exited"}
                 /\ Pump(r, [pump[r] EXCEPT !.out = "eof"])

\* Mutant of Interrupted: the request reader is left in read.
LeftReading(p) == p

\* cancel_input interrupts the stdin pump's read, and git is killed when its
\* output could not be delivered.
Interrupted(p) == [p EXCEPT !.input = "cancelled"]

CancelInput(r) ==
    LET p == Interrupted(pump[r]) IN
    /\ pump[r].out \in {"eof", "failed"}
    /\ Pump(r, IF pump[r].out = "failed"
               THEN [p EXCEPT !.out = "undelivered", !.child = "exited"]
               ELSE [p EXCEPT !.out = "delivered"])

\* Both threads joined and git reaped: the admission is finished with the
\* outcome, which is ok only if all of the body went in and git succeeded.
JoinAndReap(r) ==
    LET p == pump[r] IN
    /\ r \in Streamed /\ rpc[r] = "pumping"
    /\ p.out \in {"delivered", "undelivered"} /\ InputEnded(p) /\ p.child = "exited"
    /\ \E result \in {"error"} \cup (IF p.out = "delivered" /\ p.sent = BodyLength
                                     THEN {"ok"} ELSE {}) :
           /\ Close(r, result)
           /\ rpc' = [rpc EXCEPT ![r] = "dropping"]
    /\ UNCHANGED <<expired, toWake, pump>>

----------------------------------------------------------------------------
ServerStep(r) ==
    \/ Acquire(r) \/ WakeUp(r) \/ Finish(r) \/ NotifyAll(r) \/ DropAdmission(r)
    \/ WriteChunk(r) \/ DrainOutput(r) \/ ChildDone(r)
    \/ StartStream(r) \/ EndInput(r) \/ CopyOutput(r) \/ OutputEnds(r) \/ CancelInput(r)
    \/ JoinAndReap(r)

\* What happens of itself: the server's threads are scheduled, clocks advance,
\* and git reads its input, finishes a write it has room for, and exits at the
\* end of its input.  Nothing is assumed of the client, nor of the order in
\* which git reads and writes.
RpcProgress(r) ==
    ServerStep(r) \/ Deadline(r) \/ ChildReads(r) \/ ChildWrites(r) \/ ChildExits(r)

PackNext ==
    \E r \in Rpcs :
        \/ RpcProgress(r)
        \/ ChildWants(r) \/ ChildClosesOutput(r) \/ ChildDies(r)
        \/ ClientSends(r) \/ ClientCloses(r) \/ OutputFails(r)
        \/ \E how \in {"reads", "stalls"} : ClientReads(r, how)

PackFairness == \A r \in Rpcs : WF_packVars(RpcProgress(r))

PackSpec == PackInit /\ [][PackNext]_packVars /\ PackFairness

----------------------------------------------------------------------------
PackTypeOK ==
    /\ running \in Nat /\ expired \subseteq Buffered /\ toWake \subseteq Buffered
    /\ holding \subseteq Rpcs /\ open \subseteq Rpcs
    /\ \A r \in Rpcs : pump[r].sent \in 0 .. BodyLength

(* The gate's counter is exactly the number of permits held, however          *)
(* requests end (served, failed, refused, dropped half-way), so a slot is     *)
(* neither leaked nor given back twice; and each request is recorded once,    *)
(* although finish closes the admission and Drop closes it again.             *)
SlotsAndRecordsBalance ==
    /\ running = Cardinality(holding) /\ running <= Limit
    /\ \A r \in Rpcs : /\ Len(records[r]) <= 1
                       /\ rpc[r] = "ended" => Len(records[r]) = 1

\* run_with_stdin writes and git writes, and nobody reads: both pipes are full.
Wedged(r) ==
    /\ rpc[r] = "admitted" /\ pump[r].in = "write" /\ pump[r].stdin = PipeSize
    /\ pump[r].child = "writes" /\ pump[r].stdout = PipeSize

\* There is output, and the client does not read it.
Stalled(r) == pump[r].out = "copy" /\ pump[r].stdout > 0 /\ pump[r].peer = "stalls"

(* Every buffered request is answered, served or refused as busy, even when   *)
(* later requests keep taking the slots that become free and even when every  *)
(* slot is stuck; the one way to hang is a git that fills its output before   *)
(* it has read its input, since the body is written before any output is      *)
(* read.  A streamed one ends once the whole body is in, git has closed its   *)
(* output or the client's socket refuses it, even if the client never sends   *)
(* the rest; the one way to hang is a client that keeps its socket and stops  *)
(* reading (PackRpcGate::acquire, run_with_stdin, StreamingCommand::pump).    *)
RpcsEnd ==
    /\ \A r \in Buffered : rpc[r] = "arrived" ~> rpc[r] = "ended" \/ Wedged(r)
    /\ \A r \in Streamed :
          (\/ InputEnded(pump[r]) \/ pump[r].child \in {"outclosed", "exited"}
           \/ pump[r].out = "failed") ~> rpc[r] = "ended" \/ Stalled(r)
=============================================================================
