------------------------------ MODULE GitEdge ------------------------------
(* A push at the HTTP edge of jeryu-gitd.  The client's bytes come in any       *)
(* pieces, may stop short of the declared length and may run past it.  The     *)
(* edge reads the head, then enough of the body to see every ref command,      *)
(* judges those, and hands git the bytes it has read and the ones that follow. *)
(* What git makes of them the client may never learn.                          *)
(* A byte is a cell: a packet is HeaderLen cells that tell its length, then    *)
(* its payload; the packfile behind the flush is cells that are no packet.     *)
EXTENDS Integers, Sequences, FiniteSets, SequencesExt, FiniteSetsExt

CONSTANTS
    Preludes,       \* what clients may send: sequences of packets
    MaxPrelude      \* MAX_RECEIVE_PACK_PRELUDE_BYTES, in cells

VARIABLES
    request,    \* [packets, wire, declared, whole]: what the client sends, and how it comes
    edge,       \* where the handler is
    prefix,     \* body cells read
    offset,     \* how far the prelude has been scanned
    stdin,      \* cells git was given, or NoGit
    answer      \* HTTP status, 0 before there is one

edgeVars == <<request, edge, prefix, offset, stdin, answer>>

NoLength == -1
HeaderLen == 2
Main == "refs/heads/main"

Pkt(kind, ref, caps, size) == [kind |-> kind, ref |-> ref, caps |-> caps, size |-> size]
Command(ref, caps) == Pkt("command", ref, caps, 1)
Shallow(oid) == Pkt("shallow", oid, FALSE, 1)
Bad == Pkt("bad", "", FALSE, 0)
Flush == Pkt("flush", "", FALSE, 0)
Control == Pkt("control", "", FALSE, 0)
Reserved == Pkt("reserved", "", FALSE, 0)

\* What a client may send; an object id is not the name of a ref.
IsSent(p) ==
    \/ p \in {Bad, Flush, Control, Reserved}
    \/ p = Command(p.ref, p.caps)
    \/ p = Shallow(p.ref) /\ p.ref # Main

ASSUME GitEdgeAssumption ==
    /\ MaxPrelude \in Nat
    /\ \A packets \in Preludes :
          packets \in Seq(ToSet(packets)) /\ \A p \in ToSet(packets) : IsSent(p)

Cells(packet) == [i \in 1 .. HeaderLen + packet.size |-> <<packet, i>>]
PackCell == <<Pkt("pack", "", FALSE, 0), 0>>
NoGit == <<<<Pkt("nogit", "", FALSE, 0), 0>>>>

\* The bytes of the body; a packfile follows the first flush.
Wire(packets) ==
    FlattenSeq([i \in DOMAIN packets |-> Cells(packets[i])])
        \o IF Flush \in ToSet(packets) THEN <<PackCell>> ELSE <<>>

----------------------------------------------------------------------------
(* pkt-lines *)

\* The packet whose length the four bytes at an offset tell, if they tell one.
PacketAt(cells, at) ==
    {p \in {cells[at + 1][1]} : \A i \in 1 .. HeaderLen : cells[at + i] = <<p, i>>}

\* Packets of a whole body up to its first flush, or an error in what is cut short.
Malformed == <<Pkt("malformed", "", FALSE, 0)>>

PacketsFrom(cells) ==
    LET from[at \in 0 .. Len(cells)] ==
            IF at = Len(cells) THEN <<>>
            ELSE IF Len(cells) - at < HeaderLen \/ PacketAt(cells, at) = {} THEN Malformed
            ELSE LET p == CHOOSE q \in PacketAt(cells, at) : TRUE
                     next == at + HeaderLen + p.size
                 IN  IF p = Flush THEN <<>>
                     ELSE IF next > Len(cells) \/ p.kind \in {"control", "reserved"} THEN Malformed
                     ELSE IF from[next] = Malformed THEN Malformed
                     ELSE <<p>> \o from[next]
    IN  from

Packets(cells) == PacketsFrom(cells)[0]

CommandsOf(packets, places) == [i \in {j \in places : packets[j].kind = "command"} |-> packets[i]]

\* receive_pack_commands, each at the place of its packet: shallow declarations
\* come first and once each, and only the first command has capabilities.
ReceivePackCommands(cells) ==
    LET packets == Packets(cells)
        isCommand(i) == packets[i].kind = "command" IN
    IF packets = Malformed THEN Malformed
    ELSE IF \E i \in DOMAIN packets :
              \/ packets[i].kind = "bad"
              \/ packets[i].kind = "shallow" /\ \E j \in 1 .. i - 1 : isCommand(j) \/ packets[j] = packets[i]
              \/ isCommand(i) /\ packets[i].caps /\ \E j \in 1 .. i - 1 : isCommand(j)
    THEN Malformed
    ELSE CommandsOf(packets, DOMAIN packets)

\* ensure_receive_pack_policy.
Policy(cells) ==
    LET commands == ReceivePackCommands(cells) IN
    IF commands = Malformed THEN "protocol"
    ELSE IF \E i \in DOMAIN commands : commands[i].ref = Main THEN "protected"
    ELSE "none"

\* error_response.
ErrorResponse(cause) ==
    CASE cause = "unauthorized" -> 401
      [] cause \in {"forbidden", "protected", "archived"} -> 403
      [] cause = "unsized" -> 411
      [] cause = "busy" -> 503
      [] OTHER -> 500

----------------------------------------------------------------------------
Refuse(cause) == edge' = "ended" /\ answer' = ErrorResponse(cause) /\ UNCHANGED <<request, prefix, offset, stdin>>

\* read_head: the first pieces bring the head and n cells of the body, and what
\* exceeds the declared length is dropped.  A client that goes away before its
\* head is whole gets no answer.
ReadHead(n) ==
    /\ edge = "head" /\ ~request.whole /\ n \in 0 .. Len(request.wire)
    /\ IF request.declared = NoLength THEN Refuse("unsized")
       ELSE /\ prefix' = SubSeq(request.wire, 1, Min({n, request.declared}))
            /\ edge' = "admit" /\ UNCHANGED <<request, offset, stdin, answer>>

HeadCutShort == edge = "head" /\ edge' = "ended" /\ UNCHANGED <<request, prefix, offset, stdin, answer>>

\* A host that ends HTTP itself hands over the whole body.
WholeBody ==
    /\ edge = "head" /\ request.whole
    /\ prefix' = request.wire /\ edge' = "admit" /\ UNCHANGED <<request, offset, stdin, answer>>

\* prepare_streaming_rpc and rpc up to the body: who asks, which repository,
\* whether it is archived, what is expected.
Admit(cause) ==
    /\ edge = "admit"
    /\ IF cause # "none" THEN Refuse(cause)
       ELSE edge' = (IF request.whole THEN "judge" ELSE "scan") /\ UNCHANGED <<request, prefix, offset, stdin, answer>>

\* receive_pack_prelude_state, one packet at a time: step over a packet that
\* was read whole, or ask for what is missing of it.
Missing == LET left == Len(prefix) - offset
               size == IF left < HeaderLen \/ PacketAt(prefix, offset) = {} THEN 0
                       ELSE (CHOOSE p \in PacketAt(prefix, offset) : TRUE).size
           IN  Max({0, HeaderLen + size - left})

Scan ==
    LET here == PacketAt(prefix, offset) IN
    /\ edge = "scan" /\ Missing = 0
    /\ IF here = {} \/ Reserved \in here THEN Refuse("protocol")
       ELSE LET p == CHOOSE q \in here : TRUE IN
            /\ offset' = offset + HeaderLen + p.size
            /\ edge' = (IF p = Flush THEN "judge" ELSE "scan")
            /\ UNCHANGED <<request, prefix, stdin, answer>>

\* read_receive_pack_prefix: the missing cells, within the limit and the
\* declared length; a client that stops short is a protocol error.
ReadMore ==
    LET length == Len(prefix) + Missing IN
    /\ edge = "scan" /\ Missing > 0
    /\ IF length > MaxPrelude \/ length > request.declared \/ length > Len(request.wire) THEN Refuse("protocol")
       ELSE prefix' = SubSeq(request.wire, 1, length) /\ UNCHANGED <<request, edge, offset, stdin, answer>>

\* What the policy is asked about.
Prelude == IF request.whole THEN prefix ELSE SubSeq(prefix, 1, offset)

Judge ==
    LET verdict == IF ~request.whole /\ offset > MaxPrelude THEN "protocol" ELSE Policy(Prelude) IN
    /\ edge = "judge"
    /\ IF verdict # "none" THEN Refuse(verdict)
       ELSE edge' = "spawn" /\ UNCHANGED <<request, prefix, offset, stdin, answer>>

\* begin_push, admit and the spawn: a whole body waits for a slot of the gate
\* and may be refused one, a streamed one gets the head of its answer before
\* git has a byte; what else fails here is an error.
Spawn(cause) ==
    /\ edge = "spawn" /\ (cause = "busy" => request.whole)
    /\ IF cause # "none" THEN Refuse(cause)
       ELSE /\ edge' = "pump" /\ stdin' = <<>> /\ answer' = (IF request.whole THEN 0 ELSE 200)
            /\ UNCHANGED <<request, prefix, offset>>

\* Mutant of Remaining: the cells read with the head are not subtracted.
DeclaredRemains == request.declared

\* Body cells still to come.
Remaining == request.declared - Len(prefix)

\* What was read and the rest of the body, as much of it as comes.
Body ==
    LET rest == IF request.whole THEN 0 ELSE Min({Remaining, Len(request.wire) - Len(prefix)})
    IN  prefix \o SubSeq(request.wire, Len(prefix) + 1, Len(prefix) + rest)

\* Git is given the body, or the n cells that reach it before it ends or the
\* client goes away.  Short input, a failing git and a push that finish_push
\* cannot record are errors; an answer that began is cut, any other is a 500.
Pump(n, ok) ==
    /\ edge = "pump" /\ n \in 0 .. Len(Body) /\ (ok => n = request.declared)
    /\ stdin' = SubSeq(Body, 1, n)
    /\ edge' = (IF ok THEN "ended" ELSE "cut")
    /\ answer' = (IF ~request.whole THEN answer ELSE IF ok THEN 200 ELSE 500)
    /\ UNCHANGED <<request, prefix, offset>>

Request(packets, declared, whole) ==
    [packets |-> packets, wire |-> Wire(packets), declared |-> declared, whole |-> whole]

EdgeStart == edge = "head" /\ prefix = <<>> /\ offset = 0 /\ stdin = NoGit /\ answer = 0

EdgeInit ==
    /\ EdgeStart
    /\ \E packets \in Preludes :
          \/ request = Request(packets, Len(Wire(packets)), TRUE)
          \/ \E declared \in NoLength .. Len(Wire(packets)) + 1 : request = Request(packets, declared, FALSE)

EdgeNext ==
    \/ \E n \in 0 .. Len(request.wire) : ReadHead(n)
    \/ HeadCutShort \/ WholeBody
    \/ \E cause \in {"none", "unauthorized", "forbidden", "archived", "absent"} : Admit(cause)
    \/ Scan \/ ReadMore \/ Judge
    \/ \E cause \in {"none", "busy", "failed"} : Spawn(cause)
    \/ \E n \in 0 .. Len(request.wire), ok \in BOOLEAN : Pump(n, ok)

EdgeSpec == EdgeInit /\ [][EdgeNext]_edgeVars

----------------------------------------------------------------------------
\* The places of the packets git reads commands from.
BeforeFlush(packets) == {i \in DOMAIN packets : \A j \in 1 .. i : packets[j] # Flush}

(* However the body came in pieces: git is given the client's own bytes, in    *)
(* order, none of them twice and none behind the declared length; the commands *)
(* git will find in them, the ones before the first flush, were all judged and *)
(* none names main.  A push that ended well gave git the whole declared body,  *)
(* and a refusal means that git was never asked; only a 500, and only for a    *)
(* whole body, says nothing about what git did (read_receive_pack_prefix,      *)
(* prepare_streaming_rpc, rpc, error_response).                                *)
GitGetsWhatWasJudged ==
    /\ stdin # NoGit =>
          LET body == SubSeq(request.wire, 1, Min({request.declared, Len(request.wire)}))
              found == BeforeFlush(request.packets) IN
          /\ IsPrefix(stdin, body)
          /\ edge = "ended" => stdin = body
          /\ ReceivePackCommands(Prelude) = CommandsOf(request.packets, found)
          /\ \A i \in found : request.packets[i].ref # Main
          /\ ~request.whole => Flush \in ToSet(request.packets)
    /\ request.whole /\ answer = 200 => stdin = request.wire
    /\ answer \in {401, 403, 411, 503} \/ (answer = 500 /\ ~request.whole) => stdin = NoGit
=============================================================================
