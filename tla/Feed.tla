-------------------------------- MODULE Feed --------------------------------
(***************************************************************************)
(* The feed end to end, the way the trace and verify tools drive it        *)
(* (tools/support/traced_run.hpp, traced_drivers.hpp, traced_pipeline.hpp):*)
(* the venue publishes a stream; a fault injector with a generated         *)
(* schedule stands between it and a receiver that checks framing, tracks   *)
(* sequence numbers, asks the retransmit facility for what is missing and  *)
(* applies what it has to a book in sequence order.  A chain checker       *)
(* listens on the line.  While the venue publishes, a snapshot may be      *)
(* asked for; once the stream is complete only the line is looked at.      *)
(*                                                                         *)
(* Message n is a body of one or two cells that say n; a cell of a body is *)
(* larger than any length, so it is never mistaken for a prefix.  The      *)
(* receiver's retry timing is the requester's (Requester, Client): here it *)
(* may ask at any moment after a packet.                                   *)
(***************************************************************************)
EXTENDS VenueOps, ChaosOps, TrackerOps

CONSTANTS
    FeedProtocols,          \* the protocols the run covers
    MaxMessages,            \* bound: messages published
    MaxPackets,             \* bound: packets published
    BodySizes               \* bound: sizes of a message body

ASSUME FeedAssumption ==
    /\ FeedProtocols \subseteq Protocols
    /\ {MaxMessages, MaxPackets} \subseteq Nat
    /\ BodySizes \subseteq Nat \ {0}

VARIABLES
    protocol,   \* which target the publisher and the injector are built for
    phase,      \* "publishing", "offering", "repairing"
    pub,        \* the publisher
    bodies,     \* the message bodies submitted, in order
    stream,     \* the packets the publisher emitted
    facility,   \* the retransmit facility
    plan,       \* the fault schedule
    injector,   \* the injector
    index,      \* packets of the stream offered to the injector
    chain,      \* the chain checker on the line
    heard,      \* what the line carried: the packets and the checker's reports
    tracker,    \* the receiver's gap tracker
    waiting,    \* deliveries above a hole: sequence and body (pending_)
    applied,    \* the bodies applied to the book, in order
    refused,    \* whether the facility refused a request
    snapshots,  \* the snapshot facility
    askedAt,    \* where the feed was at the snapshot request, 0 before it
    reply       \* the snapshot's position, 0 before it

venue == <<pub, bodies, stream, facility>>
line == <<plan, injector, index, chain, heard>>
receiver == <<tracker, waiting, applied, refused>>
snapshot == <<snapshots, askedAt, reply>>
vars == <<protocol, phase, venue, line, receiver, snapshot>>

Init ==
    /\ protocol \in FeedProtocols
    /\ phase = "publishing"
    /\ pub = NewPublisher(1) /\ bodies = <<>> /\ stream = <<>>
    /\ facility = NewFacility
    /\ plan = <<>> /\ injector = NewInjector /\ index = 0
    /\ chain = NoChain /\ heard = <<>>
    /\ tracker = Fresh /\ waiting = {} /\ applied = <<>> /\ refused = FALSE
    /\ snapshots = NewSnapshots /\ askedAt = 0 /\ reply = 0

(***************************************************************************)
(* Publishing: every packet emitted is captured and kept by the facility.  *)
(***************************************************************************)
Published(result) ==
    /\ Len(stream) + Len(result.packets) <= MaxPackets
    /\ pub' = result.publisher
    /\ stream' = stream \o result.packets
    /\ facility' = FoldLeft(Record, facility, result.packets)

\* The snapshot facility is told where the feed has reached.
Reached(packets) ==
    LET ends == {NextSequence(protocol, packets[i]) : i \in DOMAIN packets}
    IN  snapshots' = AdvanceTo(snapshots, Max(ends \cup {0}))

SubmitMessage ==
    /\ phase = "publishing" /\ Len(bodies) < MaxMessages
    /\ \E size \in BodySizes :
         LET body == [i \in 1..size |-> EndOfSession + Len(bodies) + 1]
             result == Submit(protocol, pub, body)
         IN  /\ Published(result)
             /\ Reached(result.packets)
             /\ bodies' = IF result.outcome = "ok" THEN Append(bodies, body) ELSE bodies
    /\ UNCHANGED <<protocol, phase, line, receiver, askedAt, reply>>

FlushPublisher ==
    /\ phase = "publishing" /\ Pending(pub)
    /\ Published(Flush(protocol, pub)) /\ Reached(Flush(protocol, pub).packets)
    /\ UNCHANGED <<protocol, phase, bodies, line, receiver, askedAt, reply>>

PollPublisher ==
    /\ phase = "publishing"
    /\ Published(Poll(protocol, pub)) /\ Reached(Poll(protocol, pub).packets)
    /\ UNCHANGED <<protocol, phase, bodies, line, receiver, askedAt, reply>>

Quiet ==
    /\ phase = "publishing" /\ pub.quiet < HeartbeatInterval
    /\ pub' = [pub EXCEPT !.quiet = @ + 1]
    /\ UNCHANGED <<protocol, phase, bodies, stream, facility, line, receiver, snapshot>>

\* The stream is complete; a schedule is drawn over it.
FinishStream ==
    /\ phase = "publishing" /\ ~snapshots.inFlight
    /\ Published(Flush(protocol, pub))
    /\ plan' \in Schedules(Len(stream'))
    /\ phase' = "offering"
    /\ snapshots' = NewSnapshots /\ askedAt' = 0 /\ reply' = 0
    /\ UNCHANGED <<protocol, bodies, injector, index, chain, heard, receiver>>

(***************************************************************************)
(* The receiver.                                                           *)
(***************************************************************************)
\* deliver_to_book(): deliveries wait until everything below them was applied.
Step(book, n) ==
    LET ready == {d \in book.waiting : d[1] = Len(book.applied) + 1}
    IN  IF ready = {} THEN book
        ELSE LET d == CHOOSE d \in ready : TRUE
             IN  [waiting |-> book.waiting \ ready, applied |-> Append(book.applied, d[2])]

\* Mutant: bodies are applied as their packet arrives.
MutantIntoBook(book, delivered) ==
    LET inOrder == SetToSortSeq(delivered, LAMBDA d, e : d[1] < e[1])
    IN  [book EXCEPT !.applied = @ \o [i \in DOMAIN inOrder |-> inOrder[i][2]]]

IntoBook(book, delivered) ==
    LET all == [book EXCEPT !.waiting = @ \cup delivered]
    IN  FoldLeft(Step, all, [i \in 1..Cardinality(all.waiting) |-> i])

\* offer(): decode the header, check the framing, track, deliver what is new.
\* An undecodable packet is discarded before anything else sees it.  The body is
\* the one the packet carries: offer_to_book() looks it up by sequence instead,
\* and says that is equivalent to carrying it, which BookIsThePrefix then checks.
Receive(rx, p) ==
    LET framed == Drain(protocol, p)
        arrived == SequenceRange(p.sequence, NextSequence(protocol, p))
        seen == Observe(rx.tracker, p.session, arrived)
        fresh(n) == \/ ~rx.tracker.started \/ p.session # rx.tracker.session
                    \/ n \in rx.tracker.missing \/ n >= rx.tracker.expected
        delivered == {<<p.sequence + i - 1, framed.blocks[i]>> :
                         i \in {k \in DOMAIN framed.blocks : fresh(p.sequence + k - 1)}}
    IN  IF framed.error # "ok" \/ seen.outcome = "capacity_exceeded" THEN rx
        ELSE [tracker |-> seen.tracker, book |-> IntoBook(rx.book, delivered)]

\* The packets of one call, in the order they are handed over.
AfterReceiving(packets) ==
    FoldLeft(Receive, [tracker |-> tracker,
                       book |-> [waiting |-> waiting, applied |-> applied]], packets)

Received(packets) ==
    LET rx == AfterReceiving(packets)
    IN  /\ tracker' = rx.tracker
        /\ waiting' = rx.book.waiting
        /\ applied' = rx.book.applied

\* The chain checker (IEX-TP only) reads every header on the line that is whole.
Listen(ear, emission) ==
    IF ~emission.packet.whole \/ ~TracksStreamOffset(protocol) THEN ear
    ELSE [chain |-> ObserveChain(ear.chain, emission.packet),
          heard |-> Append(ear.heard,
                           [packet |-> emission.packet,
                            report |-> Inconsistency(ear.chain, emission.packet)])]

OnTheLine(emissions) ==
    LET ear == FoldLeft(Listen, [chain |-> chain, heard |-> heard], emissions)
    IN  /\ chain' = ear.chain /\ heard' = ear.heard
        /\ Received([i \in DOMAIN emissions |-> emissions[i].packet])

OfferPacket ==
    /\ phase = "offering" /\ index < Len(stream)
    /\ LET result == OfferTo(protocol, injector, plan, stream[index + 1], index)
       IN  injector' = result.injector /\ OnTheLine(result.out)
    /\ index' = index + 1
    /\ UNCHANGED <<protocol, phase, venue, plan, refused, snapshot>>

FlushLine ==
    /\ phase = "offering" /\ index = Len(stream)
    /\ LET result == FlushInjector(injector)
       IN  injector' = result.injector /\ OnTheLine(result.out)
    /\ phase' = "repairing"
    /\ UNCHANGED <<protocol, venue, plan, index, refused, snapshot>>

\* answer(): the lowest hole is asked for; a refusal ends the chase.
FirstHole(missing) ==
    LET first == Min(missing)
    IN  SequenceRange(first, Min({n \in first..Max(missing) + 1 : n \notin missing}))

\* retransmit_server of the verify tool: an index of the packets that carry
\* messages, sorted (they start at different numbers, so the order is strict),
\* entered one packet before the first that starts at the hole or after it, and
\* left at the end of the hole.
TakeIfCarrying(taken, packet) == IF packet.count = 0 THEN taken ELSE Append(taken, packet)
Carrying(packets) == FoldLeft(TakeIfCarrying, <<>>, packets)

Sorts(sorted, packets) ==
    /\ \A i \in DOMAIN packets : \E k \in DOMAIN packets : sorted[k] = packets[i]
    /\ \A k, m \in DOMAIN packets : k < m => sorted[k].sequence < sorted[m].sequence
BySequence(packets) ==
    CHOOSE sorted \in [DOMAIN packets -> {packets[i] : i \in DOMAIN packets}] :
        Sorts(sorted, packets)

CaptureServes(wanted) ==
    LET byStart == BySequence(Carrying(stream))
        lower == CHOOSE n \in 1..Len(byStart) + 1 :
                    /\ n <= Len(byStart) => byStart[n].sequence >= wanted.first
                    /\ \A i \in 1..n - 1 : byStart[i].sequence < wanted.first
        past == CHOOSE n \in 0..Len(byStart) :
                    /\ n < Len(byStart) => byStart[n + 1].sequence >= wanted.end
                    /\ \A i \in 1..n : byStart[i].sequence < wanted.end
    IN  Wanted(wanted, SubSeq(byStart, Greater(1, lower - 1), past))

AskFacility ==
    /\ phase # "publishing" /\ tracker.missing # {} /\ ~refused
    /\ LET answer == Serve(facility, FirstHole(tracker.missing))
       IN  /\ refused' = (answer.error # "ok")
           /\ Received(answer.packets)
    /\ UNCHANGED <<protocol, phase, venue, line, snapshot>>

(***************************************************************************)
(* One snapshot on the way, answered after its latency.                    *)
(***************************************************************************)
AskSnapshot ==
    /\ phase = "publishing" /\ askedAt = 0 /\ MayRequest(snapshots)
    /\ snapshots' = RequestSnapshot(snapshots)
    /\ askedAt' = snapshots.position
    /\ UNCHANGED <<protocol, phase, venue, line, receiver, reply>>

SnapshotWaits ==
    /\ snapshots.inFlight /\ snapshots.wait > 0
    /\ snapshots' = [snapshots EXCEPT !.wait = @ - 1]
    /\ UNCHANGED <<protocol, phase, venue, line, receiver, askedAt, reply>>

SnapshotArrives ==
    /\ Ready(snapshots)
    /\ reply' = SnapshotReply(snapshots)
    /\ snapshots' = [snapshots EXCEPT !.inFlight = FALSE]
    /\ UNCHANGED <<protocol, phase, venue, line, receiver, askedAt>>

Next ==
    \/ SubmitMessage \/ FlushPublisher \/ PollPublisher \/ Quiet \/ FinishStream
    \/ OfferPacket \/ FlushLine \/ AskFacility
    \/ AskSnapshot \/ SnapshotWaits \/ SnapshotArrives

Spec == Init /\ [][Next]_vars

(***************************************************************************)
(* Properties.                                                             *)
(***************************************************************************)
\* However submit, flush and poll are interleaved, each published packet starts
\* at the sequence and the stream offset where the one before it ended, so the
\* checker that held on a real capture would accept the whole stream.
StreamChains ==
    /\ \A i \in 1..Len(stream) - 1 :
         /\ stream[i + 1].sequence = NextSequence(protocol, stream[i])
         /\ TracksStreamOffset(protocol) =>
                stream[i + 1].offset = NextStreamOffset(stream[i])
    /\ \A i \in DOMAIN stream : WellFramed(protocol, stream[i])

\* A report of the chain checker is a statement about one adjacent pair of
\* packets and nothing more: no break is ever blamed on a later packet.
ReportsConcernOnePair ==
    \A i \in 2..Len(heard) :
        heard[i].report =
            Inconsistency(ObserveChain(NoChain, heard[i - 1].packet), heard[i].packet)

\* Everything offered to the injector was emitted, dropped or is still held, and
\* after flush() nothing is held: a packet delayed past the end of the stream or
\* into a full queue is late, never lost.
NothingVanishes ==
    /\ injector.emitted + injector.dropped + Len(injector.delayed)
         = injector.offered + injector.duplicated
    /\ phase = "repairing" => injector.delayed = <<>>

\* The facility answers from exactly the last packets that carried messages, in
\* the order they were published: what is refused is older than all of them, and
\* what is served covers every available message asked for, without a hole.  The
\* server the verify tool puts over a whole capture answers with the same packets.
\* (Looked at until the line carries its first packet: nothing is published after.)
AnswersFromTheWindow ==
    index = 0 =>
    LET data == Carrying(stream)
        kept == SubSeq(data, Greater(1, Len(data) - RetainedPackets + 1), Len(data))
    IN  \A first, end \in 1..pub.next :
          LET wanted == SequenceRange(first, end)
              answer == Serve(facility, wanted)
          IN  (first < end /\ Count(wanted) <= MaxPerResponse) =>
                IF kept # <<>> /\ first < kept[1].sequence
                THEN answer.error = "retransmit_window_exceeded"
                ELSE /\ answer.packets = Wanted(wanted, kept)
                     /\ kept # <<>> => Numbers(wanted) \cap 1..Carried(kept[Len(kept)]).end - 1
                                          \subseteq Numbers(answer.served)
                     /\ Len(kept) = Len(data) => CaptureServes(wanted) = answer.packets

\* Whatever the schedule did to the line, the book holds the venue's messages in
\* sequence order, each once and undamaged, up to the first one still missing.
\* (Faults that rewrite the position or the session are excluded, as the drivers
\* exclude them.)
Derivable == \A i \in DOMAIN plan : plan[i].op \notin {"rewrite_sequence", "rewrite_session"}

BookIsThePrefix ==
    (Derivable /\ tracker.started) =>
        /\ applied = SubSeq(bodies, 1, Min(tracker.missing \cup {tracker.expected}) - 1)
        /\ \A d \in waiting : d[2] = bodies[d[1]]

\* A snapshot is of the moment it was asked for, less the staleness of the
\* replica, however far the feed has run before the reply.
SnapshotIsOfTheRequest ==
    reply # 0 => reply = IF Staleness >= askedAt THEN 1 ELSE askedAt - Staleness

\* Asking always helps: the answer closes the whole hole that was asked for, or
\* is a refusal, so the receiver never asks for the same hole for ever.
AnswerClosesTheHole ==
    (phase # "publishing" /\ Derivable /\ tracker.missing # {} /\ ~refused) =>
        LET hole == FirstHole(tracker.missing)
            answer == Serve(facility, hole)
        IN  \/ answer.error # "ok"
            \/ Numbers(hole) \cap AfterReceiving(answer.packets).tracker.missing = {}
=============================================================================
