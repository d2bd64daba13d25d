------------------------------ MODULE VenueOps ------------------------------
(***************************************************************************)
(* The feed side of the venue as operators: the publisher that packs       *)
(* messages into datagrams (venue/publisher.hpp), the retransmit facility  *)
(* with its retention window and the snapshot facility.                    *)
(***************************************************************************)
EXTENDS Framing, Gap, FiniteSetsExt

CONSTANTS
    Session,                \* options_.session
    MaxPayload,             \* cells of payload in a datagram of MaxDatagram bytes
    HeartbeatInterval,      \* ticks, options_.heartbeat_interval
    RetainedPackets,        \* Packets: the retention window
    MaxPerResponse,         \* kMaxMessagesPerResponse
    Latency,                \* ticks, options_.latency
    Staleness               \* options_.staleness_messages

ASSUME VenueAssumption ==
    /\ {MaxPayload, HeartbeatInterval, RetainedPackets, MaxPerResponse}
         \subseteq Nat \ {0}
    /\ {Latency, Staleness} \subseteq Nat
    \* The 1400 bytes of a datagram never hold 0xFFFF messages.
    /\ MaxPayload < EndOfSession

(***************************************************************************)
(* The publisher.  quiet is now - last_emit_, in ticks, capped at the      *)
(* interval.                                                               *)
(***************************************************************************)
NewPublisher(first) ==
    [open |-> FALSE, builder |-> Into(Session, 0, 0), next |-> first, offset |-> 0,
     started |-> FALSE, quiet |-> 0]

Pending(pub) == pub.open /\ pub.builder.count > 0

Emitted(pub, packets, outcome) ==
    [publisher |-> pub, packets |-> packets, outcome |-> outcome]

OpenBuilder(pub) ==
    [pub EXCEPT !.open = TRUE, !.builder = Into(Session, pub.next, pub.offset)]

\* Mutant: the offset counts the header of the datagram too.
MutantAdvance(protocol, pub, packet) ==
    [pub EXCEPT !.next = @ + packet.count,
                !.offset = IF TracksStreamOffset(protocol)
                           THEN @ + Len(packet.payload) + 1 ELSE @,
                !.started = TRUE]

\* advance(): both chains move here and nowhere else.
Advance(protocol, pub, packet) ==
    [pub EXCEPT !.next = @ + packet.count,
                !.offset = IF TracksStreamOffset(protocol)
                           THEN @ + Len(packet.payload) ELSE @,
                !.started = TRUE]

Flush(protocol, pub) ==
    IF ~Pending(pub) THEN Emitted([pub EXCEPT !.open = FALSE], <<>>, "ok")
    ELSE LET packet == Finish(protocol, pub.builder)
         IN  Emitted([Advance(protocol, pub, packet) EXCEPT !.open = FALSE, !.quiet = 0],
                     <<packet>>, "ok")

AppendTo(pub, body) == [pub EXCEPT !.builder = AppendBlock(@, body)]

\* A full datagram goes out and the message opens the next one.
Submit(protocol, pub, body) ==
    LET opened == IF pub.open THEN pub ELSE OpenBuilder(pub)
        sent == Flush(protocol, opened)
    IN  IF 1 + Len(body) > MaxPayload THEN Emitted(pub, <<>>, "invalid_argument")
        ELSE IF Fits(opened.builder, body, MaxPayload)
        THEN Emitted(AppendTo(opened, body), <<>>, "ok")
        ELSE Emitted(AppendTo(OpenBuilder(sent.publisher), body), sent.packets, "ok")

\* A heartbeat carries the position of the next message and moves nothing.
SendHeartbeat(pub) ==
    Emitted([pub EXCEPT !.open = FALSE, !.started = TRUE, !.quiet = 0],
            <<EncodeHeartbeat(Session, pub.next, pub.offset)>>, "ok")

Poll(protocol, pub) ==
    IF Pending(pub) THEN Flush(protocol, pub)
    ELSE IF pub.started /\ pub.quiet < HeartbeatInterval THEN Emitted(pub, <<>>, "ok")
    ELSE SendHeartbeat(pub)

(***************************************************************************)
(* The retransmit facility: a ring of the last packets that carried        *)
(* messages.                                                               *)
(***************************************************************************)
NewFacility == [slots |-> [i \in 0..RetainedPackets - 1 |-> <<>>], next |-> 0,
                count |-> 0, evicted |-> 0]

\* record(): a heartbeat is not retained.
Record(f, packet) ==
    IF packet.count = 0 THEN f
    ELSE [slots |-> [f.slots EXCEPT ![f.next] = <<packet>>],
          next |-> (f.next + 1) % RetainedPackets,
          count |-> IF f.count < RetainedPackets THEN f.count + 1 ELSE f.count,
          evicted |-> IF f.count < RetainedPackets THEN f.evicted ELSE f.evicted + 1]

\* Mutant: reading starts at slot 0 although the ring has wrapped.
MutantRetainedAt(f, i) == f.slots[i % RetainedPackets][1]

\* at(): index 0 is the oldest retained packet.
RetainedAt(f, i) ==
    f.slots[((IF f.count < RetainedPackets THEN 0 ELSE f.next) + i) % RetainedPackets][1]

Carried(packet) == SequenceRange(packet.sequence, packet.sequence + packet.count)

\* Mutant: the window ends where its last packet begins.
MutantAvailable(f) ==
    IF f.count = 0 THEN NoRange
    ELSE SequenceRange(Carried(RetainedAt(f, 0)).first,
                       Carried(RetainedAt(f, f.count - 1)).first)

Available(f) ==
    IF f.count = 0 THEN NoRange
    ELSE SequenceRange(Carried(RetainedAt(f, 0)).first,
                       Carried(RetainedAt(f, f.count - 1)).end)

\* The packets that carry any of what is wanted, in order.
TakeIfWanted(wanted, taken, packet) ==
    IF Overlaps(Carried(packet), wanted) THEN Append(taken, packet) ELSE taken
Wanted(wanted, packets) ==
    FoldLeft(LAMBDA taken, packet : TakeIfWanted(wanted, taken, packet), <<>>, packets)

\* The range served so far, with a packet more.
ServeMore(served, packet) == Merge(served, Carried(packet))

Answer(error, served, packets) ==
    [error |-> error, served |-> served, packets |-> packets]

Serve(f, wanted) ==
    LET have == Available(f)
        retained == [i \in 1..f.count |-> RetainedAt(f, i - 1)]
        packets == Wanted(wanted, retained)
    IN  IF Empty(wanted) THEN Answer("ok", NoRange, <<>>)
        ELSE IF Count(wanted) > MaxPerResponse
        THEN Answer("capacity_exceeded", NoRange, <<>>)
        ELSE IF f.count = 0 THEN Answer("ok", NoRange, <<>>)
        \* Refused whole: the tail alone would leave the client asking for ever.
        ELSE IF wanted.first < have.first
        THEN Answer("retransmit_window_exceeded", NoRange, <<>>)
        ELSE IF wanted.first >= have.end THEN Answer("ok", NoRange, <<>>)
        ELSE Answer("ok", FoldLeft(ServeMore, NoRange, packets), packets)

(***************************************************************************)
(* The snapshot facility.  wait is ready_at_ - now, in ticks.              *)
(***************************************************************************)
NewSnapshots == [inFlight |-> FALSE, wait |-> 0, captured |-> 0, position |-> 0]

AdvanceTo(s, sequence) == [s EXCEPT !.position = Greater(@, sequence)]

MayRequest(s) == ~s.inFlight /\ s.position # 0

\* The state is the one at the request, less what the replica lags behind.
RequestSnapshot(s) ==
    [inFlight |-> TRUE, wait |-> Latency,
     captured |-> IF Staleness >= s.position THEN 1 ELSE s.position - Staleness,
     position |-> s.position]

Ready(s) == s.inFlight /\ s.wait = 0

\* Mutant: the position is the one at the reply.
MutantSnapshotReply(s) == s.position - (IF Staleness >= s.position THEN s.position - 1 ELSE Staleness)

SnapshotReply(s) == s.captured
=============================================================================
