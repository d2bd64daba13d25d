------------------------------ MODULE Framing -------------------------------
(***************************************************************************)
(* The datagrams of the two feed protocols: MoldUDP64 (wire/moldudp64) and *)
(* IEX-TP (wire/iextp).  A datagram is its header fields, whether the      *)
(* header arrived whole, and the payload after it, as a sequence of cells: *)
(* a length prefix or a byte of a body is one cell.                        *)
(*                                                                         *)
(* The protocols differ in what marks a heartbeat, in the Payload Length   *)
(* and the stream offset, which only IEX-TP carries, and in the counts a   *)
(* damaged packet may take.                                                *)
(***************************************************************************)
EXTENDS Integers, Sequences, SequencesExt

CONSTANT EndOfSession       \* kEndOfSession, the largest value of a count

ASSUME FramingAssumption == EndOfSession \in Nat /\ EndOfSession > 2

Protocols == {"moldudp64", "iextp"}
TracksStreamOffset(protocol) == protocol = "iextp"

(***************************************************************************)
(* Headers.                                                                *)
(***************************************************************************)
MoldKind(p) ==
    CASE p.count = EndOfSession -> "end_of_session"
      [] p.count = 0 -> "heartbeat"
      [] OTHER -> "data"

\* Both fields must be zero.
IextpKind(p) == IF p.count = 0 /\ p.length = 0 THEN "heartbeat" ELSE "data"

MoldNextSequence(p) == IF MoldKind(p) = "data" THEN p.sequence + p.count ELSE p.sequence
IextpNextSequence(p) == p.sequence + p.count

NextSequence(protocol, p) ==
    IF protocol = "iextp" THEN IextpNextSequence(p) ELSE MoldNextSequence(p)

NextStreamOffset(p) == p.offset + p.length

(***************************************************************************)
(* packet_builder.                                                         *)
(***************************************************************************)
Into(session, sequence, offset) ==
    [session |-> session, sequence |-> sequence, offset |-> offset,
     payload |-> <<>>, count |-> 0]

\* The sixteen-bit limits of count and length lie far above MaxPayload.
Fits(b, body, capacity) == Len(b.payload) + 1 + Len(body) <= capacity

AppendBlock(b, body) ==
    [b EXCEPT !.payload = @ \o <<Len(body)>> \o body, !.count = @ + 1]

\* finish(): count and length are computed, never supplied.
Finish(protocol, b) ==
    [whole |-> TRUE, session |-> b.session, sequence |-> b.sequence,
     offset |-> b.offset, count |-> b.count,
     length |-> IF protocol = "iextp" THEN Len(b.payload) ELSE 0,
     payload |-> b.payload]

EncodeHeartbeat(session, sequence, offset) ==
    [whole |-> TRUE, session |-> session, sequence |-> sequence, offset |-> offset,
     count |-> 0, length |-> 0, payload |-> <<>>]

(***************************************************************************)
(* message_cursor.                                                         *)
(***************************************************************************)
Cursor(error, rest, blocks) == [error |-> error, rest |-> rest, blocks |-> blocks]

MoldOver(p) ==
    IF p.whole THEN Cursor("ok", p.payload, <<>>)
    ELSE Cursor("truncated_header", <<>>, <<>>)

\* IEX-TP checks the bytes that arrived against Payload Length.
IextpOver(p) ==
    CASE ~p.whole -> Cursor("truncated_header", <<>>, <<>>)
      [] p.whole /\ p.length > Len(p.payload) ->
            Cursor("block_overruns_datagram", <<>>, <<>>)
      [] p.whole /\ p.length < Len(p.payload) -> Cursor("trailing_bytes", <<>>, <<>>)
      [] OTHER -> Cursor("ok", p.payload, <<>>)

Over(protocol, p) == IF protocol = "iextp" THEN IextpOver(p) ELSE MoldOver(p)

\* Mutant: a block may end past the bytes that are left.
MutantNextBlock(c) ==
    IF c.rest = <<>>
    THEN [c EXCEPT !.error = "block_count_overstated"]
    ELSE LET after == Tail(c.rest)
             size == IF Head(c.rest) > Len(after) THEN Len(after) ELSE Head(c.rest)
         IN  Cursor("ok", SubSeq(after, size + 1, Len(after)),
                    Append(c.blocks, SubSeq(after, 1, size)))

NextBlock(c) ==
    IF c.rest = <<>>
    THEN [c EXCEPT !.error = "block_count_overstated"]
    ELSE LET size == Head(c.rest)
             after == Tail(c.rest)
         IN  IF size > Len(after)
             THEN [c EXCEPT !.error = "block_overruns_datagram"]
             ELSE Cursor("ok", SubSeq(after, size + 1, Len(after)),
                         Append(c.blocks, SubSeq(after, 1, size)))

\* The blocks the header accounts for.
MoldRemaining(p) == IF MoldKind(p) = "data" THEN p.count ELSE 0
IextpRemaining(p) == p.count
Remaining(protocol, p) ==
    IF protocol = "iextp" THEN IextpRemaining(p) ELSE MoldRemaining(p)

Drain(protocol, p) ==
    LET step(c, i) == IF c.error = "ok" THEN NextBlock(c) ELSE c
        walked == FoldLeft(step, Over(protocol, p),
                           [i \in 1..Remaining(protocol, p) |-> i])
    IN  IF walked.error = "ok" /\ walked.rest # <<>>
        THEN [walked EXCEPT !.error = "trailing_bytes"]
        ELSE walked

\* What drain() decides, without a cursor: the payload splits into as many
\* blocks as the header counts, each as long as its own prefix says.
WellFramed(protocol, p) ==
    LET n == Remaining(protocol, p)
        size == Len(p.payload)
    IN  /\ p.whole
        /\ protocol = "iextp" => p.length = size
        /\ n <= size
        /\ \E ends \in [0..n -> 0..size] :
             /\ ends[0] = 0 /\ ends[n] = size
             /\ \A i \in 0..n - 1 :
                  ends[i] < size /\ ends[i + 1] = ends[i] + 1 + p.payload[ends[i] + 1]

(***************************************************************************)
(* chain_checker (IEX-TP): what consecutive headers of one channel owe     *)
(* each other.                                                             *)
(***************************************************************************)
NoChain == [started |-> FALSE, session |-> 0, sequence |-> 0, offset |-> 0]

Inconsistency(chain, p) ==
    CASE ~chain.started -> "ok"
      [] chain.started /\ p.session # chain.session -> "session_changed"
      [] chain.started /\ p.session = chain.session /\ p.sequence < chain.sequence ->
            "sequence_regressed"
      [] chain.started /\ p.session = chain.session /\ p.sequence > chain.sequence ->
            "sequence_gap"
      [] chain.started /\ p.session = chain.session /\ p.sequence = chain.sequence
         /\ p.offset # chain.offset -> "message_length_mismatch"
      [] OTHER -> "ok"

\* Mutant: a gap leaves the offset expectation where it was.
MutantObserveChain(chain, p) ==
    [started |-> TRUE, session |-> p.session,
     sequence |-> NextSequence("iextp", p),
     offset |-> IF Inconsistency(chain, p) = "sequence_gap"
                THEN chain.offset + p.length ELSE NextStreamOffset(p)]

\* The expectation is rebuilt from every packet, whatever was found.
ObserveChain(chain, p) ==
    [started |-> TRUE, session |-> p.session,
     sequence |-> NextSequence("iextp", p), offset |-> NextStreamOffset(p)]
=============================================================================
