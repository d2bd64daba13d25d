----------------------------- MODULE Feed_proofs ------------------------------
(* Theorems about the feed end to end, for every datagram size, retention,   *)
(* latency, schedule and bound: what the venue publishes, what the fault     *)
(* injector lets through, what the chain checker says of it, what a snapshot *)
(* is of, what the receiver's book holds, what the retransmit facility       *)
(* answers with and what an answer closes.                                   *)
EXTENDS Feed, SequenceLemmas, FiniteSetTheorems

-----------------------------------------------------------------------------
(* A snapshot is of the moment it was asked for.                             *)

\* The position a snapshot asked for at a moment is of.
AsOf(position) == IF Staleness >= position THEN 1 ELSE position - Staleness

SnapshotFields(s) ==
    s = [inFlight |-> s.inFlight, wait |-> s.wait, captured |-> s.captured,
         position |-> s.position]

SnapshotInv ==
    /\ SnapshotFields(snapshots)
    /\ askedAt = 0 => reply = 0 /\ ~snapshots.inFlight
    /\ snapshots.inFlight => snapshots.captured = AsOf(askedAt)
    /\ reply # 0 => reply = AsOf(askedAt)

LEMMA SnapshotUpdates ==
    ASSUME NEW s, SnapshotFields(s), NEW x, NEW r
    PROVE  /\ r = [s EXCEPT !.position = x] =>
                 r = [inFlight |-> s.inFlight, wait |-> s.wait, captured |-> s.captured,
                      position |-> x]
           /\ r = [s EXCEPT !.wait = x] =>
                 r = [inFlight |-> s.inFlight, wait |-> x, captured |-> s.captured,
                      position |-> s.position]
           /\ r = [s EXCEPT !.inFlight = x] =>
                 r = [inFlight |-> x, wait |-> s.wait, captured |-> s.captured,
                      position |-> s.position]
PROOF
  <1> DEFINE a == s.inFlight
             b == s.wait
             c == s.captured
             d == s.position
  <1>1. s = [inFlight |-> a, wait |-> b, captured |-> c, position |-> d]
        BY DEF SnapshotFields
  <1>f. a = s.inFlight /\ b = s.wait /\ c = s.captured /\ d = s.position OBVIOUS
  <1> HIDE DEF a, b, c, d
  <1> QED BY <1>1, <1>f

\* How far the feed has reached is no part of a snapshot on its way.
LEMMA ReachedKeeps ==
    ASSUME NEW packets, Reached(packets), SnapshotFields(snapshots)
    PROVE  /\ SnapshotFields(snapshots')
           /\ snapshots'.inFlight = snapshots.inFlight
           /\ snapshots'.captured = snapshots.captured
PROOF
  <1>1. \E sequence : snapshots' = AdvanceTo(snapshots, sequence) BY Zenon DEF Reached
  <1>2. PICK x : snapshots' = [snapshots EXCEPT !.position = x]
        BY <1>1, Zenon DEF AdvanceTo
  <1>3. snapshots' = [inFlight |-> snapshots.inFlight, wait |-> snapshots.wait,
                      captured |-> snapshots.captured, position |-> x]
        BY <1>2, SnapshotUpdates
  <1> QED BY <1>3 DEF SnapshotFields

LEMMA SnapshotStep == SnapshotInv /\ [Next]_vars => SnapshotInv'
PROOF
  <1> SUFFICES ASSUME SnapshotInv, [Next]_vars PROVE SnapshotInv' OBVIOUS
  <1>i. /\ SnapshotFields(snapshots)
        /\ askedAt = 0 => reply = 0 /\ ~snapshots.inFlight
        /\ snapshots.inFlight => snapshots.captured = AsOf(askedAt)
        /\ reply # 0 => reply = AsOf(askedAt)
        BY DEF SnapshotInv
  <1>1. CASE UNCHANGED snapshot BY <1>1, <1>i DEF snapshot, SnapshotInv
  <1>2. ASSUME NEW packets, Reached(packets), UNCHANGED <<askedAt, reply>>
        PROVE  SnapshotInv'
    <2>1. /\ SnapshotFields(snapshots') /\ snapshots'.inFlight = snapshots.inFlight
          /\ snapshots'.captured = snapshots.captured
          BY <1>2, <1>i, ReachedKeeps
    <2> QED BY <1>2, <1>i, <2>1 DEF SnapshotInv
  <1>3. CASE SubmitMessage BY <1>2, <1>3, Zenon DEF SubmitMessage
  <1>4. CASE FlushPublisher BY <1>2, <1>4, Zenon DEF FlushPublisher
  <1>5. CASE PollPublisher BY <1>2, <1>5, Zenon DEF PollPublisher
  <1>6. CASE Quiet BY <1>1, <1>6 DEF Quiet
  <1>7. CASE FinishStream
    <2>1. snapshots' = NewSnapshots /\ askedAt' = 0 /\ reply' = 0 BY <1>7 DEF FinishStream
    <2>2. SnapshotFields(NewSnapshots) /\ ~NewSnapshots.inFlight
          BY DEF NewSnapshots, SnapshotFields
    <2> QED BY <2>1, <2>2 DEF SnapshotInv
  <1>8. CASE OfferPacket BY <1>1, <1>8 DEF OfferPacket
  <1>9. CASE FlushLine BY <1>1, <1>9 DEF FlushLine
  <1>10. CASE AskFacility BY <1>1, <1>10 DEF AskFacility
  <1>11. CASE AskSnapshot
    <2>1. /\ askedAt = 0 /\ MayRequest(snapshots) /\ reply' = reply
          /\ snapshots' = RequestSnapshot(snapshots) /\ askedAt' = snapshots.position
          BY <1>11 DEF AskSnapshot
    <2>2. askedAt' # 0 BY <2>1 DEF MayRequest
    <2>3. snapshots' = [inFlight |-> TRUE, wait |-> Latency, captured |-> AsOf(askedAt'),
                        position |-> snapshots.position]
          BY <2>1, Zenon DEF RequestSnapshot, AsOf
    <2>4. SnapshotFields(snapshots') /\ snapshots'.captured = AsOf(askedAt')
          BY <2>3 DEF SnapshotFields
    <2> QED BY <2>1, <2>2, <2>4, <1>i DEF SnapshotInv
  <1>12. CASE SnapshotWaits
    <2>1. /\ snapshots' = [snapshots EXCEPT !.wait = @ - 1]
          /\ UNCHANGED <<askedAt, reply>>
          BY <1>12 DEF SnapshotWaits
    <2>2. snapshots' = [inFlight |-> snapshots.inFlight, wait |-> snapshots.wait - 1,
                        captured |-> snapshots.captured, position |-> snapshots.position]
          BY <2>1, <1>i, SnapshotUpdates
    <2>3. /\ SnapshotFields(snapshots') /\ snapshots'.inFlight = snapshots.inFlight
          /\ snapshots'.captured = snapshots.captured
          BY <2>2 DEF SnapshotFields
    <2> QED BY <2>1, <2>3, <1>i DEF SnapshotInv
  <1>13. CASE SnapshotArrives
    <2>1. /\ snapshots.inFlight /\ reply' = snapshots.captured /\ askedAt' = askedAt
          /\ snapshots' = [snapshots EXCEPT !.inFlight = FALSE]
          BY <1>13 DEF SnapshotArrives, Ready, SnapshotReply
    <2>i. \E x : snapshots' = [snapshots EXCEPT !.inFlight = x] /\ ~x BY <2>1, Zenon
    <2>2. snapshots' = [inFlight |-> FALSE, wait |-> snapshots.wait,
                        captured |-> snapshots.captured, position |-> snapshots.position]
          BY <2>1, <1>i, SnapshotUpdates
    <2>3. SnapshotFields(snapshots') /\ ~snapshots'.inFlight BY <2>2 DEF SnapshotFields
    <2> QED BY <2>1, <2>3, <1>i DEF SnapshotInv
  <1>14. CASE UNCHANGED vars BY <1>1, <1>14 DEF vars
  <1> QED BY <1>3, <1>4, <1>5, <1>6, <1>7, <1>8, <1>9, <1>10, <1>11, <1>12, <1>13, <1>14
          DEF Next

\* A snapshot is of the moment it was asked for, less the staleness of the replica,
\* for every latency and staleness and however far the feed runs on meanwhile.
THEOREM FeedSnapshotIsOfTheRequest == Spec => []SnapshotIsOfTheRequest
PROOF
  <1>1. Init => SnapshotInv
    <2>1. SnapshotFields(NewSnapshots) /\ ~NewSnapshots.inFlight
          BY DEF NewSnapshots, SnapshotFields
    <2> QED BY <2>1 DEF Init, SnapshotInv
  <1>2. SnapshotInv /\ [Next]_vars => SnapshotInv' BY SnapshotStep
  <1>3. SnapshotInv => SnapshotIsOfTheRequest
        BY DEF SnapshotInv, SnapshotIsOfTheRequest, AsOf
  <1> QED BY <1>1, <1>2, <1>3, PTL DEF Spec

-----------------------------------------------------------------------------
(* What the venue publishes forms one chain of well framed datagrams.        *)

\* A payload is n blocks, each behind the prefix that says how long it is.
Splits(payload, n) ==
    /\ n <= Len(payload)
    /\ \E ends \in [0 .. n -> 0 .. Len(payload)] :
          /\ ends[0] = 0 /\ ends[n] = Len(payload)
          /\ \A i \in 0 .. n - 1 :
                ends[i] < Len(payload) /\ ends[i + 1] = ends[i] + 1 + payload[ends[i] + 1]

LEMMA EmptySplits == Splits(<<>>, 0)
PROOF
  <1> DEFINE ends == [i \in 0 .. 0 |-> 0]
  <1>1. Len(<<>>) = 0 /\ 0 <= 0 /\ 0 \in 0 .. 0 /\ 0 .. 0 - 1 = {} BY SMT
  <1>2. ends \in [0 .. 0 -> 0 .. 0] /\ ends[0] = 0 BY <1>1
  <1> HIDE DEF ends
  <1> QED BY <1>1, <1>2 DEF Splits

\* append(): a prefix and a body behind what is there are one block more.
LEMMA OneMoreBlock ==
    ASSUME NEW payload \in Seq(Nat), NEW n \in Nat, Splits(payload, n),
           NEW body \in Seq(Nat)
    PROVE  LET more == payload \o <<Len(body)>> \o body
           IN  /\ more \in Seq(Nat) /\ Len(more) = Len(payload) + 1 + Len(body)
               /\ Splits(more, n + 1)
PROOF
  <1> DEFINE size == Len(payload)
             long == Len(body)
             head == payload \o <<long>>
             more == head \o body
             full == size + 1 + long
  <1>1. size \in Nat /\ long \in Nat /\ full \in Nat /\ size < full OBVIOUS
  <1>2. <<long>> \in Seq(Nat) /\ Len(<<long>>) = 1 /\ <<long>>[1] = long BY <1>1
  <1>f. size = Len(payload) /\ long = Len(body) /\ full = size + 1 + long OBVIOUS
  <1> HIDE DEF size, long, full
  <1>3. /\ head \in Seq(Nat) /\ Len(head) = size + 1
        /\ \A i \in 1 .. size : head[i] = payload[i]
        /\ head[size + 1] = long
    <2> DEFINE tail == <<long>>
    <2>1. tail \in Seq(Nat) /\ Len(tail) = 1 /\ tail[1] = long BY <1>2
    <2> HIDE DEF tail
    <2>2. /\ payload \o tail \in Seq(Nat)
          /\ Len(payload \o tail) = Len(payload) + Len(tail)
          /\ \A i \in 1 .. Len(payload) + Len(tail) :
                (payload \o tail)[i] = IF i <= Len(payload) THEN payload[i]
                                       ELSE tail[i - Len(payload)]
          BY <2>1, ConcatProperties
    <2>3. /\ size + 1 \in 1 .. size + 1 /\ ~(size + 1 <= size) /\ (size + 1) - size = 1
          /\ \A i \in 1 .. size : i \in 1 .. size + 1 /\ i <= size
          BY <1>1, SMT
    <2>4. /\ payload \o tail \in Seq(Nat) /\ Len(payload \o tail) = size + 1
          /\ \A i \in 1 .. size + 1 :
                (payload \o tail)[i] = IF i <= size THEN payload[i] ELSE tail[i - size]
          BY <2>1, <2>2, <1>f
    <2>5. (payload \o tail)[size + 1] = long BY <2>1, <2>3, <2>4
    <2>6. \A i \in 1 .. size : (payload \o tail)[i] = payload[i] BY <2>3, <2>4
    <2> QED BY <2>4, <2>5, <2>6 DEF tail
  <1> HIDE DEF head
  <1>4. /\ more \in Seq(Nat) /\ Len(more) = full
        /\ \A i \in 1 .. size + 1 : more[i] = head[i]
    <2>1. /\ head \o body \in Seq(Nat)
          /\ Len(head \o body) = Len(head) + Len(body)
          /\ \A i \in 1 .. Len(head) + Len(body) :
                (head \o body)[i] = IF i <= Len(head) THEN head[i] ELSE body[i - Len(head)]
          BY <1>3, ConcatProperties
    <2>2. \A i \in 1 .. size + 1 : i \in 1 .. (size + 1) + long /\ i <= size + 1
          BY <1>1, SMT
    <2>3. (size + 1) + long = full BY <1>1, <1>f, SMT
    <2> QED BY <2>1, <2>2, <2>3, <1>3, <1>f
  <1>5. /\ \A i \in 1 .. size : more[i] = payload[i]
        /\ more[size + 1] = long
    <2>1. size + 1 \in 1 .. size + 1 /\ \A i \in 1 .. size : i \in 1 .. size + 1
          BY <1>1, SMT
    <2> HIDE DEF more
    <2> QED BY <2>1, <1>3, <1>4
  <1> HIDE DEF more
  <1>6. PICK ends \in [0 .. n -> 0 .. size] :
           /\ n <= size /\ ends[0] = 0 /\ ends[n] = size
           /\ \A i \in 0 .. n - 1 : ends[i] < size /\ ends[i + 1] = ends[i] + 1 + payload[ends[i] + 1]
        BY <1>f DEF Splits
  <1> DEFINE past == [i \in 0 .. n + 1 |-> IF i = n + 1 THEN full ELSE ends[i]]
  <1>7. past \in [0 .. n + 1 -> 0 .. full]
    <2>1. \A i \in 0 .. n + 1 : i = n + 1 \/ i \in 0 .. n BY SMT
    <2>2. \A x \in 0 .. size : x \in 0 .. full BY <1>1, SMT
    <2>3. full \in 0 .. full BY <1>1, SMT
    <2> QED BY <2>1, <2>2, <2>3
  <1>8. /\ past[n + 1] = full /\ \A i \in 0 .. n : past[i] = ends[i]
    <2>1. n + 1 \in 0 .. n + 1 /\ \A i \in 0 .. n : i \in 0 .. n + 1 /\ i # n + 1 BY SMT
    <2> QED BY <2>1
  <1> HIDE DEF past
  <1>9. past[0] = 0
    <2>1. 0 \in 0 .. n BY SMT
    <2> QED BY <2>1, <1>6, <1>8
  <1>10. ASSUME NEW i \in 0 .. (n + 1) - 1
         PROVE  past[i] < full /\ past[i + 1] = past[i] + 1 + more[past[i] + 1]
    <2>1. CASE i = n
      <3>1. past[i] = size BY <2>1, <1>6, <1>8
      <3>2. past[i + 1] = full BY <2>1, <1>8
      <3> QED BY <3>1, <3>2, <1>1, <1>5, <1>f
    <2>2. CASE i # n
      <3>1. i \in 0 .. n - 1 /\ i \in 0 .. n /\ i + 1 \in 0 .. n BY <2>2, SMT
      <3>2. past[i] = ends[i] /\ past[i + 1] = ends[i + 1] BY <3>1, <1>8
      <3>3. /\ ends[i] \in 0 .. size /\ ends[i] < size
            /\ ends[i + 1] = ends[i] + 1 + payload[ends[i] + 1]
            BY <3>1, <1>6
      <3>4. ends[i] + 1 \in 1 .. size /\ ends[i] < full
        <4> DEFINE x == ends[i]
        <4>1. x \in 0 .. size /\ x < size BY <3>3
        <4> HIDE DEF x
        <4>2. x + 1 \in 1 .. size /\ x < full BY <4>1, <1>1, SMT
        <4> QED BY <4>2 DEF x
      <3>5. more[ends[i] + 1] = payload[ends[i] + 1] BY <3>4, <1>5
      <3>6. past[i] + 1 = ends[i] + 1 BY <3>2
      <3>7. more[past[i] + 1] = payload[ends[i] + 1] BY <3>5, <3>6
      <3>8. past[i + 1] = ends[i] + 1 + payload[ends[i] + 1] BY <3>2, <3>3
      <3> QED BY <3>2, <3>4, <3>7, <3>8
    <2> QED BY <2>1, <2>2
  <1>11. n + 1 <= full BY <1>1, <1>6, SMT
  <1>12. Splits(more, n + 1) BY <1>4, <1>7, <1>8, <1>9, <1>10, <1>11 DEF Splits
  <1> QED BY <1>4, <1>12, <1>f DEF more, head

Builders ==
    [session : {Session}, sequence : Nat, offset : Nat, payload : Seq(Nat), count : Nat]

Publishers ==
    [open : BOOLEAN, builder : Builders, next : Nat, offset : Nat, started : BOOLEAN,
     quiet : Nat]

Datagrams ==
    [whole : BOOLEAN, session : {Session}, sequence : Nat, offset : Nat, count : Nat,
     length : Nat, payload : Seq(Nat)]

\* A builder holds as many blocks as it counts and no more than a datagram carries.
BuilderOk(b) ==
    b \in Builders /\ Len(b.payload) <= MaxPayload /\ Splits(b.payload, b.count)

\* An open builder stands where the publisher's chains stand.
PublisherOk(p) ==
    /\ p \in Publishers /\ BuilderOk(p.builder)
    /\ p.open => p.builder.sequence = p.next /\ p.builder.offset = p.offset

\* A datagram that follows a publisher's chains, and where the chains go on.
Follows(kind, p, packet, after) ==
    /\ packet \in Datagrams /\ WellFramed(kind, packet)
    /\ packet.sequence = p.next /\ packet.offset = p.offset
    /\ after.next = NextSequence(kind, packet)
    /\ TracksStreamOffset(kind) => after.offset = NextStreamOffset(packet)

\* At most one datagram leaves at a time, and it continues the chains.
Continues(kind, p, r) ==
    /\ PublisherOk(r.publisher)
    /\ \/ /\ r.packets = <<>>
          /\ r.publisher.next = p.next /\ r.publisher.offset = p.offset
       \/ \E packet : r.packets = <<packet>> /\ Follows(kind, p, packet, r.publisher)

LEMMA VenueNumbers == MaxPayload \in Nat /\ MaxPayload < EndOfSession
PROOF BY VenueAssumption, SMT

LEMMA NewBuilder ==
    ASSUME NEW sequence \in Nat, NEW offset \in Nat
    PROVE  /\ BuilderOk(Into(Session, sequence, offset))
           /\ Into(Session, sequence, offset).sequence = sequence
           /\ Into(Session, sequence, offset).offset = offset
           /\ Into(Session, sequence, offset).payload = <<>>
           /\ Into(Session, sequence, offset).count = 0
PROOF
  <1> DEFINE b == Into(Session, sequence, offset)
  <1>1. <<>> \in Seq(Nat) /\ Len(<<>>) = 0 OBVIOUS
  <1>2. /\ b \in Builders /\ b.sequence = sequence /\ b.offset = offset
        /\ b.payload = <<>> /\ b.count = 0
        BY <1>1 DEF Into, Builders
  <1> HIDE DEF b
  <1>3. Len(b.payload) <= MaxPayload BY <1>1, <1>2, VenueNumbers, SMT
  <1>4. Splits(b.payload, b.count) BY <1>2, EmptySplits
  <1> QED BY <1>2, <1>3, <1>4 DEF BuilderOk, b

LEMMA BuilderAppends ==
    ASSUME NEW b, BuilderOk(b), NEW body \in Seq(Nat), Fits(b, body, MaxPayload)
    PROVE  /\ BuilderOk(AppendBlock(b, body))
           /\ AppendBlock(b, body).sequence = b.sequence
           /\ AppendBlock(b, body).offset = b.offset
PROOF
  <1> DEFINE more == b.payload \o <<Len(body)>> \o body
             n == b.count
             c == AppendBlock(b, body)
  <1>1. b \in Builders /\ Len(b.payload) <= MaxPayload /\ Splits(b.payload, n) BY DEF BuilderOk
  <1>2. b.payload \in Seq(Nat) /\ n \in Nat BY <1>1 DEF Builders
  <1>3. /\ more \in Seq(Nat) /\ Len(more) = Len(b.payload) + 1 + Len(body)
        /\ Splits(more, n + 1)
        BY <1>1, <1>2, OneMoreBlock
  <1>4. Len(b.payload) + 1 + Len(body) <= MaxPayload BY DEF Fits
  <1>5. c = [b EXCEPT !.payload = more, !.count = n + 1] BY DEF AppendBlock
  <1>6. n + 1 \in Nat BY <1>2
  <1> HIDE DEF more, c
  <1>7. /\ c \in Builders /\ c.payload = more /\ c.count = n + 1
        /\ c.sequence = b.sequence /\ c.offset = b.offset
        BY <1>1, <1>3, <1>5, <1>6 DEF Builders
  <1>8. Len(c.payload) <= MaxPayload BY <1>3, <1>4, <1>7
  <1>9. Splits(c.payload, c.count) BY <1>3, <1>7
  <1> QED BY <1>7, <1>8, <1>9 DEF BuilderOk, c

\* finish(): the datagram of a builder that holds at least one block.
LEMMA Finished ==
    ASSUME NEW kind, NEW b, BuilderOk(b), b.count > 0
    PROVE  LET packet == Finish(kind, b)
           IN  /\ packet \in Datagrams /\ WellFramed(kind, packet)
               /\ packet.sequence = b.sequence /\ packet.offset = b.offset
               /\ packet.count = b.count /\ packet.payload = b.payload
               /\ NextSequence(kind, packet) = b.sequence + b.count
               /\ TracksStreamOffset(kind) =>
                     NextStreamOffset(packet) = b.offset + Len(b.payload)
PROOF
  <1> DEFINE packet == Finish(kind, b)
             length == IF kind = "iextp" THEN Len(b.payload) ELSE 0
  <1>1. b \in Builders /\ Len(b.payload) <= MaxPayload /\ Splits(b.payload, b.count)
        BY DEF BuilderOk
  <1>2. /\ b.session = Session /\ b.sequence \in Nat /\ b.offset \in Nat
        /\ b.payload \in Seq(Nat) /\ b.count \in Nat
        BY <1>1 DEF Builders
  <1>3. Len(b.payload) \in Nat /\ length \in Nat BY <1>2
  <1>4. packet = [whole |-> TRUE, session |-> b.session, sequence |-> b.sequence,
                  offset |-> b.offset, count |-> b.count, length |-> length,
                  payload |-> b.payload]
        BY DEF Finish
  <1> HIDE DEF packet, length
  <1>5. /\ packet.whole = TRUE /\ packet.sequence = b.sequence /\ packet.offset = b.offset
        /\ packet.count = b.count /\ packet.length = length /\ packet.payload = b.payload
        BY <1>4
  <1>6. packet \in Datagrams BY <1>2, <1>3, <1>4 DEF Datagrams
  <1>7. b.count # EndOfSession /\ b.count # 0
    <2>1. b.count <= Len(b.payload) BY <1>1 DEF Splits
    <2>2. EndOfSession \in Nat BY FramingAssumption
    <2> QED BY <1>1, <1>2, <1>3, <2>1, <2>2, VenueNumbers, SMT
  <1>8. MoldKind(packet) = "data"
    <2>1. packet.count # EndOfSession /\ packet.count # 0 BY <1>5, <1>7
    <2> QED BY <2>1 DEF MoldKind
  <1>9. Remaining(kind, packet) = b.count
        BY <1>5, <1>8 DEF Remaining, IextpRemaining, MoldRemaining
  <1>10. NextSequence(kind, packet) = b.sequence + b.count
         BY <1>5, <1>8 DEF NextSequence, IextpNextSequence, MoldNextSequence
  <1>11. TracksStreamOffset(kind) => NextStreamOffset(packet) = b.offset + Len(b.payload)
         BY <1>5 DEF TracksStreamOffset, NextStreamOffset, length
  <1>12. kind = "iextp" => packet.length = Len(packet.payload) BY <1>5 DEF length
  <1>13. WellFramed(kind, packet)
    <2>1. PICK ends \in [0 .. b.count -> 0 .. Len(b.payload)] :
             /\ b.count <= Len(b.payload) /\ ends[0] = 0 /\ ends[b.count] = Len(b.payload)
             /\ \A i \in 0 .. b.count - 1 :
                   ends[i] < Len(b.payload)
                   /\ ends[i + 1] = ends[i] + 1 + b.payload[ends[i] + 1]
          BY <1>1 DEF Splits
    <2> DEFINE n == Remaining(kind, packet)
               size == Len(packet.payload)
    <2>2. n = b.count /\ size = Len(b.payload) /\ packet.payload = b.payload BY <1>5, <1>9
    <2> HIDE DEF n, size
    <2>3. /\ n <= size /\ ends \in [0 .. n -> 0 .. size] /\ ends[0] = 0 /\ ends[n] = size
          /\ \A i \in 0 .. n - 1 :
                ends[i] < size /\ ends[i + 1] = ends[i] + 1 + packet.payload[ends[i] + 1]
          BY <2>1, <2>2
    <2> QED BY <2>3, <1>5, <1>12 DEF WellFramed, n, size
  <1> QED BY <1>5, <1>6, <1>10, <1>11, <1>13 DEF packet

LEMMA EmittedFields ==
    ASSUME NEW p, NEW packets, NEW outcome
    PROVE  /\ Emitted(p, packets, outcome).publisher = p
           /\ Emitted(p, packets, outcome).packets = packets
PROOF BY DEF Emitted

LEMMA Closed ==
    ASSUME NEW p, PublisherOk(p), NEW q, q = [p EXCEPT !.open = FALSE]
    PROVE  PublisherOk(q) /\ q.next = p.next /\ q.offset = p.offset
PROOF
  <1>1. p \in Publishers /\ BuilderOk(p.builder) BY DEF PublisherOk
  <1> DEFINE shut == FALSE
  <1>2. shut \in BOOLEAN OBVIOUS
  <1>f. q = [p EXCEPT !.open = shut] OBVIOUS
  <1> HIDE DEF shut
  <1>3. /\ q \in Publishers /\ q.open = shut /\ q.builder = p.builder
        /\ q.next = p.next /\ q.offset = p.offset
        BY <1>1, <1>2, <1>f DEF Publishers
  <1>4. ~shut BY DEF shut
  <1> QED BY <1>1, <1>3, <1>4 DEF PublisherOk

LEMMA OpenedBuilder ==
    ASSUME NEW p, PublisherOk(p), NEW q, q = OpenBuilder(p)
    PROVE  /\ PublisherOk(q) /\ q.next = p.next /\ q.offset = p.offset /\ q.open
           /\ q.builder.payload = <<>> /\ q.builder.count = 0
PROOF
  <1> DEFINE b == Into(Session, p.next, p.offset)
             up == TRUE
  <1>1. p \in Publishers /\ p.next \in Nat /\ p.offset \in Nat BY DEF PublisherOk, Publishers
  <1>2. /\ BuilderOk(b) /\ b.sequence = p.next /\ b.offset = p.offset
        /\ b.payload = <<>> /\ b.count = 0
        BY <1>1, NewBuilder
  <1>3. b \in Builders BY <1>2 DEF BuilderOk
  <1>4. q = [p EXCEPT !.open = up, !.builder = b] BY DEF OpenBuilder
  <1>5. up \in BOOLEAN /\ up OBVIOUS
  <1> HIDE DEF b, up
  <1>6. /\ q \in Publishers /\ q.open = up /\ q.builder = b /\ q.next = p.next
        /\ q.offset = p.offset
        BY <1>1, <1>3, <1>4, <1>5 DEF Publishers
  <1> QED BY <1>2, <1>5, <1>6 DEF PublisherOk

LEMMA AppendedTo ==
    ASSUME NEW p, PublisherOk(p), p.open, NEW body \in Seq(Nat),
           Fits(p.builder, body, MaxPayload), NEW q, q = AppendTo(p, body)
    PROVE  PublisherOk(q) /\ q.next = p.next /\ q.offset = p.offset
PROOF
  <1> DEFINE b == AppendBlock(p.builder, body)
  <1>1. /\ p \in Publishers /\ BuilderOk(p.builder)
        /\ p.builder.sequence = p.next /\ p.builder.offset = p.offset
        BY DEF PublisherOk
  <1>2. /\ BuilderOk(b) /\ b.sequence = p.next /\ b.offset = p.offset
        BY <1>1, BuilderAppends
  <1>3. b \in Builders BY <1>2 DEF BuilderOk
  <1>4. q = [p EXCEPT !.builder = b] BY DEF AppendTo
  <1> HIDE DEF b
  <1>5. /\ q \in Publishers /\ q.open = p.open /\ q.builder = b /\ q.next = p.next
        /\ q.offset = p.offset
        BY <1>1, <1>3, <1>4 DEF Publishers
  <1> QED BY <1>2, <1>5 DEF PublisherOk

\* flush(): what is pending goes out where the chains stand, and moves them on.
LEMMA FlushContinues ==
    ASSUME NEW kind, NEW p, PublisherOk(p)
    PROVE  Continues(kind, p, Flush(kind, p))
PROOF
  <1> DEFINE r == Flush(kind, p)
  <1>1. CASE ~Pending(p)
    <2> DEFINE q == [p EXCEPT !.open = FALSE]
    <2>1. PublisherOk(q) /\ q.next = p.next /\ q.offset = p.offset BY Closed
    <2>2. r = Emitted(q, <<>>, "ok") BY <1>1 DEF Flush
    <2> HIDE DEF q, r
    <2>3. r.publisher = q /\ r.packets = <<>> BY <2>2, EmittedFields
    <2> QED BY <2>1, <2>3 DEF Continues, r
  <1>2. CASE Pending(p)
    <2> DEFINE b == p.builder
               packet == Finish(kind, b)
               on == Advance(kind, p, packet)
               q == [on EXCEPT !.open = FALSE, !.quiet = 0]
               further == p.next + packet.count
               offset == IF TracksStreamOffset(kind) THEN p.offset + Len(packet.payload)
                         ELSE p.offset
    <2>1. /\ p \in Publishers /\ BuilderOk(b) /\ b.count > 0
          /\ b.sequence = p.next /\ b.offset = p.offset
          BY <1>2 DEF Pending, PublisherOk
    <2>2. /\ p.next \in Nat /\ p.offset \in Nat BY <2>1 DEF Publishers
    <2>3. /\ packet \in Datagrams /\ WellFramed(kind, packet)
          /\ packet.sequence = b.sequence /\ packet.offset = b.offset
          /\ packet.count = b.count /\ packet.payload = b.payload
          /\ NextSequence(kind, packet) = b.sequence + b.count
          /\ TracksStreamOffset(kind) =>
                NextStreamOffset(packet) = b.offset + Len(b.payload)
          BY <2>1, Finished
    <2>4. r = Emitted(q, <<packet>>, "ok") BY <1>2 DEF Flush
    <2>5. on = [p EXCEPT !.next = further, !.offset = offset, !.started = TRUE]
          BY DEF Advance
    <2>6. further \in Nat /\ offset \in Nat
      <3>1. b.count \in Nat /\ b.payload \in Seq(Nat) BY <2>1 DEF BuilderOk, Builders
      <3>2. Len(b.payload) \in Nat BY <3>1
      <3> HIDE DEF b, packet
      <3> QED BY <2>2, <2>3, <3>1, <3>2
    <2> DEFINE started == TRUE
               shut == FALSE
    <2>7. started \in BOOLEAN /\ shut \in BOOLEAN /\ ~shut OBVIOUS
    <2>8. /\ on = [p EXCEPT !.next = further, !.offset = offset, !.started = started]
          /\ q = [on EXCEPT !.open = shut, !.quiet = 0]
          BY <2>5
    <2> HIDE DEF started, shut, on, q, further, offset, packet, r
    <2>9. /\ on \in Publishers /\ on.builder = p.builder /\ on.next = further
          /\ on.offset = offset
          BY <2>1, <2>6, <2>7, <2>8 DEF Publishers
    <2>10. /\ q \in Publishers /\ q.builder = on.builder /\ q.next = on.next
           /\ q.offset = on.offset /\ q.open = shut
           BY <2>7, <2>8, <2>9 DEF Publishers
    <2>11. PublisherOk(q) BY <2>1, <2>7, <2>9, <2>10 DEF PublisherOk
    <2>12. r.publisher = q /\ r.packets = <<packet>> BY <2>4, EmittedFields
    <2>13. q.next = NextSequence(kind, packet) BY <2>1, <2>3, <2>9, <2>10 DEF further
    <2>14. TracksStreamOffset(kind) => q.offset = NextStreamOffset(packet)
           BY <2>1, <2>3, <2>9, <2>10 DEF offset
    <2>15. Follows(kind, p, packet, q) BY <2>1, <2>3, <2>13, <2>14 DEF Follows
    <2> QED BY <2>11, <2>12, <2>15 DEF Continues, r
  <1> QED BY <1>1, <1>2

\* submit(): the message joins the open datagram, or that one goes out first.
LEMMA SubmitContinues ==
    ASSUME NEW kind, NEW p, PublisherOk(p), NEW body \in Seq(Nat)
    PROVE  Continues(kind, p, Submit(kind, p, body))
PROOF
  <1> DEFINE r == Submit(kind, p, body)
             opened == IF p.open THEN p ELSE OpenBuilder(p)
             sent == Flush(kind, opened)
             anew == OpenBuilder(sent.publisher)
  <1>1. PublisherOk(opened) /\ opened.next = p.next /\ opened.offset = p.offset /\ opened.open
    <2>1. CASE p.open BY <2>1
    <2>2. CASE ~p.open BY <2>2, OpenedBuilder
    <2> QED BY <2>1, <2>2
  <1>2. r = IF 1 + Len(body) > MaxPayload THEN Emitted(p, <<>>, "invalid_argument")
            ELSE IF Fits(opened.builder, body, MaxPayload)
            THEN Emitted(AppendTo(opened, body), <<>>, "ok")
            ELSE Emitted(AppendTo(anew, body), sent.packets, "ok")
        BY DEF Submit
  <1>3. Continues(kind, opened, sent)
    <2> HIDE DEF opened
    <2> QED BY <1>1, FlushContinues
  <1> HIDE DEF r, opened, sent
  <1>4. CASE 1 + Len(body) > MaxPayload
    <2>1. r.publisher = p /\ r.packets = <<>> BY <1>2, <1>4, EmittedFields
    <2> QED BY <2>1 DEF Continues, r
  <1>5. CASE ~(1 + Len(body) > MaxPayload) /\ Fits(opened.builder, body, MaxPayload)
    <2> DEFINE q == AppendTo(opened, body)
    <2>1. PublisherOk(q) /\ q.next = p.next /\ q.offset = p.offset BY <1>1, <1>5, AppendedTo
    <2> HIDE DEF q
    <2>2. r.publisher = q /\ r.packets = <<>> BY <1>2, <1>5, EmittedFields DEF q
    <2> QED BY <2>1, <2>2 DEF Continues, r
  <1>6. CASE ~(1 + Len(body) > MaxPayload) /\ ~Fits(opened.builder, body, MaxPayload)
    <2> DEFINE q == AppendTo(anew, body)
    <2>1. PublisherOk(sent.publisher) BY <1>3 DEF Continues
    <2>2. /\ PublisherOk(anew) /\ anew.next = sent.publisher.next
          /\ anew.offset = sent.publisher.offset /\ anew.open /\ anew.builder.payload = <<>>
          BY <2>1, OpenedBuilder
    <2> HIDE DEF anew
    <2>3. Fits(anew.builder, body, MaxPayload)
      <3>1. Len(body) \in Nat /\ Len(<<>>) = 0 OBVIOUS
      <3>2. 0 + 1 + Len(body) <= MaxPayload BY <3>1, <1>6, VenueNumbers, SMT
      <3> QED BY <2>2, <3>1, <3>2 DEF Fits
    <2>4. PublisherOk(q) /\ q.next = sent.publisher.next /\ q.offset = sent.publisher.offset
          BY <2>2, <2>3, AppendedTo
    <2> HIDE DEF q
    <2>5. r.publisher = q /\ r.packets = sent.packets BY <1>2, <1>6, EmittedFields DEF q, anew
    <2>6. CASE /\ sent.packets = <<>> /\ sent.publisher.next = opened.next
               /\ sent.publisher.offset = opened.offset
          BY <1>1, <2>4, <2>5, <2>6 DEF Continues, r
    <2>7. ASSUME NEW packet, sent.packets = <<packet>>,
                 Follows(kind, opened, packet, sent.publisher)
          PROVE  Continues(kind, p, r)
      <3>1. Follows(kind, p, packet, q) BY <1>1, <2>4, <2>7 DEF Follows
      <3> QED BY <2>4, <2>5, <2>7, <3>1 DEF Continues
    <2> QED BY <1>3, <2>6, <2>7 DEF Continues, r
  <1> QED BY <1>4, <1>5, <1>6

\* A heartbeat stands where the chains stand and moves neither.
LEMMA HeartbeatContinues ==
    ASSUME NEW kind, NEW p, PublisherOk(p)
    PROVE  Continues(kind, p, SendHeartbeat(p))
PROOF
  <1> DEFINE packet == EncodeHeartbeat(Session, p.next, p.offset)
             started == TRUE
             shut == FALSE
             q == [p EXCEPT !.open = shut, !.started = started, !.quiet = 0]
             r == SendHeartbeat(p)
  <1>1. p \in Publishers /\ BuilderOk(p.builder) /\ p.next \in Nat /\ p.offset \in Nat
        BY DEF PublisherOk, Publishers
  <1>2. started \in BOOLEAN /\ shut \in BOOLEAN /\ ~shut OBVIOUS
  <1>3. r = Emitted(q, <<packet>>, "ok") BY DEF SendHeartbeat
  <1>4. /\ packet.whole = TRUE /\ packet.session = Session /\ packet.sequence = p.next
        /\ packet.offset = p.offset /\ packet.count = 0 /\ packet.length = 0
        /\ packet.payload = <<>>
        BY DEF EncodeHeartbeat
  <1>5. packet \in Datagrams
    <2>1. <<>> \in Seq(Nat) OBVIOUS
    <2> QED BY <1>1, <2>1 DEF Datagrams, EncodeHeartbeat
  <1> HIDE DEF packet, started, shut
  <1>6. /\ q \in Publishers /\ q.open = shut /\ q.builder = p.builder
        /\ q.next = p.next /\ q.offset = p.offset
        BY <1>1, <1>2 DEF Publishers
  <1> HIDE DEF q, r
  <1>7. PublisherOk(q) BY <1>1, <1>2, <1>6 DEF PublisherOk
  <1>8. r.publisher = q /\ r.packets = <<packet>> BY <1>3, EmittedFields
  <1>9. MoldKind(packet) = "heartbeat"
    <2>1. 0 # EndOfSession BY FramingAssumption, SMT
    <2> QED BY <1>4, <2>1 DEF MoldKind
  <1>10. Remaining(kind, packet) = 0
         BY <1>4, <1>9 DEF Remaining, IextpRemaining, MoldRemaining
  <1>11. NextSequence(kind, packet) = q.next
         BY <1>1, <1>4, <1>6, <1>9 DEF NextSequence, IextpNextSequence, MoldNextSequence
  <1>12. NextStreamOffset(packet) = q.offset BY <1>1, <1>4, <1>6 DEF NextStreamOffset
  <1>13. WellFramed(kind, packet)
    <2>1. Len(packet.payload) = 0 BY <1>4
    <2>2. Splits(packet.payload, 0) BY <1>4, EmptySplits
    <2>3. PICK ends \in [0 .. 0 -> 0 .. Len(packet.payload)] :
             /\ ends[0] = 0 /\ 0 <= Len(packet.payload)
             /\ \A i \in 0 .. 0 - 1 :
                   ends[i] < Len(packet.payload)
                   /\ ends[i + 1] = ends[i] + 1 + packet.payload[ends[i] + 1]
          BY <2>2 DEF Splits
    <2> DEFINE n == Remaining(kind, packet)
               size == Len(packet.payload)
    <2>4. n = 0 /\ size = 0 BY <1>10, <2>1
    <2>5. size = Len(packet.payload) OBVIOUS
    <2> HIDE DEF n, size
    <2>6. /\ n <= size /\ ends \in [0 .. n -> 0 .. size] /\ ends[0] = 0 /\ ends[n] = size
          /\ \A i \in 0 .. n - 1 :
                ends[i] < size /\ ends[i + 1] = ends[i] + 1 + packet.payload[ends[i] + 1]
          BY <2>3, <2>4, <2>5
    <2> QED BY <2>4, <2>5, <2>6, <1>4 DEF WellFramed, n, size
  <1>14. Follows(kind, p, packet, q) BY <1>4, <1>5, <1>11, <1>12, <1>13 DEF Follows
  <1> QED BY <1>7, <1>8, <1>14 DEF Continues, r

LEMMA PollContinues ==
    ASSUME NEW kind, NEW p, PublisherOk(p)
    PROVE  Continues(kind, p, Poll(kind, p))
PROOF
  <1>1. Emitted(p, <<>>, "ok").publisher = p /\ Emitted(p, <<>>, "ok").packets = <<>>
        BY EmittedFields
  <1>2. Continues(kind, p, Emitted(p, <<>>, "ok")) BY <1>1 DEF Continues
  <1> QED BY <1>2, FlushContinues, HeartbeatContinues DEF Poll
\* The publisher stands where the last datagram of the stream ended.
StandsAfter(kind, p, packets) ==
    packets # <<>> =>
        /\ p.next = NextSequence(kind, packets[Len(packets)])
        /\ TracksStreamOffset(kind) => p.offset = NextStreamOffset(packets[Len(packets)])

Chained(kind, packets) ==
    /\ \A i \in 1 .. Len(packets) - 1 :
         /\ packets[i + 1].sequence = NextSequence(kind, packets[i])
         /\ TracksStreamOffset(kind) => packets[i + 1].offset = NextStreamOffset(packets[i])
    /\ \A i \in DOMAIN packets : WellFramed(kind, packets[i])

StreamInv ==
    /\ PublisherOk(pub)
    /\ bodies \in Seq(Seq(Nat))
    /\ stream \in Seq(Datagrams)
    /\ StandsAfter(protocol, pub, stream)
    /\ Chained(protocol, stream)

\* One more datagram where the publisher stands keeps the stream chained.
LEMMA ChainGrows ==
    ASSUME NEW kind, NEW p, NEW packets \in Seq(Datagrams), NEW packet, NEW after,
           StandsAfter(kind, p, packets), Chained(kind, packets),
           Follows(kind, p, packet, after)
    PROVE  LET more == packets \o <<packet>>
           IN  /\ more \in Seq(Datagrams) /\ StandsAfter(kind, after, more)
               /\ Chained(kind, more)
PROOF
  <1> DEFINE more == packets \o <<packet>>
             n == Len(packets)
  <1>1. /\ packet \in Datagrams /\ WellFramed(kind, packet)
        /\ packet.sequence = p.next /\ packet.offset = p.offset
        /\ after.next = NextSequence(kind, packet)
        /\ TracksStreamOffset(kind) => after.offset = NextStreamOffset(packet)
        BY DEF Follows
  <1>2. /\ n \in Nat /\ more \in Seq(Datagrams) /\ Len(more) = n + 1 /\ more[n + 1] = packet
        /\ \A i \in 1 .. n : more[i] = packets[i]
        /\ DOMAIN more = 1 .. n + 1 /\ DOMAIN packets = 1 .. n
    <2>1. more = Append(packets, packet) OBVIOUS
    <2> HIDE DEF more
    <2> QED BY <1>1, <2>1
  <1>3. n + 1 # 0 /\ more # <<>> BY <1>2
  <1>4. n = 0 => packets = <<>> OBVIOUS
  <1>f. n = Len(packets) OBVIOUS
  <1> HIDE DEF n, more
  <1>5. StandsAfter(kind, after, more) BY <1>1, <1>2 DEF StandsAfter
  <1>6. ASSUME NEW i \in 1 .. n
        PROVE  /\ more[i + 1].sequence = NextSequence(kind, more[i])
               /\ TracksStreamOffset(kind) => more[i + 1].offset = NextStreamOffset(more[i])
    <2>1. CASE i = n
      <3>1. packets # <<>> BY <1>2, <1>f
      <3>2. more[i] = packets[n] /\ more[i + 1] = packet BY <2>1, <1>2
      <3>3. /\ p.next = NextSequence(kind, packets[n])
            /\ TracksStreamOffset(kind) => p.offset = NextStreamOffset(packets[n])
            BY <3>1, <1>f DEF StandsAfter
      <3> QED BY <3>2, <3>3, <1>1
    <2>2. CASE i # n
      <3>1. i \in 1 .. n - 1 /\ i + 1 \in 1 .. n BY <2>2, <1>2, SMT
      <3>2. more[i] = packets[i] /\ more[i + 1] = packets[i + 1] BY <3>1, <1>2
      <3>3. /\ packets[i + 1].sequence = NextSequence(kind, packets[i])
            /\ TracksStreamOffset(kind) =>
                  packets[i + 1].offset = NextStreamOffset(packets[i])
            BY <3>1, <1>f DEF Chained
      <3> QED BY <3>2, <3>3
    <2> QED BY <2>1, <2>2
  <1>7. \A i \in 1 .. n + 1 : WellFramed(kind, more[i])
    <2>1. \A i \in 1 .. n : WellFramed(kind, packets[i]) BY <1>2 DEF Chained
    <2>2. \A i \in 1 .. n + 1 : i = n + 1 \/ i \in 1 .. n BY <1>2, SMT
    <2> QED BY <1>1, <1>2, <2>1, <2>2
  <1>8. Len(more) - 1 = n BY <1>2
  <1>9. Chained(kind, more) BY <1>2, <1>6, <1>7, <1>8 DEF Chained
  <1> QED BY <1>2, <1>5, <1>9 DEF more

\* Whatever the publisher emits continues the stream.
LEMMA PublishedContinues ==
    ASSUME NEW r, Published(r), Continues(protocol, pub, r), StreamInv,
           protocol' = protocol
    PROVE  /\ PublisherOk(pub') /\ stream' \in Seq(Datagrams)
           /\ StandsAfter(protocol', pub', stream') /\ Chained(protocol', stream')
PROOF
  <1>1. pub' = r.publisher /\ stream' = stream \o r.packets BY DEF Published
  <1>2. /\ stream \in Seq(Datagrams) /\ StandsAfter(protocol, pub, stream)
        /\ Chained(protocol, stream)
        BY DEF StreamInv
  <1>3. PublisherOk(pub') BY <1>1 DEF Continues
  <1>4. CASE /\ r.packets = <<>>
             /\ r.publisher.next = pub.next /\ r.publisher.offset = pub.offset
    <2>1. stream' = stream BY <1>1, <1>2, <1>4
    <2>2. StandsAfter(protocol, pub', stream) BY <1>1, <1>2, <1>4 DEF StandsAfter
    <2> QED BY <1>2, <1>3, <2>1, <2>2
  <1>5. ASSUME NEW packet, r.packets = <<packet>>,
               Follows(protocol, pub, packet, r.publisher)
        PROVE  /\ stream' \in Seq(Datagrams) /\ StandsAfter(protocol, pub', stream')
               /\ Chained(protocol, stream')
    <2>1. stream' = stream \o <<packet>> BY <1>1, <1>5
    <2>2. /\ stream \o <<packet>> \in Seq(Datagrams)
          /\ StandsAfter(protocol, r.publisher, stream \o <<packet>>)
          /\ Chained(protocol, stream \o <<packet>>)
          BY <1>2, <1>5, ChainGrows
    <2> QED BY <1>1, <2>1, <2>2
  <1> QED BY <1>3, <1>4, <1>5 DEF Continues

LEMMA BodyIsNumbers ==
    ASSUME NEW size \in BodySizes, bodies \in Seq(Seq(Nat))
    PROVE  [i \in 1 .. size |-> EndOfSession + Len(bodies) + 1] \in Seq(Nat)
PROOF
  <1> DEFINE value == EndOfSession + Len(bodies) + 1
  <1>1. size \in Nat BY FeedAssumption
  <1>2. Len(bodies) \in Nat /\ EndOfSession \in Nat BY FramingAssumption
  <1>3. value \in Nat BY <1>2
  <1> HIDE DEF value
  <1>4. [i \in 1 .. size |-> value] \in [1 .. size -> Nat] BY <1>3
  <1>5. \A f \in [1 .. size -> Nat] : f \in Seq(Nat) BY <1>1
  <1>6. [i \in 1 .. size |-> value] \in Seq(Nat) BY <1>4, <1>5
  <1> QED BY <1>6 DEF value

LEMMA StreamStep == StreamInv /\ [Next]_vars => StreamInv'
PROOF
  <1> SUFFICES ASSUME StreamInv, [Next]_vars PROVE StreamInv' OBVIOUS
  <1>i. /\ PublisherOk(pub) /\ bodies \in Seq(Seq(Nat)) /\ stream \in Seq(Datagrams)
        /\ StandsAfter(protocol, pub, stream) /\ Chained(protocol, stream)
        BY DEF StreamInv
  <1>1. CASE UNCHANGED <<protocol, pub, bodies, stream>> BY <1>1, <1>i DEF StreamInv
  <1>2. ASSUME NEW r, Published(r), Continues(protocol, pub, r), protocol' = protocol,
               bodies' \in Seq(Seq(Nat))
        PROVE  StreamInv'
    <2>1. /\ PublisherOk(pub') /\ stream' \in Seq(Datagrams)
          /\ StandsAfter(protocol', pub', stream') /\ Chained(protocol', stream')
          BY <1>2, PublishedContinues
    <2> QED BY <1>2, <2>1 DEF StreamInv
  <1>3. CASE SubmitMessage
    <2>1. PICK size \in BodySizes :
             LET body == [i \in 1 .. size |-> EndOfSession + Len(bodies) + 1]
                 result == Submit(protocol, pub, body)
             IN  /\ Published(result)
                 /\ bodies' = IF result.outcome = "ok" THEN Append(bodies, body) ELSE bodies
          BY <1>3 DEF SubmitMessage
    <2> DEFINE body == [i \in 1 .. size |-> EndOfSession + Len(bodies) + 1]
               r == Submit(protocol, pub, body)
    <2>2. body \in Seq(Nat) BY <1>i, BodyIsNumbers
    <2>3. Published(r) /\ protocol' = protocol
          /\ bodies' = IF r.outcome = "ok" THEN Append(bodies, body) ELSE bodies
          BY <2>1, <1>3 DEF SubmitMessage
    <2> HIDE DEF body
    <2>4. Continues(protocol, pub, r) BY <1>i, <2>2, SubmitContinues
    <2> HIDE DEF r
    <2>5. bodies' \in Seq(Seq(Nat)) BY <1>i, <2>2, <2>3
    <2> QED BY <1>2, <2>3, <2>4, <2>5
  <1>4. CASE FlushPublisher
    <2>1. Continues(protocol, pub, Flush(protocol, pub)) BY <1>i, FlushContinues
    <2>2. /\ Published(Flush(protocol, pub)) /\ protocol' = protocol /\ bodies' = bodies
          BY <1>4, Zenon DEF FlushPublisher
    <2> QED BY <1>2, <1>i, <2>1, <2>2
  <1>5. CASE PollPublisher
    <2>1. Continues(protocol, pub, Poll(protocol, pub)) BY <1>i, PollContinues
    <2>2. /\ Published(Poll(protocol, pub)) /\ protocol' = protocol /\ bodies' = bodies
          BY <1>5, Zenon DEF PollPublisher
    <2> QED BY <1>2, <1>i, <2>1, <2>2
  <1>6. CASE Quiet
    <2>1. /\ pub' = [pub EXCEPT !.quiet = pub.quiet + 1]
          /\ UNCHANGED <<protocol, bodies, stream>>
          BY <1>6 DEF Quiet
    <2>2. pub \in Publishers /\ pub.quiet + 1 \in Nat BY <1>i DEF PublisherOk, Publishers
    <2>3. /\ pub' \in Publishers /\ pub'.open = pub.open /\ pub'.builder = pub.builder
          /\ pub'.next = pub.next /\ pub'.offset = pub.offset
          BY <2>1, <2>2 DEF Publishers
    <2>4. PublisherOk(pub') BY <1>i, <2>3 DEF PublisherOk
    <2>5. StandsAfter(protocol, pub', stream) BY <1>i, <2>3 DEF StandsAfter
    <2> QED BY <1>i, <2>1, <2>4, <2>5 DEF StreamInv
  <1>7. CASE FinishStream
    <2>1. Continues(protocol, pub, Flush(protocol, pub)) BY <1>i, FlushContinues
    <2>2. /\ Published(Flush(protocol, pub)) /\ protocol' = protocol /\ bodies' = bodies
          BY <1>7, Zenon DEF FinishStream
    <2> QED BY <1>2, <1>i, <2>1, <2>2
  <1>8. CASE OfferPacket BY <1>1, <1>8 DEF OfferPacket, venue
  <1>9. CASE FlushLine BY <1>1, <1>9 DEF FlushLine, venue
  <1>10. CASE AskFacility BY <1>1, <1>10 DEF AskFacility, venue
  <1>11. CASE AskSnapshot BY <1>1, <1>11 DEF AskSnapshot, venue
  <1>12. CASE SnapshotWaits BY <1>1, <1>12 DEF SnapshotWaits, venue
  <1>13. CASE SnapshotArrives BY <1>1, <1>13 DEF SnapshotArrives, venue
  <1>14. CASE UNCHANGED vars BY <1>1, <1>14 DEF vars, venue
  <1> QED BY <1>3, <1>4, <1>5, <1>6, <1>7, <1>8, <1>9, <1>10, <1>11, <1>12, <1>13, <1>14
          DEF Next

LEMMA StreamHoldsAtFirst == Init => StreamInv
PROOF
  <1> SUFFICES ASSUME Init PROVE StreamInv OBVIOUS
  <1>1. pub = NewPublisher(1) /\ bodies = <<>> /\ stream = <<>> BY DEF Init
  <1>2. BuilderOk(Into(Session, 0, 0)) BY NewBuilder
  <1>3. Into(Session, 0, 0) \in Builders BY <1>2 DEF BuilderOk
  <1> DEFINE b == Into(Session, 0, 0)
             shut == FALSE
  <1>4. shut \in BOOLEAN /\ ~shut /\ b \in Builders /\ BuilderOk(b) BY <1>2, <1>3
  <1>5. pub = [open |-> shut, builder |-> b, next |-> 1, offset |-> 0,
               started |-> shut, quiet |-> 0]
        BY <1>1 DEF NewPublisher
  <1> HIDE DEF b, shut
  <1>6. pub \in Publishers /\ pub.open = shut /\ pub.builder = b BY <1>4, <1>5 DEF Publishers
  <1>7. PublisherOk(pub) BY <1>4, <1>6 DEF PublisherOk
  <1>8. <<>> \in Seq(Seq(Nat)) /\ <<>> \in Seq(Datagrams) /\ Len(<<>>) = 0 OBVIOUS
  <1>9. 1 .. 0 - 1 = {} /\ 1 .. 0 = {} BY SMT
  <1>10. Chained(protocol, <<>>) BY <1>8, <1>9 DEF Chained
  <1>11. StandsAfter(protocol, pub, <<>>) BY DEF StandsAfter
  <1> QED BY <1>1, <1>7, <1>8, <1>10, <1>11 DEF StreamInv

\* However submit, flush and poll are interleaved, and whatever the sizes of the
\* bodies and of a datagram, what the publisher emits is one chain of well framed
\* datagrams: each starts at the sequence and the stream offset where the one
\* before it ended.
THEOREM FeedStreamChains == Spec => []StreamChains
PROOF
  <1>1. Init => StreamInv BY StreamHoldsAtFirst
  <1>2. StreamInv /\ [Next]_vars => StreamInv' BY StreamStep
  <1>3. StreamInv => StreamChains BY DEF StreamInv, Chained, StreamChains
  <1> QED BY <1>1, <1>2, <1>3, PTL DEF Spec
-----------------------------------------------------------------------------
(* Nothing offered to the injector vanishes.                                 *)

Slot == [packet : Datagrams, source : Nat, release : Int]

Injectors ==
    [delayed : Seq(Slot), offered : Nat, emitted : Nat, dropped : Nat,
     duplicated : Nat, held : Nat, mutated : Nat, notApplicable : Nat]

\* What left an injector, with what is still in it, less what came in.
Balance(inj) ==
    inj.emitted + inj.dropped + Len(inj.delayed) - inj.offered - inj.duplicated

\* An injector after a call, and the packets the call let through.
Outcome(r, balance) ==
    /\ r.injector \in Injectors /\ Balance(r.injector) = balance
    /\ \E E : r.out \in Seq(E)

LEMMA InjectorNumbers ==
    ASSUME NEW inj \in Injectors
    PROVE  /\ inj.delayed \in Seq(Slot) /\ Len(inj.delayed) \in Nat
           /\ inj.offered \in Nat /\ inj.emitted \in Nat /\ inj.dropped \in Nat
           /\ inj.duplicated \in Nat /\ inj.held \in Nat /\ inj.mutated \in Nat
           /\ inj.notApplicable \in Nat
PROOF
  <1>1. inj.delayed \in Seq(Slot) BY DEF Injectors
  <1>2. Len(inj.delayed) \in Nat BY <1>1
  <1> QED BY <1>1, <1>2 DEF Injectors

\* deliver(): every packet handed over is counted.
LEMMA DeliverCounts ==
    ASSUME NEW inj \in Injectors, NEW E, NEW out \in Seq(E)
    PROVE  Outcome(Deliver(inj, out), Balance(inj) + Len(out))
PROOF
  <1> DEFINE n == Len(out)
             after == [inj EXCEPT !.emitted = inj.emitted + n]
             r == Deliver(inj, out)
  <1>1. n \in Nat OBVIOUS
  <1>2. r.injector = after /\ r.out = out BY DEF Deliver
  <1> HIDE DEF n
  <1>3. inj.emitted + n \in Nat BY <1>1, InjectorNumbers
  <1>4. /\ after \in Injectors /\ after.emitted = inj.emitted + n
        /\ after.dropped = inj.dropped /\ after.delayed = inj.delayed
        /\ after.offered = inj.offered /\ after.duplicated = inj.duplicated
        BY <1>3 DEF Injectors
  <1> HIDE DEF after, r
  <1>5. Balance(after) = Balance(inj) + n
    <2> DEFINE e == inj.emitted
               d == inj.dropped
               l == Len(inj.delayed)
               o == inj.offered
               u == inj.duplicated
    <2>1. e \in Nat /\ d \in Nat /\ l \in Nat /\ o \in Nat /\ u \in Nat BY InjectorNumbers
    <2>2. Balance(inj) = e + d + l - o - u BY DEF Balance
    <2>3. Balance(after) = (e + n) + d + l - o - u BY <1>4 DEF Balance
    <2> HIDE DEF e, d, l, o, u
    <2> QED BY <1>1, <2>1, <2>2, <2>3, SMT
  <1> QED BY <1>2, <1>4, <1>5 DEF Outcome, n, r

SiftStep(h, place, base, seq) ==
    h = [s \in SUBSET DOMAIN seq |->
           IF s = {} THEN base ELSE Release(place, h[s \ {Max(s)}], seq[Max(s)])]

Sifted == [late : Seq([packet : Datagrams, source : Nat, cause : {"delay"}]), kept : Seq(Slot)]

\* One slot more is late or kept.
LEMMA ReleaseSifts ==
    ASSUME NEW place, NEW sifted \in Sifted, NEW slot \in Slot
    PROVE  LET r == Release(place, sifted, slot)
           IN  /\ r \in Sifted
               /\ Len(r.late) + Len(r.kept) = Len(sifted.late) + Len(sifted.kept) + 1
PROOF
  <1> DEFINE Gone == [packet : Datagrams, source : Nat, cause : {"delay"}]
             gone == Late(slot)
             r == Release(place, sifted, slot)
  <1>1. gone \in Gone
    <2>1. slot.packet \in Datagrams /\ slot.source \in Nat BY DEF Slot
    <2> QED BY <2>1 DEF Late, Emission
  <1>s. Sifted = [late : Seq(Gone), kept : Seq(Slot)] BY DEF Sifted
  <1> HIDE DEF gone, Gone
  <1>2. sifted.late \in Seq(Gone) /\ sifted.kept \in Seq(Slot) BY <1>s
  <1>3. /\ Append(sifted.late, gone) \in Seq(Gone)
        /\ Len(Append(sifted.late, gone)) = Len(sifted.late) + 1
        /\ Append(sifted.kept, slot) \in Seq(Slot)
        /\ Len(Append(sifted.kept, slot)) = Len(sifted.kept) + 1
        /\ Len(sifted.late) \in Nat /\ Len(sifted.kept) \in Nat
        BY <1>1, <1>2
  <1>4. CASE slot.release <= place
    <2>1. r = [sifted EXCEPT !.late = Append(sifted.late, gone)]
          BY <1>4 DEF Release, gone
    <2> DEFINE more == Append(sifted.late, gone)
    <2> HIDE DEF r, more
    <2>2. r = [sifted EXCEPT !.late = more] BY <2>1 DEF more
    <2>m. more \in Seq(Gone) BY <1>3 DEF more
    <2>3. r \in Sifted /\ r.late = more /\ r.kept = sifted.kept
          BY <1>s, <2>2, <2>m
    <2>4. Len(more) = Len(sifted.late) + 1 BY <1>3 DEF more
    <2> DEFINE a == Len(sifted.late)
               b == Len(sifted.kept)
    <2>5. a \in Nat /\ b \in Nat /\ Len(r.late) = a + 1 /\ Len(r.kept) = b
          BY <1>3, <2>3, <2>4
    <2>6. Len(r.late) + Len(r.kept) = a + b + 1
      <3> HIDE DEF a, b
      <3> QED BY <2>5, SMT
    <2> QED BY <2>3, <2>6 DEF r
  <1>5. CASE ~(slot.release <= place)
    <2>1. r = [sifted EXCEPT !.kept = Append(sifted.kept, slot)] BY <1>5 DEF Release
    <2> DEFINE more == Append(sifted.kept, slot)
    <2> HIDE DEF r, more
    <2>2. r = [sifted EXCEPT !.kept = more] BY <2>1 DEF more
    <2>m. more \in Seq(Slot) BY <1>3 DEF more
    <2>3. r \in Sifted /\ r.kept = more /\ r.late = sifted.late BY <1>s, <2>2, <2>m
    <2>4. Len(more) = Len(sifted.kept) + 1 BY <1>3 DEF more
    <2> DEFINE a == Len(sifted.late)
               b == Len(sifted.kept)
    <2>5. a \in Nat /\ b \in Nat /\ Len(r.kept) = b + 1 /\ Len(r.late) = a
          BY <1>3, <2>3, <2>4
    <2>6. Len(r.late) + Len(r.kept) = a + b + 1
      <3> HIDE DEF a, b
      <3> QED BY <2>5, SMT
    <2> QED BY <2>3, <2>6 DEF r
  <1> QED BY <1>4, <1>5

SiftedBy(place, slots) ==
    FoldLeft(LAMBDA s, slot : Release(place, s, slot), [late |-> <<>>, kept |-> <<>>], slots)

\* release_due(): every slot is released or kept, and none is both.
LEMMA EverySlotIsSifted ==
    ASSUME NEW place, NEW slots \in Seq(Slot)
    PROVE  LET sifted == SiftedBy(place, slots)
           IN  sifted \in Sifted /\ Len(sifted.late) + Len(sifted.kept) = Len(slots)
PROOF
  <1> DEFINE n == Len(slots)
             base == [late |-> <<>>, kept |-> <<>>]
             f == [p \in Sifted \X Slot |-> Release(place, p[1], p[2])]
             sift == CHOOSE iter : SiftStep(iter, place, base, slots)
             sifted == SiftedBy(place, slots)
  <1>1. n \in Nat /\ DOMAIN slots = 1 .. n /\ slots \in [1 .. n -> Slot] OBVIOUS
  <1>2. base \in Sifted /\ Len(base.late) + Len(base.kept) = 0
    <2>1. <<>> \in Seq(Slot) /\ Len(<<>>) = 0 OBVIOUS
    <2>2. <<>> \in Seq([packet : Datagrams, source : Nat, cause : {"delay"}]) OBVIOUS
    <2> QED BY <2>1, <2>2 DEF Sifted
  <1> HIDE DEF base
  <1>3. f \in [Sifted \X Slot -> Sifted]
        /\ \A b \in Sifted, m \in Slot : f[<<b, m>>] = Release(place, b, m)
    <2>1. \A p \in Sifted \X Slot : Release(place, p[1], p[2]) \in Sifted BY ReleaseSifts
    <2> QED BY <2>1
  <1> HIDE DEF f, n
  <1>4. PICK h : FoldsInto(h, Sifted, f, base, slots, n) BY <1>1, <1>2, <1>3, FoldExists
  <1>5. \A s \in SUBSET (1 .. n) : s # {} => Max(s) \in s /\ s \ {Max(s)} \in SUBSET (1 .. n)
        BY <1>1, GreatestNumber
  <1>6. SiftStep(h, place, base, slots)
    <2>1. ASSUME NEW s \in SUBSET (1 .. n)
          PROVE  h[s] = IF s = {} THEN base
                        ELSE Release(place, h[s \ {Max(s)}], slots[Max(s)])
      <3>1. h \in [SUBSET (1 .. n) -> Sifted]
            /\ h[s] = IF s = {} THEN base ELSE f[<<h[s \ {Max(s)}], slots[Max(s)]>>]
            BY <1>4 DEF FoldsInto
      <3>2. CASE s # {}
        <4>1. h[s \ {Max(s)}] \in Sifted /\ slots[Max(s)] \in Slot BY <3>1, <3>2, <1>1, <1>5
        <4> QED BY <4>1, <3>1, <3>2, <1>3
      <3> QED BY <3>1, <3>2
    <2>2. h = [s \in SUBSET (1 .. n) |-> h[s]] BY <1>4 DEF FoldsInto
    <2> QED BY <2>1, <2>2, <1>1 DEF SiftStep
  <1>7. SiftStep(sift, place, base, slots) BY <1>6, Zenon
  <1>8. sifted = sift[1 .. n] BY <1>1, Zenon DEF SiftStep, SiftedBy, FoldLeft, MapThenFoldSet, base
  <1> HIDE DEF sift, sifted
  <1>9. \A s \in SUBSET (1 .. n) :
           sift[s] = IF s = {} THEN base
                     ELSE Release(place, sift[s \ {Max(s)}], slots[Max(s)])
    <2>1. sift = [s \in SUBSET (1 .. n) |->
                    IF s = {} THEN base
                    ELSE Release(place, sift[s \ {Max(s)}], slots[Max(s)])]
          BY <1>1, <1>7, Zenon DEF SiftStep
    <2> QED BY <2>1
  <1> DEFINE Whole(k) == sift[1 .. k] \in Sifted
                         /\ Len(sift[1 .. k].late) + Len(sift[1 .. k].kept) = k
             S == {k \in Nat : k <= n => Whole(k)}
  <1>10. 0 \in S
    <2>1. 1 .. 0 = {} /\ 1 .. 0 \in SUBSET (1 .. n) BY SMT
    <2>2. sift[1 .. 0] = base BY <2>1, <1>9
    <2> QED BY <2>2, <1>2
  <1>11. \A k \in S : k + 1 \in S
    <2> HIDE DEF Whole
    <2> SUFFICES ASSUME NEW k \in Nat, k <= n => Whole(k), k + 1 <= n PROVE Whole(k + 1)
        OBVIOUS
    <2> USE DEF Whole
    <2>1. k <= n /\ k + 1 \in 1 .. n /\ (k + 1) - 1 = k BY <1>1, SMT
    <2>2. /\ 1 .. k + 1 \in SUBSET (1 .. n) /\ 1 .. k + 1 # {} /\ Max(1 .. k + 1) = k + 1
          /\ (1 .. k + 1) \ {k + 1} = 1 .. (k + 1) - 1
          BY <1>1, <2>1, FirstIndices
    <2>3. sift[1 .. k + 1] = Release(place, sift[1 .. k], slots[k + 1])
          BY <2>1, <2>2, <1>9
    <2>4. Whole(k) /\ slots[k + 1] \in Slot BY <2>1, <1>1
    <2>5. /\ Release(place, sift[1 .. k], slots[k + 1]) \in Sifted
          /\ Len(Release(place, sift[1 .. k], slots[k + 1]).late)
                + Len(Release(place, sift[1 .. k], slots[k + 1]).kept) = k + 1
          BY <2>4, ReleaseSifts
    <2> QED BY <2>3, <2>5
  <1> HIDE DEF Whole
  <1>12. S = Nat
    <2>1. S \in SUBSET Nat OBVIOUS
    <2> HIDE DEF S
    <2> QED BY <2>1, <1>10, <1>11, NumbersByInduction
  <1>13. n \in S /\ n <= n BY <1>1, <1>12
  <1>14. Whole(n) BY <1>13
  <1> QED BY <1>8, <1>14 DEF n, sifted, base, Whole
\* What each of the injector's counters means for its balance.
LEMMA InjectorEdits ==
    ASSUME NEW inj \in Injectors, NEW q
    PROVE  /\ q = [inj EXCEPT !.offered = inj.offered + 1] =>
                 q \in Injectors /\ Balance(q) = Balance(inj) - 1 /\ q.delayed = inj.delayed
           /\ q = [inj EXCEPT !.dropped = inj.dropped + 1] =>
                 q \in Injectors /\ Balance(q) = Balance(inj) + 1
           /\ q = [inj EXCEPT !.duplicated = inj.duplicated + 1] =>
                 q \in Injectors /\ Balance(q) = Balance(inj) - 1
           /\ q = [inj EXCEPT !.notApplicable = inj.notApplicable + 1] =>
                 q \in Injectors /\ Balance(q) = Balance(inj)
           /\ q = [inj EXCEPT !.mutated = inj.mutated + 1] =>
                 q \in Injectors /\ Balance(q) = Balance(inj)
           /\ q = [inj EXCEPT !.held = inj.held + 1] =>
                 q \in Injectors /\ Balance(q) = Balance(inj) /\ q.delayed = inj.delayed
           /\ \A slots \in Seq(Slot) :
                 q = [inj EXCEPT !.delayed = slots] =>
                    /\ q \in Injectors /\ q.delayed = slots
                    /\ Balance(q) = Balance(inj) - Len(inj.delayed) + Len(slots)
PROOF
  <1> DEFINE e == inj.emitted
             d == inj.dropped
             l == Len(inj.delayed)
             o == inj.offered
             u == inj.duplicated
  <1>1. e \in Nat /\ d \in Nat /\ l \in Nat /\ o \in Nat /\ u \in Nat
        BY InjectorNumbers
  <1>2. Balance(inj) = e + d + l - o - u BY DEF Balance
  <1>3. ASSUME q = [inj EXCEPT !.offered = inj.offered + 1]
        PROVE  q \in Injectors /\ Balance(q) = Balance(inj) - 1 /\ q.delayed = inj.delayed
    <2>1. inj.offered + 1 \in Nat BY <1>1
    <2>2. /\ q \in Injectors /\ q.offered = o + 1 /\ q.emitted = e /\ q.dropped = d
          /\ q.duplicated = u /\ q.delayed = inj.delayed
          BY <1>3, <2>1 DEF Injectors
    <2>3. Balance(q) = e + d + l - (o + 1) - u BY <2>2 DEF Balance
    <2>4. Balance(q) = Balance(inj) - 1
      <3> HIDE DEF e, d, l, o, u
      <3> QED BY <1>1, <1>2, <2>3, SMT
    <2> QED BY <2>2, <2>4
  <1>4. ASSUME q = [inj EXCEPT !.dropped = inj.dropped + 1]
        PROVE  q \in Injectors /\ Balance(q) = Balance(inj) + 1
    <2>1. inj.dropped + 1 \in Nat BY <1>1
    <2>2. /\ q \in Injectors /\ q.offered = o /\ q.emitted = e /\ q.dropped = d + 1
          /\ q.duplicated = u /\ q.delayed = inj.delayed
          BY <1>4, <2>1 DEF Injectors
    <2>3. Balance(q) = e + (d + 1) + l - o - u BY <2>2 DEF Balance
    <2>4. Balance(q) = Balance(inj) + 1
      <3> HIDE DEF e, d, l, o, u
      <3> QED BY <1>1, <1>2, <2>3, SMT
    <2> QED BY <2>2, <2>4
  <1>5. ASSUME q = [inj EXCEPT !.duplicated = inj.duplicated + 1]
        PROVE  q \in Injectors /\ Balance(q) = Balance(inj) - 1
    <2>1. inj.duplicated + 1 \in Nat BY <1>1
    <2>2. /\ q \in Injectors /\ q.offered = o /\ q.emitted = e /\ q.dropped = d
          /\ q.duplicated = u + 1 /\ q.delayed = inj.delayed
          BY <1>5, <2>1 DEF Injectors
    <2>3. Balance(q) = e + d + l - o - (u + 1) BY <2>2 DEF Balance
    <2>4. Balance(q) = Balance(inj) - 1
      <3> HIDE DEF e, d, l, o, u
      <3> QED BY <1>1, <1>2, <2>3, SMT
    <2> QED BY <2>2, <2>4
  <1>6. ASSUME q = [inj EXCEPT !.notApplicable = inj.notApplicable + 1]
        PROVE  q \in Injectors /\ Balance(q) = Balance(inj)
    <2>1. inj.notApplicable + 1 \in Nat BY InjectorNumbers
    <2>2. /\ q \in Injectors /\ q.offered = o /\ q.emitted = e /\ q.dropped = d
          /\ q.duplicated = u /\ q.delayed = inj.delayed
          BY <1>6, <2>1 DEF Injectors
    <2> QED BY <1>2, <2>2 DEF Balance
  <1>7. ASSUME q = [inj EXCEPT !.mutated = inj.mutated + 1]
        PROVE  q \in Injectors /\ Balance(q) = Balance(inj)
    <2>1. inj.mutated + 1 \in Nat BY InjectorNumbers
    <2>2. /\ q \in Injectors /\ q.offered = o /\ q.emitted = e /\ q.dropped = d
          /\ q.duplicated = u /\ q.delayed = inj.delayed
          BY <1>7, <2>1 DEF Injectors
    <2> QED BY <1>2, <2>2 DEF Balance
  <1>8. ASSUME q = [inj EXCEPT !.held = inj.held + 1]
        PROVE  q \in Injectors /\ Balance(q) = Balance(inj) /\ q.delayed = inj.delayed
    <2>1. inj.held + 1 \in Nat BY InjectorNumbers
    <2>2. /\ q \in Injectors /\ q.offered = o /\ q.emitted = e /\ q.dropped = d
          /\ q.duplicated = u /\ q.delayed = inj.delayed
          BY <1>8, <2>1 DEF Injectors
    <2> QED BY <1>2, <2>2 DEF Balance
  <1>9. ASSUME NEW slots \in Seq(Slot), q = [inj EXCEPT !.delayed = slots]
        PROVE  /\ q \in Injectors /\ q.delayed = slots
               /\ Balance(q) = Balance(inj) - Len(inj.delayed) + Len(slots)
    <2> DEFINE more == Len(slots)
    <2>1. more \in Nat OBVIOUS
    <2>2. /\ q \in Injectors /\ q.offered = o /\ q.emitted = e /\ q.dropped = d
          /\ q.duplicated = u /\ q.delayed = slots
          BY <1>9 DEF Injectors
    <2>3. Balance(q) = e + d + more - o - u BY <2>2 DEF Balance
    <2>4. Balance(q) = Balance(inj) - l + more
      <3> HIDE DEF e, d, l, o, u, more
      <3> QED BY <1>1, <1>2, <2>1, <2>3, SMT
    <2> QED BY <2>2, <2>4
  <1> QED BY <1>3, <1>4, <1>5, <1>6, <1>7, <1>8, <1>9

LEMMA BalanceIsANumber == \A inj \in Injectors : Balance(inj) \in Int
PROOF
  <1> TAKE inj \in Injectors
  <1> DEFINE l == Len(inj.delayed)
  <1>1. /\ inj.emitted \in Nat /\ inj.dropped \in Nat /\ l \in Nat /\ inj.offered \in Nat
        /\ inj.duplicated \in Nat
        BY InjectorNumbers
  <1>2. Balance(inj) = inj.emitted + inj.dropped + l - inj.offered - inj.duplicated
        BY DEF Balance
  <1> HIDE DEF l
  <1> QED BY <1>1, <1>2

\* release_due() lets packets out and loses none.
LEMMA ReleaseDueKeeps ==
    ASSUME NEW inj \in Injectors, NEW place
    PROVE  Outcome(ReleaseDue(inj, place), Balance(inj))
PROOF
  <1> DEFINE sifted == SiftedBy(place, inj.delayed)
             q == [inj EXCEPT !.delayed = sifted.kept]
  <1>1. inj.delayed \in Seq(Slot) /\ Len(inj.delayed) \in Nat BY InjectorNumbers
  <1>2. sifted \in Sifted /\ Len(sifted.late) + Len(sifted.kept) = Len(inj.delayed)
        BY <1>1, EverySlotIsSifted
  <1>3. ReleaseDue(inj, place) = Deliver(q, sifted.late) BY DEF ReleaseDue, SiftedBy
  <1> HIDE DEF sifted
  <1> DEFINE E == [packet : Datagrams, source : Nat, cause : {"delay"}]
  <1>4. sifted.late \in Seq(E) /\ sifted.kept \in Seq(Slot) BY <1>2 DEF Sifted
  <1> HIDE DEF E
  <1>5. q \in Injectors /\ Balance(q) = Balance(inj) - Len(inj.delayed) + Len(sifted.kept)
        BY <1>4, InjectorEdits
  <1> HIDE DEF q
  <1>6. Outcome(Deliver(q, sifted.late), Balance(q) + Len(sifted.late))
        BY <1>4, <1>5, DeliverCounts
  <1>7. Balance(q) + Len(sifted.late) = Balance(inj)
    <2> DEFINE a == Len(sifted.late)
               b == Len(sifted.kept)
               c == Len(inj.delayed)
    <2>1. a \in Nat /\ b \in Nat /\ c \in Nat BY <1>1, <1>4
    <2>2. Balance(inj) \in Int BY BalanceIsANumber
    <2>3. a + b = c /\ Balance(q) = Balance(inj) - c + b BY <1>2, <1>5
    <2> HIDE DEF a, b, c
    <2>4. Balance(q) + a = Balance(inj) BY <2>1, <2>2, <2>3, SMT
    <2> QED BY <2>4 DEF a
  <1> QED BY <1>3, <1>6, <1>7

\* One emission is one packet.
LEMMA EmissionCounts ==
    ASSUME NEW inj \in Injectors, NEW x, NEW y
    PROVE  /\ Outcome(Deliver(inj, <<>>), Balance(inj))
           /\ Outcome(Deliver(inj, <<x>>), Balance(inj) + 1)
           /\ Outcome(Deliver(inj, <<x, y>>), Balance(inj) + 2)
PROOF
  <1> DEFINE E == {x, y}
  <1>1. /\ <<>> \in Seq(E) /\ Len(<<>>) = 0
        /\ <<x>> \in Seq(E) /\ Len(<<x>>) = 1
        /\ <<x, y>> \in Seq(E) /\ Len(<<x, y>>) = 2
        OBVIOUS
  <1> DEFINE none == <<>>
             one == <<x>>
             two == <<x, y>>
  <1>2. none \in Seq(E) /\ Len(none) = 0 /\ one \in Seq(E) /\ Len(one) = 1
        /\ two \in Seq(E) /\ Len(two) = 2
        BY <1>1
  <1> HIDE DEF E, none, one, two
  <1>3. /\ Outcome(Deliver(inj, none), Balance(inj) + Len(none))
        /\ Outcome(Deliver(inj, one), Balance(inj) + Len(one))
        /\ Outcome(Deliver(inj, two), Balance(inj) + Len(two))
        BY <1>2, DeliverCounts
  <1>4. Balance(inj) + 0 = Balance(inj) BY BalanceIsANumber
  <1> QED BY <1>2, <1>3, <1>4 DEF none, one, two

\* apply(): whatever the fault, the packet is emitted, dropped or held.
LEMMA ApplyKeeps ==
    ASSUME NEW kind, NEW inj \in Injectors, NEW f, f.operand \in Nat,
           NEW packet \in Datagrams, NEW place \in Nat
    PROVE  Outcome(Apply(kind, inj, f, packet, place), Balance(inj) + 1)
PROOF
  <1> DEFINE b == Balance(inj)
             r == Apply(kind, inj, f, packet, place)
  <1>b. b \in Int BY BalanceIsANumber
  <1>1. CASE f.op = "drop"
    <2> DEFINE q == [inj EXCEPT !.dropped = inj.dropped + 1]
    <2>1. r = Deliver(q, <<>>) BY <1>1 DEF Apply
    <2>2. q \in Injectors /\ Balance(q) = b + 1 BY InjectorEdits
    <2> HIDE DEF q, r, b
    <2> QED BY <2>1, <2>2, EmissionCounts DEF r, b
  <1>2. CASE f.op = "duplicate"
    <2> DEFINE q == [inj EXCEPT !.duplicated = inj.duplicated + 1]
               x == OnTime(packet, place)
               y == Emission(packet, place, "duplicate")
    <2>1. r = Deliver(q, <<x, y>>) BY <1>2 DEF Apply
    <2>2. q \in Injectors /\ Balance(q) = b - 1 BY InjectorEdits
    <2> HIDE DEF q, r, b, x, y
    <2>3. Outcome(r, Balance(q) + 2) BY <2>1, <2>2, EmissionCounts
    <2>4. Balance(q) + 2 = b + 1 BY <2>2, <1>b, SMT
    <2>5. Outcome(r, b + 1) BY <2>3, <2>4
    <2> QED BY <2>5 DEF r, b
  <1>3. CASE f.op = "delay" /\ Len(inj.delayed) >= MaxDelayed
    <2> DEFINE q == [inj EXCEPT !.notApplicable = inj.notApplicable + 1]
               x == OnTime(packet, place)
    <2>1. r = Deliver(q, <<x>>) BY <1>3 DEF Apply, Hold
    <2>2. q \in Injectors /\ Balance(q) = b BY InjectorEdits
    <2> HIDE DEF q, r, b, x
    <2>3. Outcome(r, Balance(q) + 1) BY <2>1, <2>2, EmissionCounts
    <2> QED BY <2>2, <2>3 DEF r, b
  <1>4. CASE f.op = "delay" /\ ~(Len(inj.delayed) >= MaxDelayed)
    <2> DEFINE slot == [packet |-> packet, source |-> place, release |-> place + f.operand]
               more == Append(inj.delayed, slot)
               p == [inj EXCEPT !.held = inj.held + 1]
               q == [p EXCEPT !.delayed = more]
               both == [inj EXCEPT !.held = inj.held + 1, !.delayed = more]
    <2>1. r = Deliver(both, <<>>) BY <1>4 DEF Apply, Hold
    <2>2. slot \in Slot
      <3>1. place + f.operand \in Int OBVIOUS
      <3> QED BY <3>1 DEF Slot
    <2> HIDE DEF slot
    <2>3. inj.delayed \in Seq(Slot) /\ Len(inj.delayed) \in Nat BY InjectorNumbers
    <2>4. more \in Seq(Slot) /\ Len(more) = Len(inj.delayed) + 1 BY <2>2, <2>3
    <2>5. p \in Injectors /\ Balance(p) = b /\ p.delayed = inj.delayed
          BY <2>4, InjectorEdits
    <2> HIDE DEF more
    <2>6. both = q
      <3> DEFINE n == inj.held + 1
      <3> HIDE DEF n
      <3>1. p = [inj EXCEPT !.held = n] BY DEF n
      <3>2. both = [inj EXCEPT !.held = n, !.delayed = more] BY DEF n
      <3> HIDE DEF p, both
      <3>3. both = q BY <3>1, <3>2, <2>4, InjectorNumbers DEF Injectors
      <3> QED BY <3>3
    <2> HIDE DEF p
    <2>7. q \in Injectors /\ Balance(q) = Balance(p) - Len(p.delayed) + Len(more)
          BY <2>4, <2>5, InjectorEdits
    <2> HIDE DEF q, both, r, b
    <2>8. Balance(q) = b + 1
      <3> DEFINE l == Len(inj.delayed)
                 m == Len(more)
      <3>1. l \in Nat /\ m = l + 1 BY <2>3, <2>4
      <3>2. Balance(q) = b - l + m BY <2>5, <2>7
      <3> HIDE DEF l, m
      <3> QED BY <3>1, <3>2, <1>b, SMT
    <2>9. r = Deliver(q, <<>>) BY <2>1, <2>6
    <2>10. Outcome(r, Balance(q)) BY <2>7, <2>9, EmissionCounts
    <2> QED BY <2>8, <2>10 DEF r, b
  <1>5. CASE f.op \notin {"drop", "duplicate", "delay"}
    <2>1. r = Damage(kind, inj, f, packet, place) BY <1>5 DEF Apply
    <2> DEFINE changed == Damaged(kind, f, packet)
    <2> HIDE DEF changed
    <2>2. CASE changed = <<>>
      <3> DEFINE q == [inj EXCEPT !.notApplicable = inj.notApplicable + 1]
                 x == OnTime(packet, place)
      <3>1. r = Deliver(q, <<x>>) BY <2>1, <2>2 DEF Damage, changed
      <3>2. q \in Injectors /\ Balance(q) = b BY InjectorEdits
      <3> HIDE DEF q, r, b, x
      <3>3. Outcome(r, Balance(q) + 1) BY <3>1, <3>2, EmissionCounts
      <3> QED BY <3>2, <3>3 DEF r, b
    <2>3. CASE changed # <<>>
      <3> DEFINE q == [inj EXCEPT !.mutated = inj.mutated + 1]
                 x == Emission(changed[1], place, f.op)
      <3>1. r = Deliver(q, <<x>>) BY <2>1, <2>3 DEF Damage, changed
      <3>2. q \in Injectors /\ Balance(q) = b BY InjectorEdits
      <3> HIDE DEF q, r, b, x
      <3>3. Outcome(r, Balance(q) + 1) BY <3>1, <3>2, EmissionCounts
      <3> QED BY <3>2, <3>3 DEF r, b
    <2> QED BY <2>2, <2>3
  <1> QED BY <1>1, <1>2, <1>3, <1>4, <1>5
\* A schedule is a sequence of faults, each with an operand.
PlanOk(faults) ==
    \E k \in Nat : DOMAIN faults = 1 .. k /\ \A i \in 1 .. k : faults[i].operand \in Nat

LEMMA SchedulesAreOk ==
    ASSUME NEW n, NEW faults \in Schedules(n)
    PROVE  PlanOk(faults)
PROOF
  <1> DEFINE drawn == {f \in FaultsOver(n) : f.operand \in OperandsOf(f.op)}
  <1>1. faults = <<>> \/ \E k \in MinFaults .. MaxFaults : faults \in [1 .. k -> drawn]
        BY DEF Schedules
  <1>2. \A f \in drawn : f.operand \in Nat
    <2>1. \A f \in FaultsOver(n) : f.operand \in 0 .. MaxOperand BY DEF FaultsOver
    <2>2. \A operand \in 0 .. MaxOperand : operand \in Nat BY ChaosAssumption, SMT
    <2> QED BY <2>1, <2>2
  <1> HIDE DEF drawn
  <1>3. CASE faults = <<>>
    <2>1. DOMAIN <<>> = 1 .. 0 /\ 1 .. 0 = {} /\ 0 \in Nat BY SMT
    <2> QED BY <1>3, <2>1 DEF PlanOk
  <1>4. ASSUME NEW k \in MinFaults .. MaxFaults, faults \in [1 .. k -> drawn]
        PROVE  PlanOk(faults)
    <2>1. k \in Nat BY ChaosAssumption, SMT
    <2>2. DOMAIN faults = 1 .. k /\ \A i \in 1 .. k : faults[i] \in drawn BY <1>4
    <2> QED BY <2>1, <2>2, <1>2 DEF PlanOk
  <1> QED BY <1>1, <1>3, <1>4

\* at_packet(): none, or a fault of the schedule.
LEMMA AtPacketFinds ==
    ASSUME NEW faults, PlanOk(faults), NEW at
    PROVE  LET entry == AtPacket(faults, at)
           IN  entry = 0 \/ (entry \in DOMAIN faults /\ faults[entry].operand \in Nat)
PROOF
  <1> DEFINE found == {i \in DOMAIN faults : Covers(faults[i], at)}
             entry == AtPacket(faults, at)
  <1>1. PICK k \in Nat : DOMAIN faults = 1 .. k /\ \A i \in 1 .. k : faults[i].operand \in Nat
        BY DEF PlanOk
  <1>2. found \in SUBSET Nat BY <1>1
  <1>3. found \subseteq DOMAIN faults OBVIOUS
  <1>4. entry = IF found = {} THEN 0 ELSE CHOOSE i \in found : \A j \in found : i <= j
        BY DEF AtPacket
  <1> HIDE DEF found, entry
  <1>5. CASE found # {}
    <2>1. \E i \in found : \A j \in found : i <= j BY <1>2, <1>5, LeastNumber
    <2>2. entry \in found BY <1>4, <1>5, <2>1
    <2> QED BY <2>2, <1>1, <1>3 DEF entry
  <1> QED BY <1>4, <1>5 DEF entry

\* offer(): what was due and this packet, with nothing lost.
LEMMA OfferKeeps ==
    ASSUME NEW kind, NEW inj \in Injectors, NEW faults, PlanOk(faults),
           NEW packet \in Datagrams, NEW at \in Nat
    PROVE  Outcome(OfferTo(kind, inj, faults, packet, at), Balance(inj))
PROOF
  <1> DEFINE b == Balance(inj)
             counted == [inj EXCEPT !.offered = inj.offered + 1]
             released == ReleaseDue(counted, at)
             entry == AtPacket(faults, at)
             now == IF entry = 0 THEN Deliver(released.injector, <<OnTime(packet, at)>>)
                    ELSE Apply(kind, released.injector, faults[entry], packet, at)
             r == OfferTo(kind, inj, faults, packet, at)
  <1>1. b \in Int BY BalanceIsANumber
  <1>2. counted \in Injectors /\ Balance(counted) = b - 1 BY InjectorEdits
  <1>3. r = [injector |-> now.injector, out |-> released.out \o now.out] BY DEF OfferTo
  <1> HIDE DEF counted, r
  <1>4. Outcome(released, b - 1) BY <1>2, ReleaseDueKeeps
  <1>5. entry = 0 \/ (entry \in DOMAIN faults /\ faults[entry].operand \in Nat)
        BY AtPacketFinds
  <1> HIDE DEF released, entry
  <1>6. released.injector \in Injectors /\ Balance(released.injector) = b - 1
        BY <1>4 DEF Outcome
  <1>7. Outcome(now, Balance(released.injector) + 1)
    <2>1. CASE entry = 0
      <3>1. now = Deliver(released.injector, <<OnTime(packet, at)>>) BY <2>1
      <3> DEFINE x == OnTime(packet, at)
      <3> HIDE DEF now, x
      <3> QED BY <3>1, <1>6, EmissionCounts DEF x
    <2>2. CASE entry # 0
      <3>1. now = Apply(kind, released.injector, faults[entry], packet, at) BY <2>2
      <3> HIDE DEF now
      <3> QED BY <3>1, <2>2, <1>5, <1>6, ApplyKeeps
    <2> QED BY <2>1, <2>2
  <1> HIDE DEF now
  <1>8. (b - 1) + 1 = b
    <2> HIDE DEF b
    <2> QED BY <1>1, SMT
  <1>9. Outcome(now, b) BY <1>6, <1>7, <1>8
  <1>10. PICK E : released.out \in Seq(E) BY <1>4 DEF Outcome
  <1>11. PICK F : now.out \in Seq(F) BY <1>9 DEF Outcome
  <1>12. released.out \o now.out \in Seq(E \cup F)
    <2>1. released.out \in Seq(E \cup F) /\ now.out \in Seq(E \cup F) BY <1>10, <1>11
    <2> QED BY <2>1, ConcatProperties
  <1>13. r.injector = now.injector /\ r.out \in Seq(E \cup F) BY <1>3, <1>12
  <1> QED BY <1>9, <1>13 DEF Outcome, r

LEMMA QueueBecomes ==
    ASSUME NEW inj \in Injectors, NEW kept \in Seq(Slot), NEW q,
           q = [inj EXCEPT !.delayed = kept]
    PROVE  /\ q \in Injectors /\ q.delayed = kept
           /\ Balance(q) = Balance(inj) - Len(inj.delayed) + Len(kept)
BY InjectorEdits

\* flush(): everything still held goes out.
LEMMA FlushKeeps ==
    ASSUME NEW inj \in Injectors
    PROVE  /\ Outcome(FlushInjector(inj), Balance(inj))
           /\ FlushInjector(inj).injector.delayed = <<>>
PROOF
  <1> DEFINE q == [inj EXCEPT !.delayed = <<>>]
             slots == inj.delayed
             out == [i \in DOMAIN slots |-> Late(slots[i])]
             n == Len(slots)
             E == {Late(slots[i]) : i \in 1 .. n}
             r == FlushInjector(inj)
  <1>1. n \in Nat /\ DOMAIN slots = 1 .. n
    <2>1. slots \in Seq(Slot) BY InjectorNumbers
    <2> HIDE DEF slots
    <2> QED BY <2>1
  <1>2. <<>> \in Seq(Slot) /\ Len(<<>>) = 0 OBVIOUS
  <1>3. q \in Injectors /\ Balance(q) = Balance(inj) - n + 0 /\ q.delayed = <<>>
    <2> DEFINE none == <<>>
    <2>1. none \in Seq(Slot) /\ Len(none) = 0 BY <1>2
    <2>2. q = [inj EXCEPT !.delayed = none] OBVIOUS
    <2> HIDE DEF none, q
    <2>3. /\ q \in Injectors /\ q.delayed = none
          /\ Balance(q) = Balance(inj) - Len(inj.delayed) + Len(none)
        BY <2>1, <2>2, QueueBecomes
    <2>4. Balance(q) = Balance(inj) - n + 0 BY <2>1, <2>3
    <2>5. q.delayed = <<>> BY <2>3 DEF none
    <2> QED BY <2>3, <2>4, <2>5
  <1>4. r = Deliver(q, out) BY DEF FlushInjector
  <1>5. out \in [1 .. n -> E] BY <1>1
  <1> HIDE DEF slots, n, E, q, r
  <1>6. out \in Seq(E) /\ Len(out) = n
    <2> HIDE DEF out
    <2> QED BY <1>1, <1>5
  <1> HIDE DEF out
  <1>7. Outcome(r, Balance(q) + Len(out)) BY <1>3, <1>4, <1>6, DeliverCounts
  <1>8. Balance(q) + Len(out) = Balance(inj)
    <2>1. Balance(inj) \in Int BY BalanceIsANumber
    <2> QED BY <1>1, <1>3, <1>6, <2>1, SMT
  <1>9. r.injector.delayed = <<>>
    <2>1. r.injector = [q EXCEPT !.emitted = q.emitted + n] BY <1>4, <1>6 DEF Deliver
    <2>2. r.injector.delayed = q.delayed BY <2>1, <1>3 DEF Injectors
    <2> QED BY <2>2, <1>3
  <1> QED BY <1>7, <1>8, <1>9 DEF r

InjectorInv ==
    /\ PlanOk(plan) /\ index \in Nat
    /\ injector \in Injectors /\ Balance(injector) = 0
    /\ phase = "repairing" => injector.delayed = <<>>

LEMMA InjectorStep == StreamInv /\ InjectorInv /\ [Next]_vars => InjectorInv'
PROOF
  <1> SUFFICES ASSUME StreamInv, InjectorInv, [Next]_vars PROVE InjectorInv' OBVIOUS
  <1>i. /\ PlanOk(plan) /\ index \in Nat
        /\ injector \in Injectors /\ Balance(injector) = 0
        /\ phase = "repairing" => injector.delayed = <<>>
        /\ stream \in Seq(Datagrams)
        BY DEF InjectorInv, StreamInv
  <1>1. CASE UNCHANGED <<phase, line>> BY <1>1, <1>i DEF line, InjectorInv
  <1>2. CASE SubmitMessage BY <1>1, <1>2 DEF SubmitMessage
  <1>3. CASE FlushPublisher BY <1>1, <1>3 DEF FlushPublisher
  <1>4. CASE PollPublisher BY <1>1, <1>4 DEF PollPublisher
  <1>5. CASE Quiet BY <1>1, <1>5 DEF Quiet
  <1>6. CASE FinishStream
    <2>1. /\ plan' \in Schedules(Len(stream')) /\ phase' = "offering"
          /\ UNCHANGED <<injector, index>>
          BY <1>6 DEF FinishStream
    <2>2. PlanOk(plan') BY <2>1, SchedulesAreOk
    <2> QED BY <1>i, <2>1, <2>2 DEF InjectorInv
  <1>7. CASE OfferPacket
    <2> DEFINE r == OfferTo(protocol, injector, plan, stream[index + 1], index)
    <2>1. /\ phase = "offering" /\ phase' = phase /\ index < Len(stream)
          /\ injector' = r.injector /\ index' = index + 1 /\ plan' = plan
          BY <1>7 DEF OfferPacket
    <2>2. stream[index + 1] \in Datagrams
      <3>1. Len(stream) \in Nat BY <1>i
      <3>2. index + 1 \in 1 .. Len(stream) BY <1>i, <2>1, <3>1, SMT
      <3> QED BY <1>i, <3>2
    <2>3. Outcome(r, Balance(injector)) BY <1>i, <2>2, OfferKeeps
    <2> HIDE DEF r
    <2>4. injector' \in Injectors /\ Balance(injector') = 0 BY <1>i, <2>1, <2>3 DEF Outcome
    <2>5. index' \in Nat BY <1>i, <2>1
    <2> QED BY <1>i, <2>1, <2>4, <2>5 DEF InjectorInv
  <1>8. CASE FlushLine
    <2> DEFINE r == FlushInjector(injector)
    <2>1. injector' = r.injector /\ index' = index /\ plan' = plan BY <1>8 DEF FlushLine
    <2>2. Outcome(r, Balance(injector)) /\ r.injector.delayed = <<>> BY <1>i, FlushKeeps
    <2> HIDE DEF r
    <2>3. injector' \in Injectors /\ Balance(injector') = 0 BY <1>i, <2>1, <2>2 DEF Outcome
    <2> QED BY <1>i, <2>1, <2>2, <2>3 DEF InjectorInv
  <1>9. CASE AskFacility BY <1>1, <1>9 DEF AskFacility
  <1>10. CASE AskSnapshot BY <1>1, <1>10 DEF AskSnapshot
  <1>11. CASE SnapshotWaits BY <1>1, <1>11 DEF SnapshotWaits
  <1>12. CASE SnapshotArrives BY <1>1, <1>12 DEF SnapshotArrives
  <1>13. CASE UNCHANGED vars BY <1>1, <1>13 DEF vars
  <1> QED BY <1>2, <1>3, <1>4, <1>5, <1>6, <1>7, <1>8, <1>9, <1>10, <1>11, <1>12, <1>13
          DEF Next

LEMMA InjectorHoldsAtFirst == Init => InjectorInv
PROOF
  <1> SUFFICES ASSUME Init PROVE InjectorInv OBVIOUS
  <1>1. plan = <<>> /\ injector = NewInjector /\ index = 0 /\ phase = "publishing"
        BY DEF Init
  <1>2. DOMAIN <<>> = 1 .. 0 /\ 1 .. 0 = {} /\ 0 \in Nat BY SMT
  <1>3. PlanOk(plan) BY <1>1, <1>2 DEF PlanOk
  <1>4. <<>> \in Seq(Slot) /\ Len(<<>>) = 0 OBVIOUS
  <1>5. injector \in Injectors BY <1>1, <1>4 DEF NewInjector, Injectors
  <1>6. Balance(injector) = 0
    <2>1. /\ injector.delayed = <<>> /\ injector.emitted = 0 /\ injector.dropped = 0
          /\ injector.offered = 0 /\ injector.duplicated = 0
          BY <1>1 DEF NewInjector
    <2>2. Balance(injector) = 0 + 0 + 0 - 0 - 0 BY <2>1, <1>4 DEF Balance
    <2> QED BY <2>2
  <1> QED BY <1>1, <1>3, <1>5, <1>6 DEF InjectorInv

\* Every packet offered to the injector was emitted, dropped or is still held,
\* whatever the schedule and the room for held packets, and after flush() nothing
\* is held.
THEOREM FeedNothingVanishes == Spec => []NothingVanishes
PROOF
  <1>1. Init => InjectorInv BY InjectorHoldsAtFirst
  <1>2. Init => StreamInv BY StreamHoldsAtFirst
  <1>3. StreamInv /\ InjectorInv /\ [Next]_vars => (StreamInv /\ InjectorInv)'
        BY StreamStep, InjectorStep
  <1>4. InjectorInv => NothingVanishes
    <2> SUFFICES ASSUME InjectorInv PROVE NothingVanishes OBVIOUS
    <2> DEFINE e == injector.emitted
               d == injector.dropped
               l == Len(injector.delayed)
               o == injector.offered
               u == injector.duplicated
    <2>1. injector \in Injectors /\ Balance(injector) = 0
          /\ (phase = "repairing" => injector.delayed = <<>>)
          BY DEF InjectorInv
    <2>2. e \in Nat /\ d \in Nat /\ l \in Nat /\ o \in Nat /\ u \in Nat
          BY <2>1, InjectorNumbers
    <2>3. e + d + l - o - u = 0 BY <2>1 DEF Balance
    <2>4. e + d + l = o + u
      <3> HIDE DEF e, d, l, o, u
      <3> QED BY <2>2, <2>3, SMT
    <2> QED BY <2>1, <2>4 DEF NothingVanishes
  <1> QED BY <1>1, <1>2, <1>3, <1>4, PTL DEF Spec
-----------------------------------------------------------------------------
(* A report of the chain checker concerns one pair of packets.               *)

EarOk(ear) ==
    /\ \A i \in 2 .. Len(ear.heard) :
          ear.heard[i].report =
             Inconsistency(ObserveChain(NoChain, ear.heard[i - 1].packet), ear.heard[i].packet)
    /\ ear.heard # <<>> =>
          ear.chain = ObserveChain(NoChain, ear.heard[Len(ear.heard)].packet)

\* Ears whose expectations are in C and whose reports are in H.
Ears(C, H) == {ear \in [chain : C, heard : Seq(H)] : EarOk(ear)}

\* What listening to the packet of an emission may lead to.
Leads(C, H, emission) ==
    /\ ObserveChain(NoChain, emission.packet) \in C
    /\ \A c \in C : [packet |-> emission.packet,
                     report |-> Inconsistency(c, emission.packet)] \in H

\* The expectation is rebuilt from every packet, so a report is about the packet
\* before it and no other.
LEMMA ListenKeeps ==
    ASSUME NEW C, NEW H, NEW ear \in Ears(C, H), NEW emission, Leads(C, H, emission)
    PROVE  Listen(ear, emission) \in Ears(C, H)
PROOF
  <1> DEFINE p == emission.packet
             entry == [packet |-> p, report |-> Inconsistency(ear.chain, p)]
             on == ObserveChain(ear.chain, p)
             more == Append(ear.heard, entry)
             r == Listen(ear, emission)
             n == Len(ear.heard)
  <1>1. CASE r = ear BY <1>1
  <1>2. CASE r # ear
    <2>1. r = [chain |-> on, heard |-> more] BY <1>2, Zenon DEF Listen
    <2>2. on = ObserveChain(NoChain, p) BY DEF ObserveChain
    <2>3. on \in C BY <2>2 DEF Leads
    <2>4. /\ ear.chain \in C /\ ear.heard \in Seq(H) /\ EarOk(ear) BY DEF Ears
    <2>5. entry \in H BY <2>4 DEF Leads
    <2>6. entry.packet = p /\ entry.report = Inconsistency(ear.chain, p) OBVIOUS
    <2> HIDE DEF entry, r, on
    <2>7. /\ n \in Nat /\ more \in Seq(H) /\ Len(more) = n + 1 /\ more[n + 1] = entry
          /\ \A i \in 1 .. n : more[i] = ear.heard[i]
          BY <2>4, <2>5
    <2>8. n # 0 => ear.heard # <<>> BY <2>4
    <2>f. n = Len(ear.heard) OBVIOUS
    <2> HIDE DEF more, n
    <2>9. r.chain = on /\ r.heard = more BY <2>1
    <2>10. ASSUME NEW i \in 2 .. n + 1
           PROVE  more[i].report = Inconsistency(ObserveChain(NoChain, more[i - 1].packet),
                                                 more[i].packet)
      <3>1. CASE i = n + 1
        <4>1. n # 0 /\ n \in 1 .. n /\ i - 1 = n BY <3>1, <2>7, SMT
        <4>2. ear.chain = ObserveChain(NoChain, ear.heard[n].packet)
              BY <4>1, <2>4, <2>8, <2>f DEF EarOk
        <4>3. more[i] = entry /\ more[i - 1] = ear.heard[n] BY <3>1, <4>1, <2>7
        <4> QED BY <4>2, <4>3, <2>6
      <3>2. CASE i # n + 1
        <4>1. i \in 2 .. n /\ i \in 1 .. n /\ i - 1 \in 1 .. n BY <3>2, <2>7, SMT
        <4>2. more[i] = ear.heard[i] /\ more[i - 1] = ear.heard[i - 1] BY <4>1, <2>7
        <4>3. ear.heard[i].report =
                 Inconsistency(ObserveChain(NoChain, ear.heard[i - 1].packet),
                               ear.heard[i].packet)
              BY <4>1, <2>4, <2>f DEF EarOk
        <4> QED BY <4>2, <4>3
      <3> QED BY <3>1, <3>2
    <2>11. EarOk(r) BY <2>2, <2>6, <2>7, <2>9, <2>10 DEF EarOk
    <2>12. r \in [chain : C, heard : Seq(H)] BY <2>1, <2>3, <2>7
    <2> QED BY <2>11, <2>12 DEF Ears, r
  <1> QED BY <1>1, <1>2

ListenStep(h, base, seq) ==
    h = [s \in SUBSET DOMAIN seq |->
           IF s = {} THEN base ELSE Listen(h[s \ {Max(s)}], seq[Max(s)])]

LEMMA ListeningKeeps ==
    ASSUME NEW C, NEW H, NEW ear \in Ears(C, H), NEW E, NEW out \in Seq(E),
           \A emission \in E : Leads(C, H, emission)
    PROVE  FoldLeft(Listen, ear, out) \in Ears(C, H)
PROOF
  <1> DEFINE n == Len(out)
             A == Ears(C, H)
             f == [p \in A \X E |-> Listen(p[1], p[2])]
             listened == CHOOSE iter : ListenStep(iter, ear, out)
             r == FoldLeft(Listen, ear, out)
  <1>1. n \in Nat /\ DOMAIN out = 1 .. n /\ out \in [1 .. n -> E] OBVIOUS
  <1>2. \A a \in A, e \in E : Listen(a, e) \in A BY ListenKeeps
  <1>a. ear \in A OBVIOUS
  <1> HIDE DEF n, A
  <1>3. f \in [A \X E -> A] /\ \A a \in A, e \in E : f[<<a, e>>] = Listen(a, e)
    <2>1. \A p \in A \X E : Listen(p[1], p[2]) \in A BY <1>2
    <2> QED BY <2>1
  <1> HIDE DEF f
  <1>4. PICK h : FoldsInto(h, A, f, ear, out, n) BY <1>1, <1>3, <1>a, FoldExists
  <1>5. \A s \in SUBSET (1 .. n) : s # {} => Max(s) \in s /\ s \ {Max(s)} \in SUBSET (1 .. n)
        BY <1>1, GreatestNumber
  <1>6. ListenStep(h, ear, out)
    <2>1. ASSUME NEW s \in SUBSET (1 .. n)
          PROVE  h[s] = IF s = {} THEN ear ELSE Listen(h[s \ {Max(s)}], out[Max(s)])
      <3>1. h \in [SUBSET (1 .. n) -> A]
            /\ h[s] = IF s = {} THEN ear ELSE f[<<h[s \ {Max(s)}], out[Max(s)]>>]
            BY <1>4 DEF FoldsInto
      <3>2. CASE s # {}
        <4>1. h[s \ {Max(s)}] \in A /\ out[Max(s)] \in E BY <3>1, <3>2, <1>1, <1>5
        <4> QED BY <4>1, <3>1, <3>2, <1>3
      <3> QED BY <3>1, <3>2
    <2>2. h = [s \in SUBSET (1 .. n) |-> h[s]] BY <1>4 DEF FoldsInto
    <2> QED BY <2>1, <2>2, <1>1 DEF ListenStep
  <1>7. ListenStep(listened, ear, out) BY <1>6, Zenon
  <1>8. r = listened[1 .. n] BY <1>1, Zenon DEF ListenStep, FoldLeft, MapThenFoldSet
  <1> HIDE DEF listened, r
  <1>9. \A s \in SUBSET (1 .. n) :
           listened[s] = IF s = {} THEN ear ELSE Listen(listened[s \ {Max(s)}], out[Max(s)])
    <2>1. listened = [s \in SUBSET (1 .. n) |->
                        IF s = {} THEN ear
                        ELSE Listen(listened[s \ {Max(s)}], out[Max(s)])]
          BY <1>1, <1>7, Zenon DEF ListenStep
    <2> QED BY <2>1
  <1> DEFINE S == {k \in Nat : k <= n => listened[1 .. k] \in A}
  <1>10. 0 \in S
    <2>1. 1 .. 0 = {} /\ 1 .. 0 \in SUBSET (1 .. n) BY SMT
    <2>2. listened[1 .. 0] = ear BY <2>1, <1>9
    <2> QED BY <2>2, <1>a
  <1>11. \A k \in S : k + 1 \in S
    <2> SUFFICES ASSUME NEW k \in Nat, k <= n => listened[1 .. k] \in A, k + 1 <= n
                 PROVE  listened[1 .. k + 1] \in A
        OBVIOUS
    <2>1. k <= n /\ k + 1 \in 1 .. n /\ (k + 1) - 1 = k BY <1>1, SMT
    <2>2. /\ 1 .. k + 1 \in SUBSET (1 .. n) /\ 1 .. k + 1 # {} /\ Max(1 .. k + 1) = k + 1
          /\ (1 .. k + 1) \ {k + 1} = 1 .. (k + 1) - 1
          BY <1>1, <2>1, FirstIndices
    <2>3. listened[1 .. k + 1] = Listen(listened[1 .. k], out[k + 1])
          BY <2>1, <2>2, <1>9
    <2>4. listened[1 .. k] \in A /\ out[k + 1] \in E BY <2>1, <1>1
    <2> QED BY <2>3, <2>4, <1>2
  <1>12. S = Nat
    <2>1. S \in SUBSET Nat OBVIOUS
    <2> HIDE DEF S
    <2> QED BY <2>1, <1>10, <1>11, NumbersByInduction
  <1>13. n \in S /\ n <= n BY <1>1, <1>12
  <1>14. listened[1 .. n] \in A BY <1>13
  <1> QED BY <1>8, <1>14 DEF r, A

HeardInv ==
    /\ \E H : heard \in Seq(H)
    /\ EarOk([chain |-> chain, heard |-> heard])

\* A call that puts a sequence of packets on the line.
LEMMA LineKeeps ==
    ASSUME NEW F, NEW out \in Seq(F), OnTheLine(out), HeardInv
    PROVE  HeardInv'
PROOF
  <1> DEFINE n == Len(out)
             E == {out[i] : i \in 1 .. n}
             C == {chain} \cup {ObserveChain(NoChain, e.packet) : e \in E}
             said(e, c) == [packet |-> e.packet, report |-> Inconsistency(c, e.packet)]
             ear == [chain |-> chain, heard |-> heard]
             r == FoldLeft(Listen, ear, out)
  <1>1. chain' = r.chain /\ heard' = r.heard BY DEF OnTheLine
  <1>2. out \in Seq(E)
    <2>1. n \in Nat /\ out \in [1 .. n -> E] OBVIOUS
    <2> HIDE DEF n, E
    <2> QED BY <2>1
  <1>3. PICK G : heard \in Seq(G) BY DEF HeardInv
  <1> DEFINE H == G \cup {said(e, c) : e \in E, c \in C}
  <1>4. ASSUME NEW e \in E PROVE Leads(C, H, e)
    <2>1. ObserveChain(NoChain, e.packet) \in C OBVIOUS
    <2> HIDE DEF C, E
    <2>2. \A c \in C : said(e, c) \in H OBVIOUS
    <2> HIDE DEF H
    <2> QED BY <2>1, <2>2 DEF Leads
  <1>5. ear \in Ears(C, H)
    <2>1. chain \in C OBVIOUS
    <2>2. heard \in Seq(H) BY <1>3
    <2> HIDE DEF C, H
    <2>3. ear \in [chain : C, heard : Seq(H)] BY <2>1, <2>2
    <2> QED BY <2>3 DEF Ears, HeardInv
  <1> HIDE DEF C, H, E, ear
  <1>6. r \in Ears(C, H) BY <1>2, <1>4, <1>5, ListeningKeeps
  <1> HIDE DEF r
  <1>7. EarOk(r) /\ r.heard \in Seq(H) BY <1>6 DEF Ears
  <1>8. EarOk([chain |-> r.chain, heard |-> r.heard]) BY <1>7 DEF EarOk
  <1> QED BY <1>1, <1>7, <1>8 DEF HeardInv

LEMMA HeardStep == StreamInv /\ InjectorInv /\ HeardInv /\ [Next]_vars => HeardInv'
PROOF
  <1> SUFFICES ASSUME StreamInv, InjectorInv, HeardInv, [Next]_vars PROVE HeardInv' OBVIOUS
  <1>i. /\ PlanOk(plan) /\ index \in Nat /\ injector \in Injectors
        /\ stream \in Seq(Datagrams)
        BY DEF InjectorInv, StreamInv
  <1>1. CASE UNCHANGED <<chain, heard>> BY <1>1 DEF HeardInv
  <1>2. CASE SubmitMessage BY <1>1, <1>2 DEF SubmitMessage, line
  <1>3. CASE FlushPublisher BY <1>1, <1>3 DEF FlushPublisher, line
  <1>4. CASE PollPublisher BY <1>1, <1>4 DEF PollPublisher, line
  <1>5. CASE Quiet BY <1>1, <1>5 DEF Quiet, line
  <1>6. CASE FinishStream BY <1>1, <1>6 DEF FinishStream
  <1>7. CASE OfferPacket
    <2> DEFINE r == OfferTo(protocol, injector, plan, stream[index + 1], index)
    <2>1. index < Len(stream) /\ OnTheLine(r.out) BY <1>7 DEF OfferPacket
    <2>2. stream[index + 1] \in Datagrams
      <3>1. Len(stream) \in Nat BY <1>i
      <3>2. index + 1 \in 1 .. Len(stream) BY <1>i, <2>1, <3>1, SMT
      <3> QED BY <1>i, <3>2
    <2>3. Outcome(r, Balance(injector)) BY <1>i, <2>2, OfferKeeps
    <2> HIDE DEF r
    <2>4. PICK F : r.out \in Seq(F) BY <2>3 DEF Outcome
    <2> QED BY <2>1, <2>4, LineKeeps
  <1>8. CASE FlushLine
    <2> DEFINE r == FlushInjector(injector)
    <2>1. OnTheLine(r.out) BY <1>8 DEF FlushLine
    <2>2. Outcome(r, Balance(injector)) BY <1>i, FlushKeeps
    <2> HIDE DEF r
    <2>3. PICK F : r.out \in Seq(F) BY <2>2 DEF Outcome
    <2> QED BY <2>1, <2>3, LineKeeps
  <1>9. CASE AskFacility BY <1>1, <1>9 DEF AskFacility, line
  <1>10. CASE AskSnapshot BY <1>1, <1>10 DEF AskSnapshot, line
  <1>11. CASE SnapshotWaits BY <1>1, <1>11 DEF SnapshotWaits, line
  <1>12. CASE SnapshotArrives BY <1>1, <1>12 DEF SnapshotArrives, line
  <1>13. CASE UNCHANGED vars BY <1>1, <1>13 DEF vars, line
  <1> QED BY <1>2, <1>3, <1>4, <1>5, <1>6, <1>7, <1>8, <1>9, <1>10, <1>11, <1>12, <1>13
          DEF Next

\* Whatever the line carries, a report of the chain checker is a statement about
\* one packet and the one heard before it: no break is blamed on a later packet.
THEOREM FeedReportsConcernOnePair == Spec => []ReportsConcernOnePair
PROOF
  <1>1. Init => HeardInv
    <2> SUFFICES ASSUME Init PROVE HeardInv OBVIOUS
    <2>1. heard = <<>> BY DEF Init
    <2>2. <<>> \in Seq({}) /\ Len(<<>>) = 0 OBVIOUS
    <2>3. 2 .. 0 = {} BY SMT
    <2>4. EarOk([chain |-> chain, heard |-> <<>>]) BY <2>2, <2>3 DEF EarOk
    <2> QED BY <2>1, <2>2, <2>4 DEF HeardInv
  <1>2. Init => StreamInv /\ InjectorInv BY StreamHoldsAtFirst, InjectorHoldsAtFirst
  <1>3. StreamInv /\ InjectorInv /\ HeardInv /\ [Next]_vars
           => (StreamInv /\ InjectorInv /\ HeardInv)'
        BY StreamStep, InjectorStep, HeardStep
  <1>4. HeardInv => ReportsConcernOnePair BY DEF HeardInv, EarOk, ReportsConcernOnePair
  <1> QED BY <1>1, <1>2, <1>3, <1>4, PTL DEF Spec

-----------------------------------------------------------------------------
(* A datagram of the stream carries the messages its sequence number says.   *)

\* Behind a place of a payload stands a body with its prefix.
IsBlock(payload, at, body) ==
    /\ payload[at + 1] = Len(body)
    /\ \A j \in 1 .. Len(body) : payload[at + 1 + j] = body[j]

\* A payload is the bodies from number `first' on, one block each, ending at `ends'.
Blocks(payload, count, bs, first, ends) ==
    /\ ends \in [0 .. count -> 0 .. Len(payload)]
    /\ ends[0] = 0 /\ ends[count] = Len(payload)
    /\ \A i \in 0 .. count - 1 :
          /\ ends[i + 1] = ends[i] + 1 + Len(bs[first + i])
          /\ IsBlock(payload, ends[i], bs[first + i])

BlocksAre(payload, count, bs, first) == \E ends : Blocks(payload, count, bs, first, ends)

Carries(kind, p, bs) ==
    /\ p \in Datagrams
    /\ p.whole /\ p.sequence > 0 /\ p.sequence + p.count <= Len(bs) + 1
    /\ p.count <= Len(p.payload) /\ Len(p.payload) <= MaxPayload
    /\ kind = "iextp" => p.length = Len(p.payload)
    /\ BlocksAre(p.payload, p.count, bs, p.sequence)

\* A body fits a datagram and no cell of it could be a length.
BodiesOk(bs) ==
    /\ bs \in Seq(Seq(Nat))
    /\ \A n \in 1 .. Len(bs) :
          /\ Len(bs[n]) < MaxPayload
          /\ \A j \in 1 .. Len(bs[n]) : bs[n][j] > EndOfSession

LEMMA Appended ==
    ASSUME NEW bs \in Seq(Seq(Nat)), NEW body \in Seq(Nat)
    PROVE  /\ Append(bs, body) \in Seq(Seq(Nat)) /\ Len(Append(bs, body)) = Len(bs) + 1
           /\ Append(bs, body)[Len(bs) + 1] = body
           /\ \A n \in 1 .. Len(bs) : Append(bs, body)[n] = bs[n]
PROOF
  OBVIOUS

LEMMA BlockAppended ==
    ASSUME NEW payload \in Seq(Nat), NEW body \in Seq(Nat)
    PROVE  LET more == payload \o <<Len(body)>> \o body
           IN  /\ more \in Seq(Nat) /\ Len(more) = Len(payload) + 1 + Len(body)
               /\ \A i \in 1 .. Len(payload) : more[i] = payload[i]
               /\ IsBlock(more, Len(payload), body)
PROOF
  <1> DEFINE size == Len(payload)
             long == Len(body)
             tail == <<long>>
             head == payload \o tail
             more == head \o body
  <1>1. size \in Nat /\ long \in Nat OBVIOUS
  <1>2. tail \in Seq(Nat) /\ Len(tail) = 1 /\ tail[1] = long BY <1>1
  <1>f. size = Len(payload) /\ long = Len(body) OBVIOUS
  <1> HIDE DEF size, long, tail
  <1>3. /\ head \in Seq(Nat) /\ Len(head) = size + 1
        /\ \A i \in 1 .. size + 1 :
              head[i] = IF i <= size THEN payload[i] ELSE tail[i - size]
    <2>1. /\ payload \o tail \in Seq(Nat)
          /\ Len(payload \o tail) = Len(payload) + Len(tail)
          /\ \A i \in 1 .. Len(payload) + Len(tail) :
                (payload \o tail)[i] = IF i <= Len(payload) THEN payload[i]
                                       ELSE tail[i - Len(payload)]
          BY <1>2, ConcatProperties
    <2> QED BY <2>1, <1>2, <1>f
  <1> HIDE DEF head
  <1>4. /\ more \in Seq(Nat) /\ Len(more) = (size + 1) + long
        /\ \A i \in 1 .. (size + 1) + long :
              more[i] = IF i <= size + 1 THEN head[i] ELSE body[i - (size + 1)]
    <2>1. /\ head \o body \in Seq(Nat)
          /\ Len(head \o body) = Len(head) + Len(body)
          /\ \A i \in 1 .. Len(head) + Len(body) :
                (head \o body)[i] = IF i <= Len(head) THEN head[i] ELSE body[i - Len(head)]
          BY <1>3, ConcatProperties
    <2> QED BY <2>1, <1>3, <1>f
  <1> HIDE DEF more
  <1>5. \A i \in 1 .. size : more[i] = payload[i]
    <2>1. \A i \in 1 .. size :
             i \in 1 .. (size + 1) + long /\ i \in 1 .. size + 1 /\ i <= size + 1 /\ i <= size
          BY <1>1, SMT
    <2> QED BY <2>1, <1>3, <1>4
  <1>6. more[size + 1] = long
    <2>1. /\ size + 1 \in 1 .. (size + 1) + long /\ size + 1 \in 1 .. size + 1
          /\ size + 1 <= size + 1 /\ ~(size + 1 <= size) /\ (size + 1) - size = 1
          BY <1>1, SMT
    <2> QED BY <2>1, <1>2, <1>3, <1>4
  <1>7. \A j \in 1 .. long : more[size + 1 + j] = body[j]
    <2>1. \A j \in 1 .. long :
             /\ size + 1 + j \in 1 .. (size + 1) + long /\ ~(size + 1 + j <= size + 1)
             /\ (size + 1 + j) - (size + 1) = j
          BY <1>1, SMT
    <2> QED BY <2>1, <1>4
  <1>8. Len(more) = size + 1 + long BY <1>1, <1>4
  <1>9. IsBlock(more, size, body) BY <1>6, <1>7, <1>f DEF IsBlock
  <1> QED BY <1>4, <1>5, <1>8, <1>9, <1>f DEF more, head, tail

\* A message appended to what was published is one more block of the open datagram.
LEMMA BlocksGrow ==
    ASSUME NEW payload \in Seq(Nat), NEW count \in Nat, NEW bs \in Seq(Seq(Nat)),
           NEW first \in Nat, first > 0, first + count = Len(bs) + 1,
           BlocksAre(payload, count, bs, first), NEW body \in Seq(Nat)
    PROVE  BlocksAre(payload \o <<Len(body)>> \o body, count + 1, Append(bs, body), first)
PROOF
  <1> DEFINE more == payload \o <<Len(body)>> \o body
             size == Len(payload)
             full == Len(payload) + 1 + Len(body)
             cs == Append(bs, body)
  <1>1. /\ more \in Seq(Nat) /\ Len(more) = full
        /\ \A i \in 1 .. size : more[i] = payload[i]
        /\ IsBlock(more, size, body)
        BY BlockAppended
  <1>2. size \in Nat /\ Len(body) \in Nat /\ full \in Nat /\ full = size + 1 + Len(body)
        /\ size < full
        OBVIOUS
  <1>3. /\ Len(bs) \in Nat /\ cs[Len(bs) + 1] = body
        /\ \A n \in 1 .. Len(bs) : cs[n] = bs[n]
        BY Appended
  <1> HIDE DEF more, cs, full
  <1>4. PICK ends : Blocks(payload, count, bs, first, ends) BY DEF BlocksAre
  <1>5. /\ ends \in [0 .. count -> 0 .. size] /\ ends[0] = 0 /\ ends[count] = size
        /\ \A i \in 0 .. count - 1 :
              /\ ends[i + 1] = ends[i] + 1 + Len(bs[first + i])
              /\ IsBlock(payload, ends[i], bs[first + i])
        BY <1>4 DEF Blocks
  <1> HIDE DEF size
  <1> DEFINE past == [i \in 0 .. count + 1 |-> IF i = count + 1 THEN full ELSE ends[i]]
  <1>6. past \in [0 .. count + 1 -> 0 .. full]
    <2>1. \A i \in 0 .. count + 1 : i = count + 1 \/ i \in 0 .. count BY SMT
    <2>2. \A x \in 0 .. size : x \in 0 .. full BY <1>2, SMT
    <2>3. full \in 0 .. full BY <1>2, SMT
    <2> QED BY <2>1, <2>2, <2>3, <1>5
  <1>7. /\ past[count + 1] = full /\ \A i \in 0 .. count : past[i] = ends[i]
    <2>1. count + 1 \in 0 .. count + 1 /\ \A i \in 0 .. count : i \in 0 .. count + 1 /\ i # count + 1
          BY SMT
    <2> QED BY <2>1
  <1> HIDE DEF past
  <1>8. past[0] = 0
    <2>1. 0 \in 0 .. count BY SMT
    <2> QED BY <2>1, <1>5, <1>7
  <1>9. ASSUME NEW i \in 0 .. (count + 1) - 1
        PROVE  /\ past[i + 1] = past[i] + 1 + Len(cs[first + i])
               /\ IsBlock(more, past[i], cs[first + i])
    <2>1. CASE i = count
      <3>1. past[i] = size /\ past[i + 1] = full
        <4>1. count \in 0 .. count BY SMT
        <4> QED BY <4>1, <2>1, <1>5, <1>7
      <3>2. cs[first + i] = body BY <2>1, <1>3
      <3> QED BY <3>1, <3>2, <1>1, <1>2
    <2>2. CASE i # count
      <3>1. i \in 0 .. count - 1 /\ i \in 0 .. count /\ i + 1 \in 0 .. count
            /\ first + i \in 1 .. Len(bs)
            BY <2>2, <1>3, SMT
      <3>2. past[i] = ends[i] /\ past[i + 1] = ends[i + 1] /\ cs[first + i] = bs[first + i]
            BY <3>1, <1>3, <1>7
      <3>3. /\ ends[i + 1] = ends[i] + 1 + Len(bs[first + i])
            /\ IsBlock(payload, ends[i], bs[first + i])
            BY <3>1, <1>5
      <3>4. /\ ends[i] \in 0 .. size /\ ends[i + 1] \in 0 .. size
            /\ Len(bs[first + i]) \in Nat
            BY <3>1, <1>5
      <3> DEFINE long == Len(bs[first + i])
      <3>5. ends[i] + 1 \in 1 .. size /\ \A j \in 1 .. long : ends[i] + 1 + j \in 1 .. size
        <4> DEFINE a == ends[i]
                   z == ends[i + 1]
        <4>1. long \in Nat /\ z = a + 1 + long /\ a \in 0 .. size /\ z \in 0 .. size
              BY <3>3, <3>4
        <4> HIDE DEF long, a, z
        <4>2. a + 1 \in 1 .. size /\ \A j \in 1 .. long : a + 1 + j \in 1 .. size
              BY <4>1, <1>2, SMT
        <4> QED BY <4>2 DEF a, long
      <3>6. IsBlock(more, ends[i], bs[first + i]) BY <3>3, <3>5, <1>1 DEF IsBlock
      <3> QED BY <3>2, <3>3, <3>6
    <2> QED BY <2>1, <2>2
  <1>10. Blocks(more, count + 1, cs, first, past) BY <1>1, <1>6, <1>7, <1>8, <1>9 DEF Blocks
  <1> QED BY <1>10 DEF BlocksAre, more, cs

\* What was published before stays where it is.
LEMMA BlocksStay ==
    ASSUME NEW payload \in Seq(Nat), NEW count \in Nat, NEW bs \in Seq(Seq(Nat)),
           NEW first \in Nat, first > 0, first + count <= Len(bs) + 1,
           BlocksAre(payload, count, bs, first), NEW body \in Seq(Nat)
    PROVE  BlocksAre(payload, count, Append(bs, body), first)
PROOF
  <1> DEFINE cs == Append(bs, body)
  <1>1. Len(bs) \in Nat /\ \A n \in 1 .. Len(bs) : cs[n] = bs[n] BY Appended
  <1> HIDE DEF cs
  <1>2. PICK ends : Blocks(payload, count, bs, first, ends) BY DEF BlocksAre
  <1>3. \A i \in 0 .. count - 1 : first + i \in 1 .. Len(bs) BY <1>1, SMT
  <1>4. \A i \in 0 .. count - 1 : cs[first + i] = bs[first + i] BY <1>1, <1>3
  <1>5. Blocks(payload, count, cs, first, ends) BY <1>2, <1>4 DEF Blocks
  <1> QED BY <1>5 DEF BlocksAre, cs

LEMMA CarriesStill ==
    ASSUME NEW kind, NEW bs \in Seq(Seq(Nat)), NEW p, Carries(kind, p, bs), NEW body \in Seq(Nat)
    PROVE  Carries(kind, p, Append(bs, body))
PROOF
  <1>1. /\ p \in Datagrams /\ p.sequence > 0 /\ p.sequence + p.count <= Len(bs) + 1
        /\ BlocksAre(p.payload, p.count, bs, p.sequence)
        BY DEF Carries
  <1>2. p.payload \in Seq(Nat) /\ p.count \in Nat /\ p.sequence \in Nat BY <1>1 DEF Datagrams
  <1>3. BlocksAre(p.payload, p.count, Append(bs, body), p.sequence) BY <1>1, <1>2, BlocksStay
  <1>4. Len(Append(bs, body)) = Len(bs) + 1 /\ Len(bs) \in Nat BY Appended
  <1>5. p.sequence + p.count <= Len(Append(bs, body)) + 1 BY <1>1, <1>2, <1>4
  <1> QED BY <1>3, <1>5 DEF Carries

\* A publisher has what was submitted and not yet sent in its open datagram.
PubCarries(p, bs) ==
    /\ p.next > 0
    /\ p.open => /\ BlocksAre(p.builder.payload, p.builder.count, bs, p.next)
                 /\ p.next + p.builder.count = Len(bs) + 1
    /\ ~p.open => p.next = Len(bs) + 1

\* At most one datagram leaves, and it carries what its number says.
Gives(kind, r, bs) ==
    /\ PubCarries(r.publisher, bs)
    /\ \/ r.packets = <<>>
       \/ \E packet : r.packets = <<packet>> /\ Carries(kind, packet, bs)

LEMMA EmptyBlocks == ASSUME NEW bs, NEW first PROVE BlocksAre(<<>>, 0, bs, first)
PROOF
  <1> DEFINE ends == [i \in 0 .. 0 |-> 0]
  <1>1. Len(<<>>) = 0 /\ 0 \in 0 .. 0 /\ 0 .. 0 - 1 = {} BY SMT
  <1>2. ends \in [0 .. 0 -> 0 .. 0] /\ ends[0] = 0 BY <1>1
  <1> HIDE DEF ends
  <1>3. Blocks(<<>>, 0, bs, first, ends) BY <1>1, <1>2 DEF Blocks
  <1> QED BY <1>3 DEF BlocksAre

LEMMA FlushGives ==
    ASSUME NEW kind, NEW p, PublisherOk(p), NEW bs \in Seq(Seq(Nat)), PubCarries(p, bs)
    PROVE  Gives(kind, Flush(kind, p), bs) /\ ~Flush(kind, p).publisher.open
PROOF
  <1> DEFINE r == Flush(kind, p)
             b == p.builder
  <1>1. /\ p \in Publishers /\ BuilderOk(b) /\ p.next \in Nat
        /\ p.open => b.sequence = p.next /\ b.offset = p.offset
        BY DEF PublisherOk, Publishers
  <1>2. b \in Builders /\ Len(b.payload) <= MaxPayload /\ Splits(b.payload, b.count)
        BY <1>1 DEF BuilderOk
  <1>3. b.payload \in Seq(Nat) /\ b.count \in Nat BY <1>2 DEF Builders
  <1>4. /\ p.next > 0
        /\ p.open => BlocksAre(b.payload, b.count, bs, p.next) /\ p.next + b.count = Len(bs) + 1
        /\ ~p.open => p.next = Len(bs) + 1
        BY DEF PubCarries
  <1>5. Len(bs) \in Nat OBVIOUS
  <1>6. CASE ~Pending(p)
    <2> DEFINE shut == FALSE
               q == [p EXCEPT !.open = shut]
    <2>1. r = Emitted(q, <<>>, "ok") BY <1>6 DEF Flush
    <2>2. shut \in BOOLEAN /\ ~shut OBVIOUS
    <2> HIDE DEF shut
    <2>3. q.open = shut /\ q.next = p.next BY <1>1, <2>2 DEF Publishers
    <2> HIDE DEF q, r
    <2>4. r.publisher = q /\ r.packets = <<>> BY <2>1, EmittedFields
    <2>5. p.next = Len(bs) + 1
      <3>1. p.open => ~(b.count > 0) BY <1>6 DEF Pending
      <3>2. p.open => b.count = 0 BY <3>1, <1>3
      <3> QED BY <3>2, <1>4, <1>1, <1>5
    <2>6. PubCarries(q, bs) BY <2>2, <2>3, <2>5, <1>4 DEF PubCarries
    <2> QED BY <2>2, <2>3, <2>4, <2>6 DEF Gives, r
  <1>7. CASE Pending(p)
    <2> DEFINE packet == Finish(kind, b)
               on == Advance(kind, p, packet)
               started == TRUE
               shut == FALSE
               q == [on EXCEPT !.open = shut, !.quiet = 0]
               further == p.next + packet.count
               offset == IF TracksStreamOffset(kind) THEN p.offset + Len(packet.payload)
                         ELSE p.offset
    <2>1. p.open /\ b.count > 0 BY <1>7 DEF Pending
    <2>2. /\ packet \in Datagrams /\ packet.sequence = p.next /\ packet.count = b.count
          /\ packet.payload = b.payload
          BY <1>1, <2>1, Finished
    <2>3. packet.whole /\ (kind = "iextp" => packet.length = Len(b.payload)) BY DEF Finish
    <2>4. r = Emitted(q, <<packet>>, "ok") BY <1>7 DEF Flush
    <2>5. on = [p EXCEPT !.next = further, !.offset = offset, !.started = started]
          BY DEF Advance
    <2>6. further \in Nat /\ offset \in Nat
      <3>1. p.offset \in Nat BY <1>1 DEF Publishers
      <3>2. Len(packet.payload) \in Nat /\ packet.count \in Nat BY <1>3, <2>2
      <3> DEFINE x == packet.count
                 y == Len(packet.payload)
      <3>3. x \in Nat /\ y \in Nat BY <3>2
      <3> HIDE DEF x, y
      <3>4. p.next + x \in Nat /\ p.offset + y \in Nat BY <1>1, <3>1, <3>3, SMT
      <3> QED BY <3>1, <3>4 DEF x, y
    <2>7. started \in BOOLEAN /\ shut \in BOOLEAN /\ ~shut OBVIOUS
    <2> HIDE DEF started, shut, on, further, offset, packet, r
    <2>8. on \in Publishers /\ on.next = further BY <1>1, <2>5, <2>6, <2>7 DEF Publishers
    <2>9. q.open = shut /\ q.next = on.next BY <2>7, <2>8 DEF Publishers
    <2> HIDE DEF q
    <2>10. r.publisher = q /\ r.packets = <<packet>> BY <2>4, EmittedFields
    <2>11. further = Len(bs) + 1 BY <1>4, <2>1, <2>2 DEF further
    <2>12. PubCarries(q, bs)
      <3>1. q.next = Len(bs) + 1 BY <2>8, <2>9, <2>11
      <3> QED BY <3>1, <1>5, <2>7, <2>9 DEF PubCarries
    <2>13. Carries(kind, packet, bs)
      <3>1. b.count <= Len(b.payload) BY <1>2 DEF Splits
      <3>2. p.next + b.count <= Len(bs) + 1 BY <1>1, <1>3, <1>4, <1>5, <2>1
      <3> QED BY <3>1, <3>2, <2>1, <2>2, <2>3, <1>2, <1>4 DEF Carries
    <2> QED BY <2>7, <2>9, <2>10, <2>12, <2>13 DEF Gives, r
  <1> QED BY <1>6, <1>7

\* A new datagram is opened where what was submitted ends.
LEMMA OpenedCarries ==
    ASSUME NEW p, PublisherOk(p), ~p.open, NEW bs \in Seq(Seq(Nat)), PubCarries(p, bs)
    PROVE  PubCarries(OpenBuilder(p), bs)
PROOF
  <1> DEFINE q == OpenBuilder(p)
  <1>1. /\ q.next = p.next /\ q.open /\ q.builder.payload = <<>> /\ q.builder.count = 0
        BY OpenedBuilder
  <1>2. p.next > 0 /\ p.next = Len(bs) + 1 BY DEF PubCarries
  <1>3. Len(bs) \in Nat OBVIOUS
  <1>4. BlocksAre(q.builder.payload, q.builder.count, bs, q.next) BY <1>1, EmptyBlocks
  <1> HIDE DEF q
  <1>5. q.next + q.builder.count = Len(bs) + 1 BY <1>1, <1>2, <1>3
  <1> QED BY <1>1, <1>2, <1>4, <1>5 DEF PubCarries, q

LEMMA AppendedCarries ==
    ASSUME NEW p, PublisherOk(p), p.open, NEW bs \in Seq(Seq(Nat)), PubCarries(p, bs),
           NEW body \in Seq(Nat)
    PROVE  PubCarries(AppendTo(p, body), Append(bs, body))
PROOF
  <1> DEFINE b == p.builder
             more == b.payload \o <<Len(body)>> \o body
             n == b.count + 1
             c == AppendBlock(b, body)
             q == AppendTo(p, body)
             cs == Append(bs, body)
  <1>1. p \in Publishers /\ b \in Builders /\ p.next \in Nat
        BY DEF PublisherOk, BuilderOk, Publishers
  <1>2. b.payload \in Seq(Nat) /\ b.count \in Nat BY <1>1 DEF Builders
  <1>3. /\ p.next > 0 /\ BlocksAre(b.payload, b.count, bs, p.next)
        /\ p.next + b.count = Len(bs) + 1
        BY DEF PubCarries
  <1>4. BlocksAre(more, n, cs, p.next)
    <2> HIDE DEF b
    <2> QED BY <1>1, <1>2, <1>3, BlocksGrow
  <1>5. Len(cs) = Len(bs) + 1 /\ Len(bs) \in Nat BY Appended
  <1>6. c = [b EXCEPT !.payload = more, !.count = n] BY DEF AppendBlock
  <1>7. more \in Seq(Nat) /\ n \in Nat BY <1>2, BlockAppended
  <1>8. q = [p EXCEPT !.builder = c] BY DEF AppendTo
  <1>9. p.next + n = Len(cs) + 1
    <2> DEFINE k == b.count
               x == p.next
               y == Len(bs)
               z == Len(cs)
    <2>1. k \in Nat /\ x \in Nat /\ y \in Nat /\ x + k = y + 1 /\ z = y + 1
          BY <1>1, <1>2, <1>3, <1>5
    <2> HIDE DEF k, x, y, z
    <2>2. x + (k + 1) = z + 1 BY <2>1
    <2> QED BY <2>2 DEF k, x, z
  <1> HIDE DEF more, n, c, cs
  <1>10. c \in Builders /\ c.payload = more /\ c.count = n BY <1>1, <1>6, <1>7 DEF Builders
  <1> HIDE DEF b, q
  <1>11. q.open = p.open /\ q.next = p.next /\ q.builder = c BY <1>1, <1>8, <1>10 DEF Publishers
  <1> QED BY <1>3, <1>4, <1>9, <1>10, <1>11 DEF PubCarries, q, cs

\* submit(): refused and nothing changes, or the body is the last one submitted.
LEMMA SubmitGives ==
    ASSUME NEW kind, NEW p, PublisherOk(p), NEW bs \in Seq(Seq(Nat)), PubCarries(p, bs),
           NEW body \in Seq(Nat)
    PROVE  LET r == Submit(kind, p, body)
           IN  \/ /\ r.outcome # "ok" /\ r.publisher = p /\ r.packets = <<>>
               \/ /\ r.outcome = "ok" /\ Len(body) < MaxPayload
                  /\ Gives(kind, r, Append(bs, body))
PROOF
  <1> DEFINE r == Submit(kind, p, body)
             opened == IF p.open THEN p ELSE OpenBuilder(p)
             sent == Flush(kind, opened)
             anew == OpenBuilder(sent.publisher)
             cs == Append(bs, body)
  <1>1. PublisherOk(opened) /\ opened.open /\ PubCarries(opened, bs)
    <2>1. CASE p.open BY <2>1
    <2>2. CASE ~p.open BY <2>2, OpenedBuilder, OpenedCarries
    <2> QED BY <2>1, <2>2
  <1>2. r = IF 1 + Len(body) > MaxPayload THEN Emitted(p, <<>>, "invalid_argument")
            ELSE IF Fits(opened.builder, body, MaxPayload)
            THEN Emitted(AppendTo(opened, body), <<>>, "ok")
            ELSE Emitted(AppendTo(anew, body), sent.packets, "ok")
        BY DEF Submit
  <1>3. Gives(kind, sent, bs) /\ ~sent.publisher.open /\ Continues(kind, opened, sent)
    <2> HIDE DEF opened
    <2> QED BY <1>1, FlushGives, FlushContinues
  <1>e. \A q, packets, outcome :
           /\ Emitted(q, packets, outcome).publisher = q
           /\ Emitted(q, packets, outcome).packets = packets
           /\ Emitted(q, packets, outcome).outcome = outcome
        BY DEF Emitted
  <1>l. ~(1 + Len(body) > MaxPayload) => Len(body) < MaxPayload
    <2>1. Len(body) \in Nat OBVIOUS
    <2> QED BY <2>1, VenueNumbers
  <1> HIDE DEF r, opened, sent
  <1>4. CASE 1 + Len(body) > MaxPayload BY <1>2, <1>4, <1>e DEF r
  <1>5. CASE ~(1 + Len(body) > MaxPayload) /\ Fits(opened.builder, body, MaxPayload)
    <2> DEFINE q == AppendTo(opened, body)
    <2>1. PubCarries(q, cs) BY <1>1, AppendedCarries
    <2>2. r = Emitted(q, <<>>, "ok") BY <1>2, <1>5
    <2> HIDE DEF q, cs
    <2>3. r.publisher = q /\ r.packets = <<>> /\ r.outcome = "ok" BY <2>2, <1>e
    <2> QED BY <2>1, <2>3, <1>5, <1>l DEF Gives, r, cs
  <1>6. CASE ~(1 + Len(body) > MaxPayload) /\ ~Fits(opened.builder, body, MaxPayload)
    <2> DEFINE q == AppendTo(anew, body)
    <2>1. PublisherOk(sent.publisher) /\ PubCarries(sent.publisher, bs)
          BY <1>3 DEF Continues, Gives
    <2>2. PublisherOk(anew) /\ anew.open /\ PubCarries(anew, bs)
          BY <2>1, <1>3, OpenedBuilder, OpenedCarries
    <2> HIDE DEF anew
    <2>3. PubCarries(q, cs) BY <2>2, AppendedCarries
    <2>4. r = Emitted(q, sent.packets, "ok") BY <1>2, <1>6 DEF anew
    <2>5. \A packet : Carries(kind, packet, bs) => Carries(kind, packet, cs) BY CarriesStill
    <2> HIDE DEF q, cs
    <2>6. r.publisher = q /\ r.packets = sent.packets /\ r.outcome = "ok" BY <2>4, <1>e
    <2>7. Gives(kind, r, cs) BY <2>3, <2>5, <2>6, <1>3 DEF Gives
    <2> QED BY <2>6, <2>7, <1>6, <1>l DEF r, cs
  <1> QED BY <1>4, <1>5, <1>6

\* poll(): a heartbeat goes out only when nothing is pending.
LEMMA PollGives ==
    ASSUME NEW kind, NEW p, PublisherOk(p), NEW bs \in Seq(Seq(Nat)), PubCarries(p, bs)
    PROVE  Gives(kind, Poll(kind, p), bs)
PROOF
  <1>1. CASE Pending(p) BY <1>1, FlushGives DEF Poll
  <1>2. CASE ~Pending(p) /\ p.started /\ p.quiet < HeartbeatInterval
    <2>1. Poll(kind, p) = Emitted(p, <<>>, "ok") BY <1>2 DEF Poll
    <2> QED BY <2>1, EmittedFields DEF Gives
  <1>3. CASE ~Pending(p) /\ ~(p.started /\ p.quiet < HeartbeatInterval)
    <2> DEFINE packet == EncodeHeartbeat(Session, p.next, p.offset)
               started == TRUE
               shut == FALSE
               q == [p EXCEPT !.open = shut, !.started = started, !.quiet = 0]
               r == Poll(kind, p)
    <2>1. r = Emitted(q, <<packet>>, "ok") BY <1>3 DEF Poll, SendHeartbeat
    <2>2. /\ p \in Publishers /\ p.next \in Nat /\ p.offset \in Nat /\ p.builder.count \in Nat
          BY DEF PublisherOk, Publishers, Builders
    <2>3. started \in BOOLEAN /\ shut \in BOOLEAN /\ ~shut OBVIOUS
    <2>4. /\ packet.whole = TRUE /\ packet.session = Session /\ packet.sequence = p.next
          /\ packet.count = 0 /\ packet.length = 0 /\ packet.payload = <<>>
          BY DEF EncodeHeartbeat
    <2>5. packet \in Datagrams
      <3>1. <<>> \in Seq(Nat) OBVIOUS
      <3> QED BY <2>2, <3>1 DEF Datagrams, EncodeHeartbeat
    <2> HIDE DEF packet, started, shut
    <2>6. q.open = shut /\ q.next = p.next BY <2>2, <2>3 DEF Publishers
    <2> HIDE DEF q, r
    <2>7. r.publisher = q /\ r.packets = <<packet>> BY <2>1, EmittedFields
    <2>8. p.next > 0 /\ p.next = Len(bs) + 1
      <3>1. p.open => ~(p.builder.count > 0) BY <1>3 DEF Pending
      <3>2. p.open => p.builder.count = 0 BY <3>1, <2>2
      <3>3. Len(bs) \in Nat OBVIOUS
      <3> QED BY <3>2, <3>3, <2>2 DEF PubCarries
    <2>9. PubCarries(q, bs) BY <2>3, <2>6, <2>8 DEF PubCarries
    <2>10. Carries(kind, packet, bs)
      <3>1. Len(<<>>) = 0 OBVIOUS
      <3>2. Len(packet.payload) = 0 BY <2>4, <3>1
      <3>3. BlocksAre(packet.payload, packet.count, bs, packet.sequence) BY <2>4, EmptyBlocks
      <3>4. packet.sequence + packet.count <= Len(bs) + 1 BY <2>2, <2>4, <2>8
      <3> QED BY <2>4, <2>5, <2>8, <3>2, <3>3, <3>4, VenueNumbers DEF Carries
    <2> QED BY <2>7, <2>9, <2>10 DEF Gives, r
  <1> QED BY <1>1, <1>2, <1>3

\* What was submitted is in the stream and in the open datagram, in order from one.
PackInv ==
    /\ BodiesOk(bodies)
    /\ PubCarries(pub, bodies)
    /\ \A i \in 1 .. Len(stream) : Carries(protocol, stream[i], bodies)
    /\ IF stream = <<>> THEN pub.next = 1 ELSE stream[1].sequence = 1

LEMMA PublishedPacks ==
    ASSUME StreamInv, PackInv, NEW r, Published(r), Continues(protocol, pub, r),
           NEW bs, bodies' = bs, BodiesOk(bs), Gives(protocol, r, bs), protocol' = protocol,
           \A packet : Carries(protocol, packet, bodies) => Carries(protocol, packet, bs)
    PROVE  PackInv'
PROOF
  <1>1. pub' = r.publisher /\ stream' = stream \o r.packets BY DEF Published
  <1>2. stream \in Seq(Datagrams) BY DEF StreamInv
  <1>3. /\ \A i \in 1 .. Len(stream) : Carries(protocol, stream[i], bs)
        /\ stream = <<>> => pub.next = 1
        /\ stream # <<>> => stream[1].sequence = 1
        BY DEF PackInv
  <1>4. BodiesOk(bodies') /\ PubCarries(pub', bodies') BY <1>1 DEF Gives
  <1>5. CASE r.packets = <<>> /\ r.publisher.next = pub.next
    <2>1. stream' = stream BY <1>1, <1>2, <1>5
    <2> QED BY <2>1, <1>1, <1>3, <1>4, <1>5 DEF PackInv
  <1>6. ASSUME NEW packet, r.packets = <<packet>>, packet.sequence = pub.next,
               packet \in Datagrams
        PROVE  PackInv'
    <2>1. Carries(protocol, packet, bs)
      <3>1. r.packets # <<>> BY <1>6
      <3>2. PICK other : r.packets = <<other>> /\ Carries(protocol, other, bs)
            BY <3>1 DEF Gives
      <3>3. other = packet BY <1>6, <3>2
      <3> QED BY <3>2, <3>3
    <2> DEFINE more == stream \o <<packet>>
               n == Len(stream)
    <2>2. stream' = more BY <1>1, <1>6
    <2>3. /\ n \in Nat /\ Len(more) = n + 1 /\ more[n + 1] = packet
          /\ \A i \in 1 .. n : more[i] = stream[i]
      <3>1. more = Append(stream, packet) BY <1>2, <1>6
      <3> HIDE DEF more
      <3> QED BY <1>2, <1>6, <3>1
    <2>f. n = Len(stream) OBVIOUS
    <2>4. more # <<>>
      <3>1. Len(more) # 0 BY <2>3
      <3> HIDE DEF more
      <3> QED BY <3>1
    <2>5. stream = <<>> => n = 0 OBVIOUS
    <2>6. stream # <<>> => 1 \in 1 .. n BY <1>2
    <2> HIDE DEF n, more
    <2>7. \A i \in 1 .. Len(more) : Carries(protocol, more[i], bs)
      <3>1. \A i \in 1 .. n + 1 : i = n + 1 \/ i \in 1 .. n BY <2>3, SMT
      <3> QED BY <3>1, <2>1, <2>3, <2>f, <1>3
    <2>8. more[1].sequence = 1
      <3>1. CASE stream = <<>>
        <4>1. more[1] = packet BY <3>1, <2>3, <2>5
        <4> QED BY <4>1, <3>1, <1>3, <1>6
      <3>2. CASE stream # <<>> BY <3>2, <2>3, <2>6, <1>3
      <3> QED BY <3>1, <3>2
    <2> QED BY <2>2, <2>4, <2>7, <2>8, <1>4 DEF PackInv
  <1> QED BY <1>5, <1>6 DEF Continues, Follows

LEMMA BodyIsOk ==
    ASSUME NEW size \in BodySizes, BodiesOk(bodies),
           NEW body, body = [i \in 1 .. size |-> EndOfSession + Len(bodies) + 1],
           Len(body) < MaxPayload
    PROVE  BodiesOk(Append(bodies, body))
PROOF
  <1>1. bodies \in Seq(Seq(Nat)) BY DEF BodiesOk
  <1>2. body \in Seq(Nat) BY <1>1, BodyIsNumbers
  <1> DEFINE n == Len(bodies)
             cs == Append(bodies, body)
             value == EndOfSession + n + 1
  <1>3. /\ cs \in Seq(Seq(Nat)) /\ Len(cs) = n + 1 /\ cs[n + 1] = body /\ n \in Nat
        /\ \A i \in 1 .. n : cs[i] = bodies[i]
        BY <1>1, <1>2, Appended
  <1>4. value > EndOfSession BY <1>3, FramingAssumption
  <1>5. \A j \in 1 .. Len(body) : body[j] > EndOfSession
    <2>1. size \in Nat BY FeedAssumption
    <2>2. Len(body) = size BY <2>1
    <2> HIDE DEF value
    <2>3. \A j \in 1 .. size : body[j] = value BY DEF value
    <2> QED BY <2>2, <2>3, <1>4
  <1>6. \A i \in 1 .. n + 1 : i = n + 1 \/ i \in 1 .. n BY <1>3, SMT
  <1>7. \A i \in 1 .. n : Len(bodies[i]) < MaxPayload
                          /\ \A j \in 1 .. Len(bodies[i]) : bodies[i][j] > EndOfSession
        BY DEF BodiesOk
  <1> HIDE DEF n, cs, value
  <1>8. \A i \in 1 .. Len(cs) : Len(cs[i]) < MaxPayload
                                /\ \A j \in 1 .. Len(cs[i]) : cs[i][j] > EndOfSession
        BY <1>3, <1>5, <1>6, <1>7
  <1> QED BY <1>3, <1>8 DEF BodiesOk, cs

LEMMA PackStep == StreamInv /\ PackInv /\ [Next]_vars => PackInv'
PROOF
  <1> SUFFICES ASSUME StreamInv, PackInv, [Next]_vars PROVE PackInv' OBVIOUS
  <1>i. /\ PublisherOk(pub) /\ bodies \in Seq(Seq(Nat)) /\ BodiesOk(bodies)
        /\ PubCarries(pub, bodies)
        BY DEF StreamInv, PackInv
  <1>1. CASE UNCHANGED <<protocol, pub, bodies, stream>> BY <1>1 DEF PackInv
  <1>2. ASSUME NEW r, Published(r), Continues(protocol, pub, r), Gives(protocol, r, bodies),
               protocol' = protocol, bodies' = bodies
        PROVE  PackInv'
        BY <1>2, <1>i, PublishedPacks
  <1>3. CASE SubmitMessage
    <2>1. PICK size \in BodySizes :
             LET body == [i \in 1 .. size |-> EndOfSession + Len(bodies) + 1]
                 result == Submit(protocol, pub, body)
             IN  /\ Published(result)
                 /\ bodies' = IF result.outcome = "ok" THEN Append(bodies, body) ELSE bodies
          BY <1>3 DEF SubmitMessage
    <2> DEFINE body == [i \in 1 .. size |-> EndOfSession + Len(bodies) + 1]
               r == Submit(protocol, pub, body)
               cs == Append(bodies, body)
    <2>2. body \in Seq(Nat) BY <1>i, BodyIsNumbers
    <2>3. Published(r) /\ protocol' = protocol
          /\ bodies' = IF r.outcome = "ok" THEN cs ELSE bodies
          BY <2>1, <1>3 DEF SubmitMessage
    <2>b. Len(body) < MaxPayload => BodiesOk(cs) BY <1>i, BodyIsOk
    <2> HIDE DEF body
    <2>4. Continues(protocol, pub, r) BY <1>i, <2>2, SubmitContinues
    <2>5. \/ r.outcome # "ok" /\ r.publisher = pub /\ r.packets = <<>>
          \/ r.outcome = "ok" /\ Len(body) < MaxPayload /\ Gives(protocol, r, cs)
          BY <1>i, <2>2, SubmitGives
    <2>6. \A packet : Carries(protocol, packet, bodies) => Carries(protocol, packet, cs)
          BY <1>i, <2>2, CarriesStill
    <2> HIDE DEF r, cs
    <2>7. CASE r.outcome # "ok" /\ r.publisher = pub /\ r.packets = <<>>
      <3>1. Gives(protocol, r, bodies) /\ bodies' = bodies BY <2>3, <2>7, <1>i DEF Gives
      <3> QED BY <3>1, <2>3, <2>4, <1>2
    <2>8. CASE r.outcome = "ok" /\ Len(body) < MaxPayload /\ Gives(protocol, r, cs)
      <3>1. bodies' = cs /\ BodiesOk(cs) BY <2>3, <2>8, <2>b
      <3> QED BY <3>1, <2>3, <2>4, <2>6, <2>8, PublishedPacks
    <2> QED BY <2>5, <2>7, <2>8
  <1>4. CASE FlushPublisher
    <2>1. Continues(protocol, pub, Flush(protocol, pub)) BY <1>i, FlushContinues
    <2>2. Gives(protocol, Flush(protocol, pub), bodies) BY <1>i, FlushGives
    <2>3. /\ Published(Flush(protocol, pub)) /\ protocol' = protocol /\ bodies' = bodies
          BY <1>4, Zenon DEF FlushPublisher
    <2> QED BY <1>2, <2>1, <2>2, <2>3
  <1>5. CASE PollPublisher
    <2>1. Continues(protocol, pub, Poll(protocol, pub)) BY <1>i, PollContinues
    <2>2. Gives(protocol, Poll(protocol, pub), bodies) BY <1>i, PollGives
    <2>3. /\ Published(Poll(protocol, pub)) /\ protocol' = protocol /\ bodies' = bodies
          BY <1>5, Zenon DEF PollPublisher
    <2> QED BY <1>2, <2>1, <2>2, <2>3
  <1>6. CASE Quiet
    <2>1. /\ pub' = [pub EXCEPT !.quiet = pub.quiet + 1]
          /\ UNCHANGED <<protocol, bodies, stream>>
          BY <1>6 DEF Quiet
    <2>2. pub \in Publishers BY <1>i DEF PublisherOk
    <2>3. /\ pub'.open = pub.open /\ pub'.builder = pub.builder
          /\ pub'.next = pub.next
          BY <2>1, <2>2 DEF Publishers
    <2>4. PubCarries(pub', bodies) BY <1>i, <2>3 DEF PubCarries
    <2> QED BY <1>i, <2>1, <2>3, <2>4 DEF PackInv
  <1>7. CASE FinishStream
    <2>1. Continues(protocol, pub, Flush(protocol, pub)) BY <1>i, FlushContinues
    <2>2. Gives(protocol, Flush(protocol, pub), bodies) BY <1>i, FlushGives
    <2>3. /\ Published(Flush(protocol, pub)) /\ protocol' = protocol /\ bodies' = bodies
          BY <1>7, Zenon DEF FinishStream
    <2> QED BY <1>2, <2>1, <2>2, <2>3
  <1>8. CASE OfferPacket BY <1>1, <1>8 DEF OfferPacket, venue
  <1>9. CASE FlushLine BY <1>1, <1>9 DEF FlushLine, venue
  <1>10. CASE AskFacility BY <1>1, <1>10 DEF AskFacility, venue
  <1>11. CASE AskSnapshot BY <1>1, <1>11 DEF AskSnapshot, venue
  <1>12. CASE SnapshotWaits BY <1>1, <1>12 DEF SnapshotWaits, venue
  <1>13. CASE SnapshotArrives BY <1>1, <1>13 DEF SnapshotArrives, venue
  <1>14. CASE UNCHANGED vars BY <1>1, <1>14 DEF vars, venue
  <1> QED BY <1>3, <1>4, <1>5, <1>6, <1>7, <1>8, <1>9, <1>10, <1>11, <1>12, <1>13, <1>14
          DEF Next

LEMMA PackHoldsAtFirst == Init => PackInv
PROOF
  <1> SUFFICES ASSUME Init PROVE PackInv OBVIOUS
  <1>1. pub = NewPublisher(1) /\ bodies = <<>> /\ stream = <<>> BY DEF Init
  <1>2. pub.open = FALSE /\ pub.next = 1 BY <1>1 DEF NewPublisher
  <1>3. <<>> \in Seq(Seq(Nat)) /\ Len(<<>>) = 0 /\ 1 .. 0 = {} BY SMT
  <1>4. BodiesOk(bodies) BY <1>1, <1>3 DEF BodiesOk
  <1>5. PubCarries(pub, bodies) BY <1>1, <1>2, <1>3 DEF PubCarries
  <1> QED BY <1>1, <1>2, <1>3, <1>4, <1>5 DEF PackInv

-----------------------------------------------------------------------------
(* The folds of the model, step by step.                                     *)

\* A block is taken as long as nothing was wrong.
NextIfOk(c) == IF c.error = "ok" THEN NextBlock(c) ELSE c

LEMMA FirstToLast ==
    ASSUME NEW A, NEW n \in Nat, NEW iter, iter[1 .. 0] \in A,
           \A k \in 1 .. n : iter[1 .. k - 1] \in A => iter[1 .. k] \in A
    PROVE  \A k \in 0 .. n : iter[1 .. k] \in A
PROOF
  <1> DEFINE S == {k \in Nat : k <= n => iter[1 .. k] \in A}
  <1>1. 0 \in S OBVIOUS
  <1>2. \A k \in S : k + 1 \in S
    <2> SUFFICES ASSUME NEW k \in Nat, k <= n => iter[1 .. k] \in A, k + 1 <= n
                 PROVE  iter[1 .. k + 1] \in A
        OBVIOUS
    <2>1. k <= n /\ k + 1 \in 1 .. n /\ (k + 1) - 1 = k BY SMT
    <2>2. iter[1 .. (k + 1) - 1] \in A BY <2>1
    <2> QED BY <2>1, <2>2
  <1>3. S = Nat
    <2>1. S \in SUBSET Nat OBVIOUS
    <2> HIDE DEF S
    <2> QED BY <2>1, <1>1, <1>2, NumbersByInduction
  <1> QED BY <1>3

\* The walk of drain().
Drained(base, seq) == FoldLeft(LAMBDA c, i : NextIfOk(c), base, seq)

DrainStep(h, base, seq) ==
    h = [s \in SUBSET DOMAIN seq |->
           IF s = {} THEN base ELSE NextIfOk(h[s \ {Max(s)}])]

DrainWalks(v, A, base, n, seq) ==
    /\ v \in [0 .. n -> A] /\ v[0] = base /\ v[n] = Drained(base, seq)
    /\ \A k \in 1 .. n : v[k] = NextIfOk(v[k - 1])

LEMMA DrainWalk ==
    ASSUME NEW A, NEW base \in A, NEW n \in Nat, NEW seq, DOMAIN seq = 1 .. n,
           \A a \in A, i \in 1 .. n : NextIfOk(a) \in A
    PROVE  \E v : DrainWalks(v, A, base, n, seq)
PROOF
  <1> DEFINE B == {seq[k] : k \in 1 .. n}
             f == [p \in A \X B |-> NextIfOk(p[1])]
             iter == CHOOSE h : DrainStep(h, base, seq)
             all == [k \in 1 .. n |-> seq[k]]
             r == Drained(base, seq)
  <1>1. all \in [1 .. n -> B] /\ \A k \in 1 .. n : all[k] = seq[k] OBVIOUS
  <1>b. \A a \in A, b \in B : NextIfOk(a) \in A OBVIOUS
  <1> HIDE DEF all, B
  <1>2. f \in [A \X B -> A] /\ \A a \in A, b \in B : f[<<a, b>>] = NextIfOk(a)
    <2>1. \A p \in A \X B : NextIfOk(p[1]) \in A BY <1>b
    <2> QED BY <2>1
  <1> HIDE DEF f
  <1>3. PICK h : FoldsInto(h, A, f, base, all, n) BY <1>1, <1>2, FoldExists
  <1>4. \A s \in SUBSET (1 .. n) : s # {} => Max(s) \in s /\ s \ {Max(s)} \in SUBSET (1 .. n)
        BY GreatestNumber
  <1>5. DrainStep(h, base, seq)
    <2>1. ASSUME NEW s \in SUBSET (1 .. n)
          PROVE  h[s] = IF s = {} THEN base ELSE NextIfOk(h[s \ {Max(s)}])
      <3>1. h \in [SUBSET (1 .. n) -> A]
            /\ h[s] = IF s = {} THEN base ELSE f[<<h[s \ {Max(s)}], all[Max(s)]>>]
            BY <1>3 DEF FoldsInto
      <3>2. CASE s # {}
        <4>1. /\ h[s \ {Max(s)}] \in A /\ all[Max(s)] \in B /\ all[Max(s)] = seq[Max(s)]
              BY <3>1, <3>2, <1>1, <1>4
        <4> QED BY <4>1, <3>1, <3>2, <1>2
      <3> QED BY <3>1, <3>2
    <2>2. h = [s \in SUBSET (1 .. n) |-> h[s]] BY <1>3 DEF FoldsInto
    <2> QED BY <2>1, <2>2 DEF DrainStep
  <1>6. DrainStep(iter, base, seq) BY <1>5, Zenon
  <1>7. r = iter[1 .. n] BY Zenon DEF DrainStep, FoldLeft, MapThenFoldSet, Drained
  <1> HIDE DEF iter, r
  <1>8. \A s \in SUBSET (1 .. n) :
           iter[s] = IF s = {} THEN base ELSE NextIfOk(iter[s \ {Max(s)}])
    <2>1. iter = [s \in SUBSET (1 .. n) |->
                    IF s = {} THEN base ELSE NextIfOk(iter[s \ {Max(s)}])]
          BY <1>6, Zenon DEF DrainStep
    <2> QED BY <2>1
  <1>9. iter[1 .. 0] = base
    <2>1. 1 .. 0 = {} /\ 1 .. 0 \in SUBSET (1 .. n) BY SMT
    <2> QED BY <2>1, <1>8
  <1>10. \A k \in 1 .. n : iter[1 .. k] = NextIfOk(iter[1 .. k - 1])
    <2> TAKE k \in 1 .. n
    <2>1. /\ 1 .. k \in SUBSET (1 .. n) /\ 1 .. k # {} /\ Max(1 .. k) = k
          /\ (1 .. k) \ {k} = 1 .. k - 1
          BY FirstIndices
    <2> QED BY <2>1, <1>8
  <1>11. \A k \in 0 .. n : iter[1 .. k] \in A
    <2>1. \A k \in 1 .. n : iter[1 .. k - 1] \in A => iter[1 .. k] \in A BY <1>10
    <2> QED BY <2>1, <1>9, FirstToLast
  <1> DEFINE v == [k \in 0 .. n |-> iter[1 .. k]]
  <1>12. v \in [0 .. n -> A] BY <1>11
  <1>13. v[0] = base /\ v[n] = r
    <2>1. 0 \in 0 .. n /\ n \in 0 .. n BY SMT
    <2> QED BY <2>1, <1>7, <1>9
  <1>14. \A k \in 1 .. n : v[k] = NextIfOk(v[k - 1])
    <2>1. \A k \in 1 .. n : k \in 0 .. n /\ k - 1 \in 0 .. n BY SMT
    <2> QED BY <2>1, <1>10
  <1> HIDE DEF v
  <1>15. DrainWalks(v, A, base, n, seq) BY <1>12, <1>13, <1>14 DEF DrainWalks, r
  <1> QED BY <1>15

\* The walk of deliver_to_book().
Booked(base, seq) == FoldLeft(Step, base, seq)

IntoBookStep(h, base, seq) ==
    h = [s \in SUBSET DOMAIN seq |->
           IF s = {} THEN base ELSE Step(h[s \ {Max(s)}], seq[Max(s)])]

IntoBookWalks(v, A, base, n, seq) ==
    /\ v \in [0 .. n -> A] /\ v[0] = base /\ v[n] = Booked(base, seq)
    /\ \A k \in 1 .. n : v[k] = Step(v[k - 1], seq[k])

LEMMA IntoBookWalk ==
    ASSUME NEW A, NEW base \in A, NEW n \in Nat, NEW seq, DOMAIN seq = 1 .. n,
           \A a \in A, i \in 1 .. n : Step(a, seq[i]) \in A
    PROVE  \E v : IntoBookWalks(v, A, base, n, seq)
PROOF
  <1> DEFINE B == {seq[k] : k \in 1 .. n}
             f == [p \in A \X B |-> Step(p[1], p[2])]
             iter == CHOOSE h : IntoBookStep(h, base, seq)
             all == [k \in 1 .. n |-> seq[k]]
             r == Booked(base, seq)
  <1>1. all \in [1 .. n -> B] /\ \A k \in 1 .. n : all[k] = seq[k] OBVIOUS
  <1>b. \A a \in A, b \in B : Step(a, b) \in A OBVIOUS
  <1> HIDE DEF all, B
  <1>2. f \in [A \X B -> A] /\ \A a \in A, b \in B : f[<<a, b>>] = Step(a, b)
    <2>1. \A p \in A \X B : Step(p[1], p[2]) \in A BY <1>b
    <2> QED BY <2>1
  <1> HIDE DEF f
  <1>3. PICK h : FoldsInto(h, A, f, base, all, n) BY <1>1, <1>2, FoldExists
  <1>4. \A s \in SUBSET (1 .. n) : s # {} => Max(s) \in s /\ s \ {Max(s)} \in SUBSET (1 .. n)
        BY GreatestNumber
  <1>5. IntoBookStep(h, base, seq)
    <2>1. ASSUME NEW s \in SUBSET (1 .. n)
          PROVE  h[s] = IF s = {} THEN base ELSE Step(h[s \ {Max(s)}], seq[Max(s)])
      <3>1. h \in [SUBSET (1 .. n) -> A]
            /\ h[s] = IF s = {} THEN base ELSE f[<<h[s \ {Max(s)}], all[Max(s)]>>]
            BY <1>3 DEF FoldsInto
      <3>2. CASE s # {}
        <4>1. /\ h[s \ {Max(s)}] \in A /\ all[Max(s)] \in B /\ all[Max(s)] = seq[Max(s)]
              BY <3>1, <3>2, <1>1, <1>4
        <4> QED BY <4>1, <3>1, <3>2, <1>2
      <3> QED BY <3>1, <3>2
    <2>2. h = [s \in SUBSET (1 .. n) |-> h[s]] BY <1>3 DEF FoldsInto
    <2> QED BY <2>1, <2>2 DEF IntoBookStep
  <1>6. IntoBookStep(iter, base, seq) BY <1>5, Zenon
  <1>7. r = iter[1 .. n] BY Zenon DEF IntoBookStep, FoldLeft, MapThenFoldSet, Booked
  <1> HIDE DEF iter, r
  <1>8. \A s \in SUBSET (1 .. n) :
           iter[s] = IF s = {} THEN base ELSE Step(iter[s \ {Max(s)}], seq[Max(s)])
    <2>1. iter = [s \in SUBSET (1 .. n) |->
                    IF s = {} THEN base ELSE Step(iter[s \ {Max(s)}], seq[Max(s)])]
          BY <1>6, Zenon DEF IntoBookStep
    <2> QED BY <2>1
  <1>9. iter[1 .. 0] = base
    <2>1. 1 .. 0 = {} /\ 1 .. 0 \in SUBSET (1 .. n) BY SMT
    <2> QED BY <2>1, <1>8
  <1>10. \A k \in 1 .. n : iter[1 .. k] = Step(iter[1 .. k - 1], seq[k])
    <2> TAKE k \in 1 .. n
    <2>1. /\ 1 .. k \in SUBSET (1 .. n) /\ 1 .. k # {} /\ Max(1 .. k) = k
          /\ (1 .. k) \ {k} = 1 .. k - 1
          BY FirstIndices
    <2> QED BY <2>1, <1>8
  <1>11. \A k \in 0 .. n : iter[1 .. k] \in A
    <2>1. \A k \in 1 .. n : iter[1 .. k - 1] \in A => iter[1 .. k] \in A BY <1>10
    <2> QED BY <2>1, <1>9, FirstToLast
  <1> DEFINE v == [k \in 0 .. n |-> iter[1 .. k]]
  <1>12. v \in [0 .. n -> A] BY <1>11
  <1>13. v[0] = base /\ v[n] = r
    <2>1. 0 \in 0 .. n /\ n \in 0 .. n BY SMT
    <2> QED BY <2>1, <1>7, <1>9
  <1>14. \A k \in 1 .. n : v[k] = Step(v[k - 1], seq[k])
    <2>1. \A k \in 1 .. n : k \in 0 .. n /\ k - 1 \in 0 .. n BY SMT
    <2> QED BY <2>1, <1>10
  <1> HIDE DEF v
  <1>15. IntoBookWalks(v, A, base, n, seq) BY <1>12, <1>13, <1>14 DEF IntoBookWalks, r
  <1> QED BY <1>15

\* The walk of offer() over the packets of one call.
ReceivedOn(base, seq) == FoldLeft(Receive, base, seq)

ReceiveStep(h, base, seq) ==
    h = [s \in SUBSET DOMAIN seq |->
           IF s = {} THEN base ELSE Receive(h[s \ {Max(s)}], seq[Max(s)])]

ReceiveWalks(v, A, base, n, seq) ==
    /\ v \in [0 .. n -> A] /\ v[0] = base /\ v[n] = ReceivedOn(base, seq)
    /\ \A k \in 1 .. n : v[k] = Receive(v[k - 1], seq[k])

LEMMA ReceiveWalk ==
    ASSUME NEW A, NEW base \in A, NEW n \in Nat, NEW seq, DOMAIN seq = 1 .. n,
           \A a \in A, i \in 1 .. n : Receive(a, seq[i]) \in A
    PROVE  \E v : ReceiveWalks(v, A, base, n, seq)
PROOF
  <1> DEFINE B == {seq[k] : k \in 1 .. n}
             f == [p \in A \X B |-> Receive(p[1], p[2])]
             iter == CHOOSE h : ReceiveStep(h, base, seq)
             all == [k \in 1 .. n |-> seq[k]]
             r == ReceivedOn(base, seq)
  <1>1. all \in [1 .. n -> B] /\ \A k \in 1 .. n : all[k] = seq[k] OBVIOUS
  <1>b. \A a \in A, b \in B : Receive(a, b) \in A OBVIOUS
  <1> HIDE DEF all, B
  <1>2. f \in [A \X B -> A] /\ \A a \in A, b \in B : f[<<a, b>>] = Receive(a, b)
    <2>1. \A p \in A \X B : Receive(p[1], p[2]) \in A BY <1>b
    <2> QED BY <2>1
  <1> HIDE DEF f
  <1>3. PICK h : FoldsInto(h, A, f, base, all, n) BY <1>1, <1>2, FoldExists
  <1>4. \A s \in SUBSET (1 .. n) : s # {} => Max(s) \in s /\ s \ {Max(s)} \in SUBSET (1 .. n)
        BY GreatestNumber
  <1>5. ReceiveStep(h, base, seq)
    <2>1. ASSUME NEW s \in SUBSET (1 .. n)
          PROVE  h[s] = IF s = {} THEN base ELSE Receive(h[s \ {Max(s)}], seq[Max(s)])
      <3>1. h \in [SUBSET (1 .. n) -> A]
            /\ h[s] = IF s = {} THEN base ELSE f[<<h[s \ {Max(s)}], all[Max(s)]>>]
            BY <1>3 DEF FoldsInto
      <3>2. CASE s # {}
        <4>1. /\ h[s \ {Max(s)}] \in A /\ all[Max(s)] \in B /\ all[Max(s)] = seq[Max(s)]
              BY <3>1, <3>2, <1>1, <1>4
        <4> QED BY <4>1, <3>1, <3>2, <1>2
      <3> QED BY <3>1, <3>2
    <2>2. h = [s \in SUBSET (1 .. n) |-> h[s]] BY <1>3 DEF FoldsInto
    <2> QED BY <2>1, <2>2 DEF ReceiveStep
  <1>6. ReceiveStep(iter, base, seq) BY <1>5, Zenon
  <1>7. r = iter[1 .. n] BY Zenon DEF ReceiveStep, FoldLeft, MapThenFoldSet, ReceivedOn
  <1> HIDE DEF iter, r
  <1>8. \A s \in SUBSET (1 .. n) :
           iter[s] = IF s = {} THEN base ELSE Receive(iter[s \ {Max(s)}], seq[Max(s)])
    <2>1. iter = [s \in SUBSET (1 .. n) |->
                    IF s = {} THEN base ELSE Receive(iter[s \ {Max(s)}], seq[Max(s)])]
          BY <1>6, Zenon DEF ReceiveStep
    <2> QED BY <2>1
  <1>9. iter[1 .. 0] = base
    <2>1. 1 .. 0 = {} /\ 1 .. 0 \in SUBSET (1 .. n) BY SMT
    <2> QED BY <2>1, <1>8
  <1>10. \A k \in 1 .. n : iter[1 .. k] = Receive(iter[1 .. k - 1], seq[k])
    <2> TAKE k \in 1 .. n
    <2>1. /\ 1 .. k \in SUBSET (1 .. n) /\ 1 .. k # {} /\ Max(1 .. k) = k
          /\ (1 .. k) \ {k} = 1 .. k - 1
          BY FirstIndices
    <2> QED BY <2>1, <1>8
  <1>11. \A k \in 0 .. n : iter[1 .. k] \in A
    <2>1. \A k \in 1 .. n : iter[1 .. k - 1] \in A => iter[1 .. k] \in A BY <1>10
    <2> QED BY <2>1, <1>9, FirstToLast
  <1> DEFINE v == [k \in 0 .. n |-> iter[1 .. k]]
  <1>12. v \in [0 .. n -> A] BY <1>11
  <1>13. v[0] = base /\ v[n] = r
    <2>1. 0 \in 0 .. n /\ n \in 0 .. n BY SMT
    <2> QED BY <2>1, <1>7, <1>9
  <1>14. \A k \in 1 .. n : v[k] = Receive(v[k - 1], seq[k])
    <2>1. \A k \in 1 .. n : k \in 0 .. n /\ k - 1 \in 0 .. n BY SMT
    <2> QED BY <2>1, <1>10
  <1> HIDE DEF v
  <1>15. ReceiveWalks(v, A, base, n, seq) BY <1>12, <1>13, <1>14 DEF ReceiveWalks, r
  <1> QED BY <1>15

\* The walk of record() over the packets of one call.
RecordedOn(base, seq) == FoldLeft(Record, base, seq)

RecordStep(h, base, seq) ==
    h = [s \in SUBSET DOMAIN seq |->
           IF s = {} THEN base ELSE Record(h[s \ {Max(s)}], seq[Max(s)])]

RecordWalks(v, A, base, n, seq) ==
    /\ v \in [0 .. n -> A] /\ v[0] = base /\ v[n] = RecordedOn(base, seq)
    /\ \A k \in 1 .. n : v[k] = Record(v[k - 1], seq[k])

LEMMA RecordWalk ==
    ASSUME NEW A, NEW base \in A, NEW n \in Nat, NEW seq, DOMAIN seq = 1 .. n,
           \A a \in A, i \in 1 .. n : Record(a, seq[i]) \in A
    PROVE  \E v : RecordWalks(v, A, base, n, seq)
PROOF
  <1> DEFINE B == {seq[k] : k \in 1 .. n}
             f == [p \in A \X B |-> Record(p[1], p[2])]
             iter == CHOOSE h : RecordStep(h, base, seq)
             all == [k \in 1 .. n |-> seq[k]]
             r == RecordedOn(base, seq)
  <1>1. all \in [1 .. n -> B] /\ \A k \in 1 .. n : all[k] = seq[k] OBVIOUS
  <1>b. \A a \in A, b \in B : Record(a, b) \in A OBVIOUS
  <1> HIDE DEF all, B
  <1>2. f \in [A \X B -> A] /\ \A a \in A, b \in B : f[<<a, b>>] = Record(a, b)
    <2>1. \A p \in A \X B : Record(p[1], p[2]) \in A BY <1>b
    <2> QED BY <2>1
  <1> HIDE DEF f
  <1>3. PICK h : FoldsInto(h, A, f, base, all, n) BY <1>1, <1>2, FoldExists
  <1>4. \A s \in SUBSET (1 .. n) : s # {} => Max(s) \in s /\ s \ {Max(s)} \in SUBSET (1 .. n)
        BY GreatestNumber
  <1>5. RecordStep(h, base, seq)
    <2>1. ASSUME NEW s \in SUBSET (1 .. n)
          PROVE  h[s] = IF s = {} THEN base ELSE Record(h[s \ {Max(s)}], seq[Max(s)])
      <3>1. h \in [SUBSET (1 .. n) -> A]
            /\ h[s] = IF s = {} THEN base ELSE f[<<h[s \ {Max(s)}], all[Max(s)]>>]
            BY <1>3 DEF FoldsInto
      <3>2. CASE s # {}
        <4>1. /\ h[s \ {Max(s)}] \in A /\ all[Max(s)] \in B /\ all[Max(s)] = seq[Max(s)]
              BY <3>1, <3>2, <1>1, <1>4
        <4> QED BY <4>1, <3>1, <3>2, <1>2
      <3> QED BY <3>1, <3>2
    <2>2. h = [s \in SUBSET (1 .. n) |-> h[s]] BY <1>3 DEF FoldsInto
    <2> QED BY <2>1, <2>2 DEF RecordStep
  <1>6. RecordStep(iter, base, seq) BY <1>5, Zenon
  <1>7. r = iter[1 .. n] BY Zenon DEF RecordStep, FoldLeft, MapThenFoldSet, RecordedOn
  <1> HIDE DEF iter, r
  <1>8. \A s \in SUBSET (1 .. n) :
           iter[s] = IF s = {} THEN base ELSE Record(iter[s \ {Max(s)}], seq[Max(s)])
    <2>1. iter = [s \in SUBSET (1 .. n) |->
                    IF s = {} THEN base ELSE Record(iter[s \ {Max(s)}], seq[Max(s)])]
          BY <1>6, Zenon DEF RecordStep
    <2> QED BY <2>1
  <1>9. iter[1 .. 0] = base
    <2>1. 1 .. 0 = {} /\ 1 .. 0 \in SUBSET (1 .. n) BY SMT
    <2> QED BY <2>1, <1>8
  <1>10. \A k \in 1 .. n : iter[1 .. k] = Record(iter[1 .. k - 1], seq[k])
    <2> TAKE k \in 1 .. n
    <2>1. /\ 1 .. k \in SUBSET (1 .. n) /\ 1 .. k # {} /\ Max(1 .. k) = k
          /\ (1 .. k) \ {k} = 1 .. k - 1
          BY FirstIndices
    <2> QED BY <2>1, <1>8
  <1>11. \A k \in 0 .. n : iter[1 .. k] \in A
    <2>1. \A k \in 1 .. n : iter[1 .. k - 1] \in A => iter[1 .. k] \in A BY <1>10
    <2> QED BY <2>1, <1>9, FirstToLast
  <1> DEFINE v == [k \in 0 .. n |-> iter[1 .. k]]
  <1>12. v \in [0 .. n -> A] BY <1>11
  <1>13. v[0] = base /\ v[n] = r
    <2>1. 0 \in 0 .. n /\ n \in 0 .. n BY SMT
    <2> QED BY <2>1, <1>7, <1>9
  <1>14. \A k \in 1 .. n : v[k] = Record(v[k - 1], seq[k])
    <2>1. \A k \in 1 .. n : k \in 0 .. n /\ k - 1 \in 0 .. n BY SMT
    <2> QED BY <2>1, <1>10
  <1> HIDE DEF v
  <1>15. RecordWalks(v, A, base, n, seq) BY <1>12, <1>13, <1>14 DEF RecordWalks, r
  <1> QED BY <1>15

\* The walk of serve() over the retained packets.
Taken(wanted, base, seq) ==
    FoldLeft(LAMBDA taken, packet : TakeIfWanted(wanted, taken, packet), base, seq)

WantedStep(h, wanted, base, seq) ==
    h = [s \in SUBSET DOMAIN seq |->
           IF s = {} THEN base ELSE TakeIfWanted(wanted, h[s \ {Max(s)}], seq[Max(s)])]

WantedWalks(v, A, wanted, base, n, seq) ==
    /\ v \in [0 .. n -> A] /\ v[0] = base /\ v[n] = Taken(wanted, base, seq)
    /\ \A k \in 1 .. n : v[k] = TakeIfWanted(wanted, v[k - 1], seq[k])

LEMMA WantedWalk ==
    ASSUME NEW A, NEW base \in A, NEW n \in Nat, NEW seq, DOMAIN seq = 1 .. n,
           NEW wanted,
           \A a \in A, i \in 1 .. n : TakeIfWanted(wanted, a, seq[i]) \in A
    PROVE  \E v : WantedWalks(v, A, wanted, base, n, seq)
PROOF
  <1> DEFINE B == {seq[k] : k \in 1 .. n}
             f == [p \in A \X B |-> TakeIfWanted(wanted, p[1], p[2])]
             iter == CHOOSE h : WantedStep(h, wanted, base, seq)
             all == [k \in 1 .. n |-> seq[k]]
             r == Taken(wanted, base, seq)
  <1>1. all \in [1 .. n -> B] /\ \A k \in 1 .. n : all[k] = seq[k] OBVIOUS
  <1>b. \A a \in A, b \in B : TakeIfWanted(wanted, a, b) \in A OBVIOUS
  <1> HIDE DEF all, B
  <1>2. f \in [A \X B -> A] /\ \A a \in A, b \in B : f[<<a, b>>] = TakeIfWanted(wanted, a, b)
    <2>1. \A p \in A \X B : TakeIfWanted(wanted, p[1], p[2]) \in A BY <1>b
    <2> QED BY <2>1
  <1> HIDE DEF f
  <1>3. PICK h : FoldsInto(h, A, f, base, all, n) BY <1>1, <1>2, FoldExists
  <1>4. \A s \in SUBSET (1 .. n) : s # {} => Max(s) \in s /\ s \ {Max(s)} \in SUBSET (1 .. n)
        BY GreatestNumber
  <1>5. WantedStep(h, wanted, base, seq)
    <2>1. ASSUME NEW s \in SUBSET (1 .. n)
          PROVE  h[s] = IF s = {} THEN base ELSE TakeIfWanted(wanted, h[s \ {Max(s)}], seq[Max(s)])
      <3>1. h \in [SUBSET (1 .. n) -> A]
            /\ h[s] = IF s = {} THEN base ELSE f[<<h[s \ {Max(s)}], all[Max(s)]>>]
            BY <1>3 DEF FoldsInto
      <3>2. CASE s # {}
        <4>1. /\ h[s \ {Max(s)}] \in A /\ all[Max(s)] \in B /\ all[Max(s)] = seq[Max(s)]
              BY <3>1, <3>2, <1>1, <1>4
        <4> QED BY <4>1, <3>1, <3>2, <1>2
      <3> QED BY <3>1, <3>2
    <2>2. h = [s \in SUBSET (1 .. n) |-> h[s]] BY <1>3 DEF FoldsInto
    <2> QED BY <2>1, <2>2 DEF WantedStep
  <1>6. WantedStep(iter, wanted, base, seq) BY <1>5, Zenon
  <1>7. r = iter[1 .. n] BY Zenon DEF WantedStep, FoldLeft, MapThenFoldSet, Taken
  <1> HIDE DEF iter, r
  <1>8. \A s \in SUBSET (1 .. n) :
           iter[s] = IF s = {} THEN base ELSE TakeIfWanted(wanted, iter[s \ {Max(s)}], seq[Max(s)])
    <2>1. iter = [s \in SUBSET (1 .. n) |->
                    IF s = {} THEN base ELSE TakeIfWanted(wanted, iter[s \ {Max(s)}], seq[Max(s)])]
          BY <1>6, Zenon DEF WantedStep
    <2> QED BY <2>1
  <1>9. iter[1 .. 0] = base
    <2>1. 1 .. 0 = {} /\ 1 .. 0 \in SUBSET (1 .. n) BY SMT
    <2> QED BY <2>1, <1>8
  <1>10. \A k \in 1 .. n : iter[1 .. k] = TakeIfWanted(wanted, iter[1 .. k - 1], seq[k])
    <2> TAKE k \in 1 .. n
    <2>1. /\ 1 .. k \in SUBSET (1 .. n) /\ 1 .. k # {} /\ Max(1 .. k) = k
          /\ (1 .. k) \ {k} = 1 .. k - 1
          BY FirstIndices
    <2> QED BY <2>1, <1>8
  <1>11. \A k \in 0 .. n : iter[1 .. k] \in A
    <2>1. \A k \in 1 .. n : iter[1 .. k - 1] \in A => iter[1 .. k] \in A BY <1>10
    <2> QED BY <2>1, <1>9, FirstToLast
  <1> DEFINE v == [k \in 0 .. n |-> iter[1 .. k]]
  <1>12. v \in [0 .. n -> A] BY <1>11
  <1>13. v[0] = base /\ v[n] = r
    <2>1. 0 \in 0 .. n /\ n \in 0 .. n BY SMT
    <2> QED BY <2>1, <1>7, <1>9
  <1>14. \A k \in 1 .. n : v[k] = TakeIfWanted(wanted, v[k - 1], seq[k])
    <2>1. \A k \in 1 .. n : k \in 0 .. n /\ k - 1 \in 0 .. n BY SMT
    <2> QED BY <2>1, <1>10
  <1> HIDE DEF v
  <1>15. WantedWalks(v, A, wanted, base, n, seq) BY <1>12, <1>13, <1>14 DEF WantedWalks, r
  <1> QED BY <1>15

\* The walk of release_due().
SiftedFrom(place, base, seq) ==
    FoldLeft(LAMBDA s, slot : Release(place, s, slot), base, seq)

ReleaseStep(h, place, base, seq) ==
    h = [s \in SUBSET DOMAIN seq |->
           IF s = {} THEN base ELSE Release(place, h[s \ {Max(s)}], seq[Max(s)])]

ReleaseWalks(v, A, place, base, n, seq) ==
    /\ v \in [0 .. n -> A] /\ v[0] = base /\ v[n] = SiftedFrom(place, base, seq)
    /\ \A k \in 1 .. n : v[k] = Release(place, v[k - 1], seq[k])

LEMMA ReleaseWalk ==
    ASSUME NEW A, NEW base \in A, NEW n \in Nat, NEW seq, DOMAIN seq = 1 .. n,
           NEW place,
           \A a \in A, i \in 1 .. n : Release(place, a, seq[i]) \in A
    PROVE  \E v : ReleaseWalks(v, A, place, base, n, seq)
PROOF
  <1> DEFINE B == {seq[k] : k \in 1 .. n}
             f == [p \in A \X B |-> Release(place, p[1], p[2])]
             iter == CHOOSE h : ReleaseStep(h, place, base, seq)
             all == [k \in 1 .. n |-> seq[k]]
             r == SiftedFrom(place, base, seq)
  <1>1. all \in [1 .. n -> B] /\ \A k \in 1 .. n : all[k] = seq[k] OBVIOUS
  <1>b. \A a \in A, b \in B : Release(place, a, b) \in A OBVIOUS
  <1> HIDE DEF all, B
  <1>2. f \in [A \X B -> A] /\ \A a \in A, b \in B : f[<<a, b>>] = Release(place, a, b)
    <2>1. \A p \in A \X B : Release(place, p[1], p[2]) \in A BY <1>b
    <2> QED BY <2>1
  <1> HIDE DEF f
  <1>3. PICK h : FoldsInto(h, A, f, base, all, n) BY <1>1, <1>2, FoldExists
  <1>4. \A s \in SUBSET (1 .. n) : s # {} => Max(s) \in s /\ s \ {Max(s)} \in SUBSET (1 .. n)
        BY GreatestNumber
  <1>5. ReleaseStep(h, place, base, seq)
    <2>1. ASSUME NEW s \in SUBSET (1 .. n)
          PROVE  h[s] = IF s = {} THEN base ELSE Release(place, h[s \ {Max(s)}], seq[Max(s)])
      <3>1. h \in [SUBSET (1 .. n) -> A]
            /\ h[s] = IF s = {} THEN base ELSE f[<<h[s \ {Max(s)}], all[Max(s)]>>]
            BY <1>3 DEF FoldsInto
      <3>2. CASE s # {}
        <4>1. /\ h[s \ {Max(s)}] \in A /\ all[Max(s)] \in B /\ all[Max(s)] = seq[Max(s)]
              BY <3>1, <3>2, <1>1, <1>4
        <4> QED BY <4>1, <3>1, <3>2, <1>2
      <3> QED BY <3>1, <3>2
    <2>2. h = [s \in SUBSET (1 .. n) |-> h[s]] BY <1>3 DEF FoldsInto
    <2> QED BY <2>1, <2>2 DEF ReleaseStep
  <1>6. ReleaseStep(iter, place, base, seq) BY <1>5, Zenon
  <1>7. r = iter[1 .. n] BY Zenon DEF ReleaseStep, FoldLeft, MapThenFoldSet, SiftedFrom
  <1> HIDE DEF iter, r
  <1>8. \A s \in SUBSET (1 .. n) :
           iter[s] = IF s = {} THEN base ELSE Release(place, iter[s \ {Max(s)}], seq[Max(s)])
    <2>1. iter = [s \in SUBSET (1 .. n) |->
                    IF s = {} THEN base ELSE Release(place, iter[s \ {Max(s)}], seq[Max(s)])]
          BY <1>6, Zenon DEF ReleaseStep
    <2> QED BY <2>1
  <1>9. iter[1 .. 0] = base
    <2>1. 1 .. 0 = {} /\ 1 .. 0 \in SUBSET (1 .. n) BY SMT
    <2> QED BY <2>1, <1>8
  <1>10. \A k \in 1 .. n : iter[1 .. k] = Release(place, iter[1 .. k - 1], seq[k])
    <2> TAKE k \in 1 .. n
    <2>1. /\ 1 .. k \in SUBSET (1 .. n) /\ 1 .. k # {} /\ Max(1 .. k) = k
          /\ (1 .. k) \ {k} = 1 .. k - 1
          BY FirstIndices
    <2> QED BY <2>1, <1>8
  <1>11. \A k \in 0 .. n : iter[1 .. k] \in A
    <2>1. \A k \in 1 .. n : iter[1 .. k - 1] \in A => iter[1 .. k] \in A BY <1>10
    <2> QED BY <2>1, <1>9, FirstToLast
  <1> DEFINE v == [k \in 0 .. n |-> iter[1 .. k]]
  <1>12. v \in [0 .. n -> A] BY <1>11
  <1>13. v[0] = base /\ v[n] = r
    <2>1. 0 \in 0 .. n /\ n \in 0 .. n BY SMT
    <2> QED BY <2>1, <1>7, <1>9
  <1>14. \A k \in 1 .. n : v[k] = Release(place, v[k - 1], seq[k])
    <2>1. \A k \in 1 .. n : k \in 0 .. n /\ k - 1 \in 0 .. n BY SMT
    <2> QED BY <2>1, <1>10
  <1> HIDE DEF v
  <1>15. ReleaseWalks(v, A, place, base, n, seq) BY <1>12, <1>13, <1>14 DEF ReleaseWalks, r
  <1> QED BY <1>15

-----------------------------------------------------------------------------
(* Walking over the blocks of a datagram.                                    *)

Cursors ==
    [error : {"ok", "truncated_header", "block_overruns_datagram", "trailing_bytes",
              "block_count_overstated"},
     rest : Seq(Nat), blocks : Seq(Seq(Nat))]

\* Every block taken is the cells its prefix announces, and the rest is what follows.
Takes(c, d) ==
    LET size == c.rest[1]
    IN  /\ c.rest # <<>> /\ 1 + size <= Len(c.rest)
        /\ Len(d.rest) = Len(c.rest) - (1 + size)
        /\ \A j \in 1 .. Len(d.rest) : d.rest[j] = c.rest[1 + size + j]
        /\ \E body \in Seq(Nat) :
              /\ d.blocks = Append(c.blocks, body) /\ Len(body) = size
              /\ \A j \in 1 .. size : body[j] = c.rest[1 + j]

LEMMA BlockTaken ==
    ASSUME NEW c \in Cursors
    PROVE  LET d == NextBlock(c)
           IN  /\ d \in Cursors
               /\ d.error = "ok" => Takes(c, d)
               /\ c.rest # <<>> /\ 1 + c.rest[1] <= Len(c.rest) => d.error = "ok"
PROOF
  <1> DEFINE rest == c.rest
             blocks == c.blocks
             d == NextBlock(c)
             short == "block_count_overstated"
             long == "block_overruns_datagram"
  <1>1. rest \in Seq(Nat) /\ blocks \in Seq(Seq(Nat)) BY DEF Cursors
  <1>2. CASE rest = <<>>
    <2>1. d = [c EXCEPT !.error = short] BY <1>2 DEF NextBlock
    <2>2. d \in Cursors /\ d.error # "ok" BY <2>1 DEF Cursors
    <2> QED BY <1>2, <2>2
  <1>3. CASE rest # <<>>
    <2> DEFINE size == Head(rest)
               after == Tail(rest)
               n == Len(after)
               left == SubSeq(after, size + 1, n)
               body == SubSeq(after, 1, size)
    <2>1. /\ size \in Nat /\ size = rest[1] /\ after \in Seq(Nat) /\ n = Len(rest) - 1
          /\ \A i \in 1 .. n : after[i] = rest[i + 1]
          /\ n \in Nat /\ Len(rest) \in Nat
      <3>1. size = rest[1] BY <1>1, <1>3
      <3> QED BY <3>1, <1>1, <1>3, HeadTailProperties
    <2> HIDE DEF size, after
    <2>f. n = Len(after) OBVIOUS
    <2> HIDE DEF n
    <2>2. CASE size > n
      <3>1. d = [c EXCEPT !.error = long] BY <1>3, <2>2 DEF NextBlock, size, after, n
      <3>2. d \in Cursors /\ d.error # "ok" BY <3>1 DEF Cursors
      <3>3. ~(1 + rest[1] <= Len(rest)) BY <2>1, <2>2
      <3> QED BY <3>2, <3>3
    <2>3. CASE ~(size > n)
      <3>1. d = Cursor("ok", left, Append(blocks, body))
            BY <1>3, <2>3 DEF NextBlock, size, after, n
      <3>2. \A i \in 1 .. n : after[i] \in Nat
        <4>1. \A i \in 1 .. Len(after) : after[i] \in Nat BY <2>1, ElementOfSeq
        <4> QED BY <4>1, <2>f
      <3>3. /\ body \in Seq(Nat) /\ Len(body) = size
            /\ \A j \in 1 .. size : body[j] = rest[1 + j]
        <4>1. \A i \in 1 .. size : i \in 1 .. n BY <2>1, <2>3, SMT
        <4>2. \A i \in 1 .. size : after[i] \in Nat BY <3>2, <4>1
        <4>3. /\ body \in Seq(Nat)
              /\ Len(body) = IF 1 <= size THEN size - 1 + 1 ELSE 0
              /\ \A i \in 1 .. size - 1 + 1 : body[i] = after[1 + i - 1]
              BY <4>2, <2>1, SubSeqProperties
        <4> HIDE DEF body
        <4>4. \A i \in 1 .. size : i \in 1 .. size - 1 + 1 /\ 1 + i - 1 = i /\ 1 + i = i + 1
              BY <2>1, SMT
        <4>5. (IF 1 <= size THEN size - 1 + 1 ELSE 0) = size BY <2>1, SMT
        <4> QED BY <4>1, <4>3, <4>4, <4>5, <2>1
      <3>4. /\ left \in Seq(Nat) /\ Len(left) = n - size
            /\ \A j \in 1 .. n - size : left[j] = rest[1 + size + j]
        <4> DEFINE from == size + 1
        <4>0. size \in Nat /\ n \in Nat /\ size <= n /\ from \in Int /\ from = size + 1
              BY <2>1, <2>3
        <4>m. left = SubSeq(after, from, n) OBVIOUS
        <4> HIDE DEF from, left
        <4>1. \A i \in from .. n : i \in 1 .. n BY <4>0, SMT
        <4>2. \A i \in from .. n : after[i] \in Nat BY <3>2, <4>1
        <4>3. /\ SubSeq(after, from, n) \in Seq(Nat)
              /\ Len(SubSeq(after, from, n)) = IF from <= n THEN n - from + 1 ELSE 0
              /\ \A i \in 1 .. n - from + 1 : SubSeq(after, from, n)[i] = after[from + i - 1]
              BY <4>2, <4>0, SubSeqProperties
        <4>4. \A i \in 1 .. n - size :
                 /\ i \in 1 .. n - from + 1 /\ from + i - 1 = size + i
                 /\ size + i \in 1 .. n /\ size + i + 1 = 1 + size + i
              BY <4>0, SMT
        <4>5. (IF from <= n THEN n - from + 1 ELSE 0) = n - size BY <4>0, SMT
        <4>6. left \in Seq(Nat) /\ Len(left) = n - size BY <4>3, <4>5, <4>m
        <4>7. \A j \in 1 .. n - size : left[j] = rest[1 + size + j]
          <5> TAKE j \in 1 .. n - size
          <5>1. left[j] = after[size + j] BY <4>3, <4>4, <4>m
          <5>2. after[size + j] = rest[1 + size + j] BY <4>4, <2>1
          <5> QED BY <5>1, <5>2
        <4> QED BY <4>6, <4>7
      <3> HIDE DEF left, body
      <3>5. Append(blocks, body) \in Seq(Seq(Nat)) BY <1>1, <3>3
      <3>6. d.error = "ok" /\ d.rest = left /\ d.blocks = Append(blocks, body)
            BY <3>1 DEF Cursor
      <3>7. d \in Cursors
        <4> DEFINE more == Append(blocks, body)
        <4>1. d = Cursor("ok", left, more) /\ more \in Seq(Seq(Nat)) BY <3>1, <3>5
        <4> HIDE DEF d, more
        <4> QED BY <4>1, <3>4 DEF Cursors, Cursor
      <3>8. 1 + size <= Len(rest) /\ n - size = Len(rest) - (1 + size) BY <2>1, <2>3
      <3> HIDE DEF d
      <3>9. Takes(c, d) BY <1>3, <2>1, <3>3, <3>4, <3>6, <3>8 DEF Takes
      <3> QED BY <3>6, <3>7, <3>9 DEF d
    <2> QED BY <2>2, <2>3
  <1> QED BY <1>2, <1>3

\* What a cursor has left stands at a place of the payload.
Stands(c, payload, at) ==
    /\ at \in 0 .. Len(payload) /\ Len(c.rest) = Len(payload) - at
    /\ \A j \in 1 .. Len(c.rest) : c.rest[j] = payload[at + j]

\* A cursor has gone over the block at a place of the payload.
GoesOver(c, d, payload, at) ==
    LET size == payload[at + 1]
    IN  /\ size \in Nat /\ at + 1 + size <= Len(payload)
        /\ Stands(d, payload, at + 1 + size)
        /\ \E body \in Seq(Nat) :
              /\ d.blocks = Append(c.blocks, body) /\ Len(body) = size
              /\ \A j \in 1 .. size : body[j] = payload[at + 1 + j]

LEMMA StepStands ==
    ASSUME NEW c \in Cursors, NEW payload \in Seq(Nat), NEW at, Stands(c, payload, at),
           NEW d, Takes(c, d)
    PROVE  GoesOver(c, d, payload, at)
PROOF
  <1> DEFINE rest == c.rest
             m == Len(rest)
             n == Len(payload)
             size == rest[1]
             on == at + 1 + size
             more == d.rest
  <1>1. rest \in Seq(Nat) BY DEF Cursors
  <1>2. m \in Nat /\ n \in Nat BY <1>1
  <1>3. at \in 0 .. n /\ m = n - at /\ \A j \in 1 .. m : rest[j] = payload[at + j]
        BY DEF Stands
  <1>4. /\ rest # <<>> /\ 1 + size <= m /\ Len(more) = m - (1 + size)
        /\ \A j \in 1 .. Len(more) : more[j] = rest[1 + size + j]
        BY DEF Takes
  <1>5. PICK body \in Seq(Nat) :
           /\ d.blocks = Append(c.blocks, body) /\ Len(body) = size
           /\ \A j \in 1 .. size : body[j] = rest[1 + j]
        BY DEF Takes
  <1>6. m > 0 BY <1>1, <1>4
  <1>7. size \in Nat
    <2>1. 1 \in 1 .. m BY <1>2, <1>6
    <2> HIDE DEF rest
    <2> QED BY <1>1, <2>1, ElementOfSeq
  <1>8. size = payload[at + 1]
    <2>1. 1 \in 1 .. m BY <1>2, <1>6
    <2> QED BY <1>3, <2>1
  <1> HIDE DEF rest, m, n, size, more
  <1>9. on \in 0 .. n /\ on <= n /\ m - (1 + size) = n - on BY <1>2, <1>3, <1>4, <1>7, SMT
  <1>10. \A j \in 1 .. Len(more) : more[j] = payload[on + j]
    <2> TAKE j \in 1 .. Len(more)
    <2>1. 1 + size + j \in 1 .. m /\ at + (1 + size + j) = on + j
          BY <1>2, <1>3, <1>4, <1>7, SMT
    <2> QED BY <2>1, <1>3, <1>4
  <1>11. \A j \in 1 .. size : body[j] = payload[at + 1 + j]
    <2> TAKE j \in 1 .. size
    <2>1. 1 + j \in 1 .. m /\ at + (1 + j) = at + 1 + j
          BY <1>2, <1>3, <1>4, <1>7, SMT
    <2> QED BY <2>1, <1>3, <1>5
  <1>12. Stands(d, payload, on) BY <1>4, <1>9, <1>10 DEF Stands, n, more
  <1>13. on = at + 1 + payload[at + 1] BY <1>8
  <1> HIDE DEF on
  <1> QED BY <1>5, <1>7, <1>8, <1>9, <1>11, <1>12, <1>13 DEF n, GoesOver

\* The cursors over a datagram, from the first to the one drain() ends with.
Walks(kind, p, v) ==
    LET n == Remaining(kind, p)
        d == Drain(kind, p)
    IN  /\ n \in Nat /\ v \in [0 .. n -> Cursors]
        /\ v[0] = Over(kind, p)
        /\ \A k \in 1 .. n : v[k] = NextIfOk(v[k - 1])
        /\ d.error = "ok" <=> v[n].error = "ok" /\ v[n].rest = <<>>
        /\ d.error = "ok" => d.blocks = v[n].blocks

LEMMA OverIsACursor ==
    ASSUME NEW kind, NEW p, p.payload \in Seq(Nat), p.length \in Nat
    PROVE  /\ Over(kind, p) \in Cursors
           /\ Over(kind, p).error = "ok" =>
                 /\ p.whole /\ (kind = "iextp" => ~(p.length > Len(p.payload)) /\ ~(p.length < Len(p.payload)))
                 /\ Over(kind, p) = Cursor("ok", p.payload, <<>>)
PROOF
  <1> DEFINE c == Over(kind, p)
             good == Cursor("ok", p.payload, <<>>)
  <1>1. /\ <<>> \in Seq(Nat) /\ <<>> \in Seq(Seq(Nat))
        /\ Len(p.payload) \in Nat
        OBVIOUS
  <1>2. ASSUME NEW error, c = Cursor(error, <<>>, <<>>),
               error \in {"truncated_header", "block_overruns_datagram", "trailing_bytes"}
        PROVE  c \in Cursors /\ c.error # "ok"
    <2> HIDE DEF c
    <2> QED BY <1>2, <1>1 DEF Cursors, Cursor
  <1>3. good \in Cursors BY <1>1 DEF Cursors, Cursor
  <1> HIDE DEF good
  <1>4. CASE kind = "iextp"
    <2>1. c = IextpOver(p) BY <1>4 DEF Over
    <2>2. CASE ~p.whole
      <3>1. c = Cursor("truncated_header", <<>>, <<>>) BY <2>1, <2>2 DEF IextpOver
      <3> QED BY <3>1, <1>2
    <2>3. CASE p.whole /\ p.length > Len(p.payload)
      <3>1. c = Cursor("block_overruns_datagram", <<>>, <<>>) BY <1>1, <2>1, <2>3 DEF IextpOver
      <3> QED BY <3>1, <1>2
    <2>4. CASE p.whole /\ ~(p.length > Len(p.payload)) /\ p.length < Len(p.payload)
      <3>1. c = Cursor("trailing_bytes", <<>>, <<>>) BY <1>1, <2>1, <2>4 DEF IextpOver
      <3> QED BY <3>1, <1>2
    <2>5. CASE p.whole /\ ~(p.length > Len(p.payload)) /\ ~(p.length < Len(p.payload))
      <3>1. c = good BY <1>1, <2>1, <2>5 DEF IextpOver, good
      <3> QED BY <3>1, <2>5, <1>3 DEF good
    <2> QED BY <2>2, <2>3, <2>4, <2>5
  <1>5. CASE kind # "iextp"
    <2>1. c = MoldOver(p) BY <1>5 DEF Over
    <2>2. CASE p.whole
      <3>1. c = good BY <2>1, <2>2 DEF MoldOver, good
      <3> QED BY <3>1, <2>2, <1>3, <1>5 DEF good
    <2>3. CASE ~p.whole
      <3>1. c = Cursor("truncated_header", <<>>, <<>>) BY <2>1, <2>3 DEF MoldOver
      <3> QED BY <3>1, <1>2
    <2> QED BY <2>2, <2>3
  <1> QED BY <1>4, <1>5

LEMMA DrainIsAWalk ==
    ASSUME NEW kind, NEW p, p.payload \in Seq(Nat), p.count \in Nat, p.length \in Nat
    PROVE  \E v : Walks(kind, p, v)
PROOF
  <1> DEFINE n == Remaining(kind, p)
             base == Over(kind, p)
             seq == [i \in 1 .. n |-> i]
             walked == Drained(base, seq)
             d == Drain(kind, p)
             trailing == "trailing_bytes"
  <1>1. n \in Nat BY DEF Remaining, IextpRemaining, MoldRemaining
  <1>2. base \in Cursors BY OverIsACursor
  <1>3. \A c \in Cursors : NextIfOk(c) \in Cursors BY BlockTaken DEF NextIfOk
  <1>4. d = IF walked.error = "ok" /\ walked.rest # <<>>
            THEN [walked EXCEPT !.error = trailing]
            ELSE walked
        BY Zenon DEF Drain, NextIfOk, Drained
  <1> HIDE DEF base, n
  <1>5. DOMAIN seq = 1 .. n OBVIOUS
  <1> HIDE DEF seq
  <1>w. \E v : DrainWalks(v, Cursors, base, n, seq) BY <1>1, <1>2, <1>3, <1>5, DrainWalk
  <1>6. PICK v \in [0 .. n -> Cursors] :
           /\ v[0] = base /\ v[n] = walked
           /\ \A k \in 1 .. n : v[k] = NextIfOk(v[k - 1])
        BY <1>w DEF DrainWalks
  <1>7. walked \in Cursors
    <2>1. n \in 0 .. n BY <1>1, SMT
    <2> QED BY <2>1, <1>6
  <1> HIDE DEF walked, d
  <1>8. /\ d.error = "ok" <=> walked.error = "ok" /\ walked.rest = <<>>
        /\ d.error = "ok" => d.blocks = walked.blocks
    <2>1. CASE walked.error = "ok" /\ walked.rest # <<>>
      <3>1. d = [walked EXCEPT !.error = trailing] BY <1>4, <2>1
      <3>2. d.error # "ok" BY <3>1, <1>7 DEF Cursors
      <3> QED BY <2>1, <3>2
    <2>2. CASE ~(walked.error = "ok" /\ walked.rest # <<>>)
      <3>1. d = walked BY <1>4, <2>2
      <3> QED BY <2>2, <3>1
    <2> QED BY <2>1, <2>2
  <1>9. Walks(kind, p, v) BY <1>1, <1>6, <1>8 DEF Walks, n, d, base
  <1> QED BY <1>9

\* Along a walk that ends well nothing was wrong before.
LEMMA WalkWasOk ==
    ASSUME NEW kind, NEW p, NEW v, Walks(kind, p, v), NEW k \in 1 .. Remaining(kind, p),
           v[k].error = "ok"
    PROVE  /\ v[k - 1] \in Cursors /\ v[k - 1].error = "ok" /\ v[k] = NextBlock(v[k - 1])
           /\ Takes(v[k - 1], v[k]) /\ k - 1 \in 0 .. Remaining(kind, p)
PROOF
  <1> DEFINE n == Remaining(kind, p)
  <1>1. n \in Nat /\ v \in [0 .. n -> Cursors] /\ v[k] = NextIfOk(v[k - 1]) BY DEF Walks
  <1>2. k - 1 \in 0 .. n /\ k \in 0 .. n BY <1>1, SMT
  <1>3. v[k - 1] \in Cursors BY <1>1, <1>2
  <1>4. v[k - 1].error = "ok" BY <1>1 DEF NextIfOk
  <1>5. v[k] = NextBlock(v[k - 1]) BY <1>1, <1>4 DEF NextIfOk
  <1> QED BY <1>2, <1>3, <1>4, <1>5, BlockTaken

\* What is true of nought, and of every number after one it is true of.
LEMMA Onward ==
    ASSUME NEW n \in Nat, NEW G, 0 \in G, \A k \in 1 .. n : k - 1 \in G => k \in G
    PROVE  \A k \in 0 .. n : k \in G
PROOF
  <1> DEFINE S == {k \in Nat : k <= n => k \in G}
  <1>1. 0 \in S OBVIOUS
  <1>2. \A k \in S : k + 1 \in S
    <2> SUFFICES ASSUME NEW k \in Nat, k <= n => k \in G, k + 1 <= n PROVE k + 1 \in G
        OBVIOUS
    <2>1. k <= n /\ k + 1 \in 1 .. n /\ (k + 1) - 1 = k BY SMT
    <2> QED BY <2>1
  <1>3. S = Nat
    <2>1. S \in SUBSET Nat OBVIOUS
    <2> HIDE DEF S
    <2> QED BY <2>1, <1>1, <1>2, NumbersByInduction
  <1> QED BY <1>3

\* A payload that is another one, cut or whole.
CutOf(payload, full) ==
    /\ payload \in Seq(Nat) /\ Len(payload) <= Len(full)
    /\ \A i \in 1 .. Len(payload) : payload[i] = full[i]

\* A cursor that has taken the first k of the blocks.
HasTaken(c, k, payload, count, bs, first, ends) ==
    c.error = "ok" =>
       /\ k <= count /\ Stands(c, payload, ends[k]) /\ c.blocks \in Seq(Seq(Nat))
       /\ Len(c.blocks) = k /\ \A i \in 1 .. k : c.blocks[i] = bs[first + i - 1]

\* The block before a place of the payload is the message with its number.
EndsABlock(full, bs, first, ends, k) ==
    LET body == bs[first + k - 1]
    IN  /\ body \in Seq(Nat) /\ Len(body) \in Nat /\ first + k - 1 \in 1 .. Len(bs)
        /\ ends[k - 1] \in 0 .. Len(full) /\ ends[k] \in 0 .. Len(full)
        /\ ends[k] = ends[k - 1] + 1 + Len(body)
        /\ full[ends[k - 1] + 1] = Len(body)
        /\ \A j \in 1 .. Len(body) : full[ends[k - 1] + 1 + j] = body[j]

LEMMA NextOfTheBlocks ==
    ASSUME NEW full \in Seq(Nat), NEW count \in Nat, NEW bs \in Seq(Seq(Nat)),
           NEW first \in Nat, first > 0, first + count <= Len(bs) + 1,
           NEW ends, Blocks(full, count, bs, first, ends), NEW k \in 1 .. count
    PROVE  EndsABlock(full, bs, first, ends, k)
PROOF
  <1>1. /\ ends \in [0 .. count -> 0 .. Len(full)]
        /\ \A i \in 0 .. count - 1 :
              /\ ends[i + 1] = ends[i] + 1 + Len(bs[first + i])
              /\ IsBlock(full, ends[i], bs[first + i])
        BY DEF Blocks
  <1>2. /\ k - 1 \in 0 .. count - 1 /\ k - 1 \in 0 .. count /\ k \in 0 .. count
        /\ (k - 1) + 1 = k /\ first + (k - 1) = first + k - 1
        BY SMT
  <1>3. Len(bs) \in Nat OBVIOUS
  <1>4. first + k - 1 \in 1 .. Len(bs) BY <1>3, SMT
  <1>5. bs[first + k - 1] \in Seq(Nat) BY <1>4
  <1>6. Len(bs[first + k - 1]) \in Nat BY <1>5
  <1>7. /\ ends[(k - 1) + 1] = ends[k - 1] + 1 + Len(bs[first + (k - 1)])
        /\ IsBlock(full, ends[k - 1], bs[first + (k - 1)])
        BY <1>1, <1>2
  <1> QED BY <1>1, <1>2, <1>4, <1>5, <1>6, <1>7 DEF IsBlock, EndsABlock

\* However a payload was cut and whatever the header counts, a block that is taken is
\* the message with that number.
LEMMA OnlyTheBlocks ==
    ASSUME NEW kind, NEW p, p.length \in Nat, NEW v, Walks(kind, p, v),
           NEW full \in Seq(Nat), NEW count \in Nat, NEW bs \in Seq(Seq(Nat)),
           NEW first \in Nat, first > 0, first + count <= Len(bs) + 1,
           NEW ends, Blocks(full, count, bs, first, ends), CutOf(p.payload, full)
    PROVE  \A k \in 0 .. Remaining(kind, p) :
              HasTaken(v[k], k, p.payload, count, bs, first, ends)
PROOF
  <1> DEFINE n == Remaining(kind, p)
             payload == p.payload
             G == {k \in 0 .. n : HasTaken(v[k], k, payload, count, bs, first, ends)}
  <1>1. n \in Nat /\ v \in [0 .. n -> Cursors] /\ v[0] = Over(kind, p) BY DEF Walks
  <1>2. /\ payload \in Seq(Nat) /\ Len(payload) \in Nat /\ Len(full) \in Nat
        /\ Len(payload) <= Len(full) /\ \A i \in 1 .. Len(payload) : payload[i] = full[i]
        BY DEF CutOf
  <1>3. /\ ends \in [0 .. count -> 0 .. Len(full)] /\ ends[0] = 0 /\ ends[count] = Len(full)
        BY DEF Blocks
  <1>4. 0 \in G
    <2> SUFFICES ASSUME v[0].error = "ok"
                 PROVE  HasTaken(v[0], 0, payload, count, bs, first, ends)
        BY <1>1 DEF HasTaken
    <2>1. v[0] = Cursor("ok", payload, <<>>) BY <1>1, <1>2, OverIsACursor
    <2>2. v[0].rest = payload /\ v[0].blocks = <<>> BY <2>1 DEF Cursor
    <2>3. Stands(v[0], payload, 0)
      <3>1. \A j \in 1 .. Len(payload) : 0 + j = j BY SMT
      <3>2. 0 \in 0 .. Len(payload) /\ Len(payload) - 0 = Len(payload) BY <1>2
      <3> QED BY <3>1, <3>2, <2>2 DEF Stands
    <2>4. <<>> \in Seq(Seq(Nat)) /\ Len(<<>>) = 0 OBVIOUS
    <2> QED BY <2>2, <2>3, <2>4, <1>3 DEF HasTaken
  <1>5. ASSUME NEW k \in 1 .. n, HasTaken(v[k - 1], k - 1, payload, count, bs, first, ends),
               v[k].error = "ok"
        PROVE  HasTaken(v[k], k, payload, count, bs, first, ends)
    <2> DEFINE c == v[k - 1]
               d == v[k]
               at == ends[k - 1]
    <2>1. c \in Cursors /\ c.error = "ok" /\ Takes(c, d) BY <1>5, WalkWasOk
    <2>2. /\ k - 1 <= count /\ Stands(c, payload, at) /\ c.blocks \in Seq(Seq(Nat))
          /\ Len(c.blocks) = k - 1 /\ \A i \in 1 .. k - 1 : c.blocks[i] = bs[first + i - 1]
          BY <1>5, <2>1 DEF HasTaken
    <2>p. payload \in Seq(Nat) BY <1>2
    <2>4. at \in 0 .. Len(payload) BY <2>2 DEF Stands
    <2> HIDE DEF at, c, d, payload
    <2> DEFINE size == payload[at + 1]
               on == at + 1 + size
    <2>3. /\ size \in Nat /\ on <= Len(payload) /\ Stands(d, payload, on)
          /\ \E body \in Seq(Nat) :
                /\ d.blocks = Append(c.blocks, body) /\ Len(body) = size
                /\ \A j \in 1 .. size : body[j] = payload[at + 1 + j]
      <3>1. GoesOver(c, d, payload, at) BY <2>p, <2>1, <2>2, StepStands
      <3> QED BY <3>1 DEF GoesOver
    <2> HIDE DEF size
    <2>5. k \in 1 .. count
      <3>1. k - 1 # count
        <4>1. k - 1 = count => at = Len(full) BY <1>3 DEF at
        <4>2. at < Len(payload) BY <1>2, <2>3, <2>4, SMT
        <4> QED BY <4>1, <4>2, <1>2, <2>4
      <3> QED BY <3>1, <2>2, <1>1
    <2> DEFINE next == bs[first + k - 1]
    <2>6. /\ next \in Seq(Nat) /\ Len(next) \in Nat /\ ends[k] = at + 1 + Len(next)
          /\ full[at + 1] = Len(next)
          /\ \A j \in 1 .. Len(next) : full[at + 1 + j] = next[j]
      <3>1. EndsABlock(full, bs, first, ends, k) BY <2>5, NextOfTheBlocks
      <3> QED BY <3>1 DEF EndsABlock, at
    <2> HIDE DEF next
    <2>7. size = Len(next)
      <3>1. at + 1 \in 1 .. Len(payload) BY <1>2, <2>3, <2>4, SMT
      <3> QED BY <3>1, <1>2, <2>6 DEF size
    <2>8. PICK body \in Seq(Nat) :
             /\ d.blocks = Append(c.blocks, body) /\ Len(body) = size
             /\ \A j \in 1 .. size : body[j] = payload[at + 1 + j]
          BY <2>3
    <2>9. body = next
      <3>1. ASSUME NEW j \in 1 .. size PROVE body[j] = next[j]
        <4>1. at + 1 + j \in 1 .. Len(payload) BY <1>2, <2>3, <2>4, SMT
        <4>2. body[j] = payload[at + 1 + j] BY <2>8
        <4>3. payload[at + 1 + j] = full[at + 1 + j] BY <4>1, <1>2
        <4>4. full[at + 1 + j] = next[j] BY <2>6, <2>7
        <4> QED BY <4>2, <4>3, <4>4
      <3> QED BY <3>1, <2>6, <2>7, <2>8, SeqEqual
    <2>10. on = ends[k] BY <2>6, <2>7
    <2>11. /\ d.blocks \in Seq(Seq(Nat)) /\ Len(d.blocks) = k /\ d.blocks[k] = next
           /\ \A i \in 1 .. k - 1 : d.blocks[i] = c.blocks[i]
      <3>1. /\ Append(c.blocks, body) \in Seq(Seq(Nat))
            /\ Len(Append(c.blocks, body)) = Len(c.blocks) + 1
            /\ \A i \in 1 .. Len(c.blocks) : Append(c.blocks, body)[i] = c.blocks[i]
            /\ Append(c.blocks, body)[Len(c.blocks) + 1] = body
            BY <2>2, AppendProperties
      <3>2. (k - 1) + 1 = k BY SMT
      <3> QED BY <3>1, <3>2, <2>2, <2>8, <2>9
    <2>12. \A i \in 1 .. k : d.blocks[i] = bs[first + i - 1]
      <3> TAKE i \in 1 .. k
      <3>1. CASE i = k BY <3>1, <2>11 DEF next
      <3>2. CASE i # k
        <4>1. i \in 1 .. k - 1 BY <3>2, SMT
        <4> QED BY <4>1, <2>2, <2>11
      <3> QED BY <3>1, <3>2
    <2>13. k <= count BY <2>5
    <2> QED BY <2>3, <2>10, <2>11, <2>12, <2>13 DEF HasTaken, d, payload
  <1>6. \A k \in 1 .. n : k - 1 \in G => k \in G
    <2> TAKE k \in 1 .. n
    <2> HAVE k - 1 \in G
    <2>1. k \in 0 .. n BY SMT
    <2>2. CASE v[k].error = "ok" BY <2>1, <2>2, <1>5
    <2>3. CASE v[k].error # "ok" BY <2>1, <2>3 DEF HasTaken
    <2> QED BY <2>2, <2>3
  <1> HIDE DEF n
  <1>7. \A k \in 0 .. n : k \in G
    <2> HIDE DEF G
    <2> QED BY <1>1, <1>4, <1>6, Onward
  <1> QED BY <1>7 DEF n

-----------------------------------------------------------------------------
(* Whatever reaches the receiver is what was sent, or is discarded.          *)

\* A packet of the session: if its framing holds, its blocks are the messages with
\* the numbers it says.
Good(kind, p, bs) ==
    LET d == Drain(kind, p)
        n == Remaining(kind, p)
    IN  /\ p.session = Session /\ p.sequence \in Nat /\ p.sequence > 0
        /\ n \in Nat /\ NextSequence(kind, p) = p.sequence + n
        /\ d.error = "ok" =>
              /\ p.sequence + n <= Len(bs) + 1
              /\ d.blocks \in Seq(Seq(Nat)) /\ Len(d.blocks) = n
              /\ \A i \in 1 .. n : d.blocks[i] = bs[p.sequence + i - 1]

LEMMA NextIsRemaining ==
    ASSUME NEW kind, NEW p, p.sequence \in Nat, p.count \in Nat
    PROVE  /\ Remaining(kind, p) \in Nat
           /\ NextSequence(kind, p) = p.sequence + Remaining(kind, p)
           /\ p.count < EndOfSession => Remaining(kind, p) = p.count
PROOF
  <1>1. CASE kind = "iextp"
    <2>1. Remaining(kind, p) = p.count /\ NextSequence(kind, p) = p.sequence + p.count
          BY <1>1 DEF Remaining, IextpRemaining, NextSequence, IextpNextSequence
    <2> QED BY <2>1
  <1>2. CASE kind # "iextp"
    <2>1. /\ Remaining(kind, p) = IF MoldKind(p) = "data" THEN p.count ELSE 0
          /\ NextSequence(kind, p) =
                IF MoldKind(p) = "data" THEN p.sequence + p.count ELSE p.sequence
          BY <1>2 DEF Remaining, MoldRemaining, NextSequence, MoldNextSequence
    <2>2. p.sequence + 0 = p.sequence OBVIOUS
    <2>3. p.count < EndOfSession /\ p.count # 0 => MoldKind(p) = "data"
      <3>1. p.count < EndOfSession => p.count # EndOfSession BY FramingAssumption
      <3> QED BY <3>1 DEF MoldKind
    <2> QED BY <2>1, <2>2, <2>3
  <1> QED BY <1>1, <1>2

LEMMA CarriedFields ==
    ASSUME NEW kind, NEW bs, BodiesOk(bs), NEW q, Carries(kind, q, bs)
    PROVE  /\ q.session = Session /\ q.sequence \in Nat /\ q.sequence > 0
           /\ q.count \in Nat /\ q.length \in Nat /\ q.payload \in Seq(Nat)
           /\ q.sequence + q.count <= Len(bs) + 1 /\ bs \in Seq(Seq(Nat)) /\ Len(bs) \in Nat
           /\ Len(q.payload) \in Nat /\ Len(q.payload) < EndOfSession
           /\ q.count < EndOfSession /\ q.whole
           /\ kind = "iextp" => q.length = Len(q.payload)
           /\ \E ends : Blocks(q.payload, q.count, bs, q.sequence, ends)
PROOF
  <1>1. /\ q \in Datagrams /\ q.sequence > 0 /\ q.sequence + q.count <= Len(bs) + 1
        /\ q.count <= Len(q.payload) /\ Len(q.payload) <= MaxPayload
        /\ BlocksAre(q.payload, q.count, bs, q.sequence) /\ q.whole
        /\ kind = "iextp" => q.length = Len(q.payload)
        BY DEF Carries
  <1>2. /\ q.payload \in Seq(Nat) /\ q.count \in Nat /\ q.sequence \in Nat /\ q.length \in Nat
        /\ q.session = Session
        BY <1>1 DEF Datagrams
  <1>3. bs \in Seq(Seq(Nat)) BY DEF BodiesOk
  <1>4. Len(q.payload) \in Nat /\ Len(bs) \in Nat BY <1>2, <1>3
  <1>5. Len(q.payload) < EndOfSession /\ q.count < EndOfSession
    <2>1. MaxPayload \in Nat /\ EndOfSession \in Nat /\ MaxPayload < EndOfSession
          BY VenueNumbers, FramingAssumption
    <2> QED BY <2>1, <1>1, <1>2, <1>4, SMT
  <1> QED BY <1>1, <1>2, <1>3, <1>4, <1>5 DEF BlocksAre

LEMMA CutIsGood ==
    ASSUME NEW kind, NEW bs, BodiesOk(bs), NEW q, Carries(kind, q, bs),
           NEW p, p.session = Session, p.sequence = q.sequence, p.length \in Nat,
           p.count \in Nat, CutOf(p.payload, q.payload)
    PROVE  Good(kind, p, bs)
PROOF
  <1> DEFINE n == Remaining(kind, p)
             d == Drain(kind, p)
             first == q.sequence
             count == q.count
             full == q.payload
             payload == p.payload
  <1>1. /\ first \in Nat /\ first > 0 /\ count \in Nat /\ full \in Seq(Nat)
        /\ first + count <= Len(bs) + 1 /\ bs \in Seq(Seq(Nat)) /\ Len(bs) \in Nat
        BY CarriedFields
  <1>2. PICK ends : Blocks(full, count, bs, first, ends) BY CarriedFields
  <1>3. payload \in Seq(Nat) /\ CutOf(payload, full) BY DEF CutOf
  <1>4. n \in Nat /\ NextSequence(kind, p) = first + n BY <1>1, NextIsRemaining
  <1>5. PICK v : Walks(kind, p, v) BY <1>3, DrainIsAWalk
  <1> HIDE DEF first, count, full
  <1>6. \A k \in 0 .. n : HasTaken(v[k], k, payload, count, bs, first, ends)
        BY <1>1, <1>2, <1>3, <1>5, OnlyTheBlocks
  <1>7. ASSUME d.error = "ok"
        PROVE  /\ first + n <= Len(bs) + 1
               /\ d.blocks \in Seq(Seq(Nat)) /\ Len(d.blocks) = n
               /\ \A i \in 1 .. n : d.blocks[i] = bs[first + i - 1]
    <2>1. v[n].error = "ok" /\ d.blocks = v[n].blocks BY <1>5, <1>7 DEF Walks
    <2>2. n \in 0 .. n BY <1>4, SMT
    <2>3. HasTaken(v[n], n, payload, count, bs, first, ends) BY <1>6, <2>2
    <2>4. /\ n <= count /\ v[n].blocks \in Seq(Seq(Nat)) /\ Len(v[n].blocks) = n
          /\ \A i \in 1 .. n : v[n].blocks[i] = bs[first + i - 1]
          BY <2>1, <2>3 DEF HasTaken
    <2> HIDE DEF n, d
    <2>5. first + n <= Len(bs) + 1 BY <1>1, <1>4, <2>4
    <2> QED BY <2>1, <2>4, <2>5
  <1>8. p.sequence = first BY DEF first
  <1>9. p.sequence \in Nat /\ p.sequence > 0 BY <1>1, <1>8
  <1> HIDE DEF n, d
  <1> QED BY <1>4, <1>7, <1>8, <1>9 DEF Good, n, d

LEMMA WholeIsACut == \A payload \in Seq(Nat) : CutOf(payload, payload)
PROOF
  <1> TAKE payload \in Seq(Nat)
  <1>1. Len(payload) \in Nat OBVIOUS
  <1>2. Len(payload) <= Len(payload) BY <1>1
  <1> QED BY <1>2 DEF CutOf

\* What was sent is framed.
LEMMA CarriedDrains ==
    ASSUME NEW kind, NEW bs, BodiesOk(bs), NEW q, Carries(kind, q, bs)
    PROVE  /\ Drain(kind, q).error = "ok" /\ Remaining(kind, q) = q.count
           /\ Good(kind, q, bs)
PROOF
  <1> DEFINE first == q.sequence
             n == q.count
             full == q.payload
  <1>1. /\ first \in Nat /\ first > 0 /\ n \in Nat /\ full \in Seq(Nat)
        /\ first + n <= Len(bs) + 1 /\ bs \in Seq(Seq(Nat)) /\ Len(bs) \in Nat
        /\ q.length \in Nat /\ q.session = Session /\ Len(full) \in Nat
        BY CarriedFields
  <1>2. PICK ends : Blocks(full, n, bs, first, ends) BY CarriedFields
  <1>3. CutOf(full, full) BY <1>1, WholeIsACut
  <1>4. Good(kind, q, bs) BY <1>1, <1>3, CutIsGood
  <1>5. Remaining(kind, q) = n BY <1>1, CarriedFields, NextIsRemaining
  <1>6. PICK v : Walks(kind, q, v) BY <1>1, DrainIsAWalk
  <1>7. \A k \in 0 .. n : HasTaken(v[k], k, full, n, bs, first, ends)
        BY <1>1, <1>2, <1>3, <1>5, <1>6, OnlyTheBlocks
  <1>8. /\ v \in [0 .. n -> Cursors] /\ v[0] = Over(kind, q)
        /\ \A k \in 1 .. n : v[k] = NextIfOk(v[k - 1])
        /\ Drain(kind, q).error = "ok" <=> v[n].error = "ok" /\ v[n].rest = <<>>
        BY <1>5, <1>6 DEF Walks
  <1>9. Over(kind, q).error = "ok"
    <2>1. q.whole /\ (kind = "iextp" => q.length = Len(full)) BY CarriedFields
    <2>2. CASE kind = "iextp"
      <3>1. ~(q.length > Len(full)) /\ ~(q.length < Len(full)) BY <2>1, <2>2, <1>1
      <3>2. Over(kind, q) = Cursor("ok", full, <<>>) BY <2>1, <2>2, <3>1 DEF Over, IextpOver
      <3> QED BY <3>2 DEF Cursor
    <2>3. CASE kind # "iextp"
      <3>1. Over(kind, q) = Cursor("ok", full, <<>>) BY <2>1, <2>3 DEF Over, MoldOver
      <3> QED BY <3>1 DEF Cursor
    <2> QED BY <2>2, <2>3
  <1>e. ends[n] = Len(full) BY <1>2 DEF Blocks
  <1> DEFINE G == {k \in 0 .. n : v[k].error = "ok"}
  <1>10. 0 \in G BY <1>1, <1>8, <1>9
  <1> HIDE DEF first, full, n
  <1>11. \A k \in 1 .. n : k - 1 \in G => k \in G
    <2> TAKE k \in 1 .. n
    <2> HAVE k - 1 \in G
    <2> DEFINE c == v[k - 1]
               at == ends[k - 1]
               body == bs[first + k - 1]
    <2>1. k - 1 \in 0 .. n /\ k \in 0 .. n /\ k - 1 <= n BY <1>1, SMT
    <2>2. c \in Cursors /\ c.error = "ok" /\ v[k] = NextBlock(c)
          BY <2>1, <1>8 DEF NextIfOk
    <2>3. Stands(c, full, at) BY <2>1, <2>2, <1>7 DEF HasTaken
    <2>4. /\ Len(body) \in Nat /\ at \in 0 .. Len(full) /\ ends[k] \in 0 .. Len(full)
          /\ ends[k] = at + 1 + Len(body) /\ full[at + 1] = Len(body)
      <3>1. EndsABlock(full, bs, first, ends, k) BY <1>1, <1>2, NextOfTheBlocks
      <3> QED BY <3>1 DEF EndsABlock
    <2> HIDE DEF c, at, body
    <2>5. /\ Len(c.rest) = Len(full) - at
          /\ \A j \in 1 .. Len(c.rest) : c.rest[j] = full[at + j]
          BY <2>3 DEF Stands
    <2>6. 1 \in 1 .. Len(c.rest) /\ 1 + Len(body) <= Len(c.rest) /\ Len(c.rest) # 0
          BY <2>4, <2>5, <1>1, SMT
    <2>7. c.rest[1] = Len(body) BY <2>4, <2>5, <2>6
    <2>8. c.rest # <<>> BY <2>6
    <2>9. v[k].error = "ok" BY <2>2, <2>6, <2>7, <2>8, BlockTaken
    <2> QED BY <2>1, <2>9
  <1>12. \A k \in 0 .. n : k \in G
    <2> HIDE DEF G
    <2> QED BY <1>1, <1>10, <1>11, Onward
  <1>13. v[n].error = "ok" /\ v[n].rest = <<>>
    <2>1. n \in 0 .. n BY <1>1, SMT
    <2>2. v[n].error = "ok" /\ v[n] \in Cursors BY <2>1, <1>8, <1>12
    <2>3. Stands(v[n], full, ends[n]) BY <2>1, <2>2, <1>7 DEF HasTaken
    <2>4. Len(v[n].rest) = 0
      <3>1. Len(v[n].rest) = Len(full) - Len(full) BY <2>3, <1>e DEF Stands
      <3> QED BY <3>1, <1>1
    <2>5. v[n].rest \in Seq(Nat) BY <2>2 DEF Cursors
    <2> QED BY <2>2, <2>4, <2>5
  <1> QED BY <1>4, <1>5, <1>8, <1>13 DEF n

\* A place past the first block is the end of another one, or a cell of a body stands
\* behind it: no length is as large.
LEMMA BetweenBlocks ==
    ASSUME NEW full \in Seq(Nat), NEW count \in Nat, count > 0, NEW bs, BodiesOk(bs),
           NEW first \in Nat, first > 0, first + count <= Len(bs) + 1,
           NEW ends, Blocks(full, count, bs, first, ends),
           NEW at \in 0 .. Len(full), ends[1] < at
    PROVE  \/ \E j \in 2 .. count : at = ends[j]
           \/ at < Len(full) /\ full[at + 1] > EndOfSession
PROOF
  <1> DEFINE T == {j \in 1 .. count : ends[j] <= at}
             m == Max(T)
  <1>1. bs \in Seq(Seq(Nat)) /\ Len(full) \in Nat BY DEF BodiesOk
  <1>2. ends \in [0 .. count -> 0 .. Len(full)] /\ ends[count] = Len(full) BY DEF Blocks
  <1>3. 1 \in 1 .. count /\ 1 \in 0 .. count BY SMT
  <1>4. ends[1] \in 0 .. Len(full) BY <1>2, <1>3
  <1>5. 1 \in T BY <1>1, <1>3, <1>4
  <1>6. m \in T /\ \A k \in T : k <= m
    <2>1. T \in SUBSET (1 .. count) /\ T # {} BY <1>5
    <2> HIDE DEF T
    <2> QED BY <2>1, GreatestNumber
  <1> HIDE DEF m
  <1>7. m \in 1 .. count /\ ends[m] <= at /\ m \in 0 .. count
    <2>1. m \in 1 .. count /\ ends[m] <= at BY <1>6
    <2>2. m \in 0 .. count BY <2>1, SMT
    <2> QED BY <2>1, <2>2
  <1>8. ends[m] \in 0 .. Len(full) BY <1>2, <1>7
  <1>9. CASE ends[m] = at
    <2>1. m # 1 BY <1>9, <1>4, <1>1
    <2>2. m \in 2 .. count BY <2>1, <1>7, SMT
    <2> QED BY <2>2, <1>9
  <1>10. CASE ends[m] # at
    <2> DEFINE here == ends[m]
               next == ends[m + 1]
               body == bs[first + m]
    <2>1. m # count
      <3>1. m = count => here = Len(full) BY <1>2
      <3> HIDE DEF here
      <3>2. here <= at /\ here # at BY <1>7, <1>10 DEF here
      <3>3. here \in 0 .. Len(full) BY <1>8 DEF here
      <3> QED BY <3>1, <3>2, <3>3, <1>1, SMT
    <2>2. m + 1 \in 1 .. count /\ (m + 1) - 1 = m /\ first + (m + 1) - 1 = first + m
          /\ ~(m + 1 <= m)
          BY <2>1, <1>7, SMT
    <2>3. EndsABlock(full, bs, first, ends, m + 1) BY <2>2, <1>1, NextOfTheBlocks
    <2>4. /\ Len(body) \in Nat /\ next \in 0 .. Len(full) /\ next = here + 1 + Len(body)
          /\ first + m \in 1 .. Len(bs)
          /\ \A j \in 1 .. Len(body) : full[here + 1 + j] = body[j]
          BY <2>2, <2>3 DEF EndsABlock
    <2>5. ~(next <= at) BY <2>2, <1>6
    <2>6. here \in 0 .. Len(full) /\ here <= at /\ here # at BY <1>7, <1>8, <1>10
    <2> HIDE DEF here, next
    <2>7. at < Len(full) BY <2>4, <2>5, <1>1, SMT
    <2>8. at - here \in 1 .. Len(body) /\ here + 1 + (at - here) = at + 1
      <3> DEFINE long == Len(body)
                 size == Len(full)
      <3>1. /\ long \in Nat /\ size \in Nat /\ next \in 0 .. size /\ next = here + 1 + long
            /\ here \in 0 .. size /\ here <= at /\ here # at /\ at \in 0 .. size
            /\ ~(next <= at)
            BY <2>4, <2>5, <2>6, <1>1
      <3> HIDE DEF long, size, body
      <3>2. at - here \in 1 .. long /\ here + 1 + (at - here) = at + 1 BY <3>1, SMT
      <3> QED BY <3>2 DEF long
    <2>9. full[at + 1] = body[at - here] BY <2>4, <2>8
    <2>10. body[at - here] > EndOfSession BY <2>4, <2>8 DEF BodiesOk
    <2> QED BY <2>7, <2>9, <2>10
  <1> QED BY <1>9, <1>10

\* Where a cursor stands that was led past the first block.
Astray(c, k, payload, count, ends) ==
    c.error = "ok" =>
       \E at \in 0 .. Len(payload) :
          /\ Stands(c, payload, at)
          /\ \/ \E j \in k + 1 .. count : at = ends[j]
             \/ at < Len(payload) /\ payload[at + 1] > EndOfSession

\* A first length that says too much runs into a body, out of the datagram, or leaves
\* fewer blocks than the header counts.
LEMMA OverstatedIsNoticed ==
    ASSUME NEW kind, NEW bs, BodiesOk(bs), NEW q, Carries(kind, q, bs), q.payload # <<>>,
           NEW p, p.sequence \in Nat, p.count = q.count, p.length \in Nat,
           p.payload \in Seq(Nat), Len(p.payload) = Len(q.payload),
           p.payload[1] > q.payload[1],
           \A i \in 2 .. Len(q.payload) : p.payload[i] = q.payload[i]
    PROVE  Drain(kind, p).error # "ok"
PROOF
  <1> SUFFICES ASSUME Drain(kind, p).error = "ok" PROVE FALSE OBVIOUS
  <1> DEFINE first == q.sequence
             n == q.count
             full == q.payload
             payload == p.payload
             size == Len(full)
  <1>1. /\ first \in Nat /\ first > 0 /\ n \in Nat /\ full \in Seq(Nat)
        /\ first + n <= Len(bs) + 1 /\ bs \in Seq(Seq(Nat))
        /\ size \in Nat /\ size < EndOfSession /\ n < EndOfSession
        BY CarriedFields
  <1>2. PICK ends : Blocks(full, n, bs, first, ends) BY CarriedFields
  <1>3. Remaining(kind, p) = n BY <1>1, NextIsRemaining
  <1>4. PICK v : Walks(kind, p, v) BY <1>1, DrainIsAWalk
  <1>5. /\ v \in [0 .. n -> Cursors] /\ v[0] = Over(kind, p)
        /\ v[n].error = "ok" /\ v[n].rest = <<>>
        BY <1>3, <1>4 DEF Walks
  <1>6. /\ payload \in Seq(Nat) /\ Len(payload) = size /\ payload[1] > full[1]
        /\ \A i \in 2 .. size : payload[i] = full[i]
        OBVIOUS
  <1>7. n > 0
    <2>1. n = 0 => size = 0 BY <1>2 DEF Blocks
    <2>2. size # 0 BY <1>1
    <2> QED BY <1>1, <2>1, <2>2
  <1>e. EndOfSession \in Nat BY FramingAssumption
  <1>8. /\ ends \in [0 .. n -> 0 .. size] /\ ends[0] = 0 /\ ends[n] = size
        BY <1>2 DEF Blocks
  <1>w. \A k \in 1 .. n : v[k].error = "ok" =>
           /\ v[k - 1] \in Cursors /\ v[k - 1].error = "ok" /\ Takes(v[k - 1], v[k])
        BY <1>3, <1>4, WalkWasOk
  <1>b. \A k \in 1 .. n : EndsABlock(full, bs, first, ends, k) BY <1>1, <1>2, NextOfTheBlocks
  <1>s. \A at \in 0 .. size :
           ends[1] < at => \/ \E j \in 2 .. n : at = ends[j]
                           \/ at < size /\ full[at + 1] > EndOfSession
        BY <1>1, <1>2, <1>7, BetweenBlocks
  <1>o. v[0].error = "ok" => v[0] = Cursor("ok", payload, <<>>) BY <1>5, OverIsACursor
  <1> HIDE DEF first, n, full, payload, size
  <1>9. ASSUME v[1].error = "ok" PROVE Astray(v[1], 1, payload, n, ends)
    <2>1. 1 \in 1 .. n /\ 1 - 1 = 0 BY <1>1, <1>7, SMT
    <2>2. v[0] \in Cursors /\ v[0].error = "ok" /\ Takes(v[0], v[1]) BY <2>1, <1>9, <1>w
    <2>3. v[0].rest = payload BY <2>2, <1>o DEF Cursor
    <2>4. Stands(v[0], payload, 0)
      <3>1. \A j \in 1 .. Len(payload) : 0 + j = j BY SMT
      <3>2. 0 \in 0 .. Len(payload) /\ Len(payload) - 0 = Len(payload) BY <1>1, <1>6, SMT
      <3> QED BY <3>1, <3>2, <2>3 DEF Stands
    <2>5. GoesOver(v[0], v[1], payload, 0) BY <2>2, <2>4, <1>6, StepStands
    <2> DEFINE wrong == payload[1]
               at == 0 + 1 + payload[0 + 1]
    <2>6. wrong \in Nat /\ at = 1 + wrong /\ at <= size /\ Stands(v[1], payload, at)
      <3>1. 0 + 1 = 1 BY SMT
      <3>2. wrong \in Nat /\ at <= size /\ Stands(v[1], payload, at)
            BY <2>5, <3>1, <1>6 DEF GoesOver
      <3> QED BY <3>1, <3>2
    <2>7. EndsABlock(full, bs, first, ends, 1) BY <2>1, <1>b
    <2>8. /\ full[1] \in Nat /\ ends[1] = 1 + full[1]
      <3>1. 0 + 1 = 1 BY SMT
      <3>2. /\ full[0 + 1] \in Nat /\ ends[1] = 0 + 1 + full[0 + 1]
            BY <2>1, <2>7, <1>8 DEF EndsABlock
      <3> QED BY <3>1, <3>2
    <2>9. payload[1] > full[1] BY <1>6
    <2> HIDE DEF at
    <2>10. at \in 0 .. size /\ ends[1] < at /\ at + 1 \in 2 .. size + 1
      <3> DEFINE a == full[1]
                 b == ends[1]
      <3>1. a \in Nat /\ b = 1 + a /\ wrong > a BY <2>8, <2>9
      <3> HIDE DEF a, b, wrong
      <3>2. at \in 0 .. size /\ b < at /\ at + 1 \in 2 .. size + 1
            BY <3>1, <2>6, <1>1, SMT
      <3> QED BY <3>2 DEF b
    <2>11. \/ \E j \in 2 .. n : at = ends[j]
           \/ at < size /\ full[at + 1] > EndOfSession
           BY <2>10, <1>s
    <2>12. at < size => payload[at + 1] = full[at + 1]
      <3>1. at < size => at + 1 \in 2 .. size BY <2>10, <1>1, SMT
      <3> QED BY <3>1, <1>6
    <2>13. 1 + 1 = 2 BY SMT
    <2> QED BY <2>6, <2>10, <2>11, <2>12, <2>13, <1>6 DEF Astray
  <1>10. ASSUME NEW k \in 1 .. n, k # 1, Astray(v[k - 1], k - 1, payload, n, ends),
                v[k].error = "ok"
         PROVE  Astray(v[k], k, payload, n, ends)
    <2>1. v[k - 1] \in Cursors /\ v[k - 1].error = "ok" /\ Takes(v[k - 1], v[k])
          BY <1>10, <1>w
    <2>2. PICK at \in 0 .. Len(payload) :
             /\ Stands(v[k - 1], payload, at)
             /\ \/ \E j \in (k - 1) + 1 .. n : at = ends[j]
                \/ at < Len(payload) /\ payload[at + 1] > EndOfSession
          BY <2>1, <1>10 DEF Astray
    <2>3. GoesOver(v[k - 1], v[k], payload, at) BY <2>1, <2>2, <1>6, StepStands
    <2> DEFINE long == payload[at + 1]
               on == at + 1 + payload[at + 1]
    <2>4. long \in Nat /\ on = at + 1 + long /\ on <= size /\ Stands(v[k], payload, on)
          BY <2>3, <1>6 DEF GoesOver
    <2>5. at \in 0 .. size BY <1>6
    <2> HIDE DEF on
    <2>6. ~(long > EndOfSession)
      <3> HIDE DEF long
      <3> QED BY <2>4, <2>5, <1>1, <1>e, SMT
    <2>7. PICK j \in (k - 1) + 1 .. n : at = ends[j] BY <2>2, <2>6
    <2>8. j \in 1 .. n /\ k <= j BY <1>1, SMT
    <2>9. EndsABlock(full, bs, first, ends, j) BY <2>8, <1>b
    <2>10. j # n
      <3>1. j = n => at = size BY <2>7, <1>8
      <3> HIDE DEF long
      <3> QED BY <3>1, <2>4, <2>5, <1>1, SMT
    <2>11. j + 1 \in 1 .. n /\ j + 1 \in k + 1 .. n /\ (j + 1) - 1 = j
           BY <2>8, <2>10, <1>1, SMT
    <2>12. EndsABlock(full, bs, first, ends, j + 1) BY <2>11, <1>b
    <2> DEFINE body == bs[first + (j + 1) - 1]
    <2>13. Len(body) \in Nat /\ ends[j + 1] = at + 1 + Len(body) /\ full[at + 1] = Len(body)
           BY <2>7, <2>11, <2>12 DEF EndsABlock
    <2>14. long = full[at + 1]
      <3>1. at > 0
        <4>1. /\ Len(bs[first + j - 1]) \in Nat /\ ends[j - 1] \in 0 .. Len(full)
              /\ ends[j] = ends[j - 1] + 1 + Len(bs[first + j - 1])
              BY <2>9 DEF EndsABlock
        <4> DEFINE x == ends[j - 1]
                   y == Len(bs[first + j - 1])
        <4>2. x \in Nat /\ y \in Nat /\ at = x + 1 + y
          <5>1. x \in Nat BY <4>1, <1>1 DEF size
          <5> QED BY <5>1, <4>1, <2>7
        <4> HIDE DEF x, y
        <4> QED BY <4>2, SMT
      <3>2. at + 1 \in 2 .. size
        <4> HIDE DEF long
        <4> QED BY <3>1, <2>4, <2>5, <1>1, SMT
      <3> QED BY <3>2, <1>6
    <2>15. on = ends[j + 1] BY <2>4, <2>13, <2>14
    <2>16. on \in 0 .. Len(payload) BY <2>4 DEF Stands
    <2> QED BY <2>4, <2>11, <2>15, <2>16 DEF Astray
  <1> DEFINE G == {k \in 0 .. n : k = 0 \/ Astray(v[k], k, payload, n, ends)}
  <1>11. 0 \in G BY <1>1
  <1>12. \A k \in 1 .. n : k - 1 \in G => k \in G
    <2> TAKE k \in 1 .. n
    <2> HAVE k - 1 \in G
    <2>1. k \in 0 .. n /\ (k - 1 = 0 => k = 1) BY SMT
    <2>2. CASE v[k].error # "ok" BY <2>1, <2>2 DEF Astray
    <2>3. CASE v[k].error = "ok" /\ k = 1 BY <2>1, <2>3, <1>9
    <2>4. CASE v[k].error = "ok" /\ k # 1
      <3>1. k \in 2 .. n /\ k - 1 # 0 BY <2>4, <1>1, SMT
      <3>2. Astray(v[k - 1], k - 1, payload, n, ends) BY <3>1
      <3>3. Astray(v[k], k, payload, n, ends) BY <3>1, <3>2, <2>4, <1>10
      <3> QED BY <3>3, <2>1
    <2> QED BY <2>2, <2>3, <2>4
  <1>13. \A k \in 0 .. n : k \in G
    <2> HIDE DEF G
    <2> QED BY <1>1, <1>11, <1>12, Onward
  <1>14. n \in 0 .. n /\ n # 0 /\ n + 1 .. n = {}
    <2>1. n \in 0 .. n /\ n # 0 BY <1>1, <1>7, SMT
    <2>2. \A j \in n + 1 .. n : FALSE BY <1>1, SMT
    <2> QED BY <2>1, <2>2
  <1>15. PICK at \in 0 .. Len(payload) :
            /\ Stands(v[n], payload, at)
            /\ \/ \E j \in n + 1 .. n : at = ends[j]
               \/ at < Len(payload) /\ payload[at + 1] > EndOfSession
         BY <1>5, <1>13, <1>14 DEF Astray
  <1>16. at < Len(payload) /\ Len(v[n].rest) = Len(payload) - at
         BY <1>14, <1>15 DEF Stands
  <1>17. Len(v[n].rest) = 0
    <2>1. Len(<<>>) = 0 OBVIOUS
    <2> QED BY <2>1, <1>5
  <1> QED BY <1>1, <1>6, <1>16, <1>17, SMT

\* The faults that leave the position and the session of a packet alone.
Harmless == FaultOps \ {"rewrite_sequence", "rewrite_session"}

\* What a fault makes of a packet is noticed, or is a packet with some of its messages.
LEMMA DamagedIsGood ==
    ASSUME NEW kind, NEW bs, BodiesOk(bs), NEW q, Carries(kind, q, bs),
           NEW f, f.op \in Harmless \ {"drop", "duplicate", "delay"}, f.operand \in Nat,
           Damaged(kind, f, q) # <<>>
    PROVE  Good(kind, Damaged(kind, f, q)[1], bs)
PROOF
  <1> DEFINE full == q.payload
             by == f.operand
  <1>1. /\ q \in Datagrams /\ q.sequence \in Nat /\ q.count \in Nat /\ q.length \in Nat
        /\ full \in Seq(Nat) /\ q.session = Session /\ Len(full) \in Nat
        /\ q.sequence > 0 /\ q.sequence + q.count <= Len(bs) + 1 /\ bs \in Seq(Seq(Nat))
        /\ Len(full) < EndOfSession
        BY CarriedFields DEF Carries
  <1>2. f.op \in {"truncate", "overstate_block_count", "understate_block_count",
                  "overstate_block_length"}
        BY DEF Harmless, FaultOps
  <1>e. EndOfSession \in Nat /\ EndOfSession > 2 BY FramingAssumption
  <1>c. CutOf(full, full) BY <1>1, WholeIsACut
  <1>3. CASE f.op = "truncate"
    <2>1. Damaged(kind, f, q) = Truncated(q, by) BY <1>3 DEF Damaged
    <2>2. CASE by = 0
      <3> DEFINE none == <<>>
                 cut == FALSE
                 p == [q EXCEPT !.whole = cut, !.payload = none]
      <3>1. Truncated(q, by) = <<p>> BY <2>2 DEF Truncated
      <3>2. none \in Seq(Nat) /\ Len(none) = 0 OBVIOUS
      <3>3. CutOf(none, full) BY <1>1, <3>2 DEF CutOf
      <3> HIDE DEF none, cut
      <3>4. /\ p.session = q.session /\ p.sequence = q.sequence /\ p.length = q.length
            /\ p.count = q.count /\ p.payload = none
            BY <1>1 DEF Datagrams
      <3> HIDE DEF p
      <3>5. Good(kind, p, bs) BY <1>1, <3>3, <3>4, CutIsGood
      <3> QED BY <3>1, <3>5, <2>1
    <2>3. CASE by # 0
      <3> DEFINE left == SubSeq(full, 1, by - 1)
                 p == [q EXCEPT !.payload = left]
      <3>0. by \in Nat /\ by > 0 BY <2>3
      <3>1. by - 1 < Len(full) /\ Truncated(q, by) = <<p>> BY <3>0, <2>1, <2>3 DEF Truncated
      <3>2. CutOf(left, full)
        <4> DEFINE k == by - 1
                   size == Len(full)
        <4>1. k \in Int /\ k >= 0 /\ k < size /\ size \in Nat BY <3>0, <3>1, <1>1
        <4>2. left = SubSeq(full, 1, k) OBVIOUS
        <4>s. size = Len(full) OBVIOUS
        <4> HIDE DEF k, size, left
        <4>3. \A i \in 1 .. k : i \in 1 .. size /\ i \in 1 .. k - 1 + 1 /\ 1 + i - 1 = i
              BY <4>1, SMT
        <4>4. \A i \in 1 .. k : full[i] \in Nat BY <4>3, <4>s, <1>1
        <4>5. /\ left \in Seq(Nat) /\ Len(left) = IF 1 <= k THEN k - 1 + 1 ELSE 0
              /\ \A i \in 1 .. k - 1 + 1 : left[i] = full[1 + i - 1]
              BY <4>1, <4>2, <4>4, SubSeqProperties
        <4>6. Len(left) = k BY <4>5, <4>1
        <4> QED BY <4>1, <4>3, <4>5, <4>6, <4>s DEF CutOf
      <3> HIDE DEF left
      <3>4. /\ p.session = q.session /\ p.sequence = q.sequence /\ p.length = q.length
            /\ p.count = q.count /\ p.payload = left
            BY <1>1 DEF Datagrams
      <3> HIDE DEF p
      <3>5. Good(kind, p, bs) BY <1>1, <3>2, <3>4, CutIsGood
      <3> QED BY <3>1, <3>5, <2>1
    <2> QED BY <2>2, <2>3
  <1>4. ASSUME NEW count \in Nat, NEW p, p = [q EXCEPT !.count = count]
        PROVE  Good(kind, p, bs)
    <2>1. /\ p.session = q.session /\ p.sequence = q.sequence /\ p.length = q.length
          /\ p.count = count /\ p.payload = full
          BY <1>1, <1>4 DEF Datagrams
    <2> QED BY <1>1, <1>4, <1>c, <2>1, CutIsGood
  <1>5. ASSUME NEW delta \in Int
        PROVE  Good(kind, AdjustBlockCount(kind, q, delta)[1], bs)
    <2> DEFINE sum == q.count + delta
               low == Saturate(1, EndOfSession - 1, sum)
               any == Saturate(0, EndOfSession, sum)
    <2>1. low \in Nat /\ any \in Nat BY <1>1, <1>e DEF Saturate
    <2> HIDE DEF low, any
    <2>2. AdjustBlockCount(kind, q, delta) =
             IF kind = "iextp" THEN <<[q EXCEPT !.count = any]>>
             ELSE <<[q EXCEPT !.count = low]>>
          BY DEF AdjustBlockCount, IextpAdjustBlockCount, MoldAdjustBlockCount, low, any
    <2>3. AdjustBlockCount(kind, q, delta)[1] =
             IF kind = "iextp" THEN [q EXCEPT !.count = any] ELSE [q EXCEPT !.count = low]
          BY <2>2
    <2> QED BY <2>1, <2>3, <1>4
  <1>6. CASE f.op = "overstate_block_count"
    <2>1. Damaged(kind, f, q) = AdjustBlockCount(kind, q, by) BY <1>6 DEF Damaged
    <2> QED BY <2>1, <1>5
  <1>7. CASE f.op = "understate_block_count"
    <2>1. Damaged(kind, f, q) = AdjustBlockCount(kind, q, 0 - by) BY <1>7 DEF Damaged
    <2>2. 0 - by \in Int OBVIOUS
    <2> QED BY <2>1, <2>2, <1>5
  <1>8. CASE f.op = "overstate_block_length"
    <2> DEFINE long == full[1]
               x == Saturate(0, EndOfSession, long + by)
               other == [full EXCEPT ![1] = x]
               p == [q EXCEPT !.payload = other]
    <2>1. Damaged(kind, f, q) = AdjustFirstBlockLength(q, by) BY <1>8 DEF Damaged
    <2>2. full # <<>> BY <2>1 DEF AdjustFirstBlockLength
    <2>3. Damaged(kind, f, q) = <<p>> BY <2>1, <2>2 DEF AdjustFirstBlockLength
    <2>4. 1 \in 1 .. Len(full) /\ long \in Nat BY <1>1, <2>2
    <2>5. long < EndOfSession
      <3>1. PICK ends : Blocks(full, q.count, bs, q.sequence, ends) BY CarriedFields
      <3>2. /\ ends \in [0 .. q.count -> 0 .. Len(full)] /\ ends[0] = 0
            /\ ends[q.count] = Len(full)
            BY <3>1 DEF Blocks
      <3>3. q.count # 0 BY <3>2, <2>4, <1>1
      <3>4. 1 \in 1 .. q.count BY <3>3, <1>1
      <3>5. EndsABlock(full, bs, q.sequence, ends, 1) BY <3>1, <3>4, <1>1, NextOfTheBlocks
      <3> DEFINE body == bs[q.sequence + 1 - 1]
                 m == Len(body)
                 size == Len(full)
      <3>6. /\ m \in Nat /\ ends[1 - 1] \in 0 .. size /\ ends[1] \in 0 .. size
            /\ ends[1] = ends[1 - 1] + 1 + m /\ full[ends[1 - 1] + 1] = m
            BY <3>5 DEF EndsABlock
      <3>7. 1 - 1 = 0 /\ 0 + 1 = 1 BY SMT
      <3>8. long = m /\ ends[1] = 0 + 1 + m /\ ends[1] \in 0 .. size
            BY <3>2, <3>6, <3>7
      <3>9. size \in Nat /\ size < EndOfSession BY <1>1
      <3> HIDE DEF m, size, long
      <3> QED BY <3>6, <3>8, <3>9, <1>e, SMT
    <2>6. x \in Nat /\ x >= long /\ (x = long \/ x > long)
      <3> HIDE DEF long, by
      <3>1. by \in Nat BY DEF by
      <3> QED BY <2>4, <2>5, <3>1, <1>e, SMT DEF Saturate
    <2> HIDE DEF x
    <2>7. /\ other \in Seq(Nat) /\ Len(other) = Len(full) /\ other[1] = x
          /\ \A i \in 2 .. Len(full) : other[i] = full[i]
          BY <1>1, <2>4, <2>6
    <2> HIDE DEF other
    <2>8. /\ p.session = q.session /\ p.sequence = q.sequence /\ p.length = q.length
          /\ p.count = q.count /\ p.payload = other
          BY <1>1 DEF Datagrams
    <2> HIDE DEF p
    <2>9. CASE x = long
      <3>1. \A i \in 1 .. Len(full) : i = 1 \/ i \in 2 .. Len(full) BY <1>1, SMT
      <3>2. CutOf(other, full) BY <3>1, <2>7, <2>9, <1>1 DEF CutOf
      <3>3. Good(kind, p, bs) BY <1>1, <2>8, <3>2, CutIsGood
      <3> QED BY <2>3, <3>3
    <2>10. CASE x > long
      <3>1. Drain(kind, p).error # "ok"
        <4> HIDE DEF full
        <4>1. p.payload[1] > full[1] BY <2>7, <2>8, <2>10 DEF long
        <4>2. \A i \in 2 .. Len(full) : p.payload[i] = full[i] BY <2>7, <2>8
        <4>3. p.payload \in Seq(Nat) /\ Len(p.payload) = Len(full) BY <2>7, <2>8
        <4> QED BY <4>1, <4>2, <4>3, <1>1, <2>2, <2>8, OverstatedIsNoticed DEF full
      <3>2. p.sequence \in Nat /\ p.count \in Nat /\ p.session = Session /\ p.sequence > 0
            BY <1>1, <2>8
      <3>3. /\ Remaining(kind, p) \in Nat
            /\ NextSequence(kind, p) = p.sequence + Remaining(kind, p)
            BY <3>2, NextIsRemaining
      <3>4. Good(kind, p, bs) BY <3>1, <3>2, <3>3 DEF Good
      <3> QED BY <2>3, <3>4
    <2> QED BY <2>6, <2>9, <2>10
  <1> QED BY <1>2, <1>3, <1>6, <1>7, <1>8

-----------------------------------------------------------------------------
(* The book applies what it was given, up to the first number not given.     *)

Shelves == [waiting : SUBSET (Nat \X Seq(Nat)), applied : Seq(Seq(Nat))]

\* The first n of the messages with numbers in T are applied, the others wait.
Sorted(book, bs, T, n) ==
    /\ book \in Shelves /\ n \in 0 .. Len(bs) /\ Len(book.applied) = n
    /\ \A i \in 1 .. n : book.applied[i] = bs[i]
    /\ T \in SUBSET (1 .. Len(bs)) /\ 1 .. n \in SUBSET T
    /\ book.waiting = {<<m, bs[m]>> : m \in T \ 1 .. n}

\* What waits does so because the message before it is not there.
Held(book, bs, T) == \E n \in 0 .. Len(bs) : Sorted(book, bs, T, n) /\ n + 1 \notin T

\* What the messages with numbers in N are delivered as.
Deliveries(bs, N) == {<<m, bs[m]>> : m \in N}

LEMMA OneOfTheRest ==
    ASSUME NEW T, NEW n \in Nat, T \in SUBSET Nat, n + 1 \in T
    PROVE  (T \ 1 .. n) \ {n + 1} = T \ 1 .. n + 1 /\ n + 1 \in T \ 1 .. n
PROOF
  <1>1. \A m \in Nat : m \in 1 .. n + 1 <=> m \in 1 .. n \/ m = n + 1 BY SMT
  <1>2. n + 1 \notin 1 .. n BY SMT
  <1> QED BY <1>1, <1>2

LEMMA StepSorts ==
    ASSUME NEW bs \in Seq(Seq(Nat)), NEW T, NEW n, NEW book, Sorted(book, bs, T, n), NEW i
    PROVE  /\ n + 1 \notin T => Step(book, i) = book
           /\ n + 1 \in T => /\ Sorted(Step(book, i), bs, T, n + 1)
                             /\ Step(book, i).waiting = book.waiting \ {<<n + 1, bs[n + 1]>>}
                             /\ <<n + 1, bs[n + 1]>> \in book.waiting
PROOF
  <1> DEFINE waits == book.waiting
             done == book.applied
             ready == {d \in waits : d[1] = Len(done) + 1}
             size == Len(bs)
  <1>1. /\ book \in Shelves /\ n \in 0 .. size /\ Len(done) = n
        /\ \A k \in 1 .. n : done[k] = bs[k]
        /\ T \in SUBSET (1 .. size) /\ 1 .. n \in SUBSET T
        /\ waits = {<<m, bs[m]>> : m \in T \ 1 .. n}
        BY DEF Sorted
  <1>2. waits \in SUBSET (Nat \X Seq(Nat)) /\ done \in Seq(Seq(Nat))
        /\ book = [waiting |-> waits, applied |-> done]
        BY <1>1 DEF Shelves
  <1>3. size \in Nat /\ n \in Nat /\ 1 .. size \in SUBSET Nat
    <2>1. size \in Nat OBVIOUS
    <2>2. \A k \in 1 .. size : k \in Nat BY <2>1, SMT
    <2> QED BY <2>1, <2>2, <1>1, SMT
  <1>4. Step(book, i) =
           IF ready = {} THEN book
           ELSE LET d == CHOOSE d \in ready : TRUE
                IN  [waiting |-> waits \ ready, applied |-> Append(done, d[2])]
        BY DEF Step
  <1>5. \A d \in waits : \E m \in T \ 1 .. n : d = <<m, bs[m]>> BY <1>1
  <1>6. CASE n + 1 \notin T
    <2>1. ready = {}
      <3> SUFFICES ASSUME NEW d \in ready PROVE FALSE OBVIOUS
      <3>1. PICK m \in T \ 1 .. n : d = <<m, bs[m]>> BY <1>5
      <3>2. d[1] = m /\ d[1] = n + 1 BY <3>1, <1>1
      <3> QED BY <3>1, <3>2, <1>6
    <2> QED BY <2>1, <1>4, <1>6
  <1>7. CASE n + 1 \in T
    <2> DEFINE one == <<n + 1, bs[n + 1]>>
    <2>1. /\ (T \ 1 .. n) \ {n + 1} = T \ 1 .. n + 1 /\ n + 1 \in T \ 1 .. n
      <3>1. T \in SUBSET Nat BY <1>1, <1>3
      <3> QED BY <3>1, <1>3, <1>7, OneOfTheRest
    <2>2. n + 1 \in 1 .. size /\ bs[n + 1] \in Seq(Nat) BY <1>1, <1>7
    <2>3. one \in waits /\ one[1] = n + 1 /\ one[2] = bs[n + 1] BY <2>1, <1>1
    <2>4. ready = {one}
      <3>1. ASSUME NEW d \in ready PROVE d = one
        <4>1. PICK m \in T \ 1 .. n : d = <<m, bs[m]>> BY <1>5
        <4>2. d[1] = m /\ d[1] = n + 1 BY <4>1, <1>1
        <4> QED BY <4>1, <4>2
      <3>2. one \in ready BY <2>3, <1>1
      <3> QED BY <3>1, <3>2
    <2> HIDE DEF ready
    <2>5. (CHOOSE d \in ready : TRUE) = one BY <2>4
    <2>6. Step(book, i) = [waiting |-> waits \ {one}, applied |-> Append(done, bs[n + 1])]
          BY <1>4, <2>3, <2>4, <2>5
    <2> DEFINE left == waits \ {one}
               more == Append(done, bs[n + 1])
               now == [waiting |-> left, applied |-> more]
    <2>7. /\ more \in Seq(Seq(Nat)) /\ Len(more) = n + 1 /\ more[n + 1] = bs[n + 1]
          /\ \A k \in 1 .. n : more[k] = done[k]
      <3>1. /\ more \in Seq(Seq(Nat)) /\ Len(more) = Len(done) + 1
            /\ \A k \in 1 .. Len(done) : more[k] = done[k]
            /\ more[Len(done) + 1] = bs[n + 1]
            BY <1>2, <2>2, AppendProperties
      <3> QED BY <3>1, <1>1
    <2>8. left = {<<m, bs[m]>> : m \in T \ 1 .. n + 1}
      <3>1. left = {<<m, bs[m]>> : m \in (T \ 1 .. n) \ {n + 1}}
        <4>1. \A m : <<m, bs[m]>> = one <=> m = n + 1 OBVIOUS
        <4> HIDE DEF one
        <4> QED BY <4>1, <1>1
      <3> QED BY <3>1, <2>1
    <2>9. left \in SUBSET (Nat \X Seq(Nat)) BY <1>2
    <2> HIDE DEF left, more
    <2>10. now \in Shelves /\ now.waiting = left /\ now.applied = more BY <2>7, <2>9 DEF Shelves
    <2>11. n + 1 \in 0 .. size /\ 1 .. n + 1 \in SUBSET T
      <3>1. \A m \in 1 .. n + 1 : m \in 1 .. n \/ m = n + 1 BY <1>3, SMT
      <3>2. n + 1 \in 0 .. size BY <2>2, <1>3, SMT
      <3> QED BY <3>1, <3>2, <1>1, <1>7
    <2>12. \A k \in 1 .. n + 1 : more[k] = bs[k]
      <3>1. \A k \in 1 .. n + 1 : k \in 1 .. n \/ k = n + 1 BY <1>3, SMT
      <3> QED BY <3>1, <2>7, <1>1
    <2> HIDE DEF now
    <2>13. Sorted(now, bs, T, n + 1) BY <1>1, <2>7, <2>8, <2>10, <2>11, <2>12 DEF Sorted
    <2> QED BY <2>3, <2>6, <2>10, <2>13, <1>7 DEF now, left, more
  <1> QED BY <1>6, <1>7

LEMMA DeliveriesAreFinite ==
    ASSUME NEW bs, NEW N, IsFiniteSet(N)
    PROVE  IsFiniteSet(Deliveries(bs, N))
PROOF
  <1> DEFINE D == Deliveries(bs, N)
             f == [m \in N |-> <<m, bs[m]>>]
  <1>1. f \in Surjection(N, D)
    <2>1. f \in [N -> D] BY DEF Deliveries
    <2>2. \A d \in D : \E m \in N : f[m] = d BY DEF Deliveries
    <2> QED BY <2>1, <2>2 DEF Surjection
  <1> HIDE DEF f, D
  <1>2. IsFiniteSet(D) BY <1>1, FS_Surjection
  <1> QED BY <1>2 DEF D

\* After k of c steps: stopped at a hole, or k of the c deliveries are applied.
StepsOn(book, bs, T, c, k) ==
    /\ IsFiniteSet(book.waiting)
    /\ \E n \in 0 .. Len(bs) :
          Sorted(book, bs, T, n) /\ (n + 1 \in T => Cardinality(book.waiting) = c - k)

LEMMA OneStepOn ==
    ASSUME NEW bs \in Seq(Seq(Nat)), NEW T, NEW c \in Nat, NEW k \in 1 .. c,
           NEW book, StepsOn(book, bs, T, c, k - 1), NEW i
    PROVE  StepsOn(Step(book, i), bs, T, c, k)
PROOF
  <1> DEFINE next == Step(book, i)
             size == Len(bs)
  <1>1. PICK n \in 0 .. size :
           Sorted(book, bs, T, n) /\ (n + 1 \in T => Cardinality(book.waiting) = c - (k - 1))
        BY DEF StepsOn
  <1>2. IsFiniteSet(book.waiting) BY DEF StepsOn
  <1>3. size \in Nat OBVIOUS
  <1>4. CASE n + 1 \notin T
    <2>1. next = book BY <1>1, <1>4, StepSorts
    <2> HIDE DEF next
    <2> QED BY <2>1, <1>1, <1>2, <1>4 DEF StepsOn, next
  <1>5. CASE n + 1 \in T
    <2> DEFINE one == <<n + 1, bs[n + 1]>>
    <2>1. /\ Sorted(next, bs, T, n + 1) /\ next.waiting = book.waiting \ {one}
          /\ one \in book.waiting
      <3>1. Sorted(book, bs, T, n) BY <1>1
      <3>2. /\ Sorted(Step(book, i), bs, T, n + 1)
            /\ Step(book, i).waiting = book.waiting \ {<<n + 1, bs[n + 1]>>}
            /\ <<n + 1, bs[n + 1]>> \in book.waiting
        <4> HIDE DEF size
        <4> QED BY <3>1, <1>5, StepSorts
      <3> QED BY <3>2
    <2>2. n + 1 \in 0 .. size BY <2>1 DEF Sorted
    <2> HIDE DEF next, one
    <2>3. IsFiniteSet(next.waiting) /\ Cardinality(next.waiting) = Cardinality(book.waiting) - 1
          BY <2>1, <1>2, FS_RemoveElement
    <2>4. Cardinality(next.waiting) = c - k
      <3>1. Cardinality(book.waiting) = c - (k - 1) BY <1>1, <1>5
      <3>2. (c - (k - 1)) - 1 = c - k BY SMT
      <3> QED BY <3>1, <3>2, <2>3
    <2>5. StepsOn(next, bs, T, c, k) BY <2>1, <2>2, <2>3, <2>4 DEF StepsOn
    <2> QED BY <2>5 DEF next
  <1> QED BY <1>4, <1>5

\* deliver_to_book(): nothing waits any more that could be applied.
LEMMA IntoBookHolds ==
    ASSUME NEW bs \in Seq(Seq(Nat)), NEW T, NEW book, Held(book, bs, T),
           NEW N \in SUBSET (1 .. Len(bs)),
           NEW delivered, delivered = Deliveries(bs, N \ T)
    PROVE  Held(IntoBook(book, delivered), bs, T \cup N)
PROOF
  <1> DEFINE U == T \cup N
             size == Len(bs)
             both == book.waiting \cup delivered
             all == [book EXCEPT !.waiting = both]
             c == Cardinality(all.waiting)
             seq == [i \in 1 .. c |-> i]
             A == {b \in Shelves : \E m \in 0 .. size : Sorted(b, bs, U, m)}
  <1>1. PICK n \in 0 .. size : Sorted(book, bs, T, n) /\ n + 1 \notin T BY DEF Held
  <1>2. /\ book \in Shelves /\ Len(book.applied) = n
        /\ \A i \in 1 .. n : book.applied[i] = bs[i]
        /\ T \in SUBSET (1 .. size) /\ 1 .. n \in SUBSET T
        /\ book.waiting = {<<m, bs[m]>> : m \in T \ 1 .. n}
        BY <1>1 DEF Sorted
  <1>3. size \in Nat /\ IsFiniteSet(1 .. size)
    <2>1. size \in Nat OBVIOUS
    <2> HIDE DEF size
    <2> QED BY <2>1, FS_Interval
  <1>b. IntoBook(book, delivered) = Booked(all, seq) BY DEF IntoBook, Booked
  <1>4. U \in SUBSET (1 .. size) /\ 1 .. n \in SUBSET U BY <1>2
  <1>5. both = Deliveries(bs, U \ 1 .. n)
    <2>1. U \ 1 .. n = (T \ 1 .. n) \cup (N \ T) BY <1>2
    <2> HIDE DEF U
    <2> QED BY <2>1, <1>2 DEF Deliveries
  <1>6. both \in SUBSET (Nat \X Seq(Nat))
    <2>1. \A m \in U : m \in Nat /\ bs[m] \in Seq(Nat)
      <3>1. \A m \in 1 .. size : m \in Nat /\ bs[m] \in Seq(Nat) BY <1>3
      <3> QED BY <3>1, <1>4
    <2> HIDE DEF U, both
    <2> QED BY <2>1, <1>5 DEF Deliveries
  <1>7. IsFiniteSet(both)
    <2>1. IsFiniteSet(U \ 1 .. n)
      <3>1. U \ 1 .. n \in SUBSET (1 .. size) BY <1>4
      <3> QED BY <3>1, <1>3, FS_Subset
    <2> QED BY <2>1, <1>5, DeliveriesAreFinite
  <1> HIDE DEF U, both
  <1>8. all \in Shelves /\ all.waiting = both /\ all.applied = book.applied
        BY <1>2, <1>6 DEF Shelves
  <1> HIDE DEF all
  <1>9. Sorted(all, bs, U, n) BY <1>2, <1>4, <1>5, <1>8 DEF Sorted, Deliveries
  <1>10. c \in Nat BY <1>7, <1>8, FS_CardinalityType
  <1> HIDE DEF c
  <1>11. DOMAIN seq = 1 .. c OBVIOUS
  <1> HIDE DEF seq
  <1>12. all \in A BY <1>8, <1>9
  <1>13. \A a \in A, i \in 1 .. c : Step(a, seq[i]) \in A
    <2> TAKE a \in A, i \in 1 .. c
    <2>1. PICK m \in 0 .. size : Sorted(a, bs, U, m) OBVIOUS
    <2>2. CASE m + 1 \notin U
      <3>1. Step(a, seq[i]) = a BY <2>1, <2>2, StepSorts
      <3> QED BY <3>1
    <2>3. CASE m + 1 \in U
      <3>1. Sorted(Step(a, seq[i]), bs, U, m + 1) BY <2>1, <2>3, StepSorts
      <3>2. Step(a, seq[i]) \in Shelves /\ m + 1 \in 0 .. size BY <3>1 DEF Sorted
      <3> QED BY <3>1, <3>2
    <2> QED BY <2>2, <2>3
  <1> HIDE DEF A
  <1>w. \E v : IntoBookWalks(v, A, all, c, seq)
        BY <1>10, <1>11, <1>12, <1>13, IntoBookWalk
  <1>14. PICK v \in [0 .. c -> A] :
            /\ v[0] = all /\ v[c] = Booked(all, seq)
            /\ \A k \in 1 .. c : v[k] = Step(v[k - 1], seq[k])
         BY <1>w DEF IntoBookWalks
  <1> DEFINE G == {k \in 0 .. c : StepsOn(v[k], bs, U, c, k)}
  <1>15. 0 \in G
    <2>1. 0 \in 0 .. c /\ c - 0 = c BY <1>10, SMT
    <2>2. Cardinality(all.waiting) = c - 0 BY <2>1 DEF c
    <2>3. StepsOn(all, bs, U, c, 0) BY <2>2, <1>7, <1>8, <1>9 DEF StepsOn
    <2> QED BY <2>1, <2>3, <1>14
  <1>16. \A k \in 1 .. c : k - 1 \in G => k \in G
    <2> SUFFICES ASSUME NEW k \in 1 .. c, k - 1 \in G PROVE k \in G OBVIOUS
    <2>1. StepsOn(v[k - 1], bs, U, c, k - 1) /\ k \in 0 .. c BY <1>10, SMT
    <2>2. StepsOn(Step(v[k - 1], seq[k]), bs, U, c, k) BY <2>1, <1>10, OneStepOn
    <2> QED BY <2>1, <2>2, <1>14
  <1>17. c \in G
    <2> HIDE DEF G
    <2>1. \A k \in 0 .. c : k \in G BY <1>10, <1>15, <1>16, Onward
    <2>2. c \in 0 .. c BY <1>10, SMT
    <2> QED BY <2>1, <2>2
  <1> DEFINE end == v[c]
  <1>18. PICK m \in 0 .. size :
            Sorted(end, bs, U, m) /\ (m + 1 \in U => Cardinality(end.waiting) = c - c)
         BY <1>17 DEF StepsOn
  <1>19. IsFiniteSet(end.waiting) BY <1>17 DEF StepsOn
  <1>20. end = IntoBook(book, delivered) BY <1>14, <1>b
  <1> HIDE DEF end
  <1>21. m + 1 \notin U
    <2> SUFFICES ASSUME m + 1 \in U PROVE FALSE OBVIOUS
    <2>1. Cardinality(end.waiting) = 0 BY <1>18, <1>10, SMT
    <2>2. end.waiting = {} BY <2>1, <1>19, FS_EmptySet
    <2>3. end.waiting = {<<j, bs[j]>> : j \in U \ 1 .. m} BY <1>18 DEF Sorted
    <2>4. m + 1 \notin 1 .. m BY <1>3, SMT
    <2>5. <<m + 1, bs[m + 1]>> \in end.waiting BY <2>3, <2>4
    <2> QED BY <2>2, <2>5
  <1> QED BY <1>18, <1>20, <1>21 DEF Held, U

-----------------------------------------------------------------------------
(* What the receiver takes of a packet.                                      *)

Accounts == [missing : SUBSET Nat, expected : Nat, session : {0, Session}, started : BOOLEAN]

\* The numbers that have arrived.
Arrived(t) == {m \in Nat : 0 < m /\ m < t.expected /\ m \notin t.missing}

\* A tracker that follows the session from its first message.
InSession(t) ==
    /\ t \in Accounts /\ t.started /\ t.session = Session /\ t.expected > 0
    /\ \A m \in t.missing : 0 < m /\ m < t.expected

\* A tracker that has accounted for what came, and expects no more than what is after it.
AccountsFor(u, t, first, end) ==
    /\ InSession(u) /\ (u.expected = t.expected \/ u.expected = end)
    /\ Arrived(u) = Arrived(t) \cup {m \in Nat : first <= m /\ m < end}

LEMMA ObserveAccounts ==
    ASSUME NEW t, InSession(t), NEW first \in Nat, first > 0, NEW n \in Nat
    PROVE  LET seen == Observe(t, Session, SequenceRange(first, first + n))
           IN  seen.outcome = "capacity_exceeded"
               \/ AccountsFor(seen.tracker, t, first, first + n)
PROOF
  <1> DEFINE end == first + n
             arrived == SequenceRange(first, end)
             seen == Observe(t, Session, arrived)
             expected == t.expected
             missing == t.missing
             new == {m \in Nat : first <= m /\ m < end}
  <1>1. /\ t \in Accounts /\ t.started /\ t.session = Session /\ expected \in Nat
        /\ expected > 0 /\ missing \in SUBSET Nat
        /\ \A m \in missing : m \in Nat /\ 0 < m /\ m < expected
        BY DEF InSession, Accounts
  <1>2. end \in Nat /\ end >= first OBVIOUS
  <1>3. arrived.first = first /\ arrived.end = end BY DEF SequenceRange
  <1>4. Numbers(arrived) = new
    <2>1. Numbers(arrived) = first .. end - 1 BY <1>3 DEF Numbers
    <2>2. \A m : m \in first .. end - 1 <=> m \in Nat /\ first <= m /\ m < end
          BY <1>2, SMT
    <2> QED BY <2>1, <2>2
  <1>5. seen = IF first = expected
               THEN Observation([t EXCEPT !.expected = end], "in_order", NoRange, 0)
               ELSE IF first > expected THEN OpenGap(t, arrived) ELSE HandleBehind(t, arrived)
        BY <1>1, <1>3 DEF Observe
  <1>o. \A u, o, r, k : /\ Observation(u, o, r, k).tracker = u
                        /\ Observation(u, o, r, k).outcome = o
        BY DEF Observation
  <1> HIDE DEF end, arrived, new
  <1>6. ASSUME NEW s \in SUBSET Nat, NEW e \in Nat, NEW u, e = expected \/ e = end, e > 0,
               u = [t EXCEPT !.missing = s, !.expected = e],
               \A m \in Nat : m \in s => 0 < m /\ m < e,
               \A m \in Nat : (0 < m /\ m < e /\ m \notin s)
                                 <=> (0 < m /\ m < expected /\ m \notin missing)
                                        \/ (first <= m /\ m < end)
        PROVE  AccountsFor(u, t, first, end)
    <2>1. /\ u \in Accounts /\ u.missing = s /\ u.expected = e /\ u.started
          /\ u.session = Session
          BY <1>1, <1>6 DEF Accounts
    <2>2. InSession(u) BY <2>1, <1>6 DEF InSession
    <2>3. Arrived(u) = Arrived(t) \cup {m \in Nat : first <= m /\ m < end}
          BY <2>1, <1>6 DEF Arrived
    <2> QED BY <2>1, <2>2, <2>3, <1>6 DEF AccountsFor
  <1>7. CASE first = expected
    <2> DEFINE u == [t EXCEPT !.expected = end]
               v == [t EXCEPT !.missing = missing, !.expected = end]
    <2>1. u = v BY <1>1 DEF Accounts
    <2>2. \A m \in Nat : (0 < m /\ m < end /\ m \notin missing)
                            <=> (0 < m /\ m < expected /\ m \notin missing)
                                   \/ (first <= m /\ m < end)
      <3> TAKE m \in Nat
      <3>1. m \in missing => m < expected BY <1>1
      <3> HIDE DEF missing, expected
      <3> QED BY <3>1, <1>1, <1>2, <1>7, SMT
    <2>3. \A m \in Nat : m \in missing => 0 < m /\ m < end
      <3> TAKE m \in Nat
      <3>1. m \in missing => 0 < m /\ m < expected BY <1>1
      <3> HIDE DEF missing, expected
      <3> QED BY <3>1, <1>1, <1>2, <1>7, SMT
    <2>4. end > 0 BY <1>2
    <2> HIDE DEF u, v
    <2>5. AccountsFor(v, t, first, end) BY <2>2, <2>3, <2>4, <1>1, <1>2, <1>6 DEF v
    <2>6. seen.tracker = u BY <1>5, <1>7, <1>o DEF u
    <2> QED BY <2>1, <2>5, <2>6 DEF seen, arrived, end
  <1>8. CASE ~(first = expected) /\ first > expected
    <2> DEFINE hole == SequenceRange(expected, first)
               after == Opened(missing, hole)
               v == [t EXCEPT !.missing = after, !.expected = end]
    <2>1. \A m : m \in after <=> m \in missing \/ (m \in Nat /\ expected <= m /\ m < first)
      <3>1. after = missing \cup expected .. first - 1
            BY DEF Opened, Numbers, SequenceRange
      <3>2. \A m : m \in expected .. first - 1 <=> m \in Nat /\ expected <= m /\ m < first
            BY <1>1, SMT
      <3> QED BY <3>1, <3>2
    <2>2. seen = OpenGap(t, arrived) BY <1>5, <1>8
    <2>3. OpenGap(t, arrived) = IF Describable(after)
                                THEN Observation(v, "gap_opened", hole, 0)
                                ELSE Observation(t, "capacity_exceeded", NoRange, 0)
          BY <1>3 DEF OpenGap
    <2> HIDE DEF after
    <2>4. \A m \in Nat : (0 < m /\ m < end /\ m \notin after)
                            <=> (0 < m /\ m < expected /\ m \notin missing)
                                   \/ (first <= m /\ m < end)
      <3> TAKE m \in Nat
      <3>1. m \in missing => m < expected BY <1>1
      <3>2. m \in after <=> m \in missing \/ (expected <= m /\ m < first) BY <2>1
      <3> HIDE DEF missing, expected
      <3> QED BY <3>1, <3>2, <1>1, <1>2, <1>8, SMT
    <2>5. \A m \in Nat : m \in after => 0 < m /\ m < end
      <3> TAKE m \in Nat
      <3>1. m \in missing => 0 < m /\ m < expected BY <1>1
      <3>2. m \in after <=> m \in missing \/ (expected <= m /\ m < first) BY <2>1
      <3> HIDE DEF missing, expected
      <3> QED BY <3>1, <3>2, <1>1, <1>2, <1>8, SMT
    <2>6. end > 0 /\ after \in SUBSET Nat BY <1>1, <1>2, <2>1
    <2> HIDE DEF v, hole
    <2>7. AccountsFor(v, t, first, end) BY <2>4, <2>5, <2>6, <1>1, <1>2, <1>6 DEF v
    <2> QED BY <2>2, <2>3, <2>7, <1>o DEF seen, arrived, end
  <1>9. CASE ~(first = expected) /\ ~(first > expected)
    <2> DEFINE after == Filled(missing, arrived)
               e == Greater(expected, end)
               recovered == Cardinality(missing \cap Numbers(arrived))
               v == [t EXCEPT !.missing = after, !.expected = e]
    <2>1. \A m : m \in after <=> m \in missing /\ ~(m \in Nat /\ first <= m /\ m < end)
          BY <1>4 DEF Filled, new
    <2>2. seen = HandleBehind(t, arrived) BY <1>5, <1>9
    <2>3. HandleBehind(t, arrived) =
             IF ~Describable(after) THEN Observation(t, "capacity_exceeded", NoRange, 0)
             ELSE IF recovered = 0 THEN Observation(v, "duplicate", NoRange, 0)
             ELSE Observation(v, "gap_filled", arrived, recovered)
          BY <1>3 DEF HandleBehind
    <2>4. e \in Nat /\ (e = expected \/ e = end) /\ e >= expected /\ e >= end /\ e > 0
          BY <1>1, <1>2 DEF Greater
    <2> HIDE DEF after, e, recovered
    <2>5. \A m \in Nat : (0 < m /\ m < e /\ m \notin after)
                            <=> (0 < m /\ m < expected /\ m \notin missing)
                                   \/ (first <= m /\ m < end)
      <3> TAKE m \in Nat
      <3>1. m \in missing => m < expected BY <1>1
      <3>2. m \in after <=> m \in missing /\ ~(first <= m /\ m < end) BY <2>1
      <3> HIDE DEF missing, expected
      <3> QED BY <3>1, <3>2, <2>4, <1>1, <1>2, <1>9, SMT
    <2>6. \A m \in Nat : m \in after => 0 < m /\ m < e
      <3> TAKE m \in Nat
      <3>1. m \in missing => 0 < m /\ m < expected BY <1>1
      <3>2. m \in after => m \in missing BY <2>1
      <3> HIDE DEF missing, expected
      <3> QED BY <3>1, <3>2, <2>4, <1>1, <1>2, <1>9, SMT
    <2>7. after \in SUBSET Nat BY <1>1, <2>1
    <2> HIDE DEF v
    <2>8. AccountsFor(v, t, first, end) BY <2>4, <2>5, <2>6, <2>7, <1>1, <1>2, <1>6 DEF v
    <2> QED BY <2>2, <2>3, <2>8, <1>o DEF seen, arrived, end
  <1> QED BY <1>7, <1>8, <1>9

\* A tracker never holds more holes than it has room to describe.
LEMMA ObserveDescribes ==
    ASSUME NEW t, InSession(t), Describable(t.missing), NEW arrived,
           NEW seen, seen = Observe(t, Session, arrived), seen.outcome # "capacity_exceeded"
    PROVE  Describable(seen.tracker.missing)
PROOF
  <1> DEFINE missing == t.missing
             hole == SequenceRange(t.expected, arrived.first)
             opened == Opened(missing, hole)
             filled == Filled(missing, arrived)
             recovered == Cardinality(missing \cap Numbers(arrived))
  <1>1. t \in Accounts /\ t.started /\ t.session = Session BY DEF InSession
  <1>o. \A u, o, r, k : /\ Observation(u, o, r, k).tracker = u
                        /\ Observation(u, o, r, k).outcome = o
        BY DEF Observation
  <1>2. \A e, m : /\ [t EXCEPT !.expected = e].missing = missing
                  /\ [t EXCEPT !.missing = m, !.expected = e].missing = m
        BY <1>1 DEF Accounts
  <1>3. CASE arrived.first = t.expected
    <2> DEFINE u == [t EXCEPT !.expected = arrived.end]
    <2>1. seen = Observation(u, "in_order", NoRange, 0) BY <1>1, <1>3 DEF Observe
    <2>2. u.missing = missing BY <1>2
    <2> HIDE DEF u
    <2>3. seen.tracker = u BY <2>1, <1>o
    <2> QED BY <2>2, <2>3
  <1>4. CASE arrived.first # t.expected /\ arrived.first > t.expected
    <2>1. seen = OpenGap(t, arrived) BY <1>1, <1>4 DEF Observe
    <2> DEFINE u == [t EXCEPT !.missing = opened, !.expected = arrived.end]
    <2>2. OpenGap(t, arrived) =
             IF Describable(opened) THEN Observation(u, "gap_opened", hole, 0)
             ELSE Observation(t, "capacity_exceeded", NoRange, 0)
          BY Zenon DEF OpenGap
    <2>3. u.missing = opened BY <1>2
    <2> HIDE DEF opened, hole, u
    <2>4. CASE ~Describable(opened)
      <3>1. seen = Observation(t, "capacity_exceeded", NoRange, 0) BY <2>1, <2>2, <2>4
      <3> QED BY <3>1, <1>o
    <2>5. CASE Describable(opened)
      <3>1. seen = Observation(u, "gap_opened", hole, 0) BY <2>1, <2>2, <2>5
      <3>2. seen.tracker = u BY <3>1, <1>o
      <3> QED BY <3>2, <2>3, <2>5
    <2> QED BY <2>4, <2>5
  <1>5. CASE arrived.first # t.expected /\ ~(arrived.first > t.expected)
    <2> DEFINE u == [t EXCEPT !.missing = filled, !.expected = Greater(t.expected, arrived.end)]
    <2>1. seen = HandleBehind(t, arrived) BY <1>1, <1>5 DEF Observe
    <2>2. HandleBehind(t, arrived) =
             IF ~Describable(filled) THEN Observation(t, "capacity_exceeded", NoRange, 0)
             ELSE IF recovered = 0 THEN Observation(u, "duplicate", NoRange, 0)
             ELSE Observation(u, "gap_filled", arrived, recovered)
          BY Zenon DEF HandleBehind
    <2>3. u.missing = filled BY <1>2
    <2> HIDE DEF filled, recovered, u
    <2>4. CASE ~Describable(filled)
      <3>1. seen = Observation(t, "capacity_exceeded", NoRange, 0) BY <2>1, <2>2, <2>4
      <3> QED BY <3>1, <1>o
    <2>5. CASE Describable(filled)
      <3>1. \/ seen = Observation(u, "duplicate", NoRange, 0)
            \/ seen = Observation(u, "gap_filled", arrived, recovered)
            BY <2>1, <2>2, <2>5
      <3>2. seen.tracker = u BY <3>1, <1>o
      <3> QED BY <3>2, <2>3, <2>5
    <2> QED BY <2>4, <2>5
  <1> QED BY <1>3, <1>4, <1>5

LEMMA NothingMissing == Describable({})
PROOF
  <1>1. {n \in {} : n - 1 \notin {}} = {} OBVIOUS
  <1>2. Holes({}) = 0 BY <1>1, FS_EmptySet DEF Holes
  <1> QED BY <1>2, HoleSetAssumption DEF Describable

Receivers == [tracker : Accounts, book : Shelves]

\* The receiver has taken the messages its tracker says have arrived.
Keeps(rx, bs) ==
    /\ rx \in Receivers /\ InSession(rx.tracker) /\ Describable(rx.tracker.missing)
    /\ rx.tracker.expected <= Len(bs) + 1
    /\ Held(rx.book, bs, Arrived(rx.tracker))

LEMMA HeldIsAShelf ==
    ASSUME NEW book, NEW bs, NEW T, Held(book, bs, T)
    PROVE  book \in Shelves /\ T \in SUBSET (1 .. Len(bs))
PROOF
  BY DEF Held, Sorted

\* Some of the blocks of a packet, under their numbers.
GivenBy(first, blocks, I) == {<<first + i - 1, blocks[i]>> : i \in I}

\* The blocks are the messages with their numbers; those picked have numbers not in T.
AreMessages(blocks, bs, first, n) ==
    /\ blocks \in Seq(Seq(Nat)) /\ Len(blocks) = n
    /\ \A i \in 1 .. n : blocks[i] = bs[first + i - 1]
NumbersFrom(first, n) == {m \in Nat : first <= m /\ m < first + n}
NotIn(I, first, n, T) ==
    I \in SUBSET (1 .. n) /\ \A i \in 1 .. n : i \in I <=> first + i - 1 \notin T

\* The blocks of a framed packet that are new to the book.
LEMMA DeliveredAreNew ==
    ASSUME NEW bs \in Seq(Seq(Nat)), NEW first \in Nat, first > 0, NEW n \in Nat,
           NEW blocks, AreMessages(blocks, bs, first, n),
           NEW T, NEW I, NotIn(I, first, n, T)
    PROVE  GivenBy(first, blocks, I) = Deliveries(bs, NumbersFrom(first, n) \ T)
PROOF
  <1> DEFINE given == GivenBy(first, blocks, I)
             N == NumbersFrom(first, n)
  <1>n. N = {m \in Nat : first <= m /\ m < first + n} BY DEF NumbersFrom
  <1> HIDE DEF N
  <1>0. given = {<<first + i - 1, blocks[i]>> : i \in I} BY DEF GivenBy
  <1> HIDE DEF given
  <1>00. /\ blocks \in Seq(Seq(Nat)) /\ Len(blocks) = n
         /\ \A i \in 1 .. n : blocks[i] = bs[first + i - 1]
         BY DEF AreMessages
  <1>01. I \in SUBSET (1 .. n) /\ \A i \in 1 .. n : i \in I <=> first + i - 1 \notin T
         BY DEF NotIn
  <1>1. ASSUME NEW d \in given PROVE d \in Deliveries(bs, N \ T)
    <2>1. PICK i \in I : d = <<first + i - 1, blocks[i]>> BY <1>0
    <2>2. i \in 1 .. n /\ first + i - 1 \notin T BY <1>01
    <2>3. first + i - 1 \in Nat /\ first <= first + i - 1 /\ first + i - 1 < first + n
          BY <2>2, SMT
    <2>4. first + i - 1 \in N \ T BY <2>2, <2>3, <1>n
    <2>5. d = <<first + i - 1, bs[first + i - 1]>> BY <2>1, <2>2, <1>00
    <2> QED BY <2>4, <2>5 DEF Deliveries, N
  <1>2. ASSUME NEW d \in Deliveries(bs, N \ T) PROVE d \in given
    <2>1. PICK m \in N \ T : d = <<m, bs[m]>> BY DEF Deliveries, N
    <2> DEFINE i == m - first + 1
    <2>2. m \in Nat /\ first <= m /\ m < first + n BY <1>n
    <2>3. i \in 1 .. n /\ first + i - 1 = m BY <2>2, SMT
    <2> HIDE DEF i
    <2>4. i \in I /\ blocks[i] = bs[m] BY <2>1, <2>3, <1>00, <1>01
    <2> QED BY <2>1, <2>3, <2>4, <1>0
  <1> QED BY <1>1, <1>2 DEF given, N

\* A packet of the session changes nothing, or its messages are taken with it.
LEMMA ReceiveKeeps ==
    ASSUME NEW bs, BodiesOk(bs), NEW rx, Keeps(rx, bs), NEW p, Good(protocol, p, bs)
    PROVE  Keeps(Receive(rx, p), bs)
PROOF
  <1> DEFINE framed == Drain(protocol, p)
             first == p.sequence
             n == Remaining(protocol, p)
             arrived == SequenceRange(first, NextSequence(protocol, p))
             t == rx.tracker
             seen == Observe(t, p.session, arrived)
             fresh(m) == \/ ~t.started \/ p.session # t.session
                         \/ m \in t.missing \/ m >= t.expected
             I == {k \in DOMAIN framed.blocks : fresh(first + k - 1)}
             delivered == {<<first + i - 1, framed.blocks[i]>> : i \in I}
             now == [tracker |-> seen.tracker, book |-> IntoBook(rx.book, delivered)]
             T == Arrived(t)
             N == {m \in Nat : first <= m /\ m < first + n}
  <1>1. Receive(rx, p) = IF framed.error # "ok" \/ seen.outcome = "capacity_exceeded" THEN rx
                         ELSE now
        BY Zenon DEF Receive
  <1>2. /\ p.session = Session /\ first \in Nat /\ first > 0 /\ n \in Nat
        /\ NextSequence(protocol, p) = first + n
        /\ framed.error = "ok" =>
              /\ first + n <= Len(bs) + 1
              /\ framed.blocks \in Seq(Seq(Nat)) /\ Len(framed.blocks) = n
              /\ \A i \in 1 .. n : framed.blocks[i] = bs[first + i - 1]
        BY DEF Good
  <1>3. /\ rx \in Receivers /\ InSession(t) /\ t.expected <= Len(bs) + 1
        /\ Held(rx.book, bs, T) /\ Describable(t.missing)
        BY DEF Keeps
  <1>4. t.started /\ t.session = Session /\ t.expected \in Nat /\ t.missing \in SUBSET Nat
        BY <1>3 DEF InSession, Accounts
  <1>5. bs \in Seq(Seq(Nat)) /\ Len(bs) \in Nat BY DEF BodiesOk
  <1>6. CASE framed.error # "ok" \/ seen.outcome = "capacity_exceeded" BY <1>1, <1>6
  <1>7. CASE framed.error = "ok" /\ seen.outcome # "capacity_exceeded"
    <2> DEFINE blocks == framed.blocks
               u == seen.tracker
    <2>1. /\ first + n <= Len(bs) + 1 /\ blocks \in Seq(Seq(Nat)) /\ Len(blocks) = n
          /\ \A i \in 1 .. n : blocks[i] = bs[first + i - 1]
          BY <1>2, <1>7
    <2>2. AccountsFor(u, t, first, first + n)
      <3>1. seen = Observe(t, Session, SequenceRange(first, first + n)) BY <1>2
      <3> HIDE DEF seen, t, first, n
      <3> QED BY <3>1, <1>2, <1>3, <1>7, ObserveAccounts
    <2>3. /\ InSession(u) /\ (u.expected = t.expected \/ u.expected = first + n)
          /\ Arrived(u) = T \cup N
          BY <2>2 DEF AccountsFor
    <2>4. I \in SUBSET (1 .. n) /\ \A i \in 1 .. n : i \in I <=> first + i - 1 \notin T
      <3>1. DOMAIN blocks = 1 .. n BY <2>1
      <3> HIDE DEF blocks
      <3>2. \A i \in 1 .. n : fresh(first + i - 1) <=> first + i - 1 \notin T
        <4> TAKE i \in 1 .. n
        <4> DEFINE m == first + i - 1
                   expected == t.expected
        <4>1. m \in Nat /\ 0 < m BY <1>2, SMT
        <4>2. fresh(m) <=> m \in t.missing \/ m >= t.expected BY <1>2, <1>4
        <4>3. m \in T <=> m \in Nat /\ 0 < m /\ m < t.expected /\ m \notin t.missing
              BY DEF Arrived
        <4>4. expected \in Nat BY <1>4
        <4> HIDE DEF m, T, expected, fresh, t
        <4>5. m >= expected <=> ~(m < expected) BY <4>1, <4>4, SMT
        <4> QED BY <4>1, <4>2, <4>3, <4>5 DEF m, expected
      <3> HIDE DEF fresh, T
      <3> QED BY <3>1, <3>2 DEF blocks
    <2> HIDE DEF I
    <2>5. delivered = Deliveries(bs, N \ T)
      <3> HIDE DEF I, framed, first, n, T, N
      <3>1. N = NumbersFrom(first, n) BY DEF N, NumbersFrom
      <3>2. delivered = GivenBy(first, blocks, I) BY DEF GivenBy
      <3> HIDE DEF blocks, delivered
      <3>3. GivenBy(first, blocks, I) = Deliveries(bs, NumbersFrom(first, n) \ T)
        <4>1. AreMessages(blocks, bs, first, n) /\ NotIn(I, first, n, T)
              BY <2>1, <2>4 DEF AreMessages, NotIn
        <4>2. first \in Nat /\ first > 0 /\ n \in Nat /\ bs \in Seq(Seq(Nat)) BY <1>2, <1>5
        <4> QED BY <4>1, <4>2, DeliveredAreNew
      <3> QED BY <3>1, <3>2, <3>3
    <2>6. N \in SUBSET (1 .. Len(bs))
      <3> DEFINE size == Len(bs)
      <3>1. size \in Nat /\ first + n <= size + 1 BY <1>5, <2>1
      <3> HIDE DEF size, first, n
      <3>2. \A m \in Nat : first <= m /\ m < first + n => m \in 1 .. size
            BY <3>1, <1>2, SMT
      <3> QED BY <3>2 DEF size
    <2> HIDE DEF delivered, N, T
    <2>7. Held(IntoBook(rx.book, delivered), bs, T \cup N)
          BY <1>3, <1>5, <2>5, <2>6, IntoBookHolds
    <2> DEFINE shelf == IntoBook(rx.book, delivered)
    <2>8. u \in Accounts BY <2>3 DEF InSession
    <2>9. shelf \in Shelves BY <2>7, HeldIsAShelf
    <2>10. u.expected <= Len(bs) + 1 BY <2>1, <2>3, <1>3
    <2>11. Receive(rx, p) = [tracker |-> u, book |-> shelf] BY <1>1, <1>7
    <2>d. Describable(u.missing)
      <3>1. seen = Observe(t, Session, arrived) BY <1>2
      <3> HIDE DEF seen, t, arrived
      <3> QED BY <3>1, <1>3, <1>7, ObserveDescribes
    <2> HIDE DEF u, shelf
    <2> DEFINE after == [tracker |-> u, book |-> shelf]
    <2>12. after \in Receivers /\ after.tracker = u /\ after.book = shelf
           BY <2>8, <2>9 DEF Receivers
    <2> HIDE DEF after
    <2>13. Held(after.book, bs, Arrived(after.tracker))
           BY <2>3, <2>7, <2>12 DEF shelf
    <2>14. Keeps(after, bs) BY <2>3, <2>10, <2>12, <2>13, <2>d DEF Keeps
    <2> QED BY <2>11, <2>14 DEF after
  <1> QED BY <1>6, <1>7

\* The first packet of the session, to a receiver that has heard nothing.
Unheard == [tracker |-> Fresh, book |-> [waiting |-> {}, applied |-> <<>>]]

LEMMA FirstKeeps ==
    ASSUME NEW bs, BodiesOk(bs), NEW p, Carries(protocol, p, bs), p.sequence = 1
    PROVE  Keeps(Receive(Unheard, p), bs)
PROOF
  <1> DEFINE framed == Drain(protocol, p)
             first == p.sequence
             n == Remaining(protocol, p)
             blocks == framed.blocks
             arrived == SequenceRange(first, NextSequence(protocol, p))
             book == [waiting |-> {}, applied |-> <<>>]
             seen == Observe(Fresh, p.session, arrived)
             fresh(m) == \/ ~Fresh.started \/ p.session # Fresh.session
                         \/ m \in Fresh.missing \/ m >= Fresh.expected
             I == {k \in DOMAIN blocks : fresh(first + k - 1)}
             delivered == {<<first + i - 1, blocks[i]>> : i \in I}
             u == Established(Session, 1 + n)
             N == NumbersFrom(1, n)
  <1>1. /\ framed.error = "ok" /\ p.session = Session /\ first = 1 /\ n \in Nat
        /\ NextSequence(protocol, p) = 1 + n /\ 1 + n <= Len(bs) + 1
        /\ blocks \in Seq(Seq(Nat)) /\ Len(blocks) = n
        /\ \A i \in 1 .. n : blocks[i] = bs[1 + i - 1]
    <2>1. framed.error = "ok" /\ Good(protocol, p, bs) BY CarriedDrains
    <2>2. /\ p.session = Session /\ n \in Nat /\ NextSequence(protocol, p) = first + n
          /\ first + n <= Len(bs) + 1 /\ blocks \in Seq(Seq(Nat)) /\ Len(blocks) = n
          /\ \A i \in 1 .. n : blocks[i] = bs[first + i - 1]
          BY <2>1 DEF Good
    <2>3. first = 1 OBVIOUS
    <2> HIDE DEF framed, first, n, blocks
    <2> QED BY <2>1, <2>2, <2>3
  <1>2. bs \in Seq(Seq(Nat)) /\ Len(bs) \in Nat BY DEF BodiesOk
  <1>3. Unheard.tracker = Fresh /\ Unheard.book = book BY DEF Unheard
  <1>4. Receive(Unheard, p) =
           IF framed.error # "ok" \/ seen.outcome = "capacity_exceeded" THEN Unheard
           ELSE [tracker |-> seen.tracker, book |-> IntoBook(book, delivered)]
    <2>1. Receive(Unheard, p) =
             IF framed.error # "ok"
                \/ Observe(Unheard.tracker, p.session, arrived).outcome = "capacity_exceeded"
             THEN Unheard
             ELSE [tracker |-> Observe(Unheard.tracker, p.session, arrived).tracker,
                   book |-> IntoBook(Unheard.book,
                       {<<first + i - 1, blocks[i]>> :
                          i \in {k \in DOMAIN blocks :
                                   \/ ~Unheard.tracker.started
                                   \/ p.session # Unheard.tracker.session
                                   \/ first + k - 1 \in Unheard.tracker.missing
                                   \/ first + k - 1 >= Unheard.tracker.expected}})]
          BY Zenon DEF Receive
    <2> QED BY <2>1, <1>3, Zenon
  <1>5. ~Fresh.started BY DEF Fresh
  <1>6. seen = Observation(Established(Session, arrived.end), "established", NoRange, 0)
        BY <1>1, <1>5 DEF Observe
  <1>7. arrived.end = 1 + n BY <1>1 DEF SequenceRange
  <1>8. seen.tracker = u /\ seen.outcome = "established" BY <1>6, <1>7 DEF Observation
  <1>9. NotIn(I, 1, n, {})
    <2>1. DOMAIN blocks = 1 .. n BY <1>1
    <2>2. I = 1 .. n BY <2>1, <1>5
    <2> QED BY <2>2 DEF NotIn
  <1> HIDE DEF I
  <1>10. delivered = Deliveries(bs, N \ {})
    <2>1. AreMessages(blocks, bs, 1, n) BY <1>1 DEF AreMessages
    <2>2. delivered = GivenBy(1, blocks, I) BY <1>1 DEF GivenBy
    <2> HIDE DEF n, blocks, delivered
    <2>3. 1 \in Nat /\ 1 > 0 /\ n \in Nat BY <1>1
    <2>4. GivenBy(1, blocks, I) = Deliveries(bs, NumbersFrom(1, n) \ {})
          BY <2>1, <2>3, <1>2, <1>9, DeliveredAreNew
    <2> QED BY <2>2, <2>4
  <1> DEFINE size == Len(bs)
  <1>11. size \in Nat /\ n <= size
    <2> HIDE DEF n
    <2> QED BY <1>1, <1>2
  <1>12. N = 1 .. n /\ N \in SUBSET (1 .. size)
    <2> HIDE DEF n, size
    <2>1. \A m : m \in 1 .. n <=> m \in Nat /\ 1 <= m /\ m < 1 + n BY <1>1, SMT
    <2>2. \A m \in 1 .. n : m \in 1 .. size BY <1>1, <1>11, SMT
    <2> QED BY <2>1, <2>2 DEF NumbersFrom
  <1>13. Held(book, bs, {})
    <2>1. book \in Shelves /\ book.waiting = {} /\ book.applied = <<>> BY DEF Shelves
    <2>2. Len(<<>>) = 0 /\ 1 .. 0 = {} /\ 0 \in 0 .. size BY <1>11, SMT
    <2> HIDE DEF book
    <2>3. Sorted(book, bs, {}, 0) BY <2>1, <2>2 DEF Sorted
    <2> QED BY <2>2, <2>3 DEF Held
  <1> DEFINE shelf == IntoBook(book, delivered)
  <1>14. Held(shelf, bs, N)
    <2> HIDE DEF book, delivered, N
    <2>1. Held(IntoBook(book, delivered), bs, {} \cup N)
          BY <1>2, <1>10, <1>12, <1>13, IntoBookHolds
    <2> QED BY <2>1
  <1>15. Receive(Unheard, p) = [tracker |-> u, book |-> shelf] BY <1>1, <1>4, <1>8
  <1>16. /\ InSession(u) /\ u.expected = 1 + n /\ Arrived(u) = N /\ u.missing = {}
    <2> DEFINE yes == TRUE
    <2>1. u = [missing |-> {}, expected |-> 1 + n, session |-> Session, started |-> yes]
          BY DEF Established
    <2>2. yes \in BOOLEAN /\ yes OBVIOUS
    <2> HIDE DEF yes, u, n
    <2>3. /\ u \in Accounts /\ u.missing = {} /\ u.expected = 1 + n /\ u.session = Session
          /\ u.started
          BY <2>1, <2>2, <1>1 DEF Accounts
    <2>4. InSession(u) BY <2>3, <1>1 DEF InSession
    <2>5. \A m \in Nat : 0 < m <=> 1 <= m BY SMT
    <2>6. Arrived(u) = N BY <2>3, <2>5 DEF Arrived, NumbersFrom
    <2> QED BY <2>3, <2>4, <2>6
  <1> DEFINE after == [tracker |-> u, book |-> shelf]
  <1> HIDE DEF u, shelf
  <1>17. after \in Receivers /\ after.tracker = u /\ after.book = shelf
    <2>1. u \in Accounts /\ shelf \in Shelves BY <1>14, <1>16, HeldIsAShelf DEF InSession
    <2> QED BY <2>1 DEF Receivers
  <1> HIDE DEF after
  <1>18. Keeps(after, bs) BY <1>1, <1>14, <1>16, <1>17, NothingMissing DEF Keeps
  <1> QED BY <1>15, <1>18 DEF after

\* The packets of one call, one after the other.
LEMMA AllReceivedKeeps ==
    ASSUME NEW bs, BodiesOk(bs), NEW rx, NEW n \in Nat, NEW packets, DOMAIN packets = 1 .. n,
           \A i \in 1 .. n : Good(protocol, packets[i], bs),
           \/ Keeps(rx, bs)
           \/ /\ rx = Unheard /\ n = 1 /\ Carries(protocol, packets[1], bs)
              /\ packets[1].sequence = 1
    PROVE  Keeps(ReceivedOn(rx, packets), bs)
PROOF
  <1> DEFINE A == {r \in Receivers : Keeps(r, bs)} \cup {rx}
  <1>1. \A a \in A, i \in 1 .. n : Keeps(Receive(a, packets[i]), bs)
    <2> TAKE a \in A, i \in 1 .. n
    <2>1. CASE Keeps(a, bs) BY <2>1, ReceiveKeeps
    <2>2. CASE ~Keeps(a, bs)
      <3>1. a = Unheard /\ n = 1 /\ Carries(protocol, packets[1], bs) /\ packets[1].sequence = 1
            BY <2>2
      <3>2. i = 1 BY <3>1
      <3> QED BY <3>1, <3>2, FirstKeeps
    <2> QED BY <2>1, <2>2
  <1>2. \A a \in A, i \in 1 .. n : Receive(a, packets[i]) \in A BY <1>1 DEF Keeps
  <1>3. rx \in A OBVIOUS
  <1> HIDE DEF A
  <1>4. \E v : ReceiveWalks(v, A, rx, n, packets) BY <1>2, <1>3, ReceiveWalk
  <1>5. PICK v : /\ v \in [0 .. n -> A] /\ v[0] = rx /\ v[n] = ReceivedOn(rx, packets)
                 /\ \A k \in 1 .. n : v[k] = Receive(v[k - 1], packets[k])
        BY <1>4 DEF ReceiveWalks
  <1>6. CASE n = 0
    <2>1. ReceivedOn(rx, packets) = rx BY <1>5, <1>6
    <2> QED BY <2>1, <1>6
  <1>7. CASE n # 0
    <2>1. n \in 1 .. n /\ n - 1 \in 0 .. n BY <1>7, SMT
    <2>2. v[n] = Receive(v[n - 1], packets[n]) /\ v[n - 1] \in A BY <2>1, <1>5
    <2> QED BY <2>1, <2>2, <1>1, <1>5
  <1> QED BY <1>6, <1>7

-----------------------------------------------------------------------------
(* What the injector holds and what it lets through.                         *)

\* Every slot or emission of a sequence holds a packet of the stream.
AllCarry(slots, bs) == \A i \in 1 .. Len(slots) : Carries(protocol, slots[i].packet, bs)

\* Every emission of a sequence is harmless to a receiver.
AllGood(out, bs) == \A i \in 1 .. Len(out) : Good(protocol, out[i].packet, bs)

CarryingSlots(bs) == {slot \in Slot : Carries(protocol, slot.packet, bs)}

LateOnes(bs) ==
    {e \in [packet : Datagrams, source : Nat, cause : {"delay"}] : Carries(protocol, e.packet, bs)}

CarryingSifted(bs) == [late : Seq(LateOnes(bs)), kept : Seq(CarryingSlots(bs))]

LEMMA ReleaseCarries ==
    ASSUME NEW bs, NEW place, NEW sifted \in CarryingSifted(bs), NEW slot \in CarryingSlots(bs)
    PROVE  Release(place, sifted, slot) \in CarryingSifted(bs)
PROOF
  <1> DEFINE L == LateOnes(bs)
             K == CarryingSlots(bs)
             gone == Late(slot)
             more == Append(sifted.late, gone)
             still == Append(sifted.kept, slot)
  <1>1. gone \in L
    <2>1. /\ slot.packet \in Datagrams /\ slot.source \in Nat
          /\ Carries(protocol, slot.packet, bs)
          BY DEF CarryingSlots, Slot
    <2>2. /\ gone \in [packet : Datagrams, source : Nat, cause : {"delay"}]
          /\ gone.packet = slot.packet
          BY <2>1 DEF Late, Emission
    <2> HIDE DEF gone
    <2> QED BY <2>1, <2>2 DEF LateOnes
  <1>2. slot \in K OBVIOUS
  <1>3. CarryingSifted(bs) = [late : Seq(L), kept : Seq(K)] BY DEF CarryingSifted
  <1>4. Release(place, sifted, slot) = [sifted EXCEPT !.late = more]
        \/ Release(place, sifted, slot) = [sifted EXCEPT !.kept = still]
        BY DEF Release
  <1> HIDE DEF L, K, gone
  <1>5. sifted.late \in Seq(L) /\ sifted.kept \in Seq(K) BY <1>3
  <1>6. more \in Seq(L) /\ still \in Seq(K) BY <1>1, <1>2, <1>5
  <1> HIDE DEF more, still
  <1> QED BY <1>3, <1>4, <1>5, <1>6

LEMMA CarryingSequence ==
    ASSUME NEW bs, NEW slots \in Seq(Slot)
    PROVE  AllCarry(slots, bs) <=> slots \in Seq(CarryingSlots(bs))
PROOF
  <1> DEFINE n == Len(slots)
             K == CarryingSlots(bs)
  <1>1. n \in Nat /\ slots \in [1 .. n -> Slot] OBVIOUS
  <1>2. ASSUME AllCarry(slots, bs) PROVE slots \in Seq(K)
    <2>1. \A i \in 1 .. n : slots[i] \in K BY <1>1, <1>2 DEF AllCarry, CarryingSlots
    <2> HIDE DEF n, K
    <2> QED BY <1>1, <2>1
  <1>3. ASSUME slots \in Seq(K) PROVE AllCarry(slots, bs)
    <2>1. \A i \in 1 .. n : slots[i] \in K
      <3> HIDE DEF K
      <3> QED BY <1>3
    <2> QED BY <2>1 DEF AllCarry, CarryingSlots
  <1> QED BY <1>2, <1>3

LEMMA LateSequence ==
    ASSUME NEW bs, BodiesOk(bs), NEW out \in Seq(LateOnes(bs))
    PROVE  AllGood(out, bs)
PROOF
  <1>1. \A i \in 1 .. Len(out) : out[i] \in LateOnes(bs)
    <2> DEFINE L == LateOnes(bs)
    <2> HIDE DEF L
    <2>1. out \in Seq(L) BY DEF L
    <2>2. \A i \in 1 .. Len(out) : out[i] \in L BY <2>1
    <2> QED BY <2>2 DEF L
  <1>2. \A i \in 1 .. Len(out) : Carries(protocol, out[i].packet, bs) BY <1>1 DEF LateOnes
  <1> QED BY <1>2, CarriedDrains DEF AllGood

\* release_due(): packets of the stream are let out or kept.
LEMMA ReleaseDueCarries ==
    ASSUME NEW bs, BodiesOk(bs), NEW inj \in Injectors, AllCarry(inj.delayed, bs), NEW place
    PROVE  LET r == ReleaseDue(inj, place)
           IN  /\ r.injector \in Injectors /\ AllCarry(r.injector.delayed, bs)
               /\ r.out \in Seq(LateOnes(bs)) /\ AllGood(r.out, bs)
               /\ inj.delayed = <<>> => r.injector.delayed = <<>> /\ r.out = <<>>
PROOF
  <1> DEFINE slots == inj.delayed
             n == Len(slots)
             base == [late |-> <<>>, kept |-> <<>>]
             sifted == SiftedFrom(place, base, slots)
             q == [inj EXCEPT !.delayed = sifted.kept]
             r == ReleaseDue(inj, place)
             A == CarryingSifted(bs)
  <1>1. slots \in Seq(Slot) BY InjectorNumbers
  <1>2. slots \in Seq(CarryingSlots(bs)) BY <1>1, CarryingSequence
  <1>r. r = Deliver(q, sifted.late) BY DEF ReleaseDue, SiftedFrom
  <1> HIDE DEF slots, sifted
  <1>3. n \in Nat /\ DOMAIN slots = 1 .. n /\ \A i \in 1 .. n : slots[i] \in CarryingSlots(bs)
    <2> DEFINE K == CarryingSlots(bs)
    <2> HIDE DEF K
    <2>1. slots \in Seq(K) BY <1>2 DEF K
    <2>2. n \in Nat /\ DOMAIN slots = 1 .. n /\ \A i \in 1 .. n : slots[i] \in K BY <2>1
    <2> QED BY <2>2 DEF K
  <1> HIDE DEF n
  <1>4. base \in A
    <2> DEFINE K == CarryingSlots(bs)
               L == LateOnes(bs)
    <2> HIDE DEF K, L
    <2>1. <<>> \in Seq(K) /\ <<>> \in Seq(L) OBVIOUS
    <2> QED BY <2>1 DEF CarryingSifted, K, L
  <1> HIDE DEF base
  <1>5. \A a \in A, i \in 1 .. n : Release(place, a, slots[i]) \in A BY <1>3, ReleaseCarries
  <1> HIDE DEF A
  <1>w. \E v : ReleaseWalks(v, A, place, base, n, slots) BY <1>3, <1>4, <1>5, ReleaseWalk
  <1>6. PICK v : v \in [0 .. n -> A] /\ v[0] = base /\ v[n] = SiftedFrom(place, base, slots)
        BY <1>w DEF ReleaseWalks
  <1>7. sifted \in A
    <2>1. n \in 0 .. n BY <1>3, SMT
    <2> QED BY <2>1, <1>6 DEF sifted
  <1>8. sifted.late \in Seq(LateOnes(bs)) /\ sifted.kept \in Seq(CarryingSlots(bs))
        BY <1>7 DEF A, CarryingSifted
  <1>9. sifted.kept \in Seq(Slot)
    <2>1. CarryingSlots(bs) \in SUBSET Slot BY DEF CarryingSlots
    <2> DEFINE K == CarryingSlots(bs)
               k == sifted.kept
    <2>2. K \in SUBSET Slot /\ k \in Seq(K) BY <2>1, <1>8
    <2> HIDE DEF K, k
    <2>3. k \in Seq(Slot) BY <2>2
    <2> QED BY <2>3 DEF k
  <1>10. AllCarry(sifted.kept, bs) BY <1>8, <1>9, CarryingSequence
  <1>11. q \in Injectors /\ q.delayed = sifted.kept BY <1>9, InjectorEdits
  <1> HIDE DEF q
  <1>12. /\ r.injector = [q EXCEPT !.emitted = q.emitted + Len(sifted.late)]
         /\ r.out = sifted.late
         BY <1>r DEF Deliver
  <1>13. r.injector \in Injectors
    <2>1. Outcome(r, Balance(q) + Len(sifted.late)) BY <1>r, <1>8, <1>11, DeliverCounts
    <2> QED BY <2>1 DEF Outcome
  <1>14. r.injector.delayed = sifted.kept BY <1>11, <1>12 DEF Injectors
  <1>15. inj.delayed = <<>> => sifted.late = <<>> /\ sifted.kept = <<>>
    <2> SUFFICES ASSUME slots = <<>> PROVE sifted = base BY DEF slots, base
    <2>1. n = 0
      <3>1. DOMAIN slots = 1 .. 0
        <4>1. DOMAIN <<>> = {} OBVIOUS
        <4>2. 1 .. 0 = {} BY SMT
        <4> QED BY <4>1, <4>2
      <3>2. Len(<<>>) = 0 OBVIOUS
      <3> QED BY <3>2 DEF n
    <2> QED BY <2>1, <1>6 DEF sifted
  <1>16. AllGood(sifted.late, bs) BY <1>8, LateSequence
  <1> HIDE DEF r
  <1> QED BY <1>8, <1>10, <1>12, <1>13, <1>14, <1>15, <1>16 DEF r

LEMMA SlotsStay ==
    ASSUME NEW inj \in Injectors, NEW x
    PROVE  /\ [inj EXCEPT !.emitted = x].delayed = inj.delayed
           /\ [inj EXCEPT !.dropped = x].delayed = inj.delayed
           /\ [inj EXCEPT !.duplicated = x].delayed = inj.delayed
           /\ [inj EXCEPT !.notApplicable = x].delayed = inj.delayed
           /\ [inj EXCEPT !.mutated = x].delayed = inj.delayed
PROOF
  BY DEF Injectors

\* deliver(): what is held is not looked at.
LEMMA DeliverHolds ==
    ASSUME NEW inj, inj \in Injectors, NEW out
    PROVE  /\ Deliver(inj, out).injector.delayed = inj.delayed
           /\ Deliver(inj, out).out = out
PROOF
  <1> DEFINE x == inj.emitted + Len(out)
  <1>1. /\ Deliver(inj, out).injector = [inj EXCEPT !.emitted = x]
        /\ Deliver(inj, out).out = out
        BY DEF Deliver
  <1> HIDE DEF x
  <1> QED BY <1>1, SlotsStay

LEMMA NoneIsGood == ASSUME NEW bs PROVE AllGood(<<>>, bs)
PROOF
  <1>1. Len(<<>>) = 0 /\ 1 .. 0 = {} BY SMT
  <1> QED BY <1>1 DEF AllGood

LEMMA OneOrTwoGood ==
    ASSUME NEW bs, NEW x, NEW y
    PROVE  /\ Good(protocol, x.packet, bs) => AllGood(<<x>>, bs)
           /\ Good(protocol, x.packet, bs) /\ Good(protocol, y.packet, bs)
                 => AllGood(<<x, y>>, bs)
PROOF
  <1>1. Len(<<x>>) = 1 /\ Len(<<x, y>>) = 2 OBVIOUS
  <1>2. 1 .. 1 = {1} /\ 1 .. 2 = {1, 2} BY SMT
  <1>3. <<x>>[1] = x /\ <<x, y>>[1] = x /\ <<x, y>>[2] = y OBVIOUS
  <1> QED BY <1>1, <1>2, <1>3 DEF AllGood

LEMMA OneMoreSlot ==
    ASSUME NEW bs, NEW slots \in Seq(Slot), AllCarry(slots, bs), NEW slot \in Slot,
           Carries(protocol, slot.packet, bs)
    PROVE  Append(slots, slot) \in Seq(Slot) /\ AllCarry(Append(slots, slot), bs)
PROOF
  <1> DEFINE K == CarryingSlots(bs)
             more == Append(slots, slot)
  <1>1. slots \in Seq(K) BY CarryingSequence
  <1>2. slot \in K BY DEF CarryingSlots
  <1> HIDE DEF K
  <1>3. more \in Seq(Slot) /\ more \in Seq(K) BY <1>1, <1>2
  <1> HIDE DEF more
  <1>4. AllCarry(more, bs) BY <1>3, CarryingSequence DEF K
  <1> QED BY <1>3, <1>4 DEF more

\* apply(): the packet itself is what is held, and nothing misleading goes out.
LEMMA ApplyCarries ==
    ASSUME NEW bs, BodiesOk(bs), NEW inj, inj \in Injectors, AllCarry(inj.delayed, bs),
           NEW f, f.op \in FaultOps, f.operand \in Nat,
           NEW packet, Carries(protocol, packet, bs), NEW place \in Nat
    PROVE  LET r == Apply(protocol, inj, f, packet, place)
           IN  /\ AllCarry(r.injector.delayed, bs)
               /\ f.op \in Harmless => AllGood(r.out, bs)
PROOF
  <1> DEFINE r == Apply(protocol, inj, f, packet, place)
             on == OnTime(packet, place)
  <1>1. on.packet = packet /\ Good(protocol, packet, bs)
        BY CarriedDrains DEF OnTime, Emission
  <1>2. packet \in Datagrams BY DEF Carries
  <1> HIDE DEF on
  <1>3. CASE f.op = "drop"
    <2> DEFINE q == [inj EXCEPT !.dropped = inj.dropped + 1]
    <2>1. r = Deliver(q, <<>>) BY <1>3 DEF Apply
    <2>2. q \in Injectors BY InjectorEdits
    <2>3. q.delayed = inj.delayed
      <3> DEFINE x == inj.dropped + 1
      <3> HIDE DEF x
      <3>1. [inj EXCEPT !.dropped = x].delayed = inj.delayed BY SlotsStay
      <3> QED BY <3>1 DEF x
    <2> HIDE DEF q, r
    <2> QED BY <2>1, <2>2, <2>3, DeliverHolds, NoneIsGood DEF r
  <1>4. CASE f.op = "duplicate"
    <2> DEFINE q == [inj EXCEPT !.duplicated = inj.duplicated + 1]
               twin == Emission(packet, place, "duplicate")
    <2>1. r = Deliver(q, <<on, twin>>) BY <1>4 DEF Apply, on
    <2>2. q \in Injectors BY InjectorEdits
    <2>3. q.delayed = inj.delayed
      <3> DEFINE x == inj.duplicated + 1
      <3> HIDE DEF x
      <3>1. [inj EXCEPT !.duplicated = x].delayed = inj.delayed BY SlotsStay
      <3> QED BY <3>1 DEF x
    <2>4. twin.packet = packet BY DEF Emission
    <2> HIDE DEF q, r, twin
    <2>5. AllGood(<<on, twin>>, bs) BY <1>1, <2>4, OneOrTwoGood
    <2> QED BY <2>1, <2>2, <2>3, <2>5, DeliverHolds DEF r
  <1>5. CASE f.op = "delay" /\ Len(inj.delayed) >= MaxDelayed
    <2> DEFINE q == [inj EXCEPT !.notApplicable = inj.notApplicable + 1]
    <2>1. r = Deliver(q, <<on>>) BY <1>5 DEF Apply, Hold, on
    <2>2. q \in Injectors BY InjectorEdits
    <2>3. q.delayed = inj.delayed
      <3> DEFINE x == inj.notApplicable + 1
      <3> HIDE DEF x
      <3>1. [inj EXCEPT !.notApplicable = x].delayed = inj.delayed BY SlotsStay
      <3> QED BY <3>1 DEF x
    <2> HIDE DEF q, r
    <2>5. AllGood(<<on>>, bs) BY <1>1, OneOrTwoGood
    <2> QED BY <2>1, <2>2, <2>3, <2>5, DeliverHolds DEF r
  <1>6. CASE f.op = "delay" /\ ~(Len(inj.delayed) >= MaxDelayed)
    <2> DEFINE slot == [packet |-> packet, source |-> place, release |-> place + f.operand]
               more == Append(inj.delayed, slot)
               h == inj.held + 1
               q == [inj EXCEPT !.held = h, !.delayed = more]
    <2>1. r = Deliver(q, <<>>) BY <1>6 DEF Apply, Hold
    <2>2. slot \in Slot /\ slot.packet = packet BY <1>2 DEF Slot
    <2>3. inj.delayed \in Seq(Slot) /\ h \in Nat BY InjectorNumbers
    <2> HIDE DEF slot, h
    <2>4. more \in Seq(Slot) /\ AllCarry(more, bs) BY <2>2, <2>3, OneMoreSlot
    <2> HIDE DEF more
    <2>5. q \in Injectors /\ q.delayed = more BY <2>3, <2>4 DEF Injectors
    <2> HIDE DEF q, r
    <2> QED BY <2>1, <2>4, <2>5, DeliverHolds, NoneIsGood DEF r
  <1>7. CASE f.op \notin {"drop", "duplicate", "delay"}
    <2>1. r = Damage(protocol, inj, f, packet, place) BY <1>7 DEF Apply
    <2> DEFINE changed == Damaged(protocol, f, packet)
    <2>g. f.op \in Harmless /\ changed # <<>> => Good(protocol, changed[1], bs)
          BY <1>7, DamagedIsGood
    <2> HIDE DEF changed
    <2>2. CASE changed = <<>>
      <3> DEFINE q == [inj EXCEPT !.notApplicable = inj.notApplicable + 1]
      <3>1. r = Deliver(q, <<on>>) BY <2>1, <2>2 DEF Damage, changed, on
      <3>2. q \in Injectors BY InjectorEdits
      <3>3. q.delayed = inj.delayed
        <4> DEFINE x == inj.notApplicable + 1
        <4> HIDE DEF x
        <4>1. [inj EXCEPT !.notApplicable = x].delayed = inj.delayed BY SlotsStay
        <4> QED BY <4>1 DEF x
      <3> HIDE DEF q, r
      <3>5. AllGood(<<on>>, bs) BY <1>1, OneOrTwoGood
      <3> QED BY <3>1, <3>2, <3>3, <3>5, DeliverHolds DEF r
    <2>3. CASE changed # <<>>
      <3> DEFINE q == [inj EXCEPT !.mutated = inj.mutated + 1]
                 hurt == Emission(changed[1], place, f.op)
      <3>1. r = Deliver(q, <<hurt>>) BY <2>1, <2>3 DEF Damage, changed
      <3>2. q \in Injectors BY InjectorEdits
      <3>3. q.delayed = inj.delayed
        <4> DEFINE x == inj.mutated + 1
        <4> HIDE DEF x
        <4>1. [inj EXCEPT !.mutated = x].delayed = inj.delayed BY SlotsStay
        <4> QED BY <4>1 DEF x
      <3>4. hurt.packet = changed[1] BY DEF Emission
      <3> HIDE DEF q, r, hurt
      <3>5. f.op \in Harmless => AllGood(<<hurt>>, bs) BY <2>3, <2>g, <3>4, OneOrTwoGood
      <3> QED BY <3>1, <3>2, <3>3, <3>5, DeliverHolds DEF r
    <2> QED BY <2>2, <2>3
  <1> QED BY <1>3, <1>4, <1>5, <1>6, <1>7

LEMMA BothGood ==
    ASSUME NEW bs, NEW E, NEW F, NEW early \in Seq(E), NEW later \in Seq(F),
           AllGood(early, bs), AllGood(later, bs)
    PROVE  AllGood(early \o later, bs)
PROOF
  <1> DEFINE both == early \o later
             n == Len(early)
             m == Len(later)
  <1>1. early \in Seq(E \cup F) /\ later \in Seq(E \cup F) OBVIOUS
  <1>2. /\ n \in Nat /\ m \in Nat /\ Len(both) = n + m
        /\ \A i \in 1 .. n + m : both[i] = IF i <= n THEN early[i] ELSE later[i - n]
        BY <1>1, ConcatProperties
  <1>3. /\ \A i \in 1 .. n : Good(protocol, early[i].packet, bs)
        /\ \A i \in 1 .. m : Good(protocol, later[i].packet, bs)
        BY DEF AllGood
  <1> HIDE DEF both, n, m
  <1>4. \A i \in 1 .. n + m : (i <= n /\ i \in 1 .. n) \/ (~(i <= n) /\ i - n \in 1 .. m)
        BY <1>2, SMT
  <1>5. \A i \in 1 .. n + m : Good(protocol, both[i].packet, bs) BY <1>2, <1>3, <1>4
  <1> QED BY <1>2, <1>5 DEF AllGood, both

\* offer(): the packets of the stream go on the line or are held.
LEMMA OfferCarries ==
    ASSUME NEW bs, BodiesOk(bs), NEW inj, inj \in Injectors, AllCarry(inj.delayed, bs),
           NEW faults, PlanOk(faults), \A i \in DOMAIN faults : faults[i].op \in FaultOps,
           NEW packet, Carries(protocol, packet, bs), NEW place \in Nat
    PROVE  LET r == OfferTo(protocol, inj, faults, packet, place)
           IN  /\ AllCarry(r.injector.delayed, bs)
               /\ (\A i \in DOMAIN faults : faults[i].op \in Harmless) => AllGood(r.out, bs)
               /\ AtPacket(faults, place) = 0 /\ inj.delayed = <<>> =>
                     r.injector.delayed = <<>> /\ r.out = <<OnTime(packet, place)>>
PROOF
  <1> DEFINE counted == [inj EXCEPT !.offered = inj.offered + 1]
             released == ReleaseDue(counted, place)
             entry == AtPacket(faults, place)
             on == OnTime(packet, place)
             now == IF entry = 0 THEN Deliver(released.injector, <<on>>)
                    ELSE Apply(protocol, released.injector, faults[entry], packet, place)
             r == OfferTo(protocol, inj, faults, packet, place)
  <1>1. counted \in Injectors /\ counted.delayed = inj.delayed BY InjectorEdits
  <1>2. r = [injector |-> now.injector, out |-> released.out \o now.out] BY DEF OfferTo
  <1>3. on.packet = packet /\ Good(protocol, packet, bs)
        BY CarriedDrains DEF OnTime, Emission
  <1>p. packet \in Datagrams BY DEF Carries
  <1> HIDE DEF counted, r, on
  <1>4. /\ released.injector \in Injectors /\ AllCarry(released.injector.delayed, bs)
        /\ released.out \in Seq(LateOnes(bs)) /\ AllGood(released.out, bs)
        /\ inj.delayed = <<>> => released.injector.delayed = <<>> /\ released.out = <<>>
        BY <1>1, ReleaseDueCarries
  <1>5. entry = 0 \/ (entry \in DOMAIN faults /\ faults[entry].operand \in Nat)
        BY AtPacketFinds
  <1> HIDE DEF released, entry
  <1>6. CASE entry = 0
    <2>1. now = Deliver(released.injector, <<on>>) BY <1>6
    <2> HIDE DEF now
    <2>2. now.injector.delayed = released.injector.delayed /\ now.out = <<on>>
          BY <2>1, <1>4, DeliverHolds
    <2>3. AllGood(now.out, bs) BY <2>2, <1>3, OneOrTwoGood
    <2> DEFINE E == {on}
               one == <<on>>
    <2>4. one \in Seq(E) OBVIOUS
    <2> HIDE DEF E, one
    <2>5. AllGood(released.out \o one, bs) BY <2>2, <2>3, <2>4, <1>4, BothGood DEF one
    <2>6. <<>> \o one = one BY <2>4
    <2>7. r.injector = now.injector /\ r.out = released.out \o one BY <1>2, <2>2 DEF one
    <2> QED BY <2>2, <2>5, <2>6, <2>7, <1>4 DEF r, entry, on, one
  <1>7. CASE entry # 0
    <2>1. now = Apply(protocol, released.injector, faults[entry], packet, place) BY <1>7
    <2> HIDE DEF now
    <2>2. /\ AllCarry(now.injector.delayed, bs)
          /\ faults[entry].op \in Harmless => AllGood(now.out, bs)
          BY <2>1, <1>4, <1>5, <1>7, ApplyCarries
    <2>3. Outcome(now, Balance(released.injector) + 1)
          BY <2>1, <1>4, <1>5, <1>7, <1>p, ApplyKeeps
    <2>4. PICK F : now.out \in Seq(F) BY <2>3 DEF Outcome
    <2>5. faults[entry].op \in Harmless => AllGood(released.out \o now.out, bs)
          BY <2>2, <2>4, <1>4, BothGood
    <2>6. r.injector = now.injector /\ r.out = released.out \o now.out BY <1>2
    <2> QED BY <2>2, <2>5, <2>6, <1>5, <1>7 DEF r, entry
  <1> QED BY <1>6, <1>7

\* flush(): what was held goes out as it is.
LEMMA FlushCarries ==
    ASSUME NEW bs, BodiesOk(bs), NEW inj, inj \in Injectors, AllCarry(inj.delayed, bs)
    PROVE  LET r == FlushInjector(inj)
           IN  r.injector.delayed = <<>> /\ AllGood(r.out, bs)
PROOF
  <1> DEFINE slots == inj.delayed
             out == [i \in DOMAIN slots |-> Late(slots[i])]
             n == Len(slots)
             E == {Late(slots[i]) : i \in 1 .. n}
  <1>1. FlushInjector(inj).injector.delayed = <<>> BY FlushKeeps
  <1>2. FlushInjector(inj).out = out BY DEF FlushInjector, Deliver
  <1>3. n \in Nat /\ DOMAIN slots = 1 .. n
    <2>1. slots \in Seq(Slot) BY InjectorNumbers
    <2> HIDE DEF slots
    <2>2. n \in Nat /\ DOMAIN slots = 1 .. n BY <2>1
    <2> QED BY <2>2
  <1>4. out \in [1 .. n -> E] BY <1>3
  <1>5. \A i \in 1 .. n : out[i].packet = slots[i].packet BY <1>3 DEF Late, Emission
  <1>6. \A i \in 1 .. n : Good(protocol, slots[i].packet, bs) BY CarriedDrains DEF AllCarry
  <1> HIDE DEF out, E, n
  <1>7. Len(out) = n BY <1>3, <1>4
  <1> QED BY <1>1, <1>2, <1>5, <1>6, <1>7 DEF AllGood

-----------------------------------------------------------------------------
(* What the retransmit facility keeps and answers with.                      *)

CarryingPackets(bs) == {p \in Datagrams : Carries(protocol, p, bs)}

Facilities ==
    [slots : [0 .. RetainedPackets - 1 -> {<<>>} \cup {<<p>> : p \in Datagrams}],
     next : 0 .. RetainedPackets - 1, count : 0 .. RetainedPackets, evicted : Nat]

\* The slots that are filled hold packets of the stream, from slot 0 on.
FacilityOk(f, bs) ==
    /\ f \in Facilities
    /\ f.count < RetainedPackets => f.next = f.count
    /\ \A i \in 0 .. RetainedPackets - 1 :
          i < f.count => f.slots[i] \in {<<p>> : p \in CarryingPackets(bs)}

LEMMA RetentionIsANumber == RetainedPackets \in Nat \ {0}
PROOF BY VenueAssumption

LEMMA NewFacilityOk == \A bs : FacilityOk(NewFacility, bs)
PROOF
  <1> TAKE bs
  <1> DEFINE slots == [i \in 0 .. RetainedPackets - 1 |-> <<>>]
             f == [slots |-> slots, next |-> 0, count |-> 0, evicted |-> 0]
  <1>1. NewFacility = f BY DEF NewFacility
  <1>2. slots \in [0 .. RetainedPackets - 1 -> {<<>>} \cup {<<p>> : p \in Datagrams}] OBVIOUS
  <1> HIDE DEF slots
  <1>3. 0 \in 0 .. RetainedPackets - 1 /\ 0 \in 0 .. RetainedPackets
        BY RetentionIsANumber, SMT
  <1>4. f \in Facilities /\ f.next = 0 /\ f.count = 0 BY <1>2, <1>3 DEF Facilities
  <1> HIDE DEF f
  <1>5. \A i \in 0 .. RetainedPackets - 1 : ~(i < 0) BY RetentionIsANumber, SMT
  <1> QED BY <1>1, <1>4, <1>5 DEF FacilityOk

\* record(): the slot after the last one takes the packet.
LEMMA RecordKeeps ==
    ASSUME NEW bs, NEW f, FacilityOk(f, bs), NEW packet, packet \in CarryingPackets(bs)
    PROVE  FacilityOk(Record(f, packet), bs)
PROOF
  <1> DEFINE R == RetainedPackets
             W == {<<p>> : p \in CarryingPackets(bs)}
             V == {<<>>} \cup {<<p>> : p \in Datagrams}
             one == <<packet>>
             slots == [f.slots EXCEPT ![f.next] = one]
             next == (f.next + 1) % R
             count == IF f.count < R THEN f.count + 1 ELSE f.count
             evicted == IF f.count < R THEN f.evicted ELSE f.evicted + 1
             g == [slots |-> slots, next |-> next, count |-> count, evicted |-> evicted]
  <1>1. /\ f \in Facilities /\ (f.count < R => f.next = f.count)
        /\ \A i \in 0 .. R - 1 : i < f.count => f.slots[i] \in W
        BY DEF FacilityOk
  <1>2. /\ f.slots \in [0 .. R - 1 -> V] /\ f.next \in 0 .. R - 1 /\ f.count \in 0 .. R
        /\ f.evicted \in Nat
        BY <1>1 DEF Facilities
  <1>r. R \in Nat \ {0} BY RetentionIsANumber
  <1>3. CASE Record(f, packet) = f BY <1>3
  <1>4. CASE Record(f, packet) # f
    <2>1. Record(f, packet) = g BY <1>4 DEF Record
    <2>2. one \in V /\ one \in W BY DEF CarryingPackets
    <2>F. Facilities = [slots : [0 .. R - 1 -> V], next : 0 .. R - 1, count : 0 .. R,
                        evicted : Nat]
          BY DEF Facilities
    <2> HIDE DEF R, V, W, one
    <2>3. slots \in [0 .. R - 1 -> V] BY <1>2, <2>2
    <2>4. /\ slots[f.next] = one
          /\ \A i \in 0 .. R - 1 : i # f.next => slots[i] = f.slots[i]
          BY <1>2
    <2>5. next \in 0 .. R - 1
      <3>1. f.next + 1 \in Nat BY <1>2, <1>r, SMT
      <3> QED BY <3>1, <1>r, Remainder
    <2>6. count \in 0 .. R /\ evicted \in Nat BY <1>2, <1>r, SMT
    <2>7. count < R => next = count
      <3> SUFFICES ASSUME count < R PROVE next = count OBVIOUS
      <3>1. f.count < R /\ count = f.count + 1 BY <1>2, <1>r, SMT
      <3>2. f.next + 1 = count /\ count \in 0 .. R - 1 BY <3>1, <1>1, <1>2, <1>r, SMT
      <3> HIDE DEF count
      <3>3. count % R = count BY <3>2, <1>r, BelowModulus
      <3> QED BY <3>2, <3>3
    <2>8. \A i \in 0 .. R - 1 : i < count => i = f.next \/ i < f.count
          BY <1>1, <1>2, <1>r, SMT
    <2> HIDE DEF slots, next, count, evicted
    <2>9. /\ g \in Facilities /\ g.slots = slots /\ g.next = next /\ g.count = count
          BY <2>F, <2>3, <2>5, <2>6
    <2> HIDE DEF g
    <2>10. \A i \in 0 .. R - 1 : i < count => slots[i] \in W
      <3> TAKE i \in 0 .. R - 1
      <3>1. CASE i = f.next BY <3>1, <2>2, <2>4
      <3>2. CASE i # f.next BY <3>2, <2>4, <2>8, <1>1
      <3> QED BY <3>1, <3>2
    <2> QED BY <2>1, <2>7, <2>9, <2>10 DEF FacilityOk, R, W
  <1> QED BY <1>3, <1>4

\* What is published is recorded.
LEMMA RecordsKeep ==
    ASSUME NEW bs, NEW f, FacilityOk(f, bs), NEW packets,
           packets = <<>> \/ \E packet : packets = <<packet>> /\ Carries(protocol, packet, bs)
    PROVE  FacilityOk(RecordedOn(f, packets), bs)
PROOF
  <1> DEFINE A == {g \in Facilities : FacilityOk(g, bs)}
  <1>1. f \in A BY DEF FacilityOk
  <1>2. \A a \in A : FacilityOk(a, bs) OBVIOUS
  <1>k. \A g : FacilityOk(g, bs) => g \in A BY DEF FacilityOk
  <1>3. \E n \in Nat : DOMAIN packets = 1 .. n
                       /\ \A i \in 1 .. n : packets[i] \in CarryingPackets(bs)
    <2>1. CASE packets = <<>>
      <3>1. DOMAIN <<>> = {} /\ 1 .. 0 = {} /\ 0 \in Nat
        <4>1. 1 .. 0 = {} BY SMT
        <4> QED BY <4>1
      <3> QED BY <2>1, <3>1
    <2>2. ASSUME NEW packet, packets = <<packet>>, Carries(protocol, packet, bs)
          PROVE  \E n \in Nat : DOMAIN packets = 1 .. n
                                /\ \A i \in 1 .. n : packets[i] \in CarryingPackets(bs)
      <3>1. packet \in CarryingPackets(bs) BY <2>2 DEF Carries, CarryingPackets
      <3>2. DOMAIN packets = 1 .. 1 /\ packets[1] = packet BY <2>2
      <3>3. 1 \in Nat /\ \A i \in 1 .. 1 : i = 1 BY SMT
      <3> QED BY <3>1, <3>2, <3>3
    <2> QED BY <2>1, <2>2
  <1>4. PICK n \in Nat : DOMAIN packets = 1 .. n
                         /\ \A i \in 1 .. n : packets[i] \in CarryingPackets(bs)
        BY <1>3
  <1>5. \A a \in A, i \in 1 .. n : Record(a, packets[i]) \in A
    <2> TAKE a \in A, i \in 1 .. n
    <2>1. FacilityOk(a, bs) /\ packets[i] \in CarryingPackets(bs) BY <1>2, <1>4
    <2> QED BY <2>1, <1>k, RecordKeeps
  <1> HIDE DEF A
  <1>w. \E v : RecordWalks(v, A, f, n, packets) BY <1>1, <1>4, <1>5, RecordWalk
  <1>6. PICK v : v \in [0 .. n -> A] /\ v[n] = RecordedOn(f, packets) BY <1>w DEF RecordWalks
  <1>7. n \in 0 .. n BY SMT
  <1> QED BY <1>2, <1>6, <1>7

\* at(): a packet that was recorded.
LEMMA RetainedCarries ==
    ASSUME NEW bs, NEW f, FacilityOk(f, bs), NEW i \in 0 .. f.count - 1
    PROVE  RetainedAt(f, i) \in CarryingPackets(bs)
PROOF
  <1> DEFINE R == RetainedPackets
             base == IF f.count < R THEN 0 ELSE f.next
             at == (base + i) % R
             W == {<<p>> : p \in CarryingPackets(bs)}
  <1>1. /\ f \in Facilities
        /\ \A k \in 0 .. R - 1 : k < f.count => f.slots[k] \in W
        BY DEF FacilityOk
  <1>2. f.next \in 0 .. R - 1 /\ f.count \in 0 .. R BY <1>1 DEF Facilities
  <1>r. R \in Nat \ {0} BY RetentionIsANumber
  <1>3. RetainedAt(f, i) = f.slots[at][1] BY DEF RetainedAt
  <1> HIDE DEF R, W
  <1>4. at \in 0 .. R - 1 /\ at < f.count
    <2>1. CASE f.count < R
      <3>1. base + i = i /\ i \in 0 .. R - 1 BY <2>1, <1>2, <1>r, SMT
      <3> HIDE DEF base
      <3>2. at = i BY <3>1, <1>r, BelowModulus
      <3>3. i < f.count BY <1>2, <1>r, SMT
      <3> QED BY <3>1, <3>2, <3>3
    <2>2. CASE ~(f.count < R)
      <3>1. base + i \in Nat /\ f.count = R BY <2>2, <1>2, <1>r, SMT
      <3> HIDE DEF base
      <3>2. at \in 0 .. R - 1 BY <3>1, <1>r, Remainder
      <3> HIDE DEF at
      <3>3. at < f.count BY <3>1, <3>2, <1>r, SMT
      <3> QED BY <3>2, <3>3
    <2> QED BY <2>1, <2>2
  <1> HIDE DEF at
  <1>5. f.slots[at] \in W BY <1>1, <1>4
  <1> DEFINE kept == f.slots[at]
  <1>6. kept \in W BY <1>5
  <1> HIDE DEF kept
  <1>7. \E p \in CarryingPackets(bs) : kept = <<p>> BY <1>6 DEF W
  <1>8. kept[1] \in CarryingPackets(bs) BY <1>7
  <1> QED BY <1>3, <1>8 DEF kept

\* A list of packets of the stream.
PacketsOf(packets, bs) ==
    \E n \in Nat : DOMAIN packets = 1 .. n
                   /\ \A i \in 1 .. n : packets[i] \in CarryingPackets(bs)

\* serve(): the packets of an answer are some of those kept.
LEMMA WantedCarries ==
    ASSUME NEW bs, NEW wanted, NEW packets, PacketsOf(packets, bs)
    PROVE  PacketsOf(Wanted(wanted, packets), bs)
PROOF
  <1> DEFINE C == CarryingPackets(bs)
             A == Seq(C)
             none == <<>>
  <1>1. PICK n \in Nat : DOMAIN packets = 1 .. n /\ \A i \in 1 .. n : packets[i] \in C
        BY DEF PacketsOf
  <1>2. Wanted(wanted, packets) = Taken(wanted, none, packets) BY DEF Wanted, Taken
  <1>o. \A taken \in Seq(C) : /\ Len(taken) \in Nat /\ DOMAIN taken = 1 .. Len(taken)
                              /\ \A i \in 1 .. Len(taken) : taken[i] \in C
    <2> HIDE DEF C
    <2> QED OBVIOUS
  <1> HIDE DEF C
  <1>3. none \in A OBVIOUS
  <1> HIDE DEF none
  <1>4. \A a \in A, i \in 1 .. n : TakeIfWanted(wanted, a, packets[i]) \in A
    <2> TAKE a \in A, i \in 1 .. n
    <2> DEFINE p == packets[i]
    <2>1. p \in C BY <1>1
    <2>t. TakeIfWanted(wanted, a, p) = a \/ TakeIfWanted(wanted, a, p) = Append(a, p)
          BY DEF TakeIfWanted
    <2> HIDE DEF p
    <2>2. Append(a, p) \in A BY <2>1
    <2>3. TakeIfWanted(wanted, a, p) \in A BY <2>t, <2>2
    <2> QED BY <2>3 DEF p
  <1> HIDE DEF A
  <1>w. \E v : WantedWalks(v, A, wanted, none, n, packets) BY <1>1, <1>3, <1>4, WantedWalk
  <1>5. PICK v : v \in [0 .. n -> A] /\ v[n] = Taken(wanted, none, packets)
        BY <1>w DEF WantedWalks
  <1>6. n \in 0 .. n BY SMT
  <1>7. Taken(wanted, none, packets) \in A BY <1>5, <1>6
  <1> DEFINE taken == Taken(wanted, none, packets)
  <1>8. taken \in Seq(C) BY <1>7 DEF A
  <1> HIDE DEF taken
  <1>9. /\ Len(taken) \in Nat /\ DOMAIN taken = 1 .. Len(taken)
        /\ \A i \in 1 .. Len(taken) : taken[i] \in C
        BY <1>8, <1>o
  <1>10. PacketsOf(taken, bs) BY <1>9 DEF PacketsOf, C
  <1> QED BY <1>2, <1>10 DEF taken

LEMMA ServeCarries ==
    ASSUME NEW bs, NEW f, FacilityOk(f, bs), NEW wanted
    PROVE  PacketsOf(Serve(f, wanted).packets, bs)
PROOF
  <1> DEFINE retained == [i \in 1 .. f.count |-> RetainedAt(f, i - 1)]
             packets == Wanted(wanted, retained)
             answer == Serve(f, wanted)
  <1>1. f.count \in Nat
    <2>1. f.count \in 0 .. RetainedPackets BY DEF FacilityOk, Facilities
    <2> QED BY <2>1, RetentionIsANumber, SMT
  <1>2. PacketsOf(retained, bs)
    <2>1. \A i \in 1 .. f.count : i - 1 \in 0 .. f.count - 1 BY <1>1, SMT
    <2>2. \A i \in 1 .. f.count : RetainedAt(f, i - 1) \in CarryingPackets(bs)
          BY <2>1, RetainedCarries
    <2>3. DOMAIN retained = 1 .. f.count
          /\ \A i \in 1 .. f.count : retained[i] \in CarryingPackets(bs)
          BY <2>2
    <2> HIDE DEF retained
    <2> QED BY <1>1, <2>3 DEF PacketsOf
  <1>3. answer.packets = <<>> \/ answer.packets = packets
        BY Zenon DEF Serve, Answer
  <1> HIDE DEF retained, answer
  <1>4. PacketsOf(packets, bs) BY <1>2, WantedCarries
  <1>5. PacketsOf(<<>>, bs)
    <2>1. 1 .. 0 = {} /\ 0 \in Nat BY SMT
    <2>2. DOMAIN <<>> = {} OBVIOUS
    <2> QED BY <2>1, <2>2 DEF PacketsOf
  <1> QED BY <1>3, <1>4, <1>5 DEF answer

\* What is submitted later leaves what was recorded as it is.
LEMMA FacilityStays ==
    ASSUME NEW bs, bs \in Seq(Seq(Nat)), NEW body, body \in Seq(Nat), NEW f, FacilityOk(f, bs)
    PROVE  FacilityOk(f, Append(bs, body))
PROOF
  <1> DEFINE cs == Append(bs, body)
  <1>1. CarryingPackets(bs) \in SUBSET CarryingPackets(cs)
        BY CarriesStill DEF CarryingPackets
  <1> HIDE DEF cs
  <1>2. {<<p>> : p \in CarryingPackets(bs)} \in SUBSET {<<p>> : p \in CarryingPackets(cs)}
        BY <1>1
  <1>3. \A i \in 0 .. RetainedPackets - 1 :
           i < f.count => f.slots[i] \in {<<p>> : p \in CarryingPackets(cs)}
        BY <1>2 DEF FacilityOk
  <1>4. FacilityOk(f, cs) BY <1>3 DEF FacilityOk
  <1> QED BY <1>4 DEF cs

FacilityInv == FacilityOk(facility, bodies)

LEMMA PublishedRecords ==
    ASSUME NEW r, Published(r), protocol' = protocol, NEW bs, bodies' = bs,
           Gives(protocol, r, bs), FacilityOk(facility, bs)
    PROVE  FacilityInv'
PROOF
  <1>1. facility' = RecordedOn(facility, r.packets) BY DEF Published, RecordedOn
  <1>2. r.packets = <<>>
        \/ \E packet : r.packets = <<packet>> /\ Carries(protocol, packet, bs)
        BY DEF Gives
  <1> DEFINE packets == r.packets
  <1>3. packets = <<>> \/ \E packet : packets = <<packet>> /\ Carries(protocol, packet, bs)
        BY <1>2
  <1> HIDE DEF packets
  <1>4. FacilityOk(RecordedOn(facility, packets), bs) BY <1>3, RecordsKeep
  <1>5. FacilityOk(facility', bodies') BY <1>1, <1>4 DEF packets
  <1> QED BY <1>5 DEF FacilityInv, FacilityOk, CarryingPackets

LEMMA FacilityStep == StreamInv /\ PackInv /\ FacilityInv /\ [Next]_vars => FacilityInv'
PROOF
  <1> SUFFICES ASSUME StreamInv, PackInv, FacilityInv, [Next]_vars PROVE FacilityInv' OBVIOUS
  <1>i. /\ PublisherOk(pub) /\ bodies \in Seq(Seq(Nat)) /\ BodiesOk(bodies)
        /\ PubCarries(pub, bodies) /\ FacilityOk(facility, bodies)
        BY DEF StreamInv, PackInv, FacilityInv
  <1>1. CASE UNCHANGED <<protocol, bodies, facility>>
        BY <1>1 DEF FacilityInv, FacilityOk, CarryingPackets
  <1>2. ASSUME NEW r, Published(r), Gives(protocol, r, bodies),
               protocol' = protocol, bodies' = bodies
        PROVE  FacilityInv'
        BY <1>2, <1>i, PublishedRecords
  <1>3. CASE SubmitMessage
    <2>1. PICK size \in BodySizes :
             LET body == [i \in 1 .. size |-> EndOfSession + Len(bodies) + 1]
                 result == Submit(protocol, pub, body)
             IN  /\ Published(result)
                 /\ bodies' = IF result.outcome = "ok" THEN Append(bodies, body) ELSE bodies
          BY <1>3 DEF SubmitMessage
    <2> DEFINE body == [i \in 1 .. size |-> EndOfSession + Len(bodies) + 1]
               r == Submit(protocol, pub, body)
               cs == Append(bodies, body)
    <2>2. body \in Seq(Nat) BY <1>i, BodyIsNumbers
    <2>3. Published(r) /\ protocol' = protocol
          /\ bodies' = IF r.outcome = "ok" THEN cs ELSE bodies
          BY <2>1, <1>3 DEF SubmitMessage
    <2> HIDE DEF body
    <2>5. \/ r.outcome # "ok" /\ r.publisher = pub /\ r.packets = <<>>
          \/ r.outcome = "ok" /\ Len(body) < MaxPayload /\ Gives(protocol, r, cs)
          BY <1>i, <2>2, SubmitGives
    <2>6. FacilityOk(facility, cs) BY <1>i, <2>2, FacilityStays
    <2> HIDE DEF r, cs
    <2>7. CASE r.outcome # "ok" /\ r.publisher = pub /\ r.packets = <<>>
      <3>1. Gives(protocol, r, bodies) /\ bodies' = bodies BY <2>3, <2>7, <1>i DEF Gives
      <3> QED BY <3>1, <2>3, <1>2
    <2>8. CASE r.outcome = "ok" /\ Len(body) < MaxPayload /\ Gives(protocol, r, cs)
      <3>1. bodies' = cs BY <2>3, <2>8
      <3> QED BY <3>1, <2>3, <2>6, <2>8, PublishedRecords
    <2> QED BY <2>5, <2>7, <2>8
  <1>4. CASE FlushPublisher
    <2>2. Gives(protocol, Flush(protocol, pub), bodies) BY <1>i, FlushGives
    <2>3. /\ Published(Flush(protocol, pub)) /\ protocol' = protocol /\ bodies' = bodies
          BY <1>4, Zenon DEF FlushPublisher
    <2> QED BY <1>2, <2>2, <2>3
  <1>5. CASE PollPublisher
    <2>2. Gives(protocol, Poll(protocol, pub), bodies) BY <1>i, PollGives
    <2>3. /\ Published(Poll(protocol, pub)) /\ protocol' = protocol /\ bodies' = bodies
          BY <1>5, Zenon DEF PollPublisher
    <2> QED BY <1>2, <2>2, <2>3
  <1>6. CASE Quiet BY <1>1, <1>6 DEF Quiet
  <1>7. CASE FinishStream
    <2>2. Gives(protocol, Flush(protocol, pub), bodies) BY <1>i, FlushGives
    <2>3. /\ Published(Flush(protocol, pub)) /\ protocol' = protocol /\ bodies' = bodies
          BY <1>7, Zenon DEF FinishStream
    <2> QED BY <1>2, <2>2, <2>3
  <1>8. CASE OfferPacket BY <1>1, <1>8 DEF OfferPacket, venue
  <1>9. CASE FlushLine BY <1>1, <1>9 DEF FlushLine, venue
  <1>10. CASE AskFacility BY <1>1, <1>10 DEF AskFacility, venue
  <1>11. CASE AskSnapshot BY <1>1, <1>11 DEF AskSnapshot, venue
  <1>12. CASE SnapshotWaits BY <1>1, <1>12 DEF SnapshotWaits, venue
  <1>13. CASE SnapshotArrives BY <1>1, <1>13 DEF SnapshotArrives, venue
  <1>14. CASE UNCHANGED vars BY <1>1, <1>14 DEF vars, venue
  <1> QED BY <1>3, <1>4, <1>5, <1>6, <1>7, <1>8, <1>9, <1>10, <1>11, <1>12, <1>13, <1>14
          DEF Next

-----------------------------------------------------------------------------
(* What the receiver has is a prefix of what the venue published.            *)

RxOf(t, w, a) == [tracker |-> t, book |-> [waiting |-> w, applied |-> a]]

\* The faults of a schedule are those of the generator, after the warm-up.
PlanFaults(faults) ==
    \A i \in DOMAIN faults :
        faults[i].op \in FaultOps /\ faults[i].first \in Int /\ faults[i].first >= Warmup

ReceiverInv ==
    /\ phase = "publishing" => index = 0
    /\ AllCarry(injector.delayed, bodies)
    /\ index = 0 => /\ RxOf(tracker, waiting, applied) = Unheard
                    /\ injector.delayed = <<>>
    /\ PlanFaults(plan)
    /\ Derivable /\ index > 0 => Keeps(RxOf(tracker, waiting, applied), bodies)

LEMMA ReceivedKeeps ==
    ASSUME NEW bs, BodiesOk(bs), NEW packets, Received(packets), NEW n \in Nat,
           DOMAIN packets = 1 .. n, \A i \in 1 .. n : Good(protocol, packets[i], bs),
           \/ Keeps(RxOf(tracker, waiting, applied), bs)
           \/ /\ RxOf(tracker, waiting, applied) = Unheard /\ n = 1
              /\ Carries(protocol, packets[1], bs) /\ packets[1].sequence = 1
    PROVE  Keeps(RxOf(tracker', waiting', applied'), bs)
PROOF
  <1> DEFINE rx == RxOf(tracker, waiting, applied)
             after == ReceivedOn(rx, packets)
  <1>1. AfterReceiving(packets) = after BY DEF AfterReceiving, ReceivedOn, RxOf
  <1>2. /\ tracker' = after.tracker /\ waiting' = after.book.waiting
        /\ applied' = after.book.applied
        BY <1>1 DEF Received
  <1> HIDE DEF rx
  <1>3. Keeps(after, bs) BY AllReceivedKeeps DEF rx
  <1> HIDE DEF after
  <1>4. after = RxOf(after.tracker, after.book.waiting, after.book.applied)
    <2>1. after \in Receivers BY <1>3 DEF Keeps
    <2> QED BY <2>1 DEF Receivers, Shelves, RxOf
  <1> QED BY <1>2, <1>3, <1>4

\* Nothing received is nothing changed.
LEMMA NothingReceived ==
    ASSUME NEW packets, DOMAIN packets = 1 .. 0, Received(packets),
           RxOf(tracker, waiting, applied) = Unheard
    PROVE  RxOf(tracker', waiting', applied') = Unheard
PROOF
  <1> DEFINE rx == RxOf(tracker, waiting, applied)
             after == ReceivedOn(rx, packets)
             A == {rx}
  <1>1. AfterReceiving(packets) = after BY DEF AfterReceiving, ReceivedOn, RxOf
  <1>2. /\ tracker' = after.tracker /\ waiting' = after.book.waiting
        /\ applied' = after.book.applied
        BY <1>1 DEF Received
  <1> HIDE DEF rx
  <1>3. \E v : ReceiveWalks(v, A, rx, 0, packets)
    <2>1. \A a \in A, i \in 1 .. 0 : Receive(a, packets[i]) \in A
      <3>1. 1 .. 0 = {} BY SMT
      <3> QED BY <3>1
    <2>2. rx \in A /\ 0 \in Nat OBVIOUS
    <2> HIDE DEF A
    <2> QED BY <2>1, <2>2, ReceiveWalk
  <1>4. after = rx BY <1>3 DEF ReceiveWalks
  <1> HIDE DEF after
  <1>5. rx = Unheard BY DEF rx
  <1>6. RxOf(after.tracker, after.book.waiting, after.book.applied) = Unheard
        BY <1>4, <1>5 DEF RxOf, Unheard
  <1> QED BY <1>2, <1>6

\* What goes on the line is received.
LEMMA LineReceives ==
    ASSUME NEW bs, BodiesOk(bs), NEW E, NEW out \in Seq(E), OnTheLine(out), AllGood(out, bs),
           \/ Keeps(RxOf(tracker, waiting, applied), bs)
           \/ /\ RxOf(tracker, waiting, applied) = Unheard /\ Len(out) = 1
              /\ Carries(protocol, out[1].packet, bs) /\ out[1].packet.sequence = 1
    PROVE  Keeps(RxOf(tracker', waiting', applied'), bs)
PROOF
  <1> DEFINE packets == [i \in DOMAIN out |-> out[i].packet]
             n == Len(out)
  <1>1. n \in Nat /\ DOMAIN out = 1 .. n OBVIOUS
  <1>2. Received(packets) BY DEF OnTheLine
  <1>3. DOMAIN packets = 1 .. n /\ \A i \in 1 .. n : packets[i] = out[i].packet BY <1>1
  <1>4. \A i \in 1 .. n : Good(protocol, packets[i], bs) BY <1>3 DEF AllGood
  <1>5. n = 1 => packets[1] = out[1].packet
    <2>1. 1 \in 1 .. 1 BY SMT
    <2> HIDE DEF packets, n
    <2> QED BY <2>1, <1>3
  <1> DEFINE rx == RxOf(tracker, waiting, applied)
  <1>6. \/ Keeps(rx, bs)
        \/ /\ rx = Unheard /\ n = 1 /\ Carries(protocol, packets[1], bs)
           /\ packets[1].sequence = 1
    <2> HIDE DEF packets
    <2> QED BY <1>5
  <1> HIDE DEF packets, n, rx
  <1> QED BY <1>1, <1>2, <1>3, <1>4, <1>6, ReceivedKeeps DEF rx

LEMMA ScheduledFaults ==
    ASSUME NEW n \in Nat, NEW faults \in Schedules(n)
    PROVE  PlanFaults(faults)
PROOF
  <1> DEFINE drawn == {f \in FaultsOver(n) : f.operand \in OperandsOf(f.op)}
  <1>1. faults = <<>> \/ \E k \in MinFaults .. MaxFaults : faults \in [1 .. k -> drawn]
        BY DEF Schedules
  <1>2. \A f \in drawn : f.op \in FaultOps /\ f.first \in Int /\ f.first >= Warmup
    <2>1. \A f \in FaultsOver(n) : f.op \in Permitted /\ f.first \in Warmup .. n - MinBurst
          BY DEF FaultsOver
    <2>2. Permitted \in SUBSET FaultOps BY ChaosAssumption
    <2>3. \A x \in Warmup .. n - MinBurst : x \in Int /\ x >= Warmup
          BY ChaosAssumption, SMT
    <2> QED BY <2>1, <2>2, <2>3
  <1> HIDE DEF drawn
  <1>3. CASE faults = <<>> BY <1>3 DEF PlanFaults
  <1>4. ASSUME NEW k \in MinFaults .. MaxFaults, faults \in [1 .. k -> drawn]
        PROVE  PlanFaults(faults)
        BY <1>2, <1>4 DEF PlanFaults
  <1> QED BY <1>1, <1>3, <1>4

\* The warm-up keeps the first packet of the stream out of every fault.
LEMMA FirstIsUntouched ==
    ASSUME Warmup > 0, NEW faults, PlanFaults(faults)
    PROVE  AtPacket(faults, 0) = 0
PROOF
  <1> DEFINE found == {i \in DOMAIN faults : Covers(faults[i], 0)}
  <1>1. ASSUME NEW i \in DOMAIN faults, Covers(faults[i], 0) PROVE FALSE
    <2> DEFINE x == faults[i].first
    <2>1. x \in Int /\ x >= Warmup BY DEF PlanFaults
    <2>2. x <= 0 BY <1>1 DEF Covers
    <2>3. Warmup \in Nat BY ChaosAssumption
    <2> HIDE DEF x
    <2> QED BY <2>1, <2>2, <2>3, SMT
  <1>2. found = {} BY <1>1
  <1>3. AtPacket(faults, 0) = IF found = {} THEN 0
                              ELSE CHOOSE i \in found : \A j \in found : i <= j
        BY DEF AtPacket
  <1> HIDE DEF found
  <1> QED BY <1>2, <1>3

LEMMA ReceiverStep ==
    ASSUME Warmup > 0, StreamInv, InjectorInv, PackInv, FacilityInv, ReceiverInv, [Next]_vars
    PROVE  ReceiverInv'
PROOF
  <1> DEFINE rx == RxOf(tracker, waiting, applied)
  <1>i. /\ (phase = "publishing" => index = 0)
        /\ AllCarry(injector.delayed, bodies)
        /\ (index = 0 => rx = Unheard /\ injector.delayed = <<>>)
        /\ PlanFaults(plan)
        /\ (Derivable /\ index > 0 => Keeps(rx, bodies))
        BY DEF ReceiverInv
  <1>j. /\ PlanOk(plan) /\ index \in Nat /\ injector \in Injectors
        /\ stream \in Seq(Datagrams) /\ BodiesOk(bodies)
        /\ \A i \in 1 .. Len(stream) : Carries(protocol, stream[i], bodies)
        /\ (stream # <<>> => stream[1].sequence = 1)
        /\ FacilityOk(facility, bodies)
        BY DEF InjectorInv, StreamInv, PackInv, FacilityInv
  <1>d. Derivable => \A i \in DOMAIN plan : plan[i].op \in Harmless
        BY <1>i DEF Derivable, PlanFaults, Harmless
  <1>e. rx' = RxOf(tracker', waiting', applied') OBVIOUS
  <1> HIDE DEF rx
  <1>1. CASE UNCHANGED <<protocol, phase, bodies, line, receiver>>
    <2>1. UNCHANGED <<plan, injector, index, tracker, waiting, applied>>
          BY <1>1 DEF line, receiver
    <2> QED BY <1>1, <2>1 DEF ReceiverInv, AllCarry, PlanFaults, Derivable
  <1>2. ASSUME phase = "publishing", UNCHANGED <<injector, index, receiver>>,
               PlanFaults(plan')
        PROVE  ReceiverInv'
    <2>1. index' = 0 /\ injector'.delayed = <<>> BY <1>2, <1>i
    <2>2. UNCHANGED <<tracker, waiting, applied>> BY <1>2 DEF receiver
    <2>3. rx' = Unheard BY <1>i, <1>2, <2>2 DEF rx
    <2>5. AllCarry(injector.delayed, bodies)'
      <3>1. Len(<<>>) = 0 /\ 1 .. 0 = {} BY SMT
      <3> QED BY <2>1, <3>1 DEF AllCarry
    <2>6. PlanFaults(plan)' BY <1>2 DEF PlanFaults
    <2> QED BY <2>1, <2>3, <2>5, <2>6 DEF ReceiverInv, rx
  <1>3. CASE SubmitMessage BY <1>2, <1>3, <1>i DEF SubmitMessage, line
  <1>4. CASE FlushPublisher BY <1>2, <1>4, <1>i DEF FlushPublisher, line
  <1>5. CASE PollPublisher BY <1>2, <1>5, <1>i DEF PollPublisher, line
  <1>6. CASE Quiet BY <1>1, <1>6 DEF Quiet
  <1>7. CASE FinishStream
    <2>1. /\ phase = "publishing" /\ plan' \in Schedules(Len(stream'))
          /\ UNCHANGED <<injector, index, receiver>>
          BY <1>7 DEF FinishStream
    <2>2. Len(stream') \in Nat
      <3>1. StreamInv' BY StreamStep
      <3>2. stream' \in Seq(Datagrams) BY <3>1 DEF StreamInv
      <3> QED BY <3>2
    <2>3. PlanFaults(plan') BY <2>1, <2>2, ScheduledFaults
    <2> QED BY <1>2, <2>1, <2>3
  <1>8. CASE OfferPacket
    <2> DEFINE packet == stream[index + 1]
               r == OfferTo(protocol, injector, plan, packet, index)
    <2>1. /\ phase = "offering" /\ index < Len(stream) /\ phase' = phase
          /\ injector' = r.injector /\ OnTheLine(r.out) /\ index' = index + 1
          /\ UNCHANGED <<protocol, bodies, plan>>
          BY <1>8 DEF OfferPacket, venue
    <2>2. index + 1 \in 1 .. Len(stream)
      <3>1. Len(stream) \in Nat BY <1>j
      <3> QED BY <3>1, <2>1, <1>j, SMT
    <2>3. packet \in Datagrams /\ Carries(protocol, packet, bodies) BY <2>2, <1>j
    <2>4. /\ AllCarry(r.injector.delayed, bodies)
          /\ (\A i \in DOMAIN plan : plan[i].op \in Harmless) => AllGood(r.out, bodies)
          /\ AtPacket(plan, index) = 0 /\ injector.delayed = <<>> =>
                r.injector.delayed = <<>> /\ r.out = <<OnTime(packet, index)>>
      <3>1. \A i \in DOMAIN plan : plan[i].op \in FaultOps BY <1>i DEF PlanFaults
      <3> HIDE DEF packet
      <3> QED BY <3>1, <2>3, <1>i, <1>j, OfferCarries
    <2>5. Outcome(r, Balance(injector)) BY <1>j, <2>3, OfferKeeps
    <2>6. index = 0 => packet.sequence = 1 /\ AtPacket(plan, index) = 0
      <3> SUFFICES ASSUME index = 0 PROVE packet.sequence = 1 /\ AtPacket(plan, index) = 0
          OBVIOUS
      <3>1. packet = stream[1] OBVIOUS
      <3>2. stream # <<>>
        <4>1. Len(<<>>) = 0 OBVIOUS
        <4> QED BY <4>1, <2>1
      <3>3. AtPacket(plan, 0) = 0 BY <1>i, FirstIsUntouched
      <3> QED BY <3>1, <3>2, <3>3, <1>j
    <2> HIDE DEF packet, r
    <2>7. PICK E : r.out \in Seq(E) BY <2>5 DEF Outcome
    <2>8. Derivable => Keeps(RxOf(tracker', waiting', applied'), bodies)
      <3> SUFFICES ASSUME Derivable PROVE Keeps(RxOf(tracker', waiting', applied'), bodies)
          OBVIOUS
      <3>1. AllGood(r.out, bodies) BY <2>4, <1>d
      <3>2. CASE index > 0
        <4>1. Keeps(rx, bodies) BY <3>2, <1>i
        <4> QED BY <4>1, <3>1, <2>1, <2>7, <1>j, LineReceives DEF rx
      <3>3. CASE index = 0
        <4> DEFINE on == OnTime(packet, index)
                   out == r.out
        <4>1. rx = Unheard /\ out = <<on>> BY <3>3, <2>4, <2>6, <1>i
        <4>2. on.packet = packet BY DEF OnTime, Emission
        <4> HIDE DEF on, out
        <4>3. Len(out) = 1 /\ out[1] = on BY <4>1
        <4>4. /\ Carries(protocol, out[1].packet, bodies)
              /\ out[1].packet.sequence = 1
              BY <4>2, <4>3, <2>3, <2>6, <3>3
        <4>5. out \in Seq(E) /\ OnTheLine(out) /\ AllGood(out, bodies)
              BY <2>1, <2>7, <3>1 DEF out
        <4> QED BY <4>1, <4>3, <4>4, <4>5, <1>j, LineReceives DEF rx
      <3> QED BY <3>2, <3>3, <1>j
    <2>9. index' > 0 /\ index' # 0 BY <2>1, <1>j
    <2>10. AllCarry(injector.delayed, bodies)' BY <2>1, <2>4 DEF AllCarry
    <2>11. PlanFaults(plan)' BY <2>1, <1>i DEF PlanFaults
    <2>12. Derivable' <=> Derivable BY <2>1 DEF Derivable
    <2>13. phase' # "publishing" BY <2>1
    <2> QED BY <2>1, <2>8, <2>9, <2>10, <2>11, <2>12, <2>13 DEF ReceiverInv
  <1>9. CASE FlushLine
    <2> DEFINE r == FlushInjector(injector)
    <2>1. /\ phase = "offering" /\ phase' = "repairing"
          /\ injector' = r.injector /\ OnTheLine(r.out)
          /\ UNCHANGED <<protocol, bodies, plan, index>>
          BY <1>9 DEF FlushLine, venue
    <2>2. r.injector.delayed = <<>> /\ AllGood(r.out, bodies)
          BY <1>i, <1>j, FlushCarries
    <2>3. Outcome(r, Balance(injector)) BY <1>j, FlushKeeps
    <2>n. injector.delayed = <<>> => DOMAIN [i \in DOMAIN r.out |-> r.out[i].packet] = 1 .. 0
      <3> DEFINE slots == injector.delayed
      <3>1. r.out = [i \in DOMAIN slots |-> Late(slots[i])] BY DEF FlushInjector, Deliver
      <3>2. DOMAIN r.out = DOMAIN slots BY <3>1
      <3>3. DOMAIN <<>> = 1 .. 0
        <4>1. 1 .. 0 = {} BY SMT
        <4> QED BY <4>1
      <3> QED BY <3>2, <3>3
    <2> HIDE DEF r
    <2>4. PICK E : r.out \in Seq(E) BY <2>3 DEF Outcome
    <2>5. index = 0 => RxOf(tracker', waiting', applied') = Unheard
      <3> DEFINE packets == [i \in DOMAIN r.out |-> r.out[i].packet]
      <3>1. Received(packets) BY <2>1 DEF OnTheLine
      <3>2. injector.delayed = <<>> => DOMAIN packets = 1 .. 0 BY <2>n
      <3> HIDE DEF packets
      <3> QED BY <3>1, <3>2, <1>i, NothingReceived DEF rx
    <2>6. Derivable /\ index > 0 => Keeps(RxOf(tracker', waiting', applied'), bodies)
          BY <2>1, <2>2, <2>4, <1>i, <1>j, LineReceives DEF rx
    <2>10. AllCarry(injector.delayed, bodies)'
      <3>1. Len(<<>>) = 0 /\ 1 .. 0 = {} BY SMT
      <3> QED BY <2>1, <2>2, <3>1 DEF AllCarry
    <2>11. PlanFaults(plan)' BY <2>1, <1>i DEF PlanFaults
    <2>12. Derivable' <=> Derivable BY <2>1 DEF Derivable
    <2> QED BY <2>1, <2>2, <2>5, <2>6, <2>10, <2>11, <2>12 DEF ReceiverInv
  <1>10. CASE AskFacility
    <2> DEFINE answer == Serve(facility, FirstHole(tracker.missing))
               packets == answer.packets
    <2>1. /\ tracker.missing # {} /\ Received(packets) /\ phase # "publishing"
          /\ UNCHANGED <<protocol, phase, bodies, plan, injector, index>>
          BY <1>10 DEF AskFacility, venue, line
    <2>2. PacketsOf(packets, bodies) BY <1>j, ServeCarries
    <2> HIDE DEF packets
    <2>3. PICK n \in Nat : DOMAIN packets = 1 .. n
                           /\ \A i \in 1 .. n : packets[i] \in CarryingPackets(bodies)
          BY <2>2 DEF PacketsOf
    <2>4. \A i \in 1 .. n : Good(protocol, packets[i], bodies)
          BY <2>3, <1>j, CarriedDrains DEF CarryingPackets
    <2>5. index # 0
      <3> SUFFICES ASSUME index = 0 PROVE FALSE OBVIOUS
      <3>1. rx.tracker = tracker BY DEF rx, RxOf
      <3>2. Unheard.tracker.missing = {} BY DEF Unheard, Fresh
      <3> QED BY <3>1, <3>2, <2>1, <1>i
    <2>6. Derivable => Keeps(RxOf(tracker', waiting', applied'), bodies)
      <3>1. index > 0 BY <2>5, <1>j
      <3> QED BY <3>1, <2>1, <2>3, <2>4, <1>i, <1>j, ReceivedKeeps DEF rx
    <2>10. AllCarry(injector.delayed, bodies)' BY <2>1, <1>i DEF AllCarry
    <2>11. PlanFaults(plan)' BY <2>1, <1>i DEF PlanFaults
    <2>12. Derivable' <=> Derivable BY <2>1 DEF Derivable
    <2> QED BY <2>1, <2>5, <2>6, <2>10, <2>11, <2>12 DEF ReceiverInv
  <1>11. CASE AskSnapshot BY <1>1, <1>11 DEF AskSnapshot, venue
  <1>12. CASE SnapshotWaits BY <1>1, <1>12 DEF SnapshotWaits, venue
  <1>13. CASE SnapshotArrives BY <1>1, <1>13 DEF SnapshotArrives, venue
  <1>14. CASE UNCHANGED vars BY <1>1, <1>14 DEF vars, venue
  <1> QED BY <1>3, <1>4, <1>5, <1>6, <1>7, <1>8, <1>9, <1>10, <1>11, <1>12, <1>13, <1>14
          DEF Next

LEMMA ReceiverHoldsAtFirst == Init => FacilityInv /\ ReceiverInv
PROOF
  <1> SUFFICES ASSUME Init PROVE FacilityInv /\ ReceiverInv OBVIOUS
  <1>1. /\ facility = NewFacility /\ plan = <<>> /\ injector = NewInjector /\ index = 0
        /\ tracker = Fresh /\ waiting = {} /\ applied = <<>>
        BY DEF Init
  <1>2. FacilityInv BY <1>1, NewFacilityOk DEF FacilityInv
  <1>3. injector.delayed = <<>> BY <1>1 DEF NewInjector
  <1>4. AllCarry(injector.delayed, bodies)
    <2>1. Len(<<>>) = 0 /\ 1 .. 0 = {} BY SMT
    <2> QED BY <1>3, <2>1 DEF AllCarry
  <1>5. RxOf(tracker, waiting, applied) = Unheard BY <1>1 DEF RxOf, Unheard
  <1>6. PlanFaults(plan) BY <1>1 DEF PlanFaults
  <1>7. ~(index > 0) BY <1>1
  <1> QED BY <1>1, <1>2, <1>3, <1>4, <1>5, <1>6, <1>7 DEF ReceiverInv

\* What a receiver that keeps to the venue's messages has applied and holds.
LEMMA KeepsThePrefix ==
    ASSUME NEW bs \in Seq(Seq(Nat)), NEW t, NEW w, NEW a, Keeps(RxOf(t, w, a), bs)
    PROVE  /\ a = SubSeq(bs, 1, Min(t.missing \cup {t.expected}) - 1)
           /\ \A d \in w : d[2] = bs[d[1]]
PROOF
  <1> DEFINE rx == RxOf(t, w, a)
             book == rx.book
             missing == t.missing
             expected == t.expected
             here == Arrived(t)
             size == Len(bs)
             S == missing \cup {expected}
  <1>0. rx.tracker = t /\ book.waiting = w /\ book.applied = a BY DEF RxOf
  <1> HIDE DEF rx, book
  <1>1. InSession(t) /\ expected <= size + 1 /\ Held(book, bs, here)
        BY <1>0 DEF Keeps, rx, book
  <1>2. /\ expected \in Nat /\ expected > 0 /\ missing \in SUBSET Nat
        /\ \A m \in missing : 0 < m /\ m < expected
        BY <1>1 DEF InSession, Accounts
  <1>3. PICK n \in 0 .. size : Sorted(book, bs, here, n) /\ n + 1 \notin here
        BY <1>1 DEF Held
  <1>4. /\ book \in Shelves /\ Len(a) = n /\ \A i \in 1 .. n : a[i] = bs[i]
        /\ 1 .. n \in SUBSET here
        /\ w = {<<m, bs[m]>> : m \in here \ 1 .. n}
        BY <1>0, <1>3 DEF Sorted
  <1>5. a \in Seq(Seq(Nat)) BY <1>0, <1>4 DEF Shelves
  <1>6. size \in Nat /\ n \in Nat
    <2>1. size \in Nat OBVIOUS
    <2> HIDE DEF size
    <2> QED BY <2>1, SMT
  <1>7. \A m \in Nat : m \in here <=> 0 < m /\ m < expected /\ m \notin missing
        BY DEF Arrived
  <1> HIDE DEF here, missing, expected
  <1>8. \A i \in 1 .. n : i < expected /\ i \notin missing
    <2> TAKE i \in 1 .. n
    <2>1. i \in here /\ i \in Nat BY <1>4, <1>6, SMT
    <2> QED BY <2>1, <1>7
  <1>9. n + 1 \in S
    <2>1. n + 1 \in Nat /\ 0 < n + 1 BY <1>6, SMT
    <2>2. ~(n + 1 < expected) \/ n + 1 \in missing BY <2>1, <1>3, <1>7
    <2>3. n < expected
      <3>1. CASE n = 0 BY <3>1, <1>2
      <3>2. CASE n # 0
        <4>1. n \in 1 .. n BY <3>2, <1>6, SMT
        <4> QED BY <4>1, <1>8
      <3> QED BY <3>1, <3>2
    <2>4. ~(n + 1 < expected) => n + 1 = expected BY <2>3, <1>2, <1>6, SMT
    <2> QED BY <2>2, <2>4
  <1>10. \A x \in S : x \in Nat /\ n + 1 <= x
    <2> TAKE x \in S
    <2>1. x \in Nat /\ 0 < x BY <1>2
    <2>2. x \notin 1 .. n
      <3>1. CASE x \in missing BY <3>1, <1>8
      <3>2. CASE x = expected
        <4> SUFFICES ASSUME x \in 1 .. n PROVE FALSE OBVIOUS
        <4>1. x < expected BY <1>8
        <4> QED BY <4>1, <3>2, <1>2
      <3> QED BY <3>1, <3>2
    <2> QED BY <2>1, <2>2, <1>6, SMT
  <1>11. Min(S) = n + 1
    <2>1. Min(S) = CHOOSE x \in S : \A y \in S : x <= y BY DEF Min
    <2> HIDE DEF S
    <2>2. \A y \in S : n + 1 <= y BY <1>10
    <2> DEFINE m == CHOOSE x \in S : \A y \in S : x <= y
    <2>3. \E x \in S : \A y \in S : x <= y BY <1>9, <2>2
    <2>4. m \in S /\ \A y \in S : m <= y BY <2>3
    <2> HIDE DEF m
    <2>5. m <= n + 1 /\ n + 1 <= m /\ m \in Nat BY <2>4, <1>9, <1>10
    <2>6. m = n + 1 BY <2>5, <1>6, SMT
    <2> QED BY <2>1, <2>6 DEF m
  <1>12. a = SubSeq(bs, 1, n)
    <2> DEFINE b == SubSeq(bs, 1, n)
    <2>1. /\ b \in Seq(Seq(Nat)) /\ Len(b) = n
          /\ \A i \in 1 .. n : b[i] = bs[i]
      <3>1. /\ 1 \in 1 .. size + 1 /\ n \in 1 - 1 .. size
            /\ (IF 1 <= n THEN n - 1 + 1 ELSE 0) = n
            /\ \A i \in 1 .. n : 1 + i - 1 = i
            BY <1>6, SMT
      <3>2. \A m \in 1 .. Len(bs) + 1 : \A k \in m - 1 .. Len(bs) :
               /\ SubSeq(bs, m, k) \in Seq(Seq(Nat))
               /\ Len(SubSeq(bs, m, k)) = (IF m <= k THEN k - m + 1 ELSE 0)
               /\ \A i \in 1 .. k - m + 1 : SubSeq(bs, m, k)[i] = bs[m + i - 1]
            BY SubSeqProperties
      <3>3. /\ SubSeq(bs, 1, n) \in Seq(Seq(Nat))
            /\ Len(SubSeq(bs, 1, n)) = n - 1 + 1
            /\ \A i \in 1 .. n - 1 + 1 : SubSeq(bs, 1, n)[i] = bs[1 + i - 1]
            BY <3>1, <3>2
      <3>4. n - 1 + 1 = n BY <1>6, SMT
      <3> QED BY <3>1, <3>3, <3>4
    <2> HIDE DEF b
    <2>2. a = [i \in 1 .. n |-> a[i]] /\ b = [i \in 1 .. n |-> b[i]]
          BY <2>1, <1>4, <1>5
    <2>3. \A i \in 1 .. n : a[i] = b[i] BY <2>1, <1>4
    <2>4. a = b BY <2>2, <2>3
    <2> QED BY <2>4 DEF b
  <1>13. n + 1 - 1 = n BY <1>6
  <1>14. \A d \in w : d[2] = bs[d[1]] BY <1>4
  <1>15. Min(t.missing \cup {t.expected}) - 1 = n
         BY <1>11, <1>13 DEF S, missing, expected
  <1> QED BY <1>12, <1>14, <1>15, Zenon

\* Whatever a schedule of faults that leave positions and sessions alone does to
\* the line, in any retention, and however the receiver asks: its book holds the
\* venue's messages in order, each once and undamaged, up to the first one missing.
\* The generator's warm-up must spare the first packet, as its default of 4 does
\* (schedule.hpp): a receiver starts to account at the first packet it hears.
THEOREM FeedBookIsThePrefix == ASSUME Warmup > 0 PROVE Spec => []BookIsThePrefix
PROOF
  <1> DEFINE I == StreamInv /\ InjectorInv /\ PackInv /\ FacilityInv /\ ReceiverInv
  <1>1. Init => I
        BY StreamHoldsAtFirst, InjectorHoldsAtFirst, PackHoldsAtFirst, ReceiverHoldsAtFirst
  <1>2. I /\ [Next]_vars => I'
        BY StreamStep, InjectorStep, PackStep, FacilityStep, ReceiverStep
  <1>3. I => BookIsThePrefix
    <2> SUFFICES ASSUME I, Derivable, tracker.started
                 PROVE  /\ applied = SubSeq(bodies, 1,
                                            Min(tracker.missing \cup {tracker.expected}) - 1)
                        /\ \A d \in waiting : d[2] = bodies[d[1]]
        BY DEF BookIsThePrefix
    <2>1. index \in Nat /\ BodiesOk(bodies) BY DEF InjectorInv, PackInv
    <2>2. index # 0
      <3> SUFFICES ASSUME index = 0 PROVE FALSE OBVIOUS
      <3>1. RxOf(tracker, waiting, applied) = Unheard BY DEF ReceiverInv
      <3>2. RxOf(tracker, waiting, applied).tracker = tracker BY DEF RxOf
      <3>3. Unheard.tracker.started = FALSE BY DEF Unheard, Fresh
      <3> QED BY <3>1, <3>2, <3>3
    <2>3. Keeps(RxOf(tracker, waiting, applied), bodies) BY <2>1, <2>2 DEF ReceiverInv
    <2>4. bodies \in Seq(Seq(Nat)) BY <2>1 DEF BodiesOk
    <2> QED BY <2>3, <2>4, KeepsThePrefix
  <1> QED BY <1>1, <1>2, <1>3, PTL DEF Spec

-----------------------------------------------------------------------------
(* Walks over the packets that carry messages.                               *)

\* The walk over a list of packets for those that carry messages.
CarriedOf(base, seq) == FoldLeft(TakeIfCarrying, base, seq)

CarryStep(h, base, seq) ==
    h = [s \in SUBSET DOMAIN seq |->
           IF s = {} THEN base ELSE TakeIfCarrying(h[s \ {Max(s)}], seq[Max(s)])]

CarryWalks(v, A, base, n, seq) ==
    /\ v \in [0 .. n -> A] /\ v[0] = base /\ v[n] = CarriedOf(base, seq)
    /\ \A k \in 1 .. n : v[k] = TakeIfCarrying(v[k - 1], seq[k])

LEMMA CarryWalk ==
    ASSUME NEW A, NEW base \in A, NEW n \in Nat, NEW seq, DOMAIN seq = 1 .. n,
           \A a \in A, i \in 1 .. n : TakeIfCarrying(a, seq[i]) \in A
    PROVE  \E v : CarryWalks(v, A, base, n, seq)
PROOF
  <1> DEFINE B == {seq[k] : k \in 1 .. n}
             f == [p \in A \X B |-> TakeIfCarrying(p[1], p[2])]
             iter == CHOOSE h : CarryStep(h, base, seq)
             all == [k \in 1 .. n |-> seq[k]]
             r == CarriedOf(base, seq)
  <1>1. all \in [1 .. n -> B] /\ \A k \in 1 .. n : all[k] = seq[k] OBVIOUS
  <1>b. \A a \in A, b \in B : TakeIfCarrying(a, b) \in A OBVIOUS
  <1> HIDE DEF all, B
  <1>2. f \in [A \X B -> A] /\ \A a \in A, b \in B : f[<<a, b>>] = TakeIfCarrying(a, b)
    <2>1. \A p \in A \X B : TakeIfCarrying(p[1], p[2]) \in A BY <1>b
    <2> QED BY <2>1
  <1> HIDE DEF f
  <1>3. PICK h : FoldsInto(h, A, f, base, all, n) BY <1>1, <1>2, FoldExists
  <1>4. \A s \in SUBSET (1 .. n) : s # {} => Max(s) \in s /\ s \ {Max(s)} \in SUBSET (1 .. n)
        BY GreatestNumber
  <1>5. CarryStep(h, base, seq)
    <2>1. ASSUME NEW s \in SUBSET (1 .. n)
          PROVE  h[s] = IF s = {} THEN base ELSE TakeIfCarrying(h[s \ {Max(s)}], seq[Max(s)])
      <3>1. h \in [SUBSET (1 .. n) -> A]
            /\ h[s] = IF s = {} THEN base ELSE f[<<h[s \ {Max(s)}], all[Max(s)]>>]
            BY <1>3 DEF FoldsInto
      <3>2. CASE s # {}
        <4>1. /\ h[s \ {Max(s)}] \in A /\ all[Max(s)] \in B /\ all[Max(s)] = seq[Max(s)]
              BY <3>1, <3>2, <1>1, <1>4
        <4> QED BY <4>1, <3>1, <3>2, <1>2
      <3> QED BY <3>1, <3>2
    <2>2. h = [s \in SUBSET (1 .. n) |-> h[s]] BY <1>3 DEF FoldsInto
    <2> QED BY <2>1, <2>2 DEF CarryStep
  <1>6. CarryStep(iter, base, seq) BY <1>5, Zenon
  <1>7. r = iter[1 .. n] BY Zenon DEF CarryStep, FoldLeft, MapThenFoldSet, CarriedOf
  <1> HIDE DEF iter, r
  <1>8. \A s \in SUBSET (1 .. n) :
           iter[s] = IF s = {} THEN base ELSE TakeIfCarrying(iter[s \ {Max(s)}], seq[Max(s)])
    <2>1. iter = [s \in SUBSET (1 .. n) |->
                    IF s = {} THEN base ELSE TakeIfCarrying(iter[s \ {Max(s)}], seq[Max(s)])]
          BY <1>6, Zenon DEF CarryStep
    <2> QED BY <2>1
  <1>9. iter[1 .. 0] = base
    <2>1. 1 .. 0 = {} /\ 1 .. 0 \in SUBSET (1 .. n) BY SMT
    <2> QED BY <2>1, <1>8
  <1>10. \A k \in 1 .. n : iter[1 .. k] = TakeIfCarrying(iter[1 .. k - 1], seq[k])
    <2> TAKE k \in 1 .. n
    <2>1. /\ 1 .. k \in SUBSET (1 .. n) /\ 1 .. k # {} /\ Max(1 .. k) = k
          /\ (1 .. k) \ {k} = 1 .. k - 1
          BY FirstIndices
    <2> QED BY <2>1, <1>8
  <1>11. \A k \in 0 .. n : iter[1 .. k] \in A
    <2>1. \A k \in 1 .. n : iter[1 .. k - 1] \in A => iter[1 .. k] \in A BY <1>10
    <2> QED BY <2>1, <1>9, FirstToLast
  <1> DEFINE v == [k \in 0 .. n |-> iter[1 .. k]]
  <1>12. v \in [0 .. n -> A] BY <1>11
  <1>13. v[0] = base /\ v[n] = r
    <2>1. 0 \in 0 .. n /\ n \in 0 .. n BY SMT
    <2> QED BY <2>1, <1>7, <1>9
  <1>14. \A k \in 1 .. n : v[k] = TakeIfCarrying(v[k - 1], seq[k])
    <2>1. \A k \in 1 .. n : k \in 0 .. n /\ k - 1 \in 0 .. n BY SMT
    <2> QED BY <2>1, <1>10
  <1> HIDE DEF v
  <1>15. CarryWalks(v, A, base, n, seq) BY <1>12, <1>13, <1>14 DEF CarryWalks, r
  <1> QED BY <1>15

\* The walk of serve() over the ranges it has served.
ServedOf(base, seq) == FoldLeft(ServeMore, base, seq)

MoreStep(h, base, seq) ==
    h = [s \in SUBSET DOMAIN seq |->
           IF s = {} THEN base ELSE ServeMore(h[s \ {Max(s)}], seq[Max(s)])]

MoreWalks(v, A, base, n, seq) ==
    /\ v \in [0 .. n -> A] /\ v[0] = base /\ v[n] = ServedOf(base, seq)
    /\ \A k \in 1 .. n : v[k] = ServeMore(v[k - 1], seq[k])

LEMMA MoreWalk ==
    ASSUME NEW A, NEW base \in A, NEW n \in Nat, NEW seq, DOMAIN seq = 1 .. n,
           \A a \in A, i \in 1 .. n : ServeMore(a, seq[i]) \in A
    PROVE  \E v : MoreWalks(v, A, base, n, seq)
PROOF
  <1> DEFINE B == {seq[k] : k \in 1 .. n}
             f == [p \in A \X B |-> ServeMore(p[1], p[2])]
             iter == CHOOSE h : MoreStep(h, base, seq)
             all == [k \in 1 .. n |-> seq[k]]
             r == ServedOf(base, seq)
  <1>1. all \in [1 .. n -> B] /\ \A k \in 1 .. n : all[k] = seq[k] OBVIOUS
  <1>b. \A a \in A, b \in B : ServeMore(a, b) \in A OBVIOUS
  <1> HIDE DEF all, B
  <1>2. f \in [A \X B -> A] /\ \A a \in A, b \in B : f[<<a, b>>] = ServeMore(a, b)
    <2>1. \A p \in A \X B : ServeMore(p[1], p[2]) \in A BY <1>b
    <2> QED BY <2>1
  <1> HIDE DEF f
  <1>3. PICK h : FoldsInto(h, A, f, base, all, n) BY <1>1, <1>2, FoldExists
  <1>4. \A s \in SUBSET (1 .. n) : s # {} => Max(s) \in s /\ s \ {Max(s)} \in SUBSET (1 .. n)
        BY GreatestNumber
  <1>5. MoreStep(h, base, seq)
    <2>1. ASSUME NEW s \in SUBSET (1 .. n)
          PROVE  h[s] = IF s = {} THEN base ELSE ServeMore(h[s \ {Max(s)}], seq[Max(s)])
      <3>1. h \in [SUBSET (1 .. n) -> A]
            /\ h[s] = IF s = {} THEN base ELSE f[<<h[s \ {Max(s)}], all[Max(s)]>>]
            BY <1>3 DEF FoldsInto
      <3>2. CASE s # {}
        <4>1. /\ h[s \ {Max(s)}] \in A /\ all[Max(s)] \in B /\ all[Max(s)] = seq[Max(s)]
              BY <3>1, <3>2, <1>1, <1>4
        <4> QED BY <4>1, <3>1, <3>2, <1>2
      <3> QED BY <3>1, <3>2
    <2>2. h = [s \in SUBSET (1 .. n) |-> h[s]] BY <1>3 DEF FoldsInto
    <2> QED BY <2>1, <2>2 DEF MoreStep
  <1>6. MoreStep(iter, base, seq) BY <1>5, Zenon
  <1>7. r = iter[1 .. n] BY Zenon DEF MoreStep, FoldLeft, MapThenFoldSet, ServedOf
  <1> HIDE DEF iter, r
  <1>8. \A s \in SUBSET (1 .. n) :
           iter[s] = IF s = {} THEN base ELSE ServeMore(iter[s \ {Max(s)}], seq[Max(s)])
    <2>1. iter = [s \in SUBSET (1 .. n) |->
                    IF s = {} THEN base ELSE ServeMore(iter[s \ {Max(s)}], seq[Max(s)])]
          BY <1>6, Zenon DEF MoreStep
    <2> QED BY <2>1
  <1>9. iter[1 .. 0] = base
    <2>1. 1 .. 0 = {} /\ 1 .. 0 \in SUBSET (1 .. n) BY SMT
    <2> QED BY <2>1, <1>8
  <1>10. \A k \in 1 .. n : iter[1 .. k] = ServeMore(iter[1 .. k - 1], seq[k])
    <2> TAKE k \in 1 .. n
    <2>1. /\ 1 .. k \in SUBSET (1 .. n) /\ 1 .. k # {} /\ Max(1 .. k) = k
          /\ (1 .. k) \ {k} = 1 .. k - 1
          BY FirstIndices
    <2> QED BY <2>1, <1>8
  <1>11. \A k \in 0 .. n : iter[1 .. k] \in A
    <2>1. \A k \in 1 .. n : iter[1 .. k - 1] \in A => iter[1 .. k] \in A BY <1>10
    <2> QED BY <2>1, <1>9, FirstToLast
  <1> DEFINE v == [k \in 0 .. n |-> iter[1 .. k]]
  <1>12. v \in [0 .. n -> A] BY <1>11
  <1>13. v[0] = base /\ v[n] = r
    <2>1. 0 \in 0 .. n /\ n \in 0 .. n BY SMT
    <2> QED BY <2>1, <1>7, <1>9
  <1>14. \A k \in 1 .. n : v[k] = ServeMore(v[k - 1], seq[k])
    <2>1. \A k \in 1 .. n : k \in 0 .. n /\ k - 1 \in 0 .. n BY SMT
    <2> QED BY <2>1, <1>10
  <1> HIDE DEF v
  <1>15. MoreWalks(v, A, base, n, seq) BY <1>12, <1>13, <1>14 DEF MoreWalks, r
  <1> QED BY <1>15

-----------------------------------------------------------------------------
(* The packets that carry messages, and those of them a request gets.        *)

\* serve(): when the packets wanted are those from a to b, they are the answer.
LEMMA WantedIsASlice ==
    ASSUME NEW wanted, NEW n \in Nat, NEW seq, DOMAIN seq = 1 .. n,
           NEW a \in 1 .. n + 1, NEW b \in 0 .. n,
           \A i \in 1 .. n : Overlaps(Carried(seq[i]), wanted) <=> a <= i /\ i <= b
    PROVE  Wanted(wanted, seq) = Slice(seq, a, b)
PROOF
  <1> DEFINE C == {seq[i] : i \in 1 .. n}
             A == Seq(C)
             none == <<>>
             m(k) == IF k < b THEN k ELSE b
  <1>1. \A i \in 1 .. n : seq[i] \in C OBVIOUS
  <1>2. Wanted(wanted, seq) = Taken(wanted, none, seq) BY DEF Wanted, Taken
  <1> HIDE DEF C
  <1>3. none \in A OBVIOUS
  <1>4. \A x \in A, i \in 1 .. n : TakeIfWanted(wanted, x, seq[i]) \in A
    <2> TAKE x \in A, i \in 1 .. n
    <2> DEFINE p == seq[i]
    <2>1. p \in C BY <1>1
    <2>2. TakeIfWanted(wanted, x, p) = x \/ TakeIfWanted(wanted, x, p) = Append(x, p)
          BY DEF TakeIfWanted
    <2> HIDE DEF p
    <2>3. Append(x, p) \in A BY <2>1
    <2>4. TakeIfWanted(wanted, x, p) \in A BY <2>2, <2>3
    <2> QED BY <2>4 DEF p
  <1> HIDE DEF A, none
  <1>5. \E v : WantedWalks(v, A, wanted, none, n, seq) BY <1>3, <1>4, WantedWalk
  <1>6. PICK v : /\ v[0] = none /\ v[n] = Taken(wanted, none, seq)
                 /\ \A k \in 1 .. n : v[k] = TakeIfWanted(wanted, v[k - 1], seq[k])
        BY <1>5 DEF WantedWalks
  <1>7. \A k \in Nat : m(k) \in Int /\ (k < a => m(k) < a) BY SMT
  <1>8. \A k \in Nat : k < a => Slice(seq, a, m(k)) = <<>> BY <1>7, NoSlice
  <1> DEFINE S == {k \in Nat : k <= n => v[k] = Slice(seq, a, m(k))}
  <1>9. 0 \in S
    <2>1. 0 \in Nat /\ 0 < a BY SMT
    <2> QED BY <2>1, <1>6, <1>8 DEF none
  <1>10. \A k \in S : k + 1 \in S
    <2> SUFFICES ASSUME NEW k \in Nat, k <= n => v[k] = Slice(seq, a, m(k)), k + 1 <= n
                 PROVE  v[k + 1] = Slice(seq, a, m(k + 1))
        OBVIOUS
    <2> DEFINE j == k + 1
    <2>1. k <= n /\ j \in 1 .. n /\ j - 1 = k BY SMT
    <2>2. v[j] = TakeIfWanted(wanted, Slice(seq, a, m(k)), seq[j]) BY <2>1, <1>6
    <2>3. CASE a <= j /\ j <= b
      <3>1. m(k) = j - 1 /\ m(j) = j /\ a \in 1 .. n /\ j \in a .. n BY <2>1, <2>3, SMT
      <3>2. Append(Slice(seq, a, j - 1), seq[j]) = Slice(seq, a, j)
        <4> HIDE DEF j
        <4> QED BY <3>1, SliceGrows
      <3>3. v[j] = Append(Slice(seq, a, m(k)), seq[j]) BY <2>1, <2>2, <2>3 DEF TakeIfWanted
      <3> QED BY <3>1, <3>2, <3>3
    <2>4. CASE ~(a <= j /\ j <= b)
      <3>1. v[j] = Slice(seq, a, m(k)) BY <2>1, <2>2, <2>4 DEF TakeIfWanted
      <3>2. CASE j < a
        <4>1. k < a /\ j \in Nat BY <3>2, SMT
        <4>2. Slice(seq, a, m(k)) = <<>> /\ Slice(seq, a, m(j)) = <<>>
              BY <3>2, <4>1, <1>8
        <4> QED BY <3>1, <4>2
      <3>3. CASE ~(j < a)
        <4>1. m(k) = m(j) BY <2>4, <3>3, SMT
        <4> QED BY <3>1, <4>1
      <3> QED BY <3>2, <3>3
    <2> QED BY <2>3, <2>4
  <1>11. S = Nat
    <2>1. S \in SUBSET Nat OBVIOUS
    <2> HIDE DEF S
    <2> QED BY <2>1, <1>9, <1>10, NumbersByInduction
  <1>12. v[n] = Slice(seq, a, m(n)) BY <1>11
  <1>13. m(n) = b BY SMT
  <1> QED BY <1>2, <1>6, <1>12, <1>13

\* Packets that carry messages, each from where the one before it ended.
ChainOf(c, n) ==
    /\ n \in Nat /\ DOMAIN c = 1 .. n
    /\ \A i \in 1 .. n : c[i].sequence \in Nat /\ c[i].count \in Nat /\ c[i].count > 0
    /\ \A i \in 1 .. n - 1 : c[i + 1].sequence = c[i].sequence + c[i].count

LEMMA ChainIsOrdered ==
    ASSUME NEW n, NEW c, ChainOf(c, n)
    PROVE  \A i, j \in 1 .. n : i < j => c[i].sequence + c[i].count <= c[j].sequence
PROOF
  <1> DEFINE start(i) == c[i].sequence
             size(i) == c[i].count
             S == {j \in Nat : j \in 1 .. n =>
                      \A i \in 1 .. n : i < j => start(i) + size(i) <= start(j)}
  <1>1. /\ n \in Nat
        /\ \A i \in 1 .. n : start(i) \in Nat /\ size(i) \in Nat /\ size(i) > 0
        /\ \A i \in 1 .. n - 1 : start(i + 1) = start(i) + size(i)
        BY DEF ChainOf
  <1> HIDE DEF start, size
  <1>2. 0 \in S BY SMT
  <1>3. \A j \in S : j + 1 \in S
    <2> SUFFICES ASSUME NEW j \in Nat,
                        j \in 1 .. n => \A i \in 1 .. n : i < j => start(i) + size(i) <= start(j),
                        j + 1 \in 1 .. n, NEW i \in 1 .. n, i < j + 1
                 PROVE  start(i) + size(i) <= start(j + 1)
        OBVIOUS
    <2>1. j \in 1 .. n /\ j \in 1 .. n - 1 BY <1>1, SMT
    <2>2. start(j + 1) = start(j) + size(j) BY <2>1, <1>1
    <2>3. start(i) \in Nat /\ size(i) \in Nat /\ start(j) \in Nat /\ size(j) \in Nat
          BY <2>1, <1>1
    <2>4. CASE i = j BY <2>2, <2>3, <2>4, SMT
    <2>5. CASE i # j
      <3>1. i < j BY <2>5, <1>1, SMT
      <3>2. start(i) + size(i) <= start(j) BY <3>1, <2>1
      <3> QED BY <3>2, <2>2, <2>3, SMT
    <2> QED BY <2>4, <2>5
  <1>4. S = Nat
    <2>1. S \in SUBSET Nat OBVIOUS
    <2> HIDE DEF S
    <2> QED BY <2>1, <1>2, <1>3, NumbersByInduction
  <1>5. \A j \in 1 .. n : j \in S BY <1>1, <1>4, SMT
  <1>6. \A i, j \in 1 .. n : i < j => start(i) + size(i) <= start(j) BY <1>5
  <1> QED BY <1>6 DEF start, size

\* The packets of a chain that start below a number are the first of it, and
\* those that end above a number the last.
LEMMA StartsBelow ==
    ASSUME NEW n, NEW c, ChainOf(c, n), NEW high \in Int
    PROVE  \E b \in 0 .. n : \A i \in 1 .. n : c[i].sequence < high <=> i <= b
PROOF
  <1> DEFINE start(i) == c[i].sequence
             size(i) == c[i].count
             T == {i \in 1 .. n : start(i) < high}
  <1>1. /\ n \in Nat
        /\ \A i \in 1 .. n : start(i) \in Nat /\ size(i) \in Nat /\ size(i) > 0
        /\ \A i, j \in 1 .. n : i < j => start(i) + size(i) <= start(j)
        BY ChainIsOrdered DEF ChainOf
  <1> HIDE DEF start, size
  <1>2. CASE T = {}
    <2>1. 0 \in 0 .. n /\ \A i \in 1 .. n : ~(i <= 0) BY <1>1, SMT
    <2>2. \A i \in 1 .. n : ~(start(i) < high) BY <1>2
    <2>3. \A i \in 1 .. n : start(i) < high <=> i <= 0 BY <2>1, <2>2
    <2> QED BY <2>1, <2>3 DEF start
  <1>3. CASE T # {}
    <2>1. Max(T) \in T /\ \A k \in T : k <= Max(T) BY <1>1, <1>3, GreatestNumber
    <2> DEFINE b == Max(T)
    <2>2. b \in 1 .. n /\ b \in 0 .. n /\ start(b) < high /\ \A k \in T : k <= b
      <3>1. b \in 1 .. n /\ start(b) < high BY <2>1
      <3> HIDE DEF b
      <3>2. b \in 0 .. n BY <3>1, <1>1, SMT
      <3> QED BY <3>1, <3>2, <2>1 DEF b
    <2> HIDE DEF b
    <2>3. \A i \in 1 .. n : i <= b => start(i) < high
      <3> SUFFICES ASSUME NEW i \in 1 .. n, i <= b, i # b PROVE start(i) < high
          BY <2>2
      <3>1. i < b BY <2>2, <1>1, SMT
      <3>2. start(i) + size(i) <= start(b) BY <3>1, <2>2, <1>1
      <3>3. start(i) \in Nat /\ size(i) \in Nat /\ start(b) \in Nat BY <2>2, <1>1
      <3> QED BY <3>2, <3>3, <2>2, SMT
    <2>4. \A i \in 1 .. n : start(i) < high => i <= b BY <2>2
    <2>5. \A i \in 1 .. n : start(i) < high <=> i <= b BY <2>3, <2>4
    <2> QED BY <2>2, <2>5 DEF start
  <1> QED BY <1>2, <1>3

LEMMA EndsAbove ==
    ASSUME NEW n, NEW c, ChainOf(c, n), NEW low \in Int
    PROVE  \E a \in 1 .. n + 1 : \A i \in 1 .. n : low < c[i].sequence + c[i].count <=> a <= i
PROOF
  <1> DEFINE start(i) == c[i].sequence
             end(i) == c[i].sequence + c[i].count
             T == {i \in 1 .. n : low < end(i)}
  <1>1. /\ n \in Nat
        /\ \A i \in 1 .. n : start(i) \in Nat /\ end(i) \in Nat /\ start(i) < end(i)
        /\ \A i, j \in 1 .. n : i < j => end(i) <= start(j)
    <2>1. \A x, y \in Nat : y > 0 => x + y \in Nat /\ x < x + y BY SMT
    <2>2. \A i \in 1 .. n : c[i].sequence \in Nat /\ c[i].count \in Nat /\ c[i].count > 0
          BY DEF ChainOf
    <2> QED BY <2>1, <2>2, ChainIsOrdered DEF ChainOf
  <1> HIDE DEF start, end
  <1>2. CASE T = {}
    <2>1. n + 1 \in 1 .. n + 1 /\ \A i \in 1 .. n : ~(n + 1 <= i) BY <1>1, SMT
    <2>2. \A i \in 1 .. n : ~(low < end(i)) BY <1>2
    <2>3. \A i \in 1 .. n : low < end(i) <=> n + 1 <= i BY <2>1, <2>2
    <2> QED BY <2>1, <2>3 DEF end
  <1>3. CASE T # {}
    <2>1. T \in SUBSET Nat BY SMT
    <2>2. PICK a \in T : \A k \in T : a <= k BY <2>1, <1>3, LeastNumber
    <2>3. a \in 1 .. n /\ a \in 1 .. n + 1 /\ low < end(a)
      <3>1. a \in 1 .. n /\ low < end(a) OBVIOUS
      <3>2. a \in 1 .. n + 1 BY <3>1, <1>1, SMT
      <3> QED BY <3>1, <3>2
    <2>4. \A i \in 1 .. n : a <= i => low < end(i)
      <3> SUFFICES ASSUME NEW i \in 1 .. n, a <= i, i # a PROVE low < end(i)
          BY <2>3
      <3>1. a < i BY <2>3, <1>1, SMT
      <3>2. end(a) <= start(i) BY <3>1, <2>3, <1>1
      <3>3. start(i) \in Nat /\ end(i) \in Nat /\ start(i) < end(i) /\ end(a) \in Nat
            BY <2>3, <1>1
      <3> QED BY <3>2, <3>3, <2>3, SMT
    <2>5. \A i \in 1 .. n : low < end(i) => a <= i BY <2>2
    <2>6. \A i \in 1 .. n : low < end(i) <=> a <= i BY <2>4, <2>5
    <2> QED BY <2>3, <2>6 DEF end
  <1> QED BY <1>2, <1>3

\* The packets from a to b are those that carry a number from low on, below high.
Bounds(c, n, low, high, a, b) ==
    /\ a \in 1 .. n + 1 /\ b \in 0 .. n /\ a <= b + 1
    /\ \A i \in 1 .. n : c[i].sequence < high <=> i <= b
    /\ \A i \in 1 .. n : low < c[i].sequence + c[i].count <=> a <= i

LEMMA BoundsExist ==
    ASSUME NEW n, NEW c, ChainOf(c, n), NEW low \in Int, NEW high \in Int, low < high
    PROVE  \E a, b : Bounds(c, n, low, high, a, b)
PROOF
  <1>1. PICK b \in 0 .. n : \A i \in 1 .. n : c[i].sequence < high <=> i <= b BY StartsBelow
  <1>2. PICK a \in 1 .. n + 1 :
           \A i \in 1 .. n : low < c[i].sequence + c[i].count <=> a <= i
        BY EndsAbove
  <1>3. n \in Nat BY DEF ChainOf
  <1>4. a <= b + 1
    <2>1. CASE b = n BY <2>1, <1>3, SMT
    <2>2. CASE b # n
      <3> DEFINE i == b + 1
                 start == c[i].sequence
                 size == c[i].count
      <3>1. i \in 1 .. n /\ ~(i <= b) BY <2>2, <1>3, SMT
      <3>2. start \in Nat /\ size \in Nat /\ size > 0 BY <3>1 DEF ChainOf
      <3>3. ~(start < high) BY <3>1, <1>1
      <3>4. low < start + size
        <4> HIDE DEF start, size
        <4> QED BY <3>2, <3>3, SMT
      <3>5. a <= i BY <3>1, <3>4, <1>2
      <3> QED BY <3>5
    <2> QED BY <2>1, <2>2
  <1>5. Bounds(c, n, low, high, a, b) BY <1>1, <1>2, <1>4 DEF Bounds
  <1> QED BY <1>5

LEMMA BoundsOverlap ==
    ASSUME NEW n, NEW c, ChainOf(c, n), NEW low \in Int, NEW high \in Int, low < high,
           NEW a, NEW b, Bounds(c, n, low, high, a, b)
    PROVE  /\ \A i \in 1 .. n :
                 Overlaps(Carried(c[i]), SequenceRange(low, high)) <=> a <= i /\ i <= b
           /\ Wanted(SequenceRange(low, high), c) = Slice(c, a, b)
PROOF
  <1> DEFINE wanted == SequenceRange(low, high)
  <1>1. \A i \in 1 .. n : Overlaps(Carried(c[i]), wanted) <=> a <= i /\ i <= b
    <2> TAKE i \in 1 .. n
    <2> DEFINE start == c[i].sequence
               size == c[i].count
    <2>1. start \in Nat /\ size \in Nat /\ size > 0 BY DEF ChainOf
    <2>2. start < high <=> i <= b BY DEF Bounds
    <2>3. low < start + size <=> a <= i BY DEF Bounds
    <2>4. Carried(c[i]) = [first |-> start, end |-> start + size]
          BY DEF Carried, SequenceRange
    <2> HIDE DEF start, size
    <2>5. Overlaps(Carried(c[i]), wanted) <=> start < high /\ low < start + size
          BY <2>1, <2>4, SMT DEF Overlaps, Empty, SequenceRange
    <2> QED BY <2>2, <2>3, <2>5
  <1>2. n \in Nat /\ DOMAIN c = 1 .. n /\ a \in 1 .. n + 1 /\ b \in 0 .. n
        BY DEF ChainOf, Bounds
  <1> HIDE DEF wanted
  <1>3. Wanted(wanted, c) = Slice(c, a, b) BY <1>1, <1>2, WantedIsASlice
  <1> QED BY <1>1, <1>3 DEF wanted

\* What is wanted and carried is carried from a to b without a hole.
LEMMA BoundsCover ==
    ASSUME NEW n, NEW c, ChainOf(c, n), NEW low \in Int, NEW high \in Int, low < high,
           NEW a, NEW b, Bounds(c, n, low, high, a, b),
           n > 0, c[1].sequence <= low, low < c[n].sequence + c[n].count
    PROVE  /\ a \in 1 .. n /\ b \in a .. n
           /\ c[a].sequence <= low /\ low < c[a].sequence + c[a].count
           /\ \A i \in a .. b : c[i].sequence < high
           /\ b = n \/ high <= c[b].sequence + c[b].count
PROOF
  <1> DEFINE start(i) == c[i].sequence
             end(i) == c[i].sequence + c[i].count
  <1>1. /\ n \in Nat /\ a \in 1 .. n + 1 /\ b \in 0 .. n
        /\ \A i \in 1 .. n : start(i) < high <=> i <= b
        /\ \A i \in 1 .. n : low < end(i) <=> a <= i
        /\ start(1) <= low /\ low < end(n)
        BY DEF ChainOf, Bounds
  <1>2. /\ \A i \in 1 .. n : start(i) \in Nat /\ end(i) \in Nat
        /\ \A i \in 1 .. n - 1 : start(i + 1) = end(i)
    <2>1. \A x, y \in Nat : x + y \in Nat BY SMT
    <2>2. \A i \in 1 .. n : c[i].sequence \in Nat /\ c[i].count \in Nat BY DEF ChainOf
    <2> QED BY <2>1, <2>2 DEF ChainOf
  <1> HIDE DEF start, end
  <1>3. n \in 1 .. n /\ 1 \in 1 .. n BY <1>1, SMT
  <1>4. a \in 1 .. n
    <2>1. a <= n BY <1>1, <1>3
    <2> QED BY <2>1, <1>1, SMT
  <1>5. start(a) <= low
    <2>1. CASE a = 1 BY <2>1, <1>1
    <2>2. CASE a # 1
      <3> DEFINE i == a - 1
      <3>1. i \in 1 .. n /\ i \in 1 .. n - 1 /\ i + 1 = a /\ ~(a <= i)
            BY <2>2, <1>1, <1>4, SMT
      <3> HIDE DEF i
      <3>2. ~(low < end(i)) /\ start(a) = end(i) /\ end(i) \in Nat BY <3>1, <1>1, <1>2
      <3> QED BY <3>2, SMT
    <2> QED BY <2>1, <2>2
  <1>6. a <= b
    <2>1. start(a) \in Nat BY <1>2, <1>4
    <2>2. start(a) < high BY <2>1, <1>5, SMT
    <2> QED BY <2>2, <1>1, <1>4
  <1>7. b \in a .. n BY <1>1, <1>4, <1>6, SMT
  <1>8. low < end(a)
    <2>1. a <= a BY <1>4, SMT
    <2> QED BY <2>1, <1>1, <1>4
  <1>9. \A i \in a .. b : start(i) < high
    <2>1. \A i \in a .. b : i \in 1 .. n /\ i <= b BY <1>1, <1>4, SMT
    <2> QED BY <2>1, <1>1
  <1>10. b = n \/ high <= end(b)
    <2> SUFFICES ASSUME b # n PROVE high <= end(b) OBVIOUS
    <2> DEFINE i == b + 1
    <2>1. i \in 1 .. n /\ ~(i <= b) /\ b \in 1 .. n - 1 /\ b \in 1 .. n
          BY <1>1, <1>4, <1>7, SMT
    <2>2. ~(start(i) < high) BY <2>1, <1>1
    <2>3. start(i) = end(b) /\ end(b) \in Nat BY <2>1, <1>2
    <2> QED BY <2>2, <2>3, SMT
  <1> QED BY <1>4, <1>5, <1>7, <1>8, <1>9, <1>10 DEF start, end

\* The index of the verify tool: a chain is sorted as it is.
LEMMA ChainIsSorted ==
    ASSUME NEW n, NEW c, ChainOf(c, n), c \in [1 .. n -> {c[i] : i \in 1 .. n}]
    PROVE  BySequence(c) = c
PROOF
  <1> DEFINE C == {c[i] : i \in 1 .. n}
             start(p) == p.sequence
             sorted == BySequence(c)
  <1>1. n \in Nat /\ DOMAIN c = 1 .. n BY DEF ChainOf
  <1>2. \A i, j \in 1 .. n : i < j => start(c[i]) \in Nat /\ start(c[j]) \in Nat
                                       /\ start(c[i]) < start(c[j])
    <2> SUFFICES ASSUME NEW i \in 1 .. n, NEW j \in 1 .. n, i < j
                 PROVE  /\ start(c[i]) \in Nat /\ start(c[j]) \in Nat
                        /\ start(c[i]) < start(c[j])
        OBVIOUS
    <2> DEFINE x == c[i].sequence
               y == c[i].count
               z == c[j].sequence
    <2>1. x \in Nat /\ y \in Nat /\ y > 0 /\ z \in Nat BY DEF ChainOf
    <2>2. x + y <= z BY ChainIsOrdered
    <2>3. x < z
      <3> HIDE DEF x, y, z
      <3> QED BY <2>1, <2>2, SMT
    <2> QED BY <2>1, <2>3
  <1>3. Sorts(c, c) BY <1>1, <1>2 DEF Sorts
  <1>4. sorted \in [1 .. n -> C] /\ Sorts(sorted, c)
    <2>1. \E s \in [1 .. n -> C] : Sorts(s, c) BY <1>3
    <2>2. sorted = CHOOSE s \in [1 .. n -> C] : Sorts(s, c) BY <1>1 DEF BySequence
    <2> HIDE DEF sorted, C
    <2> QED BY <2>1, <2>2, Zenon
  <1> HIDE DEF sorted
  <1>5. /\ \A i \in 1 .. n : \E k \in 1 .. n : sorted[k] = c[i]
        /\ \A k, m \in 1 .. n : k < m => start(sorted[k]) < start(sorted[m])
        /\ \A k \in 1 .. n : \E i \in 1 .. n : sorted[k] = c[i]
        BY <1>1, <1>4 DEF Sorts
  <1> HIDE DEF start
  <1>6. ASSUME NEW k \in 1 .. n, \A j \in 1 .. n : j < k => sorted[j] = c[j]
        PROVE  sorted[k] = c[k]
    <2>1. PICK m \in 1 .. n : sorted[k] = c[m] BY <1>5
    <2>2. ~(m < k)
      <3> SUFFICES ASSUME m < k PROVE FALSE OBVIOUS
      <3>1. sorted[m] = c[m] /\ start(sorted[m]) < start(sorted[k]) BY <1>5, <1>6
      <3>2. start(c[m]) < start(c[m]) /\ start(c[m]) \in Nat BY <3>1, <2>1, <1>2
      <3> QED BY <3>2, SMT
    <2>3. ~(k < m)
      <3> SUFFICES ASSUME k < m PROVE FALSE OBVIOUS
      <3>1. PICK j \in 1 .. n : sorted[j] = c[k] BY <1>5
      <3>2. start(c[k]) < start(c[m]) /\ start(c[k]) \in Nat /\ start(c[m]) \in Nat BY <1>2
      <3>3. CASE j < k
        <4>1. c[j] = c[k] /\ start(c[j]) < start(c[k]) BY <3>1, <3>3, <1>2, <1>6
        <4>2. start(c[k]) < start(c[k]) BY <4>1
        <4> QED BY <4>2, <3>2, SMT
      <3>4. CASE j = k
        <4>1. start(c[k]) = start(c[m]) BY <3>1, <3>4, <2>1
        <4> QED BY <4>1, <3>2, SMT
      <3>5. CASE k < j
        <4>1. start(sorted[k]) < start(sorted[j]) BY <3>5, <1>5
        <4>2. start(c[m]) < start(c[k]) BY <4>1, <3>1, <2>1
        <4> QED BY <4>2, <3>2, SMT
      <3>6. j < k \/ j = k \/ k < j BY <1>1, SMT
      <3> QED BY <3>3, <3>4, <3>5, <3>6
    <2>4. m = k BY <2>2, <2>3, <1>1, SMT
    <2> QED BY <2>1, <2>4
  <1>7. \A k \in 1 .. n : sorted[k] = c[k]
    <2> DEFINE W == {k \in 1 .. n : sorted[k] # c[k]}
    <2> SUFFICES ASSUME W # {} PROVE FALSE OBVIOUS
    <2>1. W \in SUBSET Nat BY <1>1, SMT
    <2>2. PICK k \in W : \A j \in W : k <= j BY <2>1, LeastNumber
    <2>3. \A j \in 1 .. n : j < k => sorted[j] = c[j]
      <3> SUFFICES ASSUME NEW j \in 1 .. n, j < k, j \in W PROVE FALSE OBVIOUS
      <3>1. k <= j BY <2>2
      <3> QED BY <3>1, <2>1, SMT
    <2> QED BY <2>3, <1>6
  <1>8. sorted \in [1 .. n -> C] /\ c \in [1 .. n -> C] BY <1>4
  <1> HIDE DEF C
  <1>9. sorted = [k \in 1 .. n |-> sorted[k]] /\ c = [k \in 1 .. n |-> c[k]]
    <2> HIDE DEF C
    <2> QED BY <1>8
  <1>10. sorted = c BY <1>7, <1>9, Zenon
  <1> QED BY <1>10 DEF sorted

\* The packets that carry messages, when the stream gets one more.
LEMMA CarryingGrows ==
    ASSUME NEW s \in Seq(Datagrams), NEW packet \in Datagrams
    PROVE  /\ Carrying(s) \in Seq(Datagrams)
           /\ Carrying(Append(s, packet)) = TakeIfCarrying(Carrying(s), packet)
PROOF
  <1> DEFINE A == Seq(Datagrams)
             n == Len(s)
             more == Append(s, packet)
             none == <<>>
  <1>1. /\ n \in Nat /\ DOMAIN s = 1 .. n /\ \A i \in 1 .. n : s[i] \in Datagrams OBVIOUS
  <1>2. /\ DOMAIN more = 1 .. n + 1 /\ more[n + 1] = packet
        /\ \A i \in 1 .. n : more[i] = s[i]
        BY <1>1
  <1>f. Carrying(s) = CarriedOf(none, s) /\ Carrying(more) = CarriedOf(none, more)
        BY DEF Carrying, CarriedOf
  <1> HIDE DEF n, more
  <1>3. \A i \in 1 .. n + 1 : more[i] \in Datagrams
    <2>1. \A i \in 1 .. n + 1 : i = n + 1 \/ i \in 1 .. n BY <1>1, SMT
    <2> QED BY <2>1, <1>1, <1>2
  <1>4. \A taken \in A, p \in Datagrams : TakeIfCarrying(taken, p) \in A
    <2> TAKE taken \in A, p \in Datagrams
    <2>1. Append(taken, p) \in A OBVIOUS
    <2> QED BY <2>1 DEF TakeIfCarrying
  <1>5. none \in A OBVIOUS
  <1> HIDE DEF A, none
  <1>6. \E v : CarryWalks(v, A, none, n, s)
    <2>1. \A a \in A, i \in 1 .. n : TakeIfCarrying(a, s[i]) \in A BY <1>1, <1>4
    <2> QED BY <2>1, <1>1, <1>5, CarryWalk
  <1>7. \E u : CarryWalks(u, A, none, n + 1, more)
    <2>1. \A a \in A, i \in 1 .. n + 1 : TakeIfCarrying(a, more[i]) \in A BY <1>3, <1>4
    <2>2. n + 1 \in Nat BY <1>1
    <2> QED BY <2>1, <2>2, <1>2, <1>5, CarryWalk
  <1>8. PICK v : /\ v \in [0 .. n -> A] /\ v[0] = none /\ v[n] = CarriedOf(none, s)
                 /\ \A k \in 1 .. n : v[k] = TakeIfCarrying(v[k - 1], s[k])
        BY <1>6 DEF CarryWalks
  <1>9. PICK u : /\ u[0] = none /\ u[n + 1] = CarriedOf(none, more)
                 /\ \A k \in 1 .. n + 1 : u[k] = TakeIfCarrying(u[k - 1], more[k])
        BY <1>7 DEF CarryWalks
  <1> DEFINE S == {k \in Nat : k <= n => u[k] = v[k]}
  <1>10. 0 \in S BY <1>8, <1>9
  <1>11. \A k \in S : k + 1 \in S
    <2> SUFFICES ASSUME NEW k \in Nat, k <= n => u[k] = v[k], k + 1 <= n
                 PROVE  u[k + 1] = v[k + 1]
        OBVIOUS
    <2> DEFINE j == k + 1
    <2>1. k <= n /\ j \in 1 .. n /\ j \in 1 .. n + 1 /\ j - 1 = k BY <1>1, SMT
    <2> HIDE DEF j
    <2>2. u[j] = TakeIfCarrying(u[k], more[j]) /\ v[j] = TakeIfCarrying(v[k], s[j])
          BY <2>1, <1>8, <1>9
    <2>3. u[j] = v[j] BY <2>1, <2>2, <1>2
    <2> QED BY <2>3 DEF j
  <1>12. S = Nat
    <2>1. S \in SUBSET Nat OBVIOUS
    <2> HIDE DEF S
    <2> QED BY <2>1, <1>10, <1>11, NumbersByInduction
  <1>13. u[n] = v[n]
    <2>1. n \in S /\ n <= n BY <1>1, <1>12
    <2> QED BY <2>1
  <1>14. n + 1 \in 1 .. n + 1 /\ (n + 1) - 1 = n /\ n \in 0 .. n BY <1>1, SMT
  <1>15. u[n + 1] = TakeIfCarrying(v[n], packet) BY <1>2, <1>9, <1>13, <1>14
  <1>16. v[n] \in A BY <1>8, <1>14
  <1> QED BY <1>8, <1>9, <1>f, <1>15, <1>16 DEF A, more

LEMMA NothingCarried == Carrying(<<>>) = <<>>
PROOF
  <1> DEFINE none == <<>>
             A == {none}
  <1>1. DOMAIN none = 1 .. 0 /\ none \in A /\ 0 \in Nat
    <2>1. 1 .. 0 = {} BY SMT
    <2> QED BY <2>1
  <1>2. \A a \in A, i \in 1 .. 0 : TakeIfCarrying(a, none[i]) \in A
    <2>1. 1 .. 0 = {} BY SMT
    <2> QED BY <2>1
  <1>f. Carrying(none) = CarriedOf(none, none) BY DEF Carrying, CarriedOf
  <1> HIDE DEF none, A
  <1>3. \E v : CarryWalks(v, A, none, 0, none) BY <1>1, <1>2, CarryWalk
  <1>4. CarriedOf(none, none) = none BY <1>3 DEF CarryWalks
  <1> QED BY <1>f, <1>4 DEF none

-----------------------------------------------------------------------------
(* What the ring of the facility holds.                                      *)

\* The slot of the i-th oldest packet, once around the ring at most.
Place(count, next, i) ==
    LET from == (IF count < RetainedPackets THEN 0 ELSE next) + i
    IN  IF from < RetainedPackets THEN from ELSE from - RetainedPackets

\* The ring holds the last of the packets that carry messages.
HoldsLast(f, data) ==
    /\ f.count = (IF Len(data) < RetainedPackets THEN Len(data) ELSE RetainedPackets)
    /\ \A i \in 0 .. f.count - 1 : RetainedAt(f, i) = data[Len(data) - f.count + 1 + i]

LEMMA PlaceOfRetained ==
    ASSUME NEW f \in Facilities, NEW i \in 0 .. f.count - 1
    PROVE  RetainedAt(f, i) = f.slots[Place(f.count, f.next, i)][1]
PROOF
  <1> DEFINE R == RetainedPackets
             from == (IF f.count < R THEN 0 ELSE f.next) + i
             at == from % R
  <1>1. f.next \in 0 .. R - 1 /\ f.count \in 0 .. R BY DEF Facilities
  <1>r. R \in Nat \ {0} BY RetentionIsANumber
  <1>2. RetainedAt(f, i) = f.slots[at][1] BY DEF RetainedAt
  <1>3. Place(f.count, f.next, i) = IF from < R THEN from ELSE from - R BY DEF Place
  <1> HIDE DEF R
  <1>4. from \in Nat /\ from < R + R BY <1>1, <1>r, SMT
  <1> HIDE DEF from
  <1>5. at = IF from < R THEN from ELSE from - R BY <1>4, <1>r, OnceAround
  <1> QED BY <1>2, <1>3, <1>5

\* Where the packets are after one more: the newest takes the slot at next, and
\* the ones that stay are where they were.
LEMMA PlacesMove ==
    ASSUME NEW c \in 0 .. RetainedPackets, NEW m \in 0 .. RetainedPackets - 1,
           c < RetainedPackets => m = c,
           NEW d, d = (IF c < RetainedPackets THEN c + 1 ELSE c),
           NEW k, k = (IF m + 1 < RetainedPackets THEN m + 1 ELSE 0),
           NEW i \in 0 .. d - 1,
           NEW j, j = (IF c < RetainedPackets THEN i ELSE i + 1)
    PROVE  /\ i = d - 1 => Place(d, k, i) = m
           /\ i # d - 1 => /\ j \in 0 .. c - 1 /\ Place(d, k, i) = Place(c, m, j)
                           /\ Place(d, k, i) \in 0 .. RetainedPackets - 1
                           /\ Place(d, k, i) # m
PROOF
  <1> DEFINE R == RetainedPackets
             x == (IF d < R THEN 0 ELSE k) + i
             y == (IF c < R THEN 0 ELSE m) + j
             u == IF x < R THEN x ELSE x - R
             v == IF y < R THEN y ELSE y - R
  <1>1. Place(d, k, i) = u /\ Place(c, m, j) = v BY DEF Place
  <1>r. R \in Nat \ {0} BY RetentionIsANumber
  <1> HIDE DEF R
  <1>2. CASE c < R
    <2>1. /\ m = c /\ d = c + 1 /\ j = i /\ k = (IF m + 1 < R THEN m + 1 ELSE 0)
          /\ c \in Nat
          BY <1>2, <1>r DEF R
    <2>2. i \in 0 .. c BY <2>1
    <2>3. x = i
      <3>1. CASE d < R BY <3>1, <2>2
      <3>2. CASE ~(d < R)
        <4>1. ~(m + 1 < R) BY <3>2, <2>1
        <4>2. k = 0 BY <2>1, <4>1
        <4> QED BY <3>2, <4>2, <2>2
      <3> QED BY <3>1, <3>2
    <2>4. y = i BY <1>2, <2>1, <2>2
    <2> HIDE DEF x, y
    <2>5. i < R BY <1>2, <1>r, <2>1, <2>2, SMT
    <2>6. u = i /\ v = i BY <2>3, <2>4, <2>5
    <2> HIDE DEF u, v
    <2> QED BY <1>1, <1>2, <1>r, <2>1, <2>2, <2>6, SMT DEF R
  <1>3. CASE ~(c < R)
    <2>1. /\ c = R /\ d = R /\ j = i + 1 /\ k = (IF m + 1 < R THEN m + 1 ELSE 0)
          /\ m \in 0 .. R - 1
          BY <1>3, <1>r DEF R
    <2>2. i \in 0 .. R - 1 BY <2>1
    <2>3. x = k + i /\ y = m + (i + 1) BY <1>3, <2>1, <2>2
    <2> HIDE DEF x, y
    <2>4. k \in 0 .. R - 1 BY <2>1, <1>r, SMT
    <2>5. i = R - 1 => u = m
      <3>1. CASE m + 1 < R
        <4>1. k = m + 1 BY <3>1, <2>1
        <4> QED BY <4>1, <2>1, <2>2, <2>3, <1>r, SMT
      <3>2. CASE ~(m + 1 < R)
        <4>1. k = 0 /\ m = R - 1 BY <3>2, <2>1, <1>r, SMT
        <4> QED BY <4>1, <2>1, <2>2, <2>3, <1>r, SMT
      <3> QED BY <3>1, <3>2
    <2>6. i # R - 1 => u = v /\ u \in 0 .. R - 1 /\ u # m
      <3>1. CASE m + 1 < R
        <4>1. k = m + 1 BY <3>1, <2>1
        <4>2. x = y BY <4>1, <2>1, <2>2, <2>3, SMT
        <4> QED BY <4>1, <4>2, <2>1, <2>2, <2>3, <1>r, SMT
      <3>2. CASE ~(m + 1 < R)
        <4>1. k = 0 /\ m = R - 1 BY <3>2, <2>1, <1>r, SMT
        <4>2. x = i /\ y = i + R BY <4>1, <2>2, <2>3, <1>r, SMT
        <4>3. u = i /\ v = i BY <4>2, <2>2, <1>r, SMT
        <4> HIDE DEF u, v
        <4> QED BY <4>1, <4>3, <2>2, <1>r, SMT
      <3> QED BY <3>1, <3>2
    <2> HIDE DEF u, v
    <2>7. i # R - 1 => j \in 0 .. R - 1 BY <2>1, <2>2, <1>r, SMT
    <2> QED BY <1>1, <2>1, <2>5, <2>6, <2>7 DEF R
  <1> QED BY <1>2, <1>3

\* record(): the ring then holds the last of the packets with the new one.
LEMMA RecordHolds ==
    ASSUME NEW f \in Facilities, f.count < RetainedPackets => f.next = f.count,
           NEW data \in Seq(Datagrams), HoldsLast(f, data), NEW packet \in Datagrams
    PROVE  HoldsLast(Record(f, packet), TakeIfCarrying(data, packet))
PROOF
  <1> DEFINE R == RetainedPackets
             V == {<<>>} \cup {<<p>> : p \in Datagrams}
             one == <<packet>>
             slots == [f.slots EXCEPT ![f.next] = one]
             next == (f.next + 1) % R
             count == IF f.count < R THEN f.count + 1 ELSE f.count
             evicted == IF f.count < R THEN f.evicted ELSE f.evicted + 1
             g == [slots |-> slots, next |-> next, count |-> count, evicted |-> evicted]
             more == Append(data, packet)
             n == Len(data)
  <1>1. /\ f.slots \in [0 .. R - 1 -> V] /\ f.next \in 0 .. R - 1 /\ f.count \in 0 .. R
        /\ f.evicted \in Nat /\ (f.count < R => f.next = f.count)
        BY DEF Facilities
  <1>r. R \in Nat \ {0} BY RetentionIsANumber
  <1>2. CASE packet.count = 0 BY <1>2 DEF Record, TakeIfCarrying
  <1>3. CASE packet.count # 0
    <2>1. Record(f, packet) = g /\ TakeIfCarrying(data, packet) = more
          BY <1>3 DEF Record, TakeIfCarrying
    <2>2. one \in V /\ one[1] = packet OBVIOUS
    <2>3. /\ n \in Nat /\ Len(more) = n + 1 /\ more[n + 1] = packet
          /\ \A i \in 1 .. n : more[i] = data[i]
          OBVIOUS
    <2>4. /\ f.count = (IF n < R THEN n ELSE R)
          /\ \A i \in 0 .. f.count - 1 : RetainedAt(f, i) = data[n - f.count + 1 + i]
          BY DEF HoldsLast
    <2>F. Facilities = [slots : [0 .. R - 1 -> V], next : 0 .. R - 1, count : 0 .. R,
                        evicted : Nat]
          BY DEF Facilities
    <2>p. \A i \in 0 .. f.count - 1 :
             RetainedAt(f, i) = f.slots[Place(f.count, f.next, i)][1]
          BY PlaceOfRetained
    <2> HIDE DEF R, V, one, n, more
    <2>5. next = IF f.next + 1 < R THEN f.next + 1 ELSE 0
      <3> DEFINE up == f.next + 1
      <3>1. up \in Nat /\ up < R + R /\ (~(up < R) => up - R = 0) BY <1>1, <1>r, SMT
      <3> HIDE DEF up
      <3>2. up % R = IF up < R THEN up ELSE up - R BY <3>1, <1>r, OnceAround
      <3>3. up % R = IF up < R THEN up ELSE 0 BY <3>1, <3>2
      <3> QED BY <3>3 DEF up
    <2>6. slots \in [0 .. R - 1 -> V] BY <1>1, <2>2
    <2>7. /\ slots[f.next] = one
          /\ \A i \in 0 .. R - 1 : i # f.next => slots[i] = f.slots[i]
          BY <1>1
    <2>8. next \in 0 .. R - 1 /\ count \in 0 .. R /\ evicted \in Nat
      <3> DEFINE m == f.next
                 c == f.count
                 e == f.evicted
      <3>1. m \in 0 .. R - 1 /\ c \in 0 .. R /\ e \in Nat BY <1>1
      <3>2. /\ next = IF m + 1 < R THEN m + 1 ELSE 0
            /\ count = IF c < R THEN c + 1 ELSE c
            /\ evicted = IF c < R THEN e ELSE e + 1
            BY <2>5
      <3> HIDE DEF m, c, e, next, count, evicted
      <3>3. next \in 0 .. R - 1 BY <3>1, <3>2, <1>r, SMT
      <3>4. count \in 0 .. R BY <3>1, <3>2, <1>r, SMT
      <3>5. evicted \in Nat BY <3>1, <3>2
      <3> QED BY <3>3, <3>4, <3>5
    <2> HIDE DEF slots, next, evicted
    <2>9. /\ g \in Facilities /\ g.slots = slots /\ g.next = next /\ g.count = count
          BY <2>F, <2>6, <2>8
    <2>10. count = IF n + 1 < R THEN n + 1 ELSE R BY <2>3, <2>4, <1>r, SMT
    <2>f. count = (IF f.count < R THEN f.count + 1 ELSE f.count) OBVIOUS
    <2> HIDE DEF g, count
    <2>11. ASSUME NEW i \in 0 .. count - 1
           PROVE  RetainedAt(g, i) = more[(n + 1) - count + 1 + i]
      <3> DEFINE at == Place(count, next, i)
                 j == IF f.count < R THEN i ELSE i + 1
                 old == Place(f.count, f.next, j)
      <3>1. RetainedAt(g, i) = slots[at][1] BY <2>9, PlaceOfRetained
      <3>m. /\ i = count - 1 => at = f.next
            /\ i # count - 1 => /\ j \in 0 .. f.count - 1 /\ at = old
                                /\ at \in 0 .. R - 1 /\ at # f.next
        <4>1. /\ f.count \in 0 .. R /\ f.next \in 0 .. R - 1
              /\ f.count < R => f.next = f.count
              BY <1>1 DEF R
        <4> DEFINE c == f.count
                   m == f.next
        <4>2. /\ c \in 0 .. R /\ m \in 0 .. R - 1 /\ (c < R => m = c)
              /\ count = (IF c < R THEN c + 1 ELSE c)
              /\ next = (IF m + 1 < R THEN m + 1 ELSE 0)
              /\ j = (IF c < R THEN i ELSE i + 1)
              BY <4>1, <2>5, <2>f
        <4> HIDE DEF c, m, at, old, j
        <4>3. /\ i = count - 1 => Place(count, next, i) = m
              /\ i # count - 1 => /\ j \in 0 .. c - 1 /\ Place(count, next, i) = Place(c, m, j)
                                  /\ Place(count, next, i) \in 0 .. R - 1
                                  /\ Place(count, next, i) # m
              BY <4>2, PlacesMove DEF R
        <4> QED BY <4>3 DEF c, m, at, old
      <3>c. count \in Nat /\ f.count \in Nat /\ i \in 0 .. count - 1
            BY <1>1, <1>r, <2>8, SMT DEF R
      <3>j. j = (IF f.count < R THEN i ELSE i + 1) OBVIOUS
      <3> HIDE DEF at, old, j
      <3>2. CASE i = count - 1
        <4>2. (n + 1) - count + 1 + i = n + 1 BY <3>2, <3>c, <2>3, SMT
        <4> QED BY <3>1, <3>2, <3>m, <4>2, <2>2, <2>3, <2>7
      <3>3. CASE i # count - 1
        <4>1. (n + 1) - count + 1 + i = n - f.count + 1 + j
          <5> DEFINE c == f.count
          <5>1. c \in Nat /\ count \in Nat /\ i \in 0 .. count - 1 /\ n \in Nat BY <3>c, <2>3
          <5>2. (count = c + 1 /\ j = i) \/ (count = c /\ j = i + 1) BY <2>f, <3>j, Zenon
          <5> HIDE DEF c
          <5>3. (n + 1) - count + 1 + i = n - c + 1 + j BY ONLY <5>1, <5>2, SMT
          <5> QED BY <5>3 DEF c
        <4>2. n - f.count + 1 + j \in 1 .. n
          <5>1. j \in 0 .. f.count - 1 BY <3>3, <3>m
          <5>2. f.count <= n BY <2>3, <2>4, <1>r
          <5> QED BY <5>1, <5>2, <2>3, <3>c, SMT
        <4>4. RetainedAt(f, j) = f.slots[old][1] BY <3>3, <3>m, <2>p DEF old
        <4>5. slots[at] = f.slots[old] BY <3>3, <3>m, <2>7
        <4>6. RetainedAt(f, j) = data[n - f.count + 1 + j] BY <3>3, <3>m, <2>4
        <4>7. more[n - f.count + 1 + j] = data[n - f.count + 1 + j] BY <4>2, <2>3
        <4> QED BY <3>1, <4>1, <4>4, <4>5, <4>6, <4>7
      <3> QED BY <3>2, <3>3
    <2>12. HoldsLast(g, more) BY <2>3, <2>9, <2>10, <2>11 DEF HoldsLast, R
    <2> QED BY <2>1, <2>12
  <1> QED BY <1>2, <1>3

\* The packets that carry messages are a chain from the first number to where the
\* publisher stands, and the facility holds the last of them.
Window(f, data, next) ==
    /\ data \in Seq(Datagrams) /\ ChainOf(data, Len(data)) /\ HoldsLast(f, data)
    /\ IF data = <<>> THEN next = 1
       ELSE data[1].sequence = 1 /\ next = data[Len(data)].sequence + data[Len(data)].count

\* Once everything is published, nothing is left in the publisher.
WindowInv ==
    /\ Window(facility, Carrying(stream), pub.next)
    /\ phase # "publishing" => ~pub.open

LEMMA RecordedOne ==
    ASSUME NEW bs, NEW f, FacilityOk(f, bs), NEW packet \in CarryingPackets(bs)
    PROVE  RecordedOn(f, <<>>) = f /\ RecordedOn(f, <<packet>>) = Record(f, packet)
PROOF
  <1> DEFINE A == {g \in Facilities : FacilityOk(g, bs)}
             one == <<packet>>
             none == <<>>
  <1>1. /\ DOMAIN one = 1 .. 1 /\ \A i \in 1 .. 1 : one[i] = packet
        /\ DOMAIN none = 1 .. 0
    <2>1. 1 .. 0 = {} /\ \A i \in 1 .. 1 : i = 1 BY SMT
    <2>2. DOMAIN one = 1 .. 1 /\ one[1] = packet /\ DOMAIN none = {} OBVIOUS
    <2> QED BY <2>1, <2>2
  <1>2. f \in A BY DEF FacilityOk
  <1>3. \A a \in A : Record(a, packet) \in A
    <2> TAKE a \in A
    <2>1. FacilityOk(Record(a, packet), bs) BY RecordKeeps
    <2> QED BY <2>1 DEF FacilityOk
  <1> HIDE DEF A, one, none
  <1>4. \E v : RecordWalks(v, A, f, 1, one)
    <2>1. \A a \in A, i \in 1 .. 1 : Record(a, one[i]) \in A BY <1>1, <1>3
    <2> QED BY <2>1, <1>1, <1>2, RecordWalk
  <1>5. \E v : RecordWalks(v, A, f, 0, none)
    <2>1. 1 .. 0 = {} /\ 0 \in Nat BY SMT
    <2>2. \A a \in A, i \in 1 .. 0 : Record(a, none[i]) \in A BY <2>1
    <2> QED BY <2>1, <2>2, <1>1, <1>2, RecordWalk
  <1>6. RecordedOn(f, none) = f BY <1>5 DEF RecordWalks
  <1>7. RecordedOn(f, one) = Record(f, packet)
    <2>1. PICK v : /\ v[0] = f /\ v[1] = RecordedOn(f, one)
                   /\ \A k \in 1 .. 1 : v[k] = Record(v[k - 1], one[k])
          BY <1>4 DEF RecordWalks
    <2>2. 1 \in 1 .. 1 /\ 1 - 1 = 0 BY SMT
    <2> QED BY <2>1, <2>2, <1>1
  <1> QED BY <1>6, <1>7 DEF one, none

\* One more packet where the publisher stands keeps the chain.
LEMMA WindowGrows ==
    ASSUME NEW f \in Facilities, f.count < RetainedPackets => f.next = f.count,
           NEW data, NEW next, Window(f, data, next),
           NEW packet \in Datagrams, packet.sequence = next
    PROVE  Window(Record(f, packet), TakeIfCarrying(data, packet),
                  packet.sequence + packet.count)
PROOF
  <1> DEFINE more == Append(data, packet)
             n == Len(data)
             end == packet.sequence + packet.count
  <1>1. /\ data \in Seq(Datagrams) /\ ChainOf(data, n) /\ HoldsLast(f, data)
        /\ data = <<>> => next = 1
        /\ data # <<>> => data[1].sequence = 1 /\ next = data[n].sequence + data[n].count
        BY DEF Window
  <1>2. packet.sequence \in Nat /\ packet.count \in Nat BY DEF Datagrams
  <1>3. HoldsLast(Record(f, packet), TakeIfCarrying(data, packet)) BY <1>1, RecordHolds
  <1>4. CASE packet.count = 0
    <2>1. TakeIfCarrying(data, packet) = data BY <1>4 DEF TakeIfCarrying
    <2>2. end = next BY <1>2, <1>4
    <2> QED BY <2>1, <2>2, <1>1, <1>3 DEF Window
  <1>5. CASE packet.count # 0
    <2>1. TakeIfCarrying(data, packet) = more BY <1>5 DEF TakeIfCarrying
    <2>2. /\ n \in Nat /\ more \in Seq(Datagrams) /\ Len(more) = n + 1 /\ DOMAIN more = 1 .. n + 1
          /\ more[n + 1] = packet /\ \A i \in 1 .. n : more[i] = data[i]
          BY <1>1
    <2>3. n = 0 <=> data = <<>> BY <1>1
    <2>4. more # <<>> BY <2>2
    <2> HIDE DEF more, n
    <2>5. /\ \A i \in 1 .. n : data[i].sequence \in Nat /\ data[i].count \in Nat
                               /\ data[i].count > 0
          /\ \A i \in 1 .. n - 1 : data[i + 1].sequence = data[i].sequence + data[i].count
          BY <1>1 DEF ChainOf
    <2>6. \A i \in 1 .. n + 1 : more[i].sequence \in Nat /\ more[i].count \in Nat
                                /\ more[i].count > 0
      <3>1. \A i \in 1 .. n + 1 : i = n + 1 \/ i \in 1 .. n BY <2>2, SMT
      <3>2. packet.count > 0 BY <1>2, <1>5
      <3> QED BY <3>1, <3>2, <1>2, <2>2, <2>5
    <2>7. \A i \in 1 .. (n + 1) - 1 : more[i + 1].sequence = more[i].sequence + more[i].count
      <3> TAKE i \in 1 .. (n + 1) - 1
      <3>1. CASE i = n
        <4>1. n # 0 /\ n \in 1 .. n BY <3>1, <2>2, SMT
        <4> QED BY <3>1, <4>1, <2>2, <2>3, <1>1
      <3>2. CASE i # n
        <4>1. i \in 1 .. n - 1 /\ i \in 1 .. n /\ i + 1 \in 1 .. n BY <3>2, <2>2, SMT
        <4> QED BY <4>1, <2>2, <2>5
      <3> QED BY <3>1, <3>2
    <2>8. ChainOf(more, Len(more))
      <3>1. n + 1 \in Nat BY <2>2
      <3> QED BY <3>1, <2>2, <2>6, <2>7 DEF ChainOf
    <2>9. more[1].sequence = 1
      <3>1. CASE n = 0 BY <3>1, <2>2, <2>3, <1>1
      <3>2. CASE n # 0
        <4>1. 1 \in 1 .. n BY <3>2, <2>2, SMT
        <4> QED BY <4>1, <3>2, <2>2, <2>3, <1>1
      <3> QED BY <3>1, <3>2
    <2>10. end = more[Len(more)].sequence + more[Len(more)].count BY <2>2
    <2> QED BY <2>1, <2>2, <2>4, <2>8, <2>9, <2>10, <1>3 DEF Window
  <1> QED BY <1>4, <1>5

LEMMA PublishedKeepsWindow ==
    ASSUME NEW r, Published(r), Continues(protocol, pub, r), NEW bs, BodiesOk(bs),
           Gives(protocol, r, bs), stream \in Seq(Datagrams), FacilityOk(facility, bs),
           Window(facility, Carrying(stream), pub.next)
    PROVE  Window(facility', Carrying(stream'), pub'.next)
PROOF
  <1>1. /\ pub' = r.publisher /\ stream' = stream \o r.packets
        /\ facility' = RecordedOn(facility, r.packets)
        BY DEF Published, RecordedOn
  <1>2. facility \in Facilities /\ (facility.count < RetainedPackets => facility.next = facility.count)
        BY DEF FacilityOk
  <1>3. CASE r.packets = <<>> /\ r.publisher.next = pub.next
    <2>1. stream' = stream BY <1>1, <1>3
    <2>2. RecordedOn(facility, <<>>) = facility
      <3> DEFINE A == {facility}
                 none == <<>>
      <3>1. DOMAIN none = 1 .. 0 /\ 1 .. 0 = {} /\ 0 \in Nat
        <4>1. 1 .. 0 = {} BY SMT
        <4> QED BY <4>1
      <3>2. \A a \in A, i \in 1 .. 0 : Record(a, none[i]) \in A BY <3>1
      <3>3. facility \in A OBVIOUS
      <3> HIDE DEF A, none
      <3>4. \E v : RecordWalks(v, A, facility, 0, none) BY <3>1, <3>2, <3>3, RecordWalk
      <3>5. RecordedOn(facility, none) = facility BY <3>4 DEF RecordWalks
      <3> QED BY <3>5 DEF none
    <2>3. facility' = facility /\ pub'.next = pub.next BY <2>2, <1>1, <1>3
    <2> QED BY <2>1, <2>3
  <1>4. ASSUME NEW packet, r.packets = <<packet>>, Follows(protocol, pub, packet, r.publisher)
        PROVE  Window(facility', Carrying(stream'), pub'.next)
    <2>1. /\ packet \in Datagrams /\ packet.sequence = pub.next
          /\ r.publisher.next = NextSequence(protocol, packet)
          BY <1>4 DEF Follows
    <2>2. Carries(protocol, packet, bs)
      <3>1. r.packets # <<>> BY <1>4
      <3>2. PICK other : r.packets = <<other>> /\ Carries(protocol, other, bs)
            BY <3>1 DEF Gives
      <3>3. other = packet BY <1>4, <3>2
      <3> QED BY <3>2, <3>3
    <2>3. packet.sequence \in Nat /\ packet.count \in Nat /\ packet.count < EndOfSession
          BY <2>2, CarriedFields
    <2>4. r.publisher.next = packet.sequence + packet.count
      <3>1. /\ NextSequence(protocol, packet) = packet.sequence + Remaining(protocol, packet)
            /\ Remaining(protocol, packet) = packet.count
            BY <2>3, NextIsRemaining
      <3> QED BY <3>1, <2>1
    <2>5. packet \in CarryingPackets(bs) BY <2>1, <2>2 DEF CarryingPackets
    <2>6. facility' = Record(facility, packet) BY <1>1, <1>4, <2>5, RecordedOne
    <2>7. stream' = Append(stream, packet) BY <1>1, <1>4, <2>1
    <2>8. Carrying(stream') = TakeIfCarrying(Carrying(stream), packet)
          BY <2>1, <2>7, CarryingGrows
    <2>9. Window(Record(facility, packet), TakeIfCarrying(Carrying(stream), packet),
                 packet.sequence + packet.count)
      <3> DEFINE data == Carrying(stream)
                 next == pub.next
      <3>1. Window(facility, data, next) /\ packet.sequence = next BY <2>1
      <3> HIDE DEF data, next
      <3>2. Window(Record(facility, packet), TakeIfCarrying(data, packet),
                   packet.sequence + packet.count)
            BY <3>1, <1>2, <2>1, WindowGrows
      <3> QED BY <3>2 DEF data
    <2> QED BY <2>4, <2>6, <2>8, <2>9, <1>1
  <1> QED BY <1>3, <1>4 DEF Continues

LEMMA FlushShuts ==
    ASSUME NEW kind, NEW p, PublisherOk(p)
    PROVE  ~Flush(kind, p).publisher.open
PROOF
  <1> DEFINE packet == Finish(kind, p.builder)
             q == Advance(kind, p, packet)
             shut == FALSE
             r == Flush(kind, p)
  <1>1. p \in Publishers /\ DOMAIN p = {"open", "builder", "next", "offset", "started", "quiet"}
        BY DEF PublisherOk, Publishers
  <1>2. CASE ~Pending(p)
    <2>1. r.publisher = [p EXCEPT !.open = shut] BY <1>2, EmittedFields DEF Flush
    <2> HIDE DEF shut, r
    <2>2. r.publisher.open = shut BY <2>1, <1>1
    <2> QED BY <2>2 DEF shut, r
  <1>3. CASE Pending(p)
    <2>1. r.publisher = [q EXCEPT !.open = shut, !.quiet = 0]
          BY <1>3, EmittedFields DEF Flush
    <2>2. DOMAIN q = DOMAIN p BY DEF Advance
    <2> HIDE DEF shut, r, q
    <2>3. r.publisher.open = shut BY <2>1, <2>2, <1>1
    <2> QED BY <2>3 DEF shut, r
  <1> QED BY <1>2, <1>3

LEMMA WindowStep ==
    StreamInv /\ PackInv /\ FacilityInv /\ WindowInv /\ [Next]_vars => WindowInv'
PROOF
  <1> SUFFICES ASSUME StreamInv, PackInv, FacilityInv, WindowInv, [Next]_vars
               PROVE  WindowInv'
      OBVIOUS
  <1>i. /\ PublisherOk(pub) /\ bodies \in Seq(Seq(Nat)) /\ BodiesOk(bodies)
        /\ PubCarries(pub, bodies) /\ FacilityOk(facility, bodies)
        /\ stream \in Seq(Datagrams)
        BY DEF StreamInv, PackInv, FacilityInv
  <1>w. /\ Window(facility, Carrying(stream), pub.next)
        /\ phase # "publishing" => ~pub.open
        BY DEF WindowInv
  <1>k. Window(facility', Carrying(stream'), pub'.next)
        /\ (phase' # "publishing" => ~pub'.open)
        => WindowInv'
        BY DEF WindowInv
  <1>1. CASE UNCHANGED <<pub, stream, facility>>
             /\ (phase' # "publishing" => phase # "publishing")
        BY <1>1, <1>w, <1>k
  <1>2. ASSUME NEW r, Published(r), Continues(protocol, pub, r), NEW bs, BodiesOk(bs),
               Gives(protocol, r, bs), FacilityOk(facility, bs)
        PROVE  Window(facility', Carrying(stream'), pub'.next)
        BY <1>2, <1>i, <1>w, PublishedKeepsWindow
  <1>3. CASE SubmitMessage
    <2>1. PICK size \in BodySizes :
             LET body == [i \in 1 .. size |-> EndOfSession + Len(bodies) + 1]
                 result == Submit(protocol, pub, body)
             IN  /\ Published(result)
                 /\ bodies' = IF result.outcome = "ok" THEN Append(bodies, body) ELSE bodies
          BY <1>3 DEF SubmitMessage
    <2> DEFINE body == [i \in 1 .. size |-> EndOfSession + Len(bodies) + 1]
               r == Submit(protocol, pub, body)
               cs == Append(bodies, body)
    <2>2. body \in Seq(Nat) BY <1>i, BodyIsNumbers
    <2>3. Published(r) /\ phase' = "publishing"
          BY <2>1, <1>3 DEF SubmitMessage
    <2>b. bodies' = IF r.outcome = "ok" THEN cs ELSE bodies BY <2>1
    <2> HIDE DEF body
    <2>4. Continues(protocol, pub, r) BY <1>i, <2>2, SubmitContinues
    <2>5. \/ r.outcome # "ok" /\ r.publisher = pub /\ r.packets = <<>>
          \/ r.outcome = "ok" /\ Len(body) < MaxPayload /\ Gives(protocol, r, cs)
          BY <1>i, <2>2, SubmitGives
    <2>6. FacilityOk(facility, cs) BY <1>i, <2>2, FacilityStays
    <2> HIDE DEF r, cs
    <2>7. CASE r.outcome # "ok" /\ r.publisher = pub /\ r.packets = <<>>
      <3>1. Gives(protocol, r, bodies) BY <2>7, <1>i DEF Gives
      <3>2. Window(facility', Carrying(stream'), pub'.next) BY <3>1, <2>3, <2>4, <1>2, <1>i
      <3> QED BY <3>2, <2>3, <1>k
    <2>8. CASE r.outcome = "ok" /\ Len(body) < MaxPayload /\ Gives(protocol, r, cs)
      <3>1. BodiesOk(cs)
        <4>1. cs = bodies' BY <2>b, <2>8
        <4>2. PackInv' BY PackStep
        <4> QED BY <4>1, <4>2 DEF PackInv, BodiesOk
      <3>2. Window(facility', Carrying(stream'), pub'.next)
            BY <3>1, <2>3, <2>4, <2>6, <2>8, <1>2
      <3> QED BY <3>2, <2>3, <1>k
    <2> QED BY <2>5, <2>7, <2>8
  <1>4. CASE FlushPublisher
    <2>1. Continues(protocol, pub, Flush(protocol, pub)) BY <1>i, FlushContinues
    <2>2. Gives(protocol, Flush(protocol, pub), bodies) BY <1>i, FlushGives
    <2>3. Published(Flush(protocol, pub)) /\ phase' = "publishing"
          BY <1>4, Zenon DEF FlushPublisher
    <2> QED BY <1>2, <1>i, <1>k, <2>1, <2>2, <2>3
  <1>5. CASE PollPublisher
    <2>1. Continues(protocol, pub, Poll(protocol, pub)) BY <1>i, PollContinues
    <2>2. Gives(protocol, Poll(protocol, pub), bodies) BY <1>i, PollGives
    <2>3. Published(Poll(protocol, pub)) /\ phase' = "publishing"
          BY <1>5, Zenon DEF PollPublisher
    <2> QED BY <1>2, <1>i, <1>k, <2>1, <2>2, <2>3
  <1>6. CASE Quiet
    <2>1. /\ pub' = [pub EXCEPT !.quiet = pub.quiet + 1] /\ phase' = "publishing"
          /\ UNCHANGED <<stream, facility>>
          BY <1>6 DEF Quiet
    <2>2. pub \in Publishers BY <1>i DEF PublisherOk
    <2>3. pub'.next = pub.next BY <2>1, <2>2 DEF Publishers
    <2> QED BY <2>1, <2>3, <1>w, <1>k
  <1>7. CASE FinishStream
    <2>1. Continues(protocol, pub, Flush(protocol, pub)) BY <1>i, FlushContinues
    <2>2. Gives(protocol, Flush(protocol, pub), bodies) BY <1>i, FlushGives
    <2>3. Published(Flush(protocol, pub)) BY <1>7, Zenon DEF FinishStream
    <2>4. ~pub'.open
      <3>1. pub' = Flush(protocol, pub).publisher BY <2>3 DEF Published
      <3> QED BY <3>1, <1>i, FlushShuts
    <2> QED BY <1>2, <1>i, <1>k, <2>1, <2>2, <2>3, <2>4
  <1>8. CASE OfferPacket BY <1>1, <1>8 DEF OfferPacket, venue
  <1>9. CASE FlushLine
    <2>1. UNCHANGED <<pub, stream, facility>> /\ phase = "offering" BY <1>9 DEF FlushLine, venue
    <2> QED BY <2>1, <1>w, <1>k
  <1>10. CASE AskFacility BY <1>1, <1>10 DEF AskFacility, venue
  <1>11. CASE AskSnapshot BY <1>1, <1>11 DEF AskSnapshot, venue
  <1>12. CASE SnapshotWaits BY <1>1, <1>12 DEF SnapshotWaits, venue
  <1>13. CASE SnapshotArrives BY <1>1, <1>13 DEF SnapshotArrives, venue
  <1>14. CASE UNCHANGED vars BY <1>1, <1>14 DEF vars, venue
  <1> QED BY <1>3, <1>4, <1>5, <1>6, <1>7, <1>8, <1>9, <1>10, <1>11, <1>12, <1>13, <1>14
          DEF Next

LEMMA WindowHoldsAtFirst == Init => WindowInv
PROOF
  <1> SUFFICES ASSUME Init PROVE WindowInv OBVIOUS
  <1>1. /\ pub = NewPublisher(1) /\ stream = <<>> /\ facility = NewFacility
        /\ phase = "publishing"
        BY DEF Init
  <1>2. pub.next = 1 BY <1>1 DEF NewPublisher
  <1> DEFINE none == <<>>
             f == NewFacility
  <1>3. none \in Seq(Datagrams) /\ Len(none) = 0 /\ DOMAIN none = 1 .. 0
        /\ 1 .. 0 = {} /\ 1 .. 0 - 1 = {} /\ 0 .. 0 - 1 = {} /\ 0 \in Nat /\ 0 < RetainedPackets
    <2>1. /\ 1 .. 0 = {} /\ 1 .. 0 - 1 = {} /\ 0 .. 0 - 1 = {} /\ 0 \in Nat
          /\ 0 < RetainedPackets
          BY RetentionIsANumber, SMT
    <2> QED BY <2>1
  <1>4. f.count = 0 BY DEF NewFacility
  <1> HIDE DEF f
  <1>5. HoldsLast(f, none)
    <2> HIDE DEF none
    <2> QED BY <1>3, <1>4 DEF HoldsLast
  <1>6. ChainOf(none, 0)
    <2> HIDE DEF none
    <2> QED BY <1>3 DEF ChainOf
  <1>7. Window(f, none, 1) BY <1>3, <1>5, <1>6 DEF Window
  <1> QED BY <1>1, <1>2, <1>7, NothingCarried DEF WindowInv, f, none

-----------------------------------------------------------------------------
(* What the facility and the verify tool answer with.                        *)

LEMMA SliceIsChain ==
    ASSUME NEW n, NEW c, ChainOf(c, n), NEW a \in 1 .. n + 1, NEW b \in 0 .. n, a <= b + 1
    PROVE  ChainOf(Slice(c, a, b), b - a + 1)
PROOF
  <1> DEFINE s == Slice(c, a, b)
             m == b - a + 1
  <1>1. /\ n \in Nat
        /\ \A i \in 1 .. n : c[i].sequence \in Nat /\ c[i].count \in Nat /\ c[i].count > 0
        /\ \A i \in 1 .. n - 1 : c[i + 1].sequence = c[i].sequence + c[i].count
        BY DEF ChainOf
  <1>2. m \in Nat /\ \A i \in 1 .. m : i + a - 1 \in 1 .. n BY <1>1, SMT
  <1>3. \A i \in 1 .. m - 1 : /\ i \in 1 .. m /\ i + 1 \in 1 .. m /\ i + a - 1 \in 1 .. n - 1
                              /\ (i + 1) + a - 1 = (i + a - 1) + 1
        BY <1>1, SMT
  <1>4. s = [i \in 1 .. m |-> c[i + a - 1]] BY DEF Slice
  <1> HIDE DEF s, m
  <1>5. DOMAIN s = 1 .. m /\ \A i \in 1 .. m : s[i] = c[i + a - 1] BY <1>4
  <1>6. \A i \in 1 .. m : s[i].sequence \in Nat /\ s[i].count \in Nat /\ s[i].count > 0
        BY <1>1, <1>2, <1>5
  <1>7. \A i \in 1 .. m - 1 : s[i + 1].sequence = s[i].sequence + s[i].count
    <2> TAKE i \in 1 .. m - 1
    <2>1. s[i + 1] = c[(i + a - 1) + 1] /\ s[i] = c[i + a - 1] BY <1>3, <1>5
    <2> QED BY <2>1, <1>1, <1>3
  <1>8. ChainOf(s, m) BY <1>2, <1>5, <1>6, <1>7 DEF ChainOf
  <1> QED BY <1>8 DEF s, m

\* serve(): a chain of packets is served from the first number of the first to the
\* last number of the last.
LEMMA ServedSpan ==
    ASSUME NEW n, NEW c, ChainOf(c, n), n > 0
    PROVE  ServedOf(NoRange, c) = SequenceRange(c[1].sequence, c[n].sequence + c[n].count)
PROOF
  <1> DEFINE A == [first : Nat, end : Nat]
             start(i) == c[i].sequence
             end(i) == c[i].sequence + c[i].count
             nothing == NoRange
  <1>1. /\ n \in Nat /\ DOMAIN c = 1 .. n
        /\ \A i \in 1 .. n : start(i) \in Nat /\ end(i) \in Nat /\ start(i) < end(i)
        /\ \A i, j \in 1 .. n : i < j => end(i) <= start(j)
    <2>1. \A x, y \in Nat : y > 0 => x + y \in Nat /\ x < x + y BY SMT
    <2>2. \A i \in 1 .. n : c[i].sequence \in Nat /\ c[i].count \in Nat /\ c[i].count > 0
          BY DEF ChainOf
    <2> QED BY <2>1, <2>2, ChainIsOrdered DEF ChainOf
  <1>2. \A i \in 1 .. n : Carried(c[i]) = [first |-> start(i), end |-> end(i)]
        BY DEF Carried, SequenceRange
  <1>3. nothing = [first |-> 0, end |-> 0] /\ nothing \in A
    <2>1. 0 \in Nat OBVIOUS
    <2> QED BY <2>1 DEF NoRange, SequenceRange
  <1> HIDE DEF start, end, nothing
  <1>4. \A a \in A, b \in A : Merge(a, b) \in A
    <2> TAKE a \in A, b \in A
    <2>1. CASE Empty(a) BY <2>1 DEF Merge
    <2>2. CASE ~Empty(a) /\ Empty(b) BY <2>2 DEF Merge
    <2>3. CASE ~Empty(a) /\ ~Empty(b)
      <3>1. Merge(a, b) = [first |-> Lesser(a.first, b.first), end |-> Greater(a.end, b.end)]
            BY <2>3 DEF Merge, SequenceRange
      <3>2. Lesser(a.first, b.first) \in Nat /\ Greater(a.end, b.end) \in Nat
            BY DEF Lesser, Greater
      <3> QED BY <3>1, <3>2
    <2> QED BY <2>1, <2>2, <2>3
  <1>5. \A a \in A, i \in 1 .. n : ServeMore(a, c[i]) \in A
    <2> TAKE a \in A, i \in 1 .. n
    <2>1. Carried(c[i]) \in A BY <1>1, <1>2
    <2> QED BY <2>1, <1>4 DEF ServeMore
  <1>6. \E v : MoreWalks(v, A, nothing, n, c)
    <2> HIDE DEF A
    <2> QED BY <1>1, <1>3, <1>5, MoreWalk
  <1>7. PICK v : /\ v[0] = nothing /\ v[n] = ServedOf(nothing, c)
                 /\ \A k \in 1 .. n : v[k] = Merge(v[k - 1], Carried(c[k]))
        BY <1>6 DEF MoreWalks, ServeMore
  <1> DEFINE S == {k \in Nat : k \in 1 .. n => v[k] = [first |-> start(1), end |-> end(k)]}
  <1>8. 0 \in S BY SMT
  <1>9. \A k \in S : k + 1 \in S
    <2> SUFFICES ASSUME NEW k \in Nat,
                        k \in 1 .. n => v[k] = [first |-> start(1), end |-> end(k)],
                        k + 1 \in 1 .. n
                 PROVE  v[k + 1] = [first |-> start(1), end |-> end(k + 1)]
        OBVIOUS
    <2> DEFINE j == k + 1
    <2>1. j \in 1 .. n /\ j - 1 = k OBVIOUS
    <2>2. v[j] = Merge(v[k], Carried(c[j])) BY <2>1, <1>7
    <2>3. CASE k = 0
      <3>1. Empty(v[k]) BY <2>3, <1>3, <1>7 DEF Empty
      <3>2. j = 1 BY <2>3
      <3> QED BY <3>1, <3>2, <2>1, <2>2, <1>2 DEF Merge
    <2>4. CASE k # 0
      <3> DEFINE x == start(1)
                 y == end(k)
                 p == start(j)
                 q == end(j)
      <3>1. k \in 1 .. n /\ k < j /\ 1 \in 1 .. n /\ (1 < k \/ 1 = k) BY <2>1, <2>4, <1>1, SMT
      <3>2. x \in Nat /\ y \in Nat /\ p \in Nat /\ q \in Nat /\ p < q /\ y <= p /\ x < y
        <4>1. x < end(1) /\ end(1) \in Nat /\ x \in Nat BY <3>1, <1>1
        <4>2. y \in Nat /\ p \in Nat /\ q \in Nat /\ p < q /\ y <= p
              /\ start(k) < y /\ start(k) \in Nat
              BY <3>1, <2>1, <1>1
        <4>3. 1 < k => end(1) <= start(k) BY <3>1, <1>1
        <4>4. x < y
          <5>1. CASE 1 = k BY <5>1, <4>2
          <5>2. CASE 1 < k BY <5>2, <4>1, <4>2, <4>3, SMT
          <5> QED BY <3>1, <5>1, <5>2
        <4> QED BY <4>1, <4>2, <4>4
      <3>3. v[k] = [first |-> x, end |-> y] BY <3>1
      <3>4. Carried(c[j]) = [first |-> p, end |-> q] BY <2>1, <1>2
      <3> HIDE DEF x, y, p, q, j
      <3>5. ~Empty(v[k]) /\ ~Empty(Carried(c[j])) BY <3>2, <3>3, <3>4, SMT DEF Empty
      <3>6. Lesser(x, p) = x /\ Greater(y, q) = q BY <3>2, SMT DEF Lesser, Greater
      <3>7. v[j] = [first |-> x, end |-> q]
            BY <2>2, <3>3, <3>4, <3>5, <3>6 DEF Merge, SequenceRange
      <3> QED BY <3>7 DEF x, q, j
    <2> QED BY <2>3, <2>4
  <1>10. S = Nat
    <2>1. S \in SUBSET Nat OBVIOUS
    <2> HIDE DEF S
    <2> QED BY <2>1, <1>8, <1>9, NumbersByInduction
  <1>11. n \in S /\ n \in 1 .. n BY <1>1, <1>10, SMT
  <1>12. v[n] = [first |-> start(1), end |-> end(n)] BY <1>11
  <1> QED BY <1>7, <1>12 DEF SequenceRange, start, end, nothing

\* The packets that are retained are the last that carry messages.
LEMMA RetainedAreKept ==
    ASSUME NEW f \in Facilities, NEW data \in Seq(Datagrams), HoldsLast(f, data)
    PROVE  /\ f.count \in 0 .. Len(data) /\ (f.count = 0 <=> data = <<>>)
           /\ f.count = Len(data) \/ f.count = RetainedPackets
           /\ Greater(1, Len(data) - RetainedPackets + 1) = Len(data) - f.count + 1
           /\ [i \in 1 .. f.count |-> RetainedAt(f, i - 1)]
                = Slice(data, Len(data) - f.count + 1, Len(data))
PROOF
  <1> DEFINE n == Len(data)
             m == f.count
             a == n - m + 1
             R == RetainedPackets
             s == Slice(data, a, n)
             retained == [i \in 1 .. m |-> RetainedAt(f, i - 1)]
  <1>1. /\ n \in Nat /\ (n = 0 <=> data = <<>>) /\ m = (IF n < R THEN n ELSE R)
        /\ \A i \in 0 .. m - 1 : RetainedAt(f, i) = data[n - m + 1 + i]
        BY DEF HoldsLast
  <1>r. R \in Nat \ {0} BY RetentionIsANumber
  <1>2. s = [i \in 1 .. n - a + 1 |-> data[i + a - 1]] BY DEF Slice
  <1> HIDE DEF n, m, R, s
  <1>3. /\ m \in 0 .. n /\ (m = 0 <=> n = 0) /\ (m = n \/ m = R) /\ n - a + 1 = m
        /\ (n - R + 1 < 1 \/ n - R + 1 = 1 => m = n) /\ (n - R + 1 > 1 => m = R)
        BY <1>1, <1>r, SMT
  <1>4. Greater(1, n - R + 1) = a BY <1>1, <1>r, SMT DEF Greater
  <1>5. \A i \in 1 .. m : RetainedAt(f, i - 1) = data[i + a - 1]
    <2> TAKE i \in 1 .. m
    <2>1. i - 1 \in 0 .. m - 1 /\ n - m + 1 + (i - 1) = i + a - 1 BY <1>1, <1>3, SMT
    <2> QED BY <2>1, <1>1
  <1>6. retained = s BY <1>2, <1>3, <1>5
  <1> QED BY <1>1, <1>3, <1>4, <1>6 DEF n, m, R, s

\* The packets the facility keeps, and the first number in them.
Kept(f, data) == Slice(data, Len(data) - f.count + 1, Len(data))

\* serve(): what is asked for and carried is served without a hole, with the kept
\* packets from a to b.
ServesSlice(f, data, wanted, a, b) ==
    LET kept == Kept(f, data)
        answer == Serve(f, wanted)
    IN  /\ a \in 1 .. f.count /\ b \in a .. f.count
        /\ answer.error = "ok" /\ answer.packets = Slice(kept, a, b)
        /\ answer.packets = Wanted(wanted, kept)
        /\ answer.served = SequenceRange(kept[a].sequence, kept[b].sequence + kept[b].count)
        /\ kept[a].sequence <= wanted.first
        /\ wanted.first < kept[a].sequence + kept[a].count
        /\ \A i \in a .. b : kept[i].sequence < wanted.end
        /\ b = f.count \/ wanted.end <= kept[b].sequence + kept[b].count

LEMMA KeptIsChain ==
    ASSUME NEW f \in Facilities, NEW data, NEW next, Window(f, data, next), data # <<>>
    PROVE  /\ f.count \in Nat /\ f.count > 0 /\ ChainOf(Kept(f, data), f.count)
           /\ next = Kept(f, data)[f.count].sequence + Kept(f, data)[f.count].count
           /\ next \in Nat
           /\ Kept(f, data) = [i \in 1 .. f.count |-> RetainedAt(f, i - 1)]
PROOF
  <1> DEFINE n == Len(data)
             m == f.count
             a == n - m + 1
             kept == Slice(data, a, n)
  <1>1. /\ data \in Seq(Datagrams) /\ ChainOf(data, n) /\ HoldsLast(f, data)
        /\ next = data[n].sequence + data[n].count
        BY DEF Window
  <1>2. /\ m \in 0 .. n /\ m # 0 /\ n \in Nat
        /\ [i \in 1 .. m |-> RetainedAt(f, i - 1)] = kept
        BY <1>1, RetainedAreKept
  <1>3. Kept(f, data) = kept BY DEF Kept
  <1> HIDE DEF n, m
  <1>4. /\ a \in 1 .. n + 1 /\ n \in 0 .. n /\ a <= n + 1 /\ n - a + 1 = m /\ m \in Nat /\ m > 0
        /\ m \in 1 .. m /\ m + a - 1 = n /\ n \in 1 .. n
        BY <1>2, SMT
  <1>5. ChainOf(kept, m)
    <2> HIDE DEF a, kept
    <2>1. ChainOf(Slice(data, a, n), n - a + 1) BY <1>1, <1>4, SliceIsChain
    <2> QED BY <2>1, <1>4 DEF kept
  <1>6. kept[m] = data[n] BY <1>4 DEF Slice
  <1>7. next \in Nat
    <2>1. data[n].sequence \in Nat /\ data[n].count \in Nat BY <1>1, <1>4 DEF ChainOf
    <2> QED BY <2>1, <1>1
  <1> QED BY <1>1, <1>2, <1>3, <1>4, <1>5, <1>6, <1>7 DEF m

LEMMA ServesTheWindow ==
    ASSUME NEW f \in Facilities, NEW data, NEW next, Window(f, data, next), data # <<>>,
           NEW first \in Nat, NEW end \in Nat, first < end, first < next,
           Count(SequenceRange(first, end)) <= MaxPerResponse
    PROVE  LET wanted == SequenceRange(first, end)
           IN  /\ first < Kept(f, data)[1].sequence
                  => Serve(f, wanted).error = "retransmit_window_exceeded"
               /\ ~(first < Kept(f, data)[1].sequence)
                  => \E a, b : /\ ServesSlice(f, data, wanted, a, b)
                               /\ Bounds(Kept(f, data), f.count, first, end, a, b)
PROOF
  <1> DEFINE wanted == SequenceRange(first, end)
             kept == Kept(f, data)
             m == f.count
             have == Available(f)
             retained == [i \in 1 .. m |-> RetainedAt(f, i - 1)]
             packets == Wanted(wanted, retained)
             answer == Serve(f, wanted)
  <1>1. /\ m \in Nat /\ m > 0 /\ ChainOf(kept, m) /\ next = kept[m].sequence + kept[m].count
        /\ kept = retained
        BY KeptIsChain
  <1>2. ~Empty(wanted) /\ ~(Count(wanted) > MaxPerResponse) /\ m # 0
        /\ wanted.first = first /\ wanted.end = end
    <2>1. wanted.first = first /\ wanted.end = end BY DEF SequenceRange
    <2>2. ~Empty(wanted) BY <2>1, SMT DEF Empty
    <2>3. Count(wanted) \in Nat BY <2>1, SMT DEF Count, Empty
    <2>4. MaxPerResponse \in Nat BY VenueAssumption
    <2>5. ~(Count(wanted) > MaxPerResponse) BY <2>3, <2>4, SMT
    <2> QED BY <2>1, <2>2, <2>5, <1>1
  <1>3. have.first = kept[1].sequence /\ have.end = next
    <2>1. 1 \in 1 .. m /\ m \in 1 .. m /\ 1 - 1 = 0 BY <1>1, SMT
    <2>2. kept[1] = RetainedAt(f, 0) /\ kept[m] = RetainedAt(f, m - 1) BY <2>1, <1>1
    <2> HIDE DEF kept
    <2>3. have = SequenceRange(Carried(RetainedAt(f, 0)).first, Carried(RetainedAt(f, m - 1)).end)
          BY <1>2 DEF Available
    <2> HIDE DEF have
    <2> QED BY <2>2, <2>3, <1>1 DEF Carried, SequenceRange
  <1>4. /\ first < kept[1].sequence => answer = Answer("retransmit_window_exceeded", NoRange, <<>>)
        /\ ~(first < kept[1].sequence)
             => answer = Answer("ok", ServedOf(NoRange, packets), packets)
    <2>1. ~(first >= next)
      <3>1. next \in Nat BY KeptIsChain
      <3> QED BY <3>1, SMT
    <2>2. answer = IF first < have.first
                   THEN Answer("retransmit_window_exceeded", NoRange, <<>>)
                   ELSE IF first >= have.end THEN Answer("ok", NoRange, <<>>)
                   ELSE Answer("ok", ServedOf(NoRange, packets), packets)
      <3> HIDE DEF wanted, have
      <3>1. answer =
               IF wanted.first < have.first
               THEN Answer("retransmit_window_exceeded", NoRange, <<>>)
               ELSE IF wanted.first >= have.end THEN Answer("ok", NoRange, <<>>)
               ELSE Answer("ok", FoldLeft(ServeMore, NoRange, packets), packets)
            BY <1>2, Zenon DEF Serve, have
      <3> QED BY <3>1, <1>2 DEF ServedOf
    <2> HIDE DEF answer, have, packets, kept
    <2> QED BY <2>1, <2>2, <1>3
  <1>5. ASSUME ~(first < kept[1].sequence)
        PROVE  \E a, b : ServesSlice(f, data, wanted, a, b) /\ Bounds(kept, m, first, end, a, b)
    <2>0. first \in Int /\ end \in Int OBVIOUS
    <2>e. \E a, b : Bounds(kept, m, first, end, a, b)
      <3> HIDE DEF kept, m
      <3> QED BY <2>0, <1>1, BoundsExist
    <2>1. PICK a, b : Bounds(kept, m, first, end, a, b) BY <2>e
    <2>2. kept[1].sequence <= first /\ first < kept[m].sequence + kept[m].count
      <3>1. 1 \in 1 .. m BY <1>1, SMT
      <3>2. kept[1].sequence \in Nat BY <3>1, <1>1 DEF ChainOf
      <3> QED BY <3>2, <1>1, <1>5, SMT
    <2>3. Wanted(wanted, kept) = Slice(kept, a, b) BY <1>1, <2>1, BoundsOverlap
    <2>4. /\ a \in 1 .. m /\ b \in a .. m
          /\ kept[a].sequence <= first /\ first < kept[a].sequence + kept[a].count
          /\ \A i \in a .. b : kept[i].sequence < end
          /\ b = m \/ end <= kept[b].sequence + kept[b].count
      <3>1. ChainOf(kept, m) /\ m > 0 BY <1>1
      <3>2. first < end OBVIOUS
      <3> HIDE DEF kept, m
      <3> QED BY <3>1, <3>2, <2>0, <2>1, <2>2, BoundsCover
    <2>5. /\ a \in 1 .. m + 1 /\ b \in 0 .. m /\ a <= b + 1 /\ b - a + 1 > 0
          /\ 1 \in 1 .. b - a + 1 /\ b - a + 1 \in 1 .. b - a + 1
          /\ 1 + a - 1 = a /\ (b - a + 1) + a - 1 = b
          BY <1>1, <2>4, SMT
    <2> DEFINE c == Slice(kept, a, b)
               k == b - a + 1
    <2>6. c[1] = kept[a] /\ c[k] = kept[b] BY <2>5 DEF Slice
    <2> HIDE DEF kept, m
    <2>7. ChainOf(Slice(kept, a, b), b - a + 1) BY <1>1, <2>5, SliceIsChain
    <2> HIDE DEF c, k
    <2>8. ServedOf(NoRange, c) = SequenceRange(c[1].sequence, c[k].sequence + c[k].count)
          BY <2>5, <2>7, ServedSpan DEF c, k
    <2>9. packets = c BY <1>1, <2>3 DEF c
    <2>10. answer = Answer("ok", SequenceRange(kept[a].sequence, kept[b].sequence + kept[b].count), c)
           BY <1>4, <1>5, <2>6, <2>8, <2>9
    <2>11. /\ answer.error = "ok" /\ answer.packets = c
           /\ answer.served = SequenceRange(kept[a].sequence, kept[b].sequence + kept[b].count)
      <3> HIDE DEF answer
      <3> QED BY <2>10 DEF Answer
    <2> HIDE DEF answer, wanted
    <2>12. ServesSlice(f, data, wanted, a, b)
           BY <2>3, <2>4, <2>11, <1>2 DEF ServesSlice, kept, m, answer, c
    <2> QED BY <2>1, <2>12
  <1>6. first < kept[1].sequence => answer.error = "retransmit_window_exceeded"
    <2> HIDE DEF answer, kept
    <2> QED BY <1>4 DEF Answer
  <1> QED BY <1>5, <1>6

\* Where the verify tool enters and leaves its index.
Enters(c, n, first, k) ==
    /\ k <= n => c[k].sequence >= first
    /\ \A i \in 1 .. k - 1 : c[i].sequence < first
Leaves(c, n, end, k) ==
    /\ k < n => c[k + 1].sequence >= end
    /\ \A i \in 1 .. k : c[i].sequence < end

LEMMA EntersAndLeaves ==
    ASSUME NEW n, NEW c, ChainOf(c, n), NEW first \in Int
    PROVE  /\ \E k \in 1 .. n + 1 : Enters(c, n, first, k)
           /\ \E k \in 0 .. n : Leaves(c, n, first, k)
PROOF
  <1>1. PICK b \in 0 .. n : \A i \in 1 .. n : c[i].sequence < first <=> i <= b BY StartsBelow
  <1>2. n \in Nat /\ \A i \in 1 .. n : c[i].sequence \in Nat BY DEF ChainOf
  <1>3. \A i \in 1 .. b : c[i].sequence < first
    <2>1. \A i \in 1 .. b : i \in 1 .. n /\ i <= b BY <1>2, SMT
    <2> QED BY <2>1, <1>1
  <1>4. b < n => c[b + 1].sequence >= first
    <2> SUFFICES ASSUME b < n PROVE c[b + 1].sequence >= first OBVIOUS
    <2> DEFINE i == b + 1
               x == c[i].sequence
    <2>1. i \in 1 .. n /\ ~(i <= b) BY <1>2, SMT
    <2>2. ~(x < first) /\ x \in Nat BY <2>1, <1>1, <1>2
    <2> HIDE DEF x
    <2>3. x >= first BY <2>2, SMT
    <2> QED BY <2>3 DEF x
  <1>5. Leaves(c, n, first, b) BY <1>3, <1>4 DEF Leaves
  <1>6. Enters(c, n, first, b + 1)
    <2>1. (b + 1) - 1 = b /\ (b + 1 <= n => b < n) BY <1>2, SMT
    <2> QED BY <2>1, <1>3, <1>4 DEF Enters
  <1>7. b + 1 \in 1 .. n + 1 BY <1>2, SMT
  <1> QED BY <1>5, <1>6, <1>7

\* The packets from one before the entry up to the exit are all that are wanted.
LEMMA EntryIsEarly ==
    ASSUME NEW n, NEW c, ChainOf(c, n), NEW first \in Int, NEW end \in Int, first < end,
           NEW a, NEW b, Bounds(c, n, first, end, a, b),
           NEW lower \in 1 .. n + 1, Enters(c, n, first, lower),
           NEW past \in 0 .. n, Leaves(c, n, end, past)
    PROVE  /\ past = b
           /\ Greater(1, lower - 1) \in 1 .. n + 1 /\ Greater(1, lower - 1) <= a
PROOF
  <1> DEFINE start(i) == c[i].sequence
             g == Greater(1, lower - 1)
  <1>1. /\ n \in Nat /\ \A i \in 1 .. n : start(i) \in Nat /\ c[i].count \in Nat
        /\ \A i \in 1 .. n - 1 : start(i + 1) = start(i) + c[i].count
        BY DEF ChainOf
  <1>2. /\ a \in 1 .. n + 1 /\ b \in 0 .. n /\ a <= b + 1
        /\ \A i \in 1 .. n : start(i) < end <=> i <= b
        /\ \A i \in 1 .. n : first < start(i) + c[i].count <=> a <= i
        BY DEF Bounds
  <1>3. /\ past < n => start(past + 1) >= end
        /\ \A i \in 1 .. past : start(i) < end
        BY DEF Leaves
  <1>4. \A i \in 1 .. lower - 1 : start(i) < first BY DEF Enters
  <1> HIDE DEF start
  <1>5. ~(past < b)
    <2> SUFFICES ASSUME past < b PROVE FALSE OBVIOUS
    <2> DEFINE i == past + 1
    <2>1. i \in 1 .. n /\ i <= b /\ past < n BY <1>1, <1>2, SMT
    <2>2. start(i) < end /\ start(i) >= end /\ start(i) \in Nat BY <2>1, <1>1, <1>2, <1>3
    <2> QED BY <2>2, SMT
  <1>6. ~(b < past)
    <2> SUFFICES ASSUME b < past PROVE FALSE OBVIOUS
    <2>1. past \in 1 .. n /\ past \in 1 .. past /\ ~(past <= b) BY <1>1, <1>2, SMT
    <2> QED BY <2>1, <1>2, <1>3
  <1>7. past = b BY <1>1, <1>2, <1>5, <1>6, SMT
  <1>8. g \in 1 .. n + 1 BY <1>1, SMT DEF Greater
  <1>9. g <= a
    <2>1. CASE g = 1 BY <2>1, <1>2
    <2>2. CASE g # 1
      <3>1. g = lower - 1 BY <2>2 DEF Greater
      <3> SUFFICES ASSUME ~(g <= a) PROVE FALSE OBVIOUS
      <3> DEFINE i == a + 1
                 x == start(a)
                 y == c[a].count
      <3>2. a \in 1 .. n /\ a \in 1 .. n - 1 /\ i \in 1 .. lower - 1 /\ a <= a
        <4> HIDE DEF g
        <4> QED BY <3>1, <1>1, <1>2, SMT
      <3>3. first < x + y BY <3>2, <1>2
      <3>4. start(i) < first /\ start(i) = x + y BY <3>2, <1>1, <1>4
      <3>5. x \in Nat /\ y \in Nat BY <3>2, <1>1
      <3>6. x + y < first BY <3>4
      <3> HIDE DEF x, y
      <3> QED BY <3>3, <3>5, <3>6, SMT
    <2> QED BY <2>1, <2>2
  <1> QED BY <1>7, <1>8, <1>9

\* The verify tool's server answers with the packets from a to b.
LEMMA CaptureServesSlice ==
    ASSUME NEW data, data = Carrying(stream), data \in Seq(Datagrams),
           NEW n, n = Len(data), ChainOf(data, n),
           NEW first \in Int, NEW end \in Int, first < end,
           NEW a, NEW b, Bounds(data, n, first, end, a, b)
    PROVE  CaptureServes(SequenceRange(first, end)) = Slice(data, a, b)
PROOF
  <1> DEFINE wanted == SequenceRange(first, end)
             lower == CHOOSE k \in 1 .. n + 1 : Enters(data, n, first, k)
             past == CHOOSE k \in 0 .. n : Leaves(data, n, end, k)
             g == Greater(1, lower - 1)
             s == Slice(data, g, b)
             m == b - g + 1
  <1>1. BySequence(data) = data
    <2>1. data \in [1 .. n -> {data[i] : i \in 1 .. n}] OBVIOUS
    <2> QED BY <2>1, ChainIsSorted
  <1>2. wanted.first = first /\ wanted.end = end BY DEF SequenceRange
  <1>3. CaptureServes(wanted) = Wanted(wanted, SubSeq(data, g, past))
    <2> HIDE DEF wanted
    <2>1. CaptureServes(wanted) =
             LET low == CHOOSE k \in 1 .. n + 1 : Enters(data, n, wanted.first, k)
                 high == CHOOSE k \in 0 .. n : Leaves(data, n, wanted.end, k)
             IN  Wanted(wanted, SubSeq(data, Greater(1, low - 1), high))
          BY <1>1, Zenon DEF CaptureServes, Enters, Leaves
    <2> QED BY <2>1, <1>2
  <1>4. lower \in 1 .. n + 1 /\ Enters(data, n, first, lower)
    <2>1. \E k \in 1 .. n + 1 : Enters(data, n, first, k) BY EntersAndLeaves
    <2> QED BY <2>1, Zenon
  <1>5. past \in 0 .. n /\ Leaves(data, n, end, past)
    <2>1. \E k \in 0 .. n : Leaves(data, n, end, k) BY EntersAndLeaves
    <2> QED BY <2>1, Zenon
  <1> HIDE DEF lower, past, wanted
  <1>6. past = b /\ g \in 1 .. n + 1 /\ g <= a BY <1>4, <1>5, EntryIsEarly
  <1> HIDE DEF g
  <1>7. a \in 1 .. n + 1 /\ b \in 0 .. n /\ a <= b + 1 /\ n \in Nat BY DEF Bounds, ChainOf
  <1>8. SubSeq(data, g, past) = s BY <1>6, <1>7, SubSeqIsSlice
  <1>9. /\ m \in Nat /\ a - g + 1 \in 1 .. m + 1 /\ m \in 0 .. m
        /\ \A i \in 1 .. m : /\ i + g - 1 \in 1 .. n /\ i + g - 1 <= b /\ i <= m
                             /\ (a <= i + g - 1 <=> a - g + 1 <= i)
        BY <1>6, <1>7, SMT
  <1>10. s = [i \in 1 .. m |-> data[i + g - 1]] BY DEF Slice
  <1>11. \A i \in 1 .. n : Overlaps(Carried(data[i]), wanted) <=> a <= i /\ i <= b
         BY BoundsOverlap DEF wanted
  <1> HIDE DEF s, m
  <1>12. \A i \in 1 .. m : Overlaps(Carried(s[i]), wanted) <=> a - g + 1 <= i /\ i <= m
    <2> TAKE i \in 1 .. m
    <2>1. s[i] = data[i + g - 1] BY <1>10
    <2>2. Overlaps(Carried(data[i + g - 1]), wanted) <=> a <= i + g - 1 /\ i + g - 1 <= b
          BY <1>9, <1>11
    <2> QED BY <2>1, <2>2, <1>9
  <1>13. Wanted(wanted, s) = Slice(s, a - g + 1, m)
    <2>1. DOMAIN s = 1 .. m BY <1>10
    <2> QED BY <2>1, <1>9, <1>12, WantedIsASlice
  <1>14. Slice(s, a - g + 1, m) = Slice(data, a, b)
    <2>1. a \in Int /\ b \in Int BY <1>7
    <2>2. g \in Int /\ g <= a BY <1>6, <1>7
    <2>3. Slice(Slice(data, g, b), a - g + 1, b - g + 1) = Slice(data, a, b)
          BY <2>1, <2>2, SliceOfSlice
    <2> QED BY <2>3 DEF s, m
  <1> QED BY <1>3, <1>8, <1>13, <1>14 DEF wanted

\* What the property calls the last packets are the ones the ring holds.
LEMMA KeptAreTheLast ==
    ASSUME NEW f \in Facilities, NEW data \in Seq(Datagrams), HoldsLast(f, data)
    PROVE  /\ SubSeq(data, Greater(1, Len(data) - RetainedPackets + 1), Len(data))
                = Kept(f, data)
           /\ f.count \in 0 .. Len(data) /\ (f.count = 0 <=> data = <<>>)
           /\ Kept(f, data) \in Seq(Datagrams) /\ Len(Kept(f, data)) = f.count
           /\ f.count = Len(data) => Kept(f, data) = data
PROOF
  <1> DEFINE n == Len(data)
             m == f.count
             a == n - m + 1
  <1>1. /\ m \in 0 .. n /\ (m = 0 <=> data = <<>>)
        /\ Greater(1, n - RetainedPackets + 1) = a
        BY RetainedAreKept
  <1>2. n \in Nat /\ data = [i \in 1 .. n |-> data[i]] /\ \A i \in 1 .. n : data[i] \in Datagrams
        OBVIOUS
  <1> HIDE DEF n, m
  <1>3. /\ a \in 1 .. n + 1 /\ n \in 0 .. n /\ n - a + 1 = m /\ m \in Nat
        /\ \A i \in 1 .. m : i + a - 1 \in 1 .. n
        /\ m = n => a = 1
        BY <1>1, <1>2, SMT
  <1>4. SubSeq(data, a, n) = Slice(data, a, n) BY <1>3, SubSeqIsSlice DEF n
  <1>5. Slice(data, a, n) = [i \in 1 .. m |-> data[i + a - 1]] BY <1>3 DEF Slice
  <1> DEFINE k == Slice(data, a, n)
  <1> HIDE DEF a
  <1>6. \A i \in 1 .. m : k[i] \in Datagrams BY <1>2, <1>3, <1>5
  <1>7. k \in Seq(Datagrams) /\ Len(k) = m BY <1>3, <1>5, <1>6
  <1>8. m = n => k = data
    <2> SUFFICES ASSUME m = n PROVE k = data OBVIOUS
    <2>1. \A i \in 1 .. m : i + a - 1 = i BY <1>3, SMT
    <2>2. k = [i \in 1 .. n |-> data[i]] BY <2>1, <1>5
    <2> QED BY <2>2, <1>2
  <1>9. Kept(f, data) = k BY DEF Kept, a, m, n
  <1> HIDE DEF k
  <1> QED BY <1>1, <1>4, <1>7, <1>8, <1>9 DEF n, m, k

\* Nothing is below a packet that starts no later, or above one that ends no earlier.
LEMMA SpanCovers ==
    ASSUME NEW first \in Int, NEW end \in Int, NEW low \in Int, NEW high \in Int,
           NEW next \in Int, low <= first, end <= high \/ high = next
    PROVE  Numbers(SequenceRange(first, end)) \cap 1 .. next - 1
              \subseteq Numbers(SequenceRange(low, high))
PROOF
  <1> SUFFICES ASSUME NEW x \in Numbers(SequenceRange(first, end)), x \in 1 .. next - 1
               PROVE  x \in Numbers(SequenceRange(low, high))
      OBVIOUS
  <1>1. x \in first .. end - 1 BY DEF Numbers, SequenceRange
  <1>2. x \in low .. high - 1 BY <1>1, SMT
  <1> QED BY <1>2 DEF Numbers, SequenceRange

LEMMA AnswersOne ==
    ASSUME StreamInv, FacilityInv, WindowInv,
           NEW first \in 1 .. pub.next, NEW end \in 1 .. pub.next, first < end,
           Count(SequenceRange(first, end)) <= MaxPerResponse
    PROVE  LET data == Carrying(stream)
               kept == Kept(facility, data)
               wanted == SequenceRange(first, end)
               answer == Serve(facility, wanted)
           IN  IF kept # <<>> /\ first < kept[1].sequence
               THEN answer.error = "retransmit_window_exceeded"
               ELSE /\ answer.packets = Wanted(wanted, kept)
                    /\ kept # <<>> => Numbers(wanted) \cap 1..Carried(kept[Len(kept)]).end - 1
                                         \subseteq Numbers(answer.served)
                    /\ Len(kept) = Len(data) => CaptureServes(wanted) = answer.packets
PROOF
  <1> DEFINE data == Carrying(stream)
             kept == Kept(facility, data)
             wanted == SequenceRange(first, end)
             answer == Serve(facility, wanted)
             m == facility.count
             n == Len(data)
             next == pub.next
  <1>1. facility \in Facilities BY DEF FacilityInv, FacilityOk
  <1>2. Window(facility, data, next) BY DEF WindowInv
  <1> HIDE DEF data, next, wanted
  <1>3. data \in Seq(Datagrams) /\ HoldsLast(facility, data) /\ ChainOf(data, n) BY <1>2 DEF Window
  <1>4. /\ m \in 0 .. n /\ (m = 0 <=> data = <<>>)
        /\ kept \in Seq(Datagrams) /\ Len(kept) = m
        /\ m = n => kept = data
        BY <1>1, <1>3, KeptAreTheLast
  <1>5. data # <<>>
    <2> SUFFICES ASSUME data = <<>> PROVE FALSE OBVIOUS
    <2>1. next = 1 BY <1>2 DEF Window
    <2>2. first \in 1 .. next /\ end \in 1 .. next BY DEF next
    <2> QED BY <2>1, <2>2, SMT
  <1>6. /\ m \in Nat /\ m > 0 /\ ChainOf(kept, m)
        /\ next = kept[m].sequence + kept[m].count /\ next \in Nat
        BY <1>1, <1>2, <1>5, KeptIsChain
  <1>7. first \in Nat /\ end \in Nat /\ first < next
    <2>1. first \in 1 .. next /\ end \in 1 .. next BY DEF next
    <2> QED BY <2>1, <1>6, SMT
  <1>8. Count(wanted) <= MaxPerResponse BY DEF wanted
  <1>9. /\ first < kept[1].sequence => answer.error = "retransmit_window_exceeded"
        /\ ~(first < kept[1].sequence)
             => \E a, b : ServesSlice(facility, data, wanted, a, b) /\ Bounds(kept, m, first, end, a, b)
        BY <1>1, <1>2, <1>5, <1>7, <1>8, ServesTheWindow DEF wanted
  <1> HIDE DEF kept, answer
  <1>10. kept # <<>>
    <2> SUFFICES ASSUME kept = <<>> PROVE FALSE OBVIOUS
    <2>1. m = 0 BY <1>4
    <2> QED BY <2>1, <1>6, SMT
  <1>11. ASSUME ~(first < kept[1].sequence)
         PROVE  /\ answer.packets = Wanted(wanted, kept)
                /\ Numbers(wanted) \cap 1..Carried(kept[Len(kept)]).end - 1
                     \subseteq Numbers(answer.served)
                /\ Len(kept) = n => CaptureServes(wanted) = answer.packets
    <2>1. PICK a, b : ServesSlice(facility, data, wanted, a, b) /\ Bounds(kept, m, first, end, a, b)
          BY <1>9, <1>11
    <2>2. wanted.first = first /\ wanted.end = end BY DEF wanted, SequenceRange
    <2>3. /\ a \in 1 .. m /\ b \in a .. m
          /\ answer.packets = Slice(kept, a, b) /\ answer.packets = Wanted(wanted, kept)
          /\ answer.served = SequenceRange(kept[a].sequence, kept[b].sequence + kept[b].count)
          /\ kept[a].sequence <= first
          /\ b = m \/ end <= kept[b].sequence + kept[b].count
          BY <2>1, <2>2 DEF ServesSlice, kept, answer
    <2>4. Carried(kept[Len(kept)]).end = next BY <1>4, <1>6 DEF Carried, SequenceRange
    <2>5. a \in 1 .. m /\ b \in 1 .. m BY <2>3, <1>6, SMT
    <2>6. kept[a].sequence \in Int /\ kept[b].sequence + kept[b].count \in Int
      <3>1. /\ kept[a].sequence \in Nat /\ kept[b].sequence \in Nat /\ kept[b].count \in Nat
            BY <2>5, <1>6 DEF ChainOf
      <3> QED BY <3>1
    <2>7. end <= kept[b].sequence + kept[b].count \/ kept[b].sequence + kept[b].count = next
          BY <2>3, <1>6
    <2> DEFINE low == kept[a].sequence
               high == kept[b].sequence + kept[b].count
    <2>8. Numbers(SequenceRange(first, end)) \cap 1 .. next - 1
             \subseteq Numbers(SequenceRange(low, high))
      <3>1. low \in Int /\ high \in Int /\ low <= first /\ (end <= high \/ high = next)
            BY <2>3, <2>6, <2>7
      <3> HIDE DEF low, high
      <3> QED BY <3>1, <1>6, <1>7, SpanCovers
    <2>9. ASSUME Len(kept) = n PROVE CaptureServes(wanted) = answer.packets
      <3>1. m = n /\ kept = data BY <2>9, <1>4
      <3>2. Bounds(data, n, first, end, a, b) /\ answer.packets = Slice(data, a, b)
            BY <2>1, <2>3, <3>1
      <3>3. CaptureServes(SequenceRange(first, end)) = Slice(data, a, b)
            BY <3>2, <1>3, <1>7, CaptureServesSlice DEF data
      <3> QED BY <3>2, <3>3 DEF wanted
    <2> QED BY <2>3, <2>4, <2>8, <2>9 DEF wanted
  <1>12. first < kept[1].sequence => answer.error = "retransmit_window_exceeded" BY <1>9 DEF kept, answer
  <1> QED BY <1>10, <1>11, <1>12 DEF data, kept, answer, wanted

\* The facility answers from exactly the last packets that carried messages: an
\* older request is refused, the others are covered without a hole, and the server
\* over a whole capture agrees, for every retention, packing and length of stream.
THEOREM FeedAnswersFromTheWindow == Spec => []AnswersFromTheWindow
PROOF
  <1> DEFINE I == StreamInv /\ PackInv /\ FacilityInv /\ WindowInv
  <1>1. Init => I
        BY StreamHoldsAtFirst, PackHoldsAtFirst, ReceiverHoldsAtFirst, WindowHoldsAtFirst
  <1>2. I /\ [Next]_vars => I' BY StreamStep, PackStep, FacilityStep, WindowStep
  <1>3. I => AnswersFromTheWindow
    <2> SUFFICES ASSUME I PROVE AnswersFromTheWindow OBVIOUS
    <2> DEFINE data == Carrying(stream)
               kept == SubSeq(data, Greater(1, Len(data) - RetainedPackets + 1), Len(data))
    <2>1. kept = Kept(facility, data)
      <3>1. facility \in Facilities BY DEF FacilityInv, FacilityOk
      <3>2. data \in Seq(Datagrams) /\ HoldsLast(facility, data) BY DEF WindowInv, Window
      <3> HIDE DEF data
      <3> QED BY <3>1, <3>2, KeptAreTheLast
    <2> HIDE DEF kept
    <2>2. ASSUME NEW first \in 1 .. pub.next, NEW end \in 1 .. pub.next, first < end,
                 Count(SequenceRange(first, end)) <= MaxPerResponse
          PROVE  LET wanted == SequenceRange(first, end)
                     answer == Serve(facility, wanted)
                 IN  IF kept # <<>> /\ first < kept[1].sequence
                     THEN answer.error = "retransmit_window_exceeded"
                     ELSE /\ answer.packets = Wanted(wanted, kept)
                          /\ kept # <<>> =>
                                Numbers(wanted) \cap 1..Carried(kept[Len(kept)]).end - 1
                                   \subseteq Numbers(answer.served)
                          /\ Len(kept) = Len(data) => CaptureServes(wanted) = answer.packets
          BY <2>1, <2>2, AnswersOne
    <2> HIDE DEF data
    <2> QED BY <2>2, Zenon DEF AnswersFromTheWindow, kept, data
  <1> QED BY <1>1, <1>2, <1>3, PTL DEF Spec

-----------------------------------------------------------------------------
(* What an answer does to the holes of the receiver.                         *)

\* Where the holes of a set of numbers begin.
Edges(s) == {n \in s : n - 1 \notin s}

\* Closing a set of numbers from below opens no hole.
LEMMA ClosingOpensNoHole ==
    ASSUME NEW m \in SUBSET Nat, IsFiniteSet(m), NEW e \in Nat, Describable(m)
    PROVE  Describable(From(m, e))
PROOF
  <1> DEFINE u == From(m, e)
  <1>1. \A n : n \in u <=> n \in m /\ n >= e BY DEF From
  <1> HIDE DEF u
  <1>2. IsFiniteSet(Edges(m)) /\ Holes(m) = Cardinality(Edges(m)) /\ Holes(u) = Cardinality(Edges(u))
    <2>1. Edges(m) \in SUBSET m BY DEF Edges
    <2> QED BY <2>1, FS_Subset DEF Holes, Edges
  <1>3. Holes(m) \in Nat /\ Holes(m) <= MaxOutstandingGaps BY <1>2, FS_CardinalityType DEF Describable
  <1>4. \A n \in m : n \in Nat OBVIOUS
  <1>5. CASE \A n \in m : n >= e
    <2>1. u = m BY <1>1, <1>5
    <2> QED BY <2>1 DEF u
  <1>6. CASE \E n \in m : ~(n >= e)
    <2>1. PICK k \in m : \A n \in m : k <= n
      <3>1. m # {} BY <1>6
      <3> QED BY <3>1, LeastNumber
    <2>2. k < e
      <3>1. PICK n \in m : ~(n >= e) BY <1>6
      <3>2. k <= n /\ k \in Nat /\ n \in Nat BY <2>1
      <3> QED BY <3>1, <3>2, SMT
    <2>3. k \in Edges(m)
      <3>1. k - 1 \notin m
        <4> SUFFICES ASSUME k - 1 \in m PROVE FALSE OBVIOUS
        <4>1. k <= k - 1 /\ k \in Nat BY <2>1
        <4> QED BY <4>1, SMT
      <3> QED BY <3>1, <2>1 DEF Edges
    <2> DEFINE rest == Edges(m) \ {k}
               more == rest \cup {e}
    <2>4. IsFiniteSet(rest) /\ Cardinality(rest) = Cardinality(Edges(m)) - 1
          BY <1>2, <2>3, FS_RemoveElement
    <2>5. /\ IsFiniteSet(more) /\ Cardinality(more) \in Nat
          /\ Cardinality(more) = Cardinality(rest) \/ Cardinality(more) = Cardinality(rest) + 1
      <3> HIDE DEF rest
      <3>1. /\ IsFiniteSet(more)
            /\ Cardinality(more) = IF e \in rest THEN Cardinality(rest) ELSE Cardinality(rest) + 1
            BY <2>4, FS_AddElement
      <3> QED BY <3>1, FS_CardinalityType
    <2>6. Edges(u) \subseteq more
      <3> SUFFICES ASSUME NEW n \in Edges(u), n # e PROVE n \in rest OBVIOUS
      <3>1. n \in m /\ n >= e /\ n - 1 \notin u /\ n \in Nat BY <1>1, <1>4 DEF Edges
      <3>2. n - 1 >= e /\ n # k
        <4>1. k \in Nat BY <2>1
        <4> QED BY <4>1, <3>1, <2>2, SMT
      <3>3. n - 1 \notin m BY <3>1, <3>2, <1>1
      <3> QED BY <3>1, <3>2, <3>3 DEF Edges
    <2> HIDE DEF more, rest
    <2>7. Cardinality(Edges(u)) <= Cardinality(more) /\ Cardinality(Edges(u)) \in Nat
          BY <2>5, <2>6, FS_Subset, FS_CardinalityType
    <2>8. Holes(u) <= Holes(m)
      <3> DEFINE x == Cardinality(Edges(u))
                 y == Cardinality(more)
                 z == Cardinality(rest)
                 w == Cardinality(Edges(m))
      <3>1. x \in Nat /\ y \in Nat /\ w \in Nat /\ x <= y /\ z = w - 1 /\ (y = z \/ y = z + 1)
            BY <2>4, <2>5, <2>7, <1>2, <1>3
      <3> HIDE DEF x, y, z, w
      <3>2. x <= w BY <3>1, SMT
      <3> QED BY <3>2, <1>2 DEF x, w
    <2>9. Holes(u) <= MaxOutstandingGaps
      <3> DEFINE x == Holes(u)
                 y == Holes(m)
                 z == MaxOutstandingGaps
      <3>1. x \in Nat /\ y \in Nat /\ z \in Nat /\ x <= y /\ y <= z
            BY <1>2, <1>3, <2>7, <2>8, HoleSetAssumption
      <3> HIDE DEF x, y, z
      <3>2. x <= z BY <3>1, SMT
      <3> QED BY <3>2 DEF x, z
    <2> QED BY <2>9 DEF Describable, u
  <1> QED BY <1>5, <1>6

\* answer(): the lowest hole starts at the lowest number and ends within the expectation.
LEMMA LowestHole ==
    ASSUME NEW top \in Nat, NEW m \in SUBSET (1 .. top), m # {}
    PROVE  \E first, end \in Nat :
              /\ FirstHole(m) = SequenceRange(first, end)
              /\ first \in m /\ \A n \in m : first <= n
              /\ first < end /\ end <= top + 1
PROOF
  <1> DEFINE least == Min(m)
             most == Max(m)
             S == {n \in least .. most + 1 : n \notin m}
             end == Min(S)
  <1>n. m \in SUBSET Nat OBVIOUS
  <1>1. least \in m /\ \A n \in m : least <= n
    <2>1. \E x \in m : \A y \in m : x <= y BY <1>n, LeastNumber
    <2> DEFINE c == CHOOSE x \in m : \A y \in m : x <= y
    <2>2. least = c BY DEF Min
    <2>3. c \in m /\ \A y \in m : c <= y BY <2>1
    <2> QED BY <2>2, <2>3
  <1>2. most \in m /\ \A n \in m : n <= most BY GreatestNumber
  <1>3. FirstHole(m) = SequenceRange(least, end) BY DEF FirstHole
  <1> HIDE DEF least, most
  <1>4. least \in Nat /\ most \in Nat /\ most <= top /\ least <= most BY <1>1, <1>2
  <1>5. S \in SUBSET Nat /\ most + 1 \in S
    <2>1. \A n \in least .. most + 1 : n \in Nat BY <1>4, SMT
    <2>2. most + 1 \notin m
      <3> SUFFICES ASSUME most + 1 \in m PROVE FALSE OBVIOUS
      <3>1. most + 1 <= most BY <1>2
      <3> QED BY <3>1, <1>4, SMT
    <2>3. most + 1 \in least .. most + 1 BY <1>4, SMT
    <2> QED BY <2>1, <2>2, <2>3
  <1>6. end \in S
    <2> HIDE DEF S
    <2> DEFINE c == CHOOSE x \in S : \A y \in S : x <= y
    <2>1. \E x \in S : \A y \in S : x <= y
      <3>1. S # {} BY <1>5
      <3> QED BY <3>1, <1>5, LeastNumber
    <2>2. c \in S BY <2>1
    <2>3. end = c BY DEF Min
    <2> QED BY <2>2, <2>3
  <1> HIDE DEF end
  <1>7. end \in least .. most + 1 /\ end \notin m BY <1>6
  <1>8. end # least BY <1>1, <1>7
  <1>9. end \in Nat /\ least < end /\ end <= top + 1 BY <1>4, <1>7, <1>8, SMT
  <1> QED BY <1>1, <1>3, <1>4, <1>9

\* A tracker described well stays so when it is told of the numbers below its last.
LEMMA ObserveFills ==
    ASSUME NEW t, InSession(t), NEW first \in Nat, first < t.expected, NEW n \in Nat,
           NEW m, m = t.missing \ NumbersFrom(first, n), Describable(m)
    PROVE  LET seen == Observe(t, Session, SequenceRange(first, first + n))
           IN  /\ seen.outcome # "capacity_exceeded" /\ seen.tracker.missing = m
               /\ seen.tracker.expected \in Nat /\ seen.tracker.expected >= t.expected
PROOF
  <1> DEFINE end == first + n
             arrived == SequenceRange(first, end)
             seen == Observe(t, Session, arrived)
             expected == t.expected
             e == Greater(expected, end)
             recovered == Cardinality(t.missing \cap Numbers(arrived))
             u == [t EXCEPT !.missing = m, !.expected = e]
  <1>1. t \in Accounts /\ t.started /\ t.session = Session /\ expected \in Nat
        BY DEF InSession, Accounts
  <1>2. arrived.first = first /\ arrived.end = end /\ end \in Nat BY DEF SequenceRange
  <1>3. first # expected /\ ~(first > expected)
    <2>1. first < expected OBVIOUS
    <2> HIDE DEF expected
    <2> QED BY <2>1, <1>1, SMT
  <1>4. Filled(t.missing, arrived) = m
    <2>1. Numbers(arrived) = first .. end - 1 BY <1>2 DEF Numbers
    <2>2. \A k : k \in first .. end - 1 <=> k \in Nat /\ first <= k /\ k < first + n BY SMT
    <2>3. Numbers(arrived) = NumbersFrom(first, n) BY <2>1, <2>2 DEF NumbersFrom
    <2> QED BY <2>3 DEF Filled
  <1>5. e \in Nat /\ e >= expected
    <2> HIDE DEF expected, end
    <2> QED BY <1>1, <1>2, SMT DEF Greater
  <1>6. seen = HandleBehind(t, arrived) BY <1>1, <1>2, <1>3 DEF Observe
  <1>7. HandleBehind(t, arrived) =
           IF ~Describable(Filled(t.missing, arrived))
           THEN Observation(t, "capacity_exceeded", NoRange, 0)
           ELSE IF recovered = 0
           THEN Observation([t EXCEPT !.missing = Filled(t.missing, arrived),
                                      !.expected = Greater(t.expected, arrived.end)],
                            "duplicate", NoRange, 0)
           ELSE Observation([t EXCEPT !.missing = Filled(t.missing, arrived),
                                      !.expected = Greater(t.expected, arrived.end)],
                            "gap_filled", arrived, recovered)
        BY Zenon DEF HandleBehind
  <1>8. u.missing = m /\ u.expected = e BY <1>1 DEF Accounts
  <1> HIDE DEF recovered, e
  <1>9. \/ seen = Observation(u, "duplicate", NoRange, 0)
        \/ seen = Observation(u, "gap_filled", arrived, recovered)
    <2>1. Greater(t.expected, arrived.end) = e BY <1>2 DEF e
    <2> HIDE DEF seen, arrived
    <2> QED BY <2>1, <1>4, <1>6, <1>7
  <1>o. \A x, o, r, k : /\ Observation(x, o, r, k).tracker = x
                        /\ Observation(x, o, r, k).outcome = o
        BY DEF Observation
  <1> HIDE DEF u, seen
  <1>10. seen.tracker = u /\ seen.outcome # "capacity_exceeded" BY <1>9, <1>o
  <1> QED BY <1>5, <1>8, <1>10 DEF seen, arrived, end

\* A packet of the stream that starts below the expectation closes what it carries.
LEMMA ReceiveFills ==
    ASSUME NEW bs, BodiesOk(bs), NEW rx, Keeps(rx, bs), NEW p, Carries(protocol, p, bs),
           p.sequence < rx.tracker.expected,
           NEW m, m = rx.tracker.missing \ NumbersFrom(p.sequence, p.count), Describable(m)
    PROVE  /\ Receive(rx, p).tracker.missing = m
           /\ Receive(rx, p).tracker.expected \in Nat
           /\ Receive(rx, p).tracker.expected >= rx.tracker.expected
PROOF
  <1> DEFINE t == rx.tracker
             first == p.sequence
             n == p.count
             arrived == SequenceRange(first, NextSequence(protocol, p))
             seen == Observe(t, p.session, arrived)
  <1>1. /\ Drain(protocol, p).error = "ok" /\ Remaining(protocol, p) = n
        /\ Good(protocol, p, bs)
        BY CarriedDrains
  <1>2. /\ p.session = Session /\ first \in Nat /\ n \in Nat
        /\ NextSequence(protocol, p) = first + n
        BY <1>1 DEF Good
  <1>3. InSession(t) BY DEF Keeps
  <1>4. seen = Observe(t, Session, SequenceRange(first, first + n)) BY <1>2
  <1>5. /\ seen.outcome # "capacity_exceeded" /\ seen.tracker.missing = m
        /\ seen.tracker.expected \in Nat /\ seen.tracker.expected >= t.expected
    <2> HIDE DEF seen
    <2> QED BY <1>2, <1>3, <1>4, ObserveFills
  <1>6. \E book : Receive(rx, p) =
           IF Drain(protocol, p).error # "ok" \/ seen.outcome = "capacity_exceeded" THEN rx
           ELSE [tracker |-> seen.tracker, book |-> book]
        BY Zenon DEF Receive
  <1>7. PICK book : Receive(rx, p) = [tracker |-> seen.tracker, book |-> book]
        BY <1>1, <1>5, <1>6
  <1> HIDE DEF seen
  <1>8. Receive(rx, p).tracker = seen.tracker BY <1>7
  <1> QED BY <1>5, <1>8

\* The packets of a chain that starts at or below the lowest number missing close,
\* one after the other, everything below the end of the last.
LEMMA ChainCloses ==
    ASSUME NEW bs, BodiesOk(bs), NEW rx, Keeps(rx, bs), NEW n, NEW c, ChainOf(c, n), n > 0,
           \A i \in 1 .. n : Carries(protocol, c[i], bs) /\ c[i].sequence < rx.tracker.expected,
           \A m \in rx.tracker.missing : c[1].sequence <= m
    PROVE  ReceivedOn(rx, c).tracker.missing
              = From(rx.tracker.missing, c[n].sequence + c[n].count)
PROOF
  <1> DEFINE A == {r \in Receivers : Keeps(r, bs)}
             M == rx.tracker.missing
             top == rx.tracker.expected
             start(i) == c[i].sequence
             size(i) == c[i].count
             stop(k) == IF k = 0 THEN start(1) ELSE start(k) + size(k)
  <1>1. /\ n \in Nat /\ DOMAIN c = 1 .. n
        /\ \A i \in 1 .. n : start(i) \in Nat /\ size(i) \in Nat
        /\ \A i \in 1 .. n - 1 : start(i + 1) = start(i) + size(i)
        BY DEF ChainOf
  <1>2. /\ M \in SUBSET Nat /\ top \in Nat /\ Describable(M) /\ \A m \in M : m < top
        BY DEF Keeps, InSession, Accounts
  <1>3. IsFiniteSet(M)
    <2> HIDE DEF M, top
    <2>1. \A m \in M : m <= top
      <3> TAKE m \in M
      <3>1. m < top /\ m \in Nat BY <1>2
      <3> QED BY <3>1, <1>2, SMT
    <2> QED BY <2>1, <1>2, FS_BoundedSetOfNaturals
  <1>4. \A i \in 1 .. n : Carries(protocol, c[i], bs) /\ start(i) < top OBVIOUS
  <1>5. \A m \in M : start(1) <= m OBVIOUS
  <1>6. rx \in A BY DEF Keeps
  <1>7. \A a \in A, i \in 1 .. n : Receive(a, c[i]) \in A
    <2> TAKE a \in A, i \in 1 .. n
    <2>1. Good(protocol, c[i], bs) BY <1>4, CarriedDrains
    <2>2. Keeps(Receive(a, c[i]), bs) BY <2>1, ReceiveKeeps
    <2> QED BY <2>2 DEF Keeps
  <1>8. \A a \in A : Keeps(a, bs) OBVIOUS
  <1> HIDE DEF A, M, top, start, size
  <1>9. \E v : ReceiveWalks(v, A, rx, n, c) BY <1>1, <1>6, <1>7, ReceiveWalk
  <1>10. PICK v : /\ v \in [0 .. n -> A] /\ v[0] = rx /\ v[n] = ReceivedOn(rx, c)
                  /\ \A k \in 1 .. n : v[k] = Receive(v[k - 1], c[k])
         BY <1>9 DEF ReceiveWalks
  <1> DEFINE At(k) == /\ v[k].tracker.missing = From(M, stop(k))
                      /\ v[k].tracker.expected \in Nat /\ v[k].tracker.expected >= top
             S == {k \in Nat : k <= n => At(k)}
  <1>11. 0 \in S
    <2>1. stop(0) = start(1) OBVIOUS
    <2>2. \A m \in M : m >= start(1)
      <3> TAKE m \in M
      <3>1. start(1) <= m /\ m \in Nat /\ start(1) \in Nat
        <4>1. 1 \in 1 .. n BY <1>1, SMT
        <4> QED BY <4>1, <1>1, <1>2, <1>5
      <3> QED BY <3>1, SMT
    <2>3. From(M, start(1)) = M BY <2>2 DEF From
    <2>4. top >= top BY <1>2
    <2>5. At(0) BY <2>1, <2>3, <2>4, <1>2, <1>10 DEF M, top
    <2> HIDE DEF At
    <2> QED BY <2>5
  <1>12. \A k \in S : k + 1 \in S
    <2> SUFFICES ASSUME NEW k \in Nat, k <= n => At(k), k + 1 <= n PROVE At(k + 1) OBVIOUS
    <2> DEFINE j == k + 1
               before == v[k]
               low == start(j)
               many == size(j)
    <2>1. k <= n /\ j \in 1 .. n /\ j - 1 = k /\ k \in 0 .. n /\ j # 0
          /\ (k # 0 => k \in 1 .. n - 1)
          BY <1>1, SMT
    <2>2. stop(k) = low
      <3>1. CASE k = 0 BY <3>1
      <3>2. CASE k # 0 BY <3>2, <2>1, <1>1
      <3> QED BY <3>1, <3>2
    <2>3. stop(j) = low + many BY <2>1
    <2>4. At(k) BY <2>1
    <2>5. v[j] = Receive(before, c[j]) /\ before \in A BY <2>1, <1>10
    <2>6. low \in Nat /\ many \in Nat /\ low < top /\ Carries(protocol, c[j], bs)
          BY <2>1, <1>1, <1>4
    <2> HIDE DEF j, before, low, many
    <2>7. /\ before.tracker.missing = From(M, low)
          /\ before.tracker.expected \in Nat /\ before.tracker.expected >= top
          BY <2>2, <2>4 DEF before
    <2>8. low < before.tracker.expected BY <2>6, <2>7, <1>2
    <2>9. From(M, low) \ NumbersFrom(low, many) = From(M, low + many)
      <3>1. \A m \in Nat : m >= low /\ ~(low <= m /\ m < low + many) <=> m >= low + many
            BY <2>6, SMT
      <3>2. \A m : m \in From(M, low) \ NumbersFrom(low, many)
                     <=> m \in M /\ m >= low /\ ~(low <= m /\ m < low + many)
            BY <1>2 DEF From, NumbersFrom
      <3> QED BY <3>1, <3>2, <1>2 DEF From
    <2>10. Describable(From(M, low + many)) BY <2>6, <1>2, <1>3, ClosingOpensNoHole
    <2>11. Keeps(before, bs) BY <2>5, <1>8
    <2>12. c[j].sequence = low /\ c[j].count = many BY DEF low, many, start, size
    <2>13. /\ Receive(before, c[j]).tracker.missing = From(M, low + many)
           /\ Receive(before, c[j]).tracker.expected \in Nat
           /\ Receive(before, c[j]).tracker.expected >= before.tracker.expected
           BY <2>6, <2>7, <2>8, <2>9, <2>10, <2>11, <2>12, ReceiveFills
    <2>14. Receive(before, c[j]).tracker.expected >= top BY <2>7, <2>13, <1>2
    <2>15. At(j) BY <2>3, <2>5, <2>13, <2>14
    <2> QED BY <2>15 DEF j
  <1>13. S = Nat
    <2>1. S \in SUBSET Nat OBVIOUS
    <2> HIDE DEF S
    <2> QED BY <2>1, <1>11, <1>12, NumbersByInduction
  <1>14. At(n)
    <2>1. n \in Nat /\ n <= n
      <3>1. n \in Nat BY <1>1
      <3> HIDE DEF stop, At, S
      <3> QED BY <3>1, SMT
    <2>2. n \in S
      <3> HIDE DEF S
      <3> QED BY <2>1, <1>13
    <2> HIDE DEF At
    <2> QED BY <2>1, <2>2
  <1>15. n # 0 BY <1>1
  <1>16. v[n].tracker.missing = From(M, start(n) + size(n)) BY <1>14, <1>15
  <1> QED BY <1>10, <1>16 DEF M, start, size

\* What is asked for is refused, or the answer leaves none of it missing.
LEMMA HoleCloses ==
    ASSUME PackInv, FacilityInv, WindowInv, NEW rx, Keeps(rx, bodies), ~pub.open,
           rx.tracker.missing # {}
    PROVE  LET hole == FirstHole(rx.tracker.missing)
               answer == Serve(facility, hole)
           IN  \/ answer.error # "ok"
               \/ Numbers(hole) \cap ReceivedOn(rx, answer.packets).tracker.missing = {}
PROOF
  <1> DEFINE M == rx.tracker.missing
             expected == rx.tracker.expected
             top == expected - 1
             hole == FirstHole(M)
             answer == Serve(facility, hole)
             data == Carrying(stream)
             kept == Kept(facility, data)
             m == facility.count
             next == pub.next
             size == Len(bodies)
  <1>1. /\ M \in SUBSET Nat /\ expected \in Nat /\ expected > 0 /\ expected <= size + 1
        /\ \A k \in M : 0 < k /\ k < expected
        BY DEF Keeps, InSession, Accounts
  <1>2. BodiesOk(bodies) /\ size \in Nat /\ next = size + 1
        BY DEF PackInv, BodiesOk, PubCarries
  <1>3. facility \in Facilities /\ FacilityOk(facility, bodies) BY DEF FacilityInv, FacilityOk
  <1>4. Window(facility, data, next) BY DEF WindowInv
  <1>5. M # {} OBVIOUS
  <1>a. Keeps(rx, bodies) OBVIOUS
  <1> HIDE DEF M, expected, data, next, size
  <1>6. top \in Nat /\ M \in SUBSET (1 .. top)
    <2>1. \A k \in M : k \in 1 .. top
      <3> TAKE k \in M
      <3>1. k \in Nat /\ 0 < k /\ k < expected BY <1>1
      <3> QED BY <3>1, <1>1, SMT
    <2> QED BY <2>1, <1>1, SMT
  <1>7. PICK first \in Nat, end \in Nat :
           /\ hole = SequenceRange(first, end)
           /\ first \in M /\ \A k \in M : first <= k
           /\ first < end /\ end <= top + 1
        BY <1>5, <1>6, LowestHole
  <1>8. /\ first > 0 /\ end <= expected /\ end <= next /\ first < next /\ next \in Nat
    <2>1. 0 < first /\ first < expected BY <1>1, <1>7
    <2> QED BY <2>1, <1>1, <1>2, <1>7, SMT
  <1> HIDE DEF hole
  <1>9. data # <<>>
    <2> SUFFICES ASSUME data = <<>> PROVE FALSE OBVIOUS
    <2>1. next = 1 BY <1>4 DEF Window
    <2> QED BY <2>1, <1>8, SMT
  <1>10. CASE Count(hole) > MaxPerResponse
    <2>1. first < end => ~Empty(hole) BY <1>7, SMT DEF Empty, SequenceRange
    <2>2. answer = Answer("capacity_exceeded", NoRange, <<>>)
          BY <2>1, <1>7, <1>10 DEF Serve
    <2>3. answer.error # "ok"
      <3> HIDE DEF answer
      <3> QED BY <2>2 DEF Answer
    <2> QED BY <2>3 DEF M, hole
  <1>11. CASE ~(Count(hole) > MaxPerResponse)
    <2>1. Count(SequenceRange(first, end)) <= MaxPerResponse
      <3>1. Count(hole) \in Nat BY <1>7, SMT DEF Count, Empty, SequenceRange
      <3>2. MaxPerResponse \in Nat BY VenueAssumption
      <3> DEFINE x == Count(hole)
      <3>3. x <= MaxPerResponse
        <4>1. x \in Nat /\ ~(x > MaxPerResponse) BY <3>1, <1>11
        <4> HIDE DEF x
        <4> QED BY <4>1, <3>2, SMT
      <3> QED BY <3>3, <1>7
    <2>2. /\ first < kept[1].sequence => answer.error = "retransmit_window_exceeded"
          /\ ~(first < kept[1].sequence) =>
                \E a, b : ServesSlice(facility, data, hole, a, b)
          BY <2>1, <1>3, <1>4, <1>7, <1>8, <1>9, ServesTheWindow
    <2>3. /\ m \in Nat /\ m > 0 /\ ChainOf(kept, m)
          /\ next = kept[m].sequence + kept[m].count
          BY <1>3, <1>4, <1>9, KeptIsChain
    <2> HIDE DEF answer, kept, m
    <2>4. CASE first < kept[1].sequence BY <2>2, <2>4 DEF M, hole, answer
    <2>5. CASE ~(first < kept[1].sequence)
      <3>1. PICK a, b : ServesSlice(facility, data, hole, a, b) BY <2>2, <2>5
      <3>2. hole.first = first /\ hole.end = end BY <1>7 DEF SequenceRange
      <3> DEFINE c == answer.packets
                 n == b - a + 1
                 stop == kept[b].sequence + kept[b].count
      <3>3. /\ a \in 1 .. m /\ b \in a .. m /\ c = Slice(kept, a, b)
            /\ kept[a].sequence <= first
            /\ \A i \in a .. b : kept[i].sequence < end
            /\ b = m \/ end <= stop
            BY <3>1, <3>2 DEF ServesSlice, kept, m, answer
      <3>4. /\ a \in 1 .. m + 1 /\ b \in 0 .. m /\ a <= b + 1 /\ n \in Nat /\ n > 0
            /\ 1 \in 1 .. n /\ n \in 1 .. n /\ 1 + a - 1 = a /\ n + a - 1 = b
            /\ \A i \in 1 .. n : i + a - 1 \in a .. b
            /\ b \in 1 .. m
            BY <3>3, <2>3, SMT
      <3>5. ChainOf(c, n)
        <4>1. ChainOf(Slice(kept, a, b), b - a + 1) BY <3>4, <2>3, SliceIsChain
        <4> QED BY <4>1, <3>3
      <3>6. \A i \in 1 .. n : c[i] = kept[i + a - 1] BY <3>3 DEF Slice
      <3>7. c[1] = kept[a] /\ c[n] = kept[b]
        <4> HIDE DEF n, c
        <4> QED BY <3>4, <3>6
      <3>8. stop \in Nat /\ end <= stop
        <4>1. kept[b].sequence \in Nat /\ kept[b].count \in Nat BY <3>4, <2>3 DEF ChainOf
        <4>2. b = m => stop = next BY <2>3
        <4> QED BY <4>1, <4>2, <3>3, <1>8
      <3>9. \A i \in 1 .. n : Carries(protocol, c[i], bodies)
        <4>1. PacketsOf(c, bodies) BY <1>3, ServeCarries DEF answer
        <4>2. PICK k \in Nat : DOMAIN c = 1 .. k /\ \A i \in 1 .. k : c[i] \in CarryingPackets(bodies)
              BY <4>1 DEF PacketsOf
        <4>3. DOMAIN c = 1 .. n BY <3>5 DEF ChainOf
        <4>4. \A i \in 1 .. n : c[i] \in CarryingPackets(bodies) BY <4>2, <4>3
        <4> QED BY <4>4 DEF CarryingPackets
      <3>10. \A i \in 1 .. n : c[i].sequence < expected
        <4> TAKE i \in 1 .. n
        <4>1. c[i].sequence < end BY <3>3, <3>4, <3>6
        <4>2. c[i].sequence \in Nat BY <3>5 DEF ChainOf
        <4> HIDE DEF c
        <4> QED BY <4>1, <4>2, <1>1, <1>7, <1>8, SMT
      <3>11. \A k \in M : c[1].sequence <= k
        <4> TAKE k \in M
        <4>1. first <= k /\ c[1].sequence <= first BY <1>7, <3>3, <3>7
        <4>2. c[1].sequence \in Nat BY <3>4, <3>5 DEF ChainOf
        <4>3. k \in Nat BY <1>1
        <4> HIDE DEF c
        <4> QED BY <4>1, <4>2, <4>3, <1>7, SMT
      <3>12. ReceivedOn(rx, c).tracker.missing = From(M, c[n].sequence + c[n].count)
        <4> HIDE DEF c, n
        <4> QED BY <1>2, <1>a, <3>4, <3>5, <3>9, <3>10, <3>11, ChainCloses DEF M, expected
      <3>13. ReceivedOn(rx, c).tracker.missing = From(M, stop) BY <3>7, <3>12
      <3>14. Numbers(hole) \cap From(M, stop) = {}
        <4> HIDE DEF stop
        <4> SUFFICES ASSUME NEW k \in Numbers(hole), k \in From(M, stop) PROVE FALSE OBVIOUS
        <4>1. k \in first .. end - 1 BY <3>2 DEF Numbers
        <4>2. k >= stop BY DEF From
        <4> QED BY <4>1, <4>2, <3>8, <1>7, SMT
      <3> QED BY <3>13, <3>14 DEF M, hole, answer
    <2> QED BY <2>4, <2>5
  <1> QED BY <1>10, <1>11

\* However often the line loses, delays, repeats or damages packets, asking makes
\* progress: one answer closes the whole of the hole asked for, or it is a refusal.
\* The generator's warm-up spares the first packet, as its default of 4 does.
THEOREM FeedAnswerClosesTheHole == ASSUME Warmup > 0 PROVE Spec => []AnswerClosesTheHole
PROOF
  <1> DEFINE I == StreamInv /\ InjectorInv /\ PackInv /\ FacilityInv /\ WindowInv /\ ReceiverInv
  <1>1. Init => I
        BY StreamHoldsAtFirst, InjectorHoldsAtFirst, PackHoldsAtFirst, ReceiverHoldsAtFirst,
           WindowHoldsAtFirst
  <1>2. I /\ [Next]_vars => I'
        BY StreamStep, InjectorStep, PackStep, FacilityStep, WindowStep, ReceiverStep
  <1>3. I => AnswerClosesTheHole
    <2> SUFFICES ASSUME I, phase # "publishing", Derivable, tracker.missing # {}, ~refused
                 PROVE  LET hole == FirstHole(tracker.missing)
                            answer == Serve(facility, hole)
                        IN  \/ answer.error # "ok"
                            \/ Numbers(hole)
                                 \cap AfterReceiving(answer.packets).tracker.missing = {}
        BY DEF AnswerClosesTheHole
    <2> DEFINE rx == RxOf(tracker, waiting, applied)
    <2>1. rx.tracker = tracker BY DEF RxOf
    <2>2. index # 0
      <3> SUFFICES ASSUME index = 0 PROVE FALSE OBVIOUS
      <3>1. rx = Unheard BY DEF ReceiverInv
      <3>2. Unheard.tracker.missing = {} BY DEF Unheard, Fresh
      <3> QED BY <3>1, <3>2, <2>1
    <2>3. Keeps(rx, bodies)
      <3>1. index \in Nat BY DEF InjectorInv
      <3>2. index > 0 BY <3>1, <2>2, SMT
      <3> QED BY <3>2 DEF ReceiverInv
    <2>4. ~pub.open BY DEF WindowInv
    <2>5. \A packets : AfterReceiving(packets) = ReceivedOn(rx, packets)
          BY DEF AfterReceiving, ReceivedOn, RxOf
    <2> HIDE DEF rx
    <2> QED BY <2>1, <2>3, <2>4, <2>5, HoleCloses
  <1> QED BY <1>1, <1>2, <1>3, PTL DEF Spec

=============================================================================
