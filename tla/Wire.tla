-------------------------------- MODULE Wire --------------------------------
(***************************************************************************)
(* The wire formats at work.  Four things are done with them, one per      *)
(* task:                                                                   *)
(*   exchange  a sender encodes one message after another into the same    *)
(*             scratch buffer, and a receiver decodes them;                *)
(*   parse     bytes nobody in this project wrote reach the parsers: a     *)
(*             number in text, a datagram of blocks, a message with a byte *)
(*             missing or added, an Ethernet frame cut anywhere;           *)
(*   stream    a SoupBinTCP server logs a client in and sends it packets   *)
(*             over TCP, which delivers bytes and knows nothing of         *)
(*             packets (wire/soupbintcp: packet, encode, cursor);          *)
(*   capture   a tool reads a capture file, which may have been cut when   *)
(*             the disk was full, frame by frame (support/capture_source). *)
(***************************************************************************)
EXTENDS FeedLayout, Framing, CaptureFiles

CONSTANTS
    MaxPacketBytes,     \* kMaxPacketBytes, the longest frame accepted
    MaxEncoded,         \* bound: messages of an exchange
    MaxSent,            \* bound: packets of a stream
    MaxCells,           \* bound: cells of a parsed datagram
    MaxRecords,         \* bound: records of a capture file
    MaxBlocks,          \* bound: blocks of a section after its header
    LoginSequences,     \* the positions a login may name
    Buffers             \* the sizes of the sender's buffer

ASSUME WireAssumption ==
    /\ MaxPacketBytes \in Nat /\ MaxEncoded \in Nat /\ MaxSent \in Nat
    /\ MaxCells \in Nat /\ MaxRecords \in Nat /\ MaxBlocks \in Nat
    /\ LoginSequences \subseteq 0..WordMax
    /\ Buffers \subseteq Nat

VARIABLES
    task,       \* which of the four this behaviour is about
    scratch,    \* the sender's buffer, never cleared
    encoded,    \* how many messages were encoded
    last,       \* the message last encoded, and its bytes
    input,      \* what a parser was given
    wire,       \* bytes sent and not yet arrived
    inbox,      \* bytes arrived and not yet consumed
    sent,       \* the packets sent, or the frames of the capture file
    position,   \* the server's next sequence; 0 outside a session
    cursor,     \* stream_cursor: started_, next_sequence_
    received,   \* the packets the cursor, or the frames the reader, returned
    reader      \* the reader of a capture file

exchanging == <<scratch, encoded, last>>
streaming == <<wire, inbox, sent, position, cursor, received>>
vars == <<task, exchanging, input, streaming, reader>>

(***************************************************************************)
(* SoupBinTCP frames.                                                      *)
(***************************************************************************)
kLengthSize == 2
kTypeSize == 1
kFrameOverhead == kLengthSize + kTypeSize

Debug == 43
LoginAccepted == 65
SequencedData == 83
ServerHeartbeat == 72
EndOfSessionPacket == 90

EncodePacket(type, payload) ==
    LET length == kTypeSize + Len(payload)
    IN  IF kFrameOverhead + Len(payload) > MaxPacketBytes
        THEN [error |-> "invalid_argument", frame |-> <<>>]
        ELSE [error |-> "ok",
              frame |-> <<length \div 256, length % 256, type>> \o payload]

DecodePacket(stream) ==
    LET declared == stream[1] * 256 + stream[2]
        size == kLengthSize + declared
    IN  IF Len(stream) < kFrameOverhead THEN [error |-> "need_more_bytes"]
        ELSE IF declared < 1 THEN [error |-> "truncated_header"]
        ELSE IF size > MaxPacketBytes THEN [error |-> "capacity_exceeded"]
        ELSE IF Len(stream) < size THEN [error |-> "need_more_bytes"]
        ELSE [error |-> "ok", type |-> stream[3], size |-> size,
              payload |-> Window(stream, kFrameOverhead, declared - kTypeSize)]

AdvancesSequence(type) == type = SequencedData

(***************************************************************************)
(* Messages to encode.  Every field gets bytes no neighbour has, or only   *)
(* zeros, or only ones; texts are short, full, empty, and one too long.    *)
(***************************************************************************)
Variants == {"distinct", "zeros", "ones", "overlong"}

TextOf(width, variant, i) ==
    CASE variant = "distinct" -> <<40 + i>>
      [] variant = "zeros" -> <<>>
      [] variant = "ones" -> [j \in 1..width |-> 60 + j]
      [] variant = "overlong" -> [j \in 1..width + 1 |-> 60 + j]

NumberOf(accessor, variant, i) ==
    [j \in 1..(IF accessor = "be48" THEN 8 ELSE Width(accessor)) |->
        CASE variant = "zeros" -> 0
          [] variant = "ones" -> IF accessor = "be48" /\ j <= 2 THEN 0 ELSE 255
          [] OTHER -> IF accessor = "be48" /\ j <= 2 THEN IF variant = "overlong" THEN 1 ELSE 0
                      ELSE 36 + 11 * i + j]

Given(kind, variant) ==
    LET puts == Formats[kind].puts
        value(i) ==
            CASE puts[i][2] \in Padded -> TextOf(Width(puts[i][2]), variant, i)
              [] puts[i][2] = "number" -> IF variant = "zeros" THEN 0
                                          ELSE IF variant = "ones" THEN WordMax ELSE 7
              [] kind = "itch_add" /\ puts[i][1] = "side" ->
                    IF variant = "zeros" THEN <<66>> ELSE <<83>>
              [] kind = "end_snapshot" /\ puts[i][1] = "sequence" /\ variant = "zeros" ->
                    <<0, 0, 0, 0, 0, 0, 0, 1>>
              [] OTHER -> NumberOf(puts[i][2], variant, i)
        index(name) == CHOOSE i \in DOMAIN puts : puts[i][1] = name
    IN  Supplied(kind) @@ [name \in {puts[i][1] : i \in DOMAIN puts} |-> value(index(name))]

\* The bytes left in the buffer before the first message.
Stale(size) == [i \in 1..size |-> 254]
NothingEncoded == [kind |-> "none", message |-> NoMessage, error |-> "ok", bytes |-> <<>>]
NoInput == [form |-> "none"]
NoReader == Reader("none", "little", 1, <<>>)

Init ==
    /\ task \in {"exchange", "parse", "stream", "capture"}
    /\ IF task = "exchange" THEN scratch \in {Stale(size) : size \in Buffers} ELSE scratch = <<>>
    /\ encoded = 0 /\ last = NothingEncoded /\ input = NoInput
    /\ wire = <<>> /\ inbox = <<>> /\ sent = <<>> /\ position = 0
    /\ cursor = [started |-> FALSE, next |-> 0] /\ received = <<>>
    /\ reader = NoReader

(***************************************************************************)
(* exchange                                                                *)
(***************************************************************************)
Encode ==
    /\ task = "exchange" /\ encoded < MaxEncoded
    /\ \E kind \in DOMAIN Formats, variant \in Variants :
         LET m == Given(kind, variant)
             size == Formats[kind].size
             error == EncodeError(scratch, kind, m)
         IN  /\ scratch' = IF error = "ok" THEN EncodeInto(scratch, kind, m) ELSE scratch
             /\ last' = [kind |-> kind, message |-> m, error |-> error,
                         bytes |-> IF error = "ok" THEN SubSeq(scratch', 1, size) ELSE <<>>]
    /\ encoded' = encoded + 1
    /\ UNCHANGED <<task, input, streaming, reader>>

(***************************************************************************)
(* parse                                                                   *)
(***************************************************************************)
Cells == {kPad, kZero, kZero + 2, kZero + 5, kZero + 6, 65}

ParseNumber ==
    /\ task = "parse" /\ input = NoInput
    /\ \E field \in [1..SequenceTextSize -> Cells] :
         input' = [form |-> "number", field |-> field]
    /\ UNCHANGED <<task, exchanging, streaming, reader>>

ParseDatagram ==
    /\ task = "parse" /\ input = NoInput
    /\ \E protocol \in Protocols, payload \in BoundedSeq(0..2, MaxCells),
          count \in 0..3 \cup {EndOfSession}, error \in {-1, 0, 1}, whole \in BOOLEAN :
         /\ protocol = "moldudp64" => error = 0
         /\ Len(payload) + error >= 0
         /\ input' = [form |-> "datagram", protocol |-> protocol,
                      packet |-> [whole |-> whole, session |-> 1, sequence |-> 1,
                                  offset |-> 0, count |-> count,
                                  length |-> Len(payload) + error, payload |-> payload]]
    /\ UNCHANGED <<task, exchanging, streaming, reader>>

\* The messages that share a stream; a snapshot carries DEEP messages too.
Families ==
    {DOMAIN InboundFormats, DOMAIN OutboundFormats, DOMAIN ItchFormats,
     DOMAIN DeepFormats \cup DOMAIN GlimpseFormats}

ParseMessage ==
    /\ task = "parse" /\ input = NoInput
    /\ \E family \in Families : \E kind \in family, as \in family, change \in {-1, 0, 1} :
         LET m == EncodeInto(Stale(80), kind, Given(kind, "distinct"))
         IN  input' = [form |-> "message", kind |-> kind, as |-> as, change |-> change,
                       bytes |-> SubSeq(Append(m, 254), 1, Formats[kind].size + change)]
    /\ UNCHANGED <<task, exchanging, streaming, reader>>

ParseFrame ==
    /\ task = "parse" /\ input = NoInput
    /\ \E tags \in {<<>>, <<kEtherTypeVlan>>, <<kEtherTypeQinQ, kEtherTypeVlan>>,
                    <<kEtherTypeVlan, kEtherTypeVlan, kEtherTypeVlan>>},
          words \in 0..1, payload \in {<<>>, <<1, 2>>}, padding \in {0, 3}, fault \in Faults :
         LET whole == EthernetFrame(tags, words, payload, padding, fault)
         IN  \E cut \in 0..Len(whole) :
               input' = [form |-> "frame", tags |-> tags, words |-> words,
                         payload |-> payload, fault |-> fault,
                         bytes |-> SubSeq(whole, 1, cut)]
    /\ UNCHANGED <<task, exchanging, streaming, reader>>

(***************************************************************************)
(* stream: the server.                                                     *)
(***************************************************************************)
Transmit(type, payload, sequence) ==
    /\ EncodePacket(type, payload).error = "ok"
    /\ wire' = wire \o EncodePacket(type, payload).frame
    /\ sent' = Append(sent, [type |-> type, payload |-> payload, sequence |-> sequence])

SendLogin ==
    /\ task = "stream" /\ Len(sent) < MaxSent /\ position = 0
    /\ \E next \in LoginSequences :
         /\ Transmit(LoginAccepted,
                     SubSeq(EncodeInto(Stale(80), "login_accepted",
                                       [session |-> <<83, 49>>, sequence |-> next]),
                            1, Formats["login_accepted"].size), 0)
         /\ position' = next
    /\ UNCHANGED <<task, exchanging, input, inbox, cursor, received, reader>>

SendData ==
    /\ task = "stream" /\ Len(sent) < MaxSent /\ position # 0
    /\ \E kind \in {"system_event", "begin_snapshot"} :
         Transmit(SequencedData,
                  SubSeq(EncodeInto(Stale(80), kind, Given(kind, "distinct")),
                         1, Formats[kind].size), position)
    /\ position' = position + 1
    /\ UNCHANGED <<task, exchanging, input, inbox, cursor, received, reader>>

SendBare ==
    /\ task = "stream" /\ Len(sent) < MaxSent /\ position # 0
    /\ \/ Transmit(ServerHeartbeat, <<>>, 0) /\ UNCHANGED position
       \/ Transmit(Debug, <<63>>, 0) /\ UNCHANGED position
       \/ Transmit(EndOfSessionPacket, <<>>, 0) /\ position' = 0
    /\ UNCHANGED <<task, exchanging, input, inbox, cursor, received, reader>>

(***************************************************************************)
(* stream: TCP, and the client.                                            *)
(***************************************************************************)
Arrive ==
    /\ wire # <<>>
    /\ inbox' = Append(inbox, Head(wire))
    /\ wire' = Tail(wire)
    /\ UNCHANGED <<task, exchanging, input, sent, position, cursor, received, reader>>

\* Mutant: every packet of the server advances the count.
MutantCursorNext(c, packet) ==
    [sequence |-> IF AdvancesSequence(packet.type) THEN c.next ELSE 0,
     cursor |-> [c EXCEPT !.next = @ + 1]]

\* stream_cursor::next, for a packet that decoded.
CursorNext(c, packet) ==
    IF AdvancesSequence(packet.type)
    THEN [sequence |-> c.next, cursor |-> [c EXCEPT !.next = @ + 1]]
    ELSE [sequence |-> 0, cursor |-> c]

\* The reader hands what it has to the cursor; it needs more bytes, or it
\* consumes one packet, and follows a login and the end of the session.
Read ==
    LET packet == DecodePacket(inbox)
        step == CursorNext(cursor, packet)
    IN  /\ packet.error = "ok"
        /\ AdvancesSequence(packet.type) => cursor.started
        /\ inbox' = SubSeq(inbox, packet.size + 1, Len(inbox))
        /\ received' = Append(received, [type |-> packet.type, payload |-> packet.payload,
                                         sequence |-> step.sequence])
        /\ cursor' = CASE packet.type = LoginAccepted ->
                            [started |-> TRUE,
                             next |-> Decode("login_accepted", packet.payload).message.sequence]
                       [] packet.type = EndOfSessionPacket -> [started |-> FALSE, next |-> 0]
                       [] OTHER -> step.cursor
        /\ UNCHANGED <<task, exchanging, input, wire, sent, position, reader>>

(***************************************************************************)
(* capture: the tool.                                                      *)
(***************************************************************************)
OpenFile(parts, cut, frames, clean) ==
    LET opened == OpenReader(SubSeq(FlattenSeq(parts), 1, cut))
    IN  /\ reader' = IF opened.error = "ok" THEN opened.reader
                     ELSE [NoReader EXCEPT !.stopped = opened.error]
        /\ sent' = frames
        /\ input' = [form |-> "file", clean |-> clean]
        /\ UNCHANGED <<task, exchanging, wire, inbox, position, cursor, received>>

OpenPcap ==
    /\ task = "capture" /\ input = NoInput
    /\ \E magic \in DOMAIN kMagics, records \in BoundedSeq(Records, MaxRecords) :
         LET order == kMagics[magic].order
             parts == <<magic \o Zeros(20)>> \o [i \in DOMAIN records |-> Record(order, records[i])]
         IN  \E cut \in 0..SizeOf(parts) :
               LET n == WholeParts(parts, cut)
                   frames == IF n = 0 THEN <<>>
                             ELSE FramesOf(SubSeq(records, 1, n - 1), kMagics[magic].scale)
               IN  OpenFile(parts, cut, frames,
                            /\ n > 0 /\ Len(frames) = n - 1
                            /\ cut = SizeOf(SubSeq(parts, 1, n)))

OpenPcapng ==
    /\ task = "capture" /\ input = NoInput
    /\ \E first \in {"section_little", "section_big", "interface"},
          others \in BoundedSeq(BlockKinds, MaxBlocks), missing \in {0, 1, 4, 13, 30} :
         LET kinds == <<first>> \o others
             parts == BlocksOf(kinds)
             cut == SizeOf(parts) - missing
             n == WholeParts(parts, cut)
             said == Said(SubSeq(kinds, 1, n))
         IN  IF cut < 0 \/ n = 0 \/ first = "interface" THEN OpenFile(parts, cut, <<>>, FALSE)
             ELSE OpenFile(parts, cut, said.frames,
                           ~said.refused /\ cut = SizeOf(SubSeq(parts, 1, n)))

\* walk: the next frame, until the reader is done or stops.
Reading == reader.format # "none" /\ reader.stopped = "ok" /\ reader.rest # <<>>

NextRecord ==
    /\ Reading
    /\ LET next == NextFrame(reader)
       IN  IF next.error = "ok"
           THEN reader' = next.reader /\ received' = Append(received, next.frame)
           ELSE reader' = [next.reader EXCEPT !.stopped = next.error] /\ UNCHANGED received
    /\ UNCHANGED <<task, exchanging, input, wire, inbox, sent, position, cursor>>

Next ==
    \/ Encode \/ ParseNumber \/ ParseDatagram \/ ParseMessage \/ ParseFrame
    \/ SendLogin \/ SendData \/ SendBare \/ Arrive \/ Read
    \/ OpenPcap \/ OpenPcapng \/ NextRecord

Spec == Init /\ [][Next]_vars

(***************************************************************************)
(* Properties.                                                             *)
(***************************************************************************)
\* What a decoder should return for a value: itself, but for the ITCH stock,
\* which is returned with its padding, and a capacity that is not one.
Meaning(accessor, value) ==
    CASE accessor = "raw8" -> PutTextLeftJustified(8, value)
      [] accessor = "capacity" -> <<CapacityFromWire(value[1])>>
      [] OTHER -> value

\* A message is decoded to what was encoded, field for field, whatever its
\* fields hold and whatever message the buffer held before: the offsets, the
\* writes and the reads of each format agree on place, width and byte order.
FieldsRoundTrip ==
    last.kind # "none" /\ last.error = "ok" =>
        LET gets == Formats[last.kind].gets
            d == Decode(last.kind, last.bytes)
        IN  /\ d.error = "ok"
            /\ \A name \in DOMAIN gets :
                 d.message[name] = Meaning(gets[name], last.message[name])

\* What a text of spaces and then digits stands for.
DigitAt(field, i) == field[i] - kZero
Ten(n) == FoldLeft(LAMBDA p, i : p * 10, 1, [i \in 1..n |-> i])
ValueOfText(field) ==
    LET n == Len(field)
    IN  FoldLeft(LAMBDA sum, i : sum + (IF field[i] = kPad THEN 0
                                        ELSE DigitAt(field, i) * Ten(n - i)),
                 0, [i \in 1..n |-> i])
IsNumber(field) ==
    \E n \in 0..Len(field) - 1 :
        /\ \A i \in 1..n : field[i] = kPad
        /\ \A i \in n + 1..Len(field) : field[i] \in kZero..kNine

\* The parsers accept the well formed and nothing else: a number in text is
\* read exactly or refused, and never wraps; a cursor walks a datagram to the
\* end exactly when its blocks fill it; and of the messages that share a stream
\* none, whole, cut short or followed by a byte, is taken for another.
AcceptsOnlyTheWellFormed ==
    CASE input.form = "number" ->
            LET n == NumberRightJustified(input.field)
            IN  IF IsNumber(input.field) /\ ValueOfText(input.field) <= WordMax
                THEN n.error = "ok" /\ n.value = ValueOfText(input.field)
                ELSE n.error # "ok"
      [] input.form = "datagram" ->
            LET walked == Drain(input.protocol, input.packet)
            IN  /\ (walked.error = "ok") = WellFramed(input.protocol, input.packet)
                /\ walked.error = "ok" =>
                     FoldLeft(LAMBDA p, block : p \o <<Len(block)>> \o block, <<>>,
                              walked.blocks) = input.packet.payload
      [] input.form = "message" ->
            (Decode(input.as, input.bytes).error = "ok")
               = (input.as = input.kind /\ input.change = 0)
      [] input.form = "frame" ->
            LET d == ParseEthernetUdp(input.bytes)
                declared == Len(input.payload) + (IF input.fault = "udp_long" THEN 2 ELSE 0)
                start == 14 + 4 * Len(input.tags) + 20 + 4 * input.words + 8
            IN  IF /\ input.fault \in {"none", "udp_long"} /\ Len(input.tags) <= 2
                   /\ start + declared <= Len(input.bytes)
                THEN /\ d.error = "ok" /\ d.tags = Len(input.tags)
                     /\ d.vlan = (IF input.tags = <<>> THEN 0 ELSE 101)
                     /\ d.destination = Multicast /\ d.port = Port
                     /\ d.payload = SubSeq(input.bytes, start + 1, start + declared)
                ELSE d.error # "ok"
      [] OTHER -> TRUE

\* However TCP cuts the stream, the client reads the packets the server sent,
\* in order, each once and with the number the server counted for it, and when
\* every byte has arrived and it can read no more, it has read them all.  A
\* capture file gives its frames up to the place where it is cut or damaged,
\* and only a file that is whole is read to its end.
ReadsWhatWasSent ==
    /\ IsPrefix(received, sent)
    /\ task = "stream" /\ wire = <<>> /\ DecodePacket(inbox).error # "ok" => received = sent
    /\ input.form = "file" /\ ~Reading =>
         /\ received = sent
         /\ input.clean = (reader.format # "none" /\ reader.rest = <<>>)
=============================================================================
