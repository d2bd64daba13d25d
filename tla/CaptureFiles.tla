---------------------------- MODULE CaptureFiles ----------------------------
(***************************************************************************)
(* What the hosts on a network send, and what a capturing host writes to   *)
(* its file: the bytes the readers of Capture are given, and what those    *)
(* bytes mean, stated record by record and block by block.                 *)
(***************************************************************************)
EXTENDS Capture

(***************************************************************************)
(* Ethernet frames.                                                        *)
(***************************************************************************)
\* An Ethernet frame as a host sends it: the tags, the words of IP options, the
\* payload and the padding, with at most one thing wrong.  The capture then
\* keeps a first part of it.
Faults ==
    {"none", "arp", "version", "short_header", "more_fragments", "offset",
     "protocol", "total", "udp_short", "udp_long"}
TwoBytes(n) == <<n \div 256, n % 256>>
Zeros(n) == [i \in 1..n |-> 0]
Multicast == <<233, 215, 21, 4>>
Port == 10378

EthernetFrame(tags, words, payload, padding, fault) ==
    LET header == 20 + 4 * words
        udp == 8 + Len(payload)
    IN  Zeros(12)
        \o FlattenSeq([i \in DOMAIN tags |-> TwoBytes(tags[i]) \o TwoBytes(8192 + 100 + i)])
        \o TwoBytes(IF fault = "arp" THEN 2054 ELSE kEtherTypeIpv4)
        \o <<(IF fault = "version" THEN 6 ELSE 4) * 16
                 + (IF fault = "short_header" THEN 4 ELSE header \div 4), 0>>
        \o TwoBytes(IF fault = "total" THEN header - 1 ELSE header + udp) \o Zeros(2)
        \o TwoBytes(CASE fault = "more_fragments" -> 8192 [] fault = "offset" -> 1
                      [] OTHER -> 16384)
        \o <<1, IF fault = "protocol" THEN 6 ELSE kIpProtocolUdp>> \o Zeros(6) \o Multicast
        \o [i \in 1..4 * words |-> 7]
        \o Zeros(2) \o TwoBytes(Port)
        \o TwoBytes(CASE fault = "udp_short" -> 7 [] fault = "udp_long" -> udp + 2
                      [] OTHER -> udp) \o Zeros(2)
        \o payload \o Zeros(padding)

(***************************************************************************)
(* The files: a classic file is records, a pcapng file is blocks.  The     *)
(* options of an interface are padded to four bytes.                       *)
(***************************************************************************)
InOrder(order, width, value) ==
    LET bytes == [i \in 1..width |-> (value \div 256^(width - i)) % 256]
    IN  IF order = "little" THEN Reverse(bytes) ELSE bytes

Records == {CapturedFrame(time, data, original) :
              <<time, data, original>> \in
                 {<<<<1, 5>>, <<8, 9>>, 2>>, <<<<0, 7>>, <<8>>, 3>>, <<<<0, 0>>, <<>>, 0>>,
                  <<<<0, 1>>, <<8, 9>>, 1>>}}

Record(order, record) ==
    InOrder(order, 4, record.timestamp[1]) \o InOrder(order, 4, record.timestamp[2])
    \o InOrder(order, 4, Len(record.data)) \o InOrder(order, 4, record.original)
    \o record.data

BlockKinds ==
    {"section_little", "section_big", "interface", "interface_nanos", "interface_binary",
     "packet_0", "packet_1", "simple", "unknown", "damaged"}

\* What a block holds for the reader: its kind, its body, and what it adds to
\* the length it writes at its end.
BlockType(kind) ==
    CASE kind \in {"section_little", "section_big"} -> kSectionHeaderBlock
      [] kind \in {"interface", "interface_nanos", "interface_binary"} ->
            kInterfaceDescriptionBlock
      [] kind \in {"packet_0", "packet_1"} -> kEnhancedPacketBlock
      [] kind = "simple" -> kSimplePacketBlock
      [] OTHER -> 5
Interface(order, raw) ==
    InOrder(order, 2, 1) \o Zeros(2) \o InOrder(order, 4, 64)
    \o InOrder(order, 2, 1) \o InOrder(order, 2, 1) \o <<9, 0, 0, 0>>
    \o InOrder(order, 2, kOptionIfTsResolution) \o InOrder(order, 2, 1) \o <<raw, 0, 0, 0>>
Packet(order, interface) ==
    InOrder(order, 4, interface) \o Zeros(4) \o InOrder(order, 4, 2)
    \o InOrder(order, 4, 1) \o InOrder(order, 4, 3) \o <<8, 0, 0, 0>>
BlockBody(order, kind) ==
    CASE kind \in {"section_little", "section_big"} ->
            InOrder(order, 4, kByteOrderMagic) \o InOrder(order, 2, kSupportedMajor) \o Zeros(10)
      [] kind = "interface" -> InOrder(order, 2, 1) \o Zeros(6)
      [] kind = "interface_nanos" -> Interface(order, 9)
      [] kind = "interface_binary" -> Interface(order, 138)
      [] kind = "packet_0" -> Packet(order, 0)
      [] kind = "packet_1" -> Packet(order, 1)
      [] OTHER -> Zeros(4)
Block(order, kind) ==
    LET body == BlockBody(order, kind)
        total == kBlockFrameSize + Len(body)
    IN  InOrder(order, 4, BlockType(kind)) \o InOrder(order, 4, total) \o body
        \o InOrder(order, 4, IF kind = "damaged" THEN total + 4 ELSE total)

Blocks == [order \in {"little", "big"}, kind \in BlockKinds |-> Block(order, kind)]

OrderAfter(order, kind) ==
    CASE kind = "section_little" -> "little" [] kind = "section_big" -> "big" [] OTHER -> order

\* The blocks one after the other, each in the byte order of its section.
BlocksOf(kinds) ==
    FoldLeft(LAMBDA f, kind :
                LET order == OrderAfter(f.order, kind)
                IN  [order |-> order, blocks |-> Append(f.blocks, Blocks[order, kind])],
             [order |-> "little", blocks |-> <<>>], kinds).blocks

(***************************************************************************)
(* What a file means.                                                      *)
(***************************************************************************)
\* The length of a file of these parts, and how many are whole after a cut.
SizeOf(parts) == FoldLeft(LAMBDA n, part : n + Len(part), 0, parts)
WholeParts(parts, cut) ==
    CHOOSE n \in 0..Len(parts) :
        /\ SizeOf(SubSeq(parts, 1, n)) <= cut
        /\ n < Len(parts) => SizeOf(SubSeq(parts, 1, n + 1)) > cut

\* The frames before the record that lies, if one does.
FramesOf(records, scale) ==
    LET whole(n) == \A i \in 1..n : Len(records[i].data) <= records[i].original
        kept == CHOOSE n \in 0..Len(records) : whole(n) /\ (n < Len(records) => ~whole(n + 1))
    IN  [i \in 1..kept |->
            CapturedFrame(records[i].timestamp[1] * kNanosPerSecond + records[i].timestamp[2] * scale,
                  records[i].data, records[i].original)]

\* What the blocks of a file say, up to the first one that is refused.  A
\* section in another byte order than the one before it is: its length is read
\* before its order is known (TurnOfNext).
Said(kinds) ==
    LET resolution(kind) ==
            CASE kind = "interface" -> 6 [] kind = "interface_nanos" -> 9
              [] kind = "interface_binary" -> 138
        refused(f, kind) ==
            \/ kind \in {"simple", "damaged"}
            \/ kind \in {"section_little", "section_big"} /\ OrderAfter(f.order, kind) # f.order
            \/ BlockType(kind) = kInterfaceDescriptionBlock /\ Len(f.interfaces) = MaxInterfaces
            \/ kind = "packet_0" /\ f.interfaces = <<>>
            \/ kind = "packet_1" /\ Len(f.interfaces) < 2
        packet(raw) == CapturedFrame(CASE raw = 6 -> 2000 [] raw = 9 -> 2 [] raw = 138 -> 1953125, <<8>>, 3)
        step(f, kind) ==
            IF f.refused \/ refused(f, kind) THEN [f EXCEPT !.refused = TRUE]
            ELSE CASE kind \in {"section_little", "section_big"} -> [f EXCEPT !.interfaces = <<>>]
                   [] BlockType(kind) = kInterfaceDescriptionBlock ->
                        [f EXCEPT !.interfaces = Append(@, resolution(kind))]
                   [] kind = "packet_0" -> [f EXCEPT !.frames = Append(@, packet(f.interfaces[1]))]
                   [] kind = "packet_1" -> [f EXCEPT !.frames = Append(@, packet(f.interfaces[2]))]
                   [] OTHER -> f
    IN  FoldLeft(step, [order |-> OrderAfter("little", kinds[1]), interfaces |-> <<>>,
                        frames |-> <<>>, refused |-> FALSE], kinds)
=============================================================================
