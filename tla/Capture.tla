------------------------------- MODULE Capture -------------------------------
(***************************************************************************)
(* Capture files (capture/pcap, capture/pcapng) and the frames in them     *)
(* (capture/ethernet), as the tools read them (support/capture_source).    *)
(*                                                                         *)
(* A file and a frame are views, walked byte by byte; a reader holds what  *)
(* is left of its file.  Addresses stay bytes, lengths and times are       *)
(* numbers.                                                                *)
(***************************************************************************)
EXTENDS ByteView

\* The value of a field of one, two or four bytes.
Value(bytes) ==
    CASE Len(bytes) = 1 -> bytes[1]
      [] Len(bytes) = 2 -> bytes[1] * 256 + bytes[2]
      [] Len(bytes) = 4 -> ((bytes[1] * 256 + bytes[2]) * 256 + bytes[3]) * 256 + bytes[4]
BeAt(view, at, width) == Value(Window(view, at, width))
LeAt(view, at, width) == Value(Reverse(Window(view, at, width)))

\* read16, read32: the byte order is a property of the file, or of the section.
ReadIn(order, view, at, width) ==
    IF order = "little" THEN LeAt(view, at, width) ELSE BeAt(view, at, width)

(***************************************************************************)
(* Ethernet, VLAN tags, IPv4, UDP.                                         *)
(***************************************************************************)
kEthernetHeaderSize == 14
kVlanTciAndTypeSize == 4
kIpv4MinHeaderSize == 20
kUdpHeaderSize == 8
kEtherTypeIpv4 == 2048
kEtherTypeVlan == 33024
kEtherTypeQinQ == 34984
kIpProtocolUdp == 17
kMaxVlanTags == 2
kVlanIds == 4096

Refused(error) == [error |-> error]

\* One turn of the loop over the tags.
StepOverTag(frame, w) ==
    IF w.error # "ok" \/ w.type \notin {kEtherTypeVlan, kEtherTypeQinQ} THEN w
    ELSE IF w.tags >= kMaxVlanTags THEN [w EXCEPT !.error = "not_supported"]
    ELSE IF ~InView(frame, w.at, kVlanTciAndTypeSize)
    THEN [w EXCEPT !.error = "truncated_header"]
    ELSE [error |-> "ok", tags |-> w.tags + 1, at |-> w.at + kVlanTciAndTypeSize,
          type |-> BeAt(frame, w.at + 2, 2),
          vlan |-> IF w.tags = 0 THEN BeAt(frame, w.at, 2) % kVlanIds ELSE w.vlan]

WalkTags(frame) ==
    FoldLeft(LAMBDA w, i : StepOverTag(frame, w),
             [error |-> "ok", tags |-> 0, at |-> kEthernetHeaderSize, vlan |-> 0,
              type |-> BeAt(frame, 12, 2)],
             [i \in 1..kMaxVlanTags + 1 |-> i])

\* The UDP header and its payload, which the UDP length delimits.
ParseUdp(frame, udp) ==
    LET length == BeAt(frame, udp + 4, 2) - kUdpHeaderSize
    IN  IF ~InView(frame, udp, kUdpHeaderSize) THEN Refused("truncated_header")
        ELSE IF length < 0 THEN Refused("message_length_mismatch")
        ELSE IF ~InView(frame, udp + kUdpHeaderSize, length) THEN Refused("truncated_block")
        ELSE [error |-> "ok", port |-> BeAt(frame, udp + 2, 2),
              payload |-> Window(frame, udp + kUdpHeaderSize, length)]

\* The flag for more fragments and the fragment's offset are the low 14 bits.
ParseIpv4(frame, ip) ==
    LET header == (BeAt(frame, ip, 1) % 16) * 4
    IN  IF ~InView(frame, ip, kIpv4MinHeaderSize) THEN Refused("truncated_header")
        ELSE IF BeAt(frame, ip, 1) \div 16 # 4 THEN Refused("not_supported")
        ELSE IF header < kIpv4MinHeaderSize THEN Refused("truncated_header")
        ELSE IF BeAt(frame, ip + 6, 2) % 16384 # 0 THEN Refused("not_supported")
        ELSE IF BeAt(frame, ip + 9, 1) # kIpProtocolUdp THEN Refused("not_supported")
        ELSE IF BeAt(frame, ip + 2, 2) < header THEN Refused("message_length_mismatch")
        ELSE [destination |-> Window(frame, ip + 16, 4)] @@ ParseUdp(frame, ip + header)

ParseEthernetUdp(frame) ==
    LET w == WalkTags(frame)
    IN  IF ~InView(frame, 0, kEthernetHeaderSize) THEN Refused("truncated_header")
        ELSE IF w.error # "ok" THEN Refused(w.error)
        ELSE IF w.type # kEtherTypeIpv4 THEN Refused("not_supported")
        ELSE [vlan |-> w.vlan, tags |-> w.tags] @@ ParseIpv4(frame, w.at)

(***************************************************************************)
(* A reader: rest is rest_; interfaces holds the resolution of each.       *)
(***************************************************************************)
Reader(format, order, scale, rest) ==
    [format |-> format, order |-> order, scale |-> scale, interfaces |-> <<>>,
     rest |-> rest, stopped |-> "ok"]

CapturedFrame(time, data, original) == [timestamp |-> time, data |-> data, original |-> original]

From(view, at) == SubSeq(view, at + 1, Len(view))

Stop(r, error) == [error |-> error, reader |-> r]

(***************************************************************************)
(* Classic pcap.                                                           *)
(***************************************************************************)
kFileHeaderSize == 24
kRecordHeaderSize == 16
kNanosPerSecond == 1000000000

\* The four magics: each settles the byte order and the unit of the fractions.
kMagics ==
    (<<212, 195, 178, 161>> :> [order |-> "little", scale |-> 1000]) @@
    (<<161, 178, 195, 212>> :> [order |-> "big", scale |-> 1000]) @@
    (<<77, 60, 178, 161>> :> [order |-> "little", scale |-> 1]) @@
    (<<161, 178, 60, 77>> :> [order |-> "big", scale |-> 1])

PcapOver(file) ==
    LET magic == Window(file, 0, 4)
    IN  IF ~InView(file, 0, kFileHeaderSize) THEN Refused("truncated_header")
        ELSE IF magic \notin DOMAIN kMagics THEN Refused("not_supported")
        ELSE [error |-> "ok",
              reader |-> Reader("pcap", kMagics[magic].order, kMagics[magic].scale,
                                From(file, kFileHeaderSize))]

\* A record that fails leaves the reader where the record began.
PcapNext(r) ==
    LET field(at) == ReadIn(r.order, r.rest, at, 4)
        captured == field(8)
        original == field(12)
    IN  IF ~InView(r.rest, 0, kRecordHeaderSize) THEN Stop(r, "truncated_header")
        ELSE IF captured > original THEN Stop(r, "message_length_mismatch")
        ELSE IF ~InView(r.rest, kRecordHeaderSize, captured) THEN Stop(r, "truncated_block")
        ELSE [error |-> "ok",
              frame |-> CapturedFrame(field(0) * kNanosPerSecond + field(4) * r.scale,
                              Window(r.rest, kRecordHeaderSize, captured), original),
              reader |-> [r EXCEPT !.rest = From(@, kRecordHeaderSize + captured)]]

(***************************************************************************)
(* pcapng: blocks.                                                         *)
(***************************************************************************)
kBlockFrameSize == 12
kBlockHeaderSize == 8
kSectionHeaderBlock == 168627466
kSectionHeaderBytes == <<10, 13, 13, 10>>   \* the same in both byte orders
kInterfaceDescriptionBlock == 1
kSimplePacketBlock == 3
kEnhancedPacketBlock == 6
kByteOrderMagic == 439041101
kShbBodyMinSize == 16
kSupportedMajor == 1
kIdbBodyMinSize == 8
kEpbBodyMinSize == 20
kOptionHeaderSize == 4
kOptionEndOfOpt == 0
kOptionIfTsResolution == 9
kDefaultRaw == 6

CONSTANT MaxInterfaces      \* kMaxInterfaces

Pad4(length) == ((length + 3) \div 4) * 4

\* block_walker::take: both copies of the length must agree.
TakeBlock(r) ==
    LET total == ReadIn(r.order, r.rest, 4, 4)
    IN  IF ~InView(r.rest, 0, kBlockHeaderSize) THEN Refused("truncated_header")
        ELSE IF total < kBlockFrameSize \/ total % 4 # 0 THEN Refused("message_length_mismatch")
        ELSE IF ~InView(r.rest, 0, total) THEN Refused("truncated_block")
        ELSE IF ReadIn(r.order, r.rest, total - 4, 4) # total
        THEN Refused("message_length_mismatch")
        ELSE [error |-> "ok", type |-> ReadIn(r.order, r.rest, 0, 4),
              body |-> Window(r.rest, kBlockHeaderSize, total - kBlockFrameSize),
              rest |-> From(r.rest, total)]

\* The magic settles the byte order, and only then is the block taken.
ReadSectionHeader(r) ==
    LET magic(order) == ReadIn(order, r.rest, kBlockHeaderSize, 4) = kByteOrderMagic
        section == [r EXCEPT !.order = IF magic("little") THEN "little" ELSE "big"]
        block == TakeBlock(section)
    IN  IF ~InView(r.rest, 0, 4) THEN Stop(r, "truncated_header")
        ELSE IF Window(r.rest, 0, 4) # kSectionHeaderBytes THEN Stop(r, "not_supported")
        ELSE IF ~InView(r.rest, kBlockHeaderSize, 4) THEN Stop(r, "truncated_header")
        ELSE IF ~magic("little") /\ ~magic("big") THEN Stop(r, "not_supported")
        ELSE IF block.error # "ok" THEN Stop(section, block.error)
        ELSE IF Len(block.body) < kShbBodyMinSize THEN Stop(section, "truncated_block")
        ELSE IF ReadIn(section.order, block.body, 4, 2) # kSupportedMajor
        THEN Stop(section, "not_supported")
        ELSE [error |-> "ok",
              reader |-> [section EXCEPT !.rest = block.rest, !.interfaces = <<>>]]

(***************************************************************************)
(* pcapng: the options of an interface, and the time of a packet.          *)
(***************************************************************************)
NextOption(order, w) ==
    LET code == ReadIn(order, w.rest, 0, 2)
        length == ReadIn(order, w.rest, 2, 2)
        past == kOptionHeaderSize + Pad4(length)
    IN  IF w.done \/ Len(w.rest) < kOptionHeaderSize THEN w
        ELSE IF code = kOptionEndOfOpt \/ ~InView(w.rest, kOptionHeaderSize, length)
        THEN [w EXCEPT !.done = TRUE]
        ELSE IF code = kOptionIfTsResolution /\ length > 0
        THEN [w EXCEPT !.done = TRUE, !.raw = BeAt(w.rest, kOptionHeaderSize, 1)]
        ELSE IF past > Len(w.rest) THEN [w EXCEPT !.done = TRUE]
        ELSE [w EXCEPT !.rest = From(@, past)]

\* The resolution the options give, or the default.
FindTimestampResolution(order, options) ==
    FoldLeft(LAMBDA w, i : NextOption(order, w),
             [rest |-> options, raw |-> kDefaultRaw, done |-> FALSE],
             [i \in 1..Len(options) \div kOptionHeaderSize |-> i]).raw

\* A raw resolution of 128 and more counts in powers of two.
ToNanoseconds(raw, ticks) ==
    IF raw >= 128 THEN (ticks * kNanosPerSecond) \div 2^(raw - 128)
    ELSE IF raw <= 9 THEN ticks * 10^(9 - raw)
    ELSE ticks \div 10^(raw - 9)

AddInterface(r, block) ==
    IF Len(block.body) < kIdbBodyMinSize THEN Stop(r, "truncated_block")
    ELSE IF Len(r.interfaces) >= MaxInterfaces THEN Stop(r, "capacity_exceeded")
    ELSE [error |-> "ok",
          reader |-> [r EXCEPT !.rest = block.rest,
                               !.interfaces = Append(@, FindTimestampResolution(
                                   r.order, From(block.body, kIdbBodyMinSize)))]]

\* Times that need the high word of the tick count are beyond the model.
DecodeEnhancedPacket(r, block) ==
    LET field(at) == ReadIn(r.order, block.body, at, 4)
        interface == field(0)
        captured == field(12)
        original == field(16)
    IN  IF Len(block.body) < kEpbBodyMinSize THEN Stop(r, "truncated_block")
        ELSE IF interface >= Len(r.interfaces) THEN Stop(r, "invalid_argument")
        ELSE IF captured > original THEN Stop(r, "message_length_mismatch")
        ELSE IF ~InView(block.body, kEpbBodyMinSize, captured) THEN Stop(r, "truncated_block")
        ELSE [error |-> "frame",
              frame |-> CapturedFrame(ToNanoseconds(r.interfaces[interface + 1], field(8)),
                              Window(block.body, kEpbBodyMinSize, captured), original),
              reader |-> [r EXCEPT !.rest = block.rest]]

(***************************************************************************)
(* pcapng: the reader.                                                     *)
(***************************************************************************)
PcapngOver(file) == ReadSectionHeader(Reader("pcapng", "little", 1, file))

\* One turn of the loop of next: "ok" goes on, "frame" returns one, anything
\* else is an error.  The block is taken in the byte order of the section
\* before it, even when it is the header of the next section.
TurnOfNext(r) ==
    LET block == TakeBlock(r)
    IN  IF block.error # "ok" THEN Stop(r, block.error)
        ELSE CASE block.type = kSectionHeaderBlock -> ReadSectionHeader(r)
               [] block.type = kInterfaceDescriptionBlock -> AddInterface(r, block)
               [] block.type = kEnhancedPacketBlock -> DecodeEnhancedPacket(r, block)
               [] block.type = kSimplePacketBlock -> Stop(r, "not_supported")
               [] OTHER -> [error |-> "ok", reader |-> [r EXCEPT !.rest = block.rest]]

\* Every turn consumes a block, so that there are no more turns than blocks.
PcapngNext(r) ==
    LET turn(s, i) == IF s.error # "ok" \/ s.reader.rest = <<>> THEN s
                      ELSE TurnOfNext(s.reader)
        last == FoldLeft(turn, [error |-> "ok", reader |-> r],
                         [i \in 1..Len(r.rest) \div kBlockFrameSize + 1 |-> i])
    IN  CASE last.error = "frame" -> [last EXCEPT !.error = "ok"]
          [] last.error = "ok" -> [last EXCEPT !.error = "end_of_session"]
          [] OTHER -> last

(***************************************************************************)
(* walk_capture: classic first, and pcapng when that is refused.           *)
(***************************************************************************)
OpenReader(file) ==
    IF PcapOver(file).error = "ok" THEN PcapOver(file) ELSE PcapngOver(file)

NextFrame(r) == IF r.format = "pcap" THEN PcapNext(r) ELSE PcapngNext(r)
=============================================================================
