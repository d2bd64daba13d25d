----------------------------- MODULE FeedLayout -----------------------------
(***************************************************************************)
(* The messages of the two market data feeds (wire/itch, wire/deep), the   *)
(* marks of a Glimpse snapshot (wire/glimpse), the headers of the two      *)
(* datagram protocols (wire/moldudp64, wire/iextp) and the logins of       *)
(* SoupBinTCP, as tables in the way of OuchLayout; and what every encoder  *)
(* and decoder does with its table.                                        *)
(***************************************************************************)
EXTENDS OuchLayout

(***************************************************************************)
(* ITCH: big-endian, six-byte timestamps.                                  *)
(***************************************************************************)
ItchHeaderAt ==
    [locate |-> 1, tracking |-> 3, timestamp |-> 5, reference |-> 11]
ItchBodyAt ==
    [side |-> 19, shares |-> 20, stock |-> 24, price |-> 32]

PutItchHeader ==
    << <<"locate", "be16">>, <<"tracking", "be16">>, <<"timestamp", "be48">> >>
ItchHeaderGets == [locate |-> "be16", tracking |-> "be16", timestamp |-> "be48"]

EncodeAddOrder ==
    PutItchHeader \o
    << <<"stock", "alpha8">>, <<"reference", "be64">>, <<"side", "u8">>,
       <<"shares", "be32">>, <<"price", "be32">> >>
DecodeAddOrder ==
    [reference |-> "be64", stock |-> "raw8", shares |-> "be32", price |-> "be32",
     side |-> "u8"] @@ ItchHeaderGets

ExecutedOrderAt == ItchHeaderAt @@ [shares |-> 19, match_number |-> 23]
EncodeOrderExecuted ==
    PutItchHeader \o
    << <<"reference", "be64">>, <<"shares", "be32">>, <<"match_number", "be64">> >>
DecodeOrderExecuted ==
    [reference |-> "be64", match_number |-> "be64", shares |-> "be32"] @@ ItchHeaderGets

EncodeOrderCancel == PutItchHeader \o << <<"reference", "be64">>, <<"shares", "be32">> >>
DecodeOrderCancel == [reference |-> "be64", shares |-> "be32"] @@ ItchHeaderGets

EncodeOrderDelete == PutItchHeader \o << <<"reference", "be64">> >>
DecodeOrderDelete == [reference |-> "be64"] @@ ItchHeaderGets

ReplacingAt == ItchHeaderAt @@ [new_reference |-> 19, shares |-> 27, price |-> 31]
EncodeOrderReplace ==
    PutItchHeader \o
    << <<"reference", "be64">>, <<"new_reference", "be64">>, <<"shares", "be32">>,
       <<"price", "be32">> >>
DecodeOrderReplace ==
    [reference |-> "be64", new_reference |-> "be64", shares |-> "be32",
     price |-> "be32"] @@ ItchHeaderGets

ItchFormats ==
    [itch_add |->
        Format(65, 36, ItchHeaderAt @@ ItchBodyAt, EncodeAddOrder, DecodeAddOrder),
     itch_executed |->
        Format(69, 31, ExecutedOrderAt, EncodeOrderExecuted, DecodeOrderExecuted),
     itch_cancel |->
        Format(88, 23, ExecutedOrderAt, EncodeOrderCancel, DecodeOrderCancel),
     itch_delete |-> Format(68, 19, ItchHeaderAt, EncodeOrderDelete, DecodeOrderDelete),
     itch_replace |-> Format(85, 35, ReplacingAt, EncodeOrderReplace, DecodeOrderReplace)]

(***************************************************************************)
(* DEEP: little-endian, a byte of flags in every header.                   *)
(***************************************************************************)
DeepAt ==
    [flags |-> 1, timestamp |-> 2, symbol |-> 10, size |-> 18, price |-> 22,
     trade_id |-> 30, reason |-> 18]

PutDeepHeader == << <<"flags", "u8">>, <<"timestamp", "le64">> >>
DeepHeaderGets == [flags |-> "u8", timestamp |-> "le64"]

EncodePriceLevel ==
    PutDeepHeader \o << <<"symbol", "alpha8">>, <<"size", "le32">>, <<"price", "le64">> >>
DecodePriceLevel ==
    [symbol |-> "alpha8", size |-> "le32", price |-> "le64"] @@ DeepHeaderGets

EncodeTrade ==
    PutDeepHeader \o << <<"symbol", "alpha8">>, <<"size", "le32">>, <<"price", "le64">>,
                        <<"trade_id", "le64">> >>
DecodeTrade ==
    [symbol |-> "alpha8", size |-> "le32", price |-> "le64",
     trade_id |-> "le64"] @@ DeepHeaderGets

EncodeTradingStatus == PutDeepHeader \o << <<"symbol", "alpha8">>, <<"reason", "alpha4">> >>
DecodeTradingStatus == [symbol |-> "alpha8", reason |-> "alpha4"] @@ DeepHeaderGets

EncodeDeepEvent == PutDeepHeader
DecodeDeepEvent == DeepHeaderGets

DeepFormats ==
    [price_level_buy |-> Format(56, 30, DeepAt, EncodePriceLevel, DecodePriceLevel),
     price_level_sell |-> Format(53, 30, DeepAt, EncodePriceLevel, DecodePriceLevel),
     trade_report |-> Format(84, 38, DeepAt, EncodeTrade, DecodeTrade),
     trade_break |-> Format(66, 38, DeepAt, EncodeTrade, DecodeTrade),
     trading_status |-> Format(72, 22, DeepAt, EncodeTradingStatus, DecodeTradingStatus),
     deep_event |-> Format(83, 10, DeepAt, EncodeDeepEvent, DecodeDeepEvent)]

(***************************************************************************)
(* Glimpse: the two marks of a snapshot.                                   *)
(***************************************************************************)
GlimpseAt == [session |-> 1, sequence |-> 5]
EncodeBegin == << <<"session", "le32">>, <<"sequence", "le64">> >>
EncodeEnd == << <<"session", "le32">>, <<"sequence", "le64">> >>
DecodeBegin == [session |-> "le32"]
DecodeEnd == [session |-> "le32", sequence |-> "le64"]

GlimpseFormats ==
    [begin_snapshot |-> Format(103, 13, GlimpseAt, EncodeBegin, DecodeBegin),
     end_snapshot |-> Format(71, 13, GlimpseAt, EncodeEnd, DecodeEnd)]

(***************************************************************************)
(* Datagram headers.  The version of an IEX-TP header takes the place of a *)
(* type; a MoldUDP64 header has nothing to check.                          *)
(***************************************************************************)
IextpHeaderAt ==
    [reserved |-> 1, protocol |-> 2, channel |-> 4, session |-> 8,
     payload_length |-> 12, message_count |-> 14, stream_offset |-> 16,
     first_sequence |-> 24, send_time |-> 32]
EncodeIextpHeader ==
    << <<"reserved", "u8">>, <<"protocol", "le16">>, <<"channel", "le32">>,
       <<"session", "le32">>, <<"payload_length", "le16">>, <<"message_count", "le16">>,
       <<"stream_offset", "le64">>, <<"first_sequence", "le64">>, <<"send_time", "le64">> >>
DecodeIextpHeader ==
    [reserved |-> "u8", protocol |-> "le16", channel |-> "le32", session |-> "le32",
     payload_length |-> "le16", message_count |-> "le16", stream_offset |-> "le64",
     first_sequence |-> "le64", send_time |-> "le64"]

MoldHeaderAt == [session |-> 0, sequence |-> 10, message_count |-> 18]
EncodeMoldHeader ==
    << <<"session", "raw10">>, <<"sequence", "be64">>, <<"message_count", "be16">> >>
DecodeMoldHeader ==
    [session |-> "raw10", sequence |-> "be64", message_count |-> "be16"]

HeaderFormats ==
    [iextp |-> Format(1, 40, IextpHeaderAt, EncodeIextpHeader, DecodeIextpHeader),
     moldudp64 |-> [Format(0, 20, MoldHeaderAt, EncodeMoldHeader, DecodeMoldHeader)
                       EXCEPT !.type = <<>>]]

(***************************************************************************)
(* SoupBinTCP logins: payloads of text, the packet type is in the frame.   *)
(***************************************************************************)
LoginAcceptedAt == [session |-> 0, sequence |-> 10]
EncodeLoginAccepted == << <<"session", "alpha10">>, <<"sequence", "number">> >>
DecodeLoginAccepted == [session |-> "alpha10", sequence |-> "number"]

LoginRequestAt == [username |-> 0, password |-> 6, session |-> 16, sequence |-> 26]
EncodeLoginRequest ==
    << <<"username", "alpha6">>, <<"password", "alpha10">>, <<"session", "alpha10">>,
       <<"sequence", "number">> >>
DecodeLoginRequest ==
    [username |-> "alpha6", password |-> "alpha10", session |-> "alpha10",
     sequence |-> "number"]

LoginFormats ==
    [login_accepted |->
        [Format(0, 10 + SequenceTextSize, LoginAcceptedAt, EncodeLoginAccepted,
                DecodeLoginAccepted) EXCEPT !.type = <<>>],
     login_request |->
        [Format(0, 26 + SequenceTextSize, LoginRequestAt, EncodeLoginRequest,
                DecodeLoginRequest) EXCEPT !.type = <<>>]]

(***************************************************************************)
(* Encoding and decoding by table.                                         *)
(***************************************************************************)
Formats ==
    InboundFormats @@ OutboundFormats @@ ItchFormats @@ DeepFormats @@ GlimpseFormats
    @@ HeaderFormats @@ LoginFormats

\* What the encoder writes is what it was given, except where it supplies the
\* value itself: no position in a snapshot's begin, one flag byte for trades.
Supplied(kind) ==
    CASE kind = "begin_snapshot" -> [sequence |-> <<0, 0, 0, 0, 0, 0, 0, 0>>]
      [] kind \in {"trade_report", "trade_break"} -> [flags |-> <<192>>]
      [] OTHER -> <<>>

Sides == {66, 83}       \* 'B' and 'S'

\* Why a message is not encoded.
EncodeError(scratch, kind, m) ==
    LET puts == Formats[kind].puts
    IN  IF ~InView(scratch, 0, Formats[kind].size) THEN "capacity_exceeded"
        ELSE IF \/ kind = "itch_add" /\ m.side[1] \notin Sides
                \/ \E i \in DOMAIN puts : ~Encodable(puts[i][2], m[puts[i][1]])
        THEN "invalid_argument" ELSE "ok"

\* An encoder over a buffer that still holds an earlier message.
EncodeInto(scratch, kind, m) ==
    LET f == Formats[kind]
        step(view, put) == PutBytes(view, f.at[put[1]], ToWire(put[2], m[put[1]]))
    IN  FoldLeft(step, PutBytes(scratch, 0, f.type), f.puts)

\* The order of the checks: a header's worth of bytes, a known type, the size.
MinimumSize(kind) ==
    CASE kind \in DOMAIN ItchFormats -> 11
      [] kind \in DOMAIN DeepFormats -> 10
      [] kind \in DOMAIN HeaderFormats -> Formats[kind].size
      [] OTHER -> 0

KnownTypes(kind) ==
    CASE kind \in DOMAIN ItchFormats -> {65, 69, 88, 68, 85}
      [] kind \in DOMAIN DeepFormats -> {83, 68, 72, 79, 80, 69, 56, 53, 84, 66, 65}
      [] OTHER -> Byte

\* A datagram's header has the payload after it; any other message is exactly
\* as long as its format.
Refusal(kind, bytes) ==
    LET f == Formats[kind]
    IN  IF Len(bytes) < MinimumSize(kind) THEN "truncated_header"
        ELSE IF bytes # <<>> /\ bytes[1] \notin KnownTypes(kind) THEN "unknown_message_type"
        ELSE IF kind \notin DOMAIN HeaderFormats /\ Len(bytes) # f.size
        THEN "message_length_mismatch"
        ELSE IF IsPrefix(f.type, bytes) THEN "ok"
        ELSE IF kind = "iextp" THEN "not_supported" ELSE "unknown_message_type"

\* What a decoder refuses once it has read the fields.
Invalid(kind, m) ==
    CASE kind = "itch_add" /\ m.side[1] \notin Sides -> "invalid_argument"
      [] kind = "end_snapshot" /\ m.sequence = <<0, 0, 0, 0, 0, 0, 0, 0>> ->
            "snapshot_stale"
      [] OTHER -> "ok"

NoMessage == [x \in {} |-> x]
Decoded(error, m) == [error |-> error, message |-> m]

Decode(kind, bytes) ==
    LET f == Formats[kind]
        field(name) == Window(bytes, f.at[name], Width(f.gets[name]))
        m == [name \in DOMAIN f.gets |-> FromWire(f.gets[name], field(name))]
        unread == \E name \in DOMAIN f.gets :
                     /\ f.gets[name] = "number"
                     /\ NumberRightJustified(field(name)).error # "ok"
        error == IF Refusal(kind, bytes) # "ok" THEN Refusal(kind, bytes)
                 ELSE IF unread THEN "invalid_argument" ELSE Invalid(kind, m)
    IN  Decoded(error, IF error = "ok" THEN m ELSE NoMessage)
=============================================================================
