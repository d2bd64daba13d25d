----------------------------- MODULE OuchLayout -----------------------------
(***************************************************************************)
(* The OUCH messages (wire/ouch): where each field of a message is, the    *)
(* writes its encoder makes, in order, and the reads its decoder makes.    *)
(* Offsets, encoders and decoders are three tables in the code too, and    *)
(* nothing but their agreement makes a message come out as it went in.     *)
(*                                                                         *)
(* A write is <<field, accessor>>; the value and the offset are found      *)
(* under the field's name.  A price, a reason and an enumerated byte are   *)
(* the integer or the byte they are on the wire.                           *)
(***************************************************************************)
EXTENDS ByteView

(***************************************************************************)
(* Client to venue.                                                        *)
(***************************************************************************)
EnterOrderAt ==
    [token |-> 1, side |-> 15, shares |-> 16, stock |-> 20, price |-> 28,
     time_in_force |-> 32, firm |-> 36, display |-> 40, capacity |-> 41,
     sweep |-> 42, minimum_quantity |-> 43, cross_type |-> 47, customer_type |-> 48]

EncodeEnterOrder ==
    << <<"token", "token">>, <<"side", "u8">>, <<"shares", "be32">>,
       <<"stock", "alpha8">>, <<"price", "be32">>, <<"time_in_force", "be32">>,
       <<"firm", "alpha4">>, <<"display", "u8">>, <<"capacity", "u8">>,
       <<"sweep", "u8">>, <<"minimum_quantity", "be32">>, <<"cross_type", "u8">>,
       <<"customer_type", "u8">> >>

DecodeEnterOrder ==
    [token |-> "token", side |-> "u8", shares |-> "be32", stock |-> "alpha8",
     price |-> "be32", time_in_force |-> "be32", firm |-> "alpha4",
     display |-> "u8", capacity |-> "capacity", sweep |-> "u8",
     minimum_quantity |-> "be32", cross_type |-> "u8", customer_type |-> "u8"]

ReplaceOrderAt ==
    [existing_token |-> 1, replacement_token |-> 15, total_shares_liable |-> 29,
     price |-> 33, time_in_force |-> 37, display |-> 41, sweep |-> 42,
     minimum_quantity |-> 43]

EncodeReplaceOrder ==
    << <<"existing_token", "token">>, <<"replacement_token", "token">>,
       <<"total_shares_liable", "be32">>, <<"price", "be32">>,
       <<"time_in_force", "be32">>, <<"display", "u8">>, <<"sweep", "u8">>,
       <<"minimum_quantity", "be32">> >>

DecodeReplaceOrder ==
    [existing_token |-> "token", replacement_token |-> "token",
     total_shares_liable |-> "be32", price |-> "be32", time_in_force |-> "be32",
     display |-> "u8", sweep |-> "u8", minimum_quantity |-> "be32"]

CancelOrderAt == [token |-> 1, intended_order_size |-> 15]
EncodeCancelOrder == << <<"token", "token">>, <<"intended_order_size", "be32">> >>
DecodeCancelOrder == [token |-> "token", intended_order_size |-> "be32"]

ModifyOrderAt == [token |-> 1, side |-> 15, total_shares_liable |-> 16]
EncodeModifyOrder ==
    << <<"token", "token">>, <<"side", "u8">>, <<"total_shares_liable", "be32">> >>
DecodeModifyOrder ==
    [token |-> "token", side |-> "u8", total_shares_liable |-> "be32"]

(***************************************************************************)
(* Venue to client: the acknowledgements, which share put_ack and          *)
(* read_ack over two tables of offsets.                                    *)
(***************************************************************************)
AcceptedAt ==
    [timestamp |-> 1, token |-> 9, side |-> 23, shares |-> 24, stock |-> 28,
     price |-> 36, time_in_force |-> 40, firm |-> 44, display |-> 48,
     reference_number |-> 49, capacity |-> 57, sweep |-> 58,
     minimum_quantity |-> 59, cross_type |-> 63, order_state |-> 64, bbo_weight |-> 65]

ReplacedAt ==
    [timestamp |-> 1, replacement_token |-> 9, side |-> 23, shares |-> 24, stock |-> 28,
     price |-> 36, time_in_force |-> 40, firm |-> 44, display |-> 48,
     reference_number |-> 49, capacity |-> 57, sweep |-> 58,
     minimum_quantity |-> 59, cross_type |-> 63, order_state |-> 64,
     previous_token |-> 65, bbo_weight |-> 79]

PutAck ==
    << <<"timestamp", "be64">>, <<"side", "u8">>, <<"stock", "alpha8">>,
       <<"price", "be32">>, <<"time_in_force", "be32">>, <<"firm", "alpha4">>,
       <<"display", "u8">>, <<"reference_number", "be64">>, <<"capacity", "u8">>,
       <<"sweep", "u8">>, <<"minimum_quantity", "be32">>, <<"cross_type", "u8">>,
       <<"order_state", "u8">>, <<"bbo_weight", "u8">> >>

ReadAck ==
    [timestamp |-> "be64", side |-> "u8", stock |-> "alpha8", price |-> "be32",
     time_in_force |-> "be32", firm |-> "alpha4", display |-> "u8",
     reference_number |-> "be64", capacity |-> "capacity", sweep |-> "u8",
     minimum_quantity |-> "be32", cross_type |-> "u8", order_state |-> "u8",
     bbo_weight |-> "u8"]

EncodeAccepted == << <<"token", "token">>, <<"shares", "be32">> >> \o PutAck
DecodeAccepted == [token |-> "token", shares |-> "be32"] @@ ReadAck

EncodeReplaced ==
    << <<"replacement_token", "token">>, <<"previous_token", "token">>,
       <<"shares", "be32">> >> \o PutAck
DecodeReplaced ==
    [replacement_token |-> "token", previous_token |-> "token",
     shares |-> "be32"] @@ ReadAck

(***************************************************************************)
(* Venue to client: events.                                                *)
(***************************************************************************)
SystemEventAt == [timestamp |-> 1, event_code |-> 9]
EncodeSystemEvent == << <<"timestamp", "be64">>, <<"event_code", "u8">> >>
DecodeSystemEvent == [timestamp |-> "be64", event_code |-> "u8"]

ExecutedAt ==
    [timestamp |-> 1, token |-> 9, executed_shares |-> 23, execution_price |-> 27,
     liquidity_flag |-> 31, match_number |-> 32]
EncodeExecuted ==
    << <<"timestamp", "be64">>, <<"token", "token">>, <<"executed_shares", "be32">>,
       <<"execution_price", "be32">>, <<"liquidity_flag", "u8">>,
       <<"match_number", "be64">> >>
DecodeExecuted ==
    [timestamp |-> "be64", token |-> "token", executed_shares |-> "be32",
     execution_price |-> "be32", liquidity_flag |-> "u8", match_number |-> "be64"]

CanceledAt == [timestamp |-> 1, token |-> 9, decrement_shares |-> 23, reason |-> 27]
EncodeCanceled ==
    << <<"timestamp", "be64">>, <<"token", "token">>,
       <<"decrement_shares", "be32">>, <<"reason", "u8">> >>
DecodeCanceled ==
    [timestamp |-> "be64", token |-> "token", decrement_shares |-> "be32",
     reason |-> "u8"]

RejectedAt == [timestamp |-> 1, token |-> 9, reason |-> 23]
EncodeRejected == << <<"timestamp", "be64">>, <<"token", "token">>, <<"reason", "u8">> >>
DecodeRejected == [timestamp |-> "be64", token |-> "token", reason |-> "u8"]

BrokenTradeAt == [timestamp |-> 1, token |-> 9, match_number |-> 23, reason |-> 31]
EncodeBrokenTrade ==
    << <<"timestamp", "be64">>, <<"token", "token">>, <<"match_number", "be64">>,
       <<"reason", "u8">> >>
DecodeBrokenTrade ==
    [timestamp |-> "be64", token |-> "token", match_number |-> "be64", reason |-> "u8"]

CancelNoticeAt == [timestamp |-> 1, token |-> 9]
EncodeCancelNotice == << <<"timestamp", "be64">>, <<"token", "token">> >>
DecodeCancelNotice == [timestamp |-> "be64", token |-> "token"]

ModifiedAt == [timestamp |-> 1, token |-> 9, side |-> 23, shares |-> 24]
EncodeModified ==
    << <<"timestamp", "be64">>, <<"token", "token">>, <<"side", "u8">>,
       <<"shares", "be32">> >>
DecodeModified ==
    [timestamp |-> "be64", token |-> "token", side |-> "u8", shares |-> "be32"]

PriorityUpdateAt ==
    [timestamp |-> 1, token |-> 9, price |-> 23, display |-> 27, reference_number |-> 28]
EncodePriorityUpdate ==
    << <<"timestamp", "be64">>, <<"token", "token">>, <<"price", "be32">>,
       <<"display", "u8">>, <<"reference_number", "be64">> >>
DecodePriorityUpdate ==
    [timestamp |-> "be64", token |-> "token", price |-> "be32", display |-> "u8",
     reference_number |-> "be64"]

(***************************************************************************)
(* Type byte and size of every message, with its tables.                   *)
(***************************************************************************)
Format(type, size, at, puts, gets) ==
    [type |-> <<type>>, size |-> size, at |-> at, puts |-> puts, gets |-> gets]

InboundFormats ==
    [enter_order |-> Format(79, 49, EnterOrderAt, EncodeEnterOrder, DecodeEnterOrder),
     replace_order |->
        Format(85, 47, ReplaceOrderAt, EncodeReplaceOrder, DecodeReplaceOrder),
     cancel_order |->
        Format(88, 19, CancelOrderAt, EncodeCancelOrder, DecodeCancelOrder),
     modify_order |->
        Format(77, 20, ModifyOrderAt, EncodeModifyOrder, DecodeModifyOrder)]

OutboundFormats ==
    [system_event |->
        Format(83, 10, SystemEventAt, EncodeSystemEvent, DecodeSystemEvent),
     accepted |-> Format(65, 66, AcceptedAt, EncodeAccepted, DecodeAccepted),
     replaced |-> Format(85, 80, ReplacedAt, EncodeReplaced, DecodeReplaced),
     canceled |-> Format(67, 28, CanceledAt, EncodeCanceled, DecodeCanceled),
     executed |-> Format(69, 40, ExecutedAt, EncodeExecuted, DecodeExecuted),
     rejected |-> Format(74, 24, RejectedAt, EncodeRejected, DecodeRejected),
     broken_trade |->
        Format(66, 32, BrokenTradeAt, EncodeBrokenTrade, DecodeBrokenTrade),
     cancel_pending |->
        Format(80, 23, CancelNoticeAt, EncodeCancelNotice, DecodeCancelNotice),
     cancel_reject |->
        Format(73, 23, CancelNoticeAt, EncodeCancelNotice, DecodeCancelNotice),
     modified |-> Format(77, 28, ModifiedAt, EncodeModified, DecodeModified),
     priority_update |->
        Format(84, 36, PriorityUpdateAt, EncodePriorityUpdate, DecodePriorityUpdate)]
=============================================================================
