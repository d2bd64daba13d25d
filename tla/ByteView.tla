------------------------------ MODULE ByteView ------------------------------
(***************************************************************************)
(* Bytes on the wire: packet_view and mutable_packet_view (core), and the  *)
(* padded text fields of SoupBinTCP and OUCH (wire/soupbintcp/ascii).      *)
(*                                                                         *)
(* A view is a sequence of bytes; offsets into it count from zero, as in   *)
(* the code.  The value of an integer field is its bytes, most significant *)
(* first, so that no 64-bit value has to be a number here; a text is the   *)
(* sequence of its characters.  The numbers that are written as text are   *)
(* numbers, up to WordMax (UINT64_MAX in the code).                        *)
(***************************************************************************)
EXTENDS Integers, Sequences, SequencesExt

CONSTANTS
    WordMax,            \* the largest value of the integer a text is read into
    SequenceTextSize    \* the width of a number written as text

ASSUME ByteViewAssumption == WordMax \in Nat /\ SequenceTextSize \in Nat \ {0}

Byte == 0..255
kPad == 32
kZero == 48
kNine == 57

(***************************************************************************)
(* Views.                                                                  *)
(***************************************************************************)
InView(view, offset, length) ==
    offset <= Len(view) /\ length <= Len(view) - offset

Window(view, offset, length) == SubSeq(view, offset + 1, offset + length)

PutBytes(view, offset, bytes) ==
    [i \in DOMAIN view |->
        IF i - offset \in DOMAIN bytes THEN bytes[i - offset] ELSE view[i]]

(***************************************************************************)
(* Fields of text: left-justified text, right-justified numbers.           *)
(***************************************************************************)
PutTextLeftJustified(width, text) ==
    [i \in 1..width |-> IF i <= Len(text) THEN text[i] ELSE kPad]

TextLeftJustified(field) ==
    SubSeq(field, 1, CHOOSE n \in 0..Len(field) :
                        /\ n = 0 \/ field[n] # kPad
                        /\ \A i \in n + 1..Len(field) : field[i] = kPad)

\* The digits of value, least significant first, until nothing is left.
DigitsOf(value) ==
    LET step(d, i) == IF d.rest = 0 /\ d.digits # <<>> THEN d
                      ELSE [rest |-> d.rest \div 10,
                            digits |-> <<kZero + (d.rest % 10)>> \o d.digits]
    IN  FoldLeft(step, [rest |-> value, digits |-> <<>>],
                 [i \in 1..10 |-> i]).digits

PutNumberRightJustified(width, value) ==
    LET digits == DigitsOf(value)
    IN  IF Len(digits) > width
        THEN [error |-> "invalid_argument", field |-> <<>>]
        ELSE [error |-> "ok", field |-> [i \in 1..width - Len(digits) |-> kPad] \o digits]

AddDigit(sum, byte) ==
    LET digit == byte - kZero
        ceiling == WordMax \div 10
    IN  IF \/ sum.error # "ok"
           \/ byte \notin kZero..kNine
           \/ sum.value > ceiling
           \/ sum.value = ceiling /\ digit > WordMax % 10
        THEN [sum EXCEPT !.error = "invalid_argument"]
        ELSE [sum EXCEPT !.value = @ * 10 + digit]

NumberRightJustified(field) ==
    LET at == CHOOSE n \in 0..Len(field) :
                 /\ \A i \in 1..n : field[i] = kPad
                 /\ n < Len(field) => field[n + 1] # kPad
    IN  IF at = Len(field)
        THEN [error |-> "invalid_argument", value |-> 0]
        ELSE FoldLeft(AddDigit, [error |-> "ok", value |-> 0],
                      SubSeq(field, at + 1, Len(field)))

(***************************************************************************)
(* The accessors, by name: how many bytes each one touches, the bytes it   *)
(* leaves in the view, and the value it returns for the bytes it finds.    *)
(***************************************************************************)
Width(accessor) ==
    CASE accessor \in {"u8", "capacity"} -> 1
      [] accessor \in {"be16", "le16"} -> 2
      [] accessor \in {"be32", "le32", "alpha4"} -> 4
      [] accessor \in {"be48", "alpha6"} -> 6
      [] accessor \in {"be64", "le64", "alpha8", "raw8"} -> 8
      [] accessor \in {"alpha10", "raw10"} -> 10
      [] accessor = "token" -> 14
      [] accessor = "number" -> SequenceTextSize

LittleEndian == {"le16", "le32", "le64"}
Padded == {"alpha4", "alpha6", "alpha8", "alpha10"}

\* Mutant: little-endian fields keep the order of the host's value.
MutantToWire(accessor, value) ==
    CASE accessor \in Padded -> PutTextLeftJustified(Width(accessor), value)
      [] accessor = "number" -> PutNumberRightJustified(Width(accessor), value).field
      [] accessor = "be48" -> SubSeq(value, 3, 8)
      [] OTHER -> value

ToWire(accessor, value) ==
    CASE accessor \in LittleEndian -> Reverse(value)
      [] accessor \in Padded -> PutTextLeftJustified(Width(accessor), value)
      [] accessor = "number" -> PutNumberRightJustified(Width(accessor), value).field
      [] accessor = "be48" -> SubSeq(value, 3, 8)
      [] OTHER -> value

\* Whether the value can be written at all: a text, or a timestamp in six
\* bytes, that does not fit is refused, never cut.
Encodable(accessor, value) ==
    /\ accessor \in Padded => Len(value) <= Width(accessor)
    /\ accessor = "number" =>
         PutNumberRightJustified(Width(accessor), value).error = "ok"
    /\ accessor = "be48" => SubSeq(value, 1, 2) = <<0, 0>>

\* capacity_from_wire: every byte but 'A', 'P' and 'R' is 'O', other.
CapacityFromWire(byte) == IF byte \in {65, 80, 82} THEN byte ELSE 79

FromWire(accessor, bytes) ==
    CASE accessor \in LittleEndian -> Reverse(bytes)
      [] accessor \in Padded -> TextLeftJustified(bytes)
      [] accessor = "number" -> NumberRightJustified(bytes).value
      [] accessor = "capacity" -> <<CapacityFromWire(bytes[1])>>
      [] accessor = "be48" -> <<0, 0>> \o bytes
      [] OTHER -> bytes
=============================================================================
