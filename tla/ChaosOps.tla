------------------------------ MODULE ChaosOps ------------------------------
(***************************************************************************)
(* Fault injection (chaos/): the schedules the generator can draw, what a  *)
(* fault does to a datagram of either protocol, and the injector that      *)
(* applies a schedule to a stream of packets.                              *)
(*                                                                         *)
(* flip_bit is left out: the bit may belong to any field, and the drivers  *)
(* that look at the consequences of a schedule mask it out.                *)
(***************************************************************************)
EXTENDS Framing

CONSTANTS
    Permitted,          \* options.permitted: the fault kinds a schedule may use
    MinFaults, MaxFaults,
    MinBurst, MaxBurst,
    Warmup,             \* options.warmup_packets
    MaxOperand,         \* bound: largest operand of a delay, count or length
    MaxDelayed          \* kMaxDelayedPackets

\* enum class fault_op.
FaultOps ==
    {"drop", "duplicate", "delay", "truncate", "overstate_block_count",
     "understate_block_count", "overstate_block_length", "rewrite_sequence",
     "rewrite_session"}

ASSUME ChaosAssumption ==
    /\ Permitted \subseteq FaultOps /\ Permitted # {}
    /\ {MinFaults, MaxFaults, MinBurst, MaxBurst, Warmup, MaxDelayed} \subseteq Nat
    /\ MinFaults <= MaxFaults /\ 0 < MinBurst /\ MinBurst <= MaxBurst
    /\ MaxOperand \in Nat \ {0}

(***************************************************************************)
(* Schedules.                                                              *)
(***************************************************************************)
Covers(f, index) == f.first <= index /\ index - f.first < f.count

\* fill_parameters(): only the kinds that read an operand draw one.  A packet is
\* truncated to some number of cells, 0 meaning inside the header.
OperandsOf(op) ==
    CASE op \in {"drop", "duplicate"} -> {0}
      [] op = "truncate" -> 0..MaxOperand
      [] OTHER -> 1..MaxOperand

\* Every fault generate() can draw over a stream of n packets: placement leaves
\* room for the smallest burst, the stream's end cuts a longer one.
FaultsOver(n) ==
    {[op |-> op, first |-> first, count |-> IF burst < n - first THEN burst ELSE n - first,
      operand |-> operand] :
        op \in Permitted, first \in Warmup..n - MinBurst, burst \in MinBurst..MaxBurst,
        operand \in 0..MaxOperand}

Schedules(n) ==
    IF n < Warmup + MinBurst THEN {<<>>}
    ELSE LET drawn == {f \in FaultsOver(n) : f.operand \in OperandsOf(f.op)}
         IN  UNION {[1..k -> drawn] : k \in MinFaults..MaxFaults}

\* at_packet(): the first fault that covers the packet, 0 when none does.
AtPacket(plan, index) ==
    LET found == {i \in DOMAIN plan : Covers(plan[i], index)}
    IN  IF found = {} THEN 0 ELSE CHOOSE i \in found : \A j \in found : i <= j

(***************************************************************************)
(* The targets: what a fault rewrites.  <<>> when the packet cannot carry  *)
(* the fault.                                                              *)
(***************************************************************************)
Saturate(low, high, n) == IF n < low THEN low ELSE IF n > high THEN high ELSE n

AddToSequence(p, delta) == <<[p EXCEPT !.sequence = @ + delta]>>
SetSession(p, session) == <<[p EXCEPT !.session = session]>>

\* MoldUDP64 keeps off the counts that mean something else.
MoldAdjustBlockCount(p, by) ==
    <<[p EXCEPT !.count = Saturate(1, EndOfSession - 1, @ + by)]>>

\* IEX-TP leaves the Payload Length as it was.
IextpAdjustBlockCount(p, by) == <<[p EXCEPT !.count = Saturate(0, EndOfSession, @ + by)]>>

AdjustBlockCount(protocol, p, by) ==
    IF protocol = "iextp" THEN IextpAdjustBlockCount(p, by) ELSE MoldAdjustBlockCount(p, by)

AdjustFirstBlockLength(p, by) ==
    IF p.payload = <<>> THEN <<>>
    ELSE <<[p EXCEPT !.payload[1] = Saturate(0, EndOfSession, @ + by)]>>

\* Only shortens: operand 0 cuts the header, operand k leaves k - 1 cells.
Truncated(p, operand) ==
    CASE operand = 0 -> <<[p EXCEPT !.whole = FALSE, !.payload = <<>>]>>
      [] operand > 0 /\ operand - 1 < Len(p.payload) ->
            <<[p EXCEPT !.payload = SubSeq(@, 1, operand - 1)]>>
      [] OTHER -> <<>>

Damaged(protocol, f, p) ==
    CASE f.op = "truncate" -> Truncated(p, f.operand)
      [] f.op = "overstate_block_count" -> AdjustBlockCount(protocol, p, f.operand)
      [] f.op = "understate_block_count" -> AdjustBlockCount(protocol, p, 0 - f.operand)
      [] f.op = "overstate_block_length" -> AdjustFirstBlockLength(p, f.operand)
      [] f.op = "rewrite_sequence" -> AddToSequence(p, f.operand)
      [] f.op = "rewrite_session" -> SetSession(p, f.operand)

(***************************************************************************)
(* The injector.                                                           *)
(***************************************************************************)
NewInjector == [delayed |-> <<>>, offered |-> 0, emitted |-> 0, dropped |-> 0,
                duplicated |-> 0, held |-> 0, mutated |-> 0, notApplicable |-> 0]

Emission(packet, source, cause) ==
    [packet |-> packet, source |-> source, cause |-> cause]

Deliver(inj, emissions) ==
    [injector |-> [inj EXCEPT !.emitted = @ + Len(emissions)], out |-> emissions]

OnTime(packet, index) == Emission(packet, index, "none")
Late(slot) == Emission(slot.packet, slot.source, "delay")

\* Mutant: a packet there is no room to hold is lost.
MutantHold(inj, f, packet, index) ==
    IF Len(inj.delayed) >= MaxDelayed
    THEN Deliver([inj EXCEPT !.notApplicable = @ + 1], <<>>)
    ELSE Deliver([inj EXCEPT !.held = @ + 1,
                             !.delayed = Append(@, [packet |-> packet, source |-> index,
                                                    release |-> index + f.operand])],
                 <<>>)

\* hold(): with no room the packet goes out on time, the fault not applied.
Hold(inj, f, packet, index) ==
    IF Len(inj.delayed) >= MaxDelayed
    THEN Deliver([inj EXCEPT !.notApplicable = @ + 1], <<OnTime(packet, index)>>)
    ELSE Deliver([inj EXCEPT !.held = @ + 1,
                             !.delayed = Append(@, [packet |-> packet, source |-> index,
                                                    release |-> index + f.operand])],
                 <<>>)

\* damage(): a packet that cannot carry the fault is delivered untouched.
Damage(protocol, inj, f, packet, index) ==
    LET changed == Damaged(protocol, f, packet)
    IN  IF changed = <<>>
        THEN Deliver([inj EXCEPT !.notApplicable = @ + 1], <<OnTime(packet, index)>>)
        ELSE Deliver([inj EXCEPT !.mutated = @ + 1],
                     <<Emission(changed[1], index, f.op)>>)

Apply(protocol, inj, f, packet, index) ==
    CASE f.op = "drop" -> Deliver([inj EXCEPT !.dropped = @ + 1], <<>>)
      [] f.op = "duplicate" ->
            Deliver([inj EXCEPT !.duplicated = @ + 1],
                    <<OnTime(packet, index), Emission(packet, index, "duplicate")>>)
      [] f.op = "delay" -> Hold(inj, f, packet, index)
      [] OTHER -> Damage(protocol, inj, f, packet, index)

\* release_due(): what is due leaves in queue order, the rest keeps its order.
Release(index, sifted, slot) ==
    IF slot.release <= index
    THEN [sifted EXCEPT !.late = Append(@, Late(slot))]
    ELSE [sifted EXCEPT !.kept = Append(@, slot)]

ReleaseDue(inj, index) ==
    LET sifted == FoldLeft(LAMBDA s, slot : Release(index, s, slot),
                           [late |-> <<>>, kept |-> <<>>], inj.delayed)
    IN  Deliver([inj EXCEPT !.delayed = sifted.kept], sifted.late)

\* offer(): late packets first, then this one.
OfferTo(protocol, inj, plan, packet, index) ==
    LET released == ReleaseDue([inj EXCEPT !.offered = @ + 1], index)
        entry == AtPacket(plan, index)
        now == IF entry = 0 THEN Deliver(released.injector, <<OnTime(packet, index)>>)
               ELSE Apply(protocol, released.injector, plan[entry], packet, index)
    IN  [injector |-> now.injector, out |-> released.out \o now.out]

\* flush(): everything still held, in queue order.
FlushInjector(inj) ==
    Deliver([inj EXCEPT !.delayed = <<>>],
            [i \in DOMAIN inj.delayed |-> Late(inj.delayed[i])])
=============================================================================
