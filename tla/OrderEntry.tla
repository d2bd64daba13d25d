----------------------------- MODULE OrderEntry -----------------------------
(***************************************************************************)
(* The order entry host of the venue (venue/order_entry.hpp with its       *)
(* token registry, order records and message writer) as operators on a    *)
(* host record.  Every operation takes the host and a request and returns  *)
(* the host after it, the OUCH messages it emitted, in order, and the      *)
(* outcome or the error it returned.                                       *)
(*                                                                         *)
(* Stock, price, firm and timestamps are carried through unread and are    *)
(* left out; a request that validate() refuses is one whose share count is *)
(* zero.                                                                   *)
(***************************************************************************)
EXTENDS Naturals, Sequences, FiniteSets

CONSTANTS
    MaxLiveOrders,      \* kMaxLiveOrders: order records the host can hold
    MaxTokensPerDay,    \* kMaxTokensPerDay
    LateCrossPeriod     \* options_.late_cross_period

ASSUME CapacityAssumption ==
    /\ MaxLiveOrders \in Nat \ {0}
    /\ MaxTokensPerDay \in Nat \ {0}
    /\ LateCrossPeriod \in BOOLEAN

NoToken == "none"
Sides == {"buy", "sell", "sell_short", "sell_short_exempt"}

(***************************************************************************)
(* One order: what its owner is liable for and what became of it.          *)
(***************************************************************************)
SharesOpen(o) == IF o.liable > o.executed + o.canceled
                 THEN o.liable - o.executed - o.canceled
                 ELSE 0

Accounts(o) == o.executed + o.canceled + SharesOpen(o) = o.liable

IsValidShareCount(shares) == shares > 0

\* The three sell variants may be exchanged for one another.
IsPermittedModifyTransition(from, to) ==
    LET shortable == {"sell", "sell_short", "sell_short_exempt"}
    IN  from # to /\ from \in shortable /\ to \in shortable

(***************************************************************************)
(* The host and what its operations return.                                *)
(***************************************************************************)
EmptyHost == [tokens |-> {}, orders |-> <<>>, references |-> 0]

Outcome(h, sent, what) == [host |-> h, sent |-> sent, outcome |-> what]
Ignored(h) == Outcome(h, <<>>, "ignored")

Full(h) == Cardinality(h.tokens) >= MaxTokensPerDay
\* Mutant: a rejected token is forgotten and may be used again.
MutantConsume(h, token) == IF Len(h.orders) >= MaxLiveOrders
                           THEN h ELSE [h EXCEPT !.tokens = @ \cup {token}]

Consume(h, token) == [h EXCEPT !.tokens = @ \cup {token}]

\* index_of() searches newest first; 0 when no record carries the token.
IndexOf(h, token) ==
    LET found == {i \in DOMAIN h.orders : h.orders[i].token = token}
    IN  IF found = {} THEN 0 ELSE CHOOSE i \in found : \A j \in found : j <= i

IsLive(h, token) == LET i == IndexOf(h, token) IN i # 0 /\ h.orders[i].live

Rejected(h, token) ==
    IF Full(h) THEN Outcome(h, <<>>, "capacity_exceeded")
    ELSE Outcome(Consume(h, token),
                 <<[type |-> "rejected", token |-> token]>>, "rejected")

(***************************************************************************)
(* Enter Order.                                                            *)
(***************************************************************************)
NewOrder(h, r) ==
    [token |-> r.token, previous |-> NoToken, side |-> r.side, cross |-> r.cross,
     liable |-> r.shares, executed |-> 0,
     canceled |-> IF r.ioc THEN r.shares ELSE 0,
     reference |-> h.references + 1, live |-> ~r.ioc]

Enter(h, r) ==
    IF r.token \in h.tokens THEN Ignored(h)
    ELSE IF ~IsValidShareCount(r.shares) \/ Len(h.orders) >= MaxLiveOrders
    THEN Rejected(h, r.token)
    ELSE IF Full(h) THEN Outcome(h, <<>>, "capacity_exceeded")
    ELSE Outcome([Consume(h, r.token) EXCEPT !.orders = Append(@, NewOrder(h, r)),
                                             !.references = @ + 1],
                 <<[type |-> "accepted", token |-> r.token, shares |-> r.shares,
                    live |-> ~r.ioc]>>,
                 "accepted")

(***************************************************************************)
(* Cancel Order: the request names the new intended order size.            *)
(***************************************************************************)
Reduce(o, removed) ==
    LET less == [o EXCEPT !.canceled = @ + removed]
    IN  [less EXCEPT !.live = SharesOpen(less) > 0]

CanceledMessage(token, removed) ==
    [type |-> "canceled", token |-> token, shares |-> removed]

\* Mutant: the intended size is taken as it is, below what already executed.
MutantCancel(h, r) ==
    IF ~IsLive(h, r.token) THEN Ignored(h)
    ELSE LET i == IndexOf(h, r.token)
             o == h.orders[i]
         IN  IF r.shares >= o.liable THEN Ignored(h)
             ELSE Outcome([h EXCEPT !.orders[i] = Reduce(o, o.liable - r.shares)],
                          <<CanceledMessage(o.token, o.liable - r.shares)>>,
                          "canceled")

Cancel(h, r) ==
    IF ~IsLive(h, r.token) THEN Ignored(h)
    ELSE LET i == IndexOf(h, r.token)
             o == h.orders[i]
             intended == IF r.shares > o.executed THEN r.shares ELSE o.executed
         IN  IF intended >= o.liable THEN Ignored(h)
             ELSE Outcome([h EXCEPT !.orders[i] = Reduce(o, o.liable - intended)],
                          <<CanceledMessage(o.token, o.liable - intended)>>,
                          "canceled")

(***************************************************************************)
(* Replace Order: four outcomes, in the order the code tries them.         *)
(***************************************************************************)
DetailsInvalid(o, r) ==
    \/ ~IsValidShareCount(r.shares)
    \/ r.replacement = r.token
    \/ r.shares < o.executed

ReplaceCancelsExisting(h, i) ==
    LET o == h.orders[i]
        removed == SharesOpen(o)
    IN  Outcome([h EXCEPT !.orders[i].canceled = @ + removed, !.orders[i].live = FALSE],
                <<CanceledMessage(o.token, removed)>>, "replace_canceled_existing")

\* Mutant: the replacement starts with nothing executed, so the shares of the
\* chain that already traded are exposed a second time.
MutantReplacement(h, o, r) ==
    [o EXCEPT !.previous = o.token, !.token = r.replacement, !.liable = r.shares,
              !.canceled = 0, !.executed = 0, !.reference = h.references + 1,
              !.live = TRUE]

Replacement(h, o, r) ==
    [o EXCEPT !.previous = o.token, !.token = r.replacement, !.liable = r.shares,
              !.canceled = 0, !.reference = h.references + 1, !.live = TRUE]

ReplaceInBook(h, i, r) ==
    LET o == h.orders[i]
        new == Replacement(h, o, r)
        \* The shares moved to the replacement: they are not canceled here.
        retired == [o EXCEPT !.live = FALSE, !.liable = o.executed, !.canceled = 0]
    IN  Outcome([Consume(h, r.replacement) EXCEPT
                    !.orders = Append([@ EXCEPT ![i] = retired], new),
                    !.references = @ + 1],
                <<[type |-> "replaced", token |-> new.token, previous |-> o.token,
                   shares |-> SharesOpen(new), live |-> SharesOpen(new) > 0]>>,
                "replaced")

Replace(h, r) ==
    LET i == IndexOf(h, r.token)
    IN  IF ~IsLive(h, r.token) \/ r.replacement \in h.tokens THEN Ignored(h)
        ELSE IF h.orders[i].cross /\ LateCrossPeriod THEN Rejected(h, r.replacement)
        ELSE IF DetailsInvalid(h.orders[i], r) THEN ReplaceCancelsExisting(h, i)
        ELSE IF Full(h) THEN Outcome(h, <<>>, "capacity_exceeded")
        \* The token is spent before the capacity of the book is looked at.
        ELSE IF Len(h.orders) >= MaxLiveOrders
        THEN Outcome(Consume(h, r.replacement), <<>>, "capacity_exceeded")
        ELSE ReplaceInBook(h, i, r)

(***************************************************************************)
(* Modify Order.                                                           *)
(***************************************************************************)
\* Mutant: the acknowledgement repeats the total asked for, not what is open.
MutantModify(h, r) ==
    LET i == IndexOf(h, r.token)
        new == [h.orders[i] EXCEPT !.side = r.side, !.liable = r.shares]
    IN  IF \/ ~IsLive(h, r.token)
           \/ ~IsPermittedModifyTransition(h.orders[i].side, r.side)
           \/ r.shares < h.orders[i].executed
        THEN Ignored(h)
        ELSE Outcome([h EXCEPT !.orders[i] = new],
                     <<[type |-> "modified", token |-> r.token, shares |-> r.shares]>>,
                     "modified")

Modify(h, r) ==
    LET i == IndexOf(h, r.token)
        new == [h.orders[i] EXCEPT !.side = r.side, !.liable = r.shares]
    IN  IF \/ ~IsLive(h, r.token)
           \/ ~IsPermittedModifyTransition(h.orders[i].side, r.side)
           \/ r.shares < h.orders[i].executed
        THEN Ignored(h)
        ELSE Outcome([h EXCEPT !.orders[i] = new],
                     <<[type |-> "modified", token |-> r.token,
                        shares |-> SharesOpen(new)]>>,
                     "modified")

(***************************************************************************)
(* An execution, driven by the caller.                                     *)
(***************************************************************************)
Execute(h, token, shares) ==
    LET i == IndexOf(h, token)
        o == h.orders[i]
        filled == [o EXCEPT !.executed = @ + shares]
    IN  IF ~IsLive(h, token) \/ shares = 0 THEN Ignored(h)
        ELSE IF shares > SharesOpen(o) THEN Outcome(h, <<>>, "invalid_argument")
        ELSE Outcome([h EXCEPT !.orders[i] =
                        [filled EXCEPT !.live = SharesOpen(filled) > 0]],
                     <<[type |-> "executed", token |-> token, shares |-> shares]>>,
                     "executed")
=============================================================================
