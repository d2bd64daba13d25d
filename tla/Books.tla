------------------------------- MODULE Books --------------------------------
(***************************************************************************)
(* The two books of the library, each driven by any feed of its own kind.  *)
(*                                                                         *)
(* On a DEEP feed a venue keeps a price-level book.  At some moment a      *)
(* client asks for a snapshot: the Glimpse service serves the book of that *)
(* moment with the position of the next message, the client reads the      *)
(* session frame by frame while the feed runs on, and then follows the     *)
(* feed from the position it was given.  The connection may be cut between *)
(* two frames.                                                             *)
(*                                                                         *)
(* On an ITCH feed an order-level book follows single orders; beside it    *)
(* goes the plain map from references to orders that it stands for.        *)
(***************************************************************************)
EXTENDS LevelBook, OrderTable

CONSTANTS
    BidPrices, AskPrices, Sizes,  \* inputs of a quote
    MaxMessages,                \* bound: messages on the DEEP feed
    References,                 \* order references of the ITCH messages
    Large                       \* those whose orders are for two shares, not one

ASSUME BooksAssumption ==
    /\ BidPrices \subseteq Int /\ AskPrices \subseteq Int /\ Sizes \subseteq Nat
    /\ MaxMessages \in Nat /\ References \subseteq Nat

VARIABLES
    feed,       \* "deep" or "itch"
    history,    \* the messages of the DEEP feed; message n is history[n]
    venue,      \* the venue's book
    session,    \* frames of the snapshot session on their way to the client
    captured,   \* the position at the request, 0 before it
    reader,     \* the client
    position,   \* the next message the client takes from the feed, 0 before that
    table,      \* the order-level book
    orders,     \* the map it stands for: the reference definition
    answer      \* what the last ITCH message was told, and what the map says

deep == <<history, venue, session, captured, reader, position>>
itch == <<table, orders, answer>>
vars == <<feed, deep, itch>>

Init ==
    /\ feed \in {"deep", "itch"}
    /\ history = <<>> /\ venue = EmptyBook
    /\ session = <<>> /\ captured = 0 /\ reader = NewReader /\ position = 0
    /\ table = EmptyTable /\ orders = [r \in {} |-> 0] /\ answer = <<"ok", "ok">>

(***************************************************************************)
(* The DEEP feed and the snapshot.                                         *)
(***************************************************************************)
Messages ==
    [type : {"quote"}, buy : {TRUE}, price : BidPrices, size : Sizes]
        \cup [type : {"quote"}, buy : {FALSE}, price : AskPrices, size : Sizes]
        \cup [type : {"trade"}]

Publish ==
    /\ feed = "deep" /\ Len(history) < MaxMessages
    /\ \E message \in Messages :
         /\ history' = Append(history, message)
         /\ venue' = ApplyMessage(venue, message)
    /\ UNCHANGED <<feed, session, captured, reader, position, itch>>

AskSnapshot ==
    /\ feed = "deep" /\ captured = 0
    /\ captured' = Len(history) + 1
    /\ session' = Serve(venue, Len(history) + 1)
    /\ UNCHANGED <<feed, history, venue, reader, position, itch>>

ReadNext ==
    /\ session # <<>> /\ ~reader.broken
    /\ reader' = ReadFrame(reader, Head(session))
    /\ session' = Tail(session)
    /\ UNCHANGED <<feed, history, venue, captured, position, itch>>

\* A session cut before End Of Snapshot never said where to resume.
ConnectionCut ==
    /\ session # <<>> /\ session' = <<>>
    /\ UNCHANGED <<feed, history, venue, captured, reader, position, itch>>

FollowFeed ==
    /\ feed = "deep" /\ captured # 0 /\ session = <<>> /\ reader.resume # 0
    /\ LET next == IF position = 0 THEN reader.resume ELSE position
       IN  /\ next <= Len(history)
           /\ reader' = [reader EXCEPT !.book = ApplyMessage(@, history[next])]
           /\ position' = next + 1
    /\ UNCHANGED <<feed, history, venue, session, captured, itch>>

(***************************************************************************)
(* The ITCH feed.  Price, shares and, for a new order, the side are drawn  *)
(* from the reference.  MapAdd and the rest say what a plain map from      *)
(* references to orders would do with the message.                         *)
(***************************************************************************)
MapAnswer(map, verdict) == [orders |-> map, answer |-> verdict]
Put(map, order) == [r \in DOMAIN map \cup {order.reference} |->
                        IF r = order.reference THEN order ELSE map[r]]
Without(map, reference) == [r \in DOMAIN map \ {reference} |-> map[r]]

MapAdd(map, order) ==
    IF order.reference \in DOMAIN map THEN MapAnswer(map, "invalid_argument")
    ELSE IF Cardinality(DOMAIN map) = Capacity THEN MapAnswer(map, "capacity_exceeded")
    ELSE MapAnswer(Put(map, order), "ok")

MapReduce(map, reference, shares) ==
    IF reference \notin DOMAIN map THEN MapAnswer(map, "invalid_argument")
    ELSE IF map[reference].shares < shares THEN MapAnswer(map, "invalid_argument")
    ELSE IF map[reference].shares = shares THEN MapAnswer(Without(map, reference), "ok")
    ELSE MapAnswer([map EXCEPT ![reference].shares = @ - shares], "ok")

MapDelete(map, reference) ==
    IF reference \in DOMAIN map THEN MapAnswer(Without(map, reference), "ok")
    ELSE MapAnswer(map, "invalid_argument")

MapReplace(map, original, new, shares, price) ==
    IF original \notin DOMAIN map \/ new \in DOMAIN map
    THEN MapAnswer(map, "invalid_argument")
    ELSE MapAnswer(Put(Without(map, original),
                       [reference |-> new, shares |-> shares, price |-> price,
                        buy |-> map[original].buy]), "ok")

Apply(result, reference) ==
    /\ feed = "itch"
    /\ table' = result.table /\ orders' = reference.orders
    /\ answer' = <<result.answer, reference.answer>>
    /\ UNCHANGED <<feed, deep>>

Shares(reference) == IF reference \in Large THEN 2 ELSE 1

AddOrder ==
    \E reference \in References :
        LET order == [reference |-> reference, shares |-> Shares(reference),
                      price |-> reference, buy |-> reference \in Large]
        IN  Apply(ApplyAdd(table, order), MapAdd(orders, order))

OrderExecutedOrCanceled ==
    \E reference \in References, shares \in 1..2 :
        Apply(ApplyReduce(table, reference, shares), MapReduce(orders, reference, shares))

OrderDelete ==
    \E reference \in References :
        Apply(ApplyDelete(table, reference), MapDelete(orders, reference))

OrderReplace ==
    \E original, new \in References :
        Apply(ApplyReplace(table, original, new, Shares(new), new),
              MapReplace(orders, original, new, Shares(new), new))

Next ==
    \/ Publish \/ AskSnapshot \/ ReadNext \/ ConnectionCut \/ FollowFeed
    \/ AddOrder \/ OrderExecutedOrCanceled \/ OrderDelete \/ OrderReplace

Spec == Init /\ [][Next]_vars

(***************************************************************************)
(* Properties.                                                             *)
(***************************************************************************)
\* The size the feed last gave for a price; zero if it never did.
LastSize(buy, price) ==
    LET quotes == {i \in DOMAIN history :
                      /\ history[i].type = "quote"
                      /\ history[i].buy = buy /\ history[i].price = price}
    IN  IF quotes = {} THEN 0 ELSE history[Max(quotes)].size

\* A side of the venue's book shows, best price first, levels whose sizes are the
\* last the feed gave for their prices, and every level it should show and does
\* not was counted as refused: a full book is never silently wrong.
BookIsLastWrites ==
    \A buy \in BOOLEAN :
        LET side == IF buy THEN venue.bids ELSE venue.asks
            shown == {side.levels[i].price : i \in DOMAIN side.levels}
            expected == {price \in BidPrices \cup AskPrices : LastSize(buy, price) > 0}
        IN  /\ \A i, j \in DOMAIN side.levels :
                 i < j => Better(buy, side.levels[i].price, side.levels[j].price)
            /\ \A i \in DOMAIN side.levels :
                 side.levels[i].size = LastSize(buy, side.levels[i].price)
            /\ Cardinality(expected \ shown) <= side.refused

\* A client that reads the snapshot and then follows the feed from the position
\* it was given has, at every message, the book of a client that was there from
\* the start, and has seen each later trade once: nothing is applied twice and
\* nothing is skipped, however far the feed ran on while it was reading.
SnapshotPlusFeedIsTheBook ==
    (captured # 0 /\ session = <<>> /\ reader.resume # 0) =>
        LET upTo == (IF position = 0 THEN captured ELSE position) - 1
            always == FoldLeft(ApplyMessage, EmptyBook, SubSeq(history, 1, upTo))
            since == {i \in captured..upTo : history[i].type = "trade"}
        IN  SameBook(reader.book, always) /\ reader.book.trades = Cardinality(since)

\* However many collisions and tombstones the table has seen, a lookup finds
\* exactly the orders a plain map would hold, and every message was answered as
\* the map would answer it: refused for want of room only when Capacity orders
\* are live, and a replace always fits.
TableIsTheMap ==
    /\ \A r \in References : Has(table, r) <=> r \in DOMAIN orders
    /\ \A r \in DOMAIN orders : Find(table, r) = orders[r]
    /\ answer[1] = answer[2]
=============================================================================
