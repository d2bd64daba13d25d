----------------------------- MODULE LevelBook ------------------------------
(***************************************************************************)
(* The price-level book of one symbol (book/order_book.hpp) as operators,  *)
(* and the snapshot of it that the Glimpse service puts on a SoupBinTCP    *)
(* session (venue/glimpse_service.hpp).                                    *)
(***************************************************************************)
EXTENDS Integers, SequencesExt, FiniteSetsExt

CONSTANT Depth          \* capacity of a side

ASSUME DepthAssumption == Depth \in Nat /\ Depth >= 2

(***************************************************************************)
(* A side is its levels, best price first, and how many it refused.        *)
(***************************************************************************)
EmptySide == [levels |-> <<>>, refused |-> 0]

Better(buy, a, b) == IF buy THEN a > b ELSE a < b

\* Mutant: the scan runs the same way on both sides.
MutantPositionOf(levels, buy, price) ==
    Min({i \in 1..Len(levels) + 1 :
            i \in DOMAIN levels => ~Better(FALSE, levels[i].price, price)})

\* position_of(): the first level that is not better.
PositionOf(levels, buy, price) ==
    Min({i \in 1..Len(levels) + 1 :
            i \in DOMAIN levels => ~Better(buy, levels[i].price, price)})

\* side::apply(): size zero removes the level, present or not.
ApplyLevel(side, buy, price, size) ==
    LET where == PositionOf(side.levels, buy, price)
        present == where <= Len(side.levels) /\ side.levels[where].price = price
        level == [price |-> price, size |-> size]
    IN  CASE size = 0 /\ present -> [side EXCEPT !.levels = RemoveAt(@, where)]
          [] size = 0 /\ ~present -> side
          [] size > 0 /\ present -> [side EXCEPT !.levels[where] = level]
          [] size > 0 /\ ~present /\ Len(side.levels) >= Depth ->
                [side EXCEPT !.refused = @ + 1]
          [] OTHER -> [side EXCEPT !.levels = InsertAt(@, where, level)]

EmptyBook == [bids |-> EmptySide, asks |-> EmptySide, trades |-> 0]

\* apply_to_book(): a quote moves its side, a trade is only counted, anything
\* else (a trade break, a Glimpse marker) is passed over.
ApplyMessage(book, message) ==
    CASE message.type = "quote" /\ message.buy ->
            [book EXCEPT !.bids = ApplyLevel(@, TRUE, message.price, message.size)]
      [] message.type = "quote" /\ ~message.buy ->
            [book EXCEPT !.asks = ApplyLevel(@, FALSE, message.price, message.size)]
      [] message.type = "trade" -> [book EXCEPT !.trades = @ + 1]
      [] OTHER -> book

\* operator==: the levels, not the counters.
SameBook(a, b) == a.bids.levels = b.bids.levels /\ a.asks.levels = b.asks.levels

(***************************************************************************)
(* The snapshot session: frames of type and content.                       *)
(***************************************************************************)
Frame(type, body) == [type |-> type, body |-> body]

LevelFrames(levels, buy) ==
    [i \in DOMAIN levels |->
        Frame("sequenced_data", [type |-> "quote", buy |-> buy, price |-> levels[i].price,
                                 size |-> levels[i].size])]

\* Mutant: the position of the last message included.
MutantServe(book, next) ==
    <<Frame("login_accepted", 1), Frame("sequenced_data", [type |-> "begin_snapshot"])>>
        \o LevelFrames(book.bids.levels, TRUE) \o LevelFrames(book.asks.levels, FALSE)
        \o <<Frame("sequenced_data", [type |-> "end_snapshot", next |-> next - 1]),
             Frame("end_of_session", 0)>>

\* serve(), for a position other than zero: the session's own numbering starts
\* at one, whatever the feed's is.
Serve(book, next) ==
    <<Frame("login_accepted", 1), Frame("sequenced_data", [type |-> "begin_snapshot"])>>
        \o LevelFrames(book.bids.levels, TRUE) \o LevelFrames(book.asks.levels, FALSE)
        \o <<Frame("sequenced_data", [type |-> "end_snapshot", next |-> next]),
             Frame("end_of_session", 0)>>

(***************************************************************************)
(* The client of a snapshot session: a stream_cursor that numbers what it  *)
(* reads (number 0 before the login), the book so far, and the position to *)
(* resume at (0 before End Of Snapshot).                                   *)
(***************************************************************************)
NewReader == [number |-> 0, book |-> EmptyBook, resume |-> 0, broken |-> FALSE]

AdvancesSequence(type) == type = "sequenced_data"

\* stream_cursor::next(), then what run_glimpse_session makes of the frame.
\* Sequenced data before the login cannot be numbered and ends the reading.
ReadFrame(reader, frame) ==
    LET numbered == [reader EXCEPT !.number =
                        IF AdvancesSequence(frame.type) THEN @ + 1 ELSE @]
    IN  CASE frame.type = "login_accepted" -> [reader EXCEPT !.number = frame.body]
          [] frame.type = "end_of_session" -> reader
          [] frame.type = "sequenced_data" /\ reader.number = 0 ->
                [reader EXCEPT !.broken = TRUE]
          [] frame.type = "sequenced_data" /\ reader.number > 0
             /\ frame.body.type = "end_snapshot" ->
                [numbered EXCEPT !.resume = frame.body.next]
          [] OTHER -> [numbered EXCEPT !.book = ApplyMessage(@, frame.body)]
=============================================================================
