------------------------ MODULE OrderSession_proofs -------------------------
(* Proofs about OrderSession, for any tokens, share counts and capacities of *)
(* the host.  The parts of the invariant are operators on a host and on what *)
(* the client has written down, so that a replacement, which retires one     *)
(* record and adds another, is two steps of the lemmas.                      *)
EXTENDS OrderSession, Integers, SequenceTheorems, TLAPS

-----------------------------------------------------------------------------
(* The inductive invariant.                                                  *)

Order == [token : Tokens, previous : Tokens \cup {NoToken}, side : Sides,
          cross : BOOLEAN, liable : Nat, executed : Nat, canceled : Nat,
          reference : Nat, live : BOOLEAN]

Host == [tokens : SUBSET Tokens, orders : Seq(Order), references : Nat]

\* A token has one record at most, and only spent tokens have one.
HostInv(h) ==
    /\ h \in Host
    /\ \A i \in DOMAIN h.orders : h.orders[i].token \in h.tokens
    /\ \A i, j \in DOMAIN h.orders : h.orders[i].token = h.orders[j].token => i = j

\* Nothing of an order is executed or canceled twice, and it is live while
\* something of it is open.
Sound(o) ==
    /\ o.executed + o.canceled <= o.liable
    /\ o.live <=> o.executed + o.canceled < o.liable

SoundInv(h) == \A i \in DOMAIN h.orders : Sound(h.orders[i])

\* What the client added up of each token is what the record of it says; of a
\* token without a record it has heard of no shares.
ClientInv(h, book, done) ==
    /\ book \in [Tokens -> Nat] /\ done \in [Tokens -> Nat]
    /\ \A i \in DOMAIN h.orders :
            /\ book[h.orders[i].token] = SharesOpen(h.orders[i])
            /\ done[h.orders[i].token] = h.orders[i].executed
    /\ \A t \in Tokens :
            (\A i \in DOMAIN h.orders : h.orders[i].token # t)
                => book[t] = 0 /\ done[t] = 0

AnswerInv(h, count) ==
    /\ count \in [Tokens -> Nat]
    /\ \A t \in Tokens : count[t] <= 1 /\ (count[t] = 1 => t \in h.tokens)

SessionInv ==
    /\ HostInv(host)
    /\ ClientInv(host, ledger, traded)
    /\ AnswerInv(host, answers)
    /\ ~Adverse => SoundInv(host)

-----------------------------------------------------------------------------
(* Records and where they are.                                               *)

LEMMA OpenIsNat == ASSUME NEW o \in Order PROVE SharesOpen(o) \in Nat
PROOF BY SMT DEF Order, SharesOpen

\* index_of() finds the one record that carries the token.
LEMMA IndexFound ==
    ASSUME NEW h, HostInv(h), NEW i \in DOMAIN h.orders
    PROVE  IndexOf(h, h.orders[i].token) = i
PROOF
  <1> DEFINE found == {k \in DOMAIN h.orders : h.orders[k].token = h.orders[i].token}
  <1>1. DOMAIN h.orders \subseteq Nat BY DEF HostInv, Host
  <1>2. found = {i} BY DEF HostInv
  <1>3. (CHOOSE k \in found : \A j \in found : j <= k) = i BY <1>1, <1>2, SMT
  <1> QED BY <1>2, <1>3 DEF IndexOf

LEMMA IndexRange ==
    ASSUME NEW h, HostInv(h), NEW t, IndexOf(h, t) # 0
    PROVE  /\ IndexOf(h, t) \in DOMAIN h.orders
           /\ h.orders[IndexOf(h, t)].token = t
PROOF
  <1>1. PICK i \in DOMAIN h.orders : h.orders[i].token = t BY DEF IndexOf
  <1> QED BY <1>1, IndexFound

LEMMA IndexMissing ==
    ASSUME NEW h, HostInv(h), NEW t, IndexOf(h, t) = 0
    PROVE  \A i \in DOMAIN h.orders : h.orders[i].token # t
PROOF
  <1>1. 0 \notin DOMAIN h.orders BY SMT DEF HostInv, Host
  <1> QED BY <1>1, IndexFound

-----------------------------------------------------------------------------
(* The two things an operation does to the records: change one, add one.     *)

Changes(h, g, i, o) ==
    /\ i \in DOMAIN h.orders /\ o \in Order /\ o.token = h.orders[i].token
    /\ g \in Host /\ g.tokens = h.tokens
    /\ g.orders = [h.orders EXCEPT ![i] = o]

Adds(h, g, o) ==
    /\ o \in Order /\ o.token \notin h.tokens
    /\ g \in Host /\ g.tokens = h.tokens \cup {o.token}
    /\ g.orders = Append(h.orders, o)

\* The client learns of an order what its record now says.
Learns(o, book, done, b, d) ==
    /\ b = [book EXCEPT ![o.token] = SharesOpen(o)]
    /\ d = [done EXCEPT ![o.token] = o.executed]

\* The EXCEPT by which the operations change a record, taken apart.
LEMMA ChangedHost ==
    ASSUME NEW h \in Host, NEW i \in DOMAIN h.orders, NEW o \in Order,
           o.token = h.orders[i].token,
           NEW g, g = [h EXCEPT !.orders[i] = o]
    PROVE  Changes(h, g, i, o)
PROOF
  <1>1. /\ g.tokens = h.tokens /\ g.references = h.references
        /\ g.orders = [h.orders EXCEPT ![i] = o]
    BY DEF Host
  <1>2. [h.orders EXCEPT ![i] = o] \in Seq(Order) BY DEF Host
  <1>3. g = [tokens |-> h.tokens, orders |-> [h.orders EXCEPT ![i] = o],
             references |-> h.references]
    BY DEF Host
  <1>4. h.tokens \in SUBSET Tokens /\ h.references \in Nat BY DEF Host
  <1> HIDE DEF Order
  <1> QED BY <1>1, <1>2, <1>3, <1>4 DEF Host, Changes

\* Likewise the one by which a new record is added under its token.
LEMMA EnteredHost ==
    ASSUME NEW h \in Host, NEW t \in Tokens, t \notin h.tokens,
           NEW o \in Order, o.token = t,
           NEW g, g = [Consume(h, t) EXCEPT !.orders = Append(@, o), !.references = @ + 1]
    PROVE  Adds(h, g, o)
PROOF
  <1> DEFINE c == Consume(h, t)
             x == Append(h.orders, o)
  <1>1. /\ c \in Host /\ c.tokens = h.tokens \cup {t} /\ c.orders = h.orders
        /\ c.references = h.references
    BY DEF Host, Consume
  <1>2. x \in Seq(Order) /\ h.references + 1 \in Nat BY DEF Host
  <1>3. g = [c EXCEPT !.orders = x, !.references = h.references + 1] BY <1>1
  <1> HIDE DEF c, x
  <1>4. g.orders = x /\ g.tokens = c.tokens BY <1>1, <1>3 DEF Host
  <1>5. g \in Host BY <1>1, <1>2, <1>3 DEF Host
  <1> QED BY <1>1, <1>4, <1>5 DEF Adds, x

LEMMA RecordChanged ==
    ASSUME NEW h, HostInv(h), NEW g, NEW i, NEW o, Changes(h, g, i, o),
           NEW book, NEW done, ClientInv(h, book, done),
           NEW b, NEW d, Learns(o, book, done, b, d)
    PROVE  /\ HostInv(g) /\ ClientInv(g, b, d)
           /\ SoundInv(h) /\ Sound(o) => SoundInv(g)
PROOF
  <1> USE DEF Changes, Learns
  <1>2. DOMAIN g.orders = DOMAIN h.orders OBVIOUS
  <1>3. \A k \in DOMAIN h.orders : g.orders[k] = IF k = i THEN o ELSE h.orders[k]
    OBVIOUS
  <1>4. HostInv(g)
    <2>1. \A k \in DOMAIN g.orders : g.orders[k].token = h.orders[k].token
      BY <1>2, <1>3
    <2> QED BY <1>2, <2>1 DEF HostInv
  <1>5. ClientInv(g, b, d)
    <2>1. o.token \in Tokens /\ SharesOpen(o) \in Nat /\ o.executed \in Nat
      BY OpenIsNat DEF Order
    <2>2. b \in [Tokens -> Nat] /\ d \in [Tokens -> Nat] BY <2>1 DEF ClientInv
    <2>3. ASSUME NEW k \in DOMAIN g.orders
          PROVE  /\ b[g.orders[k].token] = SharesOpen(g.orders[k])
                 /\ d[g.orders[k].token] = g.orders[k].executed
      <3>1. CASE k = i BY <3>1, <1>3, <1>2, <2>1 DEF ClientInv
      <3>2. CASE k # i
        <4>1. g.orders[k].token # o.token /\ g.orders[k] = h.orders[k]
          BY <3>2, <1>2, <1>3 DEF HostInv
        <4> QED BY <4>1, <1>2 DEF ClientInv, HostInv, Host
      <3> QED BY <3>1, <3>2
    <2>4. ASSUME NEW t \in Tokens, \A k \in DOMAIN g.orders : g.orders[k].token # t
          PROVE  b[t] = 0 /\ d[t] = 0
      <3>1. t # o.token BY <2>4, <1>2, <1>3
      <3>2. \A k \in DOMAIN h.orders : h.orders[k].token # t
        BY <2>4, <1>2, <1>3
      <3> QED BY <3>1, <3>2 DEF ClientInv
    <2> QED BY <2>2, <2>3, <2>4 DEF ClientInv
  <1>6. SoundInv(h) /\ Sound(o) => SoundInv(g) BY <1>2, <1>3 DEF SoundInv
  <1> QED BY <1>4, <1>5, <1>6

LEMMA RecordAdded ==
    ASSUME NEW h, HostInv(h), NEW g, NEW o, Adds(h, g, o),
           NEW book, NEW done, ClientInv(h, book, done),
           NEW b, NEW d, Learns(o, book, done, b, d)
    PROVE  /\ HostInv(g) /\ ClientInv(g, b, d)
           /\ SoundInv(h) /\ Sound(o) => SoundInv(g)
PROOF
  <1> USE DEF Adds, Learns
  <1> DEFINE n == Len(h.orders)
  <1>1. h.orders \in Seq(Order) /\ n \in Nat /\ DOMAIN h.orders = 1 .. n
    BY DEF HostInv, Host
  <1>2. /\ DOMAIN g.orders = 1 .. n + 1
        /\ g.orders[n + 1] = o
        /\ \A k \in 1 .. n : g.orders[k] = h.orders[k]
    BY <1>1
  <1>3. \A k \in 1 .. n + 1 : k = n + 1 \/ k \in 1 .. n BY <1>1, SMT
  <1>4. n + 1 \in 1 .. n + 1 /\ \A k \in 1 .. n : k \in 1 .. n + 1 BY <1>1, SMT
  <1> HIDE DEF n
  <1>5. \A k \in 1 .. n : h.orders[k].token # o.token BY <1>1 DEF HostInv
  <1>6. HostInv(g)
    <2>1. \A k \in DOMAIN g.orders : g.orders[k].token \in g.tokens
      BY <1>1, <1>2, <1>3 DEF HostInv
    <2>2. ASSUME NEW k \in DOMAIN g.orders, NEW j \in DOMAIN g.orders,
                 g.orders[k].token = g.orders[j].token
          PROVE  k = j
      <3>1. CASE k \in 1 .. n /\ j \in 1 .. n
        BY <3>1, <2>2, <1>1, <1>2 DEF HostInv
      <3> QED BY <3>1, <2>2, <1>2, <1>3, <1>5
    <2> QED BY <2>1, <2>2 DEF HostInv
  <1>7. ClientInv(g, b, d)
    <2>1. o.token \in Tokens /\ SharesOpen(o) \in Nat /\ o.executed \in Nat
      BY OpenIsNat DEF Order
    <2>2. b \in [Tokens -> Nat] /\ d \in [Tokens -> Nat] BY <2>1 DEF ClientInv
    <2>3. ASSUME NEW k \in DOMAIN g.orders
          PROVE  /\ b[g.orders[k].token] = SharesOpen(g.orders[k])
                 /\ d[g.orders[k].token] = g.orders[k].executed
      <3>1. CASE k = n + 1 BY <3>1, <1>2, <2>1 DEF ClientInv
      <3>2. CASE k \in 1 .. n
        <4>1. g.orders[k].token # o.token /\ g.orders[k] = h.orders[k]
          BY <3>2, <1>2, <1>5
        <4> QED BY <3>2, <4>1, <1>1 DEF ClientInv
      <3> QED BY <3>1, <3>2, <1>2, <1>3
    <2>4. ASSUME NEW t \in Tokens, \A k \in DOMAIN g.orders : g.orders[k].token # t
          PROVE  b[t] = 0 /\ d[t] = 0
      <3>1. t # o.token BY <2>4, <1>2, <1>4
      <3>2. \A k \in DOMAIN h.orders : h.orders[k].token # t
        BY <2>4, <1>1, <1>2, <1>4
      <3> QED BY <3>1, <3>2 DEF ClientInv
    <2> QED BY <2>2, <2>3, <2>4 DEF ClientInv
  <1>8. SoundInv(h) /\ Sound(o) => SoundInv(g) BY <1>1, <1>2, <1>3 DEF SoundInv
  <1> QED BY <1>6, <1>7, <1>8

\* Spending a token leaves the records alone.
LEMMA TokenSpent ==
    ASSUME NEW h, HostInv(h), NEW t \in Tokens,
           NEW book, NEW done, ClientInv(h, book, done),
           NEW g, g = Consume(h, t)
    PROVE  /\ HostInv(g) /\ ClientInv(g, book, done)
           /\ SoundInv(h) => SoundInv(g)
           /\ g.orders = h.orders /\ g.tokens = h.tokens \cup {t}
PROOF
  <1>1. /\ g \in Host /\ g.orders = h.orders /\ g.tokens = h.tokens \cup {t}
    BY DEF Consume, HostInv, Host
  <1>2. HostInv(g) BY <1>1 DEF HostInv
  <1>3. ClientInv(g, book, done) BY <1>1 DEF ClientInv
  <1>4. SoundInv(h) => SoundInv(g) BY <1>1 DEF SoundInv
  <1> QED BY <1>1, <1>2, <1>3, <1>4

Counts(t, count, c) == c = [count EXCEPT ![t] = @ + 1]

\* The first answer to a token is its only one: the token is spent with it.
LEMMA AnswerGiven ==
    ASSUME NEW h, NEW g, NEW count, AnswerInv(h, count),
           NEW t \in Tokens, t \notin h.tokens, g.tokens = h.tokens \cup {t},
           NEW c, Counts(t, count, c)
    PROVE  AnswerInv(g, c)
PROOF
  <1> USE DEF Counts
  <1>1. count[t] = 0 BY SMT DEF AnswerInv
  <1>2. c \in [Tokens -> Nat] BY SMT DEF AnswerInv
  <1> QED BY <1>1, <1>2, SMT DEF AnswerInv

LEMMA AnswersKept ==
    ASSUME NEW h, NEW g, NEW count, AnswerInv(h, count), h.tokens \subseteq g.tokens
    PROVE  AnswerInv(g, count)
PROOF BY DEF AnswerInv

\* A token that was never spent has no record, no shares and no trades.
LEMMA Fresh ==
    ASSUME NEW h, HostInv(h), NEW book, NEW done, ClientInv(h, book, done),
           NEW t \in Tokens, t \notin h.tokens
    PROVE  book[t] = 0 /\ done[t] = 0
PROOF BY DEF HostInv, ClientInv

-----------------------------------------------------------------------------
(* What the client makes of an operation that says nothing, or one thing.    *)

LEMMA Quiet ==
    ASSUME NEW h, NEW what, Sequenced(Outcome(h, <<>>, what))
    PROVE  host' = h /\ ledger' = ledger /\ traded' = traded /\ answers' = answers
PROOF BY DEF Sequenced, Outcome, ClientReads

LEMMA Said ==
    ASSUME NEW h, NEW m, NEW what, Sequenced(Outcome(h, <<m>>, what))
    PROVE  /\ host' = h /\ ledger' = Posted(ledger, m)
           /\ traded' = Told(traded, m) /\ answers' = Answered(answers, m)
PROOF
  <1>1. <<m>> # <<>> /\ <<m>>[1] = m OBVIOUS
  <1> QED BY <1>1 DEF Sequenced, Outcome, ClientReads

\* Nothing but the tokens changed.
LEMMA NothingSaid ==
    ASSUME SessionInv, NEW what, Sequenced(Outcome(host, <<>>, what))
    PROVE  SessionInv'
PROOF BY Quiet DEF SessionInv

\* reject(), of a token that is not spent.
LEMMA RejectKeeps ==
    ASSUME SessionInv, NEW t \in Tokens, t \notin host.tokens,
           Sequenced(Rejected(host, t))
    PROVE  SessionInv'
PROOF
  <1>1. CASE Full(host) BY <1>1, NothingSaid DEF Rejected
  <1>2. CASE ~Full(host)
    <2> DEFINE m == [type |-> "rejected", token |-> t]
    <2>1. Sequenced(Outcome(Consume(host, t), <<m>>, "rejected"))
      BY <1>2 DEF Rejected
    <2>2. host' = Consume(host, t) /\ ledger' = Posted(ledger, m)
          /\ traded' = Told(traded, m) /\ answers' = Answered(answers, m)
      BY <2>1, Said
    <2>3. /\ ledger' = ledger /\ traded' = traded
          /\ answers' = [answers EXCEPT ![t] = @ + 1]
      BY <2>2 DEF Posted, Told, Answered
    <2>4. /\ HostInv(host') /\ ClientInv(host', ledger', traded')
          /\ SoundInv(host) => SoundInv(host')
          /\ host'.tokens = host.tokens \cup {t}
      BY <2>2, <2>3, TokenSpent DEF SessionInv
    <2>5. AnswerInv(host', answers') BY <2>3, <2>4, AnswerGiven DEF SessionInv, Counts
    <2> QED BY <2>4, <2>5 DEF SessionInv
  <1> QED BY <1>1, <1>2

\* A message about a record that changed: canceled, modified or executed.
LEMMA ChangeKeeps ==
    ASSUME SessionInv, NEW i, NEW o, Changes(host, host', i, o),
           ~Adverse => Sound(o),
           Learns(o, ledger, traded, ledger', traded'), answers' = answers
    PROVE  SessionInv'
PROOF
  <1>1. /\ HostInv(host') /\ ClientInv(host', ledger', traded')
        /\ SoundInv(host) /\ Sound(o) => SoundInv(host')
    BY RecordChanged DEF SessionInv
  <1>2. host'.tokens = host.tokens BY DEF Changes
  <1>3. AnswerInv(host', answers') BY <1>2, AnswersKept DEF SessionInv
  <1> QED BY <1>1, <1>3 DEF SessionInv

-----------------------------------------------------------------------------
(* Each request keeps the invariant.                                         *)

LEMMA EnterKeeps ==
    ASSUME SessionInv, NEW r \in Enters, Sequenced(Enter(host, r))
    PROVE  SessionInv'
PROOF
  <1>0. /\ r.token \in Tokens /\ r.shares \in Nat /\ r.ioc \in BOOLEAN
        /\ r.cross \in BOOLEAN /\ r.side \in Sides
    BY SessionAssumption, SMT DEF Enters, Sides
  <1>1. CASE r.token \in host.tokens BY <1>1, NothingSaid DEF Enter, Ignored
  <1>2. CASE /\ r.token \notin host.tokens
             /\ ~IsValidShareCount(r.shares) \/ Len(host.orders) >= MaxLiveOrders
    BY <1>0, <1>2, RejectKeeps DEF Enter
  <1>3. CASE /\ r.token \notin host.tokens /\ Full(host)
             /\ ~(~IsValidShareCount(r.shares) \/ Len(host.orders) >= MaxLiveOrders)
    BY <1>3, NothingSaid DEF Enter
  <1>4. CASE /\ r.token \notin host.tokens /\ ~Full(host)
             /\ ~(~IsValidShareCount(r.shares) \/ Len(host.orders) >= MaxLiveOrders)
    <2> DEFINE o == NewOrder(host, r)
               g == [Consume(host, r.token) EXCEPT !.orders = Append(@, o),
                                                   !.references = @ + 1]
               m == [type |-> "accepted", token |-> r.token, shares |-> r.shares,
                     live |-> ~r.ioc]
    <2>1. Sequenced(Outcome(g, <<m>>, "accepted")) BY <1>4 DEF Enter
    <2>2. /\ host' = g /\ ledger' = Posted(ledger, m)
          /\ traded' = Told(traded, m) /\ answers' = Answered(answers, m)
      BY <2>1, Said
    <2>3. HostInv(host) /\ ClientInv(host, ledger, traded) BY DEF SessionInv
    <2>4. host.references \in Nat /\ host.orders \in Seq(Order)
          /\ host.tokens \subseteq Tokens
      BY <2>3 DEF HostInv, Host
    <2>5. /\ o \in Order /\ o.token = r.token /\ o.executed = 0
          /\ SharesOpen(o) = IF ~r.ioc THEN r.shares ELSE 0
          /\ Sound(o)
      <3>1. r.shares > 0 BY <1>4 DEF IsValidShareCount
      <3>2. o.canceled = IF r.ioc THEN r.shares ELSE 0 BY DEF NewOrder
      <3>3. o \in Order BY <1>0, <2>4 DEF NewOrder, Order
      <3>4. /\ o.token = r.token /\ o.executed = 0 /\ o.liable = r.shares
            /\ o.live = ~r.ioc
        BY DEF NewOrder
      <3> HIDE DEF o
      <3>5. CASE r.ioc
        <4>1. /\ SharesOpen(o) = 0 /\ o.executed + o.canceled = o.liable
              /\ o.liable \in Nat
          BY <1>0, <3>2, <3>4, <3>5, SMT DEF SharesOpen
        <4>2. ~o.live BY <3>4, <3>5
        <4>3. /\ o.executed + o.canceled <= o.liable
              /\ ~(o.executed + o.canceled < o.liable)
          BY <4>1, SMT
        <4> QED BY <3>3, <3>4, <3>5, <4>1, <4>2, <4>3 DEF Sound
      <3>6. CASE ~r.ioc
        <4>1. /\ SharesOpen(o) = r.shares /\ o.executed + o.canceled < o.liable
              /\ o.executed + o.canceled <= o.liable
          BY <1>0, <3>1, <3>2, <3>4, <3>6, SMT DEF SharesOpen
        <4>2. o.live BY <3>4, <3>6
        <4> QED BY <3>3, <3>4, <3>6, <4>1, <4>2 DEF Sound
      <3> QED BY <3>5, <3>6
    <2>6. Adds(host, g, o)
      BY <1>0, <1>4, <2>3, <2>5, EnteredHost DEF HostInv
    <2>7. /\ ledger' = [ledger EXCEPT ![o.token] = SharesOpen(o)]
          /\ Counts(r.token, answers, answers')
      BY <2>2, <2>5 DEF Posted, Answered, Counts
    <2>8. Learns(o, ledger, traded, ledger', traded')
      <3>1. traded' = traded BY <2>2 DEF Told
      <3>2. traded[r.token] = 0 /\ traded \in [Tokens -> Nat]
        BY <1>0, <1>4, <2>3, Fresh, SMTT(20) DEF ClientInv
      <3>3. traded' = [traded EXCEPT ![o.token] = o.executed] BY <3>1, <3>2, <2>5
      <3> QED BY <3>3, <2>7 DEF Learns
    <2> HIDE DEF o, g, m
    <2>9. /\ HostInv(host') /\ ClientInv(host', ledger', traded')
          /\ SoundInv(host) => SoundInv(host')
      BY <2>2, <2>3, <2>5, <2>6, <2>8, RecordAdded
    <2>10. AnswerInv(host', answers')
      <3>1. host'.tokens = host.tokens \cup {r.token} BY <2>2, <2>5, <2>6 DEF Adds
      <3> QED BY <1>0, <1>4, <2>7, <3>1, AnswerGiven DEF SessionInv
    <2> QED BY <2>9, <2>10 DEF SessionInv
  <1> QED BY <1>1, <1>2, <1>3, <1>4

\* The record of a live token, with the bounds its fields have.
LEMMA LiveRecord ==
    ASSUME SessionInv, NEW t, IsLive(host, t), NEW i, i = IndexOf(host, t),
           NEW o, o = host.orders[i]
    PROVE  /\ i \in DOMAIN host.orders /\ i # 0 /\ host \in Host
           /\ o \in Order /\ o.token = t /\ o.live /\ t \in host.tokens
           /\ ledger[t] = SharesOpen(o) /\ traded[t] = o.executed
           /\ o.liable \in Nat /\ o.executed \in Nat /\ o.canceled \in Nat
           /\ ~Adverse => Sound(o)
PROOF
  <1>1. HostInv(host) BY DEF SessionInv
  <1>2. i \in DOMAIN host.orders /\ i # 0 /\ o.token = t /\ o.live
    BY <1>1, IndexRange DEF IsLive
  <1>3. host \in Host /\ o \in Order /\ t \in host.tokens BY <1>1, <1>2 DEF HostInv, Host
  <1>4. ledger[t] = SharesOpen(o) /\ traded[t] = o.executed
    BY <1>2 DEF SessionInv, ClientInv
  <1>5. ~Adverse => Sound(o) BY <1>2 DEF SessionInv, SoundInv
  <1>6. o.liable \in Nat /\ o.executed \in Nat /\ o.canceled \in Nat
    BY <1>3 DEF Order
  <1> QED BY <1>2, <1>3, <1>4, <1>5, <1>6

\* Canceling some of the open shares, or all of them.
LEMMA ReducedRecord ==
    ASSUME NEW o \in Order, NEW removed \in Nat, NEW l, l = Reduce(o, removed)
    PROVE  /\ l \in Order /\ l.token = o.token /\ l.executed = o.executed
           /\ SharesOpen(l) = IF SharesOpen(o) > removed
                              THEN SharesOpen(o) - removed ELSE 0
           /\ o.executed + o.canceled + removed <= o.liable => Sound(l)
PROOF
  <1>1. o.liable \in Nat /\ o.executed \in Nat /\ o.canceled \in Nat BY DEF Order
  <1> DEFINE less == [o EXCEPT !.canceled = @ + removed]
  <1>2. /\ less \in Order /\ less.token = o.token /\ less.executed = o.executed
        /\ less.liable = o.liable /\ less.canceled = o.canceled + removed
    BY <1>1 DEF Order
  <1>3. l = [less EXCEPT !.live = SharesOpen(less) > 0] BY DEF Reduce
  <1> HIDE DEF less
  <1>4. (SharesOpen(less) > 0) \in BOOLEAN OBVIOUS
  <1>5. /\ l \in Order /\ l.token = less.token /\ l.executed = less.executed
        /\ l.liable = less.liable /\ l.canceled = less.canceled
        /\ l.live = (SharesOpen(less) > 0)
    BY <1>2, <1>3, <1>4 DEF Order
  <1>6. SharesOpen(l) = SharesOpen(less) BY <1>5 DEF SharesOpen
  <1>7. SharesOpen(less) = IF SharesOpen(o) > removed THEN SharesOpen(o) - removed ELSE 0
    BY <1>1, <1>2, SMT DEF SharesOpen
  <1>8. ASSUME o.executed + o.canceled + removed <= o.liable PROVE Sound(l)
    <2>1. l.executed + l.canceled <= l.liable BY <1>1, <1>2, <1>5, <1>8, SMT
    <2>2. SharesOpen(less) > 0 <=> l.executed + l.canceled < l.liable
      BY <1>1, <1>2, <1>5, SMT DEF SharesOpen
    <2> QED BY <1>5, <2>1, <2>2 DEF Sound
  <1> QED BY <1>2, <1>5, <1>6, <1>7, <1>8

LEMMA CancelKeeps ==
    ASSUME SessionInv, NEW r \in Cancels, Unreduced(r.token), Sequenced(Cancel(host, r))
    PROVE  SessionInv'
PROOF
  <1> DEFINE i == IndexOf(host, r.token)
             o == host.orders[i]
             intended == IF r.shares > o.executed THEN r.shares ELSE o.executed
  <1>1. CASE ~IsLive(host, r.token) BY <1>1, NothingSaid DEF Cancel, Ignored
  <1>2. CASE IsLive(host, r.token) /\ intended >= o.liable
    BY <1>2, NothingSaid DEF Cancel, Ignored
  <1>3. CASE IsLive(host, r.token) /\ ~(intended >= o.liable)
    <2> DEFINE removed == o.liable - intended
               l == Reduce(o, removed)
               g == [host EXCEPT !.orders[i] = l]
               m == CanceledMessage(o.token, removed)
    <2>1. Sequenced(Outcome(g, <<m>>, "canceled")) BY <1>3 DEF Cancel
    <2>2. /\ host' = g /\ ledger' = Posted(ledger, m)
          /\ traded' = Told(traded, m) /\ answers' = Answered(answers, m)
      BY <2>1, Said
    <2>3. /\ i \in DOMAIN host.orders /\ i # 0 /\ host \in Host
          /\ o \in Order /\ o.token = r.token
          /\ ledger[r.token] = SharesOpen(o) /\ traded[r.token] = o.executed
          /\ o.liable \in Nat /\ o.executed \in Nat /\ o.canceled \in Nat
      BY <1>3, LiveRecord
    <2>4. r.token \in Tokens /\ r.shares \in Nat BY SessionAssumption, SMT DEF Cancels
    <2>5. removed \in Nat /\ o.executed + removed <= o.liable
      BY <1>3, <2>3, <2>4, SMT
    <2>6. ~Adverse => o.canceled = 0 BY <2>3 DEF Unreduced
    <2> HIDE DEF i, o, intended, removed
    <2>7. /\ l \in Order /\ l.token = o.token /\ l.executed = o.executed
          /\ SharesOpen(l) = IF SharesOpen(o) > removed
                             THEN SharesOpen(o) - removed ELSE 0
          /\ o.executed + o.canceled + removed <= o.liable => Sound(l)
      BY <2>3, <2>5, ReducedRecord
    <2>8. ~Adverse => Sound(l) BY <2>3, <2>5, <2>6, <2>7, SMT
    <2> HIDE DEF l
    <2>9. Changes(host, host', i, l) BY <2>2, <2>3, <2>7, ChangedHost DEF o
    <2>10. ledger \in [Tokens -> Nat] /\ traded \in [Tokens -> Nat]
      BY DEF SessionInv, ClientInv
    <2>11. Learns(l, ledger, traded, ledger', traded') /\ answers' = answers
      <3>1. ledger' = [ledger EXCEPT ![r.token] =
                            IF @ > removed THEN @ - removed ELSE 0]
        BY <2>2, <2>3 DEF Posted, CanceledMessage
      <3>2. ledger' = [ledger EXCEPT ![l.token] = SharesOpen(l)]
        BY <3>1, <2>3, <2>7
      <3>3. traded' = traded /\ answers' = answers
        BY <2>2 DEF Told, Answered, CanceledMessage
      <3>4. traded' = [traded EXCEPT ![l.token] = l.executed]
        BY <3>3, <2>3, <2>7, <2>10
      <3> QED BY <3>2, <3>3, <3>4 DEF Learns
    <2> QED BY <2>8, <2>9, <2>11, ChangeKeeps
  <1> QED BY <1>1, <1>2, <1>3

LEMMA ModifyKeeps ==
    ASSUME SessionInv, NEW r \in Modifies, Unreduced(r.token),
           LeavesOpen(r.token, r.shares), Sequenced(Modify(host, r))
    PROVE  SessionInv'
PROOF
  <1> DEFINE i == IndexOf(host, r.token)
             o == host.orders[i]
             refused == \/ ~IsLive(host, r.token)
                        \/ ~IsPermittedModifyTransition(o.side, r.side)
                        \/ r.shares < o.executed
  <1>1. CASE refused BY <1>1, NothingSaid DEF Modify, Ignored
  <1>2. CASE ~refused
    <2> DEFINE new == [o EXCEPT !.side = r.side, !.liable = r.shares]
               g == [host EXCEPT !.orders[i] = new]
               m == [type |-> "modified", token |-> r.token, shares |-> SharesOpen(new)]
    <2>1. Sequenced(Outcome(g, <<m>>, "modified")) BY <1>2 DEF Modify
    <2>2. /\ host' = g /\ ledger' = Posted(ledger, m)
          /\ traded' = Told(traded, m) /\ answers' = Answered(answers, m)
      BY <2>1, Said
    <2>3. /\ i \in DOMAIN host.orders /\ i # 0 /\ host \in Host
          /\ o \in Order /\ o.token = r.token /\ o.live
          /\ ledger[r.token] = SharesOpen(o) /\ traded[r.token] = o.executed
          /\ o.liable \in Nat /\ o.executed \in Nat /\ o.canceled \in Nat
      BY <1>2, LiveRecord
    <2>4. r.token \in Tokens /\ r.shares \in Nat /\ r.side \in Sides
      BY SessionAssumption, SMT DEF Modifies, Sides
    <2>5. o.executed <= r.shares BY <1>2, <2>3, <2>4, SMT
    <2>6. ~Adverse => o.canceled = 0 /\ r.shares # o.executed
      BY <2>3 DEF Unreduced, LeavesOpen
    <2> HIDE DEF i, o
    <2>7. /\ new \in Order /\ new.token = o.token /\ new.executed = o.executed
          /\ new.liable = r.shares /\ new.canceled = o.canceled /\ new.live = o.live
      BY <2>3, <2>4 DEF Order
    <2> HIDE DEF new
    <2>8. ~Adverse => Sound(new)
      <3>1. ASSUME ~Adverse
            PROVE  /\ new.executed + new.canceled <= new.liable
                   /\ new.executed + new.canceled < new.liable
        BY <3>1, <2>3, <2>4, <2>5, <2>6, <2>7, SMT
      <3> QED BY <3>1, <2>3, <2>7 DEF Sound
    <2>9. Changes(host, host', i, new) BY <2>2, <2>3, <2>7, ChangedHost DEF o
    <2>10. ledger \in [Tokens -> Nat] /\ traded \in [Tokens -> Nat]
      BY DEF SessionInv, ClientInv
    <2>11. Learns(new, ledger, traded, ledger', traded') /\ answers' = answers
      <3>1. ledger' = [ledger EXCEPT ![new.token] = SharesOpen(new)]
        BY <2>2, <2>3, <2>7 DEF Posted
      <3>2. traded' = traded /\ answers' = answers BY <2>2 DEF Told, Answered
      <3>3. traded' = [traded EXCEPT ![new.token] = new.executed]
        BY <3>2, <2>3, <2>7, <2>10
      <3> QED BY <3>1, <3>2, <3>3 DEF Learns
    <2> QED BY <2>8, <2>9, <2>11, ChangeKeeps
  <1> QED BY <1>1, <1>2

LEMMA ExecuteKeeps ==
    ASSUME SessionInv, NEW t \in Tokens, NEW n \in 0 .. MaxShares,
           Sequenced(Execute(host, t, n))
    PROVE  SessionInv'
PROOF
  <1> DEFINE i == IndexOf(host, t)
             o == host.orders[i]
  <1>0. n \in Nat BY SessionAssumption, SMT
  <1>1. CASE ~IsLive(host, t) \/ n = 0 BY <1>1, NothingSaid DEF Execute, Ignored
  <1>2. CASE ~(~IsLive(host, t) \/ n = 0) /\ n > SharesOpen(o)
    BY <1>2, NothingSaid DEF Execute
  <1>3. CASE ~(~IsLive(host, t) \/ n = 0) /\ ~(n > SharesOpen(o))
    <2> DEFINE filled == [o EXCEPT !.executed = @ + n]
               new == [filled EXCEPT !.live = SharesOpen(filled) > 0]
               g == [host EXCEPT !.orders[i] = new]
               m == [type |-> "executed", token |-> t, shares |-> n]
    <2>1. Sequenced(Outcome(g, <<m>>, "executed")) BY <1>3 DEF Execute
    <2>2. /\ host' = g /\ ledger' = Posted(ledger, m)
          /\ traded' = Told(traded, m) /\ answers' = Answered(answers, m)
      BY <2>1, Said
    <2>3. /\ i \in DOMAIN host.orders /\ i # 0 /\ host \in Host
          /\ o \in Order /\ o.token = t /\ o.live
          /\ ledger[t] = SharesOpen(o) /\ traded[t] = o.executed
          /\ o.liable \in Nat /\ o.executed \in Nat /\ o.canceled \in Nat
      BY <1>3, LiveRecord
    <2>4. n <= SharesOpen(o) /\ n > 0 /\ SharesOpen(o) \in Nat
      BY <1>0, <1>3, <2>3, OpenIsNat, SMT
    <2> HIDE DEF i, o
    <2>5. /\ filled \in Order /\ filled.token = o.token
          /\ filled.executed = o.executed + n
          /\ filled.liable = o.liable /\ filled.canceled = o.canceled
      BY <1>0, <2>3 DEF Order
    <2> HIDE DEF filled
    <2>6. (SharesOpen(filled) > 0) \in BOOLEAN OBVIOUS
    <2>7. /\ new \in Order /\ new.token = o.token /\ new.executed = o.executed + n
          /\ new.liable = o.liable /\ new.canceled = o.canceled
          /\ new.live = (SharesOpen(filled) > 0)
      BY <2>5, <2>6 DEF Order
    <2> HIDE DEF new
    <2>8. SharesOpen(new) = SharesOpen(o) - n /\ SharesOpen(filled) = SharesOpen(new)
      BY <1>0, <2>3, <2>4, <2>5, <2>7, SMT DEF SharesOpen
    <2>9. Sound(new)
      <3>1. new.executed + new.canceled <= new.liable
        BY <1>0, <2>3, <2>4, <2>7, SMT DEF SharesOpen
      <3>2. SharesOpen(filled) > 0 <=> new.executed + new.canceled < new.liable
        BY <1>0, <2>3, <2>5, <2>7, SMT DEF SharesOpen
      <3> QED BY <2>7, <3>1, <3>2 DEF Sound
    <2>10. Changes(host, host', i, new) BY <2>2, <2>3, <2>7, ChangedHost DEF o
    <2>11. ledger \in [Tokens -> Nat] /\ traded \in [Tokens -> Nat]
      BY DEF SessionInv, ClientInv
    <2>12. Learns(new, ledger, traded, ledger', traded') /\ answers' = answers
      <3>1. ledger' = [ledger EXCEPT ![t] = IF @ > n THEN @ - n ELSE 0]
        BY <2>2 DEF Posted
      <3>2. (IF ledger[t] > n THEN ledger[t] - n ELSE 0) = SharesOpen(new)
        BY <1>0, <2>3, <2>4, <2>8, SMT
      <3>3. ledger' = [ledger EXCEPT ![new.token] = SharesOpen(new)]
        BY <3>1, <3>2, <2>3, <2>7
      <3>4. traded' = [traded EXCEPT ![t] = @ + n] /\ answers' = answers
        BY <2>2 DEF Told, Answered
      <3>5. traded' = [traded EXCEPT ![new.token] = new.executed]
        BY <3>4, <2>3, <2>7
      <3> QED BY <3>3, <3>4, <3>5 DEF Learns
    <2> QED BY <2>9, <2>10, <2>12, ChangeKeeps
  <1> QED BY <1>1, <1>2, <1>3

\* The second and third outcome of a replace: the order is canceled instead.
LEMMA ReplaceCancelsKeeps ==
    ASSUME SessionInv, NEW t \in Tokens, IsLive(host, t),
           Sequenced(ReplaceCancelsExisting(host, IndexOf(host, t)))
    PROVE  SessionInv'
PROOF
  <1> DEFINE i == IndexOf(host, t)
             o == host.orders[i]
             removed == SharesOpen(o)
             n == o.canceled + removed
             new == [o EXCEPT !.canceled = n, !.live = FALSE]
             g == [host EXCEPT !.orders[i].canceled = @ + removed,
                               !.orders[i].live = FALSE]
             m == CanceledMessage(o.token, removed)
  <1>1. Sequenced(Outcome(g, <<m>>, "replace_canceled_existing"))
    BY DEF ReplaceCancelsExisting
  <1>2. /\ host' = g /\ ledger' = Posted(ledger, m)
        /\ traded' = Told(traded, m) /\ answers' = Answered(answers, m)
    BY <1>1, Said
  <1>3. /\ i \in DOMAIN host.orders /\ host \in Host
        /\ o \in Order /\ o.token = t
        /\ ledger[t] = removed /\ traded[t] = o.executed /\ removed \in Nat
        /\ o.liable \in Nat /\ o.executed \in Nat /\ o.canceled \in Nat
        /\ ~Adverse => Sound(o)
    BY LiveRecord, OpenIsNat
  <1>4. g = [host EXCEPT !.orders[i] = new] BY <1>3 DEF Host
  <1> HIDE DEF i, o, removed
  <1>5. /\ new \in Order /\ new.token = t /\ new.executed = o.executed
        /\ new.liable = o.liable /\ new.canceled = o.canceled + removed
        /\ new.live = FALSE
    <2>1. n \in Nat BY <1>3, SMT
    <2>2. o \in Order /\ o.token = t BY <1>3
    <2> HIDE DEF n
    <2>3. /\ new.token = o.token /\ new.executed = o.executed
          /\ new.liable = o.liable /\ new.canceled = n /\ new.live = FALSE
      BY <2>2 DEF Order
    <2>4. new \in Order BY <2>1, <2>2 DEF Order
    <2> QED BY <2>2, <2>3, <2>4 DEF n
  <1> HIDE DEF new, g
  <1>6. SharesOpen(new) = 0 BY <1>3, <1>5, SMT DEF SharesOpen, removed
  <1>7. ~Adverse => Sound(new)
    <2>1. ASSUME Sound(o)
          PROVE  /\ new.executed + new.canceled <= new.liable
                 /\ ~(new.executed + new.canceled < new.liable)
      <3>1. o.executed + o.canceled <= o.liable BY <2>1 DEF Sound
      <3> QED BY <3>1, <1>3, <1>5, SMT DEF SharesOpen, removed
    <2> QED BY <2>1, <1>3, <1>5 DEF Sound
  <1>8. Changes(host, host', i, new) BY <1>2, <1>3, <1>4, <1>5, ChangedHost DEF o
  <1>9. Learns(new, ledger, traded, ledger', traded') /\ answers' = answers
    <2>1. ledger \in [Tokens -> Nat] /\ traded \in [Tokens -> Nat]
      BY DEF SessionInv, ClientInv
    <2>2. ledger' = [ledger EXCEPT ![t] = IF @ > removed THEN @ - removed ELSE 0]
      BY <1>2, <1>3 DEF Posted, CanceledMessage
    <2>3. ledger' = [ledger EXCEPT ![new.token] = SharesOpen(new)]
      <3>1. (IF ledger[t] > removed THEN ledger[t] - removed ELSE 0) = 0
        BY <1>3, SMT
      <3> QED BY <3>1, <2>2, <1>5, <1>6
    <2>4. traded' = traded /\ answers' = answers
      BY <1>2 DEF Told, Answered, CanceledMessage
    <2>5. traded' = [traded EXCEPT ![new.token] = new.executed]
      BY <2>1, <2>4, <1>3, <1>5
    <2> QED BY <2>3, <2>4, <2>5 DEF Learns
  <1> QED BY <1>7, <1>8, <1>9, ChangeKeeps

\* The fourth: the record is retired with what it executed, and a new one takes
\* the shares over under the new token.
LEMMA ReplaceInBookKeeps ==
    ASSUME SessionInv, NEW r \in Replaces, IsLive(host, r.token),
           r.replacement \notin host.tokens,
           ~DetailsInvalid(host.orders[IndexOf(host, r.token)], r),
           LeavesOpen(r.token, r.shares),
           Sequenced(ReplaceInBook(host, IndexOf(host, r.token), r))
    PROVE  SessionInv'
PROOF
  <1> DEFINE i == IndexOf(host, r.token)
             o == host.orders[i]
             new == Replacement(host, o, r)
             retired == [o EXCEPT !.live = FALSE, !.liable = o.executed, !.canceled = 0]
             mid == [host EXCEPT !.orders[i] = retired]
             book == [ledger EXCEPT ![o.token] = 0]
             g == [Consume(host, r.replacement) EXCEPT
                    !.orders = Append([@ EXCEPT ![i] = retired], new),
                    !.references = @ + 1]
             m == [type |-> "replaced", token |-> new.token, previous |-> o.token,
                   shares |-> SharesOpen(new), live |-> SharesOpen(new) > 0]
  <1>1. Sequenced(Outcome(g, <<m>>, "replaced")) BY DEF ReplaceInBook
  <1>2. /\ host' = g /\ ledger' = Posted(ledger, m)
        /\ traded' = Told(traded, m) /\ answers' = Answered(answers, m)
    BY <1>1, Said
  <1>3. /\ i \in DOMAIN host.orders /\ i # 0 /\ host \in Host
        /\ o \in Order /\ o.token = r.token /\ r.token \in host.tokens
        /\ ledger[r.token] = SharesOpen(o) /\ traded[r.token] = o.executed
        /\ o.liable \in Nat /\ o.executed \in Nat /\ o.canceled \in Nat
    BY LiveRecord
  <1>4. /\ r.token \in Tokens /\ r.replacement \in Tokens /\ r.shares \in Nat
    BY SessionAssumption, SMT DEF Replaces
  <1>5. r.shares >= o.executed /\ r.shares > 0
    BY <1>3, <1>4, SMT DEF DetailsInvalid, IsValidShareCount
  <1>6. ~Adverse => r.shares # o.executed BY <1>3 DEF LeavesOpen
  <1>7. host.references + 1 \in Nat BY <1>3 DEF Host
  <1>8. ledger \in [Tokens -> Nat] /\ traded \in [Tokens -> Nat]
    BY DEF SessionInv, ClientInv
  <1> HIDE DEF i, o
  <1>9. /\ retired \in Order /\ retired.token = o.token
        /\ retired.liable = o.executed /\ retired.executed = o.executed
        /\ retired.canceled = 0 /\ retired.live = FALSE
    BY <1>3 DEF Order
  <1>10. /\ new \in Order /\ new.token = r.replacement /\ new.executed = o.executed
         /\ new.liable = r.shares /\ new.canceled = 0 /\ new.live = TRUE
    BY <1>3, <1>4, <1>7 DEF Order, Replacement
  <1> HIDE DEF retired, new
  <1>11. SharesOpen(retired) = 0 /\ Sound(retired)
    <2>1. /\ SharesOpen(retired) = 0
          /\ retired.executed + retired.canceled <= retired.liable
          /\ ~(retired.executed + retired.canceled < retired.liable)
      BY <1>3, <1>9, SMT DEF SharesOpen
    <2> QED BY <2>1, <1>9 DEF Sound
  <1>12. ~Adverse => Sound(new)
    <2>1. ASSUME ~Adverse
          PROVE  /\ new.executed + new.canceled <= new.liable
                 /\ new.executed + new.canceled < new.liable
      BY <2>1, <1>3, <1>4, <1>5, <1>6, <1>10, SMT
    <2> QED BY <2>1, <1>10 DEF Sound
  <1>13. Changes(host, mid, i, retired) BY <1>3, <1>9, ChangedHost DEF o
  <1>14. Learns(retired, ledger, traded, book, traded)
    BY <1>3, <1>8, <1>9, <1>11 DEF Learns
  <1>15. /\ HostInv(mid) /\ ClientInv(mid, book, traded)
         /\ ~Adverse => SoundInv(mid)
         /\ mid.tokens = host.tokens /\ mid.orders = [host.orders EXCEPT ![i] = retired]
    <2> HIDE DEF mid, book
    <2>1. /\ HostInv(mid) /\ ClientInv(mid, book, traded)
          /\ SoundInv(host) /\ Sound(retired) => SoundInv(mid)
      BY <1>13, <1>14, RecordChanged DEF SessionInv
    <2> QED BY <2>1, <1>11, <1>13 DEF SessionInv, Changes
  <1>16. Adds(mid, g, new) /\ g.tokens = host.tokens \cup {r.replacement}
    <2> DEFINE c == Consume(host, r.replacement)
               x == Append([host.orders EXCEPT ![i] = retired], new)
    <2>1. /\ c \in Host /\ c.tokens = host.tokens \cup {r.replacement}
          /\ c.orders = host.orders /\ c.references = host.references
      BY <1>3, <1>4 DEF Host, Consume
    <2>2. x = Append(mid.orders, new) /\ mid.orders \in Seq(Order)
      BY <1>15 DEF HostInv, Host
    <2>3. x \in Seq(Order) BY <2>2, <1>10
    <2>4. g = [c EXCEPT !.orders = x, !.references = host.references + 1] BY <2>1
    <2> HIDE DEF c, x, g, mid
    <2>5. g.orders = x /\ g.tokens = c.tokens BY <2>1, <2>4 DEF Host
    <2>6. g \in Host BY <2>1, <2>3, <2>4, <1>7 DEF Host
    <2>7. g.tokens = mid.tokens \cup {new.token} BY <2>1, <2>5, <1>10, <1>15
    <2>8. new.token \notin mid.tokens BY <1>10, <1>15
    <2> QED BY <2>1, <2>2, <2>5, <2>6, <2>7, <2>8, <1>10 DEF Adds
  <1>17. Learns(new, book, traded, ledger', traded')
    <2>1. ledger' = [book EXCEPT ![new.token] = SharesOpen(new)]
      BY <1>2 DEF Posted
    <2>2. traded' = [traded EXCEPT ![new.token] = new.executed]
      BY <1>2, <1>3, <1>10 DEF Told
    <2> QED BY <2>1, <2>2 DEF Learns
  <1>18. Counts(r.replacement, answers, answers') BY <1>2, <1>10 DEF Answered, Counts
  <1> HIDE DEF mid, book, g, m
  <1>19. /\ HostInv(host') /\ ClientInv(host', ledger', traded')
         /\ SoundInv(mid) /\ Sound(new) => SoundInv(host')
    BY <1>2, <1>15, <1>16, <1>17, RecordAdded
  <1>20. AnswerInv(host', answers')
    <2>1. host'.tokens = host.tokens \cup {r.replacement} BY <1>2, <1>16
    <2> QED BY <2>1, <1>4, <1>18, AnswerGiven DEF SessionInv
  <1> QED BY <1>12, <1>15, <1>19, <1>20 DEF SessionInv

LEMMA ReplaceKeeps ==
    ASSUME SessionInv, NEW r \in Replaces, LeavesOpen(r.token, r.shares),
           Sequenced(Replace(host, r))
    PROVE  SessionInv'
PROOF
  <1> DEFINE i == IndexOf(host, r.token)
             o == host.orders[i]
             late == o.cross /\ LateCrossPeriod
             possible == IsLive(host, r.token) /\ r.replacement \notin host.tokens
  <1>0. r.token \in Tokens /\ r.replacement \in Tokens BY DEF Replaces
  <1>1. CASE ~possible BY <1>1, NothingSaid DEF Replace, Ignored
  <1>2. CASE possible /\ late BY <1>0, <1>2, RejectKeeps DEF Replace
  <1>3. CASE possible /\ ~late /\ DetailsInvalid(o, r)
    BY <1>0, <1>3, ReplaceCancelsKeeps DEF Replace
  <1>4. CASE possible /\ ~late /\ ~DetailsInvalid(o, r) /\ Full(host)
    BY <1>4, NothingSaid DEF Replace
  <1>5. CASE /\ possible /\ ~late /\ ~DetailsInvalid(o, r) /\ ~Full(host)
             /\ Len(host.orders) >= MaxLiveOrders
    \* The token is spent, and nothing else happened.
    <2> DEFINE g == Consume(host, r.replacement)
    <2>1. Sequenced(Outcome(g, <<>>, "capacity_exceeded")) BY <1>5 DEF Replace
    <2>2. host' = g /\ ledger' = ledger /\ traded' = traded /\ answers' = answers
      BY <2>1, Quiet
    <2>3. /\ HostInv(host') /\ ClientInv(host', ledger, traded)
          /\ SoundInv(host) => SoundInv(host')
          /\ host'.tokens = host.tokens \cup {r.replacement}
      BY <2>2, <1>0, TokenSpent DEF SessionInv
    <2>4. AnswerInv(host', answers) BY <2>3, AnswersKept DEF SessionInv
    <2> QED BY <2>2, <2>3, <2>4 DEF SessionInv
  <1>6. CASE /\ possible /\ ~late /\ ~DetailsInvalid(o, r) /\ ~Full(host)
             /\ ~(Len(host.orders) >= MaxLiveOrders)
    BY <1>6, ReplaceInBookKeeps DEF Replace
  <1> QED BY <1>1, <1>2, <1>3, <1>4, <1>5, <1>6

-----------------------------------------------------------------------------
(* The session.                                                              *)

LEMMA InitSession == Init => SessionInv
PROOF
  <1> SUFFICES ASSUME Init PROVE SessionInv OBVIOUS
  <1> USE DEF Init
  <1>1. EmptyHost.tokens = {} /\ EmptyHost.orders = <<>> /\ EmptyHost \in Host
    BY DEF EmptyHost, Host
  <1>2. HostInv(host) BY <1>1 DEF HostInv
  <1>3. ClientInv(host, ledger, traded) BY <1>1 DEF ClientInv
  <1>4. AnswerInv(host, answers) BY DEF AnswerInv
  <1>5. SoundInv(host) BY <1>1 DEF SoundInv
  <1> QED BY <1>2, <1>3, <1>4, <1>5 DEF SessionInv

LEMMA SessionStep == SessionInv /\ [Next]_vars => SessionInv'
PROOF
  <1> SUFFICES ASSUME SessionInv, [Next]_vars PROVE SessionInv' OBVIOUS
  <1>1. ASSUME host' = host, ledger' = ledger, traded' = traded, answers' = answers
        PROVE  SessionInv'
    BY <1>1 DEF SessionInv
  <1>2. CASE OnLogin BY <1>1, <1>2 DEF OnLogin, client
  <1>3. CASE OnOrder
    <2>1. \/ \E r \in Enters : Sequenced(Enter(host, r))
          \/ \E r \in Cancels : Unreduced(r.token) /\ Sequenced(Cancel(host, r))
          \/ \E r \in Replaces : LeavesOpen(r.token, r.shares) /\ Sequenced(Replace(host, r))
          \/ \E r \in Modifies : /\ Unreduced(r.token) /\ LeavesOpen(r.token, r.shares)
                                 /\ Sequenced(Modify(host, r))
      BY <1>3 DEF OnOrder
    <2> QED BY <2>1, EnterKeeps, CancelKeeps, ReplaceKeeps, ModifyKeeps
  <1>4. CASE OnClientHeartbeat BY <1>1, <1>4 DEF OnClientHeartbeat, client
  <1>5. CASE OnLogout BY <1>1, <1>5 DEF OnLogout, client
  <1>6. CASE OnProtocolError BY <1>1, <1>6 DEF OnProtocolError, client
  <1>7. CASE Poll BY <1>1, <1>7 DEF Poll, client
  <1>8. CASE Close BY <1>1, <1>8 DEF Close, client
  <1>9. CASE Fill
    <2>1. \E t \in Tokens, n \in 0 .. MaxShares : Sequenced(Execute(host, t, n))
      BY <1>9 DEF Fill
    <2> QED BY <2>1, ExecuteKeeps
  <1>10. CASE Tick BY <1>1, <1>10 DEF Tick, client
  <1>11. CASE UNCHANGED vars BY <1>1, <1>11 DEF vars, client
  <1> QED BY <1>2, <1>3, <1>4, <1>5, <1>6, <1>7, <1>8, <1>9, <1>10, <1>11 DEF Next

LEMMA SessionAlways == Spec => []SessionInv
PROOF BY InitSession, SessionStep, PTL DEF Spec

-----------------------------------------------------------------------------
(* What the invariant says.                                                  *)

\* Each token is answered at most once and an answered token is spent, whatever
\* the client asks for: token_registry of order_entry.hpp.
THEOREM SessionAnsweredOnce == Spec => []AnsweredOnce
PROOF
  <1>1. SessionInv => AnsweredOnce BY DEF SessionInv, AnswerInv, AnsweredOnce
  <1> QED BY <1>1, SessionAlways, PTL

\* Whatever the client asks for, and however often it reduces an order, adding up
\* the acknowledgements of order_entry.hpp gives the open shares of every token.
THEOREM SessionLedgerAgrees == Spec => []LedgerAgrees
PROOF
  <1>1. SessionInv => LedgerAgrees
    <2> SUFFICES ASSUME SessionInv, NEW t \in Tokens PROVE ledger[t] = OpenAt(t)
      BY DEF LedgerAgrees
    <2>1. HostInv(host) /\ ClientInv(host, ledger, traded) BY DEF SessionInv
    <2>2. CASE IndexOf(host, t) = 0
      BY <2>1, <2>2, IndexMissing DEF OpenAt, ClientInv
    <2>3. CASE IndexOf(host, t) # 0
      BY <2>1, <2>3, IndexRange DEF OpenAt, ClientInv
    <2> QED BY <2>2, <2>3
  <1> QED BY <1>1, SessionAlways, PTL

\* A client that reduces an order at most once has every share of it accounted
\* for, and the order is live exactly while some of it is open.
THEOREM SessionSharesAccounted == ~Adverse => (Spec => []SharesAccounted)
PROOF
  <1> SUFFICES ASSUME ~Adverse PROVE Spec => []SharesAccounted OBVIOUS
  <1>1. SessionInv => SharesAccounted
    <2> SUFFICES ASSUME SessionInv, NEW i \in DOMAIN host.orders
                 PROVE  /\ Accounts(host.orders[i])
                        /\ host.orders[i].live <=> SharesOpen(host.orders[i]) > 0
      BY DEF SharesAccounted, EveryShareAccounted
    <2> DEFINE o == host.orders[i]
    <2>1. o \in Order /\ Sound(o) BY DEF SessionInv, HostInv, Host, SoundInv
    <2>2. o.liable \in Nat /\ o.executed \in Nat /\ o.canceled \in Nat
      BY <2>1 DEF Order
    <2> HIDE DEF o
    <2>3. o.executed + o.canceled <= o.liable BY <2>1 DEF Sound
    <2>4. Accounts(o) BY <2>2, <2>3, SMT DEF Accounts, SharesOpen
    <2>5. o.executed + o.canceled < o.liable <=> SharesOpen(o) > 0
      BY <2>2, SMT DEF SharesOpen
    <2> QED BY <2>1, <2>4, <2>5 DEF Sound, o
  <1> QED BY <1>1, SessionAlways, PTL

\* Along a chain of replacements, what traded, what is open and what was canceled
\* since is what the client last asked for: replace() carries executed over.
THEOREM SessionChainExposure == ~Adverse => (Spec => []ChainExposure)
PROOF
  <1> SUFFICES ASSUME ~Adverse PROVE Spec => []ChainExposure OBVIOUS
  <1>1. SessionInv => ChainExposure
    <2> SUFFICES ASSUME SessionInv, NEW i \in DOMAIN host.orders
                 PROVE  traded[host.orders[i].token] + SharesOpen(host.orders[i])
                            + host.orders[i].canceled = host.orders[i].liable
      BY DEF ChainExposure
    <2> DEFINE o == host.orders[i]
    <2>1. o \in Order /\ Sound(o) BY DEF SessionInv, HostInv, Host, SoundInv
    <2>2. traded[o.token] = o.executed BY DEF SessionInv, ClientInv
    <2>3. o.liable \in Nat /\ o.executed \in Nat /\ o.canceled \in Nat
      BY <2>1 DEF Order
    <2> HIDE DEF o
    <2>4. o.executed + o.canceled <= o.liable BY <2>1 DEF Sound
    <2>5. traded[o.token] + SharesOpen(o) + o.canceled = o.liable
      BY <2>2, <2>3, <2>4, SMT DEF SharesOpen
    <2> QED BY <2>5 DEF o
  <1> QED BY <1>1, SessionAlways, PTL
=============================================================================
