---------------------------- MODULE Client_proofs ----------------------------
(* Proofs about Client, for every capacity, policy, packet and feed.         *)
EXTENDS Client, Requester_proofs, FiniteSetTheorems, TLAPS

-----------------------------------------------------------------------------
(* The inductive invariant.                                                  *)

Ranges == [first : Nat, end : Nat]

Trackers == [missing : SUBSET Nat, expected : Nat, session : Nat, started : BOOLEAN]

States == {"synchronising", "live", "recovering", "replaying", "failed"}

\* Of the arbiter only the watermark matters here, and nothing of the entries.
IsStream(a) ==
    a \in [before : Nat, digests : {a.digests}, next : {a.next}, count : {a.count}]

ClientsWith(a, es) ==
    [state : States, started : BOOLEAN, session : Nat, delivered : Nat,
     arbiter : {a}, tracker : Trackers, entries : {es}, held : Ranges]

IsClient(c) == c \in ClientsWith(c.arbiter, c.entries) /\ IsStream(c.arbiter)

ClientTypes ==
    /\ IsClient(client)
    /\ feed \in [session : Nat \ {0}, next : Nat \ {0}]
    /\ captured \in [session : Nat, next : Nat]
    /\ captured # NoSnapshot => captured.next > 0

\* The parts speak of one session: the tracker is at the client's session and
\* calls missing only what is below its expectation; what is buffered has been
\* accounted for and is not missing.
Coherent(c) ==
    /\ IF c.started THEN c.tracker.started /\ c.tracker.session = c.session
       ELSE /\ ~c.tracker.started /\ c.tracker.missing = {} /\ c.tracker.expected = 0
            /\ c.arbiter.before = 0 /\ c.delivered = 0 /\ Empty(c.held)
    /\ \A n \in c.tracker.missing : n < c.tracker.expected
    /\ ~Empty(c.held) => /\ c.held.end <= c.tracker.expected
                         /\ \A n \in Numbers(c.held) : n \notin c.tracker.missing

\* They tell one story: the tracker expects nothing the arbiter has not let cross,
\* and there is room for what it calls missing.
PartsAgree(c) ==
    /\ Coherent(c)
    /\ c.tracker.expected <= c.arbiter.before
    /\ Describable(c.tracker.missing)

StateAgrees(c) ==
    /\ c.state = "synchronising" => ~c.started
    /\ c.state \in {"live", "replaying"} => c.started
    /\ c.state \in {"synchronising", "live"} => Empty(c.held)

\* What the application has while the client streams.
StreamsExactly(c, had, from) ==
    /\ c.arbiter.before = c.tracker.expected
    /\ \A n \in c.tracker.missing : n >= from
    /\ from \in Nat /\ from <= c.tracker.expected
    /\ had = (from .. c.tracker.expected - 1) \ c.tracker.missing

\* What it has while the buffer is replayed.
ReplaysExactly(c, had, from) ==
    /\ c.arbiter.before = c.tracker.expected /\ c.tracker.missing = {}
    /\ ~Empty(c.held) /\ c.held.first > 0 /\ c.held.end = c.tracker.expected
    /\ from = 1 /\ had = 1 .. c.held.first - 1

\* A snapshot on its way reaches as far as the watermark does, unless it is
\* stale or the buffer reaches there.
Covers(next, c) ==
    \/ c.arbiter.before <= next
    \/ c.arbiter.before <= c.delivered
    \/ ~Empty(c.held) /\ c.arbiter.before <= c.held.end

WorldAgrees(c) ==
    /\ c.started => c.session <= feed.session
    /\ c.session = feed.session => c.arbiter.before <= feed.next
    /\ captured.session <= feed.session
    /\ captured # NoSnapshot /\ c.started /\ captured.session = c.session =>
            Covers(captured.next, c)
    /\ captured # NoSnapshot /\ captured.session = feed.session => captured.next <= feed.next

ClientInv ==
    /\ ClientTypes
    /\ client.state # "failed" =>
        /\ PartsAgree(client) /\ StateAgrees(client) /\ WorldAgrees(client)
        /\ client.state = "live" => StreamsExactly(client, have, base)
        /\ client.state = "replaying" =>
                ReplaysExactly(client, have, base) /\ captured = NoSnapshot
    /\ AcceptedOrRecovered

-----------------------------------------------------------------------------
(* The arbiter's part in it.                                                 *)

\* A packet may be empty, a heartbeat, but not ill-formed.
IsPacket(p) == p \in Ranges /\ p.first > 0 /\ p.first <= p.end

\* What of a packet lies above the watermark.
Novel(before, p) ==
    IF Empty(p) \/ p.end <= before THEN NoRange
    ELSE SequenceRange(Greater(p.first, before), p.end)

LEMMA NovelIsARange ==
    ASSUME NEW before \in Nat, NEW p, IsPacket(p)
    PROVE  Novel(before, p) \in Ranges
PROOF BY DEF Novel, IsPacket, Ranges, NoRange, SequenceRange, Greater

LEMMA StreamMoves ==
    ASSUME NEW a, IsStream(a), NEW sequence \in Nat
    PROVE  /\ IsStream(Adopt(a, sequence))
           /\ Adopt(a, sequence).before = Greater(a.before, sequence)
           /\ IsStream(ResetStream(a)) /\ ResetStream(a).before = 0
PROOF
  <1>1. Greater(a.before, sequence) \in Nat BY DEF IsStream, Greater
  <1>2. ASSUME NEW b, b = [a EXCEPT !.before = Greater(a.before, sequence)]
        PROVE  IsStream(b) /\ b.before = Greater(a.before, sequence)
    BY <1>1, <1>2 DEF IsStream
  <1>3. ASSUME NEW b, b = [a EXCEPT !.before = 0, !.next = 0, !.count = 0]
        PROVE  IsStream(b) /\ b.before = 0
    BY <1>3 DEF IsStream
  <1> QED BY <1>2, <1>3 DEF Adopt, ResetStream

LEMMA StreamRemembers ==
    ASSUME NEW a, IsStream(a), NEW p, NEW d
    PROVE  IsStream(Remember(a, p, d)) /\ Remember(a, p, d).before = a.before
PROOF
  <1> DEFINE x == [a.digests EXCEPT ![a.next] = [range |-> p, digest |-> d]]
             y == (a.next + 1) % DigestHistory
             z == Lesser(a.count + 1, DigestHistory)
             b == [a EXCEPT !.digests = x, !.next = y, !.count = z]
  <1>1. Remember(a, p, d) = IF Empty(p) THEN a ELSE b BY DEF Remember
  <1>2. IsStream(b) /\ b.before = a.before
    <2> HIDE DEF x, y, z
    <2> QED BY DEF IsStream
  <1> HIDE DEF b
  <1> QED BY <1>1, <1>2

\* Unless the lines disagree, what is above the watermark crosses, and the
\* watermark follows it.
LEMMA OfferCrosses ==
    ASSUME NEW a, IsStream(a), NEW p, IsPacket(p), NEW d,
           NEW m, m = Offer(a, p, d, DetectDivergence)
    PROVE  \/ m.outcome = "lines_diverged"
           \/ /\ m.outcome # "lines_diverged"
              /\ IsStream(m.arbiter)
              /\ m.arbiter.before = IF Empty(p) THEN a.before ELSE Greater(a.before, p.end)
              /\ m.deliver = Novel(a.before, p)
PROOF
  <1> DEFINE b == IF DetectDivergence THEN Remember(a, p, d) ELSE a
             fresh == NovelPart(b, p)
  <1>1. IsStream(b) /\ b.before = a.before BY StreamRemembers
  <1>2. a.before \in Nat BY DEF IsStream
  <1>3. /\ p.first \in Nat /\ p.end \in Nat /\ p.first <= p.end /\ p.first > 0
    BY DEF IsPacket, Ranges
  <1>4. CASE DetectDivergence /\ Disagrees(a, p, d)
    BY <1>4 DEF Offer, Arbitration
  <1>5. CASE ~(DetectDivergence /\ Disagrees(a, p, d)) /\ (Empty(p) \/ Empty(fresh))
    <2>1. m = Arbitration(b, "duplicate", NoRange) BY <1>5 DEF Offer
    <2>2. Empty(p) \/ p.end <= a.before
      BY <1>1, <1>2, <1>3, <1>5 DEF Empty, NovelPart, SequenceRange, Greater
    <2>3. Novel(a.before, p) = NoRange BY <2>2 DEF Novel
    <2>4. ~Empty(p) => Greater(a.before, p.end) = a.before
      BY <1>2, <1>3, <2>2 DEF Greater
    <2> QED BY <2>1, <2>3, <2>4, <1>1 DEF Arbitration
  <1>6. CASE ~(DetectDivergence /\ Disagrees(a, p, d)) /\ ~Empty(p) /\ ~Empty(fresh)
    <2>1. p.end > a.before
      BY <1>1, <1>2, <1>3, <1>6 DEF NovelPart, Empty, NoRange, SequenceRange
    <2>2. fresh = SequenceRange(Greater(p.first, a.before), p.end)
      BY <1>1, <1>2, <1>3, <2>1 DEF NovelPart
    <2>3. fresh = Novel(a.before, p) BY <1>2, <1>3, <1>6, <2>1, <2>2 DEF Novel
    <2>4. fresh.end = p.end BY <2>2 DEF SequenceRange
    <2>5. /\ m.arbiter = Adopt(b, p.end) /\ m.deliver = fresh
          /\ m.outcome # "lines_diverged"
      BY <1>6, <2>4 DEF Offer, Arbitration
    <2>6. IsStream(Adopt(b, p.end)) /\ Adopt(b, p.end).before = Greater(a.before, p.end)
      BY <1>1, <1>3, StreamMoves
    <2> QED BY <2>3, <2>5, <2>6, <1>6
  <1> QED BY <1>4, <1>5, <1>6

-----------------------------------------------------------------------------
(* The tracker's part.                                                       *)

\* u is t after a packet of its own session.
Accounts(t, u, p) ==
    /\ u.started /\ u.session = t.session
    /\ u.expected = Greater(t.expected, p.end)
    /\ u.missing = (t.missing \cup (t.expected .. p.first - 1)) \ Numbers(p)

LEMMA ObserveAccounts ==
    ASSUME NEW t \in Trackers, \A n \in t.missing : n < t.expected,
           NEW s \in Nat, NEW p, IsPacket(p), NEW seen, seen = Observe(t, s, p)
    PROVE  \/ /\ ~t.started \/ s # t.session
              /\ seen.tracker = Established(s, p.end)
              /\ seen.outcome \in {"established", "session_reset"}
           \/ /\ t.started /\ s = t.session
              /\ seen.outcome = "capacity_exceeded"
              /\ Describable(t.missing) => ~Empty(p) \/ p.first > t.expected
           \/ /\ t.started /\ s = t.session
              /\ seen.outcome \in {"in_order", "gap_opened", "duplicate", "gap_filled"}
              /\ Empty(p) /\ p.first <= t.expected =>
                        seen.outcome \in {"in_order", "duplicate"}
              /\ seen.tracker \in Trackers /\ Accounts(t, seen.tracker, p)
              /\ Describable(t.missing) => Describable(seen.tracker.missing)
PROOF
  <1> DEFINE f == p.first
             e == p.end
             ex == t.expected
  <1>1. f \in Nat /\ e \in Nat /\ f <= e /\ f > 0 BY DEF IsPacket, Ranges
  <1>2. ex \in Nat /\ t.missing \in SUBSET Nat BY DEF Trackers
  <1>3. CASE ~t.started \/ s # t.session
    BY <1>3 DEF Observe, Observation
  <1>4. CASE t.started /\ s = t.session /\ f = ex
    <2>1. seen = Observation([t EXCEPT !.expected = e], "in_order", NoRange, 0)
      BY <1>4 DEF Observe
    <2> DEFINE u == [t EXCEPT !.expected = e]
    <2>2. /\ u \in Trackers /\ u.missing = t.missing /\ u.expected = e
          /\ u.session = t.session /\ u.started = t.started
      BY <1>1 DEF Trackers
    <2>3. e = Greater(ex, e) BY <1>1, <1>4 DEF Greater
    <2>4. t.missing = (t.missing \cup (ex .. f - 1)) \ Numbers(p)
      BY <1>1, <1>2, <1>4 DEF Numbers
    <2>5. Accounts(t, u, p) BY <1>4, <2>2, <2>3, <2>4 DEF Accounts
    <2> HIDE DEF u
    <2>6. seen.tracker = u /\ seen.outcome = "in_order" BY <2>1 DEF Observation, u
    <2> QED BY <1>4, <2>2, <2>5, <2>6
  <1>5. CASE t.started /\ s = t.session /\ f > ex
    <2> DEFINE hole == SequenceRange(ex, f)
               after == Opened(t.missing, hole)
               u == [t EXCEPT !.missing = after, !.expected = e]
    <2>1. seen = OpenGap(t, p) BY <1>1, <1>2, <1>5 DEF Observe
    <2>2. after \in SUBSET Nat
      BY <1>1, <1>2 DEF Opened, Numbers, SequenceRange
    <2>3. after = (t.missing \cup (ex .. f - 1)) \ Numbers(p)
      BY <1>1, <1>2, <1>5 DEF Opened, Numbers, SequenceRange
    <2>4. /\ u \in Trackers /\ u.missing = after /\ u.expected = e
          /\ u.session = t.session /\ u.started = t.started
      <3> HIDE DEF after
      <3> QED BY <1>1, <2>2 DEF Trackers
    <2>5. e = Greater(ex, e) BY <1>1, <1>2, <1>5 DEF Greater
    <2>6. Accounts(t, u, p) BY <1>5, <2>3, <2>4, <2>5 DEF Accounts
    <2>7. CASE Describable(after)
      <3>1. seen.tracker = u /\ seen.outcome = "gap_opened"
        BY <2>1, <2>7 DEF OpenGap, Observation
      <3>2. Describable(u.missing) BY <2>4, <2>7
      <3>3. ~(Empty(p) /\ p.first <= t.expected) BY <1>1, <1>2, <1>5
      <3> HIDE DEF u
      <3> QED BY <1>5, <2>4, <2>6, <3>1, <3>2, <3>3
    <2>8. CASE ~Describable(after)
      <3>1. seen.outcome = "capacity_exceeded" BY <2>1, <2>8 DEF OpenGap, Observation
      <3> QED BY <1>5, <3>1
    <2> QED BY <2>7, <2>8
  <1>6. CASE t.started /\ s = t.session /\ f < ex
    <2> DEFINE after == Filled(t.missing, p)
               repaired == Cardinality(t.missing \cap Numbers(p))
               u == [t EXCEPT !.missing = after, !.expected = Greater(ex, e)]
    <2>1. seen = HandleBehind(t, p) BY <1>1, <1>2, <1>6 DEF Observe
    <2>2. after \in SUBSET Nat /\ Greater(ex, e) \in Nat
      BY <1>1, <1>2 DEF Filled, Greater
    <2>3. after = (t.missing \cup (ex .. f - 1)) \ Numbers(p)
      BY <1>1, <1>2, <1>6 DEF Filled
    <2>4. /\ u \in Trackers /\ u.missing = after /\ u.expected = Greater(ex, e)
          /\ u.session = t.session /\ u.started = t.started
      <3> HIDE DEF after
      <3> QED BY <2>2 DEF Trackers
    <2>5. Accounts(t, u, p) BY <1>6, <2>3, <2>4 DEF Accounts
    <2>6. Empty(p) => after = t.missing /\ repaired = 0
      <3>1. Empty(p) => t.missing \cap Numbers(p) = {} /\ after = t.missing
        BY <1>1, <1>2 DEF Empty, Numbers, Filled
      <3> QED BY <3>1, FS_EmptySet
    <2>7. CASE ~Describable(after)
      <3>1. seen.outcome = "capacity_exceeded" BY <2>1, <2>7 DEF HandleBehind, Observation
      <3> QED BY <1>6, <2>6, <2>7, <3>1
    <2>8. CASE Describable(after)
      <3>1. /\ seen.tracker = u
            /\ seen.outcome = IF repaired = 0 THEN "duplicate" ELSE "gap_filled"
        BY <2>1, <2>8 DEF HandleBehind, Observation
      <3>2. Describable(u.missing) BY <2>4, <2>8
      <3> HIDE DEF u
      <3> QED BY <1>6, <2>4, <2>5, <2>6, <3>1, <3>2
    <2> QED BY <2>7, <2>8
  <1> QED BY <1>1, <1>2, <1>3, <1>4, <1>5, <1>6

-----------------------------------------------------------------------------
(* Parts of the client's operations.                                         *)

\* c has dropped the old session; its tracker still counts in it.
Restarted(c, s, d) ==
    /\ IsClient(d) /\ d.state = "synchronising" /\ d.started = c.started
    /\ d.session = s /\ d.delivered = 0 /\ d.arbiter.before = 0
    /\ d.tracker = c.tracker /\ d.held = NoRange

LEMMA RestartedClient ==
    ASSUME NEW c, IsClient(c), NEW s \in Nat, NEW d, d = RestartForNewSession(c, s)
    PROVE  Restarted(c, s, d)
PROOF
  <1> DEFINE a == ResetStream(c.arbiter)
             none == <<>>
  <1>1. IsStream(a) /\ a.before = 0 BY StreamMoves DEF IsClient
  <1>2. d = [c EXCEPT !.arbiter = a, !.held = NoRange, !.entries = none,
                      !.session = s, !.delivered = 0, !.state = "synchronising"]
    BY DEF RestartForNewSession, IsClient, ClientsWith
  <1>3. NoRange \in Ranges /\ "synchronising" \in States
    BY DEF NoRange, SequenceRange, Ranges, States
  <1> HIDE DEF a, none
  <1>4. /\ d \in ClientsWith(a, none) /\ d.arbiter = a /\ d.entries = none
        /\ d.state = "synchronising" /\ d.started = c.started /\ d.session = s
        /\ d.delivered = 0 /\ d.tracker = c.tracker /\ d.held = NoRange
    <2> DEFINE kept == NoRange
               first == "synchronising"
    <2> HIDE DEF kept, first
    <2>1. d = [c EXCEPT !.arbiter = a, !.held = kept, !.entries = none,
                        !.session = s, !.delivered = 0, !.state = first]
      BY <1>2 DEF kept, first
    <2>2. kept \in Ranges /\ first \in States BY <1>3 DEF kept, first
    <2>3. d \in ClientsWith(a, none)
      <3> DEFINE e == [c EXCEPT !.arbiter = a, !.entries = none, !.session = s]
      <3>1. e \in ClientsWith(a, none) BY DEF IsClient, ClientsWith
      <3>2. d = [e EXCEPT !.held = kept, !.delivered = 0, !.state = first]
        BY <2>1 DEF IsClient, ClientsWith
      <3> HIDE DEF e
      <3> DEFINE h == [e EXCEPT !.held = kept, !.state = first]
      <3>3. h \in ClientsWith(a, none) BY <2>2, <3>1 DEF ClientsWith
      <3>4. d = [h EXCEPT !.delivered = 0] BY <3>1, <3>2 DEF ClientsWith
      <3> HIDE DEF h
      <3> QED BY <3>3, <3>4 DEF ClientsWith
    <2>4. /\ d.arbiter = a /\ d.entries = none /\ d.state = first
          /\ d.started = c.started /\ d.session = s
          /\ d.delivered = 0 /\ d.tracker = c.tracker /\ d.held = kept
      BY <2>1 DEF IsClient, ClientsWith
    <2> QED BY <2>3, <2>4 DEF kept, first
  <1> QED BY <1>1, <1>4 DEF IsClient, Restarted

LEMMA TrackedClient ==
    ASSUME NEW c, IsClient(c), NEW t \in Trackers, NEW d, d = Tracked(c, t)
    PROVE  /\ IsClient(d) /\ d.state = c.state /\ d.started = c.started
           /\ d.session = c.session /\ d.delivered = c.delivered
           /\ d.arbiter.before = Greater(c.arbiter.before, t.expected)
           /\ d.tracker = t /\ d.held = c.held
PROOF
  <1> DEFINE a == Adopt(c.arbiter, t.expected)
  <1>1. IsStream(a) /\ a.before = Greater(c.arbiter.before, t.expected)
    <2>1. IsStream(c.arbiter) /\ t.expected \in Nat BY DEF IsClient, Trackers
    <2> QED BY <2>1, StreamMoves
  <1>2. d = [c EXCEPT !.tracker = t, !.arbiter = a]
    BY DEF Tracked, IsClient, ClientsWith
  <1> HIDE DEF a
  <1>3. /\ d \in ClientsWith(a, c.entries)
        /\ d.state = c.state /\ d.started = c.started /\ d.session = c.session
        /\ d.delivered = c.delivered /\ d.arbiter = a /\ d.tracker = t
        /\ d.entries = c.entries /\ d.held = c.held
    BY <1>2 DEF IsClient, ClientsWith
  <1> QED BY <1>1, <1>3 DEF IsClient

\* d is c on the way to a snapshot.
Escalated(c, d) ==
    /\ IsClient(d) /\ d.state = "recovering" /\ d.started = c.started
    /\ d.session = c.session /\ d.delivered = c.delivered
    /\ d.arbiter = c.arbiter /\ d.tracker = c.tracker /\ d.held = NoRange

LEMMA EscalatedClient ==
    ASSUME NEW c, IsClient(c), NEW es, NEW d, d = Escalate([c EXCEPT !.entries = es])
    PROVE  Escalated(c, d)
PROOF
  <1>1. d = [c EXCEPT !.entries = es, !.state = "recovering", !.held = NoRange]
    BY DEF Escalate, IsClient, ClientsWith
  <1>2. NoRange \in Ranges /\ "recovering" \in States
    BY DEF NoRange, SequenceRange, Ranges, States
  <1>3. /\ d \in ClientsWith(c.arbiter, es)
        /\ d.state = "recovering" /\ d.started = c.started /\ d.session = c.session
        /\ d.delivered = c.delivered /\ d.arbiter = c.arbiter
        /\ d.tracker = c.tracker /\ d.entries = es /\ d.held = NoRange
    BY <1>1, <1>2 DEF IsClient, ClientsWith
  <1> QED BY <1>3 DEF IsClient, Escalated

LEMMA EscalatedAsItIs ==
    ASSUME NEW c, IsClient(c), NEW d, d = Escalate(c)
    PROVE  Escalated(c, d)
PROOF
  <1>1. NoRange \in Ranges /\ "recovering" \in States
    BY DEF NoRange, SequenceRange, Ranges, States
  <1>2. /\ d \in ClientsWith(c.arbiter, c.entries)
        /\ d.state = "recovering" /\ d.started = c.started /\ d.session = c.session
        /\ d.delivered = c.delivered /\ d.arbiter = c.arbiter
        /\ d.tracker = c.tracker /\ d.entries = c.entries /\ d.held = NoRange
    BY <1>1 DEF Escalate, IsClient, ClientsWith
  <1> QED BY <1>2 DEF IsClient, Escalated

\* The packet is reported, and the client streams unless it is recovering.
Reported(c, done, accepted, recovered) ==
    /\ done.error = "ok" /\ done.accepted = accepted /\ done.recovered = recovered
    /\ IsClient(done.client)
    /\ done.client.started = c.started /\ done.client.session = c.session
    /\ done.client.arbiter = c.arbiter /\ done.client.tracker = c.tracker
    /\ done.client.held = c.held
    /\ done.client.state = IF c.state = "synchronising" THEN "live" ELSE c.state
    /\ done.client.delivered = IF c.state = "recovering" THEN c.delivered
                               ELSE Greater(c.delivered, accepted.end)

\* Whatever the requester makes of a hole, it tells in its error.
NotChased(c, seen, done) ==
    /\ done.error # "ok" /\ done.accepted = NoRange /\ done.recovered = {}
    /\ seen.outcome \in {"gap_opened", "gap_filled"}
    /\ Escalated(c, done.client)

LEMMA SequencedClient ==
    ASSUME NEW c, IsClient(c), NEW seen, NEW accepted \in Ranges, NEW recovered,
           NEW done, done = Sequenced(c, seen, accepted, recovered)
    PROVE  NotChased(c, seen, done) \/ Reported(c, done, accepted, recovered)
PROOF
  <1> DEFINE asked == CASE seen.outcome = "gap_opened" -> OnGap(c.entries, seen.range)
                        [] seen.outcome = "gap_filled" -> OnFilled(c.entries, seen.range)
                        [] OTHER -> [entries |-> c.entries, error |-> "ok"]
             es == asked.entries
             live == IF c.state = "synchronising" THEN "live" ELSE c.state
             delivered == IF live = "recovering" THEN c.delivered
                          ELSE Greater(c.delivered, accepted.end)
             e == [c EXCEPT !.entries = es]
             d == [e EXCEPT !.state = live, !.delivered = delivered]
  <1>1. e.state = c.state /\ e.delivered = c.delivered
    BY DEF IsClient, ClientsWith
  <1>2. done = IF asked.error # "ok"
               THEN Ingested(Escalate(e), NoRange, {}, asked.error)
               ELSE Ingested(d, accepted, recovered, "ok")
    BY <1>1 DEF Sequenced
  <1>3. asked.error # "ok" => seen.outcome \in {"gap_opened", "gap_filled"}
    OBVIOUS
  <1>4. live \in States /\ delivered \in Nat
    BY DEF IsClient, ClientsWith, States, Ranges, Greater
  <1>5. delivered = IF c.state = "recovering" THEN c.delivered
                    ELSE Greater(c.delivered, accepted.end)
    OBVIOUS
  <1> HIDE DEF asked, es, live, delivered
  <1>6. /\ d \in ClientsWith(c.arbiter, es)
        /\ d.state = live /\ d.started = c.started /\ d.session = c.session
        /\ d.delivered = delivered /\ d.arbiter = c.arbiter
        /\ d.tracker = c.tracker /\ d.entries = es /\ d.held = c.held
    BY <1>4 DEF IsClient, ClientsWith
  <1>7. IsClient(d) BY <1>6 DEF IsClient
  <1>8. CASE asked.error # "ok"
    <2> HIDE DEF e, d
    <2>1. /\ done.error # "ok" /\ done.accepted = NoRange /\ done.recovered = {}
          /\ done.client = Escalate(e)
      BY <1>2, <1>8 DEF Ingested
    <2>2. Escalated(c, done.client) BY <2>1, EscalatedClient DEF e
    <2> QED BY <1>3, <1>8, <2>1, <2>2 DEF NotChased
  <1>9. CASE asked.error = "ok"
    <2> HIDE DEF e, d
    <2>1. /\ done.error = "ok" /\ done.accepted = accepted
          /\ done.recovered = recovered /\ done.client = d
      BY <1>2, <1>9 DEF Ingested
    <2> QED BY <1>5, <1>6, <1>7, <2>1 DEF live, Reported
  <1> QED BY <1>8, <1>9

-----------------------------------------------------------------------------
(* What on_packet does, for a packet of the client's session and for one     *)
(* with which a session begins.                                              *)

\* How far the arbiter has come once the packet is accounted for.
Watermark(c, p) == Greater(c.arbiter.before, Greater(c.tracker.expected, p.end))

TakesInSession(c, done, p) ==
    LET d == done.client
    IN  /\ done.error = "ok" /\ IsClient(d) /\ d.started
        /\ d.session = c.session /\ d.state = c.state /\ d.held = c.held
        /\ Accounts(c.tracker, d.tracker, p)
        /\ Describable(c.tracker.missing) => Describable(d.tracker.missing)
        /\ d.arbiter.before = Watermark(c, p)
        /\ done.accepted = Novel(c.arbiter.before, p)
        /\ done.recovered = c.tracker.missing \cap Numbers(p)
        /\ d.delivered = IF c.state = "recovering" THEN c.delivered
                         ELSE Greater(c.delivered, done.accepted.end)

IgnoresDuplicate(c, done, p) ==
    LET d == done.client
    IN  /\ done.error = "ok" /\ IsClient(d) /\ d.started
        /\ d.session = c.session /\ d.state = c.state /\ d.held = c.held
        /\ d.tracker = c.tracker /\ d.delivered = c.delivered
        /\ d.arbiter.before = c.arbiter.before
        /\ done.accepted = NoRange /\ done.recovered = {}

\* No room for the hole, in the tracker or in the requester.
GivesUpChasing(c, done, p) ==
    LET d == done.client
    IN  /\ done.error # "ok" /\ done.accepted = NoRange /\ done.recovered = {}
        /\ Describable(c.tracker.missing) => ~Empty(p) \/ p.first > c.tracker.expected
        /\ IsClient(d) /\ d.started /\ d.session = c.session
        /\ d.state = "recovering" /\ d.held = NoRange
        /\ d.tracker = c.tracker \/ Accounts(c.tracker, d.tracker, p)
        /\ Describable(c.tracker.missing) => Describable(d.tracker.missing)
        /\ d.arbiter.before <= Watermark(c, p)
        /\ c.tracker.expected <= c.arbiter.before =>
                d.tracker.expected <= d.arbiter.before

FailsOn(done) ==
    /\ done.error # "ok" /\ done.accepted = NoRange /\ done.recovered = {}
    /\ IsClient(done.client) /\ done.client.state = "failed"

LEMMA DivergedClient ==
    ASSUME NEW c, IsClient(c),
           NEW done, done = Ingested(Fail(c), NoRange, {}, "lines_diverged")
    PROVE  FailsOn(done)
PROOF
  <1> DEFINE d == [c EXCEPT !.state = "failed"]
  <1>1. d \in ClientsWith(c.arbiter, c.entries) /\ d.state = "failed"
        /\ d.arbiter = c.arbiter /\ d.entries = c.entries
    BY DEF IsClient, ClientsWith, States
  <1> HIDE DEF d
  <1>2. /\ done.client = d /\ done.error = "lines_diverged"
        /\ done.accepted = NoRange /\ done.recovered = {}
    BY DEF Ingested, Fail, d
  <1> QED BY <1>1, <1>2 DEF IsClient, FailsOn

\* The tracker has taken the packet into its account.
Tracks(t, seen, p) ==
    /\ seen.tracker \in Trackers
    /\ Describable(t.missing) => Describable(seen.tracker.missing)
    /\ Accounts(t, seen.tracker, p)
    /\ seen.outcome \in {"gap_opened", "gap_filled"} =>
            ~Empty(p) \/ p.first > t.expected

LEMMA PacketInSession ==
    ASSUME NEW c, IsClient(c), Coherent(c), c.started, c.state \in {"live", "recovering"},
           NEW p, IsPacket(p), NEW digest,
           NEW done, done = OnPacket(c, c.session, p, digest)
    PROVE  \/ FailsOn(done) \/ IgnoresDuplicate(c, done, p)
           \/ GivesUpChasing(c, done, p) \/ TakesInSession(c, done, p)
PROOF
  <1> DEFINE s == c.session
             before == c.arbiter.before
             merged == Offer(c.arbiter, p, digest, DetectDivergence)
             c2 == [c EXCEPT !.arbiter = merged.arbiter, !.started = TRUE, !.session = s]
             recovered == c.tracker.missing \cap Numbers(p)
             seen == Observe(c2.tracker, s, p)
             c3 == Tracked(c2, seen.tracker)
  <1>1. ~OtherSession(c, s) BY DEF OtherSession
  <1>2. c2.tracker = c.tracker BY DEF IsClient, ClientsWith
  <1>3. done = IF merged.outcome = "lines_diverged"
               THEN Ingested(Fail(c), NoRange, {}, "lines_diverged")
               ELSE IF ~Empty(p) /\ Empty(merged.deliver) /\ recovered = {}
               THEN Ingested(c2, NoRange, {}, "ok")
               ELSE IF seen.outcome = "capacity_exceeded"
               THEN Ingested(Escalate(c2), NoRange, {}, "capacity_exceeded")
               ELSE Sequenced(c3, seen, merged.deliver, recovered)
    BY <1>1, <1>2 DEF OnPacket, Repaired
  <1>4. /\ before \in Nat /\ s \in Nat /\ c.tracker \in Trackers
        /\ c.tracker.expected \in Nat /\ IsStream(c.arbiter)
        /\ p.first \in Nat /\ p.end \in Nat /\ p.first <= p.end
    BY DEF IsClient, ClientsWith, IsStream, Trackers, IsPacket, Ranges
  <1>5. CASE merged.outcome = "lines_diverged"
    BY <1>3, <1>5, DivergedClient
  <1>6. ASSUME merged.outcome # "lines_diverged"
        PROVE  IgnoresDuplicate(c, done, p) \/ GivesUpChasing(c, done, p)
               \/ TakesInSession(c, done, p)
    <2> HIDE DEF merged
    <2>1. /\ IsStream(merged.arbiter)
          /\ merged.arbiter.before = IF Empty(p) THEN before ELSE Greater(before, p.end)
          /\ merged.deliver = Novel(before, p)
      BY <1>4, <1>6, OfferCrosses DEF merged
    <2>2. c2 = [c EXCEPT !.arbiter = merged.arbiter, !.started = TRUE, !.session = s]
      OBVIOUS
    <2>3. Novel(before, p) \in Ranges BY <1>4, NovelIsARange
    <2> HIDE DEF c2
    <2>6. /\ IsClient(c2) /\ c2.state = c.state /\ c2.started /\ c2.session = s
          /\ c2.delivered = c.delivered /\ c2.arbiter = merged.arbiter
          /\ c2.held = c.held
      <3>1. /\ c2 \in ClientsWith(merged.arbiter, c.entries)
            /\ c2.state = c.state /\ c2.started = TRUE /\ c2.session = s
            /\ c2.delivered = c.delivered /\ c2.arbiter = merged.arbiter
            /\ c2.entries = c.entries /\ c2.held = c.held
        BY <1>4, <2>2 DEF IsClient, ClientsWith
      <3> QED BY <2>1, <3>1 DEF IsClient
    <2>4. CASE ~Empty(p) /\ Empty(merged.deliver) /\ recovered = {}
      <3>1. /\ done.client = c2 /\ done.accepted = NoRange /\ done.recovered = {}
            /\ done.error = "ok"
        BY <1>3, <1>6, <2>4 DEF Ingested
      <3>2. p.end <= before
        BY <1>4, <2>1, <2>4 DEF Novel, Empty, SequenceRange, Greater
      <3>3. c2.arbiter.before = before BY <1>4, <2>1, <2>6, <2>4, <3>2 DEF Greater
      <3> QED BY <1>2, <2>6, <3>1, <3>3 DEF IgnoresDuplicate
    <2>5. ASSUME ~(~Empty(p) /\ Empty(merged.deliver) /\ recovered = {})
          PROVE  GivesUpChasing(c, done, p) \/ TakesInSession(c, done, p)
      <3>1. seen = Observe(c.tracker, s, p) BY <1>2
      <3>2. c.tracker.started /\ s = c.tracker.session BY DEF Coherent
      <3>3. /\ seen.outcome # "capacity_exceeded" => Tracks(c.tracker, seen, p)
            /\ seen.outcome = "capacity_exceeded" /\ Describable(c.tracker.missing) =>
                    ~Empty(p) \/ p.first > c.tracker.expected
        <4>1. \A n \in c.tracker.missing : n < c.tracker.expected
          BY DEF Coherent
        <4> HIDE DEF seen
        <4>2. ~(p.first <= c.tracker.expected) => p.first > c.tracker.expected
          BY <1>4
        <4> QED BY <1>4, <3>1, <3>2, <4>1, <4>2, ObserveAccounts DEF Tracks
      <3> HIDE DEF seen
      <3>4. merged.arbiter.before \in Nat /\ merged.arbiter.before >= before
            /\ merged.arbiter.before <= Watermark(c, p)
        BY <1>4, <2>1 DEF Greater, Watermark
      <3>6. CASE seen.outcome = "capacity_exceeded"
        <4>1. /\ done.client = Escalate(c2) /\ done.accepted = NoRange
              /\ done.recovered = {} /\ done.error # "ok"
          BY <1>3, <1>6, <2>5, <3>6 DEF Ingested
        <4>2. Escalated(c2, done.client) BY <2>6, <4>1, EscalatedAsItIs
        <4>3. c.tracker.expected <= before => c.tracker.expected <= merged.arbiter.before
          BY <1>4, <3>4
        <4>4. /\ IsClient(done.client) /\ done.client.started
              /\ done.client.session = c.session /\ done.client.state = "recovering"
              /\ done.client.held = NoRange /\ done.client.tracker = c.tracker
              /\ done.client.arbiter.before = merged.arbiter.before
          BY <1>2, <2>6, <4>2 DEF Escalated
        <4>5. Describable(c.tracker.missing) =>
                 ~Empty(p) \/ p.first > c.tracker.expected
          BY <3>3, <3>6
        <4>6. /\ Describable(c.tracker.missing) => Describable(done.client.tracker.missing)
              /\ done.client.arbiter.before <= Watermark(c, p)
              /\ c.tracker.expected <= before =>
                    done.client.tracker.expected <= done.client.arbiter.before
          BY <3>4, <4>3, <4>4 DEF Coherent
        <4> QED BY <4>1, <4>4, <4>5, <4>6 DEF GivesUpChasing
      <3>7. CASE seen.outcome # "capacity_exceeded"
        <4>1. /\ seen.tracker \in Trackers
              /\ Describable(c.tracker.missing) => Describable(seen.tracker.missing)
              /\ Accounts(c.tracker, seen.tracker, p)
              /\ seen.tracker.expected = Greater(c.tracker.expected, p.end)
              /\ seen.outcome \in {"gap_opened", "gap_filled"} =>
                    ~Empty(p) \/ p.first > c.tracker.expected 
          BY <3>3, <3>7 DEF Tracks, Accounts
        <4>2. /\ IsClient(c3) /\ c3.state = c.state /\ c3.started
              /\ c3.session = s /\ c3.delivered = c.delivered
              /\ c3.arbiter.before = Greater(merged.arbiter.before, seen.tracker.expected)
              /\ c3.tracker = seen.tracker /\ c3.held = c.held
          BY <2>6, <4>1, TrackedClient
        <4>3. c3.arbiter.before = Watermark(c, p)
          BY <1>4, <2>1, <4>1, <4>2 DEF Greater, Empty, Watermark
        <4>4. done = Sequenced(c3, seen, Novel(before, p), recovered)
          BY <1>3, <1>6, <2>1, <2>5, <3>7
        <4> HIDE DEF c3, recovered
        <4>5. c.state # "synchronising" OBVIOUS
        <4>6. NotChased(c3, seen, done) \/ Reported(c3, done, Novel(before, p), recovered)
          BY <2>3, <4>2, <4>4, SequencedClient
        <4>7. CASE Reported(c3, done, Novel(before, p), recovered)
          BY <4>1, <4>2, <4>3, <4>5, <4>7 DEF Reported, TakesInSession, recovered
        <4>8. CASE NotChased(c3, seen, done)
          <5>1. seen.tracker.expected <= Watermark(c, p)
            BY <1>4, <4>1 DEF Greater, Watermark
          <5>2. Watermark(c, p) <= Watermark(c, p) BY <1>4 DEF Greater, Watermark
          <5> QED BY <4>1, <4>2, <4>3, <4>8, <5>1, <5>2
                  DEF NotChased, Escalated, GivesUpChasing
        <4> QED BY <4>6, <4>7, <4>8
      <3> QED BY <3>6, <3>7
    <2> QED BY <2>4, <2>5
  <1> QED BY <1>5, <1>6

BeginsWith(c, done, s, p) ==
    LET d == done.client
    IN  /\ done.error = "ok" /\ done.recovered = {}
        /\ done.accepted = Novel(0, p)
        /\ IsClient(d) /\ d.started /\ d.session = s
        /\ d.tracker = Established(s, p.end) /\ d.arbiter.before = p.end
        /\ Empty(d.held)
        /\ d.state = IF c.started \/ c.state = "synchronising" THEN "live"
                     ELSE "recovering"
        /\ d.delivered = IF d.state = "recovering" THEN 0 ELSE done.accepted.end

\* Ready for the first packet of session s.
Begins(c, s) ==
    /\ IsClient(c) /\ c.arbiter.before = 0 /\ c.delivered = 0 /\ Empty(c.held)
    /\ ~c.tracker.started \/ s # c.tracker.session
    /\ c.state \in {"synchronising", "recovering"}

LEMMA ClientBegins ==
    ASSUME NEW c, IsClient(c), Coherent(c),
           c.state \in {"synchronising", "live", "recovering"},
           NEW s \in Nat, ~c.started \/ s # c.session,
           NEW c1, c1 = IF OtherSession(c, s) THEN RestartForNewSession(c, s) ELSE c,
           c.state = "live" => c.started
    PROVE  /\ Begins(c1, s)
           /\ c1.state = IF c.started THEN "synchronising" ELSE c.state
           /\ ~OtherSession(c, s) => c1.tracker.missing = {}
PROOF
  <1>1. CASE c.started
    <2>1. c1 = RestartForNewSession(c, s) /\ OtherSession(c, s)
      BY <1>1 DEF OtherSession
    <2>2. /\ IsClient(c1) /\ c1.state = "synchronising"
          /\ c1.delivered = 0 /\ c1.arbiter.before = 0
          /\ c1.tracker = c.tracker /\ c1.held = NoRange
      BY <2>1, RestartedClient DEF Restarted
    <2>3. c.tracker.session = c.session BY <1>1 DEF Coherent
    <2>4. Empty(c1.held) BY <2>2 DEF Empty, NoRange, SequenceRange
    <2> QED BY <1>1, <2>1, <2>2, <2>3, <2>4 DEF Begins
  <1>2. CASE ~c.started
    <2>1. c1 = c /\ ~OtherSession(c, s) BY <1>2 DEF OtherSession
    <2>2. /\ ~c.tracker.started /\ c.tracker.missing = {}
          /\ c.arbiter.before = 0 /\ c.delivered = 0 /\ Empty(c.held)
      BY <1>2 DEF Coherent
    <2> QED BY <1>2, <2>1, <2>2 DEF Begins
  <1> QED BY <1>1, <1>2

LEMMA PacketBegins ==
    ASSUME NEW c, IsClient(c), Coherent(c),
           c.state \in {"synchronising", "live", "recovering"},
           c.state = "live" => c.started,
           NEW s \in Nat, ~c.started \/ s # c.session,
           NEW p, IsPacket(p), NEW digest,
           NEW done, done = OnPacket(c, s, p, digest)
    PROVE  FailsOn(done) \/ BeginsWith(c, done, s, p)
PROOF
  <1> DEFINE changed == OtherSession(c, s)
             c1 == IF changed THEN RestartForNewSession(c, s) ELSE c
             merged == Offer(c1.arbiter, p, digest, DetectDivergence)
             c2 == [c1 EXCEPT !.arbiter = merged.arbiter, !.started = TRUE, !.session = s]
             recovered == Repaired(c2, changed, p)
             seen == Observe(c2.tracker, s, p)
             c3 == Tracked(c2, seen.tracker)
  <1>1. /\ Begins(c1, s) /\ c1.state = IF c.started THEN "synchronising" ELSE c.state
        /\ ~changed => c1.tracker.missing = {}
    BY ClientBegins
  <1>2. done = IF merged.outcome = "lines_diverged"
               THEN Ingested(Fail(c1), NoRange, {}, "lines_diverged")
               ELSE IF ~Empty(p) /\ Empty(merged.deliver) /\ recovered = {}
               THEN Ingested(c2, NoRange, {}, "ok")
               ELSE IF seen.outcome = "capacity_exceeded"
               THEN Ingested(Escalate(c2), NoRange, {}, "capacity_exceeded")
               ELSE Sequenced(c3, seen, merged.deliver, recovered)
    BY DEF OnPacket
  <1> HIDE DEF c1
  <1>3. /\ IsClient(c1) /\ IsStream(c1.arbiter) /\ c1.tracker \in Trackers
        /\ c1.arbiter.before = 0
        /\ p.first \in Nat /\ p.end \in Nat /\ p.first <= p.end /\ p.first > 0
    BY <1>1 DEF Begins, IsClient, ClientsWith, IsPacket, Ranges
  <1>4. CASE merged.outcome = "lines_diverged"
    BY <1>2, <1>3, <1>4, DivergedClient
  <1>5. ASSUME merged.outcome # "lines_diverged"
        PROVE  BeginsWith(c, done, s, p)
    <2> HIDE DEF merged
    <2>1. /\ IsStream(merged.arbiter)
          /\ merged.arbiter.before = IF Empty(p) THEN 0 ELSE Greater(0, p.end)
          /\ merged.deliver = Novel(0, p)
      BY <1>3, <1>5, OfferCrosses DEF merged
    <2>2. c2 = [c1 EXCEPT !.arbiter = merged.arbiter, !.started = TRUE, !.session = s]
      OBVIOUS
    <2> HIDE DEF c2
    <2>3. /\ IsClient(c2) /\ c2.state = c1.state /\ c2.started /\ c2.session = s
          /\ c2.delivered = 0 /\ c2.arbiter = merged.arbiter
          /\ c2.held = c1.held /\ c2.tracker = c1.tracker
      <3>1. /\ c2 \in ClientsWith(merged.arbiter, c1.entries)
            /\ c2.state = c1.state /\ c2.started = TRUE /\ c2.session = s
            /\ c2.delivered = c1.delivered /\ c2.arbiter = merged.arbiter
            /\ c2.entries = c1.entries /\ c2.held = c1.held /\ c2.tracker = c1.tracker
        BY <1>3, <2>2 DEF IsClient, ClientsWith
      <3> QED BY <1>1, <2>1, <3>1 DEF IsClient, Begins
    <2>4. recovered = {} BY <1>1, <2>3 DEF Repaired
    <2>5. ~(~Empty(p) /\ Empty(merged.deliver))
      BY <1>3, <2>1 DEF Novel, Empty, SequenceRange, Greater
    <2>6. /\ seen.tracker = Established(s, p.end)
          /\ seen.outcome \in {"established", "session_reset"}
      BY <1>1, <2>3 DEF Begins, Observe, Observation
    <2>7. Established(s, p.end) \in Trackers /\ Established(s, p.end).expected = p.end
      BY <1>3 DEF Established, Trackers
    <2> HIDE DEF seen, recovered
    <2>8. done = Sequenced(c3, seen, Novel(0, p), {})
      BY <1>2, <1>5, <2>1, <2>4, <2>5, <2>6
    <2>9. /\ IsClient(c3) /\ c3.state = c1.state /\ c3.started /\ c3.session = s
          /\ c3.delivered = 0
          /\ c3.arbiter.before = Greater(merged.arbiter.before, seen.tracker.expected)
          /\ c3.tracker = seen.tracker /\ c3.held = c1.held
      <3>1. seen.tracker \in Trackers BY <2>6, <2>7
      <3> QED BY <2>3, <3>1, TrackedClient
    <2>10. c3.arbiter.before = p.end
      BY <1>3, <2>1, <2>6, <2>7, <2>9 DEF Greater, Empty
    <2> HIDE DEF c3
    <2>11. Novel(0, p) \in Ranges BY NovelIsARange
    <2>12. NotChased(c3, seen, done) \/ Reported(c3, done, Novel(0, p), {})
      BY <2>8, <2>9, <2>11, SequencedClient
    <2>13. ~NotChased(c3, seen, done) BY <2>6 DEF NotChased
    <2>14. Greater(0, Novel(0, p).end) = Novel(0, p).end BY <2>11 DEF Ranges, Greater
    <2>15. /\ Empty(c1.held)
           /\ IF c.started \/ c.state = "synchronising"
              THEN c3.state = "synchronising" ELSE c3.state = "recovering"
      BY <1>1, <2>9 DEF Begins
    <2>16. /\ done.error = "ok" /\ done.recovered = {} /\ done.accepted = Novel(0, p)
           /\ IsClient(done.client) /\ done.client.started /\ done.client.session = s
           /\ done.client.tracker = Established(s, p.end)
           /\ done.client.arbiter.before = p.end /\ Empty(done.client.held)
      BY <2>6, <2>9, <2>10, <2>12, <2>13, <2>15 DEF Reported
    <2>17. /\ done.client.state = IF c.started \/ c.state = "synchronising" THEN "live"
                                 ELSE "recovering"
           /\ done.client.delivered = IF done.client.state = "recovering" THEN 0
                                     ELSE done.accepted.end
      BY <2>9, <2>12, <2>13, <2>14, <2>15 DEF Reported
    <2> QED BY <2>16, <2>17 DEF BeginsWith
  <1> QED BY <1>4, <1>5

-----------------------------------------------------------------------------
(* Receiving a packet of the client's session.                               *)

LEMMA ClientNumbers ==
    ASSUME NEW c, IsClient(c)
    PROVE  /\ c.arbiter.before \in Nat /\ c.tracker \in Trackers
           /\ c.tracker.expected \in Nat /\ c.tracker.missing \in SUBSET Nat
           /\ c.held \in Ranges /\ c.held.first \in Nat /\ c.held.end \in Nat
           /\ c.delivered \in Nat /\ c.session \in Nat /\ c.state \in States
           /\ c.started \in BOOLEAN
PROOF BY DEF IsClient, ClientsWith, IsStream, Trackers, Ranges

LEMMA PacketNumbers ==
    ASSUME NEW p, IsPacket(p)
    PROVE  p.first \in Nat /\ p.end \in Nat /\ p.first > 0 /\ p.first <= p.end
PROOF BY DEF IsPacket, Ranges

LEMMA NovelNumbers ==
    ASSUME NEW before \in Nat, NEW p, IsPacket(p)
    PROVE  /\ \A n : n \in Numbers(Novel(before, p)) <=> n \in Numbers(p) /\ n >= before
           /\ Empty(Novel(before, p)) <=> Empty(p) \/ p.end <= before
           /\ ~Empty(Novel(before, p)) =>
                    Novel(before, p).end = p.end /\ Novel(before, p).first >= before
                    /\ Novel(before, p).first >= p.first
           /\ Novel(before, p).first \in Nat /\ Novel(before, p).end \in Nat
PROOF
  <1>1. p.first \in Nat /\ p.end \in Nat /\ p.first > 0 /\ p.first <= p.end
    BY PacketNumbers
  <1>2. CASE Empty(p) \/ p.end <= before
    <2>1. Novel(before, p) = NoRange BY <1>2 DEF Novel
    <2>2. NoRange.first = 0 /\ NoRange.end = 0 BY DEF NoRange, SequenceRange
    <2> QED BY <1>1, <1>2, <2>1, <2>2 DEF Numbers, Empty
  <1>3. CASE ~(Empty(p) \/ p.end <= before)
    <2>1. /\ Novel(before, p).first = Greater(p.first, before)
          /\ Novel(before, p).end = p.end
      BY <1>3 DEF Novel, SequenceRange
    <2> QED BY <1>1, <1>3, <2>1 DEF Numbers, Empty, Greater
  <1> QED BY <1>2, <1>3

LEMMA WatermarkInStep ==
    ASSUME NEW c, IsClient(c), c.tracker.expected <= c.arbiter.before,
           NEW p, IsPacket(p)
    PROVE  Watermark(c, p) = Greater(c.arbiter.before, p.end)
PROOF BY ClientNumbers, PacketNumbers DEF Watermark, Greater

\* A new account of a packet leaves the parts of the client coherent.
LEMMA PartsStayCoherent ==
    ASSUME NEW c, IsClient(c), Coherent(c), c.started, NEW p, IsPacket(p),
           NEW d, IsClient(d), d.started, d.session = c.session,
           d.held = c.held \/ Empty(d.held),
           d.tracker = c.tracker \/ Accounts(c.tracker, d.tracker, p)
    PROVE  Coherent(d)
PROOF
  <1>1. /\ c.tracker.expected \in Nat /\ c.tracker.missing \in SUBSET Nat
        /\ c.held.first \in Nat /\ c.held.end \in Nat
        /\ d.tracker.expected \in Nat /\ d.tracker.missing \in SUBSET Nat
    BY ClientNumbers
  <1>2. p.first \in Nat /\ p.end \in Nat /\ p.first <= p.end BY PacketNumbers
  <1>3. /\ c.tracker.started /\ c.tracker.session = c.session
        /\ \A n \in c.tracker.missing : n < c.tracker.expected
        /\ ~Empty(c.held) => /\ c.held.end <= c.tracker.expected
                             /\ \A n \in Numbers(c.held) : n \notin c.tracker.missing
    BY DEF Coherent
  <1>4. /\ d.tracker.started /\ d.tracker.session = d.session
        /\ d.tracker.expected >= c.tracker.expected
    BY <1>1, <1>2, <1>3 DEF Accounts, Greater
  <1>5. \A n \in d.tracker.missing : n < d.tracker.expected
    BY <1>1, <1>2, <1>3 DEF Accounts, Greater
  <1>6. \A n \in d.tracker.missing :
            n \in c.tracker.missing \/ n >= c.tracker.expected
    BY <1>1, <1>2 DEF Accounts
  <1>7. ASSUME ~Empty(d.held)
        PROVE  /\ d.held.end <= d.tracker.expected
               /\ \A n \in Numbers(d.held) : n \notin d.tracker.missing
    <2>1. d.held = c.held BY <1>7
    <2>2. d.held.end <= c.tracker.expected BY <1>3, <1>7, <2>1
    <2>3. \A n \in Numbers(d.held) : n \in Int /\ n < c.tracker.expected
      BY <1>1, <2>1, <2>2 DEF Numbers
    <2> QED BY <1>1, <1>3, <1>4, <1>6, <1>7, <2>1, <2>2, <2>3
  <1> QED BY <1>4, <1>5, <1>7 DEF Coherent

\* Buffering: the run goes on where it ends, or the client fails.
LEMMA HeldClient ==
    ASSUME NEW c, IsClient(c), NEW accepted \in Ranges,
           NEW d, d = HoldForReplay(c, accepted)
    PROVE  /\ IsClient(d)
           /\ \/ d.state = "failed"
              \/ /\ d.state = c.state /\ d.started = c.started
                 /\ d.session = c.session /\ d.delivered = c.delivered
                 /\ d.arbiter = c.arbiter /\ d.tracker = c.tracker
                 /\ IF Empty(accepted) THEN d.held = c.held
                    ELSE /\ ~Empty(d.held)
                         /\ IF Empty(c.held)
                            THEN d.held.first = accepted.first /\ d.held.end = accepted.end
                            ELSE /\ d.held.first = c.held.first
                                 /\ accepted.first <= c.held.end
                                 /\ d.held.end = Greater(c.held.end, accepted.end)
PROOF
  <1> DEFINE done == Appended(c.held, accepted)
             h == done.held
             e == [c EXCEPT !.held = h]
  <1>1. /\ c.held \in Ranges /\ c.held.first \in Nat /\ c.held.end \in Nat
        /\ accepted.first \in Nat /\ accepted.end \in Nat
        /\ BufferMessages \in Nat
    BY ClientNumbers, BufferAssumption DEF Ranges
  <1>2. h \in Ranges
    BY <1>1 DEF Appended, SequenceRange, Ranges, Greater, Lesser, Empty
  <1>3. ASSUME done.error = "ok", ~Empty(accepted)
        PROVE  /\ ~Empty(h)
               /\ IF Empty(c.held)
                  THEN h.first = accepted.first /\ h.end = accepted.end
                  ELSE /\ h.first = c.held.first
                       /\ accepted.first <= c.held.end
                       /\ h.end = Greater(c.held.end, accepted.end)
    BY <1>1, <1>3 DEF Appended, SequenceRange, Greater, Lesser, Empty
  <1>4. done.error = "ok" /\ Empty(accepted) => h = c.held BY DEF Appended
  <1>5. d = IF done.error = "ok" THEN e ELSE [e EXCEPT !.state = "failed"]
    BY DEF HoldForReplay, Fail
  <1> HIDE DEF done, h
  <1>6. /\ e \in ClientsWith(c.arbiter, c.entries)
        /\ e.state = c.state /\ e.started = c.started /\ e.session = c.session
        /\ e.delivered = c.delivered /\ e.arbiter = c.arbiter
        /\ e.tracker = c.tracker /\ e.entries = c.entries /\ e.held = h
    BY <1>2 DEF IsClient, ClientsWith
  <1> HIDE DEF e
  <1>7. IsClient(e) BY <1>6 DEF IsClient
  <1>8. CASE done.error = "ok"
    BY <1>3, <1>4, <1>5, <1>6, <1>7, <1>8
  <1>9. CASE done.error # "ok"
    <2>1. d = [e EXCEPT !.state = "failed"] BY <1>5, <1>9
    <2>2. /\ d \in ClientsWith(c.arbiter, c.entries) /\ d.state = "failed"
          /\ d.arbiter = c.arbiter /\ d.entries = c.entries
      BY <1>6, <2>1 DEF ClientsWith, States
    <2> QED BY <2>2 DEF IsClient
  <1> QED BY <1>8, <1>9

\* With nothing accepted there is nothing to buffer.
LEMMA HeldNothing ==
    ASSUME NEW c, IsClient(c)
    PROVE  HoldForReplay(c, NoRange) = c
PROOF
  <1>1. Empty(NoRange) BY DEF Empty, NoRange, SequenceRange
  <1>2. HoldForReplay(c, NoRange) = [c EXCEPT !.held = c.held]
    BY <1>1 DEF HoldForReplay, Appended
  <1> QED BY <1>2 DEF IsClient, ClientsWith

\* What the packet brings is new, or missing until now, and not both.
LEMMA NewOrRepaired ==
    ASSUME NEW c, IsClient(c), PartsAgree(c), NEW p, IsPacket(p),
           NEW done, TakesInSession(c, done, p)
    PROVE  Numbers(done.accepted) \cap done.recovered = {}
PROOF
  <1>1. /\ c.tracker.expected \in Nat /\ c.tracker.missing \in SUBSET Nat
        /\ c.arbiter.before \in Nat
    BY ClientNumbers
  <1>2. /\ \A n \in c.tracker.missing : n < c.tracker.expected
        /\ c.tracker.expected <= c.arbiter.before
    BY DEF PartsAgree, Coherent
  <1>3. \A n : n \in Numbers(done.accepted) =>
                n \in Numbers(p) /\ n >= c.arbiter.before
    BY <1>1, NovelNumbers DEF TakesInSession
  <1>4. \A n \in done.recovered : n \in Nat /\ n < c.arbiter.before
    BY <1>1, <1>2 DEF TakesInSession
  <1>5. \A n \in Numbers(p) : n \in Int BY PacketNumbers DEF Numbers
  <1> QED BY <1>1, <1>3, <1>4, <1>5

\* While it streams, what the client hands on keeps the application's account
\* and the tracker's the same.
LEMMA LivePacket ==
    ASSUME NEW c, IsClient(c), PartsAgree(c), NEW p, IsPacket(p),
           NEW done, TakesInSession(c, done, p),
           NEW had, NEW from, StreamsExactly(c, had, from),
           NEW fresh, fresh = Numbers(done.accepted)
    PROVE  StreamsExactly(done.client, had \cup (fresh \cup done.recovered), from)
PROOF
  <1> DEFINE d == done.client
             ex == c.tracker.expected
             old == c.tracker.missing
             f == p.first
             e == p.end
  <1>1. /\ ex \in Nat /\ old \in SUBSET Nat
        /\ f \in Nat /\ e \in Nat /\ f <= e /\ c.arbiter.before = ex
    BY ClientNumbers, PacketNumbers DEF StreamsExactly
  <1>2. /\ \A n \in old : n < ex /\ n >= from
        /\ from \in Nat /\ from <= ex
        /\ had = (from .. ex - 1) \ old
    BY DEF StreamsExactly, PartsAgree, Coherent
  <1>3. d.tracker.expected = Greater(ex, e) /\ d.arbiter.before = Greater(ex, e)
    BY <1>1, WatermarkInStep DEF TakesInSession, Accounts, PartsAgree
  <1>4. d.tracker.missing = (old \cup (ex .. f - 1)) \ (f .. e - 1)
    BY DEF TakesInSession, Accounts, Numbers
  <1>5. done.recovered = old \cap (f .. e - 1) BY DEF TakesInSession, Numbers
  <1>6. \A n : n \in fresh <=> n \in f .. e - 1 /\ n >= ex
    BY <1>1, NovelNumbers DEF TakesInSession, Numbers
  <1> HIDE DEF ex, old, f, e, d
  <1>7. ASSUME NEW n \in d.tracker.missing PROVE n >= from
    <2>1. n \in old \/ n \in ex .. f - 1 BY <1>4
    <2>2. CASE n \in old BY <1>2, <2>2
    <2>3. CASE n \in ex .. f - 1
      <3>1. n \in Int /\ n >= ex BY <1>1, <2>3
      <3> QED BY <1>1, <1>2, <3>1
    <2> QED BY <2>1, <2>2, <2>3
  <1>8. from <= d.tracker.expected BY <1>1, <1>2, <1>3 DEF Greater
  <1>9. had \cup (fresh \cup done.recovered)
            = (from .. d.tracker.expected - 1) \ d.tracker.missing
    BY <1>1, <1>2, <1>3, <1>4, <1>5, <1>6 DEF Greater
  <1> QED BY <1>2, <1>3, <1>7, <1>8, <1>9 DEF StreamsExactly, d

\* While it recovers, what is new goes on where the buffer ends, or the client
\* fails.
LEMMA RecoveringPacket ==
    ASSUME NEW c, IsClient(c), Coherent(c), c.started, c.state = "recovering",
           Empty(c.held) \/ c.held.end <= c.arbiter.before,
           NEW p, IsPacket(p), NEW done, TakesInSession(c, done, p),
           NEW e, e = HoldForReplay(done.client, done.accepted), e.state # "failed"
    PROVE  /\ IsClient(e) /\ Coherent(e) /\ e.state = "recovering"
           /\ e.started /\ e.session = c.session
           /\ e.arbiter.before = Watermark(c, p)
           /\ e.tracker.expected = Greater(c.tracker.expected, p.end)
           /\ Describable(c.tracker.missing) => Describable(e.tracker.missing)
           /\ e.delivered = c.delivered
           /\ Empty(done.accepted) => e.held = c.held
           /\ ~Empty(done.accepted) => ~Empty(e.held) /\ e.held.end >= p.end
PROOF
  <1> DEFINE d == done.client
             acc == done.accepted
             before == c.arbiter.before
             ex == c.tracker.expected
  <1>1. /\ IsClient(d) /\ d.started /\ d.session = c.session /\ d.state = "recovering"
        /\ d.held = c.held /\ Accounts(c.tracker, d.tracker, p)
        /\ d.delivered = c.delivered
        /\ Describable(c.tracker.missing) => Describable(d.tracker.missing)
        /\ d.arbiter.before = Watermark(c, p) /\ acc = Novel(before, p)
    BY DEF TakesInSession
  <1>2. /\ before \in Nat /\ ex \in Nat /\ c.tracker.missing \in SUBSET Nat
        /\ c.held.first \in Nat /\ c.held.end \in Nat
        /\ p.first \in Nat /\ p.end \in Nat /\ p.first <= p.end
    BY ClientNumbers, PacketNumbers
  <1>3. /\ \A n \in c.tracker.missing : n < ex
        /\ ~Empty(c.held) => /\ c.held.end <= ex /\ c.held.end <= before
                             /\ \A n \in Numbers(c.held) : n \notin c.tracker.missing
    BY DEF Coherent
  <1>4. d.tracker.expected = Greater(ex, p.end) BY <1>1 DEF Accounts
  <1>5. Coherent(d) BY <1>1, PartsStayCoherent
  <1>6. acc \in Ranges BY <1>1, <1>2, NovelIsARange
  <1>7. /\ IsClient(e) /\ e.state = d.state /\ e.started = d.started
        /\ e.session = d.session /\ e.delivered = d.delivered
        /\ e.arbiter = d.arbiter /\ e.tracker = d.tracker
        /\ IF Empty(acc) THEN e.held = d.held
           ELSE /\ ~Empty(e.held)
                /\ IF Empty(d.held)
                   THEN e.held.first = acc.first /\ e.held.end = acc.end
                   ELSE /\ e.held.first = d.held.first
                        /\ acc.first <= d.held.end
                        /\ e.held.end = Greater(d.held.end, acc.end)
    <2>1. e = HoldForReplay(d, acc) OBVIOUS
    <2> HIDE DEF d, acc
    <2>2. IsClient(d) /\ acc \in Ranges BY <1>1, <1>6
    <2> QED BY <2>1, <2>2, HeldClient
  <1>8. CASE Empty(acc)
    <2>1. Coherent(e) BY <1>5, <1>7, <1>8 DEF Coherent
    <2> QED BY <1>1, <1>4, <1>7, <1>8, <2>1
  <1>9. CASE ~Empty(acc)
    <2>1. /\ acc.end = p.end /\ acc.first >= before /\ acc.first >= p.first
          /\ p.end > before /\ acc.first \in Nat
      BY <1>1, <1>2, <1>9, NovelNumbers
    <2>2. e.held.end >= p.end /\ e.held.end <= d.tracker.expected
      BY <1>1, <1>2, <1>3, <1>4, <1>7, <1>9, <2>1 DEF Greater
    <2>3. \A n \in Numbers(e.held) : n \in Int /\ (n \in Numbers(c.held) \/ n \in Numbers(p))
      <3>1. CASE Empty(c.held)
        BY <1>1, <1>2, <1>7, <1>9, <2>1, <3>1 DEF Numbers
      <3>2. CASE ~Empty(c.held)
        <4>1. acc.first = c.held.end
          BY <1>1, <1>2, <1>3, <1>7, <1>9, <2>1, <3>2
        <4> QED BY <1>1, <1>2, <1>7, <1>9, <2>1, <3>2, <4>1 DEF Numbers, Greater
      <3> QED BY <3>1, <3>2
    <2>4. d.tracker.missing = (c.tracker.missing \cup (ex .. p.first - 1)) \ Numbers(p)
      BY <1>1 DEF Accounts
    <2>5. ASSUME NEW n \in Numbers(e.held) PROVE n \notin d.tracker.missing
      <3>1. n \in Int /\ (n \in Numbers(c.held) \/ n \in Numbers(p)) BY <2>3
      <3>2. CASE n \in Numbers(p) BY <2>4, <3>2
      <3>3. CASE n \in Numbers(c.held)
        <4>1. ~Empty(c.held) BY <1>2, <3>3 DEF Numbers, Empty
        <4>2. n < ex /\ n \notin c.tracker.missing
          BY <1>2, <1>3, <3>3, <4>1 DEF Numbers
        <4> QED BY <1>2, <2>4, <3>1, <4>2
      <3> QED BY <3>1, <3>2, <3>3
    <2>6. Coherent(e)
      <3>1. /\ e.started /\ e.tracker.started /\ e.tracker.session = e.session
            /\ \A n \in e.tracker.missing : n < e.tracker.expected
        BY <1>1, <1>5, <1>7 DEF Coherent
      <3> QED BY <1>7, <2>2, <2>5, <3>1 DEF Coherent
    <2> QED BY <1>1, <1>4, <1>7, <1>9, <2>2, <2>6
  <1> QED BY <1>8, <1>9

-----------------------------------------------------------------------------
(* Any packet, as the client's owner handles it.                             *)

LEMMA NoNumbers == Numbers(NoRange) = {} /\ Empty(NoRange) /\ NoRange \in Ranges
PROOF BY DEF Numbers, NoRange, SequenceRange, Empty, Ranges

\* The client after a packet, what the application has, and what was reported
\* as new and as repaired.
Received(e, had, from, both) ==
    /\ IsClient(e)
    /\ e.state # "failed" =>
        /\ PartsAgree(e) /\ StateAgrees(e)
        /\ e.session = feed.session /\ e.arbiter.before <= feed.next
        /\ captured # NoSnapshot /\ captured.session = feed.session =>
                Covers(captured.next, e)
        /\ e.state = "live" => StreamsExactly(e, had, from)
        /\ e.state # "replaying"
    /\ both = {}

\* What the owner does with the answer.
Handled(done) ==
    IF done.error = "ok" /\ done.client.state = "recovering"
    THEN HoldForReplay(done.client, done.accepted) ELSE done.client

HandedOn(done) ==
    IF done.client.state = "recovering" THEN {}
    ELSE Numbers(done.accepted) \cup done.recovered

\* What a packet may be: the surroundings send nothing that is not published,
\* and in the time in which a snapshot is awaited nothing the client has no
\* room for.
Arrives(p, done) ==
    /\ IsPacket(p) /\ p.end <= feed.next
    /\ AwaitsSnapshot /\ Empty(p) =>
            p.first <= client.tracker.expected /\ ~OtherSession(client, feed.session)
    /\ AwaitsSnapshot /\ ~Empty(p) => ~Overloaded(done)

LEMMA InSessionReceived ==
    ASSUME ClientInv, TakesPackets, client.started, feed.session = client.session,
           NEW p, NEW digest,
           NEW done, done = OnPacket(client, feed.session, p, digest), Arrives(p, done)
    PROVE  Received(Handled(done), have \cup HandedOn(done), base,
                    Numbers(done.accepted) \cap done.recovered)
PROOF
  <1> DEFINE c == client
             d == done.client
             e == Handled(done)
             before == c.arbiter.before
  <1>1. /\ IsClient(c) /\ PartsAgree(c) /\ StateAgrees(c) /\ WorldAgrees(c)
        /\ c.state \in {"live", "recovering"}
        /\ c.state = "live" => StreamsExactly(c, have, base)
        /\ captured \in [session : Nat, next : Nat]
    <2>1. c.state \in {"synchronising", "live", "recovering"}
      BY ClientNumbers DEF ClientInv, ClientTypes, TakesPackets, States
    <2>2. /\ IsClient(c) /\ PartsAgree(c) /\ StateAgrees(c) /\ WorldAgrees(c)
          /\ c.state = "live" => StreamsExactly(c, have, base)
          /\ captured \in [session : Nat, next : Nat]
      BY <2>1 DEF ClientInv, ClientTypes
    <2> QED BY <2>1, <2>2 DEF StateAgrees
  <1>2. /\ IsPacket(p) /\ p.end <= feed.next
        /\ AwaitsSnapshot /\ Empty(p) => p.first <= c.tracker.expected
        /\ AwaitsSnapshot /\ ~Empty(p) => ~Overloaded(done)
    BY DEF Arrives
  <1>3. /\ before \in Nat /\ c.tracker.expected \in Nat /\ c.delivered \in Nat
        /\ c.held.end \in Nat /\ p.first \in Nat /\ p.end \in Nat /\ p.first <= p.end
        /\ captured.next \in Nat /\ feed.next \in Nat
    BY <1>1, <1>2, ClientNumbers, PacketNumbers DEF ClientInv, ClientTypes
  <1>4. /\ c.tracker.expected <= before /\ before <= feed.next
        /\ captured # NoSnapshot /\ captured.session = feed.session =>
                Covers(captured.next, c)
    BY <1>1 DEF PartsAgree, Coherent, WorldAgrees
  <1>5. captured # NoSnapshot \/ c.state = "recovering" => AwaitsSnapshot
    BY DEF AwaitsSnapshot
  <1>6. \/ FailsOn(done) \/ IgnoresDuplicate(c, done, p)
        \/ GivesUpChasing(c, done, p) \/ TakesInSession(c, done, p)
    BY <1>1, <1>2, PacketInSession DEF PartsAgree
  <1>7. Greater(before, p.end) <= feed.next BY <1>2, <1>3, <1>4 DEF Greater
  <1>8. CASE FailsOn(done)
    <2>1. e = d /\ HandedOn(done) = {} BY <1>8, NoNumbers DEF FailsOn, Handled, HandedOn
    <2> QED BY <1>8, <2>1, NoNumbers DEF FailsOn, Received
  <1>9. CASE IgnoresDuplicate(c, done, p)
    <2>1. HandedOn(done) = {} /\ Numbers(done.accepted) \cap done.recovered = {}
      BY <1>9, NoNumbers DEF IgnoresDuplicate, HandedOn
    <2>2. /\ IsClient(d) /\ d.started /\ d.session = c.session /\ d.state = c.state
          /\ d.held = c.held /\ d.tracker = c.tracker /\ d.delivered = c.delivered
          /\ d.arbiter.before = before /\ done.error = "ok" /\ done.accepted = NoRange
      BY <1>9 DEF IgnoresDuplicate
    <2>3. CASE c.state = "live"
      <3>1. e = d BY <2>2, <2>3 DEF Handled
      <3>2. PartsAgree(d) /\ StateAgrees(d)
        BY <1>1, <2>2 DEF PartsAgree, Coherent, StateAgrees
      <3>3. StreamsExactly(d, have, base) BY <1>1, <2>2, <2>3 DEF StreamsExactly
      <3>4. captured # NoSnapshot /\ captured.session = feed.session =>
                Covers(captured.next, d)
        BY <1>4, <2>2 DEF Covers
      <3>5. have \cup HandedOn(done) = have BY <2>1
      <3> QED BY <1>4, <2>1, <2>2, <2>3, <3>1, <3>2, <3>3, <3>4, <3>5 DEF Received
    <2>4. CASE c.state = "recovering"
      <3>1. e = HoldForReplay(d, NoRange) BY <2>2, <2>4 DEF Handled
      <3>2. /\ IsClient(e)
            /\ \/ e.state = "failed"
               \/ /\ e.state = d.state /\ e.started = d.started
                  /\ e.session = d.session /\ e.delivered = d.delivered
                  /\ e.arbiter = d.arbiter /\ e.tracker = d.tracker
                  /\ e.held = d.held
        <4>1. IsClient(d) BY <2>2
        <4> HIDE DEF d, e
        <4>2. e = d BY <3>1, <4>1, HeldNothing
        <4> QED BY <4>1, <4>2
      <3>3. CASE e.state = "failed" BY <2>1, <3>2, <3>3 DEF Received
      <3>4. CASE e.state # "failed"
        <4>1. /\ e.state = "recovering" /\ e.started = c.started
              /\ e.session = c.session /\ e.delivered = c.delivered
              /\ e.arbiter.before = before /\ e.tracker = c.tracker /\ e.held = c.held
          BY <2>2, <2>4, <3>2, <3>4
        <4>2. PartsAgree(e) /\ StateAgrees(e)
          BY <1>1, <4>1 DEF PartsAgree, Coherent, StateAgrees
        <4>3. captured # NoSnapshot /\ captured.session = feed.session =>
                Covers(captured.next, e)
          BY <1>4, <4>1 DEF Covers
        <4> QED BY <1>4, <2>1, <3>2, <4>1, <4>2, <4>3 DEF Received
      <3> QED BY <3>3, <3>4
    <2> QED BY <1>1, <2>3, <2>4
  <1>10. CASE GivesUpChasing(c, done, p)
    <2>1. /\ done.error # "ok" /\ done.accepted = NoRange /\ done.recovered = {}
          /\ ~Empty(p) \/ p.first > c.tracker.expected
          /\ IsClient(d) /\ d.started /\ d.session = c.session
          /\ d.state = "recovering" /\ d.held = NoRange
          /\ d.tracker = c.tracker \/ Accounts(c.tracker, d.tracker, p)
          /\ Describable(d.tracker.missing)
          /\ d.arbiter.before <= Greater(before, p.end)
          /\ d.tracker.expected <= d.arbiter.before
      BY <1>1, <1>2, <1>4, <1>10, WatermarkInStep DEF GivesUpChasing, PartsAgree
    <2>2. e = d /\ HandedOn(done) = {} BY <2>1 DEF Handled, HandedOn
    <2>3. Overloaded(done) BY <2>1 DEF Overloaded
    <2>4. ~AwaitsSnapshot BY <1>2, <1>3, <2>1, <2>3
    <2>5. PartsAgree(d)
      BY <1>1, <1>2, <2>1, NoNumbers, PartsStayCoherent DEF PartsAgree
    <2>6. StateAgrees(d) BY <2>1 DEF StateAgrees
    <2>7. d.arbiter.before <= feed.next
      BY <1>3, <1>7, <2>1, ClientNumbers DEF Greater
    <2> QED BY <1>5, <2>1, <2>2, <2>4, <2>5, <2>6, <2>7, NoNumbers DEF Received
  <1>11. CASE TakesInSession(c, done, p)
    <2>1. Numbers(done.accepted) \cap done.recovered = {}
      BY <1>1, <1>2, <1>11, NewOrRepaired
    <2>2. /\ done.error = "ok" /\ IsClient(d) /\ d.started
          /\ d.session = c.session /\ d.state = c.state /\ d.held = c.held
          /\ Accounts(c.tracker, d.tracker, p) /\ Describable(d.tracker.missing)
          /\ d.arbiter.before = Greater(before, p.end)
          /\ done.accepted = Novel(before, p)
          /\ d.delivered = IF c.state = "recovering" THEN c.delivered
                           ELSE Greater(c.delivered, done.accepted.end)
      BY <1>1, <1>2, <1>4, <1>11, WatermarkInStep DEF TakesInSession, PartsAgree
    <2>3. /\ Empty(done.accepted) <=> Empty(p) \/ p.end <= before
          /\ ~Empty(done.accepted) => done.accepted.end = p.end
          /\ done.accepted.end \in Nat
      BY <1>2, <1>3, <2>2, NovelNumbers
    <2>4. captured # NoSnapshot => (Empty(p) => p.end <= before)
      BY <1>2, <1>3, <1>4, <1>5 DEF Empty
    <2>5. CASE c.state = "live"
      <3>1. e = d /\ HandedOn(done) = Numbers(done.accepted) \cup done.recovered
        BY <2>2, <2>5 DEF Handled, HandedOn
      <3>2. StreamsExactly(d, have \cup HandedOn(done), base)
        BY <1>1, <1>2, <1>11, <2>5, <3>1, LivePacket
      <3>3. PartsAgree(d)
        <4>1. d.tracker.expected <= d.arbiter.before
          BY <1>3, <1>4, <2>2 DEF Accounts, Greater
        <4> QED BY <1>1, <1>2, <2>2, <4>1, PartsStayCoherent DEF PartsAgree
      <3>4. StateAgrees(d) BY <1>1, <2>2, <2>5 DEF StateAgrees
      <3>5. ASSUME captured # NoSnapshot, captured.session = feed.session
            PROVE  Covers(captured.next, d)
        <4>1. Covers(captured.next, c) /\ (Empty(p) => p.end <= before)
          BY <1>4, <2>4, <3>5
        <4>2. d.delivered = Greater(c.delivered, done.accepted.end) BY <2>2, <2>5
        <4>3. CASE p.end <= before
          BY <1>3, <2>2, <2>3, <4>1, <4>2, <4>3 DEF Covers, Greater
        <4>4. CASE p.end > before
          <5>1. d.delivered >= p.end /\ d.arbiter.before = p.end
            BY <1>3, <2>2, <2>3, <4>1, <4>2, <4>4 DEF Greater
          <5> QED BY <5>1, <1>3 DEF Covers
        <4> QED BY <1>3, <4>3, <4>4
      <3> QED BY <1>7, <2>1, <2>2, <2>5, <3>1, <3>2, <3>3, <3>4, <3>5 DEF Received
    <2>6. CASE c.state = "recovering"
      <3>1. e = HoldForReplay(d, done.accepted) /\ HandedOn(done) = {}
        BY <2>2, <2>6 DEF Handled, HandedOn
      <3>2. IsClient(e)
        <4>1. done.accepted \in Ranges BY <1>2, <1>3, <2>2, NovelIsARange
        <4> HIDE DEF d, e
        <4> QED BY <2>2, <3>1, <4>1, HeldClient
      <3>3. CASE e.state = "failed" BY <2>1, <3>1, <3>2, <3>3 DEF Received
      <3>4. CASE e.state # "failed"
        <4>1. /\ PartsAgree(e) /\ e.state = "recovering"
              /\ e.started /\ e.session = c.session
              /\ e.arbiter.before = Greater(before, p.end)
              /\ e.delivered = c.delivered
              /\ Empty(done.accepted) => e.held = c.held
              /\ ~Empty(done.accepted) => ~Empty(e.held) /\ e.held.end >= p.end
          <5> HIDE DEF e
          <5>1. Coherent(c) /\ (Empty(c.held) \/ c.held.end <= before)
            BY <1>1, <1>3, <1>4 DEF PartsAgree, Coherent
          <5>2. /\ Coherent(e) /\ e.state = "recovering"
                /\ e.started /\ e.session = c.session
                /\ e.arbiter.before = Watermark(c, p)
                /\ e.tracker.expected = Greater(c.tracker.expected, p.end)
                /\ Describable(c.tracker.missing) => Describable(e.tracker.missing)
                /\ e.delivered = c.delivered
                /\ Empty(done.accepted) => e.held = c.held
                /\ ~Empty(done.accepted) => ~Empty(e.held) /\ e.held.end >= p.end
            BY <1>1, <1>2, <1>11, <2>6, <3>1, <3>4, <5>1, RecoveringPacket
          <5>3. e.arbiter.before = Greater(before, p.end)
            BY <1>1, <1>2, <1>4, <5>2, WatermarkInStep
          <5>4. e.tracker.expected <= e.arbiter.before
            BY <1>3, <1>4, <5>2, <5>3 DEF Greater
          <5> QED BY <1>1, <5>2, <5>3, <5>4 DEF PartsAgree
        <4>2. StateAgrees(e) BY <4>1 DEF StateAgrees
        <4>3. ASSUME captured # NoSnapshot, captured.session = feed.session
              PROVE  Covers(captured.next, e)
          <5>1. Covers(captured.next, c) /\ (Empty(p) => p.end <= before)
            BY <1>4, <2>4, <4>3
          <5>2. CASE p.end <= before
            <6>1. e.arbiter.before = before /\ e.held = c.held
              BY <1>3, <2>3, <4>1, <5>2 DEF Greater
            <6> QED BY <4>1, <5>1, <6>1 DEF Covers
          <5>3. CASE p.end > before
            <6>1. e.arbiter.before = p.end /\ ~Empty(e.held) /\ e.held.end >= p.end
              BY <1>3, <2>3, <4>1, <5>1, <5>3 DEF Greater
            <6> QED BY <6>1 DEF Covers
          <5> QED BY <1>3, <5>2, <5>3
        <4> QED BY <1>7, <2>1, <3>1, <3>2, <4>1, <4>2, <4>3 DEF Received
      <3> QED BY <3>3, <3>4
    <2> QED BY <1>1, <2>5, <2>6
  <1> QED BY <1>6, <1>8, <1>9, <1>10, <1>11

LEMMA BeginningReceived ==
    ASSUME ClientInv, TakesPackets, ~client.started \/ feed.session # client.session,
           NEW p, NEW digest,
           NEW done, done = OnPacket(client, feed.session, p, digest), Arrives(p, done)
    PROVE  Received(Handled(done), HandedOn(done), p.first,
                    Numbers(done.accepted) \cap done.recovered)
PROOF
  <1> DEFINE c == client
             d == done.client
             e == Handled(done)
             s == feed.session
  <1>1. /\ IsClient(c) /\ PartsAgree(c) /\ StateAgrees(c)
        /\ c.state \in {"synchronising", "live", "recovering"}
        /\ c.state = "live" => c.started
    <2>1. c.state \in {"synchronising", "live", "recovering"}
      BY ClientNumbers DEF ClientInv, ClientTypes, TakesPackets, States
    <2>2. IsClient(c) /\ PartsAgree(c) /\ StateAgrees(c)
      BY <2>1 DEF ClientInv, ClientTypes
    <2> QED BY <2>1, <2>2 DEF StateAgrees
  <1>2. /\ IsPacket(p) /\ p.end <= feed.next
        /\ AwaitsSnapshot /\ Empty(p) =>
                p.first <= c.tracker.expected /\ ~OtherSession(c, s)
    BY DEF Arrives
  <1>3. /\ p.first \in Nat /\ p.end \in Nat /\ p.first <= p.end /\ p.first > 0
        /\ captured.next \in Nat /\ feed.next \in Nat /\ s \in Nat
    BY <1>2, PacketNumbers DEF ClientInv, ClientTypes
  <1>4. captured # NoSnapshot \/ c.state = "recovering" => AwaitsSnapshot
    BY DEF AwaitsSnapshot
  <1>5. AwaitsSnapshot => ~Empty(p)
    <2>1. ~c.started => c.tracker.expected = 0 BY <1>1 DEF PartsAgree, Coherent
    <2>2. c.started => OtherSession(c, s) BY DEF OtherSession
    <2> QED BY <1>2, <1>3, <2>1, <2>2
  <1>6. FailsOn(done) \/ BeginsWith(c, done, s, p)
    BY <1>1, <1>2, <1>3, PacketBegins DEF PartsAgree
  <1>7. CASE FailsOn(done)
    <2>1. e = d /\ HandedOn(done) = {} BY <1>7, NoNumbers DEF FailsOn, Handled, HandedOn
    <2> QED BY <1>7, <2>1, NoNumbers DEF FailsOn, Received
  <1>8. CASE BeginsWith(c, done, s, p)
    <2>1. /\ done.error = "ok" /\ done.recovered = {}
          /\ done.accepted = Novel(0, p)
          /\ IsClient(d) /\ d.started /\ d.session = s
          /\ d.tracker = Established(s, p.end) /\ d.arbiter.before = p.end
          /\ Empty(d.held)
          /\ d.state = IF c.started \/ c.state = "synchronising" THEN "live"
                       ELSE "recovering"
          /\ d.delivered = IF d.state = "recovering" THEN 0 ELSE done.accepted.end
      BY <1>8 DEF BeginsWith
    <2>2. /\ Empty(done.accepted) <=> Empty(p)
          /\ ~Empty(done.accepted) => done.accepted.end = p.end
          /\ Numbers(done.accepted) = p.first .. p.end - 1
      <3>1. /\ \A n : n \in Numbers(Novel(0, p)) <=> n \in Numbers(p) /\ n >= 0
            /\ Empty(Novel(0, p)) <=> Empty(p) \/ p.end <= 0
            /\ ~Empty(Novel(0, p)) => Novel(0, p).end = p.end
        BY <1>2, NovelNumbers
      <3>2. \A n \in Numbers(p) : n >= 0 BY <1>3 DEF Numbers
      <3>3. Numbers(Novel(0, p)) = Numbers(p) BY <3>1, <3>2
      <3> QED BY <1>3, <2>1, <3>1, <3>3 DEF Numbers
    <2>3. /\ d.tracker.started /\ d.tracker.session = s /\ d.tracker.missing = {}
          /\ d.tracker.expected = p.end
      BY <2>1 DEF Established
    <2>4. Describable({})
      <3>1. {n \in {} : n - 1 \notin {}} = {} OBVIOUS
      <3>2. Holes({}) = 0 BY <3>1, FS_EmptySet DEF Holes
      <3> QED BY <3>2, HoleSetAssumption DEF Describable
    <2>5. PartsAgree(d) BY <1>3, <2>1, <2>3, <2>4 DEF PartsAgree, Coherent
    <2>6. Numbers(done.accepted) \cap done.recovered = {} BY <2>1
    <2>7. CASE d.state = "live"
      <3>1. e = d /\ HandedOn(done) = p.first .. p.end - 1
        BY <2>1, <2>2, <2>7 DEF Handled, HandedOn
      <3>2. StreamsExactly(d, HandedOn(done), p.first)
        BY <1>3, <2>1, <2>3, <3>1 DEF StreamsExactly
      <3>3. captured # NoSnapshot => Covers(captured.next, d)
        BY <1>3, <1>4, <1>5, <2>1, <2>2, <2>7 DEF Covers
      <3>4. StateAgrees(d) BY <2>1, <2>7 DEF StateAgrees
      <3> QED BY <1>2, <2>1, <2>5, <2>6, <2>7, <3>1, <3>2, <3>3, <3>4 DEF Received
    <2>8. CASE d.state = "recovering"
      <3>1. e = HoldForReplay(d, done.accepted) /\ HandedOn(done) = {}
        BY <2>1, <2>8 DEF Handled, HandedOn
      <3>2. ~Empty(done.accepted) /\ done.accepted.end = p.end
        BY <1>1, <1>4, <1>5, <2>1, <2>2, <2>8
      <3>3. done.accepted \in Ranges BY <1>2, <2>1, NovelIsARange
      <3>4. /\ IsClient(e)
            /\ \/ e.state = "failed"
               \/ /\ e.state = d.state /\ e.started = d.started
                  /\ e.session = d.session /\ e.delivered = d.delivered
                  /\ e.arbiter = d.arbiter /\ e.tracker = d.tracker
                  /\ ~Empty(e.held) /\ e.held.end = done.accepted.end
        <4>1. IsClient(d) /\ Empty(d.held) BY <2>1
        <4> HIDE DEF d, e
        <4> QED BY <3>1, <3>2, <3>3, <4>1, HeldClient
      <3>5. CASE e.state = "failed" BY <2>6, <3>4, <3>5 DEF Received
      <3>6. CASE e.state # "failed"
        <4>1. /\ e.state = "recovering" /\ e.started /\ e.session = s
              /\ e.arbiter.before = p.end /\ e.tracker = d.tracker
              /\ ~Empty(e.held) /\ e.held.end = p.end
          BY <2>1, <2>8, <3>2, <3>4, <3>6
        <4>2. PartsAgree(e)
          <5>1. /\ e.tracker.started /\ e.tracker.session = e.session
                /\ e.tracker.missing = {} /\ e.tracker.expected = p.end
            BY <2>3, <4>1
          <5> HIDE DEF e
          <5> QED BY <1>3, <2>4, <4>1, <5>1 DEF PartsAgree, Coherent
        <4>3. StateAgrees(e) BY <4>1 DEF StateAgrees
        <4>4. Covers(captured.next, e) BY <1>3, <4>1 DEF Covers
        <4> QED BY <1>2, <2>6, <3>1, <3>4, <4>1, <4>2, <4>3, <4>4 DEF Received
      <3> QED BY <3>5, <3>6
    <2> QED BY <2>1, <2>7, <2>8
  <1> QED BY <1>6, <1>7, <1>8

LEMMA ReceiveKeeps ==
    ASSUME ClientInv, NEW p, NEW digest, Receive(feed.session, p, digest),
           Arrives(p, OnPacket(client, feed.session, p, digest))
    PROVE  ClientInv'
PROOF
  <1> DEFINE done == OnPacket(client, feed.session, p, digest)
             renewed == OtherSession(client, feed.session) \/ ~client.started
             had == IF renewed THEN {} ELSE have
  <1>1. /\ TakesPackets /\ client' = Handled(done)
        /\ have' = had \cup HandedOn(done)
        /\ base' = IF renewed THEN p.first ELSE base
        /\ report' = [NoReport EXCEPT !.again = HandedOn(done) \cap had,
                                      !.both = Numbers(done.accepted) \cap done.recovered]
        /\ UNCHANGED <<feed, captured, requests>>
    BY DEF Receive, Handled, HandedOn
  <1> HIDE DEF done
  <1>2. report'.both = Numbers(done.accepted) \cap done.recovered
    BY <1>1 DEF NoReport
  <1>3. Received(client', have', base', report'.both)
    <2>1. CASE renewed
      <3>1. have' = HandedOn(done) /\ base' = p.first
        BY <1>1, <1>2, <2>1
      <3>2. ~client.started \/ feed.session # client.session
        BY <2>1 DEF OtherSession
      <3>3. Received(Handled(done), HandedOn(done), p.first,
                     Numbers(done.accepted) \cap done.recovered)
        BY <1>1, <3>2, BeginningReceived DEF done
      <3> QED BY <1>1, <1>2, <3>1, <3>3
    <2>2. CASE ~renewed
      <3>1. have' = have \cup HandedOn(done) /\ base' = base
        BY <1>1, <1>2, <2>2
      <3>2. client.started /\ feed.session = client.session
        BY <2>2 DEF OtherSession
      <3>3. Received(Handled(done), have \cup HandedOn(done), base,
                     Numbers(done.accepted) \cap done.recovered)
        BY <1>1, <3>2, InSessionReceived DEF done
      <3> QED BY <1>1, <1>2, <3>1, <3>3
    <2> QED BY <2>1, <2>2
  <1>4. /\ IsClient(client')
        /\ client'.state # "failed" =>
            /\ PartsAgree(client') /\ StateAgrees(client')
            /\ client'.session = feed.session /\ client'.arbiter.before <= feed.next
            /\ captured # NoSnapshot /\ captured.session = feed.session =>
                    Covers(captured.next, client')
            /\ client'.state = "live" => StreamsExactly(client', have', base')
            /\ client'.state # "replaying"
        /\ report'.both = {}
    BY <1>3 DEF Received
  <1>5. ClientTypes' BY <1>1, <1>4 DEF ClientInv, ClientTypes
  <1>6. ASSUME client'.state # "failed" PROVE WorldAgrees(client)'
    <2>1. client.state # "failed" BY <1>1 DEF TakesPackets
    <2>2. /\ captured.session <= feed.session
          /\ captured # NoSnapshot /\ captured.session = feed.session =>
                    captured.next <= feed.next
          /\ feed.session \in Nat
      BY <2>1 DEF ClientInv, ClientTypes, WorldAgrees
    <2> QED BY <1>1, <1>4, <1>6, <2>2 DEF WorldAgrees
  <1> QED
    BY <1>1, <1>4, <1>5, <1>6
    DEF ClientInv, AcceptedOrRecovered

-----------------------------------------------------------------------------
(* The actions of the surroundings that bring packets, refuse requests and   *)
(* start sessions.                                                           *)

\* A snapshot is of the moment it is asked for, and while one is awaited none
\* of the first three kinds of events of Adverse takes place.
Prompt == Staleness = 0 /\ Adverse \subseteq {"snapshot"}

LEMMA PromptMeans ==
    ASSUME Prompt
    PROVE  /\ "overload" \notin Adverse /\ "heartbeat" \notin Adverse
           /\ "refusal" \notin Adverse
PROOF BY DEF Prompt

LEMMA DatagramKeeps ==
    ASSUME Prompt, ClientInv, Datagram
    PROVE  ClientInv'
PROOF
  <1>1. feed.next \in Nat \ {0} BY DEF ClientInv, ClientTypes
  <1>2. PICK f \in 1 .. feed.next - 1, n \in 1 .. MaxPacket, d \in Digest :
            /\ f + n <= feed.next
            /\ AwaitsSnapshot
                 /\ Overloaded(OnPacket(client, feed.session, SequenceRange(f, f + n), d))
               => "overload" \in Adverse
            /\ Receive(feed.session, SequenceRange(f, f + n), d)
    BY DEF Datagram
  <1> DEFINE p == SequenceRange(f, f + n)
  <1>3. f \in Nat /\ n \in Nat /\ f > 0 /\ n > 0 BY <1>1, ClientAssumption
  <1>4. IsPacket(p) /\ ~Empty(p) /\ p.end <= feed.next
    BY <1>2, <1>3 DEF IsPacket, Ranges, SequenceRange, Empty
  <1>5. Receive(feed.session, p, d) BY <1>2
  <1>6. AwaitsSnapshot => ~Overloaded(OnPacket(client, feed.session, p, d))
    BY <1>2, PromptMeans
  <1> HIDE DEF p
  <1>7. Arrives(p, OnPacket(client, feed.session, p, d)) BY <1>4, <1>6 DEF Arrives
  <1> QED BY <1>5, <1>7, ReceiveKeeps

LEMMA HeartbeatKeeps ==
    ASSUME Prompt, ClientInv, Heartbeat
    PROVE  ClientInv'
PROOF
  <1>1. feed.next \in Nat \ {0} BY DEF ClientInv, ClientTypes
  <1>2. PICK f \in 1 .. feed.next :
            /\ AwaitsSnapshot
                 /\ (f > client.tracker.expected \/ OtherSession(client, feed.session))
               => "heartbeat" \in Adverse
            /\ Receive(feed.session, SequenceRange(f, f), 0)
    BY DEF Heartbeat
  <1> DEFINE p == SequenceRange(f, f)
  <1>3. f \in Nat /\ f > 0 /\ f <= feed.next BY <1>1
  <1>4. /\ IsPacket(p) /\ Empty(p) /\ p.first = f /\ p.end <= feed.next
    BY <1>3 DEF IsPacket, Ranges, SequenceRange, Empty
  <1>5. Receive(feed.session, p, 0) BY <1>2
  <1>6. AwaitsSnapshot =>
            ~(f > client.tracker.expected) /\ ~OtherSession(client, feed.session)
    BY <1>2, PromptMeans
  <1>7. client.tracker.expected \in Nat BY ClientNumbers DEF ClientInv, ClientTypes
  <1>8. AwaitsSnapshot => p.first <= client.tracker.expected
    BY <1>3, <1>4, <1>6, <1>7
  <1> HIDE DEF p
  <1>9. Arrives(p, OnPacket(client, feed.session, p, 0))
    BY <1>4, <1>6, <1>8 DEF Arrives
  <1> QED BY <1>5, <1>9, ReceiveKeeps

\* What the invariant says of the client depends on these of its parts.
LEMMA SameClient ==
    ASSUME NEW c, NEW d, d.state = c.state, d.started = c.started,
           d.session = c.session, d.delivered = c.delivered, d.arbiter = c.arbiter,
           d.tracker = c.tracker, d.held = c.held
    PROVE  /\ PartsAgree(c) => PartsAgree(d)
           /\ StateAgrees(c) => StateAgrees(d)
           /\ WorldAgrees(c) => WorldAgrees(d)
           /\ \A had, from : StreamsExactly(c, had, from) => StreamsExactly(d, had, from)
           /\ \A had, from : ReplaysExactly(c, had, from) => ReplaysExactly(d, had, from)
PROOF
  BY DEF PartsAgree, Coherent, StateAgrees, WorldAgrees, StreamsExactly, ReplaysExactly, Covers

LEMMA OtherEntries ==
    ASSUME NEW c, IsClient(c), NEW es, NEW d, d = [c EXCEPT !.entries = es]
    PROVE  /\ IsClient(d)
           /\ d.state = c.state /\ d.started = c.started /\ d.session = c.session
           /\ d.delivered = c.delivered /\ d.arbiter = c.arbiter
           /\ d.tracker = c.tracker /\ d.held = c.held
PROOF
  <1>1. /\ d \in ClientsWith(c.arbiter, es)
        /\ d.state = c.state /\ d.started = c.started /\ d.session = c.session
        /\ d.delivered = c.delivered /\ d.arbiter = c.arbiter
        /\ d.tracker = c.tracker /\ d.entries = es /\ d.held = c.held
    BY DEF IsClient, ClientsWith
  <1> QED BY <1>1 DEF IsClient

\* On the way to a snapshot all stays in agreement, except that the buffer no
\* longer speaks for the snapshot.
LEMMA EscalatedAgrees ==
    ASSUME NEW c, IsClient(c), PartsAgree(c), NEW d, Escalated(c, d)
    PROVE  /\ PartsAgree(d) /\ StateAgrees(d)
           /\ \A next : Empty(c.held) /\ Covers(next, c) => Covers(next, d)
PROOF
  <1>1. Empty(d.held) BY NoNumbers DEF Escalated
  <1> QED BY <1>1 DEF Escalated, PartsAgree, Coherent, StateAgrees, Covers

LEMMA NothingWrong == NoReport.again = {} /\ NoReport.both = {}
PROOF BY DEF NoReport

LEMMA RefusalKeeps ==
    ASSUME Prompt, ClientInv, Refusal
    PROVE  ClientInv'
PROOF
  <1>1. PICK fatal \in BOOLEAN : (AwaitsSnapshot => "refusal" \in Adverse) /\ Refused(fatal)
    BY DEF Refusal
  <1>2. captured = NoSnapshot BY <1>1, PromptMeans DEF AwaitsSnapshot
  <1>3. /\ client' = IF client.state # "failed" /\ fatal THEN Escalate(client) ELSE client
        /\ report' = NoReport
        /\ UNCHANGED <<feed, captured, have, base>>
    BY <1>1 DEF Refused
  <1>4. CASE client.state # "failed" /\ fatal
    <2>1. /\ IsClient(client) /\ PartsAgree(client) /\ WorldAgrees(client)
      BY <1>4 DEF ClientInv, ClientTypes
    <2>2. Escalated(client, client') BY <1>3, <1>4, <2>1, EscalatedAsItIs
    <2>3. PartsAgree(client') /\ StateAgrees(client') BY <2>1, <2>2, EscalatedAgrees
    <2>4. WorldAgrees(client)'
      BY <1>2, <1>3, <2>1, <2>2 DEF WorldAgrees, Escalated
    <2>5. ClientTypes' BY <1>3, <2>2 DEF ClientInv, ClientTypes, Escalated
    <2> QED
      BY <1>3, <2>2, <2>3, <2>4, <2>5, NothingWrong
      DEF ClientInv, Escalated, AcceptedOrRecovered
  <1>5. CASE ~(client.state # "failed" /\ fatal)
    <2>1. client' = client BY <1>3, <1>5
    <2>2. ClientTypes' BY <1>3, <2>1 DEF ClientInv, ClientTypes
    <2>3. WorldAgrees(client) => WorldAgrees(client)' BY <1>3, <2>1 DEF WorldAgrees
    <2> QED
      BY <1>3, <2>1, <2>2, <2>3, NothingWrong
      DEF ClientInv, AcceptedOrRecovered
  <1> QED BY <1>4, <1>5

LEMMA PublishKeeps ==
    ASSUME ClientInv, Publish
    PROVE  ClientInv'
PROOF
  <1>1. feed' = [feed EXCEPT !.next = @ + 1] /\ feed \in [session : Nat \ {0}, next : Nat \ {0}]
    BY DEF Publish, ClientInv, ClientTypes
  <1>2. /\ feed' \in [session : Nat \ {0}, next : Nat \ {0}]
        /\ feed'.session = feed.session /\ feed'.next = feed.next + 1
        /\ feed.next \in Nat
    BY <1>1
  <1>3. UNCHANGED <<client, captured, requests, have, base, report>> BY DEF Publish
  <1>4. ClientTypes' BY <1>2, <1>3 DEF ClientInv, ClientTypes
  <1>5. WorldAgrees(client) => WorldAgrees(client)'
    <2>1. client.arbiter.before \in Nat /\ captured.next \in Nat
      BY ClientNumbers DEF ClientInv, ClientTypes
    <2> QED BY <1>2, <1>3, <2>1 DEF WorldAgrees
  <1> QED BY <1>3, <1>4, <1>5 DEF ClientInv, AcceptedOrRecovered

LEMMA NewSessionKeeps ==
    ASSUME ClientInv, NewSession
    PROVE  ClientInv'
PROOF
  <1>1. /\ feed' = [session |-> feed.session + 1, next |-> 1]
        /\ captured' \in {captured, NoSnapshot}
        /\ UNCHANGED <<client, have, base, report>>
        /\ feed \in [session : Nat \ {0}, next : Nat \ {0}]
    BY DEF NewSession, ClientInv, ClientTypes
  <1>2. /\ feed' \in [session : Nat \ {0}, next : Nat \ {0}]
        /\ feed'.session = feed.session + 1 /\ feed'.next = 1
        /\ feed.session \in Nat
    BY <1>1
  <1>3. NoSnapshot \in [session : Nat, next : Nat] /\ NoSnapshot.session = 0
    BY DEF NoSnapshot
  <1>4. ClientTypes' BY <1>1, <1>2, <1>3 DEF ClientInv, ClientTypes
  <1>5. client.state # "failed" => WorldAgrees(client)'
    <2> SUFFICES ASSUME client.state # "failed" PROVE WorldAgrees(client)' OBVIOUS
    <2>1. /\ client.session \in Nat /\ client.arbiter.before \in Nat
          /\ captured.session \in Nat
      BY ClientNumbers DEF ClientInv, ClientTypes
    <2>2. WorldAgrees(client) /\ PartsAgree(client) BY DEF ClientInv
    <2>3. ~client.started => client.arbiter.before = 0 BY <2>2 DEF PartsAgree, Coherent
    <2>4. client.started => client.session # feed.session + 1
      BY <1>2, <2>1, <2>2 DEF WorldAgrees
    <2>5. captured'.session <= feed.session /\ captured'.session \in Nat
      BY <1>1, <1>2, <1>3, <2>1, <2>2 DEF WorldAgrees
    <2>6. client'.session = feed'.session => client'.arbiter.before <= feed'.next
      BY <1>1, <1>2, <2>3, <2>4
    <2>7. client'.started => client'.session <= feed'.session
      BY <1>1, <1>2, <2>1, <2>2 DEF WorldAgrees
    <2>8. captured'.session <= feed'.session /\ captured'.session # feed'.session
      BY <1>2, <2>5
    <2>9. captured' # NoSnapshot /\ client'.started /\ captured'.session = client'.session =>
                Covers(captured'.next, client')
      BY <1>1, <2>2 DEF WorldAgrees
    <2> QED BY <2>6, <2>7, <2>8, <2>9 DEF WorldAgrees
  <1>6. captured = NoSnapshot => captured' = NoSnapshot BY <1>1
  <1> QED BY <1>1, <1>4, <1>5, <1>6 DEF ClientInv, AcceptedOrRecovered

LEMMA TickKeeps ==
    ASSUME ClientInv, Tick
    PROVE  ClientInv'
PROOF
  <1>1. /\ client' = [client EXCEPT !.entries = Aged(client.entries)]
        /\ report' = NoReport
        /\ UNCHANGED <<feed, captured, requests, have, base>>
    BY DEF Tick
  <1>2. IsClient(client) BY DEF ClientInv, ClientTypes
  <1>3. /\ IsClient(client')
        /\ client'.state = client.state /\ client'.started = client.started
        /\ client'.session = client.session /\ client'.delivered = client.delivered
        /\ client'.arbiter = client.arbiter /\ client'.tracker = client.tracker
        /\ client'.held = client.held
    BY <1>1, <1>2, OtherEntries
  <1>4. ClientTypes' BY <1>1, <1>3 DEF ClientInv, ClientTypes
  <1>5. /\ PartsAgree(client) => PartsAgree(client')
        /\ StateAgrees(client) => StateAgrees(client')
        /\ WorldAgrees(client) => WorldAgrees(client')
        /\ StreamsExactly(client, have, base) => StreamsExactly(client', have, base)
        /\ ReplaysExactly(client, have, base) => ReplaysExactly(client', have, base)
    BY <1>3, SameClient
  <1>6. WorldAgrees(client') => WorldAgrees(client)' BY <1>1 DEF WorldAgrees
  <1> QED
    BY <1>1, <1>3, <1>4, <1>5, <1>6, NothingWrong
    DEF ClientInv, AcceptedOrRecovered

-----------------------------------------------------------------------------
(* Snapshots: asked for, applied, and what was buffered replayed.            *)

\* A snapshot asked for now reaches as far as the feed has come.
LEMMA SnapshotRequested ==
    ASSUME Prompt, ClientTypes, RequestSnapshot
    PROVE  \/ captured' = captured
           \/ /\ captured'.session = feed.session /\ captured'.next = feed.next
              /\ captured' \in [session : Nat, next : Nat] /\ captured'.next > 0
PROOF
  <1>1. feed.next \in Nat \ {0} /\ feed.session \in Nat /\ Staleness = 0
    BY DEF ClientTypes, Prompt
  <1>2. CASE captured # NoSnapshot \/ feed.next = 1
    BY <1>2 DEF RequestSnapshot
  <1>3. CASE ~(captured # NoSnapshot \/ feed.next = 1)
    <2>1. captured' = [session |-> feed.session,
                       next |-> IF Staleness >= feed.next THEN 1
                                ELSE feed.next - Staleness]
      BY <1>3 DEF RequestSnapshot
    <2>2. captured' = [session |-> feed.session, next |-> feed.next]
      BY <1>1, <2>1
    <2> QED BY <1>1, <2>2
  <1> QED BY <1>2, <1>3

\* It covers any client that agrees with the feed.
LEMMA WorldStaysAgreed ==
    ASSUME Prompt, ClientTypes, RequestSnapshot, UNCHANGED feed,
           NEW c, WorldAgrees(c),
           NEW d, d.started = c.started, d.session = c.session,
           d.arbiter = c.arbiter, d.arbiter.before \in Nat,
           Covers(captured.next, c) => Covers(captured.next, d)
    PROVE  /\ ClientTypes => captured' \in [session : Nat, next : Nat]
           /\ captured' # NoSnapshot => captured'.next > 0
           /\ d.started => d.session <= feed'.session
           /\ d.session = feed'.session => d.arbiter.before <= feed'.next
           /\ captured'.session <= feed'.session
           /\ captured' # NoSnapshot /\ d.started /\ captured'.session = d.session =>
                    Covers(captured'.next, d)
           /\ captured' # NoSnapshot /\ captured'.session = feed'.session =>
                    captured'.next <= feed'.next
PROOF
  <1>1. /\ captured \in [session : Nat, next : Nat]
        /\ captured # NoSnapshot => captured.next > 0
        /\ feed.session \in Nat /\ feed.next \in Nat /\ feed' = feed
    BY DEF ClientTypes
  <1>2. /\ d.started => d.session <= feed.session
        /\ d.session = feed.session => d.arbiter.before <= feed.next
        /\ captured.session <= feed.session
        /\ captured # NoSnapshot /\ d.started /\ captured.session = d.session =>
                 Covers(captured.next, d)
        /\ captured # NoSnapshot /\ captured.session = feed.session =>
                 captured.next <= feed.next
    BY DEF WorldAgrees
  <1>3. CASE captured' = captured BY <1>1, <1>2, <1>3
  <1>4. CASE /\ captured'.session = feed.session /\ captured'.next = feed.next
             /\ captured' \in [session : Nat, next : Nat] /\ captured'.next > 0
    <2>1. captured'.session = d.session => Covers(captured'.next, d)
      BY <1>2, <1>4 DEF Covers
    <2> QED BY <1>1, <1>2, <1>4, <2>1
  <1> QED BY <1>3, <1>4, SnapshotRequested

LEMMA ColdSnapshotKeeps ==
    ASSUME Prompt, ClientInv, ColdSnapshot
    PROVE  ClientInv'
PROOF
  <1>1. /\ ~client.started /\ RequestSnapshot
        /\ UNCHANGED <<client, feed, requests, have, base, report>>
    BY DEF ColdSnapshot
  <1>2. ClientTypes /\ client.arbiter.before \in Nat
    BY ClientNumbers DEF ClientInv, ClientTypes
  <1>3. ClientTypes'
    <2>1. captured' \in [session : Nat, next : Nat]
          /\ (captured' # NoSnapshot => captured'.next > 0)
      BY <1>1, <1>2, SnapshotRequested DEF ClientTypes
    <2> QED BY <1>1, <1>2, <2>1 DEF ClientTypes
  <1>4. ASSUME client.state # "failed" PROVE WorldAgrees(client)'
    <2>1. WorldAgrees(client) BY <1>4 DEF ClientInv
    <2>2. /\ client.started => client.session <= feed'.session
          /\ client.session = feed'.session => client.arbiter.before <= feed'.next
          /\ captured'.session <= feed'.session
          /\ captured' # NoSnapshot /\ client.started /\ captured'.session = client.session =>
                   Covers(captured'.next, client)
          /\ captured' # NoSnapshot /\ captured'.session = feed'.session =>
                   captured'.next <= feed'.next
      BY <1>1, <1>2, <2>1, WorldStaysAgreed
    <2> QED BY <1>1, <2>2 DEF WorldAgrees
  <1>5. client.state # "failed" => client.state # "replaying"
    BY <1>1 DEF ClientInv, StateAgrees
  <1> QED
    BY <1>1, <1>3, <1>4, <1>5 DEF ClientInv, AcceptedOrRecovered

LEMMA PollKeeps ==
    ASSUME Prompt, ClientInv, Poll
    PROVE  ClientInv'
PROOF
  <1> DEFINE next == Decide(client.entries)
             c == [client EXCEPT !.entries = next.entries]
  <1>1. /\ client.state \notin {"failed", "replaying"}
        /\ report' = NoReport /\ UNCHANGED <<feed, have, base>>
    BY DEF Poll
  <1>2. /\ ClientTypes /\ IsClient(client) /\ PartsAgree(client) /\ StateAgrees(client)
        /\ WorldAgrees(client)
        /\ client.state = "live" => StreamsExactly(client, have, base)
    BY <1>1 DEF ClientInv, ClientTypes
  <1>3. \/ client.state = "recovering" /\ client' = client /\ RequestSnapshot
        \/ client.state # "recovering" /\ client' = c /\ captured' = captured
        \/ client.state # "recovering" /\ client' = Escalate(c) /\ RequestSnapshot
    BY <1>1 DEF Poll
  <1> HIDE DEF next
  <1>4. /\ IsClient(c)
        /\ c.state = client.state /\ c.started = client.started
        /\ c.session = client.session /\ c.delivered = client.delivered
        /\ c.arbiter = client.arbiter /\ c.tracker = client.tracker
        /\ c.held = client.held
    <2>1. c = [client EXCEPT !.entries = next.entries] OBVIOUS
    <2> HIDE DEF c
    <2> QED BY <1>2, <2>1, OtherEntries
  <1> HIDE DEF c
  <1>5. PartsAgree(c) /\ StateAgrees(c) /\ WorldAgrees(c)
        /\ (client.state = "live" => StreamsExactly(c, have, base))
    BY <1>2, <1>4, SameClient
  <1>6. CASE client' = c /\ captured' = captured
    <2>1. ClientTypes' BY <1>1, <1>2, <1>4, <1>6 DEF ClientTypes
    <2>2. WorldAgrees(client)' BY <1>1, <1>5, <1>6 DEF WorldAgrees
    <2> QED
      BY <1>1, <1>4, <1>5, <1>6, <2>1, <2>2, NothingWrong
      DEF ClientInv, AcceptedOrRecovered
  <1>7. ASSUME RequestSnapshot, IsClient(client'), PartsAgree(client'), StateAgrees(client'),
               client'.state = "recovering", client'.started = c.started,
               client'.session = c.session, client'.arbiter = c.arbiter,
               Covers(captured.next, c) => Covers(captured.next, client')
        PROVE  ClientInv'
    <2>1. client'.arbiter.before \in Nat BY <1>7, ClientNumbers
    <2>2. /\ captured' \in [session : Nat, next : Nat]
          /\ captured' # NoSnapshot => captured'.next > 0
          /\ client'.started => client'.session <= feed'.session
          /\ client'.session = feed'.session => client'.arbiter.before <= feed'.next
          /\ captured'.session <= feed'.session
          /\ captured' # NoSnapshot /\ client'.started /\ captured'.session = client'.session =>
                   Covers(captured'.next, client')
          /\ captured' # NoSnapshot /\ captured'.session = feed'.session =>
                   captured'.next <= feed'.next
      BY <1>1, <1>2, <1>5, <1>7, <2>1, WorldStaysAgreed
    <2>3. WorldAgrees(client)' BY <2>2 DEF WorldAgrees
    <2>4. ClientTypes' BY <1>1, <1>2, <1>7, <2>2 DEF ClientTypes
    <2> QED
      BY <1>1, <1>7, <2>3, <2>4, NothingWrong
      DEF ClientInv, AcceptedOrRecovered
  <1>8. CASE client.state = "recovering" /\ client' = client /\ RequestSnapshot
    <2>1. Covers(captured.next, c) => Covers(captured.next, client')
      BY <1>4, <1>8 DEF Covers
    <2> QED BY <1>2, <1>4, <1>7, <1>8, <2>1
  <1>9. CASE client.state # "recovering" /\ client' = Escalate(c) /\ RequestSnapshot
    <2>1. Escalated(c, client') BY <1>4, <1>9, EscalatedAsItIs
    <2>2. client.state \in {"synchronising", "live"}
      BY <1>1, <1>2, <1>9, ClientNumbers DEF States
    <2>3. Empty(c.held) BY <1>2, <1>4, <2>2 DEF StateAgrees
    <2>4. /\ PartsAgree(client') /\ StateAgrees(client')
          /\ Covers(captured.next, c) => Covers(captured.next, client')
      BY <1>4, <1>5, <2>1, <2>3, EscalatedAgrees
    <2> QED BY <1>7, <1>9, <2>1, <2>4 DEF Escalated
  <1> QED BY <1>3, <1>6, <1>8, <1>9

LEMMA FinishReplayKeeps ==
    ASSUME ClientInv, FinishReplay
    PROVE  ClientInv'
PROOF
  <1> DEFINE h == client.held
             ex == client.tracker.expected
  <1>1. /\ client.state = "replaying"
        /\ client' = [client EXCEPT !.held = NoRange, !.state = "live"]
        /\ have' = have \cup Numbers(h)
        /\ report' = [NoReport EXCEPT !.again = have \cap Numbers(h)]
        /\ UNCHANGED <<feed, captured, requests, base>>
    BY DEF FinishReplay
  <1>2. /\ IsClient(client) /\ PartsAgree(client) /\ StateAgrees(client)
        /\ WorldAgrees(client) /\ ReplaysExactly(client, have, base)
        /\ captured = NoSnapshot
    BY <1>1 DEF ClientInv, ClientTypes
  <1>3. /\ h.first \in Nat /\ h.end \in Nat /\ ex \in Nat
    BY <1>2, ClientNumbers
  <1>4. /\ client'.state = "live" /\ client'.started = client.started
        /\ client'.session = client.session /\ client'.delivered = client.delivered
        /\ client'.arbiter = client.arbiter /\ client'.tracker = client.tracker
        /\ client'.held = NoRange /\ IsClient(client')
    <2>1. NoRange \in Ranges /\ "live" \in States BY NoNumbers DEF States
    <2>2. /\ client' \in ClientsWith(client.arbiter, client.entries)
          /\ client'.state = "live" /\ client'.started = client.started
          /\ client'.session = client.session /\ client'.delivered = client.delivered
          /\ client'.arbiter = client.arbiter /\ client'.tracker = client.tracker
          /\ client'.entries = client.entries /\ client'.held = NoRange
      BY <1>1, <1>2, <2>1 DEF IsClient, ClientsWith
    <2> QED BY <1>2, <2>2 DEF IsClient
  <1>5. /\ client.arbiter.before = ex /\ client.tracker.missing = {}
        /\ h.first < h.end /\ h.first > 0 /\ h.end = ex
        /\ base = 1 /\ have = 1 .. h.first - 1
    BY <1>2, <1>3 DEF ReplaysExactly, Empty
  <1>6. have' = 1 .. ex - 1
    BY <1>1, <1>3, <1>5 DEF Numbers
  <1>7. StreamsExactly(client', have', base')
    BY <1>1, <1>3, <1>4, <1>5, <1>6 DEF StreamsExactly
  <1>8. PartsAgree(client') /\ StateAgrees(client')
    BY <1>2, <1>4, NoNumbers, <1>1 DEF PartsAgree, Coherent, StateAgrees
  <1>9. WorldAgrees(client)' BY <1>1, <1>2, <1>4 DEF WorldAgrees
  <1>10. ClientTypes' BY <1>1, <1>4 DEF ClientInv, ClientTypes
  <1>11. report'.both = {} BY <1>1 DEF NoReport
  <1> QED
    BY <1>4, <1>7, <1>8, <1>9, <1>10, <1>11
    DEF ClientInv, AcceptedOrRecovered

\* d is c with the snapshot and the plan for it applied.
Applied(c, s, next, plan, d) ==
    /\ IsClient(d)
    /\ d.state = IF Empty(plan.replay) THEN "live" ELSE "replaying"
    /\ d.started /\ d.session = s /\ d.delivered = plan.resume
    /\ d.arbiter.before = plan.resume /\ d.tracker = SnapshotAt(c.tracker, s, next)
    /\ d.held = IF Empty(plan.replay) THEN NoRange
                ELSE DropBelow(c.held, plan.replay.first)

LEMMA AppliedClient ==
    ASSUME NEW c, IsClient(c), NEW s \in Nat, NEW next \in Nat,
           NEW plan, plan.resume \in Nat, plan.replay \in Ranges,
           NEW d, d = ApplySnapshot(c, s, next, plan)
    PROVE  Applied(c, s, next, plan, d)
PROOF
  <1> DEFINE h == IF Empty(plan.replay) THEN NoRange
                  ELSE DropBelow(c.held, plan.replay.first)
             t == SnapshotAt(c.tracker, s, next)
             es == StopChasing(c.entries, plan.resume)
             a == ResumeAt(c.arbiter, plan.resume)
             st == IF Empty(plan.replay) THEN "live" ELSE "replaying"
             r == plan.resume
             e == [c EXCEPT !.tracker = t, !.entries = es, !.arbiter = a]
             g == [e EXCEPT !.held = h, !.state = st]
             i == [g EXCEPT !.delivered = r]
  <1>1. h \in Ranges
    <2>1. /\ c.held \in Ranges /\ c.held.first \in Nat /\ c.held.end \in Nat
          /\ plan.replay.first \in Nat
      BY ClientNumbers DEF Ranges
    <2> QED BY <2>1, NoNumbers DEF DropBelow, SequenceRange, Ranges
  <1>2. t \in Trackers
    <2>1. c.tracker \in Trackers BY ClientNumbers
    <2>2. c.tracker.missing \in SUBSET Nat /\ c.tracker.expected \in Nat
      BY ClientNumbers
    <2>3. From(c.tracker.missing, next) \in SUBSET Nat BY <2>2 DEF From
    <2>4. (IF ~c.tracker.started \/ next > c.tracker.expected
           THEN next ELSE c.tracker.expected) \in Nat
      BY <2>2
    <2> QED BY <2>3, <2>4 DEF SnapshotAt, Established, Trackers
  <1>3. IsStream(a) /\ a.before = r
    <2>1. IsStream(c.arbiter) BY DEF IsClient
    <2>2. IsStream(ResetStream(c.arbiter)) /\ ResetStream(c.arbiter).before = 0
      BY <2>1, StreamMoves
    <2>3. IsStream(a) /\ a.before = Greater(0, r)
      BY <2>2, StreamMoves DEF ResumeAt
    <2> QED BY <2>3 DEF Greater
  <1>4. st \in States BY DEF States
  <1>5. d = [i EXCEPT !.session = s, !.started = TRUE]
    BY DEF ApplySnapshot, IsClient, ClientsWith
  <1> HIDE DEF h, t, es, a, st, r
  <1>6. /\ e \in ClientsWith(a, es) /\ e.arbiter = a /\ e.entries = es /\ e.tracker = t
    BY <1>2 DEF IsClient, ClientsWith
  <1> HIDE DEF e
  <1>7. /\ g \in ClientsWith(a, es) /\ g.arbiter = a /\ g.entries = es /\ g.tracker = t
        /\ g.held = h /\ g.state = st
    BY <1>1, <1>4, <1>6 DEF ClientsWith
  <1> HIDE DEF g
  <1>8. /\ i \in ClientsWith(a, es) /\ i.arbiter = a /\ i.entries = es /\ i.tracker = t
        /\ i.held = h /\ i.state = st /\ i.delivered = r
    BY <1>7 DEF ClientsWith, r
  <1> HIDE DEF i
  <1>9. /\ d \in ClientsWith(a, es) /\ d.arbiter = a /\ d.entries = es /\ d.tracker = t
        /\ d.held = h /\ d.state = st /\ d.delivered = r
        /\ d.session = s /\ d.started = TRUE
    BY <1>5, <1>8 DEF ClientsWith
  <1>10. IsClient(d) BY <1>3, <1>9 DEF IsClient
  <1> QED BY <1>3, <1>9, <1>10 DEF h, t, st, r, Applied

LEMMA NothingMissing == Describable({})
PROOF
  <1>1. {n \in {} : n - 1 \notin {}} = {} OBVIOUS
  <1>2. Holes({}) = 0 BY <1>1, FS_EmptySet DEF Holes
  <1> QED BY <1>2, HoleSetAssumption DEF Describable

\* The client goes on from a snapshot.
GoesOn(d, s, next) ==
    /\ IsClient(d) /\ PartsAgree(d) /\ StateAgrees(d) /\ d.session = s
    /\ d.state \in {"live", "replaying"}
    /\ d.state = "live" => StreamsExactly(d, 1 .. next - 1, 1)
    /\ d.state = "replaying" => ReplaysExactly(d, 1 .. next - 1, 1)

\* With nothing to replay, the snapshot is all there is.
LEMMA SnapshotAlone ==
    ASSUME NEW c, IsClient(c), NEW s \in Nat, NEW next \in Nat, next > 0,
           SnapshotAt(c.tracker, s, next) = Established(s, next),
           NEW d, d = ApplySnapshot(c, s, next, Plan("usable", NoRange, next))
    PROVE  GoesOn(d, s, next) /\ d.arbiter.before = next
PROOF
  <1> DEFINE plan == Plan("usable", NoRange, next)
  <1>1. plan.resume = next /\ plan.replay = NoRange BY DEF Plan
  <1>2. plan.resume \in Nat /\ plan.replay \in Ranges /\ Empty(plan.replay)
    BY <1>1, NoNumbers
  <1>3. d = ApplySnapshot(c, s, next, plan) OBVIOUS
  <1> HIDE DEF plan
  <1>4. /\ IsClient(d) /\ d.state = "live"
        /\ d.started /\ d.session = s /\ d.delivered = plan.resume
        /\ d.arbiter.before = plan.resume /\ d.tracker = SnapshotAt(c.tracker, s, next)
        /\ d.held = NoRange
    <2>1. Applied(c, s, next, plan, d) BY <1>2, <1>3, AppliedClient
    <2> QED BY <1>2, <2>1 DEF Applied
  <1>5. /\ d.tracker.missing = {} /\ d.tracker.expected = next
        /\ d.tracker.session = s /\ d.tracker.started
    BY <1>4 DEF Established
  <1>6. PartsAgree(d) BY <1>1, <1>4, <1>5, NothingMissing, NoNumbers DEF PartsAgree, Coherent
  <1>7. StateAgrees(d) BY <1>4, NoNumbers DEF StateAgrees
  <1>8. StreamsExactly(d, 1 .. next - 1, 1) BY <1>1, <1>4, <1>5 DEF StreamsExactly
  <1> QED BY <1>1, <1>4, <1>6, <1>7, <1>8 DEF GoesOn

\* With a part of the buffer to replay, snapshot and buffer meet.
LEMMA SnapshotAndReplay ==
    ASSUME NEW c, IsClient(c), NEW s \in Nat, NEW next \in Nat, next > 0,
           ~Empty(c.held), next >= c.held.first, next < c.held.end,
           SnapshotAt(c.tracker, s, next) = Established(s, c.held.end),
           NEW d, d = ApplySnapshot(c, s, next,
                        Plan("usable", SequenceRange(next, c.held.end), c.held.end))
    PROVE  GoesOn(d, s, next) /\ d.arbiter.before = c.held.end
PROOF
  <1> DEFINE plan == Plan("usable", SequenceRange(next, c.held.end), c.held.end)
             end == c.held.end
  <1>1. /\ plan.resume = end /\ plan.replay = SequenceRange(next, end)
        /\ plan.replay.first = next /\ plan.replay.end = end
    BY DEF Plan, SequenceRange
  <1>2. c.held \in Ranges /\ c.held.first \in Nat /\ end \in Nat BY ClientNumbers
  <1>3. plan.resume \in Nat /\ plan.replay \in Ranges /\ ~Empty(plan.replay)
    BY <1>1, <1>2 DEF SequenceRange, Ranges, Empty
  <1>4. d = ApplySnapshot(c, s, next, plan) OBVIOUS
  <1> HIDE DEF plan
  <1>5. /\ IsClient(d) /\ d.state = "replaying"
        /\ d.started /\ d.session = s /\ d.delivered = plan.resume
        /\ d.arbiter.before = plan.resume /\ d.tracker = SnapshotAt(c.tracker, s, next)
        /\ d.held = DropBelow(c.held, plan.replay.first)
    <2>1. Applied(c, s, next, plan, d) BY <1>3, <1>4, AppliedClient
    <2> QED BY <1>3, <2>1 DEF Applied
  <1>6. d.held.first = next /\ d.held.end = end
    BY <1>1, <1>2, <1>5 DEF DropBelow, SequenceRange
  <1>7. ~Empty(d.held) BY <1>2, <1>6 DEF Empty
  <1>8. /\ d.tracker.missing = {} /\ d.tracker.expected = end
        /\ d.tracker.session = s /\ d.tracker.started
    BY <1>5 DEF Established
  <1>9. PartsAgree(d) BY <1>1, <1>2, <1>5, <1>6, <1>8, NothingMissing DEF PartsAgree, Coherent
  <1>10. StateAgrees(d) BY <1>5 DEF StateAgrees
  <1>11. ReplaysExactly(d, 1 .. next - 1, 1)
    BY <1>1, <1>5, <1>6, <1>7, <1>8 DEF ReplaysExactly
  <1> QED BY <1>1, <1>5, <1>9, <1>10, <1>11 DEF GoesOn

\* What plan_snapshot decides is that the two meet.
LEMMA SnapshotApplied ==
    ASSUME NEW c, IsClient(c), NEW s \in Nat, NEW next \in Nat, next > 0,
           NEW plan, plan = PlanSnapshot(next, c.held, c.delivered),
           plan.verdict = "usable",
           \/ SnapshotAt(c.tracker, s, next) = Established(s, next) /\ Empty(c.held)
           \/ PartsAgree(c) /\ Covers(next, c) /\ c.started /\ s = c.session,
           NEW d, d = ApplySnapshot(c, s, next, plan)
    PROVE  /\ GoesOn(d, s, next)
           /\ d.arbiter.before = next
              \/ (PartsAgree(c) /\ s = c.session /\ d.arbiter.before <= c.arbiter.before)
PROOF
  <1>1. /\ c.held \in Ranges /\ c.held.first \in Nat /\ c.held.end \in Nat
        /\ c.delivered \in Nat /\ c.arbiter.before \in Nat
        /\ c.tracker.expected \in Nat /\ c.tracker.missing \in SUBSET Nat
    BY ClientNumbers
  <1>2. next > c.delivered BY <1>1 DEF PlanSnapshot, Plan
  <1>3. CASE Empty(c.held) \/ next >= c.held.end
    <2>1. plan = Plan("usable", NoRange, next)
      <3>1. CASE Empty(c.held) BY <1>1, <1>2, <3>1 DEF PlanSnapshot
      <3>2. CASE ~Empty(c.held) /\ next >= c.held.end
        <4>1. ~(next < c.held.first) BY <1>1, <3>2 DEF Empty
        <4> QED BY <1>1, <1>2, <3>2, <4>1 DEF PlanSnapshot
      <3> QED BY <1>3, <3>1, <3>2
    <2>2. ASSUME PartsAgree(c), Covers(next, c), c.started, s = c.session
          PROVE  SnapshotAt(c.tracker, s, next) = Established(s, next)
      <3>1. c.arbiter.before <= next BY <1>1, <1>2, <1>3, <2>2 DEF Covers
      <3>2. /\ c.tracker.started /\ c.tracker.session = s /\ c.tracker.expected <= next
            /\ \A n \in c.tracker.missing : n < next
        BY <1>1, <2>2, <3>1 DEF PartsAgree, Coherent
      <3>3. From(c.tracker.missing, next) = {} BY <1>1, <3>2 DEF From
      <3>4. (IF ~c.tracker.started \/ next > c.tracker.expected
             THEN next ELSE c.tracker.expected) = next
        BY <1>1, <3>2
      <3> QED BY <3>2, <3>3, <3>4 DEF SnapshotAt, Established
    <2>3. SnapshotAt(c.tracker, s, next) = Established(s, next) BY <2>2
    <2>4. d = ApplySnapshot(c, s, next, Plan("usable", NoRange, next)) BY <2>1
    <2> QED BY <2>3, <2>4, SnapshotAlone
  <1>4. CASE ~Empty(c.held) /\ next < c.held.end
    <2> DEFINE end == c.held.end
    <2>1. PartsAgree(c) /\ Covers(next, c) /\ c.started /\ s = c.session BY <1>4
    <2>2. next >= c.held.first /\ plan = Plan("usable", SequenceRange(next, end), end)
      <3>1. next >= c.held.first
        BY <1>1, <1>2, <1>4 DEF PlanSnapshot, Plan
      <3> QED BY <1>1, <1>2, <1>4, <3>1 DEF PlanSnapshot
    <2>3. c.arbiter.before <= end BY <1>1, <1>2, <1>4, <2>1 DEF Covers
    <2>4. /\ c.tracker.started /\ c.tracker.session = s /\ c.tracker.expected = end
          /\ c.arbiter.before = end
          /\ \A n \in c.tracker.missing : n < end
          /\ \A n \in Numbers(c.held) : n \notin c.tracker.missing
      BY <1>1, <1>4, <2>1, <2>3 DEF PartsAgree, Coherent
    <2>5. From(c.tracker.missing, next) = {}
      BY <1>1, <2>2, <2>4 DEF From, Numbers
    <2>6. (IF ~c.tracker.started \/ next > c.tracker.expected
           THEN next ELSE c.tracker.expected) = end
      BY <1>1, <1>4, <2>4
    <2>7. SnapshotAt(c.tracker, s, next) = Established(s, end)
      BY <2>4, <2>5, <2>6 DEF SnapshotAt, Established
    <2>8. d = ApplySnapshot(c, s, next, Plan("usable", SequenceRange(next, end), end))
      BY <2>2
    <2>9. GoesOn(d, s, next) /\ d.arbiter.before = end
      BY <1>4, <2>2, <2>7, <2>8, SnapshotAndReplay, ZenonT(30)
    <2> QED BY <1>1, <2>1, <2>4, <2>9
  <1> QED BY <1>1, <1>3, <1>4

LEMMA OnSnapshotKeeps ==
    ASSUME ClientInv, OnSnapshot
    PROVE  ClientInv'
PROOF
  <1> DEFINE s == captured.session
             next == captured.next
             c == IF OtherSession(client, s) THEN RestartForNewSession(client, s)
                  ELSE client
             plan == PlanSnapshot(next, c.held, c.delivered)
  <1>1. /\ captured # NoSnapshot /\ client.state # "failed"
        /\ captured' = NoSnapshot /\ report' = NoReport
        /\ UNCHANGED <<feed, requests>>
        /\ IF plan.verdict = "usable"
           THEN /\ client' = ApplySnapshot(c, s, next, plan)
                /\ have' = 1 .. next - 1 /\ base' = 1
           ELSE /\ client' = IF plan.verdict = "stale" THEN c ELSE Fail(c)
                /\ UNCHANGED <<have, base>>
    BY DEF OnSnapshot
  <1>2. /\ IsClient(client) /\ PartsAgree(client) /\ StateAgrees(client)
        /\ WorldAgrees(client)
        /\ client.state = "live" => StreamsExactly(client, have, base)
        /\ client.state # "replaying"
        /\ s \in Nat /\ next \in Nat /\ next > 0
        /\ feed \in [session : Nat \ {0}, next : Nat \ {0}]
    BY <1>1 DEF ClientInv, ClientTypes
  <1>3. /\ NoSnapshot \in [session : Nat, next : Nat] /\ NoSnapshot.session = 0
        /\ feed'.session >= 0
    BY <1>1, <1>2 DEF NoSnapshot
  <1> HIDE DEF plan
  <1>4. /\ IsClient(c)
        /\ \/ /\ c = client /\ (client.started => s = client.session)
           \/ /\ client.started /\ s # client.session
              /\ c.delivered = 0 /\ c.held = NoRange /\ c.tracker = client.tracker
    <2>1. CASE OtherSession(client, s)
      <3>1. c = RestartForNewSession(client, s) BY <2>1
      <3>2. s \in Nat BY <1>2
      <3> HIDE DEF c, s
      <3>3. Restarted(client, s, c) BY <1>2, <3>1, <3>2, RestartedClient
      <3> QED BY <2>1, <3>3 DEF OtherSession, Restarted
    <2>2. CASE ~OtherSession(client, s)
      <3>1. c = client BY <2>2
      <3> QED BY <1>2, <2>2, <3>1 DEF OtherSession
    <2> QED BY <2>1, <2>2
  <1>5. plan = PlanSnapshot(next, c.held, c.delivered) BY DEF plan
  <1> HIDE DEF c
  <1>6. CASE plan.verdict = "usable"
    <2>1. /\ client' = ApplySnapshot(c, s, next, plan)
          /\ have' = 1 .. next - 1 /\ base' = 1
      BY <1>1, <1>6
    <2>2. \/ SnapshotAt(c.tracker, s, next) = Established(s, next) /\ Empty(c.held)
          \/ c = client /\ PartsAgree(c) /\ Covers(next, c) /\ c.started /\ s = c.session
      <3>1. CASE client.started /\ s # client.session
        <4>1. c.held = NoRange /\ c.tracker = client.tracker BY <1>4, <3>1
        <4>2. client.tracker.started /\ client.tracker.session = client.session
          BY <1>2, <3>1 DEF PartsAgree, Coherent
        <4> QED BY <3>1, <4>1, <4>2, NoNumbers DEF SnapshotAt
      <3>2. CASE client.started /\ s = client.session
        <4>1. c = client BY <1>4, <3>2
        <4>2. Covers(next, client) BY <1>1, <1>2, <3>2 DEF WorldAgrees
        <4> QED BY <1>2, <3>2, <4>1, <4>2
      <3>3. CASE ~client.started
        <4>1. c = client BY <1>4, <3>3
        <4>2. /\ ~client.tracker.started /\ client.tracker.missing = {}
              /\ Empty(client.held)
          BY <1>2, <3>3 DEF PartsAgree, Coherent
        <4>3. From({}, next) = {} BY DEF From
        <4> QED BY <4>1, <4>2, <4>3 DEF SnapshotAt, Established
      <3> QED BY <3>1, <3>2, <3>3
    <2>3. /\ GoesOn(client', s, next)
          /\ client'.arbiter.before = next
             \/ (PartsAgree(c) /\ s = c.session
                  /\ client'.arbiter.before <= c.arbiter.before)
      BY <1>2, <1>4, <1>5, <1>6, <2>1, <2>2, SnapshotApplied
    <2>4. /\ IsClient(client') /\ PartsAgree(client') /\ StateAgrees(client')
          /\ client'.session = s /\ client'.state \in {"live", "replaying"}
          /\ client'.state = "live" => StreamsExactly(client', have', base')
          /\ client'.state = "replaying" => ReplaysExactly(client', have', base')
      BY <2>1, <2>3 DEF GoesOn
    <2>5. client'.session = feed.session => client'.arbiter.before <= feed.next
      <3>1. ASSUME s = feed.session PROVE next <= feed.next
        BY <1>1, <1>2, <3>1 DEF WorldAgrees
      <3>2. ASSUME s = feed.session, s = c.session, c = client
            PROVE  c.arbiter.before <= feed.next
        BY <1>2, <3>2 DEF WorldAgrees
      <3>3. ASSUME c # client PROVE client'.arbiter.before = next
        <4>1. c.held = NoRange BY <1>4, <3>3
        <4>2. SnapshotAt(c.tracker, s, next) = Established(s, next) BY <2>2, <3>3
        <4>3. plan = Plan("usable", NoRange, next)
          <5>1. c.delivered = 0 BY <1>4, <3>3
          <5> QED BY <1>2, <1>5, <4>1, <5>1, NoNumbers DEF PlanSnapshot
        <4>4. client' = ApplySnapshot(c, s, next, Plan("usable", NoRange, next))
          BY <2>1, <4>3
        <4> QED BY <1>2, <1>4, <4>2, <4>4, SnapshotAlone
      <3>4. client'.arbiter.before \in Nat /\ c.arbiter.before \in Nat
        BY <1>4, <2>4, ClientNumbers
      <3> QED BY <1>2, <2>3, <2>4, <3>1, <3>2, <3>3, <3>4
    <2>6. WorldAgrees(client)'
      <3>1. s <= feed.session BY <1>2 DEF WorldAgrees
      <3> QED BY <1>1, <1>3, <2>4, <2>5, <3>1 DEF WorldAgrees
    <2>7. ClientTypes' BY <1>1, <1>2, <1>3, <2>4 DEF ClientTypes
    <2> QED
      BY <1>1, <2>4, <2>6, <2>7, NothingWrong
      DEF ClientInv, AcceptedOrRecovered
  <1>7. CASE plan.verdict = "stale"
    <2>1. c = client
      <3> SUFFICES ASSUME c # client PROVE FALSE OBVIOUS
      <3>1. c.delivered = 0 /\ c.held = NoRange BY <1>4
      <3> QED BY <1>2, <1>5, <1>7, <3>1, NoNumbers DEF PlanSnapshot, Plan
    <2>2. client' = client /\ UNCHANGED <<have, base>> BY <1>1, <1>7, <2>1
    <2>3. ClientTypes' BY <1>1, <1>2, <1>3, <2>2 DEF ClientTypes
    <2>4. WorldAgrees(client)' BY <1>1, <1>2, <1>3, <2>2 DEF WorldAgrees
    <2> QED
      BY <1>1, <1>2, <2>2, <2>3, <2>4, NothingWrong
      DEF ClientInv, AcceptedOrRecovered
  <1>8. CASE plan.verdict \notin {"usable", "stale"}
    <2>1. client' = [c EXCEPT !.state = "failed"] BY <1>1, <1>8 DEF Fail
    <2>2. /\ client' \in ClientsWith(c.arbiter, c.entries) /\ client'.state = "failed"
          /\ client'.arbiter = c.arbiter /\ client'.entries = c.entries
      BY <1>4, <2>1 DEF IsClient, ClientsWith, States
    <2>3. IsClient(client') BY <1>4, <2>2 DEF IsClient
    <2>4. ClientTypes' BY <1>1, <1>2, <1>3, <2>3 DEF ClientTypes
    <2> QED
      BY <1>1, <2>2, <2>4, NothingWrong
      DEF ClientInv, AcceptedOrRecovered
  <1> QED BY <1>6, <1>7, <1>8

LEMMA InitClient == Init => ClientInv
PROOF
  <1> SUFFICES ASSUME Init PROVE ClientInv OBVIOUS
  <1>1. /\ client = [state |-> "synchronising", started |-> FALSE, session |-> 0,
                     delivered |-> 0, arbiter |-> FreshStream, tracker |-> Fresh,
                     entries |-> <<>>, held |-> NoRange]
        /\ feed = [session |-> 1, next |-> 1] /\ captured = NoSnapshot
        /\ requests = 0 /\ have = {} /\ base = 1 /\ report = NoReport
    BY DEF Init
  <1>2. IsStream(FreshStream) /\ FreshStream.before = 0 BY DEF IsStream, FreshStream
  <1>3. /\ Fresh \in Trackers /\ Fresh.missing = {} /\ Fresh.expected = 0
        /\ ~Fresh.started
    BY DEF Fresh, Trackers
  <1>4. IsClient(client)
    <2> HIDE DEF FreshStream, Fresh
    <2>1. client \in ClientsWith(FreshStream, <<>>)
      BY <1>1, <1>3, NoNumbers DEF ClientsWith, States
    <2> QED BY <1>1, <1>2, <2>1 DEF IsClient
  <1>5. ClientTypes
    <2>1. feed \in [session : Nat \ {0}, next : Nat \ {0}] BY <1>1
    <2>2. captured \in [session : Nat, next : Nat] BY <1>1 DEF NoSnapshot
    <2> QED BY <1>1, <1>4, <2>1, <2>2 DEF ClientTypes
  <1>6. PartsAgree(client)
    <2>1. /\ ~client.started /\ client.tracker = Fresh /\ client.delivered = 0
          /\ client.arbiter = FreshStream /\ client.held = NoRange
      BY <1>1
    <2> HIDE DEF Fresh, FreshStream, NoRange
    <2> QED BY <1>2, <1>3, <2>1, NoNumbers, NothingMissing DEF PartsAgree, Coherent
  <1>7. StateAgrees(client) BY <1>1, NoNumbers DEF StateAgrees
  <1>8. WorldAgrees(client) BY <1>1, <1>2, NoNumbers DEF WorldAgrees, NoSnapshot
  <1> QED BY <1>1, <1>5, <1>6, <1>7, <1>8, NothingWrong
          DEF ClientInv, AcceptedOrRecovered

LEMMA ClientStep ==
    ASSUME Prompt, ClientInv, [Next]_clientVars
    PROVE  ClientInv'
PROOF
  <1>1. CASE UNCHANGED clientVars
    <2> USE <1>1 DEF clientVars
    <2>1. ClientTypes' BY DEF ClientInv, ClientTypes
    <2>2. AcceptedOrRecovered'
      BY DEF ClientInv, AcceptedOrRecovered
    <2>3. WorldAgrees(client) => WorldAgrees(client)' BY DEF WorldAgrees
    <2> QED BY <2>1, <2>2, <2>3 DEF ClientInv
  <1> QED BY <1>1, DatagramKeeps, HeartbeatKeeps, RefusalKeeps, PollKeeps,
             OnSnapshotKeeps, FinishReplayKeeps, PublishKeeps, NewSessionKeeps,
             TickKeeps, ColdSnapshotKeeps DEF Next

LEMMA ClientAlways == Prompt => (Spec => []ClientInv)
PROOF
  <1> SUFFICES ASSUME Prompt PROVE Spec => []ClientInv OBVIOUS
  <1>1. ClientInv /\ [Next]_clientVars => ClientInv' BY ClientStep
  <1> QED BY <1>1, InitClient, PTL DEF Spec

-----------------------------------------------------------------------------
(* What the invariant says.                                                  *)

\* The paranoid assertion of on_packet cannot fail: what the arbiter takes for
\* new, the tracker never takes for a repair.
THEOREM ClientAcceptedOrRecovered == Prompt => (Spec => []AcceptedOrRecovered)
PROOF
  <1> SUFFICES ASSUME Prompt PROVE Spec => []AcceptedOrRecovered OBVIOUS
  <1>1. ClientInv => AcceptedOrRecovered BY DEF ClientInv
  <1> QED BY <1>1, ClientAlways, PTL

\* A client that streams holds all of its session from where it joined up to its
\* expectation, but for what its tracker calls missing.
THEOREM ClientKnowsWhatIsMissing == Prompt => (Spec => []KnowsWhatIsMissing)
PROOF
  <1> SUFFICES ASSUME Prompt PROVE Spec => []KnowsWhatIsMissing OBVIOUS
  <1>1. ClientInv => KnowsWhatIsMissing
    BY DEF ClientInv, KnowsWhatIsMissing, StreamsExactly
  <1> QED BY <1>1, ClientAlways, PTL

-----------------------------------------------------------------------------
(* That all that is called missing is chased, and nothing else.              *)

\* No message is asked for by two entries, and none the tracker does not expect
\* already; before the first packet there is nothing to ask for.
Asking(c) ==
    /\ c.entries \in Seq(Entries)
    /\ Apart(c.entries) /\ EndBy(c.entries, c.tracker.expected)
    /\ ~c.started => c.entries = <<>>

ChasingInv ==
    client.state # "failed" =>
        /\ Asking(client)
        /\ client.state \in {"live", "replaying"} =>
               client.tracker.missing = Asked(client.entries)

LEMMA NothingAsked ==
    /\ Asked(<<>>) = {} /\ <<>> \in Seq(Entries) /\ Apart(<<>>)
    /\ \A n : EndBy(<<>>, n)
PROOF BY EmptySeq DEF Asked, Apart, EndBy

LEMMA NothingAskedNoEntry ==
    ASSUME NEW es \in Seq(Entries), Asked(es) = {}
    PROVE  es = <<>>
PROOF
  <1> SUFFICES ASSUME es # <<>> PROVE FALSE OBVIOUS
  <1>1. /\ DOMAIN es = 1 .. Len(es) /\ Len(es) \in Nat /\ Len(es) # 0
        /\ \A i \in DOMAIN es : es[i] \in Entries
    BY LenProperties, EmptySeq, ElementOfSeq
  <1>2. 1 \in DOMAIN es BY <1>1, SMT
  <1>3. es[1] \in Entries BY <1>1, <1>2
  <1>4. es[1].range \in Askable BY <1>3 DEF Entries
  <1>5. es[1].range.first \in Numbers(es[1].range) BY <1>4, Askables, SMT DEF Numbers
  <1> QED BY <1>2, <1>5 DEF Asked

\* on_filled, of whatever range: what has arrived is no longer asked for.
LEMMA OnFilledKeeps ==
    ASSUME NEW es \in Seq(Entries), Apart(es), NEW n, EndBy(es, n), n \in Nat,
           NEW arrived \in Ranges, NEW done, done = OnFilled(es, arrived)
    PROVE  /\ done.entries \in Seq(Entries) /\ Apart(done.entries)
           /\ EndBy(done.entries, n)
           /\ done.error = "ok" => Asked(done.entries) = Asked(es) \ Numbers(arrived)
PROOF
  <1> DEFINE rest == FlattenSeq([i \in DOMAIN es |-> Halves(es[i], arrived)])
  <1>1. CASE Empty(arrived) \/ es = <<>>
    <2>1. done.entries = es BY <1>1 DEF OnFilled
    <2>2. Empty(arrived) => Numbers(arrived) = {} BY SMT DEF Empty, Numbers, Ranges
    <2>3. Asked(es) = Asked(es) \ Numbers(arrived) BY <1>1, <2>2, NothingAsked
    <2> QED BY <2>1, <2>3
  <1>2. CASE ~Empty(arrived) /\ es # <<>>
    <2>1. arrived \in Holed BY <1>2, SMT DEF Empty, Holed, Ranges
    <2>2. /\ done.entries = rest \/ done.entries = es
          /\ done.error = "ok" => done.entries = rest
      BY <1>2 DEF OnFilled
    <2> HIDE DEF rest
    <2>3. /\ rest \in Seq(Entries) /\ Apart(rest)
          /\ Asked(rest) = Asked(es) \ Numbers(arrived)
          /\ \A j \in DOMAIN rest : \E i \in DOMAIN es : Piece(rest[j], es[i])
      BY <1>2, <2>1, OnFilledRemains DEF rest
    <2>4. EndBy(rest, n)
      <3> SUFFICES ASSUME NEW j \in DOMAIN rest PROVE rest[j].range.end <= n BY DEF EndBy
      <3>1. PICK i \in DOMAIN es : Piece(rest[j], es[i]) BY <2>3
      <3>2. es[i] \in Entries /\ rest[j] \in Entries BY <2>3, LenProperties, ElementOfSeq
      <3>3. es[i].range \in Askable /\ rest[j].range \in Askable BY <3>2 DEF Entries
      <3>4. /\ es[i].range.end \in Nat /\ es[i].range.first \in Nat
            /\ rest[j].range.end \in Nat /\ rest[j].range.first \in Nat
            /\ rest[j].range.first < rest[j].range.end
        BY <3>3, Askables
      <3>5. rest[j].range.end - 1 \in Numbers(rest[j].range) BY <3>4, SMT DEF Numbers
      <3>6. rest[j].range.end - 1 \in Numbers(es[i].range) BY <3>1, <3>5 DEF Piece
      <3>7. rest[j].range.end - 1 <= es[i].range.end - 1 BY <3>4, <3>6, SMT DEF Numbers
      <3>8. es[i].range.end <= n BY DEF EndBy
      <3> QED BY <3>4, <3>7, <3>8, SMT
    <2> QED BY <2>2, <2>3, <2>4
  <1> QED BY <1>1, <1>2

\* A snapshot up to which nothing is expected leaves nothing to ask for.
LEMMA AllCovered ==
    ASSUME NEW es \in Seq(Entries), Apart(es), NEW n \in Nat, EndBy(es, n)
    PROVE  StopChasing(es, n) = <<>>
PROOF
  <1> DEFINE arrived == SequenceRange(0, n)
             rest == FlattenSeq([i \in DOMAIN es |-> Halves(es[i], arrived)])
  <1>1. CASE es = <<>> BY <1>1 DEF StopChasing, OnFilled
  <1>2. CASE es # <<>>
    <2>1. ASSUME NEW i \in DOMAIN es PROVE Numbers(es[i].range) \subseteq Numbers(arrived)
                                           /\ n > 0
      <3>1. es[i] \in Entries BY LenProperties, ElementOfSeq
      <3>2. es[i].range \in Askable BY <3>1 DEF Entries
      <3>3. /\ es[i].range.end \in Nat /\ es[i].range.first \in Nat
            /\ es[i].range.first < es[i].range.end
        BY <3>2, Askables
      <3>4. es[i].range.end <= n BY DEF EndBy
      <3> QED BY <3>3, <3>4, SMT DEF Numbers, SequenceRange
    <2>2. Asked(es) \ Numbers(arrived) = {} BY <2>1 DEF Asked
    <2>3. 1 \in DOMAIN es
      <3>1. DOMAIN es = 1 .. Len(es) /\ Len(es) \in Nat /\ Len(es) # 0
        BY <1>2, LenProperties, EmptySeq
      <3> QED BY <3>1, SMT
    <2>4. n > 0 BY <2>1, <2>3
    <2>5. arrived \in Holed /\ ~Empty(arrived)
      BY <2>4, SMT DEF Holed, SequenceRange, Empty
    <2>6. StopChasing(es, n) = IF Len(rest) > MaxOutstandingGaps THEN es ELSE rest
      BY <1>2, <2>5 DEF StopChasing, OnFilled
    <2> HIDE DEF rest
    <2>7. rest \in Seq(Entries) /\ Asked(rest) = {}
      <3> HIDE DEF arrived
      <3> QED BY <1>2, <2>2, <2>5, OnFilledRemains DEF rest
    <2>8. rest = <<>> BY <2>7, NothingAskedNoEntry
    <2>9. Len(rest) = 0 BY <2>8, EmptySeq
    <2> QED BY <2>6, <2>8, <2>9, HoleSetAssumption, SMT
  <1> QED BY <1>1, <1>2

\* What on_packet asks of the requester once the tracker has seen the packet.
Asks(es, seen) ==
    CASE seen.outcome = "gap_opened" -> OnGap(es, seen.range)
      [] seen.outcome = "gap_filled" -> OnFilled(es, seen.range)
      [] OTHER -> [entries |-> es, error |-> "ok"]

\* The requester follows the tracker.
LEMMA AsksWhatIsMissing ==
    ASSUME NEW t \in Trackers, \A n \in t.missing : n < t.expected,
           NEW s \in Nat, NEW p, IsPacket(p), NEW seen, seen = Observe(t, s, p),
           seen.outcome # "capacity_exceeded",
           NEW es \in Seq(Entries), Apart(es), EndBy(es, t.expected),
           ~t.started \/ s # t.session => es = <<>>,
           NEW asked, asked = Asks(es, seen)
    PROVE  /\ asked.entries \in Seq(Entries) /\ Apart(asked.entries)
           /\ EndBy(asked.entries, seen.tracker.expected)
           /\ asked.error = "ok" /\ (t.started /\ s = t.session => t.missing = Asked(es))
                  => seen.tracker.missing = Asked(asked.entries)
PROOF
  <1> DEFINE ex == t.expected
             u == seen.tracker
  <1>1. /\ p.first \in Nat /\ p.end \in Nat /\ p.first <= p.end
        /\ ex \in Nat /\ t.missing \in SUBSET Nat
    BY DEF IsPacket, Ranges, Trackers
  <1>2. ASSUME NEW d \in Nat, ex <= d PROVE EndBy(es, d)
    <2> SUFFICES ASSUME NEW i \in DOMAIN es PROVE es[i].range.end <= d BY DEF EndBy
    <2>1. es[i] \in Entries BY LenProperties, ElementOfSeq
    <2>2. es[i].range \in Askable BY <2>1 DEF Entries
    <2>3. es[i].range.end \in Nat BY <2>2, Askables
    <2>4. es[i].range.end <= ex BY DEF EndBy
    <2> QED BY <1>1, <1>2, <2>3, <2>4, SMT
  <1>3. CASE ~t.started \/ s # t.session
    <2>1. seen.outcome \in {"established", "session_reset"} /\ u.missing = {}
      BY <1>3 DEF Observe, Observation, Established
    <2>2. asked.entries = <<>> BY <1>3, <2>1 DEF Asks
    <2> QED BY <2>1, <2>2, NothingAsked
  <1>4. CASE t.started /\ s = t.session /\ p.first = ex
    <2>1. seen = Observation([t EXCEPT !.expected = p.end], "in_order", NoRange, 0)
      BY <1>4 DEF Observe
    <2>2. seen.outcome = "in_order" /\ u.missing = t.missing /\ u.expected = p.end
      BY <2>1 DEF Observation, Trackers
    <2>3. asked.entries = es BY <2>2 DEF Asks
    <2>4. EndBy(es, p.end) BY <1>1, <1>2, <1>4
    <2> QED BY <1>4, <2>2, <2>3, <2>4
  <1>5. CASE t.started /\ s = t.session /\ p.first > ex
    <2> DEFINE hole == SequenceRange(ex, p.first)
               after == Opened(t.missing, hole)
    <2>1. seen = OpenGap(t, p) BY <1>1, <1>5 DEF Observe
    <2>2. /\ seen.outcome = "gap_opened" /\ seen.range = hole
          /\ u.missing = after /\ u.expected = p.end
      <3>1. Describable(after) BY <2>1 DEF OpenGap, Observation
      <3> HIDE DEF after, hole
      <3> DEFINE v == [t EXCEPT !.missing = after, !.expected = p.end]
      <3>2. seen = Observation(v, "gap_opened", hole, 0)
        BY <2>1, <3>1 DEF OpenGap, after, hole
      <3>3. v.missing = after /\ v.expected = p.end BY DEF Trackers
      <3> HIDE DEF v
      <3> QED BY <3>2, <3>3 DEF Observation
    <2>3. asked = OnGap(es, hole) BY <2>2 DEF Asks
    <2>4. /\ hole \in Holed /\ hole.first = ex /\ hole.end = p.first
          /\ Numbers(hole) \cup t.missing = after
      BY <1>1, <1>5, SMT DEF Holed, SequenceRange, Opened
    <2> HIDE DEF hole, after
    <2>5. Admitted(es, hole, asked) BY <2>3, <2>4, OnGapAdmits
    <2>6. EndBy(asked.entries, p.first) /\ asked.entries \in Seq(Entries)
      BY <2>4, <2>5 DEF Admitted
    <2>7. EndBy(asked.entries, p.end)
      <3> SUFFICES ASSUME NEW i \in DOMAIN asked.entries
                   PROVE  asked.entries[i].range.end <= p.end
        BY DEF EndBy
      <3>1. asked.entries[i] \in Entries BY <2>6, LenProperties, ElementOfSeq
      <3>2. asked.entries[i].range \in Askable BY <3>1 DEF Entries
      <3>3. asked.entries[i].range.end \in Nat BY <3>2, Askables
      <3>4. asked.entries[i].range.end <= p.first BY <2>6 DEF EndBy
      <3> QED BY <1>1, <3>3, <3>4, SMT
    <2>8. asked.error = "ok" => Asked(asked.entries) = Asked(es) \cup Numbers(hole)
      BY <2>5 DEF Admitted
    <2>9. asked.error = "ok" /\ t.missing = Asked(es) => u.missing = Asked(asked.entries)
      BY <2>2, <2>4, <2>8
    <2>10. u.expected = p.end /\ Apart(asked.entries) BY <2>2, <2>5 DEF Admitted
    <2> HIDE DEF u
    <2>11. EndBy(asked.entries, u.expected) BY <2>7, <2>10
    <2> QED BY <1>5, <2>6, <2>9, <2>10, <2>11 DEF u
  <1>6. CASE t.started /\ s = t.session /\ p.first < ex
    <2> DEFINE after == Filled(t.missing, p)
               repaired == Cardinality(t.missing \cap Numbers(p))
    <2>1. seen = HandleBehind(t, p) BY <1>1, <1>6 DEF Observe
    <2>2. /\ u.missing = t.missing \ Numbers(p) /\ u.expected = Greater(ex, p.end)
          /\ IF repaired = 0 THEN seen.outcome = "duplicate"
             ELSE seen.outcome = "gap_filled" /\ seen.range = p
      <3>1. Describable(after) BY <2>1 DEF HandleBehind, Observation
      <3>2. after = t.missing \ Numbers(p) BY DEF Filled
      <3> HIDE DEF repaired, after
      <3> DEFINE v == [t EXCEPT !.missing = after, !.expected = Greater(t.expected, p.end)]
      <3>3. seen = IF repaired = 0 THEN Observation(v, "duplicate", NoRange, 0)
                   ELSE Observation(v, "gap_filled", p, repaired)
        BY <2>1, <3>1 DEF HandleBehind, after, repaired
      <3>4. v.missing = after /\ v.expected = Greater(ex, p.end) BY DEF Trackers
      <3> HIDE DEF v
      <3> QED BY <3>2, <3>3, <3>4 DEF Observation
    <2>3. u.expected = Greater(ex, p.end) /\ u.expected \in Nat /\ ex <= u.expected
      BY <1>1, <2>2, SMT DEF Greater
    <2>4. EndBy(es, u.expected) BY <1>2, <2>3
    <2>5. CASE repaired = 0
      <3>1. asked.entries = es BY <2>2, <2>5 DEF Asks
      <3>2. t.missing \cap Numbers(p) = {}
        <4>1. IsFiniteSet(Numbers(p)) BY <1>1, FS_Interval DEF Numbers
        <4>2. t.missing \cap Numbers(p) \in SUBSET Numbers(p) OBVIOUS
        <4>3. IsFiniteSet(t.missing \cap Numbers(p)) BY <4>1, <4>2, FS_Subset
        <4> QED BY <2>5, <4>3, FS_EmptySet
      <3>3. u.missing = t.missing BY <2>2, <3>2
      <3> HIDE DEF u, repaired
      <3> QED BY <1>6, <2>4, <3>1, <3>3 DEF u
    <2>6. CASE repaired # 0
      <3>1. asked = OnFilled(es, p) BY <2>2, <2>6 DEF Asks
      <3>2. p \in Ranges BY DEF IsPacket
      <3>3. u.missing = t.missing \ Numbers(p) BY <2>2
      <3> HIDE DEF u, repaired
      <3>4. /\ asked.entries \in Seq(Entries) /\ Apart(asked.entries)
            /\ EndBy(asked.entries, u.expected)
            /\ asked.error = "ok" => Asked(asked.entries) = Asked(es) \ Numbers(p)
        BY <2>3, <2>4, <3>1, <3>2, OnFilledKeeps
      <3> QED BY <1>6, <3>3, <3>4 DEF u
    <2> QED BY <2>5, <2>6
  <1> QED BY <1>1, <1>3, <1>4, <1>5, <1>6

LEMMA SequencedAsks ==
    ASSUME NEW c, IsClient(c), NEW seen, NEW accepted, NEW recovered,
           NEW done, done = Sequenced(c, seen, accepted, recovered),
           NEW asked, asked = Asks(c.entries, seen)
    PROVE  LET e == done.client
           IN  /\ e.entries = asked.entries /\ e.tracker = c.tracker
               /\ e.started = c.started
               /\ e.state \in {"recovering",
                                IF c.state = "synchronising" THEN "live" ELSE c.state}
               /\ e.state # "recovering" => asked.error = "ok"
PROOF
  <1> DEFINE d == [c EXCEPT !.entries = asked.entries]
             live == IF d.state = "synchronising" THEN "live" ELSE d.state
             delivered == IF live = "recovering" THEN d.delivered
                          ELSE Greater(d.delivered, accepted.end)
             e == done.client
  <1>1. e = IF asked.error # "ok" THEN Escalate(d)
            ELSE [d EXCEPT !.state = live, !.delivered = delivered]
    BY DEF Sequenced, Asks, Ingested
  <1>2. d.state = c.state BY DEF IsClient, ClientsWith
  <1>3. live = IF c.state = "synchronising" THEN "live" ELSE c.state BY <1>2
  <1> HIDE DEF live, delivered
  <1>4. CASE asked.error # "ok"
    BY <1>1, <1>4 DEF Escalate, IsClient, ClientsWith
  <1>5. CASE asked.error = "ok"
    <2>1. /\ e.entries = asked.entries /\ e.tracker = c.tracker
          /\ e.started = c.started /\ e.state = live
      BY <1>1, <1>5 DEF IsClient, ClientsWith
    <2> QED BY <1>3, <1>5, <2>1
  <1> QED BY <1>4, <1>5

\* Receiving a packet: the requests go with the account, or the client fails.
LEMMA OnPacketAsks ==
    ASSUME NEW c, IsClient(c), Coherent(c), StateAgrees(c), Asking(c),
           c.state \in {"synchronising", "live", "recovering"},
           c.state = "live" => c.tracker.missing = Asked(c.entries),
           NEW s \in Nat, NEW p, IsPacket(p), NEW digest,
           NEW done, done = OnPacket(c, s, p, digest)
    PROVE  done.client.state # "failed" =>
               /\ Asking(done.client)
               /\ done.client.state = "live" =>
                      done.client.tracker.missing = Asked(done.client.entries)
               /\ done.client.state # "replaying"
PROOF
  <1> DEFINE changed == OtherSession(c, s)
             c1 == IF changed THEN RestartForNewSession(c, s) ELSE c
             merged == Offer(c1.arbiter, p, digest, DetectDivergence)
             c2 == [c1 EXCEPT !.arbiter = merged.arbiter, !.started = TRUE, !.session = s]
             recovered == Repaired(c2, changed, p)
             seen == Observe(c2.tracker, s, p)
             c3 == Tracked(c2, seen.tracker)
             e == done.client
  <1>1. /\ c1.tracker = c.tracker /\ c1.entries \in Seq(Entries) /\ Apart(c1.entries)
        /\ EndBy(c1.entries, c.tracker.expected)
        /\ c1.state \in {"synchronising", "live", "recovering"}
        /\ c1.state = "live" => c1.tracker.missing = Asked(c1.entries)
        /\ ~c.tracker.started \/ s # c.tracker.session => c1.entries = <<>>
        /\ c1.state = "synchronising" => ~c.tracker.started \/ s # c.tracker.session
        /\ IsClient(c1)
    <2>1. CASE changed
      <3>1. c1 = RestartForNewSession(c, s) BY <2>1
      <3>2. c1.entries = <<>> BY <3>1 DEF RestartForNewSession, IsClient, ClientsWith
      <3> HIDE DEF c1
      <3>3. Restarted(c, s, c1) BY <3>1, RestartedClient
      <3>4. s # c.tracker.session BY <2>1 DEF OtherSession, Coherent
      <3> QED BY <3>2, <3>3, <3>4, NothingAsked DEF Restarted
    <2>2. CASE ~changed
      <3>1. c1 = c BY <2>2
      <3>2. ~c.tracker.started \/ s # c.tracker.session => c.entries = <<>>
        BY <2>2 DEF OtherSession, Coherent, Asking
      <3>3. c.state = "synchronising" => ~c.tracker.started
        BY DEF StateAgrees, Coherent
      <3> QED BY <3>1, <3>2, <3>3 DEF Asking
    <2> QED BY <2>1, <2>2
  <1>2. done = IF merged.outcome = "lines_diverged"
               THEN Ingested(Fail(c1), NoRange, {}, "lines_diverged")
               ELSE IF ~Empty(p) /\ Empty(merged.deliver) /\ recovered = {}
               THEN Ingested(c2, NoRange, {}, "ok")
               ELSE IF seen.outcome = "capacity_exceeded"
               THEN Ingested(Escalate(c2), NoRange, {}, "capacity_exceeded")
               ELSE Sequenced(c3, seen, merged.deliver, recovered)
    BY DEF OnPacket
  <1> HIDE DEF c1, recovered
  <1>3. CASE merged.outcome = "lines_diverged"
    BY <1>1, <1>2, <1>3 DEF Ingested, Fail, IsClient, ClientsWith
  <1> HIDE DEF merged
  <1>4. /\ c2.tracker = c.tracker /\ c2.entries = c1.entries /\ c2.state = c1.state
        /\ c2.started = TRUE
    BY <1>1 DEF IsClient, ClientsWith
  <1>5. c2 \in ClientsWith(merged.arbiter, c1.entries)
    BY <1>1 DEF IsClient, ClientsWith
  <1> HIDE DEF c2
  <1>6. CASE merged.outcome # "lines_diverged" /\ ~Empty(p) /\ Empty(merged.deliver)
             /\ recovered = {}
    <2>1. e = c2 BY <1>2, <1>6 DEF Ingested
    <2> QED BY <1>1, <1>4, <2>1 DEF Asking
  <1>7. CASE merged.outcome # "lines_diverged" /\ seen.outcome = "capacity_exceeded"
             /\ ~(~Empty(p) /\ Empty(merged.deliver) /\ recovered = {})
    <2> HIDE DEF seen
    <2>1. e = Escalate(c2) BY <1>2, <1>7 DEF Ingested
    <2>2. /\ e.tracker = c2.tracker /\ e.entries = c2.entries /\ e.started = c2.started
          /\ e.state = "recovering"
      BY <1>5, <2>1 DEF Escalate, ClientsWith
    <2> QED BY <1>1, <1>4, <2>2 DEF Asking
  <1>8. CASE merged.outcome # "lines_diverged" /\ seen.outcome # "capacity_exceeded"
             /\ ~(~Empty(p) /\ Empty(merged.deliver) /\ recovered = {})
    <2> DEFINE asked == Asks(c1.entries, seen)
    <2>1. c.tracker \in Trackers /\ \A n \in c.tracker.missing : n < c.tracker.expected
      BY ClientNumbers DEF Coherent
    <2>2. seen = Observe(c.tracker, s, p) BY <1>4
    <2> HIDE DEF seen
    <2>3. /\ asked.entries \in Seq(Entries) /\ Apart(asked.entries)
          /\ EndBy(asked.entries, seen.tracker.expected)
          /\ asked.error = "ok"
             /\ (c.tracker.started /\ s = c.tracker.session =>
                     c.tracker.missing = Asked(c1.entries))
                => seen.tracker.missing = Asked(asked.entries)
      <3> DEFINE es == c1.entries
                 t == c.tracker
      <3>1. /\ es \in Seq(Entries) /\ Apart(es) /\ EndBy(es, t.expected)
            /\ ~t.started \/ s # t.session => es = <<>>
        BY <1>1
      <3>2. asked = Asks(es, seen) /\ seen = Observe(t, s, p)
            /\ seen.outcome # "capacity_exceeded"
            /\ t \in Trackers /\ \A n \in t.missing : n < t.expected
        BY <1>8, <2>1, <2>2
      <3> HIDE DEF es, t, asked
      <3>3. /\ asked.entries \in Seq(Entries) /\ Apart(asked.entries)
            /\ EndBy(asked.entries, seen.tracker.expected)
            /\ asked.error = "ok" /\ (t.started /\ s = t.session => t.missing = Asked(es))
                  => seen.tracker.missing = Asked(asked.entries)
        BY <3>1, <3>2, AsksWhatIsMissing
      <3> QED BY <3>3 DEF es, t
    <2>4. done = Sequenced(c3, seen, merged.deliver, recovered) BY <1>2, <1>8
    <2>5. seen.tracker \in Trackers
      <3>1. Established(s, p.end) \in Trackers
        BY DEF Established, Trackers, IsPacket, Ranges
      <3> QED BY <1>8, <2>1, <2>2, <3>1, ObserveAccounts
    <2>6. IsClient(c2)
      <3>1. IsStream(c1.arbiter) BY <1>1 DEF IsClient
      <3>2. IsStream(merged.arbiter) BY <1>8, <3>1, OfferCrosses DEF merged
      <3> QED BY <1>5, <3>2 DEF IsClient, ClientsWith
    <2>7. /\ IsClient(c3) /\ c3.state = c1.state /\ c3.started
          /\ c3.tracker = seen.tracker
      BY <1>4, <2>5, <2>6, TrackedClient
    <2>8. c3.entries = c1.entries BY <1>4, <1>5 DEF Tracked, ClientsWith
    <2> HIDE DEF c3
    <2>9. /\ e.entries = asked.entries /\ e.tracker = seen.tracker /\ e.started
          /\ e.state \in {"recovering", IF c1.state = "synchronising" THEN "live" ELSE c1.state}
          /\ e.state # "recovering" => asked.error = "ok"
      BY <2>4, <2>7, <2>8, SequencedAsks
    <2> HIDE DEF asked
    <2>10. c1.state # "recovering" =>
               (c.tracker.started /\ s = c.tracker.session =>
                    c.tracker.missing = Asked(c1.entries))
      BY <1>1
    <2>11. Asking(e) BY <2>3, <2>9 DEF Asking
    <2> QED BY <1>1, <2>3, <2>9, <2>10, <2>11
  <1> QED BY <1>3, <1>6, <1>7, <1>8

LEMMA PacketClient ==
    ASSUME NEW c, IsClient(c), Coherent(c), StateAgrees(c),
           c.state \in {"synchronising", "live", "recovering"},
           NEW s \in Nat, NEW p, IsPacket(p), NEW digest,
           NEW done, done = OnPacket(c, s, p, digest)
    PROVE  IsClient(done.client)
PROOF
  <1>1. CASE ~c.started \/ s # c.session
    BY <1>1, PacketBegins DEF StateAgrees, FailsOn, GivesUpChasing, BeginsWith
  <1>2. CASE c.started /\ s = c.session
    <2>1. c.state \in {"live", "recovering"} BY <1>2 DEF StateAgrees
    <2> QED BY <1>2, <2>1, PacketInSession
            DEF FailsOn, IgnoresDuplicate, GivesUpChasing, TakesInSession
  <1> QED BY <1>1, <1>2

LEMMA ReceiveKeepsChasing ==
    ASSUME ClientInv, ChasingInv, NEW p, IsPacket(p), NEW digest,
           Receive(feed.session, p, digest)
    PROVE  ChasingInv'
PROOF
  <1> DEFINE done == OnPacket(client, feed.session, p, digest)
             c == done.client
  <1>1. /\ client.state \notin {"failed", "replaying"}
        /\ \/ client' = c
           \/ c.state = "recovering" /\ client' = HoldForReplay(c, done.accepted)
    BY DEF Receive, TakesPackets
  <1>2. /\ IsClient(client) /\ Coherent(client) /\ StateAgrees(client)
        /\ feed.session \in Nat /\ Asking(client)
        /\ client.state = "live" => client.tracker.missing = Asked(client.entries)
    BY <1>1 DEF ClientInv, ClientTypes, PartsAgree, ChasingInv
  <1>3. client.state \in {"synchronising", "live", "recovering"}
    BY <1>1, <1>2, ClientNumbers DEF States
  <1>4. c.state # "failed" =>
            /\ Asking(c) /\ c.state # "replaying"
            /\ c.state = "live" => c.tracker.missing = Asked(c.entries)
    BY <1>2, <1>3, OnPacketAsks
  <1> HIDE DEF done
  <1>5. CASE client' = c BY <1>4, <1>5 DEF ChasingInv
  <1>6. CASE c.state = "recovering" /\ client' = HoldForReplay(c, done.accepted)
    <2>1. IsClient(c) BY <1>1, <1>2, <1>3, PacketClient DEF done
    <2> DEFINE h == Appended(c.held, done.accepted)
    <2>2. client' = IF h.error = "ok" THEN [c EXCEPT !.held = h.held]
                    ELSE [[c EXCEPT !.held = h.held] EXCEPT !.state = "failed"]
      BY <1>6 DEF HoldForReplay, Fail
    <2> HIDE DEF h
    <2>3. \/ client'.state = "failed"
          \/ /\ client'.state = "recovering" /\ client'.entries = c.entries
             /\ client'.tracker = c.tracker /\ client'.started = c.started
      BY <1>6, <2>1, <2>2 DEF IsClient, ClientsWith
    <2> QED BY <1>4, <1>6, <2>3 DEF ChasingInv, Asking
  <1> QED BY <1>1, <1>5, <1>6

\* Nothing the requests depend on changes.
LEMMA ChasingStays ==
    ASSUME ChasingInv, client'.state # "failed" => client.state # "failed",
           client'.entries = client.entries, client'.tracker = client.tracker,
           client'.started = client.started,
           client'.state \in {"live", "replaying"} =>
               client.state \in {"live", "replaying"}
    PROVE  ChasingInv'
PROOF BY DEF ChasingInv, Asking

LEMMA RefusalKeepsChasing ==
    ASSUME ClientInv, ChasingInv, Refusal
    PROVE  ChasingInv'
PROOF
  <1>1. PICK fatal \in BOOLEAN : Refused(fatal) BY DEF Refusal
  <1>5. client' = client \/ (client' = Escalate(client) /\ client.state # "failed")
    BY <1>1 DEF Refused
  <1>2. client \in ClientsWith(client.arbiter, client.entries)
    BY DEF ClientInv, ClientTypes, IsClient
  <1>3. CASE client' = client BY <1>3, ChasingStays
  <1>4. CASE client' = Escalate(client) /\ client.state # "failed"
    <2>1. /\ client'.state = "recovering" /\ client'.entries = client.entries
          /\ client'.tracker = client.tracker /\ client'.started = client.started
      BY <1>2, <1>4 DEF Escalate, ClientsWith
    <2> QED BY <1>4, <2>1, ChasingStays
  <1> QED BY <1>3, <1>4, <1>5

LEMMA TickKeepsChasing ==
    ASSUME ClientInv, ChasingInv, Tick
    PROVE  ChasingInv'
PROOF
  <1>1. client' = [client EXCEPT !.entries = Aged(client.entries)] BY DEF Tick
  <1>2. client \in ClientsWith(client.arbiter, client.entries)
    BY DEF ClientInv, ClientTypes, IsClient
  <1> DEFINE a == Aged(client.entries)
  <1> HIDE DEF a
  <1>3. /\ client'.state = client.state /\ client'.entries = a
        /\ client'.tracker = client.tracker /\ client'.started = client.started
    BY <1>1, <1>2 DEF ClientsWith, a
  <1> SUFFICES ASSUME client.state # "failed"
               PROVE  /\ Asking(client')
                      /\ client.state \in {"live", "replaying"} =>
                             client.tracker.missing = Asked(a)
    BY <1>3 DEF ChasingInv
  <1>4. Asking(client) BY DEF ChasingInv
  <1>5. /\ a \in Seq(Entries) /\ DOMAIN a = DOMAIN client.entries
        /\ \A i \in DOMAIN client.entries : a[i].range = client.entries[i].range
        /\ Asked(a) = Asked(client.entries) /\ Apart(a)
    BY <1>4, AgedEntries DEF Asking, a
  <1>6. EndBy(a, client.tracker.expected) BY <1>4, <1>5 DEF Asking, EndBy
  <1>7. client.entries = <<>> => a = <<>>
    <2> SUFFICES ASSUME client.entries = <<>> PROVE a = <<>> OBVIOUS
    <2>1. Asked(a) = {} BY <1>5, NothingAsked
    <2> QED BY <1>5, <2>1, NothingAskedNoEntry
  <1>8. Asking(client') BY <1>3, <1>4, <1>5, <1>6, <1>7 DEF Asking
  <1> QED BY <1>5, <1>8 DEF ChasingInv

LEMMA PollKeepsChasing ==
    ASSUME ClientInv, ChasingInv, Poll
    PROVE  ChasingInv'
PROOF
  <1> DEFINE next == Decide(client.entries)
             c == [client EXCEPT !.entries = next.entries]
  <1>1. client.state \notin {"failed", "replaying"} BY DEF Poll
  <1>2. /\ client \in ClientsWith(client.arbiter, client.entries)
        /\ Asking(client)
        /\ client.state = "live" => client.tracker.missing = Asked(client.entries)
    BY <1>1 DEF ClientInv, ClientTypes, IsClient, ChasingInv
  <1>3. \/ client' = client
        \/ client' = c /\ next.what # "abandon"
        \/ client' = Escalate(c) /\ next.what = "abandon"
    BY <1>1 DEF Poll
  <1>4. \/ next.what = "idle" /\ next.entries = client.entries
        \/ \E i \in DOMAIN client.entries :
               Sent(client.entries, i, next) /\ next.entries \in Seq(Entries)
        \/ \E i \in DOMAIN client.entries : Abandoned(client.entries, i, next)
    BY <1>2, Decisions DEF Asking
  <1>5. /\ next.entries \in Seq(Entries) /\ Apart(next.entries)
        /\ EndBy(next.entries, client.tracker.expected)
        /\ next.what # "abandon" => Asked(next.entries) = Asked(client.entries)
        /\ client.entries = <<>> => next.entries = <<>>
    <2> HIDE DEF next
    <2> DEFINE es == client.entries
    <2>1. es \in Seq(Entries) /\ Apart(es) /\ EndBy(es, client.tracker.expected)
      BY <1>2 DEF Asking
    <2>2. (\E i \in DOMAIN es : TRUE) => es # <<>>
      <3> SUFFICES ASSUME NEW i \in DOMAIN es, es = <<>> PROVE FALSE OBVIOUS
      <3>1. DOMAIN es = 1 .. Len(es) /\ Len(es) = 0 BY <2>1, LenProperties, EmptySeq
      <3> QED BY <3>1, SMT
    <2>3. CASE next.what = "idle" /\ next.entries = es BY <2>1, <2>3
    <2>4. ASSUME NEW i \in DOMAIN es, Sent(es, i, next), next.entries \in Seq(Entries)
          PROVE  /\ Apart(next.entries) /\ Asked(next.entries) = Asked(es)
                 /\ EndBy(next.entries, client.tracker.expected)
      <3> HIDE DEF es
      <3>1. Apart(next.entries) /\ Asked(next.entries) = Asked(es)
        BY <2>1, <2>4, SendIsOfADueEntry
      <3>2. ASSUME NEW j \in DOMAIN es PROVE next.entries[j].range = es[j].range
        <4>1. CASE j = i BY <2>4, <4>1 DEF Sent
        <4>2. CASE j # i BY <2>4, <4>2 DEF Sent
        <4> QED BY <4>1, <4>2
      <3>3. DOMAIN next.entries = DOMAIN es BY <2>4 DEF Sent
      <3>4. EndBy(next.entries, client.tracker.expected) BY <2>1, <3>2, <3>3 DEF EndBy
      <3> QED BY <3>1, <3>4
    <2>5. ASSUME NEW i \in DOMAIN es, Abandoned(es, i, next)
          PROVE  /\ next.what = "abandon" /\ next.entries \in Seq(Entries)
                 /\ Apart(next.entries) /\ EndBy(next.entries, client.tracker.expected)
      <3> HIDE DEF es
      <3>1. next.what = "abandon" /\ next.entries = RemoveAt(es, i) BY <2>5 DEF Abandoned
      <3>2. /\ next.entries \in Seq(Entries) /\ Apart(next.entries)
            /\ \A j \in DOMAIN next.entries :
                   \E k \in DOMAIN es : next.entries[j] = es[k] /\ k # i
        BY <2>1, <2>5, <3>1, EntryRemoved
      <3>3. EndBy(next.entries, client.tracker.expected) BY <2>1, <3>2 DEF EndBy
      <3> QED BY <3>1, <3>2, <3>3
    <2> QED BY <1>4, <2>2, <2>3, <2>4, <2>5
  <1> HIDE DEF next
  <1>6. CASE client' = client BY <1>6, ChasingStays
  <1>7. CASE client' = c /\ next.what # "abandon"
    <2>1. /\ client'.state = client.state /\ client'.entries = next.entries
          /\ client'.tracker = client.tracker /\ client'.started = client.started
      BY <1>2, <1>7 DEF ClientsWith
    <2>2. Asking(client') BY <1>2, <1>5, <2>1 DEF Asking
    <2> QED BY <1>1, <1>2, <1>5, <1>7, <2>1, <2>2 DEF ChasingInv
  <1>8. CASE client' = Escalate(c)
    <2>1. /\ client'.state = "recovering" /\ client'.entries = next.entries
          /\ client'.tracker = client.tracker /\ client'.started = client.started
      BY <1>2, <1>8 DEF Escalate, ClientsWith
    <2>2. Asking(client') BY <1>2, <1>5, <2>1 DEF Asking
    <2> QED BY <2>1, <2>2 DEF ChasingInv
  <1> QED BY <1>3, <1>6, <1>7, <1>8

\* A snapshot that is applied leaves nothing missing and nothing to ask for.
LEMMA OnSnapshotKeepsChasing ==
    ASSUME ClientInv, ChasingInv, OnSnapshot, ClientInv'
    PROVE  ChasingInv'
PROOF
  <1> DEFINE s == captured.session
             next == captured.next
             c == IF OtherSession(client, s) THEN RestartForNewSession(client, s)
                  ELSE client
             plan == PlanSnapshot(next, c.held, c.delivered)
  <1>1. /\ captured # NoSnapshot /\ client.state # "failed" /\ captured' = NoSnapshot
        /\ IF plan.verdict = "usable"
           THEN /\ client' = ApplySnapshot(c, s, next, plan)
                /\ have' = 1 .. next - 1 /\ base' = 1
           ELSE client' = IF plan.verdict = "stale" THEN c ELSE Fail(c)
    BY DEF OnSnapshot
  <1>2. /\ IsClient(client) /\ Coherent(client) /\ Asking(client)
        /\ client.state \in {"live", "replaying"} =>
               client.tracker.missing = Asked(client.entries)
        /\ s \in Nat /\ next \in Nat
    BY <1>1 DEF ClientInv, ClientTypes, PartsAgree, ChasingInv
  <1> HIDE DEF plan
  <1>3. /\ IsClient(c) /\ c.tracker = client.tracker
        /\ c.entries \in Seq(Entries) /\ Apart(c.entries)
        /\ EndBy(c.entries, c.tracker.expected)
        /\ ~c.tracker.started \/ s # c.tracker.session => c.entries = <<>>
        /\ c = client \/ (c.state = "synchronising" /\ c.entries = <<>>)
    <2>1. CASE OtherSession(client, s)
      <3>1. c = RestartForNewSession(client, s) BY <2>1
      <3>2. c.entries = <<>>
        BY <1>2, <3>1 DEF RestartForNewSession, IsClient, ClientsWith
      <3> HIDE DEF c, s
      <3>3. Restarted(client, s, c) BY <1>2, <3>1, RestartedClient
      <3> QED BY <3>2, <3>3, NothingAsked DEF Restarted
    <2>2. CASE ~OtherSession(client, s)
      <3>1. c = client BY <2>2
      <3>2. ~client.tracker.started \/ s # client.tracker.session => client.entries = <<>>
        BY <1>2, <2>2 DEF OtherSession, Coherent, Asking
      <3>3. /\ client.entries \in Seq(Entries) /\ Apart(client.entries)
            /\ EndBy(client.entries, client.tracker.expected)
        BY <1>2 DEF Asking
      <3> HIDE DEF c, s
      <3> QED BY <1>2, <3>1, <3>2, <3>3
    <2> QED BY <2>1, <2>2
  <1>4. plan = PlanSnapshot(next, c.held, c.delivered) BY DEF plan
  <1> HIDE DEF c
  <1>5. CASE plan.verdict = "usable"
    <2>1. client' = ApplySnapshot(c, s, next, plan) /\ have' = 1 .. next - 1 /\ base' = 1
      BY <1>1, <1>5
    <2>2. /\ c.held \in Ranges /\ c.held.end \in Nat /\ c.delivered \in Nat
          /\ c.tracker \in Trackers /\ c.tracker.expected \in Nat
      BY <1>3, ClientNumbers DEF Ranges
    <2>3. plan.resume \in Nat /\ plan.replay \in Ranges
      BY <1>2, <1>4, <2>2, NoNumbers
         DEF PlanSnapshot, Plan, SequenceRange, NoRange, Ranges
    <2>4. Applied(c, s, next, plan, client')
      BY <1>2, <1>3, <2>1, <2>3, AppliedClient
    <2> DEFINE d == client'
    <2>5. /\ IsClient(d) /\ d.state \in {"live", "replaying"} /\ d.started
          /\ d.arbiter.before = plan.resume
          /\ d.tracker = SnapshotAt(c.tracker, s, next)
      BY <2>4 DEF Applied
    <2>6. d.entries = StopChasing(c.entries, plan.resume)
      BY <1>3, <2>1 DEF ApplySnapshot, IsClient, ClientsWith
    <2>7. /\ d.arbiter.before = d.tracker.expected /\ d.tracker.missing = {}
      <3>1. CASE d.state = "live"
        <4>1. StreamsExactly(d, 1 .. next - 1, 1) /\ Coherent(d)
          BY <2>1, <2>5, <3>1 DEF ClientInv, PartsAgree
        <4>2. /\ d.arbiter.before = d.tracker.expected
              /\ \A n \in d.tracker.missing : n >= 1 /\ n < d.tracker.expected
              /\ 1 .. next - 1 = (1 .. d.tracker.expected - 1) \ d.tracker.missing
          BY <4>1 DEF StreamsExactly, Coherent
        <4>3. plan.resume = next
          <5>1. Empty(plan.replay) BY <2>4, <3>1 DEF Applied
          <5> QED BY <1>2, <1>4, <1>5, <2>2, <5>1
                  DEF PlanSnapshot, Plan, Empty, SequenceRange, Ranges
        <4>4. d.tracker.missing \in SUBSET Nat BY <2>5, ClientNumbers
        <4>5. d.tracker.expected = next BY <2>5, <4>2, <4>3
        <4>6. \A n \in d.tracker.missing : n \in 1 .. next - 1
          BY <1>2, <4>2, <4>4, <4>5
        <4> QED BY <4>2, <4>6
      <3>2. CASE d.state = "replaying"
        <4>1. ReplaysExactly(d, have', base') BY <2>5, <3>2 DEF ClientInv
        <4> QED BY <4>1 DEF ReplaysExactly
      <3> QED BY <2>5, <3>1, <3>2
    <2>8. d.entries = <<>>
      <3>1. CASE c.tracker.started /\ s = c.tracker.session
        <4>1. c.tracker.expected <= plan.resume
          BY <1>2, <2>2, <2>5, <2>7, <3>1 DEF SnapshotAt
        <4>2. EndBy(c.entries, plan.resume)
          <5> SUFFICES ASSUME NEW i \in DOMAIN c.entries
                       PROVE  c.entries[i].range.end <= plan.resume
            BY DEF EndBy
          <5>1. c.entries[i] \in Entries BY <1>3, LenProperties, ElementOfSeq
          <5>2. c.entries[i].range \in Askable BY <5>1 DEF Entries
          <5>3. c.entries[i].range.end \in Nat BY <5>2, Askables
          <5>4. c.entries[i].range.end <= c.tracker.expected BY <1>3 DEF EndBy
          <5> QED BY <2>2, <2>3, <4>1, <5>3, <5>4
        <4> QED BY <1>3, <2>3, <2>6, <4>2, AllCovered
      <3>2. CASE ~c.tracker.started \/ s # c.tracker.session
        <4>1. c.entries = <<>> BY <1>3, <3>2
        <4> QED BY <2>6, <4>1 DEF StopChasing, OnFilled
      <3> QED BY <3>1, <3>2
    <2>9. Asking(d) BY <2>5, <2>8, NothingAsked DEF Asking
    <2> QED BY <2>7, <2>8, <2>9, NothingAsked DEF ChasingInv
  <1>6. CASE plan.verdict = "stale"
    <2>1. client' = c BY <1>1, <1>6
    <2>2. CASE c = client BY <2>1, <2>2, ChasingStays
    <2>3. CASE c # client
      <3>1. c.state = "synchronising" /\ c.entries = <<>> BY <1>3, <2>3
      <3> QED BY <2>1, <3>1, NothingAsked DEF ChasingInv, Asking
    <2> QED BY <2>2, <2>3
  <1>7. CASE plan.verdict \notin {"usable", "stale"}
    <2>1. client' = Fail(c) BY <1>1, <1>7
    <2>2. client'.state = "failed" BY <1>3, <2>1 DEF Fail, IsClient, ClientsWith
    <2> QED BY <2>2 DEF ChasingInv
  <1> QED BY <1>5, <1>6, <1>7

LEMMA FinishReplayKeepsChasing ==
    ASSUME ClientInv, ChasingInv, FinishReplay
    PROVE  ChasingInv'
PROOF
  <1>1. /\ client.state = "replaying"
        /\ client' = [client EXCEPT !.held = NoRange, !.state = "live"]
    BY DEF FinishReplay
  <1>2. client \in ClientsWith(client.arbiter, client.entries)
    BY DEF ClientInv, ClientTypes, IsClient
  <1>3. /\ client'.state = "live" /\ client'.entries = client.entries
        /\ client'.tracker = client.tracker /\ client'.started = client.started
    BY <1>1, <1>2 DEF ClientsWith
  <1> QED BY <1>1, <1>3, ChasingStays

LEMMA PacketsKeepChasing ==
    ASSUME ClientInv, ChasingInv, Datagram \/ Heartbeat
    PROVE  ChasingInv'
PROOF
  <1>1. feed.next \in Nat \ {0} BY DEF ClientInv, ClientTypes
  <1>2. CASE Datagram
    <2>1. PICK f \in 1 .. feed.next - 1, n \in 1 .. MaxPacket, d \in Digest :
              Receive(feed.session, SequenceRange(f, f + n), d)
      BY <1>2 DEF Datagram
    <2>2. f \in Nat /\ n \in Nat /\ f > 0 /\ n > 0 BY <1>1, ClientAssumption
    <2>3. IsPacket(SequenceRange(f, f + n))
      BY <2>2 DEF IsPacket, Ranges, SequenceRange
    <2> QED BY <2>1, <2>3, ReceiveKeepsChasing
  <1>3. CASE Heartbeat
    <2>1. PICK f \in 1 .. feed.next : Receive(feed.session, SequenceRange(f, f), 0)
      BY <1>3 DEF Heartbeat
    <2>2. f \in Nat /\ f > 0 BY <1>1
    <2>3. IsPacket(SequenceRange(f, f)) BY <2>2 DEF IsPacket, Ranges, SequenceRange
    <2> QED BY <2>1, <2>3, ReceiveKeepsChasing
  <1> QED BY <1>2, <1>3

LEMMA InitChasing == Init => ChasingInv
PROOF
  <1> SUFFICES ASSUME Init PROVE ChasingInv OBVIOUS
  <1>1. /\ client.state = "synchronising" /\ client.entries = <<>>
    BY DEF Init
  <1> QED BY <1>1, NothingAsked DEF ChasingInv, Asking

LEMMA ChasingStep ==
    ASSUME Prompt, ClientInv, ChasingInv, [Next]_clientVars
    PROVE  ChasingInv'
PROOF
  <1>1. ClientInv' BY ClientStep
  <1>2. CASE Datagram \/ Heartbeat BY <1>2, PacketsKeepChasing
  <1>3. CASE Refusal BY <1>3, RefusalKeepsChasing
  <1>4. CASE Poll BY <1>4, PollKeepsChasing
  <1>5. CASE OnSnapshot BY <1>1, <1>5, OnSnapshotKeepsChasing
  <1>6. CASE FinishReplay BY <1>6, FinishReplayKeepsChasing
  <1>7. CASE Tick BY <1>7, TickKeepsChasing
  <1>8. CASE Publish \/ NewSession \/ ColdSnapshot \/ UNCHANGED clientVars
    <2>1. client' = client BY <1>8 DEF Publish, NewSession, ColdSnapshot, clientVars
    <2> QED BY <2>1, ChasingStays
  <1> QED BY <1>2, <1>3, <1>4, <1>5, <1>6, <1>7, <1>8 DEF Next

\* While the client streams, what its requester has entries for is what its
\* tracker calls missing: no hole is forgotten, and none is asked for that has
\* been filled or covered by a snapshot.
THEOREM ClientMissingIsChased == Prompt => (Spec => []MissingIsChased)
PROOF
  <1> SUFFICES ASSUME Prompt PROVE Spec => []MissingIsChased OBVIOUS
  <1>1. ClientInv /\ ChasingInv /\ [Next]_clientVars => ChasingInv' BY ChasingStep
  <1>2. ChasingInv => MissingIsChased BY DEF ChasingInv, MissingIsChased
  <1> QED BY <1>1, <1>2, InitChasing, ClientAlways, PTL DEF Spec

-----------------------------------------------------------------------------
(* That no message reaches Client's application twice, for every capacity,   *)
(* policy, packet and feed, whatever happens while a snapshot is awaited and *)
(* however stale the snapshot is: an invariant of its own, which asks nothing *)
(* of what the venue does while a snapshot is awaited.                       *)

\* What the application has is below the watermark and accounted for, as far as
\* packets may still be handed to it; so is what is buffered for it.
OnlyOnce(c, had) ==
    /\ c.state \in {"live", "replaying"} =>
        \A n \in had : /\ n \in Int /\ n < c.arbiter.before
                       /\ n < c.tracker.expected /\ n \notin c.tracker.missing
    /\ c.state = "replaying" => Numbers(c.held) \cap had = {}
    /\ Empty(c.held) \/ c.held.end <= c.arbiter.before

\* Nothing is said of how the arbiter's watermark and the tracker's expectation
\* compare: a stale snapshot sets the former back and leaves the latter.
ClientOnce(c, had) ==
    /\ IsClient(c)
    /\ c.state # "failed" => Coherent(c) /\ StateAgrees(c) /\ OnlyOnce(c, had)

OnceInv ==
    /\ ClientTypes
    /\ ClientOnce(client, have)
    /\ NoMessageTwice

LEMMA OnceAgrees ==
    ASSUME OnceInv, client.state # "failed"
    PROVE  IsClient(client) /\ Coherent(client) /\ StateAgrees(client)
           /\ OnlyOnce(client, have)
PROOF BY DEF OnceInv, ClientOnce

\* It depends on these parts of the client only.
LEMMA SameOnce ==
    ASSUME NEW c, NEW had, Coherent(c), StateAgrees(c), OnlyOnce(c, had),
           NEW d, IsClient(d), d.state = c.state, d.started = c.started,
           d.session = c.session, d.delivered = c.delivered,
           d.arbiter.before = c.arbiter.before,
           d.tracker = c.tracker, d.held = c.held
    PROVE  ClientOnce(d, had)
PROOF BY DEF ClientOnce, Coherent, StateAgrees, OnlyOnce

\* With nothing buffered, a client that recovers has nothing to get wrong.
LEMMA RecoveringOnce ==
    ASSUME NEW d, IsClient(d), d.state = "recovering", Coherent(d), Empty(d.held),
           NEW had
    PROVE  ClientOnce(d, had)
PROOF BY DEF ClientOnce, StateAgrees, OnlyOnce

-----------------------------------------------------------------------------
(* Receiving a packet.                                                       *)

\* While it streams: what is new lies above the watermark, what is repaired was
\* missing, and the application has neither.
LEMMA LiveOnce ==
    ASSUME NEW c, IsClient(c), Coherent(c), StateAgrees(c), c.state = "live",
           NEW had, OnlyOnce(c, had),
           NEW p, IsPacket(p), NEW done, TakesInSession(c, done, p),
           NEW fresh, fresh = Numbers(done.accepted)
    PROVE  /\ ClientOnce(done.client, had \cup (fresh \cup done.recovered))
           /\ (fresh \cup done.recovered) \cap had = {}
PROOF
  <1> DEFINE d == done.client
             ex == c.tracker.expected
             old == c.tracker.missing
             before == c.arbiter.before
             f == p.first
             e == p.end
  <1>1. /\ ex \in Nat /\ old \in SUBSET Nat /\ before \in Nat
        /\ f \in Nat /\ e \in Nat /\ f <= e
    BY ClientNumbers, PacketNumbers
  <1>2. \A n \in old : n < ex BY DEF Coherent
  <1>3. \A n \in had : n \in Int /\ n < before /\ n < ex /\ n \notin old
    BY DEF OnlyOnce
  <1>4. /\ IsClient(d) /\ d.started /\ d.session = c.session /\ d.state = "live"
        /\ d.held = c.held /\ Accounts(c.tracker, d.tracker, p)
        /\ d.arbiter.before = Greater(before, Greater(ex, e))
        /\ done.accepted = Novel(before, p)
        /\ done.recovered = old \cap (f .. e - 1)
    BY DEF TakesInSession, Watermark, Numbers
  <1>5. /\ d.tracker.expected = Greater(ex, e)
        /\ d.tracker.missing = (old \cup (ex .. f - 1)) \ (f .. e - 1)
    BY <1>4 DEF Accounts, Numbers
  <1>6. \A n : n \in fresh <=> n \in f .. e - 1 /\ n >= before
    BY <1>1, <1>4, NovelNumbers DEF Numbers
  <1>7. Empty(d.held) BY <1>4 DEF StateAgrees
  <1>8. Coherent(d) BY <1>4, PartsStayCoherent DEF StateAgrees
  <1>9. StateAgrees(d) BY <1>4, <1>7 DEF StateAgrees
  <1> HIDE DEF d, ex, old, before, f, e
  <1>10. ASSUME NEW n \in had \cup (fresh \cup done.recovered)
         PROVE  /\ n \in Int /\ n < d.arbiter.before
                /\ n < d.tracker.expected /\ n \notin d.tracker.missing
    <2>1. CASE n \in had
      <3>1. n \in Int /\ n < before /\ n < ex /\ n \notin old BY <1>3, <2>1
      <3> QED BY <1>1, <1>4, <1>5, <3>1 DEF Greater
    <2>2. CASE n \in fresh \cup done.recovered
      <3>1. n \in f .. e - 1 BY <1>4, <1>6, <2>2
      <3> QED BY <1>1, <1>4, <1>5, <3>1 DEF Greater
    <2> QED BY <2>1, <2>2
  <1>11. OnlyOnce(d, had \cup (fresh \cup done.recovered))
    BY <1>4, <1>7, <1>10 DEF OnlyOnce
  <1>12. (fresh \cup done.recovered) \cap had = {}
    <2> SUFFICES ASSUME NEW n \in had, n \in fresh \/ n \in done.recovered PROVE FALSE
      OBVIOUS
    <2>1. n \in Int /\ n < before /\ n \notin old BY <1>3
    <2> QED BY <1>1, <1>4, <1>6, <2>1
  <1> QED BY <1>4, <1>8, <1>9, <1>11, <1>12 DEF ClientOnce, d

\* While it recovers: what is new is buffered, and nothing is handed on.
LEMMA RecoveringPacketOnce ==
    ASSUME NEW c, IsClient(c), Coherent(c), c.started, c.state = "recovering",
           NEW had, OnlyOnce(c, had),
           NEW p, IsPacket(p), NEW done, TakesInSession(c, done, p),
           NEW e, e = HoldForReplay(done.client, done.accepted)
    PROVE  ClientOnce(e, had)
PROOF
  <1>1. IsClient(e)
    <2>1. done.accepted \in Ranges
      BY ClientNumbers, NovelIsARange DEF TakesInSession
    <2>2. IsClient(done.client) BY DEF TakesInSession
    <2> QED BY <2>1, <2>2, HeldClient
  <1>2. ASSUME e.state # "failed" PROVE ClientOnce(e, had)
    <2>1. Empty(c.held) \/ c.held.end <= c.arbiter.before BY DEF OnlyOnce
    <2>2. /\ Coherent(e) /\ e.state = "recovering"
          /\ e.arbiter.before = Watermark(c, p)
          /\ e.tracker.expected = Greater(c.tracker.expected, p.end)
      BY <1>2, <2>1, RecoveringPacket
    <2>3. e.tracker.expected <= e.arbiter.before
      <3>1. c.arbiter.before \in Nat /\ c.tracker.expected \in Nat /\ p.end \in Nat
        BY ClientNumbers, PacketNumbers
      <3> QED BY <2>2, <3>1 DEF Watermark, Greater
    <2>4. Empty(e.held) \/ e.held.end <= e.arbiter.before
      <3>1. Empty(e.held) \/ e.held.end <= e.tracker.expected BY <2>2 DEF Coherent
      <3>2. /\ e.held.end \in Nat /\ e.tracker.expected \in Nat
            /\ e.arbiter.before \in Nat
        BY <1>1, ClientNumbers
      <3> QED BY <2>3, <3>1, <3>2
    <2> QED BY <1>1, <2>2, <2>4 DEF ClientOnce, StateAgrees, OnlyOnce
  <1>3. CASE e.state = "failed" BY <1>1, <1>3 DEF ClientOnce
  <1> QED BY <1>2, <1>3

LEMMA InSessionOnce ==
    ASSUME OnceInv, TakesPackets, client.started, feed.session = client.session,
           NEW p, IsPacket(p), NEW digest,
           NEW done, done = OnPacket(client, feed.session, p, digest)
    PROVE  /\ ClientOnce(Handled(done), have \cup HandedOn(done))
           /\ HandedOn(done) \cap have = {}
PROOF
  <1> DEFINE c == client
             d == done.client
             e == Handled(done)
  <1>1. /\ IsClient(c) /\ Coherent(c) /\ StateAgrees(c) /\ OnlyOnce(c, have)
        /\ c.state \in {"live", "recovering"}
    <2>1. c.state # "failed" /\ c.state # "replaying" BY DEF TakesPackets
    <2>2. IsClient(c) /\ Coherent(c) /\ StateAgrees(c) /\ OnlyOnce(c, have)
      BY <2>1, OnceAgrees
    <2>3. c.state \in States BY <2>2, ClientNumbers
    <2> QED BY <2>1, <2>2, <2>3 DEF States, StateAgrees
  <1>2. \/ FailsOn(done) \/ IgnoresDuplicate(c, done, p)
        \/ GivesUpChasing(c, done, p) \/ TakesInSession(c, done, p)
    BY <1>1, PacketInSession
  <1>3. CASE FailsOn(done)
    <2>1. e = d /\ HandedOn(done) = {} BY <1>3, NoNumbers DEF FailsOn, Handled, HandedOn
    <2> QED BY <1>3, <2>1 DEF FailsOn, ClientOnce
  <1>4. CASE IgnoresDuplicate(c, done, p)
    <2>1. HandedOn(done) = {} BY <1>4, NoNumbers DEF IgnoresDuplicate, HandedOn
    <2>2. /\ IsClient(d) /\ d.started = c.started /\ d.session = c.session
          /\ d.state = c.state /\ d.held = c.held /\ d.tracker = c.tracker
          /\ d.delivered = c.delivered /\ d.arbiter.before = c.arbiter.before
          /\ done.error = "ok" /\ done.accepted = NoRange
      BY <1>1, <1>4, ClientNumbers DEF IgnoresDuplicate
    <2>3. CASE c.state = "live"
      <3>1. e = d BY <2>2, <2>3 DEF Handled
      <3>2. ClientOnce(d, have) BY <1>1, <2>2, SameOnce
      <3> QED BY <2>1, <3>1, <3>2
    <2>4. CASE c.state = "recovering"
      <3>1. e = HoldForReplay(d, done.accepted) BY <2>2, <2>4 DEF Handled
      <3>2. done.accepted \in Ranges /\ Empty(done.accepted) BY <2>2, NoNumbers
      <3>3. /\ IsClient(e)
            /\ \/ e.state = "failed"
               \/ /\ e.state = d.state /\ e.started = d.started
                  /\ e.session = d.session /\ e.delivered = d.delivered
                  /\ e.arbiter = d.arbiter /\ e.tracker = d.tracker
                  /\ e.held = d.held
        <4> HIDE DEF d, e
        <4>1. IsClient(d) BY <2>2
        <4>2. /\ IsClient(e)
              /\ \/ e.state = "failed"
                 \/ /\ e.state = d.state /\ e.started = d.started
                    /\ e.session = d.session /\ e.delivered = d.delivered
                    /\ e.arbiter = d.arbiter /\ e.tracker = d.tracker
                    /\ Empty(done.accepted) => e.held = d.held
          BY <3>1, <3>2, <4>1, HeldClient
        <4> QED BY <3>2, <4>2
      <3>4. ClientOnce(e, have)
        <4>1. CASE e.state = "failed" BY <3>3, <4>1 DEF ClientOnce
        <4>2. CASE e.state # "failed"
          <5>1. /\ IsClient(e) /\ e.state = c.state /\ e.started = c.started
                /\ e.session = c.session /\ e.delivered = c.delivered
                /\ e.arbiter.before = c.arbiter.before
                /\ e.tracker = c.tracker /\ e.held = c.held
            BY <2>2, <3>3, <4>2
          <5> HIDE DEF e
          <5> QED BY <1>1, <5>1, SameOnce
        <4> QED BY <4>1, <4>2
      <3> QED BY <2>1, <3>4
    <2> QED BY <1>1, <2>3, <2>4
  <1>5. CASE GivesUpChasing(c, done, p)
    <2>1. /\ done.error # "ok" /\ done.accepted = NoRange /\ done.recovered = {}
          /\ IsClient(d) /\ d.started /\ d.session = c.session
          /\ d.state = "recovering" /\ d.held = NoRange
          /\ d.tracker = c.tracker \/ Accounts(c.tracker, d.tracker, p)
      BY <1>5 DEF GivesUpChasing
    <2>2. e = d /\ HandedOn(done) = {} BY <2>1 DEF Handled, HandedOn
    <2>3. Coherent(d) BY <1>1, <2>1, NoNumbers, PartsStayCoherent
    <2>4. ClientOnce(d, have) BY <2>1, <2>3, NoNumbers, RecoveringOnce
    <2> QED BY <2>2, <2>4
  <1>6. CASE TakesInSession(c, done, p)
    <2>1. done.error = "ok" /\ d.state = c.state BY <1>6 DEF TakesInSession
    <2>2. CASE c.state = "live"
      <3>1. e = d /\ HandedOn(done) = Numbers(done.accepted) \cup done.recovered
        BY <2>1, <2>2 DEF Handled, HandedOn
      <3> QED BY <1>1, <1>6, <2>2, <3>1, LiveOnce
    <2>3. CASE c.state = "recovering"
      <3>1. e = HoldForReplay(d, done.accepted) /\ HandedOn(done) = {}
        BY <2>1, <2>3 DEF Handled, HandedOn
      <3>2. ClientOnce(e, have)
        BY <1>1, <1>6, <2>3, <3>1, RecoveringPacketOnce
      <3> QED BY <3>1, <3>2
    <2> QED BY <1>1, <2>2, <2>3
  <1> QED BY <1>2, <1>3, <1>4, <1>5, <1>6

LEMMA BeginsOnce ==
    ASSUME OnceInv, TakesPackets, ~client.started \/ feed.session # client.session,
           NEW p, IsPacket(p), NEW digest,
           NEW done, done = OnPacket(client, feed.session, p, digest)
    PROVE  ClientOnce(Handled(done), HandedOn(done))
PROOF
  <1> DEFINE c == client
             d == done.client
             e == Handled(done)
             s == feed.session
  <1>1. /\ IsClient(c) /\ Coherent(c) /\ s \in Nat
        /\ c.state \in {"synchronising", "live", "recovering"}
        /\ c.state = "live" => c.started
    <2>1. c.state # "failed" /\ c.state # "replaying" BY DEF TakesPackets
    <2>2. IsClient(c) /\ Coherent(c) /\ StateAgrees(c) BY <2>1, OnceAgrees
    <2>3. c.state \in States BY <2>2, ClientNumbers
    <2>4. s \in Nat BY DEF OnceInv, ClientTypes
    <2> QED BY <2>1, <2>2, <2>3, <2>4 DEF States, StateAgrees
  <1>2. p.first \in Nat /\ p.end \in Nat /\ p.first <= p.end BY PacketNumbers
  <1>3. FailsOn(done) \/ BeginsWith(c, done, s, p) BY <1>1, PacketBegins
  <1>4. CASE FailsOn(done)
    <2>1. e = d /\ HandedOn(done) = {} BY <1>4, NoNumbers DEF FailsOn, Handled, HandedOn
    <2> QED BY <1>4, <2>1 DEF FailsOn, ClientOnce
  <1>5. CASE BeginsWith(c, done, s, p)
    <2>1. /\ done.error = "ok" /\ done.recovered = {} /\ done.accepted = Novel(0, p)
          /\ IsClient(d) /\ d.started /\ d.session = s
          /\ d.tracker = Established(s, p.end) /\ d.arbiter.before = p.end
          /\ Empty(d.held) /\ d.state \in {"live", "recovering"}
      BY <1>5 DEF BeginsWith
    <2>2. /\ d.tracker.started /\ d.tracker.session = s /\ d.tracker.missing = {}
          /\ d.tracker.expected = p.end
      BY <2>1 DEF Established
    <2>3. Coherent(d) BY <2>1, <2>2 DEF Coherent
    <2>4. /\ \A n : n \in Numbers(done.accepted) => n \in Numbers(p)
          /\ ~Empty(done.accepted) => done.accepted.end = p.end
      BY <2>1, NovelNumbers
    <2>5. CASE d.state = "live"
      <3>1. e = d /\ HandedOn(done) = Numbers(done.accepted)
        BY <2>1, <2>5 DEF Handled, HandedOn
      <3>2. \A n \in HandedOn(done) : n \in Int /\ n < p.end
        BY <1>2, <2>4, <3>1 DEF Numbers
      <3>3. OnlyOnce(d, HandedOn(done)) BY <2>1, <2>2, <2>5, <3>2 DEF OnlyOnce
      <3>4. StateAgrees(d) BY <2>1 DEF StateAgrees
      <3> QED BY <2>1, <2>3, <3>1, <3>3, <3>4 DEF ClientOnce
    <2>6. CASE d.state = "recovering"
      <3>1. e = HoldForReplay(d, done.accepted)
        BY <2>1, <2>6 DEF Handled
      <3>2. done.accepted \in Ranges BY <2>1, NovelIsARange
      <3>3. /\ IsClient(e)
            /\ \/ e.state = "failed"
               \/ /\ e.state = d.state /\ e.started = d.started
                  /\ e.session = d.session /\ e.delivered = d.delivered
                  /\ e.arbiter = d.arbiter /\ e.tracker = d.tracker
                  /\ Empty(e.held) \/ e.held.end = p.end
        <4> HIDE DEF d, e
        <4>1. /\ IsClient(e)
              /\ \/ e.state = "failed"
                 \/ /\ e.state = d.state /\ e.started = d.started
                    /\ e.session = d.session /\ e.delivered = d.delivered
                    /\ e.arbiter = d.arbiter /\ e.tracker = d.tracker
                    /\ Empty(done.accepted) => e.held = d.held
                    /\ ~Empty(done.accepted) /\ Empty(d.held) =>
                            e.held.end = done.accepted.end
          <5>1. IsClient(d) BY <2>1
          <5> QED BY <3>1, <3>2, <5>1, HeldClient
        <4>2. CASE Empty(done.accepted)
          <5>1. e.state = "failed" \/ e.held = d.held BY <4>1, <4>2
          <5> QED BY <2>1, <4>1, <5>1
        <4>3. CASE ~Empty(done.accepted)
          <5>1. e.state = "failed" \/ e.held.end = p.end BY <2>1, <2>4, <4>1, <4>3
          <5> QED BY <4>1, <5>1
        <4> QED BY <4>2, <4>3
      <3>4. CASE e.state = "failed" BY <3>3, <3>4 DEF ClientOnce
      <3>5. CASE e.state # "failed"
        <4>1. /\ e.state = "recovering" /\ e.started /\ e.session = s
              /\ e.arbiter.before = p.end /\ e.tracker = d.tracker
              /\ Empty(e.held) \/ e.held.end = p.end
          BY <2>1, <2>6, <3>3, <3>5
        <4> HIDE DEF e
        <4>2. Coherent(e) BY <1>2, <2>2, <4>1 DEF Coherent
        <4>3. OnlyOnce(e, HandedOn(done)) BY <1>2, <4>1 DEF OnlyOnce
        <4>4. StateAgrees(e) BY <4>1 DEF StateAgrees
        <4> QED BY <3>3, <4>2, <4>3, <4>4 DEF ClientOnce, e
      <3> QED BY <3>4, <3>5
    <2> QED BY <2>1, <2>5, <2>6
  <1> QED BY <1>3, <1>4, <1>5

LEMMA ReceiveKeepsOnce ==
    ASSUME OnceInv, NEW p, IsPacket(p), NEW digest, Receive(feed.session, p, digest)
    PROVE  OnceInv'
PROOF
  <1> DEFINE done == OnPacket(client, feed.session, p, digest)
             renewed == OtherSession(client, feed.session) \/ ~client.started
             had == IF renewed THEN {} ELSE have
  <1>1. /\ TakesPackets /\ client' = Handled(done)
        /\ have' = had \cup HandedOn(done)
        /\ report' = [NoReport EXCEPT !.again = HandedOn(done) \cap had,
                                      !.both = Numbers(done.accepted) \cap done.recovered]
        /\ UNCHANGED <<feed, captured, requests>>
    BY DEF Receive, Handled, HandedOn
  <1> HIDE DEF done
  <1>2. report'.again = HandedOn(done) \cap had BY <1>1 DEF NoReport
  <1>3. ClientOnce(client', have') /\ report'.again = {}
    <2>1. CASE renewed
      <3>1. have' = HandedOn(done) /\ report'.again = {} BY <1>1, <1>2, <2>1
      <3>2. ~client.started \/ feed.session # client.session
        BY <2>1 DEF OtherSession
      <3> QED BY <1>1, <3>1, <3>2, BeginsOnce DEF done
    <2>2. CASE ~renewed
      <3>1. have' = have \cup HandedOn(done) /\ report'.again = HandedOn(done) \cap have
        BY <1>1, <1>2, <2>2
      <3>2. client.started /\ feed.session = client.session
        BY <2>2 DEF OtherSession
      <3> QED BY <1>1, <3>1, <3>2, InSessionOnce DEF done
    <2> QED BY <2>1, <2>2
  <1>4. ClientTypes' BY <1>1, <1>3 DEF OnceInv, ClientTypes, ClientOnce
  <1> QED BY <1>3, <1>4 DEF OnceInv, ClientOnce, NoMessageTwice

LEMMA DatagramKeepsOnce ==
    ASSUME OnceInv, Datagram
    PROVE  OnceInv'
PROOF
  <1>1. feed.next \in Nat \ {0} BY DEF OnceInv, ClientTypes
  <1>2. PICK f \in 1 .. feed.next - 1, n \in 1 .. MaxPacket, d \in Digest :
            Receive(feed.session, SequenceRange(f, f + n), d)
    BY DEF Datagram
  <1>3. f \in Nat /\ n \in Nat /\ f > 0 /\ n > 0 BY <1>1, ClientAssumption
  <1>4. IsPacket(SequenceRange(f, f + n)) BY <1>3 DEF IsPacket, Ranges, SequenceRange
  <1> QED BY <1>2, <1>4, ReceiveKeepsOnce

LEMMA HeartbeatKeepsOnce ==
    ASSUME OnceInv, Heartbeat
    PROVE  OnceInv'
PROOF
  <1>1. feed.next \in Nat \ {0} BY DEF OnceInv, ClientTypes
  <1>2. PICK f \in 1 .. feed.next : Receive(feed.session, SequenceRange(f, f), 0)
    BY DEF Heartbeat
  <1>3. f \in Nat /\ f > 0 BY <1>1
  <1>4. IsPacket(SequenceRange(f, f)) BY <1>3 DEF IsPacket, Ranges, SequenceRange
  <1> QED BY <1>2, <1>4, ReceiveKeepsOnce

-----------------------------------------------------------------------------
(* Escalation, and steps that leave the client's account alone.              *)

LEMMA EscalatedOnce ==
    ASSUME NEW c, IsClient(c), Coherent(c), NEW d, Escalated(c, d), NEW had
    PROVE  ClientOnce(d, had)
PROOF
  <1>1. Empty(d.held) /\ d.state = "recovering" /\ IsClient(d)
    BY NoNumbers DEF Escalated
  <1>2. Coherent(d) BY <1>1 DEF Escalated, Coherent
  <1> QED BY <1>1, <1>2, RecoveringOnce

LEMMA RefusalKeepsOnce ==
    ASSUME OnceInv, Refusal
    PROVE  OnceInv'
PROOF
  <1>1. PICK fatal \in BOOLEAN : Refused(fatal) BY DEF Refusal
  <1>2. /\ client' = IF client.state # "failed" /\ fatal THEN Escalate(client) ELSE client
        /\ report' = NoReport /\ UNCHANGED <<feed, captured, have>>
    BY <1>1 DEF Refused
  <1>3. ClientOnce(client', have')
    <2>1. CASE client.state # "failed" /\ fatal
      <3>1. IsClient(client) /\ Coherent(client) BY <2>1, OnceAgrees
      <3>2. Escalated(client, client') BY <1>2, <2>1, <3>1, EscalatedAsItIs
      <3> QED BY <3>1, <3>2, EscalatedOnce
    <2>2. CASE ~(client.state # "failed" /\ fatal) BY <1>2, <2>2 DEF OnceInv
    <2> QED BY <2>1, <2>2
  <1>4. ClientTypes' BY <1>2, <1>3 DEF OnceInv, ClientTypes, ClientOnce
  <1> QED BY <1>2, <1>3, <1>4, NothingWrong DEF OnceInv, NoMessageTwice

LEMMA TickKeepsOnce ==
    ASSUME OnceInv, Tick
    PROVE  OnceInv'
PROOF
  <1>1. /\ client' = [client EXCEPT !.entries = Aged(client.entries)]
        /\ report' = NoReport /\ UNCHANGED <<feed, captured, have>>
    BY DEF Tick
  <1>2. IsClient(client) BY DEF OnceInv, ClientTypes
  <1>3. /\ IsClient(client')
        /\ client'.state = client.state /\ client'.started = client.started
        /\ client'.session = client.session /\ client'.delivered = client.delivered
        /\ client'.arbiter = client.arbiter /\ client'.tracker = client.tracker
        /\ client'.held = client.held
    BY <1>1, <1>2, OtherEntries
  <1>4. ClientOnce(client', have')
    <2>1. CASE client.state = "failed" BY <1>3, <2>1 DEF ClientOnce
    <2>2. CASE client.state # "failed" BY <1>1, <1>3, <2>2, OnceAgrees, SameOnce
    <2> QED BY <2>1, <2>2
  <1>5. ClientTypes' BY <1>1, <1>3 DEF OnceInv, ClientTypes
  <1> QED BY <1>1, <1>4, <1>5, NothingWrong DEF OnceInv, NoMessageTwice

\* A snapshot that has been asked for is of some position of the feed.
LEMMA SnapshotTyped ==
    ASSUME ClientTypes, RequestSnapshot
    PROVE  /\ captured' \in [session : Nat, next : Nat]
           /\ captured' # NoSnapshot => captured'.next > 0
PROOF
  <1>1. /\ feed.next \in Nat \ {0} /\ feed.session \in Nat /\ Staleness \in Nat
        /\ captured \in [session : Nat, next : Nat]
        /\ captured # NoSnapshot => captured.next > 0
    BY ClientAssumption DEF ClientTypes
  <1> DEFINE position == IF Staleness >= feed.next THEN 1 ELSE feed.next - Staleness
  <1>2. position \in Nat /\ position > 0 BY <1>1
  <1>3. captured' = captured \/ captured' = [session |-> feed.session, next |-> position]
    BY DEF RequestSnapshot
  <1> HIDE DEF position
  <1> QED BY <1>1, <1>2, <1>3

LEMMA ColdSnapshotKeepsOnce ==
    ASSUME OnceInv, ColdSnapshot
    PROVE  OnceInv'
PROOF
  <1>1. RequestSnapshot /\ UNCHANGED <<client, feed, have, report>> BY DEF ColdSnapshot
  <1>2. ClientTypes' BY <1>1, SnapshotTyped DEF OnceInv, ClientTypes
  <1> QED BY <1>1, <1>2 DEF OnceInv, NoMessageTwice

LEMMA PollKeepsOnce ==
    ASSUME OnceInv, Poll
    PROVE  OnceInv'
PROOF
  <1> DEFINE next == Decide(client.entries)
             c == [client EXCEPT !.entries = next.entries]
  <1>1. /\ client.state \notin {"failed", "replaying"}
        /\ report' = NoReport /\ UNCHANGED <<feed, have>>
        /\ client' \in {client, c, Escalate(c)}
        /\ captured' = captured \/ RequestSnapshot
    BY DEF Poll
  <1>2. IsClient(client) /\ Coherent(client) /\ StateAgrees(client) /\ OnlyOnce(client, have)
    BY <1>1, OnceAgrees
  <1> HIDE DEF next
  <1>3. /\ IsClient(c)
        /\ c.state = client.state /\ c.started = client.started
        /\ c.session = client.session /\ c.delivered = client.delivered
        /\ c.arbiter = client.arbiter /\ c.tracker = client.tracker
        /\ c.held = client.held
    <2>1. c = [client EXCEPT !.entries = next.entries] OBVIOUS
    <2> HIDE DEF c
    <2> QED BY <1>2, <2>1, OtherEntries
  <1> HIDE DEF c
  <1>4. ClientOnce(client', have)
    <2>1. CASE client' = client BY <2>1 DEF OnceInv
    <2>2. CASE client' = c BY <1>2, <1>3, <2>2, SameOnce
    <2>3. CASE client' = Escalate(c)
      <3>1. Coherent(c) BY <1>2, <1>3 DEF Coherent
      <3>2. Escalated(c, client') BY <1>3, <2>3, EscalatedAsItIs
      <3> QED BY <1>3, <3>1, <3>2, EscalatedOnce
    <2> QED BY <1>1, <2>1, <2>2, <2>3
  <1>5. /\ captured' \in [session : Nat, next : Nat]
        /\ captured' # NoSnapshot => captured'.next > 0
    BY <1>1, SnapshotTyped DEF OnceInv, ClientTypes
  <1>6. ClientTypes' BY <1>1, <1>4, <1>5 DEF OnceInv, ClientTypes, ClientOnce
  <1> QED BY <1>1, <1>4, <1>6, NothingWrong DEF OnceInv, NoMessageTwice

LEMMA PublishKeepsOnce ==
    ASSUME OnceInv, Publish
    PROVE  OnceInv'
PROOF
  <1>1. /\ feed' = [feed EXCEPT !.next = @ + 1]
        /\ UNCHANGED <<client, captured, have, report>>
        /\ feed \in [session : Nat \ {0}, next : Nat \ {0}]
    BY DEF Publish, OnceInv, ClientTypes
  <1>2. feed' \in [session : Nat \ {0}, next : Nat \ {0}] BY <1>1
  <1>3. ClientTypes' BY <1>1, <1>2 DEF OnceInv, ClientTypes
  <1> QED BY <1>1, <1>3 DEF OnceInv, NoMessageTwice

LEMMA NewSessionKeepsOnce ==
    ASSUME OnceInv, NewSession
    PROVE  OnceInv'
PROOF
  <1>1. /\ feed' = [session |-> feed.session + 1, next |-> 1]
        /\ captured' \in {captured, NoSnapshot}
        /\ UNCHANGED <<client, have, report>>
        /\ feed \in [session : Nat \ {0}, next : Nat \ {0}]
    BY DEF NewSession, OnceInv, ClientTypes
  <1>2. feed' \in [session : Nat \ {0}, next : Nat \ {0}] BY <1>1
  <1>3. NoSnapshot \in [session : Nat, next : Nat] BY DEF NoSnapshot
  <1>4. ClientTypes' BY <1>1, <1>2, <1>3 DEF OnceInv, ClientTypes
  <1> QED BY <1>1, <1>4 DEF OnceInv, NoMessageTwice

-----------------------------------------------------------------------------
(* Replaying the buffer, and applying a snapshot.                            *)

LEMMA FinishReplayKeepsOnce ==
    ASSUME OnceInv, FinishReplay
    PROVE  OnceInv'
PROOF
  <1> DEFINE h == client.held
  <1>1. /\ client.state = "replaying"
        /\ client' = [client EXCEPT !.held = NoRange, !.state = "live"]
        /\ have' = have \cup Numbers(h)
        /\ report' = [NoReport EXCEPT !.again = have \cap Numbers(h)]
        /\ UNCHANGED <<feed, captured>>
    BY DEF FinishReplay
  <1>2. IsClient(client) /\ Coherent(client) /\ StateAgrees(client) /\ OnlyOnce(client, have)
    BY <1>1, OnceAgrees
  <1>3. /\ h.first \in Nat /\ h.end \in Nat /\ client.tracker.expected \in Nat
        /\ client.arbiter.before \in Nat
    BY <1>2, ClientNumbers
  <1>4. /\ client'.state = "live" /\ client'.started = client.started
        /\ client'.session = client.session /\ client'.delivered = client.delivered
        /\ client'.arbiter = client.arbiter /\ client'.tracker = client.tracker
        /\ client'.held = NoRange /\ IsClient(client')
    <2>1. NoRange \in Ranges /\ "live" \in States BY NoNumbers DEF States
    <2>2. /\ client' \in ClientsWith(client.arbiter, client.entries)
          /\ client'.state = "live" /\ client'.started = client.started
          /\ client'.session = client.session /\ client'.delivered = client.delivered
          /\ client'.arbiter = client.arbiter /\ client'.tracker = client.tracker
          /\ client'.entries = client.entries /\ client'.held = NoRange
      BY <1>1, <1>2, <2>1 DEF IsClient, ClientsWith
    <2> QED BY <1>2, <2>2 DEF IsClient
  <1>5. \A n \in Numbers(h) : /\ n \in Int /\ n < client.arbiter.before
                             /\ n < client.tracker.expected
                             /\ n \notin client.tracker.missing
    <2> SUFFICES ASSUME NEW n \in Numbers(h)
                 PROVE  /\ n \in Int /\ n < client.arbiter.before
                        /\ n < client.tracker.expected
                        /\ n \notin client.tracker.missing
      OBVIOUS
    <2>1. n \in Int /\ n < h.end /\ ~Empty(h) BY <1>3 DEF Numbers, Empty
    <2>2. h.end <= client.arbiter.before /\ h.end <= client.tracker.expected
      BY <1>2, <2>1 DEF OnlyOnce, Coherent
    <2>3. n \notin client.tracker.missing BY <1>2, <2>1 DEF Coherent
    <2> QED BY <1>3, <2>1, <2>2, <2>3
  <1>6. have \cap Numbers(h) = {} BY <1>1, <1>2 DEF OnlyOnce
  <1>7. OnlyOnce(client', have')
    BY <1>1, <1>2, <1>4, <1>5, NoNumbers DEF OnlyOnce
  <1>8. Coherent(client') BY <1>1, <1>2, <1>4, NoNumbers DEF Coherent, StateAgrees
  <1>9. StateAgrees(client') BY <1>1, <1>2, <1>4, NoNumbers DEF StateAgrees
  <1>10. ClientTypes' BY <1>1, <1>4 DEF OnceInv, ClientTypes
  <1>11. report'.again = {} BY <1>1, <1>6 DEF NoReport
  <1> QED BY <1>4, <1>7, <1>8, <1>9, <1>10, <1>11
          DEF OnceInv, ClientOnce, NoMessageTwice

\* A client that goes on from a snapshot has what the snapshot stands for.
LEMMA GoesOnOnce ==
    ASSUME NEW d, NEW s, NEW next \in Nat, GoesOn(d, s, next)
    PROVE  ClientOnce(d, 1 .. next - 1)
PROOF
  <1>1. /\ IsClient(d) /\ PartsAgree(d) /\ StateAgrees(d)
        /\ d.state \in {"live", "replaying"}
        /\ d.state = "live" => StreamsExactly(d, 1 .. next - 1, 1)
        /\ d.state = "replaying" => ReplaysExactly(d, 1 .. next - 1, 1)
    BY DEF GoesOn
  <1>2. /\ d.arbiter.before \in Nat /\ d.tracker.expected \in Nat
        /\ d.tracker.missing \in SUBSET Nat /\ d.held.first \in Nat /\ d.held.end \in Nat
    BY <1>1, ClientNumbers
  <1>3. CASE d.state = "live"
    <2>1. \A n \in 1 .. next - 1 : /\ n \in Int /\ n < d.tracker.expected
                                  /\ n \notin d.tracker.missing
      BY <1>1, <1>2, <1>3 DEF StreamsExactly
    <2>2. d.arbiter.before = d.tracker.expected BY <1>1, <1>3 DEF StreamsExactly
    <2>3. Empty(d.held) BY <1>1, <1>3 DEF StateAgrees
    <2>4. OnlyOnce(d, 1 .. next - 1) BY <1>3, <2>1, <2>2, <2>3 DEF OnlyOnce
    <2> QED BY <1>1, <2>4 DEF ClientOnce, PartsAgree
  <1>4. CASE d.state = "replaying"
    <2>1. /\ d.arbiter.before = d.tracker.expected /\ d.tracker.missing = {}
          /\ ~Empty(d.held) /\ d.held.end = d.tracker.expected
          /\ 1 .. next - 1 = 1 .. d.held.first - 1
      BY <1>1, <1>4 DEF ReplaysExactly
    <2>2. \A n \in 1 .. d.held.first - 1 : n \in Int /\ n < d.tracker.expected
      BY <1>2, <2>1 DEF Empty
    <2>3. Numbers(d.held) \cap (1 .. d.held.first - 1) = {} BY <1>2 DEF Numbers
    <2>4. OnlyOnce(d, 1 .. next - 1) BY <1>2, <1>4, <2>1, <2>2, <2>3 DEF OnlyOnce
    <2> QED BY <1>1, <2>4 DEF ClientOnce, PartsAgree
  <1> QED BY <1>1, <1>3, <1>4

\* A snapshot of the session the client is in: the tracker forgets what is
\* before it and keeps the rest, and of the buffer the rest is replayed.
LEMMA SnapshotOnce ==
    ASSUME NEW c, IsClient(c), Coherent(c), c.started,
           NEW next \in Nat, next > 0,
           NEW plan, plan = PlanSnapshot(next, c.held, c.delivered),
           plan.verdict = "usable",
           NEW d, d = ApplySnapshot(c, c.session, next, plan)
    PROVE  ClientOnce(d, 1 .. next - 1)
PROOF
  <1> DEFINE ex == c.tracker.expected
             old == c.tracker.missing
             h == c.held
  <1>1. /\ ex \in Nat /\ old \in SUBSET Nat /\ h.first \in Nat /\ h.end \in Nat
        /\ h \in Ranges /\ c.session \in Nat
    BY ClientNumbers
  <1>2. /\ c.tracker.started /\ c.tracker.session = c.session
        /\ \A n \in old : n < ex
        /\ ~Empty(h) => h.end <= ex /\ \A n \in Numbers(h) : n \notin old
    BY DEF Coherent
  <1>3. \/ plan = Plan("usable", NoRange, next)
        \/ /\ ~Empty(h) /\ h.first <= next /\ next < h.end
           /\ plan = Plan("usable", SequenceRange(next, h.end), h.end)
    BY <1>1 DEF PlanSnapshot, Plan
  <1>4. /\ plan.resume \in Nat /\ plan.resume >= next /\ plan.replay \in Ranges
        /\ \/ plan.replay = NoRange
           \/ /\ ~Empty(h) /\ h.first <= next /\ next < h.end
              /\ plan.replay.first = next /\ plan.resume = h.end /\ ~Empty(plan.replay)
    BY <1>1, <1>3 DEF Plan, NoRange, SequenceRange, Ranges, Empty
  <1> HIDE DEF ex, old, h
  <1>5. Applied(c, c.session, next, plan, d) BY <1>1, <1>4, AppliedClient
  <1>6. /\ IsClient(d) /\ d.started /\ d.session = c.session
        /\ d.arbiter.before = plan.resume
        /\ d.state = IF Empty(plan.replay) THEN "live" ELSE "replaying"
        /\ d.held = IF Empty(plan.replay) THEN NoRange
                    ELSE DropBelow(h, plan.replay.first)
        /\ d.tracker = SnapshotAt(c.tracker, c.session, next)
    BY <1>5 DEF Applied, h
  <1>7. /\ d.tracker.started /\ d.tracker.session = c.session
        /\ d.tracker.missing = From(old, next)
        /\ d.tracker.expected = IF next > ex THEN next ELSE ex
    BY <1>2, <1>6 DEF SnapshotAt, ex, old
  <1>8. \A n \in d.tracker.missing : n \in Nat /\ n >= next /\ n \in old
    BY <1>1, <1>7 DEF From
  <1>9. \A n \in d.tracker.missing : n < d.tracker.expected
    BY <1>1, <1>2, <1>7, <1>8 DEF old, ex
  <1>10. \A n \in 1 .. next - 1 : /\ n \in Int /\ n < d.arbiter.before
                                 /\ n < d.tracker.expected /\ n \notin d.tracker.missing
    BY <1>1, <1>4, <1>6, <1>7, <1>8
  <1>11. CASE plan.replay = NoRange
    <2>1. d.state = "live" /\ d.held = NoRange BY <1>6, <1>11, NoNumbers
    <2>2. Coherent(d) BY <1>6, <1>7, <1>9, <2>1, NoNumbers DEF Coherent
    <2>3. StateAgrees(d) BY <1>6, <2>1, NoNumbers DEF StateAgrees
    <2>4. OnlyOnce(d, 1 .. next - 1) BY <1>10, <2>1, NoNumbers DEF OnlyOnce
    <2> QED BY <1>6, <2>2, <2>3, <2>4 DEF ClientOnce
  <1>12. CASE /\ ~Empty(h) /\ h.first <= next /\ next < h.end
              /\ plan.replay.first = next /\ plan.resume = h.end /\ ~Empty(plan.replay)
    <2>1. d.state = "replaying" /\ d.held = DropBelow(h, next) BY <1>6, <1>12
    <2>2. d.held.first = next /\ d.held.end = h.end
      BY <1>1, <1>12, <2>1 DEF DropBelow, SequenceRange, Empty
    <2>3. \A n \in Numbers(d.held) : n \in Int /\ n >= next /\ n \in Numbers(h)
      BY <1>1, <1>12, <2>2 DEF Numbers
    <2>4. h.end <= ex /\ \A n \in Numbers(h) : n \notin old
      BY <1>2, <1>12 DEF h, ex, old
    <2>5. d.held.end <= d.tracker.expected BY <1>1, <1>7, <2>2, <2>4
    <2>6. \A n \in Numbers(d.held) : n \notin d.tracker.missing BY <1>8, <2>3, <2>4
    <2>7. Coherent(d) BY <1>6, <1>7, <1>9, <2>5, <2>6 DEF Coherent
    <2>8. StateAgrees(d) BY <1>6, <2>1 DEF StateAgrees
    <2>9. Numbers(d.held) \cap (1 .. next - 1) = {} BY <2>3
    <2>10. d.held.end <= d.arbiter.before BY <1>1, <1>6, <1>12, <2>2
    <2>11. OnlyOnce(d, 1 .. next - 1) BY <1>10, <2>9, <2>10 DEF OnlyOnce
    <2> QED BY <1>6, <2>7, <2>8, <2>11 DEF ClientOnce
  <1> QED BY <1>4, <1>11, <1>12

LEMMA OnSnapshotKeepsOnce ==
    ASSUME OnceInv, OnSnapshot
    PROVE  OnceInv'
PROOF
  <1> DEFINE s == captured.session
             next == captured.next
             c == IF OtherSession(client, s) THEN RestartForNewSession(client, s)
                  ELSE client
             plan == PlanSnapshot(next, c.held, c.delivered)
  <1>1. /\ captured # NoSnapshot /\ client.state # "failed"
        /\ captured' = NoSnapshot /\ report' = NoReport /\ UNCHANGED feed
        /\ IF plan.verdict = "usable"
           THEN client' = ApplySnapshot(c, s, next, plan) /\ have' = 1 .. next - 1
           ELSE /\ client' = IF plan.verdict = "stale" THEN c ELSE Fail(c)
                /\ have' = have
    BY DEF OnSnapshot
  <1>2. /\ IsClient(client) /\ Coherent(client) /\ StateAgrees(client)
        /\ s \in Nat /\ next \in Nat /\ next > 0
    BY <1>1, OnceAgrees DEF OnceInv, ClientTypes
  <1> HIDE DEF plan
  <1>3. /\ IsClient(c)
        /\ \/ c = client /\ client.started /\ s = client.session
           \/ /\ c.delivered = 0 /\ Empty(c.held)
              /\ SnapshotAt(c.tracker, s, next) = Established(s, next)
    <2>1. CASE OtherSession(client, s)
      <3>1. c = RestartForNewSession(client, s) /\ s \in Nat BY <1>2, <2>1
      <3>2. /\ client.started /\ s # client.session
            /\ client.tracker.started /\ client.tracker.session = client.session
        BY <1>2, <2>1 DEF OtherSession, Coherent
      <3> HIDE DEF c, s
      <3>3. Restarted(client, s, c) BY <1>2, <3>1, RestartedClient
      <3>4. IsClient(c) /\ c.delivered = 0 /\ c.held = NoRange /\ c.tracker = client.tracker
        BY <3>3 DEF Restarted
      <3> QED BY <3>2, <3>4, NoNumbers DEF SnapshotAt
    <2>2. CASE ~OtherSession(client, s) /\ client.started
      BY <1>2, <2>2 DEF OtherSession
    <2>3. CASE ~client.started
      <3>1. c = client BY <2>3 DEF OtherSession
      <3>2. /\ ~client.tracker.started /\ client.tracker.missing = {}
            /\ Empty(client.held) /\ client.delivered = 0
        BY <1>2, <2>3 DEF Coherent
      <3>3. From({}, next) = {} BY DEF From
      <3> QED BY <1>2, <3>1, <3>2, <3>3 DEF SnapshotAt, Established
    <2> QED BY <2>1, <2>2, <2>3
  <1>4. plan = PlanSnapshot(next, c.held, c.delivered) BY DEF plan
  <1> HIDE DEF c
  <1>5. ClientOnce(client', have')
    <2>1. CASE c = client /\ client.started /\ s = client.session
      <3>1. CASE plan.verdict = "usable"
        BY <1>1, <1>2, <1>4, <2>1, <3>1, SnapshotOnce
      <3>2. CASE plan.verdict = "stale" BY <1>1, <2>1, <3>2 DEF OnceInv
      <3>3. CASE plan.verdict \notin {"usable", "stale"}
        <4>1. client' = [client EXCEPT !.state = "failed"] BY <1>1, <2>1, <3>3 DEF Fail
        <4>2. /\ client' \in ClientsWith(client.arbiter, client.entries)
              /\ client'.state = "failed"
              /\ client'.arbiter = client.arbiter /\ client'.entries = client.entries
          BY <1>2, <4>1 DEF IsClient, ClientsWith, States
        <4> QED BY <1>2, <4>2 DEF IsClient, ClientOnce
      <3> QED BY <3>1, <3>2, <3>3
    <2>2. CASE /\ c.delivered = 0 /\ Empty(c.held)
               /\ SnapshotAt(c.tracker, s, next) = Established(s, next)
      <3>1. plan = Plan("usable", NoRange, next) BY <1>2, <1>4, <2>2 DEF PlanSnapshot
      <3>2. /\ client' = ApplySnapshot(c, s, next, Plan("usable", NoRange, next))
            /\ have' = 1 .. next - 1
        BY <1>1, <3>1 DEF Plan
      <3>3. GoesOn(client', s, next) BY <1>2, <1>3, <2>2, <3>2, SnapshotAlone
      <3> QED BY <1>2, <3>2, <3>3, GoesOnOnce
    <2> QED BY <1>3, <2>1, <2>2
  <1>6. ClientTypes'
    <2>1. NoSnapshot \in [session : Nat, next : Nat] BY DEF NoSnapshot
    <2> QED BY <1>1, <1>5, <2>1 DEF OnceInv, ClientTypes, ClientOnce
  <1> QED BY <1>1, <1>5, <1>6, NothingWrong DEF OnceInv, NoMessageTwice

-----------------------------------------------------------------------------
(* The invariant holds, and so does what it says.                            *)

LEMMA InitOnce == Init => OnceInv
PROOF
  <1> SUFFICES ASSUME Init PROVE OnceInv OBVIOUS
  <1>1. /\ client.state = "synchronising" /\ client.held = NoRange
        /\ report = NoReport
    BY DEF Init
  <1>2. ClientTypes /\ Coherent(client) /\ StateAgrees(client)
    BY <1>1, InitClient DEF ClientInv, PartsAgree
  <1>3. OnlyOnce(client, have) BY <1>1, NoNumbers DEF OnlyOnce
  <1>4. ClientOnce(client, have) BY <1>2, <1>3 DEF ClientTypes, ClientOnce
  <1> QED BY <1>1, <1>2, <1>4, NothingWrong DEF OnceInv, NoMessageTwice

LEMMA OnceStep ==
    ASSUME OnceInv, [Next]_clientVars
    PROVE  OnceInv'
PROOF
  <1>1. CASE UNCHANGED clientVars
    BY <1>1 DEF clientVars, OnceInv, ClientTypes, NoMessageTwice
  <1> QED BY <1>1, DatagramKeepsOnce, HeartbeatKeepsOnce, RefusalKeepsOnce,
             PollKeepsOnce, OnSnapshotKeepsOnce, FinishReplayKeepsOnce,
             PublishKeepsOnce, NewSessionKeepsOnce, TickKeepsOnce,
             ColdSnapshotKeepsOnce DEF Next

\* However packets are lost, repeated and reordered, whatever is refused,
\* escalated, replayed or begun anew, and however stale the snapshots are, no
\* message of a session reaches the application of recovery/client.hpp twice.
THEOREM ClientNoMessageTwice == Spec => []NoMessageTwice
PROOF
  <1>1. OnceInv /\ [Next]_clientVars => OnceInv' BY OnceStep
  <1>2. OnceInv => NoMessageTwice BY DEF OnceInv
  <1> QED BY <1>1, <1>2, InitOnce, PTL DEF Spec

=============================================================================
