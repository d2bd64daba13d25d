------------------------------- MODULE Client -------------------------------
(* recovery/client.hpp: arbiter, gap tracker, requester and replay buffer    *)
(* composed into one recovery client, with the venue and the network around  *)
(* it and the application below it.                                          *)
(*                                                                           *)
(* The client is single-threaded, so each of its operations is one action,   *)
(* together with what its owner does with the answer before calling again:   *)
(* hand messages to the application or buffer them for replay.  Everything   *)
(* between the calls is asynchronous: any published packet may be lost,      *)
(* delayed, repeated or reordered, requests and snapshots take any time.     *)
EXTENDS TrackerOps, ArbiterOps, RequesterOps, ReplayOps

CONSTANTS
    Digest,             \* digests a packet may carry; one when lines agree
    DetectDivergence,   \* arbiter_options::detect_divergence
    Staleness,          \* snapshot_options::staleness_messages
    Adverse,            \* events while a snapshot is awaited, of
                        \*   "refusal": a request sent earlier is refused
                        \*   "heartbeat": one moves the expectation ahead
                        \*   "overload": a packet exceeds the room for holes
                        \*   "snapshot": it is of a session that has ended
    MaxPacket,          \* bound: messages in a packet
    MaxSequence,        \* bound: messages published in the first session,
    MaxLater,           \*   and in each later one
    MaxSession,         \* bound: sessions
    MaxRequests,        \* bound: requests counted as open to refusal
    MaxAge              \* bound: the clock waits for a poll of an entry this old

ASSUME ClientAssumption ==
    /\ DetectDivergence \in BOOLEAN
    /\ Staleness \in Nat
    /\ Adverse \subseteq {"refusal", "heartbeat", "overload", "snapshot"}
    /\ MaxPacket \in Nat \ {0} /\ MaxSession \in Nat \ {0}
    /\ MaxSequence \in Nat /\ MaxLater \in 0 .. MaxSequence
    /\ MaxAge \in Nat /\ MaxAge > RetentionWindow

VARIABLES
    client,     \* state, started, session, delivered (delivered_before_), and
                \*   the parts: arbiter, tracker, entries, held
    feed,       \* the venue's session and the next sequence it will publish
    captured,   \* the snapshot on its way, or NoSnapshot
    requests,   \* retransmit requests that may still be refused
    have,       \* history: messages whose effect the application has
    base,       \* history: where the application joined the session
    report      \* history: messages the last operation got wrong, by how

clientVars == <<client, feed, captured, requests, have, base, report>>

NoSnapshot == [session |-> 0, next |-> 0]

\* again: handed to the application, which had them; both: reported as newly
\* arrived and as repaired.
NoReport == [again |-> {}, both |-> {}]

Init ==
    /\ client = [state |-> "synchronising", started |-> FALSE, session |-> 0,
                 delivered |-> 0, arbiter |-> FreshStream, tracker |-> Fresh,
                 entries |-> <<>>, held |-> NoRange]
    /\ feed = [session |-> 1, next |-> 1]
    /\ captured = NoSnapshot
    /\ requests = 0
    /\ have = {} /\ base = 1
    /\ report = NoReport

-----------------------------------------------------------------------------
(* Parts of client's operations.                                             *)
Escalate(c) == [c EXCEPT !.state = "recovering", !.held = NoRange]
Fail(c) == [c EXCEPT !.state = "failed"]

\* Mutant: the old session's requests go on.
RestartStillAsking(c, session) ==
    [c EXCEPT !.arbiter = ResetStream(@), !.held = NoRange,
              !.session = session, !.delivered = 0, !.state = "synchronising"]

RestartForNewSession(c, session) ==
    [c EXCEPT !.arbiter = ResetStream(@), !.held = NoRange, !.entries = <<>>,
              !.session = session, !.delivered = 0, !.state = "synchronising"]

OtherSession(c, session) == c.started /\ session # c.session

Ingested(c, accepted, recovered, error) ==
    [client |-> c, accepted |-> accepted, recovered |-> recovered, error |-> error]

\* on_packet after the tracker has accounted for the packet: the requester is
\* told of a hole opened or filled, and the state follows.
Sequenced(c, seen, accepted, recovered) ==
    LET asked == CASE seen.outcome = "gap_opened" -> OnGap(c.entries, seen.range)
                   [] seen.outcome = "gap_filled" -> OnFilled(c.entries, seen.range)
                   [] OTHER -> [entries |-> c.entries, error |-> "ok"]
        d == [c EXCEPT !.entries = asked.entries]
        live == IF d.state = "synchronising" THEN "live" ELSE d.state
        delivered == IF live = "recovering" THEN d.delivered
                     ELSE Greater(d.delivered, accepted.end)
    IN  IF asked.error # "ok"
        THEN Ingested(Escalate(d), NoRange, {}, asked.error)
        ELSE Ingested([d EXCEPT !.state = live, !.delivered = delivered],
                      accepted, recovered, "ok")

\* Mutant: holes of the old session are taken for holes of the new one.
RepairedAcrossSessions(c, changed, arrived) == c.tracker.missing \cap Numbers(arrived)

\* last_recovered_: which holes the packet repairs, none across sessions.
Repaired(c, changed, arrived) ==
    IF changed THEN {} ELSE c.tracker.missing \cap Numbers(arrived)

\* The tracker's new account, and the arbiter kept in step with it.
Tracked(c, t) == [c EXCEPT !.tracker = t, !.arbiter = Adopt(@, t.expected)]

\* on_packet, in a state that takes packets.
OnPacket(c0, session, arrived, digest) ==
    LET changed == OtherSession(c0, session)
        c1 == IF changed THEN RestartForNewSession(c0, session) ELSE c0
        merged == Offer(c1.arbiter, arrived, digest, DetectDivergence)
        c2 == [c1 EXCEPT !.arbiter = merged.arbiter, !.started = TRUE,
                         !.session = session]
        recovered == Repaired(c2, changed, arrived)
        seen == Observe(c2.tracker, session, arrived)
        c3 == Tracked(c2, seen.tracker)
    IN  IF merged.outcome = "lines_diverged"
        THEN Ingested(Fail(c1), NoRange, {}, "lines_diverged")
        ELSE IF ~Empty(arrived) /\ Empty(merged.deliver) /\ recovered = {}
        THEN Ingested(c2, NoRange, {}, "ok")                \* a plain duplicate
        ELSE IF seen.outcome = "capacity_exceeded"
        THEN Ingested(Escalate(c2), NoRange, {}, "capacity_exceeded")
        ELSE Sequenced(c3, seen, merged.deliver, recovered)

\* buffer_message for each message the report said was held.
HoldForReplay(c, accepted) ==
    LET done == Appended(c.held, accepted)
        d == [c EXCEPT !.held = done.held]
    IN  IF done.error = "ok" THEN d ELSE Fail(d)

\* The requester forgets what the snapshot and the replay bring.
StopChasing(es, resume) == OnFilled(es, SequenceRange(0, resume)).entries

\* Mutant: the arbiter's watermark is cleared and not set again.
ResumeAnywhere(a, resume) == ResetStream(a)

ResumeAt(a, resume) == Adopt(ResetStream(a), resume)

\* on_snapshot once the plan is usable.
ApplySnapshot(c, session, next, plan) ==
    [c EXCEPT !.held = IF Empty(plan.replay) THEN NoRange
                       ELSE DropBelow(@, plan.replay.first),
              !.tracker = SnapshotAt(@, session, next),
              !.entries = StopChasing(@, plan.resume),
              !.arbiter = ResumeAt(@, plan.resume),
              !.delivered = plan.resume,
              !.session = session,
              !.started = TRUE,
              !.state = IF Empty(plan.replay) THEN "live" ELSE "replaying"]

-----------------------------------------------------------------------------
(* The client's operations.                                                  *)
TakesPackets == client.state \notin {"failed", "replaying"}

\* The owner hands the repairs and the new messages to the application, or
\* buffers the new ones.
Receive(session, arrived, digest) ==
    LET done == OnPacket(client, session, arrived, digest)
        c == done.client
        hold == c.state = "recovering"
        fresh == Numbers(done.accepted)
        renewed == OtherSession(client, session) \/ ~client.started
        had == IF renewed THEN {} ELSE have
        delivered == IF hold THEN {} ELSE fresh \cup done.recovered
    IN  /\ TakesPackets
        /\ client' = IF done.error = "ok" /\ hold
                     THEN HoldForReplay(c, done.accepted) ELSE c
        /\ have' = had \cup delivered
        /\ base' = IF renewed THEN arrived.first ELSE base
        /\ report' = [NoReport EXCEPT !.again = delivered \cap had,
                                      !.both = fresh \cap done.recovered]
        /\ UNCHANGED <<feed, captured, requests>>

Refused(fatal) ==
    /\ requests > 0
    /\ requests' = requests - 1
    /\ client' = IF client.state # "failed" /\ fatal THEN Escalate(client) ELSE client
    /\ report' = NoReport
    /\ UNCHANGED <<feed, captured, have, base>>

\* The snapshot facility captures its position when the request arrives, and
\* builds one snapshot at a time.
RequestSnapshot ==
    captured' = IF captured # NoSnapshot \/ feed.next = 1 THEN captured
                ELSE [session |-> feed.session,
                      next |-> IF Staleness >= feed.next THEN 1
                               ELSE feed.next - Staleness]

Poll ==
    /\ client.state \notin {"failed", "replaying"}
    /\ IF client.state = "recovering"
       THEN RequestSnapshot /\ report' = NoReport /\ UNCHANGED <<client, requests>>
       ELSE LET next == Decide(client.entries)
                c == [client EXCEPT !.entries = next.entries]
            IN  /\ client' = IF next.what = "abandon" THEN Escalate(c) ELSE c
                /\ IF next.what = "abandon" THEN RequestSnapshot ELSE UNCHANGED captured
                /\ requests' = IF next.what = "send"
                               THEN Lesser(MaxRequests, requests + 1) ELSE requests
                /\ report' = NoReport
    /\ UNCHANGED <<feed, have, base>>

\* The snapshot replaces the application's book by the state before `next'.
OnSnapshot ==
    LET session == captured.session
        next == captured.next
        c == IF OtherSession(client, session)
             THEN RestartForNewSession(client, session) ELSE client
        plan == PlanSnapshot(next, c.held, c.delivered)
    IN  /\ captured # NoSnapshot
        /\ client.state # "failed"
        /\ captured' = NoSnapshot
        /\ report' = NoReport
        /\ IF plan.verdict = "usable"
           THEN /\ client' = ApplySnapshot(c, session, next, plan)
                /\ have' = 1 .. next - 1
                /\ base' = 1
           ELSE /\ client' = IF plan.verdict = "stale" THEN c ELSE Fail(c)
                /\ UNCHANGED <<have, base>>
        /\ UNCHANGED <<feed, requests>>

\* The owner replays the buffer into the application and says so.
FinishReplay ==
    /\ client.state = "replaying"
    /\ client' = [client EXCEPT !.held = NoRange, !.state = "live"]
    /\ have' = have \cup Numbers(client.held)
    /\ report' = [NoReport EXCEPT !.again = have \cap Numbers(client.held)]
    /\ UNCHANGED <<feed, captured, requests, base>>

-----------------------------------------------------------------------------
(* The surroundings.                                                         *)
Publish ==
    /\ feed.next <= IF feed.session = 1 THEN MaxSequence ELSE MaxLater
    /\ feed' = [feed EXCEPT !.next = @ + 1]
    /\ UNCHANGED <<client, captured, requests, have, base, report>>

\* The venue starts a new session; what was asked of the old one is moot.
NewSession ==
    /\ feed.session < MaxSession
    /\ feed' = [session |-> feed.session + 1, next |-> 1]
    /\ captured' = IF "snapshot" \in Adverse THEN captured ELSE NoSnapshot
    /\ requests' = 0
    /\ UNCHANGED <<client, have, base, report>>

Tick ==
    /\ client.entries # <<>>
    /\ \A i \in DOMAIN client.entries : client.entries[i].age < MaxAge
    /\ client' = [client EXCEPT !.entries = Aged(@)]
    /\ report' = NoReport
    /\ UNCHANGED <<feed, captured, requests, have, base>>

AwaitsSnapshot == client.state = "recovering" \/ captured # NoSnapshot

\* There is no room for what the packet says; any other error fails the client.
Overloaded(done) == done.error # "ok" /\ done.client.state # "failed"

\* A copy of anything published so far, from either line or a retransmit.
Datagram ==
    \E f \in 1 .. feed.next - 1, n \in 1 .. MaxPacket, d \in Digest :
        /\ f + n <= feed.next
        /\ LET p == SequenceRange(f, f + n)
           IN  /\ AwaitsSnapshot /\ Overloaded(OnPacket(client, feed.session, p, d))
                  => "overload" \in Adverse
               /\ Receive(feed.session, p, d)

Heartbeat ==
    \E f \in 1 .. feed.next :
        /\ AwaitsSnapshot
              /\ (f > client.tracker.expected \/ OtherSession(client, feed.session))
           => "heartbeat" \in Adverse
        /\ Receive(feed.session, SequenceRange(f, f), 0)

Refusal ==
    \E fatal \in BOOLEAN :
        /\ AwaitsSnapshot => "refusal" \in Adverse
        /\ Refused(fatal)

\* A client may be started from a snapshot, before its first packet.
ColdSnapshot ==
    /\ ~client.started
    /\ RequestSnapshot
    /\ UNCHANGED <<client, feed, requests, have, base, report>>

Next ==
    \/ Datagram
    \/ Heartbeat
    \/ Refusal
    \/ Poll
    \/ OnSnapshot
    \/ FinishReplay
    \/ Publish
    \/ NewSession
    \/ Tick
    \/ ColdSnapshot

Spec == Init /\ [][Next]_clientVars

-----------------------------------------------------------------------------
(* Properties                                                                *)
\* No message reaches the application twice, whether live, repaired, replayed
\* or covered by a snapshot.
NoMessageTwice == report.again = {}

\* The paranoid assertion in on_packet, and docs/DESIGN.md 7b: a message never
\* counts as newly arrived and as newly repaired at once.
AcceptedOrRecovered == report.both = {}

\* "A client either knows it is current, or knows exactly what it is missing":
\* while it streams, every message of the session from where it joined up to
\* its expectation has reached the application or is one it calls missing,
\* and none is both.
KnowsWhatIsMissing ==
    client.state = "live" =>
        have = (base .. client.tracker.expected - 1) \ client.tracker.missing

\* While the client streams, every message it calls missing is being chased.
MissingIsChased ==
    client.state = "live" => client.tracker.missing = Asked(client.entries)
=============================================================================
