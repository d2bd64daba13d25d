---------------------------- MODULE OrderSession ----------------------------
(***************************************************************************)
(* One order entry session (venue/order_session.hpp): SoupBinTCP frames    *)
(* from one client are taken off the stream, checked against the phase the *)
(* session is in, and handed to the order host; its acknowledgements go    *)
(* back as sequenced packets whose numbers are never on the wire.          *)
(*                                                                         *)
(* Time is kept as the two quiet periods the code compares with its        *)
(* limits, counted in ticks and capped at those limits.  ledger, traded    *)
(* and answers are what a client knows that reads every frame it is sent.  *)
(* offer() consumes the frames of a buffer in a loop; here each frame is   *)
(* one step.                                                               *)
(***************************************************************************)
EXTENDS OrderEntry

CONSTANTS
    Tokens,             \* order tokens the client may name
    MaxShares,          \* bound: shares in one request
    FirstSequence,      \* options_.first_sequence
    HeartbeatInterval,  \* ticks, kHeartbeatIntervalMillis
    SilenceTimeout,     \* ticks, kSilenceTimeoutMillis
    Adverse             \* whether a client reduces an order a second time

ASSUME SessionAssumption ==
    /\ NoToken \notin Tokens
    /\ {MaxShares, FirstSequence, HeartbeatInterval} \subseteq Nat \ {0}
    /\ SilenceTimeout \in Nat /\ SilenceTimeout > HeartbeatInterval
    /\ Adverse \in BOOLEAN

VARIABLES
    phase,      \* session_phase
    ending,     \* session_ending
    received,   \* received_: something was ever heard from the client
    quietIn,    \* now - last_in_, capped at SilenceTimeout
    quietOut,   \* now - last_out_, capped at HeartbeatInterval
    sequence,   \* writer_.sequence_: number of the next sequenced packet
    host,       \* entry_
    ledger,     \* open shares of each token, by the acknowledgements alone
    traded,     \* shares executed of each token and the ones it replaced
    answers     \* how often each token was accepted, replaced to or rejected

session == <<phase, ending, received, quietIn, quietOut, sequence>>
client == <<ledger, traded, answers>>
vars == <<session, host, client>>

Init ==
    /\ phase = "awaiting_login" /\ ending = "not_ended"
    /\ received = FALSE /\ quietIn = 0 /\ quietOut = 0
    /\ sequence = FirstSequence
    /\ host = EmptyHost
    /\ ledger = [t \in Tokens |-> 0]
    /\ traded = [t \in Tokens |-> 0]
    /\ answers = [t \in Tokens |-> 0]

(***************************************************************************)
(* What a client makes of one acknowledgement.                             *)
(***************************************************************************)
Posted(book, m) ==
    CASE m.type = "accepted" -> [book EXCEPT ![m.token] = IF m.live THEN m.shares ELSE 0]
      [] m.type = "replaced" -> [book EXCEPT ![m.previous] = 0, ![m.token] = m.shares]
      [] m.type = "modified" -> [book EXCEPT ![m.token] = m.shares]
      [] m.type \in {"canceled", "executed"} ->
            [book EXCEPT ![m.token] = IF @ > m.shares THEN @ - m.shares ELSE 0]
      [] m.type = "rejected" -> book

Told(done, m) ==
    CASE m.type = "executed" -> [done EXCEPT ![m.token] = @ + m.shares]
      [] m.type = "replaced" -> [done EXCEPT ![m.token] = done[m.previous]]
      [] OTHER -> done

Answered(count, m) ==
    IF m.type \in {"accepted", "replaced", "rejected"}
    THEN [count EXCEPT ![m.token] = @ + 1] ELSE count

ClientReads(sent) ==
    \/ sent = <<>> /\ UNCHANGED <<ledger, traded, answers>>
    \/ /\ sent # <<>>
       /\ ledger' = Posted(ledger, sent[1])
       /\ traded' = Told(traded, sent[1])
       /\ answers' = Answered(answers, sent[1])

\* sink(): the messages of one operation (at most one) as sequenced packets.
Sequenced(result) ==
    /\ host' = result.host
    /\ sequence' = sequence + Len(result.sent)
    /\ ClientReads(result.sent)

(***************************************************************************)
(* offer(): every frame that arrives restarts the silence clock.           *)
(***************************************************************************)
Heard == received' = TRUE /\ quietIn' = 0

End(why) == phase' = "ended" /\ ending' = why

\* Login Request, with the right or the wrong credentials and session name.
OnLogin ==
    /\ phase = "awaiting_login"
    /\ Heard
    /\ \/ /\ phase' = "established"
          /\ \E requested \in {0, 1} :
                sequence' = IF requested = 1 /\ FirstSequence = 1
                            THEN FirstSequence ELSE sequence
          /\ quietOut' = 0
          /\ UNCHANGED <<ending, host, ledger, traded, answers>>
       \/ \* reject(): not authorized, or a session that is not this one
          /\ End("protocol_error")
          /\ quietOut' = 0
          /\ UNCHANGED <<sequence, host, client>>

\* Unsequenced Data: one OUCH request, routed to the host.
\* (An immediate-or-cancel order is never live, so whether it is also a cross
\* order is never looked at.)
Enters == {r \in [token : Tokens, shares : 0..MaxShares, ioc : BOOLEAN,
                  cross : BOOLEAN, side : {"sell"}] : ~(r.ioc /\ r.cross)}
Cancels == [token : Tokens, shares : 0..MaxShares]
Replaces == [token : Tokens, replacement : Tokens, shares : 0..MaxShares]
Modifies == [token : Tokens, shares : 0..MaxShares, side : {"buy", "sell_short"}]

\* A client that is not adverse changes an order it has not yet reduced ...
Unreduced(token) ==
    LET i == IndexOf(host, token)
    IN  (~Adverse /\ i # 0) => host.orders[i].canceled = 0

\* ... and names a new total that leaves something open.
LeavesOpen(token, shares) ==
    LET i == IndexOf(host, token)
    IN  (~Adverse /\ i # 0) => shares # host.orders[i].executed

OnOrder ==
    /\ phase = "established"
    /\ Heard
    /\ \/ \E r \in Enters : Sequenced(Enter(host, r))
       \/ \E r \in Cancels : Unreduced(r.token) /\ Sequenced(Cancel(host, r))
       \/ \E r \in Replaces :
            /\ Unreduced(r.token) /\ LeavesOpen(r.token, r.shares)
            /\ Sequenced(Replace(host, r))
       \/ \E r \in Modifies :
            /\ Unreduced(r.token) /\ LeavesOpen(r.token, r.shares)
            /\ Sequenced(Modify(host, r))
    /\ UNCHANGED <<phase, ending, quietOut>>

OnClientHeartbeat ==
    /\ phase = "established"
    /\ Heard
    /\ UNCHANGED <<phase, ending, quietOut, sequence, host, client>>

OnLogout ==
    /\ phase # "ended"
    /\ Heard
    /\ End("logout_requested")
    /\ UNCHANGED <<quietOut, sequence, host, client>>

\* A frame of a type the server sends, a frame out of phase, an order that
\* does not decode: the session ends.
OnProtocolError ==
    /\ phase # "ended"
    /\ Heard
    /\ End("protocol_error")
    /\ UNCHANGED <<quietOut, sequence, host, client>>

(***************************************************************************)
(* Calls of the driver: poll(), close() and execute().                     *)
(***************************************************************************)
\* Mutant: once the client has logged in, its silence is no longer looked at.
MutantPoll ==
    /\ phase # "ended"
    /\ \/ /\ phase = "established" /\ quietOut >= HeartbeatInterval
          /\ quietOut' = 0
          /\ UNCHANGED <<phase, ending>>
       \/ /\ phase = "awaiting_login"
          /\ received /\ quietIn >= SilenceTimeout
          /\ End("client_silent")
          /\ UNCHANGED quietOut
    /\ UNCHANGED <<received, quietIn, sequence, host, client>>

Poll ==
    /\ phase # "ended"
    /\ \/ /\ received /\ quietIn >= SilenceTimeout
          /\ End("client_silent")
          /\ UNCHANGED quietOut
       \/ /\ ~(received /\ quietIn >= SilenceTimeout)
          /\ phase = "established" /\ quietOut >= HeartbeatInterval
          /\ quietOut' = 0
          /\ UNCHANGED <<phase, ending>>
    /\ UNCHANGED <<received, quietIn, sequence, host, client>>

Close ==
    /\ phase # "ended"
    /\ quietOut' = 0
    /\ End("closed_by_host")
    /\ UNCHANGED <<received, quietIn, sequence, host, client>>

Fill ==
    /\ phase = "established"
    /\ \E t \in Tokens, n \in 0..MaxShares : Sequenced(Execute(host, t, n))
    /\ UNCHANGED <<phase, ending, received, quietIn, quietOut>>

Tick ==
    /\ phase # "ended"
    /\ \/ quietIn < SilenceTimeout
       \/ quietOut < HeartbeatInterval
    /\ quietIn' = IF quietIn < SilenceTimeout THEN quietIn + 1 ELSE quietIn
    /\ quietOut' = IF quietOut < HeartbeatInterval THEN quietOut + 1 ELSE quietOut
    /\ UNCHANGED <<phase, ending, received, sequence, host, client>>

Next ==
    \/ OnLogin \/ OnOrder \/ OnClientHeartbeat \/ OnLogout \/ OnProtocolError
    \/ Poll \/ Close \/ Fill \/ Tick

\* The driver polls and time passes; nothing is promised of the client.
Spec == Init /\ [][Next]_vars /\ WF_vars(Poll) /\ WF_vars(Tick)

(***************************************************************************)
(* Properties.                                                             *)
(***************************************************************************)
\* Every share ever made liable is executed, canceled or still open: accounts()
\* of order_entry.hpp over any sequence of enters, cancels, replaces, modifies
\* and executions.
EveryShareAccounted == \A i \in DOMAIN host.orders : Accounts(host.orders[i])

\* While a client reduces an order at most once, every share is accounted for and
\* an order is live exactly while some of its shares are open, so no operation
\* reaches an order its owner was told is dead.
SharesAccounted ==
    /\ EveryShareAccounted
    /\ \A i \in DOMAIN host.orders :
            host.orders[i].live <=> SharesOpen(host.orders[i]) > 0

\* A client that adds up the acknowledgements it was sent knows the open shares
\* of every token exactly as the host does: what enter, cancel, replace, modify
\* and execute do to a record is what their messages say.
OpenAt(t) == LET i == IndexOf(host, t)
             IN  IF i = 0 THEN 0 ELSE SharesOpen(host.orders[i])

LedgerAgrees == \A t \in Tokens : ledger[t] = OpenAt(t)

\* Along a chain of replacements, the shares that traded plus the ones still
\* open are what the client last asked for: replace() carries the executed
\* count over, so what already traded is never exposed to the market again.
ChainExposure ==
    \A i \in DOMAIN host.orders :
        LET o == host.orders[i]
        IN  o.live => traded[o.token] + SharesOpen(o) + o.canceled = o.liable

\* Each token is answered at most once, whether it entered an order, replaced
\* one or was rejected, and an answered token is spent: a client that repeats a
\* request after a reconnect never doubles its order.
AnsweredOnce ==
    \A t \in Tokens : /\ answers[t] <= 1
                      /\ answers[t] = 1 => t \in host.tokens

\* poll(): a client that was once heard of and falls silent is dropped, unless
\* it is heard of again, however busy the server's own heartbeats are.
SilenceIsBroken ==
    (received /\ quietIn = SilenceTimeout) ~> (phase = "ended" \/ quietIn = 0)
=============================================================================
