--------------------------- MODULE ExternalIngress ---------------------------
(***************************************************************************)
(* What reaches the workspace from WeChat or Feishu: the webhook handlers  *)
(* of gateway/wechatChannel.ts and gateway/feishuChannel.ts,               *)
(* handleInboundMessage of gateway/externalChannel.ts, and the ingress     *)
(* guard of gateway/externalIngressGuard.ts or, without one, the           *)
(* deduplicator of the channel.                                            *)
(*                                                                         *)
(* A delivery is answered when the turn it starts has ended. The provider  *)
(* delivers a message again as often as it likes.                          *)
(***************************************************************************)
EXTENDS Integers, Sequences, FiniteSets, Lists

CONSTANTS Messages,      \* the messages, named by their ids
          Users, Sender, \* who sends each message
          Window,        \* dedupWindowMs
          RateWindow, RateMax,
          MaxTime, MaxOpen   \* bounds: the clock, deliveries under way

VARIABLES clock,
          guarded,    \* the channel has an ingress guard, with a rate limit
          server,     \* "down", "up" or "closing"
          seen,       \* when each message was let in, Unseen if not on record
          buckets,    \* the times of each user's messages that count for the rate
          sessions,   \* the users with a session
          open,       \* the deliveries whose turn is under way
          accepted    \* every message that was let in, with its time

vars == <<clock, guarded, server, seen, buckets, sessions, open, accepted>>

Unseen == 0
Times == 1..MaxTime

Init == /\ clock = 1 /\ guarded \in BOOLEAN /\ server = "down"
        /\ seen = [m \in Messages |-> Unseen]
        /\ buckets = [u \in Users |-> <<>>]
        /\ sessions = {} /\ open = {} /\ accepted = {}
-----------------------------------------------------------------------------
IsDuplicate(m) == seen[m] # Unseen /\ clock - seen[m] < Window

\* The guard forgets a message when its window is over, the deduplicator one
\* tick later.
Remembered(at) == at # Unseen /\ IF guarded THEN clock - at < Window
                                            ELSE clock - at <= Window
Noted(m) == [n \in Messages |-> IF n = m THEN clock
                                ELSE IF Remembered(seen[n]) THEN seen[n] ELSE Unseen]

Recent(u) == Picked(buckets[u],
                    {i \in DOMAIN buckets[u] : clock - buckets[u][i] < RateWindow})

RateLimited(u) == guarded /\ Len(Recent(u)) >= RateMax
-----------------------------------------------------------------------------
\* inspect() or isDuplicate() refuses: only statistics and the audit change.
Refuse(m) == /\ server = "up"
             /\ IsDuplicate(m) \/ RateLimited(Sender[m])
             /\ UNCHANGED vars

\* A delivery with a wrong signature or token, or that does not decrypt or
\* parse, is answered at once and changes nothing.
Invalid == server = "up" /\ UNCHANGED vars

Admit(m) ==
    LET u == Sender[m] IN
    /\ server = "up" /\ Cardinality(open) < MaxOpen
    /\ ~IsDuplicate(m) /\ ~RateLimited(u)
    /\ seen' = Noted(m)
    /\ buckets' = IF guarded THEN [buckets EXCEPT ![u] = Append(Recent(u), clock)]
                             ELSE buckets
    /\ sessions' = sessions \cup {u}
    /\ accepted' = accepted \cup {[message |-> m, at |-> clock]}
    /\ open' = open \cup {[message |-> m, at |-> clock]}
    /\ UNCHANGED <<clock, guarded, server>>

\* A message of either format, or an answer to an approval card.
Deliver(m) == Refuse(m) \/ Admit(m)

\* The turn ends, by itself or by throwing, and the provider gets its answer.
Answer(d) == /\ open' = open \ {d}
             /\ UNCHANGED <<clock, guarded, server, seen, buckets, sessions, accepted>>

\* Subscribing makes a session; unsubscribing makes one too, if there is none,
\* and removes it. The session goes even while a turn of the user runs.
Subscribe(u) == /\ server = "up"
                /\ sessions' = sessions \cup {u}
                /\ UNCHANGED <<clock, guarded, server, seen, buckets, open, accepted>>
Unsubscribe(u) == /\ server = "up"
                  /\ sessions' = sessions \ {u}
                  /\ UNCHANGED <<clock, guarded, server, seen, buckets, open, accepted>>

\* A channel is used by one caller of start and stop (see GatewayLifecycle).
Start == /\ server = "down" /\ server' = "up"
         /\ UNCHANGED <<clock, guarded, seen, buckets, sessions, open, accepted>>

Stop == /\ server = "up" /\ server' = "closing"
        /\ UNCHANGED <<clock, guarded, seen, buckets, sessions, open, accepted>>

\* server.close() waits for the deliveries that are not answered yet; what is
\* on record about messages outlives the stop.
Close == /\ server = "closing" /\ open = {}
         /\ server' = "down" /\ sessions' = {}
         /\ UNCHANGED <<clock, guarded, seen, buckets, open, accepted>>

Tick == /\ clock < MaxTime /\ clock' = clock + 1
        /\ UNCHANGED <<guarded, server, seen, buckets, sessions, open, accepted>>

Next == \/ \E m \in Messages : Deliver(m)
        \/ \E u \in Users : Subscribe(u) \/ Unsubscribe(u)
        \/ \E d \in open : Answer(d)
        \/ Invalid \/ Start \/ Stop \/ Close \/ Tick

Spec == Init /\ [][Next]_vars
-----------------------------------------------------------------------------
Within(a, b, span) == b.at \in a.at..(a.at + span - 1)

\* Whatever the provider repeats and however messages, stops and starts follow
\* each other: a message is let in at most once in any dedupWindowMs, and with a
\* guard no user has more than maxMessages let in in any windowMs.
AcceptedWithinLimits ==
    /\ \A a, b \in accepted : a.message = b.message /\ a # b => ~Within(a, b, Window)
    /\ guarded => \A a \in accepted :
           Cardinality({b \in accepted : /\ Sender[b.message] = Sender[a.message]
                                        /\ Within(a, b, RateWindow)}) <= RateMax

\* Types of the state.
TypeOK == /\ clock \in Times /\ guarded \in BOOLEAN
          /\ server \in {"down", "up", "closing"}
          /\ seen \in [Messages -> Times \cup {Unseen}]
          /\ buckets \in [Users -> Seq(Times)]
          /\ \A u \in Users : Len(buckets[u]) <= RateMax
          /\ sessions \subseteq Users
          /\ open \subseteq accepted
          /\ accepted \subseteq [message : Messages, at : Times]
=============================================================================
