---------------------------- MODULE AccessTokens ----------------------------
(***************************************************************************)
(* The access token of the WeChat and Feishu adapters                      *)
(* (gateway/wechatChannel.ts, gateway/feishuChannel.ts). Every send that   *)
(* finds the token missing or past its expiry refreshes it, so does the    *)
(* timer, and none of them knows of the others: the API issues tokens in   *)
(* one order and the adapter stores them in the order the answers arrive.  *)
(* A WeChat send that fails refreshes and tries once more; a Feishu send   *)
(* does not.                                                               *)
(***************************************************************************)
EXTENDS Integers, FiniteSets

CONSTANTS Messages,
          Timer,       \* the refresh timer of the adapter
          MaxTries,    \* maxAttempts of a refresh
          MaxIssued    \* bound on the tokens the API issues

VARIABLES channel,     \* "wechat" or "feishu"
          stored,      \* accessToken, tenantAccessToken: its number, or NoToken
          fresh,       \* Date.now() < tokenExpiry
          issued,      \* tokens the API issued so far
          valid,       \* the tokens the API accepts
          call,        \* what each send, and the timer, is doing
          delivered,   \* how often the API delivered each message (history)
          hindered     \* sends that a failure or another refresh disturbed (history)

vars == <<channel, stored, fresh, issued, valid, call, delivered, hindered>>
local == <<channel, stored, fresh>>
api == <<issued, valid>>

NoToken == 0
Callers == Messages \cup {Timer}

\* tries of the refresh, the token on its way or in use, the attempt to send.
Call(at, tries, token, attempt) ==
    [at |-> at, tries |-> tries, token |-> token, attempt |-> attempt]
Idle == Call("idle", 0, NoToken, 0)
Asking(attempt) == Call("asking", 0, NoToken, attempt)
Returned == Call("done", 0, NoToken, 0)
Thrown == Call("failed", 0, NoToken, 0)

\* start() has awaited the first refresh, which may have failed.
Init == /\ channel \in {"wechat", "feishu"} /\ stored \in {NoToken, 1}
        /\ fresh = (stored # NoToken) /\ issued = stored
        /\ valid = {stored} \ {NoToken}
        /\ call = [c \in Callers |-> Idle]
        /\ delivered = [m \in Messages |-> 0]
        /\ hindered = {}
-----------------------------------------------------------------------------
\* The caller's refresh is over: the timer has nothing more to do, a send goes on
\* with the token there is and throws when there is none.
Refreshed(c, token) ==
    IF c = Timer THEN Idle
    ELSE IF token = NoToken THEN Thrown ELSE Call("sent", 0, token, call[c].attempt)

Send(m) == /\ call[m].at = "idle"
           /\ call' = [call EXCEPT ![m] = IF fresh THEN Refreshed(m, stored)
                                          ELSE Asking(0)]
           /\ UNCHANGED <<local, api, delivered, hindered>>

TimerFires == /\ call[Timer].at = "idle"
              /\ call' = [call EXCEPT ![Timer] = Asking(0)]
              /\ UNCHANGED <<local, api, delivered, hindered>>

\* The sends that make, or are about to make, their last attempt with one of ts.
LastToken(ts) == {m \in Messages : call[m].token \in ts /\ call[m].attempt = 1}

\* The API answers a refresh with a new token; it may drop older ones for it.
Issue(c) ==
    /\ call[c].at = "asking" /\ issued < MaxIssued
    /\ issued' = issued + 1
    /\ \E old \in SUBSET valid :
          /\ valid' = (valid \ old) \cup {issued'}
          /\ hindered' = hindered \cup LastToken(old)
    /\ call' = [call EXCEPT ![c].at = "asked", ![c].token = issued']
    /\ UNCHANGED <<local, delivered>>

\* The answer arrives: its token becomes the adapter's, be it newer or older than
\* the one it replaces.
Store(c) == /\ call[c].at = "asked"
            /\ stored' = call[c].token /\ fresh' = TRUE
            /\ call' = [call EXCEPT ![c] = Refreshed(c, call[c].token)]
            /\ UNCHANGED <<channel, api, delivered, hindered>>

\* A try fails, with or without the API having issued a token; after the last one
\* the adapter keeps the token it has.
RefreshFails(c) ==
    /\ call[c].at \in {"asking", "asked"}
    /\ call' = [call EXCEPT ![c] =
                   IF @.tries + 1 < MaxTries
                   THEN Call("asking", @.tries + 1, NoToken, @.attempt)
                   ELSE Refreshed(c, stored)]
    /\ hindered' = hindered \cup ({c} \cap Messages)
    /\ UNCHANGED <<local, api, delivered>>

\* The token's time is over, by the adapter's clock.
Lapse == /\ fresh /\ fresh' = FALSE
         /\ UNCHANGED <<channel, stored, api, call, delivered, hindered>>

\* The API stops accepting a token.
Drop(t) == /\ t \in valid /\ valid' = valid \ {t}
           /\ hindered' = hindered \cup LastToken({t})
           /\ UNCHANGED <<local, issued, call, delivered>>

\* The API delivers the message, and its answer arrives.
Deliver(m) == /\ call[m].at = "sent" /\ call[m].token \in valid
              /\ delivered' = [delivered EXCEPT ![m] = @ + 1]
              /\ call' = [call EXCEPT ![m] = Returned]
              /\ UNCHANGED <<local, api, hindered>>

\* The send has failed: WeChat refreshes and sends once more, whatever it was.
AfterFailure(m) == IF channel = "wechat" /\ call[m].attempt = 0 THEN Asking(1)
                   ELSE Thrown

\* The API refuses the token.
Refuse(m) == /\ call[m].at = "sent" /\ call[m].token \notin valid
             /\ call' = [call EXCEPT ![m] = AfterFailure(m)]
             /\ UNCHANGED <<local, api, delivered, hindered>>

\* Another error of the API, a lost request, or a timeout: the message may have
\* been delivered all the same.
SendFails(m) ==
    /\ call[m].at = "sent" /\ hindered' = hindered \cup {m}
    /\ call' = [call EXCEPT ![m] = AfterFailure(m)]
    /\ \/ /\ call[m].token \in valid
          /\ delivered' = [delivered EXCEPT ![m] = @ + 1]
       \/ UNCHANGED delivered
    /\ UNCHANGED <<local, api>>

Next == \/ \E m \in Messages : Send(m) \/ Deliver(m) \/ Refuse(m) \/ SendFails(m)
        \/ \E c \in Callers : Issue(c) \/ Store(c) \/ RefreshFails(c)
        \/ TimerFires \/ Lapse \/ \E t \in valid : Drop(t)

Spec == Init /\ [][Next]_vars
-----------------------------------------------------------------------------
\* However refreshes overtake each other: a send that returned was delivered; a
\* message is delivered twice only by a WeChat send whose answer was lost; and a
\* WeChat send throws only when a request of its own failed or the token of its
\* last attempt was dropped under it, never because the adapter's token was stale.
StaleTokenLosesNothing ==
    \A m \in Messages :
        /\ call[m].at = "done" => delivered[m] >= 1
        /\ delivered[m] <= (IF channel = "wechat" /\ m \in hindered THEN 2 ELSE 1)
        /\ channel = "wechat" /\ call[m].at = "failed" => m \in hindered

\* Types of the state.
TypeOK == /\ channel \in {"wechat", "feishu"} /\ stored \in 0..MaxIssued
          /\ fresh \in BOOLEAN /\ issued \in 0..MaxIssued
          /\ valid \subseteq 1..issued
          /\ call \in [Callers -> [at : {"idle", "asking", "asked", "sent", "done",
                                         "failed"},
                                   tries : 0..(MaxTries - 1), token : 0..MaxIssued,
                                   attempt : {0, 1}]]
          /\ delivered \in [Messages -> 0..2]
          /\ hindered \subseteq Messages
=============================================================================
