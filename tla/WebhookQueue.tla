---------------------------- MODULE WebhookQueue ----------------------------
(***************************************************************************)
(* The webhook channel (gateway/gateway.ts): send() delivers at once and   *)
(* queues what fails; a timer starts processQueue() again and again, which *)
(* takes one message, and does not wait for the runs before it. Stopping   *)
(* the channel stops the timer only.                                       *)
(***************************************************************************)
EXTENDS Integers, Sequences, FiniteSets

CONSTANTS Messages,
          MaxRetries   \* MAX_RETRIES

VARIABLES running,     \* the timer is armed
          queue,       \* messageQueue
          flying,      \* the messages whose delivery has not been answered
          retries,     \* _retries of each message, NotTried before its first delivery
          outcome,     \* "delivered" or "given_up", "none" while neither
          failures     \* failed deliveries of each message

vars == <<running, queue, flying, retries, outcome, failures>>

NotTried == -1

Init == /\ running = FALSE /\ queue = <<>> /\ flying = {}
        /\ retries = [m \in Messages |-> NotTried]
        /\ outcome = [m \in Messages |-> "none"]
        /\ failures = [m \in Messages |-> 0]
-----------------------------------------------------------------------------
Start == /\ ~running /\ running' = TRUE
         /\ UNCHANGED <<queue, flying, retries, outcome, failures>>

Stop == /\ running /\ running' = FALSE
        /\ UNCHANGED <<queue, flying, retries, outcome, failures>>

\* send(): the first delivery, whether or not the channel runs.
Send(m) == /\ retries[m] = NotTried /\ m \notin flying /\ outcome[m] = "none"
           /\ flying' = flying \cup {m}
           /\ UNCHANGED <<running, queue, retries, outcome, failures>>

\* processQueue() on the timer.
ProcessQueue == /\ running /\ queue # <<>>
                /\ flying' = flying \cup {Head(queue)} /\ queue' = Tail(queue)
                /\ UNCHANGED <<running, retries, outcome, failures>>

Delivered(m) == /\ m \in flying /\ flying' = flying \ {m}
                /\ outcome' = [outcome EXCEPT ![m] = "delivered"]
                /\ UNCHANGED <<running, queue, retries, failures>>

Queued(m) == queue' = Append(queue, m)

\* The first failure queues the message without counting it.
Failed(m) ==
    /\ m \in flying /\ flying' = flying \ {m}
    /\ failures' = [failures EXCEPT ![m] = @ + 1]
    /\ \/ /\ retries[m] < MaxRetries /\ Queued(m)
          /\ retries' = [retries EXCEPT ![m] = @ + 1]
          /\ UNCHANGED outcome
       \/ /\ retries[m] >= MaxRetries
          /\ outcome' = [outcome EXCEPT ![m] = "given_up"]
          /\ UNCHANGED <<queue, retries>>
    /\ UNCHANGED running

Next == \/ Start \/ Stop \/ ProcessQueue
        \/ \E m \in Messages : Send(m) \/ Delivered(m) \/ Failed(m)

Spec == Init /\ [][Next]_vars
-----------------------------------------------------------------------------
\* However the runs of processQueue overlap, with stops and starts in between, a
\* message that was sent is in one place: queued once, on its way, delivered, or
\* given up, and that only after MAX_RETRIES + 2 failed deliveries.
MessagesAreKept ==
    \A m \in Messages :
        LET sent == retries[m] # NotTried \/ m \in flying \/ outcome[m] # "none"
            copies == Cardinality({i \in DOMAIN queue : queue[i] = m})
        IN /\ sent => copies + (IF m \in flying THEN 1 ELSE 0)
                      + (IF outcome[m] # "none" THEN 1 ELSE 0) = 1
           /\ outcome[m] = "given_up" => failures[m] = MaxRetries + 2

\* Types of the state.
TypeOK == /\ running \in BOOLEAN /\ queue \in Seq(Messages)
          /\ flying \subseteq Messages
          /\ retries \in [Messages -> NotTried..MaxRetries]
          /\ outcome \in [Messages -> {"none", "delivered", "given_up"}]
          /\ failures \in [Messages -> 0..(MaxRetries + 2)]
=============================================================================
