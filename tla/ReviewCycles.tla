---------------------------- MODULE ReviewCycles ----------------------------
(***************************************************************************)
(* DuoAgent (agent/duoAgent.ts) and its ExternalReviewer                   *)
(* (agent/externalReviewer.ts): cycles of reviews in several sessions that *)
(* share one reviewer, and with it one audit trail. A review awaits the    *)
(* model; everything after the answer happens at once. The ids of          *)
(* suggestions are made of the time and their place in the answer, so two  *)
(* answers of one millisecond share them.                                  *)
(*                                                                         *)
(* Trails are sets: an entry is known by suggestion, action and time, which *)
(* is how requestReview tells entries apart. A suggestion is whether the   *)
(* governance core would block it; without a core it blocks none.          *)
(***************************************************************************)
EXTENDS Integers, Sequences, FiniteSetsExt

CONSTANTS Sessions,
          MaxIterations,   \* maxReviewIterations
          MaxSuggestions,  \* maxSuggestions of a review
          MaxTime,         \* bound on the clock
          MaxReviews,      \* bound on the answers of the model
          MaxActs,         \* bound on what the caller accepts or defers
          Answers          \* the suggestions an answer may hold

VARIABLES clock,
          autoApply,  \* as configured
          open,       \* the sessions in DuoAgent.sessions
          cycle,      \* runCycle of each session
          trail,      \* auditTrail of each session, which outlives closing it
          reviewer,   \* auditTrail of the reviewer
          recorded,   \* what the audit store was given, with the session
          blocked,    \* suggestions blocked in reviews of each session (history)
          made,       \* how often an answer made each id (history)
          reviews,    \* answers so far
          acts        \* what the caller did so far

vars == <<clock, autoApply, open, cycle, trail, reviewer, recorded,
          blocked, made, reviews, acts>>
history == <<blocked, made, reviews>>

Actions == {"accepted", "rejected", "deferred"}
Id(i) == [at |-> clock, index |-> i]
SuggestionIds == [at : 0..MaxTime, index : 1..MaxSuggestions]
Entry(id, action) == [suggestion |-> id, action |-> action, at |-> clock]
Entries == [suggestion : SuggestionIds, action : Actions, at : 0..MaxTime]

\* done: the reviewer approved or had nothing to suggest.
Cycle(at, iteration, allowed, done) ==
    [at |-> at, iteration |-> iteration, allowed |-> allowed, done |-> done]
NoCycle == Cycle("none", 0, {}, FALSE)

Init == /\ clock = 0 /\ autoApply \in BOOLEAN
        /\ open = Sessions \* startSession, once for each
        /\ cycle = [s \in Sessions |-> NoCycle]
        /\ trail = [s \in Sessions |-> {}]
        /\ reviewer = {} /\ recorded = {}
        /\ blocked = [s \in Sessions |-> {}]
        /\ made = [id \in SuggestionIds |-> 0] /\ reviews = 0 /\ acts = 0
-----------------------------------------------------------------------------
\* runCycle, up to the await of its first review; an unknown session throws.
RunCycle(s) ==
    /\ s \in open /\ cycle[s].at = "none"
    /\ cycle' = [cycle EXCEPT ![s] = Cycle("asking", 1, {}, FALSE)]
    /\ UNCHANGED <<clock, autoApply, open, trail, reviewer, recorded, history, acts>>


\* Of an answer, parseReviewResult keeps the first suggestions; filterSuggestions asks the core.
BlockedIn(suggestions) == {i \in DOMAIN suggestions : suggestions[i]}
Kept(suggestions) ==
    SubSeq(suggestions, 1, Min({Len(suggestions), MaxSuggestions}))

\* The answer arrives: requestReview parses and filters it, brings what is new in
\* the reviewer's trail into the session's, gives the whole of it to the store, and
\* runCycle yields. The session it began with may have been closed meanwhile.
Answer(s, suggestions, approves) ==
    LET kept == Kept(suggestions)
        ids == {Id(i) : i \in DOMAIN kept}
        rejected == {Id(i) : i \in BlockedIn(kept)}
        entries == reviewer \cup {Entry(id, "rejected") : id \in rejected}
    IN /\ cycle[s].at = "asking" /\ reviews < MaxReviews
       /\ reviewer' = entries
       /\ trail' = [trail EXCEPT ![s] = @ \cup entries]
       /\ recorded' = recorded \cup ({s} \X entries)
       /\ cycle' = [cycle EXCEPT
                       ![s] = Cycle("yielded", @.iteration, ids \ rejected,
                                    approves \/ ids = {})]
       /\ blocked' = [blocked EXCEPT ![s] = @ \cup rejected]
       /\ made' = [id \in SuggestionIds |-> IF id \in ids THEN made[id] + 1 ELSE made[id]]
       /\ reviews' = reviews + 1
       /\ UNCHANGED <<clock, autoApply, open, acts>>

\* The model fails: requestReview throws, and the cycle with it.
AnswerFails(s) ==
    /\ cycle[s].at = "asking"
    /\ cycle' = [cycle EXCEPT ![s] = NoCycle]
    /\ UNCHANGED <<clock, autoApply, open, trail, reviewer, recorded, history, acts>>

\* acceptSuggestion for each of ids; for a closed session it does nothing.
Accepts(s, ids) ==
    LET entries == IF s \in open THEN {Entry(id, "accepted") : id \in ids} ELSE {}
    IN /\ trail' = [trail EXCEPT ![s] = @ \cup entries]
       /\ reviewer' = reviewer \cup entries

\* The caller wants the next round: what was allowed is accepted if so configured,
\* and the next review begins, unless the session is gone or the rounds are over.
Resume(s) ==
    LET c == cycle[s]
        again == ~c.done /\ c.iteration < MaxIterations /\ s \in open
    IN /\ c.at = "yielded"
       /\ Accepts(s, IF autoApply /\ ~c.done THEN c.allowed ELSE {})
       /\ cycle' = [cycle EXCEPT
                       ![s] = IF again THEN Cycle("asking", c.iteration + 1, {}, FALSE)
                              ELSE NoCycle]
       /\ UNCHANGED <<clock, autoApply, open, recorded, history, acts>>

\* The caller accepts a suggestion it was given.
AcceptSuggestion(s, id) ==
    /\ cycle[s].at = "yielded" /\ id \in cycle[s].allowed
    /\ acts < MaxActs /\ acts' = acts + 1
    /\ Accepts(s, {id})
    /\ UNCHANGED <<clock, autoApply, open, cycle, recorded, history>>

\* The caller defers one: the reviewer notes it even when the session is closed.
DeferSuggestion(s, id) ==
    /\ cycle[s].at = "yielded" /\ id \in cycle[s].allowed
    /\ acts < MaxActs /\ acts' = acts + 1
    /\ reviewer' = reviewer \cup {Entry(id, "deferred")}
    /\ trail' = IF s \in open THEN [trail EXCEPT ![s] = @ \cup {Entry(id, "deferred")}]
                ELSE trail
    /\ UNCHANGED <<clock, autoApply, open, cycle, recorded, history>>

CloseSession(s) ==
    /\ s \in open /\ open' = open \ {s}
    /\ UNCHANGED <<clock, autoApply, cycle, trail, reviewer, recorded, history, acts>>

Tick == /\ clock < MaxTime /\ clock' = clock + 1
        /\ UNCHANGED <<autoApply, open, cycle, trail, reviewer, recorded, history, acts>>

Next == \/ Tick
        \/ \E s \in Sessions :
              \/ RunCycle(s) \/ AnswerFails(s) \/ Resume(s) \/ CloseSession(s)
              \/ \E suggestions \in Answers, approves \in BOOLEAN :
                    Answer(s, suggestions, approves)
              \/ \E id \in cycle[s].allowed :
                    AcceptSuggestion(s, id) \/ DeferSuggestion(s, id)

Spec == Init /\ [][Next]_vars
-----------------------------------------------------------------------------
\* However cycles of several sessions overlap, with sessions closed during a
\* review: a suggestion the core blocked is rejected in the trail of its session,
\* in the reviewer's and in the store, and is accepted in none of them, unless an
\* answer of the same millisecond made the same id again.
BlockedStaysRejected ==
    \A s \in Sessions : \A id \in blocked[s] :
        /\ \E e \in trail[s] \cap reviewer :
              /\ e.suggestion = id /\ e.action = "rejected"
              /\ <<s, e>> \in recorded
        /\ made[id] = 1 =>
              \A e \in trail[s] \cup reviewer :
                  e.suggestion = id => e.action = "rejected"

\* Types of the state.
TypeOK == /\ clock \in 0..MaxTime /\ autoApply \in BOOLEAN
          /\ open \subseteq Sessions
          /\ \A s \in Sessions : /\ cycle[s].at \in {"none", "asking", "yielded"}
                                 /\ cycle[s].iteration \in 0..MaxIterations
                                 /\ cycle[s].allowed \subseteq SuggestionIds
                                 /\ cycle[s].done \in BOOLEAN
                                 /\ trail[s] \subseteq Entries
                                 /\ blocked[s] \subseteq SuggestionIds
          /\ reviewer \subseteq Entries /\ recorded \subseteq Sessions \X Entries
          /\ made \in [SuggestionIds -> 0..MaxReviews]
          /\ reviews \in 0..MaxReviews /\ acts \in 0..MaxActs
=============================================================================
