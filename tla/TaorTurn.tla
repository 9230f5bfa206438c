------------------------------ MODULE TaorTurn ------------------------------
(***************************************************************************)
(* One turn of the main loop: FusionWorkspace.handleMessage (start.ts)     *)
(* runs TAORLoop.run (agent/taorLoop.ts), which calls the model, executes  *)
(* the tool calls that its stream brings, retries a stream that breaks,    *)
(* and keeps what the model is shown in a SlidingContextWindow.            *)
(*                                                                         *)
(* Of a message only its place counts: the user's prompt is message 0, the *)
(* result of the i-th tool call message i, and the model's final text the  *)
(* one after the last result.  Token counts are not modelled: at the head  *)
(* of any step the input budget may turn out to be spent.                  *)
(***************************************************************************)
EXTENDS Integers, Sequences, FiniteSets

CONSTANTS MaxSteps, MaxToolCalls, Retries,
          WindowSize,
          AlwaysDone,   \* streams always end with a "done" chunk
          MaxResults    \* bound: tool calls that the model makes

ASSUME LimitAssumption == MaxSteps \in Nat /\ MaxToolCalls \in Nat /\ Retries \in Nat
ASSUME WindowAssumption == WindowSize \in Nat \ {0}
ASSUME ModelAssumption == AlwaysDone \in BOOLEAN /\ MaxResults \in Nat

VARIABLES pc,        \* what the turn awaits
          step,      \* state.stepCount
          attempt,   \* of callLLMWithRetry in this step
          attempts,  \* state.llmAttempts
          calls,     \* state.toolCalls.length
          ran,       \* tool calls that were executed (history)
          systems,   \* summaries that stand at the head of the window
          kept,      \* the other messages of the window
          shown,     \* messages of the call to the model under way, or the last
          stop,      \* state.stopReason
          told       \* what the client was sent

vars == <<pc, step, attempt, attempts, calls, ran, systems, kept, shown, stop, told>>

Places == {"idle", "recovers", "streams", "runsTool", "backsOff", "remembers",
           "saves", "replies", "apologises", "over"}
Stops == {"none", "max_steps", "input_budget_exceeded", "llm_error", "answer"}

Init == /\ pc = "idle"
        /\ step = 0 /\ attempt = 0 /\ attempts = 0
        /\ calls = 0 /\ ran = 0
        /\ systems = 0 /\ kept = <<>> /\ shown = {}
        /\ stop = "none" /\ told = "nothing"
-----------------------------------------------------------------------------
Messages(seq) == {seq[i] : i \in DOMAIN seq}

\* Mutant: the oldest messages are kept.
TrimmedFromTheEnd(seq) == SubSeq(seq, 1, WindowSize)

\* slice(-maxSize) of the messages that are no summaries.
Trimmed(seq) == SubSeq(seq, Len(seq) - WindowSize + 1, Len(seq))

\* SlidingContextWindow.push and trim: every trim adds a summary.
Push(m) == IF Len(kept) < WindowSize
           THEN kept' = Append(kept, m) /\ UNCHANGED systems
           ELSE kept' = Trimmed(Append(kept, m)) /\ systems' = systems + 1

\* The loop ends without a final text, and handleMessage sends nothing.
EndsSilently(reason) == pc' = "over" /\ stop' = reason

\* The head of the loop, with the window as it is after the step.
EntersStep ==
    /\ step' = step + 1
    /\ \/ /\ \/ step' > MaxSteps /\ EndsSilently("max_steps")
             \/ step' <= MaxSteps /\ EndsSilently("input_budget_exceeded")
          /\ UNCHANGED <<attempt, attempts, shown>>
       \/ /\ step' <= MaxSteps
          /\ pc' = "streams"
          /\ shown' = Messages(kept')
          /\ attempt' = 0 /\ attempts' = attempts + 1
          /\ UNCHANGED stop
-----------------------------------------------------------------------------
\* A message comes in.
HandleMessage ==
    /\ pc = "idle" /\ pc' = "recovers"
    /\ UNCHANGED <<step, attempt, attempts, calls, ran, systems, kept, shown, stop, told>>

\* The snapshot of the session is read, or cannot be; the prompt is pushed.
Recovers ==
    /\ pc = "recovers"
    /\ Push(0)
    /\ EntersStep
    /\ UNCHANGED <<calls, ran, told>>

\* Mutant: the budget is looked at after the tool call is counted.
WithinBudgetAndOne == calls <= MaxToolCalls

WithinBudget == calls < MaxToolCalls

\* The stream brings a tool call.  Past the budget its result is a refusal.
ToolCallArrives ==
    /\ pc = "streams" /\ calls < MaxResults
    /\ \/ WithinBudget /\ pc' = "runsTool" /\ UNCHANGED <<calls, systems, kept>>
       \/ ~WithinBudget /\ calls' = calls + 1 /\ Push(calls + 1) /\ UNCHANGED pc
    /\ UNCHANGED <<step, attempt, attempts, ran, shown, stop, told>>

\* ToolRegistry.execute returns: a tool that throws has a result as well.
ToolReturns ==
    /\ pc = "runsTool" /\ pc' = "streams"
    /\ ran' = ran + 1
    /\ calls' = calls + 1
    /\ Push(calls + 1)
    /\ UNCHANGED <<step, attempt, attempts, shown, stop, told>>

\* A "done" chunk ends the stream, which the loop takes for the final answer,
\* whatever tool calls the stream has brought.
StreamEndsDone ==
    /\ pc = "streams"
    /\ pc' = "remembers" /\ stop' = "answer"
    /\ \/ Push(calls + 1)
       \/ UNCHANGED <<systems, kept>>
    /\ UNCHANGED <<step, attempt, attempts, calls, ran, shown, told>>

\* Other callers, such as the simulated ones, end a stream without "done" when
\* it has brought a tool call.
StreamEndsBare ==
    /\ pc = "streams" /\ ~AlwaysDone
    /\ UNCHANGED <<systems, kept>>
    /\ \/ step < MaxSteps /\ EntersStep
       \/ /\ step >= MaxSteps /\ EndsSilently("max_steps")
          /\ UNCHANGED <<step, attempt, attempts, shown>>
    /\ UNCHANGED <<calls, ran, told>>

\* Mutant: one attempt more than are allowed.
MayRetryOnceMore == attempt <= Retries

MayRetry == attempt < Retries

\* The stream throws: its tool calls have been executed, the same messages
\* are sent again.
StreamBreaks ==
    /\ pc = "streams"
    /\ \/ MayRetry /\ pc' = "backsOff" /\ attempt' = attempt + 1 /\ UNCHANGED stop
       \/ ~MayRetry /\ EndsSilently("llm_error") /\ UNCHANGED attempt
    /\ UNCHANGED <<step, attempts, calls, ran, systems, kept, shown, told>>

\* Mutant: the delay before the last attempt never ends.
BackoffEndsBelow ==
    /\ pc = "backsOff" /\ attempt < Retries /\ pc' = "streams"
    /\ attempts' = attempts + 1
    /\ UNCHANGED <<step, attempt, calls, ran, systems, kept, shown, stop, told>>

\* The delay is over and the next attempt is made.
BackoffEnds ==
    /\ pc = "backsOff" /\ pc' = "streams"
    /\ attempts' = attempts + 1
    /\ UNCHANGED <<step, attempt, calls, ran, systems, kept, shown, stop, told>>
-----------------------------------------------------------------------------
\* MemoryManager.addInteractionMemory settles; what it throws is caught.
Remembers ==
    /\ pc = "remembers" /\ pc' = "saves"
    /\ UNCHANGED <<step, attempt, attempts, calls, ran, systems, kept, shown, stop, told>>

\* SessionStore.saveSnapshot settles; what it throws is caught.  An empty
\* final text, which is not in the window, is not sent.
Saves ==
    /\ pc = "saves"
    /\ pc' = IF calls + 1 \in Messages(kept) THEN "replies" ELSE "over"
    /\ UNCHANGED <<step, attempt, attempts, calls, ran, systems, kept, shown, stop, told>>

\* Gateway.sendToSession with the response; when it throws, with an error.
Replies ==
    /\ pc = "replies"
    /\ \/ pc' = "over" /\ told' = "response"
       \/ pc' = "apologises" /\ UNCHANGED told
    /\ UNCHANGED <<step, attempt, attempts, calls, ran, systems, kept, shown, stop>>

Apologises ==
    /\ pc = "apologises" /\ pc' = "over"
    /\ told' \in {"error", "nothing"}
    /\ UNCHANGED <<step, attempt, attempts, calls, ran, systems, kept, shown, stop>>

Streams == ToolCallArrives \/ StreamEndsDone \/ StreamEndsBare \/ StreamBreaks
GoesOn == \/ Recovers \/ ToolReturns \/ BackoffEnds
          \/ Remembers \/ Saves \/ Replies \/ Apologises

Next == HandleMessage \/ Streams \/ GoesOn

\* What the turn awaits settles, and a stream ends.
Fairness == WF_vars(Streams) /\ WF_vars(GoesOn)

Spec == Init /\ [][Next]_vars
FairSpec == Spec /\ Fairness
-----------------------------------------------------------------------------
\* Types of the state.
TypeOK == /\ pc \in Places /\ stop \in Stops
          /\ step \in 0..(MaxSteps + 1)
          /\ attempt \in 0..Retries
          /\ attempts \in Nat
          /\ calls \in 0..MaxResults /\ ran \in 0..MaxResults
          /\ systems \in Nat
          /\ kept \in Seq(0..(MaxResults + 1))
          /\ shown \subseteq 0..MaxResults
          /\ told \in {"nothing", "response", "error"}

\* maxSteps, maxToolCalls and llmRetryAttempts bound a turn together: retries
\* that repeat tool calls spend the budget as well, and no step has more
\* attempts than its own.
Budgets == /\ ran = IF calls < MaxToolCalls THEN calls ELSE MaxToolCalls
           /\ attempts <= MaxSteps * (Retries + 1)

\* SlidingContextWindow keeps the most recent messages, in order: whatever
\* streams and retries did, the window is the prompt, every result and the
\* answer up to its size, with a summary for each message that went.
WindowIsRecent ==
    LET first == IF Len(kept) = 0 THEN 0 ELSE kept[1] IN
    /\ Len(kept) <= WindowSize
    /\ \A i \in DOMAIN kept : kept[i] = first + i - 1
    /\ pc \in {"streams", "runsTool", "backsOff"} => first + Len(kept) = calls + 1
    /\ systems = first

\* The messages of a call are those of its step: a retry shows the same ones.
\* While no result has been displaced the prompt is among them.
PromptIsShown ==
    pc \in {"streams", "runsTool", "backsOff"} /\ calls < WindowSize => 0 \in shown

\* What the model is shown: the most recent messages, and the prompt among them
\* until a result displaces it.
WindowIsSound == WindowIsRecent /\ PromptIsShown

\* Every turn comes to an end.
TurnEnds == pc # "idle" ~> pc = "over"

\* README.md and the comment of TAORLoop: think, act, observe, reflect, think
\* again.  An answer is given by a model that was shown the last tool result.
AnswerSeesResults == stop = "answer" /\ calls > 0 => calls \in shown
=============================================================================
