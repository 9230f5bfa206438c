--------------------------- MODULE TaorTurnProofs ---------------------------
(***************************************************************************)
(* Theorems about TaorTurn, for any limits and any size of the window.     *)
(***************************************************************************)
EXTENDS TaorTurn, TLAPS

\* The turn has pushed its prompt and waits for the model, a tool or a delay.
Active == pc \in {"streams", "runsTool", "backsOff"}
Fresh == pc \in {"idle", "recovers"}

Numbers == /\ step \in Nat /\ attempt \in 0..Retries /\ attempts \in Nat
           /\ calls \in Nat /\ ran \in Nat

\* The attempts that a step has.
PerStep == Retries + 1

\* What the steps so far, and the attempts of the one under way, come to.
AttemptsCounted ==
    /\ Fresh => step = 0 /\ attempts = 0
    /\ Active => step \in 1..MaxSteps
    /\ pc \in {"streams", "runsTool"} =>
           attempts <= (step - 1) * PerStep + attempt + 1
    /\ pc = "backsOff" => attempts <= (step - 1) * PerStep + attempt
    /\ attempts <= MaxSteps * PerStep

CallsCounted ==
    /\ ran = IF calls < MaxToolCalls THEN calls ELSE MaxToolCalls
    /\ pc = "runsTool" => calls < MaxToolCalls

BudgetInv == Numbers /\ AttemptsCounted /\ CallsCounted

\* The window holds consecutive messages, and a summary for each before them.
Consecutive ==
    /\ kept \in Seq(Int) /\ systems \in Nat
    /\ Len(kept) <= WindowSize
    /\ \A i \in 1..Len(kept) : kept[i] = systems + i - 1
    /\ Len(kept) < WindowSize => systems = 0

WindowInv ==
    /\ calls \in Nat
    /\ Consecutive
    /\ Fresh => kept = <<>> /\ systems = 0 /\ calls = 0
    /\ Active => systems + Len(kept) = calls + 1
    /\ Active /\ calls < WindowSize => 0 \in shown
-----------------------------------------------------------------------------
\* One step more than s has the attempts of a whole step more, and no more
\* steps than MaxSteps have no more attempts than those.
LEMMA StepsAndAttempts ==
    ASSUME NEW s \in 1..MaxSteps
    PROVE /\ (s - 1) * PerStep + PerStep = s * PerStep
          /\ s * PerStep <= MaxSteps * PerStep
          /\ s * PerStep \in Nat /\ (s - 1) * PerStep \in Nat
          /\ MaxSteps * PerStep \in Nat
<1>1. PerStep \in Nat /\ s \in Nat /\ s - 1 \in Nat /\ MaxSteps \in Nat /\ s <= MaxSteps
  BY LimitAssumption DEF PerStep
<1>2. (s - 1) * PerStep + PerStep = s * PerStep
  BY <1>1, SMT
<1>3. s * PerStep <= MaxSteps * PerStep
  BY <1>1, SMT
<1>4. s * PerStep \in Nat /\ (s - 1) * PerStep \in Nat /\ MaxSteps * PerStep \in Nat
  BY <1>1, SMT
<1> QED BY <1>2, <1>3, <1>4

\* Pushing the message after the last one keeps the window consecutive.
LEMMA PushKeepsOrder ==
    ASSUME Consecutive, Push(systems + Len(kept))
    PROVE /\ Consecutive'
          /\ systems' + Len(kept') = systems + Len(kept) + 1
          /\ Len(kept') >= 1
<1> DEFINE m == systems + Len(kept)
           longer == Append(kept, m)
<1>1. /\ m \in Int /\ longer \in Seq(Int) /\ Len(longer) = Len(kept) + 1
      /\ \A i \in 1..Len(longer) : longer[i] = systems + i - 1
  BY DEF Consecutive
<1>2. CASE Len(kept) < WindowSize
  <2>1. kept' = longer /\ systems' = systems /\ systems = 0
    BY <1>2 DEF Push, Consecutive
  <2> QED BY <1>1, <1>2, <2>1, WindowAssumption DEF Consecutive
<1>3. CASE ~(Len(kept) < WindowSize)
  <2>1. Len(kept) = WindowSize /\ Len(kept) \in Nat
    BY <1>3, WindowAssumption DEF Consecutive
  <2>2. kept' = SubSeq(longer, 2, WindowSize + 1) /\ systems' = systems + 1
    <3>1. Len(longer) - WindowSize + 1 = 2 /\ Len(longer) = WindowSize + 1
      BY <1>1, <2>1, WindowAssumption
    <3>2. kept' = SubSeq(longer, Len(longer) - WindowSize + 1, Len(longer))
      BY <1>3 DEF Push, Trimmed
    <3>3. systems' = systems + 1
      BY <1>3 DEF Push
    <3> QED BY <3>1, <3>2, <3>3
  <2>3. /\ kept' \in Seq(Int) /\ Len(kept') = WindowSize
        /\ \A i \in 1..WindowSize : kept'[i] = longer[i + 1]
    BY <1>1, <2>1, <2>2, WindowAssumption
  <2>4. \A i \in 1..WindowSize : kept'[i] = systems' + i - 1
    BY <1>1, <2>1, <2>2, <2>3, WindowAssumption DEF Consecutive
  <2> QED BY <2>1, <2>2, <2>3, <2>4, WindowAssumption DEF Consecutive
<1> QED BY <1>2, <1>3
-----------------------------------------------------------------------------
\* The budgets hold initially.
LEMMA InitBudget == Init => BudgetInv
  BY LimitAssumption, StepsAndAttempts
     DEF Init, BudgetInv, Numbers, AttemptsCounted, CallsCounted, Fresh, Active, PerStep

\* Going on to the next step after s steps have used what they may.
LEMMA EntersStepCounted ==
    ASSUME Numbers, step <= MaxSteps, EntersStep,
           attempts <= step * PerStep, attempts <= MaxSteps * PerStep
    PROVE /\ step' \in Nat /\ attempt' \in 0..Retries /\ attempts' \in Nat
          /\ AttemptsCounted' /\ pc' \in {"over", "streams"}
<1>1. CASE pc' = "over" /\ UNCHANGED <<attempt, attempts>>
  BY <1>1 DEF EntersStep, Numbers, AttemptsCounted, Fresh, Active
<1>2. CASE pc' = "streams" /\ step' <= MaxSteps /\ attempt' = 0 /\ attempts' = attempts + 1
  <2>1. step' \in 1..MaxSteps /\ step' - 1 = step
    BY <1>2, LimitAssumption DEF EntersStep, Numbers
  <2>2. attempts' <= (step' - 1) * PerStep + attempt' + 1
    <3>1. (step' - 1) * PerStep = step * PerStep
      BY <2>1
    <3>2. (step' - 1) * PerStep \in Nat
      BY <2>1, StepsAndAttempts
    <3> QED BY <1>2, <3>1, <3>2 DEF Numbers
  <2>3. /\ (step' - 1) * PerStep + PerStep <= MaxSteps * PerStep
        /\ (step' - 1) * PerStep \in Nat /\ MaxSteps * PerStep \in Nat
    BY <2>1, StepsAndAttempts
  <2>4. attempts' <= MaxSteps * PerStep
    BY <1>2, <2>2, <2>3, LimitAssumption DEF PerStep, Numbers
  <2> QED BY <1>2, <2>1, <2>2, <2>4, LimitAssumption
          DEF Numbers, AttemptsCounted, Fresh, Active
<1> QED BY <1>1, <1>2 DEF EntersStep, EndsSilently

\* Every step keeps the budgets.
LEMMA NextBudget == BudgetInv /\ [Next]_vars => BudgetInv'
<1> SUFFICES ASSUME BudgetInv, [Next]_vars PROVE BudgetInv'
  OBVIOUS
<1> USE DEF BudgetInv
<1>1. CASE HandleMessage
  BY <1>1 DEF HandleMessage, Numbers, AttemptsCounted, CallsCounted, Fresh, Active
<1>2. CASE Recovers
  <2>1. step <= MaxSteps /\ attempts <= step * PerStep /\ attempts <= MaxSteps * PerStep
    BY <1>2, LimitAssumption DEF Recovers, AttemptsCounted, Fresh, PerStep
  <2>2. EntersStep /\ UNCHANGED <<calls, ran>>
    BY <1>2 DEF Recovers
  <2> QED BY <2>1, <2>2, EntersStepCounted DEF Numbers, CallsCounted
<1>3. CASE ToolCallArrives
  BY <1>3, LimitAssumption
     DEF ToolCallArrives, WithinBudget, Numbers, AttemptsCounted, CallsCounted, Fresh, Active
<1>4. CASE ToolReturns
  BY <1>4, LimitAssumption
     DEF ToolReturns, Numbers, AttemptsCounted, CallsCounted, Fresh, Active
<1>5. CASE StreamEndsDone
  BY <1>5 DEF StreamEndsDone, Numbers, AttemptsCounted, CallsCounted, Fresh, Active
<1>6. CASE StreamEndsBare
  <2>1. step \in 1..MaxSteps /\ attempts <= (step - 1) * PerStep + attempt + 1
    BY <1>6 DEF StreamEndsBare, AttemptsCounted, Active
  <2>2. attempts <= step * PerStep
    <3>1. attempt + 1 <= PerStep /\ attempt \in Int /\ attempts \in Int /\ PerStep \in Int
      BY LimitAssumption DEF Numbers, PerStep
    <3>2. /\ (step - 1) * PerStep + PerStep = step * PerStep
          /\ (step - 1) * PerStep \in Nat /\ step * PerStep \in Nat
      BY <2>1, StepsAndAttempts
    <3> QED BY <2>1, <3>1, <3>2
  <2>3. CASE step < MaxSteps /\ EntersStep
    <3>1. UNCHANGED <<calls, ran>> /\ step <= MaxSteps /\ attempts <= MaxSteps * PerStep
      BY <1>6, <2>1 DEF StreamEndsBare, AttemptsCounted
    <3> QED BY <2>2, <2>3, <3>1, EntersStepCounted DEF Numbers, CallsCounted
  <2>4. CASE EndsSilently("max_steps") /\ UNCHANGED <<step, attempt, attempts, shown>>
    BY <1>6, <2>4
       DEF StreamEndsBare, EndsSilently, Numbers, AttemptsCounted, CallsCounted, Fresh, Active
  <2> QED BY <1>6, <2>3, <2>4 DEF StreamEndsBare
<1>7. CASE StreamBreaks
  <2>1. CASE MayRetry /\ pc' = "backsOff" /\ attempt' = attempt + 1
    BY <1>7, <2>1, LimitAssumption, StepsAndAttempts
       DEF StreamBreaks, MayRetry, Numbers, AttemptsCounted, CallsCounted, Fresh, Active
  <2>2. CASE EndsSilently("llm_error") /\ UNCHANGED attempt
    BY <1>7, <2>2
       DEF StreamBreaks, EndsSilently, Numbers, AttemptsCounted, CallsCounted, Fresh, Active
  <2> QED BY <1>7, <2>1, <2>2 DEF StreamBreaks
<1>8. CASE BackoffEnds
  <2>1. /\ step \in 1..MaxSteps /\ attempts <= (step - 1) * PerStep + attempt
        /\ attempts' = attempts + 1 /\ UNCHANGED <<step, attempt, calls, ran>>
        /\ pc = "backsOff" /\ pc' = "streams"
    BY <1>8 DEF BackoffEnds, AttemptsCounted, Active
  <2>2. /\ attempt + 1 <= PerStep /\ attempt \in Int /\ attempts \in Nat /\ PerStep \in Int
    BY LimitAssumption DEF Numbers, PerStep
  <2>3. /\ (step - 1) * PerStep + PerStep = step * PerStep
        /\ step * PerStep <= MaxSteps * PerStep
        /\ (step - 1) * PerStep \in Nat /\ step * PerStep \in Nat
        /\ MaxSteps * PerStep \in Nat
    BY <2>1, StepsAndAttempts
  <2>4. attempts' <= (step - 1) * PerStep + attempt + 1 /\ attempts' <= MaxSteps * PerStep
    BY <2>1, <2>2, <2>3
  <2> QED BY <2>1, <2>4 DEF Numbers, AttemptsCounted, CallsCounted, Fresh, Active
<1>9. CASE Remembers \/ Saves \/ Replies \/ Apologises
  <2>1. /\ UNCHANGED <<step, attempt, attempts, calls, ran>>
        /\ pc' \in {"saves", "replies", "apologises", "over"}
    BY <1>9 DEF Remembers, Saves, Replies, Apologises
  <2> QED BY <2>1 DEF Numbers, AttemptsCounted, CallsCounted, Fresh, Active
<1>10. CASE UNCHANGED vars
  BY <1>10 DEF vars, Numbers, AttemptsCounted, CallsCounted, Fresh, Active
<1> QED BY <1>1, <1>2, <1>3, <1>4, <1>5, <1>6, <1>7, <1>8, <1>9, <1>10
        DEF Next, Streams, GoesOn

\* No turn runs more tool calls than maxToolCalls, and none calls the model
\* more often than maxSteps and llmRetryAttempts allow together.
THEOREM TurnsKeepBudgets == Spec => []Budgets
<1>1. BudgetInv => Budgets
  BY DEF BudgetInv, AttemptsCounted, CallsCounted, Budgets, PerStep
<1> QED BY <1>1, InitBudget, NextBudget, PTL DEF Spec
-----------------------------------------------------------------------------
\* The window is empty before the prompt is pushed.
LEMMA InitWindow == Init => WindowInv
  BY WindowAssumption DEF Init, WindowInv, Consecutive, Fresh, Active

\* Messages that count from zero have message 0 among them.
LEMMA FirstIsShown ==
    ASSUME NEW seq \in Seq(Int), Len(seq) >= 1, \A i \in 1..Len(seq) : seq[i] = i - 1
    PROVE 0 \in Messages(seq)
<1>1. 1 \in DOMAIN seq /\ seq[1] = 0
  OBVIOUS
<1> QED BY <1>1 DEF Messages

\* Entering a step with a window in order shows the model the messages of it.
LEMMA EntersStepInOrder ==
    ASSUME Consecutive', calls' \in Nat, systems' + Len(kept') = calls' + 1, EntersStep
    PROVE WindowInv'
<1>1. pc' \in {"over", "streams"}
  BY DEF EntersStep, EndsSilently
<1>2. ASSUME pc' = "streams", calls' < WindowSize PROVE 0 \in shown'
  <2>1. shown' = Messages(kept')
    BY <1>2 DEF EntersStep, EndsSilently
  <2>2. systems' = 0 /\ Len(kept') >= 1
    BY <1>2, WindowAssumption DEF Consecutive
  <2>3. kept' \in Seq(Int) /\ \A i \in 1..Len(kept') : kept'[i] = i - 1
    <3>1. kept' \in Seq(Int) /\ \A i \in 1..Len(kept') : kept'[i] = systems' + i - 1
      BY DEF Consecutive
    <3>2. ASSUME NEW i \in 1..Len(kept') PROVE kept'[i] = i - 1
      <4>1. kept'[i] = systems' + i - 1 /\ i \in Int
        BY <3>1
      <4> QED BY <2>2, <4>1
    <3> QED BY <3>1, <3>2
  <2> QED BY <2>1, <2>2, <2>3, FirstIsShown
<1> QED BY <1>1, <1>2 DEF WindowInv, Fresh, Active

\* Every step keeps the window in order.
LEMMA NextWindow == WindowInv /\ [Next]_vars => WindowInv'
<1> SUFFICES ASSUME WindowInv, [Next]_vars PROVE WindowInv'
  OBVIOUS
<1> USE DEF WindowInv
<1>1. CASE HandleMessage
  BY <1>1 DEF HandleMessage, Consecutive, Fresh, Active
<1>2. CASE Recovers
  <2>1. systems + Len(kept) = 0 /\ calls = 0 /\ calls' = 0
    BY <1>2 DEF Recovers, Fresh
  <2>2. Push(systems + Len(kept)) /\ EntersStep
    BY <1>2, <2>1 DEF Recovers
  <2>3. Consecutive' /\ systems' + Len(kept') = calls' + 1
    BY <2>1, <2>2, PushKeepsOrder
  <2> QED BY <2>1, <2>2, <2>3, EntersStepInOrder
<1>3. CASE ToolCallArrives \/ ToolReturns
  <2>1. Active /\ Active' /\ shown' = shown
    BY <1>3 DEF ToolCallArrives, ToolReturns, Active
  <2>2. CASE UNCHANGED <<calls, systems, kept>>
    BY <2>1, <2>2 DEF Consecutive, Fresh, Active
  <2>3. CASE calls' = calls + 1 /\ Push(calls + 1)
    <3>1. Push(systems + Len(kept))
      BY <2>1, <2>3
    <3>2. Consecutive' /\ systems' + Len(kept') = calls' + 1
      BY <2>1, <2>3, <3>1, PushKeepsOrder
    <3>3. calls' < WindowSize => calls < WindowSize
      BY <2>3, WindowAssumption
    <3> QED BY <2>1, <2>3, <3>2, <3>3 DEF Fresh, Active
  <2> QED BY <1>3, <2>2, <2>3 DEF ToolCallArrives, ToolReturns
<1>4. CASE StreamEndsDone
  <2>1. ~Active' /\ ~Fresh' /\ calls' = calls
    BY <1>4 DEF StreamEndsDone, Active, Fresh
  <2>2. CASE UNCHANGED <<systems, kept>>
    BY <2>1, <2>2 DEF Consecutive
  <2>3. CASE Push(calls + 1)
    <3>1. Push(systems + Len(kept))
      BY <1>4, <2>3 DEF StreamEndsDone, Active
    <3> QED BY <2>1, <3>1, PushKeepsOrder
  <2> QED BY <1>4, <2>2, <2>3 DEF StreamEndsDone
<1>5. CASE StreamEndsBare
  <2>1. Consecutive' /\ calls' = calls /\ systems' + Len(kept') = calls' + 1
    BY <1>5 DEF StreamEndsBare, Consecutive, Active
  <2>2. CASE EntersStep
    BY <2>1, <2>2, EntersStepInOrder
  <2>3. CASE EndsSilently("max_steps")
    BY <2>1, <2>3 DEF EndsSilently, Fresh, Active
  <2> QED BY <1>5, <2>2, <2>3 DEF StreamEndsBare
<1>6. CASE StreamBreaks \/ BackoffEnds
  BY <1>6 DEF StreamBreaks, BackoffEnds, EndsSilently, Consecutive, Fresh, Active
<1>7. CASE Remembers \/ Saves \/ Replies \/ Apologises
  <2>1. /\ UNCHANGED <<calls, systems, kept, shown>>
        /\ pc' \in {"saves", "replies", "apologises", "over"}
    BY <1>7 DEF Remembers, Saves, Replies, Apologises
  <2> QED BY <2>1 DEF Consecutive, Fresh, Active
<1>8. CASE UNCHANGED vars
  BY <1>8 DEF vars, Consecutive, Fresh, Active
<1> QED BY <1>1, <1>2, <1>3, <1>4, <1>5, <1>6, <1>7, <1>8 DEF Next, Streams, GoesOn

\* The window is the most recent messages in order, for any window size and
\* any number of steps, retries and tool calls.
LEMMA WindowKeepsRecent == WindowInv => WindowIsRecent
<1> SUFFICES ASSUME WindowInv PROVE WindowIsRecent
  OBVIOUS
<1> DEFINE first == IF Len(kept) = 0 THEN 0 ELSE kept[1]
<1>1. systems = first
  <2>1. CASE Len(kept) = 0
    BY <2>1, WindowAssumption DEF WindowInv, Consecutive
  <2>2. CASE Len(kept) # 0
    BY <2>2 DEF WindowInv, Consecutive
  <2> QED BY <2>1, <2>2
<1>2. \A i \in DOMAIN kept : kept[i] = first + i - 1
  <2>1. DOMAIN kept = 1..Len(kept)
    BY DEF WindowInv, Consecutive
  <2>2. \A i \in 1..Len(kept) : kept[i] = systems + i - 1
    BY DEF WindowInv, Consecutive
  <2> HIDE DEF first
  <2> QED BY <1>1, <2>1, <2>2
<1>3. Active => first + Len(kept) = calls + 1
  BY <1>1 DEF WindowInv
<1> QED BY <1>1, <1>2, <1>3 DEF WindowIsRecent, WindowInv, Consecutive, Active

\* The window is sound, and every call shows the model the prompt while no result
\* has displaced it, for any size of the window.
THEOREM WindowStaysSound == Spec => []WindowIsSound
<1>1. WindowInv => WindowIsSound
  BY WindowKeepsRecent DEF WindowInv, WindowIsSound, PromptIsShown, Active
<1> QED BY <1>1, InitWindow, NextWindow, PTL DEF Spec
-----------------------------------------------------------------------------
\* How far the numbers of a turn go.
Bounded ==
    /\ pc \in Places /\ stop \in Stops /\ told \in {"nothing", "response", "error"}
    /\ step <= MaxSteps + 1
    /\ calls <= MaxResults
    /\ pc = "runsTool" => calls < MaxResults
    /\ systems + Len(kept) <= calls + 2
    /\ shown \subseteq 0..MaxResults

TypeInv == BudgetInv /\ WindowInv /\ Bounded

\* The messages of a window in order lie between its first and its last.
LEMMA MessagesInRange ==
    ASSUME Consecutive
    PROVE  Messages(kept) \subseteq systems .. (systems + Len(kept) - 1)
<1>1. \A i \in 1..Len(kept) : kept[i] = systems + i - 1 /\ i \in Int
  BY DEF Consecutive
<1>2. DOMAIN kept = 1..Len(kept) /\ Len(kept) \in Nat /\ systems \in Nat
  BY DEF Consecutive
<1> QED BY <1>1, <1>2 DEF Messages

\* Entering a step, with a window that ends at the last result, stays in bounds.
LEMMA EntersStepBounded ==
    ASSUME EntersStep, step \in Nat, step <= MaxSteps, Consecutive',
           calls' \in Nat, calls' <= MaxResults, systems' + Len(kept') = calls' + 1,
           shown \subseteq 0..MaxResults, stop \in Stops,
           told' \in {"nothing", "response", "error"}
    PROVE  Bounded'
<1>1. Messages(kept') \subseteq 0..MaxResults
  <2>1. (Messages(kept) \subseteq systems .. (systems + Len(kept) - 1))'
    BY MessagesInRange, PTL
  <2>2. systems' \in Nat /\ systems' + Len(kept') - 1 = calls'
    BY DEF Consecutive
  <2>3. Messages(kept') \subseteq systems' .. (systems' + Len(kept') - 1)
    BY <2>1 DEF Messages
  <2> QED BY <2>2, <2>3, ModelAssumption
<1>2. step' <= MaxSteps + 1 /\ shown' \subseteq 0..MaxResults
  <2>1. shown' = shown \/ shown' = Messages(kept')
    BY DEF EntersStep
  <2>2. step' = step + 1
    BY DEF EntersStep
  <2>3. shown' \subseteq 0..MaxResults
    <3>1. CASE shown' = shown
      BY <3>1
    <3>2. CASE shown' = Messages(kept')
      BY <1>1, <3>2
    <3> QED BY <2>1, <3>1, <3>2
  <2> QED BY <2>2, <2>3, LimitAssumption
<1>3. pc' \in {"over", "streams"} /\ stop' \in Stops
  BY DEF EntersStep, EndsSilently, Stops
<1> QED BY <1>2, <1>3 DEF Bounded, Places

\* Every step stays in bounds.
LEMMA NextBounded == TypeInv /\ [Next]_vars => Bounded'
<1> SUFFICES ASSUME TypeInv, [Next]_vars PROVE Bounded'
  OBVIOUS
<1>1. /\ step \in Nat /\ calls \in Nat /\ MaxResults \in Nat /\ MaxSteps \in Nat
      /\ systems \in Nat /\ Len(kept) \in Nat /\ Consecutive
      /\ Active => systems + Len(kept) = calls + 1
      /\ shown \subseteq 0..MaxResults /\ stop \in Stops
      /\ told \in {"nothing", "response", "error"}
  BY LimitAssumption, ModelAssumption
     DEF TypeInv, BudgetInv, Numbers, WindowInv, Consecutive, Bounded
<1>2. BudgetInv' /\ WindowInv'
  BY NextBudget, NextWindow DEF TypeInv
<1>3. CASE Recovers
  <2>1. /\ EntersStep /\ step = 0 /\ calls = 0 /\ calls' = 0 /\ told' = told
        /\ Push(systems + Len(kept)) /\ systems + Len(kept) = 0
    BY <1>3 DEF Recovers, TypeInv, BudgetInv, AttemptsCounted, WindowInv, Fresh
  <2>2. Consecutive' /\ systems' + Len(kept') = calls' + 1
    BY <1>1, <2>1, PushKeepsOrder
  <2> QED BY <1>1, <2>1, <2>2, EntersStepBounded
<1>4. CASE ToolCallArrives \/ ToolReturns
  <2>1. /\ Active' /\ calls < MaxResults
        /\ UNCHANGED <<step, shown, stop, told>>
        /\ calls' = calls \/ (calls' = calls + 1 /\ pc' # "runsTool")
    BY <1>4 DEF ToolCallArrives, ToolReturns, Active, TypeInv, Bounded
  <2>2. systems' + Len(kept') = calls' + 1
    BY <1>2, <2>1 DEF WindowInv
  <2> QED BY <1>1, <2>1, <2>2 DEF TypeInv, Bounded, Active, Places
<1>5. CASE StreamEndsDone
  <2>1. /\ pc' = "remembers" /\ stop' = "answer" /\ Active
        /\ UNCHANGED <<step, calls, shown, told>>
    BY <1>5 DEF StreamEndsDone, Active
  <2>2. systems' + Len(kept') <= calls' + 2
    <3>1. CASE Push(calls + 1)
      <4>1. Push(systems + Len(kept))
        BY <1>1, <2>1, <3>1
      <4>2. systems' + Len(kept') = systems + Len(kept) + 1
        BY <1>1, <4>1, PushKeepsOrder
      <4> QED BY <1>1, <2>1, <4>2
    <3>2. CASE UNCHANGED <<systems, kept>>
      BY <1>1, <2>1, <3>2
    <3> QED BY <1>5, <3>1, <3>2 DEF StreamEndsDone
  <2> QED BY <2>1, <2>2 DEF TypeInv, Bounded, Places, Stops
<1>6. CASE StreamEndsBare
  <2>1. /\ UNCHANGED <<systems, kept, calls, told>> /\ Active
    BY <1>6 DEF StreamEndsBare, Active
  <2>2. CASE step < MaxSteps /\ EntersStep
    <3>1. Consecutive' /\ calls' \in Nat
      BY <1>2 DEF WindowInv
    <3>2. calls' <= MaxResults /\ systems' + Len(kept') = calls' + 1
      BY <1>1, <2>1 DEF TypeInv, Bounded
    <3> QED BY <1>1, <2>1, <2>2, <3>1, <3>2, EntersStepBounded
  <2>3. CASE EndsSilently("max_steps") /\ UNCHANGED <<step, shown>>
    BY <2>1, <2>3 DEF TypeInv, Bounded, EndsSilently, Places, Stops
  <2> QED BY <1>6, <2>2, <2>3 DEF StreamEndsBare
<1>7. CASE StreamBreaks \/ BackoffEnds
  BY <1>7 DEF StreamBreaks, BackoffEnds, EndsSilently, TypeInv, Bounded, Places, Stops
<1>8. CASE HandleMessage \/ Remembers \/ Saves \/ Replies \/ Apologises
  BY <1>8 DEF HandleMessage, Remembers, Saves, Replies, Apologises, TypeInv, Bounded, Places
<1>9. CASE UNCHANGED vars
  BY <1>9 DEF vars, TypeInv, Bounded
<1> QED BY <1>3, <1>4, <1>5, <1>6, <1>7, <1>8, <1>9 DEF Next, Streams, GoesOn

\* The bounds are the types.
LEMMA BoundsAreTypes == TypeInv => TypeOK
<1> SUFFICES ASSUME TypeInv PROVE TypeOK
  OBVIOUS
<1>1. /\ step \in Nat /\ attempt \in 0..Retries /\ attempts \in Nat
      /\ calls \in Nat /\ ran \in Nat /\ systems \in Nat /\ Consecutive
  BY DEF TypeInv, BudgetInv, Numbers, WindowInv, Consecutive
<1>2. ran <= calls
  BY <1>1, LimitAssumption DEF TypeInv, BudgetInv, CallsCounted
<1>3. kept \in Seq(0..(MaxResults + 1))
  <2>1. kept \in Seq(Int) /\ systems + Len(kept) - 1 <= MaxResults + 1
    BY <1>1, ModelAssumption DEF TypeInv, Bounded, Consecutive
  <2>2. \A i \in 1..Len(kept) : kept[i] \in 0..(MaxResults + 1)
    BY <1>1, <2>1, ModelAssumption DEF Consecutive
  <2>3. kept = [i \in 1..Len(kept) |-> kept[i]] /\ Len(kept) \in Nat
    BY <2>1
  <2> DEFINE ids == 0..(MaxResults + 1)
  <2>4. kept \in [1..Len(kept) -> ids]
    BY <2>2, <2>3
  <2> HIDE DEF ids
  <2>5. kept \in Seq(ids)
    BY <2>3, <2>4
  <2> QED BY <2>5 DEF ids
<1> QED BY <1>1, <1>2, <1>3, LimitAssumption, ModelAssumption DEF TypeInv, Bounded, TypeOK

\* Type correctness of a turn.
THEOREM TypeCorrect == Spec => []TypeOK
<1>1. Init => TypeInv
  <2>1. Init => Bounded
    BY LimitAssumption, ModelAssumption DEF Init, Bounded, Places, Stops
  <2> QED BY <2>1, InitBudget, InitWindow DEF TypeInv
<1>2. TypeInv /\ [Next]_vars => TypeInv'
  BY NextBudget, NextWindow, NextBounded DEF TypeInv
<1> QED BY <1>1, <1>2, BoundsAreTypes, PTL DEF Spec
=============================================================================
