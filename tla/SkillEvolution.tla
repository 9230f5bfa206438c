--------------------------- MODULE SkillEvolution ---------------------------
(***************************************************************************)
(* What SkillManager (skills/skillManager.ts) learns about skills: calls   *)
(* and their outcomes (SkillEvaluator), patch suggestions, the lifecycle   *)
(* file that keeps both, and evolve(), which retires and criticises        *)
(* skills. Evaluations are of names: they outlive the skill.               *)
(***************************************************************************)
EXTENDS Integers, FiniteSets

CONSTANTS Skills,
          TrendFrom,            \* 10: calls before there is a trend
          DecliningBelow,       \* 20: fewer calls are a declining trend
          RisingAbove,          \* 50: more are a rising one
          EvolutionThreshold,   \* evolutionThreshold, 10 unless configured
          MinCalls,             \* 5: calls before a skill is criticised
          Percent,              \* successRateThreshold
          MaxCalls              \* bound

VARIABLES present,    \* the skills in memory
          evals,      \* calls, successes and trend of each name
          patches,    \* the names with an open suggestion
          saved,      \* the lifecycle file, and whether it parses
          saving,     \* whether a write of it is under way, and of what
          evolving,   \* "no", or the retirements an evolve() has still to make
          retired     \* what was retired, with its calls at that time (history)

vars == <<present, evals, patches, saved, saving, evolving, retired>>

Trends == {"rising", "stable", "declining"}
Evaluation == [calls : 0..MaxCalls, wins : 0..MaxCalls, trend : Trends]
Fresh == [calls |-> 0, wins |-> 0, trend |-> "stable"]
Known == [evals |-> evals, patches |-> patches]
Nothing == [evals |-> [n \in Skills |-> Fresh], patches |-> {}]
Idle == [on |-> FALSE, left |-> {}]
NotSaving == [on |-> FALSE, content |-> Nothing]

Init == /\ present \in SUBSET Skills
        /\ evals = [n \in Skills |-> Fresh] /\ patches = {}
        /\ saved = [content |-> Nothing, parses |-> TRUE] /\ saving = NotSaving
        /\ evolving = Idle /\ retired = {}
-----------------------------------------------------------------------------
Trend(calls) == IF calls > RisingAbove THEN "rising"
                ELSE IF calls < DecliningBelow THEN "declining" ELSE "stable"

\* recordCall: the trend is of the number of calls.
Counted(e, success) == [calls |-> e.calls + 1,
                        wins |-> IF success THEN e.wins + 1 ELSE e.wins,
                        trend |-> IF e.calls + 1 >= TrendFrom THEN Trend(e.calls + 1)
                                  ELSE e.trend]

RecordCall(n, success) == /\ evals[n].calls < MaxCalls
                          /\ evals' = [evals EXCEPT ![n] = Counted(@, success)]

\* recordSkillOutcome takes any name.
RecordSkillOutcome(n) == /\ \E success \in BOOLEAN : RecordCall(n, success)
                         /\ UNCHANGED <<present, patches, saved, saving, evolving, retired>>

\* executeSkill counts a success before it saves the skill; when the save throws
\* it counts a failure too and suggests a patch.
ExecuteSkill(n) ==
    /\ n \in present
    /\ \/ RecordCall(n, TRUE) /\ UNCHANGED patches
       \/ /\ evals[n].calls + 1 < MaxCalls
          /\ evals' = [evals EXCEPT ![n] = Counted(Counted(@, TRUE), FALSE)]
          /\ patches' = patches \cup {n}
    /\ UNCHANGED <<present, saved, saving, evolving, retired>>

MarkPatchSuggestion(n) == /\ n \in patches /\ patches' = patches \ {n}
                          /\ UNCHANGED <<present, evals, saved, saving, evolving, retired>>

CreateSkill(n) == /\ n \notin present /\ present' = present \cup {n}
                  /\ UNCHANGED <<evals, patches, saved, saving, evolving, retired>>
DeleteSkill(n) == /\ n \in present /\ present' = present \ {n}
                  /\ UNCHANGED <<evals, patches, saved, saving, evolving, retired>>
-----------------------------------------------------------------------------
\* getSkillsForRetirement and getSkillsNeedingEvolution look at every name.
ForRetirement == {n \in Skills : /\ evals[n].calls \in 1..(EvolutionThreshold - 1)
                                 /\ evals[n].trend = "declining"}
NeedEvolution == {n \in Skills : /\ evals[n].calls >= MinCalls
                                 /\ 100 * evals[n].wins < Percent * evals[n].calls}

\* evolve() lists what is to go; each deletion is awaited, and what is called in
\* the meantime goes too.
Evolve == /\ ~evolving.on
          /\ evolving' = [on |-> TRUE, left |-> ForRetirement]
          /\ retired' = retired \cup {[name |-> n, calls |-> evals[n].calls] :
                                      n \in ForRetirement}
          /\ UNCHANGED <<present, evals, patches, saved, saving>>

Retire(n) == /\ n \in evolving.left
             /\ evolving' = [evolving EXCEPT !.left = @ \ {n}]
             /\ present' = present \ {n}
             /\ UNCHANGED <<evals, patches, saved, saving, retired>>

Improve == /\ evolving = [on |-> TRUE, left |-> {}] /\ evolving' = Idle
           /\ patches' = patches \cup NeedEvolution
           /\ UNCHANGED <<present, evals, saved, saving, retired>>
-----------------------------------------------------------------------------
\* persistLifecycleState, after an execution, an evolve, or on flush. (One at a
\* time here; writes that overlap are modelled in FileStores.)
BeginSave == /\ ~saving.on
             /\ saving' = [on |-> TRUE, content |-> Known]
             /\ saved' = [saved EXCEPT !.parses = FALSE]
             /\ UNCHANGED <<present, evals, patches, evolving, retired>>

FinishSave == /\ saving.on /\ saving' = NotSaving
              /\ saved' = [content |-> saving.content, parses |-> TRUE]
              /\ UNCHANGED <<present, evals, patches, evolving, retired>>

\* The process starts again; loadLifecycleState drops a file that does not parse.
Restart == LET loaded == IF saved.parses THEN saved.content ELSE Nothing IN
           /\ evals' = loaded.evals /\ patches' = loaded.patches
           /\ saving' = NotSaving /\ evolving' = Idle
           /\ UNCHANGED <<present, saved, retired>>

Next == \/ \E n \in Skills : \/ RecordSkillOutcome(n) \/ ExecuteSkill(n)
                             \/ MarkPatchSuggestion(n) \/ CreateSkill(n) \/ DeleteSkill(n)
                             \/ Retire(n)
        \/ Evolve \/ Improve \/ BeginSave \/ FinishSave \/ Restart

Spec == Init /\ [][Next]_vars
-----------------------------------------------------------------------------
\* What evolve() retires was called fewer times than the threshold and often enough
\* to have a trend, whatever is saved, lost and loaded in between, and also when the
\* threshold is configured. (So with the default threshold, which is TrendFrom, it
\* retires nothing; the comments on evolutionThreshold and in evolve() speak of the
\* use alone, and are not what the code does.)
RetiredWereUsed ==
    \A r \in retired : r.calls \in TrendFrom..(EvolutionThreshold - 1)

\* Types of the state.
TypeOK == /\ present \subseteq Skills /\ patches \subseteq Skills
          /\ evals \in [Skills -> Evaluation]
          /\ \A n \in Skills : evals[n].wins <= evals[n].calls
          /\ saved.parses \in BOOLEAN /\ saving.on \in BOOLEAN
          /\ evolving \in [on : BOOLEAN, left : SUBSET Skills]
          /\ retired \subseteq [name : Skills, calls : 1..MaxCalls]
=============================================================================
