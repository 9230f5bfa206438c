----------------------------- MODULE SkillFiles -----------------------------
(***************************************************************************)
(* The skills of SkillManager (skills/skillManager.ts) and their files:    *)
(* creating, deleting and executing a skill, which saves it, with the file *)
(* operations they wait for. A skill's file is named after the skill with  *)
(* every other character made an underscore, so two names may share one.   *)
(*                                                                         *)
(* fs.writeFile empties the file and then fills it. A file that was cut    *)
(* has no front matter and is loaded as a skill called "unknown". The name *)
(* in the front matter is not always read as it was written: quotes are    *)
(* dropped, and what looks like a number, a boolean or a list becomes one. *)
(***************************************************************************)
EXTENDS Integers, FiniteSets

CONSTANTS Names, Unknown, None,
          Files, FileOf,   \* the file each name gives
          ReadAs,          \* what each name is when it is read from a file
          MaxSkills,
          Slots,           \* bound on operations under way
          MaxCrashes       \* bound on crashes

VARIABLES skills,    \* the file of each skill in memory, or None
          files,     \* the name written in each file, Unknown if cut, or None
          ops,       \* the operations under way
          suspect,   \* files of operations that met another one on the file or on the
                     \* skill, or that two skills share, or that a failure cut
          undeleted, \* files that could not be unlinked when their skill was deleted
          crashes

vars == <<skills, files, ops, suspect, undeleted, crashes>>

AllNames == Names \cup {Unknown}
NoOp == [kind |-> "none", name |-> None, file |-> None, step |-> "none"]

Init == /\ skills = [n \in AllNames |-> None]
        /\ files = [f \in Files |-> None]
        /\ ops = [s \in Slots |-> NoOp]
        /\ suspect = {} /\ undeleted = {} /\ crashes = 0
-----------------------------------------------------------------------------
On(f) == {s \in Slots : ops[s].file = f}
Beside(n, f) == {s \in Slots : ops[s].file = f \/ ops[s].name = n}

\* Whether f is shared by another skill than n.
Shared(f, n) == \E m \in AllNames \ {n} : skills[m] = f

Begin(kind, n, f) ==
    /\ \E s \in Slots :
          /\ ops[s] = NoOp
          /\ ops' = [ops EXCEPT ![s] = [kind |-> kind, name |-> n, file |-> f,
                                        step |-> "issued"]]
    /\ suspect' = suspect \cup {ops[s].file : s \in Beside(n, f)}
                          \cup {g \in {f} : Beside(n, f) # {} \/ Shared(f, n)}
    /\ UNCHANGED <<skills, files, undeleted, crashes>>

\* createSkill looks at the names in memory, and not at the file.
CreateSkill(n) == /\ n \in Names /\ skills[n] = None
                  /\ Cardinality({m \in AllNames : skills[m] # None}) < MaxSkills
                  /\ Begin("create", n, FileOf[n])

\* executeSkill counts the call and saves the skill it found.
ExecuteSkill(n) == skills[n] # None /\ Begin("execute", n, skills[n])

\* deleteSkill, also for a skill that is retired.
DeleteSkill(n) == skills[n] # None /\ Begin("delete", n, skills[n])

\* saveSkill: the file is opened,
OpenFile(s) ==
    /\ ops[s].kind \in {"create", "execute"} /\ ops[s].step = "issued"
    /\ ops' = [ops EXCEPT ![s].step = "open"]
    /\ files' = [files EXCEPT ![ops[s].file] = Unknown]
    /\ undeleted' = undeleted \ {ops[s].file}
    /\ UNCHANGED <<skills, suspect, crashes>>

Created(s) == IF ops[s].kind = "create"
              THEN [skills EXCEPT ![ops[s].name] = ops[s].file] ELSE skills

\* and filled, and a new skill is put into memory. A file that was deleted in
\* between stays deleted; one that somebody else wrote meanwhile may be a mix.
FinishSave(s) ==
    /\ ops[s].step \in {"open", "deleted"}
    /\ LET f == ops[s].file IN
       \/ ops[s].step = "open" /\ files' = [files EXCEPT ![f] = ops[s].name]
       \/ ops[s].step = "open" /\ f \in suspect /\ files' = [files EXCEPT ![f] = Unknown]
       \/ ops[s].step = "deleted" /\ UNCHANGED files
    /\ skills' = Created(s)
    /\ ops' = [ops EXCEPT ![s] = NoOp]
    /\ UNCHANGED <<suspect, undeleted, crashes>>

\* Mutant: createSkill puts the skill into memory before it is saved.
FailsKnown(s) ==
    /\ ops[s].kind \in {"create", "execute"}
    /\ ops' = [ops EXCEPT ![s] = NoOp]
    /\ suspect' = IF ops[s].step = "open" THEN suspect \cup {ops[s].file} ELSE suspect
    /\ skills' = Created(s)
    /\ UNCHANGED <<files, undeleted, crashes>>

\* The operation throws, before or after the file was opened. executeSkill counts
\* the call once more, as a failure.
FailSave(s) ==
    /\ ops[s].kind \in {"create", "execute"}
    /\ ops' = [ops EXCEPT ![s] = NoOp]
    /\ suspect' = IF ops[s].step = "open" THEN suspect \cup {ops[s].file} ELSE suspect
    /\ UNCHANGED <<skills, files, undeleted, crashes>>

\* The file is unlinked, whether or not it is there, and the skill forgotten, also
\* when the unlink fails and the file stays.
FinishDelete(s) ==
    LET f == ops[s].file IN
    /\ ops[s].kind = "delete"
    /\ skills' = [skills EXCEPT ![ops[s].name] = None]
    /\ \/ /\ files' = [files EXCEPT ![f] = None]
          /\ undeleted' = undeleted \ {f}
          /\ ops' = [t \in Slots |-> IF t = s THEN NoOp
                                     ELSE IF ops[t].file = f /\ ops[t].step = "open"
                                     THEN [ops[t] EXCEPT !.step = "deleted"] ELSE ops[t]]
       \/ /\ undeleted' = undeleted \cup {f}
          /\ ops' = [ops EXCEPT ![s] = NoOp]
          /\ UNCHANGED files
    /\ UNCHANGED <<suspect, crashes>>

\* loadAllSkills: of two files that give one name the one that is read last wins.
Given(f) == IF files[f] = None THEN None ELSE ReadAs[files[f]]
Loads == LET given == {Given(f) : f \in Files} \ {None} IN
         \E last \in [given -> Files] :
             /\ \A n \in given : Given(last[n]) = n
             /\ skills' = [n \in AllNames |-> IF n \in given THEN last[n] ELSE None]
             /\ suspect' = {f \in Files : Given(f) # None /\ last[Given(f)] # f}

Restart == /\ crashes < MaxCrashes /\ crashes' = crashes + 1
           /\ ops' = [s \in Slots |-> NoOp]
           /\ Loads /\ undeleted' = {}
           /\ UNCHANGED files

Next == \/ \E n \in AllNames : CreateSkill(n) \/ ExecuteSkill(n) \/ DeleteSkill(n)
        \/ \E s \in Slots : OpenFile(s) \/ FinishSave(s) \/ FailSave(s) \/ FinishDelete(s)
        \/ Restart

Spec == Init /\ [][Next]_vars
-----------------------------------------------------------------------------
\* A file that no operation has in hand, and that is not suspect, is the file of the
\* skill it names, or of the one that its name is read as, unless its skill was
\* deleted and the unlink failed; and a skill in memory has such a file. So a
\* restart brings back the skills there were, some under the name that is read, and
\* of the deleted ones only those whose unlink failed.
SkillsMatchFiles ==
    \A f \in Files : On(f) = {} /\ f \notin suspect =>
        /\ files[f] # None =>
              f \in undeleted \/ f \in {skills[files[f]], skills[Given(f)]}
        /\ \A n \in AllNames : skills[n] = f => n \in {files[f], Given(f)}

\* Types of the state.
TypeOK == /\ skills \in [AllNames -> Files \cup {None}]
          /\ files \in [Files -> AllNames \cup {None}]
          /\ ops \in [Slots -> [kind : {"none", "create", "execute", "delete"},
                               name : AllNames \cup {None}, file : Files \cup {None},
                               step : {"none", "issued", "open", "deleted"}]]
          /\ suspect \subseteq Files /\ undeleted \subseteq Files /\ crashes \in 0..MaxCrashes
=============================================================================
