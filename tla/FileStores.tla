----------------------------- MODULE FileStores -----------------------------
(***************************************************************************)
(* The stores that keep a list in memory and write all of it to one JSON   *)
(* file after every change: the permission audit (permissions              *)
(* /permissionAudit.ts), the four layers of memory (memory                 *)
(* /layeredMemory.ts), checkpoints and tool transactions (agent            *)
(* /taorReliability.ts), skill executions, drafts and patch proposals      *)
(* (skills/skillLifecycle.ts), and the snapshot of a session (memory       *)
(* /sessionStore.ts). Init chooses the store.                              *)
(*                                                                         *)
(* A change is made at once and the write that follows runs beside later   *)
(* changes. fs.writeFile empties the file and then fills it, so a crash    *)
(* may leave a part, and two writes that overlap may leave a mix. A write  *)
(* may fail, before it emptied the file or after: SkillForge and           *)
(* SkillPatchManager ignore that, the others throw, and all of them keep   *)
(* the change in memory. A file that does not parse is read as an empty    *)
(* one; the loop, which reads the snapshot, catches the error that such a  *)
(* one throws, and goes on without it.                                     *)
(***************************************************************************)
EXTENDS Integers, Sequences, FiniteSets, Lists

CONSTANTS Groups,       \* sessions, preference keys, skills
          Limit,        \* maxEntries, or what a store keeps of each group
          MaxChanges, MaxClock, MaxWrites, MaxCrashes   \* bounds

VARIABLES store,
          items,      \* in memory
          disk,       \* the file: what it should say, and whether it parses
          writes,     \* the writes under way
          clock, changes, crashes,
          intact,     \* the last change was written with no other write under way, and
                      \* its write has not failed (history)
          unsaved,    \* memory changed since, and that is not written (history)
          dropped     \* items dropped because of the limit (history)

vars == <<store, items, disk, writes, clock, changes, crashes, intact, unsaved, dropped>>

\* The stores that keep Limit items in all, and those that keep Limit of a group.
KeepsLast == {"audit", "transactions", "episodic"}
KeepsOfGroup == {"session", "checkpoints", "executions"}
\* Those that cut the front of the list off as it is.
Unsorted == {"audit", "transactions", "executions"}
Stores == KeepsLast \cup KeepsOfGroup
          \cup {"profile", "knowledge", "drafts", "proposals", "snapshot"}

Statuses == {"new", "changed", "decided"}
\* order is the turn of a session's summary, and otherwise the time.
Item == [group : Groups, order : 0..MaxClock, status : Statuses]
WriteSlots == 1..MaxWrites
NoWrite == [step |-> "none", items |-> <<>>, mixed |-> FALSE]

Init == /\ store \in Stores
        /\ items = <<>> /\ disk = [items |-> <<>>, parses |-> TRUE]
        /\ writes = [w \in WriteSlots |-> NoWrite]
        /\ clock = 0 /\ changes = 0 /\ crashes = 0
        /\ intact = TRUE /\ unsaved = FALSE /\ dropped = {}
-----------------------------------------------------------------------------
Quiet == \A w \in WriteSlots : writes[w].step = "none"

\* persist(): what is written is the list as it is now.
Persist(s) ==
    \E w \in WriteSlots :
        /\ writes[w].step = "none" /\ \A v \in 1..(w - 1) : writes[v].step # "none"
        /\ writes' = [writes EXCEPT ![w] = [step |-> "queued", items |-> s, mixed |-> FALSE]]
        /\ intact' = Quiet /\ unsaved' = FALSE

Become(s) == /\ items' = s
             /\ Persist(s)
             /\ UNCHANGED <<store, disk, clock, crashes>>

New(g, order) == [group |-> g, order |-> order, status |-> "new"]

Counts == changes < MaxChanges /\ changes' = changes + 1

Full(s, scope) == Cardinality(scope) > Limit

\* What goes: the first of the list, or, where it is sorted first, of the lowest. One
\* addition makes one item too many at most.
First(s, scope) ==
    CHOOSE i \in scope : \A j \in scope :
        IF store \in Unsorted \/ s[i].order = s[j].order THEN i <= j
        ELSE s[i].order < s[j].order

Trim(s, scope) ==
    IF Full(s, scope)
    THEN /\ Become(Without(s, First(s, scope)))
         /\ dropped' = dropped \cup {s[First(s, scope)]}
    ELSE Become(s) /\ UNCHANGED dropped

TrimLast(s) == Trim(s, DOMAIN s)
TrimGroup(s, g) == Trim(s, {i \in DOMAIN s : s[i].group = g})

\* PermissionAuditStore.record, ToolTransactionLog.record, EpisodicMemory.addEntry.
RecordAudit(g) == store = "audit" /\ Counts /\ TrimLast(Append(items, New(g, clock)))
RecordTransaction(g) ==
    store = "transactions" /\ Counts /\ TrimLast(Append(items, New(g, clock)))
AddEpisode(g) == store = "episodic" /\ Counts /\ TrimLast(Append(items, New(g, clock)))

\* SkillEvaluator.recordExecution keeps a list for each skill.
RecordExecution(g) ==
    store = "executions" /\ Counts /\ TrimGroup(Append(items, New(g, clock)), g)

\* SessionMemory.addSummary: turns are numbered by the caller, and what goes is
\* the lowest turn, which may be the new one.
AddSummary(g, turn) ==
    store = "session" /\ Counts /\ TrimGroup(Append(items, New(g, turn)), g)

\* CheckpointManager.createCheckpoint: the id is the session and the time.
CreateCheckpoint(g) ==
    LET same == {i \in DOMAIN items : items[i].group = g /\ items[i].order = clock} IN
    /\ store = "checkpoints" /\ Counts
    /\ TrimGroup(IF same = {} THEN Append(items, New(g, clock))
                 ELSE [i \in DOMAIN items |-> IF i \in same THEN New(g, clock) ELSE items[i]], g)

\* ProfileMemory.setPreference: a lower confidence changes nothing.
SetPreference(g) ==
    LET known == {i \in DOMAIN items : items[i].group = g} IN
    /\ store = "profile" /\ Counts
    /\ \/ known = {} /\ Become(Append(items, New(g, clock)))
       \/ \E i \in known : Become([items EXCEPT ![i].status = "changed"])
    /\ UNCHANGED dropped

\* decayLowReferences, on maintenance: nothing is written.
DecayLowReferences ==
    \E i \in DOMAIN items :
        /\ store = "profile" /\ items[i].status = "new"
        /\ items' = [items EXCEPT ![i].status = "decided"] /\ unsaved' = TRUE
        /\ UNCHANGED <<store, disk, writes, clock, changes, crashes, intact, dropped>>

AddKnowledge(g) == /\ store = "knowledge" /\ Counts
                   /\ Become(Append(items, New(g, clock))) /\ UNCHANGED dropped

\* forgeSkill and createProposal do not wait for the write.
ForgeSkill(g) == /\ store = "drafts" /\ Counts
                 /\ Become(Append(items, New(g, clock))) /\ UNCHANGED dropped
CreateProposal(g) == /\ store = "proposals" /\ Counts
                     /\ Become(Append(items, New(g, clock))) /\ UNCHANGED dropped

\* SessionStore.saveSnapshot: the file of one session.
SaveSnapshot(g) == /\ store = "snapshot" /\ Counts
                   /\ Become(<<New(g, clock)>>) /\ UNCHANGED dropped
-----------------------------------------------------------------------------
Sets(i, status) == /\ Become([items EXCEPT ![i].status = status])
                   /\ Counts /\ UNCHANGED dropped

\* markCompleted and markInterrupted.
MarkCheckpoint(i) ==
    store = "checkpoints" /\ \E s \in {"changed", "decided"} : Sets(i, s)

\* updateExecutionResult and updateApprovalInfo, of an entry that is still there.
UpdateAudit(i) == store = "audit" /\ Sets(i, "changed")

UpdateKnowledge(i) == store = "knowledge" /\ Sets(i, "changed")

\* A draft or a proposal is decided again as often as somebody asks.
ApproveDraft(i) == store = "drafts" /\ Sets(i, "changed")
RejectDraft(i) == store = "drafts" /\ Sets(i, "decided")
ApplyProposal(i) == store = "proposals" /\ Sets(i, "changed")
RejectProposal(i) == store = "proposals" /\ Sets(i, "decided")

\* remove() of a preference or of knowledge.
RemoveItem(i) == /\ store \in {"profile", "knowledge"}
                 /\ Become(Without(items, i))
                 /\ Counts /\ UNCHANGED dropped

\* clearSession and cleanupSession write even when nothing was removed.
WithoutGroup(g) == /\ Become(Picked(items, {i \in DOMAIN items : items[i].group # g}))
                   /\ dropped' = {x \in dropped : x.group # g}
                   /\ Counts
ClearSession(g) == store = "session" /\ WithoutGroup(g)
CleanupSession(g) == store = "checkpoints" /\ WithoutGroup(g)

\* cleanup() of the audit: what is too old goes.
CleanupAudit(oldest) ==
    /\ store = "audit"
    /\ \E i \in DOMAIN items : items[i].order <= oldest
    /\ Become(Picked(items, {i \in DOMAIN items : items[i].order > oldest}))
    /\ Counts /\ UNCHANGED dropped
-----------------------------------------------------------------------------
Overlaps(w) == {v \in WriteSlots \ {w} : writes[v].step = "open"}

\* The file is emptied,
Open(w) ==
    /\ writes[w].step = "queued"
    /\ writes' = [v \in WriteSlots |->
                     IF v = w THEN [writes[w] EXCEPT !.step = "open", !.mixed = Overlaps(w) # {}]
                     ELSE IF v \in Overlaps(w) THEN [writes[v] EXCEPT !.mixed = TRUE]
                     ELSE writes[v]]
    /\ disk' = [items |-> writes[w].items, parses |-> FALSE]
    /\ UNCHANGED <<store, items, clock, changes, crashes, intact, unsaved, dropped>>

\* and filled. Writes that overlapped leave what either wrote, or a mix.
Finish(w) ==
    /\ writes[w].step = "open"
    /\ \/ disk' = [items |-> writes[w].items, parses |-> TRUE]
       \/ /\ writes[w].mixed
          /\ \E parses \in BOOLEAN : disk' = [disk EXCEPT !.parses = parses]
    /\ writes' = [writes EXCEPT ![w] = NoWrite]
    /\ UNCHANGED <<store, items, clock, changes, crashes, intact, unsaved, dropped>>

\* Or the write fails: before the file was touched, or with a part of it written.
Fail(w) ==
    /\ writes[w].step # "none"
    /\ \/ disk' = disk
       \/ /\ writes[w].step = "open" /\ writes[w].mixed
          /\ \E parses \in BOOLEAN : disk' = [disk EXCEPT !.parses = parses]
    /\ writes' = [writes EXCEPT ![w] = NoWrite]
    /\ intact' = FALSE
    /\ UNCHANGED <<store, items, clock, changes, crashes, unsaved, dropped>>

\* initialize() of the next process: loadFromDisk.
Crash == /\ crashes < MaxCrashes /\ crashes' = crashes + 1
         /\ items' = IF disk.parses THEN disk.items ELSE <<>>
         /\ writes' = [w \in WriteSlots |-> NoWrite]
         /\ intact' = disk.parses /\ unsaved' = FALSE /\ dropped' = {}
         /\ UNCHANGED <<store, disk, clock, changes>>

\* The other stores never look at the time.
Tick == /\ store \in KeepsLast \cup {"checkpoints", "executions"}
        /\ clock < MaxClock /\ clock' = clock + 1
        /\ UNCHANGED <<store, items, disk, writes, changes, crashes, intact, unsaved, dropped>>

Adds(g) == \/ RecordAudit(g) \/ RecordTransaction(g) \/ AddEpisode(g) \/ RecordExecution(g)
           \/ \E turn \in 0..MaxClock : AddSummary(g, turn)
           \/ CreateCheckpoint(g) \/ SetPreference(g) \/ AddKnowledge(g)
           \/ ForgeSkill(g) \/ CreateProposal(g) \/ SaveSnapshot(g)

Changes(i) == \/ MarkCheckpoint(i) \/ UpdateAudit(i) \/ UpdateKnowledge(i) \/ ApproveDraft(i)
              \/ RejectDraft(i) \/ ApplyProposal(i) \/ RejectProposal(i) \/ RemoveItem(i)

Next == \/ \E g \in Groups : Adds(g) \/ ClearSession(g) \/ CleanupSession(g)
        \/ \E i \in DOMAIN items : Changes(i)
        \/ \E oldest \in 0..MaxClock : CleanupAudit(oldest)
        \/ \E w \in WriteSlots : Open(w) \/ Finish(w) \/ Fail(w)
        \/ DecayLowReferences \/ Crash \/ Tick

Spec == Init /\ [][Next]_vars
-----------------------------------------------------------------------------
\* Once all writes have ended, and the last change was written by a write that had
\* the file to itself and did not fail, the file is what is in memory, up to decayed
\* confidences: such a change makes good what earlier writes that failed or
\* overlapped had spoilt, and a restart then loses nothing. And what a limit made a
\* store drop is never newer than what it kept (of its session, of its skill, or of
\* all), also where the code cuts the list off without looking at the time.
StoresSettle ==
    /\ Quiet /\ intact /\ ~unsaved => disk = [items |-> items, parses |-> TRUE]
    /\ \A d \in dropped, i \in DOMAIN items :
           store \in KeepsLast \/ items[i].group = d.group => d.order <= items[i].order

\* Types of the state.
TypeOK == /\ store \in Stores
          /\ items \in Seq(Item) /\ Len(items) <= MaxChanges
          /\ disk \in [items : Seq(Item), parses : BOOLEAN]
          /\ writes \in [WriteSlots -> [step : {"none", "queued", "open"}, items : Seq(Item),
                                  mixed : BOOLEAN]]
          /\ clock \in 0..MaxClock /\ changes \in 0..MaxChanges /\ crashes \in 0..MaxCrashes
          /\ intact \in BOOLEAN /\ unsaved \in BOOLEAN /\ dropped \subseteq Item
=============================================================================
