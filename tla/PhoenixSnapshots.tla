-------------------------- MODULE PhoenixSnapshots --------------------------
(***************************************************************************)
(* The Phoenix audit store and its snapshots on disk (orchestrator/        *)
(* phoenixAudit.ts), as start.ts uses them: entries are recorded while the *)
(* workspace runs, snapshots are saved on request and on stop, and a start *)
(* restores one when the configuration says so.                            *)
(*                                                                         *)
(* A save writes a temporary file, renames it and deletes the snapshots    *)
(* over the limit. The process may die between any two of these steps, and *)
(* in the middle of the write; nothing else runs during a save.            *)
(***************************************************************************)
EXTENDS Integers, Sequences, FiniteSets

CONSTANTS MaxEntries,     \* maxEntries of a new audit store
          MaxSnapshots,
          GivenId,        \* phoenixSnapshotOnStopId and phoenixRestoreSnapshotId
          MaxTime, MaxRecords   \* bounds

VARIABLES now,
          restores,   \* the configuration: "never", "latest" or "named"
          process,    \* "up", "down", or "refused" when a start threw
          entries,    \* serial numbers of the audit entries in memory
          limit,      \* maxEntries of the store in memory
          recorded,   \* how many entries were ever recorded
          dir,        \* the files of the snapshot directory
          job,        \* the save that is under way
          kept        \* entries of the save that was renamed last

vars == <<now, restores, process, entries, limit, recorded, dir, job, kept>>

\* A time names the snapshot that stop() takes at it.
SnapshotIds == 0..MaxTime \cup {GivenId}
File == [at : 0..MaxTime, id : SnapshotIds, suffix : {"json", "tmp"},
         entries : Seq(1..MaxRecords), whole : BOOLEAN]
Idle == [step |-> "idle"]

Init == /\ now = 0 /\ recorded = 0
        /\ restores \in {"never", "latest", "named"}
        /\ process = "up" /\ entries = <<>> /\ limit = MaxEntries
        /\ dir = {} /\ job = Idle /\ kept = <<>>
-----------------------------------------------------------------------------
LastN(s, n) == SubSeq(s, Len(s) - n + 1, Len(s))

\* Mutant: the store makes room one entry too late.
CutLate(s, n) == IF Len(s) > n + 1 THEN LastN(s, n) ELSE s

\* What a store that holds n entries keeps.
Cut(s, n) == IF Len(s) > n THEN LastN(s, n) ELSE s

\* readSnapshotFiles looks at names only to leave the temporary files out.
Listed == {f \in dir : f.suffix = "json"}

Readable == \A f \in Listed : f.whole

\* The order of list() and rotate(): by time, then by id.
Newer(f, g) == f.at > g.at \/ (f.at = g.at /\ f.id > g.id)
Newest == CHOOSE f \in Listed : \A g \in Listed : ~Newer(g, f)

\* What rotate() deletes.
Excess == {f \in Listed : Cardinality({g \in Listed : Newer(g, f)}) >= MaxSnapshots}

\* restore(id) takes the first file of the directory with that id; names begin
\* with the time.
OldestNamed(id) ==
    CHOOSE f \in Listed : f.id = id /\ \A g \in Listed : g.id = id => f.at <= g.at

Replaced(f) == {g \in dir : <<g.at, g.id, g.suffix>> # <<f.at, f.id, f.suffix>>} \cup {f}
-----------------------------------------------------------------------------
\* record(), under any of the methods that build an entry.
Record == /\ process = "up" /\ job = Idle /\ recorded < MaxRecords
          /\ recorded' = recorded + 1
          /\ entries' = Cut(Append(entries, recorded + 1), limit)
          /\ UNCHANGED <<now, restores, process, limit, dir, job, kept>>

OpensFile(id, suffix) ==
    LET f == [at |-> now, id |-> id, suffix |-> suffix, entries |-> entries,
              whole |-> FALSE] IN
    /\ process = "up" /\ job = Idle
    /\ \A g \in dir : g.at = now => g.id = id   \* bound: one name a millisecond
    /\ dir' = Replaced(f)
    /\ job' = [step |-> "write", file |-> f]
    /\ UNCHANGED <<now, restores, process, entries, limit, recorded, kept>>

\* Mutant: the snapshot is written under its own name.
BeginInPlace(id) == OpensFile(id, "json")

\* save(): the temporary file is opened, and only then filled.
BeginSave(id) == OpensFile(id, "tmp")

FinishWrite == /\ job.step = "write"
               /\ LET f == [job.file EXCEPT !.whole = TRUE] IN
                  dir' = Replaced(f) /\ job' = [step |-> "rename", file |-> f]
               /\ UNCHANGED <<now, restores, process, entries, limit, recorded, kept>>

Rename == /\ job.step = "rename"
          /\ LET f == [job.file EXCEPT !.suffix = "json"] IN
             dir' = {g \in Replaced(f) : g # job.file} /\ kept' = f.entries
          /\ job' = [step |-> "rotate"]
          /\ UNCHANGED <<now, restores, process, entries, limit, recorded>>

\* rotate() deletes one file after the other.
Rotate == /\ job.step = "rotate"
          /\ IF Excess = {} THEN job' = Idle /\ UNCHANGED dir
             ELSE \E f \in Excess : dir' = dir \ {f} /\ UNCHANGED job
          /\ UNCHANGED <<now, restores, process, entries, limit, recorded, kept>>

\* The process ends, or dies: the audit store is in memory only.
Dies == /\ process = "up"
        /\ process' = "down" /\ entries' = <<>> /\ job' = Idle
        /\ UNCHANGED <<now, restores, limit, recorded, dir, kept>>

Holds(s, n) == /\ process' = "up" /\ entries' = s /\ limit' = n
               /\ UNCHANGED <<now, restores, recorded, dir, job, kept>>

\* fromReplaySnapshot makes a store that holds no more than the snapshot did.
Restored(f) == Holds(f.entries, IF f.entries = <<>> THEN 1 ELSE Len(f.entries))

StartFails == /\ process' = "refused"
              /\ UNCHANGED <<now, restores, entries, limit, recorded, dir, job, kept>>

\* initialize(): reading the directory throws when a listed file does not parse,
\* and restore(id) when no file has the id.
Start == /\ process # "up"
         /\ CASE restores = "never" -> Holds(<<>>, MaxEntries)
              [] restores # "never" /\ ~Readable -> StartFails
              [] restores = "latest" /\ Readable ->
                     IF Listed = {} THEN Holds(<<>>, MaxEntries)
                     ELSE Restored(OldestNamed(Newest.id))
              [] restores = "named" /\ Readable ->
                     IF \E f \in Listed : f.id = GivenId
                     THEN Restored(OldestNamed(GivenId)) ELSE StartFails

Tick == /\ now < MaxTime /\ job = Idle
        /\ now' = now + 1
        /\ UNCHANGED <<restores, process, entries, limit, recorded, dir, job, kept>>

Next == \/ Record \/ FinishWrite \/ Rename \/ Rotate \/ Dies \/ Start \/ Tick
        \/ \E id \in {GivenId, now} : BeginSave(id)

Spec == Init /\ [][Next]_vars
-----------------------------------------------------------------------------
\* docs/PHOENIX_RUNTIME.md: phoenixRestoreLatestSnapshot restores the newest
\* available snapshot. However a process died, in the middle of a save, of its
\* rename or of the rotation, the next start with that setting succeeds and
\* has exactly the entries of the last snapshot that was given its name, as
\* long as no two snapshots on disk have one id.
StartHasLastSave ==
    process # "up" /\ restores = "latest" /\ Start
    => /\ process' = "up"
       /\ (\A f, g \in Listed : f.id = g.id => f = g) => entries' = kept

\* Types of the state.
TypeOK == /\ now \in 0..MaxTime /\ recorded \in 0..MaxRecords
          /\ process \in {"up", "down", "refused"}
          /\ entries \in Seq(1..MaxRecords) /\ Len(entries) <= limit
          /\ kept \in Seq(1..MaxRecords)
          /\ limit \in 1..MaxEntries
          /\ dir \subseteq File
          /\ job.step \in {"idle", "write", "rename", "rotate"}
=============================================================================
