----------------------------- MODULE MemoryStore -----------------------------
(***************************************************************************)
(* Long-term memory: the SQLite store with its text index and its vector   *)
(* index (memory/fts5Memory.ts) under the LRU cache of MemoryManager       *)
(* (memory/memoryManager.ts).                                              *)
(*                                                                         *)
(* Inserting is a transaction; deleting is one statement after another, so *)
(* a crash, or a statement that throws, may cut it short. What goes wrong  *)
(* in the vector index is ignored: the row comes or goes without it.       *)
(* SQLite gives a new row the number after the greatest in use, so the     *)
(* numbers of deleted rows come back, and the indexes know their rows by   *)
(* number. Vector search is a setting of the process and may differ from   *)
(* one start to the next.                                                  *)
(***************************************************************************)
EXTENDS Integers, Sequences, FiniteSets, Functions, Lists

CONSTANTS Memories,
          None,
          Capacity,     \* cacheCapacity
          MaxRows       \* bound on row numbers

VARIABLES rows,         \* table memories: which memory each row number holds
          texts,        \* memories_fts: of which memory the text indexed is
          vectors,      \* memories_vec: of which memory the vector indexed is
          vectorSearch, \* enableVectorSearch of this process
          cache,        \* keys of the LRU cache, the oldest first
          arriving,     \* stored, but not yet cached by addMemory
          used,         \* memories ever added (history)
          deleted,      \* deleted by deleteMemory once they were cached (history)
          stale         \* numbers of rows deleted without their vector (history)

vars == <<rows, texts, vectors, vectorSearch, cache, arriving, used,
          deleted, stale>>
tables == <<rows, texts, vectors, stale>>

Numbers == 1..MaxRows
Held(table) == {n \in Numbers : table[n] # None}
Stored == {rows[n] : n \in Held(rows)}
NumberOf(m) == CHOOSE n \in Numbers : rows[n] = m
NextNumber == IF Held(rows) = {} THEN 1
              ELSE 1 + CHOOSE n \in Held(rows) : \A k \in Held(rows) : k <= n

Init == /\ rows = [n \in Numbers |-> None]
        /\ texts = [n \in Numbers |-> None]
        /\ vectors = [n \in Numbers |-> None]
        /\ vectorSearch \in BOOLEAN
        /\ cache = <<>> /\ arriving = {} /\ used = {} /\ deleted = {}
        /\ stale = {}
-----------------------------------------------------------------------------
CachedBut(ms) == Picked(cache, {i \in DOMAIN cache : cache[i] \notin ms})

\* The cache after m was used: m becomes the newest; when it is full and m is
\* new, the oldest goes.
Touched(m) ==
    IF m \in Range(cache) THEN Append(CachedBut({m}), m)
    ELSE Append(IF Len(cache) >= Capacity THEN Tail(cache) ELSE cache, m)

\* addMemory of the store: a row, its text and its vector in one transaction.
\* The vector is left out when the vector index refuses it, as it does when the
\* number is taken there.
Insert(m) ==
    /\ m \notin used /\ NextNumber \in Numbers
    /\ rows' = [rows EXCEPT ![NextNumber] = m]
    /\ texts' = [texts EXCEPT ![NextNumber] = m]
    /\ \/ vectors' = vectors
       \/ /\ vectorSearch /\ vectors[NextNumber] = None
          /\ vectors' = [vectors EXCEPT ![NextNumber] = m]
    /\ used' = used \cup {m} /\ arriving' = arriving \cup {m}
    /\ UNCHANGED <<cache, deleted, stale, vectorSearch>>

\* addMemory of the manager goes on after its await.
Arrive(m) == /\ m \in arriving /\ arriving' = arriving \ {m}
             /\ cache' = Touched(m)
             /\ UNCHANGED <<tables, used, deleted, vectorSearch>>

\* getMemory: from the cache, or from the store and into the cache.
Get(m) == /\ m \in Range(cache) \/ m \in Stored
          /\ cache' = Touched(m)
          /\ UNCHANGED <<tables, arriving, used, deleted, vectorSearch>>

\* getRecentMemories fills the cache from the store; cleanupExpired and close
\* drop what was not used for cacheTtlMs.
Expire(ms) == /\ ms # {} /\ cache' = CachedBut(ms)
              /\ UNCHANGED <<tables, arriving, used, deleted, vectorSearch>>

Cleared(table, ns) == [n \in Numbers |-> IF n \in ns THEN None ELSE table[n]]

\* The statements that delete rows, as far as they get: the texts ts, those of the
\* vectors that can be deleted, if this process has vector search, and the rows ns.
Statements(ts, ns) ==
    \E vs \in SUBSET ts :
        /\ vectorSearch \/ vs = {}
        /\ texts' = Cleared(texts, ts) /\ vectors' = Cleared(vectors, vs)
        /\ rows' = Cleared(rows, ns) /\ stale' = (stale \cup ns) \ vs

\* Mutant: the cache keeps what is deleted.
KeptCached(m) == cache

Uncached(m) == CachedBut({m})

\* deleteMemory: the cache first, then the store.
Delete(m) ==
    /\ m \in Stored
    /\ cache' = Uncached(m)
    /\ LET n == NumberOf(m) IN Statements({n}, {n})
    /\ deleted' = IF m \in arriving THEN deleted ELSE deleted \cup {m}
    /\ UNCHANGED <<arriving, used, vectorSearch>>

\* cleanup deletes the rows older than it keeps from the store; the cache keeps
\* them. Any rows may be the old ones: createdAt is set before the embedding is
\* awaited, so rows do not follow it.
Cleanup(ns) == /\ ns # {}
               /\ Statements(ns, ns)
               /\ UNCHANGED <<cache, arriving, used, deleted, vectorSearch>>

\* A statement throws, or the process dies, before the rows are deleted; cleanup
\* goes through the index entries row by row, and what was committed stays.
CutShort(target) == \E ts \in SUBSET target : Statements(ts, {})

DeleteThrows(m) == /\ m \in Stored
                   /\ cache' = Uncached(m) /\ CutShort({NumberOf(m)})
                   /\ UNCHANGED <<arriving, used, deleted, vectorSearch>>

CleanupThrows == /\ CutShort(Held(rows))
                 /\ UNCHANGED <<cache, arriving, used, deleted, vectorSearch>>

\* The process starts again, with or without vector search. Where it died in a
\* deletion, the tables are as a deletion that throws leaves them.
Restart == /\ vectorSearch' \in BOOLEAN
           /\ cache' = <<>> /\ arriving' = {}
           /\ UNCHANGED <<tables, used, deleted>>

Next == \/ \E m \in Memories : \/ Insert(m) \/ Arrive(m) \/ Get(m)
                               \/ Delete(m) \/ DeleteThrows(m)
        \/ \E ms \in SUBSET Range(cache) : Expire(ms)
        \/ \E ns \in SUBSET Held(rows) : Cleanup(ns)
        \/ CleanupThrows \/ Restart

Spec == Init /\ [][Next]_vars
-----------------------------------------------------------------------------
\* However deletions are cut short and row numbers come back: a text entry is of
\* the memory its row holds, so a text search never answers with another memory;
\* a vector entry is of another memory only where a row was deleted without its
\* vector, because that failed or vector search was off, and no later deletion of
\* that number took the vector with it; and a memory that was deleted once it was
\* cached is never served again.
IndexesFollowRows ==
    /\ \A n \in Numbers : texts[n] # None => texts[n] = rows[n]
    /\ \A n \in Numbers \ stale : vectors[n] # None => vectors[n] = rows[n]
    /\ \A m \in deleted : m \notin Range(cache)

\* Types of the state.
TypeOK == /\ rows \in [Numbers -> Memories \cup {None}]
          /\ texts \in [Numbers -> Memories \cup {None}]
          /\ vectors \in [Numbers -> Memories \cup {None}]
          /\ vectorSearch \in BOOLEAN /\ stale \subseteq Numbers
          /\ cache \in Seq(Memories) /\ Len(cache) <= Capacity
          /\ arriving \subseteq Memories
          /\ used \subseteq Memories /\ deleted \subseteq used
=============================================================================
