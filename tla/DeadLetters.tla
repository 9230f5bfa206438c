----------------------------- MODULE DeadLetters -----------------------------
(***************************************************************************)
(* How an external channel sends (gateway/externalChannel.ts): sends with  *)
(* retries, the dead letter queue for what cannot be sent, replays of the  *)
(* queue, and its file. Sends, replays, the read of the file at start and  *)
(* the writes of it run side by side; the process may die at any moment.   *)
(*                                                                         *)
(* A send without a dead letter context, as WeChat and Feishu channels     *)
(* make them, is given up in silence.                                      *)
(***************************************************************************)
EXTENDS Integers, Sequences, FiniteSets, Functions

CONSTANTS Messages,
          MaxRetries,
          MaxEntries,    \* dlqMaxEntries
          MaxReplays, MaxWrites, MaxDeaths   \* bounds

VARIABLES sends,      \* how each message's send stands
          retries,    \* retries made for it
          queue,      \* the dead letter queue in memory
          replays,    \* for each replay the letters it still has to send
          loading,    \* the read of the file has not returned
          file,       \* the file: its letters, and whether it is whole, cut or mixed
          writes,     \* writes of the file that are under way
          deaths,
          gone,       \* where letters that left the queue for good went
          letters,    \* every dead letter of this life of the process
          raced       \* in some life the queue was used before the file was read, or
                      \* the file that was read was mixed (history)

vars == <<sends, retries, queue, replays, loading, file, writes, deaths,
          gone, letters, raced>>

Steps == {"new", "sending", "waiting", "over"}
Ends == {"replayed", "evicted", "flushed"}
Replays == 1..MaxReplays
Writes == 1..MaxWrites
NoReplay == <<FALSE, <<>> >>
NoWrite == [step |-> "none", letters |-> <<>>, mixed |-> FALSE]

Init == /\ sends = [m \in Messages |-> "new"] /\ retries = [m \in Messages |-> 0]
        /\ queue = <<>> /\ replays = [r \in Replays |-> NoReplay]
        /\ loading = TRUE /\ file = [letters |-> <<>>, state |-> "whole"]
        /\ writes = [w \in Writes |-> NoWrite] /\ deaths = 0
        /\ gone = [e \in Ends |-> {}] /\ letters = {} /\ raced = FALSE
-----------------------------------------------------------------------------
Gone(end, ms) == gone' = [gone EXCEPT ![end] = @ \cup ms]
Uses == raced' = (raced \/ loading)

\* persistDlq(): the directory first; what is written is the queue of the moment
\* in which that is done.
Persists == \E w \in Writes :
    /\ writes[w].step = "none" /\ \A v \in 1..(w - 1) : writes[v].step # "none"
    /\ writes' = [writes EXCEPT ![w] = [NoWrite EXCEPT !.step = "mkdir"]]

BeginSend(m) == /\ sends[m] = "new"
                /\ sends' = [sends EXCEPT ![m] = "sending"]
                /\ UNCHANGED <<retries, queue, replays, loading, file, writes, deaths,
                               gone, letters, raced>>

\* The promise of the send settles, and its retry count is gone with it.
Over(m) == /\ sends' = [sends EXCEPT ![m] = "over"]
           /\ retries' = [retries EXCEPT ![m] = 0]

SendSucceeds(m) == /\ sends[m] = "sending" /\ Over(m)
                   /\ UNCHANGED <<queue, replays, loading, file, writes, deaths,
                                  gone, letters, raced>>

Overflow(s) == IF Len(s) > MaxEntries THEN SubSeq(s, 1, Len(s) - MaxEntries) ELSE <<>>
Kept(s) == SubSeq(s, Len(Overflow(s)) + 1, Len(s))

\* enqueueDlq(): the oldest letters make room.
Enqueue(m) == LET all == Append(queue, m) IN
              /\ queue' = Kept(all)
              /\ Gone("evicted", Range(Overflow(all)))
              /\ letters' = letters \cup {m} /\ Uses
              /\ Persists

\* Whether the send was made with a context shows only when it is given up.
SendFails(m) ==
    /\ sends[m] = "sending"
    /\ \/ /\ retries[m] < MaxRetries
          /\ sends' = [sends EXCEPT ![m] = "waiting"]
          /\ UNCHANGED <<retries, queue, writes, gone, letters, raced>>
       \/ retries[m] >= MaxRetries /\ Over(m) /\ Enqueue(m)
       \/ /\ retries[m] >= MaxRetries /\ Over(m)
          /\ UNCHANGED <<queue, writes, gone, letters, raced>>
    /\ UNCHANGED <<replays, loading, file, deaths>>

Retry(m) == /\ sends[m] = "waiting"
            /\ sends' = [sends EXCEPT ![m] = "sending"]
            /\ retries' = [retries EXCEPT ![m] = @ + 1]
            /\ UNCHANGED <<queue, replays, loading, file, writes, deaths,
                               gone, letters, raced>>
-----------------------------------------------------------------------------
\* Mutant: the queue keeps what the replay goes through.
ReplayCopies(r) == /\ replays[r] = NoReplay
                   /\ replays' = [replays EXCEPT ![r] = <<TRUE, queue>>] /\ Uses
                   /\ UNCHANGED <<sends, retries, queue, loading, file, writes, deaths,
                                  gone, letters>>

\* replayDlq() takes the whole queue,
BeginReplay(r) == /\ replays[r] = NoReplay
                  /\ replays' = [replays EXCEPT ![r] = <<TRUE, queue>>]
                  /\ queue' = <<>> /\ Uses
                  /\ UNCHANGED <<sends, retries, loading, file, writes, deaths, gone, letters>>

\* sends one letter after the other and puts back what fails, over the limit too,
ReplayOne(r) ==
    LET todo == replays[r][2] IN
    /\ todo # <<>>
    /\ replays' = [replays EXCEPT ![r] = <<TRUE, Tail(todo)>>]
    /\ \/ Gone("replayed", {Head(todo)}) /\ UNCHANGED queue
       \/ queue' = Append(queue, Head(todo)) /\ UNCHANGED gone
    /\ UNCHANGED <<sends, retries, loading, file, writes, deaths, letters, raced>>

\* and writes the file.
EndReplay(r) == /\ replays[r] = <<TRUE, <<>> >>
                /\ replays' = [replays EXCEPT ![r] = NoReplay]
                /\ Persists
                /\ UNCHANGED <<sends, retries, queue, loading, file, deaths, gone, letters, raced>>

Flush == /\ Gone("flushed", Range(queue)) /\ queue' = <<>> /\ Uses
         /\ Persists
         /\ UNCHANGED <<sends, retries, replays, loading, file, deaths, letters>>
-----------------------------------------------------------------------------
Overlaps(w) == {v \in Writes \ {w} : writes[v].step = "write"}

MakeDirectory(w) ==
    /\ writes[w].step = "mkdir"
    /\ writes' = [v \in Writes |->
                     IF v = w THEN [step |-> "write", letters |-> queue,
                                    mixed |-> Overlaps(w) # {}]
                     ELSE IF v \in Overlaps(w) THEN [writes[v] EXCEPT !.mixed = TRUE]
                     ELSE writes[v]]
    /\ file' = [letters |-> queue, state |-> "cut"]
    /\ UNCHANGED <<sends, retries, queue, replays, loading, deaths, gone, letters, raced>>

\* Of two writes that overlap the longer may leave its end behind the other's.
FinishWrite(w) ==
    /\ writes[w].step = "write"
    /\ \/ file' = [letters |-> writes[w].letters, state |-> "whole"]
       \/ writes[w].mixed /\ file.state = "mixed" /\ UNCHANGED file
       \/ /\ writes[w].mixed /\ file.state # "mixed"
          /\ \E n \in 1..(Len(file.letters) + 1) :
                 file' = [letters |-> writes[w].letters
                                      \o SubSeq(file.letters, n, Len(file.letters)),
                          state |-> "mixed"]
    /\ writes' = [writes EXCEPT ![w] = NoWrite]
    /\ UNCHANGED <<sends, retries, queue, replays, loading, deaths, gone, letters, raced>>

\* The channel is constructed with a read that nobody waits for: what comes in
\* replaces the queue. A file that does not end with a line is not read at all.
Load == /\ loading /\ loading' = FALSE
        /\ \E n \in 0..Len(file.letters) :
              /\ file.state = "whole" => n = Len(file.letters)
              /\ queue' = SubSeq(file.letters, 1, n)
        /\ letters' = letters \cup Range(queue')
        /\ raced' = (raced \/ file.state = "mixed")
        /\ UNCHANGED <<sends, retries, replays, file, writes, deaths, gone>>

\* The process dies and comes back: only the file is left.
Restart == /\ deaths < MaxDeaths /\ deaths' = deaths + 1
           /\ sends' = [m \in Messages |-> IF sends[m] = "new" THEN "new" ELSE "over"]
           /\ retries' = [m \in Messages |-> 0]
           /\ queue' = <<>> /\ replays' = [r \in Replays |-> NoReplay]
           /\ loading' = TRUE /\ writes' = [w \in Writes |-> NoWrite]
           /\ gone' = [e \in Ends |-> {}] /\ letters' = {}
           /\ UNCHANGED <<file, raced>>

Moves ==  \/ \E m \in Messages : BeginSend(m) \/ SendSucceeds(m) \/ SendFails(m) \/ Retry(m)
          \/ \E r \in Replays : BeginReplay(r) \/ ReplayOne(r) \/ EndReplay(r)
          \/ \E w \in Writes : MakeDirectory(w) \/ FinishWrite(w)
          \/ Flush \/ Load \/ Restart

\* Bound: what follows a race is not looked at, since nothing is claimed of it.
Next == ~raced /\ Moves

Spec == Init /\ [][Next]_vars
-----------------------------------------------------------------------------
\* Where a letter is: its places in the queue and in the hands of a replay, and how
\* it left.
Places(m) ==
    {<<"queue", 0, i>> : i \in {i \in DOMAIN queue : queue[i] = m}}
    \cup (UNION {{<<"replay", r, i>> : i \in {i \in DOMAIN replays[r][2] : replays[r][2][i] = m}} :
                r \in Replays})
    \cup {<<e, 0, 0>> : e \in {e \in Ends : m \in gone[e]}}

\* enqueueDlq, replayDlq and flushDlq against each other: as long as nothing used
\* the queue before its file was read, and two writes did not garble the file,
\* every dead letter is in exactly one place: none is lost between the steps of
\* overlapping replays, and none is sent twice.
EveryLetterHasItsPlace == raced \/ \A m \in letters : Cardinality(Places(m)) = 1

\* Types of the state.
TypeOK == /\ sends \in [Messages -> Steps] /\ retries \in [Messages -> 0..MaxRetries]
          /\ queue \in Seq(Messages)
          /\ replays \in [Replays -> BOOLEAN \X Seq(Messages)]
          /\ loading \in BOOLEAN /\ raced \in BOOLEAN
          /\ file \in [letters : Seq(Messages), state : {"whole", "cut", "mixed"}]
          /\ writes \in [Writes -> [step : {"none", "mkdir", "write"},
                                   letters : Seq(Messages), mixed : BOOLEAN]]
          /\ gone \in [Ends -> SUBSET Messages] /\ letters \subseteq Messages
          /\ deaths \in 0..MaxDeaths
=============================================================================
