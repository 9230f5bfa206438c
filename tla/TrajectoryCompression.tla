----------------------- MODULE TrajectoryCompression -----------------------
(***************************************************************************)
(* TrajectoryCompressor (memory/trajectoryCompression.ts): a conversation  *)
(* that is compressed again and again while it goes on. The first and last *)
(* turns stay, what is between them is folded, segment by segment, into    *)
(* one message each; a later compression folds those messages again.       *)
(*                                                                         *)
(* A message is the interval of the messages of the conversation it stands *)
(* for; user and assistant take turns. The text of a summary is left out.  *)
(***************************************************************************)
EXTENDS Integers, Sequences, FiniteSetsExt

CONSTANTS Turns,      \* the values of headTurns, tailTurns and segmentSize
          MaxSaid     \* bound on the messages of the conversation

VARIABLES config,     \* headTurns, tailTurns, segmentSize
          said,       \* messages said so far
          messages    \* the conversation as it is kept

vars == <<config, said, messages>>

Message(n) == [from |-> n, to |-> n, verbatim |-> TRUE]
IsUser(m) == m.verbatim /\ m.from % 2 = 1
IsAssistant(m) == m.verbatim /\ m.from % 2 = 0

Init == /\ config \in [head : Turns, tail : Turns, segment : Turns \ {0}]
        /\ said = 0 /\ messages = <<>>
-----------------------------------------------------------------------------
\* Array.slice: a negative index counts from the end, and minus zero is zero.
Index(k, len) == IF k < 0 THEN Max({len + k, 0}) ELSE Min({k, len})
Slice(ms, first, last) ==
    SubSeq(ms, Index(first, Len(ms)) + 1, Index(last, Len(ms)))

\* One compressed message for a segment.
Folded(segment) == [from |-> segment[1].from, to |-> segment[Len(segment)].to,
                    verbatim |-> FALSE]

\* The middle, segmentSize turns at a time; the last segment may be shorter.
Compressed(middle) ==
    LET width == 2 * config.segment
    IN [i \in 1..((Len(middle) + width - 1) \div width) |->
           Folded(Slice(middle, (i - 1) * width, i * width))]

Middle(ms) == Slice(ms, 2 * config.head, -(2 * config.tail))

\* compress: a short conversation, and one that is all head and tail, is returned
\* as it is. With tailTurns = 0 the middle is empty, for its end is index 0.
Compress(ms) ==
    IF Len(ms) <= 4 \/ Middle(ms) = <<>> THEN ms
    ELSE Slice(ms, 0, 2 * config.head) \o Compressed(Middle(ms))
         \o Slice(ms, -(2 * config.tail), Len(ms))

CompressNow == /\ messages' = Compress(messages)
               /\ UNCHANGED <<config, said>>

\* The conversation goes on.
Say == /\ said < MaxSaid /\ said' = said + 1
       /\ messages' = Append(messages, Message(said'))
       /\ UNCHANGED config

Next == Say \/ CompressNow

Spec == Init /\ [][Next]_vars
-----------------------------------------------------------------------------
\* extractKeyInfo: the first request of the user, the last response.
InitialRequest(ms) == LET asked == {i \in DOMAIN ms : IsUser(ms[i])}
                      IN IF asked = {} THEN 0 ELSE ms[Min(asked)].from
LastResponse(ms) == LET answered == {i \in DOMAIN ms : IsAssistant(ms[i])}
                    IN IF answered = {} THEN 0 ELSE ms[Max(answered)].from

\* However often the conversation is compressed, and whatever the head, the tail
\* and the segments: its messages stand for all that was said, in order, each part
\* once; the first request and the last response, which extractKeyInfo recovers,
\* are there word for word unless no head is kept.
WholeStoryIsKept ==
    /\ \A i \in DOMAIN messages :
          /\ messages[i].from <= messages[i].to
          /\ messages[i].from = (IF i = 1 THEN 1 ELSE messages[i - 1].to + 1)
    /\ said > 0 => messages # <<>> /\ messages[Len(messages)].to = said
    /\ said > 0 /\ config.head > 0 => InitialRequest(messages) = 1
    /\ said > 1 => LastResponse(messages) = said - (said % 2)

\* Types of the state.
TypeOK == /\ config \in [head : Turns, tail : Turns, segment : Turns]
          /\ said \in 0..MaxSaid
          /\ messages \in Seq([from : 1..MaxSaid, to : 1..MaxSaid,
                               verbatim : BOOLEAN])
=============================================================================
