---------------------------- MODULE ProviderStreams ----------------------------
(***************************************************************************)
(* One streamed answer of a model and the tool calls that a provider puts  *)
(* together from it: ClaudeProvider.streamChat (llm/claudeProvider.ts) and *)
(* OpenAICompatProvider.streamChat with its ToolCallAccumulator            *)
(* (llm/openaiCompatProvider.ts). The arguments of a call arrive in pieces *)
(* and the pieces of several calls may alternate.                          *)
(*                                                                         *)
(* The API decides what it sends: it may cut a call short when the answer  *)
(* reaches its limit of tokens, and may fail at any time. An OpenAI API    *)
(* names the type of a call in its first delta and need not repeat it.     *)
(*                                                                         *)
(* A piece is its position in the arguments; the JSON parses when every    *)
(* piece is there, in order. Text is left out.                             *)
(***************************************************************************)
EXTENDS Integers, Sequences, Lists

CONSTANTS Blocks,    \* indices of the tool calls in the answer
          Pieces     \* how many pieces the arguments of a call have

VARIABLES provider,  \* "claude" or "openai"
          sent,      \* what the API sent of each call, [step, pieces, untyped]
          pending,   \* the calls being put together, in the order first seen
          given,     \* the calls yielded, in order
          outcome    \* "streaming", "done", "error_done" or "thrown"

vars == <<provider, sent, pending, given, outcome>>

Steps == {"unsent", "started", "stopped"}
Unsent == [step |-> "unsent", pieces |-> 0, untyped |-> FALSE]
Inputs == {"parsed", "empty", "raw"}

Init == /\ provider \in {"claude", "openai"}
        /\ sent = [b \in Blocks |-> Unsent]
        /\ pending = <<>>
        /\ given = <<>> /\ outcome = "streaming"
-----------------------------------------------------------------------------
Streams(kind) == provider = kind /\ outcome = "streaming"
Whole == [i \in 1..Pieces |-> i]

\* What JSON.parse makes of the pieces that were kept. Claude takes an empty
\* input for one that does not parse, OpenAI hands over the text.
Input(kept) == CASE kept = Whole -> "parsed"
                 [] kept # Whole /\ (kept = <<>> \/ provider = "claude") -> "empty"
                 [] OTHER -> "raw"

Call(p) == [block |-> p.block, input |-> Input(p.pieces)]

\* The pending calls after one more piece for call b.
Kept(b, piece) ==
    [i \in DOMAIN pending |->
        IF pending[i].block = b THEN [pending[i] EXCEPT !.pieces = Append(@, piece)]
                                ELSE pending[i]]
-----------------------------------------------------------------------------
\* Claude: content_block_start of a tool_use block.
BlockStart(b) ==
    /\ Streams("claude") /\ sent[b].step = "unsent"
    /\ sent' = [sent EXCEPT ![b].step = "started"]
    /\ pending' = Append(pending, [block |-> b, pieces |-> <<>>])
    /\ UNCHANGED <<provider, given, outcome>>

\* Mutant: a piece goes to the call that was started last.
KeptByLatest(b) == Kept(pending[Len(pending)].block, sent[b].pieces + 1)

\* Claude: a piece goes to the call of its index.
KeptByIndex(b) == Kept(b, sent[b].pieces + 1)

\* Claude: input_json_delta.
JsonDelta(b) ==
    /\ Streams("claude") /\ sent[b].step = "started" /\ sent[b].pieces < Pieces
    /\ sent' = [sent EXCEPT ![b].pieces = @ + 1]
    /\ pending' = KeptByIndex(b)
    /\ UNCHANGED <<provider, given, outcome>>

\* Claude: content_block_stop yields the call, and the index is forgotten.
BlockStop(b) ==
    /\ Streams("claude") /\ sent[b].step = "started"
    /\ sent' = [sent EXCEPT ![b].step = "stopped"]
    /\ \E i \in DOMAIN pending : /\ pending[i].block = b
                                /\ given' = Append(given, Call(pending[i]))
    /\ pending' = Picked(pending, {i \in DOMAIN pending : pending[i].block # b})
    /\ UNCHANGED <<provider, outcome>>

\* OpenAI: ingest() of the delta with id, name and type, which may bring the
\* first piece.
FirstDelta(b, brings) ==
    /\ Streams("openai") /\ sent[b].step = "unsent" /\ brings <= Pieces
    /\ sent' = [sent EXCEPT ![b].step = "started", ![b].pieces = brings]
    /\ pending' = Append(pending, [block |-> b, pieces |-> [i \in 1..brings |-> i]])
    /\ UNCHANGED <<provider, given, outcome>>

\* OpenAI: ingest() of a later delta. It keeps the piece only when the delta
\* says again that the call is of a function.
LaterDelta(b, typed) ==
    /\ Streams("openai") /\ sent[b].step = "started" /\ sent[b].pieces < Pieces
    /\ sent' = [sent EXCEPT ![b].pieces = @ + 1, ![b].untyped = @ \/ ~typed]
    /\ pending' = IF typed THEN Kept(b, sent[b].pieces + 1) ELSE pending
    /\ UNCHANGED <<provider, given, outcome>>

\* OpenAI: finalize() yields the calls in the order they were first seen.
Finalize == /\ Streams("openai") /\ outcome' = "done"
            /\ given' = [i \in DOMAIN pending |-> Call(pending[i])]
            /\ UNCHANGED <<provider, sent, pending>>

\* Claude: the stream ends, and the done chunk is yielded.
MessageStop ==
    /\ Streams("claude") /\ \A b \in Blocks : sent[b].step # "started"
    /\ outcome' = "done"
    /\ UNCHANGED <<provider, sent, pending, given>>

\* The API fails: Claude throws, OpenAI ends the answer with the message.
Break == /\ outcome = "streaming"
         /\ outcome' = IF provider = "claude" THEN "thrown" ELSE "error_done"
         /\ UNCHANGED <<provider, sent, pending, given>>

Next == \/ \E b \in Blocks : BlockStart(b) \/ JsonDelta(b) \/ BlockStop(b)
        \/ \E b \in Blocks, n \in 0..1 : FirstDelta(b, n)
        \/ \E b \in Blocks, typed \in BOOLEAN : LaterDelta(b, typed)
        \/ Finalize \/ MessageStop \/ Break

Spec == Init /\ [][Next]_vars
-----------------------------------------------------------------------------
Complete(b) == sent[b].pieces = Pieces /\ ~sent[b].untyped

\* ToolCallAccumulator and the pending blocks of ClaudeProvider: whatever the
\* order in which the pieces of several calls arrive, a call that is handed
\* over was announced by the API, is handed over once, and its arguments are
\* the ones the API sent for it whenever it sent them all, with the type in
\* each delta. An answer that ends in order hands over every call; one of
\* OpenAI that fails hands over none.
CallsAreWhole ==
    /\ \A i \in DOMAIN given :
           /\ sent[given[i].block].step # "unsent"
           /\ Complete(given[i].block) <=> given[i].input = "parsed"
           /\ \A j \in DOMAIN given : given[i].block = given[j].block => i = j
    /\ outcome = "done" =>
           \A b \in Blocks : sent[b].step = "unsent" \/ \E i \in DOMAIN given : given[i].block = b
    /\ outcome = "error_done" => given = <<>>

\* Types of the state.
TypeOK == /\ provider \in {"claude", "openai"}
          /\ sent \in [Blocks -> [step : Steps, pieces : 0..Pieces, untyped : BOOLEAN]]
          /\ pending \in Seq([block : Blocks, pieces : Seq(1..Pieces)])
          /\ given \in Seq([block : Blocks, input : Inputs])
          /\ outcome \in {"streaming", "done", "error_done", "thrown"}
=============================================================================
