---------------------------- MODULE PromptMessages ----------------------------
(***************************************************************************)
(* How a conversation is handed to a model: convertMessages of             *)
(* llm/claudeProvider.ts, toOpenAIMessages of llm/openaiCompatProvider.ts, *)
(* and the messages that createMiniMaxCaller of agent/taorLoop.ts makes    *)
(* before the latter.                                                      *)
(*                                                                         *)
(* A block of a message has a type and an id, which stands for its text,   *)
(* for the call, or for the call that it is the result of. A conversation  *)
(* is any sequence of messages of the shapes that the main loop and the    *)
(* mapping rules of the OpenAI provider name. Content of one block is not  *)
(* wrapped in an array, longer content is.                                 *)
(***************************************************************************)
EXTENDS Integers, Sequences, FiniteSets, Functions, Lists

CONSTANTS MaxMessages   \* bound on the conversation

VARIABLES messages, said   \* the conversation, and how many blocks it has

vars == <<messages, said>>

Shape(role, types) == [role |-> role, types |-> types]

\* The system prompt and a summary of the window; prompts, answers and results of
\* the main loop; calls and results as the providers' own rules have them.
Shapes == {Shape("system", <<"text", "text">>), Shape("system", <<"text">>),
           Shape("user", <<"text">>), Shape("assistant", <<"text">>),
           Shape("user", <<"tool_result">>),
           Shape("assistant", <<"tool_use">>),
           Shape("assistant", <<"text", "tool_use", "tool_use">>),
           Shape("tool", <<"tool_result", "tool_result">>)}

Init == messages = <<>> /\ said = 0

Say == /\ Len(messages) < MaxMessages
       /\ \E s \in Shapes :
             /\ messages' = Append(messages,
                    [role |-> s.role,
                     blocks |-> [i \in DOMAIN s.types |->
                                    [type |-> s.types[i], id |-> said + i]]])
             /\ said' = said + Len(s.types)

Next == Say

Spec == Init /\ [][Next]_vars
-----------------------------------------------------------------------------
OfType(blocks, types) == Picked(blocks, {i \in DOMAIN blocks : blocks[i].type \in types})
IdsOf(blocks) == [i \in DOMAIN blocks |-> blocks[i].id]
IsSystem(m) == m.role = "system"
System(ms) == Picked(ms, {i \in DOMAIN ms : IsSystem(ms[i])})
NotSystem(ms) == Picked(ms, {i \in DOMAIN ms : ~IsSystem(ms[i])})

\* Claude: the system messages apart, every other message as it is, from the user
\* or from the assistant.
ClaudeSystem(ms) ==
    Joined([i \in DOMAIN ms |-> IF IsSystem(ms[i]) THEN IdsOf(OfType(ms[i].blocks, {"text"}))
                                                       ELSE <<>>])

ToClaude(ms) ==
    LET rest == NotSystem(ms)
    IN  [i \in DOMAIN rest |->
            [role |-> IF rest[i].role = "assistant" THEN "assistant" ELSE "user",
             blocks |-> rest[i].blocks]]

\* OpenAI: an API message has text, calls, and the calls that it answers.
ApiMessage(role, text, calls, answers) ==
    [role |-> role, text |-> text, calls |-> calls, answers |-> answers]

\* The text of a system message, or of one without text blocks: a string is a
\* text, an empty string is none.
Text(m) == IdsOf(Picked(m.blocks, {i \in DOMAIN m.blocks :
                   \/ m.blocks[i].type = "text"
                   \/ m.blocks[i].type = "string" /\ m.blocks[i].id # 0}))

ToApi(m) ==
    LET results == OfType(m.blocks, {"tool_result"})
        others == Picked(m.blocks, {i \in DOMAIN m.blocks : m.blocks[i].type # "tool_result"})
        calls == IdsOf(OfType(m.blocks, {"tool_use"}))
    IN  CASE m.role = "tool" \/ results # <<>> ->
               [i \in DOMAIN results |-> ApiMessage("tool", <<>>, <<>>, <<results[i].id>>)]
               \o IF others # <<>> THEN <<ApiMessage("tool", IdsOf(others), <<>>, <<>>)>>
                                   ELSE <<>>
          [] OTHER -> <<ApiMessage(m.role, Text(m),
                                   IF m.role = "assistant" THEN calls ELSE <<>>, <<>>)>>

\* The first system message goes first, and no other one goes.
ToOpenAI(ms) ==
    LET system == System(ms)
        rest == NotSystem(ms)
    IN  (IF system = <<>> THEN <<>> ELSE <<ApiMessage("system", Text(system[1]), <<>>, <<>>)>>)
        \o Joined([i \in DOMAIN rest |-> ToApi(rest[i])])

\* The MiniMax caller makes a string of each message; an array is none of the
\* cases that it knows, and a result is a string from the tool.
Flat(m) ==
    LET string(id) == <<[type |-> "string", id |-> id]>>
        block == m.blocks[1]
    IN  IF Len(m.blocks) # 1 THEN [role |-> m.role, blocks |-> string(0)]
        ELSE [role |-> CASE block.type = "text" -> m.role
                         [] block.type = "tool_result" -> "tool"
                         [] OTHER -> "assistant",
              blocks |-> string(block.id)]

ToMiniMax(ms) == ToOpenAI([i \in DOMAIN ms |-> Flat(ms[i])])
-----------------------------------------------------------------------------
TypeOK == /\ Len(messages) <= MaxMessages
          /\ \A i \in DOMAIN messages :
                /\ messages[i].role \in {"system", "user", "assistant", "tool"}
                /\ \A b \in Range(messages[i].blocks) : b.id \in 1..said

Field(api, f) == Joined([i \in DOMAIN api |-> api[i][f]])

\* Both providers show a model the same conversation: of everything that is not
\* from the system the same texts, the same calls and the same results, each once
\* and in order, and each result under the id of its call; of the system's texts
\* OpenAI shows none that Claude does not, and the first ones at least. Messages of
\* one block reach a model in order by way of the MiniMax caller as well.
SameConversation ==
    LET rest == NotSystem(messages)
        claude == ToClaude(messages)
        spoken == Joined([i \in DOMAIN claude |-> claude[i].blocks])
        openai == NotSystem(ToOpenAI(messages))
        prompt == Field(System(ToOpenAI(messages)), "text")
        minimax == NotSystem(ToMiniMax(messages))
    IN  /\ Field(openai, "text") = IdsOf(OfType(spoken, {"text"}))
        /\ Field(openai, "calls") = IdsOf(OfType(spoken, {"tool_use"}))
        /\ Field(openai, "answers") = IdsOf(OfType(spoken, {"tool_result"}))
        /\ \E n \in 0..Len(ClaudeSystem(messages)) : prompt = SubSeq(ClaudeSystem(messages), 1, n)
        /\ (\E m \in Range(messages) : IsSystem(m)) => prompt # <<>>
        /\ Len(minimax) = Len(claude)
        /\ \A i \in DOMAIN rest :
              Len(rest[i].blocks) = 1 => minimax[i].text = IdsOf(rest[i].blocks)
=============================================================================
