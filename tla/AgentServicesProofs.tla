------------------------- MODULE AgentServicesProofs -------------------------
(***************************************************************************)
(* Theorems about Services, for every value of its constants: the          *)
(* permissions, waits, sessions, reviews, conversations and providers of   *)
(* the agent, and the reliability monitor. Laid out as ServicesProofs is,  *)
(* whose lemmas about lists and about the parts it uses.                   *)
(***************************************************************************)
EXTENDS ServicesProofs
-----------------------------------------------------------------------------
\* Messages of a conversation (PromptMessages).
LEMMA PromptsPicked == ASSUME NEW s, NEW I PROVE Prompts!Picked(s, I) = Picked(s, I)
BY DEF Prompts!Picked, Picked, Prompts!Nth, Nth, Prompts!Rank, Rank,
       Prompts!Cardinality, Cardinality

LEMMA PromptsJoined == ASSUME NEW ss PROVE Prompts!Joined(ss) = Joined(ss)
BY DEF Prompts!Joined, Joined

Roles == {"system", "user", "assistant", "tool"}
BlockTypes == {"text", "tool_use", "tool_result"}
BlockOf(n) == [type : BlockTypes, id : 1..n]
MessageOf(n) == [role : Roles, blocks : Seq(BlockOf(n))]

\* A message has blocks of its own numbers.
LEMMA NewBlocks ==
  ASSUME NEW n \in Nat, NEW ts \in Seq(BlockTypes)
  PROVE  [i \in DOMAIN ts |-> [type |-> ts[i],
                               id |-> n + i]] \in Seq(BlockOf(n + Len(ts)))
<1>2. PICK f : f = [i \in DOMAIN ts |-> [type |-> ts[i], id |-> n + i]]
  OBVIOUS
<1>4. \A i \in 1..Len(ts) : f[i] \in BlockOf(n + Len(ts))
  BY <1>2 DEF BlockOf
<1>5. f = [i \in 1..Len(ts) |-> f[i]]
  BY <1>2
<1>6. f \in Seq(BlockOf(n + Len(ts)))
  BY <1>4, <1>5
<1> QED BY <1>2, <1>6

\* What was said keeps its numbers.
LEMMA OldMessages ==
  ASSUME NEW n \in Nat, NEW k \in Nat, n <= k
  PROVE  Seq(MessageOf(n)) \subseteq Seq(MessageOf(k))
<1>1. BlockOf(n) \subseteq BlockOf(k)
  BY DEF BlockOf
<1>2. MessageOf(n) \subseteq MessageOf(k)
  <2> SUFFICES ASSUME NEW m \in MessageOf(n) PROVE m \in MessageOf(k)
    OBVIOUS
  <2>1. m.blocks \in Seq(BlockOf(n))
    BY DEF MessageOf
  <2>2. m.blocks \in Seq(BlockOf(k))
    BY <1>1, <2>1
  <2> QED BY <2>2 DEF MessageOf
<1> QED BY <1>2

LEMMA ShortLists ==
  ASSUME NEW a \in BlockTypes, NEW b \in BlockTypes, NEW c \in BlockTypes
  PROVE  /\ <<a>> \in Seq(BlockTypes)
         /\ <<a, b>> \in Seq(BlockTypes)
         /\ <<a, b, c>> \in Seq(BlockTypes)
<1> HIDE DEF BlockTypes
<1> QED OBVIOUS

LEMMA ShapesAreKnown ==
  ASSUME NEW s \in Prompts!Shapes PROVE s.role \in Roles /\ s.types \in Seq(BlockTypes)
<1>1. /\ "text" \in BlockTypes /\ "tool_use" \in BlockTypes
      /\ "tool_result" \in BlockTypes
      /\ "system" \in Roles /\ "user" \in Roles /\ "assistant" \in Roles
      /\ "tool" \in Roles
  BY DEF BlockTypes, Roles
<1>2. s = Prompts!Shape("system", <<"text", "text">>) =>
          s.role \in Roles /\ s.types \in Seq(BlockTypes)
  BY <1>1 DEF Prompts!Shape
<1>3. s = Prompts!Shape("system", <<"text">>) =>
          s.role \in Roles /\ s.types \in Seq(BlockTypes)
  BY <1>1 DEF Prompts!Shape
<1>4. s = Prompts!Shape("user", <<"text">>) =>
          s.role \in Roles /\ s.types \in Seq(BlockTypes)
  BY <1>1 DEF Prompts!Shape
<1>5. s = Prompts!Shape("assistant", <<"text">>) =>
          s.role \in Roles /\ s.types \in Seq(BlockTypes)
  BY <1>1 DEF Prompts!Shape
<1>6. s = Prompts!Shape("user", <<"tool_result">>) =>
          s.role \in Roles /\ s.types \in Seq(BlockTypes)
  BY <1>1 DEF Prompts!Shape
<1>7. s = Prompts!Shape("assistant", <<"tool_use">>) =>
          s.role \in Roles /\ s.types \in Seq(BlockTypes)
  BY <1>1 DEF Prompts!Shape
<1>8. s = Prompts!Shape("assistant", <<"text", "tool_use", "tool_use">>)
         => s.role \in Roles /\ s.types \in Seq(BlockTypes)
  BY <1>1 DEF Prompts!Shape
<1>9. s = Prompts!Shape("tool", <<"tool_result", "tool_result">>)
         => s.role \in Roles /\ s.types \in Seq(BlockTypes)
  BY <1>1 DEF Prompts!Shape
<1> HIDE DEF Prompts!Shape
<1> QED BY <1>2, <1>3, <1>4, <1>5, <1>6, <1>7, <1>8, <1>9 DEF Prompts!Shapes

\* Blocks, messages and API messages of every kind.
AnyBlock == [type : BlockTypes \cup {"string"}, id : Nat]
AnyMessage == [role : Roles, blocks : Seq(AnyBlock)]
Fields == {"text", "calls", "answers"}
Api == [role : Roles, text : Seq(Nat), calls : Seq(Nat), answers : Seq(Nat)]
SpokenApi == {a \in Api : ~Prompts!IsSystem(a)}
SystemApi == {a \in Api : Prompts!IsSystem(a)}

LEMMA TypedBlocks ==
  ASSUME NEW bs \in Seq(AnyBlock), NEW T
  PROVE  Prompts!OfType(bs, T) \in Seq(AnyBlock)
<1> QED BY PromptsPicked, PickedList DEF Prompts!OfType

LEMMA IdsMapped ==
  ASSUME NEW bs \in Seq(AnyBlock)
  PROVE  Prompts!IdsOf(bs) = Mapped([b \in AnyBlock |-> b.id], bs)
         /\ Prompts!IdsOf(bs) \in Seq(Nat)
<1>1. PICK f : f = [b \in AnyBlock |-> b.id]
  OBVIOUS
<1>2. f \in [AnyBlock -> Nat] /\ \A i \in DOMAIN bs : f[bs[i]] = bs[i].id
  <2>1. \A b \in AnyBlock : b.id \in Nat
    BY DEF AnyBlock
  <2> QED BY <1>1, <2>1
<1>3. Prompts!IdsOf(bs) = Mapped(f, bs)
  BY <1>2 DEF Prompts!IdsOf, Mapped
<1> QED BY <1>1, <1>2, <1>3, MappedList

\* The ids of blocks of a type, of two lists in a row.
LEMMA IdsConcat ==
  ASSUME NEW bs \in Seq(AnyBlock), NEW cs \in Seq(AnyBlock), NEW T
  PROVE  Prompts!IdsOf(Prompts!OfType(bs \o cs, T))
            = Prompts!IdsOf(Prompts!OfType(bs, T))
                \o Prompts!IdsOf(Prompts!OfType(cs, T))
<1>1. PICK I, J, n : /\ I = {i \in DOMAIN bs : bs[i].type \in T}
                     /\ J = {i \in DOMAIN cs : cs[i].type \in T} /\ n = Len(bs)
  OBVIOUS
<1>2. PICK r : r = bs \o cs
  OBVIOUS
<1>3. /\ n \in Nat /\ DOMAIN bs = 1..n /\ DOMAIN r = 1..(n + Len(cs))
      /\ Len(cs) \in Nat /\ DOMAIN cs = 1..Len(cs)
      /\ \A i \in 1..n : r[i] = bs[i]
      /\ \A i \in 1..(n + Len(cs)) : ~(i <= n) =>
            i - n \in 1..Len(cs) /\ r[i] = cs[i - n]
  BY <1>1, <1>2
<1>4. {i \in DOMAIN r : r[i].type \in T} = I \cup {j \in DOMAIN r : j - n \in J}
  <2>1. ASSUME NEW i \in DOMAIN r
        PROVE  r[i].type \in T <=> i \in I \/ i - n \in J
    <3>1. CASE i <= n
      <4> QED BY <1>1, <1>3
    <3>2. CASE ~(i <= n)
      <4>1. i - n \in DOMAIN cs /\ r[i] = cs[i - n] /\ i \notin I
        BY <1>1, <1>3, <3>2
      <4> QED BY <1>1, <4>1
    <3> QED BY <3>1, <3>2
  <2>2. I \subseteq DOMAIN r
    BY <1>1, <1>3
  <2> QED BY <2>1, <2>2
<1>5. Picked(bs \o cs, I \cup {j \in DOMAIN (bs \o cs) : j - Len(bs) \in J})
          = Picked(bs, I) \o Picked(cs, J)
  <2>1. I \in SUBSET (DOMAIN bs) /\ J \in SUBSET (DOMAIN cs)
    BY <1>1
  <2>2. Concat(Picked(bs, I), Picked(cs, J),
               Picked(bs \o cs, I \cup PlacesAfter(bs, cs, J)))
    BY <2>1, PickedConcat, Zenon
  <2> QED BY <2>2 DEF Concat, PlacesAfter
<1>6. Prompts!OfType(bs \o cs, T) = Prompts!OfType(bs, T) \o Prompts!OfType(cs, T)
  BY PromptsPicked, <1>1, <1>2, <1>4, <1>5 DEF Prompts!OfType
<1>7. PICK b, c : b = Prompts!OfType(bs, T) /\ c = Prompts!OfType(cs, T)
  OBVIOUS
<1>8. b \in Seq(AnyBlock) /\ c \in Seq(AnyBlock)
  BY <1>7, TypedBlocks
<1>9. b \o c \in Seq(AnyBlock)
  BY <1>8
<1>10. PICK f : f = [x \in AnyBlock |-> x.id]
  OBVIOUS
<1>11. f \in [AnyBlock -> Nat]
  BY <1>10 DEF AnyBlock
<1>12. Mapped(f, b \o c) = Mapped(f, b) \o Mapped(f, c)
  <2>1. Concat(Mapped(f, b), Mapped(f, c), Mapped(f, b \o c))
    BY <1>8, <1>11, MappedConcat, Zenon
  <2> QED BY <2>1 DEF Concat
<1> QED BY <1>6, <1>7, <1>8, <1>9, <1>10, <1>12, IdsMapped

\* A field of API messages, of two lists in a row.
LEMMA FieldList ==
  ASSUME NEW ps \in Seq(Api), NEW f \in Fields
  PROVE  /\ Prompts!Field(ps, f) = Joined(Mapped([a \in Api |-> a[f]], ps))
         /\ Mapped([a \in Api |-> a[f]], ps) \in Seq(Seq(Nat))
         /\ [a \in Api |-> a[f]] \in [Api -> Seq(Nat)]
<1>0. \A i \in DOMAIN ps : ps[i] \in Api
  BY Elements
<1>1. PICK g : g = [a \in Api |-> a[f]]
  OBVIOUS
<1>2. \A a \in Api : a[f] \in Seq(Nat)
  BY DEF Api, Fields
<1>3. g \in [Api -> Seq(Nat)] /\ \A i \in DOMAIN ps : ps[i][f] = g[ps[i]]
  BY <1>0, <1>1, <1>2
<1>4. [i \in DOMAIN ps |-> ps[i][f]] = Mapped(g, ps)
  BY <1>3 DEF Mapped
<1>5. Mapped(g, ps) \in Seq(Seq(Nat))
  BY <1>3, MappedList
<1> QED BY <1>1, <1>3, <1>4, <1>5, PromptsJoined DEF Prompts!Field

LEMMA FieldConcat ==
  ASSUME NEW ps \in Seq(Api), NEW qs \in Seq(Api), NEW f \in Fields
  PROVE  Prompts!Field(ps \o qs, f) = Prompts!Field(ps, f) \o Prompts!Field(qs, f)
<1>1. PICK g, rs : g = [a \in Api |-> a[f]] /\ rs = ps \o qs
  OBVIOUS
<1>2. rs \in Seq(Api)
  BY <1>1
<1>3. /\ Prompts!Field(ps, f) = Joined(Mapped(g, ps)) /\ Mapped(g, ps) \in Seq(Seq(Nat))
      /\ g \in [Api -> Seq(Nat)]
  BY <1>1, FieldList
<1>4. Prompts!Field(qs, f) = Joined(Mapped(g, qs)) /\ Mapped(g, qs) \in Seq(Seq(Nat))
  BY <1>1, FieldList
<1>5. Prompts!Field(rs, f) = Joined(Mapped(g, rs))
  BY <1>1, <1>2, FieldList
<1>6. Concat(Mapped(g, ps), Mapped(g, qs), Mapped(g, ps \o qs))
  BY <1>3, MappedConcat, Zenon
<1>7. Concat(Joined(Mapped(g, ps)), Joined(Mapped(g, qs)),
             Joined(Mapped(g, ps) \o Mapped(g, qs)))
  BY <1>3, <1>4, JoinedConcat, Zenon
<1> QED BY <1>1, <1>3, <1>4, <1>5, <1>6, <1>7 DEF Concat

\* The messages of the system, and the others, of a list with one message more.
LEMMA SystemAppend ==
  ASSUME NEW S, NEW ms \in Seq(S), NEW m \in S
  PROVE  /\ Prompts!System(Append(ms, m)) = IF Prompts!IsSystem(m)
               THEN Append(Prompts!System(ms), m) ELSE Prompts!System(ms)
         /\ Prompts!NotSystem(Append(ms, m))
                = IF Prompts!IsSystem(m) THEN Prompts!NotSystem(ms)
                    ELSE Append(Prompts!NotSystem(ms), m)
         /\ Prompts!System(ms) \in Seq(S) /\ Prompts!NotSystem(ms) \in Seq(S)
<1>1. PICK I, J, n, t : /\ I = {i \in DOMAIN ms : Prompts!IsSystem(ms[i])}
                        /\ J = {i \in DOMAIN ms : ~Prompts!IsSystem(ms[i])}
                        /\ n = Len(ms) /\ t = Append(ms, m)
  OBVIOUS
<1>3. /\ {i \in DOMAIN t : Prompts!IsSystem(t[i])} = IF Prompts!IsSystem(m) THEN I
            \cup {n + 1} ELSE I
      /\ {i \in DOMAIN t : ~Prompts!IsSystem(t[i])} = IF Prompts!IsSystem(m) THEN J
            ELSE J \cup {n + 1}
  BY <1>1
<1>4. I \in SUBSET (DOMAIN ms) /\ J \in SUBSET (DOMAIN ms)
  BY <1>1
<1>5. /\ Picked(t, I) = Picked(ms, I)
      /\ Picked(t, I \cup {n + 1}) = Append(Picked(ms, I), m)
      /\ Picked(t, J) = Picked(ms, J)
      /\ Picked(t, J \cup {n + 1}) = Append(Picked(ms, J), m)
  <2>1. PicksOneMore(ms, m, I) /\ PicksOneMore(ms, m, J)
    BY <1>4, PickedAppend, Zenon
  <2> QED BY <1>1, <2>1 DEF PicksOneMore
<1>6. Picked(ms, I) \in Seq(S) /\ Picked(ms, J) \in Seq(S)
  BY <1>4, PickedList
<1> QED BY PromptsPicked, <1>1, <1>3, <1>5, <1>6 DEF Prompts!System, Prompts!NotSystem

\* Of messages from the system followed by others, what each filter leaves.
LEMMA SystemFirst ==
  ASSUME NEW ps \in Seq(SystemApi), NEW qs \in Seq(SpokenApi)
  PROVE  Prompts!System(ps \o qs) = ps /\ Prompts!NotSystem(ps \o qs) = qs
<1>1. PICK n, t : n = Len(ps) /\ t = ps \o qs
  OBVIOUS
<1>2. /\ SystemApi \subseteq Api /\ SpokenApi \subseteq Api
      /\ \A a \in SystemApi : Prompts!IsSystem(a)
      /\ \A a \in SpokenApi : ~Prompts!IsSystem(a)
  BY DEF SystemApi, SpokenApi
<1>5. ps \in Seq(Api) /\ qs \in Seq(Api)
  BY <1>2, MoreElements
<1>10. PICK k : k = Len(qs)
  OBVIOUS
<1>11. /\ n \in Nat /\ k \in Nat /\ DOMAIN ps = 1..n /\ DOMAIN qs = 1..k
      /\ t = [i \in 1..(n + k) |-> IF i <= n THEN ps[i] ELSE qs[i - n]]
  <2>1. n \in Nat /\ k \in Nat /\ DOMAIN ps = 1..n /\ DOMAIN qs = 1..k
    BY <1>1, <1>5, <1>10, Elements
  <2>2. ps \o qs = [i \in 1..(Len(ps) + Len(qs)) |-> IF i <= Len(ps) THEN ps[i]
                                                    ELSE qs[i - Len(ps)]]
    BY <1>5, ConcatIs
  <2> QED BY <1>1, <1>10, <2>1, <2>2
<1>12. (\A i \in 1..n : ps[i] \in SystemApi) /\ (\A i \in 1..k : qs[i] \in SpokenApi)
  BY <1>11, Elements
<1>3. \A i \in 1..(n + k) : Prompts!IsSystem(t[i]) <=> i <= n
  <2> SUFFICES ASSUME NEW i \in 1..(n + k) PROVE Prompts!IsSystem(t[i]) <=> i <= n
    OBVIOUS
  <2>1. CASE i <= n
    BY <1>2, <1>11, <1>12, <2>1
  <2>2. CASE ~(i <= n)
    <3>1. i - n \in 1..k /\ t[i] = qs[i - n]
      BY <1>11, <2>2
    <3> QED BY <1>2, <1>12, <2>2, <3>1
  <2> QED BY <2>1, <2>2
<1>4. /\ {i \in DOMAIN t : Prompts!IsSystem(t[i])} = DOMAIN ps
            \cup {j \in DOMAIN t : j - n \in {}}
      /\ {i \in DOMAIN t : ~Prompts!IsSystem(t[i])} = {}
            \cup {j \in DOMAIN t : j - n \in DOMAIN qs}
  BY <1>11, <1>3
<1>6. /\ Picked(t, DOMAIN ps \cup {j \in DOMAIN t : j - n \in {}})
             = Picked(ps, DOMAIN ps) \o Picked(qs, {})
      /\ Picked(t, {} \cup {j \in DOMAIN t : j - n \in DOMAIN qs})
             = Picked(ps, {}) \o Picked(qs, DOMAIN qs)
  <2>1. PICK I, J, E : I = DOMAIN ps /\ J = DOMAIN qs /\ E = {}
    OBVIOUS
  <2>2. /\ I \in SUBSET (DOMAIN ps) /\ E \in SUBSET (DOMAIN qs)
        /\ E \in SUBSET (DOMAIN ps) /\ J \in SUBSET (DOMAIN qs)
    BY <2>1
  <2>3. Concat(Picked(ps, I), Picked(qs, E),
               Picked(ps \o qs, I \cup PlacesAfter(ps, qs, E)))
    BY <1>5, <2>2, PickedConcat, Zenon
  <2>4. Concat(Picked(ps, E), Picked(qs, J),
               Picked(ps \o qs, E \cup PlacesAfter(ps, qs, J)))
    BY <1>5, <2>2, PickedConcat, Zenon
  <2> QED BY <1>1, <2>1, <2>3, <2>4 DEF Concat, PlacesAfter
<1>7. ps \o <<>> = ps /\ <<>> \o qs = qs
  BY <1>5, ConcatList
<1>8. Picked(t, {i \in DOMAIN t : Prompts!IsSystem(t[i])}) = ps
  BY <1>4, <1>5, <1>6, <1>7, PickedAll, PickedNone
<1>9. Picked(t, {i \in DOMAIN t : ~Prompts!IsSystem(t[i])}) = qs
  BY <1>4, <1>5, <1>6, <1>7, PickedAll, PickedNone
<1> QED BY <1>1, <1>8, <1>9, PromptsPicked DEF Prompts!System, Prompts!NotSystem
\* What ToApi makes of one message.
LEMMA ApiTyped ==
  ASSUME NEW role \in Roles, NEW t \in Seq(Nat), NEW c \in Seq(Nat), NEW a \in Seq(Nat)
  PROVE  LET api == Prompts!ApiMessage(role, t, c, a)
         IN  /\ api \in Api /\ api["text"] = t /\ api["calls"] = c /\ api["answers"] = a
             /\ (role # "system" => api \in SpokenApi)
             /\ (role = "system" => api \in SystemApi)
BY DEF Prompts!ApiMessage, Api, SpokenApi, SystemApi, Prompts!IsSystem

LEMMA FieldOne ==
  ASSUME NEW a \in Api, NEW f \in Fields
  PROVE  Prompts!Field(<<a>>, f) = a[f] /\ Prompts!Field(<<>>, f) = <<>>
<1>1. PICK g : g = [b \in Api |-> b[f]]
  OBVIOUS
<1>2. <<>> \in Seq(Api) /\ <<a>> \in Seq(Api) /\ Append(<<>>, a) = <<a>>
  OBVIOUS
<1>3. /\ Prompts!Field(<<a>>, f) = Joined(Mapped(g, <<a>>)) /\ g \in [Api -> Seq(Nat)]
      /\ Prompts!Field(<<>>, f) = Joined(Mapped(g, <<>>))
  BY <1>1, <1>2, FieldList
<1>4. Mapped(g, <<>>) = <<>>
  BY DEF Mapped
<1>5. Mapped(g, Append(<<>>, a)) = Append(<<>>, g[a])
  <2>1. MapsOneMore(g, <<>>, a)
    BY <1>2, <1>3, MappedAppend, Zenon
  <2> QED BY <1>4, <2>1 DEF MapsOneMore
<1>6. g[a] \in Seq(Nat) /\ g[a] = a[f]
  BY <1>1, <1>3
<1>7. <<>> \in Seq(Seq(Nat))
  OBVIOUS
<1>8. Joined(Append(<<>>, g[a])) = Joined(<<>>) \o g[a]
  BY <1>6, <1>7, JoinedAppend
<1>9. <<>> \o g[a] = g[a]
  OBVIOUS
<1> QED BY <1>2, <1>3, <1>4, <1>5, <1>6, <1>8, <1>9, JoinedEmpty

LEMMA TextTyped ==
  ASSUME NEW m \in AnyMessage
  PROVE  m.role \in Roles /\ m.blocks \in Seq(AnyBlock) /\ Prompts!Text(m) \in Seq(Nat)
<1>1. m.role \in Roles /\ m.blocks \in Seq(AnyBlock)
  BY DEF AnyMessage
<1>2. PICK bs, I : bs = m.blocks /\ I = {i \in DOMAIN m.blocks :
                      \/ m.blocks[i].type = "text"
                      \/ m.blocks[i].type = "string" /\ m.blocks[i].id # 0}
  OBVIOUS
<1>3. bs \in Seq(AnyBlock) /\ I \in SUBSET (DOMAIN bs)
  BY <1>1, <1>2
<1>4. Picked(bs, I) \in Seq(AnyBlock)
  BY <1>3, PickedList
<1>5. Prompts!IdsOf(Picked(bs, I)) \in Seq(Nat)
  BY <1>4, IdsMapped
<1>6. Prompts!Text(m) = Prompts!IdsOf(Picked(bs, I))
  BY PromptsPicked, <1>2 DEF Prompts!Text
<1> QED BY <1>1, <1>5, <1>6

\* The parts of ToApi: results and others of a message, and one API message per result.
ResultsOf(m) == Prompts!OfType(m.blocks, {"tool_result"})
OthersOf(m) ==
    Picked(m.blocks, {i \in DOMAIN m.blocks : m.blocks[i].type # "tool_result"})
CallsOf(m) == Prompts!IdsOf(Prompts!OfType(m.blocks, {"tool_use"}))
Answer1(b) == Prompts!ApiMessage("tool", <<>>, <<>>, <<b.id>>)
AnswersTo(results) == [i \in DOMAIN results |-> Answer1(results[i])]

LEMMA ToApiParts ==
  ASSUME NEW m
  PROVE  /\ m.role = "tool" \/ ResultsOf(m) # <<>> =>
               Prompts!ToApi(m) = AnswersTo(ResultsOf(m)) \o
                   (IF OthersOf(m) # <<>>
                    THEN <<Prompts!ApiMessage("tool", Prompts!IdsOf(OthersOf(m)), <<>>,
                                              <<>>)>> ELSE <<>>)
         /\ ~(m.role = "tool" \/ ResultsOf(m) # <<>>) =>
               Prompts!ToApi(m) = <<Prompts!ApiMessage(m.role, Prompts!Text(m),
                                      IF m.role = "assistant" THEN CallsOf(m) ELSE <<>>,
                                      <<>>)>>
BY PromptsPicked DEF Prompts!ToApi, ResultsOf, OthersOf, CallsOf, AnswersTo, Answer1

LEMMA AnswersTyped ==
  ASSUME NEW rs \in Seq(AnyBlock)
  PROVE  AnswersTo(rs) \in Seq(SpokenApi)
<1>1. PICK f : f = [b \in AnyBlock |-> Answer1(b)]
  OBVIOUS
<1>2. ASSUME NEW b \in AnyBlock PROVE Answer1(b) \in SpokenApi
  <2>1. b.id \in Nat
    BY DEF AnyBlock
  <2>2. <<b.id>> \in Seq(Nat) /\ <<>> \in Seq(Nat) /\ "tool" \in Roles
        /\ "tool" # "system"
    BY <2>1 DEF Roles
  <2> QED BY <2>2, ApiTyped DEF Answer1
<1>3. f \in [AnyBlock -> SpokenApi]
  BY <1>1, <1>2
<1>5. AnswersTo(rs) = Mapped(f, rs)
  BY <1>1 DEF AnswersTo, Mapped
<1> QED BY <1>3, <1>5, MappedList

LEMMA ApiOf ==
  ASSUME NEW m \in AnyMessage, ~Prompts!IsSystem(m)
  PROVE  Prompts!ToApi(m) \in Seq(SpokenApi)
<1>1. m.role \in Roles /\ m.blocks \in Seq(AnyBlock) /\ Prompts!Text(m) \in Seq(Nat)
  BY TextTyped
<1>2. ResultsOf(m) \in Seq(AnyBlock) /\ CallsOf(m) \in Seq(Nat)
  <2>1. Prompts!OfType(m.blocks, {"tool_use"}) \in Seq(AnyBlock)
    BY <1>1, TypedBlocks
  <2>2. CallsOf(m) \in Seq(Nat)
    BY <2>1, IdsMapped DEF CallsOf
  <2> QED BY <1>1, <2>2, TypedBlocks DEF ResultsOf
<1>3. OthersOf(m) \in Seq(AnyBlock) /\ Prompts!IdsOf(OthersOf(m)) \in Seq(Nat)
  <2>2. OthersOf(m) \in Seq(AnyBlock)
    BY <1>1, PickedList DEF OthersOf
  <2> QED BY <2>2, IdsMapped
<1>4. <<>> \in Seq(Nat) /\ "tool" \in Roles /\ "tool" # "system" /\ m.role # "system"
  BY DEF Roles, Prompts!IsSystem
<1>5. CASE m.role = "tool" \/ ResultsOf(m) # <<>>
  <2>1. PICK x : x = Prompts!ApiMessage("tool", Prompts!IdsOf(OthersOf(m)), <<>>, <<>>)
    OBVIOUS
  <2>2. x \in SpokenApi
    BY <1>3, <1>4, <2>1, ApiTyped
  <2>3. PICK y : y = IF OthersOf(m) # <<>> THEN <<x>> ELSE <<>>
    OBVIOUS
  <2>4. y \in Seq(SpokenApi)
    BY <2>2, <2>3
  <2>5. AnswersTo(ResultsOf(m)) \in Seq(SpokenApi)
    BY <1>2, AnswersTyped
  <2>6. AnswersTo(ResultsOf(m)) \o y \in Seq(SpokenApi)
    BY <2>4, <2>5
  <2>7. Prompts!ToApi(m) = AnswersTo(ResultsOf(m)) \o y
    BY <1>5, <2>1, <2>3, ToApiParts
  <2> QED BY <2>6, <2>7
<1>6. CASE ~(m.role = "tool" \/ ResultsOf(m) # <<>>)
  <2>1. PICK c : c = IF m.role = "assistant" THEN CallsOf(m) ELSE <<>>
    OBVIOUS
  <2>2. PICK x : x = Prompts!ApiMessage(m.role, Prompts!Text(m), c, <<>>)
    OBVIOUS
  <2>3. c \in Seq(Nat)
    BY <1>2, <2>1
  <2>4. x \in SpokenApi
    BY <1>1, <1>4, <2>2, <2>3, ApiTyped
  <2>5. Prompts!ToApi(m) = <<x>>
    BY <1>6, <2>1, <2>2, ToApiParts
  <2> QED BY <2>4, <2>5
<1> QED BY <1>5, <1>6
LEMMA PickedOf ==
  ASSUME NEW S, NEW s \in Seq(S), NEW T, NEW I \in SUBSET (DOMAIN s),
         \A i \in I : s[i] \in T
  PROVE  Picked(s, I) \in Seq(T)
<1>1. Len(s) \in Nat /\ DOMAIN s = 1..Len(s)
  OBVIOUS
<1>2. PICK n : n = Cardinality(I)
  OBVIOUS
<1>3. n \in Nat
  BY <1>2, PlacesFinite
<1>4. ASSUME NEW k \in 1..n PROVE s[Nth(I, k)] \in T
  BY <1>1, <1>2, NthPlace
<1>5. Picked(s, I) = [k \in 1..n |-> s[Nth(I, k)]]
  BY <1>2 DEF Picked
<1> QED BY <1>3, <1>4, <1>5

\* What a message shows of its texts, its calls and its results.
Shows(m) == /\ Prompts!Field(Prompts!ToApi(m), "text")
                  = Prompts!IdsOf(Prompts!OfType(m.blocks, {"text"}))
            /\ Prompts!Field(Prompts!ToApi(m), "calls")
                  = Prompts!IdsOf(Prompts!OfType(m.blocks, {"tool_use"}))
            /\ Prompts!Field(Prompts!ToApi(m), "answers")
                  = Prompts!IdsOf(Prompts!OfType(m.blocks, {"tool_result"}))

\* The kinds of messages.
Plain(role, types) ==
    \/ role = "user" /\ \A i \in DOMAIN types : types[i] = "text"
    \/ role = "assistant" /\ \A i \in DOMAIN types : types[i] \in {"text", "tool_use"}
Results(role, types) == /\ role \in {"user", "tool"} /\ types # <<>>
                        /\ \A i \in DOMAIN types : types[i] = "tool_result"
FromSystem(role, types) == /\ role = "system" /\ types # <<>>
                           /\ \A i \in DOMAIN types : types[i] = "text"
TypesOf(bs) == [i \in DOMAIN bs |-> bs[i].type]

LEMMA NoneOfType ==
  ASSUME NEW bs, NEW T, \A i \in DOMAIN bs : bs[i].type \notin T
  PROVE  Prompts!OfType(bs, T) = <<>> /\ Prompts!IdsOf(Prompts!OfType(bs, T)) = <<>>
<1>2. Prompts!OfType(bs, T) = <<>>
  BY PromptsPicked, PickedNone DEF Prompts!OfType
<1>3. Prompts!IdsOf(<<>>) = <<>>
  BY DEF Prompts!IdsOf
<1> QED BY <1>2, <1>3

LEMMA AllOfType ==
  ASSUME NEW bs \in Seq(AnyBlock), NEW T, \A i \in DOMAIN bs : bs[i].type \in T
  PROVE  Prompts!OfType(bs, T) = bs
<1> QED BY PromptsPicked, PickedAll DEF Prompts!OfType

LEMMA PlainShows ==
  ASSUME NEW m \in AnyMessage, Plain(m.role, TypesOf(m.blocks))
  PROVE  Shows(m)
<1>1. m.role \in Roles /\ m.blocks \in Seq(AnyBlock) /\ Prompts!Text(m) \in Seq(Nat)
  BY TextTyped
<1>2. /\ m.role \in {"user", "assistant"}
      /\ \A i \in DOMAIN m.blocks : m.blocks[i].type \in {"text", "tool_use"}
      /\ m.role = "user" => \A i \in DOMAIN m.blocks : m.blocks[i].type = "text"
  BY DEF Plain, TypesOf
<1>3. ResultsOf(m) = <<>>
      /\ Prompts!IdsOf(Prompts!OfType(m.blocks, {"tool_result"})) = <<>>
  BY <1>2, NoneOfType DEF ResultsOf
<1>4. PICK c : c = IF m.role = "assistant" THEN CallsOf(m) ELSE <<>>
  OBVIOUS
<1>5. c = CallsOf(m) /\ c \in Seq(Nat)
  <2>1. m.role = "user" => CallsOf(m) = <<>>
    BY <1>2, NoneOfType DEF CallsOf
  <2>2. CallsOf(m) \in Seq(Nat)
    BY <1>1, TypedBlocks, IdsMapped DEF CallsOf
  <2> QED BY <1>2, <1>4, <2>1, <2>2
<1>6. PICK x : x = Prompts!ApiMessage(m.role, Prompts!Text(m), c, <<>>)
  OBVIOUS
<1>7. Prompts!ToApi(m) = <<x>>
  BY <1>2, <1>3, <1>4, <1>6, ToApiParts
<1>8. x \in Api /\ x["text"] = Prompts!Text(m) /\ x["calls"] = c /\ x["answers"] = <<>>
  <2>1. <<>> \in Seq(Nat) /\ m.role # "system"
    BY <1>2
  <2>2. x \in SpokenApi
    BY <1>1, <1>5, <1>6, <2>1, ApiTyped
  <2> QED BY <1>6, <2>2 DEF Prompts!ApiMessage, SpokenApi
<1>9. /\ Prompts!Field(<<x>>, "text") = Prompts!Text(m)
      /\ Prompts!Field(<<x>>, "calls") = c
      /\ Prompts!Field(<<x>>, "answers") = <<>>
  BY <1>8, FieldOne DEF Fields
<1>10. Prompts!Text(m) = Prompts!IdsOf(Prompts!OfType(m.blocks, {"text"}))
  <2>1. {i \in DOMAIN m.blocks : \/ m.blocks[i].type = "text"
                                 \/ m.blocks[i].type = "string" /\ m.blocks[i].id # 0}
           = {i \in DOMAIN m.blocks : m.blocks[i].type \in {"text"}}
    BY <1>2
  <2> QED BY <2>1 DEF Prompts!Text, Prompts!OfType
<1> QED BY <1>3, <1>5, <1>7, <1>9, <1>10 DEF Shows, CallsOf

LEMMA ResultsShow ==
  ASSUME NEW m \in AnyMessage, Results(m.role, TypesOf(m.blocks))
  PROVE  Shows(m)
<1>1. m.blocks \in Seq(AnyBlock)
  BY TextTyped
<1>2. /\ \A i \in DOMAIN m.blocks : m.blocks[i].type = "tool_result"
      /\ m.blocks # <<>>
  <2>1. m.blocks = <<>> => TypesOf(m.blocks) = <<>>
    BY DEF TypesOf
  <2> QED BY <2>1 DEF Results, TypesOf
<1>3. PICK bs : bs = m.blocks
  OBVIOUS
<1>4. ResultsOf(m) = bs /\ Prompts!OfType(m.blocks, {"tool_result"}) = bs
  BY <1>1, <1>2, <1>3, AllOfType DEF ResultsOf
<1>5. OthersOf(m) = <<>>
  <2>1. {i \in DOMAIN m.blocks : m.blocks[i].type # "tool_result"} = {}
    BY <1>2
  <2> QED BY <2>1, PickedNone DEF OthersOf
<1>6. Prompts!IdsOf(Prompts!OfType(m.blocks, {"text"})) = <<>>
      /\ Prompts!IdsOf(Prompts!OfType(m.blocks, {"tool_use"})) = <<>>
  BY <1>2, NoneOfType
<1>8. Prompts!ToApi(m) = AnswersTo(bs)
  <2>1. AnswersTo(bs) \o <<>> = AnswersTo(bs)
    OBVIOUS
  <2> QED BY <1>2, <1>3, <1>4, <1>5, <2>1, ToApiParts
<1>10. PICK f : f = [i \in DOMAIN bs |-> <<>>]
  OBVIOUS
<1>11. Prompts!Field(AnswersTo(bs), "text") = <<>>
       /\ Prompts!Field(AnswersTo(bs), "calls") = <<>>
  <2>1. f \in Seq({<<>>})
    <3> QED BY <1>10
  <2>2. [i \in DOMAIN AnswersTo(bs) |-> AnswersTo(bs)[i]["text"]] = f
    BY <1>10 DEF AnswersTo, Answer1, Prompts!ApiMessage
  <2>3. [i \in DOMAIN AnswersTo(bs) |-> AnswersTo(bs)[i]["calls"]] = f
    BY <1>10 DEF AnswersTo, Answer1, Prompts!ApiMessage
  <2>4. Joined(f) = <<>>
    BY <2>1, JoinedEmpties
  <2> QED BY PromptsJoined, <2>2, <2>3, <2>4 DEF Prompts!Field
<1>12. Prompts!Field(AnswersTo(bs), "answers") = Prompts!IdsOf(bs)
  <2>1. Prompts!IdsOf(bs) \in Seq(Nat)
    BY <1>1, <1>3, IdsMapped
  <2>2. Joined([i \in DOMAIN Prompts!IdsOf(bs) |-> <<Prompts!IdsOf(bs)[i]>>])
           = Prompts!IdsOf(bs)
    BY <2>1, JoinedSingles
  <2>3. [i \in DOMAIN AnswersTo(bs) |-> AnswersTo(bs)[i]["answers"]]
           = [i \in DOMAIN Prompts!IdsOf(bs) |-> <<Prompts!IdsOf(bs)[i]>>]
    BY DEF AnswersTo, Answer1, Prompts!ApiMessage, Prompts!IdsOf
  <2> QED BY PromptsJoined, <2>2, <2>3 DEF Prompts!Field
<1> QED BY <1>4, <1>6, <1>8, <1>11, <1>12 DEF Shows

\* A block as the MiniMax caller makes it, and what reaches a model of it.
LEMMA Flattens ==
  ASSUME NEW m \in AnyMessage
  PROVE  /\ Prompts!Flat(m) \in AnyMessage
         /\ Prompts!Flat(m).blocks = <<[type |-> "string",
                                        id |-> IF Len(m.blocks) = 1 THEN m.blocks[1].id
                                            ELSE 0]>>
         /\ Plain(m.role, TypesOf(m.blocks)) \/ Results(m.role, TypesOf(m.blocks))
               => ~Prompts!IsSystem(Prompts!Flat(m))
         /\ FromSystem(m.role, TypesOf(m.blocks)) => Prompts!IsSystem(Prompts!Flat(m))
<1>1. m.role \in Roles /\ m.blocks \in Seq(AnyBlock)
  BY TextTyped
<1>2. Len(m.blocks) = 1 => 1 \in DOMAIN m.blocks /\ m.blocks[1] \in AnyBlock
                           /\ m.blocks[1].id \in Nat
  <2>1. \A i \in DOMAIN m.blocks : m.blocks[i] \in AnyBlock
    BY <1>1
  <2> QED BY <2>1 DEF AnyBlock
<1>3. PICK b : b = [type |-> "string", id |-> IF Len(m.blocks) = 1 THEN m.blocks[1].id
               ELSE 0]
  OBVIOUS
<1>4. b \in AnyBlock
  BY <1>2, <1>3 DEF AnyBlock
<1>5. Prompts!Flat(m).blocks = <<b>>
  BY <1>3 DEF Prompts!Flat
<1>6. Prompts!Flat(m) = [role |-> Prompts!Flat(m).role, blocks |-> <<b>>]
      /\ Prompts!Flat(m).role \in Roles
  BY <1>1, <1>3 DEF Prompts!Flat, Roles
<1>7. Prompts!Flat(m) \in AnyMessage
  <2>1. <<b>> \in Seq(AnyBlock)
    BY <1>4
  <2>2. PICK q, bs : q = Prompts!Flat(m).role /\ bs = <<b>>
    OBVIOUS
  <2>3. Prompts!Flat(m) = [role |-> q, blocks |-> bs] /\ q \in Roles
    BY <1>6, <2>2
  <2>4. bs \in Seq(AnyBlock)
    BY <2>1, <2>2
  <2> QED BY <2>3, <2>4 DEF AnyMessage
<1>8. Plain(m.role, TypesOf(m.blocks)) \/ Results(m.role, TypesOf(m.blocks))
               => ~Prompts!IsSystem(Prompts!Flat(m))
  BY DEF Plain, Results, Prompts!IsSystem, Prompts!Flat
<1>9. FromSystem(m.role, TypesOf(m.blocks)) => Prompts!IsSystem(Prompts!Flat(m))
  BY <1>2 DEF FromSystem, TypesOf, Prompts!IsSystem, Prompts!Flat
<1> QED BY <1>3, <1>5, <1>7, <1>8, <1>9

LEMMA StringShown ==
  ASSUME NEW m \in AnyMessage, ~Prompts!IsSystem(m), NEW id \in Nat,
         m.blocks = <<[type |-> "string", id |-> id]>>
  PROVE  \E a \in SpokenApi : Prompts!ToApi(m) = <<a>>
         /\ (id # 0 => a.text = Prompts!IdsOf(m.blocks))
<1>1. m.role \in Roles /\ m.blocks \in Seq(AnyBlock) /\ Prompts!Text(m) \in Seq(Nat)
  BY TextTyped
<1>2. DOMAIN m.blocks = {1} /\ m.blocks[1].type = "string" /\ m.blocks[1].id = id
      /\ m.blocks # <<>>
  OBVIOUS
<1>3. ResultsOf(m) = <<>> /\ CallsOf(m) = <<>>
  BY NoneOfType DEF ResultsOf, CallsOf
<1>4. OthersOf(m) = m.blocks
  <2>1. {i \in DOMAIN m.blocks : m.blocks[i].type # "tool_result"} = DOMAIN m.blocks
    OBVIOUS
  <2> QED BY <1>1, <2>1, PickedAll DEF OthersOf
<1>5. id # 0 => Prompts!Text(m) = Prompts!IdsOf(m.blocks)
  <2>2. Picked(m.blocks, DOMAIN m.blocks) = m.blocks
    BY <1>1, PickedAll
  <2> QED BY PromptsPicked, <2>2 DEF Prompts!Text
<1>6. <<>> \in Seq(Nat) /\ "tool" \in Roles /\ "tool" # "system" /\ m.role # "system"
      /\ Prompts!IdsOf(m.blocks) \in Seq(Nat)
  <2>1. Prompts!IdsOf(m.blocks) \in Seq(Nat)
    BY <1>1, IdsMapped
  <2> QED BY <2>1 DEF Roles, Prompts!IsSystem
<1>7. CASE m.role = "tool"
  <2>1. PICK x : x = Prompts!ApiMessage("tool", Prompts!IdsOf(m.blocks), <<>>, <<>>)
    OBVIOUS
  <2>2. x \in SpokenApi
    BY <1>6, <2>1, ApiTyped
  <2>3. x.text = Prompts!IdsOf(m.blocks)
    BY <2>1 DEF Prompts!ApiMessage
  <2>4. AnswersTo(<<>>) = <<>>
    BY DEF AnswersTo
  <2>5. <<>> \o <<x>> = <<x>>
    OBVIOUS
  <2>6. Prompts!ToApi(m) = <<x>>
    BY <1>2, <1>3, <1>4, <1>7, <2>1, <2>4, <2>5, ToApiParts
  <2> QED BY <2>2, <2>3, <2>6
<1>8. CASE m.role # "tool"
  <2>1. PICK x : x = Prompts!ApiMessage(m.role, Prompts!Text(m), <<>>, <<>>)
    OBVIOUS
  <2>2. x \in SpokenApi
    BY <1>1, <1>6, <2>1, ApiTyped
  <2>3. x.text = Prompts!Text(m)
    BY <2>1 DEF Prompts!ApiMessage
  <2>4. Prompts!ToApi(m) = <<x>>
    BY <1>3, <1>8, <2>1, ToApiParts
  <2> QED BY <1>5, <2>2, <2>3, <2>4
<1> QED BY <1>7, <1>8

\* The first system message, and all that is not from the system.
SpokenMessage == {m \in AnyMessage : ~Prompts!IsSystem(m)}
FirstPrompt(ms) == IF Prompts!System(ms) = <<>> THEN <<>>
                   ELSE <<Prompts!ApiMessage("system",
                                             Prompts!Text(Prompts!System(ms)[1]), <<>>,
                                             <<>>)>>
Body(ms) == Joined([i \in DOMAIN Prompts!NotSystem(ms) |->
                       Prompts!ToApi(Prompts!NotSystem(ms)[i])])
Spoken(ms) ==
    Joined([i \in DOMAIN Prompts!NotSystem(ms) |-> Prompts!NotSystem(ms)[i].blocks])

LEMMA NotSystemSpoken ==
  ASSUME NEW ms \in Seq(AnyMessage)
  PROVE  /\ Prompts!System(ms) \in Seq(AnyMessage)
         /\ Prompts!NotSystem(ms) \in Seq(SpokenMessage)
         /\ (\E m \in Prompts!Range(ms) : Prompts!IsSystem(m)) =>
               Prompts!System(ms) # <<>>
<1>1. PICK I, J : /\ I = {i \in DOMAIN ms : Prompts!IsSystem(ms[i])}
                  /\ J = {i \in DOMAIN ms : ~Prompts!IsSystem(ms[i])}
  OBVIOUS
<1>2. I \in SUBSET (DOMAIN ms) /\ J \in SUBSET (DOMAIN ms)
      /\ \A i \in DOMAIN ms : ms[i] \in AnyMessage
  BY <1>1
<1>3. \A i \in J : ms[i] \in SpokenMessage
  BY <1>1 DEF SpokenMessage
<1>4. Picked(ms, I) \in Seq(AnyMessage)
  BY <1>2, PickedList
<1>5. Picked(ms, J) \in Seq(SpokenMessage)
  BY <1>2, <1>3, PickedOf
<1>6. ASSUME NEW m \in Prompts!Range(ms), Prompts!IsSystem(m) PROVE Picked(ms, I) # <<>>
  <2>1. PICK i \in DOMAIN ms : ms[i] = m
    BY DEF Prompts!Range
  <2>2. i \in I
    BY <1>1, <1>6, <2>1
  <2>3. Rank(I, i) \in 1..Cardinality(I) /\ DOMAIN Picked(ms, I) = 1..Cardinality(I)
    BY <1>2, <2>2, PickedHas, PickedList
  <2>4. DOMAIN Picked(ms, I) # {}
    BY <2>3
  <2> QED BY <2>4
<1> QED BY PromptsPicked, <1>1, <1>4, <1>5, <1>6 DEF Prompts!System, Prompts!NotSystem

\* What the API messages and the blocks of messages are, as maps.
LEMMA SpokenMaps ==
  /\ [m \in SpokenMessage |-> Prompts!ToApi(m)] \in [SpokenMessage -> Seq(SpokenApi)]
  /\ [m \in SpokenMessage |-> m.blocks] \in [SpokenMessage -> Seq(AnyBlock)]
<1>1. \A m \in SpokenMessage : Prompts!ToApi(m) \in Seq(SpokenApi)
  BY ApiOf DEF SpokenMessage
<1>2. \A m \in SpokenMessage : m.blocks \in Seq(AnyBlock)
  BY DEF SpokenMessage, AnyMessage
<1> QED BY <1>1, <1>2

LEMMA BodyIs ==
  ASSUME NEW ms \in Seq(AnyMessage)
  PROVE  /\ Body(ms) = Joined(Mapped([m \in SpokenMessage |-> Prompts!ToApi(m)],
                                     Prompts!NotSystem(ms)))
         /\ Spoken(ms) = Joined(Mapped([m \in SpokenMessage |-> m.blocks],
                                       Prompts!NotSystem(ms)))
         /\ Body(ms) \in Seq(SpokenApi) /\ Spoken(ms) \in Seq(AnyBlock)
<1>1. PICK f, g, r : /\ f = [m \in SpokenMessage |-> Prompts!ToApi(m)]
                     /\ g = [m \in SpokenMessage |-> m.blocks]
                     /\ r = Prompts!NotSystem(ms)
  OBVIOUS
<1>2. f \in [SpokenMessage -> Seq(SpokenApi)] /\ g \in [SpokenMessage -> Seq(AnyBlock)]
  BY <1>1, SpokenMaps
<1>3. r \in Seq(SpokenMessage) /\ \A i \in DOMAIN r : r[i] \in SpokenMessage
  BY <1>1, NotSystemSpoken
<1>4. Mapped(f, r) \in Seq(Seq(SpokenApi)) /\ Mapped(g, r) \in Seq(Seq(AnyBlock))
  BY <1>2, <1>3, MappedList
<1>5. [i \in DOMAIN r |-> Prompts!ToApi(r[i])] = Mapped(f, r)
  BY <1>1, <1>3 DEF Mapped
<1>6. [i \in DOMAIN r |-> r[i].blocks] = Mapped(g, r)
  BY <1>1, <1>3 DEF Mapped
<1>7. Joined(Mapped(f, r)) \in Seq(SpokenApi) /\ Joined(Mapped(g, r)) \in Seq(AnyBlock)
  BY <1>4, JoinedList
<1> QED BY <1>1, <1>5, <1>6, <1>7 DEF Body, Spoken

LEMMA SystemPartsOf ==
  ASSUME NEW ms \in Seq(AnyMessage)
  PROVE  /\ Prompts!System(Prompts!ToOpenAI(ms)) = FirstPrompt(ms)
         /\ Prompts!NotSystem(Prompts!ToOpenAI(ms)) = Body(ms)
         /\ Prompts!System(ms) # <<>> =>
               /\ Prompts!Text(Prompts!System(ms)[1]) \in Seq(Nat)
               /\ Prompts!Field(FirstPrompt(ms),
                                "text") = Prompts!Text(Prompts!System(ms)[1])
         /\ Prompts!System(ms) = <<>> => Prompts!Field(FirstPrompt(ms), "text") = <<>>
<1>1. Prompts!System(ms) \in Seq(AnyMessage) /\ Body(ms) \in Seq(SpokenApi)
  BY NotSystemSpoken, BodyIs
<1>2. PICK x : x = Prompts!ApiMessage("system", Prompts!Text(Prompts!System(ms)[1]),
                                      <<>>, <<>>)
  OBVIOUS
<1>3. Prompts!System(ms) # <<>> => /\ x \in SystemApi
                                   /\ x["text"] = Prompts!Text(Prompts!System(ms)[1])
                                   /\ Prompts!Text(Prompts!System(ms)[1]) \in Seq(Nat)
  <2>1. Prompts!System(ms) # <<>> => Prompts!System(ms)[1] \in AnyMessage
    BY <1>1
  <2>2. Prompts!System(ms) # <<>> => Prompts!Text(Prompts!System(ms)[1]) \in Seq(Nat)
    BY <2>1, TextTyped
  <2>3. <<>> \in Seq(Nat) /\ "system" \in Roles
    BY DEF Roles
  <2>4. Prompts!System(ms) # <<>> => x \in SystemApi
    BY <1>2, <2>2, <2>3, ApiTyped
  <2> QED BY <1>2, <2>2, <2>4 DEF Prompts!ApiMessage
<1>4. FirstPrompt(ms) = IF Prompts!System(ms) = <<>> THEN <<>> ELSE <<x>>
  BY <1>2 DEF FirstPrompt
<1>5. FirstPrompt(ms) \in Seq(SystemApi)
  BY <1>3, <1>4
<1>6. Prompts!ToOpenAI(ms) = FirstPrompt(ms) \o Body(ms)
  BY PromptsJoined DEF Prompts!ToOpenAI, FirstPrompt, Body
<1>7. Prompts!System(Prompts!ToOpenAI(ms)) = FirstPrompt(ms)
      /\ Prompts!NotSystem(Prompts!ToOpenAI(ms)) = Body(ms)
  BY <1>1, <1>5, <1>6, SystemFirst
<1>8. Prompts!System(ms) # <<>> =>
          Prompts!Field(FirstPrompt(ms), "text") = Prompts!Text(Prompts!System(ms)[1])
  BY <1>3, <1>4, FieldOne DEF SystemApi, Fields
<1>9. Prompts!Field(<<>>, "text") = <<>>
  <2> QED BY PromptsJoined, JoinedEmpty DEF Prompts!Field
<1> QED BY <1>3, <1>4, <1>7, <1>8, <1>9

\* One message more.
LEMMA BodyAppend ==
  ASSUME NEW ms \in Seq(AnyMessage), NEW m \in AnyMessage
  PROVE  /\ Body(Append(ms, m)) = IF Prompts!IsSystem(m) THEN Body(ms) ELSE Body(ms)
               \o Prompts!ToApi(m)
         /\ Spoken(Append(ms, m)) = IF Prompts!IsSystem(m) THEN Spoken(ms)
               ELSE Spoken(ms) \o m.blocks
<1>1. PICK f, g, r, t : /\ f = [k \in SpokenMessage |-> Prompts!ToApi(k)]
                        /\ g = [k \in SpokenMessage |-> k.blocks]
                        /\ r = Prompts!NotSystem(ms)
                        /\ t = Prompts!NotSystem(Append(ms, m))
  OBVIOUS
<1>2. f \in [SpokenMessage -> Seq(SpokenApi)] /\ g \in [SpokenMessage -> Seq(AnyBlock)]
  BY <1>1, SpokenMaps
<1>3. r \in Seq(SpokenMessage)
  BY <1>1, NotSystemSpoken
<1>4. t = IF Prompts!IsSystem(m) THEN r ELSE Append(r, m)
  BY <1>1, SystemAppend
<1>5. Append(ms, m) \in Seq(AnyMessage)
  OBVIOUS
<1>6. Body(ms) = Joined(Mapped(f, r)) /\ Spoken(ms) = Joined(Mapped(g, r))
  BY <1>1, BodyIs
<1>7. Body(Append(ms, m)) = Joined(Mapped(f, t))
      /\ Spoken(Append(ms, m)) = Joined(Mapped(g, t))
  BY <1>1, <1>5, BodyIs
<1>8. CASE Prompts!IsSystem(m)
  BY <1>4, <1>6, <1>7, <1>8
<1>9. CASE ~Prompts!IsSystem(m)
  <2>1. m \in SpokenMessage
    BY <1>9 DEF SpokenMessage
  <2>2. f[m] = Prompts!ToApi(m) /\ f[m] \in Seq(SpokenApi) /\ g[m] = m.blocks
        /\ g[m] \in Seq(AnyBlock)
    BY <1>1, <1>2, <2>1
  <2>3. MapsOneMore(f, r, m) /\ MapsOneMore(g, r, m)
    BY <1>2, <1>3, <2>1, MappedAppend, Zenon
  <2>4. /\ Mapped(f, Append(r, m)) = Append(Mapped(f, r), f[m])
        /\ Mapped(g, Append(r, m)) = Append(Mapped(g, r), g[m])
    BY <2>3 DEF MapsOneMore
  <2>5. Mapped(f, r) \in Seq(Seq(SpokenApi)) /\ Mapped(g, r) \in Seq(Seq(AnyBlock))
    BY <1>2, <1>3, MappedList
  <2>6. Joined(Append(Mapped(f, r), f[m])) = Joined(Mapped(f, r)) \o f[m]
    BY <2>2, <2>5, JoinedAppend
  <2>7. Joined(Append(Mapped(g, r), g[m])) = Joined(Mapped(g, r)) \o g[m]
    BY <2>2, <2>5, JoinedAppend
  <2> QED BY <1>4, <1>6, <1>7, <2>2, <2>4, <2>6, <2>7
<1> QED BY <1>8, <1>9

\* The texts of the system, with one message more.
LEMMA ClaudeAppend ==
  ASSUME NEW ms \in Seq(AnyMessage), NEW m \in AnyMessage
  PROVE  /\ Prompts!ClaudeSystem(ms) \in Seq(Nat)
         /\ Prompts!ClaudeSystem(Append(ms, m)) =
               Prompts!ClaudeSystem(ms)
                   \o (IF Prompts!IsSystem(m)
                   THEN Prompts!IdsOf(Prompts!OfType(m.blocks, {"text"})) ELSE <<>>)
<1>1. PICK f : f = [k \in AnyMessage |-> IF Prompts!IsSystem(k)
               THEN Prompts!IdsOf(Prompts!OfType(k.blocks, {"text"}))
                                         ELSE <<>>]
  OBVIOUS
<1>2. f \in [AnyMessage -> Seq(Nat)]
  <2>1. ASSUME NEW k \in AnyMessage
                   PROVE Prompts!IdsOf(Prompts!OfType(k.blocks, {"text"})) \in Seq(Nat)
    BY TextTyped, TypedBlocks, IdsMapped
  <2> QED BY <1>1, <2>1
<1>3. ASSUME NEW ks \in Seq(AnyMessage)
                 PROVE Prompts!ClaudeSystem(ks) = Joined(Mapped(f, ks))
  <2>2. [i \in DOMAIN ks |-> IF Prompts!IsSystem(ks[i])
            THEN Prompts!IdsOf(Prompts!OfType(ks[i].blocks, {"text"}))
                             ELSE <<>>] = Mapped(f, ks)
    BY <1>1 DEF Mapped
  <2> QED BY PromptsJoined, <2>2 DEF Prompts!ClaudeSystem
<1>4. Mapped(f, ms) \in Seq(Seq(Nat))
  BY <1>2, MappedList
<1>5. Joined(Mapped(f, ms)) \in Seq(Nat)
  BY <1>4, JoinedList
<1>6. Mapped(f, Append(ms, m)) = Append(Mapped(f, ms), f[m])
  <2>1. MapsOneMore(f, ms, m)
    BY <1>2, MappedAppend, Zenon
  <2> QED BY <2>1 DEF MapsOneMore
<1>7. f[m] \in Seq(Nat)
  BY <1>2
<1>8. Joined(Append(Mapped(f, ms), f[m])) = Joined(Mapped(f, ms)) \o f[m]
  BY <1>4, <1>7, JoinedAppend
<1>9. Append(ms, m) \in Seq(AnyMessage)
  OBVIOUS
<1>10. Prompts!ClaudeSystem(Append(ms, m)) = Joined(Mapped(f, Append(ms, m)))
  BY <1>3, <1>9
<1>11. Prompts!ClaudeSystem(ms) = Joined(Mapped(f, ms))
  BY <1>3
<1>12. f[m] = IF Prompts!IsSystem(m)
           THEN Prompts!IdsOf(Prompts!OfType(m.blocks, {"text"})) ELSE <<>>
  BY <1>1
<1> QED BY <1>5, <1>6, <1>8, <1>10, <1>11, <1>12

\* The messages as the MiniMax caller makes them.
Flats(ms) == [i \in DOMAIN ms |-> Prompts!Flat(ms[i])]

LEMMA FlatsTyped ==
  ASSUME NEW ms \in Seq(AnyMessage)
  PROVE  Flats(ms) \in Seq(AnyMessage)
<1>1. PICK f : f = [k \in AnyMessage |-> Prompts!Flat(k)]
  OBVIOUS
<1>2. f \in [AnyMessage -> AnyMessage]
  <2>1. \A k \in AnyMessage : Prompts!Flat(k) \in AnyMessage
    BY Flattens
  <2> QED BY <1>1, <2>1
<1>3. Flats(ms) = Mapped(f, ms)
  <2> QED BY <1>1 DEF Flats, Mapped
<1> QED BY <1>2, <1>3, MappedList

LEMMA FlatsAppend ==
  ASSUME NEW ms \in Seq(AnyMessage), NEW m \in AnyMessage
  PROVE  Flats(ms) \in Seq(AnyMessage)
         /\ Flats(Append(ms, m)) = Append(Flats(ms), Prompts!Flat(m))
<1>1. PICK f : f = [k \in AnyMessage |-> Prompts!Flat(k)]
  OBVIOUS
<1>2. f \in [AnyMessage -> AnyMessage]
  <2>1. \A k \in AnyMessage : Prompts!Flat(k) \in AnyMessage
    BY Flattens
  <2> QED BY <1>1, <2>1
<1>3. ASSUME NEW ks \in Seq(AnyMessage) PROVE Flats(ks) = Mapped(f, ks)
  <2> QED BY <1>1 DEF Flats, Mapped
<1>4. Mapped(f, ms) \in Seq(AnyMessage)
  BY <1>2, MappedList
<1>5. Mapped(f, Append(ms, m)) = Append(Mapped(f, ms), f[m])
  <2>1. MapsOneMore(f, ms, m)
    BY <1>2, MappedAppend, Zenon
  <2> QED BY <2>1 DEF MapsOneMore
<1>6. Append(ms, m) \in Seq(AnyMessage)
  OBVIOUS
<1> QED BY <1>1, <1>3, <1>4, <1>5, <1>6

\* A prefix stays one.
LEMMA PrefixStays ==
  ASSUME NEW S, NEW s \in Seq(S), NEW t \in Seq(S), NEW n \in 0..Len(s)
  PROVE  n \in 0..Len(s \o t) /\ SubSeq(s \o t, 1, n) = SubSeq(s, 1, n)
<1>1. PICK r : r = s \o t
  OBVIOUS
<1> QED OBVIOUS

\* All the OpenAI provider sends of what was spoken; the system's first texts are
\* among those that Claude gets; messages of one block, by way of the MiniMax caller.
Shown(ms) == /\ Prompts!Field(Body(ms),
                              "text") = Prompts!IdsOf(Prompts!OfType(Spoken(ms),
                                  {"text"}))
             /\ Prompts!Field(Body(ms),
                              "calls") = Prompts!IdsOf(Prompts!OfType(Spoken(ms),
                                  {"tool_use"}))
             /\ Prompts!Field(Body(ms),
                              "answers") = Prompts!IdsOf(Prompts!OfType(Spoken(ms),
                                  {"tool_result"}))

Prompted(ms) ==
    IF Prompts!System(ms) = <<>> THEN Prompts!ClaudeSystem(ms) = <<>>
    ELSE /\ Prompts!Text(Prompts!System(ms)[1]) # <<>>
         /\ \E n \in 0..Len(Prompts!ClaudeSystem(ms)) :
               Prompts!Text(Prompts!System(ms)[1]) = SubSeq(Prompts!ClaudeSystem(ms), 1,
                   n)

Flattened(ms) ==
    /\ Len(Body(Flats(ms))) = Len(Prompts!NotSystem(ms))
    /\ \A i \in DOMAIN Prompts!NotSystem(ms) :
          Len(Prompts!NotSystem(ms)[i].blocks) = 1 =>
              Body(Flats(ms))[i].text = Prompts!IdsOf(Prompts!NotSystem(ms)[i].blocks)

Kind(m) == \/ Plain(m.role, TypesOf(m.blocks)) \/ Results(m.role, TypesOf(m.blocks))
           \/ FromSystem(m.role, TypesOf(m.blocks))

LEMMA ShownAppend ==
  ASSUME NEW ms \in Seq(AnyMessage), NEW m \in AnyMessage, Kind(m), Shown(ms)
  PROVE  Shown(Append(ms, m))
<1>1. CASE Prompts!IsSystem(m)
  BY <1>1, BodyAppend DEF Shown
<1>2. CASE ~Prompts!IsSystem(m)
  <2>1. Shows(m)
    BY <1>2, PlainShows, ResultsShow DEF Kind, FromSystem, Prompts!IsSystem
  <2>2. PICK b, a, s, bs : /\ b = Body(ms) /\ a = Prompts!ToApi(m) /\ s = Spoken(ms)
                           /\ bs = m.blocks
    OBVIOUS
  <2>3. b \in Seq(Api) /\ a \in Seq(Api) /\ s \in Seq(AnyBlock) /\ bs \in Seq(AnyBlock)
    <3>1. SpokenApi \subseteq Api
      BY DEF SpokenApi
    <3>2. b \in Seq(SpokenApi) /\ s \in Seq(AnyBlock)
      BY <2>2, BodyIs
    <3>3. a \in Seq(SpokenApi)
      BY <1>2, <2>2, ApiOf
    <3>4. bs \in Seq(AnyBlock)
      BY <2>2, TextTyped
    <3> QED BY <3>1, <3>2, <3>3, <3>4
  <2>4. Body(Append(ms, m)) = b \o a /\ Spoken(Append(ms, m)) = s \o bs
    BY <1>2, <2>2, BodyAppend
  <2>5. "text" \in Fields /\ "calls" \in Fields /\ "answers" \in Fields
    BY DEF Fields
  <2>6. Prompts!Field(b \o a, "text") = Prompts!Field(b, "text")
            \o Prompts!Field(a, "text")
    BY <2>3, <2>5, FieldConcat
  <2>7. Prompts!Field(b \o a, "calls") = Prompts!Field(b, "calls")
            \o Prompts!Field(a, "calls")
    BY <2>3, <2>5, FieldConcat
  <2>8. Prompts!Field(b \o a, "answers") = Prompts!Field(b, "answers")
            \o Prompts!Field(a, "answers")
    BY <2>3, <2>5, FieldConcat
  <2>9. /\ Prompts!IdsOf(Prompts!OfType(s \o bs, {"text"}))
             = Prompts!IdsOf(Prompts!OfType(s, {"text"}))
                 \o Prompts!IdsOf(Prompts!OfType(bs, {"text"}))
        /\ Prompts!IdsOf(Prompts!OfType(s \o bs, {"tool_use"}))
             = Prompts!IdsOf(Prompts!OfType(s, {"tool_use"}))
                 \o Prompts!IdsOf(Prompts!OfType(bs, {"tool_use"}))
        /\ Prompts!IdsOf(Prompts!OfType(s \o bs, {"tool_result"}))
             = Prompts!IdsOf(Prompts!OfType(s, {"tool_result"}))
                 \o Prompts!IdsOf(Prompts!OfType(bs, {"tool_result"}))
    BY <2>3, IdsConcat
  <2> QED BY <2>1, <2>2, <2>4, <2>6, <2>7, <2>8, <2>9 DEF Shown, Shows
<1> QED BY <1>1, <1>2

LEMMA PromptedAppend ==
  ASSUME NEW ms \in Seq(AnyMessage), NEW m \in AnyMessage, Kind(m), Prompted(ms)
  PROVE  Prompted(Append(ms, m))
<1>1. PICK c, t, d : /\ c = Prompts!ClaudeSystem(ms) /\ t = Prompts!Text(m)
                     /\ d = IF Prompts!IsSystem(m)
                           THEN Prompts!IdsOf(Prompts!OfType(m.blocks, {"text"}))
                           ELSE <<>>
  OBVIOUS
<1>2. c \in Seq(Nat) /\ Prompts!ClaudeSystem(Append(ms, m)) = c \o d
  BY <1>1, ClaudeAppend
<1>3. Prompts!System(Append(ms, m)) = IF Prompts!IsSystem(m)
          THEN Append(Prompts!System(ms), m) ELSE Prompts!System(ms)
  BY SystemAppend
<1>5. t \in Seq(Nat) /\ m.blocks \in Seq(AnyBlock)
  BY <1>1, TextTyped
<1>6. Prompts!IsSystem(m) => d = t /\ t # <<>>
  <2> SUFFICES ASSUME Prompts!IsSystem(m) PROVE d = t /\ t # <<>>
    OBVIOUS
  <2>1. /\ m.blocks # <<>> /\ \A i \in DOMAIN m.blocks : m.blocks[i].type = "text"
    <3>1. m.blocks = <<>> => TypesOf(m.blocks) = <<>>
      BY DEF TypesOf
    <3> QED BY <3>1 DEF Kind, Plain, Results, FromSystem, Prompts!IsSystem, TypesOf
  <2>2. Prompts!OfType(m.blocks, {"text"}) = m.blocks
    BY <1>5, <2>1, AllOfType
  <2>3. {i \in DOMAIN m.blocks : \/ m.blocks[i].type = "text"
                                 \/ m.blocks[i].type = "string" /\ m.blocks[i].id # 0}
           = {i \in DOMAIN m.blocks : m.blocks[i].type \in {"text"}}
    BY <2>1
  <2>4. t = Prompts!IdsOf(Prompts!OfType(m.blocks, {"text"}))
    BY <1>1, <2>3 DEF Prompts!Text, Prompts!OfType
  <2>5. DOMAIN m.blocks # {}
    BY <1>5, <2>1, SMTT(30)
  <2>6. DOMAIN Prompts!IdsOf(m.blocks) # {}
    BY <2>5 DEF Prompts!IdsOf
  <2> QED BY <1>1, <2>2, <2>4, <2>6
<1>8. CASE Prompts!System(ms) = <<>> /\ ~Prompts!IsSystem(m)
  BY <1>1, <1>2, <1>3, <1>8 DEF Prompted
<1>9. CASE Prompts!System(ms) = <<>> /\ Prompts!IsSystem(m)
  <2>1. c = <<>>
    BY <1>1, <1>9 DEF Prompted
  <2>2. Prompts!ClaudeSystem(Append(ms, m)) = t
    <3> QED BY <1>2, <1>6, <1>9, <2>1
  <2>3. Prompts!System(Append(ms, m)) = <<m>>
    BY <1>3, <1>9
  <2>4. Prompts!System(Append(ms, m)) # <<>> /\ Prompts!System(Append(ms, m))[1] = m
    BY <2>3
  <2>5. Len(t) \in 0..Len(t) /\ SubSeq(t, 1, Len(t)) = t
    BY <1>5
  <2> QED BY <1>1, <1>6, <1>9, <2>2, <2>4, <2>5 DEF Prompted
<1>10. CASE Prompts!System(ms) # <<>>
  <2>1. Prompts!System(Append(ms, m)) # <<>>
        /\ Prompts!System(Append(ms, m))[1] = Prompts!System(ms)[1]
    BY <1>3, <1>10
  <2>2. PICK n \in 0..Len(c) : Prompts!Text(Prompts!System(ms)[1]) = SubSeq(c, 1, n)
    BY <1>1, <1>10 DEF Prompted
  <2>3. n \in 0..Len(c \o d) /\ SubSeq(c \o d, 1, n) = SubSeq(c, 1, n)
    OBVIOUS
  <2>4. Prompts!Text(Prompts!System(ms)[1]) # <<>>
    BY <1>10 DEF Prompted
  <2> QED BY <1>2, <2>1, <2>2, <2>3, <2>4 DEF Prompted
<1> QED BY <1>8, <1>9, <1>10

LEMMA FlattenedAppend ==
  ASSUME NEW ms \in Seq(AnyMessage), NEW m \in AnyMessage, Kind(m), Flattened(ms),
         \A i \in DOMAIN m.blocks : m.blocks[i].id # 0
  PROVE  Flattened(Append(ms, m))
<1>1. PICK b, r, f : b = Body(Flats(ms)) /\ r = Prompts!NotSystem(ms)
           /\ f = Prompts!Flat(m)
  OBVIOUS
<1>2. /\ Flats(ms) \in Seq(AnyMessage) /\ Flats(Append(ms, m)) = Append(Flats(ms), f)
      /\ f \in AnyMessage
  BY <1>1, FlatsAppend, Flattens
<1>4. Body(Flats(Append(ms, m))) = IF Prompts!IsSystem(f) THEN b ELSE b
          \o Prompts!ToApi(f)
  BY <1>1, <1>2, BodyAppend
<1>5. Prompts!NotSystem(Append(ms, m)) = IF Prompts!IsSystem(m) THEN r ELSE Append(r, m)
  BY <1>1, SystemAppend
<1>6. Prompts!IsSystem(f) <=> Prompts!IsSystem(m)
  BY <1>1, Flattens DEF Kind, Plain, Results, FromSystem, Prompts!IsSystem
<1>7. CASE Prompts!IsSystem(m)
  BY <1>1, <1>4, <1>5, <1>6, <1>7 DEF Flattened
<1>8. CASE ~Prompts!IsSystem(m)
  <2>1. m \in SpokenMessage /\ m.blocks \in Seq(AnyBlock)
    BY <1>8, TextTyped DEF SpokenMessage
  <2>2. PICK id : id = IF Len(m.blocks) = 1 THEN m.blocks[1].id ELSE 0
    OBVIOUS
  <2>3. f.blocks = <<[type |-> "string", id |-> id]>>
    BY <1>1, <2>2, Flattens
  <2>4. id \in Nat /\ (Len(m.blocks) = 1 => id # 0 /\ Prompts!IdsOf(m.blocks) = <<id>>)
    <3>1. DOMAIN m.blocks = 1..Len(m.blocks)
          /\ \A i \in DOMAIN m.blocks : m.blocks[i] \in AnyBlock
      BY <2>1
    <3>2. Len(m.blocks) = 1 => id \in Nat /\ id # 0
      BY <2>2, <3>1 DEF AnyBlock
    <3>3. Len(m.blocks) = 1 => Prompts!IdsOf(m.blocks) = <<id>>
      BY <2>2 DEF Prompts!IdsOf
    <3> QED BY <2>2, <3>2, <3>3
  <2>5. PICK a \in SpokenApi : Prompts!ToApi(f) = <<a>>
             /\ (id # 0 => a.text = Prompts!IdsOf(f.blocks))
    BY <1>2, <1>6, <1>8, <2>3, <2>4, StringShown
  <2>6. Prompts!IdsOf(f.blocks) = <<id>>
    BY <2>3 DEF Prompts!IdsOf
  <2>7. Len(m.blocks) = 1 => a.text = Prompts!IdsOf(m.blocks)
    BY <2>4, <2>5, <2>6
  <2>9. Body(Flats(Append(ms, m))) = Append(b, a)
        /\ Prompts!NotSystem(Append(ms, m)) = Append(r, m)
    BY <1>4, <1>5, <1>6, <1>8, <2>5
  <2>10. PICK n : n = Len(r)
    OBVIOUS
  <2>11. /\ n \in Nat /\ Len(b) = n /\ DOMAIN r = 1..n
         /\ \A i \in 1..n : Len(r[i].blocks) = 1 =>
               b[i].text = Prompts!IdsOf(r[i].blocks)
    BY <1>1, <2>10 DEF Flattened
  <2>12. PICK bb, rr : bb = Append(b, a) /\ rr = Append(r, m)
    OBVIOUS
  <2>13. /\ Len(bb) = n + 1 /\ Len(rr) = n + 1 /\ DOMAIN rr = 1..(n + 1)
         /\ bb[n + 1] = a /\ rr[n + 1] = m
         /\ \A i \in 1..n : bb[i] = b[i] /\ rr[i] = r[i]
    BY <2>1, <2>11, <2>12
  <2>15. \A i \in DOMAIN rr : Len(rr[i].blocks) = 1 =>
             bb[i].text = Prompts!IdsOf(rr[i].blocks)
    BY <2>7, <2>11, <2>13
  <2> QED BY <2>9, <2>12, <2>13, <2>15 DEF Flattened
<1> QED BY <1>7, <1>8

LEMMA NothingShown == Shown(<<>>) /\ Prompted(<<>>) /\ Flattened(<<>>)
<1>1. Prompts!System(<<>>) = <<>> /\ Prompts!NotSystem(<<>>) = <<>>
      /\ Flats(<<>>) = <<>>
  <2>1. Picked(<<>>, {}) = <<>>
    BY PickedNone
  <2>3. Flats(<<>>) = <<>>
    BY DEF Flats
  <2> QED BY PromptsPicked, <2>1, <2>3 DEF Prompts!System, Prompts!NotSystem
<1>2. Body(<<>>) = <<>> /\ Spoken(<<>>) = <<>> /\ Prompts!ClaudeSystem(<<>>) = <<>>
  <2>1. Body(<<>>) = <<>>
    BY <1>1, JoinedEmpty DEF Body
  <2>2. Spoken(<<>>) = <<>>
    BY <1>1, JoinedEmpty DEF Spoken
  <2>3. Prompts!ClaudeSystem(<<>>) = <<>>
    BY PromptsJoined, JoinedEmpty DEF Prompts!ClaudeSystem
  <2> QED BY <2>1, <2>2, <2>3
<1>3. ASSUME NEW f PROVE Prompts!Field(<<>>, f) = <<>>
  <2> QED BY PromptsJoined, JoinedEmpty DEF Prompts!Field
<1>4. ASSUME NEW T PROVE Prompts!IdsOf(Prompts!OfType(<<>>, T)) = <<>>
  BY NoneOfType
<1>5. Shown(<<>>)
  BY <1>2, <1>3, <1>4 DEF Shown
<1>6. Prompted(<<>>)
  BY <1>1, <1>2 DEF Prompted
<1>7. Flattened(<<>>)
  BY <1>1, <1>2 DEF Flattened
<1> QED BY <1>5, <1>6, <1>7

\* Every shape is of one of the kinds.
LEMMA ShapeKinds ==
  ASSUME NEW s \in Prompts!Shapes
  PROVE  Plain(s.role, s.types) \/ Results(s.role, s.types)
         \/ FromSystem(s.role, s.types)
<1>1. s = Prompts!Shape("system", <<"text", "text">>) => FromSystem(s.role, s.types)
  BY DEF Prompts!Shape, FromSystem
<1>2. s = Prompts!Shape("system", <<"text">>) => FromSystem(s.role, s.types)
  BY DEF Prompts!Shape, FromSystem
<1>3. s = Prompts!Shape("user", <<"text">>) => Plain(s.role, s.types)
  BY DEF Prompts!Shape, Plain
<1>4. s = Prompts!Shape("assistant", <<"text">>) => Plain(s.role, s.types)
  BY DEF Prompts!Shape, Plain
<1>5. s = Prompts!Shape("user", <<"tool_result">>) => Results(s.role, s.types)
  BY DEF Prompts!Shape, Results
<1>6. s = Prompts!Shape("assistant", <<"tool_use">>) => Plain(s.role, s.types)
  BY DEF Prompts!Shape, Plain
<1>7. s = Prompts!Shape("assistant", <<"text", "tool_use", "tool_use">>) =>
          Plain(s.role, s.types)
  BY DEF Prompts!Shape, Plain
<1>8. s = Prompts!Shape("tool", <<"tool_result", "tool_result">>) =>
          Results(s.role, s.types)
  BY DEF Prompts!Shape, Results
<1> HIDE DEF Prompts!Shape
<1> QED BY <1>1, <1>2, <1>3, <1>4, <1>5, <1>6, <1>7, <1>8 DEF Prompts!Shapes

PromptsInv == /\ blocksSaid \in Nat /\ conversation \in Seq(MessageOf(blocksSaid))
              /\ Len(conversation) <= MaxMessages
              /\ Shown(conversation) /\ Prompted(conversation)
              /\ Flattened(conversation)

LEMMA MessagesTyped ==
  ASSUME NEW n \in Nat
  PROVE  Seq(MessageOf(n)) \subseteq Seq(AnyMessage)
<1>1. BlockOf(n) \subseteq AnyBlock
  BY DEF BlockOf, AnyBlock
<1>2. MessageOf(n) \subseteq AnyMessage
  <2> SUFFICES ASSUME NEW m \in MessageOf(n) PROVE m \in AnyMessage
    OBVIOUS
  <2>1. m.blocks \in Seq(AnyBlock)
    BY <1>1 DEF MessageOf
  <2> QED BY <2>1 DEF MessageOf, AnyMessage
<1> QED BY <1>2

LEMMA PromptsTypes == PromptsInv => Prompts!TypeOK
<1> SUFFICES ASSUME PromptsInv PROVE Prompts!TypeOK
  OBVIOUS
<1>1. conversation \in Seq(MessageOf(blocksSaid)) /\ Len(conversation) <= MaxMessages
  BY DEF PromptsInv
<1>2. ASSUME NEW i \in DOMAIN conversation
      PROVE  /\ conversation[i].role \in {"system", "user", "assistant", "tool"}
             /\ \A b \in Prompts!Range(conversation[i].blocks) : b.id \in 1..blocksSaid
  <2>1. conversation[i] \in MessageOf(blocksSaid)
    BY <1>1
  <2>2. conversation[i].role \in Roles
        /\ conversation[i].blocks \in Seq(BlockOf(blocksSaid))
    BY <2>1 DEF MessageOf
  <2>4. \A b \in BlockOf(blocksSaid) : b.id \in 1..blocksSaid
    BY DEF BlockOf
  <2> QED BY <2>2, <2>4 DEF Prompts!Range, Roles
<1> QED BY <1>1, <1>2 DEF Prompts!TypeOK

LEMMA PromptsInit == Prompts!Init => PromptsInv
BY PromptsAssumption, NothingShown DEF Prompts!Init, PromptsInv


LEMMA PromptsNext == ASSUME PromptsInv, [Prompts!Next]_promptsVars PROVE PromptsInv'
<1>1. ASSUME Prompts!Say PROVE PromptsInv'
  <2>1. PICK s \in Prompts!Shapes :
           /\ conversation' = Append(conversation,
                  [role |-> s.role,
                   blocks |-> [i \in DOMAIN s.types |->
                                  [type |-> s.types[i], id |-> blocksSaid + i]]])
           /\ blocksSaid' = blocksSaid + Len(s.types)
    BY <1>1 DEF Prompts!Say
  <2>2. s.role \in Roles /\ s.types \in Seq(BlockTypes) /\ Len(s.types) \in Nat
        /\ DOMAIN s.types = 1..Len(s.types)
    BY ShapesAreKnown
  <2>3. blocksSaid \in Nat /\ blocksSaid' \in Nat /\ blocksSaid <= blocksSaid'
    BY <2>1 DEF PromptsInv
  <2>4. conversation \in Seq(MessageOf(blocksSaid'))
    BY <2>3, OldMessages DEF PromptsInv
  <2>5. PICK bs, m : /\ bs = [i \in DOMAIN s.types |-> [type |-> s.types[i],
                                                        id |-> blocksSaid + i]]
                     /\ m = [role |-> s.role, blocks |-> bs]
    OBVIOUS
  <2>6. bs \in Seq(BlockOf(blocksSaid'))
    BY <2>1, <2>2, <2>3, <2>5, NewBlocks
  <2>7. m \in MessageOf(blocksSaid')
    BY <2>2, <2>5, <2>6 DEF MessageOf
  <2>8. conversation' \in Seq(MessageOf(blocksSaid'))
        /\ Len(conversation') = Len(conversation) + 1
        /\ conversation' = Append(conversation, m)
    BY <2>1, <2>4, <2>5, <2>7
  <2>9. Len(conversation') <= MaxMessages
    BY <1>1, PromptsAssumption DEF Prompts!Say
  <2>10. conversation \in Seq(AnyMessage) /\ m \in AnyMessage
    <3>1. <<>> \in Seq(MessageOf(blocksSaid'))
          /\ Append(<<>>, m) \in Seq(MessageOf(blocksSaid'))
      BY <2>7
    <3>2. Append(<<>>, m) \in Seq(AnyMessage) /\ conversation \in Seq(AnyMessage)
      BY <2>3, <2>4, <3>1, MessagesTyped
    <3> QED BY <3>2
  <2>11. TypesOf(m.blocks) = s.types
    <3>1. m.blocks = bs /\ DOMAIN bs = DOMAIN s.types
          /\ \A i \in DOMAIN bs : bs[i].type = s.types[i]
      BY <2>5
    <3>2. [i \in DOMAIN s.types |-> s.types[i]] = s.types
      BY <2>2
    <3> QED BY <3>1, <3>2 DEF TypesOf
  <2>12. Kind(m)
    BY <2>5, <2>11, ShapeKinds DEF Kind
  <2>13. \A i \in DOMAIN m.blocks : m.blocks[i].id # 0
    BY <2>2, <2>3, <2>5
  <2>14. Shown(conversation') /\ Prompted(conversation') /\ Flattened(conversation')
    BY <2>8, <2>10, <2>12, <2>13, ShownAppend, PromptedAppend, FlattenedAppend
       DEF PromptsInv
  <2> QED BY <2>3, <2>8, <2>9, <2>14 DEF PromptsInv
<1>2. ASSUME UNCHANGED promptsVars PROVE PromptsInv'
  BY <1>2 DEF promptsVars, PromptsInv
<1> QED BY <1>1, <1>2 DEF Prompts!Next

\* Both providers show the same conversation.
LEMMA ConversationIsTheSame == PromptsInv => Prompts!SameConversation
<1> SUFFICES ASSUME PromptsInv PROVE Prompts!SameConversation
  OBVIOUS
<1>1. PICK ms : ms = conversation
  OBVIOUS
<1>2. ms \in Seq(AnyMessage) /\ Flats(ms) \in Seq(AnyMessage)
  <2>1. ms \in Seq(AnyMessage)
    BY <1>1, MessagesTyped DEF PromptsInv
  <2> QED BY <2>1, FlatsTyped
<1>3. /\ Prompts!System(Prompts!ToOpenAI(ms)) = FirstPrompt(ms)
      /\ Prompts!NotSystem(Prompts!ToOpenAI(ms)) = Body(ms)
      /\ Prompts!NotSystem(Prompts!ToOpenAI(Flats(ms))) = Body(Flats(ms))
  BY <1>2, SystemPartsOf
<1>4. Prompts!NotSystem(Prompts!ToMiniMax(ms)) = Body(Flats(ms))
  BY <1>3 DEF Prompts!ToMiniMax, Flats
<1>5. /\ DOMAIN Prompts!ToClaude(ms) = DOMAIN Prompts!NotSystem(ms)
      /\ [i \in DOMAIN Prompts!ToClaude(ms) |-> Prompts!ToClaude(ms)[i].blocks]
            = [i \in DOMAIN Prompts!NotSystem(ms) |-> Prompts!NotSystem(ms)[i].blocks]
  BY DEF Prompts!ToClaude
<1>6. Joined([i \in DOMAIN Prompts!ToClaude(ms) |-> Prompts!ToClaude(ms)[i].blocks])
         = Spoken(ms)
  BY <1>5 DEF Spoken
<1>7. PICK prompt : prompt = Prompts!Field(Prompts!System(Prompts!ToOpenAI(ms)), "text")
  OBVIOUS
<1>8. /\ Prompts!System(ms) = <<>> => prompt = <<>>
      /\ Prompts!System(ms) # <<>> => prompt = Prompts!Text(Prompts!System(ms)[1])
  BY <1>2, <1>7, SystemPartsOf
<1>9. \E n \in 0..Len(Prompts!ClaudeSystem(ms)) :
         prompt = SubSeq(Prompts!ClaudeSystem(ms), 1, n)
  <2>1. Prompted(ms)
    BY <1>1 DEF PromptsInv
  <2>2. CASE Prompts!System(ms) = <<>>
    <3> QED BY <1>8, <2>2
  <2>3. CASE Prompts!System(ms) # <<>>
    BY <1>8, <2>1, <2>3 DEF Prompted
  <2> QED BY <2>2, <2>3
<1>10. (\E m \in Prompts!Range(ms) : Prompts!IsSystem(m)) => prompt # <<>>
  <2>1. Prompted(ms)
    BY <1>1 DEF PromptsInv
  <2> QED BY <1>2, <1>8, <2>1, NotSystemSpoken DEF Prompted
<1>11. Len(Prompts!NotSystem(Prompts!ToMiniMax(ms))) = Len(Prompts!ToClaude(ms))
  <2>2. DOMAIN Prompts!ToClaude(ms) = 1..Len(Prompts!NotSystem(ms))
        /\ Len(Prompts!NotSystem(ms)) \in Nat
    BY <1>5
  <2>3. Len(Prompts!ToClaude(ms)) = Len(Prompts!NotSystem(ms))
    BY <2>2
  <2> QED BY <1>1, <1>4, <2>3 DEF PromptsInv, Flattened
<1>12. \A i \in DOMAIN Prompts!NotSystem(ms) : Len(Prompts!NotSystem(ms)[i].blocks) = 1 =>
          Prompts!NotSystem(Prompts!ToMiniMax(ms))[i].text
              = Prompts!IdsOf(Prompts!NotSystem(ms)[i].blocks)
  BY <1>1, <1>4 DEF PromptsInv, Flattened
<1>13. Shown(ms)
  BY <1>1 DEF PromptsInv
<1> QED BY PromptsJoined, <1>1, <1>3, <1>6, <1>7, <1>9, <1>10, <1>11, <1>12, <1>13
     DEF Prompts!SameConversation, Shown
-----------------------------------------------------------------------------
\* Tool calls from a stream (ProviderStreams).
LEMMA StreamsPicked == ASSUME NEW s, NEW I PROVE Streams!Picked(s, I) = Picked(s, I)
BY DEF Streams!Picked, Picked, Streams!Nth, Nth, Streams!Rank, Rank,
       Streams!Cardinality, Cardinality

First(n) == [k \in 1..n |-> k]

PendingCall == [block : Blocks, pieces : Seq(1..Pieces)]
GivenCall == [block : Blocks, input : Streams!Inputs]
SentCall == [step : Streams!Steps, pieces : 0..Pieces, untyped : BOOLEAN]

\* A pending call is one that was started, and the pieces that are kept of it are those
\* that were sent, as long as each came with the type; otherwise there are fewer.
AsSent(p, r) == /\ r.step = "started"
                /\ ~r.untyped => p.pieces = First(r.pieces)
                /\ r.untyped => Len(p.pieces) < r.pieces

PendingOK == /\ pendingBlocks \in Seq(PendingCall)
             /\ \A i \in DOMAIN pendingBlocks : AsSent(pendingBlocks[i],
                                                       sent[pendingBlocks[i].block])
             /\ \A i, j \in DOMAIN pendingBlocks :
                   pendingBlocks[i].block = pendingBlocks[j].block => i = j
             /\ \A b \in Blocks :
                   sent[b].step = "started" =>
                       \E i \in DOMAIN pendingBlocks : pendingBlocks[i].block = b

\* Claude hands a call over when it stops, OpenAI all of them at the end.
GivenOK == /\ given \in Seq(GivenCall)
           /\ provider = "openai" => /\ \A b \in Blocks : sent[b].step # "stopped"
                                     /\ outcome # "done" => given = <<>>
           /\ provider = "claude" =>
                 /\ \A b \in Blocks : ~sent[b].untyped
                 /\ \A i \in DOMAIN given : sent[given[i].block].step = "stopped"
                 /\ \A b \in Blocks : sent[b].step = "stopped"
                                      => \E i \in DOMAIN given : given[i].block = b
           /\ outcome = "error_done" => provider = "openai"

UnsentOK == \A b \in Blocks : sent[b].step = "unsent" => sent[b] = Streams!Unsent

StreamsInv == /\ provider \in {"claude", "openai"}
              /\ outcome \in {"streaming", "done", "error_done", "thrown"}
              /\ sent \in [Blocks -> SentCall]
              /\ UnsentOK /\ PendingOK /\ GivenOK /\ Streams!CallsAreWhole

LEMMA ListOfValues ==
  ASSUME NEW S, NEW n \in Nat, NEW f, f = [k \in 1..n |-> f[k]],
         \A k \in 1..n : f[k] \in S
  PROVE  f \in Seq(S) /\ Len(f) = n
OBVIOUS

\* One piece more.
LEMMA FirstOnes ==
  ASSUME NEW n \in 0..Pieces
  PROVE  /\ First(n) \in Seq(1..Pieces) /\ Len(First(n)) = n
         /\ n < Pieces => Append(First(n), n + 1) = First(n + 1)
<1>2. \A k \in 1..n : k \in 1..Pieces /\ First(n)[k] = k
  BY StreamsAssumption DEF First
<1>3. First(n) = [k \in 1..n |-> First(n)[k]]
  BY DEF First
<1>4. PICK f, S : f = First(n) /\ S = 1..Pieces
  OBVIOUS
<1>5. First(n) \in Seq(1..Pieces) /\ Len(First(n)) = n
  <2>1. f = [k \in 1..n |-> f[k]] /\ \A k \in 1..n : f[k] \in S
    BY <1>2, <1>3, <1>4
  <2>2. f \in Seq(S) /\ Len(f) = n
    BY <2>1
  <2> QED BY <1>4, <2>2
<1>7. ASSUME n < Pieces PROVE Append(First(n), n + 1) = First(n + 1)
  <2>1. PICK s \in Seq(1..Pieces) : s = First(n)
    BY <1>5
  <2> QED BY DEF First
<1> QED BY <1>5, <1>7

LEMMA StreamsTypes == StreamsInv => Streams!TypeOK
BY DEF StreamsInv, PendingOK, GivenOK, Streams!TypeOK, PendingCall, GivenCall, SentCall

LEMMA StreamsInit == Streams!Init => StreamsInv
<1> SUFFICES ASSUME Streams!Init PROVE StreamsInv
  OBVIOUS
<1>1. /\ provider \in {"claude", "openai"} /\ sent = [b \in Blocks |-> Streams!Unsent]
      /\ pendingBlocks = <<>>
      /\ given = <<>> /\ outcome = "streaming"
  BY DEF Streams!Init
<1>2. Streams!Unsent \in SentCall /\ Streams!Unsent.step = "unsent"
      /\ Streams!Unsent.untyped = FALSE
  BY StreamsAssumption DEF Streams!Unsent, Streams!Steps, SentCall
<1>3. sent \in [Blocks -> SentCall]
      /\ \A b \in Blocks : sent[b].step = "unsent" /\ sent[b].untyped = FALSE
  BY <1>1, <1>2
<1>4. PendingOK
  BY <1>1, <1>3 DEF PendingOK
<1>5. GivenOK
  BY <1>1, <1>3 DEF GivenOK
<1>6. Streams!CallsAreWhole
  BY <1>1 DEF Streams!CallsAreWhole
<1>7. UnsentOK
  BY <1>1 DEF UnsentOK
<1> QED BY <1>1, <1>3, <1>4, <1>5, <1>6, <1>7 DEF StreamsInv

\* The pieces that are kept are the whole exactly when all were sent, with the type in
\* each.
LEMMA WholeIsParsed ==
  ASSUME StreamsInv, NEW i \in DOMAIN pendingBlocks
  PROVE  /\ Streams!Call(pendingBlocks[i]) \in GivenCall
         /\ Streams!Call(pendingBlocks[i]).block = pendingBlocks[i].block
         /\ Streams!Call(pendingBlocks[i]).input = "parsed"
               <=> Streams!Complete(pendingBlocks[i].block)
<1> DEFINE p == pendingBlocks[i]
           b == pendingBlocks[i].block
<1>1. p \in PendingCall /\ AsSent(p, sent[b])
  <2> QED BY DEF StreamsInv, PendingOK
<1>2. b \in Blocks /\ p.pieces \in Seq(1..Pieces)
  BY <1>1 DEF PendingCall
<1>3. sent[b] \in SentCall
  BY <1>2 DEF StreamsInv
<1>4. sent[b].pieces \in 0..Pieces /\ sent[b].untyped \in BOOLEAN
  BY <1>3 DEF SentCall
<1>5. Streams!Input(p.pieces) \in Streams!Inputs /\ (Streams!Input(p.pieces) = "parsed"
          <=> p.pieces = Streams!Whole)
  BY DEF Streams!Input, Streams!Inputs
<1>6. Streams!Call(p).block = b /\ Streams!Call(p).input = Streams!Input(p.pieces)
      /\ Streams!Call(p) = [block |-> b, input |-> Streams!Input(p.pieces)]
  BY DEF Streams!Call
<1>7. Streams!Whole = First(Pieces) /\ Len(Streams!Whole) = Pieces
  BY StreamsAssumption DEF Streams!Whole, First
<1>8. \A n \in 0..Pieces : First(n) = First(Pieces) => n = Pieces
  <2> SUFFICES ASSUME NEW n \in 0..Pieces, First(n) = First(Pieces) PROVE n = Pieces
    OBVIOUS
  <2>1. Len(First(n)) = n /\ Len(First(Pieces)) = Pieces
    BY StreamsAssumption DEF First
  <2> QED BY <2>1
<1>9. p.pieces = Streams!Whole <=> sent[b].pieces = Pieces /\ ~sent[b].untyped
  <2>1. CASE ~sent[b].untyped
    <3>1. p.pieces = First(sent[b].pieces)
      BY <1>1, <2>1 DEF AsSent
    <3> QED BY <1>4, <1>7, <1>8, <2>1, <3>1
  <2>2. CASE sent[b].untyped
    <3>1. Len(p.pieces) < sent[b].pieces
      BY <1>1, <2>2 DEF AsSent
    <3>2. Len(p.pieces) # Pieces
      BY <1>4, <3>1
    <3> QED BY <1>7, <2>2, <3>2
  <2> QED BY <2>1, <2>2
<1> HIDE DEF p, b
<1>10. Streams!Call(p) \in GivenCall /\ Streams!Call(p).block = b
       /\ (Streams!Call(p).input = "parsed"
             <=> sent[b].pieces = Pieces /\ ~sent[b].untyped)
  BY <1>2, <1>5, <1>6, <1>9 DEF GivenCall
<1> QED BY <1>10 DEF p, b, Streams!Complete

\* A call that is started is the last one pending.
LEMMA StartsKeep ==
  ASSUME StreamsInv, outcome = "streaming", NEW b \in Blocks, sent[b].step = "unsent",
         NEW n \in 0..Pieces, ~sent[b].untyped,
         sent' = [sent EXCEPT ![b].step = "started", ![b].pieces = n],
         pendingBlocks' = Append(pendingBlocks, [block |-> b, pieces |-> First(n)]),
         UNCHANGED <<provider, given, outcome>>
  PROVE  StreamsInv'
<1>1. /\ sent \in [Blocks -> SentCall]
      /\ provider \in {"claude", "openai"} /\ PendingOK /\ GivenOK
      /\ Streams!CallsAreWhole
  BY DEF StreamsInv
<1>2. sent[b] \in SentCall
  BY <1>1
<1>3. PICK r : r = [sent[b] EXCEPT !.step = "started", !.pieces = n]
  OBVIOUS
<1>4. /\ r \in SentCall
      /\ r.step = "started" /\ r.pieces = n /\ r.untyped = sent[b].untyped
  BY <1>2, <1>3 DEF Streams!Steps, SentCall
<1>5. /\ sent' \in [Blocks -> SentCall]
      /\ sent'[b] = r /\ \A c \in Blocks : c # b => sent'[c] = sent[c]
  <2>1. sent' = [sent EXCEPT ![b] = r]
    BY <1>3
  <2> QED BY <1>1, <1>4, <2>1
<1>6. PICK p : p = [block |-> b, pieces |-> First(n)]
  OBVIOUS
<1>7. p.block = b /\ p.pieces = First(n) /\ First(n) \in Seq(1..Pieces)
  <2>1. First(n) \in Seq(1..Pieces)
    BY FirstOnes
  <2> QED BY <1>6, <2>1
<1>8. p \in PendingCall
  BY <1>6, <1>7 DEF PendingCall
<1>9. /\ pendingBlocks \in Seq(PendingCall) /\ Len(pendingBlocks) \in Nat
      /\ \A i \in DOMAIN pendingBlocks : pendingBlocks[i].block \in Blocks
  <2>1. pendingBlocks \in Seq(PendingCall)
    BY <1>1 DEF PendingOK
  <2>2. \A i \in DOMAIN pendingBlocks : pendingBlocks[i] \in PendingCall
    BY <2>1
  <2>3. \A i \in DOMAIN pendingBlocks : pendingBlocks[i].block \in Blocks
    BY <2>2 DEF PendingCall
  <2> QED BY <2>1, <2>3
<1>10. /\ pendingBlocks' \in Seq(PendingCall)
       /\ pendingBlocks'[Len(pendingBlocks) + 1] = p
       /\ Len(pendingBlocks) + 1 \in DOMAIN pendingBlocks'
       /\ \A i \in DOMAIN pendingBlocks : i \in DOMAIN pendingBlocks'
          /\ pendingBlocks'[i] = pendingBlocks[i]
       /\ \A i \in DOMAIN pendingBlocks' : i \in DOMAIN pendingBlocks
          \/ i = Len(pendingBlocks) + 1
  BY <1>6, <1>8, <1>9
<1>11. \A i \in DOMAIN pendingBlocks : pendingBlocks[i].block # b
  BY <1>1 DEF PendingOK, AsSent
<1>12. PendingOK'
  <2>1. \A i \in DOMAIN pendingBlocks' : AsSent(pendingBlocks'[i],
                                                sent'[pendingBlocks'[i].block])
    <3> SUFFICES ASSUME NEW i \in DOMAIN pendingBlocks'
                            PROVE AsSent(pendingBlocks'[i],
                                         sent'[pendingBlocks'[i].block])
      OBVIOUS
    <3>1. CASE i \in DOMAIN pendingBlocks
      <4>1. AsSent(pendingBlocks[i], sent[pendingBlocks[i].block])
            /\ sent'[pendingBlocks[i].block] = sent[pendingBlocks[i].block]
        BY <1>1, <1>9, <1>11, <3>1 DEF PendingOK
      <4> QED BY <3>1, <4>1 DEF AsSent
    <3>2. CASE i = Len(pendingBlocks) + 1
      BY <1>4, <1>5, <1>10, <3>2 DEF AsSent
    <3> QED BY <3>1, <3>2
  <2>2. \A i, j \in DOMAIN pendingBlocks' :
        pendingBlocks'[i].block = pendingBlocks'[j].block => i = j
    BY <1>1, <1>11 DEF PendingOK
  <2>3. \A c \in Blocks : sent'[c].step = "started" =>
            \E i \in DOMAIN pendingBlocks' : pendingBlocks'[i].block = c
    <3> SUFFICES ASSUME NEW c \in Blocks, sent'[c].step = "started"
                 PROVE  \E i \in DOMAIN pendingBlocks' : pendingBlocks'[i].block = c
      OBVIOUS
    <3>1. CASE c = b
      BY <3>1
    <3>2. CASE c # b
      <4>1. PICK i \in DOMAIN pendingBlocks : pendingBlocks[i].block = c
        BY <1>1, <3>2 DEF PendingOK
      <4> QED BY <4>1
    <3> QED BY <3>1, <3>2
  <2> QED BY <1>10, <2>1, <2>2, <2>3 DEF PendingOK
<1>13. \A i \in DOMAIN given : given[i].block \in Blocks /\ given[i].block # b
  <2>0. given \in Seq(GivenCall)
    BY <1>1 DEF GivenOK
  <2>1. \A i \in DOMAIN given : given[i].block \in Blocks
    <3>1. \A i \in DOMAIN given : given[i] \in GivenCall
      BY <2>0
    <3> QED BY <3>1 DEF GivenCall
  <2>2. \A i \in DOMAIN given : sent[given[i].block].step # "unsent"
    BY <1>1 DEF Streams!CallsAreWhole
  <2> QED BY <2>1, <2>2
<1>14. GivenOK'
  BY <1>1, <1>13 DEF GivenOK
<1>15. Streams!CallsAreWhole'
  BY <1>1, <1>13 DEF Streams!CallsAreWhole, Streams!Complete
<1>16. UnsentOK'
  BY DEF StreamsInv, UnsentOK
<1> QED BY <1>5, <1>12, <1>14, <1>15, <1>16 DEF StreamsInv

\* A piece goes to the call that it is of.
LEMMA PiecesKeep ==
  ASSUME StreamsInv, outcome = "streaming", NEW b \in Blocks, sent[b].step = "started",
         sent[b].pieces < Pieces, NEW typed \in BOOLEAN, provider = "claude" => typed,
         NEW r \in SentCall, r.step = "started", r.pieces = sent[b].pieces + 1,
         r.untyped <=> (sent[b].untyped \/ ~typed), sent' = [sent EXCEPT ![b] = r],
         pendingBlocks' = IF typed THEN Streams!Kept(b, sent[b].pieces + 1)
             ELSE pendingBlocks,
         UNCHANGED <<provider, given, outcome>>
  PROVE  StreamsInv'
<1>1. /\ sent \in [Blocks -> SentCall]
      /\ provider \in {"claude", "openai"} /\ PendingOK /\ GivenOK
      /\ Streams!CallsAreWhole
  BY DEF StreamsInv
<1>2. sent[b] \in SentCall
  BY <1>1
<1>3. sent[b].pieces \in 0..Pieces /\ sent[b].pieces \in Nat
      /\ sent[b].pieces + 1 \in 1..Pieces
  BY <1>2 DEF SentCall
<1>4. /\ sent' \in [Blocks -> SentCall] /\ sent'[b] = r
      /\ \A c \in Blocks : c # b => sent'[c] = sent[c]
  BY <1>1
<1>5. /\ pendingBlocks \in Seq(PendingCall) /\ Len(pendingBlocks) \in Nat
      /\ DOMAIN pendingBlocks = 1..Len(pendingBlocks)
      /\ \A i \in DOMAIN pendingBlocks : pendingBlocks[i] \in PendingCall
  <2>1. pendingBlocks \in Seq(PendingCall)
    BY <1>1 DEF PendingOK
  <2> QED BY <2>1
<1>6. \A i \in DOMAIN pendingBlocks : pendingBlocks[i].block \in Blocks
      /\ pendingBlocks[i].pieces \in Seq(1..Pieces)
  BY <1>5 DEF PendingCall
<1>7. ASSUME NEW i \in DOMAIN pendingBlocks, pendingBlocks[i].block = b
      PROVE  LET q == [pendingBlocks[i] EXCEPT !.pieces = Append(@, sent[b].pieces + 1)]
             IN  q \in PendingCall /\ q.block = b /\ (typed => AsSent(q, r))
                 /\ (~typed => AsSent(pendingBlocks[i], r))
  <2>1. PICK q : q = [pendingBlocks[i] EXCEPT !.pieces = Append(@, sent[b].pieces + 1)]
    OBVIOUS
  <2>2. pendingBlocks[i] \in PendingCall /\ pendingBlocks[i].pieces \in Seq(1..Pieces)
        /\ AsSent(pendingBlocks[i], sent[b])
    BY <1>1, <1>6, <1>7 DEF PendingOK
  <2>3. Append(pendingBlocks[i].pieces, sent[b].pieces + 1) \in Seq(1..Pieces)
        /\ Len(Append(pendingBlocks[i].pieces,
                      sent[b].pieces + 1)) = Len(pendingBlocks[i].pieces) + 1
        /\ Len(pendingBlocks[i].pieces) \in Nat
    BY <1>3, <2>2
  <2>4. q \in PendingCall /\ q.block = b
        /\ q.pieces = Append(pendingBlocks[i].pieces, sent[b].pieces + 1)
    BY <1>7, <2>1, <2>2, <2>3 DEF PendingCall
  <2>5. /\ First(sent[b].pieces + 1) = Append(First(sent[b].pieces), sent[b].pieces + 1)
        /\ Len(First(sent[b].pieces)) = sent[b].pieces
    BY <1>3, FirstOnes
  <2>6. typed => AsSent(q, r)
    <3>1. CASE sent[b].untyped
      <4>1. Len(pendingBlocks[i].pieces) < sent[b].pieces
        BY <2>2, <3>1 DEF AsSent
      <4>2. Len(q.pieces) < r.pieces
        BY <1>3, <2>4, <4>1
      <4> QED BY <3>1, <4>2 DEF AsSent
    <3>2. CASE ~sent[b].untyped
      BY <2>2, <2>4, <2>5 DEF AsSent
    <3> QED BY <3>1, <3>2
  <2>7. ~typed => AsSent(pendingBlocks[i], r)
    <3>1. Len(pendingBlocks[i].pieces) < sent[b].pieces + 1
      <4>1. CASE sent[b].untyped
        BY <1>3, <2>2, <4>1 DEF AsSent
      <4>2. CASE ~sent[b].untyped
        BY <2>2, <2>5 DEF AsSent
      <4> QED BY <4>1, <4>2
    <3> QED BY <3>1 DEF AsSent
  <2> QED BY <2>1, <2>4, <2>6, <2>7
<1>8. /\ pendingBlocks' \in Seq(PendingCall)
      /\ DOMAIN pendingBlocks' = DOMAIN pendingBlocks
      /\ \A i \in DOMAIN pendingBlocks :
            /\ pendingBlocks'[i].block = pendingBlocks[i].block
            /\ AsSent(pendingBlocks'[i], sent'[pendingBlocks'[i].block])
  <2>1. CASE ~typed
    <3>1. pendingBlocks' = pendingBlocks
      BY <2>1
    <3>2. ASSUME NEW i \in DOMAIN pendingBlocks
                     PROVE AsSent(pendingBlocks[i], sent'[pendingBlocks[i].block])
      <4>1. CASE pendingBlocks[i].block = b
        BY <1>4, <1>7, <2>1, <4>1
      <4>2. CASE pendingBlocks[i].block # b
        BY <1>1, <4>2 DEF PendingOK
      <4> QED BY <4>1, <4>2
    <3> QED BY <1>5, <3>1, <3>2
  <2>2. CASE typed
    <3>1. PICK k : k = [i \in DOMAIN pendingBlocks |->
                           IF pendingBlocks[i].block = b
                           THEN [pendingBlocks[i] EXCEPT !.pieces = Append(@,
                               sent[b].pieces + 1)]
                           ELSE pendingBlocks[i]]
      OBVIOUS
    <3>2. pendingBlocks' = k
      BY <2>2, <3>1 DEF Streams!Kept
    <3>3. ASSUME NEW i \in DOMAIN pendingBlocks
          PROVE  /\ k[i] \in PendingCall /\ k[i].block = pendingBlocks[i].block
                 /\ AsSent(k[i], sent'[k[i].block])
      <4>1. CASE pendingBlocks[i].block = b
        BY <1>4, <1>7, <2>2, <3>1, <4>1
      <4>2. CASE pendingBlocks[i].block # b
        BY <1>1, <3>1, <4>2 DEF PendingOK
      <4> QED BY <4>1, <4>2
    <3>4. k \in Seq(PendingCall) /\ DOMAIN k = DOMAIN pendingBlocks
      <4>1. k = [i \in 1..Len(pendingBlocks) |-> k[i]]
        BY <3>1
      <4> QED BY <3>3, <4>1
    <3> QED BY <3>2, <3>3, <3>4
  <2> QED BY <2>1, <2>2
<1>9. PendingOK'
  <2>1. \A i, j \in DOMAIN pendingBlocks' :
        pendingBlocks'[i].block = pendingBlocks'[j].block => i = j
    BY <1>1, <1>8 DEF PendingOK
  <2>2. \A c \in Blocks : sent'[c].step = "started"
                          => \E i \in DOMAIN pendingBlocks' : pendingBlocks'[i].block = c
    BY <1>1, <1>8 DEF PendingOK
  <2> QED BY <1>8, <2>1, <2>2 DEF PendingOK
<1>10. \A i \in DOMAIN given : given[i].block \in Blocks /\ given[i].block # b
  <2>0. given \in Seq(GivenCall)
    BY <1>1 DEF GivenOK
  <2>1. \A i \in DOMAIN given : given[i].block \in Blocks
    <3>1. \A i \in DOMAIN given : given[i] \in GivenCall
      BY <2>0
    <3> QED BY <3>1 DEF GivenCall
  <2>2. \A i \in DOMAIN given : given[i].block # b
    <3>1. CASE provider = "openai"
      BY <1>1 DEF GivenOK
    <3>2. CASE provider = "claude"
      BY <1>1 DEF GivenOK
    <3> QED BY <1>1, <3>1, <3>2
  <2> QED BY <2>1, <2>2
<1>11. GivenOK'
  BY <1>1 DEF GivenOK
<1>12. Streams!CallsAreWhole'
  BY <1>1, <1>10 DEF Streams!CallsAreWhole, Streams!Complete
<1>13. UnsentOK'
  BY DEF StreamsInv, UnsentOK
<1> QED BY <1>9, <1>11, <1>12, <1>13 DEF StreamsInv

\* Claude hands over a call that stops, and forgets it.
LEMMA StopKeeps ==
  ASSUME StreamsInv, NEW b \in Blocks, Streams!BlockStop(b)
  PROVE  StreamsInv'
<1>1. /\ sent \in [Blocks -> SentCall]
      /\ provider = "claude" /\ outcome = "streaming" /\ sent[b].step = "started"
      /\ PendingOK /\ GivenOK /\ Streams!CallsAreWhole
  BY DEF StreamsInv, Streams!BlockStop, Streams!Streams
<1>2. PICK I : I = {i \in DOMAIN pendingBlocks : pendingBlocks[i].block # b}
  OBVIOUS
<1>3. PICK i \in DOMAIN pendingBlocks : pendingBlocks[i].block = b
           /\ given' = Append(given, Streams!Call(pendingBlocks[i]))
  BY DEF Streams!BlockStop
<1>4. /\ sent' = [sent EXCEPT ![b].step = "stopped"]
      /\ pendingBlocks' = Picked(pendingBlocks, I)
      /\ UNCHANGED <<provider, outcome>>
  BY StreamsPicked, <1>2 DEF Streams!BlockStop
<1>5. sent[b] \in SentCall
  BY <1>1
<1>6. PICK r : r = [sent[b] EXCEPT !.step = "stopped"]
  OBVIOUS
<1>7. /\ r \in SentCall /\ r.step = "stopped" /\ r.pieces = sent[b].pieces
      /\ r.untyped = sent[b].untyped
  BY <1>5, <1>6 DEF SentCall, Streams!Steps
<1>8. /\ sent' \in [Blocks -> SentCall] /\ sent'[b] = r
      /\ \A c \in Blocks : c # b => sent'[c] = sent[c]
  <2>1. sent' = [sent EXCEPT ![b] = r]
    BY <1>4, <1>6
  <2> QED BY <1>1, <1>7, <2>1
<1>9. /\ pendingBlocks \in Seq(PendingCall) /\ Len(pendingBlocks) \in Nat
      /\ DOMAIN pendingBlocks = 1..Len(pendingBlocks)
      /\ I \in SUBSET (DOMAIN pendingBlocks)
      /\ \A j \in DOMAIN pendingBlocks : pendingBlocks[j] \in PendingCall
  <2>1. pendingBlocks \in Seq(PendingCall)
    BY <1>1 DEF PendingOK
  <2> QED BY <1>2, <2>1
<1>10. /\ pendingBlocks' \in Seq(PendingCall)
       /\ DOMAIN pendingBlocks' = 1..Cardinality(I)
       /\ \A k \in DOMAIN pendingBlocks' : Nth(I, k) \in I
          /\ pendingBlocks'[k] = pendingBlocks[Nth(I, k)]
  BY <1>4, <1>9, PickedList
<1>11. \A j \in I : pendingBlocks[j].block # b /\ pendingBlocks[j].block \in Blocks
  BY <1>2, <1>9 DEF PendingCall
<1>12. PendingOK'
  <2>1. ASSUME NEW j \in DOMAIN pendingBlocks'
                   PROVE AsSent(pendingBlocks'[j], sent'[pendingBlocks'[j].block])
    BY <1>1, <1>8, <1>9, <1>10, <1>11 DEF PendingOK
  <2>2. ASSUME NEW j \in DOMAIN pendingBlocks', NEW k \in DOMAIN pendingBlocks',
               pendingBlocks'[j].block = pendingBlocks'[k].block
        PROVE  j = k
    <3>1. Nth(I, j) = Nth(I, k)
      BY <1>1, <1>9, <1>10, <2>2 DEF PendingOK
    <3>2. Rank(I, Nth(I, j)) = j /\ Rank(I, Nth(I, k)) = k
      BY <1>9, <1>10, NthPlace
    <3> QED BY <3>1, <3>2
  <2>3. ASSUME NEW c \in Blocks, sent'[c].step = "started"
        PROVE  \E j \in DOMAIN pendingBlocks' : pendingBlocks'[j].block = c
    <3>1. c # b /\ sent[c].step = "started"
      BY <1>7, <1>8, <2>3
    <3>2. PICK j \in DOMAIN pendingBlocks : pendingBlocks[j].block = c
      BY <1>1, <3>1 DEF PendingOK
    <3>3. j \in I
      BY <1>2, <3>1, <3>2
    <3>4. Rank(I, j) \in 1..Cardinality(I)
          /\ Picked(pendingBlocks, I)[Rank(I, j)] = pendingBlocks[j]
      BY <1>9, <3>3, PickedHas
    <3> QED BY <1>4, <1>10, <3>2, <3>4
  <2> QED BY <1>10, <2>1, <2>2, <2>3 DEF PendingOK
<1>13. PICK g : g = Streams!Call(pendingBlocks[i])
  OBVIOUS
<1>14. g \in GivenCall /\ g.block = b /\ (g.input = "parsed" <=> Streams!Complete(b))
  BY <1>3, <1>13, WholeIsParsed
<1>15. /\ given \in Seq(GivenCall) /\ Len(given) \in Nat /\ DOMAIN given = 1..Len(given)
       /\ \A j \in DOMAIN given : given[j].block \in Blocks
          /\ sent[given[j].block].step = "stopped"
       /\ \A j \in DOMAIN given : given[j].block # b
  <2>1. given \in Seq(GivenCall)
    BY <1>1 DEF GivenOK
  <2>2. \A j \in DOMAIN given : given[j] \in GivenCall
    BY <2>1
  <2>3. \A j \in DOMAIN given : sent[given[j].block].step = "stopped"
    BY <1>1 DEF GivenOK
  <2> QED BY <1>1, <2>1, <2>2, <2>3 DEF GivenCall
<1>16. /\ given' \in Seq(GivenCall) /\ given'[Len(given) + 1] = g
       /\ Len(given) + 1 \in DOMAIN given'
       /\ \A j \in DOMAIN given : j \in DOMAIN given' /\ given'[j] = given[j]
       /\ \A j \in DOMAIN given' : j \in DOMAIN given \/ j = Len(given) + 1
  BY <1>3, <1>13, <1>14, <1>15
<1>17. GivenOK'
  <2>1. \A c \in Blocks : ~sent'[c].untyped
    BY <1>1, <1>7, <1>8 DEF GivenOK
  <2>3. \A c \in Blocks : sent'[c].step = "stopped" =>
            \E j \in DOMAIN given' : given'[j].block = c
    BY <1>1, <1>8, <1>14, <1>16 DEF GivenOK
  <2> QED BY <1>1, <1>4, <1>16, <2>1, <2>3 DEF GivenOK
<1>18. Streams!CallsAreWhole'
  <2>1. ASSUME NEW j \in DOMAIN given'
        PROVE  /\ sent'[given'[j].block].step # "unsent"
               /\ (sent'[given'[j].block].pieces = Pieces
                  /\ ~sent'[given'[j].block].untyped)
                  <=> given'[j].input = "parsed"
               /\ \A k \in DOMAIN given' : given'[j].block = given'[k].block => j = k
    <3>1. CASE j \in DOMAIN given
      <4>1. /\ given'[j] = given[j] /\ sent'[given[j].block] = sent[given[j].block]
            /\ sent[given[j].block].step # "unsent"
        BY <1>8, <1>15, <1>16, <3>1
      <4>2. (sent[given[j].block].pieces = Pieces /\ ~sent[given[j].block].untyped)
            <=> given[j].input = "parsed"
        BY <1>1, <3>1 DEF Streams!CallsAreWhole, Streams!Complete
      <4>3. \A k \in DOMAIN given' : given[j].block = given'[k].block => j = k
        BY <1>1, <1>14, <1>15, <1>16, <3>1 DEF Streams!CallsAreWhole
      <4> QED BY <4>1, <4>2, <4>3
    <3>2. CASE j = Len(given) + 1
      <4>1. /\ given'[j] = g /\ sent'[b].pieces = sent[b].pieces
            /\ sent'[b].untyped = sent[b].untyped /\ sent'[b].step = "stopped"
        BY <1>7, <1>8, <1>16, <3>2
      <4>2. \A k \in DOMAIN given' : g.block = given'[k].block => j = k
        BY <1>14, <1>15, <1>16, <3>2
      <4> QED BY <1>14, <4>1, <4>2 DEF Streams!Complete
    <3> QED BY <1>16, <3>1, <3>2
  <2>2. outcome' = "streaming"
    BY <1>1, <1>4
  <2>3. outcome' # "done" /\ outcome' # "error_done"
    BY <2>2
  <2> QED BY <2>1, <2>3 DEF Streams!CallsAreWhole, Streams!Complete
<1>19. UnsentOK'
  BY <1>7, <1>8 DEF StreamsInv, UnsentOK
<1> QED BY <1>4, <1>8, <1>12, <1>17, <1>18, <1>19 DEF StreamsInv

\* OpenAI hands over what is pending.
LEMMA FinalizeKeeps ==
  ASSUME StreamsInv, Streams!Finalize
  PROVE  StreamsInv'
<1>1. /\ provider = "openai" /\ outcome' = "done"
      /\ UNCHANGED <<provider, sent, pendingBlocks>>
      /\ PendingOK /\ GivenOK /\ sent \in [Blocks -> SentCall]
  BY DEF Streams!Finalize, Streams!Streams, StreamsInv
<1>2. PICK s : s = [i \in DOMAIN pendingBlocks |-> Streams!Call(pendingBlocks[i])]
  OBVIOUS
<1>3. given' = s
  BY <1>2 DEF Streams!Finalize
<1>4. /\ pendingBlocks \in Seq(PendingCall) /\ Len(pendingBlocks) \in Nat
      /\ DOMAIN pendingBlocks = 1..Len(pendingBlocks)
      /\ \A i \in DOMAIN pendingBlocks : pendingBlocks[i] \in PendingCall
  <2>1. pendingBlocks \in Seq(PendingCall)
    BY <1>1 DEF PendingOK
  <2> QED BY <2>1
<1>5. \A i \in DOMAIN pendingBlocks : /\ s[i] \in GivenCall
                                      /\ s[i].block = pendingBlocks[i].block
                                      /\ (s[i].input = "parsed"
                                            <=> Streams!Complete(pendingBlocks[i].block))
  BY <1>2, WholeIsParsed
<1>6. s \in Seq(GivenCall) /\ DOMAIN s = DOMAIN pendingBlocks
  <2>1. s = [i \in 1..Len(pendingBlocks) |-> s[i]]
    BY <1>2, <1>4
  <2> QED BY <1>4, <1>5, <2>1
<1>7. GivenOK'
  BY <1>1, <1>3, <1>6 DEF GivenOK
<1>8. PendingOK'
  BY <1>1 DEF PendingOK
<1>9. \A b \in Blocks : sent[b].step = "unsent" \/ \E i \in DOMAIN s : s[i].block = b
  <2> SUFFICES ASSUME NEW b \in Blocks, sent[b].step # "unsent"
               PROVE  \E i \in DOMAIN s : s[i].block = b
    OBVIOUS
  <2>1. sent[b].step = "started"
    BY <1>1 DEF SentCall, Streams!Steps, GivenOK
  <2> QED BY <1>1, <1>5, <1>6, <2>1 DEF PendingOK
<1>10. \A i \in DOMAIN s : sent[s[i].block].step # "unsent"
  BY <1>1, <1>5, <1>6 DEF PendingOK, AsSent
<1>11. \A i, j \in DOMAIN s : s[i].block = s[j].block => i = j
  BY <1>1, <1>5, <1>6 DEF PendingOK
<1>12. Streams!CallsAreWhole'
  BY <1>1, <1>3, <1>5, <1>6, <1>9, <1>10, <1>11 DEF Streams!CallsAreWhole,
                                                    Streams!Complete
<1> QED BY <1>1, <1>7, <1>8, <1>12 DEF StreamsInv, UnsentOK

LEMMA StreamsNext == ASSUME StreamsInv, [Streams!Next]_streamsVars PROVE StreamsInv'
<1>0. sent \in [Blocks -> SentCall] /\ \A b \in Blocks : sent[b] \in SentCall
  BY DEF StreamsInv
<1>1. ASSUME NEW b \in Blocks, Streams!BlockStart(b) PROVE StreamsInv'
  <2>1. /\ sent[b].step = "unsent" /\ provider = "claude" /\ outcome = "streaming"
        /\ sent' = [sent EXCEPT ![b].step = "started"]
        /\ pendingBlocks' = Append(pendingBlocks, [block |-> b, pieces |-> <<>>])
        /\ UNCHANGED <<provider, given, outcome>>
    BY <1>1 DEF Streams!BlockStart, Streams!Streams
  <2>2. sent[b] = Streams!Unsent
    BY <2>1 DEF StreamsInv, UnsentOK
  <2>3. ~sent[b].untyped /\ sent[b].pieces = 0
    BY <2>2 DEF Streams!Unsent
  <2>5. First(0) = <<>> /\ 0 \in 0..Pieces
    BY StreamsAssumption DEF First
  <2> QED BY <2>1, <2>3, <2>5, StartsKeep
<1>2. ASSUME NEW b \in Blocks, Streams!JsonDelta(b) PROVE StreamsInv'
  <2>1. /\ provider = "claude" /\ outcome = "streaming" /\ sent[b].step = "started"
        /\ sent[b].pieces < Pieces /\ sent' = [sent EXCEPT ![b].pieces = @ + 1]
        /\ pendingBlocks' = Streams!Kept(b, sent[b].pieces + 1)
        /\ UNCHANGED <<provider, given, outcome>>
    BY <1>2 DEF Streams!JsonDelta, Streams!Streams, Streams!KeptByIndex
  <2>2. PICK r : r = [sent[b] EXCEPT !.pieces = @ + 1]
    OBVIOUS
  <2>3. /\ r \in SentCall /\ r.step = "started" /\ r.pieces = sent[b].pieces + 1
        /\ r.untyped = sent[b].untyped
    BY <1>0, <2>1, <2>2, StreamsAssumption DEF SentCall
  <2>4. sent' = [sent EXCEPT ![b] = r]
    BY <2>1, <2>2
  <2>5. PICK typed \in BOOLEAN : typed = TRUE
    OBVIOUS
  <2> QED BY <2>1, <2>3, <2>4, PiecesKeep
<1>3. ASSUME NEW b \in Blocks, NEW n \in 0..1, Streams!FirstDelta(b, n)
                 PROVE StreamsInv'
  <2>1. /\ sent[b].step = "unsent" /\ outcome = "streaming" /\ n \in 0..Pieces
        /\ sent' = [sent EXCEPT ![b].step = "started", ![b].pieces = n]
        /\ pendingBlocks' = Append(pendingBlocks, [block |-> b, pieces |-> First(n)])
        /\ UNCHANGED <<provider, given, outcome>>
    BY <1>3 DEF Streams!FirstDelta, Streams!Streams, First
  <2>2. sent[b] = Streams!Unsent
    BY <2>1 DEF StreamsInv, UnsentOK
  <2>3. ~sent[b].untyped
    BY <2>2 DEF Streams!Unsent
  <2> QED BY <2>1, <2>3, StartsKeep
<1>4. ASSUME NEW b \in Blocks, NEW typed \in BOOLEAN, Streams!LaterDelta(b, typed)
                 PROVE StreamsInv'
  <2>1. /\ provider = "openai" /\ outcome = "streaming" /\ sent[b].step = "started"
        /\ sent[b].pieces < Pieces
        /\ sent' = [sent EXCEPT ![b].pieces = @ + 1, ![b].untyped = @ \/ ~typed]
        /\ pendingBlocks' = IF typed THEN Streams!Kept(b, sent[b].pieces + 1)
              ELSE pendingBlocks
        /\ UNCHANGED <<provider, given, outcome>>
    BY <1>4 DEF Streams!LaterDelta, Streams!Streams
  <2>2. PICK r : r = [sent[b] EXCEPT !.pieces = @ + 1, !.untyped = @ \/ ~typed]
    OBVIOUS
  <2>3. /\ r \in SentCall /\ r.step = "started" /\ r.pieces = sent[b].pieces + 1
        /\ (r.untyped <=> (sent[b].untyped \/ ~typed))
    <3>1. sent[b].pieces \in 0..Pieces
      BY <1>0 DEF SentCall
    <3>2. sent[b].pieces + 1 \in 0..Pieces
      BY <2>1, <3>1, StreamsAssumption
    <3> QED BY <1>0, <2>1, <2>2, <3>2 DEF SentCall
  <2>4. sent' = [sent EXCEPT ![b] = r]
    BY <2>1, <2>2
  <2> QED BY <2>1, <2>3, <2>4, PiecesKeep
<1>5. ASSUME Streams!MessageStop PROVE StreamsInv'
  <2>1. /\ provider = "claude" /\ outcome' = "done"
        /\ UNCHANGED <<provider, sent, pendingBlocks, given>>
    BY <1>5 DEF Streams!MessageStop, Streams!Streams
  <2>0. \A b \in Blocks : sent[b].step # "started"
    BY <1>5 DEF Streams!MessageStop
  <2>2. GivenOK'
    BY <2>1 DEF StreamsInv, GivenOK
  <2>3. Streams!CallsAreWhole'
    <3>1. \A b \in Blocks : sent[b].step = "unsent" \/ sent[b].step = "stopped"
      BY <1>0, <2>0 DEF SentCall, Streams!Steps
    <3>2. \A b \in Blocks : sent[b].step = "unsent"
          \/ \E i \in DOMAIN given : given[i].block = b
      BY <3>1 DEF StreamsInv, GivenOK
    <3> QED BY <2>1, <3>2 DEF StreamsInv, Streams!CallsAreWhole, Streams!Complete
  <2> QED BY <2>1, <2>2, <2>3 DEF StreamsInv, UnsentOK, PendingOK
<1>6. ASSUME Streams!Break PROVE StreamsInv'
  <2>1. /\ outcome = "streaming" /\ UNCHANGED <<provider, sent, pendingBlocks, given>>
        /\ outcome' = IF provider = "claude" THEN "thrown" ELSE "error_done"
    BY <1>6 DEF Streams!Break
  <2>2. GivenOK' /\ outcome' \in {"streaming", "done", "error_done", "thrown"}
    BY <2>1 DEF StreamsInv, GivenOK
  <2>3. Streams!CallsAreWhole'
    BY <2>1 DEF StreamsInv, GivenOK, Streams!CallsAreWhole, Streams!Complete
  <2> QED BY <2>1, <2>2, <2>3 DEF StreamsInv, UnsentOK, PendingOK
<1>7. ASSUME UNCHANGED streamsVars PROVE StreamsInv'
  BY <1>7 DEF streamsVars, StreamsInv, UnsentOK, PendingOK, GivenOK,
              Streams!CallsAreWhole, Streams!Complete
<1> QED BY <1>1, <1>2, <1>3, <1>4, <1>5, <1>6, <1>7, StopKeeps, FinalizeKeeps
           DEF Streams!Next
-----------------------------------------------------------------------------
\* The providers and the default one (ProviderRegistry).
LEMMA RegistryPicked == ASSUME NEW s, NEW I PROVE Registry!Picked(s, I) = Picked(s, I)
BY DEF Registry!Picked, Picked, Registry!Nth, Nth, Registry!Rank, Rank,
       Registry!Cardinality, Cardinality

EntrySet == [id : Registry!ProviderNames, default : BOOLEAN]

LEMMA EntryIsOne ==
  /\ \A id \in Registry!ProviderNames : \A d \in BOOLEAN :
        Registry!Entry(id, d) \in EntrySet /\ Registry!Entry(id, d).id = id
  /\ \A e \in EntrySet : Registry!Entry(e.id, TRUE) \in EntrySet
     /\ Registry!Entry(e.id, TRUE).id = e.id
BY DEF Registry!Entry, EntrySet

\* Each id has one place.
OneEach(s) == \A i, j \in DOMAIN s : s[i].id = s[j].id => i = j

\* The default has a place, and there is one unless there are no providers.
HasDefault(s, d) == IF s = <<>> THEN d = None ELSE \E i \in DOMAIN s : s[i].id = d

RegistryInv == /\ providers \in Seq(EntrySet) /\ registryCalls \in 0..MaxCalls
               /\ OneEach(providers) /\ HasDefault(providers, defaultId)

LEMMA DefaultStays == RegistryInv => Registry!DefaultIsRegistered /\ Registry!TypeOK
<1> SUFFICES ASSUME RegistryInv PROVE Registry!DefaultIsRegistered /\ Registry!TypeOK
  OBVIOUS
<1>1. providers \in Seq(EntrySet)
      /\ \A i \in DOMAIN providers : providers[i] \in EntrySet
  BY DEF RegistryInv
<1>2. \A i \in DOMAIN providers : providers[i].id \in Registry!ProviderNames
      /\ providers[i].id # None
  BY <1>1, RegistryAssumption DEF EntrySet
<1>3. (defaultId = None) = (providers = <<>>)
  BY <1>2 DEF RegistryInv, HasDefault
<1>4. defaultId \in Registry!Registered \cup {None}
      /\ defaultId \in Registry!ProviderNames \cup {None}
  BY <1>2 DEF RegistryInv, HasDefault, Registry!Registered
<1>5. Registry!IsInjective([i \in DOMAIN providers |-> providers[i].id])
  BY DEF RegistryInv, OneEach, Registry!IsInjective
<1> QED BY <1>3, <1>4, <1>5 DEF RegistryInv, Registry!DefaultIsRegistered,
                                Registry!TypeOK, EntrySet

LEMMA RegistryInit == Registry!Init => RegistryInv
<1> SUFFICES ASSUME Registry!Init PROVE RegistryInv
  OBVIOUS
<1>1. <<>> \in Seq(EntrySet) /\ OneEach(<<>>)
  BY DEF OneEach
<1> QED BY <1>1, RegistryAssumption DEF Registry!Init, RegistryInv, HasDefault

\* A provider takes the place of the one of its id, or the place after the last.
LEMMA Puts ==
  ASSUME RegistryInv, NEW e \in EntrySet
  PROVE  /\ Registry!Put(e) \in Seq(EntrySet) /\ OneEach(Registry!Put(e))
         /\ Registry!Put(e) # <<>>
         /\ \A i \in DOMAIN providers :
             \E j \in DOMAIN Registry!Put(e) : Registry!Put(e)[j].id = providers[i].id
         /\ \E j \in DOMAIN Registry!Put(e) : Registry!Put(e)[j].id = e.id
<1>1. /\ providers \in Seq(EntrySet) /\ Len(providers) \in Nat
      /\ DOMAIN providers = 1..Len(providers)
  BY DEF RegistryInv
<1>2. CASE e.id \in Registry!Registered
  <2>1. PICK s : s = [i \in DOMAIN providers |->
                         IF providers[i].id = e.id THEN e ELSE providers[i]]
    OBVIOUS
  <2>2. Registry!Put(e) = s
    BY <1>2, <2>1 DEF Registry!Put
  <2>3. s \in Seq(EntrySet) /\ DOMAIN s = DOMAIN providers
    BY <1>1, <2>1
  <2>4. \A i \in DOMAIN providers : s[i].id = providers[i].id
    BY <2>1
  <2>5. PICK i \in DOMAIN providers : providers[i].id = e.id
    BY <1>2 DEF Registry!Registered
  <2> QED BY <2>2, <2>3, <2>4, <2>5 DEF RegistryInv, OneEach
<1>3. CASE e.id \notin Registry!Registered
  <2>1. PICK s : s = Append(providers, e)
    OBVIOUS
  <2>2. Registry!Put(e) = s
    BY <1>3, <2>1 DEF Registry!Put
  <2>3. /\ s \in Seq(EntrySet) /\ DOMAIN s = 1..(Len(providers) + 1) /\ s # <<>>
        /\ s[Len(providers) + 1] = e
        /\ \A i \in DOMAIN providers : i \in DOMAIN s /\ s[i] = providers[i]
        /\ \A i \in DOMAIN s : i \in DOMAIN providers \/ i = Len(providers) + 1
    BY <1>1, <2>1
  <2>4. \A i \in DOMAIN providers : providers[i].id # e.id
    BY <1>3 DEF Registry!Registered
  <2>5. OneEach(s)
    BY <2>3, <2>4 DEF RegistryInv, OneEach
  <2> QED BY <2>2, <2>3, <2>5
<1> QED BY <1>2, <1>3

LEMMA RegistersKeeps ==
  ASSUME RegistryInv, NEW id \in Registry!ProviderNames, NEW setDefault \in BOOLEAN,
         Registry!Registers(id, setDefault)
  PROVE  /\ providers' \in Seq(EntrySet) /\ OneEach(providers')
         /\ HasDefault(providers', defaultId')
<1>1. PICK isDefault \in BOOLEAN : isDefault <=> (setDefault \/ providers = <<>>)
  OBVIOUS
<1>2. /\ providers' = Registry!Put([id |-> id, default |-> isDefault])
      /\ defaultId' = IF isDefault THEN id ELSE defaultId
  <2>1. isDefault = (setDefault \/ providers = <<>>)
    BY <1>1
  <2> QED BY <2>1 DEF Registry!Registers, Registry!Entry
<1>3. PICK e : e = [id |-> id, default |-> isDefault]
  OBVIOUS
<1>4. e \in EntrySet /\ e.id = id
  BY <1>3 DEF EntrySet
<1>5. /\ Registry!Put(e) \in Seq(EntrySet) /\ OneEach(Registry!Put(e))
      /\ Registry!Put(e) # <<>>
      /\ \A i \in DOMAIN providers :
          \E j \in DOMAIN Registry!Put(e) : Registry!Put(e)[j].id = providers[i].id
      /\ \E j \in DOMAIN Registry!Put(e) : Registry!Put(e)[j].id = id
  BY <1>4, Puts
<1>6. HasDefault(Registry!Put(e), defaultId')
  <2>1. CASE isDefault
    BY <1>2, <1>5, <2>1 DEF HasDefault
  <2>2. CASE ~isDefault
    <3>1. providers # <<>> /\ defaultId' = defaultId
      BY <1>1, <1>2, <2>2
    <3>2. PICK i \in DOMAIN providers : providers[i].id = defaultId
      BY <3>1 DEF RegistryInv, HasDefault
    <3> QED BY <1>5, <3>1, <3>2 DEF HasDefault
  <2> QED BY <2>1, <2>2
<1> QED BY <1>2, <1>3, <1>5, <1>6

\* What is left when one provider goes.
LEMMA UnregisterKeeps ==
  ASSUME RegistryInv, NEW id, Registry!Unregister(id)
  PROVE  RegistryInv'
<1>1. PICK I : I = {i \in DOMAIN providers : providers[i].id # id}
  OBVIOUS
<1>2. PICK rest : rest = Picked(providers, I)
  OBVIOUS
<1>3. /\ Registry!Called
      /\ IF id = defaultId THEN Registry!Successor(rest) ELSE providers' = rest
         /\ UNCHANGED defaultId
  BY RegistryPicked, <1>1, <1>2 DEF Registry!Unregister
<1>4. /\ providers \in Seq(EntrySet) /\ Len(providers) \in Nat
      /\ DOMAIN providers = 1..Len(providers) /\ I \in SUBSET (DOMAIN providers)
  BY <1>1 DEF RegistryInv
<1>5. /\ rest \in Seq(EntrySet) /\ DOMAIN rest = 1..Cardinality(I)
      /\ Cardinality(I) \in Nat
      /\ \A k \in DOMAIN rest : Nth(I, k) \in I /\ rest[k] = providers[Nth(I, k)]
      /\ Len(rest) = Cardinality(I)
  BY <1>2, <1>4, PickedList
<1>6. OneEach(rest)
  <2> SUFFICES ASSUME NEW j \in DOMAIN rest, NEW k \in DOMAIN rest,
                      rest[j].id = rest[k].id
               PROVE  j = k
    BY DEF OneEach
  <2>1. Nth(I, j) = Nth(I, k)
    BY <1>4, <1>5 DEF RegistryInv, OneEach
  <2>2. Rank(I, Nth(I, j)) = j /\ Rank(I, Nth(I, k)) = k
    BY <1>4, <1>5, NthPlace
  <2> QED BY <2>1, <2>2
<1>7. registryCalls' \in 0..MaxCalls
  BY <1>3, RegistryAssumption DEF Registry!Called, RegistryInv
<1>8. CASE id = defaultId
  <2>1. PICK s : s = [i \in DOMAIN rest |-> IF i = 1
                 THEN Registry!Entry(rest[i].id, TRUE) ELSE rest[i]]
    OBVIOUS
  <2>2. providers' = s /\ defaultId' = IF rest = <<>> THEN None ELSE rest[1].id
    BY <1>3, <1>8, <2>1 DEF Registry!Successor
  <2>3. \A i \in DOMAIN rest : rest[i] \in EntrySet
        /\ Registry!Entry(rest[i].id, TRUE) \in EntrySet
    <3>1. \A i \in DOMAIN rest : rest[i] \in EntrySet
      BY <1>5
    <3> QED BY <3>1, EntryIsOne
  <2>4. s \in Seq(EntrySet) /\ DOMAIN s = DOMAIN rest /\ Len(s) = Len(rest)
    <3>1. s = [i \in 1..Len(rest) |-> s[i]]
      BY <2>1
    <3>2. \A i \in 1..Len(rest) : s[i] \in EntrySet
      BY <1>5, <2>1, <2>3
    <3> QED BY <3>1, <3>2
  <2>5. \A i \in DOMAIN rest : s[i].id = rest[i].id
    BY <2>1 DEF Registry!Entry
  <2>6. OneEach(s)
    BY <1>6, <2>4, <2>5 DEF OneEach
  <2>7. HasDefault(s, defaultId')
    <3>1. CASE rest = <<>>
      <4>1. s = <<>>
        BY <2>4, <3>1
      <4> QED BY <2>2, <3>1, <4>1 DEF HasDefault
    <3>2. CASE rest # <<>>
      <4> QED BY <2>2, <2>4, <2>5 DEF HasDefault
    <3> QED BY <3>1, <3>2
  <2> QED BY <1>7, <2>2, <2>4, <2>6, <2>7 DEF RegistryInv
<1>9. CASE id # defaultId
  <2>1. providers' = rest /\ defaultId' = defaultId
    BY <1>3, <1>9
  <2>2. HasDefault(rest, defaultId)
    <3>1. CASE providers = <<>>
      <4>1. Len(rest) = 0
        BY <1>4, <1>5, <3>1
      <4>2. rest = <<>>
        BY <4>1
      <4> QED BY <3>1, <4>2 DEF RegistryInv, HasDefault
    <3>2. CASE providers # <<>>
      <4>1. PICK i \in DOMAIN providers : providers[i].id = defaultId
        BY <3>2 DEF RegistryInv, HasDefault
      <4>2. i \in I
        BY <1>1, <1>9, <4>1
      <4>3. Rank(I, i) \in 1..Cardinality(I) /\ rest[Rank(I, i)] = providers[i]
        BY <1>2, <1>4, <4>2, PickedHas
      <4> QED BY <1>5, <4>1, <4>3 DEF HasDefault
    <3> QED BY <3>1, <3>2
  <2> QED BY <1>5, <1>6, <1>7, <2>1, <2>2 DEF RegistryInv
<1> QED BY <1>8, <1>9

LEMMA SetDefaultKeeps ==
  ASSUME RegistryInv, NEW id \in Registry!ProviderNames, Registry!SetDefault(id)
  PROVE  RegistryInv'
<1>1. PICK s : s = [i \in DOMAIN providers |->
                       CASE providers[i].id = id -> Registry!Entry(id, TRUE)
                         [] providers[i].id # id /\ providers[i].id = defaultId ->
                                Registry!Entry(defaultId, FALSE)
                         [] OTHER -> providers[i]]
  OBVIOUS
<1>2. providers' = s /\ defaultId' = id /\ Registry!Called /\ id \in Registry!Registered
  BY <1>1 DEF Registry!SetDefault
<1>3. /\ providers \in Seq(EntrySet)
      /\ \A i \in DOMAIN providers : providers[i] \in EntrySet
      /\ Len(providers) \in Nat /\ DOMAIN providers = 1..Len(providers)
  BY DEF RegistryInv
<1>4. \A i \in DOMAIN providers :
          s[i] = CASE providers[i].id = id -> Registry!Entry(id, TRUE)
                   [] providers[i].id # id
                   /\ providers[i].id = defaultId -> Registry!Entry(defaultId, FALSE)
                   [] OTHER -> providers[i]
  BY <1>1
<1>5. \A i \in DOMAIN providers : s[i] \in EntrySet /\ s[i].id = providers[i].id
  <2> SUFFICES ASSUME NEW i \in DOMAIN providers
               PROVE  s[i] \in EntrySet /\ s[i].id = providers[i].id
    OBVIOUS
  <2>0. providers[i] \in EntrySet /\ providers[i].id \in Registry!ProviderNames
    BY <1>3 DEF EntrySet
  <2>1. CASE providers[i].id = id
    BY <1>4, <2>0, EntryIsOne
  <2>2. CASE providers[i].id # id /\ providers[i].id = defaultId
    BY <1>4, <2>0, EntryIsOne
  <2>3. CASE providers[i].id # id /\ providers[i].id # defaultId
    BY <1>4, <2>0, <2>3
  <2> QED BY <2>1, <2>2, <2>3
<1>6. s \in Seq(EntrySet) /\ DOMAIN s = DOMAIN providers
  <2>1. s = [i \in 1..Len(providers) |-> s[i]]
    BY <1>1
  <2> QED BY <1>3, <1>5, <2>1
<1>7. OneEach(s)
  BY <1>5, <1>6 DEF RegistryInv, OneEach
<1>8. HasDefault(s, id)
  <2>1. PICK i \in DOMAIN providers : providers[i].id = id
    BY <1>2 DEF Registry!Registered
  <2> QED BY <1>5, <1>6, <2>1 DEF HasDefault
<1>9. registryCalls' \in 0..MaxCalls
  BY <1>2, RegistryAssumption DEF Registry!Called, RegistryInv
<1> QED BY <1>2, <1>6, <1>7, <1>8, <1>9 DEF RegistryInv

LEMMA RegistryNext == ASSUME RegistryInv, [Registry!Next]_registryVars
    PROVE RegistryInv'
<1>1. ASSUME NEW id \in Ids, NEW set \in BOOLEAN, Registry!Register(id, set)
                 PROVE RegistryInv'
  <2>1. registryCalls' \in 0..MaxCalls
    BY <1>1, RegistryAssumption DEF Registry!Register, Registry!Called, RegistryInv
  <2>2. id \in Registry!ProviderNames
    BY DEF Registry!ProviderNames
  <2> QED BY <1>1, <2>1, <2>2, RegistersKeeps DEF Registry!Register, RegistryInv
<1>2. ASSUME Registry!GetDefault PROVE RegistryInv'
  <2>1. registryCalls' \in 0..MaxCalls
    BY <1>2, RegistryAssumption DEF Registry!GetDefault, Registry!Called, RegistryInv
  <2>2. Fallback \in Registry!ProviderNames
    BY DEF Registry!ProviderNames
  <2>3. CASE UNCHANGED <<providers, defaultId>>
    BY <2>1, <2>3 DEF RegistryInv
  <2>4. CASE Registry!Registers(Fallback, TRUE)
    BY <2>1, <2>2, <2>4, RegistersKeeps DEF RegistryInv
  <2> QED BY <1>2, <2>3, <2>4 DEF Registry!GetDefault
<1>3. ASSUME UNCHANGED registryVars PROVE RegistryInv'
  BY <1>3 DEF registryVars, RegistryInv
<1> QED BY <1>1, <1>2, <1>3, UnregisterKeeps, SetDefaultKeeps DEF Registry!Next
-----------------------------------------------------------------------------
\* Compression of a conversation (TrajectoryCompression).
Parts3 == [from : 1..MaxSaid, to : 1..MaxSaid, verbatim : BOOLEAN]

\* The messages stand for the first n that were said, in order, each part once.
InOrder(ms, n) ==
    /\ \A i \in 1..Len(ms) : /\ ms[i].from <= ms[i].to
                             /\ ms[i].from = (IF i = 1 THEN 1 ELSE ms[i - 1].to + 1)
    /\ \A i, j \in 1..Len(ms) : i < j => ms[i].to < ms[j].from
    /\ n > 0 => Len(ms) > 0 /\ ms[Len(ms)].to = n
    /\ n = 0 => Len(ms) = 0

\* The last two are there word for word, and the first one if a head is kept.
EndsStay(ms, n) ==
    /\ n > 0 => ms[Len(ms)] = Trajectory!Message(n)
    /\ n > 1 => Len(ms) > 1 /\ ms[Len(ms) - 1] = Trajectory!Message(n - 1)
    /\ n > 0 /\ compression.head > 0 => ms[1] = Trajectory!Message(1)

TrajectoryInv == /\ compression \in [head : Turns, tail : Turns, segment : Turns \ {0}]
                 /\ said \in 0..MaxSaid /\ messages \in Seq(Parts3)
                 /\ InOrder(messages, said) /\ EndsStay(messages, said)

LEMMA MessageFields ==
  ASSUME NEW n
  PROVE  Trajectory!Message(n).from = n /\ Trajectory!Message(n).to = n
         /\ Trajectory!Message(n).verbatim = TRUE
BY DEF Trajectory!Message

LEMMA MinOfTwo ==
  ASSUME NEW a \in Int, NEW b \in Int PROVE Trajectory!Min({a, b}) = IF a <= b THEN a
             ELSE b
<1> DEFINE k == Trajectory!Min({a, b})
<1>2. k \in {a, b} /\ \A y \in {a, b} : k <= y
  BY DEF Trajectory!Min
<1> HIDE DEF k
<1>3. k = IF a <= b THEN a ELSE b
  BY <1>2
<1> QED BY <1>3 DEF k

LEMMA MaxOfTwo ==
  ASSUME NEW a \in Int, NEW b \in Int PROVE Trajectory!Max({a, b}) = IF a <= b THEN b
             ELSE a
<1> DEFINE k == Trajectory!Max({a, b})
<1>2. k \in {a, b} /\ \A y \in {a, b} : k >= y
  BY DEF Trajectory!Max
<1> HIDE DEF k
<1>3. k = IF a <= b THEN b ELSE a
  BY <1>2
<1> QED BY <1>3 DEF k

\* A list that cuts another into parts that follow each other stands for the same.
LEMMA PartsInOrder ==
  ASSUME NEW S, NEW ms \in Seq(Parts3), NEW n \in Nat \ {0}, InOrder(ms, n),
         NEW r \in Seq(S), NEW f, NEW g,
         Len(r) > 0, f[1] = 1, g[Len(r)] = Len(ms),
         \A i \in 1..Len(r) : /\ f[i] \in 1..Len(ms) /\ g[i] \in 1..Len(ms)
                              /\ f[i] <= g[i]
                              /\ r[i].from = ms[f[i]].from /\ r[i].to = ms[g[i]].to,
         \A i \in 1..Len(r) : i # 1 => f[i] = g[i - 1] + 1,
         \A i, j \in 1..Len(r) : i < j => g[i] < f[j]
  PROVE  InOrder(r, n)
<1>1. /\ \A i \in 1..Len(ms) : ms[i].from <= ms[i].to /\ ms[i].from \in Int
         /\ ms[i].to \in Int
      /\ \A i \in 1..Len(ms) : ms[i].from = (IF i = 1 THEN 1 ELSE ms[i - 1].to + 1)
      /\ \A i, j \in 1..Len(ms) : i < j => ms[i].to < ms[j].from
      /\ Len(ms) \in Nat \ {0} /\ ms[Len(ms)].to = n /\ Len(r) \in Nat
  <2>1. Len(ms) \in Nat \ {0} /\ ms[Len(ms)].to = n /\ Len(r) \in Nat
    BY DEF InOrder
  <2>2. \A i \in 1..Len(ms) : ms[i] \in Parts3
    OBVIOUS
  <2>3. \A i \in 1..Len(ms) : ms[i].from \in Int /\ ms[i].to \in Int
    BY <2>2 DEF Parts3
  <2> QED BY <2>1, <2>3 DEF InOrder
<1>2. ASSUME NEW i \in 1..Len(r) PROVE r[i].from <= r[i].to
  <2>1. PICK a \in 1..Len(ms), b \in 1..Len(ms) :
           a <= b /\ r[i].from = ms[a].from /\ r[i].to = ms[b].to
    OBVIOUS
  <2>2. ms[a].from <= ms[a].to /\ ms[a].from \in Int /\ ms[a].to \in Int
    BY <1>1, Zenon
  <2>3. ms[b].from <= ms[b].to /\ ms[b].from \in Int /\ ms[b].to \in Int
    BY <1>1, Zenon
  <2>4. a < b => ms[a].to < ms[b].from
    BY <1>1, Zenon
  <2>5. a = b \/ a < b
    BY <1>1, <2>1
  <2> QED BY <2>1, <2>2, <2>3, <2>4, <2>5, SMTT(20)
<1>3. ASSUME NEW i \in 1..Len(r)
                 PROVE r[i].from = (IF i = 1 THEN 1 ELSE r[i - 1].to + 1)
  <2>1. f[i] \in 1..Len(ms) /\ r[i].from = ms[f[i]].from
    OBVIOUS
  <2>2. CASE i = 1
    BY <1>1, <2>1, <2>2
  <2>3. CASE i # 1
    <3>1. i - 1 \in 1..Len(r)
      BY <1>1, <2>3
    <3>2. g[i - 1] \in 1..Len(ms) /\ r[i - 1].to = ms[g[i - 1]].to
      BY <3>1
    <3>3. f[i] = g[i - 1] + 1
      BY <2>3
    <3>4. f[i] # 1 /\ f[i] - 1 = g[i - 1]
      BY <1>1, <3>2, <3>3, SMTT(20)
    <3>5. ms[f[i]].from = ms[f[i] - 1].to + 1
      BY <1>1, <2>1, <3>4
    <3> QED BY <2>1, <2>3, <3>2, <3>4, <3>5
  <2> QED BY <2>2, <2>3
<1>4. ASSUME NEW i \in 1..Len(r), NEW j \in 1..Len(r), i < j PROVE r[i].to < r[j].from
  <2>1. g[i] \in 1..Len(ms) /\ r[i].to = ms[g[i]].to /\ f[j] \in 1..Len(ms)
        /\ r[j].from = ms[f[j]].from
    OBVIOUS
  <2>2. g[i] < f[j]
    BY <1>4
  <2> QED BY <1>1, <2>1, <2>2
<1>5. r[Len(r)].to = n
  <2>1. Len(r) \in 1..Len(r)
    BY <1>1
  <2> QED BY <1>1, <2>1
<1> QED BY <1>1, <1>2, <1>3, <1>4, <1>5 DEF InOrder

LEMMA Segments ==
  ASSUME NEW m \in Nat \ {0}, NEW w \in Nat \ {0}, NEW k, k = (m + w - 1) \div w
  PROVE  /\ k \in Nat \ {0} /\ k * w >= m
         /\ \A c \in 1..k : (c - 1) * w \in Nat /\ (c - 1) * w < m
                            /\ c * w \in Nat /\ (c - 1) * w < c * w
         /\ \A c \in 1..k : c # k => c * w < m
         /\ \A c, d \in 1..k : c < d => c * w <= (d - 1) * w
<1>1. k \in Nat \ {0} /\ k * w >= m /\ k * w <= m + w - 1
  OBVIOUS
<1>2. ASSUME NEW c \in Nat, NEW d \in Nat, c < d PROVE c * w <= (d - 1) * w
  <2>1. ASSUME NEW p \in Nat, NEW q \in Nat, p <= q PROVE p * w <= q * w
    <3>1. q - p \in Nat /\ q = p + (q - p)
      BY <2>1
    <3>2. (p + (q - p)) * w = p * w + (q - p) * w
      BY <3>1
    <3>3. (q - p) * w \in Nat /\ p * w \in Nat
      BY <3>1
    <3> QED BY <3>1, <3>2, <3>3
  <2>2. d - 1 \in Nat /\ c <= d - 1
    BY <1>2
  <2> QED BY <2>1, <2>2
<1>3. ASSUME NEW c \in 1..k
      PROVE  (c - 1) * w \in Nat /\ c * w \in Nat /\ c * w = (c - 1) * w + w
             /\ c * w <= k * w
  <2>1. c \in Nat /\ c - 1 \in Nat /\ c <= k
    BY <1>1
  <2>2. (c - 1) * w \in Nat /\ c * w \in Nat
    BY <2>1
  <2>3. c * w = (c - 1) * w + w
    BY <2>1
  <2>4. c * w <= k * w
    BY <1>1, <2>1
  <2> QED BY <2>2, <2>3, <2>4
<1>4. ASSUME NEW c \in 1..k PROVE (c - 1) * w < m
  <2>1. k * w \in Int
    BY <1>1
  <2> QED BY <1>1, <1>3, <2>1
<1>5. ASSUME NEW c \in 1..k, c # k PROVE c * w < m
  <2>1. c + 1 \in 1..k
    BY <1>1, <1>5
  <2>2. ((c + 1) - 1) * w < m
    BY <1>4, <2>1
  <2>3. (c + 1) - 1 = c
    BY <1>1
  <2> QED BY <2>2, <2>3
<1>6. \A c, d \in 1..k : c < d => c * w <= (d - 1) * w
  BY <1>1, <1>2
<1> QED BY <1>1, <1>3, <1>4, <1>5, <1>6

LEMMA SliceOf ==
  ASSUME NEW S, NEW s \in Seq(S), NEW a \in 0..Len(s), NEW b \in Nat, a < b,
         NEW e, e = (IF b <= Len(s) THEN b ELSE Len(s)), a < e \/ a = Len(s)
  PROVE  /\ Trajectory!Slice(s, a, b) \in Seq(S)
         /\ Len(Trajectory!Slice(s, a, b)) = e - a
         /\ \A i \in 1..e - a : Trajectory!Slice(s, a, b)[i] = s[a + i]
<1>1. Len(s) \in Nat /\ e \in a..Len(s)
  OBVIOUS
<1>2. Trajectory!Index(a, Len(s)) = a
  BY <1>1, MinOfTwo DEF Trajectory!Index
<1>3. Trajectory!Index(b, Len(s)) = e
  BY <1>1, MinOfTwo DEF Trajectory!Index
<1>4. Trajectory!Slice(s, a, b) = SubSeq(s, a + 1, e)
  BY <1>2, <1>3 DEF Trajectory!Slice
<1>5. a + 1 \in 1..Len(s) + 1 /\ e \in (a + 1) - 1..Len(s)
  BY <1>1
<1>6. SubSeq(s, a + 1, e) \in Seq(S) /\ Len(SubSeq(s, a + 1, e)) = e - a
  BY <1>1, <1>5, SubSeqProperties
<1>7. ASSUME NEW i \in 1..e - a PROVE SubSeq(s, a + 1, e)[i] = s[a + i]
  <2>1. i \in 1..e - (a + 1) + 1 /\ (a + 1) + i - 1 = a + i
    BY <1>1
  <2> QED BY <1>1, <1>5, <2>1, SubSeqProperties
<1> QED BY <1>4, <1>6, <1>7

LEMMA FoldedSlice ==
  ASSUME NEW s \in Seq(Parts3), NEW a \in 0..Len(s), NEW b \in Nat, a < b,
         NEW e, e = (IF b <= Len(s) THEN b ELSE Len(s)), a < Len(s)
  PROVE  Trajectory!Folded(Trajectory!Slice(s, a, b)) = [from |-> s[a + 1].from,
                                                         to |-> s[e].to,
                                                         verbatim |-> FALSE]
<1>1. Len(s) \in Nat /\ e - a \in Nat \ {0} /\ a < e
  OBVIOUS
<1>2. Len(Trajectory!Slice(s, a, b)) = e - a
      /\ \A i \in 1..e - a : Trajectory!Slice(s, a, b)[i] = s[a + i]
  BY <1>1, SliceOf
<1>3. 1 \in 1..e - a /\ e - a \in 1..e - a /\ a + (e - a) = e
  BY <1>1
<1>4. Trajectory!Slice(s, a, b)[1] = s[a + 1]
      /\ Trajectory!Slice(s, a, b)[Len(Trajectory!Slice(s, a, b))] = s[e]
  BY <1>2, <1>3
<1> QED BY <1>4 DEF Trajectory!Folded

\* What compress makes of a conversation that is long enough: the head, one message
\* for each of the k segments of the middle, and the tail.
LongEnough == TrajectoryInv /\ Len(messages) > 4 /\ Trajectory!Middle(messages) # <<>>

IsFolded(h, t, w, m, k) ==
    /\ t > 1 /\ (compression.head > 0 => h > 1) /\ w > 0 /\ m > 0
    /\ h + m + t = Len(messages) /\ k = (m + w - 1) \div w
    /\ Trajectory!Compress(messages) \in Seq(Parts3)
    /\ Len(Trajectory!Compress(messages)) = h + k + t
    /\ \A i \in 1..h : Trajectory!Compress(messages)[i] = messages[i]
    /\ \A c \in 1..k : Trajectory!Compress(messages)[h + c]
          = [from |-> messages[h + ((c - 1) * w) + 1].from,
             to |-> messages[h + (IF c * w <= m THEN c * w ELSE m)].to,
             verbatim |-> FALSE]
    /\ \A i \in 1..t : Trajectory!Compress(messages)[h + k + i] = messages[h + m + i]

LEMMA Folds ==
  ASSUME LongEnough
  PROVE  \E h, t, w, m, k \in Nat : IsFolded(h, t, w, m, k)
<1>a. messages \in Seq(Parts3) /\ compression.head \in Nat /\ compression.tail \in Nat
      /\ compression.segment \in Nat \ {0}
  BY TrajectoryAssumption DEF TrajectoryInv, LongEnough
<1>b. PICK h \in Nat : h = 2 * compression.head
  BY <1>a
<1>c. PICK t \in Nat : t = 2 * compression.tail
  BY <1>a
<1>d. PICK w \in Nat \ {0} : w = 2 * compression.segment
  BY <1>a
<1>e. PICK n \in Nat : n = Len(messages)
  BY <1>a
<1> DEFINE mid == Trajectory!Middle(messages)
<1>1. messages \in Seq(Parts3) /\ n \in Nat /\ n > 4
  BY <1>a, <1>e DEF LongEnough
<1>2. /\ compression.head \in Nat /\ compression.tail \in Nat
      /\ compression.segment \in Nat \ {0}
  BY TrajectoryAssumption DEF TrajectoryInv, LongEnough
<1>3. /\ h \in Nat /\ (compression.head > 0 => h > 1) /\ t \in Nat /\ (t > 0 => t > 1)
      /\ w \in Nat \ {0} /\ -t \in Int
  BY <1>2, <1>b, <1>c
<1>4. t > 0 /\ h < n - t /\ mid = SubSeq(messages, h + 1, n - t)
  <2>1. Trajectory!Index(h, n) = (IF h <= n THEN h ELSE n)
    <3> QED BY <1>1, <1>3, MinOfTwo DEF Trajectory!Index
  <2>2. mid = SubSeq(messages, Trajectory!Index(h, n) + 1, Trajectory!Index(-t, n))
    BY <1>b, <1>c, <1>e DEF Trajectory!Middle, Trajectory!Slice
  <2>3. ASSUME NEW e \in Int, Trajectory!Index(-t, n) = e
                   PROVE Trajectory!Index(h, n) + 1 <= e
    <3> HIDE DEF mid
    <3>1. Trajectory!Index(h, n) + 1 \in Int
      BY <1>1, <1>3, <2>1
    <3>2. e < Trajectory!Index(h, n) + 1 => mid = <<>>
      BY <2>2, <2>3, <3>1, SubSeqEmpty
    <3>3. mid # <<>>
      BY DEF mid, LongEnough
    <3> QED BY <3>1, <3>2, <3>3
  <2>4. t > 0
    <3>1. SUFFICES ASSUME t = 0 PROVE FALSE
      BY <1>3
    <3>2. -t = 0
      BY <1>c, <3>1
    <3>3. Trajectory!Index(-t, n) = 0
      <4> QED BY <1>1, <3>2, MinOfTwo DEF Trajectory!Index
    <3> QED BY <1>1, <1>3, <2>1, <2>3, <3>3
  <2>5. Trajectory!Index(-t, n) = (IF n - t >= 0 THEN n - t ELSE 0)
    <3>1. n + (-t) = n - t /\ -t < 0 /\ n - t \in Int
      BY <1>1, <1>3, <2>4
    <3> QED BY <3>1, MaxOfTwo DEF Trajectory!Index
  <2> HIDE DEF mid
  <2>6. h < n - t
    BY <1>1, <1>3, <2>1, <2>3, <2>5
  <2>7. Trajectory!Index(h, n) = h /\ Trajectory!Index(-t, n) = n - t
    BY <1>1, <1>3, <2>1, <2>5, <2>6
  <2> QED BY <2>2, <2>4, <2>6, <2>7
<1>f. PICK m \in Nat \ {0} : m = n - t - h
  <2>1. n - t - h \in Nat \ {0}
    BY <1>1, <1>3, <1>4
  <2> QED BY <2>1
<1>g. PICK k \in Nat \ {0} : k = (m + w - 1) \div w
  <2>1. (m + w - 1) \div w \in Nat \ {0}
    OBVIOUS
  <2> QED BY <2>1
<1>5. m \in Nat \ {0} /\ h + m + t = n /\ n - t = h + m
  BY <1>1, <1>3, <1>4, <1>f
<1>6. k \in Nat \ {0} /\ \A c \in 1..k : (c - 1) * w \in Nat /\ (c - 1) * w < m
                            /\ c * w \in Nat /\ (c - 1) * w < c * w
  BY <1>g, Segments
<1>7. mid \in Seq(Parts3) /\ Len(mid) = m /\ \A i \in 1..m : mid[i] = messages[h + i]
  <2> HIDE DEF mid
  <2>1. h + 1 \in Int /\ n - t \in Int /\ h + 1 <= n - t /\ (n - t) - (h + 1) + 1 = m
    BY <1>1, <1>3, <1>5
  <2>2. \A i \in h + 1..n - t : messages[i] \in Parts3
    BY <1>e, <1>f, <1>1, <1>3, <1>5
  <2>3. \A i \in 1..m : (h + 1) + i - 1 = h + i
    BY <1>3
  <2> QED BY <1>4, <2>1, <2>2, <2>3, SubSeqProperties
<1>8. Trajectory!Compressed(mid)
      = [c \in 1..k |-> Trajectory!Folded(Trajectory!Slice(mid, (c - 1) * w, c * w))]
  BY <1>b, <1>d, <1>g, <1>7 DEF Trajectory!Compressed
<1>9. ASSUME NEW c \in 1..k
      PROVE  Trajectory!Folded(Trajectory!Slice(mid, (c - 1) * w, c * w))
               = [from |-> messages[h + ((c - 1) * w) + 1].from,
                  to |-> messages[h + (IF c * w <= m THEN c * w ELSE m)].to,
                  verbatim |-> FALSE]
  <2> DEFINE a == (c - 1) * w
             b == c * w
             e == IF b <= m THEN b ELSE m
  <2>1. a \in Nat /\ b \in Nat /\ a < m /\ a < b
    BY <1>6
  <2> HIDE DEF a, b, mid
  <2>2. a \in 0..Len(mid) /\ a < Len(mid) /\ e = (IF b <= Len(mid) THEN b ELSE Len(mid))
    BY <1>5, <1>7, <2>1
  <2>3. e \in 1..m /\ a + 1 \in 1..m
    BY <1>5, <2>1
  <2> HIDE DEF e
  <2>4. Trajectory!Folded(Trajectory!Slice(mid, a, b)) = [from |-> mid[a + 1].from,
                                                          to |-> mid[e].to,
                                                          verbatim |-> FALSE]
    BY <1>7, <2>1, <2>2, FoldedSlice
  <2>5. mid[a + 1] = messages[h + a + 1] /\ mid[e] = messages[h + e]
    <3>1. h + (a + 1) = h + a + 1
      BY <1>3, <2>1
    <3> QED BY <1>7, <2>3, <3>1
  <2> QED BY <2>4, <2>5 DEF a, b, e
<1>10. Trajectory!Slice(messages, 0, h) \in Seq(Parts3)
       /\ Len(Trajectory!Slice(messages, 0, h)) = h
       /\ \A i \in 1..h : Trajectory!Slice(messages, 0, h)[i] = messages[i]
  <2>1. h <= n /\ 0 \in 0..n
    BY <1>1, <1>3, <1>5
  <2>2. Trajectory!Index(0, n) = 0 /\ Trajectory!Index(h, n) = h
    BY <1>1, <1>3, <2>1, MinOfTwo DEF Trajectory!Index
  <2>3. Trajectory!Slice(messages, 0, h) = SubSeq(messages, 1, h)
    <3>1. Trajectory!Slice(messages, 0, h)
             = SubSeq(messages, Trajectory!Index(0, n) + 1, Trajectory!Index(h, n))
      BY <1>e DEF Trajectory!Slice
    <3>2. Trajectory!Index(0, n) + 1 = 1
      BY <2>2
    <3> QED BY <2>2, <3>1, <3>2, Zenon
  <2>4. \A i \in 1..h : messages[i] \in Parts3
    BY <1>e, <1>1, <1>3, <2>1
  <2>5. SubSeq(messages, 1, h) \in Seq(Parts3)
        /\ Len(SubSeq(messages, 1, h)) = (IF 1 <= h THEN h - 1 + 1 ELSE 0)
        /\ \A i \in 1..h - 1 + 1 : SubSeq(messages, 1, h)[i] = messages[1 + i - 1]
    BY <1>3, <2>4, SubSeqProperties
  <2>6. Len(SubSeq(messages, 1, h)) = h
    BY <1>3, <2>5
  <2>7. \A i \in 1..h : SubSeq(messages, 1, h)[i] = messages[i]
    <3>1. h - 1 + 1 = h /\ \A i \in 1..h : 1 + i - 1 = i
      BY <1>3
    <3> QED BY <2>5, <3>1
  <2> QED BY <2>3, <2>5, <2>6, <2>7
<1>11. Trajectory!Slice(messages, -t, n) \in Seq(Parts3)
       /\ Len(Trajectory!Slice(messages, -t, n)) = t
       /\ \A i \in 1..t : Trajectory!Slice(messages, -t, n)[i] = messages[h + m + i]
  <2>1. -t < 0 /\ n + (-t) = n - t /\ n - t \in Nat /\ h + m = n - t
    <3>1. t > 0 /\ h < n - t
      BY <1>4
    <3> QED BY <1>1, <1>3, <1>5, <3>1
  <2>2. Trajectory!Index(-t, n) = n - t
    BY <1>3, <2>1, MaxOfTwo DEF Trajectory!Index
  <2>3. Trajectory!Index(n, n) = n
    BY <1>1, MinOfTwo DEF Trajectory!Index
  <2> DEFINE a == n - t + 1
  <2>4. Trajectory!Slice(messages, -t, n) = SubSeq(messages, a, n)
    BY <1>e, <2>2, <2>3 DEF Trajectory!Slice
  <2>0. t > 0
    BY <1>4
  <2>5. a \in Int /\ a <= n /\ a > 0 /\ n - a + 1 = t
        /\ \A i \in 1..t : a + i - 1 = h + m + i
    BY <1>1, <1>3, <2>0, <2>1
  <2> HIDE DEF a
  <2>6. \A i \in a..n : messages[i] \in Parts3
    BY <1>e, <1>1, <2>5
  <2>7. SubSeq(messages, a, n) \in Seq(Parts3)
        /\ Len(SubSeq(messages, a, n)) = (IF a <= n THEN n - a + 1 ELSE 0)
        /\ \A i \in 1..n - a + 1 : SubSeq(messages, a, n)[i] = messages[a + i - 1]
    BY <1>1, <2>5, <2>6, SubSeqProperties
  <2> QED BY <2>4, <2>5, <2>7
<1>12. Trajectory!Compressed(mid) \in Seq(Parts3) /\ Len(Trajectory!Compressed(mid)) = k
       /\ \A c \in 1..k : Trajectory!Compressed(mid)[c]
             = [from |-> messages[h + ((c - 1) * w) + 1].from,
                to |-> messages[h + (IF c * w <= m THEN c * w ELSE m)].to,
                verbatim |-> FALSE]
  <2>1. ASSUME NEW c \in 1..k
        PROVE  /\ messages[h + ((c - 1) * w) + 1] \in Parts3
               /\ messages[h + (IF c * w <= m THEN c * w ELSE m)] \in Parts3
    <3> DEFINE a == (c - 1) * w
               b == c * w
    <3>1. a \in Nat /\ b \in Nat /\ a < m /\ a < b
      BY <1>6
    <3> HIDE DEF a, b
    <3>2. h + a + 1 \in 1..n /\ h + (IF b <= m THEN b ELSE m) \in 1..n
      BY <1>1, <1>3, <1>5, <3>1
    <3>3. messages[h + a + 1] \in Parts3
          /\ messages[h + (IF b <= m THEN b ELSE m)] \in Parts3
      BY <1>e, <1>1, <3>2
    <3> QED BY <3>3 DEF a, b
  <2> DEFINE Row(c) == Trajectory!Folded(Trajectory!Slice(mid, (c - 1) * w, c * w))
  <2>2. ASSUME NEW c \in 1..k PROVE Row(c) \in Parts3
    <3> DEFINE p == messages[h + ((c - 1) * w) + 1]
               q == messages[h + (IF c * w <= m THEN c * w ELSE m)]
    <3>1. Row(c) = [from |-> p.from, to |-> q.to, verbatim |-> FALSE]
      BY <1>9
    <3>2. p \in Parts3 /\ q \in Parts3
      BY <2>1
    <3> HIDE DEF p, q, Row
    <3> QED BY <3>1, <3>2 DEF Parts3
  <2>3. Trajectory!Compressed(mid) = [c \in 1..k |-> Row(c)]
    BY <1>8
  <2>4. \A c \in 1..k : Row(c) = [from |-> messages[h + ((c - 1) * w) + 1].from,
                to |-> messages[h + (IF c * w <= m THEN c * w ELSE m)].to,
                verbatim |-> FALSE]
    BY <1>9
  <2> HIDE DEF Row, mid
  <2>5. k \in Nat
    BY <1>6
  <2> QED BY <2>2, <2>3, <2>4, <2>5
<1>13. Trajectory!Compress(messages) = Trajectory!Slice(messages, 0, h)
           \o Trajectory!Compressed(mid) \o Trajectory!Slice(messages, -t, n)
  <2>1. ~(Len(messages) <= 4 \/ Trajectory!Middle(messages) = <<>>)
    BY <1>1, <1>e DEF LongEnough
  <2> QED BY <1>b, <1>c, <1>e, <2>1 DEF Trajectory!Compress
<1> DEFINE x == Trajectory!Slice(messages, 0, h)
           y == Trajectory!Compressed(mid)
           z == Trajectory!Slice(messages, -t, n)
           r == Trajectory!Compress(messages)
<1>14. /\ x \in Seq(Parts3) /\ y \in Seq(Parts3) /\ z \in Seq(Parts3)
       /\ Len(x) = h /\ Len(y) = k /\ Len(z) = t /\ r = (x \o y) \o z
  BY <1>10, <1>11, <1>12, <1>13
<1>15. /\ r \in Seq(Parts3) /\ Len(r) = h + k + t
       /\ \A i \in 1..h : r[i] = x[i]
       /\ \A c \in 1..k : r[h + c] = y[c]
       /\ \A i \in 1..t : r[h + k + i] = z[i]
  <2> HIDE DEF x, y, z, r
  <2>1. h \in Nat /\ k \in Nat /\ t \in Nat
    BY <1>3, <1>6
  <2>2. x \o y \in Seq(Parts3) /\ Len(x \o y) = h + k
        /\ \A i \in 1..h + k : (x \o y)[i] = IF i <= h THEN x[i] ELSE y[i - h]
    BY <1>14, ConcatProperties
  <2> DEFINE u == x \o y
  <2> HIDE DEF u
  <2>3. u \o z \in Seq(Parts3) /\ Len(u \o z) = h + k + t
        /\ \A i \in 1..h + k + t : (u \o z)[i] = IF i <= h + k THEN u[i]
              ELSE z[i - (h + k)]
    <3>1. z \in Seq(Parts3) /\ Len(z) = t
      BY <1>14
    <3>2. u \in Seq(Parts3) /\ Len(u) = h + k
      BY <2>2 DEF u
    <3> HIDE DEF z
    <3>3. u \o z \in Seq(Parts3) /\ Len(u \o z) = Len(u) + Len(z)
          /\ \A i \in 1..Len(u) + Len(z) : (u \o z)[i] = IF i <= Len(u) THEN u[i]
                ELSE z[i - Len(u)]
      BY <3>1, <3>2, ConcatProperties, Zenon
    <3> QED BY <2>1, <3>1, <3>2, <3>3
  <2>4. r = u \o z
    BY <1>14 DEF u
  <2>5. \A i \in 1..h : r[i] = x[i]
    BY <2>1, <2>2, <2>3, <2>4 DEF u
  <2>6. ASSUME NEW c \in 1..k PROVE r[h + c] = y[c]
    <3>1. h + c \in 1..h + k /\ h + c \in 1..h + k + t /\ ~(h + c <= h)
          /\ (h + c) - h = c
      BY <2>1
    <3> QED BY <2>2, <2>3, <2>4, <3>1 DEF u
  <2>7. ASSUME NEW i \in 1..t PROVE r[h + k + i] = z[i]
    <3>1. h + k + i \in 1..h + k + t /\ ~(h + k + i <= h + k)
          /\ (h + k + i) - (h + k) = i
      BY <2>1
    <3> QED BY <2>3, <2>4, <3>1
  <2> QED BY <2>3, <2>4, <2>5, <2>6, <2>7
<1>16. /\ \A i \in 1..h : r[i] = messages[i]
       /\ \A c \in 1..k : r[h + c] = [from |-> messages[h + ((c - 1) * w) + 1].from,
                to |-> messages[h + (IF c * w <= m THEN c * w ELSE m)].to,
                verbatim |-> FALSE]
       /\ \A i \in 1..t : r[h + k + i] = messages[h + m + i]
  <2> HIDE DEF r, mid
  <2> QED BY <1>10, <1>11, <1>12, <1>15
<1>17. h \in Nat /\ t \in Nat /\ w \in Nat /\ m \in Nat /\ k \in Nat /\ w > 0 /\ m > 0
       /\ t > 1
  <2>1. t > 0 /\ k \in Nat
    BY <1>4, <1>6
  <2> QED BY <1>3, <1>5, <2>1
<1>18. k = (m + w - 1) \div w /\ h + m + t = Len(messages) /\ (compression.head > 0 =>
           h > 1)
  BY <1>3, <1>5, <1>e, <1>g
<1>19. IsFolded(h, t, w, m, k)
  <2> HIDE DEF r
  <2> QED BY <1>15, <1>16, <1>17, <1>18 DEF IsFolded, r
<1> QED BY <1>17, <1>19

\* A compression loses no part of the conversation, and keeps its ends.
LEMMA CompressKeeps ==
  ASSUME LongEnough
  PROVE  /\ Trajectory!Compress(messages) \in Seq(Parts3)
         /\ InOrder(Trajectory!Compress(messages), said)
         /\ EndsStay(Trajectory!Compress(messages), said)
<1> DEFINE r == Trajectory!Compress(messages)
<1>1. PICK h \in Nat, t \in Nat, w \in Nat, m \in Nat,
           k \in Nat : IsFolded(h, t, w, m, k)
  BY Folds
<1>2. /\ t > 1 /\ (compression.head > 0 => h > 1) /\ w > 0 /\ m > 0
      /\ h + m + t = Len(messages) /\ k = (m + w - 1) \div w
      /\ r \in Seq(Parts3) /\ Len(r) = h + k + t
  BY <1>1 DEF IsFolded
<1>3. /\ \A i \in 1..h : r[i] = messages[i]
      /\ \A c \in 1..k : r[h + c] = [from |-> messages[h + ((c - 1) * w) + 1].from,
                                    to |-> messages[h + (IF c * w <= m THEN c * w
                                        ELSE m)].to,
                                    verbatim |-> FALSE]
      /\ \A i \in 1..t : r[h + k + i] = messages[h + m + i]
  BY <1>1 DEF IsFolded
<1>4. /\ messages \in Seq(Parts3) /\ InOrder(messages, said) /\ EndsStay(messages, said)
      /\ said \in 0..MaxSaid /\ said \in Nat /\ said > 0 /\ Len(messages) > 4
  <2>1. /\ messages \in Seq(Parts3) /\ InOrder(messages, said)
        /\ EndsStay(messages, said)
        /\ said \in 0..MaxSaid /\ Len(messages) > 4 /\ said \in Nat
    BY DEF LongEnough, TrajectoryInv
  <2> QED BY <2>1 DEF InOrder
<1>5. /\ k \in Nat \ {0} /\ k * w >= m
      /\ \A c \in 1..k : /\ (c - 1) * w \in Nat /\ (c - 1) * w < m
                         /\ c * w \in Nat /\ (c - 1) * w < c * w
      /\ \A c \in 1..k : c # k => c * w < m
      /\ \A c, d \in 1..k : c < d => c * w <= (d - 1) * w
  <2>1. m \in Nat \ {0} /\ w \in Nat \ {0} /\ k = (m + w - 1) \div w
    BY <1>2
  <2> QED BY <2>1
<1> DEFINE P(c) == (c - 1) * w
           Q(c) == IF c * w <= m THEN c * w ELSE m
<1>6. /\ \A c \in 1..k : P(c) \in Nat /\ Q(c) \in Nat /\ P(c) < Q(c) /\ Q(c) <= m
      /\ \A c, d \in 1..k : c < d => Q(c) <= P(d)
  BY <1>5
<1>7. Q(k) = m
  <2> QED BY <1>5
<1>8. P(1) = 0
  OBVIOUS
<1>9. \A c \in 1..k : c # 1 => c - 1 \in 1..k /\ P(c) = Q(c - 1)
  <2>1. ASSUME NEW c \in 1..k, c # 1 PROVE c - 1 \in 1..k /\ P(c) = Q(c - 1)
    <3>1. c - 1 \in 1..k /\ c - 1 # k
      BY <2>1
    <3>2. (c - 1) * w < m /\ (c - 1) * w \in Nat
      BY <1>5
    <3> QED BY <3>1, <3>2
  <2> QED BY <2>1
<1>10. /\ \A i \in 1..h : r[i] = messages[i]
       /\ \A c \in 1..k : r[h + c].from = messages[h + P(c) + 1].from
                         /\ r[h + c].to = messages[h + Q(c)].to
       /\ \A i \in 1..t : r[h + k + i] = messages[h + m + i]
  <2>1. ASSUME NEW c \in 1..k
        PROVE  r[h + c].from = messages[h + P(c) + 1].from
               /\ r[h + c].to = messages[h + Q(c)].to
    <3> DEFINE a == messages[h + P(c) + 1]
               b == messages[h + Q(c)]
    <3>1. r[h + c] = [from |-> a.from, to |-> b.to, verbatim |-> FALSE]
      BY <1>3
    <3> HIDE DEF a, b, r
    <3>2. r[h + c].from = a.from /\ r[h + c].to = b.to
      BY <3>1
    <3> QED BY <3>2 DEF a, b
  <2> QED BY <1>3, <2>1
<1> DEFINE f(i) == IF i <= h THEN i ELSE IF i <= h + k THEN h + P(i - h) + 1
               ELSE (i - k) + m
           g(i) == IF i <= h THEN i ELSE IF i <= h + k THEN h + Q(i - h)
               ELSE (i - k) + m
           n == Len(messages)
<1> HIDE DEF P, Q, r
<1>11. ASSUME NEW i \in 1..Len(r)
       PROVE  /\ f(i) \in 1..n /\ g(i) \in 1..n /\ f(i) <= g(i)
              /\ r[i].from = messages[f(i)].from /\ r[i].to = messages[g(i)].to
  <2>1. n \in Nat /\ n = h + m + t /\ Len(r) = h + k + t
    BY <1>2
  <2>2. CASE i <= h
    BY <1>10, <2>1, <2>2
  <2>3. CASE ~(i <= h) /\ i <= h + k
    <3> DEFINE c == i - h
    <3>1. c \in 1..k /\ i = h + c
      BY <2>3
    <3> HIDE DEF c
    <3>2. P(c) \in Nat /\ Q(c) \in Nat /\ P(c) < Q(c) /\ Q(c) <= m
      BY <1>6, <3>1
    <3>3. f(i) = h + P(c) + 1 /\ g(i) = h + Q(c)
      BY <2>3 DEF c
    <3>4. r[i].from = messages[f(i)].from /\ r[i].to = messages[g(i)].to
      <4> HIDE DEF f, g
      <4> QED BY <1>10, <3>1, <3>3
    <3>5. h + P(c) + 1 \in 1..n /\ h + Q(c) \in 1..n /\ h + P(c) + 1 <= h + Q(c)
      BY <2>1, <3>2
    <3> HIDE DEF f, g
    <3> QED BY <3>3, <3>4, <3>5
  <2>4. CASE i > h + k
    <3> DEFINE c == i - (h + k)
    <3>1. c \in 1..t /\ i = h + k + c /\ (i - k) + m = h + m + c /\ ~(i <= h)
          /\ ~(i <= h + k)
      BY <2>1, <2>4
    <3> HIDE DEF c
    <3>2. f(i) = h + m + c /\ g(i) = h + m + c
      BY <3>1
    <3>3. h + m + c \in 1..n
      BY <2>1, <3>1
    <3>4. r[i] = messages[h + m + c]
      BY <1>10, <3>1
    <3> HIDE DEF f, g
    <3> QED BY <3>2, <3>3, <3>4
  <2> QED BY <2>2, <2>3, <2>4
<1>12. ASSUME NEW i \in 1..Len(r), i # 1 PROVE f(i) = g(i - 1) + 1
  <2>1. Len(r) = h + k + t /\ k \in Nat \ {0} /\ i \in Nat /\ i > 1
    BY <1>2, <1>12
  <2>2. CASE i <= h
    BY <2>2
  <2>3. CASE i = h + 1
    <3>1. f(i) = h + P(1) + 1
      <4>1. i - h = 1 /\ ~(i <= h) /\ i <= h + k
        BY <2>1, <2>3
      <4> QED BY <4>1
    <3>2. g(i - 1) = h
      BY <2>3
    <3> QED BY <1>8, <3>1, <3>2
  <2>4. CASE i > h + 1 /\ i <= h + k
    <3> DEFINE c == i - h
    <3>1. c \in 1..k /\ c # 1 /\ ~(i <= h) /\ ~(i - 1 <= h) /\ i - 1 <= h + k
          /\ (i - 1) - h = c - 1
      BY <2>4
    <3>2. f(i) = h + P(c) + 1 /\ g(i - 1) = h + Q(c - 1)
      BY <2>4
    <3> HIDE DEF c
    <3>3. P(c) = Q(c - 1) /\ P(c) \in Nat
      BY <1>6, <1>9, <3>1
    <3> QED BY <3>2, <3>3
  <2>5. CASE i = h + k + 1
    <3>1. f(i) = h + 1 + m
      BY <2>5
    <3>2. g(i - 1) = h + Q(k)
      <4>1. i - 1 = h + k /\ ~(i - 1 <= h) /\ i - 1 <= h + k /\ (i - 1) - h = k
        BY <2>1, <2>5
      <4> QED BY <4>1
    <3> QED BY <1>7, <3>1, <3>2
  <2>6. CASE i > h + k + 1
    BY <2>6
  <2> QED BY <2>3, <2>4, <2>5
<1>13. ASSUME NEW i \in 1..Len(r), NEW j \in 1..Len(r), i < j PROVE g(i) < f(j)
  <2>1. Len(r) = h + k + t /\ k \in Nat \ {0} /\ i \in Nat /\ j \in Nat /\ i < j
    BY <1>2, <1>13
  <2>2. g(i) <= (IF i <= h THEN i ELSE IF i <= h + k THEN h + m ELSE (i - k) + m)
        /\ g(i) \in Nat
    <3>1. CASE ~(i <= h) /\ i <= h + k
      <4>1. i - h \in 1..k
        BY <3>1
      <4>3. Q(i - h) \in Nat /\ Q(i - h) <= m
        BY <1>6, <4>1
      <4> QED BY <4>3
    <3>2. CASE i <= h
      BY <3>2
    <3>3. CASE i > h + k
      BY <3>3
    <3> QED BY <3>1
  <2>3. CASE j <= h
    BY <2>1, <2>3
  <2>4. CASE ~(j <= h) /\ j <= h + k
    <3>1. j - h \in 1..k /\ f(j) = h + P(j - h) + 1 /\ P(j - h) \in Nat
      <4>1. j - h \in 1..k
        BY <2>4
      <4> QED BY <1>6, <4>1
    <3>2. CASE i <= h
      BY <3>1, <3>2
    <3>3. CASE ~(i <= h)
      <4>1. i <= h + k /\ i - h \in 1..k /\ i - h < j - h
        BY <2>1, <2>4, <3>3
      <4>2. Q(i - h) <= P(j - h) /\ Q(i - h) \in Nat
        BY <1>6, <3>1, <4>1
      <4>3. g(i) = h + Q(i - h)
        BY <4>1
      <4> QED BY <3>1, <4>2, <4>3
    <3> QED BY <3>2, <3>3
  <2>5. CASE j > h + k
    <3>1. f(j) = (j - k) + m /\ j - k > h
      BY <2>5
    <3> HIDE DEF f, g
    <3> QED BY <2>1, <2>2, <3>1
  <2> QED BY <2>1, <2>4, <2>5
<1>14. Len(r) > 0 /\ f(1) = 1 /\ g(Len(r)) = n
  <2>1. Len(r) = h + k + t /\ k \in Nat \ {0} /\ n = h + m + t
    BY <1>2
  <2>3. f(1) = 1
    <3>1. CASE h > 0
      BY <3>1
    <3>2. CASE h = 0
      <4>1. ~(1 <= h) /\ 1 <= h + k /\ 1 - h = 1
        BY <2>1, <3>2
      <4>2. f(1) = h + P(1) + 1
        BY <4>1
      <4> QED BY <1>8, <4>2
    <3> QED BY <3>2
  <2> QED BY <1>2, <2>3
<1>15. InOrder(r, said)
  <2> HIDE DEF f, g
  <2>1. r \in Seq(Parts3) /\ said \in Nat \ {0}
    BY <1>2, <1>4
  <2> DEFINE F == [i \in 1..Len(r) |-> f(i)]
             G == [i \in 1..Len(r) |-> g(i)]
  <2>a. \A i \in 1..Len(r) : F[i] = f(i) /\ G[i] = g(i)
    OBVIOUS
  <2> HIDE DEF F, G
  <2>2. \A i \in 1..Len(r) : /\ F[i] \in 1..Len(messages) /\ G[i] \in 1..Len(messages)
                              /\ F[i] <= G[i]
                              /\ r[i].from = messages[F[i]].from
                              /\ r[i].to = messages[G[i]].to
    BY <1>11, <2>a
  <2>3. \A i \in 1..Len(r) : i # 1 => F[i] = G[i - 1] + 1
    BY <1>12, <2>a
  <2>4. \A i, j \in 1..Len(r) : i < j => G[i] < F[j]
    BY <1>13, <2>a
  <2>5. Len(r) > 0 /\ F[1] = 1 /\ G[Len(r)] = Len(messages)
    BY <1>14, <2>a
  <2>6. messages \in Seq(Parts3) /\ InOrder(messages, said)
    BY <1>4
  <2> HIDE DEF n
  <2> QED BY <2>1, <2>2, <2>3, <2>4, <2>5, <2>6, PartsInOrder
<1>16. EndsStay(r, said)
  <2>1. Len(r) \in Nat /\ Len(r) > 1 /\ r[Len(r)] = messages[n]
        /\ r[Len(r) - 1] = messages[n - 1]
    <3>1. t \in 1..t /\ t - 1 \in 1..t /\ Len(r) = h + k + t
          /\ Len(r) - 1 = h + k + (t - 1)
          /\ n = h + m + t /\ n - 1 = h + m + (t - 1) /\ k \in Nat \ {0}
      BY <1>2
    <3>2. r[h + k + t] = messages[h + m + t]
          /\ r[h + k + (t - 1)] = messages[h + m + (t - 1)]
      BY <1>10, <3>1
    <3> QED BY <3>1, <3>2
  <2>2. compression.head > 0 => r[1] = messages[1]
    <3> QED BY <1>2, <1>10
  <2> HIDE DEF n
  <2> QED BY <1>4, <2>1, <2>2 DEF EndsStay, n
<1> QED BY <1>2, <1>15, <1>16 DEF r

LEMMA TrajectoryInit == ASSUME Trajectory!Init PROVE TrajectoryInv
<1>1. said = 0 /\ messages = <<>>
      /\ compression \in [head : Turns, tail : Turns, segment : Turns \ {0}]
  BY DEF Trajectory!Init
<1>2. 0 \in 0..MaxSaid
  BY TrajectoryAssumption
<1>4. InOrder(messages, said) /\ EndsStay(messages, said)
  BY <1>1 DEF InOrder, EndsStay
<1> QED BY <1>1, <1>2, <1>4 DEF TrajectoryInv

LEMMA SayKeeps == ASSUME TrajectoryInv, Trajectory!Say PROVE TrajectoryInv'
<1> DEFINE n == Len(messages)
           new == Trajectory!Message(said + 1)
<1>1. /\ said < MaxSaid /\ said' = said + 1 /\ compression' = compression
      /\ messages' = Append(messages, new)
  BY DEF Trajectory!Say
<1>2. /\ compression \in [head : Turns, tail : Turns, segment : Turns \ {0}]
      /\ said \in 0..MaxSaid /\ MaxSaid \in Nat /\ said + 1 \in 1..MaxSaid
      /\ messages \in Seq(Parts3) /\ InOrder(messages, said) /\ EndsStay(messages, said)
  BY <1>1, TrajectoryAssumption DEF TrajectoryInv
<1>3. new \in Parts3 /\ new.from = said + 1 /\ new.to = said + 1
  BY <1>2 DEF Trajectory!Message, Parts3
<1>4. /\ messages' \in Seq(Parts3) /\ n \in Nat /\ Len(messages') = n + 1
      /\ messages'[n + 1] = new /\ \A i \in 1..n : messages'[i] = messages[i]
  <2> HIDE DEF new
  <2> QED BY <1>1, <1>2, <1>3
<1>5. /\ said > 0 => n > 0 /\ messages[n].to = said
      /\ said = 0 => n = 0
  BY <1>2 DEF InOrder
<1> HIDE DEF new
<1>6. InOrder(messages', said')
  <2>1. ASSUME NEW i \in 1..n + 1
        PROVE  /\ messages'[i].from <= messages'[i].to
               /\ messages'[i].from = (IF i = 1 THEN 1 ELSE messages'[i - 1].to + 1)
    <3>1. CASE i \in 1..n
      <4>1. messages'[i] = messages[i] /\ (i # 1 => messages'[i - 1] = messages[i - 1])
        BY <1>4, <3>1
      <4>2. /\ messages[i].from <= messages[i].to
            /\ messages[i].from = (IF i = 1 THEN 1 ELSE messages[i - 1].to + 1)
        BY <1>2, <3>1 DEF InOrder
      <4> QED BY <4>1, <4>2
    <3>2. CASE i = n + 1
      <4>1. messages'[i] = new
        BY <1>4, <3>2
      <4>2. CASE said = 0
        <5>1. i = 1
          BY <1>5, <4>2
        <5> QED BY <1>3, <4>1, <4>2, <5>1
      <4>3. CASE said > 0
        <5>1. i # 1 /\ i - 1 \in 1..n /\ i - 1 = n
          BY <1>5, <3>2, <4>3
        <5>2. messages'[i - 1].to = said
          BY <1>4, <1>5, <4>3, <5>1
        <5> QED BY <1>2, <1>3, <4>1, <5>1, <5>2
      <4> QED BY <1>2, <4>2, <4>3
    <3> QED BY <3>1, <3>2
  <2>2. ASSUME NEW i \in 1..n + 1, NEW j \in 1..n + 1, i < j
                   PROVE messages'[i].to < messages'[j].from
    <3>1. i \in 1..n /\ messages'[i] = messages[i]
      BY <1>4, <2>2
    <3>2. CASE j \in 1..n
      <4>1. messages[i].to < messages[j].from
        BY <1>2, <2>2, <3>2 DEF InOrder
      <4> QED BY <1>4, <3>1, <3>2, <4>1
    <3>3. CASE j = n + 1
      <4>1. said > 0 /\ n > 0 /\ messages[n].to = said
        BY <1>2, <1>5, <3>1
      <4>2. messages[i].to <= said
        <5>1. CASE i = n
          BY <1>2, <4>1, <5>1
        <5>2. CASE i < n
          <6>1. n \in 1..n /\ messages[i] \in Parts3 /\ messages[n] \in Parts3
            BY <1>2, <3>1
          <6>2. messages[i].to < messages[n].from /\ messages[n].from <= messages[n].to
            BY <1>2, <5>2 DEF InOrder
          <6>3. messages[i].to \in Int /\ messages[n].from \in Int
                /\ messages[n].to \in Int
            BY <6>1 DEF Parts3
          <6> QED BY <4>1, <6>2, <6>3
        <5> QED BY <3>1, <5>1, <5>2
      <4>3. messages[i].to \in Int
        <5>1. messages[i] \in Parts3
          BY <1>2, <3>1
        <5> QED BY <5>1 DEF Parts3
      <4>4. messages'[j].from = said + 1
        BY <1>3, <1>4, <3>3
      <4> QED BY <1>2, <3>1, <4>2, <4>3, <4>4
    <3> QED BY <3>2, <3>3
  <2>3. said' > 0 /\ Len(messages') > 0 /\ messages'[Len(messages')].to = said'
    BY <1>1, <1>2, <1>3
  <2> QED BY <1>4, <2>1, <2>2, <2>3 DEF InOrder
<1>7. EndsStay(messages, said)'
  <2>1. messages'[Len(messages')] = Trajectory!Message(said')
    BY <1>1 DEF new
  <2>2. said' > 1 =>
            Len(messages') > 1
            /\ messages'[Len(messages') - 1] = Trajectory!Message(said' - 1)
    <3>1. SUFFICES ASSUME said > 0 PROVE Len(messages') > 1
                          /\ messages'[Len(messages') - 1] = Trajectory!Message(said' - 1)
      BY <1>1, <1>2
    <3>2. n > 0 /\ messages[n] = Trajectory!Message(said)
      BY <1>2, <1>5, <3>1 DEF EndsStay
    <3>3. Len(messages') - 1 = n /\ n \in 1..n /\ said' - 1 = said
      BY <1>1, <1>2, <3>2
    <3> QED BY <1>4, <3>2, <3>3
  <2>3. compression'.head > 0 => messages'[1] = Trajectory!Message(1)
    <3>1. CASE said = 0
      <4>1. n = 0
        BY <1>5, <3>1
      <4> QED BY <1>4, <3>1, <4>1 DEF new
    <3>2. CASE said > 0
      <4>1. compression.head > 0 => messages[1] = Trajectory!Message(1)
        BY <1>2, <3>2 DEF EndsStay
      <4>2. 1 \in 1..n
        BY <1>5, <3>2
      <4> QED BY <1>1, <4>1, <4>2
    <3> QED BY <1>2, <3>1, <3>2
  <2> QED BY <2>1, <2>2, <2>3 DEF EndsStay
<1> QED BY <1>1, <1>2, <1>4, <1>6, <1>7 DEF TrajectoryInv

LEMMA TrajectoryNext == ASSUME TrajectoryInv, [Trajectory!Next]_trajectoryVars
    PROVE TrajectoryInv'
<1>1. CASE Trajectory!Say
  BY <1>1, SayKeeps
<1>2. CASE Trajectory!CompressNow
  <2>1. messages' = Trajectory!Compress(messages) /\ compression' = compression
        /\ said' = said
    BY <1>2 DEF Trajectory!CompressNow
  <2>2. CASE LongEnough
    <3>1. /\ messages' \in Seq(Parts3) /\ InOrder(messages', said')
          /\ EndsStay(Trajectory!Compress(messages), said)
      BY <2>1, <2>2, CompressKeeps
    <3>2. EndsStay(messages, said)'
      BY <2>1, <3>1 DEF EndsStay
    <3> QED BY <2>1, <3>1, <3>2 DEF TrajectoryInv
  <2>3. CASE ~LongEnough
    <3>2. Len(messages) <= 4 \/ Trajectory!Middle(messages) = <<>>
      BY <2>3 DEF LongEnough
    <3>3. messages' = messages
      BY <2>1, <3>2 DEF Trajectory!Compress
    <3> QED BY <2>1, <3>3 DEF TrajectoryInv, InOrder, EndsStay
  <2> QED BY <2>2, <2>3
<1>3. CASE UNCHANGED trajectoryVars
  BY <1>3 DEF TrajectoryInv, InOrder, EndsStay, trajectoryVars
<1> QED BY <1>1, <1>2, <1>3 DEF Trajectory!Next

LEMMA StoryIsKept == ASSUME TrajectoryInv PROVE Trajectory!WholeStoryIsKept
<1> DEFINE n == Len(messages)
           asked == {i \in DOMAIN messages : Trajectory!IsUser(messages[i])}
           answered == {i \in DOMAIN messages : Trajectory!IsAssistant(messages[i])}
<1>1. /\ said \in Nat /\ messages \in Seq(Parts3) /\ n \in Nat /\ DOMAIN messages = 1..n
      /\ InOrder(messages, said) /\ EndsStay(messages, said)
  BY DEF TrajectoryInv
<1>2. said > 0 => n > 0 /\ messages # <<>> /\ messages[n].to = said
  BY <1>1 DEF InOrder
<1>3. ASSUME said > 0, compression.head > 0
                 PROVE Trajectory!InitialRequest(messages) = 1
  <2>1. messages[1] = Trajectory!Message(1) /\ 1 \in DOMAIN messages
    BY <1>1, <1>2, <1>3 DEF EndsStay
  <2>2. 1 \in asked /\ \A i \in asked : i \in Nat /\ 1 <= i
    BY <1>1, <2>1 DEF Trajectory!IsUser, Trajectory!Message
  <2> HIDE DEF asked
  <2>3. Trajectory!Min(asked) \in asked /\ \A i \in asked : Trajectory!Min(asked) <= i
    <3>1. \E x \in asked : \A y \in asked : x <= y
      BY <2>2
    <3> QED BY <3>1 DEF Trajectory!Min
  <2>4. Trajectory!Min(asked) = 1
    BY <2>2, <2>3
  <2>5. Trajectory!InitialRequest(messages) = (IF asked = {} THEN 0
            ELSE messages[Trajectory!Min(asked)].from)
    BY DEF Trajectory!InitialRequest, asked
  <2>6. Trajectory!InitialRequest(messages) = messages[1].from
    BY <2>2, <2>4, <2>5
  <2>7. Trajectory!Message(1).from = 1
    BY MessageFields
  <2> QED BY <2>1, <2>6, <2>7
<1>4. ASSUME said > 1 PROVE Trajectory!LastResponse(messages) = said - (said % 2)
  <2>1. /\ messages[n] = Trajectory!Message(said) /\ n > 1
        /\ messages[n - 1] = Trajectory!Message(said - 1)
        /\ n \in DOMAIN messages /\ n - 1 \in DOMAIN messages
    BY <1>1, <1>4 DEF EndsStay
  <2>2. \A i \in answered : i \in Nat /\ i <= n
    OBVIOUS
  <2>3. Trajectory!IsAssistant(Trajectory!Message(said)) <=> said % 2 = 0
    BY DEF Trajectory!IsAssistant, Trajectory!Message
  <2>4. Trajectory!IsAssistant(Trajectory!Message(said - 1)) <=> (said - 1) % 2 = 0
    BY DEF Trajectory!IsAssistant, Trajectory!Message
  <2>5. n \in answered <=> said % 2 = 0
    BY <2>1, <2>3
  <2>6. n - 1 \in answered <=> (said - 1) % 2 = 0
    BY <2>1, <2>4
  <2>7. Trajectory!LastResponse(messages) = (IF answered = {} THEN 0
            ELSE messages[Trajectory!Max(answered)].from)
    BY DEF Trajectory!LastResponse
  <2> HIDE DEF answered
  <2>8. ASSUME NEW k \in answered, \A i \in answered : i <= k
        PROVE  Trajectory!LastResponse(messages) = messages[k].from
    <3>1. Trajectory!Max(answered) \in answered
          /\ \A i \in answered : Trajectory!Max(answered) >= i
      <4>1. \E x \in answered : \A y \in answered : x >= y
        BY <2>8
      <4> QED BY <4>1 DEF Trajectory!Max
    <3>2. Trajectory!Max(answered) = k
      BY <2>2, <2>8, <3>1
    <3> QED BY <2>7, <3>2
  <2>9. CASE said % 2 = 0
    <3>1. n \in answered
      BY <2>5, <2>9
    <3>2. Trajectory!LastResponse(messages) = messages[n].from
      BY <2>2, <2>8, <3>1
    <3>3. messages[n].from = said
      BY <2>1, MessageFields
    <3> QED BY <1>1, <2>9, <3>2, <3>3
  <2>10. CASE said % 2 # 0
    <3>1. said % 2 = 1 /\ (said - 1) % 2 = 0
      BY <1>1, <2>10
    <3>2. n - 1 \in answered /\ n \notin answered
      BY <2>5, <2>6, <3>1
    <3>3. \A i \in answered : i <= n - 1
      BY <2>2, <3>2
    <3>4. Trajectory!LastResponse(messages) = messages[n - 1].from
      BY <2>8, <3>2, <3>3
    <3> QED BY <2>1, <3>1, <3>4, MessageFields
  <2> QED BY <2>9, <2>10
<1>5. \A i \in DOMAIN messages :
          /\ messages[i].from <= messages[i].to
          /\ messages[i].from = (IF i = 1 THEN 1 ELSE messages[i - 1].to + 1)
  BY <1>1 DEF InOrder
<1> QED BY <1>2, <1>3, <1>4, <1>5 DEF Trajectory!WholeStoryIsKept

LEMMA TrajectoryTypes == ASSUME TrajectoryInv PROVE Trajectory!TypeOK
BY DEF TrajectoryInv, Trajectory!TypeOK, Parts3
-----------------------------------------------------------------------------
\* Locks and counts of sessions (SessionIsolation).
LEMMA IsolationSize == ASSUME NEW S PROVE Isolation!Cardinality(S) = Cardinality(S)
BY DEF Isolation!Cardinality, Cardinality

\* At most one thing at a time, of a session in one of its lives.
OneOf(hs) == hs = {} \/ \E h \in Isolation!Lives : hs = {h}

\* What anybody has of a session that was created when nobody used it is of its present
\* life.
OfTheirLife == \A s \in clean : \A u \in Users : \A h \in holder[u] \cup toolCalls[u] :
                   h.session = s => h = Isolation!Now(s)

\* One user has the lock, and the calls are counted.
Isolated(s) == /\ \A u, v \in Users : Isolation!Now(s) \in holder[u]
                  /\ Isolation!Now(s) \in holder[v] => u = v
               /\ \A u \in Users : Isolation!Now(s) \in holder[u] => s \in locked
               /\ IsFiniteSet(Isolation!Running(s))
               /\ toolsRunning[s] = Cardinality(Isolation!Running(s))

IsolationInv == /\ known \subseteq Sessions /\ locked \subseteq known
                /\ idleSessions \subseteq Sessions /\ clean \subseteq Sessions
                /\ toolsRunning \in [Sessions -> 0..MaxConcurrent]
                /\ minute \in [Sessions -> 0..MaxPerMinute]
                /\ life \in [Sessions -> 0..MaxLives]
                /\ holder \in [Users -> SUBSET Isolation!Lives]
                /\ toolCalls \in [Users -> SUBSET Isolation!Lives]
                /\ \A u \in Users : OneOf(holder[u]) /\ OneOf(toolCalls[u])
                /\ \A s \in known : life[s] # 0
                /\ OfTheirLife
                /\ \A s \in known \cap clean : Isolated(s)

LEMMA IsolationTypes == IsolationInv => Isolation!TypeOK
<1> SUFFICES ASSUME IsolationInv PROVE Isolation!TypeOK
  OBVIOUS
<1>1. ASSUME NEW hs, OneOf(hs) PROVE Cardinality(hs) <= 1
  <2>1. CASE hs = {}
    BY <2>1, FS_EmptySet
  <2>2. CASE hs # {}
    <3>1. PICK h : hs = {h}
      BY <1>1, <2>2 DEF OneOf
    <3> QED BY <3>1, FS_Singleton
  <2> QED BY <2>1, <2>2
<1>2. \A u \in Users : /\ Cardinality(holder[u]) <= 1
                       /\ holder[u] \subseteq Isolation!Lives
                       /\ Cardinality(toolCalls[u]) <= 1
                       /\ toolCalls[u] \subseteq Isolation!Lives
  BY <1>1 DEF IsolationInv
<1> QED BY IsolationSize, <1>2 DEF IsolationInv, Isolation!TypeOK

LEMMA OneHolder == IsolationInv => Isolation!OneHolderPerLife
<1> SUFFICES ASSUME IsolationInv, NEW s \in known \cap clean
             PROVE  /\ Cardinality(Isolation!Holders(s)) <= 1
                    /\ Isolation!Holders(s) # {} => s \in locked
                    /\ toolsRunning[s] = Cardinality(Isolation!Running(s))
                    /\ toolsRunning[s] <= MaxConcurrent
  BY IsolationSize DEF Isolation!OneHolderPerLife
<1>1. Isolated(s) /\ s \in Sessions /\ toolsRunning[s] \in 0..MaxConcurrent
  BY DEF IsolationInv
<1>2. Cardinality(Isolation!Holders(s)) <= 1
  <2>1. CASE Isolation!Holders(s) = {}
    BY <2>1, FS_EmptySet
  <2>2. CASE Isolation!Holders(s) # {}
    <3>1. PICK u : u \in Isolation!Holders(s)
      BY <2>2
    <3>2. Isolation!Holders(s) = {u}
      BY <1>1, <3>1 DEF Isolation!Holders, Isolated
    <3>3. Cardinality({u}) = 1
      BY FS_Singleton
    <3> QED BY <3>2, <3>3
  <2> QED BY <2>1, <2>2
<1>3. Isolation!Holders(s) # {} => s \in locked
  BY <1>1 DEF Isolation!Holders, Isolated
<1> QED BY <1>1, <1>2, <1>3 DEF Isolated

LEMMA IsolationInit == Isolation!Init => IsolationInv
<1> SUFFICES ASSUME Isolation!Init PROVE IsolationInv
  OBVIOUS
<1>1. 0 \in 0..MaxConcurrent /\ 0 \in 0..MaxPerMinute /\ 0 \in 0..MaxLives
  BY IsolationAssumption
<1> QED BY <1>1 DEF Isolation!Init, IsolationInv, OneOf, OfTheirLife

\* A session of which nothing changed is isolated as before.
LEMMA StaysIsolated ==
  ASSUME NEW s \in Sessions, Isolated(s), life'[s] = life[s],
         toolsRunning'[s] = toolsRunning[s],
         \A u \in Users : Isolation!Now(s) \in holder'[u]
             <=> Isolation!Now(s) \in holder[u],
         \A u \in Users : Isolation!Now(s) \in toolCalls'[u]
             <=> Isolation!Now(s) \in toolCalls[u],
         s \in locked => s \in locked'
  PROVE  Isolated(s)'
<1>1. Isolation!Now(s)' = Isolation!Now(s)
  BY DEF Isolation!Now
<1>2. Isolation!Running(s)' = Isolation!Running(s)
  BY <1>1 DEF Isolation!Running
<1> QED BY <1>1, <1>2 DEF Isolated

LEMMA LifeOfKnown ==
  ASSUME life \in [Sessions -> 0..MaxLives], NEW s \in Sessions, life[s] # 0
  PROVE  Isolation!Now(s) \in Isolation!Lives /\ Isolation!Now(s).session = s
<1> QED BY DEF Isolation!Now, Isolation!Lives

LEMMA SessionsEnd ==
  ASSUME IsolationInv, NEW ss \in SUBSET Sessions, Isolation!Gone(ss)
  PROVE  IsolationInv'
<1>1. /\ known' = known \ ss /\ locked' = locked \ ss
      /\ idleSessions' = idleSessions \ ss
      /\ toolsRunning' = [s \in Sessions |-> IF s \in ss THEN 0 ELSE toolsRunning[s]]
      /\ minute' = [s \in Sessions |-> IF s \in ss THEN 0 ELSE minute[s]]
      /\ UNCHANGED <<life, clean, holder, toolCalls>>
  BY DEF Isolation!Gone, Isolation!Zero
<1>2. 0 \in 0..MaxConcurrent /\ 0 \in 0..MaxPerMinute
  BY IsolationAssumption
<1>3. /\ known' \subseteq Sessions /\ locked' \subseteq known'
      /\ idleSessions' \subseteq Sessions /\ clean' \subseteq Sessions
      /\ toolsRunning' \in [Sessions -> 0..MaxConcurrent]
      /\ minute' \in [Sessions -> 0..MaxPerMinute]
      /\ life' \in [Sessions -> 0..MaxLives]
      /\ holder' \in [Users -> SUBSET Isolation!Lives]
      /\ toolCalls' \in [Users -> SUBSET Isolation!Lives]
      /\ \A u \in Users : OneOf(holder'[u]) /\ OneOf(toolCalls'[u])
      /\ \A s \in known' : life'[s] # 0
  BY <1>1, <1>2 DEF IsolationInv, OneOf, Isolation!Lives
<1>4. OfTheirLife'
  BY <1>1 DEF IsolationInv, OfTheirLife, Isolation!Now
<1>5. ASSUME NEW s \in known' \cap clean' PROVE Isolated(s)'
  <2>1. s \in Sessions /\ Isolated(s) /\ toolsRunning'[s] = toolsRunning[s]
        /\ life'[s] = life[s]
        /\ (s \in locked => s \in locked') /\ holder' = holder /\ toolCalls' = toolCalls
    BY <1>1 DEF IsolationInv
  <2> QED BY <2>1, StaysIsolated
<1> QED BY <1>3, <1>4, <1>5 DEF IsolationInv, OneOf, Isolation!Lives

LEMMA IsolationNext == IsolationInv /\ [Isolation!Next]_isolationVars => IsolationInv'
<1> SUFFICES ASSUME IsolationInv, [Isolation!Next]_isolationVars PROVE IsolationInv'
  OBVIOUS
<1>0. /\ known \subseteq Sessions /\ locked \subseteq known
      /\ idleSessions \subseteq Sessions /\ clean \subseteq Sessions
      /\ toolsRunning \in [Sessions -> 0..MaxConcurrent]
      /\ minute \in [Sessions -> 0..MaxPerMinute]
      /\ life \in [Sessions -> 0..MaxLives]
      /\ holder \in [Users -> SUBSET Isolation!Lives]
      /\ toolCalls \in [Users -> SUBSET Isolation!Lives]
      /\ \A u \in Users : OneOf(holder[u]) /\ OneOf(toolCalls[u])
      /\ \A s \in known : life[s] # 0
  BY DEF IsolationInv
<1>01. OfTheirLife /\ \A s \in known \cap clean : Isolated(s)
  BY DEF IsolationInv
<1>1. ASSUME NEW t \in Sessions, Isolation!CreateSession(t) PROVE IsolationInv'
  <2> DEFINE uses == \E u \in Users : \E h \in holder[u]
                 \cup toolCalls[u] : h.session = t
  <2>1. PICK rest \in SUBSET known :
          /\ life[t] < MaxLives /\ known' = rest \cup {t} /\ locked \subseteq rest
    BY <1>0, <1>1 DEF Isolation!CreateSession, Isolation!Inactive
  <2>2. /\ locked' = locked \ {t} /\ idleSessions' = idleSessions \ {t}
        /\ toolsRunning' = [toolsRunning EXCEPT ![t] = 0]
        /\ minute' = [minute EXCEPT ![t] = 0]
        /\ life' = [life EXCEPT ![t] = @ + 1]
        /\ clean' = IF uses THEN clean \ {t} ELSE clean \cup {t}
        /\ UNCHANGED <<holder, toolCalls>>
    BY <1>1 DEF Isolation!CreateSession
  <2>3. 0 \in 0..MaxConcurrent /\ 0 \in 0..MaxPerMinute /\ life[t] + 1 \in 0..MaxLives
    BY <1>0, <2>1, IsolationAssumption
  <2>4. /\ known' \subseteq Sessions /\ locked' \subseteq known'
        /\ idleSessions' \subseteq Sessions /\ clean' \subseteq Sessions
        /\ toolsRunning' \in [Sessions -> 0..MaxConcurrent]
        /\ minute' \in [Sessions -> 0..MaxPerMinute]
        /\ life' \in [Sessions -> 0..MaxLives] /\ life'[t] = life[t] + 1
    BY <1>0, <2>1, <2>2, <2>3
  <2>5. \A s \in Sessions : s # t =>
            life'[s] = life[s] /\ toolsRunning'[s] = toolsRunning[s]
    BY <2>2
  <2>6. OfTheirLife'
    <3> SUFFICES ASSUME NEW s \in clean', NEW u \in Users, NEW h \in holder[u]
                            \cup toolCalls[u],
                        h.session = s
                 PROVE  h = Isolation!Now(s)'
      BY <2>2 DEF OfTheirLife
    <3>1. s # t /\ s \in clean /\ s \in Sessions
      BY <1>0, <2>2
    <3> QED BY <1>01, <2>5, <3>1 DEF OfTheirLife, Isolation!Now
  <2>7. ASSUME NEW s \in known' \cap clean' PROVE Isolated(s)'
    <3>1. CASE s = t
      <4>2. \A u \in Users : Isolation!Now(s)' \notin holder'[u]
            /\ Isolation!Now(s)' \notin toolCalls'[u]
        BY <2>2, <3>1 DEF Isolation!Now
      <4>3. Isolation!Running(s)' = {}
        BY <4>2 DEF Isolation!Running
      <4>4. IsFiniteSet(Isolation!Running(s)') /\ Cardinality(Isolation!Running(s)') = 0
        BY <4>3, FS_EmptySet
      <4>5. toolsRunning'[s] = 0
        BY <1>0, <2>2, <3>1
      <4> QED BY <4>2, <4>4, <4>5 DEF Isolated
    <3>2. CASE s # t
      <4>1. /\ s \in Sessions /\ Isolated(s) /\ (s \in locked => s \in locked')
            /\ toolsRunning'[s] = toolsRunning[s] /\ life'[s] = life[s]
            /\ holder' = holder /\ toolCalls' = toolCalls
        BY <1>0, <1>01, <2>1, <2>2, <3>2
      <4> QED BY <4>1, StaysIsolated
    <3> QED BY <3>1, <3>2
  <2>8. \A s \in known' : life'[s] # 0
    <3>1. life[t] \in Nat
      BY <1>0
    <3>2. life'[t] # 0
      BY <2>4, <3>1
    <3> QED BY <1>0, <2>1, <2>5, <3>2
  <2> QED BY <2>2, <2>4, <2>6, <2>7, <2>8 DEF IsolationInv
<1>2. ASSUME NEW t \in Sessions, Isolation!CloseSession(t) PROVE IsolationInv'
  <2>1. {t} \in SUBSET Sessions /\ Isolation!Gone({t})
    BY <1>2 DEF Isolation!CloseSession
  <2> QED BY <2>1, SessionsEnd
<1>3. CASE Isolation!CleanupInactiveSessions
  <2>1. Isolation!Inactive \in SUBSET Sessions /\ Isolation!Gone(Isolation!Inactive)
    BY <1>0, <1>3 DEF Isolation!CleanupInactiveSessions, Isolation!Inactive
  <2> QED BY <2>1, SessionsEnd
<1>4. ASSUME UNCHANGED <<known, locked, toolsRunning, life, clean, holder, toolCalls>>,
             idleSessions' \subseteq Sessions, minute' \in [Sessions -> 0..MaxPerMinute]
      PROVE  IsolationInv'
  <2>1. OfTheirLife'
    BY <1>01, <1>4 DEF OfTheirLife, Isolation!Now
  <2>2. \A s \in known' \cap clean' : Isolated(s)'
    <3> SUFFICES ASSUME NEW s \in known \cap clean PROVE Isolated(s)'
      BY <1>4
    <3>1. s \in Sessions /\ Isolated(s)
      BY <1>0, <1>01
    <3> QED BY <1>4, <3>1, StaysIsolated
  <2> QED BY <1>4, <2>1, <2>2 DEF IsolationInv, OneOf, Isolation!Lives
<1>5. ASSUME NEW t \in Sessions, Isolation!GetSession(t) \/ Isolation!GrowIdle(t)
                 PROVE IsolationInv'
  <2>1. /\ UNCHANGED <<known, locked, toolsRunning, life, clean, holder, toolCalls>>
        /\ idleSessions' \subseteq Sessions /\ minute' \in [Sessions -> 0..MaxPerMinute]
    BY <1>0, <1>5 DEF Isolation!GetSession, Isolation!GrowIdle
  <2> QED BY <1>4, <2>1
<1>6. CASE Isolation!ResetMinuteCounters \/ UNCHANGED isolationVars
  <2>1. /\ UNCHANGED <<known, locked, toolsRunning, life, clean, holder, toolCalls>>
        /\ idleSessions' \subseteq Sessions /\ minute' \in [Sessions -> 0..MaxPerMinute]
    BY <1>0, <1>6, IsolationAssumption DEF Isolation!ResetMinuteCounters, isolationVars
  <2> QED BY <1>4, <2>1
<1>7. ASSUME NEW w \in Users, NEW t \in Sessions, Isolation!AcquireLock(w, t)
                 PROVE IsolationInv'
  <2>1. /\ holder[w] = {} /\ t \in known /\ t \notin locked /\ locked' = locked \cup {t}
        /\ holder' = [holder EXCEPT ![w] = {Isolation!Now(t)}]
        /\ UNCHANGED <<known, idleSessions, toolsRunning, minute, life, clean,
                       toolCalls>>
    BY <1>7 DEF Isolation!AcquireLock
  <2>2. IF t \in clean THEN \A u \in Users : Isolation!Now(t) \notin holder[u] ELSE TRUE
    BY <1>01, <2>1 DEF Isolated
  <2>3. IsolationInv'
    <3>1. Isolation!Now(t) \in Isolation!Lives /\ Isolation!Now(t).session = t
      BY <1>0, <2>1, LifeOfKnown
    <3>2. /\ holder' \in [Users -> SUBSET Isolation!Lives]
          /\ \A u \in Users : OneOf(holder'[u])
          /\ \A u \in Users : holder'[u] = IF u = w THEN {Isolation!Now(t)}
                ELSE holder[u]
      BY <1>0, <2>1, <3>1 DEF OneOf
    <3>3. \A s \in Sessions : Isolation!Now(s)' = Isolation!Now(s)
      BY <2>1 DEF Isolation!Now
    <3>4. OfTheirLife'
      BY <1>0, <1>01, <2>1, <3>1, <3>3 DEF OfTheirLife
    <3>5. ASSUME NEW s \in known' \cap clean' PROVE Isolated(s)'
      <4>0. s \in Sessions /\ s \in known \cap clean /\ Isolated(s)
        BY <1>0, <1>01, <2>1
      <4>1. CASE s = t
        <5>1. \A u \in Users : Isolation!Now(s) \in holder'[u] <=> u = w
          BY <2>2, <3>2, <4>0, <4>1
        <5>2. Isolation!Running(s)' = Isolation!Running(s) /\ s \in locked'
          BY <2>1, <3>3, <4>1 DEF Isolation!Running
        <5> QED BY <2>1, <3>3, <4>0, <5>1, <5>2 DEF Isolated
      <4>2. CASE s # t
        <5>1. Isolation!Now(s) # Isolation!Now(t)
          BY <4>2 DEF Isolation!Now
        <5>2. \A u \in Users : Isolation!Now(s) \in holder'[u]
                  <=> Isolation!Now(s) \in holder[u]
          BY <2>1, <5>1
        <5> QED BY <2>1, <4>0, <5>2, StaysIsolated
      <4> QED BY <4>1, <4>2
    <3> QED BY <2>1, <3>2, <3>4, <3>5 DEF IsolationInv, OneOf, Isolation!Lives
  <2> QED BY <2>3
<1>8. ASSUME NEW w \in Users, Isolation!ReleaseLock(w) PROVE IsolationInv'
  <2>1. PICK h \in holder[w] : locked' = locked \ {h.session}
    BY <1>8 DEF Isolation!ReleaseLock
  <2>2. /\ holder' = [holder EXCEPT ![w] = {}]
        /\ UNCHANGED <<known, idleSessions, toolsRunning, minute, life, clean,
                       toolCalls>>
    BY <1>8 DEF Isolation!ReleaseLock
  <2>3. holder[w] = {h}
    BY <1>0 DEF OneOf
  <2>4. /\ holder' \in [Users -> SUBSET Isolation!Lives]
        /\ \A u \in Users : holder'[u] = IF u = w THEN {} ELSE holder[u]
    BY <1>0, <2>2
  <2>5. /\ \A u \in Users : OneOf(holder'[u]) /\ OneOf(toolCalls'[u])
        /\ \A s \in known' : life'[s] # 0
    BY <1>0, <2>2 DEF OneOf, Isolation!Lives
  <2>6. \A s \in Sessions : Isolation!Now(s)' = Isolation!Now(s)
    BY <2>2 DEF Isolation!Now
  <2>7. OfTheirLife'
    BY <1>0, <1>01, <2>2, <2>6 DEF OfTheirLife
  <2>8. ASSUME NEW s \in known' \cap clean' PROVE Isolated(s)'
    <3>0. s \in Sessions /\ s \in known \cap clean /\ Isolated(s)
      BY <1>0, <1>01, <2>2
    <3>1. CASE h.session = s
      <4>1. h = Isolation!Now(s)
        BY <1>01, <3>0, <3>1 DEF OfTheirLife
      <4>2. \A u \in Users : Isolation!Now(s) \notin holder'[u]
        BY <2>4, <3>0, <4>1 DEF Isolated
      <4>3. Isolation!Running(s)' = Isolation!Running(s)
        BY <2>2, <2>6, <3>0 DEF Isolation!Running
      <4> QED BY <2>2, <2>6, <3>0, <4>2, <4>3 DEF Isolated
    <3>2. CASE h.session # s
      <4>1. Isolation!Now(s) \notin holder[w]
        BY <2>3, <3>2 DEF Isolation!Now
      <4>2. \A u \in Users : Isolation!Now(s) \in holder'[u]
                <=> Isolation!Now(s) \in holder[u]
        BY <2>4, <4>1
      <4>3. s \in locked => s \in locked'
        BY <2>1, <3>2
      <4> QED BY <2>2, <3>0, <4>2, <4>3, StaysIsolated
    <3> QED BY <3>1, <3>2
  <2> QED BY <2>1, <2>2, <2>5, <2>7, <2>8 DEF IsolationInv
<1>9. ASSUME NEW w \in Users, NEW t \in Sessions, Isolation!StartTool(w, t)
                 PROVE IsolationInv'
  <2>1. /\ toolCalls[w] = {} /\ t \in known
        /\ toolsRunning[t] < MaxConcurrent /\ minute[t] < MaxPerMinute
        /\ toolsRunning' = [toolsRunning EXCEPT ![t] = @ + 1]
        /\ minute' = [minute EXCEPT ![t] = @ + 1] /\ idleSessions' = idleSessions \ {t}
        /\ toolCalls' = [toolCalls EXCEPT ![w] = {Isolation!Now(t)}]
        /\ UNCHANGED <<known, locked, life, clean, holder>>
    BY <1>9 DEF Isolation!StartTool
  <2>2. Isolation!Now(t) \in Isolation!Lives /\ Isolation!Now(t).session = t
    BY <1>0, <2>1, LifeOfKnown
  <2>3. toolsRunning[t] + 1 \in 0..MaxConcurrent /\ minute[t] + 1 \in 0..MaxPerMinute
    BY <1>0, <2>1, IsolationAssumption
  <2>4. /\ toolsRunning' \in [Sessions -> 0..MaxConcurrent]
        /\ minute' \in [Sessions -> 0..MaxPerMinute]
        /\ \A s \in Sessions : toolsRunning'[s] = IF s = t THEN toolsRunning[t] + 1
              ELSE toolsRunning[s]
    BY <1>0, <2>1, <2>3
  <2>5. /\ toolCalls' \in [Users -> SUBSET Isolation!Lives]
        /\ \A u \in Users : toolCalls'[u] = IF u = w THEN {Isolation!Now(t)}
              ELSE toolCalls[u]
    BY <1>0, <2>1, <2>2
  <2>6. /\ \A u \in Users : OneOf(holder'[u]) /\ OneOf(toolCalls'[u])
        /\ \A s \in known' : life'[s] # 0
    BY <1>0, <2>1, <2>2 DEF OneOf, Isolation!Lives
  <2>7. \A s \in Sessions : Isolation!Now(s)' = Isolation!Now(s)
    BY <2>1 DEF Isolation!Now
  <2>8. OfTheirLife'
    BY <1>0, <1>01, <2>1, <2>2, <2>7 DEF OfTheirLife
  <2>9. ASSUME NEW s \in known' \cap clean' PROVE Isolated(s)'
    <3>0. s \in Sessions /\ s \in known \cap clean /\ Isolated(s)
      BY <1>0, <1>01, <2>1
    <3>1. CASE s = t
      <4>1. Isolation!Running(s)' = Isolation!Running(s) \cup {w}
            /\ w \notin Isolation!Running(s)
        BY <2>1, <2>5, <2>7, <3>1 DEF Isolation!Running
      <4> DEFINE R == Isolation!Running(s)
      <4>2. IsFiniteSet(R) /\ toolsRunning[s] = Cardinality(R) /\ w \notin R
        BY <3>0, <4>1 DEF Isolated
      <4> HIDE DEF R
      <4>3. IsFiniteSet(R \cup {w}) /\ Cardinality(R \cup {w}) = Cardinality(R) + 1
        BY <4>2, FS_AddElement
      <4>4. IsFiniteSet(Isolation!Running(s)')
            /\ toolsRunning'[s] = Cardinality(Isolation!Running(s)')
        BY <2>4, <3>1, <4>1, <4>2, <4>3 DEF R
      <4> QED BY <2>1, <2>7, <3>0, <4>4 DEF Isolated
    <3>2. CASE s # t
      <4>1. Isolation!Now(s) # Isolation!Now(t)
        BY <3>2 DEF Isolation!Now
      <4>2. \A u \in Users : Isolation!Now(s) \in toolCalls'[u]
                <=> Isolation!Now(s) \in toolCalls[u]
        BY <2>1, <4>1
      <4> QED BY <2>1, <3>0, <3>2, <4>2, StaysIsolated
    <3> QED BY <3>1, <3>2
  <2> QED BY <2>1, <2>4, <2>5, <2>6, <2>8, <2>9 DEF IsolationInv
<1>10. ASSUME NEW w \in Users, Isolation!EndTool(w) PROVE IsolationInv'
  <2>1. PICK c \in toolCalls[w] :
          toolsRunning' = [toolsRunning EXCEPT ![c.session] =
                              IF c.session \in known /\ @ > 0 THEN @ - 1 ELSE @]
    BY <1>10 DEF Isolation!EndTool
  <2>2. /\ toolCalls' = [toolCalls EXCEPT ![w] = {}]
        /\ UNCHANGED <<known, locked, idleSessions, minute, life, clean, holder>>
    BY <1>10 DEF Isolation!EndTool
  <2>3. toolCalls[w] = {c} /\ c.session \in Sessions
    BY <1>0 DEF OneOf, Isolation!Lives
  <2>4. /\ toolCalls' \in [Users -> SUBSET Isolation!Lives]
        /\ \A u \in Users : toolCalls'[u] = IF u = w THEN {} ELSE toolCalls[u]
    BY <1>0, <2>2
  <2>5. /\ toolsRunning' \in [Sessions -> 0..MaxConcurrent]
        /\ \A s \in Sessions : toolsRunning'[s] =
                IF s = c.session /\ s \in known /\ toolsRunning[s] > 0
                    THEN toolsRunning[s] - 1
                ELSE toolsRunning[s]
    BY <1>0, <2>1, <2>3, IsolationAssumption
  <2>6. /\ \A u \in Users : OneOf(holder'[u]) /\ OneOf(toolCalls'[u])
        /\ \A s \in known' : life'[s] # 0
    BY <1>0, <2>2 DEF OneOf, Isolation!Lives
  <2>7. \A s \in Sessions : Isolation!Now(s)' = Isolation!Now(s)
    BY <2>2 DEF Isolation!Now
  <2>8. OfTheirLife'
    BY <1>0, <1>01, <2>2, <2>7 DEF OfTheirLife
  <2>9. ASSUME NEW s \in known' \cap clean' PROVE Isolated(s)'
    <3>0. s \in Sessions /\ s \in known \cap clean /\ Isolated(s)
      BY <1>0, <1>01, <2>2
    <3>1. CASE s = c.session
      <4>0. c = Isolation!Now(s)
        BY <1>01, <3>0, <3>1 DEF OfTheirLife
      <4>1. Isolation!Running(s)' = Isolation!Running(s) \ {w}
            /\ w \in Isolation!Running(s)
        BY <2>4, <2>7, <3>0, <4>0 DEF Isolation!Running
      <4> DEFINE R == Isolation!Running(s)
      <4>2. IsFiniteSet(R) /\ toolsRunning[s] = Cardinality(R) /\ w \in R
        BY <3>0, <4>1 DEF Isolated
      <4> HIDE DEF R
      <4>3. IsFiniteSet(R \ {w}) /\ Cardinality(R \ {w}) = Cardinality(R) - 1
        BY <4>2, FS_RemoveElement
      <4>4. Cardinality(R) \in Nat /\ Cardinality(R) # 0
        BY <4>2, FS_CardinalityType, FS_EmptySet
      <4>5. toolsRunning[s] > 0
        BY <4>2, <4>4
      <4>6. IsFiniteSet(Isolation!Running(s)')
            /\ toolsRunning'[s] = Cardinality(Isolation!Running(s)')
        BY <2>5, <3>0, <3>1, <4>1, <4>2, <4>3, <4>5 DEF R
      <4> QED BY <2>2, <2>7, <3>0, <4>6 DEF Isolated
    <3>2. CASE s # c.session
      <4>1. Isolation!Now(s) \notin toolCalls[w]
        BY <2>3, <3>2 DEF Isolation!Now
      <4>2. \A u \in Users : Isolation!Now(s) \in toolCalls'[u]
                <=> Isolation!Now(s) \in toolCalls[u]
        BY <2>4, <4>1
      <4> QED BY <2>2, <2>5, <3>0, <3>2, <4>2, StaysIsolated
    <3> QED BY <3>1, <3>2
  <2> QED BY <2>2, <2>5, <2>6, <2>8, <2>9 DEF IsolationInv
<1> QED BY <1>1, <1>2, <1>3, <1>5, <1>6, <1>7, <1>8, <1>9, <1>10 DEF Isolation!Next
-----------------------------------------------------------------------------
\* Review cycles (ReviewCycles).
Cycles == [at : {"none", "asking", "yielded"}, iteration : 0..MaxIterations,
           allowed : SUBSET Duo!SuggestionIds, done : BOOLEAN]

\* Every id that is somewhere was made by an answer.
EveryIdIsMade ==
    \A s \in Sessions : /\ \A id \in cycle[s].allowed \cup blocked[s] : made[id] # 0
                        /\ \A e \in trail[s] \cup reviewer : made[e.suggestion] # 0

\* A suggestion that was blocked, with an id that was made once, is in nobody's hands and
\* only rejected.
BlockedAlone ==
    \A t \in Sessions : \A id \in blocked[t] : made[id] = 1 =>
        \A s \in Sessions : /\ id \notin cycle[s].allowed
                            /\ \A e \in trail[s] \cup reviewer :
                                   e.suggestion = id => e.action = "rejected"

BlockedOnTrail ==
    \A s \in Sessions : \A id \in blocked[s] :
        \E e \in trail[s] \cap reviewer :
            e.suggestion = id /\ e.action = "rejected" /\ <<s, e>> \in reviewsRecorded

DuoTypes == /\ reviewClock \in 0..MaxReviewTime /\ autoApply \in BOOLEAN
            /\ open \subseteq Sessions
            /\ cycle \in [Sessions -> Cycles]
            /\ trail \in [Sessions -> SUBSET Duo!Entries]
            /\ blocked \in [Sessions -> SUBSET Duo!SuggestionIds]
            /\ reviewer \subseteq Duo!Entries
            /\ reviewsRecorded \subseteq Sessions \X Duo!Entries
            /\ made \in [Duo!SuggestionIds -> 0..reviews] /\ reviews \in 0..MaxReviews
            /\ acts \in 0..MaxActs

DuoInv == DuoTypes /\ EveryIdIsMade /\ BlockedAlone /\ BlockedOnTrail

LEMMA DuoTypeOK == DuoInv => Duo!TypeOK
<1> SUFFICES ASSUME DuoInv PROVE Duo!TypeOK
  OBVIOUS
<1>1. 0..reviews \subseteq 0..MaxReviews
  BY DuoAssumption DEF DuoInv, DuoTypes
<1>2. made \in [Duo!SuggestionIds -> 0..MaxReviews]
  BY <1>1 DEF DuoInv, DuoTypes
<1> QED BY <1>2 DEF DuoInv, DuoTypes, Duo!TypeOK, Cycles

LEMMA BlockedIsRejected == DuoInv => Duo!BlockedStaysRejected
BY DEF DuoInv, BlockedAlone, BlockedOnTrail, Duo!BlockedStaysRejected

LEMMA CycleRecord ==
  ASSUME NEW at \in {"none", "asking", "yielded"}, NEW i \in 0..MaxIterations,
         NEW ids \in SUBSET Duo!SuggestionIds, NEW done \in BOOLEAN
  PROVE  Duo!Cycle(at, i, ids, done) \in Cycles
         /\ Duo!Cycle(at, i, ids, done).allowed = ids
BY DEF Duo!Cycle, Cycles

LEMMA NoCycleRecord == Duo!NoCycle \in Cycles /\ Duo!NoCycle.allowed = {}
<1>1. 0 \in 0..MaxIterations /\ {} \in SUBSET Duo!SuggestionIds /\ FALSE \in BOOLEAN
  BY DuoAssumption
<1> QED BY <1>1, CycleRecord DEF Duo!NoCycle

LEMMA EntryRecord ==
  ASSUME reviewClock \in 0..MaxReviewTime, NEW id \in Duo!SuggestionIds,
         NEW action \in Duo!Actions
  PROVE  /\ Duo!Entry(id, action) \in Duo!Entries
         /\ Duo!Entry(id, action).suggestion = id
         /\ Duo!Entry(id, action).action = action
BY DEF Duo!Entry, Duo!Entries

LEMMA DuoInit == Duo!Init => DuoInv
<1> SUFFICES ASSUME Duo!Init PROVE DuoInv
  OBVIOUS
<1>1. Duo!NoCycle \in Cycles /\ Duo!NoCycle.allowed = {}
  BY NoCycleRecord
<1>2. DuoTypes
  BY <1>1, DuoAssumption DEF Duo!Init, DuoTypes
<1>3. EveryIdIsMade /\ BlockedAlone /\ BlockedOnTrail
  BY <1>1 DEF Duo!Init, EveryIdIsMade, BlockedAlone, BlockedOnTrail
<1> QED BY <1>2, <1>3 DEF DuoInv

\* Without an answer, what comes onto a trail is about a suggestion that somebody has.
LEMMA NoAnswer ==
  ASSUME DuoInv, DuoTypes', UNCHANGED <<blocked, made, reviews, reviewsRecorded>>,
         \A s \in Sessions : cycle'[s].allowed \subseteq cycle[s].allowed,
         reviewer \subseteq reviewer', \A s \in Sessions : trail[s] \subseteq trail'[s],
         \A s \in Sessions : \A e \in trail'[s] \cup reviewer' :
             \/ e \in trail[s] \cup reviewer
             \/ \E t \in Sessions : e.suggestion \in cycle[t].allowed
  PROVE  DuoInv'
<1>1. EveryIdIsMade'
  BY DEF DuoInv, EveryIdIsMade
<1>2. BlockedAlone'
  BY DEF DuoInv, BlockedAlone
<1>3. BlockedOnTrail'
  <2> SUFFICES ASSUME NEW s \in Sessions, NEW id \in blocked[s]
               PROVE  \E e \in trail'[s] \cap reviewer' :
                          e.suggestion = id /\ e.action = "rejected"
                          /\ <<s, e>> \in reviewsRecorded
    BY DEF BlockedOnTrail
  <2>1. PICK e \in trail[s] \cap reviewer :
            e.suggestion = id /\ e.action = "rejected" /\ <<s, e>> \in reviewsRecorded
    BY DEF DuoInv, BlockedOnTrail
  <2> QED BY <2>1
<1> QED BY <1>1, <1>2, <1>3 DEF DuoInv

LEMMA KeptSuggestions ==
  ASSUME NEW suggestions \in Answers
  PROVE  DOMAIN Duo!Kept(suggestions) \subseteq 1..MaxSuggestions
<1> DEFINE n == Len(suggestions)
           k == Duo!Min({n, MaxSuggestions})
<1>1. suggestions \in Seq(BOOLEAN) /\ n \in Nat /\ MaxSuggestions \in Nat
  BY DuoAssumption
<1>2. k \in {n, MaxSuggestions} /\ k <= n /\ k <= MaxSuggestions
  <2>1. \E x \in {n, MaxSuggestions} : \A y \in {n, MaxSuggestions} : x <= y
    BY <1>1
  <2>2. k \in {n, MaxSuggestions} /\ \A y \in {n, MaxSuggestions} : k <= y
    BY <2>1 DEF Duo!Min
  <2> QED BY <2>2
<1> HIDE DEF k
<1>4. Duo!Kept(suggestions) = SubSeq(suggestions, 1, k)
  BY DEF Duo!Kept, k
<1>5. Len(Duo!Kept(suggestions)) \in 0..MaxSuggestions
  BY <1>1, <1>2, <1>4
<1> QED BY <1>1, <1>5

\* An answer: its ids are new, or made once more.
LEMMA AnswerArrives ==
  ASSUME DuoInv, NEW t \in Sessions, NEW suggestions \in Answers,
         NEW approves \in BOOLEAN,
         Duo!Answer(t, suggestions, approves)
  PROVE  DuoInv'
<1> DEFINE ids == {Duo!Id(i) : i \in DOMAIN Duo!Kept(suggestions)}
           rejected == {Duo!Id(i) : i \in Duo!BlockedIn(Duo!Kept(suggestions))}
           noted == reviewer \cup {Duo!Entry(id, "rejected") : id \in rejected}
           finished == approves \/ ids = {}
           news == Duo!Cycle("yielded", cycle[t].iteration, ids \ rejected, finished)
<1>0. DuoTypes
  BY DEF DuoInv
<1>1. /\ cycle[t].at = "asking" /\ reviews < MaxReviews
      /\ reviewer' = noted
      /\ trail' = [trail EXCEPT ![t] = @ \cup noted]
      /\ reviewsRecorded' = reviewsRecorded \cup ({t} \X noted)
      /\ cycle' = [cycle EXCEPT ![t] = news]
      /\ blocked' = [blocked EXCEPT ![t] = @ \cup rejected]
      /\ made' = [id \in Duo!SuggestionIds |-> IF id \in ids THEN made[id] + 1
            ELSE made[id]]
      /\ reviews' = reviews + 1
      /\ UNCHANGED <<reviewClock, autoApply, open, acts>>
  BY DEF Duo!Answer
<1>2. ids \in SUBSET Duo!SuggestionIds /\ rejected \in SUBSET ids
  <2>1. \A i \in 1..MaxSuggestions : Duo!Id(i) \in Duo!SuggestionIds
    BY <1>0 DEF DuoTypes, Duo!Id, Duo!SuggestionIds
  <2> QED BY <2>1, KeptSuggestions DEF Duo!BlockedIn
<1>3. finished \in BOOLEAN
  OBVIOUS
<1> HIDE DEF ids, rejected, finished
<1>4. news \in Cycles /\ news.allowed = ids \ rejected
  <2>1. cycle[t].iteration \in 0..MaxIterations
    BY <1>0 DEF DuoTypes, Cycles
  <2> QED BY <1>2, <1>3, <2>1, CycleRecord
<1>5. \A id \in rejected : /\ Duo!Entry(id, "rejected") \in Duo!Entries
                           /\ Duo!Entry(id, "rejected").suggestion = id
                           /\ Duo!Entry(id, "rejected").action = "rejected"
  BY <1>0, <1>2, EntryRecord DEF DuoTypes, Duo!Actions
<1>6. /\ noted \in SUBSET Duo!Entries /\ reviewer \subseteq noted
      /\ \A e \in noted : e \in reviewer
         \/ (e.suggestion \in rejected /\ e.action = "rejected")
      /\ \A id \in rejected : Duo!Entry(id, "rejected") \in noted
  BY <1>0, <1>5 DEF DuoTypes
<1> HIDE DEF news, noted
<1>7. /\ \A s \in Sessions : trail'[s] = IF s = t THEN trail[s] \cup noted ELSE trail[s]
      /\ \A s \in Sessions : blocked'[s] = IF s = t THEN blocked[s] \cup rejected
            ELSE blocked[s]
      /\ \A s \in Sessions : cycle'[s].allowed = IF s = t THEN ids \ rejected
                                                 ELSE cycle[s].allowed
      /\ \A id \in Duo!SuggestionIds : made'[id] = IF id \in ids THEN made[id] + 1
            ELSE made[id]
  BY <1>0, <1>1, <1>4 DEF DuoTypes
<1>8. /\ reviews + 1 \in 0..MaxReviews
      /\ \A id \in Duo!SuggestionIds : made[id] \in 0..reviews
      /\ reviews \in Nat
  BY <1>0, <1>1, DuoAssumption DEF DuoTypes
<1>9. DuoTypes'
  <2>2. cycle' \in [Sessions -> Cycles]
    BY <1>0, <1>1, <1>4 DEF DuoTypes
  <2>3. /\ trail' \in [Sessions -> SUBSET Duo!Entries]
        /\ blocked' \in [Sessions -> SUBSET Duo!SuggestionIds]
        /\ reviewsRecorded' \subseteq Sessions \X Duo!Entries
    BY <1>0, <1>1, <1>2, <1>6 DEF DuoTypes
  <2> QED BY <1>0, <1>1, <1>8, <2>2, <2>3 DEF DuoTypes
<1>10. \A id \in Duo!SuggestionIds : /\ made[id] \in Nat
                                        /\ (made[id] # 0 => made'[id] # 0)
                                     /\ (id \in ids => made'[id] # 0)
                                     /\ (made'[id] = 1 /\ id \in ids => made[id] = 0)
  BY <1>7, <1>8
<1>11. /\ \A s \in Sessions : cycle[s].allowed \subseteq Duo!SuggestionIds
          /\ blocked[s] \subseteq Duo!SuggestionIds
       /\ \A s \in Sessions : \A e \in trail[s]
             \cup reviewer : e.suggestion \in Duo!SuggestionIds
  BY <1>0 DEF DuoTypes, Cycles, Duo!Entries
<1>12. \A s \in Sessions : \A e \in trail'[s] \cup reviewer' :
          \/ e \in trail[s] \cup reviewer
          \/ e.suggestion \in rejected /\ e.action = "rejected"
  BY <1>1, <1>6
<1>13. EveryIdIsMade'
  <2> SUFFICES ASSUME NEW s \in Sessions
               PROVE  /\ \A id \in cycle'[s].allowed \cup blocked'[s] : made'[id] # 0
                      /\ \A e \in trail'[s] \cup reviewer' : made'[e.suggestion] # 0
    BY DEF EveryIdIsMade
  <2>1. /\ \A id \in cycle[s].allowed \cup blocked[s] : made[id] # 0
        /\ \A e \in trail[s] \cup reviewer : made[e.suggestion] # 0
    BY DEF DuoInv, EveryIdIsMade
  <2>2. ASSUME NEW id \in cycle'[s].allowed \cup blocked'[s] PROVE made'[id] # 0
    <3>1. id \in ids \/ id \in cycle[s].allowed \cup blocked[s]
      BY <1>2, <1>7
    <3>2. id \in Duo!SuggestionIds
      BY <1>2, <1>11, <3>1
    <3> QED BY <1>10, <2>1, <3>1, <3>2
  <2>3. \A e \in trail'[s] \cup reviewer' : made'[e.suggestion] # 0
    BY <1>2, <1>10, <1>11, <1>12, <2>1
  <2> QED BY <2>2, <2>3
<1>14. BlockedAlone'
  <2> SUFFICES ASSUME NEW r \in Sessions, NEW id \in blocked'[r], made'[id] = 1,
                      NEW s \in Sessions
               PROVE  /\ id \notin cycle'[s].allowed
                      /\ \A e \in trail'[s] \cup reviewer' :
                             e.suggestion = id => e.action = "rejected"
    BY DEF BlockedAlone
  <2>0. id \in Duo!SuggestionIds
    BY <1>9 DEF DuoTypes
  <2>1. CASE id \in ids
    <3>1. made[id] = 0
      BY <1>10, <2>0, <2>1
    <3>2. /\ id \notin cycle[s].allowed /\ id \notin blocked[r]
          /\ \A e \in trail[s] \cup reviewer : e.suggestion # id
      BY <3>1 DEF DuoInv, EveryIdIsMade
    <3> QED BY <1>7, <1>12, <3>2
  <2>2. CASE id \notin ids
    <3>1. id \in blocked[r] /\ made[id] = 1 /\ id \notin rejected
      BY <1>2, <1>7, <2>0, <2>2
    <3>2. /\ id \notin cycle[s].allowed
          /\ \A e \in trail[s] \cup reviewer : e.suggestion = id =>
                e.action = "rejected"
      BY <3>1 DEF DuoInv, BlockedAlone
    <3> QED BY <1>7, <1>12, <2>2, <3>2
  <2> QED BY <2>1, <2>2
<1>15. BlockedOnTrail'
  <2> SUFFICES ASSUME NEW s \in Sessions, NEW id \in blocked'[s]
               PROVE  \E e \in trail'[s] \cap reviewer' :
                        e.suggestion = id /\ e.action = "rejected"
                        /\ <<s, e>> \in reviewsRecorded'
    BY DEF BlockedOnTrail
  <2>1. CASE id \in blocked[s]
    <3>1. PICK e \in trail[s] \cap reviewer :
              e.suggestion = id /\ e.action = "rejected" /\ <<s, e>> \in reviewsRecorded
      BY <2>1 DEF DuoInv, BlockedOnTrail
    <3>2. e \in trail'[s] \cap reviewer' /\ <<s, e>> \in reviewsRecorded'
      BY <1>1, <1>6, <3>1
    <3> QED BY <3>1, <3>2
  <2>2. CASE id \notin blocked[s]
    <3>1. s = t /\ id \in rejected
      BY <1>7, <2>2
    <3> DEFINE e == Duo!Entry(id, "rejected")
    <3>2. e.suggestion = id /\ e.action = "rejected" /\ e \in noted
      BY <1>5, <1>6, <3>1
    <3> HIDE DEF e
    <3>3. e \in trail'[s] \cap reviewer' /\ <<s, e>> \in reviewsRecorded'
      BY <1>1, <1>7, <3>1, <3>2
    <3> QED BY <3>2, <3>3
  <2> QED BY <2>1, <2>2
<1> QED BY <1>9, <1>13, <1>14, <1>15 DEF DuoInv

LEMMA DuoNext == DuoInv /\ [Duo!Next]_duoVars => DuoInv'
<1> SUFFICES ASSUME DuoInv, [Duo!Next]_duoVars PROVE DuoInv'
  OBVIOUS
<1>0. /\ reviewClock \in 0..MaxReviewTime /\ autoApply \in BOOLEAN
      /\ open \subseteq Sessions
      /\ cycle \in [Sessions -> Cycles] /\ trail \in [Sessions -> SUBSET Duo!Entries]
      /\ blocked \in [Sessions -> SUBSET Duo!SuggestionIds]
      /\ reviewer \subseteq Duo!Entries
      /\ reviewsRecorded \subseteq Sessions \X Duo!Entries
      /\ made \in [Duo!SuggestionIds -> 0..reviews] /\ reviews \in 0..MaxReviews
      /\ acts \in 0..MaxActs
  BY DEF DuoInv, DuoTypes
<1>01. \A s \in Sessions : /\ cycle[s].allowed \in SUBSET Duo!SuggestionIds
                           /\ cycle[s].iteration \in 0..MaxIterations
                           /\ cycle[s].done \in BOOLEAN
  BY <1>0 DEF Cycles
<1>02. Duo!NoCycle \in Cycles /\ Duo!NoCycle.allowed = {}
  BY NoCycleRecord
<1>03. \A i \in 0..MaxIterations : /\ Duo!Cycle("asking", i, {}, FALSE) \in Cycles
                                   /\ Duo!Cycle("asking", i, {}, FALSE).allowed = {}
  BY CycleRecord
<1>04. \A id \in Duo!SuggestionIds, action \in Duo!Actions :
          /\ Duo!Entry(id, action) \in Duo!Entries
          /\ Duo!Entry(id, action).suggestion = id
  BY <1>0, EntryRecord
<1>1. CASE Duo!Tick \/ \E s \in Sessions : Duo!CloseSession(s)
  <2>1. /\ reviewClock' \in 0..MaxReviewTime /\ open' \subseteq Sessions
        /\ UNCHANGED <<autoApply, cycle, trail, reviewer, reviewsRecorded, blocked,
                       made, reviews, acts>>
    BY <1>0, <1>1, DuoAssumption DEF Duo!Tick, Duo!CloseSession, Duo!history
  <2>2. DuoTypes'
    BY <1>0, <2>1 DEF DuoTypes
  <2> QED BY <2>1, <2>2, NoAnswer
<1>2. ASSUME NEW t \in Sessions, Duo!RunCycle(t) \/ Duo!AnswerFails(t) PROVE DuoInv'
  <2>1. /\ \E c \in Cycles : c.allowed = {} /\ cycle' = [cycle EXCEPT ![t] = c]
        /\ UNCHANGED <<reviewClock, autoApply, open, trail, reviewer, reviewsRecorded,
                       blocked, made,
                       reviews, acts>>
    <3>1. 1 \in 0..MaxIterations
      BY DuoAssumption
    <3> QED BY <1>2, <1>02, <1>03, <3>1 DEF Duo!RunCycle, Duo!AnswerFails, Duo!history
  <2>3. DuoTypes'
    BY <1>0, <2>1 DEF DuoTypes
  <2> QED BY <2>1, <2>3, NoAnswer
<1>3. ASSUME NEW t \in Sessions, NEW suggestions \in Answers, NEW approves \in BOOLEAN,
             Duo!Answer(t, suggestions, approves)
      PROVE  DuoInv'
  BY <1>3, AnswerArrives
<1>4. ASSUME NEW t \in Sessions, NEW ids \in SUBSET cycle[t].allowed,
             Duo!Accepts(t, ids)
      PROVE  /\ reviewer' \subseteq Duo!Entries
             /\ trail' \in [Sessions -> SUBSET Duo!Entries]
             /\ reviewer \subseteq reviewer'
             /\ \A s \in Sessions : trail[s] \subseteq trail'[s]
             /\ \A s \in Sessions : \A e \in trail'[s] \cup reviewer' :
                   \/ e \in trail[s] \cup reviewer
                   \/ \E r \in Sessions : e.suggestion \in cycle[r].allowed
  <2> DEFINE noted == IF t \in open THEN {Duo!Entry(id, "accepted") : id \in ids}
                 ELSE {}
  <2>1. trail' = [trail EXCEPT ![t] = @ \cup noted] /\ reviewer' = reviewer \cup noted
    BY <1>4 DEF Duo!Accepts
  <2>2. noted \subseteq Duo!Entries
        /\ \A e \in noted : e.suggestion \in cycle[t].allowed
    <3>1. \A id \in ids : id \in Duo!SuggestionIds
      BY <1>01
    <3> QED BY <1>04, <3>1 DEF Duo!Actions
  <2> HIDE DEF noted
  <2>3. /\ reviewer' \subseteq Duo!Entries
        /\ trail' \in [Sessions -> SUBSET Duo!Entries]
        /\ \A s \in Sessions : trail'[s] = IF s = t THEN trail[s] \cup noted
              ELSE trail[s]
    BY <1>0, <2>1, <2>2
  <2> QED BY <2>1, <2>2, <2>3
<1>5. ASSUME NEW t \in Sessions, Duo!Resume(t) PROVE DuoInv'
  <2> DEFINE c == cycle[t]
             again == ~c.done /\ c.iteration < MaxIterations /\ t \in open
             ids == IF autoApply /\ ~c.done THEN c.allowed ELSE {}
  <2>1. /\ Duo!Accepts(t, ids)
        /\ cycle' = [cycle EXCEPT ![t] = IF again
              THEN Duo!Cycle("asking", c.iteration + 1, {}, FALSE)
                                         ELSE Duo!NoCycle]
        /\ UNCHANGED <<reviewClock, autoApply, open, reviewsRecorded, blocked, made,
                       reviews, acts>>
    BY <1>5 DEF Duo!Resume, Duo!history
  <2>2. ids \in SUBSET cycle[t].allowed
    OBVIOUS
  <2>3. again => c.iteration + 1 \in 0..MaxIterations
    BY <1>01, DuoAssumption
  <2> HIDE DEF c, ids, again
  <2>4. /\ cycle' \in [Sessions -> Cycles]
        /\ \A s \in Sessions : cycle'[s].allowed \subseteq cycle[s].allowed
    BY <1>0, <1>02, <1>03, <2>1, <2>3
  <2>5. /\ reviewer' \subseteq Duo!Entries
        /\ trail' \in [Sessions -> SUBSET Duo!Entries]
        /\ reviewer \subseteq reviewer'
        /\ \A s \in Sessions : trail[s] \subseteq trail'[s]
        /\ \A s \in Sessions : \A e \in trail'[s] \cup reviewer' :
              \/ e \in trail[s] \cup reviewer
              \/ \E r \in Sessions : e.suggestion \in cycle[r].allowed
    BY <1>4, <2>1, <2>2
  <2>6. DuoTypes'
    BY <1>0, <2>1, <2>4, <2>5 DEF DuoTypes
  <2> QED BY <2>1, <2>4, <2>5, <2>6, NoAnswer
<1>6. ASSUME NEW t \in Sessions, NEW id \in cycle[t].allowed,
             Duo!AcceptSuggestion(t, id) \/ Duo!DeferSuggestion(t, id)
      PROVE  DuoInv'
  <2>1. /\ acts' \in 0..MaxActs
        /\ UNCHANGED <<reviewClock, autoApply, open, cycle, reviewsRecorded, blocked,
                       made, reviews>>
    BY <1>0, <1>6, DuoAssumption DEF Duo!AcceptSuggestion, Duo!DeferSuggestion,
                                     Duo!history
  <2>2. /\ reviewer' \subseteq Duo!Entries
        /\ trail' \in [Sessions -> SUBSET Duo!Entries]
        /\ reviewer \subseteq reviewer'
        /\ \A s \in Sessions : trail[s] \subseteq trail'[s]
        /\ \A s \in Sessions : \A e \in trail'[s] \cup reviewer' :
              \/ e \in trail[s] \cup reviewer
              \/ \E r \in Sessions : e.suggestion \in cycle[r].allowed
    <3>1. CASE Duo!AcceptSuggestion(t, id)
      <4>1. Duo!Accepts(t, {id}) /\ {id} \in SUBSET cycle[t].allowed
        BY <3>1 DEF Duo!AcceptSuggestion
      <4> QED BY <1>4, <4>1
    <3>2. CASE Duo!DeferSuggestion(t, id)
      <4> DEFINE e == Duo!Entry(id, "deferred")
      <4>1. /\ reviewer' = reviewer \cup {e}
            /\ trail' = IF t \in open THEN [trail EXCEPT ![t] = @ \cup {e}] ELSE trail
        BY <3>2 DEF Duo!DeferSuggestion
      <4>2. e \in Duo!Entries /\ e.suggestion = id
        BY <1>01, <1>04 DEF Duo!Actions
      <4> HIDE DEF e
      <4> QED BY <1>0, <4>1, <4>2
    <3> QED BY <1>6, <3>1, <3>2
  <2>3. DuoTypes'
    BY <1>0, <2>1, <2>2 DEF DuoTypes
  <2> QED BY <2>1, <2>2, <2>3, NoAnswer
<1>7. CASE UNCHANGED duoVars
  <2>1. UNCHANGED <<reviewClock, autoApply, open, cycle, trail, reviewer,
                    reviewsRecorded, blocked, made,
                    reviews, acts>>
    BY <1>7 DEF duoVars
  <2>2. DuoTypes'
    BY <1>0, <2>1 DEF DuoTypes
  <2> QED BY <2>1, <2>2, NoAnswer
<1> QED BY <1>1, <1>2, <1>3, <1>5, <1>6, <1>7 DEF Duo!Next
-----------------------------------------------------------------------------
\* The permission gate and the policy (ToolPermissions).
\* An answer in event mode runs a call past the gate: so the risk of a call that
\* asks was looked at before. And a grant is one that somebody gave.
PermissionsInv ==
    /\ Permissions!TypeOK
    /\ Permissions!RunsAreWarranted
    /\ \A c \in asking : mode # "bypass" /\ c.tool # "read_file" =>
          Permissions!Level(c) < 9
    /\ grants \subseteq approved

LEMMA PermissionsInit == Permissions!Init => PermissionsInv
BY DEF Permissions!Init, PermissionsInv, Permissions!TypeOK,
       Permissions!RunsAreWarranted

\* A verdict depends on the mode alone.
LEMMA VerdictOfMode ==
  ASSUME mode' = mode
  PROVE  \A c, granted :
            Permissions!Verdict(c, granted)' = Permissions!Verdict(c, granted)
BY DEF Permissions!Verdict, Permissions!CheckAsync, Permissions!Check,
       Permissions!Default, Permissions!Plan, Permissions!Auto, Permissions!Sandbox,
       Permissions!Restricted

\* What is approved or asked is no call of the greatest risk.
LEMMA VerdictLooksAtRisk ==
  ASSUME NEW c, NEW granted, mode # "bypass", c.tool # "read_file",
         Permissions!Verdict(c, granted) \in {"approve", "confirm"},
         Permissions!Level(c) \in Int
  PROVE  Permissions!Level(c) < 9
BY DEF Permissions!Verdict, Permissions!CheckAsync

\* A set of numbers with a greatest one keeps one when a number is added.
LEMMA GreatestWithOneMore ==
  ASSUME NEW S \in SUBSET Int, NEW y \in Int, \E m \in S : \A n \in S : n <= m
  PROVE  \E m \in S \cup {y} : \A n \in S \cup {y} : n <= m
<1>1. PICK m \in S : \A n \in S : n <= m
  OBVIOUS
<1>2. CASE y <= m
  OBVIOUS
<1>3. CASE ~(y <= m)
  <2> QED OBVIOUS
<1> QED OBVIOUS

\* A call has a risk, the greatest of its marks.
LEMMA LevelIsNumber ==
  ASSUME NEW c \in Calls PROVE Permissions!Level(c) \in Int
<1> DEFINE more == IF c.system THEN {6} ELSE {}
           most == IF c.remote THEN {5} ELSE {}
           marks == {Permissions!BaseLevel(c.tool), c.severity, Cwd} \cup more \cup most
           HasGreatest(S) == \E m \in S : \A n \in S : n <= m
<1>2. Permissions!BaseLevel(c.tool) \in Int /\ c.severity \in Int /\ Cwd \in Int
  BY PermissionsAssumption DEF Permissions!CallRecord, Permissions!Tools,
                               Permissions!BaseLevel
<1>5. HasGreatest({Permissions!BaseLevel(c.tool), c.severity, Cwd})
  <2>1. HasGreatest({Permissions!BaseLevel(c.tool), c.severity} \cup {Cwd})
    BY <1>2
  <2> QED BY <2>1
<1>6. HasGreatest({Permissions!BaseLevel(c.tool), c.severity, Cwd} \cup more)
  <2> DEFINE S == {Permissions!BaseLevel(c.tool), c.severity, Cwd}
  <2>1. CASE c.system
    <3>1. S \in SUBSET Int
      BY <1>2
    <3> HIDE DEF S
    <3>2. HasGreatest(S)
      BY <1>5 DEF S
    <3>3. HasGreatest(S \cup {6})
      BY <3>1, <3>2
    <3> QED BY <2>1, <3>3 DEF S
  <2>2. CASE ~c.system
    BY <1>5, <2>2
  <2> QED BY <2>1, <2>2
<1>7. HasGreatest(marks)
  <2>1. CASE c.remote
    <3> DEFINE S == {Permissions!BaseLevel(c.tool), c.severity, Cwd} \cup more
    <3>1. S \in SUBSET Int
      BY <1>2
    <3> HIDE DEF S
    <3>2. HasGreatest(S)
      BY <1>6 DEF S
    <3>3. HasGreatest(S \cup {5})
      BY <3>1, <3>2
    <3> QED BY <2>1, <3>3 DEF S
  <2>2. CASE ~c.remote
    BY <1>6, <2>2
  <2> QED BY <2>1, <2>2
<1>8. marks \subseteq Int
  BY <1>2
<1> QED
  BY <1>7, <1>8 DEF Permissions!Level

\* What Execute leaves: the invariant, when the call was let through or refused with
\* grants that somebody gave.
LEMMA ExecuteIsWarranted ==
  ASSUME PermissionsInv, NEW c \in Calls, NEW gs \in SUBSET Calls,
         NEW waiting \in SUBSET asking, Permissions!Execute(c, gs, waiting),
         approved' \in SUBSET Calls, approved \subseteq approved',
         gs \subseteq approved',
         UNCHANGED <<mode, approvalMode, policy>>
  PROVE  PermissionsInv'
<1>2. Permissions!Level(c) \in Int /\ \A d \in Calls : Permissions!Level(d) \in Int
  BY LevelIsNumber
<1>3. grants' \subseteq gs
  BY DEF Permissions!Execute, Permissions!Runs, Permissions!Refused
<1>4. CASE Permissions!Runs(c, gs) /\ asking' = waiting
  <2> DEFINE r == [call |-> c, way |-> "gate", policy |-> policy]
  <2>1. ran' = ran \cup {r}
    BY <1>4 DEF Permissions!Runs, Permissions!Ran
  <2>2. mode # "bypass" /\ c.tool # "read_file" => Permissions!Level(c) < 9
    BY <1>2, <1>4, VerdictLooksAtRisk DEF Permissions!Runs
  <2>3. Permissions!Verdict(c, FALSE) # "approve" => c \in approved'
    <3>1. CASE c \in gs
      BY <3>1
    <3>2. CASE c \notin gs
      <4>1. (c \in gs) = FALSE
        BY <3>2
      <4> QED BY <1>4, <4>1 DEF Permissions!Runs
    <3> QED BY <3>2
  <2>0. Permissions!Allows(policy, c)
    BY <1>4 DEF Permissions!Runs
  <2>9. r.call = c /\ r.way = "gate" /\ r.policy = policy
    OBVIOUS
  <2> HIDE DEF r
  <2>4. \A q \in ran' : /\ mode # "bypass" /\ q.call.tool # "read_file" =>
                              Permissions!Level(q.call) < 9
                        /\ q.way = "gate" => Permissions!Allows(q.policy, q.call)
                        /\ Permissions!Verdict(q.call, FALSE) # "approve" =>
                              q.call \in approved'
                        /\ q.call \in Calls /\ q.way \in {"gate", "approved"}
                        /\ q.policy \in Policies
    BY <2>0, <2>1, <2>2, <2>3, <2>9 DEF PermissionsInv, Permissions!RunsAreWarranted,
                                        Permissions!TypeOK
  <2>5. Permissions!RunsAreWarranted'
    BY <2>4, VerdictOfMode DEF Permissions!RunsAreWarranted
  <2>6. asking' \subseteq asking
    BY <1>4
  <2> QED BY <1>3, <2>4, <2>5, <2>6 DEF PermissionsInv, Permissions!TypeOK
<1>5. CASE /\ Permissions!Refused(c, gs) /\ UNCHANGED ran
           /\ asking' = IF Permissions!Asks(c, gs) THEN waiting \cup {c} ELSE waiting
  <2>1. Permissions!Asks(c, gs) =>
            (mode # "bypass" /\ c.tool # "read_file" => Permissions!Level(c) < 9)
    BY <1>2, VerdictLooksAtRisk DEF Permissions!Asks
  <2>2. Permissions!RunsAreWarranted'
    BY <1>5, VerdictOfMode DEF PermissionsInv, Permissions!RunsAreWarranted
  <2> QED BY <1>3, <1>5, <2>1, <2>2 DEF PermissionsInv, Permissions!TypeOK
<1> QED BY <1>4, <1>5 DEF Permissions!Execute

LEMMA PermissionsNext == PermissionsInv /\ [Permissions!Next]_permissionsVars =>
    PermissionsInv'
<1> SUFFICES ASSUME PermissionsInv, [Permissions!Next]_permissionsVars
                        PROVE PermissionsInv'
  OBVIOUS
<1>1. ASSUME NEW c \in Calls, Permissions!Call(c) PROVE PermissionsInv'
  <2>1. grants \subseteq Calls /\ approved \subseteq Calls /\ grants \subseteq approved
    BY DEF PermissionsInv, Permissions!TypeOK
  <2> QED BY <1>1, <2>1, ExecuteIsWarranted DEF Permissions!Call
<1>2. ASSUME NEW c \in Calls, Permissions!Approve(c) PROVE PermissionsInv'
  <2>1. PICK gs \in {grants, grants \cup {c}} :
          \/ approvalMode = "promise" /\ Permissions!Execute(c, gs, asking \ {c})
          \/ /\ approvalMode = "event" /\ Permissions!Ran(c, "approved")
             /\ grants' = gs /\ asking' = asking \ {c}
    BY <1>2 DEF Permissions!Approve
  <2>2. /\ c \in asking /\ approved' = approved \cup {c}
        /\ gs \subseteq approved' /\ gs \subseteq Calls /\ approved' \subseteq Calls
        /\ UNCHANGED <<mode, approvalMode, policy>>
    BY <1>2 DEF Permissions!Approve, PermissionsInv, Permissions!TypeOK
  <2>3. CASE Permissions!Execute(c, gs, asking \ {c})
    BY <2>2, <2>3, ExecuteIsWarranted
  <2>4. CASE Permissions!Ran(c, "approved") /\ grants' = gs /\ asking' = asking \ {c}
    <3> DEFINE r == [call |-> c, way |-> "approved", policy |-> policy]
    <3>1. ran' = ran \cup {r} /\ r.call = c /\ r.way = "approved" /\ r.policy = policy
      BY <2>4 DEF Permissions!Ran
    <3> HIDE DEF r
    <3>3. \A q \in ran' : /\ mode # "bypass" /\ q.call.tool # "read_file" =>
                                Permissions!Level(q.call) < 9
                          /\ q.way = "gate" => Permissions!Allows(q.policy, q.call)
                          /\ Permissions!Verdict(q.call, FALSE) # "approve" =>
                                q.call \in approved'
                          /\ q.call \in Calls /\ q.way \in {"gate", "approved"}
                          /\ q.policy \in Policies
      BY <2>2, <3>1 DEF PermissionsInv, Permissions!RunsAreWarranted, Permissions!TypeOK
    <3>4. Permissions!RunsAreWarranted'
      BY <2>2, <3>3, VerdictOfMode DEF Permissions!RunsAreWarranted
    <3> QED BY <2>2, <2>4, <3>3, <3>4 DEF PermissionsInv, Permissions!TypeOK
  <2> QED BY <2>1, <2>3, <2>4
<1>3. ASSUME NEW c \in Calls, Permissions!Deny(c) PROVE PermissionsInv'
  BY <1>3, VerdictOfMode DEF Permissions!Deny, PermissionsInv,
                             Permissions!RunsAreWarranted, Permissions!TypeOK
<1>4. ASSUME NEW p \in Policies, Permissions!Reload(p) PROVE PermissionsInv'
  BY <1>4, VerdictOfMode DEF Permissions!Reload, PermissionsInv,
                             Permissions!RunsAreWarranted, Permissions!TypeOK
<1>5. CASE UNCHANGED permissionsVars
  BY <1>5, VerdictOfMode DEF permissionsVars, PermissionsInv,
                             Permissions!RunsAreWarranted, Permissions!TypeOK
<1> QED BY <1>1, <1>2, <1>3, <1>4, <1>5 DEF Permissions!Next
-----------------------------------------------------------------------------
\* Waits for an approval (ApprovalWaits).
\* What ApprovalWaits promises, with the types, and that nothing happened yet to a
\* wait that is not registered.
WaitingInv == /\ Waiting!TypeOK
              /\ Waiting!WaitsAreAnswered
              /\ \A w \in Waiting!Unregistered : told[w] = "nothing"
                 /\ w \notin cancelled

LEMMA WaitingInit == Waiting!Init => WaitingInv
BY WaitingAssumption DEF Waiting!Init, WaitingInv, Waiting!TypeOK,
                         Waiting!WaitsAreAnswered, Waiting!Unregistered, Waiting!Open

\* A wait that the manager keeps is open and was registered for that request.
LEMMA KeptWaitIsOpen ==
  ASSUME WaitingInv, NEW r \in Requests, pending[r] # None
  PROVE  /\ pending[r] \in Waits /\ pending[r] \in armed /\ pending[r] \in Waiting!Open
         /\ wanted[pending[r]] = {r} /\ pending[r] \notin Waiting!Unregistered
BY DEF WaitingInv, Waiting!TypeOK, Waiting!WaitsAreAnswered, Waiting!Unregistered,
       Waiting!Open

LEMMA WaitingNext == WaitingInv /\ [Waiting!Next]_waitingVars => WaitingInv'
<1> SUFFICES ASSUME WaitingInv, [Waiting!Next]_waitingVars PROVE WaitingInv'
  OBVIOUS
<1>1. ASSUME NEW w \in Waits, Waiting!TimerFires(w) PROVE WaitingInv'
  <2>1. PICK r \in wanted[w] : pending' = [pending EXCEPT ![r] = None]
    BY <1>1 DEF Waiting!TimerFires, Waiting!Forgotten
  <2> QED BY <1>1, <2>1, WaitingAssumption
          DEF WaitingInv, Waiting!TimerFires, Waiting!TypeOK, Waiting!WaitsAreAnswered,
              Waiting!Unregistered, Waiting!Open
<1>2. ASSUME NEW w \in Waits, NEW r \in Requests, Waiting!Register(w, r)
                 PROVE WaitingInv'
  BY <1>2 DEF WaitingInv, Waiting!Register, Waiting!TypeOK, Waiting!WaitsAreAnswered,
              Waiting!Unregistered, Waiting!Open
<1>3. ASSUME NEW r \in Requests, Waiting!Cancel(r) PROVE WaitingInv'
  BY <1>3, WaitingAssumption
     DEF WaitingInv, Waiting!Cancel, Waiting!Forgotten, Waiting!TypeOK,
         Waiting!WaitsAreAnswered, Waiting!Unregistered, Waiting!Open
<1>4. ASSUME NEW r \in Requests, NEW ok \in BOOLEAN, Waiting!EmitResolved(r, ok)
                 PROVE WaitingInv'
  <2>1. CASE pending[r] = None
    BY <1>4, <2>1 DEF WaitingInv, Waiting!EmitResolved, Waiting!Resolve, Waiting!TypeOK,
                      Waiting!WaitsAreAnswered,
                      Waiting!Unregistered, Waiting!Open
  <2>2. CASE pending[r] # None
    BY <1>4, WaitingAssumption
       DEF WaitingInv, Waiting!EmitResolved, Waiting!Resolve, Waiting!Forgotten,
           Waiting!TypeOK, Waiting!WaitsAreAnswered,
           Waiting!Unregistered, Waiting!Open
  <2> QED BY <2>1, <2>2
<1>5. CASE UNCHANGED waitingVars
  BY <1>5 DEF WaitingInv, waitingVars, Waiting!TypeOK, Waiting!WaitsAreAnswered,
              Waiting!Unregistered, Waiting!Open
<1> QED BY <1>1, <1>2, <1>3, <1>4, <1>5 DEF Waiting!Next
-----------------------------------------------------------------------------
\* The breakers and the rules of the reliability monitor (Reliability).

\* What the states of a breaker say about its counts.
CountsFit(r) ==
    /\ r.state = "closed" => r.failures < Threshold
    /\ r.state = "open" => r.openedAt \in 0..now
    /\ r.state = "half_open" => r.successes < Probes

BreakerInv == /\ now \in 0..MaxTime
              /\ breaker \in [Keys -> Record]
              /\ \A k \in Keys : CountsFit(breaker[k])

RulesInv == rules \in Seq(Rule) /\ NoConflictingAdvice

IInv == BreakerInv /\ RulesInv
-----------------------------------------------------------------------------
\* A breaker that was refreshed is open only while its cooldown runs.
LEMMA RefreshedCounts ==
    ASSUME NEW r \in Record, now \in 0..MaxTime, CountsFit(r)
    PROVE  Refreshed(r) \in Record /\ CountsFit(Refreshed(r))
<1>1. CASE Cooled(r)
  <2>1. Refreshed(r) = [r EXCEPT !.state = "half_open", !.successes = 0]
    BY <1>1 DEF Refreshed
  <2>2. Refreshed(r) \in Record
    <3> DEFINE halfOpen == [r EXCEPT !.state = "half_open"]
    <3>1. halfOpen \in Record
      BY DEF Record, States
    <3>2. Refreshed(r) = [halfOpen EXCEPT !.successes = 0]
      BY <2>1 DEF Record
    <3> HIDE DEF halfOpen
    <3> QED BY <3>1, <3>2 DEF Record
  <2>3. Refreshed(r).state = "half_open" /\ Refreshed(r).successes = 0
    BY <2>1 DEF Record
  <2> QED BY <2>2, <2>3, BreakerAssumption DEF CountsFit
<1>2. CASE ~Cooled(r)
  BY <1>2 DEF Refreshed
<1> QED BY <1>1, <1>2

\* What a failure and a success make of a breaker that was refreshed.
LEMMA FailureCounts ==
    ASSUME NEW r \in Record, now \in 0..MaxTime, CountsFit(r)
    PROVE  AfterFailure(r) \in Record /\ CountsFit(AfterFailure(r))
BY BreakerAssumption, RuleAssumption
   DEF AfterFailure, Opens, Record, States, CountsFit

LEMMA SuccessCounts ==
    ASSUME NEW r \in Record, now \in 0..MaxTime, CountsFit(r)
    PROVE  AfterSuccess(r) \in Record /\ CountsFit(AfterSuccess(r))
<1>1. r.state \in {"closed", "open", "half_open"} /\ r.successes \in Nat
      /\ r.destructive \in BOOLEAN
  BY DEF Record, States
<1>2. Closed(r.destructive) \in Record /\ CountsFit(Closed(r.destructive))
  BY <1>1, BreakerAssumption DEF Closed, Record, States, CountsFit
<1>3. CASE r.state = "closed"
  BY <1>3, BreakerAssumption DEF AfterSuccess, Record, States, CountsFit
<1>4. CASE r.state = "half_open"
  <2>1. CASE r.successes + 1 < Probes
    BY <1>4, <2>1, BreakerAssumption DEF AfterSuccess, Record, States, CountsFit
  <2>2. CASE r.successes + 1 >= Probes
    <3>1. AfterSuccess(r) = Closed(r.destructive)
      BY <1>1, <1>4, <2>2, BreakerAssumption DEF AfterSuccess
    <3> QED BY <1>2, <3>1
  <2> QED BY <1>1, <2>1, <2>2, BreakerAssumption
<1>5. CASE r.state = "open"
  BY <1>5 DEF AfterSuccess
<1> QED BY <1>1, <1>3, <1>4, <1>5
-----------------------------------------------------------------------------
LEMMA InitIInv == Init => IInv
<1> SUFFICES ASSUME Init PROVE IInv
  OBVIOUS
<1>1. PICK kind \in [Keys -> BOOLEAN] : breaker = [k \in Keys |-> Closed(kind[k])]
  BY DEF Init
<1>2. ASSUME NEW b \in BOOLEAN PROVE Closed(b) \in Record /\ CountsFit(Closed(b))
  BY <1>2, BreakerAssumption DEF Closed, Record, States, CountsFit
<1>3. BreakerInv
  BY <1>1, <1>2, RuleAssumption DEF Init, BreakerInv
<1>4. RulesInv
  BY DEF Init, RulesInv, NoConflictingAdvice
<1> QED BY <1>3, <1>4 DEF IInv

\* One breaker changes, to one whose counts are right.
LEMMA BreakerChanges ==
    ASSUME BreakerInv, NEW k \in Keys, NEW r \in Record, CountsFit(r),
           breaker' = [breaker EXCEPT ![k] = r], UNCHANGED now
    PROVE  BreakerInv'
BY DEF BreakerInv, CountsFit

\* A use of a breaker keeps the counts of all.
LEMMA UseKeepsBreakers == BreakerInv /\ UsesBreaker => BreakerInv'
<1> SUFFICES ASSUME BreakerInv, NEW k \in Keys,
                    Evaluate(k) \/ RecordFailure(k) \/ RecordSuccess(k)
             PROVE  BreakerInv'
  BY DEF UsesBreaker
<1> DEFINE b == breaker[k]
           r == Refreshed(b)
<1>1. now \in 0..MaxTime /\ b \in Record /\ CountsFit(b)
  BY DEF BreakerInv
<1>2. r \in Record /\ CountsFit(r)
  BY <1>1, RefreshedCounts
<1>3. CASE Evaluate(k)
  <2>1. breaker' = [breaker EXCEPT ![k] = r] /\ UNCHANGED now
    BY <1>3 DEF Evaluate
  <2> QED BY <1>2, <2>1, BreakerChanges
<1>4. CASE breaker' = [breaker EXCEPT ![k] = AfterFailure(r)] /\ UNCHANGED now
  <2>1. AfterFailure(r) \in Record /\ CountsFit(AfterFailure(r))
    BY <1>1, <1>2, FailureCounts
  <2> QED BY <1>4, <2>1, BreakerChanges
<1>5. CASE breaker' = [breaker EXCEPT ![k] = AfterSuccess(r)] /\ UNCHANGED now
  <2>1. AfterSuccess(r) \in Record /\ CountsFit(AfterSuccess(r))
    BY <1>1, <1>2, SuccessCounts
  <2> QED BY <1>5, <2>1, BreakerChanges
<1> QED BY <1>3, <1>4, <1>5 DEF RecordFailure, RecordSuccess

\* Every step keeps the counts of the breakers.
LEMMA NextBreakers == BreakerInv /\ [Next]_vars => BreakerInv'
<1>1. BreakerInv /\ Tick => BreakerInv'
  BY RuleAssumption DEF Tick, BreakerInv, CountsFit, Record, States
<1>2. UsesRules => UNCHANGED <<now, breaker>>
  BY DEF UsesRules, ProposeRule, ApproveRule, RejectRule, ActivateRule, SetsStatus,
         ExpireDueRules
<1>3. BreakerInv /\ UNCHANGED <<now, breaker>> => BreakerInv'
  BY DEF BreakerInv, CountsFit
<1> QED BY <1>1, <1>2, <1>3, UseKeepsBreakers DEF Next, vars
-----------------------------------------------------------------------------
\* A rule that is proposed is no rule that is active.
LEMMA ProposalAdded ==
    ASSUME RulesInv, now \in Nat, NEW p \in Patterns, NEW a \in Recommendations,
           rules' = Append(rules, Proposal(p, a))
    PROVE  RulesInv'
<1>1. Proposal(p, a) \in Rule /\ Proposal(p, a).status = "proposed"
  BY RuleAssumption DEF Proposal, Rule, Statuses
<1>2. rules \in Seq(Rule)
  BY DEF RulesInv
<1>3. rules' \in Seq(Rule)
  BY <1>1, <1>2
<1>4. ASSUME NEW i \in DOMAIN rules', rules'[i].status = "active"
      PROVE  i \in DOMAIN rules /\ rules'[i] = rules[i]
  BY <1>1, <1>2, <1>4
<1> QED BY <1>3, <1>4 DEF RulesInv, NoConflictingAdvice

\* No rule becomes active, and none changes its pattern or its advice.
LEMMA RulesChange ==
    ASSUME RulesInv, rules' \in Seq(Rule), DOMAIN rules' = DOMAIN rules,
           \A i \in DOMAIN rules : /\ rules'[i].pattern = rules[i].pattern
                                   /\ rules'[i].recommendation = rules[i].recommendation
                                   /\ rules'[i].status = "active" =>
                                          rules[i].status = "active"
    PROVE  RulesInv'
BY DEF RulesInv, NoConflictingAdvice

LEMMA StatusSet ==
    ASSUME RulesInv, NEW i \in DOMAIN rules, NEW status \in Statuses,
           SetsStatus(i, status)
    PROVE  /\ rules' \in Seq(Rule) /\ DOMAIN rules' = DOMAIN rules
           /\ rules'[i] = [rules[i] EXCEPT !.status = status]
           /\ \A j \in DOMAIN rules \ {i} : rules'[j] = rules[j]
<1>1. rules \in Seq(Rule) /\ rules[i] \in Rule
  BY DEF RulesInv
<1>2. [rules[i] EXCEPT !.status = status] \in Rule
  BY <1>1 DEF Rule
<1> QED BY <1>1, <1>2 DEF SetsStatus

\* A rule is activated only beside rules that agree with it.
LEMMA StatusKeepsRules ==
    ASSUME RulesInv, NEW i \in DOMAIN rules, NEW status \in Statuses,
           SetsStatus(i, status), status = "active" => ~Conflict(i)
    PROVE  RulesInv'
<1>1. /\ rules' \in Seq(Rule) /\ DOMAIN rules' = DOMAIN rules
      /\ rules'[i] = [rules[i] EXCEPT !.status = status]
      /\ \A j \in DOMAIN rules \ {i} : rules'[j] = rules[j]
  BY StatusSet
<1>2. /\ rules'[i].status = status
      /\ rules'[i].pattern = rules[i].pattern
      /\ rules'[i].recommendation = rules[i].recommendation
  <2>1. rules[i] \in Rule
    BY DEF RulesInv
  <2> QED BY <1>1, <2>1 DEF Rule
<1>3. CASE status # "active"
  <2>1. ASSUME NEW j \in DOMAIN rules
        PROVE  /\ rules'[j].pattern = rules[j].pattern
               /\ rules'[j].recommendation = rules[j].recommendation
               /\ rules'[j].status = "active" => rules[j].status = "active"
    BY <1>1, <1>2, <1>3
  <2> QED BY <1>1, <2>1, RulesChange
<1>4. CASE status = "active"
  <2>1. \A j \in DOMAIN rules \ {i} :
            rules[j].status = "active" /\ rules[j].pattern = rules[i].pattern
            => rules[j].recommendation = rules[i].recommendation
    BY <1>4 DEF Conflict
  <2>2. \A j, k \in DOMAIN rules \ {i} :
            rules[j].status = "active" /\ rules[k].status = "active"
            /\ rules[j].pattern = rules[k].pattern
            => rules[j].recommendation = rules[k].recommendation
    BY DEF RulesInv, NoConflictingAdvice
  <2>3. ASSUME NEW j \in DOMAIN rules, NEW k \in DOMAIN rules,
               rules'[j].status = "active", rules'[k].status = "active",
               rules'[j].pattern = rules'[k].pattern
        PROVE  rules'[j].recommendation = rules'[k].recommendation
    <3>1. CASE j # i /\ k # i
      BY <1>1, <2>2, <2>3, <3>1
    <3>2. CASE j = i /\ k # i
      BY <1>1, <1>2, <2>1, <2>3, <3>2
    <3>3. CASE j # i /\ k = i
      BY <1>1, <1>2, <2>1, <2>3, <3>3
    <3> QED BY <3>1, <3>2, <3>3
  <2> QED BY <1>1, <2>3 DEF RulesInv, NoConflictingAdvice
<1> QED BY <1>3, <1>4

\* What is due expires; nothing else changes.
LEMMA ExpiryKeepsRules == RulesInv /\ ExpireDueRules => RulesInv'
<1> SUFFICES ASSUME RulesInv, ExpireDueRules PROVE RulesInv'
  OBVIOUS
<1>1. rules \in Seq(Rule) /\ DOMAIN rules' = DOMAIN rules
  BY DEF RulesInv, ExpireDueRules
<1>2. ASSUME NEW i \in DOMAIN rules
      PROVE  /\ rules'[i] \in Rule
             /\ rules'[i].pattern = rules[i].pattern
             /\ rules'[i].recommendation = rules[i].recommendation
             /\ rules'[i].status = "active" => rules[i].status = "active"
  <2>1. rules[i] \in Rule
    BY <1>1
  <2>2. rules'[i] = rules[i] \/ rules'[i] = [rules[i] EXCEPT !.status = "expired"]
    BY DEF ExpireDueRules
  <2> QED BY <2>1, <2>2 DEF Rule, Statuses
<1>3. rules' \in Seq(Rule)
  <2>1. rules' = [i \in 1..Len(rules) |-> rules'[i]] /\ Len(rules) \in Nat
    BY <1>1 DEF ExpireDueRules
  <2>2. \A i \in 1..Len(rules) : rules'[i] \in Rule
    BY <1>1, <1>2
  <2> QED BY <2>1, <2>2
<1> QED BY <1>1, <1>2, <1>3, RulesChange

\* Every step keeps the rules without conflicts.
LEMMA NextRules == BreakerInv /\ RulesInv /\ [Next]_vars => RulesInv'
<1> SUFFICES ASSUME BreakerInv, RulesInv, [Next]_vars PROVE RulesInv'
  OBVIOUS
<1>1. now \in Nat
  BY RuleAssumption DEF BreakerInv
<1>2. CASE UNCHANGED rules
  BY <1>2 DEF RulesInv, NoConflictingAdvice
<1>3. ASSUME NEW k \in Keys, RecordFailure(k) PROVE RulesInv'
  <2>1. CASE UNCHANGED rules
    BY <1>2, <2>1
  <2>2. CASE rules' = Observed(<<k, Reason(Refreshed(breaker[k]))>>)
    <3>1. <<k, Reason(Refreshed(breaker[k]))>> \in Patterns
          /\ "fallback:breaker_open" \in Recommendations
      BY DEF Patterns, Reason, Recommendations
    <3> QED BY <1>1, <1>2, <2>2, <3>1, ProposalAdded DEF Observed
  <2> QED BY <1>3, <2>1, <2>2 DEF RecordFailure, Evaluate
<1>4. ASSUME NEW p \in Patterns, NEW a \in Recommendations, ProposeRule(p, a)
      PROVE  RulesInv'
  BY <1>1, <1>4, ProposalAdded DEF ProposeRule
<1>5. ASSUME NEW i \in DOMAIN rules, ApproveRule(i) \/ RejectRule(i) \/ ActivateRule(i)
      PROVE  RulesInv'
  BY <1>5, StatusKeepsRules DEF ApproveRule, RejectRule, ActivateRule, Statuses
<1>6. CASE ExpireDueRules
  BY <1>6, ExpiryKeepsRules
<1> QED BY <1>2, <1>3, <1>4, <1>5, <1>6
        DEF Next, UsesBreaker, UsesRules, Evaluate, RecordSuccess, Tick, vars

\* Both hold in every reachable state, whatever component moves.
LEMMA BreakersAndRules == ServicesSpec => []IInv
<1>1. ServicesInit => IInv
  BY PartStarts, InitIInv
<1>2. IInv /\ [ServicesNext]_everything => IInv'
  BY PartMoves, NextBreakers, NextRules DEF IInv
<1> QED BY <1>1, <1>2, PTL DEF ServicesSpec

\* Two active rules never give one pattern different advice, whatever is
\* proposed, approved, rejected, expired and activated in whatever order
\* (AntibodyRepository.activate).
THEOREM AdviceAgrees == ServicesSpec => []NoConflictingAdvice
<1>1. IInv => NoConflictingAdvice
  BY DEF IInv, RulesInv
<1> QED BY <1>1, BreakersAndRules, PTL
-----------------------------------------------------------------------------
\* What someone with a clock sees of the breakers.
Phases == [k \in Keys |-> Phase(breaker[k])]
Streaks == [k \in Keys |-> Streak(breaker[k])]
CooldownsLeft == [k \in Keys |-> Remaining(breaker[k])]

\* Noting the end of a cooldown shows nothing.
LEMMA RefreshIsHidden ==
    ASSUME NEW r \in Record, now \in 0..MaxTime, CountsFit(r)
    PROVE  /\ Refreshed(r).state = Phase(r)
           /\ Phase(Refreshed(r)) = Phase(r)
           /\ Streak(Refreshed(r)) = Streak(r)
           /\ Remaining(Refreshed(r)) = Remaining(r)
<1>1. CASE Cooled(r)
  <2>1. Refreshed(r) = [r EXCEPT !.state = "half_open", !.successes = 0]
    BY <1>1 DEF Refreshed
  <2>2. /\ Refreshed(r).state = "half_open" /\ Refreshed(r).successes = 0
        /\ r.state = "open"
    BY <1>1, <2>1 DEF Record, Cooled
  <2> QED BY <1>1, <2>2 DEF Phase, Streak, Remaining, Cooled
<1>2. CASE ~Cooled(r)
  BY <1>2 DEF Refreshed, Phase
<1> QED BY <1>1, <1>2

\* How a failure looks: nothing while the breaker is open, one more in a row
\* below the threshold, otherwise a breaker that opens.
LEMMA FailureLooks ==
    ASSUME NEW r \in Record, now \in 0..MaxTime, CountsFit(r), ~Cooled(r)
    PROVE  LET after == AfterFailure(r) IN
           /\ r.state = "open" =>
                  /\ Phase(after) = "open" /\ Streak(after) = 0
                  /\ Remaining(after) = Remaining(r)
           /\ r.state = "closed" /\ r.failures + 1 < Threshold =>
                  /\ Phase(after) = "closed" /\ Streak(after) = r.failures + 1
                  /\ Remaining(after) = 0
           /\ Opens(r) =>
                  /\ Phase(after) = "open" /\ Streak(after) = 0
                  /\ Remaining(after) = Cooldown
<1> DEFINE after == AfterFailure(r)
<1>1. now \in Nat /\ Cooldown \in Nat \ {0} /\ Threshold \in Nat \ {0}
  BY BreakerAssumption, RuleAssumption
<1>2. CASE r.state = "open"
  <2>1. after.state = "open" /\ after.openedAt = r.openedAt /\ ~Opens(r)
    BY <1>2 DEF AfterFailure, Opens
  <2> QED BY <1>2, <2>1 DEF Phase, Streak, Remaining, Cooled
<1>3. CASE Opens(r)
  <2>1. after.state = "open" /\ after.openedAt = now /\ r.state # "open"
    BY <1>3 DEF AfterFailure, Opens
  <2>2. ~Cooled(after)
    BY <1>1, <2>1 DEF Cooled
  <2>3. now - now = 0 /\ Cooldown - 0 = Cooldown
    BY <1>1
  <2>4. ~(r.state = "closed" /\ r.failures + 1 < Threshold)
    BY <1>1, <1>3 DEF Opens, Record
  <2> QED BY <1>1, <2>1, <2>2, <2>3, <2>4 DEF Phase, Streak, Remaining
<1>4. CASE ~Opens(r) /\ r.state = "closed"
  <2>1. after.state = "closed" /\ after.failures = r.failures + 1
    BY <1>4 DEF AfterFailure
  <2> QED BY <1>4, <2>1 DEF Phase, Streak, Remaining, Cooled
<1> QED BY <1>2, <1>3, <1>4 DEF Record, States, Opens

\* How a success looks.
LEMMA SuccessLooks ==
    ASSUME NEW r \in Record, now \in 0..MaxTime, CountsFit(r), ~Cooled(r)
    PROVE  LET after == AfterSuccess(r) IN
           /\ r.state = "open" => after = r
           /\ r.state = "closed"
              \/ (r.state = "half_open" /\ r.successes + 1 >= Probes) =>
                  /\ Phase(after) = "closed" /\ Streak(after) = 0
                  /\ Remaining(after) = 0
           /\ r.state = "half_open" /\ r.successes + 1 < Probes =>
                  /\ Phase(after) = "half_open" /\ Streak(after) = r.successes + 1
                  /\ Remaining(after) = 0
<1> DEFINE after == AfterSuccess(r)
<1>1. CASE r.state = "open"
  BY <1>1 DEF AfterSuccess
<1>2. CASE r.state = "closed"
  <2>1. after = [r EXCEPT !.failures = 0]
    BY <1>2 DEF AfterSuccess
  <2>2. after.state = "closed" /\ after.failures = 0
    BY <1>2, <2>1 DEF Record
  <2> QED BY <1>2, <2>2 DEF Phase, Streak, Remaining, Cooled
<1>3. CASE r.state = "half_open" /\ r.successes + 1 < Probes
  <2>3. ~(r.successes + 1 >= Probes)
    BY <1>3, BreakerAssumption DEF Record
  <2>1. after = [r EXCEPT !.successes = @ + 1]
    BY <1>3, <2>3, Zenon DEF AfterSuccess
  <2>2. after.state = "half_open" /\ after.successes = r.successes + 1
    BY <1>3, <2>1 DEF Record
  <2> QED BY <1>3, <2>2, <2>3 DEF Phase, Streak, Remaining, Cooled
<1>4. CASE r.state = "half_open" /\ r.successes + 1 >= Probes
  <2>1. ~(r.successes + 1 < Probes)
    BY <1>4, BreakerAssumption DEF Record
  <2>2. after = Closed(r.destructive)
    BY <1>4, <2>1 DEF AfterSuccess
  <2>3. after.state = "closed" /\ after.failures = 0
    BY <2>2 DEF Closed
  <2> QED BY <1>4, <2>1, <2>3 DEF Phase, Streak, Remaining, Cooled
<1>5. r.state = "half_open" => r.successes + 1 < Probes \/ r.successes + 1 >= Probes
  BY BreakerAssumption DEF Record
<1> QED BY <1>1, <1>2, <1>3, <1>4, <1>5 DEF Record, States
-----------------------------------------------------------------------------
\* A change of one breaker changes what is seen of that one.
LEMMA ViewChanges ==
    ASSUME NEW k \in Keys, breaker \in [Keys -> Record], NEW r \in Record,
           breaker' = [breaker EXCEPT ![k] = r], UNCHANGED now
    PROVE  /\ Phases' = [Phases EXCEPT ![k] = Phase(r)]
           /\ Streaks' = [Streaks EXCEPT ![k] = Streak(r)]
           /\ CooldownsLeft' = [CooldownsLeft EXCEPT ![k] = Remaining(r)]
BY DEF Phases, Streaks, CooldownsLeft, Phase, Streak, Remaining, Cooled

\* And shows nothing when the breaker looks as it did.
LEMMA ViewStays ==
    ASSUME NEW k \in Keys, breaker \in [Keys -> Record], NEW r \in Record,
           breaker' = [breaker EXCEPT ![k] = r], UNCHANGED now,
           Phase(r) = Phase(breaker[k]), Streak(r) = Streak(breaker[k]),
           Remaining(r) = Remaining(breaker[k])
    PROVE  UNCHANGED <<Phases, Streaks, CooldownsLeft>>
<1>1. /\ Phases' = [Phases EXCEPT ![k] = Phase(r)]
      /\ Streaks' = [Streaks EXCEPT ![k] = Streak(r)]
      /\ CooldownsLeft' = [CooldownsLeft EXCEPT ![k] = Remaining(r)]
  BY ViewChanges
<1> QED BY <1>1 DEF Phases, Streaks, CooldownsLeft

\* A use of a breaker is a step of the contract, or shows nothing.
LEMMA UseMaps ==
    BreakerInv /\ UsesBreaker => [Contract!Next]_(Contract!contractVars)
<1> SUFFICES ASSUME BreakerInv, NEW k \in Keys,
                    Evaluate(k) \/ RecordFailure(k) \/ RecordSuccess(k)
             PROVE  [Contract!Next]_(Contract!contractVars)
  BY DEF UsesBreaker
<1> DEFINE b == breaker[k]
           r == Refreshed(b)
<1>1. /\ now \in 0..MaxTime /\ b \in Record /\ CountsFit(b)
      /\ breaker \in [Keys -> Record]
  BY DEF BreakerInv
<1>2. r \in Record /\ CountsFit(r)
  BY <1>1, RefreshedCounts
<1>3. /\ r.state = Phase(b)
      /\ Phase(r) = Phase(b) /\ Streak(r) = Streak(b) /\ Remaining(r) = Remaining(b)
  BY <1>1, RefreshIsHidden
<1>4. ~Cooled(r)
  BY <1>3 DEF Phase, Cooled
<1>5. /\ Phases[k] = r.state /\ Streaks[k] = Streak(r)
      /\ CooldownsLeft[k] = Remaining(r)
  BY <1>3 DEF Phases, Streaks, CooldownsLeft
<1>6. UNCHANGED <<Phases, Streaks, CooldownsLeft>> =>
          [Contract!Next]_(Contract!contractVars)
  BY DEF Contract!contractVars, Phases, Streaks, CooldownsLeft
<1>7. ASSUME NEW p, NEW n, NEW w,
             Phases' = [Phases EXCEPT ![k] = p], Streaks' = [Streaks EXCEPT ![k] = n],
             CooldownsLeft' = [CooldownsLeft EXCEPT ![k] = w]
      PROVE  Contract!Becomes(k, p, n, w)
  BY <1>7 DEF Contract!Becomes, Phases, Streaks, CooldownsLeft
<1>8. CASE Evaluate(k)
  <2>1. breaker' = [breaker EXCEPT ![k] = r] /\ UNCHANGED now
    BY <1>8 DEF Evaluate
  <2> QED BY <1>1, <1>2, <1>3, <1>6, <2>1, ViewStays
<1>9. CASE breaker' = [breaker EXCEPT ![k] = AfterFailure(r)] /\ UNCHANGED now
  <2> DEFINE after == AfterFailure(r)
  <2>1. after \in Record
    BY <1>1, <1>2, FailureCounts
  <2>2. /\ Phases' = [Phases EXCEPT ![k] = Phase(after)]
        /\ Streaks' = [Streaks EXCEPT ![k] = Streak(after)]
        /\ CooldownsLeft' = [CooldownsLeft EXCEPT ![k] = Remaining(after)]
    BY <1>1, <1>9, <2>1, ViewChanges
  <2>3. CASE r.state = "open"
    <3>1. /\ Phase(after) = "open" /\ Streak(after) = 0
          /\ Remaining(after) = Remaining(r)
      BY <1>1, <1>2, <1>4, <2>3, FailureLooks
    <3>2. Phase(r) = "open" /\ Streak(r) = 0
      BY <1>3, <2>3 DEF Streak
    <3> QED BY <1>1, <1>3, <1>6, <1>9, <2>1, <3>1, <3>2, ViewStays
  <2>4. CASE r.state = "closed" /\ r.failures + 1 < Threshold
    <3>1. /\ Phase(after) = "closed" /\ Streak(after) = r.failures + 1
          /\ Remaining(after) = 0
      BY <1>1, <1>2, <1>4, <2>4, FailureLooks
    <3>2. Phases[k] = "closed" /\ Streaks[k] = r.failures
      BY <1>5, <2>4 DEF Streak
    <3>3. Contract!Becomes(k, "closed", Streaks[k] + 1, 0)
      BY <1>7, <2>2, <3>1, <3>2
    <3>4. Contract!Fails(k)
      BY <2>4, <3>2, <3>3 DEF Contract!Fails, Phases, Streaks
    <3> QED BY <3>4 DEF Contract!Next
  <2>5. CASE Opens(r)
    <3>1. /\ Phase(after) = "open" /\ Streak(after) = 0 /\ Remaining(after) = Cooldown
      BY <1>1, <1>2, <1>4, <2>5, FailureLooks
    <3>2. Contract!Becomes(k, "open", 0, Cooldown)
      BY <1>7, <2>2, <3>1
    <3>3. \/ Phases[k] = "closed" /\ Streaks[k] + 1 >= Threshold
          \/ Phases[k] = "half_open"
      BY <1>5, <2>5 DEF Opens, Streak
    <3>4. Contract!Fails(k)
      BY <3>2, <3>3 DEF Contract!Fails, Phases, Streaks
    <3> QED BY <3>4 DEF Contract!Next
  <2>6. r.state = "closed" => r.failures + 1 < Threshold \/ r.failures + 1 >= Threshold
    BY <1>2, BreakerAssumption DEF Record
  <2> QED BY <1>2, <2>3, <2>4, <2>5, <2>6 DEF Record, States, Opens
<1>10. CASE breaker' = [breaker EXCEPT ![k] = AfterSuccess(r)] /\ UNCHANGED now
  <2> DEFINE after == AfterSuccess(r)
  <2>1. after \in Record
    BY <1>1, <1>2, SuccessCounts
  <2>2. /\ Phases' = [Phases EXCEPT ![k] = Phase(after)]
        /\ Streaks' = [Streaks EXCEPT ![k] = Streak(after)]
        /\ CooldownsLeft' = [CooldownsLeft EXCEPT ![k] = Remaining(after)]
    BY <1>1, <1>10, <2>1, ViewChanges
  <2>3. CASE r.state = "open"
    <3>1. after = r
      BY <1>1, <1>2, <1>4, <2>3, SuccessLooks
    <3> QED BY <1>1, <1>2, <1>3, <1>6, <1>10, <3>1, ViewStays
  <2>4. CASE r.state = "closed" \/ (r.state = "half_open" /\ r.successes + 1 >= Probes)
    <3>1. /\ Phase(after) = "closed" /\ Streak(after) = 0 /\ Remaining(after) = 0
      BY <1>1, <1>2, <1>4, <2>4, SuccessLooks
    <3>2. Contract!Becomes(k, "closed", 0, 0)
      BY <1>7, <2>2, <3>1
    <3>3. Phases[k] = "closed" \/ (Phases[k] = "half_open" /\ Streaks[k] + 1 >= Probes)
      <4>1. r.state = "half_open" => Streaks[k] = r.successes
        BY <1>5 DEF Streak
      <4> QED BY <1>5, <2>4, <4>1
    <3>4. Contract!Succeeds(k)
      BY <3>2, <3>3 DEF Contract!Succeeds, Phases, Streaks
    <3> QED BY <3>4 DEF Contract!Next
  <2>5. CASE r.state = "half_open" /\ r.successes + 1 < Probes
    <3>1. /\ Phase(after) = "half_open" /\ Streak(after) = r.successes + 1
          /\ Remaining(after) = 0
      BY <1>1, <1>2, <1>4, <2>5, SuccessLooks
    <3>2. Phases[k] = "half_open" /\ Streaks[k] = r.successes
      BY <1>5, <2>5 DEF Streak
    <3>3. Contract!Becomes(k, "half_open", Streaks[k] + 1, 0)
      BY <1>7, <2>2, <3>1, <3>2
    <3>4. Contract!Succeeds(k)
      BY <2>5, <3>2, <3>3 DEF Contract!Succeeds, Phases, Streaks
    <3> QED BY <3>4 DEF Contract!Next
  <2>6. r.successes + 1 < Probes \/ r.successes + 1 >= Probes
    BY <1>2, BreakerAssumption DEF Record
  <2>7. r.state \in {"closed", "open", "half_open"}
    BY <1>2 DEF Record, States
  <2> QED BY <2>3, <2>4, <2>5, <2>6, <2>7
<1> QED BY <1>8, <1>9, <1>10 DEF RecordFailure, RecordSuccess

\* The clock runs for every breaker alike.
LEMMA TickMaps == BreakerInv /\ Tick => Contract!Passes
<1> SUFFICES ASSUME BreakerInv, Tick PROVE Contract!Passes
  OBVIOUS
<1>1. now \in Nat /\ now' = now + 1 /\ breaker' = breaker /\ Cooldown \in Nat \ {0}
  BY RuleAssumption, BreakerAssumption DEF BreakerInv, Tick
<1>2. ASSUME NEW k \in Keys
      PROVE  /\ Phases'[k] = IF Phases[k] = "open" /\ CooldownsLeft[k] <= 1
                             THEN "half_open" ELSE Phases[k]
             /\ CooldownsLeft'[k] = IF CooldownsLeft[k] > 0 THEN CooldownsLeft[k] - 1
                   ELSE 0
             /\ Streaks'[k] = Streaks[k]
  <2> DEFINE b == breaker[k]
  <2>1. b \in Record /\ CountsFit(b)
    BY DEF BreakerInv
  <2>2. /\ Phases[k] = IF Cooled(b) THEN "half_open" ELSE b.state
        /\ CooldownsLeft[k] = IF Phase(b) = "open" THEN Cooldown - (now - b.openedAt)
              ELSE 0
        /\ Streaks[k] = Streak(b)
        /\ Phases'[k] = Phase(b)' /\ CooldownsLeft'[k] = Remaining(b)'
        /\ Streaks'[k] = Streak(b)'
    BY DEF Phases, CooldownsLeft, Streaks, Phase, Remaining
  <2>3. CASE b.state # "open"
    <3>1. ~Cooled(b) /\ ~Cooled(b)' /\ Phase(b) = b.state /\ Phase(b)' = b.state
      BY <1>1, <2>3 DEF Cooled, Phase
    <3> QED BY <1>1, <2>2, <2>3, <3>1 DEF Streak, Remaining
  <2>4. CASE b.state = "open" /\ Cooled(b)
    <3>1. b.openedAt \in 0..now /\ now - b.openedAt >= Cooldown
      BY <2>1, <2>4 DEF CountsFit, Cooled
    <3>2. Cooled(b)'
      BY <1>1, <2>4, <3>1 DEF Cooled
    <3> QED BY <1>1, <2>2, <2>4, <3>2 DEF Streak, Remaining, Phase
  <2>5. CASE b.state = "open" /\ ~Cooled(b)
    <3>1. b.openedAt \in 0..now
      BY <2>1, <2>5 DEF CountsFit
    <3>2. now - b.openedAt < Cooldown
      BY <1>1, <2>5, <3>1 DEF Cooled, Never
    <3>3. Phases[k] = "open" /\ CooldownsLeft[k] = Cooldown - (now - b.openedAt)
      BY <2>2, <2>5 DEF Phase
    <3>4. Cooled(b)' <=> CooldownsLeft[k] <= 1
      BY <1>1, <2>5, <3>1, <3>3 DEF Cooled, Never
    <3>5. CASE CooldownsLeft[k] <= 1
      <4>1. Phases'[k] = "half_open" /\ CooldownsLeft'[k] = 0
        BY <2>2, <3>4, <3>5 DEF Phase, Remaining
      <4>2. CooldownsLeft[k] - 1 = 0 /\ CooldownsLeft[k] > 0
        BY <1>1, <3>1, <3>2, <3>3, <3>5
      <4> QED BY <1>1, <2>2, <3>3, <3>5, <4>1, <4>2 DEF Streak
    <3>6. CASE ~(CooldownsLeft[k] <= 1)
      <4>1. Phases'[k] = "open"
        BY <1>1, <2>2, <2>5, <3>4, <3>6 DEF Phase
      <4>2. CooldownsLeft'[k] = (Cooldown - (now - b.openedAt))'
        <5>1. (Phase(b) = "open")'
          BY <1>1, <2>5, <3>4, <3>6 DEF Phase
        <5>2. (Phase(b) = "open" => Remaining(b) = Cooldown - (now - b.openedAt))'
          BY DEF Remaining
        <5> QED BY <2>2, <5>1, <5>2
      <4>3. CooldownsLeft'[k] = CooldownsLeft[k] - 1 /\ CooldownsLeft[k] > 0
        BY <1>1, <3>1, <3>3, <3>6, <4>2
      <4> QED BY <1>1, <2>2, <2>5, <3>3, <3>6, <4>1, <4>3 DEF Streak
    <3> QED BY <3>5, <3>6
  <2> QED BY <2>3, <2>4, <2>5
<1>3. /\ Phases' = [k \in Keys |-> IF Phases[k] = "open" /\ CooldownsLeft[k] <= 1
                                   THEN "half_open" ELSE Phases[k]]
      /\ CooldownsLeft' = [k \in Keys |-> IF CooldownsLeft[k] > 0
            THEN CooldownsLeft[k] - 1 ELSE 0]
      /\ Streaks' = Streaks
  <2>1. /\ Phases' = [k \in Keys |-> Phases'[k]]
        /\ CooldownsLeft' = [k \in Keys |-> CooldownsLeft'[k]]
        /\ Streaks' = [k \in Keys |-> Streaks'[k]]
        /\ Streaks = [k \in Keys |-> Streaks[k]]
    BY DEF Phases, CooldownsLeft, Streaks
  <2> QED BY <1>2, <2>1
<1> QED BY <1>3 DEF Contract!Passes, Phases, CooldownsLeft, Streaks

\* The breakers start as the contract does.
LEMMA InitMaps == Init => Contract!Init
<1> SUFFICES ASSUME Init PROVE Contract!Init
  OBVIOUS
<1>1. \A k \in Keys : breaker[k].state = "closed" /\ breaker[k].failures = 0
  <2>1. PICK kind \in [Keys -> BOOLEAN] : breaker = [k \in Keys |-> Closed(kind[k])]
    BY DEF Init
  <2>2. \A k \in Keys : breaker[k] = Closed(kind[k])
    BY <2>1
  <2>3. ASSUME NEW b PROVE Closed(b).state = "closed" /\ Closed(b).failures = 0
    BY DEF Closed
  <2> HIDE DEF Closed
  <2> QED BY <2>2, <2>3
<1>2. \A k \in Keys : /\ Phase(breaker[k]) = "closed" /\ Streak(breaker[k]) = 0
                      /\ Remaining(breaker[k]) = 0
  BY <1>1 DEF Phase, Streak, Remaining, Cooled
<1> QED BY <1>2 DEF Contract!Init

\* The breakers of FlameBreaker, which learn of the end of a cooldown only when
\* they are used, implement the breakers that run by the clock.
THEOREM Refinement == ServicesSpec => Contract!Spec /\ BreakerKeepsContract
<1>1. BreakerInv /\ [Next]_vars => [Contract!Next]_(Contract!contractVars)
  <2>1. BreakerInv /\ Tick => [Contract!Next]_(Contract!contractVars)
    BY TickMaps DEF Contract!Next
  <2>2. UsesRules \/ UNCHANGED vars => UNCHANGED <<now, breaker>>
    BY DEF UsesRules, ProposeRule, ApproveRule, RejectRule, ActivateRule, SetsStatus,
           ExpireDueRules, vars
  <2>3. UNCHANGED <<now, breaker>> => UNCHANGED Contract!contractVars
    BY DEF Contract!contractVars, Phase, Streak, Remaining, Cooled
  <2> QED BY <2>1, <2>2, <2>3, UseMaps DEF Next
<1>2. IInv => BreakerInv
  BY DEF IInv
<1>3. ServicesInit => Contract!Init
  BY PartStarts, InitMaps
<1>4. IInv /\ [ServicesNext]_everything => [Contract!Next]_(Contract!contractVars)
  BY PartMoves, <1>1, <1>2
<1>5. IInv /\ [ServicesNext]_everything
        => [part = "breaker" => Contract!Next]_(Contract!contractVars)
  BY <1>4
<1> QED BY BreakersAndRules, <1>3, <1>4, <1>5, PTL
        DEF ServicesSpec, BreakerKeepsContract, Contract!Spec
-----------------------------------------------------------------------------
RunsInv == /\ part = "permissions" => PermissionsInv
           /\ part = "waits" => WaitingInv

\* No tool runs that is not covered by the gate, its modes, the policy and the
\* approvals (ToolRegistry.execute and PermissionGate), and no wait hears of an approval
\* that was not given (ApprovalWaitManager).
THEOREM RunsAreAlwaysWarranted == ServicesSpec => []RunsAreWarranted
<1>1. ServicesInit => RunsInv
  BY PartStarts, PermissionsInit, WaitingInit DEF RunsInv
<1>2. RunsInv /\ [ServicesNext]_everything => RunsInv'
  BY PartMoves, PermissionsNext, WaitingNext DEF RunsInv
<1>3. RunsInv => RunsAreWarranted
  BY DEF RunsInv, RunsAreWarranted, PermissionsInv, WaitingInv
<1> QED BY <1>1, <1>2, <1>3, PTL DEF ServicesSpec

SessionsInv == /\ part = "isolation" => IsolationInv
               /\ part = "duo" => DuoInv
               /\ part = "trajectory" => TrajectoryInv

\* A lock has one holder in a life of its session (SessionIsolation), what was blocked
\* in one review session stays rejected though the sessions share a trail (DuoAgent), and
\* a conversation compressed over and over stands for all that was said, its ends word
\* for word (TrajectoryCompressor).
THEOREM SessionsAlwaysKeepTheirOwn == ServicesSpec => []SessionsKeepTheirOwn
<1>1. ServicesInit => SessionsInv
  BY PartStarts, IsolationInit, DuoInit, TrajectoryInit DEF SessionsInv
<1>2. SessionsInv /\ [ServicesNext]_everything => SessionsInv'
  BY PartMoves, IsolationNext, DuoNext, TrajectoryNext DEF SessionsInv
<1>3. SessionsInv => SessionsKeepTheirOwn
  BY OneHolder, BlockedIsRejected, StoryIsKept DEF SessionsInv, SessionsKeepTheirOwn
<1> QED BY <1>1, <1>2, <1>3, PTL DEF ServicesSpec

ProvidersInv == /\ part = "streams" => StreamsInv
                /\ part = "registry" => RegistryInv
                /\ part = "prompts" => PromptsInv

\* A tool call put together from a stream is the one the API sent (handleStreamEvent),
\* the default provider is registered, whatever is registered, removed and made the
\* default (ProviderRegistry), and the providers show a model one conversation
\* (convertMessages, toOpenAIMessages and createMiniMaxCaller).
THEOREM ProvidersAreAlwaysFaithful == ServicesSpec => []ProvidersAreFaithful
<1>1. ServicesInit => ProvidersInv
  BY PartStarts, StreamsInit, RegistryInit, PromptsInit DEF ProvidersInv
<1>2. ProvidersInv /\ [ServicesNext]_everything => ProvidersInv'
  BY PartMoves, StreamsNext, RegistryNext, PromptsNext DEF ProvidersInv
<1>3. ProvidersInv => ProvidersAreFaithful
  BY DefaultStays, ConversationIsTheSame DEF ProvidersInv, ProvidersAreFaithful,
                                             StreamsInv
<1> QED BY <1>1, <1>2, <1>3, PTL DEF ServicesSpec

\* The inductive invariants of all components.
EveryInv == /\ IInv
            /\ part = "webhooks" => WebhooksInv
            /\ part = "tokens" => TokensInv
            /\ part = "letters" => LettersInv
            /\ part = "sockets" => SocketsInv
            /\ part = "health" => HealthInv
            /\ part = "ingress" => IngressInv
            /\ part = "skills" => SkillSetInv
            /\ part = "evolution" => EvolutionInv
            /\ part = "memory" => MemoryInv
            /\ part = "stores" => StoresInv
            /\ part = "phoenix" => PhoenixInv
            /\ part = "prompts" => PromptsInv
            /\ part = "streams" => StreamsInv
            /\ part = "registry" => RegistryInv
            /\ part = "trajectory" => TrajectoryInv
            /\ part = "isolation" => IsolationInv
            /\ part = "duo" => DuoInv
            /\ part = "permissions" => PermissionsInv
            /\ part = "waits" => WaitingInv

\* The state of every component keeps its type.
THEOREM TypesAreKept == ServicesSpec => []Types
<1>1. ServicesInit => EveryInv
  BY PartStarts, InitIInv, WebhooksInit, TokensInit, LettersInit, SocketsInit,
     HealthInit, IngressInit, SkillSetInit, EvolutionInit, MemoryInit, StoresInit,
     PhoenixInit, PromptsInit, StreamsInit, RegistryInit, TrajectoryInit, IsolationInit,
     DuoInit, PermissionsInit, WaitingInit DEF EveryInv
<1>2. EveryInv /\ [ServicesNext]_everything => EveryInv'
  BY PartMoves, NextBreakers, NextRules, WebhooksNext, TokensNext, LettersNext,
     SocketsNext, HealthNext, IngressNext, SkillSetNext, EvolutionNext, MemoryNext,
     StoresNext, PhoenixNext, PromptsNext, StreamsNext, RegistryNext, TrajectoryNext,
     IsolationNext, DuoNext, PermissionsNext, WaitingNext DEF EveryInv, IInv
<1>3. IInv => TypeOK
  BY DEF IInv, BreakerInv, RulesInv, TypeOK
<1>4. EveryInv => Types
  BY <1>3, MemoryTypes, StoresTypes, PhoenixTypes, PromptsTypes, StreamsTypes,
     DefaultStays, TrajectoryTypes, IsolationTypes, DuoTypeOK
      DEF EveryInv, Types, WebhooksInv, TokensInv, LettersInv, SocketsInv, HealthInv,
          IngressInv, SkillSetInv, EvolutionInv, PermissionsInv, WaitingInv
<1> QED BY <1>1, <1>2, <1>4, PTL DEF ServicesSpec
=============================================================================
