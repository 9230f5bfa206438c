--------------------------- MODULE ProviderRegistry ---------------------------
(***************************************************************************)
(* ProviderRegistry (llm/providerRegistry.ts): named providers and the one *)
(* that is the default. getDefault() registers a mock provider when there  *)
(* is no default, so a lookup changes the registry.                        *)
(***************************************************************************)
EXTENDS Integers, Sequences, Functions, Lists

CONSTANTS Ids, Fallback,   \* Fallback is '__fallback__'
          None,
          MaxCalls         \* bound

VARIABLES providers,   \* entries in the order of the Map, [id, default]
          defaultId,
          calls        \* bound: calls made so far

vars == <<providers, defaultId, calls>>

ProviderNames == Ids \cup {Fallback}

Init == providers = <<>> /\ defaultId = None /\ calls = 0
-----------------------------------------------------------------------------
Registered == {providers[i].id : i \in DOMAIN providers}
Entry(id, default) == [id |-> id, default |-> default]

\* Map.set keeps the place of an id that is there.
Put(entry) == IF entry.id \in Registered
              THEN [i \in DOMAIN providers |->
                       IF providers[i].id = entry.id THEN entry ELSE providers[i]]
              ELSE Append(providers, entry)

Called == calls < MaxCalls /\ calls' = calls + 1

\* register(), for a caller or for getDefault(). The entry that was the default
\* keeps its mark.
Registers(id, setDefault) ==
    LET isDefault == setDefault \/ providers = <<>> IN
    /\ providers' = Put(Entry(id, isDefault))
    /\ defaultId' = IF isDefault THEN id ELSE defaultId

Register(id, setDefault) == Called /\ Registers(id, setDefault)

\* The first entry that is left is the next default.
Successor(rest) ==
    /\ defaultId' = IF rest = <<>> THEN None ELSE rest[1].id
    /\ providers' = [i \in DOMAIN rest |-> IF i = 1 THEN Entry(rest[i].id, TRUE)
                                                    ELSE rest[i]]

Unregister(id) ==
    LET rest == Picked(providers, {i \in DOMAIN providers : providers[i].id # id}) IN
    /\ Called
    /\ IF id = defaultId THEN Successor(rest)
                         ELSE providers' = rest /\ UNCHANGED defaultId

GetDefault == /\ Called
              /\ IF defaultId \in Registered THEN UNCHANGED <<providers, defaultId>>
                 ELSE Registers(Fallback, TRUE)

\* setDefault() of an id that is not there changes nothing.
SetDefault(id) ==
    /\ Called /\ id \in Registered
    /\ providers' = [i \in DOMAIN providers |->
                        CASE providers[i].id = id -> Entry(id, TRUE)
                          [] providers[i].id # id /\ providers[i].id = defaultId ->
                                 Entry(defaultId, FALSE)
                          [] OTHER -> providers[i]]
    /\ defaultId' = id

Next == \/ \E id \in Ids, set \in BOOLEAN : Register(id, set)
        \/ \E id \in ProviderNames : Unregister(id) \/ SetDefault(id)
        \/ GetDefault

Spec == Init /\ [][Next]_vars
-----------------------------------------------------------------------------
\* ProviderRegistry: after any calls the default is a registered provider, there
\* is one as long as anything is registered, and no id is registered twice; so
\* getDefault registers the mock only when the registry is empty, as its comment
\* says ("Falls back to mock if nothing registered").
DefaultIsRegistered ==
    /\ (defaultId = None) = (providers = <<>>)
    /\ defaultId \in Registered \cup {None}
    /\ IsInjective([i \in DOMAIN providers |-> providers[i].id])

\* Types of the state.
TypeOK == /\ providers \in Seq([id : ProviderNames, default : BOOLEAN])
          /\ defaultId \in ProviderNames \cup {None}
          /\ calls \in 0..MaxCalls
=============================================================================
