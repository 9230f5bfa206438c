------------------------------- MODULE Services -------------------------------
(***************************************************************************)
(* The components that share no state with each other, in one model. The   *)
(* reliability monitor is the module itself, the others are instances over *)
(* the variables of their names, or over one that says whose it is where   *)
(* two components have a variable of one name. Constants of one name have  *)
(* one value unless the instance says otherwise.                           *)
(*                                                                         *)
(* A behaviour picks one of them, and only that one moves: what holds of   *)
(* each of them on its own holds of all of them together, and interleaving *)
(* them would multiply the states and add no behaviour to any of them.     *)
(***************************************************************************)
EXTENDS Reliability, FiniteSets

CONSTANTS
    None, Users, Sessions, Messages, MaxEntries, MaxWrites, MaxRetries, MaxTurns,
    MaxCrashes, MaxCalls,                               \* of more than one component
    MaxSnapshots, GivenId, MaxSnapshotTime, MaxRecords, \* PhoenixSnapshots
    Sender, Window, RateWindow, RateMax, MaxIngressTime, MaxOpen, \* ExternalIngress
    Letter, MaxReplays, MaxDeaths,                      \* DeadLetters
    Connections, Timeout,                               \* GatewaySessions
    Calls, Policies, Modes, Cwd, Whitelist, Trusting,   \* ToolPermissions
    Memories, Capacity, MaxRows,                        \* MemoryStore
    Groups, Limit, MaxChanges, MaxClock,                \* FileStores
    Names, Unknown, Files, FileOf, ReadAs, MaxSkills, Slots, \* SkillFiles
    Skills, TrendFrom, DecliningBelow, RisingAbove, EvolutionThreshold,
    MinCalls, Percent,                                  \* SkillEvolution
    MaxSessions, MaxConcurrent, MaxPerMinute, MaxLives, \* SessionIsolation
    Blocks, Pieces,                                     \* ProviderStreams
    Outgoing, Timer, MaxTries, MaxIssued,               \* AccessTokens
    MaxIterations, MaxSuggestions, MaxReviewTime, MaxReviews, MaxActs, Answers, \* ReviewCycles
    Requests, Waits,                                    \* ApprovalWaits
    Turns, MaxSaid,                                     \* TrajectoryCompression
    Ids, Fallback,                                      \* ProviderRegistry
    MaxMessages,                                        \* PromptMessages
    NumChannels, Guarded, MaxStartFailures, MaxStarts   \* WorkspaceHealth

VARIABLES
    part,   \* the component that moves
    snapshotTime, restores, process, entries, limit, recorded, dir, job, kept,
    clock, guarded, webhookServer, seen, buckets, userSessions, deliveries, accepted,
    sends, retries, queue, replays, loading, file, writes, deaths, gone, letters, raced,
    server, socket, sessions, gateway, active, idle, turns,
    queueTimer, webhookQueue, flying, webhookRetries, webhookOutcome, webhookFailures,
    mode, approvalMode, policy, asking, grants, approved, ran,
    rows, texts, vectors, vectorSearch, cache, arriving, used, deleted, stale,
    store, items, disk, storeWrites, storeClock, changes, storeCrashes, intact, unsaved, dropped,
    skills, files, ops, suspect, undeleted, crashes,
    present, evals, patches, saved, saving, evolving, retired,
    known, locked, idleSessions, toolsRunning, minute, life, clean, holder, toolCalls,
    provider, sent, pendingBlocks, given, outcome,
    channel, stored, fresh, issued, valid, call, delivered, hindered,
    reviewClock, autoApply, open, cycle, trail, reviewer, reviewsRecorded, blocked, made,
    reviews, acts,
    wanted, pending, armed, told, approvals, cancelled,
    compression, said, messages,
    providers, defaultId, registryCalls,
    conversation, blocksSaid,
    config, place, left, running, stopped, monitor, memory, partsMade, gatewayStatus, up,
    rejecting, turnsUnderWay, failedTurn, startFailures, starts
-----------------------------------------------------------------------------
Phoenix == INSTANCE PhoenixSnapshots WITH MaxTime <- MaxSnapshotTime, now <- snapshotTime
Ingress == INSTANCE ExternalIngress
    WITH MaxTime <- MaxIngressTime, server <- webhookServer, sessions <- userSessions,
         open <- deliveries
Letters == INSTANCE DeadLetters WITH Messages <- Letter
Sockets == INSTANCE GatewaySessions
Webhooks == INSTANCE WebhookQueue
    WITH running <- queueTimer, queue <- webhookQueue, retries <- webhookRetries,
         outcome <- webhookOutcome, failures <- webhookFailures
Permissions == INSTANCE ToolPermissions
Memory == INSTANCE MemoryStore
Stored == INSTANCE FileStores
    WITH writes <- storeWrites, clock <- storeClock, crashes <- storeCrashes
SkillSet == INSTANCE SkillFiles
Evolution == INSTANCE SkillEvolution
Isolation == INSTANCE SessionIsolation
    WITH idle <- idleSessions, running <- toolsRunning, calls <- toolCalls
Streams == INSTANCE ProviderStreams WITH pending <- pendingBlocks
Tokens == INSTANCE AccessTokens WITH Messages <- Outgoing
Duo == INSTANCE ReviewCycles
    WITH MaxTime <- MaxReviewTime, clock <- reviewClock, recorded <- reviewsRecorded
Waiting == INSTANCE ApprovalWaits WITH NoWait <- None
Trajectory == INSTANCE TrajectoryCompression WITH config <- compression
Registry == INSTANCE ProviderRegistry WITH calls <- registryCalls
Prompts == INSTANCE PromptMessages WITH messages <- conversation, said <- blocksSaid
Health == INSTANCE WorkspaceHealth
    WITH MaxFailures <- MaxStartFailures, made <- partsMade, gateway <- gatewayStatus,
         turns <- turnsUnderWay, failures <- startFailures

\* What the constants are, as far as the proofs need it.
ASSUME PermissionsAssumption == Calls \subseteq Permissions!CallRecord /\ Cwd \in 0..10
ASSUME WaitingAssumption == None \notin Waits
ASSUME SkillSetAssumption == /\ None \notin Files /\ None \notin SkillSet!AllNames
                             /\ Unknown \notin Names /\ FileOf \in [Names -> Files]
                             /\ ReadAs \in [SkillSet!AllNames -> SkillSet!AllNames]
                             /\ ReadAs[Unknown] = Unknown /\ MaxCrashes \in Nat
ASSUME EvolutionAssumption == TrendFrom \in Nat /\ EvolutionThreshold \in Nat /\ MaxCalls \in Nat
ASSUME WebhooksAssumption == MaxRetries \in Nat
ASSUME TokensAssumption == Timer \notin Outgoing /\ MaxTries \in Nat \ {0} /\ MaxIssued \in Nat \ {0}
ASSUME LettersAssumption == MaxRetries \in Nat /\ MaxEntries \in Nat /\ MaxDeaths \in Nat
ASSUME SocketsAssumption == Timeout \in Nat /\ MaxTurns \in Nat
ASSUME HealthAssumption == MaxStartFailures \in Nat /\ MaxStarts \in Nat /\ MaxTurns \in Nat
ASSUME IngressAssumption == /\ Sender \in [Messages -> Users] /\ MaxIngressTime \in Nat \ {0}
                            /\ Window \in Nat /\ RateWindow \in Nat /\ RateMax \in Nat
ASSUME IsolationAssumption == MaxConcurrent \in Nat /\ MaxPerMinute \in Nat /\ MaxLives \in Nat
ASSUME DuoAssumption == /\ MaxIterations \in Nat \ {0} /\ MaxSuggestions \in Nat
                        /\ MaxReviewTime \in Nat /\ MaxReviews \in Nat /\ MaxActs \in Nat
                        /\ Answers \subseteq Seq(BOOLEAN)
ASSUME TrajectoryAssumption == Turns \subseteq Nat /\ MaxSaid \in Nat
ASSUME MemoryAssumption == /\ None \notin Memories /\ Capacity \in Nat \ {0}
                           /\ MaxRows \in Nat
ASSUME StoredAssumption == /\ Limit \in Nat \ {0} /\ MaxChanges \in Nat /\ MaxClock \in Nat
                           /\ MaxWrites \in Nat /\ MaxCrashes \in Nat
ASSUME PhoenixAssumption == /\ MaxEntries \in Nat \ {0} /\ MaxSnapshots \in Nat \ {0}
                            /\ GivenId \in Int /\ MaxSnapshotTime \in Nat /\ MaxRecords \in Nat
ASSUME RegistryAssumption == None \notin Registry!ProviderNames /\ MaxCalls \in Nat
ASSUME StreamsAssumption == Pieces \in Nat
ASSUME PromptsAssumption == MaxMessages \in Nat
-----------------------------------------------------------------------------
phoenixVars == <<snapshotTime, restores, process, entries, limit, recorded, dir, job,
                 kept>>
ingressVars == <<clock, guarded, webhookServer, seen, buckets, userSessions,
                 deliveries, accepted>>
lettersVars == <<sends, retries, queue, replays, loading, file, writes, deaths, gone,
                 letters, raced>>
socketsVars == <<server, socket, sessions, gateway, active, idle, turns>>
webhooksVars == <<queueTimer, webhookQueue, flying, webhookRetries, webhookOutcome,
                  webhookFailures>>
permissionsVars == <<mode, approvalMode, policy, asking, grants, approved, ran>>
memoryVars == <<rows, texts, vectors, vectorSearch, cache, arriving, used, deleted,
                stale>>
storedVars == <<store, items, disk, storeWrites, storeClock, changes, storeCrashes, intact,
                unsaved, dropped>>
skillSetVars == <<skills, files, ops, suspect, undeleted, crashes>>
evolutionVars == <<present, evals, patches, saved, saving, evolving, retired>>
isolationVars == <<known, locked, idleSessions, toolsRunning, minute, life, clean,
                   holder, toolCalls>>
streamsVars == <<provider, sent, pendingBlocks, given, outcome>>
tokensVars == <<channel, stored, fresh, issued, valid, call, delivered, hindered>>
duoVars == <<reviewClock, autoApply, open, cycle, trail, reviewer, reviewsRecorded,
             blocked, made, reviews, acts>>
waitingVars == <<wanted, pending, armed, told, approvals, cancelled>>
trajectoryVars == <<compression, said, messages>>
registryVars == <<providers, defaultId, registryCalls>>
promptsVars == <<conversation, blocksSaid>>
healthVars == <<config, place, left, running, stopped, monitor, memory, partsMade,
                gatewayStatus, up, rejecting, turnsUnderWay, failedTurn, startFailures,
                starts>>

Parts == {"breaker", "phoenix", "ingress", "letters", "sockets", "webhooks", "permissions",
          "memory", "stores", "skills", "evolution", "isolation", "streams", "registry",
          "tokens", "duo", "waits", "trajectory", "prompts", "health"}

Unused == "unused"
PhoenixUnused == /\ snapshotTime = Unused /\ restores = Unused /\ process = Unused
                 /\ entries = Unused /\ limit = Unused /\ recorded = Unused
                 /\ dir = Unused /\ job = Unused /\ kept = Unused
IngressUnused == /\ clock = Unused /\ guarded = Unused /\ webhookServer = Unused
                 /\ seen = Unused /\ buckets = Unused /\ userSessions = Unused
                 /\ deliveries = Unused /\ accepted = Unused
LettersUnused == /\ sends = Unused /\ retries = Unused /\ queue = Unused
                 /\ replays = Unused /\ loading = Unused /\ file = Unused
                 /\ writes = Unused /\ deaths = Unused /\ gone = Unused
                 /\ letters = Unused /\ raced = Unused
SocketsUnused == /\ server = Unused /\ socket = Unused /\ sessions = Unused
                 /\ gateway = Unused /\ active = Unused /\ idle = Unused
                 /\ turns = Unused
WebhooksUnused == /\ queueTimer = Unused /\ webhookQueue = Unused /\ flying = Unused
                  /\ webhookRetries = Unused /\ webhookOutcome = Unused
                  /\ webhookFailures = Unused
PermissionsUnused == /\ mode = Unused /\ approvalMode = Unused /\ policy = Unused
                     /\ asking = Unused /\ grants = Unused /\ approved = Unused
                     /\ ran = Unused
MemoryUnused == /\ rows = Unused /\ texts = Unused /\ vectors = Unused
                /\ vectorSearch = Unused /\ cache = Unused /\ arriving = Unused
                /\ used = Unused /\ deleted = Unused /\ stale = Unused
StoredUnused == /\ store = Unused /\ items = Unused /\ disk = Unused
                /\ storeWrites = Unused /\ storeClock = Unused /\ changes = Unused
                /\ storeCrashes = Unused /\ intact = Unused /\ unsaved = Unused
                /\ dropped = Unused
SkillSetUnused == /\ skills = Unused /\ files = Unused /\ ops = Unused
                  /\ suspect = Unused /\ undeleted = Unused
                  /\ crashes = Unused
EvolutionUnused == /\ present = Unused /\ evals = Unused /\ patches = Unused
                   /\ saved = Unused /\ saving = Unused /\ evolving = Unused
                   /\ retired = Unused
IsolationUnused == /\ known = Unused /\ locked = Unused /\ idleSessions = Unused
                   /\ toolsRunning = Unused /\ minute = Unused /\ life = Unused
                   /\ clean = Unused /\ holder = Unused /\ toolCalls = Unused
StreamsUnused == /\ provider = Unused /\ sent = Unused /\ pendingBlocks = Unused
                 /\ given = Unused /\ outcome = Unused
TokensUnused == /\ channel = Unused /\ stored = Unused /\ fresh = Unused
                /\ issued = Unused /\ valid = Unused /\ call = Unused
                /\ delivered = Unused /\ hindered = Unused
DuoUnused == /\ reviewClock = Unused /\ autoApply = Unused /\ open = Unused
             /\ cycle = Unused /\ trail = Unused /\ reviewer = Unused
             /\ reviewsRecorded = Unused /\ blocked = Unused /\ made = Unused
             /\ reviews = Unused /\ acts = Unused
WaitingUnused == /\ wanted = Unused /\ pending = Unused /\ armed = Unused
                 /\ told = Unused /\ approvals = Unused /\ cancelled = Unused
TrajectoryUnused == /\ compression = Unused /\ said = Unused /\ messages = Unused
RegistryUnused == /\ providers = Unused /\ defaultId = Unused
                  /\ registryCalls = Unused
PromptsUnused == /\ conversation = Unused /\ blocksSaid = Unused
HealthUnused == /\ config = Unused /\ place = Unused /\ left = Unused
                /\ running = Unused /\ stopped = Unused /\ monitor = Unused
                /\ memory = Unused /\ partsMade = Unused /\ gatewayStatus = Unused
                /\ up = Unused /\ rejecting = Unused /\ turnsUnderWay = Unused
                /\ failedTurn = Unused /\ startFailures = Unused /\ starts = Unused

ServicesInit ==
    /\ part \in Parts
    /\ Init /\ (part = "breaker" \/ \A k \in Keys : ~breaker[k].destructive)
    /\ IF part = "phoenix" THEN Phoenix!Init ELSE PhoenixUnused
    /\ IF part = "ingress" THEN Ingress!Init ELSE IngressUnused
    /\ IF part = "letters" THEN Letters!Init ELSE LettersUnused
    /\ IF part = "sockets" THEN Sockets!Init ELSE SocketsUnused
    /\ IF part = "webhooks" THEN Webhooks!Init ELSE WebhooksUnused
    /\ IF part = "permissions" THEN Permissions!Init ELSE PermissionsUnused
    /\ IF part = "memory" THEN Memory!Init ELSE MemoryUnused
    /\ IF part = "stores" THEN Stored!Init ELSE StoredUnused
    /\ IF part = "skills" THEN SkillSet!Init ELSE SkillSetUnused
    /\ IF part = "evolution" THEN Evolution!Init ELSE EvolutionUnused
    /\ IF part = "isolation" THEN Isolation!Init ELSE IsolationUnused
    /\ IF part = "streams" THEN Streams!Init ELSE StreamsUnused
    /\ IF part = "tokens" THEN Tokens!Init ELSE TokensUnused
    /\ IF part = "duo" THEN Duo!Init ELSE DuoUnused
    /\ IF part = "waits" THEN Waiting!Init ELSE WaitingUnused
    /\ IF part = "trajectory" THEN Trajectory!Init ELSE TrajectoryUnused
    /\ IF part = "registry" THEN Registry!Init ELSE RegistryUnused
    /\ IF part = "prompts" THEN Prompts!Init ELSE PromptsUnused
    /\ IF part = "health" THEN Health!Init ELSE HealthUnused

\* The components that rest.
OthersRest ==
    /\ IF part = "breaker" THEN TRUE ELSE UNCHANGED vars
    /\ IF part = "phoenix" THEN TRUE ELSE UNCHANGED phoenixVars
    /\ IF part = "ingress" THEN TRUE ELSE UNCHANGED ingressVars
    /\ IF part = "letters" THEN TRUE ELSE UNCHANGED lettersVars
    /\ IF part = "sockets" THEN TRUE ELSE UNCHANGED socketsVars
    /\ IF part = "webhooks" THEN TRUE ELSE UNCHANGED webhooksVars
    /\ IF part = "permissions" THEN TRUE ELSE UNCHANGED permissionsVars
    /\ IF part = "memory" THEN TRUE ELSE UNCHANGED memoryVars
    /\ IF part = "stores" THEN TRUE ELSE UNCHANGED storedVars
    /\ IF part = "skills" THEN TRUE ELSE UNCHANGED skillSetVars
    /\ IF part = "evolution" THEN TRUE ELSE UNCHANGED evolutionVars
    /\ IF part = "isolation" THEN TRUE ELSE UNCHANGED isolationVars
    /\ IF part = "streams" THEN TRUE ELSE UNCHANGED streamsVars
    /\ IF part = "registry" THEN TRUE ELSE UNCHANGED registryVars
    /\ IF part = "tokens" THEN TRUE ELSE UNCHANGED tokensVars
    /\ IF part = "duo" THEN TRUE ELSE UNCHANGED duoVars
    /\ IF part = "waits" THEN TRUE ELSE UNCHANGED waitingVars
    /\ IF part = "trajectory" THEN TRUE ELSE UNCHANGED trajectoryVars
    /\ IF part = "prompts" THEN TRUE ELSE UNCHANGED promptsVars
    /\ IF part = "health" THEN TRUE ELSE UNCHANGED healthVars

ServicesNext ==
    /\ UNCHANGED part
    /\ OthersRest
    /\ \/ part = "breaker" /\ Next
       \/ part = "phoenix" /\ Phoenix!Next
       \/ part = "ingress" /\ Ingress!Next
       \/ part = "letters" /\ Letters!Next
       \/ part = "sockets" /\ Sockets!Next
       \/ part = "webhooks" /\ Webhooks!Next
       \/ part = "permissions" /\ Permissions!Next
       \/ part = "memory" /\ Memory!Next
       \/ part = "stores" /\ Stored!Next
       \/ part = "skills" /\ SkillSet!Next
       \/ part = "evolution" /\ Evolution!Next
       \/ part = "isolation" /\ Isolation!Next
       \/ part = "streams" /\ Streams!Next
       \/ part = "registry" /\ Registry!Next
       \/ part = "tokens" /\ Tokens!Next
       \/ part = "duo" /\ Duo!Next
       \/ part = "waits" /\ Waiting!Next
       \/ part = "trajectory" /\ Trajectory!Next
       \/ part = "prompts" /\ Prompts!Next
       \/ part = "health" /\ Health!Next

everything == <<part, vars, phoenixVars, ingressVars, lettersVars, socketsVars,
                webhooksVars, permissionsVars, memoryVars, storedVars, skillSetVars,
                evolutionVars, isolationVars, streamsVars, registryVars, tokensVars,
                duoVars, waitingVars, trajectoryVars, promptsVars, healthVars>>

ServicesSpec == ServicesInit /\ [][ServicesNext]_everything
-----------------------------------------------------------------------------
\* Types of the state of the component that moves.
Types == /\ part = "breaker" => TypeOK
         /\ part = "phoenix" => Phoenix!TypeOK
         /\ part = "ingress" => Ingress!TypeOK
         /\ part = "letters" => Letters!TypeOK
         /\ part = "sockets" => Sockets!TypeOK
         /\ part = "webhooks" => Webhooks!TypeOK
         /\ part = "permissions" => Permissions!TypeOK
         /\ part = "memory" => Memory!TypeOK
         /\ part = "stores" => Stored!TypeOK
         /\ part = "skills" => SkillSet!TypeOK
         /\ part = "evolution" => Evolution!TypeOK
         /\ part = "isolation" => Isolation!TypeOK
         /\ part = "streams" => Streams!TypeOK
         /\ part = "tokens" => Tokens!TypeOK
         /\ part = "duo" => Duo!TypeOK
         /\ part = "waits" => Waiting!TypeOK
         /\ part = "trajectory" => Trajectory!TypeOK
         /\ part = "registry" => Registry!TypeOK
         /\ part = "prompts" => Prompts!TypeOK
         /\ part = "health" => Health!TypeOK

\* FlameBreaker notes the end of a cooldown only when it is used, and keeps
\* counting failures while it is open; what a caller sees is a breaker that
\* runs by the clock and counts only runs of failures and of probes
\* (BreakerContract). No other component's steps touch the breakers.
BreakerKeepsContract ==
    Contract!Init /\ [][part = "breaker" => Contract!Next]_(Contract!contractVars)

\* PhoenixAuditSnapshotStore: after any crash a start with
\* phoenixRestoreLatestSnapshot has exactly the entries of the last snapshot that
\* was given its name (PhoenixSnapshots).
RestartHasLastSave == [][Phoenix!StartHasLastSave]_phoenixVars
\* What comes in. MessageDeduplicator and ExternalIngressGuard let a message in
\* once in a window and no user in too often, however messages, stops and starts
\* follow each other (ExternalIngress); the sessions of the WebSocket channel, of
\* the gateway and of the monitor follow the sockets (GatewaySessions); and a
\* probe is told that the workspace is well only when it is, whatever starts,
\* stops and turns failed before (WorkspaceHealth).
InboundIsOrderly == /\ part = "ingress" => Ingress!AcceptedWithinLimits
                    /\ part = "sockets" => Sockets!SessionsFollowSockets
                    /\ part = "health" => Health!HealthIsTrue

\* What goes out. A dead letter is in exactly one place, however replays, failing
\* sends and flushes overlap (DeadLetters); a webhook message is queued once, on
\* its way, delivered, or given up after its retries (WebhookQueue); a stale token
\* costs no WeChat message, however refreshes overtake each other (AccessTokens).
OutboundIsKept == /\ part = "letters" => Letters!EveryLetterHasItsPlace
                  /\ part = "webhooks" => Webhooks!MessagesAreKept
                  /\ part = "tokens" => Tokens!StaleTokenLosesNothing

\* No tool runs that the permission gate, its modes, the policy in force and the
\* approvals given do not cover (ToolPermissions); no wait is told of an approval
\* that was not given, nor left without an answer (ApprovalWaits).
RunsAreWarranted == /\ part = "permissions" => Permissions!RunsAreWarranted
                    /\ part = "waits" => Waiting!WaitsAreAnswered

\* What belongs to a session stays its own. A session that was created when nobody
\* used it gives its lock to one user and counts its own tool calls, until it is
\* created again (SessionIsolation); a suggestion that was blocked in one review
\* session stays rejected, though the sessions share a trail (ReviewCycles); and a
\* conversation that is compressed over and over still stands for all that was said
\* in it (TrajectoryCompression).
SessionsKeepTheirOwn ==
    /\ part = "isolation" => Isolation!OneHolderPerLife
    /\ part = "duo" => Duo!BlockedStaysRejected
    /\ part = "trajectory" => Trajectory!WholeStoryIsKept

\* What is stored. The text index of the memory database and the cache serve no other
\* memory than the row holds, nor does the vector index except where a row was deleted
\* without its vector (MemoryStore); a file store that has come to rest, and whose last
\* change was written alone and whole, has on disk what it has in memory, and it
\* dropped nothing newer than what it kept (FileStores).
StorageIsConsistent == /\ part = "memory" => Memory!IndexesFollowRows
                       /\ part = "stores" => Stored!StoresSettle

\* A restart brings back the skills there were, and of the deleted ones only those
\* whose file could not be unlinked (SkillFiles), and evolve() retires only skills
\* that were used less than the threshold and enough to have a trend
\* (SkillEvolution).
SkillsAreKept == /\ part = "skills" => SkillSet!SkillsMatchFiles
                 /\ part = "evolution" => Evolution!RetiredWereUsed

\* A tool call that a provider puts together from a stream is the one the API sent
\* (ProviderStreams), the default provider is one that is registered
\* (ProviderRegistry), and both providers show a model the same conversation
\* (PromptMessages).
ProvidersAreFaithful == /\ part = "streams" => Streams!CallsAreWhole
                        /\ part = "registry" => Registry!DefaultIsRegistered
                        /\ part = "prompts" => Prompts!SameConversation
=============================================================================
