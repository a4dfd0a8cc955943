-------------------------- MODULE RuntimeGeneration --------------------------
(***************************************************************************)
(* Runtime generations: the handle that publishes the active bundle        *)
(* (RuntimeBundleHandle), the activation service that stages and commits   *)
(* reloads and rollbacks (RuntimeActivationService), the generation task   *)
(* registries, and the process-shared state a commit touches (the          *)
(* watchdog's expected worker count, the live log level).                  *)
(*                                                                         *)
(* Control API requests run on the multi-threaded control-plane runtime    *)
(* and nothing serialises them: each operator below is one request handler *)
(* and every lock acquisition or atomic access of the code is a step of    *)
(* its own.                                                                *)
(***************************************************************************)
EXTENDS Naturals, Sequences

CONSTANTS
    Operators,       \* concurrent control API request handlers
    Configs,         \* config files an operator may ask to activate
    BootConfig,      \* the config the process started with
    WorkersOf,       \* worker_threads * packet_shards_per_worker of a config
    LevelOf,         \* log.level of a config
    Kinds,           \* the operations clients send
    MaxArchived,     \* MAX_ARCHIVED_RUNTIME_GENERATIONS
    MaxEntries,      \* MAX_GENERATION_HISTORY_ENTRIES
    MaxRequests,     \* bound: requests explored
    Boot,            \* the "operator" that built generation 0
    None             \* Rust's Option::None

ASSUME ConfigAssumption ==
    /\ BootConfig \in Configs
    /\ WorkersOf \in [Configs -> Nat \ {0}]
    /\ DOMAIN LevelOf = Configs

ASSUME BoundAssumption ==
    /\ MaxArchived \in Nat \ {0} /\ MaxEntries \in Nat \ {0}
    /\ MaxRequests \in Nat

ASSUME NameAssumption ==
    /\ Boot \notin Operators
    /\ Kinds \subseteq {"plan", "activate", "rollback"}
    /\ None \notin Nat

VARIABLES
    phase,            \* RuntimeLifecycleState, shared through the handle
    active,           \* the Arc<RuntimeBundle> behind the handle's RwLock
    history,          \* retained generation records, newest first
    entries,          \* operator-visible operation log, newest first
    running,          \* bundles whose registry still holds live tasks
    expectedWorkers,  \* WatchdogCoordinator.expected_workers (process shared)
    liveLevel,        \* log::max_level (process shared)
    op,               \* the request each operator is handling
    requests,         \* requests started so far
    commits           \* history variable: commits[g] installed generation g

vars == <<phase, active, history, entries, running, expectedWorkers,
          liveLevel, op, requests, commits>>

Phase == INSTANCE LifecyclePhases

(* A bundle is its generation number, its config and the handler that      *)
(* assembled it; a handler never assembles two committed bundles with the  *)
(* same number, so this identifies the Arc.                                *)
Bundle == [gen : Nat, config : Configs, by : Operators \cup {Boot}]

ASSUME NoneAssumption == None \notin Bundle

BootBundle == [gen |-> 0, config |-> BootConfig, by |-> Boot]

Statuses == {"Previous", "FailedPrepare", "RolledBack", "Superseded"}

Record == [gen : Nat, status : Statuses, bundle : Bundle \cup {None}]

IsRollbackCandidate(r) == r.status \in {"Previous", "RolledBack", "Superseded"}

Outcomes == {"staged", "rejected", "failed", "succeeded"}

(* The generation number is kept for the successes only; what number a     *)
(* refused request is logged under is not modelled.                        *)
Entry == [kind : Kinds, outcome : Outcomes, gen : Nat \cup {None}]

Pcs == {"idle", "begin", "stage", "planned", "lookup", "gate", "swap",
        "archive", "retire", "record", "readLevel", "applyLevel"}

Commit == [kind : Kinds, expected : Nat \cup {None}, from : Nat,
           config : Configs, target : Nat \cup {None}, phase : Phase!Phases]

Levels == {LevelOf[c] : c \in Configs}

(* The locals of a request handler.                                        *)
Handler == [pc : Pcs, kind : Kinds \cup {None}, expected : Nat \cup {None},
            target : Nat \cup {None}, view : Bundle \cup {None},
            next : Bundle \cup {None}, prev : Bundle \cup {None},
            outcome : Outcomes \cup {None}, level : Levels \cup {None}]

Idle == [pc |-> "idle", kind |-> None, expected |-> None, target |-> None,
         view |-> None, next |-> None, prev |-> None, outcome |-> None,
         level |-> None]

-------------------------------------------------------------------------------
(* The retained-generation list and the operation log.                     *)

(* Mutation of PushBounded: the trim drops one element too many.           *)
PushBoundedShort(x, s, max) ==
    LET all == <<x>> \o s
    IN  IF Len(all) >= max THEN SubSeq(all, 1, max - 1) ELSE all

(* push_front followed by the trim to the newest `max`.                    *)
PushBounded(x, s, max) ==
    LET all == <<x>> \o s
    IN  IF Len(all) > max THEN SubSeq(all, 1, max) ELSE all

(* history.retain(|entry| entry.generation != g): the list never holds two *)
(* records of one generation, so at most one is dropped.                   *)
Retain(h, g) ==
    IF \E i \in DOMAIN h : h[i].gen = g
    THEN LET i == CHOOSE j \in DOMAIN h : h[j].gen = g
         IN  SubSeq(h, 1, i - 1) \o SubSeq(h, i + 1, Len(h))
    ELSE h

(* A newly archived generation demotes the previous Previous.              *)
Supersede(h) ==
    [i \in DOMAIN h |-> IF h[i].status = "Previous"
                        THEN [h[i] EXCEPT !.status = "Superseded"]
                        ELSE h[i]]

(* Mutation of ArchivePreviousGeneration: push_back for push_front.        *)
ArchivePushBack(h, b, status) ==
    LET kept == Retain(Supersede(h), b.gen)
    IN  (IF Len(kept) = MaxArchived THEN Tail(kept) ELSE kept)
          \o <<[gen |-> b.gen, status |-> status, bundle |-> b]>>

ArchivePreviousGeneration(h, b, status) ==
    PushBounded([gen |-> b.gen, status |-> status, bundle |-> b],
                Retain(Supersede(h), b.gen), MaxArchived)

(* Mutation of RecordFailedPrepare: an earlier record of g is not dropped. *)
RecordFailedPrepareAgain(h, g) ==
    PushBounded([gen |-> g, status |-> "FailedPrepare", bundle |-> None],
                h, MaxArchived)

RecordFailedPrepare(h, g) ==
    PushBounded([gen |-> g, status |-> "FailedPrepare", bundle |-> None],
                Retain(h, g), MaxArchived)

(* generation_record: the record of a generation other than the active one *)
GenerationRecord(g) ==
    IF \E i \in DOMAIN history : history[i].gen = g
    THEN history[CHOOSE i \in DOMAIN history : history[i].gen = g]
    ELSE None

-------------------------------------------------------------------------------
TypeOK ==
    /\ phase \in Phase!Phases
    /\ active \in Bundle
    /\ history \in Seq(Record)
    /\ entries \in Seq(Entry)
    /\ running \subseteq Bundle
    /\ expectedWorkers \in Nat \ {0}
    /\ liveLevel \in Levels
    /\ op \in [Operators -> Handler]
    /\ requests \in Nat
    /\ commits \in Seq(Commit)

(* The handle exists once generation 0 is built: the process is Running,   *)
(* its background tasks are spawned and its worker count is configured.    *)
Init ==
    /\ phase = "Running"
    /\ active = BootBundle
    /\ history = <<>> /\ entries = <<>>
    /\ running = {BootBundle}
    /\ expectedWorkers = WorkersOf[BootConfig]
    /\ liveLevel = LevelOf[BootConfig]
    /\ op = [o \in Operators |-> Idle]
    /\ requests = 0
    /\ commits = <<>>

Step(o, from, to) ==
    /\ op[o].pc = from
    /\ op' = [op EXCEPT ![o] = [@ EXCEPT !.pc = to]]

Conclude(o, from, outcome) ==
    /\ op[o].pc = from
    /\ op' = [op EXCEPT ![o] = [@ EXCEPT !.pc = "record", !.outcome = outcome]]

-------------------------------------------------------------------------------
(* Requests.                                                               *)

(* A plan (validate or preview) or an activation arrives.  Without an      *)
(* expected_generation in the payload the handler fills in the generation  *)
(* it sees; with one, the operator read it from an earlier response.       *)
Request(o) ==
    /\ op[o].pc = "idle" /\ requests < MaxRequests
    /\ requests' = requests + 1
    /\ \E k \in Kinds \ {"rollback"} :
         op' = [op EXCEPT ![o] =
                 [Idle EXCEPT !.pc = IF k = "plan" THEN "stage" ELSE "begin",
                              !.kind = k, !.expected = active.gen,
                              !.level = LevelOf[active.config]]]
    /\ UNCHANGED <<phase, active, history, entries, running, expectedWorkers,
                   liveLevel, commits>>

(* A rollback names its target and may leave expected_active_generation    *)
(* out.                                                                    *)
RequestRollback(o) ==
    /\ op[o].pc = "idle" /\ requests < MaxRequests
    /\ "rollback" \in Kinds
    /\ requests' = requests + 1
    /\ \E t \in 0..(active.gen + 1), e \in {active.gen, None} :
         op' = [op EXCEPT ![o] = [Idle EXCEPT !.pc = "begin", !.kind = "rollback",
                                              !.expected = e, !.target = t]]
    /\ UNCHANGED <<phase, active, history, entries, running, expectedWorkers,
                   liveLevel, commits>>

-------------------------------------------------------------------------------
(* Staging.                                                                *)

(* activate_reload reads the current view and compares expected_generation *)
(* with it; staging will read the view again.                              *)
ActivateBegin(o) ==
    /\ op[o].kind = "activate"
    /\ IF op[o].expected # active.gen
       THEN Conclude(o, "begin", "rejected")
       ELSE Step(o, "begin", "stage")
    /\ UNCHANGED <<phase, active, history, entries, running, expectedWorkers,
                   liveLevel, requests, commits>>

(* stage_reload: take the current view as the base of the plan; the        *)
(* candidate is numbered one above it and assembled from the config read   *)
(* from disk.                                                              *)
StageReload(o) ==
    /\ op[o].pc = "stage"
    /\ \E c \in Configs :
         op' = [op EXCEPT ![o] =
                 [@ EXCEPT !.pc = "planned", !.view = active,
                           !.next = [gen |-> active.gen + 1, config |-> c, by |-> o]]]
    /\ UNCHANGED <<phase, active, history, entries, running, expectedWorkers,
                   liveLevel, requests, commits>>

(* rollback_generation reads the current view, compares the expectation    *)
(* with it and refuses to roll back to the active generation.              *)
RollbackBegin(o) ==
    /\ op[o].pc = "begin" /\ op[o].kind = "rollback"
    /\ op' = [op EXCEPT ![o] =
                IF op[o].expected \notin {None, active.gen} \/ op[o].target = active.gen
                THEN [@ EXCEPT !.pc = "record", !.view = active, !.outcome = "rejected"]
                ELSE [@ EXCEPT !.pc = "lookup", !.view = active]]
    /\ UNCHANGED <<phase, active, history, entries, running, expectedWorkers,
                   liveLevel, requests, commits>>

UsableTarget(o) ==
    LET r == GenerationRecord(op[o].target)
    IN  /\ op[o].target # active.gen
        /\ r # None
        /\ IsRollbackCandidate(r) /\ r.bundle # None
        /\ Phase!AllowsReload(phase)

(* Mutation of RollbackLookup: the view is read again, as staging does.    *)
RollbackLookupFresh(o) ==
    /\ op[o].pc = "lookup"
    /\ op' = [op EXCEPT ![o] =
                IF UsableTarget(o)
                THEN [@ EXCEPT !.pc = "planned", !.view = active,
                               !.next = [gen |-> active.gen + 1,
                                         config |-> GenerationRecord(op[o].target).bundle.config,
                                         by |-> o]]
                ELSE [@ EXCEPT !.pc = "record", !.outcome = "rejected"]]
    /\ UNCHANGED <<phase, active, history, entries, running, expectedWorkers,
                   liveLevel, requests, commits>>

(* Mutation of RollbackLookup: the candidate is built from the current     *)
(* config instead of the target's.                                         *)
RollbackLookupCurrent(o) ==
    /\ op[o].pc = "lookup"
    /\ op' = [op EXCEPT ![o] =
                IF UsableTarget(o)
                THEN [@ EXCEPT !.pc = "planned",
                               !.next = [gen |-> op[o].view.gen + 1,
                                         config |-> op[o].view.config, by |-> o]]
                ELSE [@ EXCEPT !.pc = "record", !.outcome = "rejected"]]
    /\ UNCHANGED <<phase, active, history, entries, running, expectedWorkers,
                   liveLevel, requests, commits>>

(* The target must be retained with its bundle, and the process must still *)
(* allow a reload; the candidate takes the target's config and the number  *)
(* after the view's.  A target that has become the active generation in    *)
(* the meantime is refused: its record has status Active.                  *)
RollbackLookup(o) ==
    /\ op[o].pc = "lookup"
    /\ op' = [op EXCEPT ![o] =
                IF UsableTarget(o)
                THEN [@ EXCEPT !.pc = "planned",
                               !.next = [gen |-> op[o].view.gen + 1,
                                         config |-> GenerationRecord(op[o].target).bundle.config,
                                         by |-> o]]
                ELSE [@ EXCEPT !.pc = "record", !.outcome = "rejected"]]
    /\ UNCHANGED <<phase, active, history, entries, running, expectedWorkers,
                   liveLevel, requests, commits>>

(* A plan that was only asked for is recorded, whatever it found.          *)
PlanOnly(o) ==
    /\ op[o].kind = "plan"
    /\ \E outcome \in {"staged", "rejected"} : Conclude(o, "planned", outcome)
    /\ UNCHANGED <<phase, active, history, entries, running, expectedWorkers,
                   liveLevel, requests, commits>>

(* Read, validation, normalisation or compatibility rejects the candidate. *)
PlanRejected(o) ==
    /\ op[o].kind # "plan"
    /\ Conclude(o, "planned", "rejected")
    /\ UNCHANGED <<phase, active, history, entries, running, expectedWorkers,
                   liveLevel, requests, commits>>

(* Resources for the candidate cannot be prepared (JWKS preflight, shared  *)
(* state assembly): a FailedPrepare record is kept under its number.       *)
PlanPrepareFailed(o) ==
    /\ op[o].kind # "plan"
    /\ Conclude(o, "planned", "rejected")
    /\ history' = RecordFailedPrepare(history, op[o].next.gen)
    /\ UNCHANGED <<phase, active, entries, running, expectedWorkers,
                   liveLevel, requests, commits>>

(* The candidate is usable.  An activation checks the lifecycle phase (a   *)
(* rollback did so before assembling), then the commit spawns the          *)
(* candidate's background tasks and, with them, reconfigures the carried   *)
(* watchdog's expected worker count.                                       *)
PlanAccepted(o) ==
    /\ op[o].kind # "plan"
    /\ IF op[o].kind = "activate" /\ ~Phase!AllowsReload(phase)
       THEN /\ Conclude(o, "planned", "rejected")
            /\ UNCHANGED <<running, expectedWorkers>>
       ELSE /\ Step(o, "planned", "gate")
            /\ running' = running \cup {op[o].next}
            /\ expectedWorkers' = WorkersOf[op[o].next.config]
    /\ UNCHANGED <<phase, active, history, entries, liveLevel, requests, commits>>

-------------------------------------------------------------------------------
(* replace_with_archive_status.                                            *)

(* Mutation of ReplaceGate: a refused candidate's tasks are not aborted.   *)
ReplaceGateNoAbort(o) ==
    /\ IF Phase!AllowsReload(phase)
       THEN Step(o, "gate", "swap")
       ELSE Conclude(o, "gate", "failed")
    /\ UNCHANGED <<phase, active, history, entries, running, expectedWorkers,
                   liveLevel, requests, commits>>

(* The lifecycle gate, before the write lock is taken.                     *)
ReplaceGate(o) ==
    /\ IF Phase!AllowsReload(phase)
       THEN Step(o, "gate", "swap") /\ UNCHANGED running
       ELSE /\ Conclude(o, "gate", "failed")
            /\ running' = running \ {op[o].next}
    /\ UNCHANGED <<phase, active, history, entries, expectedWorkers, liveLevel,
                   requests, commits>>

InstallNext(o) ==
    /\ op[o].pc = "swap"
    /\ op' = [op EXCEPT ![o] = [@ EXCEPT !.pc = "archive", !.prev = active]]
    /\ active' = op[o].next
    /\ commits' = Append(commits,
         [kind |-> op[o].kind, expected |-> op[o].expected,
          from |-> active.gen, config |-> op[o].next.config,
          target |-> op[o].target, phase |-> phase])
    /\ UNCHANGED running

(* Mutation of ReplaceSwap: the active generation is replaced unseen.      *)
ReplaceSwapBlind(o) ==
    /\ InstallNext(o)
    /\ UNCHANGED <<phase, history, entries, expectedWorkers, liveLevel, requests>>

(* Under the write lock: the active generation must still be the one the   *)
(* candidate was built on, else the candidate's tasks are aborted.         *)
ReplaceSwap(o) ==
    /\ op[o].pc = "swap"
    /\ IF active.gen = op[o].view.gen
       THEN InstallNext(o)
       ELSE /\ Conclude(o, "swap", "failed")
            /\ running' = running \ {op[o].next}
            /\ UNCHANGED <<active, commits>>
    /\ UNCHANGED <<phase, history, entries, expectedWorkers, liveLevel, requests>>

(* After the write lock is released: archive the generation taken out.     *)
ReplaceArchive(o) ==
    /\ Step(o, "archive", "retire")
    /\ history' = ArchivePreviousGeneration(history, op[o].prev,
                    IF op[o].kind = "rollback" THEN "RolledBack" ELSE "Previous")
    /\ UNCHANGED <<phase, active, entries, running, expectedWorkers, liveLevel,
                   requests, commits>>

(* retire_generation aborts every task of the generation taken out.        *)
ReplaceRetire(o) ==
    /\ Conclude(o, "retire", "succeeded")
    /\ running' = running \ {op[o].prev}
    /\ UNCHANGED <<phase, active, history, entries, expectedWorkers, liveLevel,
                   requests, commits>>

-------------------------------------------------------------------------------
(* The response.                                                           *)

(* Mutation of RecordResult: the success is logged under the generation    *)
(* that is active by now.                                                  *)
RecordResultLate(o) ==
    /\ op[o].pc = "record"
    /\ entries' = PushBounded(
         [kind |-> op[o].kind, outcome |-> op[o].outcome,
          gen |-> IF op[o].outcome = "succeeded" THEN active.gen ELSE None],
         entries, MaxEntries)
    /\ op' = [op EXCEPT ![o] =
                IF op[o].kind = "activate" /\ op[o].outcome = "succeeded"
                THEN [@ EXCEPT !.pc = "readLevel"] ELSE Idle]
    /\ UNCHANGED <<phase, active, history, running, expectedWorkers, liveLevel,
                   requests, commits>>

(* Every operation, refused or not, leaves one entry in the bounded log.   *)
RecordResult(o) ==
    /\ op[o].pc = "record"
    /\ entries' = PushBounded(
         [kind |-> op[o].kind, outcome |-> op[o].outcome,
          gen |-> IF op[o].outcome = "succeeded" THEN op[o].next.gen ELSE None],
         entries, MaxEntries)
    /\ op' = [op EXCEPT ![o] =
                IF op[o].kind = "activate" /\ op[o].outcome = "succeeded"
                THEN [@ EXCEPT !.pc = "readLevel"] ELSE Idle]
    /\ UNCHANGED <<phase, active, history, running, expectedWorkers, liveLevel,
                   requests, commits>>

(* Mutation of ReadLevel: the level applied is the one seen at the start.  *)
ReadLevelOld(o) ==
    /\ op[o].pc = "readLevel"
    /\ op' = [op EXCEPT ![o] = IF LevelOf[active.config] = op[o].level
                              THEN Idle ELSE [@ EXCEPT !.pc = "applyLevel"]]
    /\ UNCHANGED <<phase, active, history, entries, running, expectedWorkers,
                   liveLevel, requests, commits>>

(* Only the activation handler follows the commit with the log level: it   *)
(* reads the level of the now current generation and applies it when it    *)
(* differs from the level it saw when the request arrived.                 *)
ReadLevel(o) ==
    /\ op[o].pc = "readLevel"
    /\ op' = [op EXCEPT ![o] =
                IF LevelOf[active.config] = op[o].level
                THEN Idle
                ELSE [@ EXCEPT !.pc = "applyLevel", !.level = LevelOf[active.config]]]
    /\ UNCHANGED <<phase, active, history, entries, running, expectedWorkers,
                   liveLevel, requests, commits>>

ApplyLevel(o) ==
    /\ op[o].pc = "applyLevel"
    /\ liveLevel' = op[o].level
    /\ op' = [op EXCEPT ![o] = Idle]
    /\ UNCHANGED <<phase, active, history, entries, running, expectedWorkers,
                   requests, commits>>

-------------------------------------------------------------------------------
(* The lifecycle moves underneath the requests (see RuntimeLifecycle).     *)
Lifecycle ==
    /\ Phase!Next
    /\ UNCHANGED <<active, history, entries, running, expectedWorkers,
                   liveLevel, op, requests, commits>>

Handle(o) ==
    \/ ActivateBegin(o) \/ StageReload(o) \/ RollbackBegin(o) \/ RollbackLookup(o)
    \/ PlanOnly(o) \/ PlanRejected(o) \/ PlanPrepareFailed(o) \/ PlanAccepted(o)
    \/ ReplaceGate(o) \/ ReplaceSwap(o) \/ ReplaceArchive(o) \/ ReplaceRetire(o)
    \/ RecordResult(o) \/ ReadLevel(o) \/ ApplyLevel(o)

Next ==
    \/ \E o \in Operators : Request(o) \/ RequestRollback(o) \/ Handle(o)
    \/ Lifecycle

Spec == Init /\ [][Next]_vars

-------------------------------------------------------------------------------
(* Properties.                                                             *)

(* The config generation g was committed with.                             *)
ConfigOf(g) == IF g = 0 THEN BootConfig ELSE commits[g].config

Bearing(r) == IsRollbackCandidate(r) /\ r.bundle # None

(* No lost update: however handlers interleave, every committed generation *)
(* was installed on top of its immediate predecessor, so numbers are never *)
(* reused or skipped (the compare in replace_with_archive_status).         *)
GenerationsDense ==
    /\ Len(commits) = active.gen
    /\ \A g \in DOMAIN commits : commits[g].from = g - 1

(* Handler o is on its way to install, abort or retire bundle b.           *)
Accounts(o, b) ==
    \/ op[o].pc \in {"gate", "swap"} /\ b = op[o].next
    \/ op[o].pc \in {"archive", "retire"} /\ b = op[o].prev

(* Background tasks never leak and never go missing: the active generation *)
(* always has its tasks, and any other bundle with live tasks is either a  *)
(* candidate still on its way to the swap or the generation a handler has  *)
(* just taken out and is about to retire.                                  *)
TaskOwnership ==
    /\ active \in running
    /\ \A b \in running : b = active \/ \E o \in Operators : Accounts(o, b)

(* A rollback that names the active generation it expects commits only on  *)
(* top of that generation (rollback_generation hands the generation it     *)
(* checked to the swap).                                                   *)
RollbackHonoursExpected ==
    \A g \in DOMAIN commits :
        (commits[g].kind = "rollback" /\ commits[g].expected # None)
            => commits[g].expected = commits[g].from

(* A committed rollback serves exactly the config its target generation    *)
(* was committed with, even when other handlers activate, archive and trim *)
(* between the lookup and the swap.                                        *)
RollbackRestoresConfig ==
    \A g \in DOMAIN commits :
        commits[g].kind = "rollback" =>
            /\ commits[g].target < g
            /\ commits[g].config = ConfigOf(commits[g].target)

(* The retained list: bounded, one record per generation, at most one      *)
(* Previous, every bundle under its own number and with the config that    *)
(* was committed under that number.                                        *)
RecordsFaithful ==
    /\ Len(history) <= MaxArchived
    /\ \A i, j \in DOMAIN history :
         i # j => /\ history[i].gen # history[j].gen
                  /\ {history[i].status, history[j].status} # {"Previous"}
    /\ \A i \in DOMAIN history :
         LET r == history[i]
         IN  /\ IsRollbackCandidate(r) <=> r.bundle # None
             /\ r.bundle # None => /\ r.bundle.gen = r.gen
                                   /\ r.gen < active.gen
                                   /\ r.bundle.config = ConfigOf(r.gen)

(* Every committed generation has exactly one success entry in the         *)
(* operation log once its handler has answered, until newer entries push   *)
(* it out; no entry claims a success that did not happen.                  *)
AuditComplete ==
    /\ \A g \in 1..active.gen :
         \/ \E o \in Operators : /\ op[o].pc \in {"archive", "retire", "record"}
                                 /\ op[o].prev # None /\ op[o].next.gen = g
         \/ \E i \in DOMAIN entries : entries[i].gen = g
         \/ Len(entries) = MaxEntries
    /\ \A i, j \in DOMAIN entries :
         (i # j /\ entries[i].gen # None) => entries[i].gen # entries[j].gen
    /\ \A i \in DOMAIN entries :
         entries[i].gen # None => /\ entries[i].gen \in DOMAIN commits
                                  /\ entries[i].kind = commits[entries[i].gen].kind

(* generation_history lists complete generations newest first, as long as *)
(* requests come one at a time.                                            *)
NewestFirst ==
    \A i, j \in DOMAIN history :
        (i < j /\ Bearing(history[i]) /\ Bearing(history[j]))
            => history[i].gen > history[j].gen

(* The generation just replaced stays available for rollback until the     *)
(* next commit, whatever rejected or failed requests come in between.      *)
(* This needs MaxArchived > 1 and requests one at a time: a failed prepare *)
(* that started before the last commit but one takes the record's place.   *)
PredecessorRetained ==
    (active.gen > 0 /\ \A o \in Operators : op[o].pc # "archive")
        => \E i \in DOMAIN history :
              Bearing(history[i]) /\ history[i].gen = active.gen - 1

(* log.level is "applied live post-commit": as long as requests come one   *)
(* at a time and none rolled a generation back, the process logs at the    *)
(* active generation's level whenever no request is in flight.             *)
LevelFollowsActivations ==
    ((\A o \in Operators : op[o].pc = "idle")
       /\ \A g \in DOMAIN commits : commits[g].kind = "activate")
    => liveLevel = LevelOf[active.config]
===============================================================================
