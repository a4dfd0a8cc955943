----------------------- MODULE RuntimeGenerationProofs -----------------------
(***************************************************************************)
(* Safety of the generation handle for any number of concurrent handlers,  *)
(* configs and retained generations.                                       *)
(*                                                                         *)
(* HandlerInv is the strengthening: what a handler may rely on between the *)
(* lock acquisitions of the code.  Its heart is that a bundle a handler is *)
(* about to abort or retire is never the active one, nor the candidate of  *)
(* another handler, although generation numbers of candidates collide.     *)
(***************************************************************************)
EXTENDS RuntimeGeneration, TLAPS, SequenceTheorems

HasView(o)  == op[o].pc \in {"lookup", "planned", "gate", "swap"}
HasNext(o)  == op[o].pc \in {"planned", "gate", "swap"}
Spawned(o)  == op[o].pc \in {"gate", "swap"}
Replaced(o) == op[o].pc \in {"archive", "retire"}

(* The parts of a request that later steps read are there.                 *)
LocalInv(o) ==
    /\ op[o].pc # "idle" => op[o].kind \in Kinds
    /\ op[o].pc = "stage" => op[o].kind # "rollback"
    /\ op[o].pc = "record" => op[o].outcome \in Outcomes
    /\ op[o].pc = "record" /\ op[o].outcome = "succeeded" => op[o].next \in Bundle
    /\ op[o].pc = "applyLevel" => op[o].level \in Levels

(* A handler with a view was the last to commit only at or below it; its   *)
(* candidate is numbered after the view and, once spawned, has its tasks.  *)
ViewInv(o) ==
    /\ HasView(o) => /\ op[o].view \in Bundle
                     /\ op[o].view.gen <= active.gen
                     /\ active.by = o => active.gen <= op[o].view.gen
                     /\ op[o].kind = "rollback" =>
                            op[o].expected \in {None, op[o].view.gen}
    /\ HasNext(o) => /\ op[o].next \in Bundle
                     /\ op[o].next.gen = op[o].view.gen + 1
                     /\ op[o].next.by = o
    /\ Spawned(o) => op[o].next \in running

(* A generation being retired is older than the active one.                *)
PrevInv(o) ==
    Replaced(o) => /\ op[o].next \in Bundle
                   /\ op[o].prev \in Bundle
                   /\ op[o].prev.gen < active.gen

(* It is not another handler's candidate.                                  *)
CrossInv ==
    \A o, p \in Operators :
        (HasView(o) /\ Replaced(p) /\ op[p].prev.by = o)
            => op[p].prev.gen <= op[o].view.gen

HandlerInv ==
    /\ \A o \in Operators : LocalInv(o) /\ ViewInv(o) /\ PrevInv(o)
    /\ CrossInv

IInv == TypeOK /\ HandlerInv /\ GenerationsDense /\ RollbackHonoursExpected
-------------------------------------------------------------------------------
(* The bounded lists.                                                      *)

(* push_front and trim keep the element type and the bound.                *)
LEMMA PushBoundedType ==
  ASSUME NEW S, NEW x \in S, NEW s \in Seq(S), NEW max \in Nat \ {0}
  PROVE  PushBounded(x, s, max) \in Seq(S)
<1> DEFINE all == <<x>> \o s
<1>1. all \in Seq(S) /\ Len(all) = Len(s) + 1
  OBVIOUS
<1>2. Len(all) > max => SubSeq(all, 1, max) \in Seq(S)
  <2> HIDE DEF all
  <2>1. QED
    BY <1>1
<1>3. PushBounded(x, s, max) = IF Len(all) > max THEN SubSeq(all, 1, max) ELSE all
  BY DEF PushBounded
<1> HIDE DEF all
<1>4. QED
  BY <1>1, <1>2, <1>3

(* retain keeps the element type.                                          *)
LEMMA RetainType ==
  ASSUME NEW h \in Seq(Record), NEW g
  PROVE  Retain(h, g) \in Seq(Record)
<1>1. CASE \E i \in DOMAIN h : h[i].gen = g
  <2> DEFINE i == CHOOSE j \in DOMAIN h : h[j].gen = g
  <2>1. i \in 1..Len(h)
    BY <1>1
  <2> HIDE DEF i
  <2>2. SubSeq(h, 1, i - 1) \in Seq(Record) /\ SubSeq(h, i + 1, Len(h)) \in Seq(Record)
    <3>1. \A j \in 1..Len(h) : h[j] \in Record
      OBVIOUS
    <3>2. QED
      BY <2>1, <3>1, SubSeqProperties
  <2>3. Retain(h, g) = SubSeq(h, 1, i - 1) \o SubSeq(h, i + 1, Len(h))
    BY <1>1, ZenonT(30) DEF Retain, i
  <2>4. QED
    BY <2>2, <2>3
<1>2. CASE ~ \E i \in DOMAIN h : h[i].gen = g
  BY <1>2 DEF Retain
<1>3. QED
  BY <1>1, <1>2

(* Demoting the old Previous keeps the element type.                       *)
LEMMA SupersedeType ==
  ASSUME NEW h \in Seq(Record)
  PROVE  Supersede(h) \in Seq(Record)
<1>1. DOMAIN h = 1..Len(h) /\ Len(h) \in Nat
  OBVIOUS
<1>2. ASSUME NEW i \in 1..Len(h)
      PROVE  (IF h[i].status = "Previous" THEN [h[i] EXCEPT !.status = "Superseded"]
                                          ELSE h[i]) \in Record
  <2>1. h[i] \in Record
    OBVIOUS
  <2>2. QED
    BY <2>1 DEF Record, Statuses
<1>3. QED
  BY <1>1, <1>2 DEF Supersede

(* Both writers of the retained list keep its type.                        *)
LEMMA ArchiveType ==
  ASSUME NEW h \in Seq(Record), NEW b \in Bundle, NEW st \in Statuses
  PROVE  ArchivePreviousGeneration(h, b, st) \in Seq(Record)
<1>1. [gen |-> b.gen, status |-> st, bundle |-> b] \in Record
  BY DEF Record, Bundle
<1>2. Retain(Supersede(h), b.gen) \in Seq(Record)
  BY SupersedeType, RetainType
<1>3. QED
  BY <1>1, <1>2, PushBoundedType, BoundAssumption DEF ArchivePreviousGeneration

LEMMA FailedPrepareType ==
  ASSUME NEW h \in Seq(Record), NEW g \in Nat
  PROVE  RecordFailedPrepare(h, g) \in Seq(Record)
<1>1. [gen |-> g, status |-> "FailedPrepare", bundle |-> None] \in Record
  BY DEF Record, Statuses
<1>2. Retain(h, g) \in Seq(Record)
  BY RetainType
<1>3. QED
  BY <1>1, <1>2, PushBoundedType, BoundAssumption DEF RecordFailedPrepare
-------------------------------------------------------------------------------
(* Types.                                                                  *)

LEMMA BootType == BootBundle \in Bundle /\ Idle \in Handler
  BY ConfigAssumption DEF BootBundle, Bundle, Idle, Handler, Pcs

LEMMA TypeInit == Init => TypeOK
<1> SUFFICES ASSUME Init PROVE TypeOK
  OBVIOUS
<1>1. LevelOf[BootConfig] \in Levels /\ WorkersOf[BootConfig] \in Nat \ {0}
  BY ConfigAssumption DEF Levels
<1>2. history \in Seq(Record) /\ entries \in Seq(Entry) /\ commits \in Seq(Commit)
  BY DEF Init
<1>3. QED
  BY <1>1, <1>2, BootType DEF Init, TypeOK, Phase!Phases

(* A step of one handler that leaves a well-formed record keeps op typed.  *)
LEMMA OpType ==
  ASSUME NEW o \in Operators, NEW h \in Handler, TypeOK,
         op' = [op EXCEPT ![o] = h]
  PROVE  op' \in [Operators -> Handler]
  BY DEF TypeOK

(* Setting a handler's program counter, or its outcome, is well typed.     *)
LEMMA StepType ==
  ASSUME TypeOK, NEW o \in Operators, NEW from, NEW to \in Pcs,
         Step(o, from, to)
  PROVE  op' \in [Operators -> Handler]
<1>1. op[o] \in Handler
  BY DEF TypeOK
<1>2. [op[o] EXCEPT !.pc = to] \in Handler
  BY <1>1 DEF Handler
<1>3. QED
  BY <1>2 DEF Step, TypeOK

LEMMA ConcludeType ==
  ASSUME TypeOK, NEW o \in Operators, NEW from, NEW outcome \in Outcomes,
         Conclude(o, from, outcome)
  PROVE  op' \in [Operators -> Handler]
<1>1. op[o] \in Handler
  BY DEF TypeOK
<1>2. [op[o] EXCEPT !.pc = "record", !.outcome = outcome] \in Handler
  BY <1>1, ZenonT(30) DEF Handler, Pcs
<1>3. QED
  BY <1>2 DEF Conclude, TypeOK

(* Reading a request keeps the types.                                      *)
LEMMA TypeRequest ==
  ASSUME TypeOK, HandlerInv, NEW o \in Operators
  PROVE  (\/ Request(o) \/ RequestRollback(o) \/ ActivateBegin(o)
          \/ StageReload(o) \/ RollbackBegin(o) \/ RollbackLookup(o)) => TypeOK'
<1>1. ASSUME Request(o) PROVE TypeOK'
  <2>1. PICK k \in Kinds \ {"rollback"} :
          op' = [op EXCEPT ![o] =
                  [Idle EXCEPT !.pc = IF k = "plan" THEN "stage" ELSE "begin",
                               !.kind = k, !.expected = active.gen,
                               !.level = LevelOf[active.config]]]
    BY <1>1, ZenonT(30) DEF Request
  <2>2. active.gen \in Nat /\ LevelOf[active.config] \in Levels
    BY DEF TypeOK, Bundle, Levels
  <2>3. [Idle EXCEPT !.pc = IF k = "plan" THEN "stage" ELSE "begin",
                     !.kind = k, !.expected = active.gen,
                     !.level = LevelOf[active.config]] \in Handler
    BY <2>2, ZenonT(30) DEF Idle, Handler, Pcs
  <2>4. op' \in [Operators -> Handler]
    BY <2>1, <2>3, OpType, ZenonT(30)
  <2>5. QED
    BY <1>1, <2>4 DEF Request, TypeOK
<1>2. ASSUME RequestRollback(o) PROVE TypeOK'
  <2>1. PICK t \in 0..(active.gen + 1), e \in {active.gen, None} :
          op' = [op EXCEPT ![o] =
                  [Idle EXCEPT !.pc = "begin", !.kind = "rollback",
                               !.expected = e, !.target = t]]
    BY <1>2, ZenonT(30) DEF RequestRollback
  <2>2. active.gen \in Nat /\ t \in Nat
    BY DEF TypeOK, Bundle
  <2>3. [Idle EXCEPT !.pc = "begin", !.kind = "rollback",
                     !.expected = e, !.target = t] \in Handler
    BY <1>2, <2>2, ZenonT(30) DEF Idle, Handler, Pcs, RequestRollback
  <2>4. op' \in [Operators -> Handler]
    BY <2>1, <2>3, OpType, ZenonT(30)
  <2>5. QED
    BY <1>2, <2>4, SMTT(30) DEF RequestRollback, TypeOK
<1>3. ASSUME ActivateBegin(o) PROVE TypeOK'
  <2>1. op' \in [Operators -> Handler]
    BY <1>3, StepType, ConcludeType DEF ActivateBegin, Pcs, Outcomes
  <2>2. QED
    BY <1>3, <2>1 DEF ActivateBegin, TypeOK
<1>4. ASSUME StageReload(o) PROVE TypeOK'
  <2>1. PICK c \in Configs :
          op' = [op EXCEPT ![o] =
                  [@ EXCEPT !.pc = "planned", !.view = active,
                            !.next = [gen |-> active.gen + 1, config |-> c, by |-> o]]]
    BY <1>4, ZenonT(30) DEF StageReload
  <2>2. op[o] \in Handler /\ active \in Bundle
    BY DEF TypeOK
  <2>3. [gen |-> active.gen + 1, config |-> c, by |-> o] \in Bundle
    BY <2>2 DEF Bundle
  <2>4. [op[o] EXCEPT !.pc = "planned", !.view = active,
           !.next = [gen |-> active.gen + 1, config |-> c, by |-> o]] \in Handler
    BY <2>2, <2>3, ZenonT(30) DEF Handler, Pcs
  <2>5. op' \in [Operators -> Handler]
    BY <2>1, <2>4, OpType, ZenonT(30)
  <2>6. QED
    BY <1>4, <2>5, SMTT(30) DEF StageReload, TypeOK
<1>5. ASSUME RollbackBegin(o) PROVE TypeOK'
  <2>1. op[o] \in Handler /\ active \in Bundle
    BY DEF TypeOK
  <2>2. /\ [op[o] EXCEPT !.pc = "record", !.view = active, !.outcome = "rejected"] \in Handler
        /\ [op[o] EXCEPT !.pc = "lookup", !.view = active] \in Handler
    BY <2>1, ZenonT(30) DEF Handler, Pcs, Outcomes
  <2>3. op' \in [Operators -> Handler]
    BY <1>5, <2>2 DEF RollbackBegin, TypeOK
  <2>4. QED
    BY <1>5, <2>3 DEF RollbackBegin, TypeOK
<1>6. ASSUME RollbackLookup(o) PROVE TypeOK'
  <2> DEFINE cfg == GenerationRecord(op[o].target).bundle.config
             nxt == [gen |-> op[o].view.gen + 1, config |-> cfg, by |-> o]
  <2>1. op[o] \in Handler /\ op[o].view \in Bundle
    BY <1>6 DEF TypeOK, HandlerInv, ViewInv, HasView, RollbackLookup
  <2>2. UsableTarget(o) => cfg \in Configs
    <3>1. GenerationRecord(op[o].target) \in Record \cup {None}
      BY DEF GenerationRecord, TypeOK
    <3>2. QED
      BY <3>1 DEF UsableTarget, Record, Bundle
  <2>3. UsableTarget(o) => nxt \in Bundle
    BY <2>1, <2>2 DEF Bundle
  <2> HIDE DEF nxt
  <2>4. /\ UsableTarget(o) => [op[o] EXCEPT !.pc = "planned", !.next = nxt] \in Handler
        /\ [op[o] EXCEPT !.pc = "record", !.outcome = "rejected"] \in Handler
    BY <2>1, <2>3, ZenonT(30) DEF Handler, Pcs, Outcomes
  <2>5. op' \in [Operators -> Handler]
    BY <1>6, <2>4 DEF RollbackLookup, TypeOK, nxt
  <2>6. QED
    BY <1>6, <2>5 DEF RollbackLookup, TypeOK
<1>7. QED
  BY <1>1, <1>2, <1>3, <1>4, <1>5, <1>6

(* Planning keeps the types.                                               *)
LEMMA TypePlan ==
  ASSUME TypeOK, HandlerInv, NEW o \in Operators
  PROVE  (\/ PlanOnly(o) \/ PlanRejected(o) \/ PlanPrepareFailed(o)
          \/ PlanAccepted(o)) => TypeOK'
<1>1. ASSUME PlanOnly(o) PROVE TypeOK'
  <2>1. op' \in [Operators -> Handler]
    BY <1>1, ConcludeType DEF PlanOnly, Outcomes
  <2>2. QED
    BY <1>1, <2>1 DEF PlanOnly, TypeOK
<1>2. ASSUME PlanRejected(o) PROVE TypeOK'
  <2>1. op' \in [Operators -> Handler]
    BY <1>2, ConcludeType DEF PlanRejected, Outcomes
  <2>2. QED
    BY <1>2, <2>1 DEF PlanRejected, TypeOK
<1>3. ASSUME PlanPrepareFailed(o) PROVE TypeOK'
  <2>1. op' \in [Operators -> Handler]
    BY <1>3, ConcludeType DEF PlanPrepareFailed, Outcomes
  <2>2. op[o].next.gen \in Nat
    BY <1>3 DEF PlanPrepareFailed, Conclude, HandlerInv, ViewInv, HasNext, Bundle
  <2>3. history' \in Seq(Record)
    BY <1>3, <2>2, FailedPrepareType, ZenonT(30) DEF PlanPrepareFailed, TypeOK
  <2>4. QED
    BY <1>3, <2>1, <2>3 DEF PlanPrepareFailed, TypeOK
<1>4. ASSUME PlanAccepted(o) PROVE TypeOK'
  <2>1. op' \in [Operators -> Handler]
    BY <1>4, ConcludeType, StepType DEF PlanAccepted, Outcomes, Pcs
  <2>2. op[o].next \in Bundle
    BY <1>4 DEF PlanAccepted, Conclude, Step, HandlerInv, ViewInv, HasNext
  <2>3. expectedWorkers' \in Nat \ {0} /\ running' \subseteq Bundle
    BY <1>4, <2>2, ConfigAssumption DEF PlanAccepted, TypeOK, Bundle
  <2>4. QED
    BY <1>4, <2>1, <2>3 DEF PlanAccepted, TypeOK
<1>5. QED
  BY <1>1, <1>2, <1>3, <1>4

(* Replacing the generation keeps the types.                               *)
LEMMA TypeReplace ==
  ASSUME TypeOK, HandlerInv, NEW o \in Operators
  PROVE  (\/ ReplaceGate(o) \/ ReplaceSwap(o) \/ ReplaceArchive(o)
          \/ ReplaceRetire(o)) => TypeOK'
<1>1. ASSUME ReplaceGate(o) PROVE TypeOK'
  <2>1. op' \in [Operators -> Handler]
    BY <1>1, ConcludeType, StepType DEF ReplaceGate, Outcomes, Pcs
  <2>2. QED
    BY <1>1, <2>1 DEF ReplaceGate, TypeOK
<1>2. ASSUME ReplaceSwap(o) PROVE TypeOK'
  <2>1. CASE active.gen = op[o].view.gen
    <3>1. op[o] \in Handler /\ op[o].next \in Bundle /\ op[o].kind \in Kinds
      BY <1>2 DEF ReplaceSwap, HandlerInv, ViewInv, LocalInv, HasNext, TypeOK
    <3>2. [op[o] EXCEPT !.pc = "archive", !.prev = active] \in Handler
      BY <3>1, ZenonT(30) DEF Handler, Pcs, TypeOK
    <3>3. op' \in [Operators -> Handler]
      BY <1>2, <2>1, <3>2 DEF ReplaceSwap, InstallNext, TypeOK
    <3> DEFINE c == [kind |-> op[o].kind, expected |-> op[o].expected,
                     from |-> active.gen, config |-> op[o].next.config,
                     target |-> op[o].target, phase |-> phase]
    <3>4. c \in Commit
      <4>1. op[o].expected \in Nat \cup {None} /\ op[o].target \in Nat \cup {None}
        BY <3>1 DEF Handler
      <4>2. active.gen \in Nat /\ op[o].next.config \in Configs /\ phase \in Phase!Phases
        BY <3>1 DEF Bundle, TypeOK
      <4>3. QED
        BY <3>1, <4>1, <4>2 DEF Commit
    <3>5. commits' = Append(commits, c)
      BY <1>2, <2>1 DEF ReplaceSwap, InstallNext
    <3> HIDE DEF c
    <3>6. commits' \in Seq(Commit)
      BY <3>4, <3>5 DEF TypeOK
    <3>7. QED
      BY <1>2, <2>1, <3>1, <3>3, <3>6 DEF ReplaceSwap, InstallNext, TypeOK
  <2>2. CASE active.gen # op[o].view.gen
    <3>1. op' \in [Operators -> Handler]
      BY <1>2, <2>2, ConcludeType DEF ReplaceSwap, Outcomes
    <3>2. QED
      BY <1>2, <2>2, <3>1 DEF ReplaceSwap, TypeOK
  <2>3. QED
    BY <2>1, <2>2
<1>3. ASSUME ReplaceArchive(o) PROVE TypeOK'
  <2>1. op' \in [Operators -> Handler]
    BY <1>3, StepType DEF ReplaceArchive, Pcs
  <2>2. op[o].prev \in Bundle
    BY <1>3 DEF ReplaceArchive, Step, HandlerInv, PrevInv, Replaced
  <2>3. history' \in Seq(Record)
    BY <1>3, <2>2, ArchiveType, ZenonT(30) DEF ReplaceArchive, Statuses, TypeOK
  <2>4. QED
    BY <1>3, <2>1, <2>3 DEF ReplaceArchive, TypeOK
<1>4. ASSUME ReplaceRetire(o) PROVE TypeOK'
  <2>1. op' \in [Operators -> Handler]
    BY <1>4, ConcludeType DEF ReplaceRetire, Outcomes
  <2>2. QED
    BY <1>4, <2>1 DEF ReplaceRetire, TypeOK
<1>5. QED
  BY <1>1, <1>2, <1>3, <1>4

(* Reporting the outcome keeps the types.                                  *)
LEMMA TypeReport ==
  ASSUME TypeOK, HandlerInv, NEW o \in Operators
  PROVE  (\/ RecordResult(o) \/ ReadLevel(o) \/ ApplyLevel(o)) => TypeOK'
<1>1. ASSUME RecordResult(o) PROVE TypeOK'
  <2> DEFINE e == [kind |-> op[o].kind, outcome |-> op[o].outcome,
                   gen |-> IF op[o].outcome = "succeeded" THEN op[o].next.gen ELSE None]
  <2>1. op[o] \in Handler
    BY DEF TypeOK
  <2>2. e \in Entry
    BY <1>1 DEF RecordResult, HandlerInv, LocalInv, Entry, Bundle
  <2>3. entries' \in Seq(Entry)
    BY <1>1, <2>2, PushBoundedType, BoundAssumption DEF RecordResult, TypeOK
  <2>4. [op[o] EXCEPT !.pc = "readLevel"] \in Handler
    BY <2>1 DEF Handler, Pcs
  <2>5. op' \in [Operators -> Handler]
    BY <1>1, <2>4, BootType DEF RecordResult, TypeOK
  <2>6. QED
    BY <1>1, <2>3, <2>5 DEF RecordResult, TypeOK
<1>2. ASSUME ReadLevel(o) PROVE TypeOK'
  <2>1. op[o] \in Handler /\ LevelOf[active.config] \in Levels
    BY DEF TypeOK, Bundle, Levels
  <2>2. [op[o] EXCEPT !.pc = "applyLevel", !.level = LevelOf[active.config]] \in Handler
    BY <2>1, ZenonT(30) DEF Handler, Pcs
  <2>3. op' \in [Operators -> Handler]
    BY <1>2, <2>2, BootType DEF ReadLevel, TypeOK
  <2>4. QED
    BY <1>2, <2>3 DEF ReadLevel, TypeOK
<1>3. ASSUME ApplyLevel(o) PROVE TypeOK'
  <2>1. op[o].level \in Levels
    BY <1>3 DEF ApplyLevel, HandlerInv, LocalInv
  <2>2. op' \in [Operators -> Handler]
    BY <1>3, BootType DEF ApplyLevel, TypeOK
  <2>3. QED
    BY <1>3, <2>1, <2>2 DEF ApplyLevel, TypeOK
<1>4. QED
  BY <1>1, <1>2, <1>3

(* Every step keeps every variable in its type.                            *)
LEMMA TypeStep == TypeOK /\ HandlerInv /\ [Next]_vars => TypeOK'
<1> SUFFICES ASSUME TypeOK, HandlerInv, [Next]_vars PROVE TypeOK'
  OBVIOUS
<1>1. CASE Lifecycle
  BY <1>1 DEF Lifecycle, TypeOK, Phase!Next, Phase!MarkRunning, Phase!BeginDrain,
               Phase!BeginShutdown, Phase!FinishShutdown, Phase!Phases
<1>2. CASE UNCHANGED vars
  BY <1>2 DEF vars, TypeOK
<1>3. QED
  BY <1>1, <1>2,
     TypeRequest, TypePlan, TypeReplace, TypeReport
  DEF Next, Handle
-------------------------------------------------------------------------------
(* What handlers rely on.                                                  *)

LEMMA HandlerInit == Init => HandlerInv
  BY DEF Init, Idle, HandlerInv, LocalInv, ViewInv, PrevInv, CrossInv, HasView,
         HasNext, Spawned, Replaced

(* A step of o that does not replace the active generation keeps the       *)
(* invariant when it keeps o's own part and no other candidate's tasks.    *)
LEMMA HandlerFrame ==
  ASSUME TypeOK, HandlerInv, NEW o \in Operators,
         active' = active,
         \A p \in Operators \ {o} : op'[p] = op[p],
         \A p \in Operators \ {o} : Spawned(p) => op[p].next \in running',
         LocalInv(o)', ViewInv(o)', PrevInv(o)',
         HasView(o)' => \/ HasView(o) /\ op'[o].view = op[o].view
                        \/ op'[o].view = active,
         Replaced(o)' => Replaced(o) /\ op'[o].prev = op[o].prev
  PROVE  HandlerInv'
<1>1. ASSUME NEW p \in Operators PROVE (LocalInv(p) /\ ViewInv(p) /\ PrevInv(p))'
  <2>1. CASE p = o
    BY <2>1
  <2>2. CASE p # o
    BY <2>2 DEF HandlerInv, LocalInv, ViewInv, PrevInv, HasView, HasNext, Spawned, Replaced
  <2>3. QED
    BY <2>1, <2>2
<1>2. ASSUME NEW q \in Operators, NEW p \in Operators,
             HasView(q)', Replaced(p)', op'[p].prev.by = q
      PROVE  op'[p].prev.gen <= op'[q].view.gen
  <2>1. Replaced(p) /\ op'[p].prev = op[p].prev
    BY <1>2 DEF Replaced
  <2>2. CASE HasView(q) /\ op'[q].view = op[q].view
    BY <1>2, <2>1, <2>2 DEF HandlerInv, CrossInv
  <2>3. CASE op'[q].view = active
    <3>1. op[p].prev \in Bundle /\ op[p].prev.gen < active.gen
      BY <2>1 DEF HandlerInv, PrevInv
    <3>2. active.gen \in Nat /\ op[p].prev.gen \in Nat
      BY <3>1 DEF TypeOK, Bundle
    <3>3. QED
      BY <2>1, <2>3, <3>1, <3>2
  <2>4. QED
    BY <1>2, <2>2, <2>3 DEF HasView
<1>3. QED
  BY <1>1, <1>2 DEF HandlerInv, CrossInv

(* Concluding a request, or returning to idle, needs nothing but the       *)
(* outcome.                                                                *)
LEMMA HandlerConclude ==
  ASSUME TypeOK, HandlerInv, NEW o \in Operators, NEW from \in Pcs \ {"idle"},
         NEW outcome \in Outcomes, Conclude(o, from, outcome),
         outcome = "succeeded" => op[o].next \in Bundle,
         active' = active,
         \A p \in Operators \ {o} : Spawned(p) => op[p].next \in running'
  PROVE  HandlerInv'
<1>1. op[o] \in Handler /\ DOMAIN op = Operators
  BY DEF TypeOK
<1>2. op'[o] = [op[o] EXCEPT !.pc = "record", !.outcome = outcome]
  BY <1>1 DEF Conclude
<1>3. \A p \in Operators \ {o} : op'[p] = op[p]
  BY <1>1 DEF Conclude
<1>4. op'[o].pc = "record" /\ op'[o].outcome = outcome
      /\ op'[o].kind = op[o].kind /\ op'[o].next = op[o].next
  BY <1>1, <1>2 DEF Handler
<1>5. LocalInv(o)'
  BY <1>4 DEF HandlerInv, LocalInv, Conclude
<1>6. ViewInv(o)' /\ PrevInv(o)' /\ ~HasView(o)' /\ ~Replaced(o)'
  BY <1>4 DEF ViewInv, PrevInv, HasView, HasNext, Spawned, Replaced
<1>7. QED
  BY <1>3, <1>5, <1>6, HandlerFrame

LEMMA HandlerIdle ==
  ASSUME TypeOK, HandlerInv, NEW o \in Operators,
         op' = [op EXCEPT ![o] = Idle], active' = active, running' = running
  PROVE  HandlerInv'
<1>1. op'[o] = Idle /\ \A p \in Operators \ {o} : op'[p] = op[p]
  BY DEF TypeOK
<1>2. op'[o].pc = "idle"
  BY <1>1 DEF Idle
<1>3. LocalInv(o)' /\ ViewInv(o)' /\ PrevInv(o)' /\ ~HasView(o)' /\ ~Replaced(o)'
  BY <1>2 DEF LocalInv, ViewInv, PrevInv, HasView, HasNext, Spawned, Replaced
<1>4. \A p \in Operators \ {o} : Spawned(p) => op[p].next \in running'
  BY DEF HandlerInv, ViewInv
<1>5. QED
  BY <1>1, <1>3, <1>4, HandlerFrame

(* A candidate's tasks are aborted by its own handler only.                *)
LEMMA AbortFrame ==
  ASSUME HandlerInv, NEW o \in Operators, HasNext(o),
         running' = running \ {op[o].next}
  PROVE  \A p \in Operators \ {o} : Spawned(p) => op[p].next \in running'
<1>1. \A p \in Operators : Spawned(p) => op[p].next \in running /\ op[p].next.by = p
  BY DEF HandlerInv, ViewInv, Spawned, HasNext
<1>2. op[o].next.by = o
  BY DEF HandlerInv, ViewInv
<1>3. QED
  BY <1>1, <1>2

(* A step that leaves the tasks alone leaves every candidate its tasks.    *)
LEMMA SpawnedKept ==
  ASSUME HandlerInv, running' = running
  PROVE  \A p \in Operators : Spawned(p) => op[p].next \in running'
  BY DEF HandlerInv, ViewInv

LEMMA HandlerTyped ==
  ASSUME TypeOK
  PROVE  \A p \in Operators : op[p] \in Handler
  BY DEF TypeOK

(* A handler that reads its request keeps the invariant.                   *)
LEMMA HandlerRequest ==
  ASSUME TypeOK, HandlerInv, NEW o \in Operators
  PROVE  (\/ Request(o) \/ RequestRollback(o) \/ ActivateBegin(o)
          \/ StageReload(o)) => HandlerInv'
<1>1. ASSUME Request(o) PROVE HandlerInv'
  <2>1. \A p \in Operators \ {o} : op'[p] = op[p]
    BY <1>1 DEF Request, TypeOK
  <2>2. op'[o].pc \in {"stage", "begin"} /\ op'[o].kind \in Kinds \ {"rollback"}
    BY <1>1 DEF Request, TypeOK, Idle
  <2>3. LocalInv(o)' /\ ViewInv(o)' /\ PrevInv(o)' /\ ~HasView(o)' /\ ~Replaced(o)'
    BY <2>2 DEF LocalInv, ViewInv, PrevInv, HasView, HasNext, Spawned, Replaced
  <2>4. active' = active /\ running' = running
    BY <1>1 DEF Request
  <2>5. QED
    BY SpawnedKept, <2>1, <2>3, <2>4, HandlerFrame
<1>2. ASSUME RequestRollback(o) PROVE HandlerInv'
  <2>1. \A p \in Operators \ {o} : op'[p] = op[p]
    BY <1>2 DEF RequestRollback, TypeOK
  <2>2. op'[o].pc = "begin" /\ op'[o].kind \in Kinds
    BY <1>2 DEF RequestRollback, TypeOK, Idle
  <2>3. LocalInv(o)' /\ ViewInv(o)' /\ PrevInv(o)' /\ ~HasView(o)' /\ ~Replaced(o)'
    BY <2>2 DEF LocalInv, ViewInv, PrevInv, HasView, HasNext, Spawned, Replaced
  <2>4. active' = active /\ running' = running
    BY <1>2 DEF RequestRollback
  <2>5. QED
    BY SpawnedKept, <2>1, <2>3, <2>4, HandlerFrame
<1>3. ASSUME ActivateBegin(o) PROVE HandlerInv'
  <2>1. active' = active /\ running' = running
    BY <1>3 DEF ActivateBegin
  <2>2. CASE op[o].expected # active.gen
    BY SpawnedKept, <1>3, <2>1, <2>2, HandlerConclude DEF ActivateBegin, Pcs, Outcomes
  <2>3. CASE op[o].expected = active.gen
    <3>1. Step(o, "begin", "stage")
      BY <1>3, <2>3 DEF ActivateBegin
    <3>2. \A p \in Operators \ {o} : op'[p] = op[p]
      BY <3>1 DEF Step, TypeOK
    <3>3. op'[o].pc = "stage" /\ op'[o].kind = op[o].kind /\ op[o].pc = "begin"
          /\ op[o].kind = "activate"
      BY HandlerTyped, <1>3, <3>1, SMTT(30) DEF Step, TypeOK, Handler, ActivateBegin
    <3>4. LocalInv(o)' /\ ViewInv(o)' /\ PrevInv(o)' /\ ~HasView(o)' /\ ~Replaced(o)'
      BY <3>3, SMTT(30) DEF HandlerInv, LocalInv, ViewInv, PrevInv, HasView, HasNext, Spawned, Replaced
    <3>5. QED
      BY SpawnedKept, <2>1, <3>2, <3>4, HandlerFrame
  <2>4. QED
    BY <2>2, <2>3
<1>4. ASSUME StageReload(o) PROVE HandlerInv'
  <2>1. PICK c \in Configs :
          op' = [op EXCEPT ![o] =
                  [@ EXCEPT !.pc = "planned", !.view = active,
                            !.next = [gen |-> active.gen + 1, config |-> c, by |-> o]]]
    BY <1>4, ZenonT(30) DEF StageReload
  <2>2. active' = active /\ running' = running /\ op[o].pc = "stage"
    BY <1>4 DEF StageReload
  <2>3. \A p \in Operators \ {o} : op'[p] = op[p]
    BY <2>1 DEF TypeOK
  <2>4. /\ op'[o].pc = "planned" /\ op'[o].kind = op[o].kind /\ op'[o].view = active
        /\ op'[o].next = [gen |-> active.gen + 1, config |-> c, by |-> o]
    BY HandlerTyped, <2>1 DEF TypeOK, Handler
  <2>5. active \in Bundle /\ active.gen \in Nat
    BY DEF TypeOK, Bundle
  <2>6. [gen |-> active.gen + 1, config |-> c, by |-> o] \in Bundle
    BY <2>5 DEF Bundle
  <2>7. LocalInv(o)' /\ PrevInv(o)' /\ ~Replaced(o)'
    BY <2>2, <2>4 DEF HandlerInv, LocalInv, PrevInv, Replaced
  <2>8. op[o].kind # "rollback"
    BY <2>2, SMTT(30) DEF HandlerInv, LocalInv
  <2>9. ViewInv(o)'
    BY <2>2, <2>4, <2>5, <2>6, <2>8 DEF ViewInv, HasView, HasNext, Spawned
  <2>10. QED
    BY SpawnedKept, <2>2, <2>3, <2>4, <2>7, <2>9, HandlerFrame, SMTT(30)
<1>5. QED
  BY <1>1, <1>2, <1>3, <1>4

(* A rollback that looks its target up keeps the invariant.                *)
LEMMA HandlerRollback ==
  ASSUME TypeOK, HandlerInv, NEW o \in Operators
  PROVE  (\/ RollbackBegin(o) \/ RollbackLookup(o)) => HandlerInv'
<1>1. ASSUME RollbackBegin(o) PROVE HandlerInv'
  <2>1. active' = active /\ running' = running /\ op[o].pc = "begin"
    BY <1>1 DEF RollbackBegin
  <2>2. \A p \in Operators \ {o} : op'[p] = op[p]
    BY <1>1 DEF RollbackBegin, TypeOK
  <2>3. /\ \/ op'[o].pc = "record" /\ op'[o].outcome = "rejected"
           \/ op'[o].pc = "lookup"
        /\ op'[o].kind = op[o].kind /\ op'[o].view = active
        /\ op'[o].expected = op[o].expected
        /\ op'[o].pc = "lookup" => op[o].expected \in {None, active.gen}
    BY HandlerTyped, <1>1 DEF RollbackBegin, TypeOK, Handler
  <2>4. active \in Bundle /\ active.gen \in Nat
    BY DEF TypeOK, Bundle
  <2>5. LocalInv(o)' /\ PrevInv(o)' /\ ~Replaced(o)'
    BY <2>1, <2>3 DEF HandlerInv, LocalInv, PrevInv, Replaced, Outcomes
  <2>6. ViewInv(o)'
    BY <2>1, <2>3, <2>4 DEF ViewInv, HasView, HasNext, Spawned
  <2>7. QED
    BY SpawnedKept, <2>1, <2>2, <2>3, <2>5, <2>6, HandlerFrame
<1>2. ASSUME RollbackLookup(o) PROVE HandlerInv'
  <2>1. active' = active /\ running' = running /\ op[o].pc = "lookup"
    BY <1>2 DEF RollbackLookup
  <2>2. \A p \in Operators \ {o} : op'[p] = op[p]
    BY <1>2 DEF RollbackLookup, TypeOK
  <2>3. op'[o] = IF UsableTarget(o)
                 THEN [op[o] EXCEPT !.pc = "planned",
                               !.next = [gen |-> op[o].view.gen + 1,
                                         config |-> GenerationRecord(op[o].target).bundle.config,
                                         by |-> o]]
                 ELSE [op[o] EXCEPT !.pc = "record", !.outcome = "rejected"]
    BY <1>2 DEF RollbackLookup, TypeOK
  <2>4. /\ op'[o].kind = op[o].kind /\ op'[o].view = op[o].view
        /\ op'[o].expected = op[o].expected
        /\ \/ op'[o].pc = "record" /\ op'[o].outcome = "rejected"
           \/ op'[o].pc = "planned"
        /\ op'[o].pc = "planned" => /\ op'[o].next.gen = op[o].view.gen + 1
                                    /\ op'[o].next.by = o
    BY HandlerTyped, <2>3 DEF Handler
  <2>5. op'[o].pc = "planned" => op'[o].next \in Bundle
    <3>1. GenerationRecord(op[o].target) \in Record \cup {None}
      BY DEF GenerationRecord, TypeOK
    <3>2. UsableTarget(o) => GenerationRecord(op[o].target).bundle.config \in Configs
      BY <3>1 DEF UsableTarget, Record, Bundle
    <3>3. op[o].view.gen \in Nat
      BY <2>1 DEF HandlerInv, ViewInv, HasView, Bundle
    <3>4. QED
      BY HandlerTyped, <2>3, <3>2, <3>3 DEF Handler, Bundle
  <2>6. LocalInv(o)' /\ PrevInv(o)' /\ ~Replaced(o)'
    BY <2>1, <2>4, SMTT(30) DEF HandlerInv, LocalInv, PrevInv, Replaced, Outcomes
  <2>7. ViewInv(o)'
    BY <2>1, <2>4, <2>5 DEF HandlerInv, ViewInv, HasView, HasNext, Spawned
  <2>8. HasView(o)
    BY <2>1 DEF HasView
  <2>9. QED
    BY SpawnedKept, <2>1, <2>2, <2>4, <2>6, <2>7, <2>8, HandlerFrame
<1>3. QED
  BY <1>1, <1>2

(* A handler that plans keeps the invariant.                               *)
LEMMA HandlerPlan ==
  ASSUME TypeOK, HandlerInv, NEW o \in Operators
  PROVE  (\/ PlanOnly(o) \/ PlanRejected(o) \/ PlanPrepareFailed(o)
          \/ PlanAccepted(o)) => HandlerInv'
<1>1. ASSUME PlanOnly(o) \/ PlanRejected(o) \/ PlanPrepareFailed(o) PROVE HandlerInv'
  <2>1. active' = active /\ running' = running
    BY <1>1 DEF PlanOnly, PlanRejected, PlanPrepareFailed
  <2>2. PICK outcome \in {"staged", "rejected"} : Conclude(o, "planned", outcome)
    BY <1>1 DEF PlanOnly, PlanRejected, PlanPrepareFailed
  <2>3. QED
    BY SpawnedKept, <2>1, <2>2, HandlerConclude DEF Pcs, Outcomes
<1>2. ASSUME PlanAccepted(o) PROVE HandlerInv'
  <2>1. active' = active
    BY <1>2, SMTT(30) DEF PlanAccepted
  <2>2. CASE op[o].kind = "activate" /\ ~Phase!AllowsReload(phase)
    BY SpawnedKept, <1>2, <2>1, <2>2, HandlerConclude, SMTT(30) DEF PlanAccepted, Pcs, Outcomes
  <2>3. CASE ~(op[o].kind = "activate" /\ ~Phase!AllowsReload(phase))
    <3>1. Step(o, "planned", "gate") /\ running' = running \cup {op[o].next}
      BY <1>2, <2>3 DEF PlanAccepted
    <3>2. \A p \in Operators \ {o} : op'[p] = op[p]
      BY <3>1 DEF Step, TypeOK
    <3>3. /\ op[o].pc = "planned" /\ op'[o].pc = "gate" /\ op'[o].kind = op[o].kind
          /\ op'[o].view = op[o].view /\ op'[o].next = op[o].next
          /\ op'[o].expected = op[o].expected
      BY HandlerTyped, <3>1 DEF Step, TypeOK, Handler
    <3>4. LocalInv(o)' /\ PrevInv(o)' /\ ~Replaced(o)' /\ HasView(o)
      BY <3>3 DEF HandlerInv, LocalInv, PrevInv, Replaced, HasView
    <3>5. ViewInv(o)'
      BY <2>1, <3>1, <3>3 DEF HandlerInv, ViewInv, HasView, HasNext, Spawned
    <3>6. \A p \in Operators \ {o} : Spawned(p) => op[p].next \in running'
      BY <3>1 DEF HandlerInv, ViewInv
    <3>7. QED
      BY <2>1, <3>2, <3>3, <3>4, <3>5, <3>6, HandlerFrame
  <2>4. QED
    BY <2>2, <2>3
<1>3. QED
  BY <1>1, <1>2

(* A handler that replaces the generation keeps the invariant.             *)
LEMMA HandlerReplace ==
  ASSUME TypeOK, HandlerInv, NEW o \in Operators
  PROVE  (\/ ReplaceGate(o) \/ ReplaceSwap(o)) => HandlerInv'
<1>1. ASSUME ReplaceGate(o) PROVE HandlerInv'
  <2>1. active' = active
    BY <1>1 DEF ReplaceGate
  <2>2. CASE Phase!AllowsReload(phase)
    <3>1. Step(o, "gate", "swap") /\ running' = running
      BY <1>1, <2>2 DEF ReplaceGate
    <3>2. \A p \in Operators \ {o} : op'[p] = op[p]
      BY <3>1 DEF Step, TypeOK
    <3>3. /\ op[o].pc = "gate" /\ op'[o].pc = "swap" /\ op'[o].kind = op[o].kind
          /\ op'[o].view = op[o].view /\ op'[o].next = op[o].next
          /\ op'[o].expected = op[o].expected
      BY HandlerTyped, <3>1 DEF Step, TypeOK, Handler
    <3>4. LocalInv(o)' /\ PrevInv(o)' /\ ~Replaced(o)' /\ HasView(o)
      BY <3>3 DEF HandlerInv, LocalInv, PrevInv, Replaced, HasView
    <3>5. ViewInv(o)'
      BY <2>1, <3>1, <3>3 DEF HandlerInv, ViewInv, HasView, HasNext, Spawned
    <3>6. QED
      BY SpawnedKept, <2>1, <3>1, <3>2, <3>3, <3>4, <3>5, HandlerFrame
  <2>3. CASE ~Phase!AllowsReload(phase)
    <3>1. Conclude(o, "gate", "failed") /\ running' = running \ {op[o].next}
      BY <1>1, <2>3 DEF ReplaceGate
    <3>2. HasNext(o)
      BY <3>1 DEF Conclude, HasNext
    <3>3. QED
      BY <2>1, <3>1, <3>2, AbortFrame, HandlerConclude DEF Pcs, Outcomes
  <2>4. QED
    BY <2>2, <2>3
<1>2. ASSUME ReplaceSwap(o) /\ active.gen # op[o].view.gen PROVE HandlerInv'
  <2>1. Conclude(o, "swap", "failed") /\ running' = running \ {op[o].next} /\ active' = active
    BY <1>2 DEF ReplaceSwap
  <2>2. HasNext(o)
    BY <2>1 DEF Conclude, HasNext
  <2>3. QED
    BY <2>1, <2>2, AbortFrame, HandlerConclude DEF Pcs, Outcomes
<1>3. ASSUME ReplaceSwap(o) /\ active.gen = op[o].view.gen PROVE HandlerInv'
  <2>1. InstallNext(o)
    BY <1>3 DEF ReplaceSwap
  <2>2. /\ op[o].pc = "swap" /\ active' = op[o].next /\ running' = running
        /\ \A p \in Operators \ {o} : op'[p] = op[p]
    BY <2>1 DEF InstallNext, TypeOK
  <2>3. /\ op'[o].pc = "archive" /\ op'[o].kind = op[o].kind /\ op'[o].prev = active
        /\ op'[o].next = op[o].next
    BY HandlerTyped, <2>1, SMTT(30) DEF InstallNext, TypeOK, Handler
  <2>4. /\ active \in Bundle /\ active.gen \in Nat /\ op[o].next \in Bundle
        /\ op[o].next.gen = active.gen + 1 /\ op[o].next.by = o
    BY <1>3, <2>2, SMTT(30) DEF TypeOK, HandlerInv, ViewInv, HasNext, Bundle
  <2>5. LocalInv(o)' /\ ViewInv(o)' /\ PrevInv(o)'
    BY <2>2, <2>3, <2>4 DEF HandlerInv, LocalInv, ViewInv, PrevInv, HasView, HasNext,
                             Spawned, Replaced
  <2>6. ASSUME NEW p \in Operators \ {o} PROVE (LocalInv(p) /\ ViewInv(p) /\ PrevInv(p))'
    <3>1. HasView(p) => op[p].view \in Bundle /\ op[p].view.gen \in Nat
      BY DEF HandlerInv, ViewInv, Bundle
    <3>2. Replaced(p) => op[p].prev \in Bundle /\ op[p].prev.gen \in Nat
      BY DEF HandlerInv, PrevInv, Bundle
    <3>3. LocalInv(p)' /\ PrevInv(p)'
      BY <2>2, <2>4, <3>2, SMTT(30) DEF HandlerInv, LocalInv, PrevInv, Replaced
    <3>4. ViewInv(p)'
      BY <2>2, <2>4, <3>1 DEF HandlerInv, ViewInv, HasView, HasNext, Spawned
    <3>5. QED
      BY <3>3, <3>4, SMTT(30)
  <2>7. ASSUME NEW q \in Operators, NEW p \in Operators,
               HasView(q)', Replaced(p)', op'[p].prev.by = q
        PROVE  op'[p].prev.gen <= op'[q].view.gen
    <3>1. q # o /\ HasView(q) /\ op'[q] = op[q]
      BY <2>2, <2>3, <2>7 DEF HasView
    <3>2. CASE p = o
      BY <2>3, <2>7, <3>1, <3>2 DEF HandlerInv, ViewInv
    <3>3. CASE p # o
      BY <2>2, <2>7, <3>1, <3>3, SMTT(30) DEF HandlerInv, CrossInv, Replaced
    <3>4. QED
      BY <3>2, <3>3
  <2>8. QED
    BY <2>5, <2>6, <2>7 DEF HandlerInv, CrossInv
<1>4. QED
  BY <1>1, <1>2, <1>3

(* A handler that archives and retires keeps the invariant.                *)
LEMMA HandlerRetire ==
  ASSUME TypeOK, HandlerInv, NEW o \in Operators
  PROVE  (\/ ReplaceArchive(o) \/ ReplaceRetire(o)) => HandlerInv'
<1>1. ASSUME ReplaceArchive(o) PROVE HandlerInv'
  <2>1. active' = active /\ running' = running /\ Step(o, "archive", "retire")
    BY <1>1 DEF ReplaceArchive
  <2>2. \A p \in Operators \ {o} : op'[p] = op[p]
    BY <2>1 DEF Step, TypeOK
  <2>3. /\ op[o].pc = "archive" /\ op'[o].pc = "retire" /\ op'[o].kind = op[o].kind
        /\ op'[o].prev = op[o].prev /\ op'[o].next = op[o].next
    BY HandlerTyped, <2>1, SMTT(30) DEF Step, TypeOK, Handler
  <2>4. Replaced(o) /\ ~HasView(o)' /\ LocalInv(o)' /\ ViewInv(o)' /\ PrevInv(o)'
    BY <2>1, <2>3, SMTT(30) DEF HandlerInv, LocalInv, ViewInv, PrevInv, HasView, HasNext,
                      Spawned, Replaced
  <2>5. QED
    BY SpawnedKept, <2>1, <2>2, <2>3, <2>4, HandlerFrame
<1>2. ASSUME ReplaceRetire(o) PROVE HandlerInv'
  <2>1. /\ Conclude(o, "retire", "succeeded") /\ running' = running \ {op[o].prev}
        /\ active' = active
    BY <1>2 DEF ReplaceRetire
  <2>2. /\ Replaced(o) /\ op[o].next \in Bundle /\ op[o].prev \in Bundle
        /\ op[o].prev.gen \in Nat
    BY <2>1 DEF Conclude, HandlerInv, PrevInv, Replaced, Bundle
  <2>3. ASSUME NEW p \in Operators \ {o}, Spawned(p) PROVE op[p].next \in running'
    <3>1. /\ HasView(p) /\ op[p].next \in running /\ op[p].next.by = p
          /\ op[p].next.gen = op[p].view.gen + 1 /\ op[p].view.gen \in Nat
      BY <2>3 DEF HandlerInv, ViewInv, HasView, HasNext, Spawned, Bundle
    <3>2. op[o].prev.by = p => op[o].prev.gen <= op[p].view.gen
      BY <2>2, <3>1 DEF HandlerInv, CrossInv
    <3>3. op[p].next # op[o].prev
      BY <2>2, <3>1, <3>2
    <3>4. QED
      BY <2>1, <3>1, <3>3
  <2>4. QED
    BY <2>1, <2>2, <2>3, HandlerConclude DEF Pcs, Outcomes
<1>3. QED
  BY <1>1, <1>2

(* A handler that reports its outcome keeps the invariant.                 *)
LEMMA HandlerReport ==
  ASSUME TypeOK, HandlerInv, NEW o \in Operators
  PROVE  (\/ RecordResult(o) \/ ReadLevel(o) \/ ApplyLevel(o)) => HandlerInv'
<1>1. ASSUME RecordResult(o) PROVE HandlerInv'
  <2>1. active' = active /\ running' = running /\ op[o].pc = "record"
    BY <1>1 DEF RecordResult
  <2>2. CASE op[o].kind = "activate" /\ op[o].outcome = "succeeded"
    <3>1. \A p \in Operators \ {o} : op'[p] = op[p]
      BY <1>1 DEF RecordResult, TypeOK
    <3>2. op'[o].pc = "readLevel" /\ op'[o].kind = op[o].kind
      BY HandlerTyped, <1>1, <2>2, SMTT(30) DEF RecordResult, TypeOK, Handler
    <3>3. LocalInv(o)' /\ ViewInv(o)' /\ PrevInv(o)' /\ ~HasView(o)' /\ ~Replaced(o)'
      BY <2>1, <3>2 DEF HandlerInv, LocalInv, ViewInv, PrevInv, HasView, HasNext,
                        Spawned, Replaced
    <3>4. QED
      BY SpawnedKept, <2>1, <3>1, <3>3, HandlerFrame
  <2>3. CASE ~(op[o].kind = "activate" /\ op[o].outcome = "succeeded")
    <3>1. op' = [op EXCEPT ![o] = Idle]
      BY <1>1, <2>3, ZenonT(30) DEF RecordResult
    <3>2. QED
      BY <2>1, <3>1, HandlerIdle, ZenonT(30)
  <2>4. QED
    BY <2>2, <2>3
<1>2. ASSUME ReadLevel(o) PROVE HandlerInv'
  <2>1. active' = active /\ running' = running /\ op[o].pc = "readLevel"
    BY <1>2, SMTT(30) DEF ReadLevel
  <2>2. CASE LevelOf[active.config] # op[o].level
    <3>1. \A p \in Operators \ {o} : op'[p] = op[p]
      BY <1>2 DEF ReadLevel, TypeOK
    <3>2. /\ op'[o].pc = "applyLevel" /\ op'[o].kind = op[o].kind
          /\ op'[o].level = LevelOf[active.config]
      BY HandlerTyped, <1>2, <2>2 DEF ReadLevel, TypeOK, Handler
    <3>3. LevelOf[active.config] \in Levels
      BY SMTT(30) DEF TypeOK, Bundle, Levels
    <3>4. LocalInv(o)' /\ ViewInv(o)' /\ PrevInv(o)' /\ ~HasView(o)' /\ ~Replaced(o)'
      BY <2>1, <3>2, <3>3 DEF HandlerInv, LocalInv, ViewInv, PrevInv, HasView, HasNext,
                              Spawned, Replaced
    <3>5. QED
      BY SpawnedKept, <2>1, <3>1, <3>4, HandlerFrame
  <2>3. CASE LevelOf[active.config] = op[o].level
    <3>1. op' = [op EXCEPT ![o] = Idle]
      BY <1>2, <2>3 DEF ReadLevel
    <3>2. QED
      BY <2>1, <3>1, HandlerIdle, ZenonT(30)
  <2>4. QED
    BY <2>2, <2>3
<1>3. ASSUME ApplyLevel(o) PROVE HandlerInv'
  BY <1>3, HandlerIdle, ZenonT(30) DEF ApplyLevel
<1>4. QED
  BY <1>1, <1>2, <1>3

(* Every step keeps what handlers rely on.                                 *)
LEMMA HandlerStep == TypeOK /\ HandlerInv /\ [Next]_vars => HandlerInv'
<1> SUFFICES ASSUME TypeOK, HandlerInv, [Next]_vars PROVE HandlerInv'
  BY SMTT(30)
<1>1. CASE Lifecycle \/ UNCHANGED vars
  <2>1. active' = active /\ running' = running /\ op' = op
    BY <1>1, SMTT(30) DEF Lifecycle, vars
  <2>2. QED
    BY <2>1 DEF HandlerInv, LocalInv, ViewInv, PrevInv, CrossInv, HasView, HasNext,
                Spawned, Replaced
<1>2. QED
  BY <1>1, HandlerRequest, HandlerRollback, HandlerPlan, HandlerReplace,
     HandlerRetire, HandlerReport
  DEF Next, Handle
-------------------------------------------------------------------------------
(* Generation numbers.                                                     *)

(* The single mem::replace is the only step that touches the active        *)
(* generation or the history of commits.                                   *)
LEMMA OnlySwapInstalls ==
  ASSUME [Next]_vars
  PROVE  \/ active' = active /\ commits' = commits
         \/ \E o \in Operators : op[o].pc = "swap" /\ InstallNext(o)
                                 /\ active.gen = op[o].view.gen
<1>1. ASSUME NEW o \in Operators, ReplaceSwap(o)
      PROVE  \/ active' = active /\ commits' = commits
             \/ op[o].pc = "swap" /\ InstallNext(o) /\ active.gen = op[o].view.gen
  BY <1>1, SMTT(30) DEF ReplaceSwap
<1>2. ASSUME NEW o \in Operators, Request(o) \/ RequestRollback(o)
      PROVE  active' = active /\ commits' = commits
  BY <1>2, ZenonT(30) DEF Request, RequestRollback
<1>3. ASSUME NEW o \in Operators, Handle(o), ~ReplaceSwap(o)
      PROVE  active' = active /\ commits' = commits
  BY <1>3, ZenonT(30)
     DEF Handle, ActivateBegin, StageReload, RollbackBegin, RollbackLookup, PlanOnly,
         PlanRejected, PlanPrepareFailed, PlanAccepted, ReplaceGate,
         ReplaceArchive, ReplaceRetire, RecordResult, ReadLevel, ApplyLevel
<1>4. CASE Lifecycle \/ UNCHANGED vars
  BY <1>4 DEF Lifecycle, vars
<1>5. QED
  BY <1>1, <1>2, <1>3, <1>4 DEF Next

(* The commit a swap appends.                                              *)
LEMMA SwapCommits ==
  ASSUME TypeOK, HandlerInv, NEW o \in Operators, op[o].pc = "swap", InstallNext(o),
         active.gen = op[o].view.gen
  PROVE  /\ active'.gen = active.gen + 1
         /\ Len(commits') = Len(commits) + 1
         /\ \A g \in 1..Len(commits) : commits'[g] = commits[g]
         /\ commits'[Len(commits) + 1].from = active.gen
         /\ commits'[Len(commits) + 1].kind = op[o].kind
         /\ commits'[Len(commits) + 1].expected = op[o].expected
<1> DEFINE c == [kind |-> op[o].kind, expected |-> op[o].expected,
                 from |-> active.gen, config |-> op[o].next.config,
                 target |-> op[o].target, phase |-> phase]
<1>1. commits \in Seq(Commit) /\ commits' = Append(commits, c) /\ active' = op[o].next
  BY DEF TypeOK, InstallNext
<1>2. c.from = active.gen /\ c.kind = op[o].kind /\ c.expected = op[o].expected
  BY SMTT(30)
<1>3. op[o].next.gen = active.gen + 1
  BY DEF HandlerInv, ViewInv, HasNext
<1> HIDE DEF c
<1>4. QED
  BY <1>1, <1>2, <1>3

LEMMA DenseStep == TypeOK /\ HandlerInv /\ GenerationsDense /\ [Next]_vars => GenerationsDense'
<1> SUFFICES ASSUME TypeOK, HandlerInv, GenerationsDense, [Next]_vars
             PROVE  GenerationsDense'
  OBVIOUS
<1>1. CASE active' = active /\ commits' = commits
  BY <1>1 DEF GenerationsDense
<1>2. ASSUME NEW o \in Operators, op[o].pc = "swap", InstallNext(o),
             active.gen = op[o].view.gen
      PROVE  GenerationsDense'
  <2>1. commits \in Seq(Commit) /\ active.gen \in Nat
    BY DEF TypeOK, Bundle
  <2>2. commits' \in Seq(Commit)
    BY TypeStep DEF TypeOK
  <2>3. DOMAIN commits' = 1..(Len(commits) + 1) /\ DOMAIN commits = 1..Len(commits)
    BY <1>2, <2>1, <2>2, SwapCommits
  <2>4. QED
    BY <1>2, <2>1, <2>3, SwapCommits DEF GenerationsDense
<1>3. QED
  BY <1>1, <1>2, OnlySwapInstalls

-------------------------------------------------------------------------------
(* Rollback expectations.                                                  *)

LEMMA RollbackStep ==
  TypeOK /\ HandlerInv /\ RollbackHonoursExpected /\ [Next]_vars => RollbackHonoursExpected'
<1> SUFFICES ASSUME TypeOK, HandlerInv, RollbackHonoursExpected, [Next]_vars
             PROVE  RollbackHonoursExpected'
  OBVIOUS
<1>1. CASE active' = active /\ commits' = commits
  BY <1>1 DEF RollbackHonoursExpected
<1>2. ASSUME NEW o \in Operators, op[o].pc = "swap", InstallNext(o),
             active.gen = op[o].view.gen
      PROVE  RollbackHonoursExpected'
  <2>1. commits \in Seq(Commit) /\ commits' \in Seq(Commit)
    BY TypeStep DEF TypeOK
  <2>2. DOMAIN commits' = 1..(Len(commits) + 1) /\ DOMAIN commits = 1..Len(commits)
    BY <1>2, <2>1, SwapCommits
  <2>3. op[o].kind = "rollback" => op[o].expected \in {None, active.gen}
    BY <1>2 DEF HandlerInv, ViewInv, HasView
  <2>4. QED
    BY <1>2, <2>1, <2>2, <2>3, SwapCommits DEF RollbackHonoursExpected
<1>3. QED
  BY <1>1, <1>2, OnlySwapInstalls
-------------------------------------------------------------------------------
(* The theorems.                                                           *)

LEMMA IInvInit == Init => IInv
<1> SUFFICES ASSUME Init PROVE IInv
  OBVIOUS
<1>1. GenerationsDense /\ RollbackHonoursExpected
  BY DEF Init, BootBundle, GenerationsDense, RollbackHonoursExpected
<1>2. QED
  BY <1>1, TypeInit, HandlerInit DEF IInv

LEMMA IInvStep == IInv /\ [Next]_vars => IInv'
  BY TypeStep, HandlerStep, DenseStep, RollbackStep DEF IInv

LEMMA Invariance == Spec => []IInv
<1>1. QED
  BY IInvInit, IInvStep, PTL DEF Spec

(* Every variable keeps its type, however many handlers run.               *)
THEOREM GenerationTypeOK == Spec => []TypeOK
<1>1. IInv => TypeOK
  BY DEF IInv
<1>2. QED
  BY <1>1, Invariance, PTL

(* Reloads and rollbacks never lose an update: every generation was        *)
(* installed on its immediate predecessor by the compare under the lock.   *)
THEOREM GenerationNumbersDense == Spec => []GenerationsDense
<1>1. IInv => GenerationsDense
  BY DEF IInv
<1>2. QED
  BY <1>1, Invariance, PTL

(* A rollback commits only on top of the generation its client expected.   *)
THEOREM GenerationRollbackExpected == Spec => []RollbackHonoursExpected
<1>1. IInv => RollbackHonoursExpected
  BY DEF IInv
<1>2. QED
  BY <1>1, Invariance, PTL
===============================================================================
