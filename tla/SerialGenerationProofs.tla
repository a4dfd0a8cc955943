----------------------- MODULE SerialGenerationProofs ------------------------
(***************************************************************************)
(* What holds when one admin request is handled at a time: the order of    *)
(* the archive, the predecessor's place in it and the live log level.      *)
(* Concurrent handlers archive in any order, so these need OneHandler; the *)
(* configs, the bounds and the number of requests stay arbitrary.          *)
(***************************************************************************)
EXTENDS GenerationRecordsProofs

OneHandler == \E o \in Operators : Operators = {o}

-------------------------------------------------------------------------------
(* The order of the retained list.                                         *)
Sorted(h) ==
    \A i, j \in 1..Len(h) : (i < j /\ Bearing(h[i]) /\ Bearing(h[j])) => h[i].gen > h[j].gen

(* Demotion, retain and push keep the order; a pushed bundle must be newer *)
(* than those retained.                                                    *)
LEMMA SupersedeSorted ==
  ASSUME NEW h \in Seq(Record), ListOK(h), Sorted(h)
  PROVE  Sorted(Supersede(h))
  BY SupersedeOK DEF Sorted

LEMMA RetainSorted ==
  ASSUME NEW h \in Seq(Record), ListOK(h), Sorted(h), NEW g
  PROVE  Sorted(Retain(h, g))
<1>1. DOMAIN h = 1..Len(h) /\ Len(h) \in Nat
  OBVIOUS
<1>2. \A i, j \in DOMAIN h : i # j => h[i].gen # h[j].gen
  BY <1>1 DEF ListOK
<1> DEFINE r == Retain(h, g)
<1> HIDE DEF r
<1>3. CASE r = h
  BY <1>3 DEF r
<1>4. ASSUME NEW k \in 1..Len(h), Len(r) = Len(h) - 1,
             \A i \in 1..(Len(h) - 1) : r[i] = IF i < k THEN h[i] ELSE h[i + 1]
      PROVE  Sorted(r)
  <2> DEFINE f(i) == IF i < k THEN i ELSE i + 1
  <2>1. ASSUME NEW i \in 1..Len(r) PROVE f(i) \in 1..Len(h) /\ r[i] = h[f(i)]
    BY <1>1, <1>4
  <2>2. ASSUME NEW i \in 1..Len(r), NEW j \in 1..Len(r), i < j PROVE f(i) < f(j)
    BY <1>1, <1>4, <2>2
  <2> HIDE DEF f
  <2>3. QED
    BY <2>1, <2>2, ZenonT(30) DEF Sorted
<1>5. QED
  BY <1>2, <1>3, <1>4, RetainElements DEF r

LEMMA PushSorted ==
  ASSUME NEW x \in Record, NEW h \in Seq(Record), Sorted(h),
         Bearing(x) => \A i \in 1..Len(h) : Bearing(h[i]) => x.gen > h[i].gen
  PROVE  Sorted(PushBounded(x, h, MaxArchived))
<1> DEFINE p == PushBounded(x, h, MaxArchived)
<1> HIDE DEF p
<1>1. /\ Len(p) = IF Len(h) + 1 > MaxArchived THEN MaxArchived ELSE Len(h) + 1
      /\ p[1] = x
      /\ \A i \in 2..Len(p) : i - 1 \in 1..Len(h) /\ p[i] = h[i - 1]
  <2>1. MaxArchived \in Nat \ {0} /\ p = PushBounded(x, h, MaxArchived)
    BY BoundAssumption DEF p
  <2>2. QED
    BY <2>1, PushBoundedElements
<1>2. Len(h) \in Nat /\ Len(p) \in Nat
  BY <1>1, BoundAssumption
<1>3. ASSUME NEW i \in 1..Len(p), NEW j \in 1..Len(p), i < j, Bearing(p[i]), Bearing(p[j])
      PROVE  p[i].gen > p[j].gen
  <2>1. j - 1 \in 1..Len(h) /\ p[j] = h[j - 1]
    BY <1>1, <1>2, <1>3
  <2>2. CASE i = 1
    BY <1>1, <1>3, <2>1, <2>2, ZenonT(30)
  <2>3. CASE i # 1
    <3>1. i - 1 \in 1..Len(h) /\ p[i] = h[i - 1] /\ i - 1 < j - 1
      BY <1>1, <1>2, <1>3, <2>3
    <3>2. QED
      BY <1>3, <2>1, <3>1 DEF Sorted
  <2>4. QED
    BY <2>2, <2>3
<1>4. QED
  BY <1>3 DEF Sorted, p

-------------------------------------------------------------------------------
(* The handler's view is the active generation, and the generation it      *)
(* replaced is newer than everything retained.                             *)
ViewCurrent(o) == HasView(o) => op[o].view.gen = active.gen

ArchiveNext(o) ==
    op[o].pc = "archive" =>
        /\ op[o].prev.gen + 1 = active.gen
        /\ \A i \in 1..Len(history) : Bearing(history[i]) => history[i].gen < op[o].prev.gen

SInv ==
    /\ RInv /\ Sorted(history)
    /\ \A o \in Operators : ViewCurrent(o) /\ ArchiveNext(o)

(* A handler's view is the active generation of its last look, kept.       *)
LEMMA ViewMoves ==
  ASSUME TypeOK, NEW o \in Operators, Request(o) \/ RequestRollback(o) \/ Handle(o), HasView(o)'
  PROVE  op'[o].view = active \/ (HasView(o) /\ op'[o].view = op[o].view)
<1>1. op \in [Operators -> Handler] /\ op[o] \in Handler
  BY DEF TypeOK
<1>5. ASSUME NEW from, NEW to, Step(o, from, to)
      PROVE  op[o].pc = from /\ op'[o].pc = to /\ op'[o].view = op[o].view
  BY <1>1, <1>5 DEF Step, Handler
<1>6. ASSUME NEW from, NEW outcome, Conclude(o, from, outcome) PROVE FALSE
  <2>1. op'[o].pc = "record"
    BY <1>1, <1>6 DEF Conclude, Handler
  <2>2. QED
    BY <2>1 DEF HasView
<1>7. ASSUME op'[o] = Idle PROVE FALSE
  BY <1>7 DEF Idle, HasView
<1>8. ASSUME Request(o) PROVE FALSE
  <2>1. op'[o].pc \in {"stage", "begin"}
    BY <1>1, <1>8, ZenonT(30) DEF Request, Idle
  <2>2. QED
    BY <2>1 DEF HasView
<1>9. ASSUME RequestRollback(o) PROVE FALSE
  <2>1. op'[o].pc = "begin"
    BY <1>1, <1>9, ZenonT(30) DEF RequestRollback, Idle
  <2>2. QED
    BY <2>1 DEF HasView
<1>10. CASE StageReload(o)
  <2>1. PICK c \in Configs :
          op' = [op EXCEPT ![o] =
                  [@ EXCEPT !.pc = "planned", !.view = active,
                            !.next = [gen |-> active.gen + 1, config |-> c, by |-> o]]]
    BY <1>10, ZenonT(30) DEF StageReload
  <2>2. op'[o].view = active
    BY <1>1, <2>1 DEF Handler
  <2>3. QED
    BY <2>2
<1>11. CASE RollbackBegin(o)
  <2>1. CASE op' = [op EXCEPT ![o] = [@ EXCEPT !.pc = "record", !.view = active,
                                               !.outcome = "rejected"]]
    BY <1>1, <2>1 DEF Handler
  <2>2. CASE op' = [op EXCEPT ![o] = [@ EXCEPT !.pc = "lookup", !.view = active]]
    BY <1>1, <2>2 DEF Handler
  <2>3. QED
    BY <1>11, <2>1, <2>2, ZenonT(30) DEF RollbackBegin
<1>12. CASE RollbackLookup(o)
  <2>1. op[o].pc = "lookup" /\ op'[o].view = op[o].view
    BY <1>1, <1>12 DEF RollbackLookup, Handler
  <2>2. QED
    BY <2>1 DEF HasView
<1>13. CASE ActivateBegin(o)
  BY <1>5, <1>6, <1>13 DEF ActivateBegin, HasView
<1>14. CASE PlanOnly(o) \/ PlanRejected(o) \/ PlanPrepareFailed(o)
  BY <1>6, <1>14 DEF PlanOnly, PlanRejected, PlanPrepareFailed
<1>15. CASE PlanAccepted(o)
  BY <1>5, <1>6, <1>15 DEF PlanAccepted, HasView
<1>16. CASE ReplaceGate(o)
  BY <1>5, <1>6, <1>16 DEF ReplaceGate, HasView
<1>17. CASE ReplaceSwap(o)
  <2>1. ASSUME InstallNext(o) PROVE FALSE
    BY <1>1, <2>1 DEF InstallNext, HasView, Handler
  <2>2. QED
    BY <1>6, <1>17, <2>1 DEF ReplaceSwap
<1>18. CASE ReplaceArchive(o) \/ ReplaceRetire(o)
  BY <1>5, <1>6, <1>18 DEF ReplaceArchive, ReplaceRetire, HasView
<1>19. ASSUME RecordResult(o) PROVE FALSE
  <2>1. op'[o].pc \in {"readLevel", "idle"}
    <3>1. op' = [op EXCEPT ![o] = IF op[o].kind = "activate" /\ op[o].outcome = "succeeded"
                                  THEN [@ EXCEPT !.pc = "readLevel"] ELSE Idle]
      BY <1>19 DEF RecordResult
    <3>2. QED
      BY <1>1, <3>1 DEF Idle, Handler
  <2>2. QED
    BY <2>1 DEF HasView
<1>20. ASSUME ReadLevel(o) \/ ApplyLevel(o) PROVE FALSE
  <2>1. op'[o].pc \in {"applyLevel", "idle"}
    <3>1. CASE ReadLevel(o)
      <4>1. op' = [op EXCEPT ![o] = IF LevelOf[active.config] = op[o].level THEN Idle
                     ELSE [@ EXCEPT !.pc = "applyLevel", !.level = LevelOf[active.config]]]
        BY <3>1 DEF ReadLevel
      <4>2. QED
        BY <1>1, <4>1 DEF Idle, Handler
    <3>2. CASE ApplyLevel(o)
      BY <1>1, <3>2 DEF ApplyLevel, Idle
    <3>3. QED
      BY <1>20, <3>1, <3>2
  <2>2. QED
    BY <2>1 DEF HasView
<1>21. QED
  BY <1>8, <1>9, <1>10, <1>11, <1>12, <1>13, <1>14, <1>15, <1>16, <1>17, <1>18,
     <1>19, <1>20, SMTT(30) DEF Handle

(* Nobody else commits, so a view stays current until its own swap.        *)
LEMMA ViewStep ==
  ASSUME IInv, NEW o, Operators = {o}, ViewCurrent(o), [Next]_vars
  PROVE  ViewCurrent(o)'
<1> SUFFICES ASSUME HasView(o)' PROVE op'[o].view.gen = active'.gen
  BY DEF ViewCurrent
<1>1. TypeOK /\ op \in [Operators -> Handler] /\ o \in Operators
  BY DEF IInv, TypeOK
<1>2. active' = active
  <2>1. ASSUME Committed(o), InstallNext(o) PROVE FALSE
    BY <1>1, <2>1 DEF InstallNext, HasView, Handler
  <2>2. QED
    BY <2>1, CommitStep
<1>3. op'[o].view = active \/ (HasView(o) /\ op'[o].view = op[o].view)
  <2>1. CASE Lifecycle \/ UNCHANGED vars
    BY <2>1 DEF Lifecycle, vars, HasView
  <2>2. CASE Request(o) \/ RequestRollback(o) \/ Handle(o)
    BY <1>1, <2>2, ViewMoves
  <2>3. QED
    BY <2>1, <2>2 DEF Next
<1>4. QED
  BY <1>2, <1>3 DEF ViewCurrent

(* A step that does not move the handler leaves what it works on alone.    *)
LEMMA StillStep ==
  ASSUME IInv, NEW o, Operators = {o}, [Next]_vars
  PROVE  /\ op'[o] = op[o] => active' = active /\ commits' = commits
         /\ (op'[o] = op[o] \/ op[o].pc \notin {"planned", "archive"}) => history' = history
<1>1. op \in [Operators -> Handler]
  BY DEF IInv, TypeOK
<1>2. ASSUME InstallNext(o) PROVE op'[o] # op[o]
  <2>1. op[o].pc = "swap" /\ op'[o].pc = "archive"
    BY <1>1, <1>2 DEF InstallNext, Handler
  <2>2. QED
    BY <2>1
<1>3. ASSUME PlanPrepareFailed(o) \/ ReplaceArchive(o)
      PROVE  op'[o] # op[o] /\ op[o].pc \in {"planned", "archive"}
  <2>1. op[o].pc \in {"planned", "archive"} /\ op'[o].pc \in {"record", "retire"}
    BY <1>1, <1>3, ZenonT(30) DEF PlanPrepareFailed, ReplaceArchive, Step, Conclude, Handler
  <2>2. QED
    BY <2>1
<1>4. QED
  BY <1>2, <1>3, CommitStep, HistoryWriters

(* A swap takes out the newest complete generation.                        *)
LEMMA ArchiveStep ==
  ASSUME SInv, NEW o, Operators = {o}, [Next]_vars
  PROVE  ArchiveNext(o)'
<1> SUFFICES ASSUME op'[o].pc = "archive"
             PROVE  /\ op'[o].prev.gen + 1 = active'.gen
                    /\ \A i \in 1..Len(history') :
                         Bearing(history'[i]) => history'[i].gen < op'[o].prev.gen
  BY DEF ArchiveNext
<1>1. IInv /\ TypeOK /\ ArchiveNext(o) /\ RecordsFaithful /\ DOMAIN history = 1..Len(history)
  BY DEF SInv, RInv, IInv, TypeOK
<1>2. CASE op'[o] = op[o]
  BY <1>1, <1>2, StillStep DEF ArchiveNext
<1>3. CASE Installs(o)
  <2>1. Committed(o) /\ op'[o].prev = active /\ history' = history
    BY <1>1, <1>3, SwapIsCommitted, StillStep DEF Installs
  <2>2. active'.gen = active.gen + 1
    BY <2>1 DEF Committed
  <2>3. \A i \in 1..Len(history) : Bearing(history[i]) => history[i].gen < active.gen
    BY <1>1 DEF RecordsFaithful, Bearing
  <2>4. QED
    BY <2>1, <2>2, <2>3
<1>4. op'[o] = op[o] \/ Installs(o)
  <2>1. Moves(o)
    BY <1>1, AllMove
  <2>2. ASSUME NEW from, NEW to \in {"stage", "lookup", "gate", "swap", "retire", "record"},
               MovesTo(o, from, to)
        PROVE  FALSE
    BY <2>2 DEF MovesTo
  <2>3. ASSUME Arrives(o) \/ Stages(o) \/ Finds(o) \/ Refused(o) PROVE FALSE
    BY <2>3 DEF Arrives, Stages, Finds, Refused
  <2>4. ASSUME Answers(o) \/ SetsLevel(o) PROVE FALSE
    BY <2>4 DEF Answers, SetsLevel, Idle
  <2>5. QED
    BY <2>1, <2>2, <2>3, <2>4 DEF Moves
<1>5. QED
  BY <1>2, <1>3, <1>4

(* Both writers of the list keep it in order.                              *)
LEMMA SortedStep ==
  ASSUME SInv, NEW o, Operators = {o}, [Next]_vars
  PROVE  Sorted(history)'
<1>1. /\ IInv /\ TypeOK /\ HandlerInv /\ history \in Seq(Record) /\ Sorted(history)
      /\ ListOK(history) /\ ArchiveNext(o)
  BY FaithfulIsListOK DEF SInv, RInv, IInv, TypeOK
<1>2. SUFFICES \E h : history' = h /\ Sorted(h)
  BY DEF Sorted, Bearing, IsRollbackCandidate
<1>3. CASE history' = history
  BY <1>1, <1>3
<1>4. CASE PlanPrepareFailed(o)
  <2> DEFINE g == op[o].next.gen
             x == [gen |-> g, status |-> "FailedPrepare", bundle |-> None]
             kept == Retain(history, g)
  <2>1. g \in Nat
    BY <1>1, <1>4 DEF PlanPrepareFailed, Conclude, HandlerInv, ViewInv, HasNext, Bundle
  <2>2. x \in Record /\ ~Bearing(x)
    BY <2>1 DEF Record, Statuses, Bearing, IsRollbackCandidate
  <2>3. kept \in Seq(Record) /\ Sorted(kept)
    BY <1>1, RetainType, RetainSorted
  <2>4. history' = PushBounded(x, kept, MaxArchived)
    BY <1>4 DEF PlanPrepareFailed, RecordFailedPrepare
  <2> HIDE DEF g, x, kept
  <2>5. QED
    BY <2>2, <2>3, <2>4, PushSorted
<1>5. CASE ReplaceArchive(o)
  <2> DEFINE b == op[o].prev
             status == IF op[o].kind = "rollback" THEN "RolledBack" ELSE "Previous"
             x == [gen |-> b.gen, status |-> status, bundle |-> b]
             demoted == Supersede(history)
             kept == Retain(demoted, b.gen)
  <2>1. /\ b \in Bundle
        /\ \A i \in 1..Len(history) : Bearing(history[i]) => history[i].gen < b.gen
    BY <1>1, <1>5 DEF ReplaceArchive, Step, HandlerInv, PrevInv, Replaced, ArchiveNext
  <2>2. x \in Record /\ x.gen = b.gen
    BY <2>1 DEF Record, Statuses, Bundle
  <2>3. /\ demoted \in Seq(Record) /\ ListOK(demoted) /\ Len(demoted) = Len(history)
        /\ \A i \in 1..Len(history) : /\ demoted[i].gen = history[i].gen
                                      /\ Bearing(demoted[i]) <=> Bearing(history[i])
    BY <1>1, SupersedeType, SupersedeOK
  <2>4. Sorted(demoted)
    BY <1>1, SupersedeSorted
  <2>5. history' = PushBounded(x, kept, MaxArchived)
    BY <1>5 DEF ReplaceArchive, ArchivePreviousGeneration
  <2> HIDE DEF demoted
  <2>6. kept \in Seq(Record) /\ Sorted(kept)
    BY <2>3, <2>4, RetainType, RetainSorted
  <2>7. \A i \in 1..Len(kept) : \E j \in 1..Len(demoted) : kept[i] = demoted[j]
    BY <2>3, RetainOK
  <2> HIDE DEF b, status, x, kept
  <2>8. ASSUME NEW i \in 1..Len(kept), Bearing(kept[i]) PROVE kept[i].gen < b.gen
    BY <2>1, <2>3, <2>7, <2>8, ZenonT(30)
  <2>9. \A i \in 1..Len(kept) : Bearing(kept[i]) => x.gen > kept[i].gen
    <3>1. b.gen \in Nat /\ \A i \in 1..Len(kept) : kept[i].gen \in Nat
      <4>1. \A i \in 1..Len(kept) : kept[i] \in Record
        BY <2>6
      <4>2. QED
        BY <2>1, <4>1 DEF Record, Bundle
    <3>2. QED
      BY <2>2, <2>8, <3>1
  <2>10. QED
    BY <2>2, <2>5, <2>6, <2>9, PushSorted
<1>6. QED
  BY <1>3, <1>4, <1>5, HistoryWriters

LEMMA SInvInit == Init => SInv
<1> SUFFICES ASSUME Init PROVE SInv
  OBVIOUS
<1>1. RInv
  BY RInvInit
<1>2. Sorted(history)
  BY DEF Init, Sorted
<1>3. \A o \in Operators : ViewCurrent(o) /\ ArchiveNext(o)
  BY DEF Init, Idle, ViewCurrent, HasView, ArchiveNext
<1>4. QED
  BY <1>1, <1>2, <1>3 DEF SInv

LEMMA SInvStep ==
  ASSUME OneHandler
  PROVE  SInv /\ [Next]_vars => SInv'
<1> SUFFICES ASSUME SInv, [Next]_vars PROVE SInv'
  OBVIOUS
<1>1. PICK o \in Operators : Operators = {o}
  BY DEF OneHandler
<1>2. RInv' /\ Sorted(history)' /\ ArchiveNext(o)'
  BY <1>1, RInvStep, SortedStep, ArchiveStep DEF SInv
<1>3. ViewCurrent(o)'
  BY <1>1, ViewStep DEF SInv, RInv
<1>4. QED
  BY <1>1, <1>2, <1>3 DEF SInv

(* With requests one at a time generation_history lists the complete       *)
(* generations newest first, through trims, failed prepares and rollbacks. *)
THEOREM GenerationNewestFirst == ASSUME OneHandler PROVE Spec => []NewestFirst
<1>1. SInv => NewestFirst
  <2> SUFFICES ASSUME SInv PROVE NewestFirst
    OBVIOUS
  <2>1. DOMAIN history = 1..Len(history) /\ Sorted(history)
    BY DEF SInv, RInv, IInv, TypeOK
  <2>2. QED
    BY <2>1 DEF Sorted, NewestFirst
<1>2. QED
  BY <1>1, SInvInit, SInvStep, PTL DEF Spec

-------------------------------------------------------------------------------
(* The generation just replaced heads the list, or is second to the failed *)
(* prepare of the next number, which never leaves a second record.         *)
HeldAt(h, i) ==
    /\ i \in 1..Len(h) /\ Bearing(h[i]) /\ h[i].gen = active.gen - 1
    /\ i = 1 \/ (i = 2 /\ h[1].gen = active.gen + 1)

PredInv ==
    /\ SInv
    /\ (active.gen > 0 /\ \A o \in Operators : op[o].pc # "archive")
         => \E i \in {1, 2} : HeldAt(history, i)

(* A failed prepare of the next number keeps the predecessor in its place. *)
LEMMA RetainHolds ==
  ASSUME NEW h \in Seq(Record), ListOK(h), active.gen \in Nat, NEW i \in {1, 2}, HeldAt(h, i)
  PROVE  /\ Retain(h, active.gen + 1) # <<>>
         /\ Bearing(Retain(h, active.gen + 1)[1])
         /\ Retain(h, active.gen + 1)[1].gen = active.gen - 1
<1>1. DOMAIN h = 1..Len(h) /\ Len(h) \in Nat
  OBVIOUS
<1>2. \A j, k \in DOMAIN h : j # k => h[j].gen # h[k].gen
  BY <1>1 DEF ListOK
<1> DEFINE g == active.gen + 1
           r == Retain(h, g)
<1>3. g # active.gen - 1 /\ g = active.gen + 1
  OBVIOUS
<1> HIDE DEF g, r
<1>4. CASE r = h /\ \A j \in 1..Len(h) : h[j].gen # g
  <2>1. i = 1 /\ h # <<>>
    BY <1>1, <1>3, <1>4 DEF HeldAt
  <2>2. QED
    BY <1>4, <2>1 DEF HeldAt, g, r
<1>5. ASSUME NEW k \in 1..Len(h), h[k].gen = g, Len(r) = Len(h) - 1,
             \A j \in 1..(Len(h) - 1) : r[j] = IF j < k THEN h[j] ELSE h[j + 1]
      PROVE  r # <<>> /\ Bearing(r[1]) /\ r[1].gen = active.gen - 1
  <2>1. CASE i = 1
    <3>1. k # 1
      BY <1>3, <1>5, <2>1 DEF HeldAt
    <3>2. 1 \in 1..(Len(h) - 1) /\ 1 < k
      BY <1>1, <3>1
    <3>3. r[1] = h[1] /\ r # <<>>
      BY <1>5, <3>2
    <3>4. QED
      BY <2>1, <3>3 DEF HeldAt
  <2>2. CASE i = 2
    <3>1. h[1].gen = g /\ 1 \in 1..Len(h) /\ 2 \in 1..Len(h)
      BY <1>1, <1>3, <2>2 DEF HeldAt
    <3>2. k = 1
      BY <1>1, <1>2, <1>5, <3>1
    <3>3. r[1] = h[2] /\ r # <<>>
      BY <1>1, <1>5, <3>1, <3>2
    <3>4. QED
      BY <2>2, <3>3 DEF HeldAt
  <2>3. QED
    BY <2>1, <2>2
<1>6. QED
  BY <1>2, <1>4, <1>5, RetainElements DEF g, r

(* After the swap a handler archives next.                                 *)
LEMMA ArchiveMoves ==
  ASSUME NEW o, Operators = {o}, [Next]_vars, op[o].pc = "archive", op'[o].pc # "archive"
  PROVE  ReplaceArchive(o)
<1>1. ~Lifecycle /\ ~UNCHANGED vars
  BY DEF Lifecycle, vars
<1>2. ~Request(o) /\ ~RequestRollback(o)
  BY DEF Request, RequestRollback
<1>3. ASSUME Handle(o) PROVE ReplaceArchive(o)
  BY <1>3 DEF Handle, ActivateBegin, StageReload, RollbackBegin, RollbackLookup, PlanOnly,
              PlanRejected, PlanPrepareFailed, PlanAccepted, ReplaceGate, ReplaceSwap,
              ReplaceRetire, RecordResult, ReadLevel, ApplyLevel, Step, Conclude
<1>4. QED
  BY <1>1, <1>2, <1>3 DEF Next

(* The predecessor keeps its place through failed prepares and takes it    *)
(* with the archive.                                                       *)
LEMMA PredStep ==
  ASSUME MaxArchived > 1, PredInv, NEW o, Operators = {o}, [Next]_vars,
         active'.gen > 0, op'[o].pc # "archive"
  PROVE  \E i \in {1, 2} : HeldAt(history, i)'
<1>1. /\ IInv /\ TypeOK /\ HandlerInv /\ history \in Seq(Record)
      /\ ListOK(history) /\ ArchiveNext(o) /\ ViewCurrent(o)
      /\ active \in Bundle /\ active.gen \in Nat /\ o \in Operators
  BY FaithfulIsListOK, CommitNumbers DEF PredInv, SInv, RInv, IInv, TypeOK
<1>2. active' = active
  <2>1. ASSUME Committed(o), InstallNext(o) PROVE FALSE
    BY <1>1, <2>1, InstallAlone DEF Committed
  <2>2. QED
    BY <1>1, <2>1, CommitStep
<1>3. MaxArchived \in Nat \ {0}
  BY BoundAssumption
<1>4. CASE ReplaceArchive(o)
  <2> DEFINE b == op[o].prev
             status == IF op[o].kind = "rollback" THEN "RolledBack" ELSE "Previous"
             x == [gen |-> b.gen, status |-> status, bundle |-> b]
             kept == Retain(Supersede(history), b.gen)
  <2>1. b \in Bundle /\ b.gen + 1 = active.gen
    BY <1>1, <1>4 DEF ReplaceArchive, Step, HandlerInv, PrevInv, Replaced, ArchiveNext
  <2>2. x \in Record /\ x.gen = b.gen /\ x.status \in {"RolledBack", "Previous"} /\ x.bundle = b
    BY <2>1 DEF Record, Statuses, Bundle
  <2>3. Bearing(x)
    BY <2>1, <2>2, NoneAssumption, SMTT(30) DEF Bearing, IsRollbackCandidate
  <2>4. history' = PushBounded(x, kept, MaxArchived)
    BY <1>4 DEF ReplaceArchive, ArchivePreviousGeneration
  <2>5. kept \in Seq(Record)
    BY <1>1, SupersedeType, RetainType
  <2>6. b.gen = active.gen - 1
    BY <1>1, <2>1 DEF Bundle
  <2> HIDE DEF b, status, x, kept
  <2>7. history'[1] = x /\ Len(history') = IF Len(kept) + 1 > MaxArchived THEN MaxArchived
                                                                          ELSE Len(kept) + 1
    BY <1>3, <2>2, <2>4, <2>5, PushBoundedElements
  <2>8. 1 \in 1..Len(history')
    BY <1>3, <2>5, <2>7
  <2>9. HeldAt(history, 1)'
    BY <1>2, <2>2, <2>3, <2>6, <2>7, <2>8 DEF HeldAt, Bearing, IsRollbackCandidate
  <2>10. QED
    BY <2>9
<1>5. CASE ~ReplaceArchive(o)
  <2>1. op[o].pc # "archive"
    BY <1>5, ArchiveMoves
  <2>2. PICK i \in {1, 2} : HeldAt(history, i)
    BY <1>2, <2>1 DEF PredInv
  <2>3. CASE history' = history
    <3>1. HeldAt(history, i)'
      BY <1>2, <2>2, <2>3 DEF HeldAt, Bearing, IsRollbackCandidate
    <3>2. QED
      BY <3>1
  <2>4. CASE PlanPrepareFailed(o)
    <3> DEFINE g == active.gen + 1
               x == [gen |-> g, status |-> "FailedPrepare", bundle |-> None]
               kept == Retain(history, g)
    <3>1. op[o].next.gen = g
      BY <1>1, <2>4 DEF PlanPrepareFailed, Conclude, HandlerInv, ViewInv, HasNext, HasView,
                        ViewCurrent
    <3>2. x \in Record /\ x.gen = g
      BY <1>1 DEF Record, Statuses
    <3>3. history' = PushBounded(x, kept, MaxArchived)
      BY <2>4, <3>1 DEF PlanPrepareFailed, RecordFailedPrepare
    <3>4. kept \in Seq(Record)
      BY <1>1, RetainType
    <3>5. kept # <<>> /\ Bearing(kept[1]) /\ kept[1].gen = active.gen - 1
      BY <1>1, <2>2, RetainHolds
    <3>6. g = active.gen + 1
      OBVIOUS
    <3> HIDE DEF g, x, kept
    <3>7. /\ history'[1] = x
          /\ Len(history') = IF Len(kept) + 1 > MaxArchived THEN MaxArchived ELSE Len(kept) + 1
          /\ \A j \in 2..Len(history') : j - 1 \in 1..Len(kept) /\ history'[j] = kept[j - 1]
      BY <1>3, <3>2, <3>3, <3>4, PushBoundedElements
    <3>8. Len(kept) \in Nat \ {0}
      BY <3>4, <3>5
    <3>9. 2 \in 2..Len(history') /\ 2 \in 1..Len(history')
      BY <1>3, <3>7, <3>8
    <3>10. history'[2] = kept[1]
      BY <3>7, <3>9
    <3>11. HeldAt(history, 2)'
      BY <1>2, <3>2, <3>5, <3>6, <3>7, <3>9, <3>10 DEF HeldAt, Bearing, IsRollbackCandidate
    <3>12. QED
      BY <3>11
  <2>5. QED
    BY <1>5, <2>3, <2>4, HistoryWriters
<1>6. QED
  BY <1>4, <1>5

LEMMA PredInvInit == Init => PredInv
<1> SUFFICES ASSUME Init PROVE PredInv
  OBVIOUS
<1>1. SInv
  BY SInvInit
<1>2. active.gen = 0
  BY DEF Init, BootBundle
<1>3. QED
  BY <1>1, <1>2 DEF PredInv

LEMMA PredInvStep ==
  ASSUME OneHandler, MaxArchived > 1
  PROVE  PredInv /\ [Next]_vars => PredInv'
<1> SUFFICES ASSUME PredInv, [Next]_vars PROVE PredInv'
  OBVIOUS
<1>1. PICK o \in Operators : Operators = {o}
  BY DEF OneHandler
<1>2. SInv'
  BY SInvStep DEF PredInv
<1>3. ASSUME active'.gen > 0, \A p \in Operators : op'[p].pc # "archive"
      PROVE  \E i \in {1, 2} : HeldAt(history, i)'
  BY <1>1, <1>3, PredStep
<1>4. QED
  BY <1>2, <1>3 DEF PredInv

(* With requests one at a time and room for two records, the generation    *)
(* just replaced can be rolled back to until the next commit.              *)
THEOREM GenerationPredecessorRetained ==
  ASSUME OneHandler, MaxArchived > 1
  PROVE  Spec => []PredecessorRetained
<1>1. PredInv => PredecessorRetained
  <2> SUFFICES ASSUME PredInv, active.gen > 0, \A o \in Operators : op[o].pc # "archive"
               PROVE  \E i \in DOMAIN history :
                        Bearing(history[i]) /\ history[i].gen = active.gen - 1
    BY DEF PredecessorRetained
  <2>1. PICK i \in {1, 2} : HeldAt(history, i)
    BY DEF PredInv
  <2>2. DOMAIN history = 1..Len(history)
    BY DEF PredInv, SInv, RInv, IInv, TypeOK
  <2>3. QED
    BY <2>1, <2>2 DEF HeldAt
<1>2. QED
  BY <1>1, PredInvInit, PredInvStep, PTL DEF Spec

-------------------------------------------------------------------------------
(* The live log level: what an activation saw when it arrived still        *)
(* decides correctly after its commit.  Concurrent activations, and        *)
(* rollbacks, leave the level behind.                                      *)

(* Only the last step of an activation writes it.                          *)
LEMMA LevelWriters ==
  ASSUME [Next]_vars
  PROVE  liveLevel' = liveLevel \/ \E o \in Operators : ApplyLevel(o)
<1>1. ASSUME NEW o \in Operators, Request(o) \/ RequestRollback(o)
      PROVE  liveLevel' = liveLevel
  BY <1>1, ZenonT(30) DEF Request, RequestRollback
<1>2. ASSUME NEW o \in Operators, Handle(o), ~ApplyLevel(o)
      PROVE  liveLevel' = liveLevel
  BY <1>2, ZenonT(30)
     DEF Handle, ActivateBegin, StageReload, RollbackBegin, RollbackLookup, PlanOnly,
         PlanRejected, PlanPrepareFailed, PlanAccepted, ReplaceGate, ReplaceSwap,
         ReplaceArchive, ReplaceRetire, RecordResult, ReadLevel
<1>3. CASE Lifecycle \/ UNCHANGED vars
  BY <1>3 DEF Lifecycle, vars
<1>4. QED
  BY <1>1, <1>2, <1>3 DEF Next

Settled(o) == ~Answering(o) /\ op[o].pc \notin {"readLevel", "applyLevel"}

OnlyActivations == \A g \in DOMAIN commits : commits[g].kind = "activate"

(* Unless a commit is on its way to the log level, the level is the active *)
(* generation's, and so is the one an activation saw when it arrived;      *)
(* after the commit that one is still the live level.                      *)
LevelInv(o) ==
    /\ Settled(o) => /\ liveLevel = LevelOf[active.config]
                     /\ (op[o].pc # "idle" /\ op[o].kind = "activate")
                          => op[o].level = LevelOf[active.config]
    /\ (Answering(o) \/ op[o].pc = "readLevel")
         => op[o].kind = "activate" /\ op[o].level = liveLevel
    /\ op[o].pc = "applyLevel" => op[o].level = LevelOf[active.config]

LInv == AInv /\ (OnlyActivations => \A o \in Operators : LevelInv(o))

(* Each move of the only handler keeps its hold on the level.              *)
LEMMA LevelStep ==
  ASSUME LInv, NEW o, Operators = {o}, [Next]_vars, OnlyActivations'
  PROVE  LevelInv(o)'
<1>1. /\ AInv /\ IInv /\ TypeOK /\ AnswerInv(o) /\ o \in Operators /\ active.gen \in Nat
      /\ DOMAIN commits = 1..active.gen
  BY CommitNumbers DEF LInv, AInv, IInv
<1>2. Moves(o)
  BY <1>1, AllMove
<1>3. LevelInv(o)
  <2>1. CASE commits' = commits
    BY <1>1, <2>1 DEF LInv, OnlyActivations
  <2>2. CASE Committed(o)
    BY <1>1, <2>2 DEF Committed, LInv, OnlyActivations
  <2>3. QED
    BY <1>1, <2>1, <2>2, CommitStep
<1>4. ASSUME op[o].pc # "swap" PROVE active' = active
  BY <1>1, <1>4, CommitStep DEF Committed
<1>5. ASSUME op[o].pc # "applyLevel" PROVE liveLevel' = liveLevel
  BY <1>5, LevelWriters DEF ApplyLevel
<1>6. CASE op'[o] = op[o]
  <2>1. active' = active
    BY <1>1, <1>6, StillStep
  <2>2. liveLevel' = liveLevel
    <3>1. ASSUME ApplyLevel(o) PROVE FALSE
      <4>1. op[o].pc = "applyLevel" /\ op'[o].pc = "idle"
        BY <1>1, <3>1, SMTT(30) DEF ApplyLevel, Idle, TypeOK
      <4>2. QED
        BY <1>6, <4>1
    <3>2. QED
      BY <3>1, LevelWriters
  <2>3. QED
    BY <1>3, <1>6, <2>1, <2>2 DEF LevelInv, Settled, Answering
<1>7. CASE Arrives(o)
  BY <1>1, <1>3, <1>4, <1>5, <1>7, SMTT(30) DEF Arrives, LevelInv, Settled, Answering
<1>8. ASSUME NEW from \in {"begin", "planned", "gate"},
             NEW to \in {"stage", "lookup", "gate", "swap"}, MovesTo(o, from, to)
      PROVE  LevelInv(o)'
  BY <1>1, <1>3, <1>4, <1>5, <1>8, SMTT(30) DEF MovesTo, Kept, LevelInv, Settled, Answering
<1>9. CASE Stages(o)
  BY <1>1, <1>3, <1>4, <1>5, <1>9, SMTT(30) DEF Stages, LevelInv, Settled, Answering
<1>10. CASE Finds(o)
  BY <1>1, <1>3, <1>4, <1>5, <1>10, SMTT(30) DEF Finds, LevelInv, Settled, Answering
<1>11. CASE Refused(o)
  <2>1. op'[o].prev = None /\ op[o].pc # "applyLevel" /\ Settled(o) /\ op'[o].pc = "record"
    BY <1>1, <1>11 DEF Refused, Kept, AnswerInv, Settled, Answering
  <2>2. active' = active
    <3>1. ASSUME Committed(o), InstallNext(o) PROVE FALSE
      <4>1. op'[o].pc = "archive"
        BY <1>1, <3>1, InstallAlone DEF Committed
      <4>2. QED
        BY <2>1, <4>1
    <3>2. QED
      BY <1>1, <3>1, CommitStep
  <2>3. liveLevel' = liveLevel
    BY <1>5, <2>1
  <2>4. op[o].pc # "idle" /\ op'[o].kind = op[o].kind /\ op'[o].level = op[o].level
    BY <1>11 DEF Refused, Kept
  <2>5. QED
    BY <1>3, <2>1, <2>2, <2>3, <2>4, SMTT(30) DEF LevelInv, Settled, Answering
<1>12. CASE Installs(o)
  <2>1. Committed(o)
    BY <1>1, <1>12, SwapIsCommitted DEF Installs
  <2>2. op[o].kind = "activate"
    BY <1>1, <2>1 DEF Committed, OnlyActivations
  <2>3. /\ op[o].pc = "swap" /\ op'[o].pc = "archive" /\ op'[o].kind = op[o].kind
        /\ op'[o].level = op[o].level /\ op'[o].prev = active /\ active # None
    BY <1>1, <1>12, NoneAssumption DEF Installs, TypeOK
  <2>4. liveLevel' = liveLevel
    BY <1>5, <2>3
  <2>5. op[o].level = liveLevel
    BY <1>3, <2>2, <2>3, SMTT(30) DEF LevelInv, Settled, Answering
  <2>6. QED
    BY <2>2, <2>3, <2>4, <2>5 DEF LevelInv, Settled, Answering
<1>13. CASE MovesTo(o, "archive", "retire") \/ MovesTo(o, "retire", "record")
  <2>1. /\ Answering(o) /\ Answering(o)' /\ op'[o].pc \notin {"readLevel", "applyLevel"}
        /\ op'[o].kind = op[o].kind /\ op'[o].level = op[o].level
    BY <1>1, <1>13 DEF MovesTo, Kept, AnswerInv, Answering
  <2>2. liveLevel' = liveLevel
    BY <1>5, <1>13 DEF MovesTo
  <2>3. QED
    BY <1>3, <2>1, <2>2, SMTT(30) DEF LevelInv, Settled
<1>14. CASE Answers(o)
  <2>1. active' = active /\ liveLevel' = liveLevel /\ op[o].pc = "record"
    BY <1>4, <1>5, <1>14 DEF Answers
  <2>2. CASE op[o].outcome = "succeeded"
    <3>1. Answering(o)
      BY <1>1, <2>1, <2>2 DEF AnswerInv, Answering
    <3>2. op[o].kind = "activate" /\ op[o].level = liveLevel
      BY <1>3, <3>1 DEF LevelInv
    <3>3. op'[o].pc = "readLevel" /\ op'[o].kind = "activate" /\ op'[o].level = liveLevel
      BY <1>14, <2>2, <3>2, SMTT(30) DEF Answers, Kept
    <3>4. QED
      BY <2>1, <3>3 DEF LevelInv, Settled, Answering
  <2>3. CASE op[o].outcome # "succeeded"
    <3>1. op'[o].pc = "idle" /\ Settled(o)
      BY <1>1, <1>14, <2>1, <2>3, SMTT(30) DEF Answers, Idle, AnswerInv, Settled, Answering
    <3>2. QED
      BY <1>3, <2>1, <3>1, SMTT(30) DEF LevelInv, Settled, Answering
  <2>4. QED
    BY <2>2, <2>3
<1>15. CASE SetsLevel(o)
  <2>1. active' = active
    BY <1>4, <1>15 DEF SetsLevel
  <2>2. CASE op[o].pc = "readLevel"
    <3>1. liveLevel' = liveLevel /\ op[o].level = liveLevel
      BY <1>3, <1>5, <2>2, SMTT(30) DEF LevelInv
    <3>2. \/ LevelOf[active.config] = op[o].level /\ op'[o].pc = "idle"
          \/ op'[o].pc = "applyLevel" /\ op'[o].level = LevelOf[active.config]
      BY <1>15, <2>2 DEF SetsLevel, Idle
    <3>3. QED
      BY <2>1, <3>1, <3>2, SMTT(30) DEF LevelInv, Settled, Answering
  <2>3. CASE op[o].pc = "applyLevel"
    <3>1. op'[o].pc = "idle" /\ liveLevel' = LevelOf[active.config]
      BY <1>3, <1>15, <2>3, SMTT(30) DEF SetsLevel, Idle, LevelInv
    <3>2. QED
      BY <2>1, <3>1, SMTT(30) DEF LevelInv, Settled, Answering
  <2>4. QED
    BY <1>15, <2>2, <2>3 DEF SetsLevel
<1>16. QED
  BY <1>2, <1>6, <1>7, <1>8, <1>9, <1>10, <1>11, <1>12, <1>13, <1>14, <1>15, SMTT(30) DEF Moves

LEMMA LInvInit == Init => LInv
<1> SUFFICES ASSUME Init PROVE LInv
  OBVIOUS
<1>1. AInv
  BY AInvInit
<1>2. \A o \in Operators : op[o].pc = "idle"
  BY DEF Init, Idle
<1>3. liveLevel = LevelOf[active.config]
  BY DEF Init, BootBundle
<1>4. QED
  BY <1>1, <1>2, <1>3, SMTT(30) DEF LInv, LevelInv, Settled, Answering

LEMMA LInvStep ==
  ASSUME OneHandler
  PROVE  LInv /\ [Next]_vars => LInv'
<1> SUFFICES ASSUME LInv, [Next]_vars PROVE LInv'
  OBVIOUS
<1>1. PICK o \in Operators : Operators = {o}
  BY DEF OneHandler
<1>2. AInv'
  BY AInvStep DEF LInv
<1>3. OnlyActivations' => LevelInv(o)'
  BY <1>1, LevelStep, SMTT(30)
<1>4. QED
  BY <1>1, <1>2, <1>3 DEF LInv

(* With requests one at a time and no rollback committed, the process logs *)
(* at the active generation's level whenever no request is in flight.      *)
THEOREM GenerationLevelFollows == ASSUME OneHandler PROVE Spec => []LevelFollowsActivations
<1>1. LInv => LevelFollowsActivations
  <2> SUFFICES ASSUME LInv, \A o \in Operators : op[o].pc = "idle", OnlyActivations
               PROVE  liveLevel = LevelOf[active.config]
    BY DEF LevelFollowsActivations, OnlyActivations
  <2>1. PICK o \in Operators : Operators = {o}
    BY DEF OneHandler
  <2>2. Settled(o) /\ LevelInv(o)
    BY <2>1 DEF LInv, Settled, Answering
  <2>3. QED
    BY <2>2 DEF LevelInv
<1>2. QED
  BY <1>1, LInvInit, LInvStep, PTL DEF Spec
===============================================================================
