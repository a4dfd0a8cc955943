----------------------- MODULE GenerationRecordsProofs -----------------------
(***************************************************************************)
(* What the generation handle remembers: the retained generations, the     *)
(* configs rollbacks bring back, the operation log and the background      *)
(* tasks, for any number of concurrent handlers and any bounds.            *)
(***************************************************************************)
EXTENDS RuntimeGenerationProofs

-------------------------------------------------------------------------------
(* The bounded lists, element by element.                                  *)

(* push_front and trim: the new element, then the old ones in order, up to *)
(* the bound.                                                              *)
LEMMA PushBoundedElements ==
  ASSUME NEW S, NEW x \in S, NEW s \in Seq(S), NEW max \in Nat \ {0},
         NEW p, p = PushBounded(x, s, max)
  PROVE  /\ Len(p) = IF Len(s) + 1 > max THEN max ELSE Len(s) + 1
         /\ p[1] = x
         /\ \A i \in 2..Len(p) : i - 1 \in 1..Len(s) /\ p[i] = s[i - 1]
<1> DEFINE all == <<x>> \o s
<1>1. /\ all \in Seq(S) /\ Len(all) = Len(s) + 1 /\ all[1] = x
      /\ \A i \in 2..Len(all) : all[i] = s[i - 1]
  OBVIOUS
<1>2. p = IF Len(all) > max THEN SubSeq(all, 1, max) ELSE all
  BY DEF PushBounded
<1> HIDE DEF all
<1>3. CASE Len(all) > max
  <2>1. \A i \in 1..Len(all) : all[i] \in S
    BY <1>1
  <2>2. /\ SubSeq(all, 1, max) \in Seq(S) /\ Len(SubSeq(all, 1, max)) = max
        /\ \A i \in 1..max : SubSeq(all, 1, max)[i] = all[i]
    BY <1>1, <1>3, <2>1, SubSeqProperties
  <2>3. QED
    BY <1>1, <1>2, <1>3, <2>2
<1>4. CASE ~(Len(all) > max)
  BY <1>1, <1>2, <1>4
<1>5. QED
  BY <1>3, <1>4

(* retain: when at most one record has number g, the others stay in order  *)
(* and g is gone.                                                          *)
LEMMA RetainElements ==
  ASSUME NEW h \in Seq(Record), NEW g,
         \A i, j \in DOMAIN h : i # j => h[i].gen # h[j].gen
  PROVE  \/ /\ Retain(h, g) = h
            /\ \A i \in 1..Len(h) : h[i].gen # g
         \/ \E k \in 1..Len(h) :
              /\ h[k].gen = g
              /\ Len(Retain(h, g)) = Len(h) - 1
              /\ \A i \in 1..(Len(h) - 1) :
                   Retain(h, g)[i] = IF i < k THEN h[i] ELSE h[i + 1]
<1>1. CASE \E i \in DOMAIN h : h[i].gen = g
  <2> DEFINE k == CHOOSE j \in DOMAIN h : h[j].gen = g
  <2>1. k \in 1..Len(h) /\ h[k].gen = g
    BY <1>1
  <2>2. Retain(h, g) = SubSeq(h, 1, k - 1) \o SubSeq(h, k + 1, Len(h))
    BY <1>1, ZenonT(30) DEF Retain
  <2> HIDE DEF k
  <2> DEFINE a == SubSeq(h, 1, k - 1)
             b == SubSeq(h, k + 1, Len(h))
  <2>3. \A j \in 1..Len(h) : h[j] \in Record
    OBVIOUS
  <2>4. /\ a \in Seq(Record) /\ Len(a) = k - 1 /\ \A i \in 1..(k - 1) : a[i] = h[i]
    <3>1. \A i \in 1..(k - 1) : h[i] \in Record
      BY <2>1, <2>3
    <3>2. QED
      BY <2>1, <3>1, SubSeqProperties
  <2>5. /\ b \in Seq(Record) /\ Len(b) = Len(h) - k
        /\ \A i \in 1..(Len(h) - k) : b[i] = h[k + i]
    <3>1. \A i \in (k + 1)..Len(h) : h[i] \in Record
      BY <2>1, <2>3
    <3>2. QED
      BY <2>1, <3>1, SubSeqProperties
  <2> HIDE DEF a, b
  <2>6. /\ Len(a \o b) = Len(a) + Len(b)
        /\ \A i \in 1..(Len(a) + Len(b)) :
             (a \o b)[i] = IF i <= Len(a) THEN a[i] ELSE b[i - Len(a)]
    <3>1. a \in Seq(Record) /\ b \in Seq(Record)
      BY <2>4, <2>5
    <3>2. QED
      BY <3>1, ConcatProperties, Zenon
  <2>7. /\ Len(a \o b) = Len(h) - 1
        /\ \A i \in 1..(Len(h) - 1) : (a \o b)[i] = IF i < k THEN h[i] ELSE h[i + 1]
    BY <2>1, <2>4, <2>5, <2>6, SMTT(30)
  <2>8. QED
    BY <2>1, <2>2, <2>7, ZenonT(30) DEF a, b
<1>2. CASE ~ \E i \in DOMAIN h : h[i].gen = g
  BY <1>2 DEF Retain
<1>3. QED
  BY <1>1, <1>2
-------------------------------------------------------------------------------
(* RecordsFaithful, as a predicate of a list and of its records.           *)
RecordOK(r) ==
    /\ IsRollbackCandidate(r) <=> r.bundle # None
    /\ r.bundle # None => /\ r.bundle.gen = r.gen
                          /\ r.gen < active.gen
                          /\ r.bundle.config = ConfigOf(r.gen)

ListOK(h) ==
    /\ \A i, j \in 1..Len(h) : i # j => h[i].gen # h[j].gen
    /\ \A i, j \in 1..Len(h) : i # j => ~(h[i].status = "Previous" /\ h[j].status = "Previous")
    /\ \A i \in 1..Len(h) : RecordOK(h[i])

(* The run's invariant, in the form the list lemmas use.                   *)
LEMMA FaithfulIsListOK ==
  ASSUME TypeOK
  PROVE  RecordsFaithful <=> Len(history) <= MaxArchived /\ ListOK(history)
<1>1. DOMAIN history = 1..Len(history)
  BY DEF TypeOK
<1>2. \A i, j \in 1..Len(history) :
        {history[i].status, history[j].status} # {"Previous"}
          <=> ~(history[i].status = "Previous" /\ history[j].status = "Previous")
  <2>1. ASSUME NEW a, NEW b PROVE {a, b} # {"Previous"} <=> ~(a = "Previous" /\ b = "Previous")
    OBVIOUS
  <2>2. QED
    BY <2>1, ZenonT(30)
<1>3. (\A i, j \in 1..Len(history) :
          i # j => /\ history[i].gen # history[j].gen
                   /\ {history[i].status, history[j].status} # {"Previous"})
      <=> /\ \A i, j \in 1..Len(history) : i # j => history[i].gen # history[j].gen
          /\ \A i, j \in 1..Len(history) :
               i # j => ~(history[i].status = "Previous" /\ history[j].status = "Previous")
  BY <1>2, Zenon
<1>4. QED
  BY <1>1, <1>3, Zenon DEF RecordsFaithful, ListOK, RecordOK

(* The same after a step, in the direction the step needs.                 *)
LEMMA ListOKIsFaithful ==
  ASSUME TypeOK', Len(history') <= MaxArchived, ListOK(history)'
  PROVE  RecordsFaithful'
<1>1. DOMAIN history' = 1..Len(history')
  BY DEF TypeOK
<1>2. \A i, j \in 1..Len(history') :
        ~(history'[i].status = "Previous" /\ history'[j].status = "Previous")
          => {history'[i].status, history'[j].status} # {"Previous"}
  <2>1. ASSUME NEW a, NEW b, {a, b} = {"Previous"} PROVE a = "Previous" /\ b = "Previous"
    BY <2>1
  <2>2. QED
    BY <2>1, ZenonT(30)
<1>3. \A i, j \in 1..Len(history') :
        i # j => /\ history'[i].gen # history'[j].gen
                 /\ {history'[i].status, history'[j].status} # {"Previous"}
  BY <1>2, Zenon DEF ListOK
<1>4. QED
  BY <1>1, <1>3, Zenon DEF RecordsFaithful, ListOK, RecordOK

(* Demotion: the list stays faithful and loses its Previous.               *)
LEMMA SupersedeOK ==
  ASSUME NEW h \in Seq(Record), ListOK(h)
  PROVE  /\ ListOK(Supersede(h)) /\ Len(Supersede(h)) = Len(h)
         /\ \A i \in 1..Len(h) : /\ Supersede(h)[i].status # "Previous"
                                 /\ Supersede(h)[i].gen = h[i].gen
                                 /\ Bearing(Supersede(h)[i]) <=> Bearing(h[i])
<1>1. DOMAIN h = 1..Len(h) /\ Len(h) \in Nat
  OBVIOUS
<1>2. Supersede(h) \in Seq(Record) /\ Len(Supersede(h)) = Len(h)
  <2>1. Supersede(h) \in Seq(Record) /\ DOMAIN Supersede(h) = 1..Len(h)
    BY <1>1, SupersedeType, ZenonT(30) DEF Supersede
  <2>2. QED
    BY <1>1, <2>1
<1>3. ASSUME NEW i \in 1..Len(h)
      PROVE  /\ Supersede(h)[i].status # "Previous"
             /\ IsRollbackCandidate(Supersede(h)[i]) <=> IsRollbackCandidate(h[i])
             /\ Supersede(h)[i].gen = h[i].gen
             /\ Supersede(h)[i].bundle = h[i].bundle
  <2>1. h[i] \in Record
    OBVIOUS
  <2>2. Supersede(h)[i] = IF h[i].status = "Previous"
                          THEN [h[i] EXCEPT !.status = "Superseded"] ELSE h[i]
    BY <1>1 DEF Supersede
  <2>3. QED
    BY <2>1, <2>2 DEF Record, IsRollbackCandidate
<1>4. \A i \in 1..Len(h) : RecordOK(Supersede(h)[i])
  BY <1>3 DEF ListOK, RecordOK
<1>5. QED
  BY <1>2, <1>3, <1>4 DEF ListOK, Bearing

(* retain: the list stays faithful, without number g.                      *)
LEMMA RetainOK ==
  ASSUME NEW h \in Seq(Record), ListOK(h), NEW g
  PROVE  /\ ListOK(Retain(h, g)) /\ Len(Retain(h, g)) <= Len(h)
         /\ \A i \in 1..Len(Retain(h, g)) :
              /\ Retain(h, g)[i].gen # g
              /\ \E j \in 1..Len(h) : Retain(h, g)[i] = h[j]
<1>1. DOMAIN h = 1..Len(h) /\ Len(h) \in Nat
  OBVIOUS
<1>2. \A i, j \in DOMAIN h : i # j => h[i].gen # h[j].gen
  BY <1>1 DEF ListOK
<1> DEFINE r == Retain(h, g)
<1> HIDE DEF r
<1>3. CASE r = h /\ \A i \in 1..Len(h) : h[i].gen # g
  BY <1>1, <1>3 DEF r
<1>4. ASSUME NEW k \in 1..Len(h), h[k].gen = g, Len(r) = Len(h) - 1,
             \A i \in 1..(Len(h) - 1) : r[i] = IF i < k THEN h[i] ELSE h[i + 1]
      PROVE  /\ ListOK(r) /\ Len(r) <= Len(h)
             /\ \A i \in 1..Len(r) : r[i].gen # g /\ \E j \in 1..Len(h) : r[i] = h[j]
  <2> DEFINE f(i) == IF i < k THEN i ELSE i + 1
  <2>1. ASSUME NEW i \in 1..Len(r)
        PROVE  f(i) \in 1..Len(h) /\ f(i) # k /\ r[i] = h[f(i)]
    BY <1>1, <1>4
  <2>2. ASSUME NEW i \in 1..Len(r), NEW j \in 1..Len(r), i # j PROVE f(i) # f(j)
    BY <1>1, <1>4, <2>2
  <2> HIDE DEF f
  <2>3. Len(r) <= Len(h)
    BY <1>1, <1>4
  <2>4. ASSUME NEW i \in 1..Len(r), NEW j \in 1..Len(r), i # j
        PROVE  r[i].gen # r[j].gen /\ ~(r[i].status = "Previous" /\ r[j].status = "Previous")
    BY <2>1, <2>2, <2>4, ZenonT(30) DEF ListOK
  <2>5. ASSUME NEW i \in 1..Len(r)
        PROVE  RecordOK(r[i]) /\ r[i].gen # g /\ \E j \in 1..Len(h) : r[i] = h[j]
    BY <1>4, <2>1 DEF ListOK
  <2>6. QED
    BY <2>3, <2>4, <2>5 DEF ListOK
<1>5. QED
  BY <1>2, <1>3, <1>4, RetainElements DEF r

(* push_front and trim of a faithful record with a new number.             *)
LEMMA PushOK ==
  ASSUME NEW x \in Record, NEW h \in Seq(Record), ListOK(h), RecordOK(x),
         \A i \in 1..Len(h) : h[i].gen # x.gen,
         x.status = "Previous" => \A i \in 1..Len(h) : h[i].status # "Previous"
  PROVE  /\ ListOK(PushBounded(x, h, MaxArchived))
         /\ Len(PushBounded(x, h, MaxArchived)) <= MaxArchived
<1> DEFINE p == PushBounded(x, h, MaxArchived)
<1> HIDE DEF p
<1>1. /\ Len(p) = IF Len(h) + 1 > MaxArchived THEN MaxArchived ELSE Len(h) + 1
      /\ p[1] = x
      /\ \A i \in 2..Len(p) : i - 1 \in 1..Len(h) /\ p[i] = h[i - 1]
  <2>1. MaxArchived \in Nat \ {0}
    BY BoundAssumption
  <2>2. p = PushBounded(x, h, MaxArchived)
    BY DEF p
  <2>3. QED
    BY <2>1, <2>2, PushBoundedElements, SMTT(30)
<1>2. MaxArchived \in Nat \ {0} /\ Len(h) \in Nat /\ Len(p) \in Nat
  BY <1>1, BoundAssumption
<1>3. Len(p) <= MaxArchived
  BY <1>1, <1>2
<1>4. ASSUME NEW i \in 1..Len(p)
      PROVE  \/ i = 1 /\ p[i] = x
             \/ i # 1 /\ i - 1 \in 1..Len(h) /\ p[i] = h[i - 1]
  BY <1>1, <1>2
<1>5. ASSUME NEW i \in 1..Len(p), NEW j \in 1..Len(p), i # j
      PROVE  p[i].gen # p[j].gen /\ ~(p[i].status = "Previous" /\ p[j].status = "Previous")
  <2>1. CASE i = 1
    BY <1>4, <1>5, <2>1
  <2>2. CASE j = 1
    BY <1>4, <1>5, <2>2, SMTT(30)
  <2>3. CASE i # 1 /\ j # 1
    <3>1. i - 1 # j - 1
      BY <1>2, <1>5
    <3>2. QED
      BY <1>4, <2>3, <3>1, SMTT(30) DEF ListOK
  <2>4. QED
    BY <2>1, <2>2, <2>3
<1>6. ASSUME NEW i \in 1..Len(p) PROVE RecordOK(p[i])
  BY <1>4 DEF ListOK
<1>7. QED
  BY <1>3, <1>5, <1>6 DEF ListOK, p
-------------------------------------------------------------------------------
(* What one step of the system does to one handler.                        *)
Kept(o) ==
    /\ op'[o].kind = op[o].kind /\ op'[o].target = op[o].target
    /\ op'[o].next = op[o].next /\ op'[o].prev = op[o].prev
    /\ op'[o].level = op[o].level

MovesTo(o, from, to) == op[o].pc = from /\ op'[o].pc = to /\ Kept(o)

Arrives(o) ==
    /\ op[o].pc = "idle" /\ op'[o].pc \in {"begin", "stage"}
    /\ op'[o].prev = None
    /\ op'[o].kind = "activate" => op'[o].level = LevelOf[active.config]

Stages(o) ==
    /\ op[o].pc = "stage" /\ op'[o].pc = "planned"
    /\ op'[o].kind = op[o].kind /\ op'[o].prev = op[o].prev /\ op'[o].level = op[o].level

Finds(o) ==
    /\ op[o].pc = "lookup" /\ op'[o].pc = "planned" /\ UsableTarget(o)
    /\ op'[o].kind = op[o].kind /\ op'[o].prev = op[o].prev /\ op'[o].level = op[o].level
    /\ op'[o].target = op[o].target
    /\ op'[o].next.config = GenerationRecord(op[o].target).bundle.config

Refused(o) ==
    /\ op[o].pc \in {"begin", "lookup", "planned", "gate", "swap"} /\ op'[o].pc = "record"
    /\ Kept(o) /\ op'[o].outcome # "succeeded"

Installs(o) ==
    /\ op[o].pc = "swap" /\ op'[o].pc = "archive"
    /\ InstallNext(o) /\ active.gen = op[o].view.gen
    /\ op'[o].kind = op[o].kind /\ op'[o].next = op[o].next
    /\ op'[o].prev = active /\ op'[o].level = op[o].level

Answers(o) ==
    /\ op[o].pc = "record" /\ RecordResult(o)
    /\ IF op[o].kind = "activate" /\ op[o].outcome = "succeeded"
       THEN op'[o].pc = "readLevel" /\ Kept(o)
       ELSE op'[o] = Idle

SetsLevel(o) ==
    \/ /\ op[o].pc = "readLevel"
       /\ IF LevelOf[active.config] = op[o].level
          THEN op'[o] = Idle
          ELSE op'[o].pc = "applyLevel" /\ op'[o].level = LevelOf[active.config]
    \/ op[o].pc = "applyLevel" /\ op'[o] = Idle /\ liveLevel' = op[o].level

Moves(o) ==
    \/ op'[o] = op[o]
    \/ Arrives(o) \/ MovesTo(o, "begin", "stage") \/ MovesTo(o, "begin", "lookup")
    \/ Stages(o) \/ Finds(o) \/ Refused(o)
    \/ MovesTo(o, "planned", "gate") \/ MovesTo(o, "gate", "swap") \/ Installs(o)
    \/ MovesTo(o, "archive", "retire")
    \/ MovesTo(o, "retire", "record") /\ op'[o].outcome = "succeeded"
    \/ Answers(o) \/ SetsLevel(o)

(* The two ways a handler moves on by its program counter only.            *)
LEMMA StepMovesTo ==
  ASSUME TypeOK, NEW o \in Operators, NEW from, NEW to, Step(o, from, to)
  PROVE  MovesTo(o, from, to) /\ \A p \in Operators \ {o} : op'[p] = op[p]
  BY DEF TypeOK, Handler, Step, MovesTo, Kept

LEMMA ConcludeRefuses ==
  ASSUME TypeOK, NEW o \in Operators, NEW outcome, outcome # "succeeded",
         NEW from \in {"begin", "lookup", "planned", "gate", "swap"}, Conclude(o, from, outcome)
  PROVE  Refused(o) /\ \A p \in Operators \ {o} : op'[p] = op[p]
  BY DEF TypeOK, Handler, Conclude, Refused, Kept

(* Every action of a handler is one of the moves above and moves no other  *)
(* handler.                                                                *)
LEMMA StepMoves ==
  ASSUME TypeOK, NEW o \in Operators, Request(o) \/ RequestRollback(o) \/ Handle(o)
  PROVE  Moves(o) /\ \A p \in Operators \ {o} : op'[p] = op[p]
<1>1. op[o] \in Handler /\ op \in [Operators -> Handler]
  BY DEF TypeOK
<1> USE DEF Handler
<1>2. CASE Request(o)
  <2>1. PICK k \in Kinds \ {"rollback"} :
          op' = [op EXCEPT ![o] =
                  [Idle EXCEPT !.pc = IF k = "plan" THEN "stage" ELSE "begin",
                               !.kind = k, !.expected = active.gen,
                               !.level = LevelOf[active.config]]]
    BY <1>2, ZenonT(30) DEF Request
  <2>2. /\ op'[o].pc \in {"begin", "stage"} /\ op'[o].prev = None
        /\ op'[o].level = LevelOf[active.config]
    BY <1>1, <2>1 DEF Idle
  <2>3. op[o].pc = "idle" /\ \A p \in Operators \ {o} : op'[p] = op[p]
    BY <1>1, <1>2, <2>1, ZenonT(30) DEF Request
  <2>4. QED
    BY <2>2, <2>3 DEF Moves, Arrives
<1>3. CASE RequestRollback(o)
  <2>1. PICK t \in 0..(active.gen + 1), e \in {active.gen, None} :
          op' = [op EXCEPT ![o] =
                  [Idle EXCEPT !.pc = "begin", !.kind = "rollback",
                               !.expected = e, !.target = t]]
    BY <1>3, ZenonT(30) DEF RequestRollback
  <2>2. op'[o].pc = "begin" /\ op'[o].prev = None /\ op'[o].kind = "rollback"
    BY <1>1, <2>1 DEF Idle
  <2>3. op[o].pc = "idle" /\ \A p \in Operators \ {o} : op'[p] = op[p]
    BY <1>1, <1>3, <2>1, ZenonT(30) DEF RequestRollback
  <2>4. QED
    BY <2>2, <2>3 DEF Moves, Arrives
<1>4. CASE ActivateBegin(o)
  BY <1>4, StepMovesTo, ConcludeRefuses DEF ActivateBegin, Moves
<1>5. CASE StageReload(o)
  BY <1>1, <1>5 DEF StageReload, Moves, Stages
<1>6. CASE RollbackBegin(o)
  <2>1. op[o].pc = "begin"
    BY <1>6 DEF RollbackBegin
  <2>2. CASE op' = [op EXCEPT ![o] = [@ EXCEPT !.pc = "record", !.view = active,
                                               !.outcome = "rejected"]]
    BY <1>1, <2>1, <2>2 DEF Moves, Refused, Kept
  <2>3. CASE op' = [op EXCEPT ![o] = [@ EXCEPT !.pc = "lookup", !.view = active]]
    BY <1>1, <2>1, <2>3 DEF Moves, MovesTo, Kept
  <2>4. QED
    BY <1>6, <2>2, <2>3, ZenonT(30) DEF RollbackBegin
<1>7. CASE RollbackLookup(o)
  <2> DEFINE r == GenerationRecord(op[o].target)
             nxt == [gen |-> op[o].view.gen + 1, config |-> r.bundle.config, by |-> o]
  <2>1. op[o].pc = "lookup"
    BY <1>7 DEF RollbackLookup
  <2>2. CASE UsableTarget(o)
    <3>1. op' = [op EXCEPT ![o] = [@ EXCEPT !.pc = "planned", !.next = nxt]]
      BY <1>7, <2>2 DEF RollbackLookup
    <3>2. nxt.config = r.bundle.config
      OBVIOUS
    <3> HIDE DEF nxt
    <3>3. QED
      BY <1>1, <2>1, <2>2, <3>1, <3>2 DEF Moves, Finds
  <2>3. CASE ~UsableTarget(o)
    BY <1>1, <1>7, <2>1, <2>3 DEF RollbackLookup, Moves, Refused, Kept
  <2>4. QED
    BY <2>2, <2>3
<1>8. CASE PlanOnly(o) \/ PlanRejected(o) \/ PlanPrepareFailed(o)
  BY <1>8, ConcludeRefuses DEF PlanOnly, PlanRejected, PlanPrepareFailed, Moves
<1>9. CASE PlanAccepted(o)
  BY <1>9, StepMovesTo, ConcludeRefuses DEF PlanAccepted, Moves
<1>10. CASE ReplaceGate(o)
  BY <1>10, StepMovesTo, ConcludeRefuses DEF ReplaceGate, Moves
<1>11. CASE ReplaceSwap(o)
  <2>1. CASE active.gen = op[o].view.gen
    <3>1. InstallNext(o) /\ op[o].pc = "swap"
      BY <1>11, <2>1 DEF ReplaceSwap
    <3>2. op' = [op EXCEPT ![o] = [@ EXCEPT !.pc = "archive", !.prev = active]]
      BY <3>1 DEF InstallNext
    <3>3. Installs(o) /\ \A p \in Operators \ {o} : op'[p] = op[p]
      BY <1>1, <2>1, <3>1, <3>2, SMTT(30) DEF Installs
    <3>4. QED
      BY <3>3 DEF Moves
  <2>2. CASE active.gen # op[o].view.gen
    BY <1>11, <2>2, ConcludeRefuses DEF ReplaceSwap, Moves
  <2>3. QED
    BY <2>1, <2>2
<1>12. CASE ReplaceArchive(o)
  BY <1>12, StepMovesTo DEF ReplaceArchive, Moves
<1>13. CASE ReplaceRetire(o)
  BY <1>1, <1>13 DEF ReplaceRetire, Conclude, Moves, MovesTo, Kept
<1>14. CASE RecordResult(o)
  <2>1. op[o].pc = "record"
    BY <1>14 DEF RecordResult
  <2>2. op' = [op EXCEPT ![o] = IF op[o].kind = "activate" /\ op[o].outcome = "succeeded"
                                THEN [@ EXCEPT !.pc = "readLevel"] ELSE Idle]
    BY <1>14 DEF RecordResult
  <2>3. Answers(o) /\ \A p \in Operators \ {o} : op'[p] = op[p]
    BY <1>1, <1>14, <2>1, <2>2 DEF Answers, Kept
  <2>4. QED
    BY <2>3 DEF Moves
<1>15. CASE ReadLevel(o)
  BY <1>1, <1>15 DEF ReadLevel, Moves, SetsLevel
<1>16. CASE ApplyLevel(o)
  BY <1>1, <1>16 DEF ApplyLevel, Moves, SetsLevel
<1>17. QED
  BY <1>2, <1>3, <1>4, <1>5, <1>6, <1>7, <1>8, <1>9, <1>10, <1>11, <1>12, <1>13, SMTT(30),
     <1>14, <1>15, <1>16 DEF Handle

LEMMA AllMove ==
  ASSUME TypeOK, [Next]_vars, NEW o \in Operators
  PROVE  Moves(o)
<1>1. CASE Lifecycle \/ UNCHANGED vars
  BY <1>1 DEF Lifecycle, vars, Moves
<1>2. ASSUME NEW p \in Operators, Request(p) \/ RequestRollback(p) \/ Handle(p)
      PROVE  Moves(o)
  <2>1. CASE o = p
    BY <1>2, <2>1, StepMoves
  <2>2. CASE o # p
    <3>1. op'[o] = op[o]
      BY <1>2, <2>2, StepMoves
    <3>2. QED
      BY <3>1 DEF Moves
  <2>3. QED
    BY <2>1, <2>2
<1>3. QED
  BY <1>1, <1>2 DEF Next

(* Who writes the retained list, and how.                                  *)
LEMMA HistoryWriters ==
  ASSUME [Next]_vars
  PROVE  \/ history' = history
         \/ \E o \in Operators : PlanPrepareFailed(o) \/ ReplaceArchive(o)
<1>1. ASSUME NEW o \in Operators, Request(o) \/ RequestRollback(o)
      PROVE  history' = history
  BY <1>1, ZenonT(30) DEF Request, RequestRollback
<1>2. ASSUME NEW o \in Operators, Handle(o), ~PlanPrepareFailed(o), ~ReplaceArchive(o)
      PROVE  history' = history
  BY <1>2, ZenonT(30)
     DEF Handle, ActivateBegin, StageReload, RollbackBegin, RollbackLookup, PlanOnly,
         PlanRejected, PlanAccepted, ReplaceGate, ReplaceSwap, ReplaceRetire,
         RecordResult, ReadLevel, ApplyLevel
<1>3. CASE Lifecycle \/ UNCHANGED vars
  BY <1>3 DEF Lifecycle, vars
<1>4. QED
  BY <1>1, <1>2, <1>3 DEF Next

(* Only the answer of a request is logged.                                 *)
LEMMA EntriesWriters ==
  ASSUME [Next]_vars
  PROVE  entries' = entries \/ \E o \in Operators : RecordResult(o)
<1>1. ASSUME NEW o \in Operators, Request(o) \/ RequestRollback(o)
      PROVE  entries' = entries
  BY <1>1, ZenonT(30) DEF Request, RequestRollback
<1>2. ASSUME NEW o \in Operators, Handle(o), ~RecordResult(o)
      PROVE  entries' = entries
  BY <1>2, ZenonT(30)
     DEF Handle, ActivateBegin, StageReload, RollbackBegin, RollbackLookup, PlanOnly,
         PlanRejected, PlanPrepareFailed, PlanAccepted, ReplaceGate, ReplaceSwap,
         ReplaceArchive, ReplaceRetire, ReadLevel, ApplyLevel
<1>3. CASE Lifecycle \/ UNCHANGED vars
  BY <1>3 DEF Lifecycle, vars
<1>4. QED
  BY <1>1, <1>2, <1>3 DEF Next

-------------------------------------------------------------------------------
(* Commits, as the lists below see them.                                   *)
Committed(o) ==
    /\ op[o].pc = "swap" /\ active' = op[o].next /\ active'.gen = active.gen + 1
    /\ DOMAIN commits' = 1..(active.gen + 1)
    /\ \A g \in 1..active.gen : commits'[g] = commits[g]
    /\ commits'[active.gen + 1].kind = op[o].kind
    /\ commits'[active.gen + 1].target = op[o].target
    /\ commits'[active.gen + 1].config = op[o].next.config

(* The commits are numbered 1 up to the active generation.                 *)
LEMMA CommitNumbers ==
  ASSUME IInv
  PROVE  active.gen \in Nat /\ DOMAIN commits = 1..active.gen
  BY DEF IInv, TypeOK, Bundle, GenerationsDense

(* A swap that passes its comparison appends the next commit.              *)
LEMMA SwapIsCommitted ==
  ASSUME IInv, NEW o \in Operators, op[o].pc = "swap", InstallNext(o),
         active.gen = op[o].view.gen
  PROVE  Committed(o)
<1> DEFINE c == [kind |-> op[o].kind, expected |-> op[o].expected,
                 from |-> active.gen, config |-> op[o].next.config,
                 target |-> op[o].target, phase |-> phase]
<1>1. commits \in Seq(Commit) /\ commits' = Append(commits, c) /\ active' = op[o].next
  BY DEF IInv, TypeOK, InstallNext
<1>2. c.kind = op[o].kind /\ c.target = op[o].target /\ c.config = op[o].next.config
  OBVIOUS
<1>3. op[o].next.gen = active.gen + 1 /\ Len(commits) = active.gen /\ active.gen \in Nat
  BY DEF IInv, HandlerInv, ViewInv, HasNext, GenerationsDense, TypeOK, Bundle
<1> HIDE DEF c
<1>4. /\ DOMAIN commits' = 1..(active.gen + 1)
      /\ \A g \in 1..active.gen : commits'[g] = commits[g]
      /\ commits'[active.gen + 1] = c
  BY <1>1, <1>3
<1>5. QED
  BY <1>1, <1>2, <1>3, <1>4 DEF Committed

LEMMA CommitStep ==
  ASSUME IInv, [Next]_vars
  PROVE  \/ active' = active /\ commits' = commits
         \/ \E o \in Operators : Committed(o) /\ InstallNext(o)
  BY OnlySwapInstalls, SwapIsCommitted

(* A handler that commits moves alone, and the log stands still.           *)
LEMMA InstallAlone ==
  ASSUME IInv, NEW o \in Operators, op[o].pc = "swap", InstallNext(o), Committed(o), [Next]_vars
  PROVE  /\ \A p \in Operators \ {o} : op'[p] = op[p]
         /\ op'[o].pc = "archive" /\ op'[o].prev = active /\ op'[o].kind = op[o].kind
         /\ op'[o].next = op[o].next
         /\ op[o].next.gen = active.gen + 1
         /\ entries' = entries /\ active # None
<1>1. op \in [Operators -> Handler] /\ active \in Bundle
  BY DEF IInv, TypeOK
<1>2. op' = [op EXCEPT ![o] = [@ EXCEPT !.pc = "archive", !.prev = active]]
  BY DEF InstallNext
<1>3. /\ \A p \in Operators \ {o} : op'[p] = op[p]
      /\ op'[o].pc = "archive" /\ op'[o].prev = active /\ op'[o].kind = op[o].kind
      /\ op'[o].next = op[o].next
  BY <1>1, <1>2 DEF Handler
<1>4. active # None
  BY <1>1, NoneAssumption
<1>5. op[o].next.gen = active.gen + 1 /\ active'.gen = active.gen + 1
  BY DEF Committed
<1>6. ASSUME NEW p \in Operators, RecordResult(p) PROVE FALSE
  BY <1>1, <1>5, <1>6 DEF RecordResult, Bundle
<1>7. QED
  BY <1>3, <1>4, <1>5, <1>6, EntriesWriters

(* A commit changes no earlier one.                                        *)
LEMMA ConfigOfStable ==
  ASSUME IInv, [Next]_vars
  PROVE  /\ active.gen \in Nat /\ active'.gen \in Nat /\ active.gen <= active'.gen
         /\ \A g \in 0..active.gen : ConfigOf(g)' = ConfigOf(g)
<1>1. active.gen \in Nat /\ DOMAIN commits = 1..active.gen
  BY CommitNumbers
<1>2. CASE active' = active /\ commits' = commits
  BY <1>1, <1>2 DEF ConfigOf
<1>3. ASSUME NEW o \in Operators, Committed(o)
      PROVE  /\ active.gen \in Nat /\ active'.gen \in Nat /\ active.gen <= active'.gen
             /\ \A g \in 0..active.gen : ConfigOf(g)' = ConfigOf(g)
  BY <1>1, <1>3 DEF Committed, ConfigOf
<1>4. QED
  BY <1>2, <1>3, CommitStep

-------------------------------------------------------------------------------
(* Retained generations and rollbacks.                                     *)

(* A rollback's candidate has the config of its target, an older           *)
(* generation; a replaced bundle has the config of its number.             *)
RestoreInv(o) ==
    /\ (HasNext(o) /\ op[o].kind = "rollback") =>
         /\ op[o].target \in Nat /\ op[o].target < active.gen
         /\ op[o].next.config = ConfigOf(op[o].target)
    /\ Replaced(o) => op[o].prev.config = ConfigOf(op[o].prev.gen)

RInv ==
    /\ IInv /\ RecordsFaithful /\ RollbackRestoresConfig
    /\ \A g \in DOMAIN commits : commits[g].kind = "rollback" => commits[g].target \in Nat
    /\ active.config = ConfigOf(active.gen)
    /\ \A o \in Operators : RestoreInv(o)

(* The active bundle has the config committed under its number.            *)
LEMMA ActiveFaithfulStep ==
  ASSUME RInv, [Next]_vars
  PROVE  (active.config = ConfigOf(active.gen))'
<1>1. IInv /\ active.gen \in Nat /\ active.config = ConfigOf(active.gen)
  BY CommitNumbers DEF RInv
<1>2. CASE active' = active /\ commits' = commits
  BY <1>1, <1>2 DEF ConfigOf
<1>3. ASSUME NEW o \in Operators, Committed(o) PROVE (active.config = ConfigOf(active.gen))'
  BY <1>1, <1>3 DEF Committed, ConfigOf
<1>4. QED
  BY <1>1, <1>2, <1>3, CommitStep

(* A commit takes the config its rollback's candidate had.                 *)
LEMMA RollbackRestoresStep ==
  ASSUME RInv, [Next]_vars
  PROVE  /\ RollbackRestoresConfig'
         /\ \A g \in DOMAIN commits' : commits'[g].kind = "rollback" => commits'[g].target \in Nat
<1>1. /\ IInv /\ active.gen \in Nat /\ DOMAIN commits = 1..active.gen
      /\ RollbackRestoresConfig
      /\ \A g \in 1..active.gen : commits[g].kind = "rollback" => commits[g].target \in Nat
  BY CommitNumbers DEF RInv
<1>2. CASE active' = active /\ commits' = commits
  BY <1>1, <1>2 DEF RollbackRestoresConfig, ConfigOf
<1>3. ASSUME NEW o \in Operators, Committed(o)
      PROVE  /\ RollbackRestoresConfig'
             /\ \A g \in DOMAIN commits' :
                  commits'[g].kind = "rollback" => commits'[g].target \in Nat
  <2>1. ASSUME NEW g \in 1..(active.gen + 1), commits'[g].kind = "rollback"
        PROVE  /\ commits'[g].target \in Nat /\ commits'[g].target < g
               /\ commits'[g].config = (ConfigOf(commits[g].target))'
    <3>1. \A t \in 0..active.gen : ConfigOf(t)' = ConfigOf(t)
      BY <1>1, ConfigOfStable
    <3>2. CASE g = active.gen + 1
      <4>1. /\ commits'[g].target = op[o].target /\ commits'[g].config = op[o].next.config
            /\ op[o].kind = "rollback" /\ op[o].pc = "swap"
        BY <1>3, <2>1, <3>2 DEF Committed
      <4>2. op[o].target \in Nat /\ op[o].target < active.gen
            /\ op[o].next.config = ConfigOf(op[o].target)
        BY <4>1 DEF RInv, RestoreInv, HasNext
      <4>3. commits'[g].target \in 0..active.gen /\ commits'[g].target < g
        BY <1>1, <3>2, <4>1, <4>2
      <4>4. QED
        BY <3>1, <4>1, <4>2, <4>3, SMTT(30) DEF ConfigOf
    <3>3. CASE g \in 1..active.gen
      <4>1. commits'[g] = commits[g]
        BY <1>1, <1>3, <3>3 DEF Committed
      <4>2. /\ commits[g].target \in Nat /\ commits[g].target < g
            /\ commits[g].config = ConfigOf(commits[g].target)
        BY <1>1, <2>1, <3>3, <4>1 DEF RollbackRestoresConfig
      <4>3. commits[g].target \in 0..active.gen
        BY <1>1, <3>3, <4>2
      <4>4. QED
        BY <3>1, <4>1, <4>2, <4>3 DEF ConfigOf
    <3>4. QED
      BY <1>1, <3>2, <3>3
  <2>2. DOMAIN commits' = 1..(active.gen + 1)
    BY <1>3 DEF Committed
  <2>3. QED
    BY <2>1, <2>2 DEF RollbackRestoresConfig
<1>4. QED
  BY <1>1, <1>2, <1>3, CommitStep

(* A rollback finds an older generation with the config of its number.     *)
LEMMA FoundTarget ==
  ASSUME RInv, NEW o \in Operators, UsableTarget(o)
  PROVE  LET c == GenerationRecord(op[o].target).bundle.config
         IN  /\ op[o].target \in Nat /\ op[o].target < active.gen
             /\ c = ConfigOf(op[o].target)
<1>1. PICK i \in DOMAIN history : /\ GenerationRecord(op[o].target) = history[i]
                                  /\ history[i].gen = op[o].target
  BY ZenonT(30) DEF UsableTarget, GenerationRecord
<1>2. history[i] \in Record
  BY DEF RInv, IInv, TypeOK
<1>3. history[i].bundle # None
  BY <1>1 DEF UsableTarget
<1>4. /\ history[i].bundle.gen = history[i].gen /\ history[i].gen < active.gen
      /\ history[i].bundle.config = ConfigOf(history[i].gen)
  BY <1>3 DEF RInv, RecordsFaithful
<1>5. history[i].gen \in Nat
  BY <1>2 DEF Record
<1>6. QED
  BY <1>1, <1>4, <1>5

(* Commits between the lookup and the swap change no config a candidate    *)
(* was built from.                                                         *)
LEMMA RestoreStep ==
  ASSUME RInv, [Next]_vars, NEW o \in Operators
  PROVE  RestoreInv(o)'
<1>1. IInv /\ TypeOK /\ HandlerInv /\ RestoreInv(o)
  BY DEF RInv, IInv
<1>2. /\ active.gen \in Nat /\ active'.gen \in Nat /\ active.gen <= active'.gen
      /\ \A g \in 0..active.gen : ConfigOf(g)' = ConfigOf(g)
  BY <1>1, ConfigOfStable
<1>3. Moves(o)
  BY <1>1, AllMove, SMTT(30)
<1>4. ASSUME HasNext(o)', op'[o].kind = "rollback"
      PROVE  /\ op'[o].target \in Nat /\ op'[o].target < active'.gen
             /\ op'[o].next.config = (ConfigOf(op[o].target))'
  <2>1. CASE HasNext(o) /\ Kept(o)
    <3>1. /\ op[o].target \in Nat /\ op[o].target < active.gen
          /\ op[o].next.config = ConfigOf(op[o].target)
      BY <1>1, <1>4, <2>1 DEF RestoreInv, Kept
    <3>2. op[o].target \in 0..active.gen /\ op[o].target < active'.gen
      BY <1>2, <3>1, SMTT(30)
    <3>3. QED
      BY <1>2, <2>1, <3>1, <3>2 DEF Kept, ConfigOf
  <2>2. CASE Finds(o)
    <3>1. /\ op[o].target \in Nat /\ op[o].target < active.gen
          /\ op'[o].next.config = ConfigOf(op[o].target)
      BY <2>2, FoundTarget DEF Finds
    <3>2. op[o].target \in 0..active.gen /\ op[o].target < active'.gen
      BY <1>2, <3>1
    <3>3. QED
      BY <1>2, <2>2, <3>1, <3>2 DEF Finds, ConfigOf
  <2>3. ~Stages(o)
    BY <1>1, <1>4 DEF Stages, HandlerInv, LocalInv
  <2>4. CASE op'[o] = op[o]
    BY <1>4, <2>1, <2>4 DEF HasNext, Kept
  <2>5. CASE MovesTo(o, "planned", "gate") \/ MovesTo(o, "gate", "swap")
    BY <2>1, <2>5 DEF MovesTo, HasNext
  <2>6. ASSUME MovesTo(o, "begin", "stage") \/ MovesTo(o, "begin", "lookup")
               \/ MovesTo(o, "archive", "retire") \/ MovesTo(o, "retire", "record")
        PROVE  FALSE
    BY <1>4, <2>6 DEF MovesTo, HasNext
  <2>7. ASSUME Arrives(o) \/ Refused(o) \/ Installs(o) PROVE FALSE
    BY <1>4, <2>7 DEF Arrives, Refused, Installs, HasNext
  <2>8. ASSUME Answers(o) \/ SetsLevel(o) PROVE FALSE
    BY <1>4, <2>8, SMTT(30) DEF Answers, SetsLevel, Idle, HasNext
  <2>9. QED
    BY <1>3, <2>2, <2>3, <2>4, <2>5, <2>6, <2>7, <2>8, SMTT(30) DEF Moves
<1>5. ASSUME Replaced(o)'
      PROVE  op'[o].prev.config = (ConfigOf(op[o].prev.gen))'
  <2>1. CASE Replaced(o) /\ op'[o].prev = op[o].prev
    <3>1. /\ op[o].prev.gen < active.gen /\ op[o].prev.gen \in Nat
          /\ op[o].prev.config = ConfigOf(op[o].prev.gen)
      BY <1>1, <2>1 DEF RestoreInv, HandlerInv, PrevInv, Bundle
    <3>2. op[o].prev.gen \in 0..active.gen
      BY <1>2, <3>1
    <3>3. QED
      BY <1>2, <2>1, <3>1, <3>2, SMTT(30) DEF ConfigOf
  <2>2. CASE Installs(o)
    <3>1. op'[o].prev = active /\ active.config = ConfigOf(active.gen)
      BY <2>2 DEF Installs, RInv
    <3>2. active.gen \in 0..active.gen
      BY <1>2
    <3>3. QED
      BY <1>2, <3>1, <3>2 DEF ConfigOf
  <2>3. CASE op'[o] = op[o]
    BY <1>5, <2>1, <2>3 DEF Replaced
  <2>4. CASE MovesTo(o, "archive", "retire")
    BY <2>1, <2>4 DEF MovesTo, Kept, Replaced
  <2>5. ASSUME MovesTo(o, "begin", "stage") \/ MovesTo(o, "begin", "lookup")
               \/ MovesTo(o, "planned", "gate") \/ MovesTo(o, "gate", "swap")
               \/ MovesTo(o, "retire", "record")
        PROVE  FALSE
    BY <1>5, <2>5 DEF MovesTo, Replaced
  <2>6. ASSUME Arrives(o) \/ Stages(o) \/ Finds(o) \/ Refused(o) PROVE FALSE
    BY <1>5, <2>6, SMTT(30) DEF Arrives, Stages, Finds, Refused, Replaced
  <2>7. ASSUME Answers(o) \/ SetsLevel(o) PROVE FALSE
    BY <1>5, <2>7 DEF Answers, SetsLevel, Idle, Replaced
  <2>8. QED
    BY <1>3, <2>2, <2>3, <2>4, <2>5, <2>6, <2>7, SMTT(30) DEF Moves
<1>6. QED
  BY <1>4, <1>5 DEF RestoreInv

(* Records stay faithful: a failed prepare carries no bundle, an archived  *)
(* generation is older than the active one.                                *)
LEMMA FaithfulStep ==
  ASSUME RInv, [Next]_vars
  PROVE  RecordsFaithful'
<1>1. IInv /\ TypeOK /\ TypeOK' /\ HandlerInv /\ history \in Seq(Record)
  BY TypeStep DEF RInv, IInv, TypeOK
<1>2. Len(history) <= MaxArchived /\ ListOK(history)
  BY <1>1, FaithfulIsListOK DEF RInv
<1>3. /\ active.gen \in Nat /\ active'.gen \in Nat /\ active.gen <= active'.gen
      /\ \A g \in 0..active.gen : ConfigOf(g)' = ConfigOf(g)
  BY <1>1, ConfigOfStable
<1>4. ASSUME NEW r \in Record, RecordOK(r) PROVE RecordOK(r)'
  <2>1. CASE r.bundle = None
    BY <1>4, <2>1 DEF RecordOK
  <2>2. CASE r.bundle # None
    <3>1. r.gen \in 0..active.gen /\ r.gen < active'.gen
      BY <1>3, <1>4, <2>2 DEF RecordOK, Record
    <3>2. ConfigOf(r.gen)' = ConfigOf(r.gen)
      BY <1>3, <3>1
    <3>3. QED
      BY <1>4, <2>2, <3>1, <3>2 DEF RecordOK
  <2>3. QED
    BY <2>1, <2>2
<1>5. ASSUME NEW h \in Seq(Record), ListOK(h) PROVE ListOK(h)'
  BY <1>4, <1>5 DEF ListOK
<1>6. SUFFICES \E h \in Seq(Record) : history' = h /\ Len(h) <= MaxArchived /\ ListOK(h)
  <2>1. Len(history') <= MaxArchived /\ ListOK(history)'
    BY <1>5 DEF ListOK
  <2>2. QED
    BY <1>1, <2>1, ListOKIsFaithful, SMTT(30)
<1>7. CASE history' = history
  BY <1>1, <1>2, <1>7
<1>8. ASSUME NEW o \in Operators, PlanPrepareFailed(o)
      PROVE  \E h \in Seq(Record) : history' = h /\ Len(h) <= MaxArchived /\ ListOK(h)
  <2> DEFINE g == op[o].next.gen
             x == [gen |-> g, status |-> "FailedPrepare", bundle |-> None]
             kept == Retain(history, g)
  <2>1. g \in Nat
    BY <1>1, <1>8 DEF PlanPrepareFailed, Conclude, HandlerInv, ViewInv, HasNext, Bundle
  <2>2. x \in Record /\ x.gen = g /\ x.status = "FailedPrepare" /\ x.bundle = None
    BY <2>1, SMTT(30) DEF Record, Statuses
  <2>3. RecordOK(x)
    BY <2>2 DEF RecordOK, IsRollbackCandidate
  <2>4. kept \in Seq(Record) /\ ListOK(kept) /\ \A i \in 1..Len(kept) : kept[i].gen # g
    BY <1>1, <1>2, RetainType, RetainOK, SMTT(30)
  <2>5. history' = PushBounded(x, kept, MaxArchived)
    BY <1>8 DEF PlanPrepareFailed, RecordFailedPrepare
  <2> HIDE DEF g, x, kept
  <2>6. Len(history') <= MaxArchived /\ ListOK(PushBounded(x, kept, MaxArchived))
    BY <2>2, <2>3, <2>4, <2>5, PushOK
  <2>7. history' \in Seq(Record)
    BY <1>1 DEF TypeOK
  <2>8. QED
    BY <2>5, <2>6, <2>7
<1>9. ASSUME NEW o \in Operators, ReplaceArchive(o)
      PROVE  \E h \in Seq(Record) : history' = h /\ Len(h) <= MaxArchived /\ ListOK(h)
  <2> DEFINE b == op[o].prev
             status == IF op[o].kind = "rollback" THEN "RolledBack" ELSE "Previous"
             x == [gen |-> b.gen, status |-> status, bundle |-> b]
             demoted == Supersede(history)
             kept == Retain(demoted, b.gen)
  <2>1. /\ b \in Bundle /\ b.gen < active.gen /\ b.config = ConfigOf(b.gen)
    BY <1>1, <1>9 DEF ReplaceArchive, Step, HandlerInv, PrevInv, Replaced, RInv, RestoreInv
  <2>2. x \in Record /\ x.gen = b.gen /\ x.status \in {"RolledBack", "Previous"} /\ x.bundle = b
    BY <2>1 DEF Record, Statuses, Bundle
  <2>3. RecordOK(x)
    BY <2>1, <2>2, NoneAssumption, SMTT(30) DEF RecordOK, IsRollbackCandidate
  <2>4. /\ demoted \in Seq(Record) /\ ListOK(demoted) /\ Len(demoted) = Len(history)
        /\ \A i \in 1..Len(demoted) : demoted[i].status # "Previous"
    BY <1>1, <1>2, SupersedeType, SupersedeOK
  <2>5. history' = PushBounded(x, kept, MaxArchived)
    BY <1>9 DEF ReplaceArchive, ArchivePreviousGeneration
  <2> HIDE DEF demoted
  <2>6. /\ kept \in Seq(Record) /\ ListOK(kept)
        /\ \A i \in 1..Len(kept) : /\ kept[i].gen # b.gen
                                   /\ \E j \in 1..Len(demoted) : kept[i] = demoted[j]
    BY <2>4, RetainType, RetainOK
  <2> HIDE DEF b, status, x, kept
  <2>7. \A i \in 1..Len(kept) : kept[i].status # "Previous" /\ kept[i].gen # x.gen
    BY <2>2, <2>4, <2>6
  <2>8. Len(history') <= MaxArchived /\ ListOK(PushBounded(x, kept, MaxArchived))
    BY <2>2, <2>3, <2>5, <2>6, <2>7, PushOK
  <2>9. history' \in Seq(Record)
    BY <1>1 DEF TypeOK
  <2>10. QED
    BY <2>5, <2>8, <2>9
<1>10. QED
  BY <1>7, <1>8, <1>9, HistoryWriters

LEMMA RInvInit == Init => RInv
<1> SUFFICES ASSUME Init PROVE RInv
  OBVIOUS
<1>1. IInv
  BY IInvInit
<1>2. commits = <<>> /\ history = <<>> /\ active = BootBundle
  BY DEF Init
<1>3. DOMAIN commits = {} /\ DOMAIN history = {} /\ Len(history) = 0
  BY <1>2
<1>4. RecordsFaithful /\ RollbackRestoresConfig
  BY <1>3, BoundAssumption DEF RecordsFaithful, RollbackRestoresConfig
<1>5. active.config = ConfigOf(active.gen)
  BY <1>2 DEF BootBundle, ConfigOf
<1>6. \A o \in Operators : RestoreInv(o)
  BY DEF Init, Idle, RestoreInv, HasNext, Replaced
<1>7. QED
  BY <1>1, <1>3, <1>4, <1>5, <1>6 DEF RInv

LEMMA RInvStep == RInv /\ [Next]_vars => RInv'
<1> SUFFICES ASSUME RInv, [Next]_vars PROVE RInv'
  OBVIOUS
<1>1. IInv'
  BY IInvStep DEF RInv
<1>2. /\ RecordsFaithful' /\ RollbackRestoresConfig'
      /\ (active.config = ConfigOf(active.gen))'
      /\ \A g \in DOMAIN commits' : commits'[g].kind = "rollback" => commits'[g].target \in Nat
  BY FaithfulStep, RollbackRestoresStep, ActiveFaithfulStep
<1>3. \A o \in Operators : RestoreInv(o)'
  BY RestoreStep
<1>4. QED
  BY <1>1, <1>2, <1>3 DEF RInv

(* The retained list never holds two records of a generation, nor a bundle *)
(* under a number or with a config other than the committed ones, whatever *)
(* archives, failed prepares and trims interleave.                         *)
THEOREM GenerationRecordsFaithful == Spec => []RecordsFaithful
<1>1. RInv => RecordsFaithful
  BY DEF RInv
<1>2. QED
  BY <1>1, RInvInit, RInvStep, PTL DEF Spec

(* A committed rollback serves the config its target was committed with.   *)
THEOREM GenerationRollbackRestores == Spec => []RollbackRestoresConfig
<1>1. RInv => RollbackRestoresConfig
  BY DEF RInv
<1>2. QED
  BY <1>1, RInvInit, RInvStep, PTL DEF Spec

-------------------------------------------------------------------------------
(* The operation log.  Several handlers may have committed and not         *)
(* answered yet; the invariant says what each of them will log.            *)

(* Handler o has committed a generation and not logged it yet.             *)
Answering(o) == op[o].pc \in {"archive", "retire", "record"} /\ op[o].prev # None

(* Exactly the handlers that committed have replaced a generation; what    *)
(* one of them will log is a commit of its kind, not logged so far.        *)
AnswerInv(o) ==
    /\ op[o].pc \notin {"archive", "retire", "record", "readLevel", "applyLevel"}
         => op[o].prev = None
    /\ op[o].pc \in {"archive", "retire"} => op[o].prev # None
    /\ op[o].pc = "record" => (op[o].outcome = "succeeded" <=> op[o].prev # None)
    /\ Answering(o) => /\ op[o].next.gen \in 1..active.gen
                       /\ commits[op[o].next.gen].kind = op[o].kind
                       /\ \A i \in DOMAIN entries : entries[i].gen # op[o].next.gen

AnswersApart ==
    \A o, p \in Operators :
        (o # p /\ Answering(o) /\ Answering(p)) => op[o].next.gen # op[p].next.gen

AInv ==
    /\ IInv /\ AuditComplete /\ AnswersApart
    /\ \A o \in Operators : AnswerInv(o)

(* The log after an answer: the new entry, then the old ones up to the     *)
(* bound; nobody else moves.                                               *)
LEMMA LogAfter ==
  ASSUME AInv, NEW q \in Operators, RecordResult(q)
  PROVE  /\ active' = active /\ commits' = commits
         /\ \A p \in Operators \ {q} : op'[p] = op[p]
         /\ DOMAIN entries' = 1..Len(entries') /\ DOMAIN entries = 1..Len(entries)
         /\ Len(entries') \in Nat \ {0} /\ Len(entries) \in Nat
         /\ Len(entries') = IF Len(entries) + 1 > MaxEntries THEN MaxEntries
                                                             ELSE Len(entries) + 1
         /\ entries'[1].kind = op[q].kind
         /\ entries'[1].gen = IF Answering(q) THEN op[q].next.gen ELSE None
         /\ \A i \in 2..Len(entries') : i - 1 \in 1..Len(entries) /\ entries'[i] = entries[i - 1]
<1> DEFINE e == [kind |-> op[q].kind, outcome |-> op[q].outcome,
                 gen |-> IF op[q].outcome = "succeeded" THEN op[q].next.gen ELSE None]
<1>1. TypeOK /\ HandlerInv /\ entries \in Seq(Entry) /\ MaxEntries \in Nat \ {0}
  BY BoundAssumption DEF AInv, IInv, TypeOK
<1>2. op[q].pc = "record" /\ (op[q].outcome = "succeeded" <=> Answering(q))
  BY DEF RecordResult, AInv, AnswerInv, Answering
<1>3. e \in Entry
  BY <1>1, <1>2 DEF HandlerInv, LocalInv, Entry, Bundle
<1>4. e.kind = op[q].kind /\ e.gen = IF Answering(q) THEN op[q].next.gen ELSE None
  BY <1>2
<1>5. entries' = PushBounded(e, entries, MaxEntries)
  BY DEF RecordResult
<1> HIDE DEF e
<1>6. entries' \in Seq(Entry)
  BY <1>1, <1>3, <1>5, PushBoundedType
<1>7. /\ Len(entries') = IF Len(entries) + 1 > MaxEntries THEN MaxEntries
                                                          ELSE Len(entries) + 1
      /\ entries'[1] = e
      /\ \A i \in 2..Len(entries') : i - 1 \in 1..Len(entries) /\ entries'[i] = entries[i - 1]
  BY <1>1, <1>3, <1>5, PushBoundedElements
<1>8. /\ active' = active /\ commits' = commits
      /\ \A p \in Operators \ {q} : op'[p] = op[p]
  BY <1>1 DEF RecordResult, TypeOK
<1>9. Len(entries') \in Nat \ {0} /\ Len(entries) \in Nat
  BY <1>1, <1>7
<1>10. DOMAIN entries' = 1..Len(entries') /\ DOMAIN entries = 1..Len(entries)
  BY <1>1, <1>6, SMTT(30)
<1>11. QED
  BY <1>4, <1>7, <1>8, <1>9, <1>10

(* What a handler that will still log a commit was before the step.        *)
LEMMA AnsweringBefore ==
  ASSUME AInv, [Next]_vars, NEW o \in Operators, Answering(o)'
  PROVE  \/ /\ Answering(o) /\ op'[o].next = op[o].next /\ op'[o].kind = op[o].kind
            /\ ~RecordResult(o)
         \/ /\ Installs(o) /\ Committed(o)
<1>1. IInv /\ TypeOK /\ AnswerInv(o)
  BY DEF AInv, IInv
<1>2. Moves(o)
  BY <1>1, AllMove
<1>3. CASE Installs(o)
  BY <1>1, <1>3, SwapIsCommitted DEF Installs
<1>4. CASE op'[o] = op[o]
  <2>1. ~RecordResult(o)
    <3>1. ASSUME RecordResult(o) PROVE FALSE
      <4>1. op[o].pc = "record" /\ op'[o].pc \in {"readLevel", "idle"}
        BY <1>1, <3>1 DEF RecordResult, TypeOK, Handler, Idle
      <4>2. QED
        BY <1>4, <4>1
    <3>2. QED
      BY <3>1
  <2>2. QED
    BY <1>4, <2>1 DEF Answering
<1>5. CASE MovesTo(o, "archive", "retire") \/ MovesTo(o, "retire", "record")
  BY <1>5, SMTT(30) DEF MovesTo, Kept, Answering, RecordResult
<1>6. ASSUME Arrives(o) \/ Stages(o) \/ Finds(o) \/ Answers(o) \/ SetsLevel(o)
      PROVE  FALSE
  BY <1>6 DEF Answering, Arrives, Stages, Finds, Answers, SetsLevel, Idle
<1>7. ASSUME MovesTo(o, "begin", "stage") \/ MovesTo(o, "begin", "lookup")
             \/ MovesTo(o, "planned", "gate") \/ MovesTo(o, "gate", "swap")
      PROVE  FALSE
  BY <1>7, SMTT(30) DEF Answering, MovesTo
<1>8. ASSUME Refused(o) PROVE FALSE
  BY <1>1, <1>8 DEF Answering, Refused, Kept, AnswerInv
<1>9. QED
  BY <1>2, <1>3, <1>4, <1>5, <1>6, <1>7, <1>8 DEF Moves

(* Two handlers never answer for the same commit: only one wins its swap.  *)
LEMMA AnswersApartStep ==
  ASSUME AInv, [Next]_vars
  PROVE  AnswersApart'
<1>1. ASSUME NEW o \in Operators, NEW p \in Operators, o # p, Answering(o)', Answering(p)'
      PROVE  op'[o].next.gen # op'[p].next.gen
  <2>1. ASSUME NEW a \in Operators, NEW b \in Operators, a # b, Installs(a), Committed(a),
               Answering(b)'
        PROVE  op'[a].next.gen # op'[b].next.gen
    <3>1. IInv /\ AnswerInv(b) /\ active.gen \in Nat
      BY CommitNumbers DEF AInv
    <3>2. /\ op'[b] = op[b] /\ op'[a].next = op[a].next /\ op[a].next.gen = active.gen + 1
      BY <2>1, <3>1, InstallAlone, SMTT(30) DEF Installs
    <3>3. op[b].next.gen \in 1..active.gen
      BY <2>1, <3>1, <3>2 DEF Answering, AnswerInv
    <3>4. QED
      BY <3>1, <3>2, <3>3
  <2>2. CASE Installs(o) /\ Committed(o)
    BY <1>1, <2>1, <2>2
  <2>3. CASE Installs(p) /\ Committed(p)
    BY <1>1, <2>1, <2>3
  <2>4. CASE /\ Answering(o) /\ op'[o].next = op[o].next
             /\ Answering(p) /\ op'[p].next = op[p].next
    BY <1>1, <2>4 DEF AInv, AnswersApart
  <2>5. QED
    BY <1>1, <2>2, <2>3, <2>4, AnsweringBefore
<1>2. QED
  BY <1>1 DEF AnswersApart

(* What a handler will log stays unlogged until it answers.                *)
LEMMA AnswerStep ==
  ASSUME AInv, [Next]_vars, NEW o \in Operators
  PROVE  AnswerInv(o)'
<1>1. /\ IInv /\ TypeOK /\ HandlerInv /\ AnswerInv(o) /\ active.gen \in Nat
      /\ DOMAIN commits = 1..active.gen
  BY CommitNumbers DEF AInv, IInv
<1>2. Moves(o) /\ active # None
  BY <1>1, AllMove, NoneAssumption, SMTT(30) DEF TypeOK
<1>3. /\ op'[o].pc \notin {"archive", "retire", "record", "readLevel", "applyLevel"}
           => op'[o].prev = None
      /\ op'[o].pc \in {"archive", "retire"} => op'[o].prev # None
      /\ op'[o].pc = "record" => (op'[o].outcome = "succeeded" <=> op'[o].prev # None)
  <2> USE DEF AnswerInv
  <2>1. CASE op'[o] = op[o]
    BY <1>1, <2>1, SMTT(30)
  <2>2. CASE Arrives(o) \/ Stages(o) \/ Finds(o)
    BY <1>1, <2>2, SMTT(30) DEF Arrives, Stages, Finds
  <2>3. CASE MovesTo(o, "begin", "stage") \/ MovesTo(o, "begin", "lookup")
             \/ MovesTo(o, "planned", "gate") \/ MovesTo(o, "gate", "swap")
             \/ MovesTo(o, "archive", "retire")
             \/ (MovesTo(o, "retire", "record") /\ op'[o].outcome = "succeeded")
    BY <1>1, <2>3, ZenonT(30) DEF MovesTo, Kept
  <2>4. CASE Refused(o)
    BY <1>1, <2>4 DEF Refused, Kept
  <2>5. CASE Installs(o)
    BY <1>2, <2>5, SMTT(30) DEF Installs
  <2>6. CASE Answers(o) \/ SetsLevel(o)
    BY <2>6, SMTT(30) DEF Answers, SetsLevel, Idle
  <2>7. QED
    BY <1>2, <2>1, <2>2, <2>3, <2>4, <2>5, <2>6, SMTT(30) DEF Moves
<1>4. ASSUME Answering(o)'
      PROVE  /\ op'[o].next.gen \in 1..active'.gen
             /\ commits'[op'[o].next.gen].kind = op'[o].kind
             /\ \A i \in DOMAIN entries' : entries'[i].gen # op'[o].next.gen
  <2>1. CASE Installs(o) /\ Committed(o)
    <3>1. /\ op'[o].next.gen = active.gen + 1 /\ active'.gen = active.gen + 1
          /\ op'[o].kind = op[o].kind /\ entries' = entries
          /\ commits'[active.gen + 1].kind = op[o].kind
      BY <1>1, <2>1, InstallAlone, ZenonT(30) DEF Installs, Committed
    <3>2. ASSUME NEW i \in DOMAIN entries PROVE entries[i].gen # active.gen + 1
      <4>1. entries[i].gen # None => entries[i].gen \in 1..active.gen
        BY <1>1, SMTT(30) DEF AInv, AuditComplete
      <4>2. QED
        BY <1>1, <4>1, NameAssumption, SMTT(30)
    <3>3. QED
      BY <1>1, <3>1, <3>2, SMTT(30)
  <2>2. CASE /\ Answering(o) /\ op'[o].next = op[o].next /\ op'[o].kind = op[o].kind
             /\ ~RecordResult(o)
    <3>1. /\ op[o].next.gen \in 1..active.gen
          /\ commits[op[o].next.gen].kind = op[o].kind
          /\ \A i \in DOMAIN entries : entries[i].gen # op[o].next.gen
      BY <1>1, <2>2 DEF AnswerInv
    <3>2. /\ op[o].next.gen \in 1..active'.gen
          /\ commits'[op[o].next.gen] = commits[op[o].next.gen]
      <4>1. CASE active' = active /\ commits' = commits
        BY <3>1, <4>1
      <4>2. ASSUME NEW p \in Operators, Committed(p)
            PROVE  /\ op[o].next.gen \in 1..active'.gen
                   /\ commits'[op[o].next.gen] = commits[op[o].next.gen]
        BY <1>1, <3>1, <4>2 DEF Committed
      <4>3. QED
        BY <1>1, <4>1, <4>2, CommitStep
    <3>3. \A i \in DOMAIN entries' : entries'[i].gen # op[o].next.gen
      <4>1. CASE entries' = entries
        BY <3>1, <4>1
      <4>2. ASSUME NEW q \in Operators, RecordResult(q), NEW i \in DOMAIN entries'
            PROVE  entries'[i].gen # op[o].next.gen
        <5>1. q # o
          BY <2>2, <4>2, SMTT(30)
        <5>2. CASE i = 1
          <6>1. entries'[1].gen = IF Answering(q) THEN op[q].next.gen ELSE None
            BY <4>2, LogAfter
          <6>2. Answering(q) => op[q].next.gen # op[o].next.gen
            BY <2>2, <5>1 DEF AInv, AnswersApart
          <6>3. QED
            BY <1>1, <3>1, <5>2, <6>1, <6>2, NameAssumption, SMTT(30)
        <5>3. CASE i # 1
          <6>1. i \in 2..Len(entries')
            BY <4>2, <5>3, LogAfter
          <6>2. i - 1 \in DOMAIN entries /\ entries'[i] = entries[i - 1]
            BY <4>2, <6>1, LogAfter
          <6>3. QED
            BY <3>1, <6>2
        <5>4. QED
          BY <5>2, <5>3
      <4>3. QED
        BY <4>1, <4>2, EntriesWriters
    <3>4. QED
      BY <2>2, <3>1, <3>2, <3>3, SMTT(30)
  <2>3. QED
    BY <1>4, <2>1, <2>2, AnsweringBefore, SMTT(30)
<1>5. QED
  BY <1>3, <1>4 DEF AnswerInv

(* An answer adds its commit to the log; a commit gets a handler that will *)
(* answer for it.                                                          *)
LEMMA AuditStep ==
  ASSUME AInv, [Next]_vars
  PROVE  AuditComplete'
<1>1. /\ IInv /\ active.gen \in Nat /\ DOMAIN commits = 1..active.gen
      /\ AuditComplete /\ \A o \in Operators : AnswerInv(o)
  BY CommitNumbers DEF AInv
<1>2. ASSUME NEW q \in Operators, RecordResult(q) PROVE AuditComplete'
  <2>1. /\ active' = active /\ commits' = commits
        /\ \A p \in Operators \ {q} : op'[p] = op[p]
        /\ DOMAIN entries' = 1..Len(entries') /\ DOMAIN entries = 1..Len(entries)
        /\ Len(entries') \in Nat \ {0} /\ Len(entries) \in Nat
        /\ Len(entries') = IF Len(entries) + 1 > MaxEntries THEN MaxEntries
                                                            ELSE Len(entries) + 1
        /\ entries'[1].kind = op[q].kind
        /\ entries'[1].gen = IF Answering(q) THEN op[q].next.gen ELSE None
        /\ \A i \in 2..Len(entries') : i - 1 \in 1..Len(entries) /\ entries'[i] = entries[i - 1]
    BY <1>2, LogAfter
  <2>2. MaxEntries \in Nat \ {0}
    BY BoundAssumption
  <2>3. ASSUME NEW i \in 1..Len(entries')
        PROVE  \/ i = 1
               \/ i # 1 /\ i - 1 \in 1..Len(entries) /\ entries'[i] = entries[i - 1]
    BY <2>1, SMTT(30)
  <2>4. ASSUME NEW g \in 1..active.gen
        PROVE  \/ \E o \in Operators : /\ op'[o].pc \in {"archive", "retire", "record"}
                                       /\ op'[o].prev # None /\ op'[o].next.gen = g
               \/ \E i \in 1..Len(entries') : entries'[i].gen = g
               \/ Len(entries') = MaxEntries
    <3>1. CASE Answering(q) /\ op[q].next.gen = g
      <4>1. 1 \in 1..Len(entries') /\ entries'[1].gen = g
        BY <2>1, <3>1
      <4>2. QED
        BY <4>1
    <3>2. ASSUME NEW o \in Operators \ {q}, Answering(o), op[o].next.gen = g
          PROVE  \E p \in Operators : /\ op'[p].pc \in {"archive", "retire", "record"}
                                      /\ op'[p].prev # None /\ op'[p].next.gen = g
      BY <2>1, <3>2 DEF Answering
    <3>3. ASSUME NEW i \in 1..Len(entries), entries[i].gen = g
          PROVE  \/ \E j \in 1..Len(entries') : entries'[j].gen = g
                 \/ Len(entries') = MaxEntries
      <4>1. CASE i + 1 \in 2..Len(entries')
        <5>1. entries'[i + 1] = entries[i] /\ i + 1 \in 1..Len(entries')
          BY <2>1, <4>1
        <5>2. QED
          BY <3>3, <5>1
      <4>2. CASE i + 1 \notin 2..Len(entries')
        BY <2>1, <2>2, <4>2
      <4>3. QED
        BY <4>1, <4>2
    <3>4. CASE Len(entries) = MaxEntries
      BY <2>1, <2>2, <3>4, SMTT(30)
    <3>5. \/ \E o \in Operators : Answering(o) /\ op[o].next.gen = g
          \/ \E i \in 1..Len(entries) : entries[i].gen = g
          \/ Len(entries) = MaxEntries
      BY <1>1, <2>1, SMTT(30) DEF AuditComplete, Answering
    <3>6. QED
      BY <3>1, <3>2, <3>3, <3>4, <3>5, SMTT(30)
  <2>5. ASSUME Answering(q)
        PROVE  /\ op[q].next.gen \in 1..active.gen /\ commits[op[q].next.gen].kind = op[q].kind
               /\ \A i \in 1..Len(entries) : entries[i].gen # op[q].next.gen
    BY <1>1, <2>1, <2>5 DEF AnswerInv
  <2>6. ASSUME NEW i \in 1..Len(entries'), NEW j \in 1..Len(entries'), i # j,
               entries'[i].gen # None
        PROVE  entries'[i].gen # entries'[j].gen
    <3>0. \A k, l \in 1..Len(entries) :
            (k # l /\ entries[k].gen # None) => entries[k].gen # entries[l].gen
      BY <1>1, <2>1, SMTT(30) DEF AuditComplete
    <3>1. CASE i = 1
      <4>1. Answering(q) /\ entries'[i].gen = op[q].next.gen
        BY <2>1, <2>6, <3>1
      <4>2. j - 1 \in 1..Len(entries) /\ entries'[j] = entries[j - 1]
        BY <2>3, <2>6, <3>1, SMTT(30)
      <4>3. QED
        BY <2>5, <4>1, <4>2
    <3>2. CASE i # 1 /\ j = 1
      <4>1. i - 1 \in 1..Len(entries) /\ entries'[i] = entries[i - 1]
        BY <2>3, <3>2
      <4>2. Answering(q) => entries'[j].gen = op[q].next.gen
        BY <2>1, <3>2
      <4>3. ~Answering(q) => entries'[j].gen = None
        BY <2>1, <3>2
      <4>4. QED
        BY <2>5, <2>6, <4>1, <4>2, <4>3, SMTT(30)
    <3>3. CASE i # 1 /\ j # 1
      <4>1. /\ i - 1 \in 1..Len(entries) /\ entries'[i] = entries[i - 1]
            /\ j - 1 \in 1..Len(entries) /\ entries'[j] = entries[j - 1]
        BY <2>3, <3>3
      <4>2. i - 1 # j - 1
        BY <2>1, <2>6
      <4>3. QED
        BY <2>6, <3>0, <4>1, <4>2
    <3>4. QED
      BY <3>1, <3>2, <3>3, SMTT(30)
  <2>7. ASSUME NEW i \in 1..Len(entries'), entries'[i].gen # None
        PROVE  /\ entries'[i].gen \in DOMAIN commits'
               /\ entries'[i].kind = commits'[entries'[i].gen].kind
    <3>1. CASE i = 1
      BY <1>1, <2>1, <2>5, <2>7, <3>1, SMTT(30)
    <3>2. CASE i # 1
      <4>1. i - 1 \in 1..Len(entries) /\ entries'[i] = entries[i - 1]
        BY <2>3, <3>2
      <4>2. QED
        BY <1>1, <2>1, <2>7, <4>1 DEF AuditComplete
    <3>3. QED
      BY <3>1, <3>2, SMTT(30)
  <2>8. QED
    BY <2>1, <2>4, <2>6, <2>7, ZenonT(30) DEF AuditComplete
<1>3. ASSUME \A q \in Operators : ~RecordResult(q) PROVE AuditComplete'
  <2>1. entries' = entries
    BY <1>3, EntriesWriters, SMTT(30)
  <2>2. ASSUME NEW o \in Operators, Answering(o)
        PROVE  Answering(o)' /\ op'[o].next = op[o].next
    <3>1. Moves(o)
      BY <1>1, AllMove DEF IInv
    <3>2. ~Answers(o)
      BY <1>3 DEF Answers
    <3>3. CASE op'[o] = op[o]
      BY <2>2, <3>3 DEF Answering
    <3>4. CASE MovesTo(o, "archive", "retire") \/ MovesTo(o, "retire", "record")
      BY <2>2, <3>4 DEF MovesTo, Kept, Answering
    <3>5. ASSUME MovesTo(o, "begin", "stage") \/ MovesTo(o, "begin", "lookup")
                 \/ MovesTo(o, "planned", "gate") \/ MovesTo(o, "gate", "swap")
          PROVE  FALSE
      BY <2>2, <3>5, SMTT(30) DEF MovesTo, Answering
    <3>6. ASSUME Arrives(o) \/ Stages(o) \/ Finds(o) \/ Refused(o) \/ Installs(o) PROVE FALSE
      BY <2>2, <3>6 DEF Arrives, Stages, Finds, Refused, Installs, Answering
    <3>7. ASSUME SetsLevel(o) PROVE FALSE
      BY <2>2, <3>7, SMTT(30) DEF SetsLevel, Answering
    <3>8. QED
      BY <3>1, <3>2, <3>3, <3>4, <3>5, <3>6, <3>7 DEF Moves
  <2>3. CASE active' = active /\ commits' = commits
    <3>1. ASSUME NEW g \in 1..active.gen
          PROVE  \/ \E o \in Operators : Answering(o)' /\ op'[o].next.gen = g
                 \/ \E i \in DOMAIN entries : entries[i].gen = g
                 \/ Len(entries) = MaxEntries
      BY <1>1, <2>2, SMTT(30) DEF AuditComplete, Answering
    <3>2. QED
      BY <1>1, <2>1, <2>3, <3>1, SMTT(30) DEF AuditComplete, Answering
  <2>4. ASSUME NEW p \in Operators, Committed(p), InstallNext(p) PROVE AuditComplete'
    <3>1. /\ active'.gen = active.gen + 1 /\ DOMAIN commits' = 1..(active.gen + 1)
          /\ \A g \in 1..active.gen : commits'[g] = commits[g]
      BY <2>4, SMTT(30) DEF Committed
    <3>2. Answering(p)' /\ op'[p].next.gen = active.gen + 1
      BY <1>1, <2>4, InstallAlone, SMTT(30) DEF Committed, Answering
    <3>3. ASSUME NEW g \in 1..active'.gen
          PROVE  \/ \E o \in Operators : Answering(o)' /\ op'[o].next.gen = g
                 \/ \E i \in DOMAIN entries : entries[i].gen = g
                 \/ Len(entries) = MaxEntries
      <4>1. CASE g = active.gen + 1
        BY <3>2, <4>1
      <4>2. CASE g \in 1..active.gen
        BY <1>1, <2>2, <4>2, SMTT(30) DEF AuditComplete, Answering
      <4>3. QED
        BY <1>1, <3>1, <4>1, <4>2
    <3>4. ASSUME NEW i \in DOMAIN entries, entries[i].gen # None
          PROVE  /\ entries[i].gen \in DOMAIN commits'
                 /\ entries[i].kind = commits'[entries[i].gen].kind
      BY <1>1, <3>1, <3>4 DEF AuditComplete
    <3>5. \A i, j \in DOMAIN entries :
            (i # j /\ entries[i].gen # None) => entries[i].gen # entries[j].gen
      BY <1>1 DEF AuditComplete
    <3>6. QED
      BY <2>1, <3>3, <3>4, <3>5 DEF AuditComplete, Answering
  <2>5. QED
    BY <1>1, <2>3, <2>4, CommitStep
<1>4. QED
  BY <1>2, <1>3

LEMMA AInvInit == Init => AInv
<1> SUFFICES ASSUME Init PROVE AInv
  OBVIOUS
<1>1. IInv
  BY IInvInit
<1>2. entries = <<>> /\ active.gen = 0
  BY DEF Init, BootBundle
<1>3. AuditComplete
  BY <1>2, SMTT(30) DEF AuditComplete
<1>4. AnswersApart /\ \A o \in Operators : AnswerInv(o)
  BY DEF Init, Idle, AnswersApart, AnswerInv, Answering
<1>5. QED
  BY <1>1, <1>3, <1>4 DEF AInv

LEMMA AInvStep == AInv /\ [Next]_vars => AInv'
<1> SUFFICES ASSUME AInv, [Next]_vars PROVE AInv'
  OBVIOUS
<1>1. IInv'
  BY IInvStep DEF AInv
<1>2. AuditComplete' /\ AnswersApart'
  BY AuditStep, AnswersApartStep
<1>3. \A o \in Operators : AnswerInv(o)'
  BY AnswerStep
<1>4. QED
  BY <1>1, <1>2, <1>3 DEF AInv

(* Every commit is logged once, under its number and kind, unless newer    *)
(* entries pushed it out; no entry claims a commit that did not happen.    *)
THEOREM GenerationAuditComplete == Spec => []AuditComplete
<1>1. AInv => AuditComplete
  BY DEF AInv
<1>2. QED
  BY <1>1, AInvInit, AInvStep, PTL DEF Spec

-------------------------------------------------------------------------------
(* Background tasks.                                                       *)

(* A step of a handler that holds no bundle, or goes on holding the same,  *)
(* keeps the accounts.                                                     *)
LEMMA TaskFrame ==
  ASSUME TaskOwnership, NEW o \in Operators,
         active' = active, running' = running,
         \A p \in Operators \ {o} : op'[p] = op[p],
         \A b : Accounts(o, b) => Accounts(o, b)'
  PROVE  TaskOwnership'
<1>1. ASSUME NEW b \in running, NEW p \in Operators, Accounts(p, b) PROVE Accounts(p, b)'
  BY <1>1, SMTT(30) DEF Accounts
<1>2. (active \in running)'
  BY DEF TaskOwnership
<1>3. ASSUME NEW b \in running PROVE b = active' \/ \E p \in Operators : Accounts(p, b)'
  BY <1>1 DEF TaskOwnership
<1>4. QED
  BY <1>2, <1>3, SMTT(30) DEF TaskOwnership

(* Dropping the tasks of a bundle that is not active, together with the    *)
(* handler's claim on it, keeps the accounts.                              *)
LEMMA TaskDrop ==
  ASSUME TaskOwnership, NEW o \in Operators, NEW x,
         active' = active, running' = running \ {x}, x # active,
         \A p \in Operators \ {o} : op'[p] = op[p],
         \A b : Accounts(o, b) => b = x
  PROVE  TaskOwnership'
<1>1. ASSUME NEW b \in running, NEW p \in Operators \ {o}, Accounts(p, b)
      PROVE  Accounts(p, b)'
  BY <1>1 DEF Accounts
<1>2. (active \in running)'
  BY DEF TaskOwnership
<1>3. ASSUME NEW b \in running' PROVE b = active' \/ \E p \in Operators : Accounts(p, b)'
  <2>1. b \in running /\ b # x
    BY <1>3
  <2>2. b = active \/ \E p \in Operators \ {o} : Accounts(p, b)
    BY <2>1 DEF TaskOwnership
  <2>3. QED
    BY <1>1, <2>1, <2>2
<1>4. QED
  BY <1>2, <1>3 DEF TaskOwnership

(* A candidate whose handler failed is not the active generation.          *)
LEMMA NextNotActive ==
  ASSUME TypeOK, HandlerInv, NEW o \in Operators, HasNext(o)
  PROVE  op[o].next # active
<1>1. /\ op[o].next.by = o /\ op[o].next.gen = op[o].view.gen + 1
      /\ active.by = o => active.gen <= op[o].view.gen
      /\ op[o].view.gen \in Nat /\ active.gen \in Nat
  BY DEF HandlerInv, ViewInv, HasView, HasNext, Bundle, TypeOK
<1>2. QED
  BY <1>1, SMTT(30)

LEMMA TaskStep == TypeOK /\ HandlerInv /\ TaskOwnership /\ [Next]_vars => TaskOwnership'
<1> SUFFICES ASSUME TypeOK, HandlerInv, TaskOwnership, [Next]_vars PROVE TaskOwnership'
  OBVIOUS
<1> USE DEF Accounts
<1>1. ASSUME NEW o \in Operators,
             \/ Request(o) \/ RequestRollback(o) \/ ActivateBegin(o) \/ StageReload(o)
             \/ RollbackBegin(o) \/ RollbackLookup(o) \/ PlanOnly(o) \/ PlanRejected(o)
             \/ PlanPrepareFailed(o) \/ RecordResult(o) \/ ReadLevel(o) \/ ApplyLevel(o)
      PROVE  TaskOwnership'
  <2>1. /\ active' = active /\ running' = running
        /\ op[o].pc \notin {"gate", "swap", "archive", "retire"}
    BY <1>1, ZenonT(30) DEF Request, RequestRollback, ActivateBegin, StageReload, RollbackBegin,
                RollbackLookup, PlanOnly, PlanRejected, PlanPrepareFailed, RecordResult,
                ReadLevel, ApplyLevel, Step, Conclude
  <2>2. \A p \in Operators \ {o} : op'[p] = op[p]
    BY <1>1, ZenonT(30) DEF Request, RequestRollback, ActivateBegin, StageReload, RollbackBegin,
                RollbackLookup, PlanOnly, PlanRejected, PlanPrepareFailed, RecordResult,
                ReadLevel, ApplyLevel, Step, Conclude, TypeOK
  <2>3. QED
    BY <2>1, <2>2, TaskFrame, SMTT(30)
<1>2. ASSUME NEW o \in Operators, PlanAccepted(o) PROVE TaskOwnership'
  <2>1. /\ active' = active /\ op[o].pc = "planned"
        /\ \A p \in Operators \ {o} : op'[p] = op[p]
    BY <1>2 DEF PlanAccepted, Step, Conclude, TypeOK
  <2>2. CASE running' = running
    BY <2>1, <2>2, TaskFrame
  <2>3. CASE Step(o, "planned", "gate") /\ running' = running \cup {op[o].next}
    <3>1. op[o] \in Handler
      BY DEF TypeOK
    <3>2. op'[o].pc = "gate" /\ op'[o].next = op[o].next
      BY <2>3, <3>1, SMTT(30) DEF Step, TypeOK, Handler
    <3>3. ASSUME NEW b \in running' PROVE b = active' \/ \E p \in Operators : Accounts(p, b)'
      <4>1. CASE b = op[o].next
        BY <3>2, <4>1
      <4>2. CASE b \in running
        BY <2>1, <4>2 DEF TaskOwnership
      <4>3. QED
        BY <2>3, <4>1, <4>2
    <3>4. QED
      BY <2>1, <2>3, <3>3 DEF TaskOwnership
  <2>4. QED
    BY <1>2, <2>2, <2>3 DEF PlanAccepted
<1>3. ASSUME NEW o \in Operators, ReplaceGate(o) PROVE TaskOwnership'
  <2>1. /\ active' = active /\ op[o].pc = "gate"
        /\ \A p \in Operators \ {o} : op'[p] = op[p]
    BY <1>3 DEF ReplaceGate, Step, Conclude, TypeOK
  <2>2. CASE Step(o, "gate", "swap") /\ running' = running
    <3>1. op[o] \in Handler
      BY DEF TypeOK
    <3>2. op'[o].pc = "swap" /\ op'[o].next = op[o].next
      BY <2>2, <3>1 DEF Step, TypeOK, Handler
    <3>3. QED
      BY <2>1, <2>2, <3>2, TaskFrame
  <2>3. CASE running' = running \ {op[o].next}
    <3>1. op[o].next # active
      BY <2>1, NextNotActive DEF HasNext
    <3>2. \A b : Accounts(o, b) => b = op[o].next
      BY <2>1
    <3>3. QED
      BY <2>1, <2>3, <3>1, <3>2, TaskDrop
  <2>4. QED
    BY <1>3, <2>2, <2>3 DEF ReplaceGate
<1>4. ASSUME NEW o \in Operators, ReplaceSwap(o) PROVE TaskOwnership'
  <2>1. op[o].pc = "swap" /\ \A p \in Operators \ {o} : op'[p] = op[p]
    BY <1>4 DEF ReplaceSwap, InstallNext, Conclude, TypeOK
  <2>2. CASE active.gen = op[o].view.gen
    <3>1. active' = op[o].next /\ running' = running
      BY <1>4, <2>2 DEF ReplaceSwap, InstallNext
    <3>2. op[o] \in Handler
      BY DEF TypeOK
    <3>3. op'[o].pc = "archive" /\ op'[o].prev = active
      BY <1>4, <2>2, <3>2, ZenonT(30) DEF ReplaceSwap, InstallNext, TypeOK, Handler
    <3>4. op[o].next \in running
      BY <2>1 DEF HandlerInv, ViewInv, Spawned
    <3>5. ASSUME NEW b \in running PROVE b = active' \/ \E p \in Operators : Accounts(p, b)'
      <4>1. CASE b = active
        BY <3>3, <4>1
      <4>2. ASSUME NEW p \in Operators, Accounts(p, b)
            PROVE  b = active' \/ Accounts(p, b)'
        BY <2>1, <3>1, <4>2
      <4>3. QED
        BY <4>1, <4>2 DEF TaskOwnership
    <3>6. QED
      BY <3>1, <3>4, <3>5 DEF TaskOwnership
  <2>3. CASE active.gen # op[o].view.gen
    <3>1. running' = running \ {op[o].next} /\ active' = active
      BY <1>4, <2>3 DEF ReplaceSwap
    <3>2. op[o].next # active
      BY <2>1, NextNotActive DEF HasNext
    <3>3. \A b : Accounts(o, b) => b = op[o].next
      BY <2>1, SMTT(30)
    <3>4. QED
      BY <2>1, <3>1, <3>2, <3>3, TaskDrop, SMTT(30)
  <2>4. QED
    BY <2>2, <2>3
<1>5. ASSUME NEW o \in Operators, ReplaceArchive(o) PROVE TaskOwnership'
  <2>1. op[o] \in Handler
    BY DEF TypeOK
  <2>2. /\ active' = active /\ running' = running /\ op[o].pc = "archive"
        /\ \A p \in Operators \ {o} : op'[p] = op[p]
        /\ op'[o].pc = "retire" /\ op'[o].prev = op[o].prev
    BY <1>5, <2>1 DEF ReplaceArchive, Step, TypeOK, Handler
  <2>3. QED
    BY <2>2, TaskFrame
<1>6. ASSUME NEW o \in Operators, ReplaceRetire(o) PROVE TaskOwnership'
  <2>1. /\ active' = active /\ running' = running \ {op[o].prev} /\ op[o].pc = "retire"
        /\ \A p \in Operators \ {o} : op'[p] = op[p]
    BY <1>6 DEF ReplaceRetire, Conclude, TypeOK
  <2>2. op[o].prev # active
    <3>1. op[o].prev.gen < active.gen /\ op[o].prev.gen \in Nat /\ active.gen \in Nat
      BY <2>1 DEF HandlerInv, PrevInv, Replaced, Bundle, TypeOK
    <3>2. QED
      BY <3>1, SMTT(30)
  <2>3. \A b : Accounts(o, b) => b = op[o].prev
    BY <2>1
  <2>4. QED
    BY <2>1, <2>2, <2>3, TaskDrop
<1>7. CASE Lifecycle \/ UNCHANGED vars
  BY <1>7 DEF Lifecycle, vars, TaskOwnership
<1>8. QED
  BY <1>1, <1>2, <1>3, <1>4, <1>5, <1>6, <1>7, SMTT(30) DEF Next, Handle

(* The active generation never loses its background tasks to another       *)
(* handler's abort or retirement, and no other bundle keeps tasks without  *)
(* a handler that will end them.                                           *)
THEOREM GenerationTaskOwnership == Spec => []TaskOwnership
<1>1. Init => TaskOwnership
  BY DEF Init, TaskOwnership
<1>2. IInv /\ TaskOwnership /\ [Next]_vars => TaskOwnership'
  BY TaskStep DEF IInv
<1>3. QED
  BY <1>1, <1>2, Invariance, PTL DEF Spec
===============================================================================
