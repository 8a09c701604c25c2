----------------------------- MODULE SessionProofs -----------------------------
(***************************************************************************)
(* Theorems about Session and the final delivery inside it, for any order  *)
(* of tasks, any dependencies and any number of faults.                    *)
(***************************************************************************)
EXTENDS Session, FiniteSetTheorems, WellFoundedInduction, TLAPS

-----------------------------------------------------------------------------
(* The invariant *)

IsApplied(o) == entries[o] = "APPLIED"
Started(t)   == phase[t] \notin {"absent", "partial"}
Finished(t)  == phase[t] = "NEXT_TASK"
Merged(t)    == phase[t] \in {"MERGE", "TASK_DONE", "TASK_DONE_UNKNOWN", "NEXT_TASK"}

(* Everything the call does with a plan it has read.                         *)
Planning  == {"select", "complete", "choose"}
Preparing == {"prepare", "mutate", "save", "adopt"}

(* The tasks: all but one are not begun or finished, and a successor only    *)
(* comes up when the current task is finished and recorded.                  *)
CursorInv ==
    /\ \A t \in Task : t \in cursor.completed => Finished(t)
    /\ \A t \in Task : Finished(t) => t \in cursor.completed \cup {Current}
    /\ \A t \in Task \ {Current, cursor.pending} :
          phase[t] \in {"absent", "NEXT_TASK"}
    /\ Started(Current)
    /\ cursor.pending # NoTask =>
          /\ cursor.pending # Current /\ Finished(Current)
          /\ Current \in cursor.completed
          /\ phase[cursor.pending] \in {"absent", "partial", "PLAN"}
    /\ cursor.mode # "TASK" => cursor.pending = NoTask /\ Finished(Current)

(* The roadmap: every task that was started stands on a commit below the     *)
(* merge its successor will stand on.                                        *)
RoadmapInv ==
    /\ \A t \in Task : base[t] <= head /\ merge[t] <= head
    /\ Merged(Current) => \A t \in Task \ {cursor.pending} :
                             Started(t) => base[t] < merge[Current]
    /\ cursor.pending # NoTask /\ Started(cursor.pending)
          => base[cursor.pending] = merge[Current]

(* What the call knows at each of its places.                                *)
PlaceInv ==
    /\ at # "idle" => cursor.mode # "DONE"
    /\ at \in Planning \cup Preparing \cup {"task"} => cursor.mode = "TASK"
    /\ at = "final" => cursor.mode = "FINAL"
    /\ at \in Planning => Finished(Current)
    /\ at = "choose" => Current \in cursor.completed
    /\ at \in Preparing => plan.state = "RUN_TASK" /\ cursor.pending = plan.task
    /\ at \in {"prepare", "mutate"} => phase[plan.task] = "absent"
    /\ at = "save" => phase[plan.task] = "partial"
    /\ at = "adopt" => phase[plan.task] = "PLAN"
    /\ at \in {"mutate", "save"} => seen = merge[Current]

(* The final delivery: the ledger follows the world in the order of the      *)
(* operations.                                                               *)
Open == {"gate", "regate", "intent", "authority", "write", "verify", "unknown",
         "applied"}

FinalInv ==
    /\ \A o \in FOp : IsApplied(o) => flanded[o] > 0
    /\ \A o, p \in FOp : p < o /\ (IsApplied(o) \/ o \in finflight) => IsApplied(p)
    /\ pr # "none" <=> flanded[Create] > 0
    /\ pr = "merged" <=> flanded[Merge] > 0
    /\ epic = "CLOSED" => flanded[Close] > 0
    /\ comments > 0 => flanded[Update] > 0
    /\ fat \in Open \cup {"decide"} => \A p \in FOp : p < fop => IsApplied(p)
    /\ fat \in Open => ~IsApplied(fop)
    /\ fat = "applied" => flanded[fop] > 0
    /\ fat = "finished" => \A o \in FOp : IsApplied(o)
    /\ (\E o \in FOp : flanded[o] > 0) \/ finflight # {} => cursor.mode # "TASK"
    /\ cursor.mode = "DONE" => \A o \in FOp : flanded[o] > 0

(* Nothing reaches the epic before the merge is main and its checks passed,  *)
(* also by a write that lands late.                                          *)
GreenInv ==
    /\ Merge \in finflight \/ flanded[Merge] > 0 => evidence /\ ci["pr"] = "SUCCESS"
    /\ finflight \cap PostMerge # {} \/ epic = "CLOSED" \/ comments > 0
          => pr = "merged" /\ ci["main"] = "SUCCESS"
    /\ fat \in {"regate", "intent", "authority", "write"} /\ fop \notin PostMerge
          => evidence

IInv ==
    /\ TypeOK
    /\ CursorInv
    /\ RoadmapInv
    /\ PlaceInv
    /\ FinalInv
    /\ GreenInv
    /\ StartsOnMerge

-----------------------------------------------------------------------------
(* The plan of the queue *)

LEMMA HasMinimum ==
    ASSUME NEW T, T \subseteq Nat, T # {}
    PROVE  \E m \in T : \A n \in T : m <= n
<1>1. PICK m \in T : \A n \in T : ~(<<n, m>> \in OpToRel(<, Nat))
  BY NatLessThanWellFounded, WFMin
<1>2. \A n \in T : ~(n < m)
  BY <1>1 DEF OpToRel
<1>3. m \in Nat /\ \A n \in T : n \in Nat
  BY <1>1
<1>4. \A n \in T : m <= n
  BY <1>2, <1>3
<1> QED  BY <1>1, <1>4

LEMMA Positions ==
    /\ DOMAIN Order \subseteq Nat
    /\ \A t \in Task : Position(t) \in DOMAIN Order /\ Order[Position(t)] = t
    /\ Task \subseteq Child /\ Seed \in Task /\ NoTask \notin Task
<1>1. Order \in Seq(Child) /\ Len(Order) > 0 /\ NoTask \notin Child
  BY SessionAssumption
<1>2. DOMAIN Order = 1 .. Len(Order) /\ Len(Order) \in Nat
      /\ \A i \in DOMAIN Order : Order[i] \in Child
  BY <1>1
<1>3. \A t \in Task : \E i \in DOMAIN Order : Order[i] = t
  BY DEF Task
<1>4. \A t \in Task : Position(t) \in DOMAIN Order /\ Order[Position(t)] = t
  BY <1>3 DEF Position
<1>5. Seed \in Task
  BY <1>1, <1>2 DEF Seed, Task
<1> QED  BY <1>1, <1>2, <1>4, <1>5 DEF Task

(* A plan that names a task names one of the approved order.                 *)
LEMMA PlanType == QueuePlan \in Plans
<1>1. CASE Opened = {} \/ ~(Opened \subseteq Task) \/ OrderConflict \/ NoPosition
           \/ Ready = {}
  BY <1>1 DEF QueuePlan, Plans
<1>2. CASE Opened # {} /\ Opened \subseteq Task /\ ~OrderConflict /\ ~NoPosition
           /\ Ready # {}
  <2>1. Ready \subseteq Task
    BY <1>2 DEF Ready
  <2> DEFINE T == {Position(t) : t \in Ready}
  <2>2. T \subseteq Nat /\ T # {}
    BY <1>2, <2>1, Positions
  <2>3. PICK m \in T : \A n \in T : m <= n
    BY <2>2, HasMinimum
  <2>4. \E t \in Ready : \A u \in Ready : Position(t) <= Position(u)
    BY <2>3
  <2>5. (CHOOSE t \in Ready : \A u \in Ready : Position(t) <= Position(u)) \in Task
    BY <2>1, <2>4
  <2>6. QueuePlan = [state |-> "RUN_TASK",
            task |-> CHOOSE t \in Ready : \A u \in Ready : Position(t) <= Position(u)]
    BY <1>2 DEF QueuePlan
  <2> HIDE DEF T
  <2> QED  BY <2>5, <2>6 DEF Plans
<1> QED  BY <1>1, <1>2

-----------------------------------------------------------------------------
(* Lemmas for every step *)

Cursor == [current : Task, completed : SUBSET Task, pending : Task \cup {NoTask},
           mode : {"TASK", "FINAL", "DONE"}]

SessionType ==
    /\ cursor \in Cursor
    /\ phase \in [Task -> Phases]
    /\ base \in [Task -> Nat] /\ merge \in [Task -> Nat] /\ head \in Nat
    /\ at \in Steps /\ plan \in Plans /\ seen \in Nat

LEMMA Types ==
    /\ TypeOK <=> FinalTypeOK /\ SessionType /\ (fat = "off" <=> at # "final")
    /\ TypeOK' <=> FinalTypeOK' /\ SessionType' /\ (fat' = "off" <=> at' # "final")
BY DEF TypeOK, SessionType, Cursor

LEMMA CursorFacts ==
    ASSUME IInv
    PROVE  /\ SessionType /\ FinalTypeOK /\ (fat = "off" <=> at # "final")
           /\ Current \in Task /\ cursor.completed \subseteq Task
           /\ cursor.pending \in Task \cup {NoTask} /\ NoTask \notin Task
           /\ cursor.mode \in {"TASK", "FINAL", "DONE"} /\ Seed \in Task
<1>1. SessionType /\ FinalTypeOK /\ (fat = "off" <=> at # "final")
  BY Types DEF IInv
<1> QED  BY <1>1, Positions DEF SessionType, Cursor, Current

LEMMA FaultFacts ==
    ASSUME IInv, Fault \/ NoFault
    PROVE  faults' \in 0 .. MaxFaults
BY SessionAssumption DEF IInv, TypeOK, FinalTypeOK, Fault, NoFault

LEMMA OpOrder == FOp = {1, 2, 3, 4} /\ PostMerge = {3, 4} /\ Create = 1 /\ Merge = 2
                 /\ Close = 3 /\ Update = 4
BY DEF FOp, PostMerge, Create, Merge, Close, Update

(* A step outside the final delivery.                                        *)
LEMMA KeepsFinal ==
    ASSUME IInv,
           UNCHANGED <<fcall, entries, evidence, pr, ci, epic, comments, finflight,
                       flanded>>,
           cursor.mode # "TASK" => cursor'.mode # "TASK",
           cursor'.mode = "DONE" => cursor.mode = "DONE"
    PROVE  FinalInv' /\ GreenInv'
<1>1. UNCHANGED <<fat, fop>>
  BY DEF fcall
<1>2. FinalInv'
  BY <1>1 DEF IInv, FinalInv, IsApplied
<1>3. GreenInv'
  BY <1>1 DEF IInv, GreenInv
<1> QED  BY <1>2, <1>3

(* A step that leaves the tasks alone; the head of the roadmap only grows.   *)
LEMMA KeepsTasks ==
    ASSUME IInv, UNCHANGED <<cursor, phase, base, merge>>, head' \in Nat, head <= head'
    PROVE  CursorInv' /\ RoadmapInv' /\ StartsOnMerge'
<1>1. CursorInv' /\ StartsOnMerge'
  BY DEF IInv, CursorInv, StartsOnMerge, Started, Finished, Current
<1>2. \A t \in Task : base'[t] <= head' /\ merge'[t] <= head'
  <2>1. head \in Nat /\ \A t \in Task : base[t] \in Nat /\ merge[t] \in Nat
    BY CursorFacts DEF SessionType
  <2> QED  BY <2>1 DEF IInv, RoadmapInv
<1>3. RoadmapInv'
  BY <1>2 DEF IInv, RoadmapInv, Started, Merged, Current
<1> QED  BY <1>1, <1>3

(* A step of the session that leaves the final delivery and the tasks alone.  *)
LEMMA Quiet ==
    ASSUME IInv, UNCHANGED <<cursor, phase, base, merge>>, head' \in Nat, head <= head',
           UNCHANGED <<fcall, entries, evidence, pr, ci, epic, comments, finflight,
                       flanded>>,
           FinalTypeOK', at' \in Steps, plan' \in Plans, seen' \in Nat,
           at' = "final" <=> at = "final", PlaceInv'
    PROVE  IInv'
<1>1. CursorInv' /\ RoadmapInv' /\ StartsOnMerge'
  BY KeepsTasks
<1>2. FinalInv' /\ GreenInv'
  BY KeepsFinal
<1>3. SessionType' /\ (fat' = "off" <=> at' # "final")
  BY CursorFacts DEF SessionType, fcall
<1>4. TypeOK'
  BY <1>3, Types
<1> QED  BY <1>1, <1>2, <1>4 DEF IInv

(* Nothing the final delivery keeps is changed.                              *)
LEMMA SameFinal ==
    ASSUME IInv, Outside, faults' \in 0 .. MaxFaults
    PROVE  /\ FinalTypeOK'
           /\ UNCHANGED <<fcall, fat, fop, entries, evidence, owner, pr, ci, epic,
                          comments, finflight, flanded, issue, roadmap, main>>
BY CursorFacts DEF Outside, fcall, remote, FinalTypeOK

-----------------------------------------------------------------------------
(* The steps of Session.resume() *)

LEMMA StepStart ==
    ASSUME IInv, Start
    PROVE  IInv'
<1>1. at = "idle" /\ cursor.mode # "DONE" /\ at' = "loop"
      /\ UNCHANGED <<cursor, phase, base, merge, head, plan, seen, faults>> /\ Outside
  BY DEF Start, Goto, progress
<1>2. faults' \in 0 .. MaxFaults
  BY <1>1, FaultFacts DEF NoFault
<1>3. PlaceInv'
  BY <1>1 DEF PlaceInv, Planning, Preparing
<1> QED  BY <1>1, <1>2, <1>3, SameFinal, CursorFacts, Quiet DEF SessionType, Steps

LEMMA StepSelect ==
    ASSUME IInv, Select
    PROVE  IInv'
<1>1. at = "select" /\ at' \in {"complete", "idle"}
      /\ UNCHANGED <<cursor, phase, base, merge, head, seen>> /\ Outside
  BY DEF Select, Goto, progress
<1>2. plan' \in Plans
  BY CursorFacts, PlanType DEF Select, SessionType
<1>3. faults' \in 0 .. MaxFaults
  BY FaultFacts DEF Select
<1>4. PlaceInv'
  BY <1>1 DEF IInv, PlaceInv, Planning, Preparing, Finished, Current
<1> QED  BY <1>1, <1>2, <1>3, <1>4, SameFinal, CursorFacts, Quiet DEF SessionType, Steps

LEMMA StepLoop ==
    ASSUME IInv, Loop
    PROVE  IInv'
<1>1. at = "loop" /\ cursor.mode \in {"TASK", "FINAL"} /\ fat = "off"
      /\ UNCHANGED <<cursor, phase, base, merge, head, plan, seen, faults>>
      /\ UNCHANGED <<entries, evidence, owner, issue, roadmap, main, pr, ci, epic,
                     comments, finflight, flanded>>
  BY CursorFacts DEF Loop, progress, remote, IInv, PlaceInv
<1>2. CASE at' \in {"select", "task", "idle"} /\ UNCHANGED fcall
           /\ (at' = "select" => Finished(Current))
           /\ (at' # "idle" => cursor.mode = "TASK")
  <2>1. PlaceInv'
    BY <1>1, <1>2 DEF PlaceInv, Planning, Preparing, Finished, Current
  <2>2. FinalTypeOK'
    BY <1>1, <1>2, CursorFacts DEF FinalTypeOK, fcall
  <2> QED  BY <1>1, <1>2, <2>1, <2>2, CursorFacts, Quiet DEF SessionType, Steps
<1>3. CASE cursor.mode = "FINAL" /\ at' = "final" /\ fat' = "decide" /\ fop' = Create
  <2>1. PlaceInv'
    BY <1>1, <1>3 DEF PlaceInv, Planning, Preparing
  <2>2. FinalTypeOK'
    BY <1>1, <1>3, CursorFacts, OpOrder DEF FinalTypeOK, FSteps
  <2>3. CursorInv' /\ RoadmapInv' /\ StartsOnMerge'
    BY <1>1, CursorFacts, KeepsTasks DEF SessionType
  <2>4. FinalInv'
    BY <1>1, <1>3, OpOrder DEF IInv, FinalInv, IsApplied, Open
  <2>5. GreenInv'
    BY <1>1, <1>3 DEF IInv, GreenInv
  <2>6. TypeOK'
    BY <1>1, <1>3, <2>2, CursorFacts, Types DEF SessionType, Steps
  <2> QED  BY <2>1, <2>3, <2>4, <2>5, <2>6 DEF IInv
<1> QED  BY <1>1, <1>2, <1>3 DEF Loop, Goto, Finished

(* A step of the session that changes the cursor or the tasks.               *)
LEMMA Combine ==
    ASSUME IInv,
           UNCHANGED <<fcall, entries, evidence, pr, ci, epic, comments, finflight,
                       flanded>>,
           cursor.mode # "TASK" => cursor'.mode # "TASK",
           cursor'.mode = "DONE" => cursor.mode = "DONE",
           FinalTypeOK', SessionType', at' = "final" <=> at = "final",
           CursorInv', RoadmapInv', PlaceInv', StartsOnMerge'
    PROVE  IInv'
<1>1. FinalInv' /\ GreenInv'
  BY KeepsFinal
<1>2. TypeOK'
  BY CursorFacts, Types DEF fcall
<1> QED  BY <1>1, <1>2 DEF IInv

(* A new value of the cursor keeps its form.                                 *)
LEMMA CursorExcept ==
    ASSUME IInv
    PROVE  /\ \A S \in SUBSET Task :
                 LET k == [cursor EXCEPT !.completed = S] IN
                 /\ k \in Cursor /\ k.current = cursor.current /\ k.completed = S
                 /\ k.pending = cursor.pending /\ k.mode = cursor.mode
           /\ \A t \in Task \cup {NoTask} :
                 LET k == [cursor EXCEPT !.pending = t] IN
                 /\ k \in Cursor /\ k.current = cursor.current /\ k.pending = t
                 /\ k.completed = cursor.completed /\ k.mode = cursor.mode
           /\ \A m \in {"FINAL", "DONE"} :
                 LET k == [cursor EXCEPT !.mode = m] IN
                 /\ k \in Cursor /\ k.current = cursor.current /\ k.mode = m
                 /\ k.completed = cursor.completed /\ k.pending = cursor.pending
           /\ \A t \in Task :
                 LET k == [cursor EXCEPT !.current = t, !.pending = NoTask] IN
                 /\ k \in Cursor /\ k.current = t /\ k.pending = NoTask
                 /\ k.completed = cursor.completed /\ k.mode = cursor.mode
<1>1. cursor \in Cursor
  BY CursorFacts DEF SessionType
<1> QED  BY <1>1 DEF Cursor

LEMMA StepComplete ==
    ASSUME IInv, Complete
    PROVE  IInv'
<1>1. /\ at = "complete" /\ at' = "choose"
      /\ cursor' = [cursor EXCEPT !.completed = cursor.completed \cup {Current}]
      /\ UNCHANGED <<phase, base, merge, head, plan, seen, faults>> /\ Outside
  BY DEF Complete, Goto, progress
<1>2. FinalTypeOK' /\ UNCHANGED <<fcall, entries, evidence, pr, ci, epic, comments,
                                  finflight, flanded>>
  BY <1>1, FaultFacts, SameFinal DEF NoFault
<1>3. /\ cursor' \in Cursor /\ cursor'.current = Current
      /\ cursor'.completed = cursor.completed \cup {Current}
      /\ cursor'.pending = cursor.pending /\ cursor'.mode = cursor.mode
  <2>1. cursor.completed \cup {Current} \in SUBSET Task
    BY CursorFacts
  <2> QED  BY <1>1, <2>1, CursorExcept DEF Current
<1>4. SessionType'
  BY <1>1, <1>3, CursorFacts DEF SessionType, Steps
<1>5. Finished(Current) /\ Current \in Task
  BY <1>1, CursorFacts DEF IInv, PlaceInv, Planning
<1>6. CursorInv'
  BY <1>1, <1>3, <1>5 DEF IInv, CursorInv, Finished, Started, Current
<1>7. RoadmapInv'
  BY <1>1, <1>3 DEF IInv, RoadmapInv, Started, Merged, Current
<1>8. PlaceInv'
  BY <1>1, <1>3, <1>5 DEF IInv, PlaceInv, Planning, Preparing, Finished, Current
<1>9. StartsOnMerge'
  BY <1>1, <1>3 DEF IInv, StartsOnMerge
<1> QED  BY <1>1, <1>2, <1>3, <1>4, <1>6, <1>7, <1>8, <1>9, Combine

(* The successor is not begun before the cursor names it.                    *)
LEMMA StepChoose ==
    ASSUME IInv, Choose
    PROVE  IInv'
<1>1. /\ at = "choose" /\ UNCHANGED <<phase, base, merge, head, plan, seen, faults>>
      /\ Outside
  BY DEF Choose, progress
<1>2. FinalTypeOK' /\ UNCHANGED <<fcall, entries, evidence, pr, ci, epic, comments,
                                  finflight, flanded>>
  BY <1>1, FaultFacts, SameFinal DEF NoFault
<1>3. /\ Finished(Current) /\ Current \in cursor.completed /\ cursor.mode = "TASK"
      /\ CursorInv /\ RoadmapInv /\ StartsOnMerge
  BY <1>1 DEF IInv, PlaceInv, Planning
<1>4. plan \in Plans /\ (plan.state = "RUN_TASK" => plan.task \in Task)
  BY CursorFacts DEF SessionType, Plans
<1>5. CASE UNCHANGED cursor /\ at' \in {"idle", "adopt"}
           /\ (at' = "adopt" => plan.state = "RUN_TASK" /\ cursor.pending = plan.task
                                /\ Prepared(plan.task))
  <2>1. PlaceInv'
    BY <1>1, <1>3, <1>5 DEF PlaceInv, Planning, Preparing, Prepared
  <2> QED  BY <1>1, <1>2, <1>5, <2>1, CursorFacts, Quiet DEF SessionType, Steps
<1>6. CASE /\ plan.state = "FINAL_GATE" /\ cursor.pending = NoTask
           /\ cursor' = [cursor EXCEPT !.mode = "FINAL"] /\ at' = "loop"
  <2>1. /\ cursor' \in Cursor /\ cursor'.current = Current /\ cursor'.mode = "FINAL"
        /\ cursor'.completed = cursor.completed /\ cursor'.pending = cursor.pending
    BY <1>6, CursorExcept DEF Current
  <2>2. SessionType'
    BY <1>1, <1>6, <2>1, CursorFacts DEF SessionType, Steps
  <2>3. CursorInv' /\ RoadmapInv'
    BY <1>1, <1>3, <1>6, <2>1
       DEF CursorInv, RoadmapInv, Finished, Started, Merged, Current
  <2>4. PlaceInv'
    BY <1>1, <1>6, <2>1 DEF PlaceInv, Planning, Preparing
  <2>5. StartsOnMerge'
    BY <1>1, <1>3, <2>1 DEF StartsOnMerge
  <2> QED  BY <1>1, <1>2, <1>3, <1>6, <2>1, <2>2, <2>3, <2>4, <2>5, Combine
<1>7. CASE /\ plan.state = "RUN_TASK" /\ plan.task \notin cursor.completed
           /\ cursor.pending = NoTask
           /\ cursor' = [cursor EXCEPT !.pending = plan.task] /\ at' = "prepare"
  <2>1. /\ cursor' \in Cursor /\ cursor'.current = Current /\ cursor'.mode = "TASK"
        /\ cursor'.completed = cursor.completed /\ cursor'.pending = plan.task
    BY <1>3, <1>4, <1>7, CursorExcept DEF Current
  <2>2. SessionType'
    BY <1>1, <1>7, <2>1, CursorFacts DEF SessionType, Steps
  <2>3. plan.task # Current /\ plan.task \in Task /\ plan.task # NoTask
        /\ phase[plan.task] = "absent"
    BY <1>3, <1>4, <1>7, CursorFacts DEF CursorInv, Finished
  <2>4. CursorInv'
    BY <1>1, <1>3, <1>7, <2>1, <2>3, CursorFacts
       DEF CursorInv, Finished, Started, Current
  <2>5. RoadmapInv'
    BY <1>1, <1>3, <1>7, <2>1, <2>3, CursorFacts
       DEF RoadmapInv, Started, Merged, Current
  <2>6. PlaceInv'
    BY <1>1, <1>7, <2>1, <2>3 DEF PlaceInv, Planning, Preparing
  <2>7. StartsOnMerge'
    BY <1>1, <1>3, <2>1 DEF StartsOnMerge
  <2> QED  BY <1>1, <1>2, <1>3, <1>7, <2>1, <2>2, <2>4, <2>5, <2>6, <2>7, Combine
<1> QED  BY <1>5, <1>6, <1>7 DEF Choose, Goto

LEMMA StepPrepare ==
    ASSUME IInv, Prepare
    PROVE  IInv'
<1>1. /\ at = "prepare" /\ UNCHANGED <<phase, base, merge, head, plan>>
      /\ Outside /\ seen' = head
  BY DEF Prepare, progress
<1>2. FinalTypeOK' /\ UNCHANGED <<fcall, entries, evidence, pr, ci, epic, comments,
                                  finflight, flanded>>
  BY <1>1, FaultFacts, SameFinal DEF Prepare
<1>3. /\ phase[plan.task] = "absent" /\ cursor.pending = plan.task
      /\ cursor.mode = "TASK" /\ plan.state = "RUN_TASK"
      /\ CursorInv /\ RoadmapInv /\ StartsOnMerge
  BY <1>1 DEF IInv, PlaceInv, Preparing
<1>4. CASE UNCHANGED cursor /\ at' \in {"mutate", "idle"}
           /\ (at' = "mutate" => head = merge[Current])
  <2>1. PlaceInv'
    BY <1>1, <1>3, <1>4 DEF PlaceInv, Planning, Preparing, Current
  <2> QED  BY <1>1, <1>2, <1>4, <2>1, CursorFacts, Quiet DEF SessionType, Steps
<1>5. CASE cursor' = [cursor EXCEPT !.pending = NoTask] /\ at' = "idle"
  <2>1. /\ cursor' \in Cursor /\ cursor'.current = Current /\ cursor'.mode = cursor.mode
        /\ cursor'.completed = cursor.completed /\ cursor'.pending = NoTask
    BY <1>5, CursorExcept DEF Current
  <2>2. SessionType'
    BY <1>1, <1>5, <2>1, CursorFacts DEF SessionType, Steps
  <2>3. CursorInv'
    BY <1>1, <1>3, <1>5, <2>1 DEF CursorInv, Finished, Started, Current
  <2>4. RoadmapInv'
    BY <1>1, <1>3, <2>1 DEF RoadmapInv, Started, Merged, Current
  <2>5. PlaceInv'
    BY <1>3, <1>5, <2>1 DEF PlaceInv, Planning, Preparing
  <2>6. StartsOnMerge'
    BY <1>1, <1>3, <2>1 DEF StartsOnMerge
  <2> QED  BY <1>1, <1>2, <1>5, <2>1, <2>2, <2>3, <2>4, <2>5, <2>6, Combine
<1> QED  BY <1>4, <1>5 DEF Prepare, Goto, MayPrepare

LEMMA StepMutate ==
    ASSUME IInv, Mutate
    PROVE  IInv'
<1>1. /\ at = "mutate" /\ UNCHANGED <<cursor, base, merge, head, plan, seen>>
      /\ Outside /\ at' \in {"save", "idle"}
      /\ phase' = [phase EXCEPT ![plan.task] = "partial"]
  BY DEF Mutate, Goto
<1>2. FinalTypeOK' /\ UNCHANGED <<fcall, entries, evidence, pr, ci, epic, comments,
                                  finflight, flanded>>
  BY <1>1, FaultFacts, SameFinal DEF Mutate
<1>3. /\ phase[plan.task] = "absent" /\ cursor.pending = plan.task
      /\ cursor.mode = "TASK" /\ plan.state = "RUN_TASK" /\ seen = merge[Current]
      /\ CursorInv /\ RoadmapInv /\ StartsOnMerge
  BY <1>1 DEF IInv, PlaceInv, Preparing
<1>4. plan.task \in Task /\ plan.task # NoTask /\ plan.task # Current
      /\ phase \in [Task -> Phases] /\ Current \in Task
  BY <1>3, CursorFacts DEF SessionType, Plans, CursorInv
<1>5. /\ phase' \in [Task -> Phases] /\ phase'[plan.task] = "partial"
      /\ \A t \in Task \ {plan.task} : phase'[t] = phase[t]
  BY <1>1, <1>4 DEF Phases
<1>6. SessionType'
  BY <1>1, <1>5, CursorFacts DEF SessionType, Steps
<1>7. CursorInv'
  BY <1>1, <1>3, <1>4, <1>5 DEF CursorInv, Finished, Started, Current
<1>8. RoadmapInv'
  BY <1>1, <1>3, <1>4, <1>5 DEF RoadmapInv, Started, Merged, Current
<1>9. PlaceInv'
  BY <1>1, <1>3, <1>5, <1>4 DEF PlaceInv, Planning, Preparing, Current
<1>10. StartsOnMerge'
  BY <1>1, <1>3, <1>4, <1>5 DEF StartsOnMerge
<1> QED  BY <1>1, <1>2, <1>6, <1>7, <1>8, <1>9, <1>10, Combine

(* The commit the successor stands on is the merge of the current task, and  *)
(* every other task stands on an older one.                                  *)
LEMMA StepSave ==
    ASSUME IInv, Save
    PROVE  IInv'
<1>1. /\ at = "save" /\ UNCHANGED <<cursor, merge, head, plan, seen, faults>>
      /\ Outside /\ at' = "adopt"
      /\ phase' = [phase EXCEPT ![plan.task] = "PLAN"]
      /\ base' = [base EXCEPT ![plan.task] = seen]
  BY DEF Save, Goto
<1>2. FinalTypeOK' /\ UNCHANGED <<fcall, entries, evidence, pr, ci, epic, comments,
                                  finflight, flanded>>
  BY <1>1, FaultFacts, SameFinal DEF NoFault
<1>3. /\ phase[plan.task] = "partial" /\ cursor.pending = plan.task
      /\ cursor.mode = "TASK" /\ plan.state = "RUN_TASK" /\ seen = merge[Current]
      /\ CursorInv /\ RoadmapInv /\ StartsOnMerge
  BY <1>1 DEF IInv, PlaceInv, Preparing
<1>4. plan.task \in Task /\ plan.task # NoTask /\ plan.task # Current
      /\ phase \in [Task -> Phases] /\ Current \in Task /\ seen \in Nat
      /\ base \in [Task -> Nat] /\ merge \in [Task -> Nat]
  BY <1>3, CursorFacts DEF SessionType, Plans, CursorInv
<1>5. /\ phase' \in [Task -> Phases] /\ phase'[plan.task] = "PLAN"
      /\ \A t \in Task \ {plan.task} : phase'[t] = phase[t]
      /\ base' \in [Task -> Nat] /\ base'[plan.task] = merge[Current]
      /\ \A t \in Task \ {plan.task} : base'[t] = base[t]
  BY <1>1, <1>3, <1>4 DEF Phases
<1>6. SessionType'
  BY <1>1, <1>5, CursorFacts DEF SessionType, Steps
<1>7. Finished(Current) /\ Current \in cursor.completed
  BY <1>3, <1>4 DEF CursorInv
<1>8. CursorInv'
  BY <1>1, <1>3, <1>4, <1>5 DEF CursorInv, Finished, Started, Current
<1>9. RoadmapInv'
  BY <1>1, <1>3, <1>4, <1>5 DEF RoadmapInv, Started, Merged, Current
<1>10. PlaceInv'
  BY <1>1, <1>3, <1>5, <1>4 DEF PlaceInv, Planning, Preparing
<1>11. StartsOnMerge'
  <2> DEFINE started == {t \in Task : phase[t] \notin {"absent", "partial"}}
  <2>1. \A t \in Task : phase'[t] \notin {"absent", "partial"}
                           => t = plan.task \/ t \in started
    BY <1>5
  <2>2. \A t \in started : base[t] < merge[Current] /\ t # plan.task
    BY <1>3, <1>4, <1>7 DEF RoadmapInv, Merged, Finished, Started
  <2>3. \A t \in started \ {Seed} : \E p \in cursor.completed : base[t] = merge[p]
    BY <1>3 DEF StartsOnMerge
  <2>4. \A t, u \in started : base[t] = base[u] => t = u
    BY <1>3 DEF StartsOnMerge
  <2> QED  BY <1>1, <1>4, <1>5, <1>7, <2>1, <2>2, <2>3, <2>4 DEF StartsOnMerge
<1> QED  BY <1>1, <1>2, <1>6, <1>8, <1>9, <1>10, <1>11, Combine

LEMMA StepAdopt ==
    ASSUME IInv, Adopt
    PROVE  IInv'
<1>1. /\ at = "adopt" /\ UNCHANGED <<phase, base, merge, head, plan, seen, faults>>
      /\ Outside
  BY DEF Adopt, progress
<1>2. FinalTypeOK' /\ UNCHANGED <<fcall, entries, evidence, pr, ci, epic, comments,
                                  finflight, flanded>>
  BY <1>1, FaultFacts, SameFinal DEF NoFault
<1>3. /\ phase[plan.task] = "PLAN" /\ cursor.pending = plan.task
      /\ cursor.mode = "TASK" /\ plan.state = "RUN_TASK"
      /\ CursorInv /\ RoadmapInv /\ StartsOnMerge
  BY <1>1 DEF IInv, PlaceInv, Preparing
<1>4. CASE at' = "idle" /\ UNCHANGED cursor
  <2>1. PlaceInv'
    BY <1>1, <1>4 DEF IInv, PlaceInv, Planning, Preparing
  <2> QED  BY <1>1, <1>2, <1>4, <2>1, CursorFacts, Quiet DEF SessionType, Steps
<1>5. CASE at' = "loop" /\ cursor' = [cursor EXCEPT !.current = plan.task,
                                                    !.pending = NoTask]
  <2>1. plan.task \in Task /\ plan.task # NoTask /\ plan.task # Current
        /\ Current \in Task /\ Finished(Current) /\ Current \in cursor.completed
    BY <1>3, CursorFacts DEF SessionType, Plans, CursorInv
  <2>2. /\ cursor' \in Cursor /\ cursor'.current = plan.task /\ cursor'.mode = "TASK"
        /\ cursor'.completed = cursor.completed /\ cursor'.pending = NoTask
    BY <1>3, <1>5, <2>1, CursorExcept
  <2>3. SessionType'
    BY <1>1, <1>5, <2>2, CursorFacts DEF SessionType, Steps
  <2>4. CursorInv'
    BY <1>1, <1>3, <2>1, <2>2 DEF CursorInv, Finished, Started, Current
  <2>5. RoadmapInv'
    BY <1>1, <1>3, <2>2 DEF RoadmapInv, Merged, Current
  <2>6. PlaceInv'
    BY <1>5, <2>2 DEF PlaceInv, Planning, Preparing
  <2>7. StartsOnMerge'
    BY <1>1, <1>3, <2>2 DEF StartsOnMerge
  <2> QED  BY <1>1, <1>2, <1>3, <1>5, <2>2, <2>3, <2>4, <2>5, <2>6, <2>7, Combine
<1> QED  BY <1>4, <1>5 DEF Adopt, Goto

-----------------------------------------------------------------------------
(* The phases of the current task *)

(* A phase before the end changes what is known of no other task.            *)
LEMMA CurrentMoves ==
    ASSUME IInv, NEW p \in Phases \ {"absent", "partial"}, phase' = [phase EXCEPT ![Current] = p],
           ~Finished(Current), UNCHANGED cursor
    PROVE  /\ CursorInv' /\ phase' \in [Task -> Phases] /\ phase'[Current] = p
           /\ \A t \in Task \ {Current} : phase'[t] = phase[t]
           /\ cursor.pending = NoTask
<1>1. phase \in [Task -> Phases] /\ Current \in Task /\ CursorInv
      /\ cursor.pending = NoTask
  BY CursorFacts DEF SessionType, IInv, CursorInv
<1>2. /\ phase' \in [Task -> Phases] /\ phase'[Current] = p
      /\ \A t \in Task \ {Current} : phase'[t] = phase[t]
  BY <1>1
<1>3. cursor.mode = "TASK"
  BY CursorFacts DEF IInv, CursorInv
<1>4. CursorInv'
  BY <1>1, <1>2, <1>3 DEF CursorInv, Finished, Started, Current
<1> QED  BY <1>1, <1>2, <1>4

LEMMA StepTask ==
    ASSUME IInv, TaskStep
    PROVE  IInv'
<1>1. /\ at = "task" /\ UNCHANGED <<cursor, plan, seen>>
      /\ UNCHANGED <<fcall, entries, evidence, owner, roadmap, main, pr, ci, epic,
                     comments, finflight, flanded>>
      /\ at' \in {"task", "select", "idle"} /\ cursor.mode = "TASK"
  BY DEF TaskStep, Goto, IInv, PlaceInv
<1>2. faults' \in 0 .. MaxFaults
  BY FaultFacts DEF TaskStep
<1>3. issue \in [Child -> {"none", "OPEN", "CLOSED"}] /\ Current \in Child
      /\ phase \in [Task -> Phases] /\ merge \in [Task -> Nat] /\ head \in Nat
      /\ base \in [Task -> Nat] /\ Current \in Task
  BY CursorFacts, Positions DEF FinalTypeOK, SessionType
<1>4. CASE at' = "idle" /\ UNCHANGED <<progress, issue>>
  <2>1. UNCHANGED <<phase, base, merge, head, issue>>
    BY <1>4 DEF progress
  <2>2. PlaceInv'
    BY <1>4 DEF PlaceInv, Planning, Preparing
  <2>3. FinalTypeOK'
    BY <1>1, <1>2, <2>1, CursorFacts DEF FinalTypeOK, fcall
  <2> QED  BY <1>1, <1>3, <1>4, <2>1, <2>2, <2>3, CursorFacts, Quiet DEF SessionType, Steps
<1>5. CASE /\ TaskMoves
           /\ at' = IF phase'[Current] = "NEXT_TASK" THEN "select" ELSE "task"
  <2>1. issue' \in [Child -> {"none", "OPEN", "CLOSED"}]
    BY <1>3, <1>5 DEF TaskMoves, TaskToPR, TaskToMerge, TaskToDone, TaskToNext
  <2>2. FinalTypeOK'
    BY <1>1, <1>2, <2>1, CursorFacts DEF FinalTypeOK, fcall
  <2>3. ~Finished(Current) /\ UNCHANGED base
    BY <1>5 DEF TaskMoves, TaskToPR, TaskToMerge, TaskToDone, TaskToNext, Finished
  <2>4. PICK p \in Phases \ {"absent", "partial"} :
          /\ phase' = [phase EXCEPT ![Current] = p]
          /\ \/ p = "PR_CI" /\ UNCHANGED <<head, merge>>
             \/ p = "MERGE" /\ head' = head + 1
                /\ merge' = [merge EXCEPT ![Current] = head + 1]
             \/ p \in {"TASK_DONE", "NEXT_TASK"} /\ Merged(Current)
                /\ UNCHANGED <<head, merge>>
    BY <1>5 DEF TaskMoves, TaskToPR, TaskToMerge, TaskToDone, TaskToNext,
                ToPhase, Phases, Merged
  <2>5. /\ CursorInv' /\ phase' \in [Task -> Phases] /\ phase'[Current] = p
        /\ \A t \in Task \ {Current} : phase'[t] = phase[t]
        /\ cursor.pending = NoTask
    BY <1>1, <2>3, <2>4, CurrentMoves
  <2>6. /\ head' \in Nat /\ head <= head' /\ merge' \in [Task -> Nat]
        /\ \A t \in Task \ {Current} : merge'[t] = merge[t]
    BY <1>3, <2>4
  <2>7. SessionType'
    BY <1>1, <2>3, <2>5, <2>6, CursorFacts DEF SessionType, Steps
  <2>8. Started(Current) /\ \A t \in Task : Started(t)' <=> Started(t)
    BY <2>4, <2>5 DEF IInv, CursorInv, Started
  <2>9. RoadmapInv'
    <3>1. RoadmapInv
      BY DEF IInv
    <3>2. \A t \in Task : base[t] <= head /\ merge[t] <= head
      BY <3>1 DEF RoadmapInv
    <3>3. CASE p = "PR_CI" /\ UNCHANGED <<head, merge>>
      BY <1>1, <2>3, <2>5, <3>1, <3>3 DEF RoadmapInv, Merged, Current
    <3>4. CASE p = "MERGE" /\ head' = head + 1
                /\ merge' = [merge EXCEPT ![Current] = head + 1]
      <4>1. \A t \in Task : base'[t] <= head' /\ merge'[t] <= head'
                            /\ base'[t] < merge'[Current]
        BY <1>3, <2>3, <3>2, <3>4
      <4> QED  BY <1>1, <2>5, <4>1 DEF RoadmapInv, Current
    <3>5. CASE Merged(Current) /\ UNCHANGED <<head, merge>>
      BY <1>1, <2>3, <2>5, <2>8, <3>1, <3>5 DEF RoadmapInv, Current
    <3> QED  BY <2>4, <3>3, <3>4, <3>5
  <2>10. PlaceInv'
    BY <1>1, <1>5, <2>5 DEF PlaceInv, Planning, Preparing, Finished, Current
  <2>11. StartsOnMerge'
    <3>1. \A t \in cursor.completed : merge'[t] = merge[t]
      BY <1>3, <2>3, <2>6, CursorFacts DEF IInv, CursorInv
    <3>2. {t \in Task : phase'[t] \notin {"absent", "partial"}}
             = {t \in Task : phase[t] \notin {"absent", "partial"}}
      BY <2>8 DEF Started
    <3> QED  BY <1>1, <2>3, <3>1, <3>2 DEF IInv, StartsOnMerge
  <2> QED  BY <1>1, <1>5, <2>2, <2>5, <2>7, <2>9, <2>10, <2>11, Combine
<1>6. CASE CutShort /\ at' = "idle"
  <2>1. issue' \in [Child -> {"none", "OPEN", "CLOSED"}]
    BY <1>3, <1>6 DEF CutShort
  <2>2. FinalTypeOK'
    BY <1>1, <1>2, <2>1, CursorFacts DEF FinalTypeOK, fcall
  <2>3. ~Finished(Current) /\ UNCHANGED <<base, merge, head>>
    BY <1>6 DEF CutShort, Finished
  <2>4. PICK p \in Unknown :
          /\ phase' = [phase EXCEPT ![Current] = p]
          /\ p = "TASK_DONE_UNKNOWN" => Merged(Current)
    BY <1>6 DEF CutShort, ToPhase, Unknown, Merged
  <2>p. p \in Phases \ {"absent", "partial"}
    BY DEF Phases, Unknown
  <2>5. /\ CursorInv' /\ phase' \in [Task -> Phases] /\ phase'[Current] = p
        /\ \A t \in Task \ {Current} : phase'[t] = phase[t]
        /\ cursor.pending = NoTask
    BY <1>1, <2>3, <2>4, <2>p, CurrentMoves
  <2>6. SessionType'
    BY <1>1, <1>6, <2>3, <2>5, CursorFacts DEF SessionType, Steps
  <2>7. Started(Current) /\ \A t \in Task : Started(t)' <=> Started(t)
    BY <2>5, <2>p DEF IInv, CursorInv, Started
  <2>8. Merged(Current)' => Merged(Current)
    BY <1>1, <2>4, <2>5 DEF Merged, Unknown, Current
  <2>9. RoadmapInv'
    BY <1>1, <2>3, <2>5, <2>7, <2>8 DEF IInv, RoadmapInv, Current
  <2>10. PlaceInv'
    BY <1>6 DEF PlaceInv, Planning, Preparing
  <2>11. StartsOnMerge'
    <3>1. {t \in Task : phase'[t] \notin {"absent", "partial"}}
             = {t \in Task : phase[t] \notin {"absent", "partial"}}
      BY <2>7 DEF Started
    <3> QED  BY <1>1, <2>3, <3>1 DEF IInv, StartsOnMerge
  <2> QED  BY <1>1, <1>6, <2>2, <2>5, <2>6, <2>9, <2>10, <2>11, Combine
<1> QED  BY <1>4, <1>5, <1>6 DEF TaskStep, Goto

-----------------------------------------------------------------------------
(* The end of a call *)

LEMMA FinalOff ==
    ASSUME IInv, fat' = "off", at' = "idle",
           UNCHANGED <<phase, base, merge, head, plan, seen, fop, entries, evidence,
                       owner, issue, roadmap, main, pr, ci, epic, comments,
                       finflight, flanded>>,
           \/ UNCHANGED cursor
           \/ fat = "finished" /\ cursor' = [cursor EXCEPT !.mode = "DONE"],
           faults' \in 0 .. MaxFaults
    PROVE  IInv'
<1>1. FinalTypeOK'
  BY CursorFacts DEF FinalTypeOK, FSteps
<1>2. GreenInv' /\ PlaceInv'
  BY DEF IInv, GreenInv, PlaceInv, Planning, Preparing
<1>3. CASE UNCHANGED cursor
  <2>1. CursorInv' /\ RoadmapInv' /\ StartsOnMerge'
    BY <1>3, CursorFacts, KeepsTasks DEF SessionType
  <2>2. FinalInv'
    BY <1>3 DEF IInv, FinalInv, IsApplied, Open
  <2>3. TypeOK'
    BY <1>1, <1>3, CursorFacts, Types DEF SessionType, Steps
  <2> QED  BY <1>2, <2>1, <2>2, <2>3 DEF IInv
<1>4. CASE fat = "finished" /\ cursor' = [cursor EXCEPT !.mode = "DONE"]
  <2>1. /\ cursor' \in Cursor /\ cursor'.current = Current /\ cursor'.mode = "DONE"
        /\ cursor'.completed = cursor.completed /\ cursor'.pending = cursor.pending
    BY <1>4, CursorExcept DEF Current
  <2>2. at = "final" /\ cursor.mode = "FINAL"
    BY <1>4, CursorFacts DEF IInv, PlaceInv
  <2>3. CursorInv' /\ RoadmapInv'
    BY <2>1, <2>2 DEF IInv, CursorInv, RoadmapInv, Finished, Started, Merged, Current
  <2>4. StartsOnMerge'
    BY <2>1 DEF IInv, StartsOnMerge
  <2>5. FinalInv'
    BY <1>4, <2>1, <2>2 DEF IInv, FinalInv, IsApplied, Open
  <2>6. TypeOK'
    BY <1>1, <2>1, CursorFacts, Types DEF SessionType, Steps
  <2> QED  BY <1>2, <2>3, <2>4, <2>5, <2>6 DEF IInv
<1> QED  BY <1>3, <1>4

LEMMA StepFinalEnds ==
    ASSUME IInv, FinalEnds
    PROVE  IInv'
<1>1. faults' \in 0 .. MaxFaults
  BY FaultFacts DEF FinalEnds, NoFault
<1> QED  BY <1>1, FinalOff DEF FinalEnds, Goto, progress, remote

LEMMA StepCrash ==
    ASSUME IInv, Crash
    PROVE  IInv'
<1>1. faults' \in 0 .. MaxFaults
  BY FaultFacts DEF Crash
<1> QED  BY <1>1, FinalOff DEF Crash, Goto, progress, remote

-----------------------------------------------------------------------------
(* Others, and the owner *)

LEMMA StepForeignPush ==
    ASSUME IInv, ForeignPush
    PROVE  IInv'
<1>1. /\ head' = head + 1 /\ UNCHANGED <<cursor, phase, base, merge, at, plan, seen>>
      /\ Outside /\ head \in Nat
  BY CursorFacts DEF ForeignPush, SessionType
<1>2. faults' \in 0 .. MaxFaults
  BY FaultFacts DEF ForeignPush
<1>3. PlaceInv'
  BY <1>1 DEF IInv, PlaceInv, Planning, Preparing, Finished, Current
<1> QED  BY <1>1, <1>2, <1>3, SameFinal, CursorFacts, Quiet DEF SessionType

(* What others do to issues, and the approval, touch nothing it relies on.   *)
LEMMA Outer ==
    ASSUME IInv, UNCHANGED svars, FinalTypeOK',
           UNCHANGED <<fcall, entries, evidence, pr, ci, epic, comments, finflight,
                       flanded>>
    PROVE  IInv'
<1>1. UNCHANGED <<cursor, phase, base, merge, head, at, plan, seen>>
  BY DEF svars, progress
<1>2. PlaceInv'
  BY <1>1 DEF IInv, PlaceInv, Planning, Preparing, Finished, Current
<1> QED  BY <1>1, <1>2, CursorFacts, Quiet DEF SessionType

LEMMA StepIssueMoves ==
    ASSUME IInv, NEW c \in Child, IssueMoves(c)
    PROVE  IInv'
<1>1. faults' \in 0 .. MaxFaults
  BY FaultFacts DEF IssueMoves
<1>2. issue' \in [Child -> {"none", "OPEN", "CLOSED"}]
  BY CursorFacts DEF IssueMoves, FinalTypeOK
<1>3. FinalTypeOK'
  BY <1>1, <1>2, CursorFacts DEF IssueMoves, FinalTypeOK, fcall
<1> QED  BY <1>3, Outer DEF IssueMoves

LEMMA StepOwnerApproves ==
    ASSUME IInv, OwnerApproves
    PROVE  IInv'
<1>1. FinalTypeOK'
  BY CursorFacts DEF OwnerApproves, FinalTypeOK, fcall
<1> QED  BY <1>1, Outer DEF OwnerApproves

-----------------------------------------------------------------------------
(* The steps of the final delivery *)

LEMMA KeepsSession ==
    ASSUME IInv, UNCHANGED svars, FinalTypeOK', fat' = "off" <=> fat = "off",
           FinalInv', GreenInv'
    PROVE  IInv'
<1>1. UNCHANGED <<cursor, phase, base, merge, head, at, plan, seen>>
  BY DEF svars, progress
<1>2. CursorInv' /\ RoadmapInv' /\ StartsOnMerge'
  BY <1>1, CursorFacts, KeepsTasks DEF SessionType
<1>3. PlaceInv'
  BY <1>1 DEF IInv, PlaceInv, Planning, Preparing, Finished, Current
<1>4. TypeOK'
  BY <1>1, CursorFacts, Types DEF SessionType
<1> QED  BY <1>2, <1>3, <1>4 DEF IInv

LEMMA FinalFacts ==
    ASSUME IInv
    PROVE  /\ FinalTypeOK /\ FinalInv /\ GreenInv /\ fop \in FOp
           /\ (fat # "off" => cursor.mode = "FINAL")
BY CursorFacts DEF IInv, PlaceInv, FinalTypeOK

(* A step that only takes the call to s, for the same operation.             *)
LEMMA GoesOn ==
    ASSUME IInv, fat # "off", fat' \in FSteps \ {"off", "decide", "finished"},
           UNCHANGED <<fop, entries, owner, remote, finflight, flanded, svars>>,
           evidence' \in BOOLEAN, evidence => evidence', faults' \in 0 .. MaxFaults,
           fat' \in Open => ~IsApplied(fop) /\ \A p \in FOp : p < fop => IsApplied(p),
           fat' = "applied" => flanded[fop] > 0,
           fat' \in {"regate", "intent", "authority", "write"} /\ fop \notin PostMerge
              => evidence'
    PROVE  IInv'
<1>1. UNCHANGED <<issue, roadmap, main, pr, ci, epic, comments, cursor>>
  BY DEF remote, svars
<1>2. FinalTypeOK'
  BY <1>1, FinalFacts DEF FinalTypeOK, FSteps
<1>3. FinalInv'
  BY <1>1, FinalFacts DEF FinalInv, IsApplied, Open
<1>4. GreenInv'
  BY <1>1, FinalFacts DEF GreenInv
<1>5. fat' # "off"
  BY DEF FSteps
<1> QED  BY <1>2, <1>3, <1>4, <1>5, KeepsSession

(* An operation that took effect is in the ledger, and the next one begins.  *)
LEMMA Recorded_Proceeds ==
    ASSUME IInv, fat # "off", flanded[fop] > 0,
           \A p \in FOp : p < fop => IsApplied(p),
           entries' = [entries EXCEPT ![fop] = "APPLIED"], FProceed,
           UNCHANGED <<evidence, owner, remote, finflight, flanded, svars>>,
           faults' \in 0 .. MaxFaults
    PROVE  IInv'
<1>1. UNCHANGED <<issue, roadmap, main, pr, ci, epic, comments, cursor>>
  BY DEF remote, svars
<1>2. FinalTypeOK /\ FinalInv /\ GreenInv /\ fop \in FOp
      /\ entries \in [FOp -> {"none", "INTENT", "UNKNOWN", "APPLIED"}]
  BY FinalFacts DEF FinalTypeOK
<1>3. /\ entries' \in [FOp -> {"none", "INTENT", "UNKNOWN", "APPLIED"}]
      /\ \A o \in FOp : entries'[o] = "APPLIED" <=> o = fop \/ IsApplied(o)
  BY <1>2 DEF IsApplied
<1>4. /\ fat' \in {"finished", "decide"} /\ fop' \in FOp
      /\ (fat' = "finished" => \A o \in FOp : o <= fop)
      /\ (fat' = "decide" => fop' = fop + 1)
  BY <1>2, OpOrder DEF FProceed, FGoto
<1>5. FinalTypeOK'
  BY <1>1, <1>2, <1>3, <1>4 DEF FinalTypeOK, FSteps
<1>6. \A o, p \in FOp : p < o /\ (entries'[o] = "APPLIED" \/ o \in finflight)
                           => entries'[p] = "APPLIED"
  BY <1>2, <1>3 DEF FinalInv
<1>7. \A o \in FOp : entries'[o] = "APPLIED" => flanded[o] > 0
  BY <1>2, <1>3 DEF FinalInv
<1>8. fat' = "decide" => \A p \in FOp : p < fop' => entries'[p] = "APPLIED"
  BY <1>2, <1>3, <1>4, OpOrder
<1>9. fat' = "finished" => \A p \in FOp : entries'[p] = "APPLIED"
  BY <1>2, <1>3, <1>4, OpOrder
<1>10. FinalInv'
  BY <1>1, <1>2, <1>4, <1>6, <1>7, <1>8, <1>9 DEF FinalInv, IsApplied, Open
<1>11. GreenInv'
  BY <1>1, <1>2, <1>4 DEF GreenInv
<1> QED  BY <1>4, <1>5, <1>10, <1>11, KeepsSession

(* What the reconciliation answers as APPLIED took effect.                   *)
LEMMA AppliedIsLanded ==
    ASSUME IInv, NEW o \in FOp, Answer(o, "APPLIED")
    PROVE  flanded[o] > 0
<1>1. Truth(o) = "APPLIED"
  BY DEF Answer
<1>2. FinalInv /\ comments \in Nat
  BY FinalFacts DEF FinalTypeOK
<1>3. CASE o = Create
  BY <1>1, <1>2, <1>3 DEF Truth, FinalInv
<1>4. CASE o = Merge
  BY <1>1, <1>2, <1>4, OpOrder DEF Truth, FinalInv
<1>5. CASE o = Close
  BY <1>1, <1>2, <1>5, OpOrder DEF Truth, FinalInv
<1>6. CASE o = Update
  BY <1>1, <1>2, <1>6, OpOrder DEF Truth, FinalInv
<1> QED  BY <1>3, <1>4, <1>5, <1>6 DEF FOp

LEMMA StepFDecide ==
    ASSUME IInv, FDecide, UNCHANGED svars
    PROVE  IInv'
<1>1. /\ fat = "decide" /\ UNCHANGED <<evidence, owner, remote, finflight, flanded>>
      /\ fop \in FOp /\ \A p \in FOp : p < fop => IsApplied(p)
      /\ entries \in [FOp -> {"none", "INTENT", "UNKNOWN", "APPLIED"}]
      /\ evidence \in BOOLEAN
  BY FinalFacts DEF FDecide, FinalInv, FinalTypeOK
<1>2. faults' \in 0 .. MaxFaults
  BY FaultFacts DEF FDecide, Answer
<1>3. CASE FGoto("stopped") /\ UNCHANGED entries
  BY <1>1, <1>2, <1>3, GoesOn DEF FGoto, FSteps, Open
<1>4. CASE entries[fop] # "APPLIED" /\ FGoto("gate") /\ UNCHANGED entries
  BY <1>1, <1>2, <1>4, GoesOn DEF FGoto, FSteps, Open, IsApplied
<1>5. CASE entries[fop] = "APPLIED" /\ FProceed /\ UNCHANGED entries
  <2>1. flanded[fop] > 0
    BY <1>1, <1>5, FinalFacts DEF FinalInv, IsApplied
  <2>2. entries' = [entries EXCEPT ![fop] = "APPLIED"]
    BY <1>1, <1>5
  <2> QED  BY <1>1, <1>2, <1>5, <2>1, <2>2, Recorded_Proceeds
<1>6. CASE Answer(fop, "APPLIED") /\ FProceed
           /\ entries' = [entries EXCEPT ![fop] = "APPLIED"]
  BY <1>1, <1>2, <1>6, AppliedIsLanded, Recorded_Proceeds
<1> QED  BY <1>3, <1>4, <1>5, <1>6 DEF FDecide

LEMMA StepFGate ==
    ASSUME IInv, FGate, UNCHANGED svars
    PROVE  IInv'
<1>1. /\ fat \in {"gate", "regate"} /\ evidence \in BOOLEAN
      /\ UNCHANGED <<fop, entries, owner, remote, finflight, flanded>>
      /\ ~IsApplied(fop) /\ \A p \in FOp : p < fop => IsApplied(p)
  BY FinalFacts DEF FGate, FGoto, FinalInv, FinalTypeOK, Open
<1>2. faults' \in 0 .. MaxFaults
  BY FaultFacts DEF FGate
<1>3. \/ fat' \in {"regate", "intent"} /\ evidence' = (evidence \/ fop \notin PostMerge)
      \/ fat' = "stopped" /\ UNCHANGED evidence
  BY DEF FGate, FGoto
<1> QED  BY <1>1, <1>2, <1>3, GoesOn DEF FSteps, Open

(* Another status for an operation that is not APPLIED.                      *)
LEMMA Marks ==
    ASSUME IInv, fat \in Open, UNCHANGED <<fop, evidence, owner, remote, finflight, flanded,
                                           svars, faults>>,
           NEW s \in {"INTENT", "UNKNOWN"}, entries' = [entries EXCEPT ![fop] = s],
           fat' \in {"authority", "stopped"},
           fat' = "authority" => fat = "intent"
    PROVE  IInv'
<1>1. UNCHANGED <<issue, roadmap, main, pr, ci, epic, comments, cursor>>
  BY DEF remote, svars
<1>2. FinalTypeOK /\ FinalInv /\ GreenInv /\ fop \in FOp
      /\ entries \in [FOp -> {"none", "INTENT", "UNKNOWN", "APPLIED"}]
  BY FinalFacts DEF FinalTypeOK
<1>3. /\ ~IsApplied(fop)
      /\ entries' \in [FOp -> {"none", "INTENT", "UNKNOWN", "APPLIED"}]
      /\ \A o \in FOp : entries'[o] = "APPLIED" <=> IsApplied(o)
  BY <1>2 DEF IsApplied, FinalInv
<1>4. FinalTypeOK'
  BY <1>1, <1>2, <1>3 DEF FinalTypeOK, FSteps
<1>5. FinalInv'
  BY <1>1, <1>2, <1>3 DEF FinalInv, IsApplied, Open
<1>6. GreenInv'
  BY <1>1, <1>2 DEF GreenInv
<1> QED  BY <1>4, <1>5, <1>6, KeepsSession DEF Open

LEMMA StepFIntent ==
    ASSUME IInv, FIntent \/ FUnknown, UNCHANGED svars
    PROVE  IInv'
BY Marks DEF FIntent, FUnknown, FGoto, Open

LEMMA StepFAuthority ==
    ASSUME IInv, FAuthority, UNCHANGED svars
    PROVE  IInv'
<1>1. /\ fat = "authority" /\ fat' \in {"write", "stopped"}
      /\ UNCHANGED <<fop, entries, evidence, owner, remote, finflight, flanded, faults>>
      /\ ~IsApplied(fop) /\ \A p \in FOp : p < fop => IsApplied(p)
      /\ evidence \in BOOLEAN /\ (fop \notin PostMerge => evidence)
      /\ faults' \in 0 .. MaxFaults
  BY FinalFacts DEF FAuthority, FGoto, FinalInv, FinalTypeOK, Open, GreenInv
<1> QED  BY <1>1, GoesOn DEF FSteps, Open

LEMMA StepFVerify ==
    ASSUME IInv, FVerify, UNCHANGED svars
    PROVE  IInv'
<1>1. /\ fat = "verify" /\ evidence \in BOOLEAN /\ fop \in FOp
      /\ UNCHANGED <<fop, entries, evidence, owner, remote, finflight, flanded>>
      /\ ~IsApplied(fop) /\ \A p \in FOp : p < fop => IsApplied(p)
  BY FinalFacts DEF FVerify, FGoto, FinalInv, FinalTypeOK, Open
<1>2. faults' \in 0 .. MaxFaults
  BY FaultFacts DEF FVerify, Answer
<1>3. \/ fat' = "applied" /\ Answer(fop, "APPLIED")
      \/ fat' = "unknown"
  BY DEF FVerify, FGoto
<1>4. fat' = "applied" => flanded[fop] > 0
  BY <1>1, <1>3, AppliedIsLanded
<1> QED  BY <1>1, <1>2, <1>3, <1>4, GoesOn DEF FSteps, Open

LEMMA StepFApplied ==
    ASSUME IInv, FApplied, UNCHANGED svars
    PROVE  IInv'
<1>1. /\ fat = "applied" /\ flanded[fop] > 0 /\ \A p \in FOp : p < fop => IsApplied(p)
      /\ faults' \in 0 .. MaxFaults
  BY FinalFacts DEF FApplied, FinalInv, FinalTypeOK, Open
<1> QED  BY <1>1, Recorded_Proceeds DEF FApplied

-----------------------------------------------------------------------------
(* The steps of the world *)

(* What is asked before a write of an operation is sent still holds when it  *)
(* takes effect: the evidence, a merge and a passed check are not undone.    *)
Asked(o) ==
    /\ o = Merge => evidence /\ ci["pr"] = "SUCCESS"
    /\ o \in PostMerge => pr = "merged" /\ ci["main"] = "SUCCESS"

LEMMA GateAsks ==
    ASSUME IInv, Gate(fop), fat = "write"
    PROVE  Asked(fop)
<1>1. fop \in FOp /\ (fop \notin PostMerge => evidence)
  BY FinalFacts DEF GreenInv
<1>2. CASE fop \in PostMerge
  BY <1>2, OpOrder DEF Gate, RoadmapDone, Asked
<1>3. CASE fop \notin PostMerge
  BY <1>1, <1>3 DEF Gate, ReadyForRelease, Asked
<1> QED  BY <1>2, <1>3

(* The effect of an operation, sent now or before.                           *)
LEMMA LandFacts ==
    ASSUME IInv, NEW o \in FOp, FLand(o), Asked(o)
    PROVE  /\ UNCHANGED <<issue, roadmap, ci>>
           /\ pr' \in {"none", "open", "merged"}
           /\ main' \in {"base", "moved", "merge", "odd", "ahead"}
           /\ epic' \in {"OPEN", "CLOSED"} /\ comments' \in Nat
           /\ flanded' \in [FOp -> Nat]
           /\ \A p \in FOp : flanded[p] > 0 => flanded'[p] > 0
           /\ pr' # "none" <=> flanded'[Create] > 0
           /\ pr' = "merged" <=> flanded'[Merge] > 0
           /\ epic' = "CLOSED" => flanded'[Close] > 0
           /\ comments' > 0 => flanded'[Update] > 0
           /\ flanded'[Merge] > 0 => evidence /\ ci["pr"] = "SUCCESS"
           /\ epic' = "CLOSED" \/ comments' > 0 => pr' = "merged" /\ ci["main"] = "SUCCESS"
           /\ pr = "merged" => pr' = "merged"
<1> DEFINE takes == \/ o = Create /\ pr = "none"
                    \/ o = Merge /\ pr = "open" /\ roadmap = "approved"
                    \/ o \in PostMerge
<1>1. FinalTypeOK /\ FinalInv /\ GreenInv
  BY FinalFacts
<1>2. /\ flanded \in [FOp -> Nat] /\ comments \in Nat
      /\ pr \in {"none", "open", "merged"} /\ epic \in {"OPEN", "CLOSED"}
      /\ main \in {"base", "moved", "merge", "odd", "ahead"}
  BY <1>1 DEF FinalTypeOK
<1>3. /\ pr' = IF takes /\ o = Create THEN "open"
               ELSE IF takes /\ o = Merge THEN "merged" ELSE pr
      /\ main' \in {main, "merge", "odd"}
      /\ epic' = IF o = Close THEN "CLOSED" ELSE epic
      /\ comments' = IF o = Update THEN comments + 1 ELSE comments
      /\ flanded' = IF takes THEN [flanded EXCEPT ![o] = @ + 1] ELSE flanded
      /\ UNCHANGED <<issue, roadmap, ci>>
  BY DEF FLand
<1>4. /\ flanded' \in [FOp -> Nat]
      /\ \A p \in FOp : flanded[p] > 0 => flanded'[p] > 0
      /\ takes => flanded'[o] > 0 /\ \A p \in FOp \ {o} : flanded'[p] = flanded[p]
      /\ ~takes => flanded' = flanded
  <2>1. CASE takes
    BY <1>2, <1>3, <2>1
  <2>2. CASE ~takes
    BY <1>2, <1>3, <2>2
  <2> QED  BY <2>1, <2>2
<1>5. /\ pr # "none" <=> flanded[Create] > 0
      /\ pr = "merged" <=> flanded[Merge] > 0
      /\ epic = "CLOSED" => flanded[Close] > 0
      /\ comments > 0 => flanded[Update] > 0
      /\ flanded[Merge] > 0 => evidence /\ ci["pr"] = "SUCCESS"
      /\ epic = "CLOSED" \/ comments > 0 => pr = "merged" /\ ci["main"] = "SUCCESS"
  BY <1>1 DEF FinalInv, GreenInv
<1>6. CASE o = Create
  BY <1>2, <1>3, <1>4, <1>5, <1>6, OpOrder
<1>7. CASE o = Merge
  BY <1>2, <1>3, <1>4, <1>5, <1>7, OpOrder DEF Asked
<1>8. CASE o = Close
  BY <1>2, <1>3, <1>4, <1>5, <1>8, OpOrder DEF Asked
<1>9. CASE o = Update
  <2>1. comments + 1 > 0 /\ comments + 1 \in Nat
    BY <1>2
  <2> QED  BY <1>2, <1>3, <1>4, <1>5, <1>9, <2>1, OpOrder DEF Asked
<1> QED  BY <1>6, <1>7, <1>8, <1>9 DEF FOp

LEMMA StepFWrite ==
    ASSUME IInv, FWrite, UNCHANGED svars
    PROVE  IInv'
<1>1. /\ fat = "write" /\ UNCHANGED <<fop, entries, evidence, owner, cursor>>
      /\ fop \in FOp /\ FinalTypeOK /\ FinalInv /\ GreenInv
      /\ ~IsApplied(fop) /\ \A p \in FOp : p < fop => IsApplied(p)
      /\ cursor.mode = "FINAL"
  BY FinalFacts DEF FWrite, FGoto, FinalInv, Open, svars
<1>2. faults' \in 0 .. MaxFaults
  BY FaultFacts DEF FWrite
<1>3. CASE fat' \in {"verify", "unknown"} /\ UNCHANGED <<remote, flanded, finflight>>
  BY <1>1, <1>2, <1>3, GoesOn DEF FSteps, Open, FinalTypeOK
<1>4. CASE /\ Gate(fop) /\ fat' = "verify" /\ FLand(fop) /\ UNCHANGED finflight
  <2>1. Asked(fop)
    BY <1>1, <1>4, GateAsks
  <2>2. /\ UNCHANGED <<issue, roadmap, ci>>
        /\ pr' \in {"none", "open", "merged"}
        /\ main' \in {"base", "moved", "merge", "odd", "ahead"}
        /\ epic' \in {"OPEN", "CLOSED"} /\ comments' \in Nat
        /\ flanded' \in [FOp -> Nat]
        /\ \A p \in FOp : flanded[p] > 0 => flanded'[p] > 0
        /\ pr' # "none" <=> flanded'[Create] > 0
        /\ pr' = "merged" <=> flanded'[Merge] > 0
        /\ epic' = "CLOSED" => flanded'[Close] > 0
        /\ comments' > 0 => flanded'[Update] > 0
        /\ flanded'[Merge] > 0 => evidence /\ ci["pr"] = "SUCCESS"
        /\ epic' = "CLOSED" \/ comments' > 0 => pr' = "merged" /\ ci["main"] = "SUCCESS"
        /\ pr = "merged" => pr' = "merged"
    BY <1>1, <1>4, <2>1, LandFacts
  <2>3. FinalTypeOK'
    BY <1>1, <1>2, <1>4, <2>2 DEF FinalTypeOK, FSteps
  <2>4. FinalInv'
    BY <1>1, <1>4, <2>2 DEF FinalInv, IsApplied, Open
  <2>5. GreenInv'
    BY <1>1, <1>4, <2>2 DEF GreenInv
  <2> QED  BY <1>1, <1>4, <2>3, <2>4, <2>5, KeepsSession
<1>5. CASE /\ Gate(fop) /\ fat' = "verify" /\ finflight' = finflight \cup {fop}
           /\ UNCHANGED <<remote, flanded>>
  <2>1. Asked(fop)
    BY <1>1, <1>5, GateAsks
  <2>2. UNCHANGED <<issue, roadmap, main, pr, ci, epic, comments>>
    BY <1>5 DEF remote
  <2>3. FinalTypeOK'
    BY <1>1, <1>2, <1>5, <2>2 DEF FinalTypeOK, FSteps
  <2>4. FinalInv'
    BY <1>1, <1>5, <2>2 DEF FinalInv, IsApplied, Open
  <2>5. GreenInv'
    BY <1>1, <1>5, <2>1, <2>2 DEF GreenInv, Asked
  <2> QED  BY <1>1, <1>5, <2>3, <2>4, <2>5, KeepsSession
<1> QED  BY <1>3, <1>4, <1>5 DEF FWrite, FGoto

LEMMA StepLandLate ==
    ASSUME IInv, NEW o \in FOp, LandLate(o), UNCHANGED svars
    PROVE  IInv'
<1>1. /\ o \in finflight /\ finflight' = finflight \ {o} /\ FLand(o)
      /\ UNCHANGED <<fat, fop, entries, evidence, owner, faults, cursor>>
      /\ FinalTypeOK /\ FinalInv /\ GreenInv
  BY FinalFacts DEF LandLate, fcall, svars
<1>2. Asked(o)
  BY <1>1 DEF Asked, GreenInv
<1>3. /\ UNCHANGED <<issue, roadmap, ci>>
      /\ pr' \in {"none", "open", "merged"}
      /\ main' \in {"base", "moved", "merge", "odd", "ahead"}
      /\ epic' \in {"OPEN", "CLOSED"} /\ comments' \in Nat
      /\ flanded' \in [FOp -> Nat]
      /\ \A p \in FOp : flanded[p] > 0 => flanded'[p] > 0
      /\ pr' # "none" <=> flanded'[Create] > 0
      /\ pr' = "merged" <=> flanded'[Merge] > 0
      /\ epic' = "CLOSED" => flanded'[Close] > 0
      /\ comments' > 0 => flanded'[Update] > 0
      /\ flanded'[Merge] > 0 => evidence /\ ci["pr"] = "SUCCESS"
      /\ epic' = "CLOSED" \/ comments' > 0 => pr' = "merged" /\ ci["main"] = "SUCCESS"
      /\ pr = "merged" => pr' = "merged"
  BY <1>1, <1>2, LandFacts
<1>4. FinalTypeOK'
  BY <1>1, <1>3 DEF FinalTypeOK
<1>5. FinalInv'
  <2>1. cursor.mode # "TASK" /\ finflight' \subseteq finflight
    BY <1>1 DEF FinalInv
  <2>2. \A p \in FOp : entries'[p] = entries[p]
    BY <1>1
  <2>3. \A p, q \in FOp : p < q /\ (entries'[q] = "APPLIED" \/ q \in finflight')
                             => entries'[p] = "APPLIED"
    BY <1>1, <2>1, <2>2 DEF FinalInv, IsApplied
  <2>4. /\ \A p \in FOp : entries'[p] = "APPLIED" => flanded'[p] > 0
        /\ cursor'.mode = "DONE" => \A p \in FOp : flanded'[p] > 0
        /\ cursor'.mode # "TASK"
    BY <1>1, <1>3, <2>1, <2>2 DEF FinalInv, IsApplied
  <2>5. /\ fat' \in Open \cup {"decide"} => \A p \in FOp : p < fop' => entries'[p] = "APPLIED"
        /\ fat' \in Open => ~(entries'[fop'] = "APPLIED")
        /\ fat' = "finished" => \A p \in FOp : entries'[p] = "APPLIED"
    BY <1>1, <2>2 DEF FinalInv, IsApplied
  <2>6. fat' = "applied" => flanded'[fop'] > 0
    BY <1>1, <1>3 DEF FinalInv, FinalTypeOK
  <2> QED  BY <1>3, <2>3, <2>4, <2>5, <2>6 DEF FinalInv, IsApplied
<1>6. GreenInv'
  BY <1>1, <1>3 DEF GreenInv
<1> QED  BY <1>1, <1>4, <1>5, <1>6, KeepsSession

LEMMA StepFinalWorld ==
    ASSUME IInv, FinalWorld, UNCHANGED svars
    PROVE  IInv'
<1>1. ASSUME NEW o \in FOp, LandLate(o) PROVE IInv'
  BY <1>1, StepLandLate
<1>2. ASSUME NEW s \in {"pr", "main"}, Check(s) PROVE IInv'
  <2>1. /\ UNCHANGED <<fat, fop, entries, evidence, owner, issue, roadmap, main, pr,
                       epic, comments, finflight, flanded, cursor>>
        /\ ci[s] # "SUCCESS" /\ FinalTypeOK /\ FinalInv /\ GreenInv
        /\ \E r \in {"SUCCESS", "FAILURE"} : ci' = [ci EXCEPT ![s] = r]
    BY <1>2, FinalFacts DEF Check, fcall, svars
  <2>2. faults' \in 0 .. MaxFaults
    BY <1>2, FaultFacts DEF Check
  <2>3. /\ ci' \in [{"pr", "main"} -> {"pending", "SUCCESS", "FAILURE"}]
        /\ \A r \in {"pr", "main"} : ci[r] = "SUCCESS" => ci'[r] = "SUCCESS"
    BY <2>1 DEF FinalTypeOK
  <2>4. FinalTypeOK'
    BY <2>1, <2>2, <2>3 DEF FinalTypeOK
  <2>5. FinalInv'
    BY <2>1 DEF FinalInv, IsApplied, Open
  <2>6. GreenInv'
    BY <2>1, <2>3 DEF GreenInv
  <2> QED  BY <2>1, <2>4, <2>5, <2>6, KeepsSession
<1>3. CASE MainMoves \/ RoadmapMoves \/ Withdraw \/ Reinstate
  <2>1. faults' \in 0 .. MaxFaults
    BY <1>3, FaultFacts DEF MainMoves, RoadmapMoves, Withdraw, Reinstate, NoFault
  <2>2. UNCHANGED <<fcall, entries, evidence, pr, ci, epic, comments, finflight, flanded>>
    BY <1>3 DEF MainMoves, RoadmapMoves, Withdraw, Reinstate, remote
  <2>3. /\ main' \in {main, "moved", "ahead"} /\ roadmap' \in {roadmap, "moved"}
        /\ owner' \in {owner, "withdrawn", "valid"} /\ issue' = issue
    BY <1>3 DEF MainMoves, RoadmapMoves, Withdraw, Reinstate, remote
  <2>4. FinalTypeOK'
    BY <2>1, <2>2, <2>3, FinalFacts DEF FinalTypeOK, fcall
  <2> QED  BY <2>2, <2>4, Outer
<1> QED  BY <1>1, <1>2, <1>3 DEF FinalWorld

-----------------------------------------------------------------------------
(* The invariant is inductive *)

LEMMA InitIInv == Init => IInv
<1> SUFFICES ASSUME Init PROVE IInv
  OBVIOUS
<1> USE Positions
<1>1. /\ cursor.current = Seed /\ cursor.completed = {} /\ cursor.pending = NoTask
      /\ cursor.mode = "TASK" /\ cursor \in Cursor
      /\ at = "idle" /\ fat = "off" /\ head = 0 /\ seen = 0
      /\ phase = [t \in Task |-> IF t = Seed THEN "PLAN" ELSE "absent"]
      /\ base = [t \in Task |-> 0] /\ merge = [t \in Task |-> 0]
      /\ plan = [state |-> "BLOCKED", task |-> NoTask]
  BY DEF Init, FinalInit, Cursor
<1>2. FinalTypeOK
  <2>1. faults \in 0 .. MaxFaults
    BY SessionAssumption DEF Init
  <2>2. issue \in [Child -> {"none", "OPEN", "CLOSED"}]
    BY DEF Init
  <2>3. /\ fat \in FSteps /\ fop \in FOp
        /\ entries \in [FOp -> {"none", "INTENT", "UNKNOWN", "APPLIED"}]
        /\ ci \in [{"pr", "main"} -> {"pending", "SUCCESS", "FAILURE"}]
        /\ flanded \in [FOp -> Nat]
    BY DEF Init, FinalInit, FSteps, FOp
  <2> QED  BY <2>1, <2>2, <2>3 DEF Init, FinalInit, FinalTypeOK
<1>3. TypeOK
  <2>1. SessionType
    BY <1>1 DEF SessionType, Steps, Phases, Plans
  <2> QED  BY <1>1, <1>2, <2>1, Types
<1>4. CursorInv
  BY <1>1 DEF CursorInv, Started, Finished, Current
<1>5. RoadmapInv
  BY <1>1 DEF RoadmapInv, Started, Merged, Current
<1>6. PlaceInv
  BY <1>1 DEF PlaceInv, Planning, Preparing
<1>7. FinalInv
  BY <1>1, OpOrder DEF Init, FinalInit, FinalInv, IsApplied, Open
<1>8. GreenInv
  BY <1>1, OpOrder DEF Init, FinalInit, GreenInv
<1>9. StartsOnMerge
  BY <1>1 DEF StartsOnMerge
<1> QED  BY <1>3, <1>4, <1>5, <1>6, <1>7, <1>8, <1>9 DEF IInv

LEMMA StepStutter ==
    ASSUME IInv, UNCHANGED vars
    PROVE  IInv'
<1>1. FinalTypeOK'
  BY CursorFacts DEF FinalTypeOK, vars, fvars, fcall, remote
<1> QED  BY <1>1, Outer DEF vars, fvars, remote

LEMMA StepIInv == IInv /\ [Next]_vars => IInv'
<1> SUFFICES ASSUME IInv, [Next]_vars PROVE IInv'
  OBVIOUS
<1>1. CASE UNCHANGED vars
  BY <1>1, StepStutter
<1>2. CASE Start \/ Crash \/ ForeignPush \/ OwnerApproves
  BY <1>2, StepStart, StepCrash, StepForeignPush, StepOwnerApproves
<1>3. CASE Outsiders
  BY <1>3, StepFinalWorld DEF Outsiders
<1>4. ASSUME NEW c \in Child, IssueMoves(c) PROVE IInv'
  BY <1>4, StepIssueMoves
<1>5. CASE Step
  <2>1. CASE Loop \/ Select \/ Complete \/ Choose
    BY <2>1, StepLoop, StepSelect, StepComplete, StepChoose
  <2>2. CASE Prepare \/ Mutate \/ Save \/ Adopt
    BY <2>2, StepPrepare, StepMutate, StepSave, StepAdopt
  <2>3. CASE TaskStep \/ FinalEnds
    BY <2>3, StepTask, StepFinalEnds
  <2>4. CASE InFinal
    <3>1. FinalStep /\ UNCHANGED svars
      BY <2>4 DEF InFinal
    <3> QED  BY <3>1, StepFDecide, StepFGate, StepFIntent, StepFAuthority, StepFWrite,
             StepFVerify, StepFApplied DEF FinalStep
  <2> QED  BY <1>5, <2>1, <2>2, <2>3, <2>4 DEF Step
<1> QED  BY <1>1, <1>2, <1>3, <1>4, <1>5 DEF Next

LEMMA Invariance == Spec => []IInv
BY InitIInv, StepIInv, PTL DEF Spec

-----------------------------------------------------------------------------
(* The theorems *)

(* TypeOK: every variable is what the code stores there, and the final       *)
(* delivery runs only inside a call of the session.                          *)
THEOREM TypeCorrect == Spec => []TypeOK
<1>1. IInv => TypeOK
  BY DEF IInv
<1> QED  BY <1>1, Invariance, PTL

(* OneTaskAtATime: at most one task is begun and not finished, the one the   *)
(* cursor names, for any order, dependencies, crashes and moves of others.   *)
THEOREM TasksComeOneByOne == Spec => []OneTaskAtATime
<1>1. ASSUME IInv PROVE OneTaskAtATime
  <2>1. CursorInv
    BY <1>1 DEF IInv
  <2>2. \A t \in Task : phase[t] \notin {"absent", "NEXT_TASK"}
                          => t \in {cursor.current, cursor.pending}
    BY <2>1 DEF CursorInv, Current
  <2>3. cursor.pending # NoTask => phase[cursor.current] = "NEXT_TASK"
    BY <2>1 DEF CursorInv, Current, Finished
  <2>4. NoTask \notin Task
    BY Positions
  <2> QED  BY <2>2, <2>3, <2>4 DEF OneTaskAtATime
<1> QED  BY <1>1, Invariance, PTL

(* StartsOnMerge: a task starts on the merge of a completed one, and no two  *)
(* tasks start on the same commit, whatever others push to the roadmap.      *)
THEOREM TasksStartOnMerges == Spec => []StartsOnMerge
<1>1. IInv => StartsOnMerge
  BY DEF IInv
<1> QED  BY <1>1, Invariance, PTL

(* ShipsWholeTasks: no final operation takes effect while a task is begun    *)
(* and not finished, and the session is done only after all four did.        *)
THEOREM DeliveryShipsWholeTasks == Spec => []ShipsWholeTasks
<1>1. ASSUME IInv PROVE ShipsWholeTasks
  <2>1. CursorInv /\ FinalInv
    BY <1>1 DEF IInv
  <2>2. ASSUME cursor.mode # "TASK", NEW t \in Task
        PROVE  phase[t] \in {"absent", "NEXT_TASK"}
    <3>1. cursor.pending = NoTask /\ phase[Current] = "NEXT_TASK" /\ NoTask \notin Task
      BY <2>1, <2>2, Positions DEF CursorInv, Finished
    <3> QED  BY <2>1, <3>1 DEF CursorInv
  <2> QED  BY <2>1, <2>2 DEF FinalInv, ShipsWholeTasks
<1> QED  BY <1>1, Invariance, PTL

(* EpicClosedOnGreen: the merge needs the evidence and the checks of the     *)
(* pull request, and the epic is closed and reported on only after the merge *)
(* is main and passed its own checks, also by a write that lands late.       *)
THEOREM EpicClosesOnGreen == Spec => []EpicClosedOnGreen
<1>1. IInv => EpicClosedOnGreen
  BY DEF IInv, GreenInv, EpicClosedOnGreen
<1> QED  BY <1>1, Invariance, PTL

-----------------------------------------------------------------------------
(* The final delivery implements the chain of its operations *)

LEMMA CountsPrefix ==
    ASSUME NEW L,
           \A o, p \in FOp : p < o /\ L[o] = "APPLIED" => L[p] = "APPLIED"
    PROVE  /\ Cardinality({o \in FOp : L[o] = "APPLIED"}) \in 0 .. 4
           /\ \A o \in FOp : L[o] = "APPLIED"
                             <=> o <= Cardinality({p \in FOp : L[p] = "APPLIED"})
<1> DEFINE A == {o \in FOp : L[o] = "APPLIED"}
<1>1. A \in {{}, {1}, {1, 2}, {1, 2, 3}, {1, 2, 3, 4}}
  BY OpOrder
<1>2. IsFiniteSet({}) /\ Cardinality({}) = 0
  BY FS_EmptySet
<1>3. IsFiniteSet({1}) /\ Cardinality({1}) = 1
  BY FS_Singleton
<1>4. IsFiniteSet({1, 2}) /\ Cardinality({1, 2}) = 2
  <2>1. {1, 2} = {1} \cup {2} /\ 2 \notin {1}
    OBVIOUS
  <2> QED  BY <1>3, <2>1, FS_AddElement
<1>5. IsFiniteSet({1, 2, 3}) /\ Cardinality({1, 2, 3}) = 3
  <2>1. {1, 2, 3} = {1, 2} \cup {3} /\ 3 \notin {1, 2}
    OBVIOUS
  <2> QED  BY <1>4, <2>1, FS_AddElement
<1>6. Cardinality({1, 2, 3, 4}) = 4
  <2>1. {1, 2, 3, 4} = {1, 2, 3} \cup {4} /\ 4 \notin {1, 2, 3}
    OBVIOUS
  <2> QED  BY <1>5, <2>1, FS_AddElement
<1>7. Cardinality(A) \in 0 .. 4 /\ \A o \in FOp : o \in A <=> o <= Cardinality(A)
  <2>1. CASE A = {}
    BY <1>2, <2>1, OpOrder
  <2>2. CASE A = {1}
    BY <1>3, <2>2, OpOrder
  <2>3. CASE A = {1, 2}
    BY <1>4, <2>3, OpOrder
  <2>4. CASE A = {1, 2, 3}
    BY <1>5, <2>4, OpOrder
  <2>5. CASE A = {1, 2, 3, 4}
    BY <1>6, <2>5, OpOrder
  <2> QED  BY <1>1, <2>1, <2>2, <2>3, <2>4, <2>5
<1> QED  BY <1>7

Recorded == Cardinality({o \in FOp : entries[o] = "APPLIED"})

LEMMA RecordedFacts ==
    /\ IInv => Recorded \in 0 .. 4 /\ \A o \in FOp : IsApplied(o) <=> o <= Recorded
    /\ IInv' => Recorded' \in 0 .. 4
                /\ \A o \in FOp : entries'[o] = "APPLIED" <=> o <= Recorded'
<1>1. IInv => \A o, p \in FOp : p < o /\ entries[o] = "APPLIED" => entries[p] = "APPLIED"
  BY DEF IInv, FinalInv, IsApplied
<1>2. IInv' => \A o, p \in FOp : p < o /\ entries'[o] = "APPLIED" => entries'[p] = "APPLIED"
  BY DEF IInv, FinalInv, IsApplied
<1> QED  BY <1>1, <1>2, CountsPrefix DEF Recorded, IsApplied

LEMMA ChainStutter ==
    ASSUME \A o \in FOp : entries'[o] = "APPLIED" <=> IsApplied(o), flanded' = flanded
    PROVE  UNCHANGED <<Recorded, flanded>>
<1>1. {o \in FOp : entries'[o] = "APPLIED"} = {o \in FOp : entries[o] = "APPLIED"}
  BY DEF IsApplied
<1> QED  BY <1>1 DEF Recorded

LEMMA ChainRecord ==
    ASSUME IInv, IInv', NEW o \in FOp, flanded[o] > 0, ~IsApplied(o),
           \A p \in FOp : p < o => IsApplied(p),
           entries' = [entries EXCEPT ![o] = "APPLIED"], flanded' = flanded
    PROVE  FChain!Record
<1>1. entries \in [FOp -> {"none", "INTENT", "UNKNOWN", "APPLIED"}]
  BY FinalFacts DEF FinalTypeOK
<1>2. /\ Recorded \in 0 .. 4 /\ Recorded' \in 0 .. 4
      /\ \A p \in FOp : IsApplied(p) <=> p <= Recorded
      /\ \A p \in FOp : entries'[p] = "APPLIED" <=> p <= Recorded'
  BY RecordedFacts
<1>3. \A p \in FOp : entries'[p] = "APPLIED" <=> p = o \/ IsApplied(p)
  BY <1>1 DEF IsApplied
<1>4. o = Recorded + 1
  BY <1>2, OpOrder
<1>5. Recorded' = Recorded + 1 /\ Recorded < 4
  BY <1>2, <1>3, <1>4, OpOrder
<1> QED  BY <1>4, <1>5 DEF FChain!Record, Recorded

LEMMA ChainLand ==
    ASSUME IInv, NEW o \in FOp, FLand(o), flanded' # flanded, entries' = entries,
           \A p \in FOp : p < o => IsApplied(p)
    PROVE  [FChain!Next]_<<Recorded, flanded>>
<1>1. flanded' = [flanded EXCEPT ![o] = @ + 1]
  BY DEF FLand
<1>2. flanded \in [FOp -> Nat] /\ FinalInv
  BY FinalFacts DEF FinalTypeOK
<1>3. Recorded \in 0 .. 4 /\ \A p \in FOp : IsApplied(p) <=> p <= Recorded
  BY RecordedFacts
<1>4. Recorded' = Recorded
  BY DEF Recorded
<1>5. o <= Recorded + 1
  BY <1>3, OpOrder
<1>6. o \notin PostMerge => o = Recorded + 1 /\ flanded[o] = 0
  <2> SUFFICES ASSUME o \notin PostMerge PROVE o = Recorded + 1 /\ flanded[o] = 0
    OBVIOUS
  <2>1. \/ o = Create /\ pr = "none"
        \/ o = Merge /\ pr = "open"
    BY <1>2, OpOrder DEF FLand
  <2>2. ~(flanded[o] > 0) /\ flanded[o] \in Nat
    BY <1>2, <2>1, OpOrder DEF FinalInv
  <2>3. ~IsApplied(o)
    BY <1>2, <2>2 DEF FinalInv
  <2> QED  BY <1>3, <1>5, <2>2, <2>3, OpOrder
<1>7. FChain!Effect(o)
  BY <1>1, <1>4, <1>5, <1>6 DEF FChain!Effect, Recorded
<1> QED  BY <1>7, OpOrder DEF FChain!Next

LEMMA ChainMark ==
    ASSUME IInv, fat \in Open, NEW s \in {"INTENT", "UNKNOWN"},
           entries' = [entries EXCEPT ![fop] = s], flanded' = flanded
    PROVE  UNCHANGED <<Recorded, flanded>>
<1>1. /\ ~IsApplied(fop)
      /\ entries \in [FOp -> {"none", "INTENT", "UNKNOWN", "APPLIED"}]
  BY FinalFacts DEF FinalInv, FinalTypeOK
<1>2. \A o \in FOp : entries'[o] = "APPLIED" <=> IsApplied(o)
  BY <1>1 DEF IsApplied
<1> QED  BY <1>2, ChainStutter

(* The steps of the final delivery that change the ledger or the world.      *)
LEMMA ChainFinal ==
    ASSUME IInv, IInv', FinalStep
    PROVE  [FChain!Next]_<<Recorded, flanded>>
<1> USE FinalFacts
<1>1. CASE UNCHANGED <<entries, flanded>>
  BY <1>1, ChainStutter DEF IsApplied
<1>2. ASSUME fat \in {"decide", "applied"}, flanded' = flanded, entries' # entries,
             entries' = [entries EXCEPT ![fop] = "APPLIED"], flanded[fop] > 0
      PROVE  FChain!Record
  <2>1. \A p \in FOp : p < fop => IsApplied(p)
    BY <1>2 DEF FinalInv, Open
  <2>2. ~IsApplied(fop)
    BY <1>2 DEF FinalTypeOK, IsApplied
  <2> QED  BY <1>2, <2>1, <2>2, ChainRecord
<1>3. CASE FDecide /\ ~UNCHANGED <<entries, flanded>>
  <2>1. /\ fat = "decide" /\ flanded' = flanded /\ entries' # entries
        /\ Answer(fop, "APPLIED") /\ entries' = [entries EXCEPT ![fop] = "APPLIED"]
    BY <1>3 DEF FDecide
  <2>2. flanded[fop] > 0
    BY <2>1, AppliedIsLanded
  <2> QED  BY <1>2, <2>1, <2>2 DEF FChain!Next
<1>4. CASE FApplied /\ ~UNCHANGED <<entries, flanded>>
  <2>1. /\ fat = "applied" /\ flanded' = flanded /\ entries' # entries
        /\ entries' = [entries EXCEPT ![fop] = "APPLIED"] /\ flanded[fop] > 0
    BY <1>4 DEF FApplied, FinalInv
  <2> QED  BY <1>2, <2>1 DEF FChain!Next
<1>5. CASE FIntent \/ FUnknown
  <2>1. PICK s \in {"INTENT", "UNKNOWN"} :
           entries' = [entries EXCEPT ![fop] = s]
    BY <1>5 DEF FIntent, FUnknown
  <2>2. fat \in Open /\ flanded' = flanded
    BY <1>5 DEF FIntent, FUnknown, Open
  <2> QED  BY <2>1, <2>2, ChainMark
<1>6. CASE FWrite /\ ~UNCHANGED <<entries, flanded>>
  <2>1. fat = "write" /\ entries' = entries /\ flanded' # flanded /\ FLand(fop)
    BY <1>6 DEF FWrite
  <2>2. \A p \in FOp : p < fop => IsApplied(p)
    BY <2>1 DEF FinalInv, Open
  <2> QED  BY <2>1, <2>2, ChainLand
<1>7. CASE FGate \/ FAuthority \/ FVerify
  BY <1>1, <1>7 DEF FGate, FAuthority, FVerify
<1> QED  BY <1>1, <1>3, <1>4, <1>5, <1>6, <1>7 DEF FinalStep

LEMMA ChainSteps ==
    ASSUME IInv, IInv', [Next]_vars
    PROVE  [FChain!Next]_<<Recorded, flanded>>
<1>1. CASE UNCHANGED <<entries, flanded>>
  BY <1>1, ChainStutter DEF IsApplied
<1>2. CASE FinalStep
  BY <1>2, ChainFinal
<1>3. ASSUME NEW o \in FOp, LandLate(o), ~UNCHANGED <<entries, flanded>>
      PROVE  [FChain!Next]_<<Recorded, flanded>>
  <2>1. o \in finflight /\ FLand(o) /\ entries' = entries /\ flanded' # flanded
    BY <1>3 DEF LandLate
  <2>2. \A p \in FOp : p < o => IsApplied(p)
    BY <2>1, FinalFacts DEF FinalInv
  <2> QED  BY <2>1, <2>2, ChainLand
<1>4. CASE ~UNCHANGED <<entries, flanded>>
  <2>1. ~UNCHANGED vars
    BY <1>4 DEF vars, fvars
  <2>2. ~Start /\ ~Crash /\ ~ForeignPush /\ ~OwnerApproves /\ \A c \in Child : ~IssueMoves(c)
    BY <1>4 DEF Start, Crash, ForeignPush, OwnerApproves, IssueMoves, Outside
  <2>3. Step => FinalStep
    BY <1>4 DEF Step, InFinal, Loop, Select, Complete, Choose, Prepare, Mutate, Save,
       Adopt, TaskStep, FinalEnds, Outside
  <2>4. Outsiders => \E o \in FOp : LandLate(o)
    BY <1>4 DEF Outsiders, FinalWorld, Check, MainMoves, RoadmapMoves, Withdraw,
       Reinstate
  <2> QED  BY <1>2, <1>3, <1>4, <2>1, <2>2, <2>3, <2>4 DEF Next
<1> QED  BY <1>1, <1>4

(* FinalChain: the pull request, the merge, the close and the report take    *)
(* effect in their order, each is recorded after it took effect, and only    *)
(* the last two can take effect again, over crashes and late writes.         *)
THEOREM FinalDeliveryIsChain == Spec => FinalChain
<1>1. Init => FChain!Init
  <2> SUFFICES ASSUME Init PROVE FChain!Init
    OBVIOUS
  <2>1. {o \in FOp : entries[o] = "APPLIED"} = {}
    BY DEF Init, FinalInit
  <2>2. Cardinality({o \in FOp : entries[o] = "APPLIED"}) = 0
    BY <2>1, FS_EmptySet
  <2>3. FOp = 1 .. 4 /\ flanded = [o \in FOp |-> 0]
    BY OpOrder DEF Init, FinalInit
  <2> QED  BY <2>2, <2>3 DEF FChain!Init
<1>2. IInv /\ IInv' /\ [Next]_vars => [FChain!Next]_<<Recorded, flanded>>
  BY ChainSteps
<1> QED  BY <1>1, <1>2, Invariance, PTL
         DEF Spec, FinalChain, FChain!Spec, Recorded
================================================================================
