-------------------------- MODULE Scheduler_proofs --------------------------
(***************************************************************************)
(* Theorems about Scheduler: every safety property that its runs check     *)
(* follows, for all tasks, resources, capacities and decisions of the      *)
(* hook, from the inductive invariant IInv.                                *)
(***************************************************************************)
EXTENDS Scheduler, FiniteSetTheorems, SequenceTheorems, TLAPS

------------------------------------------------------------------------------
(* Sequences without repetitions *)

\* Appending an id that is not in a queue adds it, once.
LEMMA AppendFresh ==
  ASSUME NEW S, NEW s \in Seq(S), NEW x \in S, x \notin Range(s), IsInjective(s)
  PROVE  /\ Append(s, x) \in Seq(S)
         /\ IsInjective(Append(s, x))
         /\ Range(Append(s, x)) = Range(s) \cup {x}
         /\ Append(s, x) # <<>>
<1> DEFINE a == Append(s, x)
<1>1. /\ a \in Seq(S)
      /\ Len(a) = Len(s) + 1
      /\ DOMAIN a = 1..Len(s) + 1
      /\ DOMAIN s = 1..Len(s)
      /\ Len(s) \in Nat
      /\ \A i \in 1..Len(s) : a[i] = s[i]
      /\ a[Len(s) + 1] = x
  OBVIOUS
<1>2. \A i \in 1..Len(s) : a[i] \in Range(s)
  BY <1>1 DEF Range
<1>3. IsInjective(a)
  BY <1>1, <1>2 DEF IsInjective
<1>4. Range(a) = Range(s) \cup {x}
  <2>1. Range(a) \subseteq Range(s) \cup {x}
    BY <1>1, <1>2 DEF Range
  <2>2. Range(s) \subseteq Range(a)
    BY <1>1 DEF Range
  <2>3. x \in Range(a)
    <3>1. Len(s) + 1 \in DOMAIN a
      BY <1>1
    <3> QED BY <3>1, <1>1 DEF Range
  <2> QED BY <2>1, <2>2, <2>3
<1>5. a # <<>>
  BY <1>1
<1> QED BY <1>1, <1>3, <1>4, <1>5

\* The head of a queue without repetitions is not in its tail.
LEMMA HeadTail ==
  ASSUME NEW S, NEW s \in Seq(S), s # <<>>, IsInjective(s)
  PROVE  /\ Head(s) \in S
         /\ Tail(s) \in Seq(S)
         /\ IsInjective(Tail(s))
         /\ Head(s) \in Range(s)
         /\ Range(Tail(s)) = Range(s) \ {Head(s)}
<1>1. /\ Tail(s) \in Seq(S)
      /\ Head(s) = s[1]
      /\ Len(Tail(s)) = Len(s) - 1
      /\ Len(s) \in Nat
      /\ Len(s) >= 1
      /\ DOMAIN s = 1..Len(s)
      /\ DOMAIN Tail(s) = 1..Len(s) - 1
      /\ \A i \in 1..Len(s) - 1 : Tail(s)[i] = s[i + 1]
  OBVIOUS
<1>2. Head(s) \in S /\ Head(s) \in Range(s)
  BY <1>1 DEF Range
<1>3. IsInjective(Tail(s))
  <2>1. SUFFICES ASSUME NEW i \in 1..Len(s) - 1, NEW j \in 1..Len(s) - 1,
                        Tail(s)[i] = Tail(s)[j]
                 PROVE  i = j
    BY <1>1 DEF IsInjective
  <2>2. i + 1 \in DOMAIN s /\ j + 1 \in DOMAIN s /\ s[i + 1] = s[j + 1]
    BY <2>1, <1>1
  <2>3. i + 1 = j + 1
    BY <2>2 DEF IsInjective
  <2> QED BY <2>3
<1>4. Range(Tail(s)) = Range(s) \ {Head(s)}
  <2>1. ASSUME NEW x \in Range(Tail(s))
        PROVE  x \in Range(s) \ {Head(s)}
    <3>1. PICK i \in 1..Len(s) - 1 : x = Tail(s)[i]
      BY <1>1 DEF Range
    <3>2. i + 1 \in DOMAIN s /\ x = s[i + 1] /\ 1 \in DOMAIN s /\ i + 1 # 1
      BY <3>1, <1>1
    <3>3. x # s[1]
      BY <3>2 DEF IsInjective
    <3> QED BY <3>2, <3>3, <1>1 DEF Range
  <2>2. ASSUME NEW x \in Range(s) \ {Head(s)}
        PROVE  x \in Range(Tail(s))
    <3>1. PICK i \in 1..Len(s) : x = s[i]
      BY <1>1 DEF Range
    <3>2. i # 1
      BY <3>1, <1>1
    <3>3. i - 1 \in DOMAIN Tail(s) /\ Tail(s)[i - 1] = x
      BY <3>1, <3>2, <1>1
    <3> QED BY <3>3 DEF Range
  <2> QED BY <2>1, <2>2
<1> QED BY <1>1, <1>2, <1>3, <1>4

------------------------------------------------------------------------------
(* Cardinalities *)

Units(t, n) == {t} \X (1..n)

\* A stage that demands n units of a resource holds n units of it.
LEMMA UnitsCardinality ==
  ASSUME NEW t, NEW n \in Nat
  PROVE  IsFiniteSet(Units(t, n)) /\ Cardinality(Units(t, n)) = n
<1>1. IsFiniteSet(1..n) /\ Cardinality(1..n) = n
  BY FS_Interval
<1>2. IsFiniteSet({t}) /\ Cardinality({t}) = 1
  BY FS_Singleton
<1>3. /\ IsFiniteSet({t} \X (1..n))
      /\ Cardinality({t} \X (1..n)) = Cardinality({t}) * Cardinality(1..n)
  BY <1>1, <1>2, FS_Product
<1> QED BY <1>1, <1>2, <1>3 DEF Units

\* Units that were not held yet are added to those that are.
LEMMA UnitsAdded ==
  ASSUME NEW A, IsFiniteSet(A), NEW t, NEW n \in Nat, A \cap Units(t, n) = {}
  PROVE  /\ IsFiniteSet(A \cup Units(t, n))
         /\ Cardinality(A \cup Units(t, n)) = Cardinality(A) + n
<1>1. IsFiniteSet(Units(t, n)) /\ Cardinality(Units(t, n)) = n
  BY UnitsCardinality
<1>2. Cardinality(A \cap Units(t, n)) = 0
  BY FS_EmptySet
<1>3. Cardinality(A) \in Nat
  BY FS_CardinalityType
<1>4. /\ IsFiniteSet(A \cup Units(t, n))
      /\ Cardinality(A \cup Units(t, n)) =
            Cardinality(A) + Cardinality(Units(t, n)) - Cardinality(A \cap Units(t, n))
  BY <1>1, FS_Union
<1> QED BY <1>1, <1>2, <1>3, <1>4

\* Held units that are given back are taken from those that are held.
LEMMA UnitsRemoved ==
  ASSUME NEW A, IsFiniteSet(A), NEW t, NEW n \in Nat, Units(t, n) \subseteq A
  PROVE  /\ IsFiniteSet(A \ Units(t, n))
         /\ Cardinality(A \ Units(t, n)) = Cardinality(A) - n
         /\ n <= Cardinality(A)
<1>1. Cardinality(Units(t, n)) = n
  BY UnitsCardinality
<1>2. A \cap Units(t, n) = Units(t, n)
  OBVIOUS
<1>3. /\ IsFiniteSet(A \ Units(t, n))
      /\ Cardinality(A \ Units(t, n)) = Cardinality(A) - Cardinality(A \cap Units(t, n))
  BY FS_Difference
<1>4. Cardinality(Units(t, n)) <= Cardinality(A)
  BY FS_Subset
<1> QED BY <1>1, <1>2, <1>3, <1>4

------------------------------------------------------------------------------
(* The policy hook *)

\* What a call of the hook leaves when waiting is waiting_set_.
HookResult(h, waiting) ==
  /\ h.queue \in Seq(Task)
  /\ IsInjective(h.queue)
  /\ Range(h.queue) = waiting
  /\ h.limit \in Nat \cup {NoLimit}

\* Whatever a decision says, it only rearranges the queue, and the limit it leaves
\* is the one in force or its directive.
LEMMA AppliedKeepsQueue ==
  ASSUME NEW queue \in Seq(Task), NEW waiting \in SUBSET Task,
         Range(queue) = waiting,
         NEW limit \in Nat \cup {NoLimit},
         NEW d \in DecisionType, NEW h \in Applied(d, queue, waiting, limit)
  PROVE  /\ HookResult(h, waiting)
         /\ queue # <<>> => h.queue # <<>>
         /\ h.limit = AppliedLimit(d.admission, limit)
<1>1. PICK q \in Reorderings(d.order, queue, waiting) :
         h = [queue |-> q, limit |-> AppliedLimit(d.admission, limit)]
  BY DEF Applied
<1>2. Members(d.order, queue, waiting) = waiting
  <2>1. CASE queue = <<>>
    <3>1. Range(queue) = {}
      BY <2>1 DEF Range
    <3> QED BY <2>1, <3>1 DEF Members
  <2>2. CASE queue # <<>>
    BY <2>2 DEF Members
  <2> QED BY <2>1, <2>2
<1>3. Cardinality(waiting) \in Nat
  BY SchedulerAssumption, FS_Subset, FS_CardinalityType DEF SchedulerAssumption
<1>4. /\ q \in [1..Cardinality(waiting) -> waiting]
      /\ IsInjective(q)
      /\ Range(q) = waiting
  BY <1>2 DEF Reorderings
<1>5. q \in Seq(Task)
  BY <1>3, <1>4
<1>6. d.admission \in Nat \cup {NoLimit, Keep}
  BY DEF DecisionType
<1>7. h.limit \in Nat \cup {NoLimit}
  BY <1>1, <1>6 DEF AppliedLimit
<1>8. queue # <<>> => q # <<>>
  <2>1. SUFFICES ASSUME queue # <<>> PROVE q # <<>>
    OBVIOUS
  <2>2. 1 \in DOMAIN queue
    BY <2>1, EmptySeq, LenProperties
  <2>3. queue[1] \in Range(q)
    BY <2>2, <1>4 DEF Range
  <2> QED BY <2>3 DEF Range
<1> QED BY <1>1, <1>4, <1>5, <1>7, <1>8 DEF HookResult

\* So does every hook.
LEMMA HookKeepsQueue ==
  ASSUME NEW queue \in Seq(Task), NEW waiting \in SUBSET Task,
         Range(queue) = waiting,
         NEW limit \in Nat \cup {NoLimit},
         NEW h \in EvaluatePolicyHook(queue, waiting, limit)
  PROVE  /\ HookResult(h, waiting)
         /\ queue # <<>> => h.queue # <<>>
         /\ PositiveLimits /\ limit # 0 => h.limit # 0
<1>1. PICK d \in Decisions : h \in Applied(d, queue, waiting, limit)
  BY DEF EvaluatePolicyHook
<1>2. d \in DecisionType
  BY SchedulerAssumption DEF SchedulerAssumption
<1> QED BY <1>1, <1>2, AppliedKeepsQueue DEF AppliedLimit, PositiveLimits

------------------------------------------------------------------------------
(* Facts about a state in which the invariant holds *)

\* A task that is not finished has a current stage, which the pool can hold.
LEMMA StageTyped ==
  ASSUME TypeOK, NEW t \in Task, ~Finished(t)
  PROVE  /\ stageIndex[t] \in DOMAIN Stages[t]
         /\ Stage(t) \in StageType
         /\ Stage(t).demand \in [Resource -> Nat]
         /\ Stage(t).service \subseteq Nat
         /\ \A r \in Resource : Stage(t).demand[r] <= Capacity[r]
<1>1. Stages[t] \in Seq(StageType)
  BY SchedulerAssumption DEF SchedulerAssumption
<1>2. stageIndex[t] \in DOMAIN Stages[t]
  BY <1>1, LenProperties DEF TypeOK, Finished
<1>3. Stage(t) \in StageType
  BY <1>1, <1>2, LenProperties DEF Stage
<1>4. Stage(t).demand \in [Resource -> Nat] /\ Stage(t).service \subseteq Nat
  BY <1>3 DEF StageType
<1>5. \A r \in Resource : Stage(t).demand[r] <= Capacity[r]
  BY <1>2, SchedulerAssumption DEF SchedulerAssumption, Validated, Stage
<1> QED BY <1>2, <1>3, <1>4, <1>5

\* When active_task_count_ is 0, nobody is served and no unit is in use.
LEMMA NothingActive ==
  ASSUME IInv, activeTaskCount = 0
  PROVE  /\ \A t \in Task : ~active[t]
         /\ \A r \in Resource : inUse[r] = 0
<1>1. IsFiniteSet(ActiveTasks)
  BY SchedulerAssumption, FS_Subset DEF SchedulerAssumption, ActiveTasks
<1>2. ActiveTasks = {}
  BY <1>1, FS_EmptySet DEF IInv, ActiveCountExact
<1>3. \A r \in Resource : UnitsHeld(r) = {}
  BY <1>2 DEF UnitsHeld
<1>4. \A r \in Resource : inUse[r] = 0
  BY <1>3, FS_EmptySet DEF IInv, UnitsAccounted
<1> QED BY <1>2, <1>4 DEF ActiveTasks

\* The part of IInv that speaks of what the active tasks hold
Accounted ==
  /\ ActiveCountExact
  /\ UnitsAccounted
  /\ \A r \in Resource : IsFiniteSet(UnitsHeld(r))

\* A start by try_start_task enters the count and the units of the task.
LEMMA StartAccounted ==
  ASSUME TypeOK, Accounted, NEW t \in Task, ~active[t], ~Finished(t), Fits(t),
         NEW pending, NEW now \in Nat, NEW ready \in Nat,
         StartTask(t, pending, now, ready), UNCHANGED stageIndex
  PROVE  /\ Accounted'
         /\ inUse' \in [Resource -> Nat]
         /\ active' \in [Task -> BOOLEAN]
         /\ activeTaskCount' \in Nat \ {0}
         /\ activeServiceTime' \in [Task -> Nat]
         /\ queueTime' \in [Task -> Nat]
         /\ serviceTime' \in [Task -> Nat]
<1> DEFINE d == Stage(t).demand
<1>1. d \in [Resource -> Nat] /\ Stage(t).service \subseteq Nat
  BY StageTyped
<1>2. PICK duration \in Stage(t).service :
        /\ inUse' = [r \in Resource |-> inUse[r] + d[r]]
        /\ active' = [active EXCEPT ![t] = TRUE]
        /\ activeTaskCount' = activeTaskCount + 1
        /\ activeServiceTime' = [activeServiceTime EXCEPT ![t] = duration]
        /\ queueTime' = [queueTime EXCEPT ![t] = @ + Elapsed(ready, now)]
        /\ serviceTime' = [serviceTime EXCEPT ![t] = @ + duration]
  BY DEF StartTask
<1>3. duration \in Nat /\ Elapsed(ready, now) \in Nat
  BY <1>1 DEF Elapsed
<1>4. ActiveTasks' = ActiveTasks \cup {t} /\ t \notin ActiveTasks
  BY <1>2 DEF ActiveTasks, TypeOK
<1>5. ActiveCountExact'
  <2>1. IsFiniteSet(ActiveTasks)
    BY SchedulerAssumption, FS_Subset DEF SchedulerAssumption, ActiveTasks
  <2>2. Cardinality(ActiveTasks \cup {t}) = Cardinality(ActiveTasks) + 1
    BY <2>1, <1>4, FS_AddElement
  <2> QED BY <2>2, <1>2, <1>4 DEF Accounted, ActiveCountExact
<1>6. ASSUME NEW r \in Resource
      PROVE  /\ inUse'[r] = Cardinality(UnitsHeld(r)')
             /\ inUse'[r] <= Capacity[r]
             /\ IsFiniteSet(UnitsHeld(r)')
  <2>1. UnitsHeld(r)' = UnitsHeld(r) \cup Units(t, d[r])
    <3>1. \A u \in Task : Stage(u)' = Stage(u)
      BY DEF Stage
    <3> QED BY <3>1, <1>4 DEF UnitsHeld, Units, ActiveTasks
  <2>2. UnitsHeld(r) \cap Units(t, d[r]) = {}
    BY <1>4 DEF UnitsHeld, Units
  <2>3. /\ IsFiniteSet(UnitsHeld(r) \cup Units(t, d[r]))
        /\ Cardinality(UnitsHeld(r) \cup Units(t, d[r])) = Cardinality(UnitsHeld(r)) + d[r]
    BY <2>2, <1>1, UnitsAdded DEF Accounted
  <2>4. inUse[r] = Cardinality(UnitsHeld(r))
    BY DEF Accounted, UnitsAccounted
  <2>5. inUse'[r] = inUse[r] + d[r]
    BY <1>2
  <2>6. inUse[r] + d[r] <= Capacity[r]
    BY DEF Fits
  <2> QED BY <2>1, <2>3, <2>4, <2>5, <2>6
<1>7. Accounted'
  BY <1>5, <1>6 DEF Accounted, UnitsAccounted
<1>8. inUse' \in [Resource -> Nat]
  BY <1>1, <1>2 DEF TypeOK
<1>9. active' \in [Task -> BOOLEAN]
  BY <1>2 DEF TypeOK
<1>10. activeTaskCount' \in Nat \ {0}
  BY <1>2 DEF TypeOK
<1>11. activeServiceTime' \in [Task -> Nat]
  BY <1>2, <1>3 DEF TypeOK
<1>12. queueTime' \in [Task -> Nat]
  <2>1. queueTime[t] + Elapsed(ready, now) \in Nat
    BY <1>3 DEF TypeOK
  <2> QED BY <2>1, <1>2 DEF TypeOK
<1>13. serviceTime' \in [Task -> Nat]
  <2>1. serviceTime[t] + duration \in Nat
    BY <1>3 DEF TypeOK
  <2> QED BY <2>1, <1>2 DEF TypeOK
<1> QED BY <1>7, <1>8, <1>9, <1>10, <1>11, <1>12, <1>13

------------------------------------------------------------------------------
(* One lemma per action *)

\* The constructor establishes the invariant.
LEMMA InitIInv == Init => IInv
<1> SUFFICES ASSUME Init PROVE IInv
  OBVIOUS
<1>1. TypeOK
  BY SchedulerAssumption DEF Init, TypeOK, SchedulerAssumption
<1>2. WaitingConsistent /\ NoEventInThePast /\ ActiveHasEvent /\ DrainHasWork
  BY DEF Init, DrainHasWork, WaitingConsistent, NoEventInThePast, ActiveHasEvent, EventsOf, IsInjective, Range
<1>3. \A t \in Task : Stages[t] \in Seq(StageType) /\ Len(Stages[t]) \in Nat \ {0}
  BY SchedulerAssumption, EmptySeq DEF SchedulerAssumption, Validated
<1>4. StagesInOrder
  BY <1>3 DEF Init, StagesInOrder
<1>5. \A t \in Task : ~Finished(t)
  BY <1>3 DEF Init, Finished
<1>6. OnePlace
  BY <1>5 DEF Init, OnePlace, InFlight, EventsOf
<1>7. CompletedOnce
  BY <1>5 DEF Init, CompletedOnce, IsInjective, Range
<1>8. ActiveTasks = {}
  BY DEF Init, ActiveTasks
<1>9. ActiveCountExact
  BY <1>8, FS_EmptySet DEF Init, ActiveCountExact
<1>10. \A r \in Resource : UnitsHeld(r) = {}
  BY <1>8 DEF UnitsHeld
<1>11. ASSUME NEW r \in Resource
       PROVE  /\ inUse[r] = Cardinality(UnitsHeld(r))
              /\ inUse[r] <= Capacity[r]
              /\ IsFiniteSet(UnitsHeld(r))
  <2>1. inUse[r] = 0 /\ Capacity[r] \in Nat
    BY SchedulerAssumption DEF Init, SchedulerAssumption
  <2>2. Cardinality(UnitsHeld(r)) = 0 /\ IsFiniteSet(UnitsHeld(r))
    BY <1>10, FS_EmptySet
  <2> QED BY <2>1, <2>2
<1> QED BY <1>1, <1>2, <1>4, <1>6, <1>7, <1>9, <1>11 DEF IInv, UnitsAccounted

\* Actions that leave the active flags and stages alone leave the accounts alone.
LEMMA SameAccounted ==
  ASSUME Accounted, UNCHANGED <<stageIndex, active, inUse, activeTaskCount>>
  PROVE  Accounted'
<1>1. ActiveTasks' = ActiveTasks
  BY DEF ActiveTasks
<1>2. \A r \in Resource : UnitsHeld(r)' = UnitsHeld(r)
  BY <1>1 DEF UnitsHeld, Stage
<1> QED BY <1>1, <1>2 DEF Accounted, ActiveCountExact, UnitsAccounted

\* Where task t is, the body of OnePlace
Place(t) ==
  IF ~InFlight(t) THEN t \notin waitingSet /\ EventsOf(t) = {}
  ELSE IF t \in waitingSet THEN EventsOf(t) = {}
  ELSE \E e \in eventQueue : EventsOf(t) = {e}

\* An action that leaves a task's own state alone leaves it in its place.
LEMMA SamePlace ==
  ASSUME NEW t \in Task, Place(t),
         stageIndex'[t] = stageIndex[t],
         t \in tasks' <=> t \in tasks,
         t \in waitingSet' <=> t \in waitingSet,
         EventsOf(t)' = EventsOf(t)
  PROVE  Place(t)'
<1>1. InFlight(t)' = InFlight(t)
  BY DEF InFlight, Finished
<1>2. ASSUME NEW e \in eventQueue, EventsOf(t) = {e}
      PROVE  e \in eventQueue'
  BY <1>2 DEF EventsOf
<1> QED BY <1>1, <1>2 DEF Place

\* submit_task preserves the invariant.
LEMMA SubmitIInv ==
  ASSUME IInv, NEW t \in Task, Submit(t)
  PROVE  IInv'
<1> USE DEF IInv
<1>1. PICK arrival \in ArrivalTimes \cup {currentTime} :
        /\ arrival >= currentTime
        /\ arrivalTime' = [arrivalTime EXCEPT ![t] = arrival]
        /\ eventQueue' = eventQueue \cup {Event(arrival, "arrival", t)}
  BY DEF Submit
<1> DEFINE new == Event(arrival, "arrival", t)
<1>2. arrival \in Nat /\ new \in Events /\ new.id = t /\ new.timestamp = arrival /\ new.type = "arrival"
  BY SchedulerAssumption DEF SchedulerAssumption, TypeOK, Event, Events, EventType
<1>3. TypeOK'
  BY <1>1, <1>2 DEF Submit, TypeOK, runtimeVars
<1>4. WaitingConsistent'
  BY DEF Submit, WaitingConsistent
<1>5. StagesInOrder'
  BY DEF Submit, StagesInOrder
<1>6. EventsOf(t)' = EventsOf(t) \cup {new} /\ \A u \in Task \ {t} : EventsOf(u)' = EventsOf(u)
  BY <1>1, <1>2 DEF EventsOf
<1>7. \A u \in Task : Finished(u)' = Finished(u)
  BY DEF Submit, Finished
<1>8. t \notin waitingSet /\ EventsOf(t) = {} /\ ~InFlight(t)
  BY DEF Submit, OnePlace, InFlight
<1>9. OnePlace'
  <2>1. ASSUME NEW u \in Task \ {t}
        PROVE  Place(u)'
    BY <1>6, SamePlace DEF Submit, OnePlace, Place
  <2>2. Place(t)'
    <3>1. stageIndex[t] = 1 /\ Len(Stages[t]) \in Nat \ {0}
      BY SchedulerAssumption, EmptySeq DEF Submit, StagesInOrder, SchedulerAssumption, Validated
    <3>2. ~Finished(t)'
      BY <3>1, <1>7 DEF Finished
    <3>3. EventsOf(t)' = {new} /\ new \in eventQueue'
      BY <1>1, <1>6, <1>8
    <3>4. InFlight(t)'
      BY <3>2 DEF Submit, InFlight
    <3> QED BY <3>3, <3>4, <1>8 DEF Submit, Place
  <2> QED BY <2>1, <2>2 DEF OnePlace, Place
<1>10. ActiveHasEvent'
  BY <1>2, <1>6, <1>8 DEF Submit, ActiveHasEvent, runtimeVars
<1>11. CompletedOnce'
  BY <1>7 DEF Submit, CompletedOnce
<1>12. Accounted'
  BY SameAccounted DEF Submit, Accounted, runtimeVars
<1>13. NoEventInThePast' /\ DrainHasWork'
  BY <1>1, <1>2 DEF Submit, NoEventInThePast, DrainHasWork
<1> QED BY <1>3, <1>4, <1>5, <1>9, <1>10, <1>11, <1>12, <1>13 DEF Accounted

\* The task of a pending event has no other event and does not wait.
LEMMA EventOwner ==
  ASSUME IInv, NEW e \in eventQueue
  PROVE  /\ e.timestamp \in Nat
         /\ e.type \in EventType
         /\ e.id \in Task
         /\ e.id \in tasks
         /\ ~Finished(e.id)
         /\ e.id \notin waitingSet
         /\ EventsOf(e.id) = {e}
         /\ active[e.id] <=> e.type \in {"start", "complete"}
<1> USE DEF IInv
<1>1. e.timestamp \in Nat /\ e.type \in EventType /\ e.id \in Task
  BY DEF TypeOK, Events
<1>2. e \in EventsOf(e.id)
  BY DEF EventsOf
<1>3. Place(e.id)
  BY <1>1 DEF OnePlace, Place
<1>4. InFlight(e.id) /\ e.id \notin waitingSet /\ EventsOf(e.id) = {e}
  BY <1>2, <1>3 DEF Place
<1>5. active[e.id] <=> \E f \in EventsOf(e.id) : f.type \in {"start", "complete"}
  BY <1>1 DEF ActiveHasEvent
<1>6. active[e.id] <=> e.type \in {"start", "complete"}
  BY <1>4, <1>5
<1> QED BY <1>1, <1>4, <1>6 DEF InFlight

\* Replacing a task's only event leaves it with the new one only.
LEMMA EventReplaced ==
  ASSUME NEW e \in eventQueue, EventsOf(e.id) = {e},
         NEW n, n.id = e.id,
         eventQueue' = (eventQueue \ {e}) \cup {n}
  PROVE  /\ EventsOf(e.id)' = {n}
         /\ n \in eventQueue'
         /\ \A u \in Task \ {e.id} : EventsOf(u)' = EventsOf(u)
<1>1. \A f \in eventQueue \ {e} : f.id # e.id
  BY DEF EventsOf
<1> QED BY <1>1 DEF EventsOf

\* Taking a task's only event leaves it with none.
LEMMA EventTaken ==
  ASSUME NEW e \in eventQueue, EventsOf(e.id) = {e},
         eventQueue' = eventQueue \ {e}
  PROVE  /\ EventsOf(e.id)' = {}
         /\ \A u \in Task \ {e.id} : EventsOf(u)' = EventsOf(u)
<1>1. \A f \in eventQueue \ {e} : f.id # e.id
  BY DEF EventsOf
<1> QED BY <1>1 DEF EventsOf

\* A scheduled event has the fields it was made from.
LEMMA EventTypes ==
  ASSUME NEW time \in Nat, NEW type \in EventType, NEW t \in Task
  PROVE  /\ Event(time, type, t) \in Events
         /\ Event(time, type, t).timestamp = time
         /\ Event(time, type, t).type = type
         /\ Event(time, type, t).id = t
BY DEF Event, Events

\* A task in flight that does not wait and has one event is in its place.
LEMMA PlaceWithEvent ==
  ASSUME NEW t \in Task, t \in tasks', ~Finished(t)', t \notin waitingSet',
         NEW e \in eventQueue', EventsOf(t)' = {e}
  PROVE  Place(t)'
BY DEF Place, InFlight

\* Taking an event of least timestamp and pushing later ones keeps time in order.
LEMMA PopInOrder ==
  ASSUME TypeOK, NEW e \in eventQueue, NEW type, Pop(e, type),
         NEW pushed, \A f \in pushed : f.timestamp \in Nat /\ f.timestamp >= e.timestamp,
         eventQueue' \subseteq eventQueue \cup pushed
  PROVE  /\ NoEventInThePast'
         /\ currentTime' \in Nat
<1>1. \A f \in eventQueue : f.timestamp \in Nat /\ f.timestamp >= e.timestamp
  BY DEF Pop, TypeOK, Events
<1> QED BY <1>1 DEF Pop, NoEventInThePast

\* An event is replaced by another one of the same task: arrival and start.
LEMMA RelayIInv ==
  ASSUME IInv, NEW e \in eventQueue, NEW type, Pop(e, type),
         NEW time \in Nat, time >= e.timestamp, NEW next \in EventType,
         next \in {"start", "complete"} <=> e.type \in {"start", "complete"},
         eventQueue' = (eventQueue \ {e}) \cup {Event(time, next, e.id)},
         UNCHANGED <<tasks, arrivalTime, stageIndex, readyTime, runtimeVars,
                     waitingQueue, waitingSet, admissionLimit, completedTasks,
                     drainLeft>>
  PROVE  IInv'
<1> DEFINE t == e.id
           n == Event(time, next, t)
<1> USE DEF IInv, runtimeVars
<1>1. /\ e.timestamp \in Nat
      /\ t \in Task /\ t \in tasks /\ ~Finished(t) /\ t \notin waitingSet
      /\ EventsOf(t) = {e}
      /\ active[t] <=> e.type \in {"start", "complete"}
  BY EventOwner
<1>2. n \in Events /\ n.timestamp = time /\ n.type = next /\ n.id = t
  BY <1>1, EventTypes
<1>3. /\ EventsOf(t)' = {n}
      /\ n \in eventQueue'
      /\ \A u \in Task \ {t} : EventsOf(u)' = EventsOf(u)
  BY <1>1, <1>2, EventReplaced
<1>4. NoEventInThePast' /\ currentTime' \in Nat
  <2>1. eventQueue' \subseteq eventQueue \cup {n}
    OBVIOUS
  <2>2. \A f \in {n} : f.timestamp \in Nat /\ f.timestamp >= e.timestamp
    BY <1>2
  <2> QED BY <2>1, <2>2, PopInOrder
<1>5. TypeOK'
  BY <1>2, <1>4 DEF TypeOK
<1>6. WaitingConsistent' /\ StagesInOrder' /\ DrainHasWork'
  BY DEF WaitingConsistent, StagesInOrder, DrainHasWork
<1>7. OnePlace'
  <2>1. ASSUME NEW u \in Task \ {t}
        PROVE  Place(u)'
    BY <1>3, SamePlace DEF OnePlace, Place
  <2>2. Place(t)'
    <3>1. ~Finished(t)'
      BY <1>1 DEF Finished
    <3> QED BY <3>1, <1>1, <1>3, PlaceWithEvent
  <2> QED BY <2>1, <2>2 DEF OnePlace, Place
<1>8. ActiveHasEvent'
  <2>1. \A u \in Task \ {t} :
          active'[u] <=> \E f \in EventsOf(u)' : f.type \in {"start", "complete"}
    BY <1>3 DEF ActiveHasEvent
  <2>2. active'[t] <=> \E f \in EventsOf(t)' : f.type \in {"start", "complete"}
    BY <1>1, <1>2, <1>3
  <2> QED BY <2>1, <2>2 DEF ActiveHasEvent
<1>9. CompletedOnce'
  BY DEF CompletedOnce, Finished
<1>10. Accounted'
  BY SameAccounted DEF Accounted
<1> QED BY <1>4, <1>5, <1>6, <1>7, <1>8, <1>9, <1>10 DEF Accounted

\* handle_task_arrival preserves the invariant.
LEMMA ArrivalIInv ==
  ASSUME IInv, NEW e \in eventQueue, HandleTaskArrival(e)
  PROVE  IInv'
<1>1. e.timestamp \in Nat /\ e.type = "arrival" /\ "ready" \in EventType /\ Pop(e, "arrival")
  BY EventOwner DEF HandleTaskArrival, Pop, EventType
<1> QED BY <1>1, RelayIInv DEF HandleTaskArrival

\* handle_task_start preserves the invariant.
LEMMA StartIInv ==
  ASSUME IInv, NEW e \in eventQueue, HandleTaskStart(e)
  PROVE  IInv'
<1> DEFINE time == e.timestamp + activeServiceTime[e.id]
<1>1. e.timestamp \in Nat /\ e.type = "start" /\ "complete" \in EventType /\ Pop(e, "start")
  BY EventOwner DEF HandleTaskStart, Pop, EventType
<1>2. time \in Nat /\ time >= e.timestamp
  <2>1. e.id \in Task
    BY EventOwner
  <2>2. activeServiceTime[e.id] \in Nat
    BY <2>1 DEF IInv, TypeOK
  <2> QED BY <2>2, <1>1
<1> HIDE DEF time
<1> QED BY <1>1, <1>2, RelayIInv DEF HandleTaskStart, time

\* Where try_start_task succeeds: in handle_task_ready, pending is the event
\* queue without t's Ready event; in the drain, t waits and pending is the whole.
LEMMA TryStartIInv ==
  ASSUME IInv,
         NEW t \in Task, t \in tasks, ~Finished(t), ~active[t], Fits(t),
         NEW pending \in SUBSET eventQueue,
         \A f \in pending : f.id # t,
         \A f \in eventQueue : f.id # t => f \in pending,
         NEW ready \in Nat,
         currentTime' \in Nat,
         \A f \in pending : f.timestamp >= currentTime',
         StartTask(t, pending, currentTime', ready),
         waitingQueue' \in Seq(Task), IsInjective(waitingQueue'),
         Range(waitingQueue') = waitingSet \ {t},
         readyTime' \in [Task -> Nat],
         admissionLimit' \in Nat \cup {NoLimit},
         drainLeft' \in Nat, DrainHasWork',
         UNCHANGED <<tasks, arrivalTime, stageIndex, completedTasks>>
  PROVE  IInv'
<1> DEFINE n == Event(currentTime', "start", t)
<1> USE DEF IInv
<1>1. /\ active' = [active EXCEPT ![t] = TRUE]
      /\ waitingSet' = waitingSet \ {t}
      /\ eventQueue' = pending \cup {n}
  BY DEF StartTask
<1>2. n \in Events /\ n.timestamp = currentTime' /\ n.type = "start" /\ n.id = t
  BY EventTypes DEF EventType
<1>3. /\ EventsOf(t)' = {n}
      /\ n \in eventQueue'
      /\ \A u \in Task \ {t} : EventsOf(u)' = EventsOf(u)
  BY <1>1, <1>2 DEF EventsOf
<1>4. /\ Accounted'
      /\ inUse' \in [Resource -> Nat]
      /\ active' \in [Task -> BOOLEAN]
      /\ activeTaskCount' \in Nat \ {0}
      /\ activeServiceTime' \in [Task -> Nat]
      /\ queueTime' \in [Task -> Nat]
      /\ serviceTime' \in [Task -> Nat]
  <2>1. Accounted
    BY DEF Accounted
  <2> QED BY <2>1, StartAccounted
<1>5. TypeOK'
  BY <1>1, <1>2, <1>4 DEF TypeOK
<1>6. WaitingConsistent'
  BY <1>1 DEF WaitingConsistent
<1>7. StagesInOrder'
  BY DEF StagesInOrder
<1>8. OnePlace'
  <2>1. ASSUME NEW u \in Task \ {t}
        PROVE  Place(u)'
    <3>1. u \in waitingSet' <=> u \in waitingSet
      BY <1>1
    <3> QED BY <3>1, <1>3, SamePlace DEF OnePlace, Place
  <2>2. Place(t)'
    <3>1. ~Finished(t)' /\ t \notin waitingSet' /\ t \in tasks'
      BY <1>1 DEF Finished
    <3> QED BY <3>1, <1>3, PlaceWithEvent
  <2> QED BY <2>1, <2>2 DEF OnePlace, Place
<1>9. ActiveHasEvent'
  <2>1. \A u \in Task \ {t} :
          active'[u] <=> \E f \in EventsOf(u)' : f.type \in {"start", "complete"}
    BY <1>1, <1>3 DEF ActiveHasEvent, TypeOK
  <2>2. active'[t] <=> \E f \in EventsOf(t)' : f.type \in {"start", "complete"}
    BY <1>1, <1>2, <1>3 DEF TypeOK
  <2> QED BY <2>1, <2>2 DEF ActiveHasEvent
<1>10. CompletedOnce'
  BY DEF CompletedOnce, Finished
<1>11. NoEventInThePast'
  BY <1>1, <1>2 DEF NoEventInThePast
<1> QED BY <1>4, <1>5, <1>6, <1>7, <1>8, <1>9, <1>10, <1>11 DEF Accounted

\* What handle_task_ready finds when it takes the event
LEMMA ReadyTaken ==
  ASSUME IInv, NEW e \in eventQueue, TakeReady(e)
  PROVE  /\ e.timestamp \in Nat
         /\ e.id \in Task /\ e.id \in tasks /\ ~Finished(e.id) /\ e.id \notin waitingSet
         /\ EventsOf(e.id) = {e}
         /\ ~active[e.id]
         /\ Pop(e, "ready")
         /\ readyTime' \in [Task -> Nat]
         /\ currentTime' = e.timestamp
         /\ drainLeft = 0
         /\ UNCHANGED <<tasks, arrivalTime, stageIndex, completedTasks, drainLeft>>
<1> USE DEF IInv
<1>1. /\ e.timestamp \in Nat
      /\ e.id \in Task /\ e.id \in tasks /\ ~Finished(e.id) /\ e.id \notin waitingSet
      /\ EventsOf(e.id) = {e}
      /\ ~active[e.id]
  BY EventOwner DEF TakeReady, Pop
<1>2. readyTime' \in [Task -> Nat]
  BY <1>1 DEF TakeReady, ReadyRecorded, TypeOK
<1> QED BY <1>1, <1>2 DEF TakeReady, Pop

\* handle_task_ready preserves the invariant when the task starts ...
LEMMA ReadyStartsIInv ==
  ASSUME IInv, NEW e \in eventQueue, TakeReady(e),
         NEW h, HookResult(h, waitingSet), ReadyStarts(e, h)
  PROVE  IInv'
<1> DEFINE t == e.id
           pending == eventQueue \ {e}
<1>1. /\ e.timestamp \in Nat
      /\ t \in Task /\ t \in tasks /\ ~Finished(t) /\ t \notin waitingSet
      /\ EventsOf(t) = {e}
      /\ ~active[t]
      /\ Pop(e, "ready")
      /\ readyTime' \in [Task -> Nat]
      /\ currentTime' = e.timestamp
      /\ drainLeft = 0
      /\ UNCHANGED <<tasks, arrivalTime, stageIndex, completedTasks, drainLeft>>
  BY ReadyTaken
<1>2. drainLeft' \in Nat /\ DrainHasWork'
  BY <1>1 DEF DrainHasWork
<1>3. /\ h.queue \in Seq(Task) /\ IsInjective(h.queue) /\ Range(h.queue) = waitingSet
      /\ h.limit \in Nat \cup {NoLimit}
  BY DEF HookResult
<1>4. \A f \in eventQueue : f # e <=> f.id # t
  BY <1>1 DEF EventsOf
<1>5. /\ pending \in SUBSET eventQueue
      /\ \A f \in pending : f.id # t
      /\ \A f \in eventQueue : f.id # t => f \in pending
  BY <1>4
<1>6. \A f \in pending : f.timestamp >= currentTime'
  BY <1>1 DEF Pop
<1>7. waitingQueue' = h.queue /\ admissionLimit' = h.limit
  BY DEF ReadyStarts
<1>8. Range(waitingQueue') = waitingSet \ {t}
  BY <1>1, <1>3, <1>7
<1>9. Fits(t)
  BY DEF ReadyStarts, CanStart
<1>10. StartTask(t, pending, currentTime', e.timestamp)
  BY <1>1 DEF ReadyStarts
<1> HIDE DEF pending
<1> QED BY <1>1, <1>2, <1>3, <1>5, <1>6, <1>7, <1>8, <1>9, <1>10, TryStartIInv

\* ... and when it has to wait.
LEMMA ReadyWaitsIInv ==
  ASSUME IInv, NEW e \in eventQueue, TakeReady(e),
         NEW h, NEW g, HookResult(g, Enlisted(e.id)), ReadyWaits(e, h, g)
  PROVE  IInv'
<1> DEFINE t == e.id
<1> USE DEF IInv
<1>1. /\ e.timestamp \in Nat
      /\ t \in Task /\ t \in tasks /\ ~Finished(t) /\ t \notin waitingSet
      /\ EventsOf(t) = {e}
      /\ ~active[t]
  BY ReadyTaken
<1>2. /\ Pop(e, "ready")
      /\ readyTime' \in [Task -> Nat]
      /\ currentTime' = e.timestamp
      /\ drainLeft' \in Nat
      /\ DrainHasWork'
      /\ UNCHANGED <<tasks, arrivalTime, stageIndex, completedTasks>>
  BY ReadyTaken DEF DrainHasWork
<1>3. /\ waitingSet' = Enlisted(t)
      /\ eventQueue' = eventQueue \ {e}
      /\ UNCHANGED runtimeVars
  BY DEF ReadyWaits
<1>4. Enlisted(t) \in SUBSET Task
  BY <1>1 DEF Enlisted, TypeOK
<1>5. /\ waitingQueue' \in Seq(Task)
      /\ IsInjective(waitingQueue')
      /\ Range(waitingQueue') = Enlisted(t)
      /\ admissionLimit' \in Nat \cup {NoLimit}
  BY DEF ReadyWaits, HookResult
<1>6. /\ EventsOf(t)' = {}
      /\ \A u \in Task \ {t} : EventsOf(u)' = EventsOf(u)
  BY <1>1, <1>3, EventTaken
<1>7. NoEventInThePast' /\ currentTime' \in Nat
  <2> DEFINE pushed == {}
  <2>1. eventQueue' \subseteq eventQueue \cup pushed
    BY <1>3
  <2>2. \A f \in pushed : f.timestamp \in Nat /\ f.timestamp >= e.timestamp
    OBVIOUS
  <2> HIDE DEF pushed
  <2> QED BY <2>1, <2>2, <1>2, PopInOrder
<1>8. TypeOK'
  BY <1>2, <1>3, <1>4, <1>5, <1>7 DEF TypeOK, runtimeVars
<1>9. WaitingConsistent'
  BY <1>3, <1>5 DEF WaitingConsistent
<1>10. StagesInOrder'
  BY <1>2 DEF StagesInOrder
<1>11. OnePlace'
  <2>1. ASSUME NEW u \in Task \ {t}
        PROVE  Place(u)'
    <3>1. u \in waitingSet' <=> u \in waitingSet
      BY <1>3 DEF Enlisted
    <3> QED BY <3>1, <1>2, <1>6, SamePlace DEF OnePlace, Place
  <2>2. Place(t)'
    <3>1. InFlight(t)' /\ t \in waitingSet'
      BY <1>1, <1>2, <1>3 DEF Enlisted, InFlight, Finished
    <3> QED BY <3>1, <1>6 DEF Place
  <2> QED BY <2>1, <2>2 DEF OnePlace, Place
<1>12. ActiveHasEvent'
  <2>1. UNCHANGED active
    BY <1>3 DEF runtimeVars
  <2> QED BY <2>1, <1>1, <1>6 DEF ActiveHasEvent
<1>13. CompletedOnce'
  BY <1>2 DEF CompletedOnce, Finished
<1>14. Accounted'
  BY <1>2, <1>3, SameAccounted DEF Accounted, runtimeVars
<1> QED BY <1>7, <1>8, <1>9, <1>10, <1>11, <1>12, <1>13, <1>14, <1>2 DEF Accounted

\* handle_task_ready preserves the invariant.
LEMMA ReadyIInv ==
  ASSUME IInv, NEW e \in eventQueue, HandleTaskReady(e)
  PROVE  IInv'
<1> DEFINE t == e.id
<1>1. TakeReady(e) /\ t \in Task /\ t \notin waitingSet
  BY ReadyTaken DEF HandleTaskReady
<1>2. PICK h \in EvaluatePolicyHook(waitingQueue, waitingSet, admissionLimit) :
        \/ ReadyStarts(e, h)
        \/ \E g \in EvaluatePolicyHook(Append(h.queue, t), Enlisted(t), h.limit) :
             ReadyWaits(e, h, g)
  BY DEF HandleTaskReady
<1>3. HookResult(h, waitingSet)
  <2>1. /\ waitingQueue \in Seq(Task) /\ waitingSet \in SUBSET Task
        /\ Range(waitingQueue) = waitingSet /\ admissionLimit \in Nat \cup {NoLimit}
    BY DEF IInv, TypeOK, WaitingConsistent
  <2> QED BY <2>1, HookKeepsQueue
<1>4. CASE ReadyStarts(e, h)
  BY <1>1, <1>3, <1>4, ReadyStartsIInv
<1>5. ASSUME NEW g \in EvaluatePolicyHook(Append(h.queue, t), Enlisted(t), h.limit),
             ReadyWaits(e, h, g)
      PROVE  IInv'
  <2> DEFINE q == Append(h.queue, t)
             w == Enlisted(t)
             l == h.limit
  <2>1. q \in Seq(Task) /\ Range(q) = w /\ w \in SUBSET Task /\ l \in Nat \cup {NoLimit}
    BY <1>1, <1>3, AppendFresh DEF Enlisted, IInv, TypeOK, HookResult
  <2>2. g \in EvaluatePolicyHook(q, w, l)
    BY <1>5
  <2> HIDE DEF q, w, l
  <2>3. HookResult(g, w)
    BY <2>1, <2>2, HookKeepsQueue
  <2>4. HookResult(g, Enlisted(e.id))
    BY <2>3 DEF w
  <2> QED BY <1>1, <1>5, <2>4, ReadyWaitsIInv
<1> QED BY <1>2, <1>4, <1>5

\* An iteration of drain_waiting preserves the invariant, whatever the hook left.
LEMMA FrontIInv ==
  ASSUME IInv, drainLeft > 0,
         NEW h, HookResult(h, waitingSet), h.queue # <<>>, TryFront(h), GoOnDraining
  PROVE  IInv'
<1> USE DEF IInv
<1>1. LET t == Head(h.queue) IN
        /\ admissionLimit' = h.limit
        /\ \/ /\ CanStart(t, h.limit)
              /\ StartTask(t, eventQueue, currentTime, readyTime[t])
              /\ waitingQueue' = Tail(h.queue)
           \/ /\ ~CanStart(t, h.limit)
              /\ waitingQueue' = Append(Tail(h.queue), t)
              /\ UNCHANGED <<eventQueue, waitingSet, runtimeVars>>
  BY DEF TryFront
<1> DEFINE t == Head(h.queue)
<1>2. /\ drainLeft > 0
      /\ drainLeft' = IF waitingQueue' = <<>> THEN 0 ELSE drainLeft - 1
      /\ UNCHANGED <<currentTime, tasks, arrivalTime, stageIndex, readyTime, completedTasks>>
  BY DEF GoOnDraining
<1>3. drainLeft' \in Nat /\ DrainHasWork'
  BY <1>2 DEF TypeOK, DrainHasWork
<1>4. /\ h.queue \in Seq(Task) /\ IsInjective(h.queue) /\ Range(h.queue) = waitingSet
      /\ h.limit \in Nat \cup {NoLimit}
      /\ h.queue # <<>>
  BY DEF HookResult
<1>5. /\ t \in Task /\ t \in waitingSet
      /\ Tail(h.queue) \in Seq(Task) /\ IsInjective(Tail(h.queue))
      /\ Range(Tail(h.queue)) = waitingSet \ {t}
  BY <1>4, HeadTail
<1>6. /\ t \in tasks /\ ~Finished(t) /\ ~active[t]
      /\ \A f \in eventQueue : f.id # t
  <2>1. InFlight(t) /\ EventsOf(t) = {}
    BY <1>5 DEF OnePlace
  <2> QED BY <2>1, <1>5 DEF InFlight, EventsOf, ActiveHasEvent
<1>7. CASE /\ CanStart(t, h.limit)
           /\ StartTask(t, eventQueue, currentTime, readyTime[t])
           /\ waitingQueue' = Tail(h.queue)
  <2>1. Fits(t) /\ StartTask(t, eventQueue, currentTime', readyTime[t])
    BY <1>2, <1>7 DEF CanStart
  <2>2. currentTime' \in Nat /\ readyTime[t] \in Nat /\ readyTime' \in [Task -> Nat]
    BY <1>2, <1>5 DEF TypeOK
  <2>3. \A f \in eventQueue : f.timestamp >= currentTime'
    BY <1>2 DEF NoEventInThePast
  <2>4. admissionLimit' \in Nat \cup {NoLimit}
    BY <1>1, <1>4
  <2> HIDE DEF t
  <2> QED BY <1>2, <1>3, <1>5, <1>6, <1>7, <2>1, <2>2, <2>3, <2>4, TryStartIInv
<1>8. CASE /\ waitingQueue' = Append(Tail(h.queue), t)
           /\ UNCHANGED <<eventQueue, waitingSet, runtimeVars>>
  <2>1. /\ waitingQueue' \in Seq(Task)
        /\ IsInjective(waitingQueue')
        /\ Range(waitingQueue') = waitingSet
    <3> DEFINE rest == Tail(h.queue)
    <3>1. /\ rest \in Seq(Task) /\ IsInjective(rest) /\ t \in Task
          /\ t \notin Range(rest)
          /\ Range(rest) \cup {t} = waitingSet
          /\ waitingQueue' = Append(rest, t)
      BY <1>5, <1>8
    <3> HIDE DEF rest, t
    <3> QED BY <3>1, AppendFresh
  <2>2. TypeOK'
    BY <1>1, <1>2, <1>3, <1>4, <1>8, <2>1 DEF TypeOK, runtimeVars
  <2>3. WaitingConsistent' /\ StagesInOrder' /\ NoEventInThePast'
    BY <1>2, <1>8, <2>1 DEF WaitingConsistent, StagesInOrder, NoEventInThePast
  <2>4. OnePlace' /\ ActiveHasEvent' /\ CompletedOnce'
    BY <1>2, <1>8 DEF OnePlace, ActiveHasEvent, CompletedOnce, EventsOf, InFlight,
                      Finished, runtimeVars
  <2>5. Accounted'
    BY <1>2, <1>8, SameAccounted DEF Accounted, runtimeVars
  <2> QED BY <1>3, <2>2, <2>3, <2>4, <2>5 DEF Accounted
<1> QED BY <1>1, <1>7, <1>8

LEMMA DrainIInv ==
  ASSUME IInv, DrainStep
  PROVE  IInv'
<1>1. PICK h \in EvaluatePolicyHook(waitingQueue, waitingSet, admissionLimit) : TryFront(h)
  BY DEF DrainStep
<1>2. drainLeft > 0 /\ GoOnDraining
  BY DEF DrainStep
<1>3. /\ waitingQueue # <<>> /\ waitingQueue \in Seq(Task) /\ waitingSet \in SUBSET Task
      /\ Range(waitingQueue) = waitingSet /\ admissionLimit \in Nat \cup {NoLimit}
  BY <1>2 DEF IInv, TypeOK, DrainHasWork, WaitingConsistent
<1>4. HookResult(h, waitingSet) /\ h.queue # <<>>
  BY <1>3, HookKeepsQueue
<1> QED BY <1>1, <1>2, <1>4, FrontIInv

\* handle_task_complete, up to its drain, preserves the invariant.
LEMMA CompleteIInv ==
  ASSUME IInv, NEW e \in eventQueue, HandleTaskComplete(e)
  PROVE  IInv'
<1> DEFINE t == e.id
           d == Stage(t).demand
<1> USE DEF IInv
<1>1. /\ e.timestamp \in Nat
      /\ t \in Task /\ t \in tasks /\ ~Finished(t) /\ t \notin waitingSet
      /\ EventsOf(t) = {e}
      /\ active[t]
  BY EventOwner DEF HandleTaskComplete, Pop
<1>2. /\ Pop(e, "complete")
      /\ inUse' = [r \in Resource |-> inUse[r] - d[r]]
      /\ active' = [active EXCEPT ![t] = FALSE]
      /\ activeServiceTime' = [activeServiceTime EXCEPT ![t] = 0]
      /\ stageIndex' = [stageIndex EXCEPT ![t] = @ + 1]
      /\ drainLeft' = Len(waitingQueue)
      /\ UNCHANGED <<tasks, arrivalTime, readyTime, queueTime, serviceTime,
                     waitingQueue, waitingSet, admissionLimit>>
  BY DEF HandleTaskComplete, Released, Deactivated, DrainIterations
<1>3. d \in [Resource -> Nat]
  BY <1>1, StageTyped
<1>4. ActiveTasks' = ActiveTasks \ {t} /\ t \in ActiveTasks
  BY <1>1, <1>2 DEF ActiveTasks, TypeOK
<1>5. ActiveCountExact' /\ activeTaskCount' \in Nat
  <2>1. IsFiniteSet(ActiveTasks)
    BY SchedulerAssumption, FS_Subset DEF SchedulerAssumption, ActiveTasks
  <2>2. Cardinality(ActiveTasks \ {t}) = Cardinality(ActiveTasks) - 1
    BY <2>1, <1>4, FS_RemoveElement
  <2>3. activeTaskCount \in Nat /\ activeTaskCount # 0
    BY <1>1, NothingActive DEF TypeOK
  <2>4. activeTaskCount' = activeTaskCount - 1
    BY <1>1, <2>3 DEF HandleTaskComplete, CountAfterCompletion
  <2> QED BY <2>2, <2>3, <2>4, <1>4 DEF ActiveCountExact
<1>6. ASSUME NEW r \in Resource
      PROVE  /\ inUse'[r] = Cardinality(UnitsHeld(r)')
             /\ inUse'[r] <= Capacity[r]
             /\ inUse'[r] \in Nat
             /\ IsFiniteSet(UnitsHeld(r)')
  <2>1. UnitsHeld(r)' = UnitsHeld(r) \ Units(t, d[r])
    <3>1. \A u \in ActiveTasks \ {t} : Stage(u)' = Stage(u)
      BY <1>2 DEF Stage, ActiveTasks, TypeOK
    <3> QED BY <3>1, <1>4 DEF UnitsHeld, Units
  <2>2. Units(t, d[r]) \subseteq UnitsHeld(r)
    BY <1>4 DEF UnitsHeld, Units
  <2>3. /\ IsFiniteSet(UnitsHeld(r) \ Units(t, d[r]))
        /\ Cardinality(UnitsHeld(r) \ Units(t, d[r])) = Cardinality(UnitsHeld(r)) - d[r]
        /\ d[r] <= Cardinality(UnitsHeld(r))
    BY <2>2, <1>3, UnitsRemoved
  <2>4. inUse[r] = Cardinality(UnitsHeld(r)) /\ inUse[r] <= Capacity[r] /\ inUse[r] \in Nat
    BY DEF UnitsAccounted, TypeOK
  <2>5. inUse'[r] = inUse[r] - d[r] /\ d[r] \in Nat /\ Capacity[r] \in Nat
    BY <1>2, <1>3, SchedulerAssumption DEF SchedulerAssumption
  <2> QED BY <2>1, <2>3, <2>4, <2>5
<1>7. UnitsAccounted' /\ (\A r \in Resource : IsFiniteSet(UnitsHeld(r)')) /\ inUse' \in [Resource -> Nat]
  BY <1>2, <1>6 DEF UnitsAccounted
<1>8. /\ Len(Stages[t]) \in Nat /\ stageIndex[t] \in Nat \ {0}
      /\ stageIndex[t] <= Len(Stages[t])
      /\ stageIndex'[t] = stageIndex[t] + 1
      /\ \A u \in Task \ {t} : stageIndex'[u] = stageIndex[u]
  <2>1. Stages[t] \in Seq(StageType)
    BY <1>1, SchedulerAssumption DEF SchedulerAssumption
  <2>2. Len(Stages[t]) \in Nat /\ stageIndex[t] \in Nat \ {0}
    BY <2>1, <1>1 DEF TypeOK
  <2>3. stageIndex[t] <= Len(Stages[t])
    BY <2>2, <1>1 DEF Finished
  <2> QED BY <2>2, <2>3, <1>1, <1>2 DEF TypeOK
<1>9. StagesInOrder' /\ stageIndex' \in [Task -> Nat \ {0}]
  <2>1. ASSUME NEW u \in Task \ {t}
        PROVE  stageIndex'[u] <= Len(Stages[u]) + 1 /\ (u \notin tasks => stageIndex'[u] = 1)
    BY <1>8 DEF StagesInOrder
  <2>2. stageIndex'[t] <= Len(Stages[t]) + 1
    <3> DEFINE n == Len(Stages[t])
               i == stageIndex[t]
    <3>1. n \in Nat /\ i \in Nat /\ i <= n /\ stageIndex'[t] = i + 1
      BY <1>8
    <3> HIDE DEF n, i
    <3> QED BY <3>1 DEF n
  <2>3. stageIndex' \in [Task -> Nat \ {0}]
    <3>1. stageIndex[t] + 1 \in Nat \ {0}
      BY <1>8
    <3> QED BY <3>1, <1>2 DEF TypeOK
  <2> QED BY <2>1, <2>2, <2>3, <1>1, <1>2 DEF StagesInOrder
<1>10. DrainHasWork' /\ drainLeft' \in Nat
  <2>1. waitingQueue \in Seq(Task)
    BY DEF TypeOK
  <2>2. Len(waitingQueue) \in Nat /\ (waitingQueue = <<>> => Len(waitingQueue) = 0)
    BY <2>1
  <2> QED BY <2>2, <1>2 DEF DrainHasWork
<1>11. WaitingConsistent'
  BY <1>2 DEF WaitingConsistent
<1>12. CASE HasNextStage(t)
  <2> DEFINE n == Event(e.timestamp, "ready", t)
  <2>1. n \in Events /\ n.timestamp = e.timestamp /\ n.type = "ready" /\ n.id = t
    BY <1>1, EventTypes DEF EventType
  <2>2. eventQueue' = (eventQueue \ {e}) \cup {n} /\ UNCHANGED completedTasks
    BY <1>12 DEF HandleTaskComplete
  <2>3. /\ EventsOf(t)' = {n}
        /\ n \in eventQueue'
        /\ \A u \in Task \ {t} : EventsOf(u)' = EventsOf(u)
    BY <1>1, <2>1, <2>2, EventReplaced
  <2>4. NoEventInThePast' /\ currentTime' \in Nat
    <3>1. eventQueue' \subseteq eventQueue \cup {n}
      BY <2>2
    <3>2. \A f \in {n} : f.timestamp \in Nat /\ f.timestamp >= e.timestamp
      BY <1>1, <2>1
    <3> QED BY <3>1, <3>2, <1>2, PopInOrder
  <2>5. TypeOK'
    BY <1>2, <1>5, <1>7, <1>9, <1>10, <2>1, <2>2, <2>4 DEF TypeOK
  <2>6. ~Finished(t)' /\ \A u \in Task : Finished(u)' <=> Finished(u)
    BY <1>1, <1>8, <1>12 DEF Finished, HasNextStage
  <2>7. OnePlace'
    <3>1. ASSUME NEW u \in Task \ {t}
          PROVE  Place(u)'
      BY <1>2, <1>8, <2>3, SamePlace DEF OnePlace, Place
    <3>2. Place(t)'
      BY <1>1, <1>2, <2>3, <2>6, PlaceWithEvent
    <3> QED BY <3>1, <3>2 DEF OnePlace, Place
  <2>8. ActiveHasEvent'
    BY <1>2, <2>1, <2>3 DEF ActiveHasEvent, TypeOK
  <2>9. CompletedOnce'
    BY <2>2, <2>6 DEF CompletedOnce
  <2> QED BY <1>5, <1>7, <1>9, <1>10, <1>11, <2>4, <2>5, <2>7, <2>8, <2>9
<1>13. CASE ~HasNextStage(t)
  <2>1. eventQueue' = eventQueue \ {e} /\ completedTasks' = Append(completedTasks, t)
    BY <1>13 DEF HandleTaskComplete
  <2>2. /\ EventsOf(t)' = {}
        /\ \A u \in Task \ {t} : EventsOf(u)' = EventsOf(u)
    BY <1>1, <2>1, EventTaken
  <2>3. NoEventInThePast' /\ currentTime' \in Nat
    <3> DEFINE pushed == {}
    <3>1. eventQueue' \subseteq eventQueue \cup pushed
      BY <2>1
    <3>2. \A f \in pushed : f.timestamp \in Nat /\ f.timestamp >= e.timestamp
      OBVIOUS
    <3> HIDE DEF pushed
    <3> QED BY <3>1, <3>2, <1>2, PopInOrder
  <2>4. Finished(t)' /\ \A u \in Task \ {t} : Finished(u)' <=> Finished(u)
    BY <1>8, <1>13 DEF Finished, HasNextStage
  <2>5. /\ completedTasks' \in Seq(Task)
        /\ IsInjective(completedTasks')
        /\ Range(completedTasks') = Range(completedTasks) \cup {t}
    <3>1. t \notin Range(completedTasks)
      BY <1>1 DEF CompletedOnce
    <3> QED BY <3>1, <1>1, <2>1, AppendFresh DEF TypeOK, CompletedOnce
  <2>6. TypeOK'
    BY <1>2, <1>5, <1>7, <1>9, <1>10, <2>1, <2>3, <2>5 DEF TypeOK
  <2>7. OnePlace'
    <3>1. ASSUME NEW u \in Task \ {t}
          PROVE  Place(u)'
      BY <1>2, <1>8, <2>2, SamePlace DEF OnePlace, Place
    <3>2. Place(t)'
      BY <1>1, <1>2, <2>2, <2>4 DEF Place, InFlight
    <3> QED BY <3>1, <3>2 DEF OnePlace, Place
  <2>8. ActiveHasEvent'
    BY <1>2, <2>2 DEF ActiveHasEvent, TypeOK
  <2>9. CompletedOnce'
    <3>1. {u \in Task : Finished(u)'} = {u \in Task : Finished(u)} \cup {t}
      BY <1>1, <2>4
    <3> QED BY <3>1, <2>5 DEF CompletedOnce
  <2> QED BY <1>5, <1>7, <1>9, <1>10, <1>11, <2>3, <2>6, <2>7, <2>8, <2>9
<1> QED BY <1>12, <1>13
------------------------------------------------------------------------------
(* The invariant *)

\* IInv is inductive: no step of the scheduler, and no submission, breaks it.
LEMMA NextIInv == IInv /\ [Next]_vars => IInv'
<1> SUFFICES ASSUME IInv, [Next]_vars PROVE IInv'
  OBVIOUS
<1>1. CASE \E t \in Task : Submit(t)
  BY <1>1, SubmitIInv
<1>2. CASE \E e \in eventQueue : HandleTaskArrival(e)
  BY <1>2, ArrivalIInv
<1>3. CASE \E e \in eventQueue : HandleTaskReady(e)
  BY <1>3, ReadyIInv
<1>4. CASE \E e \in eventQueue : HandleTaskStart(e)
  BY <1>4, StartIInv
<1>5. CASE \E e \in eventQueue : HandleTaskComplete(e)
  BY <1>5, CompleteIInv
<1>6. CASE DrainStep
  BY <1>6, DrainIInv
<1>7. CASE UNCHANGED vars
  <2>1. UNCHANGED <<stageIndex, active, inUse, activeTaskCount>>
    BY <1>7 DEF vars, runtimeVars
  <2>2. Accounted'
    BY <2>1, SameAccounted DEF IInv, Accounted
  <2>3. TypeOK' /\ WaitingConsistent' /\ StagesInOrder'
    BY <1>7 DEF IInv, vars, runtimeVars, TypeOK, WaitingConsistent, StagesInOrder
  <2>4. OnePlace' /\ ActiveHasEvent' /\ CompletedOnce'
    BY <1>7 DEF IInv, vars, runtimeVars, OnePlace, ActiveHasEvent, CompletedOnce,
                EventsOf, InFlight, Finished
  <2>5. NoEventInThePast' /\ DrainHasWork'
    BY <1>7 DEF IInv, vars, NoEventInThePast, DrainHasWork
  <2> QED BY <2>2, <2>3, <2>4, <2>5 DEF IInv, Accounted
<1> QED BY <1>1, <1>2, <1>3, <1>4, <1>5, <1>6, <1>7 DEF Next, StepOnce, HandleEvent

\* The inductive invariant holds in every state of every run of the scheduler.
THEOREM Invariance == Spec => []IInv
<1>1. Init => IInv
  BY InitIInv
<1>2. IInv /\ [Next]_vars => IInv'
  BY NextIInv
<1> QED BY <1>1, <1>2, PTL DEF Spec

\* Every variable of the scheduler keeps its type; in particular in_use never
\* goes below zero, and the queue and the completed list hold task ids only.
THEOREM TypeCorrect == Spec => []TypeOK
<1>1. IInv => TypeOK
  BY DEF IInv
<1> QED BY <1>1, Invariance, PTL

\* waiting_queue_ and waiting_set_ agree between any two steps, whatever order
\* the policy hook asks for, unknown and repeated ids included.
THEOREM WaitingIsConsistent == Spec => []WaitingConsistent
<1>1. IInv => WaitingConsistent
  BY DEF IInv
<1> QED BY <1>1, Invariance, PTL

\* No task is lost and none is doubled: a task with a stage left waits or has
\* exactly one event, and an event always finds its task in the state that its
\* handler expects.
THEOREM NoTaskLost == Spec => [](OnePlace /\ ActiveHasEvent)
<1>1. IInv => OnePlace /\ ActiveHasEvent
  BY DEF IInv
<1> QED BY <1>1, Invariance, PTL

\* completed_tasks_ lists every finished task exactly once.
THEOREM CompletionsAreExact == Spec => []CompletedOnce
<1>1. IInv => CompletedOnce
  BY DEF IInv
<1> QED BY <1>1, Invariance, PTL

\* active_task_count_ is the number of active tasks.
THEOREM ActiveCountIsExact == Spec => []ActiveCountExact
<1>1. IInv => ActiveCountExact
  BY DEF IInv
<1> QED BY <1>1, Invariance, PTL

\* The units in use of every resource are those of the stages being served, and
\* within its capacity.
THEOREM UnitsAreAccounted == Spec => []UnitsAccounted
<1>1. IInv => UnitsAccounted
  BY DEF IInv
<1> QED BY <1>1, Invariance, PTL

------------------------------------------------------------------------------
(* Steps *)

\* A handler sets the clock to the timestamp of its event, anything else leaves it.
LEMMA ClockGoesOn ==
  ASSUME IInv, [Next]_vars
  PROVE  currentTime' >= currentTime
<1>1. currentTime \in Nat
  BY DEF IInv, TypeOK
<1>2. ASSUME NEW e \in eventQueue, NEW type, Pop(e, type)
      PROVE  currentTime' >= currentTime
  BY <1>2 DEF IInv, NoEventInThePast, Pop
<1>3. CASE UNCHANGED currentTime
  BY <1>1, <1>3
<1>4. CASE \E e \in eventQueue : HandleEvent(e)
  BY <1>2, <1>4 DEF HandleEvent, HandleTaskArrival, HandleTaskReady, TakeReady,
                    HandleTaskStart, HandleTaskComplete
<1> QED BY <1>3, <1>4 DEF Next, StepOnce, Submit, DrainStep, GoOnDraining, vars

\* The clock of the simulation never goes back: no pending event is older than it.
THEOREM ClockIsMonotone == Spec => ClockMonotone
<1>1. IInv /\ [Next]_vars => [currentTime' >= currentTime]_vars
  BY ClockGoesOn
<1> QED BY <1>1, Invariance, PTL DEF Spec, ClockMonotone

Starting(t) == active'[t] /\ ~active[t]

\* A task starts in two places only, after Admits held for the limit that is
\* in force once the step is over.
LEMMA StartsAdmitted ==
  ASSUME IInv, [Next]_vars, NEW t \in Task, Starting(t)
  PROVE  Admits(admissionLimit') /\ activeTaskCount' = activeTaskCount + 1
<1>1. ~UNCHANGED active
  BY DEF Starting
<1>2. CASE \E u \in Task : Submit(u)
  BY <1>1, <1>2 DEF Submit, runtimeVars
<1>3. CASE \E e \in eventQueue : HandleTaskArrival(e) \/ HandleTaskStart(e)
  BY <1>1, <1>3 DEF HandleTaskArrival, HandleTaskStart, runtimeVars
<1>4. CASE \E e \in eventQueue : HandleTaskReady(e)
  BY <1>1, <1>4 DEF HandleTaskReady, ReadyStarts, ReadyWaits, StartTask, CanStart, runtimeVars
<1>5. CASE \E e \in eventQueue : HandleTaskComplete(e)
  <2>1. \E u \in Task : active' = [active EXCEPT ![u] = FALSE]
    BY <1>5, EventOwner DEF HandleTaskComplete, Deactivated
  <2> QED BY <2>1 DEF Starting, IInv, TypeOK
<1>6. CASE DrainStep
  BY <1>1, <1>6 DEF DrainStep, TryFront, StartTask, CanStart, runtimeVars
<1>7. CASE UNCHANGED vars
  BY <1>1, <1>7 DEF vars, runtimeVars
<1> QED BY <1>2, <1>3, <1>4, <1>5, <1>6, <1>7 DEF Next, StepOnce, HandleEvent

\* No step starts a task beyond the admission limit then in force.
THEOREM AdmissionIsRespected == Spec => AdmissionRespected
<1>1. ASSUME IInv, [Next]_vars, NEW t \in Task, Starting(t)
      PROVE  admissionLimit' = NoLimit \/ Cardinality(ActiveTasks') <= admissionLimit'
  <2>1. Admits(admissionLimit') /\ activeTaskCount' = activeTaskCount + 1
    BY <1>1, StartsAdmitted
  <2>2. IInv'
    BY <1>1, NextIInv
  <2>3. activeTaskCount' = Cardinality(ActiveTasks')
    BY <2>2 DEF IInv, ActiveCountExact
  <2>4. activeTaskCount \in Nat /\ admissionLimit' \in Nat \cup {NoLimit}
    BY <1>1, <2>2 DEF IInv, TypeOK
  <2> QED BY <2>1, <2>3, <2>4 DEF Admits
<1>2. IInv /\ [Next]_vars =>
        [(\E t \in Task : active'[t] /\ ~active[t]) =>
           admissionLimit' = NoLimit \/ Cardinality(ActiveTasks') <= admissionLimit']_vars
  BY <1>1 DEF Starting
<1> QED BY <1>2, Invariance, PTL DEF Spec, AdmissionRespected

------------------------------------------------------------------------------
(* The service the scheduler owes *)

\* A start takes a submitted task whose next stage the resources have units for.
LEMMA StartsAreServed ==
  ASSUME IInv, [Next]_vars, NEW t \in Task, Starting(t),
         active' = [active EXCEPT ![t] = TRUE], UNCHANGED <<tasks, stageIndex>>
  PROVE  Service!Begin(t)
<1>1. IInv'
  BY NextIInv
<1>2. ActiveTasks' = ActiveTasks \cup {t} /\ t \notin ActiveTasks
  BY DEF Starting, ActiveTasks, IInv, TypeOK
<1>3. t \in tasks /\ ~Finished(t)
  <2>1. EventsOf(t)' # {}
    BY <1>1 DEF Starting, IInv, ActiveHasEvent
  <2>2. InFlight(t)'
    BY <1>1, <2>1 DEF IInv, OnePlace
  <2> QED BY <2>2 DEF InFlight, Finished
<1>4. stageIndex[t] <= Len(Stages[t])
  BY <1>3, StageTyped, SchedulerAssumption, LenProperties DEF SchedulerAssumption, IInv
<1>5. ASSUME NEW r \in Resource
      PROVE  Service!Cardinality(Service!Held(ActiveTasks \cup {t}, r)) <= Capacity[r]
  <2>1. Service!Held(ActiveTasks', r) = UnitsHeld(r)'
    BY DEF Service!Held, UnitsHeld, Stage
  <2>2. inUse'[r] = Cardinality(UnitsHeld(r)') /\ inUse'[r] <= Capacity[r]
    BY <1>1 DEF IInv, UnitsAccounted
  <2>3. Service!Cardinality(UnitsHeld(r)') = Cardinality(UnitsHeld(r)')
    BY DEF Service!Cardinality, Cardinality
  <2> QED BY <1>2, <2>1, <2>2, <2>3
<1> QED BY <1>2, <1>3, <1>4, <1>5 DEF Service!Begin

\* Every step of the scheduler serves as StageService does, or is none of it.
LEMMA StepServes ==
  ASSUME IInv, [Next]_vars
  PROVE  [Service!Next]_(Service!vars)
<1>1. CASE UNCHANGED <<tasks, active, stageIndex>>
  BY <1>1 DEF Service!vars, ActiveTasks
<1>2. ASSUME NEW t \in Task, Submit(t)
      PROVE  Service!Submit(t)
  BY <1>2 DEF Submit, runtimeVars, Service!Submit, ActiveTasks
<1>3. ASSUME NEW e \in eventQueue, HandleTaskReady(e), ~UNCHANGED active
      PROVE  Service!Begin(e.id)
  <2>1. e.id \in Task /\ ~active[e.id] /\ UNCHANGED <<tasks, stageIndex>>
    BY <1>3, EventOwner DEF HandleTaskReady, TakeReady, Pop
  <2>2. active' = [active EXCEPT ![e.id] = TRUE]
    BY <1>3 DEF HandleTaskReady, ReadyStarts, ReadyWaits, StartTask, runtimeVars
  <2> QED BY <2>1, <2>2, StartsAreServed DEF Starting, IInv, TypeOK
<1>4. ASSUME DrainStep, ~UNCHANGED active
      PROVE  \E t \in Task : Service!Begin(t)
  <2>1. PICK h \in EvaluatePolicyHook(waitingQueue, waitingSet, admissionLimit) :
          StartTask(Head(h.queue), eventQueue, currentTime, readyTime[Head(h.queue)])
    BY <1>4 DEF DrainStep, TryFront, runtimeVars
  <2> DEFINE t == Head(h.queue)
  <2>2. active' = [active EXCEPT ![t] = TRUE] /\ UNCHANGED <<tasks, stageIndex>>
    BY <1>4, <2>1 DEF StartTask, DrainStep, GoOnDraining
  <2>3. t \in Task /\ ~active[t]
    BY <1>4, <2>2 DEF IInv, TypeOK
  <2> HIDE DEF t
  <2> QED BY <2>2, <2>3, StartsAreServed DEF Starting, IInv, TypeOK
<1>5. ASSUME NEW e \in eventQueue, HandleTaskComplete(e)
      PROVE  Service!Finish(e.id)
  <2>1. e.id \in Task /\ active[e.id]
    BY <1>5, EventOwner DEF HandleTaskComplete, Pop
  <2>2. ActiveTasks' = ActiveTasks \ {e.id} /\ e.id \in ActiveTasks
    BY <1>5, <2>1 DEF HandleTaskComplete, Deactivated, ActiveTasks, IInv, TypeOK
  <2> QED BY <1>5, <2>2 DEF HandleTaskComplete, Service!Finish
<1>6. CASE \E e \in eventQueue : HandleTaskArrival(e) \/ HandleTaskStart(e)
  BY <1>1, <1>6 DEF HandleTaskArrival, HandleTaskStart, runtimeVars
<1>7. CASE UNCHANGED vars
  BY <1>1, <1>7 DEF vars, runtimeVars
<1>8. \A e \in eventQueue : e.id \in Task
  BY EventOwner
<1>9. \A e \in eventQueue : HandleTaskReady(e) => UNCHANGED <<tasks, stageIndex>>
  BY DEF HandleTaskReady, TakeReady
<1>10. DrainStep => UNCHANGED <<tasks, stageIndex>>
  BY DEF DrainStep, GoOnDraining
<1> QED BY <1>1, <1>2, <1>3, <1>4, <1>5, <1>6, <1>7, <1>8, <1>9, <1>10
        DEF Next, StepOnce, HandleEvent, Service!Next, Service!Serve

\* Whatever the hook decides, every run of the scheduler is one of StageService:
\* stages are served in order, of submitted tasks only, within the capacity.
THEOREM SchedulerServesStages == Spec => Service!Spec
<1>1. Init => Service!Init
  BY DEF Init, Service!Init, ActiveTasks
<1>2. IInv /\ [Next]_vars => [Service!Next]_(Service!vars)
  BY StepServes
<1> QED BY <1>1, <1>2, Invariance, PTL DEF Spec, Service!Spec

------------------------------------------------------------------------------
(* The end of a run *)

\* On an idle pool any task starts, under any limit but 0.
LEMMA IdlePoolStarts ==
  ASSUME IInv, activeTaskCount = 0, NEW t \in Task, ~Finished(t),
         NEW limit \in Nat \cup {NoLimit}, limit # 0
  PROVE  CanStart(t, limit)
<1>1. Admits(limit)
  BY DEF Admits
<1>2. Fits(t)
  <2>1. \A r \in Resource : inUse[r] = 0
    BY NothingActive
  <2>2. \A r \in Resource : Stage(t).demand[r] \in Nat /\ Stage(t).demand[r] <= Capacity[r]
    BY StageTyped DEF IInv
  <2> QED BY <2>1, <2>2 DEF Fits
<1> QED BY <1>1, <1>2 DEF CanStart

\* Where try_start_task fails, someone is being served.
LEMMA WaitsForSomeone ==
  ASSUME IInv, NEW t \in Task, ~Finished(t),
         NEW limit \in Nat \cup {NoLimit}, limit # 0, ~CanStart(t, limit)
  PROVE  activeTaskCount > 0
<1>1. activeTaskCount # 0
  BY IdlePoolStarts
<1>2. activeTaskCount \in Nat
  BY DEF IInv, TypeOK
<1> QED BY <1>1, <1>2

\* handle_task_ready lets a task wait only for one that is being served.
LEMMA ReadyNeverStranded ==
  ASSUME PositiveLimits, IInv, NeverStranded, NEW e \in eventQueue, HandleTaskReady(e)
  PROVE  NeverStranded'
<1> DEFINE t == e.id
<1>1. t \in Task /\ ~Finished(t) /\ t \notin waitingSet
  BY EventOwner
<1>2. activeTaskCount \in Nat
  BY DEF IInv, TypeOK
<1>3. PICK h \in EvaluatePolicyHook(waitingQueue, waitingSet, admissionLimit) :
        \/ /\ CanStart(t, h.limit)
           /\ StartTask(t, eventQueue \ {e}, e.timestamp, e.timestamp)
           /\ waitingQueue' = h.queue
           /\ admissionLimit' = h.limit
        \/ /\ ~CanStart(t, h.limit)
           /\ waitingSet' = Enlisted(t)
           /\ \E g \in EvaluatePolicyHook(Append(h.queue, t), Enlisted(t), h.limit) :
                /\ waitingQueue' = g.queue
                /\ admissionLimit' = g.limit
           /\ eventQueue' = eventQueue \ {e}
           /\ UNCHANGED runtimeVars
  BY DEF HandleTaskReady, ReadyStarts, ReadyWaits
<1>4. /\ h.queue \in Seq(Task) /\ IsInjective(h.queue) /\ Range(h.queue) = waitingSet
      /\ h.limit \in Nat \cup {NoLimit} /\ h.limit # 0
  <2>1. waitingQueue \in Seq(Task) /\ waitingSet \in SUBSET Task
    BY DEF IInv, TypeOK
  <2>2. Range(waitingQueue) = waitingSet /\ IsInjective(waitingQueue)
    BY DEF IInv, WaitingConsistent
  <2>3. admissionLimit \in Nat \cup {NoLimit} /\ admissionLimit # 0
    BY DEF IInv, TypeOK, NeverStranded
  <2> QED BY <2>1, <2>2, <2>3, HookKeepsQueue DEF HookResult
<1>5. CASE /\ StartTask(t, eventQueue \ {e}, e.timestamp, e.timestamp)
           /\ admissionLimit' = h.limit
  <2>1. activeTaskCount' > 0
    BY <1>2, <1>5 DEF StartTask
  <2> QED BY <2>1, <1>4, <1>5 DEF NeverStranded
<1>6. CASE /\ ~CanStart(t, h.limit)
           /\ \E g \in EvaluatePolicyHook(Append(h.queue, t), Enlisted(t), h.limit) :
                /\ waitingQueue' = g.queue
                /\ admissionLimit' = g.limit
           /\ UNCHANGED runtimeVars
  <2> DEFINE q == Append(h.queue, t)
             w == Enlisted(t)
             l == h.limit
  <2>1. PICK g \in EvaluatePolicyHook(q, w, l) : admissionLimit' = g.limit
    BY <1>6
  <2>2. q \in Seq(Task) /\ Range(q) = w /\ w \in SUBSET Task
    BY <1>1, <1>4, AppendFresh DEF Enlisted, IInv, TypeOK
  <2>3. l \in Nat \cup {NoLimit} /\ l # 0
    BY <1>4
  <2>4. activeTaskCount' > 0
    BY <1>1, <1>4, <1>6, WaitsForSomeone DEF runtimeVars
  <2> HIDE DEF q, w, l
  <2>5. g.limit # 0
    BY <2>2, <2>3, HookKeepsQueue
  <2> QED BY <2>1, <2>4, <2>5 DEF NeverStranded
<1> QED BY <1>3, <1>5, <1>6

\* After an iteration of the drain somebody is being served.
LEMMA DrainNeverStranded ==
  ASSUME PositiveLimits, IInv, NeverStranded, DrainStep
  PROVE  NeverStranded'
<1>1. PICK h \in EvaluatePolicyHook(waitingQueue, waitingSet, admissionLimit) :
        LET t == Head(h.queue) IN
        /\ admissionLimit' = h.limit
        /\ \/ /\ CanStart(t, h.limit)
              /\ StartTask(t, eventQueue, currentTime, readyTime[t])
              /\ waitingQueue' = Tail(h.queue)
           \/ /\ ~CanStart(t, h.limit)
              /\ waitingQueue' = Append(Tail(h.queue), t)
              /\ UNCHANGED <<eventQueue, waitingSet, runtimeVars>>
  BY DEF DrainStep, TryFront
<1> DEFINE t == Head(h.queue)
<1>2. waitingQueue # <<>> /\ waitingQueue \in Seq(Task) /\ waitingSet \in SUBSET Task
  BY DEF DrainStep, GoOnDraining, IInv, TypeOK, DrainHasWork
<1>3. Range(waitingQueue) = waitingSet /\ admissionLimit \in Nat \cup {NoLimit}
  BY DEF IInv, TypeOK, WaitingConsistent
<1>4. /\ h.queue \in Seq(Task) /\ IsInjective(h.queue) /\ Range(h.queue) = waitingSet
      /\ h.queue # <<>>
      /\ h.limit \in Nat \cup {NoLimit} /\ h.limit # 0
  <2>1. admissionLimit # 0 /\ PositiveLimits
    BY DEF NeverStranded
  <2>2. HookResult(h, waitingSet) /\ h.queue # <<>> /\ h.limit # 0
    BY <1>2, <1>3, <2>1, HookKeepsQueue
  <2> QED BY <2>2 DEF HookResult
<1>5. t \in Task /\ ~Finished(t)
  <2>1. t \in Task /\ t \in waitingSet
    BY <1>4, HeadTail
  <2> QED BY <2>1 DEF IInv, OnePlace, InFlight
<1>6. activeTaskCount \in Nat
  BY DEF IInv, TypeOK
<1>7. activeTaskCount' > 0
  <2>1. CASE StartTask(t, eventQueue, currentTime, readyTime[t])
    BY <2>1, <1>6 DEF StartTask
  <2>2. CASE ~CanStart(t, h.limit) /\ UNCHANGED runtimeVars
    BY <2>2, <1>4, <1>5, WaitsForSomeone DEF runtimeVars
  <2> QED BY <1>1, <2>1, <2>2
<1> QED BY <1>1, <1>4, <1>7 DEF NeverStranded

\* No step strands the waiting tasks.
LEMMA NextNeverStranded ==
  ASSUME PositiveLimits, IInv, NeverStranded, [Next]_vars
  PROVE  NeverStranded'
<1>1. CASE UNCHANGED <<waitingQueue, activeTaskCount, drainLeft, admissionLimit>>
  BY <1>1 DEF NeverStranded
<1>2. CASE \E e \in eventQueue : HandleTaskReady(e)
  BY <1>2, ReadyNeverStranded
<1>3. CASE \E e \in eventQueue : HandleTaskComplete(e)
  <2>1. drainLeft' = Len(waitingQueue) /\ UNCHANGED <<waitingQueue, admissionLimit>>
    BY <1>3 DEF HandleTaskComplete, DrainIterations
  <2>2. waitingQueue # <<>> => Len(waitingQueue) > 0
    BY EmptySeq, LenProperties DEF IInv, TypeOK
  <2> QED BY <2>1, <2>2 DEF NeverStranded
<1>4. CASE DrainStep
  BY <1>4, DrainNeverStranded
<1> QED BY <1>1, <1>2, <1>3, <1>4 DEF Next, StepOnce, HandleEvent, Submit,
           HandleTaskArrival, HandleTaskStart, vars, runtimeVars

\* With limits above 0, a task that waits when no drain is running waits for
\* one that is being served, whose completion will run a drain.
THEOREM NoTaskStranded ==
  ASSUME PositiveLimits
  PROVE  Spec => []NeverStranded
<1>1. Init => NeverStranded
  BY SchedulerAssumption DEF Init, NeverStranded, SchedulerAssumption
<1>2. IInv /\ NeverStranded /\ [Next]_vars => NeverStranded'
  BY NextNeverStranded
<1> QED BY <1>1, <1>2, Invariance, PTL DEF Spec

\* With limits above 0, a scheduler without events has completed every submitted
\* task, and has nothing waiting and no unit in use.
THEOREM RunsEndClean ==
  ASSUME PositiveLimits
  PROVE  Spec => []RunEndsClean
<1>1. ASSUME IInv, NeverStranded
      PROVE  RunEndsClean
  <2> SUFFICES ASSUME eventQueue = {}, drainLeft = 0
               PROVE  /\ waitingQueue = <<>>
                      /\ tasks = Range(completedTasks)
                      /\ \A r \in Resource : inUse[r] = 0
    BY DEF RunEndsClean
  <2> USE <1>1 DEF IInv
  <2>1. \A t \in Task : EventsOf(t) = {}
    BY DEF EventsOf
  <2>2. ActiveTasks = {}
    BY <2>1 DEF ActiveTasks, ActiveHasEvent
  <2>3. activeTaskCount = 0
    BY <2>2, FS_EmptySet DEF ActiveCountExact
  <2>4. waitingQueue = <<>>
    BY <2>3 DEF NeverStranded
  <2>5. waitingSet = {}
    BY <2>4 DEF WaitingConsistent, Range
  <2>6. \A t \in Task : t \in tasks => Finished(t)
    BY <2>1, <2>5 DEF OnePlace, InFlight
  <2>7. \A t \in Task : Finished(t) => t \in tasks
    <3>1. \A t \in Task : Len(Stages[t]) \in Nat \ {0}
      BY SchedulerAssumption, EmptySeq, LenProperties DEF SchedulerAssumption, Validated
    <3> QED BY <3>1 DEF StagesInOrder, Finished
  <2>8. tasks = Range(completedTasks)
    BY <2>6, <2>7 DEF CompletedOnce, TypeOK
  <2> QED BY <2>3, <2>4, <2>8, NothingActive
<1> QED BY <1>1, Invariance, NoTaskStranded, PTL

------------------------------------------------------------------------------
(* Time: the durations that are recorded for the stages of a task account *)
(* for all the time from its arrival to its completion.                    *)

\* All times are natural numbers.
LEMMA TimeTyped ==
  ASSUME IInv, NEW t \in Task
  PROVE  /\ arrivalTime[t] \in Nat /\ readyTime[t] \in Nat
         /\ queueTime[t] \in Nat /\ serviceTime[t] \in Nat
         /\ activeServiceTime[t] \in Nat /\ currentTime \in Nat
         /\ Account(t) \in Nat
BY DEF IInv, TypeOK, Account

\* A step keeps the account of a task whose own state it leaves alone.
LEMMA SameTime ==
  ASSUME NEW t \in Task, TimeAccountedOf(t), readyTime[t] \in Nat,
         currentTime \in Nat, currentTime' \in Nat, currentTime' >= currentTime,
         t \in tasks' <=> t \in tasks,
         t \in waitingSet' <=> t \in waitingSet,
         arrivalTime'[t] = arrivalTime[t], readyTime'[t] = readyTime[t],
         queueTime'[t] = queueTime[t], serviceTime'[t] = serviceTime[t],
         activeServiceTime'[t] = activeServiceTime[t],
         EventsOf(t)' = EventsOf(t)
  PROVE  TimeAccountedOf(t)'
<1>1. Account(t)' = Account(t)
  BY DEF Account
<1>2. t \in waitingSet' => Account(t)' = readyTime'[t] /\ readyTime'[t] <= currentTime'
  BY <1>1 DEF TimeAccountedOf
<1>3. \A e \in EventsOf(t) : AccountedUntil(e)' = AccountedUntil(e)
  BY DEF AccountedUntil, EventsOf
<1> QED BY <1>1, <1>2, <1>3 DEF TimeAccountedOf

\* A task that does not wait and has the one event e
LEMMA TimeWithEvent ==
  ASSUME NEW t \in Task, t \in tasks', t \notin waitingSet',
         NEW e, EventsOf(t)' = {e}, Account(t)' = AccountedUntil(e)'
  PROVE  TimeAccountedOf(t)'
BY DEF TimeAccountedOf

\* A submitted task has nothing accounted for but its arrival.
LEMMA SubmitTime ==
  ASSUME IInv, TimeAccounted, IInv', NEW t \in Task, Submit(t)
  PROVE  TimeAccounted'
<1>1. PICK arrival \in ArrivalTimes \cup {currentTime} :
        /\ arrivalTime' = [arrivalTime EXCEPT ![t] = arrival]
        /\ eventQueue' = eventQueue \cup {Event(arrival, "arrival", t)}
  BY DEF Submit
<1> DEFINE new == Event(arrival, "arrival", t)
<1>2. arrival \in Nat /\ new.id = t /\ new.timestamp = arrival /\ new.type = "arrival"
  BY SchedulerAssumption, TimeTyped DEF SchedulerAssumption, Event
<1>3. /\ t \notin tasks /\ tasks' = tasks \cup {t}
      /\ UNCHANGED <<currentTime, readyTime, queueTime, serviceTime,
                     activeServiceTime, waitingSet>>
  BY DEF Submit, runtimeVars
<1>4. t \notin waitingSet /\ EventsOf(t) = {}
  BY <1>3 DEF IInv, OnePlace, InFlight
<1>5. ASSUME NEW u \in Task \ {t}
      PROVE  TimeAccountedOf(u)'
  <2>1. EventsOf(u)' = EventsOf(u)
    BY <1>1, <1>2 DEF EventsOf
  <2>2. arrivalTime'[u] = arrivalTime[u]
    BY <1>1 DEF IInv, TypeOK
  <2> QED BY <2>1, <2>2, <1>3, TimeTyped, SameTime DEF TimeAccounted
<1>6. TimeAccountedOf(t)'
  <2>1. EventsOf(t)' = {new}
    BY <1>1, <1>2, <1>4 DEF EventsOf
  <2>2. queueTime[t] = 0 /\ serviceTime[t] = 0
    BY <1>3 DEF TimeAccounted, TimeAccountedOf
  <2>3. arrivalTime'[t] = arrival
    BY <1>1 DEF IInv, TypeOK
  <2>4. Account(t)' = AccountedUntil(new)'
    BY <2>2, <2>3, <1>2, <1>3 DEF Account, AccountedUntil
  <2> HIDE DEF new
  <2> QED BY <2>1, <2>4, <1>3, <1>4, TimeWithEvent
<1> QED BY <1>5, <1>6 DEF TimeAccounted

\* A handler that replaces the event e of a task by another, n, up to which the
\* task is accounted for, and changes nothing else that TimeAccounted speaks of.
LEMMA RelayTime ==
  ASSUME IInv, TimeAccounted, NEW e \in eventQueue, NEW type, Pop(e, type),
         NEW n, n.id = e.id, eventQueue' = (eventQueue \ {e}) \cup {n},
         AccountedUntil(n)' = AccountedUntil(e),
         UNCHANGED <<tasks, arrivalTime, readyTime, queueTime, serviceTime, waitingSet>>,
         \A u \in Task \ {e.id} : activeServiceTime'[u] = activeServiceTime[u]
  PROVE  TimeAccounted'
<1> DEFINE t == e.id
<1>1. t \in Task /\ t \in tasks /\ t \notin waitingSet /\ EventsOf(t) = {e}
  BY EventOwner
<1>2. currentTime' \in Nat /\ currentTime' >= currentTime
  BY EventOwner DEF Pop, IInv, NoEventInThePast
<1>3. /\ EventsOf(t)' = {n}
      /\ \A u \in Task \ {t} : EventsOf(u)' = EventsOf(u)
  BY <1>1, EventReplaced
<1>4. ASSUME NEW u \in Task \ {t}
      PROVE  TimeAccountedOf(u)'
  BY <1>2, <1>3, TimeTyped, SameTime DEF TimeAccounted
<1>5. TimeAccountedOf(t)'
  <2>1. Account(t)' = Account(t)
    BY DEF Account
  <2>2. Account(t) = AccountedUntil(e)
    BY <1>1 DEF TimeAccounted, TimeAccountedOf
  <2> QED BY <2>1, <2>2, <1>1, <1>3, TimeWithEvent
<1> QED BY <1>4, <1>5 DEF TimeAccounted

\* handle_task_arrival accounts for no time.
LEMMA ArrivalTime ==
  ASSUME IInv, TimeAccounted, NEW e \in eventQueue, HandleTaskArrival(e)
  PROVE  TimeAccounted'
<1> DEFINE n == Event(e.timestamp, "ready", e.id)
<1>1. n.id = e.id /\ n.type = "ready" /\ n.timestamp = e.timestamp /\ e.type = "arrival"
  BY DEF Event, HandleTaskArrival, Pop
<1>2. AccountedUntil(n)' = AccountedUntil(e)
  BY <1>1 DEF AccountedUntil
<1>3. /\ Pop(e, "arrival")
      /\ eventQueue' = (eventQueue \ {e}) \cup {n}
      /\ UNCHANGED <<tasks, arrivalTime, readyTime, queueTime, serviceTime,
                     waitingSet, activeServiceTime>>
  BY DEF HandleTaskArrival, runtimeVars
<1> HIDE DEF n
<1> QED BY <1>1, <1>2, <1>3, RelayTime

\* The service time counted at the start ends at the Complete event.
LEMMA StartTime ==
  ASSUME IInv, TimeAccounted, NEW e \in eventQueue, HandleTaskStart(e)
  PROVE  TimeAccounted'
<1>0. PICK n : n = Event(e.timestamp + activeServiceTime[e.id], "complete", e.id)
  OBVIOUS
<1>1. /\ n.id = e.id /\ n.type = "complete" /\ e.type = "start"
      /\ n.timestamp = e.timestamp + activeServiceTime[e.id]
  BY <1>0 DEF Event, HandleTaskStart, Pop
<1>2. n.timestamp \in Nat
  BY <1>1, EventOwner, TimeTyped
<1>3. AccountedUntil(n)' = AccountedUntil(e)
  BY <1>1, <1>2 DEF AccountedUntil
<1>4. /\ Pop(e, "start")
      /\ eventQueue' = (eventQueue \ {e}) \cup {n}
      /\ UNCHANGED <<tasks, arrivalTime, readyTime, queueTime, serviceTime,
                     waitingSet, activeServiceTime>>
  BY <1>0 DEF HandleTaskStart, runtimeVars
<1> QED BY <1>1, <1>3, <1>4, RelayTime

\* Starting a stage settles the account: the queue time up to now, and the
\* service time to come.
LEMMA StartSettles ==
  ASSUME IInv, NEW t \in Task, ~Finished(t), Account(t) <= currentTime',
         currentTime' \in Nat,
         NEW pending, \A f \in pending : f.id # t,
         StartTask(t, pending, currentTime', Account(t)),
         t \in tasks', arrivalTime'[t] = arrivalTime[t]
  PROVE  TimeAccountedOf(t)'
<1>0. PICK n : n = Event(currentTime', "start", t)
  OBVIOUS
<1>1. PICK duration \in Stage(t).service :
        /\ activeServiceTime' = [activeServiceTime EXCEPT ![t] = duration]
        /\ queueTime' = [queueTime EXCEPT ![t] = @ + Elapsed(Account(t), currentTime')]
        /\ serviceTime' = [serviceTime EXCEPT ![t] = @ + duration]
        /\ waitingSet' = waitingSet \ {t}
        /\ eventQueue' = pending \cup {n}
  BY <1>0 DEF StartTask
<1>2. n.id = t /\ n.type = "start" /\ n.timestamp = currentTime'
  BY <1>0 DEF Event
<1>3. EventsOf(t)' = {n}
  BY <1>1, <1>2 DEF EventsOf
<1>4. duration \in Nat
  BY StageTyped DEF IInv
<1>5. Elapsed(Account(t), currentTime') = currentTime' - Account(t)
  BY TimeTyped DEF Elapsed
<1>6. /\ queueTime'[t] = queueTime[t] + (currentTime' - Account(t))
      /\ serviceTime'[t] = serviceTime[t] + duration
      /\ activeServiceTime'[t] = duration
  BY <1>1, <1>5 DEF IInv, TypeOK
<1>7. Account(t)' = currentTime' + duration
  BY <1>4, <1>6, TimeTyped DEF Account
<1>8. AccountedUntil(n)' = currentTime' + duration
  BY <1>2, <1>6 DEF AccountedUntil
<1> QED BY <1>1, <1>3, <1>7, <1>8, TimeWithEvent

\* handle_task_ready starts the stage or records since when it waits.
LEMMA ReadyTime ==
  ASSUME IInv, TimeAccounted, NEW e \in eventQueue, HandleTaskReady(e)
  PROVE  TimeAccounted'
<1> DEFINE t == e.id
<1>1. /\ t \in Task /\ t \in tasks /\ ~Finished(t) /\ t \notin waitingSet
      /\ EventsOf(t) = {e} /\ e.timestamp \in Nat
  BY EventOwner
<1>2. /\ Pop(e, "ready") /\ e.type = "ready"
      /\ currentTime' = e.timestamp /\ currentTime' \in Nat /\ currentTime' >= currentTime
  BY <1>1 DEF HandleTaskReady, TakeReady, Pop, IInv, NoEventInThePast
<1>3. UNCHANGED <<tasks, arrivalTime>> /\ readyTime' = [readyTime EXCEPT ![t] = e.timestamp]
  BY DEF HandleTaskReady, TakeReady, ReadyRecorded
<1>4. Account(t) = e.timestamp
  BY <1>1, <1>2 DEF TimeAccounted, TimeAccountedOf, AccountedUntil
<1>5. CASE StartTask(t, eventQueue \ {e}, e.timestamp, e.timestamp)
  <2>1. \A f \in eventQueue \ {e} : f.id # t
    BY <1>1 DEF EventsOf
  <2>2. TimeAccountedOf(t)'
    <3> DEFINE pending == eventQueue \ {e}
    <3>1. StartTask(t, pending, currentTime', Account(t)) /\ \A f \in pending : f.id # t
      BY <1>2, <1>4, <1>5, <2>1
    <3>2. Account(t) <= currentTime' /\ t \in tasks' /\ arrivalTime'[t] = arrivalTime[t]
      BY <1>1, <1>2, <1>3, <1>4
    <3> HIDE DEF pending
    <3> QED BY <3>1, <3>2, <1>1, <1>2, StartSettles
  <2>3. ASSUME NEW u \in Task \ {t}
        PROVE  TimeAccountedOf(u)'
    <3>1. /\ queueTime'[u] = queueTime[u] /\ serviceTime'[u] = serviceTime[u]
          /\ activeServiceTime'[u] = activeServiceTime[u]
          /\ u \in waitingSet' <=> u \in waitingSet
      BY <1>5 DEF StartTask, IInv, TypeOK
    <3>2. EventsOf(u)' = EventsOf(u)
      BY <1>1, <1>5, <2>1 DEF StartTask, EventsOf, Event
    <3>3. readyTime'[u] = readyTime[u]
      BY <1>3 DEF IInv, TypeOK
    <3> QED BY <3>1, <3>2, <3>3, <1>2, <1>3, TimeTyped, SameTime DEF TimeAccounted
  <2> QED BY <2>2, <2>3 DEF TimeAccounted
<1>6. CASE /\ waitingSet' = Enlisted(t)
           /\ eventQueue' = eventQueue \ {e}
           /\ UNCHANGED runtimeVars
  <2>1. EventsOf(t)' = {} /\ \A u \in Task \ {t} : EventsOf(u)' = EventsOf(u)
    BY <1>1, <1>6, EventTaken
  <2>2. UNCHANGED <<queueTime, serviceTime, activeServiceTime>>
    BY <1>6 DEF runtimeVars
  <2>3. readyTime'[t] = e.timestamp /\ \A u \in Task \ {t} : readyTime'[u] = readyTime[u]
    BY <1>1, <1>3 DEF IInv, TypeOK
  <2>4. TimeAccountedOf(t)'
    <3>1. Account(t)' = e.timestamp
      BY <1>3, <1>4, <2>2 DEF Account
    <3> QED BY <3>1, <2>1, <2>3, <1>1, <1>2, <1>3 DEF TimeAccountedOf
  <2>5. ASSUME NEW u \in Task \ {t}
        PROVE  TimeAccountedOf(u)'
    <3>1. u \in waitingSet' <=> u \in waitingSet
      BY <1>6 DEF Enlisted
    <3> QED BY <3>1, <2>1, <2>2, <2>3, <1>2, <1>3, TimeTyped, SameTime DEF TimeAccounted
  <2> QED BY <2>4, <2>5 DEF TimeAccounted
<1> QED BY <1>5, <1>6 DEF HandleTaskReady, ReadyStarts, ReadyWaits

\* handle_task_complete passes the account on to the next stage.
LEMMA CompleteTime ==
  ASSUME IInv, TimeAccounted, NEW e \in eventQueue, HandleTaskComplete(e)
  PROVE  TimeAccounted'
<1> DEFINE t == e.id
<1>1. /\ Pop(e, "complete") /\ e.type = "complete"
      /\ activeServiceTime' = [activeServiceTime EXCEPT ![t] = 0]
      /\ UNCHANGED <<tasks, arrivalTime, readyTime, queueTime, serviceTime, waitingSet>>
  BY DEF HandleTaskComplete, Pop
<1>2. \A u \in Task \ {t} : activeServiceTime'[u] = activeServiceTime[u]
  BY <1>1 DEF IInv, TypeOK
<1>3. CASE eventQueue' = (eventQueue \ {e}) \cup {Event(e.timestamp, "ready", t)}
  <2> DEFINE n == Event(e.timestamp, "ready", t)
  <2>1. n.id = t /\ n.type = "ready" /\ n.timestamp = e.timestamp
    BY DEF Event
  <2>2. AccountedUntil(n)' = AccountedUntil(e)
    BY <1>1, <2>1 DEF AccountedUntil
  <2>3. eventQueue' = (eventQueue \ {e}) \cup {n}
    BY <1>3
  <2> HIDE DEF n
  <2> QED BY <1>1, <1>2, <2>1, <2>2, <2>3, RelayTime
<1>4. CASE eventQueue' = eventQueue \ {e}
  <2>1. t \in Task /\ t \in tasks /\ t \notin waitingSet /\ EventsOf(t) = {e}
    BY EventOwner
  <2>2. EventsOf(t)' = {} /\ \A u \in Task \ {t} : EventsOf(u)' = EventsOf(u)
    BY <1>4, <2>1, EventTaken
  <2>3. currentTime' \in Nat /\ currentTime' >= currentTime
    BY <1>1, EventOwner DEF Pop, IInv, NoEventInThePast
  <2>4. ASSUME NEW u \in Task \ {t}
        PROVE  TimeAccountedOf(u)'
    BY <1>1, <1>2, <2>2, <2>3, TimeTyped, SameTime DEF TimeAccounted
  <2>5. TimeAccountedOf(t)'
    BY <1>1, <2>1, <2>2 DEF TimeAccountedOf
  <2> QED BY <2>4, <2>5 DEF TimeAccounted
<1> QED BY <1>3, <1>4 DEF HandleTaskComplete

\* The drain accounts for the wait of the task that it starts.
LEMMA DrainTime ==
  ASSUME IInv, TimeAccounted, DrainStep
  PROVE  TimeAccounted'
<1>1. PICK h \in EvaluatePolicyHook(waitingQueue, waitingSet, admissionLimit) :
        LET t == Head(h.queue) IN
        \/ /\ CanStart(t, h.limit)
           /\ StartTask(t, eventQueue, currentTime, readyTime[t])
        \/ UNCHANGED <<eventQueue, waitingSet, runtimeVars>>
  BY DEF DrainStep, TryFront
<1> DEFINE t == Head(h.queue)
<1>2. UNCHANGED <<currentTime, tasks, arrivalTime, readyTime>> /\ currentTime \in Nat
  BY DEF DrainStep, GoOnDraining, IInv, TypeOK
<1>3. CASE StartTask(t, eventQueue, currentTime, readyTime[t])
  <2>1. t \in Task /\ t \in waitingSet
    <3>1. waitingQueue # <<>> /\ waitingQueue \in Seq(Task) /\ waitingSet \in SUBSET Task
      BY DEF DrainStep, GoOnDraining, IInv, TypeOK, DrainHasWork
    <3>2. Range(waitingQueue) = waitingSet /\ admissionLimit \in Nat \cup {NoLimit}
      BY DEF IInv, TypeOK, WaitingConsistent
    <3>3. /\ h.queue \in Seq(Task) /\ IsInjective(h.queue) /\ Range(h.queue) = waitingSet
          /\ h.queue # <<>>
      BY <3>1, <3>2, HookKeepsQueue DEF HookResult
    <3> QED BY <3>3, HeadTail
  <2>2. t \in tasks /\ ~Finished(t) /\ \A f \in eventQueue : f.id # t
    BY <2>1 DEF IInv, OnePlace, InFlight, EventsOf
  <2>3. Account(t) = readyTime[t] /\ readyTime[t] <= currentTime
    BY <2>1 DEF TimeAccounted, TimeAccountedOf
  <2> HIDE DEF t
  <2>4. TimeAccountedOf(t)'
    <3>1. StartTask(t, eventQueue, currentTime', Account(t))
      BY <1>2, <1>3, <2>3
    <3>2. Account(t) <= currentTime' /\ t \in tasks' /\ arrivalTime'[t] = arrivalTime[t]
      BY <1>2, <2>2, <2>3
    <3> QED BY <3>1, <3>2, <1>2, <2>1, <2>2, StartSettles
  <2>5. ASSUME NEW u \in Task \ {t}
        PROVE  TimeAccountedOf(u)'
    <3>1. /\ queueTime'[u] = queueTime[u] /\ serviceTime'[u] = serviceTime[u]
          /\ activeServiceTime'[u] = activeServiceTime[u]
          /\ u \in waitingSet' <=> u \in waitingSet
      BY <1>3 DEF StartTask, IInv, TypeOK
    <3>2. EventsOf(u)' = EventsOf(u)
      BY <1>3, <2>2 DEF StartTask, EventsOf, Event
    <3> QED BY <3>1, <3>2, <1>2, TimeTyped, SameTime DEF TimeAccounted
  <2> QED BY <2>4, <2>5 DEF TimeAccounted
<1>4. CASE UNCHANGED <<eventQueue, waitingSet, runtimeVars>>
  BY <1>2, <1>4 DEF TimeAccounted, TimeAccountedOf, Account, EventsOf, AccountedUntil, runtimeVars
<1> QED BY <1>1, <1>3, <1>4

\* Every step keeps the accounts.
LEMMA NextTime == IInv /\ TimeAccounted /\ [Next]_vars => TimeAccounted'
<1> SUFFICES ASSUME IInv, TimeAccounted, [Next]_vars PROVE TimeAccounted'
  OBVIOUS
<1>1. CASE \E t \in Task : Submit(t)
  BY <1>1, NextIInv, SubmitTime
<1>2. CASE UNCHANGED vars
  BY <1>2 DEF vars, runtimeVars, TimeAccounted, TimeAccountedOf, Account, EventsOf, AccountedUntil
<1> QED BY <1>1, <1>2, ArrivalTime, ReadyTime, StartTime, CompleteTime, DrainTime
        DEF Next, StepOnce, HandleEvent

\* At every point of its life the recorded durations of a task account for all
\* the time since it arrived.
THEOREM TimeIsAccounted == Spec => []TimeAccounted
<1>1. Init => TimeAccounted
  BY DEF Init, TimeAccounted, TimeAccountedOf, EventsOf
<1> QED BY <1>1, NextTime, Invariance, PTL DEF Spec

\* The sojourn time that the metrics add up from the stages of a task is the
\* time from its arrival to its completion: no wait is missed or counted twice.
THEOREM SojournIsAccounted == Spec => SojournAccounted
<1>1. ASSUME IInv, TimeAccounted, [Next]_vars, NEW t \in Task,
             stageIndex[t] = Len(Stages[t]), Finished(t)'
      PROVE  queueTime[t] + serviceTime[t] = currentTime' - arrivalTime[t]
  <2>1. stageIndex'[t] # stageIndex[t]
    BY <1>1, SchedulerAssumption, LenProperties DEF Finished, SchedulerAssumption
  <2>2. PICK e \in eventQueue : HandleTaskComplete(e)
    BY <1>1, <2>1 DEF Next, StepOnce, HandleEvent, Submit, HandleTaskArrival,
       HandleTaskReady, TakeReady, HandleTaskStart, DrainStep, GoOnDraining, vars
  <2>3. e.id = t
    BY <2>1, <2>2, <1>1, EventOwner DEF HandleTaskComplete, IInv, TypeOK
  <2>4. e.type = "complete" /\ currentTime' = e.timestamp /\ e.timestamp \in Nat
    BY <2>2, <1>1, EventOwner DEF HandleTaskComplete, Pop
  <2>5. Account(t) = e.timestamp
    BY <1>1, <2>3, <2>4 DEF TimeAccounted, TimeAccountedOf, EventsOf, AccountedUntil
  <2> QED BY <2>4, <2>5, <1>1, TimeTyped DEF Account
<1>2. IInv /\ TimeAccounted /\ [Next]_vars =>
        [\A t \in Task : stageIndex[t] = Len(Stages[t]) /\ Finished(t)' =>
           queueTime[t] + serviceTime[t] = currentTime' - arrivalTime[t]]_vars
  BY <1>1
<1> QED BY <1>2, Invariance, TimeIsAccounted, PTL DEF Spec, SojournAccounted

\* What is recorded of a task that was completed, and that it was, is final.
LEMMA AccountsAreFinal ==
  ASSUME IInv, [Next]_vars, NEW t \in Task, Finished(t)
  PROVE  /\ t \in tasks /\ t \in tasks'
         /\ Account(t)' = Account(t) /\ arrivalTime'[t] = arrivalTime[t]
         /\ Finished(t)'
<1>1. t \in tasks /\ t \notin waitingSet
  <2>1. Len(Stages[t]) \in Nat \ {0}
    BY SchedulerAssumption DEF SchedulerAssumption, Validated
  <2>2. t \in tasks
    BY <2>1 DEF IInv, StagesInOrder, Finished
  <2> QED BY <2>2 DEF IInv, OnePlace, InFlight
<1>2. CASE UNCHANGED <<tasks, arrivalTime, queueTime, serviceTime, stageIndex>>
  BY <1>1, <1>2 DEF Account, Finished
<1>3. ASSUME NEW u \in Task, Submit(u)
      PROVE  /\ t \in tasks' /\ arrivalTime'[t] = arrivalTime[t]
             /\ UNCHANGED <<queueTime, serviceTime, stageIndex>>
  BY <1>1, <1>3 DEF Submit, runtimeVars, IInv, TypeOK
<1>4. ASSUME NEW u \in Task, u # t, NEW pending, NEW time, NEW since,
             StartTask(u, pending, time, since)
      PROVE  queueTime'[t] = queueTime[t] /\ serviceTime'[t] = serviceTime[t]
  BY <1>4 DEF StartTask, IInv, TypeOK
<1>5. ASSUME NEW e \in eventQueue, HandleEvent(e)
      PROVE  /\ UNCHANGED <<tasks, arrivalTime>> /\ stageIndex'[t] = stageIndex[t]
             /\ queueTime'[t] = queueTime[t] /\ serviceTime'[t] = serviceTime[t]
  <2>1. e.id \in Task /\ e.id # t
    BY EventOwner
  <2>2. CASE HandleTaskArrival(e) \/ HandleTaskStart(e)
    BY <2>2 DEF HandleTaskArrival, HandleTaskStart, runtimeVars
  <2>3. CASE HandleTaskReady(e)
    <3>1. UNCHANGED <<tasks, arrivalTime, stageIndex>>
      BY <2>3 DEF HandleTaskReady, TakeReady
    <3>2. StartTask(e.id, eventQueue \ {e}, e.timestamp, e.timestamp) \/ UNCHANGED runtimeVars
      BY <2>3 DEF HandleTaskReady, ReadyStarts, ReadyWaits
    <3> QED BY <3>1, <3>2, <2>1, <1>4 DEF runtimeVars
  <2>4. CASE HandleTaskComplete(e)
    BY <2>1, <2>4 DEF HandleTaskComplete, IInv, TypeOK
  <2> QED BY <1>5, <2>2, <2>3, <2>4 DEF HandleEvent
<1>6. ASSUME DrainStep
      PROVE  /\ UNCHANGED <<tasks, arrivalTime, stageIndex>>
             /\ queueTime'[t] = queueTime[t] /\ serviceTime'[t] = serviceTime[t]
  <2>1. PICK h \in EvaluatePolicyHook(waitingQueue, waitingSet, admissionLimit) :
          \/ StartTask(Head(h.queue), eventQueue, currentTime, readyTime[Head(h.queue)])
          \/ UNCHANGED runtimeVars
    BY <1>6 DEF DrainStep, TryFront
  <2>2. Head(h.queue) \in Task /\ Head(h.queue) # t
    <3>1. waitingQueue # <<>> /\ waitingQueue \in Seq(Task) /\ waitingSet \in SUBSET Task
      BY <1>6 DEF DrainStep, IInv, TypeOK, DrainHasWork
    <3>2. Range(waitingQueue) = waitingSet /\ admissionLimit \in Nat \cup {NoLimit}
      BY DEF IInv, TypeOK, WaitingConsistent
    <3>3. /\ h.queue \in Seq(Task) /\ IsInjective(h.queue) /\ Range(h.queue) = waitingSet
          /\ h.queue # <<>>
      BY <3>1, <3>2, HookKeepsQueue DEF HookResult
    <3>4. Head(h.queue) \in waitingSet
      BY <3>3, HeadTail
    <3> QED BY <3>1, <3>4, <1>1
  <2> QED BY <1>6, <2>1, <2>2, <1>4 DEF DrainStep, GoOnDraining, runtimeVars
<1>7. CASE UNCHANGED vars
  BY <1>2, <1>7 DEF vars, runtimeVars
<1>8. CASE Next
  <2>1. /\ t \in tasks' /\ arrivalTime'[t] = arrivalTime[t]
        /\ queueTime'[t] = queueTime[t] /\ serviceTime'[t] = serviceTime[t]
        /\ stageIndex'[t] = stageIndex[t]
    BY <1>1, <1>3, <1>5, <1>6, <1>8 DEF Next, StepOnce
  <2> QED BY <1>1, <2>1 DEF Account, Finished
<1> QED BY <1>7, <1>8

\* What a finished task was accounted for lies in the past.
FinishedByNow == \A t \in Task : Finished(t) => Account(t) <= currentTime

\* The recorded durations of a completed task never reach past the current time,
\* and no later step touches them: a report made at any time is about the past.
THEOREM FinishedAreByNow == Spec => []FinishedByNow
<1>1. Init => FinishedByNow
  BY SchedulerAssumption, LenProperties, EmptySeq
     DEF Init, FinishedByNow, Finished, SchedulerAssumption, Validated
<1>2. IInv /\ IInv' /\ TimeAccounted /\ FinishedByNow /\ [Next]_vars => FinishedByNow'
  <2> SUFFICES ASSUME IInv, IInv', TimeAccounted, FinishedByNow, [Next]_vars,
                      NEW t \in Task, Finished(t)'
               PROVE  Account(t)' <= currentTime'
    BY DEF FinishedByNow
  <2>1. Account(t) \in Nat /\ currentTime \in Nat /\ currentTime' \in Nat
    BY TimeTyped DEF IInv, TypeOK
  <2>2. CASE Finished(t)
    <3>1. Account(t) <= currentTime
      BY <2>2 DEF FinishedByNow
    <3>2. Account(t)' = Account(t)
      BY <2>2, AccountsAreFinal
    <3>3. currentTime <= currentTime'
      BY ClockGoesOn
    <3> QED BY <2>1, <3>1, <3>2, <3>3
  <2>3. CASE ~Finished(t)
    <3>1. stageIndex'[t] # stageIndex[t]
      BY <2>3 DEF Finished
    <3>2. PICK e \in eventQueue : HandleTaskComplete(e)
      BY <3>1 DEF Next, StepOnce, HandleEvent, Submit, HandleTaskArrival,
         HandleTaskReady, TakeReady, HandleTaskStart, DrainStep, GoOnDraining, vars
    <3>3. e.id = t
      BY <3>1, <3>2, EventOwner DEF HandleTaskComplete, IInv, TypeOK
    <3>4. e.type = "complete" /\ currentTime' = e.timestamp /\ e.timestamp \in Nat
      BY <3>2, EventOwner DEF HandleTaskComplete, Pop
    <3>5. Account(t) = e.timestamp
      BY <3>3, <3>4 DEF TimeAccounted, TimeAccountedOf, EventsOf, AccountedUntil
    <3>6. Account(t)' = Account(t)
      BY <3>2 DEF HandleTaskComplete, Account
    <3> QED BY <3>4, <3>5, <3>6
  <2> QED BY <2>2, <2>3
<1> QED BY <1>1, <1>2, Invariance, TimeIsAccounted, PTL DEF Spec

==============================================================================
