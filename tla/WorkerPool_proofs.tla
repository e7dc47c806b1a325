------------------------- MODULE WorkerPool_proofs --------------------------
(***************************************************************************)
(* Proofs about WorkerPool: its types, the cap on the checks of a key, and *)
(* that a target's guard is held exactly by its one task.                  *)
(***************************************************************************)
EXTENDS WorkerPool, TLAPS, FiniteSetTheorems, WellFoundedInduction

-----------------------------------------------------------------------------
(* The inductive invariant.                                                *)

TaskType == [at : Places, target : Targets \cup {NoTarget}, sem : 0..(MaxConcurrent + 1),
             ok : BOOLEAN, todo : Seq(Writes)]
BreakerType == [state : {"closed", "open", "half_open"}, fails : 0..(CounterRange - 1),
                succs : 0..(CounterRange - 1), inflight : 0..(CounterRange - 1),
                cooled : BOOLEAN]

\* Where a task has looked its semaphore up.
Looked == Permitted \cup {"slot"}

\* A task that looked its semaphore up holds the one the map holds.
TaskOK(s) ==
    /\ tasks[s].at = "free" => tasks[s] = Free
    /\ tasks[s].at # "free" => tasks[s].target \in Targets
    /\ tasks[s].at \notin Looked => tasks[s].sem = 0
    /\ tasks[s].at \in Looked =>
          tasks[s].sem # 0 /\ caps[KeyOf[tasks[s].target]] = tasks[s].sem

TasksOK == \A s \in Slots : TaskOK(s)

Holds(k) == {s \in Slots : HoldsPermit(s) /\ KeyOf[tasks[s].target] = k}

IInv == TypeOK /\ TasksOK /\ HostCapHeld /\ OneProbePerTarget

-----------------------------------------------------------------------------
(* Facts about the parts.                                                  *)

LEMMA Constants ==
    /\ MaxConcurrent \in Nat /\ PerHostMax \in Nat /\ PerHostMax >= 1
    /\ FailureThreshold \in Nat /\ FailureThreshold >= 1
    /\ SuccessThreshold \in Nat /\ SuccessThreshold >= 1
    /\ HalfOpenMax \in Nat /\ HalfOpenMax >= 1 /\ CounterRange \in Nat
    /\ CounterRange > HalfOpenMax /\ MaxFlips \in Nat
    /\ KeyOf \in [Targets -> Keys] /\ NoTarget \notin Targets
BY PoolAssumption

LEMMA Modulo == ASSUME NEW n \in Nat, n > 0, NEW x \in Nat PROVE x % n \in 0..(n - 1)
OBVIOUS

LEMMA FreeType ==
    /\ Free \in TaskType /\ Free.at = "free" /\ Free.target = NoTarget /\ Free.sem = 0
    /\ Free.at \notin Looked /\ Free.at \notin Permitted
BY Constants DEF Free, TaskType, Places, Looked, Permitted

LEMMA NewBreakerType == NewBreaker \in BreakerType
<1>1. 0 \in 0..(CounterRange - 1)
  BY Constants
<1> QED
  BY <1>1 DEF NewBreaker, BreakerType

\* What an atomic operation on the breaker leaves is a breaker.
LEMMA CounterTypes ==
    ASSUME NEW n \in 0..(CounterRange - 1)
    PROVE  Raised(n) \in 0..(CounterRange - 1) /\ Lowered(n) \in 0..(CounterRange - 1)
<1>1. PICK x \in Nat : x = n + 1
  BY Constants
<1>2. PICK y \in Nat : y = n + CounterRange - 1
  BY Constants
<1>3. CounterRange > 0
  BY Constants
<1> QED
  BY <1>1, <1>2, <1>3, Constants, Modulo DEF Raised, Lowered

LEMMA StoredType ==
    ASSUME NEW b \in BreakerType, NEW w \in Writes PROVE Stored(b, w) \in BreakerType
<1>1. 0 \in 0..(CounterRange - 1)
  BY Constants
<1>2. CASE w = "open"
  BY <1>2 DEF Stored, BreakerType
<1>3. CASE w = "closed"
  BY <1>3 DEF Stored, BreakerType
<1>4. CASE w = "opened_at"
  BY <1>4 DEF Stored, BreakerType
<1>5. CASE w = "fails"
  BY <1>1, <1>5 DEF Stored, BreakerType
<1>6. CASE w = "succs"
  BY <1>1, <1>6 DEF Stored, BreakerType
<1>7. CASE w = "inflight"
  BY <1>1, <1>7 DEF Stored, BreakerType
<1> QED
  BY <1>2, <1>3, <1>4, <1>5, <1>6, <1>7 DEF Writes

\* The lists of stores that a call leaves to be done.
LEMMA TodoTypes ==
    /\ <<>> \in Seq(Writes) /\ <<"fails">> \in Seq(Writes)
    /\ <<"succs", "inflight">> \in Seq(Writes)
    /\ <<"open", "opened_at", "fails", "succs", "inflight">> \in Seq(Writes)
    /\ <<"closed", "fails", "succs", "inflight">> \in Seq(Writes)
BY DEF Writes

\* The cap counts finite sets.
LEMMA HoldsFinite ==
    ASSUME NEW k PROVE IsFiniteSet(Holds(k)) /\ Cardinality(Holds(k)) \in Nat
<1>1. IsFiniteSet(Slots)
  BY Constants, FS_Interval DEF Slots
<1>2. Holds(k) \subseteq Slots
  BY DEF Holds
<1> QED
  BY <1>1, <1>2, FS_Subset, FS_CardinalityType

\* A set of slots has a first one.
LEMMA FirstSlot ==
    ASSUME NEW S, S \subseteq Slots, S # {}
    PROVE  \E x \in S : \A y \in Slots : y < x => y \notin S
<1>1. S \subseteq Nat
  BY Constants DEF Slots
<1>2. PICK x \in S : \A y \in S : ~(<<y, x>> \in OpToRel(<, Nat))
  BY <1>1, NatLessThanWellFounded, WFMin, Zenon
<1>3. ASSUME NEW y \in S PROVE ~(y < x)
  <2>1. <<y, x>> \in Nat \X Nat /\ <<y, x>>[1] = y /\ <<y, x>>[2] = x
    BY <1>1
  <2> QED
    BY <1>2, <2>1, Zenon DEF OpToRel
<1> QED
  BY <1>3

LEMMA InitInv == Init => IInv
<1> SUFFICES ASSUME Init PROVE IInv
  OBVIOUS
<1> USE Constants
<1>1. TypeOK
  <2>1. tasks \in [Slots -> TaskType] /\ breaker \in BreakerType
    BY FreeType, NewBreakerType DEF Init
  <2>2. 0 \in 0..(MaxConcurrent + 1)
    OBVIOUS
  <2>3. caps \in [Keys -> 0..(MaxConcurrent + 1)]
    BY <2>2 DEF Init
  <2>4. flips \in 0..MaxFlips /\ in_flight \subseteq Targets /\ host \in {"up", "down"}
    BY DEF Init
  <2> QED
    BY <2>1, <2>3, <2>4 DEF TypeOK, TaskType, BreakerType
<1>2. \A s \in Slots : tasks[s] = Free /\ ~Active(s)
  BY FreeType DEF Init, Active
<1>3. TasksOK
  BY <1>2, FreeType DEF TasksOK, TaskOK
<1>4. HostCapHeld
  <2> SUFFICES ASSUME NEW k \in Keys PROVE Cardinality(Holds(k)) <= PerHostMax
    BY DEF HostCapHeld, Holds
  <2>1. Holds(k) = {}
    BY <1>2, FreeType DEF Holds, HoldsPermit
  <2> QED
    BY <2>1, FS_EmptySet
<1>5. OneProbePerTarget
  BY <1>2 DEF Init, OneProbePerTarget
<1> QED
  BY <1>1, <1>3, <1>4, <1>5 DEF IInv

-----------------------------------------------------------------------------
(* Steps that change no task.                                              *)

\* The breaker, the clock and the host.
LEMMA QuietInv ==
    ASSUME IInv, SweepBreaker \/ Cool \/ Flip \/ UNCHANGED vars PROVE IInv'
<1>1. UNCHANGED <<tasks, in_flight, caps>>
  BY DEF SweepBreaker, Cool, Flip, vars
<1>2. breaker' \in BreakerType
  <2>1. breaker \in BreakerType
    BY DEF IInv, TypeOK, BreakerType
  <2>2. CASE Cool
    BY <2>1, <2>2 DEF Cool, BreakerType
  <2>3. CASE ~Cool
    BY <2>1, <2>3, NewBreakerType DEF SweepBreaker, Flip, vars
  <2> QED
    BY <2>2, <2>3
<1>3. host' \in {"up", "down"} /\ flips' \in 0..MaxFlips
  BY Constants DEF IInv, TypeOK, SweepBreaker, Cool, Flip, vars
<1>4. TypeOK'
  BY <1>1, <1>2, <1>3 DEF IInv, TypeOK, BreakerType
<1>5. TasksOK' /\ HostCapHeld' /\ OneProbePerTarget'
  BY <1>1 DEF IInv, TasksOK, TaskOK, HostCapHeld, HoldsPermit, OneProbePerTarget, Active
<1> QED
  BY <1>4, <1>5 DEF IInv

\* A semaphore that is evicted is held by no task.
LEMMA SweepInv == ASSUME IInv, NEW k \in Keys, SweepThrottle(k) PROVE IInv'
<1>1. /\ UNCHANGED <<tasks, in_flight, breaker, host, flips>>
      /\ caps' = [caps EXCEPT ![k] = 0]
      /\ \A s \in Slots : ~(Active(s) /\ KeyOf[tasks[s].target] = k /\ tasks[s].sem = caps[k])
      /\ caps \in [Keys -> 0..(MaxConcurrent + 1)]
  BY DEF IInv, TypeOK, SweepThrottle
<1>2. TypeOK'
  <2>1. 0 \in 0..(MaxConcurrent + 1)
    BY Constants
  <2>2. caps' \in [Keys -> 0..(MaxConcurrent + 1)]
    BY <1>1, <2>1
  <2> QED
    BY <1>1, <2>2 DEF IInv, TypeOK
<1>3. ASSUME NEW s \in Slots PROVE TaskOK(s)'
  <2>1. TaskOK(s)
    BY DEF IInv, TasksOK
  <2>2. CASE tasks[s].at \in Looked
    <3>1. /\ Active(s) /\ tasks[s].sem # 0 /\ caps[KeyOf[tasks[s].target]] = tasks[s].sem
          /\ tasks[s].target \in Targets
      BY <2>1, <2>2 DEF TaskOK, Active, Looked, Permitted
    <3>2. KeyOf[tasks[s].target] # k
      BY <1>1, <3>1
    <3>3. KeyOf[tasks[s].target] \in Keys
      BY <3>1, Constants
    <3>4. caps'[KeyOf[tasks[s].target]] = caps[KeyOf[tasks[s].target]]
      BY <1>1, <3>2, <3>3
    <3> QED
      BY <1>1, <2>1, <3>1, <3>4 DEF TaskOK
  <2>3. CASE tasks[s].at \notin Looked
    BY <1>1, <2>1, <2>3 DEF TaskOK
  <2> QED
    BY <2>2, <2>3
<1>4. HostCapHeld' /\ OneProbePerTarget'
  BY <1>1 DEF IInv, HostCapHeld, HoldsPermit, OneProbePerTarget, Active
<1> QED
  BY <1>2, <1>3, <1>4 DEF IInv, TasksOK

-----------------------------------------------------------------------------
(* Steps of a task.                                                        *)

\* A step that changes one task and leaves the map of semaphores to the others.
LEMMA OneTask ==
    ASSUME IInv, NEW s \in Slots, NEW x \in TaskType, tasks' = [tasks EXCEPT ![s] = x]
    PROVE  /\ tasks' \in [Slots -> TaskType] /\ tasks'[s] = x
           /\ \A u \in Slots \ {s} : tasks'[u] = tasks[u] /\ (Active(u)' <=> Active(u))
BY DEF IInv, TypeOK, TaskType, Active

\* A task that takes no permit adds nothing to the count of its key.
LEMMA CapKept ==
    ASSUME IInv, NEW s \in Slots, NEW x \in TaskType, tasks' = [tasks EXCEPT ![s] = x],
           x.at \in Permitted => (x.target = tasks[s].target /\ HoldsPermit(s))
    PROVE  HostCapHeld'
<1> SUFFICES ASSUME NEW k \in Keys PROVE Cardinality(Holds(k)') <= PerHostMax
  BY DEF HostCapHeld, Holds
<1>1. Holds(k)' \subseteq Holds(k)
  BY OneTask DEF Holds, HoldsPermit
<1>2. Cardinality(Holds(k)) <= PerHostMax
  BY DEF IInv, HostCapHeld, Holds
<1>3. Cardinality(Holds(k)') <= Cardinality(Holds(k)) /\ Cardinality(Holds(k)') \in Nat
  BY <1>1, HoldsFinite, FS_Subset, FS_CardinalityType
<1> QED
  BY <1>2, <1>3, HoldsFinite, Constants

\* A task that goes on with its target keeps the guard.
LEMMA GuardKept ==
    ASSUME IInv, NEW s \in Slots, NEW x \in TaskType, tasks' = [tasks EXCEPT ![s] = x],
           Active(s), x.at # "free", x.target = tasks[s].target, UNCHANGED in_flight
    PROVE  OneProbePerTarget'
<1>1. /\ tasks'[s] = x /\ Active(s)' /\ \A u \in Slots : tasks'[u].target = tasks[u].target
      /\ \A u \in Slots : Active(u)' <=> Active(u)
  BY OneTask DEF Active
<1>2. {tasks'[u].target : u \in {y \in Slots : Active(y)'}}
        = {tasks[u].target : u \in {y \in Slots : Active(y)}}
  BY <1>1
<1>3. \A u, v \in Slots : Active(u)' /\ u # v => tasks'[u].target # tasks'[v].target
  BY <1>1 DEF IInv, OneProbePerTarget
<1> QED
  BY <1>2, <1>3 DEF IInv, OneProbePerTarget

\* A task that ends gives its guard back.
LEMMA EndKeeps ==
    ASSUME IInv, NEW s \in Slots, Active(s), EndTask(s), UNCHANGED caps
    PROVE  /\ tasks' \in [Slots -> TaskType] /\ in_flight' \subseteq Targets
           /\ TasksOK' /\ HostCapHeld' /\ OneProbePerTarget'
<1>1. tasks' = [tasks EXCEPT ![s] = Free] /\ in_flight' = in_flight \ {tasks[s].target}
  BY DEF EndTask
<1>2. /\ tasks' \in [Slots -> TaskType] /\ tasks'[s] = Free /\ ~Active(s)'
      /\ \A u \in Slots \ {s} : tasks'[u] = tasks[u] /\ (Active(u)' <=> Active(u))
  BY <1>1, OneTask, FreeType DEF Active
<1>3. in_flight' \subseteq Targets
  BY <1>1 DEF IInv, TypeOK
<1>4. TasksOK'
  <2> SUFFICES ASSUME NEW u \in Slots PROVE TaskOK(u)'
    BY DEF TasksOK
  <2>1. CASE u = s
    BY <1>2, <2>1, FreeType DEF TaskOK
  <2>2. CASE u # s
    BY <1>2, <2>2 DEF IInv, TasksOK, TaskOK
  <2> QED
    BY <2>1, <2>2
<1>5. HostCapHeld'
  BY <1>1, FreeType, CapKept
<1>6. OneProbePerTarget'
  <2>1. \A u \in Slots \ {s} : Active(u) => tasks[u].target # tasks[s].target
    BY DEF IInv, OneProbePerTarget
  <2>2. in_flight = {tasks[u].target : u \in {y \in Slots : Active(y)}}
    BY DEF IInv, OneProbePerTarget
  <2>3. in_flight' = {tasks'[u].target : u \in {y \in Slots : Active(y)'}}
    BY <1>1, <1>2, <2>1, <2>2
  <2>4. ASSUME NEW u \in Slots, NEW v \in Slots, Active(u)', u # v
        PROVE  tasks'[u].target # tasks'[v].target
    <3>1. u # s /\ Active(u) /\ tasks'[u].target = tasks[u].target
      BY <1>2, <2>4
    <3>2. tasks[u].target \in Targets
      BY <3>1 DEF IInv, TasksOK, TaskOK, Active
    <3>3. CASE v = s
      BY <1>2, <3>1, <3>2, <3>3, FreeType, Constants
    <3>4. CASE v # s
      BY <1>2, <2>4, <3>1, <3>4 DEF IInv, OneProbePerTarget
    <3> QED
      BY <3>3, <3>4
  <2> QED
    BY <2>3, <2>4 DEF OneProbePerTarget
<1> QED
  BY <1>2, <1>3, <1>4, <1>5, <1>6

\* A target that is not in flight gets a free slot and its guard.
LEMMA DispatchInv == ASSUME IInv, NEW t \in Targets, Dispatch(t) PROVE IInv'
<1> DEFINE S == {x \in Slots : ~Active(x)}
<1>1. PICK s \in S : s = CHOOSE x \in Slots : ~Active(x) /\ \A y \in Slots : y < x => Active(y)
  <2>1. S \subseteq Slots /\ S # {}
    BY DEF Dispatch
  <2>2. \E x \in Slots : ~Active(x) /\ \A y \in Slots : y < x => Active(y)
    BY <2>1, FirstSlot
  <2> QED
    BY <2>2, Zenon
<1>2. PICK x : x = [Free EXCEPT !.at = "spawned", !.target = t]
  OBVIOUS
<1>3. /\ tasks' = [tasks EXCEPT ![s] = x] /\ t \notin in_flight
      /\ in_flight' = in_flight \cup {t}
      /\ UNCHANGED <<breaker, caps, host, flips>>
  BY <1>1, <1>2 DEF Dispatch
<1>4. x \in TaskType /\ x.at = "spawned" /\ x.target = t /\ x.sem = 0
  BY <1>2, FreeType DEF TaskType, Places
<1>5. /\ s \in Slots /\ ~Active(s) /\ tasks' \in [Slots -> TaskType] /\ tasks'[s] = x /\ Active(s)'
      /\ \A u \in Slots \ {s} : tasks'[u] = tasks[u] /\ (Active(u)' <=> Active(u))
  BY <1>3, <1>4, OneTask DEF Active
<1>6. TypeOK'
  BY <1>3, <1>5 DEF IInv, TypeOK, TaskType
<1>7. TasksOK'
  <2> SUFFICES ASSUME NEW u \in Slots PROVE TaskOK(u)'
    BY DEF TasksOK
  <2>1. CASE u = s
    BY <1>4, <1>5, <2>1 DEF TaskOK, Looked, Permitted
  <2>2. CASE u # s
    BY <1>3, <1>5, <2>2 DEF IInv, TasksOK, TaskOK
  <2> QED
    BY <2>1, <2>2
<1>8. HostCapHeld'
  BY <1>3, <1>4, <1>5, CapKept DEF Permitted
<1>9. OneProbePerTarget'
  <2>1. in_flight = {tasks[u].target : u \in {y \in Slots : Active(y)}}
    BY DEF IInv, OneProbePerTarget
  <2>2. in_flight' = {tasks'[u].target : u \in {y \in Slots : Active(y)'}}
    BY <1>3, <1>4, <1>5, <2>1
  <2>3. \A u \in Slots \ {s} : tasks[u].target # t
    <3> SUFFICES ASSUME NEW u \in Slots \ {s} PROVE tasks[u].target # t
      OBVIOUS
    <3>1. CASE Active(u)
      BY <1>3, <2>1, <3>1
    <3>2. CASE ~Active(u)
      BY <3>2, FreeType, Constants DEF IInv, TasksOK, TaskOK, Active
    <3> QED
      BY <3>1, <3>2
  <2>4. ASSUME NEW u \in Slots, NEW v \in Slots, Active(u)', u # v
        PROVE  tasks'[u].target # tasks'[v].target
    <3>1. CASE u = s \/ v = s
      BY <1>4, <1>5, <2>3, <2>4, <3>1
    <3>2. CASE u # s /\ v # s
      BY <1>5, <2>4, <3>2 DEF IInv, OneProbePerTarget
    <3> QED
      BY <3>1, <3>2
  <2> QED
    BY <2>2, <2>4 DEF OneProbePerTarget
<1> QED
  BY <1>6, <1>7, <1>8, <1>9 DEF IInv

\* A task that goes on without a semaphore or a permit more or less.
LEMMA MoveInv ==
    ASSUME IInv, NEW s \in Slots, NEW x \in TaskType, tasks' = [tasks EXCEPT ![s] = x],
           Active(s), x.at # "free", x.target = tasks[s].target, x.sem = tasks[s].sem,
           x.at \in Looked <=> tasks[s].at \in Looked,
           x.at \in Permitted => HoldsPermit(s),
           UNCHANGED <<in_flight, caps, host, flips>>, breaker' \in BreakerType
    PROVE  IInv'
<1>1. /\ tasks' \in [Slots -> TaskType] /\ tasks'[s] = x
      /\ \A u \in Slots \ {s} : tasks'[u] = tasks[u]
  BY OneTask
<1>2. TypeOK'
  BY <1>1 DEF IInv, TypeOK, TaskType, BreakerType
<1>3. TasksOK'
  <2> SUFFICES ASSUME NEW u \in Slots PROVE TaskOK(u)'
    BY DEF TasksOK
  <2>1. CASE u = s
    BY <1>1, <2>1 DEF IInv, TasksOK, TaskOK, Active
  <2>2. CASE u # s
    BY <1>1, <2>2 DEF IInv, TasksOK, TaskOK
  <2> QED
    BY <2>1, <2>2
<1>4. HostCapHeld' /\ OneProbePerTarget'
  BY CapKept, GuardKept
<1> QED
  BY <1>2, <1>3, <1>4 DEF IInv

LEMMA GoToInv ==
    ASSUME IInv, NEW s \in Slots, NEW place \in Places, NEW stores \in Seq(Writes),
           GoTo(s, place, stores), Active(s), place # "free",
           place \in Looked <=> tasks[s].at \in Looked,
           place \in Permitted => HoldsPermit(s),
           UNCHANGED <<in_flight, caps, host, flips>>, breaker' \in BreakerType
    PROVE  IInv'
<1>1. PICK x : x = [tasks[s] EXCEPT !.at = place, !.todo = stores]
  OBVIOUS
<1>2. tasks \in [Slots -> TaskType]
  BY DEF IInv, TypeOK, TaskType
<1>3. /\ x \in TaskType /\ x.at = place /\ x.target = tasks[s].target
      /\ x.sem = tasks[s].sem /\ tasks' = [tasks EXCEPT ![s] = x]
  BY <1>1, <1>2 DEF GoTo, TaskType
<1> QED
  BY <1>3, MoveInv

LEMMA EndInv ==
    ASSUME IInv, NEW s \in Slots, Active(s), EndTask(s), UNCHANGED <<breaker, caps, host, flips>>
    PROVE  IInv'
BY EndKeeps DEF IInv, TypeOK, TaskType

\* allow(): a refused task ends, an admitted one goes on.
LEMMA AllowInv ==
    ASSUME IInv, NEW s \in Slots,
           \/ allow(s) \/ cooldown_elapsed(s) \/ try_transition_to_half_open(s)
           \/ try_admit_half_open(s)
    PROVE  IInv'
<1> USE DEF Places, Looked, Permitted, HoldsPermit
<1>1. /\ breaker \in BreakerType
      /\ breaker.state \in {"closed", "open", "half_open"}
      /\ breaker.inflight \in 0..(CounterRange - 1)
  BY DEF IInv, TypeOK, BreakerType
<1>2. CASE allow(s)
  <2>1. PICK place \in {"admitted", "cooldown_elapsed", "try_admit_half_open"} :
            GoTo(s, place, <<>>)
    BY <1>1, <1>2 DEF allow
  <2>2. /\ tasks[s].at = "spawned" /\ Active(s) /\ breaker' = breaker
        /\ UNCHANGED <<in_flight, caps, host, flips>>
    BY <1>2 DEF allow, At, Active
  <2> QED
    BY <1>1, <2>1, <2>2, TodoTypes, GoToInv
<1>3. CASE cooldown_elapsed(s)
  <2>1. /\ tasks[s].at = "cooldown_elapsed" /\ Active(s)
        /\ UNCHANGED <<breaker, caps, host, flips>>
    BY <1>3 DEF cooldown_elapsed, At, Active
  <2>2. CASE EndTask(s)
    BY <2>1, <2>2, EndInv
  <2>3. CASE GoTo(s, "try_transition", <<>>) /\ UNCHANGED in_flight
    BY <1>1, <2>1, <2>3, TodoTypes, GoToInv
  <2> QED
    BY <1>3, <2>2, <2>3 DEF cooldown_elapsed
<1>4. CASE try_transition_to_half_open(s)
  <2>1. /\ tasks[s].at = "try_transition" /\ Active(s)
        /\ UNCHANGED <<in_flight, caps, host, flips>>
    BY <1>4 DEF try_transition_to_half_open, At, Active
  <2>2. breaker' \in BreakerType
    BY <1>1, <1>4 DEF try_transition_to_half_open, BreakerType
  <2>3. PICK stores \in {<<>>, <<"succs", "inflight">>} : GoTo(s, "try_admit_half_open", stores)
    BY <1>4 DEF try_transition_to_half_open
  <2> QED
    BY <2>1, <2>2, <2>3, TodoTypes, GoToInv
<1>5. CASE try_admit_half_open(s)
  <2>1. /\ tasks[s].at = "try_admit_half_open" /\ Active(s)
        /\ UNCHANGED <<caps, host, flips>>
    BY <1>5 DEF try_admit_half_open, At, Active
  <2>2. CASE EndTask(s) /\ UNCHANGED breaker
    BY <2>1, <2>2, EndInv
  <2>3. CASE /\ breaker.inflight < HalfOpenMax
             /\ breaker' = [breaker EXCEPT !.inflight = @ + 1]
             /\ GoTo(s, "admitted", <<>>) /\ UNCHANGED in_flight
    <3>1. breaker.inflight + 1 \in 0..(CounterRange - 1)
      BY <1>1, <2>3, Constants
    <3>2. breaker' \in BreakerType
      BY <1>1, <2>3, <3>1 DEF BreakerType
    <3> QED
      BY <2>1, <2>3, <3>2, TodoTypes, GoToInv
  <2> QED
    BY <1>5, <2>2, <2>3 DEF try_admit_half_open
<1> QED
  BY <1>2, <1>3, <1>4, <1>5

\* record(): the counters wrap, and the task keeps its permit to the end.
LEMMA RecordInv ==
    ASSUME IInv, NEW s \in Slots,
           \/ record(s) \/ CountFailure(s) \/ GiveBack(s) \/ CountSuccess(s)
           \/ trip_open(s) \/ close(s)
    PROVE  IInv'
<1> USE DEF Places, Looked, Permitted, HoldsPermit
<1>1. /\ breaker \in BreakerType /\ breaker.state \in {"closed", "open", "half_open"}
      /\ breaker.inflight \in 0..(CounterRange - 1) /\ breaker.fails \in 0..(CounterRange - 1)
      /\ breaker.succs \in 0..(CounterRange - 1)
  BY DEF IInv, TypeOK, BreakerType
<1>2. /\ tasks[s].at \in {"record", "count_failure", "give_back", "count_success",
                          "trip_open", "close"}
      /\ Active(s) /\ UNCHANGED <<in_flight, caps, host, flips>>
  BY DEF record, CountFailure, GiveBack, CountSuccess, trip_open, close, At, Active
<1>3. breaker' \in BreakerType
  <2>1. CASE CountFailure(s)
    <3>1. Raised(breaker.fails) \in 0..(CounterRange - 1)
      BY <1>1, CounterTypes
    <3>2. breaker' = [breaker EXCEPT !.fails = Raised(breaker.fails)]
      BY <2>1 DEF CountFailure
    <3> QED
      BY <1>1, <3>1, <3>2 DEF BreakerType
  <2>2. CASE GiveBack(s)
    <3>1. Lowered(breaker.inflight) \in 0..(CounterRange - 1)
      BY <1>1, CounterTypes
    <3>2. breaker' = [breaker EXCEPT !.inflight = Lowered(breaker.inflight)]
      BY <2>2 DEF GiveBack
    <3> QED
      BY <1>1, <3>1, <3>2 DEF BreakerType
  <2>3. CASE CountSuccess(s)
    <3>1. Raised(breaker.succs) \in 0..(CounterRange - 1)
      BY <1>1, CounterTypes
    <3>2. breaker' = [breaker EXCEPT !.succs = Raised(breaker.succs)]
      BY <2>3 DEF CountSuccess
    <3> QED
      BY <1>1, <3>1, <3>2 DEF BreakerType
  <2>4. CASE record(s) \/ trip_open(s) \/ close(s)
    BY <1>1, <2>4 DEF record, trip_open, close
  <2> QED
    BY <2>1, <2>2, <2>3, <2>4
<1>4. \E place \in {"recorded", "count_failure", "give_back", "count_success", "trip_open",
                    "close"}, stores \in Seq(Writes) : GoTo(s, place, stores)
  <2>1. CASE record(s)
    BY <1>1, <2>1, TodoTypes DEF record
  <2>2. CASE CountFailure(s)
    BY <2>2, TodoTypes DEF CountFailure
  <2>3. CASE GiveBack(s)
    BY <2>3, TodoTypes DEF GiveBack
  <2>4. CASE CountSuccess(s)
    BY <2>4, TodoTypes DEF CountSuccess
  <2>5. CASE trip_open(s)
    BY <2>5, TodoTypes DEF trip_open
  <2>6. CASE close(s)
    BY <2>6, TodoTypes DEF close
  <2> QED
    BY <2>1, <2>2, <2>3, <2>4, <2>5, <2>6
<1> QED
  BY <1>2, <1>3, <1>4, GoToInv

\* A pending store.
LEMMA StoreInv == ASSUME IInv, NEW s \in Slots, Store(s) PROVE IInv'
<1>1. /\ breaker \in BreakerType /\ tasks \in [Slots -> TaskType]
      /\ tasks[s].todo \in Seq(Writes) /\ tasks[s].todo # <<>>
      /\ UNCHANGED <<in_flight, caps, host, flips>>
      /\ breaker' = Stored(breaker, Head(tasks[s].todo))
      /\ tasks' = [tasks EXCEPT ![s].todo = Tail(tasks[s].todo)]
  BY DEF IInv, TypeOK, BreakerType, TaskType, Store
<1>2. Head(tasks[s].todo) \in Writes /\ Tail(tasks[s].todo) \in Seq(Writes)
  BY <1>1
<1>3. breaker' \in BreakerType
  BY <1>1, <1>2, StoredType
<1>4. Active(s)
  BY <1>1 DEF IInv, TasksOK, TaskOK, Active, Free
<1>5. PICK x : x = [tasks[s] EXCEPT !.todo = Tail(tasks[s].todo)]
  OBVIOUS
<1>6. /\ x \in TaskType /\ x.at = tasks[s].at /\ x.target = tasks[s].target
      /\ x.sem = tasks[s].sem /\ tasks' = [tasks EXCEPT ![s] = x]
  BY <1>1, <1>2, <1>5 DEF TaskType
<1>7. x.at # "free" /\ (x.at \in Permitted => HoldsPermit(s))
  BY <1>4, <1>6 DEF Active, HoldsPermit
<1> QED
  BY <1>1, <1>3, <1>4, <1>6, <1>7, MoveInv

\* The task gets the semaphore the map holds, or puts a new one there; then no other
\* task of the key holds one.
LEMMA SemaphoreInv == ASSUME IInv, NEW s \in Slots, SemaphoreFor(s) PROVE IInv'
<1>1. PICK k : k = KeyOf[tasks[s].target]
  OBVIOUS
<1>2. /\ UNCHANGED <<in_flight, breaker, host, flips>> /\ tasks[s].at = "admitted" /\ Active(s)
      /\ tasks \in [Slots -> TaskType] /\ caps \in [Keys -> 0..(MaxConcurrent + 1)]
      /\ tasks[s].target \in Targets /\ k \in Keys
      /\ tasks' = [tasks EXCEPT ![s].at = "slot", ![s].sem = caps'[k]]
  BY <1>1, Constants DEF IInv, TypeOK, TaskType, TasksOK, TaskOK, SemaphoreFor, At, Active
<1>3. PICK g \in Gens : caps' = IF caps[k] = 0 THEN [caps EXCEPT ![k] = g] ELSE caps
  <2>1. PICK used : used = {tasks[x].sem : x \in {y \in Slots : Active(y) /\ KeyOf[tasks[y].target] = k}}
    OBVIOUS
  <2>2. caps' = IF caps[k] = 0
                THEN [caps EXCEPT ![k] = CHOOSE g \in Gens \ used : \A h \in Gens \ used : g <= h]
                ELSE caps
    BY <1>1, <2>1 DEF SemaphoreFor
  <2>3. CASE caps[k] = 0
    <3>1. \A y \in Slots : Active(y) /\ KeyOf[tasks[y].target] = k => tasks[y].sem = 0
      BY <1>2, <2>3 DEF IInv, TasksOK, TaskOK, Active, TaskType, Looked, Permitted
    <3>2. 1 \in Gens \ used /\ \A h \in Gens \ used : 1 <= h
      BY <2>1, <3>1, Constants DEF Gens
    <3>3. (CHOOSE g \in Gens \ used : \A h \in Gens \ used : g <= h) \in Gens
      BY <3>2
    <3> QED
      BY <2>2, <2>3, <3>3
  <2>4. CASE caps[k] # 0
    <3>1. 1 \in Gens
      BY Constants DEF Gens
    <3> QED
      BY <2>2, <2>4, <3>1
  <2> QED
    BY <2>3, <2>4
<1>4. /\ caps' \in [Keys -> 0..(MaxConcurrent + 1)] /\ caps'[k] # 0
      /\ \A j \in Keys : caps[j] # 0 \/ j # k => caps'[j] = caps[j]
  <2>1. g \in 0..(MaxConcurrent + 1) /\ g # 0
    BY Constants DEF Gens
  <2> QED
    BY <1>2, <1>3, <2>1
<1>5. PICK x : x = [tasks[s] EXCEPT !.at = "slot", !.sem = caps'[k]]
  OBVIOUS
<1>6. /\ x \in TaskType /\ x.at = "slot" /\ x.target = tasks[s].target
      /\ x.sem = caps'[k] /\ tasks' = [tasks EXCEPT ![s] = x]
  BY <1>2, <1>4, <1>5 DEF TaskType, Places
<1>7. /\ tasks' \in [Slots -> TaskType] /\ tasks'[s] = x
      /\ \A u \in Slots \ {s} : tasks'[u] = tasks[u]
  BY <1>6, OneTask
<1>8. TypeOK'
  BY <1>2, <1>4, <1>7 DEF IInv, TypeOK, TaskType
<1>9. TasksOK'
  <2> SUFFICES ASSUME NEW u \in Slots PROVE TaskOK(u)'
    BY DEF TasksOK
  <2>1. CASE u = s
    BY <1>1, <1>2, <1>4, <1>6, <1>7, <2>1 DEF TaskOK, Looked, Permitted
  <2>2. CASE u # s
    <3>1. TaskOK(u) /\ tasks'[u] = tasks[u]
      BY <1>7, <2>2 DEF IInv, TasksOK
    <3>2. CASE tasks[u].at \in Looked
      <4>1. /\ KeyOf[tasks[u].target] \in Keys
            /\ caps[KeyOf[tasks[u].target]] # 0
        BY <3>1, <3>2, Constants DEF TaskOK, Looked, Permitted
      <4>2. caps'[KeyOf[tasks[u].target]] = caps[KeyOf[tasks[u].target]]
        BY <1>4, <4>1
      <4> QED
        BY <3>1, <3>2, <4>2 DEF TaskOK
    <3>3. CASE tasks[u].at \notin Looked
      BY <3>1, <3>3 DEF TaskOK
    <3> QED
      BY <3>2, <3>3
  <2> QED
    BY <2>1, <2>2
<1>10. HostCapHeld' /\ OneProbePerTarget'
  BY <1>2, <1>6, CapKept, GuardKept DEF Permitted
<1> QED
  BY <1>8, <1>9, <1>10 DEF IInv

\* With a permit left the check starts; every other check of the key holds the same
\* semaphore, so the count the permits keep is the count of the key.
LEMMA AcquireInv == ASSUME IInv, NEW s \in Slots, Acquire(s) PROVE IInv'
<1>1. PICK k : k = KeyOf[tasks[s].target]
  OBVIOUS
<1>2. /\ UNCHANGED <<breaker, caps, host, flips>> /\ tasks[s].at = "slot" /\ Active(s)
      /\ tasks \in [Slots -> TaskType] /\ TaskOK(s)
      /\ tasks[s].target \in Targets /\ k \in Keys
  BY <1>1, Constants DEF IInv, TypeOK, TaskType, TasksOK, TaskOK, Acquire, At, Active
<1>3. CASE EndTask(s)
  BY <1>2, <1>3, EndInv
<1>4. CASE /\ Cardinality(HeldPermits(k, tasks[s].sem)) < PerHostMax
           /\ GoTo(s, "running", <<>>) /\ UNCHANGED in_flight
  <2>1. PICK x : x = [tasks[s] EXCEPT !.at = "running", !.todo = <<>>]
    OBVIOUS
  <2>2. /\ x \in TaskType /\ x.at = "running" /\ x.target = tasks[s].target
        /\ x.sem = tasks[s].sem /\ tasks' = [tasks EXCEPT ![s] = x]
    BY <1>2, <1>4, <2>1, TodoTypes DEF TaskType, Places, GoTo
  <2>3. /\ tasks' \in [Slots -> TaskType] /\ tasks'[s] = x
        /\ \A u \in Slots \ {s} : tasks'[u] = tasks[u]
    BY <2>2, OneTask
  <2>4. TypeOK'
    BY <1>2, <1>4, <2>3 DEF IInv, TypeOK, TaskType
  <2>5. TasksOK'
    <3> SUFFICES ASSUME NEW u \in Slots PROVE TaskOK(u)'
      BY DEF TasksOK
    <3>1. CASE u = s
      BY <1>2, <2>2, <2>3, <3>1 DEF TaskOK, Looked, Permitted
    <3>2. CASE u # s
      BY <1>2, <2>3, <3>2 DEF IInv, TasksOK, TaskOK
    <3> QED
      BY <3>1, <3>2
  <2>6. HostCapHeld'
    <3> SUFFICES ASSUME NEW j \in Keys PROVE Cardinality(Holds(j)') <= PerHostMax
      BY DEF HostCapHeld, Holds
    <3>1. Cardinality(Holds(j)) <= PerHostMax /\ IsFiniteSet(Holds(j)) /\ Cardinality(Holds(j)) \in Nat
      BY HoldsFinite DEF IInv, HostCapHeld, Holds
    <3>2. CASE j # k
      <4>1. Holds(j)' = Holds(j)
        BY <1>1, <1>2, <2>2, <2>3, <3>2 DEF Holds, HoldsPermit, Permitted
      <4> QED
        BY <3>1, <4>1
    <3>3. CASE j = k
      <4>1. Holds(j) = HeldPermits(k, tasks[s].sem)
        BY <1>1, <1>2, <3>3 DEF Holds, HeldPermits, HoldsPermit, IInv, TasksOK, TaskOK, Looked
      <4>2. Holds(j)' = Holds(j) \cup {s} /\ s \notin Holds(j)
        BY <1>1, <1>2, <2>2, <2>3, <3>3 DEF Holds, HoldsPermit, Permitted
      <4>3. Cardinality(Holds(j)') = Cardinality(Holds(j)) + 1
        BY <3>1, <4>2, FS_AddElement
      <4> QED
        BY <1>4, <3>1, <4>1, <4>3, Constants
    <3> QED
      BY <3>2, <3>3
  <2>7. OneProbePerTarget'
    BY <1>2, <1>4, <2>2, GuardKept
  <2> QED
    BY <2>4, <2>5, <2>6, <2>7 DEF IInv
<1> QED
  BY <1>1, <1>3, <1>4 DEF Acquire

\* The check ends and its task is on its way to record.
LEMMA ExecuteInv == ASSUME IInv, NEW s \in Slots, Execute(s) PROVE IInv'
<1>1. PICK x : x = [tasks[s] EXCEPT !.at = "record", !.ok = (host = "up")]
  OBVIOUS
<1>2. /\ tasks \in [Slots -> TaskType] /\ breaker \in BreakerType /\ tasks[s].at = "running"
      /\ UNCHANGED <<in_flight, breaker, caps, host, flips>>
      /\ tasks' = [tasks EXCEPT ![s].at = "record", ![s].ok = (host = "up")]
  BY DEF IInv, TypeOK, TaskType, BreakerType, Execute, At
<1>3. (host = "up") \in BOOLEAN
  OBVIOUS
<1>4. /\ x \in TaskType /\ x.at = "record" /\ x.target = tasks[s].target
      /\ x.sem = tasks[s].sem /\ tasks' = [tasks EXCEPT ![s] = x]
  BY <1>1, <1>2, <1>3 DEF TaskType, Places
<1> QED
  BY <1>2, <1>4, MoveInv DEF Active, Looked, Permitted, HoldsPermit

\* A recorded task ends.
LEMMA FinishInv == ASSUME IInv, NEW s \in Slots, Finish(s) PROVE IInv'
BY EndInv DEF Finish, At, Active

-----------------------------------------------------------------------------
(* The theorems.                                                           *)

LEMMA StepInv == IInv /\ [Next]_vars => IInv'
<1> SUFFICES ASSUME IInv, [Next]_vars PROVE IInv'
  OBVIOUS
<1>1. CASE \E t \in Targets : Dispatch(t)
  BY <1>1, DispatchInv
<1>2. CASE \E s \in Slots : TaskStep(s)
  BY <1>2, AllowInv, RecordInv, StoreInv, SemaphoreInv, AcquireInv, ExecuteInv, FinishInv
     DEF TaskStep, BreakerStep
<1>3. CASE \E k \in Keys : SweepThrottle(k)
  BY <1>3, SweepInv
<1>4. CASE SweepBreaker \/ Cool \/ Flip \/ UNCHANGED vars
  BY <1>4, QuietInv
<1> QED
  BY <1>1, <1>2, <1>3, <1>4 DEF Next

LEMMA Invariance == Spec => []IInv
BY InitInv, StepInv, PTL DEF Spec

\* The pool's state keeps its types at every interleaving of the breaker's atomic
\* operations: the counters wrap within their width (allow, record).
THEOREM TypeCorrect == Spec => []TypeOK
<1>1. IInv => TypeOK
  BY DEF IInv
<1> QED
  BY <1>1, Invariance, PTL

\* A tenant never has more than per_host_max checks of a port under way, for any
\* number of tasks, keys and sweeps in between (semaphore_for, acquire, sweep).
THEOREM HostCapSafe == Spec => []HostCapHeld
<1>1. IInv => HostCapHeld
  BY DEF IInv
<1> QED
  BY <1>1, Invariance, PTL

\* Two probes of a target never overlap and its guard is held exactly as long as its
\* task lives, for any number of permits and monitors (dispatch, InFlightGuard).
THEOREM ProbeSafe == Spec => []OneProbePerTarget
<1>1. IInv => OneProbePerTarget
  BY DEF IInv
<1> QED
  BY <1>1, Invariance, PTL
=============================================================================
