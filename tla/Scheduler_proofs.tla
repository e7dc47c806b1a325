------------------------- MODULE Scheduler_proofs ---------------------------
(***************************************************************************)
(* Proofs about Scheduler: its types, that a scheduled target has exactly  *)
(* one heap entry of its current generation, and that every step of the    *)
(* scheduler is a step of Timers or leaves the timers alone.               *)
(***************************************************************************)
EXTENDS Scheduler, TLAPS, FiniteSetTheorems

-----------------------------------------------------------------------------
(* The inductive invariant.                                                *)

\* Generations are numbered upwards from 1 and a generation of a target has at most
\* one entry.
Generations ==
    /\ next_seq >= 1
    /\ \A t \in Targets : live[t] < next_seq
    /\ \A e \in heap : e.seq >= 1 /\ e.seq < next_seq
    /\ \A e, f \in heap : e.id = f.id /\ e.seq = f.seq => e = f

\* The current generation of a scheduled target has an entry.
LiveHasEntry ==
    \A t \in Targets : live[t] # 0 => \E e \in heap : e.id = t /\ e.seq = live[t]

IInv == TypeOK /\ Generations /\ LiveHasEntry

EntryType == [id : Targets, seq : Nat, first : BOOLEAN, due : BOOLEAN]
RefresherType == [at : {"idle", "listed", "send", "done"},
                  list : [Targets -> Versions], diff : Diffs]

-----------------------------------------------------------------------------
\* The empty list and the empty diff have their types.
LEMMA Empty ==
    /\ Nothing \in [Targets -> Versions] /\ Nothing \in [Targets -> Nat]
    /\ NoDiff \in Diffs /\ IdleRefresher \in RefresherType
BY SchedulerAssumption
   DEF Nothing, NoDiff, IdleRefresher, RefresherType, Diffs, Versions

\* A target of a diff gets a generation from next_seq on, below the next one after
\* the diff.
LEMMA SeqOfBounds ==
    ASSUME next_seq \in Nat, NEW S \in SUBSET Targets, NEW t \in S
    PROVE  /\ Cardinality(S) \in Nat
           /\ SeqOf(t, S) \in Nat /\ next_seq <= SeqOf(t, S)
           /\ SeqOf(t, S) < next_seq + Cardinality(S)
<1> DEFINE U == {u \in S : u < t}
<1>1. IsFiniteSet(Targets)
  BY FS_Interval, SchedulerAssumption DEF Targets
<1>2. IsFiniteSet(S) /\ Cardinality(S) \in Nat
  BY <1>1, FS_Subset, FS_CardinalityType
<1>3. t \in Int /\ t \notin U /\ U \in SUBSET S
  BY SchedulerAssumption DEF Targets
<1>4. IsFiniteSet(U) /\ Cardinality(U) <= Cardinality(S) /\ Cardinality(S) # Cardinality(U)
  BY <1>2, <1>3, FS_Subset
<1>5. Cardinality(U) \in Nat
  BY <1>4, FS_CardinalityType
<1> QED
  BY <1>2, <1>4, <1>5 DEF SeqOf

\* The initial state.
LEMMA InitInv == Init => IInv
<1> SUFFICES ASSUME Init PROVE IInv
  OBVIOUS
<1> USE SchedulerAssumption
<1>1. TypeOK
  <2>1. /\ enabled \in [Targets -> Versions] /\ registry \in [Targets -> Versions]
        /\ live \in [Targets -> Nat] /\ refresher \in RefresherType
    BY Empty DEF Init
  <2>2. cache \in [etag : BOOLEAN, list : [Targets -> Versions]]
    BY Empty DEF Init
  <2>3. /\ chan \in Seq(Diffs) /\ Len(chan) <= DiffBound
        /\ heap \subseteq [id : Targets, seq : Nat, first : BOOLEAN, due : BOOLEAN]
        /\ next_seq \in Nat /\ beat \in [Targets -> BOOLEAN]
    BY DEF Init
  <2>4. left \in [changes : 0..MaxChanges, faults : 0..MaxFaults]
    BY DEF Init
  <2> QED
    BY <2>1, <2>2, <2>3, <2>4 DEF Init, TypeOK, RefresherType
<1>2. Generations /\ LiveHasEntry
  BY DEF Init, Generations, LiveHasEntry, Nothing
<1> QED
  BY <1>1, <1>2 DEF IInv

-----------------------------------------------------------------------------
(* Steps that leave the driver's map and heap alone.                       *)

\* The generations only depend on the live map, the heap and the counter.
LEMMA SameSchedule ==
    ASSUME IInv, UNCHANGED <<live, heap, next_seq>>
    PROVE  Generations' /\ LiveHasEntry'
BY DEF IInv, Generations, LiveHasEntry

\* The refresher, listing, merging, sending or stopping.
LEMMA RefresherTypes == IInv /\ RefresherStep => TypeOK'
<1> SUFFICES ASSUME IInv, RefresherStep PROVE TypeOK'
  OBVIOUS
<1> USE SchedulerAssumption, Empty
<1>1. CASE List
  <2>1. /\ refresher \in RefresherType
        /\ cache \in [etag : BOOLEAN, list : [Targets -> Versions]]
        /\ enabled \in [Targets -> Versions]
        /\ left \in [changes : 0..MaxChanges, faults : 0..MaxFaults]
    BY DEF IInv, TypeOK, RefresherType
  <2>2. refresher' \in RefresherType
    BY <1>1, <2>1 DEF List, ListRejected, ListOk, ListFailed, RefresherType
  <2>3. cache' \in [etag : BOOLEAN, list : [Targets -> Versions]]
    <3>1. CASE ListRejected
      BY <3>1 DEF ListRejected
    <3>2. CASE ListOk
      BY <2>1, <3>2 DEF ListOk
    <3>3. CASE ListFailed
      BY <2>1, <3>3 DEF ListFailed
    <3> QED
      BY <1>1, <3>1, <3>2, <3>3 DEF List
  <2>4. left' \in [changes : 0..MaxChanges, faults : 0..MaxFaults]
    BY <1>1, <2>1 DEF List, ListRejected, ListOk, ListFailed
  <2> QED
    BY <1>1, <2>2, <2>3, <2>4 DEF IInv, TypeOK, List, RefresherType
<1>2. CASE Merge
  <2>1. refresher.list \in [Targets -> Versions]
    BY DEF IInv, TypeOK
  <2>2. DiffOf(refresher.list) \in Diffs
    BY DEF DiffOf, Diffs
  <2> QED
    BY <1>2, <2>1, <2>2 DEF Merge, IInv, TypeOK
<1>3. CASE Send
  <2>1. refresher.diff \in Diffs /\ chan \in Seq(Diffs) /\ Len(chan) <= DiffBound
    BY DEF IInv, TypeOK
  <2>2. refresher' \in RefresherType
    BY <1>3 DEF Send, RefresherType, IdleRefresher
  <2>3. chan' \in Seq(Diffs) /\ Len(chan') <= DiffBound
    BY <1>3, <2>1 DEF Send
  <2> QED
    BY <1>3, <2>2, <2>3 DEF Send, IInv, TypeOK, RefresherType
<1>4. CASE RefresherStops
  <2>1. refresher' \in RefresherType
    BY <1>4 DEF RefresherStops, RefresherType, IdleRefresher
  <2> QED
    BY <1>4, <2>1 DEF RefresherStops, IInv, TypeOK, RefresherType
<1> QED
  BY <1>1, <1>2, <1>3, <1>4 DEF RefresherStep

\* The refresher leaves the schedule alone.
LEMMA RefresherInv == IInv /\ RefresherStep => IInv' /\ UNCHANGED <<live, heap, beat, driver>>
<1> SUFFICES ASSUME IInv, RefresherStep PROVE IInv' /\ UNCHANGED <<live, heap, beat, driver>>
  OBVIOUS
<1>1. UNCHANGED <<live, heap, next_seq, beat, driver>>
  BY DEF RefresherStep, List, Merge, Send, RefresherStops
<1> QED
  BY <1>1, RefresherTypes, SameSchedule DEF IInv

\* So do edits, the shutdown and the driver's end.
LEMMA OutsideInv ==
    IInv /\ (Change \/ Cancel \/ DriverStops) => IInv' /\ UNCHANGED <<live, heap, beat>>
<1> SUFFICES ASSUME IInv, Change \/ Cancel \/ DriverStops
             PROVE  IInv' /\ UNCHANGED <<live, heap, beat>>
  OBVIOUS
<1>1. UNCHANGED <<live, heap, next_seq, beat>>
  BY DEF Change, Cancel, DriverStops
<1>2. TypeOK'
  <2>1. CASE Change
    <3>1. /\ left \in [changes : 0..MaxChanges, faults : 0..MaxFaults] /\ left.changes > 0
          /\ left' = [left EXCEPT !.changes = left.changes - 1]
          /\ enabled \in [Targets -> Versions] /\ MaxChanges \in Nat
      BY <2>1, SchedulerAssumption DEF Change, IInv, TypeOK
    <3>2. left' \in [changes : 0..MaxChanges, faults : 0..MaxFaults]
      BY <3>1
    <3>3. MaxChanges + 1 - left.changes \in Versions /\ 0 \in Versions
      BY <3>1 DEF Versions
    <3>4. enabled' \in [Targets -> Versions] /\ revoked' \in BOOLEAN
      <4>1. CASE \E t \in Targets :
                   enabled' \in {[enabled EXCEPT ![t] = MaxChanges + 1 - left.changes],
                                [enabled EXCEPT ![t] = 0]}
        <5>1. PICK t \in Targets, v \in Versions : enabled' = [enabled EXCEPT ![t] = v]
          BY <3>3, <4>1
        <5>2. enabled' \in [Targets -> Versions]
          BY <3>1, <5>1
        <5>3. revoked' \in BOOLEAN
          BY <2>1 DEF Change, IInv, TypeOK
        <5> QED
          BY <5>2, <5>3
      <4>2. CASE UNCHANGED enabled
        BY <2>1, <3>1, <4>2 DEF Change, IInv, TypeOK
      <4> QED
        BY <2>1, <4>1, <4>2 DEF Change
    <3> QED
      BY <2>1, <3>2, <3>4 DEF Change, IInv, TypeOK
  <2>2. CASE Cancel
    BY <2>2 DEF Cancel, IInv, TypeOK
  <2>3. CASE DriverStops
    BY <2>3 DEF DriverStops, IInv, TypeOK
  <2> QED
    BY <2>1, <2>2, <2>3
<1> QED
  BY <1>1, <1>2, SameSchedule DEF IInv

-----------------------------------------------------------------------------
(* The driver.                                                             *)

\* A diff gives what it schedules fresh generations, and keeps what it leaves alone.
LEMMA ApplyInv == IInv /\ ApplyDiff => IInv'
<1> SUFFICES ASSUME IInv, ApplyDiff PROVE IInv'
  OBVIOUS
<1>1. /\ chan \in Seq(Diffs) /\ chan # <<>> /\ Len(chan) <= DiffBound /\ DiffBound \in Nat
      /\ next_seq \in Nat /\ live \in [Targets -> Nat] /\ heap \subseteq EntryType
  BY SchedulerAssumption DEF ApplyDiff, IInv, TypeOK, EntryType
<1>2. PICK diff \in Diffs : diff = Head(chan)
  BY <1>1
<1>3. PICK S \in SUBSET Targets : S = diff.scheduled
  BY DEF Diffs
<1>4. /\ live' = [t \in Targets |-> IF t \in diff.removed THEN 0
                                    ELSE IF t \in S THEN SeqOf(t, S) ELSE live[t]]
      /\ heap' = heap \cup {Entry(t, SeqOf(t, S), TRUE) : t \in S}
      /\ next_seq' = next_seq + Cardinality(S)
      /\ chan' = Tail(chan)
      /\ UNCHANGED <<enabled, revoked, cache, refresher, registry, driver, beat, shutdown,
                     left>>
  BY <1>2, <1>3 DEF ApplyDiff
<1>5. Cardinality(S) \in Nat
  <2>1. IsFiniteSet(Targets)
    BY FS_Interval, SchedulerAssumption DEF Targets
  <2> QED
    BY <2>1, <1>3, FS_Subset, FS_CardinalityType
<1>6. \A t \in S : /\ SeqOf(t, S) \in Nat /\ next_seq <= SeqOf(t, S)
                   /\ SeqOf(t, S) < next_seq'
  BY <1>1, <1>4, SeqOfBounds
<1>7. TypeOK'
  <2>1. chan' \in Seq(Diffs) /\ Len(chan') <= DiffBound
    BY <1>1, <1>4
  <2>2. live' \in [Targets -> Nat]
    BY <1>1, <1>4, <1>6
  <2>3. \A t \in S : Entry(t, SeqOf(t, S), TRUE) \in EntryType
    BY <1>6 DEF Entry, EntryType
  <2>4. heap' \subseteq EntryType
    BY <1>1, <1>4, <2>3
  <2>5. next_seq' \in Nat
    BY <1>1, <1>4, <1>5
  <2> QED
    BY <1>4, <2>1, <2>2, <2>4, <2>5 DEF IInv, TypeOK, EntryType
<1>8. Generations'
  <2>1. next_seq' >= 1 /\ next_seq <= next_seq' /\ next_seq' \in Nat
    BY <1>1, <1>4, <1>5 DEF IInv, Generations
  <2>2. \A t \in Targets : live'[t] < next_seq'
    BY <1>1, <1>4, <1>6, <2>1 DEF IInv, Generations
  <2>3. ASSUME NEW e \in heap'
        PROVE  \/ e \in heap /\ e.seq < next_seq /\ e.seq >= 1 /\ e.seq \in Nat
               \/ e.id \in S /\ e = Entry(e.id, SeqOf(e.id, S), TRUE) /\ e.seq = SeqOf(e.id, S)
    <3>1. CASE e \in heap
      BY <1>1, <3>1 DEF IInv, Generations, EntryType
    <3>2. CASE e \notin heap
      BY <1>4, <3>2 DEF Entry
    <3> QED
      BY <3>1, <3>2
  <2>4. next_seq >= 1
    BY DEF IInv, Generations
  <2>5. ASSUME NEW e \in heap' PROVE e.seq >= 1 /\ e.seq < next_seq'
    <3>1. CASE e.seq < next_seq /\ e.seq >= 1 /\ e.seq \in Nat
      BY <1>1, <2>1, <3>1
    <3>2. CASE e.id \in S /\ e.seq = SeqOf(e.id, S)
      BY <1>1, <1>6, <2>1, <2>4, <3>2
    <3> QED
      BY <2>3, <3>1, <3>2
  <2>6. ASSUME NEW e \in heap', NEW f \in heap', e.id = f.id, e.seq = f.seq PROVE e = f
    <3>1. CASE e.seq < next_seq
      <4>1. ~(f.id \in S /\ f.seq = SeqOf(f.id, S))
        BY <1>1, <1>6, <2>6, <3>1
      <4>2. ~(e.id \in S /\ e.seq = SeqOf(e.id, S))
        BY <1>1, <1>6, <3>1
      <4>3. e \in heap /\ f \in heap
        BY <4>1, <4>2, <2>3
      <4> QED
        BY <4>3, <2>6 DEF IInv, Generations
    <3>2. CASE ~(e.seq < next_seq)
      <4>1. e = Entry(e.id, SeqOf(e.id, S), TRUE)
        BY <3>2, <2>3
      <4>2. f = Entry(f.id, SeqOf(f.id, S), TRUE)
        BY <3>2, <2>3, <2>6
      <4> QED
        BY <4>1, <4>2, <2>6
    <3> QED
      BY <3>1, <3>2
  <2> QED
    BY <2>1, <2>2, <2>5, <2>6 DEF Generations
<1>9. LiveHasEntry'
  <2> SUFFICES ASSUME NEW t \in Targets, live'[t] # 0
               PROVE  \E e \in heap' : e.id = t /\ e.seq = live'[t]
    BY DEF LiveHasEntry
  <2>1. CASE t \in S
    <3>1. live'[t] = SeqOf(t, S)
      BY <1>4, <2>1
    <3>2. Entry(t, SeqOf(t, S), TRUE) \in heap'
      BY <1>4, <2>1
    <3> QED
      BY <3>1, <3>2 DEF Entry
  <2>2. CASE t \notin S
    BY <1>4, <2>2 DEF IInv, LiveHasEntry
  <2> QED
    BY <2>1, <2>2
<1> QED
  BY <1>7, <1>8, <1>9 DEF IInv

\* A due entry is dropped, ends its schedule, or is pushed again.
LEMMA DrainInv == ASSUME NEW e \in heap PROVE IInv /\ Drain(e) => IInv'
<1> SUFFICES ASSUME IInv, Drain(e) PROVE IInv'
  OBVIOUS
<1>1. /\ live \in [Targets -> Nat] /\ heap \subseteq EntryType /\ next_seq \in Nat
      /\ beat \in [Targets -> BOOLEAN] /\ e \in EntryType
      /\ e.id \in Targets /\ e.seq \in Nat /\ e.seq >= 1 /\ e.seq < next_seq
      /\ UNCHANGED <<enabled, revoked, cache, refresher, registry, chan, driver, next_seq,
                     shutdown, left>>
  BY DEF Drain, IInv, TypeOK, Generations, EntryType
<1> DEFINE again == Entry(e.id, e.seq, FALSE)
<1>2. again \in EntryType /\ again.id = e.id /\ again.seq = e.seq
  BY <1>1 DEF Entry, EntryType
<1> HIDE DEF again
<1>3. CASE live[e.id] # e.seq /\ heap' = heap \ {e} /\ UNCHANGED <<live, beat>>
  <2>1. TypeOK'
    BY <1>1, <1>3 DEF IInv, TypeOK
  <2>2. Generations'
    BY <1>1, <1>3 DEF IInv, Generations
  <2>3. LiveHasEntry'
    BY <1>1, <1>3 DEF IInv, LiveHasEntry
  <2> QED
    BY <2>1, <2>2, <2>3 DEF IInv
<1>4. CASE /\ live[e.id] = e.seq /\ heap' = heap \ {e}
           /\ live' = [live EXCEPT ![e.id] = 0] /\ UNCHANGED beat
  <2>1. TypeOK'
    BY <1>1, <1>4 DEF IInv, TypeOK
  <2>2. Generations'
    BY <1>1, <1>4 DEF IInv, Generations
  <2>3. LiveHasEntry'
    BY <1>1, <1>4 DEF IInv, LiveHasEntry
  <2> QED
    BY <2>1, <2>2, <2>3 DEF IInv
<1>5. CASE /\ live[e.id] = e.seq /\ heap' = (heap \ {e}) \cup {again}
           /\ beat' = [beat EXCEPT ![e.id] = ~@] /\ UNCHANGED live
  <2>1. TypeOK'
    <3>1. heap' \subseteq EntryType
      BY <1>1, <1>2, <1>5
    <3>2. beat' \in [Targets -> BOOLEAN]
      BY <1>1, <1>5
    <3> QED
      BY <1>1, <1>5, <3>1, <3>2 DEF IInv, TypeOK, EntryType
  <2>2. Generations'
    BY <1>1, <1>2, <1>5 DEF IInv, Generations
  <2>3. LiveHasEntry'
    BY <1>1, <1>2, <1>5 DEF IInv, LiveHasEntry
  <2> QED
    BY <2>1, <2>2, <2>3 DEF IInv
<1> QED
  BY <1>3, <1>4, <1>5 DEF Drain, again

\* An entry that comes due stays the entry of its generation.
LEMMA ComesDueInv == ASSUME NEW e \in heap PROVE IInv /\ ComesDue(e) => IInv'
<1> SUFFICES ASSUME IInv, ComesDue(e) PROVE IInv'
  OBVIOUS
<1> DEFINE dueNow == [e EXCEPT !.due = TRUE]
<1>1. /\ heap \subseteq EntryType /\ e \in EntryType
      /\ heap' = (heap \ {e}) \cup {dueNow}
      /\ UNCHANGED <<enabled, revoked, cache, refresher, registry, chan, driver, live, next_seq,
                     beat, shutdown, left>>
  BY DEF ComesDue, IInv, TypeOK, EntryType
<1>2. dueNow \in EntryType /\ dueNow.id = e.id /\ dueNow.seq = e.seq
  BY <1>1 DEF EntryType
<1> HIDE DEF dueNow
<1>3. TypeOK'
  BY <1>1, <1>2 DEF IInv, TypeOK, EntryType
<1>4. Generations'
  BY <1>1, <1>2 DEF IInv, Generations
<1>5. LiveHasEntry'
  BY <1>1, <1>2 DEF IInv, LiveHasEntry
<1> QED
  BY <1>3, <1>4, <1>5 DEF IInv

-----------------------------------------------------------------------------
(* Every step keeps the invariant.                                         *)

LEMMA StepInv == IInv /\ [Next]_vars => IInv'
<1> SUFFICES ASSUME IInv, [Next]_vars PROVE IInv'
  OBVIOUS
<1>1. CASE RefresherStep
  BY <1>1, RefresherInv
<1>2. CASE Change \/ Cancel \/ DriverStops
  BY <1>2, OutsideInv
<1>3. CASE ApplyDiff
  BY <1>3, ApplyInv
<1>4. CASE \E e \in heap : Drain(e) \/ ComesDue(e)
  BY <1>4, DrainInv, ComesDueInv
<1>5. CASE UNCHANGED vars
  <2>1. TypeOK'
    BY <1>5 DEF vars, IInv, TypeOK
  <2> QED
    BY <1>5, <2>1, SameSchedule DEF vars, IInv
<1> QED
  BY <1>1, <1>2, <1>3, <1>4, <1>5 DEF Next

LEMMA Invariance == Spec => []IInv
BY InitInv, StepInv, PTL DEF Spec

\* The scheduler's state keeps its types; the channel of diffs never holds more than
\* its bound (REFRESH_CHANNEL_BOUND), whatever the two tasks do.
THEOREM TypeCorrect == Spec => []TypeOK
<1>1. IInv => TypeOK
  BY DEF IInv
<1> QED
  BY <1>1, Invariance, PTL

\* A scheduled target has exactly one heap entry of its current generation, for any
\* number of targets, edits and failed listings (apply_diff, drain_due).
THEOREM OneLiveSafe == Spec => []OneLiveEntry
<1>1. IInv => OneLiveEntry
  <2> SUFFICES ASSUME IInv, NEW t \in Targets, live[t] # 0
               PROVE  Cardinality({e \in heap : e.id = t /\ e.seq = live[t]}) = 1
    BY DEF OneLiveEntry
  <2>1. PICK e \in heap : e.id = t /\ e.seq = live[t]
    BY DEF IInv, LiveHasEntry
  <2>2. {f \in heap : f.id = t /\ f.seq = live[t]} = {e}
    BY <2>1 DEF IInv, Generations
  <2> QED
    BY <2>2, FS_Singleton
<1> QED
  BY <1>1, Invariance, PTL

-----------------------------------------------------------------------------
(* Every step is one of Timers.                                            *)

Timer == [t \in Targets |-> TimerOf(t)]

\* A target that keeps its generation, and the entries of that generation, keeps its
\* timer.
LEMMA SameTimer ==
    ASSUME NEW t \in Targets, live'[t] = live[t],
           \A e : e.id = t /\ e.seq = live[t] => (e \in heap' <=> e \in heap)
    PROVE  TimerOf(t)' = TimerOf(t)
BY DEF TimerOf

\* The timer of a scheduled target tells whether its one entry is due.
LEMMA TimerOfEntry ==
    ASSUME IInv, NEW e \in heap, live[e.id] = e.seq
    PROVE  TimerOf(e.id) = IF e.due THEN "due" ELSE "running"
<1>1. e.id \in Targets /\ e.seq # 0 /\ e.due \in BOOLEAN
  BY DEF IInv, TypeOK, Generations
<1>2. \A f \in heap : f.id = e.id /\ f.seq = live[e.id] => f = e
  BY DEF IInv, Generations
<1> QED
  BY <1>1, <1>2 DEF TimerOf

\* Nothing but the driver's map and heap moves a timer.
LEMMA SameTimers ==
    ASSUME UNCHANGED <<live, heap>> PROVE Timer' = Timer
BY DEF Timer, TimerOf

\* A diff reprograms timers.
LEMMA ApplySimulates ==
    IInv /\ ApplyDiff => \E start, stop \in SUBSET Targets : TM!Program(start, stop)
<1> SUFFICES ASSUME IInv, ApplyDiff
             PROVE  \E start, stop \in SUBSET Targets : TM!Program(start, stop)
  OBVIOUS
<1>1. /\ chan \in Seq(Diffs) /\ chan # <<>> /\ next_seq \in Nat /\ live \in [Targets -> Nat]
      /\ heap \subseteq EntryType /\ next_seq >= 1
      /\ \A e \in heap : e.seq < next_seq
  BY DEF ApplyDiff, IInv, TypeOK, Generations, EntryType
<1>2. PICK diff \in Diffs : diff = Head(chan)
  BY <1>1
<1>3. PICK S \in SUBSET Targets : S = diff.scheduled
  BY DEF Diffs
<1>4. PICK R \in SUBSET Targets : R = diff.removed
  BY DEF Diffs
<1>5. /\ live' = [t \in Targets |-> IF t \in R THEN 0
                                    ELSE IF t \in S THEN SeqOf(t, S) ELSE live[t]]
      /\ heap' = heap \cup {Entry(t, SeqOf(t, S), TRUE) : t \in S}
      /\ driver = "run" /\ UNCHANGED <<driver, beat>>
  BY <1>2, <1>3, <1>4 DEF ApplyDiff
<1>6. \A t \in S : SeqOf(t, S) \in Nat /\ next_seq <= SeqOf(t, S)
  BY <1>1, SeqOfBounds
<1>7. ASSUME NEW t \in Targets, t \in R PROVE TimerOf(t)' = "off"
  BY <1>5, <1>7 DEF TimerOf
<1>8. ASSUME NEW t \in Targets, t \notin R, t \in S PROVE TimerOf(t)' = "running"
  <2>1. live'[t] = SeqOf(t, S)
    BY <1>5, <1>8
  <2>2. live'[t] # 0
    BY <1>1, <1>6, <1>8, <2>1
  <2>3. \A e \in heap' : e.id = t /\ e.seq = live'[t] => ~e.due
    <3> SUFFICES ASSUME NEW e \in heap', e.seq = SeqOf(t, S), e.id = t PROVE ~e.due
      BY <2>1
    <3>1. e \notin heap
      BY <1>1, <1>6, <1>8
    <3> QED
      BY <3>1, <1>5 DEF Entry
  <2> QED
    BY <2>2, <2>3 DEF TimerOf
<1>9. ASSUME NEW t \in Targets, t \notin R, t \notin S PROVE TimerOf(t)' = TimerOf(t)
  <2>1. live'[t] = live[t]
    BY <1>5, <1>9
  <2>2. \A e : e.id = t => (e \in heap' <=> e \in heap)
    BY <1>5, <1>9 DEF Entry
  <2> QED
    BY <2>1, <2>2, SameTimer
<1>10. TM!Program(S, R)
  BY <1>5, <1>7, <1>8, <1>9 DEF TM!Program
<1> QED
  BY <1>10

\* Draining an entry of an older generation moves no timer; draining a current one
\* answers its timer, or switches it off when the target has left the registry.
LEMMA DrainSimulates ==
    ASSUME IInv, NEW e \in heap, Drain(e) PROVE TM!Next \/ UNCHANGED TM!vars
<1>1. /\ e.id \in Targets /\ live \in [Targets -> Nat] /\ e.due /\ e.seq # 0
      /\ driver = "run" /\ UNCHANGED driver
      /\ beat \in [Targets -> BOOLEAN]
      /\ \A f \in heap : f.id = e.id /\ f.seq = e.seq => f = e
  BY DEF Drain, IInv, TypeOK, Generations
<1>2. CASE live[e.id] # e.seq /\ heap' = heap \ {e} /\ UNCHANGED <<live, beat>>
  <2>1. \A t \in Targets : TimerOf(t)' = TimerOf(t)
    <3> TAKE t \in Targets
    <3>1. \A f : f.id = t /\ f.seq = live[t] => (f \in heap' <=> f \in heap)
      BY <1>2
    <3> QED
      BY <1>2, <3>1, SameTimer
  <2> QED
    BY <1>1, <1>2, <2>1 DEF TM!vars
<1>3. CASE /\ live[e.id] = e.seq /\ heap' = heap \ {e}
           /\ live' = [live EXCEPT ![e.id] = 0] /\ UNCHANGED beat
  <2>1. TimerOf(e.id)' = "off"
    BY <1>1, <1>3 DEF TimerOf
  <2>2. ASSUME NEW t \in Targets, t # e.id PROVE TimerOf(t)' = TimerOf(t)
    <3>1. live'[t] = live[t]
      BY <1>1, <1>3, <2>2
    <3>2. \A f : f.id = t /\ f.seq = live[t] => (f \in heap' <=> f \in heap)
      BY <1>3, <2>2
    <3> QED
      BY <3>1, <3>2, SameTimer
  <2>3. TM!Program({}, {e.id})
    BY <1>1, <1>3, <2>1, <2>2 DEF TM!Program
  <2>4. {} \in SUBSET Targets /\ {e.id} \in SUBSET Targets
    BY <1>1
  <2> QED
    BY <2>3, <2>4 DEF TM!Next
<1>4. CASE /\ live[e.id] = e.seq
           /\ heap' = (heap \ {e}) \cup {Entry(e.id, e.seq, FALSE)}
           /\ beat' = [beat EXCEPT ![e.id] = ~@] /\ UNCHANGED live
  <2>1. TimerOf(e.id) = "due"
    BY <1>1, <1>4, TimerOfEntry
  <2>2. TimerOf(e.id)' = "running"
    <3>1. live'[e.id] = e.seq /\ live'[e.id] # 0
      BY <1>1, <1>4
    <3>2. \A f \in heap' : f.id = e.id /\ f.seq = e.seq => ~f.due
      BY <1>1, <1>4 DEF Entry
    <3> QED
      BY <3>1, <3>2 DEF TimerOf
  <2>3. ASSUME NEW t \in Targets, t # e.id PROVE TimerOf(t)' = TimerOf(t)
    <3>1. live'[t] = live[t]
      BY <1>4
    <3>2. \A f : f.id = t /\ f.seq = live[t] => (f \in heap' <=> f \in heap)
      BY <1>4, <2>3 DEF Entry
    <3> QED
      BY <3>1, <3>2, SameTimer
  <2>4. TM!Fire(e.id)
    <3>1. [t \in Targets |-> TimerOf(t)]' = [[t \in Targets |-> TimerOf(t)] EXCEPT ![e.id] = "running"]
      BY <1>1, <2>2, <2>3
    <3> QED
      BY <1>1, <1>4, <2>1, <3>1 DEF TM!Fire
  <2> QED
    BY <1>1, <2>4 DEF TM!Next
<1> QED
  BY <1>2, <1>3, <1>4 DEF Drain

\* An entry of the current generation that comes due elapses its timer; another one
\* moves no timer.
LEMMA ComesDueSimulates ==
    ASSUME IInv, NEW e \in heap, ComesDue(e) PROVE TM!Next \/ UNCHANGED TM!vars
<1> DEFINE dueNow == [e EXCEPT !.due = TRUE]
<1>1. /\ e.id \in Targets /\ live \in [Targets -> Nat] /\ e \in EntryType /\ e.seq # 0 /\ ~e.due
      /\ heap' = (heap \ {e}) \cup {dueNow}
      /\ UNCHANGED <<driver, beat, live>>
  BY DEF ComesDue, IInv, TypeOK, Generations, EntryType
<1>2. dueNow.id = e.id /\ dueNow.seq = e.seq /\ dueNow.due
  BY <1>1 DEF EntryType
<1> HIDE DEF dueNow
<1>3. ASSUME NEW t \in Targets, t # e.id \/ live[e.id] # e.seq PROVE TimerOf(t)' = TimerOf(t)
  <2>1. \A f : f.id = t /\ f.seq = live[t] => (f \in heap' <=> f \in heap)
    BY <1>1, <1>2, <1>3
  <2> QED
    BY <1>1, <2>1, SameTimer
<1>4. CASE live[e.id] # e.seq
  <2>1. \A t \in Targets : TimerOf(t)' = TimerOf(t)
    BY <1>3, <1>4
  <2> QED
    BY <1>1, <2>1 DEF TM!vars
<1>5. CASE live[e.id] = e.seq
  <2>1. TimerOf(e.id) = "running"
    BY <1>1, <1>5, TimerOfEntry
  <2>2. TimerOf(e.id)' = "due"
    <3>1. dueNow \in heap' /\ live'[e.id] = e.seq /\ live'[e.id] # 0
      BY <1>1, <1>5
    <3> QED
      BY <1>2, <3>1 DEF TimerOf
  <2>3. [t \in Targets |-> TimerOf(t)]' = [[t \in Targets |-> TimerOf(t)] EXCEPT ![e.id] = "due"]
    BY <1>1, <1>3, <2>2
  <2>4. TM!Elapse(e.id)
    BY <1>1, <2>1, <2>3 DEF TM!Elapse
  <2> QED
    BY <1>1, <2>4 DEF TM!Next
<1> QED
  BY <1>4, <1>5

\* The other steps move no timer; the driver's first sight of the shutdown is Stop.
LEMMA OtherSimulates ==
    ASSUME IInv, RefresherStep \/ Change \/ Cancel \/ DriverStops \/ UNCHANGED vars
    PROVE  TM!Next \/ UNCHANGED TM!vars
<1>1. UNCHANGED <<live, heap, beat>>
  BY RefresherInv, OutsideInv DEF vars
<1>2. [t \in Targets |-> TimerOf(t)]' = [t \in Targets |-> TimerOf(t)]
  BY <1>1, SameTimers DEF Timer
<1>3. CASE UNCHANGED driver
  BY <1>1, <1>2, <1>3 DEF TM!vars
<1>4. CASE ~UNCHANGED driver
  <2>1. DriverStops
    BY <1>4, RefresherInv DEF Change, Cancel, vars
  <2>2. driver' # "run"
    BY <2>1 DEF DriverStops
  <2>3. TM!Stop
    BY <1>1, <1>2, <2>2 DEF TM!Stop
  <2> QED
    BY <2>3 DEF TM!Next
<1> QED
  BY <1>3, <1>4

\* The scheduler implements Timers: no step of the refresher or of the driver, and no
\* entry an earlier schedule left in the heap, ever moves a timer, probes a target or
\* starts a schedule in another way than Timers allows (apply_diff, drain_due).
THEOREM ImplementsTimers == Spec => TM!Spec
<1>1. Init => TM!Init
  BY SchedulerAssumption DEF Init, TM!Init, TimerOf, Nothing
<1>2. IInv /\ [Next]_vars => [TM!Next]_(TM!vars)
  <2> SUFFICES ASSUME IInv, [Next]_vars PROVE TM!Next \/ UNCHANGED TM!vars
    OBVIOUS
  <2>1. CASE ApplyDiff
    BY <2>1, ApplySimulates DEF TM!Next
  <2>2. CASE \E e \in heap : Drain(e) \/ ComesDue(e)
    BY <2>2, DrainSimulates, ComesDueSimulates
  <2>3. CASE RefresherStep \/ Change \/ Cancel \/ DriverStops \/ UNCHANGED vars
    BY <2>3, OtherSimulates
  <2> QED
    BY <2>1, <2>2, <2>3 DEF Next
<1> QED
  BY <1>1, <1>2, Invariance, PTL DEF Spec, TM!Spec
=============================================================================
