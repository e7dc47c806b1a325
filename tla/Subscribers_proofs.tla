------------------------ MODULE Subscribers_proofs --------------------------
(***************************************************************************)
(* Proofs about Subscribers: the types, with the bound on the attempts a   *)
(* delivery row counts, and that an update arrives twice only after a      *)
(* takeover.                                                               *)
(***************************************************************************)
EXTENDS Subscribers, TLAPS, FiniteSetTheorems

-----------------------------------------------------------------------------
(* The inductive invariant.                                                *)

RowType == [status : {"none", "queued", "sent", "failed"}, attempts : Nat, orphan : BOOLEAN]
TickType == [at : {"idle", "claim"}, todo : SUBSET Deliveries,
             jobs : [Deliveries -> {"none", "claimed", "ok", "err"}]]
HistoryType == [arrived : Nat, excused : Nat]

\* The types, without the bound on the attempts.
Typed ==
    /\ sub \in [Subs -> {"pending", "verified", "gone"}]
    /\ before \in [Subs -> SUBSET Updates]
    /\ page \in [public : BOOLEAN, published : BOOLEAN, held : BOOLEAN]
    /\ posted \subseteq Updates /\ old \subseteq posted
    /\ log \in [Deliveries -> RowType]
    /\ tick \in [Replicas -> TickType]
    /\ history \in [Deliveries -> HistoryType]
    /\ left \in [edits : 0..MaxEdits, faults : 0..MaxFaults]

Gone(d) == sub[d[1]] = "gone"

\* The replicas with a job on a delivery, and those of them whose job has not
\* reached the subscriber.
Holders(d) == {r \in Replicas : tick[r].jobs[d] # "none"}
Unarrived(d) == {r \in Replicas : tick[r].jobs[d] \in {"claimed", "err"}}

\* The faults so far: each may have left a job without a claim of its own.
Used == MaxFaults - left.faults

\* The job that holds the claim now.  Of a deleted row nothing is known.
Claimed(d) == IF (log[d].status = "queued" /\ ~log[d].orphan) \/ Gone(d) THEN 1 ELSE 0

\* The delivery may be claimed again without a takeover.
MayClaim(d) ==
    \/ log[d].status = "failed"
    \/ /\ log[d].status = "none" /\ ~Gone(d)
       /\ d[2] \notin old \/ \E r \in Replicas : d \in tick[r].todo
Again(d) == IF MayClaim(d) THEN 1 ELSE 0

\* At most one job per fault works without holding the claim.
JobsBounded(d) ==
    /\ IsFiniteSet(Holders(d))
    /\ Cardinality(Holders(d)) <= Used + Claimed(d)
    /\ log[d].status = "none" /\ ~Gone(d) => Holders(d) = {}

\* Every job may still add one attempt.
AttemptsBounded(d) ==
    /\ log[d].status = "none" => log[d].attempts = 0
    /\ log[d].status = "queued" => log[d].attempts < MaxAttempts
    /\ log[d].attempts + Cardinality(Holders(d)) <= MaxAttempts + Used

\* Every job that has not arrived, and the next claim, may still add one arrival.
ArrivalsBounded(d) ==
    history[d].arrived + Cardinality(Unarrived(d)) + Again(d) <= 1 + history[d].excused

Bounded(d) == JobsBounded(d) /\ AttemptsBounded(d) /\ ArrivalsBounded(d)

IInv == Typed /\ \A d \in Deliveries : Bounded(d)

-----------------------------------------------------------------------------
(* Facts about the parts.                                                  *)

LEMMA Numbers ==
    ASSUME Typed, NEW d \in Deliveries
    PROVE  /\ Used \in 0..MaxFaults /\ Claimed(d) \in 0..1 /\ Again(d) \in 0..1
           /\ log[d] \in RowType /\ log[d].attempts \in Nat
           /\ history[d].arrived \in Nat /\ history[d].excused \in Nat
           /\ history[d] \in HistoryType
           /\ MaxAttempts \in Nat /\ MaxAttempts >= 1 /\ MaxFaults \in Nat
BY SubscribersAssumption DEF Typed, Used, Claimed, Again, RowType, HistoryType

\* Finitely many jobs, and their counts.
LEMMA Counts ==
    ASSUME NEW d \in Deliveries, IsFiniteSet(Holders(d))
    PROVE  /\ Unarrived(d) \subseteq Holders(d) /\ IsFiniteSet(Unarrived(d))
           /\ Cardinality(Holders(d)) \in Nat /\ Cardinality(Unarrived(d)) \in Nat
<1>1. Unarrived(d) \subseteq Holders(d)
  BY DEF Unarrived, Holders
<1>2. IsFiniteSet(Unarrived(d))
  BY <1>1, FS_Subset
<1> QED
  BY <1>1, <1>2, FS_CardinalityType

\* A job more, or one fewer.
LEMMA AddOne ==
    ASSUME NEW S, IsFiniteSet(S), NEW x
    PROVE  /\ IsFiniteSet(S \cup {x}) /\ Cardinality(S \cup {x}) \in Nat
           /\ Cardinality(S \cup {x}) <= Cardinality(S) + 1
<1>1. /\ IsFiniteSet(S \cup {x})
      /\ Cardinality(S \cup {x}) = IF x \in S THEN Cardinality(S) ELSE Cardinality(S) + 1
  BY FS_AddElement
<1>2. Cardinality(S) \in Nat /\ Cardinality(S \cup {x}) \in Nat
  BY <1>1, FS_CardinalityType
<1> QED
  BY <1>1, <1>2

LEMMA RemoveOne ==
    ASSUME NEW S, IsFiniteSet(S), NEW x \in S
    PROVE  /\ IsFiniteSet(S \ {x}) /\ Cardinality(S \ {x}) \in Nat
           /\ Cardinality(S \ {x}) = Cardinality(S) - 1
<1>1. /\ IsFiniteSet(S \ {x})
      /\ Cardinality(S \ {x}) = IF x \in S THEN Cardinality(S) - 1 ELSE Cardinality(S)
  BY FS_RemoveElement
<1>2. Cardinality(S \ {x}) \in Nat
  BY <1>1, FS_CardinalityType
<1> QED
  BY <1>1, <1>2

\* The invariants imply the properties.
LEMMA Implies == IInv => TypeOK /\ DuplicatesExplained
<1> SUFFICES ASSUME IInv PROVE TypeOK /\ DuplicatesExplained
  OBVIOUS
<1>1. ASSUME NEW d \in Deliveries
      PROVE  /\ log[d].attempts \in 0..(MaxAttempts + MaxFaults)
             /\ history[d].arrived <= 1 + history[d].excused
  BY Numbers, Counts DEF IInv, Bounded, JobsBounded, AttemptsBounded, ArrivalsBounded
<1>2. log \in [Deliveries -> [status : {"none", "queued", "sent", "failed"},
                              attempts : 0..(MaxAttempts + MaxFaults), orphan : BOOLEAN]]
  <2>1. log \in [Deliveries -> RowType]
    BY DEF IInv, Typed
  <2>2. \A d \in Deliveries : log[d] \in
           [status : {"none", "queued", "sent", "failed"},
            attempts : 0..(MaxAttempts + MaxFaults), orphan : BOOLEAN]
    BY <1>1, <2>1 DEF RowType
  <2> QED
    BY <2>1, <2>2
<1> QED
  BY <1>1, <1>2 DEF IInv, Typed, TypeOK, DuplicatesExplained, TickType, HistoryType

\* The initial state.
LEMMA InitInv == Init => IInv
<1> SUFFICES ASSUME Init PROVE IInv
  OBVIOUS
<1>1. NoTick \in TickType /\ NoRow \in RowType
  BY DEF NoTick, TickType, NoRow, RowType
<1>2. Typed
  <2>1. left \in [edits : 0..MaxEdits, faults : 0..MaxFaults]
    BY SubscribersAssumption DEF Init
  <2> QED
    BY <1>1, <2>1 DEF Init, Typed, HistoryType
<1>3. ASSUME NEW d \in Deliveries PROVE Bounded(d)
  <2>1. Holders(d) = {} /\ Unarrived(d) = {}
    BY DEF Init, NoTick, Holders, Unarrived
  <2>2. IsFiniteSet(Holders(d)) /\ Cardinality(Holders(d)) = 0 /\ Cardinality(Unarrived(d)) = 0
    BY <2>1, FS_EmptySet
  <2>3. log[d].status = "none" /\ log[d].attempts = 0 /\ history[d].arrived = 0
        /\ history[d].excused = 0
    BY DEF Init, NoRow
  <2> QED
    BY <1>2, <2>1, <2>2, <2>3, Numbers
       DEF Bounded, JobsBounded, AttemptsBounded, ArrivalsBounded
<1> QED
  BY <1>2, <1>3 DEF IInv

-----------------------------------------------------------------------------
(* Deliveries a step leaves alone.                                         *)

\* A step that keeps a delivery's row and history, starts no job on it and lists it
\* only while its update is young keeps its bounds.
LEMMA Frame ==
    ASSUME IInv, Typed', NEW d \in Deliveries,
           log'[d] = log[d], history'[d] = history[d],
           Gone(d) => Gone(d)',
           left'.faults <= left.faults,
           old \subseteq old',
           \A r \in Replicas : tick'[r].jobs[d] \in {tick[r].jobs[d], "none"},
           \A r \in Replicas : d \in tick'[r].todo => d \in tick[r].todo \/ d[2] \notin old'
    PROVE  Bounded(d)'
<1>1. Bounded(d) /\ Typed
  BY DEF IInv
<1>2. Holders(d)' \subseteq Holders(d) /\ Unarrived(d)' \subseteq Unarrived(d)
  BY DEF Holders, Unarrived
<1>3. IsFiniteSet(Holders(d)) /\ IsFiniteSet(Unarrived(d))
      /\ Cardinality(Holders(d)) \in Nat /\ Cardinality(Unarrived(d)) \in Nat
  BY <1>1, Counts DEF Bounded, JobsBounded
<1>4. /\ IsFiniteSet(Holders(d)') /\ Cardinality(Holders(d)') \in Nat
      /\ Cardinality(Holders(d)') <= Cardinality(Holders(d))
      /\ Cardinality(Unarrived(d)') \in Nat
      /\ Cardinality(Unarrived(d)') <= Cardinality(Unarrived(d))
  BY <1>2, <1>3, FS_Subset, FS_CardinalityType
<1>5. Used <= Used' /\ Used \in Nat /\ Used' \in Nat
  <2>1. left.faults \in 0..MaxFaults /\ left'.faults \in 0..MaxFaults /\ MaxFaults \in Nat
    BY <1>1, SubscribersAssumption DEF Typed
  <2> QED
    BY <2>1 DEF Used
<1>6. Claimed(d) <= Claimed(d)' /\ Claimed(d) \in 0..1 /\ Claimed(d)' \in 0..1
  BY DEF Claimed
<1>7. Again(d)' <= Again(d) /\ Again(d) \in 0..1 /\ Again(d)' \in 0..1
  <2>1. MayClaim(d)' => MayClaim(d)
    BY DEF MayClaim
  <2> QED
    BY <2>1 DEF Again
<1>8. /\ log[d].attempts \in Nat /\ history[d].arrived \in Nat /\ history[d].excused \in Nat
      /\ MaxAttempts \in Nat
  BY <1>1, Numbers
<1>9. JobsBounded(d)'
  <2>1. Cardinality(Holders(d)') <= Used' + Claimed(d)'
    BY <1>1, <1>3, <1>4, <1>5, <1>6 DEF Bounded, JobsBounded
  <2>2. log'[d].status = "none" /\ ~Gone(d)' => Holders(d)' = {}
    BY <1>1, <1>2 DEF Bounded, JobsBounded
  <2> QED
    BY <1>4, <2>1, <2>2 DEF JobsBounded
<1>10. AttemptsBounded(d)'
  <2>1. log[d].attempts + Cardinality(Holders(d)') <= MaxAttempts + Used'
    BY <1>1, <1>3, <1>4, <1>5, <1>8 DEF Bounded, AttemptsBounded
  <2>2. /\ log[d].status = "none" => log[d].attempts = 0
        /\ log[d].status = "queued" => log[d].attempts < MaxAttempts
    BY <1>1 DEF Bounded, AttemptsBounded
  <2> QED
    BY <2>1, <2>2 DEF AttemptsBounded
<1>11. ArrivalsBounded(d)'
  <2>1. history[d].arrived + Cardinality(Unarrived(d)') + Again(d)' <= 1 + history[d].excused
    BY <1>1, <1>3, <1>4, <1>7, <1>8 DEF Bounded, ArrivalsBounded
  <2> QED
    BY <2>1 DEF ArrivalsBounded
<1> QED
  BY <1>9, <1>10, <1>11 DEF Bounded

-----------------------------------------------------------------------------
(* Subscriptions, the incident and the clock.                              *)

\* Confirming, posting, editing and growing old touch no row and no job.
LEMMA QuietInv ==
    ASSUME IInv, \/ \E s \in Subs : Confirm(s)
                 \/ \E u \in Updates : Post(u) \/ Age(u)
                 \/ Edit
                 \/ UNCHANGED vars
    PROVE  IInv'
<1> USE SubscribersAssumption
<1>1. /\ Typed /\ UNCHANGED <<log, tick, history>>
      /\ left.faults \in 0..MaxFaults /\ MaxFaults \in Nat
  BY DEF IInv, Typed, Confirm, Post, Age, Edit, vars
<1>2. left' \in [edits : 0..MaxEdits, faults : 0..MaxFaults] /\ left'.faults = left.faults
  BY <1>1 DEF Typed, Confirm, Post, Age, Edit, vars
<1>3. page' \in [public : BOOLEAN, published : BOOLEAN, held : BOOLEAN]
  BY <1>1 DEF Typed, Confirm, Post, Age, Edit, vars
<1>4. posted' \subseteq Updates /\ old' \subseteq posted' /\ old \subseteq old'
  BY <1>1 DEF Typed, Confirm, Post, Age, Edit, vars
<1>5. /\ sub' \in [Subs -> {"pending", "verified", "gone"}]
      /\ before' \in [Subs -> SUBSET Updates]
      /\ \A s \in Subs : sub[s] = "gone" => sub'[s] = "gone"
  BY <1>1 DEF Typed, Confirm, Post, Age, Edit, vars
<1>6. Typed'
  BY <1>1, <1>2, <1>3, <1>4, <1>5 DEF Typed
<1>7. ASSUME NEW d \in Deliveries PROVE Bounded(d)'
  <2>1. d[1] \in Subs
    BY DEF Deliveries
  <2>2. Gone(d) => Gone(d)'
    BY <1>5, <2>1 DEF Gone
  <2>3. left'.faults <= left.faults
    BY <1>1, <1>2
  <2> QED
    BY <1>1, <1>4, <1>6, <2>2, <2>3, Frame
<1> QED
  BY <1>6, <1>7 DEF IInv

\* An unsubscribe deletes the rows of the subscription; its jobs go on.
LEMMA UnsubscribeInv == ASSUME IInv, NEW s \in Subs, Unsubscribe(s) PROVE IInv'
<1>1. /\ Typed /\ UNCHANGED <<before, page, posted, old, tick, history, left>>
      /\ sub' = [sub EXCEPT ![s] = "gone"]
      /\ log' = [d \in Deliveries |-> IF d[1] = s THEN NoRow ELSE log[d]]
      /\ left.faults \in Int
  BY SubscribersAssumption DEF IInv, Typed, Unsubscribe
<1>2. Typed'
  <2>1. NoRow \in RowType
    BY DEF NoRow, RowType
  <2>2. log' \in [Deliveries -> RowType]
    BY <1>1, <2>1 DEF Typed
  <2>3. sub' \in [Subs -> {"pending", "verified", "gone"}]
    BY <1>1 DEF Typed
  <2> QED
    BY <1>1, <2>2, <2>3 DEF Typed
<1>3. ASSUME NEW d \in Deliveries PROVE Bounded(d)'
  <2>1. d[1] \in Subs
    BY DEF Deliveries
  <2>2. CASE d[1] # s
    <3>1. log'[d] = log[d] /\ (Gone(d) => Gone(d)')
      BY <1>1, <2>1, <2>2 DEF Gone, Typed
    <3> QED
      BY <1>1, <1>2, <3>1, Frame
  <2>3. CASE d[1] = s
    <3>1. log'[d] = NoRow /\ Gone(d)'
      BY <1>1, <2>3 DEF Gone, Typed
    <3>2. Holders(d)' = Holders(d) /\ Unarrived(d)' = Unarrived(d) /\ Used' = Used
      BY <1>1 DEF Holders, Unarrived, Used
    <3>3. /\ log'[d].status = "none" /\ log'[d].attempts = 0
          /\ Claimed(d)' = 1 /\ Again(d)' = 0
      BY <3>1 DEF NoRow, Claimed, Again, MayClaim
    <3>4. /\ Bounded(d) /\ Used \in Nat /\ Claimed(d) \in 0..1 /\ Again(d) \in 0..1
          /\ MaxAttempts \in Nat /\ MaxAttempts >= 1
          /\ history[d].arrived \in Nat /\ history[d].excused \in Nat
      BY <1>1, Numbers DEF IInv
    <3>5. Cardinality(Holders(d)) \in Nat /\ Cardinality(Unarrived(d)) \in Nat
      BY <3>4, Counts DEF Bounded, JobsBounded
    <3>6. JobsBounded(d)'
      BY <3>1, <3>2, <3>3, <3>4, <3>5 DEF Bounded, JobsBounded
    <3>7. AttemptsBounded(d)'
      BY <3>2, <3>3, <3>4, <3>5 DEF Bounded, JobsBounded, AttemptsBounded
    <3>8. ArrivalsBounded(d)'
      BY <1>1, <3>2, <3>3, <3>4, <3>5 DEF Bounded, ArrivalsBounded
    <3> QED
      BY <3>6, <3>7, <3>8 DEF Bounded
  <2> QED
    BY <2>2, <2>3
<1> QED
  BY <1>2, <1>3 DEF IInv

\* A claim that passes its age while its job still runs is one of the faults.
LEMMA OrphanInv == ASSUME IInv, NEW c \in Deliveries, Orphan(c) PROVE IInv'
<1>1. /\ Typed /\ UNCHANGED <<sub, before, page, posted, old, tick, history>>
      /\ log' = [log EXCEPT ![c].orphan = TRUE]
      /\ log \in [Deliveries -> RowType] /\ log[c].status = "queued" /\ ~log[c].orphan
  BY DEF IInv, Typed, Orphan
<1>2. /\ left.faults \in 0..MaxFaults /\ MaxFaults \in Nat
      /\ left \in [edits : 0..MaxEdits, faults : 0..MaxFaults]
  BY <1>1, SubscribersAssumption DEF Typed
<1>3. /\ left' \in [edits : 0..MaxEdits, faults : 0..MaxFaults]
      /\ left'.faults <= left.faults /\ left'.faults \in 0..MaxFaults
      /\ Held(c) => left'.faults = left.faults - 1
  <2>1. CASE Held(c)
    <3>1. left' = [left EXCEPT !.faults = left.faults - 1] /\ left.faults > 0
      BY <2>1 DEF Orphan
    <3> QED
      BY <1>2, <3>1
  <2>2. CASE ~Held(c)
    BY <1>2, <2>2 DEF Orphan
  <2> QED
    BY <2>1, <2>2
<1>4. Typed'
  <2>1. log' \in [Deliveries -> RowType]
    BY <1>1 DEF RowType
  <2> QED
    BY <1>1, <1>3, <2>1 DEF Typed
<1>5. ASSUME NEW d \in Deliveries PROVE Bounded(d)'
  <2>1. CASE d # c
    <3>1. log'[d] = log[d] /\ (Gone(d) => Gone(d)')
      BY <1>1, <2>1 DEF Gone
    <3> QED
      BY <1>1, <1>3, <1>4, <3>1, Frame
  <2>2. CASE d = c
    <3>1. /\ log'[d].status = "queued" /\ log'[d].orphan = TRUE /\ log[d].status = "queued"
          /\ log'[d].attempts = log[d].attempts
      BY <1>1, <2>2 DEF RowType
    <3>2. Holders(d)' = Holders(d) /\ Unarrived(d)' = Unarrived(d)
      BY <1>1 DEF Holders, Unarrived
    <3>3. Used <= Used' /\ Used' \in Nat /\ (Holders(d) # {} => Used' = Used + 1)
      <4>1. Holders(d) # {} => Held(c)
        BY <2>2 DEF Holders, Held
      <4> QED
        BY <1>2, <1>3, <4>1 DEF Used
    <3>4. /\ Bounded(d) /\ Used \in Nat /\ Claimed(d) \in 0..1
          /\ Claimed(d)' \in 0..1 /\ Again(d)' = 0 /\ Again(d) = 0
          /\ MaxAttempts \in Nat /\ log[d].attempts \in Nat
          /\ history[d].arrived \in Nat /\ history[d].excused \in Nat
      BY <1>1, <3>1, Numbers DEF IInv, Claimed, Again, MayClaim
    <3>5. Cardinality(Holders(d)) \in Nat /\ Cardinality(Unarrived(d)) \in Nat
      BY <3>4, Counts DEF Bounded, JobsBounded
    <3>6. Holders(d) = {} => Cardinality(Holders(d)) = 0
      BY FS_EmptySet
    <3>7. JobsBounded(d)'
      BY <3>1, <3>2, <3>3, <3>4, <3>5, <3>6 DEF Bounded, JobsBounded
    <3>8. AttemptsBounded(d)'
      BY <3>1, <3>2, <3>3, <3>4, <3>5 DEF Bounded, AttemptsBounded
    <3>9. ArrivalsBounded(d)'
      BY <1>1, <3>2, <3>4, <3>5 DEF Bounded, ArrivalsBounded
    <3> QED
      BY <3>7, <3>8, <3>9 DEF Bounded
  <2> QED
    BY <2>1, <2>2
<1> QED
  BY <1>4, <1>5 DEF IInv

\* A row is purged when no tick lists or works on it, and is too old to be listed.
LEMMA PurgeInv == ASSUME IInv, NEW c \in Deliveries, PurgeOld(c) PROVE IInv'
<1>1. /\ Typed /\ UNCHANGED <<sub, before, page, posted, old, tick, history, left>>
      /\ log' = [log EXCEPT ![c] = NoRow] /\ c[2] \in old
      /\ \A r \in Replicas : c \notin tick[r].todo /\ tick[r].jobs[c] = "none"
      /\ left.faults \in Int
  BY SubscribersAssumption DEF IInv, Typed, PurgeOld
<1>2. Typed'
  <2>1. NoRow \in RowType
    BY DEF NoRow, RowType
  <2> QED
    BY <1>1, <2>1 DEF Typed
<1>3. ASSUME NEW d \in Deliveries PROVE Bounded(d)'
  <2>1. CASE d # c
    <3>1. log'[d] = log[d] /\ (Gone(d) => Gone(d)')
      BY <1>1, <2>1 DEF Gone, Typed
    <3> QED
      BY <1>1, <1>2, <3>1, Frame
  <2>2. CASE d = c
    <3>1. log'[d].status = "none" /\ log'[d].attempts = 0
      BY <1>1, <2>2 DEF NoRow, Typed
    <3>2. Holders(d)' = {} /\ Unarrived(d)' = {} /\ Again(d)' = 0
      BY <1>1, <2>2, <3>1 DEF Holders, Unarrived, Again, MayClaim
    <3>3. Cardinality(Holders(d)') = 0 /\ Cardinality(Unarrived(d)') = 0
          /\ IsFiniteSet(Holders(d)')
      BY <3>2, FS_EmptySet
    <3>4. /\ Used' \in Nat /\ Claimed(d)' \in 0..1 /\ MaxAttempts \in Nat /\ MaxAttempts >= 1
      BY <1>2, Numbers, SubscribersAssumption DEF Typed, Used, Claimed
    <3>5. /\ Bounded(d) /\ Again(d) \in 0..1
          /\ history[d].arrived \in Nat /\ history[d].excused \in Nat
      BY <1>1, Numbers DEF IInv
    <3>6. Cardinality(Unarrived(d)) \in Nat
      BY <3>5, Counts DEF Bounded, JobsBounded
    <3>7. JobsBounded(d)' /\ AttemptsBounded(d)'
      BY <3>1, <3>2, <3>3, <3>4 DEF JobsBounded, AttemptsBounded
    <3>8. ArrivalsBounded(d)'
      BY <1>1, <3>2, <3>3, <3>5, <3>6 DEF Bounded, ArrivalsBounded
    <3> QED
      BY <3>7, <3>8 DEF Bounded
  <2> QED
    BY <2>1, <2>2
<1> QED
  BY <1>2, <1>3 DEF IInv

-----------------------------------------------------------------------------
(* Ticks.                                                                  *)

LEMMA NoTickType ==
    /\ NoTick \in TickType /\ NoTick.todo = {}
    /\ \A d \in Deliveries : NoTick.jobs[d] = "none"
BY DEF NoTick, TickType

\* A tick that starts, ends or crashes drops jobs; it lists only young updates.
LEMMA TickInv ==
    ASSUME IInv, NEW r \in Replicas, ListPending(r) \/ NothingClaimed(r) \/ Crash(r)
    PROVE  IInv'
<1>1. /\ Typed /\ UNCHANGED <<sub, before, page, posted, old, log, history>>
      /\ left.faults \in 0..MaxFaults /\ MaxFaults \in Nat
      /\ tick \in [Replicas -> TickType]
  BY SubscribersAssumption DEF IInv, Typed, ListPending, NothingClaimed, Crash
<1>2. /\ left' \in [edits : 0..MaxEdits, faults : 0..MaxFaults]
      /\ left'.faults <= left.faults
  <2>1. CASE Crash(r)
    <3>1. left' = [left EXCEPT !.faults = left.faults - 1] /\ left.faults > 0
      BY <2>1 DEF Crash
    <3> QED
      BY <1>1, <3>1 DEF Typed
  <2>2. CASE ListPending(r) \/ NothingClaimed(r)
    BY <1>1, <2>2 DEF Typed, ListPending, NothingClaimed
  <2> QED
    BY <2>1, <2>2
<1>3. PICK x \in TickType :
         /\ tick' = [tick EXCEPT ![r] = x]
         /\ \A d \in Deliveries : x.jobs[d] = "none"
         /\ \A d \in x.todo : d[2] \notin old
  <2>1. CASE ListPending(r)
    <3> DEFINE x == [NoTick EXCEPT !.at = "claim",
                                   !.todo = {d \in Deliveries : list_pending(d)}]
    <3>1. tick' = [tick EXCEPT ![r] = x]
      BY <2>1 DEF ListPending
    <3>2. x \in TickType /\ \A d \in Deliveries : x.jobs[d] = "none"
      BY NoTickType DEF TickType
    <3>3. \A d \in x.todo : d[2] \notin old
      BY NoTickType DEF TickType, list_pending
    <3> QED
      BY <3>1, <3>2, <3>3
  <2>2. CASE NothingClaimed(r) \/ Crash(r)
    BY <2>2, NoTickType DEF NothingClaimed, Crash
  <2> QED
    BY <2>1, <2>2
<1>4. Typed'
  <2>1. tick' \in [Replicas -> TickType]
    BY <1>1, <1>3
  <2> QED
    BY <1>1, <1>2, <2>1 DEF Typed
<1>5. ASSUME NEW d \in Deliveries PROVE Bounded(d)'
  <2>1. \A q \in Replicas : tick'[q].jobs[d] \in {tick[q].jobs[d], "none"}
    BY <1>1, <1>3
  <2>2. \A q \in Replicas : d \in tick'[q].todo => d \in tick[q].todo \/ d[2] \notin old'
    BY <1>1, <1>3
  <2>3. Gone(d) => Gone(d)'
    BY <1>1 DEF Gone
  <2> QED
    BY <1>1, <1>2, <1>4, <2>1, <2>2, <2>3, Frame
<1> QED
  BY <1>4, <1>5 DEF IInv

\* A claim on a delivery starts one job.
LEMMA ClaimInv == ASSUME IInv, NEW r \in Replicas, Claim(r) PROVE IInv'
<1>1. /\ Typed /\ UNCHANGED <<sub, before, page, posted, old, left>>
      /\ left.faults \in Int /\ tick \in [Replicas -> TickType] /\ tick[r] \in TickType
      /\ log \in [Deliveries -> RowType] /\ history \in [Deliveries -> HistoryType]
  BY SubscribersAssumption DEF IInv, Typed, Claim
<1>2. PICK c \in tick[r].todo :
          \/ /\ sub[c[1]] = "gone"
             /\ tick' = [tick EXCEPT ![r] = NoTick]
             /\ UNCHANGED <<log, history>>
          \/ /\ sub[c[1]] # "gone" /\ Claimable(c)
             /\ tick' = [tick EXCEPT ![r] =
                            [[tick[r] EXCEPT !.todo = @ \ {c}] EXCEPT !.jobs[c] = "claimed"]]
             /\ log' = [log EXCEPT ![c].status = "queued", ![c].orphan = FALSE]
             /\ history' = [history EXCEPT ![c].excused =
                               IF log[c].status = "queued" THEN @ + 1 ELSE @]
          \/ /\ sub[c[1]] # "gone" /\ ~Claimable(c)
             /\ tick' = [tick EXCEPT ![r] = [tick[r] EXCEPT !.todo = @ \ {c}]]
             /\ UNCHANGED <<log, history>>
  BY DEF Claim
<1>3. c \in Deliveries
  BY <1>1 DEF TickType
<1>4. \A d \in Deliveries : Gone(d) <=> Gone(d)'
  BY <1>1 DEF Gone
<1>5. CASE UNCHANGED <<log, history>>
           /\ (\/ tick' = [tick EXCEPT ![r] = NoTick]
               \/ tick' = [tick EXCEPT ![r] = [tick[r] EXCEPT !.todo = @ \ {c}]])
  <2>1. PICK x \in TickType :
           /\ tick' = [tick EXCEPT ![r] = x]
           /\ \A d \in Deliveries : x.jobs[d] \in {tick[r].jobs[d], "none"}
           /\ x.todo \subseteq tick[r].todo
    <3>1. CASE tick' = [tick EXCEPT ![r] = NoTick]
      BY <3>1, NoTickType
    <3>2. CASE tick' = [tick EXCEPT ![r] = [tick[r] EXCEPT !.todo = @ \ {c}]]
      <4>1. [tick[r] EXCEPT !.todo = @ \ {c}] \in TickType
        BY <1>1 DEF TickType
      <4> QED
        BY <1>1, <3>2, <4>1 DEF TickType
    <3> QED
      BY <1>5, <3>1, <3>2
  <2>2. Typed'
    <3>1. tick' \in [Replicas -> TickType]
      BY <1>1, <2>1
    <3> QED
      BY <1>1, <1>5, <3>1 DEF Typed
  <2>3. ASSUME NEW d \in Deliveries PROVE Bounded(d)'
    <3>1. \A q \in Replicas : tick'[q].jobs[d] \in {tick[q].jobs[d], "none"}
      BY <1>1, <2>1
    <3>2. \A q \in Replicas : d \in tick'[q].todo => d \in tick[q].todo \/ d[2] \notin old'
      BY <1>1, <2>1
    <3> QED
      BY <1>1, <1>4, <1>5, <2>2, <3>1, <3>2, Frame
  <2> QED
    BY <2>2, <2>3 DEF IInv
<1>6. CASE /\ sub[c[1]] # "gone" /\ Claimable(c)
           /\ tick' = [tick EXCEPT ![r] =
                          [[tick[r] EXCEPT !.todo = @ \ {c}] EXCEPT !.jobs[c] = "claimed"]]
           /\ log' = [log EXCEPT ![c].status = "queued", ![c].orphan = FALSE]
           /\ history' = [history EXCEPT ![c].excused =
                             IF log[c].status = "queued" THEN @ + 1 ELSE @]
  <2>1. PICK x \in TickType :
           /\ tick' = [tick EXCEPT ![r] = x]
           /\ x.jobs = [tick[r].jobs EXCEPT ![c] = "claimed"]
           /\ x.todo \subseteq tick[r].todo
    <3> DEFINE x == [[tick[r] EXCEPT !.todo = @ \ {c}] EXCEPT !.jobs[c] = "claimed"]
    <3>1. x \in TickType /\ x.jobs = [tick[r].jobs EXCEPT ![c] = "claimed"]
          /\ x.todo \subseteq tick[r].todo
      BY <1>1, <1>3 DEF TickType
    <3> QED
      BY <1>6, <3>1
  <2>2. PICK n \in Nat : n = IF log[c].status = "queued" THEN history[c].excused + 1
                             ELSE history[c].excused
    BY <1>1, <1>3 DEF HistoryType
  <2>3. history' = [history EXCEPT ![c] = [history[c] EXCEPT !.excused = n]]
    BY <1>1, <1>3, <1>6, <2>2 DEF HistoryType
  <2>4. Typed'
    <3>1. tick' \in [Replicas -> TickType]
      BY <1>1, <2>1
    <3>2. log' \in [Deliveries -> RowType]
      BY <1>1, <1>3, <1>6 DEF RowType
    <3>3. history' \in [Deliveries -> HistoryType]
      <4>1. [history[c] EXCEPT !.excused = n] \in HistoryType
        BY <1>1, <1>3, <2>2 DEF HistoryType
      <4> QED
        BY <1>1, <2>3, <4>1
    <3> QED
      BY <1>1, <3>1, <3>2, <3>3 DEF Typed
  <2>5. ASSUME NEW d \in Deliveries, d # c PROVE Bounded(d)'
    <3>1. \A q \in Replicas : tick'[q].jobs[d] \in {tick[q].jobs[d], "none"}
      BY <1>1, <2>1, <2>5 DEF TickType
    <3>2. \A q \in Replicas : d \in tick'[q].todo => d \in tick[q].todo \/ d[2] \notin old'
      BY <1>1, <2>1
    <3>3. log'[d] = log[d] /\ history'[d] = history[d]
      BY <1>1, <1>6, <2>3, <2>5
    <3> QED
      BY <1>1, <1>4, <2>4, <3>1, <3>2, <3>3, Frame
  <2>6. Bounded(c)'
    <3>1. /\ log'[c].status = "queued" /\ log'[c].orphan = FALSE
          /\ log'[c].attempts = log[c].attempts
          /\ history'[c].arrived = history[c].arrived /\ history'[c].excused = n
      BY <1>1, <1>3, <1>6, <2>3 DEF RowType, HistoryType
    <3>2. /\ Holders(c)' = Holders(c) \cup {r} /\ Unarrived(c)' = Unarrived(c) \cup {r}
          /\ Used' = Used
      <4>1. tick'[r].jobs[c] = "claimed" /\ \A q \in Replicas \ {r} : tick'[q] = tick[q]
        BY <1>1, <1>3, <2>1 DEF TickType
      <4> QED
        BY <1>1, <4>1 DEF Holders, Unarrived, Used
    <3>3. /\ Bounded(c) /\ Used \in Nat /\ Claimed(c) \in 0..1 /\ Again(c) \in 0..1
          /\ MaxAttempts \in Nat /\ MaxAttempts >= 1 /\ log[c].attempts \in Nat
          /\ history[c].arrived \in Nat /\ history[c].excused \in Nat
      BY <1>1, <1>3, Numbers DEF IInv
    <3>4. /\ IsFiniteSet(Holders(c)) /\ Cardinality(Holders(c)) \in Nat
          /\ IsFiniteSet(Unarrived(c)) /\ Cardinality(Unarrived(c)) \in Nat
      BY <1>3, <3>3, Counts DEF Bounded, JobsBounded
    <3>5. /\ IsFiniteSet(Holders(c)') /\ Cardinality(Holders(c)') \in Nat
          /\ Cardinality(Holders(c)') <= Cardinality(Holders(c)) + 1
          /\ Cardinality(Unarrived(c)') \in Nat
          /\ Cardinality(Unarrived(c)') <= Cardinality(Unarrived(c)) + 1
      BY <3>2, <3>4, AddOne
    <3>6. Claimed(c)' = 1 /\ Again(c)' = 0 /\ Claimed(c) = 0
      BY <1>6, <3>1 DEF Claimed, Again, MayClaim, Gone, Claimable
    <3>7. Cardinality(Holders(c)) <= Used /\ log[c].attempts < MaxAttempts
      <4>1. Cardinality(Holders(c)) <= Used
        BY <3>3, <3>6 DEF Bounded, JobsBounded
      <4>2. CASE log[c].status = "none"
        <5>1. log[c].attempts = 0
          BY <4>2, <3>3 DEF Bounded, AttemptsBounded
        <5> QED
          BY <4>1, <5>1, <3>3
      <4>3. CASE log[c].status # "none"
        BY <1>6, <3>3, <4>1, <4>3 DEF Claimable, Bounded, AttemptsBounded
      <4> QED
        BY <4>2, <4>3
    <3>8. JobsBounded(c)'
      BY <3>1, <3>2, <3>3, <3>4, <3>5, <3>6, <3>7 DEF JobsBounded
    <3>9. AttemptsBounded(c)'
      BY <3>1, <3>2, <3>3, <3>4, <3>5, <3>7 DEF AttemptsBounded
    <3>10. history[c].excused + 1 - Again(c) <= n
      <4>1. CASE log[c].status = "queued"
        BY <2>2, <3>3, <4>1
      <4>2. CASE log[c].status # "queued"
        <5>1. MayClaim(c)
          BY <1>6, <4>2 DEF Claimable, MayClaim, Gone
        <5> QED
          BY <2>2, <3>3, <4>2, <5>1 DEF Again
      <4> QED
        BY <4>1, <4>2
    <3>11. ArrivalsBounded(c)'
      <4>1. history[c].arrived + Cardinality(Unarrived(c)') + 0 <= 1 + n
        BY <2>2, <3>3, <3>4, <3>5, <3>10 DEF Bounded, ArrivalsBounded
      <4> QED
        BY <3>1, <3>6, <4>1 DEF ArrivalsBounded
    <3> QED
      BY <3>8, <3>9, <3>11 DEF Bounded
  <2> QED
    BY <2>4, <2>5, <2>6 DEF IInv
<1> QED
  BY <1>2, <1>5, <1>6

\* A send ends, and counts an arrival or not.
LEMMA SendInv == ASSUME IInv, NEW r \in Replicas, NEW c \in Deliveries, Send(r, c) PROVE IInv'
<1>1. /\ Typed /\ UNCHANGED <<sub, before, page, posted, old, log, left>>
      /\ left.faults \in Int /\ tick \in [Replicas -> TickType] /\ tick[r] \in TickType
      /\ history \in [Deliveries -> HistoryType] /\ history[c] \in HistoryType
      /\ tick[r].jobs[c] = "claimed"
  BY SubscribersAssumption DEF IInv, Typed, Send
<1>2. PICK got \in BOOLEAN, ok \in BOOLEAN :
         /\ ok => got
         /\ tick' = [tick EXCEPT ![r].jobs[c] = IF ok THEN "ok" ELSE "err"]
         /\ history' = [history EXCEPT ![c].arrived = IF got THEN @ + 1 ELSE @,
                                       ![c].excused = IF got /\ ~ok THEN @ + 1 ELSE @]
  BY DEF Send
<1>3. PICK x \in TickType :
         /\ tick' = [tick EXCEPT ![r] = x]
         /\ x.jobs = [tick[r].jobs EXCEPT ![c] = IF ok THEN "ok" ELSE "err"]
         /\ x.todo = tick[r].todo
  <2> DEFINE x == [tick[r] EXCEPT !.jobs[c] = IF ok THEN "ok" ELSE "err"]
  <2>1. x \in TickType
    BY <1>1 DEF TickType
  <2>2. tick' = [tick EXCEPT ![r] = x]
    BY <1>1, <1>2
  <2>3. x.jobs = [tick[r].jobs EXCEPT ![c] = IF ok THEN "ok" ELSE "err"]
        /\ x.todo = tick[r].todo
    BY <1>1 DEF TickType
  <2> QED
    BY <2>1, <2>2, <2>3
<1>4. PICK h \in HistoryType :
         /\ history' = [history EXCEPT ![c] = h]
         /\ h.arrived = (IF got THEN history[c].arrived + 1 ELSE history[c].arrived)
         /\ h.excused = (IF got /\ ~ok THEN history[c].excused + 1 ELSE history[c].excused)
  <2> DEFINE h == [history[c] EXCEPT !.arrived = IF got THEN @ + 1 ELSE @,
                                     !.excused = IF got /\ ~ok THEN @ + 1 ELSE @]
  <2>1. h \in HistoryType
    <3>1. /\ (IF got THEN history[c].arrived + 1 ELSE history[c].arrived) \in Nat
          /\ (IF got /\ ~ok THEN history[c].excused + 1 ELSE history[c].excused) \in Nat
      BY <1>1 DEF HistoryType
    <3> QED
      BY <1>1, <3>1 DEF HistoryType
  <2>2. history' = [history EXCEPT ![c] = h]
    BY <1>1, <1>2 DEF HistoryType
  <2>3. /\ h.arrived = (IF got THEN history[c].arrived + 1 ELSE history[c].arrived)
        /\ h.excused = (IF got /\ ~ok THEN history[c].excused + 1 ELSE history[c].excused)
    BY <1>1 DEF HistoryType
  <2> QED
    BY <2>1, <2>2, <2>3
<1>5. Typed'
  <2>1. tick' \in [Replicas -> TickType] /\ history' \in [Deliveries -> HistoryType]
    BY <1>1, <1>3, <1>4
  <2> QED
    BY <1>1, <2>1 DEF Typed
<1>6. ASSUME NEW d \in Deliveries, d # c PROVE Bounded(d)'
  <2>1. \A q \in Replicas : tick'[q].jobs[d] \in {tick[q].jobs[d], "none"}
    BY <1>1, <1>3, <1>6 DEF TickType
  <2>2. \A q \in Replicas : d \in tick'[q].todo => d \in tick[q].todo \/ d[2] \notin old'
    BY <1>1, <1>3
  <2>3. history'[d] = history[d] /\ log'[d] = log[d] /\ (Gone(d) => Gone(d)')
    BY <1>1, <1>4, <1>6 DEF Gone
  <2> QED
    BY <1>1, <1>5, <2>1, <2>2, <2>3, Frame
<1>7. Bounded(c)'
  <2>1. /\ tick'[r].jobs[c] = (IF ok THEN "ok" ELSE "err")
        /\ \A q \in Replicas : tick'[q].todo = tick[q].todo
        /\ \A q \in Replicas \ {r} : tick'[q] = tick[q]
    BY <1>1, <1>3 DEF TickType
  <2>2. Holders(c)' = Holders(c) /\ Used' = Used
    BY <1>1, <2>1 DEF Holders, Used
  <2>3. Claimed(c)' = Claimed(c) /\ Again(c)' = Again(c) /\ Gone(c)' = Gone(c)
    BY <1>1, <2>1 DEF Claimed, Again, MayClaim, Gone
  <2>4. /\ Bounded(c) /\ Again(c) \in 0..1 /\ history[c].arrived \in Nat
        /\ history[c].excused \in Nat
    BY <1>1, Numbers DEF IInv
  <2>5. /\ IsFiniteSet(Unarrived(c)) /\ Cardinality(Unarrived(c)) \in Nat
    BY <2>4, Counts DEF Bounded, JobsBounded
  <2>6. JobsBounded(c)' /\ AttemptsBounded(c)'
    BY <1>1, <2>2, <2>3, <2>4 DEF Bounded, JobsBounded, AttemptsBounded
  <2>7. history'[c].arrived = h.arrived /\ history'[c].excused = h.excused
    BY <1>1, <1>4
  <2>8. CASE ok
    <3>1. Unarrived(c)' = Unarrived(c) \ {r} /\ r \in Unarrived(c)
      BY <1>1, <2>1, <2>8 DEF Unarrived
    <3>2. Cardinality(Unarrived(c)') = Cardinality(Unarrived(c)) - 1
      BY <2>5, <3>1, RemoveOne
    <3>3. history[c].arrived + 1 + Cardinality(Unarrived(c)') + Again(c)
             <= 1 + history[c].excused
      BY <2>4, <2>5, <3>2 DEF Bounded, ArrivalsBounded
    <3>4. ArrivalsBounded(c)'
      BY <1>2, <1>4, <2>3, <2>7, <2>8, <3>3 DEF ArrivalsBounded
    <3> QED
      BY <2>6, <3>4 DEF Bounded
  <2>9. CASE ~ok
    <3>1. Unarrived(c)' = Unarrived(c)
      BY <1>1, <2>1, <2>9 DEF Unarrived
    <3>2. h.arrived - history[c].arrived = h.excused - history[c].excused
      BY <1>4, <2>4, <2>9
    <3>3. h.arrived \in Nat /\ h.excused \in Nat
      BY <1>4 DEF HistoryType
    <3>4. h.arrived + Cardinality(Unarrived(c)) + Again(c)
             <= 1 + h.excused
      BY <2>4, <2>5, <3>2, <3>3 DEF Bounded, ArrivalsBounded
    <3>5. ArrivalsBounded(c)'
      BY <1>4, <2>3, <2>7, <3>1, <3>4 DEF ArrivalsBounded
    <3> QED
      BY <2>6, <3>5 DEF Bounded
  <2> QED
    BY <2>8, <2>9
<1> QED
  BY <1>5, <1>6, <1>7 DEF IInv

\* What is left of a tick after a job: no other job changes.
LEMMA WithoutJob ==
    ASSUME NEW r \in Replicas, NEW c \in Deliveries, tick[r] \in TickType
    PROVE  /\ Without(r, c) \in TickType
           /\ Without(r, c).jobs = [tick[r].jobs EXCEPT ![c] = "none"]
           /\ Without(r, c).todo \subseteq tick[r].todo
<1> DEFINE jobs == [tick[r].jobs EXCEPT ![c] = "none"]
<1>1. jobs \in [Deliveries -> {"none", "claimed", "ok", "err"}]
  BY DEF TickType
<1>2. CASE \A e \in Deliveries : jobs[e] = "none"
  <2>1. Without(r, c) = NoTick
    BY <1>2 DEF Without
  <2>2. NoTick.jobs = jobs
    BY <1>1, <1>2 DEF NoTick
  <2> QED
    BY <2>1, <2>2, NoTickType
<1>3. CASE ~(\A e \in Deliveries : jobs[e] = "none")
  <2>1. Without(r, c) = [tick[r] EXCEPT !.jobs = jobs]
    BY <1>3 DEF Without
  <2> QED
    BY <1>1, <2>1 DEF TickType
<1> QED
  BY <1>2, <1>3

\* An outcome is recorded or lost; its job ends either way.
LEMMA MarkInv == ASSUME IInv, NEW r \in Replicas, NEW c \in Deliveries, Mark(r, c) PROVE IInv'
<1>1. /\ Typed /\ UNCHANGED <<sub, before, page, posted, old, history>>
      /\ left.faults \in 0..MaxFaults /\ MaxFaults \in Nat
      /\ tick \in [Replicas -> TickType] /\ tick[r] \in TickType
      /\ log \in [Deliveries -> RowType] /\ log[c] \in RowType
      /\ tick[r].jobs[c] \in {"ok", "err"}
      /\ tick' = [tick EXCEPT ![r] = Without(r, c)]
  BY SubscribersAssumption DEF IInv, Typed, Mark
<1>2. /\ left' \in [edits : 0..MaxEdits, faults : 0..MaxFaults]
      /\ left'.faults <= left.faults /\ left'.faults \in 0..MaxFaults
  <2>1. CASE UNCHANGED left
    BY <1>1, <2>1 DEF Typed
  <2>2. CASE left.faults > 0 /\ left' = [left EXCEPT !.faults = left.faults - 1]
    BY <1>1, <2>2 DEF Typed
  <2> QED
    BY <2>1, <2>2 DEF Mark
<1>3. PICK row \in RowType :
         /\ log' = [log EXCEPT ![c] = row]
         /\ \/ row = log[c]
            \/ /\ tick[r].jobs[c] = "ok" /\ row.status = "sent"
               /\ log[c].status # "none" /\ row.attempts = log[c].attempts
            \/ /\ tick[r].jobs[c] = "err" /\ row.status = "failed"
               /\ log[c].status # "none" /\ row.attempts = log[c].attempts + 1
         /\ row = log[c] => log[c].status = "none" \/ left'.faults = left.faults - 1
                            \/ row.status \in {"sent", "failed"}
  <2>1. CASE mark(c, tick[r].jobs[c] = "ok") /\ log[c].status = "none"
    <3>1. log' = [log EXCEPT ![c] = log[c]]
      BY <1>1, <2>1 DEF mark
    <3> QED
      BY <1>1, <2>1, <3>1
  <2>2. CASE mark(c, tick[r].jobs[c] = "ok") /\ log[c].status # "none"
    <3> DEFINE ok == tick[r].jobs[c] = "ok"
    <3> DEFINE row == [log[c] EXCEPT !.status = IF ok THEN "sent" ELSE "failed",
                                     !.attempts = IF ok THEN @ ELSE @ + 1]
    <3>1. row \in RowType
      <4>1. (IF ok THEN log[c].attempts ELSE log[c].attempts + 1) \in Nat
        BY <1>1 DEF RowType
      <4>2. (IF ok THEN "sent" ELSE "failed") \in {"none", "queued", "sent", "failed"}
        OBVIOUS
      <4> HIDE DEF ok
      <4> QED
        BY <1>1, <4>1, <4>2 DEF RowType
    <3>2. log' = [log EXCEPT ![c] = row]
      BY <1>1, <2>2 DEF mark, RowType
    <3>3. /\ row.status = (IF ok THEN "sent" ELSE "failed")
          /\ row.attempts = (IF ok THEN log[c].attempts ELSE log[c].attempts + 1)
      BY <1>1 DEF RowType
    <3> QED
      BY <1>1, <2>2, <3>1, <3>2, <3>3
  <2>3. CASE /\ left.faults > 0 /\ left' = [left EXCEPT !.faults = left.faults - 1]
             /\ UNCHANGED log
    <3>1. log' = [log EXCEPT ![c] = log[c]]
      BY <1>1, <2>3
    <3>2. left'.faults = left.faults - 1
      BY <1>1, <2>3 DEF Typed
    <3> QED
      BY <1>1, <3>1, <3>2
  <2> QED
    BY <2>1, <2>2, <2>3 DEF Mark
<1>4. Typed'
  <2>1. tick' \in [Replicas -> TickType]
    BY <1>1, WithoutJob
  <2>2. log' \in [Deliveries -> RowType]
    BY <1>1, <1>3
  <2> QED
    BY <1>1, <1>2, <2>1, <2>2 DEF Typed
<1>5. /\ tick'[r].jobs = [tick[r].jobs EXCEPT ![c] = "none"]
      /\ \A q \in Replicas : tick'[q].todo \subseteq tick[q].todo
      /\ \A q \in Replicas \ {r} : tick'[q] = tick[q]
  BY <1>1, WithoutJob
<1>6. ASSUME NEW d \in Deliveries, d # c PROVE Bounded(d)'
  <2>1. \A q \in Replicas : tick'[q].jobs[d] \in {tick[q].jobs[d], "none"}
    BY <1>1, <1>5, <1>6 DEF TickType
  <2>2. \A q \in Replicas : d \in tick'[q].todo => d \in tick[q].todo \/ d[2] \notin old'
    BY <1>5
  <2>3. history'[d] = history[d] /\ log'[d] = log[d] /\ (Gone(d) => Gone(d)')
    BY <1>1, <1>3, <1>6 DEF Gone
  <2> QED
    BY <1>1, <1>2, <1>4, <2>1, <2>2, <2>3, Frame
<1>7. Bounded(c)'
  <2>1. CASE row = log[c]
    <3>1. log'[c] = log[c] /\ history'[c] = history[c] /\ (Gone(c) => Gone(c)')
      BY <1>1, <1>3, <2>1 DEF Gone
    <3>2. \A q \in Replicas : tick'[q].jobs[c] \in {tick[q].jobs[c], "none"}
      BY <1>1, <1>5 DEF TickType
    <3>3. \A q \in Replicas : c \in tick'[q].todo => c \in tick[q].todo \/ c[2] \notin old'
      BY <1>5
    <3> QED
      BY <1>1, <1>2, <1>4, <3>1, <3>2, <3>3, Frame
  <2>2. CASE row # log[c]
    <3>1. /\ log'[c] = row /\ row.status \in {"sent", "failed"} /\ row.attempts \in Nat
          /\ row.attempts <= log[c].attempts + 1 /\ log[c].attempts \in Nat
      BY <1>1, <1>3, <2>2 DEF RowType
    <3>2. /\ Holders(c)' = Holders(c) \ {r} /\ r \in Holders(c)
          /\ Unarrived(c)' = Unarrived(c) \ {r}
      BY <1>1, <1>5 DEF Holders, Unarrived, TickType
    <3>3. /\ Bounded(c) /\ Used \in Nat /\ Claimed(c) \in 0..1 /\ Again(c) \in 0..1
          /\ MaxAttempts \in Nat
          /\ history[c].arrived \in Nat /\ history[c].excused \in Nat
      BY <1>1, Numbers DEF IInv
    <3>4. /\ IsFiniteSet(Holders(c)) /\ Cardinality(Holders(c)) \in Nat
          /\ IsFiniteSet(Unarrived(c)) /\ Cardinality(Unarrived(c)) \in Nat
      BY <3>3, Counts DEF Bounded, JobsBounded
    <3>5. /\ IsFiniteSet(Holders(c)') /\ Cardinality(Holders(c)') \in Nat
          /\ Cardinality(Holders(c)') = Cardinality(Holders(c)) - 1
      BY <3>2, <3>4, RemoveOne
    <3>6. Used <= Used' /\ Used' \in Nat
      BY <1>1, <1>2 DEF Used
    <3>7. Claimed(c)' \in 0..1 /\ Again(c)' = (IF row.status = "failed" THEN 1 ELSE 0)
      BY <3>1 DEF Claimed, Again, MayClaim
    <3>8. JobsBounded(c)'
      <4>1. Cardinality(Holders(c)') <= Used' + Claimed(c)'
        BY <3>3, <3>4, <3>5, <3>6, <3>7 DEF Bounded, JobsBounded
      <4> QED
        BY <3>1, <3>5, <4>1 DEF JobsBounded
    <3>9. AttemptsBounded(c)'
      <4>1. row.attempts + Cardinality(Holders(c)') <= MaxAttempts + Used'
        BY <3>1, <3>3, <3>4, <3>5, <3>6 DEF Bounded, AttemptsBounded
      <4> QED
        BY <3>1, <4>1 DEF AttemptsBounded
    <3>10. CASE row.status = "failed"
      <4>1. r \in Unarrived(c)
        BY <1>1, <1>3, <2>2, <3>10 DEF Unarrived
      <4>2. Cardinality(Unarrived(c)') = Cardinality(Unarrived(c)) - 1
        BY <3>2, <3>4, <4>1, RemoveOne
      <4>3. history[c].arrived + Cardinality(Unarrived(c)') + 1 <= 1 + history[c].excused
        BY <3>3, <3>4, <4>2 DEF Bounded, ArrivalsBounded
      <4>4. ArrivalsBounded(c)'
        BY <1>1, <3>7, <3>10, <4>3 DEF ArrivalsBounded
      <4> QED
        BY <3>8, <3>9, <4>4 DEF Bounded
    <3>11. CASE row.status # "failed"
      <4>1. /\ Cardinality(Unarrived(c)') <= Cardinality(Unarrived(c))
            /\ Cardinality(Unarrived(c)') \in Nat
        BY <3>2, <3>4, FS_Subset, FS_CardinalityType
      <4>2. history[c].arrived + Cardinality(Unarrived(c)') + 0 <= 1 + history[c].excused
        BY <3>3, <3>4, <4>1 DEF Bounded, ArrivalsBounded
      <4>3. ArrivalsBounded(c)'
        BY <1>1, <3>7, <3>11, <4>2 DEF ArrivalsBounded
      <4> QED
        BY <3>8, <3>9, <4>3 DEF Bounded
    <3> QED
      BY <3>10, <3>11
  <2> QED
    BY <2>1, <2>2
<1> QED
  BY <1>4, <1>6, <1>7 DEF IInv

-----------------------------------------------------------------------------
(* The theorems.                                                           *)

LEMMA StepInv == IInv /\ [Next]_vars => IInv'
<1> SUFFICES ASSUME IInv, [Next]_vars PROVE IInv'
  OBVIOUS
<1>1. CASE \/ \E s \in Subs : Confirm(s)
           \/ \E u \in Updates : Post(u) \/ Age(u)
           \/ Edit
           \/ UNCHANGED vars
  BY <1>1, QuietInv
<1>2. CASE \E s \in Subs : Unsubscribe(s)
  BY <1>2, UnsubscribeInv
<1>3. CASE \E d \in Deliveries : Orphan(d) \/ PurgeOld(d)
  BY <1>3, OrphanInv, PurgeInv
<1>4. CASE \E r \in Replicas : Tick(r) \/ Crash(r)
  BY <1>4, TickInv, ClaimInv, SendInv, MarkInv DEF Tick
<1> QED
  BY <1>1, <1>2, <1>3, <1>4 DEF Next

LEMMA Invariance == Spec => []IInv
BY InitInv, StepInv, PTL DEF Spec

\* The dispatcher's state keeps its types; in particular a delivery row never counts
\* more attempts than the cap plus one for each fault, for any number of replicas,
\* subscriptions and updates (claim, mark).
THEOREM TypeCorrect == Spec => []TypeOK
BY Invariance, Implies, PTL

\* Every arrival of an update after the first is accounted for by a claim taken over as
\* orphaned or by an earlier arrival reported as an error, for any number of replicas,
\* restarts, lost outcomes, purges and unsubscribes (list_pending, claim,
\* deliver_incident, mark, purge_old).
THEOREM NoSilentDuplicates == Spec => []DuplicatesExplained
BY Invariance, Implies, PTL
=============================================================================
