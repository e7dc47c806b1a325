--------------------------- MODULE AdHoc_proofs -----------------------------
(***************************************************************************)
(* Proofs about AdHoc: the types, with the cap of the queue and that no    *)
(* result is stored twice, and that no claim sleeps over a queued check.   *)
(***************************************************************************)
EXTENDS AdHoc, TLAPS, WellFoundedInduction

-----------------------------------------------------------------------------
(* The inductive invariant.                                                *)

In(s, x) == \E i \in 1..Len(s) : s[i] = x
Distinct(s) == \A i, j \in 1..Len(s) : s[i] = s[j] => i = j

AgentType == [at : Holding \cup {"away", "run", "store"}, batch : Seq(Ids)]

Undispatched == {"unused", "resolve"}

\* A claimer that runs or stores has a check.
Busy == \A a \in Agents : agent[a].at \in {"run", "store"} => agent[a].batch # <<>>

\* A check is in one place: once in the queue, or once in one batch.
OnePlace ==
    /\ Distinct(queue)
    /\ \A a \in Agents : Distinct(agent[a].batch)
    /\ \A a, b \in Agents, id \in Ids :
          In(agent[a].batch, id) /\ In(agent[b].batch, id) => a = b
    /\ \A a \in Agents, id \in Ids : ~(In(queue, id) /\ In(agent[a].batch, id))

\* A check that has a place, or has not been dispatched, has not been stored, and one
\* that has a place has been dispatched.
NotYet ==
    /\ \A id \in Ids :
          In(queue, id) \/ (\E a \in Agents : In(agent[a].batch, id))
              => stored[id] = 0 /\ req[id] \notin Undispatched
    /\ \A id \in Ids : req[id] \in Undispatched => stored[id] = 0

\* Also a claim that has looked and not yet gone to sleep does not sleep over a check.
Alert ==
    (waiters # <<>> \/ \E a \in Agents : agent[a].at = "sleep") /\ queue # <<>> =>
        \/ permit \/ past.behind
        \/ \E id \in Ids : req[id] = "notify"
        \/ \E a \in Agents : agent[a].at \in {"look", "woken"}

IInv == TypeOK /\ Busy /\ OnePlace /\ NotYet /\ Alert

-----------------------------------------------------------------------------
(* Sequences.                                                              *)

LEMMA NothingIn == ASSUME NEW s, s = <<>> PROVE Distinct(s) /\ (\A x : ~In(s, x))
<1>1. Len(s) = 0
  OBVIOUS
<1>2. \A i \in 1..Len(s) : FALSE
  BY <1>1
<1> QED
  BY <1>2 DEF Distinct, In

LEMMA TailOf ==
    ASSUME NEW T, NEW s \in Seq(T), s # <<>>
    PROVE  /\ Head(s) \in T /\ In(s, Head(s)) /\ Tail(s) \in Seq(T)
           /\ Len(Tail(s)) = Len(s) - 1 /\ Len(s) \in Nat /\ Len(s) >= 1
           /\ \A x : In(Tail(s), x) => In(s, x)
           /\ Distinct(s) => Distinct(Tail(s)) /\ ~In(Tail(s), Head(s))
<1>1. /\ Head(s) \in T /\ Tail(s) \in Seq(T) /\ Len(Tail(s)) = Len(s) - 1
      /\ Len(s) \in Nat /\ Len(s) >= 1 /\ Head(s) = s[1]
      /\ \A i \in 1..Len(Tail(s)) : Tail(s)[i] = s[i + 1] /\ i + 1 \in 1..Len(s) /\ i \in Nat
  OBVIOUS
<1>2. In(s, Head(s))
  BY <1>1 DEF In
<1>3. \A x : In(Tail(s), x) => In(s, x)
  BY <1>1 DEF In
<1>4. ASSUME Distinct(s) PROVE Distinct(Tail(s)) /\ ~In(Tail(s), Head(s))
  <2>1. Distinct(Tail(s))
    <3> SUFFICES ASSUME NEW i \in 1..Len(Tail(s)), NEW j \in 1..Len(Tail(s)),
                        Tail(s)[i] = Tail(s)[j]
                 PROVE  i = j
      BY DEF Distinct
    <3>1. i + 1 = j + 1
      BY <1>1, <1>4 DEF Distinct
    <3> QED
      BY <3>1
  <2>2. ~In(Tail(s), Head(s))
    <3> SUFFICES ASSUME NEW i \in 1..Len(Tail(s)), Tail(s)[i] = s[1] PROVE FALSE
      BY <1>1 DEF In
    <3>1. i + 1 = 1
      BY <1>1, <1>4 DEF Distinct
    <3> QED
      BY <3>1
  <2> QED
    BY <2>1, <2>2
<1> QED
  BY <1>1, <1>2, <1>3, <1>4

LEMMA AppendOf ==
    ASSUME NEW T, NEW s \in Seq(T), NEW x \in T
    PROVE  /\ Append(s, x) \in Seq(T) /\ Len(Append(s, x)) = Len(s) + 1
           /\ \A y : In(Append(s, x), y) <=> In(s, y) \/ y = x
           /\ Distinct(s) /\ ~In(s, x) => Distinct(Append(s, x))
<1>1. /\ Append(s, x) \in Seq(T) /\ Len(Append(s, x)) = Len(s) + 1 /\ Len(s) \in Nat
      /\ \A i \in 1..Len(s) : Append(s, x)[i] = s[i]
      /\ Append(s, x)[Len(s) + 1] = x
  OBVIOUS
<1>2. \A i \in 1..(Len(s) + 1) : i \in 1..Len(s) \/ i = Len(s) + 1
  BY <1>1
<1>3. \A y : In(Append(s, x), y) <=> In(s, y) \/ y = x
  BY <1>1, <1>2 DEF In
<1>4. ASSUME Distinct(s), ~In(s, x) PROVE Distinct(Append(s, x))
  BY <1>1, <1>2, <1>4 DEF Distinct, In
<1> QED
  BY <1>1, <1>3, <1>4

LEMMA SplitOf ==
    ASSUME NEW T, NEW s \in Seq(T), NEW n \in 0..Len(s)
    PROVE  /\ SubSeq(s, 1, n) \in Seq(T) /\ Len(SubSeq(s, 1, n)) = n
           /\ SubSeq(s, n + 1, Len(s)) \in Seq(T)
           /\ Len(SubSeq(s, n + 1, Len(s))) = Len(s) - n
           /\ \A x : In(SubSeq(s, 1, n), x) => In(s, x)
           /\ \A x : In(SubSeq(s, n + 1, Len(s)), x) => In(s, x)
           /\ Distinct(s) =>
                 /\ Distinct(SubSeq(s, 1, n)) /\ Distinct(SubSeq(s, n + 1, Len(s)))
                 /\ \A x : ~(In(SubSeq(s, 1, n), x) /\ In(SubSeq(s, n + 1, Len(s)), x))
<1>1. Len(s) \in Nat /\ n \in Nat /\ n <= Len(s)
  OBVIOUS
<1>2. PICK a : a = SubSeq(s, 1, n)
  OBVIOUS
<1>3. PICK b : b = SubSeq(s, n + 1, Len(s))
  OBVIOUS
<1>4. a \in Seq(T) /\ Len(a) = n
  BY <1>1, <1>2
<1>5. \A i \in 1..n : a[i] = s[i] /\ i \in 1..Len(s)
  BY <1>1, <1>2
<1>6. b \in Seq(T) /\ Len(b) = Len(s) - n
  BY <1>1, <1>3
<1>7. \A i \in 1..(Len(s) - n) : b[i] = s[i + n] /\ i + n \in 1..Len(s) /\ i + n > n /\ i \in Nat
  BY <1>1, <1>3
<1>8. (\A x : In(a, x) => In(s, x)) /\ (\A x : In(b, x) => In(s, x))
  BY <1>4, <1>5, <1>6, <1>7 DEF In
<1>9. ASSUME Distinct(s) PROVE Distinct(a) /\ Distinct(b) /\ \A x : ~(In(a, x) /\ In(b, x))
  <2>1. Distinct(a)
    BY <1>4, <1>5, <1>9 DEF Distinct
  <2>2. Distinct(b)
    <3> SUFFICES ASSUME NEW i \in 1..Len(b), NEW j \in 1..Len(b), b[i] = b[j] PROVE i = j
      BY DEF Distinct
    <3>1. i + n = j + n
      BY <1>6, <1>7, <1>9 DEF Distinct
    <3> QED
      BY <3>1, <1>1
  <2>3. \A x : ~(In(a, x) /\ In(b, x))
    <3> SUFFICES ASSUME NEW i \in 1..Len(a), NEW j \in 1..Len(b), a[i] = b[j] PROVE FALSE
      BY DEF In
    <3>1. i = j + n
      BY <1>4, <1>5, <1>6, <1>7, <1>9 DEF Distinct
    <3> QED
      BY <1>1, <1>4, <1>6, <3>1
  <2> QED
    BY <2>1, <2>2, <2>3
<1> QED
  BY <1>2, <1>3, <1>4, <1>6, <1>8, <1>9

\* A set of naturals has a least element.
LEMMA LeastNat ==
    ASSUME NEW S, S \subseteq Nat, S # {}
    PROVE  Min(S) \in S
<1>1. PICK x \in S : \A y \in S : ~(<<y, x>> \in OpToRel(<, Nat))
  BY NatLessThanWellFounded, WFMin, Zenon
<1>2. \A y \in S : x <= y
  <2> SUFFICES ASSUME NEW y \in S PROVE ~(y < x)
    OBVIOUS
  <2>1. <<y, x>> \in Nat \X Nat /\ <<y, x>>[1] = y /\ <<y, x>>[2] = x
    OBVIOUS
  <2> QED
    BY <1>1, <2>1, Zenon DEF OpToRel
<1>3. \E z \in S : \A y \in S : z <= y
  BY <1>2
<1> QED
  BY <1>3, Zenon DEF Min

LEMMA RemoveOf ==
    ASSUME NEW T, NEW s \in Seq(T), NEW a
    PROVE  RemoveFirst(s, a) \in Seq(T) /\ (s = <<>> => RemoveFirst(s, a) = <<>>)
<1>1. CASE \E i \in 1..Len(s) : s[i] = a
  <2>1. PICK i \in 1..Len(s) : RemoveFirst(s, a) = RemoveAt(s, i)
    <3> DEFINE I == {i \in 1..Len(s) : s[i] = a}
    <3>1. I \subseteq Nat /\ I # {}
      BY <1>1
    <3>2. Min(I) \in I
      BY <3>1, LeastNat
    <3>3. SelectInSeq(s, LAMBDA v : v = a) = Min(I)
      BY <3>1 DEF SelectInSeq
    <3> QED
      BY <1>1, <3>2, <3>3 DEF RemoveFirst
  <2>2. Len(s) \in Nat
    OBVIOUS
  <2>3. SubSeq(s, 1, i - 1) \in Seq(T) /\ SubSeq(s, i + 1, Len(s)) \in Seq(T)
    BY <2>2
  <2> QED
    BY <1>1, <2>1, <2>3 DEF RemoveAt
<1>2. CASE ~ \E i \in 1..Len(s) : s[i] = a
  BY <1>2 DEF RemoveFirst
<1> QED
  BY <1>1, <1>2

-----------------------------------------------------------------------------
(* Steps on the places of the checks.                                      *)

LEMMA InitInv == Init => IInv
<1> SUFFICES ASSUME Init PROVE IInv
  OBVIOUS
<1> USE AdHocAssumption
<1>1. TypeOK
  <2>1. Idle \in AgentType
    BY DEF Idle, AgentType
  <2>2. agent \in [Agents -> AgentType]
    BY <2>1 DEF Init
  <2>3. queue \in Seq(Ids) /\ Len(queue) <= MaxQueue /\ waiters \in Seq(Agents)
    BY DEF Init
  <2>4. past \in [dropped : SUBSET Ids, behind : BOOLEAN] /\ faults \in 0..MaxFaults
    BY DEF Init
  <2>5. /\ req \in [Ids -> {"unused", "resolve", "notify", "wait", "left", "answered", "failed"}]
        /\ pending \in [Ids -> {"none", "waiting", "silent"}]
    BY DEF Init
  <2>6. permit \in BOOLEAN
    BY DEF Init
  <2>7. 0 \in 0..1
    OBVIOUS
  <2>8. stored \in [Ids -> 0..1]
    BY <2>7 DEF Init
  <2> QED
    BY <2>2, <2>3, <2>4, <2>5, <2>6, <2>8 DEF TypeOK, AgentType
<1>2. \A a \in Agents : agent[a].at = "away" /\ agent[a].batch = <<>>
  BY DEF Init, Idle
<1>3. /\ Distinct(queue) /\ \A x : ~In(queue, x)
      /\ \A a \in Agents : Distinct(agent[a].batch) /\ \A x : ~In(agent[a].batch, x)
  BY <1>2, NothingIn DEF Init
<1>5. Busy /\ OnePlace /\ NotYet
  BY <1>2, <1>3 DEF Init, Busy, OnePlace, NotYet
<1>4. Alert
  BY DEF Init, Alert
<1> QED
  BY <1>1, <1>4, <1>5 DEF IInv

\* The types of the parts.
LEMMA Types ==
    ASSUME IInv
    PROVE  /\ TypeOK /\ agent \in [Agents -> AgentType] /\ queue \in Seq(Ids)
           /\ Len(queue) <= MaxQueue /\ Len(queue) \in Nat /\ MaxQueue \in Nat /\ MaxQueue >= 1
           /\ Limit \in Nat /\ Limit >= 1
           /\ waiters \in Seq(Agents) /\ permit \in BOOLEAN
           /\ \A a \in Agents : agent[a] \in AgentType /\ agent[a].batch \in Seq(Ids)
BY AdHocAssumption DEF IInv, TypeOK, AgentType

\* A step that drops checks from the queue and from batches, and stores only what
\* has no place any more, keeps every check in one place.
LEMMA Fewer ==
    ASSUME IInv,
           Distinct(queue'), \A id \in Ids : In(queue', id) => In(queue, id),
           \A a \in Agents : /\ Distinct(agent'[a].batch)
                             /\ \A id \in Ids : In(agent'[a].batch, id) => In(agent[a].batch, id),
           \A id \in Ids : \/ stored'[id] = stored[id]
                           \/ /\ req[id] \notin Undispatched /\ ~In(queue', id)
                              /\ \A a \in Agents : ~In(agent'[a].batch, id),
           \A id \in Ids : req'[id] \in Undispatched => req[id] \in Undispatched
    PROVE  OnePlace' /\ NotYet'
<1>1. OnePlace'
  BY DEF IInv, OnePlace
<1>2. ASSUME NEW id \in Ids, In(queue', id) \/ (\E a \in Agents : In(agent'[a].batch, id))
      PROVE  stored'[id] = 0 /\ req'[id] \notin Undispatched
  BY <1>2 DEF IInv, NotYet
<1>3. ASSUME NEW id \in Ids, req'[id] \in Undispatched PROVE stored'[id] = 0
  BY <1>3 DEF IInv, NotYet
<1> QED
  BY <1>1, <1>2, <1>3 DEF NotYet

\* A step that leaves the queue and the stored results alone.
LEMMA SamePlaces ==
    ASSUME IInv, UNCHANGED <<queue, stored>>,
           \A a \in Agents : agent'[a].batch \in {agent[a].batch, <<>>},
           \A id \in Ids : req'[id] \in Undispatched => req[id] \in Undispatched
    PROVE  OnePlace' /\ NotYet'
<1>1. \A a \in Agents : /\ Distinct(agent'[a].batch)
                        /\ \A id \in Ids : In(agent'[a].batch, id) => In(agent[a].batch, id)
  <2> TAKE a \in Agents
  <2>1. CASE agent'[a].batch = agent[a].batch
    BY <2>1 DEF IInv, OnePlace
  <2>2. CASE agent'[a].batch = <<>>
    BY <2>2, NothingIn
  <2> QED
    BY <2>1, <2>2
<1>2. Distinct(queue')
  BY DEF IInv, OnePlace
<1> QED
  BY <1>1, <1>2, Fewer

\* What NotifyOne does to the claimers and their order.
LEMMA Notified ==
    ASSUME NEW ag \in [Agents -> AgentType], NEW ws \in Seq(Agents), permit \in BOOLEAN,
           NotifyOne(ag, ws)
    PROVE  /\ agent' \in [Agents -> AgentType] /\ waiters' \in Seq(Agents)
           /\ permit' \in BOOLEAN
           /\ \A a \in Agents : agent'[a].batch = ag[a].batch
           /\ \A a \in Agents : agent'[a].at \in {ag[a].at, "woken"}
           /\ permit' \/ \E a \in Agents : agent'[a].at = "woken"
<1>1. CASE ws = <<>>
  BY <1>1 DEF NotifyOne
<1>2. CASE ws # <<>>
  <2>1. PICK h \in Agents : h = Head(ws)
    BY <1>2
  <2>2. Tail(ws) \in Seq(Agents)
    BY <1>2
  <2>3. agent' = [ag EXCEPT ![h].at = "woken"] /\ waiters' = Tail(ws) /\ permit' \in BOOLEAN
    BY <1>2, <2>1 DEF NotifyOne
  <2>4. agent' \in [Agents -> AgentType]
    BY <2>3 DEF AgentType, Holding
  <2>5. \A a \in Agents : agent'[a].batch = ag[a].batch /\ agent'[a].at \in {ag[a].at, "woken"}
    BY <2>3 DEF AgentType
  <2>6. agent'[h].at = "woken"
    BY <2>3 DEF AgentType
  <2> QED
    BY <2>2, <2>3, <2>4, <2>5, <2>6
<1> QED
  BY <1>1, <1>2

-----------------------------------------------------------------------------
(* Requests.                                                               *)

LEMMA RequestInv ==
    ASSUME IInv, NEW id \in Ids, Request(id) \/ GiveUp(id) \/ Expire(id)
    PROVE  IInv'
<1>1. /\ TypeOK /\ UNCHANGED <<queue, permit, waiters, agent, stored, faults>>
      /\ past' = past \/ past' = [past EXCEPT !.dropped = @ \cup {id}]
      /\ pending' = pending \/ pending' = [pending EXCEPT ![id] = "none"]
            \/ pending' = [pending EXCEPT ![id] = IF @ = "waiting" THEN "silent" ELSE @]
      /\ \/ req' = req
         \/ req[id] = "unused" /\ req' = [req EXCEPT ![id] = IF region_live THEN "resolve" ELSE "failed"]
         \/ req[id] = "wait" /\ req' = [req EXCEPT ![id] = "failed"]
  BY DEF IInv, Request, GiveUp, Expire
<1>2. /\ req' \in [Ids -> {"unused", "resolve", "notify", "wait", "left", "answered", "failed"}]
      /\ \A k \in Ids : req'[k] \in Undispatched => req[k] \in Undispatched
      /\ \A k \in Ids : req[k] = "notify" => req'[k] = "notify"
  BY <1>1 DEF TypeOK, Undispatched
<1>3. pending' \in [Ids -> {"none", "waiting", "silent"}]
  <2>1. pending \in [Ids -> {"none", "waiting", "silent"}]
    BY <1>1 DEF TypeOK
  <2>2. (IF pending[id] = "waiting" THEN "silent" ELSE pending[id]) \in {"none", "waiting", "silent"}
    BY <2>1
  <2> QED
    BY <1>1, <2>1, <2>2
<1>4. past' \in [dropped : SUBSET Ids, behind : BOOLEAN] /\ past'.behind = past.behind
  BY <1>1 DEF TypeOK
<1>5. TypeOK'
  BY <1>1, <1>2, <1>3, <1>4 DEF TypeOK
<1>6. Busy'
  BY <1>1 DEF IInv, Busy
<1>7. OnePlace' /\ NotYet'
  BY <1>1, <1>2, SamePlaces
<1>8. Alert'
  BY <1>1, <1>2, <1>4 DEF IInv, Alert
<1> QED
  BY <1>5, <1>6, <1>7, <1>8 DEF IInv

\* A dispatch adds one check to the queue, at the cap in the place of the oldest.
LEMMA DispatchInv == ASSUME IInv, NEW id \in Ids, Dispatch(id) PROVE IInv'
<1> DEFINE full == Len(queue) >= MaxQueue
<1>1. PICK q : q = IF full THEN Tail(queue) ELSE queue
  OBVIOUS
<1>2. PICK out : out = IF full THEN {Head(queue)} ELSE {}
  OBVIOUS
<1>3. /\ req[id] = "resolve" /\ req' = [req EXCEPT ![id] = "notify"]
      /\ queue' = Append(q, id)
      /\ pending' = [k \in Ids |-> IF k = id THEN "waiting"
                                   ELSE IF k \in out THEN "none" ELSE pending[k]]
      /\ past' = [past EXCEPT !.dropped = @ \cup out]
      /\ UNCHANGED <<permit, waiters, agent, stored, faults>>
  BY <1>1, <1>2 DEF Dispatch
<1>4. /\ q \in Seq(Ids) /\ Len(q) + 1 <= MaxQueue /\ out \subseteq Ids
      /\ Distinct(q) /\ \A x : In(q, x) => In(queue, x)
  <2>1. Distinct(queue)
    BY DEF IInv, OnePlace
  <2>2. CASE full
    <3>1. queue # <<>>
      BY <2>2, Types
    <3> QED
      BY <1>1, <1>2, <2>1, <2>2, <3>1, Types, TailOf
  <2>3. CASE ~full
    BY <1>1, <1>2, <2>1, <2>3, Types
  <2> QED
    BY <2>2, <2>3
<1>5. /\ queue' \in Seq(Ids) /\ Len(queue') <= MaxQueue
      /\ \A y : In(queue', y) <=> In(q, y) \/ y = id
  BY <1>3, <1>4, AppendOf
<1>6. ~In(queue, id) /\ (\A a \in Agents : ~In(agent[a].batch, id)) /\ stored[id] = 0
  BY <1>3 DEF IInv, NotYet, Undispatched
<1>7. Distinct(queue')
  BY <1>3, <1>4, <1>6, AppendOf
<1>8. TypeOK'
  <2>1. req' \in [Ids -> {"unused", "resolve", "notify", "wait", "left", "answered", "failed"}]
    BY <1>3 DEF IInv, TypeOK
  <2>2. pending' \in [Ids -> {"none", "waiting", "silent"}]
    BY <1>3 DEF IInv, TypeOK
  <2>3. past' \in [dropped : SUBSET Ids, behind : BOOLEAN]
    BY <1>3, <1>4 DEF IInv, TypeOK
  <2> QED
    BY <1>3, <1>5, <2>1, <2>2, <2>3 DEF IInv, TypeOK
<1>9. Busy'
  BY <1>3 DEF IInv, Busy
<1>10. OnePlace'
  BY <1>3, <1>4, <1>5, <1>6, <1>7 DEF IInv, OnePlace
<1>11. NotYet'
  <2>1. req'[id] = "notify" /\ \A k \in Ids \ {id} : req'[k] = req[k]
    BY <1>3 DEF IInv, TypeOK
  <2>2. \A k \in Ids : req'[k] \in Undispatched => req[k] \in Undispatched /\ k # id
    BY <2>1 DEF Undispatched
  <2> QED
    BY <1>3, <1>4, <1>5, <1>6, <2>1, <2>2 DEF IInv, NotYet
<1>12. Alert'
  <2>1. req'[id] = "notify"
    BY <1>3 DEF IInv, TypeOK
  <2> QED
    BY <2>1 DEF Alert
<1> QED
  BY <1>8, <1>9, <1>10, <1>11, <1>12 DEF IInv

\* The end of a dispatch leaves a permit or wakes a claim.
LEMMA NotifyInv == ASSUME IInv, NEW id \in Ids, Notify(id) PROVE IInv'
<1>1. /\ TypeOK /\ req[id] = "notify" /\ NotifyOne(agent, waiters)
      /\ req' = [req EXCEPT ![id] = IF id \in Firsts THEN "left" ELSE "wait"]
      /\ UNCHANGED <<pending, queue, stored, past, faults>>
  BY DEF IInv, Notify
<1>2. /\ agent' \in [Agents -> AgentType] /\ waiters' \in Seq(Agents)
      /\ permit' \in BOOLEAN
      /\ \A a \in Agents : agent'[a].batch = agent[a].batch
      /\ \A a \in Agents : agent'[a].at \in {agent[a].at, "woken"}
      /\ permit' \/ \E a \in Agents : agent'[a].at = "woken"
  BY <1>1, Types, Notified
<1>3. /\ req' \in [Ids -> {"unused", "resolve", "notify", "wait", "left", "answered", "failed"}]
      /\ \A k \in Ids : req'[k] \in Undispatched => req[k] \in Undispatched
  BY <1>1 DEF TypeOK, Undispatched
<1>4. TypeOK'
  BY <1>1, <1>2, <1>3 DEF TypeOK, AgentType
<1>5. Busy'
  BY <1>2 DEF IInv, Busy
<1>6. OnePlace' /\ NotYet'
  BY <1>1, <1>2, <1>3, SamePlaces
<1>7. Alert'
  BY <1>2 DEF Alert
<1> QED
  BY <1>4, <1>5, <1>6, <1>7 DEF IInv

-----------------------------------------------------------------------------
(* Claims.                                                                 *)

\* A claim that starts or wakes up is about to look.
LEMMA LookInv == ASSUME IInv, NEW a \in Agents, Claim(a) \/ Wake(a) PROVE IInv'
<1>1. /\ TypeOK /\ agent \in [Agents -> AgentType]
      /\ agent' = [agent EXCEPT ![a].at = "look"]
      /\ UNCHANGED <<req, pending, queue, permit, waiters, stored, past, faults>>
  BY Types DEF Claim, Wake
<1>2. /\ agent' \in [Agents -> AgentType] /\ agent'[a].at = "look"
      /\ \A b \in Agents : agent'[b].batch = agent[b].batch
      /\ \A b \in Agents : agent'[b].at \in {agent[b].at, "look"}
  BY <1>1 DEF AgentType, Holding
<1>3. TypeOK'
  BY <1>1, <1>2 DEF TypeOK, AgentType
<1>4. Busy'
  BY <1>2 DEF IInv, Busy
<1>5. OnePlace' /\ NotYet'
  BY <1>1, <1>2, SamePlaces
<1>6. Alert'
  BY <1>2 DEF Alert
<1> QED
  BY <1>3, <1>4, <1>5, <1>6 DEF IInv

\* The oldest checks go from the queue to the claimer's batch.
LEMMA TakeInv == ASSUME IInv, NEW a \in Agents, TakeChecks(a) PROVE IInv'
<1>1. PICK n : n = IF Len(queue) < Limit THEN Len(queue) ELSE Limit
  OBVIOUS
<1>2. n \in 0..Len(queue) /\ (n = 0 => Len(queue) = 0)
  BY <1>1, Types
<1>3. PICK x : x = [at |-> IF n = 0 THEN "sleep" ELSE "run", batch |-> SubSeq(queue, 1, n)]
  OBVIOUS
<1>4. /\ TypeOK /\ agent \in [Agents -> AgentType] /\ queue \in Seq(Ids)
      /\ agent' = [agent EXCEPT ![a] = x]
      /\ queue' = SubSeq(queue, n + 1, Len(queue))
      /\ past' = [past EXCEPT !.behind = queue' # <<>>]
      /\ UNCHANGED <<req, pending, permit, waiters, stored, faults>>
  BY <1>1, <1>3, Types DEF TakeChecks
<1>5. /\ x.batch \in Seq(Ids) /\ Len(x.batch) = n /\ queue' \in Seq(Ids)
      /\ Len(queue') = Len(queue) - n
      /\ \A id : In(x.batch, id) => In(queue, id)
      /\ \A id : In(queue', id) => In(queue, id)
      /\ Distinct(x.batch) /\ Distinct(queue')
      /\ \A id : ~(In(x.batch, id) /\ In(queue', id))
  BY <1>2, <1>3, <1>4, SplitOf DEF IInv, OnePlace
<1>6. /\ x \in AgentType /\ agent' \in [Agents -> AgentType] /\ agent'[a] = x
      /\ \A b \in Agents \ {a} : agent'[b] = agent[b]
  <2>1. x \in AgentType
    BY <1>3, <1>5 DEF AgentType, Holding
  <2> QED
    BY <1>4, <2>1
<1>7. past' \in [dropped : SUBSET Ids, behind : BOOLEAN] /\ (queue' # <<>> => past'.behind)
  BY <1>4 DEF TypeOK
<1>8. TypeOK'
  <2>1. Len(queue') <= MaxQueue
    BY <1>2, <1>5, Types
  <2> QED
    BY <1>4, <1>5, <1>6, <1>7, <2>1 DEF TypeOK, AgentType
<1>9. Busy'
  <2>1. x.at = "run" => x.batch # <<>>
    BY <1>2, <1>3, <1>5
  <2>2. x.at # "store"
    BY <1>3
  <2> QED
    BY <1>6, <2>1, <2>2 DEF IInv, Busy
<1>10. OnePlace'
  BY <1>5, <1>6 DEF IInv, OnePlace
<1>11. NotYet'
  BY <1>4, <1>5, <1>6 DEF IInv, NotYet
<1>12. Alert'
  BY <1>7 DEF Alert
<1> QED
  BY <1>8, <1>9, <1>10, <1>11, <1>12 DEF IInv

\* A claim that found nothing takes the permit and looks again, or sleeps.
LEMMA SleepInv == ASSUME IInv, NEW a \in Agents, Sleep(a) PROVE IInv'
<1>1. /\ TypeOK /\ agent \in [Agents -> AgentType] /\ waiters \in Seq(Agents)
      /\ agent[a].at = "sleep" /\ permit' = FALSE
      /\ waiters' = IF permit THEN waiters ELSE Append(waiters, a)
      /\ agent' = [agent EXCEPT ![a].at = IF permit THEN "look" ELSE "wait"]
      /\ UNCHANGED <<req, pending, queue, stored, past, faults>>
  BY Types DEF Sleep
<1>2. /\ agent' \in [Agents -> AgentType]
      /\ agent'[a].at = (IF permit THEN "look" ELSE "wait")
      /\ \A b \in Agents : agent'[b].batch = agent[b].batch
      /\ \A b \in Agents \ {a} : agent'[b] = agent[b]
  BY <1>1 DEF AgentType, Holding
<1>3. waiters' \in Seq(Agents)
  BY <1>1
<1>4. TypeOK'
  BY <1>1, <1>2, <1>3 DEF TypeOK, AgentType
<1>5. Busy'
  BY <1>2 DEF IInv, Busy
<1>6. OnePlace' /\ NotYet'
  BY <1>1, <1>2, SamePlaces
<1>7. Alert'
  <2>1. CASE permit
    BY <1>2, <2>1 DEF Alert
  <2>2. CASE ~permit
    <3>1. queue # <<>> => \/ past.behind
                          \/ \E id \in Ids : req[id] = "notify"
                          \/ \E b \in Agents \ {a} : agent[b].at \in {"look", "woken"}
      BY <1>1, <2>2 DEF IInv, Alert
    <3> QED
      BY <1>1, <1>2, <3>1 DEF Alert
  <2> QED
    BY <2>1, <2>2
<1> QED
  BY <1>4, <1>5, <1>6, <1>7 DEF IInv

\* A claim that returns empty passes a wake-up on.
LEMMA HoldOverInv == ASSUME IInv, NEW a \in Agents, HoldOver(a) PROVE IInv'
<1>1. PICK gone : gone = [agent EXCEPT ![a] = Idle]
  OBVIOUS
<1>2. PICK rest : rest = RemoveFirst(waiters, a)
  OBVIOUS
<1>3. /\ TypeOK /\ agent \in [Agents -> AgentType] /\ waiters \in Seq(Agents) /\ permit \in BOOLEAN
      /\ UNCHANGED <<req, pending, queue, stored, past, faults>>
      /\ agent[a].at \in {"sleep", "wait", "woken"}
      /\ IF agent[a].at = "woken" THEN NotifyOne(gone, rest)
         ELSE agent' = gone /\ waiters' = rest /\ UNCHANGED permit
  BY <1>1, <1>2, Types DEF HoldOver
<1>4. Idle \in AgentType /\ Idle.at = "away" /\ Idle.batch = <<>>
  BY DEF Idle, AgentType
<1>5. /\ gone \in [Agents -> AgentType] /\ gone[a] = Idle
      /\ \A b \in Agents \ {a} : gone[b] = agent[b]
  BY <1>1, <1>3, <1>4
<1>6. rest \in Seq(Agents) /\ (waiters = <<>> => rest = <<>>)
  BY <1>2, <1>3, RemoveOf
<1>7. /\ agent' \in [Agents -> AgentType] /\ waiters' \in Seq(Agents)
      /\ permit' \in BOOLEAN
      /\ \A b \in Agents : agent'[b].batch = gone[b].batch
      /\ \A b \in Agents : agent'[b].at \in {gone[b].at, "woken"}
      /\ agent[a].at = "woken" => permit' \/ \E b \in Agents : agent'[b].at = "woken"
  <2>1. CASE agent[a].at = "woken"
    BY <1>3, <1>5, <1>6, <2>1, Notified
  <2>2. CASE agent[a].at # "woken"
    BY <1>3, <1>5, <1>6, <2>2
  <2> QED
    BY <2>1, <2>2
<1>8. TypeOK'
  BY <1>3, <1>7 DEF TypeOK, AgentType
<1>9. Busy'
  BY <1>4, <1>5, <1>7 DEF IInv, Busy
<1>10. \A b \in Agents : agent'[b].batch \in {agent[b].batch, <<>>}
  BY <1>4, <1>5, <1>7
<1>11. OnePlace' /\ NotYet'
  BY <1>3, <1>10, SamePlaces
<1>12. Alert'
  <2>1. CASE agent[a].at = "woken"
    BY <1>7, <2>1 DEF Alert
  <2>2. CASE agent[a].at # "woken"
    <3>1. agent' = gone /\ waiters' = rest /\ permit' = permit
      BY <1>3, <2>2
    <3>2. \A b \in Agents : agent[b].at \in {"look", "woken"} => agent'[b].at \in {"look", "woken"}
      BY <1>3, <1>5, <2>2, <3>1
    <3>3. \A b \in Agents : agent'[b].at = "sleep" => agent[b].at = "sleep"
      BY <1>4, <1>5, <3>1
    <3> QED
      BY <1>3, <1>6, <3>1, <3>2, <3>3 DEF IInv, Alert
  <2> QED
    BY <2>1, <2>2
<1> QED
  BY <1>8, <1>9, <1>11, <1>12 DEF IInv

-----------------------------------------------------------------------------
(* Running and reporting.                                                  *)

\* What a claimer that is done with the first check of its batch, or drops the whole
\* batch, has left.
Rest(x, y) ==
    /\ y \in AgentType /\ y.at \in {"away", "run"} /\ (y.at = "run" => y.batch # <<>>)
    /\ Distinct(y.batch)
    /\ \A id \in Ids : In(y.batch, id) => In(x.batch, id) /\ id # Head(x.batch)

LEMMA IdleRest ==
    ASSUME NEW x PROVE Rest(x, Idle)
<1>1. Idle \in AgentType /\ Idle.at = "away" /\ Idle.batch = <<>>
  BY DEF Idle, AgentType
<1> QED
  BY <1>1, NothingIn DEF Rest

LEMMA GoOnRest ==
    ASSUME NEW x \in AgentType, x.batch # <<>>, Distinct(x.batch)
    PROVE  Rest(x, IF Len(x.batch) = 1 THEN Idle ELSE [at |-> "run", batch |-> Tail(x.batch)])
<1>1. CASE Len(x.batch) = 1
  BY <1>1, IdleRest
<1>2. CASE Len(x.batch) # 1
  <2>1. x.batch \in Seq(Ids)
    BY DEF AgentType
  <2>2. PICK t : t = Tail(x.batch)
    OBVIOUS
  <2>3. /\ t \in Seq(Ids) /\ Len(t) # 0 /\ Distinct(t) /\ ~In(t, Head(x.batch))
        /\ \A id : In(t, id) => In(x.batch, id)
    BY <1>2, <2>1, <2>2, TailOf
  <2>4. t # <<>>
    BY <2>3
  <2>5. PICK y : y = [at |-> "run", batch |-> t]
    OBVIOUS
  <2>6. y \in AgentType /\ y.at = "run" /\ y.batch = t
    BY <2>3, <2>5 DEF AgentType
  <2>7. Rest(x, y)
    BY <2>3, <2>4, <2>6 DEF Rest
  <2> QED
    BY <1>2, <2>2, <2>5, <2>7
<1> QED
  BY <1>1, <1>2

\* A claimer that ends its first check, with the results stored or not.
LEMMA EndsCheck ==
    ASSUME IInv, NEW a \in Agents, agent[a].at \in {"run", "store"},
           NEW y, Rest(agent[a], y), agent' = [agent EXCEPT ![a] = y],
           UNCHANGED <<queue, permit, waiters, past>>,
           \/ stored' = stored
           \/ stored' = [stored EXCEPT ![Head(agent[a].batch)] = @ + 1],
           faults' \in 0..MaxFaults,
           pending' \in [Ids -> {"none", "waiting", "silent"}],
           req' \in [Ids -> {"unused", "resolve", "notify", "wait", "left", "answered", "failed"}],
           \A id \in Ids : req'[id] \in Undispatched => req[id] \in Undispatched,
           \A id \in Ids : req[id] = "notify" => req'[id] = "notify"
    PROVE  IInv'
<1>1. PICK id \in Ids : id = Head(agent[a].batch) /\ In(agent[a].batch, id)
  BY Types, TailOf DEF IInv, Busy
<1>2. /\ stored[id] = 0 /\ req[id] \notin Undispatched /\ ~In(queue, id)
      /\ \A b \in Agents \ {a} : ~In(agent[b].batch, id)
  BY <1>1 DEF IInv, NotYet, OnePlace
<1>3. /\ agent' \in [Agents -> AgentType] /\ agent'[a] = y
      /\ \A b \in Agents \ {a} : agent'[b] = agent[b]
  BY Types DEF Rest
<1>4. /\ stored' \in [Ids -> 0..1]
      /\ \A k \in Ids \ {id} : stored'[k] = stored[k]
  <2>1. stored \in [Ids -> 0..1]
    BY DEF IInv, TypeOK
  <2>2. stored' = stored \/ stored' = [stored EXCEPT ![id] = 1]
    <3>1. stored[id] + 1 = 1
      BY <1>2
    <3> QED
      BY <1>1, <2>1, <3>1
  <2> QED
    BY <2>1, <2>2
<1>5. TypeOK'
  BY <1>3, <1>4 DEF IInv, TypeOK, AgentType
<1>6. Busy'
  BY <1>3 DEF IInv, Busy, Rest
<1>7. OnePlace' /\ NotYet'
  <2>1. Distinct(queue') /\ \A k \in Ids : In(queue', k) => In(queue, k)
    BY DEF IInv, OnePlace
  <2>2. \A b \in Agents : /\ Distinct(agent'[b].batch)
                          /\ \A k \in Ids : In(agent'[b].batch, k) => In(agent[b].batch, k)
    BY <1>3 DEF Rest, IInv, OnePlace
  <2>3. \A b \in Agents : ~In(agent'[b].batch, id)
    BY <1>1, <1>2, <1>3 DEF Rest
  <2> QED
    BY <1>2, <1>4, <2>1, <2>2, <2>3, Fewer
<1>8. Alert'
  <2>1. \A b \in Agents : agent'[b].at = "sleep" => agent[b].at = "sleep"
    BY <1>3 DEF Rest
  <2>2. \A b \in Agents : agent[b].at \in {"look", "woken"} => agent'[b].at \in {"look", "woken"}
    BY <1>3
  <2> QED
    BY <2>1, <2>2 DEF IInv, Alert
<1> QED
  BY <1>5, <1>6, <1>7, <1>8 DEF IInv

\* The claimer of a check goes on.
LEMMA GoOnOf ==
    ASSUME IInv, NEW a \in Agents, agent[a].at \in {"run", "store"}, GoOn(a)
    PROVE  \E y : Rest(agent[a], y) /\ agent' = [agent EXCEPT ![a] = y]
<1>1. agent[a] \in AgentType /\ agent[a].batch # <<>> /\ Distinct(agent[a].batch)
  BY Types DEF IInv, Busy, OnePlace
<1> QED
  BY <1>1, GoOnRest, Types DEF GoOn

\* A report answers the request; its result is then stored, or the claimer goes on.
LEMMA ReportInv == ASSUME IInv, NEW a \in Agents, Report(a) PROVE IInv'
<1>1. PICK id \in Ids : id = Head(agent[a].batch) /\ In(agent[a].batch, id)
  BY Types, TailOf DEF IInv, Busy, Report
<1>2. /\ TypeOK /\ agent \in [Agents -> AgentType] /\ agent[a].at = "run" /\ complete(id)
      /\ \/ agent' = [agent EXCEPT ![a].at = "store"]
         \/ GoOn(a)
      /\ UNCHANGED <<queue, permit, waiters, stored, past, faults>>
  BY <1>1, Types DEF Report
<1>3. pending' \in [Ids -> {"none", "waiting", "silent"}]
  BY <1>2 DEF TypeOK, complete
<1>4. /\ req' \in [Ids -> {"unused", "resolve", "notify", "wait", "left", "answered", "failed"}]
      /\ \A k \in Ids : req'[k] \in Undispatched => req[k] \in Undispatched
      /\ \A k \in Ids : req[k] = "notify" => req'[k] = "notify"
  <2>1. req' = req \/ (req[id] = "wait" /\ req' = [req EXCEPT ![id] = "answered"])
    BY <1>2 DEF TypeOK, complete
  <2> QED
    BY <1>2, <2>1 DEF TypeOK, Undispatched
<1>5. CASE GoOn(a)
  <2>1. faults' \in 0..MaxFaults
    BY <1>2 DEF TypeOK
  <2>2. PICK y : Rest(agent[a], y) /\ agent' = [agent EXCEPT ![a] = y]
    BY <1>2, <1>5, GoOnOf
  <2> QED
    BY <1>2, <1>3, <1>4, <2>1, <2>2, EndsCheck
<1>6. CASE agent' = [agent EXCEPT ![a].at = "store"]
  <2>1. /\ agent' \in [Agents -> AgentType] /\ agent'[a].at = "store"
        /\ \A b \in Agents : agent'[b].batch = agent[b].batch
        /\ \A b \in Agents \ {a} : agent'[b] = agent[b]
    BY <1>2, <1>6 DEF AgentType, Holding
  <2>2. TypeOK'
    BY <1>2, <1>3, <1>4, <2>1 DEF TypeOK, AgentType
  <2>3. Busy'
    BY <1>2, <2>1 DEF IInv, Busy
  <2>4. OnePlace' /\ NotYet'
    BY <1>2, <1>4, <2>1, SamePlaces
  <2>5. Alert'
    BY <1>2, <1>4, <2>1 DEF IInv, Alert
  <2> QED
    BY <2>2, <2>3, <2>4, <2>5 DEF IInv
<1> QED
  BY <1>2, <1>5, <1>6

LEMMA StoreInv == ASSUME IInv, NEW a \in Agents, Store(a) PROVE IInv'
<1>1. /\ agent[a].at = "store" /\ GoOn(a)
      /\ stored' = [stored EXCEPT ![Head(agent[a].batch)] = @ + 1]
      /\ UNCHANGED <<req, pending, queue, permit, waiters, past, faults>>
  BY DEF Store
<1>2. PICK y : Rest(agent[a], y) /\ agent' = [agent EXCEPT ![a] = y]
  BY <1>1, GoOnOf
<1>3. /\ faults' \in 0..MaxFaults /\ pending' \in [Ids -> {"none", "waiting", "silent"}]
      /\ req' \in [Ids -> {"unused", "resolve", "notify", "wait", "left", "answered", "failed"}]
  BY <1>1 DEF IInv, TypeOK
<1> QED
  BY <1>1, <1>2, <1>3, EndsCheck

LEMMA FaultInv == ASSUME IInv, NEW a \in Agents, Fault(a) PROVE IInv'
<1>1. /\ faults' = faults - 1 /\ faults > 0
      /\ UNCHANGED <<req, pending, queue, permit, waiters, past>>
      /\ agent[a].at \in {"run", "store"}
      /\ \/ stored' = stored
         \/ stored' = [stored EXCEPT ![Head(agent[a].batch)] = @ + 1]
      /\ agent' = [agent EXCEPT ![a] = Idle] \/ GoOn(a)
  BY DEF Fault
<1>2. PICK y : Rest(agent[a], y) /\ agent' = [agent EXCEPT ![a] = y]
  BY <1>1, GoOnOf, IdleRest
<1>3. /\ pending' \in [Ids -> {"none", "waiting", "silent"}]
      /\ req' \in [Ids -> {"unused", "resolve", "notify", "wait", "left", "answered", "failed"}]
  BY <1>1 DEF IInv, TypeOK
<1>4. faults' \in 0..MaxFaults
  BY <1>1, AdHocAssumption DEF IInv, TypeOK
<1> QED
  BY <1>1, <1>2, <1>3, <1>4, EndsCheck

-----------------------------------------------------------------------------
(* The theorems.                                                           *)

LEMMA StepInv == IInv /\ [Next]_vars => IInv'
<1> SUFFICES ASSUME IInv, [Next]_vars PROVE IInv'
  OBVIOUS
<1>1. CASE \E id \in Ids : Request(id) \/ Dispatch(id) \/ Notify(id) \/ GiveUp(id) \/ Expire(id)
  BY <1>1, RequestInv, DispatchInv, NotifyInv
<1>2. CASE \E a \in Agents : Serve(a) \/ HoldOver(a) \/ Fault(a)
  BY <1>2, LookInv, TakeInv, SleepInv, ReportInv, StoreInv, HoldOverInv, FaultInv DEF Serve
<1>3. CASE UNCHANGED vars
  BY <1>3 DEF vars, IInv, TypeOK, Busy, OnePlace, NotYet, Alert
<1> QED
  BY <1>1, <1>2, <1>3 DEF Next

LEMMA Invariance == Spec => []IInv
BY InitInv, StepInv, PTL DEF Spec

\* The queue of a region never holds more than MAX_QUEUE checks and no result is
\* stored twice, for any number of claimers, requests, lost answers and failed writes
\* (dispatch, claim, complete).
THEOREM TypeCorrect == Spec => []TypeOK
<1>1. IInv => TypeOK
  BY DEF IInv
<1> QED
  BY <1>1, Invariance, PTL

\* No claim sleeps over a queued check, whatever the order in which dispatches push
\* and notify and claims look, register and give up (dispatch, claim).
THEOREM NoLostWakeup == Spec => []NoSleepOverWork
<1>1. IInv => NoSleepOverWork
  BY DEF IInv, Alert, NoSleepOverWork
<1> QED
  BY <1>1, Invariance, PTL
=============================================================================
