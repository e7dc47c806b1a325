--------------------------- MODULE Ingest_proofs ----------------------------
(***************************************************************************)
(* Proofs about Ingest: its types, that what the agent lets go of as       *)
(* delivered is stored or refused, and how often a result can be stored.   *)
(***************************************************************************)
EXTENDS Ingest, TLAPS, FiniteSetTheorems

-----------------------------------------------------------------------------
(* The inductive invariants.                                               *)

Settled(r) == Stored(r) \/ r \in fate.refused

Typed == TypeOK /\ IsFiniteSet(requests)

\* An attempt is under way exactly while the batcher flushes, and it waits for at most
\* one request.
Waiting ==
    /\ post.at # "none" <=> Flushing
    /\ \A q \in requests : q.awaited => post.at = "wait" /\ q.id = post.id
    /\ \A p, q \in requests : p.awaited /\ q.awaited => p = q

\* The requests of the flush under way carry its buffer.
SameBody == Flushing => \A q \in requests : q.id = post.id => q.body = Elems(buffer)

\* What a handler dropped is refused, what it wrote is stored.
Handled ==
    /\ \A q \in requests : q.at # "net" => \A r \in q.body \ q.kept : r \in fate.refused
    /\ \A q \in requests : q.at = "mark" => \A r \in q.kept : Stored(r)
    /\ \A b \in blocks : \A r \in b.rows : Stored(r)

\* An answer of success, and a batch id a replica remembers, speak the truth about the
\* flush under way.
Truthful ==
    Flushing /\ (post.at = "ok" \/ \E rep \in Replicas : post.id \in dedup[rep])
        => \A r \in Elems(buffer) : Settled(r)

Delivered == Waiting /\ SameBody /\ Handled /\ Truthful /\ AckedIsStored

\* A result is in the channel or in the buffer only after it was produced, and moves
\* from one to the other.
Places ==
    /\ \A i, j \in 1..Len(chan) : chan[i] = chan[j] => i = j
    /\ \A r \in Elems(chan) : r <= produced /\ r \notin Elems(buffer)
    /\ \A r \in Elems(buffer) : r <= produced

\* V holds what the handlers kept so far of any body, before and after each change.
Shapes(V) ==
    /\ Cardinality(V) <= 1 + (MaxChanges - left.changes)
    /\ eligible \in V
    /\ \A q \in requests : q.at # "net" => \E v \in V : q.kept = q.body \cap v

Copies(r, t) == {b \in blocks : r \in b.rows /\ b.ttl = t}

\* B holds the bodies of all flushes in which a result took part, as far as they left
\* a trace.
Covers(r, B, V) ==
    /\ \A q \in requests : r \in q.body => q.body \in B
    /\ \A b \in blocks : r \in b.rows => \E c \in B : \E v \in V : b.rows = c \cap v
    /\ Flushing /\ r \in Elems(buffer) => Elems(buffer) \in B

FewFlushes(V) ==
    \A r \in Results :
        \E B \in SUBSET SUBSET Results : Covers(r, B, V) /\ Cardinality(B) <= Flushes(r)

CopiesCounted == \A r \in Results : \A t \in Ttls : stored[r][t] = Cardinality(Copies(r, t))

Counted(V) == Places /\ Shapes(V) /\ FewFlushes(V) /\ CopiesCounted

IInv == Typed /\ Delivered /\ \E V \in SUBSET SUBSET Results : Counted(V)

-----------------------------------------------------------------------------
(* Facts about sequences and finite sets.                                  *)

LEMMA ElemsEmpty == Elems(<<>>) = {}
BY DEF Elems

LEMMA ElemsType ==
    ASSUME NEW s \in Seq(Results)
    PROVE  Elems(s) \subseteq Results /\ (s # <<>> => Head(s) \in Results /\ Head(s) \in Elems(s))
BY DEF Elems

LEMMA ElemsAppend ==
    ASSUME NEW s \in Seq(Results), NEW r \in Results
    PROVE  /\ Append(s, r) \in Seq(Results)
           /\ Len(Append(s, r)) = Len(s) + 1
           /\ Elems(Append(s, r)) = Elems(s) \cup {r}
<1>1. Append(s, r) \in Seq(Results) /\ Len(Append(s, r)) = Len(s) + 1
  OBVIOUS
<1>2. \A i \in 1..Len(s) : Append(s, r)[i] = s[i]
  OBVIOUS
<1>3. Append(s, r)[Len(s) + 1] = r
  OBVIOUS
<1>4. DOMAIN s = 1..Len(s) /\ DOMAIN Append(s, r) = 1..(Len(s) + 1)
  OBVIOUS
<1> QED
  BY <1>1, <1>2, <1>3, <1>4 DEF Elems

LEMMA ElemsTail ==
    ASSUME NEW s \in Seq(Results), s # <<>>
    PROVE  /\ Tail(s) \in Seq(Results)
           /\ Len(Tail(s)) = Len(s) - 1
           /\ \A i \in 1..(Len(s) - 1) : Tail(s)[i] = s[i + 1]
           /\ Elems(s) = Elems(Tail(s)) \cup {Head(s)}
<1>1. Tail(s) \in Seq(Results) /\ Len(Tail(s)) = Len(s) - 1
  OBVIOUS
<1>2. \A i \in 1..(Len(s) - 1) : Tail(s)[i] = s[i + 1]
  OBVIOUS
<1>3. DOMAIN s = 1..Len(s) /\ DOMAIN Tail(s) = 1..(Len(s) - 1) /\ Len(s) \in Nat /\ Len(s) >= 1
  OBVIOUS
<1>4. Head(s) = s[1]
  OBVIOUS
<1>5. Elems(s) \subseteq Elems(Tail(s)) \cup {Head(s)}
  <2> SUFFICES ASSUME NEW i \in 1..Len(s), i # 1
               PROVE  \E j \in 1..(Len(s) - 1) : Tail(s)[j] = s[i]
    BY <1>3, <1>4 DEF Elems
  <2> QED
    BY <1>2, <1>3, i - 1 \in 1..(Len(s) - 1)
<1>6. Elems(Tail(s)) \subseteq Elems(s)
  <2> SUFFICES ASSUME NEW j \in 1..(Len(s) - 1)
               PROVE  \E i \in 1..Len(s) : Tail(s)[j] = s[i]
    BY <1>3 DEF Elems
  <2> QED
    BY <1>2, <1>3, j + 1 \in 1..Len(s)
<1>7. Head(s) \in Elems(s)
  BY <1>3, <1>4 DEF Elems
<1>8. Elems(s) = Elems(Tail(s)) \cup {Head(s)}
  BY <1>5, <1>6, <1>7
<1> QED
  BY <1>1, <1>2, <1>8

LEMMA ElemsConcat ==
    ASSUME NEW s \in Seq(Results), NEW t \in Seq(Results)
    PROVE  s \o t \in Seq(Results) /\ Elems(s \o t) = Elems(s) \cup Elems(t)
<1>1. s \o t \in Seq(Results) /\ Len(s \o t) = Len(s) + Len(t)
  OBVIOUS
<1>2. \A i \in 1..Len(s) : (s \o t)[i] = s[i]
  OBVIOUS
<1>3. \A i \in 1..Len(t) : (s \o t)[Len(s) + i] = t[i]
  OBVIOUS
<1>4. /\ DOMAIN s = 1..Len(s) /\ DOMAIN t = 1..Len(t) /\ DOMAIN (s \o t) = 1..(Len(s) + Len(t))
      /\ Len(s) \in Nat /\ Len(t) \in Nat
  OBVIOUS
<1>5. Elems(s \o t) \subseteq Elems(s) \cup Elems(t)
  <2> SUFFICES ASSUME NEW i \in 1..(Len(s) + Len(t))
               PROVE  (s \o t)[i] \in Elems(s) \cup Elems(t)
    BY <1>4 DEF Elems
  <2>1. CASE i \in 1..Len(s)
    BY <2>1, <1>2, <1>4 DEF Elems
  <2>2. CASE i \notin 1..Len(s)
    <3>1. i - Len(s) \in 1..Len(t) /\ i = Len(s) + (i - Len(s))
      BY <2>2, <1>4
    <3> QED
      BY <3>1, <1>3, <1>4 DEF Elems
  <2> QED
    BY <2>1, <2>2
<1>6. Elems(s) \subseteq Elems(s \o t)
  <2> SUFFICES ASSUME NEW i \in 1..Len(s) PROVE s[i] \in Elems(s \o t)
    BY <1>4 DEF Elems
  <2> QED
    BY <1>2, <1>4, i \in 1..(Len(s) + Len(t)) DEF Elems
<1>7. Elems(t) \subseteq Elems(s \o t)
  <2> SUFFICES ASSUME NEW i \in 1..Len(t) PROVE t[i] \in Elems(s \o t)
    BY <1>4 DEF Elems
  <2> QED
    BY <1>3, <1>4, Len(s) + i \in 1..(Len(s) + Len(t)) DEF Elems
<1> QED
  BY <1>1, <1>5, <1>6, <1>7

\* Cutting a sequence in two.
LEMMA ElemsCut ==
    ASSUME NEW s \in Seq(Results), NEW n \in 0..Len(s)
    PROVE  /\ SubSeq(s, n + 1, Len(s)) \in Seq(Results)
           /\ Len(SubSeq(s, n + 1, Len(s))) = Len(s) - n
           /\ Elems(s) = Elems(SubSeq(s, 1, n)) \cup Elems(SubSeq(s, n + 1, Len(s)))
<1> DEFINE a == SubSeq(s, 1, n)
           b == SubSeq(s, n + 1, Len(s))
<1>0. Len(s) \in Nat /\ n \in Nat /\ n <= Len(s) /\ DOMAIN s = 1..Len(s)
  OBVIOUS
<1>1. a \in Seq(Results) /\ Len(a) = n /\ DOMAIN a = 1..n /\ \A i \in 1..n : a[i] = s[i]
  BY <1>0
<1>2. /\ b \in Seq(Results) /\ Len(b) = Len(s) - n /\ DOMAIN b = 1..(Len(s) - n)
      /\ \A i \in 1..(Len(s) - n) : b[i] = s[n + i]
  <2>0. n + 1 \in Nat /\ n + 1 >= 1 /\ \A i \in (n + 1)..Len(s) : s[i] \in Results
    BY <1>0
  <2>a. b \in Seq(Results)
    BY <1>0, <2>0
  <2>b. Len(b) = IF n + 1 <= Len(s) THEN Len(s) - (n + 1) + 1 ELSE 0
    BY <1>0, <2>0
  <2>1. b \in Seq(Results) /\ Len(b) = Len(s) - n
    <3>1. PICK l : l = Len(s)
      OBVIOUS
    <3>a. l \in Nat /\ n <= l
      BY <1>0, <3>1, Zenon
    <3>2. n + 1 <= l \/ n = l
      BY <1>0, <3>a
    <3>3. (IF n + 1 <= l THEN l - (n + 1) + 1 ELSE 0) = l - n
      BY <1>0, <3>a, <3>2
    <3> QED
      BY <3>1, <3>3, <2>a, <2>b, Zenon
  <2>2. DOMAIN b = 1..(Len(s) - n)
    BY <2>1
  <2>3. ASSUME NEW i \in 1..(Len(s) - n) PROVE b[i] = s[n + i]
    <3>1. b[i] = s[(n + 1) + i - 1]
      BY <1>0
    <3>2. (n + 1) + i - 1 = n + i
      BY <1>0
    <3> QED
      BY <3>1, <3>2
  <2> QED
    BY <2>1, <2>2, <2>3
<1> HIDE DEF a, b
<1>3. Elems(s) \subseteq Elems(a) \cup Elems(b)
  <2> SUFFICES ASSUME NEW i \in 1..Len(s) PROVE s[i] \in Elems(a) \cup Elems(b)
    BY <1>0 DEF Elems
  <2>1. CASE i <= n
    BY <2>1, <1>0, <1>1, i \in 1..n DEF Elems
  <2>2. CASE i > n
    <3>1. i - n \in 1..(Len(s) - n) /\ i = n + (i - n)
      BY <2>2, <1>0
    <3> QED
      BY <3>1, <1>2 DEF Elems
  <2> QED
    BY <2>1, <2>2, <1>0
<1>4. Elems(a) \subseteq Elems(s)
  <2> SUFFICES ASSUME NEW i \in 1..n PROVE a[i] \in Elems(s)
    BY <1>1 DEF Elems
  <2> QED
    BY <1>0, <1>1, i \in 1..Len(s) DEF Elems
<1>5. Elems(b) \subseteq Elems(s)
  <2> SUFFICES ASSUME NEW i \in 1..(Len(s) - n) PROVE b[i] \in Elems(s)
    BY <1>2 DEF Elems
  <2> QED
    BY <1>0, <1>2, n + i \in 1..Len(s) DEF Elems
<1> QED
  BY <1>2, <1>3, <1>4, <1>5 DEF a, b

\* A function's values on a finite set are finitely many.
LEMMA FiniteImage ==
    ASSUME NEW S, NEW T, NEW f \in [S -> T], IsFiniteSet(S), \A y \in T : \E x \in S : f[x] = y
    PROVE  IsFiniteSet(T) /\ Cardinality(T) <= Cardinality(S)
<1>1. f \in Surjection(S, T)
  BY DEF Surjection
<1> QED
  BY <1>1, FS_Surjection

UsedIds == {q.id : q \in requests}
FreshId == CHOOSE i \in 0..Cardinality(UsedIds) : i \notin UsedIds

\* A flush gets an id that no request carries.
LEMMA Fresh ==
    ASSUME Typed
    PROVE  FreshId \in Nat /\ FreshId \notin UsedIds /\ UsedIds \subseteq Nat
<1> DEFINE f == [q \in requests |-> q.id]
<1>1. IsFiniteSet(UsedIds)
  <2>1. f \in [requests -> UsedIds] /\ \A y \in UsedIds : \E x \in requests : f[x] = y
    BY DEF UsedIds
  <2> HIDE DEF f
  <2> QED
    BY <2>1, FiniteImage DEF Typed
<1>2. Cardinality(UsedIds) \in Nat
  BY <1>1, FS_CardinalityType
<1>3. \E i \in 0..Cardinality(UsedIds) : i \notin UsedIds
  <2> SUFFICES ASSUME 0..Cardinality(UsedIds) \subseteq UsedIds PROVE FALSE
    OBVIOUS
  <2>1. Cardinality(0..Cardinality(UsedIds)) <= Cardinality(UsedIds)
    BY <1>1, FS_Subset
  <2>2. Cardinality(0..Cardinality(UsedIds)) = Cardinality(UsedIds) + 1
    BY <1>2, FS_Interval
  <2> QED
    BY <1>2, <2>1, <2>2
<1>4. FreshId \in 0..Cardinality(UsedIds) /\ FreshId \notin UsedIds
  BY <1>3, Zenon DEF FreshId
<1>5. UsedIds \subseteq Nat
  BY DEF UsedIds, Typed, TypeOK, RequestType
<1> QED
  BY <1>2, <1>4, <1>5

-----------------------------------------------------------------------------
(* Facts about the parts of the actions.                                   *)

PostType == [at : {"none", "send", "wait", "failed", "ok"}, id : Nat]
FateType == [counted : SUBSET Results, refused : SUBSET Results, acked : SUBSET Results]

LEMMA Constants ==
    /\ MaxResults \in Nat /\ MaxFaults \in Nat /\ MaxChanges \in Nat
    /\ ChanCap \in Nat /\ BatchSize \in Nat /\ BufferCap \in Nat /\ MaxFlushRetries \in Nat
    /\ ChanCap >= 1 /\ BatchSize >= 1 /\ BufferCap >= 1 /\ MaxFlushRetries >= 1
    /\ Doubtful \subseteq Results /\ INGEST_MAX_BATCH \in Nat
BY IngestAssumption

LEMMA Flushed ==
    ASSUME Typed, NEW how \in {"flush", "last"}, StartFlush(how)
    PROVE  /\ mode' = how
           /\ post' \in PostType /\ post'.at = "send" /\ post'.id = FreshId
           /\ dedup' = [rep \in Replicas |-> dedup[rep] \cap UsedIds]
           /\ dedup' \in [Replicas -> SUBSET Nat]
<1>1. /\ mode' = how
      /\ post' = [at |-> "send", id |-> FreshId]
      /\ dedup' = [rep \in Replicas |-> dedup[rep] \cap UsedIds]
  BY Zenon DEF StartFlush, FreshId, UsedIds
<1>2. FreshId \in Nat /\ UsedIds \subseteq Nat
  BY Fresh
<1>3. post' \in PostType /\ post'.at = "send" /\ post'.id = FreshId
  BY <1>1, <1>2 DEF PostType
<1>4. dedup' \in [Replicas -> SUBSET Nat]
  BY <1>1, <1>2
<1> QED
  BY <1>1, <1>3, <1>4

LEMMA Answered ==
    ASSUME Typed, NEW q \in requests, NEW answer \in {"ok", "failed"}, Respond(q, answer)
    PROVE  /\ post' \in PostType /\ post'.id = post.id
           /\ post'.at = IF q.awaited THEN answer ELSE post.at
BY DEF Typed, TypeOK, PostType, Respond

LEMMA Pushed ==
    ASSUME Typed, NEW r \in Results
    PROVE  LET p == push_capped(buffer, r)
           IN  /\ p.buffer \in Seq(Results) /\ Len(p.buffer) <= BufferCap /\ Len(p.buffer) >= 1
               /\ p.dropped \subseteq Results
               /\ Elems(p.buffer) \cup p.dropped = Elems(buffer) \cup {r}
<1>1. buffer \in Seq(Results) /\ Len(buffer) <= BufferCap /\ Len(buffer) \in Nat
  BY DEF Typed, TypeOK
<1>2. CASE Len(buffer) >= BufferCap
  <2>1. push_capped(buffer, r) = [buffer |-> Append(Tail(buffer), r), dropped |-> {Head(buffer)}]
    BY <1>2 DEF push_capped
  <2>2. buffer # <<>>
    BY <1>1, <1>2, Constants
  <2>3. /\ Tail(buffer) \in Seq(Results) /\ Len(Tail(buffer)) = Len(buffer) - 1
        /\ Elems(buffer) = Elems(Tail(buffer)) \cup {Head(buffer)}
    BY <1>1, <2>2, ElemsTail
  <2>4. /\ Append(Tail(buffer), r) \in Seq(Results)
        /\ Len(Append(Tail(buffer), r)) = Len(buffer) - 1 + 1
        /\ Elems(Append(Tail(buffer), r)) = Elems(Tail(buffer)) \cup {r}
    BY <2>3, ElemsAppend
  <2>5. Head(buffer) \in Results
    BY <1>1, <2>2, ElemsType
  <2>6. Len(buffer) - 1 + 1 = Len(buffer) /\ Len(buffer) >= 1
    BY <1>1, <1>2, Constants
  <2> QED
    BY <1>1, <2>1, <2>3, <2>4, <2>5, <2>6
<1>3. CASE ~(Len(buffer) >= BufferCap)
  <2>1. push_capped(buffer, r) = [buffer |-> Append(buffer, r), dropped |-> {}]
    BY <1>3 DEF push_capped
  <2>2. /\ Append(buffer, r) \in Seq(Results) /\ Len(Append(buffer, r)) = Len(buffer) + 1
        /\ Elems(Append(buffer, r)) = Elems(buffer) \cup {r}
    BY <1>1, ElemsAppend
  <2>3. Len(buffer) + 1 <= BufferCap /\ Len(buffer) + 1 >= 1
    BY <1>1, <1>3, Constants
  <2> QED
    BY <2>1, <2>2, <2>3
<1> QED
  BY <1>2, <1>3

\* What the batcher keeps at shutdown.
Drained == buffer \o chan
Over == IF Len(Drained) > BufferCap THEN Len(Drained) - BufferCap ELSE 0
Kept == SubSeq(Drained, Over + 1, Len(Drained))
Cut == Elems(SubSeq(Drained, 1, Over))

LEMMA Drains ==
    ASSUME Typed
    PROVE  /\ Kept \in Seq(Results) /\ Len(Kept) <= BufferCap
           /\ Elems(Kept) \cup Cut = Elems(buffer) \cup Elems(chan)
           /\ Cut \subseteq Results /\ Elems(Kept) \subseteq Results
<1>1. Drained \in Seq(Results) /\ Elems(Drained) = Elems(buffer) \cup Elems(chan)
  BY ElemsConcat DEF Typed, TypeOK, Drained
<1>2. PICK l \in Nat : l = Len(Drained)
  BY <1>1
<1>3. Over \in 0..l /\ l - Over <= BufferCap
  BY <1>2, Constants DEF Over
<1>4. /\ Kept \in Seq(Results) /\ Len(Kept) = l - Over
      /\ Elems(Drained) = Cut \cup Elems(Kept)
  BY <1>1, <1>2, <1>3, ElemsCut DEF Kept, Cut
<1>5. Elems(Drained) \subseteq Results
  BY <1>1, ElemsType
<1> QED
  BY <1>1, <1>3, <1>4, <1>5

LEMMA Drops ==
    ASSUME Shutdown
    PROVE  /\ buffer' = Kept /\ fate' = [fate EXCEPT !.counted = @ \cup Cut]
           /\ \/ StartFlush("last")
              \/ mode' = "done" /\ UNCHANGED <<post, dedup>> /\ Drained = <<>>
           /\ mode = "loop" /\ shutdown /\ chan' = <<>>
           /\ UNCHANGED <<produced, retries, requests, stored, blocks, ttl, eligible, shutdown, left>>
BY Zenon DEF Shutdown, Kept, Over, Drained, Cut

\* One request more, less or changed.
LEMMA Finite ==
    ASSUME Typed, NEW q, NEW x
    PROVE  /\ IsFiniteSet(requests \ {q}) /\ IsFiniteSet(requests \cup {x})
           /\ IsFiniteSet((requests \ {q}) \cup {x})
BY FS_AddElement, FS_RemoveElement DEF Typed

\* A request that moves on keeps its id, its body and who waits for it.
LEMMA Moved ==
    ASSUME NEW q \in RequestType, NEW k \in SUBSET Results
    PROVE  /\ LET x == [q EXCEPT !.at = "write", !.kept = k]
              IN  /\ x \in RequestType /\ x.id = q.id /\ x.body = q.body /\ x.rep = q.rep
                  /\ x.awaited = q.awaited /\ x.at = "write" /\ x.kept = k
           /\ LET x == [q EXCEPT !.at = "mark"]
              IN  /\ x \in RequestType /\ x.id = q.id /\ x.body = q.body /\ x.rep = q.rep
                  /\ x.awaited = q.awaited /\ x.at = "mark" /\ x.kept = q.kept
           /\ LET x == [q EXCEPT !.awaited = FALSE]
              IN  /\ x \in RequestType /\ x.id = q.id /\ x.body = q.body /\ x.rep = q.rep
                  /\ x.awaited = FALSE /\ x.at = q.at /\ x.kept = q.kept
BY DEF RequestType

\* A request as the sink posts it.
Posted(rep) == [id |-> post.id, rep |-> rep, body |-> Elems(buffer), kept |-> {}, at |-> "net",
                awaited |-> TRUE]

LEMMA PostedType ==
    ASSUME Typed, NEW rep \in Replicas
    PROVE  /\ Posted(rep) \in RequestType
           /\ Posted(rep).id = post.id /\ Posted(rep).body = Elems(buffer)
           /\ Posted(rep).at = "net" /\ Posted(rep).awaited /\ Posted(rep).kept = {}
<1>1. Elems(buffer) \subseteq Results
  BY ElemsType DEF Typed, TypeOK
<1>2. post.id \in Nat
  BY DEF Typed, TypeOK
<1> QED
  BY <1>1, <1>2 DEF Posted, RequestType

LEMMA Spends ==
    ASSUME Typed, SpendFault
    PROVE  left' \in [faults : 0..MaxFaults, changes : 0..MaxChanges] /\ left'.changes = left.changes
<1>1. left \in [faults : 0..MaxFaults, changes : 0..MaxChanges] /\ MaxFaults \in Nat
  BY Constants DEF Typed, TypeOK
<1>2. left.faults - 1 \in 0..MaxFaults
  BY <1>1 DEF SpendFault
<1> QED
  BY <1>1, <1>2 DEF SpendFault

LEMMA Fates ==
    ASSUME Typed, NEW D \in SUBSET Results
    PROVE  /\ LET f == [fate EXCEPT !.counted = @ \cup D]
              IN  f \in FateType /\ f.acked = fate.acked /\ f.refused = fate.refused
           /\ LET f == [fate EXCEPT !.acked = @ \cup D]
              IN  f \in FateType /\ f.acked = fate.acked \cup D /\ f.refused = fate.refused
           /\ LET f == [fate EXCEPT !.refused = @ \cup D]
              IN  f \in FateType /\ f.acked = fate.acked /\ f.refused = fate.refused \cup D
BY DEF Typed, TypeOK, FateType

BlockType == [rows : SUBSET Results, ttl : Ttls]

LEMMA Inserted ==
    ASSUME Typed, NEW k \in SUBSET Results, NEW d \in Ttls, Insert(k, d),
           NEW b, b = [rows |-> k, ttl |-> d]
    PROVE  /\ stored' \in [Results -> [Ttls -> Nat]] /\ blocks' = blocks \cup {b}
           /\ b \in BlockType /\ b.rows = k /\ b.ttl = d
           /\ \A r \in Results : \A t \in Ttls : stored'[r][t] >= stored[r][t]
           /\ \A r \in Results : \A t \in Ttls :
                 stored'[r][t] = IF r \in k /\ t = d /\ b \notin blocks THEN stored[r][t] + 1
                                 ELSE stored[r][t]
<1>1. /\ stored \in [Results -> [Ttls -> Nat]] /\ b \in BlockType /\ b.rows = k /\ b.ttl = d
  BY DEF Typed, TypeOK, BlockType
<1>2. blocks' = blocks \cup {b} /\ stored' = IF b \in blocks THEN stored ELSE Add(k, d)
  BY DEF Insert
<1>3. /\ Add(k, d) \in [Results -> [Ttls -> Nat]]
      /\ \A r \in Results : \A t \in Ttls :
            Add(k, d)[r][t] = IF r \in k /\ t = d THEN stored[r][t] + 1 ELSE stored[r][t]
  BY <1>1 DEF Add
<1>4. \A r \in Results : \A t \in Ttls : stored[r][t] \in Nat
  BY <1>1
<1>5. CASE b \in blocks
  BY <1>1, <1>2, <1>4, <1>5
<1>6. CASE b \notin blocks
  <2>1. stored' = Add(k, d)
    BY <1>2, <1>6
  <2> QED
    BY <1>1, <1>2, <1>3, <1>4, <1>6, <2>1
<1> QED
  BY <1>5, <1>6

-----------------------------------------------------------------------------
(* The types.                                                              *)

LEMMA InitTyped == Init => Typed
<1> SUFFICES ASSUME Init PROVE Typed
  OBVIOUS
<1>1. IsFiniteSet(requests)
  BY FS_EmptySet DEF Init
<1>2. 0 \in 0..MaxResults /\ 0 \in 0..(MaxFlushRetries - 1) /\ MaxFaults \in 0..MaxFaults
      /\ MaxChanges \in 0..MaxChanges /\ ChanCap >= 0 /\ BufferCap >= 0
  BY Constants
<1>3. left \in [faults : 0..MaxFaults, changes : 0..MaxChanges]
  BY <1>2 DEF Init
<1>4. post \in [at : {"none", "send", "wait", "failed", "ok"}, id : Nat]
  BY DEF Init, NoPost
<1>5. fate \in [counted : SUBSET Results, refused : SUBSET Results, acked : SUBSET Results]
  BY DEF Init
<1>6. /\ chan \in Seq(Results) /\ Len(chan) <= ChanCap
      /\ buffer \in Seq(Results) /\ Len(buffer) <= BufferCap
  BY <1>2 DEF Init
<1>7. /\ requests = {} /\ dedup \in [Replicas -> SUBSET Nat]
      /\ stored \in [Results -> [Ttls -> Nat]] /\ ttl \in [Replicas -> Ttls]
      /\ eligible \subseteq Results
  BY DEF Init, Ttls, Filters
<1>8. produced \in 0..MaxResults /\ retries \in 0..(MaxFlushRetries - 1)
  BY <1>2 DEF Init
<1> QED
  BY <1>1, <1>3, <1>4, <1>5, <1>6, <1>7, <1>8 DEF Init, Typed, TypeOK

LEMMA ProduceTyped ==
    ASSUME Typed, Produce
    PROVE  Typed'
<1>0. produced \in Nat /\ produced < MaxResults /\ produced' = produced + 1 /\ MaxResults \in Nat
  BY Constants DEF Typed, TypeOK, Produce
<1>1. produced + 1 \in Results /\ produced' \in 0..MaxResults
  BY <1>0 DEF Results
<1>2. CASE chan' = Append(chan, produced + 1) /\ Len(chan) < ChanCap /\ fate' = fate
  <2>1. chan' \in Seq(Results) /\ Len(chan') <= ChanCap
    BY <1>1, <1>2, ElemsAppend, Constants DEF Typed, TypeOK
  <2> QED
    BY <1>1, <1>2, <2>1 DEF Typed, TypeOK, Produce
<1>3. CASE fate' = [fate EXCEPT !.counted = @ \cup {produced + 1}] /\ chan' = chan
  <2>1. fate' \in [counted : SUBSET Results, refused : SUBSET Results, acked : SUBSET Results]
    BY <1>1, <1>3 DEF Typed, TypeOK
  <2> QED
    BY <1>1, <1>3, <2>1 DEF Typed, TypeOK, Produce
<1> QED
  BY <1>2, <1>3 DEF Produce

LEMMA ReceiveTyped ==
    ASSUME Typed, Receive
    PROVE  Typed'
<1>1. chan \in Seq(Results) /\ chan # <<>> /\ Head(chan) \in Results
  BY ElemsType DEF Typed, TypeOK, Receive
<1>2. PICK p : p = push_capped(buffer, Head(chan))
  OBVIOUS
<1>3. p.buffer \in Seq(Results) /\ Len(p.buffer) <= BufferCap /\ p.dropped \subseteq Results
  BY <1>1, <1>2, Pushed
<1>4. /\ buffer' = p.buffer /\ fate' = [fate EXCEPT !.counted = @ \cup p.dropped]
      /\ StartFlush("flush") \/ UNCHANGED <<mode, post, dedup>>
      /\ chan' = Tail(chan)
      /\ UNCHANGED <<produced, retries, requests, stored, blocks, ttl, eligible, shutdown, left>>
  BY <1>2 DEF Receive
<1>5. chan' \in Seq(Results) /\ Len(chan') <= ChanCap
  BY <1>1, <1>4, ElemsTail, Constants DEF Typed, TypeOK
<1>6. fate' \in [counted : SUBSET Results, refused : SUBSET Results, acked : SUBSET Results]
  BY <1>3, <1>4 DEF Typed, TypeOK
<1>7. /\ mode' \in {"loop", "flush", "last", "done"} /\ post' \in PostType
      /\ dedup' \in [Replicas -> SUBSET Nat]
  BY <1>4, Flushed DEF Typed, TypeOK, PostType
<1> QED
  BY <1>3, <1>4, <1>5, <1>6, <1>7 DEF Typed, TypeOK, PostType

LEMMA TickTyped ==
    ASSUME Typed, Tick
    PROVE  Typed'
BY Flushed DEF Typed, TypeOK, PostType, Tick

LEMMA ShutdownTyped ==
    ASSUME Typed, Shutdown
    PROVE  Typed'
<1>1. fate' \in FateType
  <2>1. fate' = [fate EXCEPT !.counted = @ \cup Cut] /\ Cut \in SUBSET Results
    BY Drops, Drains
  <2> QED
    BY <2>1, Fates
<1>2. /\ mode' \in {"loop", "flush", "last", "done"} /\ post' \in PostType
      /\ dedup' \in [Replicas -> SUBSET Nat]
  BY Drops, Flushed DEF Typed, TypeOK, PostType
<1>3. chan' \in Seq(Results) /\ Len(chan') <= ChanCap
  BY Drops, Constants
<1>4. buffer' \in Seq(Results) /\ Len(buffer') <= BufferCap
  BY Drops, Drains
<1> QED
  BY <1>1, <1>2, <1>3, <1>4, Drops DEF Typed, TypeOK, PostType, FateType

LEMMA FlushDoneTyped ==
    ASSUME Typed, NEW ok \in BOOLEAN, FlushDone(ok)
    PROVE  Typed'
<1>0. Elems(buffer) \subseteq Results /\ retries \in 0..(MaxFlushRetries - 1)
  BY ElemsType DEF Typed, TypeOK
<1>1. /\ buffer' = <<>> \/ buffer' = buffer
      /\ retries' = 0 \/ (retries' = retries + 1 /\ ~(retries + 1 >= MaxFlushRetries))
      /\ \/ fate' = fate
         \/ fate' = [fate EXCEPT !.acked = @ \cup Elems(buffer)]
         \/ fate' = [fate EXCEPT !.counted = @ \cup Elems(buffer)]
  BY DEF FlushDone, flush_ok, flush_err
<1>2. fate' \in FateType
  <2>1. fate \in FateType
    BY DEF Typed, TypeOK, FateType
  <2> QED
    BY <1>0, <1>1, <2>1, Fates
<1>3. retries' \in 0..(MaxFlushRetries - 1)
  BY <1>0, <1>1, Constants
<1>4. buffer' \in Seq(Results) /\ Len(buffer') <= BufferCap
  <2>1. <<>> \in Seq(Results) /\ Len(<<>>) <= BufferCap
    BY Constants
  <2>2. buffer \in Seq(Results) /\ Len(buffer) <= BufferCap
    BY DEF Typed, TypeOK
  <2> QED
    BY <1>1, <2>1, <2>2
<1>5. post' \in PostType /\ mode' \in {"loop", "flush", "last", "done"}
  BY DEF FlushDone, Typed, TypeOK, PostType
<1> QED
  BY <1>2, <1>3, <1>4, <1>5 DEF FlushDone, Typed, TypeOK, PostType, FateType

LEMMA TimeoutTyped ==
    ASSUME Typed, Timeout
    PROVE  Typed'
<1> DEFINE f == [q \in requests |-> [q EXCEPT !.awaited = FALSE]]
<1>1. f \in [requests -> requests'] /\ \A y \in requests' : \E x \in requests : f[x] = y
  BY DEF Timeout
<1>2. IsFiniteSet(requests')
  <2> HIDE DEF f
  <2> QED
    BY <1>1, FiniteImage DEF Typed
<1>3. \A q \in requests' : q \in RequestType
  <2>1. \A q \in requests : q \in RequestType
    BY DEF Typed, TypeOK
  <2>2. {} \in SUBSET Results
    OBVIOUS
  <2>3. \A q \in requests : [q EXCEPT !.awaited = FALSE] \in RequestType
    BY <2>1, <2>2, Moved
  <2> QED
    BY <2>3 DEF Timeout
<1>4. left' \in [faults : 0..MaxFaults, changes : 0..MaxChanges]
  BY Spends DEF Timeout, Typed, TypeOK
<1>5. post' \in PostType
  BY DEF Timeout, Typed, TypeOK, PostType
<1> QED
  BY <1>2, <1>3, <1>4, <1>5 DEF Timeout, Typed, TypeOK, PostType

LEMMA SinkTyped ==
    ASSUME Typed, Sink
    PROVE  Typed'
<1>1. CASE Post
  <2>1. PICK rep \in Replicas : requests' = requests \cup {Posted(rep)}
    BY <1>1 DEF Post, Posted
  <2>2. IsFiniteSet(requests') /\ \A q \in requests' : q \in RequestType
    BY <2>1, Finite, PostedType DEF Typed, TypeOK
  <2>3. post' \in PostType
    BY <1>1 DEF Post, Typed, TypeOK, PostType
  <2> QED
    BY <1>1, <2>2, <2>3 DEF Post, Typed, TypeOK, PostType
<1>2. CASE Retry
  BY <1>2 DEF Retry, Typed, TypeOK
<1> QED
  BY <1>1, <1>2, TimeoutTyped, FlushDoneTyped DEF Sink, GiveUp, Acknowledged

LEMMA FailTyped ==
    ASSUME Typed, NEW q \in requests, Fail(q)
    PROVE  Typed'
<1>1. post' \in PostType
  BY Answered DEF Fail
<1>2. IsFiniteSet(requests')
  BY Finite DEF Fail
<1>3. left' \in [faults : 0..MaxFaults, changes : 0..MaxChanges]
  BY Spends DEF Fail, Typed, TypeOK
<1> QED
  BY <1>1, <1>2, <1>3 DEF Fail, Typed, TypeOK, PostType

\* The three outcomes of the part before the write.
LEMMA Ingests ==
    ASSUME Typed, NEW q \in requests, IngestResults(q)
    PROVE  LET kept == q.body \cap eligible
               x == [q EXCEPT !.at = "write", !.kept = kept]
           IN  /\ q \in RequestType /\ q.at = "net" /\ kept \in SUBSET Results
               /\ \/ /\ q.id \in dedup[q.rep] /\ requests' = requests \ {q}
                     /\ Respond(q, "ok") /\ fate' = fate
                  \/ /\ fate' = [fate EXCEPT !.refused = @ \cup (q.body \ kept)]
                     /\ kept = {} /\ requests' = requests \ {q} /\ Respond(q, "ok")
                  \/ /\ fate' = [fate EXCEPT !.refused = @ \cup (q.body \ kept)]
                     /\ kept # {} /\ requests' = (requests \ {q}) \cup {x} /\ post' = post
BY DEF Typed, TypeOK, RequestType, IngestResults, Duplicate

LEMMA IngestTyped ==
    ASSUME Typed, NEW q \in requests, IngestResults(q)
    PROVE  Typed'
<1>0. PICK k : k = q.body \cap eligible
  OBVIOUS
<1>1. /\ q \in RequestType /\ k \in SUBSET Results /\ q.body \ k \in SUBSET Results
      /\ \A p \in requests : p \in RequestType
  BY <1>0 DEF Typed, TypeOK, RequestType
<1>2. PICK x : x = [q EXCEPT !.at = "write", !.kept = k]
  OBVIOUS
<1>3. x \in RequestType
  BY <1>1, <1>2, Moved
<1>4. requests' = requests \ {q} \/ requests' = (requests \ {q}) \cup {x}
  BY <1>0, <1>2, Ingests
<1>5. IsFiniteSet(requests') /\ \A p \in requests' : p \in RequestType
  BY <1>1, <1>3, <1>4, Finite
<1>6. fate' \in FateType
  <2>1. fate \in FateType
    BY DEF Typed, TypeOK, FateType
  <2>2. fate' = fate \/ fate' = [fate EXCEPT !.refused = @ \cup (q.body \ k)]
    BY <1>0, Ingests
  <2> QED
    BY <1>1, <2>1, <2>2, Fates
<1>7. post' \in PostType
  <2>1. post \in PostType
    BY DEF Typed, TypeOK, PostType
  <2>2. post' = post \/ Respond(q, "ok")
    BY Ingests
  <2> QED
    BY <2>1, <2>2, Answered
<1> QED
  BY <1>5, <1>6, <1>7 DEF IngestResults, Typed, TypeOK, PostType, FateType

\* The outcomes of the write.
LEMMA Writes ==
    ASSUME Typed, NEW q \in requests, Write(q)
    PROVE  LET x == [q EXCEPT !.at = "mark"]
           IN  /\ q \in RequestType /\ q.at = "write" /\ q.kept \in SUBSET Results
               /\ ttl[q.rep] \in Ttls
               /\ \/ /\ Insert(q.kept, ttl[q.rep]) /\ requests' = (requests \ {q}) \cup {x}
                     /\ UNCHANGED <<post, left>>
                  \/ /\ SpendFault /\ requests' = requests \ {q} /\ Respond(q, "failed")
                     /\ Insert(q.kept, ttl[q.rep]) \/ UNCHANGED <<stored, blocks>>
BY DEF Typed, TypeOK, RequestType, Write

LEMMA WriteTyped ==
    ASSUME Typed, NEW q \in requests, Write(q)
    PROVE  Typed'
<1>1. /\ q \in RequestType /\ {} \in SUBSET Results
      /\ \A p \in requests : p \in RequestType
  BY DEF Typed, TypeOK
<1>2. PICK x : x = [q EXCEPT !.at = "mark"]
  OBVIOUS
<1>3. x \in RequestType
  BY <1>1, <1>2, Moved
<1>4. requests' = requests \ {q} \/ requests' = (requests \ {q}) \cup {x}
  BY <1>2, Writes
<1>5. IsFiniteSet(requests') /\ \A p \in requests' : p \in RequestType
  BY <1>1, <1>3, <1>4, Finite
<1>6. stored' \in [Results -> [Ttls -> Nat]] /\ blocks' \subseteq BlockType
  <2>1. /\ q.kept \in SUBSET Results /\ ttl[q.rep] \in Ttls
        /\ Insert(q.kept, ttl[q.rep]) \/ UNCHANGED <<stored, blocks>>
    BY Writes
  <2>2. stored \in [Results -> [Ttls -> Nat]] /\ blocks \subseteq BlockType
    BY DEF Typed, TypeOK, BlockType
  <2>3. PICK d : d = ttl[q.rep]
    OBVIOUS
  <2>4. PICK b : b = [rows |-> q.kept, ttl |-> d]
    OBVIOUS
  <2>5. CASE Insert(q.kept, d)
    <3>1. d \in Ttls /\ q.kept \in SUBSET Results
      BY <2>1, <2>3
    <3>2. blocks' = blocks \cup {b} /\ b \in BlockType /\ stored' \in [Results -> [Ttls -> Nat]]
      BY <2>4, <2>5, <3>1, Inserted
    <3> QED
      BY <2>2, <3>2
  <2> QED
    BY <2>1, <2>2, <2>3, <2>5
<1>7. post' \in PostType /\ left' \in [faults : 0..MaxFaults, changes : 0..MaxChanges]
  <2>1. post \in PostType /\ left \in [faults : 0..MaxFaults, changes : 0..MaxChanges]
    BY DEF Typed, TypeOK, PostType
  <2>2. UNCHANGED <<post, left>> \/ (SpendFault /\ Respond(q, "failed"))
    BY Writes
  <2> QED
    BY <2>1, <2>2, Answered, Spends
<1> QED
  BY <1>5, <1>6, <1>7 DEF Write, Typed, TypeOK, PostType, BlockType

LEMMA MarkTyped ==
    ASSUME Typed, NEW q \in requests, Mark(q)
    PROVE  Typed'
<1>1. /\ q \in RequestType /\ q.id \in Nat /\ q.rep \in Replicas
      /\ dedup \in [Replicas -> SUBSET Nat]
  BY DEF Typed, TypeOK, RequestType
<1>2. dedup' \in [Replicas -> SUBSET Nat]
  BY <1>1 DEF Mark
<1>3. post' \in PostType
  BY Answered DEF Mark
<1>4. IsFiniteSet(requests')
  BY Finite DEF Mark
<1> QED
  BY <1>2, <1>3, <1>4 DEF Mark, Typed, TypeOK, PostType

LEMMA RestartTyped ==
    ASSUME Typed, NEW rep \in Replicas, Restart(rep)
    PROVE  Typed'
<1>1. requests' \in SUBSET requests
  BY DEF Restart
<1>2. IsFiniteSet(requests')
  BY <1>1, FS_Subset DEF Typed
<1>3. left' \in [faults : 0..MaxFaults, changes : 0..MaxChanges]
  BY Spends DEF Restart
<1>4. dedup' \in [Replicas -> SUBSET Nat] /\ ttl' \in [Replicas -> Ttls]
  BY DEF Restart, Typed, TypeOK, Ttls
<1> QED
  BY <1>1, <1>2, <1>3, <1>4 DEF Restart, Typed, TypeOK

LEMMA RefreshTyped ==
    ASSUME Typed, NEW rep \in Replicas, Refresh(rep)
    PROVE  Typed'
<1>1. ttl' \in [Replicas -> Ttls]
  BY DEF Refresh, Typed, TypeOK, Ttls
<1> QED
  BY <1>1 DEF Refresh, Typed, TypeOK

LEMMA RequalifyTyped ==
    ASSUME Typed, Requalify
    PROVE  Typed'
<1>1. left.changes - 1 \in 0..MaxChanges /\ left.changes \in 0..MaxChanges
  BY Constants DEF Requalify, Typed, TypeOK
<1>2. left' \in [faults : 0..MaxFaults, changes : 0..MaxChanges]
  BY <1>1 DEF Requalify, Typed, TypeOK
<1>3. eligible' \subseteq Results
  BY DEF Requalify, Filters
<1> QED
  BY <1>2, <1>3 DEF Requalify, Typed, TypeOK

LEMMA NextTyped ==
    ASSUME Typed, [Next]_vars
    PROVE  Typed'
<1>1. CASE Cancel
  BY <1>1 DEF Cancel, Typed, TypeOK
<1>2. CASE UNCHANGED vars
  BY <1>2 DEF vars, Typed, TypeOK
<1> QED
  BY <1>1, <1>2, ProduceTyped, ReceiveTyped, TickTyped, ShutdownTyped, SinkTyped, FailTyped,
     IngestTyped, WriteTyped, MarkTyped, RestartTyped, RefreshTyped, RequalifyTyped
     DEF Next, Batcher, Handler

\* The agent's queues keep their bounds and every step its types, for any constants.
THEOREM TypeCorrect == Spec => []TypeOK
<1>1. Init => Typed
  BY InitTyped
<1>2. Typed /\ [Next]_vars => Typed'
  BY NextTyped
<1>3. Typed => TypeOK
  BY DEF Typed
<1> QED
  BY <1>1, <1>2, <1>3, PTL DEF Spec

-----------------------------------------------------------------------------
(* What was acknowledged is stored or refused.                             *)

\* Results stay settled.
Grows ==
    /\ stored' \in [Results -> [Ttls -> Nat]]
    /\ \A r \in Results : \A t \in Ttls : stored'[r][t] >= stored[r][t]
    /\ fate.refused \subseteq fate'.refused

LEMMA GrowsSettled ==
    ASSUME Typed, Grows
    PROVE  \A r \in Results : (Settled(r) => Settled(r)') /\ (Stored(r) => Stored(r)')
<1>1. ASSUME NEW r \in Results, Stored(r) PROVE Stored(r)'
  <2>1. PICK t \in Ttls : stored[r][t] > 0
    BY <1>1 DEF Stored
  <2>2. stored[r][t] \in Nat /\ stored'[r][t] \in Nat /\ stored'[r][t] >= stored[r][t]
    BY DEF Typed, TypeOK, Grows
  <2>3. stored'[r][t] > 0
    BY <2>1, <2>2
  <2> QED
    BY <2>3 DEF Stored
<1> QED
  BY <1>1 DEF Grows, Settled

\* What a handler has done so far to a request's results.
Served(q) ==
    /\ q.at # "net" => \A r \in q.body \ q.kept : r \in fate.refused
    /\ q.at = "mark" => \A r \in q.kept : Stored(r)

LEMMA StaysHandled ==
    ASSUME Typed, Handled, Grows,
           \A q \in requests' : q \in requests \/ Served(q)',
           \A b \in blocks' : b \in blocks \/ \A r \in b.rows : Stored(r)'
    PROVE  Handled'
<1>1. \A q \in requests : q.kept \subseteq Results
  BY DEF Typed, TypeOK, RequestType
<1>2. \A r \in Results : Stored(r) => Stored(r)'
  BY GrowsSettled
<1>3. \A b \in blocks : b.rows \subseteq Results
  BY DEF Typed, TypeOK
<1>4. \A q \in requests' : Served(q)'
  <2> SUFFICES ASSUME NEW q \in requests PROVE Served(q)'
    OBVIOUS
  <2> QED
    BY <1>1, <1>2 DEF Handled, Grows, Served
<1>5. \A b \in blocks' : \A r \in b.rows : Stored(r)'
  BY <1>2, <1>3 DEF Handled
<1> QED
  BY <1>4, <1>5 DEF Handled, Served

\* Steps that touch neither the buffer nor the attempt under way.
LEMMA QuietDelivered ==
    ASSUME Typed, Delivered, requests' \subseteq requests,
           \A rep \in Replicas : dedup'[rep] \subseteq dedup[rep],
           UNCHANGED <<buffer, mode, post, stored, blocks>>,
           fate'.refused = fate.refused, fate'.acked = fate.acked
    PROVE  Delivered'
<1>1. Grows
  BY DEF Typed, TypeOK, Grows
<1>2. Handled'
  BY <1>1, StaysHandled DEF Delivered
<1>3. Waiting' /\ SameBody'
  BY DEF Delivered, Waiting, SameBody, Flushing
<1>4. Truthful' /\ AckedIsStored'
  BY DEF Delivered, Truthful, AckedIsStored, Flushing, Settled, Stored
<1> QED
  BY <1>2, <1>3, <1>4 DEF Delivered

\* Nobody waits while no attempt is out.
LEMMA NobodyWaits ==
    ASSUME Typed, Waiting, post.at # "wait"
    PROVE  \A q \in requests : ~q.awaited
BY DEF Waiting

LEMMA LoopDelivered ==
    ASSUME Typed, Delivered, ~Flushing,
           UNCHANGED <<requests, stored, blocks>>,
           fate'.refused = fate.refused, fate'.acked = fate.acked,
           \/ \E how \in {"flush", "last"} : StartFlush(how)
           \/ mode' \in {"loop", "done"} /\ post' = post
    PROVE  Delivered'
<1>1. Grows
  BY DEF Typed, TypeOK, Grows
<1>2. Handled' /\ AckedIsStored'
  BY <1>1, StaysHandled DEF Delivered, AckedIsStored, Stored
<1>3. post.at = "none" /\ \A q \in requests : ~q.awaited
  BY NobodyWaits DEF Delivered, Waiting
<1>4. ASSUME NEW how \in {"flush", "last"}, StartFlush(how)
      PROVE  Waiting' /\ SameBody' /\ Truthful'
  <2>1. /\ mode' = how /\ post'.at = "send" /\ post'.id = FreshId
        /\ dedup' = [rep \in Replicas |-> dedup[rep] \cap UsedIds] /\ FreshId \notin UsedIds
    BY <1>4, Flushed, Fresh
  <2>2. Waiting'
    BY <1>3, <2>1 DEF Waiting, Flushing
  <2>3. SameBody'
    BY <2>1 DEF SameBody, UsedIds
  <2>4. Truthful'
    BY <2>1 DEF Truthful
  <2> QED
    BY <2>2, <2>3, <2>4
<1>5. ASSUME mode' \in {"loop", "done"}, post' = post
      PROVE  Waiting' /\ SameBody' /\ Truthful'
  <2>1. ~Flushing'
    BY <1>5 DEF Flushing
  <2> QED
    BY <1>3, <1>5, <2>1 DEF Waiting, SameBody, Truthful
<1> QED
  BY <1>2, <1>4, <1>5 DEF Delivered

LEMMA PostDelivered ==
    ASSUME Typed, Delivered, Post
    PROVE  Delivered'
<1>1. PICK rep \in Replicas : requests' = requests \cup {Posted(rep)}
  BY DEF Post, Posted
<1>2. PICK x : x = Posted(rep)
  OBVIOUS
<1>3. x.id = post.id /\ x.body = Elems(buffer) /\ x.at = "net" /\ x.awaited
  BY <1>2, PostedType
<1>4. post'.at = "wait" /\ post'.id = post.id /\ Flushing /\ Flushing'
  BY DEF Post, Typed, TypeOK, Delivered, Waiting, Flushing
<1>5. \A q \in requests : ~q.awaited
  BY NobodyWaits DEF Post, Delivered
<1>6. Handled'
  <2>1. Grows
    BY DEF Post, Typed, TypeOK, Grows
  <2>2. Served(x)'
    BY <1>3 DEF Served
  <2> QED
    BY <1>1, <1>2, <2>1, <2>2, StaysHandled DEF Delivered, Post
<1>7. Waiting'
  BY <1>1, <1>2, <1>3, <1>4, <1>5 DEF Waiting
<1>8. SameBody'
  BY <1>1, <1>2, <1>3, <1>4 DEF Delivered, SameBody, Post
<1>9. Truthful' /\ AckedIsStored'
  BY <1>4 DEF Delivered, Truthful, AckedIsStored, Settled, Stored, Post
<1> QED
  BY <1>6, <1>7, <1>8, <1>9 DEF Delivered

LEMMA TimeoutDelivered ==
    ASSUME Typed, Delivered, Timeout
    PROVE  Delivered'
<1>1. \A x \in requests' : \E q \in requests :
         /\ x.id = q.id /\ x.body = q.body /\ x.at = q.at /\ x.kept = q.kept /\ x.awaited = FALSE
  <2> SUFFICES ASSUME NEW q \in requests, NEW x, x = [q EXCEPT !.awaited = FALSE]
               PROVE  x.id = q.id /\ x.body = q.body /\ x.at = q.at /\ x.kept = q.kept
                      /\ x.awaited = FALSE
    BY Zenon DEF Timeout
  <2>1. q \in RequestType /\ {} \in SUBSET Results
    BY DEF Typed, TypeOK
  <2> QED
    BY <2>1, Moved
<1>2. post'.at = "failed" /\ post'.id = post.id /\ Flushing /\ Flushing'
  BY DEF Timeout, Typed, TypeOK, Delivered, Waiting, Flushing
<1>3. Waiting'
  BY <1>1, <1>2 DEF Waiting
<1>4. SameBody'
  BY <1>1, <1>2 DEF Delivered, SameBody, Timeout
<1>5. Handled'
  BY <1>1 DEF Delivered, Handled, Stored, Timeout
<1>6. Truthful' /\ AckedIsStored'
  BY <1>2 DEF Delivered, Truthful, AckedIsStored, Settled, Stored, Timeout
<1> QED
  BY <1>3, <1>4, <1>5, <1>6 DEF Delivered

LEMMA RetryDelivered ==
    ASSUME Typed, Delivered, Retry
    PROVE  Delivered'
<1>1. post'.at = "send" /\ post'.id = post.id /\ Flushing /\ Flushing'
  BY DEF Retry, Typed, TypeOK, Delivered, Waiting, Flushing
<1>2. \A q \in requests : ~q.awaited
  BY NobodyWaits DEF Retry, Delivered
<1>3. Waiting'
  BY <1>1, <1>2 DEF Waiting, Retry
<1> QED
  BY <1>1, <1>3 DEF Delivered, SameBody, Handled, Truthful, AckedIsStored, Settled, Stored, Retry

LEMMA FlushDoneDelivered ==
    ASSUME Typed, Delivered, GiveUp \/ Acknowledged
    PROVE  Delivered'
<1>1. PICK ok \in BOOLEAN : FlushDone(ok) /\ post.at = (IF ok THEN "ok" ELSE "failed")
  BY DEF GiveUp, Acknowledged
<1>2. Flushing /\ post'.at = "none" /\ ~Flushing'
  BY <1>1 DEF FlushDone, Typed, TypeOK, Delivered, Waiting, Flushing
<1>3. \A q \in requests : ~q.awaited
  BY <1>1, NobodyWaits DEF Delivered
<1>4. Waiting' /\ SameBody' /\ Truthful'
  BY <1>1, <1>2, <1>3 DEF Waiting, SameBody, Truthful, FlushDone
<1>5. Elems(buffer) \in SUBSET Results
  BY ElemsType DEF Typed, TypeOK
<1>6. /\ fate'.refused = fate.refused
      /\ fate'.acked = fate.acked \/ (ok /\ fate'.acked = fate.acked \cup Elems(buffer))
  <2>1. \/ fate' = fate
        \/ ok /\ fate' = [fate EXCEPT !.acked = @ \cup Elems(buffer)]
        \/ fate' = [fate EXCEPT !.counted = @ \cup Elems(buffer)]
    BY <1>1 DEF FlushDone, flush_ok, flush_err
  <2> QED
    BY <1>5, <2>1, Fates
<1>7. AckedIsStored'
  <2>1. ok => \A r \in Elems(buffer) : Settled(r)
    BY <1>1, <1>2 DEF Delivered, Truthful
  <2> QED
    BY <1>1, <1>6, <2>1 DEF FlushDone, Delivered, AckedIsStored, Settled, Stored
<1>8. Handled'
  BY <1>1, <1>6 DEF FlushDone, Delivered, Handled, Stored
<1> QED
  BY <1>4, <1>7, <1>8 DEF Delivered

\* A request that is answered goes, and with it whoever waited.
LEMMA AnsweredWaiting ==
    ASSUME Typed, Waiting, NEW q \in requests, NEW answer \in {"ok", "failed"}, Respond(q, answer),
           requests' = requests \ {q}, mode' = mode
    PROVE  Waiting'
<1>1. post'.id = post.id /\ post'.at = IF q.awaited THEN answer ELSE post.at
  BY Answered
<1>2. CASE q.awaited
  <2>1. \A p \in requests' : ~p.awaited
    BY <1>2 DEF Waiting
  <2>2. post'.at # "none" /\ Flushing /\ Flushing'
    BY <1>1, <1>2 DEF Waiting, Flushing
  <2> QED
    BY <2>1, <2>2 DEF Waiting
<1>3. CASE ~q.awaited
  BY <1>1, <1>3 DEF Waiting, Flushing
<1> QED
  BY <1>2, <1>3

\* A request that moves on is waited for as before, and carries the same body.
LEMMA MovedWaiting ==
    ASSUME Typed, Waiting, SameBody, NEW q \in requests, NEW x, x.id = q.id, x.awaited = q.awaited,
           x.body = q.body, requests' = (requests \ {q}) \cup {x},
           UNCHANGED <<mode, post, buffer>>
    PROVE  Waiting' /\ SameBody'
<1>1. Flushing' <=> Flushing
  BY DEF Flushing
<1>2. Waiting'
  BY <1>1 DEF Waiting
<1>3. SameBody'
  BY <1>1 DEF SameBody
<1> QED
  BY <1>2, <1>3

\* An answer of success is true when the request's results are settled.
LEMMA AnsweredTruthful ==
    ASSUME Typed, Delivered, Grows, NEW q \in requests, NEW answer \in {"ok", "failed"},
           Respond(q, answer), UNCHANGED <<mode, buffer>>,
           q.awaited /\ answer = "ok" => \A r \in q.body : Settled(r)',
           \A rep \in Replicas :
              dedup'[rep] \subseteq dedup[rep]
              \/ (dedup'[rep] \subseteq dedup[rep] \cup {q.id} /\ \A r \in q.body : Settled(r)')
    PROVE  Truthful'
<1>1. post'.id = post.id /\ post'.at = IF q.awaited THEN answer ELSE post.at
  BY Answered
<1>2. Flushing' <=> Flushing
  BY DEF Flushing
<1>3. \A r \in Elems(buffer) : Settled(r) => Settled(r)'
  BY GrowsSettled, ElemsType DEF Typed, TypeOK
<1>4. Flushing /\ q.id = post.id => q.body = Elems(buffer)
  BY DEF Delivered, SameBody
<1>5. q.awaited => q.id = post.id
  BY DEF Delivered, Waiting
<1> SUFFICES ASSUME Flushing,
                    post'.at = "ok" \/ \E rep \in Replicas : post.id \in dedup'[rep]
             PROVE  \A r \in Elems(buffer) : Settled(r)'
  BY <1>1, <1>2 DEF Truthful
<1>6. CASE post'.at = "ok"
  <2>1. CASE q.awaited
    BY <1>1, <1>4, <1>5, <1>6, <2>1
  <2>2. CASE ~q.awaited
    BY <1>1, <1>3, <1>6, <2>2 DEF Delivered, Truthful
  <2> QED
    BY <2>1, <2>2
<1>7. ASSUME NEW rep \in Replicas, post.id \in dedup'[rep]
      PROVE  \A r \in Elems(buffer) : Settled(r)'
  <2>1. CASE post.id \in dedup[rep]
    BY <1>3, <2>1 DEF Delivered, Truthful
  <2>2. CASE post.id \notin dedup[rep]
    BY <1>4, <1>7, <2>2
  <2> QED
    BY <2>1, <2>2
<1> QED
  BY <1>6, <1>7

LEMMA QuietTruthful ==
    ASSUME Typed, Truthful, Grows, UNCHANGED <<mode, buffer, post, dedup>>
    PROVE  Truthful'
<1>1. \A r \in Elems(buffer) : Settled(r) => Settled(r)'
  BY GrowsSettled, ElemsType DEF Typed, TypeOK
<1> QED
  BY <1>1 DEF Truthful, Flushing

LEMMA QuietAcked ==
    ASSUME Typed, AckedIsStored, Grows, fate'.acked = fate.acked
    PROVE  AckedIsStored'
<1>1. fate.acked \subseteq Results
  BY DEF Typed, TypeOK
<1>2. \A r \in Results : Settled(r) => Settled(r)'
  BY GrowsSettled
<1> QED
  BY <1>1, <1>2 DEF AckedIsStored, Settled

LEMMA IngestDelivered ==
    ASSUME Typed, Delivered, NEW q \in requests, IngestResults(q)
    PROVE  Delivered'
<1>0. /\ Waiting /\ SameBody /\ Handled /\ Truthful /\ AckedIsStored
      /\ UNCHANGED <<mode, buffer, dedup, stored, blocks>>
  BY DEF Delivered, IngestResults
<1>k. PICK k : k = q.body \cap eligible
  OBVIOUS
<1>x. PICK x : x = [q EXCEPT !.at = "write", !.kept = k]
  OBVIOUS
<1>1. /\ q \in RequestType /\ k \in SUBSET Results /\ q.body \ k \in SUBSET Results
      /\ q.rep \in Replicas /\ q.body \subseteq Results
  BY <1>k DEF Typed, TypeOK, RequestType
<1>2. x.id = q.id /\ x.body = q.body /\ x.awaited = q.awaited /\ x.at = "write" /\ x.kept = k
  <2>1. q \in RequestType /\ k \in SUBSET Results
    BY <1>1
  <2> QED
    BY <1>x, <2>1 DEF RequestType
<1>3. CASE q.id \in dedup[q.rep] /\ requests' = requests \ {q} /\ Respond(q, "ok") /\ fate' = fate
  <2>1. Grows
    BY <1>0, <1>3 DEF Grows, Typed, TypeOK
  <2>2. Waiting'
    BY <1>0, <1>3, AnsweredWaiting
  <2>3. SameBody'
    BY <1>0, <1>3, Answered DEF SameBody, Flushing
  <2>4. Handled' /\ AckedIsStored'
    BY <1>0, <1>3, <2>1, StaysHandled, QuietAcked
  <2>5. q.awaited => \A r \in q.body : Settled(r)'
    <3> SUFFICES ASSUME q.awaited PROVE \A r \in q.body : Settled(r)'
      OBVIOUS
    <3>1. q.id = post.id /\ Flushing
      BY <1>0 DEF Waiting
    <3>2. q.body = Elems(buffer)
      BY <1>0, <3>1 DEF SameBody
    <3>3. \A r \in q.body : Settled(r)
      BY <1>0, <1>1, <1>3, <3>1, <3>2 DEF Truthful
    <3> QED
      BY <1>1, <2>1, <3>3, GrowsSettled
  <2>6. Truthful'
    BY <1>0, <1>3, <2>1, <2>5, AnsweredTruthful
  <2> QED
    BY <2>2, <2>3, <2>4, <2>6 DEF Delivered
<1>f. ASSUME fate' = [fate EXCEPT !.refused = @ \cup (q.body \ k)]
      PROVE  Grows /\ fate'.acked = fate.acked /\ fate'.refused = fate.refused \cup (q.body \ k)
  <2>1. fate'.acked = fate.acked /\ fate'.refused = fate.refused \cup (q.body \ k)
    BY <1>1, <1>f, Fates
  <2> QED
    BY <1>0, <2>1 DEF Grows, Typed, TypeOK
<1>4. CASE /\ fate' = [fate EXCEPT !.refused = @ \cup (q.body \ k)]
           /\ k = {} /\ requests' = requests \ {q} /\ Respond(q, "ok")
  <2>1. Grows /\ fate'.acked = fate.acked /\ \A r \in q.body : Settled(r)'
    BY <1>4, <1>f DEF Settled
  <2>2. Waiting'
    BY <1>0, <1>4, AnsweredWaiting
  <2>3. SameBody'
    BY <1>0, <1>4, Answered DEF SameBody, Flushing
  <2>4. Handled' /\ AckedIsStored'
    BY <1>0, <1>4, <2>1, StaysHandled, QuietAcked
  <2>5. Truthful'
    BY <1>0, <1>4, <2>1, AnsweredTruthful
  <2> QED
    BY <2>2, <2>3, <2>4, <2>5 DEF Delivered
<1>5. CASE /\ fate' = [fate EXCEPT !.refused = @ \cup (q.body \ k)]
           /\ requests' = (requests \ {q}) \cup {x} /\ post' = post
  <2>1. Grows /\ fate'.acked = fate.acked /\ Served(x)'
    BY <1>2, <1>5, <1>f DEF Served
  <2>2. Waiting' /\ SameBody'
    BY <1>0, <1>2, <1>5, MovedWaiting
  <2>3. Handled' /\ AckedIsStored'
    BY <1>0, <1>5, <2>1, StaysHandled, QuietAcked
  <2>4. Truthful'
    BY <1>0, <1>5, <2>1, QuietTruthful
  <2> QED
    BY <2>2, <2>3, <2>4 DEF Delivered
<1> QED
  BY <1>k, <1>x, <1>3, <1>4, <1>5, Ingests

LEMMA WriteDelivered ==
    ASSUME Typed, Delivered, NEW q \in requests, Write(q)
    PROVE  Delivered'
<1>0. /\ Waiting /\ SameBody /\ Handled /\ Truthful /\ AckedIsStored
      /\ UNCHANGED <<mode, buffer, dedup, fate>>
  BY DEF Delivered, Write
<1>x. PICK x : x = [q EXCEPT !.at = "mark"]
  OBVIOUS
<1>d. PICK d : d = ttl[q.rep]
  OBVIOUS
<1>1. /\ q \in RequestType /\ q.kept \in SUBSET Results /\ {} \in SUBSET Results /\ q.at = "write"
      /\ d \in Ttls
  BY <1>d, Writes
<1>2. x.id = q.id /\ x.body = q.body /\ x.awaited = q.awaited /\ x.at = "mark" /\ x.kept = q.kept
  BY <1>1, <1>x, Moved
<1>3. Insert(q.kept, d) \/ UNCHANGED <<stored, blocks>>
  BY <1>d, Writes
<1>b. PICK b : b = [rows |-> q.kept, ttl |-> d]
  OBVIOUS
<1>4. Grows
  <2>1. CASE Insert(q.kept, d)
    BY <1>0, <1>1, <1>b, <2>1, Inserted DEF Grows
  <2>2. CASE UNCHANGED <<stored, blocks>>
    BY <1>0, <2>2 DEF Grows, Typed, TypeOK
  <2> QED
    BY <1>3, <2>1, <2>2
<1>5. Insert(q.kept, d) => \A r \in q.kept : Stored(r)'
  <2> SUFFICES ASSUME Insert(q.kept, d), NEW r \in q.kept PROVE Stored(r)'
    OBVIOUS
  <2>1. r \in Results /\ stored[r][d] \in Nat
    BY <1>1 DEF Typed, TypeOK
  <2>2. CASE b \in blocks
    <3>1. Stored(r)
      BY <1>0, <2>2, <1>b DEF Handled
    <3> QED
      BY <1>4, <2>1, <3>1, GrowsSettled
  <2>3. CASE b \notin blocks
    <3>1. stored'[r][d] = stored[r][d] + 1
      BY <1>1, <1>b, <2>1, <2>3, Inserted
    <3>2. stored'[r][d] > 0
      BY <2>1, <3>1
    <3> QED
      BY <1>1, <3>2 DEF Stored
  <2> QED
    BY <2>2, <2>3
<1>6. \A c \in blocks' : c \in blocks \/ \A r \in c.rows : Stored(r)'
  <2>1. CASE Insert(q.kept, d)
    <3>1. blocks' = blocks \cup {b} /\ b.rows = q.kept
      BY <1>1, <1>b, <2>1, Inserted
    <3> QED
      BY <1>5, <2>1, <3>1
  <2> QED
    BY <1>3, <2>1
<1>7. AckedIsStored'
  BY <1>0, <1>4, QuietAcked
<1>8. CASE Insert(q.kept, d) /\ requests' = (requests \ {q}) \cup {x} /\ UNCHANGED <<post, left>>
  <2>1. Served(x)'
    <3>1. \A r \in q.body \ q.kept : r \in fate.refused
      BY <1>0, <1>1 DEF Handled
    <3> QED
      BY <1>0, <1>2, <1>5, <1>8, <3>1 DEF Served
  <2>2. Waiting' /\ SameBody'
    BY <1>0, <1>2, <1>8, MovedWaiting
  <2>3. Handled'
    BY <1>0, <1>4, <1>6, <1>8, <2>1, StaysHandled
  <2>4. Truthful'
    BY <1>0, <1>4, <1>8, QuietTruthful
  <2> QED
    BY <1>7, <2>2, <2>3, <2>4 DEF Delivered
<1>9. CASE requests' = requests \ {q} /\ Respond(q, "failed")
  <2>1. Waiting'
    BY <1>0, <1>9, AnsweredWaiting
  <2>2. SameBody'
    BY <1>0, <1>9, Answered DEF SameBody, Flushing
  <2>3. Handled'
    BY <1>0, <1>4, <1>6, <1>9, StaysHandled
  <2>4. Truthful'
    BY <1>0, <1>4, <1>9, AnsweredTruthful
  <2> QED
    BY <1>7, <2>1, <2>2, <2>3, <2>4 DEF Delivered
<1> QED
  BY <1>d, <1>x, <1>8, <1>9, Writes

LEMMA FailDelivered ==
    ASSUME Typed, Delivered, NEW q \in requests, Fail(q)
    PROVE  Delivered'
<1>0. /\ Waiting /\ SameBody /\ Handled /\ Truthful /\ AckedIsStored
      /\ UNCHANGED <<mode, buffer, dedup, stored, blocks, fate>>
      /\ requests' = requests \ {q} /\ Respond(q, "failed")
  BY DEF Delivered, Fail
<1>1. Grows
  BY <1>0 DEF Grows, Typed, TypeOK
<1>2. Waiting'
  BY <1>0, AnsweredWaiting
<1>3. SameBody'
  BY <1>0, Answered DEF SameBody, Flushing
<1>4. Handled' /\ AckedIsStored'
  BY <1>0, <1>1, StaysHandled, QuietAcked
<1>5. Truthful'
  BY <1>0, <1>1, AnsweredTruthful
<1> QED
  BY <1>2, <1>3, <1>4, <1>5 DEF Delivered

LEMMA MarkDelivered ==
    ASSUME Typed, Delivered, NEW q \in requests, Mark(q)
    PROVE  Delivered'
<1>0. /\ Waiting /\ SameBody /\ Handled /\ Truthful /\ AckedIsStored
      /\ UNCHANGED <<mode, buffer, stored, blocks, fate>>
      /\ q.at = "mark" /\ requests' = requests \ {q} /\ Respond(q, "ok")
  BY DEF Delivered, Mark
<1>1. q.body \subseteq Results /\ dedup \in [Replicas -> SUBSET Nat]
  BY DEF Typed, TypeOK, RequestType
<1>2. Grows
  BY <1>0 DEF Grows, Typed, TypeOK
<1>3. \A r \in q.body : Settled(r)'
  BY <1>0 DEF Handled, Settled, Stored
<1>4. \A rep \in Replicas : dedup'[rep] \subseteq dedup[rep] \cup {q.id}
  BY <1>1 DEF Mark
<1>5. Waiting'
  BY <1>0, AnsweredWaiting
<1>6. SameBody'
  BY <1>0, Answered DEF SameBody, Flushing
<1>7. Handled' /\ AckedIsStored'
  BY <1>0, <1>2, StaysHandled, QuietAcked
<1>8. Truthful'
  BY <1>0, <1>2, <1>3, <1>4, AnsweredTruthful
<1> QED
  BY <1>5, <1>6, <1>7, <1>8 DEF Delivered

LEMMA InitDelivered == Init => Delivered
<1> SUFFICES ASSUME Init PROVE Delivered
  OBVIOUS
<1>1. requests = {} /\ blocks = {} /\ ~Flushing /\ post.at = "none" /\ fate.acked = {}
  BY DEF Init, Flushing, NoPost
<1> QED
  BY <1>1 DEF Delivered, Waiting, SameBody, Handled, Truthful, AckedIsStored

LEMMA NextDelivered ==
    ASSUME Typed, Delivered, [Next]_vars
    PROVE  Delivered'
<1>1. CASE Produce
  <2>1. fate'.refused = fate.refused /\ fate'.acked = fate.acked
    BY <1>1 DEF Produce, Typed, TypeOK
  <2> QED
    BY <1>1, <2>1, QuietDelivered DEF Produce
<1>2. CASE Receive
  <2>1. Head(chan) \in Results
    BY <1>2, ElemsType DEF Receive, Typed, TypeOK
  <2>2. PICK D \in SUBSET Results : fate' = [fate EXCEPT !.counted = @ \cup D]
    BY <1>2, <2>1, Pushed DEF Receive
  <2>3. fate'.refused = fate.refused /\ fate'.acked = fate.acked
    BY <2>2, Fates
  <2>4. /\ mode = "loop" /\ UNCHANGED <<requests, stored, blocks>>
        /\ StartFlush("flush") \/ UNCHANGED <<mode, post, dedup>>
    BY <1>2 DEF Receive
  <2> QED
    BY <2>3, <2>4, LoopDelivered DEF Flushing
<1>3. CASE Tick
  BY <1>3, LoopDelivered DEF Tick, Flushing
<1>4. CASE Shutdown
  <2>1. fate'.refused = fate.refused /\ fate'.acked = fate.acked
    <3>1. fate' = [fate EXCEPT !.counted = @ \cup Cut] /\ Cut \in SUBSET Results
      BY <1>4, Drops, Drains
    <3> QED
      BY <3>1, Fates
  <2>2. /\ mode = "loop" /\ UNCHANGED <<requests, stored, blocks>>
        /\ StartFlush("last") \/ (mode' = "done" /\ post' = post)
    BY <1>4, Drops
  <2> QED
    BY <2>1, <2>2, LoopDelivered DEF Flushing
<1>5. CASE Sink
  BY <1>5, PostDelivered, TimeoutDelivered, RetryDelivered, FlushDoneDelivered DEF Sink
<1>6. CASE \E q \in requests : Handler(q)
  BY <1>6, FailDelivered, IngestDelivered, WriteDelivered, MarkDelivered DEF Handler
<1>7. CASE \E rep \in Replicas : Restart(rep)
  <2>1. PICK rep \in Replicas : Restart(rep)
    BY <1>7
  <2>2. \A s \in Replicas : dedup'[s] \subseteq dedup[s]
    BY <2>1 DEF Restart, Typed, TypeOK
  <2> QED
    BY <2>1, <2>2, QuietDelivered DEF Restart
<1>8. CASE (\E rep \in Replicas : Refresh(rep)) \/ Requalify \/ Cancel \/ UNCHANGED vars
  BY <1>8, QuietDelivered DEF Refresh, Requalify, Cancel, vars
<1> QED
  BY <1>1, <1>2, <1>3, <1>4, <1>5, <1>6, <1>7, <1>8 DEF Next, Batcher

\* What the agent lets go of as delivered is in the store or was refused, for any number
\* of replicas, faults, retries and changes of what the handlers keep.
THEOREM AckedSafe == Spec => []AckedIsStored
<1>1. Init => Typed /\ Delivered
  BY InitTyped, InitDelivered
<1>2. Typed /\ Delivered /\ [Next]_vars => (Typed /\ Delivered)'
  BY NextTyped, NextDelivered
<1>3. Delivered => AckedIsStored
  BY DEF Delivered
<1> QED
  BY <1>1, <1>2, <1>3, PTL DEF Spec

-----------------------------------------------------------------------------
(* How often a result can be stored.                                       *)

LEMMA FinitelyMany ==
    ASSUME NEW S \in SUBSET SUBSET Results
    PROVE  IsFiniteSet(S) /\ Cardinality(S) \in Nat
<1>1. IsFiniteSet(Results)
  BY FS_Interval, Constants DEF Results
<1>2. IsFiniteSet(SUBSET Results)
  BY <1>1, FS_SUBSET
<1>3. IsFiniteSet(S)
  BY <1>2, FS_Subset
<1> QED
  BY <1>3, FS_CardinalityType

LEMMA FlushesType ==
    ASSUME Typed, NEW r \in Results
    PROVE  Flushes(r) \in 0..MaxFlushRetries
BY Constants DEF Typed, TypeOK, Flushes

LEMMA FlushesNext ==
    ASSUME Typed', NEW r \in Results
    PROVE  Flushes(r)' \in Nat
<1>1. retries' \in Nat /\ MaxFlushRetries \in Nat
  BY Constants DEF Typed, TypeOK
<1>2. PICK one \in Nat : one = IF Flushing' THEN 1 ELSE 0
  OBVIOUS
<1>3. retries' + one \in Nat
  <2>1. PICK n \in Nat : n = retries'
    BY <1>1
  <2>2. n + one \in Nat
    OBVIOUS
  <2> QED
    BY <2>1, <2>2
<1> QED
  BY <1>1, <1>2, <1>3 DEF Flushes

LEMMA NumbersType ==
    ASSUME Typed
    PROVE  /\ produced \in Nat /\ retries \in Nat /\ retries + 1 <= MaxFlushRetries
           /\ Elems(buffer) \subseteq Results /\ Elems(chan) \subseteq Results /\ Results \subseteq Nat
BY Constants, ElemsType DEF Typed, TypeOK, Results

\* What a handler kept.
ReqShape(q, V) == q.at # "net" => \E v \in V : q.kept = q.body \cap v

LEMMA ShapesKept ==
    ASSUME NEW V, Shapes(V), eligible' = eligible, left'.changes = left.changes,
           \A q \in requests' : q \in requests \/ ReqShape(q, V)
    PROVE  Shapes(V)'
BY DEF Shapes, ReqShape

\* Where the bodies and the blocks after a step come from.
Traces ==
    /\ \A x \in requests' :
          (\E q \in requests : x.body = q.body) \/ (Flushing /\ x.body = Elems(buffer))
    /\ \A b \in blocks' : b \in blocks \/ \E q \in requests : q.at # "net" /\ b.rows = q.kept

LEMMA CoversKept ==
    ASSUME Typed, NEW V, Shapes(V), Traces, NEW r \in Results, NEW B \in SUBSET SUBSET Results,
           Covers(r, B, V),
           Flushing' /\ r \in Elems(buffer)' => Flushing /\ Elems(buffer)' = Elems(buffer)
    PROVE  Covers(r, B, V)'
<1>1. \A q \in requests' : r \in q.body => q.body \in B
  BY DEF Traces, Covers
<1>2. ASSUME NEW b \in blocks', r \in b.rows
      PROVE  \E c \in B : \E v \in V : b.rows = c \cap v
  <2>1. CASE b \in blocks
    BY <1>2, <2>1 DEF Covers
  <2>2. CASE \E q \in requests : q.at # "net" /\ b.rows = q.kept
    <3>1. PICK q \in requests : q.at # "net" /\ b.rows = q.kept
      BY <2>2
    <3>2. PICK v \in V : b.rows = q.body \cap v
      BY <3>1 DEF Shapes
    <3>3. q.body \in B
      BY <1>2, <3>2 DEF Covers
    <3> QED
      BY <3>2, <3>3
  <2> QED
    BY <2>1, <2>2 DEF Traces
<1>3. Flushing' /\ r \in Elems(buffer)' => Elems(buffer)' \in B
  BY DEF Covers
<1> QED
  BY <1>1, <1>2, <1>3 DEF Covers

\* Steps that start no flush.
LEMMA FlushesKept ==
    ASSUME Typed, Typed', NEW V, Shapes(V), FewFlushes(V), Traces,
           Flushing' => Flushing /\ Elems(buffer)' = Elems(buffer),
           \A r \in Results : Flushes(r) <= Flushes(r)'
    PROVE  FewFlushes(V)'
<1> SUFFICES ASSUME NEW r \in Results
             PROVE  \E B \in SUBSET SUBSET Results : Covers(r, B, V)' /\ Cardinality(B) <= Flushes(r)'
  BY DEF FewFlushes
<1>1. PICK B \in SUBSET SUBSET Results : Covers(r, B, V) /\ Cardinality(B) <= Flushes(r)
  BY DEF FewFlushes
<1>2. Covers(r, B, V)'
  BY <1>1, CoversKept
<1>3. Flushes(r) \in Nat
  BY FlushesType
<1>4. Flushes(r)' \in Nat
  BY FlushesNext
<1>5. Cardinality(B) \in Nat
  BY FinitelyMany
<1>6. Cardinality(B) <= Flushes(r)'
  BY <1>1, <1>3, <1>4, <1>5
<1> QED
  BY <1>2, <1>6

\* The start of a flush is one more body.
LEMMA FlushesStarted ==
    ASSUME Typed, Typed', NEW V, Shapes(V), FewFlushes(V), UNCHANGED <<requests, blocks, left>>,
           \A r \in Results : Flushes(r) + (IF r \in Elems(buffer)' THEN 1 ELSE 0) <= Flushes(r)'
    PROVE  FewFlushes(V)'
<1> SUFFICES ASSUME NEW r \in Results
             PROVE  \E B \in SUBSET SUBSET Results : Covers(r, B, V)' /\ Cardinality(B) <= Flushes(r)'
  BY DEF FewFlushes
<1>1. PICK B \in SUBSET SUBSET Results : Covers(r, B, V) /\ Cardinality(B) <= Flushes(r)
  BY DEF FewFlushes
<1>2. Flushes(r) \in Nat
  BY FlushesType
<1>3. Flushes(r)' \in Nat
  BY FlushesNext
<1>4. Cardinality(B) \in Nat /\ IsFiniteSet(B)
  BY FinitelyMany
<1>5. Traces
  BY DEF Traces
<1>6. CASE r \notin Elems(buffer)'
  <2>1. Covers(r, B, V)'
    BY <1>1, <1>5, <1>6, CoversKept
  <2>2. Cardinality(B) <= Flushes(r)'
    BY <1>1, <1>2, <1>3, <1>4, <1>6
  <2> QED
    BY <2>1, <2>2
<1>7. CASE r \in Elems(buffer)'
  <2>1. PICK b : b = Elems(buffer)'
    OBVIOUS
  <2>2. b \in SUBSET Results
    BY <2>1 DEF Typed, TypeOK, Elems
  <2>3. B \cup {b} \in SUBSET SUBSET Results
    BY <2>2
  <2>4. Cardinality(B \cup {b}) <= Cardinality(B) + 1
    <3>1. Cardinality(B \cup {b}) = IF b \in B THEN Cardinality(B) ELSE Cardinality(B) + 1
      BY <1>4, FS_AddElement
    <3> QED
      BY <1>4, <3>1
  <2>5. Cardinality(B \cup {b}) \in Nat
    BY <2>3, FinitelyMany
  <2>6. Cardinality(B \cup {b}) <= Flushes(r)'
    BY <1>1, <1>2, <1>3, <1>4, <1>7, <2>4, <2>5
  <2>7. Covers(r, B \cup {b}, V)'
    BY <1>1, <2>1 DEF Covers, Copies
  <2> QED
    BY <2>3, <2>6, <2>7
<1> QED
  BY <1>6, <1>7

LEMMA CopiesKept ==
    ASSUME CopiesCounted, UNCHANGED <<stored, blocks>>
    PROVE  CopiesCounted'
BY DEF CopiesCounted, Copies

\* The copies of a result are finitely many.
LEMMA CopiesFinite ==
    ASSUME Typed, NEW r \in Results, NEW t \in Ttls
    PROVE  IsFiniteSet(Copies(r, t)) /\ Cardinality(Copies(r, t)) \in Nat
<1> DEFINE S == SUBSET Results
           T == {[rows |-> k, ttl |-> t] : k \in S}
           f == [k \in S |-> [rows |-> k, ttl |-> t]]
<1>1. IsFiniteSet(S)
  <2>1. S \in SUBSET SUBSET Results
    OBVIOUS
  <2> QED
    BY <2>1, FinitelyMany
<1>2. f \in [S -> T] /\ \A y \in T : \E x \in S : f[x] = y
  OBVIOUS
<1>3. Copies(r, t) \subseteq T
  BY DEF Copies, Typed, TypeOK
<1> HIDE DEF S, T, f
<1>4. IsFiniteSet(T)
  BY <1>1, <1>2, FiniteImage
<1>5. IsFiniteSet(Copies(r, t))
  BY <1>3, <1>4, FS_Subset
<1> QED
  BY <1>5, FS_CardinalityType

LEMMA CopiesInserted ==
    ASSUME Typed, CopiesCounted, NEW k \in SUBSET Results, NEW d \in Ttls, Insert(k, d)
    PROVE  CopiesCounted'
<1> SUFFICES ASSUME NEW r \in Results, NEW t \in Ttls
             PROVE  stored'[r][t] = Cardinality(Copies(r, t)')
  BY DEF CopiesCounted
<1>b. PICK b : b = [rows |-> k, ttl |-> d]
  OBVIOUS
<1>1. /\ blocks' = blocks \cup {b} /\ b.rows = k /\ b.ttl = d
      /\ stored'[r][t] = IF r \in k /\ t = d /\ b \notin blocks THEN stored[r][t] + 1
                         ELSE stored[r][t]
  BY <1>b, Inserted
<1>2. IsFiniteSet(Copies(r, t)) /\ stored[r][t] = Cardinality(Copies(r, t))
  BY CopiesFinite DEF CopiesCounted
<1>3. CASE r \in k /\ t = d /\ b \notin blocks
  <2>1. Copies(r, t)' = Copies(r, t) \cup {b} /\ b \notin Copies(r, t)
    BY <1>1, <1>3 DEF Copies
  <2>2. Cardinality(Copies(r, t) \cup {b}) = Cardinality(Copies(r, t)) + 1
    BY <1>2, <2>1, FS_AddElement
  <2> QED
    BY <1>1, <1>2, <1>3, <2>1, <2>2
<1>4. CASE ~(r \in k /\ t = d /\ b \notin blocks)
  <2>1. Copies(r, t)' = Copies(r, t)
    BY <1>1, <1>4 DEF Copies
  <2> QED
    BY <1>1, <1>2, <1>4, <2>1
<1> QED
  BY <1>3, <1>4

LEMMA ProductGrows ==
    ASSUME NEW a \in Nat, NEW b \in Nat, NEW c \in Nat, NEW d \in Nat, a <= c, b <= d
    PROVE  a * b <= c * d /\ a * b \in Nat /\ c * d \in Nat
<1>1. a * b \in Nat /\ c * b \in Nat /\ c * d \in Nat
  OBVIOUS
<1>2. a * b <= c * b
  OBVIOUS
<1>3. c * b <= c * d
  OBVIOUS
<1> QED
  BY <1>1, <1>2, <1>3

\* The copies of a result with one retention are bodies of its flushes, each cut down to
\* what the handlers kept at some time.
LEMMA CopiesBounded ==
    ASSUME Typed, NEW V \in SUBSET SUBSET Results, Counted(V)
    PROVE  StoredBounded
<1> SUFFICES ASSUME NEW r \in Results, NEW t \in Ttls
             PROVE  stored[r][t] <= Flushes(r) * (1 + (MaxChanges - left.changes))
  BY DEF StoredBounded
<1>1. PICK B \in SUBSET SUBSET Results : Covers(r, B, V) /\ Cardinality(B) <= Flushes(r)
  BY DEF Counted, FewFlushes
<1>2. /\ Flushes(r) \in Nat /\ 1 + (MaxChanges - left.changes) \in Nat
      /\ Cardinality(V) <= 1 + (MaxChanges - left.changes)
  <2>1. Flushes(r) \in Nat
    BY FlushesType, Constants
  <2>2. left.changes \in 0..MaxChanges /\ MaxChanges \in Nat
    BY Constants DEF Typed, TypeOK
  <2>3. 1 + (MaxChanges - left.changes) \in Nat
    BY <2>2
  <2> QED
    BY <2>1, <2>3 DEF Counted, Shapes
<1>3. /\ IsFiniteSet(B) /\ Cardinality(B) \in Nat
      /\ IsFiniteSet(V) /\ Cardinality(V) \in Nat
  BY FinitelyMany
<1>4. stored[r][t] = Cardinality(Copies(r, t)) /\ Cardinality(Copies(r, t)) \in Nat
  BY CopiesFinite DEF Counted, CopiesCounted
<1> DEFINE P == B \X V
           C == {[rows |-> p[1] \cap p[2], ttl |-> t] : p \in P}
           f == [p \in P |-> [rows |-> p[1] \cap p[2], ttl |-> t]]
<1>5. IsFiniteSet(P) /\ Cardinality(P) = Cardinality(B) * Cardinality(V)
  BY <1>3, FS_Product
<1>6. f \in [P -> C] /\ \A y \in C : \E x \in P : f[x] = y
  OBVIOUS
<1>7. Copies(r, t) \subseteq C
  <2> SUFFICES ASSUME NEW b \in blocks, r \in b.rows, b.ttl = t PROVE b \in C
    BY DEF Copies
  <2>1. PICK c \in B, v \in V : b.rows = c \cap v
    BY <1>1 DEF Covers
  <2>2. b = [rows |-> c \cap v, ttl |-> t]
    BY <2>1 DEF Typed, TypeOK
  <2>3. <<c, v>> \in P /\ <<c, v>>[1] = c /\ <<c, v>>[2] = v
    OBVIOUS
  <2> QED
    BY <2>2, <2>3
<1> HIDE DEF P, C, f
<1>8. IsFiniteSet(C) /\ Cardinality(C) <= Cardinality(P)
  BY <1>5, <1>6, FiniteImage
<1>9. Cardinality(Copies(r, t)) <= Cardinality(C) /\ Cardinality(C) \in Nat
  BY <1>7, <1>8, FS_Subset, FS_CardinalityType
<1>10. /\ Cardinality(B) * Cardinality(V) <= Flushes(r) * (1 + (MaxChanges - left.changes))
       /\ Cardinality(B) * Cardinality(V) \in Nat
       /\ Flushes(r) * (1 + (MaxChanges - left.changes)) \in Nat
  BY <1>1, <1>2, <1>3, ProductGrows
<1> QED
  BY <1>4, <1>5, <1>8, <1>9, <1>10

\* The values of Flushes, before and after a step.
LEMMA FlushesIs ==
    ASSUME Typed, NEW r \in Results
    PROVE  /\ r \in Elems(buffer) /\ Flushing => Flushes(r) = retries + 1
           /\ r \in Elems(buffer) /\ ~Flushing => Flushes(r) = retries
           /\ r \notin Elems(buffer) /\ (r \in Elems(chan) \/ r > produced) => Flushes(r) = 0
           /\ r \notin Elems(buffer) /\ ~(r \in Elems(chan) \/ r > produced)
                 => Flushes(r) = MaxFlushRetries
<1>1. retries \in Nat /\ retries + 0 = retries
  BY NumbersType
<1> QED
  BY <1>1 DEF Flushes

LEMMA FlushesThen ==
    ASSUME Typed', NEW r \in Results
    PROVE  /\ r \in Elems(buffer)' /\ Flushing' => Flushes(r)' = retries' + 1
           /\ r \in Elems(buffer)' /\ ~Flushing' => Flushes(r)' = retries'
           /\ r \notin Elems(buffer)' /\ (r \in Elems(chan)' \/ r > produced') => Flushes(r)' = 0
           /\ r \notin Elems(buffer)' /\ ~(r \in Elems(chan)' \/ r > produced')
                 => Flushes(r)' = MaxFlushRetries
<1>1. PICK n \in Nat : n = retries'
  BY Constants DEF Typed, TypeOK
<1>2. n + 0 = n
  OBVIOUS
<1> QED
  BY <1>1, <1>2 DEF Flushes

LEMMA FlushesSame ==
    ASSUME Typed, Typed', UNCHANGED <<buffer, chan, produced, retries, mode>>
    PROVE  \A r \in Results : Flushes(r) <= Flushes(r)'
<1> SUFFICES ASSUME NEW r \in Results PROVE Flushes(r) <= Flushes(r)'
  OBVIOUS
<1>1. Flushes(r) = Flushes(r)'
  BY DEF Flushes, Flushing
<1>2. Flushes(r) \in Nat
  BY FlushesType
<1> QED
  BY <1>1, <1>2

\* Steps that leave the agent's queues alone.
LEMMA RemoteCounted ==
    ASSUME Typed, Typed', NEW V, Counted(V), Traces, Shapes(V)', CopiesCounted',
           UNCHANGED <<buffer, chan, produced, retries, mode>>
    PROVE  Counted(V)'
<1>1. Places'
  BY DEF Counted, Places
<1>2. FewFlushes(V)'
  <2>1. Flushing' => Flushing /\ Elems(buffer)' = Elems(buffer)
    BY DEF Flushing
  <2>2. \A r \in Results : Flushes(r) <= Flushes(r)'
    BY FlushesSame
  <2> QED
    BY <2>1, <2>2, FlushesKept DEF Counted
<1> QED
  BY <1>1, <1>2 DEF Counted

\* Steps of the agent alone.
LEMMA LocalCounted ==
    ASSUME Typed, Typed', NEW V, Counted(V), UNCHANGED <<requests, stored, blocks, eligible, left>>, Places',
           \/ /\ Flushing' => Flushing /\ Elems(buffer)' = Elems(buffer)
              /\ \A r \in Results : Flushes(r) <= Flushes(r)'
           \/ \A r \in Results : Flushes(r) + (IF r \in Elems(buffer)' THEN 1 ELSE 0) <= Flushes(r)'
    PROVE  Counted(V)'
<1>1. Traces
  BY DEF Traces
<1>2. Shapes(V)'
  BY DEF Counted, Shapes
<1>3. CopiesCounted'
  BY CopiesKept DEF Counted
<1>4. FewFlushes(V)'
  BY <1>1, FlushesKept, FlushesStarted DEF Counted
<1> QED
  BY <1>2, <1>3, <1>4 DEF Counted

LEMMA ProduceCounted ==
    ASSUME Typed, Typed', NEW V, Counted(V), Produce
    PROVE  Counted(V)'
<1>0. Places /\ produced' = produced + 1 /\ UNCHANGED <<buffer, retries, mode>>
  BY DEF Counted, Produce
<1>1. /\ produced \in Nat /\ retries \in Nat /\ retries + 1 <= MaxFlushRetries
      /\ Elems(buffer) \subseteq Results /\ Elems(chan) \subseteq Results /\ Results \subseteq Nat
      /\ MaxFlushRetries \in Nat
  BY NumbersType, Constants
<1>2. produced + 1 \in Results /\ chan \in Seq(Results)
  <2>1. produced < MaxResults /\ MaxResults \in Nat /\ chan \in Seq(Results)
    BY Constants DEF Typed, TypeOK, Produce
  <2> QED
    BY <1>1, <2>1 DEF Results
<1>3. chan' = Append(chan, produced + 1) \/ chan' = chan
  BY DEF Produce
<1>4. Elems(chan)' = Elems(chan) \/ Elems(chan)' = Elems(chan) \cup {produced + 1}
  BY <1>2, <1>3, ElemsAppend
<1>5. produced + 1 \notin Elems(chan) /\ produced + 1 \notin Elems(buffer)
  BY <1>0, <1>1 DEF Places
<1>6. Places'
  <2>1. \A i, j \in 1..Len(chan') : chan'[i] = chan'[j] => i = j
    <3>1. CASE chan' = chan
      BY <1>0, <3>1 DEF Places
    <3>2. CASE chan' = Append(chan, produced + 1)
      <4>1. /\ Len(chan') = Len(chan) + 1 /\ Len(chan) \in Nat
            /\ \A i \in 1..Len(chan) : chan'[i] = chan[i] /\ chan[i] # produced + 1
            /\ chan'[Len(chan) + 1] = produced + 1
        BY <1>2, <1>5, <3>2 DEF Elems
      <4>2. \A i \in 1..Len(chan') : i \in 1..Len(chan) \/ i = Len(chan) + 1
        BY <4>1
      <4> QED
        BY <1>0, <4>1, <4>2 DEF Places
    <3> QED
      BY <1>3, <3>1, <3>2
  <2>a. Elems(buffer)' = Elems(buffer)
    BY <1>0
  <2>b. \A r \in Elems(buffer) \cup Elems(chan) : r <= produced + 1
    <3> SUFFICES ASSUME NEW r \in Nat, r <= produced PROVE r <= produced + 1
      BY <1>0, <1>1 DEF Places
    <3> QED
      BY <1>1
  <2>c. produced + 1 <= produced + 1 /\ \A r \in Elems(chan) : r \notin Elems(buffer)
    BY <1>0, <1>1 DEF Places
  <2>2. \A r \in Elems(chan)' : r <= produced' /\ r \notin Elems(buffer)'
    BY <1>0, <1>4, <1>5, <2>a, <2>b, <2>c
  <2>3. \A r \in Elems(buffer)' : r <= produced'
    BY <1>0, <2>a, <2>b
  <2> QED
    BY <2>1, <2>2, <2>3 DEF Places
<1>7. ASSUME NEW r \in Results PROVE Flushes(r) <= Flushes(r)'
  <2>1. CASE r \in Elems(buffer)
    <3>1. Flushes(r)' = Flushes(r)
      BY <1>0, <2>1 DEF Flushes, Flushing
    <3>2. Flushes(r) \in Nat
      BY FlushesType
    <3> QED
      BY <3>1, <3>2
  <2>2. CASE r \notin Elems(buffer) /\ (r \in Elems(chan) \/ r > produced)
    <3>1. Flushes(r) = 0 /\ Flushes(r)' \in Nat
      BY <2>2, FlushesIs, FlushesNext
    <3> QED
      BY <3>1
  <2>3. CASE r \notin Elems(buffer) /\ ~(r \in Elems(chan) \/ r > produced)
    <3>1. r \notin Elems(buffer)' /\ ~(r \in Elems(chan)' \/ r > produced')
      BY <1>0, <1>1, <1>4, <2>3
    <3>2. Flushes(r)' = MaxFlushRetries
      BY <3>1, FlushesThen
    <3> QED
      BY <1>1, <3>2, FlushesType
  <2> QED
    BY <2>1, <2>2, <2>3
<1>8. Flushing' => Flushing /\ Elems(buffer)' = Elems(buffer)
  BY <1>0 DEF Flushing
<1> QED
  BY <1>6, <1>7, <1>8, LocalCounted DEF Produce

\* A step of the batcher's loop: results move from the channel to the buffer or out of it.
\* None of them loses the count of its flushes, and one more is allowed for when a flush starts.
LEMMA LoopFlushes ==
    ASSUME Typed, Typed', Places, ~Flushing, UNCHANGED <<retries, produced>>,
           Elems(buffer)' \subseteq Elems(buffer) \cup Elems(chan),
           Elems(chan)' \subseteq Elems(chan), NEW r \in Results
    PROVE  Flushes(r) + (IF Flushing' /\ r \in Elems(buffer)' THEN 1 ELSE 0) <= Flushes(r)'
<1>1. /\ produced \in Nat /\ retries \in Nat /\ retries + 1 <= MaxFlushRetries
      /\ Results \subseteq Nat /\ MaxFlushRetries \in Nat /\ Elems(chan) \subseteq Results
      /\ Elems(buffer) \subseteq Results
  BY NumbersType, Constants
<1>2. CASE r \in Elems(buffer)'
  <2>1. Flushes(r) \in {0, retries}
    BY <1>2, FlushesIs
  <2>2. Flushes(r)' = IF Flushing' THEN retries + 1 ELSE retries
    BY <1>2, FlushesThen
  <2> QED
    BY <1>1, <1>2, <2>1, <2>2
<1>3. CASE r \notin Elems(buffer)'
  <2>1. CASE r \in Elems(buffer)
    <3>1. r \notin Elems(chan)' /\ ~(r > produced')
      BY <1>1, <2>1 DEF Places
    <3>2. Flushes(r)' = MaxFlushRetries /\ Flushes(r) \in 0..MaxFlushRetries
      BY <1>3, <3>1, FlushesThen, FlushesType
    <3> QED
      BY <1>1, <1>3, <3>2
  <2>2. CASE r \notin Elems(buffer) /\ (r \in Elems(chan) \/ r > produced)
    <3>1. Flushes(r) = 0 /\ Flushes(r)' \in Nat
      BY <2>2, FlushesIs, FlushesNext
    <3> QED
      BY <1>3, <3>1
  <2>3. CASE r \notin Elems(buffer) /\ ~(r \in Elems(chan) \/ r > produced)
    <3>1. r \notin Elems(chan)' /\ ~(r > produced')
      BY <2>3
    <3>2. Flushes(r)' = MaxFlushRetries /\ Flushes(r) \in 0..MaxFlushRetries
      BY <1>3, <3>1, FlushesThen, FlushesType
    <3> QED
      BY <1>1, <1>3, <3>2
  <2> QED
    BY <2>1, <2>2, <2>3
<1> QED
  BY <1>2, <1>3

LEMMA LoopCounted ==
    ASSUME Typed, Typed', NEW V, Counted(V), ~Flushing,
           UNCHANGED <<retries, produced, requests, stored, blocks, eligible, left>>,
           Elems(buffer)' \subseteq Elems(buffer) \cup Elems(chan),
           Elems(chan)' \subseteq Elems(chan),
           \A r \in Elems(chan)' : r \notin Elems(buffer)',
           \A i, j \in 1..Len(chan') : chan'[i] = chan'[j] => i = j
    PROVE  Counted(V)'
<1>1. Places'
  BY DEF Counted, Places
<1>2. \A r \in Results :
         Flushes(r) + (IF Flushing' /\ r \in Elems(buffer)' THEN 1 ELSE 0) <= Flushes(r)'
  BY LoopFlushes DEF Counted
<1>3. CASE Flushing'
  BY <1>1, <1>2, <1>3, LocalCounted
<1>4. CASE ~Flushing'
  <2>1. ASSUME NEW r \in Results PROVE Flushes(r) <= Flushes(r)'
    <3>1. Flushes(r) + 0 <= Flushes(r)' /\ Flushes(r) \in Nat
      BY <1>2, <1>4, FlushesType
    <3> QED
      BY <3>1
  <2> QED
    BY <1>1, <1>4, <2>1, LocalCounted
<1> QED
  BY <1>3, <1>4

LEMMA ReceiveCounted ==
    ASSUME Typed, Typed', NEW V, Counted(V), Receive
    PROVE  Counted(V)'
<1>1. /\ chan \in Seq(Results) /\ chan # <<>> /\ Head(chan) \in Results
      /\ Head(chan) \in Elems(chan) /\ Places /\ mode = "loop"
  BY ElemsType DEF Typed, TypeOK, Receive, Counted
<1>2. PICK p : p = push_capped(buffer, Head(chan))
  OBVIOUS
<1>3. /\ buffer' = p.buffer /\ chan' = Tail(chan)
      /\ UNCHANGED <<retries, produced, requests, stored, blocks, eligible, left>>
  BY <1>2 DEF Receive
<1>4. Elems(buffer)' \subseteq Elems(buffer) \cup {Head(chan)}
  <2>1. Elems(p.buffer) \cup p.dropped = Elems(buffer) \cup {Head(chan)}
    BY <1>1, <1>2, Pushed
  <2> QED
    BY <1>3, <2>1
<1>5. /\ Len(chan') = Len(chan) - 1 /\ Len(chan) \in Nat /\ Len(chan) >= 1
      /\ \A i \in 1..(Len(chan) - 1) : chan'[i] = chan[i + 1]
      /\ Elems(chan) = Elems(chan)' \cup {Head(chan)} /\ Head(chan) = chan[1]
      /\ chan' \in Seq(Results)
  BY <1>1, <1>3, ElemsTail
<1>6. \A i, j \in 1..Len(chan') : chan'[i] = chan'[j] => i = j
  <2> SUFFICES ASSUME NEW i \in 1..(Len(chan) - 1), NEW j \in 1..(Len(chan) - 1),
                      chan'[i] = chan'[j]
               PROVE  i = j
    BY <1>5
  <2>1. i + 1 \in 1..Len(chan) /\ j + 1 \in 1..Len(chan) /\ chan[i + 1] = chan[j + 1]
    BY <1>5
  <2>2. i + 1 = j + 1
    BY <1>1, <2>1 DEF Places
  <2> QED
    BY <2>2
<1>7. Head(chan) \notin Elems(chan)'
  <2> SUFFICES ASSUME NEW i \in 1..(Len(chan) - 1), chan'[i] = chan[1] PROVE FALSE
    <3>1. DOMAIN chan' = 1..(Len(chan) - 1)
      BY <1>5
    <3> QED
      BY <1>5, <3>1 DEF Elems
  <2>1. i + 1 \in 1..Len(chan) /\ 1 \in 1..Len(chan) /\ chan[i + 1] = chan[1] /\ i + 1 # 1
    BY <1>5
  <2> QED
    BY <1>1, <2>1 DEF Places
<1>8. \A r \in Elems(chan)' : r \notin Elems(buffer)'
  BY <1>1, <1>4, <1>5, <1>7 DEF Places
<1> QED
  BY <1>1, <1>3, <1>4, <1>5, <1>6, <1>8, LoopCounted DEF Flushing

LEMMA ShutdownCounted ==
    ASSUME Typed, Typed', NEW V, Counted(V), Shutdown
    PROVE  Counted(V)'
<1>1. /\ mode = "loop" /\ chan' = <<>> /\ buffer' = Kept
      /\ UNCHANGED <<retries, produced, requests, stored, blocks, eligible, left>>
  BY Drops
<1>2. Elems(buffer)' \subseteq Elems(buffer) \cup Elems(chan)
  BY <1>1, Drains
<1>3. Elems(chan)' = {} /\ Len(chan') = 0
  BY <1>1, ElemsEmpty
<1> QED
  BY <1>1, <1>2, <1>3, LoopCounted DEF Flushing

LEMMA TickCounted ==
    ASSUME Typed, Typed', NEW V, Counted(V), Tick
    PROVE  Counted(V)'
<1>1. /\ mode = "loop" /\ Places
      /\ UNCHANGED <<buffer, chan, retries, produced, requests, stored, blocks, eligible, left>>
  BY DEF Tick, Counted
<1> QED
  BY <1>1, LoopCounted DEF Flushing, Places

LEMMA FlushDoneCounted ==
    ASSUME Typed, Typed', NEW V, Counted(V), NEW ok \in BOOLEAN, Flushing, FlushDone(ok)
    PROVE  Counted(V)'
<1>1. /\ produced \in Nat /\ retries \in Nat /\ retries + 1 <= MaxFlushRetries
      /\ Results \subseteq Nat /\ MaxFlushRetries \in Nat /\ Places
  BY NumbersType, Constants DEF Counted
<1>2. /\ buffer' = <<>> \/ (buffer' = buffer /\ retries' = retries + 1)
      /\ UNCHANGED <<produced, chan, requests, stored, blocks, eligible, left>> /\ ~Flushing'
  BY DEF FlushDone, flush_ok, flush_err, Flushing
<1>3. Elems(buffer)' = {} \/ (Elems(buffer)' = Elems(buffer) /\ retries' = retries + 1)
  BY <1>2, ElemsEmpty
<1>4. Places'
  BY <1>1, <1>2, <1>3 DEF Places
<1>5. ASSUME NEW r \in Results PROVE Flushes(r) <= Flushes(r)'
  <2>1. CASE r \in Elems(buffer)
    <3>1. Flushes(r) = retries + 1
      BY <2>1, FlushesIs
    <3>2. CASE r \in Elems(buffer)'
      <4>1. Flushes(r)' = retries + 1
        BY <1>2, <1>3, <3>2, FlushesThen
      <4> QED
        BY <1>1, <3>1, <4>1
    <3>3. CASE r \notin Elems(buffer)'
      <4>1. r \notin Elems(chan)' /\ ~(r > produced')
        BY <1>1, <1>2, <2>1 DEF Places
      <4>2. Flushes(r)' = MaxFlushRetries
        BY <3>3, <4>1, FlushesThen
      <4> QED
        BY <1>1, <3>1, <4>2
    <3> QED
      BY <3>2, <3>3
  <2>2. CASE r \notin Elems(buffer)
    <3>1. r \notin Elems(buffer)'
      BY <1>3, <2>2
    <3>2. Flushes(r)' = Flushes(r)
      BY <1>2, <2>2, <3>1 DEF Flushes
    <3>3. Flushes(r) \in Nat
      BY FlushesType
    <3> QED
      BY <3>2, <3>3
  <2> QED
    BY <2>1, <2>2
<1> QED
  BY <1>2, <1>4, <1>5, LocalCounted

LEMMA PostCounted ==
    ASSUME Typed, Typed', Delivered, NEW V, Counted(V), Post
    PROVE  Counted(V)'
<1>1. PICK rep \in Replicas : requests' = requests \cup {Posted(rep)}
  BY DEF Post, Posted
<1>2. PICK x : x = Posted(rep)
  OBVIOUS
<1>3. x.body = Elems(buffer) /\ x.at = "net"
  BY <1>2, PostedType
<1>4. Flushing
  BY DEF Post, Delivered, Waiting
<1>5. /\ UNCHANGED <<buffer, chan, produced, retries, mode, stored, blocks, eligible, left>>
      /\ requests' = requests \cup {x}
  BY <1>1, <1>2 DEF Post
<1>6. Traces
  BY <1>3, <1>4, <1>5 DEF Traces
<1>7. Shapes(V)'
  <2>1. ReqShape(x, V)
    BY <1>3 DEF ReqShape
  <2> QED
    BY <1>5, <2>1, ShapesKept DEF Counted
<1>8. CopiesCounted'
  BY <1>5, CopiesKept DEF Counted
<1> QED
  BY <1>5, <1>6, <1>7, <1>8, RemoteCounted

LEMMA TimeoutCounted ==
    ASSUME Typed, Typed', NEW V, Counted(V), Timeout
    PROVE  Counted(V)'
<1>1. \A x \in requests' : \E q \in requests : x.body = q.body /\ x.at = q.at /\ x.kept = q.kept
  <2> SUFFICES ASSUME NEW q \in requests, NEW x, x = [q EXCEPT !.awaited = FALSE]
               PROVE  x.body = q.body /\ x.at = q.at /\ x.kept = q.kept
    BY Zenon DEF Timeout
  <2>1. q \in RequestType
    BY DEF Typed, TypeOK
  <2> QED
    BY <2>1 DEF RequestType
<1>2. UNCHANGED <<buffer, chan, produced, retries, mode, stored, blocks, eligible>>
  BY DEF Timeout
<1>3. left'.changes = left.changes
  BY Spends DEF Timeout
<1>4. Traces
  BY <1>1, <1>2, <1>3 DEF Traces
<1>5. Shapes(V)'
  <2>1. \A x \in requests' : ReqShape(x, V)
    BY <1>1 DEF Counted, Shapes, ReqShape
  <2> QED
    BY <1>2, <1>3, <2>1, ShapesKept DEF Counted
<1>6. CopiesCounted'
  BY <1>2, CopiesKept DEF Counted
<1> QED
  BY <1>2, <1>4, <1>5, <1>6, RemoteCounted

\* Steps that at most end requests.
LEMMA QuietCounted ==
    ASSUME Typed, Typed', NEW V, Counted(V), requests' \subseteq requests, Shapes(V)',
           UNCHANGED <<buffer, chan, produced, retries, mode, stored, blocks>>
    PROVE  Counted(V)'
<1>1. Traces
  BY DEF Traces
<1>2. CopiesCounted'
  BY CopiesKept DEF Counted
<1> QED
  BY <1>1, <1>2, RemoteCounted

LEMMA IngestCounted ==
    ASSUME Typed, Typed', NEW V, Counted(V), NEW q \in requests, IngestResults(q)
    PROVE  Counted(V)'
<1>k. PICK k : k = q.body \cap eligible
  OBVIOUS
<1>x. PICK x : x = [q EXCEPT !.at = "write", !.kept = k]
  OBVIOUS
<1>1. q \in RequestType /\ q.body \subseteq Results /\ k \in SUBSET Results
  BY <1>k DEF Typed, TypeOK, RequestType
<1>2. x.body = q.body /\ x.at = "write" /\ x.kept = k
  BY <1>1, <1>x DEF RequestType
<1>3. UNCHANGED <<buffer, chan, produced, retries, mode, stored, blocks, eligible, left>>
  BY DEF IngestResults
<1>4. requests' = requests \ {q} \/ requests' = (requests \ {q}) \cup {x}
  BY <1>k, <1>x, Ingests
<1>5. Traces
  BY <1>2, <1>3, <1>4 DEF Traces
<1>6. \E v \in V : k = q.body \cap v
  BY <1>k DEF Counted, Shapes
<1>7. Shapes(V)'
  <2>1. ReqShape(x, V)
    BY <1>2, <1>6 DEF ReqShape
  <2> QED
    BY <1>3, <1>4, <2>1, ShapesKept DEF Counted
<1>8. CopiesCounted'
  BY <1>3, CopiesKept DEF Counted
<1> QED
  BY <1>3, <1>5, <1>7, <1>8, RemoteCounted

LEMMA WriteCounted ==
    ASSUME Typed, Typed', NEW V, Counted(V), NEW q \in requests, Write(q)
    PROVE  Counted(V)'
<1>x. PICK x : x = [q EXCEPT !.at = "mark"]
  OBVIOUS
<1>d. PICK d : d = ttl[q.rep]
  OBVIOUS
<1>1. q \in RequestType /\ q.kept \in SUBSET Results /\ q.at = "write" /\ d \in Ttls
  BY <1>d, Writes
<1>2. x.body = q.body /\ x.at = "mark" /\ x.kept = q.kept
  BY <1>1, <1>x DEF RequestType
<1>3. UNCHANGED <<buffer, chan, produced, retries, mode, eligible>>
  BY DEF Write
<1>4. Insert(q.kept, d) \/ UNCHANGED <<stored, blocks>>
  BY <1>d, Writes
<1>5. requests' = requests \ {q} \/ requests' = (requests \ {q}) \cup {x}
  BY <1>x, Writes
<1>6. left'.changes = left.changes
  BY Writes, Spends
<1>b. PICK b : b = [rows |-> q.kept, ttl |-> d]
  OBVIOUS
<1>7. \A c \in blocks' : c \in blocks \/ c.rows = q.kept
  <2>1. CASE Insert(q.kept, d)
    <3>1. blocks' = blocks \cup {b} /\ b.rows = q.kept
      BY <1>1, <1>b, <2>1, Inserted
    <3> QED
      BY <3>1
  <2> QED
    BY <1>4, <2>1
<1>8. Traces
  BY <1>1, <1>2, <1>5, <1>7 DEF Traces
<1>9. Shapes(V)'
  <2>1. ReqShape(x, V)
    <3>1. \E v \in V : q.kept = q.body \cap v
      BY <1>1 DEF Counted, Shapes
    <3> QED
      BY <1>2, <3>1 DEF ReqShape
  <2> QED
    BY <1>3, <1>5, <1>6, <2>1, ShapesKept DEF Counted
<1>10. CopiesCounted'
  BY <1>1, <1>4, CopiesKept, CopiesInserted DEF Counted
<1> QED
  BY <1>3, <1>8, <1>9, <1>10, RemoteCounted

\* A change of what the handlers keep is one more filter.
LEMMA RequalifyCounted ==
    ASSUME Typed, Typed', NEW V \in SUBSET SUBSET Results, Counted(V), Requalify
    PROVE  \E W \in SUBSET SUBSET Results : Counted(W)'
<1>e. PICK e : e = eligible'
  OBVIOUS
<1> DEFINE W == V \cup {e}
<1>1. /\ UNCHANGED <<buffer, chan, produced, retries, mode, requests, stored, blocks>>
      /\ e \in SUBSET Results
  BY <1>e DEF Requalify, Typed, TypeOK
<1>2. W \in SUBSET SUBSET Results /\ V \subseteq W /\ e \in W
  BY <1>1
<1>3. Cardinality(W) <= 1 + (MaxChanges - left'.changes)
  <2>1. IsFiniteSet(V) /\ Cardinality(V) \in Nat
    BY FinitelyMany
  <2>2. Cardinality(W) = IF e \in V THEN Cardinality(V) ELSE Cardinality(V) + 1
    BY <2>1, FS_AddElement
  <2>3. Cardinality(V) <= 1 + (MaxChanges - left.changes)
    BY DEF Counted, Shapes
  <2>4. left.changes \in Nat /\ left'.changes = left.changes - 1 /\ MaxChanges \in Nat
    BY Constants DEF Requalify, Typed, TypeOK
  <2> HIDE DEF W
  <2> QED
    BY <2>1, <2>2, <2>3, <2>4
<1> HIDE DEF W
<1>4. Shapes(W)'
  BY <1>1, <1>2, <1>3, <1>e DEF Counted, Shapes
<1>5. FewFlushes(W)'
  <2> SUFFICES ASSUME NEW r \in Results
               PROVE  \E B \in SUBSET SUBSET Results :
                         Covers(r, B, W)' /\ Cardinality(B) <= Flushes(r)'
    BY DEF FewFlushes
  <2>1. PICK B \in SUBSET SUBSET Results : Covers(r, B, V) /\ Cardinality(B) <= Flushes(r)
    BY DEF Counted, FewFlushes
  <2>2. Covers(r, B, W)'
    BY <1>1, <1>2, <2>1 DEF Covers, Flushing
  <2>3. Flushes(r)' = Flushes(r)
    BY <1>1 DEF Flushes, Flushing
  <2> QED
    BY <2>1, <2>2, <2>3
<1>6. Places' /\ CopiesCounted'
  BY <1>1, CopiesKept DEF Counted, Places
<1>7. Counted(W)'
  BY <1>4, <1>5, <1>6 DEF Counted
<1> QED
  BY <1>2, <1>7

LEMMA InitCounted ==
    ASSUME Init
    PROVE  \E V \in SUBSET SUBSET Results : Counted(V)
<1>0. Typed
  BY InitTyped
<1>v. PICK V : V = {eligible}
  OBVIOUS
<1>1. /\ requests = {} /\ blocks = {} /\ ~Flushing
      /\ Elems(chan) = {} /\ Elems(buffer) = {} /\ Len(chan) = 0
  BY ElemsEmpty DEF Init, Flushing
<1>2. Places
  BY <1>1 DEF Places
<1>3. Shapes(V) /\ V \in SUBSET SUBSET Results
  <2>1. Cardinality(V) = 1 /\ eligible \in V
    BY <1>v, FS_Singleton
  <2>2. left.changes = MaxChanges /\ 1 <= 1 + (MaxChanges - MaxChanges)
    BY Constants DEF Init
  <2>3. V \in SUBSET SUBSET Results
    BY <1>0, <1>v DEF Typed, TypeOK
  <2> QED
    BY <1>1, <2>1, <2>2, <2>3 DEF Shapes
<1>4. CopiesCounted
  <2> SUFFICES ASSUME NEW r \in Results, NEW t \in Ttls
               PROVE  stored[r][t] = Cardinality(Copies(r, t))
    BY DEF CopiesCounted
  <2>1. Copies(r, t) = {} /\ stored[r][t] = 0
    BY <1>1 DEF Copies, Init
  <2> QED
    BY <2>1, FS_EmptySet
<1>5. FewFlushes(V)
  <2> SUFFICES ASSUME NEW r \in Results PROVE Covers(r, {}, V) /\ Cardinality({}) <= Flushes(r)
    BY DEF FewFlushes
  <2>1. Covers(r, {}, V)
    BY <1>1 DEF Covers
  <2>2. Cardinality({}) = 0 /\ Flushes(r) \in 0..MaxFlushRetries /\ MaxFlushRetries \in Nat
    BY <1>0, FS_EmptySet, FlushesType, Constants
  <2> QED
    BY <2>1, <2>2
<1> QED
  BY <1>2, <1>3, <1>4, <1>5 DEF Counted

\* The steps after which the same filters account for everything.
LEMMA StepCounted ==
    ASSUME Typed, Typed', Delivered, NEW V, Counted(V), [Next]_vars, ~Requalify
    PROVE  Counted(V)'
<1>1. CASE Retry \/ Cancel \/ (\E rep \in Replicas : Refresh(rep)) \/ UNCHANGED vars
  <2>1. UNCHANGED <<buffer, chan, produced, retries, mode, stored, blocks, requests, eligible, left>>
    BY <1>1 DEF Retry, Cancel, Refresh, vars
  <2>2. Shapes(V)'
    BY <2>1 DEF Counted, Shapes
  <2> QED
    BY <2>1, <2>2, QuietCounted
<1>2. CASE GiveUp \/ Acknowledged
  <2>1. PICK ok \in BOOLEAN : FlushDone(ok) /\ post.at \in {"ok", "failed"}
    BY <1>2 DEF GiveUp, Acknowledged
  <2>2. Flushing
    BY <2>1 DEF Delivered, Waiting
  <2> QED
    BY <2>1, <2>2, FlushDoneCounted
<1>3. ASSUME NEW q \in requests, Mark(q) \/ Fail(q) PROVE Counted(V)'
  <2>1. /\ UNCHANGED <<buffer, chan, produced, retries, mode, stored, blocks, eligible>>
        /\ requests' \subseteq requests /\ left'.changes = left.changes
    BY <1>3, Spends DEF Mark, Fail
  <2>2. Shapes(V)'
    BY <2>1, ShapesKept DEF Counted
  <2> QED
    BY <2>1, <2>2, QuietCounted
<1>4. ASSUME NEW rep \in Replicas, Restart(rep) PROVE Counted(V)'
  <2>1. /\ UNCHANGED <<buffer, chan, produced, retries, mode, stored, blocks, eligible>>
        /\ requests' \subseteq requests /\ left'.changes = left.changes
    BY <1>4, Spends DEF Restart
  <2>2. Shapes(V)'
    BY <2>1, ShapesKept DEF Counted
  <2> QED
    BY <2>1, <2>2, QuietCounted
<1> QED
  BY <1>1, <1>2, <1>3, <1>4, ProduceCounted, ReceiveCounted, TickCounted, ShutdownCounted,
     PostCounted, TimeoutCounted, IngestCounted, WriteCounted
     DEF Next, Batcher, Sink, Handler

LEMMA NextIInv == IInv /\ [Next]_vars => IInv'
<1> SUFFICES ASSUME IInv, [Next]_vars PROVE IInv'
  OBVIOUS
<1>1. Typed /\ Delivered /\ Typed' /\ Delivered'
  BY NextTyped, NextDelivered DEF IInv
<1>2. PICK V \in SUBSET SUBSET Results : Counted(V)
  BY DEF IInv
<1>3. \E W \in SUBSET SUBSET Results : Counted(W)'
  BY <1>1, <1>2, RequalifyCounted, StepCounted
<1> QED
  BY <1>1, <1>3 DEF IInv

\* A result is stored at most once per flush it took part in, filter of the handlers and
\* snapshot of the retentions, for any number of replicas, faults and changes.
THEOREM StoredSafe == Spec => []StoredBounded
<1>1. Init => IInv
  BY InitTyped, InitDelivered, InitCounted DEF IInv
<1>2. IInv => StoredBounded
  BY CopiesBounded DEF IInv
<1> QED
  BY <1>1, <1>2, NextIInv, PTL DEF Spec
=============================================================================
