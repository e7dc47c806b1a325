------------------------ MODULE IncidentWriter_proofs -----------------------
(***************************************************************************)
(* Proofs about IncidentWriter, for every set of regions, every policy,    *)
(* every number of confirmations and every bound.                          *)
(***************************************************************************)
EXTENDS IncidentWriter, TLAPS, SequenceTheorems, FiniteSetTheorems,
        WellFoundedInduction

\* A set of naturals has a least element.
LEMMA LeastNat ==
    ASSUME NEW S, S \subseteq Nat, S # {}
    PROVE  \E x \in S : \A y \in S : x <= y
<1>1. PICK x \in S : \A y \in S : ~(<<y, x>> \in OpToRel(<, Nat))
    BY NatLessThanWellFounded, WFMin, Zenon
<1>2. \A y \in S : x <= y
    <2>1. SUFFICES ASSUME NEW y \in S PROVE ~(y < x)
        OBVIOUS
    <2>2. <<y, x>> \in Nat \X Nat
        OBVIOUS
    <2>3. <<y, x>>[1] = y /\ <<y, x>>[2] = x
        OBVIOUS
    <2> QED
        BY <1>1, <2>2, <2>3, Zenon DEF OpToRel
<1> QED
    BY <1>2

\* A bounded set of naturals has a greatest element.
LEMMA GreatestNat ==
    ASSUME NEW S, S \subseteq Nat, S # {}, NEW n \in Nat, \A x \in S : x <= n
    PROVE  \E x \in S : \A y \in S : y <= x
<1> DEFINE T == {n - x : x \in S}
<1>1. T \subseteq Nat /\ T # {}
    <2>1. PICK x \in S : TRUE
        OBVIOUS
    <2>2. n - x \in T
        BY <2>1
    <2>3. \A x1 \in S : n - x1 \in Nat
        OBVIOUS
    <2> QED
        BY <2>2, <2>3
<1>2. PICK d \in T : \A e \in T : d <= e
    BY <1>1, LeastNat
<1>3. PICK x \in S : d = n - x
    OBVIOUS
<1>4. ASSUME NEW y \in S PROVE y <= x
    <2>1. n - y \in T
        OBVIOUS
    <2> QED
        BY <1>2, <1>3, <2>1
<1> QED
    BY <1>4

-----------------------------------------------------------------------------
(* The decision.                                                           *)

\* A run must have at least one result.
LEMMA ThresholdPositive == Threshold \in Nat /\ Threshold >= 1
    BY WriterAssumption DEF Threshold

\* The least time of a set of times is one of them.
LEMMA EarliestIn ==
    ASSUME NEW S, S \subseteq Nat, S # {}
    PROVE  Earliest(S) \in S
<1>1. \E x \in S : \A y \in S : x <= y
    BY LeastNat
<1> QED
    BY <1>1, Zenon DEF Earliest

\* The last of a bounded set of times is one of them.
LEMMA LatestIn ==
    ASSUME NEW S, S \subseteq Nat, S # {}, NEW n \in Nat, \A x \in S : x <= n
    PROVE  Latest(S) \in S
<1>1. \E x \in S : \A y \in S : y <= x
    BY GreatestNat
<1> QED
    BY <1>1, Zenon DEF Latest

\* The window holds times of stored results.
LEMMA WindowType ==
    ASSUME TypeOK, NEW now
    PROVE  /\ Window(now) \subseteq Nat
           /\ Window(now) \subseteq DOMAIN results
           /\ Len(results) \in Nat
           /\ \A t \in Window(now) : t <= Len(results)
           /\ IsFiniteSet(Window(now))
<1>1. DOMAIN results = 1..Len(results) /\ Len(results) \in Nat
    BY DEF TypeOK
<1>2. Window(now) \subseteq 1..Len(results)
    BY <1>1 DEF Window
<1>3. IsFiniteSet(1..Len(results))
    BY <1>1, FS_Interval
<1>4. IsFiniteSet(Window(now))
    BY <1>2, <1>3, FS_Subset
<1> QED
    BY <1>1, <1>2, <1>4

\* A run as long as the monitor asks for begins at one of its results.
LEMMA RunBegins ==
    ASSUME NEW W, W \subseteq Nat, IsFiniteSet(W), NEW run, run \subseteq W,
           Cardinality(run) >= Threshold
    PROVE  /\ IsFiniteSet(run) /\ Cardinality(run) \in Nat
           /\ run # {}
           /\ Earliest(run) \in run
           /\ \A t \in run : Earliest(run) <= t
<1>1. IsFiniteSet(run) /\ Cardinality(run) \in Nat
    BY FS_Subset, FS_CardinalityType
<1>2. run # {}
    BY FS_EmptySet, ThresholdPositive
<1>3. \E x \in run : \A y \in run : x <= y
    BY <1>2, LeastNat
<1>4. Earliest(run) \in run /\ \A t \in run : Earliest(run) <= t
    BY <1>3, Zenon DEF Earliest
<1> QED
    BY <1>1, <1>2, <1>4

\* The quorum is at least one region.
LEMMA QuorumPositive ==
    ASSUME NEW policy \in [kind : PolicyKinds, n : Nat], NEW n \in Nat
    PROVE  required(policy, n) \in Nat /\ required(policy, n) >= 1
    BY DEF required, PolicyKinds

\* A decision to open is dated from a down region's first failure.
LEMMA TriggerIsDown ==
    ASSUME NEW W, W \subseteq Nat, IsFiniteSet(W), NEW n \in Nat,
           \A t \in W : t <= n,
           NEW quorum \in Nat, quorum >= 1, Cardinality(down(W)) >= quorum
    PROVE  \E r \in down(W) : triggered_at(W, quorum) = down_since(r, W)
<1> DEFINE S == {down_since(r, W) : r \in down(W)}
           Q == {t \in S : Cardinality({r \in down(W) : down_since(r, W) <= t}) >= quorum}
<1>1. IsFiniteSet(down(W))
    BY WriterAssumption, FS_Subset DEF down
<1>2. down(W) # {}
    BY <1>1, FS_EmptySet
<1>3. \A r \in down(W) : down_since(r, W) \in W
    <2>1. SUFFICES ASSUME NEW r \in down(W) PROVE down_since(r, W) \in W
        OBVIOUS
    <2>2. trailing_bad_run(r, W) \subseteq W
        BY DEF trailing_bad_run
    <2>3. Cardinality(trailing_bad_run(r, W)) >= Threshold
        BY DEF down
    <2> QED
        BY <2>2, <2>3, RunBegins DEF down_since
<1>4. S \subseteq Nat /\ S # {} /\ \A t \in S : t <= n
    BY <1>2, <1>3
<1>5. PICK t \in S : \A u \in S : u <= t
    BY <1>4, GreatestNat
<1>6. {r \in down(W) : down_since(r, W) <= t} = down(W)
    BY <1>5
<1>7. t \in Q
    BY <1>6
<1>8. Q \subseteq Nat /\ Q # {}
    BY <1>4, <1>7
<1>9. Earliest(Q) \in Q
    BY <1>8, EarliestIn
<1> QED
    BY <1>9 DEF triggered_at

\* A region's failures are finitely many.
LEMMA FailuresFinite ==
    ASSUME TypeOK, NEW r, NEW s
    PROVE  IsFiniteSet(Failures(r, s))
<1>1. Len(results) \in Nat /\ Failures(r, s) \subseteq 1..Len(results)
    BY DEF Failures, TypeOK
<1>2. IsFiniteSet(1..Len(results))
    BY <1>1, FS_Interval
<1> QED
    BY <1>1, <1>2, FS_Subset

\* A region that is down is evidence for its first failure.
LEMMA DownIsEvidence ==
    ASSUME TypeOK, NEW now, NEW r \in down(Window(now))
    PROVE  Evidence(down_since(r, Window(now))) /\ down_since(r, Window(now)) \in Nat
<1> DEFINE W == Window(now)
           run == trailing_bad_run(r, W)
           s == Earliest(run)
<1>1. /\ W \subseteq Nat /\ W \subseteq DOMAIN results /\ IsFiniteSet(W)
      /\ Len(results) \in Nat
    BY WindowType
<1>2. run \subseteq W /\ \A t \in run : results[t][r] = "bad"
    BY DEF trailing_bad_run
<1>3. Cardinality(run) >= Threshold /\ r \in Regions
    BY DEF down
<1>4. s \in run /\ (\A t \in run : s <= t) /\ Cardinality(run) \in Nat
    <2> HIDE DEF W, run
    <2> QED BY <1>1, <1>2, <1>3, RunBegins
<1>5. run \subseteq Failures(r, s) /\ s \in Failures(r, s)
    <2> HIDE DEF W, run, s
    <2> QED BY <1>1, <1>2, <1>4 DEF Failures
<1>6. IsFiniteSet(Failures(r, s))
    BY FailuresFinite
<1>7. Cardinality(Failures(r, s)) >= Threshold
    <2>1. Cardinality(run) <= Cardinality(Failures(r, s)) /\ Cardinality(Failures(r, s)) \in Nat
        <3> HIDE DEF W, run, s
        <3> QED BY <1>5, <1>6, FS_Subset, FS_CardinalityType
    <2> QED
        BY <1>3, <1>4, <2>1, ThresholdPositive
<1> QED
    <2>1. s \in Nat
        <3> HIDE DEF W, run, s
        <3> QED BY <1>1, <1>2, <1>4
    <2> QED
        BY <1>3, <1>5, <1>7, <2>1, Zenon DEF Evidence, down_since

\* Recoveries are times of stored results.
LEMMA RecoveriesType ==
    ASSUME TypeOK, NEW now, recoveries(Window(now)) # {}
    PROVE  Latest(recoveries(Window(now))) \in Nat
<1> DEFINE W == Window(now)
<1>1. /\ W \subseteq Nat /\ IsFiniteSet(W) /\ Len(results) \in Nat
      /\ \A t \in W : t <= Len(results)
    BY WindowType
<1>2. recoveries(W) \subseteq W
    <2>1. SUFFICES ASSUME NEW r \in Regions, Cardinality(trailing_good_run(r, W)) >= Threshold
                   PROVE  Earliest(trailing_good_run(r, W)) \in W
        BY DEF recoveries
    <2>2. trailing_good_run(r, W) \subseteq W
        BY DEF trailing_good_run
    <2> HIDE DEF W
    <2> QED
        BY <1>1, <2>1, <2>2, RunBegins
<1>3. Latest(recoveries(W)) \in recoveries(W)
    <2> HIDE DEF W
    <2>1. recoveries(W) \subseteq Nat /\ \A t \in recoveries(W) : t <= Len(results)
        BY <1>1, <1>2
    <2>2. recoveries(W) # {}
        BY DEF W
    <2> QED
        BY <1>1, <2>1, <2>2, LatestIn
<1> QED
    BY <1>1, <1>2, <1>3

\* What decide_multi returns, and on which evidence.
LEMMA DecisionSound ==
    ASSUME TypeOK, NEW open, NEW policy \in Policies, NEW now
    PROVE  LET plan == decide_multi(open, policy, now)
           IN  /\ plan \in [act : Decisions, at : Nat]
               /\ plan.act = "open" => Evidence(plan.at)
               /\ plan.act = "close" => open # Null
<1> DEFINE W == Window(now)
           quorum == required(policy, Cardinality(reporting(W)))
           plan == decide_multi(open, policy, now)
<1>1. /\ W \subseteq Nat /\ IsFiniteSet(W) /\ Len(results) \in Nat
      /\ \A t \in W : t <= Len(results)
    BY WindowType
<1>2. Cardinality(reporting(W)) \in Nat
    BY WriterAssumption, FS_Subset, FS_CardinalityType DEF reporting
<1>3. quorum \in Nat /\ quorum >= 1
    BY <1>2, QuorumPositive, WriterAssumption
<1>4. CASE open = Null /\ Cardinality(down(W)) >= quorum
    <2>1. PICK r \in down(W) : triggered_at(W, quorum) = down_since(r, W)
        <3> HIDE DEF W, quorum
        <3> QED BY <1>1, <1>3, <1>4, TriggerIsDown
    <2>2. Evidence(triggered_at(W, quorum)) /\ triggered_at(W, quorum) \in Nat
        BY <2>1, DownIsEvidence
    <2>3. plan = [act |-> "open", at |-> triggered_at(W, quorum)]
        BY <1>4 DEF decide_multi
    <2> HIDE DEF plan, W, quorum
    <2>4. plan.at = triggered_at(W, quorum) /\ plan.act = "open"
        BY <2>3
    <2>5. plan \in [act : Decisions, at : Nat]
        BY <2>2, <2>3 DEF Decisions
    <2>6. Evidence(plan.at)
        BY <2>2, <2>4
    <2> QED
        BY <2>4, <2>5, <2>6 DEF plan
<1>5. CASE plan = NoDecision
    <2>1. NoDecision \in [act : Decisions, at : Nat] /\ NoDecision.act = "none"
        BY DEF NoDecision, Decisions
    <2> HIDE DEF plan
    <2> QED
        BY <1>5, <2>1 DEF plan
<1>6. CASE /\ open # Null /\ recoveries(W) # {}
           /\ plan = [act |-> "close", at |-> Latest(recoveries(W))]
    <2>1. Latest(recoveries(W)) \in Nat
        BY <1>6, RecoveriesType
    <2>2. plan \in [act : Decisions, at : Nat] /\ plan.act = "close"
        <3> HIDE DEF plan, W
        <3> QED BY <1>6, <2>1 DEF Decisions
    <2> HIDE DEF plan
    <2> QED
        BY <1>6, <2>2 DEF plan
<1>7. \/ open = Null /\ Cardinality(down(W)) >= quorum
      \/ plan = NoDecision
      \/ /\ open # Null /\ recoveries(W) # {}
         /\ plan = [act |-> "close", at |-> Latest(recoveries(W))]
    BY Zenon DEF decide_multi
<1> QED
    BY <1>4, <1>5, <1>6, <1>7

-----------------------------------------------------------------------------
(* The inductive invariant.                                                *)

\* A tick that is about to open has its evidence, and one that is about to close
\* read an incident the writer had opened; neither is outdated by what operators
\* or late results do before the write.
PlanBacked ==
    pc = "apply" =>
        /\ tick.plan.act = "open" => Evidence(tick.plan.at)
        /\ tick.plan.act = "close" =>
              tick.open \in DOMAIN rows /\ rows[tick.open].origin = "monitor"

\* The writer closed no declaration.
DeclarationsKept ==
    \A i \in DOMAIN rows : rows[i].origin = "manual" => rows[i].by # "writer"

IInv ==
    /\ TypeOK
    /\ OneOpenPerOrigin
    /\ EvidenceBacked
    /\ PlanBacked
    /\ DeclarationsKept

\* The invariant holds at the start.
LEMMA InitIInv == Init => IInv
<1> SUFFICES ASSUME Init PROVE IInv
    OBVIOUS
<1> USE WriterAssumption DEF Init
<1>1. TypeOK
    BY DEF TypeOK, TickType, LeftType, NoTick, NoDecision, Decisions, Null
<1>2. OneOpenPerOrigin /\ EvidenceBacked /\ PlanBacked /\ DeclarationsKept
    BY DEF OneOpenPerOrigin, EvidenceBacked, PlanBacked, DeclarationsKept
<1> QED
    BY <1>1, <1>2 DEF IInv

\* A result once stored as a failure stays one, so evidence is never lost.
LEMMA EvidenceKept ==
    ASSUME TypeOK, TypeOK', DOMAIN results \subseteq DOMAIN results',
           \A t \in DOMAIN results, r \in Regions :
               results[t][r] = "bad" => results'[t][r] = "bad",
           NEW s, Evidence(s)
    PROVE  Evidence(s)'
<1>1. PICK r \in Regions : s \in Failures(r, s) /\ Cardinality(Failures(r, s)) >= Threshold
    BY DEF Evidence
<1>2. Failures(r, s) \subseteq Failures(r, s)'
    BY DEF Failures
<1>3. IsFiniteSet(Failures(r, s))
    BY FailuresFinite
<1>4. IsFiniteSet(Failures(r, s)')
    <2>1. Len(results') \in Nat /\ Failures(r, s)' \subseteq 1..Len(results')
        BY DEF Failures, TypeOK
    <2>2. IsFiniteSet(1..Len(results'))
        BY <2>1, FS_Interval
    <2> QED
        BY <2>1, <2>2, FS_Subset
<1>5. Cardinality(Failures(r, s)) <= Cardinality(Failures(r, s)')
    BY <1>2, <1>4, FS_Subset
<1>6. Cardinality(Failures(r, s)') \in Nat /\ Cardinality(Failures(r, s)) \in Nat
    BY <1>3, <1>4, FS_CardinalityType
<1>7. Cardinality(Failures(r, s)') >= Threshold
    BY <1>1, <1>5, <1>6, ThresholdPositive
<1>8. Threshold' = Threshold
    BY DEF Threshold
<1> QED
    BY <1>1, <1>2, <1>7, <1>8, Zenon DEF Evidence

\* What is said of the rows alone.
RowsInv == rows \in Seq(RowType) /\ OneOpenPerOrigin /\ EvidenceBacked /\ DeclarationsKept

\* Evidence depends on the results alone.
LEMMA EvidenceSame ==
    ASSUME results' = results, NEW s
    PROVE  Evidence(s)' = Evidence(s)
    BY Zenon DEF Evidence, Failures, Threshold

\* Steps that leave the rows and the results alone.
LEMMA RowsSame ==
    ASSUME RowsInv, results' = results, rows' = rows
    PROVE  RowsInv'
<1>1. EvidenceBacked'
    BY EvidenceSame DEF RowsInv, EvidenceBacked
<1>2. OneOpenPerOrigin' /\ DeclarationsKept'
    BY DEF RowsInv, OneOpenPerOrigin, DeclarationsKept, Open
<1> QED
    BY <1>1, <1>2 DEF RowsInv

\* An incident is added where none of its origin is open (insert_open, declare).
LEMMA RowsAppend ==
    ASSUME RowsInv, results' = results, NEW row \in RowType, rows' = Append(rows, row),
           row.by = "none", OpenOf(row.origin) = {},
           row.origin = "monitor" => Evidence(row.start)
    PROVE  RowsInv' /\ \A i \in DOMAIN rows : i \in DOMAIN rows' /\ rows'[i] = rows[i]
<1>1. rows \in Seq(RowType)
    BY DEF RowsInv
<1>2. /\ rows' \in Seq(RowType)
      /\ Len(rows) \in Nat
      /\ DOMAIN rows = 1..Len(rows)
      /\ DOMAIN rows' = 1..(Len(rows) + 1)
      /\ \A i \in DOMAIN rows : rows'[i] = rows[i]
      /\ rows'[Len(rows) + 1] = row
    BY <1>1
<1>3. \A i \in DOMAIN rows' : i \in DOMAIN rows \/ (i = Len(rows) + 1 /\ rows'[i] = row)
    BY <1>2
<1>4. \A i \in DOMAIN rows : rows[i].end = Null => rows[i].origin # row.origin
    BY DEF OpenOf, Open
<1>5. OneOpenPerOrigin'
    <2>1. SUFFICES ASSUME NEW i \in DOMAIN rows', NEW j \in DOMAIN rows',
                          rows'[i].end = Null, rows'[j].end = Null,
                          rows'[i].origin = rows'[j].origin
                   PROVE  i = j
        BY DEF OneOpenPerOrigin, Open, Null
    <2>2. CASE i \in DOMAIN rows /\ j \in DOMAIN rows
        BY <1>2, <2>1, <2>2 DEF RowsInv, OneOpenPerOrigin, Open
    <2>3. CASE i \notin DOMAIN rows \/ j \notin DOMAIN rows
        BY <1>2, <1>3, <1>4, <2>1, <2>3
    <2> QED
        BY <2>2, <2>3
<1>6. EvidenceBacked'
    BY <1>2, <1>3, EvidenceSame DEF RowsInv, EvidenceBacked
<1>7. DeclarationsKept'
    BY <1>2, <1>3 DEF RowsInv, DeclarationsKept
<1> QED
    BY <1>2, <1>5, <1>6, <1>7 DEF RowsInv

\* A sequence with one element replaced.
LEMMA Replace ==
    ASSUME NEW S, NEW seq \in Seq(S), NEW i \in DOMAIN seq, NEW x \in S, NEW seq2,
           seq2 = [seq EXCEPT ![i] = x]
    PROVE  /\ seq2 \in Seq(S)
           /\ DOMAIN seq2 = DOMAIN seq
           /\ seq2[i] = x
           /\ \A j \in DOMAIN seq : j # i => seq2[j] = seq[j]
    BY ExceptSeq

\* The end and the resolver of an incident are written (close, resolve, reopen).
LEMMA RowsUpdate ==
    ASSUME RowsInv, results' = results, NEW i \in DOMAIN rows, NEW end \in Nat,
           NEW by \in {"none", "writer", "operator"},
           rows' = [rows EXCEPT ![i].end = end, ![i].by = by],
           end = Null => Open(i) \/ OpenOf(rows[i].origin) = {},
           rows[i].origin = "manual" => by # "writer"
    PROVE  /\ RowsInv'
           /\ DOMAIN rows' = DOMAIN rows
           /\ rows'[i].end = end /\ rows'[i].by = by
           /\ \A j \in DOMAIN rows : rows'[j].origin = rows[j].origin
           /\ \A j \in DOMAIN rows : j # i => rows'[j] = rows[j]
<1>1. /\ rows \in Seq(RowType) /\ Len(rows) \in Nat /\ DOMAIN rows = 1..Len(rows)
      /\ \A j \in DOMAIN rows : rows[j] \in RowType
    BY DEF RowsInv
<1> DEFINE new == [rows[i] EXCEPT !.end = end, !.by = by]
<1>2. rows' = [rows EXCEPT ![i] = new]
    BY <1>1 DEF RowType
<1>3. /\ new \in RowType /\ new.end = end /\ new.by = by
      /\ new.origin = rows[i].origin /\ new.start = rows[i].start
    BY <1>1 DEF RowType
<1> HIDE DEF new
<1>4. /\ rows' \in Seq(RowType)
      /\ DOMAIN rows' = DOMAIN rows
      /\ rows'[i] = new
      /\ \A j \in DOMAIN rows : j # i => rows'[j] = rows[j]
    <2>1. rows \in Seq(RowType) /\ new \in RowType
        BY <1>1, <1>3
    <2>2. [rows EXCEPT ![i] = new] \in Seq(RowType)
        BY <2>1, Replace
    <2>3. /\ DOMAIN rows' = DOMAIN rows
          /\ rows'[i] = new
          /\ \A j \in DOMAIN rows : j # i => rows'[j] = rows[j]
        BY <1>1, <1>2
    <2> QED
        BY <1>2, <2>2, <2>3
<1>5. \A j \in DOMAIN rows : rows'[j].origin = rows[j].origin /\ rows'[j].start = rows[j].start
    BY <1>3, <1>4
<1>6. EvidenceBacked'
    BY <1>4, <1>5, EvidenceSame DEF RowsInv, EvidenceBacked
<1>7. DeclarationsKept'
    BY <1>3, <1>4 DEF RowsInv, DeclarationsKept
<1>8. OneOpenPerOrigin'
    <2>1. SUFFICES ASSUME NEW j \in DOMAIN rows, NEW k \in DOMAIN rows,
                          rows'[j].end = Null, rows'[k].end = Null,
                          rows'[j].origin = rows'[k].origin
                   PROVE  j = k
        BY <1>4 DEF OneOpenPerOrigin, Open, Null
    <2>2. rows[j].origin = rows[k].origin
        BY <1>5, <2>1
    <2>3. CASE OpenOf(rows[i].origin) = {}
        <3>1. \A l \in DOMAIN rows : rows[l].end = Null => rows[l].origin # rows[i].origin
            BY <2>3 DEF OpenOf, Open
        <3>2. \A l \in DOMAIN rows : l # i => rows'[l] = rows[l]
            BY <1>4
        <3>3. CASE j # i /\ k # i
            BY <2>1, <2>2, <3>2, <3>3 DEF RowsInv, OneOpenPerOrigin, Open
        <3>4. CASE j = i \/ k = i
            BY <2>1, <2>2, <3>1, <3>2, <3>4
        <3> QED
            BY <3>3, <3>4
    <2>4. CASE Open(i) \/ end # Null
        <3>1. \A l \in DOMAIN rows : rows'[l].end = Null => rows[l].end = Null
            BY <1>3, <1>4, <2>4 DEF Open
        <3> QED
            BY <2>1, <2>2, <3>1 DEF RowsInv, OneOpenPerOrigin, Open
    <2> QED
        BY <2>3, <2>4
<1> QED
    BY <1>3, <1>4, <1>5, <1>6, <1>7, <1>8 DEF RowsInv

-----------------------------------------------------------------------------
(* Every step preserves the invariant and resolves as ResolvedStaysResolved *)
(* says.                                                                    *)

\* What ResolvedStaysResolved says of one step.
Resolves ==
    \A i \in DOMAIN rows :
        /\ ~Open(i) => rows'[i] = rows[i] \/ rows'[i].end = Null
        /\ rows[i].origin = "manual" => rows'[i].by # "writer"

Good == IInv' /\ Resolves

\* The invariant includes what is said of the rows.
LEMMA IInvRows == IInv => RowsInv
    BY DEF IInv, RowsInv, TypeOK

\* A step that keeps every row resolves nothing.
LEMMA SameResolves ==
    ASSUME IInv, \A i \in DOMAIN rows : rows'[i] = rows[i]
    PROVE  Resolves
    BY DEF IInv, DeclarationsKept, Resolves

\* A tick reads and decides.
LEMMA TickReadStep == IInv /\ TickRead => Good
<1> SUFFICES ASSUME IInv, TickRead PROVE Good
    OBVIOUS
<1>1. /\ TypeOK /\ results' = results /\ rows' = rows /\ target' = target
      /\ left' = left /\ pc' = "apply"
    BY DEF IInv, TickRead
<1>2. PICK open \in IF open_for_pairs = {} THEN {Null} ELSE open_for_pairs :
        tick' = [open |-> open, plan |-> decide_multi(open, target.policy, Now)]
    BY DEF TickRead
<1> DEFINE plan == decide_multi(open, target.policy, Now)
<1>3. target.policy \in Policies
    BY <1>1 DEF TypeOK
<1>4. /\ plan \in [act : Decisions, at : Nat]
      /\ plan.act = "open" => Evidence(plan.at)
      /\ plan.act = "close" => open # Null
    BY <1>1, <1>3, DecisionSound
<1> HIDE DEF plan
<1>5. open = Null \/ (open \in DOMAIN rows /\ rows[open].origin = "monitor")
    BY DEF open_for_pairs, OpenOf
<1>6. open \in Nat
    BY <1>1, <1>5 DEF TypeOK, Null
<1>7. tick' = [open |-> open, plan |-> plan]
    BY <1>2 DEF plan
<1>8. TypeOK'
    BY <1>1, <1>4, <1>6, <1>7 DEF TypeOK, TickType
<1>9. PlanBacked'
    <2>1. tick'.plan = plan /\ tick'.open = open
        BY <1>7
    <2>2. tick'.plan.act = "open" => Evidence(tick.plan.at)'
        <3>1. tick'.plan.act = "open" => Evidence(tick'.plan.at)
            BY <1>4, <2>1
        <3> QED
            BY <1>1, <3>1 DEF Evidence, Failures, Threshold
    <2> QED
        BY <1>1, <1>4, <1>5, <2>1, <2>2 DEF PlanBacked
<1>10. RowsInv'
    BY <1>1, IInvRows, RowsSame
<1>11. Resolves
    BY <1>1, SameResolves
<1> QED
    BY <1>8, <1>9, <1>10, <1>11 DEF Good, IInv, RowsInv

\* A tick that has ended holds nothing.
LEMMA IdleType == Idle => pc' = "idle" /\ tick' \in TickType
    BY DEF Idle, NoTick, NoDecision, TickType, Decisions, Null

\* The tick writes what it decided, if that still applies.
LEMMA TickApplyStep == IInv /\ TickApply => Good
<1> SUFFICES ASSUME IInv, TickApply PROVE Good
    OBVIOUS
<1>1. /\ TypeOK /\ PlanBacked /\ RowsInv /\ pc = "apply"
      /\ results' = results /\ target' = target /\ left' = left
      /\ pc' = "idle" /\ tick' \in TickType
    BY IInvRows, IdleType DEF IInv, TickApply
<1>2. tick.plan.at \in Nat
    BY <1>1 DEF TypeOK, TickType
<1>3. RowsInv' /\ Resolves
    <2>1. CASE rows' = rows
        BY <1>1, <2>1, RowsSame, SameResolves
    <2>2. CASE tick.plan.act = "open" /\ insert_open(tick.plan.at) /\ rows' # rows
        <3> DEFINE row == [origin |-> "monitor", start |-> tick.plan.at,
                           end |-> Null, by |-> "none"]
        <3>1. rows' = Append(rows, row) /\ OpenOf("monitor") = {}
            BY <2>2 DEF insert_open
        <3>2. /\ row \in RowType /\ row.by = "none" /\ row.origin = "monitor"
              /\ row.start = tick.plan.at
            BY <1>2 DEF RowType, Origins, Null
        <3>3. Evidence(tick.plan.at)
            BY <1>1, <2>2 DEF PlanBacked
        <3> HIDE DEF row
        <3>4. OpenOf(row.origin) = {} /\ Evidence(row.start)
            BY <3>1, <3>2, <3>3
        <3> QED
            BY <1>1, <3>1, <3>2, <3>4, RowsAppend, SameResolves
    <2>3. CASE tick.plan.act = "close" /\ close(tick.open, tick.plan.at) /\ rows' # rows
        <3> DEFINE i == tick.open
                   at == tick.plan.at
        <3>1. i \in DOMAIN rows /\ rows[i].origin = "monitor"
            BY <1>1, <2>3 DEF PlanBacked
        <3>2. Open(i) /\ rows' = [rows EXCEPT ![i].end = at, ![i].by = "writer"]
            BY <2>3 DEF close
        <3> HIDE DEF i, at
        <3>3. at \in Nat
            BY <1>2 DEF at
        <3>4. /\ RowsInv'
              /\ DOMAIN rows' = DOMAIN rows
              /\ \A j \in DOMAIN rows : j # i => rows'[j] = rows[j]
            BY <1>1, <3>1, <3>2, <3>3, RowsUpdate
        <3>5. Resolves
            BY <3>1, <3>2, <3>4 DEF Resolves, RowsInv, DeclarationsKept
        <3> QED
            BY <3>4, <3>5
    <2> QED
        BY <2>1, <2>2, <2>3 DEF TickApply
<1>4. TypeOK' /\ PlanBacked'
    BY <1>1, <1>3 DEF TypeOK, PlanBacked, RowsInv
<1> QED
    BY <1>3, <1>4 DEF Good, IInv, RowsInv

\* The bounds are spent, never overspent.
LEMMA Spending ==
    ASSUME left \in LeftType
    PROVE  /\ \A k \in Nat : k <= left.silent =>
                  [left EXCEPT !.silent = left.silent - k] \in LeftType
           /\ left.late > 0 => [left EXCEPT !.late = left.late - 1] \in LeftType
           /\ left.ops > 0 => [left EXCEPT !.ops = left.ops - 1] \in LeftType
           /\ left.faults > 0 => [left EXCEPT !.faults = left.faults - 1] \in LeftType
<1>1. MaxSilent \in Nat /\ MaxLate \in Nat /\ MaxOps \in Nat /\ MaxFaults \in Nat
    BY WriterAssumption
<1>2. /\ left.silent \in 0..MaxSilent /\ left.late \in 0..MaxLate
      /\ left.ops \in 0..MaxOps /\ left.faults \in 0..MaxFaults
    BY DEF LeftType
<1>3. /\ \A k \in Nat : k <= left.silent => left.silent - k \in 0..MaxSilent
      /\ left.late > 0 => left.late - 1 \in 0..MaxLate
      /\ left.ops > 0 => left.ops - 1 \in 0..MaxOps
      /\ left.faults > 0 => left.faults - 1 \in 0..MaxFaults
    BY <1>1, <1>2
<1> QED
    BY <1>3 DEF LeftType

\* A tick that fails leaves everything to the next one.
LEMMA TickFailsStep == IInv /\ TickFails => Good
<1> SUFFICES ASSUME IInv, TickFails PROVE Good
    OBVIOUS
<1>1. /\ TypeOK /\ RowsInv /\ results' = results /\ rows' = rows /\ target' = target
      /\ left.faults > 0 /\ left' = [left EXCEPT !.faults = left.faults - 1]
      /\ pc' = "idle" /\ tick' \in TickType
    BY IInvRows, IdleType DEF IInv, TickFails
<1>2. left' \in LeftType
    BY <1>1, Spending DEF TypeOK
<1>3. TypeOK' /\ PlanBacked'
    BY <1>1, <1>2 DEF TypeOK, PlanBacked
<1> QED
    BY <1>1, <1>3, RowsSame, SameResolves DEF Good, IInv, RowsInv

\* Results that are added or arrive late take no evidence away.
LEMMA ResultsStep ==
    ASSUME IInv, TypeOK', UNCHANGED <<rows, target, pc, tick>>,
           DOMAIN results \subseteq DOMAIN results',
           \A t \in DOMAIN results, r \in Regions :
               results[t][r] = "bad" => results'[t][r] = "bad"
    PROVE  Good
<1>1. TypeOK /\ rows' = rows /\ pc' = pc /\ tick' = tick
    BY DEF IInv
<1>2. ASSUME NEW s, Evidence(s) PROVE Evidence(s)'
    BY <1>1, <1>2, EvidenceKept
<1>3. EvidenceBacked'
    BY <1>1, <1>2 DEF IInv, EvidenceBacked
<1>4. PlanBacked'
    BY <1>1, <1>2 DEF IInv, PlanBacked
<1>5. OneOpenPerOrigin' /\ DeclarationsKept'
    BY <1>1 DEF IInv, OneOpenPerOrigin, Open, DeclarationsKept
<1> QED
    BY <1>1, <1>3, <1>4, <1>5, SameResolves DEF Good, IInv

\* A round of results is appended.
LEMMA ProbeStep == IInv /\ Probe => Good
<1> SUFFICES ASSUME IInv, Probe PROVE Good
    OBVIOUS
<1>1. TypeOK /\ UNCHANGED <<rows, target, pc, tick>>
    BY DEF IInv, Probe
<1>2. PICK f \in [Regions -> Verdicts] :
        LET silent == Cardinality({r \in Regions : f[r] = "none"})
        IN  /\ silent <= left.silent
            /\ results' = Append(results, f)
            /\ left' = [left EXCEPT !.silent = left.silent - silent]
    BY DEF Probe
<1>3. Cardinality({r \in Regions : f[r] = "none"}) \in Nat
    BY WriterAssumption, FS_Subset, FS_CardinalityType
<1>4. left' \in LeftType
    BY <1>1, <1>2, <1>3, Spending DEF TypeOK
<1>5. /\ results \in Seq([Regions -> Verdicts])
      /\ results' = Append(results, f)
    BY <1>1, <1>2 DEF TypeOK
<1>6. /\ results' \in Seq([Regions -> Verdicts])
      /\ DOMAIN results \subseteq DOMAIN results'
      /\ \A t \in DOMAIN results : results'[t] = results[t]
    BY <1>5
<1>7. TypeOK'
    BY <1>1, <1>4, <1>6 DEF TypeOK
<1> QED
    BY <1>1, <1>6, <1>7, ResultsStep

\* A late result fills a gap.
LEMMA LateStep == IInv /\ Late => Good
<1> SUFFICES ASSUME IInv, Late PROVE Good
    OBVIOUS
<1>1. /\ TypeOK /\ UNCHANGED <<rows, target, pc, tick>>
      /\ left.late > 0 /\ left' = [left EXCEPT !.late = left.late - 1]
    BY DEF IInv, Late
<1>2. PICK t \in DOMAIN results, r \in Regions, v \in {"good", "bad"} :
        results[t][r] = "none" /\ results' = [results EXCEPT ![t][r] = v]
    BY DEF Late
<1>3. /\ results \in Seq([Regions -> Verdicts])
      /\ \A u \in DOMAIN results : results[u] \in [Regions -> Verdicts]
    BY <1>1 DEF TypeOK
<1> DEFINE new == [results[t] EXCEPT ![r] = v]
<1>4. new \in [Regions -> Verdicts] /\ \A q \in Regions : results[t][q] = "bad" => new[q] = "bad"
    BY <1>2, <1>3 DEF Verdicts
<1>5. results' = [results EXCEPT ![t] = new]
    BY <1>2
<1> HIDE DEF new
<1>6. [results EXCEPT ![t] = new] \in Seq([Regions -> Verdicts])
    BY <1>3, <1>4, Replace
<1>7. /\ DOMAIN results' = DOMAIN results
      /\ \A u \in DOMAIN results : results'[u] = IF u = t THEN new ELSE results[u]
    BY <1>3, <1>5
<1>8. left' \in LeftType
    BY <1>1, Spending DEF TypeOK
<1>9. TypeOK'
    BY <1>1, <1>5, <1>6, <1>8 DEF TypeOK
<1>10. \A u \in DOMAIN results, q \in Regions : results[u][q] = "bad" => results'[u][q] = "bad"
    BY <1>4, <1>7
<1> QED
    BY <1>1, <1>7, <1>9, <1>10, ResultsStep

\* What every operator's step leaves alone and still has to show.
LEMMA OperatorStep ==
    ASSUME IInv, Spend, target' \in [policy : Policies, enabled : BOOLEAN], RowsInv', Resolves,
           \A i \in DOMAIN rows : i \in DOMAIN rows' /\ rows'[i].origin = rows[i].origin
    PROVE  Good
<1>1. /\ TypeOK /\ results' = results /\ pc' = pc /\ tick' = tick
      /\ left.ops > 0 /\ left' = [left EXCEPT !.ops = left.ops - 1]
    BY DEF IInv, Spend
<1>2. left' \in LeftType
    BY <1>1, Spending DEF TypeOK
<1>3. TypeOK'
    BY <1>1, <1>2 DEF TypeOK, RowsInv
<1>4. \A s : Evidence(s) => Evidence(s)'
    BY <1>1, EvidenceSame
<1>5. PlanBacked'
    BY <1>1, <1>4 DEF IInv, PlanBacked
<1> QED
    BY <1>3, <1>5 DEF Good, IInv, RowsInv

\* The current time is a time, never the missing one.
LEMMA NowType == TypeOK => Now \in Nat /\ Now # Null
    BY DEF TypeOK, Now, Null

\* An operator declares an incident.
LEMMA DeclareStep == IInv /\ Declare => Good
<1> SUFFICES ASSUME IInv, Declare PROVE Good
    OBVIOUS
<1> DEFINE row == [origin |-> "manual", start |-> Now, end |-> Null, by |-> "none"]
<1>1. /\ TypeOK /\ RowsInv /\ Spend /\ results' = results /\ target' = target
      /\ OpenOf("manual") = {} /\ rows' = Append(rows, row)
    BY IInvRows DEF IInv, Declare, Spend
<1>2. row \in RowType /\ row.origin = "manual" /\ row.by = "none"
    BY <1>1, NowType DEF RowType, Origins, Null
<1> HIDE DEF row
<1>3. RowsInv' /\ \A i \in DOMAIN rows : i \in DOMAIN rows' /\ rows'[i] = rows[i]
    BY <1>1, <1>2, RowsAppend
<1>4. target' \in [policy : Policies, enabled : BOOLEAN]
    BY <1>1 DEF TypeOK
<1> QED
    BY <1>1, <1>3, <1>4, SameResolves, OperatorStep

\* Resolve and reopen write an incident's end and resolver.
LEMMA UpdateStep ==
    ASSUME IInv, Spend, target' = target, NEW i \in DOMAIN rows, NEW end \in Nat,
           NEW by \in {"none", "operator"},
           rows' = [rows EXCEPT ![i].end = end, ![i].by = by],
           end = Null => Open(i) \/ OpenOf(rows[i].origin) = {},
           Open(i) \/ end = Null
    PROVE  Good
<1>1. TypeOK /\ RowsInv /\ results' = results
    BY IInvRows DEF IInv, Spend
<1>2. /\ RowsInv' /\ DOMAIN rows' = DOMAIN rows
      /\ rows'[i].end = end /\ rows'[i].by = by
      /\ \A j \in DOMAIN rows : rows'[j].origin = rows[j].origin
      /\ \A j \in DOMAIN rows : j # i => rows'[j] = rows[j]
    BY <1>1, RowsUpdate
<1>3. Resolves
    BY <1>2 DEF Resolves, IInv, DeclarationsKept
<1>4. target' \in [policy : Policies, enabled : BOOLEAN]
    BY <1>1 DEF TypeOK
<1> QED
    BY <1>2, <1>3, <1>4, OperatorStep

\* An operator resolves an incident.
LEMMA ResolveStep == IInv /\ Resolve => Good
<1> SUFFICES ASSUME IInv, Resolve PROVE Good
    OBVIOUS
<1>1. PICK i \in DOMAIN rows :
        Open(i) /\ rows' = [rows EXCEPT ![i].end = Now, ![i].by = "operator"]
    BY DEF Resolve
<1>2. Now \in Nat /\ Now # Null
    BY NowType DEF IInv
<1>3. Spend /\ target' = target
    BY DEF Resolve
<1> QED
    BY <1>1, <1>2, <1>3, UpdateStep

\* An operator reopens an incident beside which none is open.
LEMMA ReopenStep == IInv /\ Reopen => Good
<1> SUFFICES ASSUME IInv, Reopen PROVE Good
    OBVIOUS
<1>1. PICK i \in DOMAIN rows :
        OpenOf(rows[i].origin) = {} /\ rows' = [rows EXCEPT ![i].end = Null, ![i].by = "none"]
    BY DEF Reopen, Reopenable
<1>2. Spend /\ target' = target /\ Null \in Nat
    BY DEF Reopen, Null
<1> QED
    BY <1>1, <1>2, UpdateStep

\* An operator edits the monitor.
LEMMA EditStep == IInv /\ Edit => Good
<1> SUFFICES ASSUME IInv, Edit PROVE Good
    OBVIOUS
<1>1. TypeOK /\ RowsInv /\ Spend /\ results' = results /\ rows' = rows
    BY IInvRows DEF IInv, Edit, Spend
<1>2. target' \in [policy : Policies, enabled : BOOLEAN]
    <2>1. CASE target' = [target EXCEPT !.enabled = ~target.enabled]
        BY <1>1, <2>1 DEF TypeOK
    <2>2. CASE \E p \in Policies : target' = [target EXCEPT !.policy = p]
        BY <1>1, <2>2 DEF TypeOK
    <2> QED
        BY <2>1, <2>2 DEF Edit
<1> QED
    BY <1>1, <1>2, RowsSame, SameResolves, OperatorStep

\* A step of nothing.
LEMMA StutterStep == IInv /\ UNCHANGED vars => Good
<1> SUFFICES ASSUME IInv, UNCHANGED vars PROVE Good
    OBVIOUS
<1>1. results' = results /\ rows' = rows /\ UNCHANGED <<target, pc, tick, left>>
    BY DEF vars
<1>2. TypeOK'
    BY <1>1 DEF IInv, TypeOK
<1> QED
    BY <1>1, <1>2, ResultsStep

\* Every step preserves the invariant and resolves as it should.
LEMMA NextGood == IInv /\ [Next]_vars => Good
    BY TickReadStep, TickApplyStep, TickFailsStep, ProbeStep, LateStep, DeclareStep,
       ResolveStep, ReopenStep, EditStep, StutterStep
    DEF Next, Tick, Operator

\* The inductive invariant holds in every reachable state.
LEMMA Inductive == Spec => []IInv
<1>1. IInv /\ [Next]_vars => IInv'
    BY NextGood DEF Good
<1> QED
    BY InitIInv, <1>1, PTL DEF Spec

-----------------------------------------------------------------------------
(* The theorems.                                                           *)

\* Every reachable state has its type: the decision always yields a time, also
\* where trailing runs, the quorum and the sorted trigger meet their edges.
THEOREM TypeCorrect == Spec => []TypeOK
<1>1. IInv => TypeOK
    BY DEF IInv
<1> QED
    BY <1>1, Inductive, PTL

\* However ticks, operators and late results interleave, a monitor has at most one
\* open incident of each origin (insert_open, reopen).
THEOREM OneOpenSafe == Spec => []OneOpenPerOrigin
<1>1. IInv => OneOpenPerOrigin
    BY DEF IInv
<1> QED
    BY <1>1, Inductive, PTL

\* Every incident the writer opened is backed by a region's confirmed run of
\* failures that begins where the incident does (decide_multi).
THEOREM EvidenceSafe == Spec => []EvidenceBacked
<1>1. IInv => EvidenceBacked
    BY DEF IInv
<1> QED
    BY <1>1, Inductive, PTL

\* A resolved incident keeps its end and its resolver until it is reopened, and the
\* writer closes no declaration (close, open_for_pairs).
THEOREM ResolvedSafe == Spec => ResolvedStaysResolved
<1>1. IInv /\ [Next]_vars =>
        [\A i \in DOMAIN rows :
            /\ ~Open(i) => rows'[i] = rows[i] \/ rows'[i].end = Null
            /\ rows[i].origin = "manual" => rows'[i].by # "writer"]_vars
    BY NextGood DEF Good, Resolves
<1> QED
    BY <1>1, Inductive, PTL DEF Spec, ResolvedStaysResolved
=============================================================================
