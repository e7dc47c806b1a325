-------------------------- MODULE Delivery_proofs ---------------------------
(***************************************************************************)
(* Proofs about Delivery: the attempt cap, the number of sends of a row,   *)
(* the number of sends before it is given up, and the number of notices    *)
(* that leave after they stopped fitting the incident.                     *)
(***************************************************************************)
EXTENDS Delivery, TLAPS

-----------------------------------------------------------------------------
(* The inductive invariant.                                                *)

Busy(j) == jobs[j].at # "idle"

\* Rows and histories run in step, and each job works on its own row: the page on
\* the first attempt, a retry on one of its row's later attempts.
JobsFit ==
    /\ Len(rows) <= MaxRows
    /\ Len(history) = Len(rows)
    /\ \A j \in JobIds : Busy(j) => jobs[j].row \in 1..Len(rows)
    /\ jobs[0].at # "read"
    /\ Busy(0) => jobs[0].attempt = 1
    /\ \A i \in RowIds : Busy(i) => jobs[i].row = i /\ jobs[i].attempt >= 2

Sending(j, i) == IF jobs[j].at = "send" /\ jobs[j].row = i THEN 1 ELSE 0

Used == MaxFaults - left.faults
Changes == MaxOps - left.ops

\* Late sends made and late sends under way: the page's, which may become late, and
\* the retry's, which passed its check.
Late(late, sending, changes) == late + sending <= 1 + changes

Stale(i) == reason_is_stale(rows[i].reason, incident)

StaleRetry(i) == IF Stale(i) THEN Sending(i, i) ELSE 0

UnderWay(i) == Sending(0, i) + StaleRetry(i)

StaleBudget(i) == Late(history[i].late, UnderWay(i), Changes)

\* What the page under way may still cause: its send, and, when its mark takes the
\* row back to the first attempt, all the retries once more.
PagePart(i) ==
    IF Busy(0) /\ jobs[0].row = i THEN MaxAttempts - 1 + Sending(0, i) ELSE 0

Bound == 2 * MaxAttempts - 1 + Used

\* Sends made and sends to come: from the row's attempt if the retry under way is
\* lost, from the retry's attempt if it is recorded.
Fits(sends, page, cap, attempt, next, at, bound) ==
    /\ sends + page + (cap - attempt) <= bound + (IF at \in {"health", "mark"} THEN 1 ELSE 0)
    /\ at # "idle" =>
          sends + page + (cap - next) + (IF at \in {"read", "send"} THEN 1 ELSE 0) <= bound

SendBudget(i) ==
    Fits(history[i].sends, PagePart(i), MaxAttempts, rows[i].attempt, jobs[i].attempt,
         jobs[i].at, Bound)

\* The channel has been on from the start.
Steady == channel = "on" /\ left.edits = MaxEdits

\* On a steady channel an attempt that was reached was sent, but for one.
Paid(sends, status, attempt, at, next, outcome) ==
    /\ status # "suppressed" => sends >= attempt - 1
    /\ at \in {"read", "send"} => sends >= next - 2
    /\ at \in {"health", "mark"} /\ outcome # "suppressed" => sends >= next - 1

Earned(i) ==
    Paid(history[i].sends, rows[i].status, rows[i].attempt, jobs[i].at, jobs[i].attempt,
         jobs[i].outcome)

Budgets(i) == StaleBudget(i) /\ SendBudget(i) /\ (Steady => Earned(i))

IInv == TypeOK /\ JobsFit /\ \A i \in 1..Len(rows) : Budgets(i)

-----------------------------------------------------------------------------
(* Sequences.                                                              *)

\* Replacing an element of a sequence changes nothing else.
LEMMA ReplaceElement ==
    ASSUME NEW T, NEW s \in Seq(T), NEW i \in 1..Len(s), NEW x \in T
    PROVE  /\ [s EXCEPT ![i] = x] \in Seq(T)
           /\ Len([s EXCEPT ![i] = x]) = Len(s)
           /\ [s EXCEPT ![i] = x][i] = x
           /\ \A k \in 1..Len(s) : k # i => [s EXCEPT ![i] = x][k] = s[k]
OBVIOUS

\* Appending an element changes nothing before it.
LEMMA AppendElement ==
    ASSUME NEW T, NEW s \in Seq(T), NEW x \in T
    PROVE  /\ Append(s, x) \in Seq(T)
           /\ Len(Append(s, x)) = Len(s) + 1
           /\ Append(s, x)[Len(s) + 1] = x
           /\ \A k \in 1..Len(s) : Append(s, x)[k] = s[k]
OBVIOUS

HistoryType == [sends : Nat, late : Nat]

-----------------------------------------------------------------------------
(* What the steps of a retry and of a page do to the budget of sends.      *)

\* A retry takes the attempt after the row's, goes on to its send or its mark, sends,
\* and its mark raises the row to its attempt.
LEMMA RetryFits ==
    ASSUME NEW s \in Int, NEW p \in Int, NEW c \in Int, NEW a \in Int, NEW n \in Int,
           NEW b \in Int
    PROVE  /\ Fits(s, p, c, a, n, "idle", b) => Fits(s, p, c, a, a + 1, "read", b)
           /\ Fits(s, p, c, a, n, "read", b)
                 => Fits(s, p, c, a, n, "send", b) /\ Fits(s, p, c, a, n, "mark", b)
           /\ Fits(s, p, c, a, n, "send", b) => Fits(s + 1, p, c, a, n, "health", b)
           /\ Fits(s, p, c, a, n, "health", b) => Fits(s, p, c, a, n, "mark", b)
           /\ Fits(s, p, c, a, n, "mark", b) => Fits(s, p, c, n, 0, "idle", b)
BY DEF Fits

\* The send of a page is part of what it may cause, and its mark turns the rest into
\* retries from the first attempt.
LEMMA PageFits ==
    ASSUME NEW s \in Int, NEW p \in Int, NEW c \in Int, NEW a \in Int, NEW n \in Int,
           NEW b \in Int, NEW t, Fits(s, p, c, a, n, t, b)
    PROVE  /\ Fits(s + 1, p - 1, c, a, n, t, b)
           /\ a <= c /\ p = c - 1 /\ p >= 0 => Fits(s, 0, c, 1, n, t, b)
BY DEF Fits

\* The budget keeps the sends made within the bound.
LEMMA FitsBound ==
    ASSUME NEW s \in Int, NEW p \in Int, NEW c \in Int, NEW a \in Int, NEW n \in Int,
           NEW b \in Int, NEW t, Fits(s, p, c, a, n, t, b), p >= 0, a <= c, n <= c
    PROVE  s <= b
BY DEF Fits

\* One more failure pays for a retry or a page that is lost.
LEMMA FaultFits ==
    ASSUME NEW s \in Int, NEW p \in Int, NEW c \in Int, NEW a \in Int, NEW n \in Int,
           NEW b \in Int, NEW t, Fits(s, p, c, a, n, t, b), p >= 0
    PROVE  /\ Fits(s, p, c, a, n, t, b + 1) /\ Fits(s, 0, c, a, n, t, b + 1)
           /\ Fits(s, p, c, a, 0, "idle", b + 1) /\ Fits(s, 0, c, a, 0, "idle", b + 1)
BY DEF Fits

-----------------------------------------------------------------------------
(* What the steps do to the late sends and to the attempts reached.        *)

\* A send under way is counted before and after it is made, and a change of the
\* incident pays for the retry that is past its check.
LEMMA LateSteps ==
    ASSUME NEW l \in Int, NEW c \in Int, NEW p \in Int, Late(l, p, c)
    PROVE  /\ Late(l + 1, p - 1, c)
           /\ \A q \in Int : q <= p => Late(l, q, c)
           /\ \A q \in Int : q <= p + 1 => Late(l, q, c + 1)
BY DEF Late

\* The attempts reached stay paid for: by the row's when the retry begins, by the
\* retry's send, and by the retry when it is recorded.
LEMMA PaidSteps ==
    ASSUME NEW s \in Int, NEW a \in Int, NEW n \in Int, NEW u, NEW t, NEW o,
           Paid(s, u, a, t, n, o)
    PROVE  /\ u # "suppressed" => Paid(s, u, a, "read", a + 1, "failed")
           /\ t = "read" => /\ \A q : Paid(s, u, a, "send", n, q)
                            /\ Paid(s, u, a, "mark", n, "suppressed")
           /\ Paid(s + 1, u, a, t, n, o)
           /\ t = "send" => \A q : Paid(s + 1, u, a, "health", n, q)
           /\ t = "health" => Paid(s, u, a, "mark", n, o)
           /\ t = "mark" => Paid(s, o, n, "idle", 0, "failed")
           /\ s >= 0 => \A q : Paid(s, q, 1, t, n, o)
           /\ Paid(s, u, a, "idle", 0, "failed")
BY DEF Paid

-----------------------------------------------------------------------------
\* The invariant holds at the start: there is no row.
LEMMA InitInv == Init => IInv
<1> SUFFICES ASSUME Init PROVE IInv
  OBVIOUS
<1> USE DeliveryAssumption
<1>1. TypeOK
  <2>1. NoJob \in JobType
    BY DEF NoJob, JobType, Outcomes
  <2> QED
    BY <2>1 DEF Init, TypeOK, IncidentStates, ChannelStates
<1>2. JobsFit
  BY DEF Init, JobsFit, Busy, NoJob, JobIds, RowIds
<1> QED
  BY <1>1, <1>2 DEF Init, IInv

-----------------------------------------------------------------------------
(* Rows an action does not touch.                                          *)

\* The parts of the types the steps below use.
LEMMA Types ==
    ASSUME IInv
    PROVE  /\ MaxAttempts \in Nat /\ MaxAttempts >= 1
           /\ MaxRows \in Nat /\ MaxOps \in Nat /\ MaxFaults \in Nat /\ MaxEdits \in Nat
           /\ left.ops \in 0..MaxOps /\ left.faults \in 0..MaxFaults
           /\ left.edits \in 0..MaxEdits
           /\ Len(rows) \in 0..MaxRows /\ Len(history) = Len(rows)
           /\ rows \in Seq(RowType) /\ history \in Seq(HistoryType)
           /\ DOMAIN rows = 1..Len(rows)
           /\ jobs \in [JobIds -> JobType]
           /\ \A i \in 1..Len(rows) :
                 /\ rows[i] \in RowType /\ history[i] \in HistoryType
                 /\ i \in RowIds /\ i \in JobIds
                 /\ jobs[i] \in JobType
           /\ 0 \in JobIds /\ jobs[0] \in JobType
           /\ RowIds \subseteq JobIds
<1>1. /\ MaxAttempts \in Nat /\ MaxAttempts >= 1
      /\ MaxRows \in Nat /\ MaxOps \in Nat /\ MaxFaults \in Nat /\ MaxEdits \in Nat
  BY DeliveryAssumption
<1>2. /\ rows \in Seq(RowType) /\ history \in Seq(HistoryType)
      /\ jobs \in [JobIds -> JobType]
      /\ left \in [ops : 0..MaxOps, edits : 0..MaxEdits, faults : 0..MaxFaults]
  BY DEF IInv, TypeOK, HistoryType
<1>3. Len(rows) <= MaxRows /\ Len(history) = Len(rows)
  BY DEF IInv, JobsFit
<1> QED
  BY <1>1, <1>2, <1>3 DEF JobIds, RowIds

\* The numbers of a row's budgets.
LEMMA Numbers ==
    ASSUME IInv, NEW i \in 1..Len(rows)
    PROVE  /\ MaxAttempts \in Int /\ Used \in Int /\ Bound \in Int /\ Changes \in Int
           /\ rows[i].attempt \in Int /\ rows[i].attempt >= 1
           /\ rows[i].attempt <= MaxAttempts
           /\ history[i].sends \in Int /\ history[i].sends >= 0
           /\ history[i].late \in Int /\ history[i].late >= 0
           /\ jobs[i].attempt \in Int /\ jobs[0].attempt \in Int
           /\ jobs[i].attempt <= MaxAttempts
           /\ Sending(0, i) \in {0, 1} /\ Sending(i, i) \in {0, 1}
           /\ UnderWay(i) \in Int /\ UnderWay(i) >= 0 /\ UnderWay(i) <= 2
           /\ PagePart(i) \in Int /\ PagePart(i) >= 0 /\ PagePart(i) <= MaxAttempts
<1>1. /\ MaxAttempts \in Nat /\ MaxAttempts >= 1
      /\ MaxOps \in Nat /\ MaxFaults \in Nat
      /\ left.ops \in 0..MaxOps /\ left.faults \in 0..MaxFaults
  BY Types
<1>2. /\ rows[i] \in RowType /\ history[i] \in HistoryType
      /\ jobs[i] \in JobType /\ jobs[0] \in JobType
  BY Types
<1>3. Used \in Int /\ Bound \in Int /\ Changes \in Int
  BY <1>1 DEF Used, Bound, Changes
<1>4. /\ rows[i].attempt \in 1..MaxAttempts
      /\ history[i].sends \in Nat /\ history[i].late \in Nat
      /\ jobs[i].attempt \in 0..MaxAttempts /\ jobs[0].attempt \in 0..MaxAttempts
  BY <1>2 DEF RowType, HistoryType, JobType
<1>5. Sending(0, i) \in {0, 1} /\ Sending(i, i) \in {0, 1}
  BY DEF Sending
<1>6. PagePart(i) \in Int /\ PagePart(i) >= 0 /\ PagePart(i) <= MaxAttempts
  BY <1>1, <1>5 DEF PagePart
<1>7. UnderWay(i) \in Int /\ UnderWay(i) >= 0 /\ UnderWay(i) <= 2
  BY <1>5 DEF UnderWay, StaleRetry
<1> QED
  BY <1>1, <1>3, <1>4, <1>5, <1>6, <1>7

\* A row whose reason, status, attempt, history and jobs stay as they are keeps its
\* budgets while the incident, the channel and the bounds do.
LEMMA Untouched ==
    ASSUME NEW i, Budgets(i),
           rows'[i].reason = rows[i].reason, rows'[i].status = rows[i].status,
           rows'[i].attempt = rows[i].attempt,
           history'[i] = history[i], jobs'[i] = jobs[i],
           PagePart(i)' = PagePart(i), Sending(0, i)' = Sending(0, i),
           UNCHANGED <<incident, channel, left>>
    PROVE  Budgets(i)'
BY DEF Budgets, StaleBudget, Stale, SendBudget, Earned, Steady, Used, Changes, Bound, Busy,
       UnderWay, StaleRetry, Sending

-----------------------------------------------------------------------------
(* The actions.                                                            *)

\* A page adds a row with an empty history and the whole budget.
LEMMA PageInv == IInv /\ Page => IInv'
<1> SUFFICES ASSUME IInv, Page PROVE IInv'
  OBVIOUS
<1> USE Types
<1>0. PICK n \in Nat : n = Len(rows) + 1
  OBVIOUS
<1> USE <1>0
<1> DEFINE point == IF channel = "on" THEN "send" ELSE "mark"
           h == [sends |-> 0, late |-> 0]
           job == [at |-> point, row |-> n, attempt |-> 1, outcome |-> "failed"]
<1>1. PICK reason \in Reasons :
         rows' = Append(rows, [reason |-> reason, status |-> "queued",
                               attempt |-> 1, next |-> "null"])
  BY DEF Page
<1> DEFINE r == [reason |-> reason, status |-> "queued", attempt |-> 1, next |-> "null"]
<1>2. /\ ~Busy(0) /\ n <= MaxRows
      /\ history' = Append(history, h)
      /\ jobs' = [jobs EXCEPT ![0] = job]
      /\ UNCHANGED <<incident, channel, health, left>>
  BY DEF Page, Busy, Idle
<1>3. r \in RowType /\ h \in HistoryType /\ job \in JobType
  BY <1>2 DEF RowType, HistoryType, JobType, Outcomes
<1>4. /\ rows' \in Seq(RowType) /\ Len(rows') = n /\ rows'[n] = r
      /\ \A k \in 1..Len(rows) : rows'[k] = rows[k]
  BY <1>1, <1>3, AppendElement
<1>5. /\ history' \in Seq(HistoryType) /\ Len(history') = n /\ history'[n] = h
      /\ \A k \in 1..Len(rows) : history'[k] = history[k]
  BY <1>2, <1>3, AppendElement
<1>6. /\ jobs' \in [JobIds -> JobType] /\ jobs'[0] = job
      /\ \A j \in JobIds : j # 0 => jobs'[j] = jobs[j]
  BY <1>2, <1>3
<1>7. TypeOK'
  BY <1>2, <1>4, <1>5, <1>6 DEF IInv, TypeOK, HistoryType
<1>8. JobsFit'
  BY <1>2, <1>4, <1>5, <1>6 DEF IInv, JobsFit, Busy, JobIds, RowIds
<1>9. ASSUME NEW i \in 1..Len(rows) PROVE Budgets(i)'
  <2>1. PagePart(i) = 0 /\ Sending(0, i) = 0
    BY <1>2 DEF PagePart, Sending, Busy
  <2>2. PagePart(i)' = 0 /\ Sending(0, i)' = 0
    BY <1>6 DEF PagePart, Sending, Busy
  <2>3. jobs'[i] = jobs[i] /\ i # 0
    BY <1>6
  <2> QED
    BY <1>2, <1>4, <1>5, <2>1, <2>2, <2>3, Untouched DEF IInv
<1>10. Budgets(n)'
  <2>1. n \in JobIds /\ n # 0 /\ n \in RowIds
    BY <1>2 DEF JobIds, RowIds
  <2>2. jobs'[n] = jobs[n] /\ jobs[n].at = "idle"
    BY <1>6, <2>1 DEF IInv, JobsFit, Busy
  <2>3. StaleBudget(n)'
    <3>1. history'[n].late = 0 /\ UnderWay(n)' \in {0, 1}
      BY <1>5, <2>2 DEF UnderWay, StaleRetry, Sending
    <3>2. Changes' \in Nat
      BY <1>2 DEF Changes
    <3> HIDE Types
    <3> QED
      BY <3>1, <3>2 DEF StaleBudget, Late
  <2>4. PagePart(n)' <= MaxAttempts /\ PagePart(n)' \in Int
    BY <1>6 DEF PagePart, Sending
  <2>5. SendBudget(n)'
    <3>1. /\ history'[n].sends = 0 /\ rows'[n].attempt = 1 /\ jobs'[n].at = "idle"
          /\ left'.faults = left.faults
      BY <1>2, <1>4, <1>5, <2>2
    <3> HIDE Types
    <3>2. MaxAttempts \in Nat /\ left.faults \in 0..MaxFaults /\ MaxFaults \in Nat
      BY Types
    <3> QED
      BY <2>4, <3>1, <3>2 DEF SendBudget, Fits, Bound, Used
  <2>6. Earned(n)'
    BY <1>4, <1>5, <2>2 DEF Earned, Paid
  <2> QED
    BY <2>3, <2>5, <2>6 DEF Budgets
<1> QED
  BY <1>4, <1>7, <1>8, <1>9, <1>10 DEF IInv

\* The jobs of a row are typed, and a job that is busy works on a row.
LEMMA JobOfRow ==
    ASSUME IInv, NEW j \in JobIds, Busy(j)
    PROVE  /\ jobs[j].row \in 1..Len(rows)
           /\ jobs[j].row \in RowIds
           /\ j # 0 => jobs[j].row = j /\ jobs[j].attempt >= 2
           /\ j = 0 => jobs[j].attempt = 1 /\ jobs[j].at # "read"
           /\ jobs[j].attempt \in 1..MaxAttempts
           /\ jobs[j] \in JobType
BY Types DEF IInv, JobsFit, JobIds, RowIds, JobType

\* The scan gives a pending row the retry its attempt allows.
LEMMA RetryPendingInv == IInv /\ RetryPending => IInv'
<1> SUFFICES ASSUME IInv, RetryPending PROVE IInv'
  OBVIOUS
<1> DEFINE job(j) == [at |-> "read", row |-> j, attempt |-> rows[j].attempt + 1,
                      outcome |-> "failed"]
           due(j) == j \in 1..Len(rows) /\ pending_notifications(j)
<1>1. /\ \A i \in RowIds : ~Busy(i)
      /\ jobs' = [j \in JobIds |-> IF due(j) THEN job(j) ELSE jobs[j]]
      /\ UNCHANGED <<incident, channel, rows, health, history, left>>
  BY Types DEF RetryPending, Busy, Idle
<1>2. ASSUME NEW j \in JobIds, due(j) PROVE job(j) \in JobType
  <2>1. rows[j].attempt \in 1..MaxAttempts /\ rows[j].attempt < MaxAttempts
    BY <1>2, Types DEF RowType, pending_notifications
  <2>2. rows[j].attempt + 1 \in 0..MaxAttempts
    BY <2>1, Types
  <2> QED
    BY <2>2 DEF JobType, JobIds, Outcomes
<1>3. jobs' \in [JobIds -> JobType]
  BY <1>1, <1>2, Types
<1>4. TypeOK'
  BY <1>1, <1>3 DEF IInv, TypeOK
<1>5. JobsFit'
  <2>1. jobs'[0] = jobs[0]
    BY <1>1, Types
  <2>2. ASSUME NEW i \in RowIds, (Busy(i))'
        PROVE  i \in 1..Len(rows) /\ jobs'[i].row = i /\ jobs'[i].attempt = rows[i].attempt + 1
    BY <1>1, <2>2, Types DEF Busy
  <2>4. ASSUME NEW j \in JobIds, (Busy(j))' PROVE jobs'[j].row \in 1..Len(rows)
    <3>1. CASE j = 0
      BY <2>1, <2>4, <3>1, Types, JobOfRow DEF Busy
    <3>2. CASE j \in RowIds
      BY <2>2, <2>4, <3>2
    <3> QED
      BY <3>1, <3>2, Types DEF JobIds, RowIds
  <2>5. ASSUME NEW i \in RowIds, (Busy(i))' PROVE jobs'[i].row = i /\ jobs'[i].attempt >= 2
    <3>1. i \in 1..Len(rows) /\ jobs'[i].row = i /\ jobs'[i].attempt = rows[i].attempt + 1
      BY <2>2, <2>5
    <3>2. rows[i].attempt \in Int /\ rows[i].attempt >= 1
      BY <3>1, Numbers
    <3> QED
      BY <3>1, <3>2
  <2> QED
    BY <1>1, <2>1, <2>4, <2>5 DEF IInv, JobsFit, Busy
<1>6. ASSUME NEW i \in 1..Len(rows) PROVE Budgets(i)'
  <2>1. jobs'[0] = jobs[0] /\ jobs[i].at = "idle" /\ i # 0 /\ i \in JobIds
    BY <1>1, Types DEF Busy
  <2>2. PagePart(i)' = PagePart(i) /\ Sending(0, i)' = Sending(0, i)
    BY <2>1 DEF PagePart, Sending, Busy
  <2>3. CASE ~due(i)
    <3>1. jobs'[i] = jobs[i]
      BY <1>1, <2>1, <2>3
    <3> QED
      BY <1>1, <2>2, <3>1, Untouched DEF IInv
  <2>4. CASE due(i)
    <3>1. jobs'[i] = job(i)
      BY <1>1, <2>1, <2>4
    <3>2. /\ rows[i].attempt \in Int /\ PagePart(i) \in Int /\ history[i].sends \in Int
          /\ MaxAttempts \in Int /\ Bound \in Int /\ jobs[i].attempt \in Int
      BY Numbers
    <3>due. rows[i].status # "suppressed" /\ Bound' = Bound
      BY <1>1, <2>4 DEF pending_notifications, Bound, Used
    <3>3. Budgets(i)
      BY DEF IInv
    <3>4. StaleBudget(i)'
      <4>1. UnderWay(i)' = UnderWay(i) /\ Changes' = Changes
        BY <1>1, <2>1, <2>2, <3>1 DEF UnderWay, StaleRetry, Stale, Sending, Changes
      <4> QED
        BY <1>1, <3>3, <4>1 DEF Budgets, StaleBudget, Stale
    <3>5. SendBudget(i)'
      <4>1. Fits(history[i].sends, PagePart(i), MaxAttempts, rows[i].attempt,
                 rows[i].attempt + 1, "read", Bound)
        BY <2>1, <3>2, <3>3, RetryFits DEF Budgets, SendBudget
      <4>2. jobs'[i].at = "read" /\ jobs'[i].attempt = rows[i].attempt + 1
        BY <3>1
      <4> QED
        BY <1>1, <2>2, <3>due, <4>1, <4>2 DEF SendBudget
    <3>6. Steady' => Earned(i)'
      <4>1. Steady => Paid(history[i].sends, rows[i].status, rows[i].attempt, "read",
                           rows[i].attempt + 1, "failed")
        BY <3>2, <3>3, <3>due, PaidSteps DEF Budgets, Earned
      <4>2. /\ jobs'[i].at = "read" /\ jobs'[i].attempt = rows[i].attempt + 1
            /\ jobs'[i].outcome = "failed"
        BY <3>1
      <4> QED
        BY <1>1, <4>1, <4>2 DEF Earned, Steady
    <3> QED
      BY <3>4, <3>5, <3>6 DEF Budgets
  <2> QED
    BY <2>3, <2>4
<1> QED
  BY <1>1, <1>4, <1>5, <1>6 DEF IInv

\* A retry goes on to its send only with a reason that fits, and is suppressed or
\* fails otherwise; on a steady channel it does not fail here.
LEMMA RetryOneInv == ASSUME NEW k \in RowIds PROVE IInv /\ RetryOne(k) => IInv'
<1> SUFFICES ASSUME IInv, RetryOne(k) PROVE IInv'
  OBVIOUS
<1>1. /\ jobs[k].at = "read" /\ k \in JobIds /\ k # 0
      /\ UNCHANGED <<incident, channel, rows, health, history, left>>
  BY Types DEF RetryOne, RowIds
<1>2. /\ k \in 1..Len(rows) /\ jobs[k].row = k /\ jobs[k].attempt >= 2
      /\ jobs[k].attempt \in 1..MaxAttempts /\ jobs[k] \in JobType
  BY <1>1, JobOfRow DEF Busy
<1>3. PICK x \in JobType :
         /\ jobs' = [jobs EXCEPT ![k] = x]
         /\ x.at \in {"send", "mark"} /\ x.row = k /\ x.attempt = jobs[k].attempt
         /\ x.at = "send" => ~reason_is_stale(rows[k].reason, incident)
         /\ x.at = "mark" /\ channel = "on" => x.outcome = "suppressed"
  <2>1. PICK x : /\ jobs' = [jobs EXCEPT ![k] = x]
                 /\ \/ x = [jobs[k] EXCEPT !.at = "mark"] /\ channel # "on"
                    \/ x = [jobs[k] EXCEPT !.at = "mark", !.outcome = "suppressed"]
                    \/ /\ x = [jobs[k] EXCEPT !.at = "send"]
                       /\ ~reason_is_stale(rows[k].reason, incident)
    BY DEF RetryOne
  <2>2. /\ x \in JobType /\ x.at \in {"send", "mark"} /\ x.row = k
        /\ x.attempt = jobs[k].attempt
        /\ x.at = "mark" /\ channel = "on" => x.outcome = "suppressed"
        /\ x.at = "send" => ~reason_is_stale(rows[k].reason, incident)
    BY <1>2, <2>1 DEF JobType, Outcomes
  <2> QED
    BY <2>1, <2>2
<1>4. /\ jobs' \in [JobIds -> JobType] /\ jobs'[k] = x
      /\ \A j \in JobIds : j # k => jobs'[j] = jobs[j]
  BY <1>1, <1>3, Types
<1>5. TypeOK'
  BY <1>1, <1>4 DEF IInv, TypeOK
<1>6. JobsFit'
  BY <1>1, <1>2, <1>3, <1>4, Types DEF IInv, JobsFit, Busy
<1>7. ASSUME NEW i \in 1..Len(rows) PROVE Budgets(i)'
  <2>1. jobs'[0] = jobs[0] /\ Budgets(i) /\ i # 0 /\ i \in JobIds
    BY <1>1, <1>4, Types DEF IInv
  <2>2. PagePart(i)' = PagePart(i) /\ Sending(0, i)' = Sending(0, i)
    BY <2>1 DEF PagePart, Sending, Busy
  <2>3. CASE i # k
    BY <1>1, <1>4, <2>1, <2>2, <2>3, Untouched
  <2>4. CASE i = k
    <3>1. /\ rows[k].attempt \in Int /\ jobs[k].attempt \in Int
          /\ PagePart(k) \in Int /\ history[k].sends \in Int /\ MaxAttempts \in Int
          /\ Bound \in Int
      BY <1>2, Numbers
    <3>2. StaleBudget(k)'
      <4>1. StaleRetry(k) = 0 /\ StaleRetry(k)' = 0
        BY <1>1, <1>3, <1>4 DEF StaleRetry, Stale, Sending
      <4>2. UnderWay(k)' = UnderWay(k) /\ Changes' = Changes
        BY <1>1, <2>2, <2>4, <4>1 DEF UnderWay, Changes
      <4> QED
        BY <1>1, <2>1, <2>4, <4>2 DEF Budgets, StaleBudget
    <3>3. Bound' = Bound
      BY <1>1 DEF Bound, Used
    <3>4. SendBudget(k)'
      <4>1. /\ Fits(history[k].sends, PagePart(k), MaxAttempts, rows[k].attempt,
                    jobs[k].attempt, "send", Bound)
            /\ Fits(history[k].sends, PagePart(k), MaxAttempts, rows[k].attempt,
                    jobs[k].attempt, "mark", Bound)
        BY <1>1, <2>1, <2>4, <3>1, RetryFits DEF Budgets, SendBudget
      <4>2. jobs'[k].at \in {"send", "mark"} /\ jobs'[k].attempt = jobs[k].attempt
        BY <1>3, <1>4
      <4>3. PagePart(k)' = PagePart(k)
        BY <1>1, <1>4, Types DEF PagePart, Sending, Busy
      <4> QED
        BY <1>1, <3>3, <4>1, <4>2, <4>3 DEF SendBudget
    <3>5. Steady' => Earned(k)'
      <4>1. Steady => /\ \A q : Paid(history[k].sends, rows[k].status, rows[k].attempt,
                                     "send", jobs[k].attempt, q)
                      /\ Paid(history[k].sends, rows[k].status, rows[k].attempt,
                              "mark", jobs[k].attempt, "suppressed")
        BY <1>1, <2>1, <2>4, <3>1, PaidSteps DEF Budgets, Earned
      <4>2. /\ jobs'[k].attempt = jobs[k].attempt
            /\ \/ jobs'[k].at = "send"
               \/ jobs'[k].at = "mark" /\ (channel = "on" => jobs'[k].outcome = "suppressed")
        BY <1>3, <1>4
      <4> QED
        BY <1>1, <4>1, <4>2 DEF Earned, Steady
    <3> QED
      BY <2>4, <3>2, <3>4, <3>5 DEF Budgets
  <2> QED
    BY <2>3, <2>4
<1> QED
  BY <1>1, <1>5, <1>6, <1>7 DEF IInv

\* A send is taken from the budgets it was counted in.
LEMMA DeliverInv == ASSUME NEW j \in JobIds PROVE IInv /\ Deliver(j) => IInv'
<1> SUFFICES ASSUME IInv, Deliver(j) PROVE IInv'
  OBVIOUS
<1>1. /\ jobs[j].at = "send"
      /\ UNCHANGED <<incident, channel, rows, health, left>>
  BY DEF Deliver
<1>2. PICK k \in RowIds : k = jobs[j].row /\ k \in 1..Len(rows)
  BY <1>1, JobOfRow DEF Busy
<1>3. /\ j # 0 => j = k /\ jobs[j].attempt >= 2
      /\ j = 0 => jobs[j].attempt = 1
      /\ jobs[j] \in JobType /\ k # 0 /\ k \in JobIds
  BY <1>1, <1>2, JobOfRow, Types DEF Busy, RowIds
<1>4. PICK x \in JobType :
         /\ jobs' = [jobs EXCEPT ![j] = x]
         /\ x.at = "health" /\ x.row = k /\ x.attempt = jobs[j].attempt
  <2>1. PICK ok \in BOOLEAN :
           jobs' = [jobs EXCEPT ![j].at = "health",
                                ![j].outcome = IF ok THEN "sent" ELSE "failed"]
    BY DEF Deliver
  <2> DEFINE x == [jobs[j] EXCEPT !.at = "health",
                                  !.outcome = IF ok THEN "sent" ELSE "failed"]
  <2>2. x \in JobType /\ x.at = "health" /\ x.row = k /\ x.attempt = jobs[j].attempt
    BY <1>2, <1>3 DEF JobType, Outcomes
  <2> QED
    BY <2>1, <2>2
<1>5. PICK h \in HistoryType :
         /\ history' = [history EXCEPT ![k] = h]
         /\ h.sends = history[k].sends + 1
         /\ h.late = IF reason_is_stale(rows[k].reason, incident)
                     THEN history[k].late + 1 ELSE history[k].late
  <2>1. history' = [history EXCEPT ![k] =
                 [sends |-> @.sends + 1,
                  late |-> IF reason_is_stale(rows[k].reason, incident)
                           THEN @.late + 1 ELSE @.late]]
    BY <1>2 DEF Deliver
  <2>2. history[k] \in HistoryType
    BY <1>2, Types
  <2> DEFINE h == [sends |-> history[k].sends + 1,
                   late |-> IF reason_is_stale(rows[k].reason, incident)
                            THEN history[k].late + 1 ELSE history[k].late]
  <2>3. h \in HistoryType
    BY <2>2 DEF HistoryType
  <2>4. history' = [history EXCEPT ![k] = h]
    BY <2>1
  <2> QED
    BY <2>3, <2>4
<1>6. /\ jobs' \in [JobIds -> JobType] /\ jobs'[j] = x
      /\ \A i \in JobIds : i # j => jobs'[i] = jobs[i]
  BY <1>4, Types
<1>7. /\ history' \in Seq(HistoryType) /\ Len(history') = Len(rows) /\ history'[k] = h
      /\ \A i \in 1..Len(rows) : i # k => history'[i] = history[i]
  BY <1>2, <1>5, Types, ReplaceElement
<1>8. TypeOK'
  BY <1>1, <1>6, <1>7 DEF IInv, TypeOK, HistoryType
<1>9. JobsFit'
  BY <1>1, <1>2, <1>3, <1>4, <1>6, <1>7, Types DEF IInv, JobsFit, Busy
<1>10. ASSUME NEW i \in 1..Len(rows), i # k PROVE Budgets(i)'
  <2>1. i # j /\ i # 0 /\ i \in JobIds /\ Budgets(i)
    BY <1>3, <1>10, Types DEF IInv, RowIds
  <2>2. PagePart(i)' = PagePart(i) /\ Sending(0, i)' = Sending(0, i)
    <3>1. CASE j = 0
      BY <1>1, <1>2, <1>4, <1>6, <1>10, <3>1 DEF PagePart, Sending, Busy
    <3>2. CASE j # 0
      BY <1>6, <3>2, Types DEF PagePart, Sending, Busy
    <3> QED
      BY <3>1, <3>2
  <2> QED
    BY <1>1, <1>6, <1>7, <1>10, <2>1, <2>2, Untouched
<1>11. Budgets(k)'
  <2>1. Budgets(k)
    BY <1>2 DEF IInv
  <2>2. /\ rows[k].attempt \in Int /\ jobs[k].attempt \in Int /\ PagePart(k) \in Int
        /\ history[k].sends \in Int /\ history[k].late \in Int
        /\ MaxAttempts \in Int /\ Bound \in Int /\ Changes \in Int
        /\ UnderWay(k) \in Int /\ UnderWay(k) >= 0
    BY <1>2, Numbers
  <2>sending. Sending(0, k) \in {0, 1} /\ Sending(k, k) \in {0, 1}
    BY <1>2, Numbers
  <2>3. Bound' = Bound /\ Changes' = Changes
    BY <1>1 DEF Bound, Used, Changes
  <2>late. ASSUME UnderWay(k)' \in Int, UnderWay(k)' <= UnderWay(k),
                  Stale(k) => UnderWay(k)' = UnderWay(k) - 1
           PROVE  StaleBudget(k)'
    <3>1. Late(history[k].late, UnderWay(k), Changes)
      BY <2>1 DEF Budgets, StaleBudget
    <3>2. CASE Stale(k)
      <4>1. Late(history[k].late + 1, UnderWay(k) - 1, Changes)
        BY <2>2, <3>1, LateSteps
      <4> QED
        BY <1>5, <1>7, <2>3, <2>late, <3>2, <4>1 DEF StaleBudget, Stale
    <3>3. CASE ~Stale(k)
      <4>1. Late(history[k].late, UnderWay(k)', Changes)
        BY <2>2, <2>late, <3>1, LateSteps
      <4> QED
        BY <1>5, <1>7, <2>3, <3>3, <4>1 DEF StaleBudget, Stale
    <3> QED
      BY <3>2, <3>3
  <2>stale. Stale(k)' = Stale(k)
    BY <1>1 DEF Stale
  <2>4. CASE j = 0
    <3>1. jobs'[k] = jobs[k] /\ jobs'[0] = x
      BY <1>3, <1>6, <2>4
    <3>2. /\ Sending(0, k) = 1 /\ Sending(0, k)' = 0 /\ Sending(k, k)' = Sending(k, k)
          /\ PagePart(k)' = PagePart(k) - 1
      BY <1>1, <1>2, <1>4, <2>2, <2>4, <3>1 DEF Sending, PagePart, Busy
    <3>3. StaleBudget(k)'
      <4>1. /\ UnderWay(k)' \in Int /\ UnderWay(k)' <= UnderWay(k)
            /\ Stale(k) => UnderWay(k)' = UnderWay(k) - 1
        BY <2>sending, <2>stale, <3>2 DEF UnderWay, StaleRetry
      <4> QED
        BY <2>late, <4>1
    <3>4. SendBudget(k)'
      <4>1. Fits(history[k].sends, PagePart(k), MaxAttempts, rows[k].attempt,
                 jobs[k].attempt, jobs[k].at, Bound)
        BY <2>1 DEF Budgets, SendBudget
      <4>2. Fits(history[k].sends + 1, PagePart(k) - 1, MaxAttempts, rows[k].attempt,
                 jobs[k].attempt, jobs[k].at, Bound)
        BY <2>2, <4>1, PageFits
      <4> QED
        BY <1>1, <1>5, <1>7, <2>3, <3>1, <3>2, <4>2 DEF SendBudget
    <3>5. Steady' => Earned(k)'
      <4>1. Steady => Paid(history[k].sends + 1, rows[k].status, rows[k].attempt,
                           jobs[k].at, jobs[k].attempt, jobs[k].outcome)
        BY <2>1, <2>2, PaidSteps DEF Budgets, Earned
      <4> QED
        BY <1>1, <1>5, <1>7, <3>1, <4>1 DEF Steady, Earned
    <3> QED
      BY <3>3, <3>4, <3>5 DEF Budgets
  <2>5. CASE j = k
    <3>1. jobs'[0] = jobs[0] /\ jobs'[k] = x
      BY <1>3, <1>6, <2>5, Types
    <3>2. /\ Sending(k, k) = 1 /\ Sending(k, k)' = 0 /\ Sending(0, k)' = Sending(0, k)
          /\ PagePart(k)' = PagePart(k)
      BY <1>1, <1>2, <1>4, <2>5, <3>1 DEF Sending, PagePart, Busy
    <3>3. StaleBudget(k)'
      <4>1. /\ UnderWay(k)' \in Int /\ UnderWay(k)' <= UnderWay(k)
            /\ Stale(k) => UnderWay(k)' = UnderWay(k) - 1
        BY <2>sending, <2>stale, <3>2 DEF UnderWay, StaleRetry
      <4> QED
        BY <2>late, <4>1
    <3>4. SendBudget(k)'
      <4>1. Fits(history[k].sends + 1, PagePart(k), MaxAttempts, rows[k].attempt,
                 jobs[k].attempt, "health", Bound)
        BY <1>1, <2>1, <2>2, <2>5, RetryFits DEF Budgets, SendBudget
      <4> QED
        BY <1>1, <1>4, <1>5, <1>7, <2>3, <2>5, <3>1, <3>2, <4>1 DEF SendBudget
    <3>5. Steady' => Earned(k)'
      <4>1. Steady => \A q : Paid(history[k].sends + 1, rows[k].status, rows[k].attempt,
                                  "health", jobs[k].attempt, q)
        BY <1>1, <2>1, <2>2, <2>5, PaidSteps DEF Budgets, Earned
      <4> QED
        BY <1>1, <1>4, <1>5, <1>7, <2>5, <3>1, <4>1 DEF Steady, Earned
    <3> QED
      BY <3>3, <3>4, <3>5 DEF Budgets
  <2> QED
    BY <1>3, <2>4, <2>5
<1> QED
  BY <1>1, <1>8, <1>9, <1>10, <1>11 DEF IInv

\* Health is kept; a failed write of it raises the bound.
LEMMA HealthInv == ASSUME NEW j \in JobIds PROVE IInv /\ RecordChannelHealth(j) => IInv'
<1> SUFFICES ASSUME IInv, RecordChannelHealth(j) PROVE IInv'
  OBVIOUS
<1>1. /\ jobs[j].at = "health" /\ jobs' = [jobs EXCEPT ![j].at = "mark"]
      /\ UNCHANGED <<incident, channel, rows, history>>
  BY DEF RecordChannelHealth
<1>2. /\ health' \in Nat
      /\ \/ left' = left
         \/ left' = [left EXCEPT !.faults = left.faults - 1] /\ left.faults > 0
  <2>1. health \in Nat
    BY DEF IInv, TypeOK
  <2> QED
    BY <2>1 DEF RecordChannelHealth
<1>3. /\ left' \in [ops : 0..MaxOps, edits : 0..MaxEdits, faults : 0..MaxFaults]
      /\ left'.ops = left.ops /\ left'.edits = left.edits
      /\ Bound' = Bound \/ Bound' = Bound + 1
  <2>1. /\ left \in [ops : 0..MaxOps, edits : 0..MaxEdits, faults : 0..MaxFaults]
        /\ MaxFaults \in Nat /\ MaxAttempts \in Nat
    BY Types DEF IInv, TypeOK
  <2>2. CASE left' = left
    BY <2>1, <2>2 DEF Bound, Used
  <2>3. CASE left' = [left EXCEPT !.faults = left.faults - 1] /\ left.faults > 0
    <3>1. left'.faults = left.faults - 1 /\ left.faults \in 0..MaxFaults
      BY <2>1, <2>3
    <3>2. Bound' = Bound + 1
      BY <2>1, <3>1 DEF Bound, Used
    <3> QED
      BY <2>1, <2>3, <3>2
  <2> QED
    BY <1>2, <2>2, <2>3
<1>4. PICK x \in JobType :
         /\ jobs' = [jobs EXCEPT ![j] = x] /\ x.at = "mark" /\ x.row = jobs[j].row
         /\ x.attempt = jobs[j].attempt /\ x.outcome = jobs[j].outcome
  <2>1. jobs[j] \in JobType
    BY Types
  <2> DEFINE x == [jobs[j] EXCEPT !.at = "mark"]
  <2>2. /\ x \in JobType /\ x.at = "mark" /\ x.row = jobs[j].row
        /\ x.attempt = jobs[j].attempt /\ x.outcome = jobs[j].outcome
    BY <2>1 DEF JobType
  <2> QED
    BY <1>1, <2>2
<1>5. /\ jobs' \in [JobIds -> JobType] /\ jobs'[j] = x
      /\ \A i \in JobIds : i # j => jobs'[i] = jobs[i]
  BY <1>4, Types
<1>6. TypeOK'
  BY <1>1, <1>2, <1>3, <1>5 DEF IInv, TypeOK
<1>7. JobsFit'
  BY <1>1, <1>4, <1>5, Types DEF IInv, JobsFit, Busy
<1>8. ASSUME NEW i \in 1..Len(rows) PROVE Budgets(i)'
  <2>1. i # 0 /\ i \in JobIds /\ Budgets(i) /\ 0 \in JobIds
    BY Types DEF IInv
  <2>2. /\ rows[i].attempt \in Int /\ jobs[i].attempt \in Int /\ PagePart(i) \in Int
        /\ PagePart(i) >= 0 /\ history[i].sends \in Int /\ MaxAttempts \in Int /\ Bound \in Int
    BY Numbers
  <2>3. Sending(0, i)' = Sending(0, i) /\ Sending(i, i)' = Sending(i, i)
    BY <1>1, <1>4, <1>5, <2>1 DEF Sending
  <2>4. PagePart(i)' = PagePart(i)
    <3>1. (Busy(0))' = Busy(0) /\ jobs'[0].row = jobs[0].row
      BY <1>1, <1>4, <1>5, <2>1 DEF Busy
    <3> QED
      BY <2>3, <3>1 DEF PagePart
  <2>5. StaleBudget(i)'
    <3>1. UnderWay(i)' = UnderWay(i) /\ Changes' = Changes
      BY <1>1, <1>3, <2>3 DEF UnderWay, StaleRetry, Stale, Changes
    <3> QED
      BY <1>1, <2>1, <3>1 DEF Budgets, StaleBudget, Stale
  <2>6. /\ jobs'[i].attempt = jobs[i].attempt /\ jobs'[i].outcome = jobs[i].outcome
        /\ \/ jobs'[i].at = jobs[i].at
           \/ jobs[i].at = "health" /\ jobs'[i].at = "mark"
    BY <1>1, <1>4, <1>5, <2>1
  <2>7. SendBudget(i)'
    <3>1. Fits(history[i].sends, PagePart(i), MaxAttempts, rows[i].attempt,
               jobs[i].attempt, jobs'[i].at, Bound)
      <4>1. Fits(history[i].sends, PagePart(i), MaxAttempts, rows[i].attempt,
                 jobs[i].attempt, jobs[i].at, Bound)
        BY <2>1 DEF Budgets, SendBudget
      <4>2. CASE jobs'[i].at = jobs[i].at
        BY <2>1, <4>2, Zenon DEF Budgets, SendBudget
      <4>3. CASE jobs[i].at = "health" /\ jobs'[i].at = "mark"
        <5>1. Fits(history[i].sends, PagePart(i), MaxAttempts, rows[i].attempt,
                   jobs[i].attempt, "health", Bound)
          BY <4>1, <4>3
        <5>2. Fits(history[i].sends, PagePart(i), MaxAttempts, rows[i].attempt,
                   jobs[i].attempt, "mark", Bound)
          BY <2>2, <5>1, RetryFits
        <5> QED
          BY <4>3, <5>2
      <4> QED
        BY <2>6, <4>2, <4>3
    <3>2. Fits(history[i].sends, PagePart(i), MaxAttempts, rows[i].attempt,
               jobs[i].attempt, jobs'[i].at, Bound')
      <4>1. CASE Bound' = Bound
        BY <3>1, <4>1
      <4>2. CASE Bound' = Bound + 1
        BY <2>2, <3>1, <4>2, FaultFits
      <4> QED
        BY <1>3, <4>1, <4>2
    <3> QED
      BY <1>1, <2>4, <2>6, <3>2 DEF SendBudget
  <2>8. Steady' => Earned(i)'
    BY <1>1, <1>3, <2>1, <2>2, <2>6, PaidSteps DEF Budgets, Steady, Earned
  <2> QED
    BY <2>5, <2>7, <2>8 DEF Budgets
<1> QED
  BY <1>1, <1>6, <1>7, <1>8 DEF IInv

\* The page's mark takes the row back to the first attempt, a retry's mark takes it to
\* the retry's.
LEMMA MarkInv == ASSUME NEW j \in JobIds PROVE IInv /\ Mark(j) => IInv'
<1> SUFFICES ASSUME IInv, Mark(j) PROVE IInv'
  OBVIOUS
<1>1. /\ jobs[j].at = "mark" /\ jobs' = [jobs EXCEPT ![j] = NoJob]
      /\ UNCHANGED <<incident, channel, health, history, left>>
  BY DEF Mark
<1>2. PICK k \in RowIds : k = jobs[j].row /\ k \in 1..Len(rows)
  BY <1>1, JobOfRow DEF Busy
<1>3. /\ j # 0 => j = k /\ jobs[j].attempt >= 2
      /\ j = 0 => jobs[j].attempt = 1
      /\ jobs[j].attempt \in 1..MaxAttempts
      /\ jobs[j] \in JobType /\ k # 0 /\ k \in JobIds
  BY <1>1, <1>2, JobOfRow, Types DEF Busy, RowIds
<1>4. PICK r \in RowType :
         /\ rows' = [rows EXCEPT ![k] = r]
         /\ r.reason = rows[k].reason /\ r.attempt = jobs[j].attempt
         /\ r.status = jobs[j].outcome
  <2>1. rows[k] \in RowType
    BY <1>2, Types
  <2> DEFINE wait == IF jobs[j].outcome = "failed" /\ retry_delay(jobs[j].attempt)
                     THEN "wait" ELSE "null"
             r == [rows[k] EXCEPT !.status = jobs[j].outcome, !.attempt = jobs[j].attempt,
                                  !.next = wait]
  <2>2. rows' = [rows EXCEPT ![k] = r]
    BY <1>2, <2>1 DEF Mark, mark_notification
  <2>3. /\ r \in RowType /\ r.reason = rows[k].reason /\ r.attempt = jobs[j].attempt
        /\ r.status = jobs[j].outcome
    <3>1. wait \in {"null", "wait", "due"}
      OBVIOUS
    <3>2. jobs[j].outcome \in Outcomes
      BY <1>3 DEF JobType
    <3> HIDE DEF wait
    <3> QED
      BY <1>3, <2>1, <3>1, <3>2 DEF RowType
  <2> QED
    BY <2>2, <2>3
<1>5. NoJob \in JobType /\ NoJob.at = "idle" /\ NoJob.attempt = 0 /\ NoJob.outcome = "failed"
  BY Types DEF NoJob, JobType, Outcomes
<1>6. /\ jobs' \in [JobIds -> JobType] /\ jobs'[j] = NoJob
      /\ \A i \in JobIds : i # j => jobs'[i] = jobs[i]
  BY <1>1, <1>5, Types
<1>7. /\ rows' \in Seq(RowType) /\ Len(rows') = Len(rows) /\ rows'[k] = r
      /\ \A i \in 1..Len(rows) : i # k => rows'[i] = rows[i]
  BY <1>2, <1>4, Types, ReplaceElement
<1>8. TypeOK'
  BY <1>1, <1>6, <1>7 DEF IInv, TypeOK
<1>9. JobsFit'
  BY <1>1, <1>5, <1>6, <1>7, Types DEF IInv, JobsFit, Busy
<1>10. ASSUME NEW i \in 1..Len(rows), i # k PROVE Budgets(i)'
  <2>1. i # j /\ i # 0 /\ i \in JobIds /\ Budgets(i)
    BY <1>3, <1>10, Types DEF IInv, RowIds
  <2>2. PagePart(i)' = PagePart(i) /\ Sending(0, i)' = Sending(0, i)
    <3>1. CASE j = 0
      BY <1>1, <1>2, <1>5, <1>6, <1>10, <3>1 DEF PagePart, Sending, Busy
    <3>2. CASE j # 0
      BY <1>6, <3>2, Types DEF PagePart, Sending, Busy
    <3> QED
      BY <3>1, <3>2
  <2> QED
    BY <1>1, <1>6, <1>7, <1>10, <2>1, <2>2, Untouched
<1>11. Budgets(k)'
  <2>1. Budgets(k)
    BY <1>2 DEF IInv
  <2>2. /\ rows[k].attempt \in Int /\ jobs[k].attempt \in Int /\ PagePart(k) \in Int
        /\ PagePart(k) >= 0 /\ rows[k].attempt <= MaxAttempts
        /\ history[k].sends \in Int /\ history[k].sends >= 0
        /\ MaxAttempts \in Int /\ Bound \in Int
    BY <1>2, Numbers
  <2>3. Bound' = Bound /\ Changes' = Changes
    BY <1>1 DEF Bound, Used, Changes
  <2>4. StaleBudget(k)'
    <3>1. Sending(0, k)' = Sending(0, k) /\ Sending(k, k)' = Sending(k, k)
      BY <1>1, <1>3, <1>5, <1>6, Types DEF Sending
    <3>2. UnderWay(k)' = UnderWay(k)
      BY <1>1, <1>4, <1>7, <3>1 DEF UnderWay, StaleRetry, Stale
    <3> QED
      BY <1>1, <1>4, <1>7, <2>1, <2>3, <3>2 DEF Budgets, StaleBudget, Stale
  <2>5. CASE j = 0
    <3>1. jobs'[k] = jobs[k] /\ jobs'[0] = NoJob
      BY <1>3, <1>6, <2>5
    <3>2. PagePart(k) = MaxAttempts - 1 /\ PagePart(k)' = 0
      BY <1>1, <1>2, <1>5, <2>2, <2>5, <3>1 DEF Sending, PagePart, Busy
    <3>3. SendBudget(k)'
      <4>1. Fits(history[k].sends, 0, MaxAttempts, 1, jobs[k].attempt, jobs[k].at, Bound)
        BY <2>1, <2>2, <3>2, PageFits DEF Budgets, SendBudget
      <4> QED
        BY <1>1, <1>3, <1>4, <1>7, <2>3, <2>5, <3>1, <3>2, <4>1 DEF SendBudget
    <3>4. Steady' => Earned(k)'
      <4>1. Steady => \A q : Paid(history[k].sends, q, 1, jobs[k].at, jobs[k].attempt,
                                  jobs[k].outcome)
        BY <2>1, <2>2, PaidSteps DEF Budgets, Earned
      <4> QED
        BY <1>1, <1>3, <1>4, <1>7, <2>5, <3>1, <4>1 DEF Steady, Earned
    <3> QED
      BY <2>4, <3>3, <3>4 DEF Budgets
  <2>6. CASE j = k
    <3>1. jobs'[0] = jobs[0] /\ jobs'[k] = NoJob
      BY <1>3, <1>6, <2>6, Types
    <3>2. PagePart(k)' = PagePart(k)
      BY <3>1 DEF Sending, PagePart, Busy
    <3>3. SendBudget(k)'
      <4>1. Fits(history[k].sends, PagePart(k), MaxAttempts, jobs[k].attempt, 0, "idle",
                 Bound)
        BY <1>1, <2>1, <2>2, <2>6, RetryFits DEF Budgets, SendBudget
      <4> QED
        BY <1>1, <1>4, <1>5, <1>7, <2>3, <2>6, <3>1, <3>2, <4>1 DEF SendBudget
    <3>4. Steady' => Earned(k)'
      <4>1. Steady => Paid(history[k].sends, jobs[k].outcome, jobs[k].attempt, "idle", 0,
                           "failed")
        BY <1>1, <2>1, <2>2, <2>6, PaidSteps DEF Budgets, Earned
      <4> QED
        BY <1>1, <1>4, <1>5, <1>7, <2>6, <3>1, <4>1 DEF Steady, Earned
    <3> QED
      BY <2>4, <3>3, <3>4 DEF Budgets
  <2> QED
    BY <1>3, <2>5, <2>6
<1> QED
  BY <1>7, <1>8, <1>9, <1>10, <1>11 DEF IInv

\* A backoff that has passed is no part of a budget.
LEMMA ElapseInv == ASSUME NEW k \in DOMAIN rows PROVE IInv /\ Elapse(k) => IInv'
<1> SUFFICES ASSUME IInv, Elapse(k) PROVE IInv'
  OBVIOUS
<1>1. /\ rows' = [rows EXCEPT ![k].next = "due"] /\ k \in 1..Len(rows)
      /\ UNCHANGED <<incident, channel, jobs, health, history, left>>
  BY Types DEF Elapse
<1>2. PICK r \in RowType :
         /\ rows' = [rows EXCEPT ![k] = r] /\ r.reason = rows[k].reason
         /\ r.status = rows[k].status /\ r.attempt = rows[k].attempt
  <2>1. rows[k] \in RowType
    BY <1>1, Types
  <2> DEFINE r == [rows[k] EXCEPT !.next = "due"]
  <2>2. /\ r \in RowType /\ r.reason = rows[k].reason
        /\ r.status = rows[k].status /\ r.attempt = rows[k].attempt
    BY <2>1 DEF RowType
  <2> QED
    BY <1>1, <2>2
<1>3. /\ rows' \in Seq(RowType) /\ Len(rows') = Len(rows) /\ rows'[k] = r
      /\ \A i \in 1..Len(rows) : i # k => rows'[i] = rows[i]
  <2>1. rows \in Seq(RowType)
    BY Types
  <2> QED
    BY <1>1, <1>2, <2>1, ReplaceElement
<1>4. TypeOK'
  BY <1>1, <1>3 DEF IInv, TypeOK
<1>5. JobsFit'
  BY <1>1, <1>3 DEF IInv, JobsFit, Busy
<1>6. ASSUME NEW i \in 1..Len(rows) PROVE Budgets(i)'
  <2>1. /\ rows'[i].reason = rows[i].reason /\ rows'[i].status = rows[i].status
        /\ rows'[i].attempt = rows[i].attempt
    BY <1>2, <1>3
  <2>2. PagePart(i)' = PagePart(i) /\ Sending(0, i)' = Sending(0, i)
    BY <1>1 DEF PagePart, Sending, Busy
  <2> QED
    BY <1>1, <2>1, <2>2, Untouched DEF IInv
<1> QED
  BY <1>3, <1>4, <1>5, <1>6 DEF IInv

\* A job that is lost frees what it was given, and the failure pays for one send.
LEMMA FaultInv == IInv /\ Fault => IInv'
<1> SUFFICES ASSUME IInv, Fault PROVE IInv'
  OBVIOUS
<1>1. /\ left.faults > 0 /\ left' = [left EXCEPT !.faults = left.faults - 1]
      /\ UNCHANGED <<incident, channel, rows, health, history>>
  BY DEF Fault
<1>2. /\ left' \in [ops : 0..MaxOps, edits : 0..MaxEdits, faults : 0..MaxFaults]
      /\ left'.ops = left.ops /\ left'.edits = left.edits
      /\ Bound' = Bound + 1
  <2>1. /\ left \in [ops : 0..MaxOps, edits : 0..MaxEdits, faults : 0..MaxFaults]
        /\ MaxFaults \in Nat /\ MaxAttempts \in Nat
    BY Types DEF IInv, TypeOK
  <2>2. left'.faults = left.faults - 1 /\ left.faults \in 0..MaxFaults
    BY <1>1, <2>1
  <2>3. Bound' = Bound + 1
    BY <2>1, <2>2 DEF Bound, Used
  <2> QED
    BY <1>1, <2>1, <2>3
<1>3. NoJob \in JobType /\ NoJob.at = "idle" /\ NoJob.attempt = 0 /\ NoJob.outcome = "failed"
  BY Types DEF NoJob, JobType, Outcomes
<1>4. /\ jobs' \in [JobIds -> JobType]
      /\ \A j \in JobIds : jobs'[j] = jobs[j] \/ jobs'[j] = NoJob
  <2>1. CASE \E j \in JobIds : jobs' = [jobs EXCEPT ![j] = NoJob]
    BY <1>3, <2>1, Types
  <2>2. CASE jobs' = [j \in JobIds |-> NoJob]
    BY <1>3, <2>2
  <2> QED
    BY <2>1, <2>2 DEF Fault
<1>5. TypeOK'
  BY <1>1, <1>2, <1>4 DEF IInv, TypeOK
<1>6. JobsFit'
  BY <1>1, <1>3, <1>4, Types DEF IInv, JobsFit, Busy
<1>7. ASSUME NEW i \in 1..Len(rows) PROVE Budgets(i)'
  <2>1. i \in JobIds /\ 0 \in JobIds /\ Budgets(i)
    BY Types DEF IInv
  <2>2. /\ rows[i].attempt \in Int /\ jobs[i].attempt \in Int /\ PagePart(i) \in Int
        /\ PagePart(i) >= 0 /\ history[i].sends \in Int /\ history[i].late \in Int
        /\ MaxAttempts \in Int /\ Bound \in Int /\ Changes \in Int
        /\ UnderWay(i) \in Int
    BY Numbers
  <2>3. Sending(0, i) \in {0, 1} /\ Sending(i, i) \in {0, 1}
    BY Numbers
  <2>4. /\ Sending(0, i)' = Sending(0, i) \/ Sending(0, i)' = 0
        /\ Sending(i, i)' = Sending(i, i) \/ Sending(i, i)' = 0
    BY <1>3, <1>4, <2>1 DEF Sending
  <2>5. StaleBudget(i)'
    <3>1. UnderWay(i)' \in Int /\ UnderWay(i)' <= UnderWay(i)
      BY <1>1, <2>3, <2>4 DEF UnderWay, StaleRetry, Stale
    <3>2. Changes' = Changes
      BY <1>2 DEF Changes
    <3>3. Late(history[i].late, UnderWay(i)', Changes)
      BY <2>1, <2>2, <3>1, LateSteps DEF Budgets, StaleBudget
    <3> QED
      BY <1>1, <2>1, <3>2, <3>3 DEF Budgets, StaleBudget, Stale
  <2>6. PagePart(i)' = PagePart(i) \/ PagePart(i)' = 0
    BY <1>3, <1>4, <2>1 DEF PagePart, Sending, Busy
  <2>7. SendBudget(i)'
    <3>1. Fits(history[i].sends, PagePart(i), MaxAttempts, rows[i].attempt,
               jobs[i].attempt, jobs[i].at, Bound)
      BY <2>1 DEF Budgets, SendBudget
    <3>2. ASSUME NEW p \in {PagePart(i), 0}
          PROVE  /\ Fits(history[i].sends, p, MaxAttempts, rows[i].attempt,
                         jobs[i].attempt, jobs[i].at, Bound + 1)
                 /\ Fits(history[i].sends, p, MaxAttempts, rows[i].attempt, 0, "idle",
                         Bound + 1)
      BY <2>2, <3>1, FaultFits
    <3>3. CASE jobs'[i] = jobs[i]
      BY <1>1, <1>2, <2>6, <3>2, <3>3 DEF SendBudget
    <3>4. CASE jobs'[i] = NoJob
      BY <1>1, <1>2, <1>3, <2>6, <3>2, <3>4 DEF SendBudget
    <3> QED
      BY <1>4, <2>1, <3>3, <3>4
  <2>8. Steady' => Earned(i)'
    <3>1. Steady => Paid(history[i].sends, rows[i].status, rows[i].attempt, "idle", 0,
                         "failed")
      BY <2>1, <2>2, PaidSteps DEF Budgets, Earned
    <3> QED
      BY <1>1, <1>2, <1>3, <1>4, <2>1, <3>1 DEF Budgets, Steady, Earned
  <2> QED
    BY <2>5, <2>7, <2>8 DEF Budgets
<1> QED
  BY <1>1, <1>5, <1>6, <1>7 DEF IInv

\* A change of the incident pays for the retry that is past its check.
LEMMA OperateInv == IInv /\ Operate => IInv'
<1> SUFFICES ASSUME IInv, Operate PROVE IInv'
  OBVIOUS
<1>1. /\ left.ops > 0 /\ left' = [left EXCEPT !.ops = left.ops - 1]
      /\ incident' \in IncidentStates
      /\ UNCHANGED <<channel, rows, jobs, health, history>>
  BY DEF Operate, IncidentStates
<1>2. /\ left' \in [ops : 0..MaxOps, edits : 0..MaxEdits, faults : 0..MaxFaults]
      /\ left'.faults = left.faults /\ left'.edits = left.edits
      /\ Changes' = Changes + 1
  <2>1. /\ left \in [ops : 0..MaxOps, edits : 0..MaxEdits, faults : 0..MaxFaults]
        /\ MaxOps \in Nat
    BY Types DEF IInv, TypeOK
  <2>2. left'.ops = left.ops - 1 /\ left.ops \in 0..MaxOps
    BY <1>1, <2>1
  <2>3. Changes' = Changes + 1
    BY <2>1, <2>2 DEF Changes
  <2> QED
    BY <1>1, <2>1, <2>3
<1>3. TypeOK'
  BY <1>1, <1>2 DEF IInv, TypeOK
<1>4. JobsFit'
  BY <1>1 DEF IInv, JobsFit, Busy
<1>5. ASSUME NEW i \in 1..Len(rows) PROVE Budgets(i)'
  <2>1. Budgets(i)
    BY DEF IInv
  <2>2. /\ history[i].late \in Int /\ Changes \in Int
        /\ UnderWay(i) \in Int /\ Sending(0, i) \in {0, 1} /\ Sending(i, i) \in {0, 1}
    BY Numbers
  <2>3. StaleBudget(i)'
    <3>1. Sending(0, i)' = Sending(0, i) /\ Sending(i, i)' = Sending(i, i)
      BY <1>1 DEF Sending
    <3>2. UnderWay(i)' \in Int /\ UnderWay(i)' <= UnderWay(i) + 1
      BY <2>2, <3>1 DEF UnderWay, StaleRetry
    <3>3. Late(history[i].late, UnderWay(i)', Changes + 1)
      BY <2>1, <2>2, <3>2, LateSteps DEF Budgets, StaleBudget
    <3> QED
      BY <1>1, <1>2, <3>3 DEF StaleBudget
  <2>4. SendBudget(i)'
    <3>1. PagePart(i)' = PagePart(i) /\ Bound' = Bound
      BY <1>1, <1>2 DEF PagePart, Sending, Busy, Bound, Used
    <3> QED
      BY <1>1, <2>1, <3>1 DEF Budgets, SendBudget
  <2>5. Steady' => Earned(i)'
    BY <1>1, <1>2, <2>1 DEF Budgets, Steady, Earned
  <2> QED
    BY <2>3, <2>4, <2>5 DEF Budgets
<1> QED
  BY <1>1, <1>3, <1>4, <1>5 DEF IInv

\* After an edit the channel is not steady any more.
LEMMA EditInv == IInv /\ Edit => IInv'
<1> SUFFICES ASSUME IInv, Edit PROVE IInv'
  OBVIOUS
<1>1. /\ left.edits > 0 /\ left' = [left EXCEPT !.edits = left.edits - 1]
      /\ channel' \in ChannelStates
      /\ UNCHANGED <<incident, rows, jobs, history>>
  BY DEF Edit
<1>2. health' \in Nat
  <2>1. health \in Nat
    BY DEF IInv, TypeOK
  <2> QED
    BY <2>1 DEF Edit
<1>3. /\ left' \in [ops : 0..MaxOps, edits : 0..MaxEdits, faults : 0..MaxFaults]
      /\ left'.faults = left.faults /\ left'.ops = left.ops /\ left'.edits # MaxEdits
  <2>1. /\ left \in [ops : 0..MaxOps, edits : 0..MaxEdits, faults : 0..MaxFaults]
        /\ MaxEdits \in Nat
    BY Types DEF IInv, TypeOK
  <2>2. left'.edits = left.edits - 1 /\ left.edits \in 0..MaxEdits
    BY <1>1, <2>1
  <2>3. left'.edits # MaxEdits
    BY <2>1, <2>2
  <2> QED
    BY <1>1, <2>1, <2>3
<1>4. TypeOK'
  BY <1>1, <1>2, <1>3 DEF IInv, TypeOK
<1>5. JobsFit'
  BY <1>1 DEF IInv, JobsFit, Busy
<1>6. ASSUME NEW i \in 1..Len(rows) PROVE Budgets(i)'
  <2>1. Budgets(i)
    BY DEF IInv
  <2>2. /\ PagePart(i)' = PagePart(i) /\ Bound' = Bound
        /\ UnderWay(i)' = UnderWay(i) /\ Changes' = Changes
    BY <1>1, <1>3 DEF PagePart, Sending, Busy, Bound, Used, UnderWay, StaleRetry, Stale, Changes
  <2>3. StaleBudget(i)' /\ SendBudget(i)'
    BY <1>1, <2>1, <2>2 DEF Budgets, StaleBudget, Stale, SendBudget
  <2>4. ~Steady'
    BY <1>3 DEF Steady
  <2> QED
    BY <2>3, <2>4 DEF Budgets
<1> QED
  BY <1>1, <1>4, <1>5, <1>6 DEF IInv

\* Nothing else changes a budget.
LEMMA StutterInv == IInv /\ UNCHANGED vars => IInv'
<1> SUFFICES ASSUME IInv, UNCHANGED vars PROVE IInv'
  OBVIOUS
<1>1. UNCHANGED <<incident, channel, rows, jobs, health, history, left>>
  BY DEF vars
<1>2. TypeOK' /\ JobsFit'
  BY <1>1 DEF IInv, TypeOK, JobsFit, Busy
<1>3. ASSUME NEW i \in 1..Len(rows) PROVE Budgets(i)'
  <2>1. PagePart(i)' = PagePart(i) /\ Sending(0, i)' = Sending(0, i)
    BY <1>1 DEF PagePart, Sending, Busy
  <2> QED
    BY <1>1, <2>1, Untouched DEF IInv
<1> QED
  BY <1>1, <1>2, <1>3 DEF IInv

-----------------------------------------------------------------------------
(* The theorems.                                                           *)

LEMMA StepInv == IInv /\ [Next]_vars => IInv'
<1> SUFFICES ASSUME IInv, [Next]_vars PROVE IInv'
  OBVIOUS
<1>1. CASE Page
  BY <1>1, PageInv
<1>2. CASE RetryPending
  BY <1>2, RetryPendingInv
<1>3. ASSUME NEW i \in RowIds, RetryOne(i) PROVE IInv'
  BY <1>3, RetryOneInv
<1>4. ASSUME NEW j \in JobIds, Step(j) PROVE IInv'
  BY <1>4, DeliverInv, HealthInv, MarkInv DEF Step
<1>5. ASSUME NEW i \in DOMAIN rows, Elapse(i) PROVE IInv'
  BY <1>5, ElapseInv
<1>6. CASE Fault
  BY <1>6, FaultInv
<1>7. CASE Operate
  BY <1>7, OperateInv
<1>8. CASE Edit
  BY <1>8, EditInv
<1>9. CASE UNCHANGED vars
  BY <1>9, StutterInv
<1> QED
  BY <1>1, <1>2, <1>3, <1>4, <1>5, <1>6, <1>7, <1>8, <1>9 DEF Next

\* The invariant holds throughout.
LEMMA Invariance == Spec => []IInv
BY InitInv, StepInv, PTL DEF Spec

\* pending_notifications and the marks keep every attempt within the cap, for any cap
\* and any number of rows, operators, edits and failures.
THEOREM TypeCorrect == Spec => []TypeOK
<1>1. IInv => TypeOK
  BY DEF IInv
<1> QED
  BY <1>1, Invariance, PTL

\* A page overwriting what its retries reached, and every lost mark, cost no more
\* sends than SendsBounded says.
THEOREM SendsSafe == Spec => []SendsBounded
<1>1. IInv => SendsBounded
  <2> SUFFICES ASSUME IInv, NEW i \in DOMAIN rows
               PROVE  history[i].sends <= Bound
    BY DEF SendsBounded, Bound, Used
  <2>1. i \in 1..Len(rows) /\ i \in JobIds
    BY Types
  <2>2. Fits(history[i].sends, PagePart(i), MaxAttempts, rows[i].attempt,
             jobs[i].attempt, jobs[i].at, Bound)
    BY <2>1 DEF IInv, Budgets, SendBudget
  <2>3. /\ rows[i].attempt \in Int /\ jobs[i].attempt \in Int /\ PagePart(i) \in Int
        /\ PagePart(i) >= 0 /\ history[i].sends \in Int /\ MaxAttempts \in Int
        /\ Bound \in Int /\ rows[i].attempt <= MaxAttempts
        /\ jobs[i].attempt <= MaxAttempts
    BY <2>1, Numbers
  <2> QED
    BY <2>2, <2>3, FitsBound
<1> QED
  BY <1>1, Invariance, PTL

\* A row that was dead-lettered on a channel that stayed on was sent once per attempt,
\* but for the one a failure may have swallowed.
THEOREM GivesUpSafe == Spec => []GivesUpLate
<1>1. IInv => GivesUpLate
  <2> SUFFICES ASSUME IInv, Steady, NEW i \in DOMAIN rows,
                      rows[i].status = "failed", rows[i].attempt = MaxAttempts
               PROVE  history[i].sends >= MaxAttempts - 1
    BY DEF GivesUpLate, Steady
  <2>1. i \in 1..Len(rows)
    BY Types
  <2> QED
    BY <2>1 DEF IInv, Budgets, Earned, Paid
<1> QED
  BY <1>1, Invariance, PTL

\* Notices that leave after they stopped fitting the incident number at most one, for
\* the page, which does not check, and one per change of the incident (page_channels,
\* retry_one).
THEOREM StaleSafe == Spec => []StaleSendsBounded
<1>1. IInv => StaleSendsBounded
  <2> SUFFICES ASSUME IInv, NEW i \in DOMAIN rows
               PROVE  history[i].late <= 1 + Changes
    BY DEF StaleSendsBounded, Changes
  <2>1. i \in 1..Len(rows)
    BY Types
  <2>2. Late(history[i].late, UnderWay(i), Changes)
    BY <2>1 DEF IInv, Budgets, StaleBudget
  <2>3. history[i].late \in Int /\ Changes \in Int /\ UnderWay(i) \in Int /\ UnderWay(i) >= 0
    BY <2>1, Numbers
  <2> QED
    BY <2>2, <2>3 DEF Late
<1> QED
  BY <1>1, Invariance, PTL

=============================================================================
