--------------------------- MODULE Paging_proofs ----------------------------
(***************************************************************************)
(* Proofs about Paging, for every set of channels and handlers, every      *)
(* ladder and every bound.                                                 *)
(*                                                                         *)
(* OnePagePerEpisode and AllClearAnswersAPage are not inductive: what a    *)
(* page writes was decided from a read of the log several steps earlier.   *)
(* IInv says what stays true of the log while the page lock is held, even  *)
(* though the ladder walk and the release marker write without it.         *)
(* HoldReleasedOnce and RungsInOrder rest on what those two know, in       *)
(* ReleaseInv and RungInv.                                                 *)
(***************************************************************************)
EXTENDS Paging, TLAPS, SequenceTheorems

Opening == {"opened", "reopened"}

Locked == {"open", "hold_maintenance", "hold_damped", "route", "resolve", "page"}

\* A process between taking and dropping the page lock is its holder.
LockHeld == \A p \in Procs : pc[p] \in Locked => lock = p

\* Which reasons are under way at which point.
ReasonFits(p) ==
    /\ pc[p] \in {"open", "hold_maintenance", "hold_damped", "route", "release_page"}
         => job[p].reason \in Opening
    /\ pc[p] = "resolve" => job[p].reason = "resolved"
    /\ pc[p] = "escalate_page" => job[p].reason = "escalated"

HoldsAreOpens ==
    \A i \in DOMAIN rows : rows[i].chan \in HoldMarkers => rows[i].reason \in Opening

ReasonsFit == HoldsAreOpens /\ \A p \in Procs : ReasonFits(p)

\* Row i has an all-clear after it.
Cleared(rs, i) == \E k \in (i + 1)..Len(rs) : rs[k].reason = "resolved"

OpensOf(rs, C) == {i \in DOMAIN rs : rs[i].chan \in C /\ rs[i].reason \in Opening}

\* No episode is open when the route is chosen, and none of the channels still
\* to be paged has been paged in the episode under way.
OpenPending(p) ==
    /\ pc[p] = "route" => \A i \in OpensOf(rows, Channels) : Cleared(rows, i)
    /\ pc[p] = "page" /\ job[p].reason \in Opening
         => \A i \in OpensOf(rows, job[p].todo) : Cleared(rows, i)

\* Row i of the log is an open-side page of c with no all-clear to c from there
\* up to row n.
Told(rs, c, i, n) ==
    /\ rs[i].chan = c
    /\ rs[i].reason \in OpenReasons
    /\ \A k \in i..n : rs[k].chan = c => rs[k].reason # "resolved"

\* The channels still to be cleared or reminded were told and not cleared.
ClearPending(p) ==
    pc[p] = "page" /\ job[p].reason \in {"resolved", "reminder"}
    => \A c \in job[p].todo : \E i \in DOMAIN rows : Told(rows, c, i, Len(rows))

Pending == \A p \in Procs : OpenPending(p) /\ ClearPending(p)

LogOK == OnePagePerEpisode /\ AllClearAnswersAPage

IInv == TypeOK /\ LockHeld /\ ReasonsFit /\ Pending /\ LogOK

-----------------------------------------------------------------------------
(* Types.                                                                  *)

\* The length of the ladder and every bound are numbers.
LEMMA ConstantTypes ==
    /\ Len(Ladder) \in Nat /\ RepeatCount \in Nat /\ SignalCap \in Nat /\ MaxEnv \in Nat
    /\ MaxReopens \in Nat /\ MaxFaults \in Nat /\ MaxRepeats \in Nat /\ MaxReminders \in Nat
  BY PagingAssumption

\* The ladder walk stays on the ladder and within its rounds.
LEMMA NextStepType ==
    ASSUME NEW l \in 0..Len(Ladder), NEW r \in 0..RepeatCount
    PROVE  /\ next_step(l, r).level \in 0..Len(Ladder)
           /\ next_step(l, r).round \in 0..RepeatCount
           /\ next_step(l, r).page \in BOOLEAN
           /\ next_step(l, r).page => Ladder[next_step(l, r).level] \in SUBSET Channels
  BY PagingAssumption DEF next_step

\* A row written now is a row.
LEMMA RowType ==
    ASSUME TypeOK, NEW reason \in Reasons, NEW chan \in Channels \cup Markers,
           NEW lvl \in 0..Len(Ladder)
    PROVE  Row(reason, chan, lvl) \in Rows
  BY DEF Row, Rows, TypeOK, IncType

\* Removing one signal leaves a sequence of signals that fits the channel.
LEMMA TakeSignalType ==
    ASSUME TypeOK, NEW i \in DOMAIN sigs
    PROVE  LET rest == SubSeq(sigs, 1, i - 1) \o SubSeq(sigs, i + 1, Len(sigs))
           IN  rest \in Seq({"opened", "reopened", "resolved"}) /\ Len(rest) <= SignalCap
  <1> DEFINE S == {"opened", "reopened", "resolved"}
             a == SubSeq(sigs, 1, i - 1)
             b == SubSeq(sigs, i + 1, Len(sigs))
  <1>1. sigs \in Seq(S) /\ i \in 1..Len(sigs) /\ Len(sigs) <= SignalCap /\ SignalCap \in Nat
    BY PagingAssumption DEF TypeOK
  <1>2. a \in Seq(S) /\ Len(a) = i - 1
    BY <1>1, SubSeqProperties
  <1>3. b \in Seq(S) /\ Len(b) = Len(sigs) - i
    BY <1>1, SubSeqProperties
  <1> HIDE DEF a, b, S
  <1>4. a \o b \in Seq(S) /\ Len(a \o b) = Len(sigs) - 1
    BY <1>1, <1>2, <1>3, ConcatProperties
  <1> QED  BY <1>1, <1>4 DEF a, b, S

\* The empty locals are locals.
LEMMA NoJobType == NoJob \in Jobs
  BY PagingAssumption DEF NoJob, Jobs, Reasons, States

\* What a caller of page_with keeps are locals that return where it asked.
LEMMA KeptType ==
    ASSUME NEW l \in Jobs
    PROVE  Kept(l) \in Jobs /\ Kept(l).next = l.next
  BY NoJobType DEF Kept, NoJob, Jobs, Points

\* held_reason returns the reason of some held row, or "opened".
LEMMA HeldReason ==
    ASSUME TypeOK
    PROVE  \/ held_reason(rows) = "opened"
           \/ \E i \in DOMAIN rows : /\ rows[i].chan \in HoldMarkers
                                     /\ held_reason(rows) = rows[i].reason
  <1> DEFINE holds == {i \in DOMAIN rows : rows[i].chan \in HoldMarkers}
             newest == {i \in holds : \A j \in holds : j <= i}
             pick == CHOOSE i \in newest : TRUE
  <1>1. CASE newest = {}
    BY <1>1 DEF held_reason
  <1>2. CASE newest # {}
    <2>1. pick \in newest
      BY <1>2
    <2>2. held_reason(rows) = rows[pick].reason
      BY <1>2 DEF held_reason
    <2> QED  BY <2>1, <2>2
  <1> QED  BY <1>1, <1>2

\* Taking the page lock, or finding the monitor switched off, keeps the types.
LEMMA PageWithType ==
    ASSUME TypeOK, NEW p \in Procs, NEW reason \in Reasons,
           NEW damper \in {"apply", "skip"}, NEW l \in Jobs,
           page_with(p, reason, damper, l)
    PROVE  lock' \in Procs \cup {NoProc} /\ pc' \in [Procs -> Points] /\ job' \in [Procs -> Jobs]
  <1>1. [l EXCEPT !.reason = reason] \in Jobs
    BY DEF Jobs
  <1>2. [l EXCEPT !.reason = reason, !.damper = damper, !.read = inc.state] \in Jobs
    BY DEF Jobs, TypeOK, IncType
  <1>3. Kept([l EXCEPT !.reason = reason]) \in Jobs
    BY <1>1, KeptType
  <1>4. l.next \in Points
    BY DEF Jobs, Points
  <1>5. pc \in [Procs -> Points] /\ job \in [Procs -> Jobs] /\ lock \in Procs \cup {NoProc}
    BY DEF TypeOK
  <1>6. CASE (~target.enabled \/ target.held) /\ reason # "resolved"
    BY <1>3, <1>4, <1>5, <1>6 DEF page_with
  <1>7. CASE ~((~target.enabled \/ target.held) /\ reason # "resolved")
    <2>1. {"resolve", "open"} \subseteq Points
      BY DEF Points
    <2> QED  BY <1>2, <1>5, <1>7, <2>1 DEF page_with
  <1> QED  BY <1>6, <1>7

\* Dropping the page lock keeps the types.
LEMMA ReturnType ==
    ASSUME TypeOK, NEW p \in Procs, Return(p)
    PROVE  lock' \in Procs \cup {NoProc} /\ pc' \in [Procs -> Points] /\ job' \in [Procs -> Jobs]
  <1>1. job[p] \in Jobs
    BY DEF TypeOK
  <1>2. job[p].next \in Points
    BY <1>1 DEF Jobs, Points
  <1>3. Kept(job[p]) \in Jobs
    BY <1>1, KeptType
  <1> QED  BY <1>2, <1>3 DEF Return, TypeOK

\* Spending from a bound leaves it within its bound.
LEMMA SpendType ==
    ASSUME TypeOK
    PROVE  /\ left.env > 0 => [left EXCEPT !.env = @ - 1] \in LeftType
           /\ left.faults > 0 => [left EXCEPT !.faults = @ - 1] \in LeftType
           /\ left.reminders > 0 => [left EXCEPT !.reminders = @ - 1] \in LeftType
           /\ left.repeats > 0 => [left EXCEPT !.repeats = @ - 1] \in LeftType
  <1>0. left \in LeftType
    BY DEF TypeOK
  <1>1. /\ left.env \in 0..MaxEnv /\ left.faults \in 0..MaxFaults
        /\ left.reminders \in 0..MaxReminders /\ left.repeats \in 0..MaxRepeats
    BY <1>0 DEF LeftType
  <1>2. \A n \in Nat : \A x \in 0..n : x > 0 => x - 1 \in 0..n
    OBVIOUS
  <1>3. left.env > 0 => left.env - 1 \in 0..MaxEnv
    BY <1>1, <1>2, ConstantTypes
  <1>4. left.faults > 0 => left.faults - 1 \in 0..MaxFaults
    BY <1>1, <1>2, ConstantTypes
  <1>5. left.reminders > 0 => left.reminders - 1 \in 0..MaxReminders
    BY <1>1, <1>2, ConstantTypes
  <1>6. left.repeats > 0 => left.repeats - 1 \in 0..MaxRepeats
    BY <1>1, <1>2, ConstantTypes
  <1> QED  BY <1>0, <1>3, <1>4, <1>5, <1>6 DEF LeftType

\* Opening, acknowledging, resolving and reopening keep the types.
LEMMA LifecycleType ==
    ASSUME TypeOK, Lifecycle
    PROVE  TypeOK'
  <1>1. ASSUME NEW reason \in {"opened", "reopened", "resolved"}, signal(reason)
        PROVE  sigs' \in Seq({"opened", "reopened", "resolved"}) /\ Len(sigs') <= SignalCap
    <2>1. sigs \in Seq({"opened", "reopened", "resolved"}) /\ Len(sigs) <= SignalCap
      BY DEF TypeOK
    <2>2. CASE Len(sigs) < SignalCap /\ sigs' = Append(sigs, reason)
      BY <1>1, <2>1, <2>2, ConstantTypes, AppendProperties
    <2>3. CASE sigs' = sigs
      BY <2>1, <2>3
    <2> QED  BY <1>1, <2>2, <2>3 DEF signal
  <1>2. CASE Open
    BY <1>1, <1>2 DEF Open, TypeOK, IncType, States
  <1>3. CASE Acknowledge
    BY <1>3 DEF Acknowledge, TypeOK, IncType, States
  <1>4. CASE Resolve
    <2>1. inc' \in IncType
      BY <1>4 DEF Resolve, Resolved, TypeOK, IncType, States
    <2>2. left' \in LeftType
      <3>1. left' = left \/ (left.repeats > 0 /\ left' = [left EXCEPT !.repeats = @ - 1])
        BY <1>4 DEF Resolve
      <3> QED  BY <3>1, SpendType DEF TypeOK
    <2>3. signal("resolved")
      BY <1>4 DEF Resolve
    <2> QED  BY <1>1, <1>4, <2>1, <2>2, <2>3 DEF Resolve, TypeOK
  <1>5. CASE Reopen
    <2>1. inc' \in IncType
      <3>1. inc.gen + 1 \in 0..MaxReopens /\ 0 \in 0..Len(Ladder) /\ 0 \in 0..RepeatCount
        BY <1>5, ConstantTypes DEF Reopen, TypeOK, IncType
      <3> QED  BY <1>5, <3>1 DEF Reopen, TypeOK, IncType, States
    <2> QED  BY <1>1, <1>5, <2>1 DEF Reopen, TypeOK
  <1>6. CASE GrowOld
    BY <1>6 DEF GrowOld, TypeOK, IncType
  <1> QED  BY <1>2, <1>3, <1>4, <1>5, <1>6 DEF Lifecycle

\* Writing a row leaves a log of rows.
LEMMA AppendRowType ==
    ASSUME TypeOK, NEW r \in Rows
    PROVE  Append(rows, r) \in Seq(Rows)
  BY AppendProperties DEF TypeOK

\* begin_escalation leaves an incident row.
LEMMA BeginType ==
    ASSUME TypeOK, NEW l \in 0..Len(Ladder), NEW armed \in BOOLEAN, begin_escalation(l, armed)
    PROVE  inc' \in IncType
  <1>1. 0 \in 0..RepeatCount
    BY ConstantTypes
  <1> QED  BY <1>1 DEF begin_escalation, TypeOK, IncType

\* record_escalation leaves an incident row.
LEMMA RecordType ==
    ASSUME TypeOK, NEW l \in 0..Len(Ladder), NEW r \in 0..RepeatCount,
           NEW armed \in BOOLEAN, record_escalation(l, r, armed)
    PROVE  inc' \in IncType
  BY DEF record_escalation, TypeOK, IncType

\* A signal task keeps the types.
LEMMA HandleSignalType ==
    ASSUME TypeOK, NEW h \in Handlers, HandleSignal(h)
    PROVE  TypeOK'
  <1>1. PICK i \in DOMAIN sigs :
            /\ page_with(h, sigs[i], "apply", NoJob)
            /\ sigs' = SubSeq(sigs, 1, i - 1) \o SubSeq(sigs, i + 1, Len(sigs))
    BY DEF HandleSignal
  <1>2. sigs[i] \in Reasons /\ h \in Procs
    BY DEF TypeOK, Reasons, Procs
  <1>3. lock' \in Procs \cup {NoProc} /\ pc' \in [Procs -> Points] /\ job' \in [Procs -> Jobs]
    BY <1>1, <1>2, NoJobType, PageWithType
  <1>4. sigs' \in Seq({"opened", "reopened", "resolved"}) /\ Len(sigs') <= SignalCap
    BY <1>1, TakeSignalType
  <1> QED  BY <1>3, <1>4 DEF HandleSignal, TypeOK

\* Every step of a page keeps the types.
LEMMA PageStepType ==
    ASSUME TypeOK, NEW p \in Procs, PageStep(p)
    PROVE  TypeOK'
  <1> DEFINE Locals == lock' \in Procs \cup {NoProc} /\ pc' \in [Procs -> Points]
                       /\ job' \in [Procs -> Jobs]
  <1>0. /\ pc \in [Procs -> Points] /\ job \in [Procs -> Jobs] /\ lock \in Procs \cup {NoProc}
        /\ job[p] \in Jobs
    BY DEF TypeOK
  <1>1. CASE OpenEpisode(p)
    <2>1. CASE Return(p)
      BY <1>1, <2>1, ReturnType DEF OpenEpisode, TypeOK
    <2>2. CASE UNCHANGED lock
      <3>1. pc' \in [Procs -> Points]
        BY <1>0, <1>1, <2>2 DEF OpenEpisode, Return, Points, Jobs
      <3>2. job' \in [Procs -> Jobs]
        <4>1. [job[p] EXCEPT !.policy = target.policy] \in Jobs
          BY <1>0 DEF Jobs, TypeOK, TargetType
        <4>2. CASE job' = [job EXCEPT ![p].policy = target.policy]
          BY <1>0, <4>1, <4>2
        <4>3. CASE Return(p)
          BY <4>3, ReturnType
        <4> QED  BY <1>0, <1>1, <4>2, <4>3 DEF OpenEpisode
      <3> QED  BY <1>0, <1>1, <2>2, <3>1, <3>2 DEF OpenEpisode, TypeOK
    <2> QED  BY <1>1, <2>1, <2>2 DEF OpenEpisode
  <1>2. CASE Hold(p)
    <2>1. rows' \in Seq(Rows)
      <3>1. job[p].reason \in Reasons /\ 0 \in 0..Len(Ladder)
        BY <1>0, ConstantTypes DEF Jobs
      <3>2. \A marker \in HoldMarkers : Row(job[p].reason, marker, 0) \in Rows
        BY <3>1, RowType DEF Markers
      <3> QED  BY <1>2, <3>2, AppendRowType DEF Hold, HoldMarkers
    <2> QED  BY <1>2, <2>1, ReturnType DEF Hold, TypeOK
  <1>3. CASE Route(p)
    <2>0. next_step(0, 0).level \in 0..Len(Ladder) /\ 0 \in 0..Len(Ladder)
          /\ (next_step(0, 0).page => Ladder[next_step(0, 0).level] \in SUBSET Channels)
      BY NextStepType, ConstantTypes
    <2>1. CASE job[p].policy /\ ~target.policy
      BY <1>3, <2>1, ReturnType DEF Route, TypeOK
    <2>2. CASE job[p].policy /\ target.policy /\ ~next_step(0, 0).page
      BY <1>3, <2>0, <2>2, ReturnType, BeginType DEF Route, TypeOK
    <2>3. CASE job[p].policy /\ target.policy /\ next_step(0, 0).page
      <3>1. [job[p] EXCEPT !.level = next_step(0, 0).level,
                           !.todo = Ladder[next_step(0, 0).level]] \in Jobs
        BY <1>0, <2>0, <2>3 DEF Jobs
      <3>2. job' \in [Procs -> Jobs] /\ pc' \in [Procs -> Points]
        BY <1>0, <1>3, <2>3, <3>1 DEF Route, Points
      <3> QED  BY <1>3, <2>3, <3>2 DEF Route, TypeOK
    <2>4. CASE ~job[p].policy
      <3>1. [job[p] EXCEPT !.todo = Bound] \in Jobs
        BY <1>0, PagingAssumption DEF Jobs
      <3>2. job' \in [Procs -> Jobs] /\ pc' \in [Procs -> Points]
        BY <1>0, <1>3, <2>4, <3>1 DEF Route, Points
      <3> QED  BY <1>3, <2>4, <3>2 DEF Route, TypeOK
    <2> QED  BY <1>3, <2>1, <2>2, <2>3, <2>4 DEF Route
  <1>4. CASE NotifyResolution(p)
    <2>1. CASE NotifyRecovery /\ resolvable_channels(rows) # {}
      <3>1. [job[p] EXCEPT !.todo = resolvable_channels(rows), !.level = inc.level] \in Jobs
        BY <1>0 DEF Jobs, TypeOK, IncType, resolvable_channels
      <3>2. job' \in [Procs -> Jobs] /\ pc' \in [Procs -> Points]
        BY <1>0, <1>4, <2>1, <3>1 DEF NotifyResolution, Points
      <3> QED  BY <1>4, <2>1, <3>2 DEF NotifyResolution, TypeOK
    <2>2. CASE ~(NotifyRecovery /\ resolvable_channels(rows) # {})
      BY <1>4, <2>2, ReturnType DEF NotifyResolution, TypeOK
    <2> QED  BY <2>1, <2>2
  <1>5. CASE PageChannel(p)
    <2>1. PICK c \in job[p].todo :
            /\ rows' = IF on[c] # "off" THEN Append(rows, Row(job[p].reason, c, job[p].level)) ELSE rows
            /\ job' = [job EXCEPT ![p].todo = @ \ {c}, ![p].recorded = @ \/ on[c] # "off"]
      BY <1>5 DEF PageChannel
    <2>2. c \in Channels /\ job[p].reason \in Reasons /\ job[p].level \in 0..Len(Ladder)
      BY <1>0 DEF Jobs
    <2>3. rows' \in Seq(Rows)
      <3>1. Row(job[p].reason, c, job[p].level) \in Rows
        BY <2>2, RowType
      <3> QED  BY <2>1, <3>1, AppendRowType DEF TypeOK
    <2>4. [job[p] EXCEPT !.todo = @ \ {c}, !.recorded = @ \/ on[c] # "off"] \in Jobs
      <3>1. (job[p].recorded \/ on[c] # "off") \in BOOLEAN /\ job[p].todo \ {c} \in SUBSET Channels
        BY <1>0 DEF Jobs
      <3> QED  BY <1>0, <3>1 DEF Jobs
    <2>5. job' \in [Procs -> Jobs]
      BY <1>0, <2>1, <2>4
    <2> QED  BY <1>5, <2>3, <2>5 DEF PageChannel, TypeOK
  <1>6. CASE PageDone(p)
    <2>1. inc' \in IncType
      <3>1. job[p].level \in 0..Len(Ladder)
        BY <1>0 DEF Jobs
      <3> QED  BY <1>6, <3>1, BeginType DEF PageDone, TypeOK
    <2>2. rows' \in Seq(Rows)
      <3>1. job[p].reason \in Reasons /\ 0 \in 0..Len(Ladder)
        BY <1>0, ConstantTypes DEF Jobs
      <3>2. Row(job[p].reason, "unreachable", 0) \in Rows
        BY <3>1, RowType DEF Markers
      <3> QED  BY <1>6, <3>2, AppendRowType DEF PageDone, TypeOK
    <2> QED  BY <1>6, <2>1, <2>2, ReturnType DEF PageDone, TypeOK
  <1> QED  BY <1>1, <1>2, <1>3, <1>4, <1>5, <1>6 DEF PageStep

\* Every scan of the sweep keeps the types.
LEMMA SweepScanType ==
    ASSUME TypeOK, SweepScan
    PROVE  TypeOK'
  <1>0. /\ pc \in [Procs -> Points] /\ job \in [Procs -> Jobs] /\ Sweep \in Procs
    BY DEF TypeOK, Procs
  <1>1. ASSUME NEW where \in Points, NEW local \in Jobs, SweepTo(where, local)
        PROVE  pc' \in [Procs -> Points] /\ job' \in [Procs -> Jobs]
    BY <1>0, <1>1 DEF SweepTo
  <1>2. {"reconcile_one", "release_one", "escalate_one", "renotify_one"} \subseteq Points
    BY DEF Points
  <1>3. CASE ReconcileScan
    BY <1>1, <1>2, <1>3, NoJobType DEF ReconcileScan, TypeOK
  <1>4. CASE ReleaseScan
    BY <1>1, <1>2, <1>4, NoJobType DEF ReleaseScan, TypeOK
  <1>5. CASE EscalateClaim
    <2>1. [NoJob EXCEPT !.level = inc.level, !.round = inc.round, !.policy = inc.policy] \in Jobs
      BY NoJobType DEF Jobs, TypeOK, IncType
    <2> QED  BY <1>1, <1>2, <1>5, <2>1 DEF EscalateClaim, TypeOK
  <1>6. CASE RenotifyScan
    <2>1. left' \in LeftType
      BY <1>6, SpendType DEF RenotifyScan
    <2> QED  BY <1>1, <1>2, <1>6, <2>1, NoJobType DEF RenotifyScan, TypeOK
  <1> QED  BY <1>3, <1>4, <1>5, <1>6 DEF SweepScan

\* Every piece of the sweep's work keeps the types.
LEMMA SweepWorkType ==
    ASSUME TypeOK, SweepWork
    PROVE  TypeOK'
  <1>0. /\ pc \in [Procs -> Points] /\ job \in [Procs -> Jobs] /\ Sweep \in Procs
        /\ job[Sweep] \in Jobs
    BY DEF TypeOK, Procs
  <1>1. ASSUME SweepDone
        PROVE  pc' \in [Procs -> Points] /\ job' \in [Procs -> Jobs]
    BY <1>0, <1>1, NoJobType DEF SweepDone, Points
  <1>2. CASE ReconcileOne
    <2>1. "opened" \in Reasons
      BY DEF Reasons
    <2> QED  BY <1>0, <1>2, <2>1, PageWithType DEF ReconcileOne, TypeOK
  <1>3. CASE ReleaseOne
    <2>1. held_reason(rows) \in Reasons
      <3>1. \A i \in DOMAIN rows : rows[i] \in Rows
        BY DEF TypeOK
      <3> QED  BY <3>1, HeldReason DEF Rows, Reasons
    <2>2. Len(rows) \in Nat
      BY DEF TypeOK
    <2>3. [job[Sweep] EXCEPT !.before = Len(rows), !.reason = held_reason(rows),
                             !.next = "release_check"] \in Jobs
      BY <1>0, <2>1, <2>2 DEF Jobs
    <2>4. job' \in [Procs -> Jobs] /\ pc' \in [Procs -> Points]
      BY <1>0, <1>3, <2>3 DEF ReleaseOne, Points
    <2> QED  BY <1>3, <2>4 DEF ReleaseOne, TypeOK
  <1>4. CASE ReleasePage
    <2>1. job[Sweep].reason \in Reasons
      BY <1>0 DEF Jobs
    <2> QED  BY <1>0, <1>4, <2>1, PageWithType DEF ReleasePage, TypeOK
  <1>5. CASE ReleaseCheck
    <2>1. Row(job[Sweep].reason, "released", 0) \in Rows
      <3>1. job[Sweep].reason \in Reasons /\ 0 \in 0..Len(Ladder)
        BY <1>0, ConstantTypes DEF Jobs
      <3> QED  BY <3>1, RowType DEF Markers
    <2>2. rows' \in Seq(Rows)
      BY <1>5, <2>1, AppendRowType DEF ReleaseCheck, TypeOK
    <2> QED  BY <1>1, <1>5, <2>2 DEF ReleaseCheck, TypeOK
  <1>6. CASE EscalateOne
    <2> DEFINE l == job[Sweep].level
               r == job[Sweep].round
               step == next_step(l, r)
    <2>1. l \in 0..Len(Ladder) /\ r \in 0..RepeatCount
      BY <1>0 DEF Jobs
    <2>2. /\ step.level \in 0..Len(Ladder) /\ step.round \in 0..RepeatCount
          /\ step.page => Ladder[step.level] \in SUBSET Channels
      BY <2>1, NextStepType
    <2>3. CASE \E armed \in BOOLEAN : record_escalation(l, r, armed) /\ SweepDone
      BY <1>1, <1>6, <2>1, <2>3, RecordType DEF EscalateOne, TypeOK
    <2>4. CASE /\ step.page
               /\ job' = [job EXCEPT ![Sweep] = [@ EXCEPT !.reason = "escalated",
                              !.read = inc.state, !.level = step.level,
                              !.round = step.round, !.todo = Ladder[step.level]]]
               /\ pc' = [pc EXCEPT ![Sweep] = "escalate_page"]
               /\ UNCHANGED inc
      <3>1. [job[Sweep] EXCEPT !.reason = "escalated", !.read = inc.state,
                 !.level = step.level, !.round = step.round,
                 !.todo = Ladder[step.level]] \in Jobs
        <4>1. inc.state \in States /\ "escalated" \in Reasons
          BY DEF TypeOK, IncType, Reasons
        <4> HIDE DEF step
        <4> QED  BY <1>0, <2>2, <2>4, <4>1 DEF Jobs
      <3>2. job' \in [Procs -> Jobs] /\ pc' \in [Procs -> Points]
        <4> HIDE DEF step
        <4> QED  BY <1>0, <2>4, <3>1 DEF Points
      <3> QED  BY <1>6, <2>4, <3>2 DEF EscalateOne, TypeOK
    <2> QED  BY <1>6, <2>3, <2>4 DEF EscalateOne
  <1>7. CASE EscalateDone
    <2>1. job[Sweep].level \in 0..Len(Ladder) /\ job[Sweep].round \in 0..RepeatCount
      BY <1>0 DEF Jobs
    <2> QED  BY <1>1, <1>7, <2>1, RecordType DEF EscalateDone, TypeOK
  <1>8. CASE RenotifyOne
    <2>1. CASE SweepDone /\ UNCHANGED lock
      BY <1>1, <1>8, <2>1 DEF RenotifyOne, TypeOK
    <2>2. CASE /\ lock' = Sweep
               /\ pc' = [pc EXCEPT ![Sweep] = "page"]
               /\ job' = [job EXCEPT ![Sweep] = [@ EXCEPT !.reason = "reminder",
                              !.read = inc.state, !.level = inc.level,
                              !.todo = resolvable_channels(rows)]]
      <3>1. [job[Sweep] EXCEPT !.reason = "reminder", !.read = inc.state,
                 !.level = inc.level, !.todo = resolvable_channels(rows)] \in Jobs
        BY <1>0 DEF Jobs, Reasons, TypeOK, IncType, resolvable_channels
      <3>2. job' \in [Procs -> Jobs] /\ pc' \in [Procs -> Points]
        BY <1>0, <2>2, <3>1 DEF Points
      <3> QED  BY <1>0, <1>8, <2>2, <3>2 DEF RenotifyOne, TypeOK
    <2> QED  BY <1>8, <2>1, <2>2 DEF RenotifyOne
  <1> QED  BY <1>2, <1>3, <1>4, <1>5, <1>6, <1>7, <1>8 DEF SweepWork

\* Failures, restarts and configuration changes keep the types.
LEMMA EnvironmentType ==
    ASSUME TypeOK, (\E p \in Procs : Fault(p)) \/ Restart \/ Configure
    PROVE  TypeOK'
  <1>0. /\ pc \in [Procs -> Points] /\ job \in [Procs -> Jobs] /\ "idle" \in Points
    BY DEF TypeOK, Points
  <1>1. ASSUME NEW p \in Procs, Fault(p)
        PROVE  TypeOK'
    <2>1. left' \in LeftType
      BY <1>1, SpendType DEF Fault
    <2>2. job' \in [Procs -> Jobs] /\ pc' \in [Procs -> Points]
      BY <1>0, <1>1, NoJobType DEF Fault
    <2> QED  BY <1>1, <2>1, <2>2 DEF Fault, TypeOK
  <1>2. CASE Restart
    <2>1. left' \in LeftType
      BY <1>2, SpendType DEF Restart
    <2>2. job' \in [Procs -> Jobs] /\ pc' \in [Procs -> Points]
      BY <1>0, <1>2, NoJobType DEF Restart
    <2>3. sigs' \in Seq({"opened", "reopened", "resolved"}) /\ Len(sigs') <= SignalCap
      BY <1>2, ConstantTypes DEF Restart
    <2> QED  BY <1>2, <2>1, <2>2, <2>3 DEF Restart, TypeOK
  <1>3. CASE Configure
    <2>1. left' \in LeftType
      BY <1>3, SpendType DEF Configure
    <2>2. inc' \in IncType
      BY <1>3 DEF Configure, TypeOK
    <2>3. target' \in TargetType
      BY <1>3 DEF Configure, SwitchMonitor, SwitchChannel, DeletePolicy, TypeOK, TargetType
    <2>4. on' \in [Channels -> Switch]
      BY <1>3 DEF Configure, SwitchMonitor, SwitchChannel, DeletePolicy, TypeOK, Switch
    <2> QED  BY <1>3, <2>1, <2>2, <2>3, <2>4 DEF Configure, TypeOK
  <1> QED  BY <1>1, <1>2, <1>3

\* The initial state has its type.
LEMMA InitType == Init => TypeOK
  <1> SUFFICES ASSUME Init PROVE TypeOK
    OBVIOUS
  <1>1. inc \in IncType
    BY ConstantTypes DEF Init, IncType, States
  <1>2. target \in TargetType
    BY PagingAssumption DEF Init, TargetType
  <1>3. left \in LeftType
    BY ConstantTypes DEF Init, LeftType
  <1>4. pc \in [Procs -> Points] /\ job \in [Procs -> Jobs]
    BY NoJobType DEF Init, Points
  <1> QED  BY <1>1, <1>2, <1>3, <1>4, ConstantTypes DEF Init, TypeOK, Switch

\* Every step keeps the types.
LEMMA NextType ==
    ASSUME TypeOK, [Next]_vars
    PROVE  TypeOK'
  <1>1. CASE UNCHANGED vars
    BY <1>1 DEF vars, TypeOK
  <1> QED  BY <1>1, LifecycleType, HandleSignalType, PageStepType, SweepScanType,
              SweepWorkType, EnvironmentType DEF Next

\* Every reachable state of the engine, the incident row and the log has its
\* type, whatever fails, is lost or is configured in between.
THEOREM TypeCorrect == Spec => []TypeOK
  BY InitType, NextType, PTL DEF Spec

-----------------------------------------------------------------------------
(* The timer.                                                              *)

\* An armed timer means an open, unacknowledged incident: the guards of
\* begin_escalation and record_escalation keep a page in progress from
\* overwriting an ack or a resolve.
THEOREM TimerSafe == Spec => []TimerOnlyTriggered
  <1>1. Init => TimerOnlyTriggered
    BY DEF Init, TimerOnlyTriggered
  <1>2. TypeOK /\ TimerOnlyTriggered /\ [Next]_vars => TimerOnlyTriggered'
    <2> SUFFICES ASSUME TypeOK, TimerOnlyTriggered, [Next]_vars
                 PROVE  TimerOnlyTriggered'
      OBVIOUS
    <2> USE DEF TimerOnlyTriggered, TypeOK, IncType
    <2>1. CASE Lifecycle
      BY <2>1 DEF Lifecycle, Open, Acknowledge, Resolve, Resolved, Reopen, GrowOld
    <2>2. ASSUME NEW p \in Procs, PageStep(p)
          PROVE  TimerOnlyTriggered'
      BY <2>2 DEF PageStep, OpenEpisode, Hold, Route, NotifyResolution, PageChannel,
                  PageDone, begin_escalation
    <2>3. CASE SweepWork
      BY <2>3 DEF SweepWork, ReconcileOne, ReleaseOne, ReleasePage, ReleaseCheck,
                  EscalateOne, EscalateDone, RenotifyOne, record_escalation
    <2>4. CASE Configure
      BY <2>4 DEF Configure
    <2>5. CASE UNCHANGED inc
      BY <2>5
    <2>6. \/ UNCHANGED inc \/ Lifecycle \/ SweepWork \/ Configure
          \/ \E p \in Procs : PageStep(p)
      BY DEF Next, vars, HandleSignal, SweepScan, ReconcileScan, ReleaseScan,
             EscalateClaim, RenotifyScan, Fault, Restart
    <2> QED  BY <2>1, <2>2, <2>3, <2>4, <2>5, <2>6
  <1> QED  BY <1>1, <1>2, TypeCorrect, PTL DEF Spec

-----------------------------------------------------------------------------
(* The page lock and the log.                                              *)

\* A free lock is held by no process.
LEMMA NoProcNotProc == NoProc \notin Procs
  BY PagingAssumption DEF Procs, NoProc, Sweep

\* Whoever is between taking and dropping the lock is alone there.
LEMMA Alone ==
    ASSUME LockHeld, NEW p \in Procs, NEW q \in Procs, q # p, lock \in {p, NoProc}
    PROVE  pc[q] \notin Locked
  BY NoProcNotProc DEF LockHeld

\* What page_with does to its caller and to the others.
LEMMA PageWithSteps ==
    ASSUME TypeOK, NEW p \in Procs, NEW reason, NEW damper, NEW l \in Jobs,
           page_with(p, reason, damper, l)
    PROVE  /\ lock = NoProc
           /\ \A q \in Procs \ {p} : pc'[q] = pc[q] /\ job'[q] = job[q]
           /\ \/ pc'[p] = l.next /\ lock' = NoProc
              \/ pc'[p] = "resolve" /\ reason = "resolved" /\ lock' = p /\ job'[p].reason = reason
              \/ pc'[p] = "open" /\ reason # "resolved" /\ lock' = p /\ job'[p].reason = reason
  <1>1. pc \in [Procs -> Points] /\ job \in [Procs -> Jobs]
    BY DEF TypeOK
  <1>2. [l EXCEPT !.reason = reason, !.damper = damper, !.read = inc.state].reason = reason
    BY DEF Jobs
  <1>3. CASE (~target.enabled \/ target.held) /\ reason # "resolved"
    BY <1>1, <1>3 DEF page_with
  <1>4. CASE ~((~target.enabled \/ target.held) /\ reason # "resolved")
    BY <1>1, <1>2, <1>4 DEF page_with
  <1> QED  BY <1>3, <1>4

\* What dropping the page lock does to the process and to the others.
LEMMA ReturnSteps ==
    ASSUME TypeOK, NEW p \in Procs, Return(p)
    PROVE  /\ lock' = NoProc
           /\ pc'[p] \in {"idle", "release_check"}
           /\ \A q \in Procs \ {p} : pc'[q] = pc[q] /\ job'[q] = job[q]
  BY DEF Return, TypeOK, Jobs

\* Every step keeps the page lock with the process that is paging.
LEMMA LockNext ==
    ASSUME TypeOK, LockHeld, [Next]_vars
    PROVE  LockHeld'
  <1>0. pc \in [Procs -> Points] /\ Sweep \in Procs /\ job \in [Procs -> Jobs]
    BY DEF TypeOK, Procs
  <1>1. ASSUME NEW p \in Procs, NEW reason, NEW damper, NEW l \in Jobs,
               page_with(p, reason, damper, l)
        PROVE  LockHeld'
    <2>1. l.next \notin Locked
      BY DEF Jobs, Locked
    <2> QED  BY <1>1, <2>1, PageWithSteps, Alone DEF LockHeld
  <1>2. ASSUME NEW p \in Procs, pc[p] \in Locked, Return(p)
        PROVE  LockHeld'
    <2>1. {"idle", "release_check"} \cap Locked = {}
      BY DEF Locked
    <2> QED  BY <1>2, <2>1, ReturnSteps, Alone DEF LockHeld
  <1>3. ASSUME NEW p \in Procs, lock' = lock, NEW where, pc' = [pc EXCEPT ![p] = where],
               pc[p] \in Locked \/ where \notin Locked
        PROVE  LockHeld'
    BY <1>0, <1>3 DEF LockHeld
  <1>4. CASE Lifecycle \/ UNCHANGED vars \/ Configure
    BY <1>4 DEF Lifecycle, Open, Acknowledge, Resolve, Reopen, GrowOld, Configure, vars, LockHeld
  <1>5. ASSUME NEW h \in Handlers, HandleSignal(h)
        PROVE  LockHeld'
    BY <1>1, <1>5, NoJobType DEF HandleSignal, Procs
  <1>6. ASSUME NEW p \in Procs, PageStep(p)
        PROVE  LockHeld'
    <2>1. CASE OpenEpisode(p)
      BY <1>2, <1>3, <2>1 DEF OpenEpisode, Locked
    <2>2. CASE Hold(p)
      BY <1>2, <2>2 DEF Hold, Locked
    <2>3. CASE Route(p)
      BY <1>2, <1>3, <2>3 DEF Route, Locked
    <2>4. CASE NotifyResolution(p)
      BY <1>2, <1>3, <2>4 DEF NotifyResolution, Locked
    <2>5. CASE PageChannel(p)
      BY <2>5 DEF PageChannel, LockHeld
    <2>6. CASE PageDone(p)
      BY <1>2, <2>6 DEF PageDone, Locked
    <2> QED  BY <1>6, <2>1, <2>2, <2>3, <2>4, <2>5, <2>6 DEF PageStep
  <1>7. ASSUME NEW p \in Procs, Fault(p)
        PROVE  LockHeld'
    <2>1. \A q \in Procs \ {p} : pc'[q] = pc[q]
      BY <1>0, <1>7 DEF Fault
    <2>2. pc'[p] \notin Locked
      BY <1>0, <1>7 DEF Fault, Locked
    <2> QED  BY <1>7, <2>1, <2>2, Alone DEF Fault, LockHeld
  <1>8. CASE Restart
    BY <1>8 DEF Restart, LockHeld, Locked
  <1>9. CASE SweepScan
    BY <1>0, <1>3, <1>9 DEF SweepScan, ReconcileScan, ReleaseScan, EscalateClaim,
          RenotifyScan, SweepTo, Locked
  <1>10. CASE SweepWork
    <2>0. job[Sweep] \in Jobs
      BY <1>0
    <2>1. CASE ReconcileOne \/ ReleasePage
      BY <1>0, <1>1, <2>0, <2>1 DEF ReconcileOne, ReleasePage
    <2>2. CASE ReleaseOne \/ ReleaseCheck \/ EscalateOne \/ EscalateDone
      BY <1>0, <1>3, <2>2 DEF ReleaseOne, ReleaseCheck, EscalateOne, EscalateDone,
            SweepDone, Locked
    <2>3. CASE RenotifyOne
      <3>1. \A q \in Procs \ {Sweep} : pc'[q] = pc[q]
        BY <1>0, <2>3 DEF RenotifyOne, SweepDone
      <3>2. lock = NoProc /\ (lock' = Sweep \/ pc'[Sweep] \notin Locked)
        BY <1>0, <2>3 DEF RenotifyOne, SweepDone, Locked
      <3> QED  BY <1>0, <3>1, <3>2, Alone DEF LockHeld
    <2> QED  BY <1>10, <2>1, <2>2, <2>3 DEF SweepWork
  <1> QED  BY <1>4, <1>5, <1>6, <1>7, <1>8, <1>9, <1>10 DEF Next

-----------------------------------------------------------------------------
(* Facts about the log, which only grows.                                  *)

\* What appending a row does to the log.
LEMMA AppendFacts ==
    ASSUME NEW rs \in Seq(Rows), NEW r \in Rows
    PROVE  /\ Append(rs, r) \in Seq(Rows)
           /\ Len(rs) \in Nat /\ Len(Append(rs, r)) = Len(rs) + 1
           /\ DOMAIN rs = 1..Len(rs)
           /\ DOMAIN Append(rs, r) = 1..(Len(rs) + 1)
           /\ \A i \in 1..Len(rs) : Append(rs, r)[i] = rs[i]
           /\ Append(rs, r)[Len(rs) + 1] = r
  BY AppendProperties

\* A page with an all-clear after it keeps it.
LEMMA ClearedKept ==
    ASSUME NEW rs \in Seq(Rows), NEW r \in Rows, NEW i \in DOMAIN rs, Cleared(rs, i)
    PROVE  Cleared(Append(rs, r), i)
  <1>1. PICK k \in (i + 1)..Len(rs) : rs[k].reason = "resolved"
    BY DEF Cleared
  <1>2. k \in 1..Len(rs) /\ k \in (i + 1)..Len(Append(rs, r))
    BY AppendFacts
  <1>3. Append(rs, r)[k] = rs[k]
    BY <1>2, AppendFacts
  <1> QED  BY <1>1, <1>2, <1>3 DEF Cleared

\* A channel that was told and not cleared stays so, unless the new row is its
\* all-clear.
LEMMA ToldKept ==
    ASSUME NEW rs \in Seq(Rows), NEW r \in Rows, NEW c, NEW i \in DOMAIN rs,
           Told(rs, c, i, Len(rs)), ~(r.chan = c /\ r.reason = "resolved")
    PROVE  Told(Append(rs, r), c, i, Len(Append(rs, r)))
  <1> DEFINE new == Append(rs, r)
  <1>1. i \in 1..Len(rs) /\ new[i] = rs[i]
    BY AppendFacts
  <1>2. ASSUME NEW k \in i..Len(new), new[k].chan = c
        PROVE  new[k].reason # "resolved"
    <2>1. CASE k = Len(rs) + 1
      BY <1>2, <2>1, AppendFacts
    <2>2. CASE k # Len(rs) + 1
      <3>1. k \in i..Len(rs) /\ k \in 1..Len(rs)
        BY <1>1, <2>2, AppendFacts
      <3>2. new[k] = rs[k]
        BY <3>1, AppendFacts
      <3> QED  BY <1>2, <3>1, <3>2 DEF Told
    <2> QED  BY <2>1, <2>2
  <1> QED  BY <1>1, <1>2 DEF Told

\* A new row keeps the log right when an opening page finds every earlier one
\* of its channel cleared, and an all-clear or reminder finds its channel told.
LEMMA LogAppend ==
    ASSUME rows \in Seq(Rows), LogOK, NEW r \in Rows, rows' = Append(rows, r),
           r.chan \in Channels /\ r.reason \in Opening
             => \A i \in OpensOf(rows, {r.chan}) : Cleared(rows, i),
           r.chan \in Channels /\ r.reason \in {"resolved", "reminder"}
             => \E i \in DOMAIN rows : Told(rows, r.chan, i, Len(rows))
    PROVE  LogOK'
  <1> DEFINE n == Len(rows) + 1
  <1>0. /\ n \in Nat /\ n - 1 = Len(rows) /\ Len(rows) \in Nat
        /\ DOMAIN rows' = 1..n /\ DOMAIN rows = 1..Len(rows) /\ rows'[n] = r
        /\ \A i \in 1..Len(rows) : rows'[i] = rows[i]
    BY AppendFacts
  <1>1. OnePagePerEpisode'
    <2> SUFFICES ASSUME NEW i \in DOMAIN rows', NEW j \in DOMAIN rows',
                        i < j, rows'[i].chan \in Channels, rows'[i].chan = rows'[j].chan,
                        rows'[i].reason \in Opening, rows'[j].reason \in Opening
                 PROVE  \E k \in (i + 1)..(j - 1) : rows'[k].reason = "resolved"
      BY DEF OnePagePerEpisode, Opening
    <2>1. i \in 1..Len(rows) /\ rows'[i] = rows[i]
      BY <1>0
    <2>2. CASE j = n
      <3>1. i \in OpensOf(rows, {r.chan})
        BY <1>0, <2>1, <2>2 DEF OpensOf
      <3>2. PICK k \in (i + 1)..Len(rows) : rows[k].reason = "resolved"
        BY <1>0, <2>1, <2>2, <3>1 DEF Cleared
      <3> QED  BY <1>0, <2>1, <2>2, <3>2
    <2>3. CASE j # n
      <3>1. j \in 1..Len(rows) /\ rows'[j] = rows[j]
        BY <1>0, <2>3
      <3>2. \E k \in (i + 1)..(j - 1) : rows[k].reason = "resolved"
        BY <1>0, <2>1, <3>1 DEF LogOK, OnePagePerEpisode, Opening
      <3> QED  BY <1>0, <2>1, <3>1, <3>2
    <2> QED  BY <2>2, <2>3
  <1>2. AllClearAnswersAPage'
    <2> SUFFICES ASSUME NEW j \in DOMAIN rows', rows'[j].chan \in Channels,
                        rows'[j].reason \in {"resolved", "reminder"}
                 PROVE  \E i \in 1..(j - 1) : Told(rows', rows'[j].chan, i, j - 1)
      BY DEF AllClearAnswersAPage, Told
    <2>1. CASE j = n
      <3>1. PICK i \in DOMAIN rows : Told(rows, r.chan, i, Len(rows))
        BY <1>0, <2>1
      <3>2. i \in 1..(j - 1) /\ j - 1 = Len(rows)
        BY <1>0, <2>1, <3>1
      <3>3. \A k \in i..(j - 1) : rows'[k] = rows[k]
        BY <1>0, <3>2
      <3>4. i \in i..(j - 1)
        BY <1>0, <3>2
      <3>5. Told(rows', r.chan, i, j - 1)
        BY <3>1, <3>2, <3>3, <3>4 DEF Told
      <3> QED  BY <1>0, <2>1, <3>2, <3>5
    <2>2. CASE j # n
      <3>1. j \in 1..Len(rows) /\ rows'[j] = rows[j]
        BY <1>0, <2>2
      <3>2. PICK i \in 1..(j - 1) : Told(rows, rows[j].chan, i, j - 1)
        BY <1>0, <3>1 DEF LogOK, AllClearAnswersAPage, Told
      <3>3. \A k \in i..(j - 1) : rows'[k] = rows[k]
        BY <1>0, <3>1, <3>2
      <3>4. i \in i..(j - 1)
        BY <3>1, <3>2
      <3>5. Told(rows', rows[j].chan, i, j - 1)
        BY <3>2, <3>3, <3>4 DEF Told
      <3> QED  BY <3>1, <3>2, <3>5
    <2> QED  BY <2>1, <2>2
  <1> QED  BY <1>1, <1>2 DEF LogOK

\* Outside an open episode every opening page of a channel has its all-clear.
LEMMA NoEpisode ==
    ASSUME NEW rs \in Seq(Rows), ~open_episode_active(rs)
    PROVE  \A i \in OpensOf(rs, Channels) : Cleared(rs, i)
  <1> SUFFICES ASSUME NEW i \in OpensOf(rs, Channels) PROVE Cleared(rs, i)
    OBVIOUS
  <1>1. i \in DOMAIN rs /\ ~is_damper_marker(rs[i]) /\ rs[i].reason \in OpenReasons
        /\ rs[i].reason # "resolved"
    BY PagingAssumption DEF OpensOf, is_damper_marker, Opening, OpenReasons
  <1>2. PICK k \in DOMAIN rs : rs[k].reason = "resolved" /\ ~(k < i)
    BY <1>1 DEF open_episode_active
  <1>3. k \in (i + 1)..Len(rs)
    BY <1>1, <1>2
  <1> QED  BY <1>2, <1>3 DEF Cleared

\* A resolvable channel was told and not cleared.
LEMMA ResolvableTold ==
    ASSUME NEW rs \in Seq(Rows), NEW c \in resolvable_channels(rs)
    PROVE  \E i \in DOMAIN rs : Told(rs, c, i, Len(rs))
  <1>1. PICK i \in DOMAIN rs :
            /\ rs[i].chan = c
            /\ rs[i].reason \in OpenReasons
            /\ \A j \in DOMAIN rs : rs[j].chan = c /\ rs[j].reason = "resolved" => j < i
    BY DEF resolvable_channels
  <1>2. \A k \in i..Len(rs) : k \in DOMAIN rs /\ ~(k < i)
    BY <1>1
  <1> QED  BY <1>1, <1>2 DEF Told

-----------------------------------------------------------------------------
(* The inductive invariant.                                                *)

Fine(p) == ReasonFits(p) /\ OpenPending(p) /\ ClearPending(p)

Log == HoldsAreOpens /\ LogOK

\* The parts of IInv that a step can disturb.
LEMMA IInvParts == IInv <=> TypeOK /\ LockHeld /\ Log /\ \A p \in Procs : Fine(p)
  BY DEF IInv, ReasonsFit, Pending, Fine, Log

\* A step that writes no row leaves the log right.
LEMMA LogSame ==
    ASSUME Log, rows' = rows
    PROVE  Log'
  BY DEF Log, HoldsAreOpens, LogOK, OnePagePerEpisode, AllClearAnswersAPage

\* A row that is neither an opening page, an all-clear, a reminder nor a hold of
\* anything but an open leaves the log right.
LEMMA LogMarker ==
    ASSUME TypeOK, Log, NEW r \in Rows, rows' = Append(rows, r),
           r.chan \in HoldMarkers => r.reason \in Opening,
           r.chan \in Channels /\ r.reason \in Opening
             => \A i \in OpensOf(rows, {r.chan}) : Cleared(rows, i),
           r.chan \in Channels /\ r.reason \in {"resolved", "reminder"}
             => \E i \in DOMAIN rows : Told(rows, r.chan, i, Len(rows))
    PROVE  Log'
  <1>0. rows \in Seq(Rows) /\ LogOK
    BY DEF TypeOK, Log
  <1>1. LogOK'
    BY <1>0, LogAppend
  <1>2. HoldsAreOpens'
    <2> SUFFICES ASSUME NEW i \in DOMAIN rows', rows'[i].chan \in HoldMarkers
                 PROVE  rows'[i].reason \in Opening
      BY DEF HoldsAreOpens
    <2>1. CASE i = Len(rows) + 1
      BY <1>0, <2>1, AppendFacts
    <2>2. CASE i # Len(rows) + 1
      <3>1. i \in DOMAIN rows /\ rows'[i] = rows[i]
        BY <1>0, <2>2, AppendFacts
      <3> QED  BY <3>1 DEF Log, HoldsAreOpens
    <2> QED  BY <2>1, <2>2
  <1> QED  BY <1>1, <1>2 DEF Log

\* A process that does not move stays fine when the log does not change.
LEMMA FineSame ==
    ASSUME NEW q \in Procs, Fine(q), rows' = rows, pc'[q] = pc[q], job'[q] = job[q]
    PROVE  Fine(q)'
  BY DEF Fine, ReasonFits, OpenPending, ClearPending

\* It stays fine when the ladder walk, a hold or a marker is written: none of
\* them is an opening page or an all-clear of a channel.
LEMMA FineMarker ==
    ASSUME NEW q \in Procs, Fine(q), rows \in Seq(Rows), job[q] \in Jobs,
           NEW r \in Rows, rows' = Append(rows, r),
           ~(r.chan \in Channels /\ r.reason \in Opening \cup {"resolved"}),
           pc'[q] = pc[q], job'[q].reason = job[q].reason, job'[q].todo \subseteq job[q].todo
    PROVE  Fine(q)'
  <1>0. \A C \in SUBSET Channels : \A i \in OpensOf(rows', C) : i \in OpensOf(rows, C)
    BY AppendFacts DEF OpensOf
  <1>1. job[q].todo \in SUBSET Channels /\ job'[q].todo \in SUBSET Channels
    BY DEF Jobs
  <1>2. ReasonFits(q)'
    BY DEF Fine, ReasonFits
  <1>3. OpenPending(q)'
    <2>1. \A i \in OpensOf(rows, Channels) : Cleared(rows, i) => Cleared(rows', i)
      BY ClearedKept DEF OpensOf
    <2>2. \A i \in OpensOf(rows', job'[q].todo) : i \in OpensOf(rows, job[q].todo)
      BY <1>0, <1>1 DEF OpensOf
    <2>3. \A i \in OpensOf(rows, job[q].todo) : i \in OpensOf(rows, Channels)
      BY <1>1 DEF OpensOf
    <2>4. \A i \in OpensOf(rows', Channels) : i \in OpensOf(rows, Channels)
      BY <1>0
    <2> QED  BY <2>1, <2>2, <2>3, <2>4 DEF Fine, OpenPending
  <1>4. ClearPending(q)'
    <2> SUFFICES ASSUME pc'[q] = "page", job'[q].reason \in {"resolved", "reminder"},
                        NEW c \in job'[q].todo
                 PROVE  \E i \in DOMAIN rows' : Told(rows', c, i, Len(rows'))
      BY DEF ClearPending
    <2>1. PICK i \in DOMAIN rows : Told(rows, c, i, Len(rows))
      BY DEF Fine, ClearPending
    <2>2. ~(r.chan = c /\ r.reason = "resolved")
      BY <1>1
    <2>3. i \in DOMAIN rows'
      BY AppendFacts
    <2> QED  BY <2>1, <2>2, <2>3, ToldKept
  <1> QED  BY <1>2, <1>3, <1>4 DEF Fine

Watched == {"open", "hold_maintenance", "hold_damped", "route", "release_page",
            "resolve", "escalate_page", "page"}

\* Anywhere else there is nothing to say of a process.
LEMMA FineElsewhere ==
    ASSUME NEW q \in Procs, pc'[q] \notin Watched
    PROVE  Fine(q)'
  BY DEF Fine, ReasonFits, OpenPending, ClearPending, Watched

\* The steps that page_with and Return are part of.
LEMMA PageWithFine ==
    ASSUME IInv, NEW p \in Procs, NEW reason, NEW damper, NEW l \in Jobs,
           reason \in Opening \cup {"resolved"}, rows' = rows,
           page_with(p, reason, damper, l)
    PROVE  Log' /\ \A q \in Procs : Fine(q)'
  <1>1. TypeOK /\ Log /\ \A q \in Procs : Fine(q)
    BY IInvParts
  <1>2. l.next \notin Watched
    BY DEF Jobs, Watched
  <1>3. \A q \in Procs \ {p} : Fine(q)'
    BY <1>1, PageWithSteps, FineSame
  <1>4. Fine(p)'
    <2>1. CASE pc'[p] = l.next
      BY <1>2, <2>1, FineElsewhere
    <2>2. CASE pc'[p] = "resolve" /\ reason = "resolved" /\ job'[p].reason = reason
      BY <2>2 DEF Fine, ReasonFits, OpenPending, ClearPending
    <2>3. CASE pc'[p] = "open" /\ reason # "resolved" /\ job'[p].reason = reason
      BY <2>3 DEF Fine, ReasonFits, OpenPending, ClearPending
    <2> QED  BY <1>1, <2>1, <2>2, <2>3, PageWithSteps
  <1> QED  BY <1>1, <1>3, <1>4, LogSame

\* Dropping the page lock without writing disturbs nothing.
LEMMA ReturnFine ==
    ASSUME IInv, NEW p \in Procs, Return(p), rows' = rows
    PROVE  Log' /\ \A q \in Procs : Fine(q)'
  <1>1. TypeOK /\ Log /\ \A q \in Procs : Fine(q)
    BY IInvParts
  <1>2. {"idle", "release_check"} \cap Watched = {}
    BY DEF Watched
  <1>3. \A q \in Procs \ {p} : Fine(q)'
    BY <1>1, ReturnSteps, FineSame
  <1>4. Fine(p)'
    BY <1>1, <1>2, ReturnSteps, FineElsewhere
  <1> QED  BY <1>1, <1>3, <1>4, LogSame

\* A process that holds the lock may write any row: the others have nothing
\* pending.
LEMMA FineOthers ==
    ASSUME IInv, NEW p \in Procs, NEW q \in Procs, q # p, lock = p,
           pc'[q] = pc[q], job'[q] = job[q]
    PROVE  Fine(q)'
  <1>1. pc[q] \notin Locked
    BY IInvParts, Alone
  <1>2. Fine(q)
    BY IInvParts
  <1> QED  BY <1>1, <1>2 DEF Fine, ReasonFits, OpenPending, ClearPending, Locked

\* What is still to be paged may shrink.
LEMMA FineShrink ==
    ASSUME NEW q \in Procs, Fine(q), rows' = rows, pc'[q] = pc[q],
           job'[q].reason = job[q].reason, job'[q].todo \subseteq job[q].todo
    PROVE  Fine(q)'
  BY DEF Fine, ReasonFits, OpenPending, ClearPending, OpensOf

\* The steps of a page: the decision, the hold, the route, each channel's row
\* and the return.
LEMMA PageStepFine ==
    ASSUME IInv, NEW p \in Procs, PageStep(p)
    PROVE  Log' /\ \A q \in Procs : Fine(q)'
  <1>0. /\ TypeOK /\ LockHeld /\ Log /\ \A q \in Procs : Fine(q)
        /\ rows \in Seq(Rows) /\ pc \in [Procs -> Points] /\ job \in [Procs -> Jobs]
        /\ job[p] \in Jobs
    BY IInvParts DEF TypeOK
  <1>1. CASE OpenEpisode(p)
    <2>1. rows' = rows
      BY <1>1 DEF OpenEpisode
    <2>2. CASE Return(p)
      BY <2>1, <2>2, ReturnFine
    <2>3. CASE ~Return(p)
      <3>1. \A q \in Procs \ {p} : pc'[q] = pc[q] /\ job'[q] = job[q]
        BY <1>0, <1>1, <2>3 DEF OpenEpisode
      <3>2. job[p].reason \in Opening
        BY <1>0, <1>1 DEF OpenEpisode, Fine, ReasonFits
      <3>3. job'[p].reason = job[p].reason /\ pc'[p] \in {"hold_maintenance", "hold_damped", "route"}
        BY <1>0, <1>1, <2>3 DEF OpenEpisode, Jobs
      <3>4. \A i \in OpensOf(rows, Channels) : Cleared(rows, i)
        BY <1>0, <1>1, <2>3, NoEpisode DEF OpenEpisode
      <3>5. Fine(p)'
        BY <2>1, <3>2, <3>3, <3>4 DEF Fine, ReasonFits, OpenPending, ClearPending
      <3> QED  BY <1>0, <2>1, <3>1, <3>5, FineSame, LogSame
    <2> QED  BY <2>2, <2>3
  <1>2. CASE Hold(p)
    <2>1. lock = p
      BY <1>0, <1>2 DEF Hold, LockHeld, Locked
    <2>2. PICK marker \in HoldMarkers : rows' = Append(rows, Row(job[p].reason, marker, 0))
      BY <1>2 DEF Hold, HoldMarkers
    <2> DEFINE r == Row(job[p].reason, marker, 0)
    <2>3. r \in Rows
      <3>1. job[p].reason \in Reasons /\ 0 \in 0..Len(Ladder)
        BY <1>0, ConstantTypes DEF Jobs
      <3> QED  BY <1>0, <3>1, RowType DEF Markers
    <2>4. r.reason \in Opening /\ r.chan \notin Channels
      BY <1>0, <1>2, PagingAssumption DEF Hold, Row, Fine, ReasonFits, Markers
    <2>5. Log'
      <3> HIDE DEF r
      <3> QED  BY <1>0, <2>2, <2>3, <2>4, LogMarker DEF r
    <2>6. Fine(p)'
      <3>1. pc'[p] \notin Watched
        BY <1>0, <1>2, ReturnSteps DEF Hold, Watched
      <3> QED  BY <3>1, FineElsewhere
    <2>7. \A q \in Procs \ {p} : Fine(q)'
      BY <1>0, <1>2, <2>1, ReturnSteps, FineOthers DEF Hold
    <2> QED  BY <2>5, <2>6, <2>7
  <1>3. CASE Route(p)
    <2>1. rows' = rows
      BY <1>3 DEF Route
    <2>2. CASE Return(p)
      BY <2>1, <2>2, ReturnFine
    <2>3. CASE ~Return(p)
      <3>1. PICK C \in SUBSET Channels : \E lvl :
                /\ job' = [job EXCEPT ![p].level = lvl, ![p].todo = C]
                /\ pc' = [pc EXCEPT ![p] = "page"]
        <4>1. next_step(0, 0).page => Ladder[next_step(0, 0).level] \in SUBSET Channels
          BY NextStepType, ConstantTypes
        <4>2. CASE job[p].policy /\ next_step(0, 0).page
          BY <1>3, <2>3, <4>1, <4>2 DEF Route
        <4>3. CASE ~job[p].policy
          <5>1. job' = [job EXCEPT ![p].level = job[p].level, ![p].todo = Bound]
            BY <1>0, <1>3, <4>3 DEF Route, Jobs
          <5> QED  BY <1>3, <4>3, <5>1, PagingAssumption DEF Route
        <4> QED  BY <1>3, <2>3, <4>2, <4>3 DEF Route
      <3>2. /\ pc'[p] = "page" /\ job'[p].todo = C /\ job'[p].reason = job[p].reason
            /\ \A q \in Procs \ {p} : pc'[q] = pc[q] /\ job'[q] = job[q]
        BY <1>0, <3>1 DEF Jobs
      <3>3. job[p].reason \in Opening /\ \A i \in OpensOf(rows, Channels) : Cleared(rows, i)
        BY <1>0, <1>3 DEF Route, Fine, ReasonFits, OpenPending
      <3>4. \A i \in OpensOf(rows, C) : Cleared(rows, i)
        BY <3>1, <3>3 DEF OpensOf
      <3>5. Fine(p)'
        BY <2>1, <3>2, <3>3, <3>4 DEF Fine, ReasonFits, OpenPending, ClearPending, Opening
      <3> QED  BY <1>0, <2>1, <3>2, <3>5, FineSame, LogSame
    <2> QED  BY <2>2, <2>3
  <1>4. CASE NotifyResolution(p)
    <2>1. rows' = rows
      BY <1>4 DEF NotifyResolution
    <2>2. CASE Return(p)
      BY <2>1, <2>2, ReturnFine
    <2>3. CASE ~Return(p)
      <3>1. /\ pc'[p] = "page" /\ job'[p].todo = resolvable_channels(rows)
            /\ job'[p].reason = job[p].reason
            /\ \A q \in Procs \ {p} : pc'[q] = pc[q] /\ job'[q] = job[q]
        BY <1>0, <1>4, <2>3 DEF NotifyResolution, Jobs
      <3>2. job[p].reason = "resolved"
        BY <1>0, <1>4 DEF NotifyResolution, Fine, ReasonFits
      <3>3. \A c \in resolvable_channels(rows) : \E i \in DOMAIN rows : Told(rows, c, i, Len(rows))
        BY <1>0, ResolvableTold
      <3>4. Fine(p)'
        BY <2>1, <3>1, <3>2, <3>3 DEF Fine, ReasonFits, OpenPending, ClearPending, Opening
      <3> QED  BY <1>0, <2>1, <3>1, <3>4, FineSame, LogSame
    <2> QED  BY <2>2, <2>3
  <1>5. CASE PageChannel(p)
    <2>1. PICK c \in job[p].todo :
            /\ rows' = IF on[c] # "off" THEN Append(rows, Row(job[p].reason, c, job[p].level)) ELSE rows
            /\ job' = [job EXCEPT ![p].todo = @ \ {c}, ![p].recorded = @ \/ on[c] # "off"]
      BY <1>5 DEF PageChannel
    <2> DEFINE r == Row(job[p].reason, c, job[p].level)
    <2>2. c \in Channels /\ job[p].reason \in Reasons /\ job[p].level \in 0..Len(Ladder)
      BY <1>0 DEF Jobs
    <2>3. r \in Rows /\ r.reason = job[p].reason /\ r.chan = c
      BY <1>0, <2>2, RowType DEF Row
    <2>4. /\ \A q \in Procs : pc'[q] = pc[q]
          /\ \A q \in Procs \ {p} : job'[q] = job[q]
          /\ job'[p].reason = job[p].reason /\ job'[p].todo = job[p].todo \ {c}
      BY <1>0, <1>5, <2>1 DEF PageChannel, Jobs
    <2> HIDE DEF r
    <2>5. CASE on[c] = "off"
      BY <1>0, <2>1, <2>4, <2>5, FineShrink, FineSame, LogSame
    <2>6. CASE on[c] # "off" /\ pc[p] = "escalate_page"
      <3>1. r.reason = "escalated" /\ rows' = Append(rows, r)
        BY <1>0, <2>1, <2>3, <2>6 DEF Fine, ReasonFits, r
      <3>2. Log'
        BY <1>0, <2>2, <2>3, <3>1, PagingAssumption, LogMarker DEF Opening, Markers
      <3>3. ASSUME NEW q \in Procs
            PROVE  Fine(q)'
        <4>1. job'[q].reason = job[q].reason /\ job'[q].todo \subseteq job[q].todo
          BY <2>4
        <4>2. job[q] \in Jobs /\ Fine(q) /\ pc'[q] = pc[q]
          BY <1>0, <2>4
        <4>3. r.reason \notin Opening \cup {"resolved"}
          BY <3>1 DEF Opening
        <4> QED  BY <1>0, <2>3, <3>1, <4>1, <4>2, <4>3, FineMarker
      <3> QED  BY <3>2, <3>3
    <2>7. CASE on[c] # "off" /\ pc[p] = "page"
      <3>0. rows' = Append(rows, r) /\ lock = p
        BY <1>0, <2>1, <2>7 DEF r, LockHeld, Locked
      <3>1. r.reason \in Opening => \A i \in OpensOf(rows, {c}) : Cleared(rows, i)
        BY <1>0, <2>3, <2>7 DEF Fine, OpenPending, OpensOf
      <3>2. r.reason \in {"resolved", "reminder"}
              => \E i \in DOMAIN rows : Told(rows, c, i, Len(rows))
        BY <1>0, <2>3, <2>7 DEF Fine, ClearPending
      <3>3. Log'
        BY <1>0, <2>2, <2>3, <3>0, <3>1, <3>2, PagingAssumption, LogMarker DEF Markers
      <3>4. ReasonFits(p)'
        BY <1>0, <2>4, <2>7 DEF Fine, ReasonFits
      <3>5. OpenPending(p)'
        <4>1. \A i \in OpensOf(rows', job'[p].todo) : i \in OpensOf(rows, job[p].todo)
          BY <1>0, <2>3, <2>4, <3>0, AppendFacts DEF OpensOf
        <4>2. \A i \in OpensOf(rows, job[p].todo) : Cleared(rows, i) => Cleared(rows', i)
          BY <1>0, <2>3, <3>0, ClearedKept DEF OpensOf
        <4> QED  BY <1>0, <2>4, <2>7, <4>1, <4>2 DEF Fine, OpenPending
      <3>6. ClearPending(p)'
        <4> SUFFICES ASSUME job'[p].reason \in {"resolved", "reminder"}, NEW d \in job'[p].todo
                     PROVE  \E i \in DOMAIN rows' : Told(rows', d, i, Len(rows'))
          BY DEF ClearPending
        <4>1. d \in job[p].todo /\ d # c
          BY <2>4
        <4>2. PICK i \in DOMAIN rows : Told(rows, d, i, Len(rows))
          BY <1>0, <2>4, <2>7, <4>1 DEF Fine, ClearPending
        <4>3. i \in DOMAIN rows'
          BY <1>0, <2>3, <3>0, AppendFacts
        <4> QED  BY <1>0, <2>3, <3>0, <4>1, <4>2, <4>3, ToldKept
      <3>7. \A q \in Procs \ {p} : Fine(q)'
        BY <2>4, <3>0, FineOthers
      <3> QED  BY <3>3, <3>4, <3>5, <3>6, <3>7 DEF Fine
    <2> QED  BY <1>5, <2>5, <2>6, <2>7 DEF PageChannel
  <1>6. CASE PageDone(p)
    <2>1. CASE rows' = rows
      BY <1>6, <2>1, ReturnFine DEF PageDone
    <2>2. CASE rows' # rows
      <3> DEFINE r == Row(job[p].reason, "unreachable", 0)
      <3>1. lock = p
        BY <1>0, <1>6 DEF PageDone, LockHeld, Locked
      <3>2. r \in Rows /\ r.chan = "unreachable"
        <4>1. job[p].reason \in Reasons /\ 0 \in 0..Len(Ladder)
          BY <1>0, ConstantTypes DEF Jobs
        <4> QED  BY <1>0, <4>1, RowType DEF Markers, Row
      <3>3. rows' = Append(rows, r)
        BY <1>6, <2>2 DEF PageDone
      <3> HIDE DEF r
      <3>4. r.chan \notin Channels /\ r.chan \notin HoldMarkers
        BY <3>2, PagingAssumption DEF Markers, HoldMarkers
      <3>5. Log'
        BY <1>0, <3>2, <3>3, <3>4, LogMarker
      <3>6. Fine(p)'
        <4>1. pc'[p] \notin Watched
          BY <1>0, <1>6, ReturnSteps DEF PageDone, Watched
        <4> QED  BY <4>1, FineElsewhere
      <3>7. \A q \in Procs \ {p} : Fine(q)'
        BY <1>0, <1>6, <3>1, ReturnSteps, FineOthers DEF PageDone
      <3> QED  BY <3>5, <3>6, <3>7
    <2> QED  BY <2>1, <2>2
  <1> QED  BY <1>1, <1>2, <1>3, <1>4, <1>5, <1>6 DEF PageStep

\* The work of the sweep, of which only the release marker and the ladder walk
\* write without the lock.
LEMMA SweepWorkFine ==
    ASSUME IInv, SweepWork
    PROVE  Log' /\ \A q \in Procs : Fine(q)'
  <1>0. /\ TypeOK /\ LockHeld /\ Log /\ \A q \in Procs : Fine(q)
        /\ rows \in Seq(Rows) /\ pc \in [Procs -> Points] /\ job \in [Procs -> Jobs]
        /\ Sweep \in Procs /\ job[Sweep] \in Jobs
    BY IInvParts DEF TypeOK, Procs
  <1>1. ASSUME rows' = rows, \A q \in Procs \ {Sweep} : pc'[q] = pc[q] /\ job'[q] = job[q],
               Fine(Sweep)'
        PROVE  Log' /\ \A q \in Procs : Fine(q)'
    BY <1>0, <1>1, FineSame, LogSame
  <1>2. ASSUME SweepDone
        PROVE  /\ \A q \in Procs \ {Sweep} : pc'[q] = pc[q] /\ job'[q] = job[q]
               /\ Fine(Sweep)'
    <2>1. pc'[Sweep] \notin Watched
      BY <1>0, <1>2 DEF SweepDone, Watched
    <2> QED  BY <1>0, <1>2, <2>1, FineElsewhere DEF SweepDone
  <1>3. CASE ReconcileOne
    <2>1. "opened" \in Opening
      BY DEF Opening
    <2> QED  BY <1>0, <1>3, <2>1, PageWithFine DEF ReconcileOne
  <1>4. CASE ReleaseOne
    <2>1. held_reason(rows) \in Opening
      BY <1>0, HeldReason DEF Log, HoldsAreOpens, Opening
    <2>2. /\ pc'[Sweep] = "release_page" /\ job'[Sweep].reason = held_reason(rows)
          /\ \A q \in Procs \ {Sweep} : pc'[q] = pc[q] /\ job'[q] = job[q]
      BY <1>0, <1>4 DEF ReleaseOne, Jobs
    <2>3. Fine(Sweep)'
      BY <2>1, <2>2 DEF Fine, ReasonFits, OpenPending, ClearPending
    <2> QED  BY <1>1, <1>4, <2>2, <2>3 DEF ReleaseOne
  <1>5. CASE ReleasePage
    <2>1. job[Sweep].reason \in Opening
      BY <1>0, <1>5 DEF ReleasePage, Fine, ReasonFits
    <2> QED  BY <1>0, <1>5, <2>1, PageWithFine DEF ReleasePage
  <1>6. CASE ReleaseCheck
    <2>1. CASE rows' = rows
      BY <1>1, <1>2, <1>6, <2>1 DEF ReleaseCheck
    <2>2. CASE rows' # rows
      <3> DEFINE r == Row(job[Sweep].reason, "released", 0)
      <3>1. r \in Rows /\ r.chan = "released"
        <4>1. job[Sweep].reason \in Reasons /\ 0 \in 0..Len(Ladder)
          BY <1>0, ConstantTypes DEF Jobs
        <4> QED  BY <1>0, <4>1, RowType DEF Markers, Row
      <3>2. rows' = Append(rows, r)
        BY <1>6, <2>2 DEF ReleaseCheck
      <3> HIDE DEF r
      <3>3. r.chan \notin Channels /\ r.chan \notin HoldMarkers
        BY <3>1, PagingAssumption DEF Markers, HoldMarkers
      <3>4. Log'
        BY <1>0, <3>1, <3>2, <3>3, LogMarker
      <3>5. SweepDone
        BY <1>6 DEF ReleaseCheck
      <3>6. ASSUME NEW q \in Procs \ {Sweep}
            PROVE  Fine(q)'
        <4>1. job[q] \in Jobs /\ Fine(q) /\ pc'[q] = pc[q] /\ job'[q] = job[q]
          BY <1>0, <1>2, <3>5
        <4> QED  BY <1>0, <3>1, <3>2, <3>3, <4>1, FineMarker
      <3> QED  BY <1>2, <3>4, <3>5, <3>6
    <2> QED  BY <2>1, <2>2
  <1>7. CASE EscalateOne
    <2>1. CASE SweepDone
      BY <1>1, <1>2, <1>7, <2>1 DEF EscalateOne
    <2>2. CASE ~SweepDone
      <3>1. /\ pc'[Sweep] = "escalate_page" /\ job'[Sweep].reason = "escalated"
            /\ \A q \in Procs \ {Sweep} : pc'[q] = pc[q] /\ job'[q] = job[q]
        <4> DEFINE step == next_step(job[Sweep].level, job[Sweep].round)
                   x == [job[Sweep] EXCEPT !.reason = "escalated", !.read = inc.state,
                             !.level = step.level, !.round = step.round,
                             !.todo = Ladder[step.level]]
        <4>1. x.reason = "escalated"
          BY <1>0 DEF Jobs
        <4>2. job' = [job EXCEPT ![Sweep] = x] /\ pc' = [pc EXCEPT ![Sweep] = "escalate_page"]
          BY <1>7, <2>2 DEF EscalateOne
        <4> HIDE DEF x
        <4> QED  BY <1>0, <4>1, <4>2
      <3>2. Fine(Sweep)'
        BY <3>1 DEF Fine, ReasonFits, OpenPending, ClearPending
      <3> QED  BY <1>1, <1>7, <3>1, <3>2 DEF EscalateOne
    <2> QED  BY <2>1, <2>2
  <1>8. CASE EscalateDone
    BY <1>1, <1>2, <1>8 DEF EscalateDone
  <1>9. CASE RenotifyOne
    <2>1. CASE SweepDone
      BY <1>1, <1>2, <1>9, <2>1 DEF RenotifyOne
    <2>2. CASE ~SweepDone
      <3>1. /\ pc'[Sweep] = "page" /\ job'[Sweep].reason = "reminder"
            /\ job'[Sweep].todo = resolvable_channels(rows)
            /\ \A q \in Procs \ {Sweep} : pc'[q] = pc[q] /\ job'[q] = job[q]
        <4> DEFINE x == [job[Sweep] EXCEPT !.reason = "reminder", !.read = inc.state,
                             !.level = inc.level, !.todo = resolvable_channels(rows)]
        <4>1. x.reason = "reminder" /\ x.todo = resolvable_channels(rows)
          BY <1>0 DEF Jobs
        <4>2. job' = [job EXCEPT ![Sweep] = x] /\ pc' = [pc EXCEPT ![Sweep] = "page"]
          BY <1>9, <2>2 DEF RenotifyOne
        <4> HIDE DEF x
        <4> QED  BY <1>0, <4>1, <4>2
      <3>2. \A c \in resolvable_channels(rows) : \E i \in DOMAIN rows : Told(rows, c, i, Len(rows))
        BY <1>0, ResolvableTold
      <3>3. rows' = rows
        BY <1>9 DEF RenotifyOne
      <3>4. Fine(Sweep)'
        BY <3>1, <3>2, <3>3 DEF Fine, ReasonFits, OpenPending, ClearPending, Opening
      <3> QED  BY <1>1, <3>1, <3>3, <3>4
    <2> QED  BY <2>1, <2>2
  <1> QED  BY <1>3, <1>4, <1>5, <1>6, <1>7, <1>8, <1>9, IInvParts DEF SweepWork

\* Every step preserves the inductive invariant.
LEMMA IInvNext ==
    ASSUME IInv, [Next]_vars
    PROVE  IInv'
  <1>0. /\ TypeOK /\ LockHeld /\ Log /\ \A q \in Procs : Fine(q)
        /\ pc \in [Procs -> Points] /\ job \in [Procs -> Jobs] /\ Sweep \in Procs
    BY IInvParts DEF TypeOK, Procs
  <1>1. TypeOK' /\ LockHeld'
    BY <1>0, NextType, LockNext
  <1>2. Log' /\ \A q \in Procs : Fine(q)'
    <2>1. ASSUME rows' = rows, NEW p \in Procs, pc'[p] \notin Watched,
                 \A q \in Procs \ {p} : pc'[q] = pc[q] /\ job'[q] = job[q]
          PROVE  Log' /\ \A q \in Procs : Fine(q)'
      BY <1>0, <2>1, FineSame, FineElsewhere, LogSame
    <2>2. CASE Lifecycle \/ Configure \/ UNCHANGED vars
      <3>1. rows' = rows /\ pc' = pc /\ job' = job
        BY <2>2 DEF Lifecycle, Open, Acknowledge, Resolve, Reopen, GrowOld, Configure, vars
      <3> QED  BY <1>0, <3>1, FineSame, LogSame
    <2>3. ASSUME NEW h \in Handlers, HandleSignal(h)
          PROVE  Log' /\ \A q \in Procs : Fine(q)'
      <3>1. PICK i \in DOMAIN sigs : page_with(h, sigs[i], "apply", NoJob)
        BY <2>3 DEF HandleSignal
      <3>2. sigs[i] \in Opening \cup {"resolved"} /\ h \in Procs /\ rows' = rows
        BY <1>0, <2>3 DEF TypeOK, Opening, Procs, HandleSignal
      <3> QED  BY <3>1, <3>2, NoJobType, PageWithFine
    <2>4. ASSUME NEW p \in Procs, Fault(p)
          PROVE  Log' /\ \A q \in Procs : Fine(q)'
      <3>1. rows' = rows /\ pc'[p] \notin Watched
            /\ \A q \in Procs \ {p} : pc'[q] = pc[q] /\ job'[q] = job[q]
        BY <1>0, <2>4 DEF Fault, Watched
      <3> QED  BY <2>1, <3>1
    <2>5. CASE Restart
      <3>1. rows' = rows /\ \A q \in Procs : pc'[q] \notin Watched
        BY <2>5 DEF Restart, Watched
      <3> QED  BY <1>0, <3>1, FineElsewhere, LogSame
    <2>6. CASE SweepScan
      <3>1. rows' = rows /\ pc'[Sweep] \notin Watched
            /\ \A q \in Procs \ {Sweep} : pc'[q] = pc[q] /\ job'[q] = job[q]
        BY <1>0, <2>6 DEF SweepScan, ReconcileScan, ReleaseScan, EscalateClaim,
              RenotifyScan, SweepTo, Watched
      <3> QED  BY <1>0, <2>1, <3>1
    <2> QED  BY <2>2, <2>3, <2>4, <2>5, <2>6, PageStepFine, SweepWorkFine DEF Next
  <1> QED  BY <1>1, <1>2, IInvParts DEF IInv, ReasonsFit, Pending, Fine, Log

\* The initial state satisfies the inductive invariant.
LEMMA IInvInit == Init => IInv
  <1> SUFFICES ASSUME Init PROVE IInv
    OBVIOUS
  <1>1. LockHeld
    BY DEF Init, LockHeld, Locked
  <1>2. rows = <<>> /\ \A p \in Procs : pc[p] = "idle"
    BY DEF Init
  <1>3. ReasonsFit /\ Pending
    BY <1>2 DEF ReasonsFit, HoldsAreOpens, ReasonFits, Pending, OpenPending, ClearPending
  <1>4. LogOK
    BY <1>2 DEF LogOK, OnePagePerEpisode, AllClearAnswersAPage
  <1> QED  BY <1>1, <1>3, <1>4, InitType DEF IInv

\* No channel is paged twice for one episode, however signal tasks, the sweep,
\* failures and restarts interleave: page_with decides under the page lock, and
\* the rows written without it (ladder walk, release marker) cannot mislead it.
THEOREM OnePageSafe == Spec => []OnePagePerEpisode
  <1>1. IInv => OnePagePerEpisode
    BY DEF IInv, LogOK
  <1> QED  BY <1>1, IInvInit, IInvNext, PTL DEF Spec

\* Every all-clear and every reminder goes to a channel that was told of the
\* outage and has had no all-clear since (notify_resolution, renotify_one).
THEOREM AllClearSafe == Spec => []AllClearAnswersAPage
  <1>1. IInv => AllClearAnswersAPage
    BY DEF IInv, LogOK
  <1> QED  BY <1>1, IInvInit, IInvNext, PTL DEF Spec

-----------------------------------------------------------------------------
(* Released holds.                                                         *)

\* The sweep has found a hold and has not yet decided whether to mark it.
Releasing ==
    \/ pc[Sweep] \in {"release_one", "release_page", "release_check"}
    \/ job[Sweep].next = "release_check"

\* Some hold of the log is newer than every release marker.
HoldOpen(rs) ==
    \E k \in DOMAIN rs :
        rs[k].chan \in HoldMarkers /\ \A j \in DOMAIN rs : j > k => rs[j].chan # "released"

\* A release marker is written for an open hold only, although the scan that found
\* the hold is several steps back and others write to the log meanwhile.
ReleaseInv == TypeOK /\ (Releasing => HoldOpen(rows)) /\ HoldReleasedOnce

\* Only the end of a release writes the marker.
LEMMA RowsStep ==
    ASSUME TypeOK, [Next]_vars, ~ReleaseCheck
    PROVE  rows' = rows \/ \E r \in Rows : rows' = Append(rows, r) /\ r.chan # "released"
  <1>0. job \in [Procs -> Jobs] /\ 0 \in 0..Len(Ladder)
    BY ConstantTypes DEF TypeOK
  <1>1. ASSUME NEW p \in Procs, PageStep(p)
        PROVE  rows' = rows \/ \E r \in Rows : rows' = Append(rows, r) /\ r.chan # "released"
    <2>0. /\ job[p].reason \in Reasons /\ job[p].level \in 0..Len(Ladder)
          /\ job[p].todo \subseteq Channels
      BY <1>0 DEF Jobs
    <2>1. CASE OpenEpisode(p) \/ Route(p) \/ NotifyResolution(p)
      BY <2>1 DEF OpenEpisode, Route, NotifyResolution
    <2>2. CASE Hold(p)
      <3>1. PICK marker \in HoldMarkers : rows' = Append(rows, Row(job[p].reason, marker, 0))
        BY <2>2 DEF Hold, HoldMarkers
      <3>2. Row(job[p].reason, marker, 0) \in Rows /\ Row(job[p].reason, marker, 0).chan = marker
        BY <1>0, <2>0, RowType DEF Row, Markers
      <3> QED  BY <3>1, <3>2 DEF HoldMarkers
    <2>3. CASE PageChannel(p)
      <3>1. PICK c \in job[p].todo :
                rows' = IF on[c] # "off" THEN Append(rows, Row(job[p].reason, c, job[p].level)) ELSE rows
        BY <2>3 DEF PageChannel
      <3>2. /\ Row(job[p].reason, c, job[p].level) \in Rows
            /\ Row(job[p].reason, c, job[p].level).chan = c /\ c # "released"
        BY <2>0, RowType, PagingAssumption DEF Row, Markers
      <3> QED  BY <3>1, <3>2
    <2>4. CASE PageDone(p)
      <3>1. \/ rows' = rows
            \/ rows' = Append(rows, Row(job[p].reason, "unreachable", 0))
        BY <2>4 DEF PageDone
      <3>2. /\ Row(job[p].reason, "unreachable", 0) \in Rows
            /\ Row(job[p].reason, "unreachable", 0).chan = "unreachable"
        BY <1>0, <2>0, RowType DEF Row, Markers
      <3> QED  BY <3>1, <3>2
    <2> QED  BY <1>1, <2>1, <2>2, <2>3, <2>4 DEF PageStep
  <1>2. CASE SweepWork
    BY <1>2 DEF SweepWork, ReconcileOne, ReleaseOne, ReleasePage, EscalateOne, EscalateDone,
                RenotifyOne
  <1> QED
    BY <1>1, <1>2 DEF Next, vars, Lifecycle, Open, Acknowledge, Resolve, Reopen, GrowOld, HandleSignal,
       Fault, Restart, Configure, SweepScan, ReconcileScan, ReleaseScan, EscalateClaim, RenotifyScan

\* page_with and Return keep to the caller's plan.
LEMMA PlanKept ==
    ASSUME TypeOK, NEW p \in Procs,
           \/ Return(p)
           \/ \E reason \in Reasons : \E damper : \E l \in Jobs :
                 page_with(p, reason, damper, l) /\ (p = Sweep => l = job[Sweep])
    PROVE  Releasing' => Releasing
  <1>0. /\ pc \in [Procs -> Points] /\ job \in [Procs -> Jobs] /\ Sweep \in Procs
        /\ job[p] \in Jobs
    BY DEF TypeOK, Procs
  <1>1. CASE Return(p)
    <2>1. CASE p = Sweep
      <3>1. pc'[Sweep] = job[Sweep].next /\ job'[Sweep].next = job[Sweep].next
        BY <1>0, <1>1, <2>1, KeptType DEF Return
      <3>2. job[Sweep].next \in {"idle", "release_check"}
        BY <1>0 DEF Jobs
      <3> QED  BY <3>1, <3>2 DEF Releasing
    <2>2. CASE p # Sweep
      BY <1>0, <1>1, <2>2, ReturnSteps DEF Releasing
    <2> QED  BY <2>1, <2>2
  <1>2. ASSUME NEW reason \in Reasons, NEW damper, NEW l \in Jobs,
               page_with(p, reason, damper, l), p = Sweep => l = job[Sweep]
        PROVE  Releasing' => Releasing
    <2>1. CASE p = Sweep
      <3>1. pc'[Sweep] \in {l.next, "resolve", "open"}
        BY <1>0, <1>2, <2>1, PageWithSteps
      <3>2. [l EXCEPT !.reason = reason] \in Jobs /\ [l EXCEPT !.reason = reason].next = l.next
        BY DEF Jobs
      <3>3. Kept([l EXCEPT !.reason = reason]).next = l.next
        BY <3>2, KeptType
      <3>4. [l EXCEPT !.reason = reason, !.damper = damper, !.read = inc.state].next = l.next
        BY DEF Jobs
      <3>5. job'[Sweep].next = l.next
        BY <1>0, <1>2, <2>1, <3>3, <3>4 DEF page_with
      <3>6. l.next \in {"idle", "release_check"} /\ l = job[Sweep]
        BY <1>2, <2>1 DEF Jobs
      <3> QED  BY <3>1, <3>5, <3>6 DEF Releasing
    <2>2. CASE p # Sweep
      BY <1>0, <1>2, <2>2, PageWithSteps DEF Releasing
    <2> QED  BY <2>1, <2>2
  <1> QED  BY <1>1, <1>2

\* A release starts with the scan and ends with the check.
LEMMA ReleasingStep ==
    ASSUME TypeOK, [Next]_vars
    PROVE  /\ Releasing' => Releasing \/ ReleaseScan
           /\ ReleaseCheck => Releasing /\ ~Releasing'
  <1>0. /\ pc \in [Procs -> Points] /\ job \in [Procs -> Jobs] /\ Sweep \in Procs
        /\ job[Sweep] \in Jobs /\ NoJob.next = "idle"
    BY DEF TypeOK, Procs, NoJob
  <1>1. ASSUME pc'[Sweep] = "idle", job'[Sweep] = NoJob PROVE ~Releasing'
    BY <1>0, <1>1 DEF Releasing
  <1>2. ASSUME SweepDone PROVE ~Releasing'
    BY <1>0, <1>1, <1>2 DEF SweepDone
  <1>3. ReleaseCheck => Releasing /\ ~Releasing'
    BY <1>2 DEF ReleaseCheck, Releasing
  <1> SUFFICES Releasing' => Releasing \/ ReleaseScan
    BY <1>3
  <1>4. ASSUME NEW p \in Procs, PageStep(p) PROVE Releasing' => Releasing
    <2>1. CASE Return(p)
      BY <2>1, PlanKept
    <2>2. CASE ~Return(p)
      <3>1. /\ pc'[Sweep] = pc[Sweep]
               \/ pc'[Sweep] \in {"hold_maintenance", "hold_damped", "route", "page"}
            /\ job'[Sweep].next = job[Sweep].next
        <4>1. CASE OpenEpisode(p)
          BY <1>0, <2>2, <4>1 DEF OpenEpisode, Jobs
        <4>2. CASE Route(p)
          <5>1. pc' = [pc EXCEPT ![p] = "page"]
            BY <2>2, <4>2 DEF Route
          <5>2. CASE job' = [job EXCEPT ![p].todo = Bound]
            BY <1>0, <5>1, <5>2 DEF Jobs
          <5>3. CASE job' = [job EXCEPT ![p].level = next_step(0, 0).level,
                                        ![p].todo = Ladder[next_step(0, 0).level]]
            <6>1. PICK lvl, C : lvl = next_step(0, 0).level /\ C = Ladder[lvl]
              OBVIOUS
            <6>2. job' = [job EXCEPT ![p].level = lvl, ![p].todo = C]
              BY <5>3, <6>1
            <6> QED  BY <1>0, <5>1, <6>2 DEF Jobs
          <5> QED  BY <2>2, <4>2, <5>2, <5>3 DEF Route
        <4>3. CASE NotifyResolution(p)
          BY <1>0, <2>2, <4>3 DEF NotifyResolution, Jobs
        <4>4. CASE PageChannel(p)
          BY <1>0, <4>4 DEF PageChannel, Jobs
        <4>5. ~Hold(p) /\ ~PageDone(p)
          BY <2>2 DEF Hold, PageDone
        <4> QED  BY <1>4, <4>1, <4>2, <4>3, <4>4, <4>5 DEF PageStep
      <3> QED  BY <3>1 DEF Releasing
    <2> QED  BY <2>1, <2>2
  <1>5. ASSUME NEW h \in Handlers, HandleSignal(h) PROVE Releasing' => Releasing
    <2>1. PICK i \in DOMAIN sigs : page_with(h, sigs[i], "apply", NoJob)
      BY <1>5 DEF HandleSignal
    <2>2. sigs[i] \in Reasons /\ h \in Procs /\ h # Sweep
      BY PagingAssumption DEF TypeOK, Reasons, Procs
    <2> QED  BY <2>1, <2>2, NoJobType, PlanKept
  <1>6. CASE SweepWork
    <2>1. CASE ReconcileOne
      <3>1. "opened" \in Reasons
        BY DEF Reasons
      <3> QED  BY <1>0, <2>1, <3>1, PlanKept DEF ReconcileOne
    <2>2. CASE ReleasePage
      <3>1. job[Sweep].reason \in Reasons
        BY <1>0 DEF Jobs
      <3> QED  BY <1>0, <2>2, <3>1, PlanKept DEF ReleasePage
    <2>3. CASE ReleaseOne
      BY <2>3 DEF ReleaseOne, Releasing
    <2>4. CASE ReleaseCheck \/ EscalateDone
      BY <1>2, <2>4 DEF ReleaseCheck, EscalateDone
    <2>5. CASE EscalateOne
      <3>1. CASE ~SweepDone
        <4> DEFINE step == next_step(job[Sweep].level, job[Sweep].round)
                   x == [job[Sweep] EXCEPT !.reason = "escalated", !.read = inc.state,
                             !.level = step.level, !.round = step.round,
                             !.todo = Ladder[step.level]]
        <4>1. job' = [job EXCEPT ![Sweep] = x] /\ pc' = [pc EXCEPT ![Sweep] = "escalate_page"]
          BY <2>5, <3>1 DEF EscalateOne
        <4>a. x.next = job[Sweep].next
          BY <1>0 DEF Jobs
        <4> HIDE DEF x
        <4>2. job'[Sweep].next = job[Sweep].next /\ pc'[Sweep] = "escalate_page"
          BY <1>0, <4>1, <4>a
        <4> QED  BY <4>2 DEF Releasing
      <3> QED  BY <1>2, <3>1
    <2>6. CASE RenotifyOne
      <3>1. CASE ~SweepDone
        <4>1. PICK lv, td :
                /\ job' = [job EXCEPT ![Sweep] = [@ EXCEPT !.reason = "reminder",
                              !.read = inc.state, !.level = lv, !.todo = td]]
                /\ pc' = [pc EXCEPT ![Sweep] = "page"]
          BY <2>6, <3>1 DEF RenotifyOne
        <4>2. job'[Sweep].next = job[Sweep].next /\ pc'[Sweep] = "page"
          BY <1>0, <4>1 DEF Jobs
        <4> QED  BY <4>2 DEF Releasing
      <3> QED  BY <1>2, <3>1
    <2> QED  BY <1>6, <2>1, <2>2, <2>3, <2>4, <2>5, <2>6 DEF SweepWork
  <1>7. CASE ReconcileScan \/ EscalateClaim \/ RenotifyScan
    <2>1. pc'[Sweep] \in {"reconcile_one", "escalate_one", "renotify_one"}
          /\ job'[Sweep].next = "idle"
      BY <1>0, <1>7 DEF ReconcileScan, EscalateClaim, RenotifyScan, SweepTo, NoJob
    <2> QED  BY <2>1 DEF Releasing
  <1>8. ASSUME NEW p \in Procs, Fault(p) PROVE Releasing' => Releasing
    <2>1. CASE p = Sweep
      BY <1>0, <1>1, <1>8, <2>1 DEF Fault
    <2>2. CASE p # Sweep
      BY <1>0, <1>8, <2>2 DEF Fault, Releasing
    <2> QED  BY <2>1, <2>2
  <1>9. CASE Restart
    BY <1>0, <1>1, <1>9 DEF Restart
  <1>10. CASE Lifecycle \/ Configure \/ UNCHANGED vars
    BY <1>10 DEF Lifecycle, Open, Acknowledge, Resolve, Reopen, GrowOld, Configure, vars, Releasing
  <1> QED
    BY <1>3, <1>4, <1>5, <1>6, <1>7, <1>8, <1>9, <1>10 DEF Next, SweepScan

\* An open hold stays open until the marker.
LEMMA HoldOpenKept ==
    ASSUME NEW rs \in Seq(Rows), NEW r \in Rows, HoldOpen(rs), r.chan # "released"
    PROVE  HoldOpen(Append(rs, r))
  <1>1. PICK k \in DOMAIN rs :
          rs[k].chan \in HoldMarkers /\ \A j \in DOMAIN rs : j > k => rs[j].chan # "released"
    BY DEF HoldOpen
  <1>2. k \in DOMAIN Append(rs, r) /\ Append(rs, r)[k] = rs[k]
    BY AppendFacts
  <1>3. ASSUME NEW j \in DOMAIN Append(rs, r), j > k PROVE Append(rs, r)[j].chan # "released"
    <2>1. j = Len(rs) + 1 \/ (j \in DOMAIN rs /\ Append(rs, r)[j] = rs[j])
      BY AppendFacts
    <2> QED  BY <1>1, <1>3, <2>1, AppendFacts
  <1> QED  BY <1>1, <1>2, <1>3 DEF HoldOpen

\* A row keeps the markers apart, when it is none or a hold is open.
LEMMA ReleasedAppend ==
    ASSUME rows \in Seq(Rows), HoldReleasedOnce, NEW r \in Rows, rows' = Append(rows, r),
           r.chan = "released" => HoldOpen(rows)
    PROVE  HoldReleasedOnce'
  <1> DEFINE n == Len(rows) + 1
  <1>0. /\ n \in Nat /\ Len(rows) \in Nat /\ DOMAIN rows' = 1..n /\ DOMAIN rows = 1..Len(rows)
        /\ rows'[n] = r /\ \A i \in 1..Len(rows) : rows'[i] = rows[i]
    BY AppendFacts
  <1> SUFFICES ASSUME NEW i \in DOMAIN rows', NEW j \in DOMAIN rows', i < j,
                      rows'[i].chan = "released", rows'[j].chan = "released"
               PROVE  \E k \in i..j : rows'[k].chan \in HoldMarkers
    BY DEF HoldReleasedOnce
  <1>1. i \in 1..Len(rows) /\ rows'[i] = rows[i]
    BY <1>0
  <1>2. CASE j = n
    <2>1. PICK k \in DOMAIN rows :
            rows[k].chan \in HoldMarkers /\ \A m \in DOMAIN rows : m > k => rows[m].chan # "released"
      BY <1>0, <1>2 DEF HoldOpen
    <2>2. ~(i > k)
      BY <1>0, <1>1, <2>1
    <2>3. k \in i..j /\ rows'[k] = rows[k]
      BY <1>0, <1>1, <1>2, <2>1, <2>2
    <2> QED  BY <2>1, <2>3
  <1>3. CASE j # n
    <2>1. j \in 1..Len(rows) /\ rows'[j] = rows[j]
      BY <1>0, <1>3
    <2>2. PICK k \in i..j : rows[k].chan \in HoldMarkers
      BY <1>0, <1>1, <2>1 DEF HoldReleasedOnce
    <2>3. k \in 1..Len(rows)
      BY <1>0, <1>1, <2>1, <2>2
    <2> QED  BY <1>0, <2>2, <2>3
  <1> QED  BY <1>2, <1>3

LEMMA ReleaseNext ==
    ASSUME ReleaseInv, [Next]_vars
    PROVE  ReleaseInv'
  <1>0. TypeOK /\ rows \in Seq(Rows) /\ HoldReleasedOnce /\ (Releasing => HoldOpen(rows))
    BY DEF ReleaseInv, TypeOK
  <1>1. TypeOK'
    BY <1>0, NextType
  <1>2. CASE ReleaseCheck
    <2>1. Releasing /\ ~Releasing'
      BY <1>0, <1>2, ReleasingStep
    <2>2. rows' = rows \/ rows' = Append(rows, Row(job[Sweep].reason, "released", 0))
      BY <1>2 DEF ReleaseCheck
    <2>3. Row(job[Sweep].reason, "released", 0) \in Rows
      <3>1. job[Sweep].reason \in Reasons /\ 0 \in 0..Len(Ladder)
        BY <1>0, ConstantTypes DEF TypeOK, Jobs, Procs
      <3> QED  BY <1>0, <3>1, RowType DEF Markers
    <2>4. HoldReleasedOnce'
      <3>1. CASE rows' = rows
        BY <1>0, <3>1 DEF HoldReleasedOnce
      <3> QED  BY <1>0, <2>1, <2>2, <2>3, <3>1, ReleasedAppend
    <2> QED  BY <1>1, <2>1, <2>4 DEF ReleaseInv
  <1>3. CASE ~ReleaseCheck
    <2>1. Releasing' => HoldOpen(rows)
      <3>1. ReleaseScan => HoldOpen(rows)
        <4> SUFFICES ASSUME ReleaseScan PROVE HoldOpen(rows)
          OBVIOUS
        <4>1. rows # <<>> /\ rows[Len(rows)].chan \in HoldMarkers
          BY DEF ReleaseScan, due_for_flap_release, due_for_maintenance_release, newest_is_hold,
                 HoldMarkers
        <4>2. Len(rows) \in DOMAIN rows /\ \A j \in DOMAIN rows : ~(j > Len(rows))
          BY <1>0, <4>1
        <4> QED  BY <4>1, <4>2 DEF HoldOpen
      <3> QED  BY <1>0, <3>1, ReleasingStep
    <2>2. CASE rows' = rows
      BY <1>0, <1>1, <2>1, <2>2 DEF ReleaseInv, HoldReleasedOnce, HoldOpen
    <2>3. CASE rows' # rows
      <3>1. PICK r \in Rows : rows' = Append(rows, r) /\ r.chan # "released"
        BY <1>0, <1>3, <2>3, RowsStep
      <3>2. HoldReleasedOnce'
        BY <1>0, <3>1, ReleasedAppend
      <3>3. HoldOpen(rows) => HoldOpen(rows')
        BY <1>0, <3>1, HoldOpenKept
      <3> QED  BY <1>1, <2>1, <3>2, <3>3 DEF ReleaseInv
    <2> QED  BY <2>2, <2>3
  <1> QED  BY <1>2, <1>3

\* Between two release markers somebody was held again: a release that reaches
\* nobody is marked once, whatever is written to the log between the scan and the
\* check, and whether or not the sweep fails in between.
THEOREM HoldSafe == Spec => []HoldReleasedOnce
  <1>1. Init => ReleaseInv
    <2> SUFFICES ASSUME Init PROVE ReleaseInv
      OBVIOUS
    <2>1. rows = <<>> /\ pc[Sweep] = "idle" /\ job[Sweep].next = "idle"
      BY DEF Init, Procs, NoJob
    <2>2. ~Releasing /\ HoldReleasedOnce
      BY <2>1 DEF Releasing, HoldReleasedOnce
    <2> QED  BY <2>2, InitType DEF ReleaseInv
  <1>2. ReleaseInv /\ [Next]_vars => ReleaseInv'
    BY ReleaseNext
  <1>3. ReleaseInv => HoldReleasedOnce
    BY DEF ReleaseInv
  <1> QED  BY <1>1, <1>2, <1>3, PTL DEF Spec

-----------------------------------------------------------------------------
(* Rungs in order.                                                         *)

\* Channel c has a page of rung l.
PagedAt(c, l) ==
    \E i \in DOMAIN rows :
        rows[i].chan = c /\ rows[i].lvl = l /\ rows[i].reason \in OpenReasons

\* Who of rung l is no longer to be paged was paged, unless it was switched off.
Begun(l, todo) ==
    \A c \in Channels : c \in Ladder[l] \ todo /\ on[c] = "on" => PagedAt(c, l)

\* All of rung l was paged.  Level 0 is below the first rung.
Reached(l) ==
    l = 0 \/ \A c \in Channels : c \in Ladder[l] /\ on[c] = "on" => PagedAt(c, l)

\* What a process knows of the rung it is about to page or to record.
RungPending(p) ==
    /\ pc[p] \notin {"page", "escalate_one", "escalate_page"} => job[p].level = 0
    /\ pc[p] = "page" /\ job[p].reason \in OpenReasons =>
          /\ job[p].reason \in Opening
          /\ IF job[p].policy
             THEN job[p].level = 1 /\ 1 \in DOMAIN Ladder /\ Begun(1, job[p].todo)
             ELSE job[p].level = 0
    /\ pc[p] = "escalate_one" => Reached(job[p].level)
    /\ pc[p] = "escalate_page" =>
          /\ job[p].level \in DOMAIN Ladder
          /\ Reached(job[p].level - 1) /\ Begun(job[p].level, job[p].todo)

RungInv ==
    /\ IInv
    /\ Reached(inc.level)
    /\ RungsInOrder
    /\ \A p \in Procs : RungPending(p)

\* The log only grows, and so does what was paged; a channel that was switched
\* off never counts as always on again.
LEMMA PagedKept ==
    ASSUME TypeOK, [Next]_vars
    PROVE  /\ \A c, l : PagedAt(c, l) => PagedAt(c, l)'
           /\ \A c \in Channels : on'[c] = "on" => on[c] = "on"
  <1>0. rows \in Seq(Rows) /\ on \in [Channels -> Switch]
    BY DEF TypeOK
  <1>1. rows' = rows \/ \E r \in Rows : rows' = Append(rows, r)
    <2>1. CASE ReleaseCheck
      <3>1. rows' = rows \/ rows' = Append(rows, Row(job[Sweep].reason, "released", 0))
        BY <2>1 DEF ReleaseCheck
      <3>2. job[Sweep].reason \in Reasons /\ 0 \in 0..Len(Ladder)
        BY ConstantTypes DEF TypeOK, Jobs, Procs
      <3>3. Row(job[Sweep].reason, "released", 0) \in Rows
        BY <3>2, RowType DEF Markers
      <3> QED  BY <3>1, <3>3
    <2>2. CASE ~ReleaseCheck
      BY <2>2, RowsStep
    <2> QED  BY <2>1, <2>2
  <1>2. ASSUME NEW c, NEW l, PagedAt(c, l) PROVE PagedAt(c, l)'
    <2>1. PICK i \in DOMAIN rows :
              rows[i].chan = c /\ rows[i].lvl = l /\ rows[i].reason \in OpenReasons
      BY <1>2 DEF PagedAt
    <2>2. i \in DOMAIN rows' /\ rows'[i] = rows[i]
      BY <1>0, <1>1, AppendFacts
    <2> QED  BY <2>1, <2>2 DEF PagedAt
  <1>3. on' = on \/ Configure
    BY DEF Next, vars, Lifecycle, Open, Acknowledge, Resolve, Reopen, GrowOld, HandleSignal,
           PageStep, OpenEpisode, Hold, Route, NotifyResolution, PageChannel, PageDone, Fault,
           SweepScan, ReconcileScan, ReleaseScan, EscalateClaim, RenotifyScan, SweepWork,
           ReconcileOne, ReleaseOne, ReleasePage, ReleaseCheck, EscalateOne, EscalateDone,
           RenotifyOne, Restart
  <1>4. \A c \in Channels : on'[c] = "on" => on[c] = "on"
    BY <1>0, <1>3 DEF Configure, SwitchMonitor, SwitchChannel, DeletePolicy
  <1> QED  BY <1>2, <1>4

\* A rung that was paged stays paged.
LEMMA ReachedKept ==
    ASSUME TypeOK, [Next]_vars
    PROVE  /\ \A l : Reached(l) => Reached(l)'
           /\ \A l, todo : Begun(l, todo) => Begun(l, todo)'
  BY PagedKept DEF Reached, Begun

\* A process that stands still knows what it knew.
LEMMA RungSame ==
    ASSUME TypeOK, [Next]_vars, NEW p \in Procs, RungPending(p),
           pc'[p] = pc[p], job'[p] = job[p]
    PROVE  RungPending(p)'
  <1>1. PICK j : j = job[p]
    OBVIOUS
  <1>2. /\ Reached(j.level) => Reached(j.level)'
        /\ Reached(j.level - 1) => Reached(j.level - 1)'
        /\ Begun(1, j.todo) => Begun(1, j.todo)'
        /\ Begun(j.level, j.todo) => Begun(j.level, j.todo)'
    BY ReachedKept
  <1> QED  BY <1>1, <1>2 DEF RungPending

\* Away from the ladder there is nothing to know.
LEMMA RungElsewhere ==
    ASSUME NEW p \in Procs, job'[p].level = 0,
           pc'[p] \notin {"page", "escalate_one", "escalate_page"}
    PROVE  RungPending(p)'
  BY DEF RungPending

LEMMA ReturnRung ==
    ASSUME TypeOK, NEW p \in Procs, Return(p)
    PROVE  RungPending(p)'
  <1>1. pc'[p] \in {"idle", "release_check"}
    BY ReturnSteps
  <1>2. job'[p] = Kept(job[p])
    BY DEF Return, TypeOK
  <1>3. Kept(job[p]).level = 0
    BY DEF Kept, NoJob
  <1> QED  BY <1>1, <1>2, <1>3, RungElsewhere

LEMMA PageWithRung ==
    ASSUME TypeOK, NEW p \in Procs, NEW reason \in Reasons, NEW damper, NEW l \in Jobs, l.level = 0,
           page_with(p, reason, damper, l)
    PROVE  RungPending(p)'
  <1>0. job \in [Procs -> Jobs] /\ l.next \in {"idle", "release_check"}
    BY DEF TypeOK, Jobs
  <1>1. pc'[p] \in {l.next, "resolve", "open"}
    BY PageWithSteps
  <1>2. Kept([l EXCEPT !.reason = reason]).level = 0
    BY DEF Kept, NoJob
  <1>3. [l EXCEPT !.reason = reason, !.damper = damper, !.read = inc.state].level = 0
    BY DEF Jobs
  <1>4. job'[p].level = 0
    BY <1>0, <1>2, <1>3 DEF page_with
  <1> QED  BY <1>0, <1>1, <1>4, RungElsewhere

\* The rows that are there stay in order, whatever is switched or written.
LEMMA RungsKept ==
    ASSUME TypeOK, [Next]_vars, RungsInOrder, NEW j \in DOMAIN rows,
           \A i \in DOMAIN rows : rows'[i] = rows[i],
           rows'[j].reason \in OpenReasons, rows'[j].lvl > 1,
           NEW c \in Ladder[rows'[j].lvl - 1], on'[c] = "on"
    PROVE  \E i \in 1..(j - 1) :
               /\ rows'[i].chan = c /\ rows'[i].lvl = rows'[j].lvl - 1
               /\ rows'[i].reason \in OpenReasons
  <1>1. rows \in Seq(Rows) /\ rows[j] \in Rows /\ rows'[j] = rows[j]
    BY DEF TypeOK
  <1>2. DOMAIN rows = 1..Len(rows) /\ Len(rows) \in Nat
    BY <1>1
  <1>3. rows[j].lvl - 1 \in DOMAIN Ladder
    BY <1>1, ConstantTypes, PagingAssumption DEF Rows
  <1>4. c \in Channels
    BY <1>1, <1>3, PagingAssumption
  <1>5. on[c] = "on"
    BY <1>4, PagedKept
  <1>6. PICK i \in 1..(j - 1) :
            /\ rows[i].chan = c /\ rows[i].lvl = rows[j].lvl - 1
            /\ rows[i].reason \in OpenReasons
    BY <1>1, <1>5 DEF RungsInOrder
  <1>7. i \in DOMAIN rows
    BY <1>2, <1>6
  <1> QED  BY <1>1, <1>6, <1>7

\* A row keeps the rungs in order when its lower neighbour was paged before it.
LEMMA RungAppend ==
    ASSUME TypeOK, [Next]_vars, RungsInOrder, NEW r \in Rows, rows' = Append(rows, r),
           r.reason \in OpenReasons /\ r.lvl > 1 => Reached(r.lvl - 1)
    PROVE  RungsInOrder'
  <1> DEFINE n == Len(rows) + 1
  <1>0. /\ n \in Nat /\ Len(rows) \in Nat /\ DOMAIN rows' = 1..n /\ DOMAIN rows = 1..Len(rows)
        /\ rows'[n] = r /\ \A i \in 1..Len(rows) : rows'[i] = rows[i]
    BY AppendFacts DEF TypeOK
  <1> SUFFICES ASSUME NEW j \in DOMAIN rows', rows'[j].reason \in OpenReasons, rows'[j].lvl > 1,
                      NEW c \in Ladder[rows'[j].lvl - 1], on'[c] = "on"
               PROVE  \E i \in 1..(j - 1) :
                          /\ rows'[i].chan = c /\ rows'[i].lvl = rows'[j].lvl - 1
                          /\ rows'[i].reason \in OpenReasons
    BY DEF RungsInOrder
  <1>1. CASE j = n
    <2>1. r.lvl - 1 \in DOMAIN Ladder /\ r.lvl - 1 # 0
      BY <1>0, <1>1, ConstantTypes, PagingAssumption DEF Rows
    <2>2. c \in Channels /\ c \in Ladder[r.lvl - 1]
      BY <1>0, <1>1, <2>1, PagingAssumption
    <2>3. on[c] = "on"
      BY <2>2, PagedKept
    <2>4. PagedAt(c, r.lvl - 1)
      BY <1>0, <1>1, <2>1, <2>2, <2>3 DEF Reached
    <2>5. PICK i \in DOMAIN rows :
              rows[i].chan = c /\ rows[i].lvl = r.lvl - 1 /\ rows[i].reason \in OpenReasons
      BY <2>4 DEF PagedAt
    <2>6. i \in 1..(j - 1) /\ rows'[i] = rows[i]
      BY <1>0, <1>1, <2>5
    <2> QED  BY <1>0, <1>1, <2>5, <2>6
  <1>2. CASE j # n
    <2>1. j \in DOMAIN rows
      BY <1>0, <1>2
    <2> QED  BY <1>0, <2>1, RungsKept
  <1> QED  BY <1>1, <1>2

\* What a step must keep of the ladder.
Rungs == Reached(inc.level) /\ RungsInOrder /\ \A p \in Procs : RungPending(p)

\* One process moves and no row is written.
LEMMA RungQuiet ==
    ASSUME RungInv, [Next]_vars, rows' = rows, NEW p \in Procs, RungPending(p)',
           \A q \in Procs \ {p} : pc'[q] = pc[q] /\ job'[q] = job[q],
           inc'.level = inc.level \/ Reached(inc'.level)
    PROVE  Rungs'
  <1>0. TypeOK
    BY DEF RungInv, IInv
  <1>1. PICK l : l = inc'.level
    OBVIOUS
  <1>2. Reached(inc.level)'
    <2>1. Reached(l)
      BY <1>1 DEF RungInv
    <2>2. Reached(l)'
      BY <1>0, <2>1, ReachedKept
    <2> QED  BY <1>1, <2>2 DEF Reached
  <1>3. RungsInOrder'
    BY <1>0, RungsKept DEF RungInv, RungsInOrder
  <1>4. \A q \in Procs : RungPending(q)'
    BY <1>0, RungSame DEF RungInv
  <1> QED  BY <1>2, <1>3, <1>4 DEF Rungs

\* One process moves and a row is written.
LEMMA RungWritten ==
    ASSUME RungInv, [Next]_vars, NEW r \in Rows, rows' = Append(rows, r),
           r.reason \in OpenReasons /\ r.lvl > 1 => Reached(r.lvl - 1),
           NEW p \in Procs, RungPending(p)',
           \A q \in Procs \ {p} : pc'[q] = pc[q] /\ job'[q] = job[q],
           inc'.level = inc.level
    PROVE  Rungs'
  <1>0. TypeOK
    BY DEF RungInv, IInv
  <1>1. PICK l : l = inc.level
    OBVIOUS
  <1>2. Reached(l)'
    BY <1>0, <1>1, ReachedKept DEF RungInv
  <1>3. Reached(inc.level)'
    BY <1>1, <1>2 DEF Reached
  <1>4. RungsInOrder'
    BY <1>0, RungAppend DEF RungInv
  <1>5. \A q \in Procs : RungPending(q)'
    BY <1>0, RungSame DEF RungInv
  <1> QED  BY <1>3, <1>4, <1>5 DEF Rungs

\* The rung an incident moves to was paged: begin_escalation and
\* record_escalation write it or leave the incident alone.
LEMMA LevelWritten ==
    ASSUME inc \in IncType, NEW level, NEW round, NEW armed,
           begin_escalation(level, armed) \/ record_escalation(level, round, armed)
    PROVE  inc'.level = inc.level \/ inc'.level = level
  BY DEF begin_escalation, record_escalation, IncType

\* The steps of a page.  The first rung is recorded only after one of its
\* channels has a row.
LEMMA RungPageStep ==
    ASSUME RungInv, [Next]_vars, NEW p \in Procs, PageStep(p)
    PROVE  Rungs'
  <1>0. /\ IInv /\ TypeOK /\ RungPending(p) /\ ReasonFits(p) /\ inc \in IncType
        /\ rows \in Seq(Rows) /\ pc \in [Procs -> Points] /\ job \in [Procs -> Jobs]
        /\ job[p] \in Jobs
    BY DEF RungInv, IInv, ReasonsFit, TypeOK
  <1>1. ASSUME Return(p), rows' = rows, inc'.level = inc.level \/ Reached(inc'.level)
        PROVE  Rungs'
    BY <1>0, <1>1, ReturnRung, ReturnSteps, RungQuiet
  <1>2. ASSUME Return(p), inc'.level = inc.level, NEW chan \in Markers,
               rows' = Append(rows, Row(job[p].reason, chan, 0))
        PROVE  Rungs'
    <2> DEFINE r == Row(job[p].reason, chan, 0)
    <2>1. r \in Rows /\ r.lvl = 0
      <3>1. job[p].reason \in Reasons /\ 0 \in 0..Len(Ladder)
        BY <1>0, ConstantTypes DEF Jobs
      <3> QED  BY <1>0, <3>1, RowType DEF Row
    <2> HIDE DEF r
    <2>2. rows' = Append(rows, r) /\ ~(r.lvl > 1)
      BY <1>2, <2>1 DEF r
    <2>3. RungPending(p)' /\ \A q \in Procs \ {p} : pc'[q] = pc[q] /\ job'[q] = job[q]
      BY <1>0, <1>2, ReturnRung, ReturnSteps
    <2> QED  BY <1>2, <2>1, <2>2, <2>3, RungWritten
  <1>3. CASE OpenEpisode(p)
    <2>1. rows' = rows /\ inc' = inc
      BY <1>3 DEF OpenEpisode
    <2>2. CASE Return(p)
      BY <1>1, <2>1, <2>2
    <2>3. CASE ~Return(p)
      <3>1. /\ \A q \in Procs \ {p} : pc'[q] = pc[q] /\ job'[q] = job[q]
            /\ job'[p].level = job[p].level
            /\ pc'[p] \in {"hold_maintenance", "hold_damped", "route"}
        BY <1>0, <1>3, <2>3 DEF OpenEpisode, Jobs
      <3>2. job[p].level = 0
        BY <1>0, <1>3 DEF OpenEpisode, RungPending
      <3> QED  BY <2>1, <3>1, <3>2, RungElsewhere, RungQuiet
    <2> QED  BY <2>2, <2>3
  <1>4. CASE Hold(p)
    <2>1. PICK marker \in HoldMarkers : rows' = Append(rows, Row(job[p].reason, marker, 0))
      BY <1>4 DEF Hold, HoldMarkers
    <2> QED  BY <1>2, <1>4, <2>1 DEF Hold, Markers
  <1>5. CASE Route(p)
    <2>1. rows' = rows
      BY <1>5 DEF Route
    <2>2. CASE Return(p)
      <3>1. inc' = inc \/ begin_escalation(0, FALSE)
        BY <1>5 DEF Route
      <3>2. inc'.level = inc.level \/ inc'.level = 0
        BY <1>0, <3>1, LevelWritten
      <3> QED  BY <1>1, <2>1, <2>2, <3>2 DEF Reached
    <2>3. CASE ~Return(p)
      <3>1. inc' = inc /\ pc' = [pc EXCEPT ![p] = "page"]
        BY <1>5, <2>3 DEF Route
      <3>2. job[p].level = 0 /\ job[p].reason \in Opening
        BY <1>0, <1>5 DEF Route, RungPending, ReasonFits
      <3>3. /\ \A q \in Procs \ {p} : job'[q] = job[q]
            /\ job'[p].reason = job[p].reason /\ job'[p].policy = job[p].policy
            /\ job[p].policy => /\ job'[p].level = next_step(0, 0).level
                                /\ job'[p].todo = Ladder[next_step(0, 0).level]
                                /\ next_step(0, 0).page
            /\ ~job[p].policy => job'[p].level = 0
        <4>1. CASE job[p].policy
          <5>1. /\ job' = [job EXCEPT ![p].level = next_step(0, 0).level,
                                     ![p].todo = Ladder[next_step(0, 0).level]]
                /\ next_step(0, 0).page
            BY <1>5, <2>3, <4>1 DEF Route
          <5> QED  BY <1>0, <4>1, <5>1 DEF Jobs
        <4>2. CASE ~job[p].policy
          <5>1. job' = [job EXCEPT ![p].todo = Bound]
            BY <1>5, <4>2 DEF Route
          <5> QED  BY <1>0, <3>2, <4>2, <5>1 DEF Jobs
        <4> QED  BY <4>1, <4>2
      <3>4. next_step(0, 0).page => next_step(0, 0).level = 1 /\ 1 \in DOMAIN Ladder
        BY ConstantTypes, PagingAssumption DEF next_step
      <3>5. RungPending(p)'
        BY <1>0, <3>1, <3>2, <3>3, <3>4 DEF RungPending, Begun
      <3> QED  BY <1>0, <2>1, <3>1, <3>3, <3>5, RungQuiet
    <2> QED  BY <2>2, <2>3
  <1>6. CASE NotifyResolution(p)
    <2>1. rows' = rows /\ inc' = inc
      BY <1>6 DEF NotifyResolution
    <2>2. CASE Return(p)
      BY <1>1, <2>1, <2>2
    <2>3. CASE ~Return(p)
      <3>1. /\ pc'[p] = "page" /\ job'[p].reason = job[p].reason
            /\ \A q \in Procs \ {p} : pc'[q] = pc[q] /\ job'[q] = job[q]
        BY <1>0, <1>6, <2>3 DEF NotifyResolution, Jobs
      <3>2. job[p].reason = "resolved"
        BY <1>0, <1>6 DEF NotifyResolution, ReasonFits
      <3>3. RungPending(p)'
        BY <3>1, <3>2 DEF RungPending, OpenReasons
      <3> QED  BY <2>1, <3>1, <3>3, RungQuiet
    <2> QED  BY <2>2, <2>3
  <1>7. CASE PageChannel(p)
    <2>1. PICK c \in job[p].todo :
            /\ rows' = IF on[c] # "off" THEN Append(rows, Row(job[p].reason, c, job[p].level)) ELSE rows
            /\ job' = [job EXCEPT ![p].todo = @ \ {c}, ![p].recorded = @ \/ on[c] # "off"]
      BY <1>7 DEF PageChannel
    <2> DEFINE r == Row(job[p].reason, c, job[p].level)
    <2>2. c \in Channels /\ job[p].reason \in Reasons /\ job[p].level \in 0..Len(Ladder)
      BY <1>0 DEF Jobs
    <2>3. r \in Rows /\ r.reason = job[p].reason /\ r.lvl = job[p].level
      BY <1>0, <2>2, RowType DEF Row
    <2>4. /\ \A q \in Procs : pc'[q] = pc[q]
          /\ \A q \in Procs \ {p} : job'[q] = job[q]
          /\ job'[p].reason = job[p].reason /\ job'[p].level = job[p].level
          /\ job'[p].policy = job[p].policy
          /\ inc' = inc
      BY <1>0, <1>7, <2>1 DEF PageChannel, Jobs
    <2>5. job'[p].todo = job[p].todo \ {c} /\ on' = on
      BY <1>0, <1>7, <2>1 DEF PageChannel, Jobs
    <2> HIDE DEF r
    <2>6. job[p].reason \in OpenReasons => (on[c] = "on" => PagedAt(c, job[p].level)')
      <3> SUFFICES ASSUME job[p].reason \in OpenReasons, on[c] = "on"
                   PROVE  PagedAt(c, job[p].level)'
        OBVIOUS
      <3>1. rows' = Append(rows, r)
        BY <2>1 DEF r
      <3>2. /\ Len(rows) + 1 \in DOMAIN rows' /\ rows'[Len(rows) + 1] = r
        BY <1>0, <2>3, <3>1, AppendFacts
      <3>3. r.chan = c
        BY DEF r, Row
      <3> QED  BY <2>3, <2>4, <3>2, <3>3 DEF PagedAt
    <2>7. PICK l : l = job[p].level
      OBVIOUS
    <2>8. job[p].reason \in OpenReasons /\ Begun(l, job[p].todo) => Begun(l, job[p].todo \ {c})'
      <3>1. \A d \in Channels : PagedAt(d, l) => PagedAt(d, l)'
        BY <1>0, PagedKept
      <3>2. job[p].reason \in OpenReasons => (on[c] = "on" => PagedAt(c, l)')
        BY <2>4, <2>6, <2>7 DEF PagedAt
      <3> QED  BY <2>4, <2>5, <3>1, <3>2 DEF Begun
    <2>9. Reached(l - 1) => Reached(l - 1)'
      BY <1>0, ReachedKept
    <2>10. RungPending(p)'
      <3>1. CASE pc[p] = "page"
        <4>1. pc'[p] = "page" /\ job'[p].reason = job[p].reason /\ job'[p].policy = job[p].policy
          BY <2>4, <3>1
        <4>2. CASE job[p].reason \in OpenReasons /\ job[p].policy
          BY <1>0, <2>4, <2>5, <2>7, <2>8, <3>1, <4>1, <4>2 DEF RungPending, Begun
        <4>3. CASE ~(job[p].reason \in OpenReasons /\ job[p].policy)
          BY <1>0, <2>4, <3>1, <4>1, <4>3 DEF RungPending
        <4> QED  BY <4>2, <4>3
      <3>2. CASE pc[p] = "escalate_page"
        <4>1. job[p].reason \in OpenReasons
          BY <1>0, <3>2 DEF ReasonFits, OpenReasons
        <4>2. l \in DOMAIN Ladder /\ Reached(l - 1) /\ Begun(l, job[p].todo)
          BY <1>0, <2>7, <3>2 DEF RungPending
        <4>3. Reached(l - 1)' /\ Begun(l, job[p].todo \ {c})'
          BY <2>8, <2>9, <4>1, <4>2
        <4> QED  BY <2>4, <2>5, <2>7, <3>2, <4>2, <4>3 DEF RungPending, Reached, Begun
      <3> QED  BY <1>7, <3>1, <3>2 DEF PageChannel
    <2>11. r.reason \in OpenReasons /\ r.lvl > 1 => Reached(r.lvl - 1)
      <3>1. CASE pc[p] = "page"
        BY <1>0, <2>3, <3>1 DEF RungPending
      <3>2. CASE pc[p] = "escalate_page"
        BY <1>0, <2>3, <3>2 DEF RungPending
      <3> QED  BY <1>7, <3>1, <3>2 DEF PageChannel
    <2>12. CASE rows' = rows
      BY <2>4, <2>10, <2>12, RungQuiet
    <2>13. CASE rows' # rows
      <3>1. rows' = Append(rows, r)
        BY <2>1, <2>13 DEF r
      <3> QED  BY <2>3, <2>4, <2>10, <2>11, <3>1, RungWritten
    <2> QED  BY <2>12, <2>13
  <1>8. CASE PageDone(p)
    <2>0. Return(p)
      BY <1>8 DEF PageDone
    <2>1. CASE job[p].reason \in Opening /\ job[p].policy
      <3>1. rows' = rows /\ begin_escalation(job[p].level, TRUE)
        BY <1>8, <2>1 DEF PageDone, Opening
      <3>2. job[p].level = 1 /\ 1 \in DOMAIN Ladder /\ Begun(1, {})
        BY <1>0, <1>8, <2>1 DEF PageDone, RungPending, Opening, OpenReasons
      <3>3. Reached(1)
        BY <3>2 DEF Begun, Reached
      <3>4. inc'.level = inc.level \/ inc'.level = 1
        BY <1>0, <3>1, <3>2, LevelWritten
      <3> QED  BY <1>1, <2>0, <3>1, <3>3, <3>4 DEF Reached
    <2>2. CASE ~(job[p].reason \in Opening /\ job[p].policy)
      <3>1. /\ inc' = inc
            /\ rows' = rows \/ rows' = Append(rows, Row(job[p].reason, "unreachable", 0))
        BY <1>8, <2>2 DEF PageDone, Opening
      <3> QED  BY <1>1, <1>2, <2>0, <3>1 DEF Markers
    <2> QED  BY <2>1, <2>2
  <1> QED  BY <1>3, <1>4, <1>5, <1>6, <1>7, <1>8 DEF PageStep

\* The work of the sweep.  The walk pages the rung above the one it claimed,
\* and records it only after one of its channels has a row.
LEMMA RungSweepWork ==
    ASSUME RungInv, [Next]_vars, SweepWork
    PROVE  Rungs'
  <1>0. /\ IInv /\ TypeOK /\ RungPending(Sweep) /\ ReasonFits(Sweep) /\ inc \in IncType
        /\ rows \in Seq(Rows) /\ pc \in [Procs -> Points] /\ job \in [Procs -> Jobs]
        /\ Sweep \in Procs /\ job[Sweep] \in Jobs /\ HoldsAreOpens
    BY DEF RungInv, IInv, ReasonsFit, TypeOK, Procs
  <1>1. ASSUME SweepDone
        PROVE  /\ \A q \in Procs \ {Sweep} : pc'[q] = pc[q] /\ job'[q] = job[q]
               /\ RungPending(Sweep)'
    <2>1. pc'[Sweep] = "idle" /\ job'[Sweep].level = 0
      BY <1>0, <1>1 DEF SweepDone, NoJob
    <2> QED  BY <1>0, <1>1, <2>1, RungElsewhere DEF SweepDone
  <1>2. ASSUME NEW reason \in Reasons, NEW damper, page_with(Sweep, reason, damper, job[Sweep]),
               pc[Sweep] \in {"reconcile_one", "release_page"}, rows' = rows, inc' = inc
        PROVE  Rungs'
    <2>1. job[Sweep].level = 0
      BY <1>0, <1>2 DEF RungPending
    <2> QED  BY <1>0, <1>2, <2>1, PageWithRung, PageWithSteps, RungQuiet
  <1>3. CASE ReconcileOne
    BY <1>2, <1>3 DEF ReconcileOne, Reasons
  <1>4. CASE ReleaseOne
    <2>1. /\ pc'[Sweep] = "release_page" /\ job'[Sweep].level = job[Sweep].level
          /\ \A q \in Procs \ {Sweep} : pc'[q] = pc[q] /\ job'[q] = job[q]
      BY <1>0, <1>4 DEF ReleaseOne, Jobs
    <2>2. job[Sweep].level = 0
      BY <1>0, <1>4 DEF ReleaseOne, RungPending
    <2>3. RungPending(Sweep)'
      BY <1>0, <2>1, <2>2, RungElsewhere
    <2> QED  BY <1>0, <1>4, <2>1, <2>3, RungQuiet DEF ReleaseOne
  <1>5. CASE ReleasePage
    <2>1. job[Sweep].reason \in Reasons
      BY <1>0 DEF Jobs
    <2> QED  BY <1>2, <1>5, <2>1 DEF ReleasePage
  <1>6. CASE ReleaseCheck
    <2>1. SweepDone /\ inc' = inc
      BY <1>6 DEF ReleaseCheck
    <2>2. CASE rows' = rows
      BY <1>0, <1>1, <2>1, <2>2, RungQuiet
    <2>3. CASE rows' # rows
      <3> DEFINE r == Row(job[Sweep].reason, "released", 0)
      <3>1. r \in Rows /\ r.lvl = 0
        <4>1. job[Sweep].reason \in Reasons /\ 0 \in 0..Len(Ladder)
          BY <1>0, ConstantTypes DEF Jobs
        <4> QED  BY <1>0, <4>1, RowType DEF Row, Markers
      <3>2. rows' = Append(rows, r)
        BY <1>6, <2>3 DEF ReleaseCheck
      <3> HIDE DEF r
      <3>3. ~(r.lvl > 1)
        BY <3>1
      <3> QED  BY <1>0, <1>1, <2>1, <3>1, <3>2, <3>3, RungWritten
    <2> QED  BY <2>2, <2>3
  <1>7. CASE EscalateOne
    <2> DEFINE step == next_step(job[Sweep].level, job[Sweep].round)
    <2>0. rows' = rows /\ Reached(job[Sweep].level)
      BY <1>0, <1>7 DEF EscalateOne, RungPending
    <2>1. CASE SweepDone
      <3>1. inc' = inc \/ \E armed : record_escalation(job[Sweep].level, job[Sweep].round, armed)
        BY <1>7 DEF EscalateOne
      <3>2. inc'.level = inc.level \/ inc'.level = job[Sweep].level
        BY <1>0, <3>1, LevelWritten
      <3> QED  BY <1>0, <1>1, <2>0, <2>1, <3>2, RungQuiet
    <2>2. CASE ~SweepDone
      <3> DEFINE x == [job[Sweep] EXCEPT !.reason = "escalated", !.read = inc.state,
                           !.level = step.level, !.round = step.round,
                           !.todo = Ladder[step.level]]
      <3>1. x.level = step.level /\ x.todo = Ladder[step.level]
        BY <1>0 DEF Jobs
      <3>2. /\ job' = [job EXCEPT ![Sweep] = x] /\ pc' = [pc EXCEPT ![Sweep] = "escalate_page"]
            /\ inc' = inc /\ step.page
        BY <1>7, <2>2 DEF EscalateOne
      <3>3. job[Sweep].level \in Nat /\ job[Sweep].level <= Len(Ladder)
        BY <1>0, ConstantTypes DEF Jobs
      <3>4. /\ step.level \in DOMAIN Ladder
            /\ step.level - 1 = 0 \/ step.level - 1 = job[Sweep].level
        BY <3>2, <3>3, ConstantTypes, PagingAssumption DEF next_step
      <3> HIDE DEF x, step
      <3>5. /\ pc'[Sweep] = "escalate_page"
            /\ job'[Sweep].level = step.level /\ job'[Sweep].todo = Ladder[step.level]
            /\ \A q \in Procs \ {Sweep} : pc'[q] = pc[q] /\ job'[q] = job[q]
        BY <1>0, <3>1, <3>2
      <3>6. Reached(step.level - 1)
        BY <2>0, <3>4 DEF Reached
      <3>7. on' = on
        BY <1>7 DEF EscalateOne
      <3>8. RungPending(Sweep)'
        BY <2>0, <3>4, <3>5, <3>6, <3>7 DEF RungPending, Begun, Reached, PagedAt
      <3> QED  BY <1>0, <2>0, <3>2, <3>5, <3>8, RungQuiet
    <2> QED  BY <2>1, <2>2
  <1>8. CASE EscalateDone
    <2>1. SweepDone /\ rows' = rows /\ record_escalation(job[Sweep].level, job[Sweep].round, TRUE)
      BY <1>8 DEF EscalateDone
    <2>2. job[Sweep].level \in DOMAIN Ladder /\ Begun(job[Sweep].level, {})
      BY <1>0, <1>8 DEF EscalateDone, RungPending
    <2>3. Reached(job[Sweep].level)
      BY <2>2 DEF Begun, Reached
    <2>4. inc'.level = inc.level \/ inc'.level = job[Sweep].level
      BY <1>0, <2>1, LevelWritten
    <2> QED  BY <1>0, <1>1, <2>1, <2>3, <2>4, RungQuiet DEF Reached
  <1>9. CASE RenotifyOne
    <2>0. rows' = rows /\ inc' = inc
      BY <1>9 DEF RenotifyOne
    <2>1. CASE SweepDone
      BY <1>0, <1>1, <2>0, <2>1, RungQuiet
    <2>2. CASE ~SweepDone
      <3>1. /\ pc'[Sweep] = "page" /\ job'[Sweep].reason = "reminder"
            /\ \A q \in Procs \ {Sweep} : pc'[q] = pc[q] /\ job'[q] = job[q]
        <4> DEFINE x == [job[Sweep] EXCEPT !.reason = "reminder", !.read = inc.state,
                             !.level = inc.level, !.todo = resolvable_channels(rows)]
        <4>1. x.reason = "reminder"
          BY <1>0 DEF Jobs
        <4>2. job' = [job EXCEPT ![Sweep] = x] /\ pc' = [pc EXCEPT ![Sweep] = "page"]
          BY <1>9, <2>2 DEF RenotifyOne
        <4> HIDE DEF x
        <4> QED  BY <1>0, <4>1, <4>2
      <3>2. RungPending(Sweep)'
        BY <3>1 DEF RungPending, OpenReasons
      <3> QED  BY <1>0, <2>0, <3>1, <3>2, RungQuiet
    <2> QED  BY <2>1, <2>2
  <1> QED  BY <1>3, <1>4, <1>5, <1>6, <1>7, <1>8, <1>9 DEF SweepWork

\* Every step keeps the rungs in order.
LEMMA RungNext ==
    ASSUME RungInv, [Next]_vars
    PROVE  RungInv'
  <1>0. /\ IInv /\ TypeOK /\ inc \in IncType /\ Sweep \in Procs
        /\ pc \in [Procs -> Points] /\ job \in [Procs -> Jobs]
        /\ Reached(inc.level) /\ RungsInOrder /\ \A q \in Procs : RungPending(q)
    BY DEF RungInv, IInv, TypeOK, Procs
  <1>1. IInv'
    BY <1>0, IInvNext
  <1>2. Rungs'
    <2>1. CASE Lifecycle \/ Configure \/ UNCHANGED vars
      <3>1. rows' = rows /\ pc' = pc /\ job' = job
        BY <2>1 DEF Lifecycle, Open, Acknowledge, Resolve, Reopen, GrowOld, Configure, vars
      <3>2. inc'.level = inc.level \/ inc'.level = 0
        BY <1>0, <2>1 DEF Lifecycle, Open, Acknowledge, Resolve, Resolved, Reopen, GrowOld,
              Configure, vars, IncType
      <3>3. inc'.level = inc.level \/ Reached(inc'.level)
        BY <3>2 DEF Reached
      <3>4. RungPending(Sweep)'
        BY <1>0, <3>1, RungSame
      <3> QED  BY <1>0, <3>1, <3>3, <3>4, RungQuiet
    <2>2. ASSUME NEW h \in Handlers, HandleSignal(h)
          PROVE  Rungs'
      <3>1. PICK i \in DOMAIN sigs : page_with(h, sigs[i], "apply", NoJob)
        BY <2>2 DEF HandleSignal
      <3>2. sigs[i] \in Reasons /\ h \in Procs /\ rows' = rows /\ inc' = inc
        BY <1>0, <2>2 DEF TypeOK, Reasons, Procs, HandleSignal
      <3>3. NoJob.level = 0
        BY DEF NoJob
      <3> QED  BY <1>0, <3>1, <3>2, <3>3, NoJobType, PageWithRung, PageWithSteps, RungQuiet
    <2>3. ASSUME NEW p \in Procs, Fault(p)
          PROVE  Rungs'
      <3>1. /\ rows' = rows /\ inc' = inc /\ pc'[p] = "idle" /\ job'[p].level = 0
            /\ \A q \in Procs \ {p} : pc'[q] = pc[q] /\ job'[q] = job[q]
        BY <1>0, <2>3 DEF Fault, NoJob
      <3>2. RungPending(p)'
        BY <3>1, RungElsewhere
      <3> QED  BY <3>1, <3>2, RungQuiet
    <2>4. CASE Restart
      <3>1. rows' = rows /\ inc' = inc /\ \A q \in Procs : pc'[q] = "idle" /\ job'[q].level = 0
        BY <2>4 DEF Restart, NoJob
      <3>2. \A q \in Procs : RungPending(q)'
        BY <3>1, RungElsewhere
      <3>3. on' = on
        BY <2>4 DEF Restart
      <3> QED  BY <1>0, <3>1, <3>2, <3>3 DEF Rungs, Reached, PagedAt, RungsInOrder
    <2>5. CASE SweepScan
      <3>1. /\ rows' = rows /\ inc' = inc
            /\ \A q \in Procs \ {Sweep} : pc'[q] = pc[q] /\ job'[q] = job[q]
        BY <1>0, <2>5 DEF SweepScan, ReconcileScan, ReleaseScan, EscalateClaim,
              RenotifyScan, SweepTo
      <3>2. CASE EscalateClaim
        <4> DEFINE x == [NoJob EXCEPT !.level = inc.level, !.round = inc.round,
                             !.policy = inc.policy]
        <4>1. x.level = inc.level
          BY DEF NoJob
        <4>2. job' = [job EXCEPT ![Sweep] = x] /\ pc' = [pc EXCEPT ![Sweep] = "escalate_one"]
          BY <3>2 DEF EscalateClaim, SweepTo
        <4> HIDE DEF x
        <4>3. pc'[Sweep] = "escalate_one" /\ job'[Sweep].level = inc.level
          BY <1>0, <4>1, <4>2
        <4>4. on' = on
          BY <3>2 DEF EscalateClaim
        <4>5. RungPending(Sweep)'
          BY <1>0, <3>1, <4>3, <4>4 DEF RungPending, Reached, PagedAt
        <4> QED  BY <1>0, <3>1, <4>5, RungQuiet
      <3>3. CASE ~EscalateClaim
        <4>1. /\ pc'[Sweep] \in {"reconcile_one", "release_one", "renotify_one"}
              /\ job'[Sweep].level = 0
          BY <1>0, <2>5, <3>3 DEF SweepScan, ReconcileScan, ReleaseScan, RenotifyScan,
                SweepTo, NoJob
        <4>2. RungPending(Sweep)'
          BY <1>0, <4>1, RungElsewhere
        <4> QED  BY <1>0, <3>1, <4>2, RungQuiet
      <3> QED  BY <3>2, <3>3
    <2> QED  BY <2>1, <2>2, <2>3, <2>4, <2>5, RungPageStep, RungSweepWork DEF Next
  <1> QED  BY <1>1, <1>2 DEF RungInv, Rungs

\* A rung is left behind only when every channel of it that was never switched
\* off has been paged, whatever signals, sweeps, acks, resolves, reopens, edits,
\* failed calls and restarts interleave with the walk (next_step, escalate_one).
THEOREM RungsSafe == Spec => []RungsInOrder
  <1>1. Init => RungInv
    <2> SUFFICES ASSUME Init PROVE RungInv
      OBVIOUS
    <2>1. rows = <<>> /\ inc.level = 0
      BY DEF Init
    <2>2. \A p \in Procs : pc[p] = "idle" /\ job[p].level = 0
      BY DEF Init, NoJob
    <2> QED  BY <2>1, <2>2, IInvInit DEF RungInv, Reached, RungsInOrder, RungPending
  <1>2. RungInv /\ [Next]_vars => RungInv'
    BY RungNext
  <1>3. RungInv => RungsInOrder
    BY DEF RungInv
  <1> QED  BY <1>1, <1>2, <1>3, PTL DEF Spec
=============================================================================
