--------------------------- MODULE IncidentWriter ---------------------------
(***************************************************************************)
(* The incident writer (public_status/incident_writer): a tick reads the   *)
(* open incidents and then the recent results of a monitor, decides, and   *)
(* opens or closes the monitor's incident, while operators declare,        *)
(* resolve and reopen incidents of the same monitor.  One control plane    *)
(* runs (the writer has one tick at a time); the races are with operators  *)
(* and with results that arrive late.                                      *)
(*                                                                         *)
(* Time is counted in check intervals: results[t][r] is what region r      *)
(* reported at time t.  The paging signal that follows an insert or a      *)
(* close is part of Paging's Open and Resolve.                             *)
(***************************************************************************)
EXTENDS Integers, Sequences, FiniteSets

CONSTANTS
    Regions,        \* regions the monitor is probed from
    Policies,       \* region policies an operator may choose
    Confirmations,  \* target.alert_confirmations
    MinLookback,    \* cfg.lookback, in intervals
    MaxTime,        \* bound on the rounds of results
    MaxSilent,      \* bound on results a region fails to report
    MaxLate,        \* bound on those that arrive late after all
    MaxOps,         \* bound on what operators do
    MaxFaults       \* bound on failed ticks and restarts

PolicyKinds == {"any", "majority", "all", "count"}

ASSUME WriterAssumption ==
    /\ IsFiniteSet(Regions)
    /\ Policies \subseteq [kind : PolicyKinds, n : Nat]
    /\ Policies # {}
    /\ {Confirmations, MinLookback, MaxTime, MaxSilent, MaxLate, MaxOps,
        MaxFaults}
         \subseteq Nat

VARIABLES
    results,  \* the stored results, one record of regions per interval
    rows,     \* the monitor's incidents, oldest first; an incident is its index
    target,   \* the monitor's settings
    pc,       \* where the tick is
    tick,     \* the locals of the tick
    left      \* what the bounds still allow

vars == <<results, rows, target, pc, tick, left>>

Verdicts == {"none", "good", "bad"}
Origins == {"monitor", "manual"}
Null == 0      \* ended_at IS NULL

Now == Len(results) + 1

Open(i) == rows[i].end = Null
OpenOf(origin) == {i \in DOMAIN rows : Open(i) /\ rows[i].origin = origin}

-----------------------------------------------------------------------------
(* The decision (decide.rs, domain/target.rs).                             *)

Threshold == IF Confirmations > 1 THEN Confirmations ELSE 1

lookback_for == IF MinLookback > 2 * Threshold THEN MinLookback ELSE 2 * Threshold

\* The results a tick of time `now' looks at.
Window(now) == {t \in DOMAIN results : t >= now - lookback_for /\ t < now}

\* Mutant: the fixed count is not clamped to the regions that report.
required_unclamped(policy, n) ==
    CASE policy.kind = "any"      -> 1
      [] policy.kind = "majority" -> n \div 2 + 1
      [] policy.kind = "all"      -> n
      [] policy.kind = "count"    -> policy.n

\* How many of n reporting regions must agree.
required(policy, n) ==
    LET k == CASE policy.kind = "any"      -> 1
               [] policy.kind = "majority" -> n \div 2 + 1
               [] policy.kind = "all"      -> n
               [] policy.kind = "count"    -> policy.n
    IN  IF k > n /\ n > 0 THEN n ELSE IF k < 1 \/ n = 0 THEN 1 ELSE k

\* Mutant: a check that was not reported counts as a failure.
bad_or_silent(r, W) == {t \in W : \A u \in W : u >= t => results[u][r] # "good"}

\* A region's failures since its last success.
trailing_bad_run(r, W) ==
    {t \in W : results[t][r] = "bad" /\ \A u \in W : u > t => results[u][r] # "good"}

\* Mutant: a recovery must fill the whole window.
good_window(r, W) == {t \in W : \A u \in W : results[u][r] = "good"}

\* A region's successes since its last failure.
trailing_good_run(r, W) ==
    {t \in W : results[t][r] = "good" /\ \A u \in W : u > t => results[u][r] # "bad"}

\* Mutant: an incident is dated from the start of the window.
window_start(run) == Now - lookback_for

Earliest(run) == CHOOSE t \in run : \A u \in run : t <= u
Latest(times) == CHOOSE t \in times : \A u \in times : u <= t

\* The regions with a result in the window vote; those whose run of failures is
\* long enough vote down.
reporting(W) == {r \in Regions : \E t \in W : results[t][r] # "none"}
down(W) == {r \in Regions : Cardinality(trailing_bad_run(r, W)) >= Threshold}
down_since(r, W) == Earliest(trailing_bad_run(r, W))

\* When the quorum was completed, in the order the regions went down.
triggered_at(W, quorum) ==
    Earliest({t \in {down_since(r, W) : r \in down(W)} :
                 Cardinality({r \in down(W) : down_since(r, W) <= t}) >= quorum})

\* Where the sustained recoveries began.
recoveries(W) ==
    {Earliest(trailing_good_run(r, W)) :
        r \in {q \in Regions : Cardinality(trailing_good_run(q, W)) >= Threshold}}

Decisions == {"none", "open", "close"}
NoDecision == [act |-> "none", at |-> 0]

\* What the results say of the open incident, if there is one.
decide_multi(open, policy, now) ==
    LET W == Window(now)
        quorum == required(policy, Cardinality(reporting(W)))
    IN  IF open = Null
        THEN IF Cardinality(down(W)) >= quorum
             THEN [act |-> "open", at |-> triggered_at(W, quorum)]
             ELSE NoDecision
        ELSE LET ended == Latest(recoveries(W))
             IN  IF /\ Cardinality(down(W)) < quorum
                    /\ recoveries(W) # {}
                    /\ ended > rows[open].start
                 THEN [act |-> "close", at |-> ended]
                 ELSE NoDecision

-----------------------------------------------------------------------------
(* The tick.                                                               *)

NoTick == [open |-> Null, plan |-> NoDecision]

open_for_pairs == OpenOf("monitor")

Idle ==
    /\ pc' = "idle"
    /\ tick' = NoTick

\* tick_once and process_target up to the decision: the open incidents and then
\* the results of the page are read.  Nothing that happens between the two reads
\* matters that could not happen before them or after them, so they are one step.
TickRead ==
    /\ pc = "idle"
    /\ target.enabled
    /\ \E open \in IF open_for_pairs = {} THEN {Null} ELSE open_for_pairs :
       \E plan \in {decide_multi(open, target.policy, Now)} :
          /\ plan.act # "none"
          /\ tick' = [open |-> open, plan |-> plan]
    /\ pc' = "apply"
    /\ UNCHANGED <<results, rows, target, left>>

\* Mutant: no partial unique index.
insert_unconditional(start) ==
    rows' = Append(rows, [origin |-> "monitor", start |-> start, end |-> Null, by |-> "none"])

\* ON CONFLICT DO NOTHING on the partial unique index of open monitor incidents.
insert_open(start) ==
    rows' = IF OpenOf("monitor") # {} THEN rows
            ELSE Append(rows, [origin |-> "monitor", start |-> start,
                               end |-> Null, by |-> "none"])

\* Mutant: the update is not restricted to an open row.
close_any(i, at) == rows' = [rows EXCEPT ![i].end = at, ![i].by = "writer"]

\* WHERE ended_at IS NULL.
close(i, at) ==
    rows' = IF Open(i) THEN [rows EXCEPT ![i].end = at, ![i].by = "writer"] ELSE rows

\* process_target after the decision: the one write.  A tick that decides
\* nothing changes nothing.
TickApply ==
    /\ pc = "apply"
    /\ \/ tick.plan.act = "open" /\ insert_open(tick.plan.at)
       \/ tick.plan.act = "close" /\ close(tick.open, tick.plan.at)
    /\ Idle
    /\ UNCHANGED <<results, target, left>>

\* A call fails or the process restarts: the next tick begins from scratch.
TickFails ==
    /\ pc # "idle"
    /\ left.faults > 0
    /\ left' = [left EXCEPT !.faults = @ - 1]
    /\ Idle
    /\ UNCHANGED <<results, rows, target>>

-----------------------------------------------------------------------------
(* Results and operators.                                                  *)

\* A round of checks; a region may report nothing.
Probe ==
    /\ Len(results) < MaxTime
    /\ \E f \in [Regions -> Verdicts] :
          LET silent == Cardinality({r \in Regions : f[r] = "none"})
          IN  /\ silent <= left.silent
              /\ results' = Append(results, f)
              /\ left' = [left EXCEPT !.silent = @ - silent]
    /\ UNCHANGED <<rows, target, pc, tick>>

\* An agent delivers a result after newer ones.
Late ==
    /\ left.late > 0
    /\ left' = [left EXCEPT !.late = @ - 1]
    /\ \E t \in DOMAIN results, r \in Regions, v \in {"good", "bad"} :
          /\ results[t][r] = "none"
          /\ results' = [results EXCEPT ![t][r] = v]
    /\ UNCHANGED <<rows, target, pc, tick>>

Spend ==
    /\ left.ops > 0
    /\ left' = [left EXCEPT !.ops = @ - 1]
    /\ UNCHANGED <<results, pc, tick>>

\* declare conflicts only with another open declaration.
Declare ==
    /\ Spend
    /\ OpenOf("manual") = {}
    /\ rows' = Append(rows, [origin |-> "manual", start |-> Now, end |-> Null, by |-> "none"])
    /\ UNCHANGED target

\* resolve of an open incident, whoever opened it.
Resolve ==
    /\ Spend
    /\ \E i \in DOMAIN rows :
          /\ Open(i)
          /\ rows' = [rows EXCEPT ![i].end = Now, ![i].by = "operator"]
    /\ UNCHANGED target

\* reopen clears ended_at; the unique index of its origin may reject it (409).
Reopenable(i) == ~Open(i) /\ OpenOf(rows[i].origin) = {}

Reopen ==
    /\ Spend
    /\ \E i \in DOMAIN rows :
          /\ Reopenable(i)
          /\ rows' = [rows EXCEPT ![i].end = Null, ![i].by = "none"]
    /\ UNCHANGED target

\* The monitor is paused, resumed or given another region policy.
Edit ==
    /\ Spend
    /\ \/ target' = [target EXCEPT !.enabled = ~@]
       \/ \E p \in Policies : p # target.policy /\ target' = [target EXCEPT !.policy = p]
    /\ UNCHANGED rows

-----------------------------------------------------------------------------
Init ==
    /\ results = <<>>
    /\ rows = <<>>
    /\ \E p \in Policies : target = [policy |-> p, enabled |-> TRUE]
    /\ tick = NoTick
    /\ pc = "idle"
    /\ left = [silent |-> MaxSilent, late |-> MaxLate, ops |-> MaxOps,
               faults |-> MaxFaults]

Tick == TickRead \/ TickApply
Operator == Declare \/ Resolve \/ Reopen \/ Edit

Next == Tick \/ TickFails \/ Probe \/ Late \/ Operator

Spec == Init /\ [][Next]_vars

\* The ticker fires for ever and a tick ends.
FairSpec == Spec /\ WF_vars(TickRead) /\ WF_vars(TickApply)

-----------------------------------------------------------------------------
(* Properties.                                                             *)

RowType == [origin : Origins, start : Nat, end : Nat, by : {"none", "writer", "operator"}]

TickType == [open : Nat, plan : [act : Decisions, at : Nat]]

LeftType == [silent : 0..MaxSilent, late : 0..MaxLate, ops : 0..MaxOps,
             faults : 0..MaxFaults]

TypeOK ==
    /\ results \in Seq([Regions -> Verdicts])
    /\ rows \in Seq(RowType)
    /\ target \in [policy : Policies, enabled : BOOLEAN]
    /\ pc \in {"idle", "apply"}
    /\ tick \in TickType
    /\ left \in LeftType

\* A monitor has at most one open incident of its own and one declaration, though
\* a tick inserts from a read of the open incidents that an operator's resolve,
\* reopen or declare may have outdated (insert_open, reopen).
OneOpenPerOrigin ==
    \A i, j \in DOMAIN rows :
        Open(i) /\ Open(j) /\ rows[i].origin = rows[j].origin => i = j

\* The writer never resolves what a person opened, and what a person resolved
\* keeps its resolver and its end until it is reopened: a tick that decided to
\* close before that changes nothing (open_for_pairs, close).
ResolvedStaysResolved ==
    [][\A i \in DOMAIN rows :
          /\ ~Open(i) => rows'[i] = rows[i] \/ rows'[i].end = Null
          /\ rows[i].origin = "manual" => rows'[i].by # "writer"]_vars

\* The failures region r reported from time s on.
Failures(r, s) == {t \in DOMAIN results : t >= s /\ results[t][r] = "bad"}

\* A region failed at s and as often as the monitor asks for from then on.
Evidence(s) ==
    \E r \in Regions : s \in Failures(r, s) /\ Cardinality(Failures(r, s)) >= Threshold

\* Every incident the writer opened starts at a failed check of a region that
\* went on to fail as often as the monitor asks for, whatever arrived late
\* (trailing_bad_run, decide_multi).  The failures were consecutive when the tick
\* read them; in the log they need not stay so, since a success of that region
\* may arrive between them later.
EvidenceBacked ==
    \A i \in DOMAIN rows : rows[i].origin = "monitor" => Evidence(rows[i].start)

\* The last Threshold rounds of every region are v.
Lately(v) ==
    /\ Len(results) >= Threshold
    /\ \A t \in DOMAIN results, r \in Regions : t > Len(results) - Threshold => results[t][r] = v

\* An outage that every region keeps reporting has an open incident in the end,
\* under every region policy, after failed ticks and however often operators
\* resolve it, unless the monitor stays paused.
OutageOpens == <>[](Lately("bad") /\ target.enabled) => <>[](OpenOf("monitor") # {})

\* A recovery that every region keeps reporting leaves no incident of the writer
\* open in the end.
RecoveryCloses == <>[](Lately("good") /\ target.enabled) => <>[](OpenOf("monitor") = {})

\* A region that falls silent closes nothing: the writer closes an incident only
\* after a success of a region that was not up when the incident began.
SilenceClosesNothing ==
    [][\A i \in DOMAIN rows :
          Open(i) /\ rows'[i].by = "writer" =>
          \E r \in Regions : \E t \in DOMAIN results :
              /\ rows[i].start < t /\ results[t][r] = "good"
              /\ results[rows[i].start][r] # "good"]_vars

=============================================================================
