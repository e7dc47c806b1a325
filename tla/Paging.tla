------------------------------- MODULE Paging -------------------------------
(***************************************************************************)
(* The escalation engine (src/escalation/engine) paging ONE incident of    *)
(* one monitor, together with the lifecycle of that incident row           *)
(* (storage/incident_ops/pg.rs) and the signals that connect the two.      *)
(*                                                                         *)
(* Every table the engine reads is keyed by incident, and so is its lock,  *)
(* so one incident shows every race the engine has.  What other incidents  *)
(* contribute is nondeterministic here: how many opens the flap damper     *)
(* counts, and whether the bounded signal channel is full.                 *)
(*                                                                         *)
(* Time is abstracted to order.  A row of incident_notifications is an     *)
(* element of the sequence `rows', whose index stands for created_at.  A   *)
(* scan that asks for an age (grace, hold, reminder gap, escalation timer) *)
(* may find its row due or not yet due.  Delivery, retries and receipts    *)
(* are in other modules: here a page IS its row.                           *)
(***************************************************************************)
EXTENDS Integers, Sequences, FiniteSets

CONSTANTS
    Channels,        \* every notification channel of the organisation
    Bound,           \* channels a monitor without a policy pages
    Ladder,          \* the policy's rungs: a sequence of sets of channels
    HasPolicy,       \* whether resolve_for_target finds that policy
    RepeatCount,     \* extra rounds of the ladder
    NotifyRecovery,  \* target.notify_recovery
    Manual,          \* the incident was declared by an operator
    PagingEnabled,   \* incident.paging_enabled (FALSE only for a quiet declare)
    Flapping,        \* the damper may find the monitor above its threshold
    Handlers,        \* spawned signal tasks that can page
    InOrder,         \* whether spawned tasks reach the lock in signal order
    SignalCap,       \* the model's bound on signals queued or in a waiting task
    Lossy,           \* whether try_send can find the channel full
    EnvEvents,       \* configuration changes that can happen
    MaxEnv,          \* bound on those changes
    MaxReopens,      \* bound on reopens
    MaxFaults,       \* bound on failed calls and restarts of the process
    MaxRepeats,      \* bound on resolves of an already resolved incident
    MaxReminders     \* bound on reminder rounds (0: renotify_interval_secs = 0)

Sweep == "sweep"
Procs == Handlers \cup {Sweep}
NoProc == "none"

Reasons == {"opened", "reopened", "resolved", "escalated", "reminder"}
OpenReasons == {"opened", "reopened", "escalated"}
HoldMarkers == {"damped", "maintenance"}
Markers == HoldMarkers \cup {"released", "unreachable"}
States == {"absent", "triggered", "acknowledged", "resolved"}
EventKinds == {"enabled", "held", "window", "channel", "policy"}

\* A channel's `enabled' flag is set in "on" and "back".  "on" also says that the
\* channel was never switched off, which only RungsInOrder looks at.
Switch == {"on", "off", "back"}

ASSUME PagingAssumption ==
    /\ Bound \subseteq Channels
    /\ Channels \cap Markers = {}
    /\ Ladder \in Seq(SUBSET Channels)
    /\ {HasPolicy, NotifyRecovery, Manual, PagingEnabled, Flapping,
        InOrder, Lossy} \subseteq BOOLEAN
    /\ {NoProc, Sweep} \cap Handlers = {}
    /\ {RepeatCount, SignalCap, MaxEnv, MaxReopens, MaxFaults,
        MaxRepeats, MaxReminders} \subseteq Nat
    /\ EnvEvents \subseteq EventKinds

VARIABLES
    inc,      \* the incident row
    rows,     \* incident_notifications, oldest first
    sigs,     \* signals sent and not yet handled, oldest first
    lock,     \* the process holding the incident's page lock
    pc,       \* where each process is
    job,      \* the local variables of each process
    target,   \* the monitor's switches
    on,       \* each channel's switch
    left      \* what the bounds still allow

vars == <<inc, rows, sigs, lock, pc, job, target, on, left>>

-----------------------------------------------------------------------------
(* Pure rules (engine/rules.rs, domain/escalation_policy.rs).              *)

\* A notification row.  `gen' is what comparing created_at with the incident's
\* reopened events gives: the episode of the incident it was written in.
Row(reason, chan, lvl) ==
    [reason |-> reason, chan |-> chan, lvl |-> lvl, gen |-> inc.gen]

is_damper_marker(r) == r.chan \in Markers

\* The newest open-side page is newer than the newest all-clear.
open_episode_active(rs) ==
    \E i \in DOMAIN rs :
        /\ ~is_damper_marker(rs[i])
        /\ rs[i].reason \in OpenReasons
        /\ \A j \in DOMAIN rs : rs[j].reason = "resolved" => j < i

\* Mutant: forgets that a channel already had its all-clear.
resolvable_ever(rs) ==
    {c \in Channels :
        \E i \in DOMAIN rs : rs[i].chan = c /\ rs[i].reason \in OpenReasons}

\* Channels paged since their last all-clear.
resolvable_channels(rs) ==
    {c \in Channels :
        \E i \in DOMAIN rs :
            /\ rs[i].chan = c
            /\ rs[i].reason \in OpenReasons
            /\ \A j \in DOMAIN rs :
                   rs[j].chan = c /\ rs[j].reason = "resolved" => j < i}

\* The held row a release pages for: the newest marker's reason.
held_reason(rs) ==
    LET holds == {i \in DOMAIN rs : rs[i].chan \in HoldMarkers}
        newest == {i \in holds : \A j \in holds : j <= i}
    IN  IF newest = {} THEN "opened" ELSE rs[CHOOSE i \in newest : TRUE].reason

\* Mutant: keys the release on channel rows only, so its own marker is unseen.
newest_hold_unpaged(rs, kind) ==
    \E i \in DOMAIN rs :
        /\ rs[i].chan = kind
        /\ \A j \in DOMAIN rs : j > i => is_damper_marker(rs[j])

\* The newest row, markers included, is a hold of this kind.
newest_is_hold(rs, kind) == rs # <<>> /\ rs[Len(rs)].chan = kind

\* Mutant: the walk skips a rung and never repeats.
next_step_skips(level, round) ==
    IF Ladder = <<>> THEN [page |-> FALSE, level |-> level, round |-> round]
    ELSE IF level + 1 < Len(Ladder)
         THEN [page |-> TRUE, level |-> level + 2, round |-> round]
    ELSE [page |-> FALSE, level |-> level, round |-> round]

\* The ladder walk.  Levels are 1..Len(Ladder); level 0 means not started.
next_step(level, round) ==
    IF Ladder = <<>> THEN [page |-> FALSE, level |-> level, round |-> round]
    ELSE IF level < Len(Ladder)
         THEN [page |-> TRUE, level |-> level + 1, round |-> round]
    ELSE IF round < RepeatCount
         THEN [page |-> TRUE, level |-> 1, round |-> round + 1]
    ELSE [page |-> FALSE, level |-> level, round |-> round]

-----------------------------------------------------------------------------
(* The incident row and its signals.                                       *)

\* Mutant: an unbounded channel.
signal_unbounded(reason) == sigs' = Append(sigs, reason)

\* try_send: a full channel drops the nudge and the caller goes on.  `sigs'
\* holds the signals in the channel, whose capacity the code bounds, and those of
\* spawned tasks waiting for the lock, which it does not: SignalCap bounds the
\* model, and Lossy lets a send fail below it, since other incidents' signals
\* share the channel.
signal(reason) ==
    \/ /\ Len(sigs) < SignalCap
       /\ sigs' = Append(sigs, reason)
    \/ /\ Lossy
       /\ sigs' = sigs

\* insert_open by the writer, or declare by an operator.  Only a declare
\* that asked for it is signalled; the writer always signals.
Open ==
    /\ inc.state = "absent"
    /\ inc' = [inc EXCEPT !.state = "triggered"]
    /\ IF PagingEnabled THEN signal("opened") ELSE UNCHANGED sigs
    /\ UNCHANGED <<rows, lock, pc, job, target, on, left>>

\* acknowledge: an open incident; the timer is cleared with the state.
Acknowledge ==
    /\ inc.state = "triggered"
    /\ inc' = [inc EXCEPT !.state = "acknowledged", !.timer = FALSE]
    /\ UNCHANGED <<rows, sigs, lock, pc, job, target, on, left>>

\* What resolving writes, by an operator (resolve) or the writer (close).
Resolved(i) == [i EXCEPT !.state = "resolved", !.timer = FALSE]

\* close matches only an open row; resolve is idempotent on a resolved one
\* and signals again.  (The writer closes monitor incidents only.)
Resolve ==
    /\ inc.state # "absent"
    /\ inc.state = "resolved" => left.repeats > 0
    /\ inc' = Resolved(inc)
    /\ left' = IF inc.state = "resolved"
               THEN [left EXCEPT !.repeats = @ - 1] ELSE left
    /\ signal("resolved")
    /\ UNCHANGED <<rows, lock, pc, job, target, on>>

\* reopen: back to triggered on a fresh rung.  The policy binding stays.
Reopen ==
    /\ inc.state = "resolved"
    /\ inc.gen < MaxReopens
    /\ inc' = [inc EXCEPT !.state = "triggered", !.gen = @ + 1,
                          !.level = 0, !.round = 0]
    /\ IF PagingEnabled THEN signal("reopened") ELSE UNCHANGED sigs
    /\ UNCHANGED <<rows, lock, pc, job, target, on, left>>

\* Mutant: the first rung is recorded without arming the timer.
begin_unarmed(level, armed) ==
    inc' = IF inc.state = "triggered"
           THEN [inc EXCEPT !.policy = TRUE, !.level = level, !.round = 0,
                            !.timer = FALSE]
           ELSE inc

\* begin_escalation and record_escalation: WHERE state = 'triggered'.
begin_escalation(level, armed) ==
    inc' = IF inc.state = "triggered"
           THEN [inc EXCEPT !.policy = TRUE, !.level = level, !.round = 0,
                            !.timer = armed]
           ELSE inc

\* Mutant: the state guard of the update is missing.
record_unguarded(level, round, armed) ==
    inc' = [inc EXCEPT !.level = level, !.round = round, !.timer = armed]

record_escalation(level, round, armed) ==
    inc' = IF inc.state = "triggered"
           THEN [inc EXCEPT !.level = level, !.round = round, !.timer = armed]
           ELSE inc

-----------------------------------------------------------------------------
(* page_with: everything between taking the page lock and dropping it.     *)

NoJob == [reason |-> "opened", damper |-> "apply", read |-> "absent",
          todo |-> {}, level |-> 0, round |-> 0, policy |-> FALSE,
          recorded |-> FALSE, before |-> 0, next |-> "idle"]

\* What a caller of page_with still holds when it returns: only release_one
\* looks at its locals again.
Kept(local) ==
    IF local.next = "idle" THEN NoJob
    ELSE [NoJob EXCEPT !.reason = local.reason, !.before = local.before,
                       !.next = local.next]

\* Release the lock and go back to the caller.
Return(p) ==
    /\ lock' = NoProc
    /\ pc' = [pc EXCEPT ![p] = job[p].next]
    /\ job' = [job EXCEPT ![p] = Kept(job[p])]

\* Mutant: the dedup is read-then-act without the page lock.
page_unlocked(p, reason, damper, local) ==
    /\ job' = [job EXCEPT ![p] = [local EXCEPT !.reason = reason, !.damper = damper,
                                               !.read = inc.state]]
    /\ lock' = p
    /\ pc' = [pc EXCEPT ![p] = IF reason = "resolved" THEN "resolve" ELSE "open"]

\* The caller of page_with asks for reason and damper.  It takes the lock,
\* then reads the incident and the monitor; `local' holds what the caller
\* keeps across the call.
page_with(p, reason, damper, local) ==
    /\ lock = NoProc
    /\ IF (~target.enabled \/ target.held) /\ reason # "resolved"
       THEN /\ pc' = [pc EXCEPT ![p] = local.next]
            /\ job' = [job EXCEPT ![p] = Kept([local EXCEPT !.reason = reason])]
            /\ UNCHANGED lock
       ELSE /\ lock' = p
            /\ pc' = [pc EXCEPT ![p] = IF reason = "resolved" THEN "resolve" ELSE "open"]
            /\ job' = [job EXCEPT ![p] = [local EXCEPT !.reason = reason,
                                             !.damper = damper, !.read = inc.state]]

\* A signal task: the loop received the signal and spawned it; it now gets
\* the lock.  Tasks are independent, so without InOrder any may be first.
HandleSignal(h) ==
    /\ pc[h] = "idle"
    /\ \E i \in DOMAIN sigs :
          /\ InOrder => i = 1
          /\ page_with(h, sigs[i], "apply", NoJob)
          /\ sigs' = SubSeq(sigs, 1, i - 1) \o SubSeq(sigs, i + 1, Len(sigs))
    /\ UNCHANGED <<inc, rows, target, on, left>>

\* open_episode up to the decision: duplicate, recovered, held, or page.
OpenEpisode(p) ==
    /\ pc[p] = "open"
    /\ \/ /\ \/ open_episode_active(rows)
             \/ job[p].damper = "skip" /\ job[p].read # "triggered"
          /\ Return(p)
       \/ /\ ~open_episode_active(rows)
          /\ ~(job[p].damper = "skip" /\ job[p].read # "triggered")
          /\ \/ /\ ~Manual /\ target.window
                /\ pc' = [pc EXCEPT ![p] = "hold_maintenance"]
                /\ UNCHANGED job
             \/ /\ ~(~Manual /\ target.window)
                /\ Flapping /\ ~Manual /\ job[p].damper = "apply"
                /\ pc' = [pc EXCEPT ![p] = "hold_damped"]
                /\ UNCHANGED job
             \/ /\ ~(~Manual /\ target.window)
                /\ pc' = [pc EXCEPT ![p] = "route"]
                /\ job' = [job EXCEPT ![p].policy = target.policy]
          /\ UNCHANGED lock
    /\ UNCHANGED <<inc, rows, sigs, target, on, left>>

\* hold and hold_for_maintenance: the marker the release scan looks for.
Hold(p) ==
    /\ pc[p] \in {"hold_maintenance", "hold_damped"}
    /\ LET marker == IF pc[p] = "hold_damped" THEN "damped" ELSE "maintenance"
       IN  rows' = Append(rows, Row(job[p].reason, marker, 0))
    /\ Return(p)
    /\ UNCHANGED <<inc, sigs, target, on, left>>

\* Whom to page: the first rung of the policy, or the bound channels.  A
\* policy deleted since it was resolved pages nobody and writes nothing; one
\* without steps is bound to the incident and pages nobody.
Route(p) ==
    /\ pc[p] = "route"
    /\ \/ /\ job[p].policy /\ ~target.policy
          /\ Return(p)
          /\ UNCHANGED inc
       \/ /\ job[p].policy /\ target.policy /\ ~next_step(0, 0).page
          /\ begin_escalation(0, FALSE)
          /\ Return(p)
       \/ /\ job[p].policy /\ target.policy /\ next_step(0, 0).page
          /\ job' = [job EXCEPT ![p].level = next_step(0, 0).level,
                                ![p].todo = Ladder[next_step(0, 0).level]]
          /\ pc' = [pc EXCEPT ![p] = "page"]
          /\ UNCHANGED <<inc, lock>>
       \/ /\ ~job[p].policy
          /\ job' = [job EXCEPT ![p].todo = Bound]
          /\ pc' = [pc EXCEPT ![p] = "page"]
          /\ UNCHANGED <<inc, lock>>
    /\ UNCHANGED <<rows, sigs, target, on, left>>

\* Mutant: the all-clear goes to the channels of the current rung only.
NotifyCurrentRung(p) ==
    /\ pc[p] = "resolve"
    /\ LET paged == resolvable_channels(rows) \cap
                    (IF inc.level = 0 THEN Bound ELSE Ladder[inc.level])
       IN  IF NotifyRecovery /\ paged # {}
           THEN /\ job' = [job EXCEPT ![p].todo = paged, ![p].level = inc.level]
                /\ pc' = [pc EXCEPT ![p] = "page"]
                /\ UNCHANGED lock
           ELSE Return(p)
    /\ UNCHANGED <<inc, rows, sigs, target, on, left>>

\* notify_resolution: the all-clear goes to the channels paged this episode,
\* unless the monitor opted out.  It does not look at the incident's state.
NotifyResolution(p) ==
    /\ pc[p] = "resolve"
    /\ IF NotifyRecovery /\ resolvable_channels(rows) # {}
       THEN /\ job' = [job EXCEPT ![p].todo = resolvable_channels(rows),
                                  ![p].level = inc.level]
            /\ pc' = [pc EXCEPT ![p] = "page"]
            /\ UNCHANGED lock
       ELSE Return(p)
    /\ UNCHANGED <<inc, rows, sigs, target, on, left>>

\* One iteration of page_channels: a disabled channel is skipped, any other
\* gets its queued row and the send.
PageChannel(p) ==
    /\ pc[p] \in {"page", "escalate_page"}
    /\ \E c \in job[p].todo :
          /\ rows' = IF on[c] # "off"
                     THEN Append(rows, Row(job[p].reason, c, job[p].level))
                     ELSE rows
          /\ job' = [job EXCEPT ![p].todo = @ \ {c},
                                ![p].recorded = @ \/ on[c] # "off"]
    /\ UNCHANGED <<inc, sigs, lock, pc, target, on, left>>

\* After page_channels: arm the ladder, or note that nobody was reached.
PageDone(p) ==
    /\ pc[p] = "page"
    /\ job[p].todo = {}
    /\ IF job[p].reason \in {"opened", "reopened"}
       THEN IF job[p].policy
            THEN begin_escalation(job[p].level, TRUE) /\ UNCHANGED rows
            ELSE /\ UNCHANGED inc
                 /\ IF job[p].recorded
                    THEN UNCHANGED rows
                    ELSE rows' = Append(rows, Row(job[p].reason, "unreachable", 0))
       ELSE UNCHANGED <<inc, rows>>
    /\ Return(p)
    /\ UNCHANGED <<sigs, target, on, left>>

-----------------------------------------------------------------------------
(* The sweep.  One runs at a time (the `sweeping' flag) and works through   *)
(* its scans in order.  Any scan may come back empty because its row is not *)
(* old enough yet, so the order within a sweep excludes no sequence of      *)
(* work: from "idle" the next scan that finds the incident is any of them.  *)

\* Mutant: the scan looks for an armed timer instead of a missing one.
reconcile_armed ==
    /\ inc.state = "triggered" /\ PagingEnabled /\ ~inc.policy /\ inc.timer
    /\ rows = <<>> /\ ~inc.old

\* Never paged, never armed, and started within the reconcile window.
due_for_reconcile ==
    /\ inc.state = "triggered" /\ PagingEnabled /\ ~inc.policy /\ ~inc.timer
    /\ rows = <<>> /\ ~inc.old

\* The incident started longer ago than reconcile_window_secs.  Only
\* due_for_reconcile asks, so it is enough that the incident grows old once
\* nothing but that scan would page it: growing old earlier is the same as the
\* sweep not having come round.  (A reopen leaves started_at alone.)
GrowOld ==
    /\ due_for_reconcile
    /\ sigs = <<>> /\ \A p \in Procs : pc[p] = "idle"
    /\ inc' = [inc EXCEPT !.old = TRUE]
    /\ UNCHANGED <<rows, sigs, lock, pc, job, target, on, left>>

due_for_flap_release == inc.state = "triggered" /\ newest_is_hold(rows, "damped")

\* Mutant: the window test of the release scan is inverted.
release_during_window ==
    /\ inc.state = "triggered" /\ newest_is_hold(rows, "maintenance")
    /\ target.window /\ ~target.held

due_for_maintenance_release ==
    /\ inc.state = "triggered" /\ newest_is_hold(rows, "maintenance")
    /\ ~target.window /\ ~target.held

due_for_escalation == inc.state = "triggered" /\ inc.timer

due_for_renotify ==
    /\ inc.state = "triggered" /\ ~inc.timer /\ ~target.held /\ ~target.window
    /\ \E i \in DOMAIN rows : rows[i].chan \in Channels

\* The scan found the incident; the work on it starts later.
SweepTo(where, local) ==
    /\ pc[Sweep] = "idle"
    /\ pc' = [pc EXCEPT ![Sweep] = where]
    /\ job' = [job EXCEPT ![Sweep] = local]

SweepDone ==
    /\ pc' = [pc EXCEPT ![Sweep] = "idle"]
    /\ job' = [job EXCEPT ![Sweep] = NoJob]

ReconcileScan ==
    /\ due_for_reconcile
    /\ SweepTo("reconcile_one", NoJob)
    /\ UNCHANGED <<inc, rows, sigs, lock, target, on, left>>

ReconcileOne ==
    /\ pc[Sweep] = "reconcile_one"
    /\ page_with(Sweep, "opened", "apply", job[Sweep])
    /\ UNCHANGED <<inc, rows, sigs, target, on, left>>

ReleaseScan ==
    /\ due_for_flap_release \/ due_for_maintenance_release
    /\ SweepTo("release_one", NoJob)
    /\ UNCHANGED <<inc, rows, sigs, lock, target, on, left>>

\* release_one reads the log before it pages, so it can tell afterwards
\* whether the release reached anybody.
ReleaseOne ==
    /\ pc[Sweep] = "release_one"
    /\ pc' = [pc EXCEPT ![Sweep] = "release_page"]
    /\ job' = [job EXCEPT ![Sweep].before = Len(rows),
                          ![Sweep].reason = held_reason(rows),
                          ![Sweep].next = "release_check"]
    /\ UNCHANGED <<inc, rows, sigs, lock, target, on, left>>

ReleasePage ==
    /\ pc[Sweep] = "release_page"
    /\ page_with(Sweep, job[Sweep].reason, "skip", job[Sweep])
    /\ UNCHANGED <<inc, rows, sigs, target, on, left>>

\* No new row means nobody was paged: the marker ends the hold.
ReleaseCheck ==
    /\ pc[Sweep] = "release_check"
    /\ rows' = IF Len(rows) > job[Sweep].before THEN rows
               ELSE Append(rows, Row(job[Sweep].reason, "released", 0))
    /\ SweepDone
    /\ UNCHANGED <<inc, sigs, lock, target, on, left>>

\* due_for_escalation claims the row: level and round are read here, and the
\* pushed timer (the lease) leaves it armed.
EscalateClaim ==
    /\ due_for_escalation
    /\ SweepTo("escalate_one", [NoJob EXCEPT !.level = inc.level,
                                   !.round = inc.round, !.policy = inc.policy])
    /\ UNCHANGED <<inc, rows, sigs, lock, target, on, left>>

\* escalate_one up to the page.  It takes no page lock and does not look at
\* the incident's state or at a plan hold.
EscalateOne ==
    /\ pc[Sweep] = "escalate_one"
    /\ LET step == next_step(job[Sweep].level, job[Sweep].round)
           alive == job[Sweep].policy /\ target.policy
       IN  \/ /\ ~alive \/ ~step.page
              /\ record_escalation(job[Sweep].level, job[Sweep].round, FALSE)
              /\ SweepDone
           \/ /\ alive /\ step.page
              /\ ~target.enabled \/ target.window
              /\ record_escalation(job[Sweep].level, job[Sweep].round, TRUE)
              /\ SweepDone
           \/ /\ alive /\ step.page
              /\ target.enabled /\ ~target.window
              /\ job' = [job EXCEPT ![Sweep] = [@ EXCEPT !.reason = "escalated",
                              !.read = inc.state, !.level = step.level,
                              !.round = step.round, !.todo = Ladder[step.level]]]
              /\ pc' = [pc EXCEPT ![Sweep] = "escalate_page"]
              /\ UNCHANGED inc
    /\ UNCHANGED <<rows, sigs, lock, target, on, left>>

EscalateDone ==
    /\ pc[Sweep] = "escalate_page"
    /\ job[Sweep].todo = {}
    /\ record_escalation(job[Sweep].level, job[Sweep].round, TRUE)
    /\ SweepDone
    /\ UNCHANGED <<rows, sigs, lock, target, on, left>>

RenotifyScan ==
    /\ due_for_renotify
    /\ left.reminders > 0
    /\ SweepTo("renotify_one", NoJob)
    /\ left' = [left EXCEPT !.reminders = @ - 1]
    /\ UNCHANGED <<inc, rows, sigs, lock, target, on>>

\* renotify_one looks at everything again, under the lock.
RenotifyOne ==
    /\ pc[Sweep] = "renotify_one"
    /\ lock = NoProc
    /\ IF /\ inc.state = "triggered" /\ target.enabled /\ ~target.window
          /\ resolvable_channels(rows) # {}
       THEN /\ lock' = Sweep
            /\ pc' = [pc EXCEPT ![Sweep] = "page"]
            /\ job' = [job EXCEPT ![Sweep] = [@ EXCEPT !.reason = "reminder",
                              !.read = inc.state, !.level = inc.level,
                              !.todo = resolvable_channels(rows)]]
       ELSE SweepDone /\ UNCHANGED lock
    /\ UNCHANGED <<inc, rows, sigs, target, on, left>>

-----------------------------------------------------------------------------
(* Failures and configuration.                                             *)

\* A call fails: the task logs it and ends, the sweep goes on with other
\* work.  What is already written stays.
Fault(p) ==
    /\ left.faults > 0
    /\ pc[p] # "idle"
    /\ left' = [left EXCEPT !.faults = @ - 1]
    /\ pc' = [pc EXCEPT ![p] = "idle"]
    /\ job' = [job EXCEPT ![p] = NoJob]
    /\ lock' = IF lock = p THEN NoProc ELSE lock
    /\ UNCHANGED <<inc, rows, sigs, target, on>>

\* The process restarts: tasks, lock and signals are in memory only.
Restart ==
    /\ left.faults > 0
    /\ left' = [left EXCEPT !.faults = @ - 1]
    /\ pc' = [p \in Procs |-> "idle"]
    /\ job' = [p \in Procs |-> NoJob]
    /\ lock' = NoProc
    /\ sigs' = <<>>
    /\ UNCHANGED <<inc, rows, target, on>>

\* An operator pauses or resumes the monitor (set_enabled), the plan holds or
\* releases it, or a maintenance window starts or ends.
SwitchMonitor ==
    /\ \E kind \in EnvEvents \cap {"enabled", "held", "window"} :
          target' = [target EXCEPT ![kind] = ~@]
    /\ UNCHANGED on

\* A channel is switched off or on again.
SwitchChannel ==
    /\ "channel" \in EnvEvents
    /\ \E c \in Channels :
          on' = [on EXCEPT ![c] = IF @ = "off" THEN "back" ELSE "off"]
    /\ UNCHANGED target

\* The policy is deleted.  The delete is soft: monitors lose their binding, the
\* incident keeps its own, and a later get of the policy finds nothing.
DeletePolicy ==
    /\ "policy" \in EnvEvents /\ target.policy
    /\ target' = [target EXCEPT !.policy = FALSE]
    /\ UNCHANGED on

Configure ==
    /\ left.env > 0
    /\ left' = [left EXCEPT !.env = @ - 1]
    /\ SwitchMonitor \/ SwitchChannel \/ DeletePolicy
    /\ UNCHANGED <<inc, rows, sigs, lock, pc, job>>

-----------------------------------------------------------------------------
Init ==
    /\ inc = [state |-> "absent", gen |-> 0, policy |-> FALSE, level |-> 0,
              round |-> 0, timer |-> FALSE, old |-> FALSE]
    /\ rows = <<>>
    /\ sigs = <<>>
    /\ lock = NoProc
    /\ pc = [p \in Procs |-> "idle"]
    /\ job = [p \in Procs |-> NoJob]
    /\ target = [enabled |-> TRUE, held |-> FALSE, window |-> FALSE,
                 policy |-> HasPolicy]
    /\ on = [c \in Channels |-> "on"]
    /\ left = [env |-> MaxEnv, faults |-> MaxFaults, repeats |-> MaxRepeats,
               reminders |-> MaxReminders]

Lifecycle == Open \/ Acknowledge \/ Resolve \/ Reopen \/ GrowOld

PageStep(p) == OpenEpisode(p) \/ Hold(p) \/ Route(p) \/ NotifyResolution(p)
               \/ PageChannel(p) \/ PageDone(p)

SweepScan == ReconcileScan \/ ReleaseScan \/ EscalateClaim \/ RenotifyScan

SweepWork == ReconcileOne \/ ReleaseOne \/ ReleasePage \/ ReleaseCheck
             \/ EscalateOne \/ EscalateDone \/ RenotifyOne

Next ==
    \/ Lifecycle
    \/ \E h \in Handlers : HandleSignal(h)
    \/ \E p \in Procs : PageStep(p) \/ Fault(p)
    \/ SweepScan \/ SweepWork
    \/ Restart
    \/ Configure

Spec == Init /\ [][Next]_vars

\* Spawned tasks and the sweep run on; the lock is a fair (FIFO) mutex, so a
\* waiting signal task gets it; the clock advances, so a row that keeps
\* matching a scan is old enough at some tick.
Fairness ==
    /\ \A h \in Handlers : SF_vars(HandleSignal(h))
    /\ \A p \in Procs : WF_vars(PageStep(p))
    /\ WF_vars(SweepWork)
    /\ SF_vars(ReconcileScan) /\ SF_vars(ReleaseScan)
    /\ SF_vars(EscalateClaim) /\ SF_vars(RenotifyScan)

FairSpec == Spec /\ Fairness

-----------------------------------------------------------------------------
(* Properties.                                                             *)

Rows == [reason : Reasons, chan : Channels \cup Markers, lvl : 0..Len(Ladder),
         gen : 0..MaxReopens]

Points == {"idle", "open", "hold_maintenance", "hold_damped", "route", "resolve",
           "page", "reconcile_one", "release_one", "release_page", "release_check",
           "escalate_one", "escalate_page", "renotify_one"}

Jobs == [reason : Reasons, damper : {"apply", "skip"}, read : States,
         todo : SUBSET Channels, level : 0..Len(Ladder), round : 0..RepeatCount,
         policy : BOOLEAN, recorded : BOOLEAN, before : Nat,
         next : {"idle", "release_check"}]

IncType == [state : States, gen : 0..MaxReopens, policy : BOOLEAN,
            level : 0..Len(Ladder), round : 0..RepeatCount, timer : BOOLEAN,
            old : BOOLEAN]

TargetType == [enabled : BOOLEAN, held : BOOLEAN, window : BOOLEAN, policy : BOOLEAN]

LeftType == [env : 0..MaxEnv, faults : 0..MaxFaults, repeats : 0..MaxRepeats,
             reminders : 0..MaxReminders]

TypeOK ==
    /\ inc \in IncType
    /\ rows \in Seq(Rows)
    /\ sigs \in Seq({"opened", "reopened", "resolved"})
    /\ Len(sigs) <= SignalCap
    /\ lock \in Procs \cup {NoProc}
    /\ pc \in [Procs -> Points]
    /\ job \in [Procs -> Jobs]
    /\ target \in TargetType
    /\ on \in [Channels -> Switch]
    /\ left \in LeftType

\* A channel is paged for an open at most once per paging episode: between two
\* opened/reopened rows of one channel there is an all-clear.  This is what the
\* page lock and open_episode_active are for (episode.rs: "a concurrent signal
\* task + sweep (reconcile) task could both open the same episode").
OnePagePerEpisode ==
    \A i, j \in DOMAIN rows :
        /\ i < j /\ rows[i].chan \in Channels /\ rows[i].chan = rows[j].chan
        /\ {rows[i].reason, rows[j].reason} \subseteq {"opened", "reopened"}
        => \E k \in (i + 1)..(j - 1) : rows[k].reason = "resolved"

\* An all-clear or a reminder goes only to a channel that was told of the
\* outage and has not had the all-clear since, however often and in whatever
\* order resolves, reopens, reminders and ladder steps run (notify_resolution,
\* renotify_one).
AllClearAnswersAPage ==
    \A j \in DOMAIN rows :
        rows[j].chan \in Channels /\ rows[j].reason \in {"resolved", "reminder"} =>
        \E i \in 1..(j - 1) :
            /\ rows[i].chan = rows[j].chan
            /\ rows[i].reason \in OpenReasons
            /\ \A k \in i..(j - 1) :
                   rows[k].chan = rows[j].chan => rows[k].reason # "resolved"

\* One release per hold: between two `released' markers somebody was held
\* again.  Otherwise the release scan would repeat "every tick forever".
HoldReleasedOnce ==
    \A i, j \in DOMAIN rows :
        i < j /\ rows[i].chan = "released" /\ rows[j].chan = "released"
        => \E k \in i..j : rows[k].chan \in HoldMarkers

\* An armed escalation timer means an unacknowledged open incident: an ack or
\* a resolve landing while a page is under way is not overwritten by the
\* begin_escalation or record_escalation that follows the page.
TimerOnlyTriggered == inc.timer => inc.state = "triggered"

\* A rung is left behind only when all of it was paged: a page at a rung above
\* the first comes after a page of every channel of the rung below, except those
\* that were ever switched off (next_step, escalate_one, record_escalation).  The
\* page below may be of an earlier episode of the incident: the claim of
\* escalate_one outlives a resolve and a reopen, and the rung it then pages and
\* records makes the new episode skip those under it.
RungsInOrder ==
    \A j \in DOMAIN rows : rows[j].reason \in OpenReasons /\ rows[j].lvl > 1 =>
        \A c \in Ladder[rows[j].lvl - 1] : on[c] = "on" =>
            \E i \in 1..(j - 1) :
                /\ rows[i].chan = c /\ rows[i].lvl = rows[j].lvl - 1
                /\ rows[i].reason \in OpenReasons

\* Somebody was paged, or found unreachable, in this episode of the incident.
Announced ==
    \E i \in DOMAIN rows :
        /\ rows[i].gen = inc.gen
        /\ rows[i].chan \in Channels \cup {"unreachable"}
        /\ rows[i].reason \in OpenReasons

\* An incident that opened is paged, held or bound to its policy, even if the
\* signal was dropped or the process restarted: the reconcile scan finds it, for
\* as long as it started within reconcile_window_secs.  Past that age nothing
\* looks for it any more (reconcile: "Bounded on both sides").
LostOpenRecovered ==
    (inc.state = "triggered" /\ inc.gen = 0)
        ~> (inc.state # "triggered" \/ rows # <<>> \/ inc.policy \/ inc.old)

\* A held alert is paged while its incident stays open.
HeldIsPaged ==
    (inc.state = "triggered" /\ \E k \in HoldMarkers : newest_is_hold(rows, k))
        ~> (inc.state # "triggered" \/ target.window \/ target.held \/ ~target.enabled
            \/ (rows # <<>> /\ rows[Len(rows)].chan \in Channels \cup {"unreachable"}))

\* No call has failed and the process has not restarted.
Unharmed == left.faults = MaxFaults

\* While nothing fails, a pending Resolved signal brings the all-clear to every channel paged before
\* it is handled, whatever signals overtake it.
ResolvedSignalClears ==
    \A c \in Channels :
        ((\E i \in DOMAIN sigs : sigs[i] = "resolved") /\ c \in resolvable_channels(rows))
            ~> (c \notin resolvable_channels(rows) \/ ~Unharmed)

\* A reopened incident is announced again.
ReopenIsPaged ==
    (inc.state = "triggered" /\ inc.gen > 0) ~> (inc.state # "triggered" \/ Announced)

\* Every channel of the last rung was paged once for each round of the ladder.
RungsPaged ==
    \/ inc.state # "triggered" \/ target.window
    \/ \A c \in Ladder[Len(Ladder)] :
          Cardinality({i \in DOMAIN rows :
              /\ rows[i].chan = c /\ rows[i].lvl = Len(Ladder)
              /\ rows[i].reason \in OpenReasons}) > RepeatCount

\* While nothing fails, an unacknowledged incident under a policy has every rung
\* paged in every round: the walk comes to the last rung of the last repeat
\* (next_step, escalate_one, record_escalation).
LadderWalked ==
    (inc.state = "triggered" /\ Announced /\ target.policy) ~> (RungsPaged \/ ~Unharmed)

\* The same when a call fails or the process restarts on the way.
LadderSurvivesFault ==
    (inc.state = "triggered" /\ Announced /\ target.policy) ~> RungsPaged

=============================================================================
