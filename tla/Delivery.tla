------------------------------ MODULE Delivery ------------------------------
(***************************************************************************)
(* Delivery of notification rows to one channel (engine/sweep.rs,          *)
(* deliver.rs): a page records a queued row, sends, and marks the outcome; *)
(* the retry sweep picks up rows that are queued or failed and due,        *)
(* re-reads the incident and the channel, and sends and marks again.  The  *)
(* page runs on a signal's task and the retries on the sweep's, with no    *)
(* lock between them.                                                      *)
(*                                                                         *)
(* Which rows a page records is Paging's subject; here a page records a    *)
(* row for any reason, whatever the incident's state has become: nothing   *)
(* on the way from the signal to the first send looks at it again.         *)
(***************************************************************************)
EXTENDS Integers, Sequences

CONSTANTS
    MaxAttempts,  \* cfg.max_attempts
    MaxRows,      \* bound on the rows recorded
    MaxOps,       \* bound on what operators do to the incident
    MaxEdits,     \* bound on edits of the channel
    MaxFaults     \* bound on failed store calls and restarts

ASSUME DeliveryAssumption ==
    /\ MaxAttempts \in Nat \ {0}
    /\ {MaxRows, MaxOps, MaxEdits, MaxFaults} \subseteq Nat

VARIABLES
    incident,  \* the incident's state
    channel,   \* the channel: on, off, deleted or an email not verified yet
    rows,      \* incident_notifications, oldest first
    jobs,      \* jobs[0] is the page under way, jobs[i] the retry of row i
    health,    \* consecutive_failures of the channel
    history,   \* per row: sends made, how many of them came too late
    left       \* what the bounds still allow

vars == <<incident, channel, rows, jobs, health, history, left>>

IncidentStates == {"triggered", "acknowledged", "resolved"}
ChannelStates == {"on", "off", "gone", "unverified"}
Reasons == {"opened", "reminder", "resolved"}
Outcomes == {"sent", "failed", "suppressed"}

RowIds == 1..MaxRows
JobIds == 0..MaxRows

NoJob == [at |-> "idle", row |-> 0, attempt |-> 0, outcome |-> "failed"]

-----------------------------------------------------------------------------
(* Rules.                                                                  *)

reason_is_stale(reason, state) ==
    CASE reason = "opened"   -> state = "resolved"
      [] reason = "reminder" -> state # "triggered"
      [] reason = "resolved" -> state # "resolved"

\* retry_backoff: there is a next attempt, or the row is dead-lettered.
retry_delay(attempt) == attempt < MaxAttempts

\* Mutant: only rows that were marked failed are picked up.
pending_failed(i) ==
    /\ rows[i].status = "failed"
    /\ rows[i].attempt < MaxAttempts
    /\ rows[i].next # "wait"

\* Mutant: the cap is off by one.
pending_at_cap(i) ==
    /\ rows[i].status \in {"queued", "failed"}
    /\ rows[i].attempt <= MaxAttempts
    /\ rows[i].next # "wait"

pending_notifications(i) ==
    /\ rows[i].status \in {"queued", "failed"}
    /\ rows[i].attempt < MaxAttempts
    /\ rows[i].next # "wait"

\* Mutant: every failure is taken for the last.
mark_permanent(i, attempt, outcome) ==
    rows' = [rows EXCEPT ![i].status = outcome,
                         ![i].attempt = IF outcome = "failed" THEN MaxAttempts ELSE attempt,
                         ![i].next = "null"]

\* The outcome overwrites whatever the row says.
mark_notification(i, attempt, outcome) ==
    rows' = [rows EXCEPT ![i].status = outcome,
                         ![i].attempt = attempt,
                         ![i].next = IF outcome = "failed" /\ retry_delay(attempt)
                                     THEN "wait" ELSE "null"]

Idle(j) == jobs[j].at = "idle"

-----------------------------------------------------------------------------
(* A page and its retries.                                                 *)

\* page_channels for this channel: a channel that is off or deleted is passed
\* over, one that awaits verification fails without a send.  The reason is not
\* checked against the incident.
Page ==
    /\ Idle(0)
    /\ Len(rows) < MaxRows
    /\ channel \in {"on", "unverified"}
    /\ \E reason \in Reasons :
          rows' = Append(rows, [reason |-> reason, status |-> "queued",
                                attempt |-> 1, next |-> "null"])
    /\ history' = Append(history, [sends |-> 0, late |-> 0])
    /\ jobs' = [jobs EXCEPT ![0] =
                   [at |-> IF channel = "on" THEN "send" ELSE "mark",
                    row |-> Len(rows) + 1, attempt |-> 1, outcome |-> "failed"]]
    /\ UNCHANGED <<incident, channel, health, left>>

\* retry_pending: the rows due now are read, with their attempts, and retried
\* side by side.
RetryPending ==
    /\ \A i \in RowIds : Idle(i)
    /\ \E i \in DOMAIN rows : pending_notifications(i)
    /\ jobs' = [j \in JobIds |->
                   IF j \in DOMAIN rows /\ pending_notifications(j)
                   THEN [at |-> "read", row |-> j, attempt |-> rows[j].attempt + 1,
                         outcome |-> "failed"]
                   ELSE jobs[j]]
    /\ UNCHANGED <<incident, channel, rows, health, history, left>>

\* Mutant: the reason is not checked against the incident again.
retry_unchecked(i) ==
    /\ jobs[i].at = "read"
    /\ jobs' = [jobs EXCEPT ![i].at = CASE channel = "on" -> "send" [] OTHER -> "mark",
                            ![i].outcome = CASE channel = "off" -> "suppressed"
                                             [] OTHER -> "failed"]
    /\ UNCHANGED <<incident, channel, rows, health, history, left>>

\* retry_one up to the send: a deleted channel burns the attempt, a channel that
\* is off or a reason that no longer fits the incident is terminal.
RetryOne(i) ==
    /\ jobs[i].at = "read"
    /\ LET stale == reason_is_stale(rows[i].reason, incident)
       IN  \/ /\ channel \in {"gone", "unverified"}
              /\ channel = "gone" \/ ~stale
              /\ jobs' = [jobs EXCEPT ![i].at = "mark"]
           \/ /\ channel # "gone"
              /\ channel = "off" \/ stale
              /\ jobs' = [jobs EXCEPT ![i].at = "mark", ![i].outcome = "suppressed"]
           \/ /\ channel = "on" /\ ~stale
              /\ jobs' = [jobs EXCEPT ![i].at = "send"]
    /\ UNCHANGED <<incident, channel, rows, health, history, left>>

\* Mutant: a send that fails is repeated at once.
deliver_twice(j) ==
    /\ jobs[j].at = "send"
    /\ \E ok \in BOOLEAN :
          /\ jobs' = [jobs EXCEPT ![j].at = "health",
                                  ![j].outcome = IF ok THEN "sent" ELSE "failed"]
          /\ history' = [history EXCEPT ![jobs[j].row].sends = IF ok THEN @ + 1 ELSE @ + 2]
    /\ UNCHANGED <<incident, channel, rows, health, left>>

\* deliver: the provider reports success or not.  Whether the reason still fits the
\* incident is not looked at again.
Deliver(j) ==
    /\ jobs[j].at = "send"
    /\ \E ok \in BOOLEAN :
          /\ jobs' = [jobs EXCEPT ![j].at = "health",
                                  ![j].outcome = IF ok THEN "sent" ELSE "failed"]
          /\ history' = [history EXCEPT ![jobs[j].row] =
                 [sends |-> @.sends + 1,
                  late |-> IF reason_is_stale(rows[jobs[j].row].reason, incident)
                           THEN @.late + 1 ELSE @.late]]
    /\ UNCHANGED <<incident, channel, rows, health, left>>

\* record_channel_health: a delivery ends the channel's run of failures, a page
\* that is out of attempts extends it.  A failed write is only logged.
RecordChannelHealth(j) ==
    /\ jobs[j].at = "health"
    /\ jobs' = [jobs EXCEPT ![j].at = "mark"]
    /\ \/ /\ health' = CASE channel = "gone"            -> health
                         [] jobs[j].outcome = "sent"    -> 0
                         [] retry_delay(jobs[j].attempt) -> health
                         [] OTHER                       -> health + 1
          /\ UNCHANGED left
       \/ /\ left.faults > 0
          /\ left' = [left EXCEPT !.faults = @ - 1]
          /\ UNCHANGED health
    /\ UNCHANGED <<incident, channel, rows, history>>

Mark(j) ==
    /\ jobs[j].at = "mark"
    /\ mark_notification(jobs[j].row, jobs[j].attempt, jobs[j].outcome)
    /\ jobs' = [jobs EXCEPT ![j] = NoJob]
    /\ UNCHANGED <<incident, channel, health, history, left>>

\* The backoff of a row has passed.
Elapse(i) ==
    /\ rows[i].next = "wait"
    /\ rows' = [rows EXCEPT ![i].next = "due"]
    /\ UNCHANGED <<incident, channel, jobs, health, history, left>>

-----------------------------------------------------------------------------
(* Failures, operators and edits.                                          *)

\* A store call of one job fails, or the process restarts.
Fault ==
    /\ left.faults > 0
    /\ left' = [left EXCEPT !.faults = @ - 1]
    /\ \/ \E j \in JobIds : ~Idle(j) /\ jobs' = [jobs EXCEPT ![j] = NoJob]
       \/ jobs' = [j \in JobIds |-> NoJob]
    /\ UNCHANGED <<incident, channel, rows, health, history>>

\* acknowledge, resolve and reopen.
Operate ==
    /\ left.ops > 0
    /\ left' = [left EXCEPT !.ops = @ - 1]
    /\ \/ incident = "triggered" /\ incident' = "acknowledged"
       \/ incident # "resolved" /\ incident' = "resolved"
       \/ incident = "resolved" /\ incident' = "triggered"
    /\ UNCHANGED <<channel, rows, jobs, health, history>>

\* The channel is switched, verified, given another address or deleted; switching
\* it on again clears its run of failures.
Edit ==
    /\ left.edits > 0
    /\ left' = [left EXCEPT !.edits = @ - 1]
    /\ channel # "gone"
    /\ channel' \in ChannelStates \ {channel}
    /\ health' = IF channel = "off" /\ channel' # "gone" THEN 0 ELSE health
    /\ UNCHANGED <<incident, rows, jobs, history>>

-----------------------------------------------------------------------------
Init ==
    /\ incident = "triggered"
    /\ channel \in {"on", "unverified"}
    /\ rows = <<>>
    /\ jobs = [j \in JobIds |-> NoJob]
    /\ health = 0
    /\ history = <<>>
    /\ left = [ops |-> MaxOps, edits |-> MaxEdits, faults |-> MaxFaults]

Step(j) == Deliver(j) \/ RecordChannelHealth(j) \/ Mark(j)

Next ==
    \/ Page \/ RetryPending
    \/ \E i \in RowIds : RetryOne(i)
    \/ \E j \in JobIds : Step(j)
    \/ \E i \in DOMAIN rows : Elapse(i)
    \/ Fault \/ Operate \/ Edit

Spec == Init /\ [][Next]_vars

\* The sweep runs for ever, a send ends (requests time out), a store call returns
\* and backoffs pass.
FairSpec ==
    /\ Spec
    /\ WF_vars(RetryPending)
    /\ \A i \in RowIds :
          WF_vars(RetryOne(i)) /\ WF_vars(i \in DOMAIN rows /\ Elapse(i))
    /\ \A j \in JobIds : WF_vars(Step(j))

-----------------------------------------------------------------------------
(* Properties.                                                             *)

RowType == [reason : Reasons, status : Outcomes \cup {"queued"}, attempt : 1..MaxAttempts,
            next : {"null", "wait", "due"}]

JobType == [at : {"idle", "read", "send", "health", "mark"}, row : 0..MaxRows,
            attempt : 0..MaxAttempts, outcome : Outcomes]

\* The attempt of a row and of a job never passes the cap.
TypeOK ==
    /\ incident \in IncidentStates
    /\ channel \in ChannelStates
    /\ rows \in Seq(RowType)
    /\ jobs \in [JobIds -> JobType]
    /\ health \in Nat
    /\ history \in Seq([sends : Nat, late : Nat])
    /\ left \in [ops : 0..MaxOps, edits : 0..MaxEdits, faults : 0..MaxFaults]

\* A row is sent a bounded number of times although a page still sending may
\* overwrite the attempt the retries have reached: they can be walked once more,
\* and each failure in the middle costs at most one more send.
SendsBounded ==
    \A i \in DOMAIN rows :
        history[i].sends <= 2 * MaxAttempts - 1 + (MaxFaults - left.faults)

\* A page to a channel that stayed on is given up only after as many sends as the
\* cap allows, less the one a failure may have swallowed.
GivesUpLate ==
    channel = "on" /\ left.edits = MaxEdits =>
        \A i \in DOMAIN rows :
            rows[i].status = "failed" /\ rows[i].attempt = MaxAttempts =>
                history[i].sends >= MaxAttempts - 1

\* A notice that no longer fits the incident (an outage notice after the all-clear, a
\* reminder after the ack) leaves at most once from the page itself, which does not
\* check, and then at most once per change of the incident: from the one retry that
\* was past its own check at the change, never from the retries still to come.
StaleSendsBounded ==
    \A i \in DOMAIN rows : history[i].late <= 1 + (MaxOps - left.ops)

Settled(i) ==
    \/ rows[i].status \in {"sent", "suppressed"}
    \/ rows[i].status = "failed" /\ rows[i].attempt = MaxAttempts

\* Every recorded page is delivered, suppressed or dead-lettered in the end, also
\* when the process restarts between its record and its outcome.
EverySettled == \A i \in RowIds : <>[](i \in DOMAIN rows => Settled(i))
=============================================================================
