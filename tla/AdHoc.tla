------------------------------- MODULE AdHoc --------------------------------
(***************************************************************************)
(* Interactive checks of one region (ad_hoc_dispatch.rs): a request (test, *)
(* check-now, or the first check of a new monitor, which nobody waits for) *)
(* queues a check; agents of the region, and the in-process executor, hold *)
(* long-polls that take checks off the queue, run them one after the other *)
(* and report each result, which answers the request and, for a check-now, *)
(* is stored.                                                              *)
(*                                                                         *)
(* What happens under the queue's mutex is one step; the steps between     *)
(* taking that mutex and sleeping on the Notify are separate, because      *)
(* claims and dispatches run on several threads.  The Notify is tokio's:   *)
(* notify_one wakes the longest waiter or else leaves one permit, and a    *)
(* woken waiter that is dropped passes its wake-up on.                     *)
(***************************************************************************)
EXTENDS Integers, Sequences, SequencesExt

CONSTANTS
    Agents,     \* who claims checks of this region
    Local,      \* those of them that are the in-process executor
    Tests,      \* checks of a test request
    CheckNows,  \* checks of a check-now request
    Firsts,     \* first checks of new monitors, a check-now nobody waits for
    MaxQueue,   \* MAX_QUEUE
    Limit,      \* DISPATCH_CLAIM_LIMIT
    MaxFaults   \* bound on lost requests and answers, crashes, failed writes

ASSUME AdHocAssumption ==
    /\ Local \subseteq Agents
    /\ Tests \cap CheckNows = {} /\ Tests \cap Firsts = {} /\ CheckNows \cap Firsts = {}
    /\ MaxFaults \in Nat
    /\ {MaxQueue, Limit} \subseteq Nat \ {0}

VARIABLES
    req,      \* where the request of each check is
    pending,  \* the waiter registered under a check: waiting, or its sender taken
    queue,    \* queued checks, oldest first
    permit,   \* the Notify holds a permit
    waiters,  \* claims asleep on the Notify, longest first
    agent,    \* where each claimer is and the checks it has taken
    stored,   \* per check, how often its result was stored
    past,     \* checks evicted or expired; whether a claim left some behind
    faults    \* faults still allowed

vars == <<req, pending, queue, permit, waiters, agent, stored, past, faults>>

Ids == Tests \cup CheckNows \cup Firsts

\* Where a claim is while it counts as a holder of the region.
Holding == {"look", "sleep", "wait", "woken"}

region_live == \E a \in Agents : agent[a].at \in Holding

Idle == [at |-> "away", batch |-> <<>>]

-----------------------------------------------------------------------------
(* Requests.                                                               *)

\* run_ad_hoc and dispatch_first_check look for a holder first; then the
\* variables of the check are resolved.
Request(id) ==
    /\ req[id] = "unused"
    /\ req' = [req EXCEPT ![id] = IF region_live THEN "resolve" ELSE "failed"]
    /\ UNCHANGED <<pending, queue, permit, waiters, agent, stored, past, faults>>

\* Mutant: the cap is not applied.
dispatch_uncapped(id) ==
    /\ req[id] = "resolve"
    /\ req' = [req EXCEPT ![id] = "notify"]
    /\ pending' = [pending EXCEPT ![id] = "waiting"]
    /\ queue' = Append(queue, id)
    /\ UNCHANGED <<permit, waiters, agent, stored, past, faults>>

\* dispatch up to the end of the queue's critical section: at the cap the oldest
\* check is evicted and its waiter with it.
Dispatch(id) ==
    /\ req[id] = "resolve"
    /\ req' = [req EXCEPT ![id] = "notify"]
    /\ LET full == Len(queue) >= MaxQueue
           out == IF full THEN {Head(queue)} ELSE {}
       IN  /\ queue' = Append(IF full THEN Tail(queue) ELSE queue, id)
           /\ pending' = [k \in Ids |-> IF k = id THEN "waiting"
                                        ELSE IF k \in out THEN "none" ELSE pending[k]]
           /\ past' = [past EXCEPT !.dropped = @ \cup out]
    /\ UNCHANGED <<permit, waiters, agent, stored, faults>>

\* What notify_one does, given where the claimers are now.
NotifyOne(ag, ws) ==
    /\ permit' = (permit \/ ws = <<>>)
    /\ waiters' = IF ws = <<>> THEN ws ELSE Tail(ws)
    /\ agent' = IF ws = <<>> THEN ag ELSE [ag EXCEPT ![Head(ws)].at = "woken"]

\* Mutant: only claims already asleep are woken, and no permit is kept.
notify_waiters(id) ==
    /\ req[id] = "notify"
    /\ req' = [req EXCEPT ![id] = IF id \in Firsts THEN "left" ELSE "wait"]
    /\ waiters' = <<>>
    /\ agent' = [a \in Agents |-> IF a \in ToSet(waiters)
                                  THEN [agent[a] EXCEPT !.at = "woken"] ELSE agent[a]]
    /\ UNCHANGED <<permit, pending, queue, stored, past, faults>>

\* The end of dispatch; the request now waits, except for a first check.
Notify(id) ==
    /\ req[id] = "notify"
    /\ req' = [req EXCEPT ![id] = IF id \in Firsts THEN "left" ELSE "wait"]
    /\ NotifyOne(agent, waiters)
    /\ UNCHANGED <<pending, queue, stored, past, faults>>

\* RESULT_WAIT is over (abandon keeps the meta), or the sender is gone.
GiveUp(id) ==
    /\ req[id] = "wait"
    /\ req' = [req EXCEPT ![id] = "failed"]
    /\ pending' = [pending EXCEPT ![id] = IF @ = "waiting" THEN "silent" ELSE @]
    /\ UNCHANGED <<queue, permit, waiters, agent, stored, past, faults>>

\* PENDING_TTL is over; it outlives RESULT_WAIT.
Expire(id) ==
    /\ pending[id] # "none"
    /\ req[id] \in {"failed", "left"}
    /\ pending' = [pending EXCEPT ![id] = "none"]
    /\ past' = [past EXCEPT !.dropped = @ \cup {id}]
    /\ UNCHANGED <<req, queue, permit, waiters, agent, stored, faults>>

-----------------------------------------------------------------------------
(* Claims.                                                                 *)

Claim(a) ==
    /\ agent[a].at = "away"
    /\ agent' = [agent EXCEPT ![a].at = "look"]
    /\ UNCHANGED <<req, pending, queue, permit, waiters, stored, past, faults>>

\* The queue's critical section in claim.
TakeChecks(a) ==
    /\ agent[a].at = "look"
    /\ LET n == IF Len(queue) < Limit THEN Len(queue) ELSE Limit
       IN  /\ agent' = [agent EXCEPT ![a] =
                           [at |-> IF n = 0 THEN "sleep" ELSE "run",
                            batch |-> SubSeq(queue, 1, n)]]
           /\ queue' = SubSeq(queue, n + 1, Len(queue))
    /\ past' = [past EXCEPT !.behind = queue' # <<>>]
    /\ UNCHANGED <<req, pending, permit, waiters, stored, faults>>

\* The first poll of notified.
Sleep(a) ==
    /\ agent[a].at = "sleep"
    /\ permit' = FALSE
    /\ waiters' = IF permit THEN waiters ELSE Append(waiters, a)
    /\ agent' = [agent EXCEPT ![a].at = IF permit THEN "look" ELSE "wait"]
    /\ UNCHANGED <<req, pending, queue, stored, past, faults>>

Wake(a) ==
    /\ agent[a].at = "woken"
    /\ agent' = [agent EXCEPT ![a].at = "look"]
    /\ UNCHANGED <<req, pending, queue, permit, waiters, stored, past, faults>>

\* HOLD is over, the agent hung up or the server shuts down: the claim returns
\* empty.  A wake-up it had already received goes to the next one.
HoldOver(a) ==
    /\ agent[a].at \in {"sleep", "wait", "woken"}
    /\ LET gone == [agent EXCEPT ![a] = Idle]
           rest == RemoveFirst(waiters, a)
       IN  IF agent[a].at = "woken" THEN NotifyOne(gone, rest)
           ELSE agent' = gone /\ waiters' = rest /\ UNCHANGED permit
    /\ UNCHANGED <<req, pending, queue, stored, past, faults>>

-----------------------------------------------------------------------------
(* Running and reporting.                                                  *)

\* The claimer goes on with its batch, or back to polling after the last check.
GoOn(a) ==
    agent' = [agent EXCEPT ![a] =
                 IF Len(@.batch) = 1 THEN Idle ELSE [at |-> "run", batch |-> Tail(@.batch)]]

\* complete: the entry is removed and an answer sent if someone still listens.
complete(id) ==
    /\ pending' = [pending EXCEPT ![id] = "none"]
    /\ req' = [req EXCEPT ![id] =
                  IF @ = "wait" /\ pending[id] = "waiting" THEN "answered" ELSE @]

\* Mutant: a result is stored only if somebody was waiting for it.
stored_if_awaited(a, id) ==
    /\ pending[id] = "waiting"
    /\ id \notin Tests

\* The agent's report is stored under the meta that complete returned; the
\* in-process executor stores what it ran.
Stores(a, id) ==
    /\ a \in Local \/ pending[id] # "none"
    /\ id \notin Tests

\* The first check of the batch has been run and its report has arrived
\* (submit_dispatch_result, run_local_executor).  Running a check takes longer
\* than the notify_one that follows its push.
Report(a) ==
    /\ agent[a].at = "run"
    /\ LET id == Head(agent[a].batch)
       IN  /\ req[id] # "notify"
           /\ complete(id)
           /\ IF Stores(a, id) THEN agent' = [agent EXCEPT ![a].at = "store"] ELSE GoOn(a)
    /\ UNCHANGED <<queue, permit, waiters, stored, past, faults>>

Store(a) ==
    /\ agent[a].at = "store"
    /\ stored' = [stored EXCEPT ![Head(agent[a].batch)] = @ + 1]
    /\ GoOn(a)
    /\ UNCHANGED <<req, pending, queue, permit, waiters, past, faults>>

\* The answer to a claim or a report is lost, a report does not arrive, the agent
\* restarts, or a write fails: an agent drops the rest of its batch.  The
\* in-process executor, whose writes alone can fail, goes on.
Fault(a) ==
    /\ faults > 0
    /\ faults' = faults - 1
    /\ \/ /\ a \notin Local
          /\ agent[a].at \in {"run", "store"}
          /\ agent' = [agent EXCEPT ![a] = Idle]
          /\ \/ UNCHANGED stored
             \/ /\ agent[a].at = "store"
                /\ stored' = [stored EXCEPT ![Head(agent[a].batch)] = @ + 1]
       \/ /\ a \in Local
          /\ agent[a].at = "store"
          /\ GoOn(a)
          /\ UNCHANGED stored
    /\ UNCHANGED <<req, pending, queue, permit, waiters, past>>

-----------------------------------------------------------------------------
Init ==
    /\ req = [id \in Ids |-> "unused"]
    /\ pending = [id \in Ids |-> "none"]
    /\ queue = <<>>
    /\ permit = FALSE
    /\ waiters = <<>>
    /\ agent = [a \in Agents |-> Idle]
    /\ stored = [id \in Ids |-> 0]
    /\ past = [dropped |-> {}, behind |-> FALSE]
    /\ faults = MaxFaults

Serve(a) == Claim(a) \/ TakeChecks(a) \/ Sleep(a) \/ Wake(a) \/ Report(a) \/ Store(a)

Next ==
    \/ \E id \in Ids : Request(id) \/ Dispatch(id) \/ Notify(id) \/ GiveUp(id) \/ Expire(id)
    \/ \E a \in Agents : Serve(a) \/ HoldOver(a) \/ Fault(a)

Spec == Init /\ [][Next]_vars

\* Requests and claimers are running tasks; a check ends (probes time out) and a
\* claim that sleeps returns after HOLD.
FairSpec ==
    /\ Spec
    /\ \A id \in Ids : WF_vars(Dispatch(id)) /\ WF_vars(Notify(id))
    /\ \A a \in Agents : WF_vars(Serve(a)) /\ WF_vars(HoldOver(a))

-----------------------------------------------------------------------------
(* Properties.                                                             *)

\* The queue of a region stays within its cap.
TypeOK ==
    /\ req \in [Ids -> {"unused", "resolve", "notify", "wait", "left", "answered", "failed"}]
    /\ pending \in [Ids -> {"none", "waiting", "silent"}]
    /\ queue \in Seq(Ids) /\ Len(queue) <= MaxQueue
    /\ permit \in BOOLEAN
    /\ waiters \in Seq(Agents)
    /\ agent \in [Agents -> [at : Holding \cup {"away", "run", "store"}, batch : Seq(Ids)]]
    /\ stored \in [Ids -> 0..1]
    /\ past \in [dropped : SUBSET Ids, behind : BOOLEAN]
    /\ faults \in 0..MaxFaults

\* No claim sleeps over a queued check: while one is asleep and the queue is not
\* empty, a wake-up is on its way or a claimer is about to look (claim checks the
\* queue before it polls the Notify, and several agents may hold the region).
\* The exception is a claim that could not take everything it found.
NoSleepOverWork ==
    waiters # <<>> /\ queue # <<>> =>
        \/ permit \/ past.behind
        \/ \E id \in Ids : req[id] = "notify"
        \/ \E a \in Agents : agent[a].at \in {"look", "woken"}

\* While nothing fails, every check-now that was dispatched is stored, also when
\* its request has given up or nobody ever waited, unless it was evicted or its
\* entry expired before the report.
CheckNowLands ==
    \A id \in Ids :
        (id \notin Tests /\ req[id] = "notify")
            ~> (stored[id] = 1 \/ id \in past.dropped \/ faults < MaxFaults)
=============================================================================
