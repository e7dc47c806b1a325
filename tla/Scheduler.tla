----------------------------- MODULE Scheduler ------------------------------
(***************************************************************************)
(* The scheduler (src/scheduler): a refresher task lists the enabled       *)
(* targets, merges the list into the registry and sends the difference     *)
(* through a bounded channel; the driver task applies differences to its   *)
(* live map and heap, and probes what is due.  The list comes from the     *)
(* database, or, on a regional agent, from the control plane               *)
(* (AgentPullSource in src/agent/mod.rs), whose failures are answered from *)
(* the last list and whose rejection empties it.                           *)
(*                                                                         *)
(* Times are abstracted to whether a heap entry is due.  A target's        *)
(* configuration is a version (updated_at and interval); 0 is absent.      *)
(***************************************************************************)
EXTENDS Integers, Sequences, FiniteSets

CONSTANTS
    NumTargets,
    DiffBound,    \* REFRESH_CHANNEL_BOUND
    Agent,        \* whether the source is the agent's pull
    MaxChanges,   \* bound on edits of the targets and of the agent's credential
    MaxFaults     \* bound on failed listings

Targets == 1..NumTargets
Versions == 0..MaxChanges

ASSUME SchedulerAssumption ==
    /\ {NumTargets, MaxChanges, MaxFaults} \subseteq Nat
    /\ DiffBound \in Nat \ {0}
    /\ Agent \in BOOLEAN

VARIABLES
    enabled,    \* what the control plane's database holds
    revoked,    \* whether the agent's credential is rejected
    cache,      \* the agent's last list: etag set or not, and the targets
    refresher,  \* where the refresher is, what it listed, the diff it sends
    registry,   \* the targets both tasks share
    chan,       \* diffs on their way to the driver
    driver,     \* run, join (shutting down) or done
    live,       \* per target its current generation (0: none)
    heap,       \* entries, older generations included
    next_seq,
    beat,       \* flips with every probe dispatched
    shutdown,   \* the cancellation token
    left        \* what the bounds still allow

vars == <<enabled, revoked, cache, refresher, registry, chan, driver, live, heap,
          next_seq, beat, shutdown, left>>

Nothing == [t \in Targets |-> 0]
NoDiff == [scheduled |-> {}, removed |-> {}]
IdleRefresher == [at |-> "idle", list |-> Nothing, diff |-> NoDiff]

-----------------------------------------------------------------------------
(* The refresher.                                                          *)

\* The diff of a fresh list against the registry.  Added and updated targets are
\* treated alike by the driver.
DiffOf(list) ==
    [scheduled |-> {t \in Targets : list[t] # 0 /\ list[t] # registry[t]},
     removed   |-> {t \in Targets : list[t] = 0 /\ registry[t] # 0}]

\* Mutant: a rejected credential is treated like any other failure.
list_keeps_config ==
    /\ refresher.at = "idle" /\ ~shutdown
    /\ Agent /\ revoked
    /\ cache.etag
    /\ refresher' = [refresher EXCEPT !.at = "listed", !.list = cache.list]
    /\ UNCHANGED cache

\* 401 or 403: forget the configuration and schedule nothing.
ListRejected ==
    /\ refresher.at = "idle" /\ ~shutdown
    /\ Agent /\ revoked
    /\ cache' = [etag |-> FALSE, list |-> Nothing]
    /\ refresher' = [refresher EXCEPT !.at = "listed", !.list = Nothing]

\* The targets of now, from the database or in the agent's response (for a 304
\* the cached list is that list).
ListOk ==
    /\ refresher.at = "idle" /\ ~shutdown
    /\ ~(Agent /\ revoked)
    /\ refresher' = [refresher EXCEPT !.at = "listed", !.list = enabled]
    /\ cache' = IF Agent THEN [etag |-> TRUE, list |-> enabled] ELSE cache

\* The listing fails: an agent that has a list serves it, otherwise the refresh
\* fails and is tried again after the backoff.
ListFailed ==
    /\ refresher.at = "idle" /\ ~shutdown
    /\ left.faults > 0
    /\ Agent /\ cache.etag
    /\ refresher' = [refresher EXCEPT !.at = "listed", !.list = cache.list]
    /\ UNCHANGED cache

List ==
    /\ \/ (ListRejected \/ ListOk) /\ UNCHANGED left
       \/ ListFailed /\ left' = [left EXCEPT !.faults = @ - 1]
    /\ UNCHANGED <<enabled, revoked, registry, chan, driver, live, heap, next_seq, beat,
                   shutdown>>

\* TargetRegistry::refresh after the list arrived.
Merge ==
    /\ refresher.at = "listed"
    /\ registry' = refresher.list
    /\ refresher' = [at |-> "send", list |-> Nothing, diff |-> DiffOf(refresher.list)]
    /\ UNCHANGED <<enabled, revoked, cache, chan, driver, live, heap, next_seq, beat,
                   shutdown, left>>

\* Mutant: a channel without bound.
send_unbounded ==
    /\ refresher.at = "send"
    /\ \/ /\ driver = "run"
          /\ chan' = Append(chan, refresher.diff)
          /\ refresher' = IdleRefresher
       \/ /\ driver # "run"
          /\ refresher' = [IdleRefresher EXCEPT !.at = "done"]
          /\ UNCHANGED chan
    /\ UNCHANGED <<enabled, revoked, cache, registry, driver, live, heap, next_seq, beat,
                   shutdown, left>>

\* Mutant: the driver keeps its end open while it waits for the refresher.
send_blocks ==
    /\ refresher.at = "send"
    /\ Len(chan) < DiffBound
    /\ chan' = Append(chan, refresher.diff)
    /\ refresher' = IdleRefresher
    /\ UNCHANGED <<enabled, revoked, cache, registry, driver, live, heap, next_seq, beat,
                   shutdown, left>>

\* diff_tx.send: waits for room, and fails once the driver dropped its end.
Send ==
    /\ refresher.at = "send"
    /\ \/ /\ driver = "run" /\ Len(chan) < DiffBound
          /\ chan' = Append(chan, refresher.diff)
          /\ refresher' = IdleRefresher
       \/ /\ driver # "run"
          /\ refresher' = [IdleRefresher EXCEPT !.at = "done"]
          /\ UNCHANGED chan
    /\ UNCHANGED <<enabled, revoked, cache, registry, driver, live, heap, next_seq, beat,
                   shutdown, left>>

\* The refresher sees the shutdown, between ticks or while it waits for a list.
RefresherStops ==
    /\ shutdown
    /\ refresher.at \in {"idle", "listed"}
    /\ refresher' = [IdleRefresher EXCEPT !.at = "done"]
    /\ UNCHANGED <<enabled, revoked, cache, registry, chan, driver, live, heap, next_seq,
                   beat, shutdown, left>>

-----------------------------------------------------------------------------
(* The driver.                                                             *)

Entry(t, seq, first) == [id |-> t, seq |-> seq, first |-> first, due |-> FALSE]

\* The generation a target of the diff gets: they are numbered one by one.
SeqOf(t, scheduled) == next_seq + Cardinality({u \in scheduled : u < t})

\* Mutant: an update keeps the target's generation, so its old entry stays live.
apply_same_seq ==
    /\ driver = "run" /\ chan # <<>>
    /\ LET diff == Head(chan)
           seq(t) == IF live[t] # 0 THEN live[t] ELSE SeqOf(t, diff.scheduled)
       IN  /\ live' = [t \in Targets |-> IF t \in diff.removed THEN 0
                                         ELSE IF t \in diff.scheduled THEN seq(t)
                                         ELSE live[t]]
           /\ heap' = heap \cup {Entry(t, seq(t), TRUE) : t \in diff.scheduled}
           /\ next_seq' = next_seq + Cardinality(diff.scheduled)
    /\ chan' = Tail(chan)
    /\ UNCHANGED <<enabled, revoked, cache, refresher, registry, driver, beat, shutdown,
                   left>>

\* apply_diff: a fresh generation for what is added or updated; what is removed
\* leaves the live map and its entries stay behind.
ApplyDiff ==
    /\ driver = "run" /\ chan # <<>>
    /\ LET diff == Head(chan)
       IN  /\ live' = [t \in Targets |-> IF t \in diff.removed THEN 0
                                         ELSE IF t \in diff.scheduled
                                         THEN SeqOf(t, diff.scheduled) ELSE live[t]]
           /\ heap' = heap \cup {Entry(t, SeqOf(t, diff.scheduled), TRUE) : t \in diff.scheduled}
           /\ next_seq' = next_seq + Cardinality(diff.scheduled)
    /\ chan' = Tail(chan)
    /\ UNCHANGED <<enabled, revoked, cache, refresher, registry, driver, beat, shutdown,
                   left>>

\* Mutant: the generation is not looked at.
drain_any(e) ==
    /\ driver = "run" /\ e.due
    /\ heap' = (heap \ {e}) \cup {Entry(e.id, e.seq, FALSE)}
    /\ beat' = [beat EXCEPT ![e.id] = ~@]
    /\ UNCHANGED <<enabled, revoked, cache, refresher, registry, chan, driver, live, next_seq,
                   shutdown, left>>

\* drain_due for one due entry: an entry of an older generation is dropped, one
\* whose target has left the registry ends its schedule, and otherwise the entry
\* is pushed again and the target's probe dispatched.
Drain(e) ==
    /\ driver = "run" /\ e.due
    /\ \/ /\ live[e.id] # e.seq
          /\ heap' = heap \ {e}
          /\ UNCHANGED <<live, beat>>
       \/ /\ live[e.id] = e.seq /\ registry[e.id] = 0
          /\ heap' = heap \ {e}
          /\ live' = [live EXCEPT ![e.id] = 0]
          /\ UNCHANGED beat
       \/ /\ live[e.id] = e.seq /\ registry[e.id] # 0
          /\ heap' = (heap \ {e}) \cup {Entry(e.id, e.seq, FALSE)}
          /\ beat' = [beat EXCEPT ![e.id] = ~@]
          /\ UNCHANGED live
    /\ UNCHANGED <<enabled, revoked, cache, refresher, registry, chan, driver, next_seq,
                   shutdown, left>>

\* The driver sees the shutdown, drops its end of the channel and waits for the
\* refresher.
DriverStops ==
    /\ \/ /\ driver = "run" /\ shutdown
          /\ driver' = "join"
       \/ /\ driver = "join" /\ refresher.at = "done"
          /\ driver' = "done"
    /\ UNCHANGED <<enabled, revoked, cache, refresher, registry, chan, live, heap, next_seq,
                   beat, shutdown, left>>

-----------------------------------------------------------------------------
(* The clock, the operators and the shutdown.                              *)

ComesDue(e) ==
    /\ ~e.due
    /\ heap' = (heap \ {e}) \cup {[e EXCEPT !.due = TRUE]}
    /\ UNCHANGED <<enabled, revoked, cache, refresher, registry, chan, driver, live, next_seq,
                   beat, shutdown, left>>

\* A target is created, edited, switched off or on (a new version each time it is
\* written), or the agent's credential is revoked or restored.
Change ==
    /\ left.changes > 0
    /\ left' = [left EXCEPT !.changes = @ - 1]
    /\ \/ /\ \E t \in Targets :
                enabled' \in {[enabled EXCEPT ![t] = MaxChanges + 1 - left.changes],
                              [enabled EXCEPT ![t] = 0]}
          /\ UNCHANGED revoked
       \/ /\ Agent
          /\ revoked' = ~revoked
          /\ UNCHANGED enabled
    /\ UNCHANGED <<cache, refresher, registry, chan, driver, live, heap, next_seq, beat,
                   shutdown>>

Cancel ==
    /\ ~shutdown
    /\ shutdown' = TRUE
    /\ UNCHANGED <<enabled, revoked, cache, refresher, registry, chan, driver, live, heap,
                   next_seq, beat, left>>

-----------------------------------------------------------------------------
Init ==
    /\ enabled = Nothing
    /\ revoked = FALSE
    /\ cache = [etag |-> FALSE, list |-> Nothing]
    /\ refresher = IdleRefresher
    /\ registry = Nothing
    /\ chan = <<>>
    /\ driver = "run"
    /\ live = Nothing
    /\ heap = {}
    /\ next_seq = 1
    /\ beat = [t \in Targets |-> FALSE]
    /\ shutdown = FALSE
    /\ left = [changes |-> MaxChanges, faults |-> MaxFaults]

RefresherStep == List \/ Merge \/ Send \/ RefresherStops

Next ==
    \/ RefresherStep
    \/ ApplyDiff \/ DriverStops
    \/ \E e \in heap : Drain(e) \/ ComesDue(e)
    \/ Change \/ Cancel

Spec == Init /\ [][Next]_vars

\* Both tasks run on and time passes.
FairSpec ==
    /\ Spec
    /\ WF_vars(RefresherStep)
    /\ WF_vars(ApplyDiff)
    /\ WF_vars(DriverStops)
    /\ \A t \in Targets :
          /\ WF_vars(\E e \in heap : e.id = t /\ Drain(e))
          /\ WF_vars(\E e \in heap : e.id = t /\ e.seq = live[t] /\ ComesDue(e))

-----------------------------------------------------------------------------
(* Properties.                                                             *)

Diffs == [scheduled : SUBSET Targets, removed : SUBSET Targets]

TypeOK ==
    /\ enabled \in [Targets -> Versions]
    /\ revoked \in BOOLEAN
    /\ cache \in [etag : BOOLEAN, list : [Targets -> Versions]]
    /\ refresher \in [at : {"idle", "listed", "send", "done"},
                      list : [Targets -> Versions], diff : Diffs]
    /\ registry \in [Targets -> Versions]
    /\ chan \in Seq(Diffs) /\ Len(chan) <= DiffBound
    /\ driver \in {"run", "join", "done"}
    /\ live \in [Targets -> Nat]
    /\ heap \subseteq [id : Targets, seq : Nat, first : BOOLEAN, due : BOOLEAN]
    /\ next_seq \in Nat
    /\ beat \in [Targets -> BOOLEAN]
    /\ shutdown \in BOOLEAN
    /\ left \in [changes : 0..MaxChanges, faults : 0..MaxFaults]

\* A scheduled target has exactly one heap entry of its current generation, however
\* often it was added, edited, removed and added again: it is neither probed twice an
\* interval nor lost ("an entry is live only while it matches the id's current seq").
OneLiveEntry ==
    \A t \in Targets : live[t] # 0 =>
        Cardinality({e \in heap : e.id = t /\ e.seq = live[t]}) = 1

\* The scheduler keeps the promise of Timers.
TimerOf(t) ==
    IF live[t] = 0 THEN "off"
    ELSE IF \E e \in heap : e.id = t /\ e.seq = live[t] /\ e.due THEN "due"
    ELSE "running"

TM == INSTANCE Timers WITH timer <- [t \in Targets |-> TimerOf(t)], beat <- beat,
                           on <- driver = "run"

\* Each probe is the answer to one timer of the current schedule, and while the
\* scheduler runs no scheduled target goes unprobed (drain_due, apply_diff).
KeepsTime == TM!FairSpec

\* What the node should probe: what is enabled, and nothing on a revoked agent.
Wanted(t) == IF Agent /\ revoked THEN 0 ELSE enabled[t]

\* When the configuration stays as it is, the registry and the schedule come to agree
\* with it and stay so, through failed listings, revocations and diffs that were
\* overtaken while they waited in the channel.
Converges ==
    \/ <>shutdown
    \/ <>[](\A t \in Targets : registry[t] = Wanted(t) /\ (live[t] # 0 <=> Wanted(t) # 0))

\* A shutdown ends both tasks, also when the refresher is waiting for room in the
\* channel the driver no longer reads.
Stops == shutdown ~> driver = "done"
=============================================================================
