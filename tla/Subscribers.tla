---------------------------- MODULE Subscribers -----------------------------
(***************************************************************************)
(* Fan-out of an incident's public updates to the subscribers of a status  *)
(* page (public_status/subscriber_dispatch.rs): every replica of the       *)
(* dispatcher lists what is pending, claims each delivery by writing its   *)
(* row in the delivery log, sends what it claimed and marks the outcomes.  *)
(* The log is the only thing the replicas share.                           *)
(*                                                                         *)
(* A subscriber stands for a subscription row: subscribing again after an  *)
(* unsubscribe makes another row.  Ages (the lookback, an orphaned claim,  *)
(* the purge) are flags that steps of the clock set.  At the start the     *)
(* incident has just been published.                                       *)
(***************************************************************************)
EXTENDS Integers

CONSTANTS
    Subs,         \* subscriptions
    Updates,      \* updates that may be posted on the incident
    Final,        \* the update of them that announces the resolution
    Replicas,     \* processes running the dispatcher
    MaxAttempts,  \* FANOUT_MAX_ATTEMPTS
    MaxEdits,     \* bound on (un)publishing, plan holds and updates growing old
    MaxFaults     \* bound on failed store calls, restarts and sends that
                  \* outlive CLAIM_ORPHAN_MINUTES

ASSUME SubscribersAssumption ==
    /\ Final \in Updates
    /\ MaxAttempts \in Nat \ {0}
    /\ {MaxEdits, MaxFaults} \subseteq Nat

VARIABLES
    sub,      \* where each subscription is
    before,   \* per subscription, the updates posted before it was confirmed
    page,     \* visibility of the incident and plan hold of the page
    posted,   \* updates posted
    old,      \* updates outside FANOUT_LOOKBACK_HOURS
    log,      \* status_page_subscriber_deliveries
    tick,     \* per replica: phase of its tick, listed deliveries, jobs under way
    history,  \* per delivery: arrivals; and excused: arrivals reported as errors and
              \* takeovers of an orphaned claim
    left      \* what the bounds still allow

vars == <<sub, before, page, posted, old, log, tick, history, left>>

\* A delivery is keyed by subscriber and update.
Deliveries == Subs \X Updates

NoRow == [status |-> "none", attempts |-> 0, orphan |-> FALSE]
NoTick == [at |-> "idle", todo |-> {}, jobs |-> [d \in Deliveries |-> "none"]]

-----------------------------------------------------------------------------
(* Subscriptions and the incident.                                         *)

\* confirm (a mailed link) or mark_verified (a webhook that answered).
Confirm(s) ==
    /\ sub[s] = "pending"
    /\ sub' = [sub EXCEPT ![s] = "verified"]
    /\ before' = [before EXCEPT ![s] = posted]
    /\ UNCHANGED <<page, posted, old, log, tick, history, left>>

\* The delivery rows go with the subscription (ON DELETE CASCADE).
Unsubscribe(s) ==
    /\ sub[s] \in {"pending", "verified"}
    /\ sub' = [sub EXCEPT ![s] = "gone"]
    /\ log' = [d \in Deliveries |-> IF d[1] = s THEN NoRow ELSE log[d]]
    /\ UNCHANGED <<before, page, posted, old, tick, history, left>>

Post(u) ==
    /\ u \notin posted
    /\ posted' = posted \cup {u}
    /\ UNCHANGED <<sub, before, page, old, log, tick, history, left>>

\* The operator publishes or unpublishes the incident, the plan holds or
\* releases the page.
Edit ==
    /\ left.edits > 0
    /\ left' = [left EXCEPT !.edits = @ - 1]
    /\ \/ page' = [page EXCEPT !.public = ~@, !.published = TRUE]
       \/ page' = [page EXCEPT !.held = ~@]
    /\ UNCHANGED <<sub, before, posted, old, log, tick, history>>

-----------------------------------------------------------------------------
(* The delivery log.                                                       *)

\* Mutant: a queued row is never listed, however old.
pending_unqueued(d) ==
    /\ sub[d[1]] = "verified" /\ ~page.held
    /\ page.public \/ (d[2] = Final /\ page.published)
    /\ d[2] \in posted \ (old \cup before[d[1]])
    /\ \/ log[d].status = "none"
       \/ log[d].status = "failed" /\ log[d].attempts < MaxAttempts

\* What list_pending selects.  Its LIMIT, oldest first, is left out: what is listed can
\* be claimed, so the rest moves up.
list_pending(d) ==
    /\ sub[d[1]] = "verified" /\ ~page.held
    /\ page.public \/ (d[2] = Final /\ page.published)
    /\ d[2] \in posted \ (old \cup before[d[1]])
    /\ log[d].status # "sent"
    /\ log[d].status = "queued" => log[d].orphan
    /\ log[d].status = "failed" => log[d].attempts < MaxAttempts

\* Mutant: the upsert has no WHERE.
claimable_always(d) == TRUE

\* The row is inserted, or the upsert's WHERE holds.
Claimable(d) ==
    \/ log[d].status = "none"
    \/ log[d].status = "failed" /\ log[d].attempts < MaxAttempts
    \/ log[d].status = "queued" /\ log[d].orphan

\* Mutant: a failure is counted for the send and again for the row.
mark_counts_twice(d, ok) ==
    log' = [log EXCEPT ![d].status = IF ok THEN "sent" ELSE "failed",
                       ![d].attempts = IF ok THEN @ ELSE @ + 2]

\* mark: the outcome overwrites whatever the row says; no row, no update.
mark(d, ok) ==
    log' = IF log[d].status = "none" THEN log
           ELSE [log EXCEPT ![d].status = IF ok THEN "sent" ELSE "failed",
                            ![d].attempts = IF ok THEN @ ELSE @ + 1]

\* A claim whose tick is gone, or is slow, passes CLAIM_ORPHAN_MINUTES.
Held(d) == \E r \in Replicas : tick[r].jobs[d] # "none"

Orphan(d) ==
    /\ log[d].status = "queued" /\ ~log[d].orphan
    /\ Held(d) => left.faults > 0
    /\ log' = [log EXCEPT ![d].orphan = TRUE]
    /\ left' = IF Held(d) THEN [left EXCEPT !.faults = @ - 1] ELSE left
    /\ UNCHANGED <<sub, before, page, posted, old, tick, history>>

Age(u) ==
    /\ u \in posted \ old
    /\ left.edits > 0
    /\ left' = [left EXCEPT !.edits = @ - 1]
    /\ old' = old \cup {u}
    /\ UNCHANGED <<sub, before, page, posted, log, tick, history>>

\* purge_old: rows of 30 days ago belong to updates long out of the lookback.
PurgeOld(d) ==
    /\ log[d].status # "none" /\ d[2] \in old
    /\ \A r \in Replicas : d \notin tick[r].todo /\ tick[r].jobs[d] = "none"
    /\ log' = [log EXCEPT ![d] = NoRow]
    /\ UNCHANGED <<sub, before, page, posted, old, tick, history, left>>

-----------------------------------------------------------------------------
(* A tick of one replica.                                                  *)

ListPending(r) ==
    /\ tick[r].at = "idle"
    /\ \E d \in Deliveries : list_pending(d)
    /\ tick' = [tick EXCEPT ![r] = [NoTick EXCEPT !.at = "claim",
                                       !.todo = {d \in Deliveries : list_pending(d)}]]
    /\ UNCHANGED <<sub, before, page, posted, old, log, history, left>>

\* Claims one after the other.  The insert for a subscription deleted since the
\* list fails, and with it the tick: what it had claimed stays queued.
Claim(r) ==
    /\ tick[r].at = "claim"
    /\ \E d \in tick[r].todo :
          LET rest == [tick[r] EXCEPT !.todo = @ \ {d}]
          IN  \/ /\ sub[d[1]] = "gone"
                 /\ tick' = [tick EXCEPT ![r] = NoTick]
                 /\ UNCHANGED <<log, history>>
              \/ /\ sub[d[1]] # "gone" /\ Claimable(d)
                 /\ tick' = [tick EXCEPT ![r] = [rest EXCEPT !.jobs[d] = "claimed"]]
                 /\ log' = [log EXCEPT ![d].status = "queued", ![d].orphan = FALSE]
                 /\ history' = [history EXCEPT ![d].excused =
                                   IF log[d].status = "queued" THEN @ + 1 ELSE @]
              \/ /\ sub[d[1]] # "gone" /\ ~Claimable(d)
                 /\ tick' = [tick EXCEPT ![r] = rest]
                 /\ UNCHANGED <<log, history>>
    /\ UNCHANGED <<sub, before, page, posted, old, left>>

\* deliver_incident.  Sends run side by side once everything is claimed.  A webhook
\* that received the notice may still count as an error: it answered too late, or
\* with another status than 2xx.
Send(r, d) ==
    /\ tick[r].at = "claim" /\ tick[r].todo = {}
    /\ tick[r].jobs[d] = "claimed"
    /\ \E got, ok \in BOOLEAN :
          /\ ok => got
          /\ tick' = [tick EXCEPT ![r].jobs[d] = IF ok THEN "ok" ELSE "err"]
          /\ history' = [history EXCEPT ![d].arrived = IF got THEN @ + 1 ELSE @,
                                        ![d].excused = IF got /\ ~ok THEN @ + 1 ELSE @]
    /\ UNCHANGED <<sub, before, page, posted, old, log, left>>

\* The tick when the job on d has ended; after the last one it is over.
Without(r, d) ==
    LET jobs == [tick[r].jobs EXCEPT ![d] = "none"]
    IN  IF \A e \in Deliveries : jobs[e] = "none" THEN NoTick
        ELSE [tick[r] EXCEPT !.jobs = jobs]

\* The outcome is recorded, or recording it fails and is only logged.
Mark(r, d) ==
    /\ tick[r].jobs[d] \in {"ok", "err"}
    /\ tick' = [tick EXCEPT ![r] = Without(r, d)]
    /\ \/ /\ mark(d, tick[r].jobs[d] = "ok")
          /\ UNCHANGED left
       \/ /\ left.faults > 0
          /\ left' = [left EXCEPT !.faults = @ - 1]
          /\ UNCHANGED log
    /\ UNCHANGED <<sub, before, page, posted, old, history>>

\* Nothing was won: the tick is over.
NothingClaimed(r) ==
    /\ tick[r].at = "claim" /\ tick[r].todo = {}
    /\ \A d \in Deliveries : tick[r].jobs[d] = "none"
    /\ tick' = [tick EXCEPT ![r] = NoTick]
    /\ UNCHANGED <<sub, before, page, posted, old, log, history, left>>

\* A claim fails, which ends the tick, or the process restarts.
Crash(r) ==
    /\ left.faults > 0 /\ tick[r].at # "idle"
    /\ left' = [left EXCEPT !.faults = @ - 1]
    /\ tick' = [tick EXCEPT ![r] = NoTick]
    /\ UNCHANGED <<sub, before, page, posted, old, log, history>>

-----------------------------------------------------------------------------
Init ==
    /\ sub = [s \in Subs |-> "pending"]
    /\ before = [s \in Subs |-> {}]
    /\ page = [public |-> TRUE, published |-> TRUE, held |-> FALSE]
    /\ posted = {}
    /\ old = {}
    /\ log = [d \in Deliveries |-> NoRow]
    /\ tick = [r \in Replicas |-> NoTick]
    /\ history = [d \in Deliveries |-> [arrived |-> 0, excused |-> 0]]
    /\ left = [edits |-> MaxEdits, faults |-> MaxFaults]

Tick(r) == ListPending(r) \/ Claim(r) \/ NothingClaimed(r)
           \/ \E d \in Deliveries : Send(r, d) \/ Mark(r, d)

Next ==
    \/ \E s \in Subs : Confirm(s) \/ Unsubscribe(s)
    \/ \E u \in Updates : Post(u) \/ Age(u)
    \/ Edit
    \/ \E d \in Deliveries : Orphan(d) \/ PurgeOld(d)
    \/ \E r \in Replicas : Tick(r) \/ Crash(r)

Spec == Init /\ [][Next]_vars

\* Every replica keeps ticking, sends end (requests time out), and an abandoned
\* claim grows old.
FairSpec ==
    /\ Spec
    /\ \A r \in Replicas : WF_vars(Tick(r))
    /\ \A d \in Deliveries : WF_vars(Orphan(d))

-----------------------------------------------------------------------------
(* Properties.                                                             *)

\* A row counts at most the attempts the cap allows, and one more for each claim
\* taken over from a sender that was still running.
TypeOK ==
    /\ sub \in [Subs -> {"pending", "verified", "gone"}]
    /\ before \in [Subs -> SUBSET Updates]
    /\ page \in [public : BOOLEAN, published : BOOLEAN, held : BOOLEAN]
    /\ posted \subseteq Updates /\ old \subseteq posted
    /\ log \in [Deliveries -> [status : {"none", "queued", "sent", "failed"},
                               attempts : 0..(MaxAttempts + MaxFaults), orphan : BOOLEAN]]
    /\ tick \in [Replicas -> [at : {"idle", "claim"}, todo : SUBSET Deliveries,
                    jobs : [Deliveries -> {"none", "claimed", "ok", "err"}]]]
    /\ history \in [Deliveries -> [arrived : Nat, excused : Nat]]
    /\ left \in [edits : 0..MaxEdits, faults : 0..MaxFaults]

\* Every arrival of an update after the first is accounted for: a claim was taken
\* over as orphaned, or an earlier send that did arrive was reported as an error.  Two
\* replicas listing the same update, an outcome recorded late, a purge of the log or an
\* update published again repeat nothing.  (subscriber_dispatch.rs: "a crash or a second
\* replica never double-sends" is true of the replica only: a crash between send and
\* mark is followed by a takeover.)
DuplicatesExplained ==
    \A d \in Deliveries :
        history[d].arrived <= 1 + history[d].excused

\* The subscriber is owed the update: it is public, or announces the end of an
\* incident that once was.
Owed(d) ==
    /\ sub[d[1]] = "verified" /\ ~page.held
    /\ page.public \/ (d[2] = Final /\ page.published)
    /\ d[2] \in posted \ (old \cup before[d[1]])

\* Every update owed to a subscriber is sent, or given up after its attempts,
\* through restarts between claim, send and mark and through ticks that fail
\* because another subscriber has left.
EveryUpdateSettles ==
    \A d \in Deliveries :
        Owed(d) ~> (~Owed(d) \/ log[d].status = "sent"
                    \/ (log[d].status = "failed" /\ log[d].attempts >= MaxAttempts))
=============================================================================
