----------------------------- MODULE WorkerPool -----------------------------
(***************************************************************************)
(* The worker pool (src/worker/pool.rs) checking ONE host on behalf of     *)
(* several monitors: the in-flight guard, the permits, the host's circuit  *)
(* breaker (circuit_breaker.rs), the per-tenant host throttle              *)
(* (host_throttle.rs), and the sweep that evicts idle breakers and         *)
(* semaphores (worker/mod.rs).                                             *)
(*                                                                         *)
(* The breaker is keyed by host and shared by all tenants and ports; the   *)
(* throttle is keyed by tenant, host and port.  A task holds an Arc of     *)
(* what it looked up, so the maps, the Arcs and the sweep are separate     *)
(* pieces of state here.                                                   *)
(* A call of the breaker (allow, record) is a chain of atomic operations   *)
(* on a multi-threaded runtime; every load, compare-and-exchange and store *)
(* is a step of its own, in program order and sequentially consistent.     *)
(***************************************************************************)
EXTENDS Integers, FiniteSets, Sequences

CONSTANTS
    Targets,           \* monitors of the host
    Keys,              \* throttle keys: a tenant and a port of the host
    KeyOf,             \* the key of each target
    MaxConcurrent,     \* permits of the pool
    PerHostMax,        \* permits of a key's semaphore
    FailureThreshold,
    SuccessThreshold,
    HalfOpenMax,       \* half_open_max_calls
    CounterRange,      \* the breaker's counters are u32: they wrap at this value
    MaxFlips           \* bound on how often the host goes down or up

NoTarget == "none"

ASSUME PoolAssumption ==
    /\ KeyOf \in [Targets -> Keys]
    /\ NoTarget \notin Targets
    /\ {MaxConcurrent, PerHostMax, FailureThreshold, SuccessThreshold,
        HalfOpenMax} \subseteq Nat \ {0}
    /\ CounterRange \in Nat /\ CounterRange > HalfOpenMax
    /\ MaxFlips \in Nat

VARIABLES
    tasks,      \* one record per permit of the pool: the task that holds it
    in_flight,  \* targets whose probe is under way
    breaker,    \* the host's circuit breaker
    caps,       \* per key, which semaphore the map holds (0: none)
    host,       \* whether the host answers
    flips       \* what the bound still allows

vars == <<tasks, in_flight, breaker, caps, host, flips>>

Slots == 1..MaxConcurrent
Gens == 1..(MaxConcurrent + 1)

Free == [at |-> "free", target |-> NoTarget, sem |-> 0, ok |-> FALSE, todo |-> <<>>]

Active(s) == tasks[s].at # "free"
HoldsBreaker(s) == tasks[s].at \notin {"free", "spawned"}

\* A host permit is held from try_acquire until the outcome is recorded.
Permitted == {"running", "record", "count_failure", "give_back", "count_success",
              "trip_open", "close", "recorded"}
HoldsPermit(s) == tasks[s].at \in Permitted
HeldPermits(k, g) ==
    {s \in Slots : HoldsPermit(s) /\ tasks[s].sem = g /\ KeyOf[tasks[s].target] = k}

-----------------------------------------------------------------------------
(* The circuit breaker.                                                    *)

\* cooled: open_duration_secs have passed since opened_at.
NewBreaker == [state |-> "closed", fails |-> 0, succs |-> 0, inflight |-> 0,
               cooled |-> TRUE]

\* One store of trip_open, close or try_transition_to_half_open.
Stored(b, w) ==
    CASE w = "open"      -> [b EXCEPT !.state = "open"]
      [] w = "closed"    -> [b EXCEPT !.state = "closed"]
      [] w = "opened_at" -> [b EXCEPT !.cooled = FALSE]
      [] w = "fails"     -> [b EXCEPT !.fails = 0]
      [] w = "succs"     -> [b EXCEPT !.succs = 0]
      [] w = "inflight"  -> [b EXCEPT !.inflight = 0]

Writes == {"open", "closed", "opened_at", "fails", "succs", "inflight"}

\* fetch_add and fetch_sub of a u32.
Raised(n) == (n + 1) % CounterRange
Lowered(n) == (n + CounterRange - 1) % CounterRange

\* The task at s goes on at the given place, once its pending stores are done.
GoTo(s, place, stores) == tasks' = [tasks EXCEPT ![s].at = place, ![s].todo = stores]

\* The task ends: its guards release the target and the permits.
EndTask(s) ==
    /\ tasks' = [tasks EXCEPT ![s] = Free]
    /\ in_flight' = in_flight \ {tasks[s].target}

\* The task is at the given place of its code.
At(s, place) == tasks[s].at = place /\ tasks[s].todo = <<>>

\* The next pending store.
Store(s) ==
    /\ tasks[s].todo # <<>>
    /\ breaker' = Stored(breaker, Head(tasks[s].todo))
    /\ tasks' = [tasks EXCEPT ![s].todo = Tail(@)]
    /\ UNCHANGED <<in_flight, caps, host, flips>>

\* allow: the spawned task looks its breaker up and loads the state.
allow(s) ==
    /\ At(s, "spawned")
    /\ GoTo(s, CASE breaker.state = "closed"    -> "admitted"
                 [] breaker.state = "open"      -> "cooldown_elapsed"
                 [] breaker.state = "half_open" -> "try_admit_half_open", <<>>)
    /\ UNCHANGED <<in_flight, breaker, caps, host, flips>>

\* An open breaker that has not cooled down refuses; the refusal is reported as a
\* check that failed with circuit_open.
cooldown_elapsed(s) ==
    /\ At(s, "cooldown_elapsed")
    /\ \/ ~breaker.cooled /\ EndTask(s)
       \/ breaker.cooled /\ GoTo(s, "try_transition", <<>>) /\ UNCHANGED in_flight
    /\ UNCHANGED <<breaker, caps, host, flips>>

\* One compare-and-exchange from open to half-open; who wins it clears the counts.
try_transition_to_half_open(s) ==
    /\ At(s, "try_transition")
    /\ \/ /\ breaker.state = "open"
          /\ breaker' = [breaker EXCEPT !.state = "half_open"]
          /\ GoTo(s, "try_admit_half_open", <<"succs", "inflight">>)
       \/ /\ breaker.state # "open"
          /\ GoTo(s, "try_admit_half_open", <<>>)
          /\ UNCHANGED breaker
    /\ UNCHANGED <<in_flight, caps, host, flips>>

\* The exchange is retried until it succeeds or the count is at its cap.  It does not
\* look at the state again.
try_admit_half_open(s) ==
    /\ At(s, "try_admit_half_open")
    /\ \/ /\ breaker.inflight >= HalfOpenMax
          /\ EndTask(s)
          /\ UNCHANGED breaker
       \/ /\ breaker.inflight < HalfOpenMax
          /\ breaker' = [breaker EXCEPT !.inflight = @ + 1]
          /\ GoTo(s, "admitted", <<>>)
          /\ UNCHANGED in_flight
    /\ UNCHANGED <<caps, host, flips>>

\* record, first the load of the state.
record(s) ==
    /\ At(s, "record")
    /\ LET ok == tasks[s].ok
       IN  CASE breaker.state = "closed" /\ ok  -> GoTo(s, "recorded", <<"fails">>)
             [] breaker.state = "closed" /\ ~ok -> GoTo(s, "count_failure", <<>>)
             [] breaker.state = "half_open"     -> GoTo(s, "give_back", <<>>)
             [] breaker.state = "open"          -> GoTo(s, "recorded", <<>>)
    /\ UNCHANGED <<in_flight, breaker, caps, host, flips>>

CountFailure(s) ==
    /\ At(s, "count_failure")
    /\ breaker' = [breaker EXCEPT !.fails = Raised(@)]
    /\ GoTo(s, IF breaker'.fails >= FailureThreshold THEN "trip_open" ELSE "recorded", <<>>)
    /\ UNCHANGED <<in_flight, caps, host, flips>>

\* Mutant: the in-flight count is a signed integer.
give_back_signed(s) ==
    /\ At(s, "give_back")
    /\ breaker' = [breaker EXCEPT !.inflight = @ - 1]
    /\ GoTo(s, IF tasks[s].ok THEN "count_success" ELSE "trip_open", <<>>)
    /\ UNCHANGED <<in_flight, caps, host, flips>>

\* In half-open the in-flight count is lowered whoever records, also a task that was
\* admitted while the breaker was closed.
GiveBack(s) ==
    /\ At(s, "give_back")
    /\ breaker' = [breaker EXCEPT !.inflight = Lowered(@)]
    /\ GoTo(s, IF tasks[s].ok THEN "count_success" ELSE "trip_open", <<>>)
    /\ UNCHANGED <<in_flight, caps, host, flips>>

\* Mutant: the breaker is closed only when no other probe is under way.
count_success_when_idle(s) ==
    /\ At(s, "count_success")
    /\ breaker' = [breaker EXCEPT !.succs = Raised(@)]
    /\ GoTo(s, IF breaker'.succs >= SuccessThreshold /\ breaker.inflight = 0
               THEN "close" ELSE "recorded", <<>>)
    /\ UNCHANGED <<in_flight, caps, host, flips>>

CountSuccess(s) ==
    /\ At(s, "count_success")
    /\ breaker' = [breaker EXCEPT !.succs = Raised(@)]
    /\ GoTo(s, IF breaker'.succs >= SuccessThreshold THEN "close" ELSE "recorded", <<>>)
    /\ UNCHANGED <<in_flight, caps, host, flips>>

\* trip_open: nothing if the breaker is seen open, else five stores.
trip_open(s) ==
    /\ At(s, "trip_open")
    /\ GoTo(s, "recorded", IF breaker.state = "open" THEN <<>>
                           ELSE <<"open", "opened_at", "fails", "succs", "inflight">>)
    /\ UNCHANGED <<in_flight, breaker, caps, host, flips>>

\* close: nothing if the breaker is seen closed, else four stores.
close(s) ==
    /\ At(s, "close")
    /\ GoTo(s, "recorded", IF breaker.state = "closed" THEN <<>>
                           ELSE <<"closed", "fails", "succs", "inflight">>)
    /\ UNCHANGED <<in_flight, breaker, caps, host, flips>>

BreakerStep(s) ==
    \/ allow(s) \/ cooldown_elapsed(s) \/ try_transition_to_half_open(s)
    \/ try_admit_half_open(s)
    \/ record(s) \/ CountFailure(s) \/ GiveBack(s) \/ CountSuccess(s)
    \/ trip_open(s) \/ close(s) \/ Store(s)

-----------------------------------------------------------------------------
(* A dispatched check.                                                     *)

\* Mutant: the guard is not moved into the task and releases the target at once.
dispatch_unguarded(t) ==
    /\ \E s \in Slots : ~Active(s)
    /\ LET s == CHOOSE x \in Slots : ~Active(x) /\ \A y \in Slots : y < x => Active(y)
       IN  tasks' = [tasks EXCEPT ![s] = [Free EXCEPT !.at = "spawned", !.target = t]]
    /\ UNCHANGED <<in_flight, breaker, caps, host, flips>>

\* dispatch: a target already in flight or a saturated pool is a drop, counted on
\* the spot (no step); otherwise the guard and the permit move into a task.
Dispatch(t) ==
    /\ t \notin in_flight
    /\ \E s \in Slots : ~Active(s)
    /\ in_flight' = in_flight \cup {t}
    /\ LET s == CHOOSE x \in Slots : ~Active(x) /\ \A y \in Slots : y < x => Active(y)
       IN  tasks' = [tasks EXCEPT ![s] = [Free EXCEPT !.at = "spawned", !.target = t]]
    /\ UNCHANGED <<breaker, caps, host, flips>>

\* semaphore_for: the key's semaphore is cloned out of the map, or created there
\* first.
SemaphoreFor(s) ==
    /\ At(s, "admitted")
    /\ LET k == KeyOf[tasks[s].target]
           used == {tasks[x].sem : x \in {y \in Slots : Active(y) /\ KeyOf[tasks[y].target] = k}}
           fresh == CHOOSE g \in Gens \ used : \A h \in Gens \ used : g <= h
       IN  /\ caps' = IF caps[k] = 0 THEN [caps EXCEPT ![k] = fresh] ELSE caps
           /\ tasks' = [tasks EXCEPT ![s].at = "slot", ![s].sem = caps'[k]]
    /\ UNCHANGED <<in_flight, breaker, host, flips>>

\* acquire: no permit means the check is dropped and counted.  The breaker is not
\* told, although allow() may have admitted the check as a half-open probe.
Acquire(s) ==
    /\ At(s, "slot")
    /\ LET free == Cardinality(HeldPermits(KeyOf[tasks[s].target], tasks[s].sem)) < PerHostMax
       IN  \/ free /\ GoTo(s, "running", <<>>) /\ UNCHANGED in_flight
           \/ ~free /\ EndTask(s)
    /\ UNCHANGED <<breaker, caps, host, flips>>

\* The check ends with what the host says.
Execute(s) ==
    /\ At(s, "running")
    /\ tasks' = [tasks EXCEPT ![s].at = "record", ![s].ok = (host = "up")]
    /\ UNCHANGED <<in_flight, breaker, caps, host, flips>>

\* The outcome is recorded: the host permit is dropped and the result sent.
Finish(s) ==
    /\ At(s, "recorded")
    /\ EndTask(s)
    /\ UNCHANGED <<breaker, caps, host, flips>>

-----------------------------------------------------------------------------
(* The sweep, the clock and the host.                                      *)

\* Mutant: the sweep looks at the permits and not at who holds the semaphore.
sweep_unreferenced(k) ==
    /\ caps[k] # 0
    /\ HeldPermits(k, caps[k]) = {}
    /\ caps' = [caps EXCEPT ![k] = 0]
    /\ UNCHANGED <<tasks, in_flight, breaker, host, flips>>

\* HostThrottle::sweep: all permits back and nobody else holds the semaphore.
SweepThrottle(k) ==
    /\ caps[k] # 0
    /\ \A s \in Slots : ~(Active(s) /\ KeyOf[tasks[s].target] = k /\ tasks[s].sem = caps[k])
    /\ caps' = [caps EXCEPT ![k] = 0]
    /\ UNCHANGED <<tasks, in_flight, breaker, host, flips>>

\* sweep_breakers: a closed breaker nobody holds is evicted; the next check of
\* the host starts with a new one.
SweepBreaker ==
    /\ breaker.state = "closed"
    /\ \A s \in Slots : ~HoldsBreaker(s)
    /\ breaker' = NewBreaker
    /\ UNCHANGED <<tasks, in_flight, caps, host, flips>>

\* open_duration_secs have passed since opened_at, with checks under way or not.
Cool ==
    /\ ~breaker.cooled
    /\ breaker' = [breaker EXCEPT !.cooled = TRUE]
    /\ UNCHANGED <<tasks, in_flight, caps, host, flips>>

\* The monitored host goes down or comes back.
Flip ==
    /\ flips > 0
    /\ flips' = flips - 1
    /\ host' = IF host = "up" THEN "down" ELSE "up"
    /\ UNCHANGED <<tasks, in_flight, breaker, caps>>

-----------------------------------------------------------------------------
Init ==
    /\ tasks = [s \in Slots |-> Free]
    /\ in_flight = {}
    /\ breaker = NewBreaker
    /\ caps = [k \in Keys |-> 0]
    /\ host = "up"
    /\ flips = MaxFlips

TaskStep(s) ==
    BreakerStep(s) \/ SemaphoreFor(s) \/ Acquire(s) \/ Execute(s) \/ Finish(s)

Next ==
    \/ \E t \in Targets : Dispatch(t)
    \/ \E s \in Slots : TaskStep(s)
    \/ \E k \in Keys : SweepThrottle(k)
    \/ SweepBreaker \/ Cool \/ Flip

Spec == Init /\ [][Next]_vars

\* The scheduler goes on dispatching (some target, not each), a spawned task runs
\* on, a check times out, and the cooldown passes.
FairSpec ==
    /\ Spec
    /\ SF_vars(\E t \in Targets : Dispatch(t))
    /\ \A s \in Slots : WF_vars(TaskStep(s))
    /\ WF_vars(Cool)

-----------------------------------------------------------------------------
(* Properties.                                                             *)

Places ==
    {"free", "spawned", "cooldown_elapsed", "try_transition", "try_admit_half_open",
     "admitted", "slot", "running", "record", "count_failure", "give_back",
     "count_success", "trip_open", "close", "recorded"}

TypeOK ==
    /\ tasks \in [Slots -> [at : Places, target : Targets \cup {NoTarget},
                            sem : 0..(MaxConcurrent + 1), ok : BOOLEAN, todo : Seq(Writes)]]
    /\ in_flight \subseteq Targets
    /\ breaker \in [state : {"closed", "open", "half_open"}, fails : 0..(CounterRange - 1),
                    succs : 0..(CounterRange - 1), inflight : 0..(CounterRange - 1),
                    cooled : BOOLEAN]
    /\ caps \in [Keys -> 0..(MaxConcurrent + 1)]
    /\ host \in {"up", "down"}
    /\ flips \in 0..MaxFlips

\* A tenant never has more than per_host_max checks of a port under way, also
\* when the sweep evicts semaphores while tasks look them up (host_throttle.rs:
\* "never drops a semaphore another task just cloned out").
HostCapHeld ==
    \A k \in Keys :
        Cardinality({s \in Slots : HoldsPermit(s) /\ KeyOf[tasks[s].target] = k})
            <= PerHostMax

\* Two probes of one target never overlap (pool.rs: "two probes for the same
\* target race"), and the guard of a target is held exactly as long as its task
\* lives, on every way a task can end.
OneProbePerTarget ==
    /\ \A s, u \in Slots : Active(s) /\ s # u => tasks[s].target # tasks[u].target
    /\ in_flight = {tasks[s].target : s \in {x \in Slots : Active(x)}}

\* No probe of the half-open breaker is under way and its count admits none.
Wedged ==
    /\ breaker.state = "half_open" /\ breaker.inflight >= HalfOpenMax
    /\ \A s \in Slots : tasks[s].at \in {"free", "spawned", "try_admit_half_open"}

\* Once the host answers for good, its breaker closes for good or stays half-open with
\* every admission spent and no probe under way: there is no third way to go on, such
\* as tripping again and again or half-opening for ever with admissions left.  The
\* second outcome is real: a throttled probe never gives its admission back, and a
\* count lowered by a check that never raised it wraps (troubleshooting.md only says
\* "wait `circuit_breaker.open_duration_secs` for the breaker to enter half-open").
RecoversOrWedges ==
    <>[](host = "up") => <>[](breaker.state = "closed") \/ <>[]Wedged
=============================================================================
