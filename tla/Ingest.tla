------------------------------- MODULE Ingest -------------------------------
(***************************************************************************)
(* The way of check results from a regional agent's workers to the store:  *)
(* the result channel (worker/pool.rs), the batcher (pipeline/batcher.rs), *)
(* the agent's sink that posts batches with retries (agent/mod.rs), and    *)
(* the control plane's ingest handler (api/handlers/agents.rs), of which   *)
(* two replicas may run during a cutover.                                  *)
(*                                                                         *)
(* Requests are delayed, lost, or answered too late; a replica restarts.   *)
(* The store drops a block identical to one of the last thousand (the      *)
(* clickhouse migration 001).  A block is the rows a handler kept of a     *)
(* body, each stamped with the retention of its organisation as the        *)
(* replica last read it (org_ttl.rs): the results and that snapshot here.  *)
(* Requests that are alike in everything are one element of `requests'.    *)
(***************************************************************************)
EXTENDS Integers, Sequences, FiniteSets

CONSTANTS
    MaxResults,       \* bound on the results produced
    ChanCap,          \* capacity of the result channel
    BatchSize,
    BufferCap,        \* batch_size * MAX_BUFFER_MULT
    MaxFlushRetries,  \* MAX_FLUSH_RETRIES
    Replicas,         \* control-plane processes
    INGEST_MAX_BATCH,
    BootTtl,          \* the snapshot of retentions before the first load
    PlanTtls,         \* the snapshots a load may find
    Doubtful,         \* results of a target that may move, or stamped by a fast clock
    MaxFaults,        \* bound on lost answers, failed queries and writes, restarts
    MaxChanges        \* bound on the changes of what a handler keeps

Results == 1..MaxResults
Ttls == PlanTtls \cup {BootTtl}

ASSUME IngestAssumption ==
    /\ {MaxResults, MaxFaults, MaxChanges} \subseteq Nat
    /\ {ChanCap, BatchSize, BufferCap, MaxFlushRetries, INGEST_MAX_BATCH} \subseteq Nat \ {0}
    /\ BatchSize <= BufferCap
    /\ Doubtful \subseteq Results

VARIABLES
    produced,   \* how many results the workers have produced
    chan,       \* the result channel
    buffer,     \* the batcher's buffer
    retries,    \* retry_attempts
    mode,       \* the batcher: loop, flush, last (flushing at shutdown) or done
    post,       \* the sink's attempt under way
    requests,   \* requests the control plane has not finished
    dedup,      \* per replica, the batch ids it has seen committed
    stored,     \* how often each result is in the store, by the retention of the copy
    blocks,     \* the blocks the store has seen
    ttl,        \* per replica, its snapshot of the retentions (OrgTtlDays)
    eligible,   \* results a handler keeps: of the region's targets, not of the future
    fate,       \* results dropped and counted, refused by the handler, acknowledged
    shutdown,
    left        \* what the bounds still allow

vars == <<produced, chan, buffer, retries, mode, post, requests, dedup, stored, blocks,
          ttl, eligible, fate, shutdown, left>>

NoPost == [at |-> "none", id |-> 0]
Elems(seq) == {seq[i] : i \in DOMAIN seq}
SpendFault == left.faults > 0 /\ left' = [left EXCEPT !.faults = @ - 1]

-----------------------------------------------------------------------------
(* Workers and batcher.                                                    *)

\* A check ends: try_send, and a full or closed channel is a counted drop.
Produce ==
    /\ produced < MaxResults
    /\ produced' = produced + 1
    /\ IF Len(chan) < ChanCap /\ mode # "done"
       THEN chan' = Append(chan, produced + 1) /\ UNCHANGED fate
       ELSE fate' = [fate EXCEPT !.counted = @ \cup {produced + 1}] /\ UNCHANGED chan
    /\ UNCHANGED <<buffer, retries, mode, post, requests, dedup, stored, blocks, ttl, eligible,
                   shutdown, left>>

\* Mutant: the buffer grows without bound.
push_uncapped(buf, r) == [buffer |-> Append(buf, r), dropped |-> {}]

\* push_capped: the oldest result makes room and is counted.
push_capped(buf, r) ==
    IF Len(buf) >= BufferCap
    THEN [buffer |-> Append(Tail(buf), r), dropped |-> {Head(buf)}]
    ELSE [buffer |-> Append(buf, r), dropped |-> {}]

\* A flush starts: write_batch takes a fresh batch id for all its attempts.  An id
\* that no request carries any more is as good as fresh once the caches of the
\* replicas forget it.
StartFlush(how) ==
    LET used == {q.id : q \in requests}
    IN  /\ mode' = how
        /\ post' = [at |-> "send", id |-> CHOOSE i \in 0..Cardinality(used) : i \notin used]
        /\ dedup' = [rep \in Replicas |-> dedup[rep] \cap used]

Receive ==
    /\ mode = "loop" /\ chan # <<>>
    /\ LET pushed == push_capped(buffer, Head(chan))
       IN  /\ buffer' = pushed.buffer
           /\ fate' = [fate EXCEPT !.counted = @ \cup pushed.dropped]
           /\ IF Len(pushed.buffer) >= BatchSize THEN StartFlush("flush")
              ELSE UNCHANGED <<mode, post, dedup>>
    /\ chan' = Tail(chan)
    /\ UNCHANGED <<produced, retries, requests, stored, blocks, ttl, eligible, shutdown, left>>

\* Mutant: the timer waits for a full batch.
tick_full_only ==
    /\ mode = "loop" /\ Len(buffer) >= BatchSize
    /\ StartFlush("flush")
    /\ UNCHANGED <<produced, chan, buffer, retries, requests, stored, blocks, ttl, eligible, fate,
                   shutdown, left>>

Tick ==
    /\ mode = "loop" /\ buffer # <<>>
    /\ StartFlush("flush")
    /\ UNCHANGED <<produced, chan, buffer, retries, requests, stored, blocks, ttl, eligible, fate,
                   shutdown, left>>

\* The batcher sees the shutdown: it drains the channel, flushes once and ends.
Shutdown ==
    /\ mode = "loop" /\ shutdown
    /\ LET all == buffer \o chan
           over == IF Len(all) > BufferCap THEN Len(all) - BufferCap ELSE 0
       IN  /\ buffer' = SubSeq(all, over + 1, Len(all))
           /\ fate' = [fate EXCEPT !.counted = @ \cup Elems(SubSeq(all, 1, over))]
           /\ IF all # <<>> THEN StartFlush("last")
              ELSE mode' = "done" /\ UNCHANGED <<post, dedup>>
    /\ chan' = <<>>
    /\ UNCHANGED <<produced, retries, requests, stored, blocks, ttl, eligible, shutdown, left>>

\* A flush that succeeded empties the buffer.
flush_ok ==
    /\ buffer' = <<>>
    /\ retries' = 0
    /\ fate' = [fate EXCEPT !.acked = @ \cup Elems(buffer)]

\* A flush that failed keeps the buffer for the next one, a given number of times.
flush_err ==
    IF retries + 1 >= MaxFlushRetries
    THEN /\ buffer' = <<>>
         /\ retries' = 0
         /\ fate' = [fate EXCEPT !.counted = @ \cup Elems(buffer)]
    ELSE /\ retries' = retries + 1
         /\ UNCHANGED <<buffer, fate>>

\* write_batch returned to flush; after the last flush the task ends with whatever
\* is still in the buffer.
FlushDone(ok) ==
    /\ IF ok THEN flush_ok ELSE flush_err
    /\ post' = [post EXCEPT !.at = "none"]
    /\ mode' = IF mode = "last" THEN "done" ELSE "loop"
    /\ UNCHANGED <<produced, chan, requests, dedup, stored, blocks, ttl, eligible, shutdown, left>>

-----------------------------------------------------------------------------
(* The sink: one batch id, several attempts.                               *)

Post ==
    /\ post.at = "send"
    /\ \E rep \in Replicas :
          requests' = requests \cup {[id |-> post.id, rep |-> rep, body |-> Elems(buffer),
                                      kept |-> {}, at |-> "net", awaited |-> TRUE]}
    /\ post' = [post EXCEPT !.at = "wait"]
    /\ UNCHANGED <<produced, chan, buffer, retries, mode, dedup, stored, blocks, ttl, eligible, fate,
                   shutdown, left>>

\* The attempt times out, its request still on the way or under work, or gone with
\* a replica.
Timeout ==
    /\ post.at = "wait"
    /\ IF \E q \in requests : q.awaited THEN SpendFault ELSE UNCHANGED left
    /\ post' = [post EXCEPT !.at = "failed"]
    /\ requests' = {[q EXCEPT !.awaited = FALSE] : q \in requests}
    /\ UNCHANGED <<produced, chan, buffer, retries, mode, dedup, stored, blocks,
                   ttl, eligible, fate, shutdown>>

\* backoff::retry tries again with the same body and id.
Retry ==
    /\ post.at = "failed"
    /\ post' = [post EXCEPT !.at = "send"]
    /\ UNCHANGED <<produced, chan, buffer, retries, mode, requests, dedup, stored, blocks,
                   ttl, eligible, fate, shutdown, left>>

\* Its time is up, or the attempt was answered.
GiveUp == post.at = "failed" /\ FlushDone(FALSE)
Acknowledged == post.at = "ok" /\ FlushDone(TRUE)

-----------------------------------------------------------------------------
(* The control plane: ingest_results.                                      *)

\* The answer reaches the attempt that waits for it.
Respond(q, answer) ==
    post' = IF q.awaited THEN [post EXCEPT !.at = answer] ELSE post

\* Mutant: the batch is marked before it is written.
ingest_marks_first(q) ==
    /\ q.at = "net"
    /\ LET kept == q.body \cap eligible
       IN  \/ /\ q.id \in dedup[q.rep]
              /\ requests' = requests \ {q}
              /\ Respond(q, "ok")
              /\ UNCHANGED <<fate, dedup>>
           \/ /\ q.id \notin dedup[q.rep]
              /\ fate' = [fate EXCEPT !.refused = @ \cup (q.body \ kept)]
              /\ dedup' = [dedup EXCEPT ![q.rep] = @ \cup {q.id}]
              /\ IF kept = {} THEN requests' = requests \ {q} /\ Respond(q, "ok")
                 ELSE /\ requests' = (requests \ {q}) \cup
                                     {[q EXCEPT !.at = "write", !.kept = kept]}
                      /\ UNCHANGED post
    /\ UNCHANGED <<produced, chan, buffer, retries, mode, stored, blocks, ttl, eligible,
                   shutdown, left>>

TooLarge(q) == Cardinality(q.body) > INGEST_MAX_BATCH
Duplicate(q) == ~TooLarge(q) /\ q.id \in dedup[q.rep]

\* A batch is refused whole when it is too large or the targets of the region cannot
\* be read; the sink takes either for an error that may pass.
Fail(q) ==
    /\ q.at = "net" /\ ~Duplicate(q)
    /\ IF TooLarge(q) THEN UNCHANGED left ELSE SpendFault
    /\ requests' = requests \ {q}
    /\ Respond(q, "failed")
    /\ UNCHANGED <<produced, chan, buffer, retries, mode, dedup, stored, blocks, ttl, eligible,
                   fate, shutdown>>

\* Up to the write: a batch id seen is a duplicate; rows of targets that are not the
\* region's, or of the future, are dropped; nothing left means nothing is marked.
IngestResults(q) ==
    /\ q.at = "net" /\ ~TooLarge(q)
    /\ LET kept == q.body \cap eligible
       IN  \/ /\ Duplicate(q)
              /\ requests' = requests \ {q}
              /\ Respond(q, "ok")
              /\ UNCHANGED fate
           \/ /\ ~Duplicate(q)
              /\ fate' = [fate EXCEPT !.refused = @ \cup (q.body \ kept)]
              /\ IF kept = {} THEN requests' = requests \ {q} /\ Respond(q, "ok")
                 ELSE /\ requests' = (requests \ {q}) \cup
                                     {[q EXCEPT !.at = "write", !.kept = kept]}
                      /\ UNCHANGED post
    /\ UNCHANGED <<produced, chan, buffer, retries, mode, dedup, stored, blocks, ttl, eligible,
                   shutdown, left>>

\* The copies of a result in the store once a block with these rows and this retention
\* is written anew.
Add(rows, days) ==
    [r \in Results |-> [t \in Ttls |->
        IF r \in rows /\ t = days THEN stored[r][t] + 1 ELSE stored[r][t]]]

\* write_batch_inner: the rows are stamped with the replica's snapshot and sent as one
\* block, again and again the same while the store does not answer.
Insert(rows, days) ==
    LET block == [rows |-> rows, ttl |-> days]
    IN  /\ blocks' = blocks \cup {block}
        /\ stored' = IF block \in blocks THEN stored ELSE Add(rows, days)

\* Mutant: the rows of a retry come in another order, so the store sees a new block.
write_reordered(q) ==
    /\ q.at = "write"
    /\ stored' = Add(q.kept, ttl[q.rep])
    /\ requests' = (requests \ {q}) \cup {[q EXCEPT !.at = "mark"]}
    /\ UNCHANGED <<produced, chan, buffer, retries, mode, post, dedup, blocks, ttl, eligible,
                   fate, shutdown, left>>

\* The write succeeds, fails, or lands although the handler sees an error.
Write(q) ==
    /\ q.at = "write"
    /\ \/ /\ Insert(q.kept, ttl[q.rep])
          /\ requests' = (requests \ {q}) \cup {[q EXCEPT !.at = "mark"]}
          /\ UNCHANGED <<post, left>>
       \/ /\ SpendFault
          /\ Insert(q.kept, ttl[q.rep]) \/ UNCHANGED <<stored, blocks>>
          /\ requests' = requests \ {q}
          /\ Respond(q, "failed")
    /\ UNCHANGED <<produced, chan, buffer, retries, mode, dedup, ttl, eligible, fate, shutdown>>

\* The batch id is marked only after the write.
Mark(q) ==
    /\ q.at = "mark"
    /\ dedup' = [dedup EXCEPT ![q.rep] = @ \cup {q.id}]
    /\ requests' = requests \ {q}
    /\ Respond(q, "ok")
    /\ UNCHANGED <<produced, chan, buffer, retries, mode, stored, blocks, ttl, eligible, fate,
                   shutdown, left>>

\* A replica restarts: its requests, its cache of batch ids and its snapshot are gone.
Restart(rep) ==
    /\ SpendFault
    /\ dedup' = [dedup EXCEPT ![rep] = {}]
    /\ ttl' = [ttl EXCEPT ![rep] = BootTtl]
    /\ requests' = {q \in requests : q.rep # rep}
    /\ UNCHANGED <<produced, chan, buffer, retries, mode, post, stored, blocks, eligible, fate,
                   shutdown>>

\* spawn_refresh: the first load after the start, or a later one; one that fails keeps
\* the snapshot.
Refresh(rep) ==
    /\ \E days \in PlanTtls : ttl' = [ttl EXCEPT ![rep] = days]
    /\ UNCHANGED <<produced, chan, buffer, retries, mode, post, requests, dedup, stored, blocks,
                   eligible, fate, shutdown, left>>

\* What a handler may keep: doubtful results come and go.
Filters == {kept \in SUBSET Results : Results \ Doubtful \subseteq kept}

\* Targets are taken from the region or assigned to it, or the clock of the control
\* plane catches up with a result's timestamp.
Requalify ==
    /\ left.changes > 0
    /\ left' = [left EXCEPT !.changes = @ - 1]
    /\ eligible' \in Filters
    /\ UNCHANGED <<produced, chan, buffer, retries, mode, post, requests, dedup, stored, blocks,
                   ttl, fate, shutdown>>

Cancel ==
    /\ ~shutdown
    /\ shutdown' = TRUE
    /\ UNCHANGED <<produced, chan, buffer, retries, mode, post, requests, dedup, stored, blocks,
                   ttl, eligible, fate, left>>

-----------------------------------------------------------------------------
Init ==
    /\ produced = 0
    /\ chan = <<>>
    /\ buffer = <<>>
    /\ retries = 0
    /\ mode = "loop"
    /\ post = NoPost
    /\ requests = {}
    /\ dedup = [rep \in Replicas |-> {}]
    /\ stored = [r \in Results |-> [t \in Ttls |-> 0]]
    /\ blocks = {}
    /\ ttl \in [Replicas -> PlanTtls]
    /\ eligible \in Filters
    /\ fate = [counted |-> {}, refused |-> {}, acked |-> {}]
    /\ shutdown = FALSE
    /\ left = [faults |-> MaxFaults, changes |-> MaxChanges]

Batcher == Receive \/ Tick \/ Shutdown
Sink == Post \/ Timeout \/ Retry \/ GiveUp \/ Acknowledged
Handler(q) == Fail(q) \/ IngestResults(q) \/ Write(q) \/ Mark(q)

Next ==
    \/ Produce \/ Batcher \/ Sink
    \/ \E q \in requests : Handler(q)
    \/ \E rep \in Replicas : Restart(rep) \/ Refresh(rep)
    \/ Requalify \/ Cancel

Spec == Init /\ [][Next]_vars

\* The batcher's task runs on and its timer ticks; attempts end by an answer or a
\* timeout, and they are not repeated for ever (max_elapsed_time); a request that
\* arrived is worked on.
FairSpec ==
    /\ Spec
    /\ WF_vars(Receive) /\ WF_vars(Tick) /\ WF_vars(Shutdown)
    /\ WF_vars(Sink) /\ SF_vars(GiveUp)
    /\ WF_vars(\E q \in requests : Handler(q))

-----------------------------------------------------------------------------
(* Properties.                                                             *)

RequestType == [id : Nat, rep : Replicas, body : SUBSET Results, kept : SUBSET Results,
                at : {"net", "write", "mark"}, awaited : BOOLEAN]

TypeOK ==
    /\ produced \in 0..MaxResults
    /\ chan \in Seq(Results) /\ Len(chan) <= ChanCap
    /\ buffer \in Seq(Results) /\ Len(buffer) <= BufferCap
    /\ retries \in 0..(MaxFlushRetries - 1)
    /\ mode \in {"loop", "flush", "last", "done"}
    /\ post \in [at : {"none", "send", "wait", "failed", "ok"}, id : Nat]
    /\ \A q \in requests : q \in RequestType
    /\ dedup \in [Replicas -> SUBSET Nat]
    /\ stored \in [Results -> [Ttls -> Nat]]
    /\ blocks \subseteq [rows : SUBSET Results, ttl : Ttls]
    /\ ttl \in [Replicas -> Ttls]
    /\ eligible \subseteq Results
    /\ fate \in [counted : SUBSET Results, refused : SUBSET Results, acked : SUBSET Results]
    /\ shutdown \in BOOLEAN
    /\ left \in [faults : 0..MaxFaults, changes : 0..MaxChanges]

Stored(r) == \E t \in Ttls : stored[r][t] > 0

\* A result the agent lets go of as delivered is in the store, or the control plane
\* refused it: no answer, late answer, duplicate or restart makes a batch count as
\* delivered that was not written ("Mark consumed only after a successful write").
AckedIsStored == \A r \in fate.acked : Stored(r) \/ r \in fate.refused

Flushing == mode \in {"flush", "last"}

\* How many flushes a result can have taken part in: those since the buffer was last
\* emptied while it waits there, and no more than MAX_FLUSH_RETRIES once it is gone.
Flushes(r) ==
    IF r \in Elems(buffer) THEN retries + (IF Flushing THEN 1 ELSE 0)
    ELSE IF r \in Elems(chan) \/ r > produced THEN 0
    ELSE MaxFlushRetries

\* A result is stored at most once per flush it takes part in, per set of rows the
\* handlers kept while it did, and per snapshot of retentions its rows were stamped
\* with: however often an attempt is repeated, at whatever replica, nothing but a new
\* body, a new filter or a new stamp makes the store take a result again.
StoredBounded ==
    \A r \in Results : \A t \in Ttls :
        stored[r][t] <= Flushes(r) * (1 + (MaxChanges - left.changes))

\* Every result is stored, refused or counted as dropped in the end, unless the agent
\* is shut down (architecture.md: "count every dropped unit of work").
EveryResultSettles ==
    \A r \in Results :
        (produced >= r) ~> (Stored(r) \/ r \in fate.refused \cup fate.counted \/ shutdown)
=============================================================================
