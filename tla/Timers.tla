------------------------------- MODULE Timers -------------------------------
(***************************************************************************)
(* What the scheduler promises: every scheduled target has one timer.  It  *)
(* runs, comes due, and is answered by one probe, which starts it again.   *)
(* Scheduling a target starts its timer afresh, whatever it was doing; an  *)
(* unscheduled target is not probed.  Scheduler implements this with a     *)
(* heap that also holds entries of earlier schedules.                      *)
(***************************************************************************)
CONSTANT Targets

VARIABLES
    timer,  \* per target: off, running or due
    beat,   \* per target: flips with every probe
    on      \* FALSE once the scheduler has been told to stop

vars == <<timer, beat, on>>

Init ==
    /\ timer = [t \in Targets |-> "off"]
    /\ beat = [t \in Targets |-> FALSE]
    /\ on = TRUE

\* A change of the schedule: some targets start afresh, others leave.
Program(start, stop) ==
    /\ on
    /\ timer' = [t \in Targets |-> IF t \in stop THEN "off"
                                   ELSE IF t \in start THEN "running" ELSE timer[t]]
    /\ UNCHANGED <<beat, on>>

Elapse(t) ==
    /\ timer[t] = "running"
    /\ timer' = [timer EXCEPT ![t] = "due"]
    /\ UNCHANGED <<beat, on>>

Fire(t) ==
    /\ on
    /\ timer[t] = "due"
    /\ timer' = [timer EXCEPT ![t] = "running"]
    /\ beat' = [beat EXCEPT ![t] = ~@]
    /\ UNCHANGED on

Stop ==
    /\ on' = FALSE
    /\ UNCHANGED <<timer, beat>>

Next ==
    \/ \E start, stop \in SUBSET Targets : Program(start, stop)
    \/ \E t \in Targets : Elapse(t) \/ Fire(t)
    \/ Stop

Spec == Init /\ [][Next]_vars

\* A timer that runs comes due, and one that is due is answered.
FairSpec == Spec /\ \A t \in Targets : WF_vars(Elapse(t)) /\ WF_vars(Fire(t))
=============================================================================
