---------------------------- MODULE JobContract ----------------------------
(***************************************************************************)
(* What the job system of jobs.go and jobstore.go promises the rest of the *)
(* program, with no rows, locks, pollers or workers: a submitted job stays *)
(* open until it settles, it settles as done only after its handler has    *)
(* succeeded, as failed only after MaxAttempts errors (or when no handler  *)
(* is registered for it), and a settled job never changes again.           *)
(* The handler itself may run any number of times while the job is open:   *)
(* the promise is at-least-once.                                           *)
(***************************************************************************)
EXTENDS Naturals

CONSTANTS Jobs, Unhandled, MaxAttempts

VARIABLES phase,      \* phase[j]: "absent", "open", "done" or "failed"
          succeeded,  \* the jobs whose handler has returned nil at least once
          errors      \* errors[j]: handler errors so far, MaxAttempts meaning "or more"

vars == <<phase, succeeded, errors>>

Init ==
  /\ phase = [j \in Jobs |-> "absent"]
  /\ succeeded = {}
  /\ errors = [j \in Jobs |-> 0]

Submit(j) ==
  /\ phase[j] = "absent"
  /\ phase' = [phase EXCEPT ![j] = "open"]
  /\ UNCHANGED <<succeeded, errors>>

\* The handler runs only for an open job that has one.
Execute(j) ==
  /\ phase[j] = "open"
  /\ j \notin Unhandled
  /\ \/ /\ succeeded' = succeeded \cup {j}
        /\ UNCHANGED errors
     \/ /\ errors' = [errors EXCEPT ![j] = IF @ < MaxAttempts THEN @ + 1 ELSE @]
        /\ UNCHANGED succeeded
  /\ UNCHANGED phase

Settle(j, outcome) ==
  /\ phase[j] = "open"
  /\ \/ outcome = "done" /\ j \in succeeded
     \/ outcome = "failed" /\ (j \in Unhandled \/ errors[j] >= MaxAttempts)
  /\ phase' = [phase EXCEPT ![j] = outcome]
  /\ UNCHANGED <<succeeded, errors>>

Next ==
  \E j \in Jobs :
    \/ Submit(j)
    \/ Execute(j)
    \/ \E outcome \in {"done", "failed"} : Settle(j, outcome)

Spec == Init /\ [][Next]_vars
=============================================================================
