----------------------------- MODULE MCJobQueue -----------------------------
(***************************************************************************)
(* Instances of JobQueue for TLC.  Jobs, processes and workers are model   *)
(* values; j3, when it is there, is a row no handler is registered for.    *)
(***************************************************************************)
EXTENDS JobQueue, TLC

AllFaults == {"crash", "claim", "write"}
Crashes == {"crash"}
NoFaults == {}

\* Workers and processes are interchangeable, and so are handled jobs.
Symmetry == Permutations(Slots) \cup Permutations(Procs) \cup Permutations(Jobs \ Unhandled)
=============================================================================
