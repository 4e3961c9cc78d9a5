---------------------------- MODULE MCRunLifecycle ----------------------------
(***************************************************************************)
(* RunLifecycle for TLC: the fairness of its processes, the properties     *)
(* that only TLC checks, and a claim of the documentation that the code    *)
(* does not keep.                                                          *)
(***************************************************************************)
EXTENDS RunLifecycle

\* The owner's code runs on unless its process dies, a codex call ends (the runner has a
\* timeout), the runs are scanned again and again, time passes, and the writes of run.json by
\* those who scan do not fail for ever.
Fairness ==
    /\ WF_vars(Orchestrate)
    /\ WF_vars(Beat)
    /\ \A f \in Finalizers : /\ WF_vars(Scan(f)) /\ WF_vars(Finalize(f))
                             /\ SF_vars(FinalizeSaveRun(f))
    /\ WF_vars(ChildExits)
    /\ WF_vars(Tick)

LiveSpec == Spec /\ Fairness

\* A run whose process dies at any step, or whose Run returns at any of its exits, is over for
\* every reader in the end, and stays so: FinalizeStaleRuns finds it, whichever of its files
\* exist by then and whichever writes of run.json have failed.
CrashedRunIsClosed == (proc = "crashed" \/ pc = "returned") ~> [](Merged \in Terminal)

\* Run returns unless its process dies, and with an outcome in run.json unless a write of
\* run.json fails: a phase that cannot be recorded returns from Run at once, with run.json
\* still "running" and the lock released.
RunReturns ==
    <>(\/ proc = "crashed"
       \/ pc = "returned" /\ (runStatus \in Terminal \/ unsaved))

\* What docs/specs/review-phase-stability.md says: a run is not closed as stale while
\* its codex child is alive.
LiveChildKeepsRun ==
    children # {} => \A f \in Finalizers : agent[f].pc \notin Finalizing
=============================================================================
