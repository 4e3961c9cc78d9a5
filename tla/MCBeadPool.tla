----------------------------- MODULE MCBeadPool -----------------------------
(***************************************************************************)
(* BeadPool for TLC: two beads of which one may get a fix bead, the        *)
(* answers their agents give, the configurations of the pool, and the      *)
(* fairness of its goroutines.                                             *)
(***************************************************************************)
EXTENDS BeadPool

CONSTANTS a, b, fa

MCFixOf == [x \in Beads |-> IF x = a THEN fa ELSE NoBead]

MCScope == {a, b}

MCWorkers == 1 .. Cardinality(Beads)

Plain == [updates |-> <<>>, blocking |-> FALSE, review |-> FALSE, highImpact |-> FALSE,
          lacks |-> {}, tasks |-> NoTasks, next |-> NoBead, stop |-> FALSE]

\* The agent of a closes the bead itself while its gate fails, with or without beads of
\* its own; the others pass, or ask to stop.
MCAnswers ==
    [x \in Beads |->
        IF x = a
        THEN { [Plain EXCEPT !.updates = << <<a, "closed">> >>, !.blocking = TRUE],
               [Plain EXCEPT !.updates = << <<a, "closed">> >>, !.highImpact = TRUE,
                             !.lacks = {"critic"}],
               [Plain EXCEPT !.review = TRUE,
                             !.tasks = [beads |-> <<fa>>, links |-> << <<fa, b>> >>]] }
        ELSE { Plain, [Plain EXCEPT !.stop = TRUE],
               [Plain EXCEPT !.updates = << <<x, "review">> >>] }]

Default ==
    [autoUpdate |-> TRUE, autoCreate |-> TRUE, requireActions |-> TRUE,
     requireNext |-> FALSE, stopOnGate |-> TRUE, failFast |-> TRUE, harness |-> TRUE,
     highImpact |-> FALSE, demands |-> Evidence, maxFix |-> 3, maxBeads |-> 0,
     maxParallel |-> 2, phases |-> 1, globalAttempts |-> TRUE, runScoped |-> TRUE,
     fallback |-> FALSE, selected |-> {}, faults |-> FALSE]

MCOptions ==
    { Default,
      [Default EXCEPT !.failFast = FALSE, !.stopOnGate = FALSE, !.maxFix = 2],
      [Default EXCEPT !.requireNext = TRUE, !.faults = TRUE, !.maxBeads = 2],
      [Default EXCEPT !.phases = 2, !.globalAttempts = FALSE, !.maxFix = 1,
                      !.requireActions = FALSE, !.failFast = FALSE],
      [Default EXCEPT !.maxParallel = 0, !.runScoped = FALSE, !.selected = {a, fa},
                      !.autoUpdate = FALSE, !.stopOnGate = FALSE] }

\* The configuration of pool_fail_fast: ACTIONS are optional.
LenientOptions == { [Default EXCEPT !.requireActions = FALSE] }

\* Goroutines run on, a run ends (every phase has a deadline), and bd calls return.
LiveSpec == /\ Spec
            /\ WF_vars(Coordinator)
            /\ \A w \in Workers : WF_vars(Worker(w))

\* The pool ends, whichever workers fail, drop their bead or cancel the others.
PoolReturns == <>(stage = "over")
=============================================================================
