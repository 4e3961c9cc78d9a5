----------------------------- MODULE MCBeadLoop -----------------------------
(***************************************************************************)
(* BeadLoop for TLC: a plan of two beads of which the second depends on    *)
(* the first and another with the second alone, a third bead that an agent *)
(* may create, answers that open, close and create beads, and fairness.    *)
(***************************************************************************)
EXTENDS BeadLoop

CONSTANTS a, b, c, fa

MCPlan == [beads |-> <<a, b>>, links |-> << <<b, a>> >>]

MCPlans == { MCPlan, [beads |-> <<b>>, links |-> <<>>] }

OnePlan == { MCPlan }

MCFixOf == [x \in Beads |-> IF x = a THEN fa ELSE NoBead]

Plain == [updates |-> <<>>, blocking |-> FALSE, review |-> FALSE, highImpact |-> FALSE,
          lacks |-> {}, tasks |-> NoTasks, next |-> NoBead, stop |-> FALSE]

\* A failed gate may reopen another bead, and so may one that holds, for as long as the agent
\* likes; only a stop leaves the bead undecided.
MCAnswers ==
    [x \in Beads |->
        CASE x = a ->
               { Plain,
                 [Plain EXCEPT !.updates = << <<a, "closed">> >>, !.blocking = TRUE],
                 [Plain EXCEPT !.updates = << <<a, "closed">>, <<b, "closed">> >>,
                     !.tasks = [beads |-> <<c, fa>>, links |-> << <<c, a>> >>],
                     !.next = c] }
          [] x = b -> { Plain,
                        [Plain EXCEPT !.updates = << <<b, "open">> >>],
                        [Plain EXCEPT !.updates = << <<a, "open">> >>, !.review = TRUE],
                        [Plain EXCEPT !.updates = << <<c, "open">> >>, !.blocking = TRUE],
                        [Plain EXCEPT !.stop = TRUE] }
          [] OTHER -> { Plain,
                        [Plain EXCEPT !.updates = << <<b, "open">> >>,
                           !.highImpact = TRUE, !.lacks = {"quality"}, !.next = b] }]

Default ==
    [autoUpdate |-> TRUE, autoCreate |-> TRUE, requireActions |-> TRUE,
     requireNext |-> TRUE, stopOnGate |-> FALSE, failFast |-> FALSE, harness |-> TRUE,
     highImpact |-> FALSE, demands |-> Evidence, maxFix |-> 2, maxBeads |-> 0,
     maxParallel |-> 2, phases |-> 1, globalAttempts |-> TRUE, runScoped |-> TRUE,
     fallback |-> FALSE, selected |-> {}, faults |-> FALSE]

MCOptions ==
    { Default,
      [Default EXCEPT !.runScoped = FALSE, !.requireNext = FALSE, !.requireActions = FALSE],
      [Default EXCEPT !.fallback = TRUE, !.globalAttempts = FALSE, !.maxBeads = 3],
      [Default EXCEPT !.runScoped = FALSE, !.faults = TRUE, !.maxFix = 1],
      [Default EXCEPT !.autoUpdate = FALSE, !.stopOnGate = TRUE, !.maxBeads = 2],
      [Default EXCEPT !.autoUpdate = FALSE] }

\* The configuration of loop_deadlock.
DefaultOptions == { Default }

\* The process runs on, and its runs end.
LiveSpec == Spec /\ WF_vars(Process)

\* A bead is added, or an answer whose gates hold opens one again.
Renews == \E x \in Beads :
             /\ status[x] # "open" /\ status'[x] = "open"
             /\ status[x] = "absent" \/ (pc = "apply" /\ ~work[Me].gate)

\* Controller.Run returns if max_beads limits it.  Without that limit it returns if beads are
\* closed when they are done (beads.auto_update) and, from some time on, no bead is added and
\* no answer whose gates hold opens one again; answers whose gates fail may go on opening
\* beads, as max_fix_attempts ends that.  An agent that passes its gates and opens its own bead
\* again keeps the loop going for ever, and so does one that adds beads, of which the model has
\* finitely many.
LoopReturns ==
    /\ opts.maxBeads > 0 => []<>(pc = "gone")
    /\ opts.autoUpdate /\ <>[][~Renews]_vars => []<>(pc = "gone")
=============================================================================
