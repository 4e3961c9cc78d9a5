------------------------------ MODULE MCRunner ------------------------------
(***************************************************************************)
(* Runner for TLC: the configurations, the fairness of the goroutines, the *)
(* end of a call, and what the documentation says of its output file.      *)
(***************************************************************************)
EXTENDS Runner

MCOptions == {[idle |-> 0, watch |-> FALSE, old |-> FALSE],
              [idle |-> 0, watch |-> TRUE, old |-> TRUE],
              [idle |-> 2, watch |-> TRUE, old |-> FALSE]}

\* The goroutines run on and time passes; neither the child nor the caller has to do
\* anything.
LiveSpec == /\ Spec
            /\ WF_vars(Exec) /\ WF_vars(WaitReturns) /\ WF_vars(Tick)
            /\ \A p \in Pipes : WF_vars(Reader(p))

\* Exec returns when the child has ended or the context is done; with an idle timeout,
\* and for a child that asks for follow-up, also without either: the child falls silent
\* after MaxWrites, and the loop must notice.
ExecReturns ==
    pc = "select" /\ (child # "running" \/ ctx = "done" \/ opts.idle > 0 \/ marked)
        ~> pc = "returned"

\* What docs/config/README.md says of output_last_message: the final message of a call is
\* written to its artifact.  A call that is "ok" for its settled output left such a file.
OutputIsOfThisCall ==
    pc = "returned" /\ settled => version > (IF opts.old THEN 1 ELSE 0)
=============================================================================
