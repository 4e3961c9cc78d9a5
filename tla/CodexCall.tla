------------------------------ MODULE CodexCall ------------------------------
(***************************************************************************)
(* What the codex runner promises its callers about one call: it returns   *)
(* once, and only when the child is gone; "ok" means that the child        *)
(* succeeded, or that its output file was complete when it was killed.     *)
(***************************************************************************)
VARIABLES
    child,    \* "none", "alive" or "gone"
    exit,     \* how the child ended
    final,    \* the output file has been left alone long enough
    verdict   \* what the call returns, "none" before that

Exits == {"zero", "nonzero", "killed"}

Errors == {"follow_up", "idle", "failed", "timeout"}

Init == /\ child = "none" /\ exit = "none"
        /\ final \in BOOLEAN
        /\ verdict = "none"

Launch == /\ child = "none" /\ verdict = "none"
          /\ child' = "alive"
          /\ UNCHANGED <<exit, final, verdict>>

Refuse == /\ child = "none" /\ verdict = "none"
          /\ verdict' = "failed"
          /\ UNCHANGED <<child, exit, final>>

\* The child ends, by itself or killed, and is reaped.
End == /\ child = "alive"
       /\ child' = "gone"
       /\ exit' \in Exits
       /\ UNCHANGED <<final, verdict>>

\* The file is written, or has rested for long enough.
Rest == /\ verdict = "none"
        /\ final' \in BOOLEAN
        /\ UNCHANGED <<child, exit, verdict>>

Return == /\ child = "gone" /\ verdict = "none"
          /\ \/ verdict' = "ok" /\ (exit = "zero" \/ final)
             \/ verdict' = "failed" /\ exit # "zero"
             \/ verdict' \in Errors \ {"failed"}
          /\ UNCHANGED <<child, exit, final>>

Next == Launch \/ Refuse \/ End \/ Rest \/ Return

Spec == Init /\ [][Next]_<<child, exit, final, verdict>>
=============================================================================
