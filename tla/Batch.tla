-------------------------------- MODULE Batch --------------------------------
(***************************************************************************)
(* What the coordinator promises about the beads it selects: each one is   *)
(* taken once per phase and worked on once it is taken.  It may be dropped *)
(* only after another one failed, and then the verdict is an error.  A     *)
(* verdict without an error means that every bead was worked on.           *)
(***************************************************************************)
EXTENDS FiniteSets

CONSTANT Beads

VARIABLES
    waiting,  \* beads nobody has taken
    taken,    \* beads a worker has taken and may still drop
    working,  \* beads under work
    failed,   \* beads whose work failed
    verdict   \* "none" before the selection, "open" during the work

Init == /\ waiting = {} /\ taken = {} /\ working = {} /\ failed = {}
        /\ verdict = "none"

\* No bead is selected.
Decline == /\ verdict = "none"
           /\ verdict' \in {"nothing", "error"}
           /\ UNCHANGED <<waiting, taken, working, failed>>

\* A phase begins with all the beads it works on.
Offer == /\ waiting = {} /\ taken = {} /\ working = {} /\ failed = {}
         /\ verdict \in {"none", "open"}
         /\ waiting' \in (SUBSET Beads) \ {{}}
         /\ verdict' = "open"
         /\ UNCHANGED <<taken, working, failed>>

Take(b) == /\ b \in waiting
           /\ waiting' = waiting \ {b}
           /\ taken' = taken \cup {b}
           /\ UNCHANGED <<working, failed, verdict>>

Drop(b) == /\ b \in taken
           /\ failed # {}
           /\ taken' = taken \ {b}
           /\ UNCHANGED <<waiting, working, failed, verdict>>

Start(b) == /\ b \in taken
            /\ taken' = taken \ {b}
            /\ working' = working \cup {b}
            /\ UNCHANGED <<waiting, failed, verdict>>

End(b) == /\ b \in working
          /\ working' = working \ {b}
          /\ failed' \in {failed, failed \cup {b}}
          /\ UNCHANGED <<waiting, taken, verdict>>

Conclude == /\ verdict = "open"
            /\ taken = {} /\ working = {}
            /\ \/ waiting = {} /\ failed = {} /\ verdict' = "ok"
               \/ failed # {} /\ verdict' = "error"
            /\ UNCHANGED <<waiting, taken, working, failed>>

Next == \/ Decline \/ Offer \/ Conclude
        \/ \E b \in Beads : Take(b) \/ Drop(b) \/ Start(b) \/ End(b)

Spec == Init /\ [][Next]_<<waiting, taken, working, failed, verdict>>
=============================================================================
