------------------------------ MODULE RunOutcome ------------------------------
(***************************************************************************)
(* What the files of a run promise about its outcome, whoever writes them: *)
(* the process that owns the run says how it ended, once, while it is at   *)
(* work.  Others may write an outcome only when the owner cannot any more, *)
(* because it died or because it returned, and then the outcome is         *)
(* "failed".  No other step changes run.json.                              *)
(*                                                                         *)
(* Two events void a part of the promise, and only that part.  A kill that *)
(* comes before the owner has its lock contests the run: from then on a    *)
(* closer and the owner write over each other.  A write of the owner that  *)
(* fails is lost: the owner may then leave without an outcome.             *)
(***************************************************************************)

VARIABLES
    status,     \* run.json
    owner,      \* what became of the process that owns the run
    contested,  \* somebody closes the run although its owner is alive
    unsaved     \* the owner could not write run.json

vars == <<status, owner, contested, unsaved>>

Ended == {"completed", "canceled", "failed"}
AtWork == {"starting", "working"}

Init == status = "absent" /\ owner = "none" /\ contested = FALSE /\ unsaved = FALSE

Begin == /\ owner = "none"
         /\ owner' = "starting"
         /\ status' = "running"
         /\ UNCHANGED <<contested, unsaved>>

\* The owner has its lock.
Hold == /\ owner = "starting"
        /\ owner' = "working"
        /\ UNCHANGED <<status, contested, unsaved>>

\* A kill comes before the owner has its lock, and never later.
Contest == /\ owner = "starting"
           /\ contested' = TRUE
           /\ UNCHANGED <<status, owner, unsaved>>

\* The owner ends its run, which nobody has ended before.
Finish == /\ owner = "working"
          /\ status = "running" \/ contested
          /\ status' \in Ended
          /\ UNCHANGED <<owner, contested, unsaved>>

\* The owner of a contested run takes the closer's outcome back.
Resume == /\ owner \in AtWork
          /\ contested
          /\ status' = "running"
          /\ UNCHANGED <<owner, contested, unsaved>>

\* The owner cannot write run.json: it gives up, or goes on without.
Lose == /\ owner \in AtWork
        /\ unsaved' = TRUE
        /\ owner' \in {owner, "gone"}
        /\ UNCHANGED <<status, contested>>

\* The owner returns, and not before its run has an outcome.
Leave == /\ owner = "working"
         /\ status \in Ended \/ unsaved
         /\ owner' = "gone"
         /\ UNCHANGED <<status, contested, unsaved>>

\* The lock could not be acquired: the owner ends its run and returns at once.
Refuse == /\ owner = "starting"
          /\ status = "running" \/ contested
          /\ status' = "failed"
          /\ owner' = "gone"
          /\ UNCHANGED <<contested, unsaved>>

Die == /\ owner \in AtWork
       /\ owner' = "dead"
       /\ UNCHANGED <<status, contested, unsaved>>

\* Somebody else closes the run of an owner that cannot, or after an early kill.
Close == /\ owner \in {"dead", "gone"} \/ contested
         /\ status' = "failed"
         /\ UNCHANGED <<owner, contested, unsaved>>

Next == \/ Begin \/ Hold \/ Contest \/ Finish \/ Resume \/ Lose
        \/ Leave \/ Refuse \/ Die \/ Close

Spec == Init /\ [][Next]_vars
=============================================================================
