------------------------------ MODULE BeadWork ------------------------------
(***************************************************************************)
(* What the autonomy does with one bead: run the phases on it, read the    *)
(* ACTIONS block of its agent, apply what the block asks for, judge the    *)
(* gates, and close, block or fail the bead.  The controller's loop        *)
(* (BeadLoop) does this for one bead at a time, the coordinator's pool     *)
(* (BeadPool) for several at once; both extend this module.                *)
(*                                                                         *)
(* Beads live in `bd`, a program of its own: status and needs are its      *)
(* state.  Every call of it is one step (runBD holds a mutex during it)    *)
(* and may fail without an effect.  Text is left out: an ACTIONS block is  *)
(* a record of what decisions read, the calls it leads to a sequence that  *)
(* is worked off one by one.                                               *)
(*                                                                         *)
(* A definition whose name ends in _ and a word is a bug planted in the    *)
(* one it is named after: put in its place it must break a property.       *)
(***************************************************************************)
EXTENDS Integers, Sequences, FiniteSets

CONSTANTS
    Beads,     \* beads that exist or may be created
    NoBead,
    Workers,   \* goroutines that work on beads
    Answers,   \* Answers[b]: the ACTIONS blocks an agent that works on b may write
    NoAnswer,  \* no ACTIONS block, or one that cannot be parsed
    FixOf,     \* FixOf[b]: the id of the fix bead of b, NoBead where there is none
    Options    \* the configurations to consider

VARIABLES
    opts,      \* the configuration, and whether bd may fail
    status,    \* bd: the status of every bead
    needs,     \* bd: <<b, d>> where b depends on d
    attempts,  \* failed gates in a row, per bead (fix_attempts.json)
    work       \* what each worker does

bd == <<status, needs>>
workVars == <<opts, bd, attempts, work>>
-----------------------------------------------------------------------------
(* Values *)

Statuses == {"absent", "open", "in_progress", "review", "blocked", "closed"}

\* What a high-impact closure may demand of an answer.
Evidence == {"council", "critic", "quality", "eval"}

\* The tasks of a tasks file or of create_beads: beads in the order they are created,
\* dependencies in the order they are added.
TaskLists == [beads : Seq(Beads), links : Seq(Beads \X Beads)]
NoTasks == [beads |-> <<>>, links |-> <<>>]

\* What decisions read in an ACTIONS block; an absent list or gates object has the
\* empty sequence, FALSE, or lacks all evidence.
Actions == [updates : Seq(Beads \X (Statuses \ {"absent"})), blocking : BOOLEAN, review : BOOLEAN,
            highImpact : BOOLEAN, lacks : SUBSET Evidence, tasks : TaskLists,
            next : Beads \cup {NoBead}, stop : BOOLEAN]

\* What a configuration says.  faults, a choice of the model, allows bd to fail.
Configs == [autoUpdate : BOOLEAN, autoCreate : BOOLEAN, requireActions : BOOLEAN,
            requireNext : BOOLEAN, stopOnGate : BOOLEAN, failFast : BOOLEAN,
            harness : BOOLEAN, highImpact : BOOLEAN, demands : SUBSET Evidence,
            maxFix : Nat \ {0}, maxBeads : Nat, maxParallel : Nat, phases : Nat \ {0},
            globalAttempts : BOOLEAN, runScoped : BOOLEAN, fallback : BOOLEAN,
            selected : SUBSET Beads, faults : BOOLEAN]

ASSUME WorkConfig ==
    /\ IsFiniteSet(Beads)
    /\ NoBead \notin Beads
    /\ Options \subseteq Configs
    /\ FixOf \in [Beads -> Beads \cup {NoBead}]
    /\ Answers \in [Beads -> SUBSET Actions]
    /\ \A b \in Beads : NoAnswer \notin Answers[b]

\* A worker without a bead.
At(pc) == [pc |-> pc, bead |-> NoBead, answer |-> NoAnswer, todo |-> <<>>,
           gate |-> FALSE, moved |-> FALSE, cut |-> FALSE]

Holding(pc, b) == [At(pc) EXCEPT !.bead = b]

\* The calls of bd that a worker has before it.
BdCalls == [kind : {"set", "mark"}, bead : Beads, to : Statuses \ {"absent"}]
           \cup [kind : {"create"}, bead : Beads, to : {"open"}]
           \cup [kind : {"link"}, bead : Beads, to : Beads]

\* Calls of which none sets a status outside of S.
CallsTo(S) == {c \in BdCalls : c.kind \in {"set", "mark"} => c.to \in S}

WorkerRecords(pcs) == [pc : pcs, bead : Beads \cup {NoBead}, answer : Actions \cup {NoAnswer},
                       todo : Seq(BdCalls), gate : BOOLEAN, moved : BOOLEAN, cut : BOOLEAN]

\* Where a worker is between the start of a run and the verdict on its bead.
Busy == {"run", "apply", "next", "settle", "link", "count", "close",
         "ok", "stopped", "failed"}
-----------------------------------------------------------------------------
(* bd *)

\* `bd ready`: open beads that depend on nothing unfinished.
Ready == {b \in Beads : /\ status[b] = "open"
                        /\ \A d \in Beads : <<b, d>> \in needs => status[d] = "closed"}

\* listReadyBeadsWithScope: with selection_mode run_scoped only the beads of the tasks file.
Candidates(scope) ==
    IF \/ ~opts.runScoped
       \/ scope = {}
       \/ opts.fallback /\ Ready \cap scope = {}
    THEN Ready ELSE Ready \cap scope

OutOfScope(scope) == Ready # {} /\ Candidates(scope) = {}

\* A status is set and the error of the call ignored.
Mark(b, to) == \/ status' = [status EXCEPT ![b] = to]
               \/ opts.faults /\ UNCHANGED status

MarkIfUpdating(b, to) == IF opts.autoUpdate THEN Mark(b, to) ELSE UNCHANGED status

\* The calls of createBeads.
CreateCalls(tasks) ==
    IF ~opts.autoCreate THEN <<>>
    ELSE [i \in DOMAIN tasks.beads |->
            [kind |-> "create", bead |-> tasks.beads[i], to |-> "open"]]
      \o [i \in DOMAIN tasks.links |->
            [kind |-> "link", bead |-> tasks.links[i][1], to |-> tasks.links[i][2]]]

\* One call succeeds.  Creating a bead that exists only rewrites its description.
Effect(c) ==
    \/ /\ c.kind \in {"set", "mark"}
       /\ status[c.bead] # "absent"
       /\ status' = [status EXCEPT ![c.bead] = c.to]
       /\ UNCHANGED needs
    \/ /\ c.kind = "create"
       /\ status' = [status EXCEPT ![c.bead] = IF @ = "absent" THEN c.to ELSE @]
       /\ UNCHANGED needs
    \/ /\ c.kind = "link"
       /\ needs' = needs \cup {<<c.bead, c.to>>}
       /\ UNCHANGED status

MayFail(c) == \/ opts.faults
              \/ c.kind \in {"set", "mark"} /\ status[c.bead] = "absent"

NextCall_IgnoreErrors(w) ==
    LET call == Head(work[w].todo) IN
    /\ work[w].todo # <<>>
    /\ \/ /\ Effect(call)
          /\ work' = [work EXCEPT ![w].todo = Tail(@),
                        ![w].moved = @ \/ (call.kind = "set" /\ call.bead = work[w].bead)]
       \/ /\ MayFail(call)
          /\ work' = [work EXCEPT ![w].todo = Tail(@)]
          /\ UNCHANGED bd
    /\ UNCHANGED <<opts, attempts>>

\* The next call on a worker's list.  Only the mark of a failed gate ignores its error.
NextCall(w) ==
    LET call == Head(work[w].todo) IN
    /\ work[w].todo # <<>>
    /\ \/ /\ Effect(call)
          /\ work' = [work EXCEPT ![w].todo = Tail(@),
                        ![w].moved = @ \/ (call.kind = "set" /\ call.bead = work[w].bead)]
       \/ /\ MayFail(call)
          /\ work' = IF call.kind = "mark" THEN [work EXCEPT ![w].todo = Tail(@)]
                     ELSE [work EXCEPT ![w].pc = "failed", ![w].todo = <<>>]
          /\ UNCHANGED bd
    /\ UNCHANGED <<opts, attempts>>
-----------------------------------------------------------------------------
(* The run of a bead *)

\* applyActions: whether the gates of an answer fail.
HighImpact(a) == opts.harness /\ (opts.highImpact \/ a.highImpact)

GateFails(a) == \/ a.blocking
                \/ a.review
                \/ HighImpact(a) /\ a.lacks \cap opts.demands # {}

Calls_MarkFirst(b, a) ==
    IF opts.autoUpdate
    THEN (IF GateFails(a)
          THEN << [kind |-> "mark", bead |-> b,
                   to |-> IF a.review THEN "review" ELSE "blocked"] >>
          ELSE <<>>)
      \o [i \in DOMAIN a.updates |->
            [kind |-> "set", bead |-> a.updates[i][1], to |-> a.updates[i][2]]]
      \o CreateCalls(a.tasks)
    ELSE CreateCalls(a.tasks)

\* applyActions: the updates of the answer, the mark of a failed gate, the new beads.
Calls(b, a) ==
    (IF opts.autoUpdate
     THEN [i \in DOMAIN a.updates |->
             [kind |-> "set", bead |-> a.updates[i][1], to |-> a.updates[i][2]]]
       \o (IF GateFails(a)
           THEN << [kind |-> "mark", bead |-> b,
                    to |-> IF a.review THEN "review" ELSE "blocked"] >>
           ELSE <<>>)
     ELSE <<>>)
    \o CreateCalls(a.tasks)

\* The run ends with an error.
RunFails(w) ==
    /\ work[w].pc = "run"
    /\ MarkIfUpdating(work[w].bead, "blocked")
    /\ work' = [work EXCEPT ![w].pc = "failed"]
    /\ UNCHANGED <<opts, needs, attempts>>

\* The run ends without an error, whatever its status; its newest ACTIONS block counts.
RunEnds(w) ==
    /\ work[w].pc = "run"
    /\ \E a \in Answers[work[w].bead] \cup {NoAnswer} :
          work' = [work EXCEPT ![w].pc = "apply", ![w].answer = a,
                     ![w].todo = IF a = NoAnswer THEN <<>> ELSE Calls(work[w].bead, a),
                     ![w].gate = a # NoAnswer /\ GateFails(a)]
    /\ UNCHANGED <<opts, bd, attempts>>

\* A run whose context is canceled before its first phase ends without an error too, and
\* has no artifact to read.
RunIsCut(w) ==
    /\ work[w].pc = "run"
    /\ work' = [work EXCEPT ![w].pc = "apply", ![w].cut = TRUE]
    /\ UNCHANGED <<opts, bd, attempts>>

Apply(w) == work[w].pc = "apply" /\ NextCall(w)

Judge_AlwaysMoved(w, then) ==
    /\ work[w].pc = "apply" /\ work[w].todo = <<>>
    /\ IF work[w].answer = NoAnswer /\ opts.requireActions
       THEN MarkIfUpdating(work[w].bead, "blocked")
       ELSE UNCHANGED status
    /\ work' = [work EXCEPT ![w].pc = then, ![w].moved = TRUE,
                  ![w].gate = @ \/ (work[w].answer = NoAnswer /\ opts.requireActions)]
    /\ UNCHANGED <<opts, needs, attempts>>

\* A missing ACTIONS block fails the gate where one is required.
Judge(w, then) ==
    /\ work[w].pc = "apply" /\ work[w].todo = <<>>
    /\ IF work[w].answer = NoAnswer /\ opts.requireActions
       THEN /\ MarkIfUpdating(work[w].bead, "blocked")
            /\ work' = [work EXCEPT ![w].pc = then, ![w].gate = TRUE,
                                    ![w].moved = @ \/ opts.autoUpdate]
       ELSE /\ work' = [work EXCEPT ![w].pc = then]
            /\ UNCHANGED status
    /\ UNCHANGED <<opts, needs, attempts>>
-----------------------------------------------------------------------------
(* A failed gate *)

\* createFixBead, unless the agent asked for beads of its own.  Bound of the model: a
\* fix bead has no fix bead (FixOf is NoBead).
WantsFix(w) == /\ opts.autoCreate
               /\ FixOf[work[w].bead] # NoBead
               /\ work[w].answer # NoAnswer => work[w].answer.tasks.beads = <<>>
               /\ status[FixOf[work[w].bead]] = "absent"

CreateFix(w) ==
    /\ work[w].pc = "settle" /\ work[w].gate
    /\ \/ /\ WantsFix(w)
          /\ status' = [status EXCEPT ![FixOf[work[w].bead]] = "open"]
          /\ work' = [work EXCEPT ![w].pc = "link"]
       \/ /\ WantsFix(w) => opts.faults
          /\ work' = [work EXCEPT ![w].pc = "count"]
          /\ UNCHANGED status
    /\ UNCHANGED <<opts, needs, attempts>>

\* The fix bead is made to depend on the bead whose gate failed.
LinkFix(w) ==
    /\ work[w].pc = "link"
    /\ \/ needs' = needs \cup {<<FixOf[work[w].bead], work[w].bead>>}
       \/ opts.faults /\ UNCHANGED needs
    /\ work' = [work EXCEPT ![w].pc = "count"]
    /\ UNCHANGED <<opts, status, attempts>>

\* fixAttemptTracker: the map is written to its file under a mutex at every change.
Increment(b) == attempts' = [attempts EXCEPT ![b] = @ + 1]

Reset(b) == attempts' = [attempts EXCEPT ![b] = 0]

CountFailure_Late(w) ==
    LET bead == work[w].bead IN
    /\ work[w].pc = "count"
    /\ Increment(bead)
    /\ work' = [work EXCEPT ![w].pc =
                   IF attempts'[bead] > opts.maxFix \/ opts.stopOnGate THEN "failed" ELSE "ok"]
    /\ UNCHANGED <<opts, bd>>

CountFailure_Uncounted(w) ==
    /\ work[w].pc = "count"
    /\ work' = [work EXCEPT ![w].pc = IF opts.stopOnGate THEN "failed" ELSE "ok"]
    /\ UNCHANGED <<opts, bd, attempts>>

\* The failure is counted, and ends the work where a limit says so.
CountFailure(w) ==
    LET bead == work[w].bead IN
    /\ work[w].pc = "count"
    /\ Increment(bead)
    /\ work' = [work EXCEPT ![w].pc =
                   IF attempts'[bead] >= opts.maxFix \/ opts.stopOnGate THEN "failed" ELSE "ok"]
    /\ UNCHANGED <<opts, bd>>
-----------------------------------------------------------------------------
(* A gate that holds *)

PassGate(w) ==
    /\ work[w].pc = "settle" /\ ~work[w].gate
    /\ Reset(work[w].bead)
    /\ work' = [work EXCEPT ![w].pc =
                   IF work[w].answer # NoAnswer /\ work[w].answer.stop
                   THEN "stopped" ELSE "close"]
    /\ UNCHANGED <<opts, bd>>

\* The bead is done, unless the agent has said what becomes of it.
CloseBead(w) ==
    /\ work[w].pc = "close"
    /\ IF work[w].moved THEN UNCHANGED status
       ELSE MarkIfUpdating(work[w].bead, "closed")
    /\ work' = [work EXCEPT ![w].pc = "ok"]
    /\ UNCHANGED <<opts, needs, attempts>>

\* From the end of the run to the verdict.
Finish(w, then) ==
    \/ Apply(w) \/ Judge(w, then)
    \/ CreateFix(w) \/ LinkFix(w) \/ CountFailure(w)
    \/ PassGate(w) \/ CloseBead(w)
-----------------------------------------------------------------------------
(* Properties *)

WorkTypeOK ==
    /\ opts \in Options
    /\ status \in [Beads -> Statuses]
    /\ needs \subseteq Beads \X Beads
    /\ attempts \in [Beads -> Nat]

\* A bead whose gate failed is left blocked or in review, whatever its agent's answer set
\* it to before and whatever beads the answer created.
GatedIsOpen ==
    \A w \in Workers :
        work[w].pc \in {"link", "count"} /\ opts.autoUpdate /\ ~opts.faults
            => status[work[w].bead] \in {"blocked", "review"}
-----------------------------------------------------------------------------
(* Why the properties hold *)

Gated(w) == status[work[w].bead] \in {"blocked", "review"}

NewCalls == {c \in BdCalls : c.kind \in {"create", "link"}}

\* The mark of the bead is the last status that the list sets.
MarkAhead(w) ==
    LET todo == work[w].todo IN
    \E j \in DOMAIN todo :
        /\ todo[j].kind = "mark" /\ todo[j].bead = work[w].bead
        /\ todo[j].to \in {"blocked", "review"}
        /\ \A k \in DOMAIN todo : k > j => todo[k].kind \in {"create", "link"}

\* From the answer to the counting of its failure, a failed gate has marked the bead or is
\* about to.
GateKept(w) ==
    /\ work[w].pc \in {"link", "count"} => work[w].gate
    /\ work[w].pc = "run" => ~work[w].gate
    /\ work[w].gate /\ opts.autoUpdate /\ ~opts.faults =>
          /\ work[w].pc = "apply" => \/ MarkAhead(w)
                                     \/ Gated(w) /\ work[w].todo \in Seq(NewCalls)
          /\ work[w].pc \in {"next", "settle", "link", "count"} => Gated(w)
=============================================================================
