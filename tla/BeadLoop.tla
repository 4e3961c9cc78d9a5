------------------------------ MODULE BeadLoop ------------------------------
(***************************************************************************)
(* The autonomy controller without a coordinator: one process creates the  *)
(* beads of its plan, then takes one ready bead after the other until none *)
(* is ready, a limit is reached, or something fails.  The process may die  *)
(* at any step.  A later one has codex write a new spec, plan and tasks    *)
(* file: it may plan the same beads, others, or other dependencies, and    *)
(* nobody returns to the plan of the process before.  People may reopen    *)
(* beads in between.                                                       *)
(***************************************************************************)
EXTENDS BeadWork

CONSTANTS
    Me,        \* the one worker
    Plans,     \* the tasks files that codex may write
    MaxStarts  \* bound of the model: how often a process is started

ASSUME LoopConfig == /\ Workers = {Me}
                     /\ Plans \subseteq TaskLists
                     /\ MaxStarts \in Nat

VARIABLES
    plan,       \* the tasks file of the process
    hint,       \* nextHint: the bead the last answer asks for
    processed,  \* beads taken by this process, where max_beads limits them
    starts,     \* processes started
    verdict,    \* how the last process ended
    tries,      \* runs of a bead in this process since its gate held, capped beyond maxFix
    planned     \* the dependencies of the plans of which a process has created all
                \* (only properties read these two)

loopVars == <<plan, hint, processed, starts, verdict, tries, planned>>
vars == <<workVars, loopVars>>

pc == work[Me].pc

\* buildBeadScopeFromTasks, and the dependencies of the tasks.
Scope == {plan.beads[i] : i \in DOMAIN plan.beads}
Links == {plan.links[i] : i \in DOMAIN plan.links}
-----------------------------------------------------------------------------
(* The loop *)

\* newFixAttemptTracker: with the scope "global" the attempts are those of the file.
Load == attempts' = IF opts.globalAttempts THEN attempts ELSE [b \in Beads |-> 0]

\* A process starts: it has a tasks file of its own, and its attempts.
Begin ==
    /\ pc = "gone" /\ starts < MaxStarts
    /\ plan' \in Plans
    /\ work' = [work EXCEPT ![Me] = [At("plan") EXCEPT !.todo = CreateCalls(plan')]]
    /\ Load
    /\ starts' = starts + 1
    /\ hint' = NoBead /\ processed' = 0 /\ verdict' = "none"
    /\ tries' = [b \in Beads |-> 0]
    /\ UNCHANGED <<opts, bd, planned>>

\* createBeads: the first error ends the process.
Create == /\ pc = "plan"
          /\ NextCall(Me)
          /\ UNCHANGED loopVars

Created == /\ pc = "plan" /\ work[Me].todo = <<>>
           /\ work' = [work EXCEPT ![Me] = At("select")]
           /\ planned' = IF opts.autoCreate THEN planned \cup Links ELSE planned
           /\ UNCHANGED <<opts, bd, attempts, plan, hint, processed, starts, verdict, tries>>

\* Controller.Run returns.
Return(v) == /\ work' = [work EXCEPT ![Me] = At("gone")]
             /\ verdict' = v
             /\ UNCHANGED <<opts, bd, attempts, plan, hint, processed, starts, tries, planned>>

AtLimit_Late == opts.maxBeads > 0 /\ processed > opts.maxBeads

AtLimit == opts.maxBeads > 0 /\ processed >= opts.maxBeads

LimitReached == pc = "select" /\ AtLimit /\ Return("limit")

\* selectBead: bd fails, or nothing in scope is ready.
SelectFails == /\ pc = "select" /\ ~AtLimit
               /\ opts.faults \/ OutOfScope(Scope)
               /\ Return("error")

NothingReady == /\ pc = "select" /\ ~AtLimit
                /\ Ready = {}
                /\ Return("complete")

\* The bead the last answer asked for if it is a candidate, else the first candidate,
\* which may be any of them as priorities are left out.
Select ==
    /\ pc = "select" /\ ~AtLimit
    /\ \E b \in IF hint \in Candidates(Scope) THEN {hint} ELSE Candidates(Scope) :
          /\ status' = IF opts.autoUpdate THEN [status EXCEPT ![b] = "in_progress"]
                       ELSE status
          /\ work' = [work EXCEPT ![Me] = Holding("run", b)]
          /\ tries' = [tries EXCEPT ![b] = IF @ > opts.maxFix THEN @ ELSE @ + 1]
    /\ hint' = NoBead
    /\ processed' = IF opts.maxBeads > 0 THEN processed + 1 ELSE processed
    /\ UNCHANGED <<opts, needs, attempts, plan, starts, verdict, planned>>

Work == /\ RunFails(Me) \/ RunEnds(Me) \/ Finish(Me, "next")
        /\ tries' = IF pc = "settle" /\ ~work[Me].gate
                    THEN [tries EXCEPT ![work[Me].bead] = 0] ELSE tries
        /\ UNCHANGED <<plan, hint, processed, starts, verdict, planned>>

\* The answer has to name a next bead while several are ready.
Undecided == /\ opts.requireNext /\ ~work[Me].gate
             /\ work[Me].answer # NoAnswer
             /\ work[Me].answer.next = NoBead

CheckNext ==
    /\ pc = "next"
    /\ hint' = IF work[Me].answer = NoAnswer THEN NoBead ELSE work[Me].answer.next
    /\ \/ /\ Undecided /\ Cardinality(Ready) > 1
          /\ MarkIfUpdating(work[Me].bead, "blocked")
          /\ work' = [work EXCEPT ![Me].pc = "settle", ![Me].gate = TRUE,
                                  ![Me].moved = @ \/ opts.autoUpdate]
       \/ /\ ~(Undecided /\ Cardinality(Ready) > 1)
          /\ work' = [work EXCEPT ![Me].pc = "settle"]
          /\ UNCHANGED status
       \/ /\ Undecided /\ opts.faults
          /\ work' = [work EXCEPT ![Me].pc = "failed"]
          /\ UNCHANGED status
    /\ UNCHANGED <<opts, needs, attempts, plan, processed, starts, verdict, tries, planned>>

Iterate == /\ pc = "ok"
           /\ work' = [work EXCEPT ![Me] = At("select")]
           /\ UNCHANGED <<opts, bd, attempts, loopVars>>

\* An error ends the process, and so does a stop that the agent asks for.
GiveUp == pc = "failed" /\ Return("error")

Stop == pc = "stopped" /\ Return("stopped")

Process == \/ Create \/ Created \/ LimitReached \/ SelectFails \/ NothingReady \/ Select
           \/ Work \/ CheckNext \/ Iterate \/ GiveUp \/ Stop
-----------------------------------------------------------------------------
(* The rest of the world *)

Crash == pc # "gone" /\ Return("crashed")

\* Between two processes somebody reopens a bead.
Reopen == /\ pc = "gone" /\ starts < MaxStarts
          /\ \E b \in Beads : /\ status[b] \in {"in_progress", "review", "blocked"}
                              /\ status' = [status EXCEPT ![b] = "open"]
          /\ UNCHANGED <<opts, needs, attempts, work, loopVars>>

Rest == pc = "gone" /\ starts = MaxStarts /\ UNCHANGED vars

Init == /\ opts \in Options
        /\ status = [b \in Beads |-> "absent"]
        /\ needs = {}
        /\ attempts = [b \in Beads |-> 0]
        /\ work = [w \in Workers |-> At("gone")]
        /\ plan = NoTasks
        /\ hint = NoBead /\ processed = 0 /\ starts = 0 /\ verdict = "none"
        /\ tries = [b \in Beads |-> 0]
        /\ planned = {}

Next == Begin \/ Process \/ Crash \/ Reopen \/ Rest

Spec == Init /\ [][Next]_vars
-----------------------------------------------------------------------------
(* Properties *)

LoopPcs == {"gone", "plan", "select"} \cup Busy

TypeOK ==
    /\ WorkTypeOK
    /\ work \in [Workers -> WorkerRecords(LoopPcs)]
    /\ plan \in Plans \cup {NoTasks}
    /\ hint \in Beads \cup {NoBead}
    /\ processed \in 0 .. opts.maxBeads
    /\ starts \in 0 .. MaxStarts
    /\ verdict \in {"none", "complete", "limit", "error", "stopped", "crashed"}
    /\ tries \in [Beads -> Nat]
    /\ planned \subseteq Beads \X Beads

\* max_fix_attempts caps the retries: no process runs a bead more often than that without
\* its gate holding in between, however often its agents reopen it.
RetriesCapped == \A b \in Beads : tries[b] <= opts.maxFix

\* No agent sets a bead to "in_progress".
NoneTaken == \A b \in Beads : \A x \in Answers[b] : \A i \in DOMAIN x.updates :
                x.updates[i][2] # "in_progress"

\* bd never lists a bead in progress again.  A first process leaves none behind when it finds
\* nothing more to do or reaches max_beads.  When an agent asks to stop, when something fails
\* and when the process dies it may leave one, the bead it has in hand, and never a second.
\* This is so unless agents set beads in progress (NoneTaken) or calls of bd fail; a later
\* process finds what the first has left.
NothingStranded ==
    NoneTaken /\ starts = 1 /\ ~opts.faults =>
        /\ verdict \in {"complete", "limit"} => \A b \in Beads : status[b] # "in_progress"
        /\ \A b, d \in Beads :
              status[b] = "in_progress" /\ status[d] = "in_progress" => b = d

\* A bead is taken only when the beads its task depends on are closed, in every plan of which
\* a process, the running one or an earlier one, has created all beads and dependencies.  A
\* plan whose creation was cut off by a crash or a failing call of bd is no such plan: no
\* later process links its beads, and they may be taken too early.
DependenciesFirst ==
    [][\A link \in planned :
          pc = "select" /\ work'[Me].bead = link[1] => status[link[2]] = "closed"]_vars

\* What docs/plans/autocodex-autonomy-loop.md says: execution ends when no open bead is
\* left.
CompleteLeavesNoneOpen ==
    verdict = "complete" => \A b \in Beads : status[b] # "open"
-----------------------------------------------------------------------------
(* Why the properties hold: what every reachable state satisfies *)

InHand == work[Me].bead

\* A busy worker has a bead that exists.
BeadInHand == /\ pc \in Busy /\ (pc = "failed" => InHand # NoBead)
                    => InHand \in Beads /\ status[InHand] # "absent"
              /\ pc = "link" => FixOf[InHand] \in Beads
              /\ pc = "plan" => InHand = NoBead

\* Without a bead in hand a process has not run the bead since its gate held, or has
\* counted every failure since, and they are below the limit.
Spare(b) == tries[b] = 0 \/ (tries[b] <= attempts[b] /\ attempts[b] < opts.maxFix)

\* The bead in hand is one run ahead of its count.
Ahead(b) == tries[b] = 1 \/ (tries[b] <= attempts[b] + 1 /\ attempts[b] < opts.maxFix)

RunsAreCounted ==
    /\ RetriesCapped
    /\ pc \in {"plan", "select", "ok", "close"} => \A b \in Beads : Spare(b)
    /\ pc \in {"run", "apply", "next", "settle", "link", "count"} =>
          Ahead(InHand) /\ \A b \in Beads \ {InHand} : Spare(b)

\* A link of a plan is in bd, or on the list of the process that creates the plan.
PlanIsLinked ==
    LET todo == work[Me].todo IN
    /\ pc = "plan" => plan \in TaskLists /\ todo \in Seq(NewCalls)
    /\ opts.autoCreate /\ pc = "plan" =>
          \A i \in DOMAIN plan.links :
             \/ plan.links[i] \in needs
             \/ \E j \in DOMAIN todo : /\ todo[j].kind = "link"
                                        /\ todo[j].bead = plan.links[i][1]
                                        /\ todo[j].to = plan.links[i][2]
    /\ planned \subseteq needs

LoopInv == TypeOK /\ BeadInHand /\ GateKept(Me) /\ RunsAreCounted /\ PlanIsLinked

\* The first process leaves a bead in progress only while it has it in hand, or when it
\* ends in another way.
NoneStranded ==
    /\ starts = 0 => pc = "gone"
    /\ verdict = "none" <=> pc # "gone" \/ starts = 0
    /\ work[Me].todo \in Seq(CallsTo(Statuses \ {"absent", "in_progress"}))
    /\ starts <= 1 /\ ~opts.faults => \A b \in Beads : status[b] = "in_progress" =>
          /\ opts.autoUpdate
          /\ pc \notin {"plan", "select", "ok"}
          /\ pc = "gone" => verdict \notin {"none", "complete", "limit"}
          /\ pc \in Busy => b = InHand
          /\ pc \in Busy \ {"failed", "stopped"} => ~work[Me].moved
    /\ starts <= 1 /\ ~opts.faults => \A b, d \in Beads :
          status[b] = "in_progress" /\ status[d] = "in_progress" => b = d
=============================================================================
