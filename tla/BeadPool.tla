------------------------------ MODULE BeadPool ------------------------------
(***************************************************************************)
(* The autonomy coordinator: it lists the ready beads once, and lets a     *)
(* pool of workers run them, once in all or once per phase.  The channel   *)
(* between coordinator and workers holds the whole round, so sending never *)
(* blocks: beads sent[got+1 .. sent] of the round are in it.  With         *)
(* fail_fast, the first worker that fails cancels the context of the pool. *)
(* Workers collect errors in a list and cancel in separate steps.          *)
(***************************************************************************)
EXTENDS BeadWork

CONSTANT Scope  \* the beads of the tasks file

ASSUME PoolWorkers == Workers = 1 .. Cardinality(Beads)

VARIABLES
    stage,     \* of runCoordinator and runParallelBeads
    round,     \* the beads of the round, in the order of their priority
    phase,     \* index of the phase, 1 with strategy "bead"
    sent,      \* number of beads sent into the channel
    got,       \* number of beads received from it
    canceled,  \* the context of the pool is canceled
    errs,      \* beads whose error is in errList
    verdict    \* what runCoordinator returns

channel == <<round, sent, got>>
control == <<stage, phase, verdict>>
vars == <<workVars, channel, control, canceled, errs>>
-----------------------------------------------------------------------------
(* The coordinator *)

\* The values of a bead's priority and id are left out: any order may be theirs.
Listings(S) == {r \in [1 .. Cardinality(S) -> S] :
                   \A i, j \in DOMAIN r : r[i] = r[j] => i = j}

\* max_beads, 0 for no limit.
Capped(n) == IF opts.maxBeads > 0 /\ n > opts.maxBeads THEN opts.maxBeads ELSE n

\* bead_ids and bead_prefix select beads; without them all candidates are.
Picked == IF opts.selected = {} THEN Candidates(Scope)
          ELSE Candidates(Scope) \cap opts.selected

\* resolveMaxParallel and require_next.
PoolSize(n) == IF opts.requireNext THEN 1
               ELSE IF opts.maxParallel = 0 \/ opts.maxParallel > n THEN n
               ELSE opts.maxParallel

\* A phase starts: fresh channel, context and counters, and n beads for its workers.
StartPool(n) ==
    /\ stage' = "feed"
    /\ sent' = 0 /\ got' = 0
    /\ canceled' = FALSE
    /\ attempts' = IF opts.globalAttempts THEN attempts ELSE [b \in Beads |-> 0]
    /\ work' = [w \in Workers |-> At(IF w <= PoolSize(n) THEN "wait" ELSE "gone")]

Return(v) == /\ stage' = "over"
             /\ verdict' = v
             /\ UNCHANGED <<workVars, channel, phase, canceled, errs>>

\* bd fails, the scope has no ready bead, or the selectors match none.
ListFails == /\ stage = "list"
             /\ \/ opts.faults
                \/ OutOfScope(Scope)
                \/ opts.selected # {} /\ Picked = {}
             /\ Return("error")

NothingReady == /\ stage = "list"
                /\ Ready = {} /\ opts.selected = {}
                /\ Return("nothing")

ListReady ==
    /\ stage = "list"
    /\ Picked # {}
    /\ \E r \in Listings(Picked) : round' = SubSeq(r, 1, Capped(Len(r)))
    /\ StartPool(Len(round'))
    /\ verdict' = "open"
    /\ UNCHANGED <<opts, bd, phase, errs>>

Feed_OneMore ==
    /\ stage = "feed"
    /\ IF canceled \/ sent > Len(round)
       THEN stage' = "join" /\ UNCHANGED sent
       ELSE sent' = sent + 1 /\ UNCHANGED stage
    /\ UNCHANGED <<workVars, round, got, phase, verdict, canceled, errs>>

\* One bead goes into the channel, unless the context is canceled.
Feed == /\ stage = "feed"
        /\ IF canceled \/ sent = Len(round)
           THEN stage' = "join" /\ UNCHANGED sent
           ELSE sent' = sent + 1 /\ UNCHANGED stage
        /\ UNCHANGED <<workVars, round, got, phase, verdict, canceled, errs>>

\* wg.Wait returns; then the next phase, or the end.
Join == /\ stage = "join"
        /\ \A w \in Workers : work[w].pc = "gone"
        /\ \/ errs # {} /\ Return("error")
           \/ errs = {} /\ phase = opts.phases /\ Return("ok")
           \/ /\ errs = {} /\ phase < opts.phases
              /\ phase' = phase + 1
              /\ StartPool(Len(round))
              /\ UNCHANGED <<opts, bd, round, verdict, errs>>
-----------------------------------------------------------------------------
(* A worker *)

poolRest == <<round, sent, control>>

Goto(w, pc) == work' = [work EXCEPT ![w] = At(pc)]

Receive(w) == /\ work[w].pc = "wait" /\ got < sent
              /\ got' = got + 1
              /\ work' = [work EXCEPT ![w] = Holding("check", round[got + 1])]
              /\ UNCHANGED <<opts, bd, attempts, poolRest, canceled, errs>>

\* The channel is closed and empty.
Drained(w) == /\ work[w].pc = "wait" /\ got = sent /\ stage = "join"
              /\ Goto(w, "gone")
              /\ UNCHANGED <<opts, bd, attempts, poolRest, got, canceled, errs>>

\* The bead in hand is dropped when the context is canceled.
CheckContext(w) ==
    /\ work[w].pc = "check"
    /\ work' = [work EXCEPT ![w] = IF canceled THEN At("gone") ELSE [@ EXCEPT !.pc = "run"]]
    /\ UNCHANGED <<opts, bd, attempts, poolRest, got, canceled, errs>>

\* Only the last phase reads the ACTIONS block of its run.
SkipActions(w) == /\ work[w].pc = "run" /\ phase < opts.phases
                  /\ work' = [work EXCEPT ![w].pc = "ok"]
                  /\ UNCHANGED <<opts, bd, attempts>>

WorkOn(w) == /\ \/ RunFails(w)
                \/ phase = opts.phases /\ RunEnds(w)
                \/ phase = opts.phases /\ canceled /\ RunIsCut(w)
                \/ SkipActions(w)
                \/ Finish(w, "settle")
             /\ UNCHANGED <<poolRest, got, canceled, errs>>

Succeed(w) == /\ work[w].pc = "ok"
              /\ Goto(w, "wait")
              /\ UNCHANGED <<opts, bd, attempts, poolRest, got, canceled, errs>>

AddError_CancelOnly(w) ==
    /\ work[w].pc \in {"failed", "stopped"}
    /\ errs' = IF opts.failFast THEN errs ELSE errs \cup {work[w].bead}
    /\ Goto(w, IF opts.failFast THEN "cancel" ELSE "wait")
    /\ UNCHANGED <<opts, bd, attempts, poolRest, got, canceled>>

AddError_Retry(w) ==
    /\ work[w].pc \in {"failed", "stopped"}
    /\ errs' = errs \cup {work[w].bead}
    /\ work' = [work EXCEPT ![w] = IF opts.failFast THEN At("cancel")
                                                    ELSE Holding("check", @.bead)]
    /\ UNCHANGED <<opts, bd, attempts, poolRest, got, canceled>>

\* A requested stop is an error here.  The error is in the list before fail_fast cancels.
AddError(w) == /\ work[w].pc \in {"failed", "stopped"}
               /\ errs' = errs \cup {work[w].bead}
               /\ Goto(w, IF opts.failFast THEN "cancel" ELSE "wait")
               /\ UNCHANGED <<opts, bd, attempts, poolRest, got, canceled>>

Cancel(w) == /\ work[w].pc = "cancel"
             /\ canceled' = TRUE
             /\ Goto(w, "gone")
             /\ UNCHANGED <<opts, bd, attempts, poolRest, got, errs>>

Worker(w) == \/ Receive(w) \/ Drained(w) \/ CheckContext(w) \/ WorkOn(w)
             \/ Succeed(w) \/ AddError(w) \/ Cancel(w)
-----------------------------------------------------------------------------
\* Some beads are open when the coordinator starts, some finished by earlier runs.
Init == /\ opts \in Options
        /\ status \in [Beads -> {"absent", "open", "closed"}]
        /\ \A b \in Beads : status[b] = "absent" => \E c \in Beads : FixOf[c] = b
        /\ needs = {}
        /\ attempts = [b \in Beads |-> 0]
        /\ work = [w \in Workers |-> At("gone")]
        /\ stage = "list" /\ round = <<>> /\ phase = 1
        /\ sent = 0 /\ got = 0
        /\ canceled = FALSE /\ errs = {} /\ verdict = "none"

Coordinator == ListFails \/ NothingReady \/ ListReady \/ Feed \/ Join

\* runCoordinator has returned.
Over == stage = "over" /\ UNCHANGED vars

Next == Coordinator \/ (\E w \in Workers : Worker(w)) \/ Over

Spec == Init /\ [][Next]_vars
-----------------------------------------------------------------------------
(* Properties *)

PoolPcs == {"wait", "check", "cancel", "gone"} \cup (Busy \ {"next"})

TypeOK ==
    /\ WorkTypeOK
    /\ work \in [Workers -> WorkerRecords(PoolPcs)]
    /\ stage \in {"list", "feed", "join", "over"}
    /\ round \in Seq(Beads)
    /\ phase \in 1 .. opts.phases
    /\ sent \in 0 .. Len(round) /\ got \in 0 .. sent
    /\ canceled \in BOOLEAN
    /\ errs \subseteq Beads
    /\ verdict \in {"none", "open", "nothing", "ok", "error"}

\* The coordinator implements Batch: no bead of a round is worked on twice in a phase or
\* left out, unless another one failed and the coordinator says so.
HeldAt(pcs) == {work[w].bead : w \in {v \in Workers : work[v].pc \in pcs}}

B == INSTANCE Batch WITH
        waiting <- {round[i] : i \in got + 1 .. Len(round)},
        taken <- HeldAt({"check"}),
        working <- HeldAt(Busy),
        failed <- errs

BatchKept == B!Spec

\* No bead slips through unnoticed: after a round without an error, every bead of it has
\* left the state "open" that it was listed with.
OkMeansDecided ==
    verdict = "ok" /\ opts.autoUpdate /\ ~opts.faults
        => \A i \in DOMAIN round : status[round[i]] # "open"

\* A bead is closed only by a worker whose run on it was not cut off before it began.
CutStaysOpen ==
    [][\A b \in Beads : status[b] # "closed" /\ status'[b] = "closed"
          => \E w \in Workers : work[w].bead = b /\ ~work[w].cut]_vars
-----------------------------------------------------------------------------
(* Why the properties hold: what every reachable state satisfies *)

Holds(w) == work[w].pc \in {"check"} \cup Busy

\* A bead in hand has been received, and nobody else has it.
BeadsInHand ==
    /\ \A i, j \in DOMAIN round : round[i] = round[j] => i = j
    /\ \A w \in Workers : Holds(w) => \E i \in 1 .. got : work[w].bead = round[i]
    /\ \A v, w \in Workers : Holds(v) /\ Holds(w) /\ work[v].bead = work[w].bead => v = w
    /\ \A w \in Workers : work[w].pc = "link" => FixOf[work[w].bead] \in Beads

\* Workers are there only while the verdict is open.
StagesFollow ==
    /\ stage = "list" <=> verdict = "none"
    /\ stage \in {"feed", "join"} <=> verdict = "open"
    /\ stage = "list" => round = <<>> /\ errs = {} /\ ~canceled
    /\ stage \in {"list", "over"} => \A w \in Workers : work[w].pc = "gone"
    /\ stage \in {"feed", "join"} => round # <<>>

\* The pool is canceled only after an error is in the list; without one, the coordinator
\* sends the whole round, and the first worker stays until the channel is drained.
NobodyLeavesEarly ==
    /\ canceled => errs # {}
    /\ \A w \in Workers : work[w].pc = "cancel" => errs # {}
    /\ stage \in {"feed", "join"} /\ errs = {} =>
          /\ stage = "join" => sent = Len(round)
          /\ work[1].pc = "gone" => stage = "join" /\ got = sent

PoolInv == TypeOK /\ BeadsInHand /\ StagesFollow /\ NobodyLeavesEarly

\* No agent sets a bead to "open".
NoReopening == \A b \in Beads : \A x \in Answers[b] : \A i \in DOMAIN x.updates :
                  x.updates[i][2] # "open"

Decided(b) == status[b] \notin {"absent", "open"}

\* A worker whose bead is decided, or will be by a call on its list.
HasDecided(w) == \/ work[w].pc \in {"link", "count", "ok"}
                 \/ work[w].pc = "settle" /\ work[w].gate
                 \/ work[w].pc \in {"apply", "settle", "close"} /\ work[w].moved

HasMark(w) == \E j \in DOMAIN work[w].todo :
                 work[w].todo[j].kind = "mark" /\ work[w].todo[j].bead = work[w].bead

\* In the last phase, a bead that was received is decided, or its worker is still at it.
NothingSlips ==
    opts.autoUpdate /\ ~opts.faults =>
        /\ \A i \in DOMAIN round : status[round[i]] # "absent"
        /\ \A w \in Workers : work[w].pc \in {"check", "run"} => ~work[w].moved /\ ~work[w].gate
        /\ \A w \in Workers : work[w].todo \in Seq(CallsTo(Statuses \ {"absent", "open"}))
        /\ phase = opts.phases =>
              /\ \A w \in Workers : HasDecided(w) => Decided(work[w].bead)
              /\ \A w \in Workers : work[w].pc = "apply" /\ work[w].gate
                    => HasMark(w) \/ Decided(work[w].bead)
              /\ errs = {} => \A i \in 1 .. got :
                    Decided(round[i]) \/ \E w \in Workers : Holds(w) /\ work[w].bead = round[i]
        /\ verdict = "ok" => phase = opts.phases /\ errs = {} /\ got = Len(round)

\* No agent updates a bead other than the one it works on.
OwnBeads == \A b \in Beads : \A x \in Answers[b] : \A i \in DOMAIN x.updates :
               x.updates[i][1] = b

\* Calls that set the status of no bead but b.
CallsOf(b) == {c \in BdCalls : c.kind \in {"set", "mark"} => c.bead = b}

\* Beads of the round exist, and the worker that has one keeps its gate.
GatesMarked ==
    /\ \A i \in DOMAIN round : status[round[i]] # "absent"
    /\ \A w \in Workers : /\ GateKept(w)
                          /\ work[w].pc = "check" => ~work[w].gate
                          /\ work[w].todo \in Seq(CallsOf(work[w].bead))
=============================================================================
