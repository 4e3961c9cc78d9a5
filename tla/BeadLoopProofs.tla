---------------------------- MODULE BeadLoopProofs ----------------------------
(***************************************************************************)
(* Proofs about BeadLoop, for every plan, every answer of the agents,      *)
(* every configuration and any number of processes: types, failed gates,   *)
(* retries, dependencies and stranded beads.                               *)
(***************************************************************************)
EXTENDS BeadLoop, BeadWorkProofs

-----------------------------------------------------------------------------
(* The steps of a process *)

\* The steps at which Controller.Run returns, or dies.
Ends == LimitReached \/ SelectFails \/ NothingReady \/ GiveUp \/ Stop \/ Crash

LEMMA OneWorker == Me \in Workers /\ \A w \in Workers : w = Me
BY LoopConfig

LEMMA LoopPlaces ==
    LoopPcs = {"gone", "plan", "select", "run", "apply", "next", "settle", "link", "count",
               "close", "ok", "stopped", "failed"}
BY DEF LoopPcs, Busy

LEMMA EndsReturn ==
    ASSUME Ends
    PROVE  /\ pc # "gone"
           /\ \E v \in {"complete", "limit", "error", "stopped", "crashed"} :
                 Return(v) /\ (v \in {"complete", "limit"} => pc = "select")
BY DEF Ends, LimitReached, SelectFails, NothingReady, GiveUp, Stop, Crash

LEMMA ReturnIdle ==
    ASSUME work \in [Workers -> WorkerRecords(LoopPcs)], NEW v, Return(v)
    PROVE  /\ work'[Me] = At("gone") /\ work' \in [Workers -> WorkerRecords(LoopPcs)]
           /\ verdict' = v
           /\ UNCHANGED <<opts, status, needs, attempts, plan, hint, processed, starts, tries,
                          planned>>
<1>1. At("gone") \in WorkerRecords(LoopPcs)
    BY DEF At, WorkerRecords, LoopPcs
<1> QED
    BY <1>1, OneWorker DEF Return, bd

LEMMA WorkKeeps ==
    ASSUME TypeOK, Work
    PROVE  /\ RunFails(Me) \/ RunEnds(Me) \/ RunIsCut(Me) \/ Finish(Me, "next")
           /\ UNCHANGED opts
           /\ work'[Me].bead = InHand
           /\ pc \in {"run", "apply", "settle", "link", "count", "close"}
           /\ pc' \in Busy \ {"run"}
           /\ needs \subseteq needs'
           /\ pc' = "link" /\ InHand \in Beads => FixOf[InHand] \in Beads
           /\ \A d \in Beads : status[d] # "absent" => status'[d] # "absent"
           /\ UNCHANGED <<plan, hint, processed, starts, verdict, planned>>
<1>1. RunFails(Me) \/ RunEnds(Me) \/ RunIsCut(Me) \/ Finish(Me, "next")
    BY DEF Work
<1>2. WorkTypeOK /\ work \in [Workers -> WorkerRecords(LoopPcs)] /\ Me \in Workers
      /\ "next" \in {"next", "settle"}
    BY OneWorker DEF TypeOK
<1>3. /\ UNCHANGED opts
      /\ work'[Me].bead = work[Me].bead
      /\ work[Me].pc \in {"run", "apply", "settle", "link", "count", "close"}
      /\ work'[Me].pc \in Busy \ {"run"}
      /\ needs \subseteq needs'
      /\ work'[Me].pc = "link" /\ work[Me].bead \in Beads => FixOf[work[Me].bead] \in Beads
      /\ \A d \in Beads : status[d] # "absent" => status'[d] # "absent"
    BY <1>1, <1>2, WorkFrame
<1> QED
    BY <1>1, <1>3 DEF Work, pc, InHand
-----------------------------------------------------------------------------
(* Types *)

LEMMA InitTypes == Init => TypeOK
<1> SUFFICES ASSUME Init PROVE TypeOK
    OBVIOUS
<1>1. At("gone") \in WorkerRecords(LoopPcs)
    BY DEF At, WorkerRecords, LoopPcs
<1>2. WorkTypeOK
    BY DEF Init, WorkTypeOK, Statuses
<1>3. 0 \in 0 .. opts.maxBeads
    BY <1>2, OptionTypes
<1> QED
    BY <1>1, <1>2, <1>3, LoopConfig DEF Init, TypeOK

LEMMA StepTypes ==
    ASSUME TypeOK, BeadInHand, [Next]_vars
    PROVE  TypeOK'
<1> USE OneWorker
<1>1. /\ WorkTypeOK /\ work \in [Workers -> WorkerRecords(LoopPcs)]
      /\ work[Me] \in WorkerRecords(LoopPcs) /\ opts.maxBeads \in Nat
    BY OptionTypes DEF TypeOK
<1>2. CASE Begin
  <2>0. plan' \in Plans /\ plan' \in TaskLists
      BY <1>2, LoopConfig DEF Begin
  <2>1. CreateCalls(plan') \in Seq(BdCalls)
      BY <2>0, CreateCallsTypes
  <2>2. [At("plan") EXCEPT !.todo = CreateCalls(plan')] \in WorkerRecords(LoopPcs)
      BY <2>1 DEF At, WorkerRecords, LoopPcs
  <2>3. work' \in [Workers -> WorkerRecords(LoopPcs)]
      BY <1>1, <1>2, <2>2 DEF Begin
  <2>4. WorkTypeOK'
      BY <1>1, <1>2 DEF Begin, Load, WorkTypeOK, bd
  <2>5. starts' \in 0 .. MaxStarts
      BY <1>2, LoopConfig DEF Begin, TypeOK
  <2>6. processed' \in 0 .. opts'.maxBeads
      BY <1>1, <1>2 DEF Begin
  <2> QED
      BY <1>2, <2>0, <2>3, <2>4, <2>5, <2>6 DEF Begin, TypeOK
<1>3. CASE Create
  <2>1. "failed" \in LoopPcs
      BY LoopPlaces
  <2>2. WorkTypeOK' /\ work' \in [Workers -> WorkerRecords(LoopPcs)]
      BY <1>1, <1>3, <2>1, NextCallTypes DEF Create
  <2>3. UNCHANGED opts
      BY <1>3 DEF Create, NextCall
  <2> QED
      BY <1>3, <2>2, <2>3 DEF Create, loopVars, TypeOK
<1>4. CASE Created \/ Iterate
  <2>1. At("select") \in WorkerRecords(LoopPcs)
      BY DEF At, WorkerRecords, LoopPcs
  <2>2. work' \in [Workers -> WorkerRecords(LoopPcs)]
      BY <1>1, <1>4, <2>1 DEF Created, Iterate
  <2>3. planned' \subseteq Beads \X Beads
    <3>1. plan \in TaskLists \/ plan = NoTasks
        BY LoopConfig DEF TypeOK
    <3>2. Links \subseteq Beads \X Beads
        BY <3>1 DEF Links, TaskLists, NoTasks
    <3> QED
        BY <1>4, <3>2 DEF Created, Iterate, TypeOK, loopVars
  <2> QED
      BY <1>4, <2>2, <2>3 DEF Created, Iterate, TypeOK, WorkTypeOK, bd, loopVars
<1>5. CASE Ends
  <2>1. PICK v \in {"complete", "limit", "error", "stopped", "crashed"} : Return(v)
      BY <1>5, EndsReturn
  <2> QED
      BY <1>1, <2>1, ReturnIdle DEF TypeOK, WorkTypeOK
<1>6. CASE Select
  <2>1. PICK b \in IF hint \in Candidates(Scope) THEN {hint} ELSE Candidates(Scope) :
            /\ status' = IF opts.autoUpdate THEN [status EXCEPT ![b] = "in_progress"]
                         ELSE status
            /\ work' = [work EXCEPT ![Me] = Holding("run", b)]
            /\ tries' = [tries EXCEPT ![b] = IF @ > opts.maxFix THEN @ ELSE @ + 1]
      BY <1>6 DEF Select
  <2>2. b \in Beads
      BY <2>1 DEF Candidates, Ready
  <2>3. Holding("run", b) \in WorkerRecords(LoopPcs)
    <3>1. At("run") \in WorkerRecords(LoopPcs)
        BY LoopPlaces DEF At, WorkerRecords
    <3> QED
        BY <2>2, <3>1 DEF Holding, At, WorkerRecords
  <2>4. work' \in [Workers -> WorkerRecords(LoopPcs)]
      BY <1>1, <2>1, <2>3
  <2>5. tries' \in [Beads -> Nat]
      BY <2>1, <2>2 DEF TypeOK
  <2>6. WorkTypeOK'
      BY <1>1, <1>6, <2>1 DEF Select, WorkTypeOK, Statuses
  <2>7. processed' \in 0 .. opts'.maxBeads
      BY <1>1, <1>6 DEF Select, AtLimit, TypeOK
  <2> QED
      BY <1>6, <2>4, <2>5, <2>6, <2>7 DEF Select, TypeOK
<1>7. CASE Work
  <2>1. UNCHANGED <<opts, plan, hint, processed, starts, verdict, planned>>
      BY <1>7, WorkKeeps
  <2>2. InHand \in Beads
      BY <1>7, WorkKeeps DEF BeadInHand, Busy
  <2>3. WorkTypeOK' /\ work' \in [Workers -> WorkerRecords(LoopPcs)]
    <3>1. /\ {"failed", "apply"} \subseteq LoopPcs /\ "next" \in LoopPcs
          /\ {"failed", "link", "count", "ok", "stopped", "close"} \subseteq LoopPcs
        BY LoopPlaces
    <3>2. work[Me].bead \in Beads /\ (work[Me].pc = "link" => FixOf[work[Me].bead] \in Beads)
        BY <2>2 DEF BeadInHand, InHand, pc
    <3>3. CASE RunFails(Me) \/ RunEnds(Me) \/ RunIsCut(Me)
        BY <1>1, <3>1, <3>2, <3>3, RunTypes
    <3>4. CASE Finish(Me, "next")
        BY <1>1, <3>1, <3>2, <3>4, FinishTypes
    <3> QED
        BY <1>7, <3>3, <3>4, WorkKeeps
  <2>4. tries' \in [Beads -> Nat]
      BY <1>7 DEF Work, TypeOK
  <2> QED
      BY <2>1, <2>3, <2>4 DEF TypeOK
<1>8. CASE CheckNext
  <2>1. hint' \in Beads \cup {NoBead}
      BY <1>1, <1>8 DEF CheckNext, WorkerRecords, Actions
  <2>2. status' \in [Beads -> Statuses]
      BY <1>1, <1>8 DEF CheckNext, MarkIfUpdating, Mark, WorkTypeOK, Statuses
  <2>3. work' \in [Workers -> WorkerRecords(LoopPcs)]
    <3>1. CASE work' = [work EXCEPT ![Me].pc = "settle", ![Me].gate = TRUE,
                                    ![Me].moved = @ \/ opts.autoUpdate]
      <4> DEFINE moved == work[Me].moved \/ opts.autoUpdate
      <4>1. work' = [work EXCEPT ![Me].pc = "settle", ![Me].gate = TRUE, ![Me].moved = moved]
          BY <3>1
      <4>2. moved \in BOOLEAN
          BY <1>1 DEF WorkerRecords
      <4> HIDE DEF moved
      <4> QED
          BY <1>1, <4>1, <4>2, LoopPlaces DEF WorkerRecords
    <3>2. CASE \/ work' = [work EXCEPT ![Me].pc = "settle"]
               \/ work' = [work EXCEPT ![Me].pc = "failed"]
        BY <1>1, <3>2, LoopPlaces DEF WorkerRecords
    <3> QED
        BY <1>8, <3>1, <3>2 DEF CheckNext
  <2> QED
      BY <1>8, <2>1, <2>2, <2>3 DEF CheckNext, TypeOK, WorkTypeOK
<1>9. CASE Reopen
    BY <1>9 DEF Reopen, TypeOK, WorkTypeOK, loopVars, Statuses
<1>10. CASE UNCHANGED vars
    BY <1>10 DEF vars, workVars, loopVars, bd, TypeOK, WorkTypeOK
<1> QED
    BY <1>2, <1>3, <1>4, <1>5, <1>6, <1>7, <1>8, <1>9, <1>10 DEF Next, Process, Ends, Rest
-----------------------------------------------------------------------------
(* What each step does to the record of the process *)

LEMMA BeginRecord ==
    ASSUME TypeOK, Begin
    PROVE  /\ pc' = "plan" /\ InHand' = NoBead /\ work'[Me].todo = CreateCalls(plan')
           /\ plan' \in TaskLists /\ UNCHANGED <<opts, needs, planned>>
           /\ ~work'[Me].gate /\ ~work'[Me].moved
BY OneWorker, LoopConfig DEF Begin, TypeOK, At, pc, InHand, bd

LEMMA CreateRecord ==
    ASSUME TypeOK, BeadInHand, Create
    PROVE  /\ pc = "plan" /\ InHand' = NoBead /\ work'[Me].gate = work[Me].gate
           /\ \/ pc' = "plan"
              \/ pc' = "failed" /\ work'[Me].todo = <<>>
           /\ UNCHANGED <<opts, attempts, loopVars>>
<1> DEFINE call == Head(work[Me].todo)
           rest == Tail(work[Me].todo)
           moved == work[Me].moved \/ (call.kind = "set" /\ call.bead = work[Me].bead)
<1>1. \/ work' = [work EXCEPT ![Me].todo = rest, ![Me].moved = moved]
      \/ work' = [work EXCEPT ![Me].todo = rest]
      \/ work' = [work EXCEPT ![Me].pc = "failed", ![Me].todo = <<>>]
    BY NextCallForms, OneWorker DEF Create
<1>2. pc = "plan" /\ InHand = NoBead /\ UNCHANGED <<opts, attempts, loopVars>>
    BY DEF Create, NextCall, BeadInHand
<1> HIDE DEF call, rest, moved
<1> QED
    BY <1>1, <1>2, OneWorker DEF TypeOK, WorkerRecords, pc, InHand

LEMMA IdleRecord ==
    ASSUME TypeOK, Created \/ Iterate
    PROVE  /\ pc \in {"plan", "ok"} /\ pc' = "select" /\ ~work'[Me].gate
           /\ work'[Me].todo = <<>>
           /\ UNCHANGED <<opts, status, needs, attempts, plan, hint, processed, starts, verdict,
                          tries>>
           /\ planned' = planned \/ (pc = "plan" /\ opts.autoCreate /\ work[Me].todo = <<>>
                                      /\ planned' = planned \cup Links)
BY OneWorker DEF Created, Iterate, TypeOK, At, pc, bd, loopVars

LEMMA EndsRecord ==
    ASSUME TypeOK, Ends
    PROVE  /\ pc' = "gone" /\ ~work'[Me].gate /\ work'[Me].todo = <<>>
           /\ UNCHANGED <<opts, status, needs, attempts, plan, hint, processed, starts, tries,
                          planned>>
           /\ verdict' \in {"complete", "limit"} => pc = "select"
<1>1. PICK v \in {"complete", "limit", "error", "stopped", "crashed"} :
         Return(v) /\ (v \in {"complete", "limit"} => pc = "select")
    BY EndsReturn
<1> QED
    BY <1>1, ReturnIdle DEF TypeOK, At, pc

LEMMA SelectRecord ==
    ASSUME TypeOK, Select
    PROVE  \E b \in Beads :
              /\ pc = "select" /\ pc' = "run" /\ InHand' = b /\ b \in Ready
              /\ ~work'[Me].gate /\ ~work'[Me].moved /\ work'[Me].todo = <<>>
              /\ status' = IF opts.autoUpdate THEN [status EXCEPT ![b] = "in_progress"]
                           ELSE status
              /\ tries' = [tries EXCEPT ![b] = IF @ > opts.maxFix THEN @ ELSE @ + 1]
              /\ UNCHANGED <<opts, needs, attempts, plan, starts, verdict, planned>>
<1>1. PICK b \in IF hint \in Candidates(Scope) THEN {hint} ELSE Candidates(Scope) :
          /\ status' = IF opts.autoUpdate THEN [status EXCEPT ![b] = "in_progress"]
                       ELSE status
          /\ work' = [work EXCEPT ![Me] = Holding("run", b)]
          /\ tries' = [tries EXCEPT ![b] = IF @ > opts.maxFix THEN @ ELSE @ + 1]
    BY DEF Select
<1>2. b \in Beads /\ b \in Ready
    BY <1>1 DEF Candidates, Ready
<1>3. work'[Me] = Holding("run", b)
    BY <1>1, OneWorker DEF TypeOK
<1>4. /\ pc' = "run" /\ InHand' = b
      /\ ~work'[Me].gate /\ ~work'[Me].moved /\ work'[Me].todo = <<>>
    BY <1>3 DEF Holding, At, pc, InHand
<1> QED
    BY <1>1, <1>2, <1>4 DEF Select

LEMMA CheckNextRecord ==
    ASSUME TypeOK, CheckNext
    PROVE  /\ pc = "next" /\ InHand' = InHand /\ work'[Me].todo = work[Me].todo
           /\ UNCHANGED <<opts, needs, attempts, plan, starts, verdict, tries, planned>>
           /\ \/ /\ pc' = "settle" /\ work'[Me].gate
                 /\ MarkIfUpdating(InHand, "blocked")
              \/ /\ pc' \in {"settle", "failed"} /\ work'[Me].gate = work[Me].gate
                 /\ work'[Me].moved = work[Me].moved
                 /\ UNCHANGED status
<1>1. work \in [Workers -> WorkerRecords(LoopPcs)] /\ work[Me] \in WorkerRecords(LoopPcs)
    BY OneWorker DEF TypeOK
<1>2. CASE /\ MarkIfUpdating(work[Me].bead, "blocked")
           /\ work' = [work EXCEPT ![Me].pc = "settle", ![Me].gate = TRUE,
                                   ![Me].moved = @ \/ opts.autoUpdate]
  <2> DEFINE moved == work[Me].moved \/ opts.autoUpdate
  <2>1. work' = [work EXCEPT ![Me].pc = "settle", ![Me].gate = TRUE, ![Me].moved = moved]
      BY <1>2
  <2> HIDE DEF moved
  <2>2. /\ pc' = "settle" /\ work'[Me].gate /\ InHand' = InHand
        /\ work'[Me].todo = work[Me].todo
      BY <1>1, <2>1, OneWorker DEF WorkerRecords, pc, InHand
  <2> QED
      BY <1>2, <2>2 DEF CheckNext, InHand
<1>3. CASE /\ \/ work' = [work EXCEPT ![Me].pc = "settle"]
              \/ work' = [work EXCEPT ![Me].pc = "failed"]
           /\ UNCHANGED status
    BY <1>1, <1>3, OneWorker DEF CheckNext, WorkerRecords, pc, InHand
<1> QED
    BY <1>2, <1>3 DEF CheckNext

LEMMA RestRecord ==
    ASSUME Reopen \/ UNCHANGED vars
    PROVE  UNCHANGED <<opts, needs, attempts, work, plan, hint, processed, starts, verdict,
                       tries, planned>>
BY DEF Reopen, vars, workVars, loopVars, bd
-----------------------------------------------------------------------------
(* The bead in hand, and its gate *)

LEMMA HandStep ==
    ASSUME TypeOK, BeadInHand, [Next]_vars
    PROVE  BeadInHand'
<1>0. NoBead \notin Beads
    BY WorkConfig
<1>1. CASE Begin
    BY <1>1, BeginRecord DEF BeadInHand, Busy
<1>2. CASE Create
    BY <1>2, CreateRecord DEF BeadInHand, Busy
<1>3. CASE Created \/ Iterate
    BY <1>3, IdleRecord DEF BeadInHand, Busy
<1>4. CASE Ends
    BY <1>4, EndsRecord DEF BeadInHand, Busy
<1>5. CASE Select
  <2>1. PICK b \in Beads :
              /\ pc' = "run" /\ InHand' = b /\ b \in Ready
              /\ status' = IF opts.autoUpdate THEN [status EXCEPT ![b] = "in_progress"]
                           ELSE status
      BY <1>5, SelectRecord
  <2>2. status'[b] # "absent"
      BY <2>1 DEF Ready, TypeOK, WorkTypeOK
  <2> QED
      BY <2>1, <2>2 DEF BeadInHand
<1>6. CASE Work
  <2>1. InHand \in Beads /\ status[InHand] # "absent"
      BY <1>6, WorkKeeps DEF BeadInHand, Busy
  <2>2. status'[InHand] # "absent" /\ InHand' = InHand
      BY <1>6, <2>1, WorkKeeps DEF InHand
  <2>3. pc' \in Busy \ {"run"} /\ (pc' = "link" => FixOf[InHand] \in Beads)
      BY <1>6, <2>1, WorkKeeps
  <2> QED
      BY <2>1, <2>2, <2>3 DEF BeadInHand, Busy
<1>7. CASE CheckNext
  <2>1. InHand \in Beads /\ status[InHand] # "absent"
      BY <1>7, CheckNextRecord DEF BeadInHand, Busy
  <2>2. InHand' = InHand /\ pc' \in {"settle", "failed"}
      BY <1>7, CheckNextRecord
  <2>3. status'[InHand] # "absent"
    <3>1. MarkIfUpdating(InHand, "blocked") \/ UNCHANGED status
        BY <1>7, CheckNextRecord
    <3> QED
        BY <2>1, <3>1 DEF MarkIfUpdating, Mark, TypeOK, WorkTypeOK
  <2> QED
      BY <2>1, <2>2, <2>3 DEF BeadInHand
<1>8. CASE Reopen \/ UNCHANGED vars
  <2>1. UNCHANGED work
      BY <1>8, RestRecord
  <2>2. pc # "gone" => UNCHANGED status
      BY <1>8 DEF Reopen, vars, workVars, bd
  <2> QED
      BY <2>1, <2>2 DEF BeadInHand, pc, InHand, Busy
<1> QED
    BY <1>1, <1>2, <1>3, <1>4, <1>5, <1>6, <1>7, <1>8 DEF Next, Process, Ends, Rest

LEMMA GateStep ==
    ASSUME TypeOK, BeadInHand, GateKept(Me), [Next]_vars
    PROVE  GateKept(Me)'
<1>1. CASE Begin
    BY <1>1, BeginRecord DEF GateKept, pc
<1>2. CASE Create
    BY <1>2, CreateRecord DEF GateKept, pc
<1>3. CASE Created \/ Iterate
    BY <1>3, IdleRecord DEF GateKept, pc
<1>4. CASE Ends
    BY <1>4, EndsRecord DEF GateKept, pc
<1>5. CASE Select
  <2>1. pc' = "run" /\ ~work'[Me].gate
      BY <1>5, SelectRecord
  <2> QED
      BY <2>1 DEF GateKept, pc
<1>6. CASE Work
  <2>1. PICK b \in Beads : b = work[Me].bead /\ status[b] # "absent"
      BY <1>6, WorkKeeps DEF BeadInHand, Busy, InHand
  <2>2. /\ WorkTypeOK /\ work \in [Workers -> WorkerRecords(LoopPcs)]
        /\ "next" \in {"next", "settle"} /\ Me \in Workers
      BY OneWorker DEF TypeOK
  <2> QED
      BY <1>6, <2>1, <2>2, WorkKeeps, GateWork
<1>7. CASE CheckNext
  <2>1. InHand' = InHand /\ pc' \in {"settle", "failed"} /\ pc = "next" /\ UNCHANGED opts
      BY <1>7, CheckNextRecord
  <2>2. InHand \in Beads
      BY <2>1 DEF BeadInHand, Busy
  <2>3. CASE work'[Me].gate /\ MarkIfUpdating(InHand, "blocked")
    <3>1. opts.autoUpdate /\ ~opts.faults => status'[InHand] = "blocked"
        BY <2>2, <2>3 DEF MarkIfUpdating, Mark, TypeOK, WorkTypeOK
    <3>2. opts.autoUpdate /\ ~opts.faults => Gated(Me)'
        BY <2>1, <3>1 DEF Gated, InHand
    <3> QED
        BY <2>1, <3>2 DEF GateKept, pc
  <2>4. CASE UNCHANGED status /\ work'[Me].gate = work[Me].gate
    <3>1. Gated(Me)' <=> Gated(Me)
        BY <2>1, <2>4 DEF Gated, InHand
    <3> QED
        BY <2>1, <2>4, <3>1 DEF GateKept, pc
  <2> QED
      BY <1>7, <2>3, <2>4, CheckNextRecord
<1>8. CASE Reopen \/ UNCHANGED vars
  <2>1. UNCHANGED <<work, opts>>
      BY <1>8, RestRecord
  <2>2. pc # "gone" => UNCHANGED status
      BY <1>8 DEF Reopen, vars, workVars, bd
  <2>3. pc # "gone" => (Gated(Me)' <=> Gated(Me))
      BY <2>1, <2>2 DEF Gated
  <2>4. MarkAhead(Me)' <=> MarkAhead(Me)
      BY <2>1 DEF MarkAhead
  <2> QED
      BY <2>1, <2>3, <2>4 DEF GateKept, pc
<1> QED
    BY <1>1, <1>2, <1>3, <1>4, <1>5, <1>6, <1>7, <1>8 DEF Next, Process, Ends, Rest
-----------------------------------------------------------------------------
(* Retries *)

\* What the work on a bead does to the counts.
LEMMA WorkCounts ==
    ASSUME TypeOK, BeadInHand, Work, NEW b \in Beads, b = InHand
    PROVE  \/ /\ pc \in {"run", "apply", "settle", "link"} /\ UNCHANGED <<attempts, tries>>
              /\ pc' \in {"apply", "next", "link", "count", "failed"}
           \/ /\ pc = "count" /\ UNCHANGED tries
              /\ attempts' = [attempts EXCEPT ![b] = @ + 1]
              /\ pc' = "failed" \/ (pc' = "ok" /\ attempts'[b] < opts.maxFix)
           \/ /\ pc = "settle" /\ pc' \in {"stopped", "close"}
              /\ attempts' = [attempts EXCEPT ![b] = 0] /\ tries' = [tries EXCEPT ![b] = 0]
           \/ /\ pc = "close" /\ pc' = "ok" /\ UNCHANGED <<attempts, tries>>
<1>1. /\ work \in [Workers -> WorkerRecords(LoopPcs)] /\ work[Me] \in WorkerRecords(LoopPcs)
      /\ attempts \in [Beads -> Nat] /\ opts.maxFix \in Nat \ {0} /\ b = work[Me].bead
    BY OneWorker, OptionTypes DEF TypeOK, WorkTypeOK, InHand
<1>2. ~(pc = "settle" /\ ~work[Me].gate) => UNCHANGED tries
    BY DEF Work
<1>3. CASE RunFails(Me)
    BY <1>1, <1>2, <1>3, OneWorker DEF RunFails, WorkerRecords, pc
<1>4. CASE RunEnds(Me)
  <2>1. PICK a \in Answers[work[Me].bead] \cup {NoAnswer}, gate \in BOOLEAN : \E todo :
              /\ todo = IF a = NoAnswer THEN <<>> ELSE Calls(work[Me].bead, a)
              /\ gate = (a # NoAnswer /\ GateFails(a))
              /\ work' = [work EXCEPT ![Me].pc = "apply", ![Me].answer = a, ![Me].todo = todo,
                                      ![Me].gate = gate]
      BY <1>4, OneWorker, RunEndsForms
  <2>2. pc' = "apply"
      BY <1>1, <2>1, OneWorker DEF WorkerRecords, pc
  <2> QED
      BY <1>2, <1>4, <2>2 DEF RunEnds, pc
<1>5. CASE RunIsCut(Me)
    BY <1>1, <1>2, <1>5, OneWorker DEF RunIsCut, WorkerRecords, pc
<1>6. CASE Apply(Me)
  <2> DEFINE call == Head(work[Me].todo)
             rest == Tail(work[Me].todo)
             moved == work[Me].moved \/ (call.kind = "set" /\ call.bead = work[Me].bead)
  <2>1. \/ work' = [work EXCEPT ![Me].todo = rest, ![Me].moved = moved]
        \/ work' = [work EXCEPT ![Me].todo = rest]
        \/ work' = [work EXCEPT ![Me].pc = "failed", ![Me].todo = <<>>]
      BY <1>6, OneWorker, NextCallForms DEF Apply
  <2>2. pc = "apply" /\ UNCHANGED attempts
      BY <1>6 DEF Apply, NextCall, pc
  <2> HIDE DEF call, rest, moved
  <2>3. pc' \in {"apply", "failed"}
      BY <1>1, <2>1, <2>2, OneWorker DEF WorkerRecords, pc
  <2> QED
      BY <1>2, <2>2, <2>3
<1>7. CASE Judge(Me, "next")
  <2>1. \E moved : \/ work' = [work EXCEPT ![Me].pc = "next", ![Me].gate = TRUE, ![Me].moved = moved]
                   \/ work' = [work EXCEPT ![Me].pc = "next"]
      BY <1>7 DEF Judge
  <2>2. pc' = "next"
      BY <1>1, <2>1, OneWorker DEF WorkerRecords, pc
  <2> QED
      BY <1>2, <1>7, <2>2 DEF Judge, pc
<1>8. CASE CreateFix(Me)
  <2>1. work' = [work EXCEPT ![Me].pc = "link"] \/ work' = [work EXCEPT ![Me].pc = "count"]
      BY <1>8 DEF CreateFix
  <2>2. pc' \in {"link", "count"}
      BY <1>1, <2>1, OneWorker DEF WorkerRecords, pc
  <2> QED
      BY <1>2, <1>8, <2>2 DEF CreateFix, pc
<1>9. CASE LinkFix(Me)
    BY <1>1, <1>2, <1>9, OneWorker DEF LinkFix, WorkerRecords, pc
<1>10. CASE CountFailure(Me)
  <2>1. pc = "count" /\ attempts' = [attempts EXCEPT ![b] = @ + 1]
      BY <1>1, <1>10 DEF CountFailure, Increment, pc
  <2>2. pc' = IF attempts'[b] >= opts.maxFix \/ opts.stopOnGate THEN "failed" ELSE "ok"
      BY <1>1, <1>10, OneWorker DEF CountFailure, WorkerRecords, pc
  <2>3. attempts'[b] \in Nat
      BY <1>1, <2>1
  <2> QED
      BY <1>1, <1>2, <2>1, <2>2, <2>3
<1>11. CASE PassGate(Me)
  <2>1. pc = "settle" /\ attempts' = [attempts EXCEPT ![b] = 0]
      BY <1>1, <1>11 DEF PassGate, Reset, pc
  <2>2. pc' \in {"stopped", "close"}
      BY <1>1, <1>11, OneWorker DEF PassGate, WorkerRecords, pc
  <2>3. tries' = [tries EXCEPT ![b] = 0]
      BY <1>1, <1>11 DEF PassGate, Work, pc
  <2> QED
      BY <2>1, <2>2, <2>3
<1>12. CASE CloseBead(Me)
    BY <1>1, <1>2, <1>12, OneWorker DEF CloseBead, WorkerRecords, pc
<1> QED
    BY <1>3, <1>4, <1>5, <1>6, <1>7, <1>8, <1>9, <1>10, <1>11, <1>12, WorkKeeps DEF Finish

LEMMA CountStep ==
    ASSUME TypeOK, BeadInHand, RunsAreCounted, [Next]_vars
    PROVE  RunsAreCounted'
<1>1. /\ opts.maxFix \in Nat \ {0} /\ attempts \in [Beads -> Nat] /\ tries \in [Beads -> Nat]
    BY OptionTypes DEF TypeOK, WorkTypeOK
<1> USE DEF RunsAreCounted, RetriesCapped, Spare, Ahead
<1>2. CASE Begin
  <2>1. pc' = "plan" /\ tries' = [b \in Beads |-> 0] /\ UNCHANGED opts
      BY <1>2, BeginRecord DEF Begin
  <2> QED
      BY <1>1, <2>1
<1>3. CASE Create
    BY <1>3, CreateRecord DEF loopVars
<1>4. CASE Created \/ Iterate
    BY <1>4, IdleRecord
<1>5. CASE Ends
    BY <1>5, EndsRecord
<1>6. CASE Select
  <2>1. PICK b \in Beads :
              /\ pc = "select" /\ pc' = "run" /\ InHand' = b
              /\ tries' = [tries EXCEPT ![b] = IF @ > opts.maxFix THEN @ ELSE @ + 1]
              /\ UNCHANGED <<opts, attempts>>
      BY <1>6, SelectRecord
  <2>2. tries[b] <= opts.maxFix /\ Spare(b)
      BY <2>1
  <2>3. tries'[b] = tries[b] + 1 /\ \A c \in Beads \ {b} : tries'[c] = tries[c]
      BY <1>1, <2>1, <2>2
  <2>4. tries'[b] <= opts.maxFix
      BY <1>1, <2>2, <2>3
  <2> QED
      BY <1>1, <2>1, <2>2, <2>3, <2>4
<1>7. CASE Work
  <2>1. PICK b \in Beads : b = InHand /\ b = InHand'
      BY <1>7, WorkKeeps DEF BeadInHand, Busy, InHand
  <2>2. UNCHANGED opts
      BY <1>7, WorkKeeps
  <2>3. CASE /\ pc \in {"run", "apply", "settle", "link"} /\ UNCHANGED <<attempts, tries>>
             /\ pc' \in {"apply", "next", "link", "count", "failed"}
      BY <2>1, <2>2, <2>3
  <2>4. CASE /\ pc = "count" /\ UNCHANGED tries
             /\ attempts' = [attempts EXCEPT ![b] = @ + 1]
             /\ pc' = "failed" \/ (pc' = "ok" /\ attempts'[b] < opts.maxFix)
    <3>1. attempts'[b] = attempts[b] + 1 /\ \A c \in Beads \ {b} : attempts'[c] = attempts[c]
        BY <1>1, <2>4
    <3>2. Ahead(b) /\ \A c \in Beads \ {b} : Spare(c)
        BY <2>1, <2>4
    <3> QED
        BY <1>1, <2>1, <2>2, <2>4, <3>1, <3>2
  <2>5. CASE /\ pc = "settle" /\ pc' \in {"stopped", "close"}
             /\ attempts' = [attempts EXCEPT ![b] = 0] /\ tries' = [tries EXCEPT ![b] = 0]
    <3>1. \A c \in Beads \ {b} : Spare(c)
        BY <2>1, <2>5
    <3> QED
        BY <1>1, <2>1, <2>2, <2>5, <3>1
  <2>6. CASE pc = "close" /\ pc' = "ok" /\ UNCHANGED <<attempts, tries>>
      BY <2>1, <2>2, <2>6
  <2> QED
      BY <1>7, <2>1, <2>3, <2>4, <2>5, <2>6, WorkCounts
<1>8. CASE CheckNext
    BY <1>8, CheckNextRecord
<1>9. CASE Reopen \/ UNCHANGED vars
    BY <1>9, RestRecord DEF pc, InHand
<1> QED
    BY <1>2, <1>3, <1>4, <1>5, <1>6, <1>7, <1>8, <1>9 DEF Next, Process, Ends, Rest
-----------------------------------------------------------------------------
(* Dependencies *)

\* Every link of a task list is among the calls that create it.
LEMMA LinkCalls ==
    ASSUME opts.autoCreate, NEW tasks \in TaskLists, NEW i \in DOMAIN tasks.links
    PROVE  \E j \in DOMAIN CreateCalls(tasks) :
              /\ CreateCalls(tasks)[j].kind = "link"
              /\ CreateCalls(tasks)[j].bead = tasks.links[i][1]
              /\ CreateCalls(tasks)[j].to = tasks.links[i][2]
<1>1. tasks.beads \in Seq(Beads) /\ tasks.links \in Seq(Beads \X Beads)
    BY DEF TaskLists
<1> DEFINE creates == [k \in DOMAIN tasks.beads |->
                         [kind |-> "create", bead |-> tasks.beads[k], to |-> "open"]]
           links == [k \in DOMAIN tasks.links |->
                       [kind |-> "link", bead |-> tasks.links[k][1], to |-> tasks.links[k][2]]]
           call == [kind |-> "link", bead |-> tasks.links[i][1], to |-> tasks.links[i][2]]
<1>2. creates \in Seq(BdCalls)
    BY <1>1 DEF BdCalls
<1>3. links \in Seq(BdCalls)
    BY <1>1 DEF BdCalls
<1>4. i \in DOMAIN links /\ links[i] = call
    OBVIOUS
<1>5. CreateCalls(tasks) = creates \o links
    BY DEF CreateCalls
<1> HIDE DEF creates, links
<1>6. /\ Len(creates) + i \in DOMAIN (creates \o links)
      /\ (creates \o links)[Len(creates) + i] = call
    BY <1>2, <1>3, <1>4
<1> QED
    BY <1>5, <1>6

LEMMA LinkStep ==
    ASSUME TypeOK, BeadInHand, PlanIsLinked, [Next]_vars
    PROVE  PlanIsLinked'
\* Away from the plan, bd only gains dependencies.
<1>1. ASSUME pc' # "plan", needs \subseteq needs', UNCHANGED planned
      PROVE  PlanIsLinked'
    BY <1>1 DEF PlanIsLinked, pc
<1>2. CASE Begin
  <2>1. /\ pc' = "plan" /\ work'[Me].todo = CreateCalls(plan') /\ plan' \in TaskLists
        /\ UNCHANGED <<opts, needs, planned>>
      BY <1>2, BeginRecord
  <2>2. work'[Me].todo \in Seq(NewCalls)
      BY <2>1, CreateCallsNew
  <2>3. ASSUME opts.autoCreate, NEW tasks \in TaskLists, tasks = plan',
               NEW i \in DOMAIN tasks.links
        PROVE  \E j \in DOMAIN work'[Me].todo :
                  /\ work'[Me].todo[j].kind = "link"
                  /\ work'[Me].todo[j].bead = tasks.links[i][1]
                  /\ work'[Me].todo[j].to = tasks.links[i][2]
      BY <2>1, <2>3, LinkCalls
  <2> QED
      BY <2>1, <2>2, <2>3 DEF PlanIsLinked, pc
<1>3. CASE Create
  <2> DEFINE todo == work[Me].todo
             call == Head(work[Me].todo)
             rest == Tail(work[Me].todo)
             moved == work[Me].moved \/ (call.kind = "set" /\ call.bead = work[Me].bead)
  <2>1. /\ work[Me].todo # <<>>
        /\ \/ /\ Effect(call)
              /\ work' = [work EXCEPT ![Me].todo = rest, ![Me].moved = moved]
           \/ /\ call.kind = "mark"
           \/ /\ work' = [work EXCEPT ![Me].pc = "failed", ![Me].todo = <<>>]
      BY <1>3, OneWorker, NextCallForms DEF Create
  <2>0. /\ pc = "plan" /\ todo \in Seq(NewCalls) /\ plan \in TaskLists
        /\ UNCHANGED <<opts, plan, planned>>
      BY <1>3, CreateRecord DEF PlanIsLinked, loopVars
  <2>2. /\ pc = "plan" /\ todo \in Seq(NewCalls) /\ UNCHANGED <<opts, plan, planned>>
        /\ \A i \in DOMAIN plan.links : plan.links[i] = <<plan.links[i][1], plan.links[i][2]>>
      BY <2>0 DEF TaskLists
  <2>3. /\ call \in NewCalls /\ rest \in Seq(NewCalls)
        /\ \A k \in DOMAIN todo : \/ k = 1 /\ todo[k] = call
                                  \/ k \in Int /\ k - 1 \in DOMAIN rest /\ todo[k] = rest[k - 1]
      BY <2>1, <2>2, TailElements
  <2>4. call.kind \in {"create", "link"}
      BY <2>3 DEF NewCalls
  <2> HIDE DEF call, rest, moved, todo
  <2>5. CASE work' = [work EXCEPT ![Me].pc = "failed", ![Me].todo = <<>>]
    <3>1. pc' = "failed"
        BY <2>5, OneWorker DEF TypeOK, WorkerRecords, pc
    <3>2. needs \subseteq needs'
        BY <1>3 DEF Create, NextCall, Effect, bd
    <3> QED
        BY <1>1, <2>2, <3>1, <3>2
  <2>6. CASE Effect(call) /\ work' = [work EXCEPT ![Me].todo = rest, ![Me].moved = moved]
    <3>1. pc' = "plan" /\ work'[Me].todo = rest
        BY <2>2, <2>6, OneWorker DEF TypeOK, WorkerRecords, pc
    <3>2. needs \subseteq needs' /\ (call.kind = "link" => <<call.bead, call.to>> \in needs')
        BY <2>6 DEF Effect
    <3>3. ASSUME opts.autoCreate, NEW i \in DOMAIN plan.links
          PROVE  \/ plan.links[i] \in needs'
                 \/ \E j \in DOMAIN rest : /\ rest[j].kind = "link"
                                           /\ rest[j].bead = plan.links[i][1]
                                           /\ rest[j].to = plan.links[i][2]
      <4>1. \/ plan.links[i] \in needs
            \/ \E j \in DOMAIN todo : /\ todo[j].kind = "link"
                                      /\ todo[j].bead = plan.links[i][1]
                                      /\ todo[j].to = plan.links[i][2]
          BY <2>2, <3>3 DEF PlanIsLinked, todo
      <4>2. CASE \E j \in DOMAIN todo : /\ todo[j].kind = "link"
                                        /\ todo[j].bead = plan.links[i][1]
                                        /\ todo[j].to = plan.links[i][2]
        <5>1. PICK j \in DOMAIN todo : /\ todo[j].kind = "link"
                                       /\ todo[j].bead = plan.links[i][1]
                                       /\ todo[j].to = plan.links[i][2]
            BY <4>2
        <5>2. CASE todo[j] = call
            BY <2>2, <3>2, <5>1, <5>2
        <5>3. CASE j - 1 \in DOMAIN rest /\ todo[j] = rest[j - 1]
            BY <5>1, <5>3
        <5> QED
            BY <2>3, <5>2, <5>3
      <4> QED
          BY <3>2, <4>1, <4>2
    <3> QED
        BY <2>0, <2>3, <3>1, <3>2, <3>3 DEF PlanIsLinked, pc
  <2> QED
      BY <2>1, <2>4, <2>5, <2>6
<1>4. CASE Created
  <2>1. /\ pc = "plan" /\ work[Me].todo = <<>> /\ pc' = "select" /\ UNCHANGED <<opts, needs>>
        /\ planned' = IF opts.autoCreate THEN planned \cup Links ELSE planned
      BY <1>4, IdleRecord DEF Created
  <2>2. \A j \in DOMAIN work[Me].todo : FALSE
      BY <2>1
  <2>3. ASSUME opts.autoCreate
        PROVE  Links \subseteq needs
      BY <2>1, <2>2, <2>3 DEF PlanIsLinked, Links
  <2>4. planned' \subseteq needs'
      BY <2>1, <2>3 DEF PlanIsLinked
  <2> QED
      BY <2>1, <2>4 DEF PlanIsLinked, pc
<1>5. CASE Iterate
  <2>1. pc' = "select" /\ UNCHANGED <<needs, planned>>
      BY <1>5, IdleRecord DEF Iterate, loopVars
  <2> QED
      BY <1>1, <2>1
<1>6. CASE Ends
    BY <1>1, <1>6, EndsRecord
<1>7. CASE Select
    BY <1>1, <1>7, SelectRecord
<1>8. CASE Work
    BY <1>1, <1>8, WorkKeeps DEF Busy
<1>9. CASE CheckNext
    BY <1>1, <1>9, CheckNextRecord
<1>10. CASE Reopen \/ UNCHANGED vars
    BY <1>10, RestRecord DEF PlanIsLinked, pc
<1> QED
    BY <1>2, <1>3, <1>4, <1>5, <1>6, <1>7, <1>8, <1>9, <1>10 DEF Next, Process, Ends, Rest
-----------------------------------------------------------------------------
(* Stranded beads *)

\* The statuses that a process's own calls set, if no agent takes a bead.
LEMMA Fits ==
    LET S == Statuses \ {"absent", "in_progress"} IN
    /\ <<>> \in Seq(CallsTo(S)) /\ {"blocked", "review"} \subseteq S
    /\ \A calls \in Seq(NewCalls) : calls \in Seq(CallsTo(S))
BY NewCallsFit DEF Statuses

\* The work on a bead puts no bead in progress, and a bead that stays in progress until
\* the end has not been moved by its agent.
LEMMA StrandWork ==
    ASSUME TypeOK, BeadInHand, GateKept(Me), NoneTaken, Work, NEW b \in Beads, b = InHand,
           work[Me].todo \in Seq(CallsTo(Statuses \ {"absent", "in_progress"}))
    PROVE  /\ work'[Me].todo \in Seq(CallsTo(Statuses \ {"absent", "in_progress"}))
           /\ \A d \in Beads : status'[d] = "in_progress" => status[d] = "in_progress"
           /\ ~opts.faults /\ opts.autoUpdate /\ ~work[Me].moved
                 /\ status'[b] = "in_progress"
              => ~work'[Me].moved /\ pc' # "ok"
<1> DEFINE S == Statuses \ {"absent", "in_progress"}
<1>1. /\ work \in [Workers -> WorkerRecords(LoopPcs)] /\ work[Me] \in WorkerRecords(LoopPcs)
      /\ status \in [Beads -> Statuses] /\ b = work[Me].bead /\ Me \in Workers
      /\ work[Me].todo \in Seq(CallsTo(S)) /\ status[b] # "absent" /\ WorkTypeOK
      /\ FixOf \in [Beads -> Beads \cup {NoBead}] /\ opts.autoUpdate \in BOOLEAN
    BY OneWorker, WorkConfig, WorkKeeps, OptionTypes DEF TypeOK, WorkTypeOK, InHand, BeadInHand, Busy
<1> HIDE DEF S
<1>2. \A to \in {"blocked", "closed"} : MarkIfUpdating(b, to) =>
         /\ \A d \in Beads : status'[d] = "in_progress" => status[d] = "in_progress"
         /\ ~opts.faults /\ opts.autoUpdate => status'[b] = to
    BY <1>1 DEF MarkIfUpdating, Mark
<1>3. CASE RunFails(Me)
  <2>1. pc' = "failed" /\ work'[Me].todo = work[Me].todo /\ work'[Me].moved = work[Me].moved
      BY <1>1, <1>3 DEF RunFails, WorkerRecords, pc
  <2> QED
      BY <1>1, <1>2, <1>3, <2>1 DEF RunFails, S
<1>4. CASE RunEnds(Me)
  <2>1. PICK a \in Answers[work[Me].bead] \cup {NoAnswer}, gate \in BOOLEAN : \E todo :
              /\ todo = IF a = NoAnswer THEN <<>> ELSE Calls(work[Me].bead, a)
              /\ gate = (a # NoAnswer /\ GateFails(a))
              /\ work' = [work EXCEPT ![Me].pc = "apply", ![Me].answer = a, ![Me].todo = todo,
                                      ![Me].gate = gate]
      BY <1>1, <1>4, RunEndsForms
  <2>2. PICK todo : /\ todo = IF a = NoAnswer THEN <<>> ELSE Calls(b, a)
                    /\ work' = [work EXCEPT ![Me].pc = "apply", ![Me].answer = a,
                                            ![Me].todo = todo, ![Me].gate = gate]
      BY <1>1, <2>1
  <2>3. todo \in Seq(CallsTo(S))
    <3>1. CASE a = NoAnswer
        BY <2>2, <3>1, Fits DEF S
    <3>2. CASE a # NoAnswer
      <4>1. a \in Answers[b] /\ a \in Actions
          BY <1>1, <2>1, <3>2, WorkConfig
      <4>2. \A i \in DOMAIN a.updates : a.updates[i][2] \in S
        <5>1. a.updates \in Seq(Beads \X (Statuses \ {"absent"}))
            BY <4>1 DEF Actions
        <5>2. \A i \in DOMAIN a.updates : a.updates[i] \in Beads \X (Statuses \ {"absent"})
            BY <5>1
        <5> QED
            BY <4>1, <5>2 DEF NoneTaken, S
      <4> QED
          BY <2>2, <3>2, <4>1, <4>2, Fits, CallsToTypes DEF S
    <3> QED
        BY <3>1, <3>2
  <2>4. pc' = "apply" /\ work'[Me].todo = todo /\ work'[Me].moved = work[Me].moved
      BY <1>1, <2>2 DEF WorkerRecords, pc
  <2> QED
      BY <1>4, <2>3, <2>4 DEF RunEnds, bd, S
<1>5. CASE RunIsCut(Me)
  <2>1. pc' = "apply" /\ work'[Me].todo = work[Me].todo /\ work'[Me].moved = work[Me].moved
      BY <1>1, <1>5 DEF RunIsCut, WorkerRecords, pc
  <2> QED
      BY <1>1, <1>5, <2>1 DEF RunIsCut, bd, S
<1>6. CASE Apply(Me)
  <2> DEFINE call == Head(work[Me].todo)
             rest == Tail(work[Me].todo)
             moved == work[Me].moved \/ (call.kind = "set" /\ call.bead = work[Me].bead)
  <2>1. /\ work[Me].todo # <<>>
        /\ \/ /\ Effect(call)
              /\ work' = [work EXCEPT ![Me].todo = rest, ![Me].moved = moved]
           \/ /\ UNCHANGED bd
              /\ \/ work' = [work EXCEPT ![Me].todo = rest]
                 \/ work' = [work EXCEPT ![Me].pc = "failed", ![Me].todo = <<>>]
      BY <1>1, <1>6, NextCallForms DEF Apply
  <2>2. call \in CallsTo(S) /\ rest \in Seq(CallsTo(S)) /\ pc = "apply"
      BY <1>1, <1>6, <2>1, TailElements DEF Apply, pc
  <2>3. call \in BdCalls /\ (call.kind \in {"set", "mark"} => call.to # "in_progress")
      BY <2>2 DEF CallsTo, S
  <2>4. <<>> \in Seq(CallsTo(S))
      BY Fits DEF S
  <2>5. CASE Effect(call) /\ work' = [work EXCEPT ![Me].todo = rest, ![Me].moved = moved]
    <3>1. \A d \in Beads : status'[d] = "in_progress" => status[d] = "in_progress"
        BY <1>1, <2>3, <2>5, EffectStatus
    <3>2. status'[b] = "in_progress" => (moved <=> work[Me].moved)
        BY <1>1, <2>3, <2>5 DEF Effect
    <3> HIDE DEF call, rest, moved
    <3>3. pc' = "apply" /\ work'[Me].todo = rest /\ work'[Me].moved = moved
        BY <1>1, <2>2, <2>5 DEF WorkerRecords, pc
    <3> QED
        BY <2>2, <3>1, <3>2, <3>3 DEF S
  <2> HIDE DEF call, rest, moved
  <2>6. CASE /\ UNCHANGED bd
             /\ \/ work' = [work EXCEPT ![Me].todo = rest]
                \/ work' = [work EXCEPT ![Me].pc = "failed", ![Me].todo = <<>>]
    <3>1. /\ pc' \in {"apply", "failed"} /\ work'[Me].todo \in {rest, <<>>}
          /\ work'[Me].moved = work[Me].moved
        BY <1>1, <2>2, <2>6 DEF WorkerRecords, pc
    <3> QED
        BY <2>2, <2>4, <2>6, <3>1 DEF bd, S
  <2> QED
      BY <2>1, <2>5, <2>6
<1>7. CASE Judge(Me, "next")
  <2>1. \E moved : \/ /\ MarkIfUpdating(b, "blocked")
                      /\ work' = [work EXCEPT ![Me].pc = "next", ![Me].gate = TRUE, ![Me].moved = moved]
                   \/ /\ UNCHANGED status
                      /\ work' = [work EXCEPT ![Me].pc = "next"]
      BY <1>1, <1>7 DEF Judge
  <2>2. /\ pc' = "next" /\ work'[Me].todo = work[Me].todo
        /\ \/ MarkIfUpdating(b, "blocked")
           \/ UNCHANGED status /\ work'[Me].moved = work[Me].moved
      BY <1>1, <2>1 DEF WorkerRecords, pc
  <2> QED
      BY <1>1, <1>2, <2>2 DEF S
<1>8. CASE CreateFix(Me)
  <2>1. /\ pc' \in {"link", "count"} /\ work'[Me].todo = work[Me].todo
        /\ work'[Me].moved = work[Me].moved
      BY <1>1, <1>8 DEF CreateFix, WorkerRecords, pc
  <2>2. \A d \in Beads : status'[d] = "in_progress" => status[d] = "in_progress"
      BY <1>1, <1>8 DEF CreateFix, WantsFix
  <2> QED
      BY <1>1, <2>1, <2>2 DEF S
<1>9. CASE LinkFix(Me)
  <2>1. pc' = "count" /\ work'[Me].todo = work[Me].todo /\ work'[Me].moved = work[Me].moved
      BY <1>1, <1>9 DEF LinkFix, WorkerRecords, pc
  <2> QED
      BY <1>1, <1>9, <2>1 DEF LinkFix, S
<1>10. CASE CountFailure(Me)
  <2>1. /\ pc = "count" /\ UNCHANGED status /\ work'[Me].todo = work[Me].todo
        /\ work'[Me].moved = work[Me].moved
      BY <1>1, <1>10 DEF CountFailure, WorkerRecords, pc, bd
  <2>2. opts.autoUpdate /\ ~opts.faults => status[b] \in {"blocked", "review"}
      BY <1>1, <2>1 DEF GateKept, Gated, pc
  <2> QED
      BY <1>1, <2>1, <2>2 DEF S
<1>11. CASE PassGate(Me)
  <2>1. /\ pc' \in {"stopped", "close"} /\ work'[Me].todo = work[Me].todo
        /\ work'[Me].moved = work[Me].moved
      BY <1>1, <1>11 DEF PassGate, WorkerRecords, pc
  <2> QED
      BY <1>1, <1>11, <2>1 DEF PassGate, bd, S
<1>12. CASE CloseBead(Me)
  <2>1. work'[Me].todo = work[Me].todo
      BY <1>1, <1>12 DEF CloseBead, WorkerRecords
  <2>2. (work[Me].moved /\ UNCHANGED status) \/ MarkIfUpdating(b, "closed")
      BY <1>1, <1>12 DEF CloseBead
  <2> QED
      BY <1>1, <1>2, <2>1, <2>2 DEF S
<1> QED
    BY <1>3, <1>4, <1>5, <1>6, <1>7, <1>8, <1>9, <1>10, <1>11, <1>12, WorkKeeps DEF Finish

LEMMA StrandStep ==
    ASSUME LoopInv, NoneStranded, NoneTaken, [Next]_vars
    PROVE  NoneStranded'
<1>1. /\ TypeOK /\ BeadInHand /\ GateKept(Me)
      /\ status \in [Beads -> Statuses] /\ starts \in Nat
    BY LoopConfig DEF LoopInv, TypeOK, WorkTypeOK
<1>2. CASE Begin
  <2>1. /\ pc = "gone" /\ pc' = "plan" /\ starts' = starts + 1 /\ verdict' = "none"
        /\ UNCHANGED <<opts, status>> /\ work'[Me].todo = CreateCalls(plan')
        /\ plan' \in TaskLists
      BY <1>1, <1>2, BeginRecord DEF Begin, bd
  <2>2. work'[Me].todo \in Seq(CallsTo(Statuses \ {"absent", "in_progress"}))
      BY <2>1, CreateCallsNew, Fits
  <2> QED
      BY <1>1, <2>1, <2>2 DEF NoneStranded, pc
<1>3. CASE Create
  <2>1. /\ pc = "plan" /\ pc' \in {"plan", "failed"}
        /\ UNCHANGED <<opts, starts, verdict>>
      BY <1>1, <1>3, CreateRecord DEF loopVars
  <2> DEFINE S == Statuses \ {"absent", "in_progress"}
             call == Head(work[Me].todo)
             rest == Tail(work[Me].todo)
             moved == work[Me].moved \/ (call.kind = "set" /\ call.bead = work[Me].bead)
  <2>2. /\ work[Me].todo # <<>>
        /\ \/ /\ Effect(call)
              /\ work' = [work EXCEPT ![Me].todo = rest, ![Me].moved = moved]
           \/ /\ UNCHANGED bd
              /\ \/ work' = [work EXCEPT ![Me].todo = rest]
                 \/ work' = [work EXCEPT ![Me].pc = "failed", ![Me].todo = <<>>]
      BY <1>3, OneWorker, NextCallForms DEF Create
  <2>3. call \in CallsTo(S) /\ rest \in Seq(CallsTo(S)) /\ <<>> \in Seq(CallsTo(S))
      BY <2>2, TailElements, Fits DEF NoneStranded
  <2>4. call \in BdCalls /\ (call.kind \in {"set", "mark"} => call.to # "in_progress")
      BY <2>3 DEF CallsTo
  <2>5. \A d \in Beads : status'[d] = "in_progress" => status[d] = "in_progress"
      BY <1>1, <2>2, <2>4, EffectStatus DEF TypeOK, bd
  <2> HIDE DEF S, call, rest, moved
  <2>6. work'[Me].todo \in Seq(CallsTo(S))
    <3>1. work'[Me].todo \in {rest, <<>>}
        BY <1>1, <2>2, OneWorker DEF TypeOK, WorkerRecords
    <3> QED
        BY <2>3, <3>1
  <2> QED
      BY <2>1, <2>5, <2>6 DEF NoneStranded, S, pc
<1>4. CASE Created \/ Iterate
  <2>1. /\ pc \in {"plan", "ok"} /\ pc' = "select" /\ work'[Me].todo = <<>>
        /\ UNCHANGED <<opts, status, starts, verdict>>
      BY <1>1, <1>4, IdleRecord
  <2> QED
      BY <2>1, Fits DEF NoneStranded, pc, Busy
<1>5. CASE Ends
  <2>1. /\ pc # "gone" /\ pc' = "gone" /\ work'[Me].todo = <<>>
        /\ UNCHANGED <<opts, status, starts>>
        /\ verdict' \in {"complete", "limit"} => pc = "select"
      BY <1>1, <1>5, EndsRecord, EndsReturn
  <2>2. verdict' # "none"
      BY <1>5, EndsReturn DEF Return
  <2> QED
      BY <2>1, <2>2, Fits DEF NoneStranded, pc, Busy
<1>6. CASE Select
  <2>1. PICK b \in Beads :
              /\ pc = "select" /\ pc' = "run" /\ InHand' = b
              /\ ~work'[Me].moved /\ work'[Me].todo = <<>>
              /\ status' = IF opts.autoUpdate THEN [status EXCEPT ![b] = "in_progress"]
                           ELSE status
              /\ UNCHANGED <<opts, starts, verdict>>
      BY <1>1, <1>6, SelectRecord
  <2>2. \A d \in Beads : status'[d] = "in_progress" =>
           status[d] = "in_progress" \/ (opts.autoUpdate /\ d = b)
      BY <1>1, <2>1
  <2> QED
      BY <2>1, <2>2, Fits DEF NoneStranded, pc, Busy
<1>7. CASE Work
  <2>1. PICK b \in Beads : b = InHand
      BY <1>1, <1>7, WorkKeeps DEF BeadInHand, Busy
  <2>2. work[Me].todo \in Seq(CallsTo(Statuses \ {"absent", "in_progress"}))
      BY DEF NoneStranded
  <2>3. /\ work'[Me].todo \in Seq(CallsTo(Statuses \ {"absent", "in_progress"}))
        /\ \A d \in Beads : status'[d] = "in_progress" => status[d] = "in_progress"
        /\ ~opts.faults /\ opts.autoUpdate /\ ~work[Me].moved
              /\ status'[b] = "in_progress"
           => ~work'[Me].moved /\ pc' # "ok"
      BY <1>1, <1>7, <2>1, <2>2, StrandWork
  <2>4. /\ pc \in {"run", "apply", "settle", "link", "count", "close"}
        /\ pc' \in Busy \ {"run"} /\ InHand' = InHand
        /\ UNCHANGED <<opts, starts, verdict>>
      BY <1>1, <1>7, WorkKeeps DEF InHand
  <2> QED
      BY <2>1, <2>3, <2>4 DEF NoneStranded, pc, Busy
<1>8. CASE CheckNext
  <2>1. /\ pc = "next" /\ pc' \in {"settle", "failed"}
        /\ InHand' = InHand /\ work'[Me].todo = work[Me].todo
        /\ UNCHANGED <<opts, starts, verdict>>
        /\ \/ MarkIfUpdating(InHand, "blocked")
           \/ work'[Me].moved = work[Me].moved /\ UNCHANGED status
      BY <1>1, <1>8, CheckNextRecord
  <2>2. PICK b \in Beads : b = InHand
      BY <1>1, <2>1 DEF BeadInHand, Busy
  <2>3. ASSUME MarkIfUpdating(b, "blocked")
        PROVE  /\ \A d \in Beads : status'[d] = "in_progress" => status[d] = "in_progress"
               /\ ~opts.faults /\ opts.autoUpdate => status'[b] = "blocked"
      BY <1>1, <2>3 DEF MarkIfUpdating, Mark
  <2> QED
      BY <2>1, <2>2, <2>3 DEF NoneStranded, pc, Busy
<1>9. CASE Reopen \/ UNCHANGED vars
  <2>1. \A d \in Beads : status'[d] = "in_progress" => status[d] = "in_progress"
      BY <1>1, <1>9 DEF Reopen, vars, workVars, bd
  <2>2. UNCHANGED <<opts, work, starts, verdict>>
      BY <1>9, RestRecord
  <2> QED
      BY <2>1, <2>2 DEF NoneStranded, pc, InHand
<1> QED
    BY <1>2, <1>3, <1>4, <1>5, <1>6, <1>7, <1>8, <1>9 DEF Next, Process, Ends, Rest
-----------------------------------------------------------------------------
(* Theorems *)

LEMMA InitHolds == Init => LoopInv
<1> SUFFICES ASSUME Init PROVE LoopInv
    OBVIOUS
<1>1. TypeOK
    BY InitTypes
<1>2. pc = "gone" /\ ~work[Me].gate
    BY OneWorker DEF Init, At, pc
<1>3. opts.maxFix \in Nat
    BY <1>1, OptionTypes DEF TypeOK
<1>4. BeadInHand /\ GateKept(Me) /\ PlanIsLinked
    BY <1>2 DEF Init, BeadInHand, Busy, GateKept, PlanIsLinked, pc
<1>5. RunsAreCounted
    BY <1>2, <1>3 DEF RunsAreCounted, RetriesCapped, Init
<1> QED
    BY <1>1, <1>4, <1>5 DEF LoopInv

LEMMA StepHolds == LoopInv /\ [Next]_vars => LoopInv'
BY StepTypes, HandStep, GateStep, CountStep, LinkStep DEF LoopInv

\* What every reachable state satisfies: types, the bead in hand, the mark of a failed
\* gate, the count of runs against the count of failures, and the links of the plans.
THEOREM LoopInvariant == Spec => []LoopInv
<1>1. Init => LoopInv
    BY InitHolds
<1>2. LoopInv /\ [Next]_vars => LoopInv'
    BY StepHolds
<1> QED
    BY <1>1, <1>2, PTL DEF Spec

\* Every variable of the controller keeps its type; max_beads is never overrun.
THEOREM TypesKept == Spec => []TypeOK
<1>1. LoopInv => TypeOK
    BY DEF LoopInv
<1> QED
    BY <1>1, LoopInvariant, PTL

\* When a failed gate is counted its bead is blocked or in review, whatever the agent has
\* set it to (applyActions marks after the updates, createBeads only creates).
THEOREM FailedGatesStayOpen == Spec => []GatedIsOpen
<1>1. LoopInv => GatedIsOpen
  <2>1. LoopInv => GateKept(Me)
      BY DEF LoopInv
  <2>2. GateKept(Me) => GatedIsOpen
      BY OneWorker DEF GateKept, Gated, GatedIsOpen
  <2> QED
      BY <2>1, <2>2
<1> QED
    BY <1>1, LoopInvariant, PTL

\* No process runs a bead more often than max_fix_attempts without its gate holding in
\* between, with attempts of its own or those of the file.
THEOREM RetriesAreCapped == Spec => []RetriesCapped
<1>1. LoopInv => RetriesCapped
    BY DEF LoopInv, RunsAreCounted
<1> QED
    BY <1>1, LoopInvariant, PTL

\* A bead is taken only when what its task depends on is closed, in every plan of which
\* some process has created all beads and dependencies: whatever each process plans, and
\* however often one dies.
THEOREM PlanOrderKept == Spec => DependenciesFirst
<1>1. LoopInv /\ [Next]_vars =>
         [\A link \in planned :
             pc = "select" /\ work'[Me].bead = link[1] => status[link[2]] = "closed"]_vars
  <2> SUFFICES ASSUME LoopInv, Next, NEW link \in planned,
                      pc = "select", work'[Me].bead = link[1]
               PROVE  status[link[2]] = "closed"
      OBVIOUS
  <2>1. link \in Beads \X Beads /\ link = <<link[1], link[2]>> /\ link[1] # NoBead
      BY WorkConfig DEF LoopInv, TypeOK
  <2>2. <<link[1], link[2]>> \in needs
      BY <2>1 DEF LoopInv, PlanIsLinked
  <2>3. CASE Select
    <3>1. InHand' \in Ready
        BY <2>3, SelectRecord DEF LoopInv
    <3>2. link[1] \in Ready
        BY <3>1 DEF InHand
    <3> QED
        BY <2>1, <2>2, <3>2 DEF Ready
  <2>4. CASE Ends
    <3>1. work'[Me] = At("gone")
        BY <2>4, EndsReturn, ReturnIdle DEF LoopInv, TypeOK
    <3> QED
        BY <2>1, <3>1 DEF At
  <2>5. CASE Rest \/ Reopen \/ Begin \/ Create \/ Created \/ CheckNext \/ Iterate
      BY <2>5 DEF Rest, Reopen, Begin, Create, Created, CheckNext, Iterate
  <2>6. CASE Work
      BY <2>6, WorkKeeps DEF LoopInv
  <2> QED
      BY <2>3, <2>4, <2>5, <2>6 DEF Next, Process, Ends
<1> QED
    BY <1>1, LoopInvariant, PTL DEF Spec, DependenciesFirst

\* A first process that finds nothing more to do or reaches max_beads leaves no bead in
\* progress; however it ends, a requested stop included, it leaves at most one.
THEOREM NothingIsStranded == Spec => []NothingStranded
<1>1. Init => NoneStranded
  <2> SUFFICES ASSUME Init PROVE NoneStranded
      OBVIOUS
  <2>1. pc = "gone" /\ work[Me].todo = <<>>
      BY OneWorker DEF Init, At, pc
  <2>2. starts = 0 /\ verdict = "none" /\ \A b \in Beads : status[b] # "in_progress"
      BY DEF Init
  <2> QED
      BY <2>1, <2>2, Fits DEF NoneStranded
<1>2. NoneTaken /\ LoopInv /\ NoneStranded /\ [Next]_vars => NoneStranded'
    BY StrandStep
<1>3. NoneTaken /\ NoneStranded => NothingStranded
    BY DEF NoneStranded, NothingStranded
<1>4. CASE NoneTaken
  <2>1. LoopInv /\ NoneStranded /\ [Next]_vars => NoneStranded'
      BY <1>2, <1>4
  <2>2. NoneStranded => NothingStranded
      BY <1>3, <1>4
  <2> QED
      BY <1>1, <2>1, <2>2, LoopInvariant, PTL DEF Spec
<1>5. CASE ~NoneTaken
  <2>1. NothingStranded
      BY <1>5 DEF NothingStranded
  <2> QED
      BY <2>1, PTL
<1> QED
    BY <1>4, <1>5
=============================================================================
