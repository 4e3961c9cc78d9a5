---------------------------- MODULE BeadPoolProofs ----------------------------
(***************************************************************************)
(* Proofs about BeadPool, for any number of beads and workers, every       *)
(* answer of their agents and every configuration: types, the refinement   *)
(* of Batch, and that no bead of a round slips through.                    *)
(***************************************************************************)
EXTENDS BeadPool, BeadWorkProofs, FiniteSetTheorems, SequenceTheorems

-----------------------------------------------------------------------------
(* Types *)

LEMMA IdleWorkers ==
    ASSUME NEW pc \in PoolPcs, NEW b \in Beads
    PROVE  At(pc) \in WorkerRecords(PoolPcs) /\ Holding(pc, b) \in WorkerRecords(PoolPcs)
<1>1. At(pc) \in WorkerRecords(PoolPcs)
    BY DEF At, WorkerRecords
<1> QED
    BY <1>1 DEF At, Holding, WorkerRecords

LEMMA BusyPcs ==
    /\ {"wait", "check", "cancel", "gone", "run", "apply", "settle", "link", "count", "close",
        "ok", "stopped", "failed"} = PoolPcs
BY DEF PoolPcs, Busy

\* A round is a listing of beads that are ready, each of them once.
LEMMA Rounds ==
    ASSUME TypeOK, ListReady
    PROVE  /\ round' \in Seq(Beads) /\ round' # <<>>
           /\ \A i \in DOMAIN round' : round'[i] \in Ready
           /\ \A i, j \in DOMAIN round' : round'[i] = round'[j] => i = j
<1>1. Picked \subseteq Ready /\ Ready \subseteq Beads /\ Picked # {}
    BY DEF Picked, Candidates, Ready, ListReady
<1>2. IsFiniteSet(Picked)
    BY <1>1, WorkConfig, FS_Subset
<1> DEFINE n == Cardinality(Picked)
<1>3. n \in Nat \ {0}
    BY <1>1, <1>2, FS_CardinalityType, FS_EmptySet
<1>4. PICK r \in Listings(Picked) : round' = SubSeq(r, 1, Capped(Len(r)))
    BY DEF ListReady
<1>5. r \in [1 .. n -> Picked] /\ \A i, j \in 1 .. n : r[i] = r[j] => i = j
    BY <1>4 DEF Listings
<1> HIDE DEF n
<1>6. Len(r) = n
    BY <1>3, <1>5
<1> DEFINE k == Capped(Len(r))
<1>7. k \in 1 .. n
    BY <1>3, <1>6, OptionTypes DEF Capped, TypeOK
<1> HIDE DEF k
<1>8. \A i \in 1 .. k : r[i] \in Picked
    BY <1>3, <1>5, <1>7
<1>9. /\ SubSeq(r, 1, k) \in Seq(Picked)
      /\ Len(SubSeq(r, 1, k)) = k
      /\ \A i \in 1 .. k : SubSeq(r, 1, k)[i] = r[i]
  <2>1. k \in Int /\ 1 \in Int /\ 1 <= k
      BY <1>3, <1>7
  <2>2. /\ SubSeq(r, 1, k) \in Seq(Picked)
        /\ Len(SubSeq(r, 1, k)) = IF 1 <= k THEN k - 1 + 1 ELSE 0
        /\ \A i \in 1 .. k - 1 + 1 : SubSeq(r, 1, k)[i] = r[1 + i - 1]
      BY <1>8, <2>1, SubSeqProperties
  <2> QED
      BY <2>1, <2>2
<1>10. round' = SubSeq(r, 1, k)
    BY <1>4 DEF k
<1>11. /\ round' \in Seq(Picked) /\ Len(round') = k
       /\ \A i \in 1 .. k : round'[i] = r[i]
    BY <1>9, <1>10
<1>12. round' \in Seq(Beads)
    BY <1>1, <1>11, SeqMonotonic
<1>13. DOMAIN round' = 1 .. k
    BY <1>11
<1> QED
    BY <1>1, <1>3, <1>5, <1>7, <1>8, <1>11, <1>12, <1>13

LEMMA StartPoolTypes ==
    ASSUME TypeOK, NEW n, StartPool(n)
    PROVE  /\ attempts' \in [Beads -> Nat]
           /\ work' \in [Workers -> WorkerRecords(PoolPcs)]
           /\ canceled' \in BOOLEAN /\ stage' = "feed" /\ sent' = 0 /\ got' = 0
<1>1. At("wait") \in WorkerRecords(PoolPcs) /\ At("gone") \in WorkerRecords(PoolPcs)
    BY DEF At, WorkerRecords, PoolPcs
<1>2. \A w \in Workers :
          At(IF w <= PoolSize(n) THEN "wait" ELSE "gone") \in WorkerRecords(PoolPcs)
    BY <1>1
<1> QED
    BY <1>2 DEF StartPool, TypeOK, WorkTypeOK

LEMMA InitTypes == Init => TypeOK
<1> SUFFICES ASSUME Init PROVE TypeOK
    OBVIOUS
<1>1. At("gone") \in WorkerRecords(PoolPcs)
    BY DEF At, WorkerRecords, PoolPcs
<1>2. WorkTypeOK
    BY DEF Init, WorkTypeOK, Statuses
<1>3. phase \in 1 .. opts.phases
    BY <1>2, OptionTypes DEF Init
<1>4. work \in [Workers -> WorkerRecords(PoolPcs)]
    BY <1>1 DEF Init
<1>5. /\ round \in Seq(Beads) /\ sent \in 0 .. Len(round) /\ got \in 0 .. sent
    BY DEF Init
<1>6. /\ stage \in {"list", "feed", "join", "over"} /\ canceled \in BOOLEAN
      /\ errs \subseteq Beads /\ verdict \in {"none", "open", "nothing", "ok", "error"}
    BY DEF Init
<1> QED
    BY <1>2, <1>3, <1>4, <1>5, <1>6 DEF TypeOK

LEMMA CoordinatorTypes ==
    ASSUME PoolInv, Coordinator
    PROVE  TypeOK'
<1> USE DEF PoolInv, TypeOK, WorkTypeOK, workVars, channel, control, bd
<1>1. CASE ListFails \/ NothingReady
    BY <1>1 DEF ListFails, NothingReady, Return
<1>2. CASE ListReady
  <2>1. round' \in Seq(Beads) /\ StartPool(Len(round'))
      BY <1>2, Rounds DEF ListReady
  <2>2. /\ attempts' \in [Beads -> Nat]
        /\ work' \in [Workers -> WorkerRecords(PoolPcs)]
        /\ canceled' \in BOOLEAN /\ stage' = "feed" /\ sent' = 0 /\ got' = 0
      BY <2>1, StartPoolTypes
  <2>3. Len(round') \in Nat
      BY <2>1
  <2> QED
      BY <1>2, <2>1, <2>2, <2>3 DEF ListReady
<1>3. CASE Feed
    BY <1>3 DEF Feed
<1>4. CASE Join
  <2>1. CASE Return("error") \/ Return("ok")
      BY <2>1 DEF Return
  <2>2. CASE phase < opts.phases /\ phase' = phase + 1 /\ StartPool(Len(round))
             /\ UNCHANGED <<opts, bd, round, verdict, errs>>
    <3>1. /\ attempts' \in [Beads -> Nat]
          /\ work' \in [Workers -> WorkerRecords(PoolPcs)]
          /\ canceled' \in BOOLEAN /\ stage' = "feed" /\ sent' = 0 /\ got' = 0
        BY <2>2, StartPoolTypes
    <3>2. phase' \in 1 .. opts'.phases
        BY <2>2, OptionTypes
    <3> QED
        BY <2>2, <3>1, <3>2
  <2> QED
      BY <1>4, <2>1, <2>2 DEF Join
<1> QED
    BY <1>1, <1>2, <1>3, <1>4 DEF Coordinator

LEMMA WorkerTypes ==
    ASSUME PoolInv, NEW w \in Workers, Worker(w)
    PROVE  TypeOK'
<1> USE DEF workVars, channel, control, bd, poolRest
<1>1. /\ WorkTypeOK /\ work \in [Workers -> WorkerRecords(PoolPcs)]
      /\ work[w] \in WorkerRecords(PoolPcs)
    BY DEF PoolInv, TypeOK
<1>2. Holds(w) => work[w].bead \in Beads
    BY DEF PoolInv, TypeOK, BeadsInHand
<1>3. ASSUME WorkTypeOK', work' \in [Workers -> WorkerRecords(PoolPcs)],
             UNCHANGED <<stage, round, phase, verdict, sent>>, got' \in 0 .. sent,
             canceled' \in BOOLEAN, errs' \subseteq Beads, UNCHANGED opts
      PROVE  TypeOK'
    BY <1>3 DEF PoolInv, TypeOK
<1>4. CASE Receive(w)
  <2>1. got + 1 \in 1 .. Len(round) /\ got' \in 0 .. sent
      BY <1>4 DEF Receive, PoolInv, TypeOK
  <2>2. round[got + 1] \in Beads
      BY <2>1 DEF PoolInv, TypeOK
  <2>3. Holding("check", round[got + 1]) \in WorkerRecords(PoolPcs)
      BY <2>2, IdleWorkers, BusyPcs
  <2> QED
      BY <1>1, <1>3, <1>4, <2>1, <2>3 DEF Receive, WorkTypeOK, PoolInv, TypeOK
<1>5. CASE Drained(w) \/ Succeed(w) \/ AddError(w) \/ Cancel(w)
  <2>1. \E pc \in {"gone", "wait", "cancel"} : Goto(w, pc)
      BY <1>5 DEF Drained, Succeed, AddError, Cancel
  <2>2. \A pc \in {"gone", "wait", "cancel"} : At(pc) \in WorkerRecords(PoolPcs)
      BY DEF At, WorkerRecords, PoolPcs
  <2>3. work' \in [Workers -> WorkerRecords(PoolPcs)]
      BY <1>1, <2>1, <2>2 DEF Goto
  <2>4. errs' \subseteq Beads /\ canceled' \in BOOLEAN
    <3>1. AddError(w) => work[w].bead \in Beads
        BY <1>2 DEF AddError, Holds, Busy
    <3> QED
        BY <1>5, <3>1 DEF Drained, Succeed, AddError, Cancel, PoolInv, TypeOK
  <2> QED
      BY <1>1, <1>3, <1>5, <2>3, <2>4
      DEF Drained, Succeed, AddError, Cancel, WorkTypeOK, PoolInv, TypeOK
<1>6. CASE CheckContext(w)
  <2>1. At("gone") \in WorkerRecords(PoolPcs)
      BY DEF At, WorkerRecords, PoolPcs
  <2>2. [work[w] EXCEPT !.pc = "run"] \in WorkerRecords(PoolPcs)
      BY <1>1 DEF WorkerRecords, PoolPcs, Busy
  <2>3. work' \in [Workers -> WorkerRecords(PoolPcs)]
      BY <1>1, <1>6, <2>1, <2>2 DEF CheckContext
  <2> QED
      BY <1>1, <1>3, <1>6, <2>3 DEF CheckContext, WorkTypeOK, PoolInv, TypeOK
<1>7. CASE WorkOn(w)
  <2>1. WorkTypeOK' /\ work' \in [Workers -> WorkerRecords(PoolPcs)]
    <3>1. CASE RunFails(w) \/ RunEnds(w) \/ RunIsCut(w)
      <4>1. work[w].bead \in Beads
          BY <1>2, <3>1 DEF RunFails, RunEnds, RunIsCut, Holds, Busy
      <4>2. {"failed", "apply"} \subseteq PoolPcs
          BY BusyPcs
      <4> QED
          BY <1>1, <3>1, <4>1, <4>2, RunTypes
    <3>2. CASE SkipActions(w)
        BY <1>1, <3>2 DEF SkipActions, WorkTypeOK, WorkerRecords, PoolPcs, Busy
    <3>3. CASE Finish(w, "settle")
      <4>1. work[w].bead \in Beads
          BY <1>2, <3>3 DEF Finish, Apply, Judge, CreateFix, LinkFix, CountFailure, PassGate,
                            CloseBead, Holds, Busy
      <4>2. {"failed", "link", "count", "ok", "stopped", "close"} \subseteq PoolPcs
            /\ "settle" \in PoolPcs
          BY BusyPcs
      <4>3. work[w].pc = "link" => FixOf[work[w].bead] \in Beads
          BY DEF PoolInv, BeadsInHand
      <4> QED
          BY <1>1, <3>3, <4>1, <4>2, <4>3, FinishTypes
    <3> QED
        BY <1>7, <3>1, <3>2, <3>3 DEF WorkOn
  <2>2. UNCHANGED opts
      BY <1>7 DEF WorkOn, RunFails, RunEnds, RunIsCut, SkipActions, Finish, Apply, NextCall,
                  Judge, CreateFix, LinkFix, CountFailure, PassGate, CloseBead
  <2> QED
      BY <1>3, <1>7, <2>1, <2>2 DEF WorkOn, PoolInv, TypeOK
<1> QED
    BY <1>4, <1>5, <1>6, <1>7 DEF Worker
-----------------------------------------------------------------------------
(* Beads and stages *)

LEMMA InitHand == Init => BeadsInHand /\ StagesFollow /\ NobodyLeavesEarly
<1> SUFFICES ASSUME Init PROVE BeadsInHand /\ StagesFollow /\ NobodyLeavesEarly
    OBVIOUS
<1>1. \A w \in Workers : work[w].pc = "gone"
    BY DEF Init, At
<1>2. BeadsInHand
    BY <1>1 DEF Init, BeadsInHand, Holds, Busy
<1>3. StagesFollow
    BY <1>1 DEF Init, StagesFollow
<1>4. NobodyLeavesEarly
    BY <1>1 DEF Init, NobodyLeavesEarly
<1> QED
    BY <1>2, <1>3, <1>4

\* What the steps of a worker on its bead leave alone.
LEMMA WorkOnKeeps ==
    ASSUME PoolInv, NEW w \in Workers, WorkOn(w)
    PROVE  /\ UNCHANGED <<stage, phase, verdict, round, sent, got, canceled, errs, opts>>
           /\ \A v \in Workers \ {w} : work'[v] = work[v]
           /\ work'[w].bead = work[w].bead
           /\ work[w].pc \in Busy /\ work'[w].pc \in Busy
           /\ work'[w].pc = "link" => FixOf[work'[w].bead] \in Beads
<1>1. work \in [Workers -> WorkerRecords(PoolPcs)]
    BY DEF PoolInv, TypeOK
<1>2. UNCHANGED <<stage, phase, verdict, round, sent, got, canceled, errs>>
    BY DEF WorkOn, poolRest, control
<1>3. CASE SkipActions(w)
    BY <1>1, <1>2, <1>3 DEF SkipActions, WorkerRecords, Busy
<1>4. CASE RunFails(w) \/ RunEnds(w) \/ RunIsCut(w) \/ Finish(w, "settle")
  <2>1. /\ UNCHANGED opts
        /\ \A v \in Workers \ {w} : work'[v] = work[v]
        /\ work'[w].bead = work[w].bead
        /\ work[w].pc \in Busy /\ work'[w].pc \in Busy
        /\ work'[w].pc = "link" /\ work[w].bead \in Beads => FixOf[work[w].bead] \in Beads
      BY <1>1, <1>4, WorkFrame DEF PoolInv, TypeOK, Busy
  <2>2. work[w].bead \in Beads
      BY <2>1 DEF PoolInv, TypeOK, BeadsInHand, Holds
  <2> QED
      BY <1>2, <2>1, <2>2
<1> QED
    BY <1>3, <1>4 DEF WorkOn

\* A worker that finishes puts its bead down.
LEMMA OthersKeep ==
    ASSUME PoolInv, NEW w \in Workers,
           Drained(w) \/ Succeed(w) \/ AddError(w) \/ Cancel(w)
    PROVE  /\ UNCHANGED <<stage, phase, verdict, round, sent, got, opts>>
           /\ \A v \in Workers \ {w} : work'[v] = work[v]
           /\ work'[w].pc \in {"wait", "cancel", "gone"}
<1>1. work \in [Workers -> WorkerRecords(PoolPcs)]
    BY DEF PoolInv, TypeOK
<1> QED
    BY <1>1 DEF Drained, Succeed, AddError, Cancel, Goto, At, poolRest, control

LEMMA StartPoolHand ==
    ASSUME NEW n, StartPool(n)
    PROVE  \A w \in Workers : work'[w].pc \in {"wait", "gone"}
BY DEF StartPool, At

LEMMA CoordinatorHand ==
    ASSUME PoolInv, Coordinator
    PROVE  BeadsInHand'
<1> USE DEF PoolInv, BeadsInHand
<1>1. CASE ListFails \/ NothingReady
    BY <1>1 DEF ListFails, NothingReady, Return, workVars, channel, Holds
<1>2. CASE ListReady
  <2>1. \A i, j \in DOMAIN round' : round'[i] = round'[j] => i = j
      BY <1>2, Rounds
  <2>2. \A w \in Workers : work'[w].pc \in {"wait", "gone"}
      BY <1>2, StartPoolHand DEF ListReady
  <2> QED
      BY <2>1, <2>2 DEF Holds, Busy
<1>3. CASE Feed
    BY <1>3 DEF Feed, workVars, Holds
<1>4. CASE Join
  <2>1. CASE Return("error") \/ Return("ok")
      BY <2>1 DEF Return, workVars, channel, Holds
  <2>2. CASE StartPool(Len(round)) /\ UNCHANGED round
    <3>1. \A w \in Workers : work'[w].pc \in {"wait", "gone"}
        BY <2>2, StartPoolHand
    <3> QED
        BY <2>2, <3>1 DEF Holds, Busy
  <2> QED
      BY <1>4, <2>1, <2>2 DEF Join
<1> QED
    BY <1>1, <1>2, <1>3, <1>4 DEF Coordinator

LEMMA WorkerHand ==
    ASSUME PoolInv, NEW w \in Workers, Worker(w)
    PROVE  BeadsInHand'
<1> USE DEF BeadsInHand
<1>1. BeadsInHand /\ work \in [Workers -> WorkerRecords(PoolPcs)] /\ got \in Nat
    BY DEF PoolInv, TypeOK
<1>2. CASE Receive(w)
  <2>1. /\ round' = round /\ got' = got + 1 /\ got + 1 \in 1 .. Len(round)
        /\ work' = [work EXCEPT ![w] = Holding("check", round[got + 1])]
      BY <1>2 DEF Receive, poolRest, PoolInv, TypeOK
  <2>2. /\ work'[w].pc = "check" /\ work'[w].bead = round[got + 1]
        /\ \A v \in Workers \ {w} : work'[v] = work[v]
      BY <1>1, <2>1 DEF Holding, At
  <2>3. DOMAIN round = 1 .. Len(round)
      BY DEF PoolInv, TypeOK
  <2>4. \A i \in 1 .. got : round[i] # round[got + 1]
      BY <1>1, <2>1, <2>3
  <2>5. \A v \in Workers \ {w} : Holds(v) => work[v].bead # round[got + 1]
      BY <1>1, <2>4
  <2>6. \A v \in Workers : Holds(v)' => \E i \in 1 .. got' : work'[v].bead = round'[i]
    <3>1. CASE Holds(w)
        BY <1>2, <3>1 DEF Receive, Holds, Busy
    <3>2. TAKE v \in Workers
    <3>3. CASE v = w
        BY <1>1, <2>1, <2>2, <3>3
    <3>4. CASE v # w
        BY <1>1, <2>1, <2>2, <3>4 DEF Holds
    <3> QED
        BY <3>3, <3>4
  <2> QED
      BY <1>1, <2>1, <2>2, <2>5, <2>6 DEF Holds
<1>3. CASE Drained(w) \/ Succeed(w) \/ AddError(w) \/ Cancel(w)
    BY <1>1, <1>3, OthersKeep DEF Holds, Busy
<1>4. CASE CheckContext(w)
  <2>1. /\ UNCHANGED <<round, got>>
        /\ \A v \in Workers \ {w} : work'[v] = work[v]
        /\ \/ work'[w].pc = "gone"
           \/ work'[w].pc = "run" /\ work'[w].bead = work[w].bead
      BY <1>1, <1>4 DEF CheckContext, poolRest, At, WorkerRecords
  <2>2. Holds(w)
      BY <1>4 DEF CheckContext, Holds
  <2> QED
      BY <1>1, <2>1, <2>2 DEF Holds, Busy
<1>5. CASE WorkOn(w)
    BY <1>1, <1>5, WorkOnKeeps DEF Holds
<1> QED
    BY <1>2, <1>3, <1>4, <1>5 DEF Worker

\* A pool has at least one worker.
LEMMA FirstWorker ==
    ASSUME WorkTypeOK, NEW n \in Nat \ {0}, Beads # {}, StartPool(n)
    PROVE  1 \in Workers /\ work'[1].pc = "wait"
<1>1. 1 \in Workers
  <2>1. Cardinality(Beads) \in Nat \ {0}
      BY WorkConfig, FS_CardinalityType, FS_EmptySet
  <2> QED
      BY <2>1, PoolWorkers
<1>2. 1 <= PoolSize(n)
    BY OptionTypes DEF PoolSize
<1> QED
    BY <1>1, <1>2 DEF StartPool, At

LEMMA CoordinatorStages ==
    ASSUME PoolInv, Coordinator
    PROVE  StagesFollow' /\ NobodyLeavesEarly'
<1> USE DEF StagesFollow, NobodyLeavesEarly
<1>1. StagesFollow /\ NobodyLeavesEarly /\ WorkTypeOK
    BY DEF PoolInv, TypeOK
<1>2. ASSUME NEW v \in {"error", "nothing", "ok"}, Return(v), stage \in {"list", "join"},
             \A w \in Workers : work[w].pc = "gone"
      PROVE  StagesFollow' /\ NobodyLeavesEarly'
    BY <1>1, <1>2 DEF Return, workVars, channel
<1>3. CASE ListFails
    BY <1>1, <1>2, <1>3 DEF ListFails
<1>4. CASE NothingReady
    BY <1>1, <1>2, <1>4 DEF NothingReady
<1>5. ASSUME NEW n \in Nat \ {0}, StartPool(n), verdict' = "open", errs' = {},
             round' # <<>>, Beads # {}
      PROVE  StagesFollow' /\ NobodyLeavesEarly'
  <2>1. 1 \in Workers /\ work'[1].pc = "wait"
      BY <1>1, <1>5, FirstWorker
  <2>2. \A w \in Workers : work'[w].pc \in {"wait", "gone"}
      BY <1>5, StartPoolHand
  <2>3. stage' = "feed" /\ ~canceled'
      BY <1>5 DEF StartPool
  <2> QED
      BY <1>5, <2>1, <2>2, <2>3
<1>6. CASE ListReady
  <2>1. round' \in Seq(Beads) /\ round' # <<>> /\ StartPool(Len(round'))
      BY <1>6, Rounds DEF ListReady, PoolInv
  <2>2. Len(round') \in Nat \ {0} /\ Beads # {}
      BY <2>1
  <2>3. verdict' = "open" /\ errs' = {}
      BY <1>1, <1>6 DEF ListReady
  <2> QED
      BY <1>5, <2>1, <2>2, <2>3
<1>7. CASE Feed
  <2>1. UNCHANGED <<work, round, got, verdict, canceled, errs>>
      BY <1>7 DEF Feed, workVars
  <2>2. stage = "feed" /\ stage' \in {"feed", "join"}
      BY <1>7 DEF Feed
  <2>3. stage' = "join" => (canceled \/ sent = Len(round)) /\ sent' = sent
      BY <1>7 DEF Feed
  <2> QED
      BY <1>1, <2>1, <2>2, <2>3
<1>8. CASE Join
  <2>1. CASE Return("error") \/ Return("ok")
      BY <1>1, <1>2, <1>8, <2>1 DEF Join
  <2>2. CASE errs = {} /\ StartPool(Len(round)) /\ UNCHANGED <<round, verdict, errs>>
    <3>1. round \in Seq(Beads) /\ round # <<>> /\ verdict = "open"
        BY <1>1, <1>8 DEF Join, PoolInv, TypeOK
    <3>2. Len(round) \in Nat \ {0} /\ Beads # {}
        BY <3>1
    <3> QED
        BY <1>5, <2>2, <3>1, <3>2
  <2> QED
      BY <1>8, <2>1, <2>2 DEF Join
<1> QED
    BY <1>3, <1>4, <1>6, <1>7, <1>8 DEF Coordinator

LEMMA WorkerStages ==
    ASSUME PoolInv, NEW w \in Workers, Worker(w)
    PROVE  StagesFollow' /\ NobodyLeavesEarly'
<1>1. /\ StagesFollow /\ NobodyLeavesEarly /\ work \in [Workers -> WorkerRecords(PoolPcs)]
      /\ got \in Nat /\ sent \in Nat
    BY DEF PoolInv, TypeOK
<1>2. /\ UNCHANGED <<stage, phase, verdict, round, sent>>
      /\ work[w].pc # "gone"
      /\ \A v \in Workers \ {w} : work'[v] = work[v]
  <2>1. CASE Receive(w) \/ CheckContext(w)
      BY <1>1, <2>1 DEF Receive, CheckContext, poolRest, control
  <2>2. CASE WorkOn(w)
      BY <2>2, WorkOnKeeps DEF Busy
  <2>3. CASE Drained(w) \/ Succeed(w) \/ AddError(w) \/ Cancel(w)
      BY <2>3, OthersKeep DEF Drained, Succeed, AddError, Cancel
  <2> QED
      BY <2>1, <2>2, <2>3 DEF Worker
<1>3. errs \subseteq errs'
  <2>1. CASE WorkOn(w)
      BY <2>1, WorkOnKeeps
  <2> QED
      BY <2>1 DEF Worker, Receive, Drained, CheckContext, Succeed, AddError, Cancel
<1>4. canceled' => canceled \/ work[w].pc = "cancel"
  <2>1. CASE WorkOn(w)
      BY <2>1, WorkOnKeeps
  <2> QED
      BY <2>1 DEF Worker, Receive, Drained, CheckContext, Succeed, AddError, Cancel
<1>5. work'[w].pc = "cancel" => errs' # {}
  <2>1. CASE WorkOn(w)
      BY <2>1, WorkOnKeeps DEF Busy
  <2>2. CASE AddError(w)
      BY <2>2 DEF AddError
  <2>3. CASE Receive(w) \/ Drained(w) \/ Succeed(w) \/ Cancel(w)
      BY <1>1, <2>3 DEF Receive, Drained, Succeed, Cancel, Goto, At, Holding
  <2>4. CASE CheckContext(w)
      BY <1>1, <2>4 DEF CheckContext, At, WorkerRecords
  <2> QED
      BY <2>1, <2>2, <2>3, <2>4 DEF Worker
<1>6. work'[w].pc = "gone" /\ errs' = {} => stage = "join" /\ got = sent /\ got' = got
  <2>1. CASE WorkOn(w)
      BY <2>1, WorkOnKeeps DEF Busy
  <2>2. CASE Receive(w) \/ Succeed(w)
      BY <1>1, <2>2 DEF Receive, Succeed, Goto, At, Holding
  <2>3. CASE Drained(w)
      BY <2>3 DEF Drained
  <2>4. CASE CheckContext(w)
      BY <1>1, <2>4 DEF CheckContext, NobodyLeavesEarly
  <2>5. CASE AddError(w)
      BY <2>5 DEF AddError
  <2>6. CASE Cancel(w)
      BY <1>1, <2>6 DEF Cancel, NobodyLeavesEarly
  <2> QED
      BY <2>1, <2>2, <2>3, <2>4, <2>5, <2>6 DEF Worker
<1>7. got' = got \/ got < sent
  <2>1. CASE WorkOn(w)
      BY <2>1, WorkOnKeeps
  <2> QED
      BY <2>1 DEF Worker, Receive, Drained, CheckContext, Succeed, AddError, Cancel
<1>8. stage \in {"feed", "join"}
    BY <1>1, <1>2 DEF StagesFollow, PoolInv, TypeOK
<1>9. StagesFollow'
    BY <1>1, <1>2, <1>8 DEF StagesFollow
<1>10. NobodyLeavesEarly'
  <2>1. (canceled => errs # {})'
      BY <1>1, <1>3, <1>4 DEF NobodyLeavesEarly
  <2>2. (\A v \in Workers : work[v].pc = "cancel" => errs # {})'
      BY <1>1, <1>2, <1>3, <1>5 DEF NobodyLeavesEarly
  <2>3. ASSUME errs' = {}
        PROVE  /\ stage' = "join" => sent' = Len(round')
               /\ work'[1].pc = "gone" => stage' = "join" /\ got' = sent'
    <3>1. errs = {}
        BY <1>3, <2>3
    <3>2. 1 \in Workers
      <4>1. Beads # {}
          BY <1>1, <1>8 DEF StagesFollow, PoolInv, TypeOK
      <4>2. Cardinality(Beads) \in Nat \ {0}
          BY <4>1, WorkConfig, FS_CardinalityType, FS_EmptySet
      <4> QED
          BY <4>2, PoolWorkers
    <3> QED
        BY <1>1, <1>2, <1>6, <1>7, <1>8, <2>3, <3>1, <3>2 DEF NobodyLeavesEarly
  <2> QED
      BY <2>1, <2>2, <2>3 DEF NobodyLeavesEarly
<1> QED
    BY <1>9, <1>10

LEMMA PoolStep ==
    ASSUME PoolInv, [Next]_vars
    PROVE  PoolInv'
<1>1. CASE Coordinator
    BY <1>1, CoordinatorTypes, CoordinatorHand, CoordinatorStages DEF PoolInv
<1>2. CASE \E w \in Workers : Worker(w)
    BY <1>2, WorkerTypes, WorkerHand, WorkerStages DEF PoolInv
<1>3. CASE UNCHANGED vars
    BY <1>3 DEF vars, workVars, bd, channel, control, PoolInv, TypeOK, WorkTypeOK, BeadsInHand,
                Holds, StagesFollow, NobodyLeavesEarly
<1> QED
    BY <1>1, <1>2, <1>3 DEF Next, Over

\* In every reachable state, beads in hand were received and have one worker, a canceled
\* pool has an error, and nobody leaves before (runParallelBeads).
THEOREM PoolInvariant == Spec => []PoolInv
<1>1. Init => PoolInv
    BY InitTypes, InitHand DEF PoolInv
<1>2. PoolInv /\ [Next]_vars => PoolInv'
    BY PoolStep
<1> QED
    BY <1>1, <1>2, PTL DEF Spec

\* The state of the coordinator, its workers and bd keeps its type.
THEOREM TypesKept == Spec => []TypeOK
<1>1. PoolInv => TypeOK
    BY DEF PoolInv
<1> QED
    BY <1>1, PoolInvariant, PTL
-----------------------------------------------------------------------------
(* The coordinator implements Batch *)

\* The beads at some places change with the one worker that moves.
LEMMA OneMoves ==
    ASSUME PoolInv, NEW w \in Workers, \A v \in Workers \ {w} : work'[v] = work[v],
           NEW pcs \in SUBSET ({"check"} \cup Busy)
    PROVE  HeldAt(pcs)' =
             (HeldAt(pcs) \ (IF work[w].pc \in pcs THEN {work[w].bead} ELSE {}))
             \cup (IF work'[w].pc \in pcs THEN {work'[w].bead} ELSE {})
<1> DEFINE left == IF work[w].pc \in pcs THEN {work[w].bead} ELSE {}
           come == IF work'[w].pc \in pcs THEN {work'[w].bead} ELSE {}
           rest == {work[v].bead : v \in {u \in Workers \ {w} : work[u].pc \in pcs}}
<1>1. HeldAt(pcs) = rest \cup left
    BY DEF HeldAt
<1>2. HeldAt(pcs)' = rest \cup come
    BY DEF HeldAt
<1>3. rest \cap left = {}
  <2>1. ASSUME NEW v \in Workers \ {w}, work[v].pc \in pcs, work[w].pc \in pcs
        PROVE  work[v].bead # work[w].bead
      BY <2>1 DEF PoolInv, BeadsInHand, Holds
  <2> QED
      BY <2>1
<1> HIDE DEF left, come, rest
<1>4. HeldAt(pcs)' = (HeldAt(pcs) \ left) \cup come
    BY <1>1, <1>2, <1>3
<1> QED
    BY <1>4 DEF left, come

LEMMA NobodyHolds ==
    ASSUME \A w \in Workers : work[w].pc \in {"wait", "gone"}
    PROVE  HeldAt({"check"}) = {} /\ HeldAt(Busy) = {}
BY DEF HeldAt, Busy

LEMMA NobodyHoldsNext ==
    ASSUME \A w \in Workers : work'[w].pc \in {"wait", "gone"}
    PROVE  HeldAt({"check"})' = {} /\ HeldAt(Busy)' = {}
BY DEF HeldAt, Busy

LEMMA BatchInit == Init => B!Init
<1> SUFFICES ASSUME Init PROVE B!Init
    OBVIOUS
<1>1. HeldAt({"check"}) = {} /\ HeldAt(Busy) = {}
  <2>1. \A w \in Workers : work[w].pc = "gone"
      BY DEF Init, At
  <2> QED
      BY <2>1, NobodyHolds
<1>2. {round[i] : i \in got + 1 .. Len(round)} = {}
    BY DEF Init
<1> QED
    BY <1>1, <1>2 DEF Init, B!Init

Waiting == {round[i] : i \in got + 1 .. Len(round)}

batch == <<Waiting, HeldAt({"check"}), HeldAt(Busy), errs, verdict>>

\* Everybody has left and nobody failed: the channel is empty.
LEMMA NothingLeft ==
    ASSUME PoolInv, stage = "join", errs = {}, \A w \in Workers : work[w].pc = "gone"
    PROVE  got = Len(round) /\ Waiting = {}
<1>1. Beads # {}
    BY DEF PoolInv, StagesFollow, TypeOK
<1>2. Cardinality(Beads) \in Nat \ {0}
    BY <1>1, WorkConfig, FS_CardinalityType, FS_EmptySet
<1>3. 1 \in Workers
    BY <1>2, PoolWorkers
<1>4. got = Len(round)
    BY <1>3 DEF PoolInv, NobodyLeavesEarly
<1>5. Len(round) \in Nat
    BY DEF PoolInv, TypeOK
<1> QED
    BY <1>4, <1>5 DEF Waiting

LEMMA CoordinatorBatch ==
    ASSUME PoolInv, PoolInv', Coordinator
    PROVE  B!Next \/ UNCHANGED batch
<1>1. ASSUME UNCHANGED <<work, channel, errs>>
      PROVE  UNCHANGED <<Waiting, HeldAt({"check"}), HeldAt(Busy), errs>>
    BY <1>1 DEF channel, Waiting, HeldAt
<1>2. CASE ListFails \/ NothingReady
  <2>1. verdict = "none" /\ verdict' \in {"nothing", "error"} /\ UNCHANGED <<work, channel, errs>>
      BY <1>2 DEF ListFails, NothingReady, Return, workVars, PoolInv, StagesFollow
  <2>2. B!Decline
      BY <1>1, <2>1 DEF B!Decline, Waiting
  <2> QED
      BY <2>2 DEF B!Next
<1>3. ASSUME NEW n, StartPool(n), Waiting = {}, errs = {}, UNCHANGED errs,
             \A w \in Workers : work[w].pc = "gone", verdict \in {"none", "open"},
             verdict' = "open"
      PROVE  B!Next
  <2>1. HeldAt({"check"}) = {} /\ HeldAt(Busy) = {}
      BY <1>3, NobodyHolds
  <2>2. HeldAt({"check"})' = {} /\ HeldAt(Busy)' = {}
      BY <1>3, StartPoolHand, NobodyHoldsNext
  <2>3. got' = 0 /\ round' \in Seq(Beads) /\ round' # <<>>
      BY <1>3 DEF StartPool, PoolInv, TypeOK, StagesFollow
  <2>4. Waiting' \in (SUBSET Beads) \ {{}}
    <3>1. Waiting' = {round'[i] : i \in 1 .. Len(round')} /\ Len(round') >= 1
        BY <2>3 DEF Waiting
    <3>2. round'[1] \in Waiting' /\ \A i \in 1 .. Len(round') : round'[i] \in Beads
        BY <2>3, <3>1
    <3> QED
        BY <3>1, <3>2
  <2>5. B!Offer
      BY <1>3, <2>1, <2>2, <2>4 DEF B!Offer, Waiting
  <2> QED
      BY <2>5 DEF B!Next
<1>4. CASE ListReady
  <2>1. /\ stage = "list" /\ verdict = "none" /\ verdict' = "open"
        /\ errs = {} /\ UNCHANGED errs /\ round = <<>>
        /\ \A w \in Workers : work[w].pc = "gone"
      BY <1>4 DEF ListReady, PoolInv, StagesFollow
  <2>2. Waiting = {}
      BY <2>1 DEF Waiting, PoolInv, TypeOK
  <2> QED
      BY <1>3, <1>4, <2>1, <2>2 DEF ListReady
<1>5. CASE Feed
    BY <1>1, <1>5 DEF Feed, channel, workVars, batch, Waiting, HeldAt
<1>6. CASE Join
  <2>1. verdict = "open" /\ stage = "join" /\ \A w \in Workers : work[w].pc = "gone"
      BY <1>6 DEF Join, PoolInv, StagesFollow
  <2>2. HeldAt({"check"}) = {} /\ HeldAt(Busy) = {}
      BY <2>1, NobodyHolds
  <2>3. CASE errs # {} /\ Return("error")
    <3>1. B!Conclude
        BY <1>1, <2>1, <2>2, <2>3 DEF Return, workVars, B!Conclude, Waiting
    <3> QED
        BY <3>1 DEF B!Next
  <2>4. CASE errs = {} /\ Return("ok")
    <3>1. B!Conclude
        BY <1>1, <2>1, <2>2, <2>4, NothingLeft DEF Return, workVars, B!Conclude, Waiting
    <3> QED
        BY <3>1 DEF B!Next
  <2>5. CASE errs = {} /\ StartPool(Len(round)) /\ UNCHANGED <<verdict, errs>>
      BY <1>3, <2>1, <2>5, NothingLeft
  <2> QED
      BY <1>6, <2>3, <2>4, <2>5 DEF Join
<1> QED
    BY <1>2, <1>4, <1>5, <1>6 DEF Coordinator

LEMMA WorkerBatch ==
    ASSUME PoolInv, PoolInv', NEW w \in Workers, Worker(w)
    PROVE  B!Next \/ UNCHANGED batch
<1> DEFINE b == work[w].bead
<1>1. work \in [Workers -> WorkerRecords(PoolPcs)] /\ work[w] \in WorkerRecords(PoolPcs)
    BY DEF PoolInv, TypeOK
<1>2. {"check"} \in SUBSET ({"check"} \cup Busy) /\ Busy \in SUBSET ({"check"} \cup Busy)
    OBVIOUS
<1>3. ASSUME \A v \in Workers \ {w} : work'[v] = work[v]
      PROVE  /\ HeldAt({"check"})' =
                  (HeldAt({"check"}) \ (IF work[w].pc = "check" THEN {b} ELSE {}))
                  \cup (IF work'[w].pc = "check" THEN {work'[w].bead} ELSE {})
             /\ HeldAt(Busy)' =
                  (HeldAt(Busy) \ (IF work[w].pc \in Busy THEN {b} ELSE {}))
                  \cup (IF work'[w].pc \in Busy THEN {work'[w].bead} ELSE {})
    BY <1>2, <1>3, OneMoves
<1>4. /\ work[w].pc = "check" => b \in HeldAt({"check"}) /\ b \in Beads
      /\ work[w].pc \in Busy => b \in HeldAt(Busy) /\ b \in Beads
    BY DEF HeldAt, PoolInv, BeadsInHand, Holds, TypeOK
<1>5. "check" \notin Busy /\ "wait" \notin Busy /\ "gone" \notin Busy /\ "cancel" \notin Busy
      /\ {"run", "ok", "failed", "stopped"} \subseteq Busy
    BY DEF Busy
<1>6. CASE Receive(w)
  <2>1. /\ got \in Nat /\ got + 1 \in 1 .. Len(round) /\ got' = got + 1 /\ round' = round
        /\ DOMAIN round = 1 .. Len(round) /\ round[got + 1] \in Beads
      BY <1>6 DEF Receive, poolRest, PoolInv, TypeOK
  <2>2. /\ work[w].pc = "wait" /\ work'[w].pc = "check" /\ work'[w].bead = round[got + 1]
        /\ \A v \in Workers \ {w} : work'[v] = work[v]
        /\ UNCHANGED <<errs, verdict>>
      BY <1>1, <1>6 DEF Receive, Holding, At, poolRest, control
  <2>3. HeldAt({"check"})' = HeldAt({"check"}) \cup {round[got + 1]}
        /\ HeldAt(Busy)' = HeldAt(Busy)
      BY <1>3, <1>5, <2>2
  <2>4. Waiting' = Waiting \ {round[got + 1]} /\ round[got + 1] \in Waiting
    <3>1. \A i \in got + 2 .. Len(round) : round[i] # round[got + 1]
        BY <2>1 DEF PoolInv, BeadsInHand
    <3>2. got + 1 .. Len(round) = {got + 1} \cup (got + 2 .. Len(round))
        BY <2>1
    <3>3. Waiting' = {round[i] : i \in got + 2 .. Len(round)}
        BY <2>1 DEF Waiting
    <3> QED
        BY <3>1, <3>2, <3>3 DEF Waiting
  <2>5. PICK c \in Beads : c = round[got + 1]
      BY <2>1
  <2>6. B!Take(c)
      BY <2>2, <2>3, <2>4, <2>5 DEF B!Take, Waiting
  <2> QED
      BY <2>6 DEF B!Next
<1>7. ASSUME UNCHANGED <<round, got>> PROVE UNCHANGED Waiting
    BY <1>7 DEF Waiting
<1>8. CASE Drained(w) \/ Cancel(w)
  <2>1. /\ work[w].pc \in {"wait", "cancel"} /\ work'[w].pc \in {"wait", "cancel", "gone"}
        /\ UNCHANGED <<round, got, errs, verdict>>
        /\ \A v \in Workers \ {w} : work'[v] = work[v]
      BY <1>8, OthersKeep DEF Drained, Cancel
  <2> QED
      BY <1>3, <1>5, <1>7, <2>1 DEF batch
<1>9. CASE CheckContext(w)
  <2>1. /\ work[w].pc = "check" /\ UNCHANGED <<round, got, errs, verdict>>
        /\ \A v \in Workers \ {w} : work'[v] = work[v]
      BY <1>1, <1>9 DEF CheckContext, poolRest, control
  <2>2. CASE canceled
    <3>1. work'[w].pc = "gone" /\ errs # {}
        BY <1>1, <1>9, <2>2 DEF CheckContext, At, PoolInv, NobodyLeavesEarly
    <3>2. HeldAt({"check"})' = HeldAt({"check"}) \ {b} /\ HeldAt(Busy)' = HeldAt(Busy)
        BY <1>3, <1>5, <2>1, <3>1
    <3>3. B!Drop(b)
        BY <1>4, <1>7, <2>1, <3>1, <3>2 DEF B!Drop, Waiting
    <3> QED
        BY <1>4, <2>1, <3>3 DEF B!Next
  <2>3. CASE ~canceled
    <3>1. work'[w].pc = "run" /\ work'[w].bead = b
        BY <1>1, <1>9, <2>3 DEF CheckContext, WorkerRecords
    <3>2. HeldAt({"check"})' = HeldAt({"check"}) \ {b} /\ HeldAt(Busy)' = HeldAt(Busy) \cup {b}
        BY <1>3, <1>5, <2>1, <3>1
    <3>3. B!Start(b)
        BY <1>4, <1>7, <2>1, <3>1, <3>2 DEF B!Start, Waiting
    <3> QED
        BY <1>4, <2>1, <3>3 DEF B!Next
  <2> QED
      BY <2>2, <2>3
<1>10. CASE WorkOn(w)
  <2>1. /\ work[w].pc \in Busy /\ work'[w].pc \in Busy /\ work'[w].bead = b
        /\ UNCHANGED <<round, got, errs, verdict>>
        /\ \A v \in Workers \ {w} : work'[v] = work[v]
      BY <1>10, WorkOnKeeps
  <2>2. HeldAt({"check"})' = HeldAt({"check"}) /\ HeldAt(Busy)' = HeldAt(Busy)
      BY <1>3, <1>4, <1>5, <2>1
  <2> QED
      BY <1>7, <2>1, <2>2 DEF batch
<1>11. CASE Succeed(w) \/ AddError(w)
  <2>1. /\ work[w].pc \in Busy /\ work'[w].pc \in {"wait", "cancel", "gone"}
        /\ UNCHANGED <<round, got, verdict>>
        /\ \A v \in Workers \ {w} : work'[v] = work[v]
        /\ errs' \in {errs, errs \cup {b}}
      BY <1>5, <1>11, OthersKeep DEF Succeed, AddError
  <2>2. HeldAt({"check"})' = HeldAt({"check"}) /\ HeldAt(Busy)' = HeldAt(Busy) \ {b}
      BY <1>3, <1>5, <2>1
  <2>3. B!End(b)
      BY <1>4, <1>7, <2>1, <2>2 DEF B!End, Waiting
  <2> QED
      BY <1>4, <2>1, <2>3 DEF B!Next
<1> QED
    BY <1>6, <1>8, <1>9, <1>10, <1>11 DEF Worker

LEMMA BatchStep ==
    ASSUME PoolInv, PoolInv', [Next]_vars
    PROVE  B!Next \/ UNCHANGED batch
<1>1. CASE UNCHANGED vars
    BY <1>1 DEF vars, workVars, channel, control, batch, Waiting, HeldAt
<1> QED
    BY <1>1, CoordinatorBatch, WorkerBatch DEF Next, Over

\* No bead of a round is worked on twice in a phase, and none is left out unless another
\* one failed and the verdict says so (runCoordinator implements Batch).
THEOREM CoordinatorImplementsBatch == Spec => BatchKept
<1>1. Init => B!Init
    BY BatchInit
<1>2. PoolInv /\ PoolInv' /\ [Next]_vars
        => [B!Next]_<<{round[i] : i \in got + 1 .. Len(round)}, HeldAt({"check"}), HeldAt(Busy),
                      errs, verdict>>
    BY BatchStep DEF batch, Waiting
<1> QED
    BY <1>1, <1>2, PoolInvariant, PTL DEF Spec, BatchKept, B!Spec
-----------------------------------------------------------------------------
(* No bead slips through *)

\* A bead that exists goes on to exist, one that is decided stays so, and a list of calls
\* without "open" remains one.
LEMMA WorkSlips ==
    ASSUME PoolInv, NothingSlips, NoReopening, opts.autoUpdate, ~opts.faults,
           NEW w \in Workers, WorkOn(w), NEW b \in Beads, work[w].bead = b
    PROVE  /\ \A d \in Beads : /\ status[d] # "absent" => status'[d] # "absent"
                               /\ Decided(d) => status'[d] \notin {"absent", "open"}
           /\ work'[w].bead = b
           /\ work'[w].pc \notin {"check", "run"}
           /\ work'[w].todo \in Seq(CallsTo(Statuses \ {"absent", "open"}))
           /\ phase = opts.phases =>
                 /\ HasDecided(w)' => Decided(b)'
                 /\ work'[w].pc = "apply" /\ work'[w].gate
                        => HasMark(w)' \/ Decided(b)'
<1> DEFINE Kept == CallsTo(Statuses \ {"absent", "open"})
<1>1. /\ WorkTypeOK /\ work \in [Workers -> WorkerRecords(PoolPcs)]
      /\ work[w] \in WorkerRecords(PoolPcs) /\ status \in [Beads -> Statuses]
    BY DEF PoolInv, TypeOK, WorkTypeOK
<1>2. /\ work[w].pc \in {"run"} => ~work[w].moved /\ ~work[w].gate
      /\ work[w].todo \in Seq(Kept)
      /\ phase = opts.phases /\ HasDecided(w) => Decided(b)
      /\ phase = opts.phases /\ work[w].pc = "apply" /\ work[w].gate => HasMark(w) \/ Decided(b)
    BY DEF NothingSlips
<1>0. work'[w].bead = b
    BY WorkOnKeeps
<1>3. status[b] # "absent"
  <2>1. Holds(w)
      BY WorkOnKeeps DEF Holds
  <2>2. PICK i \in 1 .. got : b = round[i]
      BY <2>1 DEF PoolInv, BeadsInHand
  <2>3. i \in DOMAIN round
      BY DEF PoolInv, TypeOK
  <2> QED
      BY <2>2, <2>3 DEF NothingSlips, PoolInv, TypeOK
<1>4. ASSUME UNCHANGED status
      PROVE  \A d \in Beads : /\ status[d] # "absent" => status'[d] # "absent"
                              /\ Decided(d) => status'[d] \notin {"absent", "open"}
    BY <1>4 DEF Decided
<1>5. ASSUME NEW d \in Beads, NEW to \in Statuses \ {"absent", "open"},
             status' = [status EXCEPT ![d] = to]
      PROVE  /\ \A e \in Beads : /\ status[e] # "absent" => status'[e] # "absent"
                                 /\ Decided(e) => status'[e] \notin {"absent", "open"}
             /\ Decided(d)'
    BY <1>1, <1>5 DEF Decided
<1>6. CASE RunFails(w)
  <2>1. status' = [status EXCEPT ![b] = "blocked"]
      BY <1>6 DEF RunFails, MarkIfUpdating, Mark
  <2>2. work'[w].pc = "failed" /\ work'[w].todo = work[w].todo
      BY <1>1, <1>6 DEF RunFails, WorkerRecords
  <2> QED
      BY <1>0, <1>2, <1>3, <1>5, <2>1, <2>2 DEF HasDecided, Statuses
<1>7. CASE RunEnds(w)
  <2>1. PICK a \in Answers[b] \cup {NoAnswer} :
           work' = [work EXCEPT ![w].pc = "apply", ![w].answer = a,
                      ![w].todo = IF a = NoAnswer THEN <<>> ELSE Calls(b, a),
                      ![w].gate = a # NoAnswer /\ GateFails(a)]
      BY <1>7 DEF RunEnds
  <2> DEFINE todo == IF a = NoAnswer THEN <<>> ELSE Calls(b, a)
             gate == a # NoAnswer /\ GateFails(a)
  <2>2. work' = [work EXCEPT ![w].pc = "apply", ![w].answer = a, ![w].todo = todo,
                             ![w].gate = gate]
      BY <2>1
  <2>3. todo \in Seq(Kept)
    <3>1. CASE a = NoAnswer
        BY <3>1
    <3>2. CASE a # NoAnswer
      <4>1. a \in Actions /\ \A i \in DOMAIN a.updates : a.updates[i][2] # "open"
          BY <1>3, <3>2, WorkConfig DEF NoReopening
      <4>2. \A i \in DOMAIN a.updates : a.updates[i][2] \in Statuses \ {"absent", "open"}
          BY <4>1 DEF Actions
      <4>3. {"blocked", "review"} \subseteq Statuses \ {"absent", "open"}
          BY DEF Statuses
      <4> QED
          BY <1>3, <3>2, <4>1, <4>2, <4>3, CallsToTypes
    <3> QED
        BY <3>1, <3>2
  <2>4. gate => \E j \in DOMAIN todo : todo[j].kind = "mark" /\ todo[j].bead = b
    <3>1. ASSUME gate
          PROVE  a \in Actions /\ GateFails(a) /\ todo = Calls(b, a)
        BY <1>3, <3>1, WorkConfig
    <3>2. ASSUME gate
          PROVE  \E j \in DOMAIN Calls(b, a) : Calls(b, a)[j] =
                    [kind |-> "mark", bead |-> b, to |-> IF a.review THEN "review" ELSE "blocked"]
      <4> HIDE DEF todo, gate
      <4> QED
          BY <1>3, <3>1, <3>2, CallsMark
    <3>3. ASSUME gate
          PROVE  \E j \in DOMAIN todo : todo[j].kind = "mark" /\ todo[j].bead = b
      <4> HIDE DEF gate, todo
      <4> QED
          BY <3>1, <3>2, <3>3
    <3> QED
        BY <3>3
  <2> HIDE DEF todo, gate
  <2>5. /\ work'[w].pc = "apply" /\ work'[w].todo = todo /\ work'[w].gate = gate
        /\ work'[w].moved = work[w].moved /\ work'[w].bead = b
      BY <1>1, <2>2 DEF WorkerRecords
  <2>6. UNCHANGED status /\ ~work[w].moved
      BY <1>2, <1>7 DEF RunEnds, bd
  <2>7. ~HasDecided(w)'
      BY <2>5, <2>6 DEF HasDecided
  <2>8. gate => HasMark(w)'
      BY <2>4, <2>5 DEF HasMark
  <2> QED
      BY <1>0, <1>4, <2>3, <2>5, <2>6, <2>7, <2>8
<1>8. CASE RunIsCut(w)
  <2>1. /\ work'[w].pc = "apply" /\ ~work'[w].moved /\ ~work'[w].gate
        /\ work'[w].todo = work[w].todo /\ UNCHANGED status
      BY <1>1, <1>2, <1>8 DEF RunIsCut, WorkerRecords, bd
  <2> QED
      BY <1>0, <1>2, <1>4, <2>1 DEF HasDecided
<1>9. CASE SkipActions(w)
  <2>1. /\ work'[w].pc = "ok" /\ phase < opts.phases
        /\ work'[w].todo = work[w].todo /\ UNCHANGED status
      BY <1>1, <1>9 DEF SkipActions, WorkerRecords, bd
  <2>2. phase # opts.phases
      BY <1>1, <2>1, OptionTypes DEF PoolInv, TypeOK
  <2> QED
      BY <1>0, <1>2, <1>4, <2>1, <2>2
<1>10. CASE Apply(w)
  <2> DEFINE call == Head(work[w].todo)
             rest == Tail(work[w].todo)
             moved == work[w].moved \/ (call.kind = "set" /\ call.bead = b)
  <2>1. /\ work[w].pc = "apply" /\ work[w].todo # <<>>
        /\ \/ /\ Effect(call)
              /\ work' = [work EXCEPT ![w].todo = rest, ![w].moved = moved]
           \/ /\ MayFail(call) /\ call.kind = "mark" /\ UNCHANGED status
              /\ work' = [work EXCEPT ![w].todo = rest]
           \/ /\ MayFail(call) /\ call.kind # "mark" /\ UNCHANGED status
              /\ work' = [work EXCEPT ![w].pc = "failed", ![w].todo = <<>>]
    <3>1. CASE Effect(call)
               /\ work' = [work EXCEPT ![w].todo = Tail(@), ![w].moved =
                            @ \/ (call.kind = "set" /\ call.bead = work[w].bead)]
        BY <1>10, <3>1 DEF Apply, NextCall
    <3>2. CASE MayFail(call) /\ UNCHANGED bd
               /\ work' = IF call.kind = "mark" THEN [work EXCEPT ![w].todo = Tail(@)]
                          ELSE [work EXCEPT ![w].pc = "failed", ![w].todo = <<>>]
        BY <1>10, <3>2 DEF Apply, NextCall, bd
    <3> QED
        BY <1>0, <1>10, <3>1, <3>2 DEF Apply, NextCall
  <2>2. call \in Kept /\ rest \in Seq(Kept) /\ <<>> \in Seq(Kept)
      BY <1>2, <2>1
  <2>3. HasMark(w) => \/ call.kind = "mark" /\ call.bead = b
                      \/ \E j \in DOMAIN rest : rest[j].kind = "mark" /\ rest[j].bead = b
    <3> DEFINE todo == work[w].todo
    <3>1. todo \in Seq(Kept) /\ todo # <<>>
        BY <1>2, <2>1
    <3> HIDE DEF todo
    <3>2. /\ Len(Tail(todo)) = Len(todo) - 1 /\ Tail(todo) \in Seq(Kept)
          /\ \A j \in 1 .. Len(todo) :
                \/ j = 1 /\ todo[j] = Head(todo)
                \/ j - 1 \in DOMAIN Tail(todo) /\ todo[j] = Tail(todo)[j - 1]
        BY <3>1
    <3>3. DOMAIN todo = 1 .. Len(todo)
        BY <3>1
    <3>4. \A j \in DOMAIN todo : todo[j] = Head(todo)
                                 \/ \E k \in DOMAIN Tail(todo) : todo[j] = Tail(todo)[k]
        BY <3>2, <3>3
    <3> QED
        BY <3>4 DEF HasMark, todo
  <2>4. call \in BdCalls /\ (call.kind \in {"set", "mark"} => call.to \in Statuses \ {"absent", "open"})
      BY <2>2 DEF CallsTo
  <2> HIDE DEF call, rest, moved
  <2>5. CASE Effect(call) /\ work' = [work EXCEPT ![w].todo = rest, ![w].moved = moved]
    <3>1. /\ work'[w].pc = "apply" /\ work'[w].todo = rest /\ work'[w].moved = moved
          /\ work'[w].gate = work[w].gate /\ work'[w].bead = b
        BY <1>1, <2>1, <2>5 DEF WorkerRecords
    <3>2. \A d \in Beads : \/ status'[d] = status[d]
                           \/ status'[d] = call.to /\ call.kind \in {"set", "mark"}
                           \/ status[d] = "absent" /\ status'[d] = "open"
        BY <1>1, <2>4, <2>5, EffectStatus
    <3>3. \A d \in Beads : /\ status[d] # "absent" => status'[d] # "absent"
                           /\ Decided(d) => status'[d] \notin {"absent", "open"}
        BY <2>4, <3>2 DEF Decided
    <3>4. call.kind \in {"set", "mark"} /\ call.bead = b => Decided(b)'
        BY <1>1, <1>3, <2>4, <2>5 DEF Effect, Decided
    <3>5. phase = opts.phases /\ HasDecided(w)' => Decided(b)'
      <4>1. HasDecided(w)' => moved
          BY <3>1 DEF HasDecided
      <4>2. moved => (work[w].moved \/ (call.kind = "set" /\ call.bead = b))
          BY DEF moved
      <4>3. work[w].moved => HasDecided(w)
          BY <2>1 DEF HasDecided
      <4> QED
          BY <1>2, <1>3, <3>3, <3>4, <4>1, <4>2, <4>3 DEF Decided
    <3>6. phase = opts.phases /\ work[w].gate => HasMark(w)' \/ Decided(b)'
        BY <1>2, <1>3, <2>1, <2>3, <3>1, <3>3, <3>4 DEF HasMark, Decided
    <3> QED
        BY <2>2, <3>1, <3>3, <3>5, <3>6
  <2>6. CASE /\ MayFail(call) /\ call.kind = "mark" /\ UNCHANGED status
             /\ work' = [work EXCEPT ![w].todo = rest]
    <3>1. /\ work'[w].pc = "apply" /\ work'[w].todo = rest /\ work'[w].moved = work[w].moved
          /\ work'[w].gate = work[w].gate /\ work'[w].bead = b
        BY <1>1, <2>1, <2>6 DEF WorkerRecords
    <3>2. call.bead # b
        BY <1>3, <2>6 DEF MayFail
    <3>3. HasDecided(w)' => HasDecided(w)
        BY <2>1, <3>1 DEF HasDecided
    <3>4. HasMark(w) => HasMark(w)'
        BY <2>3, <3>1, <3>2 DEF HasMark
    <3> QED
        BY <1>0, <1>2, <1>3, <1>4, <2>1, <2>2, <2>6, <3>1, <3>3, <3>4 DEF Decided
  <2>7. CASE /\ UNCHANGED status
             /\ work' = [work EXCEPT ![w].pc = "failed", ![w].todo = <<>>]
    <3>1. work'[w].pc = "failed" /\ work'[w].todo = <<>>
        BY <1>1, <2>7 DEF WorkerRecords
    <3> QED
        BY <1>0, <1>4, <2>2, <2>7, <3>1 DEF HasDecided
  <2> QED
      BY <2>1, <2>5, <2>6, <2>7
<1>11. CASE Judge(w, "settle")
  <2>1. CASE work[w].answer = NoAnswer /\ opts.requireActions
    <3>1. status' = [status EXCEPT ![b] = "blocked"]
        BY <1>11, <2>1 DEF Judge, MarkIfUpdating, Mark
    <3>2. work'[w].pc = "settle" /\ work'[w].todo = work[w].todo
        BY <1>1, <1>11, <2>1 DEF Judge, WorkerRecords
    <3>3. "blocked" \in Statuses \ {"absent", "open"}
        BY DEF Statuses
    <3> QED
        BY <1>0, <1>2, <1>3, <1>5, <3>1, <3>2, <3>3
  <2>2. CASE ~(work[w].answer = NoAnswer /\ opts.requireActions)
    <3>1. UNCHANGED status /\ work' = [work EXCEPT ![w].pc = "settle"]
        BY <1>11, <2>2 DEF Judge
    <3>2. /\ work'[w].pc = "settle" /\ work'[w].todo = work[w].todo
          /\ work'[w].gate = work[w].gate /\ work'[w].moved = work[w].moved
        BY <1>1, <3>1 DEF WorkerRecords
    <3>3. work[w].pc = "apply" /\ ~HasMark(w)
        BY <1>11 DEF Judge, HasMark
    <3>4. HasDecided(w)' => HasDecided(w) \/ work[w].gate
        BY <3>2, <3>3 DEF HasDecided
    <3> QED
        BY <1>0, <1>2, <1>3, <1>4, <3>1, <3>2, <3>3, <3>4 DEF Decided
  <2> QED
      BY <2>1, <2>2
<1>12. CASE CreateFix(w)
  <2>1. /\ work'[w].pc \in {"link", "count"} /\ work'[w].todo = work[w].todo
        /\ HasDecided(w)
      BY <1>1, <1>12 DEF CreateFix, WorkerRecords, HasDecided
  <2>2. \A d \in Beads : \/ status'[d] = status[d]
                         \/ status[d] = "absent" /\ status'[d] = "open"
      BY <1>1, <1>12 DEF CreateFix, WantsFix
  <2> QED
      BY <1>0, <1>2, <1>3, <2>1, <2>2 DEF Decided
<1>13. CASE LinkFix(w) \/ CountFailure(w)
  <2>1. /\ work'[w].pc \in {"count", "failed", "ok"} /\ work'[w].todo = work[w].todo
        /\ UNCHANGED status /\ HasDecided(w)
      BY <1>1, <1>13 DEF LinkFix, CountFailure, WorkerRecords, HasDecided, bd
  <2> QED
      BY <1>0, <1>2, <1>3, <1>4, <2>1 DEF Decided
<1>14. CASE PassGate(w)
  <2>1. /\ work'[w].pc \in {"stopped", "close"} /\ work'[w].todo = work[w].todo
        /\ work'[w].moved = work[w].moved /\ UNCHANGED status /\ work[w].pc = "settle"
      BY <1>1, <1>14 DEF PassGate, WorkerRecords, bd
  <2>2. HasDecided(w)' => HasDecided(w)
      BY <2>1 DEF HasDecided
  <2> QED
      BY <1>0, <1>2, <1>3, <1>4, <2>1, <2>2 DEF Decided
<1>15. CASE CloseBead(w)
  <2>1. /\ work'[w].pc = "ok" /\ work'[w].todo = work[w].todo
      BY <1>1, <1>15 DEF CloseBead, WorkerRecords
  <2>2. CASE work[w].moved
    <3>1. HasDecided(w) /\ UNCHANGED status
        BY <1>15, <2>2 DEF CloseBead, HasDecided
    <3> QED
        BY <1>0, <1>2, <1>3, <1>4, <2>1, <3>1 DEF Decided
  <2>3. CASE ~work[w].moved
    <3>1. status' = [status EXCEPT ![b] = "closed"] /\ "closed" \in Statuses \ {"absent", "open"}
        BY <1>15, <2>3 DEF CloseBead, MarkIfUpdating, Mark, Statuses
    <3> QED
        BY <1>0, <1>2, <1>3, <1>5, <2>1, <3>1
  <2> QED
      BY <2>2, <2>3
<1> QED
    BY <1>6, <1>7, <1>8, <1>9, <1>10, <1>11, <1>12, <1>13, <1>14, <1>15 DEF WorkOn, Finish

LEMMA WorkerSlips ==
    ASSUME PoolInv, PoolInv', NothingSlips, NoReopening, NEW w \in Workers, Worker(w)
    PROVE  NothingSlips'
<1> SUFFICES ASSUME opts.autoUpdate, ~opts.faults, UNCHANGED opts
             PROVE  NothingSlips'
  <2>1. UNCHANGED opts
    <3>1. CASE WorkOn(w)
        BY <3>1, WorkOnKeeps
    <3> QED
        BY <3>1 DEF Worker, Receive, Drained, CheckContext, Succeed, AddError, Cancel
  <2> QED
      BY <2>1 DEF NothingSlips
<1> DEFINE Kept == CallsTo(Statuses \ {"absent", "open"})
<1>1. /\ work \in [Workers -> WorkerRecords(PoolPcs)] /\ work[w] \in WorkerRecords(PoolPcs)
      /\ round \in Seq(Beads) /\ got \in Nat /\ got <= Len(round)
    BY DEF PoolInv, TypeOK
<1>2. /\ \A i \in DOMAIN round : status[round[i]] # "absent"
      /\ \A v \in Workers : work[v].pc \in {"check", "run"} => ~work[v].moved /\ ~work[v].gate
      /\ \A v \in Workers : work[v].todo \in Seq(Kept)
      /\ phase = opts.phases =>
            /\ \A v \in Workers : HasDecided(v) => Decided(work[v].bead)
            /\ \A v \in Workers : work[v].pc = "apply" /\ work[v].gate
                  => HasMark(v) \/ Decided(work[v].bead)
            /\ errs = {} => \A i \in 1 .. got :
                  Decided(round[i]) \/ \E v \in Workers : Holds(v) /\ work[v].bead = round[i]
    BY DEF NothingSlips
<1>3. /\ UNCHANGED <<phase, round, verdict>> /\ verdict # "ok"
      /\ \A v \in Workers \ {w} : work'[v] = work[v]
  <2>0. work[w].pc # "gone" => verdict # "ok"
      BY DEF PoolInv, StagesFollow, TypeOK
  <2>1. CASE Receive(w) \/ CheckContext(w)
      BY <1>1, <2>0, <2>1 DEF Receive, CheckContext, poolRest, control
  <2>2. CASE WorkOn(w)
      BY <2>0, <2>2, WorkOnKeeps DEF Busy
  <2>3. CASE Drained(w) \/ Succeed(w) \/ AddError(w) \/ Cancel(w)
      BY <2>0, <2>3, OthersKeep DEF Drained, Succeed, AddError, Cancel
  <2> QED
      BY <2>1, <2>2, <2>3 DEF Worker
\* What is left to show of the worker that moves.
<1>4. ASSUME \A d \in Beads : /\ status[d] # "absent" => status'[d] # "absent"
                              /\ Decided(d) => status'[d] \notin {"absent", "open"},
             work'[w].pc \in {"check", "run"} => ~work'[w].moved /\ ~work'[w].gate,
             work'[w].todo \in Seq(Kept),
             phase = opts.phases => /\ HasDecided(w)' => Decided(work[w].bead)'
                                    /\ work'[w].pc = "apply" /\ work'[w].gate
                                          => HasMark(w)' \/ Decided(work[w].bead)',
             phase = opts.phases /\ errs' = {} => \A i \in 1 .. got' :
                Decided(round[i])' \/ \E v \in Workers : Holds(v)' /\ work'[v].bead = round[i]
      PROVE  NothingSlips'
  <2>1. \A i \in DOMAIN round' : status'[round'[i]] # "absent"
      BY <1>1, <1>2, <1>3, <1>4
  <2>2. \A v \in Workers : work'[v].pc \in {"check", "run"} => ~work'[v].moved /\ ~work'[v].gate
      BY <1>2, <1>3, <1>4
  <2>3. \A v \in Workers : work'[v].todo \in Seq(Kept)
      BY <1>2, <1>3, <1>4
  <2>4. ASSUME phase = opts.phases, NEW v \in Workers \ {w}
        PROVE  /\ HasDecided(v)' => Decided(work[v].bead)'
               /\ work'[v].pc = "apply" /\ work'[v].gate => HasMark(v)' \/ Decided(work[v].bead)'
    <3>1. work'[v] = work[v]
        BY <1>3
    <3>2. (HasDecided(v)' <=> HasDecided(v)) /\ (HasMark(v)' <=> HasMark(v))
        BY <3>1 DEF HasDecided, HasMark
    <3>3. Holds(v) => work[v].bead \in Beads
        BY DEF PoolInv, BeadsInHand, TypeOK
    <3>4. HasDecided(v) \/ work[v].pc = "apply" => Holds(v)
        BY DEF HasDecided, Holds, Busy
    <3>5. Holds(v) /\ Decided(work[v].bead) => Decided(work[v].bead)'
        BY <1>4, <3>1, <3>3 DEF Decided
    <3> QED
        BY <1>2, <2>4, <3>1, <3>2, <3>4, <3>5
  <2>5. (phase = opts.phases)' =>
          /\ \A v \in Workers : HasDecided(v)' => Decided(work[v].bead)'
          /\ \A v \in Workers : work'[v].pc = "apply" /\ work'[v].gate
                => HasMark(v)' \/ Decided(work[v].bead)'
      BY <1>3, <1>4, <2>4
  <2>6. (phase = opts.phases)' => (errs' = {} => \A i \in 1 .. got' :
                Decided(round[i])' \/ \E v \in Workers : Holds(v)' /\ work'[v].bead = round'[i])
      BY <1>3, <1>4
  <2> QED
      BY <1>3, <2>1, <2>2, <2>3, <2>5, <2>6 DEF NothingSlips
<1>5. ASSUME UNCHANGED status
      PROVE  \A d \in Beads : /\ status[d] # "absent" => status'[d] # "absent"
                              /\ Decided(d) => status'[d] \notin {"absent", "open"}
    BY <1>5 DEF Decided
<1>6. \A i \in 1 .. got : round[i] \in Beads
    BY <1>1
<1>7. CASE Receive(w)
  <2>1. /\ UNCHANGED status /\ got' = got + 1 /\ work'[w].pc = "check"
        /\ work'[w].bead = round[got + 1] /\ work'[w].todo = <<>>
        /\ ~work'[w].moved /\ ~work'[w].gate /\ errs' = errs /\ work[w].pc = "wait"
      BY <1>1, <1>7 DEF Receive, Holding, At, bd
  <2>2. ~HasDecided(w)' /\ ~Holds(w) /\ Holds(w)' /\ <<>> \in Seq(Kept)
      BY <2>1 DEF HasDecided, Holds, Busy
  <2>3. ASSUME phase = opts.phases, errs' = {}, NEW i \in 1 .. got'
        PROVE  Decided(round[i])' \/ \E v \in Workers : Holds(v)' /\ work'[v].bead = round[i]
    <3>1. CASE i = got + 1
        BY <2>1, <2>2, <3>1
    <3>2. CASE i \in 1 .. got
      <4>1. Decided(round[i]) => Decided(round[i])'
          BY <1>3, <2>1 DEF Decided
      <4>2. \A v \in Workers : Holds(v) => v # w /\ Holds(v)' /\ work'[v].bead = work[v].bead
          BY <1>3, <2>2 DEF Holds
      <4> QED
          BY <1>2, <2>1, <2>3, <3>2, <4>1, <4>2
    <3> QED
        BY <1>1, <2>1, <3>1, <3>2
  <2> QED
      BY <1>4, <1>5, <2>1, <2>2, <2>3
\* A worker that puts its bead down, or drops it.
<1>8. ASSUME UNCHANGED <<status, got>>, work'[w].pc \in {"wait", "cancel", "gone"},
             work'[w].todo = <<>>,
             errs' = {} => errs = {} /\ (Holds(w) /\ phase = opts.phases => Decided(work[w].bead))
      PROVE  NothingSlips'
  <2>1. ~HasDecided(w)' /\ <<>> \in Seq(Kept)
      BY <1>8 DEF HasDecided
  <2>2. ASSUME phase = opts.phases, errs' = {}, NEW i \in 1 .. got
        PROVE  Decided(round[i])' \/ \E v \in Workers : Holds(v)' /\ work'[v].bead = round[i]
    <3>1. Decided(round[i]) => Decided(round[i])'
        BY <1>3, <1>8 DEF Decided
    <3>2. \A v \in Workers \ {w} : Holds(v) => Holds(v)' /\ work'[v].bead = work[v].bead
        BY <1>3 DEF Holds
    <3> QED
        BY <1>2, <1>8, <2>2, <3>1, <3>2
  <2> QED
      BY <1>4, <1>5, <1>8, <2>1, <2>2
<1>9. CASE Drained(w) \/ Cancel(w)
  <2>1. /\ UNCHANGED <<status, got, errs>> /\ work[w].pc \in {"wait", "cancel"}
        /\ work'[w].pc \in {"wait", "cancel", "gone"} /\ work'[w].todo = <<>>
      BY <1>1, <1>9 DEF Drained, Cancel, Goto, At, bd
  <2> QED
      BY <1>8, <2>1 DEF Holds, Busy
<1>10. CASE Succeed(w)
  <2>1. /\ UNCHANGED <<status, got, errs>> /\ work[w].pc = "ok"
        /\ work'[w].pc = "wait" /\ work'[w].todo = <<>>
      BY <1>1, <1>10 DEF Succeed, Goto, At, bd
  <2> QED
      BY <1>2, <1>8, <2>1 DEF HasDecided
<1>11. CASE AddError(w)
  <2>1. /\ UNCHANGED <<status, got>> /\ errs' # {}
        /\ work'[w].pc \in {"wait", "cancel", "gone"} /\ work'[w].todo = <<>>
      BY <1>1, <1>11 DEF AddError, Goto, At, bd
  <2> QED
      BY <1>8, <2>1
<1>12. CASE CheckContext(w)
  <2>1. UNCHANGED <<status, got, errs>> /\ work[w].pc = "check"
      BY <1>12 DEF CheckContext, bd
  <2>2. CASE canceled
    <3>1. work'[w].pc = "gone" /\ work'[w].todo = <<>> /\ errs # {}
        BY <1>1, <1>12, <2>2 DEF CheckContext, At, PoolInv, NobodyLeavesEarly
    <3> QED
        BY <1>8, <2>1, <3>1
  <2>3. CASE ~canceled
    <3>1. /\ work'[w].pc = "run" /\ work'[w].bead = work[w].bead
          /\ work'[w].todo = work[w].todo /\ work'[w].moved = work[w].moved
          /\ work'[w].gate = work[w].gate
        BY <1>1, <1>12, <2>3 DEF CheckContext, WorkerRecords
    <3>2. ~HasDecided(w)' /\ Holds(w)'
        BY <3>1 DEF HasDecided, Holds, Busy
    <3>3. ASSUME phase = opts.phases, errs' = {}, NEW i \in 1 .. got
          PROVE  Decided(round[i])' \/ \E v \in Workers : Holds(v)' /\ work'[v].bead = round[i]
      <4>1. Decided(round[i]) => Decided(round[i])'
          BY <1>3, <2>1 DEF Decided
      <4>2. \A v \in Workers : Holds(v) => Holds(v)' /\ work'[v].bead = work[v].bead
          BY <1>3, <3>1, <3>2 DEF Holds
      <4> QED
          BY <1>2, <2>1, <3>3, <4>1, <4>2
    <3> QED
        BY <1>2, <1>4, <1>5, <2>1, <3>1, <3>2, <3>3
  <2> QED
      BY <2>2, <2>3
<1>13. CASE WorkOn(w)
  <2>1. /\ UNCHANGED <<got, errs>> /\ work'[w].bead = work[w].bead
        /\ Holds(w) /\ Holds(w)'
      BY <1>13, WorkOnKeeps DEF Holds
  <2>2. PICK b \in Beads : work[w].bead = b
      BY <2>1 DEF PoolInv, BeadsInHand, TypeOK
  <2>3. \A d \in Beads : /\ status[d] # "absent" => status'[d] # "absent"
                         /\ Decided(d) => status'[d] \notin {"absent", "open"}
      BY <1>13, <2>2, WorkSlips
  <2>4. /\ work'[w].pc \notin {"check", "run"}
        /\ work'[w].todo \in Seq(Kept)
        /\ phase = opts.phases =>
              /\ HasDecided(w)' => Decided(b)'
              /\ work'[w].pc = "apply" /\ work'[w].gate => HasMark(w)' \/ Decided(b)'
      BY <1>13, <2>2, WorkSlips
  <2>8. Decided(b)' => Decided(work[w].bead)'
      BY <2>1, <2>2 DEF Decided
  <2>5. ASSUME phase = opts.phases, errs' = {}, NEW i \in 1 .. got
        PROVE  Decided(round[i])' \/ \E v \in Workers : Holds(v)' /\ work'[v].bead = round[i]
    <3>1. Decided(round[i]) => Decided(round[i])'
      <4>1. PICK d \in Beads : d = round[i]
          BY <1>6
      <4>2. Decided(d) => status'[d] \notin {"absent", "open"}
          BY <2>3
      <4> QED
          BY <1>3, <4>1, <4>2 DEF Decided
    <3>2. \A v \in Workers : Holds(v) => Holds(v)' /\ work'[v].bead = work[v].bead
        BY <1>3, <2>1 DEF Holds
    <3> QED
        BY <1>2, <2>1, <2>5, <3>1, <3>2
  <2>6. /\ HasDecided(w)' /\ phase = opts.phases => Decided(work[w].bead)'
        /\ work'[w].pc = "apply" /\ work'[w].gate /\ phase = opts.phases
              => HasMark(w)' \/ Decided(work[w].bead)'
      BY <2>4, <2>8
  <2>7. work'[w].pc \in {"check", "run"} => ~work'[w].moved /\ ~work'[w].gate
      BY <2>4
  <2> HIDE DEF Kept
  <2> QED
      BY <1>4, <2>1, <2>3, <2>4, <2>5, <2>6, <2>7
<1> QED
    BY <1>7, <1>9, <1>10, <1>11, <1>12, <1>13 DEF Worker

\* The bookkeeping of the coordinator leaves the workers alone.
LEMMA SlipsKept ==
    ASSUME NothingSlips, UNCHANGED <<opts, status, work, round, got, phase, errs>>,
           verdict' = "ok" => phase = opts.phases /\ errs = {} /\ got = Len(round)
    PROVE  NothingSlips'
<1>1. \A w \in Workers : work'[w] = work[w]
    OBVIOUS
<1>2. ASSUME opts.autoUpdate, ~opts.faults, phase = opts.phases, NEW w \in Workers
      PROVE  /\ HasDecided(w)' => Decided(work[w].bead)'
             /\ work'[w].pc = "apply" /\ work'[w].gate => HasMark(w)' \/ Decided(work[w].bead)'
  <2>1. (HasDecided(w)' <=> HasDecided(w)) /\ (HasMark(w)' <=> HasMark(w))
      BY <1>1 DEF HasDecided, HasMark
  <2>2. Decided(work[w].bead)' <=> Decided(work[w].bead)
      BY DEF Decided
  <2> QED
      BY <1>1, <1>2, <2>1, <2>2 DEF NothingSlips
<1>3. ASSUME opts.autoUpdate, ~opts.faults, phase = opts.phases, errs = {}, NEW i \in 1 .. got
      PROVE  Decided(round[i])' \/ \E w \in Workers : Holds(w)' /\ work'[w].bead = round'[i]
  <2>1. Decided(round[i])' <=> Decided(round[i])
      BY DEF Decided
  <2>2. \A w \in Workers : Holds(w) => Holds(w)' /\ work'[w].bead = work[w].bead
      BY <1>1 DEF Holds
  <2> QED
      BY <1>3, <2>1, <2>2 DEF NothingSlips
<1>4. (opts.autoUpdate /\ ~opts.faults =>
        /\ \A i \in DOMAIN round : status[round[i]] # "absent"
        /\ \A w \in Workers : work[w].pc \in {"check", "run"} => ~work[w].moved /\ ~work[w].gate
        /\ \A w \in Workers : work[w].todo \in Seq(CallsTo(Statuses \ {"absent", "open"}))
        /\ verdict = "ok" => phase = opts.phases /\ errs = {} /\ got = Len(round))'
    BY DEF NothingSlips
<1> QED
    BY <1>2, <1>3, <1>4 DEF NothingSlips

LEMMA CoordinatorSlips ==
    ASSUME PoolInv, PoolInv', NothingSlips, Coordinator
    PROVE  NothingSlips'
<1>0. UNCHANGED <<opts, status>>
    BY DEF Coordinator, ListFails, NothingReady, ListReady, Feed, Join, Return, workVars, bd
<1> SUFFICES ASSUME opts.autoUpdate, ~opts.faults
             PROVE  NothingSlips'
    BY <1>0 DEF NothingSlips
<1> DEFINE Kept == CallsTo(Statuses \ {"absent", "open"})
\* A pool starts with workers that have nothing in hand.
<1>1. ASSUME NEW n, StartPool(n), verdict' = "open",
             \A i \in DOMAIN round' : status[round'[i]] # "absent"
      PROVE  NothingSlips'
  <2>1. \A w \in Workers : /\ work'[w].pc \in {"wait", "gone"}
                            /\ work'[w].todo = <<>> /\ <<>> \in Seq(Kept)
      BY <1>1 DEF StartPool, At
  <2>2. \A w \in Workers : ~HasDecided(w)'
      BY <2>1 DEF HasDecided
  <2>3. got' = 0
      BY <1>1 DEF StartPool
  <2>4. \A i \in 1 .. got' : FALSE
      BY <2>3
  <2> QED
      BY <1>0, <1>1, <2>1, <2>2, <2>4 DEF NothingSlips
\* Otherwise the workers go on.
<1>2. ASSUME UNCHANGED <<work, round, got, phase, errs>>,
             verdict' = "ok" => phase = opts.phases /\ errs = {} /\ got = Len(round)
      PROVE  NothingSlips'
    BY <1>0, <1>2, SlipsKept
<1>3. CASE ListFails \/ NothingReady
    BY <1>2, <1>3 DEF ListFails, NothingReady, Return, workVars, channel
<1>4. CASE ListReady
  <2>1. \A i \in DOMAIN round' : status[round'[i]] = "open"
      BY <1>4, Rounds DEF PoolInv, Ready
  <2> QED
      BY <1>1, <1>4, <2>1 DEF ListReady
<1>5. CASE Feed
  <2>1. verdict' # "ok"
      BY <1>5 DEF Feed, PoolInv, StagesFollow
  <2> QED
      BY <1>2, <1>5, <2>1 DEF Feed, workVars
<1>6. CASE Join
  <2>1. CASE Return("error")
      BY <1>2, <2>1 DEF Return, workVars, channel
  <2>2. CASE errs = {} /\ phase = opts.phases /\ Return("ok")
    <3>1. got = Len(round)
        BY <1>6, <2>2, NothingLeft DEF Join
    <3> QED
        BY <1>2, <2>2, <3>1 DEF Return, workVars, channel
  <2>3. CASE StartPool(Len(round)) /\ UNCHANGED <<round, verdict>>
    <3>1. verdict = "open"
        BY <1>6 DEF Join, PoolInv, StagesFollow
    <3>2. \A i \in DOMAIN round' : status[round'[i]] # "absent"
        BY <2>3 DEF NothingSlips
    <3> QED
        BY <1>1, <2>3, <3>1, <3>2
  <2> QED
      BY <1>6, <2>1, <2>2, <2>3 DEF Join
<1> QED
    BY <1>3, <1>4, <1>5, <1>6 DEF Coordinator

LEMMA InitSlips == Init => NothingSlips
<1> SUFFICES ASSUME Init PROVE NothingSlips
    OBVIOUS
<1>1. \A w \in Workers : /\ work[w].pc = "gone" /\ work[w].todo = <<>>
                          /\ <<>> \in Seq(CallsTo(Statuses \ {"absent", "open"}))
    BY DEF Init, At
<1>2. \A w \in Workers : ~HasDecided(w)
    BY <1>1 DEF HasDecided
<1>3. round = <<>> /\ got = 0 /\ verdict = "none"
    BY DEF Init
<1>4. \A i \in DOMAIN round : FALSE
    BY <1>3
<1>5. \A i \in 1 .. got : FALSE
    BY <1>3
<1> QED
    BY <1>1, <1>2, <1>3, <1>4, <1>5 DEF NothingSlips

LEMMA SlipsStep ==
    ASSUME PoolInv, PoolInv', NothingSlips, NoReopening, [Next]_vars
    PROVE  NothingSlips'
<1>1. CASE Coordinator
    BY <1>1, CoordinatorSlips
<1>2. CASE \E w \in Workers : Worker(w)
    BY <1>2, WorkerSlips
<1>3. CASE UNCHANGED vars
  <2>1. CASE opts.autoUpdate /\ ~opts.faults
    <3>1. verdict = "ok" => phase = opts.phases /\ errs = {} /\ got = Len(round)
        BY <2>1 DEF NothingSlips
    <3> QED
        BY <1>3, <3>1, SlipsKept DEF vars, workVars, bd, channel, control
  <2>2. CASE ~(opts.autoUpdate /\ ~opts.faults)
      BY <1>3, <2>2 DEF vars, workVars, NothingSlips
  <2> QED
      BY <2>1, <2>2
<1> QED
    BY <1>1, <1>2, <1>3 DEF Next, Over

LEMMA SlipsDecide ==
    ASSUME PoolInv, NothingSlips
    PROVE  OkMeansDecided
<1> SUFFICES ASSUME verdict = "ok", opts.autoUpdate, ~opts.faults, NEW i \in DOMAIN round
             PROVE  status[round[i]] # "open"
    BY DEF OkMeansDecided
<1>1. phase = opts.phases /\ errs = {} /\ got = Len(round)
    BY DEF NothingSlips
<1>2. i \in 1 .. got
    BY <1>1 DEF PoolInv, TypeOK
<1>3. \A w \in Workers : ~Holds(w)
    BY DEF PoolInv, StagesFollow, TypeOK, Holds, Busy
<1> QED
    BY <1>1, <1>2, <1>3 DEF NothingSlips, Decided

\* Where no agent sets a bead back to "open", a round without an error leaves no bead of it
\* open: each has been closed, blocked, put into review, or set to what its agent said.
THEOREM OkRoundsAreDecided ==
    ASSUME NoReopening
    PROVE  Spec => []OkMeansDecided
<1>1. Init => NothingSlips
    BY InitSlips
<1>2. PoolInv /\ PoolInv' /\ NothingSlips /\ [Next]_vars => NothingSlips'
    BY SlipsStep
<1>3. PoolInv /\ NothingSlips => OkMeansDecided
    BY SlipsDecide
<1> QED
    BY <1>1, <1>2, <1>3, PoolInvariant, PTL DEF Spec
-----------------------------------------------------------------------------
(* Failed gates *)

LEMMA CallsOfTypes ==
    ASSUME NEW b \in Beads, NEW a \in Actions,
           \A i \in DOMAIN a.updates : a.updates[i][1] = b
    PROVE  Calls(b, a) \in Seq(CallsOf(b))
<1>1. /\ a.updates \in Seq(Beads \X (Statuses \ {"absent"}))
      /\ a.tasks \in TaskLists
    BY DEF Actions
<1> DEFINE sets == [i \in DOMAIN a.updates |->
                      [kind |-> "set", bead |-> a.updates[i][1], to |-> a.updates[i][2]]]
           mark == [kind |-> "mark", bead |-> b, to |-> IF a.review THEN "review" ELSE "blocked"]
           creates == CreateCalls(a.tasks)
<1>2. sets \in Seq(CallsOf(b))
    BY <1>1 DEF BdCalls, CallsOf
<1>3. mark \in CallsOf(b)
    BY DEF BdCalls, Statuses, CallsOf
<1>4. creates \in Seq(CallsOf(b))
  <2>1. NewCalls \subseteq CallsOf(b)
      BY DEF NewCalls, CallsOf
  <2> QED
      BY <1>1, <2>1, CreateCallsNew
<1> HIDE DEF sets, mark, creates
<1>5. /\ <<mark>> \in Seq(CallsOf(b)) /\ <<>> \in Seq(CallsOf(b))
    BY <1>3
<1>6. sets \o <<mark>> \in Seq(CallsOf(b)) /\ sets \o <<>> \in Seq(CallsOf(b))
    BY <1>2, <1>5
<1> QED
    BY <1>4, <1>5, <1>6 DEF Calls, sets, mark, creates

\* A worker changes the status of its own bead, and creates beads, but does no more.
LEMMA OwnWork ==
    ASSUME PoolInv, OwnBeads, NEW w \in Workers, WorkOn(w), NEW b \in Beads,
           work[w].bead = b, work[w].todo \in Seq(CallsOf(b))
    PROVE  /\ \A d \in Beads \ {b} : status'[d] = status[d] \/ status[d] = "absent"
           /\ work'[w].todo \in Seq(CallsOf(b))
<1>1. /\ work \in [Workers -> WorkerRecords(PoolPcs)] /\ work[w] \in WorkerRecords(PoolPcs)
      /\ status \in [Beads -> Statuses] /\ WorkTypeOK
      /\ <<>> \in Seq(CallsOf(b))
    BY DEF PoolInv, TypeOK, WorkTypeOK
<1>2. \A to : MarkIfUpdating(b, to) => \A d \in Beads \ {b} : status'[d] = status[d]
    BY <1>1 DEF MarkIfUpdating, Mark
<1>3. CASE RunFails(w)
  <2>1. work'[w].todo = work[w].todo
      BY <1>1, <1>3 DEF RunFails, WorkerRecords
  <2> QED
      BY <1>2, <1>3, <2>1 DEF RunFails
<1>4. CASE RunEnds(w)
  <2>1. PICK a \in Answers[work[w].bead] \cup {NoAnswer}, gate \in BOOLEAN : \E todo :
              /\ todo = IF a = NoAnswer THEN <<>> ELSE Calls(work[w].bead, a)
              /\ gate = (a # NoAnswer /\ GateFails(a))
              /\ work' = [work EXCEPT ![w].pc = "apply", ![w].answer = a, ![w].todo = todo,
                                      ![w].gate = gate]
      BY <1>4, RunEndsForms
  <2>2. PICK todo : /\ todo = IF a = NoAnswer THEN <<>> ELSE Calls(b, a)
                    /\ work' = [work EXCEPT ![w].pc = "apply", ![w].answer = a,
                                            ![w].todo = todo, ![w].gate = gate]
      BY <2>1
  <2>3. todo \in Seq(CallsOf(b))
    <3>1. CASE a # NoAnswer
      <4>1. a \in Answers[b] /\ a \in Actions
          BY <2>1, <3>1, WorkConfig
      <4>2. \A i \in DOMAIN a.updates : a.updates[i][1] = b
          BY <4>1 DEF OwnBeads
      <4> QED
          BY <2>2, <3>1, <4>1, <4>2, CallsOfTypes
    <3> QED
        BY <1>1, <2>2, <3>1
  <2>4. work'[w].todo = todo
      BY <1>1, <2>2 DEF WorkerRecords
  <2> QED
      BY <1>4, <2>3, <2>4 DEF RunEnds, bd
<1>5. CASE RunIsCut(w) \/ SkipActions(w)
  <2>1. work'[w].todo = work[w].todo
      BY <1>1, <1>5 DEF RunIsCut, SkipActions, WorkerRecords
  <2> QED
      BY <1>5, <2>1 DEF RunIsCut, SkipActions, bd
<1>6. CASE Apply(w)
  <2> DEFINE call == Head(work[w].todo)
             rest == Tail(work[w].todo)
             moved == work[w].moved \/ (call.kind = "set" /\ call.bead = work[w].bead)
  <2>1. /\ work[w].todo # <<>>
        /\ Effect(call) \/ UNCHANGED bd
        /\ \/ work' = [work EXCEPT ![w].todo = rest, ![w].moved = moved]
           \/ work' = [work EXCEPT ![w].todo = rest]
           \/ work' = [work EXCEPT ![w].pc = "failed", ![w].todo = <<>>]
      BY <1>6, NextCallForms DEF Apply
  <2>2. call \in CallsOf(b) /\ rest \in Seq(CallsOf(b))
      BY <2>1, TailElements
  <2>3. call \in BdCalls /\ (call.kind \in {"set", "mark"} => call.bead = b)
      BY <2>2 DEF CallsOf
  <2>4. \A d \in Beads \ {b} : status'[d] = status[d] \/ status[d] = "absent"
      BY <1>1, <2>1, <2>3, EffectStatus DEF bd
  <2> HIDE DEF call, rest, moved
  <2>5. work'[w].todo \in {rest, <<>>}
      BY <1>1, <2>1 DEF WorkerRecords
  <2> QED
      BY <1>1, <2>2, <2>4, <2>5
<1>7. CASE Judge(w, "settle")
  <2>1. \E moved : /\ \/ MarkIfUpdating(b, "blocked")
                      \/ UNCHANGED status
                   /\ \/ work' = [work EXCEPT ![w].pc = "settle", ![w].gate = TRUE,
                                              ![w].moved = moved]
                      \/ work' = [work EXCEPT ![w].pc = "settle"]
      BY <1>7 DEF Judge
  <2>2. work'[w].todo = work[w].todo
      BY <1>1, <2>1 DEF WorkerRecords
  <2> QED
      BY <1>2, <2>1, <2>2
<1>8. CASE CreateFix(w)
  <2>1. work'[w].todo = work[w].todo
      BY <1>1, <1>8 DEF CreateFix, WorkerRecords
  <2> QED
      BY <1>1, <1>8, <2>1 DEF CreateFix, WantsFix
<1>9. CASE LinkFix(w) \/ CountFailure(w) \/ PassGate(w)
  <2>1. work'[w].todo = work[w].todo
      BY <1>1, <1>9 DEF LinkFix, CountFailure, PassGate, WorkerRecords
  <2> QED
      BY <1>9, <2>1 DEF LinkFix, CountFailure, PassGate, bd
<1>10. CASE CloseBead(w)
  <2>1. work'[w].todo = work[w].todo
      BY <1>1, <1>10 DEF CloseBead, WorkerRecords
  <2> QED
      BY <1>2, <1>10, <2>1 DEF CloseBead
<1> QED
    BY <1>3, <1>4, <1>5, <1>6, <1>7, <1>8, <1>9, <1>10 DEF WorkOn, Finish

\* A gate is kept while its worker and its bead rest, and nothing is kept without one.
LEMMA GateStays ==
    ASSUME NEW w \in Workers, GateKept(w), work'[w] = work[w], UNCHANGED opts,
           Holds(w) => status'[work[w].bead] = status[work[w].bead]
    PROVE  GateKept(w)'
<1>1. MarkAhead(w)' <=> MarkAhead(w)
    BY DEF MarkAhead
<1>2. Holds(w) => (Gated(w)' <=> Gated(w))
    BY DEF Gated
<1> QED
    BY <1>1, <1>2 DEF GateKept, Holds, Busy

LEMMA NoGateKept ==
    ASSUME NEW w \in Workers, ~work'[w].gate, work'[w].pc \notin {"link", "count"}
    PROVE  GateKept(w)'
BY DEF GateKept

LEMMA CoordinatorGates ==
    ASSUME PoolInv, GatesMarked, Coordinator
    PROVE  GatesMarked'
<1>0. UNCHANGED <<opts, status>>
    BY DEF Coordinator, ListFails, NothingReady, ListReady, Feed, Join, Return, workVars, bd
<1>1. ASSUME NEW n, StartPool(n), \A i \in DOMAIN round' : status[round'[i]] # "absent"
      PROVE  GatesMarked'
  <2>1. \A w \in Workers : /\ work'[w].pc \in {"wait", "gone"} /\ ~work'[w].gate
                            /\ work'[w].todo = <<>>
      BY <1>1 DEF StartPool, At
  <2>2. \A w \in Workers : GateKept(w)'
      BY <2>1, NoGateKept
  <2>3. \A S : <<>> \in Seq(S)
      OBVIOUS
  <2> QED
      BY <1>0, <1>1, <2>1, <2>2, <2>3 DEF GatesMarked
<1>2. ASSUME UNCHANGED <<work, round>>
      PROVE  GatesMarked'
  <2>1. \A w \in Workers : GateKept(w)'
      BY <1>0, <1>2, GateStays DEF GatesMarked
  <2> QED
      BY <1>0, <1>2, <2>1 DEF GatesMarked
<1>3. CASE ListFails \/ NothingReady
    BY <1>2, <1>3 DEF ListFails, NothingReady, Return, workVars, channel
<1>4. CASE ListReady
  <2>1. \A i \in DOMAIN round' : status[round'[i]] = "open"
      BY <1>4, Rounds DEF PoolInv, Ready
  <2> QED
      BY <1>1, <1>4, <2>1 DEF ListReady
<1>5. CASE Feed
    BY <1>2, <1>5 DEF Feed, workVars
<1>6. CASE Join
  <2>1. CASE Return("error") \/ Return("ok")
      BY <1>2, <2>1 DEF Return, workVars, channel
  <2>2. CASE StartPool(Len(round)) /\ UNCHANGED round
      BY <1>1, <2>2 DEF GatesMarked
  <2> QED
      BY <1>6, <2>1, <2>2 DEF Join
<1> QED
    BY <1>3, <1>4, <1>5, <1>6 DEF Coordinator

LEMMA WorkerGates ==
    ASSUME PoolInv, GatesMarked, OwnBeads, NEW w \in Workers, Worker(w)
    PROVE  GatesMarked'
<1>1. /\ work \in [Workers -> WorkerRecords(PoolPcs)] /\ work[w] \in WorkerRecords(PoolPcs)
      /\ WorkTypeOK
    BY DEF PoolInv, TypeOK
\* Away from bd only the worker itself changes.
<1>2. ASSUME UNCHANGED <<opts, status, round>>, \A v \in Workers \ {w} : work'[v] = work[v],
             GateKept(w)', work'[w].pc = "check" => ~work'[w].gate,
             work'[w].todo \in Seq(CallsOf(work'[w].bead))
      PROVE  GatesMarked'
  <2>1. \A v \in Workers : GateKept(v)'
      BY <1>2, GateStays DEF GatesMarked
  <2> QED
      BY <1>2, <2>1 DEF GatesMarked
<1>3. CASE Receive(w)
  <2>1. work'[w] = Holding("check", round[got + 1]) /\ \A v \in Workers \ {w} : work'[v] = work[v]
      BY <1>1, <1>3 DEF Receive
  <2>2. work'[w].pc = "check" /\ ~work'[w].gate /\ work'[w].todo = <<>>
      BY <2>1 DEF Holding, At
  <2>3. work'[w].todo \in Seq(CallsOf(work'[w].bead))
      BY <2>2
  <2>4. GateKept(w)'
      BY <2>2, NoGateKept
  <2> QED
      BY <1>2, <1>3, <2>1, <2>2, <2>3, <2>4 DEF Receive, poolRest, bd
<1>4. CASE Drained(w) \/ Succeed(w) \/ AddError(w) \/ Cancel(w)
  <2>1. PICK p \in {"gone", "wait", "cancel"} : Goto(w, p)
      BY <1>4 DEF Drained, Succeed, AddError, Cancel
  <2>2. work'[w] = At(p) /\ \A v \in Workers \ {w} : work'[v] = work[v]
      BY <1>1, <2>1 DEF Goto
  <2>3. work'[w].pc = p /\ ~work'[w].gate /\ work'[w].todo = <<>>
      BY <2>2 DEF At
  <2>4. work'[w].todo \in Seq(CallsOf(work'[w].bead))
      BY <2>3
  <2>5. GateKept(w)'
      BY <2>3, NoGateKept
  <2>6. UNCHANGED <<opts, status, round>>
      BY <1>4 DEF Drained, Succeed, AddError, Cancel, poolRest, bd
  <2> QED
      BY <1>2, <2>2, <2>3, <2>4, <2>5, <2>6
<1>5. CASE CheckContext(w)
  <2>1. /\ \A v \in Workers \ {w} : work'[v] = work[v]
        /\ \/ work'[w] = At("gone")
           \/ work'[w] = [work[w] EXCEPT !.pc = "run"]
      BY <1>1, <1>5 DEF CheckContext
  <2>2. work[w].pc = "check" /\ ~work[w].gate /\ work[w].todo \in Seq(CallsOf(work[w].bead))
      BY <1>5 DEF CheckContext, GatesMarked
  <2>3. /\ work'[w].pc \in {"gone", "run"} /\ ~work'[w].gate
        /\ \/ work'[w].todo = <<>>
           \/ work'[w].todo = work[w].todo /\ work'[w].bead = work[w].bead
      BY <1>1, <2>1, <2>2 DEF At, WorkerRecords
  <2>4. work'[w].todo \in Seq(CallsOf(work'[w].bead))
    <3>1. CASE work'[w].todo = <<>>
        BY <3>1
    <3>2. CASE work'[w].todo = work[w].todo /\ work'[w].bead = work[w].bead
      <4>1. CallsOf(work'[w].bead) = CallsOf(work[w].bead)
          BY <3>2
      <4> QED
          BY <2>2, <3>2, <4>1
    <3> QED
        BY <2>3, <3>1, <3>2
  <2>5. GateKept(w)'
      BY <2>3, NoGateKept
  <2> QED
      BY <1>2, <1>5, <2>1, <2>3, <2>4, <2>5 DEF CheckContext, poolRest, bd
<1>6. CASE WorkOn(w)
  <2>1. /\ UNCHANGED <<round, opts>> /\ work'[w].bead = work[w].bead
        /\ \A v \in Workers \ {w} : work'[v] = work[v]
        /\ work'[w].pc \in Busy /\ Holds(w)
      BY <1>6, WorkOnKeeps DEF Holds
  <2>2. \A v \in Workers : Holds(v) => work[v].bead \in Beads /\ status[work[v].bead] # "absent"
    <3>1. \A i \in 1 .. got : i \in DOMAIN round /\ round[i] \in Beads
        BY DEF PoolInv, TypeOK
    <3> QED
        BY <3>1 DEF PoolInv, BeadsInHand, GatesMarked
  <2>3. PICK b \in Beads : b = work[w].bead /\ status[b] # "absent"
      BY <2>1, <2>2
  <2>4. work[w].todo \in Seq(CallsOf(b))
      BY <2>3 DEF GatesMarked
  <2>5. /\ \A d \in Beads \ {b} : status'[d] = status[d] \/ status[d] = "absent"
        /\ work'[w].todo \in Seq(CallsOf(b))
      BY <1>6, <2>3, <2>4, OwnWork
  <2>6. \A v \in Workers \ {w} : Holds(v) => status'[work[v].bead] = status[work[v].bead]
    <3>1. \A v \in Workers \ {w} : Holds(v) => work[v].bead # b
        BY <2>1, <2>3 DEF PoolInv, BeadsInHand
    <3> QED
        BY <2>2, <2>5, <3>1
  <2>7. \A v \in Workers \ {w} : GateKept(v)'
      BY <2>1, <2>6, GateStays DEF GatesMarked
  <2>8. GateKept(w)' /\ status'[b] # "absent"
    <3>1. CASE SkipActions(w)
      <4>1. work'[w].pc = "ok" /\ work'[w].gate = work[w].gate /\ ~work[w].gate
          BY <1>1, <3>1 DEF SkipActions, WorkerRecords, GatesMarked, GateKept
      <4> QED
          BY <2>3, <3>1, <4>1, NoGateKept DEF SkipActions, bd
    <3>2. CASE RunFails(w) \/ RunEnds(w) \/ RunIsCut(w) \/ Finish(w, "settle")
      <4>1. "settle" \in {"next", "settle"} /\ GateKept(w)
          BY DEF GatesMarked
      <4>2. GateKept(w)'
          BY <1>1, <2>3, <3>2, <4>1, GateWork
      <4>3. status'[b] # "absent"
          BY <1>1, <2>3, <3>2, <4>1, WorkFrame
      <4> QED
          BY <4>2, <4>3
    <3> QED
        BY <1>6, <3>1, <3>2 DEF WorkOn
  <2>9. \A i \in DOMAIN round : status'[round[i]] # "absent"
    <3>1. \A i \in DOMAIN round : round[i] \in Beads /\ status[round[i]] # "absent"
        BY DEF PoolInv, TypeOK, GatesMarked
    <3> QED
        BY <2>5, <2>8, <3>1
  <2>10. work'[w].pc # "check"
      BY <2>1 DEF Busy
  <2> QED
      BY <2>1, <2>3, <2>5, <2>7, <2>8, <2>9, <2>10 DEF GatesMarked
<1> QED
    BY <1>3, <1>4, <1>5, <1>6 DEF Worker

\* When a failed gate is counted, its bead is blocked or in review, with any number of
\* workers beside each other, as long as no agent updates the bead of another.
THEOREM FailedGatesStayOpen ==
    ASSUME OwnBeads
    PROVE  Spec => []GatedIsOpen
<1>1. Init => GatesMarked
  <2> SUFFICES ASSUME Init PROVE GatesMarked
      OBVIOUS
  <2>1. \A w \in Workers : work[w].pc = "gone" /\ ~work[w].gate /\ work[w].todo = <<>>
      BY DEF Init, At
  <2>2. \A w \in Workers : GateKept(w)
      BY <2>1 DEF GateKept
  <2>3. (\A S : <<>> \in Seq(S)) /\ (\A i \in DOMAIN round : FALSE)
      BY DEF Init
  <2> QED
      BY <2>1, <2>2, <2>3 DEF GatesMarked
<1>2. PoolInv /\ GatesMarked /\ [Next]_vars => GatesMarked'
  <2> SUFFICES ASSUME PoolInv, GatesMarked, [Next]_vars PROVE GatesMarked'
      OBVIOUS
  <2>1. CASE UNCHANGED vars
    <3>1. \A w \in Workers : GateKept(w)'
        BY <2>1, GateStays DEF vars, workVars, bd, GatesMarked
    <3> QED
        BY <2>1, <3>1 DEF vars, workVars, bd, channel, GatesMarked
  <2> QED
      BY <2>1, OwnBeads, CoordinatorGates, WorkerGates DEF Next, Over
<1>3. GatesMarked => GatedIsOpen
    BY DEF GatesMarked, GateKept, Gated, GatedIsOpen
<1> QED
    BY <1>1, <1>2, <1>3, PoolInvariant, PTL DEF Spec
=============================================================================
