---------------------------- MODULE BeadWorkProofs ----------------------------
(***************************************************************************)
(* Lemmas about BeadWork: the calls of bd and the steps of a worker keep   *)
(* their types, for all beads, answers and configurations.                 *)
(***************************************************************************)
EXTENDS BeadWork, TLAPS

-----------------------------------------------------------------------------
(* The calls of bd *)

LEMMA OptionTypes ==
    ASSUME WorkTypeOK
    PROVE  /\ opts \in Configs
           /\ opts.maxFix \in Nat \ {0} /\ opts.maxBeads \in Nat
           /\ opts.maxParallel \in Nat /\ opts.phases \in Nat \ {0}
           /\ opts.autoUpdate \in BOOLEAN /\ opts.autoCreate \in BOOLEAN
           /\ opts.requireActions \in BOOLEAN /\ opts.faults \in BOOLEAN
<1>1. opts \in Configs
    BY WorkConfig DEF WorkTypeOK
<1> QED
    BY <1>1 DEF Configs

LEMMA CreateCallsNew ==
    ASSUME NEW tasks \in TaskLists
    PROVE  CreateCalls(tasks) \in Seq(NewCalls)
<1>1. tasks.beads \in Seq(Beads) /\ tasks.links \in Seq(Beads \X Beads)
    BY DEF TaskLists
<1> DEFINE creates == [i \in DOMAIN tasks.beads |->
                         [kind |-> "create", bead |-> tasks.beads[i], to |-> "open"]]
           links == [i \in DOMAIN tasks.links |->
                       [kind |-> "link", bead |-> tasks.links[i][1], to |-> tasks.links[i][2]]]
<1>2. creates \in Seq(NewCalls)
    BY <1>1 DEF BdCalls, NewCalls
<1>3. links \in Seq(NewCalls)
    BY <1>1 DEF BdCalls, NewCalls
<1> HIDE DEF creates, links
<1>4. creates \o links \in Seq(NewCalls) /\ <<>> \in Seq(NewCalls)
    BY <1>2, <1>3
<1> QED
    BY <1>4 DEF CreateCalls, creates, links

LEMMA NewCallsFit ==
    ASSUME NEW S, NEW calls \in Seq(NewCalls)
    PROVE  calls \in Seq(CallsTo(S)) /\ calls \in Seq(BdCalls)
<1>1. NewCalls \subseteq CallsTo(S) /\ NewCalls \subseteq BdCalls
    BY DEF NewCalls, CallsTo
<1> QED
    BY <1>1

LEMMA CreateCallsTypes ==
    ASSUME NEW tasks \in TaskLists
    PROVE  CreateCalls(tasks) \in Seq(BdCalls)
BY CreateCallsNew, NewCallsFit

LEMMA CallsTypes ==
    ASSUME NEW b \in Beads, NEW a \in Actions
    PROVE  Calls(b, a) \in Seq(BdCalls)
<1>1. /\ a.updates \in Seq(Beads \X (Statuses \ {"absent"}))
      /\ a.tasks \in TaskLists
    BY DEF Actions
<1> DEFINE sets == [i \in DOMAIN a.updates |->
                      [kind |-> "set", bead |-> a.updates[i][1], to |-> a.updates[i][2]]]
           mark == [kind |-> "mark", bead |-> b, to |-> IF a.review THEN "review" ELSE "blocked"]
<1>2. sets \in Seq(BdCalls)
    BY <1>1 DEF BdCalls
<1>3. mark \in BdCalls
    BY DEF BdCalls, Statuses
<1>4. CreateCalls(a.tasks) \in Seq(BdCalls)
    BY <1>1, CreateCallsTypes
<1> HIDE DEF sets, mark
<1>5. /\ <<mark>> \in Seq(BdCalls) /\ <<>> \in Seq(BdCalls)
    BY <1>3
<1>6. sets \o <<mark>> \in Seq(BdCalls) /\ sets \o <<>> \in Seq(BdCalls)
    BY <1>2, <1>5
<1> QED
    BY <1>4, <1>5, <1>6 DEF Calls, sets, mark

\* Where an answer sets only statuses in S, so do the calls it leads to.
LEMMA CallsToTypes ==
    ASSUME NEW b \in Beads, NEW a \in Actions, NEW S, {"blocked", "review"} \subseteq S,
           \A i \in DOMAIN a.updates : a.updates[i][2] \in S
    PROVE  Calls(b, a) \in Seq(CallsTo(S))
<1>1. /\ a.updates \in Seq(Beads \X (Statuses \ {"absent"}))
      /\ a.tasks \in TaskLists
    BY DEF Actions
<1> DEFINE sets == [i \in DOMAIN a.updates |->
                      [kind |-> "set", bead |-> a.updates[i][1], to |-> a.updates[i][2]]]
           mark == [kind |-> "mark", bead |-> b, to |-> IF a.review THEN "review" ELSE "blocked"]
           creates == CreateCalls(a.tasks)
<1>2. sets \in Seq(CallsTo(S))
    BY <1>1 DEF BdCalls, CallsTo
<1>3. mark \in CallsTo(S)
    BY DEF BdCalls, Statuses, CallsTo
<1>4. creates \in Seq(CallsTo(S))
    BY <1>1, CreateCallsNew, NewCallsFit
<1> HIDE DEF sets, mark, creates
<1>5. /\ <<mark>> \in Seq(CallsTo(S)) /\ <<>> \in Seq(CallsTo(S))
    BY <1>3
<1>6. sets \o <<mark>> \in Seq(CallsTo(S)) /\ sets \o <<>> \in Seq(CallsTo(S))
    BY <1>2, <1>5
<1> QED
    BY <1>4, <1>5, <1>6 DEF Calls, sets, mark, creates

\* A gate that fails puts the mark of the bead behind the updates, and before the beads
\* that the answer creates.
LEMMA CallsMark ==
    ASSUME NEW b \in Beads, NEW a \in Actions, opts.autoUpdate, GateFails(a)
    PROVE  \E j \in DOMAIN Calls(b, a) :
              /\ Calls(b, a)[j] = [kind |-> "mark", bead |-> b,
                                   to |-> IF a.review THEN "review" ELSE "blocked"]
              /\ \A k \in DOMAIN Calls(b, a) : k > j => Calls(b, a)[k].kind \in {"create", "link"}
<1>1. /\ a.updates \in Seq(Beads \X (Statuses \ {"absent"}))
      /\ a.tasks \in TaskLists
    BY DEF Actions
<1> DEFINE sets == [i \in DOMAIN a.updates |->
                      [kind |-> "set", bead |-> a.updates[i][1], to |-> a.updates[i][2]]]
           mark == [kind |-> "mark", bead |-> b, to |-> IF a.review THEN "review" ELSE "blocked"]
           creates == CreateCalls(a.tasks)
<1>2. sets \in Seq(BdCalls)
    BY <1>1 DEF BdCalls
<1>3. mark \in BdCalls
    BY DEF BdCalls, Statuses
<1>4. creates \in Seq(NewCalls)
    BY <1>1, CreateCallsNew
<1>5. Calls(b, a) = (sets \o <<mark>>) \o creates
    BY DEF Calls
<1>6. creates \in Seq(BdCalls) /\ \A i \in DOMAIN creates : creates[i].kind \in {"create", "link"}
    BY <1>4, NewCallsFit DEF NewCalls
<1> DEFINE calls == (sets \o <<mark>>) \o creates
           j == Len(sets) + 1
<1> HIDE DEF sets, mark, creates
<1>7. /\ Len(sets) \in Nat /\ Len(creates) \in Nat
      /\ DOMAIN calls = 1 .. Len(sets) + 1 + Len(creates)
      /\ calls[j] = mark
      /\ \A k \in DOMAIN calls : k > j => k - j \in 1 .. Len(creates) /\ calls[k] = creates[k - j]
    BY <1>2, <1>3, <1>6
<1>8. j \in DOMAIN calls /\ \A k \in DOMAIN calls : k > j => calls[k].kind \in {"create", "link"}
    BY <1>6, <1>7
<1> QED
    BY <1>5, <1>7, <1>8 DEF mark

LEMMA EffectTypes ==
    ASSUME WorkTypeOK, NEW call \in BdCalls, Effect(call)
    PROVE  status' \in [Beads -> Statuses] /\ needs' \subseteq Beads \X Beads
<1> USE DEF WorkTypeOK, BdCalls, Statuses
<1>1. CASE call.kind \in {"set", "mark"}
    BY <1>1 DEF Effect
<1>2. CASE call.kind = "create"
    BY <1>2 DEF Effect
<1>3. CASE call.kind = "link"
    BY <1>3 DEF Effect
<1> QED
    BY <1>1, <1>2, <1>3

LEMMA MarkTypes ==
    ASSUME WorkTypeOK, NEW b \in Beads, NEW to \in Statuses, MarkIfUpdating(b, to)
    PROVE  status' \in [Beads -> Statuses]
BY DEF WorkTypeOK, MarkIfUpdating, Mark
-----------------------------------------------------------------------------
(* The steps of a worker *)

LEMMA NextCallTypes ==
    ASSUME NEW pcs, WorkTypeOK, work \in [Workers -> WorkerRecords(pcs)],
           "failed" \in pcs, NEW w \in Workers, NextCall(w)
    PROVE  WorkTypeOK' /\ work' \in [Workers -> WorkerRecords(pcs)]
<1> DEFINE call == Head(work[w].todo)
<1>1. work[w] \in WorkerRecords(pcs) /\ work[w].todo \in Seq(BdCalls) /\ work[w].todo # <<>>
    BY DEF NextCall, WorkerRecords
<1>2. call \in BdCalls /\ Tail(work[w].todo) \in Seq(BdCalls) /\ <<>> \in Seq(BdCalls)
    BY <1>1
<1> HIDE DEF call
<1>3. CASE Effect(call)
           /\ work' = [work EXCEPT ![w].todo = Tail(@),
                        ![w].moved = @ \/ (call.kind = "set" /\ call.bead = work[w].bead)]
  <2>1. WorkTypeOK'
      BY <1>2, <1>3, EffectTypes DEF NextCall, WorkTypeOK
  <2>2. (work[w].moved \/ (call.kind = "set" /\ call.bead = work[w].bead)) \in BOOLEAN
      BY <1>1 DEF WorkerRecords
  <2> QED
      BY <1>1, <1>2, <1>3, <2>1, <2>2 DEF WorkerRecords
<1>4. CASE /\ work' = IF call.kind = "mark" THEN [work EXCEPT ![w].todo = Tail(@)]
                      ELSE [work EXCEPT ![w].pc = "failed", ![w].todo = <<>>]
           /\ UNCHANGED bd
  <2>1. WorkTypeOK'
      BY <1>4 DEF NextCall, WorkTypeOK, bd
  <2> QED
      BY <1>1, <1>2, <1>4, <2>1 DEF WorkerRecords
<1> QED
    BY <1>3, <1>4 DEF NextCall, call

LEMMA RunTypes ==
    ASSUME NEW pcs, WorkTypeOK, work \in [Workers -> WorkerRecords(pcs)],
           {"failed", "apply"} \subseteq pcs, NEW w \in Workers, work[w].bead \in Beads,
           RunFails(w) \/ RunEnds(w) \/ RunIsCut(w)
    PROVE  WorkTypeOK' /\ work' \in [Workers -> WorkerRecords(pcs)]
<1> DEFINE b == work[w].bead
<1>1. work[w] \in WorkerRecords(pcs)
    OBVIOUS
<1>2. CASE RunFails(w)
  <2>1. status' \in [Beads -> Statuses]
      BY <1>2, MarkTypes DEF RunFails, Statuses
  <2> QED
      BY <1>1, <1>2, <2>1 DEF RunFails, WorkTypeOK, WorkerRecords
<1>3. CASE RunEnds(w)
  <2>1. PICK a \in Answers[b] \cup {NoAnswer} :
           work' = [work EXCEPT ![w].pc = "apply", ![w].answer = a,
                      ![w].todo = IF a = NoAnswer THEN <<>> ELSE Calls(b, a),
                      ![w].gate = a # NoAnswer /\ GateFails(a)]
      BY <1>3 DEF RunEnds
  <2>2. a \in Actions \cup {NoAnswer}
      BY WorkConfig
  <2> DEFINE todo == IF a = NoAnswer THEN <<>> ELSE Calls(b, a)
             gate == a # NoAnswer /\ GateFails(a)
  <2>3. todo \in Seq(BdCalls)
      BY <2>2, CallsTypes
  <2>4. gate \in BOOLEAN
      OBVIOUS
  <2>5. work' = [work EXCEPT ![w].pc = "apply", ![w].answer = a, ![w].todo = todo,
                             ![w].gate = gate]
      BY <2>1
  <2> HIDE DEF todo, gate
  <2>6. work' \in [Workers -> WorkerRecords(pcs)]
      BY <1>1, <2>2, <2>3, <2>4, <2>5 DEF WorkerRecords
  <2> QED
      BY <1>3, <2>6 DEF RunEnds, WorkTypeOK, bd
<1>4. CASE RunIsCut(w)
    BY <1>1, <1>4 DEF RunIsCut, WorkTypeOK, WorkerRecords, bd
<1> QED
    BY <1>2, <1>3, <1>4

LEMMA FinishTypes ==
    ASSUME NEW pcs, WorkTypeOK, work \in [Workers -> WorkerRecords(pcs)],
           {"failed", "link", "count", "ok", "stopped", "close"} \subseteq pcs,
           NEW then \in pcs, NEW w \in Workers, work[w].bead \in Beads, Finish(w, then),
           work[w].pc = "link" => FixOf[work[w].bead] \in Beads
    PROVE  WorkTypeOK' /\ work' \in [Workers -> WorkerRecords(pcs)]
<1> USE DEF WorkTypeOK, WorkerRecords, bd
<1>1. work[w] \in WorkerRecords(pcs)
    OBVIOUS
<1>2. CASE Apply(w)
    BY <1>2, NextCallTypes DEF Apply
<1>3. CASE Judge(w, then)
  <2>1. status' \in [Beads -> Statuses]
      BY <1>3, MarkTypes DEF Judge, Statuses
  <2>2. (work[w].moved \/ opts.autoUpdate) \in BOOLEAN
      OBVIOUS
  <2>3. work' \in [Workers -> WorkerRecords(pcs)]
    <3>1. CASE /\ work' = [work EXCEPT ![w].pc = then, ![w].gate = TRUE,
                                       ![w].moved = @ \/ opts.autoUpdate]
      <4>1. work' = [work EXCEPT ![w].pc = then, ![w].gate = TRUE,
                                 ![w].moved = (work[w].moved \/ opts.autoUpdate)]
          BY <3>1
      <4> DEFINE moved == work[w].moved \/ opts.autoUpdate
      <4>2. moved \in BOOLEAN
          OBVIOUS
      <4>3. work' = [work EXCEPT ![w].pc = then, ![w].gate = TRUE, ![w].moved = moved]
          BY <4>1
      <4> HIDE DEF moved
      <4> QED
          BY <1>1, <4>2, <4>3
    <3>2. CASE work' = [work EXCEPT ![w].pc = then]
        BY <1>1, <3>2
    <3> QED
        BY <1>3, <3>1, <3>2 DEF Judge
  <2> QED
      BY <1>3, <2>1, <2>3 DEF Judge
<1>4. CASE CreateFix(w)
  <2>1. status' \in [Beads -> Statuses]
    <3>1. WantsFix(w) => FixOf[work[w].bead] \in Beads
        BY WorkConfig DEF WantsFix
    <3> QED
        BY <1>4, <3>1 DEF CreateFix, Statuses
  <2>2. \/ work' = [work EXCEPT ![w].pc = "link"]
        \/ work' = [work EXCEPT ![w].pc = "count"]
      BY <1>4 DEF CreateFix
  <2>3. work' \in [Workers -> WorkerRecords(pcs)]
    <3>1. ASSUME NEW next \in pcs, work' = [work EXCEPT ![w].pc = next]
          PROVE  work' \in [Workers -> WorkerRecords(pcs)]
        BY <1>1, <3>1
    <3>2. "link" \in pcs /\ "count" \in pcs
        OBVIOUS
    <3> HIDE DEF WorkerRecords
    <3> QED
        BY <2>2, <3>1, <3>2
  <2> QED
      BY <1>4, <2>1, <2>3 DEF CreateFix
<1>5. CASE LinkFix(w)
  <2>1. needs' \subseteq Beads \X Beads
      BY <1>5 DEF LinkFix
  <2>2. work' \in [Workers -> WorkerRecords(pcs)]
      BY <1>1, <1>5 DEF LinkFix
  <2> QED
      BY <1>5, <2>1, <2>2 DEF LinkFix
<1>6. CASE CountFailure(w)
  <2>1. attempts' \in [Beads -> Nat]
      BY <1>6 DEF CountFailure, Increment
  <2>2. work' \in [Workers -> WorkerRecords(pcs)]
      BY <1>1, <1>6 DEF CountFailure
  <2> QED
      BY <1>6, <2>1, <2>2 DEF CountFailure
<1>7. CASE PassGate(w)
  <2>1. attempts' \in [Beads -> Nat]
      BY <1>7 DEF PassGate, Reset
  <2>2. work' \in [Workers -> WorkerRecords(pcs)]
      BY <1>1, <1>7 DEF PassGate
  <2> QED
      BY <1>7, <2>1, <2>2 DEF PassGate
<1>8. CASE CloseBead(w)
  <2>1. status' \in [Beads -> Statuses]
      BY <1>8, MarkTypes DEF CloseBead, Statuses
  <2>2. work' \in [Workers -> WorkerRecords(pcs)]
      BY <1>1, <1>8 DEF CloseBead
  <2> QED
      BY <1>8, <2>1, <2>2 DEF CloseBead
<1> QED
    BY <1>2, <1>3, <1>4, <1>5, <1>6, <1>7, <1>8 DEF Finish
-----------------------------------------------------------------------------
(* What a worker on a bead leaves alone *)

\* A call changes the status of its own bead only, and creating leaves one that exists.
LEMMA EffectStatus ==
    ASSUME WorkTypeOK, NEW c \in BdCalls, Effect(c), NEW b \in Beads
    PROVE  \/ status'[b] = status[b]
           \/ b = c.bead /\ c.kind \in {"set", "mark"} /\ status'[b] = c.to
           \/ status[b] = "absent" /\ status'[b] = "open"
BY DEF Effect, WorkTypeOK, BdCalls

\* What a call does to the record of its worker.
LEMMA NextCallForms ==
    ASSUME NEW w \in Workers, NextCall(w)
    PROVE  LET call == Head(work[w].todo)
               rest == Tail(work[w].todo)
               moved == work[w].moved \/ (call.kind = "set" /\ call.bead = work[w].bead)
           IN  /\ work[w].todo # <<>>
               /\ \/ /\ Effect(call)
                     /\ work' = [work EXCEPT ![w].todo = rest, ![w].moved = moved]
                  \/ /\ MayFail(call) /\ call.kind = "mark" /\ UNCHANGED bd
                     /\ work' = [work EXCEPT ![w].todo = rest]
                  \/ /\ MayFail(call) /\ call.kind # "mark" /\ UNCHANGED bd
                     /\ work' = [work EXCEPT ![w].pc = "failed", ![w].todo = <<>>]
<1> DEFINE call == Head(work[w].todo)
<1>1. CASE Effect(call)
           /\ work' = [work EXCEPT ![w].todo = Tail(@), ![w].moved =
                        @ \/ (call.kind = "set" /\ call.bead = work[w].bead)]
    BY <1>1 DEF NextCall
<1>2. CASE MayFail(call) /\ UNCHANGED bd
           /\ work' = IF call.kind = "mark" THEN [work EXCEPT ![w].todo = Tail(@)]
                      ELSE [work EXCEPT ![w].pc = "failed", ![w].todo = <<>>]
    BY <1>2 DEF NextCall
<1> QED
    BY <1>1, <1>2 DEF NextCall

\* What the end of a run does to the record of its worker.
LEMMA RunEndsForms ==
    ASSUME NEW w \in Workers, RunEnds(w)
    PROVE  \E a \in Answers[work[w].bead] \cup {NoAnswer}, gate \in BOOLEAN : \E todo :
              /\ todo = IF a = NoAnswer THEN <<>> ELSE Calls(work[w].bead, a)
              /\ gate = (a # NoAnswer /\ GateFails(a))
              /\ work' = [work EXCEPT ![w].pc = "apply", ![w].answer = a, ![w].todo = todo,
                                      ![w].gate = gate]
<1>1. PICK a \in Answers[work[w].bead] \cup {NoAnswer} :
           work' = [work EXCEPT ![w].pc = "apply", ![w].answer = a,
                      ![w].todo = IF a = NoAnswer THEN <<>> ELSE Calls(work[w].bead, a),
                      ![w].gate = a # NoAnswer /\ GateFails(a)]
    BY DEF RunEnds
<1> DEFINE t == IF a = NoAnswer THEN <<>> ELSE Calls(work[w].bead, a)
           g == a # NoAnswer /\ GateFails(a)
<1>2. work' = [work EXCEPT ![w].pc = "apply", ![w].answer = a, ![w].todo = t, ![w].gate = g]
    BY <1>1
<1>3. g \in BOOLEAN
    OBVIOUS
<1>4. \E todo : todo = t
    OBVIOUS
<1>5. PICK todo, gate : todo = t /\ gate = g
    BY <1>4
<1>6. /\ todo = IF a = NoAnswer THEN <<>> ELSE Calls(work[w].bead, a)
      /\ gate = (a # NoAnswer /\ GateFails(a))
    BY <1>5
<1>7. gate \in BOOLEAN
    BY <1>3, <1>5
<1> HIDE DEF t, g
<1>8. work' = [work EXCEPT ![w].pc = "apply", ![w].answer = a, ![w].todo = todo,
                           ![w].gate = gate]
    BY <1>2, <1>5
<1> QED
    BY <1>6, <1>7, <1>8

LEMMA WorkFrame ==
    ASSUME NEW pcs, WorkTypeOK, work \in [Workers -> WorkerRecords(pcs)], NEW w \in Workers,
           NEW then \in {"next", "settle"},
           RunFails(w) \/ RunEnds(w) \/ RunIsCut(w) \/ Finish(w, then)
    PROVE  /\ UNCHANGED opts
           /\ \A v \in Workers \ {w} : work'[v] = work[v]
           /\ work'[w].bead = work[w].bead
           /\ work[w].pc \in {"run", "apply", "settle", "link", "count", "close"}
           /\ work'[w].pc \in Busy \ {"run"}
           /\ needs \subseteq needs'
           /\ work'[w].pc = "link" /\ work[w].bead \in Beads => FixOf[work[w].bead] \in Beads
           /\ \A d \in Beads : status[d] # "absent" => status'[d] # "absent"
<1> USE DEF Busy, WorkTypeOK
<1>1. /\ work[w] \in WorkerRecords(pcs) /\ status \in [Beads -> Statuses]
    OBVIOUS
<1>2. ASSUME NEW d, NEW to, MarkIfUpdating(d, to), to # "absent"
      PROVE  \A e \in Beads : status[e] # "absent" => status'[e] # "absent"
    BY <1>2 DEF MarkIfUpdating, Mark
<1>3. CASE RunFails(w)
    BY <1>2, <1>3 DEF RunFails, WorkerRecords
<1>4. CASE RunEnds(w)
  <2>1. PICK a \in Answers[work[w].bead] \cup {NoAnswer}, gate \in BOOLEAN : \E todo :
              /\ todo = IF a = NoAnswer THEN <<>> ELSE Calls(work[w].bead, a)
              /\ gate = (a # NoAnswer /\ GateFails(a))
              /\ work' = [work EXCEPT ![w].pc = "apply", ![w].answer = a, ![w].todo = todo,
                                      ![w].gate = gate]
      BY <1>4, RunEndsForms
  <2>2. /\ \A v \in Workers \ {w} : work'[v] = work[v]
        /\ work'[w].bead = work[w].bead
        /\ work'[w].pc = "apply"
      BY <2>1 DEF WorkerRecords
  <2> QED
      BY <1>4, <2>2 DEF RunEnds, bd
<1>5. CASE RunIsCut(w)
    BY <1>5 DEF RunIsCut, WorkerRecords, bd
<1>6. CASE Apply(w)
  <2> DEFINE call == Head(work[w].todo)
             rest == Tail(work[w].todo)
             moved == work[w].moved \/ (call.kind = "set" /\ call.bead = work[w].bead)
  <2>1. /\ work[w].todo # <<>>
        /\ \/ /\ Effect(call)
              /\ work' = [work EXCEPT ![w].todo = rest, ![w].moved = moved]
           \/ /\ UNCHANGED bd
              /\ \/ work' = [work EXCEPT ![w].todo = rest]
                 \/ work' = [work EXCEPT ![w].pc = "failed", ![w].todo = <<>>]
      BY <1>6, NextCallForms DEF Apply
  <2>2. UNCHANGED opts /\ work[w].pc = "apply"
      BY <1>6 DEF Apply, NextCall
  <2>3. call \in BdCalls
      BY <1>1, <2>1 DEF WorkerRecords
  <2>4. \A d \in Beads : status[d] # "absent" => status'[d] # "absent"
    <3>1. CASE Effect(call)
      <4>1. call.kind \in {"set", "mark"} => call.to # "absent"
          BY <2>3 DEF BdCalls
      <4> QED
          BY <2>3, <3>1, <4>1, EffectStatus
    <3>2. CASE UNCHANGED bd
        BY <3>2 DEF bd
    <3> QED
        BY <2>1, <3>1, <3>2
  <2>6. needs \subseteq needs'
      BY <2>1 DEF Effect, bd
  <2>5. /\ \A v \in Workers \ {w} : work'[v] = work[v]
        /\ work'[w].bead = work[w].bead
        /\ work'[w].pc \in {"apply", "failed"}
    <3> HIDE DEF call, rest, moved
    <3> QED
        BY <2>1, <2>2 DEF WorkerRecords
  <2> QED
      BY <2>2, <2>4, <2>5, <2>6
<1>7. CASE Judge(w, then)
  <2>1. \A d \in Beads : status[d] # "absent" => status'[d] # "absent"
      BY <1>2, <1>7 DEF Judge
  <2>2. /\ \A v \in Workers \ {w} : work'[v] = work[v]
        /\ work'[w].bead = work[w].bead
        /\ work'[w].pc = then
    <3>1. \E moved : \/ work' = [work EXCEPT ![w].pc = then, ![w].gate = TRUE, ![w].moved = moved]
                    \/ work' = [work EXCEPT ![w].pc = then]
        BY <1>7 DEF Judge
    <3> QED
        BY <3>1 DEF WorkerRecords
  <2> QED
      BY <1>7, <2>1, <2>2 DEF Judge
<1>8. CASE CreateFix(w)
  <2>1. CASE WantsFix(w) /\ work' = [work EXCEPT ![w].pc = "link"]
             /\ status' = [status EXCEPT ![FixOf[work[w].bead]] = "open"]
    <3>1. work[w].bead \in Beads => FixOf[work[w].bead] \in Beads
        BY <2>1, WorkConfig DEF WantsFix
    <3> QED
        BY <1>8, <2>1, <3>1 DEF CreateFix, WorkerRecords
  <2>2. CASE work' = [work EXCEPT ![w].pc = "count"] /\ UNCHANGED status
      BY <1>8, <2>2 DEF CreateFix, WorkerRecords
  <2> QED
      BY <1>8, <2>1, <2>2 DEF CreateFix
<1>9. CASE LinkFix(w) \/ CountFailure(w) \/ PassGate(w)
    BY <1>9 DEF LinkFix, CountFailure, PassGate, WorkerRecords, bd
<1>10. CASE CloseBead(w)
    BY <1>2, <1>10 DEF CloseBead, WorkerRecords
<1> QED
    BY <1>3, <1>4, <1>5, <1>6, <1>7, <1>8, <1>9, <1>10 DEF Finish
-----------------------------------------------------------------------------
(* Failed gates *)

\* Every element of a sequence but the first is in its tail, one place earlier.
LEMMA TailElements ==
    ASSUME NEW S, NEW s \in Seq(S), s # <<>>
    PROVE  /\ Head(s) \in S /\ Tail(s) \in Seq(S)
           /\ \A k \in DOMAIN Tail(s) : k \in Nat /\ k + 1 \in DOMAIN s /\ Tail(s)[k] = s[k + 1]
           /\ \A k \in DOMAIN s : \/ k = 1 /\ s[k] = Head(s)
                                  \/ k \in Int /\ k - 1 \in DOMAIN Tail(s) /\ s[k] = Tail(s)[k - 1]
OBVIOUS

\* A call worked off a list with a mark ahead of it.
LEMMA MarkSteps ==
    ASSUME NEW todo \in Seq(BdCalls), todo # <<>>, NEW b,
           NEW j \in DOMAIN todo, todo[j].kind = "mark", todo[j].bead = b,
           todo[j].to \in {"blocked", "review"},
           \A k \in DOMAIN todo : k > j => todo[k].kind \in {"create", "link"}
    PROVE  \/ /\ Head(todo) = todo[j] /\ Tail(todo) \in Seq(NewCalls)
           \/ \E i \in DOMAIN Tail(todo) :
                 /\ Tail(todo)[i].kind = "mark" /\ Tail(todo)[i].bead = b
                 /\ Tail(todo)[i].to \in {"blocked", "review"}
                 /\ \A k \in DOMAIN Tail(todo) :
                       k > i => Tail(todo)[k].kind \in {"create", "link"}
<1> DEFINE rest == Tail(todo)
<1>1. /\ rest \in Seq(BdCalls)
      /\ \A k \in DOMAIN rest : k \in Nat /\ k + 1 \in DOMAIN todo /\ rest[k] = todo[k + 1]
      /\ \A k \in DOMAIN todo : \/ k = 1 /\ todo[k] = Head(todo)
                                \/ k \in Int /\ k - 1 \in DOMAIN rest /\ todo[k] = rest[k - 1]
    BY TailElements
<1> HIDE DEF rest
<1>2. CASE j = 1
  <2>1. Head(todo) = todo[j]
      BY <1>2
  <2>2. \A k \in DOMAIN rest : rest[k] \in NewCalls
    <3>1. \A k \in DOMAIN rest : rest[k] \in BdCalls
        BY <1>1
    <3>2. \A k \in DOMAIN rest : rest[k].kind \in {"create", "link"}
        BY <1>1, <1>2
    <3> QED
        BY <3>1, <3>2 DEF NewCalls
  <2>3. rest \in Seq(NewCalls)
      BY <1>1, <2>2
  <2> QED
      BY <2>1, <2>3 DEF rest
<1>3. CASE j # 1
  <2>1. j \in Int /\ j - 1 \in DOMAIN rest /\ todo[j] = rest[j - 1]
      BY <1>1, <1>3
  <2>2. \A k \in DOMAIN rest : k > j - 1 => rest[k].kind \in {"create", "link"}
      BY <1>1, <2>1
  <2> QED
      BY <2>1, <2>2 DEF rest
<1> QED
    BY <1>2, <1>3

\* The steps of a worker keep its failed gate marked, as long as the bead exists.
LEMMA GateWork ==
    ASSUME NEW pcs, WorkTypeOK, work \in [Workers -> WorkerRecords(pcs)],
           NEW w \in Workers, GateKept(w),
           NEW b \in Beads, work[w].bead = b, status[b] # "absent",
           NEW then \in {"next", "settle"},
           RunFails(w) \/ RunEnds(w) \/ RunIsCut(w) \/ Finish(w, then)
    PROVE  GateKept(w)'
<1>0. work'[w].bead = b /\ UNCHANGED opts
    BY WorkFrame
<1>1. /\ work[w] \in WorkerRecords(pcs) /\ work[w].todo \in Seq(BdCalls)
      /\ status \in [Beads -> Statuses]
    BY DEF WorkerRecords, WorkTypeOK
<1>2. CASE RunFails(w)
  <2>1. work[w].pc = "run" /\ work'[w].pc = "failed"
      BY <1>1, <1>2 DEF RunFails, WorkerRecords
  <2> QED
      BY <2>1 DEF GateKept
<1>3. CASE RunEnds(w)
  <2>1. PICK a \in Answers[work[w].bead] \cup {NoAnswer}, gate \in BOOLEAN : \E todo :
              /\ todo = IF a = NoAnswer THEN <<>> ELSE Calls(work[w].bead, a)
              /\ gate = (a # NoAnswer /\ GateFails(a))
              /\ work' = [work EXCEPT ![w].pc = "apply", ![w].answer = a, ![w].todo = todo,
                                      ![w].gate = gate]
      BY <1>3, RunEndsForms
  <2>2. PICK todo :
              /\ todo = IF a = NoAnswer THEN <<>> ELSE Calls(b, a)
              /\ gate = (a # NoAnswer /\ GateFails(a))
              /\ work' = [work EXCEPT ![w].pc = "apply", ![w].answer = a, ![w].todo = todo,
                                      ![w].gate = gate]
      BY <2>1
  <2>3. work'[w].pc = "apply" /\ work'[w].todo = todo /\ work'[w].gate = gate
      BY <1>1, <2>2 DEF WorkerRecords
  <2>4. ASSUME gate, opts.autoUpdate
        PROVE  MarkAhead(w)'
    <3>1. a \in Actions /\ GateFails(a) /\ todo = Calls(b, a)
        BY <2>2, <2>4, WorkConfig
    <3>2. \E j \in DOMAIN todo :
              /\ todo[j] = [kind |-> "mark", bead |-> b,
                            to |-> IF a.review THEN "review" ELSE "blocked"]
              /\ \A k \in DOMAIN todo : k > j => todo[k].kind \in {"create", "link"}
        BY <2>4, <3>1, CallsMark
    <3>3. \E j \in DOMAIN todo :
              /\ todo[j].kind = "mark" /\ todo[j].bead = b /\ todo[j].to \in {"blocked", "review"}
              /\ \A k \in DOMAIN todo : k > j => todo[k].kind \in {"create", "link"}
        BY <3>2
    <3> QED
        BY <1>0, <2>3, <3>3 DEF MarkAhead
  <2> QED
      BY <1>0, <2>3, <2>4 DEF GateKept
<1>4. CASE RunIsCut(w)
  <2>1. work[w].pc = "run" /\ work'[w].pc = "apply" /\ work'[w].gate = work[w].gate
      BY <1>1, <1>4 DEF RunIsCut, WorkerRecords
  <2> QED
      BY <2>1 DEF GateKept
<1>5. CASE Apply(w)
  <2> DEFINE call == Head(work[w].todo)
             rest == Tail(work[w].todo)
             moved == work[w].moved \/ (call.kind = "set" /\ call.bead = work[w].bead)
  <2>1. /\ work[w].pc = "apply" /\ work[w].todo # <<>>
        /\ \/ /\ Effect(call)
              /\ work' = [work EXCEPT ![w].todo = rest, ![w].moved = moved]
           \/ /\ MayFail(call) /\ call.kind = "mark" /\ UNCHANGED bd
              /\ work' = [work EXCEPT ![w].todo = rest]
           \/ /\ MayFail(call) /\ call.kind # "mark" /\ UNCHANGED bd
              /\ work' = [work EXCEPT ![w].pc = "failed", ![w].todo = <<>>]
      BY <1>5, NextCallForms DEF Apply
  <2>2. call \in BdCalls /\ rest \in Seq(BdCalls)
      BY <1>1, <2>1, TailElements
  <2>3. MarkAhead(w) => \/ /\ call.kind = "mark" /\ call.bead = b
                           /\ call.to \in {"blocked", "review"} /\ rest \in Seq(NewCalls)
                        \/ \E i \in DOMAIN rest :
                              /\ rest[i].kind = "mark" /\ rest[i].bead = b
                              /\ rest[i].to \in {"blocked", "review"}
                              /\ \A k \in DOMAIN rest : k > i => rest[k].kind \in {"create", "link"}
    <3> SUFFICES ASSUME NEW j \in DOMAIN work[w].todo,
                        work[w].todo[j].kind = "mark", work[w].todo[j].bead = b,
                        work[w].todo[j].to \in {"blocked", "review"},
                        \A k \in DOMAIN work[w].todo :
                            k > j => work[w].todo[k].kind \in {"create", "link"}
                 PROVE  \/ call = work[w].todo[j] /\ rest \in Seq(NewCalls)
                        \/ \E i \in DOMAIN rest :
                              /\ rest[i].kind = "mark" /\ rest[i].bead = b
                              /\ rest[i].to \in {"blocked", "review"}
                              /\ \A k \in DOMAIN rest : k > i => rest[k].kind \in {"create", "link"}
      <4> HIDE DEF call, rest
      <4> QED
          BY DEF MarkAhead
    <3> QED
      <4> DEFINE todo == work[w].todo
      <4>1. todo \in Seq(BdCalls) /\ todo # <<>> /\ j \in DOMAIN todo
          BY <1>1, <2>1
      <4>2. /\ todo[j].kind = "mark" /\ todo[j].bead = b /\ todo[j].to \in {"blocked", "review"}
            /\ \A k \in DOMAIN todo : k > j => todo[k].kind \in {"create", "link"}
          OBVIOUS
      <4> HIDE DEF todo
      <4>3. \/ Head(todo) = todo[j] /\ Tail(todo) \in Seq(NewCalls)
            \/ \E i \in DOMAIN Tail(todo) :
                  /\ Tail(todo)[i].kind = "mark" /\ Tail(todo)[i].bead = b
                  /\ Tail(todo)[i].to \in {"blocked", "review"}
                  /\ \A k \in DOMAIN Tail(todo) :
                        k > i => Tail(todo)[k].kind \in {"create", "link"}
          BY <4>1, <4>2, MarkSteps
      <4> QED
          BY <4>3 DEF todo
  <2>4. work[w].todo \in Seq(NewCalls) => call.kind \in {"create", "link"} /\ rest \in Seq(NewCalls)
    <3>1. work[w].todo \in Seq(NewCalls) => call \in NewCalls /\ rest \in Seq(NewCalls)
        BY <2>1, TailElements
    <3> QED
        BY <3>1 DEF NewCalls
  <2> HIDE DEF call, rest, moved
  <2>5. CASE work' = [work EXCEPT ![w].pc = "failed", ![w].todo = <<>>]
    <3>1. work'[w].pc = "failed"
        BY <1>1, <2>5 DEF WorkerRecords
    <3> QED
        BY <3>1 DEF GateKept
  <2>6. CASE /\ \/ Effect(call)
                \/ MayFail(call) /\ call.kind = "mark" /\ UNCHANGED bd
             /\ \/ work' = [work EXCEPT ![w].todo = rest, ![w].moved = moved]
                \/ work' = [work EXCEPT ![w].todo = rest]
    <3>1. work'[w].pc = "apply" /\ work'[w].todo = rest /\ work'[w].gate = work[w].gate
        BY <1>1, <2>1, <2>6 DEF WorkerRecords
    <3> SUFFICES ASSUME work[w].gate, opts.autoUpdate, ~opts.faults
                 PROVE  MarkAhead(w)' \/ (Gated(w)' /\ rest \in Seq(NewCalls))
        BY <1>0, <3>1 DEF GateKept
    <3>2. Gated(w)' <=> status'[b] \in {"blocked", "review"}
        BY <1>0 DEF Gated
    <3>3. CASE \E i \in DOMAIN rest :
                  /\ rest[i].kind = "mark" /\ rest[i].bead = b
                  /\ rest[i].to \in {"blocked", "review"}
                  /\ \A k \in DOMAIN rest : k > i => rest[k].kind \in {"create", "link"}
        BY <1>0, <3>1, <3>3 DEF MarkAhead
    <3>4. CASE /\ call.kind = "mark" /\ call.bead = b
               /\ call.to \in {"blocked", "review"} /\ rest \in Seq(NewCalls)
      <4>1. ~MayFail(call)
          BY <3>4 DEF MayFail
      <4>2. status' = [status EXCEPT ![b] = call.to]
          BY <2>6, <3>4, <4>1 DEF Effect
      <4> QED
          BY <1>1, <3>2, <3>4, <4>2
    <3>5. CASE Gated(w) /\ call.kind \in {"create", "link"} /\ rest \in Seq(NewCalls)
      <4>1. status'[b] = status[b]
          BY <1>1, <2>2, <2>6, <3>5 DEF Effect, BdCalls
      <4> QED
          BY <3>2, <3>5, <4>1 DEF Gated
    <3> QED
        BY <2>1, <2>3, <2>4, <3>3, <3>4, <3>5 DEF GateKept
  <2> QED
      BY <2>1, <2>5, <2>6
<1>6. CASE Judge(w, then)
  <2>1. work[w].pc = "apply" /\ ~MarkAhead(w) /\ work'[w].pc = then
    <3>1. work[w].todo = <<>> /\ work[w].pc = "apply"
        BY <1>6 DEF Judge
    <3>2. work'[w].pc = then
      <4>1. \E moved : \/ work' = [work EXCEPT ![w].pc = then, ![w].gate = TRUE, ![w].moved = moved]
                       \/ work' = [work EXCEPT ![w].pc = then]
          BY <1>6 DEF Judge
      <4> QED
          BY <1>1, <4>1 DEF WorkerRecords
    <3> QED
        BY <3>1, <3>2 DEF MarkAhead
  <2>2. CASE work[w].answer = NoAnswer /\ opts.requireActions
    <3>1. opts.autoUpdate /\ ~opts.faults => status' = [status EXCEPT ![b] = "blocked"]
        BY <1>6, <2>2 DEF Judge, MarkIfUpdating, Mark
    <3>2. opts.autoUpdate /\ ~opts.faults => Gated(w)'
        BY <1>0, <1>1, <3>1 DEF Gated
    <3> QED
        BY <1>0, <2>1, <3>2 DEF GateKept
  <2>3. CASE ~(work[w].answer = NoAnswer /\ opts.requireActions)
    <3>1. UNCHANGED status /\ work' = [work EXCEPT ![w].pc = then]
        BY <1>6, <2>3 DEF Judge
    <3>2. work'[w].gate = work[w].gate
        BY <1>1, <3>1 DEF WorkerRecords
    <3>3. Gated(w)' <=> Gated(w)
        BY <1>0, <3>1 DEF Gated
    <3> QED
        BY <1>0, <2>1, <3>2, <3>3 DEF GateKept
  <2> QED
      BY <2>2, <2>3
<1>7. CASE CreateFix(w)
  <2>1. /\ work[w].pc = "settle" /\ work[w].gate /\ work'[w].pc \in {"link", "count"}
        /\ work'[w].gate = work[w].gate
    <3>1. CASE work' = [work EXCEPT ![w].pc = "link"]
        BY <1>1, <1>7, <3>1 DEF CreateFix, WorkerRecords
    <3>2. CASE work' = [work EXCEPT ![w].pc = "count"]
        BY <1>1, <1>7, <3>2 DEF CreateFix, WorkerRecords
    <3> QED
        BY <1>7, <3>1, <3>2 DEF CreateFix
  <2>2. status'[b] = status[b]
    <3>1. CASE WantsFix(w) /\ status' = [status EXCEPT ![FixOf[work[w].bead]] = "open"]
      <4>1. FixOf[work[w].bead] # b
          BY <3>1 DEF WantsFix
      <4> QED
          BY <1>1, <3>1, <4>1
    <3>2. CASE UNCHANGED status
        BY <3>2
    <3> QED
        BY <1>7, <3>1, <3>2 DEF CreateFix
  <2>3. Gated(w)' <=> Gated(w)
      BY <1>0, <2>2 DEF Gated
  <2> QED
      BY <1>0, <2>1, <2>3 DEF GateKept
<1>8. CASE LinkFix(w)
  <2>1. /\ work[w].pc = "link" /\ work'[w].pc = "count" /\ work'[w].gate = work[w].gate
        /\ UNCHANGED status
      BY <1>1, <1>8 DEF LinkFix, WorkerRecords
  <2>3. Gated(w)' <=> Gated(w)
      BY <1>0, <2>1 DEF Gated
  <2> QED
      BY <1>0, <2>1, <2>3 DEF GateKept
<1>9. CASE CountFailure(w) \/ PassGate(w) \/ CloseBead(w)
  <2>1. work'[w].pc \in {"ok", "failed", "stopped", "close"}
      BY <1>1, <1>9 DEF CountFailure, PassGate, CloseBead, WorkerRecords
  <2> QED
      BY <2>1 DEF GateKept
<1> QED
    BY <1>2, <1>3, <1>4, <1>5, <1>6, <1>7, <1>8, <1>9 DEF Finish
=============================================================================
