----------------------------- MODULE RunnerProofs -----------------------------
(***************************************************************************)
(* Proofs about Runner, for all durations, configurations and numbers of   *)
(* writes, saves and halves per read: types, and that a call of Exec keeps *)
(* the promise of CodexCall however the ends of a call race.               *)
(***************************************************************************)
EXTENDS Runner, TLAPS

-----------------------------------------------------------------------------
(* Helpers *)

LEMMA LaterGrows ==
    ASSUME NEW n \in Ages \cup {Unset}
    PROVE  /\ Later(n) \in Ages \cup {Unset} /\ n <= Later(n)
           /\ n \in Ages => Later(n) \in Ages
           /\ \A m \in Ages \cup {Unset} : m <= n => Later(m) <= Later(n)
BY HorizonIsFar DEF Ages, Unset, Later

LEMMA SilenceTypes ==
    ASSUME quiet \in Ages, NEW newer
    PROVE  Silence(newer) \in Ages
BY HorizonIsFar DEF Silence, Ages

LEMMA OptionTypes ==
    ASSUME opts \in Options
    PROVE  opts.idle \in Nat /\ opts.watch \in BOOLEAN /\ opts.old \in BOOLEAN
BY OptionsAreConfigurations DEF Configuration

\* A read takes a part of what is in a pipe.
LEMMA Remains ==
    ASSUME NEW S, NEW s \in Seq(S), NEW n \in 1 .. Len(s)
    PROVE  SubSeq(s, n + 1, Len(s)) \in Seq(S)
OBVIOUS

\* Killing the child ends it, or finds it gone.
LEMMA Kills ==
    ASSUME child # "none", Kill, Positions,
           child \in {"running", "exited", "reaped"}, exit \in {"none", "zero", "nonzero", "killed"}
    PROVE  /\ child' \in {"exited", "reaped"} /\ (child' = "reaped" <=> child = "reaped")
           /\ exit' \in {"zero", "nonzero", "killed"}
           /\ child = "reaped" => exit' = exit
BY DEF Kill, Positions, process

\* What the ticker does: it kills, or leaves the child alone.
LEMMA Ticks ==
    ASSUME RunnerInv, SelectTick
    PROVE  /\ pc = "select" /\ UNCHANGED <<opts, pc, branch, verdict, ctx, pipes, version, fileAge>>
           /\ \/ Kill
              \/ UNCHANGED process /\ settled' = settled
           /\ \/ seen' = version /\ seen' # seen /\ stable' = 0
              \/ seen' = seen /\ stable' = stable
           /\ quiet' \in Ages /\ settled' \in BOOLEAN /\ idled' \in BOOLEAN
           /\ settled' => settled \/ Final
<1> DEFINE looked == opts.watch /\ version > 0
           newer == looked /\ version > seen
           rested == IF newer THEN 0 ELSE stable
           complete == looked /\ rested >= Settle /\ Silence(newer) >= Settle
           idle == opts.idle > 0 /\ ~idled /\ Silence(newer) >= opts.idle
           waits == marked /\ Silence(newer) >= FollowUpIdle
<1>1. /\ version \in Nat /\ seen \in 0 .. version /\ stable \in Ages \cup {Unset}
      /\ fileAge \in Ages /\ quiet \in Ages /\ settled \in BOOLEAN /\ idled \in BOOLEAN
      /\ Settle \in Nat \ {0}
    BY BoundsAreNatural, DurationsAreTicks DEF RunnerInv, TypeOK
<1>2. /\ pc = "select" /\ UNCHANGED <<opts, pc, branch, verdict, ctx, pipes, version, fileAge>>
      /\ seen' = (IF newer THEN version ELSE seen)
      /\ stable' = rested
      /\ quiet' = Silence(newer)
      /\ settled' = (settled \/ complete)
      /\ idled' = (idled \/ idle)
      /\ IF complete \/ idle \/ waits THEN Kill ELSE UNCHANGED process
    BY DEF SelectTick
<1>3. Silence(newer) \in Ages
    BY <1>1, SilenceTypes
<1>4. seen = version => stable <= fileAge
    BY DEF RunnerInv, OutputRests
<1>5. complete => Final
  <2>1. CASE newer
      BY <1>1, <2>1
  <2>2. CASE ~newer
      BY <1>1, <1>4, <2>2, HorizonIsFar DEF Final, Ages, Unset
  <2> QED
      BY <2>1, <2>2
<1>6. Kill \/ (UNCHANGED process /\ ~complete)
    BY <1>2
<1>7. \/ seen' = version /\ seen' # seen /\ stable' = 0
      \/ seen' = seen /\ stable' = stable
    BY <1>1, <1>2
<1> HIDE DEF complete, idle, waits
<1>8. /\ settled' \in BOOLEAN /\ idled' \in BOOLEAN
      /\ settled' => settled \/ complete
      /\ ~complete => settled' = settled
    BY <1>1, <1>2
<1> QED
    BY <1>2, <1>3, <1>5, <1>6, <1>7, <1>8
-----------------------------------------------------------------------------
(* Types *)

LEMMA InitHolds == Init => RunnerInv
<1> SUFFICES ASSUME Init PROVE RunnerInv
    OBVIOUS
<1>1. opts.old \in BOOLEAN
    BY OptionTypes DEF Init
<1>2. TypeOK
  <2>1. /\ version \in 0 .. MaxSaves + 1 /\ seen \in 0 .. version
        /\ writes \in 0 .. MaxWrites
      BY <1>1, BoundsAreNatural DEF Init
  <2>2. stable \in Ages \cup {Unset} /\ quiet \in Ages /\ fileAge \in Ages
      BY <1>1, HorizonIsFar DEF Init, Ages
  <2>3. unread \in [Pipes -> Seq({"text", "head", "tail"})]
    <3>1. <<>> \in Seq({"text", "head", "tail"})
        OBVIOUS
    <3> QED
        BY <3>1 DEF Init
  <2> QED
      BY <2>1, <2>2, <2>3 DEF Init, TypeOK
<1>3. Positions
    BY DEF Init, Positions
<1>4. OutputRests
    BY <1>1, HorizonIsFar DEF Init, OutputRests, Unset
<1> QED
    BY <1>2, <1>3, <1>4 DEF RunnerInv

LEMMA StepTypes ==
    ASSUME RunnerInv, [Next]_vars
    PROVE  TypeOK'
<1> USE DEF TypeOK, process, pipes, file, flags
<1>1. TypeOK /\ Positions
    BY DEF RunnerInv
<1>2. CASE Tick
    BY <1>1, <1>2, LaterGrows DEF Tick
<1>3. CASE ContextDone
    BY <1>1, <1>3 DEF ContextDone
<1>4. ASSUME NEW p \in Pipes, ChildWrites(p) PROVE TypeOK'
  <2>1. unread' \in [Pipes -> Seq({"text", "head", "tail"})]
    <3>1. PICK t \in Texts(p) : unread' = [unread EXCEPT ![p] = @ \o t]
        BY <1>4 DEF ChildWrites
    <3>2. t = <<"text">> \/ t = <<"head", "tail">>
        BY <3>1 DEF Texts
    <3>3. t \in Seq({"text", "head", "tail"})
      <4>1. /\ <<"text">> \in Seq({"text", "head", "tail"})
            /\ <<"head", "tail">> \in Seq({"text", "head", "tail"})
          OBVIOUS
      <4> QED
          BY <3>2, <4>1
    <3> QED
        BY <1>1, <3>1, <3>3
  <2>2. writes' \in 0 .. MaxWrites
      BY <1>1, <1>4, BoundsAreNatural DEF ChildWrites
  <2> QED
      BY <1>1, <1>4, <2>1, <2>2 DEF ChildWrites, Idle
<1>5. CASE ChildSaves
  <2>1. version' = version + 1 /\ version' \in 0 .. MaxSaves + 1 /\ fileAge' = 0 /\ seen' = seen
      BY <1>1, <1>5, BoundsAreNatural DEF ChildSaves
  <2>2. seen' \in 0 .. version' /\ fileAge' \in Ages
      BY <1>1, <2>1, BoundsAreNatural, HorizonIsFar DEF Ages
  <2> QED
      BY <1>1, <1>5, <2>1, <2>2 DEF ChildSaves, Idle
<1>6. CASE ChildExits
    BY <1>1, <1>6 DEF ChildExits, Idle
<1>7. CASE WaitReturns
  <2>1. /\ child = "exited" /\ child' = "reaped" /\ readable' \in BOOLEAN
        /\ UNCHANGED <<opts, pc, branch, verdict, exit, ctx, unread, reader, writes, marked,
                       file, quiet, flags>>
      BY <1>7 DEF WaitReturns, Idle
  <2>2. \A p \in Pipes : reader'[p] = "none" <=> pc' \in {"start", "report"} \/ child' = "none"
      BY <1>1, <2>1
  <2> QED
      BY <1>1, <2>1, <2>2
<1>8. CASE CommandContextKills
    BY <1>1, <1>8 DEF CommandContextKills, Kill, Idle
<1>9. ASSUME NEW p \in Pipes, Read(p) PROVE TypeOK'
  <2>1. unread' \in [Pipes -> Seq({"text", "head", "tail"})]
    <3>1. PICK n \in 1 .. ReadMax :
             n <= Len(unread[p]) /\ unread' = [unread EXCEPT ![p] = SubSeq(@, n + 1, Len(@))]
        BY <1>9 DEF Read
    <3>2. unread[p] \in Seq({"text", "head", "tail"}) /\ n \in 1 .. Len(unread[p])
        BY <1>1, <3>1, BoundsAreNatural
    <3> QED
        BY <1>1, <3>1, <3>2, Remains
  <2>2. marked' \in BOOLEAN
      BY <1>9 DEF Read
  <2>3. quiet' \in Ages
      BY <1>9, HorizonIsFar DEF Read, Ages
  <2> QED
      BY <1>1, <1>9, <2>1, <2>2, <2>3 DEF Read
<1>10. ASSUME NEW p \in Pipes, ReadEnds(p) PROVE TypeOK'
    BY <1>1, <1>10 DEF ReadEnds
<1>11. CASE StartFails
    BY <1>1, <1>11 DEF StartFails, Positions
<1>12. CASE Start
    BY <1>1, <1>12 DEF Start, Positions
<1>13. CASE Report
    BY <1>1, <1>13, HorizonIsFar DEF Report, Positions, Ages
<1>14. CASE SelectDone
    BY <1>1, <1>14 DEF SelectDone
<1>15. CASE SelectContext
    BY <1>1, <1>15 DEF SelectContext, Kill
<1>16. CASE SelectTick
  <2>1. /\ pc = "select" /\ UNCHANGED <<opts, pc, branch, verdict, ctx, pipes, version, fileAge>>
        /\ Kill \/ UNCHANGED process
        /\ \/ seen' = version /\ stable' = 0
           \/ seen' = seen /\ stable' = stable
        /\ quiet' \in Ages /\ settled' \in BOOLEAN /\ idled' \in BOOLEAN
      BY <1>16, Ticks
  <2>2. seen' \in 0 .. version' /\ stable' \in Ages \cup {Unset}
      BY <1>1, <2>1, BoundsAreNatural, HorizonIsFar DEF Ages
  <2> QED
      BY <1>1, <2>1, <2>2 DEF Kill, Positions
<1>17. CASE Drain
    BY <1>1, <1>17 DEF Drain
<1>18. CASE Join
  <2>1. Verdict \in {"ok", "follow_up", "idle", "failed", "timeout"}
      BY <1>1 DEF Verdict
  <2> QED
      BY <1>1, <1>18, <2>1 DEF Join, Positions
<1>19. CASE UNCHANGED vars
    BY <1>1, <1>19 DEF vars
<1> QED
    BY <1>2, <1>3, <1>4, <1>5, <1>6, <1>7, <1>8, <1>9, <1>10, <1>11, <1>12, <1>13, <1>14,
       <1>15, <1>16, <1>17, <1>18, <1>19 DEF Next, Exec, Child, Reader, Over
-----------------------------------------------------------------------------
(* Positions of the loop, and the output file *)

LEMMA StepPositions ==
    ASSUME RunnerInv, [Next]_vars
    PROVE  Positions'
<1> USE DEF Positions, process, pipes, file, flags
<1>1. /\ Positions /\ \A p \in Pipes : reader[p] # "none" => pc \notin {"start", "report"}
      /\ child \in {"none", "running", "exited", "reaped"}
      /\ exit \in {"none", "zero", "nonzero", "killed"} /\ "stdout" \in Pipes
    BY DEF RunnerInv, TypeOK, Pipes
<1>2. CASE Tick \/ ContextDone
    BY <1>1, <1>2 DEF Tick, ContextDone
<1>3. CASE Child
    BY <1>1, <1>3 DEF Child, ChildWrites, ChildSaves, ChildExits, Idle
<1>4. CASE WaitReturns
    BY <1>1, <1>4 DEF WaitReturns, Idle
<1>5. CASE CommandContextKills
    BY <1>1, <1>5 DEF CommandContextKills, Kill, Idle
<1>6. CASE \E p \in Pipes : Reader(p)
    BY <1>1, <1>6 DEF Reader, Read, ReadEnds
<1>7. CASE StartFails
    BY <1>1, <1>7 DEF StartFails
<1>8. CASE Start
    BY <1>1, <1>8 DEF Start
<1>9. CASE Report \/ SelectDone \/ Drain
    BY <1>1, <1>9 DEF Report, SelectDone, Drain, Done
<1>10. CASE SelectContext
  <2>1. Kill /\ pc = "select" /\ pc' = "drain" /\ UNCHANGED verdict
      BY <1>10 DEF SelectContext
  <2> QED
      BY <1>1, <2>1, Kills
<1>11. CASE SelectTick
  <2>1. /\ pc = "select" /\ UNCHANGED <<pc, verdict>>
        /\ Kill \/ UNCHANGED process
      BY <1>11, Ticks
  <2>2. CASE Kill
      BY <1>1, <2>1, <2>2, Kills
  <2>3. CASE UNCHANGED process
      BY <1>1, <2>1, <2>3
  <2> QED
      BY <2>1, <2>2, <2>3
<1>12. CASE Join
  <2>1. Verdict # "none"
      BY DEF Verdict
  <2> QED
      BY <1>1, <1>12, <2>1 DEF Join
<1>13. CASE UNCHANGED vars
    BY <1>1, <1>13 DEF vars
<1> QED
    BY <1>2, <1>3, <1>4, <1>5, <1>6, <1>7, <1>8, <1>9, <1>10, <1>11, <1>12, <1>13
    DEF Next, Exec, Over

LEMMA StepRests ==
    ASSUME RunnerInv, [Next]_vars
    PROVE  OutputRests'
<1> USE DEF process, pipes, file, flags
<1>1. /\ seen = version => stable <= fileAge
      /\ settled => child \in {"exited", "reaped"} /\ version > 0 /\ fileAge >= Settle
      /\ version \in Nat /\ seen \in 0 .. version /\ stable \in Ages \cup {Unset}
      /\ fileAge \in Ages /\ settled \in BOOLEAN /\ Settle \in Nat /\ Ages \subseteq Nat
      /\ child \in {"none", "running", "exited", "reaped"}
    BY BoundsAreNatural, DurationsAreTicks DEF RunnerInv, OutputRests, TypeOK, Final, Ages
\* Where nobody touches the file and no child comes back.
<1>2. ASSUME UNCHANGED <<file, settled>>,
             child \in {"exited", "reaped"} => child' \in {"exited", "reaped"}
      PROVE  OutputRests'
    BY <1>1, <1>2 DEF OutputRests, Final
<1>3. CASE Tick
  <2>1. stable' = Later(stable) /\ fileAge' = Later(fileAge) /\ UNCHANGED <<version, seen, settled, child>>
      BY <1>3 DEF Tick
  <2>2. Later(fileAge) \in Ages /\ fileAge <= Later(fileAge)
        /\ (stable <= fileAge => Later(stable) <= Later(fileAge))
      BY <1>1, LaterGrows
  <2>3. (seen = version => stable <= fileAge)'
      BY <1>1, <2>1, <2>2
  <2>4. fileAge >= Settle => fileAge' >= Settle
      BY <1>1, <2>1, <2>2, HorizonIsFar DEF Ages
  <2> QED
      BY <1>1, <2>1, <2>3, <2>4 DEF OutputRests, Final
<1>4. CASE ContextDone
    BY <1>2, <1>4 DEF ContextDone
<1>5. CASE ChildSaves
  <2>1. child = "running" /\ version' = version + 1 /\ UNCHANGED <<seen, settled>>
      BY <1>5 DEF ChildSaves, Idle
  <2> QED
      BY <1>1, <2>1 DEF OutputRests
<1>6. CASE ChildExits \/ \E p \in Pipes : ChildWrites(p)
    BY <1>2, <1>6 DEF ChildExits, ChildWrites, Idle
<1>7. CASE WaitReturns
    BY <1>2, <1>7 DEF WaitReturns, Idle
<1>8. CASE CommandContextKills
    BY <1>2, <1>8 DEF CommandContextKills, Kill, Idle
<1>9. CASE \E p \in Pipes : Reader(p)
    BY <1>2, <1>9 DEF Reader, Read, ReadEnds
<1>10. CASE StartFails \/ Start
    BY <1>2, <1>10 DEF StartFails, Start, RunnerInv, Positions
<1>11. CASE Report \/ SelectDone \/ Drain \/ Join
    BY <1>2, <1>11 DEF Report, SelectDone, Drain, Join
<1>12. CASE SelectContext
    BY <1>2, <1>12 DEF SelectContext, Kill
<1>13. CASE SelectTick
  <2>1. /\ UNCHANGED <<version, fileAge>>
        /\ \/ Kill
           \/ UNCHANGED process /\ settled' = settled
        /\ \/ seen' = version /\ seen' # seen /\ stable' = 0
           \/ seen' = seen /\ stable' = stable
        /\ pc = "select" /\ (settled' => settled \/ Final)
      BY <1>13, Ticks
  <2>2. (seen = version => stable <= fileAge)'
      BY <1>1, <2>1
  <2>3. settled' => Final'
      BY <1>1, <2>1 DEF Final
  <2>4. settled' => child' \in {"exited", "reaped"}
    <3>1. child # "none"
        BY <2>1 DEF RunnerInv, Positions
    <3>2. CASE Kill
        BY <1>1, <3>1, <3>2, Kills DEF RunnerInv, TypeOK
    <3>3. CASE UNCHANGED process /\ settled' = settled
        BY <1>1, <3>3
    <3> QED
        BY <2>1, <3>2, <3>3
  <2> QED
      BY <2>2, <2>3, <2>4 DEF OutputRests
<1>14. CASE UNCHANGED vars
    BY <1>2, <1>14 DEF vars
<1> QED
    BY <1>3, <1>4, <1>5, <1>6, <1>7, <1>8, <1>9, <1>10, <1>11, <1>12, <1>13, <1>14
    DEF Next, Exec, Child, Over

\* What every reachable state of a call satisfies.
THEOREM RunnerInvariant == Spec => []RunnerInv
<1>1. RunnerInv /\ [Next]_vars => RunnerInv'
    BY StepTypes, StepPositions, StepRests DEF RunnerInv
<1> QED
    BY <1>1, InitHolds, PTL DEF Spec

\* Exec and its goroutines keep their types, and goroutines are there exactly while the
\* code says so.
THEOREM TypesKept == Spec => []TypeOK
<1>1. RunnerInv => TypeOK
    BY DEF RunnerInv
<1> QED
    BY <1>1, RunnerInvariant, PTL
-----------------------------------------------------------------------------
(* A call implements CodexCall *)

\* The state of CodexCall, as the instance maps it.
Phase == CASE child = "none" -> "none"
           [] child \in {"running", "exited"} -> "alive"
           [] child = "reaped" -> "gone"

Outcome == IF child = "reaped" THEN exit ELSE "none"

call == <<Phase, Outcome, Final, verdict>>

LEMMA Phases ==
    ASSUME TypeOK
    PROVE  /\ child = "none" => Phase = "none"
           /\ child \in {"running", "exited"} => Phase = "alive"
           /\ child = "reaped" => Phase = "gone"
           /\ Outcome = IF child = "reaped" THEN exit ELSE "none"
           /\ Final \in BOOLEAN
BY DEF TypeOK, Phase, Outcome, Final

LEMMA PhasesNext ==
    ASSUME TypeOK'
    PROVE  /\ child' = "none" => Phase' = "none"
           /\ child' \in {"running", "exited"} => Phase' = "alive"
           /\ child' = "reaped" => Phase' = "gone"
           /\ Outcome' = IF child' = "reaped" THEN exit' ELSE "none"
           /\ Final' \in BOOLEAN
BY DEF TypeOK, Phase, Outcome, Final

\* The steps of CodexCall over its mapped state.
LEMMA Mapped ==
    /\ Call!Launch <=> /\ Phase = "none" /\ verdict = "none" /\ Phase' = "alive"
                       /\ UNCHANGED <<Outcome, Final, verdict>>
    /\ Call!Refuse <=> /\ Phase = "none" /\ verdict = "none" /\ verdict' = "failed"
                       /\ UNCHANGED <<Phase, Outcome, Final>>
    /\ Call!End <=> /\ Phase = "alive" /\ Phase' = "gone"
                    /\ Outcome' \in {"zero", "nonzero", "killed"}
                    /\ UNCHANGED <<Final, verdict>>
    /\ Call!Rest <=> verdict = "none" /\ Final' \in BOOLEAN /\ UNCHANGED <<Phase, Outcome, verdict>>
    /\ Call!Return <=> /\ Phase = "gone" /\ verdict = "none"
                       /\ \/ verdict' = "ok" /\ (Outcome = "zero" \/ Final)
                          \/ verdict' = "failed" /\ Outcome # "zero"
                          \/ verdict' \in {"follow_up", "idle", "timeout"}
                       /\ UNCHANGED <<Phase, Outcome, Final>>
BY DEF Call!Launch, Call!Refuse, Call!End, Call!Rest, Call!Return, Call!Exits, Call!Errors,
       Phase, Outcome

LEMMA CallInit == Init => Call!Init
<1> SUFFICES ASSUME Init PROVE Call!Init
    OBVIOUS
<1>1. TypeOK
    BY InitHolds DEF RunnerInv
<1>2. Phase = "none" /\ Outcome = "none" /\ Final \in BOOLEAN /\ verdict = "none"
    BY <1>1, Phases DEF Init
<1> QED
    BY <1>2 DEF Call!Init, Phase, Outcome

LEMMA CallStep ==
    ASSUME RunnerInv, RunnerInv', [Next]_vars
    PROVE  Call!Launch \/ Call!Refuse \/ Call!End \/ Call!Rest \/ Call!Return \/ UNCHANGED call
<1> USE Mapped DEF process, pipes, file, flags
<1>1. /\ TypeOK /\ Positions /\ TypeOK'
      /\ child \in {"none", "running", "exited", "reaped"}
      /\ exit \in {"none", "zero", "nonzero", "killed"}
      /\ verdict = "none" <=> pc # "returned"
    BY DEF RunnerInv, TypeOK, Positions
<1>2. /\ child = "none" => Phase = "none"
      /\ child \in {"running", "exited"} => Phase = "alive"
      /\ child = "reaped" => Phase = "gone"
      /\ Outcome = IF child = "reaped" THEN exit ELSE "none"
    BY <1>1, Phases
<1>3. /\ child' = "none" => Phase' = "none"
      /\ child' \in {"running", "exited"} => Phase' = "alive"
      /\ child' = "reaped" => Phase' = "gone"
      /\ Outcome' = IF child' = "reaped" THEN exit' ELSE "none"
      /\ Final' \in BOOLEAN
    BY <1>1, PhasesNext
\* A child that is killed, or ends, is still to be reaped.
<1>4. ASSUME \/ UNCHANGED process
             \/ child \in {"running", "exited"} /\ child' \in {"running", "exited"}
      PROVE  UNCHANGED <<Phase, Outcome>>
    BY <1>1, <1>2, <1>3, <1>4
<1>5. ASSUME UNCHANGED <<version, fileAge>> PROVE UNCHANGED Final
    BY <1>5 DEF Final
<1>6. Kill => \/ UNCHANGED process
              \/ child \in {"running", "exited"} /\ child' \in {"running", "exited"}
    BY DEF Kill
\* Where the loop goes on and the file stays as it is.
<1>7. ASSUME \/ UNCHANGED process
             \/ child \in {"running", "exited"} /\ child' \in {"running", "exited"},
             UNCHANGED <<version, fileAge, verdict>>
      PROVE  UNCHANGED call
    BY <1>4, <1>5, <1>7 DEF call
<1>8. CASE Tick
  <2>1. verdict = "none" /\ UNCHANGED <<process, verdict>>
      BY <1>1, <1>8 DEF Tick
  <2> QED
      BY <1>3, <1>4, <2>1
<1>9. CASE ContextDone
    BY <1>7, <1>9 DEF ContextDone
<1>10. CASE ChildSaves
  <2>1. child = "running" /\ UNCHANGED <<process, verdict>>
      BY <1>10 DEF ChildSaves, Idle
  <2>2. verdict = "none"
      BY <1>1, <2>1 DEF Positions
  <2> QED
      BY <1>3, <1>4, <2>1, <2>2
<1>11. CASE ChildExits \/ \E p \in Pipes : ChildWrites(p)
    BY <1>7, <1>11 DEF ChildExits, ChildWrites, Idle
<1>12. CASE WaitReturns
  <2>1. /\ child = "exited" /\ child' = "reaped"
        /\ UNCHANGED <<exit, verdict, version, fileAge>>
      BY <1>12 DEF WaitReturns, Idle
  <2>2. exit \in {"zero", "nonzero", "killed"}
      BY <1>1, <2>1 DEF Positions
  <2> QED
      BY <1>2, <1>3, <1>5, <2>1, <2>2
<1>13. CASE CommandContextKills
    BY <1>6, <1>7, <1>13 DEF CommandContextKills, Idle
<1>14. CASE \E p \in Pipes : Reader(p)
    BY <1>7, <1>14 DEF Reader, Read, ReadEnds
<1>15. CASE StartFails
  <2>1. /\ pc = "start" /\ child = "none" /\ verdict = "none" /\ verdict' = "failed"
        /\ UNCHANGED <<process, version, fileAge>>
      BY <1>1, <1>15 DEF StartFails, Positions
  <2> QED
      BY <1>2, <1>4, <1>5, <2>1
<1>16. CASE Start
  <2>1. /\ child = "none" /\ child' = "running" /\ verdict = "none"
        /\ UNCHANGED <<verdict, version, fileAge>>
      BY <1>1, <1>16 DEF Start, Positions
  <2>2. UNCHANGED <<Outcome, Final>>
      BY <1>2, <1>3, <1>5, <2>1
  <2> QED
      BY <1>2, <1>3, <2>1, <2>2
<1>17. CASE Report \/ SelectDone \/ Drain
    BY <1>7, <1>17 DEF Report, SelectDone, Drain
<1>18. CASE SelectContext
    BY <1>6, <1>7, <1>18 DEF SelectContext
<1>19. CASE SelectTick
    BY <1>6, <1>7, <1>19, Ticks
<1>20. CASE Join
  <2>1. /\ pc = "join" /\ child = "reaped" /\ verdict = "none" /\ verdict' = Verdict
        /\ UNCHANGED <<process, version, fileAge>>
      BY <1>1, <1>20 DEF Join, Positions
  <2>2. \/ Verdict = "ok" /\ (exit = "zero" \/ Final)
        \/ Verdict = "failed" /\ exit # "zero"
        \/ Verdict \in {"follow_up", "idle", "timeout"}
      BY DEF Verdict, RunnerInv, OutputRests, TypeOK
  <2>3. Outcome = exit /\ Phase = "gone" /\ UNCHANGED <<Phase, Outcome, Final>>
      BY <1>2, <1>4, <1>5, <2>1
  <2> QED
      BY <2>1, <2>2, <2>3
<1>21. CASE UNCHANGED vars
    BY <1>7, <1>21 DEF vars
<1> QED
    BY <1>8, <1>9, <1>10, <1>11, <1>12, <1>13, <1>14, <1>15, <1>16, <1>17, <1>18, <1>19,
       <1>20, <1>21 DEF Next, Exec, Child, Over

\* Exec returns only when the child is reaped, and "ok" only for a child that succeeded or
\* an output file that had settled (Exec implements CodexCall).
THEOREM ExecImplementsCall == Spec => CallKept
<1>1. RunnerInv /\ RunnerInv' /\ [Next]_vars
        => [Call!Next]_<<CASE child = "none" -> "none"
                           [] child \in {"running", "exited"} -> "alive"
                           [] child = "reaped" -> "gone",
                         IF child = "reaped" THEN exit ELSE "none", Final, verdict>>
    BY CallStep DEF Call!Next, call, Phase, Outcome
<1> QED
    BY <1>1, CallInit, RunnerInvariant, PTL DEF Spec, CallKept, Call!Spec
=============================================================================
