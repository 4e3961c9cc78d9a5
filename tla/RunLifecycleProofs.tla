-------------------------- MODULE RunLifecycleProofs --------------------------
(***************************************************************************)
(* Proofs about RunLifecycle, for every set of finalizers, posters and     *)
(* killers, every loop and every threshold.                                *)
(***************************************************************************)
EXTENDS RunLifecycle, TLAPS

USE DEF Terminal, Statuses, ControlActions, NoPid, ZeroPid, NoFile, Pids, Positive,
        Lockless, history

-----------------------------------------------------------------------------
(* Types *)

LEMMA RecordedControls ==
    ASSUME control \in Controls \cup {NoControl},
           NEW status \in Statuses, NEW action \in ControlActions
    PROVE  ControlRecord(status, action) \in Controls
BY DEF ControlRecord, Controls, NoControl

LEMMA MergedStatuses ==
    ASSUME TypeOK
    PROVE  /\ Merged \in Statuses \cup {"absent"}
           /\ runStatus # "absent" => Merged \in Statuses
BY DEF TypeOK, Merged, Controls, NoControl

THEOREM InitTypes == Init => TypeInv
<1> SUFFICES ASSUME Init PROVE TypeInv
    OBVIOUS
<1> USE LoopConfig, ClockConfig DEF Init
<1>1. IterationBound \in Nat
    BY DEF IterationBound
<1>2. IdleAgent \in AgentRecords
    BY DEF IdleAgent, AgentRecords, AgentPcs
<1>3. TypeOK
  <2>1. agent \in [Agents -> AgentRecords]
      BY <1>2
  <2>2. age \in Ages
      BY DEF MaxAge, Ages
  <2>3. outcome \in Outcomes
      BY DEF Outcomes
  <2>4. /\ iter \in 0 .. IterationBound
        /\ pos \in 0 .. PhaseCount - 1
        /\ children \subseteq Pids
      BY <1>1
  <2>5. hbChild \in Int /\ touched \in Int /\ htouched \in Int
      OBVIOUS
  <2>6. runStatus \in Statuses \cup {"absent"} /\ control \in Controls \cup {NoControl}
       /\ draft \in Controls \cup {NoControl} /\ lock \in BOOLEAN /\ ctxDone \in BOOLEAN
      OBVIOUS
  <2>7. fails \in Nat /\ proc \in {"live", "crashed", "exited"}
    /\ pc \in {"create", "returned"} \cup Lockless \cup Holding
    /\ hpc \in {"off", "top", "write"}
    OBVIOUS
  <2>8. requests \in 0 .. MaxRequests
    <3>1. requests = 0 /\ MaxRequests \in Nat
        OBVIOUS
    <3> QED
        BY ONLY <3>1
  <2>9. contested \in BOOLEAN /\ unsaved \in BOOLEAN
    <3>1. contested = FALSE /\ unsaved = FALSE
        BY Zenon
    <3> QED
        BY ONLY <3>1
  <2> QED
      BY <2>1, <2>2, <2>3, <2>4, <2>5, <2>6, <2>7, <2>8, <2>9 DEF TypeOK
<1>4. DraftsAreControls /\ ControlExists /\ IterationsFollowPhases
    BY DEF DraftsAreControls, ControlExists, IterationsFollowPhases, Starting, InPhase,
           IdleAgent
<1> QED
    BY <1>3, <1>4 DEF TypeInv


LEMMA ResetAges ==
    ASSUME age \in Ages
    PROVE  /\ [age EXCEPT !.run = 0] \in Ages
           /\ [age EXCEPT !.control = 0] \in Ages
           /\ [age EXCEPT !.heartbeat = 0] \in Ages
BY ClockConfig DEF Ages, MaxAge

LEMMA ChangedChild ==
    ASSUME control \in Controls, NEW pid \in Int
    PROVE  [control EXCEPT !.child = pid] \in Controls
BY DEF Controls

LEMMA SavedTypes ==
    ASSUME TypeOK, NEW status \in Statuses, Saved(status) \/ NotSaved
    PROVE  /\ runStatus' \in Statuses \cup {"absent"}
           /\ contested' \in BOOLEAN
           /\ unsaved' \in BOOLEAN
BY DEF TypeOK, Saved, NotSaved

LEMMA OrchestrateTypes == TypeInv /\ Orchestrate => TypeInv'
<1> SUFFICES ASSUME TypeInv, Orchestrate PROVE TypeInv'
    OBVIOUS
<1> USE LoopConfig, ClockConfig
    DEF TypeInv, TypeOK, DraftsAreControls, ControlExists, IterationsFollowPhases,
        Starting, Holding, InPhase, Step, files, loop, world, beat
<1>1. CASE CreateRun
  <2>1. age' \in Ages
      BY <1>1, ResetAges DEF CreateRun
  <2> QED
      BY <1>1, <2>1 DEF CreateRun, WriteControl
<1>2. CASE AcquireRunLock
    BY <1>2 DEF AcquireRunLock
<1>3. CASE SaveConfig \/ AcquireRunLockFails
  <2>1. /\ runStatus' \in Statuses \cup {"absent"}
        /\ contested' \in BOOLEAN /\ unsaved' \in BOOLEAN
      BY <1>3, SavedTypes DEF SaveConfig, AcquireRunLockFails
  <2>2. CASE SaveConfig
      BY <2>1, <2>2 DEF SaveConfig
  <2>3. CASE AcquireRunLockFails
      BY <2>1, <2>3 DEF AcquireRunLockFails
  <2> QED
      BY <1>3, <2>2, <2>3
<1>4. CASE FirstHeartbeat
  <2>1. age' \in Ages
      BY <1>4, ResetAges DEF FirstHeartbeat, WriteHeartbeat
  <2> QED
      BY <1>4, <2>1 DEF FirstHeartbeat, WriteHeartbeat
<1>5. CASE StartRead
  <2>1. draft' \in Controls
      BY <1>5, RecordedControls DEF StartRead, ReadForControl
  <2> QED
      BY <1>5, <2>1 DEF StartRead, ReadForControl
<1>6. CASE StartWrite
  <2>1. age' \in Ages
      BY <1>6, ResetAges DEF StartWrite, WriteDraft, WriteControl
  <2> QED
      BY <1>6, <2>1 DEF StartWrite, WriteDraft, WriteControl
<1>7. CASE StopOnContext
    BY <1>7 DEF StopOnContext, Outcomes, Stop
<1>8. CASE StopOnAction
    BY <1>8 DEF StopOnAction, Outcomes, Stop, StopActions
<1>9. CASE StopOnLimit
    BY <1>9 DEF StopOnLimit, Outcomes, Stop, StopActions, LimitOutcomes
<1>10. CASE GoOn
    BY <1>10 DEF GoOn, LimitReached
<1>11. CASE BeginPhase
  <2>1. /\ runStatus' \in Statuses \cup {"absent"}
        /\ contested' \in BOOLEAN /\ unsaved' \in BOOLEAN
      BY <1>11, SavedTypes DEF BeginPhase
  <2> QED
      BY <1>11, <2>1 DEF BeginPhase, IterationBound
<1>12. CASE TouchRead
    BY <1>12 DEF TouchRead
<1>13. CASE TouchWrite
  <2>1. age' \in Ages
      BY <1>13, ResetAges DEF TouchWrite, WriteHeartbeat
  <2> QED
      BY <1>13, <2>1 DEF TouchWrite, WriteHeartbeat
<1>14. CASE SkipPhase
    BY <1>14 DEF SkipPhase, Outcomes, AfterPhase, NextPos, LastPhase
<1>15. CASE StartChild
    BY <1>15 DEF StartChild
<1>16. CASE StartChildFails
    BY <1>16 DEF StartChildFails
<1>17. CASE SetRead
  <2>1. draft' \in Controls
      BY <1>17, ChangedChild DEF SetRead
  <2> QED
      BY <1>17, <2>1 DEF SetRead
<1>18. CASE SetWrite
  <2>1. age' \in Ages
      BY <1>18, ResetAges DEF SetWrite, WriteDraft, WriteControl
  <2> QED
      BY <1>18, <2>1 DEF SetWrite, WriteDraft, WriteControl
<1>19. CASE SetHeartbeat
  <2>1. age' \in Ages
      BY <1>19, ResetAges DEF SetHeartbeat, WriteHeartbeat
  <2> QED
      BY <1>19, <2>1 DEF SetHeartbeat, WriteHeartbeat
<1>20. CASE ClearRead
  <2>1. pc' = "clearWrite" => draft' \in Controls
      BY <1>20, ChangedChild DEF ClearRead
  <2>2. draft' \in Controls \cup {NoControl}
      BY <1>20, ChangedChild DEF ClearRead
  <2> QED
      BY <1>20, <2>1, <2>2 DEF ClearRead
<1>21. CASE ClearWrite
  <2>1. age' \in Ages
      BY <1>21, ResetAges DEF ClearWrite, WriteDraft, WriteControl
  <2> QED
      BY <1>21, <2>1 DEF ClearWrite, WriteDraft, WriteControl
<1>22. CASE ClearHeartbeat
  <2>1. age' \in Ages
      BY <1>22, ResetAges DEF ClearHeartbeat, WriteHeartbeat
  <2> QED
      BY <1>22, <2>1 DEF ClearHeartbeat, WriteHeartbeat
<1>23. CASE PhaseSucceeds
    BY <1>23 DEF PhaseSucceeds, Outcomes, AfterPhase, NextPos, LastPhase
<1>24. CASE PhaseFails
  <2>1. draft' \in Controls
      BY <1>24, RecordedControls DEF PhaseFails, ReadForControl
  <2> QED
      BY <1>24, <2>1 DEF PhaseFails, ReadForControl
<1>25. CASE FailWrite
  <2>1. age' \in Ages
      BY <1>25, ResetAges DEF FailWrite, WriteDraft, WriteControl
  <2> QED
      BY <1>25, <2>1 DEF FailWrite, WriteDraft, WriteControl, AfterPhase, NextPos, LastPhase, Tolerated
<1>26. CASE FailRun
  <2>1. /\ runStatus' \in Statuses \cup {"absent"}
        /\ contested' \in BOOLEAN /\ unsaved' \in BOOLEAN
      BY <1>26, SavedTypes DEF FailRun
  <2> QED
      BY <1>26, <2>1 DEF FailRun
<1>27. CASE FinRun
  <2>1. outcome.status \in Statuses
      BY DEF Outcomes
  <2>2. /\ runStatus' \in Statuses \cup {"absent"}
        /\ contested' \in BOOLEAN /\ unsaved' \in BOOLEAN
      BY <1>27, <2>1, SavedTypes DEF FinRun
  <2> QED
      BY <1>27, <2>2 DEF FinRun
<1>28. CASE FinRead
  <2>1. draft' \in Controls
      BY <1>28, RecordedControls DEF FinRead, ReadForControl, Outcomes
  <2> QED
      BY <1>28, <2>1 DEF FinRead, ReadForControl
<1>29. CASE FinWrite
  <2>1. age' \in Ages
      BY <1>29, ResetAges DEF FinWrite, WriteDraft, WriteControl
  <2> QED
      BY <1>29, <2>1 DEF FinWrite, WriteDraft, WriteControl
<1>30. CASE CancelHeartbeat
    BY <1>30 DEF CancelHeartbeat
<1>31. CASE ReleaseRunLock
  <2>1. lock' \in BOOLEAN /\ UNCHANGED <<requests, contested, unsaved>>
      BY <1>31 DEF ReleaseRunLock
  <2> QED
      BY <1>31, <2>1 DEF ReleaseRunLock
<1>32. CASE \E ok \in BOOLEAN : ExecReturns(ok)
    BY <1>32 DEF ExecReturns
<1> QED
    BY <1>1, <1>2, <1>3, <1>4, <1>5, <1>6, <1>7, <1>8, <1>9, <1>10, <1>11, <1>12, <1>13, <1>14, <1>15, <1>16, <1>17, <1>18, <1>19, <1>20, <1>21, <1>22, <1>23, <1>24, <1>25, <1>26, <1>27, <1>28, <1>29, <1>30, <1>31, <1>32 DEF Orchestrate

LEMMA BeatTypes == TypeInv /\ Beat => TypeInv'
<1> SUFFICES ASSUME TypeInv, Beat PROVE TypeInv'
    OBVIOUS
<1> USE DEF TypeInv, TypeOK, DraftsAreControls, ControlExists, IterationsFollowPhases,
            files, loop, world
<1>1. CASE HeartbeatTop
    BY <1>1 DEF HeartbeatTop
<1>2. CASE HeartbeatWrite
  <2>1. age' \in Ages
      BY <1>2, ResetAges DEF HeartbeatWrite, WriteHeartbeat
  <2> QED
      BY <1>2, <2>1 DEF HeartbeatWrite, WriteHeartbeat
<1> QED
    BY <1>1, <1>2 DEF Beat

\* An agent's step replaces its record by another one of the same type.
LEMMA AgentTypes ==
    ASSUME TypeInv, NEW a \in Agents, NEW from, NEW to \in AgentRecords,
           AgentStep(a, from, to),
           to.pc \in {"saveWrite", "postWrite"} => to.draft \in Controls
    PROVE  /\ agent' \in [Agents -> AgentRecords]
           /\ \A b \in Agents : agent'[b].pc \in {"saveWrite", "postWrite"}
                 => agent'[b].draft \in Controls
BY DEF TypeInv, TypeOK, DraftsAreControls, AgentStep

\* ... and most of them touch no file and nothing of the orchestrator.
LEMMA FramedTypes ==
    ASSUME TypeInv, NEW a \in Agents, NEW from, NEW to \in AgentRecords,
           AgentStep(a, from, to),
           UNCHANGED <<files, pc, loop, proc, ctxDone, children, beat>>,
           requests' \in 0 .. MaxRequests, contested' \in BOOLEAN, unsaved' \in BOOLEAN,
           to.pc \in {"saveWrite", "postWrite"} => to.draft \in Controls
    PROVE  TypeInv'
BY AgentTypes DEF TypeInv, TypeOK, DraftsAreControls, ControlExists,
                  IterationsFollowPhases, files, loop, beat

LEMMA OnlyAgentsTypes ==
    ASSUME TypeInv, NEW a \in Agents, NEW from, NEW to \in AgentRecords,
           AgentStep(a, from, to), OnlyAgents,
           to.pc \in {"saveWrite", "postWrite"} => to.draft \in Controls
    PROVE  TypeInv'
<1>1. /\ UNCHANGED <<files, pc, loop, proc, ctxDone, children, beat>>
      /\ requests' \in 0 .. MaxRequests /\ contested' \in BOOLEAN /\ unsaved' \in BOOLEAN
    BY DEF OnlyAgents, world, TypeInv, TypeOK
<1> QED
    BY <1>1, FramedTypes

\* A request is one of at most MaxRequests.
LEMMA RequestTypes ==
    ASSUME TypeInv, NEW a \in Agents, NEW from, NEW to \in AgentRecords,
           AgentStep(a, from, to), Request, to.pc \notin {"saveWrite", "postWrite"}
    PROVE  TypeInv'
<1>1. /\ UNCHANGED <<files, pc, loop, proc, ctxDone, children, beat>>
      /\ requests' \in 0 .. MaxRequests /\ contested' \in BOOLEAN /\ unsaved' \in BOOLEAN
    BY ClockConfig DEF Request, TypeInv, TypeOK
<1> QED
    BY <1>1, FramedTypes

LEMMA IdleAgentType ==
    /\ IdleAgent \in AgentRecords
    /\ IdleAgent.pc = "idle"
BY ClockConfig DEF IdleAgent, AgentRecords, AgentPcs

LEMMA ActingAgentType ==
    ASSUME NEW at \in AgentPcs, NEW act \in ControlActions
    PROVE  /\ [IdleAgent EXCEPT !.pc = at, !.action = act] \in AgentRecords
           /\ [IdleAgent EXCEPT !.pc = at, !.action = act].pc = at
<1> DEFINE P == AgentPcs
           A == ControlActions
           C == Controls \cup {NoControl}
           Since == 0 .. MaxScan
<1>1. /\ IdleAgent \in [pc : P, seen : Statuses, fresh : BOOLEAN, locked : BOOLEAN,
                        since : Since, child : Int, action : A, draft : C]
      /\ at \in P /\ act \in A
    BY IdleAgentType DEF AgentRecords
<1>2. AgentRecords = [pc : P, seen : Statuses, fresh : BOOLEAN, locked : BOOLEAN,
                      since : Since, child : Int, action : A, draft : C]
    BY DEF AgentRecords
<1> HIDE DEF P, A, C, Since
<1> QED
    BY <1>1, <1>2

LEMMA DraftingAgentType ==
    ASSUME NEW at \in AgentPcs, NEW record \in Controls
    PROVE  /\ [IdleAgent EXCEPT !.pc = at, !.draft = record] \in AgentRecords
           /\ [IdleAgent EXCEPT !.pc = at, !.draft = record].pc = at
           /\ [IdleAgent EXCEPT !.pc = at, !.draft = record].draft = record
<1> DEFINE P == AgentPcs
           A == ControlActions
           C == Controls \cup {NoControl}
           Since == 0 .. MaxScan
<1>1. /\ IdleAgent \in [pc : P, seen : Statuses, fresh : BOOLEAN, locked : BOOLEAN,
                        since : Since, child : Int, action : A, draft : C]
      /\ at \in P /\ record \in C
    BY IdleAgentType DEF AgentRecords
<1>2. AgentRecords = [pc : P, seen : Statuses, fresh : BOOLEAN, locked : BOOLEAN,
                      since : Since, child : Int, action : A, draft : C]
    BY DEF AgentRecords
<1> HIDE DEF P, A, C, Since
<1> QED
    BY <1>1, <1>2

LEMMA AskingAgentType ==
    ASSUME NEW at \in AgentPcs, NEW seen \in Statuses, NEW act \in ControlActions
    PROVE  /\ [IdleAgent EXCEPT !.pc = at, !.seen = seen, !.action = act] \in AgentRecords
           /\ [IdleAgent EXCEPT !.pc = at, !.seen = seen, !.action = act].pc = at
<1> DEFINE P == AgentPcs
           S == Statuses
           A == ControlActions
           C == Controls \cup {NoControl}
           Since == 0 .. MaxScan
<1>1. /\ IdleAgent \in [pc : P, seen : S, fresh : BOOLEAN, locked : BOOLEAN,
                        since : Since, child : Int, action : A, draft : C]
      /\ at \in P /\ seen \in S /\ act \in A
    BY IdleAgentType DEF AgentRecords
<1>2. AgentRecords = [pc : P, seen : S, fresh : BOOLEAN, locked : BOOLEAN,
                      since : Since, child : Int, action : A, draft : C]
    BY DEF AgentRecords
<1> HIDE DEF P, S, A, C, Since
<1> QED
    BY <1>1, <1>2

LEMMA ScanTypes ==
    ASSUME TypeInv, NEW f \in Finalizers, Scan(f)
    PROVE  TypeInv'
<1> f \in Agents /\ agent[f] \in AgentRecords
    BY DEF Agents, TypeInv, TypeOK
<1> USE ClockConfig DEF AgentRecords, AgentPcs
<1>1. CASE ScanList(f)
  <2> DEFINE fresh == age.run < Threshold
             to == [IdleAgent EXCEPT !.pc = "scanLock", !.fresh = fresh]
  <2>1. fresh \in BOOLEAN
      OBVIOUS
  <2> HIDE DEF fresh
  <2>2. to \in AgentRecords /\ to.pc = "scanLock"
    <3> DEFINE P == AgentPcs
    <3>1. "scanLock" \in P
        OBVIOUS
    <3> HIDE DEF P, AgentPcs
    <3> QED
        BY <2>1, <3>1, IdleAgentType DEF P
  <2>3. AgentStep(f, "idle", to) /\ OnlyAgents
      BY <1>1 DEF ScanList, fresh
  <2> QED
      BY <2>2, <2>3, OnlyAgentsTypes
<1>2. CASE ScanLock(f)
  <2> DEFINE to == [agent[f] EXCEPT !.pc = "scanHb", !.locked = lock]
  <2>1. to \in AgentRecords /\ to.pc = "scanHb"
      BY DEF TypeInv, TypeOK
  <2>2. AgentStep(f, "scanLock", to) /\ OnlyAgents
      BY <1>2 DEF ScanLock
  <2> QED
      BY <2>1, <2>2, OnlyAgentsTypes
<1>3. CASE ScanHeartbeat(f)
  <2> DEFINE fresh == agent[f].fresh \/ (hbChild # NoFile /\ FreshFor(f, age.heartbeat))
             to == [agent[f] EXCEPT !.pc = "decide", !.child = Positive(hbChild),
                                    !.fresh = fresh]
  <2>1. fresh \in BOOLEAN /\ Positive(hbChild) \in Int
      BY DEF TypeInv, TypeOK, FreshFor
  <2>2. to \in AgentRecords /\ to.pc = "decide"
      BY <2>1
  <2>3. AgentStep(f, "scanHb", to) /\ OnlyAgents
      BY <1>3 DEF ScanHeartbeat
  <2> HIDE DEF to, AgentRecords, AgentPcs
  <2> QED
      BY <2>2, <2>3, OnlyAgentsTypes
<1>4. CASE Decide(f)
  <2> DEFINE closing == [IdleAgent EXCEPT !.pc = "saveRun", !.action = "stale"]
  <2>1. closing \in AgentRecords /\ closing.pc = "saveRun"
    <3>1. "saveRun" \in AgentPcs /\ "stale" \in ControlActions
        BY DEF AgentPcs, ControlActions
    <3> HIDE DEF AgentRecords, AgentPcs
    <3> QED
        BY <3>1, ActingAgentType
  <2>2. PICK to \in {closing, IdleAgent} : AgentStep(f, "decide", to) /\ OnlyAgents
      BY <1>4 DEF Decide
  <2> QED
      BY <2>1, <2>2, IdleAgentType, OnlyAgentsTypes
<1> QED
    BY <1>1, <1>2, <1>3, <1>4 DEF Scan

LEMMA FinalizeTypes ==
    ASSUME TypeInv, NEW a \in Agents, Finalize(a)
    PROVE  TypeInv'
<1> agent[a] \in AgentRecords
    BY DEF TypeInv, TypeOK
<1>1. CASE FinalizeSaveRun(a)
  <2> DEFINE to == [agent[a] EXCEPT !.pc = "saveRead"]
  <2>1. to \in AgentRecords /\ to.pc = "saveRead"
      BY DEF AgentRecords, AgentPcs
  <2>2. AgentStep(a, "saveRun", to)
      BY <1>1 DEF FinalizeSaveRun
  <2>3. /\ agent' \in [Agents -> AgentRecords]
       /\ \A b \in Agents : agent'[b].pc \in {"saveWrite", "postWrite"}
             => agent'[b].draft \in Controls
      BY <2>1, <2>2, AgentTypes
  <2> QED
      BY <1>1, <2>3
      DEF FinalizeSaveRun, TypeInv, TypeOK, DraftsAreControls, ControlExists,
          IterationsFollowPhases, loop, world, beat
<1>2. CASE FinalizeRead(a)
  <2> DEFINE record == ControlRecord("failed", agent[a].action)
             to == [IdleAgent EXCEPT !.pc = "saveWrite", !.draft = record]
  <2>1. record \in Controls
      BY RecordedControls DEF AgentRecords, TypeInv, TypeOK
  <2>3. AgentStep(a, "saveRead", to) /\ OnlyAgents
      BY <1>2 DEF FinalizeRead
  <2> HIDE DEF record
  <2>2. to \in AgentRecords /\ to.draft \in Controls
    <3>1. "saveWrite" \in AgentPcs
        BY DEF AgentPcs
    <3> QED
        BY <2>1, <3>1, DraftingAgentType, Zenon DEF to
  <2> HIDE DEF to
  <2> QED
      BY <2>2, <2>3, OnlyAgentsTypes
<1>3. CASE FinalizeWrite(a)
  <2> DEFINE to == [IdleAgent EXCEPT !.pc = "saveUnlock"]
  <2>1. to \in AgentRecords /\ to.pc = "saveUnlock"
      BY IdleAgentType DEF AgentRecords, AgentPcs
  <2>2. AgentStep(a, "saveWrite", to)
      BY <1>3 DEF FinalizeWrite
  <2>3. control' \in Controls /\ age' \in Ages
      BY <1>3, ResetAges DEF FinalizeWrite, WriteControl, AgentStep, TypeInv, TypeOK,
                             DraftsAreControls
  <2>4. /\ agent' \in [Agents -> AgentRecords]
       /\ \A b \in Agents : agent'[b].pc \in {"saveWrite", "postWrite"}
             => agent'[b].draft \in Controls
      BY <2>1, <2>2, AgentTypes
  <2> QED
      BY <1>3, <2>3, <2>4
      DEF FinalizeWrite, TypeInv, TypeOK, DraftsAreControls, ControlExists,
          IterationsFollowPhases, loop, world, beat
<1>4. CASE FinalizeUnlock(a)
  <2>1. AgentStep(a, "saveUnlock", IdleAgent)
      BY <1>4 DEF FinalizeUnlock
  <2>2. /\ agent' \in [Agents -> AgentRecords]
       /\ \A b \in Agents : agent'[b].pc \in {"saveWrite", "postWrite"}
             => agent'[b].draft \in Controls
      BY <2>1, IdleAgentType, AgentTypes
  <2> HIDE DEF AgentRecords, AgentPcs
  <2>0. /\ UNCHANGED <<pc, loop, world, beat, history, runStatus, control, age, hbChild>>
       /\ lock' = FALSE
      BY <1>4 DEF FinalizeUnlock
  <2>3. TypeOK'
    <3>1. /\ UNCHANGED <<pc, proc, draft, touched, outcome, iter, pos, fails, ctxDone>>
          /\ UNCHANGED <<hpc, htouched, children, runStatus, control, age, hbChild>>
          /\ UNCHANGED <<requests, contested, unsaved>>
        BY <2>0 DEF loop, world, beat
    <3>2. TypeOK /\ FALSE \in BOOLEAN
        BY DEF TypeInv
    <3> QED
        BY <2>0, <2>2, <3>1, <3>2 DEF TypeOK
  <2> QED
      BY <1>4, <2>2, <2>3
      DEF FinalizeUnlock, TypeInv, DraftsAreControls, ControlExists,
          IterationsFollowPhases, loop, world, beat
<1>5. CASE FinalizeFails(a)
    BY <1>5, IdleAgentType, OnlyAgentsTypes DEF FinalizeFails
<1> QED
    BY <1>1, <1>2, <1>3, <1>4, <1>5 DEF Finalize

LEMMA PostTypes ==
    ASSUME TypeInv, NEW a \in Agents, Post(a)
    PROVE  TypeInv'
<1> agent[a] \in AgentRecords
    BY DEF TypeInv, TypeOK
<1>1. CASE PostRead(a)
  <2> DEFINE record == ControlRecord(agent[a].seen, agent[a].action)
             to == [IdleAgent EXCEPT !.pc = "postWrite", !.draft = record]
  <2>1. record \in Controls
      BY RecordedControls DEF AgentRecords, TypeInv, TypeOK
  <2>3. AgentStep(a, "postRead", to) /\ OnlyAgents
      BY <1>1 DEF PostRead
  <2> HIDE DEF record
  <2>2. to \in AgentRecords /\ to.draft \in Controls
    <3>1. "postWrite" \in AgentPcs
        BY DEF AgentPcs
    <3> QED
        BY <2>1, <3>1, DraftingAgentType, Zenon DEF to
  <2> HIDE DEF to
  <2> QED
      BY <2>2, <2>3, OnlyAgentsTypes
<1>2. CASE PostWrite(a)
  <2>1. AgentStep(a, "postWrite", IdleAgent)
      BY <1>2 DEF PostWrite
  <2>2. control' \in Controls /\ age' \in Ages
      BY <1>2, ResetAges DEF PostWrite, WriteControl, AgentStep, TypeInv, TypeOK,
                             DraftsAreControls
  <2>3. /\ agent' \in [Agents -> AgentRecords]
       /\ \A b \in Agents : agent'[b].pc \in {"saveWrite", "postWrite"}
             => agent'[b].draft \in Controls
      BY <2>1, IdleAgentType, AgentTypes
  <2> QED
      BY <1>2, <2>2, <2>3
      DEF PostWrite, TypeInv, TypeOK, DraftsAreControls, ControlExists,
          IterationsFollowPhases, loop, world, beat
<1> QED
    BY <1>1, <1>2 DEF Post

LEMMA PostBeginTypes ==
    ASSUME TypeInv, NEW p \in Posters, PostBegin(p)
    PROVE  TypeInv'
<1> p \in Agents /\ Merged \in Statuses
    BY MergedStatuses DEF Agents, TypeInv, PostBegin, Request
<1>1. PICK action \in PostActions :
          AgentStep(p, "idle", [IdleAgent EXCEPT !.pc = "postRead", !.seen = Merged,
                                                 !.action = action])
    BY Zenon DEF PostBegin
<1> DEFINE to == [IdleAgent EXCEPT !.pc = "postRead", !.seen = Merged, !.action = action]
<1>2. to \in AgentRecords /\ to.pc = "postRead"
  <2>1. "postRead" \in AgentPcs /\ action \in ControlActions
      BY ActionsAreValid DEF AgentPcs
  <2> HIDE DEF Statuses, ControlActions
  <2> QED
      BY <2>1, AskingAgentType, Zenon
<1> QED
    BY <1>1, <1>2, RequestTypes DEF PostBegin

LEMMA KillTypes ==
    ASSUME TypeInv, NEW k \in Killers, Kill(k)
    PROVE  TypeInv'
<1> k \in Agents /\ agent[k] \in AgentRecords
    BY DEF Agents, TypeInv, TypeOK
<1>1. CASE KillBegin(k)
  <2> DEFINE to == [IdleAgent EXCEPT !.pc = "killLock", !.seen = Merged, !.action = "kill"]
  <2>1. Merged \in Statuses
      BY <1>1, MergedStatuses DEF TypeInv, KillBegin, Request
  <2>2. to \in AgentRecords /\ to.pc = "killLock"
    <3>1. "killLock" \in AgentPcs /\ "kill" \in ControlActions
        BY DEF AgentPcs
    <3> HIDE DEF Statuses, ControlActions
    <3> QED
        BY <2>1, <3>1, AskingAgentType, Zenon
  <2>3. AgentStep(k, "idle", to) /\ Request
      BY <1>1 DEF KillBegin
  <2> QED
      BY <2>2, <2>3, RequestTypes
<1>2. CASE KillCheck(k)
  <2> DEFINE signal == [agent[k] EXCEPT !.pc = "killSignal"]
             close == [IdleAgent EXCEPT !.pc = "saveRun", !.action = "kill"]
  <2>1. signal \in AgentRecords /\ signal.pc = "killSignal"
      BY DEF AgentRecords, AgentPcs
  <2>2. close \in AgentRecords /\ close.pc = "saveRun"
    <3>1. "saveRun" \in AgentPcs /\ "kill" \in ControlActions
        BY DEF AgentPcs
    <3> QED
        BY <3>1, ActingAgentType
  <2>3. PICK to \in {signal, close} : AgentStep(k, "killLock", to)
      BY <1>2 DEF KillCheck
  <2>4. /\ UNCHANGED <<files, pc, loop, proc, ctxDone, children, beat>>
        /\ requests' \in 0 .. MaxRequests /\ contested' \in BOOLEAN /\ unsaved' \in BOOLEAN
      BY <1>2 DEF KillCheck, LockIsLive, world, TypeInv, TypeOK
  <2> HIDE DEF signal, close
  <2> QED
      BY <2>1, <2>2, <2>3, <2>4, FramedTypes
<1>3. CASE KillSignal(k)
  <2> DEFINE to == [agent[k] EXCEPT !.pc = "postRead"]
  <2>1. to \in AgentRecords /\ to.pc = "postRead"
      BY DEF AgentRecords, AgentPcs
  <2>2. AgentStep(k, "killSignal", to) /\ OnlyAgents
      BY <1>3 DEF KillSignal
  <2> QED
      BY <2>1, <2>2, OnlyAgentsTypes
<1>4. CASE Post(k)
    BY <1>4, PostTypes
<1>5. CASE Finalize(k)
    BY <1>5, FinalizeTypes
<1> QED
    BY <1>1, <1>2, <1>3, <1>4, <1>5 DEF Kill

LEMMA EnvironmentTypes == TypeInv /\ Environment => TypeInv'
<1> SUFFICES ASSUME TypeInv, Environment PROVE TypeInv'
    OBVIOUS
<1> USE DEF TypeInv, DraftsAreControls, ControlExists, IterationsFollowPhases
<1>1. CASE Crash
    BY <1>1 DEF Crash, TypeOK, files, loop, beat
<1>2. CASE Exit
    BY <1>2 DEF Exit, TypeOK, files, loop, beat
<1>3. CASE CancelContext
    BY <1>3 DEF CancelContext, TypeOK, files, loop, beat
<1>4. CASE ChildExits
    BY <1>4 DEF ChildExits, TypeOK, files, loop, beat
<1>5. CASE Tick
  <2>1. age' \in Ages
      BY <1>5, ClockConfig DEF Tick, Ages, MaxAge, Older, TypeOK
  <2>2. \A a \in Agents : /\ agent'[a] \in AgentRecords
                          /\ agent'[a].pc = agent[a].pc
                          /\ agent'[a].draft = agent[a].draft
    <3> SUFFICES ASSUME NEW a \in Agents
                 PROVE  /\ agent'[a] \in AgentRecords
                        /\ agent'[a].pc = agent[a].pc
                        /\ agent'[a].draft = agent[a].draft
        OBVIOUS
    <3>1. agent[a] \in AgentRecords /\ agent \in [Agents -> AgentRecords]
        BY DEF TypeOK
    <3>2. CASE agent[a].pc \in Scanning
      <4>1. agent'[a] = [agent[a] EXCEPT !.since = @ + 1] /\ agent[a].since < MaxScan
          BY <1>5, <3>2 DEF Tick
      <4> QED
          BY <3>1, <4>1, ClockConfig DEF AgentRecords
    <3>3. CASE agent[a].pc \notin Scanning
        BY <1>5, <3>1, <3>3 DEF Tick
    <3> QED
        BY <3>2, <3>3
  <2>3. agent' \in [Agents -> AgentRecords]
      BY <1>5, <2>2 DEF Tick
  <2>4. TypeOK'
      BY <1>5, <2>1, <2>3 DEF Tick, TypeOK, loop, world, beat
  <2> QED
      BY <1>5, <2>2, <2>4 DEF Tick, loop, world, beat
<1> QED
    BY <1>1, <1>2, <1>3, <1>4, <1>5 DEF Environment

THEOREM NextTypes == TypeInv /\ [Next]_vars => TypeInv'
<1> SUFFICES ASSUME TypeInv, [Next]_vars PROVE TypeInv'
    OBVIOUS
<1>1. CASE Orchestrate
    BY <1>1, OrchestrateTypes
<1>2. CASE Beat
    BY <1>2, BeatTypes
<1>3. ASSUME NEW f \in Finalizers, Scan(f) \/ Finalize(f) PROVE TypeInv'
    BY <1>3, ScanTypes, FinalizeTypes DEF Agents
<1>4. ASSUME NEW p \in Posters, PostBegin(p) \/ Post(p) PROVE TypeInv'
    BY <1>4, PostBeginTypes, PostTypes DEF Agents
<1>5. ASSUME NEW k \in Killers, Kill(k) PROVE TypeInv'
    BY <1>5, KillTypes
<1>6. CASE Environment
    BY <1>6, EnvironmentTypes
<1>7. CASE UNCHANGED vars
    BY <1>7 DEF vars, files, loop, world, beat, TypeInv, TypeOK, DraftsAreControls,
                ControlExists, IterationsFollowPhases
<1> QED
    BY <1>1, <1>2, <1>3, <1>4, <1>5, <1>6, <1>7 DEF Next

THEOREM TypesAreKept == Spec => []TypeOK
<1>1. Init => TypeInv
    BY InitTypes
<1>2. TypeInv /\ [Next]_vars => TypeInv'
    BY NextTypes
<1>3. TypeInv => TypeOK
    BY DEF TypeInv
<1> QED
    BY <1>1, <1>2, <1>3, PTL DEF Spec

-----------------------------------------------------------------------------
(* Safety *)

THEOREM InitSafe == Init => SafeInv
BY DEF Init, SafeInv, OwnerState, StatusFollowsOwner, ShortStretches, LockCoversRun,
       ClosersComeLate, ScansAreSafe, StaleOnlyAfterCrash, Suspicious, Finalizing,
       Scanning, Starting, Holding, Done, Agents, IdleAgent

LEMMA ScansAreTyped ==
    ASSUME TypeInv'
    PROVE  \A f \in Finalizers : agent'[f].since \in Nat
BY ClockConfig DEF TypeInv, TypeOK, Agents, AgentRecords

LEMMA OrchestrateSafe ==
    ASSUME TypeInv, TypeInv', SafeInv, Orchestrate
    PROVE  SafeInv'
<1> USE DEF SafeInv, OwnerState, StatusFollowsOwner, ShortStretches, LockCoversRun,
            ClosersComeLate, ScansAreSafe, StaleOnlyAfterCrash, Suspicious, OwnerAway,
            Finalizing, Scanning, Starting, Holding, Done,
            Step, files, loop, world, beat, Saved, NotSaved
<1>1. CASE CreateRun
    BY <1>1 DEF CreateRun
<1>2. CASE AcquireRunLock
    BY <1>2 DEF AcquireRunLock
<1>3. CASE SaveConfig \/ AcquireRunLockFails
    BY <1>3 DEF SaveConfig, AcquireRunLockFails
<1>4. CASE FirstHeartbeat
    BY <1>4 DEF FirstHeartbeat, WriteHeartbeat
<1>5. CASE StartRead
    BY <1>5 DEF StartRead, ReadForControl
<1>6. CASE StartWrite
    BY <1>6 DEF StartWrite, WriteDraft, WriteControl
<1>7. CASE StopOnContext
    BY <1>7 DEF StopOnContext, Stop
<1>8. CASE StopOnAction
    BY <1>8 DEF StopOnAction, Stop
<1>9. CASE StopOnLimit
    BY <1>9 DEF StopOnLimit, Stop
<1>10. CASE GoOn
    BY <1>10 DEF GoOn
<1>11. CASE BeginPhase
    BY <1>11 DEF BeginPhase
<1>12. CASE TouchRead
    BY <1>12 DEF TouchRead
<1>13. CASE TouchWrite
    BY <1>13 DEF TouchWrite, WriteHeartbeat
<1>14. CASE SkipPhase
    BY <1>14 DEF SkipPhase, AfterPhase
<1>15. CASE StartChild
    BY <1>15 DEF StartChild
<1>16. CASE StartChildFails
    BY <1>16 DEF StartChildFails
<1>17. CASE SetRead
    BY <1>17 DEF SetRead
<1>18. CASE SetWrite
    BY <1>18 DEF SetWrite, WriteDraft, WriteControl
<1>19. CASE SetHeartbeat
    BY <1>19 DEF SetHeartbeat, WriteHeartbeat
<1>20. CASE ClearRead
    BY <1>20 DEF ClearRead
<1>21. CASE ClearWrite
    BY <1>21 DEF ClearWrite, WriteDraft, WriteControl
<1>22. CASE ClearHeartbeat
    BY <1>22 DEF ClearHeartbeat, WriteHeartbeat
<1>23. CASE PhaseSucceeds
    BY <1>23 DEF PhaseSucceeds, AfterPhase
<1>24. CASE PhaseFails
    BY <1>24 DEF PhaseFails, ReadForControl
<1>25. CASE FailWrite
  <2>1. control' \in Controls /\ age'.control = 0
      BY <1>25 DEF FailWrite, WriteDraft, WriteControl, TypeInv, TypeOK, DraftsAreControls, Ages
  <2>2. \A f \in Finalizers : agent'[f].since >= 0
      BY ScansAreTyped
  <2> QED
      BY <1>25, <2>1, <2>2 DEF FailWrite, WriteDraft, WriteControl, AfterPhase
<1>26. CASE FailRun
    BY <1>26 DEF FailRun
<1>27. CASE FinRun
  <2>1. runStatus' \in Terminal \/ (runStatus' = runStatus /\ unsaved')
      BY <1>27 DEF FinRun, TypeInv, TypeOK, Outcomes
  <2> QED
      BY <1>27, <2>1 DEF FinRun
<1>28. CASE FinRead
    BY <1>28 DEF FinRead, ReadForControl
<1>29. CASE FinWrite
  <2>1. control' \in Controls /\ age'.control = 0
      BY <1>29 DEF FinWrite, WriteDraft, WriteControl, TypeInv, TypeOK, DraftsAreControls, Ages
  <2>2. \A f \in Finalizers : agent'[f].since >= 0
      BY ScansAreTyped
  <2> QED
      BY <1>29, <2>1, <2>2 DEF FinWrite, WriteDraft, WriteControl
<1>30. CASE CancelHeartbeat
    BY <1>30 DEF CancelHeartbeat
<1>31. CASE ReleaseRunLock
    BY <1>31 DEF ReleaseRunLock
<1>32. CASE \E ok \in BOOLEAN : ExecReturns(ok)
    BY <1>32 DEF ExecReturns
<1> QED
    BY <1>1, <1>2, <1>3, <1>4, <1>5, <1>6, <1>7, <1>8, <1>9, <1>10, <1>11, <1>12, <1>13, <1>14, <1>15, <1>16, <1>17, <1>18, <1>19, <1>20, <1>21, <1>22, <1>23, <1>24, <1>25, <1>26, <1>27, <1>28, <1>29, <1>30, <1>31, <1>32 DEF Orchestrate

LEMMA BeatSafe ==
    ASSUME TypeInv, SafeInv, Beat
    PROVE  SafeInv'
<1> USE DEF SafeInv, OwnerState, StatusFollowsOwner, ShortStretches, LockCoversRun,
            ClosersComeLate, ScansAreSafe, StaleOnlyAfterCrash, Suspicious, OwnerAway,
            Finalizing, Scanning, Starting, Holding, Done
<1> agent' = agent /\ pc' = pc /\ proc' = proc /\ runStatus' = runStatus /\ lock' = lock
    /\ control' = control /\ age'.run = age.run /\ age'.control = age.control
    /\ contested' = contested /\ unsaved' = unsaved
    BY DEF Beat, HeartbeatTop, HeartbeatWrite, WriteHeartbeat, files, loop, world,
           TypeInv, TypeOK, Ages
<1> QED
    OBVIOUS

\* What a step of an agent has to keep, for the agent itself and for the run.
LEMMA AgentSafe ==
    ASSUME TypeInv, TypeInv', SafeInv,
           NEW a \in Agents, NEW from, NEW to, AgentStep(a, from, to),
           UNCHANGED <<runStatus, control, lock, age, pc, proc, unsaved>>,
           contested => contested',
           to.pc \in Finalizing => contested' \/ OwnerAway,
           to.pc \in {"killLock"} \cup Finalizing => pc # "create",
           a \in Finalizers /\ to.pc \in Finalizing =>
              contested' \/ proc = "crashed" \/ (unsaved /\ pc = "returned"),
           a \in Finalizers /\ to.pc \in Scanning /\ ~to.fresh =>
              /\ ~(proc = "live" /\ pc \in Starting)
              /\ ~contested' /\ to.pc # "scanLock" /\ ~to.locked => OwnerAway
              /\ ~unsaved /\ proc # "crashed"
                    /\ pc \in {"failRun", "finished", "unlock", "returned"}
                    => control \in Controls /\ age.control <= to.since
    PROVE  SafeInv'
<1>1. agent \in [Agents -> AgentRecords]
    BY DEF TypeInv, TypeOK
<1>2. agent'[a] = to /\ \A b \in Agents \ {a} : agent'[b] = agent[b]
    BY <1>1 DEF AgentStep
<1>3. Finalizers \subseteq Agents
    BY DEF Agents
<1>4. contested' \in BOOLEAN /\ contested \in BOOLEAN /\ unsaved \in BOOLEAN
    BY DEF TypeInv, TypeOK
<1> QED
    BY <1>2, <1>3, <1>4 DEF SafeInv, OwnerState, StatusFollowsOwner, ShortStretches,
       LockCoversRun, ClosersComeLate, ScansAreSafe, StaleOnlyAfterCrash, Suspicious,
       OwnerAway

LEMMA ScanSafe ==
    ASSUME TypeInv, TypeInv', SafeInv, NEW f \in Finalizers, Scan(f)
    PROVE  SafeInv'
<1> f \in Agents /\ agent[f] \in AgentRecords /\ agent[f].since \in Nat
    BY ClockConfig DEF Agents, TypeInv, TypeOK, AgentRecords
<1> UNCHANGED <<runStatus, control, lock, age, pc, proc, contested, unsaved>>
    BY DEF Scan, ScanList, ScanLock, ScanHeartbeat, Decide, OnlyAgents, files, world
<1>1. CASE ScanList(f)
  <2> DEFINE to == [IdleAgent EXCEPT !.pc = "scanLock", !.fresh = age.run < Threshold]
  <2>1. AgentStep(f, "idle", to)
      BY <1>1 DEF ScanList
  <2>2. to.pc = "scanLock" /\ to.fresh = (age.run < Threshold) /\ to.since = 0
      BY DEF IdleAgent
  <2>3. runStatus = "running"
      BY <1>1 DEF ScanList, Merged
  <2>4. proc = "live" /\ pc \in Starting => to.fresh
    <3>1. proc = "live" /\ pc \in Starting => age.run < Threshold
        BY <2>3, ClockConfig DEF SafeInv, OwnerState, ShortStretches
    <3>2. age.run < Threshold => to.fresh
        BY DEF IdleAgent
    <3> QED
        BY <3>1, <3>2
  <2>5. (/\ ~unsaved /\ proc # "crashed"
         /\ pc \in {"failRun", "finished", "unlock", "returned"})
           => control \in Controls /\ age.control <= 0
    <3> SUFFICES ASSUME ~unsaved, proc # "crashed",
                        pc \in {"failRun", "finished", "unlock", "returned"}
                 PROVE  control \in Controls /\ age.control <= 0
        OBVIOUS
    <3>1. pc = "failRun" /\ proc = "live"
        BY <2>3 DEF SafeInv, OwnerState, StatusFollowsOwner, Done, TypeInv, TypeOK
    <3> QED
        BY <3>1 DEF SafeInv, ShortStretches, TypeInv, ControlExists, Starting
  <2> HIDE DEF to
  <2> QED
      BY <2>1, <2>2, <2>4, <2>5, AgentSafe DEF Finalizing
<1>2. CASE ScanLock(f)
  <2> DEFINE to == [agent[f] EXCEPT !.pc = "scanHb", !.locked = lock]
  <2>1. AgentStep(f, "scanLock", to) /\ agent[f].pc = "scanLock"
      BY <1>2 DEF ScanLock, AgentStep
  <2>2. /\ to.pc = "scanHb" /\ to.locked = lock
        /\ to.fresh = agent[f].fresh /\ to.since = agent[f].since
      BY DEF AgentRecords
  <2>3. ~to.fresh => ~(proc = "live" /\ pc \in Starting)
      BY <2>1, <2>2 DEF SafeInv, ScansAreSafe, Suspicious, Scanning
  <2>4. ~to.fresh /\ ~lock /\ ~contested => OwnerAway
      BY <2>3 DEF SafeInv, LockCoversRun, OwnerAway, TypeInv, TypeOK, Starting
  <2>5. (/\ ~to.fresh /\ ~unsaved /\ proc # "crashed"
         /\ pc \in {"failRun", "finished", "unlock", "returned"})
           => control \in Controls /\ age.control <= to.since
      BY <2>1, <2>2 DEF SafeInv, ScansAreSafe, Suspicious, Scanning
  <2> HIDE DEF to
  <2> QED
      BY <2>1, <2>2, <2>3, <2>4, <2>5, AgentSafe DEF Finalizing
<1>3. CASE ScanHeartbeat(f)
  <2> DEFINE fresh == agent[f].fresh \/ (hbChild # NoFile /\ FreshFor(f, age.heartbeat))
             to == [agent[f] EXCEPT !.pc = "decide", !.child = Positive(hbChild),
                                    !.fresh = fresh]
  <2>1. AgentStep(f, "scanHb", to) /\ agent[f].pc = "scanHb"
      BY <1>3 DEF ScanHeartbeat, AgentStep
  <2>2. /\ to.pc = "decide" /\ to.locked = agent[f].locked
        /\ ~to.fresh => ~agent[f].fresh
        /\ to.since = agent[f].since
      BY DEF AgentRecords
  <2>3. ~to.fresh =>
           /\ ~(proc = "live" /\ pc \in Starting)
           /\ ~contested /\ ~to.locked => OwnerAway
           /\ ~unsaved /\ proc # "crashed"
                 /\ pc \in {"failRun", "finished", "unlock", "returned"}
                 => control \in Controls /\ age.control <= to.since
      BY <2>1, <2>2 DEF SafeInv, ScansAreSafe, Suspicious, Scanning
  <2> HIDE DEF to
  <2> QED
      BY <2>1, <2>2, <2>3, AgentSafe DEF Finalizing
<1>4. CASE Decide(f)
  <2> DEFINE closing == [IdleAgent EXCEPT !.pc = "saveRun", !.action = "stale"]
  <2>1. closing.pc = "saveRun" /\ IdleAgent.pc = "idle"
      BY DEF IdleAgent
  <2>2. CASE ~StaleAndDead(f)
    <3>1. AgentStep(f, "decide", IdleAgent)
        BY <1>4, <2>2 DEF Decide
    <3> QED
        BY <2>1, <3>1, AgentSafe DEF Finalizing, Scanning
  <2>3. CASE StaleAndDead(f)
    <3>1. AgentStep(f, "decide", closing) /\ agent[f].pc = "decide"
        BY <1>4, <2>3 DEF Decide, AgentStep
    <3>2. Suspicious(f) /\ ~(agent[f].locked /\ proc = "live")
        BY <2>3, <3>1 DEF StaleAndDead, Suspicious, Scanning
    <3>3. ~unsaved /\ pc = "returned" /\ proc # "crashed" => FALSE
      <4> SUFFICES ASSUME ~unsaved, pc = "returned", proc # "crashed" PROVE FALSE
          OBVIOUS
      <4>1. control \in Controls /\ age.control <= agent[f].since
          BY <3>2 DEF SafeInv, ScansAreSafe
      <4>2. control # NoControl
          BY <4>1 DEF Controls, NoControl
      <4>3. FreshFor(f, age.control)
          BY <4>1, ClockConfig DEF FreshFor, TypeInv, TypeOK, Ages, MaxAge
      <4> QED
          BY <2>3, <4>2, <4>3 DEF StaleAndDead
    <3>4. ~contested => proc = "crashed" \/ (unsaved /\ pc = "returned")
        BY <3>1, <3>2, <3>3 DEF SafeInv, ScansAreSafe, OwnerAway, OwnerState, TypeInv, TypeOK
    <3>5. pc # "create"
        BY <3>2 DEF SafeInv, ScansAreSafe, OwnerState, Starting, TypeInv, TypeOK
    <3>6. contested \in BOOLEAN /\ contested' = contested
        BY DEF TypeInv, TypeOK
    <3> HIDE DEF closing
    <3> QED
        BY <2>1, <3>1, <3>4, <3>5, <3>6, AgentSafe DEF OwnerAway, Scanning
  <2> QED
      BY <2>2, <2>3
<1> QED
    BY <1>1, <1>2, <1>3, <1>4 DEF Scan

LEMMA FinalizeSafe ==
    ASSUME TypeInv, TypeInv', SafeInv, NEW a \in Agents, Finalize(a)
    PROVE  SafeInv'
<1> agent[a] \in AgentRecords /\ agent \in [Agents -> AgentRecords]
    BY DEF TypeInv, TypeOK
<1>0. agent[a].pc \in Finalizing
    BY DEF Finalize, FinalizeSaveRun, FinalizeFails, FinalizeRead, FinalizeWrite,
           FinalizeUnlock, AgentStep, Finalizing
<1>1. /\ ~contested => OwnerAway
      /\ pc # "create"
      /\ ~contested /\ a \in Finalizers
            => proc = "crashed" \/ (unsaved /\ pc = "returned")
    BY <1>0 DEF SafeInv, ClosersComeLate, StaleOnlyAfterCrash
<1>2. /\ UNCHANGED <<pc, proc, contested, unsaved>>
      /\ age'.run = age.run
      /\ age'.control = age.control \/ (age'.control = 0 /\ control' \in Controls)
      /\ control' = control \/ control' \in Controls
      /\ runStatus' \in {runStatus, "failed"}
    BY DEF Finalize, FinalizeSaveRun, FinalizeFails, FinalizeRead, FinalizeWrite,
           FinalizeUnlock, WriteControl, OnlyAgents, files, world, AgentStep, TypeInv, TypeOK, Ages,
           DraftsAreControls
<1>3. /\ agent'[a].pc \in {"saveRead", "saveWrite", "saveUnlock", "idle"}
      /\ \A b \in Agents \ {a} : agent'[b] = agent[b]
  <2>1. CASE FinalizeSaveRun(a)
      BY <2>1 DEF FinalizeSaveRun, AgentStep, AgentRecords
  <2>2. CASE FinalizeRead(a)
      BY <2>2, IdleAgentType DEF FinalizeRead, AgentStep, AgentRecords
  <2>3. CASE FinalizeWrite(a)
      BY <2>3, IdleAgentType DEF FinalizeWrite, AgentStep, AgentRecords
  <2>4. CASE FinalizeUnlock(a)
      BY <2>4, IdleAgentType DEF FinalizeUnlock, AgentStep, AgentRecords
  <2>5. CASE FinalizeFails(a)
      BY <2>5, IdleAgentType DEF FinalizeFails, AgentStep, AgentRecords
  <2> QED
      BY <2>1, <2>2, <2>3, <2>4, <2>5 DEF Finalize
<1>4. \A f \in Finalizers : f \in Agents /\ agent[f].since \in Nat
    BY ClockConfig DEF Agents, TypeInv, TypeOK, AgentRecords
<1>5. OwnerState' /\ ShortStretches' /\ LockCoversRun'
    BY <1>1, <1>2 DEF SafeInv, OwnerState, ShortStretches, LockCoversRun, OwnerAway,
                      Starting, Holding
<1>6. StatusFollowsOwner'
    BY <1>1, <1>2 DEF SafeInv, StatusFollowsOwner, OwnerAway, Done
<1>7. ClosersComeLate' /\ StaleOnlyAfterCrash'
    BY <1>1, <1>2, <1>3, <1>4
    DEF SafeInv, ClosersComeLate, StaleOnlyAfterCrash, OwnerState, OwnerAway,
        Finalizing
<1>8. ScansAreSafe'
    BY <1>1, <1>2, <1>3, <1>4 DEF SafeInv, ScansAreSafe, Suspicious, OwnerAway, Scanning
<1> QED
    BY <1>5, <1>6, <1>7, <1>8 DEF SafeInv

LEMMA PostSafe ==
    ASSUME TypeInv, TypeInv', SafeInv, NEW a \in Agents, Post(a)
    PROVE  SafeInv'
<1> agent[a] \in AgentRecords /\ agent \in [Agents -> AgentRecords]
    BY DEF TypeInv, TypeOK
<1>1. /\ UNCHANGED <<pc, proc, runStatus, lock, contested, unsaved>>
      /\ age'.run = age.run
      /\ age'.control = age.control \/ (age'.control = 0 /\ control' \in Controls)
      /\ control' = control \/ control' \in Controls
    BY DEF Post, PostRead, PostWrite, WriteControl, OnlyAgents, files, world, AgentStep,
           TypeInv, TypeOK, Ages, DraftsAreControls
<1>2. /\ agent'[a].pc \in {"postWrite", "idle"}
      /\ \A b \in Agents \ {a} : agent'[b] = agent[b]
  <2>1. CASE PostRead(a)
      BY <2>1, IdleAgentType DEF PostRead, AgentStep, AgentRecords
  <2>2. CASE PostWrite(a)
      BY <2>2, IdleAgentType DEF PostWrite, AgentStep
  <2> QED
      BY <2>1, <2>2 DEF Post
<1>3. \A f \in Finalizers : f \in Agents /\ agent[f].since \in Nat
    BY ClockConfig DEF Agents, TypeInv, TypeOK, AgentRecords
<1>4. OwnerState' /\ LockCoversRun' /\ StatusFollowsOwner' /\ ShortStretches'
    BY <1>1 DEF SafeInv, OwnerState, LockCoversRun, StatusFollowsOwner, ShortStretches
<1>5. ClosersComeLate' /\ StaleOnlyAfterCrash'
    BY <1>1, <1>2, <1>3 DEF SafeInv, ClosersComeLate, StaleOnlyAfterCrash, OwnerAway,
                            Finalizing
<1>6. ScansAreSafe'
    BY <1>1, <1>2, <1>3 DEF SafeInv, ScansAreSafe, Suspicious, OwnerAway, Scanning
<1> QED
    BY <1>4, <1>5, <1>6 DEF SafeInv

LEMMA PostBeginSafe ==
    ASSUME TypeInv, TypeInv', SafeInv, NEW p \in Posters, PostBegin(p)
    PROVE  SafeInv'
<1>1. PICK action \in PostActions :
          AgentStep(p, "idle", [IdleAgent EXCEPT !.pc = "postRead", !.seen = Merged,
                                                 !.action = action])
    BY Zenon DEF PostBegin
<1> DEFINE to == [IdleAgent EXCEPT !.pc = "postRead", !.seen = Merged, !.action = action]
<1>2. to.pc = "postRead"
    BY DEF IdleAgent
<1>3. UNCHANGED <<runStatus, control, lock, age, pc, proc, contested, unsaved>>
    BY DEF PostBegin, Request, files
<1> QED
    BY <1>1, <1>2, <1>3, AgentSafe DEF Finalizing, Scanning, Agents

LEMMA KillSafe ==
    ASSUME TypeInv, TypeInv', SafeInv, NEW k \in Killers, Kill(k)
    PROVE  SafeInv'
<1> k \in Agents /\ k \notin Finalizers /\ agent[k] \in AgentRecords
    BY AgentsDisjoint DEF Agents, TypeInv, TypeOK
<1>1. CASE KillBegin(k)
  <2> DEFINE to == [IdleAgent EXCEPT !.pc = "killLock", !.seen = Merged, !.action = "kill"]
  <2>1. to.pc = "killLock"
      BY DEF IdleAgent
  <2>2. /\ AgentStep(k, "idle", to) /\ runStatus # "absent"
        /\ UNCHANGED <<runStatus, control, lock, age, pc, proc, contested, unsaved>>
      BY <1>1 DEF KillBegin, Request, files
  <2>3. pc # "create"
      BY <2>2 DEF SafeInv, OwnerState
  <2> QED
      BY <2>1, <2>2, <2>3, AgentSafe DEF Finalizing, Scanning
<1>2. CASE KillCheck(k)
  <2> DEFINE signal == [agent[k] EXCEPT !.pc = "killSignal"]
             close == [IdleAgent EXCEPT !.pc = "saveRun", !.action = "kill"]
             to == IF LockIsLive THEN signal ELSE close
  <2>1. to.pc = IF LockIsLive THEN "killSignal" ELSE "saveRun"
      BY DEF AgentRecords, IdleAgent
  <2>2. /\ AgentStep(k, "killLock", to) /\ agent[k].pc = "killLock"
        /\ UNCHANGED <<runStatus, control, lock, age, pc, proc, unsaved>>
      BY <1>2 DEF KillCheck, AgentStep, files, world
  <2>3. pc # "create"
      BY <2>2 DEF SafeInv, ClosersComeLate
  <2>4. contested => contested'
      BY <1>2 DEF KillCheck
  \* Without a lock the owner is away, or it has not acquired it yet.
  <2>5. to.pc = "saveRun" => contested' \/ OwnerAway
    <3> SUFFICES ASSUME ~LockIsLive, ~contested', ~OwnerAway PROVE FALSE
        BY <2>1
    <3>1. ~contested /\ proc = "live" /\ pc \notin Lockless \cup {"create", "returned"}
        BY <1>2, <2>3, <2>4 DEF KillCheck, OwnerAway
    <3> QED
        BY <3>1 DEF LockIsLive, SafeInv, LockCoversRun, TypeInv, TypeOK
  <2> HIDE DEF to
  <2> QED
      BY <2>1, <2>2, <2>3, <2>4, <2>5, AgentSafe DEF Finalizing, Scanning
<1>3. CASE KillSignal(k)
  <2> DEFINE to == [agent[k] EXCEPT !.pc = "postRead"]
  <2>1. to.pc = "postRead"
      BY DEF AgentRecords
  <2>2. /\ AgentStep(k, "killSignal", to)
        /\ UNCHANGED <<runStatus, control, lock, age, pc, proc, contested, unsaved>>
      BY <1>3 DEF KillSignal, OnlyAgents, files, world
  <2> HIDE DEF to
  <2> QED
      BY <2>1, <2>2, AgentSafe DEF Finalizing, Scanning
<1>4. CASE Post(k)
    BY <1>4, PostSafe
<1>5. CASE Finalize(k)
    BY <1>5, FinalizeSafe
<1> QED
    BY <1>1, <1>2, <1>3, <1>4, <1>5 DEF Kill

LEMMA EnvironmentSafe ==
    ASSUME TypeInv, TypeInv', SafeInv, Environment
    PROVE  SafeInv'
<1> USE DEF SafeInv, OwnerState, StatusFollowsOwner, ShortStretches, LockCoversRun,
            ClosersComeLate, ScansAreSafe, StaleOnlyAfterCrash, Suspicious, OwnerAway,
            Finalizing, Scanning
<1>1. CASE Crash
    BY <1>1 DEF Crash, files, loop, beat, Agents
<1>2. CASE Exit
    BY <1>2 DEF Exit, files, loop, beat, Agents
<1>3. CASE CancelContext
    BY <1>3 DEF CancelContext, files, loop, beat
<1>4. CASE ChildExits
    BY <1>4 DEF ChildExits, files, loop, beat
<1>5. CASE Tick
  <2>1. UNCHANGED <<runStatus, control, lock, pc, proc, contested, unsaved>>
      BY <1>5 DEF Tick, loop, world
  <2>2. ~(proc = "live" /\ pc \in Starting \cup {"failRun"})
      BY <1>5 DEF Tick, Brief
  <2>3. \A a \in Agents : agent'[a].pc = agent[a].pc
    <3> SUFFICES ASSUME NEW a \in Agents PROVE agent'[a].pc = agent[a].pc
        OBVIOUS
    <3>1. agent[a] \in AgentRecords
        BY DEF TypeInv, TypeOK
    <3> QED
        BY <1>5, <3>1 DEF Tick, AgentRecords
  <2>4. \A f \in Finalizers : agent'[f].pc \in Scanning =>
            /\ agent'[f].fresh = agent[f].fresh
            /\ agent'[f].locked = agent[f].locked
            /\ age.control <= agent[f].since => age'.control <= agent'[f].since
    <3> SUFFICES ASSUME NEW f \in Finalizers, agent'[f].pc \in Scanning
                 PROVE  /\ agent'[f].fresh = agent[f].fresh
                        /\ agent'[f].locked = agent[f].locked
                        /\ age.control <= agent[f].since
                              => age'.control <= agent'[f].since
        OBVIOUS
    <3>1. f \in Agents /\ agent[f] \in AgentRecords /\ agent[f].since \in Nat
        BY ClockConfig DEF Agents, TypeInv, TypeOK, AgentRecords
    <3>2. agent'[f] = [agent[f] EXCEPT !.since = @ + 1]
        BY <1>5, <2>3, <3>1 DEF Tick
    <3>3. age'.control \in {age.control, age.control + 1} /\ age.control \in Nat
        BY <1>5, ClockConfig DEF Tick, Older, TypeInv, TypeOK, Ages, MaxAge
    <3> QED
        BY <3>1, <3>2, <3>3 DEF AgentRecords
  <2>5. Finalizers \subseteq Agents
      BY DEF Agents
  <2> QED
      BY <2>1, <2>2, <2>3, <2>4, <2>5
<1> QED
    BY <1>1, <1>2, <1>3, <1>4, <1>5 DEF Environment

THEOREM NextSafe == TypeInv /\ TypeInv' /\ SafeInv /\ [Next]_vars => SafeInv'
<1> SUFFICES ASSUME TypeInv, TypeInv', SafeInv, [Next]_vars PROVE SafeInv'
    OBVIOUS
<1>1. CASE Orchestrate
    BY <1>1, OrchestrateSafe
<1>2. CASE Beat
    BY <1>2, BeatSafe
<1>3. ASSUME NEW f \in Finalizers, Scan(f) \/ Finalize(f) PROVE SafeInv'
    BY <1>3, ScanSafe, FinalizeSafe DEF Agents
<1>4. ASSUME NEW p \in Posters, PostBegin(p) \/ Post(p) PROVE SafeInv'
    BY <1>4, PostBeginSafe, PostSafe DEF Agents
<1>5. ASSUME NEW k \in Killers, Kill(k) PROVE SafeInv'
    BY <1>5, KillSafe
<1>6. CASE Environment
    BY <1>6, EnvironmentSafe
<1>7. CASE UNCHANGED vars
    BY <1>7 DEF vars, files, loop, world, beat, SafeInv, OwnerState, StatusFollowsOwner,
                ShortStretches, LockCoversRun, ClosersComeLate, ScansAreSafe,
                StaleOnlyAfterCrash, Suspicious, OwnerAway
<1> QED
    BY <1>1, <1>2, <1>3, <1>4, <1>5, <1>6, <1>7 DEF Next

THEOREM InductiveIsKept == Spec => []Inductive
<1>1. Init => Inductive
    BY InitTypes, InitSafe DEF Inductive
<1>2. Inductive /\ [Next]_vars => Inductive'
    BY NextTypes, NextSafe DEF Inductive
<1> QED
    BY <1>1, <1>2, PTL DEF Spec

THEOREM StaleRunsCrashed == Spec => []StaleOnlyAfterCrash
<1>1. Inductive => StaleOnlyAfterCrash
    BY DEF Inductive, SafeInv
<1> QED
    BY <1>1, InductiveIsKept, PTL

THEOREM LockIsKept == Spec => []LockCoversRun
<1>1. Inductive => LockCoversRun
    BY DEF Inductive, SafeInv
<1> QED
    BY <1>1, InductiveIsKept, PTL

-----------------------------------------------------------------------------
(* The pid of the child *)

LEMMA OrchestrateRecords ==
    ASSUME Inductive, ChildIsRecorded, RecordedChildKeepsRun, Orchestrate
    PROVE  ChildIsRecorded' /\ RecordedChildKeepsRun'
<1>1. proc = "live" /\ pc # "returned" /\ UNCHANGED <<proc, agent, contested>>
    BY DEF Orchestrate, CreateRun, SaveConfig, AcquireRunLock, AcquireRunLockFails, FirstHeartbeat,
       StartRead, StartWrite, StopOnContext, StopOnAction, StopOnLimit, GoOn, BeginPhase,
       TouchRead, TouchWrite, SkipPhase, StartChild, StartChildFails, SetRead, SetWrite,
       SetHeartbeat, ExecReturns, ClearRead, ClearWrite, ClearHeartbeat, PhaseSucceeds,
       PhaseFails, FailWrite, FailRun, FinRun, FinRead, FinWrite, CancelHeartbeat,
       ReleaseRunLock, Stop, ReadForControl, WriteDraft, Step, world, Saved, NotSaved
\* Nobody closes the run of an owner that is there.
<1>2. ~contested => \A a \in Agents : agent[a].pc \notin Finalizing
    BY <1>1 DEF Inductive, SafeInv, ClosersComeLate, OwnerAway
<1>3. \A f \in Finalizers : f \in Agents
    BY DEF Agents
<1>4. /\ pc' = "setWrite" => draft'.child = iter'
      /\ ~contested /\ pc' \in {"setHb", "exec"} => control'.child = iter'
  <2>1. CASE SetRead
    <3>1. control \in Controls
        BY <2>1 DEF SetRead, Step, Inductive, TypeInv, ControlExists, Starting
    <3> QED
        BY <2>1, <3>1 DEF SetRead, Step, Controls
  <2>2. CASE SetWrite \/ SetHeartbeat
      BY <2>2 DEF SetWrite, SetHeartbeat, WriteDraft, WriteControl, Step, loop,
                  ChildIsRecorded
  <2>3. CASE ~(SetRead \/ SetWrite \/ SetHeartbeat)
      BY <2>3 DEF Orchestrate, CreateRun, SaveConfig, AcquireRunLock,
         AcquireRunLockFails, FirstHeartbeat, StartRead, StartWrite, StopOnContext, StopOnAction, StopOnLimit,
         GoOn, BeginPhase, TouchRead, TouchWrite, SkipPhase, StartChild, StartChildFails,
         ExecReturns, ClearRead, ClearWrite, ClearHeartbeat, PhaseSucceeds, PhaseFails,
         FailWrite, FailRun, FinRun, FinRead, FinWrite, CancelHeartbeat, ReleaseRunLock,
         Stop, ReadForControl, WriteDraft, Step, AfterPhase
  <2> QED
      BY <2>1, <2>2, <2>3
<1> QED
    BY <1>1, <1>2, <1>3, <1>4
    DEF ChildIsRecorded, RecordedChildKeepsRun, Finalizing

\* A step of one agent that leaves the orchestrator and the control record as they are.
LEMMA AgentRecordsChild ==
    ASSUME Inductive, ChildIsRecorded, RecordedChildKeepsRun,
           NEW a \in Agents, NEW from, NEW to, AgentStep(a, from, to),
           UNCHANGED <<control, pc, draft, iter, children>>,
           contested => contested',
           ~contested /\ to.pc = "saveWrite" /\ pc \in {"setHb", "exec"}
              => to.draft.child = iter,
           a \in Finalizers /\ to.pc \in Finalizing =>
              \/ agent[a].pc \in Finalizing
              \/ control.child \notin children
    PROVE  ChildIsRecorded' /\ RecordedChildKeepsRun'
<1>1. agent' = [agent EXCEPT ![a] = to] /\ agent \in [Agents -> AgentRecords]
    BY DEF AgentStep, Inductive, TypeInv, TypeOK
<1>2. agent'[a] = to /\ \A b \in Agents \ {a} : agent'[b] = agent[b]
    BY <1>1
<1>3. Finalizers \subseteq Agents
    BY DEF Agents
<1>4. contested \in BOOLEAN
    BY DEF Inductive, TypeInv, TypeOK
<1>5. ChildIsRecorded'
    BY <1>2, <1>4 DEF ChildIsRecorded
<1>6. RecordedChildKeepsRun'
    BY <1>2, <1>3, <1>4 DEF RecordedChildKeepsRun, ChildIsRecorded
<1> QED
    BY <1>5, <1>6

\* FinalizeRun keeps the pid it reads.
LEMMA ReadsKeepChild ==
    ASSUME Inductive, ChildIsRecorded, ~contested, pc \in {"setHb", "exec"},
           NEW status, NEW action
    PROVE  ControlRecord(status, action).child = iter
<1>1. control.child = iter /\ iter > 0
    BY DEF ChildIsRecorded, Inductive, TypeInv, IterationsFollowPhases, InPhase
<1> QED
    BY <1>1 DEF ControlRecord, Positive

\* A write of an agent replaces the record by one with the same pid.
LEMMA AgentWrites ==
    ASSUME Inductive, ChildIsRecorded, RecordedChildKeepsRun, NoPidIsOverwritten,
           NEW a \in Agents, NEW from \in {"saveWrite", "postWrite"}, NEW to,
           AgentStep(a, from, to), to.pc \in {"saveUnlock", "idle"},
           a \in Finalizers => from = "saveWrite",
           control' = agent[a].draft,
           UNCHANGED <<pc, draft, iter, children, contested>>
    PROVE  ChildIsRecorded' /\ RecordedChildKeepsRun'
<1>1. agent' = [agent EXCEPT ![a] = to] /\ agent \in [Agents -> AgentRecords]
      /\ agent[a].pc = from
    BY DEF AgentStep, Inductive, TypeInv, TypeOK
<1>2. agent'[a] = to /\ \A b \in Agents \ {a} : agent'[b] = agent[b]
    BY <1>1
<1>3. Finalizers \subseteq Agents
    BY DEF Agents
<1>4. ~contested /\ pc \in {"setHb", "exec"} => control'.child = iter
    BY <1>1 DEF ChildIsRecorded, NoPidIsOverwritten
<1>5. ChildIsRecorded'
    BY <1>2, <1>4 DEF ChildIsRecorded
<1>6. RecordedChildKeepsRun'
    BY <1>1, <1>2, <1>3 DEF RecordedChildKeepsRun, Finalizing
<1> QED
    BY <1>5, <1>6

LEMMA FinalizeRecords ==
    ASSUME Inductive, ChildIsRecorded, RecordedChildKeepsRun, NoPidIsOverwritten,
           NEW a \in Agents, Finalize(a)
    PROVE  ChildIsRecorded' /\ RecordedChildKeepsRun'
<1> agent[a] \in AgentRecords
    BY DEF Inductive, TypeInv, TypeOK
<1>1. UNCHANGED <<pc, draft, iter, children, contested>>
    BY DEF Finalize, FinalizeSaveRun, FinalizeFails, FinalizeRead, FinalizeWrite, FinalizeUnlock,
           OnlyAgents, loop, world
<1>2. CASE FinalizeSaveRun(a)
  <2> DEFINE to == [agent[a] EXCEPT !.pc = "saveRead"]
  <2>1. to.pc = "saveRead"
      BY DEF AgentRecords
  <2>2. /\ AgentStep(a, "saveRun", to) /\ UNCHANGED control
        /\ agent[a].pc \in Finalizing
      BY <1>2 DEF FinalizeSaveRun, AgentStep, Finalizing
  <2> HIDE DEF to
  <2> QED
      BY <1>1, <2>1, <2>2, AgentRecordsChild
<1>3. CASE FinalizeRead(a)
  <2> DEFINE record == ControlRecord("failed", agent[a].action)
             to == [IdleAgent EXCEPT !.pc = "saveWrite", !.draft = record]
  <2>1. to.pc = "saveWrite" /\ to.draft = record
      BY DEF IdleAgent
  <2>2. ~contested /\ pc \in {"setHb", "exec"} => record.child = iter
      BY ReadsKeepChild
  <2>3. /\ AgentStep(a, "saveRead", to) /\ UNCHANGED control
        /\ agent[a].pc \in Finalizing
      BY <1>3 DEF FinalizeRead, AgentStep, Finalizing, OnlyAgents, files
  <2> HIDE DEF to, record
  <2> QED
      BY <1>1, <2>1, <2>2, <2>3, AgentRecordsChild
<1>4. CASE FinalizeWrite(a)
  <2> DEFINE to == [IdleAgent EXCEPT !.pc = "saveUnlock"]
  <2>1. to.pc = "saveUnlock"
      BY DEF IdleAgent
  <2>2. AgentStep(a, "saveWrite", to) /\ control' = agent[a].draft
      BY <1>4 DEF FinalizeWrite, WriteControl
  <2> HIDE DEF to
  <2> QED
      BY <1>1, <2>1, <2>2, AgentWrites
<1>5. CASE FinalizeUnlock(a)
  <2>1. IdleAgent.pc = "idle"
      BY DEF IdleAgent
  <2>2. AgentStep(a, "saveUnlock", IdleAgent) /\ UNCHANGED control
      BY <1>5 DEF FinalizeUnlock
  <2> QED
      BY <1>1, <2>1, <2>2, AgentRecordsChild DEF Finalizing
<1>6. CASE FinalizeFails(a)
  <2>1. IdleAgent.pc = "idle"
      BY DEF IdleAgent
  <2>2. AgentStep(a, "saveRun", IdleAgent) /\ UNCHANGED control
      BY <1>6 DEF FinalizeFails, OnlyAgents, files
  <2> QED
      BY <1>1, <2>1, <2>2, AgentRecordsChild DEF Finalizing
<1> QED
    BY <1>2, <1>3, <1>4, <1>5, <1>6 DEF Finalize

LEMMA ScanRecords ==
    ASSUME Inductive, ChildIsRecorded, RecordedChildKeepsRun,
           NEW f \in Finalizers, Scan(f)
    PROVE  ChildIsRecorded' /\ RecordedChildKeepsRun'
<1> f \in Agents /\ agent[f] \in AgentRecords
    BY DEF Agents, Inductive, TypeInv, TypeOK
<1>1. UNCHANGED <<control, pc, draft, iter, children, contested>>
    BY DEF Scan, ScanList, ScanLock, ScanHeartbeat, Decide, OnlyAgents, files, loop, world
<1>2. ASSUME NEW from, NEW to, AgentStep(f, from, to),
             to.pc \in Scanning \cup {"idle"} \/ (to.pc = "saveRun" /\ StaleAndDead(f))
      PROVE  ChildIsRecorded' /\ RecordedChildKeepsRun'
    BY <1>1, <1>2, AgentRecordsChild DEF Scanning, Finalizing, StaleAndDead
<1>3. CASE ScanList(f)
  <2> DEFINE to == [IdleAgent EXCEPT !.pc = "scanLock", !.fresh = age.run < Threshold]
  <2>1. to.pc = "scanLock"
      BY DEF IdleAgent
  <2>2. AgentStep(f, "idle", to)
      BY <1>3 DEF ScanList
  <2> QED
      BY <1>2, <2>1, <2>2 DEF Scanning
<1>4. CASE ScanLock(f)
  <2> DEFINE to == [agent[f] EXCEPT !.pc = "scanHb", !.locked = lock]
  <2>1. to.pc = "scanHb"
      BY DEF AgentRecords
  <2>2. AgentStep(f, "scanLock", to)
      BY <1>4 DEF ScanLock
  <2> QED
      BY <1>2, <2>1, <2>2 DEF Scanning
<1>5. CASE ScanHeartbeat(f)
  <2> DEFINE to == [agent[f] EXCEPT !.pc = "decide", !.child = Positive(hbChild),
                       !.fresh = @ \/ (hbChild # NoFile /\ FreshFor(f, age.heartbeat))]
  <2>1. to.pc = "decide"
      BY DEF AgentRecords
  <2>2. AgentStep(f, "scanHb", to)
      BY <1>5 DEF ScanHeartbeat
  <2> QED
      BY <1>2, <2>1, <2>2 DEF Scanning
<1>6. CASE Decide(f)
  <2> DEFINE to == IF StaleAndDead(f) THEN [IdleAgent EXCEPT !.pc = "saveRun", !.action = "stale"]
                   ELSE IdleAgent
  <2>1. to.pc = "idle" \/ (to.pc = "saveRun" /\ StaleAndDead(f))
      BY DEF IdleAgent
  <2>2. AgentStep(f, "decide", to)
      BY <1>6 DEF Decide
  <2> QED
      BY <1>2, <2>1, <2>2
<1> QED
    BY <1>3, <1>4, <1>5, <1>6 DEF Scan

LEMMA PostsRecord ==
    ASSUME Inductive, ChildIsRecorded, RecordedChildKeepsRun, NoPidIsOverwritten,
           NEW p \in Agents, p \notin Finalizers, Post(p)
    PROVE  ChildIsRecorded' /\ RecordedChildKeepsRun'
<1>1. CASE PostRead(p)
  <2> DEFINE to == [IdleAgent EXCEPT
                        !.pc = "postWrite",
                        !.draft = ControlRecord(agent[p].seen, agent[p].action)]
  <2>1. to.pc = "postWrite"
      BY DEF IdleAgent
  <2>2. /\ AgentStep(p, "postRead", to)
        /\ UNCHANGED <<control, pc, draft, iter, children, contested>>
      BY <1>1 DEF PostRead, OnlyAgents, files, loop, world
  <2> HIDE DEF to
  <2> QED
      BY <2>1, <2>2, AgentRecordsChild
<1>2. CASE PostWrite(p)
  <2>1. IdleAgent.pc = "idle"
      BY DEF IdleAgent
  <2>2. /\ AgentStep(p, "postWrite", IdleAgent) /\ control' = agent[p].draft
        /\ UNCHANGED <<pc, draft, iter, children, contested>>
      BY <1>2 DEF PostWrite, WriteControl, loop, world
  <2> QED
      BY <2>1, <2>2, AgentWrites
<1> QED
    BY <1>1, <1>2 DEF Post

LEMMA KillRecords ==
    ASSUME Inductive, ChildIsRecorded, RecordedChildKeepsRun, NoPidIsOverwritten,
           NEW k \in Killers, Kill(k)
    PROVE  ChildIsRecorded' /\ RecordedChildKeepsRun'
<1> k \in Agents /\ k \notin Finalizers /\ agent[k] \in AgentRecords
    BY AgentsDisjoint DEF Agents, Inductive, TypeInv, TypeOK
<1>1. CASE KillBegin(k)
  <2> DEFINE to == [IdleAgent EXCEPT !.pc = "killLock", !.seen = Merged, !.action = "kill"]
  <2>1. to.pc = "killLock"
      BY DEF IdleAgent
  <2>2. /\ AgentStep(k, "idle", to)
        /\ UNCHANGED <<control, pc, draft, iter, children, contested>>
      BY <1>1 DEF KillBegin, Request, files, loop
  <2> HIDE DEF to
  <2> QED
      BY <2>1, <2>2, AgentRecordsChild
<1>2. CASE KillCheck(k)
  <2> DEFINE to == IF LockIsLive THEN [agent[k] EXCEPT !.pc = "killSignal"]
                   ELSE [IdleAgent EXCEPT !.pc = "saveRun", !.action = "kill"]
  <2>1. to.pc \in {"killSignal", "saveRun"}
      BY DEF AgentRecords, IdleAgent
  <2>2. /\ AgentStep(k, "killLock", to)
        /\ contested => contested'
        /\ UNCHANGED <<control, pc, draft, iter, children>>
      BY <1>2 DEF KillCheck, files, loop, world
  <2> HIDE DEF to
  <2> QED
      BY <2>1, <2>2, AgentRecordsChild
<1>3. CASE KillSignal(k)
  <2> DEFINE to == [agent[k] EXCEPT !.pc = "postRead"]
  <2>1. to.pc = "postRead"
      BY DEF AgentRecords
  <2>2. /\ AgentStep(k, "killSignal", to)
        /\ UNCHANGED <<control, pc, draft, iter, children, contested>>
      BY <1>3 DEF KillSignal, OnlyAgents, files, loop, world
  <2> HIDE DEF to
  <2> QED
      BY <2>1, <2>2, AgentRecordsChild
<1>4. CASE Post(k)
    BY <1>4, PostsRecord
<1>5. CASE Finalize(k)
    BY <1>5, FinalizeRecords
<1> QED
    BY <1>1, <1>2, <1>3, <1>4, <1>5 DEF Kill

LEMMA EnvironmentRecords ==
    ASSUME Inductive, ChildIsRecorded, RecordedChildKeepsRun, Environment
    PROVE  ChildIsRecorded' /\ RecordedChildKeepsRun'
<1>1. /\ UNCHANGED <<control, pc, draft, iter, contested>>
      /\ children' \subseteq children
    BY DEF Environment, Crash, Exit, CancelContext, ChildExits, Tick, files, loop, world
<1>2. Finalizers \subseteq Agents
    BY DEF Agents
<1>3. \A a \in Agents : agent'[a].pc = agent[a].pc /\ agent'[a].draft = agent[a].draft
  <2>1. CASE Tick
    <3> SUFFICES ASSUME NEW a \in Agents
                 PROVE  agent'[a].pc = agent[a].pc /\ agent'[a].draft = agent[a].draft
        OBVIOUS
    <3>1. agent[a] \in AgentRecords
        BY DEF Inductive, TypeInv, TypeOK
    <3> QED
        BY <2>1, <3>1 DEF Tick, AgentRecords
  <2>2. CASE ~Tick
      BY <2>2 DEF Environment, Crash, Exit, CancelContext, ChildExits
  <2> QED
      BY <2>1, <2>2
<1> QED
    BY <1>1, <1>2, <1>3 DEF ChildIsRecorded, RecordedChildKeepsRun

LEMMA PostRecords ==
    ASSUME Inductive, ChildIsRecorded, RecordedChildKeepsRun, NoPidIsOverwritten,
           NEW p \in Posters, PostBegin(p) \/ Post(p)
    PROVE  ChildIsRecorded' /\ RecordedChildKeepsRun'
<1> p \in Agents /\ p \notin Finalizers
    BY AgentsDisjoint DEF Agents
<1>1. CASE PostBegin(p)
  <2>1. PICK action \in PostActions :
           AgentStep(p, "idle", [IdleAgent EXCEPT !.pc = "postRead", !.seen = Merged,
                                                  !.action = action])
      BY <1>1, Zenon DEF PostBegin
  <2> DEFINE to == [IdleAgent EXCEPT !.pc = "postRead", !.seen = Merged, !.action = action]
  <2>2. to.pc = "postRead"
      BY DEF IdleAgent
  <2>3. UNCHANGED <<control, pc, draft, iter, children, contested>>
    <3>1. Request
        BY <1>1, Zenon DEF PostBegin
    <3> QED
        BY <3>1 DEF Request, files, loop
  <2>4. AgentStep(p, "idle", to)
      BY <2>1
  <2> HIDE DEF to
  <2> QED
      BY <2>2, <2>3, <2>4, AgentRecordsChild
<1>2. CASE Post(p)
    BY <1>2, PostsRecord
<1> QED
    BY <1>1, <1>2

\* With any number of finalizers, kills and API requests, a recorded child keeps its run
\* from being closed as stale, unless a request or a kill overwrites the record that holds its
\* pid: one that reads before SetRunChildPID and writes after does.
THEOREM RecordedChildrenKeepRuns ==
    Spec /\ []NoPidIsOverwritten => []RecordedChildKeepsRun
<1> DEFINE Recorded == ChildIsRecorded /\ RecordedChildKeepsRun
<1>1. Init => Recorded
    BY DEF Init, ChildIsRecorded, RecordedChildKeepsRun, IdleAgent
<1>2. Inductive /\ Recorded /\ NoPidIsOverwritten /\ [Next]_vars => Recorded'
  <2> SUFFICES ASSUME Inductive, Recorded, NoPidIsOverwritten, [Next]_vars PROVE Recorded'
      OBVIOUS
  <2>1. CASE Orchestrate
      BY <2>1, OrchestrateRecords
  <2>2. CASE Beat \/ UNCHANGED vars
      BY <2>2 DEF Beat, HeartbeatTop, HeartbeatWrite, WriteHeartbeat, vars, files, loop,
                  world, ChildIsRecorded, RecordedChildKeepsRun
  <2>3. ASSUME NEW f \in Finalizers, Scan(f) \/ Finalize(f) PROVE Recorded'
      BY <2>3, ScanRecords, FinalizeRecords DEF Agents
  <2>4. ASSUME NEW k \in Killers, Kill(k) PROVE Recorded'
      BY <2>4, KillRecords
  <2>5. ASSUME NEW p \in Posters, PostBegin(p) \/ Post(p) PROVE Recorded'
      BY <2>5, PostRecords
  <2>6. CASE Environment
      BY <2>6, EnvironmentRecords
  <2> QED
      BY <2>1, <2>2, <2>3, <2>4, <2>5, <2>6 DEF Next
<1> QED
    BY <1>1, <1>2, InductiveIsKept, PTL DEF Spec

-----------------------------------------------------------------------------
(* Refinement: the outcome of the run *)

THEOREM InitRefines == Init => Promise!Init
BY DEF Init, Promise!Init, Owner

LEMMA OrchestrateRefines ==
    ASSUME TypeInv, SafeInv, Orchestrate
    PROVE  [Promise!Next]_<<runStatus, Owner, contested, unsaved>>
<1> USE DEF Step, Owner, files, loop, world, Holding, Promise!AtWork, Saved, NotSaved
\* At work the owner finds the status it has left, or somebody has contested the run.
<1>0. pc \notin Done \cup {"create"} => runStatus = "running" \/ contested
    BY DEF SafeInv, StatusFollowsOwner, Orchestrate, CreateRun, SaveConfig, AcquireRunLock,
       AcquireRunLockFails, FirstHeartbeat, StartRead, StartWrite, StopOnContext,
       StopOnAction, StopOnLimit, GoOn, BeginPhase, TouchRead, TouchWrite, SkipPhase,
       StartChild, StartChildFails, SetRead, SetWrite, SetHeartbeat, ExecReturns, ClearRead,
       ClearWrite, ClearHeartbeat, PhaseSucceeds, PhaseFails, FailWrite, FailRun, FinRun,
       FinRead, FinWrite, CancelHeartbeat, ReleaseRunLock, Stop, ReadForControl, WriteDraft
<1>1. CASE CreateRun
    BY <1>1 DEF CreateRun, Promise!Next, Promise!Begin
<1>2. CASE SaveConfig
  <2>1. runStatus = "running" \/ contested
      BY <1>0, <1>2 DEF SaveConfig, Done
  <2>2. CASE Step("save", "lock") /\ Saved("running")
      BY <1>2, <2>1, <2>2 DEF SaveConfig, Promise!Next, Promise!Resume
  <2>3. CASE Step("save", "returned") /\ NotSaved
      BY <1>2, <2>3 DEF SaveConfig, Promise!Next, Promise!Lose
  <2>4. \/ Step("save", "lock") /\ Saved("running")
        \/ Step("save", "returned") /\ NotSaved
      BY <1>2, Zenon DEF SaveConfig
  <2> QED
      BY <2>2, <2>3, <2>4, Zenon
<1>3. CASE AcquireRunLock
    BY <1>3 DEF AcquireRunLock, Promise!Next, Promise!Hold
<1>4. CASE AcquireRunLockFails
  <2>1. runStatus = "running" \/ contested
      BY <1>0, <1>4 DEF AcquireRunLockFails, Done
  <2>2. CASE Saved("failed")
      BY <1>4, <2>1, <2>2 DEF AcquireRunLockFails, Promise!Next, Promise!Refuse
  <2>3. CASE NotSaved
    <3>1. Owner = "starting" /\ Owner' = "gone"
        BY <1>4 DEF AcquireRunLockFails
    <3>2. unsaved' = TRUE /\ UNCHANGED <<runStatus, contested>>
        BY <2>3
    <3> HIDE DEF Owner
    <3> QED
        BY <3>1, <3>2 DEF Promise!Next, Promise!Lose
  <2>4. Saved("failed") \/ NotSaved
      BY <1>4, Zenon DEF AcquireRunLockFails
  <2> QED
      BY <2>2, <2>3, <2>4, Zenon
<1>5. CASE BeginPhase
  <2>1. runStatus = "running" \/ contested
      BY <1>0, <1>5 DEF BeginPhase, Done
  <2>2. CASE Saved("running")
      BY <1>5, <2>1, <2>2 DEF BeginPhase, Promise!Next, Promise!Resume
  <2>3. CASE NotSaved
      BY <1>5, <2>3 DEF BeginPhase, Promise!Next, Promise!Lose
  <2>4. Saved("running") \/ NotSaved
      BY <1>5, Zenon DEF BeginPhase
  <2> QED
      BY <2>2, <2>3, <2>4, Zenon
<1>6. CASE FinRun \/ FailRun
  <2>1. runStatus = "running" \/ contested
      BY <1>0, <1>6 DEF FinRun, FailRun, Done
  <2>2. CASE Saved(outcome.status) \/ Saved("failed")
    <3>1. "failed" \in Promise!Ended /\ outcome.status \in Promise!Ended
        BY DEF TypeInv, TypeOK, Outcomes, Promise!Ended
    <3> QED
        BY <1>6, <2>1, <2>2, <3>1 DEF FinRun, FailRun, Promise!Next, Promise!Finish
  <2>3. CASE NotSaved
    <3>1. Owner = "working" /\ Owner' = Owner
        BY <1>6 DEF FinRun, FailRun
    <3>2. unsaved' = TRUE /\ UNCHANGED <<runStatus, contested>>
        BY <2>3
    <3> HIDE DEF Owner
    <3> QED
        BY <3>1, <3>2 DEF Promise!Next, Promise!Lose
  <2>4. Saved(outcome.status) \/ Saved("failed") \/ NotSaved
      BY <1>6, Zenon DEF FinRun, FailRun
  <2> QED
      BY <2>2, <2>3, <2>4, Zenon
<1>7. CASE ReleaseRunLock
  <2>1. runStatus \in Promise!Ended \/ unsaved
      BY <1>7 DEF ReleaseRunLock, SafeInv, StatusFollowsOwner, Done, Promise!Ended
  <2> QED
      BY <1>7, <2>1 DEF ReleaseRunLock, Promise!Next, Promise!Leave
<1>8. CASE ~(CreateRun \/ SaveConfig \/ AcquireRunLock \/ AcquireRunLockFails
             \/ BeginPhase \/ FinRun \/ FailRun \/ ReleaseRunLock)
  <2>1. UNCHANGED <<runStatus, contested, unsaved>>
      BY <1>8 DEF Orchestrate, FirstHeartbeat, StartRead, StartWrite,
         StopOnContext, StopOnAction, StopOnLimit, GoOn, TouchRead, TouchWrite, SkipPhase,
         StartChild, StartChildFails, SetRead, SetWrite, SetHeartbeat, ExecReturns,
         ClearRead, ClearWrite, ClearHeartbeat, PhaseSucceeds, PhaseFails, FailWrite,
         FinRead, FinWrite, CancelHeartbeat, Stop, ReadForControl, WriteDraft
  <2>2. /\ proc' = proc
        /\ pc \notin {"create", "returned"} \cup Lockless
        /\ pc' \notin {"create", "returned"} \cup Lockless
      BY <1>8 DEF Orchestrate, FirstHeartbeat, StartRead, StartWrite,
         StopOnContext, StopOnAction, StopOnLimit, GoOn, TouchRead, TouchWrite, SkipPhase,
         StartChild, StartChildFails, SetRead, SetWrite, SetHeartbeat, ExecReturns,
         ClearRead, ClearWrite, ClearHeartbeat, PhaseSucceeds, PhaseFails, FailWrite,
         FinRead, FinWrite, CancelHeartbeat, Stop, ReadForControl, WriteDraft, AfterPhase
  <2> QED
      BY <2>1, <2>2
<1> QED
    BY <1>1, <1>2, <1>3, <1>4, <1>5, <1>6, <1>7, <1>8

LEMMA FinalizeRefines ==
    ASSUME TypeInv, SafeInv, NEW a \in Agents, Finalize(a)
    PROVE  [Promise!Next]_<<runStatus, Owner, contested, unsaved>>
<1> USE DEF Owner, OnlyAgents, files, world
<1>1. CASE FinalizeSaveRun(a)
  <2>1. (contested \/ OwnerAway) /\ pc # "create"
      BY <1>1 DEF FinalizeSaveRun, AgentStep, SafeInv, ClosersComeLate, Finalizing
  <2>2. Owner \in {"dead", "gone"} \/ contested
      BY <2>1 DEF OwnerAway, SafeInv, OwnerState, TypeInv, TypeOK
  <2> QED
      BY <1>1, <2>2 DEF FinalizeSaveRun, Promise!Next, Promise!Close
<1>2. CASE ~FinalizeSaveRun(a)
    BY <1>2 DEF Finalize, FinalizeFails, FinalizeRead, FinalizeWrite, FinalizeUnlock
<1> QED
    BY <1>1, <1>2

LEMMA KillRefines ==
    ASSUME TypeInv, SafeInv, NEW k \in Killers, Kill(k)
    PROVE  [Promise!Next]_<<runStatus, Owner, contested, unsaved>>
<1> USE DEF Owner, OnlyAgents, files, world
<1>1. CASE KillCheck(k)
  <2>1. CASE proc = "live" /\ pc \in Lockless
      BY <1>1, <2>1 DEF KillCheck, Promise!Next, Promise!Contest, TypeInv, TypeOK
  <2>2. CASE ~(proc = "live" /\ pc \in Lockless)
    <3>1. contested' = contested
        BY <1>1, <2>2 DEF KillCheck, TypeInv, TypeOK
    <3> QED
        BY <1>1, <3>1 DEF KillCheck
  <2> QED
      BY <2>1, <2>2
<1>2. CASE Finalize(k)
    BY <1>2, FinalizeRefines DEF Agents
<1>3. CASE KillBegin(k) \/ KillSignal(k) \/ Post(k)
    BY <1>3 DEF KillBegin, Request, KillSignal, Post, PostRead, PostWrite
<1> QED
    BY <1>1, <1>2, <1>3 DEF Kill

THEOREM NextRefines ==
    TypeInv /\ SafeInv /\ [Next]_vars
        => [Promise!Next]_<<runStatus, Owner, contested, unsaved>>
<1> SUFFICES ASSUME TypeInv, SafeInv, [Next]_vars
             PROVE  [Promise!Next]_<<runStatus, Owner, contested, unsaved>>
    OBVIOUS
<1>1. CASE Orchestrate
    BY <1>1, OrchestrateRefines
<1>2. CASE Beat
    BY <1>2 DEF Beat, HeartbeatTop, HeartbeatWrite, Owner, files, world
<1>3. ASSUME NEW f \in Finalizers, Scan(f) \/ Finalize(f)
      PROVE  [Promise!Next]_<<runStatus, Owner, contested, unsaved>>
  <2>1. CASE Scan(f)
      BY <2>1 DEF Scan, ScanList, ScanLock, ScanHeartbeat, Decide, OnlyAgents, files,
                  world, Owner
  <2> QED
      BY <1>3, <2>1, FinalizeRefines DEF Agents
<1>4. ASSUME NEW p \in Posters, PostBegin(p) \/ Post(p)
      PROVE  [Promise!Next]_<<runStatus, Owner, contested, unsaved>>
  <2>1. Request \/ Post(p)
      BY <1>4, Zenon DEF PostBegin
  <2> QED
      BY <2>1 DEF Request, Post, PostRead, PostWrite, OnlyAgents, files, world, Owner
<1>5. ASSUME NEW k \in Killers, Kill(k)
      PROVE  [Promise!Next]_<<runStatus, Owner, contested, unsaved>>
    BY <1>5, KillRefines
<1>6. CASE Environment
  <2>1. CASE Crash
      BY <2>1 DEF Crash, Promise!Next, Promise!Die, Promise!AtWork, Owner, files
  <2>2. CASE ~Crash
      BY <1>6, <2>2 DEF Environment, Exit, CancelContext, ChildExits, Tick, Owner, files,
                        loop, world, SafeInv, OwnerState
  <2> QED
      BY <2>1, <2>2
<1>7. CASE UNCHANGED vars
    BY <1>7 DEF vars, files, world, Owner
<1> QED
    BY <1>1, <1>2, <1>3, <1>4, <1>5, <1>6, <1>7 DEF Next

THEOREM OutcomeIsKept == Spec => OutcomeKept
<1>1. Init => Promise!Init
    BY InitRefines
<1>2. Inductive /\ [Next]_vars => [Promise!Next]_<<runStatus, Owner, contested, unsaved>>
    BY NextRefines DEF Inductive
<1>3. Promise!vars = <<runStatus, Owner, contested, unsaved>>
    BY DEF Promise!vars
<1> QED
    BY <1>1, <1>2, <1>3, InductiveIsKept, PTL DEF Spec, OutcomeKept, Promise!Spec, Promise!vars

=============================================================================
