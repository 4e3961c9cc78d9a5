----------------------------- MODULE RunLifecycle -----------------------------
(***************************************************************************)
(* One run of autocodex and everybody who writes its files.                *)
(*                                                                         *)
(* The run lives in four files of the state directory: run.json (the       *)
(* status), control.json (status, requested action, pid of the codex       *)
(* child), run.lock and heartbeat.json.  They are written without a common *)
(* lock by the orchestrator that owns the run, by its heartbeat goroutine, *)
(* by every process that runs FinalizeStaleRuns (the watchdogs of the API  *)
(* server and of other runs, `autocodex status`), by the API handler of    *)
(* POST /runs/{id}/control and by `autocodex kill`.  The owner may die at  *)
(* any step and leave its codex child running.                             *)
(*                                                                         *)
(* One read or one write of one file is one step.  GetRun and ListRuns     *)
(* read run.json and then control.json: they are one step here, because    *)
(* merging prefers a terminal run.json and so returns what one of the two  *)
(* instants would have returned.                                           *)
(*                                                                         *)
(* Time is an age per file, in ticks, that a write resets; a run goes      *)
(* stale after Threshold ticks without a write.  No tick falls into a      *)
(* stretch of the code that is a handful of file operations long: the      *)
(* start of a run, a control record between its stamp and its write, the   *)
(* two writes that record a failed phase.                                  *)
(*                                                                         *)
(* Two history variables, which no action reads, name what the properties  *)
(* except: contested, a kill that came before the owner had its lock and   *)
(* closed the run over its head; unsaved, a write of run.json by the owner *)
(* that failed.                                                            *)
(*                                                                         *)
(* A definition whose name ends in _ and a word is a bug planted in the    *)
(* one that follows it: put in its place it must break a property.         *)
(***************************************************************************)
EXTENDS Integers, FiniteSets

CONSTANTS
    Finalizers,     \* processes that call FinalizeStaleRuns
    Posters,        \* API requests that post a control action
    Killers,        \* invocations of `autocodex kill`
    PostActions,    \* the actions the posters may send
    Continuous,     \* loop.mode = "continuous"
    PhaseCount,     \* number of loop.phases
    MaxIterations,  \* loop.max_iterations, which only a continuous loop reads
    MaxFailures,    \* loop.stop_conditions.max_consecutive_failures, 0 for none
    TimeLimits,     \* max_duration or max_idle is set
    Cancelable,     \* the caller may cancel the run's context
    SavesFail,      \* a write of run.json may fail and leave the file as it was
    Threshold,      \* loop.stop_conditions.max_heartbeat_seconds, in ticks
    MaxScan,        \* bound of the model: the ticks one FinalizeStaleRuns may last
    MaxRequests     \* bound of the model: how often posters and killers ask

\* One client may post control actions and run `autocodex kill`, one at a time.
ASSUME AgentsDisjoint == Finalizers \cap (Posters \cup Killers) = {}

ASSUME LoopConfig == /\ Continuous \in BOOLEAN
                     /\ TimeLimits \in BOOLEAN
                     /\ Cancelable \in BOOLEAN
                     /\ SavesFail \in BOOLEAN
                     /\ PhaseCount \in Nat \ {0}
                     /\ MaxIterations \in Nat \ {0}
                     /\ MaxFailures \in Nat

ASSUME ClockConfig == /\ Threshold \in Nat \ {0}
                      /\ MaxScan \in Nat
                      /\ MaxRequests \in Nat

ASSUME ActionsAreValid == PostActions \subseteq {"resume", "stop", "cancel", "kill"}

VARIABLES
    runStatus,  \* run.json
    control,    \* control.json
    lock,       \* run.lock exists
    hbChild,    \* heartbeat.json: child_pid, or NoFile before the first write
    age,        \* ticks since each file was written
    proc,       \* the process that owns the run
    pc,         \* where Orchestrator.Run is
    draft,      \* the control record it holds between a read and a write
    touched,    \* the child pid TouchRunHeartbeat has read
    outcome,    \* what shouldStop returned: status and action
    iter,       \* run.Iterations
    pos,        \* index of the phase in the current pass
    fails,      \* consecutiveFailures
    ctxDone,    \* the context of the run is canceled
    hpc,        \* where heartbeatLoop is
    htouched,   \* the child pid heartbeatLoop has read
    children,   \* pids of the codex children that are alive
    requests,   \* how often posters and killers have asked
    agent,      \* finalizers, posters and killers
    contested,  \* a kill found the run without a lock before its owner had acquired it
    unsaved     \* a SaveRun of the owner has failed

files == <<runStatus, control, lock, hbChild, age>>
loop == <<draft, touched, outcome, iter, pos, fails>>
world == <<proc, ctxDone, children, requests>>
beat == <<hpc, htouched>>
history == <<contested, unsaved>>
vars == <<files, pc, loop, world, beat, agent, history>>
-----------------------------------------------------------------------------
(* Values *)

Agents == Finalizers \cup Posters \cup Killers

Terminal == {"completed", "canceled", "failed"}
Statuses == {"running"} \cup Terminal
ControlActions == {"none", "resume", "stop", "cancel", "kill", "stale"}

NoPid == -1    \* child_pid is absent
ZeroPid == 0   \* ClearRunChildPID stores a pointer to zero
NoFile == -2   \* heartbeat.json does not exist

\* A phase that starts a child is an iteration of its own: its number names the child.
Pids == Nat \ {0}
Controls == [status : Statuses, action : ControlActions, child : Int]
NoControl == [status |-> "absent", action |-> "none", child |-> NoPid]

\* Recording a pid keeps only a positive one.
Positive(pid) == IF pid > 0 THEN pid ELSE NoPid

\* SaveRunControl: the record to write, which inherits the child pid on disk.
ControlRecord(status, action) ==
    [status |-> status, action |-> action, child |-> Positive(control.child)]

\* mergeRunControl: the control status shows only while run.json says running.
Merged == IF runStatus = "running" /\ control # NoControl
          THEN control.status ELSE runStatus

\* run.json exists, so that others list the run, and run.lock does not.
Lockless == {"save", "lock"}

\* The first steps of a run.
Starting == {"create", "touch", "startRead", "startWrite"} \cup Lockless

\* The writes of run.lock's holder: from acquisition to release.
Holding == {"touch", "startRead", "startWrite", "check", "begin", "touchRead",
            "touchWrite", "start", "setRead", "setWrite", "setHb", "exec",
            "clearRead", "clearWrite", "clearHb", "result",
            "failWrite", "failRun", "finRun", "finRead", "finWrite", "finished",
            "unlock"}

Brief == {"startRead", "startWrite", "setWrite", "clearWrite", "failRun",
          "failWrite", "finRead", "finWrite"}

IdleAgent == [pc |-> "idle", seen |-> "running", fresh |-> FALSE, locked |-> FALSE,
              since |-> 0, child |-> NoPid, action |-> "none", draft |-> NoControl]

\* No comparison tells ages beyond this one apart.
MaxAge == Threshold + MaxScan
Older(ticks) == IF ticks < MaxAge THEN ticks + 1 ELSE ticks
-----------------------------------------------------------------------------
(* The run does not exist yet *)

Init ==
    /\ runStatus = "absent"
    /\ control = NoControl
    /\ lock = FALSE
    /\ hbChild = NoFile
    /\ age = [run |-> 0, control |-> 0, heartbeat |-> 0]
    /\ proc = "live"
    /\ pc = "create"
    /\ draft = NoControl
    /\ touched = NoPid
    /\ outcome = [status |-> "completed", action |-> "none"]
    /\ iter = 0
    /\ pos = 0
    /\ fails = 0
    /\ ctxDone = FALSE
    /\ hpc = "off"
    /\ htouched = NoPid
    /\ children = {}
    /\ requests = 0
    /\ agent = [a \in Agents |-> IdleAgent]
    /\ contested = FALSE
    /\ unsaved = FALSE
-----------------------------------------------------------------------------
(* Orchestrator.Run: the start *)

\* The orchestrator takes a step from one label to another.
Step(from, to) == proc = "live" /\ pc = from /\ pc' = to

WriteControl(record) == /\ control' = record
                        /\ age' = [age EXCEPT !.control = 0]

WriteHeartbeat(pid) == /\ hbChild' = pid
                       /\ age' = [age EXCEPT !.heartbeat = 0]

\* SaveRun of the owner, which replaces whatever run.json says by now.
Saved(status) == runStatus' = status /\ UNCHANGED history
NotSaved == /\ SavesFail
            /\ unsaved' = TRUE
            /\ UNCHANGED <<runStatus, contested>>

CreateRun ==
    /\ Step("create", "save")
    /\ runStatus' = "running"
    /\ age' = [age EXCEPT !.run = 0]
    /\ UNCHANGED <<control, lock, hbChild, loop, world, beat, agent, history>>

\* The second SaveRun adds the configuration; on an error Run returns.
SaveConfig ==
    /\ \/ Step("save", "lock") /\ Saved("running")
       \/ Step("save", "returned") /\ NotSaved
    /\ UNCHANGED <<control, lock, hbChild, age, loop, world, beat, agent>>

AcquireRunLock ==
    /\ Step("lock", "touch")
    /\ lock' = TRUE
    /\ UNCHANGED <<runStatus, control, hbChild, age, loop, world, beat, agent, history>>

AcquireRunLockFails ==
    /\ Step("lock", "returned")
    /\ Saved("failed") \/ NotSaved
    /\ UNCHANGED <<control, lock, hbChild, age, loop, world, beat, agent>>

\* The first heartbeat finds no file; then the heartbeat goroutine starts.
FirstHeartbeat ==
    /\ Step("touch", "startRead")
    /\ WriteHeartbeat(NoPid)
    /\ hpc' = "top"
    /\ UNCHANGED <<runStatus, control, lock, loop, world, htouched, agent, history>>

\* A SaveRunControl of the orchestrator: first the record on disk is read ...
ReadForControl(from, to, status, action) ==
    /\ Step(from, to)
    /\ draft' = ControlRecord(status, action)
    /\ UNCHANGED <<files, touched, outcome, iter, pos, fails, world, beat, agent, history>>

\* ... then the new one replaces whatever is there by now.
WriteDraft(from, to) ==
    /\ Step(from, to)
    /\ WriteControl(draft)
    /\ draft' = NoControl
    /\ UNCHANGED <<runStatus, lock, hbChild, touched, outcome, iter, fails,
                   world, beat, agent, history>>

StartRead == ReadForControl("startRead", "startWrite", "running", "none")
StartWrite == WriteDraft("startWrite", "check") /\ UNCHANGED pos
-----------------------------------------------------------------------------
(* Orchestrator.Run: shouldStop *)

StopActions == {"stop", "cancel", "kill"}

\* max_iterations is looked at first, then the time limits, then the failures.
LimitOutcomes ==
    IF iter >= MaxIterations THEN {"completed"}
    ELSE (IF TimeLimits THEN {"completed", "canceled"} ELSE {})
         \cup (IF MaxFailures > 0 /\ fails >= MaxFailures THEN {"failed"} ELSE {})

\* Mutant: one iteration too many.
LimitReached_Late == \/ iter > MaxIterations
                     \/ MaxFailures > 0 /\ fails >= MaxFailures

LimitReached == \/ iter >= MaxIterations
                \/ MaxFailures > 0 /\ fails >= MaxFailures

Stop(status, action) ==
    /\ Step("check", "finRun")
    /\ outcome' = [status |-> status, action |-> action]
    /\ UNCHANGED <<files, draft, touched, iter, pos, fails, world, beat, agent, history>>

StopOnContext == ctxDone /\ Stop("canceled", "none")

StopOnAction ==
    /\ ~ctxDone
    /\ control.action \in StopActions
    /\ Stop(IF control.action = "kill" THEN "failed" ELSE "canceled", control.action)

StopOnLimit ==
    /\ ~ctxDone
    /\ control.action \notin StopActions
    /\ Continuous
    /\ \E status \in LimitOutcomes : Stop(status, "none")

GoOn ==
    /\ ~ctxDone
    /\ control.action \notin StopActions
    /\ Continuous => ~LimitReached
    /\ Step("check", "begin")
    /\ UNCHANGED <<files, loop, world, beat, agent, history>>
-----------------------------------------------------------------------------
(* Orchestrator.Run: one phase *)

\* Mutant: the iteration is not counted.
BeginPhase_Uncounted ==
    /\ Step("begin", "touchRead")
    /\ Saved("running")
    /\ UNCHANGED <<control, lock, hbChild, age, loop, world, beat, agent>>

\* Mutant: Run returns at once, past the deferred calls.
BeginPhase_NotDeferred ==
    /\ \/ Step("begin", "touchRead") /\ Saved("running")
       \/ Step("begin", "returned") /\ NotSaved
    /\ iter' = iter + 1
    /\ UNCHANGED <<control, lock, hbChild, age, draft, touched, outcome, pos, fails,
                   world, beat, agent>>

\* An error of SaveRun returns from Run, with the deferred calls and nothing else.
BeginPhase ==
    /\ \/ Step("begin", "touchRead") /\ Saved("running")
       \/ Step("begin", "finished") /\ NotSaved
    /\ iter' = iter + 1
    /\ UNCHANGED <<control, lock, hbChild, age, draft, touched, outcome, pos, fails,
                   world, beat, agent>>

TouchRead ==
    /\ Step("touchRead", "touchWrite")
    /\ touched' = Positive(hbChild)
    /\ UNCHANGED <<files, draft, outcome, iter, pos, fails, world, beat, agent, history>>

TouchWrite ==
    /\ Step("touchWrite", "start")
    /\ WriteHeartbeat(touched)
    /\ touched' = NoPid
    /\ UNCHANGED <<runStatus, control, lock, draft, outcome, iter, pos, fails,
                   world, beat, agent, history>>

\* After a phase: the next one, the next pass, or the end of a bounded run.
LastPhase == pos + 1 = PhaseCount
AfterPhase == IF LastPhase /\ ~Continuous THEN "finRun" ELSE "check"
NextPos == IF LastPhase THEN 0 ELSE pos + 1

\* The review guardrail skips a phase whose prompt is too long.
SkipPhase ==
    /\ Step("start", AfterPhase)
    /\ pos' = NextPos
    /\ outcome' = [status |-> "completed", action |-> "none"]
    /\ UNCHANGED <<files, draft, touched, iter, fails, world, beat, agent, history>>

\* cmd.Start succeeds: a codex child runs, and only then is its pid reported.
StartChild ==
    /\ Step("start", "setRead")
    /\ children' = children \cup {iter}
    /\ UNCHANGED <<files, loop, proc, ctxDone, requests, beat, agent, history>>

StartChildFails ==
    /\ Step("start", "clearRead")
    /\ fails' = fails + 1
    /\ UNCHANGED <<files, draft, touched, outcome, iter, pos, world, beat, agent, history>>

\* SetRunChildPID: control.json is read, changed and saved, then heartbeat.json.
SetRead ==
    /\ Step("setRead", "setWrite")
    /\ draft' = [control EXCEPT !.child = iter]
    /\ UNCHANGED <<files, touched, outcome, iter, pos, fails, world, beat, agent, history>>

SetWrite == WriteDraft("setWrite", "setHb") /\ UNCHANGED pos

SetHeartbeat ==
    /\ Step("setHb", "exec")
    /\ WriteHeartbeat(iter)
    /\ UNCHANGED <<runStatus, control, lock, loop, world, beat, agent, history>>

\* Exec returns: the child has ended, or the runner kills it and waits for it.
ExecReturns(ok) ==
    /\ Step("exec", "clearRead")
    /\ children' = children \ {iter}
    /\ fails' = IF ok THEN 0 ELSE fails + 1
    /\ UNCHANGED <<files, draft, touched, outcome, iter, pos, proc, ctxDone, requests,
                   beat, agent, history>>

\* ClearRunChildPID writes control.json only if it names a child.
ClearRead ==
    /\ Step("clearRead", IF control.child = NoPid THEN "clearHb" ELSE "clearWrite")
    /\ draft' = IF control.child = NoPid THEN NoControl
                ELSE [control EXCEPT !.child = ZeroPid]
    /\ UNCHANGED <<files, touched, outcome, iter, pos, fails, world, beat, agent, history>>

ClearWrite == WriteDraft("clearWrite", "clearHb") /\ UNCHANGED pos

ClearHeartbeat ==
    /\ Step("clearHb", "result")
    /\ WriteHeartbeat(NoPid)
    /\ UNCHANGED <<runStatus, control, lock, loop, world, beat, agent, history>>

PhaseSucceeds ==
    /\ fails = 0
    /\ Step("result", AfterPhase)
    /\ pos' = NextPos
    /\ outcome' = [status |-> "completed", action |-> "none"]
    /\ UNCHANGED <<files, draft, touched, iter, fails, world, beat, agent, history>>

\* A failed phase ends the run, except for the first failures of a continuous one.
Tolerated == Continuous /\ MaxFailures > 0 /\ fails < MaxFailures

PhaseFails ==
    /\ fails > 0
    /\ ReadForControl("result", "failWrite",
                      IF Tolerated THEN "running" ELSE "failed", "none")

FailWrite ==
    /\ WriteDraft("failWrite", IF Tolerated THEN AfterPhase ELSE "failRun")
    /\ pos' = IF Tolerated THEN NextPos ELSE pos

\* Mutant: only control.json says that the run failed.
FailRun_ControlOnly ==
    /\ Step("failRun", "finished")
    /\ UNCHANGED <<files, loop, world, beat, agent, history>>

FailRun ==
    /\ Step("failRun", "finished")
    /\ Saved("failed") \/ NotSaved
    /\ UNCHANGED <<control, lock, hbChild, age, loop, world, beat, agent>>
-----------------------------------------------------------------------------
(* Orchestrator.Run: finalizeRun and the deferred calls *)

FinRun ==
    /\ Step("finRun", "finRead")
    /\ Saved(outcome.status) \/ NotSaved
    /\ UNCHANGED <<control, lock, hbChild, age, loop, world, beat, agent>>

FinRead == ReadForControl("finRead", "finWrite", outcome.status, outcome.action)
FinWrite == WriteDraft("finWrite", "finished") /\ UNCHANGED pos

\* Deferred calls run last in, first out: the heartbeat context goes first.
CancelHeartbeat ==
    /\ Step("finished", "unlock")
    /\ UNCHANGED <<files, loop, world, beat, agent, history>>

ReleaseRunLock ==
    /\ Step("unlock", "returned")
    /\ lock' = FALSE
    /\ UNCHANGED <<runStatus, control, hbChild, age, loop, world, beat, agent, history>>

Orchestrate ==
    \/ CreateRun \/ SaveConfig \/ AcquireRunLock \/ AcquireRunLockFails
    \/ FirstHeartbeat \/ StartRead \/ StartWrite
    \/ StopOnContext \/ StopOnAction \/ StopOnLimit \/ GoOn
    \/ BeginPhase \/ TouchRead \/ TouchWrite \/ SkipPhase
    \/ StartChild \/ StartChildFails \/ SetRead \/ SetWrite \/ SetHeartbeat
    \/ \E ok \in BOOLEAN : ExecReturns(ok)
    \/ ClearRead \/ ClearWrite \/ ClearHeartbeat
    \/ PhaseSucceeds \/ PhaseFails \/ FailWrite \/ FailRun
    \/ FinRun \/ FinRead \/ FinWrite \/ CancelHeartbeat \/ ReleaseRunLock
-----------------------------------------------------------------------------
(* heartbeatLoop *)

HeartbeatCanceled == ctxDone \/ pc \in {"unlock", "returned"}

\* At the top of the loop the context is looked at, then heartbeat.json is read.
HeartbeatTop ==
    /\ proc = "live"
    /\ hpc = "top"
    /\ IF HeartbeatCanceled THEN hpc' = "off" /\ UNCHANGED htouched
       ELSE hpc' = "write" /\ htouched' = Positive(hbChild)
    /\ UNCHANGED <<files, pc, loop, world, agent, history>>

\* The write is not conditional on the context any more.
HeartbeatWrite ==
    /\ proc = "live"
    /\ hpc = "write"
    /\ WriteHeartbeat(htouched)
    /\ hpc' = "top"
    /\ htouched' = NoPid
    /\ UNCHANGED <<runStatus, control, lock, pc, loop, world, agent, history>>

Beat == HeartbeatTop \/ HeartbeatWrite
-----------------------------------------------------------------------------
(* FinalizeStaleRuns *)

AgentStep(a, from, to) == agent[a].pc = from /\ agent' = [agent EXCEPT ![a] = to]
OnlyAgents == UNCHANGED <<files, pc, loop, world, beat, history>>

\* ListRuns, and time.Now right after it: a run that is not running is skipped.
ScanList(f) ==
    /\ Merged = "running"
    /\ AgentStep(f, "idle", [IdleAgent EXCEPT !.pc = "scanLock",
                                              !.fresh = age.run < Threshold])
    /\ OnlyAgents

ScanLock(f) ==
    /\ AgentStep(f, "scanLock", [agent[f] EXCEPT !.pc = "scanHb", !.locked = lock])
    /\ OnlyAgents

\* Was a file that is `ticks` old written less than Threshold before the scan began?
FreshFor(f, ticks) == ticks - agent[f].since < Threshold

ScanHeartbeat(f) ==
    /\ AgentStep(f, "scanHb",
           [agent[f] EXCEPT !.pc = "decide",
                            !.child = Positive(hbChild),
                            !.fresh = @ \/ (hbChild # NoFile /\ FreshFor(f, age.heartbeat))])
    /\ OnlyAgents

\* Mutant: the age of control.json does not count.
StaleAndDead_NoControl(f) ==
    /\ ~agent[f].fresh
    /\ ~(agent[f].locked /\ proc = "live")
    /\ control.child \notin children
    /\ agent[f].child \notin children

\* Mutant: the pids of the children are not probed.
StaleAndDead_OwnerOnly(f) ==
    /\ ~agent[f].fresh
    /\ ~(control # NoControl /\ FreshFor(f, age.control))
    /\ ~(agent[f].locked /\ proc = "live")

\* control.json is read last, then the pids of what was read are probed.
StaleAndDead(f) ==
    /\ ~agent[f].fresh
    /\ ~(control # NoControl /\ FreshFor(f, age.control))
    /\ ~(agent[f].locked /\ proc = "live")
    /\ control.child \notin children
    /\ agent[f].child \notin children

Decide(f) ==
    /\ AgentStep(f, "decide",
           IF StaleAndDead(f) THEN [IdleAgent EXCEPT !.pc = "saveRun", !.action = "stale"]
           ELSE IdleAgent)
    /\ OnlyAgents

\* FinalizeRun: run.json, control.json and the lock, one after the other.
FinalizeSaveRun(a) ==
    /\ AgentStep(a, "saveRun", [agent[a] EXCEPT !.pc = "saveRead"])
    /\ runStatus' = "failed"
    /\ UNCHANGED <<control, lock, hbChild, age, pc, loop, world, beat, history>>

\* The error of SaveRun leaves FinalizeRun before it touches anything else.
FinalizeFails(a) ==
    /\ SavesFail
    /\ AgentStep(a, "saveRun", IdleAgent)
    /\ OnlyAgents

FinalizeRead(a) ==
    /\ AgentStep(a, "saveRead", [IdleAgent EXCEPT
           !.pc = "saveWrite", !.draft = ControlRecord("failed", agent[a].action)])
    /\ OnlyAgents

FinalizeWrite(a) ==
    /\ AgentStep(a, "saveWrite", [IdleAgent EXCEPT !.pc = "saveUnlock"])
    /\ WriteControl(agent[a].draft)
    /\ UNCHANGED <<runStatus, lock, hbChild, pc, loop, world, beat, history>>

FinalizeUnlock(a) ==
    /\ AgentStep(a, "saveUnlock", IdleAgent)
    /\ lock' = FALSE
    /\ UNCHANGED <<runStatus, control, hbChild, age, pc, loop, world, beat, history>>

Finalize(a) == \/ FinalizeSaveRun(a) \/ FinalizeFails(a) \/ FinalizeRead(a)
               \/ FinalizeWrite(a) \/ FinalizeUnlock(a)

Scan(f) == ScanList(f) \/ ScanLock(f) \/ ScanHeartbeat(f) \/ Decide(f)
-----------------------------------------------------------------------------
(* POST /runs/{id}/control and `autocodex kill` *)

\* GetRun finds a run as soon as CreateRun has written run.json.
Request == /\ runStatus # "absent"
           /\ requests < MaxRequests
           /\ requests' = requests + 1
           /\ UNCHANGED <<files, pc, loop, proc, ctxDone, children, beat, history>>

PostBegin(p) ==
    /\ Request
    /\ \E action \in PostActions :
          AgentStep(p, "idle", [IdleAgent EXCEPT !.pc = "postRead", !.seen = Merged,
                                                 !.action = action])

PostRead(a) ==
    /\ AgentStep(a, "postRead", [IdleAgent EXCEPT
           !.pc = "postWrite", !.draft = ControlRecord(agent[a].seen, agent[a].action)])
    /\ OnlyAgents

PostWrite(a) ==
    /\ AgentStep(a, "postWrite", IdleAgent)
    /\ WriteControl(agent[a].draft)
    /\ UNCHANGED <<runStatus, lock, hbChild, pc, loop, world, beat, history>>

Post(a) == PostRead(a) \/ PostWrite(a)

KillBegin(k) ==
    /\ Request
    /\ AgentStep(k, "idle", [IdleAgent EXCEPT !.pc = "killLock", !.seen = Merged,
                                              !.action = "kill"])

\* Mutant: the run is closed without a look at its lock.
KillCheck_Always(k) ==
    /\ AgentStep(k, "killLock", [IdleAgent EXCEPT !.pc = "saveRun", !.action = "kill"])
    /\ OnlyAgents

LockIsLive == lock /\ proc = "live"

\* A lock whose process is alive is signalled, anything else is finalized: also the run
\* of an owner that is alive and about to acquire the lock.
KillCheck(k) ==
    /\ AgentStep(k, "killLock",
           IF LockIsLive THEN [agent[k] EXCEPT !.pc = "killSignal"]
           ELSE [IdleAgent EXCEPT !.pc = "saveRun", !.action = "kill"])
    /\ contested' = (contested \/ (~LockIsLive /\ proc = "live" /\ pc \in Lockless))
    /\ UNCHANGED <<files, pc, loop, world, beat, unsaved>>

\* No handler is installed: SIGTERM ends the process, and only the process, some steps
\* later, as Crash or Exit.
KillSignal(k) ==
    /\ AgentStep(k, "killSignal", [agent[k] EXCEPT !.pc = "postRead"])
    /\ OnlyAgents

Kill(k) == KillBegin(k) \/ KillCheck(k) \/ KillSignal(k) \/ Post(k) \/ Finalize(k)
-----------------------------------------------------------------------------
(* The environment *)

Crash ==
    /\ proc = "live"
    /\ pc \notin {"create", "returned"}
    /\ proc' = "crashed"
    /\ UNCHANGED <<files, pc, loop, ctxDone, children, requests, beat, agent, history>>

Exit ==
    /\ proc = "live"
    /\ pc = "returned"
    /\ proc' = "exited"
    /\ UNCHANGED <<files, pc, loop, ctxDone, children, requests, beat, agent, history>>

CancelContext ==
    /\ Cancelable
    /\ ~ctxDone
    /\ proc = "live"
    /\ ctxDone' = TRUE
    /\ UNCHANGED <<files, pc, loop, proc, children, requests, beat, agent, history>>

ChildExits ==
    /\ \E pid \in children : children' = children \ {pid}
    /\ UNCHANGED <<files, pc, loop, proc, ctxDone, requests, beat, agent, history>>

Scanning == {"scanLock", "scanHb", "decide"}

\* No tick falls into the start of the run, between a stamp and its write, or
\* between the two files that record a failure.
Tick ==
    /\ ~(proc = "live" /\ pc \in Starting \cup Brief)
    /\ \A a \in Agents : /\ agent[a].pc \notin {"saveWrite", "postWrite"}
                         /\ agent[a].pc \in Scanning => agent[a].since < MaxScan
    /\ age' = [run |-> Older(age.run), control |-> Older(age.control),
               heartbeat |-> Older(age.heartbeat)]
    /\ agent' = [a \in Agents |->
          IF agent[a].pc \in Scanning
          THEN [agent[a] EXCEPT !.since = @ + 1] ELSE agent[a]]
    /\ UNCHANGED <<runStatus, control, lock, hbChild, pc, loop, world, beat, history>>

Environment == Crash \/ Exit \/ CancelContext \/ ChildExits \/ Tick

Next ==
    \/ Orchestrate
    \/ Beat
    \/ \E f \in Finalizers : Scan(f) \/ Finalize(f)
    \/ \E p \in Posters : PostBegin(p) \/ Post(p)
    \/ \E k \in Killers : Kill(k)
    \/ Environment

Spec == Init /\ [][Next]_vars
-----------------------------------------------------------------------------
(* Properties *)

AgentPcs == {"idle", "scanLock", "scanHb", "decide", "saveRun", "saveRead",
             "saveWrite", "saveUnlock", "postRead", "postWrite", "killLock",
             "killSignal"}
AgentRecords == [pc : AgentPcs, seen : Statuses, fresh : BOOLEAN, locked : BOOLEAN,
                 since : 0 .. MaxScan, child : Int, action : ControlActions,
                 draft : Controls \cup {NoControl}]

Outcomes == [status : Terminal, action : ControlActions]
Ages == [run : 0 .. MaxAge, control : 0 .. MaxAge, heartbeat : 0 .. MaxAge]

\* No run performs more iterations than its loop allows.
IterationBound == IF Continuous THEN MaxIterations ELSE PhaseCount

\* Every file, counter and local has the values the code can give it; the iterations
\* in particular never pass max_iterations or, in a bounded loop, the phase list.
TypeOK ==
    /\ runStatus \in Statuses \cup {"absent"}
    /\ control \in Controls \cup {NoControl}
    /\ lock \in BOOLEAN
    /\ hbChild \in Int
    /\ age \in Ages
    /\ proc \in {"live", "crashed", "exited"}
    /\ pc \in {"create", "returned"} \cup Lockless \cup Holding
    /\ draft \in Controls \cup {NoControl}
    /\ touched \in Int
    /\ outcome \in Outcomes
    /\ iter \in 0 .. IterationBound
    /\ pos \in 0 .. PhaseCount - 1
    /\ fails \in Nat
    /\ ctxDone \in BOOLEAN
    /\ hpc \in {"off", "top", "write"}
    /\ htouched \in Int
    /\ children \subseteq Pids
    /\ requests \in 0 .. MaxRequests
    /\ agent \in [Agents -> AgentRecords]
    /\ contested \in BOOLEAN
    /\ unsaved \in BOOLEAN

Finalizing == {"saveRun", "saveRead", "saveWrite", "saveUnlock"}

\* FinalizeStaleRuns closes a run only after its process died in the middle of it, or after
\* Run returned because it could not write run.json: however its reads of lock, heartbeat and
\* control interleave with the owner's end and with the control records that API requests and
\* kills write over the owner's.  The one exception is a run that a kill has taken from its
\* owner by closing it before the lock was there.
StaleOnlyAfterCrash ==
    ~contested =>
        \A f \in Finalizers : agent[f].pc \in Finalizing
            => proc = "crashed" \/ (unsaved /\ pc = "returned")

\* The lock file stays while the process that acquired it lives and has not released
\* it: no finalizer and no kill removes the lock of a run that is being worked on, unless
\* a kill looked for the lock before its owner had acquired it: such a
\* kill removes the lock that the owner has made meanwhile.
LockCoversRun == ~contested /\ proc = "live" /\ pc \in Holding => lock

\* A codex child whose pid SetRunChildPID has recorded keeps its run from being closed
\* as stale for as long as it lives, also when it outlives the process that started it
\* and when TouchRunHeartbeat wipes its pid from the heartbeat.  Here nobody else writes the
\* control record while the pid is recorded: an API request or a kill that does may wipe it
\* there too.
RecordedChildKeepsRun ==
    ~contested /\ pc \in {"setHb", "exec"} /\ iter \in children
        => \A f \in Finalizers : agent[f].pc \notin Finalizing

\* What became of the owner, in the words of RunOutcome.
Owner == IF pc = "create" THEN "none"
         ELSE IF proc = "crashed" THEN "dead"
         ELSE IF pc = "returned" THEN "gone"
         ELSE IF pc \in Lockless THEN "starting"
         ELSE "working"

Promise == INSTANCE RunOutcome WITH status <- runStatus, owner <- Owner

\* The four files and their writers keep the promise about the outcome of a run: its owner
\* ends it once, and others close it only when the owner cannot any more or when a kill came
\* before the owner had its lock; and its owner leaves no run without an outcome, unless a
\* write of run.json failed.
OutcomeKept == Promise!Spec
-----------------------------------------------------------------------------
(* Why the properties hold: what every reachable state satisfies *)

\* Where the orchestrator is once iter counts the phase it works on.
InPhase == {"touchRead", "touchWrite", "start", "setRead", "setWrite", "setHb", "exec",
            "clearRead", "clearWrite", "clearHb", "result", "failWrite", "failRun"}

\* A record that is about to be written is one that json can read back.
DraftsAreControls ==
    /\ pc \in {"startWrite", "setWrite", "clearWrite", "failWrite", "finWrite"}
          => draft \in Controls
    /\ \A a \in Agents : agent[a].pc \in {"saveWrite", "postWrite"}
          => agent[a].draft \in Controls

\* After the start of the run there is a control record to change.
ControlExists == pc \notin Starting \cup {"returned"} => control \in Controls

\* A bounded loop counts its iterations along with its phases.
IterationsFollowPhases ==
    /\ pc \in InPhase => iter > 0
    /\ pc = "begin" /\ Continuous => iter < MaxIterations
    /\ ~Continuous => /\ pc \in Starting \cup {"check", "begin"} => iter = pos
                      /\ pc \in InPhase => iter = pos + 1

TypeInv == TypeOK /\ DraftsAreControls /\ ControlExists /\ IterationsFollowPhases

\* From here on run.json holds an outcome, before it holds "running".
Done == {"finRead", "finWrite", "finished", "unlock", "returned"}

OwnerState == /\ proc = "exited" => pc = "returned"
              /\ proc # "live" => pc # "create"
              /\ pc = "create" <=> runStatus = "absent"

StatusFollowsOwner ==
    /\ pc \in Done => runStatus \in Terminal \/ unsaved
    /\ ~contested /\ proc = "live" /\ pc \notin Done \cup {"create"} => runStatus = "running"

\* No time passes in the start of a run, nor between the two writes of a failure.
ShortStretches ==
    /\ proc = "live" /\ pc \in Starting \ {"create"} => age.run = 0
    /\ proc = "live" /\ pc = "failRun" => age.control = 0

OwnerAway == proc # "live" \/ pc = "returned"

\* Whoever closes the run does so when its owner cannot any more, or after an early kill.
ClosersComeLate ==
    /\ ~contested => \A a \in Agents : agent[a].pc \in Finalizing => OwnerAway
    /\ \A a \in Agents : agent[a].pc \in {"killLock"} \cup Finalizing => pc # "create"

\* A scan that may still decide against the run (it saw nothing fresh) began after the
\* start; if it saw no lock the owner is away; and if the owner came to an end meanwhile,
\* control.json was written after the scan began.  The last two hold for runs that no early
\* kill has contested, the last one for owners that could write run.json.
Suspicious(f) == agent[f].pc \in Scanning /\ ~agent[f].fresh

ScansAreSafe ==
    \A f \in Finalizers : Suspicious(f) =>
        /\ ~(proc = "live" /\ pc \in Starting)
        /\ ~contested /\ agent[f].pc # "scanLock" /\ ~agent[f].locked => OwnerAway
        /\ ~unsaved /\ proc # "crashed" /\ pc \in {"failRun", "finished", "unlock", "returned"}
              => control \in Controls /\ age.control <= agent[f].since

SafeInv == /\ OwnerState /\ StatusFollowsOwner /\ ShortStretches /\ LockCoversRun
           /\ ClosersComeLate /\ ScansAreSafe /\ StaleOnlyAfterCrash

\* No request and no kill that read the control record before SetRunChildPID writes it back
\* after.
NoPidIsOverwritten ==
    pc \in {"setHb", "exec"} => \A a \in Agents :
        agent[a].pc = "postWrite" => agent[a].draft.child = iter

\* Unless one overwrites it, the control record names the child from SetRunChildPID on: a
\* finalizer has read the record when its owner was away, and keeps its pid.
ChildIsRecorded ==
    /\ pc = "setWrite" => draft.child = iter
    /\ ~contested /\ pc \in {"setHb", "exec"} =>
          /\ control.child = iter
          /\ \A a \in Agents : agent[a].pc = "saveWrite" => agent[a].draft.child = iter

\* Inductive: every step from a state that satisfies it leads to one that does.
Inductive == TypeInv /\ SafeInv
=============================================================================
