------------------------------- MODULE Runner -------------------------------
(***************************************************************************)
(* One call of the codex runner: the select loop of Exec, the goroutines   *)
(* that read the two pipes of the child, the goroutine that waits for it,  *)
(* its clocks, and the child itself.  The end of the child, the context    *)
(* of the caller, the idle timeout, an output file that has settled and a  *)
(* request for follow-up race in the loop.                                 *)
(*                                                                         *)
(* The follow-up marker is written in two halves, as a read of a pipe may  *)
(* end in its middle.  Versions of the output file stand for its times of  *)
(* modification.                                                           *)
(***************************************************************************)
EXTENDS Integers, Sequences

CONSTANTS
    Settle,        \* ticks the output file and the child must rest
    FollowUpIdle,  \* ticks a child that asked for follow-up may rest
    Options,       \* configurations, see Configuration
    MaxWrites,     \* bound: writes of the child into a pipe
    MaxSaves,      \* bound: versions of the output file the child writes
    ReadMax,       \* halves one read returns at most
    Horizon        \* bound: ticks beyond the longest duration are not told apart

\* idle is the idle timeout, 0 for none; watch says that the output file is asked for;
\* old, that a file of that name exists when the call begins.
Configuration == [idle : Nat, watch : BOOLEAN, old : BOOLEAN]

ASSUME DurationsAreTicks == Settle \in Nat \ {0} /\ FollowUpIdle \in Nat \ {0}
ASSUME BoundsAreNatural == /\ MaxWrites \in Nat /\ MaxSaves \in Nat
                           /\ ReadMax \in Nat \ {0}
ASSUME OptionsAreConfigurations == Options \subseteq Configuration
ASSUME HorizonIsFar == /\ Horizon \in Nat /\ Settle <= Horizon /\ FollowUpIdle <= Horizon
                       /\ \A o \in Options : o.idle <= Horizon

VARIABLES
    opts,     \* the configuration of this call
    pc,       \* position in Exec
    branch,   \* the case of the select that ended the loop
    verdict,  \* what Exec returned
    child,    \* "none", "running", "exited" or "reaped"
    exit,     \* how it ended
    ctx,      \* "live" or "done"
    unread,   \* per pipe, what the child wrote and nobody has read
    readable, \* the read ends of the pipes are open
    reader,   \* per pipe, the state of its goroutine
    writes,   \* number of writes of the child
    marked,   \* needsFollowUp
    version,  \* version of the output file, 0 for none
    seen,     \* lastModTime
    stable,   \* ticks since outputStableSince, Unset before the file was seen
    quiet,    \* ticks since lastActivity
    fileAge,  \* ticks since the file was written
    settled,  \* terminatedForOutput
    idled     \* idleTimeoutTriggered

process == <<child, exit>>
pipes == <<unread, readable, reader, writes, marked>>
file == <<version, seen, stable, fileAge>>
flags == <<settled, idled>>
vars == <<opts, pc, branch, verdict, process, ctx, pipes, file, quiet, flags>>

Pipes == {"stdout", "stderr"}
Unset == -1
-----------------------------------------------------------------------------
(* The clock *)

Later(n) == IF n = Unset \/ n = Horizon THEN n ELSE n + 1

Tick == /\ pc # "returned"
        /\ quiet' = Later(quiet)
        /\ stable' = Later(stable)
        /\ fileAge' = Later(fileAge)
        /\ UNCHANGED <<opts, pc, branch, verdict, process, ctx, pipes, version, seen, flags>>

\* The deadline of the caller passes, or the caller is canceled.
ContextDone == /\ ctx = "live" /\ pc # "returned"
               /\ ctx' = "done"
               /\ UNCHANGED <<opts, pc, branch, verdict, process, pipes, file, quiet, flags>>
-----------------------------------------------------------------------------
(* The child *)

Idle == UNCHANGED <<opts, pc, branch, verdict, ctx, quiet, flags>>

\* What one write puts into a pipe.
Texts(p) == IF p = "stderr" THEN { <<"text">>, <<"head", "tail">> } ELSE { <<"text">> }

ChildWrites(p) == /\ child = "running" /\ writes < MaxWrites
                  /\ \E t \in Texts(p) : unread' = [unread EXCEPT ![p] = @ \o t]
                  /\ writes' = writes + 1
                  /\ Idle /\ UNCHANGED <<process, readable, reader, marked, file>>

\* codex --output-last-message.
ChildSaves == /\ child = "running" /\ opts.watch
              /\ version < MaxSaves + (IF opts.old THEN 1 ELSE 0)
              /\ version' = version + 1
              /\ fileAge' = 0
              /\ Idle /\ UNCHANGED <<process, pipes, seen, stable>>

ChildExits == /\ child = "running"
              /\ child' = "exited"
              /\ exit' \in {"zero", "nonzero"}
              /\ Idle /\ UNCHANGED <<pipes, file>>

\* Process.Kill; a process that is gone is left alone.
Kill == IF child = "running" THEN child' = "exited" /\ exit' = "killed"
                             ELSE UNCHANGED process

\* The context given to exec.CommandContext.
CommandContextKills == /\ ctx = "done" /\ child = "running"
                       /\ Kill
                       /\ Idle /\ UNCHANGED <<pipes, file>>
-----------------------------------------------------------------------------
(* The goroutines *)

\* copyWithActivity: one read.  The marker is only found in one piece.
Read(p) ==
    /\ reader[p] = "reading" /\ readable /\ unread[p] # <<>>
    /\ \E n \in 1 .. ReadMax :
          LET got == SubSeq(unread[p], 1, n) IN
          /\ n <= Len(unread[p])
          /\ unread' = [unread EXCEPT ![p] = SubSeq(@, n + 1, Len(@))]
          /\ marked' = (marked \/ (p = "stderr" /\ \E i \in 1 .. n - 1 :
                                      got[i] = "head" /\ got[i + 1] = "tail"))
    /\ quiet' = 0
    /\ UNCHANGED <<opts, pc, branch, verdict, process, ctx, readable, reader, writes, file, flags>>

\* End of file after the child is gone, or an error as Wait has closed the pipe.
ReadEnds(p) ==
    /\ reader[p] = "reading"
    /\ \/ ~readable
       \/ child \in {"exited", "reaped"} /\ unread[p] = <<>>
    /\ reader' = [reader EXCEPT ![p] = "gone"]
    /\ UNCHANGED <<opts, pc, branch, verdict, process, ctx, unread, readable, writes, marked,
                   file, quiet, flags>>

\* cmd.Wait reaps the child and closes the read ends, read or not; its result goes into
\* the channel done.
WaitReturns == /\ child = "exited" /\ reader["stdout"] # "none"
               /\ child' = "reaped"
               /\ readable' = FALSE
               /\ Idle /\ UNCHANGED <<exit, unread, reader, writes, marked, file>>

Done == child = "reaped"
-----------------------------------------------------------------------------
(* Exec *)

\* An empty prompt, or an output directory, a pipe or a process that cannot be made.
StartFails == /\ pc = "start"
              /\ pc' = "returned" /\ verdict' = "failed"
              /\ UNCHANGED <<opts, branch, process, ctx, pipes, file, quiet, flags>>

Start == /\ pc = "start"
         /\ pc' = "report"
         /\ child' = "running"
         /\ UNCHANGED <<opts, branch, verdict, exit, ctx, pipes, file, quiet, flags>>

\* The pid is reported, which takes its time; then the goroutines are started.
Report == /\ pc = "report"
          /\ pc' = "select"
          /\ quiet' = 0
          /\ reader' = [p \in Pipes |-> "reading"]
          /\ UNCHANGED <<opts, branch, verdict, process, ctx, unread, readable, writes, marked,
                         file, flags>>

SelectDone == /\ pc = "select" /\ Done
              /\ pc' = "join" /\ branch' = "done"
              /\ UNCHANGED <<opts, verdict, process, ctx, pipes, file, quiet, flags>>

SelectContext_NoWait ==
    /\ pc = "select" /\ ctx = "done"
    /\ Kill
    /\ pc' = "join" /\ branch' = "context"
    /\ UNCHANGED <<opts, verdict, ctx, pipes, file, quiet, flags>>

SelectContext == /\ pc = "select" /\ ctx = "done"
                 /\ Kill
                 /\ pc' = "drain" /\ branch' = "context"
                 /\ UNCHANGED <<opts, verdict, ctx, pipes, file, quiet, flags>>

Silence_Marked(newer) == IF newer \/ marked THEN 0 ELSE quiet

\* Ticks since lastActivity; a newer output file is activity.
Silence(newer) == IF newer THEN 0 ELSE quiet

\* The ticker of 500 ms: the three reasons to kill the child.
SelectTick ==
    LET looked == opts.watch /\ version > 0
        newer == looked /\ version > seen
        rested == IF newer THEN 0 ELSE stable
        silent == Silence(newer)
        complete == looked /\ rested >= Settle /\ silent >= Settle
        idle == opts.idle > 0 /\ ~idled /\ silent >= opts.idle
        waits == marked /\ silent >= FollowUpIdle
    IN /\ pc = "select"
       /\ seen' = IF newer THEN version ELSE seen
       /\ stable' = rested
       /\ quiet' = silent
       /\ settled' = (settled \/ complete)
       /\ idled' = (idled \/ idle)
       /\ IF complete \/ idle \/ waits THEN Kill ELSE UNCHANGED process
       /\ UNCHANGED <<opts, pc, branch, verdict, ctx, pipes, version, fileAge>>

Drain == /\ pc = "drain" /\ Done
         /\ pc' = "join"
         /\ UNCHANGED <<opts, branch, verdict, process, ctx, pipes, file, quiet, flags>>

Verdict == CASE settled -> "ok"
             [] ~settled /\ marked -> "follow_up"
             [] ~settled /\ ~marked /\ idled -> "idle"
             [] OTHER -> IF branch = "context" THEN "timeout"
                         ELSE IF exit = "zero" THEN "ok" ELSE "failed"

Join_NoWait == /\ pc = "join"
               /\ pc' = "returned" /\ verdict' = Verdict
               /\ UNCHANGED <<opts, branch, process, ctx, pipes, file, quiet, flags>>

\* wg.Wait has returned.
Join == /\ pc = "join"
        /\ \A p \in Pipes : reader[p] = "gone"
        /\ pc' = "returned" /\ verdict' = Verdict
        /\ UNCHANGED <<opts, branch, process, ctx, pipes, file, quiet, flags>>
-----------------------------------------------------------------------------
Init == /\ opts \in Options
        /\ pc = "start" /\ branch = "none" /\ verdict = "none"
        /\ child = "none" /\ exit = "none" /\ ctx = "live"
        /\ unread = [p \in Pipes |-> <<>>]
        /\ readable = TRUE
        /\ reader = [p \in Pipes |-> "none"]
        /\ writes = 0 /\ marked = FALSE
        /\ version = (IF opts.old THEN 1 ELSE 0)
        /\ seen = 0 /\ stable = Unset /\ quiet = 0
        /\ fileAge = (IF opts.old THEN Horizon ELSE 0)
        /\ settled = FALSE /\ idled = FALSE

Exec == \/ StartFails \/ Start \/ Report
        \/ SelectDone \/ SelectContext \/ SelectTick
        \/ Drain \/ Join

Child == \/ \E p \in Pipes : ChildWrites(p)
         \/ ChildSaves \/ ChildExits

Reader(p) == Read(p) \/ ReadEnds(p)

\* Exec has returned.
Over == pc = "returned" /\ UNCHANGED vars

Next == \/ Exec \/ Child \/ WaitReturns \/ CommandContextKills
        \/ \E p \in Pipes : Reader(p)
        \/ Tick \/ ContextDone \/ Over

Spec == Init /\ [][Next]_vars
-----------------------------------------------------------------------------
(* Properties *)

Ages == 0 .. Horizon

\* The locals of Exec and its goroutines have their types, and goroutines exist as long
\* as the code says: none before the pid is reported, none after Exec has returned.
TypeOK ==
    /\ opts \in Options
    /\ pc \in {"start", "report", "select", "drain", "join", "returned"}
    /\ branch \in {"none", "done", "context"}
    /\ verdict \in {"none", "ok", "follow_up", "idle", "failed", "timeout"}
    /\ child \in {"none", "running", "exited", "reaped"}
    /\ exit \in {"none", "zero", "nonzero", "killed"}
    /\ ctx \in {"live", "done"}
    /\ unread \in [Pipes -> Seq({"text", "head", "tail"})]
    /\ readable \in BOOLEAN /\ marked \in BOOLEAN
    /\ reader \in [Pipes -> {"none", "reading", "gone"}]
    /\ writes \in 0 .. MaxWrites
    /\ version \in 0 .. MaxSaves + 1 /\ seen \in 0 .. version
    /\ stable \in Ages \cup {Unset}
    /\ quiet \in Ages /\ fileAge \in Ages
    /\ settled \in BOOLEAN /\ idled \in BOOLEAN
    /\ \A p \in Pipes : /\ reader[p] = "none" <=> pc \in {"start", "report"} \/ child = "none"
                        /\ pc = "returned" => reader[p] # "reading"

\* Exec implements CodexCall: it returns when the child is reaped, never before, and it
\* returns "ok" only for a child that succeeded or whose output file nobody had touched
\* for the time to settle, however the four reasons to kill the child race with its end.
Final == version > 0 /\ fileAge >= Settle

Call == INSTANCE CodexCall WITH
            child <- CASE child = "none" -> "none"
                       [] child \in {"running", "exited"} -> "alive"
                       [] child = "reaped" -> "gone",
            exit <- IF child = "reaped" THEN exit ELSE "none",
            final <- Final

CallKept == Call!Spec
-----------------------------------------------------------------------------
(* Why the properties hold: what every reachable state satisfies *)

\* The loop is left when the child is reaped; a child has ended in one way.
Positions ==
    /\ verdict = "none" <=> pc # "returned"
    /\ pc = "start" => child = "none"
    /\ pc \in {"report", "select", "drain"} => child # "none"
    /\ pc = "join" => child = "reaped"
    /\ pc = "returned" => child \in {"none", "reaped"}
    /\ exit = "none" <=> child \in {"none", "running"}

\* The file has rested at least as long as the loop has seen it rest.  Once that was long
\* enough the child is killed, and nobody is left to write the file.
OutputRests ==
    /\ seen = version => stable <= fileAge
    /\ settled => child \in {"exited", "reaped"} /\ Final

RunnerInv == TypeOK /\ Positions /\ OutputRests
=============================================================================
