----------------------------- MODULE PluginHost -----------------------------
(***************************************************************************)
(* One call of a plugin: the discovery, Host.Call and the goroutine that   *)
(* reads a line for it, the plugin, which may answer wrongly, late or      *)
(* never, the timer of the context, and a process that the plugin has      *)
(* started and that may outlive it with its output still open.             *)
(***************************************************************************)
EXTENDS Integers, Sequences

CONSTANT MaxLines   \* bound: lines the plugin emits

\* What is assumed of the constant.
HostConfig == MaxLines \in Nat

VARIABLES
    named,     \* the manifest of the plugin asked for: "valid", "invalid" or "missing"
    others,    \* whether the manifests of the other plugins are valid
    timeout,   \* Host.Timeout: "default" or "set"
    large,     \* the request does not fit the pipe
    pc,        \* position in Call
    result,    \* what it will return
    ctx,       \* "live" or "done"
    plugin,    \* "none", "running", "exited" or "reaped"
    heir,      \* a process started by the plugin holds its pipes
    lines,     \* lines emitted and not yet read
    emitted,   \* number of lines emitted
    open,      \* the read end of its stdout is open
    reader,    \* "none", "reading", or what it has sent: "line" or "error"
    line       \* the line it has sent

caller == <<pc, result, reader, line>>
world == <<ctx, plugin, heir, lines, emitted>>
config == <<named, others, timeout, large>>
vars == <<config, caller, world, open>>

\* A line is a handshake, an answer with output, or anything else: wrong version, name or
\* transport, an error, no JSON, nothing.
Lines == {"handshake", "output", "other"}
-----------------------------------------------------------------------------
(* The plugin and the clock *)

Host == UNCHANGED <<config, caller, open>>

PluginEmits == /\ plugin = "running" \/ heir
               /\ emitted < MaxLines
               /\ \E l \in Lines : lines' = Append(lines, l)
               /\ emitted' = emitted + 1
               /\ Host /\ UNCHANGED <<ctx, plugin, heir>>

PluginForks == /\ plugin = "running" /\ ~heir
               /\ heir' = TRUE
               /\ Host /\ UNCHANGED <<ctx, plugin, lines, emitted>>

HeirExits == /\ heir
             /\ heir' = FALSE
             /\ Host /\ UNCHANGED <<ctx, plugin, lines, emitted>>

PluginExits == /\ plugin = "running"
               /\ plugin' = "exited"
               /\ Host /\ UNCHANGED <<ctx, heir, lines, emitted>>

ContextDone_IfSet == /\ ctx = "live" /\ pc \notin {"discover", "start", "returned"} /\ timeout = "set"
                     /\ ctx' = "done"
                     /\ Host /\ UNCHANGED <<plugin, heir, lines, emitted>>

\* The timer of WithTimeout, of 60 s by default.
ContextDone == /\ ctx = "live" /\ pc \notin {"discover", "start", "returned"}
               /\ ctx' = "done"
               /\ Host /\ UNCHANGED <<plugin, heir, lines, emitted>>

\* exec.CommandContext.
ContextKills == /\ ctx = "done" /\ plugin = "running"
                /\ plugin' = "exited"
                /\ Host /\ UNCHANGED <<ctx, heir, lines, emitted>>
-----------------------------------------------------------------------------
(* The goroutine of readLine *)

ReaderReads == /\ reader = "reading" /\ open /\ lines # <<>>
               /\ reader' = "line" /\ line' = Head(lines) /\ lines' = Tail(lines)
               /\ UNCHANGED <<config, pc, result, ctx, plugin, heir, emitted, open>>

\* End of file when nobody can write any more, or an error as Wait has closed the pipe.
ReaderFails == /\ reader = "reading"
               /\ ~open \/ (lines = <<>> /\ plugin \in {"exited", "reaped"} /\ ~heir)
               /\ reader' = "error"
               /\ UNCHANGED <<config, pc, result, line, world, open>>
-----------------------------------------------------------------------------
(* Call *)

Fail(why) == pc' = "kill" /\ result' = why

\* Every manifest on the paths is loaded; one that is not valid makes all of them unusable.
Discover == /\ pc = "discover"
            /\ IF named = "valid" /\ others THEN pc' = "start" /\ UNCHANGED result
                                            ELSE pc' = "returned" /\ result' = "failed"
            /\ UNCHANGED <<config, reader, line, world, open>>

\* A capability that is not declared, or a process that cannot be started.
StartFails == /\ pc = "start"
              /\ pc' = "returned" /\ result' = "failed"
              /\ UNCHANGED <<config, reader, line, world, open>>

Start == /\ pc = "start"
         /\ pc' = "handshake" /\ plugin' = "running" /\ open' = TRUE /\ reader' = "reading"
         /\ UNCHANGED <<config, result, line, ctx, heir, lines, emitted>>

\* readLine: whichever case of the select is ready.  A reader that has not sent is left to
\* itself.
SelectContext == /\ pc \in {"handshake", "response"} /\ ctx = "done"
                 /\ Fail("timeout")
                 /\ UNCHANGED <<config, reader, line, world, open>>

SelectError == /\ pc \in {"handshake", "response"} /\ reader = "error"
               /\ Fail("failed")
               /\ UNCHANGED <<config, reader, line, world, open>>

Handshake == /\ pc = "handshake" /\ reader = "line"
             /\ IF line = "handshake" THEN pc' = "write" /\ UNCHANGED result ELSE Fail("failed")
             /\ reader' = "none"
             /\ UNCHANGED <<config, line, world, open>>

\* stdin.Write returns when the request is in the pipe, for which somebody may have to
\* read; and with an error when nobody can.
WriteRequest == /\ pc = "write" /\ (plugin = "running" \/ heir)
                /\ pc' = "response" /\ reader' = "reading"
                /\ UNCHANGED <<config, result, line, world, open>>

WriteFails == /\ pc = "write" /\ plugin # "running" /\ ~heir
              /\ Fail("failed")
              /\ UNCHANGED <<config, reader, line, world, open>>

Response == /\ pc = "response" /\ reader = "line"
            /\ Fail(IF line = "output" THEN "output" ELSE "failed")
            /\ reader' = "none"
            /\ UNCHANGED <<config, line, world, open>>

Kill_NoWait ==
    /\ pc = "kill"
    /\ pc' = "returned"
    /\ plugin' = IF plugin = "running" THEN "exited" ELSE plugin
    /\ UNCHANGED <<config, result, reader, line, ctx, heir, lines, emitted, open>>

\* The deferred Kill and Wait.
Kill == /\ pc = "kill"
        /\ pc' = "wait"
        /\ plugin' = IF plugin = "running" THEN "exited" ELSE plugin
        /\ UNCHANGED <<config, result, reader, line, ctx, heir, lines, emitted, open>>

Reap == /\ pc = "wait" /\ plugin = "exited"
        /\ plugin' = "reaped"
        /\ Host /\ UNCHANGED <<ctx, heir, lines, emitted>>

\* Wait also waits for the goroutine that copies stderr, which ends when nobody holds the
\* pipe any more; then it closes stdout.
Return == /\ pc = "wait" /\ plugin = "reaped" /\ ~heir
          /\ pc' = "returned" /\ open' = FALSE
          /\ UNCHANGED <<config, result, reader, line, world>>
-----------------------------------------------------------------------------
Init == /\ named \in {"valid", "invalid", "missing"} /\ others \in BOOLEAN
        /\ timeout \in {"default", "set"} /\ large \in BOOLEAN
        /\ pc = "discover" /\ result = "none" /\ ctx = "live"
        /\ plugin = "none" /\ heir = FALSE
        /\ lines = <<>> /\ emitted = 0 /\ open = FALSE
        /\ reader = "none" /\ line = "none"

Call == \/ Discover \/ StartFails \/ Start \/ SelectContext \/ SelectError \/ Handshake
        \/ WriteFails \/ Response \/ Kill \/ Reap \/ Return

Reader == ReaderReads \/ ReaderFails

Plugin == PluginEmits \/ PluginForks \/ PluginExits \/ HeirExits

Next == Call \/ WriteRequest \/ Reader \/ Plugin \/ ContextDone \/ ContextKills

Spec == Init /\ [][Next]_vars

\* The host runs on and its timer fires; the plugin and what it started do as they like,
\* and need not read a request that does not fit the pipe.
Fairness == /\ WF_vars(Call) /\ WF_vars(WriteRequest /\ ~large) /\ WF_vars(Reader)
            /\ WF_vars(ContextDone) /\ WF_vars(ContextKills)

FairSpec == Spec /\ Fairness
-----------------------------------------------------------------------------
(* Properties *)

\* The call leaves no process of its own behind, and its output is the second line of the
\* plugin, after a handshake.
TypeOK ==
    /\ named \in {"valid", "invalid", "missing"} /\ others \in BOOLEAN
    /\ timeout \in {"default", "set"} /\ large \in BOOLEAN
    /\ pc \in {"discover", "start", "handshake", "write", "response", "kill", "wait", "returned"}
    /\ result \in {"none", "output", "failed", "timeout"}
    /\ ctx \in {"live", "done"} /\ plugin \in {"none", "running", "exited", "reaped"}
    /\ heir \in BOOLEAN /\ open \in BOOLEAN
    /\ lines \in Seq(Lines) /\ emitted \in 0 .. MaxLines
    /\ reader \in {"none", "reading", "line", "error"} /\ line \in Lines \cup {"none"}
    /\ pc = "returned" => plugin \in {"none", "reaped"}
    /\ result = "output" => named = "valid" /\ emitted >= 2 /\ line = "output"

\* docs/contracts/plugin-protocol.md:57-58: the handshake must complete within the timeout,
\* and each capability call must enforce one.  A call that has started the plugin returns.
EveryCallReturns == pc \notin {"discover", "start"} ~> pc = "returned"

\* Whatever the plugin does, Call returns after its timeout at the latest, but for a process
\* that the plugin has left behind and that keeps the pipes open (what EveryCallReturns shows
\* to be missed); and the goroutine of a line that nobody waits for ends as well.
CallEnds == /\ pc \notin {"discover", "start"} ~> pc = "returned" \/ heir
            /\ pc = "returned" ~> reader # "reading"
=============================================================================
