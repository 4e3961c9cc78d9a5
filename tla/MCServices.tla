----------------------------- MODULE MCServices -----------------------------
(***************************************************************************)
(* Services for TLC.  The three share nothing, so that one run checks all  *)
(* of them: `service` tells which one a behaviour is of, and the others    *)
(* rest in an initial state.                                               *)
(***************************************************************************)
EXTENDS Services

VARIABLE service
-----------------------------------------------------------------------------
(* No limit, a budget that cuts the memory documents, and one that cuts the artifacts of
   all sources or the end of the events alone. *)
MCSetting(max, sources, mode) ==
    [maxBytes |-> max, maxEvents |-> 1, maxArtifacts |-> 1, sources |-> sources,
     snapshotMode |-> mode, memoryMode |-> "ref_only"]

MCAll == {"memory", "events", "artifacts"}

MCSettings == { MCSetting(0, MCAll, "summary_ref"), MCSetting(3, MCAll, "inline"),
                MCSetting(6, MCAll, "summary_ref"), MCSetting(3, {"events"}, "inline") }

MCDocs == <<0, 1>>

(* Two tasks with names that have the prefix, have none, another one or a dash too many; one
   of the two depends on any of these names, the empty one, two spellings of one, or none.
   And a plan with a task that has no name. *)
MCSegments == {"", "ac", "my", "x", "a", "b", "c", "autocodex"}

MCPrefixes == { <<"ac">>, <<"my", "ac", "">> }

MCNames == { <<"ac", "a">>, <<"a">>, <<"my", "ac", "a">>, <<"x", "b", "">>, <<"ac", "b", "c">> }

MCDeps == {{}, { <<"a">>, <<"ac", "a">> }} \cup { {d} : d \in MCNames \cup { <<"">> } }

MCPlans == {<<[name |-> m, deps |-> d], [name |-> n, deps |-> {}]>> :
                m \in MCNames, n \in { <<"a">>, <<"x", "b", "">>, <<"ac", "b", "c">> }, d \in MCDeps}
           \cup {<<[name |-> m, deps |-> {}], [name |-> <<"a">>, deps |-> { <<"ac", "a">> }]>> :
                     m \in MCNames}
           \cup { <<[name |-> <<"a">>, deps |-> {}], [name |-> <<"">>, deps |-> {}]>> }
-----------------------------------------------------------------------------
ASSUME Configs == ArchiveConfig /\ Host!HostConfig /\ Gen!GenerationConfig

host == <<named, others, timeout, large, pc, result, ctx, plugin, heir, lines, emitted, open,
          reader, line>>
generation == <<allow, strict, tracker, prefix, todo, documents, out, used, verdict, replies,
                given, tasks, beads, edges, step>>
allVars == <<service, vars, host, generation>>

(* A service that rests does so in one of its initial states.  The archive is checked twice:
   "kill" has the kills and what may fail of the owner, with one setting, no artifacts and no
   resume, on which neither depends; "archive" has all else, from when the owner has its lock. *)
AllInit == /\ service \in {"archive", "kill", "host", "generation"}
           /\ Init /\ Host!Init /\ Gen!Init
           /\ service = "archive" <=> opts.sources = MCAll
           /\ service # "host" => named = "valid" /\ others /\ timeout = "set" /\ ~large
           /\ service # "generation" => allow /\ strict /\ tracker /\ prefix = <<"ac">>

AllNext == \/ /\ service = "archive" /\ Next /\ UNCHANGED <<service, finalizer, host, generation>>
              /\ owner' # "failed" /\ (owner = "starting" => AcquireLock)
           \/ /\ service = "kill" /\ Next /\ UNCHANGED <<service, host, generation>>
              /\ arts' = <<>> /\ ~resume'
           \/ service = "host" /\ Host!Next /\ UNCHANGED <<service, vars, generation>>
           \/ service = "generation" /\ Gen!Next /\ UNCHANGED <<service, vars, host>>

\* Host!Fairness, when the host does not rest.
AllSpec == /\ AllInit /\ [][AllNext]_allVars
           /\ WF_host(service = "host" /\ Host!Call)
           /\ WF_host(service = "host" /\ Host!WriteRequest /\ ~large)
           /\ WF_host(service = "host" /\ Host!Reader)
           /\ WF_host(service = "host" /\ Host!ContextDone)
           /\ WF_host(service = "host" /\ Host!ContextKills)
-----------------------------------------------------------------------------
\* A call of a plugin ends, and its goroutines with it, see PluginHost.
CallEnds == service = "host" => Host!CallEnds
=============================================================================
