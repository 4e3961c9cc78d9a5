------------------------------ MODULE Services ------------------------------
(***************************************************************************)
(* The three services beside the loops, in one module: the files of a run  *)
(* (RunArchive), a call of a plugin (PluginHost) and the generation of     *)
(* spec, plan and tasks (Generation).  They share no state.                *)
(***************************************************************************)
EXTENDS RunArchive

CONSTANTS
    MaxLines, Segments, IssuePrefixes, Plans

VARIABLES
    named, others, timeout, large, pc, result, ctx, plugin, heir, lines, emitted, open,
    reader, line,
    allow, strict, tracker, prefix, todo, documents, out, used, verdict, replies, given,
    tasks, beads, edges, step

Host == INSTANCE PluginHost

Gen == INSTANCE Generation WITH pc <- todo, files <- documents
-----------------------------------------------------------------------------
\* The variables of the three have their types.
TypesOK == TypeOK /\ Host!TypeOK /\ Gen!TypeOK

\* The fallback is written only for a reason, see Generation.
FallbackHasReason == Gen!FallbackHasReason

\* The plan of codex arrives in the tracker, see Generation.
PlanArrives == Gen!PlanArrives
=============================================================================
