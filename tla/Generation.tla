----------------------------- MODULE Generation -----------------------------
(***************************************************************************)
(* From a task to beads: codex is asked for a spec, a plan and a list of   *)
(* tasks, asked again when it wants a follow-up or returns no JSON, the    *)
(* tasks get the names of the tracker, and their beads and dependencies    *)
(* are created.                                                            *)
(*                                                                         *)
(* A name is the sequence of its segments between dashes, "" for an empty  *)
(* one: "ac-x" is <<"ac", "x">>.  A list of tasks is a sequence of records *)
(* with a name and the set of names it depends on, as their order and      *)
(* repetitions are lost in the tracker.                                    *)
(***************************************************************************)
EXTENDS Integers, Sequences, FiniteSets, SequencesExt

CONSTANTS
    Segments,       \* what a name may have between its dashes
    IssuePrefixes,  \* what bd and its configuration may give, as names
    Plans           \* lists of tasks codex may return

VARIABLES
    allow,     \* autonomy.allow_fallback_tasks
    strict,    \* autonomy.fail_on_schema_error
    tracker,   \* beads are enabled and created automatically, and bd is there
    prefix,    \* resolveBeadPrefix()
    pc,        \* the next step
    files,     \* what is in the output file of each document
    out,       \* what the last call for each document printed
    used,      \* usedFallback
    verdict,   \* how the last call ended
    replies,   \* history: what each call for tasks came to, a verdict or what it returned
    given,     \* the tasks as codex gave them
    tasks,     \* the tasks as they were written
    beads,     \* names of the beads
    edges,     \* dependencies between them
    step       \* of createBeads: each task once for its bead, then once for its dependencies

config == <<allow, strict, tracker, prefix>>
answers == <<files, out, used, verdict, replies>>
plan == <<given, tasks, beads, edges, step>>
vars == <<config, pc, answers, plan>>
-----------------------------------------------------------------------------
(* Names *)

\* What is between two dashes in a row, before the first or after the last.
Blank == ""

TaskNames == Seq(Segments) \ {<<>>}

TaskLists == Seq([name : TaskNames, deps : SUBSET TaskNames]) \ {<<>>}

\* What is assumed of the constants: no prefix has two dashes in a row, but at its ends.
GenerationConfig ==
    /\ "autocodex" \in Segments
    /\ IssuePrefixes \subseteq Seq(Segments) /\ Plans \subseteq TaskLists
    /\ \A p \in IssuePrefixes : \A i, j, k \in 1 .. Len(p) :
          i < j /\ j < k /\ p[i] # Blank /\ p[k] # Blank => p[j] # Blank

\* strings.Trim(name, "-").
Trim(name) ==
    LET full == {i \in DOMAIN name : name[i] # Blank}
        first == CHOOSE i \in full : \A j \in full : i <= j
        last == CHOOSE i \in full : \A j \in full : j <= i
    IN IF full = {} THEN <<>> ELSE SubSeq(name, first, last)

\* The answer of bd, the value in its configuration, or the default; <<>> where there is none.
ResolveBeadPrefix(bd, cfg) ==
    CASE Trim(bd) # <<>> -> Trim(bd)
      [] Trim(bd) = <<>> /\ Trim(cfg) # <<>> -> Trim(cfg)
      [] OTHER -> <<"autocodex">>

NormalizeBeadID(name) ==
    LET rest == Trim(Tail(name))
    IN IF Len(name) <= 2 \/ Head(name) = Blank \/ rest = <<>> THEN name ELSE <<Head(name)>> \o rest

HasPrefix(name, p) == IsPrefix(p, name) /\ Len(name) > Len(p)

ApplyBeadPrefix(name, p) ==
    LET suffix == IF Len(name) = 1 THEN name ELSE Trim(Tail(name))
    IN IF name = <<Blank>> \/ HasPrefix(name, p) \/ suffix = <<>> THEN name ELSE p \o suffix

NormalizeTaskID(name, p) == ApplyBeadPrefix(NormalizeBeadID(name), p)

NormalizeDependency_AsGiven(dep, ts, p) == dep

\* What a task of this name was renamed to, or the name normalized.
NormalizeDependency(dep, ts, p) ==
    NormalizeTaskID(IF \E i \in DOMAIN ts : ts[i].name = dep THEN NormalizeTaskID(dep, p) ELSE dep, p)

\* normalizeTasksFile: dependencies without the empty and the own.
NormalizeTasks(ts, p) ==
    LET name(i) == NormalizeTaskID(ts[i].name, p)
        deps(i) == {NormalizeDependency(d, ts, p) : d \in ts[i].deps}
    IN [i \in DOMAIN ts |-> [name |-> name(i), deps |-> deps(i) \ {<<Blank>>, name(i)}]]

FallbackTasks(p) == << [name |-> p \o <<"fallback">>, deps |-> {}] >>
-----------------------------------------------------------------------------
(* Calls of codex *)

Documents == {"spec", "plan", "tasks"}
Nothing == "nothing"

\* A list of tasks is wanted as JSON: "prose" is none, "odd" breaks the schema, "zero" has
\* no tasks.
Outputs(doc) == IF doc = "tasks" THEN {Nothing, "prose", "odd", "zero", "list"} ELSE {Nothing, "text"}

\* One call: how it ends, what it prints, and whether that reaches the output file, which
\* otherwise stays as an earlier call left it.
Exec(doc) == /\ verdict' \in {"ok", "follow_up", "failed"}
             /\ \E o \in Outputs(doc) :
                   /\ out' = [out EXCEPT ![doc] = o]
                   /\ files' \in {files, [files EXCEPT ![doc] = o]}

ResolveOutput(doc) == IF files[doc] # Nothing THEN files[doc] ELSE out[doc]

\* A follow-up with output is as good as an answer.  Another error is asked again without
\* the skill when its text, which quotes stderr, has the marker of a follow-up in lower case.
Ask(doc, again, done) ==
    /\ pc = doc
    /\ Exec(doc)
    /\ \E marker \in BOOLEAN :
          pc' = CASE verdict' = "ok" \/ (verdict' = "follow_up" /\ out'[doc] # Nothing) -> done
                  [] verdict' = "failed" \/ (verdict' = "follow_up" /\ out'[doc] = Nothing) ->
                        IF marker THEN again ELSE "failed"
    /\ UNCHANGED <<config, used, replies, plan>>

AskAgain(doc, again, done) ==
    /\ pc = again
    /\ Exec(doc)
    /\ pc' = IF verdict' = "ok" THEN done ELSE "failed"
    /\ UNCHANGED <<config, used, replies, plan>>

\* The outputs become the documents, even when they are empty, and are forgotten.
WriteDocuments ==
    /\ pc = "documents"
    /\ files' = [files EXCEPT !["spec"] = ResolveOutput("spec"), !["plan"] = ResolveOutput("plan")]
    /\ out' = [out EXCEPT !["spec"] = Nothing, !["plan"] = Nothing]
    /\ pc' = "tasks"
    /\ UNCHANGED <<config, used, verdict, replies, plan>>

\* A template, a schema or the skill cannot be read, or a file not be written.
FileFails == /\ pc \in {"spec", "documents", "tasks", "write"}
             /\ pc' = "failed"
             /\ UNCHANGED <<config, answers, plan>>

\* A call that fails has come to that; what a successful one returned is seen by ParseTasks.
Replied == replies' = IF verdict' = "ok" THEN replies ELSE Append(replies, verdict')

AskTasks == /\ pc = "tasks"
            /\ Exec("tasks") /\ Replied
            /\ pc' \in CASE verdict' = "ok" -> {"parse"}
                         [] verdict' = "follow_up" -> {"without_skill"}
                         [] verdict' = "failed" -> {"without_skill", "failed"}
            /\ UNCHANGED <<config, used, plan>>

\* The second call for tasks, after a follow-up or without JSON, is the last one.
AskTasksAgain == /\ pc = "without_skill"
                 /\ Exec("tasks") /\ Replied
                 /\ used' = TRUE
                 /\ pc' = CASE verdict' = "ok" -> "parse"
                            [] verdict' = "follow_up" -> "fallback"
                            [] verdict' = "failed" -> "failed"
                 /\ UNCHANGED <<config, plan>>

Refuse_Always == "fallback"

\* Invalid tasks become the fallback or an error.
Refuse == IF allow THEN "fallback" ELSE "failed"

\* extractJSON, validateJSONSchema and json.Unmarshal; the output is then forgotten.
ParseTasks ==
    LET o == ResolveOutput("tasks")
    IN /\ pc = "parse"
       /\ pc' = CASE o \in {Nothing, "prose"} -> IF used THEN Refuse ELSE "without_skill"
                  [] o = "odd" -> IF strict THEN "failed" ELSE Refuse
                  [] o = "zero" -> "failed"
                  [] o = "list" -> "write"
       /\ out' = [out EXCEPT !["tasks"] = Nothing]
       /\ replies' = Append(replies, o)
       /\ UNCHANGED <<config, files, used, verdict, plan>>

WriteTasks == /\ pc = "write"
              /\ given' \in Plans
              /\ tasks' = NormalizeTasks(given', prefix)
              /\ files' = [files EXCEPT !["tasks"] = "list"]
              /\ pc' = IF tracker THEN "create" ELSE "done"
              /\ UNCHANGED <<config, out, used, verdict, replies, beads, edges, step>>

WriteFallbackTasks == /\ pc = "fallback"
                      /\ tasks' = FallbackTasks(prefix)
                      /\ files' = [files EXCEPT !["tasks"] = "list"]
                      /\ pc' = IF tracker THEN "create" ELSE "done"
                      /\ UNCHANGED <<config, out, used, verdict, replies, given, beads, edges, step>>

\* createBeads: first the beads, of tasks with one name only one, up to one without a name, ...
CreateBead ==
    LET bead == NormalizeBeadID(tasks[step].name)
    IN /\ pc = "create" /\ step <= Len(tasks)
       /\ IF bead = <<Blank>>
          THEN pc' = "failed" /\ UNCHANGED <<beads, step>>
          ELSE beads' = beads \cup {bead} /\ step' = step + 1 /\ UNCHANGED pc
       /\ UNCHANGED <<config, answers, given, tasks, edges>>

\* ... then the dependencies.  bd refuses one on a bead that it does not know, which ends
\* the creation where it is.
AddDependencies ==
    LET task == tasks[step - Len(tasks)]
        bead == NormalizeBeadID(task.name)
        needs == {NormalizeBeadID(d) : d \in task.deps} \ {<<Blank>>, bead}
    IN /\ pc = "create" /\ step > Len(tasks)
       /\ step' = step + 1
       /\ edges' = edges \cup {<<bead, d>> : d \in needs \cap beads}
       /\ pc' = CASE ~(needs \subseteq beads) -> "failed"
                  [] needs \subseteq beads /\ step' > 2 * Len(tasks) -> "done"
                  [] OTHER -> pc
       /\ UNCHANGED <<config, answers, given, tasks, beads>>

BdFails == /\ pc = "create"
           /\ pc' = "failed"
           /\ UNCHANGED <<config, answers, plan>>
-----------------------------------------------------------------------------
Init == /\ allow \in BOOLEAN /\ strict \in BOOLEAN /\ tracker \in BOOLEAN
        /\ \E bd, cfg \in IssuePrefixes \cup {<<>>} : prefix = ResolveBeadPrefix(bd, cfg)
        /\ pc = "spec" /\ used = FALSE /\ verdict = "none" /\ replies = <<>>
        /\ files = [d \in Documents |-> Nothing] /\ out = [d \in Documents |-> Nothing]
        /\ given = <<>> /\ tasks = <<>> /\ beads = {} /\ edges = {} /\ step = 1

Next == \/ Ask("spec", "spec_again", "plan") \/ AskAgain("spec", "spec_again", "plan")
        \/ Ask("plan", "plan_again", "documents") \/ AskAgain("plan", "plan_again", "documents")
        \/ WriteDocuments \/ FileFails
        \/ AskTasks \/ AskTasksAgain \/ ParseTasks \/ WriteTasks \/ WriteFallbackTasks
        \/ CreateBead \/ AddDependencies \/ BdFails

Spec == Init /\ [][Next]_vars
-----------------------------------------------------------------------------
(* Properties *)

TypeOK ==
    /\ allow \in BOOLEAN /\ strict \in BOOLEAN /\ used \in BOOLEAN /\ tracker \in BOOLEAN
    /\ prefix # <<>> /\ prefix = Trim(prefix)
    /\ pc \in {"spec", "spec_again", "plan", "plan_again", "documents", "tasks", "without_skill",
               "parse", "fallback", "write", "create", "done", "failed"}
    /\ \A d \in Documents : files[d] \in Outputs(d) /\ out[d] \in Outputs(d)
    /\ verdict \in {"none", "ok", "follow_up", "failed"}
    /\ given \in Plans \cup {<<>>}
    /\ pc \in {"create", "done"} => tasks # <<>>
    /\ edges \subseteq beads \X beads /\ step \in 1 .. 2 * Len(tasks) + 1

\* The fallback replaces the tasks of codex only for what its calls came to: two without
\* JSON, or a list that breaks the schema where that is no error, and in both cases only if
\* it is allowed; or a follow-up in the second call, after a first one that was of no use
\* either.  That takes the fallback whether it is allowed or not, also when the first call
\* returned invalid JSON.
FallbackHasReason ==
    LET noJSON == {Nothing, "prose"}
    IN tasks = FallbackTasks(prefix) /\ given = <<>> =>
          \/ allow /\ Len(replies) = 2 /\ replies[2] \in noJSON
          \/ allow /\ ~strict /\ replies # <<>> /\ Last(replies) = "odd"
          \/ /\ Len(replies) = 2 /\ replies[2] = "follow_up"
             /\ replies[1] \in noJSON \cup {"follow_up", "failed"}

\* The plan arrives in the tracker: tasks named as the prompt demands, <prefix>-<short>,
\* keep their names and so their own beads; a task that depends on another, by its name or
\* by the short one (which has no dash, or it is taken to have another prefix), has its bead
\* depend on the other's; and of a plan whose dependencies all name its tasks, bd knows all
\* of them when they are added.
Names(dep, name) ==
    dep # <<Blank>> /\ (dep = name \/ (Len(dep) = 1 /\ prefix \o dep = name))

Closed == \A i \in DOMAIN given : \A d \in given[i].deps :
              d = <<Blank>> \/ \E j \in DOMAIN given : Names(d, given[j].name)

PlanArrives ==
    tracker /\ given # <<>> =>
        /\ pc = "create" /\ step > Len(tasks) /\ Closed =>
              \A i \in DOMAIN tasks : \A d \in tasks[i].deps : NormalizeBeadID(d) \in beads
        /\ pc = "done" =>
              \A i, j \in DOMAIN given :
                 /\ HasPrefix(given[i].name, prefix) /\ Blank \notin ToSet(given[i].name)
                       => given[i].name \in beads
                 /\ (\E d \in given[i].deps : Names(d, given[j].name))
                    /\ tasks[i].name # tasks[j].name
                       => <<tasks[i].name, tasks[j].name>> \in edges
=============================================================================
