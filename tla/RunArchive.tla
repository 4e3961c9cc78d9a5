----------------------------- MODULE RunArchive -----------------------------
(***************************************************************************)
(* What becomes of the files of one run: its owner appends events and      *)
(* artifacts, `snapshot` or `resume` (or POST .../snapshots) builds a      *)
(* snapshot of it step by step, `resume` starts a new run whose prompts    *)
(* quote the snapshot, `kill` and the finalizer of stale runs write its    *)
(* record anew, and `cleanup` deletes the run, by its age or by its id.    *)
(* No lock keeps them apart, and any of them may be interrupted.           *)
(***************************************************************************)
EXTENDS LimitedText, FiniteSets, SequencesExt

CONSTANTS
    Settings,     \* options of the commands, see Setting
    Docs,         \* bytes of the memory documents, in the order of their names
    Texts,        \* names of artifacts that are text, two bytes each
    Others,       \* names of other artifacts
    MaxLog,       \* bound: events of the run
    NewEvents,    \* events of the new run when its first prompt is built
    None

Sources == {"memory", "events", "artifacts"}
Modes == {"inline", "summary_ref", "ref_only"}
Setting == [maxBytes : Nat, maxEvents : Nat, maxArtifacts : Nat, sources : SUBSET Sources,
            snapshotMode : Modes, memoryMode : Modes]

\* What is assumed of the constants.
ArchiveConfig == /\ Settings \subseteq Setting
                 /\ Docs \in Seq(Nat)
                 /\ MaxLog \in Nat /\ NewEvents \in Nat

VARIABLES
    opts,      \* the setting
    run,       \* status in run.json, None without the file
    aged,      \* the run finished longer ago than the retention
    here,      \* the directory of the run exists
    dirs,      \* its subdirectories, of "artifacts" and "snapshots"
    arts,      \* the artifacts, the latest last
    content,   \* the content file of the snapshot, or None
    record,    \* its record, or None
    log,       \* events in the log of the run, or None
    owner,     \* "starting", without its lock, "running", "over", or "failed", also by dying
    killer,    \* position of a kill, or of the finalizer: "save" once it has read run.json
    early,     \* history: one has found no lock of a live owner
    cmd,       \* position of the command
    resume,    \* the command is resume
    w,         \* its limit writer
    whole,     \* history: what it would hold without a limit
    manifest,  \* items counted per source
    listed,    \* artifacts it has listed
    next,      \* the new run: "none", "started" or "prompted"
    prompt,    \* feedback in its first prompt
    cleaner,   \* position of cleanup
    byAge,     \* cleanup has no --run
    names      \* entries still to remove

files == <<run, aged, here, dirs, arts, content, record, log>>
finalizer == <<killer, early>>
command == <<cmd, resume, w, whole, manifest, listed, next, prompt>>
cleanup == <<cleaner, byAge, names>>
vars == <<opts, files, owner, finalizer, command, cleanup>>
-----------------------------------------------------------------------------
(* The owner, as far as the archive sees it *)

Ended == {"completed", "failed"}

Live == {"starting", "running"}

\* AcquireRunLock creates its file in the directory.
AcquireLock == /\ owner = "starting"
               /\ owner' = IF here THEN "running" ELSE "failed"
               /\ UNCHANGED <<opts, files, finalizer, command, cleanup>>

\* AppendEvent does not create the log; the owner ignores the error.
AppendEvent == /\ owner = "running" /\ log # None /\ log < MaxLog
               /\ log' = log + 1
               /\ UNCHANGED <<opts, run, aged, here, dirs, arts, content, record, owner,
                              finalizer, command, cleanup>>

\* writeNamedArtifact: an artifact that is written again becomes the latest.
WriteArtifact(a) ==
    /\ owner = "running" /\ "artifacts" \in dirs
    /\ arts' = Append(RemoveFirst(arts, a), a)
    /\ UNCHANGED <<opts, run, aged, here, dirs, content, record, log, owner, finalizer, command,
                   cleanup>>

\* SaveRun with the configuration and at the begin of an iteration: when it fails, as it does
\* without the directory, Run returns an error.
SaveRun == /\ owner \in Live
           /\ \/ here /\ run' = "running" /\ aged' = FALSE /\ UNCHANGED owner
              \/ owner' = "failed" /\ UNCHANGED <<run, aged>>
           /\ UNCHANGED <<opts, here, dirs, arts, content, record, log, finalizer, command,
                          cleanup>>

\* The outcome; an error of its SaveRun is ignored.
FinalizeRun == /\ owner = "running"
               /\ owner' = "over"
               /\ \/ here /\ run' \in Ended /\ aged' = FALSE
                  \/ UNCHANGED <<run, aged>>
               /\ UNCHANGED <<opts, here, dirs, arts, content, record, log, finalizer, command,
                              cleanup>>

Crash == /\ owner \in Live
         /\ owner' = "failed"
         /\ UNCHANGED <<opts, files, finalizer, command, cleanup>>

Age == /\ run \in Ended /\ ~aged
       /\ aged' = TRUE
       /\ UNCHANGED <<opts, run, here, dirs, arts, content, record, log, owner, finalizer,
                      command, cleanup>>
-----------------------------------------------------------------------------
(* kill, and the finalizer of stale runs *)

\* requestRunAction and FinalizeStaleRuns: GetRun, and GetRunLock.  The process of the lock
\* gets a signal, after which it dies (Crash); FinalizeRun is called where there is no lock of
\* a live process.  One that comes before the owner has its lock removes it, so that others
\* may follow.
KillReads == /\ killer = "idle" /\ run # None
             /\ owner # "running" \/ early
             /\ killer' = "save" /\ early' = (early \/ owner = "starting")
             /\ UNCHANGED <<opts, files, owner, command, cleanup>>

\* The rest of FinalizeRun: SaveRun, whatever has become of the file meanwhile, and an event.
KillSaves == /\ killer = "save"
             /\ killer' = "idle"
             /\ run' = IF here THEN "failed" ELSE run
             /\ aged' = IF here THEN FALSE ELSE aged
             /\ log' = IF here /\ log # None /\ log < MaxLog THEN log + 1 ELSE log
             /\ UNCHANGED <<opts, here, dirs, arts, content, record, owner, early, command,
                            cleanup>>

InterruptKill == /\ killer = "save"
                 /\ killer' = "idle"
                 /\ UNCHANGED <<opts, files, owner, early, command, cleanup>>
-----------------------------------------------------------------------------
(* snapshot and resume *)

\* resumeMessage.
MayResume(status, hasTask, force) ==
    force \/ (status \notin {"running", "completed"} /\ hasTask)

\* GetRun, which needs the run to be listed.
BeginSnapshot ==
    /\ cmd = "idle"
    /\ cmd' = IF run = None THEN "failed" ELSE "mkdir"
    /\ UNCHANGED <<opts, files, owner, finalizer, resume, w, whole, manifest, listed, next,
                   prompt, cleanup>>

BeginResume ==
    /\ cmd = "idle"
    /\ resume' = TRUE
    /\ \E hasTask, force \in BOOLEAN :
          cmd' = IF run # None /\ MayResume(run, hasTask, force) THEN "mkdir" ELSE "failed"
    /\ UNCHANGED <<opts, files, owner, finalizer, w, whole, manifest, listed, next, prompt,
                   cleanup>>

\* MkdirAll, which creates the directory of the run as well; and the heading.
MakeDir ==
    /\ cmd = "mkdir"
    /\ here' = TRUE /\ dirs' = dirs \cup {"snapshots"}
    /\ w' = Put(NewLimitWriter(opts.maxBytes), Piece("heading", 0, 1))
    /\ whole' = Put(NewLimitWriter(0), Piece("heading", 0, 1))
    /\ cmd' = "memory"
    /\ UNCHANGED <<opts, run, aged, arts, content, record, log, owner, finalizer, resume,
                   manifest, listed, next, prompt, cleanup>>

\* One source: heading and end of a list are written whether they fit or not.
Write(source, heading, items, end) ==
    LET enabled == source \in opts.sources /\ items # <<>>
        filled(v) == PutItems(Put(v, heading), items)
        closed(v) == Put(filled(v).w, end)
    IN /\ w' = IF enabled THEN closed(w) ELSE w
       /\ whole' = IF enabled THEN closed(whole) ELSE whole
       /\ manifest' = [manifest EXCEPT ![source] = IF enabled THEN filled(w).n ELSE 0]

Files == UNCHANGED <<opts, files, owner, finalizer, resume, next, prompt, cleanup>>

\* A document is there in full, with a heading; a log that is missing has no events, a directory that is
\* missing no artifacts.
ListMemoryDocs == [i \in DOMAIN Docs |-> << Piece("memory", i, 1 + Docs[i]) >>]

ListEvents == IF log = None THEN <<>> ELSE Lines("events", log)

ListArtifacts == IF "artifacts" \in dirs THEN arts ELSE <<>>

ReadMemory == /\ cmd = "memory"
              /\ Write("memory", <<>>, ListMemoryDocs, <<>>)
              /\ cmd' = "events"
              /\ Files /\ UNCHANGED listed

ReadEvents == /\ cmd = "events"
              /\ Write("events", Piece("heading", 1, 1), LastItems(opts.maxEvents, ListEvents),
                       Piece("end", 1, 1))
              /\ cmd' = "artifacts"
              /\ Files /\ UNCHANGED listed

ReadArtifacts ==
    /\ cmd = "artifacts"
    /\ listed' = LastItems(opts.maxArtifacts, ListArtifacts)
    /\ Write("artifacts", Piece("heading", 2, 1), Lines("artifacts", Len(listed')), Piece("end", 2, 1))
    /\ cmd' = "texts"
    /\ Files

\* The contents of the text artifacts among them that are still there, each in a fence that
\* is closed even when the content did not fit.
ReadTexts ==
    /\ cmd = "texts"
    /\ LET isThere(a) == "artifacts" \in opts.sources /\ a \in Texts /\ a \in ToSet(ListArtifacts)
           fenced(i) == << Piece("fence", i, 1), Piece("text", i, 2), Piece("fence", i, 1) >>
           items == [i \in DOMAIN listed |-> IF isThere(listed[i]) THEN fenced(i) ELSE <<>>]
       IN w' = PutItems(w, items).w /\ whole' = PutItems(whole, items).w
    /\ cmd' = "content"
    /\ Files /\ UNCHANGED <<manifest, listed>>

WriteContent_RecordFirst ==
    /\ cmd = "content"
    /\ IF "snapshots" \in dirs
       THEN record' = [bytes |-> Len(w.text), manifest |-> manifest] /\ cmd' = "record"
       ELSE cmd' = "failed" /\ UNCHANGED record
    /\ UNCHANGED <<opts, run, aged, here, dirs, arts, content, log, owner, finalizer, resume, w,
                   whole, manifest, listed, next, prompt, cleanup>>

WriteContent ==
    /\ cmd = "content"
    /\ IF "snapshots" \in dirs THEN content' = w.text /\ cmd' = "record"
                               ELSE cmd' = "failed" /\ UNCHANGED content
    /\ UNCHANGED <<opts, run, aged, here, dirs, arts, record, log, owner, finalizer, resume, w,
                   whole, manifest, listed, next, prompt, cleanup>>

WriteRecord ==
    /\ cmd = "record"
    /\ IF "snapshots" \in dirs
       THEN record' = [bytes |-> Len(w.text), manifest |-> manifest] /\ cmd' = "written"
       ELSE cmd' = "failed" /\ UNCHANGED record
    /\ UNCHANGED <<opts, run, aged, here, dirs, arts, content, log, owner, finalizer, resume, w,
                   whole, manifest, listed, next, prompt, cleanup>>

\* runLoop with the path of the content; a phase of the new run reads it anew.
StartRun == /\ cmd = "written"
            /\ cmd' = "done"
            /\ next' = IF resume THEN "started" ELSE next
            /\ UNCHANGED <<opts, files, owner, finalizer, resume, w, whole, manifest, listed,
                           prompt, cleanup>>

Feedback(max) ==
    GatherFeedback(max, opts.snapshotMode, opts.memoryMode, IF content = None THEN NoText ELSE content,
                   IF "memory" \in opts.sources THEN Docs ELSE <<>>,
                   IF "events" \in opts.sources
                   THEN Len(LastItems(opts.maxEvents, Lines("events", NewEvents))) ELSE 0, 0)

BeginPhase == /\ next = "started"
              /\ next' = "prompted"
              /\ prompt' = Feedback(opts.maxBytes)
              /\ UNCHANGED <<opts, files, owner, finalizer, cmd, resume, w, whole, manifest,
                             listed, cleanup>>

Interrupt == /\ cmd \notin {"idle", "done", "failed", "interrupted"}
             /\ cmd' = "interrupted"
             /\ UNCHANGED <<opts, files, owner, finalizer, resume, w, whole, manifest, listed,
                            next, prompt, cleanup>>
-----------------------------------------------------------------------------
(* cleanup *)

EntryNames == {"run.json", "artifacts", "snapshots"}

Entries == dirs \cup (IF run = None THEN {} ELSE {"run.json"})

OldEnough_AlsoRunning == run # None

\* The run is in the list, has finished, and not after the cutoff.
OldEnough == run \in Ended /\ aged

\* Without --run, the runs that are listed and old enough; with it, any run.
BeginCleanup ==
    /\ cleaner = "idle"
    /\ byAge' \in BOOLEAN
    /\ cleaner' = IF byAge' THEN (IF OldEnough THEN "stat" ELSE "done")
                            ELSE (IF run = None THEN "failed" ELSE "stat")
    /\ UNCHANGED <<opts, files, owner, finalizer, command, names>>

\* DeleteRun: RemoveAll reads the entries once.
ReadEntries == /\ cleaner = "stat"
               /\ cleaner' = "remove" /\ names' = Entries
               /\ UNCHANGED <<opts, files, owner, finalizer, command, byAge>>

\* A subdirectory goes with all that is in it.
RemoveEntry(e) ==
    /\ cleaner = "remove" /\ e \in names
    /\ names' = names \ {e}
    /\ dirs' = dirs \ {e}
    /\ run' = IF e = "run.json" THEN None ELSE run
    /\ arts' = IF e = "artifacts" THEN <<>> ELSE arts
    /\ content' = IF e = "snapshots" THEN None ELSE content
    /\ record' = IF e = "snapshots" THEN None ELSE record
    /\ UNCHANGED <<opts, aged, here, log, owner, finalizer, command, cleaner, byAge>>

\* What was written meanwhile keeps the directory, and cleanup fails: also a control file or
\* a heartbeat, which are not modelled.
RemoveDir == /\ cleaner = "remove" /\ names = {}
             /\ \/ Entries = {} /\ here' = FALSE /\ cleaner' = "log"
                \/ cleaner' = "failed" /\ UNCHANGED here
             /\ UNCHANGED <<opts, run, aged, dirs, arts, content, record, log, owner, finalizer,
                            command, byAge, names>>

RemoveLog == /\ cleaner = "log"
             /\ log' = None /\ cleaner' = "done"
             /\ UNCHANGED <<opts, run, aged, here, dirs, arts, content, record, owner, finalizer,
                            command, byAge, names>>

InterruptCleanup == /\ cleaner \in {"stat", "remove", "log"}
                    /\ cleaner' = "interrupted"
                    /\ UNCHANGED <<opts, files, owner, finalizer, command, byAge, names>>
-----------------------------------------------------------------------------
Init == /\ opts \in Settings
        /\ run = "running" /\ aged = FALSE /\ here = TRUE
        /\ dirs = {"artifacts", "snapshots"} /\ arts = <<>>
        /\ content = None /\ record = None /\ log = 0
        /\ owner = "starting" /\ killer = "idle" /\ early = FALSE
        /\ cmd = "idle" /\ resume = FALSE /\ w = NewLimitWriter(0) /\ whole = NewLimitWriter(0)
        /\ manifest = [s \in Sources |-> 0] /\ listed = <<>>
        /\ next = "none" /\ prompt = None
        /\ cleaner = "idle" /\ byAge = FALSE /\ names = {}

Owner == \/ AcquireLock \/ AppendEvent \/ SaveRun \/ FinalizeRun \/ Crash
         \/ \E a \in Texts \cup Others : WriteArtifact(a)

Finalizer == KillReads \/ KillSaves \/ InterruptKill

Command == \/ BeginSnapshot \/ BeginResume \/ MakeDir \/ ReadMemory \/ ReadEvents \/ ReadArtifacts \/ ReadTexts
           \/ WriteContent \/ WriteRecord \/ StartRun \/ BeginPhase \/ Interrupt

Cleanup == \/ BeginCleanup \/ ReadEntries \/ RemoveDir \/ RemoveLog \/ InterruptCleanup
           \/ \E e \in EntryNames : RemoveEntry(e)

Next == Owner \/ Age \/ Finalizer \/ Command \/ Cleanup

Spec == Init /\ [][Next]_vars
-----------------------------------------------------------------------------
(* Properties *)

\* A deletion of the run has begun.
Removing == \/ cleaner \in {"remove", "log", "interrupted"}
            \/ cleaner = "done" /\ ~here
            \/ cleaner = "failed"

TypeOK ==
    /\ opts \in Settings
    /\ run \in Ended \cup {"running", None} /\ aged \in BOOLEAN /\ here \in BOOLEAN
    /\ dirs \subseteq EntryNames \ {"run.json"} /\ (Entries # {} => here)
    /\ IsInjective(arts) /\ ToSet(arts) \subseteq Texts \cup Others
    /\ (arts # <<>> => "artifacts" \in dirs)
    /\ content = None \/ content = w.text
    /\ record = None \/ record.manifest = manifest
    /\ log \in 0 .. MaxLog \cup {None}
    /\ owner \in Live \cup {"over", "failed"}
    /\ killer \in {"idle", "save"} /\ early \in BOOLEAN
    /\ cmd \in {"idle", "mkdir", "memory", "events", "artifacts", "texts", "content", "record",
                "written", "done", "failed", "interrupted"}
    /\ next \in {"none", "started", "prompted"} /\ (next # "none" => resume /\ cmd = "done")
    /\ prompt # None <=> next = "prompted"
    /\ cleaner \in {"idle", "stat", "remove", "log", "done", "failed", "interrupted"}
    /\ names \subseteq EntryNames

\* What ListSnapshots lists is whole: its content is there, as long as the record says, and
\* the manifest counts the items that show in the content and at most one more per source,
\* the one that did not fit; a resumed run starts with such a snapshot.  Only a deletion
\* that has begun may break this.
SnapshotsAreWhole ==
    ~Removing =>
        /\ record # None =>
              /\ content # None /\ Len(content) = record.bytes
              /\ \A s \in Sources : record.manifest[s] - Cardinality(Shown(content, s)) \in {0, 1}
        /\ next # "none" => record # None

\* The budget cuts the end off a text and nothing else: a snapshot, and the feedback of a
\* phase, are the first bytes of what they would be without a limit; and the bytes that the
\* feedback records are its length, or 0 when nothing was written or it returned early, for
\* which the budget must be used up.
CutAtBudget ==
    LET cut(text) == IF opts.maxBytes > 0 THEN FirstBytes(text, opts.maxBytes) ELSE text
    IN /\ cmd # "idle" => w.text = cut(whole.text)
       /\ next = "prompted" =>
             /\ prompt.bytes \in {0, Len(prompt.text)}
             /\ prompt.bytes = 0 => Len(prompt.text) \in {0, opts.maxBytes}
             /\ content # None => prompt.text = cut(Feedback(0).text)

\* cleanup by age takes only runs whose owner has ended: once it has removed run.json, the
\* run is not listed again, although snapshot and resume may make its directory anew.  Two
\* cases are left out, in which the code does bring the run back: a kill, or the finalizer of
\* stale runs, that has read run.json before and still has to write it ("save"), and a run
\* that was killed before its owner had the lock, whose owner lives on.  With them gone none
\* follows.
Deleted == byAge /\ run = None /\ cleaner \in {"remove", "log", "done", "failed", "interrupted"}

DeletedStaysDeleted ==
    [][Deleted /\ killer # "save" /\ ~early
          => run' = None /\ killer' # "save" /\ ~early']_vars
=============================================================================
