--------------------------- MODULE ServicesProofs ---------------------------
(***************************************************************************)
(* What the run of MCServices checks of RunArchive, PluginHost and         *)
(* Generation holds for any settings, plans and bounds.                    *)
(***************************************************************************)
EXTENDS Services, SequenceTheorems, FiniteSetTheorems, WellFoundedInduction, TLAPS
-----------------------------------------------------------------------------
LessOnNat == {ss \in Nat \X Nat : ss[1] < ss[2]}

\* Induction over a set of numbers.
LEMMA SetInduction ==
    ASSUME NEW S, 0 \in S, \A n \in Nat : n \in S => n + 1 \in S
    PROVE  Nat \subseteq S
<1> DEFINE T == Nat \ S
<1>1. SUFFICES ASSUME T # {} PROVE FALSE
  OBVIOUS
<1>2. IsWellFoundedOn(LessOnNat, Nat)
  BY NatLessThanWellFounded DEF OpToRel, LessOnNat
<1>3. T \subseteq Nat
  OBVIOUS
<1>4. PICK n \in T : \A m \in T : ~ (<<m, n>> \in LessOnNat)
  <2> HIDE DEF T
  <2> QED BY <1>1, <1>2, <1>3, WFMin
<1>5. n \in Nat /\ n # 0 /\ n - 1 \in Nat
  OBVIOUS
<1>6. <<n - 1, n>> \in LessOnNat
  BY <1>5 DEF LessOnNat
<1>7. n - 1 \in S
  BY <1>4, <1>5, <1>6
<1> QED BY <1>5, <1>7
-----------------------------------------------------------------------------
(* PluginHost *)

\* Inductive: the plugin lives from Start to Wait, and a line that was read counts twice
\* when it is the second.
HostInv ==
    /\ Host!TypeOK
    /\ pc \in {"discover", "start"} => plugin = "none" /\ reader = "none"
    /\ pc \in {"handshake", "write", "response", "kill"} => plugin \in {"running", "exited"}
    /\ pc = "wait" => plugin \in {"exited", "reaped"}
    /\ pc \notin {"discover", "returned"} => named = "valid"
    /\ result = "output" => reader = "none" /\ pc \in {"kill", "wait", "returned"}
    /\ emitted >= Len(lines)
    /\ pc = "handshake" /\ reader = "line" => emitted >= Len(lines) + 1
    /\ pc \in {"write", "response"} => emitted >= Len(lines) + 1
    /\ pc = "response" /\ reader = "line" => emitted >= Len(lines) + 2

LEMMA HostInit == ASSUME Host!HostConfig, Host!Init PROVE HostInv
<1>1. <<>> \in Seq(Host!Lines) /\ Len(<<>>) = 0 /\ 0 \in 0 .. MaxLines
    BY DEF Host!HostConfig
<1>2. named \in {"valid", "invalid", "missing"} /\ others \in BOOLEAN
      /\ timeout \in {"default", "set"} /\ large \in BOOLEAN
    BY DEF Host!Init
<1>3. /\ pc = "discover" /\ result = "none" /\ ctx = "live" /\ plugin = "none"
      /\ lines = <<>> /\ emitted = 0 /\ reader = "none" /\ line = "none"
      /\ heir \in BOOLEAN /\ open \in BOOLEAN
    BY DEF Host!Init
<1> QED
    BY <1>1, <1>2, <1>3 DEF HostInv, Host!TypeOK

LEMMA PluginKeepsHost ==
    ASSUME Host!HostConfig, HostInv, Host!Plugin \/ Host!ContextDone \/ Host!ContextKills
    PROVE  HostInv'
<1> USE DEF Host!Host, Host!config, Host!caller
<1>1. CASE Host!PluginEmits
  <2>1. PICK l \in Host!Lines : lines' = Append(lines, l)
      BY <1>1 DEF Host!PluginEmits
  <2>2. lines \in Seq(Host!Lines) /\ emitted \in Nat
      BY DEF HostInv, Host!TypeOK
  <2>3. lines' \in Seq(Host!Lines) /\ Len(lines') = Len(lines) + 1 /\ Len(lines) \in Nat
      BY <2>1, <2>2
  <2>4. emitted' = emitted + 1 /\ emitted' \in 0 .. MaxLines
      BY <1>1 DEF Host!PluginEmits, HostInv, Host!TypeOK, Host!HostConfig
  <2>5. UNCHANGED <<named, others, timeout, large, pc, result, reader, line, open, ctx, plugin, heir>>
      BY <1>1 DEF Host!PluginEmits
  <2> QED
      BY <2>2, <2>3, <2>4, <2>5 DEF HostInv, Host!TypeOK
<1>2. CASE Host!PluginForks \/ Host!HeirExits
  <2>1. /\ heir' \in BOOLEAN
        /\ UNCHANGED <<named, others, timeout, large, pc, result, reader, line, open, ctx,
                       plugin, lines, emitted>>
      BY <1>2 DEF Host!PluginForks, Host!HeirExits
  <2> QED
      BY <2>1 DEF HostInv, Host!TypeOK
<1>3. CASE Host!PluginExits \/ Host!ContextKills
    BY <1>3 DEF Host!PluginExits, Host!ContextKills, HostInv, Host!TypeOK
<1>4. CASE Host!ContextDone
    BY <1>4 DEF Host!ContextDone, HostInv, Host!TypeOK
<1> QED
    BY <1>1, <1>2, <1>3, <1>4 DEF Host!Plugin

LEMMA ReaderKeepsHost == ASSUME HostInv, Host!Reader PROVE HostInv'
<1>1. CASE Host!ReaderReads
  <2>1. /\ reader = "reading" /\ lines # <<>> /\ reader' = "line"
        /\ line' = Head(lines) /\ lines' = Tail(lines)
        /\ UNCHANGED <<named, others, timeout, large, pc, result, ctx, plugin, heir, emitted, open>>
      BY <1>1 DEF Host!ReaderReads, Host!config
  <2>2. lines \in Seq(Host!Lines) /\ emitted \in Nat
      BY DEF HostInv, Host!TypeOK
  <2>3. /\ line' \in Host!Lines /\ lines' \in Seq(Host!Lines)
        /\ Len(lines') = Len(lines) - 1 /\ Len(lines) \in Nat
      BY <2>1, <2>2
  <2> QED
      BY <2>1, <2>2, <2>3 DEF HostInv, Host!TypeOK
<1>2. CASE Host!ReaderFails
    BY <1>2 DEF Host!ReaderFails, Host!config, Host!world, HostInv, Host!TypeOK
<1> QED
    BY <1>1, <1>2 DEF Host!Reader

LEMMA CallKeepsHost == ASSUME HostInv, Host!Call \/ Host!WriteRequest PROVE HostInv'
<1> USE DEF Host!Fail, Host!Host, Host!config, Host!caller, Host!world, HostInv, Host!TypeOK,
            Host!Lines
<1>1. Len(lines) \in Nat
  <2>1. lines \in Seq(Host!Lines)
      OBVIOUS
  <2> QED
      BY <2>1
<1>2. CASE Host!Discover \/ Host!StartFails
    BY <1>2 DEF Host!Discover, Host!StartFails
<1>6. CASE Host!Start
    BY <1>1, <1>6 DEF Host!Start
<1>3. CASE Host!SelectContext \/ Host!SelectError \/ Host!Handshake \/ Host!Response
    BY <1>1, <1>3 DEF Host!SelectContext, Host!SelectError, Host!Handshake, Host!Response
<1>4. CASE Host!WriteRequest \/ Host!WriteFails
    BY <1>4 DEF Host!WriteRequest, Host!WriteFails
<1>5. CASE Host!Kill \/ Host!Reap
    BY <1>5 DEF Host!Kill, Host!Reap
<1>7. CASE Host!Return
  <2>1. /\ plugin = "reaped" /\ pc' = "returned" /\ open' \in BOOLEAN
        /\ UNCHANGED <<named, others, timeout, large, result, reader, line, ctx, plugin, heir,
                       lines, emitted>>
      BY <1>7 DEF Host!Return
  <2> QED
      BY <2>1
<1> QED
    BY <1>2, <1>3, <1>4, <1>5, <1>6, <1>7 DEF Host!Call

\* A call of a plugin keeps its types for any number of lines: it returns with the plugin
\* reaped, if it was started, and with output only from the second line of a plugin whose
\* manifest is valid.
THEOREM HostTypes == ASSUME Host!HostConfig PROVE Host!Spec => []Host!TypeOK
<1>1. Host!Init => HostInv
    BY HostInit
<1>2. HostInv /\ [Host!Next]_(Host!vars) => HostInv'
  <2> SUFFICES ASSUME HostInv, [Host!Next]_(Host!vars) PROVE HostInv'
      OBVIOUS
  <2>1. CASE UNCHANGED Host!vars
      BY <2>1 DEF Host!vars, Host!config, Host!caller, Host!world, HostInv, Host!TypeOK
  <2> QED
      BY <2>1, PluginKeepsHost, ReaderKeepsHost, CallKeepsHost DEF Host!Next
<1>3. HostInv => Host!TypeOK
    BY DEF HostInv
<1> QED
    BY <1>1, <1>2, <1>3, PTL DEF Host!Spec
-----------------------------------------------------------------------------
(* Generation: types *)

Steps == {"spec", "spec_again", "plan", "plan_again", "documents", "tasks", "without_skill",
          "parse", "fallback", "write", "create", "done", "failed"}

\* The calls of codex, apart from what comes of the tasks.
CallTypes ==
    /\ allow \in BOOLEAN /\ strict \in BOOLEAN /\ used \in BOOLEAN /\ tracker \in BOOLEAN
    /\ todo \in Steps
    /\ verdict \in {"none", "ok", "follow_up", "failed"}
    /\ \A f \in {documents, out} : /\ f = [d \in Gen!Documents |-> f[d]]
                                   /\ \A d \in Gen!Documents : f[d] \in Gen!Outputs(d)

LEMMA ExecTypes ==
    ASSUME CallTypes, NEW doc \in Gen!Documents, Gen!Exec(doc)
    PROVE  /\ verdict' \in {"none", "ok", "follow_up", "failed"}
           /\ \A f \in {documents', out'} : /\ f = [d \in Gen!Documents |-> f[d]]
                                            /\ \A d \in Gen!Documents : f[d] \in Gen!Outputs(d)
<1>1. PICK o \in Gen!Outputs(doc) :
         /\ out' = [out EXCEPT ![doc] = o]
         /\ documents' \in {documents, [documents EXCEPT ![doc] = o]}
    BY DEF Gen!Exec
<1>2. verdict' \in {"ok", "follow_up", "failed"}
    BY DEF Gen!Exec
<1>3. ASSUME NEW f \in {documents, out}
      PROVE  LET g == [f EXCEPT ![doc] = o]
             IN /\ g = [d \in Gen!Documents |-> g[d]]
                /\ \A d \in Gen!Documents : g[d] \in Gen!Outputs(d)
    BY <1>1 DEF CallTypes
<1> QED
    BY <1>1, <1>2, <1>3 DEF CallTypes

\* What AddDependencies leaves alone, and where it goes.
LEMMA AddDependenciesFrame ==
    ASSUME Gen!AddDependencies
    PROVE  /\ todo = "create" /\ step > Len(tasks) /\ step' = step + 1
           /\ todo' \in {"failed", "done", todo}
           /\ UNCHANGED <<allow, strict, tracker, prefix, documents, out, used, verdict, replies,
                          given, tasks, beads>>
<1>1. /\ todo = "create" /\ step > Len(tasks) /\ step' = step + 1
      /\ todo' \in {"failed", "done", todo}
      /\ UNCHANGED <<Gen!config, Gen!answers, given, tasks, beads>>
    BY Zenon DEF Gen!AddDependencies
<1> QED
    BY <1>1 DEF Gen!config, Gen!answers

\* CreateBead fails for a task without a name, or creates the bead of its task.
LEMMA CreateBeadFrame ==
    ASSUME Gen!CreateBead
    PROVE  /\ todo = "create" /\ step <= Len(tasks)
           /\ UNCHANGED <<tracker, prefix, given, tasks, edges>>
           /\ \/ todo' = "failed" /\ UNCHANGED <<beads, step>>
              \/ /\ UNCHANGED todo /\ step' = step + 1
                 /\ beads' = beads \cup {Gen!NormalizeBeadID(tasks[step].name)}
BY DEF Gen!CreateBead, Gen!config

LEMMA ParseGoesTo ==
    ASSUME CallTypes, Gen!ParseTasks
    PROVE  /\ todo' \in {"without_skill", "fallback", "failed", "write"}
           /\ todo' = "fallback" => allow
<1> DEFINE o == Gen!ResolveOutput("tasks")
<1>1. todo' = (CASE o \in {Gen!Nothing, "prose"} -> IF used THEN Gen!Refuse ELSE "without_skill"
                 [] o = "odd" -> IF strict THEN "failed" ELSE Gen!Refuse
                 [] o = "zero" -> "failed"
                 [] o = "list" -> "write")
    BY DEF Gen!ParseTasks
<1>2. o \in {Gen!Nothing, "prose", "odd", "zero", "list"}
  <2>1. "tasks" \in Gen!Documents
      BY DEF Gen!Documents
  <2> QED
      BY <2>1 DEF Gen!ResolveOutput, Gen!Outputs, CallTypes
<1> HIDE DEF o
<1> QED
    BY <1>1, <1>2 DEF Gen!Refuse, Gen!Nothing

LEMMA CallTypesStep == ASSUME CallTypes, [Gen!Next]_(Gen!vars) PROVE CallTypes'
<1> USE DEF Gen!config, Gen!answers, Gen!plan, Steps
<1>1. ASSUME NEW doc \in {"spec", "plan"}, NEW again \in {"spec_again", "plan_again"},
             NEW done \in {"plan", "documents"},
             Gen!Ask(doc, again, done) \/ Gen!AskAgain(doc, again, done)
      PROVE  CallTypes'
  <2>1. Gen!Exec(doc) /\ UNCHANGED <<allow, strict, tracker, used>>
      BY <1>1 DEF Gen!Ask, Gen!AskAgain
  <2>2. verdict' \in {"ok", "follow_up", "failed"}
      BY <2>1 DEF Gen!Exec
  <2>3. todo' \in Steps
    <3>1. CASE Gen!AskAgain(doc, again, done)
        BY <3>1 DEF Gen!AskAgain
    <3>2. CASE Gen!Ask(doc, again, done)
      <4>1. PICK marker \in BOOLEAN :
              todo' = (CASE verdict' = "ok" \/ (verdict' = "follow_up" /\ out'[doc] # Gen!Nothing) -> done
                        [] verdict' = "failed" \/ (verdict' = "follow_up" /\ out'[doc] = Gen!Nothing) ->
                              IF marker THEN again ELSE "failed")
          BY <3>2 DEF Gen!Ask
      <4> QED
          BY <4>1, <2>2
    <3> QED
        BY <1>1, <3>1, <3>2
  <2>4. doc \in Gen!Documents
      BY DEF Gen!Documents
  <2> QED
      BY <2>1, <2>3, <2>4, ExecTypes DEF CallTypes
<1>2. CASE Gen!AskTasks \/ Gen!AskTasksAgain
  <2>1. Gen!Exec("tasks") /\ UNCHANGED <<allow, strict, tracker>> /\ used' \in BOOLEAN
      BY <1>2 DEF Gen!AskTasks, Gen!AskTasksAgain, CallTypes
  <2>2. verdict' \in {"ok", "follow_up", "failed"}
      BY <2>1 DEF Gen!Exec
  <2>3. todo' \in Steps
      BY <1>2, <2>2 DEF Gen!AskTasks, Gen!AskTasksAgain
  <2>4. "tasks" \in Gen!Documents
      BY DEF Gen!Documents
  <2> QED
      BY <2>1, <2>3, <2>4, ExecTypes DEF CallTypes
<1>3. CASE Gen!WriteDocuments
  <2>1. /\ UNCHANGED <<allow, strict, tracker, used, verdict>> /\ todo' = "tasks"
        /\ documents' = [documents EXCEPT !["spec"] = Gen!ResolveOutput("spec"),
                                          !["plan"] = Gen!ResolveOutput("plan")]
        /\ out' = [out EXCEPT !["spec"] = Gen!Nothing, !["plan"] = Gen!Nothing]
      BY <1>3 DEF Gen!WriteDocuments
  <2>2. \A d \in Gen!Documents : Gen!ResolveOutput(d) \in Gen!Outputs(d)
      BY DEF Gen!ResolveOutput, CallTypes
  <2>3. \A d \in Gen!Documents : Gen!Nothing \in Gen!Outputs(d)
      BY DEF Gen!Outputs
  <2>4. "spec" \in Gen!Documents /\ "plan" \in Gen!Documents
      BY DEF Gen!Documents
  <2>5. /\ documents' = [d \in Gen!Documents |-> documents'[d]]
        /\ \A d \in Gen!Documents : documents'[d] \in Gen!Outputs(d)
      BY <2>1, <2>2, <2>4 DEF CallTypes
  <2>6. /\ out' = [d \in Gen!Documents |-> out'[d]]
        /\ \A d \in Gen!Documents : out'[d] \in Gen!Outputs(d)
      BY <2>1, <2>3, <2>4 DEF CallTypes
  <2> QED
      BY <2>1, <2>5, <2>6 DEF CallTypes
<1>4. CASE Gen!ParseTasks
  <2>1. /\ UNCHANGED <<allow, strict, tracker, used, verdict, documents>>
        /\ out' = [out EXCEPT !["tasks"] = Gen!Nothing]
      BY <1>4 DEF Gen!ParseTasks
  <2>2. "tasks" \in Gen!Documents /\ Gen!Nothing \in Gen!Outputs("tasks")
      BY DEF Gen!Documents, Gen!Outputs
  <2>3. /\ out' = [d \in Gen!Documents |-> out'[d]]
        /\ \A d \in Gen!Documents : out'[d] \in Gen!Outputs(d)
      BY <2>1, <2>2 DEF CallTypes
  <2> QED
      BY <1>4, <2>1, <2>3, ParseGoesTo DEF CallTypes
<1>5. CASE Gen!WriteTasks \/ Gen!WriteFallbackTasks
  <2>1. /\ UNCHANGED <<allow, strict, tracker, used, verdict, out>>
        /\ todo' \in Steps /\ documents' = [documents EXCEPT !["tasks"] = "list"]
      BY <1>5 DEF Gen!WriteTasks, Gen!WriteFallbackTasks
  <2>2. "tasks" \in Gen!Documents /\ "list" \in Gen!Outputs("tasks")
      BY DEF Gen!Documents, Gen!Outputs
  <2>3. /\ documents' = [d \in Gen!Documents |-> documents'[d]]
        /\ \A d \in Gen!Documents : documents'[d] \in Gen!Outputs(d)
      BY <2>1, <2>2 DEF CallTypes
  <2> QED
      BY <2>1, <2>3 DEF CallTypes
<1>6. CASE Gen!FileFails \/ Gen!CreateBead \/ Gen!BdFails \/ UNCHANGED Gen!vars
    BY <1>6 DEF Gen!FileFails, Gen!CreateBead, Gen!BdFails, Gen!vars, CallTypes
<1>7. CASE Gen!AddDependencies
    BY <1>7, AddDependenciesFrame DEF CallTypes
<1> QED
    BY <1>1, <1>2, <1>3, <1>4, <1>5, <1>6, <1>7 DEF Gen!Next

LEMMA CallTypesInit == Gen!Init => CallTypes
BY DEF Gen!Init, CallTypes, Steps, Gen!Documents, Gen!Outputs
-----------------------------------------------------------------------------
(* Generation: segments *)

\* A set of places in a sequence has a first one and a last one.
LEMMA FirstAndLast ==
    ASSUME NEW n \in Nat, NEW T \in SUBSET (1 .. n), T # {}
    PROVE  /\ \E i \in T : \A j \in T : i <= j
           /\ \E i \in T : \A j \in T : j <= i
<1> DEFINE Low == {m \in Nat : (\E j \in T : j <= m) => \E i \in T : \A j \in T : i <= j}
           High == {m \in Nat : (\E j \in T : n - j <= m) => \E i \in T : \A j \in T : j <= i}
<1>1. 0 \in Low /\ 0 \in High
  <2>1. ~ \E j \in T : j <= 0
      OBVIOUS
  <2>2. ASSUME NEW j \in T, n - j <= 0 PROVE \A k \in T : k <= j
      BY <2>2
  <2> QED
      BY <2>1, <2>2
<1>2. ASSUME NEW m \in Nat, m \in Low PROVE m + 1 \in Low
  <2> SUFFICES ASSUME NEW j \in T, j <= m + 1 PROVE \E i \in T : \A k \in T : i <= k
      OBVIOUS
  <2>1. CASE \E k \in T : k <= m
      BY <1>2, <2>1
  <2>2. CASE ~ \E k \in T : k <= m
    <3>1. \A k \in T : j <= k
        BY <2>2
    <3> QED
        BY <3>1
  <2> QED
      BY <2>1, <2>2
<1>3. ASSUME NEW m \in Nat, m \in High PROVE m + 1 \in High
  <2> SUFFICES ASSUME NEW j \in T, n - j <= m + 1 PROVE \E i \in T : \A k \in T : k <= i
      OBVIOUS
  <2>1. CASE \E k \in T : n - k <= m
      BY <1>3, <2>1
  <2>2. CASE ~ \E k \in T : n - k <= m
    <3>1. \A k \in T : k <= j
        BY <2>2
    <3> QED
        BY <3>1
  <2> QED
      BY <2>1, <2>2
<1>4. Nat \subseteq Low /\ Nat \subseteq High
  <2> HIDE DEF Low, High
  <2> QED
      BY <1>1, <1>2, <1>3, SetInduction
<1>5. n \in Low /\ n \in High
    BY <1>4
<1>6. PICK j \in T : TRUE
    OBVIOUS
<1>7. j <= n /\ n - j <= n
    BY <1>6
<1> QED
    BY <1>5, <1>6, <1>7

\* Trim cuts out what is between the first and the last segment that is not empty.
LEMMA TrimCuts ==
    ASSUME NEW S, NEW s \in Seq(S), NEW a \in 1 .. Len(s), NEW b \in 1 .. Len(s),
           s[a] # Gen!Blank, s[b] # Gen!Blank, \A i \in 1 .. Len(s) : s[i] # Gen!Blank => a <= i /\ i <= b
    PROVE  Gen!Trim(s) = SubSeq(s, a, b)
<1> DEFINE T == {i \in DOMAIN s : s[i] # Gen!Blank}
<1>1. Len(s) \in Nat /\ DOMAIN s = 1 .. Len(s)
    OBVIOUS
<1>2. a \in T /\ b \in T /\ \A i \in T : a <= i /\ i <= b
    BY <1>1
<1>3. T \subseteq Int
    BY <1>1
<1>4. Gen!Trim(s) = IF T = {} THEN <<>>
                    ELSE SubSeq(s, CHOOSE i \in T : \A j \in T : i <= j,
                                   CHOOSE i \in T : \A j \in T : j <= i)
    BY Zenon DEF Gen!Trim
<1> HIDE DEF T
<1>5. (CHOOSE i \in T : \A j \in T : i <= j) = a
  <2> DEFINE c == CHOOSE i \in T : \A j \in T : i <= j
  <2>1. c \in T /\ \A j \in T : c <= j
      BY <1>2
  <2> HIDE DEF c
  <2>2. c <= a /\ a <= c /\ a \in Int /\ c \in Int
      BY <1>2, <1>3, <2>1
  <2> QED
      BY <2>2 DEF c
<1>6. (CHOOSE i \in T : \A j \in T : j <= i) = b
  <2> DEFINE c == CHOOSE i \in T : \A j \in T : j <= i
  <2>1. c \in T /\ \A j \in T : j <= c
      BY <1>2
  <2> HIDE DEF c
  <2>2. c <= b /\ b <= c /\ b \in Int /\ c \in Int
      BY <1>2, <1>3, <2>1
  <2> QED
      BY <2>2 DEF c
<1> QED
    BY <1>2, <1>4, <1>5, <1>6

LEMMA TrimOfNothing ==
    ASSUME NEW S, NEW s \in Seq(S), \A i \in 1 .. Len(s) : s[i] = Gen!Blank
    PROVE  Gen!Trim(s) = <<>>
<1> DEFINE T == {i \in DOMAIN s : s[i] # Gen!Blank}
<1>1. T = {}
    OBVIOUS
<1>2. Gen!Trim(s) = IF T = {} THEN <<>>
                    ELSE SubSeq(s, CHOOSE i \in T : \A j \in T : i <= j,
                                   CHOOSE i \in T : \A j \in T : j <= i)
    BY Zenon DEF Gen!Trim
<1> QED
    BY <1>1, <1>2

\* What Trim leaves begins and ends with a segment that is not empty, ...
Trimmed(S) == {s \in Seq(S) : Len(s) > 0 /\ s[1] # Gen!Blank /\ s[Len(s)] # Gen!Blank}

LEMMA TrimLeaves ==
    ASSUME NEW S, NEW name \in Seq(S)
    PROVE  \/ Gen!Trim(name) = <<>>
           \/ \E a, b \in 1 .. Len(name) :
                 /\ a <= b /\ name[a] # Gen!Blank /\ name[b] # Gen!Blank
                 /\ Gen!Trim(name) \in Trimmed(S)
                 /\ Len(Gen!Trim(name)) = b - a + 1
                 /\ \A i \in 1 .. b - a + 1 : Gen!Trim(name)[i] = name[a + i - 1]
<1> DEFINE n == Len(name)
           T == {i \in 1 .. n : name[i] # Gen!Blank}
<1>1. n \in Nat
    OBVIOUS
<1>2. CASE T = {}
    BY <1>2, TrimOfNothing
<1>3. CASE T # {}
  <2>1. (\E i \in T : \A j \in T : i <= j) /\ (\E i \in T : \A j \in T : j <= i)
    <3>1. T \in SUBSET (1 .. n)
        OBVIOUS
    <3> HIDE DEF T, n
    <3> QED
        BY <1>1, <1>3, <3>1, FirstAndLast
  <2>2. PICK a \in T : \A j \in T : a <= j
      BY <2>1
  <2>3. PICK b \in T : \A j \in T : j <= b
      BY <2>1
  <2> DEFINE r == SubSeq(name, a, b)
             m == b - a + 1
  <2>4. a \in 1 .. n /\ b \in 1 .. n /\ a <= b /\ name[a] # Gen!Blank /\ name[b] # Gen!Blank
      BY <2>2, <2>3
  <2>5. m \in Nat \ {0}
      BY <2>4
  <2>6. \A i \in 1 .. n : name[i] # Gen!Blank => a <= i /\ i <= b
      BY <2>2, <2>3
  <2>7. Gen!Trim(name) = r
      BY <2>4, <2>6, TrimCuts
  <2>8. r \in Seq(S) /\ Len(r) = m /\ \A i \in 1 .. m : r[i] = name[a + i - 1]
    <3>1. a \in Int /\ b \in Int /\ a .. b \subseteq 1 .. n /\ a <= b
        BY <2>4
    <3>2. \A i \in a .. b : name[i] \in S
        BY <3>1, ElementOfSeq
    <3> QED
        BY <3>1, <3>2, SubSeqProperties
  <2>9. 1 \in 1 .. m /\ m \in 1 .. m /\ a + 1 - 1 = a /\ a + m - 1 = b
      BY <2>4, <2>5
  <2>10. r \in Trimmed(S)
    <3> HIDE DEF r, m
    <3> QED
        BY <2>4, <2>5, <2>8, <2>9 DEF Trimmed
  <2> HIDE DEF r
  <2> QED
      BY <2>4, <2>7, <2>8, <2>10
<1> QED
    BY <1>2, <1>3

\* ... and is left as it is by Trim.
LEMMA TrimOfTrimmed ==
    ASSUME NEW S, NEW s \in Trimmed(S)
    PROVE  Gen!Trim(s) = s
<1> DEFINE m == Len(s)
<1>1. s \in Seq(S) /\ m \in Nat \ {0} /\ s[1] # Gen!Blank /\ s[m] # Gen!Blank
    BY DEF Trimmed
<1>2. Gen!Trim(s) = SubSeq(s, 1, m)
  <2>1. 1 \in 1 .. Len(s) /\ m \in 1 .. Len(s)
      BY <1>1
  <2>2. \A i \in 1 .. Len(s) : s[i] # Gen!Blank => 1 <= i /\ i <= m
      BY <1>1
  <2> QED
      BY <1>1, <2>1, <2>2, TrimCuts
<1>3. s = [i \in 1 .. m |-> s[i]] /\ SubSeq(s, 1, m) = [i \in 1 .. m |-> s[i]]
    BY <1>1
<1> QED
    BY <1>2, <1>3

\* A prefix: no segment of it is empty.
TrackerPrefixes == {p \in Seq(Segments) : Len(p) > 0 /\ \A i \in 1 .. Len(p) : p[i] # Gen!Blank}

LEMMA TrimmedPrefix ==
    ASSUME Gen!GenerationConfig, NEW p \in IssuePrefixes \cup {<<>>}, Gen!Trim(p) # <<>>
    PROVE  Gen!Trim(p) \in TrackerPrefixes
<1>1. /\ p \in Seq(Segments)
      /\ \A i, j, k \in 1 .. Len(p) : i < j /\ j < k /\ p[i] # Gen!Blank /\ p[k] # Gen!Blank
                                         => p[j] # Gen!Blank
  <2>1. CASE p = <<>>
    <3>1. p \in Seq(Segments) /\ Len(p) = 0
        BY <2>1
    <3> QED
        BY <3>1
  <2>2. CASE p \in IssuePrefixes
      BY <2>2, Zenon DEF Gen!GenerationConfig
  <2> QED
      BY <2>1, <2>2
<1>2. PICK a, b \in 1 .. Len(p) :
         /\ a <= b /\ p[a] # Gen!Blank /\ p[b] # Gen!Blank
         /\ Gen!Trim(p) \in Trimmed(Segments) /\ Len(Gen!Trim(p)) = b - a + 1
         /\ \A i \in 1 .. b - a + 1 : Gen!Trim(p)[i] = p[a + i - 1]
    BY <1>1, TrimLeaves
<1>3. ASSUME NEW i \in 1 .. b - a + 1 PROVE Gen!Trim(p)[i] # Gen!Blank
  <2>1. a + i - 1 \in 1 .. Len(p) /\ a <= a + i - 1 /\ a + i - 1 <= b
      BY <1>1
  <2>2. p[a + i - 1] # Gen!Blank
      BY <1>1, <1>2, <2>1
  <2> QED
      BY <1>2, <2>2
<1>4. b - a + 1 > 0 /\ Gen!Trim(p) \in Seq(Segments)
    BY <1>2 DEF Trimmed
<1> QED
    BY <1>2, <1>3, <1>4 DEF TrackerPrefixes

LEMMA PrefixIsTrimmed == ASSUME Gen!GenerationConfig, Gen!Init PROVE prefix \in TrackerPrefixes
<1>1. PICK bd \in IssuePrefixes \cup {<<>>}, cfg \in IssuePrefixes \cup {<<>>} :
         prefix = Gen!ResolveBeadPrefix(bd, cfg)
    BY DEF Gen!Init
<1>2. \/ prefix = Gen!Trim(bd) /\ Gen!Trim(bd) # <<>>
      \/ prefix = Gen!Trim(cfg) /\ Gen!Trim(cfg) # <<>>
      \/ prefix = <<"autocodex">>
    BY <1>1 DEF Gen!ResolveBeadPrefix
<1>3. <<"autocodex">> \in TrackerPrefixes
  <2> DEFINE d == <<"autocodex">>
  <2>1. d \in Seq(Segments) /\ Len(d) = 1 /\ d[1] = "autocodex"
    <3>1. d \in Seq({"autocodex"})
        OBVIOUS
    <3>2. "autocodex" \in Segments
        BY DEF Gen!GenerationConfig
    <3>3. d \in Seq(Segments)
        BY <3>2
    <3> QED
        BY <3>3
  <2>2. \A i \in 1 .. Len(d) : d[i] = "autocodex"
      BY <2>1
  <2>3. "autocodex" # Gen!Blank
      BY Zenon DEF Gen!Blank
  <2> HIDE DEF d
  <2>4. \A i \in 1 .. Len(d) : d[i] # Gen!Blank
      BY <2>2, <2>3
  <2> QED
      BY <2>1, <2>4 DEF TrackerPrefixes, d
<1> QED
    BY <1>2, <1>3, TrimmedPrefix
-----------------------------------------------------------------------------
(* Generation: names *)

\* A name that is empty or begins with a dash stays as it is, as does one whose rest after
\* the second segment ends well.
LEMMA NormalizedBeads ==
    ASSUME NEW n \in Gen!TaskNames
    PROVE  /\ Gen!NormalizeBeadID(n) \in Gen!TaskNames
           /\ Gen!NormalizeBeadID(Gen!NormalizeBeadID(n)) = Gen!NormalizeBeadID(n)
           /\ Gen!NormalizeBeadID(n) = <<Gen!Blank>> => n = <<Gen!Blank>>
<1> DEFINE rest == Gen!Trim(Tail(n))
           m == <<Head(n)>> \o rest
<1>1. n \in Seq(Segments) /\ n # <<>> /\ Len(n) \in Nat \ {0} /\ Tail(n) \in Seq(Segments)
      /\ Head(n) \in Segments
    BY DEF Gen!TaskNames
<1>2. CASE Len(n) <= 2 \/ Head(n) = Gen!Blank \/ rest = <<>>
    BY <1>2 DEF Gen!NormalizeBeadID
<1>3. CASE ~(Len(n) <= 2 \/ Head(n) = Gen!Blank \/ rest = <<>>)
  <2>1. Gen!NormalizeBeadID(n) = m
      BY <1>3 DEF Gen!NormalizeBeadID
  <2>2. rest \in Trimmed(Segments)
      BY <1>1, <1>3, TrimLeaves
  <2>3. rest \in Seq(Segments) /\ Len(rest) \in Nat \ {0} /\ Gen!Trim(rest) = rest
      BY <2>2, TrimOfTrimmed DEF Trimmed
  <2> HIDE DEF rest
  <2>4. m \in Seq(Segments) /\ Len(m) = Len(rest) + 1 /\ Head(m) = Head(n) /\ Tail(m) = rest
      BY <1>1, <2>3
  <2> HIDE DEF m
  <2>5. m # <<>> /\ m # <<Gen!Blank>>
    <3>1. Len(m) # 0 /\ Len(m) # 1
        BY <2>3, <2>4
    <3> QED
        BY <3>1
  <2>6. Gen!NormalizeBeadID(m) = m
    <3>1. Gen!Trim(Tail(m)) = rest /\ <<Head(m)>> \o rest = m
        BY <2>3, <2>4 DEF m
    <3> QED
        BY <3>1 DEF Gen!NormalizeBeadID
  <2> QED
      BY <2>1, <2>4, <2>5, <2>6 DEF Gen!TaskNames
<1> QED
    BY <1>2, <1>3

LEMMA HeadAndTail ==
    ASSUME NEW S, NEW n \in Seq(S), Len(n) >= 1
    PROVE  <<Head(n)>> \o Tail(n) = n /\ Tail(n) \in Seq(S) /\ Len(Tail(n)) = Len(n) - 1
           /\ \A i \in 1 .. Len(n) - 1 : Tail(n)[i] = n[i + 1]
<1>1. n # <<>> /\ Len(n) \in Nat \ {0}
    OBVIOUS
<1>2. /\ Head(n) \in S /\ Tail(n) \in Seq(S) /\ Len(Tail(n)) = Len(n) - 1
      /\ \A i \in 1 .. Len(n) - 1 : Tail(n)[i] = n[i + 1]
    BY <1>1, HeadTailProperties
<1> DEFINE h == <<Head(n)>>
           t == Tail(n)
           q == h \o t
<1>3. h \in Seq(S) /\ Len(h) = 1 /\ h[1] = n[1]
    BY <1>1, <1>2
<1> HIDE DEF h, t
<1>4. q \in Seq(S) /\ Len(q) = Len(n)
      /\ \A i \in 1 .. Len(n) : q[i] = IF i <= 1 THEN h[i] ELSE t[i - 1]
  <2>1. t \in Seq(S) /\ Len(t) = Len(n) - 1
      BY <1>2 DEF t
  <2>2. /\ q \in Seq(S) /\ Len(q) = Len(h) + Len(t)
        /\ \A i \in 1 .. Len(h) + Len(t) : q[i] = IF i <= Len(h) THEN h[i] ELSE t[i - Len(h)]
      BY <1>3, <2>1, ConcatProperties, Zenon DEF q
  <2>3. Len(h) + Len(t) = Len(n)
      BY <1>1, <1>3, <2>1
  <2> QED
      BY <1>3, <2>2, <2>3
<1>5. \A i \in 1 .. Len(n) : q[i] = n[i]
    BY <1>1, <1>2, <1>3, <1>4 DEF t
<1> HIDE DEF q
<1>6. q = n
  <2>1. q = [i \in 1 .. Len(n) |-> q[i]] /\ n = [i \in 1 .. Len(n) |-> n[i]]
      BY <1>4
  <2> QED
      BY <1>5, <2>1
<1> QED
    BY <1>2, <1>6 DEF q, h, t

LEMMA KeptByNormalize ==
    ASSUME NEW n \in Seq(Segments), Len(n) >= 2, n[2] # Gen!Blank, n[Len(n)] # Gen!Blank
    PROVE  Gen!NormalizeBeadID(n) = n
<1>1. /\ <<Head(n)>> \o Tail(n) = n /\ Tail(n) \in Seq(Segments)
      /\ Len(Tail(n)) = Len(n) - 1 /\ \A i \in 1 .. Len(n) - 1 : Tail(n)[i] = n[i + 1]
    BY HeadAndTail
<1>2. Tail(n) \in Trimmed(Segments)
  <2> DEFINE t == Tail(n)
  <2>1. t[1] = n[2] /\ t[Len(t)] = n[Len(n)] /\ Len(t) > 0
      BY <1>1
  <2> QED
      BY <1>1, <2>1 DEF Trimmed
<1>3. Gen!Trim(Tail(n)) = Tail(n)
    BY <1>2, TrimOfTrimmed
<1> DEFINE rest == Gen!Trim(Tail(n))
<1>4. Gen!NormalizeBeadID(n) \in {n, <<Head(n)>> \o rest}
    BY DEF Gen!NormalizeBeadID
<1> HIDE DEF rest
<1>5. <<Head(n)>> \o rest = <<Head(n)>> \o Tail(n)
    BY <1>3 DEF rest
<1> QED
    BY <1>1, <1>4, <1>5, Zenon

\* A prefix before a name that begins and ends with a segment that is not empty.
LEMMA Prefixed ==
    ASSUME NEW p \in TrackerPrefixes, NEW s \in Trimmed(Segments)
    PROVE  /\ p \o s \in Gen!TaskNames /\ p \o s # <<Gen!Blank>>
           /\ Gen!HasPrefix(p \o s, p)
           /\ Gen!NormalizeBeadID(p \o s) = p \o s
<1> DEFINE q == p \o s
<1>1. /\ p \in Seq(Segments) /\ Len(p) \in Nat \ {0} /\ \A i \in 1 .. Len(p) : p[i] # Gen!Blank
      /\ s \in Seq(Segments) /\ Len(s) \in Nat \ {0} /\ s[1] # Gen!Blank /\ s[Len(s)] # Gen!Blank
    BY DEF TrackerPrefixes, Trimmed
<1>2. /\ q \in Seq(Segments) /\ Len(q) = Len(p) + Len(s)
      /\ \A i \in 1 .. Len(p) : q[i] = p[i]
      /\ \A i \in Len(p) + 1 .. Len(p) + Len(s) : q[i] = s[i - Len(p)]
    BY <1>1
<1> HIDE DEF q
<1>3. Len(q) >= 2 /\ q[1] # Gen!Blank /\ q[2] # Gen!Blank /\ q[Len(q)] # Gen!Blank
  <2>1. q[1] = p[1] /\ p[1] # Gen!Blank
      BY <1>1, <1>2
  <2>2. q[2] # Gen!Blank
    <3>1. CASE Len(p) = 1
        BY <1>1, <1>2, <3>1
    <3>2. CASE Len(p) # 1
      <4> DEFINE k == Len(p)
      <4>1. 2 \in 1 .. k
        <5>1. k \in Nat \ {0} /\ k # 1
            BY <1>1, <3>2
        <5> HIDE DEF k
        <5> QED
            BY <5>1
      <4> QED
          BY <1>1, <1>2, <4>1
    <3> QED
        BY <3>1, <3>2
  <2>3. q[Len(q)] = s[Len(s)] /\ Len(q) >= 2
    <3> DEFINE k == Len(p)
               l == Len(s)
    <3>1. k \in Nat \ {0} /\ l \in Nat \ {0} /\ Len(q) = k + l
        BY <1>1, <1>2
    <3>2. \A i \in k + 1 .. k + l : q[i] = s[i - k]
        BY <1>2
    <3> HIDE DEF k
    <3>3. k + l \in k + 1 .. k + l /\ (k + l) - k = l /\ k + l >= 2
      <4> HIDE DEF l
      <4> QED
          BY <3>1
    <3> QED
        BY <3>1, <3>2, <3>3
  <2> QED
      BY <1>1, <2>1, <2>2, <2>3
<1>4. q # <<>> /\ q # <<Gen!Blank>> /\ q \in Gen!TaskNames
    BY <1>2, <1>3 DEF Gen!TaskNames
<1>5. Gen!HasPrefix(q, p)
  <2>1. SubSeq(q, 1, Len(p)) = SubSeq(p, 1, Len(p))
      BY <1>1, <1>2
  <2> QED
      BY <1>1, <1>2, <2>1 DEF Gen!HasPrefix, Gen!IsPrefix
<1>6. Gen!NormalizeBeadID(q) = q
    BY <1>2, <1>3, KeptByNormalize
<1> QED
    BY <1>4, <1>5, <1>6 DEF q

\* What normalizeTaskID makes of a name is left as it is by it, and by normalizeBeadID.
LEMMA NormalizedTasks ==
    ASSUME NEW p \in TrackerPrefixes, NEW n \in Gen!TaskNames
    PROVE  LET m == Gen!NormalizeTaskID(n, p)
           IN /\ m \in Gen!TaskNames
              /\ Gen!NormalizeBeadID(m) = m
              /\ Gen!NormalizeTaskID(m, p) = m
              /\ n # <<Gen!Blank>> => m # <<Gen!Blank>>
<1> DEFINE b == Gen!NormalizeBeadID(n)
           suffix == IF Len(b) = 1 THEN b ELSE Gen!Trim(Tail(b))
           m == Gen!NormalizeTaskID(n, p)
<1>1. b \in Gen!TaskNames /\ Gen!NormalizeBeadID(b) = b /\ (b = <<Gen!Blank>> => n = <<Gen!Blank>>)
    BY NormalizedBeads
<1>2. m = IF b = <<Gen!Blank>> \/ Gen!HasPrefix(b, p) \/ suffix = <<>> THEN b ELSE p \o suffix
    BY DEF Gen!NormalizeTaskID, Gen!ApplyBeadPrefix
<1>3. CASE b = <<Gen!Blank>> \/ Gen!HasPrefix(b, p) \/ suffix = <<>>
  <2>1. m = b
      BY <1>2, <1>3
  <2>2. Gen!NormalizeTaskID(b, p) = b
      BY <1>1, <1>3 DEF Gen!NormalizeTaskID, Gen!ApplyBeadPrefix
  <2> HIDE DEF b, m
  <2> QED
      BY <1>1, <2>1, <2>2 DEF m
<1>4. CASE ~(b = <<Gen!Blank>> \/ Gen!HasPrefix(b, p) \/ suffix = <<>>)
  <2>1. suffix \in Trimmed(Segments)
    <3>1. b \in Seq(Segments) /\ b # <<>> /\ Len(b) \in Nat \ {0}
        BY <1>1 DEF Gen!TaskNames
    <3> HIDE DEF b
    <3>2. CASE Len(b) = 1
      <4>1. b = <<b[1]>> /\ b[1] # Gen!Blank
          BY <1>4, <3>1, <3>2
      <4> QED
          BY <3>1, <3>2, <4>1 DEF Trimmed
    <3>3. CASE Len(b) # 1
      <4>1. Tail(b) \in Seq(Segments)
          BY <3>1
      <4>2. Gen!Trim(Tail(b)) # <<>>
          BY <1>4, <3>3
      <4> QED
          BY <3>3, <4>1, <4>2, TrimLeaves
    <3> QED
        BY <3>2, <3>3
  <2> HIDE DEF suffix, b
  <2> DEFINE q == p \o suffix
  <2>2. m = q
      BY <1>2, <1>4
  <2>3. q \in Gen!TaskNames /\ q # <<Gen!Blank>> /\ Gen!HasPrefix(q, p) /\ Gen!NormalizeBeadID(q) = q
      BY <2>1, Prefixed
  <2> HIDE DEF q, m
  <2>4. Gen!NormalizeTaskID(q, p) = q
      BY <2>3 DEF Gen!NormalizeTaskID, Gen!ApplyBeadPrefix
  <2> QED
      BY <2>2, <2>3, <2>4 DEF m
<1> QED
    BY <1>3, <1>4

\* A name as the prompt demands is kept, and a short one becomes such a name.
LEMMA KeptNames ==
    ASSUME NEW p \in TrackerPrefixes, NEW n \in Gen!TaskNames,
           Gen!HasPrefix(n, p), \A i \in 1 .. Len(n) : n[i] # Gen!Blank
    PROVE  Gen!NormalizeTaskID(n, p) = n
<1>1. n \in Seq(Segments) /\ Len(n) \in Nat /\ Len(p) \in Nat \ {0} /\ Len(n) > Len(p)
    BY DEF Gen!TaskNames, TrackerPrefixes, Gen!HasPrefix
<1>2. 2 \in 1 .. Len(n) /\ Len(n) \in 1 .. Len(n)
    BY <1>1
<1>3. Gen!NormalizeBeadID(n) = n
    BY <1>1, <1>2, KeptByNormalize
<1> QED
    BY <1>3 DEF Gen!NormalizeTaskID, Gen!ApplyBeadPrefix

LEMMA ShortNames ==
    ASSUME NEW p \in TrackerPrefixes, NEW n \in Gen!TaskNames, Len(n) = 1, n # <<Gen!Blank>>
    PROVE  /\ Gen!NormalizeTaskID(n, p) = p \o n
           /\ Gen!NormalizeTaskID(p \o n, p) = p \o n
<1>1. n \in Seq(Segments) /\ n = <<n[1]>> /\ n[1] # Gen!Blank
    BY DEF Gen!TaskNames
<1>2. n \in Trimmed(Segments)
  <2>1. Len(n) > 0 /\ n[Len(n)] # Gen!Blank
      BY <1>1
  <2> QED
      BY <1>1, <2>1 DEF Trimmed
<1>3. Gen!NormalizeBeadID(n) = n
    BY DEF Gen!NormalizeBeadID
<1>4. ~ Gen!HasPrefix(n, p)
    BY DEF Gen!HasPrefix, TrackerPrefixes
<1>5. n # <<>>
    BY DEF Gen!TaskNames
<1>6. Gen!NormalizeTaskID(n, p) = p \o n
    BY <1>3, <1>4, <1>5 DEF Gen!NormalizeTaskID, Gen!ApplyBeadPrefix
<1> DEFINE q == p \o n
<1>7. Gen!HasPrefix(q, p) /\ Gen!NormalizeBeadID(q) = q
    BY <1>2, Prefixed
<1> HIDE DEF q
<1>8. Gen!NormalizeTaskID(q, p) = q
    BY <1>7 DEF Gen!NormalizeTaskID, Gen!ApplyBeadPrefix
<1> QED
    BY <1>6, <1>8 DEF q
-----------------------------------------------------------------------------
(* Generation: tasks, beads and dependencies *)

\* Inductive with CallTypes: createBeads goes over the tasks twice, the second time when
\* each of them has its bead.
PlanTypes ==
    /\ prefix \in TrackerPrefixes
    /\ given \in Plans \cup {<<>>}
    /\ Len(tasks) \in Nat
    /\ todo \notin {"create", "done", "failed"} => step = 1 /\ edges = {}
    /\ todo \in {"create", "done"} => tasks # <<>>
    /\ step \in 1 .. 2 * Len(tasks) + 1
    /\ todo = "create" => step <= 2 * Len(tasks)
    /\ todo = "create" => \A i \in 1 .. Len(tasks) :
          i < step => Gen!NormalizeBeadID(tasks[i].name) \in beads
    /\ \A e \in edges : e \in beads \X beads

LEMMA PlanTypesInit == ASSUME Gen!GenerationConfig, Gen!Init PROVE PlanTypes
<1>1. /\ given = <<>> /\ tasks = <<>> /\ edges = {} /\ step = 1 /\ todo = "spec"
    BY DEF Gen!Init
<1>2. Len(tasks) = 0
    BY <1>1
<1> QED
    BY <1>1, <1>2, PrefixIsTrimmed DEF PlanTypes

LEMMA TaskListsAre ==
    ASSUME Gen!GenerationConfig, NEW ts \in Plans
    PROVE  /\ Len(ts) \in Nat \ {0} /\ DOMAIN ts = 1 .. Len(ts)
           /\ \A i \in 1 .. Len(ts) : ts[i].name \in Gen!TaskNames /\ ts[i].deps \in SUBSET Gen!TaskNames
<1> DEFINE R == [name : Gen!TaskNames, deps : SUBSET Gen!TaskNames]
<1>1. ts \in Seq(R) /\ ts # <<>>
    BY DEF Gen!GenerationConfig, Gen!TaskLists
<1>2. \A r \in R : r.name \in Gen!TaskNames /\ r.deps \in SUBSET Gen!TaskNames
    OBVIOUS
<1> HIDE DEF R
<1>3. Len(ts) \in Nat \ {0} /\ DOMAIN ts = 1 .. Len(ts) /\ \A i \in 1 .. Len(ts) : ts[i] \in R
    BY <1>1
<1> QED
    BY <1>2, <1>3

LEMMA PlanTypesStep ==
    ASSUME Gen!GenerationConfig, CallTypes, CallTypes', PlanTypes, [Gen!Next]_(Gen!vars)
    PROVE  PlanTypes'
<1> USE DEF Gen!config, Gen!answers, Gen!plan
<1>1. ASSUME UNCHANGED <<prefix, given, tasks, beads, edges, step>>,
             todo \notin {"create", "done", "failed"}, todo' \notin {"create", "done"}
      PROVE  PlanTypes'
    BY <1>1 DEF PlanTypes
<1>2. ASSUME NEW doc \in {"spec", "plan"}, NEW again \in {"spec_again", "plan_again"},
             NEW done \in {"plan", "documents"},
             Gen!Ask(doc, again, done) \/ Gen!AskAgain(doc, again, done)
      PROVE  PlanTypes'
  <2>1. /\ UNCHANGED <<prefix, given, tasks, beads, edges, step>>
        /\ todo \notin {"create", "done", "failed"}
      BY <1>2 DEF Gen!Ask, Gen!AskAgain
  <2>2. todo' \notin {"create", "done"}
      BY <1>2 DEF Gen!Ask, Gen!AskAgain, Gen!Exec
  <2> QED
      BY <1>1, <2>1, <2>2
<1>3. CASE Gen!WriteDocuments \/ Gen!FileFails \/ Gen!AskTasks \/ Gen!AskTasksAgain
  <2>1. /\ UNCHANGED <<prefix, given, tasks, beads, edges, step>>
        /\ todo \notin {"create", "done", "failed"}
      BY <1>3 DEF Gen!WriteDocuments, Gen!FileFails, Gen!AskTasks, Gen!AskTasksAgain
  <2>2. todo' \notin {"create", "done"}
      BY <1>3 DEF Gen!WriteDocuments, Gen!FileFails, Gen!AskTasks, Gen!AskTasksAgain, Gen!Exec
  <2> QED
      BY <1>1, <2>1, <2>2
<1>4. CASE Gen!ParseTasks
  <2>1. /\ UNCHANGED <<prefix, given, tasks, beads, edges, step>> /\ todo = "parse"
      BY <1>4 DEF Gen!ParseTasks
  <2>2. todo' \notin {"create", "done"}
      BY <1>4, ParseGoesTo
  <2> QED
      BY <1>1, <2>1, <2>2
<1>5. CASE Gen!WriteTasks \/ Gen!WriteFallbackTasks
  <2>1. /\ UNCHANGED <<prefix, beads, edges, step>> /\ step = 1 /\ edges = {}
        /\ given' \in Plans \cup {<<>>} /\ todo' \in {"create", "done"}
      BY <1>5 DEF Gen!WriteTasks, Gen!WriteFallbackTasks, PlanTypes
  <2>2. Len(tasks') \in Nat \ {0}
    <3>1. CASE Gen!WriteTasks
      <4>1. given' \in Plans /\ tasks' = Gen!NormalizeTasks(given', prefix)
          BY <3>1 DEF Gen!WriteTasks
      <4>2. Len(given') \in Nat \ {0} /\ DOMAIN given' = 1 .. Len(given')
          BY <4>1, TaskListsAre
      <4>3. DOMAIN tasks' = DOMAIN given'
          BY <4>1, Zenon DEF Gen!NormalizeTasks
      <4> QED
          BY <4>2, <4>3
    <3>2. CASE Gen!WriteFallbackTasks
        BY <3>2 DEF Gen!WriteFallbackTasks, Gen!FallbackTasks
    <3> QED
        BY <1>5, <3>1, <3>2
  <2>3. tasks' # <<>>
      BY <2>2
  <2> QED
      BY <2>1, <2>2, <2>3 DEF PlanTypes
<1>8. CASE Gen!CreateBead /\ todo' = "failed"
  <2>1. UNCHANGED <<prefix, given, tasks, beads, edges, step>>
      BY <1>8, CreateBeadFrame
  <2> QED
      BY <1>8, <2>1 DEF PlanTypes
<1>6. CASE Gen!CreateBead /\ todo' # "failed"
  <2>1. /\ todo = "create" /\ step <= Len(tasks) /\ step' = step + 1
        /\ beads' = beads \cup {Gen!NormalizeBeadID(tasks[step].name)}
        /\ UNCHANGED <<prefix, todo, given, tasks, edges>>
      BY <1>6, CreateBeadFrame
  <2>2. \A e \in edges' : e \in beads' \X beads'
      BY <2>1 DEF PlanTypes
  <2>3. \A i \in 1 .. Len(tasks) : i < step' => Gen!NormalizeBeadID(tasks[i].name) \in beads'
      BY <2>1 DEF PlanTypes
  <2>4. step' \in 1 .. 2 * Len(tasks)
      BY <2>1 DEF PlanTypes
  <2> QED
      BY <2>1, <2>2, <2>3, <2>4 DEF PlanTypes
<1>7. CASE Gen!AddDependencies
  <2> DEFINE i == step - Len(tasks)
             bead == Gen!NormalizeBeadID(tasks[i].name)
  <2>1. /\ todo = "create" /\ step > Len(tasks) /\ step' = step + 1
        /\ UNCHANGED <<prefix, given, tasks, beads>>
        /\ todo' \in {"failed", "done", todo}
      BY <1>7, AddDependenciesFrame
  <2>2. i \in 1 .. Len(tasks) /\ i < step
      BY <2>1 DEF PlanTypes
  <2>3. bead \in beads
      BY <2>1, <2>2 DEF PlanTypes
  <2>4. PICK needs : /\ edges' = edges \cup {<<bead, d>> : d \in needs \cap beads}
                     /\ todo' = (CASE ~(needs \subseteq beads) -> "failed"
                                   [] needs \subseteq beads /\ step' > 2 * Len(tasks) -> "done"
                                   [] OTHER -> todo)
      BY <1>7, Zenon DEF Gen!AddDependencies
  <2> HIDE DEF bead, i
  <2>5. \A e \in edges' : e \in beads' \X beads'
      BY <2>1, <2>3, <2>4 DEF PlanTypes
  <2>6. todo' = "create" => step' <= 2 * Len(tasks)
    <3>1. ~(step' > 2 * Len(tasks)) => step' <= 2 * Len(tasks)
        BY <2>1 DEF PlanTypes
    <3>2. todo' = "create" => ~(step' > 2 * Len(tasks))
        BY <2>4
    <3> QED
        BY <3>1, <3>2
  <2>7. \A j \in 1 .. Len(tasks) : Gen!NormalizeBeadID(tasks[j].name) \in beads
      BY <2>1 DEF PlanTypes
  <2>8. step' \in 1 .. 2 * Len(tasks) + 1 /\ tasks # <<>>
      BY <2>1 DEF PlanTypes
  <2> QED
      BY <2>1, <2>5, <2>6, <2>7, <2>8 DEF PlanTypes
<1>9. CASE Gen!BdFails \/ UNCHANGED Gen!vars
    BY <1>9 DEF Gen!BdFails, Gen!vars, PlanTypes
<1> QED
    BY <1>2, <1>3, <1>4, <1>5, <1>6, <1>7, <1>8, <1>9 DEF Gen!Next

\* The documents, tasks, beads and dependencies have their types: no dependency has a bead
\* that was not created, and createBeads ends after two rounds over the tasks; for all names,
\* lists of tasks and answers of codex.
THEOREM GenerationTypes == ASSUME Gen!GenerationConfig PROVE Gen!Spec => []Gen!TypeOK
<1>1. Gen!Init => PlanTypes
    BY PlanTypesInit
<1>2. CallTypes /\ CallTypes' /\ PlanTypes /\ [Gen!Next]_(Gen!vars) => PlanTypes'
    BY PlanTypesStep
<1>3. CallTypes /\ PlanTypes => Gen!TypeOK
  <2> SUFFICES ASSUME CallTypes, PlanTypes PROVE Gen!TypeOK
      OBVIOUS
  <2>1. edges \subseteq beads \X beads
      BY DEF PlanTypes
  <2>2. \A d \in Gen!Documents : documents[d] \in Gen!Outputs(d) /\ out[d] \in Gen!Outputs(d)
      BY DEF CallTypes
  <2>3. prefix \in Trimmed(Segments)
      BY DEF PlanTypes, TrackerPrefixes, Trimmed
  <2>4. prefix # <<>> /\ prefix = Gen!Trim(prefix)
      BY <2>3, TrimOfTrimmed DEF Trimmed
  <2> QED
      BY <2>1, <2>2, <2>4 DEF CallTypes, PlanTypes, Steps, Gen!TypeOK
<1> QED
    BY <1>1, <1>2, <1>3, CallTypesInit, CallTypesStep, PTL DEF Gen!Spec
-----------------------------------------------------------------------------
(* Generation: the plan arrives *)

Needs(task) ==
    {Gen!NormalizeBeadID(d) : d \in task.deps} \ {<<Gen!Blank>>, Gen!NormalizeBeadID(task.name)}

\* Inductive with PlanTypes: the tasks are those of codex with other names, and those whose
\* turn it was have their bead and what it needs.
PlanInv ==
    /\ todo \notin {"create", "done", "failed"} => given = <<>>
    /\ given # <<>> => tasks = Gen!NormalizeTasks(given, prefix)
    /\ tracker /\ todo = "done" => step = 2 * Len(tasks) + 1
    /\ todo \in {"create", "done"} => \A i \in 1 .. Len(tasks) :
          /\ i < step => Gen!NormalizeBeadID(tasks[i].name) \in beads
          /\ Len(tasks) + i < step =>
                \A d \in Needs(tasks[i]) :
                   d \in beads /\ <<Gen!NormalizeBeadID(tasks[i].name), d>> \in edges

LEMMA PlanStep ==
    ASSUME CallTypes, PlanTypes, PlanTypes', PlanInv, [Gen!Next]_(Gen!vars)
    PROVE  PlanInv'
<1> USE DEF Gen!config, Gen!answers, Gen!plan
<1>1. ASSUME UNCHANGED <<prefix, given, tasks>>, todo' \notin {"create", "done"},
             todo \notin {"create", "done", "failed"} \/ todo' = "failed"
      PROVE  PlanInv'
    BY <1>1 DEF PlanInv
<1>2. ASSUME NEW doc \in {"spec", "plan"}, NEW again \in {"spec_again", "plan_again"},
             NEW done \in {"plan", "documents"},
             Gen!Ask(doc, again, done) \/ Gen!AskAgain(doc, again, done)
      PROVE  PlanInv'
  <2>1. UNCHANGED <<prefix, given, tasks>> /\ todo \notin {"create", "done", "failed"}
      BY <1>2 DEF Gen!Ask, Gen!AskAgain
  <2>2. todo' \notin {"create", "done"}
      BY <1>2 DEF Gen!Ask, Gen!AskAgain, Gen!Exec
  <2> QED
      BY <1>1, <2>1, <2>2
<1>3. CASE Gen!WriteDocuments \/ Gen!FileFails \/ Gen!AskTasks \/ Gen!AskTasksAgain \/ Gen!BdFails
  <2>1. /\ UNCHANGED <<prefix, given, tasks>>
        /\ todo \notin {"create", "done", "failed"} \/ todo' = "failed"
      BY <1>3 DEF Gen!WriteDocuments, Gen!FileFails, Gen!AskTasks, Gen!AskTasksAgain, Gen!BdFails
  <2>2. todo' \notin {"create", "done"}
      BY <1>3 DEF Gen!WriteDocuments, Gen!FileFails, Gen!AskTasks, Gen!AskTasksAgain, Gen!Exec,
                  Gen!BdFails
  <2> QED
      BY <1>1, <2>1, <2>2
<1>4. CASE Gen!ParseTasks
  <2>1. UNCHANGED <<prefix, given, tasks>> /\ todo = "parse"
      BY <1>4 DEF Gen!ParseTasks
  <2>2. todo' \notin {"create", "done"}
      BY <1>4, ParseGoesTo
  <2> QED
      BY <1>1, <2>1, <2>2
<1>5. CASE Gen!WriteTasks \/ Gen!WriteFallbackTasks
  <2>1. /\ UNCHANGED <<tracker, prefix, beads, edges, step>> /\ step = 1
        /\ todo' = IF tracker THEN "create" ELSE "done"
      BY <1>5 DEF Gen!WriteTasks, Gen!WriteFallbackTasks, PlanTypes
  <2>2. given' # <<>> => tasks' = Gen!NormalizeTasks(given', prefix')
    <3>1. CASE Gen!WriteTasks
        BY <3>1 DEF Gen!WriteTasks
    <3>2. CASE Gen!WriteFallbackTasks
        BY <3>2 DEF Gen!WriteFallbackTasks, PlanInv
    <3> QED
        BY <1>5, <3>1, <3>2
  <2>3. Len(tasks') \in Nat
      BY DEF PlanTypes
  <2> QED
      BY <2>1, <2>2, <2>3 DEF PlanInv
<1>9. CASE Gen!CreateBead /\ todo' = "failed"
  <2>1. UNCHANGED <<prefix, given, tasks>>
      BY <1>9, CreateBeadFrame
  <2> QED
      BY <1>1, <1>9, <2>1
<1>6. CASE Gen!CreateBead /\ todo' # "failed"
  <2>1. /\ todo = "create" /\ step <= Len(tasks) /\ step' = step + 1
        /\ beads' = beads \cup {Gen!NormalizeBeadID(tasks[step].name)}
        /\ UNCHANGED <<prefix, todo, given, tasks, edges>>
      BY <1>6, CreateBeadFrame
  <2>2. Len(tasks) \in Nat /\ step \in Nat
      BY DEF PlanTypes
  <2>3. ASSUME NEW i \in 1 .. Len(tasks), i < step' PROVE Gen!NormalizeBeadID(tasks[i].name) \in beads'
    <3>1. CASE i = step
        BY <2>1, <3>1
    <3>2. CASE i # step
      <4>1. i < step
          BY <2>1, <2>2, <2>3, <3>2
      <4> QED
          BY <2>1, <4>1 DEF PlanInv
    <3> QED
        BY <3>1, <3>2
  <2>4. \A i \in 1 .. Len(tasks) : ~(Len(tasks) + i < step')
      BY <2>1, <2>2
  <2> QED
      BY <2>1, <2>3, <2>4 DEF PlanInv
<1>7. CASE Gen!AddDependencies
  <2> DEFINE k == step - Len(tasks)
             bead == Gen!NormalizeBeadID(tasks[k].name)
             needs == Needs(tasks[k])
  <2>1. /\ todo = "create" /\ step > Len(tasks) /\ step' = step + 1
        /\ UNCHANGED <<tracker, prefix, given, tasks, beads>>
        /\ todo' \in {"failed", "done", todo}
      BY <1>7, AddDependenciesFrame
  <2>2. /\ edges' = edges \cup {<<bead, d>> : d \in needs \cap beads}
        /\ todo' = (CASE ~(needs \subseteq beads) -> "failed"
                      [] needs \subseteq beads /\ step' > 2 * Len(tasks) -> "done"
                      [] OTHER -> todo)
      BY <1>7, Zenon DEF Gen!AddDependencies, Needs
  <2> HIDE DEF bead, needs
  <2>3. todo' # "failed" => needs \subseteq beads
      BY <2>1, <2>2
  <2>4. Len(tasks) \in Nat /\ step \in Nat /\ step <= 2 * Len(tasks)
      BY <2>1 DEF PlanTypes
  <2>5. todo' = "done" => step' = 2 * Len(tasks) + 1
    <3>1. todo' = "done" => step' > 2 * Len(tasks)
        BY <2>1, <2>2
    <3> QED
        BY <2>1, <2>4, <3>1
  <2>6. ASSUME todo' # "failed", NEW i \in 1 .. Len(tasks), Len(tasks) + i < step', NEW d \in Needs(tasks[i])
        PROVE  d \in beads /\ <<Gen!NormalizeBeadID(tasks[i].name), d>> \in edges'
    <3>1. CASE i = k
      <4>1. d \in needs
          BY <2>6, <3>1 DEF needs
      <4> QED
          BY <2>2, <2>3, <2>6, <3>1, <4>1 DEF bead
    <3>2. CASE i # k
      <4>1. Len(tasks) + i < step
          BY <2>1, <2>4, <2>6, <3>2
      <4>2. d \in beads /\ <<Gen!NormalizeBeadID(tasks[i].name), d>> \in edges
          BY <2>1, <2>6, <4>1 DEF PlanInv
      <4> QED
          BY <2>2, <4>2
    <3> QED
        BY <3>1, <3>2
  <2>7. ASSUME NEW i \in 1 .. Len(tasks) PROVE Gen!NormalizeBeadID(tasks[i].name) \in beads
    <3>1. i < step
        BY <2>1, <2>4
    <3> QED
        BY <2>1, <3>1 DEF PlanInv
  <2> HIDE DEF k
  <2> QED
      BY <2>1, <2>5, <2>6, <2>7 DEF PlanInv
<1>8. CASE UNCHANGED Gen!vars
    BY <1>8 DEF Gen!vars, PlanInv
<1> QED
    BY <1>2, <1>3, <1>4, <1>5, <1>6, <1>7, <1>8, <1>9 DEF Gen!Next

\* What the tasks of codex depend on by their names, it depends on after normalizing them.
LEMMA DependenciesFollow ==
    ASSUME Gen!GenerationConfig, prefix \in TrackerPrefixes, given \in Plans,
           NEW i \in DOMAIN given, NEW j \in DOMAIN given, NEW d \in given[i].deps,
           Gen!Names(d, given[j].name)
    PROVE  /\ Gen!NormalizeDependency(d, given, prefix) = Gen!NormalizeTaskID(given[j].name, prefix)
           /\ Gen!NormalizeTaskID(given[j].name, prefix) # <<Gen!Blank>>
<1> DEFINE n == given[j].name
           dep == IF \E k \in DOMAIN given : given[k].name = d
                  THEN Gen!NormalizeTaskID(d, prefix) ELSE d
<1>1. n \in Gen!TaskNames /\ d \in Gen!TaskNames
    BY TaskListsAre
<1>2. Gen!NormalizeDependency(d, given, prefix) = Gen!NormalizeTaskID(dep, prefix)
    BY DEF Gen!NormalizeDependency
<1>3. d # <<Gen!Blank>> /\ (d = n \/ (Len(d) = 1 /\ prefix \o d = n))
    BY DEF Gen!Names
<1>4. Gen!NormalizeTaskID(dep, prefix) = Gen!NormalizeTaskID(d, prefix)
    BY <1>1, NormalizedTasks
<1> HIDE DEF n, dep
<1>5. Gen!NormalizeTaskID(d, prefix) = Gen!NormalizeTaskID(n, prefix)
    BY <1>1, <1>3, ShortNames
<1>6. Gen!NormalizeTaskID(d, prefix) # <<Gen!Blank>>
    BY <1>1, <1>3, NormalizedTasks
<1> QED
    BY <1>2, <1>4, <1>5, <1>6 DEF n

LEMMA BlankStays ==
    ASSUME NEW p \in TrackerPrefixes, NEW ts
    PROVE  Gen!NormalizeDependency(<<Gen!Blank>>, ts, p) = <<Gen!Blank>>
<1> DEFINE b == <<Gen!Blank>>
<1>1. Len(b) = 1
    OBVIOUS
<1>2. Gen!NormalizeBeadID(b) = b
  <2> HIDE DEF b
  <2> QED
      BY <1>1 DEF Gen!NormalizeBeadID
<1>3. Gen!NormalizeTaskID(b, p) = b
    BY <1>2 DEF Gen!NormalizeTaskID, Gen!ApplyBeadPrefix
<1> HIDE DEF b
<1>4. Gen!NormalizeDependency(b, ts, p) = b
    BY <1>3 DEF Gen!NormalizeDependency
<1> QED
    BY <1>4 DEF b

LEMMA NormalizedList ==
    ASSUME Gen!GenerationConfig, prefix \in TrackerPrefixes, given \in Plans,
           tasks = Gen!NormalizeTasks(given, prefix), NEW i \in DOMAIN given
    PROVE  /\ i \in DOMAIN tasks /\ i \in 1 .. Len(tasks) /\ DOMAIN tasks = 1 .. Len(tasks)
           /\ DOMAIN tasks = DOMAIN given
           /\ tasks[i].name = Gen!NormalizeTaskID(given[i].name, prefix)
           /\ Gen!NormalizeBeadID(tasks[i].name) = tasks[i].name
           /\ tasks[i].deps = {Gen!NormalizeDependency(d, given, prefix) : d \in given[i].deps}
                                 \ {<<Gen!Blank>>, tasks[i].name}
<1>1. /\ DOMAIN tasks = DOMAIN given
      /\ tasks[i] = [name |-> Gen!NormalizeTaskID(given[i].name, prefix),
                     deps |-> {Gen!NormalizeDependency(d, given, prefix) : d \in given[i].deps}
                                 \ {<<Gen!Blank>>, Gen!NormalizeTaskID(given[i].name, prefix)}]
    BY DEF Gen!NormalizeTasks
<1>2. given[i].name \in Gen!TaskNames /\ DOMAIN given = 1 .. Len(given) /\ Len(given) \in Nat
    BY TaskListsAre
<1>3. Len(tasks) = Len(given)
    BY <1>1, <1>2
<1>4. tasks[i].name = Gen!NormalizeTaskID(given[i].name, prefix)
    BY <1>1
<1>5. Gen!NormalizeBeadID(tasks[i].name) = tasks[i].name
    BY <1>2, <1>4, NormalizedTasks
<1> QED
    BY <1>1, <1>2, <1>3, <1>4, <1>5

LEMMA PlanArrivesFromInv ==
    ASSUME Gen!GenerationConfig, PlanTypes, PlanInv
    PROVE  Gen!PlanArrives
<1> SUFFICES ASSUME tracker, given # <<>> PROVE
        /\ todo = "create" /\ step > Len(tasks) /\ Gen!Closed =>
              \A i \in DOMAIN tasks : \A d \in tasks[i].deps : Gen!NormalizeBeadID(d) \in beads
        /\ todo = "done" =>
              \A i, j \in DOMAIN given :
                 /\ Gen!HasPrefix(given[i].name, prefix) /\ Gen!Blank \notin Gen!ToSet(given[i].name)
                       => given[i].name \in beads
                 /\ (\E d \in given[i].deps : Gen!Names(d, given[j].name))
                    /\ tasks[i].name # tasks[j].name
                       => <<tasks[i].name, tasks[j].name>> \in edges
    BY Zenon DEF Gen!PlanArrives
<1>1. given \in Plans /\ prefix \in TrackerPrefixes /\ tasks = Gen!NormalizeTasks(given, prefix)
      /\ Len(tasks) \in Nat /\ step \in Nat
    BY DEF PlanTypes, PlanInv
<1>2. ASSUME todo = "create", step > Len(tasks), Gen!Closed,
             NEW i \in DOMAIN tasks, NEW d \in tasks[i].deps
      PROVE  Gen!NormalizeBeadID(d) \in beads
  <2>1. i \in DOMAIN given
      BY <1>1 DEF Gen!NormalizeTasks
  <2>2. PICK e \in given[i].deps : d = Gen!NormalizeDependency(e, given, prefix)
      BY <1>1, <2>1, NormalizedList
  <2>3. d # <<Gen!Blank>>
      BY <1>1, <2>1, NormalizedList
  <2>4. e # <<Gen!Blank>>
    <3>1. Gen!NormalizeDependency(<<Gen!Blank>>, given, prefix) = <<Gen!Blank>>
        BY <1>1, BlankStays
    <3> QED
        BY <2>2, <2>3, <3>1
  <2>5. PICK j \in DOMAIN given : Gen!Names(e, given[j].name)
      BY <1>2, <2>1, <2>4 DEF Gen!Closed
  <2>6. d = Gen!NormalizeTaskID(given[j].name, prefix)
      BY <1>1, <2>1, <2>2, <2>5, DependenciesFollow
  <2>7. d = tasks[j].name /\ j \in 1 .. Len(tasks)
      BY <1>1, <2>6, NormalizedList
  <2>8. j < step
      BY <1>1, <1>2, <2>7
  <2> QED
      BY <1>2, <2>7, <2>8 DEF PlanInv
<1>3. ASSUME todo = "done", NEW i \in DOMAIN given,
             Gen!HasPrefix(given[i].name, prefix), Gen!Blank \notin Gen!ToSet(given[i].name)
      PROVE  given[i].name \in beads
  <2>1. given[i].name \in Gen!TaskNames
      BY <1>1, TaskListsAre
  <2>2. \A k \in 1 .. Len(given[i].name) : given[i].name[k] # Gen!Blank
      BY <1>3, <2>1 DEF Gen!ToSet, Gen!TaskNames
  <2>3. tasks[i].name = given[i].name
      BY <1>1, <1>3, <2>1, <2>2, KeptNames, NormalizedList
  <2>4. i \in 1 .. Len(tasks) /\ Gen!NormalizeBeadID(tasks[i].name) = tasks[i].name
      BY <1>1, NormalizedList
  <2>5. i < step
      BY <1>1, <1>3, <2>4 DEF PlanInv
  <2> QED
      BY <1>3, <2>3, <2>4, <2>5 DEF PlanInv
<1>4. ASSUME todo = "done", NEW i \in DOMAIN given, NEW j \in DOMAIN given,
             NEW d \in given[i].deps, Gen!Names(d, given[j].name), tasks[i].name # tasks[j].name
      PROVE  <<tasks[i].name, tasks[j].name>> \in edges
  <2>1. /\ Gen!NormalizeDependency(d, given, prefix) = tasks[j].name
        /\ tasks[j].name # <<Gen!Blank>>
    <3>1. tasks[j].name = Gen!NormalizeTaskID(given[j].name, prefix)
        BY <1>1, <1>4, NormalizedList
    <3>2. /\ Gen!NormalizeDependency(d, given, prefix) = Gen!NormalizeTaskID(given[j].name, prefix)
          /\ Gen!NormalizeTaskID(given[j].name, prefix) # <<Gen!Blank>>
        BY <1>1, <1>4, DependenciesFollow
    <3> QED
        BY <3>1, <3>2
  <2>2. tasks[j].name \in tasks[i].deps
      BY <1>1, <1>4, <2>1, NormalizedList
  <2>3. /\ i \in 1 .. Len(tasks) /\ Gen!NormalizeBeadID(tasks[i].name) = tasks[i].name
        /\ Gen!NormalizeBeadID(tasks[j].name) = tasks[j].name
      BY <1>1, NormalizedList
  <2>4. tasks[j].name \in Needs(tasks[i])
      BY <1>4, <2>1, <2>2, <2>3 DEF Needs
  <2>5. Len(tasks) + i < step
      BY <1>1, <1>4, <2>3 DEF PlanInv
  <2> QED
      BY <1>4, <2>3, <2>4, <2>5 DEF PlanInv
<1> QED
    BY <1>2, <1>3, <1>4

\* The plan of codex arrives in the tracker, for all lists of tasks and all prefixes without
\* two dashes in a row: tasks named as the prompt demands get the bead of their name, and
\* dependencies by name or short name become dependencies of the beads.
THEOREM PlansArrive == ASSUME Gen!GenerationConfig PROVE Gen!Spec => []PlanArrives
<1>1. Gen!Init => PlanTypes /\ PlanInv
  <2>1. Gen!Init => PlanInv
      BY DEF Gen!Init, PlanInv
  <2> QED
      BY <2>1, PlanTypesInit
<1>2. CallTypes /\ CallTypes' /\ PlanTypes /\ PlanInv /\ [Gen!Next]_(Gen!vars)
         => PlanTypes' /\ PlanInv'
    BY PlanTypesStep, PlanStep
<1>3. PlanTypes /\ PlanInv => PlanArrives
    BY PlanArrivesFromInv DEF PlanArrives
<1> QED
    BY <1>1, <1>2, <1>3, CallTypesInit, CallTypesStep, PTL DEF Gen!Spec
-----------------------------------------------------------------------------
(* Generation: the fallback *)

NoJSON == {Gen!Nothing, "prose"}

Replies == NoJSON \cup {"odd", "zero", "list", "follow_up", "failed"}

\* The first call was of no use, and is the only one so far.
AskedOnce == Len(replies) = 1 /\ replies[1] \in NoJSON \cup {"follow_up", "failed"}

Reason == \/ allow /\ Len(replies) = 2 /\ replies[2] \in NoJSON
          \/ allow /\ ~strict /\ replies # <<>> /\ replies[Len(replies)] = "odd"
          \/ /\ Len(replies) = 2 /\ replies[2] = "follow_up"
             /\ replies[1] \in NoJSON \cup {"follow_up", "failed"}

\* Inductive: the second call is made after a first one that was of no use, there is a reason
\* as soon as the fallback is the next step, and from then on nothing is asked any more.
FallbackInv ==
    /\ replies \in Seq(Replies)
    /\ todo \in {"spec", "spec_again", "plan", "plan_again", "documents", "tasks"}
          => ~used /\ replies = <<>>
    /\ todo = "without_skill" => ~used /\ AskedOnce
    /\ todo = "parse" => verdict = "ok" /\ IF used THEN AskedOnce ELSE replies = <<>>
    /\ todo = "fallback" => Reason
    /\ todo \notin {"create", "done", "failed"} => tasks = <<>> /\ given = <<>>
    /\ given = <<>> /\ tasks # <<>> => Reason

LEMMA AppendedReply ==
    ASSUME replies \in Seq(Replies), NEW r \in Replies, replies' = Append(replies, r)
    PROVE  /\ replies' \in Seq(Replies) /\ Len(replies) \in Nat /\ Len(replies') = Len(replies) + 1
           /\ replies'[Len(replies) + 1] = r /\ \A i \in 1 .. Len(replies) : replies'[i] = replies[i]
OBVIOUS

LEMMA CallsKeepReason ==
    ASSUME CallTypes, FallbackInv, Gen!AskTasks \/ Gen!AskTasksAgain \/ Gen!ParseTasks
    PROVE  FallbackInv'
<1> USE DEF Gen!config, Gen!answers, Gen!plan
<1>1. replies \in Seq(Replies) /\ <<>> \in Seq(Replies) /\ Len(<<>>) = 0
    BY DEF FallbackInv
<1>2. CASE Gen!AskTasks
  <2>1. /\ todo = "tasks" /\ verdict' \in {"ok", "follow_up", "failed"}
        /\ replies' = IF verdict' = "ok" THEN replies ELSE Append(replies, verdict')
        /\ todo' \in {"parse", "without_skill", "failed"}
        /\ todo' = "parse" <=> verdict' = "ok"
        /\ UNCHANGED <<allow, strict, used, given, tasks>>
      BY <1>2 DEF Gen!AskTasks, Gen!Exec, Gen!Replied
  <2>2. ~used /\ replies = <<>> /\ tasks = <<>> /\ given = <<>>
      BY <2>1 DEF FallbackInv
  <2>3. CASE verdict' = "ok"
      BY <1>1, <2>1, <2>2, <2>3 DEF FallbackInv
  <2>4. CASE verdict' # "ok"
    <3>1. verdict' \in Replies /\ replies' = Append(replies, verdict')
        BY <2>1, <2>4 DEF Replies
    <3>2. replies' \in Seq(Replies) /\ Len(replies') = 1 /\ replies'[1] = verdict'
        BY <1>1, <2>2, <3>1, AppendedReply
    <3>3. AskedOnce'
        BY <2>1, <2>4, <3>2 DEF AskedOnce
    <3> QED
        BY <2>1, <2>2, <2>4, <3>2, <3>3 DEF FallbackInv
  <2> QED
      BY <2>3, <2>4
<1>3. CASE Gen!AskTasksAgain
  <2>1. /\ todo = "without_skill" /\ verdict' \in {"ok", "follow_up", "failed"} /\ used'
        /\ replies' = IF verdict' = "ok" THEN replies ELSE Append(replies, verdict')
        /\ todo' = (CASE verdict' = "ok" -> "parse"
                      [] verdict' = "follow_up" -> "fallback"
                      [] verdict' = "failed" -> "failed")
        /\ UNCHANGED <<allow, strict, given, tasks>>
      BY <1>3 DEF Gen!AskTasksAgain, Gen!Exec, Gen!Replied
  <2>2. AskedOnce /\ tasks = <<>> /\ given = <<>>
      BY <2>1 DEF FallbackInv
  <2>3. CASE verdict' = "ok"
    <3>1. AskedOnce' /\ todo' = "parse"
        BY <2>1, <2>2, <2>3 DEF AskedOnce
    <3> QED
        BY <1>1, <2>1, <2>2, <2>3, <3>1 DEF FallbackInv
  <2>4. CASE verdict' # "ok"
    <3>1. verdict' \in Replies /\ replies' = Append(replies, verdict') /\ todo' \in {"fallback", "failed"}
        BY <2>1, <2>4 DEF Replies
    <3>2. replies' \in Seq(Replies) /\ Len(replies') = 2 /\ replies'[2] = verdict' /\ replies'[1] = replies[1]
        BY <1>1, <2>2, <3>1, AppendedReply DEF AskedOnce
    <3>3. todo' = "fallback" => Reason'
        BY <2>1, <2>2, <3>2 DEF AskedOnce, Reason
    <3> QED
        BY <2>1, <2>2, <3>1, <3>2, <3>3 DEF FallbackInv
  <2> QED
      BY <2>3, <2>4
<1>4. CASE Gen!ParseTasks
  <2> DEFINE o == Gen!ResolveOutput("tasks")
  <2>1. /\ todo = "parse" /\ replies' = Append(replies, o)
        /\ todo' = (CASE o \in NoJSON -> IF used THEN Gen!Refuse ELSE "without_skill"
                      [] o = "odd" -> IF strict THEN "failed" ELSE Gen!Refuse
                      [] o = "zero" -> "failed"
                      [] o = "list" -> "write")
        /\ UNCHANGED <<allow, strict, used, given, tasks>>
      BY <1>4 DEF Gen!ParseTasks, NoJSON
  <2>2. o \in NoJSON \cup {"odd", "zero", "list"}
    <3>1. "tasks" \in Gen!Documents
        BY DEF Gen!Documents
    <3> QED
        BY <3>1 DEF Gen!ResolveOutput, Gen!Outputs, CallTypes, NoJSON
  <2>3. tasks = <<>> /\ given = <<>> /\ IF used THEN AskedOnce ELSE replies = <<>>
      BY <2>1 DEF FallbackInv
  <2>4. o \in Replies
      BY <2>2 DEF Replies
  <2> HIDE DEF o
  <2>5. /\ replies' \in Seq(Replies) /\ Len(replies') = (IF used THEN 2 ELSE 1)
        /\ replies'[Len(replies')] = o /\ replies' # <<>>
      BY <1>1, <2>1, <2>3, <2>4, AppendedReply DEF AskedOnce
  <2>6. todo' \in {"without_skill", "fallback", "failed", "write"} /\ (todo' = "fallback" => allow)
      BY <1>4, ParseGoesTo
  <2>7. todo' = "without_skill" => ~used' /\ AskedOnce'
    <3>1. todo' = "without_skill" => ~used /\ o \in NoJSON
        BY <2>1, <2>2 DEF NoJSON, Gen!Refuse, Gen!Nothing
    <3> QED
        BY <2>1, <2>5, <3>1 DEF AskedOnce
  <2>8. todo' = "fallback" => Reason'
    <3>1. todo' = "fallback" => (used /\ o \in NoJSON) \/ (o = "odd" /\ ~strict)
        BY <2>1, <2>2 DEF NoJSON, Gen!Nothing
    <3>2. allow' = allow /\ strict' = strict /\ NoJSON' = NoJSON
        BY <2>1 DEF NoJSON, Gen!Nothing
    <3> QED
        BY <2>5, <2>6, <3>1, <3>2 DEF Reason
  <2> QED
      BY <2>1, <2>3, <2>5, <2>6, <2>7, <2>8 DEF FallbackInv
<1> QED
    BY <1>2, <1>3, <1>4

LEMMA FallbackStep == ASSUME CallTypes, FallbackInv, [Gen!Next]_(Gen!vars) PROVE FallbackInv'
<1> USE DEF Gen!config, Gen!answers, Gen!plan
<1>0. ASSUME UNCHANGED <<allow, strict, used, verdict, replies>>
      PROVE  /\ AskedOnce' = AskedOnce /\ Reason' = Reason
             /\ replies \in Seq(Replies) <=> (replies \in Seq(Replies))'
    BY <1>0 DEF AskedOnce, Reason, NoJSON, Replies, Gen!Nothing
<1> USE DEF FallbackInv
<1>1. ASSUME NEW doc \in {"spec", "plan"}, NEW again \in {"spec_again", "plan_again"},
             NEW done \in {"plan", "documents"},
             Gen!Ask(doc, again, done) \/ Gen!AskAgain(doc, again, done)
      PROVE  FallbackInv'
    BY <1>1 DEF Gen!Ask, Gen!AskAgain, Gen!Exec
<1>2. CASE Gen!WriteDocuments \/ Gen!FileFails \/ Gen!BdFails
    BY <1>0, <1>2 DEF Gen!WriteDocuments, Gen!FileFails, Gen!BdFails
<1>3. CASE Gen!WriteTasks
  <2>1. given' = <<>> => tasks' = <<>>
      BY <1>3 DEF Gen!WriteTasks, Gen!NormalizeTasks
  <2> QED
      BY <1>3, <2>1 DEF Gen!WriteTasks
<1>4. CASE Gen!WriteFallbackTasks
    BY <1>0, <1>4 DEF Gen!WriteFallbackTasks
<1>5. CASE Gen!CreateBead \/ Gen!AddDependencies
  <2>1. /\ UNCHANGED <<allow, strict, used, verdict, replies, given, tasks>>
        /\ todo = "create" /\ todo' \in {"create", "done", "failed"}
      BY <1>5, AddDependenciesFrame DEF Gen!CreateBead
  <2> QED
      BY <1>0, <2>1
<1>6. CASE UNCHANGED Gen!vars
    BY <1>0, <1>6 DEF Gen!vars
<1> QED
    BY <1>1, <1>2, <1>3, <1>4, <1>5, <1>6, CallsKeepReason DEF Gen!Next

\* The fallback replaces the tasks of codex only for what its calls came to: two without JSON,
\* or a list that breaks the schema where that is no error, and then only if it is allowed, or
\* a follow-up in the second call after a first that was of no use either; for all lists of
\* tasks.
THEOREM FallbackNeedsReason == Gen!Spec => []FallbackHasReason
<1>1. Gen!Init => FallbackInv
    BY DEF Gen!Init, FallbackInv
<1>2. FallbackInv => FallbackHasReason
  <2>1. Gen!FallbackTasks(prefix) # <<>>
      BY DEF Gen!FallbackTasks
  <2>2. Gen!Last(replies) = replies[Len(replies)]
      BY DEF Gen!Last
  <2> QED
      BY <2>1, <2>2 DEF FallbackInv, Reason, NoJSON, FallbackHasReason, Gen!FallbackHasReason
<1> QED
    BY <1>1, <1>2, CallTypesInit, CallTypesStep, FallbackStep, PTL DEF Gen!Spec
-----------------------------------------------------------------------------
(* RunArchive: values *)

\* A text is a sequence of bytes, which are triples of a kind and two numbers.
Kinds == {"heading", "end", "memory", "events", "artifacts", "fence", "text", "ref", "snapshot",
          "title", "event", "artifact", "file"}

Byte == {<<kind, nr, k>> : kind \in Kinds, nr \in Nat, k \in Nat}

\* None is no value that a variable has otherwise.
NoneIsNone == /\ None \notin {"running", "completed", "failed"}
              /\ None \notin Seq(Byte)
              /\ \A text, bytes, counts : None # [text |-> text, bytes |-> bytes, counts |-> counts]
              /\ \A bytes, counts : None # [bytes |-> bytes, manifest |-> counts]

-----------------------------------------------------------------------------
(* RunArchive: deletion *)

\* Inductive: as long as no kill came before its owner had the lock, an ended run, one that
\* a kill is about to end, and one that is deleted for its age have no owner any more.
DeletionInv ==
    /\ ~early =>
          /\ run \in Ended \/ killer = "save" => owner \notin Live
          /\ byAge /\ (run = None \/ cleaner \in {"stat", "remove", "log", "failed", "interrupted"})
                => owner \notin Live
    /\ run = None => cleaner \notin {"idle", "stat"}

LEMMA DeletionStep == ASSUME NoneIsNone, DeletionInv, [Next]_vars PROVE DeletionInv'
<1> USE DEF DeletionInv
<1>0. None \notin {"running", "completed", "failed"}
    BY DEF NoneIsNone
<1>1. ASSUME UNCHANGED <<run, cleaner, byAge, finalizer>>, owner \notin Live => owner' \notin Live
      PROVE  DeletionInv'
    BY <1>1 DEF finalizer
<1>2. CASE Owner
  <2>1. CASE SaveRun
      BY <1>0, <2>1 DEF SaveRun, Ended, Live, finalizer, cleanup
  <2>2. CASE FinalizeRun
      BY <1>0, <2>2 DEF FinalizeRun, Ended, Live, finalizer, cleanup
  <2>3. CASE AppendEvent \/ \E a \in Texts \cup Others : WriteArtifact(a)
      BY <1>1, <2>3 DEF AppendEvent, WriteArtifact, cleanup
  <2>4. CASE AcquireLock \/ Crash
      BY <1>1, <2>4 DEF AcquireLock, Crash, Live, files, cleanup
  <2> QED
      BY <1>2, <2>1, <2>2, <2>3, <2>4 DEF Owner
<1>3. CASE Age \/ UNCHANGED vars
    BY <1>1, <1>3 DEF Age, vars, files, cleanup
<1>6. CASE Finalizer
    BY <1>0, <1>6 DEF Finalizer, KillReads, KillSaves, InterruptKill, Live, files, cleanup
<1>4. CASE Command
  <2>1. UNCHANGED <<run, cleaner, byAge, owner, finalizer>>
      BY <1>4 DEF Command, BeginSnapshot, BeginResume, MakeDir, ReadMemory, ReadEvents,
                  ReadArtifacts, ReadTexts, WriteContent, WriteRecord, StartRun, BeginPhase,
                  Interrupt, Files, files, cleanup
  <2> QED
      BY <1>1, <2>1
<1>5. CASE Cleanup
  <2> USE DEF finalizer
  <2>1. CASE BeginCleanup
      BY <2>1 DEF BeginCleanup, OldEnough, files, Ended
  <2>2. CASE ReadEntries \/ RemoveDir \/ RemoveLog \/ InterruptCleanup
      BY <2>2 DEF ReadEntries, RemoveDir, RemoveLog, InterruptCleanup, files
  <2>3. ASSUME NEW e \in EntryNames, RemoveEntry(e) PROVE DeletionInv'
      BY <1>0, <2>3 DEF RemoveEntry, Ended
  <2> QED
      BY <1>5, <2>1, <2>2, <2>3 DEF Cleanup
<1> QED
    BY <1>2, <1>3, <1>4, <1>5, <1>6 DEF Next

\* cleanup by age takes only runs that their owner has left: once it has removed run.json,
\* the run is not listed again, for any number of events and artifacts, unless a kill has
\* read run.json before that and still writes it, or one once came before the owner's lock;
\* and where neither is so, neither comes about any more.
THEOREM DeletionIsFinal == ASSUME NoneIsNone PROVE Spec => DeletedStaysDeleted
<1>1. Init => DeletionInv
    BY DEF Init, DeletionInv, Ended, NoneIsNone
<1>2. DeletionInv /\ [Next]_vars =>
         [Deleted /\ killer # "save" /\ ~early
             => run' = None /\ killer' # "save" /\ ~early']_vars
  <2> SUFFICES ASSUME DeletionInv, Next, Deleted, killer # "save", ~early
               PROVE  run' = None /\ killer' # "save" /\ ~early'
      OBVIOUS
  <2>1. owner \notin Live /\ run = None /\ byAge /\ cleaner \notin {"idle", "stat"}
      BY DEF DeletionInv, Deleted
  <2> USE DEF finalizer
  <2>2. CASE Owner
      BY <2>1, <2>2 DEF Owner, AcquireLock, SaveRun, FinalizeRun, Crash, AppendEvent,
                        WriteArtifact, Live
  <2>3. CASE Age
      BY <2>1, <2>3 DEF Age
  <2>4. CASE Command
      BY <2>1, <2>4 DEF Command, BeginSnapshot, BeginResume, MakeDir, ReadMemory, ReadEvents,
                  ReadArtifacts, ReadTexts, WriteContent, WriteRecord, StartRun, BeginPhase,
                  Interrupt, Files, files
  <2>5. CASE Cleanup
    <3>1. CASE BeginCleanup
        BY <2>1, <3>1 DEF BeginCleanup
    <3>3. CASE ReadEntries \/ RemoveDir \/ RemoveLog \/ InterruptCleanup
      <4>1. UNCHANGED run /\ UNCHANGED finalizer
          BY <3>3 DEF ReadEntries, RemoveDir, RemoveLog, InterruptCleanup, files
      <4> QED
          BY <2>1, <4>1
    <3>2. ASSUME NEW e \in EntryNames, RemoveEntry(e)
          PROVE  run' = None /\ killer' # "save" /\ ~early'
        BY <2>1, <3>2 DEF RemoveEntry
    <3> QED
        BY <2>5, <3>1, <3>2, <3>3 DEF Cleanup
  <2>6. CASE Finalizer
      BY <2>1, <2>6 DEF Finalizer, KillReads, KillSaves, InterruptKill
  <2> QED
      BY <2>2, <2>3, <2>4, <2>5, <2>6 DEF Next
<1> QED
    BY <1>1, <1>2, DeletionStep, PTL DEF Spec, DeletedStaysDeleted
-----------------------------------------------------------------------------
(* RunArchive: types *)

\* The list of artifacts without one of them.
LEMMA RemovedOnce ==
    ASSUME NEW S, NEW s \in Seq(S), IsInjective(s), NEW a
    PROVE  /\ RemoveFirst(s, a) \in Seq(S) /\ IsInjective(RemoveFirst(s, a))
           /\ \A i \in DOMAIN RemoveFirst(s, a) : RemoveFirst(s, a)[i] # a
<1> DEFINE n == Len(s)
<1>1. n \in Nat /\ DOMAIN s = 1 .. n /\ (\A i \in 1 .. n : s[i] \in S)
      /\ \A i, j \in 1 .. n : s[i] = s[j] => i = j
    BY ElementOfSeq DEF IsInjective
<1>2. CASE ~ \E i \in 1 .. n : s[i] = a
    BY <1>1, <1>2 DEF RemoveFirst
<1>3. CASE \E i \in 1 .. n : s[i] = a
  <2>1. PICK k \in 1 .. n : s[k] = a
      BY <1>3
  <2>2. {i \in 1 .. n : s[i] = a} = {k}
      BY <1>1, <2>1
  <2>3. Min({k}) = k
      BY <1>1, <2>1 DEF Min
  <2>4. SelectInSeq(s, LAMBDA v : v = a) = k
      BY <2>2, <2>3 DEF SelectInSeq
  <2> DEFINE left == SubSeq(s, 1, k - 1)
             right == SubSeq(s, k + 1, n)
             r == left \o right
  <2>5. RemoveFirst(s, a) = r
      BY <1>3, <2>4 DEF RemoveFirst, RemoveAt
  <2> HIDE DEF n
  <2>6. /\ left \in Seq(S) /\ Len(left) = k - 1
        /\ \A i \in 1 .. k - 1 : left[i] = s[i]
    <3>1. 1 \in Int /\ k - 1 \in Int /\ \A i \in 1 .. k - 1 : s[i] \in S
        BY <1>1
    <3>2. /\ left \in Seq(S) /\ Len(left) = IF 1 <= k - 1 THEN (k - 1) - 1 + 1 ELSE 0
          /\ \A i \in 1 .. (k - 1) - 1 + 1 : left[i] = s[1 + i - 1]
        BY <3>1, SubSeqProperties
    <3> HIDE DEF left
    <3> QED
        BY <1>1, <3>2
  <2>7. /\ right \in Seq(S) /\ Len(right) = n - k
        /\ \A i \in 1 .. n - k : right[i] = s[k + i]
    <3>1. k + 1 \in Int /\ n \in Int /\ \A i \in k + 1 .. n : s[i] \in S
        BY <1>1
    <3>2. /\ right \in Seq(S) /\ Len(right) = IF k + 1 <= n THEN n - (k + 1) + 1 ELSE 0
          /\ \A i \in 1 .. n - (k + 1) + 1 : right[i] = s[(k + 1) + i - 1]
        BY <3>1, SubSeqProperties
    <3> HIDE DEF right
    <3>3. n \in Nat /\ n - (k + 1) + 1 = n - k /\ (IF k + 1 <= n THEN n - (k + 1) + 1 ELSE 0) = n - k
        BY <1>1
    <3>4. \A i \in 1 .. n - k : (k + 1) + i - 1 = k + i
        BY <3>3
    <3> QED
        BY <3>2, <3>3, <3>4
  <2> HIDE DEF left, right
  <2>8. /\ r \in Seq(S) /\ Len(r) = Len(left) + Len(right)
        /\ \A i \in 1 .. Len(left) + Len(right) :
              r[i] = IF i <= Len(left) THEN left[i] ELSE right[i - Len(left)]
      BY <2>6, <2>7, ConcatProperties, Zenon
  <2> HIDE DEF r
  <2>9. /\ DOMAIN r = 1 .. n - 1
        /\ \A i \in 1 .. n - 1 : r[i] = IF i < k THEN s[i] ELSE s[i + 1]
    <3>1. Len(r) = n - 1
        BY <1>1, <2>6, <2>7, <2>8
    <3>2. DOMAIN r = 1 .. n - 1
        BY <2>8, <3>1
    <3>3. ASSUME NEW i \in 1 .. n - 1 PROVE r[i] = IF i < k THEN s[i] ELSE s[i + 1]
      <4>1. i \in 1 .. Len(left) + Len(right)
          BY <1>1, <2>6, <2>7
      <4>2. CASE i < k
          BY <1>1, <2>6, <2>8, <4>1, <4>2
      <4>3. CASE ~ (i < k)
        <5>1. i - Len(left) \in 1 .. n - k /\ k + (i - Len(left)) = i + 1 /\ ~ (i <= Len(left))
            BY <1>1, <2>6, <4>3
        <5>2. r[i] = right[i - Len(left)]
            BY <2>8, <4>1, <5>1
        <5> QED
            BY <2>7, <4>3, <5>1, <5>2
      <4> QED
          BY <4>2, <4>3
    <3> QED
        BY <3>2, <3>3
  <2>10. \A i \in 1 .. n - 1 : i \in 1 .. n /\ i + 1 \in 1 .. n
      BY <1>1
  <2>11. ASSUME NEW i \in 1 .. n - 1, NEW j \in 1 .. n - 1, r[i] = r[j] PROVE i = j
      BY <1>1, <2>9, <2>10, <2>11
  <2>12. ASSUME NEW i \in 1 .. n - 1 PROVE r[i] # a
      BY <1>1, <2>1, <2>9, <2>10
  <2> QED
      BY <2>5, <2>8, <2>9, <2>11, <2>12 DEF IsInjective
<1> QED
    BY <1>2, <1>3

LEMMA WrittenAgain ==
    ASSUME NEW S, NEW s \in Seq(S), IsInjective(s), NEW a \in S
    PROVE  /\ Append(RemoveFirst(s, a), a) \in Seq(S)
           /\ IsInjective(Append(RemoveFirst(s, a), a))
<1> DEFINE r == RemoveFirst(s, a)
           q == Append(r, a)
<1>1. r \in Seq(S) /\ IsInjective(r) /\ \A i \in DOMAIN r : r[i] # a
    BY RemovedOnce, Zenon
<1> HIDE DEF r
<1>2. /\ q \in Seq(S) /\ Len(q) = Len(r) + 1
      /\ \A i \in 1 .. Len(r) : q[i] = r[i]
      /\ q[Len(r) + 1] = a
    BY <1>1, AppendProperties
<1> DEFINE n == Len(r)
<1>3. n \in Nat /\ DOMAIN r = 1 .. n
    BY <1>1
<1> HIDE DEF q
<1>4. DOMAIN q = 1 .. n + 1
    BY <1>2
<1>5. ASSUME NEW i \in 1 .. n + 1, NEW j \in 1 .. n + 1, q[i] = q[j] PROVE i = j
  <2>1. \A k \in 1 .. n + 1 : k = n + 1 \/ k \in 1 .. n
      BY <1>3
  <2> HIDE DEF n
  <2>2. CASE i = n + 1 \/ j = n + 1
      BY <1>1, <1>2, <1>3, <1>5, <2>1, <2>2 DEF n
  <2>3. CASE i \in 1 .. n /\ j \in 1 .. n
      BY <1>1, <1>2, <1>3, <1>5, <2>3 DEF IsInjective, n
  <2> QED
      BY <2>1, <2>2, <2>3
<1> QED
  <2>1. q \in Seq(S) /\ IsInjective(q)
      BY <1>1, <1>2, <1>4, <1>5 DEF IsInjective
  <2> QED
      BY <2>1 DEF q, r

\* Inductive: the files of the snapshot are there only when the command has written them.
ArchiveTypes ==
    /\ TypeOK
    /\ arts \in Seq(Texts \cup Others)
    /\ content # None => cmd \in {"record", "written", "done", "failed", "interrupted"}
    /\ record # None => cmd \in {"written", "done", "interrupted"}

LEMMA FinalizerFrame == ASSUME UNCHANGED finalizer PROVE killer' = killer /\ early' = early
BY DEF finalizer

LEMMA OwnerTypes == ASSUME NoneIsNone, ArchiveConfig, ArchiveTypes, Owner PROVE ArchiveTypes'
<1> USE DEF ArchiveTypes, TypeOK, Live, EntryNames, command, cleanup
<1>1. CASE AppendEvent
  <2>1. log' \in 0 .. MaxLog
      BY <1>1 DEF AppendEvent, ArchiveConfig
  <2> QED
      BY <1>1, <2>1, FinalizerFrame DEF AppendEvent, Entries
<1>2. CASE SaveRun \/ FinalizeRun
  <2>1. run' # run => here
      BY <1>2 DEF SaveRun, FinalizeRun
  <2>2. run' \in Ended \cup {"running", None} /\ owner' \in Live \cup {"over", "failed"}
      BY <1>2 DEF SaveRun, FinalizeRun
  <2>6. aged' \in BOOLEAN
      BY <1>2 DEF SaveRun, FinalizeRun
  <2>3. /\ UNCHANGED <<opts, here, dirs, arts, content, record, log, command, cleanup>>
        /\ killer' = killer /\ early' = early
      BY <1>2, FinalizerFrame DEF SaveRun, FinalizeRun
  <2>4. Entries' # {} => here'
    <3>1. Entries' # {} => Entries # {} \/ run' # run
        BY <1>2 DEF SaveRun, FinalizeRun, Entries
    <3>2. here' = here
        BY <2>3
    <3> HIDE DEF Entries
    <3> QED
        BY <2>1, <3>1, <3>2
  <2> HIDE DEF Entries
  <2>5. TypeOK'
    <3>1. UNCHANGED <<opts, here, dirs, arts, content, record, log>> /\ UNCHANGED killer /\ UNCHANGED early
        BY <2>3
    <3>2. UNCHANGED <<cmd, resume, w, manifest, next, prompt>> /\ UNCHANGED <<cleaner, names>>
        BY <2>3
    <3> QED
        BY <2>2, <2>4, <2>6, <3>1, <3>2
  <2> QED
      BY <2>3, <2>5
<1>3. ASSUME NEW a \in Texts \cup Others, WriteArtifact(a) PROVE ArchiveTypes'
  <2>1. /\ arts' \in Seq(Texts \cup Others) /\ IsInjective(arts') /\ "artifacts" \in dirs'
        /\ Entries' = Entries
      BY <1>3, WrittenAgain DEF WriteArtifact, Entries
  <2>2. ToSet(arts') \subseteq Texts \cup Others
      BY <2>1, ElementOfSeq DEF ToSet
  <2> QED
      BY <1>3, <2>1, <2>2, FinalizerFrame DEF WriteArtifact
<1>4. CASE AcquireLock \/ Crash
  <2>1. UNCHANGED <<opts, files, command, cleanup>> /\ killer' = killer /\ early' = early
      BY <1>4, FinalizerFrame DEF AcquireLock, Crash
  <2>2. owner' \in Live \cup {"over", "failed"}
      BY <1>4 DEF AcquireLock, Crash
  <2>3. Entries' = Entries
      BY <2>1 DEF files, Entries
  <2>4. TypeOK'
      BY <2>1, <2>2, <2>3 DEF files
  <2> QED
      BY <2>1, <2>4 DEF files
<1> QED
    BY <1>1, <1>2, <1>3, <1>4 DEF Owner

LEMMA FinalizerTypes ==
    ASSUME NoneIsNone, ArchiveConfig, ArchiveTypes, Finalizer PROVE ArchiveTypes'
<1> USE DEF ArchiveTypes, TypeOK, finalizer, files, command, cleanup
<1>1. CASE KillReads \/ InterruptKill
    BY <1>1 DEF KillReads, InterruptKill, Entries
<1>2. CASE KillSaves
  <2>1. log' \in 0 .. MaxLog \cup {None}
      BY <1>2 DEF KillSaves, ArchiveConfig
  <2>2. run' \in Ended \cup {"running", None} /\ aged' \in BOOLEAN
      BY <1>2 DEF KillSaves, Ended
  <2>3. Entries' # {} => here'
      BY <1>2 DEF KillSaves, Entries
  <2>4. killer' = "idle" /\ UNCHANGED <<opts, here, dirs, arts, content, record, owner, early, command, cleanup>>
      BY <1>2 DEF KillSaves
  <2> HIDE DEF Entries
  <2> QED
      BY <2>1, <2>2, <2>3, <2>4
<1> QED
    BY <1>1, <1>2 DEF Finalizer

LEMMA CommandTypes == ASSUME NoneIsNone, ArchiveTypes, Command PROVE ArchiveTypes'
<1> USE DEF ArchiveTypes, TypeOK, files, finalizer, cleanup, Entries, EntryNames
<1>1. CASE BeginSnapshot
    BY <1>1 DEF BeginSnapshot
<1>2. CASE BeginResume
    BY <1>2 DEF BeginResume
<1>3. CASE MakeDir
    BY <1>3 DEF MakeDir
<1>4. CASE ReadMemory \/ ReadEvents \/ ReadArtifacts \/ ReadTexts
  <2>1. /\ cmd \in {"memory", "events", "artifacts", "texts"}
        /\ cmd' \in {"events", "artifacts", "texts", "content"}
        /\ UNCHANGED <<opts, files, owner, finalizer, resume, next, prompt, cleanup>>
      BY <1>4, Zenon DEF ReadMemory, ReadEvents, ReadArtifacts, ReadTexts, Files
  <2> QED
      BY <2>1
<1>5. CASE WriteContent
    BY <1>5 DEF WriteContent
<1>6. CASE WriteRecord
    BY <1>6 DEF WriteRecord
<1>7. CASE StartRun
    BY <1>7 DEF StartRun
<1>8. CASE BeginPhase
  <2>1. prompt' = Feedback(opts.maxBytes) /\ Feedback(opts.maxBytes) # None
    <3> DEFINE s == Gathered(opts.maxBytes, opts.snapshotMode, opts.memoryMode,
                             IF content = None THEN NoText ELSE content,
                             IF "memory" \in opts.sources THEN Docs ELSE <<>>,
                             IF "events" \in opts.sources
                             THEN Len(LastItems(opts.maxEvents, Lines("events", NewEvents))) ELSE 0, 0)
               bytes == IF s.returned THEN 0 ELSE Len(s.w.text)
    <3>1. Feedback(opts.maxBytes) = [text |-> s.w.text, bytes |-> bytes, counts |-> s.counts]
        BY Zenon DEF Feedback, GatherFeedback
    <3> HIDE DEF s, bytes
    <3>2. Feedback(opts.maxBytes) # None
        BY <3>1, Zenon DEF NoneIsNone
    <3> QED
        BY <1>8, <3>2 DEF BeginPhase
  <2> QED
      BY <1>8, <2>1 DEF BeginPhase
<1>9. CASE Interrupt
    BY <1>9 DEF Interrupt
<1> QED
    BY <1>1, <1>2, <1>3, <1>4, <1>5, <1>6, <1>7, <1>8, <1>9 DEF Command

LEMMA CleanupTypes == ASSUME NoneIsNone, ArchiveTypes, Cleanup PROVE ArchiveTypes'
<1> USE DEF ArchiveTypes, TypeOK, EntryNames, files, finalizer, command
<1>1. CASE BeginCleanup
    BY <1>1 DEF BeginCleanup, Entries
<1>2. CASE ReadEntries
    BY <1>2 DEF ReadEntries, Entries
<1>3. ASSUME NEW e \in EntryNames, RemoveEntry(e) PROVE ArchiveTypes'
  <2>1. Entries' \subseteq Entries
      BY <1>3 DEF RemoveEntry, Entries, NoneIsNone
  <2>2. IsInjective(arts') /\ ToSet(arts') \subseteq Texts \cup Others /\ arts' \in Seq(Texts \cup Others)
    <3>1. IsInjective(<<>>) /\ ToSet(<<>>) = {} /\ <<>> \in Seq(Texts \cup Others)
        BY DEF IsInjective, ToSet
    <3> QED
        BY <1>3, <3>1 DEF RemoveEntry
  <2> QED
      BY <1>3, <2>1, <2>2 DEF RemoveEntry
<1>4. CASE RemoveDir
  <2>1. /\ UNCHANGED <<opts, run, aged, dirs, arts, content, record, log, owner, finalizer,
                         command, byAge, names>>
        /\ cleaner' \in {"log", "failed"}
      BY <1>4 DEF RemoveDir
  <2>2. Entries' = Entries
      BY <2>1 DEF Entries
  <2>3. here' \in BOOLEAN /\ (Entries # {} => here')
      BY <1>4 DEF RemoveDir
  <2> QED
      BY <2>1, <2>2, <2>3
<1>5. CASE RemoveLog
    BY <1>5 DEF RemoveLog, Entries
<1>6. CASE InterruptCleanup
    BY <1>6 DEF InterruptCleanup, Entries
<1> QED
    BY <1>1, <1>2, <1>3, <1>4, <1>5, <1>6 DEF Cleanup

\* The variables of the archive have their types: nothing is in a directory that is not there,
\* an artifact is listed once, and a file of a snapshot is as the command left it.
THEOREM ArchiveTypesAlways == ASSUME NoneIsNone, ArchiveConfig PROVE Spec => []ArchiveTypes
<1>1. Init => ArchiveTypes
  <2>1. IsInjective(<<>>) /\ ToSet(<<>>) = {} /\ <<>> \in Seq(Texts \cup Others)
      BY DEF IsInjective, ToSet
  <2>2. ASSUME Init PROVE TypeOK
    <3>1. Entries # {} => here
        BY <2>2 DEF Init
    <3>2. IsInjective(arts) /\ ToSet(arts) \subseteq Texts \cup Others
        BY <2>1, <2>2 DEF Init
    <3>3. log \in 0 .. MaxLog \cup {None}
        BY <2>2 DEF Init, ArchiveConfig
    <3>4. /\ opts \in Settings
          /\ run = "running" /\ aged = FALSE /\ here = TRUE
          /\ dirs = {"artifacts", "snapshots"} /\ arts = <<>>
          /\ content = None /\ record = None /\ owner = "starting" /\ cmd = "idle"
          /\ killer = "idle" /\ early = FALSE
          /\ next = "none" /\ prompt = None /\ cleaner = "idle" /\ names = {}
        BY <2>2 DEF Init
    <3> QED
        BY <3>1, <3>2, <3>3, <3>4 DEF TypeOK, Live, EntryNames
  <2> QED
      BY <2>1, <2>2 DEF Init, ArchiveTypes
<1>2. ArchiveTypes /\ [Next]_vars => ArchiveTypes'
  <2> SUFFICES ASSUME ArchiveTypes, [Next]_vars PROVE ArchiveTypes'
      OBVIOUS
  <2>1. CASE Age
      BY <2>1 DEF Age, ArchiveTypes, TypeOK, Entries, finalizer, command, cleanup
  <2>2. CASE UNCHANGED vars
      BY <2>2 DEF vars, ArchiveTypes, TypeOK, Entries, finalizer, files, command, cleanup
  <2> QED
      BY <2>1, <2>2, OwnerTypes, FinalizerTypes, CommandTypes, CleanupTypes DEF Next
<1> QED
    BY <1>1, <1>2, PTL DEF Spec

\* The same for the three of them, as the run checks it.
THEOREM TypesHold ==
    ASSUME NoneIsNone, ArchiveConfig, Host!HostConfig, Gen!GenerationConfig
    PROVE  Spec /\ Host!Spec /\ Gen!Spec => []TypesOK
<1> QED
  <2>1. ArchiveTypes => TypeOK
      BY DEF ArchiveTypes
  <2> QED
      BY <2>1, ArchiveTypesAlways, HostTypes, GenerationTypes, PTL DEF TypesOK
-----------------------------------------------------------------------------
(* LimitedText: recursion *)

LEMMA RangeInduction ==
    ASSUME NEW n \in Nat, NEW S, 0 \in S, \A k \in 1 .. n : k - 1 \in S => k \in S
    PROVE  \A k \in 0 .. n : k \in S
<1> DEFINE T == {k \in Nat : k <= n => k \in S}
<1>1. 0 \in T
    OBVIOUS
<1>2. ASSUME NEW k \in Nat, k \in T PROVE k + 1 \in T
  <2>1. CASE k + 1 <= n
    <3>1. k + 1 \in 1 .. n /\ (k + 1) - 1 = k /\ k <= n
        BY <2>1
    <3>2. k \in S
        BY <1>2, <3>1
    <3> QED
        BY <3>1, <3>2
  <2> QED
      BY <2>1
<1> HIDE DEF T
<1>3. Nat \subseteq T
    BY <1>1, <1>2, SetInduction
<1> QED
    BY <1>3 DEF T

\* What is defined by a first value and a step from each value to the next one exists.
Iterates(X, x, n, next1) ==
    {f \in [0 .. n -> X] : f[0] = x /\ \A k \in 1 .. n : f[k] = next1[k][f[k - 1]]}

LEMMA Iteration ==
    ASSUME NEW X, NEW x \in X, NEW n \in Nat, NEW next1 \in [1 .. n -> [X -> X]]
    PROVE  Iterates(X, x, n, next1) # {}
<1> DEFINE S == {m \in 0 .. n : \E f \in [0 .. m -> X] :
                                   f[0] = x /\ \A k \in 1 .. m : f[k] = next1[k][f[k - 1]]}
<1>1. 0 \in S
  <2> DEFINE f == [k \in 0 .. 0 |-> x]
  <2>1. f \in [0 .. 0 -> X] /\ f[0] = x /\ \A k \in 1 .. 0 : f[k] = next1[k][f[k - 1]]
      OBVIOUS
  <2> HIDE DEF f
  <2> QED
      BY <2>1
<1>2. ASSUME NEW m \in 1 .. n, m - 1 \in S PROVE m \in S
  <2>1. PICK f \in [0 .. m - 1 -> X] :
               f[0] = x /\ \A k \in 1 .. m - 1 : f[k] = next1[k][f[k - 1]]
      BY <1>2
  <2>2. f[m - 1] \in X /\ next1[m] \in [X -> X]
      BY <2>1
  <2> DEFINE y == next1[m][f[m - 1]]
             g == [k \in 0 .. m |-> IF k = m THEN y ELSE f[k]]
  <2>3. y \in X
      BY <2>2
  <2>4. \A k \in 0 .. m : k = m \/ (k \in 0 .. m - 1 /\ k # m)
      OBVIOUS
  <2>5. g \in [0 .. m -> X]
    <3> HIDE DEF y
    <3>1. \A k \in 0 .. m : (IF k = m THEN y ELSE f[k]) \in X
        BY <2>1, <2>3, <2>4
    <3> QED
        BY <3>1
  <2>6. g[0] = x
      BY <2>1
  <2>7. ASSUME NEW k \in 1 .. m PROVE g[k] = next1[k][g[k - 1]]
    <3>1. k - 1 \in 0 .. m - 1 /\ k - 1 # m /\ k \in 0 .. m /\ k - 1 \in 0 .. m
        OBVIOUS
    <3>2. g[k - 1] = f[k - 1]
        BY <3>1
    <3>3. CASE k = m
        BY <3>1, <3>2, <3>3
    <3>4. CASE k # m
      <4>1. k \in 1 .. m - 1 /\ g[k] = f[k]
          BY <3>1, <3>4
      <4> QED
          BY <2>1, <3>2, <4>1
    <3> QED
        BY <3>3, <3>4
  <2> HIDE DEF g
  <2>8. \E h \in [0 .. m -> X] : h[0] = x /\ \A k \in 1 .. m : h[k] = next1[k][h[k - 1]]
      BY <2>5, <2>6, <2>7
  <2>9. m \in 0 .. n
      OBVIOUS
  <2> QED
      BY <2>8, <2>9
<1> HIDE DEF S
<1>3. \A k \in 0 .. n : k \in S
    BY <1>1, <1>2, RangeInduction
<1> QED
    BY <1>3 DEF S, Iterates

-----------------------------------------------------------------------------
(* LimitedText: writers *)

Writer == [text : Seq(Byte), left : Nat, limited : BOOLEAN, open : BOOLEAN]

LEMMA PieceType ==
    ASSUME NEW kind \in Kinds, NEW nr \in Nat, NEW n \in Nat
    PROVE  /\ Piece(kind, nr, n) \in Seq(Byte) /\ Len(Piece(kind, nr, n)) = n
           /\ << Piece(kind, nr, n) >> \in Seq(Seq(Byte))
<1>1. \A k \in 1 .. n : <<kind, nr, k>> \in Byte
    BY DEF Byte
<1> QED
    BY <1>1 DEF Piece

LEMMA FirstBytesAre ==
    ASSUME NEW t \in Seq(Byte), NEW n \in Nat
    PROVE  /\ FirstBytes(t, n) \in Seq(Byte)
           /\ Len(FirstBytes(t, n)) = IF Len(t) < n THEN Len(t) ELSE n
           /\ \A i \in 1 .. Len(FirstBytes(t, n)) : FirstBytes(t, n)[i] = t[i]
<1> DEFINE m == IF Len(t) < n THEN Len(t) ELSE n
<1>1. m \in Nat /\ m <= Len(t) /\ Len(t) \in Nat
    OBVIOUS
<1> HIDE DEF m
<1>2. \A i \in 1 .. m : t[i] \in Byte
    BY <1>1, ElementOfSeq
<1>3. 1 \in Int /\ m \in Int
    BY <1>1
<1>4. /\ SubSeq(t, 1, m) \in Seq(Byte)
      /\ Len(SubSeq(t, 1, m)) = IF 1 <= m THEN m - 1 + 1 ELSE 0
      /\ \A i \in 1 .. m - 1 + 1 : SubSeq(t, 1, m)[i] = t[1 + i - 1]
    BY <1>2, <1>3, SubSeqProperties
<1>5. FirstBytes(t, n) = SubSeq(t, 1, m)
    BY DEF FirstBytes, m
<1> DEFINE r == SubSeq(t, 1, m)
<1> HIDE DEF r
<1>6. Len(r) = m /\ \A i \in 1 .. m : r[i] = t[i]
  <2>1. Len(r) = m
      BY <1>1, <1>4 DEF r
  <2>2. ASSUME NEW i \in 1 .. m PROVE r[i] = t[i]
    <3>1. i \in 1 .. m - 1 + 1 /\ 1 + i - 1 = i
        BY <1>1
    <3> QED
        BY <1>4, <3>1 DEF r
  <2> QED
      BY <2>1, <2>2
<1> QED
    BY <1>4, <1>5, <1>6 DEF r, m

LEMMA NewWriter ==
    ASSUME NEW max \in Nat
    PROVE  /\ NewLimitWriter(max) \in Writer /\ NewLimitWriter(max).text = <<>>
           /\ NewLimitWriter(max).limited <=> max > 0
           /\ NewLimitWriter(max).open /\ NewLimitWriter(max).left = max
<1>1. <<>> \in Seq(Byte) /\ (max > 0) \in BOOLEAN
    OBVIOUS
<1> DEFINE limited == max > 0
<1>2. limited \in BOOLEAN
    OBVIOUS
<1>3. NewLimitWriter(max) = [text |-> <<>>, left |-> max, limited |-> limited, open |-> TRUE]
    BY DEF NewLimitWriter
<1> HIDE DEF limited
<1>4. /\ NewLimitWriter(max) \in Writer /\ NewLimitWriter(max).text = <<>>
      /\ NewLimitWriter(max).limited = limited
      /\ NewLimitWriter(max).open /\ NewLimitWriter(max).left = max
    BY <1>1, <1>2, <1>3 DEF Writer
<1> QED
    BY <1>4 DEF limited

\* Put, in terms of the lengths and the bytes.
LEMMA PutIs ==
    ASSUME NEW v \in Writer, NEW t \in Seq(Byte)
    PROVE  LET p == Put(v, t)
               n == IF v.limited /\ v.left < Len(t) THEN v.left ELSE Len(t)
           IN /\ p \in Writer /\ p.limited = v.limited
              /\ Len(p.text) = Len(v.text) + n
              /\ \A i \in 1 .. Len(v.text) : p.text[i] = v.text[i]
              /\ \A i \in 1 .. n : p.text[Len(v.text) + i] = t[i]
              /\ p.left = IF v.limited THEN v.left - n ELSE v.left
              /\ ~p.open => v.limited /\ p.left = 0
              /\ v.limited /\ t # <<>> /\ p.left = 0 => ~p.open
<1> DEFINE p == Put(v, t)
           n == IF v.limited /\ v.left < Len(t) THEN v.left ELSE Len(t)
           kept == IF v.limited THEN FirstBytes(t, v.left) ELSE t
           text == v.text \o kept
           left == IF v.limited THEN v.left - Len(kept) ELSE v.left
           isOpen == (t = <<>> \/ ~v.limited \/ v.left - Len(kept) > 0)
<1>1. /\ v.text \in Seq(Byte) /\ v.left \in Nat /\ v.limited \in BOOLEAN /\ v.open \in BOOLEAN
      /\ Len(v.text) \in Nat /\ Len(t) \in Nat
    BY DEF Writer
<1>2. kept \in Seq(Byte) /\ Len(kept) = n /\ \A i \in 1 .. n : kept[i] = t[i]
  <2>1. CASE v.limited
    <3>1. /\ FirstBytes(t, v.left) \in Seq(Byte)
          /\ Len(FirstBytes(t, v.left)) = IF Len(t) < v.left THEN Len(t) ELSE v.left
          /\ \A i \in 1 .. Len(FirstBytes(t, v.left)) : FirstBytes(t, v.left)[i] = t[i]
        BY <1>1, FirstBytesAre
    <3>2. (IF Len(t) < v.left THEN Len(t) ELSE v.left) = n
        BY <1>1, <2>1
    <3> QED
        BY <2>1, <3>1, <3>2
  <2>2. CASE ~v.limited
      BY <1>1, <2>2
  <2> QED
      BY <1>1, <2>1, <2>2
<1>3. n \in Nat /\ n <= Len(t) /\ (v.limited => n <= v.left) /\ (~v.limited => n = Len(t))
    BY <1>1
<1> HIDE DEF kept, n
<1>4. left \in Nat /\ left = (IF v.limited THEN v.left - n ELSE v.left) /\ isOpen \in BOOLEAN
    BY <1>1, <1>2, <1>3
<1>5. /\ text \in Seq(Byte) /\ Len(text) = Len(v.text) + n
      /\ \A i \in 1 .. Len(v.text) : text[i] = v.text[i]
      /\ \A i \in 1 .. n : text[Len(v.text) + i] = kept[i]
  <2>1. /\ text \in Seq(Byte) /\ Len(text) = Len(v.text) + Len(kept)
        /\ \A i \in 1 .. Len(v.text) + Len(kept) :
              text[i] = IF i <= Len(v.text) THEN v.text[i] ELSE kept[i - Len(v.text)]
      BY <1>1, <1>2, ConcatProperties, Zenon
  <2> DEFINE l == Len(v.text)
  <2> HIDE DEF text, l
  <2>2. \A i \in 1 .. l : i \in 1 .. l + n /\ i <= l
      BY <1>1, <1>3 DEF l
  <2>3. \A i \in 1 .. n : l + i \in 1 .. l + n /\ ~(l + i <= l) /\ (l + i) - l = i
      BY <1>1, <1>3 DEF l
  <2> QED
      BY <1>2, <2>1, <2>2, <2>3 DEF l
<1>6. ~isOpen => v.limited /\ left = 0
    BY <1>1, <1>2, <1>3
<1>7. v.limited /\ t # <<>> /\ left = 0 => ~isOpen
    BY <1>1, <1>2
<1>8. p = [v EXCEPT !.text = text, !.left = left, !.open = isOpen]
    BY Zenon DEF Put, kept
<1> HIDE DEF text, left, isOpen
<1>9. /\ p \in Writer /\ p.limited = v.limited /\ p.text = text /\ p.left = left
      /\ p.open = isOpen
    BY <1>1, <1>4, <1>5, <1>8 DEF Writer
<1> QED
  <2>1. p.left = (IF v.limited THEN v.left - n ELSE v.left)
      BY <1>4, <1>9 DEF left
  <2>2. \A i \in 1 .. n : p.text[Len(v.text) + i] = t[i]
      BY <1>2, <1>5, <1>9
  <2> QED
      BY <1>5, <1>6, <1>7, <1>9, <2>1, <2>2 DEF n

\* The recursive functions of PutItem and PutItems exist, and what they say.
LEMMA PutItemIs ==
    ASSUME NEW v \in Writer, NEW texts \in Seq(Seq(Byte))
    PROVE  \E f \in [0 .. Len(texts) -> Writer] :
              /\ f[0] = [v EXCEPT !.open = TRUE] /\ f[Len(texts)] = PutItem(v, texts)
              /\ \A k \in 1 .. Len(texts) :
                    f[k] = IF f[k - 1].open THEN Put(f[k - 1], texts[k]) ELSE f[k - 1]
<1> DEFINE n == Len(texts)
           x == [v EXCEPT !.open = TRUE]
           G == [k \in 1 .. n |-> [u \in Writer |-> IF u.open THEN Put(u, texts[k]) ELSE u]]
           put(f) == f = [k \in 0 .. n |-> IF k = 0 THEN x
                              ELSE IF f[k - 1].open THEN Put(f[k - 1], texts[k]) ELSE f[k - 1]]
<1>1. n \in Nat /\ x \in Writer
  <2>1. x \in Writer /\ x.open
      BY DEF Writer
  <2> HIDE DEF x
  <2> QED
      BY <2>1
<1>2. G \in [1 .. n -> [Writer -> Writer]]
  <2>1. ASSUME NEW k \in 1 .. n, NEW u \in Writer
        PROVE  (IF u.open THEN Put(u, texts[k]) ELSE u) \in Writer
    <3>1. texts[k] \in Seq(Byte)
        OBVIOUS
    <3>2. Put(u, texts[k]) \in Writer
        BY <3>1, PutIs, Zenon
    <3> QED
        BY <3>2
  <2> QED
      BY <2>1
<1>3. \A k \in 1 .. n, u \in Writer : G[k][u] = IF u.open THEN Put(u, texts[k]) ELSE u
    OBVIOUS
<1> HIDE DEF n, x, G, put
<1>4. PICK g \in [0 .. n -> Writer] : g[0] = x /\ \A k \in 1 .. n : g[k] = G[k][g[k - 1]]
  <2>1. Iterates(Writer, x, n, G) # {}
      BY <1>1, <1>2, Iteration
  <2> QED
      BY <2>1 DEF Iterates
<1>5. \A k \in 1 .. n : k \in 0 .. n /\ k - 1 \in 0 .. n /\ k # 0
    BY <1>1
<1>6. \A k \in 0 .. n : k = 0 \/ k \in 1 .. n
    BY <1>1
<1>7. \A k \in 1 .. n : g[k] = IF g[k - 1].open THEN Put(g[k - 1], texts[k]) ELSE g[k - 1]
    BY <1>3, <1>4, <1>5
<1>8. put(g)
  <2>1. \A k \in 0 .. n : g[k] = IF k = 0 THEN x
                              ELSE IF g[k - 1].open THEN Put(g[k - 1], texts[k]) ELSE g[k - 1]
      BY <1>4, <1>5, <1>6, <1>7
  <2> QED
      BY <1>4, <2>1 DEF put
<1> DEFINE f == CHOOSE h : put(h)
<1>9. put(f)
    BY <1>8, Zenon
<1>10. PutItem(v, texts) = f[n]
    BY Zenon DEF PutItem, n, x, put
<1> HIDE DEF f
<1>11. f[0] = x /\ \A k \in 1 .. n : f[k] = IF f[k - 1].open THEN Put(f[k - 1], texts[k]) ELSE f[k - 1]
  <2>1. \A k \in 0 .. n : f[k] = IF k = 0 THEN x
                              ELSE IF f[k - 1].open THEN Put(f[k - 1], texts[k]) ELSE f[k - 1]
      BY <1>9 DEF put
  <2>2. 0 \in 0 .. n
      BY <1>1
  <2> QED
      BY <1>5, <2>1, <2>2
<1> DEFINE S == {k \in 0 .. n : f[k] \in Writer}
<1>13. 0 \in S
    BY <1>1, <1>11
<1>14. \A k \in 1 .. n : k - 1 \in S => k \in S
  <2> SUFFICES ASSUME NEW k \in 1 .. n, f[k - 1] \in Writer PROVE f[k] \in Writer
      BY <1>5
  <2>1. f[k] = G[k][f[k - 1]]
      BY <1>3, <1>11
  <2> QED
      BY <1>2, <2>1
<1> HIDE DEF S
<1>15. \A k \in 0 .. n : k \in S
    BY <1>1, <1>13, <1>14, RangeInduction
<1>16. f \in [0 .. n -> Writer]
  <2>1. f = [k \in 0 .. n |-> f[k]]
      BY <1>9 DEF put
  <2> QED
      BY <1>15, <2>1 DEF S
<1> QED
    BY <1>10, <1>11, <1>16 DEF n, x

LEMMA PutItemType ==
    ASSUME NEW v \in Writer, NEW texts \in Seq(Seq(Byte))
    PROVE  PutItem(v, texts) \in Writer
<1>1. Len(texts) \in 0 .. Len(texts)
    OBVIOUS
<1>2. PICK f \in [0 .. Len(texts) -> Writer] : f[Len(texts)] = PutItem(v, texts)
    BY PutItemIs
<1> QED
    BY <1>1, <1>2

Count == [w : Writer, n : Nat, stop : BOOLEAN]

LEMMA PutItemsIs ==
    ASSUME NEW v \in Writer, NEW items \in Seq(Seq(Seq(Byte)))
    PROVE  \E f \in [0 .. Len(items) -> Count] :
              /\ f[0] = [w |-> v, n |-> 0, stop |-> FALSE] /\ f[Len(items)] = PutItems(v, items)
              /\ \A k \in 1 .. Len(items) :
                    f[k] = IF f[k - 1].stop THEN f[k - 1]
                           ELSE [w |-> PutItem(f[k - 1].w, items[k]), n |-> f[k - 1].n + 1,
                                 stop |-> ~PutItem(f[k - 1].w, items[k]).open]
<1> DEFINE n == Len(items)
           x == [w |-> v, n |-> 0, stop |-> FALSE]
           G == [k \in 1 .. n |-> [u \in Count |->
                    IF u.stop THEN u
                    ELSE [w |-> PutItem(u.w, items[k]), n |-> u.n + 1,
                          stop |-> ~PutItem(u.w, items[k]).open]]]
           put(f) == f = [k \in 0 .. n |-> IF k = 0 THEN x
                            ELSE IF f[k - 1].stop THEN f[k - 1]
                            ELSE [w |-> PutItem(f[k - 1].w, items[k]), n |-> f[k - 1].n + 1,
                                  stop |-> ~PutItem(f[k - 1].w, items[k]).open]]
<1>1. n \in Nat /\ x \in Count
    BY DEF Count
<1>2. G \in [1 .. n -> [Count -> Count]]
  <2>1. ASSUME NEW k \in 1 .. n, NEW u \in Count
        PROVE  (IF u.stop THEN u ELSE [w |-> PutItem(u.w, items[k]), n |-> u.n + 1,
                                       stop |-> ~PutItem(u.w, items[k]).open]) \in Count
    <3>1. items[k] \in Seq(Seq(Byte)) /\ u.w \in Writer /\ u.n \in Nat
        BY DEF Count
    <3>2. PutItem(u.w, items[k]) \in Writer
        BY <3>1, PutItemType
    <3> QED
        BY <3>1, <3>2 DEF Count
  <2> QED
      BY <2>1
<1>3. \A k \in 1 .. n, u \in Count :
         G[k][u] = IF u.stop THEN u
                   ELSE [w |-> PutItem(u.w, items[k]), n |-> u.n + 1,
                         stop |-> ~PutItem(u.w, items[k]).open]
    OBVIOUS
<1> HIDE DEF n, x, G, put
<1>4. PICK g \in [0 .. n -> Count] : g[0] = x /\ \A k \in 1 .. n : g[k] = G[k][g[k - 1]]
  <2>1. Iterates(Count, x, n, G) # {}
      BY <1>1, <1>2, Iteration
  <2> QED
      BY <2>1 DEF Iterates
<1>5. \A k \in 1 .. n : k \in 0 .. n /\ k - 1 \in 0 .. n /\ k # 0
    BY <1>1
<1>6. \A k \in 0 .. n : k = 0 \/ k \in 1 .. n
    BY <1>1
<1>7. \A k \in 1 .. n :
         g[k] = IF g[k - 1].stop THEN g[k - 1]
                ELSE [w |-> PutItem(g[k - 1].w, items[k]), n |-> g[k - 1].n + 1,
                      stop |-> ~PutItem(g[k - 1].w, items[k]).open]
  <2> TAKE k \in 1 .. n
  <2>1. g[k] = G[k][g[k - 1]] /\ g[k - 1] \in Count
      BY <1>4, <1>5
  <2> QED
      BY <1>3, <2>1
<1>8. put(g)
  <2>1. \A k \in 0 .. n :
           g[k] = IF k = 0 THEN x
                  ELSE IF g[k - 1].stop THEN g[k - 1]
                  ELSE [w |-> PutItem(g[k - 1].w, items[k]), n |-> g[k - 1].n + 1,
                        stop |-> ~PutItem(g[k - 1].w, items[k]).open]
      BY <1>4, <1>5, <1>6, <1>7
  <2> QED
      BY <1>4, <2>1 DEF put
<1> DEFINE f == CHOOSE h : put(h)
<1>9. put(f)
    BY <1>8, Zenon
<1>10. PutItems(v, items) = f[n]
    BY Zenon DEF PutItems, n, x, put
<1> HIDE DEF f
<1>11. /\ f[0] = x
       /\ \A k \in 1 .. n :
             f[k] = IF f[k - 1].stop THEN f[k - 1]
                    ELSE [w |-> PutItem(f[k - 1].w, items[k]), n |-> f[k - 1].n + 1,
                          stop |-> ~PutItem(f[k - 1].w, items[k]).open]
  <2>1. \A k \in 0 .. n :
           f[k] = IF k = 0 THEN x
                  ELSE IF f[k - 1].stop THEN f[k - 1]
                  ELSE [w |-> PutItem(f[k - 1].w, items[k]), n |-> f[k - 1].n + 1,
                        stop |-> ~PutItem(f[k - 1].w, items[k]).open]
      BY <1>9, Zenon DEF put
  <2>2. 0 \in 0 .. n
      BY <1>1
  <2> QED
      BY <1>5, <2>1, <2>2
<1> DEFINE S == {k \in 0 .. n : f[k] \in Count}
<1>12. 0 \in S
    BY <1>1, <1>11
<1>13. \A k \in 1 .. n : k - 1 \in S => k \in S
  <2> SUFFICES ASSUME NEW k \in 1 .. n, f[k - 1] \in Count PROVE f[k] \in Count
      BY <1>5
  <2> DEFINE next1 == [w |-> PutItem(f[k - 1].w, items[k]), n |-> f[k - 1].n + 1,
                       stop |-> ~PutItem(f[k - 1].w, items[k]).open]
  <2>1. f[k] = IF f[k - 1].stop THEN f[k - 1] ELSE next1
      BY <1>11
  <2>2. G[k][f[k - 1]] = IF f[k - 1].stop THEN f[k - 1] ELSE next1
      BY <1>3
  <2> HIDE DEF next1
  <2>3. f[k] = G[k][f[k - 1]]
      BY <2>1, <2>2
  <2> QED
      BY <1>2, <2>3
<1> HIDE DEF S
<1>14. \A k \in 0 .. n : k \in S
    BY <1>1, <1>12, <1>13, RangeInduction
<1>15. f \in [0 .. n -> Count]
  <2>1. f = [k \in 0 .. n |-> f[k]]
      BY <1>9 DEF put
  <2> QED
      BY <1>14, <2>1 DEF S
<1> QED
    BY <1>10, <1>11, <1>15 DEF n, x

LEMMA PutItemsType ==
    ASSUME NEW v \in Writer, NEW items \in Seq(Seq(Seq(Byte)))
    PROVE  PutItems(v, items) \in Count
<1>1. Len(items) \in 0 .. Len(items)
    OBVIOUS
<1>2. PICK f \in [0 .. Len(items) -> Count] : f[Len(items)] = PutItems(v, items)
    BY PutItemsIs
<1> QED
    BY <1>1, <1>2
-----------------------------------------------------------------------------
(* LimitedText: the budget *)

\* The writer v with a limit holds the first bytes of what u without one holds.
Cut(v, u, max) ==
    /\ v \in Writer /\ u \in Writer
    /\ v.limited /\ ~u.limited /\ u.open /\ (~v.open => v.left = 0)
    /\ v.left + Len(v.text) = max
    /\ Len(v.text) <= Len(u.text) /\ (v.left > 0 => Len(v.text) = Len(u.text))
    /\ \A i \in 1 .. Len(v.text) : v.text[i] = u.text[i]

\* A writer without a limit, at two moments.
Longer(u, u2) ==
    /\ u \in Writer /\ u2 \in Writer /\ ~u2.limited /\ u2.open
    /\ Len(u.text) <= Len(u2.text)
    /\ \A i \in 1 .. Len(u.text) : u2.text[i] = u.text[i]

LEMMA WriterFields ==
    ASSUME NEW v \in Writer
    PROVE  /\ v.text \in Seq(Byte) /\ Len(v.text) \in Nat /\ v.left \in Nat
           /\ v.limited \in BOOLEAN /\ v.open \in BOOLEAN
<1> QED
    BY DEF Writer

LEMMA LongerChain ==
    ASSUME NEW u, NEW u2, NEW u3, Longer(u, u2), Longer(u2, u3)
    PROVE  Longer(u, u3)
<1>1. Len(u.text) \in Nat /\ Len(u2.text) \in Nat /\ Len(u3.text) \in Nat
    BY WriterFields DEF Longer
<1>2. Len(u.text) <= Len(u2.text) /\ Len(u2.text) <= Len(u3.text)
    BY DEF Longer
<1>3. \A i \in 1 .. Len(u.text) : i \in 1 .. Len(u2.text)
    BY <1>1, <1>2
<1>4. \A i \in 1 .. Len(u.text) : u3.text[i] = u.text[i]
    BY <1>3 DEF Longer
<1> QED
    BY <1>1, <1>2, <1>4 DEF Longer

LEMMA PutLonger ==
    ASSUME NEW u \in Writer, ~u.limited, NEW t \in Seq(Byte)
    PROVE  Longer(u, Put(u, t))
<1> DEFINE p == Put(u, t)
<1>1. /\ p \in Writer /\ p.limited = u.limited /\ Len(p.text) = Len(u.text) + Len(t)
      /\ (\A i \in 1 .. Len(u.text) : p.text[i] = u.text[i])
      /\ ~p.open => u.limited
    BY PutIs
<1>2. Len(u.text) \in Nat /\ Len(t) \in Nat
    BY WriterFields
<1> HIDE DEF p
<1>3. Longer(u, p)
    BY <1>1, <1>2 DEF Longer
<1> QED
    BY <1>3 DEF p

LEMMA PutItemLonger ==
    ASSUME NEW u \in Writer, ~u.limited, NEW texts \in Seq(Seq(Byte))
    PROVE  Longer(u, PutItem(u, texts))
<1> DEFINE n == Len(texts)
<1>1. PICK f \in [0 .. n -> Writer] :
              /\ f[0] = [u EXCEPT !.open = TRUE] /\ f[n] = PutItem(u, texts)
              /\ \A k \in 1 .. n : f[k] = IF f[k - 1].open THEN Put(f[k - 1], texts[k]) ELSE f[k - 1]
    BY PutItemIs
<1>2. n \in Nat /\ \A k \in 1 .. n : texts[k] \in Seq(Byte)
    OBVIOUS
<1> HIDE DEF n
<1> DEFINE S == {k \in 0 .. n : Longer(u, f[k])}
<1>3. 0 \in S
  <2>1. /\ f[0] \in Writer /\ f[0].text = u.text /\ f[0].limited = u.limited /\ f[0].open
      BY <1>1, <1>2 DEF Writer
  <2>2. Len(u.text) \in Nat
      BY WriterFields
  <2> QED
      BY <1>2, <2>1, <2>2 DEF Longer
<1>4. ASSUME NEW k \in 1 .. n, k - 1 \in S PROVE k \in S
  <2>1. Longer(u, f[k - 1]) /\ k \in 0 .. n
      BY <1>4
  <2>2. f[k - 1] \in Writer /\ ~f[k - 1].limited
      BY <2>1 DEF Longer
  <2>3. Longer(f[k - 1], Put(f[k - 1], texts[k]))
      BY <1>2, <2>2, PutLonger
  <2>4. Longer(u, Put(f[k - 1], texts[k]))
      BY <2>1, <2>3, LongerChain
  <2> QED
      BY <1>1, <2>1, <2>4
<1> HIDE DEF S
<1>5. \A k \in 0 .. n : k \in S
    BY <1>2, <1>3, <1>4, RangeInduction
<1>6. n \in S
    BY <1>2, <1>5
<1> QED
    BY <1>1, <1>6 DEF S

LEMMA PutItemsLonger ==
    ASSUME NEW u \in Writer, ~u.limited, u.open, NEW items \in Seq(Seq(Seq(Byte)))
    PROVE  Longer(u, PutItems(u, items).w)
<1> DEFINE n == Len(items)
<1>1. PICK f \in [0 .. n -> Count] :
              /\ f[0] = [w |-> u, n |-> 0, stop |-> FALSE] /\ f[n] = PutItems(u, items)
              /\ \A k \in 1 .. n :
                    f[k] = IF f[k - 1].stop THEN f[k - 1]
                           ELSE [w |-> PutItem(f[k - 1].w, items[k]), n |-> f[k - 1].n + 1,
                                 stop |-> ~PutItem(f[k - 1].w, items[k]).open]
    BY PutItemsIs
<1>2. n \in Nat /\ \A k \in 1 .. n : items[k] \in Seq(Seq(Byte))
    OBVIOUS
<1> HIDE DEF n
<1> DEFINE S == {k \in 0 .. n : Longer(u, f[k].w)}
<1>3. 0 \in S
  <2>1. f[0].w = u /\ Len(u.text) \in Nat
      BY <1>1, WriterFields
  <2> QED
      BY <1>2, <2>1 DEF Longer
<1>4. ASSUME NEW k \in 1 .. n, k - 1 \in S PROVE k \in S
  <2>1. Longer(u, f[k - 1].w) /\ k \in 0 .. n
      BY <1>4
  <2>2. f[k - 1].w \in Writer /\ ~f[k - 1].w.limited
      BY <2>1 DEF Longer
  <2>3. Longer(f[k - 1].w, PutItem(f[k - 1].w, items[k]))
      BY <1>2, <2>2, PutItemLonger
  <2>4. Longer(u, PutItem(f[k - 1].w, items[k]))
      BY <2>1, <2>3, LongerChain
  <2>5. f[k].w = f[k - 1].w \/ f[k].w = PutItem(f[k - 1].w, items[k])
    <3>1. CASE f[k - 1].stop
        BY <1>1, <3>1
    <3>2. CASE ~f[k - 1].stop
      <4>1. f[k] = [w |-> PutItem(f[k - 1].w, items[k]), n |-> f[k - 1].n + 1,
                    stop |-> ~PutItem(f[k - 1].w, items[k]).open]
          BY <1>1, <3>2
      <4> QED
          BY <4>1
    <3> QED
        BY <3>1, <3>2
  <2> QED
      BY <2>1, <2>4, <2>5
<1> HIDE DEF S
<1>5. \A k \in 0 .. n : k \in S
    BY <1>2, <1>3, <1>4, RangeInduction
<1>6. n \in S
    BY <1>2, <1>5
<1> QED
    BY <1>1, <1>6 DEF S

LEMMA CutStays ==
    ASSUME NEW v, NEW u, NEW u2, NEW max, Cut(v, u, max), v.left = 0, Longer(u, u2)
    PROVE  Cut(v, u2, max)
<1>1. Len(v.text) \in Nat /\ Len(u.text) \in Nat /\ Len(u2.text) \in Nat /\ v.left \in Nat
    BY WriterFields DEF Cut, Longer
<1> QED
    BY <1>1 DEF Cut, Longer

LEMMA CutPut ==
    ASSUME NEW v, NEW u, NEW max, Cut(v, u, max), NEW t \in Seq(Byte)
    PROVE  Cut(Put(v, t), Put(u, t), max)
<1> DEFINE p == Put(v, t)
           q == Put(u, t)
           n == IF v.left < Len(t) THEN v.left ELSE Len(t)
           a == Len(v.text)
           b == Len(u.text)
           l == Len(t)
<1>1. v \in Writer /\ u \in Writer /\ v.limited /\ ~u.limited
    BY DEF Cut
<1>2. a \in Nat /\ b \in Nat /\ l \in Nat /\ v.left \in Nat
    BY <1>1, WriterFields
<1>3. /\ p \in Writer /\ p.limited = v.limited
      /\ Len(p.text) = a + n
      /\ \A i \in 1 .. a : p.text[i] = v.text[i]
      /\ \A i \in 1 .. n : p.text[a + i] = t[i]
      /\ p.left = v.left - n
      /\ ~p.open => p.left = 0
  <2>1. n = IF v.limited /\ v.left < Len(t) THEN v.left ELSE Len(t)
      BY <1>1
  <2> HIDE DEF n
  <2> QED
      BY <1>1, <2>1, PutIs
<1>4. /\ q \in Writer /\ q.limited = u.limited
      /\ Len(q.text) = b + l
      /\ \A i \in 1 .. b : q.text[i] = u.text[i]
      /\ \A i \in 1 .. l : q.text[b + i] = t[i]
      /\ q.open
    BY <1>1, PutIs
<1>5. v.left + a = max /\ a <= b /\ (v.left > 0 => a = b) /\ \A i \in 1 .. a : v.text[i] = u.text[i]
    BY DEF Cut
<1>6. n \in Nat /\ n <= l /\ n <= v.left /\ (v.left - n > 0 => n = l)
    BY <1>2
<1> HIDE DEF p, q, n, a, b, l
<1>7. p.left + Len(p.text) = max /\ Len(p.text) <= Len(q.text)
      /\ (p.left > 0 => Len(p.text) = Len(q.text))
    BY <1>2, <1>3, <1>4, <1>5, <1>6
<1>8. ASSUME NEW i \in 1 .. a + n PROVE p.text[i] = q.text[i]
  <2>1. CASE i \in 1 .. a
    <3>1. i \in 1 .. b
        BY <1>2, <1>5, <2>1
    <3> QED
        BY <1>3, <1>4, <1>5, <2>1, <3>1
  <2>2. CASE i \notin 1 .. a
    <3>1. v.left > 0 /\ a = b /\ i - a \in 1 .. n /\ i - a \in 1 .. l /\ a + (i - a) = i
        BY <1>2, <1>5, <1>6, <2>2
    <3>2. p.text[a + (i - a)] = t[i - a] /\ q.text[b + (i - a)] = t[i - a]
        BY <1>3, <1>4, <3>1
    <3> QED
        BY <3>1, <3>2
  <2> QED
      BY <2>1, <2>2
<1>9. Cut(p, q, max)
    BY <1>1, <1>3, <1>4, <1>7, <1>8 DEF Cut
<1> QED
    BY <1>9 DEF p, q

LEMMA CutItem ==
    ASSUME NEW v, NEW u, NEW max, Cut(v, u, max), NEW texts \in Seq(Seq(Byte))
    PROVE  Cut(PutItem(v, texts), PutItem(u, texts), max)
<1> DEFINE n == Len(texts)
<1>1. v \in Writer /\ u \in Writer
    BY DEF Cut
<1>2. PICK f \in [0 .. n -> Writer] :
              /\ f[0] = [v EXCEPT !.open = TRUE] /\ f[n] = PutItem(v, texts)
              /\ \A k \in 1 .. n : f[k] = IF f[k - 1].open THEN Put(f[k - 1], texts[k]) ELSE f[k - 1]
    BY <1>1, PutItemIs
<1>3. PICK g \in [0 .. n -> Writer] :
              /\ g[0] = [u EXCEPT !.open = TRUE] /\ g[n] = PutItem(u, texts)
              /\ \A k \in 1 .. n : g[k] = IF g[k - 1].open THEN Put(g[k - 1], texts[k]) ELSE g[k - 1]
    BY <1>1, PutItemIs
<1>4. n \in Nat /\ \A k \in 1 .. n : texts[k] \in Seq(Byte)
    OBVIOUS
<1> HIDE DEF n
<1> DEFINE S == {k \in 0 .. n : Cut(f[k], g[k], max)}
<1>5. 0 \in S
  <2>1. /\ f[0] \in Writer /\ f[0].text = v.text /\ f[0].limited = v.limited /\ f[0].open
        /\ f[0].left = v.left
      BY <1>1, <1>2, <1>4 DEF Writer
  <2>2. /\ g[0] \in Writer /\ g[0].text = u.text /\ g[0].limited = u.limited /\ g[0].open
      BY <1>1, <1>3, <1>4 DEF Writer
  <2>3. Cut(f[0], g[0], max)
      BY <2>1, <2>2 DEF Cut
  <2> QED
      BY <1>4, <2>3
<1>6. ASSUME NEW k \in 1 .. n, k - 1 \in S PROVE k \in S
  <2>1. Cut(f[k - 1], g[k - 1], max) /\ k \in 0 .. n
      BY <1>6
  <2>2. g[k - 1] \in Writer /\ ~g[k - 1].limited /\ g[k - 1].open
      BY <2>1 DEF Cut
  <2>3. g[k] = Put(g[k - 1], texts[k])
      BY <1>3, <2>2
  <2>4. CASE f[k - 1].open
    <3>1. Cut(Put(f[k - 1], texts[k]), Put(g[k - 1], texts[k]), max)
        BY <1>4, <2>1, CutPut
    <3> QED
        BY <1>2, <2>1, <2>3, <2>4, <3>1
  <2>5. CASE ~f[k - 1].open
    <3>1. f[k - 1].left = 0
        BY <2>1, <2>5 DEF Cut
    <3>2. Longer(g[k - 1], g[k])
        BY <1>4, <2>2, <2>3, PutLonger
    <3>3. Cut(f[k - 1], g[k], max)
        BY <2>1, <3>1, <3>2, CutStays
    <3> QED
        BY <1>2, <2>1, <2>5, <3>3
  <2> QED
      BY <2>4, <2>5
<1> HIDE DEF S
<1>7. \A k \in 0 .. n : k \in S
    BY <1>4, <1>5, <1>6, RangeInduction
<1>8. n \in S
    BY <1>4, <1>7
<1> QED
    BY <1>2, <1>3, <1>8 DEF S

LEMMA CutItems ==
    ASSUME NEW v, NEW u, NEW max, Cut(v, u, max), NEW items \in Seq(Seq(Seq(Byte)))
    PROVE  Cut(PutItems(v, items).w, PutItems(u, items).w, max)
<1> DEFINE n == Len(items)
<1>1. v \in Writer /\ u \in Writer
    BY DEF Cut
<1>2. PICK f \in [0 .. n -> Count] :
              /\ f[0] = [w |-> v, n |-> 0, stop |-> FALSE] /\ f[n] = PutItems(v, items)
              /\ \A k \in 1 .. n :
                    f[k] = IF f[k - 1].stop THEN f[k - 1]
                           ELSE [w |-> PutItem(f[k - 1].w, items[k]), n |-> f[k - 1].n + 1,
                                 stop |-> ~PutItem(f[k - 1].w, items[k]).open]
    BY <1>1, PutItemsIs
<1>3. PICK g \in [0 .. n -> Count] :
              /\ g[0] = [w |-> u, n |-> 0, stop |-> FALSE] /\ g[n] = PutItems(u, items)
              /\ \A k \in 1 .. n :
                    g[k] = IF g[k - 1].stop THEN g[k - 1]
                           ELSE [w |-> PutItem(g[k - 1].w, items[k]), n |-> g[k - 1].n + 1,
                                 stop |-> ~PutItem(g[k - 1].w, items[k]).open]
    BY <1>1, PutItemsIs
<1>4. n \in Nat /\ \A k \in 1 .. n : items[k] \in Seq(Seq(Byte))
    OBVIOUS
<1> HIDE DEF n
<1> DEFINE S == {k \in 0 .. n : /\ Cut(f[k].w, g[k].w, max) /\ ~g[k].stop
                                /\ f[k].stop => f[k].w.left = 0}
<1>5. 0 \in S
    BY <1>2, <1>3, <1>4
<1>6. ASSUME NEW k \in 1 .. n, k - 1 \in S PROVE k \in S
  <2> DEFINE x == f[k - 1].w
             y == g[k - 1].w
             i == items[k]
  <2>1. /\ Cut(x, y, max) /\ ~g[k - 1].stop /\ k \in 0 .. n
        /\ f[k - 1].stop => x.left = 0
      BY <1>6
  <2>2. y \in Writer /\ ~y.limited /\ i \in Seq(Seq(Byte))
      BY <1>4, <2>1 DEF Cut
  <2>3. g[k].w = PutItem(y, i) /\ (g[k].stop <=> ~PutItem(y, i).open)
    <3> DEFINE closed == ~PutItem(y, i).open
    <3>1. g[k] = [w |-> PutItem(y, i), n |-> g[k - 1].n + 1, stop |-> closed]
        BY <1>3, <2>1
    <3> HIDE DEF closed
    <3>2. g[k].w = PutItem(y, i) /\ g[k].stop = closed
        BY <3>1
    <3> QED
        BY <3>2 DEF closed
  <2>4. CASE f[k - 1].stop
    <3>1. f[k] = f[k - 1] /\ x.left = 0
        BY <1>2, <2>1, <2>4
    <3>2. Longer(y, PutItem(y, i))
        BY <2>2, PutItemLonger
    <3>3. Cut(x, PutItem(y, i), max) /\ PutItem(y, i).open
        BY <2>1, <3>1, <3>2, CutStays DEF Longer
    <3> QED
        BY <2>1, <2>3, <3>1, <3>3
  <2>5. CASE ~f[k - 1].stop
    <3>1. f[k].w = PutItem(x, i) /\ (f[k].stop <=> ~PutItem(x, i).open)
      <4> DEFINE closed == ~PutItem(x, i).open
      <4>1. f[k] = [w |-> PutItem(x, i), n |-> f[k - 1].n + 1, stop |-> closed]
          BY <1>2, <2>5
      <4> HIDE DEF closed
      <4>2. f[k].w = PutItem(x, i) /\ f[k].stop = closed
          BY <4>1
      <4> QED
          BY <4>2 DEF closed
    <3>2. Cut(PutItem(x, i), PutItem(y, i), max)
        BY <2>1, <2>2, CutItem
    <3>3. PutItem(y, i).open /\ (~PutItem(x, i).open => PutItem(x, i).left = 0)
        BY <3>2 DEF Cut
    <3> HIDE DEF x, y, i
    <3> QED
        BY <2>1, <2>3, <3>1, <3>2, <3>3
  <2> QED
      BY <2>4, <2>5
<1> HIDE DEF S
<1>7. \A k \in 0 .. n : k \in S
    BY <1>4, <1>5, <1>6, RangeInduction
<1>8. n \in S
    BY <1>4, <1>7
<1> QED
    BY <1>2, <1>3, <1>8 DEF S

LEMMA CutText ==
    ASSUME NEW v, NEW u, NEW max \in Nat, Cut(v, u, max)
    PROVE  v.text = FirstBytes(u.text, max)
<1> DEFINE r == FirstBytes(u.text, max)
           a == Len(v.text)
<1>1. v \in Writer /\ u \in Writer
    BY DEF Cut
<1>2. /\ v.text \in Seq(Byte) /\ u.text \in Seq(Byte) /\ a \in Nat /\ Len(u.text) \in Nat
      /\ v.left \in Nat
    BY <1>1, WriterFields
<1>3. /\ r \in Seq(Byte) /\ Len(r) = IF Len(u.text) < max THEN Len(u.text) ELSE max
      /\ \A i \in 1 .. Len(r) : r[i] = u.text[i]
    BY <1>2, FirstBytesAre
<1>4. /\ v.left + a = max /\ a <= Len(u.text) /\ (v.left > 0 => a = Len(u.text))
      /\ \A i \in 1 .. a : v.text[i] = u.text[i]
    BY DEF Cut
<1> HIDE DEF r, a
<1>5. Len(r) = a
    BY <1>2, <1>3, <1>4
<1> DEFINE t == v.text
<1>6. t \in Seq(Byte) /\ Len(t) = a /\ \A i \in 1 .. a : t[i] = r[i]
    BY <1>2, <1>3, <1>4, <1>5 DEF a
<1> HIDE DEF t
<1>7. t = [i \in 1 .. a |-> t[i]] /\ r = [i \in 1 .. a |-> r[i]]
    BY <1>3, <1>5, <1>6
<1>8. t = r
    BY <1>6, <1>7
<1> QED
    BY <1>8 DEF t, r

\* r is items without its first d elements.
Without(r, items, d) == /\ d \in Nat /\ Len(r) + d = Len(items)
                        /\ \A i \in 1 .. Len(r) : r[i] = items[d + i]

LEMMA LastItemsAre ==
    ASSUME NEW S, NEW max \in Nat, NEW items \in Seq(S)
    PROVE  /\ LastItems(max, items) \in Seq(S)
           /\ \E d : Without(LastItems(max, items), items, d)
<1> DEFINE n == Len(items)
           d == n - max
           r == SubSeq(items, d + 1, n)
<1>1. n \in Nat /\ \A i \in 1 .. n : items[i] \in S
    BY ElementOfSeq
<1>2. CASE max > 0 /\ n > max
  <2>1. d \in Nat /\ d + 1 \in Int /\ n \in Int /\ \A i \in d + 1 .. n : items[i] \in S
      BY <1>1, <1>2
  <2>2. /\ r \in Seq(S) /\ Len(r) = IF d + 1 <= n THEN n - (d + 1) + 1 ELSE 0
        /\ \A i \in 1 .. n - (d + 1) + 1 : r[i] = items[(d + 1) + i - 1]
    <3> HIDE DEF d, n
    <3> QED
        BY <2>1, SubSeqProperties
  <2>3. LastItems(max, items) = r
      BY <1>2 DEF LastItems
  <2> HIDE DEF r
  <2>4. Len(r) + d = n /\ Len(r) \in Nat
      BY <1>1, <1>2, <2>2
  <2>5. ASSUME NEW i \in 1 .. Len(r) PROVE r[i] = items[d + i]
    <3>1. i \in 1 .. n - (d + 1) + 1 /\ (d + 1) + i - 1 = d + i
        BY <1>1, <2>1, <2>4
    <3> HIDE DEF d, n
    <3> QED
        BY <2>2, <3>1
  <2> HIDE DEF d
  <2>6. Without(r, items, d)
      BY <2>1, <2>4, <2>5 DEF Without
  <2> QED
      BY <2>2, <2>3, <2>6, Zenon
<1>3. CASE ~(max > 0 /\ n > max)
  <2>1. LastItems(max, items) = items
      BY <1>3 DEF LastItems
  <2>2. Without(items, items, 0)
      BY <1>1 DEF Without
  <2> QED
      BY <2>1, <2>2, Zenon
<1> QED
    BY <1>2, <1>3

LEMMA LinesType ==
    ASSUME NEW kind \in Kinds, NEW n \in Nat
    PROVE  Lines(kind, n) \in Seq(Seq(Seq(Byte))) /\ Len(Lines(kind, n)) = n
<1> DEFINE item(i) == << Piece(kind, i, 1) >>
           lines1 == [i \in 1 .. n |-> item(i)]
<1>1. \A i \in 1 .. n : item(i) \in Seq(Seq(Byte))
    BY PieceType
<1>2. lines1 = Lines(kind, n)
    BY DEF Lines
<1> HIDE DEF item
<1>3. lines1 \in Seq(Seq(Seq(Byte))) /\ Len(lines1) = n
    BY <1>1
<1> HIDE DEF lines1
<1> QED
    BY <1>2, <1>3

-----------------------------------------------------------------------------
(* LimitedText: gatherFeedback *)

Gathering == [w : Writer, counts : Seq(Nat), returned : BOOLEAN]

\* As Cut, for what gatherFeedback has built with a limit and without one.
CutOff(s, r, max) ==
    /\ s \in Gathering /\ r \in Gathering
    /\ Cut(s.w, r.w, max) /\ ~r.returned /\ (s.returned => s.w.left = 0)

LEMMA CutSection ==
    ASSUME NEW s, NEW r, NEW max, CutOff(s, r, max),
           NEW heading \in Seq(Byte), NEW items \in Seq(Seq(Seq(Byte)))
    PROVE  CutOff(Section(s, heading, items), Section(r, heading, items), max)
<1>1. CASE items = <<>>
    BY <1>1 DEF Section
<1>2. CASE items # <<>>
  <2> DEFINE x == Put(s.w, heading)
             y == Put(r.w, heading)
             p == PutItems(x, items)
             q == PutItems(y, items)
  <2>1. /\ Cut(s.w, r.w, max) /\ ~r.returned /\ (s.returned => s.w.left = 0)
        /\ s \in Gathering /\ r \in Gathering
      BY DEF CutOff
  <2>2. Cut(x, y, max)
      BY <2>1, CutPut
  <2>3. Cut(p.w, q.w, max)
      BY <2>2, CutItems
  <2>4. /\ x \in Writer /\ y \in Writer /\ ~y.limited /\ y.open /\ (~x.open => x.left = 0)
        /\ r.w \in Writer /\ ~r.w.limited
      BY <2>1, <2>2 DEF Cut
  <2>5. p \in Count /\ q \in Count
      BY <2>4, PutItemsType
  <2>6. Longer(r.w, y) /\ Longer(y, q.w)
      BY <2>4, PutLonger, PutItemsLonger
  <2>7. Longer(r.w, q.w)
      BY <2>6, LongerChain
  <2>8. Section(r, heading, items) = [r EXCEPT !.w = q.w, !.counts = Append(r.counts, q.n)]
      BY <1>2, <2>1, <2>4 DEF Section
  <2> DEFINE r2 == Section(r, heading, items)
             s2 == Section(s, heading, items)
             more == Append(r.counts, q.n)
             less == Append(s.counts, p.n)
  <2>9. more \in Seq(Nat) /\ less \in Seq(Nat)
      BY <2>1, <2>5 DEF Gathering, Count
  <2>10. p.w \in Writer /\ q.w \in Writer
      BY <2>5 DEF Count
  <2>11. CASE s.returned
    <3>1. s2 = s
        BY <2>11 DEF Section
    <3>2. Cut(s.w, q.w, max)
        BY <2>1, <2>7, <2>11, CutStays
    <3> HIDE DEF x, y, p, q, r2, s2, more
    <3>3. r2 \in Gathering /\ r2.w = q.w /\ r2.returned = r.returned
        BY <2>1, <2>8, <2>9, <2>10 DEF Gathering, r2, more
    <3>4. CutOff(s, r2, max)
        BY <2>1, <3>2, <3>3 DEF CutOff
    <3> QED
        BY <3>1, <3>4 DEF r2, s2
  <2>12. CASE ~s.returned /\ x.open
    <3>1. s2 = [s EXCEPT !.w = p.w, !.counts = Append(s.counts, p.n)]
        BY <1>2, <2>12 DEF Section
    <3> HIDE DEF x, y, p, q, r2, s2, more, less
    <3>2. r2 \in Gathering /\ r2.w = q.w /\ r2.returned = r.returned
        BY <2>1, <2>8, <2>9, <2>10 DEF Gathering, r2, more
    <3>3. s2 \in Gathering /\ s2.w = p.w /\ s2.returned = s.returned
        BY <2>1, <2>9, <2>10, <3>1 DEF Gathering, less
    <3>4. CutOff(s2, r2, max)
        BY <2>1, <2>3, <2>12, <3>2, <3>3 DEF CutOff
    <3> QED
        BY <3>4 DEF r2, s2
  <2>13. CASE ~s.returned /\ ~x.open
    <3>1. s2 = [s EXCEPT !.w = x, !.returned = TRUE]
        BY <1>2, <2>13 DEF Section
    <3>2. Cut(x, q.w, max)
        BY <2>2, <2>4, <2>6, <2>13, CutStays
    <3> HIDE DEF x, y, p, q, r2, s2, more, less
    <3>3. r2 \in Gathering /\ r2.w = q.w /\ r2.returned = r.returned
        BY <2>1, <2>8, <2>9, <2>10 DEF Gathering, r2, more
    <3>4. s2 \in Gathering /\ s2.w = x /\ s2.returned
        BY <2>1, <2>4, <3>1 DEF Gathering
    <3>5. CutOff(s2, r2, max)
        BY <2>1, <2>4, <2>13, <3>2, <3>3, <3>4 DEF CutOff
    <3> QED
        BY <3>5 DEF r2, s2
  <2> QED
      BY <2>11, <2>12, <2>13
<1> QED
    BY <1>1, <1>2

LEMMA InjectedType ==
    ASSUME NEW mode \in Modes, NEW kind \in Kinds, NEW nr \in Nat, NEW n \in Nat
    PROVE  Injected(mode, kind, nr, n) \in Seq(Seq(Byte))
<1>1. CASE mode = "inline"
  <2>1. Injected(mode, kind, nr, n) = << Piece(kind, nr, n) >>
      BY <1>1 DEF Injected
  <2> QED
      BY <2>1, PieceType
<1>2. CASE mode = "summary_ref"
  <2> DEFINE m == IF n > 0 THEN 1 ELSE 0
  <2>1. Injected(mode, kind, nr, n) = << Piece(kind, nr, m) >>
      BY <1>2 DEF Injected
  <2>2. m \in Nat
      OBVIOUS
  <2> HIDE DEF m
  <2> QED
      BY <2>1, <2>2, PieceType
<1>3. CASE mode = "ref_only"
  <2>1. Injected(mode, kind, nr, n) = <<>>
      BY <1>3 DEF Injected
  <2> QED
      BY <2>1
<1> QED
    BY <1>1, <1>2, <1>3 DEF Modes

LEMMA EndingType ==
    ASSUME NEW mode \in Modes, NEW nr \in Nat
    PROVE  Ending(mode, nr) \in Seq(Byte)
<1>1. Piece("end", nr, 1) \in Seq(Byte) /\ Piece("file", nr, 1) \in Seq(Byte)
    BY PieceType DEF Kinds
<1> QED
    BY <1>1 DEF Ending, FileLine

LEMMA DocumentsType ==
    ASSUME NEW ref \in Seq(Seq(Byte)), NEW mode \in Modes, NEW docs \in Seq(Nat)
    PROVE  Documents(ref, mode, docs) \in Seq(Seq(Seq(Byte)))
<1> DEFINE first(i) == IF i = 1 THEN ref ELSE <<>>
           title(i) == << Piece("title", i, 1) >>
           text(i) == Injected(mode, "memory", i, docs[i])
           end(i) == << Ending(mode, i) >>
           item(i) == first(i) \o title(i) \o text(i) \o end(i)
           n == Len(docs)
           all == [i \in 1 .. n |-> item(i)]
<1>1. n \in Nat /\ DOMAIN docs = 1 .. n
    OBVIOUS
<1>2. ASSUME NEW i \in 1 .. n PROVE item(i) \in Seq(Seq(Byte))
  <2>1. i \in Nat /\ docs[i] \in Nat /\ "memory" \in Kinds /\ "title" \in Kinds
      BY <1>1, ElementOfSeq DEF Kinds
  <2>2. first(i) \in Seq(Seq(Byte))
      OBVIOUS
  <2>3. title(i) \in Seq(Seq(Byte))
      BY <2>1, PieceType
  <2>4. text(i) \in Seq(Seq(Byte))
      BY <2>1, InjectedType
  <2>5. end(i) \in Seq(Seq(Byte))
    <3>1. Ending(mode, i) \in Seq(Byte)
        BY <2>1, EndingType
    <3> QED
        BY <3>1
  <2> HIDE DEF first, title, text, end
  <2> QED
      BY <2>2, <2>3, <2>4, <2>5
<1>3. Documents(ref, mode, docs) = all
    BY <1>1, Zenon DEF Documents
<1> HIDE DEF item, n
<1>4. all \in Seq(Seq(Seq(Byte)))
    BY <1>1, <1>2
<1> HIDE DEF all
<1> QED
    BY <1>3, <1>4

LEMMA CutSnapshot ==
    ASSUME NEW s, NEW r, NEW max, CutOff(s, r, max), ~s.returned,
           NEW ref \in Seq(Seq(Byte)), NEW mode \in Modes, NEW shot \in Seq(Byte)
    PROVE  CutOff(ResumeSnapshot(s, ref, mode, shot), ResumeSnapshot(r, ref, mode, shot), max)
<1> DEFINE texts == ref \o << Piece("heading", 1, 1) >> \o Injected(mode, "snapshot", 1, Len(shot))
           end == Ending(mode, 0)
           x == PutItem(s.w, texts)
           y == PutItem(r.w, texts)
           s2 == ResumeSnapshot(s, ref, mode, shot)
           r2 == ResumeSnapshot(r, ref, mode, shot)
<1>1. texts \in Seq(Seq(Byte))
  <2>1. "heading" \in Kinds /\ "snapshot" \in Kinds /\ Len(shot) \in Nat
      BY DEF Kinds
  <2>2. << Piece("heading", 1, 1) >> \in Seq(Seq(Byte))
      BY <2>1, PieceType
  <2>3. Injected(mode, "snapshot", 1, Len(shot)) \in Seq(Seq(Byte))
      BY <2>1, InjectedType
  <2> QED
      BY <2>2, <2>3
<1>2. end \in Seq(Byte)
    BY EndingType
<1>3. CASE shot = NoText
    BY <1>3 DEF ResumeSnapshot
<1>4. CASE shot # NoText
  <2>1. /\ r2 = IF y.open THEN [r EXCEPT !.w = Put(y, end)] ELSE [r EXCEPT !.w = y, !.returned = TRUE]
        /\ s2 = IF x.open THEN [s EXCEPT !.w = Put(x, end)] ELSE [s EXCEPT !.w = x, !.returned = TRUE]
      BY <1>4, Zenon DEF ResumeSnapshot
  <2> HIDE DEF texts, end, r2, s2
  <2>2. Cut(x, y, max)
      BY <1>1, CutItem DEF CutOff
  <2> HIDE DEF x, y
  <2>3. x \in Writer /\ y \in Writer /\ y.open /\ ~y.limited /\ (~x.open => x.left = 0)
      BY <2>2 DEF Cut
  <2>4. Cut(Put(x, end), Put(y, end), max) /\ Longer(y, Put(y, end))
      BY <1>2, <2>2, <2>3, CutPut, PutLonger
  <2>5. Put(x, end) \in Writer /\ Put(y, end) \in Writer
      BY <2>4 DEF Cut
  <2>6. r \in Gathering /\ ~r.returned /\ s \in Gathering
      BY DEF CutOff
  <2>7. r2 \in Gathering /\ r2.w = Put(y, end) /\ r2.returned = r.returned
      BY <2>1, <2>3, <2>5, <2>6 DEF Gathering
  <2>8. CASE x.open
    <3>1. s2 \in Gathering /\ s2.w = Put(x, end) /\ s2.returned = s.returned
        BY <2>1, <2>5, <2>6, <2>8 DEF Gathering
    <3>2. CutOff(s2, r2, max)
        BY <2>4, <2>6, <2>7, <3>1 DEF CutOff
    <3> QED
        BY <3>2 DEF s2, r2
  <2>9. CASE ~x.open
    <3>1. s2 \in Gathering /\ s2.w = x /\ s2.returned
        BY <2>1, <2>3, <2>6, <2>9 DEF Gathering
    <3>2. Cut(x, Put(y, end), max)
        BY <2>2, <2>3, <2>4, <2>9, CutStays
    <3>3. CutOff(s2, r2, max)
        BY <2>3, <2>6, <2>7, <2>9, <3>1, <3>2 DEF CutOff
    <3> QED
        BY <3>3 DEF s2, r2
  <2> QED
      BY <2>8, <2>9
<1> QED
    BY <1>3, <1>4

\* The feedback with a limit is cut off the feedback without one.
LEMMA CutGathered ==
    ASSUME NEW max \in Nat \ {0}, NEW mode1 \in Modes, NEW mode2 \in Modes,
           NEW shot \in Seq(Byte), NEW docs \in Seq(Nat), NEW events \in Nat, NEW artifacts \in Nat
    PROVE  CutOff(Gathered(max, mode1, mode2, shot, docs, events, artifacts),
                  Gathered(0, mode1, mode2, shot, docs, events, artifacts), max)
<1> DEFINE ref == IF {mode1, mode2} = {"inline"} THEN <<>> ELSE << Piece("ref", 1, 1) >>
           start == [w |-> NewLimitWriter(max), counts |-> <<>>, returned |-> FALSE]
           start0 == [w |-> NewLimitWriter(0), counts |-> <<>>, returned |-> FALSE]
           s1 == ResumeSnapshot(start, ref, mode1, shot)
           r1 == ResumeSnapshot(start0, ref, mode1, shot)
           ref2 == IF shot = NoText THEN ref ELSE <<>>
           d == Documents(ref2, mode2, docs)
           s2 == Section(s1, <<>>, d)
           r2 == Section(r1, <<>>, d)
           h2 == Piece("heading", 2, 1)
           h3 == Piece("heading", 3, 1)
           e == Lines("event", events)
           a == Lines("artifact", artifacts)
           s3 == Section(s2, h2, e)
           r3 == Section(r2, h2, e)
<1>1. ref \in Seq(Seq(Byte))
  <2>1. << Piece("ref", 1, 1) >> \in Seq(Seq(Byte))
      BY PieceType DEF Kinds
  <2> QED
      BY <2>1
<1>2. ref2 \in Seq(Seq(Byte))
    BY <1>1
<1>3. d \in Seq(Seq(Seq(Byte)))
    BY <1>2, DocumentsType
<1>4. h2 \in Seq(Byte) /\ h3 \in Seq(Byte) /\ <<>> \in Seq(Byte)
  <2>1. "heading" \in Kinds
      BY DEF Kinds
  <2> QED
      BY <2>1, PieceType
<1>5. e \in Seq(Seq(Seq(Byte))) /\ a \in Seq(Seq(Seq(Byte)))
    BY LinesType DEF Kinds
<1>6. CutOff(start, start0, max) /\ ~start.returned
  <2> DEFINE v == NewLimitWriter(max)
             u == NewLimitWriter(0)
  <2>1. /\ v \in Writer /\ v.text = <<>> /\ v.limited /\ v.open /\ v.left = max
        /\ u \in Writer /\ u.text = <<>> /\ ~u.limited /\ u.open
    <3>1. max \in Nat /\ 0 \in Nat /\ max > 0 /\ ~(0 > 0)
        OBVIOUS
    <3> QED
        BY <3>1, NewWriter
  <2> HIDE DEF v, u
  <2>2. Cut(v, u, max)
      BY <2>1 DEF Cut
  <2>3. /\ start \in Gathering /\ start.w = v /\ ~start.returned
        /\ start0 \in Gathering /\ start0.w = u /\ ~start0.returned
      BY <2>1 DEF Gathering, v, u
  <2> HIDE DEF start, start0
  <2> QED
      BY <2>2, <2>3 DEF CutOff
<1>7. /\ Gathered(max, mode1, mode2, shot, docs, events, artifacts) = Section(s3, h3, a)
      /\ Gathered(0, mode1, mode2, shot, docs, events, artifacts) = Section(r3, h3, a)
    BY Zenon DEF Gathered
<1> HIDE DEF ref, start, start0, ref2, d, h2, h3, e, a
<1>8. CutOff(s1, r1, max)
    BY <1>1, <1>6, CutSnapshot
<1> HIDE DEF s1, r1
<1>9. CutOff(s2, r2, max)
    BY <1>3, <1>4, <1>8, CutSection
<1> HIDE DEF s2, r2
<1>10. CutOff(s3, r3, max)
    BY <1>4, <1>5, <1>9, CutSection
<1> HIDE DEF s3, r3
<1>11. CutOff(Section(s3, h3, a), Section(r3, h3, a), max)
    BY <1>4, <1>5, <1>10, CutSection
<1> QED
    BY <1>7, <1>11
-----------------------------------------------------------------------------
(* RunArchive: the budget *)

LEMMA OptionTypes ==
    ASSUME ArchiveConfig, opts \in Settings
    PROVE  /\ opts.maxBytes \in Nat /\ opts.maxEvents \in Nat /\ opts.maxArtifacts \in Nat
           /\ opts.snapshotMode \in Modes /\ opts.memoryMode \in Modes
           /\ Docs \in Seq(Nat) /\ MaxLog \in Nat /\ NewEvents \in Nat
<1> QED
    BY DEF ArchiveConfig, Setting

ToBudget(text) == IF opts.maxBytes > 0 THEN FirstBytes(text, opts.maxBytes) ELSE text

PromptIsCut(p) ==
    /\ p.bytes \in {0, Len(p.text)}
    /\ p.bytes = 0 => Len(p.text) \in {0, opts.maxBytes}
    /\ content # None => p.text = ToBudget(Feedback(0).text)

LEMMA FeedbackIsCut ==
    ASSUME ArchiveConfig, opts \in Settings, content = None \/ content \in Seq(Byte)
    PROVE  PromptIsCut(Feedback(opts.maxBytes))
<1> DEFINE shot == IF content = None THEN NoText ELSE content
           docs == IF "memory" \in opts.sources THEN Docs ELSE <<>>
           events == IF "events" \in opts.sources
                     THEN Len(LastItems(opts.maxEvents, Lines("events", NewEvents))) ELSE 0
           max == opts.maxBytes
           m1 == opts.snapshotMode
           m2 == opts.memoryMode
           s == Gathered(max, m1, m2, shot, docs, events, 0)
           r == Gathered(0, m1, m2, shot, docs, events, 0)
           one == Gathered(1, m1, m2, shot, docs, events, 0)
           p == Feedback(max)
           q == Feedback(0)
<1>1. max \in Nat /\ m1 \in Modes /\ m2 \in Modes
    BY OptionTypes
<1>2. shot \in Seq(Byte) /\ docs \in Seq(Nat)
    BY OptionTypes DEF NoText
<1>3. events \in Nat
  <2>1. Lines("events", NewEvents) \in Seq(Seq(Seq(Byte)))
      BY OptionTypes, LinesType DEF Kinds
  <2>2. LastItems(opts.maxEvents, Lines("events", NewEvents)) \in Seq(Seq(Seq(Byte)))
      BY <2>1, OptionTypes, LastItemsAre
  <2> QED
      BY <2>2
<1>4. /\ p = [text |-> s.w.text, bytes |-> IF s.returned THEN 0 ELSE Len(s.w.text), counts |-> s.counts]
      /\ q = [text |-> r.w.text, bytes |-> IF r.returned THEN 0 ELSE Len(r.w.text), counts |-> r.counts]
    BY Zenon DEF Feedback, GatherFeedback
<1>5. /\ p.text = s.w.text /\ p.bytes = (IF s.returned THEN 0 ELSE Len(s.w.text))
      /\ q.text = r.w.text
  <2> HIDE DEF p, q, s, r
  <2> QED
      BY <1>4
<1> HIDE DEF shot, docs, events, m1, m2, p, q
<1>6. CASE max = 0
  <2>1. CutOff(one, r, 1)
    <3>1. 1 \in Nat \ {0} /\ 0 \in Nat
        OBVIOUS
    <3> HIDE DEF max
    <3> QED
        BY <1>1, <1>2, <1>3, <3>1, CutGathered
  <2>2. ~s.returned /\ s = r
      BY <1>6, <2>1 DEF CutOff
  <2>3. s.w \in Writer
      BY <2>1, <2>2 DEF CutOff, Gathering
  <2>4. Len(s.w.text) \in Nat
      BY <2>3, WriterFields
  <2> HIDE DEF s, r, one
  <2>5. p.bytes = Len(p.text) /\ p.text = q.text
      BY <1>5, <2>2
  <2> QED
      BY <1>6, <2>5 DEF PromptIsCut, ToBudget, p, q
<1>7. CASE max # 0
  <2>1. CutOff(s, r, max)
    <3>1. max \in Nat \ {0} /\ 0 \in Nat
        BY <1>1, <1>7
    <3> HIDE DEF max
    <3> QED
        BY <1>1, <1>2, <1>3, <3>1, CutGathered
  <2> HIDE DEF s, r
  <2>2. s.w.text = FirstBytes(r.w.text, max)
      BY <1>1, <2>1, CutText DEF CutOff
  <2>3. Len(s.w.text) \in Nat /\ s.w.left \in Nat /\ s.w.left + Len(s.w.text) = max
        /\ (s.returned => s.w.left = 0) /\ s.returned \in BOOLEAN
      BY <2>1, WriterFields DEF CutOff, Cut, Gathering
  <2>4. p.bytes \in {0, Len(p.text)} /\ (p.bytes = 0 => Len(p.text) \in {0, max})
      BY <1>1, <1>5, <2>3
  <2>5. max > 0
      BY <1>1, <1>7
  <2> QED
      BY <1>5, <2>2, <2>4, <2>5 DEF PromptIsCut, ToBudget, p, q
<1> QED
    BY <1>6, <1>7

\* The writer of a snapshot and what it would hold without a limit, while it is written.
InStep(v, u) == IF opts.maxBytes > 0 THEN Cut(v, u, opts.maxBytes) ELSE v \in Writer /\ v = u

\* Inductive, with ArchiveTypes.
BudgetInv ==
    /\ w \in Writer /\ listed \in Seq(Texts \cup Others)
    /\ w.text = ToBudget(whole.text)
    /\ cmd \in {"memory", "events", "artifacts", "texts"} => InStep(w, whole)
    /\ next = "prompted" => PromptIsCut(prompt)

LEMMA InStepIsCut ==
    ASSUME ArchiveConfig, opts \in Settings, NEW v, NEW u, InStep(v, u)
    PROVE  v \in Writer /\ v.text = ToBudget(u.text)
<1>1. opts.maxBytes \in Nat
    BY OptionTypes
<1>2. CASE opts.maxBytes > 0
    BY <1>1, <1>2, CutText DEF InStep, ToBudget, Cut
<1>3. CASE ~(opts.maxBytes > 0)
    BY <1>3 DEF InStep, ToBudget
<1> QED
    BY <1>2, <1>3

LEMMA PutInStep ==
    ASSUME NEW v, NEW u, InStep(v, u), NEW t \in Seq(Byte)
    PROVE  InStep(Put(v, t), Put(u, t))
<1>1. CASE opts.maxBytes > 0
    BY <1>1, CutPut DEF InStep
<1>2. CASE ~(opts.maxBytes > 0)
    BY <1>2, PutIs DEF InStep
<1> QED
    BY <1>1, <1>2

LEMMA PutItemsInStep ==
    ASSUME NEW v, NEW u, InStep(v, u), NEW items \in Seq(Seq(Seq(Byte)))
    PROVE  InStep(PutItems(v, items).w, PutItems(u, items).w)
<1>1. CASE opts.maxBytes > 0
    BY <1>1, CutItems DEF InStep
<1>2. CASE ~(opts.maxBytes > 0)
  <2>1. v \in Writer /\ u = v
      BY <1>2 DEF InStep
  <2>2. PutItems(v, items).w \in Writer
      BY <2>1, PutItemsType DEF Count
  <2> QED
      BY <1>2, <2>1, <2>2 DEF InStep
<1> QED
    BY <1>1, <1>2

LEMMA WriteInStep ==
    ASSUME InStep(w, whole), NEW source, NEW heading \in Seq(Byte), NEW end \in Seq(Byte),
           NEW items \in Seq(Seq(Seq(Byte))), Write(source, heading, items, end), opts' = opts
    PROVE  InStep(w', whole')
<1> DEFINE a == Put(w, heading)
           b == Put(whole, heading)
           c == PutItems(a, items)
           d == PutItems(b, items)
<1>1. InStep(a, b)
    BY PutInStep
<1>2. InStep(c.w, d.w)
    BY <1>1, PutItemsInStep
<1>3. InStep(Put(c.w, end), Put(d.w, end))
    BY <1>2, PutInStep
<1>4. \/ w' = w /\ whole' = whole
      \/ w' = Put(c.w, end) /\ whole' = Put(d.w, end)
    BY Zenon DEF Write
<1> HIDE DEF c, d
<1> QED
    BY <1>3, <1>4 DEF InStep

LEMMA BudgetFrame ==
    ASSUME BudgetInv, UNCHANGED <<opts, w, whole, listed, prompt>>,
           next' = "prompted" => next = "prompted",
           cmd' \in {"memory", "events", "artifacts", "texts"} => cmd' = cmd,
           next = "prompted" => content' = content \/ content' = None
    PROVE  BudgetInv'
<1>1. w' \in Writer /\ listed' \in Seq(Texts \cup Others) /\ w'.text = ToBudget(whole.text)'
    BY DEF BudgetInv, ToBudget
<1>2. cmd' \in {"memory", "events", "artifacts", "texts"} => InStep(w, whole)'
    BY DEF BudgetInv, InStep
<1>3. next' = "prompted" => PromptIsCut(prompt)'
  <2> SUFFICES ASSUME next' = "prompted" PROVE PromptIsCut(prompt)'
      OBVIOUS
  <2>1. PromptIsCut(prompt) /\ (content' = content \/ content' = None)
      BY DEF BudgetInv
  <2>2. /\ prompt'.bytes \in {0, Len(prompt'.text)}
        /\ prompt'.bytes = 0 => Len(prompt'.text) \in {0, opts'.maxBytes}
      BY <2>1 DEF PromptIsCut
  <2>3. content' # None => prompt'.text = ToBudget(Feedback(0).text)'
    <3> SUFFICES ASSUME content' # None PROVE prompt'.text = ToBudget(Feedback(0).text)'
        OBVIOUS
    <3>1. content' = content /\ prompt.text = ToBudget(Feedback(0).text)
        BY <2>1 DEF PromptIsCut
    <3>2. Feedback(0)' = Feedback(0)
        BY <3>1 DEF Feedback
    <3> QED
        BY <3>1, <3>2 DEF ToBudget
  <2> QED
      BY <2>2, <2>3 DEF PromptIsCut
<1> QED
    BY <1>1, <1>2, <1>3 DEF BudgetInv

\* A step of the command that writes a source.
LEMMA BudgetRead ==
    ASSUME ArchiveConfig, TypeOK, BudgetInv, InStep(w', whole'), listed' \in Seq(Texts \cup Others),
           UNCHANGED <<opts, next>>, cmd # "done"
    PROVE  BudgetInv'
<1>1. opts \in Settings /\ opts' = opts /\ next' # "prompted"
    BY DEF TypeOK
<1>2. w' \in Writer /\ w'.text = ToBudget(whole'.text)
    BY <1>1, InStepIsCut
<1>3. w'.text = ToBudget(whole.text)' /\ InStep(w, whole)'
    BY <1>1, <1>2 DEF ToBudget, InStep
<1> QED
    BY <1>1, <1>2, <1>3 DEF BudgetInv

LEMMA DocsType == ASSUME ArchiveConfig PROVE ListMemoryDocs \in Seq(Seq(Seq(Byte)))
<1> DEFINE n == Len(Docs)
           item(i) == << Piece("memory", i, 1 + Docs[i]) >>
           all == [i \in 1 .. n |-> item(i)]
<1>1. n \in Nat /\ DOMAIN Docs = 1 .. n /\ \A i \in 1 .. n : Docs[i] \in Nat
    BY ElementOfSeq DEF ArchiveConfig
<1>2. ASSUME NEW i \in 1 .. n PROVE item(i) \in Seq(Seq(Byte))
  <2>1. i \in Nat /\ 1 + Docs[i] \in Nat /\ "memory" \in Kinds
      BY <1>1 DEF Kinds
  <2> QED
      BY <2>1, PieceType
<1>3. ListMemoryDocs = all
    BY <1>1 DEF ListMemoryDocs
<1> HIDE DEF item, n
<1>4. all \in Seq(Seq(Seq(Byte)))
    BY <1>1, <1>2
<1> HIDE DEF all
<1> QED
    BY <1>3, <1>4

LEMMA EventsType ==
    ASSUME ArchiveConfig, TypeOK
    PROVE  LastItems(opts.maxEvents, ListEvents) \in Seq(Seq(Seq(Byte)))
<1>1. ListEvents \in Seq(Seq(Seq(Byte)))
  <2>1. CASE log = None
      BY <2>1 DEF ListEvents
  <2>2. CASE log # None
    <3>1. log \in Nat /\ "events" \in Kinds
        BY <2>2 DEF TypeOK, Kinds, ArchiveConfig
    <3>2. Lines("events", log) \in Seq(Seq(Seq(Byte)))
        BY <3>1, LinesType
    <3> QED
        BY <2>2, <3>2 DEF ListEvents
  <2> QED
      BY <2>1, <2>2
<1>2. opts.maxEvents \in Nat
    BY OptionTypes DEF TypeOK
<1> QED
    BY <1>1, <1>2, LastItemsAre

LEMMA ArtifactsType ==
    ASSUME ArchiveConfig, ArchiveTypes
    PROVE  LastItems(opts.maxArtifacts, ListArtifacts) \in Seq(Texts \cup Others)
<1>1. ListArtifacts \in Seq(Texts \cup Others)
    BY DEF ListArtifacts, ArchiveTypes
<1>2. opts.maxArtifacts \in Nat
    BY OptionTypes DEF ArchiveTypes, TypeOK
<1> QED
    BY <1>1, <1>2, LastItemsAre

LEMMA ReadTextsInStep ==
    ASSUME BudgetInv, ReadTexts
    PROVE  InStep(w', whole')
<1> DEFINE isThere(a) == "artifacts" \in opts.sources /\ a \in Texts /\ a \in ToSet(ListArtifacts)
           fenced(i) == << Piece("fence", i, 1), Piece("text", i, 2), Piece("fence", i, 1) >>
           item(i) == IF isThere(listed[i]) THEN fenced(i) ELSE <<>>
           items == [i \in DOMAIN listed |-> item(i)]
           n == Len(listed)
           all == [i \in 1 .. n |-> item(i)]
<1>1. w' = PutItems(w, items).w /\ whole' = PutItems(whole, items).w
    BY Zenon DEF ReadTexts
<1>2. n \in Nat /\ DOMAIN listed = 1 .. n
    BY DEF BudgetInv
<1>3. ASSUME NEW i \in 1 .. n PROVE item(i) \in Seq(Seq(Byte))
  <2>1. i \in Nat /\ "fence" \in Kinds /\ "text" \in Kinds
      BY <1>2 DEF Kinds
  <2>2. Piece("fence", i, 1) \in Seq(Byte) /\ Piece("text", i, 2) \in Seq(Byte)
      BY <2>1, PieceType
  <2>3. fenced(i) \in Seq(Seq(Byte)) /\ <<>> \in Seq(Seq(Byte))
      BY <2>2
  <2> HIDE DEF fenced, isThere
  <2> QED
      BY <2>3
<1>4. items = all
    BY <1>2, Zenon
<1> HIDE DEF item, n, items
<1>5. all \in Seq(Seq(Seq(Byte)))
    BY <1>2, <1>3
<1> HIDE DEF all
<1>6. InStep(w, whole) /\ opts' = opts
    BY DEF BudgetInv, ReadTexts, Files
<1>7. InStep(PutItems(w, all).w, PutItems(whole, all).w)
    BY <1>5, <1>6, PutItemsInStep
<1> QED
    BY <1>1, <1>4, <1>7

LEMMA BudgetStep ==
    ASSUME ArchiveConfig, ArchiveTypes, BudgetInv, [Next]_vars
    PROVE  BudgetInv'
<1> DEFINE reading == {"memory", "events", "artifacts", "texts"}
<1>1. CASE MakeDir
  <2> DEFINE t == Piece("heading", 0, 1)
             v == NewLimitWriter(opts.maxBytes)
             u == NewLimitWriter(0)
  <2>1. InStep(v, u)
    <3>1. opts.maxBytes \in Nat
        BY OptionTypes DEF ArchiveTypes, TypeOK
    <3>2. /\ v \in Writer /\ v.text = <<>> /\ (v.limited <=> opts.maxBytes > 0)
          /\ v.open /\ v.left = opts.maxBytes
          /\ u \in Writer /\ u.text = <<>> /\ ~u.limited /\ u.open
      <4>1. /\ v \in Writer /\ v.text = <<>> /\ (v.limited <=> opts.maxBytes > 0)
            /\ v.open /\ v.left = opts.maxBytes
          BY <3>1, NewWriter
      <4>2. 0 \in Nat /\ ~(0 > 0)
          OBVIOUS
      <4>3. u \in Writer /\ u.text = <<>> /\ ~u.limited /\ u.open
          BY <4>2, NewWriter
      <4> QED
          BY <4>1, <4>3
    <3>3. CASE opts.maxBytes > 0
      <4> HIDE DEF v, u
      <4>1. Cut(v, u, opts.maxBytes)
          BY <3>1, <3>2, <3>3 DEF Cut
      <4> QED
          BY <3>3, <4>1 DEF InStep
    <3>4. CASE ~(opts.maxBytes > 0)
      <4>1. opts.maxBytes = 0
          BY <3>1, <3>4
      <4> QED
          BY <3>2, <3>4, <4>1 DEF InStep
    <3> QED
        BY <3>3, <3>4
  <2>2. t \in Seq(Byte)
      BY PieceType DEF Kinds
  <2>3. InStep(Put(v, t), Put(u, t))
      BY <2>1, <2>2, PutInStep
  <2>4. InStep(w', whole') /\ UNCHANGED <<opts, next, listed>> /\ cmd # "done"
      BY <1>1, <2>3 DEF MakeDir
  <2> QED
      BY <2>4, BudgetRead DEF ArchiveTypes, BudgetInv
<1>2. CASE ReadMemory
  <2>1. /\ Write("memory", <<>>, ListMemoryDocs, <<>>) /\ InStep(w, whole)
        /\ UNCHANGED <<opts, next, listed>> /\ cmd # "done"
      BY <1>2 DEF ReadMemory, BudgetInv, Files
  <2>2. ListMemoryDocs \in Seq(Seq(Seq(Byte))) /\ <<>> \in Seq(Byte)
      BY DocsType
  <2>3. InStep(w', whole')
      BY <2>1, <2>2, WriteInStep
  <2> QED
      BY <2>1, <2>3, BudgetRead DEF ArchiveTypes, BudgetInv
<1>3. CASE ReadEvents
  <2> DEFINE items == LastItems(opts.maxEvents, ListEvents)
             heading == Piece("heading", 1, 1)
             end == Piece("end", 1, 1)
  <2>1. /\ Write("events", heading, items, end) /\ InStep(w, whole)
        /\ UNCHANGED <<opts, next, listed>> /\ cmd # "done"
      BY <1>3 DEF ReadEvents, BudgetInv, Files
  <2>2. items \in Seq(Seq(Seq(Byte)))
      BY EventsType DEF ArchiveTypes
  <2>3. heading \in Seq(Byte) /\ end \in Seq(Byte)
      BY PieceType DEF Kinds
  <2> HIDE DEF items, heading, end
  <2>4. InStep(w', whole')
      BY <2>1, <2>2, <2>3, WriteInStep
  <2> QED
      BY <2>1, <2>4, BudgetRead DEF ArchiveTypes, BudgetInv
<1>4. CASE ReadArtifacts
  <2> DEFINE items == Lines("artifacts", Len(listed'))
             heading == Piece("heading", 2, 1)
             end == Piece("end", 2, 1)
  <2>1. /\ Write("artifacts", heading, items, end) /\ InStep(w, whole)
        /\ UNCHANGED <<opts, next>> /\ cmd # "done"
        /\ listed' = LastItems(opts.maxArtifacts, ListArtifacts)
      BY <1>4 DEF ReadArtifacts, BudgetInv, Files
  <2>2. listed' \in Seq(Texts \cup Others)
      BY <2>1, ArtifactsType
  <2>3. items \in Seq(Seq(Seq(Byte)))
    <3>1. Len(listed') \in Nat /\ "artifacts" \in Kinds
        BY <2>2 DEF Kinds
    <3> QED
        BY <3>1, LinesType
  <2>4. heading \in Seq(Byte) /\ end \in Seq(Byte)
      BY PieceType DEF Kinds
  <2> HIDE DEF items, heading, end
  <2>5. InStep(w', whole')
      BY <2>1, <2>3, <2>4, WriteInStep
  <2> QED
      BY <2>1, <2>2, <2>5, BudgetRead DEF ArchiveTypes
<1>5. CASE ReadTexts
  <2>1. UNCHANGED <<opts, next, listed>> /\ cmd # "done"
      BY <1>5 DEF ReadTexts, Files
  <2>2. InStep(w', whole')
      BY <1>5, ReadTextsInStep
  <2> QED
      BY <2>1, <2>2, BudgetRead DEF ArchiveTypes, BudgetInv
<1>6. CASE BeginPhase
  <2>1. opts \in Settings /\ (content = None \/ content \in Seq(Byte))
      BY WriterFields DEF ArchiveTypes, TypeOK, BudgetInv
  <2>2. PromptIsCut(Feedback(opts.maxBytes))
      BY <2>1, FeedbackIsCut
  <2>3. /\ prompt' = Feedback(opts.maxBytes) /\ next = "started"
        /\ UNCHANGED <<opts, content, cmd, w, whole, listed>>
      BY <1>6 DEF BeginPhase, files
  <2>4. Feedback(0)' = Feedback(0)
      BY <2>3 DEF Feedback
  <2>5. PromptIsCut(prompt)'
      BY <2>2, <2>3, <2>4 DEF PromptIsCut, ToBudget
  <2>6. cmd' \notin reading
      BY <2>3 DEF ArchiveTypes, TypeOK
  <2>7. w'.text = ToBudget(whole.text)' /\ w' \in Writer /\ listed' \in Seq(Texts \cup Others)
      BY <2>3 DEF BudgetInv, ToBudget
  <2> QED
      BY <2>5, <2>6, <2>7 DEF BudgetInv
<1>7. ASSUME BeginSnapshot \/ BeginResume \/ WriteContent \/ WriteRecord \/ StartRun \/ Interrupt
      PROVE  BudgetInv'
  <2>1. /\ UNCHANGED <<opts, w, whole, listed, prompt>>
        /\ next' = "prompted" => next = "prompted"
        /\ cmd' \notin reading
      BY <1>7 DEF BeginSnapshot, BeginResume, WriteContent, WriteRecord, StartRun, Interrupt
  <2>2. next = "prompted" => cmd = "done"
      BY DEF ArchiveTypes, TypeOK
  <2>3. cmd = "done" => content' = content
      BY <1>7 DEF BeginSnapshot, BeginResume, WriteContent, WriteRecord, StartRun, Interrupt, files
  <2> QED
      BY <2>1, <2>2, <2>3, BudgetFrame
<1>8. ASSUME Owner \/ Age \/ Finalizer \/ Cleanup \/ UNCHANGED vars PROVE BudgetInv'
  <2>1. /\ UNCHANGED <<opts, w, whole, listed, prompt, next, cmd>>
        /\ content' = content \/ content' = None
    <3>1. CASE Owner
        BY <3>1 DEF Owner, AcquireLock, AppendEvent, WriteArtifact, SaveRun, FinalizeRun, Crash,
                    files, command
    <3>2. CASE Age \/ UNCHANGED vars
        BY <3>2 DEF Age, vars, files, command
    <3>4. CASE Finalizer
        BY <3>4 DEF Finalizer, KillReads, KillSaves, InterruptKill, files, command
    <3>3. CASE Cleanup
        BY <3>3 DEF Cleanup, BeginCleanup, ReadEntries, RemoveDir, RemoveLog, InterruptCleanup,
                    RemoveEntry, files, command
    <3> QED
        BY <1>8, <3>1, <3>2, <3>3, <3>4
  <2> QED
      BY <2>1, BudgetFrame
<1> QED
    BY <1>1, <1>2, <1>3, <1>4, <1>5, <1>6, <1>7, <1>8 DEF Next, Command

LEMMA BudgetInit == ASSUME ArchiveConfig, Init PROVE BudgetInv
<1>1. opts.maxBytes \in Nat
    BY OptionTypes DEF Init
<1>2. w \in Writer /\ whole = w /\ w.text = <<>>
  <2>1. w = NewLimitWriter(0) /\ whole = NewLimitWriter(0) /\ 0 \in Nat
      BY DEF Init
  <2> QED
      BY <2>1, NewWriter
<1>3. ToBudget(<<>>) = <<>>
  <2>1. <<>> \in Seq(Byte)
      OBVIOUS
  <2>2. Len(FirstBytes(<<>>, opts.maxBytes)) = (IF Len(<<>>) < opts.maxBytes THEN Len(<<>>) ELSE opts.maxBytes)
        /\ FirstBytes(<<>>, opts.maxBytes) \in Seq(Byte)
      BY <1>1, <2>1, FirstBytesAre
  <2>3. Len(<<>>) = 0
      OBVIOUS
  <2>4. Len(FirstBytes(<<>>, opts.maxBytes)) = 0
      BY <1>1, <2>2, <2>3
  <2>5. FirstBytes(<<>>, opts.maxBytes) = <<>>
      BY <2>2, <2>4, EmptySeq
  <2> QED
      BY <2>5 DEF ToBudget
<1>4. listed \in Seq(Texts \cup Others) /\ cmd = "idle" /\ next = "none"
    BY DEF Init
<1> QED
    BY <1>2, <1>3, <1>4 DEF BudgetInv

\* The budget cuts the end off a snapshot and off the feedback of a phase and nothing else,
\* for every budget and any number of documents, events and artifacts.
THEOREM BudgetCutsTheEnd == ASSUME NoneIsNone, ArchiveConfig PROVE Spec => []CutAtBudget
<1>1. Init => BudgetInv
    BY BudgetInit
<1>2. BudgetInv => CutAtBudget
  <2> SUFFICES ASSUME BudgetInv PROVE CutAtBudget
      OBVIOUS
  <2>1. w.text = (IF opts.maxBytes > 0 THEN FirstBytes(whole.text, opts.maxBytes) ELSE whole.text)
      BY DEF BudgetInv, ToBudget
  <2>2. next = "prompted" =>
           /\ prompt.bytes \in {0, Len(prompt.text)}
           /\ prompt.bytes = 0 => Len(prompt.text) \in {0, opts.maxBytes}
           /\ content # None =>
                 prompt.text = IF opts.maxBytes > 0 THEN FirstBytes(Feedback(0).text, opts.maxBytes)
                                                    ELSE Feedback(0).text
      BY DEF BudgetInv, PromptIsCut, ToBudget
  <2> QED
      BY <2>1, <2>2, Zenon DEF CutAtBudget
<1>3. Spec => []ArchiveTypes
    BY ArchiveTypesAlways
<1> QED
    BY <1>1, <1>2, <1>3, BudgetStep, PTL DEF Spec
-----------------------------------------------------------------------------
(* LimitedText: what shows in a text *)

\* The texts without a piece of a kind.
TextsWithout(kind) == {t \in Seq(Byte) : \A i \in 1 .. Len(t) : t[i][1] # kind}

LEMMA PutShown ==
    ASSUME NEW v \in Writer, NEW t \in Seq(Byte), NEW kind
    PROVE  LET n == IF v.limited /\ v.left < Len(t) THEN v.left ELSE Len(t)
           IN Shown(Put(v, t).text, kind)
                 = Shown(v.text, kind) \cup {t[i][2] : i \in {j \in 1 .. n : t[j][1] = kind}}
<1> DEFINE p == Put(v, t)
           n == IF v.limited /\ v.left < Len(t) THEN v.left ELSE Len(t)
           a == Len(v.text)
           old == Shown(v.text, kind)
           new == {t[i][2] : i \in {j \in 1 .. n : t[j][1] = kind}}
<1>1. /\ p \in Writer /\ Len(p.text) = a + n
      /\ \A i \in 1 .. a : p.text[i] = v.text[i]
      /\ \A i \in 1 .. n : p.text[a + i] = t[i]
    BY PutIs
<1>2. /\ v.text \in Seq(Byte) /\ p.text \in Seq(Byte) /\ a \in Nat /\ n \in Nat
    BY <1>1, WriterFields
<1> HIDE DEF p, n
<1>3. DOMAIN v.text = 1 .. a /\ DOMAIN p.text = 1 .. a + n
    BY <1>1, <1>2
<1> HIDE DEF a
<1>4. ASSUME NEW x \in Shown(p.text, kind) PROVE x \in old \cup new
  <2>1. PICK i \in 1 .. a + n : p.text[i][1] = kind /\ x = p.text[i][2]
      BY <1>3, <1>4 DEF Shown
  <2>2. CASE i \in 1 .. a
    <3>1. v.text[i][1] = kind /\ x = v.text[i][2]
        BY <1>1, <2>1, <2>2
    <3> QED
        BY <1>3, <2>2, <3>1 DEF Shown
  <2>3. CASE i \notin 1 .. a
    <3>1. i - a \in 1 .. n /\ a + (i - a) = i
        BY <1>2, <2>3
    <3>2. p.text[a + (i - a)] = t[i - a]
        BY <1>1, <3>1
    <3>3. t[i - a][1] = kind /\ x = t[i - a][2]
        BY <2>1, <3>1, <3>2
    <3> QED
        BY <3>1, <3>3
  <2> QED
      BY <2>2, <2>3
<1>5. ASSUME NEW x \in old PROVE x \in Shown(p.text, kind)
  <2>1. PICK i \in 1 .. a : v.text[i][1] = kind /\ x = v.text[i][2]
      BY <1>3, <1>5 DEF Shown
  <2>2. i \in 1 .. a + n /\ p.text[i] = v.text[i]
      BY <1>1, <1>2, <2>1
  <2> QED
      BY <1>3, <2>1, <2>2 DEF Shown
<1>6. ASSUME NEW x \in new PROVE x \in Shown(p.text, kind)
  <2>1. PICK i \in 1 .. n : t[i][1] = kind /\ x = t[i][2]
      BY <1>6
  <2>2. a + i \in 1 .. a + n /\ p.text[a + i] = t[i]
      BY <1>1, <1>2, <2>1
  <2> QED
      BY <1>3, <2>1, <2>2 DEF Shown
<1>7. Shown(p.text, kind) = old \cup new
    BY <1>4, <1>5, <1>6
<1> QED
    BY <1>7 DEF p, n

LEMMA PutOther ==
    ASSUME NEW v \in Writer, NEW kind, NEW t \in TextsWithout(kind)
    PROVE  Shown(Put(v, t).text, kind) = Shown(v.text, kind)
<1> DEFINE n == IF v.limited /\ v.left < Len(t) THEN v.left ELSE Len(t)
<1>1. t \in Seq(Byte) /\ \A i \in 1 .. Len(t) : t[i][1] # kind
    BY DEF TextsWithout
<1>2. Shown(Put(v, t).text, kind)
         = Shown(v.text, kind) \cup {t[i][2] : i \in {j \in 1 .. n : t[j][1] = kind}}
    BY <1>1, PutShown
<1>3. v.left \in Nat /\ Len(t) \in Nat
    BY <1>1, WriterFields
<1>4. 1 .. n \subseteq 1 .. Len(t)
    BY <1>3
<1> HIDE DEF n
<1>5. {j \in 1 .. n : t[j][1] = kind} = {}
    BY <1>1, <1>4
<1> QED
    BY <1>2, <1>5

LEMMA PieceWithout ==
    ASSUME NEW kind \in Kinds, NEW nr \in Nat, NEW n \in Nat, NEW other, other # kind
    PROVE  Piece(kind, nr, n) \in TextsWithout(other)
<1>1. Piece(kind, nr, n) \in Seq(Byte) /\ Len(Piece(kind, nr, n)) = n
    BY PieceType
<1>2. \A i \in 1 .. n : Piece(kind, nr, n)[i][1] = kind
    BY DEF Piece
<1> QED
    BY <1>1, <1>2 DEF TextsWithout

\* A piece shows when there is any room for it; otherwise the writer closes.
LEMMA PutPiece ==
    ASSUME NEW v \in Writer, NEW kind \in Kinds, NEW nr \in Nat, NEW m \in Nat \ {0}
    PROVE  LET p == Put(v, Piece(kind, nr, m))
           IN /\ p \in Writer /\ p.limited = v.limited
              /\ IF v.limited /\ v.left = 0
                 THEN Shown(p.text, kind) = Shown(v.text, kind) /\ ~p.open
                 ELSE Shown(p.text, kind) = Shown(v.text, kind) \cup {nr}
              /\ p.open /\ p.limited => p.left > 0
<1> DEFINE t == Piece(kind, nr, m)
           p == Put(v, t)
           n == IF v.limited /\ v.left < Len(t) THEN v.left ELSE Len(t)
           new == {t[i][2] : i \in {j \in 1 .. n : t[j][1] = kind}}
<1>1. t \in Seq(Byte) /\ Len(t) = m /\ \A i \in 1 .. m : t[i][1] = kind /\ t[i][2] = nr
  <2>1. m \in Nat
      OBVIOUS
  <2> QED
      BY <2>1, PieceType DEF Piece
<1>2. t # <<>>
    BY <1>1
<1> HIDE DEF t
<1>3. /\ p \in Writer /\ p.limited = v.limited
      /\ p.left = IF v.limited THEN v.left - n ELSE v.left
      /\ v.limited /\ t # <<>> /\ p.left = 0 => ~p.open
    BY <1>1, PutIs
<1>4. Shown(p.text, kind) = Shown(v.text, kind) \cup new
  <2>1. t \in Seq(Byte)
      BY <1>1
  <2> QED
      BY <2>1, PutShown
<1>5. v.left \in Nat /\ p.left \in Nat /\ n \in Nat /\ n <= m
    BY <1>1, <1>3, WriterFields
<1>6. CASE v.limited /\ v.left = 0
  <2>1. n = 0
      BY <1>1, <1>6
  <2> HIDE DEF n
  <2>2. new = {}
      BY <2>1
  <2>3. p.left = 0
      BY <1>3, <1>6, <2>1
  <2> HIDE DEF p, new
  <2> QED
      BY <1>2, <1>3, <1>4, <1>6, <2>2, <2>3 DEF p, t
<1>7. CASE ~(v.limited /\ v.left = 0)
  <2>1. 1 \in 1 .. n
      BY <1>1, <1>5, <1>7
  <2> HIDE DEF n
  <2>2. \A i \in 1 .. n : t[i][1] = kind /\ t[i][2] = nr
      BY <1>1, <1>5
  <2>3. new = {nr}
      BY <2>1, <2>2
  <2>4. p.open /\ p.limited => p.left > 0
      BY <1>2, <1>3, <1>5
  <2> HIDE DEF p, new
  <2> QED
      BY <1>3, <1>4, <1>7, <2>3, <2>4 DEF p, t
<1> QED
    BY <1>6, <1>7

LEMMA PutItemOther ==
    ASSUME NEW v \in Writer, NEW kind, NEW texts \in Seq(TextsWithout(kind))
    PROVE  Shown(PutItem(v, texts).text, kind) = Shown(v.text, kind)
<1> DEFINE n == Len(texts)
<1>1. texts \in Seq(Seq(Byte)) /\ n \in Nat /\ \A k \in 1 .. n : texts[k] \in TextsWithout(kind)
  <2>1. n \in Nat /\ \A k \in 1 .. n : texts[k] \in TextsWithout(kind)
      BY ElementOfSeq
  <2>2. TextsWithout(kind) \subseteq Seq(Byte)
      BY DEF TextsWithout
  <2> QED
      BY <2>1, <2>2
<1>2. PICK f \in [0 .. n -> Writer] :
              /\ f[0] = [v EXCEPT !.open = TRUE] /\ f[n] = PutItem(v, texts)
              /\ \A k \in 1 .. n : f[k] = IF f[k - 1].open THEN Put(f[k - 1], texts[k]) ELSE f[k - 1]
    BY <1>1, PutItemIs
<1> HIDE DEF n
<1> DEFINE S == {k \in 0 .. n : Shown(f[k].text, kind) = Shown(v.text, kind)}
<1>3. 0 \in S
  <2>1. f[0].text = v.text
      BY <1>2 DEF Writer
  <2> QED
      BY <1>1, <2>1
<1>4. ASSUME NEW k \in 1 .. n, k - 1 \in S PROVE k \in S
  <2>1. k \in 0 .. n /\ f[k - 1] \in Writer
      BY <1>1, <1>4
  <2>2. Shown(Put(f[k - 1], texts[k]).text, kind) = Shown(f[k - 1].text, kind)
      BY <1>1, <2>1, PutOther
  <2> QED
      BY <1>2, <1>4, <2>1, <2>2
<1> HIDE DEF S
<1>5. \A k \in 0 .. n : k \in S
    BY <1>1, <1>3, <1>4, RangeInduction
<1>6. n \in S
    BY <1>1, <1>5
<1> QED
    BY <1>2, <1>6 DEF S

LEMMA PutItemsOther ==
    ASSUME NEW v \in Writer, NEW kind, NEW items \in Seq(Seq(TextsWithout(kind)))
    PROVE  Shown(PutItems(v, items).w.text, kind) = Shown(v.text, kind)
<1> DEFINE n == Len(items)
<1>1. /\ items \in Seq(Seq(Seq(Byte))) /\ n \in Nat
      /\ \A k \in 1 .. n : items[k] \in Seq(TextsWithout(kind))
  <2>1. Seq(TextsWithout(kind)) \subseteq Seq(Seq(Byte))
    <3>1. TextsWithout(kind) \subseteq Seq(Byte)
        BY DEF TextsWithout
    <3> QED
        BY <3>1
  <2>2. n \in Nat /\ \A k \in 1 .. n : items[k] \in Seq(TextsWithout(kind))
      BY ElementOfSeq
  <2> DEFINE X == Seq(TextsWithout(kind))
             Y == Seq(Seq(Byte))
  <2> HIDE DEF X, Y
  <2>3. items \in Seq(Y)
      BY <2>1 DEF X, Y
  <2> QED
      BY <2>2, <2>3 DEF Y
<1>2. PICK f \in [0 .. n -> Count] :
              /\ f[0] = [w |-> v, n |-> 0, stop |-> FALSE] /\ f[n] = PutItems(v, items)
              /\ \A k \in 1 .. n :
                    f[k] = IF f[k - 1].stop THEN f[k - 1]
                           ELSE [w |-> PutItem(f[k - 1].w, items[k]), n |-> f[k - 1].n + 1,
                                 stop |-> ~PutItem(f[k - 1].w, items[k]).open]
    BY <1>1, PutItemsIs
<1> HIDE DEF n
<1> DEFINE S == {k \in 0 .. n : Shown(f[k].w.text, kind) = Shown(v.text, kind)}
<1>3. 0 \in S
    BY <1>1, <1>2
<1>4. ASSUME NEW k \in 1 .. n, k - 1 \in S PROVE k \in S
  <2>1. k \in 0 .. n /\ f[k - 1].w \in Writer
      BY <1>1, <1>4 DEF Count
  <2>2. Shown(PutItem(f[k - 1].w, items[k]).text, kind) = Shown(f[k - 1].w.text, kind)
      BY <1>1, <2>1, PutItemOther
  <2>3. f[k].w = f[k - 1].w \/ f[k].w = PutItem(f[k - 1].w, items[k])
    <3>1. CASE f[k - 1].stop
        BY <1>2, <3>1
    <3>2. CASE ~f[k - 1].stop
      <4>1. f[k] = [w |-> PutItem(f[k - 1].w, items[k]), n |-> f[k - 1].n + 1,
                    stop |-> ~PutItem(f[k - 1].w, items[k]).open]
          BY <1>2, <3>2
      <4> QED
          BY <4>1
    <3> QED
        BY <3>1, <3>2
  <2> QED
      BY <1>4, <2>1, <2>2, <2>3
<1> HIDE DEF S
<1>5. \A k \in 0 .. n : k \in S
    BY <1>1, <1>3, <1>4, RangeInduction
<1>6. n \in S
    BY <1>1, <1>5
<1> QED
    BY <1>2, <1>6 DEF S

\* The items are one piece each, with numbers that follow d.
Numbered(items, kind, d) ==
    /\ items \in Seq(Seq(Seq(Byte))) /\ d \in Nat
    /\ \A k \in 1 .. Len(items) :
          \E m \in Nat \ {0} : items[k] = << Piece(kind, d + k, m) >>

\* Of n items that were counted, c show: all, or all but the last.
Counts(text, kind, d, n, c) ==
    /\ c \in Nat /\ n \in Nat /\ d \in Nat
    /\ Shown(text, kind) = d + 1 .. d + c
    /\ n = c \/ n = c + 1

\* What PutItems has done after k items.
CountsSoFar(u, kind, d, k, c) ==
    /\ u \in Count /\ Counts(u.w.text, kind, d, u.n, c)
    /\ ~u.stop => c = k /\ u.n = k /\ (k > 0 /\ u.w.limited => u.w.left > 0)

LEMMA OneText ==
    ASSUME NEW v \in Writer, NEW t \in Seq(Byte)
    PROVE  PutItem(v, <<t>>) = Put([v EXCEPT !.open = TRUE], t)
<1> DEFINE texts == <<t>>
<1>1. texts \in Seq(Seq(Byte)) /\ Len(texts) = 1 /\ texts[1] = t
    OBVIOUS
<1> HIDE DEF texts
<1>2. PICK f \in [0 .. Len(texts) -> Writer] :
              /\ f[0] = [v EXCEPT !.open = TRUE] /\ f[Len(texts)] = PutItem(v, texts)
              /\ \A k \in 1 .. Len(texts) :
                    f[k] = IF f[k - 1].open THEN Put(f[k - 1], texts[k]) ELSE f[k - 1]
    BY <1>1, PutItemIs
<1> DEFINE x == [v EXCEPT !.open = TRUE]
<1>3. x.open
    BY DEF Writer
<1> HIDE DEF x
<1>4. f[0] = x
    BY <1>2 DEF x
<1>5. 1 \in 1 .. Len(texts) /\ 1 - 1 = 0
    BY <1>1
<1>6. f[1] = IF f[0].open THEN Put(f[0], texts[1]) ELSE f[0]
    BY <1>2, <1>5
<1>7. f[1] = Put(x, t)
    BY <1>1, <1>3, <1>4, <1>6
<1> QED
    BY <1>1, <1>2, <1>7 DEF x, texts

LEMMA CountItems ==
    ASSUME NEW v \in Writer, NEW kind \in Kinds, NEW items, NEW d, Numbered(items, kind, d),
           Shown(v.text, kind) = {}
    PROVE  /\ PutItems(v, items) \in Count
           /\ \E c : Counts(PutItems(v, items).w.text, kind, d, PutItems(v, items).n, c)
<1> DEFINE n == Len(items)
<1>1. /\ items \in Seq(Seq(Seq(Byte))) /\ n \in Nat /\ d \in Nat
      /\ \A k \in 1 .. n : \E m \in Nat \ {0} : items[k] = << Piece(kind, d + k, m) >>
  <2>1. /\ items \in Seq(Seq(Seq(Byte))) /\ d \in Nat
        /\ \A k \in 1 .. n : \E m \in Nat \ {0} : items[k] = << Piece(kind, d + k, m) >>
      BY Zenon DEF Numbered
  <2>2. n \in Nat
      BY <2>1
  <2> QED
      BY <2>1, <2>2, Zenon
<1>2. PICK f \in [0 .. n -> Count] :
              /\ f[0] = [w |-> v, n |-> 0, stop |-> FALSE] /\ f[n] = PutItems(v, items)
              /\ \A k \in 1 .. n :
                    f[k] = IF f[k - 1].stop THEN f[k - 1]
                           ELSE [w |-> PutItem(f[k - 1].w, items[k]), n |-> f[k - 1].n + 1,
                                 stop |-> ~PutItem(f[k - 1].w, items[k]).open]
    BY <1>1, PutItemsIs
<1> HIDE DEF n
<1> DEFINE S == {k \in 0 .. n : \E c : CountsSoFar(f[k], kind, d, k, c)}
<1>3. 0 \in S
  <2>1. 0 \in 0 .. n /\ f[0] \in Count /\ f[0].w = v /\ f[0].n = 0
    <3>1. 0 \in 0 .. n
        BY <1>1
    <3>2. f[0] = [w |-> v, n |-> 0, stop |-> FALSE]
        BY <1>2
    <3>3. f[0] \in Count
        BY <3>1
    <3>4. f[0].w = v /\ f[0].n = 0
        BY <3>2
    <3> QED
        BY <3>1, <3>3, <3>4
  <2>2. d + 1 .. d + 0 = {} /\ 0 \in Nat /\ ~(0 > 0)
      BY <1>1
  <2>3. Counts(f[0].w.text, kind, d, f[0].n, 0)
      BY <1>1, <2>1, <2>2 DEF Counts
  <2>4. CountsSoFar(f[0], kind, d, 0, 0)
      BY <2>1, <2>2, <2>3 DEF CountsSoFar
  <2> QED
      BY <2>1, <2>4
<1>4. ASSUME NEW k \in 1 .. n, k - 1 \in S PROVE k \in S
  <2>1. PICK c : CountsSoFar(f[k - 1], kind, d, k - 1, c)
      BY <1>4
  <2> DEFINE y == f[k - 1]
             p == PutItem(y.w, items[k])
  <2>2. k \in 0 .. n /\ k - 1 \in Nat /\ f[k] \in Count
      BY <1>1
  <2>3. y \in Count /\ y.w \in Writer /\ y.n \in Nat /\ y.stop \in BOOLEAN
        /\ Counts(y.w.text, kind, d, y.n, c)
        /\ (~y.stop => c = k - 1 /\ y.n = k - 1 /\ (k - 1 > 0 /\ y.w.limited => y.w.left > 0))
      BY <2>1 DEF CountsSoFar, Count
  <2>4. f[k] = IF y.stop THEN y ELSE [w |-> p, n |-> y.n + 1, stop |-> ~p.open]
      BY <1>2
  <2> HIDE DEF y, p
  <2>5. CASE y.stop
    <3>1. f[k] = y
        BY <2>4, <2>5
    <3>2. CountsSoFar(f[k], kind, d, k, c)
        BY <2>3, <2>5, <3>1 DEF CountsSoFar
    <3> QED
        BY <2>2, <3>2
  <2>6. CASE ~y.stop
    <3> DEFINE closed == ~p.open
    <3>1. f[k] = [w |-> p, n |-> y.n + 1, stop |-> closed]
        BY <2>4, <2>6
    <3> HIDE DEF closed
    <3>2. f[k].w = p /\ f[k].n = y.n + 1 /\ f[k].stop = closed
        BY <3>1
    <3>3. PICK m \in Nat \ {0} : items[k] = << Piece(kind, d + k, m) >>
        BY <1>1
    <3> DEFINE t == Piece(kind, d + k, m)
               x == [y.w EXCEPT !.open = TRUE]
    <3>4. /\ x \in Writer /\ x.text = y.w.text /\ x.limited = y.w.limited /\ x.left = y.w.left
        BY <2>3 DEF Writer
    <3>5. d + k \in Nat /\ m \in Nat
        BY <1>1
    <3>6. t \in Seq(Byte)
        BY <3>5, PieceType
    <3>7. p = Put(x, t)
        BY <2>3, <3>3, <3>6, OneText DEF p
    <3> HIDE DEF x
    <3>8. /\ Put(x, t) \in Writer /\ Put(x, t).limited = x.limited
          /\ IF x.limited /\ x.left = 0
             THEN Shown(Put(x, t).text, kind) = Shown(x.text, kind) /\ ~Put(x, t).open
             ELSE Shown(Put(x, t).text, kind) = Shown(x.text, kind) \cup {d + k}
          /\ Put(x, t).open /\ Put(x, t).limited => Put(x, t).left > 0
        BY <3>4, <3>5, PutPiece
    <3> HIDE DEF t
    <3>9. Shown(x.text, kind) = d + 1 .. d + c /\ c = k - 1 /\ y.n = k - 1 /\ c \in Nat
        BY <2>3, <2>6, <3>4 DEF Counts
    <3>10. y.n + 1 = k
        BY <3>9
    <3>11. CASE x.limited /\ x.left = 0
      <4>1. Shown(p.text, kind) = d + 1 .. d + c /\ closed
          BY <3>7, <3>8, <3>9, <3>11 DEF closed
      <4>2. Counts(p.text, kind, d, k, c)
          BY <1>1, <3>9, <4>1 DEF Counts
      <4>3. CountsSoFar(f[k], kind, d, k, c)
          BY <2>2, <3>2, <3>10, <4>1, <4>2 DEF CountsSoFar
      <4> QED
          BY <2>2, <4>3
    <3>12. CASE ~(x.limited /\ x.left = 0)
      <4>1. Shown(p.text, kind) = (d + 1 .. d + c) \cup {d + k}
          BY <3>7, <3>8, <3>9, <3>12
      <4>2. (d + 1 .. d + c) \cup {d + k} = d + 1 .. d + k
          BY <1>1, <3>9
      <4>3. ~closed => (p.limited => p.left > 0)
          BY <3>7, <3>8 DEF closed
      <4>4. Counts(p.text, kind, d, k, k)
          BY <1>1, <4>1, <4>2 DEF Counts
      <4>5. CountsSoFar(f[k], kind, d, k, k)
          BY <2>2, <3>2, <3>10, <4>3, <4>4 DEF CountsSoFar
      <4> QED
          BY <2>2, <4>5
    <3> QED
        BY <3>11, <3>12
  <2> QED
      BY <2>3, <2>5, <2>6
<1> HIDE DEF S
<1>5. \A k \in 0 .. n : k \in S
    BY <1>1, <1>3, <1>4, RangeInduction
<1>6. n \in S
    BY <1>1, <1>5
<1>7. PICK c : CountsSoFar(f[n], kind, d, n, c)
    BY <1>6 DEF S
<1> QED
    BY <1>2, <1>7 DEF CountsSoFar
-----------------------------------------------------------------------------
(* RunArchive: snapshots *)

\* n items of a source were counted for a text.
Showing(text, source, n) == \E d, c : Counts(text, source, d, n, c)

\* A text that shows no item of any source.
Plain == {t \in Seq(Byte) : \A s \in Sources : t \in TextsWithout(s)}

LEMMA PlainPiece ==
    ASSUME NEW kind \in Kinds \ Sources, NEW nr \in Nat, NEW n \in Nat
    PROVE  Piece(kind, nr, n) \in Plain
<1>1. \A s \in Sources : Piece(kind, nr, n) \in TextsWithout(s)
    BY PieceWithout
<1> QED
    BY <1>1, PieceType DEF Plain

LEMMA NumberedWithout ==
    ASSUME NEW items, NEW kind \in Kinds, NEW d, Numbered(items, kind, d), NEW other, other # kind
    PROVE  items \in Seq(Seq(TextsWithout(other)))
<1> DEFINE n == Len(items)
           X == Seq(TextsWithout(other))
<1>1. /\ items \in Seq(Seq(Seq(Byte))) /\ d \in Nat
      /\ \A k \in 1 .. n : \E m \in Nat \ {0} : items[k] = << Piece(kind, d + k, m) >>
    BY Zenon DEF Numbered
<1>2. n \in Nat /\ items = [k \in 1 .. n |-> items[k]]
    BY <1>1
<1>3. ASSUME NEW k \in 1 .. n PROVE items[k] \in X
  <2>1. PICK m \in Nat \ {0} : items[k] = << Piece(kind, d + k, m) >>
      BY <1>1
  <2>2. d + k \in Nat /\ m \in Nat
      BY <1>1, <1>2
  <2>3. Piece(kind, d + k, m) \in TextsWithout(other)
      BY <2>2, PieceWithout
  <2> DEFINE t == Piece(kind, d + k, m)
  <2> HIDE DEF t
  <2>4. <<t>> \in Seq(TextsWithout(other))
      BY <2>3 DEF t
  <2> QED
      BY <2>1, <2>4 DEF t
<1> HIDE DEF n, X
<1>4. items \in Seq(X)
  <2>1. [k \in 1 .. n |-> items[k]] \in Seq(X)
      BY <1>2, <1>3
  <2> QED
      BY <1>2, <2>1
<1> QED
    BY <1>4 DEF X

LEMMA NothingShows == ASSUME NEW text, NEW s, Shown(text, s) = {} PROVE Showing(text, s, 0)
<1>1. 0 + 1 .. 0 + 0 = {} /\ 0 \in Nat
    OBVIOUS
<1>2. Counts(text, s, 0, 0, 0)
    BY <1>1 DEF Counts
<1> QED
    BY <1>2 DEF Showing

\* A source is written at most once; the pieces of the others keep showing.
LEMMA WriteCounts ==
    ASSUME w \in Writer, manifest \in [Sources -> Nat], NEW source \in Sources,
           NEW heading \in Plain, NEW end \in Plain, NEW items, NEW d,
           Numbered(items, source, d), Write(source, heading, items, end),
           Shown(w.text, source) = {}
    PROVE  /\ manifest' \in [Sources -> Nat]
           /\ Showing(w'.text, source, manifest'[source])
           /\ \A s \in Sources \ {source} :
                 Shown(w'.text, s) = Shown(w.text, s) /\ manifest'[s] = manifest[s]
<1> DEFINE a == Put(w, heading)
           r == PutItems(a, items)
           z == Put(r.w, end)
           enabled == source \in opts.sources /\ items # <<>>
<1>1. /\ w' = IF enabled THEN z ELSE w
      /\ manifest' = [manifest EXCEPT ![source] = IF enabled THEN r.n ELSE 0]
    BY Zenon DEF Write
<1>2. heading \in Seq(Byte) /\ end \in Seq(Byte) /\ source \in Kinds
    BY DEF Plain, Sources, Kinds
<1>3. a \in Writer
    BY <1>2, PutIs, Zenon
<1>4. Shown(a.text, source) = {}
    BY PutOther DEF Plain
<1>5. r \in Count /\ \E c : Counts(r.w.text, source, d, r.n, c)
  <2> HIDE DEF a
  <2> QED
      BY <1>2, <1>3, <1>4, CountItems
<1>6. r.w \in Writer /\ r.n \in Nat
    BY <1>5 DEF Count
<1>7. Shown(z.text, source) = Shown(r.w.text, source)
    BY <1>6, PutOther DEF Plain
<1>8. ASSUME NEW s \in Sources \ {source} PROVE Shown(z.text, s) = Shown(w.text, s)
  <2>1. Shown(a.text, s) = Shown(w.text, s)
      BY PutOther DEF Plain
  <2>2. items \in Seq(Seq(TextsWithout(s)))
      BY <1>2, NumberedWithout
  <2>3. Shown(r.w.text, s) = Shown(a.text, s)
      BY <1>3, <2>2, PutItemsOther
  <2>4. Shown(z.text, s) = Shown(r.w.text, s)
      BY <1>6, PutOther DEF Plain
  <2> QED
      BY <2>1, <2>3, <2>4
<1> HIDE DEF a, r, z, enabled
<1>9. Showing(z.text, source, r.n)
    BY <1>5, <1>7 DEF Showing, Counts
<1>10. Showing(w.text, source, 0)
    BY NothingShows
<1>11. CASE enabled
  <2>1. w' = z /\ manifest' = [manifest EXCEPT ![source] = r.n]
      BY <1>1, <1>11
  <2>2. /\ manifest' \in [Sources -> Nat] /\ manifest'[source] = r.n
        /\ \A s \in Sources \ {source} : manifest'[s] = manifest[s]
      BY <1>6, <2>1
  <2> QED
      BY <1>8, <1>9, <2>1, <2>2
<1>12. CASE ~enabled
  <2>1. w' = w /\ manifest' = [manifest EXCEPT ![source] = 0]
      BY <1>1, <1>12
  <2>2. /\ manifest' \in [Sources -> Nat] /\ manifest'[source] = 0
        /\ \A s \in Sources \ {source} : manifest'[s] = manifest[s]
      BY <2>1
  <2> QED
      BY <1>10, <2>1, <2>2
<1> QED
    BY <1>11, <1>12

\* Inductive: each source is counted as it shows, and one that is still to come does not show.
CountInv ==
    /\ manifest \in [Sources -> Nat]
    /\ \A s \in Sources : Showing(w.text, s, manifest[s])
    /\ cmd \in {"idle", "mkdir"} => \A s \in Sources : manifest[s] = 0
    /\ cmd = "memory" => \A s \in Sources : Shown(w.text, s) = {}
    /\ cmd = "events" => Shown(w.text, "events") = {} /\ Shown(w.text, "artifacts") = {}
    /\ cmd = "artifacts" => Shown(w.text, "artifacts") = {}

LEMMA NumberedDocs == ASSUME ArchiveConfig PROVE Numbered(ListMemoryDocs, "memory", 0)
<1>1. ListMemoryDocs \in Seq(Seq(Seq(Byte)))
    BY DocsType
<1>2. Len(ListMemoryDocs) = Len(Docs) /\ DOMAIN Docs = 1 .. Len(Docs)
    BY DEF ListMemoryDocs, ArchiveConfig
<1>3. ASSUME NEW k \in 1 .. Len(Docs)
      PROVE  \E m \in Nat \ {0} : ListMemoryDocs[k] = << Piece("memory", 0 + k, m) >>
  <2>1. 1 + Docs[k] \in Nat \ {0} /\ 0 + k = k
      BY ElementOfSeq DEF ArchiveConfig
  <2>2. ListMemoryDocs[k] = << Piece("memory", k, 1 + Docs[k]) >>
      BY <1>2 DEF ListMemoryDocs
  <2> QED
      BY <2>1, <2>2
<1> QED
    BY <1>1, <1>2, <1>3 DEF Numbered

LEMMA NumberedLines ==
    ASSUME NEW kind \in Kinds, NEW n \in Nat PROVE Numbered(Lines(kind, n), kind, 0)
<1>1. Lines(kind, n) \in Seq(Seq(Seq(Byte))) /\ Len(Lines(kind, n)) = n
    BY LinesType
<1>2. ASSUME NEW k \in 1 .. n
      PROVE  \E m \in Nat \ {0} : Lines(kind, n)[k] = << Piece(kind, 0 + k, m) >>
  <2>1. 1 \in Nat \ {0} /\ 0 + k = k
      OBVIOUS
  <2>2. Lines(kind, n)[k] = << Piece(kind, k, 1) >>
      BY DEF Lines
  <2> QED
      BY <2>1, <2>2
<1> QED
    BY <1>1, <1>2 DEF Numbered

LEMMA NumberedLast ==
    ASSUME NEW kind \in Kinds, NEW n \in Nat, NEW max \in Nat
    PROVE  \E d : Numbered(LastItems(max, Lines(kind, n)), kind, d)
<1> DEFINE items == LastItems(max, Lines(kind, n))
<1>1. Lines(kind, n) \in Seq(Seq(Seq(Byte))) /\ Len(Lines(kind, n)) = n
    BY LinesType
<1>2. items \in Seq(Seq(Seq(Byte))) /\ \E d : Without(items, Lines(kind, n), d)
    BY <1>1, LastItemsAre
<1> HIDE DEF items
<1>3. PICK d : Without(items, Lines(kind, n), d)
    BY <1>2
<1>4. d \in Nat /\ Len(items) + d = n /\ Len(items) \in Nat
    BY <1>1, <1>2, <1>3 DEF Without
<1>5. ASSUME NEW k \in 1 .. Len(items)
      PROVE  \E m \in Nat \ {0} : items[k] = << Piece(kind, d + k, m) >>
  <2>1. d + k \in 1 .. n
      BY <1>4
  <2>2. items[k] = Lines(kind, n)[d + k]
      BY <1>3 DEF Without
  <2>3. items[k] = << Piece(kind, d + k, 1) >>
      BY <2>1, <2>2 DEF Lines
  <2>4. 1 \in Nat \ {0}
      OBVIOUS
  <2> QED
      BY <2>3, <2>4
<1>6. Numbered(items, kind, d)
    BY <1>2, <1>4, <1>5 DEF Numbered
<1> QED
    BY <1>6 DEF items

LEMMA NumberedEvents ==
    ASSUME ArchiveConfig, TypeOK
    PROVE  \E d : Numbered(LastItems(opts.maxEvents, ListEvents), "events", d)
<1>1. opts.maxEvents \in Nat /\ "events" \in Kinds
    BY OptionTypes DEF TypeOK, Kinds
<1>2. CASE log = None
  <2>1. ListEvents = Lines("events", 0)
      BY <1>2 DEF ListEvents, Lines
  <2>2. 0 \in Nat
      OBVIOUS
  <2> QED
      BY <1>1, <2>1, <2>2, NumberedLast
<1>3. CASE log # None
  <2>1. log \in Nat /\ ListEvents = Lines("events", log)
      BY <1>3 DEF TypeOK, ArchiveConfig, ListEvents
  <2> QED
      BY <1>1, <2>1, NumberedLast
<1> QED
    BY <1>2, <1>3

LEMMA SourceCounted ==
    ASSUME w \in Writer, CountInv, NEW source \in Sources,
           NEW heading \in Plain, NEW end \in Plain, NEW items, NEW d,
           Numbered(items, source, d), Write(source, heading, items, end),
           Shown(w.text, source) = {}
    PROVE  /\ manifest' \in [Sources -> Nat]
           /\ \A s \in Sources : Showing(w'.text, s, manifest'[s])
           /\ \A s \in Sources \ {source} : Shown(w'.text, s) = Shown(w.text, s)
<1>1. /\ manifest' \in [Sources -> Nat]
      /\ Showing(w'.text, source, manifest'[source])
      /\ \A s \in Sources \ {source} : Shown(w'.text, s) = Shown(w.text, s) /\ manifest'[s] = manifest[s]
    BY WriteCounts DEF CountInv
<1>2. ASSUME NEW s \in Sources \ {source} PROVE Showing(w'.text, s, manifest'[s])
    BY <1>1 DEF CountInv, Showing, Counts
<1> QED
    BY <1>1, <1>2

\* A fence and the text in it show no item of a source.
LEMMA TextsUncounted ==
    ASSUME BudgetInv, ReadTexts, NEW s \in Sources
    PROVE  Shown(w'.text, s) = Shown(w.text, s)
<1> DEFINE isThere(a) == "artifacts" \in opts.sources /\ a \in Texts /\ a \in ToSet(ListArtifacts)
           fenced(i) == << Piece("fence", i, 1), Piece("text", i, 2), Piece("fence", i, 1) >>
           item(i) == IF isThere(listed[i]) THEN fenced(i) ELSE <<>>
           items == [i \in DOMAIN listed |-> item(i)]
           n == Len(listed)
           all == [i \in 1 .. n |-> item(i)]
           X == TextsWithout(s)
<1>1. w' = PutItems(w, items).w
    BY Zenon DEF ReadTexts
<1>2. n \in Nat /\ DOMAIN listed = 1 .. n /\ w \in Writer
    BY DEF BudgetInv
<1>3. ASSUME NEW i \in 1 .. n PROVE item(i) \in Seq(X)
  <2>1. i \in Nat /\ "fence" \in Kinds /\ "text" \in Kinds /\ s # "fence" /\ s # "text"
      BY <1>2 DEF Kinds, Sources
  <2>2. Piece("fence", i, 1) \in X /\ Piece("text", i, 2) \in X
      BY <2>1, PieceWithout
  <2> HIDE DEF X
  <2>3. fenced(i) \in Seq(X) /\ <<>> \in Seq(X)
      BY <2>2
  <2> HIDE DEF fenced, isThere
  <2> QED
      BY <2>3
<1>4. items = all
    BY <1>2, Zenon
<1> HIDE DEF item, n, items, X
<1>5. all \in Seq(Seq(X))
    BY <1>2, <1>3
<1> HIDE DEF all
<1>6. Shown(PutItems(w, all).w.text, s) = Shown(w.text, s)
    BY <1>2, <1>5, PutItemsOther DEF X
<1> QED
    BY <1>1, <1>4, <1>6

LEMMA CountFrame ==
    ASSUME CountInv, UNCHANGED <<manifest, w>>,
           \/ cmd' = cmd
           \/ cmd = "idle" /\ cmd' = "mkdir"
           \/ cmd' \notin {"idle", "mkdir", "memory", "events", "artifacts"}
    PROVE  CountInv'
BY DEF CountInv

LEMMA CountStep ==
    ASSUME ArchiveConfig, ArchiveTypes, BudgetInv, CountInv, [Next]_vars
    PROVE  CountInv'
<1> USE DEF ArchiveTypes
<1>0. w \in Writer
    BY DEF BudgetInv
<1>1. CASE MakeDir
  <2> DEFINE t == Piece("heading", 0, 1)
             v == NewLimitWriter(opts.maxBytes)
  <2>1. opts.maxBytes \in Nat
      BY OptionTypes DEF TypeOK
  <2>2. v \in Writer /\ v.text = <<>>
      BY <2>1, NewWriter
  <2>3. t \in Plain
      BY PlainPiece DEF Kinds, Sources
  <2>4. w' = Put(v, t) /\ manifest' = manifest /\ cmd = "mkdir" /\ cmd' = "memory"
      BY <1>1 DEF MakeDir
  <2> HIDE DEF v, t
  <2>5. ASSUME NEW s \in Sources PROVE Shown(w'.text, s) = {}
    <3>1. Shown(Put(v, t).text, s) = Shown(v.text, s)
        BY <2>2, <2>3, PutOther DEF Plain
    <3>2. Shown(<<>>, s) = {}
        BY DEF Shown
    <3> QED
        BY <2>2, <2>4, <3>1, <3>2
  <2>6. \A s \in Sources : Showing(w'.text, s, manifest'[s])
      BY <2>4, <2>5, NothingShows DEF CountInv
  <2> QED
      BY <2>4, <2>5, <2>6 DEF CountInv
<1>2. CASE ReadMemory
  <2>1. Write("memory", <<>>, ListMemoryDocs, <<>>) /\ cmd = "memory" /\ cmd' = "events"
      BY <1>2 DEF ReadMemory
  <2>2. <<>> \in Plain
      BY DEF Plain, TextsWithout
  <2>3. Numbered(ListMemoryDocs, "memory", 0) /\ "memory" \in Sources
      BY NumberedDocs DEF Sources
  <2>4. \A s \in Sources : Shown(w.text, s) = {}
      BY <2>1 DEF CountInv
  <2>5. /\ manifest' \in [Sources -> Nat]
        /\ \A s \in Sources : Showing(w'.text, s, manifest'[s])
        /\ \A s \in Sources \ {"memory"} : Shown(w'.text, s) = Shown(w.text, s)
      BY <1>0, <2>1, <2>2, <2>3, <2>4, SourceCounted
  <2>6. Shown(w'.text, "events") = {} /\ Shown(w'.text, "artifacts") = {}
      BY <2>4, <2>5 DEF Sources
  <2> QED
      BY <2>1, <2>5, <2>6 DEF CountInv
<1>3. CASE ReadEvents
  <2> DEFINE items == LastItems(opts.maxEvents, ListEvents)
             heading == Piece("heading", 1, 1)
             end == Piece("end", 1, 1)
  <2>1. Write("events", heading, items, end) /\ cmd = "events" /\ cmd' = "artifacts"
      BY <1>3 DEF ReadEvents
  <2>2. heading \in Plain /\ end \in Plain
      BY PlainPiece DEF Kinds, Sources
  <2>3. PICK d : Numbered(items, "events", d)
      BY NumberedEvents
  <2>4. Shown(w.text, "events") = {} /\ Shown(w.text, "artifacts") = {}
      BY <2>1 DEF CountInv
  <2> HIDE DEF items, heading, end
  <2>5. /\ manifest' \in [Sources -> Nat]
        /\ \A s \in Sources : Showing(w'.text, s, manifest'[s])
        /\ \A s \in Sources \ {"events"} : Shown(w'.text, s) = Shown(w.text, s)
    <3>1. "events" \in Sources
        BY DEF Sources
    <3> QED
        BY <1>0, <2>1, <2>2, <2>3, <2>4, <3>1, SourceCounted
  <2>6. Shown(w'.text, "artifacts") = {}
      BY <2>4, <2>5 DEF Sources
  <2> QED
      BY <2>1, <2>5, <2>6 DEF CountInv
<1>4. CASE ReadArtifacts
  <2> DEFINE items == Lines("artifacts", Len(listed'))
             heading == Piece("heading", 2, 1)
             end == Piece("end", 2, 1)
  <2>1. /\ Write("artifacts", heading, items, end) /\ cmd = "artifacts" /\ cmd' = "texts"
        /\ listed' = LastItems(opts.maxArtifacts, ListArtifacts)
      BY <1>4 DEF ReadArtifacts
  <2>2. heading \in Plain /\ end \in Plain
      BY PlainPiece DEF Kinds, Sources
  <2>3. Numbered(items, "artifacts", 0)
    <3>1. listed' \in Seq(Texts \cup Others)
        BY <2>1, ArtifactsType
    <3>2. Len(listed') \in Nat /\ "artifacts" \in Kinds
        BY <3>1 DEF Kinds
    <3> QED
        BY <3>2, NumberedLines
  <2>4. Shown(w.text, "artifacts") = {} /\ "artifacts" \in Sources
      BY <2>1 DEF CountInv, Sources
  <2> HIDE DEF items, heading, end
  <2>5. /\ manifest' \in [Sources -> Nat]
        /\ \A s \in Sources : Showing(w'.text, s, manifest'[s])
      BY <1>0, <2>1, <2>2, <2>3, <2>4, SourceCounted
  <2> QED
      BY <2>1, <2>5 DEF CountInv
<1>5. CASE ReadTexts
  <2>1. manifest' = manifest /\ cmd' = "content"
      BY <1>5 DEF ReadTexts
  <2>2. \A s \in Sources : Shown(w'.text, s) = Shown(w.text, s)
      BY <1>5, TextsUncounted
  <2>3. \A s \in Sources : Showing(w'.text, s, manifest'[s])
      BY <2>1, <2>2 DEF CountInv, Showing, Counts
  <2> QED
      BY <2>1, <2>3 DEF CountInv
<1>6. ASSUME \/ BeginSnapshot \/ BeginResume \/ WriteContent \/ WriteRecord \/ StartRun \/ BeginPhase
             \/ Interrupt
      PROVE  CountInv'
  <2>1. /\ UNCHANGED <<manifest, w>>
        /\ \/ cmd' = cmd
           \/ cmd = "idle" /\ cmd' = "mkdir"
           \/ cmd' \notin {"idle", "mkdir", "memory", "events", "artifacts"}
      BY <1>6 DEF BeginSnapshot, BeginResume, WriteContent, WriteRecord, StartRun, BeginPhase, Interrupt
  <2> QED
      BY <2>1, CountFrame
<1>7. ASSUME Owner \/ Age \/ Finalizer \/ Cleanup \/ UNCHANGED vars PROVE CountInv'
  <2>1. UNCHANGED <<manifest, w, cmd>>
    <3>1. CASE Owner
        BY <3>1 DEF Owner, AcquireLock, AppendEvent, WriteArtifact, SaveRun, FinalizeRun, Crash,
                    command
    <3>2. CASE Age \/ UNCHANGED vars
        BY <3>2 DEF Age, vars, command
    <3>4. CASE Finalizer
        BY <3>4 DEF Finalizer, KillReads, KillSaves, InterruptKill, command
    <3>3. CASE Cleanup
        BY <3>3 DEF Cleanup, BeginCleanup, ReadEntries, RemoveDir, RemoveLog, InterruptCleanup,
                    RemoveEntry, command
    <3> QED
        BY <1>7, <3>1, <3>2, <3>3, <3>4
  <2> QED
      BY <2>1, CountFrame
<1> QED
    BY <1>1, <1>2, <1>3, <1>4, <1>5, <1>6, <1>7 DEF Next, Command

\* Inductive, with ArchiveTypes: the two files of the snapshot are there in their order as long
\* as its directory is, which only a deletion takes away.
WholeInv ==
    /\ record # None => content # None /\ record.bytes = Len(w.text)
    /\ cmd = "record" /\ "snapshots" \in dirs => content # None
    /\ (cmd = "written" \/ next # "none") /\ "snapshots" \in dirs => record # None
    /\ "snapshots" \notin dirs => Removing
    /\ cleaner = "log" => ~here \/ "snapshots" \in dirs

LEMMA WholeStep ==
    ASSUME NoneIsNone, ArchiveTypes, BudgetInv, WholeInv, [Next]_vars
    PROVE  WholeInv'
<1> USE DEF WholeInv, Removing, files, command, cleanup
<1>1. CASE WriteContent
  <2>1. w.text \in Seq(Byte)
      BY WriterFields DEF BudgetInv
  <2>2. record = None
      BY <1>1 DEF WriteContent, ArchiveTypes
  <2>3. next = "none"
      BY <1>1 DEF WriteContent, ArchiveTypes, TypeOK
  <2> QED
      BY <1>1, <2>1, <2>2, <2>3 DEF WriteContent, NoneIsNone
<1>2. CASE WriteRecord
  <2> DEFINE r == [bytes |-> Len(w.text), manifest |-> manifest]
  <2>1. r # None /\ r.bytes = Len(w.text)
      BY DEF NoneIsNone
  <2>2. record = None /\ next = "none"
      BY <1>2 DEF WriteRecord, ArchiveTypes, TypeOK
  <2> HIDE DEF r
  <2>3. CASE "snapshots" \in dirs
    <3>1. record' = r
        BY <1>2, <2>3 DEF WriteRecord, r
    <3> QED
        BY <1>2, <2>1, <2>3, <3>1 DEF WriteRecord
  <2>4. CASE "snapshots" \notin dirs
      BY <1>2, <2>2, <2>4 DEF WriteRecord
  <2> QED
      BY <2>3, <2>4
<1>3. ASSUME MakeDir \/ ReadMemory \/ ReadEvents \/ ReadArtifacts \/ ReadTexts PROVE WholeInv'
  <2>1. record = None /\ next = "none"
      BY <1>3 DEF MakeDir, ReadMemory, ReadEvents, ReadArtifacts, ReadTexts, ArchiveTypes, TypeOK
  <2>2. /\ UNCHANGED <<record, next, cleaner>> /\ cmd' \notin {"record", "written"}
        /\ (UNCHANGED <<dirs, here>> \/ "snapshots" \in dirs')
      BY <1>3 DEF MakeDir, ReadMemory, ReadEvents, ReadArtifacts, ReadTexts, Files
  <2> QED
      BY <2>1, <2>2
<1>4. ASSUME BeginSnapshot \/ BeginResume \/ StartRun \/ BeginPhase \/ Interrupt PROVE WholeInv'
    BY <1>4 DEF BeginSnapshot, BeginResume, StartRun, BeginPhase, Interrupt
<1>5. ASSUME Owner \/ Age \/ Finalizer \/ UNCHANGED vars PROVE WholeInv'
  <2>1. UNCHANGED <<here, dirs, content, record, command, cleanup>>
    <3>1. CASE Owner
        BY <3>1 DEF Owner, AcquireLock, AppendEvent, WriteArtifact, SaveRun, FinalizeRun, Crash
    <3>2. CASE Age \/ UNCHANGED vars
        BY <3>2 DEF Age, vars
    <3>3. CASE Finalizer
        BY <3>3 DEF Finalizer, KillReads, KillSaves, InterruptKill
    <3> QED
        BY <1>5, <3>1, <3>2, <3>3
  <2> QED
      BY <2>1
<1>6. ASSUME BeginCleanup \/ ReadEntries \/ RemoveDir \/ RemoveLog \/ InterruptCleanup PROVE WholeInv'
    BY <1>6 DEF BeginCleanup, ReadEntries, RemoveDir, RemoveLog, InterruptCleanup
<1>7. ASSUME NEW e \in EntryNames, RemoveEntry(e) PROVE WholeInv'
    BY <1>7 DEF RemoveEntry, EntryNames
<1> QED
    BY <1>1, <1>2, <1>3, <1>4, <1>5, <1>6, <1>7 DEF Next, Command, Cleanup

\* The manifest counts the items that show, and at most one more.
LEMMA ShownNumber ==
    ASSUME NEW text, NEW s, NEW n, Showing(text, s, n)
    PROVE  n - Cardinality(Shown(text, s)) \in {0, 1}
<1>1. PICK d, c : Counts(text, s, d, n, c)
    BY DEF Showing
<1>2. /\ c \in Nat /\ n \in Nat /\ d \in Nat /\ Shown(text, s) = d + 1 .. d + c
      /\ n = c \/ n = c + 1
    BY <1>1 DEF Counts
<1> DEFINE a == d + 1
           b == d + c
<1>3. a \in Int /\ b \in Int /\ (IF a > b THEN 0 ELSE b - a + 1) = c
    BY <1>2
<1> HIDE DEF a, b
<1>4. Cardinality(a .. b) = c
    BY <1>3, FS_Interval
<1> QED
    BY <1>2, <1>4 DEF a, b

\* A snapshot that is listed is whole, unless a deletion of the run has begun: for every budget,
\* any number of documents, events and artifacts, and any interruption of the command.
THEOREM SnapshotsStayWhole == ASSUME NoneIsNone, ArchiveConfig PROVE Spec => []SnapshotsAreWhole
<1>1. Init => BudgetInv
    BY BudgetInit
<1>2. Init => CountInv
  <2> SUFFICES ASSUME Init PROVE CountInv
      OBVIOUS
  <2>1. w = NewLimitWriter(0) /\ manifest = [s \in Sources |-> 0] /\ cmd = "idle" /\ 0 \in Nat
      BY DEF Init
  <2>2. w.text = <<>>
      BY <2>1, NewWriter
  <2>3. \A s \in Sources : Shown(<<>>, s) = {}
      BY DEF Shown
  <2>4. \A s \in Sources : Showing(w.text, s, manifest[s])
      BY <2>1, <2>2, <2>3, NothingShows
  <2> QED
      BY <2>1, <2>4 DEF CountInv
<1>3. Init => WholeInv
    BY DEF Init, WholeInv
<1>4. ArchiveTypes /\ BudgetInv /\ CountInv /\ WholeInv => SnapshotsAreWhole
  <2> SUFFICES ASSUME ArchiveTypes, BudgetInv, CountInv, WholeInv, ~Removing
               PROVE  /\ record # None =>
                            /\ content # None /\ Len(content) = record.bytes
                            /\ \A s \in Sources :
                                  record.manifest[s] - Cardinality(Shown(content, s)) \in {0, 1}
                      /\ next # "none" => record # None
      BY Zenon DEF SnapshotsAreWhole
  <2>1. next # "none" => record # None
      BY DEF WholeInv
  <2>2. ASSUME record # None
        PROVE  /\ content # None /\ Len(content) = record.bytes
               /\ \A s \in Sources : record.manifest[s] - Cardinality(Shown(content, s)) \in {0, 1}
    <3>1. content # None /\ record.bytes = Len(w.text)
        BY <2>2 DEF WholeInv
    <3>2. content = w.text /\ record.manifest = manifest
        BY <2>2, <3>1 DEF ArchiveTypes, TypeOK
    <3>3. \A s \in Sources : manifest[s] - Cardinality(Shown(w.text, s)) \in {0, 1}
        BY ShownNumber DEF CountInv
    <3> QED
        BY <3>1, <3>2, <3>3
  <2> QED
      BY <2>1, <2>2
<1>5. Spec => []ArchiveTypes
    BY ArchiveTypesAlways
<1> QED
    BY <1>1, <1>2, <1>3, <1>4, <1>5, BudgetStep, CountStep, WholeStep, PTL DEF Spec
=============================================================================
