------------------------------ MODULE Terminal ------------------------------
(***************************************************************************)
(* One terminal session: the process behind a pty, the goroutine that      *)
(* streams its output through the DSR filter into a bounded buffer and to  *)
(* the subscribers, the goroutine that waits for the process, and the      *)
(* websocket handlers of the clients with their writer goroutines.         *)
(*                                                                         *)
(* The process writes a given text, a sequence of bytes, as far as it      *)
(* likes.                                                                  *)
(***************************************************************************)
EXTENDS Integers, Sequences, FiniteSets, SequencesExt

CONSTANTS
    Clients,      \* browsers that may open the websocket
    Texts,        \* what the process may write
    ReadMax,      \* bytes one read of the pty returns at most (4096)
    OutputMax,    \* bytes the buffer holds (maxOutputBytes)
    ChannelSize,  \* chunks a subscriber's channel holds (16)
    MaxVisits     \* bound: connections of one client

Bytes == UNION {Range(t) : t \in Texts}

ASSUME TextsAreSequences == Texts \subseteq Seq(Bytes)

ASSUME SizesArePositive == {ReadMax, OutputMax, ChannelSize, MaxVisits} \subseteq Nat \ {0}

Query == <<"ESC", "[", "6", "n">>
Response == <<"ESC", "[", "1", ";", "1", "R">>

VARIABLES
    text,      \* what the process of this session would write
    status,    \* Session.Status, "absent" before Create
    proc,      \* "none", "running" or "exited"
    ptyOpen,   \* ptyFile is not closed
    written,   \* bytes the process has written
    read,      \* bytes the stream has read
    pending,   \* DSRFilter.pending
    answers,   \* responses the filter has sent
    chunk,     \* filtered chunk in the hand of the stream
    shown,     \* history: all that was appended to the buffer
    output,    \* the buffer
    stream,    \* "none", "read", "append", "broadcast", "close" or "gone"
    waiter,    \* "none", "wait", "closing" or "gone"
    attached,
    subs,      \* clients whose channel is in s.subs
    queue,     \* per client, the content of its channel
    closed,    \* clients whose channel is closed
    handler,   \* per client, position in handleTerminalSessionWS
    writer,    \* per client, state of its writer goroutine
    conn,      \* per client, "none", "open" or "gone"
    visits,    \* per client, number of its connections
    snap,      \* per client, the snapshot it got
    live,      \* per client, the chunks it got
    missed     \* history: per client, a chunk was dropped for it

source == <<text, proc, ptyOpen, written>>
buffer == <<read, pending, answers, chunk, shown, output>>
channels == <<subs, queue, closed, missed>>
clients == <<handler, writer, conn, visits, snap, live>>
vars == <<source, status, buffer, stream, waiter, attached, channels, clients>>
-----------------------------------------------------------------------------
(* DSRFilter *)

ScanStep_DropPartial(data, scan, i) ==
    LET rest == SubSeq(data, i, Len(data)) IN
    IF i = Len(data) + 1 THEN [out |-> <<>>, pending |-> <<>>, answers |-> 0]
    ELSE IF IsPrefix(Query, rest) THEN [scan[i + Len(Query)] EXCEPT !.answers = @ + 1]
    ELSE IF IsPrefix(Response, rest) THEN scan[i + Len(Response)]
    ELSE [scan[i + 1] EXCEPT !.out = <<data[i]>> \o @]

\* The filter at place i of its data: queries are answered and removed, responses removed;
\* what may be the beginning of one is kept for the next call.
ScanStep(data, scan, i) ==
    LET rest == SubSeq(data, i, Len(data)) IN
    IF i = Len(data) + 1 THEN [out |-> <<>>, pending |-> <<>>, answers |-> 0]
    ELSE IF IsPrefix(Query, rest) THEN [scan[i + Len(Query)] EXCEPT !.answers = @ + 1]
    ELSE IF IsPrefix(Response, rest) THEN scan[i + Len(Response)]
    ELSE IF IsPrefix(rest, Query) \/ IsPrefix(rest, Response)
         THEN [out |-> <<>>, pending |-> rest, answers |-> 0]
    ELSE [scan[i + 1] EXCEPT !.out = <<data[i]>> \o @]

Scan(data) == LET scan[i \in 1 .. Len(data) + 1] == ScanStep(data, scan, i) IN scan

Filter(pend, input) == Scan(pend \o input)[1]
-----------------------------------------------------------------------------
(* The session and its goroutines *)

Mutex == waiter # "closing"   \* s.mu, which wait holds until the subscribers are closed

\* Manager.Create.  If the process cannot be started, nothing is kept.
Create == /\ status' = "running" /\ proc' = "running" /\ ptyOpen' = TRUE
          /\ stream' = "read" /\ waiter' = "wait"
          /\ UNCHANGED <<text, written, buffer, attached, channels, clients>>

\* POST /terminal/sessions; a second session would share nothing with the first.
PostSession == status = "absent" /\ Create

ProcessWrites == /\ proc = "running" /\ written < Len(text)
                 /\ written' = written + 1
                 /\ UNCHANGED <<text, proc, ptyOpen, status, buffer, stream, waiter, attached,
                                channels, clients>>

ProcessExits == /\ proc = "running"
                /\ proc' = "exited"
                /\ UNCHANGED <<text, ptyOpen, written, status, buffer, stream, waiter, attached,
                               channels, clients>>

\* Session.Close: the process is killed, and wait does the rest.
Close == /\ status # "closed" /\ proc = "running" /\ Mutex
         /\ proc' = "exited"
         /\ UNCHANGED <<text, ptyOpen, written, status, buffer, stream, waiter, attached,
                        channels, clients>>

\* DELETE /terminal/sessions/{id}; a session stays in the list when it is closed.
DeleteSession == status # "absent" /\ Close

\* startStream: one read and the filter.
StreamReads ==
    /\ stream = "read" /\ ptyOpen
    /\ \E n \in 1 .. ReadMax :
          /\ read + n <= written
          /\ LET f == Filter(pending, SubSeq(text, read + 1, read + n)) IN
             /\ pending' = f.pending
             /\ answers' = answers + f.answers
             /\ chunk' = f.out
             /\ stream' = IF f.out = <<>> THEN "read" ELSE "append"
          /\ read' = read + n
    /\ UNCHANGED <<source, status, shown, output, waiter, attached, channels, clients>>

StreamFails == /\ stream = "read"
               /\ ~ptyOpen \/ (proc = "exited" /\ read = written)
               /\ stream' = "close"
               /\ UNCHANGED <<source, status, buffer, waiter, attached, channels, clients>>

LastBytes(s, n) == SubSeq(s, Len(s) - n + 1, Len(s))

Kept_WrongEnd(out, c) ==
    IF Len(c) >= OutputMax THEN LastBytes(c, OutputMax)
    ELSE IF Len(out) + Len(c) <= OutputMax THEN out \o c
    ELSE SubSeq(out, 1, OutputMax - Len(c)) \o c

Kept(out, c) ==
    IF Len(c) >= OutputMax THEN LastBytes(c, OutputMax)
    ELSE IF Len(out) + Len(c) <= OutputMax THEN out \o c
    ELSE LET overflow == Len(out) + Len(c) - OutputMax
         IN SubSeq(out, overflow + 1, Len(out)) \o c

AppendOutput == /\ stream = "append"
                /\ output' = Kept(output, chunk)
                /\ shown' = shown \o chunk
                /\ stream' = "broadcast"
                /\ UNCHANGED <<source, status, read, pending, answers, chunk, waiter, attached,
                               channels, clients>>

Broadcast_Unbounded ==
    /\ stream = "broadcast"
    /\ queue' = [c \in Clients |-> IF c \in subs THEN Append(queue[c], chunk) ELSE queue[c]]
    /\ chunk' = <<>>
    /\ stream' = "read"
    /\ UNCHANGED <<source, status, read, pending, answers, shown, output, waiter, attached,
                   subs, closed, missed, clients>>

\* A channel that is full misses the chunk.
Broadcast ==
    /\ stream = "broadcast"
    /\ LET room == {c \in subs : Len(queue[c]) < ChannelSize} IN
       /\ queue' = [c \in Clients |-> IF c \in room THEN Append(queue[c], chunk) ELSE queue[c]]
       /\ missed' = missed \cup (subs \ room)
    /\ chunk' = <<>>
    /\ stream' = "read"
    /\ UNCHANGED <<source, status, read, pending, answers, shown, output, waiter, attached,
                   subs, closed, clients>>

CloseSubscribers_KeepSet ==
    /\ closed' = closed \cup subs
    /\ UNCHANGED <<subs, queue, missed>>

CloseSubscribers == /\ closed' = closed \cup subs
                    /\ subs' = {}
                    /\ UNCHANGED <<queue, missed>>

StreamEnds == /\ stream = "close"
              /\ CloseSubscribers
              /\ stream' = "gone"
              /\ UNCHANGED <<source, status, buffer, waiter, attached, clients>>

\* wait: the process is reaped, the pty closed whether it has been read or not.
WaitReturns == /\ waiter = "wait" /\ proc = "exited"
               /\ status' = "closed" /\ ptyOpen' = FALSE
               /\ waiter' = "closing"
               /\ UNCHANGED <<text, proc, written, buffer, stream, attached, channels, clients>>

WaitCloses == /\ waiter = "closing"
              /\ CloseSubscribers
              /\ waiter' = "gone"
              /\ UNCHANGED <<source, status, buffer, stream, attached, clients>>
-----------------------------------------------------------------------------
(* The websocket handler of a client *)

Session == <<source, status, buffer, stream, waiter>>

Move(c, pc) == handler' = [handler EXCEPT ![c] = pc]

\* A session that is attached or closed is refused, and nothing changes.
TryAttach(c) == /\ handler[c] = "idle" /\ visits[c] < MaxVisits /\ Mutex
                /\ ~attached /\ status = "running"
                /\ attached' = TRUE
                /\ Move(c, "upgrade")
                /\ visits' = [visits EXCEPT ![c] = @ + 1]
                /\ UNCHANGED <<Session, channels, writer, conn, snap, live>>

UpgradeFails(c) == /\ handler[c] = "upgrade"
                   /\ Move(c, "detach")
                   /\ UNCHANGED <<Session, attached, channels, writer, conn, visits, snap, live>>

Upgrade(c) == /\ handler[c] = "upgrade" /\ Mutex
              /\ Move(c, "snapshot")
              /\ conn' = [conn EXCEPT ![c] = "open"]
              /\ UNCHANGED <<Session, attached, channels, writer, visits, snap, live>>

\* OutputSnapshot and its write to the connection.
Snapshot(c) == /\ handler[c] = "snapshot"
               /\ snap' = [snap EXCEPT ![c] = output]
               /\ Move(c, "subscribe")
               /\ UNCHANGED <<Session, attached, channels, writer, conn, visits, live>>

\* Subscribe, whether the stream has ended or not.
Subscribe(c) == /\ handler[c] = "subscribe"
                /\ subs' = subs \cup {c}
                /\ queue' = [queue EXCEPT ![c] = <<>>]
                /\ closed' = closed \ {c} /\ missed' = missed \ {c}
                /\ writer' = [writer EXCEPT ![c] = "range"]
                /\ Move(c, "serve")
                /\ UNCHANGED <<Session, attached, conn, visits, snap, live>>

Unsubscribe(c) == /\ subs' = subs \ {c}
                  /\ closed' = IF c \in subs THEN closed \cup {c} ELSE closed
                  /\ UNCHANGED <<queue, missed>>

ClientLeaves(c) == /\ conn[c] = "open"
                   /\ conn' = [conn EXCEPT ![c] = "gone"]
                   /\ UNCHANGED <<Session, attached, channels, handler, writer, visits, snap, live>>

\* for chunk := range sub.  A write to a client that has left may still succeed.
WriterSends(c) ==
    /\ writer[c] = "range" /\ queue[c] # <<>>
    /\ queue' = [queue EXCEPT ![c] = Tail(@)]
    /\ live' = IF conn[c] = "open" THEN [live EXCEPT ![c] = Append(@, Head(queue[c]))] ELSE live
    /\ UNCHANGED <<Session, attached, subs, closed, missed, handler, writer, conn, visits, snap>>

WriterFails(c) ==
    /\ writer[c] = "range" /\ queue[c] # <<>> /\ conn[c] = "gone"
    /\ Unsubscribe(c)
    /\ writer' = [writer EXCEPT ![c] = "gone"]
    /\ UNCHANGED <<Session, attached, handler, conn, visits, snap, live>>

WriterEnds(c) ==
    /\ writer[c] = "range" /\ queue[c] = <<>> /\ c \in closed
    /\ writer' = [writer EXCEPT ![c] = "gone"]
    /\ UNCHANGED <<Session, attached, channels, handler, conn, visits, snap, live>>

ReadFails_NoCleanup(c) ==
    /\ handler[c] = "serve" /\ conn[c] = "gone"
    /\ Move(c, "join")
    /\ UNCHANGED <<Session, attached, channels, writer, conn, visits, snap, live>>

\* The loop that passes input to the pty ends only with the connection.
ReadFails(c) == /\ handler[c] = "serve" /\ conn[c] = "gone"
                /\ Unsubscribe(c)
                /\ Move(c, "join")
                /\ UNCHANGED <<Session, attached, writer, conn, visits, snap, live>>

Join(c) == /\ handler[c] = "join" /\ writer[c] = "gone"
           /\ Move(c, "detach")
           /\ UNCHANGED <<Session, attached, channels, writer, conn, visits, snap, live>>

\* The deferred conn.Close and Detach.
Detach(c) == /\ handler[c] = "detach" /\ Mutex
             /\ attached' = FALSE
             /\ Move(c, "idle")
             /\ writer' = [writer EXCEPT ![c] = "none"]
             /\ conn' = [conn EXCEPT ![c] = "none"]
             /\ snap' = [snap EXCEPT ![c] = <<>>] /\ live' = [live EXCEPT ![c] = <<>>]
             /\ UNCHANGED <<Session, channels, visits>>
-----------------------------------------------------------------------------
Init == /\ text \in Texts
        /\ status = "absent" /\ proc = "none" /\ ptyOpen = FALSE
        /\ written = 0 /\ read = 0 /\ pending = <<>> /\ answers = 0
        /\ chunk = <<>> /\ shown = <<>> /\ output = <<>>
        /\ stream = "none" /\ waiter = "none" /\ attached = FALSE
        /\ subs = {} /\ closed = {} /\ missed = {}
        /\ queue = [c \in Clients |-> <<>>]
        /\ handler = [c \in Clients |-> "idle"]
        /\ writer = [c \in Clients |-> "none"]
        /\ conn = [c \in Clients |-> "none"]
        /\ visits = [c \in Clients |-> 0]
        /\ snap = [c \in Clients |-> <<>>]
        /\ live = [c \in Clients |-> <<>>]

Stream == StreamReads \/ StreamFails \/ AppendOutput \/ Broadcast \/ StreamEnds

Wait == WaitReturns \/ WaitCloses

Handler(c) == \/ Upgrade(c) \/ UpgradeFails(c) \/ Snapshot(c) \/ Subscribe(c)
              \/ ReadFails(c) \/ Join(c) \/ Detach(c)

Writer(c) == WriterSends(c) \/ WriterFails(c) \/ WriterEnds(c)

Process == ProcessWrites \/ ProcessExits

\* Nothing is left to do but for clients that stay.
Over == stream = "gone" /\ waiter = "gone" /\ UNCHANGED vars

Next == \/ PostSession \/ Process \/ DeleteSession \/ Stream \/ Wait
        \/ \E c \in Clients : TryAttach(c) \/ Handler(c) \/ Writer(c) \/ ClientLeaves(c)
        \/ Over

Spec == Init /\ [][Next]_vars
-----------------------------------------------------------------------------
(* Properties *)

\* The fields of the session and the locals of its goroutines have their types, a channel
\* holds what it is made for, and at most one client is attached, which the session knows.
TypeOK ==
    /\ text \in Texts
    /\ status \in {"absent", "running", "closed"}
    /\ proc \in {"none", "running", "exited"} /\ ptyOpen \in BOOLEAN
    /\ written \in 0 .. Len(text) /\ read \in 0 .. written /\ answers \in 0 .. read
    /\ {pending, chunk, shown, output} \subseteq Seq(Bytes)
    /\ stream \in {"none", "read", "append", "broadcast", "close", "gone"}
    /\ waiter \in {"none", "wait", "closing", "gone"}
    /\ attached \in BOOLEAN
    /\ subs \subseteq Clients /\ closed \subseteq Clients /\ missed \subseteq Clients
    /\ queue \in [Clients -> Seq(Seq(Bytes))] /\ live \in [Clients -> Seq(Seq(Bytes))]
    /\ \A c \in Clients : Len(queue[c]) <= ChannelSize
    /\ handler \in [Clients -> {"idle", "upgrade", "snapshot", "subscribe", "serve", "join",
                                "detach"}]
    /\ writer \in [Clients -> {"none", "range", "gone"}]
    /\ conn \in [Clients -> {"none", "open", "gone"}]
    /\ visits \in [Clients -> 0 .. MaxVisits]
    /\ snap \in [Clients -> Seq(Bytes)]
    /\ attached <=> \E c \in Clients : handler[c] # "idle"
    /\ \A c, d \in Clients : handler[c] # "idle" /\ handler[d] # "idle" => c = d

\* A client should see the bytes outside of queries and responses.
Occurs(p, t, i) == i >= 1 /\ i + Len(p) - 1 <= Len(t) /\ SubSeq(t, i, i + Len(p) - 1) = p

Covers(p, t, k, i) == Occurs(p, t, k) /\ k <= i /\ i <= k + Len(p) - 1

Visible(t, n) == {i \in 1 .. n : \A p \in {Query, Response} :
                                    \A k \in 1 .. i : ~Covers(p, t, k, i)}

\* s is the visible bytes of the first n of t: one for each visible place, at its rank.
Shows(s, t, n) == /\ Len(s) = Cardinality(Visible(t, n))
                  /\ \A i \in Visible(t, n) : s[Cardinality(Visible(t, i))] = t[i]

Queries(t, n) == {i \in 1 .. n : Occurs(Query, t, i) /\ i + Len(Query) - 1 <= n}

\* What is withheld of the first n.
Withheld(t, n, x) == /\ Len(x) <= n /\ x = SubSeq(t, n - Len(x) + 1, n)
                     /\ x # <<>> => \E p \in {Query, Response} : IsStrictPrefix(x, p)

Recent(s) == LastBytes(s, IF Len(s) > OutputMax THEN OutputMax ELSE Len(s))

Filtered == shown \o (IF stream = "append" THEN chunk ELSE <<>>)

\* Whatever the reads cut the output into, the filter shows all of it but the queries and
\* responses, answers each query once, and withholds nothing but the start of one; the
\* buffer holds the last bytes shown.
BufferIsTail ==
    /\ Shows(Filtered, text, read - Len(pending))
    /\ answers = Cardinality(Queries(text, read))
    /\ Withheld(text, read, pending)
    /\ output = Recent(shown)

\* x is what s holds after its first n bytes.
Lies(x, s, n) == n + Len(x) <= Len(s) /\ x = SubSeq(s, n + 1, n + Len(x))

\* The chunks client c has, or will have while its connection lasts.
Got(c) == live[c] \o (IF conn[c] = "open" /\ writer[c] = "range" THEN queue[c] ELSE <<>>)

\* A client sees what it gets in the order it was written: the snapshot, then the chunks,
\* of which only the first may repeat the end of the snapshot (the stream was between
\* buffer and subscribers); and without a gap after the first, unless one was dropped.
InOrder ==
    \A c \in Clients :
        \E b \in 0 .. Len(shown), p \in [DOMAIN Got(c) -> 0 .. Len(shown)] :
           /\ Lies(snap[c], shown, b) /\ \A i \in DOMAIN p : Lies(Got(c)[i], shown, p[i])
           /\ \A i \in 1 .. Len(Got(c)) - 1 :
                 /\ p[i] + Len(Got(c)[i]) <= p[i + 1]
                 /\ c \notin missed => p[i] + Len(Got(c)[i]) = p[i + 1]
                 /\ b + Len(snap[c]) <= p[i + 1]

\* No goroutine sends on, or closes, a closed channel, which would end the whole server:
\* the stream, wait, the handler and its writer all close channels.
ChannelsOpen == subs \cap closed = {}
-----------------------------------------------------------------------------
(* Why the properties hold *)

\* The filter stops between two queries or responses: one that begins before has ended.
Boundary(t, n) == \A p \in {Query, Response} : \A k \in 1 .. n :
                      Occurs(p, t, k) => k + Len(p) - 1 <= n

TerminalInv == /\ TypeOK /\ BufferIsTail /\ ChannelsOpen
               /\ Boundary(text, read - Len(pending))
               /\ status = "absent" => stream = "none"

\* x lies in s before the place b; the chunks g lie behind one another, each after the first
\* p[i] bytes, and end neither before b nor after m.
InPlace(g, p, x, b, s, m) ==
    /\ Len(x) <= b /\ Lies(x, s, b - Len(x))
    /\ \A i \in DOMAIN g : /\ g[i] # <<>> /\ Lies(g[i], s, p[i])
                           /\ b <= p[i] + Len(g[i]) /\ p[i] + Len(g[i]) <= m
    /\ \A i \in 1 .. Len(g) - 1 : p[i] + Len(g[i]) <= p[i + 1]

WithoutGap(g, p) == \A i \in 1 .. Len(g) - 1 : p[i] + Len(g[i]) = p[i + 1]

EndsAt(g, p, m) == g # <<>> => p[Len(g)] + Len(g[Len(g)]) = m

\* So much of what was shown has been sent to the subscribers.
Sent == Len(shown) - (IF stream = "broadcast" THEN Len(chunk) ELSE 0)

\* The chunks of c lie in what was sent, and a subscriber that missed none has the last.
Placed(c) ==
    \E b \in 0 .. Len(shown), p \in [DOMAIN Got(c) -> 0 .. Len(shown)] :
       /\ InPlace(Got(c), p, snap[c], b, shown, Sent)
       /\ c \notin missed => WithoutGap(Got(c), p)
       /\ c \in subs \ missed /\ conn[c] = "open" => EndsAt(Got(c), p, Sent)

\* A client has nothing before its handler has subscribed it.
Subscribed(c) ==
    /\ c \in subs => handler[c] = "serve" /\ writer[c] = "range"
    /\ handler[c] \in {"idle", "upgrade", "snapshot", "subscribe"} =>
          writer[c] = "none" /\ live[c] = <<>>

ChunkInHand == /\ stream \in {"append", "broadcast"} => chunk # <<>>
               /\ stream = "broadcast" => Len(chunk) <= Len(shown) /\ Lies(chunk, shown, Sent)

OrderInv == TerminalInv /\ ChunkInHand /\ \A c \in Clients : Subscribed(c) /\ Placed(c)
=============================================================================
