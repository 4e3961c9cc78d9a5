---------------------------- MODULE LimitedText ----------------------------
(***************************************************************************)
(* Text that is built up to a budget of bytes: the limit writer of         *)
(* CreateSnapshot and gatherFeedback, and the feedback of a phase.  A text *)
(* is a sequence of bytes, and a byte names the piece it belongs to.       *)
(***************************************************************************)
EXTENDS Integers, Sequences

\* Piece nr of a kind, n bytes long.
Piece(kind, nr, n) == [k \in 1 .. n |-> <<kind, nr, k>>]

\* n items of one piece of one byte each.
Lines(kind, n) == [i \in 1 .. n |-> << Piece(kind, i, 1) >>]

\* The pieces of a kind of which any byte is in a text.
Shown(text, kind) == {text[i][2] : i \in {j \in DOMAIN text : text[j][1] = kind}}

FirstBytes(text, n) == SubSeq(text, 1, IF Len(text) < n THEN Len(text) ELSE n)

\* max 0 stands for no limit; open is what the last call of the writer returned.
NewLimitWriter(max) == [text |-> <<>>, left |-> max, limited |-> max > 0, open |-> TRUE]

Put_NoRemainder(w, t) ==
    LET kept == IF w.limited THEN FirstBytes(t, w.left) ELSE t
    IN [w EXCEPT !.text = @ \o kept,
                 !.left = IF w.limited /\ Len(t) >= w.left THEN 0 ELSE @,
                 !.open = t = <<>> \/ ~w.limited \/ w.left - Len(kept) > 0]

\* appendWithLimit.
Put(w, t) ==
    LET kept == IF w.limited THEN FirstBytes(t, w.left) ELSE t
    IN [w EXCEPT !.text = @ \o kept,
                 !.left = IF w.limited THEN @ - Len(kept) ELSE @,
                 !.open = t = <<>> \/ ~w.limited \/ w.left - Len(kept) > 0]

\* The texts of one item, up to the first that the writer does not take.
PutItem(w, texts) ==
    LET put[k \in 0 .. Len(texts)] ==
            IF k = 0 THEN [w EXCEPT !.open = TRUE]
            ELSE IF put[k - 1].open THEN Put(put[k - 1], texts[k]) ELSE put[k - 1]
    IN put[Len(texts)]

\* A loop over items that counts each one before it writes it, and breaks when one does
\* not fit.
PutItems(w, items) ==
    LET put[k \in 0 .. Len(items)] ==
            IF k = 0 THEN [w |-> w, n |-> 0, stop |-> FALSE]
            ELSE IF put[k - 1].stop THEN put[k - 1]
            ELSE LET v == PutItem(put[k - 1].w, items[k])
                 IN [w |-> v, n |-> put[k - 1].n + 1, stop |-> ~v.open]
    IN put[Len(items)]

LastItems(max, items) ==
    IF max > 0 /\ Len(items) > max THEN SubSeq(items, Len(items) - max + 1, Len(items)) ELSE items
-----------------------------------------------------------------------------
(* gatherFeedback *)

\* A heading that does not fit ends the function early: the record of the feedback then
\* says that it has no bytes.
Section(s, heading, items) ==
    IF s.returned \/ items = <<>> THEN s
    ELSE LET v == Put(s.w, heading)
             r == PutItems(v, items)
         IN IF v.open THEN [s EXCEPT !.w = r.w, !.counts = Append(@, r.n)]
                      ELSE [s EXCEPT !.w = v, !.returned = TRUE]

\* What a document of n bytes becomes in a mode, and the line that names its file; a
\* summary has at most one byte.
Injected(mode, kind, nr, n) ==
    CASE mode = "inline" -> << Piece(kind, nr, n) >>
      [] mode = "summary_ref" -> << Piece(kind, nr, IF n > 0 THEN 1 ELSE 0) >>
      [] mode = "ref_only" -> <<>>

FileLine(nr) == Piece("file", nr, 1)

\* What ends a document: a new line, or the line that names its file.
Ending(mode, nr) == IF mode = "inline" THEN Piece("end", nr, 1) ELSE FileLine(nr)

NoText == <<>>

\* The snapshot of a resumed run, NoText if there is none; ref tells how to use references.
ResumeSnapshot(s, ref, mode, snapshot) ==
    LET v == PutItem(s.w, ref \o << Piece("heading", 1, 1) >>
                              \o Injected(mode, "snapshot", 1, Len(snapshot)))
    IN IF snapshot = NoText THEN s
       ELSE IF v.open THEN [s EXCEPT !.w = Put(v, Ending(mode, 0))]
       ELSE [s EXCEPT !.w = v, !.returned = TRUE]

\* The memory documents, each with a title.
Documents(ref, mode, docs) ==
    [i \in DOMAIN docs |-> (IF i = 1 THEN ref ELSE <<>>) \o << Piece("title", i, 1) >>
                              \o Injected(mode, "memory", i, docs[i]) \o << Ending(mode, i) >>]

\* Those two, the events and the artifacts of the run.  How to use references is said
\* once, before the first of them.
Gathered(max, snapshotMode, memoryMode, snapshot, docs, events, artifacts) ==
    LET ref == IF {snapshotMode, memoryMode} = {"inline"} THEN <<>> ELSE << Piece("ref", 1, 1) >>
        start == [w |-> NewLimitWriter(max), counts |-> <<>>, returned |-> FALSE]
        s1 == ResumeSnapshot(start, ref, snapshotMode, snapshot)
        s2 == Section(s1, <<>>, Documents(IF snapshot = NoText THEN ref ELSE <<>>, memoryMode, docs))
        s3 == Section(s2, Piece("heading", 2, 1), Lines("event", events))
    IN Section(s3, Piece("heading", 3, 1), Lines("artifact", artifacts))

GatherFeedback(max, snapshotMode, memoryMode, snapshot, docs, events, artifacts) ==
    LET s == Gathered(max, snapshotMode, memoryMode, snapshot, docs, events, artifacts)
    IN [text |-> s.w.text, bytes |-> IF s.returned THEN 0 ELSE Len(s.w.text), counts |-> s.counts]
=============================================================================
