--------------------------- MODULE TerminalProofs ---------------------------
(***************************************************************************)
(* What Terminal's runs check of the types, the buffer and the channels    *)
(* holds for any texts, clients and sizes.                                 *)
(***************************************************************************)
EXTENDS FilterProofs

LEMMA Sizes == /\ ReadMax \in Nat \ {0} /\ OutputMax \in Nat \ {0}
               /\ ChannelSize \in Nat \ {0} /\ MaxVisits \in Nat \ {0}
BY SizesArePositive
-----------------------------------------------------------------------------
(* The buffer *)

LEMMA LastBytesAre ==
    ASSUME NEW s \in Seq(Bytes), NEW n \in 0 .. Len(s)
    PROVE  /\ LastBytes(s, n) \in Seq(Bytes) /\ Len(LastBytes(s, n)) = n
           /\ \A i \in 1 .. n : LastBytes(s, n)[i] = s[Len(s) - n + i]
<1> DEFINE l == Len(s)
           m == l - n + 1
<1>1. l \in Nat /\ n \in Nat /\ n <= l /\ m \in 1 .. l + 1 /\ l - m + 1 = n
  OBVIOUS
<1>2. \A i \in m .. l : s[i] \in Bytes
  <2>1. m .. l \subseteq 1 .. l
    BY <1>1
  <2> QED BY <2>1, ElementOfSeq
<1>3. /\ SubSeq(s, m, l) \in Seq(Bytes)
      /\ Len(SubSeq(s, m, l)) = IF m <= l THEN l - m + 1 ELSE 0
      /\ \A i \in 1 .. l - m + 1 : SubSeq(s, m, l)[i] = s[m + i - 1]
  <2>1. m \in Int /\ l \in Int
    BY <1>1
  <2> HIDE DEF m, l
  <2> QED BY <1>2, <2>1, SubSeqProperties
<1>4. \A i \in 1 .. n : m + i - 1 = l - n + i
  BY <1>1
<1>5. m <= l \/ n = 0
  BY <1>1
<1>6. LastBytes(s, n) = SubSeq(s, m, l)
  BY DEF LastBytes
<1> HIDE DEF m
<1> QED BY <1>1, <1>3, <1>4, <1>5, <1>6

LEMMA RecentAre ==
    ASSUME NEW s \in Seq(Bytes)
    PROVE  LET n == IF Len(s) > OutputMax THEN OutputMax ELSE Len(s)
           IN /\ Recent(s) \in Seq(Bytes) /\ Len(Recent(s)) = n
              /\ \A i \in 1 .. n : Recent(s)[i] = s[Len(s) - n + i]
<1> DEFINE n == IF Len(s) > OutputMax THEN OutputMax ELSE Len(s)
<1>1. n \in 0 .. Len(s)
  BY Sizes
<1>2. Recent(s) = LastBytes(s, n)
  BY DEF Recent
<1> HIDE DEF n
<1>3. /\ Recent(s) \in Seq(Bytes) /\ Len(Recent(s)) = n
      /\ \A i \in 1 .. n : Recent(s)[i] = s[Len(s) - n + i]
  BY <1>1, <1>2, LastBytesAre
<1> QED BY <1>3 DEF n

\* What the buffer keeps of its bytes and a chunk is the most recent of what was shown.
LEMMA KeptIsRecent ==
    ASSUME NEW s \in Seq(Bytes), NEW c \in Seq(Bytes)
    PROVE  Kept(Recent(s), c) = Recent(s \o c)
<1> DEFINE out == Recent(s)
           n == IF Len(s) > OutputMax THEN OutputMax ELSE Len(s)
           u == s \o c
           m == IF Len(u) > OutputMax THEN OutputMax ELSE Len(u)
           k == Kept(out, c)
<1>1. /\ out \in Seq(Bytes) /\ Len(out) = n
      /\ \A i \in 1 .. n : out[i] = s[Len(s) - n + i]
  BY RecentAre
<1>2. /\ u \in Seq(Bytes) /\ Len(u) = Len(s) + Len(c)
      /\ \A i \in 1 .. Len(s) : u[i] = s[i]
      /\ \A i \in 1 .. Len(c) : u[Len(s) + i] = c[i]
  <2>1. /\ u \in Seq(Bytes) /\ Len(u) = Len(s) + Len(c)
        /\ \A i \in 1 .. Len(s) + Len(c) : u[i] = IF i <= Len(s) THEN s[i] ELSE c[i - Len(s)]
    BY ConcatProperties
  <2>2. Len(s) \in Nat /\ Len(c) \in Nat
    OBVIOUS
  <2> HIDE DEF u
  <2>3. ASSUME NEW i \in 1 .. Len(s) PROVE u[i] = s[i]
    <3>1. i \in 1 .. Len(s) + Len(c) /\ i <= Len(s)
      BY <2>2
    <3> QED BY <2>1, <3>1
  <2>4. ASSUME NEW i \in 1 .. Len(c) PROVE u[Len(s) + i] = c[i]
    <3>1. /\ Len(s) + i \in 1 .. Len(s) + Len(c) /\ ~ (Len(s) + i <= Len(s))
          /\ Len(s) + i - Len(s) = i
      BY <2>2
    <3> QED BY <2>1, <3>1
  <2> QED BY <2>1, <2>3, <2>4
<1>3. /\ Recent(u) \in Seq(Bytes) /\ Len(Recent(u)) = m
      /\ \A i \in 1 .. m : Recent(u)[i] = u[Len(u) - m + i]
  BY <1>2, RecentAre
<1>4. OutputMax \in Nat \ {0} /\ Len(s) \in Nat /\ Len(c) \in Nat /\ n \in Nat /\ m \in Nat
  BY <1>2, Sizes
<1> HIDE DEF out, u
<1>5. SUFFICES /\ k \in Seq(Bytes) /\ Len(k) = m
               /\ \A i \in 1 .. m : k[i] = u[Len(u) - m + i]
  <2> HIDE DEF k, m
  <2>1. ASSUME /\ k \in Seq(Bytes) /\ Len(k) = m
               /\ \A i \in 1 .. m : k[i] = u[Len(u) - m + i]
        PROVE  k = Recent(u)
    BY <1>3, <2>1, SeqEqual
  <2> QED BY <2>1 DEF k, out, u
<1>6. CASE Len(c) >= OutputMax
  <2>1. k = LastBytes(c, OutputMax) /\ m = OutputMax
    BY <1>2, <1>4, <1>6 DEF Kept
  <2>2. /\ k \in Seq(Bytes) /\ Len(k) = m
        /\ \A i \in 1 .. m : k[i] = c[Len(c) - m + i]
    <3>1. OutputMax \in 0 .. Len(c)
      BY <1>4, <1>6
    <3> HIDE DEF k, m
    <3> QED BY <2>1, <3>1, LastBytesAre
  <2> HIDE DEF k, m
  <2>3. ASSUME NEW i \in 1 .. m PROVE u[Len(u) - m + i] = c[Len(c) - m + i]
    <3>1. Len(u) - m + i = Len(s) + (Len(c) - m + i) /\ Len(c) - m + i \in 1 .. Len(c)
      BY <1>2, <1>4, <1>6, <2>1
    <3> QED BY <1>2, <3>1
  <2> QED BY <2>2, <2>3
<1>7. CASE Len(c) < OutputMax /\ n + Len(c) <= OutputMax
  <2>1. k = out \o c
    <3>1. ~ (Len(c) >= OutputMax) /\ Len(out) + Len(c) <= OutputMax
      <4> HIDE DEF n
      <4> QED BY <1>1, <1>4, <1>7
    <3> QED BY <3>1 DEF Kept
  <2>2. m = n + Len(c) /\ Len(u) - m = Len(s) - n
    <3>1. CASE Len(s) > OutputMax
      <4>1. n = OutputMax /\ Len(c) = 0
        BY <1>4, <1>7, <3>1
      <4> QED BY <1>2, <1>4, <3>1, <4>1
    <3>2. CASE ~ (Len(s) > OutputMax)
      <4>1. n = Len(s) /\ ~ (Len(u) > OutputMax)
        BY <1>2, <1>4, <1>7, <3>2
      <4>2. m = Len(u)
        BY <4>1
      <4> HIDE DEF m, n
      <4> QED BY <1>2, <1>4, <4>1, <4>2
    <3> QED BY <3>1, <3>2
  <2>3. /\ k \in Seq(Bytes) /\ Len(k) = n + Len(c)
        /\ \A i \in 1 .. n + Len(c) : k[i] = IF i <= n THEN out[i] ELSE c[i - n]
    <3> HIDE DEF n, k
    <3> QED BY <1>1, <2>1, ConcatProperties
  <2>4. n <= Len(s)
    BY <1>4
  <2> HIDE DEF k, m, n
  <2>5. ASSUME NEW i \in 1 .. m PROVE k[i] = u[Len(u) - m + i]
    <3>1. CASE i <= n
      <4>1. k[i] = s[Len(s) - n + i]
        BY <1>1, <1>4, <2>2, <2>3, <3>1
      <4>2. Len(s) - n + i \in 1 .. Len(s)
        BY <1>4, <2>4, <3>1
      <4>3. u[Len(s) - n + i] = s[Len(s) - n + i]
        BY <1>2, <4>2
      <4> QED BY <2>2, <4>1, <4>3
    <3>2. CASE i > n
      <4>1. k[i] = c[i - n]
        BY <1>4, <2>2, <2>3, <3>2
      <4>2. Len(s) - n + i = Len(s) + (i - n) /\ i - n \in 1 .. Len(c)
        BY <1>4, <2>2, <2>4, <3>2
      <4>3. u[Len(s) - n + i] = c[i - n]
        BY <1>2, <4>2
      <4> QED BY <2>2, <4>1, <4>3
    <3> QED BY <1>4, <3>1, <3>2
  <2> QED BY <2>2, <2>3, <2>5
<1>8. CASE Len(c) < OutputMax /\ n + Len(c) > OutputMax
  <2> DEFINE v == n + Len(c) - OutputMax
             w == SubSeq(out, v + 1, n)
  <2>1. k = w \o c
    <3>1. ~ (Len(c) >= OutputMax) /\ ~ (Len(out) + Len(c) <= OutputMax) /\ Len(out) = n
      <4> HIDE DEF n
      <4> QED BY <1>1, <1>4, <1>8
    <3> HIDE DEF n
    <3> QED BY <3>1 DEF Kept
  <2>2. m = OutputMax /\ v \in Nat /\ v <= n /\ n - v + Len(c) = m /\ n <= Len(s)
        /\ v + 1 \in Int /\ n \in Int
    <3>1. n <= Len(s) /\ n <= OutputMax
      BY <1>4
    <3>2. m = OutputMax
      <4> HIDE DEF n
      <4> QED BY <1>2, <1>4, <1>8, <3>1
    <3> HIDE DEF n, m
    <3> QED BY <1>4, <1>8, <3>1, <3>2
  <2>3. /\ w \in Seq(Bytes) /\ Len(w) = n - v
        /\ \A i \in 1 .. n - v : w[i] = out[v + i]
    <3> HIDE DEF n, v, m, k
    <3>1. \A i \in v + 1 .. n : out[i] \in Bytes
      <4>1. v + 1 .. n \subseteq 1 .. n
        BY <2>2
      <4> QED BY <1>1, <4>1, ElementOfSeq
    <3>2. /\ w \in Seq(Bytes)
          /\ Len(w) = IF v + 1 <= n THEN n - (v + 1) + 1 ELSE 0
          /\ \A i \in 1 .. n - (v + 1) + 1 : w[i] = out[v + 1 + i - 1]
      BY <2>2, <3>1, SubSeqProperties
    <3>3. n - (v + 1) + 1 = n - v /\ \A i \in 1 .. n - v : v + 1 + i - 1 = v + i
      BY <1>4, <2>2
    <3>4. ~ (v + 1 <= n) => n - v = 0
      BY <1>4, <2>2
    <3> HIDE DEF w
    <3> QED BY <3>2, <3>3, <3>4
  <2> HIDE DEF w
  <2>4. /\ k \in Seq(Bytes) /\ Len(k) = n - v + Len(c)
        /\ \A i \in 1 .. n - v + Len(c) : k[i] = IF i <= n - v THEN w[i] ELSE c[i - (n - v)]
    <3> HIDE DEF n, k, v
    <3> QED BY <2>1, <2>3, ConcatProperties
  <2>0. Len(u) - m = Len(s) - n + v /\ Len(s) - n \in Nat
    <3>1. Len(u) = Len(s) + Len(c)
      BY <1>2
    <3> HIDE DEF k, m, n, v
    <3> QED BY <1>4, <2>2, <3>1
  <2> HIDE DEF k, m, n, v
  <2>5. ASSUME NEW i \in 1 .. m PROVE k[i] = u[Len(u) - m + i]
    <3>1. CASE i <= n - v
      <4>1. /\ i \in 1 .. n - v /\ i \in 1 .. n - v + Len(c) /\ v + i \in 1 .. n
            /\ Len(u) - m + i = Len(s) - n + (v + i)
        BY <1>4, <2>0, <2>2, <3>1
      <4>2. k[i] = s[Len(s) - n + (v + i)]
        BY <1>1, <2>3, <2>4, <3>1, <4>1
      <4>3. Len(s) - n + (v + i) \in 1 .. Len(s)
        BY <1>4, <2>2, <4>1
      <4> QED BY <1>2, <4>1, <4>2, <4>3
    <3>2. CASE i > n - v
      <4>1. /\ i \in 1 .. n - v + Len(c) /\ ~ (i <= n - v)
            /\ Len(u) - m + i = Len(s) + (i - (n - v))
            /\ i - (n - v) \in 1 .. Len(c)
        BY <1>4, <2>0, <2>2, <3>2
      <4>2. k[i] = c[i - (n - v)]
        BY <2>4, <4>1
      <4>3. u[Len(s) + (i - (n - v))] = c[i - (n - v)]
        BY <1>2, <4>1
      <4> QED BY <4>1, <4>2, <4>3
    <3> QED BY <1>4, <2>2, <3>1, <3>2
  <2> QED BY <2>2, <2>4, <2>5
<1> HIDE DEF n, m, k
<1>9. Len(c) >= OutputMax \/ Len(c) < OutputMax
  BY <1>4
<1>10. n + Len(c) <= OutputMax \/ n + Len(c) > OutputMax
  BY <1>4
<1> QED BY <1>6, <1>7, <1>8, <1>9, <1>10
-----------------------------------------------------------------------------
(* The invariant in parts: the stream and its buffer, the session, the channels, the clients *)

BufferOK ==
    /\ text \in Texts
    /\ written \in 0 .. Len(text) /\ read \in 0 .. written /\ answers \in 0 .. read
    /\ {pending, chunk, shown, output} \subseteq Seq(Bytes)
    /\ stream \in {"none", "read", "append", "broadcast", "close", "gone"}
    /\ BufferIsTail /\ Boundary(text, read - Len(pending))

SessionOK ==
    /\ status \in {"absent", "running", "closed"}
    /\ proc \in {"none", "running", "exited"} /\ ptyOpen \in BOOLEAN
    /\ waiter \in {"none", "wait", "closing", "gone"}
    /\ status = "absent" => stream = "none"

ChannelsOK ==
    /\ subs \subseteq Clients /\ closed \subseteq Clients /\ missed \subseteq Clients
    /\ queue \in [Clients -> Seq(Seq(Bytes))]
    /\ \A c \in Clients : Len(queue[c]) <= ChannelSize
    /\ ChannelsOpen

ClientsOK ==
    /\ attached \in BOOLEAN
    /\ live \in [Clients -> Seq(Seq(Bytes))] /\ snap \in [Clients -> Seq(Bytes)]
    /\ handler \in [Clients -> {"idle", "upgrade", "snapshot", "subscribe", "serve", "join",
                                "detach"}]
    /\ writer \in [Clients -> {"none", "range", "gone"}]
    /\ conn \in [Clients -> {"none", "open", "gone"}]
    /\ visits \in [Clients -> 0 .. MaxVisits]
    /\ attached <=> \E c \in Clients : handler[c] # "idle"
    /\ \A c, d \in Clients : handler[c] # "idle" /\ handler[d] # "idle" => c = d

LEMMA InvParts == TerminalInv <=> BufferOK /\ SessionOK /\ ChannelsOK /\ ClientsOK
<1>1. TerminalInv => BufferOK /\ SessionOK
  BY DEF TerminalInv, TypeOK, BufferOK, SessionOK
<1>2. TerminalInv => ChannelsOK /\ ClientsOK
  BY DEF TerminalInv, TypeOK, ChannelsOK, ClientsOK
<1>3. BufferOK /\ SessionOK /\ ChannelsOK /\ ClientsOK => TypeOK
  BY DEF TypeOK, BufferOK, SessionOK, ChannelsOK, ClientsOK
<1>4. BufferOK /\ SessionOK /\ ChannelsOK /\ ClientsOK
          => /\ BufferIsTail /\ ChannelsOpen /\ Boundary(text, read - Len(pending))
             /\ status = "absent" => stream = "none"
  BY DEF BufferOK, SessionOK, ChannelsOK
<1> QED BY <1>1, <1>2, <1>3, <1>4 DEF TerminalInv

LEMMA PrimedInvParts == TerminalInv' <=> BufferOK' /\ SessionOK' /\ ChannelsOK' /\ ClientsOK'
<1>1. TerminalInv <=> BufferOK /\ SessionOK /\ ChannelsOK /\ ClientsOK
  BY InvParts
<1> QED BY <1>1, PTL

LEMMA BufferStays ==
    ASSUME BufferOK, UNCHANGED <<text, buffer>>, written' \in written .. Len(text),
           stream' \in {"none", "read", "append", "broadcast", "close", "gone"},
           stream' = "append" <=> stream = "append"
    PROVE  BufferOK'
<1>0. /\ text' = text /\ read' = read /\ pending' = pending /\ answers' = answers
      /\ chunk' = chunk /\ shown' = shown /\ output' = output
  BY DEF buffer
<1>1. Filtered' = Filtered
  BY <1>0 DEF Filtered
<1>2. BufferIsTail'
  <2>1. BufferIsTail
    BY DEF BufferOK
  <2>2. BufferIsTail' <=> /\ Shows(Filtered', text', read' - Len(pending'))
                          /\ answers' = Cardinality(Queries(text', read'))
                          /\ Withheld(text', read', pending') /\ output' = Recent(shown')
    BY DEF BufferIsTail, Shows, Queries, Withheld, Recent, Visible, Covers, Occurs, LastBytes
  <2>3. /\ Shows(Filtered', text', read' - Len(pending'))
        /\ answers' = Cardinality(Queries(text', read'))
        /\ Withheld(text', read', pending') /\ output' = Recent(shown')
    BY <1>0, <1>1, <2>1 DEF BufferIsTail
  <2> QED BY <2>2, <2>3
<1>3. Boundary(text, read - Len(pending))'
  <2>1. Boundary(text', read' - Len(pending'))
    BY <1>0 DEF BufferOK
  <2> QED BY <2>1 DEF Boundary, Occurs
<1> QED BY <1>0, <1>2, <1>3 DEF BufferOK

LEMMA BufferInit == Init => BufferOK
<1> SUFFICES ASSUME Init PROVE BufferOK
  OBVIOUS
<1>1. text \in Texts /\ text \in Seq(Bytes)
  BY TextsAreSequences DEF Init
<1>2. /\ written = 0 /\ read = 0 /\ pending = <<>> /\ answers = 0 /\ chunk = <<>>
      /\ shown = <<>> /\ output = <<>> /\ stream = "none" /\ Len(<<>>) = 0
      /\ <<>> \in Seq(Bytes) /\ Len(text) \in Nat
  BY <1>1 DEF Init
<1>3. Filtered = <<>>
  BY <1>2 DEF Filtered
<1>4. Visible(text, 0) = {} /\ Queries(text, 0) = {} /\ Cardinality({}) = 0
  BY FS_EmptySet DEF Visible, Queries
<1>5. Shows(Filtered, text, read - Len(pending))
  <2>1. read - Len(pending) = 0
    <3>1. Len(pending) = 0 /\ read = 0
      BY <1>2
    <3> QED BY <3>1
  <2>2. Shows(<<>>, text, 0)
    BY <1>2, <1>4 DEF Shows
  <2> QED BY <1>3, <2>1, <2>2
<1>6. answers = Cardinality(Queries(text, read))
  BY <1>2, <1>4
<1>7. Withheld(text, read, pending)
  BY <1>2, SubSeqEmpty DEF Withheld
<1>8. output = Recent(shown)
  <2>1. Recent(<<>>) \in Seq(Bytes) /\ Len(Recent(<<>>)) = 0
    <3>1. ~ (Len(<<>>) > OutputMax)
      BY <1>2, Sizes
    <3> QED BY <1>2, <3>1, RecentAre
  <2> QED BY <1>2, <2>1, EmptySeq
<1>9. Boundary(text, read - Len(pending))
  BY <1>2 DEF Boundary
<1> QED BY <1>1, <1>2, <1>5, <1>6, <1>7, <1>8, <1>9 DEF BufferOK, BufferIsTail

\* Between two calls the stream is at a place between queries and responses.
LEMMA StreamIsGood ==
    ASSUME BufferOK
    PROVE  /\ text \in Seq(Bytes) /\ read \in 0 .. Len(text) /\ written \in Nat
           /\ Len(pending) \in 0 .. read /\ Filtered \in Seq(Bytes) /\ answers \in Nat
           /\ Good(text, Filtered, answers, read - Len(pending))
<1>1. /\ text \in Seq(Bytes) /\ read \in 0 .. Len(text) /\ pending \in Seq(Bytes)
      /\ answers \in Nat /\ written \in Nat /\ read \in Nat
  BY TextsAreSequences DEF BufferOK
<1>2. Len(pending) \in 0 .. read /\ read - Len(pending) \in 0 .. Len(text)
  BY <1>1 DEF BufferOK, BufferIsTail, Withheld
<1>3. Filtered \in Seq(Bytes)
  BY DEF BufferOK, Filtered
<1>4. Queries(text, read) = Queries(text, read - Len(pending))
  BY <1>1, QueriesAreAnswered DEF BufferOK, BufferIsTail
<1> QED BY <1>1, <1>2, <1>3, <1>4 DEF BufferOK, BufferIsTail, Good

LEMMA ReadKeepsBuffer == BufferOK /\ StreamReads => BufferOK'
<1> SUFFICES ASSUME BufferOK, StreamReads PROVE BufferOK'
  OBVIOUS
<1> DEFINE b == read - Len(pending)
<1>1. PICK n \in 1 .. ReadMax :
        /\ read + n <= written /\ read' = read + n
        /\ LET f == Filter(pending, SubSeq(text, read + 1, read + n)) IN
           /\ pending' = f.pending
           /\ answers' = answers + f.answers
           /\ chunk' = f.out
           /\ stream' = IF f.out = <<>> THEN "read" ELSE "append"
  BY DEF StreamReads
<1> DEFINE r == read + n
           f == Scan(SubSeq(text, b + 1, r))[1]
           e == r - Len(f.pending)
<1>2. /\ stream = "read" /\ text' = text /\ written' = written /\ shown' = shown
      /\ output' = output
  BY DEF StreamReads, source
<1>3. /\ text \in Seq(Bytes) /\ read \in Nat /\ read + n \in 1 .. Len(text) /\ written \in Nat
      /\ Len(pending) \in 0 .. read /\ Filtered \in Seq(Bytes) /\ answers \in Nat
      /\ Good(text, Filtered, answers, b) /\ pending \in Seq(Bytes) /\ Len(text) \in Nat
  <2>1. /\ text \in Seq(Bytes) /\ read \in 0 .. Len(text) /\ written \in 0 .. Len(text)
        /\ Len(pending) \in 0 .. read /\ Filtered \in Seq(Bytes) /\ answers \in Nat
        /\ Good(text, Filtered, answers, b)
    BY StreamIsGood DEF BufferOK
  <2>2. Len(text) \in Nat
    BY <2>1
  <2> DEFINE l == Len(text)
  <2>3. read \in 0 .. l /\ written \in 0 .. l /\ l \in Nat
    BY <2>1, <2>2
  <2> HIDE DEF l, b
  <2>4. read \in Nat /\ written \in Nat /\ n \in Nat \ {0}
    BY <2>3, Sizes
  <2>5. read + n \in 1 .. l
    BY <1>1, <2>3, <2>4
  <2>6. pending \in Seq(Bytes)
    BY DEF BufferOK
  <2> QED BY <2>1, <2>2, <2>4, <2>5, <2>6 DEF l
<1>4. b \in 0 .. Len(text) /\ r \in b .. Len(text) /\ r \in 0 .. Len(text) /\ r \in Nat
  BY <1>1, <1>3, Sizes
<1>5. Continues(text, r, Filtered, answers, f)
  <2> HIDE DEF b, r
  <2> QED BY <1>3, <1>4, FilterWorks
<1>6. pending \o SubSeq(text, read + 1, r) = SubSeq(text, b + 1, r)
  <2>1. pending = SubSeq(text, b + 1, read)
    BY DEF BufferOK, BufferIsTail, Withheld
  <2>2. /\ b + 1 \in 1 .. Len(text) + 1 /\ read \in b + 1 - 1 .. Len(text)
        /\ r \in read .. Len(text)
    BY <1>3, <1>4
  <2> DEFINE m == b + 1
  <2>3. m \in 1 .. Len(text) + 1 /\ read \in m - 1 .. Len(text)
    BY <2>2
  <2> HIDE DEF b, r, m
  <2>4. SubSeq(text, m, read) \o SubSeq(text, read + 1, r) = SubSeq(text, m, r)
    BY <1>3, <2>2, <2>3, ConcatAdjacentSubSeq
  <2> USE DEF m
  <2> QED BY <2>1, <2>4
<1>7. /\ pending' = f.pending /\ answers' = answers + f.answers /\ chunk' = f.out
      /\ stream' = IF f.out = <<>> THEN "read" ELSE "append"
  BY <1>1, <1>6 DEF Filter
<1>0. read' = r /\ text' = text /\ pending' = f.pending /\ read' - Len(pending') = e
  BY <1>1, <1>2, <1>7
<1> HIDE DEF b, f, r
<1>8. /\ f.pending \in Seq(Bytes) /\ f.out \in Seq(Bytes) /\ f.answers \in Nat
      /\ Withheld(text, r, f.pending)
      /\ Good(text, Filtered \o f.out, answers + f.answers, e)
  <2>1. f \in FilterResult
    BY <1>5 DEF Continues
  <2>2. f.pending \in Seq(Bytes) /\ f.out \in Seq(Bytes) /\ f.answers \in Nat
    BY <2>1 DEF FilterResult
  <2> QED BY <1>5, <2>2 DEF Continues
<1> HIDE DEF e
<1>9. Filtered = shown
  BY <1>2 DEF Filtered, BufferOK
<1>10. Filtered' = shown \o f.out
  <2>1. CASE f.out = <<>>
    BY <1>2, <1>7, <2>1 DEF Filtered
  <2>2. CASE f.out # <<>>
    BY <1>2, <1>7, <2>2 DEF Filtered
  <2> QED BY <2>1, <2>2
<1>11. Shows(Filtered', text, e)
  BY <1>8, <1>9, <1>10 DEF Good
<1>12. answers + f.answers = Cardinality(Queries(text, r))
  <2>1. Boundary(text, e)
    BY <1>8 DEF Good
  <2>2. Queries(text, r) = Queries(text, e)
    <3>1. Boundary(text, r - Len(f.pending))
      BY <2>1 DEF e
    <3>2. Queries(text, r) = Queries(text, r - Len(f.pending))
      BY <1>3, <1>4, <1>8, <3>1, QueriesAreAnswered
    <3> QED BY <3>2 DEF e
  <2> QED BY <1>8, <2>2 DEF Good
<1>13. answers + f.answers \in 0 .. r
  <2>2. Cardinality(Queries(text, r)) \in 0 .. r
    BY <1>4, PlacesAreFinite
  <2> QED BY <1>12, <2>2
<1>14. BufferIsTail'
  <2>1. Shows(Filtered', text', read' - Len(pending'))
    BY <1>0, <1>11
  <2>2. answers' = Cardinality(Queries(text', read'))
    BY <1>0, <1>7, <1>12
  <2>3. Withheld(text', read', pending')
    BY <1>0, <1>8
  <2>4. output' = Recent(shown')
    BY <1>2 DEF BufferOK, BufferIsTail
  <2>5. BufferIsTail' <=> /\ Shows(Filtered', text', read' - Len(pending'))
                          /\ answers' = Cardinality(Queries(text', read'))
                          /\ Withheld(text', read', pending')
                          /\ output' = Recent(shown')
    BY DEF BufferIsTail, Shows, Queries, Withheld, Recent, Visible, Covers, Occurs, LastBytes
  <2> QED BY <2>1, <2>2, <2>3, <2>4, <2>5
<1>15. Boundary(text, read - Len(pending))'
  <2>1. Boundary(text', read' - Len(pending'))
    BY <1>0, <1>8 DEF Good
  <2> QED BY <2>1 DEF Boundary, Occurs
<1>16. read' \in 0 .. written' /\ answers' \in 0 .. read' /\ written' \in 0 .. Len(text')
  <2>1. written \in 0 .. Len(text)
    BY DEF BufferOK
  <2> QED BY <1>0, <1>1, <1>2, <1>3, <1>4, <1>7, <1>13, <2>1 DEF r
<1>17. /\ text' \in Texts /\ {pending', chunk', shown', output'} \subseteq Seq(Bytes)
       /\ stream' \in {"none", "read", "append", "broadcast", "close", "gone"}
  BY <1>2, <1>7, <1>8 DEF BufferOK
<1> QED BY <1>14, <1>15, <1>16, <1>17 DEF BufferOK

LEMMA AppendKeepsBuffer == BufferOK /\ AppendOutput => BufferOK'
<1> SUFFICES ASSUME BufferOK, AppendOutput PROVE BufferOK'
  OBVIOUS
<1>1. /\ stream = "append" /\ output' = Kept(output, chunk) /\ shown' = shown \o chunk
      /\ stream' = "broadcast" /\ text' = text /\ written' = written /\ read' = read
      /\ pending' = pending /\ answers' = answers /\ chunk' = chunk
  BY DEF AppendOutput, source
<1>2. shown \in Seq(Bytes) /\ chunk \in Seq(Bytes) /\ shown \o chunk \in Seq(Bytes)
  BY DEF BufferOK
<1>3. Filtered = shown \o chunk /\ Filtered' = shown \o chunk
  <2>1. (shown \o chunk) \o <<>> = shown \o chunk
    BY <1>2
  <2> QED BY <1>1, <2>1 DEF Filtered
<1>4. output' = Recent(shown') /\ output' \in Seq(Bytes)
  BY <1>1, <1>2, KeptIsRecent, RecentAre DEF BufferOK, BufferIsTail
<1>5. BufferIsTail'
  <2>1. /\ Shows(Filtered', text', read' - Len(pending'))
        /\ answers' = Cardinality(Queries(text', read'))
        /\ Withheld(text', read', pending')
    BY <1>1, <1>3 DEF BufferOK, BufferIsTail
  <2>2. BufferIsTail' <=> /\ Shows(Filtered', text', read' - Len(pending'))
                          /\ answers' = Cardinality(Queries(text', read'))
                          /\ Withheld(text', read', pending')
                          /\ output' = Recent(shown')
    BY DEF BufferIsTail, Shows, Queries, Withheld, Recent, Visible, Covers, Occurs, LastBytes
  <2> QED BY <1>4, <2>1, <2>2
<1>6. Boundary(text, read - Len(pending))'
  <2>1. Boundary(text', read' - Len(pending'))
    BY <1>1 DEF BufferOK
  <2> QED BY <2>1 DEF Boundary, Occurs
<1> QED BY <1>1, <1>2, <1>4, <1>5, <1>6 DEF BufferOK

LEMMA BroadcastKeepsBuffer == BufferOK /\ Broadcast => BufferOK'
<1> SUFFICES ASSUME BufferOK, Broadcast PROVE BufferOK'
  OBVIOUS
<1>1. /\ stream = "broadcast" /\ output' = output /\ shown' = shown
      /\ stream' = "read" /\ text' = text /\ written' = written /\ read' = read
      /\ pending' = pending /\ answers' = answers /\ chunk' = <<>>
  BY DEF Broadcast, source
<1>2. Filtered' = Filtered
  BY <1>1 DEF Filtered
<1>3. BufferIsTail'
  <2>1. /\ Shows(Filtered', text', read' - Len(pending'))
        /\ answers' = Cardinality(Queries(text', read'))
        /\ Withheld(text', read', pending') /\ output' = Recent(shown')
    BY <1>1, <1>2 DEF BufferOK, BufferIsTail
  <2>2. BufferIsTail' <=> /\ Shows(Filtered', text', read' - Len(pending'))
                          /\ answers' = Cardinality(Queries(text', read'))
                          /\ Withheld(text', read', pending')
                          /\ output' = Recent(shown')
    BY DEF BufferIsTail, Shows, Queries, Withheld, Recent, Visible, Covers, Occurs, LastBytes
  <2> QED BY <2>1, <2>2
<1>4. Boundary(text, read - Len(pending))'
  <2>1. Boundary(text', read' - Len(pending'))
    BY <1>1 DEF BufferOK
  <2> QED BY <2>1 DEF Boundary, Occurs
<1> QED BY <1>1, <1>3, <1>4 DEF BufferOK
-----------------------------------------------------------------------------
(* The other actions *)

\* The steps of the session's process and goroutines leave the clients alone.
SessionStep == \/ PostSession \/ ProcessWrites \/ ProcessExits \/ DeleteSession \/ StreamFails
               \/ WaitReturns \/ WaitCloses \/ StreamEnds

LEMMA SessionKeepsBuffer == BufferOK /\ SessionOK /\ SessionStep => BufferOK' /\ SessionOK'
<1> SUFFICES ASSUME BufferOK, SessionOK, SessionStep PROVE BufferOK' /\ SessionOK'
  OBVIOUS
<1>0. written \in 0 .. Len(text) /\ Len(text) \in Nat
  BY TextsAreSequences DEF BufferOK
<1>1. CASE PostSession
  <2>1. UNCHANGED <<text, buffer>> /\ written' = written /\ stream = "none" /\ stream' = "read"
    BY <1>1 DEF PostSession, Create, SessionOK
  <2>2. BufferOK'
    BY <1>0, <2>1, BufferStays
  <2> QED BY <1>1, <2>2 DEF PostSession, Create, SessionOK
<1>2. CASE ProcessWrites
  <2>1. UNCHANGED <<text, buffer>> /\ written' = written + 1 /\ stream' = stream
        /\ written < Len(text)
    BY <1>2 DEF ProcessWrites
  <2>2. BufferOK'
    BY <1>0, <2>1, BufferStays DEF BufferOK
  <2> QED BY <1>2, <2>2 DEF ProcessWrites, SessionOK
<1>3. CASE ProcessExits \/ DeleteSession
  <2>1. UNCHANGED <<text, buffer>> /\ written' = written /\ stream' = stream
    BY <1>3 DEF ProcessExits, DeleteSession, Close
  <2>2. BufferOK'
    BY <1>0, <2>1, BufferStays DEF BufferOK
  <2> QED BY <1>3, <2>2 DEF ProcessExits, DeleteSession, Close, SessionOK
<1>4. CASE StreamFails \/ StreamEnds
  <2>1. /\ UNCHANGED <<text, buffer>> /\ written' = written /\ UNCHANGED <<status, waiter>>
        /\ proc' = proc /\ ptyOpen' = ptyOpen /\ stream \in {"read", "close"}
        /\ stream' \in {"close", "gone"}
    BY <1>4 DEF StreamFails, StreamEnds, source
  <2>2. BufferOK'
    BY <1>0, <2>1, BufferStays
  <2> QED BY <2>1, <2>2 DEF SessionOK
<1>5. CASE WaitReturns \/ WaitCloses
  <2>1. UNCHANGED <<text, buffer>> /\ written' = written /\ stream' = stream
    BY <1>5 DEF WaitReturns, WaitCloses, source
  <2>2. BufferOK'
    BY <1>0, <2>1, BufferStays DEF BufferOK
  <2> QED BY <1>5, <2>2 DEF WaitReturns, WaitCloses, SessionOK, source
<1> QED BY <1>1, <1>2, <1>3, <1>4, <1>5 DEF SessionStep

LEMMA SessionKeepsClients ==
    ChannelsOK /\ ClientsOK /\ SessionStep => ChannelsOK' /\ ClientsOK'
<1> SUFFICES ASSUME ChannelsOK, ClientsOK, SessionStep PROVE ChannelsOK' /\ ClientsOK'
  OBVIOUS
<1>1. UNCHANGED <<attached, clients>>
  BY DEF SessionStep, PostSession, Create, ProcessWrites, ProcessExits, DeleteSession, Close,
     StreamFails, WaitReturns, WaitCloses, StreamEnds
<1>2. ClientsOK'
  BY <1>1 DEF ClientsOK, clients
<1>3. UNCHANGED channels \/ CloseSubscribers
  BY DEF SessionStep, PostSession, Create, ProcessWrites, ProcessExits, DeleteSession, Close,
     StreamFails, WaitReturns, WaitCloses, StreamEnds
<1>4. ChannelsOK'
  <2>1. CASE UNCHANGED channels
    BY <2>1 DEF ChannelsOK, ChannelsOpen, channels
  <2>2. CASE CloseSubscribers
    BY <2>2 DEF ChannelsOK, ChannelsOpen, CloseSubscribers
  <2> QED BY <1>3, <2>1, <2>2
<1> QED BY <1>2, <1>4

\* A chunk goes to the channels that have room.
LEMMA BroadcastKeepsChannels == BufferOK /\ ChannelsOK /\ Broadcast => ChannelsOK'
<1> SUFFICES ASSUME BufferOK, ChannelsOK, Broadcast PROVE ChannelsOK'
  OBVIOUS
<1> DEFINE room == {c \in subs : Len(queue[c]) < ChannelSize}
<1>1. /\ queue' = [c \in Clients |-> IF c \in room THEN Append(queue[c], chunk) ELSE queue[c]]
      /\ missed' = missed \cup (subs \ room) /\ subs' = subs /\ closed' = closed
  BY DEF Broadcast
<1>2. chunk \in Seq(Bytes)
  BY DEF BufferOK
<1>3. ASSUME NEW c \in Clients
      PROVE  queue'[c] \in Seq(Seq(Bytes)) /\ Len(queue'[c]) <= ChannelSize
  <2>1. queue[c] \in Seq(Seq(Bytes)) /\ Len(queue[c]) \in Nat /\ Len(queue[c]) <= ChannelSize
    BY DEF ChannelsOK
  <2>2. CASE c \in room
    <3>1. queue'[c] = Append(queue[c], chunk) /\ Len(queue[c]) < ChannelSize
      BY <1>1, <2>2
    <3>2. Append(queue[c], chunk) \in Seq(Seq(Bytes))
          /\ Len(Append(queue[c], chunk)) = Len(queue[c]) + 1
      BY <1>2, <2>1
    <3> QED BY <2>1, <3>1, <3>2, Sizes
  <2>3. CASE c \notin room
    BY <1>1, <2>1, <2>3
  <2> QED BY <2>2, <2>3
<1>4. queue' \in [Clients -> Seq(Seq(Bytes))]
  <2> HIDE DEF room
  <2>1. DOMAIN queue' = Clients /\ queue' = [c \in Clients |-> queue'[c]]
    BY <1>1
  <2> QED BY <1>3, <2>1
<1>5. missed' \subseteq Clients
  BY <1>1 DEF ChannelsOK
<1> QED BY <1>1, <1>3, <1>4, <1>5 DEF ChannelsOK, ChannelsOpen

ClientStep(c) == TryAttach(c) \/ Handler(c) \/ Writer(c) \/ ClientLeaves(c)

LEMMA ClientKeepsSession ==
    ASSUME NEW c \in Clients, BufferOK, SessionOK, ClientStep(c)
    PROVE  BufferOK' /\ SessionOK'
<1>1. UNCHANGED Session
  BY DEF ClientStep, TryAttach, Handler, Upgrade, UpgradeFails, Snapshot, Subscribe, ReadFails,
     Join, Detach, Writer, WriterSends, WriterFails, WriterEnds, ClientLeaves
<1>2. /\ UNCHANGED <<text, buffer>> /\ written' = written /\ stream' = stream
      /\ UNCHANGED <<status, proc, ptyOpen, waiter>>
  BY <1>1 DEF Session, source
<1>3. written \in 0 .. Len(text) /\ Len(text) \in Nat
  BY TextsAreSequences DEF BufferOK
<1>4. BufferOK'
  BY <1>2, <1>3, BufferStays DEF BufferOK
<1> QED BY <1>2, <1>4 DEF SessionOK

LEMMA ClientKeepsChannels ==
    ASSUME NEW c \in Clients, ChannelsOK, ClientStep(c)
    PROVE  ChannelsOK'
<1>1. CASE UNCHANGED channels
  BY <1>1 DEF ChannelsOK, ChannelsOpen, channels
<1>2. CASE Subscribe(c)
  <2>1. <<>> \in Seq(Seq(Bytes)) /\ Len(<<>>) = 0
    OBVIOUS
  <2> QED BY <1>2, <2>1, Sizes DEF Subscribe, ChannelsOK, ChannelsOpen
<1>3. CASE Unsubscribe(c)
  BY <1>3 DEF Unsubscribe, ChannelsOK, ChannelsOpen
<1>4. CASE WriterSends(c)
  <2> DEFINE q == Tail(queue[c])
  <2>1. /\ queue[c] # <<>> /\ queue' = [queue EXCEPT ![c] = q]
        /\ subs' = subs /\ closed' = closed /\ missed' = missed
    BY <1>4 DEF WriterSends
  <2>2. queue[c] \in Seq(Seq(Bytes)) /\ Len(queue[c]) <= ChannelSize
    BY DEF ChannelsOK
  <2>3. q \in Seq(Seq(Bytes)) /\ Len(q) = Len(queue[c]) - 1
    BY <2>1, <2>2, HeadTailProperties
  <2>4. Len(q) <= ChannelSize
    <3>1. Len(queue[c]) \in Nat
      BY <2>2
    <3> HIDE DEF q
    <3> QED BY <2>2, <2>3, <3>1, Sizes
  <2> HIDE DEF q
  <2> QED BY <2>1, <2>3, <2>4 DEF ChannelsOK, ChannelsOpen
<1> QED BY <1>1, <1>2, <1>3, <1>4
     DEF ClientStep, TryAttach, Handler, Upgrade, UpgradeFails, Snapshot, ReadFails, Join,
         Detach, Writer, WriterFails, WriterEnds, ClientLeaves

\* One client at a time: an attached client keeps the others out until it detaches.
OnePresent == /\ attached <=> \E c \in Clients : handler[c] # "idle"
              /\ \A c, d \in Clients : handler[c] # "idle" /\ handler[d] # "idle" => c = d

LEMMA ClientKeepsOnePresent ==
    ASSUME NEW c \in Clients, ClientsOK, ClientStep(c)
    PROVE  OnePresent'
<1>0. OnePresent /\ DOMAIN handler = Clients /\ attached \in BOOLEAN
  BY DEF ClientsOK, OnePresent
<1>1. CASE TryAttach(c)
  <2>1. \A d \in Clients : handler[d] = "idle"
    BY <1>0, <1>1 DEF TryAttach, OnePresent
  <2>2. attached' = TRUE /\ handler' = [handler EXCEPT ![c] = "upgrade"]
    BY <1>1 DEF TryAttach, Move
  <2>3. handler'[c] # "idle" /\ \A d \in Clients : d # c => handler'[d] = "idle"
    BY <1>0, <2>1, <2>2
  <2> QED BY <2>2, <2>3 DEF OnePresent
<1>2. CASE Detach(c)
  <2>1. handler[c] # "idle" /\ attached' = FALSE /\ handler' = [handler EXCEPT ![c] = "idle"]
    BY <1>2 DEF Detach, Move
  <2>2. \A d \in Clients : handler'[d] = "idle"
    BY <1>0, <2>1 DEF OnePresent
  <2> QED BY <2>1, <2>2 DEF OnePresent
<1>3. CASE attached' = attached /\ handler' = handler
  BY <1>0, <1>3 DEF OnePresent
<1>4. CASE /\ attached' = attached /\ handler[c] # "idle"
           /\ \E pc \in {"snapshot", "subscribe", "serve", "join", "detach"} : Move(c, pc)
  <2>1. PICK pc \in {"snapshot", "subscribe", "serve", "join", "detach"} :
           handler' = [handler EXCEPT ![c] = pc]
    BY <1>4 DEF Move
  <2>2. \A d \in Clients : handler'[d] # "idle" <=> handler[d] # "idle"
    BY <1>0, <1>4, <2>1
  <2> QED BY <1>0, <1>4, <2>2 DEF OnePresent
<1>5. \/ TryAttach(c) \/ Detach(c)
      \/ attached' = attached /\ handler' = handler
      \/ /\ attached' = attached /\ handler[c] # "idle"
         /\ \E pc \in {"snapshot", "subscribe", "serve", "join", "detach"} : Move(c, pc)
  BY DEF ClientStep, Handler, Upgrade, UpgradeFails, Snapshot, Subscribe, ReadFails, Join,
     Writer, WriterSends, WriterFails, WriterEnds, ClientLeaves
<1> QED BY <1>1, <1>2, <1>3, <1>4, <1>5

ClientTypes ==
    /\ attached \in BOOLEAN
    /\ live \in [Clients -> Seq(Seq(Bytes))] /\ snap \in [Clients -> Seq(Bytes)]
    /\ handler \in [Clients -> {"idle", "upgrade", "snapshot", "subscribe", "serve", "join",
                                "detach"}]
    /\ writer \in [Clients -> {"none", "range", "gone"}]
    /\ conn \in [Clients -> {"none", "open", "gone"}]
    /\ visits \in [Clients -> 0 .. MaxVisits]

LEMMA ClientKeepsTypes ==
    ASSUME NEW c \in Clients, ClientTypes, BufferOK, ChannelsOK, ClientStep(c)
    PROVE  ClientTypes'
<1>1. CASE TryAttach(c)
  <2>1. visits[c] + 1 \in 0 .. MaxVisits
    BY <1>1, Sizes DEF TryAttach, ClientTypes
  <2> QED BY <1>1, <2>1 DEF TryAttach, ClientTypes, Move
<1>2. CASE Upgrade(c) \/ UpgradeFails(c) \/ Join(c)
  BY <1>2 DEF Upgrade, UpgradeFails, Join, ClientTypes, Move
<1>3. CASE Snapshot(c)
  <2>1. output \in Seq(Bytes)
    BY DEF BufferOK
  <2> QED BY <1>3, <2>1 DEF Snapshot, ClientTypes, Move
<1>4. CASE Subscribe(c) \/ ReadFails(c)
  BY <1>4 DEF Subscribe, ReadFails, ClientTypes, Move
<1>5. CASE Detach(c)
  <2>1. <<>> \in Seq(Bytes) /\ <<>> \in Seq(Seq(Bytes))
    OBVIOUS
  <2> QED BY <1>5, <2>1 DEF Detach, ClientTypes, Move
<1>6. CASE WriterSends(c)
  <2> DEFINE l == Append(live[c], Head(queue[c]))
  <2>1. /\ queue[c] # <<>> /\ queue[c] \in Seq(Seq(Bytes)) /\ live[c] \in Seq(Seq(Bytes))
    BY <1>6 DEF WriterSends, ChannelsOK, ClientTypes
  <2>2. l \in Seq(Seq(Bytes))
    <3>1. Head(queue[c]) \in Seq(Bytes)
      BY <2>1, HeadTailProperties
    <3> QED BY <2>1, <3>1
  <2>3. live' = IF conn[c] = "open" THEN [live EXCEPT ![c] = l] ELSE live
    BY <1>6 DEF WriterSends
  <2> HIDE DEF l
  <2>4. live' \in [Clients -> Seq(Seq(Bytes))]
    BY <2>2, <2>3 DEF ClientTypes
  <2> QED BY <1>6, <2>4 DEF WriterSends, ClientTypes
<1>7. CASE WriterFails(c) \/ WriterEnds(c) \/ ClientLeaves(c)
  BY <1>7 DEF WriterFails, WriterEnds, ClientLeaves, ClientTypes
<1> QED BY <1>1, <1>2, <1>3, <1>4, <1>5, <1>6, <1>7 DEF ClientStep, Handler, Writer

LEMMA ClientParts == ClientsOK <=> ClientTypes /\ OnePresent
BY DEF ClientsOK, ClientTypes, OnePresent

LEMMA PrimedClientParts == ClientsOK' <=> ClientTypes' /\ OnePresent'
BY DEF ClientsOK, ClientTypes, OnePresent

LEMMA StreamKeepsOthers ==
    ASSUME SessionOK, ClientsOK, StreamReads \/ AppendOutput \/ Broadcast
    PROVE  SessionOK' /\ ClientsOK'
<1>1. /\ UNCHANGED <<proc, ptyOpen, status, waiter, attached, clients>>
      /\ stream # "none"
  BY DEF StreamReads, AppendOutput, Broadcast, source
<1> QED BY <1>1 DEF SessionOK, ClientsOK, clients

LEMMA StreamKeepsChannels ==
    ASSUME ChannelsOK, StreamReads \/ AppendOutput
    PROVE  ChannelsOK'
<1>1. UNCHANGED channels
  BY DEF StreamReads, AppendOutput
<1> QED BY <1>1 DEF ChannelsOK, ChannelsOpen, channels

LEMMA InitHolds == Init => TerminalInv
<1> SUFFICES ASSUME Init PROVE TerminalInv
  OBVIOUS
<1>1. BufferOK
  BY BufferInit
<1>2. SessionOK
  BY DEF Init, SessionOK
<1>3. <<>> \in Seq(Seq(Bytes)) /\ <<>> \in Seq(Bytes) /\ Len(<<>>) = 0
  OBVIOUS
<1>4. ChannelsOK
  BY <1>3, Sizes DEF Init, ChannelsOK, ChannelsOpen
<1>5. ClientsOK
  <2>1. ClientTypes
    <3>1. 0 \in 0 .. MaxVisits
      BY Sizes
    <3> QED BY <1>3, <3>1 DEF Init, ClientTypes
  <2>2. OnePresent
    <3>1. \A c \in Clients : handler[c] = "idle"
      BY DEF Init
    <3>2. attached = FALSE
      BY DEF Init
    <3> QED BY <3>1, <3>2 DEF OnePresent
  <2> QED BY <2>1, <2>2, ClientParts
<1> QED BY <1>1, <1>2, <1>4, <1>5, InvParts

LEMMA StepHolds == TerminalInv /\ [Next]_vars => TerminalInv'
<1> SUFFICES ASSUME TerminalInv, [Next]_vars PROVE TerminalInv'
  OBVIOUS
<1>0. BufferOK /\ SessionOK /\ ChannelsOK /\ ClientsOK
  BY InvParts
<1>1. CASE SessionStep
  BY <1>0, <1>1, SessionKeepsBuffer, SessionKeepsClients, PrimedInvParts
<1>2. CASE StreamReads
  BY <1>0, <1>2, ReadKeepsBuffer, StreamKeepsOthers, StreamKeepsChannels, PrimedInvParts
<1>3. CASE AppendOutput
  BY <1>0, <1>3, AppendKeepsBuffer, StreamKeepsOthers, StreamKeepsChannels, PrimedInvParts
<1>4. CASE Broadcast
  BY <1>0, <1>4, BroadcastKeepsBuffer, StreamKeepsOthers, BroadcastKeepsChannels,
     PrimedInvParts
<1>5. ASSUME NEW c \in Clients, ClientStep(c) PROVE TerminalInv'
  <2>1. BufferOK' /\ SessionOK'
    BY <1>0, <1>5, ClientKeepsSession
  <2>2. ChannelsOK'
    BY <1>0, <1>5, ClientKeepsChannels
  <2>3. ClientTypes' /\ OnePresent'
    BY <1>0, <1>5, ClientKeepsTypes, ClientKeepsOnePresent, ClientParts
  <2> QED BY <2>1, <2>2, <2>3, PrimedClientParts, PrimedInvParts
<1>6. CASE UNCHANGED vars
  <2>1. /\ UNCHANGED <<text, buffer>> /\ written' = written /\ stream' = stream
        /\ UNCHANGED <<status, proc, ptyOpen, waiter>>
        /\ UNCHANGED channels /\ UNCHANGED <<attached, clients>>
    BY <1>6 DEF vars, source
  <2>2. written \in 0 .. Len(text) /\ Len(text) \in Nat
    BY <1>0, TextsAreSequences DEF BufferOK
  <2>3. BufferOK'
    BY <1>0, <2>1, <2>2, BufferStays DEF BufferOK
  <2>4. SessionOK'
    BY <1>0, <2>1 DEF SessionOK
  <2>5. ChannelsOK'
    BY <1>0, <2>1 DEF ChannelsOK, ChannelsOpen, channels
  <2>6. ClientsOK'
    BY <1>0, <2>1 DEF ClientsOK, clients
  <2> QED BY <2>3, <2>4, <2>5, <2>6, PrimedInvParts
<1> QED BY <1>1, <1>2, <1>3, <1>4, <1>5, <1>6
     DEF Next, Process, Stream, Wait, Over, SessionStep, ClientStep
-----------------------------------------------------------------------------
(* The order of the chunks *)

LEMMA LiesMeans ==
    ASSUME NEW x \in Seq(Bytes), NEW s \in Seq(Bytes), NEW n \in Nat
    PROVE  Lies(x, s, n) <=> /\ n + Len(x) <= Len(s)
                             /\ \A i \in 1 .. Len(x) : x[i] = s[n + i]
<1> DEFINE l == Len(x)
           e == n + l
           u == SubSeq(s, n + 1, e)
<1>1. l \in Nat /\ e \in Nat /\ Len(s) \in Nat
  OBVIOUS
<1>2. SUFFICES ASSUME e <= Len(s)
               PROVE  x = u <=> \A i \in 1 .. l : x[i] = s[n + i]
  BY <1>1 DEF Lies
<1>3. \A i \in n + 1 .. e : s[i] \in Bytes
  <2>1. n + 1 .. e \subseteq 1 .. Len(s)
    BY <1>1, <1>2
  <2> HIDE DEF e
  <2> QED BY <2>1, ElementOfSeq
<1>4. n + 1 \in Int /\ e \in Int
  BY <1>1
<1>5. /\ u \in Seq(Bytes)
      /\ Len(u) = IF n + 1 <= e THEN e - (n + 1) + 1 ELSE 0
      /\ \A i \in 1 .. e - (n + 1) + 1 : u[i] = s[n + 1 + i - 1]
  <2> DEFINE m == n + 1
  <2>1. m \in Int
    BY <1>4
  <2>2. \A i \in m .. e : s[i] \in Bytes
    BY <1>3
  <2> HIDE DEF m, e
  <2>3. /\ SubSeq(s, m, e) \in Seq(Bytes)
        /\ Len(SubSeq(s, m, e)) = IF m <= e THEN e - m + 1 ELSE 0
        /\ \A i \in 1 .. e - m + 1 : SubSeq(s, m, e)[i] = s[m + i - 1]
    BY <1>1, <2>1, <2>2, SubSeqProperties
  <2> QED BY <2>3 DEF m
<1>6. e - (n + 1) + 1 = l /\ (n + 1 <= e <=> l > 0) /\ \A i \in 1 .. l : n + 1 + i - 1 = n + i
  BY <1>1
<1>7. Len(u) = l /\ \A i \in 1 .. l : u[i] = s[n + i]
  <2> HIDE DEF u, e
  <2> QED BY <1>1, <1>5, <1>6
<1> HIDE DEF u
<1> QED BY <1>5, <1>7, SeqEqual

LEMMA LiesLonger ==
    ASSUME NEW x \in Seq(Bytes), NEW s \in Seq(Bytes), NEW t \in Seq(Bytes), NEW n \in Nat,
           Lies(x, s, n)
    PROVE  Lies(x, s \o t, n)
<1> DEFINE u == s \o t
<1>1. /\ u \in Seq(Bytes) /\ Len(u) = Len(s) + Len(t)
      /\ \A i \in 1 .. Len(s) + Len(t) : u[i] = IF i <= Len(s) THEN s[i] ELSE t[i - Len(s)]
  BY ConcatProperties
<1>2. n + Len(x) <= Len(s) /\ \A i \in 1 .. Len(x) : x[i] = s[n + i]
  BY LiesMeans
<1>3. Len(s) \in Nat /\ Len(t) \in Nat /\ Len(x) \in Nat
  OBVIOUS
<1> HIDE DEF u
<1>4. ASSUME NEW i \in 1 .. Len(x) PROVE x[i] = u[n + i]
  <2>1. n + i \in 1 .. Len(s) + Len(t) /\ n + i <= Len(s)
    BY <1>2, <1>3
  <2> QED BY <1>1, <1>2, <2>1
<1>5. n + Len(x) <= Len(u)
  BY <1>1, <1>2, <1>3
<1>6. Lies(x, u, n)
  BY <1>1, <1>4, <1>5, LiesMeans
<1> QED BY <1>6 DEF u

\* The second part of s \o t, and the most recent bytes of s, lie at its end.
LEMMA LiesAtEnd ==
    ASSUME NEW s \in Seq(Bytes), NEW t \in Seq(Bytes)
    PROVE  Lies(t, s \o t, Len(s))
<1> DEFINE u == s \o t
<1>1. /\ u \in Seq(Bytes) /\ Len(u) = Len(s) + Len(t)
      /\ \A i \in 1 .. Len(s) + Len(t) : u[i] = IF i <= Len(s) THEN s[i] ELSE t[i - Len(s)]
  BY ConcatProperties
<1>2. Len(s) \in Nat /\ Len(t) \in Nat
  OBVIOUS
<1> HIDE DEF u
<1>3. ASSUME NEW i \in 1 .. Len(t) PROVE t[i] = u[Len(s) + i]
  <2>1. /\ Len(s) + i \in 1 .. Len(s) + Len(t) /\ ~ (Len(s) + i <= Len(s))
        /\ Len(s) + i - Len(s) = i
    BY <1>2
  <2> QED BY <1>1, <2>1
<1>4. Len(s) + Len(t) <= Len(u)
  BY <1>1, <1>2
<1>5. Lies(t, u, Len(s))
  BY <1>1, <1>2, <1>3, <1>4, LiesMeans
<1> QED BY <1>5 DEF u

LEMMA RecentLies ==
    ASSUME NEW s \in Seq(Bytes)
    PROVE  Len(Recent(s)) <= Len(s) /\ Lies(Recent(s), s, Len(s) - Len(Recent(s)))
<1> DEFINE n == IF Len(s) > OutputMax THEN OutputMax ELSE Len(s)
           r == Recent(s)
<1>1. /\ r \in Seq(Bytes) /\ Len(r) = n
      /\ \A i \in 1 .. n : r[i] = s[Len(s) - n + i]
  BY RecentAre
<1>2. n \in 0 .. Len(s) /\ Len(s) \in Nat
  BY Sizes
<1> HIDE DEF n, r
<1>3. Len(s) - n \in Nat /\ Len(s) - n + n <= Len(s) /\ n <= Len(s)
  BY <1>2
<1>4. Lies(r, s, Len(s) - n)
  <2> DEFINE d == Len(s) - n
  <2>1. d \in Nat /\ d + Len(r) <= Len(s) /\ \A i \in 1 .. Len(r) : r[i] = s[d + i]
    BY <1>1, <1>3
  <2> HIDE DEF d
  <2>2. Lies(r, s, d)
    BY <1>1, <2>1, LiesMeans
  <2> QED BY <2>2 DEF d
<1> QED BY <1>1, <1>3, <1>4 DEF r

Chunks == Seq(Seq(Bytes))

\* What was in place stays when more is shown and sent.
LEMMA InPlaceLonger ==
    ASSUME NEW g \in Chunks, NEW x \in Seq(Bytes), NEW s \in Seq(Bytes), NEW t \in Seq(Bytes),
           NEW b \in 0 .. Len(s), NEW p \in [DOMAIN g -> 0 .. Len(s)], NEW m \in Nat,
           InPlace(g, p, x, b, s, m)
    PROVE  InPlace(g, p, x, b, s \o t, m)
<1>1. \A i \in DOMAIN g : g[i] \in Seq(Bytes) /\ p[i] \in Nat
  BY DEF Chunks
<1>2. Len(x) \in Nat /\ b \in Nat /\ Len(x) <= b
  BY DEF InPlace
<1>3. b - Len(x) \in Nat
  BY <1>2
<1>4. Lies(x, s \o t, b - Len(x))
  <2> DEFINE d == b - Len(x)
  <2>1. d \in Nat /\ Lies(x, s, d)
    BY <1>3 DEF InPlace
  <2> HIDE DEF d
  <2>2. Lies(x, s \o t, d)
    BY <2>1, LiesLonger
  <2> QED BY <2>2 DEF d
<1>5. \A i \in DOMAIN g : Lies(g[i], s \o t, p[i])
  <2> SUFFICES ASSUME NEW i \in DOMAIN g PROVE Lies(g[i], s \o t, p[i])
    OBVIOUS
  <2> DEFINE y == g[i]
             n == p[i]
  <2>1. y \in Seq(Bytes) /\ n \in Nat /\ Lies(y, s, n)
    BY <1>1 DEF InPlace
  <2> HIDE DEF y, n
  <2>2. Lies(y, s \o t, n)
    BY <2>1, LiesLonger
  <2> QED BY <2>2 DEF y, n
<1> QED BY <1>4, <1>5 DEF InPlace

LEMMA InPlacePrefix ==
    ASSUME NEW l \in Chunks, NEW q \in Chunks, NEW x, NEW s, NEW b, NEW m,
           NEW N, NEW p \in [DOMAIN (l \o q) -> N], InPlace(l \o q, p, x, b, s, m)
    PROVE  \E r \in [DOMAIN l -> N] :
              /\ InPlace(l, r, x, b, s, m)
              /\ WithoutGap(l \o q, p) => WithoutGap(l, r)
<1> DEFINE g == l \o q
           r == [i \in DOMAIN l |-> p[i]]
<1>1. /\ g \in Chunks /\ Len(g) = Len(l) + Len(q)
      /\ \A i \in 1 .. Len(l) + Len(q) : g[i] = IF i <= Len(l) THEN l[i] ELSE q[i - Len(l)]
  BY ConcatProperties DEF Chunks
<1>2. /\ DOMAIN l = 1 .. Len(l) /\ DOMAIN g = 1 .. Len(g) /\ Len(l) \in Nat /\ Len(q) \in Nat
  BY <1>1 DEF Chunks
<1> HIDE DEF g
<1>3. \A i \in DOMAIN l : i \in DOMAIN g /\ g[i] = l[i] /\ r[i] = p[i]
  BY <1>1, <1>2
<1>4. r \in [DOMAIN l -> N]
  BY <1>3 DEF g
<1> HIDE DEF r
<1>5. \A i \in 1 .. Len(l) - 1 : /\ i \in DOMAIN l /\ i + 1 \in DOMAIN l
                                 /\ i \in 1 .. Len(g) - 1
  BY <1>1, <1>2
<1>6. InPlace(g, p, x, b, s, m)
  BY DEF g
<1>7. InPlace(l, r, x, b, s, m)
  BY <1>3, <1>5, <1>6 DEF InPlace
<1>8. WithoutGap(g, p) => WithoutGap(l, r)
  BY <1>3, <1>5 DEF WithoutGap
<1> QED BY <1>4, <1>7, <1>8 DEF g

\* One more chunk goes behind all that was sent.
LEMMA InPlaceAppend ==
    ASSUME NEW g \in Chunks, NEW x, NEW s, NEW b \in Nat, NEW c \in Seq(Bytes), c # <<>>,
           NEW m \in Nat, NEW e \in Nat, m + Len(c) = e, b <= e, Lies(c, s, m),
           NEW p \in [DOMAIN g -> 0 .. e], InPlace(g, p, x, b, s, m)
    PROVE  \E r \in [DOMAIN Append(g, c) -> 0 .. e] :
              /\ InPlace(Append(g, c), r, x, b, s, e)
              /\ WithoutGap(g, p) /\ EndsAt(g, p, m) => WithoutGap(Append(g, c), r)
              /\ EndsAt(Append(g, c), r, e)
<1> DEFINE n == Len(g)
           h == Append(g, c)
           r == [i \in DOMAIN h |-> IF i = n + 1 THEN m ELSE p[i]]
<1>1. /\ n \in Nat /\ DOMAIN g = 1 .. n /\ h \in Chunks
      /\ Len(h) = n + 1 /\ DOMAIN h = 1 .. n + 1
      /\ \A i \in 1 .. n : h[i] = g[i]
      /\ h[n + 1] = c
  BY DEF Chunks
<1>0. n = Len(g) /\ n \in Nat /\ Len(h) - 1 = n /\ (n > 0 => g # <<>>)
  <2>1. n + 1 - 1 = n /\ (g = <<>> => Len(g) = 0)
    BY <1>1
  <2> HIDE DEF h
  <2> QED BY <1>1, <2>1
<1> HIDE DEF h, n
<1>2. \A i \in 1 .. n : i # n + 1 /\ i \in 1 .. n + 1
  BY <1>1
<1>3. r[n + 1] = m /\ \A i \in 1 .. n : r[i] = p[i]
  BY <1>1, <1>2
<1>4. m \in 0 .. e /\ Len(c) \in Nat
  OBVIOUS
<1>5. r \in [DOMAIN h -> 0 .. e]
  <2>1. ASSUME NEW i \in 1 .. n + 1 PROVE i = n + 1 \/ i \in 1 .. n
    BY <1>0
  <2>2. \A i \in DOMAIN h : i = n + 1 \/ i \in DOMAIN g
    BY <1>1, <2>1
  <2> QED BY <1>4, <2>2
<1> HIDE DEF r
<1>6. \A i \in 1 .. n : /\ p[i] \in Nat /\ g[i] \in Seq(Bytes) /\ Len(g[i]) \in Nat
                        /\ g[i] # <<>> /\ Lies(g[i], s, p[i])
                        /\ b <= p[i] + Len(g[i]) /\ p[i] + Len(g[i]) <= m
  <2>1. \A i \in 1 .. n : p[i] \in Nat
    <3>1. \A i \in DOMAIN g : p[i] \in 0 .. e
      OBVIOUS
    <3> QED BY <1>1, <3>1
  <2>2. \A i \in 1 .. n : g[i] \in Seq(Bytes)
    BY <1>1 DEF Chunks
  <2>3. \A i \in 1 .. n : /\ g[i] # <<>> /\ Lies(g[i], s, p[i])
                          /\ b <= p[i] + Len(g[i]) /\ p[i] + Len(g[i]) <= m
    BY <1>1 DEF InPlace
  <2> QED BY <2>1, <2>2, <2>3
<1>7. \A i \in DOMAIN h : /\ h[i] # <<>> /\ Lies(h[i], s, r[i])
                          /\ b <= r[i] + Len(h[i]) /\ r[i] + Len(h[i]) <= e
  <2> SUFFICES ASSUME NEW i \in DOMAIN h
               PROVE  /\ h[i] # <<>> /\ Lies(h[i], s, r[i])
                      /\ b <= r[i] + Len(h[i]) /\ r[i] + Len(h[i]) <= e
    OBVIOUS
  <2>1. CASE i = n + 1
    BY <1>1, <1>3, <1>4, <2>1
  <2>2. CASE i \in 1 .. n
    <3>1. h[i] = g[i] /\ r[i] = p[i] /\ p[i] + Len(g[i]) <= m /\ p[i] + Len(g[i]) \in Nat
      <4>1. h[i] = g[i] /\ r[i] = p[i]
        BY <1>1, <1>3, <2>2
      <4>2. p[i] \in Nat /\ Len(g[i]) \in Nat /\ p[i] + Len(g[i]) <= m
        BY <1>6, <2>2
      <4> QED BY <4>1, <4>2
    <3> DEFINE d == p[i] + Len(g[i])
    <3>2. d \in Nat /\ d <= m /\ m <= e /\ m \in Nat
      BY <1>4, <3>1
    <3> HIDE DEF d
    <3>3. d <= e
      BY <3>2
    <3> USE DEF d
    <3> QED BY <1>6, <2>2, <3>1, <3>3
  <2> QED BY <1>1, <2>1, <2>2
<1>8. ASSUME NEW i \in 1 .. Len(h) - 1
      PROVE  /\ i \in 1 .. n /\ h[i] = g[i] /\ r[i] = p[i]
             /\ \/ i = n /\ r[i + 1] = m
                \/ i \in 1 .. n - 1 /\ i + 1 \in 1 .. n /\ r[i + 1] = p[i + 1]
  <2>1. i \in 1 .. n
    BY <1>0
  <2>2. i = n \/ (i \in 1 .. n - 1 /\ i + 1 \in 1 .. n)
    BY <1>0, <2>1
  <2> QED BY <1>1, <1>3, <2>1, <2>2
<1>9. \A i \in 1 .. Len(h) - 1 : r[i] + Len(h[i]) <= r[i + 1]
  <2> SUFFICES ASSUME NEW i \in 1 .. Len(h) - 1 PROVE r[i] + Len(h[i]) <= r[i + 1]
    OBVIOUS
  <2>1. \A j \in 1 .. n - 1 : p[j] + Len(g[j]) <= p[j + 1]
    BY <1>0 DEF InPlace
  <2> QED BY <1>6, <1>8, <2>1
<1>10. InPlace(h, r, x, b, s, e)
  BY <1>7, <1>9 DEF InPlace
<1>11. EndsAt(h, r, e)
  BY <1>1, <1>3 DEF EndsAt
<1>12. ASSUME WithoutGap(g, p), EndsAt(g, p, m) PROVE WithoutGap(h, r)
  <2> SUFFICES ASSUME NEW i \in 1 .. Len(h) - 1 PROVE r[i] + Len(h[i]) = r[i + 1]
    BY DEF WithoutGap
  <2>1. CASE i = n
    <3>1. g # <<>>
      BY <1>0, <1>8, <2>1
    <3>2. p[n] + Len(g[n]) = m
      BY <1>0, <1>12, <3>1 DEF EndsAt
    <3> QED BY <1>8, <2>1, <3>2
  <2>2. CASE i \in 1 .. n - 1
    <3>1. i # n
      BY <1>0, <2>2
    <3>2. p[i] + Len(g[i]) = p[i + 1]
      BY <1>0, <1>12, <2>2 DEF WithoutGap
    <3> QED BY <1>8, <3>1, <3>2
  <2> QED BY <1>8, <2>1, <2>2
<1> QED BY <1>5, <1>10, <1>11, <1>12 DEF h

\* Nothing is in place where the snapshot is.
LEMMA InPlaceNone ==
    ASSUME NEW x, NEW s, NEW b, NEW m, NEW N, Len(x) <= b, Lies(x, s, b - Len(x))
    PROVE  \E p \in [DOMAIN <<>> -> N] : /\ InPlace(<<>>, p, x, b, s, m)
                                         /\ WithoutGap(<<>>, p) /\ EndsAt(<<>>, p, m)
<1> DEFINE p == [i \in DOMAIN <<>> |-> CHOOSE n \in N : TRUE]
<1>1. DOMAIN <<>> = {} /\ 1 .. Len(<<>>) - 1 = {}
  OBVIOUS
<1>2. p \in [DOMAIN <<>> -> N]
  BY <1>1
<1> HIDE DEF p
<1>3. InPlace(<<>>, p, x, b, s, m)
  BY <1>1 DEF InPlace
<1>4. WithoutGap(<<>>, p)
  BY <1>1 DEF WithoutGap
<1>5. EndsAt(<<>>, p, m)
  BY DEF EndsAt
<1> QED BY <1>2, <1>3, <1>4, <1>5

\* What ends before a place ends before a later one.
LEMMA InPlaceLater ==
    ASSUME NEW g \in Chunks, NEW x, NEW s, NEW b, NEW N, N \subseteq Nat,
           NEW p \in [DOMAIN g -> N], NEW m \in Nat, NEW e \in Nat, m <= e,
           InPlace(g, p, x, b, s, m)
    PROVE  InPlace(g, p, x, b, s, e)
<1>1. \A i \in DOMAIN g : p[i] \in Nat /\ Len(g[i]) \in Nat /\ p[i] + Len(g[i]) <= m
  <2>1. \A i \in DOMAIN g : p[i] \in N /\ p[i] \in Nat
    OBVIOUS
  <2>2. \A i \in DOMAIN g : g[i] \in Seq(Bytes)
    BY DEF Chunks
  <2>3. \A i \in DOMAIN g : p[i] + Len(g[i]) <= m
    BY DEF InPlace
  <2> QED BY <2>1, <2>2, <2>3
<1>2. \A i \in DOMAIN g : p[i] + Len(g[i]) <= e
  <2> SUFFICES ASSUME NEW i \in DOMAIN g PROVE p[i] + Len(g[i]) <= e
    OBVIOUS
  <2> DEFINE y == p[i]
             n == Len(g[i])
  <2>1. y \in Nat /\ n \in Nat /\ y + n <= m
    BY <1>1
  <2> HIDE DEF y, n
  <2>2. y + n <= e
    BY <2>1
  <2> QED BY <2>2 DEF y, n
<1> QED BY <1>2 DEF InPlace

LEMMA PrimedPlaced ==
    ASSUME NEW c \in Clients
    PROVE  Placed(c)' <=>
             \E b \in 0 .. Len(shown'), p \in [DOMAIN Got(c)' -> 0 .. Len(shown')] :
                /\ InPlace(Got(c)', p, snap'[c], b, shown', Sent')
                /\ c \notin missed' => WithoutGap(Got(c)', p)
                /\ c \in subs' \ missed' /\ conn'[c] = "open" => EndsAt(Got(c)', p, Sent')
BY DEF Placed, InPlace, Lies, WithoutGap, EndsAt

\* The types the order of the chunks needs.
OrderTypes == /\ shown \in Seq(Bytes) /\ Sent \in 0 .. Len(shown)
              /\ \A c \in Clients : Got(c) \in Chunks /\ snap[c] \in Seq(Bytes)

\* A client's chunks keep their places when it gets no other, whatever is shown or sent.
LEMMA PlacedStays ==
    ASSUME NEW c \in Clients, OrderTypes, Placed(c), Got(c)' = Got(c), snap'[c] = snap[c],
           NEW t \in Seq(Bytes), shown' = shown \/ shown' = shown \o t,
           Sent' \in Nat, Sent <= Sent', c \in missed => c \in missed',
           c \in subs' \ missed' /\ conn'[c] = "open" =>
              c \in subs \ missed /\ conn[c] = "open" /\ Sent' = Sent
    PROVE  Placed(c)'
<1> DEFINE g == Got(c)
<1>1. PICK b \in 0 .. Len(shown), p \in [DOMAIN g -> 0 .. Len(shown)] :
         /\ InPlace(g, p, snap[c], b, shown, Sent)
         /\ c \notin missed => WithoutGap(g, p)
         /\ c \in subs \ missed /\ conn[c] = "open" => EndsAt(g, p, Sent)
  BY DEF Placed
<1>2. /\ g \in Chunks /\ snap[c] \in Seq(Bytes) /\ shown \in Seq(Bytes) /\ Sent \in Nat
      /\ Len(shown) \in Nat
  BY DEF OrderTypes
<1> HIDE DEF g
<1>3. Len(shown') \in Nat /\ Len(shown) <= Len(shown')
  <2>1. Len(shown \o t) = Len(shown) + Len(t) /\ Len(t) \in Nat
    BY <1>2, ConcatProperties
  <2> DEFINE n == Len(shown)
             k == Len(t)
  <2>2. n \in Nat /\ k \in Nat /\ n <= n + k /\ n <= n
    BY <1>2, <2>1
  <2> QED BY <2>1, <2>2
<1>4. b \in 0 .. Len(shown') /\ p \in [DOMAIN g -> 0 .. Len(shown')]
  <2>1. 0 .. Len(shown) \subseteq 0 .. Len(shown')
    BY <1>2, <1>3
  <2> QED BY <2>1
<1>5. InPlace(g, p, snap[c], b, shown, Sent')
  <2>1. 0 .. Len(shown) \subseteq Nat
    OBVIOUS
  <2> QED BY <1>1, <1>2, <2>1, InPlaceLater
<1>6. InPlace(g, p, snap[c], b, shown', Sent')
  <2>1. InPlace(g, p, snap[c], b, shown \o t, Sent')
    BY <1>2, <1>5, InPlaceLonger
  <2> QED BY <1>5, <2>1
<1>7. g = Got(c)' /\ snap'[c] = snap[c]
  BY DEF g
<1> QED BY <1>1, <1>4, <1>6, <1>7, PrimedPlaced

LEMMA PlacedNone ==
    ASSUME NEW c \in Clients, Got(c)' = <<>>, NEW b \in 0 .. Len(shown'),
           Len(snap'[c]) <= b, Lies(snap'[c], shown', b - Len(snap'[c]))
    PROVE  Placed(c)'
<1>1. PICK p \in [DOMAIN <<>> -> 0 .. Len(shown')] :
         /\ InPlace(<<>>, p, snap'[c], b, shown', Sent')
         /\ WithoutGap(<<>>, p) /\ EndsAt(<<>>, p, Sent')
  BY InPlaceNone
<1> QED BY <1>1, PrimedPlaced

LEMMA AppendMoves ==
    ASSUME NEW l \in Chunks, NEW q \in Chunks, NEW x \in Seq(Bytes)
    PROVE  l \o Append(q, x) = Append(l \o q, x)
<1>1. <<x>> \in Chunks /\ l \o q \in Chunks
  BY DEF Chunks
<1>2. Append(q, x) = q \o <<x>> /\ Append(l \o q, x) = (l \o q) \o <<x>>
  BY <1>1, AppendIsConcat DEF Chunks
<1>3. l \o (q \o <<x>>) = (l \o q) \o <<x>>
  <2> DEFINE y == <<x>>
             C == Seq(Bytes)
  <2>1. l \in Seq(C) /\ q \in Seq(C) /\ y \in Seq(C)
    BY <1>1 DEF Chunks
  <2> HIDE DEF y, C
  <2>2. l \o (q \o y) = (l \o q) \o y
    BY <2>1, ConcatAssociative
  <2> QED BY <2>2 DEF y
<1> QED BY <1>2, <1>3

\* A chunk that is sent moves from the queue to the client.
LEMMA HeadMoves ==
    ASSUME NEW l \in Chunks, NEW q \in Chunks, q # <<>>
    PROVE  Append(l, Head(q)) \o Tail(q) = l \o q
<1>1. Head(q) \in Seq(Bytes) /\ Tail(q) \in Chunks /\ Len(q) \in Nat \ {0}
  BY HeadTailProperties, EmptySeq DEF Chunks
<1>2. <<Head(q)>> \in Chunks
  BY <1>1 DEF Chunks
<1>3. q = <<Head(q)>> \o Tail(q)
  <2>1. 1 \in 1 .. Len(q) /\ Len(q) \in 1 .. Len(q)
    BY <1>1
  <2>2. SubSeq(q, 1, Len(q)) = <<q[1]>> \o SubSeq(q, 2, Len(q))
    <3>1. SubSeq(q, 1, Len(q)) = <<q[1]>> \o SubSeq(q, 1 + 1, Len(q))
      BY <2>1, SubSeqRecursiveFirst DEF Chunks
    <3> QED BY <3>1
  <2>3. SubSeq(q, 1, Len(q)) = q /\ Tail(q) = SubSeq(q, 2, Len(q)) /\ Head(q) = q[1]
    BY SubSeqFull, TailIsSubSeq, HeadTailProperties DEF Chunks
  <2> QED BY <2>2, <2>3
<1>4. Append(l, Head(q)) = l \o <<Head(q)>>
  BY <1>1, AppendIsConcat DEF Chunks
<1>5. (l \o <<Head(q)>>) \o Tail(q) = l \o (<<Head(q)>> \o Tail(q))
  BY <1>1, <1>2, ConcatAssociative DEF Chunks
<1> QED BY <1>3, <1>4, <1>5

LEMMA OrderTyped == TerminalInv /\ ChunkInHand => OrderTypes
<1> SUFFICES ASSUME TerminalInv, ChunkInHand PROVE OrderTypes
  OBVIOUS
<1>0. BufferOK /\ ChannelsOK /\ ClientsOK
  BY InvParts
<1>1. shown \in Seq(Bytes) /\ chunk \in Seq(Bytes)
  BY <1>0 DEF BufferOK
<1>2. Len(shown) \in Nat /\ Len(chunk) \in Nat
  BY <1>1
<1>3. Sent \in 0 .. Len(shown)
  <2>1. CASE stream = "broadcast"
    <3>1. Sent = Len(shown) - Len(chunk) /\ Len(chunk) <= Len(shown)
      BY <2>1 DEF Sent, ChunkInHand
    <3> QED BY <1>2, <3>1
  <2>2. CASE stream # "broadcast"
    <3>1. Sent = Len(shown) - 0
      BY <2>2 DEF Sent
    <3> QED BY <1>2, <3>1
  <2> QED BY <2>1, <2>2
<1>4. ASSUME NEW c \in Clients PROVE Got(c) \in Chunks
  <2>1. live[c] \in Chunks /\ queue[c] \in Chunks
    BY <1>0 DEF ClientsOK, ChannelsOK, Chunks
  <2>2. live[c] \o queue[c] \in Chunks /\ live[c] \o <<>> \in Chunks
    BY <2>1 DEF Chunks
  <2> QED BY <2>2 DEF Got
<1>5. \A c \in Clients : snap[c] \in Seq(Bytes)
  BY <1>0 DEF ClientsOK
<1> QED BY <1>1, <1>3, <1>4, <1>5 DEF OrderTypes

LEMMA SubscribedStays ==
    ASSUME NEW c \in Clients, Subscribed(c), handler'[c] = handler[c],
           writer'[c] = writer[c], live'[c] = live[c], c \in subs' => c \in subs
    PROVE  Subscribed(c)'
BY DEF Subscribed

\* A step that neither fills the chunk nor sends it, nor gives a client anything.
LEMMA OrderStays ==
    ASSUME OrderTypes, ChunkInHand, UNCHANGED <<chunk, shown>>,
           \/ stream' = stream
           \/ /\ stream \notin {"append", "broadcast"}
              /\ stream' \notin {"append", "broadcast"}
    PROVE  ChunkInHand' /\ Sent' = Sent
<1>1. /\ chunk' = chunk /\ shown' = shown
      /\ stream' = "broadcast" <=> stream = "broadcast"
      /\ stream' \in {"append", "broadcast"} => stream \in {"append", "broadcast"}
  OBVIOUS
<1>2. Sent' = Sent
  BY <1>1 DEF Sent
<1>3. ChunkInHand'
  BY <1>1, <1>2 DEF ChunkInHand, Lies
<1> QED BY <1>2, <1>3

\* What one client has to do with the order of its chunks.
Own(c) == <<handler[c], writer[c], conn[c], live[c], snap[c], queue[c]>>

LEMMA OthersStay ==
    ASSUME NEW c \in Clients, OrderTypes, Subscribed(c), Placed(c), UNCHANGED Own(c),
           shown' = shown, Sent' = Sent, c \in subs' => c \in subs,
           c \in missed' <=> c \in missed
    PROVE  Subscribed(c)' /\ Placed(c)'
<1>1. Subscribed(c)'
  BY SubscribedStays DEF Own
<1>2. Got(c)' = Got(c)
  BY DEF Got, Own
<1>3. snap'[c] = snap[c] /\ conn'[c] = conn[c]
  BY DEF Own
<1>4. Sent' \in Nat /\ Sent <= Sent'
  BY DEF OrderTypes
<1>5. Placed(c)'
  <2>1. <<>> \in Seq(Bytes)
    OBVIOUS
  <2>2. c \in subs' \ missed' /\ conn'[c] = "open" =>
           c \in subs \ missed /\ conn[c] = "open" /\ Sent' = Sent
    BY <1>3
  <2> QED BY <1>2, <1>3, <1>4, <2>1, <2>2, PlacedStays
<1> QED BY <1>1, <1>5

Ordered == \A c \in Clients : Subscribed(c) /\ Placed(c)

LEMMA SessionKeepsOrder ==
    ASSUME OrderInv, SessionStep \/ UNCHANGED vars
    PROVE  ChunkInHand' /\ Ordered'
<1>1. /\ UNCHANGED <<chunk, shown, handler, writer, conn, live, snap, queue, missed>>
      /\ subs' \subseteq subs
  <2>1. CASE SessionStep
    BY <2>1 DEF SessionStep, PostSession, Create, ProcessWrites, ProcessExits, DeleteSession,
       Close, StreamFails, WaitReturns, WaitCloses, StreamEnds, CloseSubscribers, buffer,
       channels, clients
  <2>2. CASE UNCHANGED vars
    BY <2>2 DEF vars, buffer, channels, clients
  <2> QED BY <2>1, <2>2
<1>2. \/ stream' = stream
      \/ stream \notin {"append", "broadcast"} /\ stream' \notin {"append", "broadcast"}
  <2>1. CASE PostSession
    BY <2>1 DEF PostSession, Create, OrderInv, TerminalInv
  <2>2. CASE StreamFails \/ StreamEnds
    BY <2>2 DEF StreamFails, StreamEnds
  <2>3. CASE ~ (PostSession \/ StreamFails \/ StreamEnds)
    BY <2>3 DEF SessionStep, ProcessWrites, ProcessExits, DeleteSession, Close, WaitReturns,
       WaitCloses, vars
  <2> QED BY <2>1, <2>2, <2>3
<1>3. OrderTypes /\ ChunkInHand
  BY OrderTyped DEF OrderInv
<1>4. ChunkInHand' /\ Sent' = Sent
  BY <1>1, <1>2, <1>3, OrderStays
<1>5. ASSUME NEW c \in Clients PROVE Subscribed(c)' /\ Placed(c)'
  <2>1. Subscribed(c) /\ Placed(c)
    BY DEF OrderInv
  <2>2. UNCHANGED Own(c)
    BY <1>1 DEF Own
  <2> QED BY <1>1, <1>3, <1>4, <2>1, <2>2, OthersStay
<1> QED BY <1>4, <1>5 DEF Ordered

LEMMA ReadKeepsOrder ==
    ASSUME OrderInv, StreamReads
    PROVE  ChunkInHand' /\ Ordered'
<1>1. /\ UNCHANGED <<shown, handler, writer, conn, live, snap, queue, missed, subs>>
      /\ stream = "read"
  BY DEF StreamReads, channels, clients
<1>2. stream' = IF chunk' = <<>> THEN "read" ELSE "append"
  BY DEF StreamReads
<1>3. OrderTypes
  BY OrderTyped DEF OrderInv
<1>4. ChunkInHand'
  BY <1>2 DEF ChunkInHand
<1>5. Sent' = Sent
  BY <1>1, <1>2 DEF Sent
<1>6. ASSUME NEW c \in Clients PROVE Subscribed(c)' /\ Placed(c)'
  <2>1. Subscribed(c) /\ Placed(c)
    BY DEF OrderInv
  <2>2. UNCHANGED Own(c)
    BY <1>1 DEF Own
  <2> QED BY <1>1, <1>3, <1>5, <2>1, <2>2, OthersStay
<1> QED BY <1>4, <1>6 DEF Ordered

LEMMA AppendKeepsOrder ==
    ASSUME OrderInv, AppendOutput
    PROVE  ChunkInHand' /\ Ordered'
<1>1. /\ UNCHANGED <<chunk, handler, writer, conn, live, snap, queue, missed, subs>>
      /\ stream = "append" /\ stream' = "broadcast" /\ shown' = shown \o chunk
  BY DEF AppendOutput, channels, clients
<1>2. OrderTypes /\ chunk # <<>>
  BY <1>1, OrderTyped DEF OrderInv, ChunkInHand
<1>3. shown \in Seq(Bytes) /\ chunk \in Seq(Bytes)
  BY InvParts DEF OrderInv, BufferOK
<1>4. /\ Len(shown \o chunk) = Len(shown) + Len(chunk)
      /\ Len(shown) \in Nat /\ Len(chunk) \in Nat
  BY <1>3, ConcatProperties
<1>5. Sent = Len(shown) /\ Sent' = Len(shown)
  <2>1. Sent = Len(shown) - 0
    BY <1>1 DEF Sent
  <2>2. Sent' = Len(shown) + Len(chunk) - Len(chunk)
    BY <1>1, <1>4 DEF Sent
  <2>3. Len(shown) - 0 = Len(shown) /\ Len(shown) + Len(chunk) - Len(chunk) = Len(shown)
    BY <1>4
  <2> QED BY <2>1, <2>2, <2>3
<1>6. ChunkInHand'
  <2>1. Lies(chunk, shown \o chunk, Len(shown))
    BY <1>3, LiesAtEnd
  <2>2. Lies(chunk', shown', Sent')
    BY <1>1, <1>5, <2>1
  <2>3. Len(chunk) <= Len(shown) + Len(chunk)
    BY <1>4
  <2>4. chunk' # <<>> /\ Len(chunk') <= Len(shown')
    BY <1>1, <1>2, <1>4, <2>3
  <2>5. Lies(chunk, shown, Sent)'
    BY <2>2 DEF Lies
  <2> QED BY <2>4, <2>5 DEF ChunkInHand
<1>7. ASSUME NEW c \in Clients PROVE Subscribed(c)' /\ Placed(c)'
  <2>1. Subscribed(c) /\ Placed(c)
    BY DEF OrderInv
  <2>2. Subscribed(c)'
    BY <1>1, <2>1, SubscribedStays
  <2>3. Got(c)' = Got(c)
    BY <1>1 DEF Got
  <2>4. Sent' = Sent /\ Sent \in Nat /\ Sent <= Sent
    BY <1>4, <1>5
  <2>5. Placed(c)'
    BY <1>1, <1>2, <1>3, <2>1, <2>3, <2>4, PlacedStays
  <2> QED BY <2>2, <2>5
<1> QED BY <1>6, <1>7 DEF Ordered

LEMMA BroadcastKeepsOrder ==
    ASSUME OrderInv, Broadcast
    PROVE  ChunkInHand' /\ Ordered'
<1> DEFINE room == {c \in subs : Len(queue[c]) < ChannelSize}
<1>1. /\ UNCHANGED <<shown, handler, writer, conn, live, snap, subs>>
      /\ stream = "broadcast" /\ stream' = "read"
      /\ queue' = [c \in Clients |-> IF c \in room THEN Append(queue[c], chunk) ELSE queue[c]]
      /\ missed' = missed \cup (subs \ room)
  BY DEF Broadcast, clients
<1>2. OrderTypes /\ chunk # <<>> /\ Lies(chunk, shown, Sent)
  BY <1>1, OrderTyped DEF OrderInv, ChunkInHand
<1>3. shown \in Seq(Bytes) /\ chunk \in Seq(Bytes) /\ Len(shown) \in Nat /\ Len(chunk) \in Nat
  BY InvParts DEF OrderInv, BufferOK
<1>4. ChunkInHand'
  BY <1>1 DEF ChunkInHand
<1>5. Sent \in Nat /\ Sent' = Len(shown) /\ Sent <= Len(shown) /\ Sent + Len(chunk) = Len(shown)
  <2>1. Sent = Len(shown) - Len(chunk) /\ Sent' = Len(shown) - 0
    BY <1>1 DEF Sent
  <2>2. Sent \in 0 .. Len(shown)
    BY <1>2 DEF OrderTypes
  <2> QED BY <1>3, <2>1, <2>2
<1> HIDE DEF room
<1>6. ASSUME NEW c \in Clients PROVE Subscribed(c)' /\ Placed(c)'
  <2>1. Subscribed(c) /\ Placed(c)
    BY DEF OrderInv
  <2>2. Subscribed(c)'
    BY <1>1, <2>1, SubscribedStays
  <2>3. Got(c) \in Chunks /\ snap[c] \in Seq(Bytes) /\ queue[c] \in Chunks /\ live[c] \in Chunks
    <3>1. ChannelsOK /\ ClientsOK
      BY InvParts DEF OrderInv
    <3> QED BY <1>2, <3>1 DEF OrderTypes, ChannelsOK, ClientsOK, Chunks
  <2>4. c \in room => c \in subs
    BY DEF room
  <2>5. CASE c \in room /\ conn[c] = "open"
    <3>1. writer[c] = "range" /\ c \in subs
      BY <2>1, <2>4, <2>5 DEF Subscribed
    <3>2. Got(c) = live[c] \o queue[c] /\ Got(c)' = live[c] \o Append(queue[c], chunk)
      BY <1>1, <2>5, <3>1 DEF Got
    <3>3. Got(c)' = Append(Got(c), chunk)
      <4>1. live[c] \o Append(queue[c], chunk) = Append(live[c] \o queue[c], chunk)
        BY <1>3, <2>3, AppendMoves
      <4> QED BY <3>2, <4>1
    <3>4. PICK b \in 0 .. Len(shown), p \in [DOMAIN Got(c) -> 0 .. Len(shown)] :
             /\ InPlace(Got(c), p, snap[c], b, shown, Sent)
             /\ c \notin missed => WithoutGap(Got(c), p)
             /\ c \in subs \ missed /\ conn[c] = "open" => EndsAt(Got(c), p, Sent)
      BY <2>1 DEF Placed
    <3>5. b \in Nat /\ b <= Len(shown)
      BY <1>3
    <3>6. PICK r \in [DOMAIN Append(Got(c), chunk) -> 0 .. Len(shown)] :
             /\ InPlace(Append(Got(c), chunk), r, snap[c], b, shown, Len(shown))
             /\ WithoutGap(Got(c), p) /\ EndsAt(Got(c), p, Sent)
                   => WithoutGap(Append(Got(c), chunk), r)
             /\ EndsAt(Append(Got(c), chunk), r, Len(shown))
      BY <1>2, <1>3, <1>5, <2>3, <3>4, <3>5, InPlaceAppend
    <3>7. c \notin missed' => WithoutGap(Append(Got(c), chunk), r)
      BY <1>1, <2>5, <3>1, <3>4, <3>6
    <3>8. shown' = shown /\ snap'[c] = snap[c]
      BY <1>1
    <3> QED BY <1>5, <2>2, <3>3, <3>6, <3>7, <3>8, PrimedPlaced
  <2>6. CASE ~ (c \in room /\ conn[c] = "open")
    <3>1. Got(c)' = Got(c)
      BY <1>1, <2>6 DEF Got
    <3>2. /\ c \in missed => c \in missed'
          /\ snap'[c] = snap[c] /\ shown' = shown
          /\ ~ (c \in subs' \ missed' /\ conn'[c] = "open")
      BY <1>1, <2>6
    <3>3. <<>> \in Seq(Bytes) /\ Sent' \in Nat /\ Sent <= Sent'
      BY <1>3, <1>5
    <3>4. Placed(c)'
      BY <1>2, <2>1, <3>1, <3>2, <3>3, PlacedStays
    <3> QED BY <2>2, <3>4
  <2> QED BY <2>5, <2>6
<1> QED BY <1>4, <1>6 DEF Ordered

LEMMA ClientLeavesOthers ==
    ASSUME ClientsOK, ChannelsOK, NEW c \in Clients, ClientStep(c), NEW d \in Clients, d # c
    PROVE  UNCHANGED Own(d) /\ (d \in subs' => d \in subs) /\ (d \in missed' <=> d \in missed)
<1>0. /\ DOMAIN handler = Clients /\ DOMAIN writer = Clients /\ DOMAIN conn = Clients
      /\ DOMAIN live = Clients /\ DOMAIN snap = Clients /\ DOMAIN queue = Clients
  BY DEF ClientsOK, ChannelsOK
<1>1. CASE TryAttach(c) \/ Upgrade(c) \/ UpgradeFails(c) \/ Join(c)
  BY <1>0, <1>1 DEF TryAttach, Upgrade, UpgradeFails, Join, Move, Own, channels
<1>2. CASE Snapshot(c) \/ Detach(c) \/ ClientLeaves(c) \/ WriterEnds(c)
  BY <1>0, <1>2 DEF Snapshot, Detach, ClientLeaves, WriterEnds, Move, Own, channels
<1>3. CASE Subscribe(c)
  BY <1>0, <1>3 DEF Subscribe, Move, Own
<1>4. CASE ReadFails(c) \/ WriterFails(c)
  BY <1>0, <1>4 DEF ReadFails, WriterFails, Unsubscribe, Move, Own
<1>5. CASE WriterSends(c)
  BY <1>0, <1>5 DEF WriterSends, Own
<1> QED BY <1>1, <1>2, <1>3, <1>4, <1>5 DEF ClientStep, Handler, Writer

LEMMA ClientStaysSubscribed ==
    ASSUME ClientsOK, ChannelsOK, NEW c \in Clients, ClientStep(c), Subscribed(c)
    PROVE  Subscribed(c)'
<1>0. /\ DOMAIN handler = Clients /\ DOMAIN writer = Clients /\ DOMAIN live = Clients
      /\ subs \cap closed = {}
  BY DEF ClientsOK, ChannelsOK, ChannelsOpen
<1>1. CASE TryAttach(c) \/ Upgrade(c) \/ UpgradeFails(c)
  <2>1. /\ handler[c] \in {"idle", "upgrade"} /\ handler'[c] \in {"upgrade", "snapshot", "detach"}
        /\ UNCHANGED <<writer, live, subs>>
    BY <1>0, <1>1 DEF TryAttach, Upgrade, UpgradeFails, Move, channels
  <2> QED BY <2>1 DEF Subscribed
<1>2. CASE Snapshot(c)
  <2>1. handler[c] = "snapshot" /\ handler'[c] = "subscribe" /\ UNCHANGED <<writer, live, subs>>
    BY <1>0, <1>2 DEF Snapshot, Move, channels
  <2> QED BY <2>1 DEF Subscribed
<1>3. CASE Subscribe(c)
  <2>1. handler'[c] = "serve" /\ writer'[c] = "range"
    BY <1>0, <1>3 DEF Subscribe, Move
  <2> QED BY <2>1 DEF Subscribed
<1>4. CASE ReadFails(c)
  <2>1. handler'[c] = "join" /\ c \notin subs'
    BY <1>0, <1>4 DEF ReadFails, Unsubscribe, Move
  <2> QED BY <2>1 DEF Subscribed
<1>5. CASE Join(c)
  <2>1. handler'[c] = "detach" /\ writer[c] = "gone" /\ subs' = subs
    BY <1>0, <1>5 DEF Join, Move, channels
  <2> QED BY <2>1 DEF Subscribed
<1>6. CASE Detach(c)
  <2>1. handler[c] = "detach" /\ writer'[c] = "none" /\ live'[c] = <<>> /\ subs' = subs
    BY <1>0, <1>6 DEF Detach, channels
  <2> QED BY <2>1 DEF Subscribed
<1>7. CASE ClientLeaves(c)
  BY <1>7 DEF ClientLeaves, Subscribed, channels
<1>8. CASE WriterSends(c)
  <2>1. writer[c] = "range" /\ UNCHANGED <<handler, writer, subs>>
    BY <1>8 DEF WriterSends
  <2> QED BY <2>1 DEF Subscribed
<1>9. CASE WriterFails(c) \/ WriterEnds(c)
  <2>1. writer[c] = "range" /\ c \notin subs' /\ UNCHANGED handler
    BY <1>0, <1>9 DEF WriterFails, WriterEnds, Unsubscribe, channels
  <2> QED BY <2>1 DEF Subscribed
<1> QED BY <1>1, <1>2, <1>3, <1>4, <1>5, <1>6, <1>7, <1>8, <1>9
     DEF ClientStep, Handler, Writer

LEMMA ClientStaysPlaced ==
    ASSUME OrderInv, NEW c \in Clients, ClientStep(c), Sent' = Sent, shown' = shown
    PROVE  Placed(c)'
<1>0. /\ DOMAIN handler = Clients /\ DOMAIN writer = Clients /\ DOMAIN conn = Clients
      /\ DOMAIN live = Clients /\ DOMAIN snap = Clients /\ DOMAIN queue = Clients
      /\ subs \cap closed = {} /\ live[c] \in Chunks /\ queue[c] \in Chunks
  BY InvParts DEF OrderInv, ClientsOK, ChannelsOK, ChannelsOpen, Chunks
<1>1. OrderTypes /\ Subscribed(c) /\ Placed(c) /\ shown \in Seq(Bytes) /\ snap[c] \in Seq(Bytes)
  BY OrderTyped DEF OrderInv, OrderTypes
<1>2. live[c] \o <<>> = live[c] /\ <<>> \in Seq(Bytes)
  BY <1>0 DEF Chunks
<1>3. ASSUME Got(c)' = Got(c), snap'[c] = snap[c], c \in missed => c \in missed',
             c \in subs' \ missed' /\ conn'[c] = "open" =>
                 c \in subs \ missed /\ conn[c] = "open"
      PROVE  Placed(c)'
  <2>1. Sent' \in Nat /\ Sent <= Sent'
    BY <1>1 DEF OrderTypes
  <2> QED BY <1>1, <1>2, <1>3, <2>1, PlacedStays
<1>4. CASE TryAttach(c) \/ UpgradeFails(c) \/ Join(c)
  <2>1. UNCHANGED <<live, conn, writer, queue, snap, missed, subs>>
    BY <1>4 DEF TryAttach, UpgradeFails, Join, channels
  <2> QED BY <1>3, <2>1 DEF Got
<1>5. CASE Upgrade(c)
  <2>1. /\ UNCHANGED <<live, writer, snap, missed, subs>>
        /\ writer[c] = "none" /\ c \notin subs
    BY <1>1, <1>5 DEF Upgrade, channels, Subscribed
  <2> QED BY <1>3, <2>1 DEF Got
<1>6. CASE Snapshot(c) \/ Subscribe(c) \/ Detach(c)
  <2>1. Got(c)' = <<>>
    <3>1. CASE Snapshot(c)
      <4>1. live'[c] = <<>> /\ writer'[c] = "none"
        BY <1>1, <3>1 DEF Snapshot, Subscribed
      <4> QED BY <4>1 DEF Got
    <3>2. CASE Subscribe(c)
      <4>1. live'[c] = <<>> /\ queue'[c] = <<>>
        BY <1>0, <1>1, <3>2 DEF Subscribe, Subscribed
      <4> QED BY <4>1 DEF Got
    <3>3. CASE Detach(c)
      <4>1. live'[c] = <<>> /\ writer'[c] = "none"
        BY <1>0, <3>3 DEF Detach
      <4> QED BY <4>1 DEF Got
    <3> QED BY <1>6, <3>1, <3>2, <3>3
  <2>2. \E b \in 0 .. Len(shown) :
           Len(snap'[c]) <= b /\ Lies(snap'[c], shown, b - Len(snap'[c]))
    <3>1. CASE Snapshot(c)
      <4>1. snap'[c] = Recent(shown)
        BY <1>0, <3>1 DEF Snapshot, OrderInv, TerminalInv, BufferIsTail
      <4>2. Len(shown) \in 0 .. Len(shown)
        BY <1>1
      <4> QED BY <1>1, <4>1, <4>2, RecentLies
    <3>2. CASE Subscribe(c)
      <4>1. snap' = snap
        BY <3>2 DEF Subscribe
      <4> QED BY <1>1, <4>1 DEF Placed, InPlace
    <3>3. CASE Detach(c)
      <4>1. snap'[c] = <<>> /\ Len(<<>>) = 0 /\ 0 \in 0 .. Len(shown) /\ 0 \in Nat /\ 0 - 0 = 0
        BY <1>0, <1>1, <3>3 DEF Detach
      <4>2. Lies(<<>>, shown, 0)
        <5>1. 0 + Len(<<>>) <= Len(shown) /\ \A i \in 1 .. Len(<<>>) : <<>>[i] = shown[0 + i]
          BY <1>1, <4>1
        <5> QED BY <1>1, <1>2, <4>1, <5>1, LiesMeans
      <4>3. Lies(<<>>, shown, 0 - Len(<<>>)) /\ Len(<<>>) <= 0
        BY <4>1, <4>2
      <4> QED BY <4>1, <4>3
    <3> QED BY <1>6, <3>1, <3>2, <3>3
  <2>3. PICK b \in 0 .. Len(shown') :
           Len(snap'[c]) <= b /\ Lies(snap'[c], shown', b - Len(snap'[c]))
    BY <2>2
  <2> QED BY <2>1, <2>3, PlacedNone
<1>7. CASE ClientLeaves(c)
  <2> DEFINE q == IF conn[c] = "open" /\ writer[c] = "range" THEN queue[c] ELSE <<>>
  <2>1. /\ Got(c) = live[c] \o q /\ q \in Chunks /\ Got(c)' = live[c]
        /\ UNCHANGED <<snap, missed>> /\ conn'[c] = "gone"
    <3>1. live' = live /\ conn'[c] = "gone" /\ UNCHANGED <<snap, missed>>
      BY <1>0, <1>7 DEF ClientLeaves, channels
    <3>2. q \in Chunks
      BY <1>0 DEF Chunks
    <3> QED BY <1>2, <3>1, <3>2 DEF Got
  <2> HIDE DEF q
  <2>2. PICK b \in 0 .. Len(shown), p \in [DOMAIN (live[c] \o q) -> 0 .. Len(shown)] :
           /\ InPlace(live[c] \o q, p, snap[c], b, shown, Sent)
           /\ c \notin missed => WithoutGap(live[c] \o q, p)
    BY <1>1, <2>1 DEF Placed
  <2>3. PICK r \in [DOMAIN live[c] -> 0 .. Len(shown)] :
           /\ InPlace(live[c], r, snap[c], b, shown, Sent)
           /\ WithoutGap(live[c] \o q, p) => WithoutGap(live[c], r)
    BY <1>0, <2>1, <2>2, InPlacePrefix
  <2>4. /\ InPlace(Got(c)', r, snap'[c], b, shown', Sent')
        /\ c \notin missed' => WithoutGap(Got(c)', r)
        /\ r \in [DOMAIN Got(c)' -> 0 .. Len(shown')] /\ b \in 0 .. Len(shown')
    BY <2>1, <2>2, <2>3
  <2> QED BY <2>1, <2>4, PrimedPlaced
<1>8. CASE WriterSends(c)
  <2>1. /\ writer[c] = "range" /\ queue[c] # <<>> /\ queue'[c] = Tail(queue[c])
        /\ UNCHANGED <<subs, missed, writer, conn, snap>>
        /\ live'[c] = IF conn[c] = "open" THEN Append(live[c], Head(queue[c])) ELSE live[c]
    BY <1>0, <1>8 DEF WriterSends
  <2>2. Got(c)' = Got(c)
    <3>1. CASE conn[c] = "open"
      <4>1. /\ Got(c) = live[c] \o queue[c]
            /\ Got(c)' = Append(live[c], Head(queue[c])) \o Tail(queue[c])
        BY <2>1, <3>1 DEF Got
      <4> QED BY <1>0, <2>1, <4>1, HeadMoves
    <3>2. CASE conn[c] # "open"
      BY <2>1, <3>2 DEF Got
    <3> QED BY <3>1, <3>2
  <2> QED BY <1>3, <2>1, <2>2
<1>9. CASE WriterFails(c) \/ ReadFails(c)
  <2>1. /\ UNCHANGED <<live, conn, snap, missed>> /\ conn[c] = "gone" /\ c \notin subs'
    BY <1>9 DEF WriterFails, ReadFails, Unsubscribe
  <2>2. Got(c)' = Got(c)
    BY <2>1 DEF Got
  <2> QED BY <1>3, <2>1, <2>2
<1>10. CASE WriterEnds(c)
  <2>1. /\ UNCHANGED <<live, conn, snap, queue, missed, subs>> /\ queue[c] = <<>>
    BY <1>10 DEF WriterEnds, channels
  <2>2. Got(c)' = live[c] \o <<>> /\ Got(c) = live[c] \o <<>>
    BY <2>1 DEF Got
  <2> QED BY <1>3, <2>1, <2>2
<1> QED BY <1>4, <1>5, <1>6, <1>7, <1>8, <1>9, <1>10 DEF ClientStep, Handler, Writer

LEMMA ClientKeepsOrder ==
    ASSUME OrderInv, NEW c \in Clients, ClientStep(c)
    PROVE  ChunkInHand' /\ Ordered'
<1>1. UNCHANGED Session
  BY DEF ClientStep, TryAttach, Handler, Upgrade, UpgradeFails, Snapshot, Subscribe, ReadFails,
     Join, Detach, Writer, WriterSends, WriterFails, WriterEnds, ClientLeaves
<1>2. UNCHANGED <<chunk, shown, stream>>
  BY <1>1 DEF Session, buffer
<1>3. OrderTypes /\ ChunkInHand /\ ClientsOK /\ ChannelsOK
  BY OrderTyped, InvParts DEF OrderInv
<1>4. ChunkInHand' /\ Sent' = Sent
  BY <1>2, <1>3, OrderStays
<1>5. ASSUME NEW d \in Clients PROVE Subscribed(d)' /\ Placed(d)'
  <2>1. Subscribed(d) /\ Placed(d)
    BY DEF OrderInv
  <2>2. CASE d = c
    BY <1>2, <1>3, <1>4, <2>1, <2>2, ClientStaysSubscribed, ClientStaysPlaced
  <2>3. CASE d # c
    <3>1. UNCHANGED Own(d) /\ (d \in subs' => d \in subs) /\ (d \in missed' <=> d \in missed)
      BY <1>3, <2>3, ClientLeavesOthers
    <3> QED BY <1>2, <1>3, <1>4, <2>1, <3>1, OthersStay
  <2> QED BY <2>2, <2>3
<1> QED BY <1>4, <1>5 DEF Ordered

LEMMA OrderStep == OrderInv /\ [Next]_vars => OrderInv'
<1> SUFFICES ASSUME OrderInv, [Next]_vars PROVE OrderInv'
  OBVIOUS
<1>1. TerminalInv'
  BY StepHolds DEF OrderInv
<1>2. ChunkInHand' /\ Ordered'
  <2>1. CASE SessionStep \/ UNCHANGED vars
    BY <2>1, SessionKeepsOrder
  <2>2. CASE StreamReads
    BY <2>2, ReadKeepsOrder
  <2>3. CASE AppendOutput
    BY <2>3, AppendKeepsOrder
  <2>4. CASE Broadcast
    BY <2>4, BroadcastKeepsOrder
  <2>5. CASE \E c \in Clients : ClientStep(c)
    BY <2>5, ClientKeepsOrder
  <2> QED BY <2>1, <2>2, <2>3, <2>4, <2>5
       DEF Next, Process, Stream, Wait, Over, SessionStep, ClientStep
<1> QED BY <1>1, <1>2 DEF OrderInv, Ordered

LEMMA OrderInit == Init => OrderInv
<1> SUFFICES ASSUME Init PROVE OrderInv
  OBVIOUS
<1>1. TerminalInv
  BY InitHolds
<1>2. ChunkInHand
  BY DEF Init, ChunkInHand
<1>3. ASSUME NEW c \in Clients PROVE Subscribed(c)
  BY DEF Init, Subscribed
<1>4. ASSUME NEW c \in Clients PROVE Placed(c)
  <2>1. /\ Got(c) = <<>> /\ snap[c] = <<>> /\ shown = <<>> /\ Len(<<>>) = 0 /\ <<>> \in Seq(Bytes)
        /\ 0 - 0 = 0 /\ 0 \in 0 .. 0 /\ 0 + 0 <= 0
    BY DEF Init, Got
  <2>2. Lies(<<>>, <<>>, 0)
    <3>1. 0 + Len(<<>>) <= Len(<<>>) /\ \A i \in 1 .. Len(<<>>) : <<>>[i] = <<>>[0 + i]
      BY <2>1
    <3> QED BY <2>1, <3>1, LiesMeans
  <2>3. Lies(<<>>, <<>>, 0 - Len(<<>>)) /\ Len(<<>>) <= 0
    BY <2>1, <2>2
  <2>4. PICK p \in [DOMAIN <<>> -> 0 .. 0] : /\ InPlace(<<>>, p, <<>>, 0, <<>>, Sent)
                                             /\ WithoutGap(<<>>, p) /\ EndsAt(<<>>, p, Sent)
    <3> DEFINE x == <<>>
               n == 0
    <3>1. Len(x) <= n /\ Lies(x, x, n - Len(x))
      BY <2>3
    <3> HIDE DEF x, n
    <3>2. \E p \in [DOMAIN <<>> -> 0 .. 0] : /\ InPlace(<<>>, p, x, n, x, Sent)
                                           /\ WithoutGap(<<>>, p) /\ EndsAt(<<>>, p, Sent)
      BY <3>1, InPlaceNone
    <3> QED BY <3>2 DEF x, n
  <2> QED BY <2>1, <2>4 DEF Placed
<1> QED BY <1>1, <1>2, <1>3, <1>4 DEF OrderInv

LEMMA PlacesAreInOrder == OrderInv => InOrder
<1> SUFFICES ASSUME OrderInv, NEW c \in Clients
             PROVE  \E b \in 0 .. Len(shown), p \in [DOMAIN Got(c) -> 0 .. Len(shown)] :
                       /\ Lies(snap[c], shown, b)
                       /\ \A i \in DOMAIN p : Lies(Got(c)[i], shown, p[i])
                       /\ \A i \in 1 .. Len(Got(c)) - 1 :
                             /\ p[i] + Len(Got(c)[i]) <= p[i + 1]
                             /\ c \notin missed => p[i] + Len(Got(c)[i]) = p[i + 1]
                             /\ b + Len(snap[c]) <= p[i + 1]
  BY DEF InOrder
<1> DEFINE g == Got(c)
           x == snap[c]
<1>1. OrderTypes
  BY OrderTyped DEF OrderInv
<1>2. g \in Chunks /\ x \in Seq(Bytes) /\ shown \in Seq(Bytes)
  BY <1>1 DEF OrderTypes
<1>3. PICK b \in 0 .. Len(shown), p \in [DOMAIN g -> 0 .. Len(shown)] :
         /\ InPlace(g, p, x, b, shown, Sent)
         /\ c \notin missed => WithoutGap(g, p)
  BY DEF OrderInv, Placed
<1> HIDE DEF g, x
<1> DEFINE a == b - Len(x)
<1>4. a \in 0 .. Len(shown) /\ a + Len(x) = b /\ Lies(x, shown, a)
  <2>1. Len(x) \in Nat /\ Len(shown) \in Nat /\ Len(x) <= b /\ Lies(x, shown, b - Len(x))
    BY <1>2, <1>3 DEF InPlace
  <2> QED BY <1>3, <2>1
<1> HIDE DEF a
<1>5. /\ DOMAIN p = DOMAIN g /\ \A i \in DOMAIN p : Lies(g[i], shown, p[i])
      /\ \A i \in 1 .. Len(g) - 1 : p[i] + Len(g[i]) <= p[i + 1]
      /\ \A i \in 1 .. Len(g) - 1 : c \notin missed => p[i] + Len(g[i]) = p[i + 1]
  BY <1>3 DEF InPlace, WithoutGap
<1>6. ASSUME NEW i \in 1 .. Len(g) - 1 PROVE b <= p[i + 1]
  <2> DEFINE d == p[i] + Len(g[i])
  <2>1. i \in DOMAIN g /\ i + 1 \in DOMAIN g
    BY <1>2 DEF Chunks
  <2>2. g[i] \in Seq(Bytes)
    BY <1>2, <2>1 DEF Chunks
  <2>3. p[i] \in Nat /\ p[i + 1] \in Nat /\ Len(g[i]) \in Nat
    BY <1>2, <2>1, <2>2
  <2>4. d \in Nat /\ b \in Nat
    BY <1>2, <2>3
  <2>5. b <= d /\ d <= p[i + 1]
    BY <1>3, <1>5, <2>1 DEF InPlace
  <2> DEFINE e == p[i + 1]
  <2>6. e \in Nat /\ d <= e
    BY <2>3, <2>5
  <2> HIDE DEF d, e
  <2>7. b <= e
    BY <2>4, <2>5, <2>6
  <2> QED BY <2>7 DEF e
<1>7. \A i \in 1 .. Len(g) - 1 : a + Len(x) <= p[i + 1]
  BY <1>4, <1>6
<1> QED BY <1>3, <1>4, <1>5, <1>7 DEF g, x
-----------------------------------------------------------------------------
(* The theorems *)

\* The inductive invariant: types, buffer, channels, and the place at which the filter stops.
THEOREM TerminalInvariant == Spec => []TerminalInv
<1> QED BY InitHolds, StepHolds, PTL DEF Spec

\* The session and its clients have their types: in particular, of any number of browsers
\* one at most is attached, and no channel holds more than it is made for.
THEOREM TypesKept == Spec => []TypeOK
<1>1. TerminalInv => TypeOK
  BY DEF TerminalInv
<1> QED BY <1>1, TerminalInvariant, PTL

\* However the reads cut the output, the DSR filter shows exactly the bytes outside of
\* queries and responses and answers each query once, and the buffer holds the last of them.
THEOREM FilterIsExact == Spec => []BufferIsTail
<1>1. TerminalInv => BufferIsTail
  BY DEF TerminalInv
<1> QED BY <1>1, TerminalInvariant, PTL

\* No goroutine sends on a closed channel or closes one twice.
THEOREM NoClosedChannel == Spec => []ChannelsOpen
<1>1. TerminalInv => ChannelsOpen
  BY DEF TerminalInv
<1> QED BY <1>1, TerminalInvariant, PTL

\* The inductive invariant about the order: with the one above, every chunk of a client has
\* a place in what was sent, and a subscriber that missed none has all up to the last.
THEOREM OrderInvariant == Spec => []OrderInv
<1> QED BY OrderInit, OrderStep, PTL DEF Spec

\* However clients come and go between buffer and broadcast, each sees the output in the
\* order it was written, without a gap unless a chunk was dropped for it.
THEOREM ClientsSeeOrder == Spec => []InOrder
<1> QED BY OrderInvariant, PlacesAreInOrder, PTL
=============================================================================
