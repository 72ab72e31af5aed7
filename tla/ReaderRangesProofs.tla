------------------------- MODULE ReaderRangesProofs --------------------------
(* Proofs about TopicReader, continued: the ranges of the messages tile, for *)
(* every number of partitions, grants, commits, faults and every limit.      *)
EXTENDS TopicReaderProofs

-----------------------------------------------------------------------------
(* The ranges of the messages                                               *)

\* What read() has yielded once the first i responses are read.
Taken(d, c, i) == d \cup UNION {c[j] : j \in 1 .. i}
Everything == Taken(delivered, chunks, Len(chunks))

\* The range of a message of a grant acknowledges the offset.
Acked(S, p, g, o) ==
  \E n \in S : n.partition = p /\ n.grant = g /\ n.from <= o /\ o <= n.offset

\* The messages leave nothing out, and overlap nowhere.
Tiled(S, com) ==
  \A m \in S : \A o \in Nat :
    o <= m.offset => o < com[m.partition] \/ Acked(S, m.partition, m.grant, o)
Disjoint(S) ==
  \A m, n \in S : m.partition = n.partition /\ m.grant = n.grant /\ m # n =>
    m.offset < n.from \/ n.offset < m.from
FirstReads(d, c, com) == \A i \in 0 .. Len(c) : Tiled(Taken(d, c, i), com)

\* Up to its watermark a grant that is served has acknowledged everything.
Filled(es, S, com) ==
  \A p \in Partition : es[p].state \in Held =>
    \A o \in Nat : o < es[p].watermark => o < com[p] \/ Acked(S, p, es[p].grant, o)

\* What is still to come on a session lies behind what its grant has brought.
Ahead(es, ix, box, s, S) ==
  \A sid \in Sid : ix[sid] # None =>
    \A m \in S : m.partition = ix[sid] /\ m.grant = es[ix[sid]].grant =>
      /\ m.offset < es[ix[sid]].watermark
      /\ \A f \in Range(box) : f.type = "read" /\ f.sid = sid => m.offset < f.offset
      /\ s.conn = "up" /\ Live(s.sess[sid]) => m.offset < s.sess[sid].pos
Ordered(box) ==
  \A i, j \in DOMAIN box :
    box[i].type = "read" /\ box[j].type = "read" /\ box[i].sid = box[j].sid /\ i < j =>
      box[i].offset < box[j].offset
Fed(box, s) ==
  \A f \in Range(box) : f.type = "read" =>
    /\ s.conn # "none" => s.sess[f.sid].partition # None
    /\ s.conn = "up" /\ Live(s.sess[f.sid]) => f.offset < s.sess[f.sid].pos

\* No two grants that are served have the same number.
Stamped(es, S, grant) ==
  /\ \A m \in S : m.grant <= grant
  /\ \A p \in Partition : es[p].grant <= grant
  /\ \A p, q \in Partition :
       es[p].state \in Held /\ es[q].state \in Held /\ es[p].grant = es[q].grant => p = q

Tiles(es, s, ix, box, grant, S) ==
  /\ Disjoint(S) /\ Filled(es, S, s.committed) /\ Ahead(es, ix, box, s, S)
  /\ Ordered(box) /\ Fed(box, s) /\ Stamped(es, S, grant)
TileInv ==
  /\ FirstReads(delivered, chunks, srv.committed)
  /\ Tiles(entries, srv, index, inbox, grantSeq, Everything)

\* What a step has to show.
TilesKept ==
  /\ FirstReads(delivered', chunks', srv'.committed)
  /\ Tiles(entries', srv', index', inbox', grantSeq', Taken(delivered', chunks', Len(chunks')))

LEMMA TakenTyped ==
  ASSUME NEW d \in SUBSET MessageT, NEW c \in Seq(SUBSET MessageT), NEW i \in 0 .. Len(c)
  PROVE  Taken(d, c, i) \in SUBSET MessageT
<1>1. \A j \in 1 .. Len(c) : c[j] \in SUBSET MessageT
  BY ElementOfSeq
<1>2. \A j \in 1 .. i : j \in 1 .. Len(c)
  BY LenProperties
<1> QED
  BY <1>1, <1>2 DEF Taken

\* The messages of a stopped session are left out everywhere.
Without(S, g) == {m \in S : m.grant # g}

LEMMA StopTaken ==
  ASSUME chunks \in Seq(SUBSET MessageT), NEW g, StopSession(g)
  PROVE  /\ Len(chunks') = Len(chunks)
         /\ \A i \in 0 .. Len(chunks) :
              Taken(delivered', chunks', i) = Without(Taken(delivered, chunks, i), g)
<1>1. Len(chunks') = Len(chunks)
  BY SameSize
<1>2. ASSUME NEW i \in 0 .. Len(chunks)
      PROVE  Taken(delivered', chunks', i) = Without(Taken(delivered, chunks, i), g)
  <2>1. \A j \in 1 .. i : chunks'[j] = Without(chunks[j], g)
    <3> SUFFICES ASSUME NEW j \in 1 .. i PROVE chunks'[j] = Without(chunks[j], g)
      OBVIOUS
    <3>1. j \in 1 .. Len(chunks)
      BY LenProperties
    <3> QED
      BY <3>1 DEF StopSession, Without
  <2>2. delivered' = Without(delivered, g)
    BY DEF StopSession, Without
  <2> QED
    BY <2>1, <2>2 DEF Taken, Without
<1> QED
  BY <1>1, <1>2

\* What read() takes was there.
LEMMA ReadTaken ==
  ASSUME chunks \in Seq(SUBSET MessageT), chunks # << >>, chunks' = Tail(chunks),
         delivered' = delivered \cup Head(chunks)
  PROVE  /\ Len(chunks) \in Nat /\ Len(chunks') = Len(chunks) - 1
         /\ \A i \in 0 .. Len(chunks') :
              Taken(delivered', chunks', i) = Taken(delivered, chunks, i + 1)
<1>1. /\ Len(chunks) \in Nat \ {0} /\ Len(chunks') = Len(chunks) - 1
      /\ \A j \in 1 .. Len(chunks') : chunks'[j] = chunks[j + 1]
      /\ Head(chunks) = chunks[1]
  BY HeadTailProperties, EmptySeq, LenProperties
<1>2. ASSUME NEW i \in 0 .. Len(chunks')
      PROVE  Taken(delivered', chunks', i) = Taken(delivered, chunks, i + 1)
  <2>1. \A j \in 1 .. i : chunks'[j] = chunks[j + 1] /\ j + 1 \in 1 .. i + 1
    BY <1>1
  <2>2. \A j \in 1 .. i + 1 : j = 1 \/ (j - 1 \in 1 .. i /\ chunks'[j - 1] = chunks[j])
    <3> SUFFICES ASSUME NEW j \in 1 .. i + 1, j # 1
                 PROVE  j - 1 \in 1 .. i /\ chunks'[j - 1] = chunks[j]
      OBVIOUS
    <3>1. j - 1 \in 1 .. i /\ (j - 1) + 1 = j
      BY <1>1
    <3> QED
      BY <2>1, <3>1
  <2>3. 1 \in 1 .. i + 1
    BY <1>1
  <2> QED
    BY <1>1, <2>1, <2>2, <2>3 DEF Taken
<1> QED
  BY <1>1, <1>2

\* A response comes in.
LEMMA AppendTaken ==
  ASSUME NEW c \in Seq(SUBSET MessageT), NEW x \in SUBSET MessageT, NEW d
  PROVE  /\ Len(c) \in Nat /\ Len(Append(c, x)) = Len(c) + 1
         /\ \A i \in 0 .. Len(c) : Taken(d, Append(c, x), i) = Taken(d, c, i)
         /\ Taken(d, Append(c, x), Len(c) + 1) = Taken(d, c, Len(c)) \cup x
<1> DEFINE n == Len(c)
           new == Append(c, x)
<1>1. /\ n \in Nat /\ Len(new) = n + 1 /\ new[n + 1] = x
      /\ \A j \in 1 .. n : new[j] = c[j]
  BY LenProperties
<1> HIDE DEF new
<1>2. ASSUME NEW i \in 0 .. n PROVE Taken(d, new, i) = Taken(d, c, i)
  <2>1. \A j \in 1 .. i : new[j] = c[j]
    BY <1>1
  <2> QED
    BY <2>1 DEF Taken
<1>3. Taken(d, new, n + 1) = Taken(d, c, n) \cup x
  <2>1. \A j \in 1 .. n + 1 : j = n + 1 \/ j \in 1 .. n
    BY <1>1
  <2>2. n + 1 \in 1 .. n + 1 /\ \A j \in 1 .. n : j \in 1 .. n + 1
    BY <1>1
  <2> HIDE DEF n
  <2> QED
    BY <1>1, <2>1, <2>2 DEF Taken
<1> QED
  BY <1>1, <1>2, <1>3 DEF new

LEMMA TiledWithout ==
  ASSUME NEW S, NEW com, Tiled(S, com), NEW g
  PROVE  Tiled(Without(S, g), com)
BY DEF Tiled, Without, Acked

\* Offsets that are committed stay so.
Further(com, later) == \A p \in Partition : com[p] \in Nat /\ later[p] \in Nat /\ com[p] <= later[p]

LEMMA TiledFurther ==
  ASSUME NEW S \in SUBSET MessageT, NEW com, NEW later, Further(com, later), Tiled(S, com)
  PROVE  Tiled(S, later)
<1> SUFFICES ASSUME NEW m \in S, NEW o \in Nat, o <= m.offset
             PROVE  o < later[m.partition] \/ Acked(S, m.partition, m.grant, o)
  BY DEF Tiled
<1>1. m.partition \in Partition
  BY DEF MessageT
<1>2. o < com[m.partition] \/ Acked(S, m.partition, m.grant, o)
  BY DEF Tiled
<1>3. /\ com[m.partition] \in Nat /\ later[m.partition] \in Nat
      /\ com[m.partition] <= later[m.partition]
  BY <1>1 DEF Further
<1> QED
  BY <1>2, <1>3

-----------------------------------------------------------------------------
(* Reads of a session come in order                                         *)

LEMMA OrderedTail ==
  ASSUME NEW box \in Seq(FrameT), box # << >>, Ordered(box)
  PROVE  /\ Ordered(Tail(box))
         /\ Head(box).type = "read" =>
              \A f \in Range(Tail(box)) :
                f.type = "read" /\ f.sid = Head(box).sid => Head(box).offset < f.offset
<1>1. /\ Len(box) \in Nat \ {0} /\ Len(Tail(box)) = Len(box) - 1
      /\ \A i \in 1 .. Len(Tail(box)) : Tail(box)[i] = box[i + 1]
      /\ DOMAIN box = 1 .. Len(box) /\ DOMAIN Tail(box) = 1 .. Len(Tail(box))
      /\ Head(box) = box[1]
  BY HeadTailProperties, EmptySeq, LenProperties
<1>2. \A i \in DOMAIN Tail(box) :
        i \in Nat /\ 1 < i + 1 /\ i + 1 \in DOMAIN box /\ Tail(box)[i] = box[i + 1]
  BY <1>1
<1>3. 1 \in DOMAIN box
  BY <1>1
<1>4. \A i, j \in DOMAIN Tail(box) : i < j => i + 1 < j + 1
  BY <1>2
<1>5. Ordered(Tail(box))
  BY <1>2, <1>4 DEF Ordered
<1>6. ASSUME NEW i \in DOMAIN Tail(box), box[1].type = "read", box[i + 1].type = "read",
             box[i + 1].sid = box[1].sid
      PROVE  box[1].offset < box[i + 1].offset
  BY <1>2, <1>3, <1>6 DEF Ordered
<1> QED
  BY <1>1, <1>2, <1>5, <1>6 DEF Range

LEMMA OrderedAppend ==
  ASSUME NEW box \in Seq(FrameT), Ordered(box), NEW f \in FrameT,
         f.type = "read" =>
           \A g \in Range(box) : g.type = "read" /\ g.sid = f.sid => g.offset < f.offset
  PROVE  Ordered(Append(box, f))
<1> DEFINE new == Append(box, f)
<1>1. /\ new \in Seq(FrameT) /\ Len(box) \in Nat
      /\ Len(new) = Len(box) + 1
      /\ \A i \in 1 .. Len(box) : new[i] = box[i]
      /\ new[Len(box) + 1] = f
      /\ DOMAIN box = 1 .. Len(box) /\ DOMAIN new = 1 .. Len(new)
  BY LenProperties
<1> HIDE DEF new
<1>2. \A i \in DOMAIN new : \/ i \in DOMAIN box /\ new[i] = box[i] /\ box[i] \in Range(box)
                            \/ i = Len(box) + 1 /\ new[i] = f
  BY <1>1 DEF Range
<1>3. \A i, j \in DOMAIN new : i < j => i \in DOMAIN box
  BY <1>1
<1>4. Ordered(new)
  BY <1>2, <1>3 DEF Ordered
<1> QED
  BY <1>4 DEF new

LEMMA OrderedPrefix ==
  ASSUME NEW box \in Seq(FrameT), Ordered(box), NEW n \in 0 .. Len(box)
  PROVE  Ordered(SubSeq(box, 1, n))
<1> DEFINE cut == SubSeq(box, 1, n)
<1>1. Len(box) \in Nat /\ DOMAIN box = 1 .. Len(box)
  BY LenProperties
<1>2. \A i \in 1 .. n : box[i] \in FrameT
  BY <1>1, ElementOfSeq
<1>3. /\ cut \in Seq(FrameT) /\ Len(cut) = IF 1 <= n THEN n - 1 + 1 ELSE 0
      /\ \A i \in 1 .. n - 1 + 1 : cut[i] = box[1 + i - 1]
  BY <1>1, <1>2, SubSeqProperties
<1> HIDE DEF cut
<1>4. DOMAIN cut = 1 .. n
  BY <1>1, <1>3, LenProperties
<1>5. \A i \in DOMAIN cut : i \in DOMAIN box /\ cut[i] = box[i]
  BY <1>1, <1>3, <1>4
<1>6. Ordered(cut)
  BY <1>5 DEF Ordered
<1> QED
  BY <1>6 DEF cut

LEMMA OrderedInsert ==
  ASSUME NEW box \in Seq(FrameT), Ordered(box), NEW f \in FrameT, f.type # "read",
         NEW n \in 0 .. Len(box)
  PROVE  Ordered(InsertAt(box, n + 1, f))
<1> DEFINE new == InsertAt(box, n + 1, f)
<1>1. n \in Nat /\ DOMAIN new = 1 .. Len(box) + 1
      /\ \A i \in 1 .. Len(box) + 1 :
           \/ i <= n /\ i \in DOMAIN box /\ new[i] = box[i]
           \/ i = n + 1 /\ new[i] = f
           \/ i > n + 1 /\ i - 1 \in DOMAIN box /\ new[i] = box[i - 1]
  BY InsertPlaces
<1> HIDE DEF new
<1>2. Ordered(new)
  <2> SUFFICES ASSUME NEW i \in DOMAIN new, NEW j \in DOMAIN new, i < j,
                      new[i].type = "read", new[j].type = "read", new[i].sid = new[j].sid
               PROVE  new[i].offset < new[j].offset
    BY DEF Ordered
  <2>1. i \in Nat /\ j \in Nat
    BY <1>1
  <2> DEFINE old(l) == IF l <= n THEN l ELSE l - 1
  <2>2. \A l \in DOMAIN new : new[l].type = "read" =>
          l # n + 1 /\ old(l) \in DOMAIN box /\ new[l] = box[old(l)]
    <3> SUFFICES ASSUME NEW l \in DOMAIN new, new[l].type = "read"
                 PROVE  l # n + 1 /\ old(l) \in DOMAIN box /\ new[l] = box[old(l)]
      OBVIOUS
    <3>1. /\ l \in Nat
          /\ \/ l <= n /\ l \in DOMAIN box /\ new[l] = box[l]
             \/ l > n + 1 /\ l - 1 \in DOMAIN box /\ new[l] = box[l - 1]
      <4>1. l \in 1 .. Len(box) + 1 /\ Len(box) \in Nat
        BY <1>1, LenProperties
      <4>2. \/ l <= n /\ l \in DOMAIN box /\ new[l] = box[l]
            \/ l = n + 1 /\ new[l] = f
            \/ l > n + 1 /\ l - 1 \in DOMAIN box /\ new[l] = box[l - 1]
        BY <1>1, <4>1
      <4>3. ~(new[l] = f)
        OBVIOUS
      <4> QED
        BY <4>1, <4>2, <4>3
    <3>2. CASE l <= n
      BY <1>1, <3>1, <3>2
    <3>3. CASE l > n
      BY <1>1, <3>1, <3>3
    <3> QED
      BY <1>1, <3>1, <3>2, <3>3
  <2>3. i # n + 1 /\ j # n + 1
    BY <2>2
  <2>4. old(i) < old(j)
    BY <1>1, <2>1, <2>3
  <2>5. /\ old(i) \in DOMAIN box /\ new[i] = box[old(i)]
        /\ old(j) \in DOMAIN box /\ new[j] = box[old(j)]
    BY <2>2
  <2> HIDE DEF old
  <2> QED
    BY <2>4, <2>5 DEF Ordered
<1> QED
  BY <1>2 DEF new

-----------------------------------------------------------------------------
(* What keeps the ranges in order                                           *)

\* What may become of an entry.
Carried(e, f, offset) ==
  /\ f.grant = e.grant \/ (f.state = "absent" /\ f.grant = 0)
  /\ f.state \in Held =>
       /\ e.state \in Held
       /\ e.watermark <= f.watermark
       /\ \A o \in Nat : o < f.watermark => o < e.watermark \/ o < offset

\* What may become of the server.
Calm(s, t) ==
  /\ Further(s.committed, t.committed)
  /\ t.conn # "none" =>
       /\ s.conn # "none"
       /\ \A sid \in Sid : s.sess[sid].partition # None => t.sess[sid].partition # None
  /\ t.conn = "up" =>
       \A sid \in Sid : Live(t.sess[sid]) =>
         s.conn = "up" /\ Live(s.sess[sid]) /\ s.sess[sid].pos <= t.sess[sid].pos

LEMMA CarriedSelf ==
  ASSUME NEW e \in EntryT, NEW offset PROVE Carried(e, e, offset)
<1>1. e.watermark \in Nat
  BY DEF EntryT
<1>2. e.watermark <= e.watermark
  BY <1>1
<1> QED
  BY <1>2, Zenon DEF Carried

\* The messages stay, or those of a grant that is no longer served go.
Shed(S, T, es) ==
  T = S \/ \E g : T = Without(S, g) /\ \A p \in Partition : es[p].state \in Held => es[p].grant # g

LEMMA AckedShed ==
  ASSUME NEW S, NEW T, NEW es, Shed(S, T, es), NEW p \in Partition, es[p].state \in Held,
         NEW o, Acked(S, p, es[p].grant, o)
  PROVE  Acked(T, p, es[p].grant, o)
BY DEF Shed, Acked, Without

LEMMA TilesCarried ==
  ASSUME ReaderInv, TileInv, Keeps, grantSeq' = grantSeq,
         \A p \in Partition : Carried(entries[p], entries'[p], srv.committed[p]),
         Calm(srv, srv'), Narrower(index, index'),
         NEW box \in Seq(FrameT), \A f \in Range(box) : f.type = "read" => f \in Range(inbox),
         Ordered(box),
         NEW T \in SUBSET MessageT, Shed(Everything, T, entries')
  PROVE  Tiles(entries', srv', index', box, grantSeq', T)
<1> DEFINE S == Everything
<1>1. /\ Disjoint(S) /\ Filled(entries, S, srv.committed) /\ Ahead(entries, index, inbox, srv, S)
      /\ Fed(inbox, srv) /\ Stamped(entries, S, grantSeq)
  BY DEF TileInv, Tiles
<1>2. S \in SUBSET MessageT /\ srv \in ServerT /\ srv' \in ServerT
      /\ \A p \in Partition : entries[p] \in EntryT /\ entries'[p] \in EntryT
      /\ grantSeq \in Nat /\ entries' \in EntriesT
  <2>1. S \in SUBSET MessageT
    <3>1. /\ chunks \in Seq(SUBSET MessageT) /\ delivered \in SUBSET MessageT
          /\ Len(chunks) \in 0 .. Len(chunks)
      BY InvFields, LenProperties
    <3> QED
      BY <3>1, TakenTyped DEF Everything
  <2> HIDE DEF S
  <2> QED
    BY <2>1, InvFields DEF Keeps, EntriesT
<1>3. T \subseteq S
  BY DEF Shed, Without
<1>4. ASSUME NEW p \in Partition
      PROVE  /\ entries[p].grant \in Nat /\ entries'[p].grant \in Nat
             /\ entries[p].watermark \in Nat /\ entries'[p].watermark \in Nat
             /\ entries'[p].grant <= grantSeq
             /\ entries'[p].state \in Held =>
                  /\ entries[p].state \in Held /\ entries'[p].grant = entries[p].grant
                  /\ entries[p].watermark <= entries'[p].watermark
  <2>1. /\ entries[p].grant \in Nat /\ entries'[p].grant \in Nat
        /\ entries[p].watermark \in Nat /\ entries'[p].watermark \in Nat
    BY <1>2 DEF EntryT
  <2>2. entries[p].grant <= grantSeq
    BY <1>1 DEF Stamped
  <2>3. Carried(entries[p], entries'[p], srv.committed[p])
    OBVIOUS
  <2> QED
    BY <1>2, <2>1, <2>2, <2>3 DEF Carried, Held
<1> HIDE DEF S
<1>5. Disjoint(T)
  BY <1>1, <1>3 DEF Disjoint
<1>6. Filled(entries', T, srv'.committed)
  <2> SUFFICES ASSUME NEW p \in Partition, entries'[p].state \in Held,
                      NEW o \in Nat, o < entries'[p].watermark
               PROVE  o < srv'.committed[p] \/ Acked(T, p, entries'[p].grant, o)
    BY DEF Filled
  <2>1. /\ srv.committed[p] \in Nat /\ srv'.committed[p] \in Nat
        /\ srv.committed[p] <= srv'.committed[p]
    BY DEF Calm, Further
  <2>2. o < entries[p].watermark \/ o < srv.committed[p]
    BY DEF Carried
  <2>3. o < srv.committed[p] \/ Acked(S, p, entries'[p].grant, o)
    BY <1>1, <1>4, <2>2 DEF Filled
  <2>4. Acked(S, p, entries'[p].grant, o) => Acked(T, p, entries'[p].grant, o)
    BY AckedShed DEF S
  <2> QED
    BY <2>1, <2>3, <2>4
<1>7. Ahead(entries', index', box, srv', T)
  <2> SUFFICES ASSUME NEW sid \in Sid, index'[sid] # None, NEW m \in T,
                      m.partition = index'[sid], m.grant = entries'[index'[sid]].grant
               PROVE  /\ m.offset < entries'[index'[sid]].watermark
                      /\ \A f \in Range(box) : f.type = "read" /\ f.sid = sid => m.offset < f.offset
                      /\ srv'.conn = "up" /\ Live(srv'.sess[sid]) => m.offset < srv'.sess[sid].pos
    BY DEF Ahead
  <2> DEFINE p == index'[sid]
  <2>1. p \in Partition /\ index[sid] = p /\ entries'[p].state \in Held
    BY DEF Keeps, IndexT, Narrower, Registered
  <2>2. /\ m \in S /\ m.offset \in Nat /\ m.grant = entries[p].grant
        /\ entries[p].watermark <= entries'[p].watermark
        /\ entries[p].watermark \in Nat /\ entries'[p].watermark \in Nat
    BY <1>2, <1>3, <1>4, <2>1, ReaderAssumption DEF MessageT, Offset
  <2>3. /\ m.offset < entries[p].watermark
        /\ \A f \in Range(inbox) : f.type = "read" /\ f.sid = sid => m.offset < f.offset
        /\ srv.conn = "up" /\ Live(srv.sess[sid]) => m.offset < srv.sess[sid].pos
    BY <1>1, <2>1, <2>2, ReaderAssumption DEF Ahead
  <2>4. m.offset < entries'[p].watermark
    BY <2>2, <2>3
  <2>5. srv.sess[sid].pos \in Nat /\ srv'.sess[sid].pos \in Nat
    BY <1>2, ServerFields
  <2>6. ASSUME srv'.conn = "up", Live(srv'.sess[sid]) PROVE m.offset < srv'.sess[sid].pos
    <3>1. srv.conn = "up" /\ Live(srv.sess[sid]) /\ srv.sess[sid].pos <= srv'.sess[sid].pos
      BY <2>6 DEF Calm
    <3> QED
      BY <2>2, <2>3, <2>5, <3>1
  <2> QED
    BY <2>3, <2>4, <2>6
<1>8. Fed(box, srv')
  <2> SUFFICES ASSUME NEW f \in Range(box), f.type = "read"
               PROVE  /\ srv'.conn # "none" => srv'.sess[f.sid].partition # None
                      /\ srv'.conn = "up" /\ Live(srv'.sess[f.sid]) =>
                           f.offset < srv'.sess[f.sid].pos
    BY DEF Fed
  <2>1. f \in Range(inbox) /\ f \in FrameT
    BY InboxRange
  <2>2. f.sid \in Sid /\ f.offset \in Nat
    BY <2>1, FrameKinds, ReaderAssumption DEF Offset
  <2>3. /\ srv.conn # "none" => srv.sess[f.sid].partition # None
        /\ srv.conn = "up" /\ Live(srv.sess[f.sid]) => f.offset < srv.sess[f.sid].pos
    BY <1>1, <2>1 DEF Fed
  <2>4. srv.sess[f.sid].pos \in Nat /\ srv'.sess[f.sid].pos \in Nat
    BY <1>2, <2>2, ServerFields
  <2> QED
    BY <2>2, <2>3, <2>4 DEF Calm
<1>9. Stamped(entries', T, grantSeq)
  BY <1>1, <1>3, <1>4 DEF Stamped
<1> QED
  BY <1>5, <1>6, <1>7, <1>8, <1>9 DEF Tiles

\* What a step has to show that takes nothing in.
LEMMA TilesStep ==
  ASSUME ReaderInv, TileInv, Keeps, grantSeq' = grantSeq,
         \A p \in Partition : Carried(entries[p], entries'[p], srv.committed[p]),
         Calm(srv, srv'), Narrower(index, index'),
         \A f \in Range(inbox') : f.type = "read" => f \in Range(inbox),
         Ordered(inbox'),
         \/ UNCHANGED <<chunks, delivered>>
         \/ \E g : /\ StopSession(g)
                   /\ \A p \in Partition : entries'[p].state \in Held => entries'[p].grant # g
  PROVE  TilesKept
<1> DEFINE T == Taken(delivered', chunks', Len(chunks'))
<1>1. /\ chunks \in Seq(SUBSET MessageT) /\ delivered \in SUBSET MessageT /\ Len(chunks) \in Nat
  BY InvFields, LenProperties
<1>2. /\ \A i \in 0 .. Len(chunks) : Tiled(Taken(delivered, chunks, i), srv.committed)
      /\ \A i \in 0 .. Len(chunks) : Taken(delivered, chunks, i) \in SUBSET MessageT
      /\ Further(srv.committed, srv'.committed)
  BY <1>1, TakenTyped DEF TileInv, FirstReads, Calm
<1>3. /\ FirstReads(delivered', chunks', srv'.committed)
      /\ T \in SUBSET MessageT /\ Shed(Everything, T, entries')
  <2>1. CASE UNCHANGED <<chunks, delivered>>
    <3>1. T = Everything
      BY <2>1 DEF Everything
    <3>2. \A i \in 0 .. Len(chunks) : Tiled(Taken(delivered, chunks, i), srv'.committed)
      BY <1>2, TiledFurther
    <3> QED
      BY <1>1, <1>2, <2>1, <3>1, <3>2 DEF FirstReads, Shed, Everything
  <2>2. ASSUME NEW g, StopSession(g),
               \A p \in Partition : entries'[p].state \in Held => entries'[p].grant # g
        PROVE  /\ FirstReads(delivered', chunks', srv'.committed)
               /\ T \in SUBSET MessageT /\ Shed(Everything, T, entries')
    <3>1. /\ Len(chunks') = Len(chunks)
          /\ \A i \in 0 .. Len(chunks) :
               Taken(delivered', chunks', i) = Without(Taken(delivered, chunks, i), g)
      BY <1>1, <2>2, StopTaken
    <3>2. ASSUME NEW i \in 0 .. Len(chunks)
          PROVE  Tiled(Without(Taken(delivered, chunks, i), g), srv'.committed)
      <4>1. Tiled(Taken(delivered, chunks, i), srv'.committed)
        BY <1>2, TiledFurther
      <4> QED
        BY <4>1, TiledWithout
    <3>3. T = Without(Everything, g)
      BY <1>1, <3>1 DEF Everything
    <3> HIDE DEF T
    <3>4. T \in SUBSET MessageT /\ Shed(Everything, T, entries')
      <4>1. Everything \in SUBSET MessageT
        BY <1>1, <1>2 DEF Everything
      <4>2. T \in SUBSET MessageT
        BY <3>3, <4>1 DEF Without
      <4> QED
        BY <2>2, <3>3, <4>2 DEF Shed
    <3> QED
      BY <3>1, <3>2, <3>4 DEF FirstReads
  <2> QED
    BY <2>1, <2>2
<1> HIDE DEF T
<1>4. Tiles(entries', srv', index', inbox', grantSeq', T)
  <2> DEFINE box == inbox'
  <2>1. box \in Seq(FrameT)
    BY DEF Keeps
  <2> HIDE DEF box
  <2>2. /\ \A f \in Range(box) : f.type = "read" => f \in Range(inbox)
        /\ Ordered(box)
    BY DEF box
  <2>3. Tiles(entries', srv', index', box, grantSeq', T)
    BY <1>3, <2>1, <2>2, TilesCarried
  <2> QED
    BY <2>3 DEF box
<1> QED
  BY <1>3, <1>4 DEF TilesKept, T

LEMMA CalmSelf == ASSUME NEW s \in ServerT PROVE Calm(s, s)
<1>1. \A p \in Partition : s.committed[p] \in Nat /\ s.committed[p] <= s.committed[p]
  BY ServerFields
<1>2. \A sid \in Sid : s.sess[sid].pos \in Nat /\ s.sess[sid].pos <= s.sess[sid].pos
  BY ServerFields
<1> QED
  BY <1>1, <1>2 DEF Calm, Further

LEMMA CalmTrans ==
  ASSUME NEW s \in ServerT, NEW t \in ServerT, NEW u \in ServerT, Calm(s, t), Calm(t, u)
  PROVE  Calm(s, u)
<1>1. \A sid \in Sid :
        s.sess[sid].pos \in Nat /\ t.sess[sid].pos \in Nat /\ u.sess[sid].pos \in Nat
  BY ServerFields
<1>2. Further(s.committed, u.committed)
  BY DEF Calm, Further
<1> QED
  BY <1>1, <1>2 DEF Calm

LEMMA CalmBroken ==
  ASSUME NEW s \in ServerT PROVE Calm(s, Broken(s))
<1>1. Broken(s).conn = "none" /\ Broken(s).committed = s.committed
  BY DEF Broken, ServerT
<1>2. Further(s.committed, s.committed)
  BY CalmSelf DEF Calm
<1> QED
  BY <1>1, <1>2 DEF Calm

\* The reader is through.
LEMMA TerminateTiles ==
  ASSUME ReaderInv, TileInv, Keeps, grantSeq' = grantSeq,
         NEW terminal, NEW resolved, Terminate(terminal, resolved),
         UNCHANGED <<chunks, delivered>> \/ \E g : StopSession(g)
  PROVE  TilesKept
<1>1. /\ entries' = [p \in Partition |-> Absent] /\ index' = NoIndex /\ inbox' = << >>
      /\ srv' = Broken(srv)
  BY DEF Terminate
<1>2. \A p \in Partition :
        entries'[p].state \notin Held /\ Carried(entries[p], entries'[p], srv.committed[p])
  BY <1>1 DEF Absent, Held, Carried
<1>3. Calm(srv, srv') /\ Narrower(index, index')
  BY <1>1, InvFields, CalmBroken, NoIndexOk
<1>4. (\A f \in Range(inbox') : f.type = "read" => f \in Range(inbox)) /\ Ordered(inbox')
  BY <1>1 DEF Range, Ordered
<1> QED
  BY <1>2, <1>3, <1>4, TilesStep

\* What is behind the event.
LEMMA RestTiles ==
  ASSUME ReaderInv, TileInv, NEW rest, rest = inbox \/ (inbox # << >> /\ rest = Tail(inbox))
  PROVE  /\ rest \in Seq(FrameT) /\ Ordered(rest) /\ \A f \in Range(rest) : f \in Range(inbox)
<1>1. inbox \in Seq(FrameT) /\ Ordered(inbox)
  BY InvFields DEF TileInv, Tiles
<1> QED
  BY <1>1, InboxTail, OrderedTail

\* A handler of one partition ends.
LEMMA FinishTiles ==
  ASSUME ReaderInv, TileInv, Keeps, grantSeq' = grantSeq, NEW p \in Partition, NEW e,
         Carried(entries[p], e, srv.committed[p]),
         NEW to, to.entries = [entries EXCEPT ![p] = e], Narrower(index, to.index),
         Calm(srv, to.srv),
         NEW rest, rest = inbox \/ (inbox # << >> /\ rest = Tail(inbox)),
         \/ UNCHANGED <<chunks, delivered>>
         \/ /\ StopSession(entries[p].grant)
            /\ entries[p].state \in Held /\ e.state \notin Held,
         NEW resolved, NEW rejected, Finish(to, resolved, rejected, rest)
  PROVE  TilesKept
<1>1. CASE state = "closing" /\ ~HasPendingWork(to.entries)
  <2>1. Terminate("closed", resolved)
    BY <1>1 DEF Finish
  <2> QED
    BY <2>1, TerminateTiles
<1>2. CASE ~(state = "closing" /\ ~HasPendingWork(to.entries))
  <2>1. entries' = [entries EXCEPT ![p] = e] /\ srv' = to.srv /\ inbox' = rest /\ index' = to.index
    BY <1>2 DEF Finish
  <2>2. /\ entries \in EntriesT /\ entries'[p] = e
        /\ \A q \in Partition : q # p => entries'[q] = entries[q]
    BY <2>1, InvFields DEF EntriesT
  <2>3. \A q \in Partition : Carried(entries[q], entries'[q], srv.committed[q])
    BY <2>2, CarriedSelf DEF EntriesT
  <2>4. /\ Ordered(inbox') /\ \A f \in Range(inbox') : f \in Range(inbox)
    BY <2>1, RestTiles
  <2>5. ASSUME entries[p].state \in Held, e.state \notin Held, NEW q \in Partition,
               entries'[q].state \in Held
        PROVE  entries'[q].grant # entries[p].grant
    <3>1. Stamped(entries, Everything, grantSeq)
      BY DEF TileInv, Tiles
    <3> QED
      BY <2>2, <2>5, <3>1 DEF Stamped
  <2> QED
    BY <2>1, <2>3, <2>4, <2>5, TilesStep
<1> QED
  BY <1>1, <1>2

-----------------------------------------------------------------------------
(* Requests leave the sessions calm                                         *)

LEMMA CommitsCalm ==
  ASSUME NEW s \in ServerT, NEW sid \in Sid, NEW offsets
  PROVE  Calm(s, Commits(s, sid, offsets))
<1>1. \A why : Calm(s, Refuse(s, why))
  <2> SUFFICES ASSUME NEW why PROVE Calm(s, Refuse(s, why))
    OBVIOUS
  <2>1. /\ Refuse(s, why).sess = s.sess /\ Refuse(s, why).conn = s.conn
        /\ Refuse(s, why).committed = s.committed
    BY DEF Refuse, ServerT
  <2> QED
    BY <2>1, CalmSelf DEF Calm
<1>2. Calm(s, [s EXCEPT !.sess[sid].wire = @ \cup offsets,
                        !.accepted[s.sess[sid].partition] = @ \cup offsets])
  <2> DEFINE t == [s EXCEPT !.sess[sid].wire = @ \cup offsets,
                            !.accepted[s.sess[sid].partition] = @ \cup offsets]
  <2>1. /\ t.sess = [s.sess EXCEPT ![sid].wire = @ \cup offsets]
        /\ t.conn = s.conn /\ t.committed = s.committed
    BY DEF ServerT
  <2> HIDE DEF t
  <2>2. \A i \in Sid : /\ t.sess[i].partition = s.sess[i].partition /\ t.sess[i].pos = s.sess[i].pos
                       /\ Live(t.sess[i]) <=> Live(s.sess[i])
    BY <2>1, ServerFields DEF SessionT, Live
  <2>3. Calm(s, t)
    BY <2>1, <2>2, CalmSelf DEF Calm
  <2> QED
    BY <2>3 DEF t
<1> QED
  BY <1>1, <1>2, CalmSelf DEF Commits

LEMMA CommitsAllCalm ==
  ASSUME NEW s \in ServerT, NEW sid \in Sid, NEW pendings, NEW floor
  PROVE  Calm(s, CommitsAll(s, sid, pendings, floor))
<1>1. Calm(s, Refuse(s, "repeated"))
  <2>1. /\ Refuse(s, "repeated").sess = s.sess /\ Refuse(s, "repeated").conn = s.conn
        /\ Refuse(s, "repeated").committed = s.committed
    BY DEF Refuse, ServerT
  <2> QED
    BY <2>1, CalmSelf DEF Calm
<1>2. \A offsets : Calm(s, Commits(s, sid, offsets))
  BY CommitsCalm
<1> QED
  BY <1>1, <1>2, CalmSelf DEF CommitsAll

\* The answer to a grant may move its session forward.
LEMMA StartResponseCalm ==
  ASSUME NEW s \in ServerT, NEW sid \in Sid, NEW commitOffset \in Nat
  PROVE  Calm(s, StartResponse(s, sid, commitOffset))
<1> DEFINE new == [s.sess[sid] EXCEPT !.started = TRUE, !.wire = @ \cup Below(commitOffset),
                                      !.pos = Highest(@, commitOffset)]
           t == [s EXCEPT !.sess[sid] = new,
                          !.accepted[s.sess[sid].partition] = @ \cup Below(commitOffset)]
<1>1. Calm(s, Refuse(s, "stray start"))
  <2>1. /\ Refuse(s, "stray start").sess = s.sess /\ Refuse(s, "stray start").conn = s.conn
        /\ Refuse(s, "stray start").committed = s.committed
    BY DEF Refuse, ServerT
  <2> QED
    BY <2>1, CalmSelf DEF Calm
<1>2. Calm(s, t)
  <2>1. s.sess \in [Sid -> SessionT] /\ s.sess[sid] \in SessionT /\ s.sess[sid].pos \in Nat
    BY ServerFields
  <2>2. /\ new.partition = s.sess[sid].partition /\ (Live(new) <=> Live(s.sess[sid]))
        /\ new.pos = Highest(s.sess[sid].pos, commitOffset)
    BY <2>1 DEF SessionT, Live
  <2>3. s.sess[sid].pos <= new.pos
    BY <2>1, <2>2 DEF Highest
  <2> HIDE DEF new
  <2>4. /\ t.sess = [s.sess EXCEPT ![sid] = new]
        /\ t.conn = s.conn /\ t.committed = s.committed
    BY DEF ServerT
  <2> HIDE DEF t
  <2>5. \A i \in Sid : /\ t.sess[i].partition = s.sess[i].partition
                       /\ s.sess[i].pos <= t.sess[i].pos
                       /\ Live(t.sess[i]) <=> Live(s.sess[i])
    <3> SUFFICES ASSUME NEW i \in Sid
                 PROVE  /\ t.sess[i].partition = s.sess[i].partition
                        /\ s.sess[i].pos <= t.sess[i].pos
                        /\ Live(t.sess[i]) <=> Live(s.sess[i])
      OBVIOUS
    <3>1. CASE i = sid
      <4>1. t.sess[i] = new /\ s.sess[i] = s.sess[sid]
        BY <2>1, <2>4, <3>1
      <4> QED
        BY <2>2, <2>3, <4>1
    <3>2. CASE i # sid
      <4>1. t.sess[i] = s.sess[i] /\ s.sess[i].pos \in Nat
        BY <2>1, <2>4, <3>2, ServerFields
      <4>2. s.sess[i].pos <= s.sess[i].pos
        BY <4>1
      <4> QED
        BY <4>1, <4>2
    <3> QED
      BY <3>1, <3>2
  <2> QED
    BY <2>4, <2>5, CalmSelf DEF Calm
<1>3. StartResponse(s, sid, commitOffset) \in {s, Refuse(s, "stray start"), t}
  BY DEF StartResponse
<1> HIDE DEF t
<1> QED
  BY <1>1, <1>2, <1>3, CalmSelf

LEMMA StopResponseCalm ==
  ASSUME NEW s \in ServerT, NEW sid \in Sid
  PROVE  Calm(s, StopResponse(s, sid))
<1> DEFINE new == [s.sess[sid] EXCEPT !.answered = TRUE, !.wire = {}, !.pos = 0]
           t == [s EXCEPT !.sess[sid] = new]
<1>1. Calm(s, Refuse(s, "stray stop"))
  <2>1. /\ Refuse(s, "stray stop").sess = s.sess /\ Refuse(s, "stray stop").conn = s.conn
        /\ Refuse(s, "stray stop").committed = s.committed
    BY DEF Refuse, ServerT
  <2> QED
    BY <2>1, CalmSelf DEF Calm
<1>2. Calm(s, t)
  <2>1. s.sess \in [Sid -> SessionT] /\ s.sess[sid] \in SessionT
    BY ServerFields
  <2>2. new.partition = s.sess[sid].partition /\ ~Live(new)
    BY <2>1 DEF SessionT, Live
  <2> HIDE DEF new
  <2>3. /\ t.sess = [s.sess EXCEPT ![sid] = new]
        /\ t.conn = s.conn /\ t.committed = s.committed
    BY DEF ServerT
  <2> HIDE DEF t
  <2>4. \A i \in Sid : /\ t.sess[i].partition = s.sess[i].partition
                       /\ Live(t.sess[i]) => t.sess[i] = s.sess[i]
    BY <2>1, <2>2, <2>3
  <2> QED
    BY <2>3, <2>4, CalmSelf DEF Calm
<1>3. StopResponse(s, sid) \in {s, Refuse(s, "stray stop"), t}
  BY DEF StopResponse
<1> HIDE DEF t
<1> QED
  BY <1>1, <1>2, <1>3, CalmSelf

\* What does not touch the sessions.
LEMMA CalmAlike ==
  ASSUME NEW s \in ServerT, NEW t, t.sess = s.sess, t.conn = s.conn, t.committed = s.committed
  PROVE  Calm(s, t)
BY CalmSelf DEF Calm

LEMMA AnswerCalm ==
  ASSUME ReaderInv, NEW p \in Partition PROVE Calm(srv, Answer(srv, p))
<1>1. CASE Routed(p)
  <2>1. entries[p].sid \in Sid
    BY <1>1, InvFields DEF Routed, Book
  <2> QED
    BY <1>1, <2>1, InvFields, StopResponseCalm DEF Answer
<1>2. CASE ~Routed(p)
  BY <1>2, InvFields, CalmSelf DEF Answer
<1> QED
  BY <1>1, <1>2

-----------------------------------------------------------------------------
(* The entries' steps carry them                                            *)

LEMMA AdvancedCarried ==
  ASSUME NEW e \in EntryT, NEW offset \in Nat, NEW c \in Nat, offset <= c, e.committed <= c
  PROVE  /\ Carried(e, Advanced(e, offset), c)
         /\ Advanced(e, offset).state = e.state /\ Advanced(e, offset).grant = e.grant
<1> DEFINE a == Advanced(e, offset)
<1>1. e.watermark \in Nat /\ e.committed \in Nat
  BY DEF EntryT
<1>2. /\ a.state = e.state /\ a.grant = e.grant
      /\ a.watermark = Highest(e.watermark, Highest(e.committed, offset))
  BY DEF EntryT, Advanced
<1> HIDE DEF a
<1>3. Highest(e.committed, offset) \in Nat /\ Highest(e.committed, offset) <= c
  BY <1>1 DEF Highest
<1>4. /\ e.watermark <= a.watermark
      /\ \A o \in Nat : o < a.watermark => o < e.watermark \/ o < c
  BY <1>1, <1>2, <1>3 DEF Highest
<1> QED
  BY <1>2, <1>4 DEF Carried, a

\* An entry that keeps its grant and its watermark, and is held only if it was.
LEMMA CarriedAlike ==
  ASSUME NEW e \in EntryT, NEW f, NEW offset, f.grant = e.grant, f.watermark = e.watermark,
         f.state \in Held => e.state \in Held
  PROVE  Carried(e, f, offset)
<1>1. e.watermark \in Nat
  BY DEF EntryT
<1>2. e.watermark <= e.watermark
  BY <1>1
<1> QED
  BY <1>2, Zenon DEF Carried

\* The entry a frame is about.
LEMMA EventHeld ==
  ASSUME ReaderInv, NEW type \in {"stop", "commit_response", "status"},
         Handles(Streaming, type), PartitionOf(Event.sid) # None
  PROVE  LET p == PartitionOf(Event.sid)
             advanced == Advanced(entries[p], Event.committed)
         IN /\ p \in Partition /\ Event.sid \in Sid /\ inbox # << >>
            /\ entries[p] \in EntryT /\ entries[p].state \in Held /\ advanced \in EntryT
            /\ Carried(entries[p], advanced, srv.committed[p])
            /\ advanced.state = entries[p].state /\ advanced.grant = entries[p].grant
<1> DEFINE p == PartitionOf(Event.sid)
<1>1. /\ Event \in Range(inbox) /\ state \in Streaming /\ Tells(Event) /\ inbox # << >>
  BY EventFields DEF Tells, Handles
<1>2. p \in Partition /\ Event.committed \in Nat /\ Event.committed <= srv.committed[p]
      /\ Event.sid \in Sid
  BY <1>1, EventTells
<1>3. /\ entries[p] \in EntryT /\ Book(entries[p], p, srv.committed, promise)
      /\ srv.committed \in [Partition -> Nat] /\ srv.committed[p] \in Nat
  BY <1>2, InvFields
<1>4. entries[p].state \in Held
  BY <1>2, InvFields DEF Registered, PartitionOf
<1>5. entries[p].committed <= srv.committed[p]
  BY <1>3 DEF Book
<1>6. Advanced(entries[p], Event.committed) \in EntryT
  BY <1>2, <1>3, AdvancedBook
<1> HIDE DEF p
<1> QED
  BY <1>1, <1>2, <1>3, <1>4, <1>5, <1>6, AdvancedCarried DEF p

\* A stopped entry is carried along, whatever it was.
LEMMA StoppedCarried ==
  ASSUME NEW e, NEW f \in EntryT, f.grant = e.grant, NEW offset
  PROVE  MarkedStopped(f).state \notin Held /\ Carried(e, MarkedStopped(f), offset)
<1>1. MarkedStopped(f).state = "stopped" /\ MarkedStopped(f).grant = f.grant
  BY DEF MarkedStopped, EntryT
<1> QED
  BY <1>1, Zenon DEF Carried, Held

LEMMA ForcedStopTiles ==
  ASSUME ReaderInv, TileInv, Keeps, HandleForcedStop PROVE TilesKept
<1> DEFINE p == PartitionOf(Event.sid)
           entry == MarkedStopped(Advanced(entries[p], Event.committed))
           es == [entries EXCEPT ![p] = entry]
           jx == Unrouted(entries[p].sid)
<1>1. /\ Handles(Streaming, "stop") /\ p # None /\ grantSeq' = grantSeq
      /\ StopSession(entries[p].grant)
  BY DEF HandleForcedStop, StopsKnown
<1>2. PICK to, resolved : /\ to.entries = es /\ to.index = jx /\ to.srv = srv
                          /\ Finish(to, resolved, {}, Tail(inbox))
  BY DEF HandleForcedStop, Here
<1>3. /\ p \in Partition /\ inbox # << >> /\ entries[p].state \in Held
      /\ Advanced(entries[p], Event.committed) \in EntryT
      /\ Advanced(entries[p], Event.committed).grant = entries[p].grant
  BY <1>1, EventHeld
<1>4. entry.state \notin Held /\ Carried(entries[p], entry, srv.committed[p])
  BY <1>3, StoppedCarried
<1>5. Narrower(index, jx) /\ Calm(srv, srv)
  BY InvFields, UnroutedNarrow, CalmSelf
<1> HIDE DEF entry, jx, p
<1> QED
  BY <1>1, <1>2, <1>3, <1>4, <1>5, FinishTiles

LEMMA GracefulStopTiles ==
  ASSUME ReaderInv, TileInv, Keeps, HandleGracefulStop PROVE TilesKept
<1> DEFINE p == PartitionOf(Event.sid)
           advanced == Advanced(entries[p], Event.committed)
           entry == Stopping(advanced)
           es == [entries EXCEPT ![p] = entry]
<1>1. /\ Handles(Streaming, "stop") /\ p # None /\ grantSeq' = grantSeq
      /\ UNCHANGED <<chunks, delivered>>
  BY DEF HandleGracefulStop, StopsKnown
<1>2. PICK to, resolved : /\ to.entries = es /\ to.index = index /\ to.srv = srv
                          /\ Finish(to, resolved, {}, Tail(inbox))
  BY DEF HandleGracefulStop, Here, Stopping
<1>3. /\ p \in Partition /\ inbox # << >> /\ entries[p].state \in Held
      /\ advanced \in EntryT
      /\ Carried(entries[p], advanced, srv.committed[p]) /\ advanced.grant = entries[p].grant
      /\ advanced.state = entries[p].state
  BY <1>1, EventHeld
<1> HIDE DEF advanced
<1>4. Carried(entries[p], entry, srv.committed[p])
  <2>1. /\ entry.grant = advanced.grant /\ entry.watermark = advanced.watermark
    BY <1>3 DEF Stopping, EntryT
  <2> HIDE DEF entry
  <2> QED
    BY <1>3, <2>1 DEF Carried
<1>5. Narrower(index, index) /\ Calm(srv, srv)
  BY InvFields, NarrowerSelf, CalmSelf
<1> HIDE DEF entry, p
<1> QED
  BY <1>1, <1>2, <1>3, <1>4, <1>5, FinishTiles

LEMMA CommitResponseTiles ==
  ASSUME ReaderInv, TileInv, Keeps, HandleCommitResponse PROVE TilesKept
<1> DEFINE p == PartitionOf(Event.sid)
           advanced == Advanced(entries[p], Event.committed)
           entry == MarkedStopped(advanced)
           drained == /\ advanced.state = "stopping-graceful" /\ advanced.stopReady
                      /\ advanced.requested = 0 /\ advanced.pending = {}
           jx == Unrouted(entries[p].sid)
           t == StopResponse(srv, Event.sid)
<1>1. /\ Handles(Streaming, "commit_response") \/ Handles(Streaming, "status")
      /\ p # None /\ grantSeq' = grantSeq
      /\ IF drained THEN StopSession(entries[p].grant) ELSE UNCHANGED <<chunks, delivered>>
  BY DEF HandleCommitResponse
<1>2. /\ p \in Partition /\ Event.sid \in Sid /\ inbox # << >> /\ entries[p].state \in Held
      /\ advanced \in EntryT
      /\ Carried(entries[p], advanced, srv.committed[p]) /\ advanced.grant = entries[p].grant
  BY <1>1, EventHeld
<1>3. /\ entries \in EntriesT /\ Narrower(index, index) /\ Narrower(index, jx)
      /\ Calm(srv, srv) /\ Calm(srv, t)
  BY <1>2, InvFields, NarrowerSelf, UnroutedNarrow, CalmSelf, StopResponseCalm
<1>4. entry.state \notin Held /\ Carried(entries[p], entry, srv.committed[p])
  BY <1>2, StoppedCarried
<1>5. CASE drained
  <2>1. PICK to, resolved :
          /\ to.entries = [[entries EXCEPT ![p] = advanced] EXCEPT ![p] = entry]
          /\ to.index = jx /\ to.srv = t
          /\ Finish(to, resolved, {}, Tail(inbox))
    BY <1>5 DEF HandleCommitResponse, Here
  <2>2. [[entries EXCEPT ![p] = advanced] EXCEPT ![p] = entry] = [entries EXCEPT ![p] = entry]
    BY <1>2, <1>3 DEF EntriesT
  <2>3. StopSession(entries[p].grant)
    BY <1>1, <1>5
  <2> HIDE DEF advanced, entry, jx, t, p
  <2> QED
    BY <1>1, <1>2, <1>3, <1>4, <2>1, <2>2, <2>3, FinishTiles
<1>6. CASE ~drained
  <2>1. PICK to, resolved :
          /\ to.entries = [entries EXCEPT ![p] = advanced]
          /\ to.index = index /\ to.srv = srv
          /\ Finish(to, resolved, {}, Tail(inbox))
    BY <1>6 DEF HandleCommitResponse, Here
  <2>2. UNCHANGED <<chunks, delivered>>
    BY <1>1, <1>6
  <2> HIDE DEF advanced, p
  <2> QED
    BY <1>1, <1>2, <1>3, <2>1, <2>2, FinishTiles
<1> QED
  BY <1>5, <1>6

LEMMA EndTiles ==
  ASSUME ReaderInv, TileInv, Keeps, HandleEnd PROVE TilesKept
<1> DEFINE p == PartitionOf(Event.sid)
           entry == [entries[p] EXCEPT !.state = "ended"]
<1>1. /\ Handles(Streaming, "end") /\ p # None /\ UNCHANGED <<grantSeq, chunks, delivered>>
  BY DEF HandleEnd
<1>2. PICK to : /\ to.entries = [entries EXCEPT ![p] = entry]
                /\ to.index = index /\ to.srv = srv
                /\ Finish(to, {}, {}, Tail(inbox))
  BY DEF HandleEnd, Here
<1>3. Event \in FrameT /\ Event.sid \in Sid /\ inbox # << >>
  BY <1>1, EventFields, FrameKinds DEF Handles
<1>4. p \in Partition /\ entries[p].state \in Held /\ entries[p] \in EntryT
  BY <1>1, <1>3, InvFields DEF PartitionOf, IndexT, Registered
<1>5. Carried(entries[p], entry, srv.committed[p])
  <2>1. entry.grant = entries[p].grant /\ entry.watermark = entries[p].watermark
    BY <1>4 DEF EntryT
  <2> HIDE DEF entry
  <2> QED
    BY <1>4, <2>1, CarriedAlike
<1>6. Narrower(index, index) /\ Calm(srv, srv)
  BY InvFields, NarrowerSelf, CalmSelf
<1> HIDE DEF entry, p
<1> QED
  BY <1>1, <1>2, <1>3, <1>4, <1>5, <1>6, FinishTiles

LEMMA StopHookTiles ==
  ASSUME ReaderInv, TileInv, Keeps, StopHookReturns PROVE TilesKept
<1>1. PICK h \in hooks :
        LET p == h.partition
            old == entries[p]
            pinned == state \in Streaming /\ old.grant = h.grant /\ old.state = "stopping-graceful"
            drained == pinned /\ old.pending = {} /\ old.requested = 0
            done == [Here EXCEPT !.hooks = @ \ {h}]
            ready == [done EXCEPT !.entries[p].stopReady = TRUE]
        IN /\ Finish(CASE ~pinned -> done
                       [] pinned /\ ~drained -> ready
                       [] OTHER ->
                            [ready EXCEPT !.entries[p] = MarkedStopped(@),
                                          !.index = Unrouted(old.sid),
                                          !.timers = @ \ TimersOf({"partition_commit_status",
                                                                   "partition_graceful_timeout"}, p),
                                          !.srv = Answer(@, p)],
                     {}, {}, inbox)
           /\ IF drained THEN StopSession(old.grant) ELSE UNCHANGED <<chunks, delivered>>
  BY DEF StopHookReturns
<1> DEFINE p == h.partition
           old == entries[p]
           pinned == state \in Streaming /\ old.grant = h.grant /\ old.state = "stopping-graceful"
           drained == pinned /\ old.pending = {} /\ old.requested = 0
           done == [Here EXCEPT !.hooks = @ \ {h}]
           ready == [done EXCEPT !.entries[p].stopReady = TRUE]
           stopped == [ready EXCEPT !.entries[p] = MarkedStopped(@),
                                    !.index = Unrouted(old.sid),
                                    !.timers = @ \ TimersOf({"partition_commit_status",
                                                             "partition_graceful_timeout"}, p),
                                    !.srv = Answer(@, p)]
           entry == [old EXCEPT !.stopReady = TRUE]
           last == MarkedStopped(entry)
<1>2. p \in Partition /\ grantSeq' = grantSeq
  BY InvFields DEF HooksOk, StopHookReturns
<1>3. old \in EntryT /\ entries \in EntriesT
  BY <1>2, InvFields
<1>4. done.entries = entries /\ done.index = index /\ done.srv = srv
  BY DEF Here
<1>5. ready.entries = [entries EXCEPT ![p] = entry] /\ ready.index = index /\ ready.srv = srv
  BY <1>4 DEF Here
<1>6. /\ stopped.entries = [entries EXCEPT ![p] = last]
      /\ stopped.index = Unrouted(old.sid) /\ stopped.srv = Answer(srv, p)
  <2>1. /\ stopped.entries = [ready.entries EXCEPT ![p] = MarkedStopped(@)]
        /\ stopped.index = Unrouted(old.sid) /\ stopped.srv = Answer(srv, p)
    BY <1>5 DEF Here
  <2> HIDE DEF stopped, ready, entry
  <2> QED
    BY <1>2, <1>3, <1>5, <2>1 DEF EntriesT
<1> HIDE DEF done, ready, stopped
<1>7. /\ entry \in EntryT /\ entry.grant = old.grant /\ entry.watermark = old.watermark
      /\ entry.state = old.state
  BY <1>3 DEF EntryT
<1> HIDE DEF entry
<1>8. /\ Carried(old, old, srv.committed[p]) /\ Carried(old, entry, srv.committed[p])
      /\ Carried(old, last, srv.committed[p]) /\ last.state \notin Held
  BY <1>3, <1>7, CarriedSelf, CarriedAlike, StoppedCarried
<1> HIDE DEF last
<1>9. /\ Narrower(index, index) /\ Narrower(index, Unrouted(old.sid))
      /\ Calm(srv, srv) /\ Calm(srv, Answer(srv, p))
      /\ entries = [entries EXCEPT ![p] = old]
  BY <1>2, <1>3, InvFields, NarrowerSelf, UnroutedNarrow, CalmSelf, AnswerCalm DEF EntriesT
<1>10. CASE ~pinned
  <2>1. Finish(done, {}, {}, inbox) /\ UNCHANGED <<chunks, delivered>>
    BY <1>1, <1>10 DEF done
  <2> HIDE DEF old
  <2> QED
    BY <1>2, <1>4, <1>8, <1>9, <2>1, FinishTiles DEF old
<1>11. CASE pinned /\ ~drained
  <2>1. Finish(ready, {}, {}, inbox) /\ UNCHANGED <<chunks, delivered>>
    BY <1>1, <1>11 DEF ready, done
  <2> QED
    BY <1>2, <1>5, <1>8, <1>9, <2>1, FinishTiles
<1>12. CASE pinned /\ drained
  <2>1. Finish(stopped, {}, {}, inbox) /\ StopSession(old.grant)
    BY <1>1, <1>12 DEF stopped, ready, done
  <2>2. old.state \in Held
    BY <1>12 DEF Held
  <2> QED
    BY <1>2, <1>6, <1>8, <1>9, <2>1, <2>2, FinishTiles
<1> QED
  BY <1>10, <1>11, <1>12

LEMMA PartitionGracefulTimeoutTiles ==
  ASSUME ReaderInv, TileInv, Keeps, NEW p \in Partition, PartitionGracefulTimeout(p)
  PROVE  TilesKept
<1> DEFINE old == entries[p]
           stopping == old.state = "stopping-graceful"
           fired == [Here EXCEPT !.timers = @ \ TimersOf({"partition_graceful_timeout"}, p)]
           armed == IF old.pending = {} THEN {} ELSE TimersOf({"partition_reassign_gc"}, p)
           forced == [fired EXCEPT
                        !.entries[p] = MarkedStopped(@),
                        !.timers = (@ \ TimersOf({"partition_commit_status"}, p)) \cup armed,
                        !.index = IF Routed(p) THEN Unrouted(old.sid) ELSE @,
                        !.srv = Answer(@, p)]
           jx == IF Routed(p) THEN Unrouted(old.sid) ELSE index
           last == MarkedStopped(old)
<1>1. /\ Finish(IF stopping THEN forced ELSE fired, {}, {}, inbox) /\ grantSeq' = grantSeq
      /\ IF stopping THEN StopSession(old.grant) ELSE UNCHANGED <<chunks, delivered>>
  BY DEF PartitionGracefulTimeout
<1>2. fired.entries = entries /\ fired.index = index /\ fired.srv = srv
  BY DEF Here
<1>3. /\ forced.entries = [entries EXCEPT ![p] = last]
      /\ forced.index = jx /\ forced.srv = Answer(srv, p)
  BY <1>2 DEF Here
<1> HIDE DEF fired, forced
<1>4. /\ Narrower(index, index) /\ Narrower(index, jx) /\ old \in EntryT
      /\ Calm(srv, srv) /\ Calm(srv, Answer(srv, p))
      /\ entries = [entries EXCEPT ![p] = old]
  BY InvFields, NarrowerSelf, UnroutedNarrow, CalmSelf, AnswerCalm DEF EntriesT
<1>5. /\ Carried(old, old, srv.committed[p])
      /\ Carried(old, last, srv.committed[p]) /\ last.state \notin Held
  BY <1>4, CarriedSelf, StoppedCarried
<1> HIDE DEF jx, last
<1>6. CASE ~stopping
  <2>1. Finish(fired, {}, {}, inbox) /\ UNCHANGED <<chunks, delivered>>
    BY <1>1, <1>6
  <2> HIDE DEF old
  <2> QED
    BY <1>1, <1>2, <1>4, <1>5, <2>1, FinishTiles DEF old
<1>7. CASE stopping
  <2>1. Finish(forced, {}, {}, inbox) /\ StopSession(old.grant)
    BY <1>1, <1>7
  <2>2. old.state \in Held
    BY <1>7 DEF Held
  <2>3. forced.entries = [entries EXCEPT ![p] = last] /\ grantSeq' = grantSeq
    BY <1>1, <1>3
  <2> HIDE DEF stopping
  <2> QED
    BY <1>3, <1>4, <1>5, <2>1, <2>2, <2>3, FinishTiles
<1> QED
  BY <1>6, <1>7

LEMMA PartitionReassignGcTiles ==
  ASSUME ReaderInv, TileInv, Keeps, NEW p \in Partition, PartitionReassignGc(p)
  PROVE  TilesKept
<1> DEFINE old == entries[p]
           fired == [Here EXCEPT !.timers = @ \ TimersOf({"partition_reassign_gc"}, p)]
           emptied == [old EXCEPT !.pending = {}, !.claimed = {}]
           reaped == IF Routed(p) THEN emptied ELSE Absent
           gone == [fired EXCEPT !.entries[p] = reaped]
<1>1. /\ Finish(fired, {}, {}, inbox) \/ Finish(gone, {}, Waiters(old.pending), inbox)
      /\ UNCHANGED <<grantSeq, chunks, delivered>>
  BY DEF PartitionReassignGc
<1>2. fired.entries = entries /\ fired.index = index /\ fired.srv = srv
  BY DEF Here
<1>3. /\ gone.entries = [entries EXCEPT ![p] = reaped] /\ gone.index = index
      /\ gone.srv = srv
  BY <1>2 DEF Here
<1> HIDE DEF fired, gone
<1>4. /\ Narrower(index, index) /\ old \in EntryT /\ Calm(srv, srv)
      /\ entries = [entries EXCEPT ![p] = old]
  BY InvFields, NarrowerSelf, CalmSelf DEF EntriesT
<1>5. Carried(old, emptied, srv.committed[p])
  <2>1. /\ emptied.grant = old.grant /\ emptied.watermark = old.watermark
        /\ emptied.state = old.state
    BY <1>4 DEF EntryT
  <2> HIDE DEF emptied
  <2> QED
    BY <1>4, <2>1, CarriedAlike
<1>6. Carried(old, Absent, srv.committed[p])
  BY Zenon DEF Absent, Held, Carried
<1>7. Carried(old, old, srv.committed[p])
  BY <1>4, CarriedSelf
<1> HIDE DEF emptied
<1>8. Carried(old, reaped, srv.committed[p])
  BY <1>5, <1>6
<1> HIDE DEF reaped
<1>9. CASE Finish(fired, {}, {}, inbox)
  <2> HIDE DEF old
  <2> QED
    BY <1>1, <1>2, <1>4, <1>7, <1>9, FinishTiles DEF old
<1>10. CASE Finish(gone, {}, Waiters(old.pending), inbox)
  BY <1>1, <1>3, <1>4, <1>8, <1>10, FinishTiles
<1> QED
  BY <1>1, <1>9, <1>10

\* What leaves the entries and the messages as they are.
LEMMA StayTiles ==
  ASSUME ReaderInv, TileInv, Keeps, UNCHANGED <<grantSeq, entries, chunks, delivered>>,
         Narrower(index, index'), Calm(srv, srv'),
         inbox' = inbox \/ (inbox # << >> /\ inbox' = Tail(inbox))
  PROVE  TilesKept
<1>1. \A p \in Partition : Carried(entries[p], entries'[p], srv.committed[p])
  BY InvFields, CarriedSelf
<1>2. Ordered(inbox') /\ \A f \in Range(inbox') : f \in Range(inbox)
  BY RestTiles
<1> QED
  BY <1>1, <1>2, TilesStep

LEMMA InitTiles ==
  ASSUME ReaderInv, TileInv, Keeps, HandleInit PROVE TilesKept
<1>1. /\ UNCHANGED <<grantSeq, entries, chunks, delivered>>
      /\ inbox # << >> /\ inbox' = Tail(inbox) /\ index' = NoIndex
      /\ srv' = ReadRequest(srv, MaxBuffer)
  BY DEF HandleInit, Handles, facadeVars
<1>2. Calm(srv, srv')
  <2>1. srv'.sess = srv.sess /\ srv'.conn = srv.conn /\ srv'.committed = srv.committed
    BY <1>1, InvFields DEF ReadRequest, ServerT
  <2> QED
    BY <2>1, InvFields, CalmAlike
<1> QED
  BY <1>1, <1>2, InvFields, NoIndexOk, StayTiles

LEMMA ReconnectingTiles ==
  ASSUME ReaderInv, TileInv, Keeps, ToReconnecting, UNCHANGED <<grantSeq, chunks, delivered>>,
         inbox' = inbox \/ (inbox # << >> /\ inbox' = Tail(inbox))
  PROVE  TilesKept
<1>1. UNCHANGED <<entries, srv>> /\ index' = NoIndex
  BY DEF ToReconnecting
<1> QED
  BY <1>1, InvFields, NoIndexOk, CalmSelf, StayTiles

LEMMA DisconnectedTiles ==
  ASSUME ReaderInv, TileInv, Keeps, HandleDisconnected PROVE TilesKept
<1>1. /\ \/ \E terminal : Terminate(terminal, {})
         \/ ToReconnecting /\ inbox # << >> /\ inbox' = Tail(inbox)
      /\ UNCHANGED <<grantSeq, chunks, delivered>>
  BY DEF HandleDisconnected, Handles
<1> QED
  BY <1>1, TerminateTiles, ReconnectingTiles

LEMMA DropTiles ==
  ASSUME ReaderInv, TileInv, Keeps, DropFrame \/ Ignored PROVE TilesKept
<1>1. /\ UNCHANGED <<grantSeq, entries, index, chunks, delivered, srv>>
      /\ inbox # << >> /\ inbox' = Tail(inbox)
  BY DEF DropFrame, Ignored, Handles, Drop, machineVars, facadeVars
<1> QED
  BY <1>1, InvFields, NarrowerSelf, CalmSelf, StayTiles

\* One entry changes, and what the server holds.
LEMMA EntryTiles ==
  ASSUME ReaderInv, TileInv, Keeps, UNCHANGED <<grantSeq, index, chunks, delivered>>,
         NEW p \in Partition, NEW e, Carried(entries[p], e, srv.committed[p]),
         entries' = [entries EXCEPT ![p] = e], Calm(srv, srv'),
         inbox' = inbox \/ (inbox # << >> /\ inbox' = Tail(inbox))
  PROVE  TilesKept
<1>1. \A q \in Partition : Carried(entries[q], entries'[q], srv.committed[q])
  <2>1. \A q \in Partition : Carried(entries[q], entries[q], srv.committed[q])
    BY InvFields, CarriedSelf
  <2>2. entries'[p] = e /\ \A q \in Partition : q # p => entries'[q] = entries[q]
    BY InvFields DEF EntriesT
  <2> QED
    BY <2>1, <2>2
<1>2. Ordered(inbox') /\ \A f \in Range(inbox') : f \in Range(inbox)
  BY RestTiles
<1> QED
  BY <1>1, <1>2, InvFields, NarrowerSelf, TilesStep

LEMMA CommitTiles ==
  ASSUME ReaderInv, TileInv, Keeps, HandleCommit PROVE TilesKept
<1> DEFINE p == Event.partition
           old == entries[p]
           wire == Unclaimed(old, Event.ranges)
           q == [waiter |-> Event.waiter, target |-> EndOf(Event.ranges), wire |-> wire]
           owed == From(wire, Floor(old))
           entry == Recorded(old, q)
<1>1. /\ UNCHANGED <<grantSeq, index, chunks, delivered>>
      /\ inbox # << >> /\ inbox' = Tail(inbox)
      /\ \/ UNCHANGED <<entries, srv>>
         \/ /\ entries' = [entries EXCEPT ![p].pending = @ \cup {q}, ![p].claimed = @ \cup wire]
            /\ srv' = IF Sendable(p) /\ owed # {} THEN Commits(srv, old.sid, owed) ELSE srv
  BY DEF HandleCommit, Handles
<1>2. p \in Partition
  BY EventFields, FrameFields DEF HandleCommit
<1>3. old \in EntryT /\ entries \in EntriesT
  BY <1>2, InvFields
<1>4. CASE UNCHANGED <<entries, srv>>
  BY <1>1, <1>4, InvFields, NarrowerSelf, CalmSelf, StayTiles
<1>5. CASE ~UNCHANGED <<entries, srv>>
  <2>1. /\ entries' = [entries EXCEPT ![p].pending = @ \cup {q}, ![p].claimed = @ \cup wire]
        /\ srv' = IF Sendable(p) /\ owed # {} THEN Commits(srv, old.sid, owed) ELSE srv
    BY <1>1, <1>5
  <2>2. Calm(srv, srv')
    <3>1. CASE Sendable(p)
      <4>1. old.sid \in Sid
        BY <1>2, <3>1, InvFields DEF Sendable, Served, Routed, Book
      <4> QED
        BY <2>1, <4>1, InvFields, CommitsCalm, CalmSelf
    <3>2. CASE ~Sendable(p)
      BY <2>1, <3>2, InvFields, CalmSelf
    <3> QED
      BY <3>1, <3>2
  <2>3. q.wire = wire
    OBVIOUS
  <2> HIDE DEF q, wire
  <2>4. entries' = [entries EXCEPT ![p] = entry]
    BY <1>2, <1>3, <2>1, <2>3 DEF EntriesT, EntryT, Recorded
  <2>5. entry.grant = old.grant /\ entry.watermark = old.watermark /\ entry.state = old.state
    BY <1>3 DEF Recorded, EntryT
  <2> HIDE DEF entry
  <2>6. Carried(old, entry, srv.committed[p])
    BY <1>3, <2>5, CarriedAlike
  <2> HIDE DEF p
  <2> QED
    BY <1>1, <1>2, <2>2, <2>4, <2>6, EntryTiles DEF old
<1> QED
  BY <1>4, <1>5

LEMMA StatusCalm ==
  ASSUME NEW s \in ServerT, NEW sid PROVE Calm(s, StatusRequest(s, sid))
<1>1. /\ StatusRequest(s, sid).sess = s.sess /\ StatusRequest(s, sid).conn = s.conn
      /\ StatusRequest(s, sid).committed = s.committed
  BY DEF StatusRequest, ServerT
<1> QED
  BY <1>1, CalmAlike

LEMMA StartHookTiles ==
  ASSUME ReaderInv, TileInv, Keeps, StartHookReturns PROVE TilesKept
<1>1. PICK h \in hooks, commitOffset \in Override :
        LET p == h.partition
            old == entries[p]
            fresh == /\ state \in Streaming
                     /\ old.state = "active" /\ old.grant = h.grant /\ old.ackPending
                     /\ Routed(p)
            entry == Answered(old, commitOffset)
            sent == CommitsAll(StartResponse(srv, h.sid, commitOffset), old.sid, old.pending,
                               Floor(entry))
        IN
        /\ h.type = "start"
        /\ IF fresh
           THEN /\ entries' = [entries EXCEPT ![p] = entry]
                /\ srv' = IF entry.requested # 0 THEN StatusRequest(sent, old.sid) ELSE sent
           ELSE UNCHANGED <<entries, srv>>
        /\ UNCHANGED <<index, inbox, grantSeq, chunks, delivered>>
  BY ZenonT(40) DEF StartHookReturns, Answered, facadeVars
<1> DEFINE p == h.partition
           old == entries[p]
           fresh == /\ state \in Streaming
                    /\ old.state = "active" /\ old.grant = h.grant /\ old.ackPending
                    /\ Routed(p)
           entry == Answered(old, commitOffset)
           started == StartResponse(srv, h.sid, commitOffset)
           floor == Floor(entry)
           sent == CommitsAll(started, old.sid, old.pending, floor)
<1>2. UNCHANGED <<index, inbox, grantSeq, chunks, delivered>>
  BY <1>1
<1>3. p \in Partition /\ commitOffset \in Nat /\ h.sid \in Sid
  BY <1>1, InvFields, ReaderAssumption DEF HooksOk
<1>4. CASE ~fresh
  <2>1. UNCHANGED <<entries, srv>>
    BY <1>1, <1>4
  <2> QED
    BY <1>2, <2>1, InvFields, NarrowerSelf, CalmSelf, StayTiles
<1>5. CASE fresh
  <2>1. /\ entries' = [entries EXCEPT ![p] = entry]
        /\ srv' = IF entry.requested # 0 THEN StatusRequest(sent, old.sid) ELSE sent
    BY <1>1, <1>5
  <2>2. /\ old.sid \in Sid /\ srv \in ServerT /\ old.pending \in SUBSET PendingT
        /\ old \in EntryT
    BY <1>3, <1>5, InvFields, EntryFields DEF Book
  <2>3. Carried(old, entry, srv.committed[p])
    <3>1. /\ entry.grant = old.grant /\ entry.watermark = old.watermark
          /\ entry.state = old.state
      BY <2>2 DEF Answered, EntryT
    <3> HIDE DEF entry, old
    <3> QED
      BY <2>2, <3>1, CarriedAlike
  <2> HIDE DEF entry, floor
  <2>4. started \in ServerT /\ Calm(srv, started)
    BY <1>3, <2>2, StartResponseSame, StartResponseCalm DEF Same
  <2> HIDE DEF started
  <2>5. sent \in ServerT /\ Calm(started, sent)
    BY <2>2, <2>4, CommitsAllSame, CommitsAllCalm DEF Same
  <2> HIDE DEF sent
  <2>6. StatusRequest(sent, old.sid) \in ServerT /\ Calm(sent, StatusRequest(sent, old.sid))
    BY <2>2, <2>5, StatusCalm DEF StatusRequest, ServerT
  <2>7. Calm(srv, sent)
    BY <2>2, <2>4, <2>5, CalmTrans
  <2>8. Calm(srv, StatusRequest(sent, old.sid))
    BY <2>2, <2>5, <2>6, <2>7, CalmTrans
  <2>9. Calm(srv, srv')
    BY <2>1, <2>7, <2>8
  <2> HIDE DEF p, fresh
  <2> QED
    BY <1>2, <1>3, <2>1, <2>3, <2>9, EntryTiles DEF old
<1> QED
  BY <1>4, <1>5

-----------------------------------------------------------------------------
(* Timers and the public object                                             *)

LEMMA TimersTiles ==
  ASSUME ReaderInv, TileInv, Keeps,
         \/ StartTimeout \/ RetryBackoff \/ RecoveryWindow \/ GracefulTimeout
         \/ \E p \in Partition : PartitionTimers(p)
  PROVE  TilesKept
<1>1. CASE StartTimeout
  BY <1>1, ReconnectingTiles DEF StartTimeout
<1>2. CASE RecoveryWindow \/ GracefulTimeout
  BY <1>2, TerminateTiles DEF RecoveryWindow, GracefulTimeout
<1>3. ASSUME NEW p \in Partition, PartitionCommitStatus(p) PROVE TilesKept
  <2>1. /\ UNCHANGED <<grantSeq, entries, index, inbox, chunks, delivered>>
        /\ srv' \in {srv, StatusRequest(srv, entries[p].sid)}
    BY <1>3 DEF PartitionCommitStatus, facadeVars
  <2> QED
    BY <2>1, InvFields, NarrowerSelf, CalmSelf, StatusCalm, StayTiles
<1>4. CASE RetryBackoff
  <2>1. /\ inbox' = << >> /\ UNCHANGED <<entries, index, grantSeq, chunks, delivered>>
        /\ srv' = Opened(srv) /\ Timer("retry_backoff") \in timers
    BY <1>4 DEF RetryBackoff, Fires, facadeVars
  <2>2. /\ srv'.conn = "opened" /\ srv'.committed = srv.committed
    BY <2>1, InvFields DEF Opened, Broken, ServerT
  <2>3. \A sid \in Sid : index[sid] = None
    BY <2>1, InvFields DEF ReaderInv, BackoffInv, Idle
  <2>4. /\ FirstReads(delivered, chunks, srv.committed) /\ Disjoint(Everything)
        /\ Filled(entries, Everything, srv.committed) /\ Stamped(entries, Everything, grantSeq)
    BY DEF TileInv, Tiles
  <2>5. Ahead(entries, index, << >>, srv', Everything)
    BY <2>3 DEF Ahead
  <2>6. Ordered(<< >>) /\ Fed(<< >>, srv')
    BY DEF Ordered, Fed, Range
  <2> QED
    BY <2>1, <2>2, <2>4, <2>5, <2>6 DEF TilesKept, Tiles, Everything
<1> QED
  BY <1>1, <1>2, <1>3, <1>4, PartitionGracefulTimeoutTiles, PartitionReassignGcTiles
     DEF PartitionTimers

\* read() takes the first of the responses.
LEMMA TakeTiles ==
  ASSUME ReaderInv, TileInv, Keeps, Read PROVE TilesKept
<1>1. /\ chunks # << >> /\ chunks' = Tail(chunks) /\ delivered' = delivered \cup Head(chunks)
      /\ UNCHANGED <<entries, index, grantSeq, inbox>>
      /\ srv' = IF state = "ready" THEN ReadRequest(srv, 1) ELSE srv
  BY DEF Read, machineVars
<1>2. /\ srv \in ServerT /\ srv' \in ServerT /\ srv'.sess = srv.sess /\ srv'.conn = srv.conn
      /\ srv'.committed = srv.committed
  BY <1>1, InvFields DEF Keeps, ReadRequest, ServerT
<1>3. /\ Len(chunks) \in Nat /\ Len(chunks') = Len(chunks) - 1 /\ Len(chunks') \in Nat
      /\ \A i \in 0 .. Len(chunks') :
           Taken(delivered', chunks', i) = Taken(delivered, chunks, i + 1)
  <2>1. chunks \in Seq(SUBSET MessageT)
    BY InvFields
  <2>2. Len(chunks) # 0
    BY <1>1, <2>1, EmptySeq
  <2>3. /\ Len(chunks) \in Nat /\ Len(chunks') = Len(chunks) - 1
        /\ \A i \in 0 .. Len(chunks') :
             Taken(delivered', chunks', i) = Taken(delivered, chunks, i + 1)
    BY <1>1, <2>1, ReadTaken
  <2> QED
    BY <2>2, <2>3
<1>4. Taken(delivered', chunks', Len(chunks')) = Everything
  BY <1>3 DEF Everything
<1>5. FirstReads(delivered', chunks', srv'.committed)
  <2>1. \A i \in 0 .. Len(chunks) : Tiled(Taken(delivered, chunks, i), srv.committed)
    BY DEF TileInv, FirstReads
  <2>2. \A i \in 0 .. Len(chunks') : i + 1 \in 0 .. Len(chunks)
    BY <1>3
  <2> QED
    BY <1>2, <1>3, <2>1, <2>2 DEF FirstReads
<1>6. /\ Narrower(index, index) /\ Calm(srv, srv') /\ inbox \in Seq(FrameT)
      /\ Ordered(inbox) /\ \A p \in Partition : Carried(entries[p], entries[p], srv.committed[p])
  BY <1>2, InvFields, NarrowerSelf, CalmAlike, CarriedSelf DEF TileInv, Tiles
<1>7. Everything \in SUBSET MessageT /\ Shed(Everything, Everything, entries)
  BY InvFields, LenProperties, TakenTyped DEF Everything, Shed
<1>8. Tiles(entries', srv', index', inbox, grantSeq', Everything)
  BY <1>1, <1>6, <1>7, TilesCarried
<1> QED
  BY <1>1, <1>4, <1>5, <1>8 DEF TilesKept

LEMMA FacadeTiles ==
  ASSUME ReaderInv, TileInv, Keeps,
         Read \/ Close \/ Destroy \/ MarkClosed \/ \E w \in Waiter : Commit(w)
  PROVE  TilesKept
<1>1. CASE Read
  BY <1>1, TakeTiles
<1>2. CASE UNCHANGED <<grantSeq, chunks, delivered>> /\ \E terminal : Terminate(terminal, {})
  BY <1>2, TerminateTiles
<1>3. CASE UNCHANGED <<entries, index, grantSeq, inbox, srv, chunks, delivered>>
  BY <1>3, InvFields, NarrowerSelf, CalmSelf, StayTiles
<1>4. ASSUME NEW w \in Waiter, Commit(w) PROVE TilesKept
  <2>1. UNCHANGED <<entries, index, grantSeq, srv, chunks, delivered>>
    BY <1>4 DEF Commit, machineVars
  <2>2. CASE inbox' = inbox
    BY <2>1, <2>2, InvFields, NarrowerSelf, CalmSelf, StayTiles
  <2>3. CASE \E f \in FrameT, i \in 0 .. Len(inbox) :
               f.type = "commit" /\ inbox' = InsertAt(inbox, i + 1, f)
    <3>1. PICK f \in FrameT, i \in 0 .. Len(inbox) :
            f.type = "commit" /\ inbox' = InsertAt(inbox, i + 1, f)
      BY <2>3
    <3>2. inbox \in Seq(FrameT) /\ Ordered(inbox)
      BY InvFields DEF TileInv, Tiles
    <3>3. Range(inbox') \subseteq Range(inbox) \cup {f} /\ Ordered(inbox')
      BY <3>1, <3>2, InboxInsert, OrderedInsert
    <3>4. \A g \in Range(inbox') : g.type = "read" => g \in Range(inbox)
      BY <3>1, <3>3
    <3>5. \A p \in Partition : Carried(entries[p], entries'[p], srv.committed[p])
      BY <2>1, InvFields, CarriedSelf
    <3> QED
      BY <2>1, <3>3, <3>4, <3>5, InvFields, NarrowerSelf, CalmSelf, TilesStep
  <2> QED
    BY <1>4, <2>2, <2>3, PostPlaces
<1> QED
  BY <1>1, <1>2, <1>3, <1>4 DEF Close, Destroy, MarkClosed, machineVars

-----------------------------------------------------------------------------
(* The server                                                               *)

\* A frame joins that is not a read.
LEMMA JoinTiles ==
  ASSUME ReaderInv, TileInv, Keeps, UNCHANGED <<machineVars, facadeVars>>, Calm(srv, srv'),
         NEW f, f.type # "read", inbox' = inbox \/ inbox' = Append(inbox, f)
  PROVE  TilesKept
<1>1. UNCHANGED <<entries, index, grantSeq, chunks, delivered>>
  BY DEF machineVars, facadeVars
<1>2. inbox \in Seq(FrameT) /\ Ordered(inbox)
  BY InvFields DEF TileInv, Tiles
<1>3. CASE inbox' = inbox
  BY <1>1, <1>3, InvFields, NarrowerSelf, StayTiles
<1>4. CASE inbox' = Append(inbox, f)
  <2>1. f \in FrameT
    <3>1. /\ Len(inbox) \in Nat /\ Len(inbox') = Len(inbox) + 1
          /\ inbox'[Len(inbox) + 1] = f /\ inbox' \in Seq(FrameT)
      BY <1>2, <1>4, LenProperties DEF Keeps
    <3> QED
      BY <3>1, ElementOfSeq
  <2>2. Ordered(inbox') /\ Range(inbox') \subseteq Range(inbox) \cup {f}
    BY <1>2, <1>4, <2>1, OrderedAppend, InboxAppend
  <2>3. \A g \in Range(inbox') : g.type = "read" => g \in Range(inbox)
    BY <2>2
  <2>4. \A p \in Partition : Carried(entries[p], entries'[p], srv.committed[p])
    BY <1>1, InvFields, CarriedSelf
  <2> QED
    BY <1>1, <2>2, <2>3, <2>4, InvFields, NarrowerSelf, TilesStep
<1> QED
  BY <1>3, <1>4

\* One session changes, and stays in place.
LEMMA SessionCalm ==
  ASSUME NEW s \in ServerT, NEW t, NEW sid \in Sid, NEW new,
         t.sess = [s.sess EXCEPT ![sid] = new], t.conn = s.conn, t.committed = s.committed,
         new.partition = s.sess[sid].partition,
         Live(new) => Live(s.sess[sid]) /\ s.sess[sid].pos <= new.pos
  PROVE  Calm(s, t)
<1>1. s.sess \in [Sid -> SessionT]
  BY ServerFields
<1>2. \A i \in Sid : IF i = sid THEN t.sess[i] = new ELSE t.sess[i] = s.sess[i]
  BY <1>1
<1>3. Calm(s, s)
  BY CalmSelf
<1>4. \A i \in Sid : /\ t.sess[i].partition = s.sess[i].partition
                     /\ s.conn = "up" /\ Live(t.sess[i]) =>
                          Live(s.sess[i]) /\ s.sess[i].pos <= t.sess[i].pos
  BY <1>2, <1>3 DEF Calm
<1> QED
  BY <1>3, <1>4 DEF Calm

LEMMA ServerInitTiles ==
  ASSUME ReaderInv, TileInv, Keeps, ServerInit PROVE TilesKept
<1>1. /\ srv.conn = "opened" /\ UNCHANGED <<machineVars, facadeVars>>
      /\ srv'.conn = "up" /\ srv'.sess = srv.sess /\ srv'.committed = srv.committed
      /\ inbox' = Append(inbox, [type |-> "init"])
  BY InvFields DEF ServerInit, Reply, ServerT
<1>2. \A sid \in Sid : srv.sess[sid].partition = None
  BY <1>1, InvFields DEF Ties, Granted
<1>3. Calm(srv, srv')
  BY <1>1, <1>2, InvFields, CalmSelf DEF Calm, Live
<1> QED
  BY <1>1, <1>3, JoinTiles

LEMMA StreamBreaksTiles ==
  ASSUME ReaderInv, TileInv, Keeps, StreamBreaks PROVE TilesKept
<1>1. PICK n \in LastCommit .. Len(inbox), fatal \in {FALSE, FatalErrors} :
        inbox' = Append(SubSeq(inbox, 1, n), [type |-> "disconnected", fatal |-> fatal])
  BY DEF StreamBreaks
<1>2. srv' = Broken(srv) /\ UNCHANGED <<entries, index, grantSeq, chunks, delivered>>
  BY DEF StreamBreaks, machineVars, facadeVars
<1> DEFINE f == [type |-> "disconnected", fatal |-> fatal]
           cut == SubSeq(inbox, 1, n)
<1>3. f \in FrameT /\ f.type = "disconnected"
  BY ReaderAssumption DEF FrameT
<1> HIDE DEF f
<1>4. n \in 0 .. Len(inbox)
  <2>1. LastCommit \in 0 .. Len(inbox) /\ Len(inbox) \in Nat
    BY InvFields, LastCommitIn, LenProperties
  <2> QED
    BY <2>1
<1>5. /\ cut \in Seq(FrameT) /\ Range(cut) \subseteq Range(inbox) /\ Ordered(cut)
  <2>1. inbox \in Seq(FrameT) /\ Ordered(inbox)
    BY InvFields DEF TileInv, Tiles
  <2> QED
    BY <1>4, <2>1, InboxPrefix, OrderedPrefix
<1>6. inbox' = Append(cut, f)
  BY <1>1 DEF f
<1> HIDE DEF cut
<1>7. Ordered(inbox') /\ Range(inbox') \subseteq Range(cut) \cup {f}
  BY <1>3, <1>5, <1>6, OrderedAppend, InboxAppend
<1>8. \A g \in Range(inbox') : g.type = "read" => g \in Range(inbox)
  BY <1>3, <1>5, <1>7
<1>9. \A p \in Partition : Carried(entries[p], entries'[p], srv.committed[p])
  BY <1>2, InvFields, CarriedSelf
<1>10. Calm(srv, srv')
  BY <1>2, InvFields, CalmBroken
<1> QED
  BY <1>2, <1>7, <1>8, <1>9, <1>10, InvFields, NarrowerSelf, TilesStep

LEMMA ServerCommitTiles ==
  ASSUME ReaderInv, TileInv, Keeps, NEW p \in Partition, ServerCommit(p) PROVE TilesKept
<1> DEFINE com == srv.committed
           S == {com[p]} \cup {n \in Watermark : com[p] .. n - 1 \subseteq srv.accepted[p]}
           reached == Max(S)
<1>1. /\ reached > com[p] /\ srv' = [srv EXCEPT !.committed[p] = reached]
      /\ UNCHANGED <<machineVars, facadeVars>>
  BY DEF ServerCommit
<1>2. \E f : f.type = "commit_response" /\ (inbox' = inbox \/ inbox' = Append(inbox, f))
  <2>1. \E f : f.type = "commit_response"
    <3> DEFINE f == [type |-> "commit_response"]
    <3>1. f.type = "commit_response"
      OBVIOUS
    <3> QED
      BY <3>1
  <2> QED
    BY <2>1 DEF ServerCommit, Reply
<1> HIDE DEF reached
<1>3. /\ srv \in ServerT /\ srv' \in ServerT
      /\ com \in [Partition -> Nat] /\ srv'.committed \in [Partition -> Nat]
  BY InvFields, ServerFields DEF Keeps
<1>4. /\ srv'.sess = srv.sess /\ srv'.conn = srv.conn
      /\ srv'.committed = [com EXCEPT ![p] = reached]
  BY <1>1, <1>3 DEF ServerT
<1>5. Further(srv.committed, srv'.committed)
  <2>1. ASSUME NEW q \in Partition PROVE com[q] <= srv'.committed[q]
    <3>1. com[q] \in Nat /\ srv'.committed[q] \in Nat
      BY <1>3
    <3>2. CASE q = p
      <4>1. srv'.committed[q] = reached
        BY <1>3, <1>4, <3>2
      <4> QED
        BY <1>1, <3>1, <3>2, <4>1
    <3>3. CASE q # p
      <4>1. srv'.committed[q] = com[q]
        BY <1>3, <1>4, <3>3
      <4> QED
        BY <3>1, <4>1
    <3> QED
      BY <3>2, <3>3
  <2> QED
    BY <1>3, <2>1 DEF Further
<1>6. Calm(srv, srv')
  BY <1>3, <1>4, <1>5, CalmSelf DEF Calm
<1> QED
  BY <1>1, <1>2, <1>6, JoinTiles

LEMMA ServerStopTiles ==
  ASSUME ReaderInv, TileInv, Keeps, NEW sid \in Sid, NEW graceful \in BOOLEAN,
         ServerStop(sid, graceful)
  PROVE  TilesKept
<1> DEFINE sess == srv.sess[sid]
           soft == [sess EXCEPT !.asked = "graceful"]
           hard == [sess EXCEPT !.asked = "forced", !.wire = {}, !.pos = 0]
           new == IF graceful THEN soft ELSE hard
<1>1. /\ Live(sess) /\ srv' = [srv EXCEPT !.sess[sid] = new]
      /\ UNCHANGED <<machineVars, facadeVars>>
  BY DEF ServerStop
<1>2. PICK f : f.type = "stop" /\ inbox' = Append(inbox, f)
  BY DEF ServerStop, Reply
<1>3. sess \in SessionT /\ srv \in ServerT /\ sess.pos \in Nat
  BY InvFields, ServerFields
<1>4. /\ soft.partition = sess.partition /\ soft.pos = sess.pos
      /\ hard.partition = sess.partition /\ ~Live(hard)
  BY <1>3 DEF SessionT, Live
<1> HIDE DEF soft, hard
<1>5. new.partition = sess.partition /\ (Live(new) => sess.pos <= new.pos)
  BY <1>3, <1>4
<1> HIDE DEF new
<1>6. /\ srv'.sess = [srv.sess EXCEPT ![sid] = new]
      /\ srv'.conn = srv.conn /\ srv'.committed = srv.committed
  BY <1>1, <1>3 DEF ServerT
<1>7. Calm(srv, srv')
  BY <1>1, <1>3, <1>5, <1>6, SessionCalm
<1> QED
  BY <1>1, <1>2, <1>7, JoinTiles

LEMMA ServerEndTiles ==
  ASSUME ReaderInv, TileInv, Keeps, NEW sid \in Sid, ServerEnd(sid) PROVE TilesKept
<1> DEFINE sess == srv.sess[sid]
           new == [sess EXCEPT !.pos = MaxOffset + 1]
<1>1. /\ Live(sess) /\ sess.pos = MaxOffset /\ srv' = [srv EXCEPT !.sess[sid] = new]
      /\ UNCHANGED <<machineVars, facadeVars>>
  BY DEF ServerEnd
<1>2. PICK f : f.type = "end" /\ inbox' = Append(inbox, f)
  BY DEF ServerEnd, Reply
<1>3. sess \in SessionT /\ srv \in ServerT
  BY InvFields, ServerFields
<1>4. new.partition = sess.partition /\ new.pos = MaxOffset + 1
  BY <1>3 DEF SessionT
<1>5. sess.pos <= new.pos
  BY <1>1, <1>4, ReaderAssumption
<1> HIDE DEF new
<1>6. /\ srv'.sess = [srv.sess EXCEPT ![sid] = new]
      /\ srv'.conn = srv.conn /\ srv'.committed = srv.committed
  BY <1>1, <1>3 DEF ServerT
<1>7. Calm(srv, srv')
  BY <1>1, <1>3, <1>4, <1>5, <1>6, SessionCalm
<1> QED
  BY <1>1, <1>2, <1>7, JoinTiles

LEMMA ServerStatusTiles ==
  ASSUME ReaderInv, TileInv, Keeps, NEW sid \in Sid, ServerStatus(sid) PROVE TilesKept
<1>1. PICK f : f.type = "status" /\ inbox' = Append(inbox, f)
  BY DEF ServerStatus, Reply
<1>2. /\ srv'.sess = srv.sess /\ srv'.conn = srv.conn /\ srv'.committed = srv.committed
      /\ UNCHANGED <<machineVars, facadeVars>>
  BY InvFields DEF ServerStatus, ServerT
<1>3. Calm(srv, srv')
  BY <1>2, InvFields, CalmAlike
<1> QED
  BY <1>1, <1>2, <1>3, JoinTiles

\* A message is sent.
LEMMA ServerDataTiles ==
  ASSUME ReaderInv, TileInv, Keeps, NEW sid \in Sid, ServerData(sid) PROVE TilesKept
<1> DEFINE sess == srv.sess[sid]
           next == {o \in Offset \ Hole : o >= sess.pos}
           least == Min(next)
           f == [type |-> "read", sid |-> sid, offset |-> least]
           new == [sess EXCEPT !.pos = least + 1]
<1>1. /\ Live(sess) /\ next # {}
      /\ srv' = [srv EXCEPT !.credit = @ - 1, !.sess[sid] = new]
      /\ inbox' = Append(inbox, f)
      /\ UNCHANGED <<entries, index, grantSeq, chunks, delivered>>
  BY DEF ServerData, Reply, machineVars, facadeVars
<1>2. sess \in SessionT /\ srv \in ServerT /\ sess.pos \in Nat
  BY InvFields, ServerFields
<1>3. least \in Offset /\ least \in Nat /\ sess.pos <= least
  <2>1. next \in SUBSET (0 .. MaxOffset) /\ MaxOffset \in Nat
    BY ReaderAssumption DEF Offset
  <2>2. Min(next) \in next
    BY <1>1, <2>1, LeastIn
  <2>3. \A o \in next : o \in Offset /\ o \in Nat /\ sess.pos <= o
    BY <1>2, ReaderAssumption DEF Offset
  <2> QED
    BY <2>2, <2>3
<1>4. new.partition = sess.partition /\ new.pos = least + 1
  BY <1>2 DEF SessionT
<1> HIDE DEF least
<1>5. f \in FrameT /\ f.type = "read" /\ f.sid = sid /\ f.offset = least
  BY <1>3 DEF FrameT
<1>6. sess.pos <= new.pos
  BY <1>2, <1>3, <1>4
<1> HIDE DEF new, f
<1>7. /\ srv'.sess = [srv.sess EXCEPT ![sid] = new] /\ srv'.sess[sid] = new
      /\ srv'.conn = srv.conn /\ srv'.committed = srv.committed
  <2>1. srv.sess \in [Sid -> SessionT]
    BY <1>2, ServerFields
  <2>2. /\ srv'.sess = [srv.sess EXCEPT ![sid] = new]
        /\ srv'.conn = srv.conn /\ srv'.committed = srv.committed
    BY <1>1, <1>2 DEF ServerT
  <2> QED
    BY <2>1, <2>2
<1>8. Calm(srv, srv')
  BY <1>1, <1>2, <1>4, <1>6, <1>7, SessionCalm
<1>9. srv.conn = "up" /\ sess.partition # None
  BY <1>1, InvFields DEF Live, Ties, Granted
<1>10. inbox \in Seq(FrameT) /\ Ordered(inbox) /\ Fed(inbox, srv)
       /\ Ahead(entries, index, inbox, srv, Everything)
       /\ FirstReads(delivered, chunks, srv.committed)
  BY InvFields DEF TileInv, Tiles
<1>11. Range(inbox') \subseteq Range(inbox) \cup {f}
  BY <1>1, <1>5, <1>10, InboxAppend
<1>12. Everything \in SUBSET MessageT /\ Shed(Everything, Everything, entries)
  BY InvFields, LenProperties, TakenTyped DEF Everything, Shed
<1>13. Tiles(entries, srv', index, inbox, grantSeq, Everything)
  <2>1. \A p \in Partition : Carried(entries[p], entries'[p], srv.committed[p])
    BY <1>1, InvFields, CarriedSelf
  <2>2. Tiles(entries', srv', index', inbox, grantSeq', Everything)
    BY <1>1, <1>8, <1>10, <1>12, <2>1, InvFields, NarrowerSelf, TilesCarried
  <2> QED
    BY <1>1, <2>2
<1>14. Ordered(inbox')
  <2>1. ASSUME NEW g \in Range(inbox), g.type = "read", g.sid = sid PROVE g.offset < least
    <3>1. g.offset < sess.pos
      BY <1>1, <1>9, <1>10, <2>1 DEF Fed
    <3>2. g.offset \in Nat
      BY <2>1, InvFields, FrameKinds, ReaderAssumption DEF Offset
    <3> QED
      BY <1>2, <1>3, <3>1, <3>2
  <2> QED
    BY <1>1, <1>5, <1>10, <2>1, OrderedAppend
<1>15. Fed(inbox', srv')
  <2>1. f.offset < new.pos
    BY <1>3, <1>4, <1>5
  <2>2. Fed(inbox, srv')
    BY <1>13 DEF Tiles
  <2> QED
    BY <1>4, <1>5, <1>7, <1>9, <1>11, <2>1, <2>2 DEF Fed
<1>16. Ahead(entries, index, inbox', srv', Everything)
  <2>1. ASSUME index[sid] # None, NEW m \in Everything, m.partition = index[sid],
               m.grant = entries[index[sid]].grant
        PROVE  m.offset < least
    <3>1. m.offset < sess.pos
      BY <1>1, <1>9, <1>10, <2>1 DEF Ahead
    <3>2. m.offset \in Nat
      BY <1>12, ReaderAssumption DEF MessageT, Offset
    <3> QED
      BY <1>2, <1>3, <3>1, <3>2
  <2>2. Ahead(entries, index, inbox, srv', Everything)
    BY <1>13 DEF Tiles
  <2>3. ASSUME NEW i \in Sid, index[i] # None, NEW m \in Everything, m.partition = index[i],
               m.grant = entries[index[i]].grant, NEW g \in Range(inbox'), g.type = "read",
               g.sid = i
        PROVE  m.offset < g.offset
    <3>1. CASE g \in Range(inbox)
      BY <2>2, <2>3, <3>1 DEF Ahead
    <3>2. CASE g = f
      BY <1>5, <2>1, <2>3, <3>2
    <3> QED
      BY <1>11, <2>3, <3>1, <3>2
  <2> QED
    BY <2>2, <2>3 DEF Ahead
<1>17. Taken(delivered', chunks', Len(chunks')) = Everything
       /\ FirstReads(delivered', chunks', srv'.committed)
  BY <1>1, <1>7, <1>10 DEF Everything
<1> QED
  BY <1>1, <1>13, <1>14, <1>15, <1>16, <1>17 DEF TilesKept, Tiles

\* A session is opened that nothing has come of yet.
LEMMA ServerGrantTiles ==
  ASSUME ReaderInv, TileInv, Keeps, NEW p \in Partition, ServerGrant(p) PROVE TilesKept
<1> DEFINE new == [NoSession EXCEPT !.partition = p, !.wire = Below(srv.committed[p]),
                                    !.pos = srv.committed[p]]
           f == [type |-> "start", sid |-> srv.next, partition |-> p,
                 committed |-> srv.committed[p]]
<1>1. /\ srv.conn = "up" /\ srv.grants < MaxGrants
      /\ srv' = [srv EXCEPT !.grants = @ + 1, !.next = @ + 1, !.accepted[p] = {},
                            !.sess[srv.next] = new]
      /\ inbox' = Append(inbox, f)
      /\ UNCHANGED <<entries, index, grantSeq, chunks, delivered>>
  BY DEF ServerGrant, Reply, machineVars, facadeVars
<1>2. /\ srv \in ServerT /\ Granted(srv) /\ Links(srv, index, Range(inbox))
      /\ srv.next \in Nat /\ srv.grants \in Nat /\ srv.sess \in [Sid -> SessionT]
  BY InvFields, ServerFields DEF Ties
<1>3. srv.next \in Sid /\ srv.sess[srv.next].partition = None
  BY <1>1, <1>2, ReaderAssumption DEF Granted, Sid
<1>4. f.type = "start"
  OBVIOUS
<1>5. new.partition = p
  BY DEF NoSession
<1> HIDE DEF new, f
<1>6. /\ srv'.conn = "up" /\ srv'.committed = srv.committed
      /\ srv'.sess = [srv.sess EXCEPT ![srv.next] = new]
  BY <1>1, <1>2 DEF ServerT
<1>7. /\ srv'.sess[srv.next].partition # None
      /\ \A sid \in Sid : sid # srv.next => srv'.sess[sid] = srv.sess[sid]
  BY <1>2, <1>3, <1>5, <1>6, ReaderAssumption
<1>8. index[srv.next] = None
  <2>1. index[srv.next] # None => srv.sess[srv.next].partition = index[srv.next]
    BY <1>1, <1>2, <1>3 DEF Links
  <2> QED
    BY <1>3, <2>1
<1>9. /\ Ordered(inbox) /\ Fed(inbox, srv) /\ inbox \in Seq(FrameT)
      /\ Ahead(entries, index, inbox, srv, Everything) /\ Disjoint(Everything)
      /\ Filled(entries, Everything, srv.committed) /\ Stamped(entries, Everything, grantSeq)
      /\ FirstReads(delivered, chunks, srv.committed)
  BY InvFields DEF TileInv, Tiles
<1>10. f \in FrameT
  <2>1. /\ Len(inbox) \in Nat /\ Len(inbox') = Len(inbox) + 1
        /\ inbox'[Len(inbox) + 1] = f /\ inbox' \in Seq(FrameT)
    BY <1>1, <1>9, LenProperties DEF Keeps
  <2> QED
    BY <2>1, ElementOfSeq
<1>11. /\ Ordered(inbox') /\ Range(inbox') \subseteq Range(inbox) \cup {f}
  BY <1>1, <1>4, <1>9, <1>10, OrderedAppend, InboxAppend
<1>12. ASSUME NEW g \in Range(inbox'), g.type = "read"
       PROVE  g \in Range(inbox) /\ g.sid \in Sid /\ g.sid # srv.next
  <2>1. g \in Range(inbox) /\ g.sid \in Sid
    BY <1>4, <1>11, <1>12, InvFields, FrameKinds
  <2>2. srv.sess[g.sid].partition # None
    BY <1>1, <1>9, <1>12, <2>1 DEF Fed
  <2> QED
    BY <1>3, <2>1, <2>2
<1>13. Fed(inbox', srv')
  BY <1>1, <1>6, <1>7, <1>9, <1>12 DEF Fed
<1>14. Ahead(entries, index, inbox', srv', Everything)
  BY <1>1, <1>6, <1>7, <1>8, <1>9, <1>12 DEF Ahead
<1> QED
  BY <1>1, <1>6, <1>9, <1>11, <1>13, <1>14 DEF TilesKept, Tiles, Everything

LEMMA ServerTiles ==
  ASSUME ReaderInv, TileInv, Keeps, Server PROVE TilesKept
BY ServerInitTiles, StreamBreaksTiles, ServerGrantTiles, ServerCommitTiles, ServerDataTiles,
   ServerEndTiles, ServerStatusTiles, ServerStopTiles DEF Server

-----------------------------------------------------------------------------
(* A grant comes, and a message                                             *)

\* Nothing is served any more.
LEMMA ThroughTiles ==
  ASSUME ReaderInv, TileInv, UNCHANGED <<chunks, delivered>>,
         grantSeq \in Nat, grantSeq' \in Nat, grantSeq <= grantSeq',
         NEW terminal, NEW resolved, Terminate(terminal, resolved)
  PROVE  TilesKept
<1>1. /\ entries' = [p \in Partition |-> Absent] /\ index' = NoIndex /\ inbox' = << >>
      /\ srv' = Broken(srv)
  BY DEF Terminate
<1>2. srv'.conn = "none" /\ srv'.committed = srv.committed
  BY <1>1, InvFields DEF Broken, ServerT
<1>3. /\ FirstReads(delivered, chunks, srv.committed) /\ Disjoint(Everything)
      /\ Stamped(entries, Everything, grantSeq)
  BY DEF TileInv, Tiles
<1>4. \A p \in Partition : entries'[p].state \notin Held /\ entries'[p].grant = 0
  BY <1>1 DEF Absent, Held
<1>5. Filled(entries', Everything, srv'.committed)
  BY <1>4 DEF Filled
<1>6. Ahead(entries', index', inbox', srv', Everything)
  BY <1>1 DEF Ahead, NoIndex
<1>7. Ordered(inbox') /\ Fed(inbox', srv')
  BY <1>1 DEF Ordered, Fed, Range
<1>8. Stamped(entries', Everything, grantSeq')
  <2>1. Everything \in SUBSET MessageT
    BY InvFields, LenProperties, TakenTyped DEF Everything
  <2>2. \A m \in Everything : m.grant \in Nat /\ m.grant <= grantSeq
    BY <1>3, <2>1 DEF MessageT, Stamped
  <2>3. \A m \in Everything : m.grant <= grantSeq'
    BY <2>2
  <2> QED
    BY <1>4, <2>3 DEF Stamped
<1> QED
  BY <1>2, <1>3, <1>5, <1>6, <1>7, <1>8 DEF TilesKept, Tiles, Everything

LEMMA StartTiles ==
  ASSUME ReaderInv, TileInv, Keeps, HandleStart PROVE TilesKept
<1> DEFINE e == Event
           p == e.partition
           old == entries[p]
           c == Highest(old.committed, e.committed)
           kept == Narrowed(old.pending, c)
           entry == [sid |-> e.sid, grant |-> grantSeq + 1, ackPending |-> TRUE,
                     committed |-> c, requested |-> 0, watermark |-> c,
                     claimed |-> AllWire(kept), state |-> "active", stopReady |-> FALSE,
                     pending |-> kept]
           unrouted == IF old.state = "absent" THEN index ELSE Unrouted(old.sid)
           ix == [unrouted EXCEPT ![e.sid] = p]
           hook == [type |-> "start", partition |-> p, sid |-> e.sid, grant |-> grantSeq + 1]
           to == [Here EXCEPT !.entries[p] = entry, !.index = ix,
                              !.timers = @ \ TimersOf({"partition_commit_status",
                                                       "partition_graceful_timeout"}, p),
                              !.hooks = @ \cup {hook}]
           resolved == Waiters(Covered(old.pending, c))
           S == Everything
<1>1. /\ Handles(Streaming, "start") /\ UNCHANGED <<chunks, delivered>>
      /\ Finish(to, resolved, {}, Tail(inbox)) /\ grantSeq' = grantSeq + 1
  BY DEF HandleStart, Narrowed
<1>2. to.entries = [entries EXCEPT ![p] = entry] /\ to.index = ix /\ to.srv = srv
  BY DEF Here
<1> HIDE DEF to, resolved
<1>3. /\ e \in FrameT /\ e \in Range(inbox) /\ e.type = "start" /\ inbox # << >>
      /\ grantSeq \in Nat /\ grantSeq' \in Nat /\ grantSeq <= grantSeq'
  BY <1>1, EventFields, InvFields DEF Handles
<1>4. e.sid \in Sid /\ p \in Partition /\ e.committed \in Nat
  BY <1>3, FrameFields
<1>5. old \in EntryT /\ Book(old, p, srv.committed, promise) /\ srv.committed[p] \in Nat
  BY <1>4, InvFields
<1>6. c \in Nat /\ c <= srv.committed[p]
  <2>1. e.committed <= srv.committed[p]
    BY <1>3, InvFields DEF Ties, Frames, Grants
  <2> QED
    BY <1>4, <1>5, <2>1, EntryFields DEF Highest, Book
<1> HIDE DEF c, kept
<1>7. entry.grant = grantSeq + 1 /\ entry.watermark = c /\ entry.sid = e.sid
  OBVIOUS
<1> HIDE DEF entry
<1>8. \A sid \in Sid : \/ sid = e.sid /\ ix[sid] = p
                       \/ sid # e.sid /\ ix[sid] \in {None, index[sid]}
  BY <1>4, InvFields DEF IndexT, Unrouted
<1> HIDE DEF ix
<1>9. CASE state = "closing" /\ ~HasPendingWork(to.entries)
  <2>1. Terminate("closed", resolved)
    BY <1>1, <1>9 DEF Finish
  <2> QED
    BY <1>1, <1>3, <2>1, ThroughTiles
<1>10. CASE ~(state = "closing" /\ ~HasPendingWork(to.entries))
  <2>1. entries' = to.entries /\ index' = ix /\ srv' = srv /\ inbox' = Tail(inbox)
    BY <1>1, <1>2, <1>10 DEF Finish
  <2>2. entries'[p] = entry /\ \A q \in Partition : q # p => entries'[q] = entries[q]
    BY <1>2, <1>4, <2>1, InvFields DEF EntriesT
  <2>3. /\ FirstReads(delivered, chunks, srv.committed) /\ Disjoint(S)
        /\ Filled(entries, S, srv.committed) /\ Ahead(entries, index, inbox, srv, S)
        /\ Fed(inbox, srv) /\ Stamped(entries, S, grantSeq)
    BY DEF TileInv, Tiles
  <2>4. S \in SUBSET MessageT
    BY InvFields, LenProperties, TakenTyped DEF Everything
  <2>5. /\ \A m \in S : m.grant \in Nat /\ m.grant <= grantSeq
        /\ \A q \in Partition : entries[q].grant \in Nat /\ entries[q].grant <= grantSeq
    BY <2>3, <2>4, InvFields DEF MessageT, Stamped, EntryT
  <2> HIDE DEF S
  <2>6. Filled(entries', S, srv.committed)
    <3> SUFFICES ASSUME NEW q \in Partition, entries'[q].state \in Held,
                        NEW o \in Nat, o < entries'[q].watermark
                 PROVE  o < srv.committed[q] \/ Acked(S, q, entries'[q].grant, o)
      BY DEF Filled
    <3>1. CASE q = p
      BY <1>5, <1>6, <1>7, <2>2, <3>1
    <3>2. CASE q # p
      BY <2>2, <2>3, <3>2 DEF Filled
    <3> QED
      BY <3>1, <3>2
  <2>7. /\ Ordered(inbox') /\ \A f \in Range(inbox') : f \in Range(inbox)
    BY <1>3, <2>1, RestTiles
  <2>8. Fed(inbox', srv')
    BY <2>1, <2>3, <2>7 DEF Fed
  <2>9. Ahead(entries', index', inbox', srv', S)
    <3> SUFFICES ASSUME NEW sid \in Sid, index'[sid] # None, NEW m \in S,
                        m.partition = index'[sid], m.grant = entries'[index'[sid]].grant
                 PROVE  /\ m.offset < entries'[index'[sid]].watermark
                        /\ \A f \in Range(inbox') :
                             f.type = "read" /\ f.sid = sid => m.offset < f.offset
                        /\ srv'.conn = "up" /\ Live(srv'.sess[sid]) =>
                             m.offset < srv'.sess[sid].pos
      BY DEF Ahead
    <3>1. index'[sid] # p
      <4>1. entries'[p].grant = grantSeq + 1 /\ m.grant < grantSeq + 1 /\ m.grant \in Nat
        BY <1>3, <1>7, <2>2, <2>5
      <4> QED
        BY <1>3, <4>1
    <3>2. index'[sid] = index[sid] /\ index[sid] \in Partition
      BY <1>8, <2>1, <3>1, InvFields DEF IndexT
    <3>3. entries'[index'[sid]] = entries[index[sid]]
      BY <2>2, <3>1, <3>2
    <3> QED
      BY <2>1, <2>3, <2>7, <3>2, <3>3 DEF Ahead
  <2>10. Stamped(entries', S, grantSeq')
    <3>1. \A m \in S : m.grant <= grantSeq'
      BY <1>1, <1>3, <2>5
    <3>2. \A q \in Partition : entries'[q].grant <= grantSeq'
      <4> SUFFICES ASSUME NEW q \in Partition PROVE entries'[q].grant <= grantSeq'
        OBVIOUS
      <4>1. CASE q = p
        BY <1>1, <1>3, <1>7, <2>2, <4>1
      <4>2. CASE q # p
        BY <1>1, <1>3, <2>2, <2>5, <4>2
      <4> QED
        BY <4>1, <4>2
    <3>3. ASSUME NEW q \in Partition, NEW r \in Partition, entries'[q].state \in Held,
                 entries'[r].state \in Held, entries'[q].grant = entries'[r].grant
          PROVE  q = r
      <4>1. \A i \in Partition : i # p => entries'[i].grant < grantSeq + 1
        BY <1>3, <2>2, <2>5
      <4>2. entries'[p].grant = grantSeq + 1 /\ ~(grantSeq + 1 < grantSeq + 1)
        BY <1>3, <1>7, <2>2
      <4>3. CASE q = p \/ r = p
        BY <3>3, <4>1, <4>2, <4>3
      <4>4. CASE q # p /\ r # p
        BY <2>2, <2>3, <3>3, <4>4 DEF Stamped
      <4> QED
        BY <4>3, <4>4
    <3> QED
      BY <3>1, <3>2, <3>3 DEF Stamped
  <2>11. Taken(delivered', chunks', Len(chunks')) = S
    BY <1>1 DEF S, Everything
  <2> QED
    BY <1>1, <2>1, <2>3, <2>6, <2>7, <2>8, <2>9, <2>10, <2>11 DEF TilesKept, Tiles
<1> QED
  BY <1>9, <1>10

\* What collectMessages() makes of a response: its range begins where the last one ended, and
\* nothing of its grant was at or behind it.
LEMMA ReadTiles ==
  ASSUME ReaderInv, TileInv, Keeps, HandleRead PROVE TilesKept
<1> DEFINE p == PartitionOf(Event.sid)
           wanted == /\ p # None
                     /\ entries[p].sid = Event.sid
                     /\ entries[p].state \notin {"stopped", "ended"}
           w == entries[p].watermark
           g == entries[p].grant
           o == Event.offset
           from == RangeStart(entries[p], o)
           n == [partition |-> p, grant |-> g, offset |-> o, from |-> from]
           x == IF wanted THEN {n} ELSE {}
           last == Len(chunks)
           S == Everything
           com == srv.committed
<1>1. /\ Handles(Streaming, "read") /\ inbox # << >> /\ inbox' = Tail(inbox)
      /\ chunks' = Append(chunks, x)
      /\ entries' = IF wanted THEN [entries EXCEPT ![p].watermark = Highest(w, o + 1)]
                    ELSE entries
      /\ UNCHANGED <<index, grantSeq, srv, delivered>>
  BY DEF HandleRead, Handles
<1>2. Event.sid \in Sid /\ o \in Offset /\ o \in Nat /\ Event \in Range(inbox)
      /\ Event.type = "read" /\ Event = Head(inbox)
  BY <1>1, EventFields, FrameKinds, ReaderAssumption DEF Offset, Event
<1>3. /\ chunks \in Seq(SUBSET MessageT) /\ delivered \in SUBSET MessageT /\ last \in Nat
      /\ inbox \in Seq(FrameT) /\ S \in SUBSET MessageT
  BY InvFields, LenProperties, TakenTyped DEF Everything
<1>4. /\ FirstReads(delivered, chunks, com) /\ Disjoint(S)
      /\ Filled(entries, S, com) /\ Ahead(entries, index, inbox, srv, S)
      /\ Fed(inbox, srv) /\ Stamped(entries, S, grantSeq) /\ Ordered(inbox)
  BY DEF TileInv, Tiles
<1>5. /\ Ordered(inbox') /\ (\A f \in Range(inbox') : f \in Range(inbox))
      /\ \A f \in Range(inbox') : f.type = "read" /\ f.sid = Event.sid => o < f.offset
  BY <1>1, <1>2, <1>3, <1>4, RestTiles, OrderedTail
<1>6. ASSUME wanted
      PROVE  /\ p \in Partition /\ entries[p].state \in Held /\ w \in Nat /\ g \in Nat
             /\ from \in Nat /\ from <= o /\ (from = w \/ from = o) /\ from <= w
             /\ n \in MessageT
  <2>1. p \in Partition /\ entries[p].state \in Held
    BY <1>2, <1>6, InvFields DEF PartitionOf, IndexT, Registered
  <2>2. w \in Nat /\ g \in Nat
    BY <2>1, InvFields DEF EntryT
  <2>3. from = IF w < o THEN w ELSE o
    BY DEF RangeStart
  <2> HIDE DEF from, o, w, g
  <2>4. from \in Nat /\ from <= o /\ (from = w \/ from = o) /\ from <= w
    BY <1>2, <2>2, <2>3
  <2>5. n \in MessageT
    BY <1>2, <2>1, <2>2, <2>4 DEF MessageT
  <2> QED
    BY <2>1, <2>2, <2>4, <2>5
<1>7. /\ n.partition = p /\ n.grant = g /\ n.offset = o /\ n.from = from
  OBVIOUS
<1>8. x \in SUBSET MessageT /\ (wanted => x = {n}) /\ (~wanted => x = {})
  BY <1>6
<1> HIDE DEF x, n
<1>9. /\ Len(chunks') = last + 1
      /\ \A i \in 0 .. last : Taken(delivered', chunks', i) = Taken(delivered, chunks, i)
      /\ Taken(delivered', chunks', Len(chunks')) = S \cup x
  <2>1. chunks \in Seq(SUBSET MessageT) /\ x \in SUBSET MessageT
    BY <1>3, <1>8
  <2> HIDE DEF wanted, w, g, o, from, p
  <2>2. /\ Len(Append(chunks, x)) = Len(chunks) + 1
        /\ \A i \in 0 .. Len(chunks) :
             Taken(delivered, Append(chunks, x), i) = Taken(delivered, chunks, i)
        /\ Taken(delivered, Append(chunks, x), Len(chunks) + 1)
             = Taken(delivered, chunks, Len(chunks)) \cup x
    BY <2>1, AppendTaken
  <2> QED
    BY <1>1, <2>2 DEF Everything
<1> HIDE DEF S, last
<1>10. CASE ~wanted
  <2>1. x = {} /\ entries' = entries /\ S \cup x = S
    BY <1>1, <1>8, <1>10
  <2>2. \A i \in 0 .. last : Tiled(Taken(delivered, chunks, i), com)
    BY <1>4 DEF FirstReads, last
  <2>3. Tiled(S, com)
    <3>1. last \in 0 .. last
      BY <1>3
    <3> QED
      BY <2>2, <3>1 DEF S, Everything, last
  <2>4. FirstReads(delivered', chunks', srv'.committed)
    <3>1. \A i \in 0 .. last + 1 : i \in 0 .. last \/ i = last + 1
      BY <1>3
    <3> QED
      BY <1>1, <1>9, <2>1, <2>2, <2>3, <3>1 DEF FirstReads
  <2>5. Fed(inbox', srv) /\ Ahead(entries, index, inbox', srv, S)
    BY <1>4, <1>5 DEF Fed, Ahead
  <2> QED
    BY <1>1, <1>4, <1>5, <1>9, <2>1, <2>4, <2>5 DEF TilesKept, Tiles
<1>11. CASE wanted
  <2> DEFINE T == S \cup {n}
             f == [entries[p] EXCEPT !.watermark = Highest(w, o + 1)]
  <2>1. /\ p \in Partition /\ entries[p].state \in Held /\ w \in Nat /\ g \in Nat
        /\ from \in Nat /\ from <= o /\ (from = w \/ from = o) /\ from <= w /\ n \in MessageT
        /\ x = {n} /\ index[Event.sid] = p /\ p # None /\ entries[p] \in EntryT
    BY <1>6, <1>8, <1>11, InvFields DEF PartitionOf
  <2>2. ASSUME NEW m \in S, m.partition = p, m.grant = g
        PROVE  m.offset \in Nat /\ m.offset < w /\ m.offset < o
    <3>1. m.offset < w /\ m.offset < o
      BY <1>2, <1>4, <2>1, <2>2 DEF Ahead
    <3>2. m.offset \in Nat
      BY <1>3, ReaderAssumption DEF MessageT, Offset
    <3> QED
      BY <3>1, <3>2
  <2>3. /\ entries'[p] = f /\ \A q \in Partition : q # p => entries'[q] = entries[q]
    BY <1>1, <1>11, <2>1, InvFields DEF EntriesT
  <2>4. f.grant = g /\ f.state = entries[p].state /\ f.watermark = Highest(w, o + 1)
    BY <2>1 DEF EntryT
  <2> HIDE DEF f, from, o, g, p, com
  <2>5. Disjoint(T)
    <3> SUFFICES ASSUME NEW l \in T, NEW m \in T, l.partition = m.partition,
                        l.grant = m.grant, l # m
                 PROVE  l.offset < m.from \/ m.offset < l.from
      BY DEF Disjoint
    <3>1. CASE l \in S /\ m \in S
      BY <1>4, <3>1 DEF Disjoint
    <3>2. ASSUME NEW i \in S, i.partition = p, i.grant = g PROVE i.offset < n.from
      <4>1. i.offset \in Nat /\ i.offset < w /\ i.offset < o
        BY <2>2, <3>2
      <4> QED
        BY <1>7, <2>1, <4>1
    <3>3. CASE l = n \/ m = n
      BY <1>7, <3>2, <3>3
    <3> QED
      BY <3>1, <3>3
  <2>6. \A i \in Nat : i < from => i < com[p] \/ Acked(S, p, g, i)
    <3> SUFFICES ASSUME NEW i \in Nat, i < from PROVE i < com[p] \/ Acked(S, p, g, i)
      OBVIOUS
    <3>1. i < w
      BY <2>1
    <3> QED
      BY <1>4, <2>1, <3>1 DEF Filled, g, com
  <2>7. \A q, h, i : Acked(S, q, h, i) => Acked(T, q, h, i)
    BY DEF Acked
  <2>8. \A i \in Nat : i <= o => i < com[p] \/ Acked(T, p, g, i)
    <3> SUFFICES ASSUME NEW i \in Nat, i <= o PROVE i < com[p] \/ Acked(T, p, g, i)
      OBVIOUS
    <3>1. CASE i < from
      BY <2>6, <2>7, <3>1
    <3>2. CASE from <= i
      BY <1>7, <3>2 DEF Acked
    <3> QED
      BY <2>1, <3>1, <3>2
  <2>9. \A i \in 0 .. last : Tiled(Taken(delivered, chunks, i), com)
    BY <1>4 DEF FirstReads, last
  <2>10. Tiled(T, com)
    <3>1. Tiled(S, com)
      <4>1. last \in 0 .. last
        BY <1>3
      <4> QED
        BY <2>9, <4>1 DEF S, Everything, last
    <3> SUFFICES ASSUME NEW m \in T, NEW i \in Nat, i <= m.offset
                 PROVE  i < com[m.partition] \/ Acked(T, m.partition, m.grant, i)
      BY DEF Tiled
    <3>2. CASE m \in S
      BY <2>7, <3>1, <3>2 DEF Tiled
    <3>3. CASE m = n
      BY <1>7, <2>8, <3>3
    <3> QED
      BY <3>2, <3>3
  <2>11. FirstReads(delivered', chunks', com)
    <3>1. \A i \in 0 .. last + 1 : i \in 0 .. last \/ i = last + 1
      BY <1>3
    <3>2. Taken(delivered', chunks', last + 1) = T
      BY <1>9, <2>1
    <3> QED
      BY <1>9, <2>9, <2>10, <3>1, <3>2 DEF FirstReads
  <2>12. Filled(entries', T, com)
    <3> SUFFICES ASSUME NEW q \in Partition, entries'[q].state \in Held,
                        NEW i \in Nat, i < entries'[q].watermark
                 PROVE  i < com[q] \/ Acked(T, q, entries'[q].grant, i)
      BY DEF Filled
    <3>1. CASE q = p
      <4>1. i < w \/ i <= o
        BY <1>2, <2>1, <2>3, <2>4, <3>1 DEF Highest, o
      <4>2. i < w => i < com[p] \/ Acked(S, p, g, i)
        BY <1>4, <2>1 DEF Filled, g, com
      <4> QED
        BY <2>3, <2>4, <2>7, <2>8, <3>1, <4>1, <4>2
    <3>2. CASE q # p
      BY <1>4, <2>3, <2>7, <3>2 DEF Filled, com
    <3> QED
      BY <3>1, <3>2
  <2>13. Ahead(entries', index, inbox', srv, T)
    <3> SUFFICES ASSUME NEW sid \in Sid, index[sid] # None, NEW m \in T,
                        m.partition = index[sid], m.grant = entries'[index[sid]].grant
                 PROVE  /\ m.offset < entries'[index[sid]].watermark
                        /\ \A r \in Range(inbox') :
                             r.type = "read" /\ r.sid = sid => m.offset < r.offset
                        /\ srv.conn = "up" /\ Live(srv.sess[sid]) =>
                             m.offset < srv.sess[sid].pos
      BY DEF Ahead
    <3>1. index[sid] \in Partition
      BY InvFields DEF IndexT
    <3>2. CASE index[sid] # p
      <4>1. m \in S /\ entries'[index[sid]] = entries[index[sid]]
        BY <1>7, <2>3, <3>1, <3>2
      <4> QED
        BY <1>4, <1>5, <4>1 DEF Ahead
    <3>3. CASE index[sid] = p
      <4>1. sid = Event.sid
        <5>1. entries[p].sid = sid /\ entries[p].sid = Event.sid
          BY <1>2, <2>1, <3>3, InvFields DEF Registered
        <5> QED
          BY <5>1
      <4>2. m.grant = g /\ entries'[p].watermark = Highest(w, o + 1)
        BY <2>3, <2>4, <3>3
      <4>3. CASE m \in S
        <5>1. m.offset \in Nat /\ m.offset < w
          BY <2>2, <3>3, <4>2, <4>3
        <5>2. m.offset < Highest(w, o + 1)
          BY <1>2, <2>1, <5>1 DEF Highest, o
        <5>3. /\ \A r \in Range(inbox') :
                   r.type = "read" /\ r.sid = sid => m.offset < r.offset
              /\ srv.conn = "up" /\ Live(srv.sess[sid]) => m.offset < srv.sess[sid].pos
          BY <1>4, <1>5, <3>3, <4>2, <4>3 DEF Ahead, g
        <5> QED
          BY <3>3, <4>2, <5>2, <5>3
      <4>4. CASE m = n
        <5>1. o < Highest(w, o + 1)
          BY <1>2, <2>1 DEF Highest, o
        <5>2. srv.conn = "up" /\ Live(srv.sess[sid]) => o < srv.sess[sid].pos
          BY <1>2, <1>4, <4>1 DEF Fed, o
        <5> QED
          BY <1>5, <1>7, <3>3, <4>1, <4>2, <4>4, <5>1, <5>2 DEF o
      <4> QED
        BY <4>3, <4>4
    <3> QED
      BY <3>2, <3>3
  <2>14. Fed(inbox', srv)
    BY <1>4, <1>5 DEF Fed
  <2>15. Stamped(entries', T, grantSeq)
    <3>1. \A q \in Partition : /\ entries'[q].grant = entries[q].grant
                               /\ entries'[q].state = entries[q].state
      BY <2>3, <2>4 DEF g
    <3>2. n.grant <= grantSeq
      BY <1>4, <1>7, <2>1 DEF Stamped, g
    <3> QED
      BY <1>4, <3>1, <3>2 DEF Stamped
  <2>16. Taken(delivered', chunks', Len(chunks')) = T
    BY <1>9, <2>1
  <2> QED
    BY <1>1, <1>5, <2>5, <2>11, <2>12, <2>13, <2>14, <2>15, <2>16 DEF TilesKept, Tiles, com
<1> QED
  BY <1>10, <1>11

LEMMA TileStep ==
  ASSUME ReaderInv, TileInv, [Next]_vars PROVE TilesKept
<1>1. CASE UNCHANGED vars
  <2>1. UNCHANGED <<entries, srv, index, inbox, grantSeq, delivered, chunks>>
    BY <1>1 DEF vars, machineVars, facadeVars
  <2> QED
    BY <2>1 DEF TilesKept, TileInv, Everything
<1>2. CASE Next
  <2>1. Keeps
    BY <1>2, NextKeeps
  <2>2. CASE Handle
    BY <2>1, <2>2, InitTiles, DisconnectedTiles, StartTiles, ForcedStopTiles, GracefulStopTiles,
       CommitResponseTiles, ReadTiles, EndTiles, DropTiles, CommitTiles DEF Handle
  <2>3. CASE StartHookReturns \/ StopHookReturns
    BY <2>1, <2>3, StartHookTiles, StopHookTiles
  <2> QED
    BY <1>2, <2>1, <2>2, <2>3, ServerTiles, TimersTiles, FacadeTiles DEF Next
<1> QED
  BY <1>1, <1>2

LEMMA TileStart == Init => TileInv
<1> SUFFICES ASSUME Init PROVE TileInv
  OBVIOUS
<1>1. /\ entries = [p \in Partition |-> Absent] /\ index = NoIndex /\ inbox = << >>
      /\ chunks = << >> /\ delivered = {} /\ srv.conn = "opened" /\ grantSeq = 0
  BY DEF Init
<1>2. \A i \in 0 .. Len(chunks) : Taken(delivered, chunks, i) = {}
  <2>1. Len(chunks) = 0
    BY <1>1
  <2>2. ASSUME NEW i \in 0 .. Len(chunks) PROVE Taken(delivered, chunks, i) = {}
    <3>1. 1 .. i = {}
      BY <2>1
    <3> QED
      BY <1>1, <3>1 DEF Taken
  <2> QED
    BY <2>2
<1>3. Everything = {}
  BY <1>1, <1>2 DEF Everything
<1>4. FirstReads(delivered, chunks, srv.committed)
  BY <1>2 DEF FirstReads, Tiled
<1>5. \A p \in Partition : entries[p].state \notin Held /\ entries[p].grant = 0
  BY <1>1 DEF Absent, Held
<1>6. Filled(entries, {}, srv.committed) /\ Stamped(entries, {}, grantSeq) /\ Disjoint({})
  BY <1>1, <1>5 DEF Filled, Stamped, Disjoint
<1>7. Ahead(entries, index, inbox, srv, {}) /\ Ordered(inbox) /\ Fed(inbox, srv)
  BY <1>1 DEF Ahead, Ordered, Fed, Range
<1> QED
  BY <1>3, <1>4, <1>6, <1>7 DEF TileInv, Tiles

\* What has been read is tiled, whatever still waits for read().
LEMMA TilesShow == ReaderInv /\ TileInv => RangesTile
<1> SUFFICES ASSUME ReaderInv, TileInv, NEW m \in delivered
             PROVE  LET same == {n \in delivered : n.partition = m.partition
                                                   /\ n.grant = m.grant}
                    IN /\ \A o \in 0 .. m.offset : o < srv.committed[m.partition]
                                                   \/ \E n \in same : o \in n.from .. n.offset
                       /\ \A n \in same \ {m} : (n.from .. n.offset) \cap (m.from .. m.offset) = {}
  BY DEF RangesTile
<1>1. Len(chunks) \in Nat /\ delivered \subseteq MessageT
  BY InvFields, LenProperties
<1>2. \A n \in delivered : n.from \in Nat /\ n.offset \in Nat
  BY <1>1, ReaderAssumption DEF MessageT, Offset
<1>3. Taken(delivered, chunks, 0) = delivered
  <2>1. 1 .. 0 = {}
    OBVIOUS
  <2> QED
    BY <2>1 DEF Taken
<1>4. Tiled(delivered, srv.committed)
  <2>1. 0 \in 0 .. Len(chunks)
    BY <1>1
  <2> QED
    BY <1>3, <2>1 DEF TileInv, FirstReads
<1>5. Disjoint(delivered)
  <2>1. delivered \subseteq Everything /\ Disjoint(Everything)
    BY DEF TileInv, Tiles, Everything, Taken
  <2> QED
    BY <2>1 DEF Disjoint
<1>6. ASSUME NEW o \in 0 .. m.offset
      PROVE  \/ o < srv.committed[m.partition]
             \/ \E n \in delivered : /\ n.partition = m.partition /\ n.grant = m.grant
                                     /\ o \in n.from .. n.offset
  <2>1. o \in Nat /\ o <= m.offset
    BY <1>2
  <2>2. o < srv.committed[m.partition] \/ Acked(delivered, m.partition, m.grant, o)
    BY <1>4, <2>1 DEF Tiled
  <2>3. \A n \in delivered : n.from <= o /\ o <= n.offset => o \in n.from .. n.offset
    BY <1>2, <2>1
  <2> QED
    BY <2>2, <2>3 DEF Acked
<1>7. ASSUME NEW n \in delivered, n.partition = m.partition, n.grant = m.grant, n # m
      PROVE  (n.from .. n.offset) \cap (m.from .. m.offset) = {}
  <2>1. n.offset < m.from \/ m.offset < n.from
    BY <1>5, <1>7 DEF Disjoint
  <2> QED
    BY <1>2, <2>1
<1> QED
  BY <1>6, <1>7

\* To acknowledge every message of a session is to acknowledge every offset, and none of them
\* twice: the ranges of the messages read() has yielded leave nothing out behind the committed
\* offset and overlap nowhere, across holes, commits, stops and reconnects.
THEOREM RangesTileHolds == Spec => []RangesTile
<1>1. ReaderInv /\ TileInv /\ [Next]_vars => TileInv'
  <2> SUFFICES ASSUME ReaderInv, TileInv, [Next]_vars PROVE TileInv'
    OBVIOUS
  <2>1. TilesKept
    BY TileStep
  <2> QED
    BY <2>1 DEF TilesKept, TileInv, Everything
<1> QED
  BY <1>1, TileStart, TilesShow, ReaderConsistent, PTL DEF Spec
=============================================================================
