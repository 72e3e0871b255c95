-------------------------- MODULE Assembly_proofs --------------------------
(***************************************************************************)
(* Theorems about Chunking and Assembly, for every text, every list of     *)
(* separators and every chunk size and overlap.                            *)
(***************************************************************************)
EXTENDS Assembly, SequenceTheorems, WellFoundedInduction, TLAPS

\* What the calls under way cover: each its own slice of its caller's.
FramesInv ==
    /\ \A i \in 1 .. Len(frames) : at <= frames[i].end /\ frames[i].end <= text.length
    /\ \A i, j \in 1 .. Len(frames) : i < j => frames[j].end <= frames[i].end
    /\ frames # <<>> => frames[1].end = text.length
    /\ frames = <<>> => at = text.length /\ start = -1
    /\ start # -1 => start < at /\ at - start <= chunk_size

\* The windows and the one under way reach from the beginning to `at`.
EndOf(s) == IF s = <<>> THEN 0 ELSE s[Len(s)].end

TileInv ==
    /\ Follow(windows, 0)
    /\ \A i \in DOMAIN windows :
          /\ windows[i].start < windows[i].end
          /\ windows[i].end - windows[i].start <= chunk_size
          /\ windows[i].end \in 0 .. at
    /\ EndOf(windows) = (IF start = -1 THEN at ELSE start)

\* _add_overlap has made one chunk of every window it has seen.
ChunksInv ==
    /\ frames # <<>> => next = 1
    /\ next = Len(chunks) + 1 /\ Len(chunks) <= Len(windows)
    /\ \A i \in 1 .. Len(chunks) :
          /\ chunks[i].end = windows[i].end
          /\ chunks[i].start = (IF i = 1 THEN 0
                                ELSE Largest(0, windows[i - 1].end - chunk_overlap))

SplitInv == ChunkingTypeOK /\ FramesInv /\ TileInv /\ ChunksInv

-----------------------------------------------------------------------------
(* The inductive invariant of the chunker.                                  *)

LEMMA InitSplit == ChunkingInit => SplitInv
<1> SUFFICES ASSUME ChunkingInit PROVE SplitInv
  OBVIOUS
<1>1. IsText(text) /\ text.length \in Nat
  BY ChunkingAssumption DEF ChunkingInit, IsText
<1>2. chunk_size \in Nat \ {0} /\ chunk_overlap \in 0 .. chunk_size - 1
  <2>1. PICK s \in Sizes : chunk_size = s[1] /\ chunk_overlap = s[2]
    BY DEF ChunkingInit
  <2> QED BY <2>1, ChunkingAssumption
<1>3. /\ frames \in Seq([separator : 1 .. Separators, end : Nat])
      /\ \A i \in 1 .. Len(frames) : frames[i].end = text.length
      /\ frames = <<>> => text.length = 0
      /\ frames # <<>> => Len(frames) = 1
  <2>1. CASE text.length = 0
    BY <2>1 DEF ChunkingInit
  <2>2. CASE text.length # 0
    <3>1. PICK l \in 1 .. Separators : frames = <<[separator |-> l, end |-> text.length]>>
      BY <2>2 DEF ChunkingInit
    <3>2. [separator |-> l, end |-> text.length] \in [separator : 1 .. Separators, end : Nat]
      BY <1>1
    <3> QED BY <3>1, <3>2
  <2> QED BY <2>1, <2>2
<1>4. at = 0 /\ start = -1 /\ windows = <<>> /\ next = 1 /\ chunks = <<>>
  BY DEF ChunkingInit
<1>5. ChunkingTypeOK
  BY <1>1, <1>2, <1>3, <1>4 DEF ChunkingTypeOK
<1>6. FramesInv
  BY <1>1, <1>3, <1>4 DEF FramesInv
<1>7. TileInv
  BY <1>4 DEF TileInv, Follow, EndOf
<1>8. ChunksInv
  BY <1>4 DEF ChunksInv
<1> QED BY <1>5, <1>6, <1>7, <1>8 DEF SplitInv

\* The frame on top of the stack.
LEMMA TopType ==
  ASSUME ChunkingTypeOK, frames # <<>>
  PROVE  Len(frames) \in 1 .. Len(frames) /\ Top \in [separator : 1 .. Separators, end : Nat]
<1>1. frames \in Seq([separator : 1 .. Separators, end : Nat])
  BY DEF ChunkingTypeOK
<1>2. Len(frames) \in Nat \ {0}
  BY <1>1, EmptySeq
<1>3. Len(frames) \in 1 .. Len(frames)
  BY <1>2
<1>4. frames[Len(frames)] \in [separator : 1 .. Separators, end : Nat]
  BY ONLY <1>1, <1>3, ElementOfSeq
<1> QED BY <1>3, <1>4 DEF Top

\* Completing the window under way keeps the tiling.
LEMMA FlushedTiles ==
  ASSUME SplitInv
  PROVE  /\ Flushed \in Seq(Spans)
         /\ Follow(Flushed, 0)
         /\ \A i \in DOMAIN Flushed :
               /\ Flushed[i].start < Flushed[i].end
               /\ Flushed[i].end - Flushed[i].start <= chunk_size
               /\ Flushed[i].end \in 0 .. at
         /\ EndOf(Flushed) = at
         /\ chunks = <<>> => Len(chunks) <= Len(Flushed)
<1>1. CASE start = -1
  BY <1>1 DEF Flushed, SplitInv, TileInv, ChunkingTypeOK, ChunksInv, FramesInv
<1>2. CASE start # -1
  <2> DEFINE w == [start |-> start, end |-> at]
  <2>1. w \in Spans /\ w.start = start /\ w.end = at /\ start < at /\ at - start <= chunk_size
    BY <1>2 DEF SplitInv, ChunkingTypeOK, FramesInv, Spans, IsText
  <2>2. Flushed = Append(windows, w) /\ windows \in Seq(Spans) /\ EndOf(windows) = start
    BY <1>2 DEF Flushed, SplitInv, TileInv, ChunkingTypeOK
  <2>3. /\ Flushed \in Seq(Spans) /\ Len(windows) \in Nat
        /\ Len(Flushed) = Len(windows) + 1 /\ Flushed[Len(windows) + 1] = w
        /\ \A i \in 1 .. Len(windows) : Flushed[i] = windows[i]
    BY <2>1, <2>2
  <2>4. at \in Nat /\ DOMAIN Flushed = 1 .. Len(Flushed) /\ DOMAIN windows = 1 .. Len(windows)
    BY <2>2, <2>3 DEF SplitInv, ChunkingTypeOK
  <2>5. ASSUME NEW i \in DOMAIN Flushed
        PROVE  /\ Flushed[i].start = (IF i = 1 THEN 0 ELSE Flushed[i - 1].end)
               /\ Flushed[i].start < Flushed[i].end
               /\ Flushed[i].end - Flushed[i].start <= chunk_size
               /\ Flushed[i].end \in 0 .. at
    <3>1. CASE i \in 1 .. Len(windows)
      <4>1. i = 1 \/ i - 1 \in 1 .. Len(windows)
        BY <2>3, <3>1
      <4> QED BY <2>3, <2>4, <3>1, <4>1 DEF SplitInv, TileInv, Follow
    <3>2. CASE i = Len(windows) + 1
      <4>1. i = 1 => windows = <<>>
        BY <2>2, <2>3, <3>2, EmptySeq
      <4>2. i # 1 => i - 1 \in 1 .. Len(windows) /\ i - 1 = Len(windows) /\ windows # <<>>
        BY <2>2, <2>3, <3>2
      <4>3. start = (IF i = 1 THEN 0 ELSE Flushed[i - 1].end)
        BY <2>2, <2>3, <4>1, <4>2 DEF EndOf
      <4> QED BY <2>1, <2>3, <2>4, <3>2, <4>3
    <3> QED BY <2>3, <2>4, <3>1, <3>2
  <2>6. EndOf(Flushed) = at
    BY <2>1, <2>3 DEF EndOf
  <2>7. chunks = <<>> => Len(chunks) <= Len(Flushed)
    BY <2>3
  <2> QED BY <2>3, <2>5, <2>6, <2>7 DEF Follow
<1> QED BY <1>1, <1>2

\* What the innermost call has still to cut, its callers have too.
LEMMA FramesNest ==
  ASSUME ChunkingTypeOK, FramesInv, frames # <<>>
  PROVE  /\ Top.end \in Nat /\ Top.end <= text.length /\ at <= Top.end
         /\ \A i \in 1 .. Len(frames) :
               frames[i].end \in Nat /\ Top.end <= frames[i].end
<1>1. Len(frames) \in 1 .. Len(frames) /\ Top = frames[Len(frames)] /\ Top.end \in Nat
  BY TopType DEF Top
<1>2. ASSUME NEW i \in 1 .. Len(frames)
      PROVE  frames[i].end \in Nat /\ Top.end <= frames[i].end
  <2>1. frames[i] \in [separator : 1 .. Separators, end : Nat]
    BY ElementOfSeq DEF ChunkingTypeOK
  <2>2. i = Len(frames) \/ i < Len(frames)
    BY <1>1
  <2> QED BY <1>1, <2>1, <2>2 DEF FramesInv
<1> QED BY <1>1, <1>2 DEF FramesInv

\* No chunk is made while windows are.
LEMMA NoChunksYet ==
  ASSUME ChunkingTypeOK, ChunksInv, frames # <<>>
  PROVE  next = 1 /\ Len(chunks) = 0 /\ chunks = <<>>
<1>1. chunks \in Seq(Spans)
  BY DEF ChunkingTypeOK
<1>2. Len(chunks) = 0
  BY <1>1, LenProperties DEF ChunksInv
<1> QED BY <1>1, <1>2, EmptySeq DEF ChunksInv

\* The steps of _build_windows.
LEMMA ExtendSplit == SplitInv /\ ExtendWindow => SplitInv'
<1> SUFFICES ASSUME SplitInv, ExtendWindow PROVE SplitInv'
  OBVIOUS
<1>1. PICK e \in 1 .. text.length : NextPiece(e) /\ Fits(e) /\ at' = e
  BY DEF ExtendWindow
<1>2. UNCHANGED <<frames, start, windows, next, chunks, text, chunk_size, chunk_overlap>>
  BY DEF ExtendWindow, chunkVars, input
<1>3. /\ frames # <<>> /\ at < e /\ e <= Top.end
      /\ start # -1 /\ e - start <= chunk_size
  BY <1>1 DEF NextPiece, IsPiece, Fits
<1>4. text.length \in Nat /\ at \in 0 .. text.length /\ start \in -1 .. text.length
  BY DEF SplitInv, ChunkingTypeOK, IsText
<1>5. ChunkingTypeOK'
  BY <1>1, <1>2 DEF SplitInv, ChunkingTypeOK
<1>6. FramesInv'
  <2>1. \A i \in 1 .. Len(frames) : e <= frames[i].end
    BY <1>3, FramesNest DEF SplitInv
  <2> QED BY <1>1, <1>2, <1>3, <1>4, <2>1 DEF SplitInv, FramesInv
<1>7. TileInv'
  <2>1. 0 .. at \subseteq 0 .. at'
    BY <1>1, <1>3, <1>4
  <2> QED BY <1>2, <1>3, <2>1 DEF SplitInv, TileInv, Follow, EndOf
<1>8. ChunksInv'
  BY <1>2 DEF SplitInv, ChunksInv
<1> QED BY <1>5, <1>6, <1>7, <1>8 DEF SplitInv

LEMMA StartSplit == SplitInv /\ StartWindow => SplitInv'
<1> SUFFICES ASSUME SplitInv, StartWindow PROVE SplitInv'
  OBVIOUS
<1>1. PICK e \in 1 .. text.length :
         NextPiece(e) /\ e - at <= chunk_size /\ windows' = Flushed /\ start' = at /\ at' = e
  BY DEF StartWindow
<1>2. UNCHANGED <<frames, next, chunks, text, chunk_size, chunk_overlap>>
  BY DEF StartWindow, chunkVars, input
<1>3. frames # <<>> /\ at < e /\ e <= Top.end
  BY <1>1 DEF NextPiece, IsPiece
<1>4. text.length \in Nat /\ at \in 0 .. text.length
  BY DEF SplitInv, ChunkingTypeOK, IsText
<1>5. ChunkingTypeOK'
  BY <1>1, <1>2, <1>4, FlushedTiles DEF SplitInv, ChunkingTypeOK
<1>6. FramesInv'
  <2>1. \A i \in 1 .. Len(frames) : e <= frames[i].end
    BY <1>3, FramesNest DEF SplitInv
  <2> QED BY <1>1, <1>2, <1>3, <1>4, <2>1 DEF SplitInv, FramesInv
<1>7. TileInv'
  <2>1. 0 .. at \subseteq 0 .. at'
    BY <1>1, <1>3, <1>4
  <2> QED BY <1>1, <1>2, <1>4, <2>1, FlushedTiles DEF TileInv, Follow, EndOf
<1>8. ChunksInv'
  BY <1>1, <1>2, <1>3, NoChunksYet, FlushedTiles DEF SplitInv, ChunksInv
<1> QED BY <1>5, <1>6, <1>7, <1>8 DEF SplitInv

LEMMA ExpandSplit == SplitInv /\ ExpandOversized => SplitInv'
<1> SUFFICES ASSUME SplitInv, ExpandOversized PROVE SplitInv'
  OBVIOUS
<1>1. PICK e \in 1 .. text.length :
         /\ NextPiece(e) /\ windows' = Flushed /\ start' = -1
         /\ \E l \in 1 .. Separators : frames' = Append(frames, [separator |-> l, end |-> e])
  BY DEF ExpandOversized
<1>2. PICK l \in 1 .. Separators : frames' = Append(frames, [separator |-> l, end |-> e])
  BY <1>1
<1>3. UNCHANGED <<at, next, chunks, text, chunk_size, chunk_overlap>>
  BY DEF ExpandOversized, chunkVars, input
<1>4. frames # <<>> /\ at < e /\ e <= Top.end
  BY <1>1 DEF NextPiece, IsPiece
<1>5. text.length \in Nat /\ at \in 0 .. text.length /\ e \in Nat
  BY DEF SplitInv, ChunkingTypeOK, IsText
<1>6. /\ frames \in Seq([separator : 1 .. Separators, end : Nat])
      /\ [separator |-> l, end |-> e] \in [separator : 1 .. Separators, end : Nat]
  BY <1>5 DEF SplitInv, ChunkingTypeOK
<1>7. ChunkingTypeOK'
  BY <1>1, <1>2, <1>3, <1>5, <1>6, FlushedTiles DEF SplitInv, ChunkingTypeOK
<1>8. FramesInv'
  <2>1. \A i \in 1 .. Len(frames) : frames[i].end \in Nat /\ e <= frames[i].end
    BY <1>4, <1>5, FramesNest DEF SplitInv
  <2>2. /\ Len(frames) \in Nat \ {0} /\ Len(frames') = Len(frames) + 1
        /\ \A i \in 1 .. Len(frames) : frames'[i] = frames[i]
        /\ frames'[Len(frames) + 1].end = e
    BY <1>2, <1>4, <1>6, EmptySeq
  <2>3. \A i \in 1 .. Len(frames') : at' <= frames'[i].end /\ frames'[i].end <= text'.length
    BY <1>3, <1>4, <1>5, <2>1, <2>2 DEF SplitInv, FramesInv
  <2>4. \A i, j \in 1 .. Len(frames') : i < j => frames'[j].end <= frames'[i].end
    BY <2>1, <2>2 DEF SplitInv, FramesInv
  <2>5. frames' # <<>> /\ frames'[1].end = text'.length
    BY <1>2, <1>3, <1>4, <1>6, <2>2 DEF SplitInv, FramesInv
  <2> QED BY <1>1, <2>3, <2>4, <2>5 DEF FramesInv
<1>9. TileInv'
  BY <1>1, <1>3, FlushedTiles DEF TileInv, Follow, EndOf
<1>10. ChunksInv'
  <2>1. frames' # <<>>
    BY <1>2, <1>6
  <2> QED BY <1>1, <1>3, <1>4, <2>1, NoChunksYet, FlushedTiles DEF SplitInv, ChunksInv
<1> QED BY <1>7, <1>8, <1>9, <1>10 DEF SplitInv

\* The innermost call has returned.
LEMMA FramesPopped ==
  ASSUME ChunkingTypeOK, frames # <<>>, frames' = SubSeq(frames, 1, Len(frames) - 1)
  PROVE  /\ frames' \in Seq([separator : 1 .. Separators, end : Nat])
         /\ Len(frames') = Len(frames) - 1
         /\ \A i \in 1 .. Len(frames') : frames'[i] = frames[i]
<1>0. /\ frames \in Seq([separator : 1 .. Separators, end : Nat])
      /\ Len(frames) \in Nat \ {0}
  BY EmptySeq DEF ChunkingTypeOK
<1> DEFINE F == [separator : 1 .. Separators, end : Nat]
           n == Len(frames) - 1
<1>1. n \in Nat /\ n = Len(frames) - 1
  BY <1>0
<1>2. ASSUME NEW i \in 1 .. n PROVE frames[i] \in F
  <2>1. i \in 1 .. Len(frames)
    BY <1>1
  <2>2. frames \in Seq(F)
    BY <1>0
  <2> HIDE DEF F
  <2> QED BY ONLY <2>1, <2>2, ElementOfSeq
<1>3. frames' = SubSeq(frames, 1, n)
  OBVIOUS
<1>4. /\ SubSeq(frames, 1, n) \in Seq(F)
      /\ Len(SubSeq(frames, 1, n)) = n
      /\ \A i \in 1 .. n : SubSeq(frames, 1, n)[i] = frames[i]
  <2> HIDE DEF F, n
  <2> QED BY <1>1, <1>2, SubSeqProperties
<1> QED BY <1>1, <1>3, <1>4

LEMMA ReturnSplit == SplitInv /\ ReturnWindows => SplitInv'
<1> SUFFICES ASSUME SplitInv, ReturnWindows PROVE SplitInv'
  OBVIOUS
<1>1. /\ frames # <<>> /\ at = Top.end /\ windows' = Flushed /\ start' = -1
      /\ frames' = SubSeq(frames, 1, Len(frames) - 1)
  BY DEF ReturnWindows
<1>2. UNCHANGED <<at, next, chunks, text, chunk_size, chunk_overlap>>
  BY DEF ReturnWindows, chunkVars, input
<1>3. /\ frames \in Seq([separator : 1 .. Separators, end : Nat])
      /\ Len(frames) \in Nat \ {0}
  BY <1>1, EmptySeq DEF SplitInv, ChunkingTypeOK
<1>4. /\ frames' \in Seq([separator : 1 .. Separators, end : Nat])
      /\ Len(frames') = Len(frames) - 1
      /\ \A i \in 1 .. Len(frames') : frames'[i] = frames[i]
  BY <1>1, FramesPopped DEF SplitInv
<1>5. text.length \in Nat /\ at \in 0 .. text.length
  BY DEF SplitInv, ChunkingTypeOK, IsText
<1>6. ChunkingTypeOK'
  <2>1. windows' \in Seq(Spans)
    BY <1>1, FlushedTiles
  <2>2. start' \in -1 .. text.length
    BY <1>1, <1>5
  <2> QED BY <1>2, <1>4, <2>1, <2>2 DEF SplitInv, ChunkingTypeOK
<1>7. FramesInv'
  <2>0. \A i \in 1 .. Len(frames') : i \in 1 .. Len(frames) /\ frames'[i] = frames[i]
    BY <1>3, <1>4
  <2>1. \A i \in 1 .. Len(frames') : at' <= frames'[i].end /\ frames'[i].end <= text'.length
    BY <1>2, <2>0 DEF SplitInv, FramesInv
  <2>2. \A i, j \in 1 .. Len(frames') : i < j => frames'[j].end <= frames'[i].end
    BY <2>0 DEF SplitInv, FramesInv
  <2>3. frames' # <<>> => frames'[1].end = text'.length
    <3>1. frames' # <<>> => Len(frames') \in Nat \ {0}
      BY <1>4, EmptySeq
    <3> QED BY <1>1, <1>2, <1>4, <3>1 DEF SplitInv, FramesInv
  <2>4. frames' = <<>> => at' = text'.length
    <3>1. frames' = <<>> => Len(frames) = 1
      BY <1>3, <1>4
    <3> QED BY <1>1, <1>2, <3>1 DEF SplitInv, FramesInv, Top
  <2> QED BY <1>1, <2>1, <2>2, <2>3, <2>4 DEF FramesInv
<1>8. TileInv'
  BY <1>1, <1>2, FlushedTiles DEF TileInv, Follow, EndOf
<1>9. ChunksInv'
  BY <1>1, <1>2, NoChunksYet, FlushedTiles DEF SplitInv, ChunksInv
<1> QED BY <1>6, <1>7, <1>8, <1>9 DEF SplitInv

\* The step of _add_overlap.  The window it takes reaches beyond the chunks made
\* so far: its chunk begins where the overlap begins, and is never left out.
LEMMA OverlapSplit == SplitInv /\ AddOverlap => SplitInv'
<1> SUFFICES ASSUME SplitInv, AddOverlap PROVE SplitInv'
  OBVIOUS
<1> DEFINE w == windows[next]
           c == [start |-> OverlapStart(w), end |-> w.end]
<1>1. /\ frames = <<>> /\ next <= Len(windows)
      /\ chunks' = IF Redundant(c) \/ c.start >= c.end THEN chunks ELSE Append(chunks, c)
      /\ next' = next + 1
  BY DEF AddOverlap
<1>2. UNCHANGED <<frames, at, start, windows, text, chunk_size, chunk_overlap>>
  BY DEF AddOverlap, splitVars, input
<1>3. /\ windows \in Seq(Spans) /\ chunks \in Seq(Spans)
      /\ chunk_size \in Nat \ {0} /\ chunk_overlap \in Nat
      /\ next = Len(chunks) + 1 /\ Len(chunks) \in Nat /\ Len(windows) \in Nat
  BY DEF SplitInv, ChunkingTypeOK, ChunksInv
<1>4. next \in 1 .. Len(windows)
  BY <1>1, <1>3
<1>5. w \in Spans /\ w.start < w.end
  <2>1. w \in Spans
    BY ONLY <1>3, <1>4, ElementOfSeq
  <2> QED BY <1>3, <1>4, <2>1 DEF SplitInv, TileInv
<1>6. /\ next = 1 => w.start = 0
      /\ next # 1 => w.start = windows[next - 1].end
  BY <1>3, <1>4 DEF SplitInv, TileInv, Follow
<1>7. /\ c \in Spans /\ chunks' = Append(chunks, c) /\ c.end = w.end
      /\ c.start = (IF next = 1 THEN 0 ELSE Largest(0, windows[next - 1].end - chunk_overlap))
  <2>1. CASE chunks = <<>>
    <3>1. next = 1
      BY <1>3, <2>1
    <3>2. c = [start |-> 0, end |-> w.end] /\ ~Redundant(c)
      BY <1>6, <2>1, <3>1 DEF OverlapStart, Redundant
    <3> QED BY <1>1, <1>5, <3>1, <3>2 DEF Spans
  <2>2. CASE chunks # <<>>
    <3>1. next - 1 = Len(chunks) /\ Len(chunks) \in 1 .. Len(chunks) /\ next # 1
      BY <1>3, <2>2, EmptySeq
    <3>2. LastChunk \in Spans /\ LastChunk.end = w.start
      <4>1. chunks[Len(chunks)] \in Spans
        BY ONLY <1>3, <3>1, ElementOfSeq
      <4> QED BY <1>3, <1>6, <3>1, <4>1 DEF LastChunk, SplitInv, ChunksInv
    <3>3. OverlapStart(w) = Largest(0, w.start - chunk_overlap)
      BY <1>3, <1>5, <2>2, <3>1, <3>2 DEF OverlapStart, PrevEnd, Smallest, Largest, Spans
    <3>4. c.start = Largest(0, w.start - chunk_overlap) /\ c.end = w.end
      BY <3>3
    <3>5. c.start \in Nat /\ c.start < c.end /\ LastChunk.end < c.end
      BY <1>3, <1>5, <3>2, <3>4 DEF Spans, Largest
    <3>6. ~Redundant(c)
      BY <1>5, <3>2, <3>5 DEF Redundant, Spans
    <3> QED BY <1>1, <1>5, <1>6, <3>1, <3>4, <3>5, <3>6 DEF Spans
  <2> QED BY <2>1, <2>2
<1> HIDE DEF w, c
<1>8. /\ chunks' \in Seq(Spans) /\ Len(chunks') = Len(chunks) + 1
      /\ chunks'[Len(chunks) + 1] = c
      /\ \A i \in 1 .. Len(chunks) : chunks'[i] = chunks[i]
  BY <1>3, <1>7
<1>9. ChunkingTypeOK'
  BY <1>1, <1>2, <1>3, <1>8 DEF SplitInv, ChunkingTypeOK
<1>10. FramesInv' /\ TileInv'
  BY <1>2 DEF SplitInv, FramesInv, TileInv, Follow, EndOf
<1>11. ChunksInv'
  <2>1. ASSUME NEW i \in 1 .. Len(chunks')
        PROVE  /\ chunks'[i].end = windows'[i].end
               /\ chunks'[i].start = (IF i = 1 THEN 0
                                      ELSE Largest(0, windows'[i - 1].end - chunk_overlap'))
    <3>1. CASE i = Len(chunks) + 1
      BY <1>2, <1>3, <1>7, <1>8, <3>1 DEF w
    <3>2. CASE i \in 1 .. Len(chunks)
      BY <1>2, <1>8, <3>2 DEF SplitInv, ChunksInv
    <3> QED BY <1>3, <1>8, <3>1, <3>2
  <2> QED BY <1>1, <1>2, <1>3, <1>8, <2>1 DEF ChunksInv
<1> QED BY <1>9, <1>10, <1>11 DEF SplitInv

\* Nothing else is touched while the text is put together.
LEMMA QuietSplit == SplitInv /\ UNCHANGED <<input, splitVars, chunkVars>> => SplitInv'
BY DEF SplitInv, ChunkingTypeOK, FramesInv, TileInv, ChunksInv, Follow, EndOf, Top,
       input, splitVars, chunkVars

LEMMA SplitInvariant == SplitInv /\ [Next]_vars => SplitInv'
<1> SUFFICES ASSUME SplitInv, [Next]_vars PROVE SplitInv'
  OBVIOUS
<1>1. CASE ChunkingNext
  BY <1>1, ExtendSplit, StartSplit, ExpandSplit, ReturnSplit, OverlapSplit DEF ChunkingNext
<1>2. CASE Assemble
  BY <1>2, QuietSplit DEF Assemble
<1>3. CASE UNCHANGED vars
  BY <1>3, QuietSplit DEF vars
<1> QED BY <1>1, <1>2, <1>3 DEF Next, Chunk

-----------------------------------------------------------------------------
(* The text put together.                                                   *)

\* What is put together is the text up to the end of the last chunk read, and
\* nothing is read before the chunks are made.
AsmInv ==
    /\ read \in Nat /\ read <= Len(chunks)
    /\ ~Chunked => read = 0
    /\ cursor = (IF read = 0 THEN 0 ELSE chunks[read].end)
    /\ built = Slice(0, cursor)

IInv == SplitInv /\ AsmInv

\* A slice goes on where another ends.
LEMMA SliceConcat ==
  ASSUME NEW a \in Nat, NEW b \in Nat, a <= b
  PROVE  Slice(0, a) \o Slice(a, b) = Slice(0, b)
<1> DEFINE s == Slice(0, a)
           t == Slice(a, b)
<1>1. /\ s = [i \in 1 .. a |-> 0 + i] /\ t = [i \in 1 .. b - a |-> a + i]
      /\ Slice(0, b) = [i \in 1 .. b |-> 0 + i]
  BY DEF Slice, Largest
<1>2. s \in Seq(Nat) /\ t \in Seq(Nat) /\ Len(s) = a /\ Len(t) = b - a
  BY <1>1
<1>3. /\ s \o t \in Seq(Nat) /\ Len(s \o t) = b
      /\ \A i \in 1 .. b : (s \o t)[i] = IF i <= a THEN s[i] ELSE t[i - a]
  <2> HIDE DEF s, t
  <2>1. a + (b - a) = b
    OBVIOUS
  <2> QED BY <1>2, <2>1, ConcatProperties
<1>4. ASSUME NEW i \in 1 .. b
      PROVE  (IF i <= a THEN s[i] ELSE t[i - a]) = Slice(0, b)[i]
  BY <1>1
<1>5. Slice(0, b) \in Seq(Nat) /\ Len(Slice(0, b)) = b
  BY <1>1
<1> HIDE DEF s, t
<1>6. \A i \in 1 .. b : (s \o t)[i] = Slice(0, b)[i]
  BY <1>3, <1>4
<1>7. s \o t = Slice(0, b)
  BY ONLY <1>3, <1>5, <1>6, SeqEqual
<1> QED BY <1>7 DEF s, t

\* Every chunk has its window, and lies in the text.
LEMMA ChunkType ==
  ASSUME SplitInv, NEW i \in 1 .. Len(chunks)
  PROVE  /\ i \in 1 .. Len(windows)
         /\ chunks[i] \in Spans /\ windows[i] \in Spans
         /\ chunks[i].end <= text.length
         /\ i > 1 => i - 1 \in 1 .. Len(chunks) /\ windows[i - 1] \in Spans
<1>1. /\ windows \in Seq(Spans) /\ chunks \in Seq(Spans)
      /\ Len(chunks) \in Nat /\ Len(windows) \in Nat /\ Len(chunks) <= Len(windows)
      /\ at \in Nat /\ text.length \in Nat /\ at <= text.length
  <2>1. windows \in Seq(Spans) /\ chunks \in Seq(Spans) /\ Len(chunks) <= Len(windows)
    BY DEF SplitInv, ChunkingTypeOK, ChunksInv
  <2>2. at \in Nat /\ text.length \in Nat /\ at <= text.length
    BY DEF SplitInv, ChunkingTypeOK, IsText
  <2> QED BY <2>1, <2>2
<1>2. i \in 1 .. Len(windows) /\ (i > 1 => i - 1 \in 1 .. Len(windows) /\ i - 1 \in 1 .. Len(chunks))
  BY <1>1
<1>3. chunks[i] \in Spans /\ windows[i] \in Spans /\ (i > 1 => windows[i - 1] \in Spans)
  BY ONLY <1>1, <1>2, ElementOfSeq
<1>4. chunks[i].end = windows[i].end /\ windows[i].end \in 0 .. at
  BY <1>1, <1>2 DEF SplitInv, ChunksInv, TileInv
<1>5. chunks[i].end <= text.length
  BY <1>1, <1>4
<1> QED BY <1>2, <1>3, <1>5

LEMMA InitIInv == Init => IInv
<1> SUFFICES ASSUME Init PROVE IInv
  OBVIOUS
<1>1. SplitInv
  BY InitSplit DEF Init
<1>2. read = 0 /\ cursor = 0 /\ built = <<>> /\ chunks = <<>>
  BY DEF Init, ChunkingInit
<1>3. Slice(0, 0) = <<>>
  BY DEF Slice, Largest
<1> QED BY <1>1, <1>2, <1>3 DEF IInv, AsmInv

LEMMA ChunkAsm == IInv /\ Chunk => AsmInv'
<1> SUFFICES ASSUME IInv, Chunk PROVE AsmInv'
  OBVIOUS
<1>1. ~Chunked
  <2>1. frames # <<>> \/ next <= Len(windows)
    BY DEF Chunk, ChunkingNext, ExtendWindow, StartWindow, ExpandOversized, ReturnWindows,
           NextPiece, AddOverlap
  <2> QED BY <2>1 DEF Chunked, IInv, SplitInv, ChunkingTypeOK
<1>2. read = 0 /\ cursor = 0 /\ read' = 0 /\ cursor' = cursor /\ built' = built
  BY <1>1 DEF IInv, AsmInv, Chunk
<1>3. SplitInv'
  BY SplitInvariant DEF IInv, Next
<1>4. chunks' \in Seq(Spans)
  BY <1>3 DEF SplitInv, ChunkingTypeOK
<1>5. 0 <= Len(chunks')
  BY <1>4
<1> QED BY <1>2, <1>5 DEF IInv, AsmInv, Slice

LEMMA AssembleAsm == IInv /\ Assemble => AsmInv'
<1> SUFFICES ASSUME IInv, Assemble PROVE AsmInv'
  OBVIOUS
<1> DEFINE c == chunks[read + 1]
           overlap == IF c.start >= cursor THEN 0 ELSE cursor - c.start
<1>1. /\ Chunked /\ read < Len(chunks) /\ read' = read + 1
      /\ built' = built \o Slice(c.start + overlap, c.end)
      /\ cursor' = Largest(cursor, c.end)
      /\ UNCHANGED <<input, splitVars, chunkVars>>
  BY DEF Assemble
<1>2. UNCHANGED <<frames, next, windows, chunks>>
  BY <1>1 DEF splitVars, chunkVars
<1>3. /\ read \in Nat /\ Len(chunks) \in Nat /\ read + 1 \in 1 .. Len(chunks)
      /\ chunk_overlap \in Nat /\ SplitInv
  BY <1>1 DEF IInv, AsmInv, SplitInv, ChunkingTypeOK
<1>4. /\ c \in Spans /\ windows[read + 1] \in Spans
      /\ read + 1 \in 1 .. Len(windows)
      /\ read > 0 => read \in 1 .. Len(chunks) /\ windows[read] \in Spans
  <2>1. (read + 1) - 1 = read
    BY <1>3
  <2> QED BY <1>3, <2>1, ChunkType
<1>5. /\ cursor \in Nat /\ c.start \in Nat /\ c.end \in Nat
      /\ c.start <= cursor /\ cursor < c.end
  <2>1. /\ c.end = windows[read + 1].end
        /\ c.start = (IF read = 0 THEN 0 ELSE Largest(0, windows[read].end - chunk_overlap))
    BY <1>3 DEF SplitInv, ChunksInv
  <2>2. cursor = (IF read = 0 THEN 0 ELSE windows[read].end)
    BY <1>4 DEF IInv, AsmInv, SplitInv, ChunksInv
  <2>3. /\ windows[read + 1].start = (IF read = 0 THEN 0 ELSE windows[read].end)
        /\ windows[read + 1].start < windows[read + 1].end
    BY <1>3, <1>4 DEF SplitInv, TileInv, Follow, ChunkingTypeOK
  <2> QED BY <1>3, <1>4, <2>1, <2>2, <2>3 DEF Spans, Largest
<1>6. c.start + overlap = cursor /\ cursor' = c.end
  BY <1>1, <1>5 DEF Largest
<1>7. built' = Slice(0, c.end)
  <2>1. built = Slice(0, cursor)
    BY DEF IInv, AsmInv
  <2>2. built' = built \o Slice(cursor, c.end)
    BY <1>1, <1>6
  <2>3. cursor \in Nat /\ c.end \in Nat /\ cursor <= c.end
    BY <1>5
  <2>4. Slice(0, cursor) \o Slice(cursor, c.end) = Slice(0, c.end)
    BY ONLY <2>3, SliceConcat
  <2> QED BY <2>1, <2>2, <2>4
<1>8. Chunked' <=> Chunked
  BY <1>2 DEF Chunked
<1>9. cursor' = chunks'[read'].end /\ read' # 0 /\ read' \in Nat /\ read' <= Len(chunks')
  BY <1>1, <1>2, <1>3, <1>6
<1>10. built' = Slice(0, cursor')
  BY <1>6, <1>7
<1> QED BY <1>1, <1>8, <1>9, <1>10 DEF AsmInv

LEMMA NextIInv == IInv /\ [Next]_vars => IInv'
<1> SUFFICES ASSUME IInv, [Next]_vars PROVE IInv'
  OBVIOUS
<1>1. SplitInv'
  BY SplitInvariant DEF IInv
<1>2. CASE UNCHANGED vars
  BY <1>1, <1>2 DEF IInv, AsmInv, Chunked, vars, splitVars, chunkVars, Slice
<1> QED BY <1>1, <1>2, ChunkAsm, AssembleAsm DEF Next, IInv

\* The inductive invariant of both modules.
THEOREM AlwaysIInv == Spec => []IInv
<1>1. IInv /\ [Next]_vars => IInv'
  BY NextIInv
<1> QED BY <1>1, InitIInv, PTL DEF Spec

-----------------------------------------------------------------------------
(* The theorems.                                                            *)

\* Every variable keeps to its type: no chunk begins before the text does.
THEOREM TypeCorrect == Spec => []TypeOK
<1>1. IInv => TypeOK
  <2> SUFFICES ASSUME IInv PROVE TypeOK
    OBVIOUS
  <2>1. ChunkingTypeOK /\ SplitInv /\ read \in Nat
    BY DEF IInv, SplitInv, AsmInv
  <2>2. cursor \in Nat
    <3>1. chunks \in Seq(Spans) /\ read <= Len(chunks)
      BY <2>1 DEF ChunkingTypeOK, IInv, AsmInv
    <3>2. read # 0 => read \in 1 .. Len(chunks)
      BY <2>1, <3>1
    <3>3. read # 0 => chunks[read] \in Spans
      BY ONLY <3>1, <3>2, ElementOfSeq
    <3> QED BY <3>3 DEF IInv, AsmInv, Spans
  <2>3. built \in Seq(Nat)
    <3>1. built = [i \in 1 .. cursor |-> 0 + i]
      BY <2>2 DEF IInv, AsmInv, Slice, Largest
    <3> QED BY <2>2, <3>1
  <2> QED BY <2>1, <2>2, <2>3 DEF TypeOK
<1> QED BY <1>1, AlwaysIInv, PTL

\* The windows tile the text, whatever its separators and however deep the
\* recursion on oversized pieces.
THEOREM WindowsAlwaysTile == Spec => []WindowsTile
<1>1. IInv => WindowsTile
  BY DEF IInv, SplitInv, FramesInv, TileInv, EndOf, WindowsTile
<1> QED BY <1>1, AlwaysIInv, PTL

\* One chunk for every window, each with its overlap: the code's test for a
\* chunk within the one before it never succeeds.
THEOREM ChunksAlwaysOverlap == Spec => []ChunksOverlap
<1>1. IInv => ChunksOverlap
  <2> SUFFICES ASSUME IInv, NEW i \in DOMAIN chunks
               PROVE  /\ chunks[i].end = windows[i].end
                      /\ chunks[i].end - chunks[i].start <= chunk_size + chunk_overlap
                      /\ i > 1 => /\ chunks[i].start =
                                        Largest(0, chunks[i - 1].end - chunk_overlap)
                                  /\ chunks[i - 1].end < chunks[i].end
    BY DEF ChunksOverlap
  <2>1. /\ SplitInv /\ i \in 1 .. Len(chunks)
        /\ chunk_size \in Nat /\ chunk_overlap \in Nat
    BY DEF IInv, SplitInv, ChunkingTypeOK
  <2>2. /\ i \in DOMAIN windows /\ windows[i] \in Spans
        /\ i > 1 => i - 1 \in 1 .. Len(chunks) /\ windows[i - 1] \in Spans
    BY <2>1, ChunkType DEF SplitInv, ChunkingTypeOK
  <2>3. /\ chunks[i].end = windows[i].end
        /\ chunks[i].start = (IF i = 1 THEN 0
                              ELSE Largest(0, windows[i - 1].end - chunk_overlap))
        /\ i > 1 => chunks[i - 1].end = windows[i - 1].end
    BY <2>1, <2>2 DEF SplitInv, ChunksInv
  <2>4. /\ windows[i].start = (IF i = 1 THEN 0 ELSE windows[i - 1].end)
        /\ windows[i].start < windows[i].end
        /\ windows[i].end - windows[i].start <= chunk_size
    BY <2>1, <2>2 DEF SplitInv, TileInv, Follow
  <2> QED BY <2>1, <2>2, <2>3, <2>4 DEF Spans, Largest
<1> QED BY <1>1, AlwaysIInv, PTL

\* Every text is answered from as it was indexed, and cited from its first
\* character to its last.
THEOREM RoundTripHolds == Spec => []RoundTrip
<1>1. IInv => RoundTrip
  <2> SUFFICES ASSUME IInv, Done
               PROVE  /\ cursor = text.length
                      /\ chunks # <<>> => Span = [start |-> 0, end |-> text.length]
    BY DEF RoundTrip, IInv, AsmInv
  <2> DEFINE n == Len(chunks)
  <2>1. /\ SplitInv /\ n \in Nat /\ text.length \in Nat
        /\ frames = <<>> /\ next > Len(windows) /\ read = n
        /\ DOMAIN chunks = 1 .. n /\ chunks \in Seq(Spans) /\ windows \in Seq(Spans)
        /\ chunk_overlap \in Nat
    BY DEF IInv, SplitInv, ChunkingTypeOK, IsText, Done, Chunked
  <2>2. Len(windows) = n /\ EndOf(windows) = text.length
    BY <2>1 DEF SplitInv, ChunksInv, TileInv, FramesInv
  <2>3. cursor = text.length
    <3>1. CASE n = 0
      BY <2>1, <2>2, <3>1, EmptySeq DEF EndOf, IInv, AsmInv
    <3>2. CASE n # 0
      <4>1. n \in 1 .. n /\ windows # <<>>
        BY <2>1, <2>2, <3>2
      <4> QED BY <2>1, <2>2, <3>2, <4>1 DEF EndOf, IInv, AsmInv, SplitInv, ChunksInv
    <3> QED BY <3>1, <3>2
  <2>4. ASSUME chunks # <<>>
        PROVE  Span = [start |-> 0, end |-> text.length]
    <3>1. 1 \in 1 .. n /\ n \in 1 .. n /\ n # 0
      BY <2>1, <2>4, EmptySeq
    <3>2. /\ chunks[1].start = 0 /\ chunks[n].end = text.length
          /\ \A i \in 1 .. n : chunks[i] \in Spans /\ chunks[i].end <= text.length
      <4>1. chunks[n].end = text.length
        BY <2>1, <2>3, <3>1 DEF IInv, AsmInv
      <4>2. chunks[1].start = 0
        BY <2>1, <3>1 DEF SplitInv, ChunksInv
      <4> QED BY <2>1, <4>1, <4>2, ChunkType
    <3> DEFINE First(a) == /\ \E i \in DOMAIN chunks : chunks[i].start = a
                           /\ \A i \in DOMAIN chunks : a <= chunks[i].start
               Last(b) == /\ \E i \in DOMAIN chunks : chunks[i].end = b
                          /\ \A i \in DOMAIN chunks : b >= chunks[i].end
    <3>3. First(0) /\ \A a \in 0 .. text.length : First(a) => a = 0
      <4>1. \A i \in 1 .. n : chunks[i].start \in Nat
        BY <3>2 DEF Spans
      <4>2. First(0)
        BY <2>1, <3>1, <3>2, <4>1
      <4>3. ASSUME NEW a \in 0 .. text.length, First(a) PROVE a = 0
        <5>1. a <= chunks[1].start
          BY <2>1, <3>1, <4>3
        <5> QED BY <2>1, <3>2, <5>1
      <4> QED BY <4>2, <4>3
    <3>4. Last(text.length) /\ \A b \in 0 .. text.length : Last(b) => b = text.length
      BY <2>1, <3>1, <3>2 DEF Spans
    <3> HIDE DEF First, Last
    <3>5. /\ (CHOOSE a \in 0 .. text.length : First(a)) = 0
          /\ (CHOOSE b \in 0 .. text.length : Last(b)) = text.length
      BY <2>1, <3>3, <3>4
    <3> QED BY <3>5 DEF Span, First, Last
  <2> QED BY <2>3, <2>4
<1> QED BY <1>1, AlwaysIInv, PTL

-----------------------------------------------------------------------------
(* Where the text is cut.                                                   *)

\* Completing the window under way adds one window at most, which ends at `at`.
LEMMA FlushedEnds ==
  ASSUME SplitInv
  PROVE  /\ Len(windows) \in Nat /\ Len(Flushed) \in Nat /\ Len(Flushed) <= Len(windows) + 1
         /\ start = -1 => Flushed = windows
         /\ \A i \in 1 .. Len(Flushed) :
               \/ i \in 1 .. Len(windows) /\ Flushed[i].end = windows[i].end
               \/ Flushed[i].end = at
<1>1. windows \in Seq(Spans) /\ Len(windows) \in Nat
  BY DEF SplitInv, ChunkingTypeOK
<1>2. CASE start = -1
  BY <1>1, <1>2 DEF Flushed
<1>3. CASE start # -1
  <2> DEFINE w == [start |-> start, end |-> at]
  <2>1. w \in Spans /\ w.end = at
    BY <1>3 DEF SplitInv, ChunkingTypeOK, IsText, Spans
  <2>2. Flushed = Append(windows, w)
    BY <1>3 DEF Flushed
  <2>3. /\ Len(Flushed) = Len(windows) + 1 /\ Flushed[Len(windows) + 1] = w
        /\ \A i \in 1 .. Len(windows) : Flushed[i] = windows[i]
    BY <1>1, <2>1, <2>2
  <2> QED BY <1>1, <1>3, <2>1, <2>3
<1> QED BY <1>2, <1>3

\* A text that fits into a window is never cut: there is one call, and no window
\* before it returns.
ShortInv ==
    text.length <= chunk_size =>
        /\ frames # <<>> => windows = <<>> /\ Len(frames) = 1
        /\ Len(windows) <= 1

LEMMA InitShort == Init => ShortInv
BY DEF Init, ChunkingInit, ShortInv

LEMMA NextShort == SplitInv /\ ShortInv /\ [Next]_vars => ShortInv'
<1> SUFFICES ASSUME SplitInv, ShortInv, [Next]_vars, text'.length <= chunk_size'
             PROVE  /\ frames' # <<>> => windows' = <<>> /\ Len(frames') = 1
                    /\ Len(windows') <= 1
  BY DEF ShortInv
<1>1. UNCHANGED <<text, chunk_size>>
  BY DEF Next, Chunk, ChunkingNext, ExtendWindow, StartWindow, ExpandOversized, ReturnWindows,
         AddOverlap, Assemble, vars, input
<1>2. /\ text.length <= chunk_size
      /\ frames # <<>> => windows = <<>> /\ Len(frames) = 1
      /\ Len(windows) <= 1
  BY <1>1 DEF ShortInv
<1>3. /\ text.length \in Nat /\ at \in 0 .. text.length /\ start \in -1 .. text.length
      /\ chunk_size \in Nat
  BY DEF SplitInv, ChunkingTypeOK, IsText
<1>4. CASE UNCHANGED <<frames, windows>>
  BY <1>2, <1>4
<1>5. CASE StartWindow
  <2>1. PICK e \in 1 .. text.length : ~Fits(e)
    BY <1>5 DEF StartWindow
  <2>2. start = -1
    BY <1>2, <1>3, <2>1 DEF Fits
  <2> QED BY <1>2, <1>5, <2>2 DEF StartWindow, Flushed
<1>6. CASE ExpandOversized
  BY <1>2, <1>3, <1>6 DEF ExpandOversized
<1>7. CASE ReturnWindows
  <2>1. frames' = SubSeq(frames, 1, 0)
    <3>1. Len(frames) - 1 = 0 /\ frames' = SubSeq(frames, 1, Len(frames) - 1)
      BY <1>2, <1>7 DEF ReturnWindows
    <3> QED BY <3>1
  <2>2. frames' = <<>>
    BY <2>1 DEF SplitInv, ChunkingTypeOK
  <2>3. Len(windows) = 0 /\ windows' = Flushed
    BY <1>2, <1>7 DEF ReturnWindows
  <2> QED BY <2>2, <2>3, FlushedEnds
<1> QED BY <1>4, <1>5, <1>6, <1>7
        DEF Next, Chunk, ChunkingNext, ExtendWindow, AddOverlap, Assemble, vars, splitVars

\* A text that is not longer than chunk_size is one chunk, whatever separators
\* it contains (recursive.py, _build_windows and _add_overlap).
THEOREM ShortTextStaysWhole == Spec => []ShortTextIsOneChunk
<1>1. IInv /\ ShortInv => ShortTextIsOneChunk
  <2> SUFFICES ASSUME SplitInv, ShortInv, text.length \in 1 .. chunk_size, Chunked
               PROVE  chunks = <<[start |-> 0, end |-> text.length]>>
    BY DEF ShortTextIsOneChunk, IInv
  <2>1. /\ windows \in Seq(Spans) /\ chunks \in Seq(Spans) /\ text.length \in Nat \ {0}
        /\ chunk_size \in Nat
    BY DEF SplitInv, ChunkingTypeOK, IsText
  <2>2. EndOf(windows) = text.length
    BY DEF SplitInv, FramesInv, TileInv, Chunked
  <2>3. Len(windows) = 1
    <3>1. windows # <<>>
      BY <2>1, <2>2 DEF EndOf
    <3>2. Len(windows) <= 1
      BY <2>1 DEF ShortInv
    <3>3. Len(windows) \in Nat \ {0}
      BY <2>1, <3>1, EmptySeq
    <3>4. \A n \in Nat \ {0} : n <= 1 => n = 1
      OBVIOUS
    <3> QED BY ONLY <3>2, <3>3, <3>4, Zenon
  <2>4. Len(chunks) = 1
    BY <2>1, <2>3 DEF SplitInv, ChunksInv, Chunked
  <2>5. chunks[1].start = 0 /\ chunks[1].end = text.length /\ chunks[1] \in Spans
    <3>1. 1 \in 1 .. Len(chunks) /\ windows # <<>>
      BY <2>1, <2>2, <2>4 DEF EndOf
    <3>2. chunks[1].start = 0 /\ chunks[1].end = windows[1].end
      BY <3>1 DEF SplitInv, ChunksInv
    <3> QED BY <2>1, <2>2, <2>3, <3>1, <3>2, ElementOfSeq DEF EndOf
  <2>6. chunks[1] = [start |-> 0, end |-> text.length]
    BY <2>5 DEF Spans
  <2> QED BY <2>1, <2>4, <2>6
<1> QED BY <1>1, InitShort, NextShort, AlwaysIInv, PTL DEF Spec, IInv

\* No two cuts of separator l around p are within a window of each other.
Cuts(l) == text.ends[l] \cup {0, text.length}
Wide(l, p) == \A a, b \in Cuts(l) : a < p /\ p < b => b - a > chunk_size

\* Position p may be cut: every separator that does not cut there is Wide.
Natural(p) ==
    p # text.length =>
        \A l \in 1 .. Separators : (\A k \in 1 .. l : p \notin text.ends[k]) => Wide(l, p)

\* What is left of the slice of a call has no cut of a coarser separator that
\* would have done, and its end is natural.
NaturalInv ==
    text.length > chunk_size =>
        /\ Natural(at)
        /\ \A i \in 1 .. Len(windows) : Natural(windows[i].end)
        /\ \A i \in 1 .. Len(frames) :
              /\ Natural(frames[i].end)
              /\ \A l \in 1 .. frames[i].separator - 1, p \in at + 1 .. frames[i].end - 1 : Wide(l, p)

LEMMA CutsAreNat ==
  ASSUME ChunkingTypeOK, NEW l \in 1 .. Separators
  PROVE  Cuts(l) \subseteq 0 .. text.length
<1>1. /\ text.ends \in [1 .. Separators -> SUBSET (1 .. text.length)]
      /\ text.length \in Nat
  BY DEF ChunkingTypeOK, IsText
<1>2. text.ends[l] \subseteq 1 .. text.length
  BY <1>1
<1> QED BY <1>1, <1>2 DEF Cuts

\* The end of the next piece is natural.
LEMMA PieceIsNatural ==
  ASSUME SplitInv, NaturalInv, text.length > chunk_size, NEW e \in 1 .. text.length, NextPiece(e)
  PROVE  Natural(e)
<1>1. /\ frames # <<>> /\ at < e /\ e <= Top.end
      /\ e \in text.ends[Top.separator] \/ e = Top.end
  BY DEF NextPiece, IsPiece
<1>2. /\ Len(frames) \in 1 .. Len(frames) /\ Top = frames[Len(frames)]
      /\ Top.separator \in 1 .. Separators /\ Top.end \in Nat
  BY <1>1, TopType DEF SplitInv, Top
<1>3. CASE e = Top.end
  BY <1>2, <1>3 DEF NaturalInv
<1>4. CASE e # Top.end
  <2> SUFFICES ASSUME NEW l \in 1 .. Separators, \A k \in 1 .. l : e \notin text.ends[k]
               PROVE  Wide(l, e)
    BY DEF Natural
  <2>1. l \in 1 .. Top.separator - 1
    BY <1>1, <1>2, <1>4, ChunkingAssumption
  <2>2. e \in at + 1 .. Top.end - 1
    BY <1>1, <1>2, <1>4 DEF SplitInv, ChunkingTypeOK, IsText
  <2> QED BY <1>2, <2>1, <2>2 DEF NaturalInv
<1> QED BY <1>3, <1>4

\* Within an oversized piece, a separator coarser than the one picked is Wide.
LEMMA OversizedIsWide ==
  ASSUME SplitInv, NaturalInv, text.length > chunk_size, NEW e \in 1 .. text.length, NextPiece(e),
         e - at > chunk_size, NEW m \in 1 .. Separators, Picked(text, Top.separator + 1, m, at, e),
         NEW l \in 1 .. m - 1, NEW p \in at + 1 .. e - 1
  PROVE  Wide(l, p)
<1>1. /\ frames # <<>> /\ at < e /\ e <= Top.end
      /\ \A d \in text.ends[Top.separator] : ~(at < d /\ d < e)
  BY DEF NextPiece, IsPiece
<1>2. /\ Len(frames) \in 1 .. Len(frames) /\ Top = frames[Len(frames)]
      /\ Top.separator \in 1 .. Separators /\ Top.end \in Nat
  BY <1>1, TopType DEF SplitInv, Top
<1>3. /\ text.length \in Nat /\ at \in 0 .. text.length /\ chunk_size \in Nat
      /\ Separators \in Nat /\ ChunkingTypeOK
  BY ChunkingAssumption DEF SplitInv, ChunkingTypeOK, IsText
<1>4. CASE l < Top.separator
  <2>1. l \in 1 .. Top.separator - 1 /\ p \in at + 1 .. Top.end - 1
    BY <1>1, <1>2, <1>3, <1>4
  <2> QED BY <1>2, <2>1 DEF NaturalInv
<1>5. CASE l >= Top.separator
  <2>0. l \in 1 .. Separators
    BY <1>3
  <2>1. ASSUME NEW d \in text.ends[l], at < d, d < e PROVE FALSE
    <3>1. d \in Nat
      BY <1>3, <2>0, <2>1, CutsAreNat DEF Cuts
    <3>2. l # Top.separator
      BY <1>1, <2>1
    <3>3. l \in Top.separator + 1 .. m - 1
      BY <1>2, <1>5, <3>2
    <3>4. ~Occurs(text, l, at, e)
      BY <3>3 DEF Picked
    <3> QED BY <2>1, <3>1, <3>4 DEF Occurs
  <2>2. ASSUME NEW a \in Cuts(l), NEW b \in Cuts(l), a < p, p < b PROVE b - a > chunk_size
    <3>1. a \in Nat /\ b \in Nat
      BY <1>3, <2>0, CutsAreNat
    <3>2. a <= at
      BY <1>3, <2>1, <2>2, <3>1 DEF Cuts
    <3>3. b >= e
      BY <1>3, <2>1, <2>2, <3>1 DEF Cuts
    <3> QED BY <1>3, <3>1, <3>2, <3>3
  <2> QED BY <2>2 DEF Wide
<1> QED BY <1>2, <1>4, <1>5
LEMMA InitNatural == Init => NaturalInv
<1> SUFFICES ASSUME Init, text.length > chunk_size PROVE NaturalInv
  BY DEF NaturalInv
<1>1. ChunkingTypeOK /\ SplitInv
  BY InitIInv DEF IInv, SplitInv
<1>2. /\ text.length \in Nat \ {0} /\ chunk_size \in Nat \ {0} /\ Separators \in Nat
      /\ at = 0 /\ windows = <<>>
  BY <1>1, ChunkingAssumption DEF Init, ChunkingInit, ChunkingTypeOK, IsText
<1>3. Natural(0)
  <2>1. ASSUME NEW l \in 1 .. Separators PROVE Wide(l, 0)
    BY <1>1, <1>2, CutsAreNat DEF Wide
  <2> QED BY <2>1 DEF Natural
<1>4. PICK m \in 1 .. Separators :
         Picked(text, 1, m, 0, text.length) /\ frames = <<[separator |-> m, end |-> text.length]>>
  BY <1>2 DEF Init, ChunkingInit
<1>5. ASSUME NEW l \in 1 .. m - 1, NEW p \in 1 .. text.length - 1 PROVE Wide(l, p)
  <2>1. l \in 1 .. Separators /\ ~Occurs(text, l, 0, text.length)
    BY <1>2, <1>4 DEF Picked
  <2>2. Cuts(l) \subseteq {0, text.length}
    BY <1>1, <1>2, <2>1, CutsAreNat DEF Cuts, Occurs
  <2> QED BY <1>2, <2>2 DEF Wide
<1>6. /\ Len(frames) = 1 /\ frames[1].separator = m /\ frames[1].end = text.length
  BY <1>4
<1>7. Natural(text.length)
  BY DEF Natural
<1> QED BY <1>2, <1>3, <1>5, <1>6, <1>7 DEF NaturalInv

\* The windows and the calls of the next state are natural if those are that
\* were there before and the new ones.
LEMMA NaturalStep ==
  ASSUME SplitInv, NaturalInv, UNCHANGED <<text, chunk_size>>, at' \in Nat, at <= at',
         text.length > chunk_size => Natural(at'),
         windows' = windows \/ windows' = Flushed,
         Len(frames') \in Nat,
         text.length > chunk_size =>
            \A i \in 1 .. Len(frames') :
               \/ i \in 1 .. Len(frames) /\ frames'[i] = frames[i]
               \/ /\ Natural(frames'[i].end)
                  /\ \A l \in 1 .. frames'[i].separator - 1, p \in at' + 1 .. frames'[i].end - 1 :
                        Wide(l, p)
  PROVE  NaturalInv'
<1> SUFFICES ASSUME text.length > chunk_size PROVE NaturalInv'
  BY DEF NaturalInv
<1>1. at \in Nat /\ \A i \in 1 .. Len(frames) : frames[i].end \in Nat
  <2>1. at \in Nat
    BY DEF SplitInv, ChunkingTypeOK, IsText
  <2>2. ASSUME NEW i \in 1 .. Len(frames) PROVE frames[i].end \in Nat
    <3>1. frames[i] \in [separator : 1 .. Separators, end : Nat]
      BY ElementOfSeq DEF SplitInv, ChunkingTypeOK
    <3> QED BY <3>1
  <2> QED BY <2>1, <2>2
<1>2. (\A p : Natural(p)' <=> Natural(p)) /\ \A l, p : Wide(l, p)' <=> Wide(l, p)
  BY DEF Natural, Wide, Cuts
<1>3. ASSUME NEW i \in 1 .. Len(windows') PROVE Natural(windows'[i].end)
  BY <1>3, FlushedEnds DEF NaturalInv
<1>4. ASSUME NEW i \in 1 .. Len(frames')
      PROVE  /\ Natural(frames'[i].end)
             /\ \A l \in 1 .. frames'[i].separator - 1, p \in at' + 1 .. frames'[i].end - 1 : Wide(l, p)
  <2>1. CASE i \in 1 .. Len(frames) /\ frames'[i] = frames[i]
    <3>1. at' + 1 .. frames'[i].end - 1 \subseteq at + 1 .. frames[i].end - 1
      BY <1>1, <2>1
    <3> QED BY <2>1, <3>1 DEF NaturalInv
  <2> QED BY <1>4, <2>1
<1> QED BY <1>2, <1>3, <1>4 DEF NaturalInv

LEMMA NextNatural == SplitInv /\ NaturalInv /\ [Next]_vars => NaturalInv'
<1> SUFFICES ASSUME SplitInv, NaturalInv, [Next]_vars PROVE NaturalInv'
  OBVIOUS
<1>1. UNCHANGED <<text, chunk_size>>
  BY DEF Next, Chunk, ChunkingNext, ExtendWindow, StartWindow, ExpandOversized, ReturnWindows,
         AddOverlap, Assemble, vars, input
<1>2. /\ frames \in Seq([separator : 1 .. Separators, end : Nat]) /\ Len(frames) \in Nat
      /\ at \in Nat /\ text.length \in Nat
  BY DEF SplitInv, ChunkingTypeOK, IsText
<1>3. text.length > chunk_size => Natural(at)
  BY DEF NaturalInv
<1>4. CASE UNCHANGED <<frames, windows, at>>
  BY <1>1, <1>2, <1>3, <1>4, NaturalStep
<1>5. CASE ExtendWindow \/ StartWindow
  <2>1. PICK e \in 1 .. text.length : NextPiece(e) /\ at' = e
    BY <1>5 DEF ExtendWindow, StartWindow
  <2>2. at < e
    BY <2>1 DEF NextPiece, IsPiece
  <2>3. UNCHANGED frames /\ (windows' = windows \/ windows' = Flushed)
    BY <1>5 DEF ExtendWindow, StartWindow
  <2>4. text.length > chunk_size => Natural(at')
    BY <2>1, PieceIsNatural
  <2> QED BY <1>1, <1>2, <2>1, <2>2, <2>3, <2>4, NaturalStep
<1>6. CASE ExpandOversized
  <2>1. PICK e \in 1 .. text.length :
           /\ NextPiece(e) /\ e - at > chunk_size /\ windows' = Flushed /\ at' = at
           /\ \E l \in 1 .. Separators :
                 /\ Picked(text, Top.separator + 1, l, at, e)
                 /\ frames' = Append(frames, [separator |-> l, end |-> e])
    BY <1>6 DEF ExpandOversized
  <2>2. PICK m \in 1 .. Separators :
           /\ Picked(text, Top.separator + 1, m, at, e)
           /\ frames' = Append(frames, [separator |-> m, end |-> e])
    BY <2>1
  <2>3. [separator |-> m, end |-> e] \in [separator : 1 .. Separators, end : Nat]
    BY <1>2
  <2>4. /\ Len(frames') = Len(frames) + 1
        /\ \A i \in 1 .. Len(frames) : frames'[i] = frames[i]
        /\ frames'[Len(frames) + 1] = [separator |-> m, end |-> e]
    BY <1>2, <2>2, <2>3
  <2>5. /\ frames'[Len(frames) + 1].separator = m /\ frames'[Len(frames) + 1].end = e
    BY <2>4
  <2>6. ASSUME text.length > chunk_size
        PROVE  /\ Natural(e)
               /\ \A l \in 1 .. m - 1, p \in at + 1 .. e - 1 : Wide(l, p)
    BY <2>1, <2>2, <2>6, PieceIsNatural, OversizedIsWide
  <2>7. ASSUME text.length > chunk_size, NEW i \in 1 .. Len(frames')
        PROVE  \/ i \in 1 .. Len(frames) /\ frames'[i] = frames[i]
               \/ /\ Natural(frames'[i].end)
                  /\ \A l \in 1 .. frames'[i].separator - 1, p \in at' + 1 .. frames'[i].end - 1 :
                        Wide(l, p)
    <3>1. i \in 1 .. Len(frames) \/ i = Len(frames) + 1
      BY <1>2, <2>4
    <3> QED BY <2>1, <2>4, <2>5, <2>6, <2>7, <3>1
  <2> QED BY <1>1, <1>2, <1>3, <2>1, <2>4, <2>7, NaturalStep
<1>7. CASE ReturnWindows
  <2>1. frames # <<>> /\ at' = at /\ windows' = Flushed /\ frames' = SubSeq(frames, 1, Len(frames) - 1)
    BY <1>7 DEF ReturnWindows
  <2>2. Len(frames') = Len(frames) - 1 /\ \A i \in 1 .. Len(frames') : frames'[i] = frames[i]
    BY <2>1, FramesPopped DEF SplitInv
  <2>3. Len(frames) - 1 \in Nat
    <3>1. Len(frames) \in Nat \ {0}
      BY <1>2, <2>1, EmptySeq
    <3> QED BY <3>1
  <2>4. \A i \in 1 .. Len(frames') : i \in 1 .. Len(frames) /\ frames'[i] = frames[i]
    BY <1>2, <2>2, <2>3
  <2> QED BY <1>1, <1>2, <1>3, <2>1, <2>2, <2>3, <2>4, NaturalStep
<1> QED BY <1>4, <1>5, <1>6, <1>7
        DEF Next, Chunk, ChunkingNext, AddOverlap, Assemble, vars, splitVars

\* For any text and any list of separators: where a separator does not cut but a
\* finer one does, its pieces do not fit into a window (recursive.py,
\* _pick_separator and _expand_oversized).
THEOREM CutsAreAlwaysNatural == Spec => []CutsAreNatural
<1>1. SplitInv /\ ShortInv /\ NaturalInv => CutsAreNatural
  <2> SUFFICES ASSUME SplitInv, ShortInv, NaturalInv, NEW i \in DOMAIN windows,
                      NEW l \in 1 .. Separators, windows[i].end # text.length,
                      \A k \in 1 .. l : windows[i].end \notin text.ends[k]
               PROVE  \A a, b \in Cuts(l) :
                         a < windows[i].end /\ windows[i].end < b => b - a > chunk_size
    BY DEF CutsAreNatural, Cuts
  <2>1. /\ windows \in Seq(Spans) /\ i \in 1 .. Len(windows) /\ text.length \in Nat
        /\ chunk_size \in Nat
    BY DEF SplitInv, ChunkingTypeOK, IsText
  <2>2. CASE text.length > chunk_size
    BY <2>1, <2>2 DEF NaturalInv, Natural, Wide
  <2>3. CASE text.length <= chunk_size
    <3>1. Len(windows) <= 1 /\ frames = <<>>
      BY <2>1, <2>3 DEF ShortInv
    <3>2. windows # <<>> /\ Len(windows) = 1 /\ i = 1
      <4>1. Len(windows) \in Nat
        BY <2>1, LenProperties
      <4>2. \A m, n \in Nat : n <= 1 /\ m \in 1 .. n => n = 1 /\ m = 1
        OBVIOUS
      <4>3. i \in Nat
        BY <2>1
      <4>4. Len(windows) = 1 /\ i = 1
        BY ONLY <2>1, <3>1, <4>1, <4>2, <4>3, Zenon
      <4>5. windows # <<>>
        BY ONLY <4>4, EmptySeq, SMT
      <4> QED BY <4>4, <4>5
    <3>3. EndOf(windows) = text.length
      BY <3>1 DEF SplitInv, FramesInv, TileInv
    <3> QED BY <3>2, <3>3 DEF EndOf
  <2> QED BY <2>1, <2>2, <2>3
<1> QED BY <1>1, InitShort, NextShort, InitNatural, NextNatural, AlwaysIInv, PTL DEF Spec, IInv
-----------------------------------------------------------------------------
(* Why the chunker ends.                                                    *)

\* The induction that the two lemmas after it take from the order of Nat.
LEMMA Least ==
  ASSUME NEW S, S \subseteq Nat, S # {}
  PROVE  \E x \in S : \A y \in S : x <= y
<1> DEFINE R == OpToRel(<, Nat)
<1>1. IsWellFoundedOn(R, Nat)
  BY NatLessThanWellFounded
<1>2. PICK x \in S : \A y \in S : ~(<<y, x>> \in R)
  <2> HIDE DEF R
  <2> QED BY <1>1, WFMin
<1>3. ASSUME NEW y \in S, y < x PROVE <<y, x>> \in R
  BY <1>3 DEF OpToRel
<1> HIDE DEF R
<1>4. ASSUME NEW y \in S PROVE x <= y
  <2>1. ~(y < x)
    BY <1>2, <1>3
  <2> QED BY <2>1
<1> QED BY <1>4

\* A slice that is not empty has a next piece.
LEMMA PieceExists ==
  ASSUME IsText(text), NEW l \in 1 .. Separators, NEW a \in Nat, NEW b \in Nat, a < b
  PROVE  \E e \in a + 1 .. b : IsPiece(text, l, a, e, b)
<1> DEFINE S == {e \in a + 1 .. b : e \in text.ends[l] \/ e = b}
<1>1. S \subseteq Nat /\ b \in S
  OBVIOUS
<1>2. PICK e \in S : \A d \in S : e <= d
  <2> HIDE DEF S
  <2> QED BY <1>1, Least
<1>3. ASSUME NEW d \in text.ends[l] PROVE ~(a < d /\ d < e)
  <2>1. d \in Nat
    <3>1. text.ends[l] \subseteq 1 .. text.length /\ text.length \in Nat
      BY DEF IsText
    <3> QED BY <1>3, <3>1
  <2>2. a < d /\ d < e => d \in S
    BY <1>2, <1>3, <2>1
  <2> QED BY <1>2, <2>1, <2>2
<1> QED BY <1>2, <1>3 DEF IsPiece

\* So has a list of separators that ends with the empty one the first that occurs.
LEMMA SeparatorExists ==
  ASSUME IsText(text), NEW from \in 1 .. Separators, NEW a \in Nat, NEW b \in 1 .. text.length, a < b
  PROVE  \E l \in 1 .. Separators : Picked(text, from, l, a, b)
<1> DEFINE S == {l \in from .. Separators : Occurs(text, l, a, b)}
<1>0. Separators \in Nat \ {0}
  BY ChunkingAssumption
<1>1. Separators \in S /\ S \subseteq Nat
  <2>1. b \in text.ends[Separators] /\ b <= b
    BY DEF IsText
  <2>2. Occurs(text, Separators, a, b)
    BY <2>1 DEF Occurs
  <2> QED BY <1>0, <2>2
<1>2. PICK l \in S : \A k \in S : l <= k
  <2> HIDE DEF S
  <2> QED BY <1>1, Least
<1>3. ASSUME NEW k \in from .. l - 1 PROVE ~Occurs(text, k, a, b)
  <2>1. l \in from .. Separators /\ k \in from .. Separators /\ ~(l <= k)
    BY <1>0, <1>2
  <2> QED BY <1>2, <2>1
<1> QED BY <1>2, <1>3 DEF Picked

\* For every text: until the text of a call is used up it has a piece to take,
\* and a separator to cut it with if it is too long (recursive.py:83-139).
THEOREM ThereIsAnotherPiece == Spec => []AnotherPiece
<1>1. SplitInv => AnotherPiece
  <2> SUFFICES ASSUME SplitInv, frames # <<>>, at # Top.end
               PROVE  \E e \in 1 .. text.length :
                        /\ NextPiece(e)
                        /\ e - at > chunk_size =>
                             \E l \in 1 .. Separators : Picked(text, Top.separator + 1, l, at, e)
    BY DEF AnotherPiece
  <2>1. /\ IsText(text) /\ text.length \in Nat /\ at \in Nat /\ chunk_size \in Nat \ {0}
        /\ Separators \in Nat \ {0}
    BY ChunkingAssumption DEF SplitInv, ChunkingTypeOK, IsText
  <2>2. /\ Top.separator \in 1 .. Separators
        /\ Top.end \in Nat /\ Top.end <= text.length /\ at < Top.end
    BY <2>1, TopType, FramesNest DEF SplitInv
  <2>3. PICK e \in at + 1 .. Top.end : IsPiece(text, Top.separator, at, e, Top.end)
    BY <2>1, <2>2, PieceExists
  <2>4. e \in 1 .. text.length /\ NextPiece(e) /\ at < e
    BY <2>1, <2>2, <2>3 DEF NextPiece
  <2>5. ASSUME e - at > chunk_size PROVE Top.separator # Separators
    <3>1. at + 1 < e /\ at + 1 \in 1 .. text.length
      BY <2>1, <2>4, <2>5
    <3>2. Top.separator = Separators => at + 1 \in text.ends[Top.separator]
      BY <2>1, <3>1 DEF IsText
    <3> QED BY <2>1, <2>3, <3>1, <3>2 DEF IsPiece
  <2>6. ASSUME e - at > chunk_size
        PROVE  \E l \in 1 .. Separators : Picked(text, Top.separator + 1, l, at, e)
    <3>1. Top.separator + 1 \in 1 .. Separators
      BY <2>1, <2>2, <2>5, <2>6
    <3> QED BY <2>1, <2>4, <3>1, SeparatorExists
  <2> QED BY <2>4, <2>6
<1> QED BY <1>1, AlwaysIInv, PTL DEF IInv

\* The four kinds of step, each with what it uses up.
LEMMA StepCounts ==
  ASSUME SplitInv, read \in Nat, Next
  PROVE  \/ at' > at
         \/ at' = at /\ LeftHere' < LeftHere
         \/ UNCHANGED splitVars /\ next' > next
         \/ UNCHANGED <<splitVars, chunkVars>> /\ read' > read
<1>1. /\ text.length \in Nat /\ at \in Nat /\ next \in Nat /\ Separators \in Nat \ {0}
      /\ frames \in Seq([separator : 1 .. Separators, end : Nat]) /\ ChunkingTypeOK
  BY ChunkingAssumption DEF SplitInv, ChunkingTypeOK, IsText
<1>2. CASE ExtendWindow \/ StartWindow
  BY <1>1, <1>2 DEF ExtendWindow, StartWindow, NextPiece, IsPiece
<1>3. CASE ExpandOversized
  <2>1. PICK e \in 1 .. text.length, l \in 1 .. Separators :
            /\ NextPiece(e) /\ at' = at /\ l \in Top.separator + 1 .. Separators
            /\ frames' = Append(frames, [separator |-> l, end |-> e])
    BY <1>3 DEF ExpandOversized, Picked
  <2>2. frames # <<>> /\ at < e /\ e <= Top.end
    BY <2>1 DEF NextPiece, IsPiece
  <2>3. Top.separator \in 1 .. Separators /\ Top.end \in Nat
    BY <1>1, <2>2, TopType
  <2>4. frames' # <<>> /\ Top' = [separator |-> l, end |-> e]
    <3>1. [separator |-> l, end |-> e] \in [separator : 1 .. Separators, end : Nat]
      BY <1>1
    <3>2. /\ Len(frames) \in Nat /\ Len(frames') = Len(frames) + 1
          /\ frames'[Len(frames) + 1] = [separator |-> l, end |-> e]
      BY <1>1, <2>1, <3>1
    <3> QED BY <3>2 DEF Top
  <2>5. LeftHere = Separators - Top.separator /\ LeftHere' = Separators - l
    BY <1>1, <2>1, <2>2, <2>3, <2>4 DEF LeftHere
  <2> QED BY <1>1, <2>1, <2>3, <2>5
<1>4. CASE ReturnWindows
  <2>1. frames # <<>> /\ at = Top.end /\ at' = at /\ frames' = SubSeq(frames, 1, Len(frames) - 1)
    BY <1>4 DEF ReturnWindows
  <2>2. Len(frames) \in Nat \ {0} /\ Len(frames') = Len(frames) - 1
        /\ frames' \in Seq([separator : 1 .. Separators, end : Nat])
    BY <1>1, <2>1, FramesPopped, EmptySeq
  <2>3. LeftHere = Separators + Len(frames)
    BY <2>1 DEF LeftHere
  <2>4. ASSUME frames' # <<>> PROVE Top'.separator \in 1 .. Separators
    <3>1. Len(frames') \in 1 .. Len(frames')
      BY <2>2, <2>4, EmptySeq
    <3>2. frames'[Len(frames')] \in [separator : 1 .. Separators, end : Nat]
      BY ONLY <2>2, <3>1, ElementOfSeq
    <3> QED BY <3>2 DEF Top
  <2>5. LeftHere' \in {0, Separators + Len(frames'), Separators - Top'.separator}
        /\ (frames' = <<>> => LeftHere' = 0)
    BY DEF LeftHere
  <2>6. LeftHere' < LeftHere
    <3>1. PICK n \in Nat \ {0} : n = Len(frames) /\ n - 1 = Len(frames')
      BY <2>2
    <3>2. CASE frames' = <<>>
      BY <1>1, <2>3, <2>5, <3>1, <3>2
    <3>3. CASE frames' # <<>>
      <4>1. PICK s \in 1 .. Separators : s = Top'.separator
        BY <2>4, <3>3
      <4>2. LeftHere' \in {0, Separators + (n - 1), Separators - s} /\ LeftHere = Separators + n
        BY <2>3, <2>5, <3>1, <4>1
      <4> QED BY <1>1, <4>2
    <3> QED BY <3>2, <3>3
  <2> QED BY <2>1, <2>6
<1>5. CASE AddOverlap
  BY <1>1, <1>5 DEF AddOverlap
<1>6. CASE Assemble
  BY <1>6 DEF Assemble
<1> QED BY <1>2, <1>3, <1>4, <1>5, <1>6 DEF Next, Chunk, ChunkingNext

\* For every text: no step of the chunker or of the assembly goes round in a
\* circle.  The four numbers are bounded (`at` by the length of the text, LeftHere
\* by 0, next and read by the windows and the chunks), so the recursion of
\* _expand_oversized and both loops end (recursive.py:83-165).
THEOREM StepsCount == Spec => EveryStepCounts
<1>1. IInv /\ [Next]_vars =>
        [\/ at' > at
         \/ at' = at /\ LeftHere' < LeftHere
         \/ UNCHANGED splitVars /\ next' > next
         \/ UNCHANGED <<splitVars, chunkVars>> /\ read' > read]_vars
  BY StepCounts DEF IInv, AsmInv
<1> QED BY <1>1, AlwaysIInv, PTL DEF Spec, EveryStepCounts
=============================================================================
