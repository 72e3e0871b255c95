------------------------------ MODULE Chunking ------------------------------
(***************************************************************************)
(* RecursiveCharacterChunker (src/doccontext/chunking/recursive.py): a     *)
(* text is cut into windows of at most chunk_size characters, each on the  *)
(* coarsest separator that fits, and the windows are extended backwards by *)
(* chunk_overlap characters.                                               *)
(*                                                                         *)
(* Of a text only its length matters and where its separators end: splitting *)
(* on separator l cuts after every position in text.ends[l].  The last     *)
(* separator is the empty one, which cuts everywhere.  A slice a .. b of a *)
(* text is the characters a + 1 to b, as in Python's text[a:b].            *)
(*                                                                         *)
(* The recursion of _expand_oversized is a stack of frames: one step takes *)
(* one piece of the slice the innermost call works on.                     *)
(***************************************************************************)
EXTENDS Integers, Sequences

CONSTANTS Texts,       \* the texts to cut
          Separators,  \* number of separators, coarsest first, "" the last
          Sizes        \* the pairs <<chunk_size, chunk_overlap>>

IsText(t) ==
    /\ t.length \in Nat
    /\ t.ends \in [1 .. Separators -> SUBSET (1 .. t.length)]
    /\ t.ends[Separators] = 1 .. t.length

ASSUME ChunkingAssumption ==
    /\ Separators \in Nat \ {0}
    /\ \A t \in Texts : IsText(t)
    /\ \A s \in Sizes : s[1] \in Nat \ {0} /\ s[2] \in 0 .. s[1] - 1

VARIABLES
    text, chunk_size, chunk_overlap,  \* the input
    frames,   \* the calls of _build_windows under way, the innermost last
    at,       \* the end of the last piece taken
    start,    \* cur_start, or -1 for None
    windows,  \* the windows built so far
    next,     \* the next window of _add_overlap
    chunks    \* the chunks it has returned

input == <<text, chunk_size, chunk_overlap>>
splitVars == <<frames, at, start, windows>>
chunkVars == <<next, chunks>>

Largest(a, b) == IF a >= b THEN a ELSE b
Smallest(a, b) == IF a <= b THEN a ELSE b

Spans == [start : Nat, end : Nat]

ChunkingTypeOK ==
    /\ IsText(text)
    /\ chunk_size \in Nat \ {0} /\ chunk_overlap \in 0 .. chunk_size - 1
    /\ frames \in Seq([separator : 1 .. Separators, end : Nat])
    /\ at \in 0 .. text.length
    /\ start \in -1 .. text.length
    /\ windows \in Seq(Spans)
    /\ next \in Nat \ {0}
    /\ chunks \in Seq(Spans)
-----------------------------------------------------------------------------
(* _build_windows                                                           *)

\* _pick_separator on a slice, from separator `from` on.
Occurs(t, l, a, b) == \E e \in t.ends[l] : a < e /\ e <= b

\* Mutant: any separator that occurs will do.
PickedAny(t, from, l, a, b) == l \in from .. Separators /\ Occurs(t, l, a, b)

\* Mutant: the empty separator is not in the list.
PickedNotEmpty(t, from, l, a, b) ==
    /\ l \in from .. Separators - 1
    /\ Occurs(t, l, a, b)
    /\ \A coarser \in from .. l - 1 : ~Occurs(t, coarser, a, b)

Picked(t, from, l, a, b) ==
    /\ l \in from .. Separators
    /\ Occurs(t, l, a, b)
    /\ \A coarser \in from .. l - 1 : ~Occurs(t, coarser, a, b)

\* _split_with_positions: e ends the piece that begins at a.
IsPiece(t, l, a, e, b) ==
    /\ a < e /\ e <= b
    /\ e \in t.ends[l] \/ e = b
    /\ \A d \in t.ends[l] : ~(a < d /\ d < e)

\* An empty text has no chunks; the others begin with one call for all of it.
ChunkingInit ==
    /\ text \in Texts
    /\ \E s \in Sizes : chunk_size = s[1] /\ chunk_overlap = s[2]
    /\ IF text.length = 0
       THEN frames = <<>>
       ELSE \E l \in 1 .. Separators :
               /\ Picked(text, 1, l, 0, text.length)
               /\ frames = <<[separator |-> l, end |-> text.length]>>
    /\ at = 0
    /\ start = -1
    /\ windows = <<>>
    /\ next = 1
    /\ chunks = <<>>

Top == frames[Len(frames)]
NextPiece(e) == frames # <<>> /\ IsPiece(text, Top.separator, at, e, Top.end)

\* The window under way, if there is one, is complete.
Flushed == IF start = -1 THEN windows ELSE Append(windows, [start |-> start, end |-> at])

\* Mutant: a window is never full.
FitsBelow(e) == start # -1 /\ e - start < chunk_size

Fits(e) == start # -1 /\ e - start <= chunk_size

\* The piece still fits into the window.
ExtendWindow ==
    \E e \in 1 .. text.length :
        /\ NextPiece(e) /\ Fits(e)
        /\ at' = e
        /\ UNCHANGED <<frames, start, windows, chunkVars, input>>

\* It does not, and begins the next window.
StartWindow ==
    \E e \in 1 .. text.length :
        /\ NextPiece(e) /\ ~Fits(e) /\ e - at <= chunk_size
        /\ windows' = Flushed
        /\ start' = at
        /\ at' = e
        /\ UNCHANGED <<frames, chunkVars, input>>

\* Mutant: the window under way is forgotten.
ExpandForgetting ==
    \E e \in 1 .. text.length :
        /\ NextPiece(e) /\ ~Fits(e) /\ e - at > chunk_size
        /\ start' = -1
        /\ \E l \in 1 .. Separators :
              /\ Picked(text, Top.separator + 1, l, at, e)
              /\ frames' = Append(frames, [separator |-> l, end |-> e])
        /\ UNCHANGED <<at, windows, chunkVars, input>>

\* Mutant: the separator of the piece is tried again.
ExpandAgain ==
    \E e \in 1 .. text.length :
        /\ NextPiece(e) /\ ~Fits(e) /\ e - at > chunk_size
        /\ windows' = Flushed
        /\ start' = -1
        /\ \E l \in 1 .. Separators :
              /\ Picked(text, Top.separator, l, at, e)
              /\ frames' = Append(frames, [separator |-> l, end |-> e])
        /\ UNCHANGED <<at, chunkVars, input>>

\* It is longer than a window: it is cut on a finer separator.
ExpandOversized ==
    \E e \in 1 .. text.length :
        /\ NextPiece(e) /\ ~Fits(e) /\ e - at > chunk_size
        /\ windows' = Flushed
        /\ start' = -1
        /\ \E l \in 1 .. Separators :
              /\ Picked(text, Top.separator + 1, l, at, e)
              /\ frames' = Append(frames, [separator |-> l, end |-> e])
        /\ UNCHANGED <<at, chunkVars, input>>

\* All pieces are taken: the call returns.
ReturnWindows ==
    /\ frames # <<>> /\ at = Top.end
    /\ windows' = Flushed
    /\ start' = -1
    /\ frames' = SubSeq(frames, 1, Len(frames) - 1)
    /\ UNCHANGED <<at, chunkVars, input>>
-----------------------------------------------------------------------------
(* _add_overlap                                                             *)

LastChunk == chunks[Len(chunks)]

\* prev_end, the end of the chunk emitted last.
PrevEnd == IF chunks = <<>> THEN 0 ELSE LastChunk.end

\* Mutant: the overlap is not clamped at the beginning of the text.
OverlapUnclamped(w) ==
    IF next = 1 \/ chunk_overlap = 0
    THEN w.start
    ELSE Smallest(PrevEnd, w.start) - chunk_overlap

\* Mutant: the overlap is counted from the start of the chunk before.
OverlapFromStart(w) ==
    IF next = 1 \/ chunk_overlap = 0
    THEN w.start
    ELSE Largest(0, Smallest(LastChunk.start, w.start) - chunk_overlap)

\* The first window has none.
OverlapStart(w) ==
    IF next = 1 \/ chunk_overlap = 0
    THEN w.start
    ELSE Largest(0, Smallest(PrevEnd, w.start) - chunk_overlap)

\* A chunk within the one before it is left out.
Redundant(c) ==
    chunks # <<>> /\ c.start <= LastChunk.start /\ c.end <= LastChunk.end

AddOverlap ==
    /\ frames = <<>> /\ next <= Len(windows)
    /\ LET w == windows[next]
           c == [start |-> OverlapStart(w), end |-> w.end]
       IN  chunks' = IF Redundant(c) \/ c.start >= c.end THEN chunks ELSE Append(chunks, c)
    /\ next' = next + 1
    /\ UNCHANGED <<splitVars, input>>

ChunkingNext == ExtendWindow \/ StartWindow \/ ExpandOversized \/ ReturnWindows \/ AddOverlap

Chunked == frames = <<>> /\ next > Len(windows)
=============================================================================
