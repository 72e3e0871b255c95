------------------------------ MODULE Assembly ------------------------------
(***************************************************************************)
(* What is indexed is what is answered from: the chunks of a text, put     *)
(* together again by _assemble_documents                                   *)
(* (src/doccontext/services/query_service.py) for a FULL_DOC question, are *)
(* that text.  The chunks of a document are read by their chunk_index, in  *)
(* whatever order the store listed them; here they are those of one        *)
(* version of the document (DocumentClaims shows when they are not).       *)
(***************************************************************************)
EXTENDS Chunking

VARIABLES
    read,    \* the number of chunks put together
    cursor,  \* the end of what is covered so far
    built    \* the text so far: the positions of its characters

vars == <<input, splitVars, chunkVars, read, cursor, built>>

TypeOK ==
    /\ ChunkingTypeOK
    /\ read \in Nat /\ cursor \in Nat
    /\ built \in Seq(Nat)

Init == ChunkingInit /\ read = 0 /\ cursor = 0 /\ built = <<>>

\* text[a:b], as the positions of its characters.
Slice(a, b) == [i \in 1 .. Largest(0, b - a) |-> a + i]

Chunk == ChunkingNext /\ UNCHANGED <<read, cursor, built>>

\* Mutant: the overlap is appended again.
AssembleAll ==
    /\ Chunked /\ read < Len(chunks)
    /\ LET c == chunks[read + 1]
       IN  /\ built' = built \o Slice(c.start, c.end)
           /\ cursor' = Largest(cursor, c.end)
    /\ read' = read + 1
    /\ UNCHANGED <<input, splitVars, chunkVars>>

\* One round of the loop of _assemble_documents: of a chunk that begins before
\* the cursor only the rest is appended.
Assemble ==
    /\ Chunked /\ read < Len(chunks)
    /\ LET c == chunks[read + 1]
           overlap == IF c.start >= cursor THEN 0 ELSE cursor - c.start
       IN  /\ built' = built \o Slice(c.start + overlap, c.end)
           /\ cursor' = Largest(cursor, c.end)
    /\ read' = read + 1
    /\ UNCHANGED <<input, splitVars, chunkVars>>

Done == Chunked /\ read = Len(chunks)

Next == Chunk \/ Assemble

Spec == Init /\ [][Next]_vars
FairSpec == Spec /\ WF_vars(Next)

\* _citations_for_full_doc: the span of all chunks of the document.
Span == [start |-> CHOOSE a \in 0 .. text.length :
                      /\ \E i \in DOMAIN chunks : chunks[i].start = a
                      /\ \A i \in DOMAIN chunks : a <= chunks[i].start,
         end   |-> CHOOSE b \in 0 .. text.length :
                      /\ \E i \in DOMAIN chunks : chunks[i].end = b
                      /\ \A i \in DOMAIN chunks : b >= chunks[i].end]
-----------------------------------------------------------------------------
Follow(s, first) ==
    \A i \in DOMAIN s : s[i].start = (IF i = 1 THEN first ELSE s[i - 1].end)

\* The windows tile what is read of the text, without a gap or an overlap, in
\* windows that are not empty and not longer than chunk_size.
WindowsTile ==
    /\ Follow(windows, 0)
    /\ \A i \in DOMAIN windows :
          /\ windows[i].start < windows[i].end
          /\ windows[i].end - windows[i].start <= chunk_size
    /\ frames = <<>> =>
          (IF windows = <<>> THEN 0 ELSE windows[Len(windows)].end) = text.length

\* Neighbouring chunks overlap by chunk_overlap characters, or by all there
\* are, no window is left out, and no chunk is within the one before it.
ChunksOverlap ==
    \A i \in DOMAIN chunks :
        /\ chunks[i].end = windows[i].end
        /\ chunks[i].end - chunks[i].start <= chunk_size + chunk_overlap
        /\ i > 1 => /\ chunks[i].start =
                          Largest(0, chunks[i - 1].end - chunk_overlap)
                    /\ chunks[i - 1].end < chunks[i].end

\* What is put together is the text up to the cursor, no character missing,
\* repeated or out of place; in the end it is all of the text, and so is the
\* span of the citation.
RoundTrip ==
    /\ built = Slice(0, cursor)
    /\ Done => /\ cursor = text.length
               /\ chunks # <<>> => Span = [start |-> 0, end |-> text.length]

\* A text that fits into a chunk is one chunk.
ShortTextIsOneChunk ==
    text.length \in 1 .. chunk_size /\ Chunked
    => chunks = <<[start |-> 0, end |-> text.length]>>

\* A cut is made on the coarsest separator that fits: where separator l does not
\* cut but a finer one does, the piece between two cuts of l is longer than a
\* window.
CutsAreNatural ==
    \A i \in DOMAIN windows : \A l \in 1 .. Separators :
        LET p    == windows[i].end
            Cuts == text.ends[l] \cup {0, text.length}
        IN  p # text.length /\ (\A k \in 1 .. l : p \notin text.ends[k])
            => \A a, b \in Cuts : a < p /\ p < b => b - a > chunk_size

\* The loop over the pieces never runs dry: as long as the innermost call has text
\* left there is a piece to take, and if that is longer than a window there is a
\* finer separator for it (recursive.py:127-139).
AnotherPiece ==
    frames # <<>> /\ at # Top.end =>
        \E e \in 1 .. text.length :
            /\ NextPiece(e)
            /\ e - at > chunk_size =>
                   \E l \in 1 .. Separators : Picked(text, Top.separator + 1, l, at, e)

\* What is left to do at one place of the text: calls to return from, at the end
\* of theirs, or else finer separators to try.
LeftHere ==
    IF frames = <<>> THEN 0
    ELSE IF at = Top.end THEN Separators + Len(frames)
    ELSE Separators - Top.separator

\* Every step brings the end nearer: it moves on in the text or, at the same place,
\* to a finer separator or out of a call; then to the next window, and to the next
\* chunk.  None of these goes on for ever, and so neither does the recursion.
EveryStepCounts ==
    [][\/ at' > at
       \/ at' = at /\ LeftHere' < LeftHere
       \/ UNCHANGED splitVars /\ next' > next
       \/ UNCHANGED <<splitVars, chunkVars>> /\ read' > read]_vars

\* The recursion ends: the chunker returns and the text is put together.
Ends == <>Done
=============================================================================
