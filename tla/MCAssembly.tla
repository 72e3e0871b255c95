----------------------------- MODULE MCAssembly -----------------------------
(* Short texts for TLC, and where the separators of _DEFAULT_SEPARATORS end  *)
(* in them.                                                                  *)
EXTENDS Assembly

CONSTANTS MaxLength, MaxSize

Letters == {"newline", "stop", "space", "letter"}

\* "\n\n" is searched for from the left, so it ends at every second newline of a
\* run; "\n", ". " and " " end at their last character and "" everywhere.
Newlines(s, a, b) == \A i \in a .. b : s[i] = "newline"
Ends1(s) == {p \in DOMAIN s : \E a \in 1 .. p :
                /\ Newlines(s, a, p) /\ (p - a) % 2 = 1
                /\ a = 1 \/ s[a - 1] # "newline"}
EndsOf(s) ==
    <<Ends1(s),
      {p \in DOMAIN s : s[p] = "newline"},
      {p \in DOMAIN s : p > 1 /\ s[p] = "space" /\ s[p - 1] = "stop"},
      {p \in DOMAIN s : s[p] = "space"},
      DOMAIN s>>

MCTexts == {[length |-> Len(s), ends |-> EndsOf(s)] :
               s \in UNION {[1 .. n -> Letters] : n \in 0 .. MaxLength}}
MCSizes == {<<size, overlap>> \in (1 .. MaxSize) \X (0 .. MaxSize - 1) : overlap < size}
=============================================================================
