------------------------------- MODULE PyStr -------------------------------
(***************************************************************************)
(* The Python str operations prte-convert-help.py builds its scanners on,  *)
(* over TLA+ sequences, with Python's 0-based indices: str.find with start *)
(* and end bounds, slicing and indexing, all with Python's treatment of    *)
(* negative and out-of-range indices.  A string is a sequence of symbols;  *)
(* the scanners only compare symbols for equality.                         *)
(***************************************************************************)
EXTENDS Integers, Sequences

(* A slice or find bound i on a string of length n, as CPython adjusts it: *)
(* negative bounds count from the end, and both are clamped to 0..n.       *)
PyBound(i, n) ==
  IF i < 0 THEN (IF i + n < 0 THEN 0 ELSE i + n)
           ELSE (IF i > n THEN n ELSE i)

(* s.find(c, start, end) for a one-symbol c: the least index i with        *)
(* start <= i < end and s[i] = c, or -1.                                   *)
PyFind(s, c, start, end) ==
  LET lo == PyBound(start, Len(s))
      hi == PyBound(end, Len(s))
      hits == {i \in lo..hi-1 : s[i + 1] = c}
  IN IF hits = {} THEN -1
     ELSE CHOOSE i \in hits : \A j \in hits : i <= j

(* s.find(c, start) *)
PyFindFrom(s, c, start) == PyFind(s, c, start, Len(s))

(* s.find(c1 \o c2, start, end) for a two-symbol needle: the match must   *)
(* lie wholly inside [start, end).                                         *)
PyFindPair(s, c1, c2, start, end) ==
  LET lo == PyBound(start, Len(s))
      hi == PyBound(end, Len(s))
      hits == {i \in lo..hi-2 : s[i + 1] = c1 /\ s[i + 2] = c2}
  IN IF hits = {} THEN -1
     ELSE CHOOSE i \in hits : \A j \in hits : i <= j

(* s[a:b] *)
PySlice(s, a, b) ==
  LET lo == PyBound(a, Len(s))
      hi == PyBound(b, Len(s))
  IN IF lo >= hi THEN <<>> ELSE SubSeq(s, lo + 1, hi)

(* s.replace(old, new) for a non-empty old: every occurrence, left to      *)
(* right and without overlap, replaced.                                    *)
RECURSIVE PyReplace(_, _, _)
PyReplace(s, old, new) ==
  IF Len(s) < Len(old) THEN s
  ELSE IF SubSeq(s, 1, Len(old)) = old
         THEN new \o PyReplace(SubSeq(s, Len(old) + 1, Len(s)), old, new)
         ELSE <<Head(s)>> \o PyReplace(Tail(s), old, new)

(* s.strip() where the symbols of ws are the whitespace: s from its first  *)
(* to its last symbol outside ws.                                          *)
PyStrip(s, ws) ==
  LET keep == {i \in DOMAIN s : s[i] \notin ws}
  IN IF keep = {} THEN <<>>
     ELSE SubSeq(s, CHOOSE i \in keep : \A j \in keep : i <= j,
                    CHOOSE i \in keep : \A j \in keep : i >= j)

(* s[i] is defined for -Len(s) <= i < Len(s); otherwise IndexError.        *)
PyIndexOK(s, i) == -Len(s) <= i /\ i < Len(s)

PyIndex(s, i) == IF i < 0 THEN s[Len(s) + i + 1] ELSE s[i + 1]

=============================================================================
