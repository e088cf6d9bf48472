------------------------------ MODULE JobLists ------------------------------
(***************************************************************************)
(* The order that the abstract queue and the lists of pointers share: the  *)
(* jobs of one priority, in the order of a sequence of jobs.               *)
(***************************************************************************)
EXTENDS Integers, Sequences

\* At k, the jobs of priority i among the first k of s
Kept(s, index, i) ==
  LET kept[k \in 0..Len(s)] ==
        IF k = 0 THEN <<>>
        ELSE IF index[s[k]] = i THEN Append(kept[k - 1], s[k]) ELSE kept[k - 1]
  IN kept

\* What SelectSeq keeps of s for the test index[n] = i.  The provers cannot unfold
\* SelectSeq; a recursive function they can.
OfPriority(s, index, i) == Kept(s, index, i)[Len(s)]
=============================================================================
