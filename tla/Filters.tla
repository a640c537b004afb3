------------------------------- MODULE Filters -------------------------------
(***************************************************************************)
(* The loops that push back what they take of a vector, as a filter that   *)
(* is given the set of what is taken (SelectSeq takes a test, which the    *)
(* prover cannot reason about).                                            *)
(***************************************************************************)
EXTENDS SequencesExt

\* The elements of s that are in A, in the order of s.
Only(s, A) == FoldLeft(LAMBDA kept, e : IF e \in A THEN Append(kept, e) ELSE kept, <<>>, s)
==============================================================================
