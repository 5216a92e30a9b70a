------------------------------ MODULE Ordering ------------------------------
(***************************************************************************)
(* ORDER BY and sort.Slice: the members of a finite set one after another. *)
(* The i-th is the one with i - 1 before it.  (SetToSortSeq comes to the   *)
(* same, but the proof system has no definition of SortSeq.)               *)
(***************************************************************************)
EXTENDS Naturals, FiniteSets

OrderedBy(S, ComesBefore(_, _)) ==
    [i \in 1 .. Cardinality(S) |->
        CHOOSE p \in S : Cardinality({q \in S : ComesBefore(q, p)}) = i - 1]
=============================================================================
