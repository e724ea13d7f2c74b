---------------------------- MODULE Enumeration ----------------------------
(***************************************************************************)
(* What a Go loop over a slice that keeps some of its elements comes to:   *)
(* the indexes of those it keeps, in their order.                          *)
(***************************************************************************)
EXTENDS Naturals, FiniteSets

\* The members of a finite set of numbers, from the least to the greatest.
InOrder(I) ==
  [k \in 1 .. Cardinality(I) |->
     CHOOSE i \in I : Cardinality({ j \in I : j < i }) = k - 1]

\* The elements of seq at these indexes.
Only(seq, I) == [k \in 1 .. Cardinality(I) |-> seq[InOrder(I)[k]]]
=============================================================================
