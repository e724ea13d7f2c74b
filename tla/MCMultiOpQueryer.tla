------------------------- MODULE MCMultiOpQueryer --------------------------
(***************************************************************************)
(* Calls below, at and above maxBatchSize, with a rest and without one     *)
(* (an empty last chunk), with files in some chunks, in all of one, or in  *)
(* none.                                                                   *)
(***************************************************************************)
EXTENDS MultiOpQueryer

C(n, max, files) == [n |-> n, max |-> max, files |-> files]

MCCall == { C(0, 2, {}), C(2, 2, {1}), C(3, 3, {2}), C(3, 1, {}), C(4, 2, {1, 2}),
            C(4, 2, {3}), C(5, 2, {2}), C(7, 3, {2, 5}) }
=============================================================================
