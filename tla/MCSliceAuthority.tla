-------------------------- MODULE MCSliceAuthority --------------------------
(***************************************************************************)
(* Small instances of SliceAuthority for TLC: three shards, so that more   *)
(* than one is left when one comes or goes, and two clusters on different  *)
(* shards.  Requests are interchangeable.                                  *)
(***************************************************************************)
EXTENDS SliceAuthority, TLC

CONSTANTS s1, s2, s3, c1, c2

HomeOfTwo == (c1 :> s1) @@ (c2 :> s2)

Symmetry == Permutations(Requests)
=============================================================================
