-------------------------- MODULE MCClientFactory --------------------------
(***************************************************************************)
(* Small instances of ClientFactory for TLC.  Requests, clusters and hosts *)
(* are interchangeable.                                                    *)
(***************************************************************************)
EXTENDS ClientFactory, TLC

Symmetry == Permutations(Requests) \cup Permutations(Clusters)
            \cup Permutations(Hosts)
=============================================================================
