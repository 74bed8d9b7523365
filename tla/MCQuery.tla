------------------------------ MODULE MCQuery ------------------------------
(***************************************************************************)
(* Small instances of Query for TLC.                                       *)
(***************************************************************************)
EXTENDS Query

CONSTANTS c1, w1, t1, h1, i1, n1, n2

OnC1 == [connectionRef |-> c1, warehouseID |-> i1]
Named(name) == [connectionRef |-> c1, warehouseRef |-> w1, table |-> name]

AllProvisioned == Hosts \X WarehouseIDs
AllQueryable == [p \in Hosts \X TableNames |-> "queryable"]
OneEach == [o \in Objects |-> 1]

\* The Table's spec moves between the Databricks tables.
TableSpecs == [o \in Objects |->
                 CASE o = c1 -> {[host |-> h1, authType |-> "PAT"]}
                   [] o = w1 -> {OnC1}
                   [] o = t1 -> {Named(n) : n \in TableNames}]
TableTwice == [o \in Objects |-> IF o \in Tables THEN 2 ELSE 1]
=============================================================================
