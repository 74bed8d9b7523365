---------------------------- MODULE MCReconcile ----------------------------
(***************************************************************************)
(* Small instances of Reconcile for TLC: at most one Connection, one       *)
(* Warehouse and one Table.                                                *)
(***************************************************************************)
EXTENDS Reconcile

CONSTANTS c1, w1, t1, h1, h2, h3, i1, n1, n2

Pat(host) == [host |-> host, authType |-> "PAT"]
OnC1 == [connectionRef |-> c1, warehouseID |-> i1]
Named(name) == [connectionRef |-> c1, warehouseRef |-> w1, table |-> name]

AllProvisioned == Hosts \X WarehouseIDs
AllQueryable == [p \in Hosts \X TableNames |-> "queryable"]
QueryableButOnH3 == [p \in Hosts \X TableNames |->
                       IF p[1] # h3 THEN "queryable" ELSE "unsupported"]
OnlyN1 == [p \in Hosts \X TableNames |->
             IF p[2] = n1 THEN "queryable" ELSE "unsupported"]
OneEach == [o \in Objects |-> 1]

\* The Table's spec moves between two Databricks tables.
TableSpecs == [o \in Objects |-> CASE o = c1 -> {Pat(h1)}
                                   [] o = w1 -> {OnC1}
                                   [] o = t1 -> {Named(n) : n \in TableNames}]
TableTwice == [o \in Objects |-> IF o \in Tables THEN 2 ELSE 1]

\* The Connection may have an auth type that is not supported.
AuthSpecs == [TableSpecs EXCEPT ![c1] = {Pat(h1), [host |-> h1, authType |-> "other"]}]

\* The Connection's spec moves between hosts.
HostSpecs == [TableSpecs EXCEPT ![c1] = {Pat(h) : h \in Hosts}]
ConnectionTwice == [o \in Objects |-> IF o \in Connections THEN 2 ELSE 1]
=============================================================================
