-------------------------- MODULE MCQueryOfTenant --------------------------
(***************************************************************************)
(* A small instance of QueryOfTenant for TLC: the tenant moves the         *)
(* Connection from one Databricks host to another that has the same table. *)
(***************************************************************************)
EXTENDS QueryOfTenant

CONSTANTS c1, w1, t1, h1, h2, i1, n1

AllProvisioned == Hosts \X WarehouseIDs
AllQueryable == [p \in Hosts \X TableNames |-> "queryable"]
OneEach == [o \in Objects |-> 1]

HostSpecs ==
    [o \in Objects |->
        CASE o = c1 -> [host : Hosts, authType : {"PAT"}]
          [] o = w1 -> {[connectionRef |-> c1, warehouseID |-> i1]}
          [] o = t1 -> {[connectionRef |-> c1, warehouseRef |-> w1, table |-> n1]}]
ConnectionTwice == [o \in Objects |-> IF o \in Connections THEN 2 ELSE 1]

\* The behaviours in which the caller keeps both rights and asks for columns
\* the table has, no call to kcp fails and no deadline passes: requests that
\* are cut short reach nothing that others do not.
Calm == /\ q'.projection \in {"none", "known"}
        /\ q'.cause \notin {"unreadable", "deadline"}
        /\ rights' = rights

CalmSpec == OfTenantInit /\ rights = Rights /\ [][OfTenantNext /\ Calm]_allOf
=============================================================================
