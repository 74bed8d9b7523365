--------------------------- MODULE QueryOfTenant ---------------------------
(***************************************************************************)
(* A query_table request beside the reconcilers themselves: Query takes of *)
(* them only their contract, here they are composed with it.  The request  *)
(* reads the API server, never the reconcilers' caches, so each side's     *)
(* steps leave the other's private state alone.                            *)
(***************************************************************************)
EXTENDS Reconcile, Query

allOf == <<vars, qvars>>

OfTenantInit == /\ Init
                /\ rights \in SUBSET Rights
                /\ q = Idle

OfTenantNext ==
    \/ Next /\ UNCHANGED qvars
    \/ /\ \/ \E t \in Tables, p \in Projections : Arrive(t, p)
          \/ Step
          \/ CallFails
          \/ Expire
          \/ \E granted \in SUBSET Rights : RightsChange(granted)
       /\ UNCHANGED vars

OfTenantSpec == OfTenantInit /\ [][OfTenantNext]_allOf
-----------------------------------------------------------------------------
(***************************************************************************)
(* What the repository says of a Table's cached schema                     *)
(***************************************************************************)
\* A caller is told to take the columns of a Table whose Ready condition is
\* current as the schema of the bound Table, and the projection is checked
\* against them.  So a request that has passed every check of the chain
\* would send its statement to the host these columns were fetched from.
AllowlistIsOfHost ==
    q.stage = "execute" =>
        \A s \in q.tbl.status.columns : s.host = q.conn.spec.host
=============================================================================
