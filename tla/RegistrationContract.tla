------------------------ MODULE RegistrationContract ------------------------
(***************************************************************************)
(* What POST /api/v1/registrations promises its callers, without           *)
(* authorization, preflight, clients or races: a request is refused as a   *)
(* whole before any of its items is touched, or every item is decided in   *)
(* turn, each in one indivisible look at the resource of its name.         *)
(* Nothing that exists is ever overwritten.  Only an item answered         *)
(* "failed" leaves open whether it was, or still will be, created.         *)
(***************************************************************************)
EXTENDS Naturals, Sequences

CONSTANTS
    Slots,      \* places for requests that are being served
    Ids,        \* resources, by kind and name
    Specs,      \* specifications of resources
    None

VARIABLES
    obj,        \* the resources of the tenant
    late,       \* creations that were given up by the provider and may still happen
    others,     \* the number of changes made by anyone else
    call        \* the requests

contractVars == <<obj, late, others, call>>

ItemStates == {"created", "existing", "conflict", "failed"}

IdleCall == [status |-> "free", items |-> <<>>, answers |-> <<>>]
-----------------------------------------------------------------------------
\* The item of request r that is decided next.
Turn(r) == call[r].items[Len(call[r].answers) + 1]

\* One more item of request r is answered.
Decide(r, state) ==
    /\ call[r].status = "open"
    /\ Len(call[r].answers) < Len(call[r].items)
    /\ call' = [call EXCEPT ![r].answers = Append(@, state)]
    /\ UNCHANGED others

\* A request with any items arrives.
Begin(r) ==
    /\ call[r].status = "free"
    /\ call'[r].items \in Seq([id : Ids, spec : Specs])
    /\ call' = [call EXCEPT ![r] = [status |-> "open", answers |-> <<>>,
                                    items |-> call'[r].items]]
    /\ others' \in {others, others + 1}
    /\ UNCHANGED <<obj, late>>

Refuse(r) ==
    /\ call[r].status = "open"
    /\ call[r].answers = <<>>
    /\ call' = [call EXCEPT ![r].status = "refused"]
    /\ UNCHANGED <<obj, late, others>>

DecideCreated(r) ==
    /\ Decide(r, "created")
    /\ obj[Turn(r).id] = None
    /\ obj' = [obj EXCEPT ![Turn(r).id] = Turn(r).spec]
    /\ UNCHANGED late

DecideExisting(r) ==
    /\ Decide(r, "existing")
    /\ obj[Turn(r).id] = Turn(r).spec
    /\ UNCHANGED <<obj, late>>

DecideConflict(r) ==
    /\ Decide(r, "conflict")
    /\ obj[Turn(r).id] \notin {None, Turn(r).spec}
    /\ UNCHANGED <<obj, late>>

DecideFailed(r) ==
    /\ Decide(r, "failed")
    /\ \/ UNCHANGED <<obj, late>>
       \/ /\ obj[Turn(r).id] = None
          /\ obj' = [obj EXCEPT ![Turn(r).id] = Turn(r).spec]
          /\ UNCHANGED late
       \/ late' = late \cup {Turn(r)} /\ UNCHANGED obj

\* Every item has its answer, or the request was refused.
Release(r) ==
    /\ \/ call[r].status = "refused"
       \/ call[r].status = "open" /\ Len(call[r].answers) = Len(call[r].items)
    /\ call' = [call EXCEPT ![r] = IdleCall]
    /\ UNCHANGED <<obj, late, others>>

\* A creation given up earlier happens after all, if the name is still free.
Land(e) ==
    /\ late' = late \ {e}
    /\ obj' = IF obj[e.id] = None THEN [obj EXCEPT ![e.id] = e.spec] ELSE obj
    /\ UNCHANGED <<others, call>>

\* Everyone else: at most one resource changes, in any way.
Others ==
    /\ others' = others + 1
    /\ \E id \in Ids, v \in Specs \cup {None} : obj' = [obj EXCEPT ![id] = v]
    /\ UNCHANGED <<late, call>>

ContractInit ==
    /\ obj \in [Ids -> Specs \cup {None}]
    /\ late = {}
    /\ others = 0
    /\ call = [r \in Slots |-> IdleCall]

ContractNext ==
    \/ \E r \in Slots :
          \/ Begin(r) \/ Refuse(r) \/ Release(r)
          \/ DecideCreated(r) \/ DecideExisting(r)
          \/ DecideConflict(r) \/ DecideFailed(r)
    \/ \E e \in late : Land(e)
    \/ Others

\* The promise, as a specification.
Contract == ContractInit /\ [][ContractNext]_contractVars
=============================================================================
