--------------------------- MODULE MCRegistration ---------------------------
(***************************************************************************)
(* A wizard that registers two Tables on Warehouse w1; a script that       *)
(* registers that Warehouse, or names it twice in one request; a client    *)
(* that browses.  Others may put another specification in the place of a   *)
(* Table, and a Warehouse of another Connection in that of w1.             *)
(***************************************************************************)
EXTENDS Registration, TLC

CONSTANTS w, s, d, t1, t2, w1, c1, c2

Item(name, data) == [name |-> name, data |-> data]

MCSlots == {<<w, 1>>, <<w, 2>>, <<s, 1>>, <<d, 1>>}
MCKindOf == w :> "table" @@ s :> "warehouse" @@ d :> "discovery"
MCConnectionRef == w :> c1 @@ s :> c1 @@ d :> c1
MCWarehouseRef == w :> w1 @@ s :> None @@ d :> None
MCItems == w :> <<Item(t1, "a"), Item(t2, "b")>> @@ s :> <<Item(w1, "a")>> @@ d :> <<>>
MCBatches == w :> {<<1, 2>>} @@ s :> {<<1>>, <<1, 1>>} @@ d :> {<<>>}
MCIds == {<<"table", t1>>, <<"table", t2>>, <<"warehouse", w1>>}
MCSpecs == {Normalize(w, 1).spec, Normalize(w, 2).spec, Normalize(s, 1).spec,
            [Normalize(s, 1).spec EXCEPT !.connectionRef = c2]}
MCWritable ==
    [id \in MCIds |-> IF id[1] = "table" THEN {Normalize(w, 1).spec, Normalize(w, 2).spec}
                      ELSE {Normalize(s, 1).spec, [Normalize(s, 1).spec EXCEPT !.connectionRef = c2]}]
MCInitObjs == [MCIds -> {None}] \cup
              {[id \in MCIds |-> IF id = <<"warehouse", w1>> THEN Normalize(s, 1).spec ELSE None]}
MCRevocable == {w} \X {<<"connections", "get">>, <<"table", "create">>, <<"warehouse", "get">>}
=============================================================================
