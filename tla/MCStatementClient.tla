------------------------- MODULE MCStatementClient -------------------------
(***************************************************************************)
(* Listings of up to two pages more than are read, tables on any of them;  *)
(* results of up to three rows and columns where two of either are allowed,*)
(* with rows of any width and cells of two sizes, so that some results fit *)
(* on every wire, some on one of them and some lose rows and columns;      *)
(* requests that go one beyond each limit.                                 *)
(***************************************************************************)
EXTENDS StatementClient

MCListings ==
    {l \in [honest : BOOLEAN, pages : 1..(MaxPages + 2), at : 0..(MaxPages + 2),
            type : {"MANAGED", "METRIC_VIEW"}] :
        /\ l.at <= l.pages
        /\ ~l.honest => l.pages = 1 /\ l.at = 0}

MCTokens == 2..(MaxPages + 2)

Names == {<<>>, <<"a">>, <<"a", "b">>, <<"a", "a">>, <<"a", "b", "a">>, <<"a", "b", "c">>}

Row(width, bytes) == [width |-> width, bytes |-> bytes]
Rows == {Row(0, 1), Row(1, 1), Row(1, 6), Row(2, 1), Row(2, 6), Row(3, 6)}

MCResponses ==
    {r \in [columns : Names, rows : BoundedSeq(Rows, 3), cut : BOOLEAN] :
        r.cut => Len(r.rows) <= 1}

MCEntries ==
    [resource : {"warehouses", "catalogs", "schemas", "tables"},
     entries  : BoundedSeq([name : Fields, catalog : Fields, schema : Fields,
                            type : {"MANAGED", "METRIC_VIEW"}], 1)]

MCRequests ==
    [columns : BoundedSeq({"a", "b", Bad}, MaxColumns + 1), limit : 0..(MaxRows + 1),
     schema  : {{}, {"a"}, {"a", "b"}}]

MCInventories == BoundedSeq([ok : BOOLEAN, bytes : {1, 3, 9}], 4)
=============================================================================
