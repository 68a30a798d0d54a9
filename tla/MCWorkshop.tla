----------------------------- MODULE MCWorkshop -----------------------------
(* Workshop on a small instance: two orders with one ODT each, the           *)
(* workshop's warehouse and one other.                                       *)
EXTENDS WorkshopShelf, TLC

CONSTANTS shop, depot, o1, o2, r1, r2, t1

MCWarehouses == {shop, depot}
MCOrders     == {o1, o2}
MCRequests   == {r1, r2}
MCOneRequest == {r1}
MCOneOrderOf == r1 :> o1
MCOrderOf    == (r1 :> o1) @@ (r2 :> o2)

\* Stock entries of two units into the other warehouse, of one into the shop's.
MCEntries == {<<depot, 2>>, <<shop, 1>>}

\* Stock exits of one unit from either.
MCExits == {<<depot, 1>>, <<shop, 1>>}

\* One unit at a time, for the runs that need many steps rather than many units.
MCEntriesOne == {<<depot, 1>>, <<shop, 1>>}
MCExitsOne   == {<<shop, 1>>}
=============================================================================
