---------------------------- MODULE WorkshopShelf ----------------------------
(* The filial's lots, transfers and ODTs implement the abstract shelf.       *)
EXTENDS Workshop

OnHand   == Units([l \in LotIds |-> lots[l].remaining], LotIds)
Promised == [r \in Requests |-> IF FirmHold(r) THEN Units(requests[r].alloc, LotIds) ELSE 0]
Served   == {r \in Requests : requests[r].deducted}

AbstractShelf == INSTANCE Shelf
  WITH onHand <- OnHand, promised <- Promised, served <- Served

\* Every entry, exit, transfer, submission, dispatch, cancellation and delivery
\* is one step of the abstract shelf or none: in particular a transfer, however
\* many lots it splits, neither makes nor loses units nor changes a promise
\* (dispatch.py, warehouse/service.py, warehouse/reservations.py).
ShelfPromise == AbstractShelf!Spec
=============================================================================
