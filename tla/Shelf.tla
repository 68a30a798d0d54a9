-------------------------------- MODULE Shelf --------------------------------
(***************************************************************************)
(* What the shelf promises, without lots, warehouses or transfers: units   *)
(* are received once, leave once, and a unit promised to a request leaves  *)
(* with that request or is released, never with somebody else.  Moving     *)
(* units between warehouses is no step at all.                             *)
(***************************************************************************)
EXTENDS Integers, Functions

CONSTANT Requests

VARIABLES
  onHand,    \* units in the filial
  promised,  \* units of them each request holds
  served     \* requests whose units have left

shelfVars == <<onHand, promised, served>>

Total(S) == SumFunctionOnSet(promised, S)

Init ==
  /\ onHand = 0
  /\ promised = [r \in Requests |-> 0]
  /\ served = {}

Receive ==
  /\ onHand' > onHand
  /\ UNCHANGED <<promised, served>>

\* Units that nobody was promised leave for another purpose.
Issue ==
  /\ onHand' < onHand
  /\ onHand' >= Total(Requests)
  /\ UNCHANGED <<promised, served>>

Promise(r, n) ==
  /\ r \notin served
  /\ promised[r] = 0
  /\ n <= onHand - Total(Requests)
  /\ promised' = [promised EXCEPT ![r] = n]
  /\ UNCHANGED <<onHand, served>>

\* Requests that are given up return their units.
Release(S) ==
  /\ promised' = [r \in Requests |-> IF r \in S THEN 0 ELSE promised[r]]
  /\ UNCHANGED <<onHand, served>>

\* A request leaves once, with its units and with others that were free.
Serve(r) ==
  /\ r \notin served
  /\ promised' = [promised EXCEPT ![r] = 0]
  /\ onHand' <= onHand - promised[r]
  /\ onHand' >= Total(Requests \ {r})
  /\ served' = served \union {r}

Next ==
  \/ Receive
  \/ Issue
  \/ \E r \in Requests : Serve(r) \/ \E n \in 1..onHand : Promise(r, n)
  \/ \E S \in SUBSET Requests : Release(S)

Spec == Init /\ [][Next]_shelfVars
=============================================================================
