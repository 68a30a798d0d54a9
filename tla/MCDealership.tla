---------------------------- MODULE MCDealership ----------------------------
(***************************************************************************)
(* The instance of what a vehicle lives with its owner: its sale, its      *)
(* warranties and the records of clients.  They share no state: each       *)
(* behaviour is one component's, the one in active.                        *)
(***************************************************************************)
EXTENDS VehicleSale, WarrantyClaims, Clients, TLC

CONSTANTS a1, a2, b1, b2

VARIABLE active

LabourOf == {<<0, 10>>}
FactoryOf == {<<0, 20>>}
SaleOf == <<NoLimit, 20>>
LotsOf == [o \in Visited |-> {"l1", "l2"}]
VehicleIds == {[vin |-> {"v1"}, plate |-> {}], [vin |-> {"v1"}, plate |-> {"p1"}], [vin |-> {}, plate |-> {"p1"}]}
UnitIds == {[vin |-> {"v1"}, plate |-> {"p1"}]}

\* One of its initial states is enough for a component that never moves.
ClaimsAtRest == claims = <<>>

DealershipInit ==
  /\ active \in {"sale", "claims", "clients"}
  /\ SaleInit /\ ClaimsInit /\ ClientsInit
  /\ active # "claims" => ClaimsAtRest

SaleMoves == active = "sale" /\ UNCHANGED <<active, claimVars, clientVars>> /\ SaleNext
ClaimsMove == active = "claims" /\ UNCHANGED <<active, saleVars, clientVars>> /\ ClaimsNext
ClientsMove == active = "clients" /\ UNCHANGED <<active, saleVars, claimVars>> /\ ClientsNext

DealershipNext == SaleMoves \/ ClaimsMove \/ ClientsMove

dealershipVars == <<active, saleVars, claimVars, clientVars>>
DealershipSpec == DealershipInit /\ [][DealershipNext]_dealershipVars

\* Every component keeps the types of its state.
DealershipTypeOK == SaleTypeOK /\ ClaimsTypeOK /\ ClientsTypeOK

Symmetric == Permutations({a1, a2}) \union Permutations({b1, b2})
=============================================================================
