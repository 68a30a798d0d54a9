------------------------------ MODULE MCOffice ------------------------------
(***************************************************************************)
(* The instance of the registers behind the counter: the calendar, the     *)
(* catalogue of services, what filiales of a holding send each other and   *)
(* the accounts of people.  They share no state: each behaviour is one     *)
(* component's, the one in active.                                         *)
(***************************************************************************)
EXTENDS Schedule, Catalogue, Interfilial, Access, TLC

CONSTANTS a1, a2, b1, b2

VARIABLE active

LotsAtFirst == [b \in Branches |-> IF b = "b1" THEN <<<<1, 5>>, <<2, 7>>>> ELSE <<>>]
CashAtFirst == [b \in Branches |-> IF b = "b1" THEN 2 ELSE 0]

\* Filiales that start alike are interchangeable: employees are of the first.
OfFirstOffice == \A e \in Employees : officeOf[e] = "f1"

OfficeInit ==
  /\ active \in {"schedule", "catalogue", "interfilial", "access"}
  /\ ScheduleInit /\ CatalogueInit /\ InterfilialInit /\ AccessInit
  /\ OfFirstOffice

ScheduleMoves ==
  /\ active = "schedule" /\ UNCHANGED <<active, catalogueVars, interfilialVars, accessVars>>
  /\ ScheduleNext
CatalogueMoves ==
  /\ active = "catalogue" /\ UNCHANGED <<active, scheduleVars, interfilialVars, accessVars>>
  /\ CatalogueNext
InterfilialMoves ==
  /\ active = "interfilial" /\ UNCHANGED <<active, scheduleVars, catalogueVars, accessVars>>
  /\ InterfilialNext
AccessMoves ==
  /\ active = "access" /\ UNCHANGED <<active, scheduleVars, catalogueVars, interfilialVars>>
  /\ AccessNext

OfficeNext == ScheduleMoves \/ CatalogueMoves \/ InterfilialMoves \/ AccessMoves

officeVars == <<active, scheduleVars, catalogueVars, interfilialVars, accessVars>>
OfficeSpec == OfficeInit /\ [][OfficeNext]_officeVars

\* Every component keeps the types of its state.
OfficeTypeOK == ScheduleTypeOK /\ CatalogueTypeOK /\ InterfilialTypeOK /\ AccessTypeOK

Symmetric == Permutations({a1, a2}) \union Permutations({b1, b2})
=============================================================================
