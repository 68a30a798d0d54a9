-------------------------------- MODULE Money --------------------------------
(***************************************************************************)
(* Amounts of money as the services compute them: whole cents, rounded     *)
(* half up, and the split of one collection between dollars, which carry   *)
(* the IGTF tax, and bolivars, which do not.                               *)
(*                                                                         *)
(* A rate is the number of bolivars of one dollar, in whole bolivars; NoRate*)
(* stands for a day whose official rate was not published.                 *)
(***************************************************************************)
EXTENDS Integers, FiniteSets

CONSTANTS
  Iva, Igtf,     \* per cent
  RequestIds,    \* request ids that clients send with a collection
  Tenders        \* bound: the <<method, share, usd, bs>> that clients offer

NoRate == 0

\* n/d to the nearest cent, halves up (n >= 0, d > 0).
Rounded(n, d) == (2 * n + d) \div (2 * d)

\* p per cent of x.
Percent(x, p) == Rounded(x * p, 100)

\* The part of an amount paid in dollars that is not its own IGTF.
WithoutIgtf(usd, p) == Rounded(usd * 100, 100 + p)

\* The three ways to settle a base, and how much of it goes in dollars.
Methods == {"usd", "bs", "mixed"}
UsdBase(base, method, share) ==
  IF method = "usd" THEN base ELSE IF method = "bs" THEN 0 ELSE share

ASSUME MoneyAssumption ==
  /\ {Iva, Igtf} \subseteq Nat
  /\ Tenders \subseteq Methods \X Nat \X Nat \X Nat
  /\ IsFiniteSet(RequestIds)

\* A split the services accept: a mixed payment has both parts, and bolivars
\* need a rate.
Splits(base, method, share, rate) ==
  /\ method = "mixed" => share \in 1..(base - 1)
  /\ UsdBase(base, method, share) < base => rate # NoRate

\* What is due in each currency for that split.
DueUsd(base, method, share, igtf) ==
  LET usd == UsdBase(base, method, share) IN usd + Percent(usd, igtf)
DueBs(base, method, share, rate) == (base - UsdBase(base, method, share)) * rate

\* Bolivars back to dollar cents.
InUsd(bs, rate) == IF bs = 0 THEN 0 ELSE Rounded(bs, rate)
=============================================================================
