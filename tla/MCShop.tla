------------------------------- MODULE MCShop -------------------------------
(* Shop with small amounts: prices that do not divide the quota, a commission *)
(* that rounds, a second version of the plan that is cheaper and unlimited.   *)
EXTENDS Shop, TLC

CONSTANTS o1

AmountDef == (o1 :> 4)
TermsDef == <<[price |-> 3, quota |-> 2], [price |-> 1, quota |-> 0]>>
AddonDef == [price |-> 1, quota |-> 1]
CreditsDef == {-1}
SizesDef == {1, 2}
=============================================================================
