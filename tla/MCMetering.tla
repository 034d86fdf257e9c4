----------------------------- MODULE MCMetering -----------------------------
(***************************************************************************)
(* One rule and a plan of a few bytes, two ways: all three workers of the   *)
(* Agent under loss ("loss"), and its two main workers under loss while the *)
(* owner buys a second plan and switches the rule ("owner").                *)
(***************************************************************************)
EXTENDS Metering, TLC

VARIABLE regime

AllWorkers == {"usage", "config", "prefetch"}
TwoWorkers == {"usage", "config"}
OnePlan == 1..1
TwoPlans == 1..2
Small == [e \in Ents |-> 3]

Loss  == INSTANCE Metering WITH MaxVersion <- 1, Ask <- 1
Owner == INSTANCE Metering WITH Workers <- TwoWorkers

MeteringInit ==
  \/ regime = "loss" /\ Loss!Init
  \/ regime = "owner" /\ Owner!Init

MeteringNext ==
  \/ regime = "loss" /\ Loss!Next /\ db'.ent = db.ent /\ UNCHANGED regime
  \/ regime = "owner" /\ Owner!Next /\ UNCHANGED regime

MeteringSpec == MeteringInit /\ [][MeteringNext]_<<regime, vars>>
=============================================================================
