------------------------------ MODULE MCFunnel ------------------------------
(***************************************************************************)
(* Instances of Funnel for TLC: targets, persons and campaigns are         *)
(* numbered, one campaign per target; message rows are interchangeable.    *)
(***************************************************************************)
EXTENDS Funnel, TLC

SharedPerson == [t \in Targets |-> 1]
OwnPerson == [t \in Targets |-> t]
OwnCampaign == [t \in Targets |-> t]

Supervised == [c \in Campaigns |-> "supervised"]
Mixed == [c \in Campaigns |-> IF c = 1 THEN "supervised" ELSE "autonomous"]
SemiAuto == [c \in Campaigns |-> "semi_auto"]

Now(type) == [type |-> type, wait |-> FALSE]
Later(type) == [type |-> type, wait |-> TRUE]

ConnectMessage == <<Now("connect"), Later("message")>>
TwoMessages == <<Now("connect"), Later("message"), Now("message")>>
EveryType == <<Now("touch"), Now("connect"), Later("delay"), Now("message")>>

MsgSymmetry == Permutations(MsgIds)
=============================================================================
