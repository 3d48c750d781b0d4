------------------------------ MODULE MCScreens ------------------------------
(* Two customers whom one typed name matches, in two regions; a name of    *)
(* one of them only, and a name nobody has; an order of each; two amounts  *)
(* of stock.                                                               *)
EXTENDS Screens, TLC

CONSTANTS sato, ito, nobody

MCUsers == {[role |-> "admin", region |-> NoRegion], [role |-> "sales", region |-> "EAST"],
            [role |-> "warehouse", region |-> NoRegion]}
MCOwner == 1 :> 21 @@ 2 :> 22
MCRegion == 1 :> "EAST" @@ 2 :> "WEST"
MCCustomerRegion == 21 :> "EAST" @@ 22 :> "WEST"
MCQuantity == 11 :> 5 @@ 12 :> 10
MCNamed == sato :> {21, 22} @@ ito :> {21} @@ nobody :> {}
=============================================================================
