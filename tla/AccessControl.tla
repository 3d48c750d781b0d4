---------------------------- MODULE AccessControl ----------------------------
(***************************************************************************)
(* Who may read and write what (authctx.go), as every service decides it   *)
(* from the identity in the headers of a request (svc.go, Handle and       *)
(* RequireWrite).  An identity is a role and a region; the region counts   *)
(* for sales only.  Operators only.                                        *)
(***************************************************************************)

CONSTANT NoRegion   \* an empty X-Nlops-Region, and no restriction by region

Roles    == {"admin", "sales", "warehouse", "support"}
Services == {"customer", "order", "inventory", "shipping", "billing"}

(* FromRequest: an unknown or missing role, or a salesman without a region.*)
Authenticated(id) == id.role \in Roles /\ (id.role = "sales" => id.region # NoRegion)

(* accessMatrix *)
AccessTo(id, service) ==
  CASE id.role = "admin"     -> "all"
    [] id.role = "sales"     -> IF service = "inventory" THEN "all" ELSE "region"
    [] id.role = "warehouse" -> IF service = "inventory" THEN "all" ELSE "deny"
    [] id.role = "support"   -> IF service = "billing" THEN "deny" ELSE "all"
    [] OTHER                 -> "deny"

(* writeMatrix *)
WritableBy(role) ==
  CASE role = "admin"     -> Services
    [] role = "sales"     -> {"customer", "order"}
    [] role = "warehouse" -> {"inventory"}
    [] OTHER              -> {}

CanWrite(id, service) == AccessTo(id, service) # "deny" /\ service \in WritableBy(id.role)

(* RegionFilter, and the condition the handlers add to their WHERE. *)
RegionFilter(id, service) == IF AccessTo(id, service) = "region" THEN id.region ELSE NoRegion

(* A handler that reads without the condition. *)
InScopeAnywhere(id, service, region) == AccessTo(id, service) # "deny"

InScope(id, service, region) == RegionFilter(id, service) \in {NoRegion, region}

=============================================================================
