--------------------------- MODULE MCAdminHandoff ---------------------------
(***************************************************************************)
(* One token of a tenant, presented twice, and one of a global             *)
(* administrator that lives longer; a second is two ticks.                 *)
(***************************************************************************)
EXTENDS AdminHandoff

CONSTANTS scoped, global, x, r1, r2, r3

MCTenantOf == [t \in Token |-> IF t = scoped THEN x ELSE NoTenant]
MCExp == [t \in Token |-> IF t = scoped THEN 1 ELSE 2]
MCTokenOf == [r \in Request |-> IF r = r3 THEN global ELSE scoped]

=============================================================================
