------------------------- MODULE MCTenantAdmission -------------------------
(***************************************************************************)
(* One tenant that is disabled, enabled and disabled again, one auction,   *)
(* two instances with a socket each.                                       *)
(***************************************************************************)
EXTENDS TenantAdmission, TLC

CONSTANTS t1, a1, i1, i2, s1, s2, e1, e2, e3

MCStatus ==
    [e \in StatusEvent |->
        [tenant |-> t1,
         version |-> CASE e = e1 -> 1 [] e = e2 -> 2 [] e = e3 -> 3,
         status |-> IF e = e2 THEN "Active" ELSE "Disabled"]]

MCTenantOf == [a \in Auction |-> t1]
MCInstanceOf == [s \in Socket |-> IF s = s1 THEN i1 ELSE i2]

(* The instances may be exchanged together with their sockets. *)
Mirror == i1 :> i2 @@ i2 :> i1 @@ s1 :> s2 @@ s2 :> s1
Same == [x \in DOMAIN Mirror |-> x]
MirrorSymmetry == {p \in Permutations(DOMAIN Mirror) : p = Mirror \/ p = Same}

=============================================================================
