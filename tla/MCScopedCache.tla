--------------------------- MODULE MCScopedCache ---------------------------
(* Values for model checking ScopedCache: functions a .cfg cannot write.   *)
EXTENDS ScopedCache, TLC

CONSTANTS u1, u2, t1, t2, analyst, c1, c2, c3

(* Two users of two tenants, an analyst and an administrator.              *)
TwoTenants == (u1 :> t1) @@ (u2 :> t2)
OneTenant == [u \in Users |-> t1]
Analysts == [u \in Users |-> {analyst}]
Mixed == (u1 :> {analyst}) @@ (u2 :> {Admin})
Seeded == {analyst, Admin} \X {"read", "write"}
OwnedByFirst == [r \in Resources |-> t1]

CallerSymmetry == Permutations(Callers)
============================================================================
