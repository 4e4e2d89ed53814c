---------------------------- MODULE MCWorkspaces ----------------------------
(* Small instances of Workspaces: model values for ids, users and names.   *)
EXTENDS Workspaces, TLC

CONSTANTS u1, u2, u3, p1, p2, p3, team

MCPersonalName == (u1 :> p1 @@ u2 :> p2)
MCPersonalName3 == (u1 :> p1 @@ u2 :> p2 @@ u3 :> p3)

SlotSymmetry == Permutations(Requests) \cup Permutations(WsIds) \cup Permutations(InviteIds)

(* Users may be permuted as long as their personal names follow them.      *)
UserSymmetry ==
    Permutations(Requests) \cup Permutations(WsIds) \cup
    {f @@ [n \in {p1, p2, p3} |-> PersonalName[f[CHOOSE u \in Users : PersonalName[u] = n]]] :
        f \in Permutations(Users)}
=============================================================================
