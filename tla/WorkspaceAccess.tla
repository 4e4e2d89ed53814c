--------------------------- MODULE WorkspaceAccess ---------------------------
(***************************************************************************)
(* What workspace membership promises: a workspace is founded with one     *)
(* owner, other users come in with the role of an invite and go on their   *)
(* own, a role never changes while a user stays, nobody joins a personal   *)
(* workspace, and only the owner dissolves a shared one.                   *)
(***************************************************************************)
CONSTANTS Users, WsIds

VARIABLES
    kind,  \* [WsIds -> "none" | "shared" | "personal"]
    role   \* [WsIds -> [Users -> "none" | "owner" | "editor" | "viewer"]]

vars == <<kind, role>>

Init ==
    /\ kind = [w \in WsIds |-> "none"]
    /\ role = [w \in WsIds |-> [u \in Users |-> "none"]]

Found(u, w) ==
    /\ kind[w] = "none"
    /\ \E k \in {"shared", "personal"} : kind' = [kind EXCEPT ![w] = k]
    /\ role' = [role EXCEPT ![w][u] = "owner"]

Join(u, w) ==
    /\ kind[w] = "shared"
    /\ role[w][u] = "none"
    /\ \E ro \in {"viewer", "editor"} : role' = [role EXCEPT ![w][u] = ro]
    /\ UNCHANGED kind

Leave(u, w) ==
    /\ role[w][u] \in {"viewer", "editor"}
    /\ role' = [role EXCEPT ![w][u] = "none"]
    /\ UNCHANGED kind

Dissolve(u, w) ==
    /\ kind[w] = "shared"
    /\ role[w][u] = "owner"
    /\ kind' = [kind EXCEPT ![w] = "none"]
    /\ role' = [role EXCEPT ![w] = [v \in Users |-> "none"]]

Next == \E u \in Users, w \in WsIds :
            Found(u, w) \/ Join(u, w) \/ Leave(u, w) \/ Dissolve(u, w)

Spec == Init /\ [][Next]_vars

=============================================================================
