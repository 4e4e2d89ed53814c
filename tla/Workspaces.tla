----------------------------- MODULE Workspaces -----------------------------
(***************************************************************************)
(* Users, workspaces, memberships and invites of memlord                   *)
(* (dao/workspace.py, api/workspaces.py, and the personal workspace made   *)
(* by a registration).                                                     *)
(*                                                                         *)
(* Every HTTP request runs in one READ COMMITTED transaction.  A request   *)
(* is a record in "request": each SELECT it makes is one action that reads *)
(* the committed rows; its writes and the commit are one action, because   *)
(* uncommitted rows are invisible to the other requests and the rows       *)
(* written stay locked until the commit.  The arrival of a request and its *)
(* first SELECT are one action; a request refused there changes nothing.   *)
(***************************************************************************)

CONSTANTS
    Users,         \* user ids the users sequence can hand out
    WsIds,         \* workspace ids the workspaces sequence can hand out
    InviteIds,     \* invite tokens (uuid4)
    Requests,      \* slots for requests in flight
    Names,         \* workspace names
    Descriptions,  \* workspace descriptions
    PersonalName,  \* PersonalName[u] is "__personal_{u}__"
    NoDescription, \* SQL NULL in workspaces.description
    NoUser         \* SQL NULL in workspace_invites.used_by

ASSUME PersonalNameAssumption ==
    /\ PersonalName \in [Users -> Names]
    /\ \A u, v \in Users : PersonalName[u] = PersonalName[v] => u = v

ASSUME NullAssumption ==
    /\ NoUser \notin Users
    /\ NoDescription \in Descriptions

VARIABLES
    users,      \* [Users -> "unused" | "registered" | "burnt"]
    workspace,  \* [WsIds -> row, or no row]
    member,     \* [WsIds -> [Users -> role or "none"]]
    invite,     \* [InviteIds -> row, or no row]
    request     \* [Requests -> request in flight, or Idle]

vars == <<users, workspace, member, invite, request>>

InviteRoles == {"viewer", "editor"}
Roles == InviteRoles \cup {"owner"}

(* An id whose row does not exist: never handed out, or deleted.           *)
NoRow == [state: {"unused", "deleted"}]
Unused == [state |-> "unused"]
Deleted == [state |-> "deleted"]

WorkspaceRow == [state: {"live"}, name: Names, createdBy: Users,
                 personal: BOOLEAN, description: Descriptions]

InviteRow == [state: {"live"}, ws: WsIds, role: InviteRoles,
              usedBy: Users \cup {NoUser}, expired: BOOLEAN]

-----------------------------------------------------------------------------
(* Requests in flight: the arguments, and what has been read so far.       *)

Idle == [op |-> "idle"]

Steps == {"role", "write"}  \* get_role comes next, the writes come next

RenameRequest   == [op: {"rename"}, user: Users, ws: WsIds, arg: Names, step: Steps]
DescribeRequest == [op: {"describe"}, user: Users, ws: WsIds, arg: Descriptions, step: Steps]
InviteRequest   == [op: {"invite"}, user: Users, ws: WsIds, arg: InviteRoles, step: Steps]
PlainRequest    == [op: {"delete", "leave"}, user: Users, ws: WsIds, step: Steps]
JoinRequest     == [op: {"join"}, user: Users, ws: WsIds, token: InviteIds,
                    role: InviteRoles, step: Steps]

Request == RenameRequest \cup DescribeRequest \cup InviteRequest
             \cup PlainRequest \cup JoinRequest \cup {Idle}

-----------------------------------------------------------------------------

Live(w) == workspace[w].state = "live"

NameTaken(n, others) == \E w \in others : Live(w) /\ workspace[w].name = n

(* get_by_id_for_user finds a row only for a member of the workspace.      *)
Visible(u, w) == Live(w) /\ member[w][u] # "none"

(* What INSERT workspace and INSERT member (as owner) leave; NULL          *)
(* description for a personal workspace.                                   *)
InsertOwned(u, w, n, d, p) ==
    /\ workspace[w] = Unused
    /\ workspace' = [workspace EXCEPT ![w] =
           [state |-> "live", name |-> n, createdBy |-> u, personal |-> p, description |-> d]]
    /\ member' = [member EXCEPT ![w][u] = "owner"]

Begin(r, q) == request[r] = Idle /\ request' = [request EXCEPT ![r] = q]
Advance(r) == request' = [request EXCEPT ![r].step = "write"]
Finish(r) == request' = [request EXCEPT ![r] = Idle]

AtStep(r, op, step) == request[r] # Idle /\ request[r].op = op /\ request[r].step = step

Init ==
    /\ users = [u \in Users |-> "unused"]
    /\ workspace = [w \in WsIds |-> Unused]
    /\ member = [w \in WsIds |-> [u \in Users |-> "none"]]
    /\ invite = [i \in InviteIds |-> Unused]
    /\ request = [r \in Requests |-> Idle]

-----------------------------------------------------------------------------
(* Requests that read nothing before they write.                           *)

(* The user and the personal workspace are inserted in one transaction; if *)
(* the name is taken it rolls back, and the id is spent.                   *)
Register(u) ==
    /\ users[u] = "unused"
    /\ \/ /\ ~NameTaken(PersonalName[u], WsIds)
          /\ users' = [users EXCEPT ![u] = "registered"]
          /\ \E w \in WsIds : InsertOwned(u, w, PersonalName[u], NoDescription, TRUE)
       \/ /\ NameTaken(PersonalName[u], WsIds)
          /\ users' = [users EXCEPT ![u] = "burnt"]
          /\ UNCHANGED <<workspace, member>>
    /\ UNCHANGED <<invite, request>>

CreateWorkspace(u) ==
    /\ users[u] = "registered"
    /\ \E n \in Names, d \in Descriptions, w \in WsIds :
           /\ ~NameTaken(n, WsIds)
           /\ InsertOwned(u, w, n, d, FALSE)
    /\ UNCHANGED <<users, invite, request>>

-----------------------------------------------------------------------------
(* Handlers under /workspaces/{workspace_id}: get_by_id_for_user, get_role,*)
(* then the write.                                                         *)

(* A personal workspace is refused by every handler but the description.   *)
OpenShared(r, q) ==
    /\ users[q.user] = "registered"
    /\ Visible(q.user, q.ws)
    /\ ~workspace[q.ws].personal
    /\ Begin(r, q)
    /\ UNCHANGED <<users, workspace, member, invite>>

OpenRename(r) == \E u \in Users, w \in WsIds, n \in Names :
    OpenShared(r, [op |-> "rename", user |-> u, ws |-> w, arg |-> n, step |-> "role"])

(* Mutant: the personal workspace can be deleted.                          *)
OpenDeletePersonal(r) == \E u \in Users, w \in WsIds :
    /\ Visible(u, w)
    /\ Begin(r, [op |-> "delete", user |-> u, ws |-> w, step |-> "role"])
    /\ UNCHANGED <<users, workspace, member, invite>>

OpenDelete(r) == \E u \in Users, w \in WsIds :
    OpenShared(r, [op |-> "delete", user |-> u, ws |-> w, step |-> "role"])

OpenLeave(r) == \E u \in Users, w \in WsIds :
    OpenShared(r, [op |-> "leave", user |-> u, ws |-> w, step |-> "role"])

(* Mutants: the role of the request is not validated; an invite to a       *)
(* personal workspace is not refused.                                      *)
OpenInviteAnyRole(r) == \E u \in Users, w \in WsIds, ro \in Roles :
    OpenShared(r, [op |-> "invite", user |-> u, ws |-> w, arg |-> ro, step |-> "role"])

OpenInviteToPersonal(r) == \E u \in Users, w \in WsIds, ro \in InviteRoles :
    /\ Visible(u, w)
    /\ Begin(r, [op |-> "invite", user |-> u, ws |-> w, arg |-> ro, step |-> "role"])
    /\ UNCHANGED <<users, workspace, member, invite>>

OpenInvite(r) == \E u \in Users, w \in WsIds, ro \in InviteRoles :
    OpenShared(r, [op |-> "invite", user |-> u, ws |-> w, arg |-> ro, step |-> "role"])

OpenDescribe(r) == \E u \in Users, w \in WsIds, d \in Descriptions :
    /\ users[u] = "registered"
    /\ Visible(u, w)
    /\ Begin(r, [op |-> "describe", user |-> u, ws |-> w, arg |-> d, step |-> "role"])
    /\ UNCHANGED <<users, workspace, member, invite>>

(* use_invite reads the invite first: it must be unused and not expired.   *)
OpenJoin(r) == \E u \in Users, i \in InviteIds :
    /\ users[u] = "registered"
    /\ invite[i].state = "live"
    /\ invite[i].usedBy = NoUser
    /\ ~invite[i].expired
    /\ Begin(r, [op |-> "join", user |-> u, ws |-> invite[i].ws, token |-> i,
                 role |-> invite[i].role, step |-> "role"])
    /\ UNCHANGED <<users, workspace, member, invite>>

(* Mutants: an owner may leave; an editor may rename and delete.           *)
OwnerMayLeave(op, role) == op = "leave" => role # "none"
EditorMayRename(op, role) == op \in {"rename", "delete"} => role \in {"owner", "editor"}

(* The role each operation wants to see before it writes.                  *)
RolePermits(op, role) ==
    CASE op \in {"rename", "describe", "delete"} -> role = "owner"
      [] op = "invite" -> role \in {"owner", "editor"}
      [] op = "leave" -> role \in InviteRoles
      [] op = "join" -> role = "none"

CheckRole(r) ==
    /\ request[r] # Idle
    /\ request[r].step = "role"
    /\ IF RolePermits(request[r].op, member[request[r].ws][request[r].user])
         THEN Advance(r)
         ELSE Finish(r)
    /\ UNCHANGED <<users, workspace, member, invite>>

-----------------------------------------------------------------------------
(* The writes and the commit; a constraint that fails rolls back.          *)

RenameWrite(r) ==
    /\ AtStep(r, "rename", "write")
    /\ LET q == request[r] IN
       IF Live(q.ws) /\ ~NameTaken(q.arg, WsIds \ {q.ws})
         THEN workspace' = [workspace EXCEPT ![q.ws].name = q.arg]
         ELSE UNCHANGED workspace
    /\ Finish(r)
    /\ UNCHANGED <<users, member, invite>>

DescribeWrite(r) ==
    /\ AtStep(r, "describe", "write")
    /\ LET q == request[r] IN
       IF Live(q.ws)
         THEN workspace' = [workspace EXCEPT ![q.ws].description = q.arg]
         ELSE UNCHANGED workspace
    /\ Finish(r)
    /\ UNCHANGED <<users, member, invite>>

(* Mutant: the invites have no cascade.                                    *)
DeleteKeepsInvites(r) ==
    /\ AtStep(r, "delete", "write")
    /\ workspace' = [workspace EXCEPT ![request[r].ws] = Deleted]
    /\ member' = [member EXCEPT ![request[r].ws] = [u \in Users |-> "none"]]
    /\ Finish(r)
    /\ UNCHANGED <<users, invite>>

(* ON DELETE CASCADE takes the memberships and the invites with the row.   *)
DeleteWrite(r) ==
    /\ AtStep(r, "delete", "write")
    /\ LET q == request[r] IN
       /\ workspace' = [workspace EXCEPT ![q.ws] = Deleted]
       /\ member' = [member EXCEPT ![q.ws] = [u \in Users |-> "none"]]
       /\ invite' = [i \in InviteIds |->
              IF invite[i].state = "live" /\ invite[i].ws = q.ws THEN Deleted ELSE invite[i]]
    /\ Finish(r)
    /\ UNCHANGED users

LeaveWrite(r) ==
    /\ AtStep(r, "leave", "write")
    /\ member' = [member EXCEPT ![request[r].ws][request[r].user] = "none"]
    /\ Finish(r)
    /\ UNCHANGED <<users, workspace, invite>>

(* The foreign key refuses an invite to a workspace that has gone.         *)
InviteWrite(r) ==
    /\ AtStep(r, "invite", "write")
    /\ LET q == request[r] IN
       \/ /\ Live(q.ws)
          /\ \E i \in InviteIds :
                /\ invite[i] = Unused
                /\ invite' = [invite EXCEPT ![i] =
                      [state |-> "live", ws |-> q.ws, role |-> q.arg,
                       usedBy |-> NoUser, expired |-> FALSE]]
       \/ ~Live(q.ws) /\ UNCHANGED invite
    /\ Finish(r)
    /\ UNCHANGED <<users, workspace, member>>

(* Mutant: the member is upserted instead of inserted.                     *)
JoinUpserts(r) ==
    /\ AtStep(r, "join", "write")
    /\ Live(request[r].ws)
    /\ invite' = [invite EXCEPT ![request[r].token].usedBy = request[r].user]
    /\ member' = [member EXCEPT ![request[r].ws][request[r].user] = request[r].role]
    /\ Finish(r)
    /\ UNCHANGED <<users, workspace>>

(* UPDATE the invite by its id, then INSERT the member: the foreign key    *)
(* and the primary key (workspace_id, user_id) can refuse the insert.      *)
JoinWrite(r) ==
    /\ AtStep(r, "join", "write")
    /\ LET q == request[r] IN
       IF Live(q.ws) /\ member[q.ws][q.user] = "none"
         THEN /\ invite' = [invite EXCEPT ![q.token].usedBy = q.user]
              /\ member' = [member EXCEPT ![q.ws][q.user] = q.role]
         ELSE UNCHANGED <<invite, member>>
    /\ Finish(r)
    /\ UNCHANGED <<users, workspace>>

(* Connection lost, process stopped or deadlock victim: nothing is kept.   *)
Rollback(r) ==
    /\ request[r] # Idle
    /\ Finish(r)
    /\ UNCHANGED <<users, workspace, member, invite>>

(* The clock passes expires_at.                                            *)
Expire(i) ==
    /\ invite[i].state = "live"
    /\ ~invite[i].expired
    /\ invite' = [invite EXCEPT ![i].expired = TRUE]
    /\ UNCHANGED <<users, workspace, member, request>>

Next ==
    \/ \E u \in Users : Register(u) \/ CreateWorkspace(u)
    \/ \E i \in InviteIds : Expire(i)
    \/ \E r \in Requests :
          \/ OpenRename(r) \/ OpenDescribe(r) \/ OpenDelete(r)
          \/ OpenLeave(r) \/ OpenInvite(r) \/ OpenJoin(r)
          \/ CheckRole(r)
          \/ RenameWrite(r) \/ DescribeWrite(r) \/ DeleteWrite(r)
          \/ LeaveWrite(r) \/ InviteWrite(r) \/ JoinWrite(r)
          \/ Rollback(r)

Spec == Init /\ [][Next]_vars

-----------------------------------------------------------------------------
(* Properties *)

(* Every variable holds rows and requests of the declared shapes; an       *)
(* invite's role is never "owner" (create_invite takes viewer and editor). *)
TypeOK ==
    /\ users \in [Users -> {"unused", "registered", "burnt"}]
    /\ workspace \in [WsIds -> WorkspaceRow \cup NoRow]
    /\ member \in [WsIds -> [Users -> Roles \cup {"none"}]]
    /\ invite \in [InviteIds -> InviteRow \cup NoRow]
    /\ request \in [Requests -> Request]

(* A workspace has exactly one owner, the user who created it, for as long *)
(* as it exists: joins, leaves and races between them never add or remove  *)
(* one ("owners cannot leave a workspace").                                *)
OwnerIsCreator ==
    \A w \in WsIds : Live(w) =>
        \A u \in Users : member[w][u] = "owner" <=> u = workspace[w].createdBy

(* Only its owner is ever a member of a personal workspace.                *)
PersonalIsPrivate ==
    \A w \in WsIds : Live(w) /\ workspace[w].personal =>
        \A u \in Users : member[w][u] # "none" => u = workspace[w].createdBy

(* get_personal finds exactly one row for every registered user and none   *)
(* for the others: registration is atomic and nothing deletes the row.     *)
EveryUserHasPersonal ==
    \A u \in Users :
        LET mine == {w \in WsIds : Live(w) /\ workspace[w].personal
                                      /\ workspace[w].createdBy = u}
        IN  IF users[u] = "registered" THEN \E w \in WsIds : mine = {w} ELSE mine = {}

(* The cascades and foreign keys leave no membership and no invite behind: *)
(* each belongs to a live workspace, a member is a registered user, and no *)
(* invite leads into a personal workspace.                                 *)
NoDanglingRows ==
    /\ \A w \in WsIds, u \in Users :
          member[w][u] # "none" => Live(w) /\ users[u] = "registered"
    /\ \A i \in InviteIds : invite[i].state = "live" =>
          Live(invite[i].ws) /\ ~workspace[invite[i].ws].personal

(* What a request has read stays true until it writes: ids are not reused, *)
(* a personal workspace was refused, and the owner was or was not the user *)
(* (the owner of a live workspace never changes).                          *)
RequestInv ==
    \A r \in Requests : request[r] # Idle =>
        LET q == request[r]
            row == workspace[q.ws]
        IN  /\ users[q.user] = "registered"
            /\ row # Unused
            /\ Live(q.ws) =>
                  /\ row.personal => q.op = "describe"
                  /\ q.step = "write" /\ q.op \in {"rename", "describe", "delete"}
                        => q.user = row.createdBy
                  /\ q.step = "write" /\ q.op = "leave" => q.user # row.createdBy

IInv == /\ TypeOK /\ OwnerIsCreator /\ PersonalIsPrivate
        /\ EveryUserHasPersonal /\ NoDanglingRows /\ RequestInv

(* A workspace is renamed, described or deleted only by a request of the   *)
(* user who owns it at that moment, although the role was read earlier.    *)
OwnerDecides ==
    [][\A w \in WsIds : Live(w) /\ workspace'[w] # workspace[w] =>
          \E r \in Requests :
              /\ request[r].op \in {"rename", "describe", "delete"}
              /\ request[r].ws = w
              /\ member[w][request[r].user] = "owner"
              /\ request'[r] = Idle]_vars

(* A one-time invite link admits one user: once used, it stays used by the *)
(* same user (use_invite: "Invite has already been used").                 *)
InviteUsedOnce ==
    [][\A i \in InviteIds :
          (invite[i].state = "live" /\ invite[i].usedBy # NoUser)
              => (invite'[i].state = "live" => invite'[i].usedBy = invite[i].usedBy)]_vars

(* Memberships change only as WorkspaceAccess allows, whatever requests    *)
(* interleave: a role never changes while a user stays, members leave on   *)
(* their own, only the owner dissolves a workspace.  A deleted workspace   *)
(* counts as "none": its id is never handed out again.                     *)
Kind == [w \in WsIds |-> IF ~Live(w) THEN "none"
                         ELSE IF workspace[w].personal THEN "personal" ELSE "shared"]

Access == INSTANCE WorkspaceAccess WITH kind <- Kind, role <- member

ImplementsAccess == Access!Spec

=============================================================================
