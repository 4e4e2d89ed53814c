-------------------------- MODULE WorkspacesProofs --------------------------
(***************************************************************************)
(* Proofs, for every set of users, ids, names and request slots, of the    *)
(* invariants of Workspaces.                                               *)
(***************************************************************************)
EXTENDS Workspaces, TLAPS

(* What a request in flight holds, by operation.                           *)
LEMMA RequestShape ==
    ASSUME TypeOK, NEW r \in Requests, request[r] # Idle
    PROVE  /\ request[r].user \in Users
           /\ request[r].ws \in WsIds
           /\ request[r].step \in Steps
           /\ request[r].op \in {"rename", "describe", "invite", "delete", "leave", "join"}
           /\ request[r].op = "rename" => request[r].arg \in Names
           /\ request[r].op = "describe" => request[r].arg \in Descriptions
           /\ request[r].op = "invite" => request[r].arg \in InviteRoles
           /\ request[r].op = "join" =>
                 request[r].token \in InviteIds /\ request[r].role \in InviteRoles
<1> request[r] \in RenameRequest \cup DescribeRequest \cup InviteRequest
                     \cup PlainRequest \cup JoinRequest
  BY DEF TypeOK, Request
<1> QED
  BY DEF RenameRequest, DescribeRequest, InviteRequest, PlainRequest, JoinRequest

(* Passing the role check leaves a well-formed request.                    *)
LEMMA AdvanceShape ==
    ASSUME NEW q \in Request, q # Idle
    PROVE  [q EXCEPT !.step = "write"] \in Request
<1>1. CASE q \in RenameRequest
  BY <1>1 DEF Request, RenameRequest, Steps
<1>2. CASE q \in DescribeRequest
  BY <1>2 DEF Request, DescribeRequest, Steps
<1>3. CASE q \in InviteRequest
  BY <1>3 DEF Request, InviteRequest, Steps
<1>4. CASE q \in PlainRequest
  BY <1>4 DEF Request, PlainRequest, Steps
<1>5. CASE q \in JoinRequest
  BY <1>5 DEF Request, JoinRequest, Steps
<1>6. QED
  BY <1>1, <1>2, <1>3, <1>4, <1>5 DEF Request

(* A live id has a row.                                                    *)
LEMMA LiveRow ==
    ASSUME TypeOK
    PROVE  /\ \A w \in WsIds : Live(w) => workspace[w] \in WorkspaceRow
           /\ \A i \in InviteIds : invite[i].state = "live" => invite[i] \in InviteRow
  BY DEF TypeOK, Live, NoRow

LEMMA InsertOwnedType ==
    ASSUME TypeOK, NEW u \in Users, NEW w \in WsIds, NEW n \in Names,
           NEW d \in Descriptions, NEW p \in BOOLEAN, InsertOwned(u, w, n, d, p)
    PROVE  /\ workspace' \in [WsIds -> WorkspaceRow \cup NoRow]
           /\ member' \in [WsIds -> [Users -> Roles \cup {"none"}]]
  BY DEF InsertOwned, TypeOK, WorkspaceRow, Roles

(* An action that only ends a request keeps every type.                    *)
LEMMA TypeInductive == TypeOK /\ [Next]_vars => TypeOK'
<1> SUFFICES ASSUME TypeOK, [Next]_vars PROVE TypeOK'
  OBVIOUS
<1> USE DEF TypeOK
<1> DEFINE Kept == UNCHANGED <<users, workspace, member, invite>>
<1>0. Idle \in Request
  BY DEF Request
<1>1. ASSUME NEW u \in Users, Register(u) PROVE TypeOK'
  BY <1>1, InsertOwnedType, PersonalNameAssumption, NullAssumption DEF Register
<1>2. ASSUME NEW u \in Users, CreateWorkspace(u) PROVE TypeOK'
  BY <1>2, InsertOwnedType DEF CreateWorkspace
<1>3. ASSUME NEW i \in InviteIds, Expire(i) PROVE TypeOK'
  <2>1. [invite[i] EXCEPT !.expired = TRUE] \in InviteRow
    BY <1>3, LiveRow DEF Expire, InviteRow
  <2>2. QED
    BY <1>3, <2>1 DEF Expire
<1>4. ASSUME NEW r \in Requests, NEW q \in Request, Begin(r, q), Kept PROVE TypeOK'
  BY <1>4 DEF Begin
<1>5. ASSUME NEW r \in Requests, OpenRename(r) PROVE TypeOK'
  BY <1>5, <1>4 DEF OpenRename, OpenShared, Request, RenameRequest, Steps
<1>6. ASSUME NEW r \in Requests, OpenDescribe(r) PROVE TypeOK'
  BY <1>6, <1>4 DEF OpenDescribe, Request, DescribeRequest, Steps
<1>7. ASSUME NEW r \in Requests, OpenDelete(r) \/ OpenLeave(r) PROVE TypeOK'
  BY <1>7, <1>4 DEF OpenDelete, OpenLeave, OpenShared, Request, PlainRequest, Steps
<1>8. ASSUME NEW r \in Requests, OpenInvite(r) PROVE TypeOK'
  BY <1>8, <1>4 DEF OpenInvite, OpenShared, Request, InviteRequest, Steps
<1>9. ASSUME NEW r \in Requests, OpenJoin(r) PROVE TypeOK'
  <2>1. PICK u \in Users, i \in InviteIds :
            /\ invite[i].state = "live"
            /\ Begin(r, [op |-> "join", user |-> u, ws |-> invite[i].ws, token |-> i,
                         role |-> invite[i].role, step |-> "role"])
            /\ Kept
    BY <1>9 DEF OpenJoin
  <2>2. invite[i].ws \in WsIds /\ invite[i].role \in InviteRoles
    BY <2>1, LiveRow DEF InviteRow
  <2>3. QED
    BY <2>1, <2>2, <1>4 DEF Request, JoinRequest, Steps
<1>10. ASSUME NEW r \in Requests, CheckRole(r) PROVE TypeOK'
  BY <1>0, <1>10, AdvanceShape DEF CheckRole, Advance, Finish
<1>11. ASSUME NEW r \in Requests, RenameWrite(r) PROVE TypeOK'
  <2>1. request[r].ws \in WsIds /\ request[r].arg \in Names
    BY <1>11, RequestShape DEF RenameWrite, AtStep
  <2>2. Live(request[r].ws) =>
           [workspace[request[r].ws] EXCEPT !.name = request[r].arg] \in WorkspaceRow
    BY <2>1, LiveRow DEF WorkspaceRow
  <2>3. workspace' \in [WsIds -> WorkspaceRow \cup NoRow]
    BY <1>11, <2>1, <2>2 DEF RenameWrite
  <2>4. QED
    BY <2>3, <1>0, <1>11 DEF RenameWrite, Finish
<1>12. ASSUME NEW r \in Requests, DescribeWrite(r) PROVE TypeOK'
  <2>1. request[r].ws \in WsIds /\ request[r].arg \in Descriptions
    BY <1>12, RequestShape DEF DescribeWrite, AtStep
  <2>2. Live(request[r].ws) =>
           [workspace[request[r].ws] EXCEPT !.description = request[r].arg] \in WorkspaceRow
    BY <2>1, LiveRow DEF WorkspaceRow
  <2>3. workspace' \in [WsIds -> WorkspaceRow \cup NoRow]
    BY <1>12, <2>1, <2>2 DEF DescribeWrite
  <2>4. QED
    BY <2>3, <1>0, <1>12 DEF DescribeWrite, Finish
<1>13. ASSUME NEW r \in Requests, DeleteWrite(r) PROVE TypeOK'
  <2>1. request[r].ws \in WsIds
    BY <1>13, RequestShape DEF DeleteWrite, AtStep
  <2>2. Deleted \in NoRow
    BY DEF Deleted, NoRow
  <2>3. /\ workspace' \in [WsIds -> WorkspaceRow \cup NoRow]
        /\ member' \in [WsIds -> [Users -> Roles \cup {"none"}]]
    BY <1>13, <2>1, <2>2 DEF DeleteWrite
  <2>4. invite' \in [InviteIds -> InviteRow \cup NoRow]
    BY <1>13, <2>2 DEF DeleteWrite
  <2>5. QED
    BY <2>3, <2>4, <1>0, <1>13 DEF DeleteWrite, Finish
<1>14. ASSUME NEW r \in Requests, LeaveWrite(r) PROVE TypeOK'
  BY <1>0, <1>14, RequestShape DEF LeaveWrite, AtStep, Finish
<1>15. ASSUME NEW r \in Requests, InviteWrite(r) PROVE TypeOK'
  <2>1. request[r].ws \in WsIds /\ request[r].arg \in InviteRoles
    BY <1>15, RequestShape DEF InviteWrite, AtStep
  <2>2. invite' \in [InviteIds -> InviteRow \cup NoRow]
    <3>1. [state |-> "live", ws |-> request[r].ws, role |-> request[r].arg,
             usedBy |-> NoUser, expired |-> FALSE] \in InviteRow
      BY <2>1 DEF InviteRow
    <3>2. QED
      BY <1>15, <3>1 DEF InviteWrite
  <2>3. QED
    BY <2>2, <1>0, <1>15 DEF InviteWrite, Finish
<1>16. ASSUME NEW r \in Requests, JoinWrite(r) PROVE TypeOK'
  <2>1. /\ request[r].ws \in WsIds /\ request[r].user \in Users
        /\ request[r].token \in InviteIds /\ request[r].role \in InviteRoles
    BY <1>16, RequestShape DEF JoinWrite, AtStep
  <2>2. invite' \in [InviteIds -> InviteRow \cup NoRow]
    BY <1>16, <2>1 DEF JoinWrite, InviteRow, NoRow
  <2>3. member' \in [WsIds -> [Users -> Roles \cup {"none"}]]
    <3>1. [member[request[r].ws] EXCEPT ![request[r].user] = request[r].role]
              \in [Users -> Roles \cup {"none"}]
      BY <2>1 DEF Roles
    <3>2. QED
      BY <1>16, <2>1, <3>1 DEF JoinWrite
  <2>4. QED
    BY <2>2, <2>3, <1>0, <1>16 DEF JoinWrite, Finish
<1>17. ASSUME NEW r \in Requests, Rollback(r) PROVE TypeOK'
  BY <1>0, <1>17 DEF Rollback, Finish
<1>18. CASE UNCHANGED vars
  BY <1>18 DEF vars
<1>19. QED
  BY <1>1, <1>2, <1>3, <1>5, <1>6, <1>7, <1>8, <1>9, <1>10, <1>11, <1>12, <1>13, <1>14,
     <1>15, <1>16, <1>17, <1>18 DEF Next

(* Every reachable state holds well-formed rows and requests only.         *)
THEOREM TypeCorrect == Spec => []TypeOK
<1>1. Init => TypeOK
  BY DEF Init, TypeOK, NoRow, Unused, Request
<1>2. QED
  BY <1>1, TypeInductive, PTL DEF Spec

-----------------------------------------------------------------------------
(* The rows: what each kind of step does to owners, members and invites.   *)

RowInv == OwnerIsCreator /\ PersonalIsPrivate /\ NoDanglingRows

(* A new workspace with its owner keeps the rows consistent.               *)
LEMMA InsertKeepsRows ==
    ASSUME IInv, NEW u \in Users, NEW w \in WsIds, NEW n \in Names,
           NEW d \in Descriptions, NEW p \in BOOLEAN, InsertOwned(u, w, n, d, p),
           users'[u] = "registered", UNCHANGED <<invite, request>>,
           \A v \in Users : users[v] = "registered" => users'[v] = "registered"
    PROVE  RowInv' /\ RequestInv'
<1> USE DEF IInv
<1>1. /\ Live(w)' /\ ~Live(w)
      /\ workspace'[w].createdBy = u
      /\ \A x \in WsIds : x # w =>
            workspace'[x] = workspace[x] /\ member'[x] = member[x] /\ (Live(x)' <=> Live(x))
      /\ \A v \in Users : member'[w][v] = IF v = u THEN "owner" ELSE member[w][v]
  BY DEF InsertOwned, TypeOK, Live, Unused
<1>2. \A v \in Users : member[w][v] = "none"
  BY <1>1 DEF NoDanglingRows, TypeOK
<1>3. OwnerIsCreator'
  BY <1>1, <1>2 DEF OwnerIsCreator
<1>4. PersonalIsPrivate'
  BY <1>1, <1>2 DEF PersonalIsPrivate
<1>5. NoDanglingRows'
  <2>1. \A i \in InviteIds : invite[i].state = "live" => invite[i].ws \in WsIds \ {w}
    BY <1>1, LiveRow DEF NoDanglingRows, InviteRow
  <2>2. QED
    BY <1>1, <1>2, <2>1 DEF NoDanglingRows
<1>6. RequestInv'
  <2>1. \A r \in Requests : request[r] # Idle =>
            request[r].ws \in WsIds \ {w} /\ request[r].user \in Users
    BY RequestShape DEF RequestInv, InsertOwned
  <2>2. QED
    BY <1>1, <2>1 DEF RequestInv
<1>7. QED
  BY <1>3, <1>4, <1>5, <1>6 DEF RowInv

(* A step that leaves the rows alone only has to keep RequestInv.          *)
LEMMA SameRows ==
    ASSUME IInv, UNCHANGED <<users, workspace, member>>, UNCHANGED invite
    PROVE  RowInv'
  BY DEF IInv, RowInv, OwnerIsCreator, PersonalIsPrivate, NoDanglingRows, Live

(* Ending a request keeps what the others have read.                       *)
LEMMA FinishKeepsRequests ==
    ASSUME IInv, NEW r \in Requests, Finish(r), UNCHANGED users,
           \A w \in WsIds :
              /\ workspace'[w] # Unused \/ workspace[w] = Unused
              /\ Live(w)' => /\ Live(w)
                             /\ workspace'[w].personal = workspace[w].personal
                             /\ workspace'[w].createdBy = workspace[w].createdBy
    PROVE  RequestInv'
<1> USE DEF IInv
<1>1. request' = [request EXCEPT ![r] = Idle] /\ request \in [Requests -> Request]
  BY DEF Finish, TypeOK
<1>2. \A s \in Requests : request'[s] # Idle => request'[s] = request[s]
  BY <1>1
<1>3. \A s \in Requests : request[s] # Idle =>
          request[s].ws \in WsIds /\ request[s].user \in Users
  BY RequestShape
<1>4. QED
  BY <1>2, <1>3 DEF RequestInv

(* A request enters with what its first SELECT has just seen.              *)
LEMMA BeginKeepsRequests ==
    ASSUME IInv, NEW r \in Requests, NEW q \in Request, q # Idle, Begin(r, q),
           UNCHANGED <<users, workspace, member, invite>>,
           q.step = "role", users[q.user] = "registered",
           Live(q.ws), ~workspace[q.ws].personal \/ q.op = "describe"
    PROVE  RowInv' /\ RequestInv'
<1>1. \A s \in Requests : request'[s] = IF s = r THEN q ELSE request[s]
  BY DEF IInv, TypeOK, Begin
<1>2. RequestInv'
  BY <1>1 DEF IInv, RequestInv, Live, Unused
<1>3. QED
  BY <1>2, SameRows

(* get_role settles who the user is: owners stay owners, and only they are.*)
LEMMA CheckRoleKeeps ==
    ASSUME IInv, NEW r \in Requests, CheckRole(r)
    PROVE  RowInv' /\ RequestInv'
<1> DEFINE q == request[r]
<1>1. /\ q # Idle /\ q.ws \in WsIds /\ q.user \in Users
      /\ UNCHANGED <<users, workspace, member, invite>>
  BY RequestShape DEF IInv, CheckRole
<1>2. CASE Finish(r)
  BY <1>1, <1>2, SameRows, FinishKeepsRequests DEF Live
<1>3. CASE Advance(r) /\ RolePermits(q.op, member[q.ws][q.user])
  <2>1. /\ \A s \in Requests : s # r => request'[s] = request[s]
        /\ request'[r] = [q EXCEPT !.step = "write"]
    BY <1>3 DEF IInv, TypeOK, Advance
  <2>2. request'[r].ws = q.ws /\ request'[r].user = q.user /\ request'[r].op = q.op
    BY <2>1, <1>1 DEF IInv, TypeOK, Request, RenameRequest, DescribeRequest, InviteRequest,
           PlainRequest, JoinRequest
  <2>3. Live(q.ws) =>
          /\ q.op \in {"rename", "describe", "delete"} => q.user = workspace[q.ws].createdBy
          /\ q.op = "leave" => q.user # workspace[q.ws].createdBy
    BY <1>1, <1>3 DEF IInv, OwnerIsCreator, RolePermits, InviteRoles
  <2>4. RequestInv'
    <3>1. /\ users[q.user] = "registered" /\ workspace[q.ws] # Unused
          /\ Live(q.ws) => (workspace[q.ws].personal => q.op = "describe")
      BY <1>1 DEF IInv, RequestInv
    <3>2. SUFFICES ASSUME NEW s \in Requests, request'[s] # Idle
                   PROVE  LET p == request'[s] row == workspace[p.ws] IN
                          /\ users[p.user] = "registered"
                          /\ row # Unused
                          /\ row.state = "live" =>
                               /\ row.personal => p.op = "describe"
                               /\ p.step = "write" /\ p.op \in {"rename", "describe", "delete"}
                                     => p.user = row.createdBy
                               /\ p.step = "write" /\ p.op = "leave" => p.user # row.createdBy
      BY <1>1 DEF RequestInv, Live
    <3>3. CASE s = r
      BY <3>1, <3>3, <2>2, <2>3 DEF Live
    <3>4. CASE s # r
      BY <2>1, <3>2, <3>4 DEF IInv, RequestInv, Live
    <3>5. QED
      BY <3>3, <3>4
  <2>5. QED
    BY <1>1, <2>4, SameRows
<1>4. QED
  BY <1>2, <1>3 DEF CheckRole

-----------------------------------------------------------------------------
(* The writes.                                                             *)

(* A write that keeps each row's life, owner and kind, and the members.    *)
LEMMA RowUpdateKeeps ==
    ASSUME IInv, UNCHANGED <<users, member, invite>>,
           \A w \in WsIds :
              /\ Live(w)' <=> Live(w)
              /\ Live(w) => /\ workspace'[w].personal = workspace[w].personal
                            /\ workspace'[w].createdBy = workspace[w].createdBy
    PROVE  RowInv'
<1>1. \A i \in InviteIds : invite[i].state = "live" => invite[i].ws \in WsIds
  BY LiveRow DEF IInv, InviteRow
<1>2. QED
  BY <1>1 DEF IInv, RowInv, OwnerIsCreator, PersonalIsPrivate, NoDanglingRows

(* A rename or a new description changes nothing else in the row.          *)
LEMMA EditShape ==
    ASSUME IInv, NEW r \in Requests, RenameWrite(r) \/ DescribeWrite(r)
    PROVE  /\ Finish(r) /\ UNCHANGED <<users, member, invite>>
           /\ \A w \in WsIds :
                 /\ workspace'[w] # Unused \/ workspace[w] = Unused
                 /\ Live(w)' <=> Live(w)
                 /\ Live(w) => /\ workspace'[w].personal = workspace[w].personal
                               /\ workspace'[w].createdBy = workspace[w].createdBy
<1>1. request[r].ws \in WsIds /\ Finish(r) /\ UNCHANGED <<users, member, invite>>
  BY RequestShape DEF IInv, RenameWrite, DescribeWrite, AtStep
<1>2. \A w \in WsIds :
          /\ workspace'[w] # Unused \/ workspace[w] = Unused
          /\ Live(w)' <=> Live(w)
          /\ Live(w) => /\ workspace'[w].personal = workspace[w].personal
                        /\ workspace'[w].createdBy = workspace[w].createdBy
  BY <1>1, LiveRow DEF IInv, TypeOK, RenameWrite, DescribeWrite, Live, WorkspaceRow, Unused
<1>3. QED
  BY <1>1, <1>2

LEMMA EditKeeps ==
    ASSUME IInv, NEW r \in Requests, RenameWrite(r) \/ DescribeWrite(r)
    PROVE  RowInv' /\ RequestInv'
  BY EditShape, RowUpdateKeeps, FinishKeepsRequests

LEMMA DeleteKeeps ==
    ASSUME IInv, NEW r \in Requests, DeleteWrite(r)
    PROVE  RowInv' /\ RequestInv'
<1> PICK d \in WsIds : d = request[r].ws
  BY RequestShape DEF IInv, DeleteWrite, AtStep
<1>1. d = request[r].ws /\ Finish(r) /\ UNCHANGED users
  BY DEF DeleteWrite
<1>2. /\ ~Live(d)' /\ workspace'[d] # Unused
      /\ \A u \in Users : member'[d][u] = "none"
      /\ \A w \in WsIds : w # d =>
            workspace'[w] = workspace[w] /\ member'[w] = member[w] /\ (Live(w)' <=> Live(w))
  <2>1. /\ workspace' = [workspace EXCEPT ![d] = Deleted]
        /\ member' = [member EXCEPT ![d] = [u \in Users |-> "none"]]
    BY DEF DeleteWrite
  <2>2. Deleted.state = "deleted" /\ Unused.state = "unused"
    BY DEF Deleted, Unused
  <2>3. workspace'[d] = Deleted /\ \A u \in Users : member'[d][u] = "none"
    BY <1>1, <2>1 DEF IInv, TypeOK
  <2>4. \A w \in WsIds : w # d => workspace'[w] = workspace[w] /\ member'[w] = member[w]
    BY <1>1, <2>1 DEF IInv, TypeOK
  <2>5. QED
    BY <2>2, <2>3, <2>4 DEF Live
<1>3. OwnerIsCreator' /\ PersonalIsPrivate'
  BY <1>2 DEF IInv, OwnerIsCreator, PersonalIsPrivate
<1>4. NoDanglingRows'
  <2>1. \A i \in InviteIds : invite'[i].state = "live" =>
            invite[i].state = "live" /\ invite'[i] = invite[i] /\ invite[i].ws \in WsIds \ {d}
    BY LiveRow DEF IInv, DeleteWrite, Deleted, InviteRow
  <2>2. QED
    BY <1>1, <1>2, <2>1 DEF IInv, NoDanglingRows
<1>5. RequestInv'
  <2>1. \A w \in WsIds :
            /\ workspace'[w] # Unused \/ workspace[w] = Unused
            /\ Live(w)' => /\ Live(w)
                           /\ workspace'[w].personal = workspace[w].personal
                           /\ workspace'[w].createdBy = workspace[w].createdBy
    BY <1>2
  <2>2. QED
    BY <1>1, <2>1, FinishKeepsRequests
<1>6. QED
  BY <1>3, <1>4, <1>5 DEF RowInv

(* A step that sets one membership and no workspace row.                   *)
LEMMA MemberStepKeeps ==
    ASSUME IInv, NEW r \in Requests, Finish(r), UNCHANGED <<users, workspace>>,
           NEW w \in WsIds, NEW u \in Users, NEW ro \in InviteRoles \cup {"none"},
           member' = [member EXCEPT ![w][u] = ro],
           Live(w) => member[w][u] # "owner",
           ro # "none" => Live(w) /\ ~workspace[w].personal /\ users[u] = "registered",
           \A i \in InviteIds : invite'[i].state = "live" =>
              invite[i].state = "live" /\ invite'[i].ws = invite[i].ws
    PROVE  RowInv' /\ RequestInv'
<1>1. \A x \in WsIds, v \in Users :
          member'[x][v] = IF x = w /\ v = u THEN ro ELSE member[x][v]
  BY DEF IInv, TypeOK
<1>2. OwnerIsCreator' /\ PersonalIsPrivate'
  BY <1>1 DEF IInv, OwnerIsCreator, PersonalIsPrivate, Live, InviteRoles
<1>3. NoDanglingRows'
  BY <1>1 DEF IInv, NoDanglingRows, Live
<1>4. RequestInv'
  BY FinishKeepsRequests DEF Live
<1>5. QED
  BY <1>2, <1>3, <1>4 DEF RowInv

LEMMA LeaveKeeps ==
    ASSUME IInv, NEW r \in Requests, LeaveWrite(r)
    PROVE  RowInv' /\ RequestInv'
<1>1. request[r].ws \in WsIds /\ request[r].user \in Users
  BY RequestShape DEF IInv, LeaveWrite, AtStep
<1>2. Live(request[r].ws) => member[request[r].ws][request[r].user] # "owner"
  BY <1>1 DEF IInv, RequestInv, OwnerIsCreator, LeaveWrite, AtStep
<1>3. QED
  BY <1>1, <1>2, MemberStepKeeps DEF LeaveWrite

LEMMA JoinKeeps ==
    ASSUME IInv, NEW r \in Requests, JoinWrite(r)
    PROVE  RowInv' /\ RequestInv'
<1> DEFINE q == request[r]
<1>1. /\ q.ws \in WsIds /\ q.user \in Users /\ q.token \in InviteIds /\ q.role \in InviteRoles
      /\ users[q.user] = "registered" /\ (Live(q.ws) => ~workspace[q.ws].personal)
  BY RequestShape DEF IInv, RequestInv, JoinWrite, AtStep
<1>2. CASE UNCHANGED <<invite, member>>
  BY <1>2, SameRows, FinishKeepsRequests DEF JoinWrite, Live
<1>3. CASE /\ Live(q.ws) /\ member[q.ws][q.user] = "none"
           /\ invite' = [invite EXCEPT ![q.token].usedBy = q.user]
           /\ member' = [member EXCEPT ![q.ws][q.user] = q.role]
  <2>1. \A i \in InviteIds : invite'[i].state = "live" =>
            invite[i].state = "live" /\ invite'[i].ws = invite[i].ws
    BY <1>1, <1>3 DEF IInv, TypeOK, InviteRow, NoRow
  <2>2. QED
    BY <1>1, <1>3, <2>1, MemberStepKeeps DEF JoinWrite
<1>4. QED
  BY <1>2, <1>3 DEF JoinWrite

-----------------------------------------------------------------------------
(* Personal workspaces, one per registered user.                           *)

IsPersonalOf(w, u) == Live(w) /\ workspace[w].personal /\ workspace[w].createdBy = u

(* EveryUserHasPersonal row by row.                                        *)
LEMMA PersonalByRow ==
    EveryUserHasPersonal <=>
        \A u \in Users :
            IF users[u] = "registered"
              THEN \E w \in WsIds : \A x \in WsIds : IsPersonalOf(x, u) <=> x = w
              ELSE \A x \in WsIds : ~IsPersonalOf(x, u)
  BY DEF EveryUserHasPersonal, IsPersonalOf

LEMMA PersonalKept ==
    ASSUME EveryUserHasPersonal, UNCHANGED users,
           \A w \in WsIds, u \in Users : IsPersonalOf(w, u)' <=> IsPersonalOf(w, u)
    PROVE  EveryUserHasPersonal'
<1>1. \A u \in Users :
        IF users'[u] = "registered"
          THEN \E w \in WsIds : \A x \in WsIds : IsPersonalOf(x, u)' <=> x = w
          ELSE \A x \in WsIds : ~IsPersonalOf(x, u)'
  BY PersonalByRow
<1>2. QED
  BY <1>1 DEF EveryUserHasPersonal, IsPersonalOf

(* A registration gives its user the one workspace; a name that is taken   *)
(* leaves no workspace behind.                                             *)
LEMMA RegisterKeepsPersonal ==
    ASSUME IInv, NEW u \in Users, Register(u)
    PROVE  EveryUserHasPersonal'
<1>1. CASE users' = [users EXCEPT ![u] = "burnt"] /\ UNCHANGED workspace
  BY <1>1, PersonalByRow DEF IInv, TypeOK, Register, EveryUserHasPersonal, IsPersonalOf, Live
<1>2. CASE /\ users' = [users EXCEPT ![u] = "registered"]
           /\ \E w \in WsIds : InsertOwned(u, w, PersonalName[u], NoDescription, TRUE)
  <2>1. PICK w \in WsIds : InsertOwned(u, w, PersonalName[u], NoDescription, TRUE)
    BY <1>2
  <2>2. \A x \in WsIds, v \in Users :
            IsPersonalOf(x, v)' <=> IsPersonalOf(x, v) \/ (x = w /\ v = u)
    BY <2>1 DEF IInv, TypeOK, InsertOwned, IsPersonalOf, Live, Unused
  <2>3. \A x \in WsIds : ~IsPersonalOf(x, u)
    BY PersonalByRow DEF IInv, Register
  <2>4. \A v \in Users :
            IF users'[v] = "registered"
              THEN \E x \in WsIds : \A y \in WsIds : IsPersonalOf(y, v)' <=> y = x
              ELSE \A y \in WsIds : ~IsPersonalOf(y, v)'
    BY <1>2, <2>2, <2>3, PersonalByRow DEF IInv, TypeOK
  <2>5. QED
    BY <2>4 DEF EveryUserHasPersonal, IsPersonalOf
<1>3. QED
  BY <1>1, <1>2 DEF Register

(* No other step touches a personal workspace's kind or life.              *)
LEMMA PersonalInductive == IInv /\ [Next]_vars => EveryUserHasPersonal'
<1> SUFFICES ASSUME IInv, [Next]_vars PROVE EveryUserHasPersonal'
  OBVIOUS
<1>1. CASE UNCHANGED <<users, workspace>>
  BY <1>1, PersonalKept DEF IInv, IsPersonalOf, Live
<1>2. ASSUME NEW u \in Users, Register(u) PROVE EveryUserHasPersonal'
  BY <1>2, RegisterKeepsPersonal
<1>3. ASSUME NEW u \in Users, CreateWorkspace(u) PROVE EveryUserHasPersonal'
  <2>1. \A w \in WsIds, v \in Users : IsPersonalOf(w, v)' <=> IsPersonalOf(w, v)
    BY <1>3 DEF IInv, TypeOK, CreateWorkspace, InsertOwned, IsPersonalOf, Live, Unused
  <2>2. QED
    BY <1>3, <2>1, PersonalKept DEF IInv, CreateWorkspace
<1>4. ASSUME NEW r \in Requests, RenameWrite(r) \/ DescribeWrite(r) PROVE EveryUserHasPersonal'
  <2>1. \A w \in WsIds, v \in Users : IsPersonalOf(w, v)' <=> IsPersonalOf(w, v)
    BY <1>4, EditShape DEF IsPersonalOf
  <2>2. QED
    BY <1>4, <2>1, EditShape, PersonalKept DEF IInv
<1>5. ASSUME NEW r \in Requests, DeleteWrite(r) PROVE EveryUserHasPersonal'
  <2>1. PICK d \in WsIds : d = request[r].ws
    BY <1>5, RequestShape DEF IInv, DeleteWrite, AtStep
  <2>2. \A v \in Users : ~IsPersonalOf(d, v)
    BY <1>5, <2>1 DEF IInv, RequestInv, DeleteWrite, AtStep, IsPersonalOf
  <2>3. \A w \in WsIds, v \in Users : IsPersonalOf(w, v)' <=> IsPersonalOf(w, v)
    BY <1>5, <2>1, <2>2 DEF IInv, TypeOK, DeleteWrite, IsPersonalOf, Live, Deleted
  <2>4. QED
    BY <1>5, <2>3, PersonalKept DEF IInv, DeleteWrite
<1>6. QED
  BY <1>1, <1>2, <1>3, <1>4, <1>5 DEF Next, vars, Expire, OpenRename, OpenDescribe, OpenDelete,
     OpenLeave, OpenInvite, OpenJoin, OpenShared, CheckRole, LeaveWrite, InviteWrite, JoinWrite,
     Rollback

-----------------------------------------------------------------------------
(* The inductive invariant.                                                *)

LEMMA OpenKeeps ==
    ASSUME IInv, NEW r \in Requests,
           \/ OpenRename(r) \/ OpenDescribe(r) \/ OpenDelete(r)
           \/ OpenLeave(r) \/ OpenInvite(r) \/ OpenJoin(r)
    PROVE  RowInv' /\ RequestInv'
<1> USE BeginKeepsRequests DEF Request, Idle, Steps, Visible
<1>1. CASE OpenRename(r)
  BY <1>1 DEF OpenRename, OpenShared, RenameRequest
<1>2. CASE OpenDescribe(r)
  BY <1>2 DEF OpenDescribe, DescribeRequest
<1>3. CASE OpenDelete(r) \/ OpenLeave(r)
  BY <1>3 DEF OpenDelete, OpenLeave, OpenShared, PlainRequest
<1>4. CASE OpenInvite(r)
  BY <1>4 DEF OpenInvite, OpenShared, InviteRequest
<1>5. CASE OpenJoin(r)
  <2>1. PICK u \in Users, i \in InviteIds :
            /\ users[u] = "registered" /\ invite[i].state = "live"
            /\ Begin(r, [op |-> "join", user |-> u, ws |-> invite[i].ws, token |-> i,
                         role |-> invite[i].role, step |-> "role"])
            /\ UNCHANGED <<users, workspace, member, invite>>
    BY <1>5 DEF OpenJoin
  <2>2. /\ invite[i].ws \in WsIds /\ invite[i].role \in InviteRoles
        /\ Live(invite[i].ws) /\ ~workspace[invite[i].ws].personal
    BY <2>1, LiveRow DEF IInv, NoDanglingRows, InviteRow
  <2>3. QED
    BY <2>1, <2>2 DEF JoinRequest
<1>6. QED
  BY <1>1, <1>2, <1>3, <1>4, <1>5

LEMMA InviteKeeps ==
    ASSUME IInv, NEW r \in Requests, InviteWrite(r)
    PROVE  RowInv' /\ RequestInv'
<1>1. /\ request[r].ws \in WsIds /\ Finish(r) /\ UNCHANGED <<users, workspace, member>>
      /\ Live(request[r].ws) => ~workspace[request[r].ws].personal
  BY RequestShape DEF IInv, RequestInv, InviteWrite, AtStep
<1>2. \A i \in InviteIds : invite'[i] = invite[i] \/
          (/\ Live(request[r].ws)
           /\ invite'[i] = [state |-> "live", ws |-> request[r].ws, role |-> request[r].arg,
                            usedBy |-> NoUser, expired |-> FALSE])
  BY DEF IInv, TypeOK, InviteWrite
<1>3. NoDanglingRows'
  BY <1>1, <1>2 DEF IInv, NoDanglingRows, Live
<1>4. RowInv'
  BY <1>1, <1>3 DEF IInv, RowInv, OwnerIsCreator, PersonalIsPrivate, Live
<1>5. QED
  BY <1>1, <1>4, FinishKeepsRequests DEF Live

LEMMA RegisterKeeps ==
    ASSUME IInv, NEW u \in Users, Register(u) \/ CreateWorkspace(u)
    PROVE  RowInv' /\ RequestInv'
<1>1. CASE users' = [users EXCEPT ![u] = "burnt"] /\ Register(u)
           /\ UNCHANGED <<workspace, member, invite, request>>
  <2>1. \A v \in Users : users[v] = "registered" => users'[v] = "registered"
    BY <1>1 DEF IInv, TypeOK, Register
  <2>2. RowInv'
    BY <1>1, <2>1 DEF IInv, RowInv, OwnerIsCreator, PersonalIsPrivate, NoDanglingRows, Live
  <2>3. RequestInv'
    BY <1>1, <2>1, RequestShape DEF IInv, RequestInv, Live
  <2>4. QED
    BY <2>2, <2>3
<1>2. CASE /\ users' = [users EXCEPT ![u] = "registered"]
           /\ \E w \in WsIds : InsertOwned(u, w, PersonalName[u], NoDescription, TRUE)
           /\ UNCHANGED <<invite, request>>
  BY <1>2, InsertKeepsRows, PersonalNameAssumption, NullAssumption DEF IInv, TypeOK
<1>3. CASE CreateWorkspace(u)
  BY <1>3, InsertKeepsRows DEF CreateWorkspace
<1>4. QED
  BY <1>1, <1>2, <1>3 DEF Register

LEMMA ExpireKeeps ==
    ASSUME IInv, NEW i \in InviteIds, Expire(i)
    PROVE  RowInv' /\ RequestInv'
<1>1. /\ \A j \in InviteIds : invite'[j].state = invite[j].state
                              /\ (invite[j].state = "live" => invite'[j].ws = invite[j].ws)
      /\ UNCHANGED <<users, workspace, member, request>>
  BY LiveRow DEF IInv, TypeOK, Expire, InviteRow, NoRow
<1>2. QED
  BY <1>1 DEF IInv, RowInv, OwnerIsCreator, PersonalIsPrivate, NoDanglingRows, RequestInv, Live

LEMMA Inductive == IInv /\ [Next]_vars => IInv'
<1> SUFFICES ASSUME IInv, [Next]_vars PROVE IInv'
  OBVIOUS
<1>1. TypeOK' /\ EveryUserHasPersonal'
  BY TypeInductive, PersonalInductive DEF IInv
<1>2. ASSUME NEW r \in Requests, Rollback(r) PROVE RowInv' /\ RequestInv'
  BY <1>2, SameRows, FinishKeepsRequests DEF Rollback, Live
<1>3. ASSUME UNCHANGED vars PROVE RowInv' /\ RequestInv'
  <2>1. RowInv'
    BY <1>3, SameRows DEF vars
  <2>2. RequestInv'
    BY <1>3 DEF IInv, RequestInv, Live, vars
  <2>3. QED
    BY <2>1, <2>2
<1>4. RowInv' /\ RequestInv'
  <2>1. CASE \E u \in Users : Register(u) \/ CreateWorkspace(u)
    BY <2>1, RegisterKeeps
  <2>2. CASE \E i \in InviteIds : Expire(i)
    BY <2>2, ExpireKeeps
  <2>3. ASSUME NEW r \in Requests,
               \/ OpenRename(r) \/ OpenDescribe(r) \/ OpenDelete(r)
               \/ OpenLeave(r) \/ OpenInvite(r) \/ OpenJoin(r)
               \/ CheckRole(r)
        PROVE RowInv' /\ RequestInv'
    BY <2>3, OpenKeeps, CheckRoleKeeps
  <2>4. ASSUME NEW r \in Requests,
               \/ RenameWrite(r) \/ DescribeWrite(r) \/ DeleteWrite(r)
               \/ LeaveWrite(r) \/ InviteWrite(r) \/ JoinWrite(r)
        PROVE RowInv' /\ RequestInv'
    BY <2>4, EditKeeps, DeleteKeeps, LeaveKeeps, InviteKeeps, JoinKeeps
  <2>5. QED
    BY <1>2, <1>3, <2>1, <2>2, <2>3, <2>4 DEF Next
<1>5. QED
  BY <1>1, <1>4 DEF IInv, RowInv

LEMMA Invariant == Spec => []IInv
<1>1. Init => IInv
  <2>1. Init => TypeOK
    BY DEF Init, TypeOK, NoRow, Unused, Request
  <2>2. QED
    BY <2>1 DEF Init, IInv, OwnerIsCreator, PersonalIsPrivate, EveryUserHasPersonal,
       NoDanglingRows, RequestInv, Live, Unused
<1>2. QED
  BY <1>1, Inductive, PTL DEF Spec

(* A live workspace is owned by its creator and by nobody else, under any  *)
(* interleaving of requests.                                               *)
THEOREM OwnerTheorem == Spec => []OwnerIsCreator
  BY Invariant, PTL DEF IInv

(* No sequence of invites and joins lets anybody into a personal workspace.*)
THEOREM PersonalTheorem == Spec => []PersonalIsPrivate
  BY Invariant, PTL DEF IInv

(* get_personal never fails for a registered user.                         *)
THEOREM HasPersonalTheorem == Spec => []EveryUserHasPersonal
  BY Invariant, PTL DEF IInv

(* No membership or invite outlives its workspace.                         *)
THEOREM NoDanglingTheorem == Spec => []NoDanglingRows
  BY Invariant, PTL DEF IInv

-----------------------------------------------------------------------------
(* Steps.                                                                  *)

(* The requester of every rename, description or deletion owns the         *)
(* workspace when the write happens.                                       *)
THEOREM OwnerDecidesTheorem == Spec => OwnerDecides
<1>1. ASSUME IInv, [Next]_vars, NEW w \in WsIds, Live(w), workspace'[w] # workspace[w]
      PROVE  \E r \in Requests : /\ request[r].op \in {"rename", "describe", "delete"}
                                 /\ request[r].ws = w
                                 /\ member[w][request[r].user] = "owner"
                                 /\ request'[r] = Idle
  <2>1. PICK r \in Requests : RenameWrite(r) \/ DescribeWrite(r) \/ DeleteWrite(r)
    <3>1. ASSUME NEW u \in Users, Register(u) \/ CreateWorkspace(u)
          PROVE  workspace'[w] = workspace[w]
      BY <1>1, <3>1 DEF IInv, TypeOK, Register, CreateWorkspace, InsertOwned, Live, Unused
    <3>2. QED
      BY <1>1, <3>1 DEF Next, vars, Expire, OpenRename, OpenDescribe, OpenDelete, OpenLeave,
         OpenInvite, OpenJoin, OpenShared, CheckRole, LeaveWrite, InviteWrite, JoinWrite, Rollback
  <2>2. request[r].ws = w /\ request'[r] = Idle
    BY <1>1, <2>1 DEF IInv, TypeOK, RenameWrite, DescribeWrite, DeleteWrite, Finish
  <2>3. request[r].op \in {"rename", "describe", "delete"} /\ request[r].user \in Users
    BY <1>1, <2>1, RequestShape DEF IInv, RenameWrite, DescribeWrite, DeleteWrite, AtStep
  <2>4. request[r].user = workspace[w].createdBy
    BY <1>1, <2>1, <2>2 DEF IInv, RequestInv, RenameWrite, DescribeWrite, DeleteWrite, AtStep
  <2>5. QED
    BY <1>1, <2>2, <2>3, <2>4 DEF IInv, OwnerIsCreator
<1>2. IInv /\ [Next]_vars =>
        [\A w \in WsIds : Live(w) /\ workspace'[w] # workspace[w] =>
          \E r \in Requests :
              /\ request[r].op \in {"rename", "describe", "delete"}
              /\ request[r].ws = w
              /\ member[w][request[r].user] = "owner"
              /\ request'[r] = Idle]_vars
  BY <1>1
<1>3. QED
  BY <1>2, Invariant, PTL DEF Spec, OwnerDecides

-----------------------------------------------------------------------------
(* Refinement: every step is a step of WorkspaceAccess or leaves kind and  *)
(* role as they are.                                                       *)

LEMMA KindOf ==
    ASSUME NEW w \in WsIds
    PROVE  /\ Kind[w] = IF ~Live(w) THEN "none"
                        ELSE IF workspace[w].personal THEN "personal" ELSE "shared"
           /\ Kind'[w] = IF ~Live(w)' THEN "none"
                         ELSE IF workspace'[w].personal THEN "personal" ELSE "shared"
  BY DEF Kind

LEMMA SameKind ==
    ASSUME \A w \in WsIds :
              /\ Live(w)' <=> Live(w)
              /\ Live(w) => workspace'[w].personal = workspace[w].personal
    PROVE  Kind' = Kind
  BY DEF Kind

LEMMA InsertIsFound ==
    ASSUME IInv, NEW u \in Users, NEW w \in WsIds, NEW n \in Names,
           NEW d \in Descriptions, NEW p \in BOOLEAN, InsertOwned(u, w, n, d, p)
    PROVE  Access!Found(u, w)
<1>1. /\ ~Live(w) /\ Live(w)' /\ workspace'[w].personal = p
      /\ \A x \in WsIds : x # w => workspace'[x] = workspace[x] /\ (Live(x)' <=> Live(x))
  BY DEF IInv, TypeOK, InsertOwned, Live, Unused
<1> DEFINE k == IF p THEN "personal" ELSE "shared"
<1>2. Kind' = [Kind EXCEPT ![w] = k]
  BY <1>1 DEF Kind
<1>3. Kind[w] = "none"
  BY <1>1, KindOf
<1>4. QED
  BY <1>2, <1>3 DEF InsertOwned, Access!Found

LEMMA JoinImplements ==
    ASSUME IInv, NEW r \in Requests, JoinWrite(r)
    PROVE  [Access!Next]_Access!vars
<1>1. PICK w \in WsIds, u \in Users, ro \in InviteRoles :
          w = request[r].ws /\ u = request[r].user /\ ro = request[r].role
  BY RequestShape DEF IInv, JoinWrite, AtStep
<1>2. Kind' = Kind
  BY SameKind DEF JoinWrite, Live
<1>3. CASE Live(w) /\ member[w][u] = "none" /\ member' = [member EXCEPT ![w][u] = ro]
  <2>1. Kind[w] = "shared"
    BY <1>1, <1>3, KindOf DEF IInv, RequestInv, JoinWrite, AtStep
  <2>2. Access!Join(u, w)
    BY <1>2, <1>3, <2>1 DEF Access!Join, InviteRoles
  <2>3. QED
    BY <2>2 DEF Access!Next
<1>4. CASE UNCHANGED member
  BY <1>2, <1>4 DEF Access!vars
<1>5. QED
  BY <1>1, <1>3, <1>4 DEF JoinWrite

LEMMA LeaveImplements ==
    ASSUME IInv, NEW r \in Requests, LeaveWrite(r)
    PROVE  [Access!Next]_Access!vars
<1>1. PICK w \in WsIds, u \in Users : w = request[r].ws /\ u = request[r].user
  BY RequestShape DEF IInv, LeaveWrite, AtStep
<1>2. Kind' = Kind
  BY SameKind DEF LeaveWrite, Live
<1>3. member[w][u] \in {"viewer", "editor", "none"}
  <2>1. Live(w) => member[w][u] # "owner"
    BY <1>1 DEF IInv, RequestInv, OwnerIsCreator, LeaveWrite, AtStep
  <2>2. ~Live(w) => member[w][u] = "none"
    BY DEF IInv, NoDanglingRows
  <2>3. QED
    BY <2>1, <2>2 DEF IInv, TypeOK, Roles, InviteRoles
<1>4. member' = [member EXCEPT ![w][u] = "none"]
  BY <1>1 DEF LeaveWrite
<1>5. CASE member[w][u] = "none"
  BY <1>2, <1>4, <1>5 DEF IInv, TypeOK, Access!vars
<1>6. CASE member[w][u] \in {"viewer", "editor"}
  BY <1>2, <1>4, <1>6 DEF Access!Next, Access!Leave
<1>7. QED
  BY <1>3, <1>5, <1>6

LEMMA DeleteImplements ==
    ASSUME IInv, NEW r \in Requests, DeleteWrite(r)
    PROVE  [Access!Next]_Access!vars
<1>1. PICK w \in WsIds, u \in Users : w = request[r].ws /\ u = request[r].user
  BY RequestShape DEF IInv, DeleteWrite, AtStep
<1>2. /\ workspace' = [workspace EXCEPT ![w] = Deleted]
      /\ member' = [member EXCEPT ![w] = [v \in Users |-> "none"]]
  BY <1>1 DEF DeleteWrite
<1>3. ~Live(w)' /\ \A x \in WsIds : x # w => workspace'[x] = workspace[x]
  BY <1>2 DEF IInv, TypeOK, Live, Deleted
<1>4. Kind' = [Kind EXCEPT ![w] = "none"]
  BY <1>3 DEF Kind, Live
<1>5. CASE Live(w)
  <2>1. ~workspace[w].personal /\ member[w][u] = "owner"
    BY <1>1, <1>5 DEF IInv, RequestInv, OwnerIsCreator, DeleteWrite, AtStep
  <2>2. Access!Dissolve(u, w)
    BY <1>2, <1>4, <1>5, <2>1, KindOf DEF Access!Dissolve
  <2>3. QED
    BY <2>2 DEF Access!Next
<1>6. CASE ~Live(w)
  <2>1. Kind' = Kind
    BY <1>4, <1>6, KindOf DEF Kind
  <2>2. member' = member
    BY <1>2, <1>6 DEF IInv, TypeOK, NoDanglingRows
  <2>3. QED
    BY <2>1, <2>2 DEF Access!vars
<1>7. QED
  BY <1>5, <1>6

LEMMA StepImplements == IInv /\ [Next]_vars => [Access!Next]_Access!vars
<1> SUFFICES ASSUME IInv, [Next]_vars PROVE [Access!Next]_Access!vars
  OBVIOUS
<1>1. ASSUME NEW u \in Users, Register(u) \/ CreateWorkspace(u)
      PROVE  [Access!Next]_Access!vars
  <2>1. CASE \E w \in WsIds, n \in Names, d \in Descriptions, p \in BOOLEAN :
                InsertOwned(u, w, n, d, p)
    BY <2>1, InsertIsFound DEF Access!Next
  <2>2. CASE UNCHANGED <<workspace, member>>
    BY <2>2 DEF Access!vars, Kind, Live
  <2>3. QED
    BY <1>1, <2>1, <2>2, PersonalNameAssumption, NullAssumption DEF Register, CreateWorkspace
<1>2. ASSUME NEW r \in Requests, RenameWrite(r) \/ DescribeWrite(r)
      PROVE  [Access!Next]_Access!vars
  BY <1>2, EditShape, SameKind DEF Access!vars
<1>3. CASE UNCHANGED <<workspace, member>>
  BY <1>3 DEF Access!vars, Kind, Live
<1>4. QED
  BY <1>1, <1>2, <1>3, JoinImplements, LeaveImplements, DeleteImplements
     DEF Next, vars, Expire, OpenRename, OpenDescribe, OpenDelete, OpenLeave, OpenInvite,
         OpenJoin, OpenShared, CheckRole, InviteWrite, Rollback

(* Workspaces implements WorkspaceAccess.                                  *)
THEOREM AccessTheorem == Spec => ImplementsAccess
<1>1. Init => Access!Init
  BY DEF Init, Access!Init, Kind, Live, Unused
<1>2. QED
  BY <1>1, StepImplements, Invariant, PTL DEF Spec, ImplementsAccess, Access!Spec

=============================================================================
