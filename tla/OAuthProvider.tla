---------------------------- MODULE OAuthProvider ----------------------------
(***************************************************************************)
(* The in-process OAuth authorization server of memlord (oauth.py) and the *)
(* resolution of a token to a user (auth.py).                              *)
(*                                                                         *)
(* Two kinds of state meet here.  Authorization requests and codes live in *)
(* dictionaries of the process and are lost by a restart; accounts, the    *)
(* user a client is linked to and the revoked token ids live in the        *)
(* database.  Tokens are signed and are held by the clients: the server    *)
(* keeps no record of them.  Code between two awaits is atomic (one event  *)
(* loop); each await on the database ends an action.                       *)
(*                                                                         *)
(* The fields "from" and "via" of codes and token pairs and the variables  *)
(* rotated and answered are history: the code has none of them.            *)
(* Requests that are refused without a change of state (a wrong password,  *)
(* an unknown code) are left out.                                          *)
(***************************************************************************)

CONSTANTS
    Clients, Users, Requests,
    PendingIds, Codes, Pairs,   \* fresh random ids, never reused
    NoUser

ASSUME NoUserAssumption == NoUser \notin Users
ASSUME FreshAssumption == Codes \cap Pairs = {}

VARIABLES
    accounts,   \* users that have an account                    (database)
    client,     \* [Clients -> registration, or Unregistered]    (database)
    revoked,    \* ids of revoked tokens                         (database)
    pending,    \* [PendingIds -> _PendingAuth, or none]         (process)
    code,       \* [Codes -> AuthorizationCode, or none]         (process)
    pair,       \* [Pairs -> access and refresh token, or none]  (clients)
    expired,    \* tokens past their lifetime
    request,    \* [Requests -> request in flight, or Idle]      (process)
    rotated,    \* pairs whose refresh token was exchanged for a new pair
    answered    \* tokens whose revocation was answered with 200

vars == <<accounts, client, revoked, pending, code, pair, expired, request, rotated, answered>>
tokenVars == <<revoked, pair, expired, rotated, answered>>

Token == Pairs \X {"access", "refresh"}
Access(k) == <<k, "access">>
Refresh(k) == <<k, "refresh">>

Unregistered == [state |-> "unregistered"]
Unused == [state |-> "unused"]
None == [state: {"unused"}]

ClientRow == [state: {"registered"}, user: Users \cup {NoUser}]
PendingAuth == [state: {"open", "expired", "gone"}, client: Clients]
AuthorizationCode == [state: {"live", "used", "lost"}, client: Clients, from: PendingIds]
TokenPair == [state: {"issued"}, client: Clients, via: Codes \cup Pairs]

Idle == [op |-> "idle"]
LoginRequest == [op: {"login"}, pending: PendingIds, user: Users, step: {"issue", "link", "code"}]
RefreshRequest == [op: {"refresh"}, pair: Pairs, step: {"revoke", "issue"}]
RevokeRequest == [op: {"revoke"}, token: Token, step: {"write"}]
AccessRequest == [op: {"access"}, pair: Pairs, step: {"resolve", "served"},
                  user: Users \cup {NoUser}]
Request == LoginRequest \cup RefreshRequest \cup RevokeRequest \cup AccessRequest \cup {Idle}

Begin(r, q) == request[r] = Idle /\ request' = [request EXCEPT ![r] = q]
Goto(r, step) == request' = [request EXCEPT ![r].step = step]
Finish(r) == request' = [request EXCEPT ![r] = Idle]
AtStep(r, op, step) == request[r] # Idle /\ request[r].op = op /\ request[r].step = step

Linked(c) == client[c].state = "registered" /\ client[c].user \in Users
Good(t) == pair[t[1]].state = "issued" /\ t \notin expired

Init ==
    /\ accounts = {}
    /\ client = [c \in Clients |-> Unregistered]
    /\ pending = [p \in PendingIds |-> Unused]
    /\ code = [c \in Codes |-> Unused]
    /\ pair = [k \in Pairs |-> Unused]
    /\ revoked = {} /\ expired = {} /\ rotated = {} /\ answered = {}
    /\ request = [r \in Requests |-> Idle]

-----------------------------------------------------------------------------
(* Registration, authorization and login                                   *)

(* The client id is fresh, so there is nothing to merge with.              *)
RegisterClient(c) ==
    /\ client[c] = Unregistered
    /\ client' = [client EXCEPT ![c] = [state |-> "registered", user |-> NoUser]]
    /\ UNCHANGED <<accounts, pending, code, request, tokenVars>>

Authorize(p) == \E c \in Clients :
    /\ client[c].state = "registered"
    /\ pending[p] = Unused
    /\ pending' = [pending EXCEPT ![p] = [state |-> "open", client |-> c]]
    /\ UNCHANGED <<accounts, client, code, request, tokenVars>>

(* PENDING_TTL has passed; the entry stays until somebody posts to it.     *)
ExpirePending(p) ==
    /\ pending[p].state = "open"
    /\ pending' = [pending EXCEPT ![p].state = "expired"]
    /\ UNCHANGED <<accounts, client, code, request, tokenVars>>

LoginExpired(p) ==
    /\ pending[p].state = "expired"
    /\ pending' = [pending EXCEPT ![p].state = "gone"]
    /\ UNCHANGED <<accounts, client, code, request, tokenVars>>

LoginRecord(p, u) == [op |-> "login", pending |-> p, user |-> u, step |-> "issue"]

(* _handle_login with the right password.                                  *)
LoginPost(r, p) == \E u \in accounts :
    /\ pending[p].state = "open"
    /\ Begin(r, LoginRecord(p, u))
    /\ UNCHANGED <<accounts, client, pending, code, tokenVars>>

(* _handle_register: the account is committed before the code is issued.   *)
RegisterPost(r, p) == \E u \in Users \ accounts :
    /\ pending[p].state = "open"
    /\ accounts' = accounts \cup {u}
    /\ Begin(r, LoginRecord(p, u))
    /\ UNCHANGED <<client, pending, code, tokenVars>>

(* Mutant: self._pending.pop(pending_id, None).                            *)
IssueCodePop(r) ==
    /\ AtStep(r, "login", "issue")
    /\ pending' = [pending EXCEPT ![request[r].pending].state = "gone"]
    /\ Goto(r, "link")
    /\ UNCHANGED <<accounts, client, code, tokenVars>>

(* _issue_code, first line: del raises KeyError if another POST was faster.*)
IssueCode(r) ==
    /\ AtStep(r, "login", "issue")
    /\ LET p == request[r].pending IN
       IF pending[p].state \in {"open", "expired"}
         THEN pending' = [pending EXCEPT ![p].state = "gone"] /\ Goto(r, "link")
         ELSE Finish(r) /\ UNCHANGED pending
    /\ UNCHANGED <<accounts, client, code, tokenVars>>

(* Mutant: the update of the client is not committed.                      *)
LinkUncommitted(r) ==
    /\ AtStep(r, "login", "link")
    /\ Goto(r, "code")
    /\ UNCHANGED <<accounts, client, pending, code, tokenVars>>

(* _issue_code: UPDATE oauth_clients SET user_id, committed.               *)
LinkClient(r) ==
    /\ AtStep(r, "login", "link")
    /\ client' = [client EXCEPT ![pending[request[r].pending].client].user = request[r].user]
    /\ Goto(r, "code")
    /\ UNCHANGED <<accounts, pending, code, tokenVars>>

CreateCode(r) == \E c \in Codes :
    /\ AtStep(r, "login", "code")
    /\ code[c] = Unused
    /\ code' = [code EXCEPT ![c] =
          [state |-> "live", client |-> pending[request[r].pending].client,
           from |-> request[r].pending]]
    /\ Finish(r)
    /\ UNCHANGED <<accounts, client, pending, tokenVars>>

-----------------------------------------------------------------------------
(* Tokens                                                                  *)

Issue(k, c, v) ==
    /\ pair[k] = Unused
    /\ pair' = [pair EXCEPT ![k] = [state |-> "issued", client |-> c, via |-> v]]

(* Mutant: the code is not deleted.                                        *)
RedeemAgain(c) == \E k \in Pairs :
    /\ code[c].state = "live"
    /\ Issue(k, code[c].client, c)
    /\ UNCHANGED <<accounts, client, pending, code, request, revoked, expired, rotated, answered>>

(* load_authorization_code and exchange_authorization_code: no await in    *)
(* between.                                                                *)
Redeem(c) == \E k \in Pairs :
    /\ code[c].state = "live"
    /\ code' = [code EXCEPT ![c].state = "used"]
    /\ Issue(k, code[c].client, c)
    /\ UNCHANGED <<accounts, client, pending, request, revoked, expired, rotated, answered>>

(* A code past AUTH_CODE_TTL is deleted when it is presented.              *)
RedeemExpired(c) ==
    /\ code[c].state = "live"
    /\ code' = [code EXCEPT ![c].state = "lost"]
    /\ UNCHANGED <<accounts, client, pending, request, tokenVars>>

(* load_refresh_token looks at the signature and the lifetime only.        *)
RefreshBegin(r) == \E k \in Pairs :
    /\ Good(Refresh(k))
    /\ Begin(r, [op |-> "refresh", pair |-> k, step |-> "revoke"])
    /\ UNCHANGED <<accounts, client, pending, code, tokenVars>>

(* Mutant: the id that is stored is not that of a token.                   *)
RevokeTokenOfPair(t) == revoked' = IF Good(t) THEN revoked \cup {t[1]} ELSE revoked

(* _revoke_pair is given one token and revokes that one, if it is valid.   *)
RevokeToken(t) == revoked' = IF Good(t) THEN revoked \cup {t} ELSE revoked

RefreshRevoke(r) ==
    /\ AtStep(r, "refresh", "revoke")
    /\ RevokeToken(Refresh(request[r].pair))
    /\ Goto(r, "issue")
    /\ UNCHANGED <<accounts, client, pending, code, pair, expired, rotated, answered>>

RefreshIssue(r) == \E k \in Pairs :
    /\ AtStep(r, "refresh", "issue")
    /\ LET old == request[r].pair IN
          /\ Issue(k, pair[old].client, old)
          /\ rotated' = rotated \cup {old}
    /\ Finish(r)
    /\ UNCHANGED <<accounts, client, pending, code, revoked, expired, answered>>

(* POST /revoke: the token is loaded first.                                *)
RevokeBegin(r) == \E t \in Token :
    /\ Good(t)
    /\ t[2] = "access" => t \notin revoked
    /\ Begin(r, [op |-> "revoke", token |-> t, step |-> "write"])
    /\ UNCHANGED <<accounts, client, pending, code, tokenVars>>

RevokeWrite(r) ==
    /\ AtStep(r, "revoke", "write")
    /\ RevokeToken(request[r].token)
    /\ answered' = answered \cup {request[r].token}
    /\ Finish(r)
    /\ UNCHANGED <<accounts, client, pending, code, pair, expired, rotated>>

(* load_access_token, then _current_user_gen in the session of the tool.   *)
AccessBegin(r) == \E k \in Pairs :
    /\ Good(Access(k))
    /\ Access(k) \notin revoked
    /\ Begin(r, [op |-> "access", pair |-> k, step |-> "resolve", user |-> NoUser])
    /\ UNCHANGED <<accounts, client, pending, code, tokenVars>>

AccessResolve(r) ==
    /\ AtStep(r, "access", "resolve")
    /\ LET c == pair[request[r].pair].client IN
       IF Linked(c)
         THEN request' = [request EXCEPT ![r].step = "served", ![r].user = client[c].user]
         ELSE Finish(r)
    /\ UNCHANGED <<accounts, client, pending, code, tokenVars>>

AccessDone(r) ==
    /\ AtStep(r, "access", "served")
    /\ Finish(r)
    /\ UNCHANGED <<accounts, client, pending, code, tokenVars>>

-----------------------------------------------------------------------------
(* Time, failure and restart                                               *)

ExpireToken(t) ==
    /\ Good(t)
    /\ expired' = expired \cup {t}
    /\ UNCHANGED <<accounts, client, pending, code, request, pair, revoked, rotated, answered>>

(* The connection or the database fails; what is committed stays.          *)
Abort(r) ==
    /\ request[r] # Idle
    /\ Finish(r)
    /\ UNCHANGED <<accounts, client, pending, code, tokenVars>>

(* Mutant: the revoked ids are kept in the process, too.                   *)
RestartForgets ==
    /\ request' = [r \in Requests |-> Idle]
    /\ revoked' = {}
    /\ UNCHANGED <<accounts, client, pending, code, pair, expired, rotated, answered>>

Restart ==
    /\ pending' = [p \in PendingIds |->
          IF pending[p] = Unused THEN Unused ELSE [pending[p] EXCEPT !.state = "gone"]]
    /\ code' = [c \in Codes |->
          IF code[c].state = "live" THEN [code[c] EXCEPT !.state = "lost"] ELSE code[c]]
    /\ request' = [r \in Requests |-> Idle]
    /\ UNCHANGED <<accounts, client, tokenVars>>

Next ==
    \/ \E c \in Clients : RegisterClient(c)
    \/ \E p \in PendingIds : Authorize(p) \/ ExpirePending(p) \/ LoginExpired(p)
    \/ \E r \in Requests, p \in PendingIds : LoginPost(r, p) \/ RegisterPost(r, p)
    \/ \E c \in Codes : Redeem(c) \/ RedeemExpired(c)
    \/ \E t \in Token : ExpireToken(t)
    \/ \E r \in Requests :
          \/ IssueCode(r) \/ LinkClient(r) \/ CreateCode(r)
          \/ RefreshBegin(r) \/ RefreshRevoke(r) \/ RefreshIssue(r)
          \/ RevokeBegin(r) \/ RevokeWrite(r)
          \/ AccessBegin(r) \/ AccessResolve(r) \/ AccessDone(r)
          \/ Abort(r)
    \/ Restart

Spec == Init /\ [][Next]_vars

-----------------------------------------------------------------------------
(* Properties *)

TypeOK ==
    /\ accounts \subseteq Users
    /\ client \in [Clients -> ClientRow \cup {Unregistered}]
    /\ revoked \subseteq Token /\ expired \subseteq Token /\ answered \subseteq Token
    /\ pending \in [PendingIds -> PendingAuth \cup None]
    /\ code \in [Codes -> AuthorizationCode \cup None]
    /\ pair \in [Pairs -> TokenPair \cup None]
    /\ rotated \subseteq Pairs
    /\ request \in [Requests -> Request]

(* An authorization request yields one code at most, however often its     *)
(* login form is posted and whatever fails on the way (_issue_code).       *)
OneCodePerRequest ==
    \A c, d \in Codes :
        (code[c] # Unused /\ code[d] # Unused /\ code[c].from = code[d].from) => c = d

(* A code is exchanged for one token pair at most                          *)
(* (exchange_authorization_code).                                          *)
CodeSpentOnce ==
    \A c \in Codes, k, j \in Pairs :
        (pair[k] # Unused /\ pair[j] # Unused /\ pair[k].via = c /\ pair[j].via = c) => k = j

(* Whoever holds a code or a token can be resolved to a user: the client   *)
(* was linked and the link committed before the code existed, and restarts *)
(* do not undo it.  _current_user_gen never answers "Unauthenticated" to a *)
(* valid token.                                                            *)
HolderIsLinked ==
    /\ \A c \in Codes : code[c] # Unused => Linked(code[c].client)
    /\ \A k \in Pairs : pair[k] # Unused => Linked(pair[k].client)

(* Once POST /revoke was answered for an access token, no later request is *)
(* let in with it, also after a restart (load_access_token).               *)
RevocationSticks ==
    [][\A r \in Requests :
          (request[r] = Idle /\ request'[r] # Idle /\ request'[r].op = "access")
              => Access(request'[r].pair) \notin answered]_vars

(* "Token rotation on exchange_refresh_token: old pair revoked": a refresh *)
(* token that has been exchanged is not exchanged again.                   *)
RotationEndsRefresh ==
    [][\A r \in Requests :
          (request[r] = Idle /\ request'[r] # Idle /\ request'[r].op = "refresh")
              => request'[r].pair \notin rotated]_vars

=============================================================================
