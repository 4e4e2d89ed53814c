----------------------------- MODULE OAuthProofs -----------------------------
(***************************************************************************)
(* Proofs, for every set of clients, users, request slots and ids, of the  *)
(* safety properties of OAuthProvider.                                     *)
(***************************************************************************)
EXTENDS OAuthProvider, TLAPS

(* Request r has taken pending authorization p out of _pending.            *)
Took(r, p) ==
    /\ request[r] # Idle
    /\ request[r].op = "login" /\ request[r].pending = p /\ request[r].step # "issue"

(* Whoever took p is alone with it until it has made the code.             *)
TakenOnce ==
    \A r \in Requests, p \in PendingIds : Took(r, p) =>
        /\ pending[p].state = "gone"
        /\ \A c \in Codes : code[c] # Unused => code[c].from # p
        /\ \A q \in Requests : Took(q, p) => q = r

CodeFromTaken == \A c \in Codes : code[c] # Unused => pending[code[c].from].state = "gone"

PendingRegistered ==
    \A p \in PendingIds : pending[p] # Unused => client[pending[p].client].state = "registered"

LinkedBeforeCode ==
    \A r \in Requests, p \in PendingIds :
        (Took(r, p) /\ request[r].step = "code") => Linked(pending[p].client)

ViaIsUsed == \A k \in Pairs, c \in Codes :
    (pair[k] # Unused /\ pair[k].via = c) => code[c].state = "used"

(* A request that holds a token holds one that was issued.                 *)
RequestTokens == \A r \in Requests : request[r] # Idle =>
    /\ request[r].op \in {"refresh", "access"} => pair[request[r].pair] # Unused
    /\ request[r].op = "revoke" => pair[request[r].token[1]] # Unused

AnsweredIsDead == answered \subseteq revoked \cup expired

IInv ==
    /\ TypeOK
    /\ TakenOnce /\ CodeFromTaken /\ OneCodePerRequest
    /\ PendingRegistered /\ LinkedBeforeCode /\ HolderIsLinked
    /\ ViaIsUsed /\ CodeSpentOnce
    /\ RequestTokens /\ AnsweredIsDead

-----------------------------------------------------------------------------
(* What the rows and the requests hold.                                    *)
LEMMA Rows ==
    ASSUME TypeOK
    PROVE  /\ \A p \in PendingIds : pending[p] # Unused => pending[p] \in PendingAuth
           /\ \A p \in PendingIds : pending[p].state # "unused" => pending[p] # Unused
           /\ \A c \in Codes : code[c] # Unused => code[c] \in AuthorizationCode
           /\ \A c \in Codes : code[c].state # "unused" => code[c] # Unused
           /\ \A k \in Pairs : pair[k] # Unused => pair[k] \in TokenPair
           /\ \A k \in Pairs : pair[k].state = "issued" => pair[k] # Unused
           /\ \A c \in Clients : client[c].state = "registered" => client[c] \in ClientRow
  BY DEF TypeOK, None, Unused, Unregistered

LEMMA RequestShape ==
    ASSUME TypeOK, NEW r \in Requests, request[r] # Idle
    PROVE  /\ request[r].op = "login" => request[r] \in LoginRequest
           /\ request[r].op = "refresh" => request[r] \in RefreshRequest
           /\ request[r].op = "revoke" => request[r] \in RevokeRequest
           /\ request[r].op = "access" => request[r] \in AccessRequest
<1> request[r] \in LoginRequest \cup RefreshRequest \cup RevokeRequest \cup AccessRequest
  BY DEF TypeOK, Request
<1> QED
  BY DEF LoginRequest, RefreshRequest, RevokeRequest, AccessRequest

(* Ending a request, or moving it on, keeps the requests well typed.       *)
LEMMA RequestKept ==
    ASSUME TypeOK, NEW r \in Requests
    PROVE  /\ Finish(r) => request' \in [Requests -> Request]
           /\ \A s \in {"link", "code"} :
                 request[r] # Idle /\ request[r].op = "login" /\ Goto(r, s)
                    => request' \in [Requests -> Request]
           /\ AtStep(r, "refresh", "revoke") /\ Goto(r, "issue")
                 => request' \in [Requests -> Request]
           /\ \A q \in Request : Begin(r, q) => request' \in [Requests -> Request]
<1>1. Idle \in Request
  BY DEF Request
<1>2. ASSUME NEW s \in {"link", "code"}, request[r] # Idle, request[r].op = "login"
      PROVE  [request[r] EXCEPT !.step = s] \in Request
  BY <1>2, RequestShape DEF LoginRequest, Request
<1>3. ASSUME request[r] # Idle, request[r].op = "refresh"
      PROVE  [request[r] EXCEPT !.step = "issue"] \in Request
  BY <1>3, RequestShape DEF RefreshRequest, Request
<1>4. QED
  BY <1>1, <1>2, <1>3 DEF TypeOK, Finish, Goto, AtStep, Begin

-----------------------------------------------------------------------------
(* Type correctness; LinkClient needs the client to be registered.         *)

LEMMA PendingOfTook ==
    ASSUME IInv, NEW r \in Requests, NEW p \in PendingIds, Took(r, p)
    PROVE  /\ pending[p].client \in Clients
           /\ client[pending[p].client] \in ClientRow
<1>1. pending[p] # Unused /\ pending[p] \in PendingAuth
  BY Rows DEF IInv, TakenOnce
<1>2. QED
  BY <1>1, Rows DEF IInv, PendingRegistered, PendingAuth

LEMMA IssueType ==
    ASSUME TypeOK, NEW k \in Pairs, NEW c \in Clients,
           NEW v \in Codes \cup Pairs, Issue(k, c, v)
    PROVE  pair' \in [Pairs -> TokenPair \cup None]
  BY DEF Issue, TypeOK, TokenPair

LEMMA LoginType ==
    ASSUME IInv, NEW r \in Requests,
           \/ \E p \in PendingIds : LoginPost(r, p) \/ RegisterPost(r, p)
           \/ IssueCode(r) \/ LinkClient(r) \/ CreateCode(r)
    PROVE  TypeOK'
<1>0. TypeOK
  BY DEF IInv
<1>1. ASSUME NEW p \in PendingIds, LoginPost(r, p) \/ RegisterPost(r, p) PROVE TypeOK'
  <2>1. PICK u \in Users : Begin(r, LoginRecord(p, u))
    BY <1>0, <1>1 DEF LoginPost, RegisterPost, TypeOK
  <2>2. LoginRecord(p, u) \in Request
    BY DEF LoginRecord, Request, LoginRequest
  <2>3. request' \in [Requests -> Request]
    BY <1>0, <2>1, <2>2, RequestKept
  <2>4. QED
    BY <1>0, <1>1, <2>3 DEF LoginPost, RegisterPost, TypeOK, tokenVars
<1>2. ASSUME IssueCode(r) PROVE TypeOK'
  <2>1. request[r] # Idle /\ request[r].pending \in PendingIds
    BY <1>0, <1>2, RequestShape DEF IssueCode, AtStep, LoginRequest
  <2>2. request' \in [Requests -> Request]
    BY <1>0, <1>2, RequestKept DEF IssueCode, AtStep
  <2>3. pending' \in [PendingIds -> PendingAuth \cup None]
    <3>1. \A p \in PendingIds : pending[p].state \in {"open", "expired"} =>
             [pending[p] EXCEPT !.state = "gone"] \in PendingAuth
      BY <1>0, Rows DEF PendingAuth
    <3>2. QED
      BY <1>0, <1>2, <2>1, <3>1 DEF IssueCode, TypeOK
  <2>4. QED
    BY <1>0, <1>2, <2>2, <2>3 DEF IssueCode, TypeOK, tokenVars
<1>3. ASSUME LinkClient(r) PROVE TypeOK'
  <2>1. PICK p \in PendingIds, u \in Users :
            p = request[r].pending /\ u = request[r].user /\ Took(r, p)
    BY <1>0, <1>3, RequestShape DEF LinkClient, AtStep, LoginRequest, Took
  <2>2. /\ pending[p].client \in Clients
        /\ [client[pending[p].client] EXCEPT !.user = u] \in ClientRow
    BY <2>1, PendingOfTook DEF ClientRow
  <2>3. client' \in [Clients -> ClientRow \cup {Unregistered}]
    BY <1>0, <1>3, <2>1, <2>2 DEF LinkClient, TypeOK
  <2>4. request' \in [Requests -> Request]
    BY <1>0, <1>3, RequestKept DEF LinkClient, AtStep
  <2>5. QED
    BY <1>0, <1>3, <2>3, <2>4 DEF LinkClient, TypeOK, tokenVars
<1>4. ASSUME CreateCode(r) PROVE TypeOK'
  <2>1. PICK p \in PendingIds : p = request[r].pending /\ Took(r, p)
    BY <1>0, <1>4, RequestShape DEF CreateCode, AtStep, LoginRequest, Took
  <2>2. [state |-> "live", client |-> pending[p].client, from |-> p]
           \in AuthorizationCode
    BY <2>1, PendingOfTook DEF AuthorizationCode
  <2>3. code' \in [Codes -> AuthorizationCode \cup None]
    BY <1>0, <1>4, <2>1, <2>2 DEF CreateCode, TypeOK
  <2>4. request' \in [Requests -> Request]
    BY <1>0, <1>4, RequestKept DEF CreateCode
  <2>5. QED
    BY <1>0, <1>4, <2>3, <2>4 DEF CreateCode, TypeOK, tokenVars
<1>5. QED
  BY <1>1, <1>2, <1>3, <1>4

LEMMA TokenType ==
    ASSUME IInv, NEW r \in Requests,
           \/ RefreshBegin(r) \/ RefreshRevoke(r) \/ RefreshIssue(r)
           \/ RevokeBegin(r) \/ RevokeWrite(r)
           \/ AccessBegin(r) \/ AccessResolve(r) \/ AccessDone(r) \/ Abort(r)
    PROVE  TypeOK'
<1>0. TypeOK
  BY DEF IInv
<1>1. CASE RefreshBegin(r) \/ RevokeBegin(r) \/ AccessBegin(r)
  <2>1. PICK q \in Request : Begin(r, q)
    BY <1>1 DEF RefreshBegin, RevokeBegin, AccessBegin, Request, RefreshRequest,
                RevokeRequest, AccessRequest
  <2>2. request' \in [Requests -> Request]
    BY <1>0, <2>1, RequestKept
  <2>3. QED
    BY <1>0, <1>1, <2>2 DEF RefreshBegin, RevokeBegin, AccessBegin, TypeOK, tokenVars
<1>2. CASE AccessDone(r) \/ Abort(r)
  <2>1. request' \in [Requests -> Request]
    BY <1>0, <1>2, RequestKept DEF AccessDone, Abort
  <2>2. QED
    BY <1>0, <1>2, <2>1 DEF AccessDone, Abort, TypeOK, tokenVars
<1>3. CASE AccessResolve(r)
  <2>1. request[r] # Idle /\ request[r] \in AccessRequest
    BY <1>0, <1>3, RequestShape DEF AccessResolve, AtStep
  <2>2. PICK c : c = pair[request[r].pair].client /\
                 IF Linked(c)
                   THEN request' = [request EXCEPT ![r].step = "served", ![r].user = client[c].user]
                   ELSE Finish(r)
    BY <1>3 DEF AccessResolve
  <2>3. CASE Linked(c)
    <3>1. [request[r] EXCEPT !.step = "served", !.user = client[c].user] \in Request
      BY <2>1, <2>3 DEF AccessRequest, Request, Linked
    <3>2. request' = [request EXCEPT ![r] =
                         [request[r] EXCEPT !.step = "served", !.user = client[c].user]]
      BY <2>2, <2>3
    <3>3. request' \in [Requests -> Request]
      BY <1>0, <3>1, <3>2 DEF TypeOK
    <3>4. QED
      BY <1>0, <1>3, <3>3 DEF AccessResolve, TypeOK, tokenVars
  <2>4. CASE ~Linked(c)
    <3>1. request' \in [Requests -> Request]
      BY <1>0, <2>2, <2>4, RequestKept
    <3>2. QED
      BY <1>0, <1>3, <3>1 DEF AccessResolve, TypeOK, tokenVars
  <2>5. QED
    BY <2>3, <2>4
<1>4. CASE RefreshRevoke(r)
  <2>1. request[r].pair \in Pairs
    BY <1>0, <1>4, RequestShape DEF RefreshRevoke, AtStep, RefreshRequest
  <2>2. revoked' \subseteq Token
    BY <1>0, <1>4, <2>1 DEF RefreshRevoke, RevokeToken, Refresh, Token, TypeOK
  <2>3. request' \in [Requests -> Request]
    BY <1>0, <1>4, RequestKept DEF RefreshRevoke
  <2>4. QED
    BY <1>0, <1>4, <2>2, <2>3 DEF RefreshRevoke, TypeOK
<1>5. CASE RefreshIssue(r)
  <2>1. PICK k \in Pairs, old \in Pairs :
           /\ old = request[r].pair /\ request[r] # Idle /\ request[r].op = "refresh"
           /\ Issue(k, pair[old].client, old)
           /\ rotated' = rotated \cup {old}
    BY <1>0, <1>5, RequestShape DEF RefreshIssue, AtStep, RefreshRequest
  <2>2. pair[old].client \in Clients
    BY <1>0, <2>1, Rows DEF IInv, RequestTokens, TokenPair
  <2>3. pair' \in [Pairs -> TokenPair \cup None]
    BY <1>0, <2>1, <2>2, IssueType
  <2>4. request' \in [Requests -> Request]
    BY <1>0, <1>5, RequestKept DEF RefreshIssue
  <2>5. QED
    BY <1>0, <1>5, <2>1, <2>3, <2>4 DEF RefreshIssue, TypeOK
<1>6. CASE RevokeWrite(r)
  <2>1. request[r].token \in Token
    BY <1>0, <1>6, RequestShape DEF RevokeWrite, AtStep, RevokeRequest
  <2>2. revoked' \subseteq Token /\ answered' \subseteq Token
    BY <1>0, <1>6, <2>1 DEF RevokeWrite, RevokeToken, TypeOK
  <2>3. request' \in [Requests -> Request]
    BY <1>0, <1>6, RequestKept DEF RevokeWrite
  <2>4. QED
    BY <1>0, <1>6, <2>2, <2>3 DEF RevokeWrite, TypeOK
<1>7. QED
  BY <1>1, <1>2, <1>3, <1>4, <1>5, <1>6

LEMMA TypeInductive == IInv /\ [Next]_vars => TypeOK'
<1> SUFFICES ASSUME IInv, [Next]_vars PROVE TypeOK'
  OBVIOUS
<1>0. TypeOK
  BY DEF IInv
<1>1. ASSUME NEW c \in Clients, RegisterClient(c) PROVE TypeOK'
  BY <1>0, <1>1 DEF RegisterClient, TypeOK, ClientRow, tokenVars
<1>2. ASSUME NEW p \in PendingIds, Authorize(p) PROVE TypeOK'
  BY <1>0, <1>2 DEF Authorize, TypeOK, PendingAuth, tokenVars
<1>3. ASSUME NEW p \in PendingIds, ExpirePending(p) \/ LoginExpired(p) PROVE TypeOK'
  <2>1. \A s \in {"expired", "gone"} : [pending[p] EXCEPT !.state = s] \in PendingAuth
    BY <1>0, <1>3, Rows DEF ExpirePending, LoginExpired, PendingAuth
  <2>2. pending' \in [PendingIds -> PendingAuth \cup None]
    BY <1>0, <1>3, <2>1 DEF ExpirePending, LoginExpired, TypeOK
  <2>3. QED
    BY <1>0, <1>3, <2>2 DEF ExpirePending, LoginExpired, TypeOK, tokenVars
<1>4. ASSUME NEW c \in Codes, Redeem(c) \/ RedeemExpired(c) PROVE TypeOK'
  <2>1. code[c] \in AuthorizationCode
    BY <1>0, <1>4, Rows DEF Redeem, RedeemExpired
  <2>2. \A s \in {"used", "lost"} : [code[c] EXCEPT !.state = s] \in AuthorizationCode
    BY <2>1 DEF AuthorizationCode
  <2>3. code' \in [Codes -> AuthorizationCode \cup None]
    BY <1>0, <1>4, <2>2 DEF Redeem, RedeemExpired, TypeOK
  <2>4. CASE Redeem(c)
    <3>1. code[c].client \in Clients
      BY <2>1 DEF AuthorizationCode
    <3>2. pair' \in [Pairs -> TokenPair \cup None]
      BY <1>0, <2>4, <3>1, IssueType DEF Redeem
    <3>3. QED
      BY <1>0, <2>3, <2>4, <3>2 DEF Redeem, TypeOK
  <2>5. CASE RedeemExpired(c)
    BY <1>0, <2>3, <2>5 DEF RedeemExpired, TypeOK, tokenVars
  <2>6. QED
    BY <1>4, <2>4, <2>5
<1>5. ASSUME NEW t \in Token, ExpireToken(t) PROVE TypeOK'
  BY <1>0, <1>5 DEF ExpireToken, TypeOK
<1>6. ASSUME Restart PROVE TypeOK'
  <2>1. \A p \in PendingIds : pending[p] # Unused =>
           [pending[p] EXCEPT !.state = "gone"] \in PendingAuth
    BY <1>0, Rows DEF PendingAuth
  <2>2. \A c \in Codes : code[c].state = "live" =>
           [code[c] EXCEPT !.state = "lost"] \in AuthorizationCode
    BY <1>0, Rows DEF AuthorizationCode
  <2>3. /\ pending' \in [PendingIds -> PendingAuth \cup None]
        /\ code' \in [Codes -> AuthorizationCode \cup None]
    BY <1>0, <1>6, <2>1, <2>2 DEF Restart, TypeOK, Unused, None
  <2>4. QED
    BY <1>0, <1>6, <2>3 DEF Restart, TypeOK, Request, tokenVars
<1>7. CASE UNCHANGED vars
  BY <1>0, <1>7 DEF vars, TypeOK
<1>8. QED
  BY <1>1, <1>2, <1>3, <1>4, <1>5, <1>6, <1>7, LoginType, TokenType DEF Next

-----------------------------------------------------------------------------
(* What no step undoes: a client stays registered and linked, a taken      *)
(* authorization stays taken, a code or a pair keeps whom it is for.       *)

LEMMA ClientKept ==
    ASSUME IInv, [Next]_vars, NEW c \in Clients
    PROVE  /\ client[c].state = "registered" => client'[c].state = "registered"
           /\ Linked(c) => Linked(c)'
<1>0. TypeOK
  BY DEF IInv
<1>1. ASSUME NEW d \in Clients, RegisterClient(d)
      PROVE  client[c].state = "registered" => client'[c] = client[c]
  BY <1>0, <1>1 DEF RegisterClient, TypeOK, Unregistered
<1>2. ASSUME NEW r \in Requests, LinkClient(r)
      PROVE  /\ client[c].state = "registered" => client'[c].state = "registered"
             /\ Linked(c) => Linked(c)'
  <2>1. request[r].user \in Users
    BY <1>0, <1>2, RequestShape DEF LinkClient, AtStep, LoginRequest
  <2>2. client[c].state = "registered" => client[c] \in ClientRow
    BY <1>0, Rows
  <2>3. QED
    BY <1>0, <1>2, <2>1, <2>2 DEF LinkClient, TypeOK, Linked, ClientRow
<1>3. CASE UNCHANGED client
  BY <1>3 DEF Linked
<1>4. QED
  BY <1>1, <1>2, <1>3
     DEF Next, vars, Linked, Authorize, ExpirePending, LoginExpired, LoginPost, RegisterPost,
         Redeem, RedeemExpired, ExpireToken, IssueCode, CreateCode, RefreshBegin,
         RefreshRevoke, RefreshIssue, RevokeBegin, RevokeWrite, AccessBegin, AccessResolve,
         AccessDone, Abort, Restart

LEMMA PendingKept ==
    ASSUME IInv, [Next]_vars, NEW p \in PendingIds, pending[p] # Unused
    PROVE  /\ pending'[p] # Unused
           /\ pending'[p].client = pending[p].client
           /\ pending[p].state = "gone" => pending'[p].state = "gone"
<1>0. TypeOK /\ pending[p] \in PendingAuth
  BY Rows DEF IInv
<1>1. ASSUME NEW s \in {"expired", "gone"}, NEW x \in PendingIds,
             pending' = [pending EXCEPT ![x].state = s],
             s = "expired" => pending[x].state = "open"
      PROVE  pending'[p].client = pending[p].client /\ pending'[p].state \in {pending[p].state, s}
             /\ (pending[p].state = "gone" => pending'[p].state = "gone")
  BY <1>0, <1>1 DEF TypeOK, PendingAuth
<1>2. ASSUME NEW x \in PendingIds, Authorize(x) PROVE pending'[p] = pending[p]
  BY <1>0, <1>2 DEF Authorize, TypeOK
<1>3. ASSUME Restart
      PROVE  pending'[p].client = pending[p].client /\ pending'[p].state = "gone"
  BY <1>0, <1>3 DEF Restart, PendingAuth
<1>4. ASSUME NEW r \in Requests, IssueCode(r)
      PROVE  \/ pending' = pending
             \/ pending' = [pending EXCEPT ![request[r].pending].state = "gone"]
                /\ request[r].pending \in PendingIds
  BY <1>0, <1>4, RequestShape DEF IssueCode, AtStep, LoginRequest
<1>5. \/ pending'[p] = pending[p]
      \/ /\ pending'[p].client = pending[p].client
         /\ pending'[p].state \in {pending[p].state, "expired", "gone"}
         /\ pending[p].state = "gone" => pending'[p].state = "gone"
  BY <1>1, <1>2, <1>3, <1>4
     DEF Next, vars, RegisterClient, ExpirePending, LoginExpired, LoginPost, RegisterPost,
         Redeem, RedeemExpired, ExpireToken, LinkClient, CreateCode, RefreshBegin,
         RefreshRevoke, RefreshIssue, RevokeBegin, RevokeWrite, AccessBegin, AccessResolve,
         AccessDone, Abort
<1>6. QED
  BY <1>0, <1>5 DEF PendingAuth, Unused

(* A code that exists after a step existed before it, unchanged but for    *)
(* its state, or was made by the step.                                     *)
LEMMA CodeKept ==
    ASSUME IInv, [Next]_vars, NEW c \in Codes, code'[c] # Unused
    PROVE  \/ /\ code[c] # Unused
              /\ code'[c].from = code[c].from /\ code'[c].client = code[c].client
              /\ code[c].state = "used" => code'[c].state = "used"
           \/ \E r \in Requests : CreateCode(r) /\ code[c] = Unused
<1>0. TypeOK
  BY DEF IInv
<1>1. ASSUME NEW s \in {"used", "lost"}, code[c].state = "live",
             code'[c] = [code[c] EXCEPT !.state = s]
      PROVE  /\ code[c] # Unused
             /\ code'[c].from = code[c].from /\ code'[c].client = code[c].client
             /\ code[c].state = "used" => code'[c].state = "used"
  BY <1>0, <1>1, Rows DEF AuthorizationCode
<1>2. ASSUME NEW d \in Codes, Redeem(d) \/ RedeemExpired(d)
      PROVE  \/ code'[c] = code[c]
             \/ \E s \in {"used", "lost"} :
                   code[c].state = "live" /\ code'[c] = [code[c] EXCEPT !.state = s]
  BY <1>0, <1>2 DEF Redeem, RedeemExpired, TypeOK
<1>3. ASSUME Restart
      PROVE  \/ code'[c] = code[c]
             \/ code[c].state = "live" /\ code'[c] = [code[c] EXCEPT !.state = "lost"]
  BY <1>3 DEF Restart
<1>4. ASSUME NEW r \in Requests, CreateCode(r)
      PROVE  code'[c] = code[c] \/ code[c] = Unused
  BY <1>0, <1>4 DEF CreateCode, TypeOK
<1>5. \/ code'[c] = code[c]
      \/ \E s \in {"used", "lost"} :
            code[c].state = "live" /\ code'[c] = [code[c] EXCEPT !.state = s]
      \/ \E r \in Requests : CreateCode(r) /\ code[c] = Unused
  BY <1>2, <1>3, <1>4
     DEF Next, vars, RegisterClient, Authorize, ExpirePending, LoginExpired, LoginPost,
         RegisterPost, ExpireToken, IssueCode, LinkClient, RefreshBegin,
         RefreshRevoke, RefreshIssue, RevokeBegin, RevokeWrite, AccessBegin, AccessResolve,
         AccessDone, Abort
<1>6. QED
  BY <1>1, <1>5

(* A pair that exists after a step existed before it, or was issued for a  *)
(* code or for a refresh token.                                            *)
LEMMA PairKept ==
    ASSUME IInv, [Next]_vars, NEW k \in Pairs, pair'[k] # Unused
    PROVE  \/ pair[k] # Unused /\ pair'[k] = pair[k]
           \/ \E c \in Codes : /\ Redeem(c) /\ pair[k] = Unused
                               /\ pair'[k].client = code[c].client /\ pair'[k].via = c
           \/ \E r \in Requests : /\ RefreshIssue(r) /\ pair[k] = Unused
                                  /\ pair'[k].client = pair[request[r].pair].client
                                  /\ pair'[k].via = request[r].pair
<1>0. TypeOK
  BY DEF IInv
<1>1. ASSUME NEW j \in Pairs, NEW c, NEW v, Issue(j, c, v)
      PROVE  \/ pair'[k] = pair[k]
             \/ pair[k] = Unused /\ pair'[k].client = c /\ pair'[k].via = v
  BY <1>0, <1>1 DEF Issue, TypeOK
<1>2. ASSUME NEW c \in Codes, Redeem(c)
      PROVE  \/ pair'[k] = pair[k]
             \/ pair[k] = Unused /\ pair'[k].client = code[c].client /\ pair'[k].via = c
  BY <1>1, <1>2 DEF Redeem
<1>3. ASSUME NEW r \in Requests, RefreshIssue(r)
      PROVE  \/ pair'[k] = pair[k]
             \/ /\ pair[k] = Unused
                /\ pair'[k].client = pair[request[r].pair].client
                /\ pair'[k].via = request[r].pair
  BY <1>1, <1>3 DEF RefreshIssue
<1>4. \/ \E c \in Codes : Redeem(c)
      \/ \E r \in Requests : RefreshIssue(r)
      \/ UNCHANGED pair
  BY DEF Next, vars, RegisterClient, Authorize, ExpirePending, LoginExpired, LoginPost,
         RegisterPost, ExpireToken, IssueCode, LinkClient, CreateCode, RefreshBegin,
         RedeemExpired, RefreshRevoke, RevokeBegin, RevokeWrite, AccessBegin,
         AccessResolve, AccessDone, Abort, Restart, tokenVars
<1>5. QED
  BY <1>2, <1>3, <1>4

(* Only IssueCode takes an authorization, and only the login itself moves  *)
(* on.                                                                     *)
LEMMA TookKept ==
    ASSUME IInv, [Next]_vars, NEW r \in Requests, NEW p \in PendingIds, Took(r, p)'
    PROVE  /\ ~CreateCode(r)
           /\ \/ Took(r, p) /\ request'[r] = request[r]
              \/ LinkClient(r) /\ Took(r, p)
              \/ /\ IssueCode(r) /\ request[r].pending = p
                 /\ pending[p].state \in {"open", "expired"}
                 /\ request'[r].step = "link"
<1>0. TypeOK
  BY DEF IInv
<1>1. ASSUME NEW q \in Requests, NEW x, Begin(q, x), x.op # "login" \/ x.step = "issue"
      PROVE  Took(r, p) /\ request'[r] = request[r]
  BY <1>0, <1>1 DEF Begin, TypeOK, Took
<1>2. ASSUME NEW q \in Requests, Finish(q)
      PROVE  Took(r, p) /\ request'[r] = request[r] /\ q # r
  BY <1>0, <1>2 DEF Finish, TypeOK, Took
<1>3. ASSUME NEW q \in Requests, NEW s, request[q] # Idle, Goto(q, s)
      PROVE  \/ Took(r, p) /\ request'[r] = request[r] /\ q # r
             \/ q = r /\ request'[r] = [request[r] EXCEPT !.step = s]
  BY <1>0, <1>3 DEF Goto, TypeOK, Took
<1>4. ~CreateCode(r)
  BY <1>2 DEF CreateCode
<1>5. ASSUME NEW q \in Requests,
             \/ \E x \in PendingIds : LoginPost(q, x) \/ RegisterPost(q, x)
             \/ RefreshBegin(q) \/ RevokeBegin(q) \/ AccessBegin(q)
      PROVE  Took(r, p) /\ request'[r] = request[r]
  BY <1>1, <1>5 DEF LoginPost, RegisterPost, LoginRecord, RefreshBegin, RevokeBegin, AccessBegin
<1>6. ASSUME NEW q \in Requests,
             CreateCode(q) \/ RefreshIssue(q) \/ RevokeWrite(q) \/ AccessDone(q) \/ Abort(q)
      PROVE  Took(r, p) /\ request'[r] = request[r]
  BY <1>2, <1>6 DEF CreateCode, RefreshIssue, RevokeWrite, AccessDone, Abort
<1>7. ASSUME NEW q \in Requests, IssueCode(q)
      PROVE  \/ Took(r, p) /\ request'[r] = request[r]
             \/ /\ IssueCode(r) /\ request[r].pending = p
                /\ pending[p].state \in {"open", "expired"}
                /\ request'[r].step = "link"
  <2>1. request[q] # Idle /\ request[q] \in LoginRequest
    BY <1>0, <1>7, RequestShape DEF IssueCode, AtStep
  <2>2. CASE Finish(q)
    BY <1>2, <2>2
  <2>3. CASE Goto(q, "link") /\ pending[request[q].pending].state \in {"open", "expired"}
    <3>1. CASE q = r /\ request'[r] = [request[r] EXCEPT !.step = "link"]
      BY <1>7, <2>1, <2>3, <3>1 DEF Took, LoginRequest
    <3>2. QED
      BY <1>3, <2>1, <2>3, <3>1
  <2>4. QED
    BY <1>7, <2>2, <2>3 DEF IssueCode
<1>8. ASSUME NEW q \in Requests, LinkClient(q)
      PROVE  Took(r, p) /\ (request'[r] = request[r] \/ LinkClient(r))
  <2>1. request[q] # Idle /\ request[q] \in LoginRequest /\ request[q].step = "link"
    BY <1>0, <1>8, RequestShape DEF LinkClient, AtStep
  <2>2. CASE q = r /\ request'[r] = [request[r] EXCEPT !.step = "code"]
    BY <1>8, <2>1, <2>2 DEF Took, LoginRequest
  <2>3. QED
    BY <1>3, <1>8, <2>1, <2>2 DEF LinkClient
<1>9. ASSUME NEW q \in Requests, RefreshRevoke(q) \/ AccessResolve(q)
      PROVE  Took(r, p) /\ request'[r] = request[r]
  <2>1. /\ request[q] # Idle /\ request[q].op # "login"
        /\ request[q] \in RefreshRequest \cup AccessRequest
    BY <1>0, <1>9, RequestShape DEF RefreshRevoke, AccessResolve, AtStep
  <2>2. CASE q # r
    BY <1>0, <1>9, <2>2 DEF RefreshRevoke, AccessResolve, Goto, Finish, TypeOK, Took
  <2>3. CASE q = r
    <3>1. request'[r] = Idle \/ request'[r].op = request[r].op
      BY <1>0, <1>9, <2>1, <2>3
         DEF RefreshRevoke, AccessResolve, Goto, Finish, TypeOK, RefreshRequest, AccessRequest
    <3>2. QED
      BY <2>1, <2>3, <3>1 DEF Took
  <2>4. QED
    BY <2>2, <2>3
<1>10. ~Restart
  BY DEF Restart, Took
<1>11. CASE UNCHANGED request
  BY <1>4, <1>11 DEF Took
<1>12. \/ UNCHANGED request \/ Restart
       \/ \E q \in Requests :
             \/ \E x \in PendingIds : LoginPost(q, x) \/ RegisterPost(q, x)
             \/ RefreshBegin(q) \/ RevokeBegin(q) \/ AccessBegin(q)
             \/ CreateCode(q) \/ RefreshIssue(q) \/ RevokeWrite(q) \/ AccessDone(q) \/ Abort(q)
             \/ IssueCode(q) \/ LinkClient(q) \/ RefreshRevoke(q) \/ AccessResolve(q)
  BY DEF Next, vars, RegisterClient, Authorize, ExpirePending, LoginExpired, Redeem,
         RedeemExpired, ExpireToken
<1>13. QED
  BY <1>4, <1>5, <1>6, <1>7, <1>8, <1>9, <1>10, <1>11, <1>12

-----------------------------------------------------------------------------
(* The conjuncts of IInv.                                                  *)

LEMMA TakenInductive == IInv /\ [Next]_vars => (TakenOnce /\ CodeFromTaken /\ OneCodePerRequest)'
<1> SUFFICES ASSUME IInv, [Next]_vars
             PROVE  (TakenOnce /\ CodeFromTaken /\ OneCodePerRequest)'
  OBVIOUS
<1>0. TypeOK
  BY DEF IInv
<1>1. ASSUME NEW c \in Codes, code'[c] # Unused
      PROVE  \/ code[c] # Unused /\ code'[c].from = code[c].from
             \/ \E r \in Requests, p \in PendingIds :
                   CreateCode(r) /\ Took(r, p) /\ code[c] = Unused /\ code'[c].from = p
                   /\ \A d \in Codes \ {c} : code'[d] = code[d]
  <2>1. ASSUME NEW r \in Requests, CreateCode(r), code[c] = Unused
        PROVE  \E p \in PendingIds :
                  Took(r, p) /\ code'[c].from = p /\ \A d \in Codes \ {c} : code'[d] = code[d]
    <3>1. PICK p \in PendingIds : p = request[r].pending /\ Took(r, p)
      BY <1>0, <2>1, RequestShape DEF CreateCode, AtStep, LoginRequest, Took
    <3>2. QED
      BY <1>0, <1>1, <2>1, <3>1 DEF CreateCode, TypeOK
  <2>2. QED
    BY <1>1, <2>1, CodeKept
<1>2. ASSUME NEW c \in Codes, code'[c] # Unused
      PROVE  code[c] # Unused => code[c].from \in PendingIds
  BY <1>0, Rows DEF AuthorizationCode
<1>3. ASSUME NEW p \in PendingIds, pending[p].state = "gone" PROVE pending'[p].state = "gone"
  BY <1>0, <1>3, Rows, PendingKept
<1>4. CodeFromTaken'
  <2> SUFFICES ASSUME NEW c \in Codes, code'[c] # Unused
               PROVE  pending'[code'[c].from].state = "gone"
    BY DEF CodeFromTaken
  <2> QED
    BY <1>1, <1>2, <1>3 DEF IInv, CodeFromTaken, TakenOnce
<1>5. OneCodePerRequest'
  <2> SUFFICES ASSUME NEW c \in Codes, NEW d \in Codes, code'[c] # Unused, code'[d] # Unused,
                      code'[c].from = code'[d].from, c # d
               PROVE  FALSE
    BY DEF OneCodePerRequest
  <2>1. ASSUME NEW x \in Codes, NEW y \in Codes, code[x] # Unused, code'[x].from = code[x].from,
               code'[y] # Unused, code'[x].from = code'[y].from, x # y
        PROVE  FALSE
    <3>1. CASE code[y] # Unused /\ code'[y].from = code[y].from
      BY <2>1, <3>1 DEF IInv, OneCodePerRequest
    <3>2. ASSUME NEW r \in Requests, NEW p \in PendingIds, Took(r, p), code'[y].from = p
          PROVE  FALSE
      BY <2>1, <3>2 DEF IInv, TakenOnce
    <3>3. QED
      BY <1>1, <2>1, <3>1, <3>2
  <2>2. CASE \A x \in {c, d} : code[x] = Unused
    BY <1>1, <2>2
  <2>3. QED
    BY <1>1, <2>1, <2>2
<1>6. TakenOnce'
  <2> SUFFICES ASSUME NEW r \in Requests, NEW p \in PendingIds, Took(r, p)'
               PROVE  /\ pending'[p].state = "gone"
                      /\ \A c \in Codes : code'[c] # Unused => code'[c].from # p
                      /\ \A q \in Requests : Took(q, p)' => q = r
    BY DEF TakenOnce
  <2>1. CASE Took(r, p)
    <3>1. pending'[p].state = "gone"
      BY <1>3, <2>1 DEF IInv, TakenOnce
    <3>2. ASSUME NEW c \in Codes, code'[c] # Unused PROVE code'[c].from # p
      BY <1>1, <2>1, <3>2, TookKept DEF IInv, TakenOnce
    <3>3. ASSUME NEW q \in Requests, Took(q, p)' PROVE q = r
      <4>1. Took(q, p) \/ pending[p].state \in {"open", "expired"}
        BY <3>3, TookKept
      <4>2. QED
        BY <2>1, <4>1 DEF IInv, TakenOnce
    <3>4. QED
      BY <3>1, <3>2, <3>3
  <2>2. CASE /\ IssueCode(r) /\ request[r].pending = p
             /\ pending[p].state \in {"open", "expired"}
    <3>1. pending'[p].state = "gone"
      BY <1>0, <2>2, Rows DEF IssueCode, TypeOK, PendingAuth
    <3>2. UNCHANGED code
      BY <2>2 DEF IssueCode
    <3>3. \A c \in Codes : code'[c] # Unused => code'[c].from # p
      BY <2>2, <3>2 DEF IInv, CodeFromTaken
    <3>4. ASSUME NEW q \in Requests, Took(q, p)' PROVE q = r
      <4>1. ~Took(q, p)
        BY <2>2 DEF IInv, TakenOnce
      <4>2. IssueCode(q)
        BY <3>4, <4>1, TookKept
      <4>3. QED
        BY <1>0, <2>2, <3>4, <4>1, <4>2 DEF IssueCode, Goto, Finish, Took, TypeOK
    <3>5. QED
      BY <3>1, <3>3, <3>4
  <2>3. QED
    BY <2>1, <2>2, TookKept
<1>7. QED
  BY <1>4, <1>5, <1>6

LEMMA LinkedInductive ==
    IInv /\ [Next]_vars => (PendingRegistered /\ LinkedBeforeCode /\ HolderIsLinked)'
<1> SUFFICES ASSUME IInv, [Next]_vars
             PROVE  (PendingRegistered /\ LinkedBeforeCode /\ HolderIsLinked)'
  OBVIOUS
<1>0. TypeOK
  BY DEF IInv
<1>1. PendingRegistered'
  <2> SUFFICES ASSUME NEW p \in PendingIds, pending'[p] # Unused
               PROVE  client'[pending'[p].client].state = "registered"
    BY DEF PendingRegistered
  <2>1. CASE pending[p] # Unused
    <3>1. pending[p].client \in Clients /\ pending'[p].client = pending[p].client
      BY <1>0, <2>1, Rows, PendingKept DEF PendingAuth
    <3>2. QED
      BY <2>1, <3>1, ClientKept DEF IInv, PendingRegistered
  <2>2. CASE pending[p] = Unused
    <3>1. \E x \in PendingIds : Authorize(x)
      <4>1. pending[p].state = "unused" /\ pending' # pending
        BY <2>2 DEF Unused
      <4>2. ASSUME NEW x \in PendingIds, ExpirePending(x) \/ LoginExpired(x) PROVE FALSE
        BY <1>0, <2>2, <4>1, <4>2 DEF ExpirePending, LoginExpired, TypeOK
      <4>3. ASSUME NEW r \in Requests, IssueCode(r) PROVE FALSE
        BY <1>0, <2>2, <4>1, <4>3 DEF IssueCode, TypeOK
      <4>4. ~Restart
        BY <2>2 DEF Restart
      <4>5. QED
        BY <4>1, <4>2, <4>3, <4>4
           DEF Next, vars, RegisterClient, LoginPost, RegisterPost, Redeem, RedeemExpired,
               ExpireToken, LinkClient, CreateCode, RefreshBegin, RefreshRevoke, RefreshIssue,
               RevokeBegin, RevokeWrite, AccessBegin, AccessResolve, AccessDone, Abort
    <3>2. PICK x \in PendingIds : Authorize(x)
      BY <3>1
    <3>3. PICK c \in Clients : /\ client[c].state = "registered" /\ UNCHANGED client
                               /\ pending' = [pending EXCEPT ![x] = [state |-> "open", client |-> c]]
      BY <3>2 DEF Authorize
    <3>4. QED
      BY <1>0, <2>2, <3>3 DEF TypeOK
  <2>3. QED
    BY <2>1, <2>2
<1>2. ASSUME NEW r \in Requests, NEW p \in PendingIds, Took(r, p)
      PROVE  /\ pending[p].client \in Clients
             /\ pending'[p].client = pending[p].client
  BY <1>0, <1>2, PendingOfTook, PendingKept, Rows DEF IInv, TakenOnce
<1>3. LinkedBeforeCode'
  <2> SUFFICES ASSUME NEW r \in Requests, NEW p \in PendingIds, Took(r, p)',
                      request'[r].step = "code"
               PROVE  Linked(pending[p].client)'
    BY DEF LinkedBeforeCode
  <2>1. CASE Took(r, p) /\ request'[r] = request[r]
    <3>1. Linked(pending[p].client)
      BY <2>1 DEF IInv, LinkedBeforeCode
    <3>2. PICK c \in Clients : c = pending[p].client /\ c = pending'[p].client
      BY <1>2, <2>1
    <3>3. Linked(c)'
      BY <3>1, <3>2, ClientKept
    <3>4. QED
      BY <3>2, <3>3 DEF Linked
  <2>2. CASE LinkClient(r) /\ Took(r, p)
    <3>1. PICK c \in Clients, u \in Users :
             c = pending[p].client /\ u = request[r].user
      BY <1>0, <1>2, <2>2, RequestShape DEF Took, LoginRequest
    <3>2. client[c] \in ClientRow
      BY <2>2, <3>1, PendingOfTook
    <3>3. client' = [client EXCEPT ![c].user = u] /\ UNCHANGED pending
      BY <2>2, <3>1 DEF LinkClient, Took
    <3>4. QED
      BY <1>0, <3>1, <3>2, <3>3 DEF Linked, ClientRow, TypeOK
  <2>3. QED
    BY <2>1, <2>2, TookKept
<1>4. ASSUME NEW c \in Codes, code'[c] # Unused PROVE Linked(code[c].client)'
  <2>1. CASE code[c] # Unused /\ code'[c].client = code[c].client
    <3>1. code[c].client \in Clients /\ Linked(code[c].client)
      BY <1>0, <2>1, Rows DEF AuthorizationCode, IInv, HolderIsLinked
    <3>2. QED
      BY <2>1, <3>1, ClientKept DEF Linked
  <2>2. ASSUME NEW r \in Requests, CreateCode(r), code[c] = Unused
        PROVE  Linked(code[c].client)'
    <3>1. PICK p \in PendingIds : p = request[r].pending /\ Took(r, p)
      BY <1>0, <2>2, RequestShape DEF CreateCode, AtStep, LoginRequest, Took
    <3>2. code'[c].client = pending[p].client /\ UNCHANGED client
      BY <1>0, <1>4, <2>2, <3>1 DEF CreateCode, TypeOK
    <3>3. Linked(pending[p].client)
      BY <2>2, <3>1 DEF IInv, LinkedBeforeCode, CreateCode, AtStep
    <3>4. QED
      BY <3>2, <3>3 DEF Linked
  <2>3. QED
    BY <1>4, <2>1, <2>2, CodeKept
<1>5. ASSUME NEW k \in Pairs, pair'[k] # Unused PROVE Linked(pair[k].client)'
  <2>1. CASE pair[k] # Unused /\ pair'[k] = pair[k]
    <3>1. pair[k].client \in Clients /\ Linked(pair[k].client)
      BY <1>0, <2>1, Rows DEF TokenPair, IInv, HolderIsLinked
    <3>2. QED
      BY <2>1, <3>1, ClientKept DEF Linked
  <2>2. ASSUME NEW c \in Codes, Redeem(c), pair'[k].client = code[c].client
        PROVE  Linked(pair[k].client)'
    <3>1. Linked(code[c].client) /\ UNCHANGED client
      BY <1>0, <2>2, Rows DEF Redeem, IInv, HolderIsLinked
    <3>2. QED
      BY <2>2, <3>1 DEF Linked
  <2>3. ASSUME NEW r \in Requests, RefreshIssue(r),
               pair'[k].client = pair[request[r].pair].client
        PROVE  Linked(pair[k].client)'
    <3>1. request[r].pair \in Pairs /\ pair[request[r].pair] # Unused
      BY <1>0, <2>3, RequestShape DEF RefreshIssue, AtStep, RefreshRequest, IInv, RequestTokens
    <3>2. Linked(pair[request[r].pair].client) /\ UNCHANGED client
      BY <2>3, <3>1 DEF RefreshIssue, IInv, HolderIsLinked
    <3>3. QED
      BY <2>3, <3>2 DEF Linked
  <2>4. QED
    BY <1>5, <2>1, <2>2, <2>3, PairKept
<1>6. HolderIsLinked'
  BY <1>4, <1>5 DEF HolderIsLinked
<1>7. QED
  BY <1>1, <1>3, <1>6

LEMMA SpentInductive == IInv /\ [Next]_vars => (ViaIsUsed /\ CodeSpentOnce)'
<1> SUFFICES ASSUME IInv, [Next]_vars PROVE (ViaIsUsed /\ CodeSpentOnce)'
  OBVIOUS
<1>0. TypeOK
  BY DEF IInv
<1>1. ASSUME NEW k \in Pairs, NEW c \in Codes, pair'[k] # Unused, pair'[k].via = c
      PROVE  \/ pair[k] # Unused /\ pair[k].via = c
             \/ Redeem(c) /\ pair[k] = Unused
  <2>1. ASSUME NEW r \in Requests, RefreshIssue(r) PROVE request[r].pair \in Pairs
    BY <1>0, <2>1, RequestShape DEF RefreshIssue, AtStep, RefreshRequest
  <2>2. QED
    BY <1>1, <2>1, PairKept, FreshAssumption
<1>2. ASSUME NEW c \in Codes, code[c].state = "used" PROVE code'[c].state = "used"
  <2>1. code[c] # Unused
    BY <1>2 DEF Unused
  <2>2. CASE code'[c] # Unused
    BY <1>2, <2>1, <2>2, CodeKept
  <2>3. code'[c] # Unused
    <3>1. ASSUME NEW d \in Codes, Redeem(d) \/ RedeemExpired(d) PROVE code'[c] # Unused
      BY <1>0, <1>2, <2>1, <3>1 DEF Redeem, RedeemExpired, TypeOK, AuthorizationCode
    <3>2. ASSUME NEW r \in Requests, CreateCode(r) PROVE code'[c] # Unused
      BY <1>0, <2>1, <3>2 DEF CreateCode, TypeOK
    <3>3. ASSUME Restart PROVE code'[c] # Unused
      BY <1>2, <2>1, <3>3 DEF Restart
    <3>4. QED
      BY <2>1, <3>1, <3>2, <3>3
         DEF Next, vars, RegisterClient, Authorize, ExpirePending, LoginExpired, LoginPost,
             RegisterPost, ExpireToken, IssueCode, LinkClient, RefreshBegin,
             RefreshRevoke, RefreshIssue, RevokeBegin, RevokeWrite, AccessBegin, AccessResolve,
             AccessDone, Abort
  <2>4. QED
    BY <2>2, <2>3
<1>3. ASSUME NEW c \in Codes, Redeem(c) PROVE code[c].state = "live" /\ code'[c].state = "used"
  BY <1>0, <1>3, Rows DEF Redeem, TypeOK, AuthorizationCode
<1>4. ViaIsUsed'
  BY <1>1, <1>2, <1>3 DEF IInv, ViaIsUsed
<1>5. ASSUME NEW k \in Pairs, NEW j \in Pairs, NEW c \in Codes, Redeem(c),
             pair[k] = Unused, pair'[k] # Unused, pair[j] = Unused, pair'[j] # Unused
      PROVE  k = j
  BY <1>0, <1>5 DEF Redeem, Issue, TypeOK
<1>6. CodeSpentOnce'
  <2> SUFFICES ASSUME NEW c \in Codes, NEW k \in Pairs, NEW j \in Pairs,
                      pair'[k] # Unused, pair'[k].via = c, pair'[j] # Unused, pair'[j].via = c
               PROVE  k = j
    BY DEF CodeSpentOnce
  <2>1. CASE Redeem(c)
    <3>1. pair[k] = Unused /\ pair[j] = Unused
      BY <1>1, <1>3, <2>1 DEF IInv, ViaIsUsed
    <3>2. QED
      BY <1>5, <2>1, <3>1
  <2>2. CASE ~Redeem(c)
    BY <1>1, <2>2 DEF IInv, CodeSpentOnce
  <2>3. QED
    BY <2>1, <2>2
<1>7. QED
  BY <1>4, <1>6

LEMMA PairStays ==
    ASSUME IInv, [Next]_vars, NEW k \in Pairs, pair[k] # Unused
    PROVE  pair'[k] = pair[k]
<1>0. TypeOK
  BY DEF IInv
<1>1. ASSUME NEW j \in Pairs, NEW c, NEW v, Issue(j, c, v)
      PROVE  pair'[k] = pair[k]
  BY <1>0, <1>1 DEF Issue, TypeOK
<1>2. ASSUME NEW c \in Codes, Redeem(c) PROVE pair'[k] = pair[k]
  BY <1>1, <1>2 DEF Redeem
<1>3. ASSUME NEW r \in Requests, RefreshIssue(r) PROVE pair'[k] = pair[k]
  BY <1>1, <1>3 DEF RefreshIssue
<1>4. QED
  BY <1>2, <1>3
     DEF Next, vars, RegisterClient, Authorize, ExpirePending, LoginExpired, LoginPost,
         RegisterPost, ExpireToken, IssueCode, LinkClient, CreateCode, RefreshBegin,
         RedeemExpired, RefreshRevoke, RevokeBegin, RevokeWrite, AccessBegin,
         AccessResolve, AccessDone, Abort, Restart, tokenVars

(* A request that is in flight after a step was in flight before it, with  *)
(* the same token, or has just begun with a token that was issued.         *)
LEMMA RequestOrigin ==
    ASSUME IInv, [Next]_vars, NEW r \in Requests, request'[r] # Idle
    PROVE  \/ /\ request[r] # Idle /\ request'[r].op = request[r].op
              /\ request[r].op \in {"refresh", "access"} => request'[r].pair = request[r].pair
              /\ request[r].op = "revoke" => request'[r].token = request[r].token
           \/ \E p \in PendingIds, u \in Users : request'[r] = LoginRecord(p, u)
           \/ RefreshBegin(r) /\ Good(Refresh(request'[r].pair))
           \/ RevokeBegin(r) /\ Good(request'[r].token)
           \/ AccessBegin(r) /\ Good(Access(request'[r].pair)) /\ Access(request'[r].pair) \notin revoked
<1>0. TypeOK
  BY DEF IInv
<1> DEFINE Same == /\ request[r] # Idle /\ request'[r].op = request[r].op
                   /\ request[r].op \in {"refresh", "access"} => request'[r].pair = request[r].pair
                   /\ request[r].op = "revoke" => request'[r].token = request[r].token
           Login == \E p \in PendingIds, u \in Users : request'[r] = LoginRecord(p, u)
<1>1. ASSUME NEW q \in Requests, NEW x, Begin(q, x) PROVE Same \/ (q = r /\ request'[r] = x)
  BY <1>0, <1>1 DEF Begin, TypeOK
<1>2. ASSUME NEW q \in Requests, Finish(q) PROVE Same
  BY <1>0, <1>2 DEF Finish, TypeOK
<1>3. ASSUME NEW q \in Requests, NEW s, request[q] # Idle, Goto(q, s) PROVE Same
  <2>1. CASE q = r
    <3>1. request'[r] = [request[r] EXCEPT !.step = s]
      BY <1>0, <1>3, <2>1 DEF Goto, TypeOK
    <3>2. request[r] \in LoginRequest \cup RefreshRequest \cup RevokeRequest \cup AccessRequest
      BY <1>0, <1>3, <2>1 DEF TypeOK, Request
    <3>3. QED
      BY <1>3, <2>1, <3>1, <3>2 DEF LoginRequest, RefreshRequest, RevokeRequest, AccessRequest
  <2>2. CASE q # r
    BY <1>0, <1>3, <2>2 DEF Goto, TypeOK
  <2>3. QED
    BY <2>1, <2>2
<1>4. ASSUME NEW q \in Requests, NEW p \in PendingIds, LoginPost(q, p) \/ RegisterPost(q, p)
      PROVE  Same \/ Login
  BY <1>0, <1>1, <1>4 DEF LoginPost, RegisterPost, TypeOK
<1>5. ASSUME NEW q \in Requests, RefreshBegin(q)
      PROVE  Same \/ (RefreshBegin(r) /\ Good(Refresh(request'[r].pair)))
  BY <1>1, <1>5 DEF RefreshBegin
<1>6. ASSUME NEW q \in Requests, RevokeBegin(q)
      PROVE  Same \/ (RevokeBegin(r) /\ Good(request'[r].token))
  BY <1>1, <1>6 DEF RevokeBegin
<1>7. ASSUME NEW q \in Requests, AccessBegin(q)
      PROVE  Same \/ (AccessBegin(r) /\ Good(Access(request'[r].pair))
                        /\ Access(request'[r].pair) \notin revoked)
  BY <1>1, <1>7 DEF AccessBegin
<1>8. ASSUME NEW q \in Requests, AccessResolve(q) PROVE Same
  <2>1. request[q] # Idle /\ request[q] \in AccessRequest
    BY <1>0, <1>8, RequestShape DEF AccessResolve, AtStep
  <2>2. QED
    BY <1>0, <1>2, <1>8, <2>1 DEF AccessResolve, TypeOK, AccessRequest
<1>9. ASSUME NEW q \in Requests,
             \/ CreateCode(q) \/ RefreshIssue(q) \/ RevokeWrite(q) \/ AccessDone(q) \/ Abort(q)
             \/ IssueCode(q) \/ LinkClient(q) \/ RefreshRevoke(q)
      PROVE  Same
  BY <1>2, <1>3, <1>9 DEF CreateCode, RefreshIssue, RevokeWrite, AccessDone, Abort, IssueCode,
                          LinkClient, RefreshRevoke, AtStep
<1>10. ~Restart
  BY DEF Restart
<1>11. CASE UNCHANGED request
  BY <1>11
<1>12. QED
  BY <1>4, <1>5, <1>6, <1>7, <1>8, <1>9, <1>10, <1>11
     DEF Next, vars, RegisterClient, Authorize, ExpirePending, LoginExpired, Redeem,
         RedeemExpired, ExpireToken

LEMMA TokensInductive == IInv /\ [Next]_vars => (RequestTokens /\ AnsweredIsDead)'
<1> SUFFICES ASSUME IInv, [Next]_vars PROVE (RequestTokens /\ AnsweredIsDead)'
  OBVIOUS
<1>0. TypeOK
  BY DEF IInv
<1>1. RequestTokens'
  <2> SUFFICES ASSUME NEW r \in Requests, request'[r] # Idle
               PROVE  /\ request'[r].op \in {"refresh", "access"} => pair'[request'[r].pair] # Unused
                      /\ request'[r].op = "revoke" => pair'[request'[r].token[1]] # Unused
    BY DEF RequestTokens
  <2>1. TypeOK'
    BY TypeInductive
  <2>2. request'[r].op \in {"refresh", "access"} => request'[r].pair \in Pairs
    BY <2>1 DEF TypeOK, Request, LoginRequest, RefreshRequest, RevokeRequest, AccessRequest
  <2>3. request'[r].op = "revoke" => request'[r].token[1] \in Pairs
    BY <2>1 DEF TypeOK, Request, LoginRequest, RefreshRequest, RevokeRequest, AccessRequest, Token
  <2>4. \A k \in Pairs : pair[k] # Unused \/ pair[k].state = "issued" => pair'[k] # Unused
    BY <1>0, Rows, PairStays
  <2>5. CASE /\ request[r] # Idle /\ request'[r].op = request[r].op
             /\ request[r].op \in {"refresh", "access"} => request'[r].pair = request[r].pair
             /\ request[r].op = "revoke" => request'[r].token = request[r].token
    BY <2>2, <2>3, <2>4, <2>5 DEF IInv, RequestTokens
  <2>6. CASE \E p \in PendingIds, u \in Users : request'[r] = LoginRecord(p, u)
    BY <2>6 DEF LoginRecord
  <2>7. CASE RefreshBegin(r) /\ Good(Refresh(request'[r].pair))
    <3>1. request'[r].op = "refresh"
      BY <1>0, <2>7 DEF RefreshBegin, Begin, TypeOK
    <3>2. QED
      BY <2>2, <2>4, <2>7, <3>1 DEF Good, Refresh
  <2>8. CASE RevokeBegin(r) /\ Good(request'[r].token)
    <3>1. request'[r].op = "revoke"
      BY <1>0, <2>8 DEF RevokeBegin, Begin, TypeOK
    <3>2. QED
      BY <2>3, <2>4, <2>8, <3>1 DEF Good
  <2>9. CASE AccessBegin(r) /\ Good(Access(request'[r].pair))
    <3>1. request'[r].op = "access"
      BY <1>0, <2>9 DEF AccessBegin, Begin, TypeOK
    <3>2. QED
      BY <2>2, <2>4, <2>9, <3>1 DEF Good, Access
  <2>10. QED
    BY <2>5, <2>6, <2>7, <2>8, <2>9, RequestOrigin
<1>2. AnsweredIsDead'
  <2>1. ASSUME NEW r \in Requests, RevokeWrite(r) PROVE AnsweredIsDead'
    <3>1. PICK t \in Token : t = request[r].token
      BY <1>0, <2>1, RequestShape DEF RevokeWrite, AtStep, RevokeRequest
    <3>2. pair[t[1]] # Unused /\ t[1] \in Pairs
      BY <2>1, <3>1 DEF RevokeWrite, AtStep, IInv, RequestTokens, Token
    <3>3. Good(t) \/ t \in expired
      BY <1>0, <3>2, Rows DEF Good, TokenPair
    <3>4. QED
      BY <2>1, <3>1, <3>3 DEF RevokeWrite, RevokeToken, IInv, AnsweredIsDead
  <2>2. ASSUME NEW r \in Requests, RefreshRevoke(r) PROVE AnsweredIsDead'
    BY <2>2 DEF RefreshRevoke, RevokeToken, IInv, AnsweredIsDead
  <2>3. ASSUME NEW t \in Token, ExpireToken(t) PROVE AnsweredIsDead'
    BY <2>3 DEF ExpireToken, IInv, AnsweredIsDead
  <2>4. CASE UNCHANGED <<answered, revoked, expired>>
    BY <2>4 DEF IInv, AnsweredIsDead
  <2>5. QED
    BY <2>1, <2>2, <2>3, <2>4
       DEF Next, vars, RegisterClient, Authorize, ExpirePending, LoginExpired, LoginPost,
           RegisterPost, Redeem, RedeemExpired, IssueCode, LinkClient, CreateCode, RefreshBegin,
           RefreshIssue, RevokeBegin, AccessBegin, AccessResolve, AccessDone, Abort, Restart,
           tokenVars
<1>3. QED
  BY <1>1, <1>2

-----------------------------------------------------------------------------
(* Results *)

LEMMA Initially == Init => IInv
<1> SUFFICES ASSUME Init PROVE IInv
  OBVIOUS
<1>1. TypeOK
  BY DEF Init, TypeOK, Unregistered, Unused, None, Request
<1>2. /\ \A r \in Requests, p \in PendingIds : ~Took(r, p)
      /\ \A c \in Codes : code[c] = Unused
      /\ \A k \in Pairs : pair[k] = Unused
      /\ \A p \in PendingIds : pending[p] = Unused
      /\ \A r \in Requests : request[r] = Idle
  BY DEF Init, Took
<1>3. QED
  BY <1>1, <1>2 DEF IInv, Init, TakenOnce, CodeFromTaken, OneCodePerRequest, PendingRegistered,
         LinkedBeforeCode, HolderIsLinked, ViaIsUsed, CodeSpentOnce, RequestTokens, AnsweredIsDead

LEMMA Inductive == IInv /\ [Next]_vars => IInv'
  BY TypeInductive, TakenInductive, LinkedInductive, SpentInductive, TokensInductive DEF IInv

THEOREM Invariant == Spec => []IInv
  BY Initially, Inductive, PTL DEF Spec

(* Every reachable state is well typed.                                    *)
THEOREM TypeCorrect == Spec => []TypeOK
<1>1. IInv => TypeOK
  BY DEF IInv
<1>2. QED
  BY <1>1, Invariant, PTL

(* However many posts of the login form race, and whatever fails, an       *)
(* authorization request yields one code at most.                          *)
THEOREM OneCode == Spec => []OneCodePerRequest
<1>1. IInv => OneCodePerRequest
  BY DEF IInv
<1>2. QED
  BY <1>1, Invariant, PTL

(* A code is exchanged once at most.                                       *)
THEOREM SpentOnce == Spec => []CodeSpentOnce
<1>1. IInv => CodeSpentOnce
  BY DEF IInv
<1>2. QED
  BY <1>1, Invariant, PTL

(* A code or token exists only for a client that is linked to a user.      *)
THEOREM LinkedHolder == Spec => []HolderIsLinked
<1>1. IInv => HolderIsLinked
  BY DEF IInv
<1>2. QED
  BY <1>1, Invariant, PTL

(* An access token whose revocation was answered lets no request in again. *)
THEOREM RevocationTheorem == Spec => RevocationSticks
<1>1. ASSUME IInv, [Next]_vars, NEW r \in Requests,
             request[r] = Idle, request'[r] # Idle, request'[r].op = "access"
      PROVE  Access(request'[r].pair) \notin answered
  <2>1. /\ Good(Access(request'[r].pair))
        /\ Access(request'[r].pair) \notin revoked
    <3>1. RefreshBegin(r) => request'[r].op = "refresh"
      BY <1>1 DEF RefreshBegin, Begin, IInv, TypeOK
    <3>2. RevokeBegin(r) => request'[r].op = "revoke"
      BY <1>1 DEF RevokeBegin, Begin, IInv, TypeOK
    <3>3. \A p \in PendingIds, u \in Users : request'[r] # LoginRecord(p, u)
      BY <1>1 DEF LoginRecord
    <3>4. QED
      BY <1>1, <3>1, <3>2, <3>3, RequestOrigin
  <2>2. QED
    BY <1>1, <2>1 DEF IInv, AnsweredIsDead, Good
<1>2. IInv /\ [Next]_vars =>
        [\A r \in Requests :
           (request[r] = Idle /\ request'[r] # Idle /\ request'[r].op = "access")
             => Access(request'[r].pair) \notin answered]_vars
  BY <1>1
<1>3. QED
  BY <1>2, Invariant, PTL DEF Spec, RevocationSticks

=============================================================================
