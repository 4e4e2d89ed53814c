---------------------------- MODULE AccountsProofs ----------------------------
(***************************************************************************)
(* Proofs, for every set of users, tokens, addresses and passwords and     *)
(* every finite set of request slots, of the properties of Accounts.       *)
(***************************************************************************)
EXTENDS Accounts, FiniteSetTheorems, TLAPS

-----------------------------------------------------------------------------
(* The inductive invariant                                                 *)

Busy(r, op) == request[r] # Idle /\ request[r].op = op
Registering(r) == Busy(r, "register") /\ request[r].user # NoUser

(* Addresses of accounts, and of requests that may create one, are normal. *)
NormalEmails ==
    /\ \A u \in UserIds : Account(u) => Normal[user[u].email] = user[u].email
    /\ \A r \in Requests : (Busy(r, "register") \/ Busy(r, "sso")) =>
                              Normal[request[r].email] = request[r].email

(* An INSERT that is not committed has its own user id, and its address is *)
(* nobody else's, neither committed nor inserted.                          *)
RegisterSound(r) ==
    Busy(r, "register") =>
        /\ request[r].purpose = "verify"
        /\ request[r].user = NoUser <=> request[r].step = "insert"
        /\ request[r].user # NoUser =>
              user[request[r].user] = Drawn /\ ~EmailTaken(request[r].email)

InsertsApart ==
    \A r, x \in Requests : (Registering(r) /\ Registering(x) /\ r # x) =>
        request[r].user # request[x].user /\ request[r].email # request[x].email

(* What a request that mails a link knows of its user and of its token.    *)
MailSound(r) ==
    /\ Busy(r, "link") => /\ request[r].user # NoUser /\ request[r].step # "insert"
                          /\ HasEmail(request[r].user, request[r].email)
    /\ (request[r] # Idle /\ Mailing(r)) =>
          /\ \A k \in request[r].gone : token[k].state \in {"live", "deleted"}
          /\ request[r].step = "mail" => request[r].token # NoToken
          /\ request[r].token # NoToken =>
                /\ request[r].step \in {"mail", "commit"}
                /\ token[request[r].token] = Drawn
                /\ request[r].step = "commit" =>
                      mail[request[r].token] = [to |-> request[r].email,
                                                purpose |-> request[r].purpose]

TokensApart ==
    \A r, x \in Requests :
        (/\ r # x /\ request[r] # Idle /\ Mailing(r) /\ request[x] # Idle /\ Mailing(x)
         /\ request[r].token # NoToken)
        => request[r].token # request[x].token

(* A link that works was mailed, to the address of its account, for what   *)
(* it is good for; and so was one that has been opened.                    *)
Mailed(k, u, purpose) ==
    Account(u) /\ mail[k] = [to |-> user[u].email, purpose |-> purpose]

LinkSound(k) == Live(k) => Mailed(k, token[k].user, token[k].purpose)

OpenSound(r) ==
    /\ Busy(r, "open") => /\ token[request[r].token].state \in {"live", "deleted"}
                          /\ Mailed(request[r].token, request[r].user, request[r].purpose)
    /\ (Busy(r, "sso") /\ request[r].step = "link") =>
          request[r].user # NoUser /\ Account(request[r].user)

UsedDeleted == \A k \in used : token[k].state = "deleted"

(* Every link that works can be laid to a request slot, no two to the same *)
(* one, such that a request in a slot deletes the one that is laid to it.  *)
Deleting(r, u, purpose) ==
    /\ request[r] # Idle /\ Mailing(r) /\ request[r].step \in {"lock", "mail", "commit"}
    /\ request[r].user = u /\ request[r].purpose = purpose

Slots(f, u, purpose) ==
    /\ f \in Injection(Links(u, purpose), Requests)
    /\ \A k \in Links(u, purpose) :
          Deleting(f[k], u, purpose) => k \in request[f[k]].gone

LinksInSlots ==
    \A u \in UserIds, purpose \in Purposes :
        \E f \in [Links(u, purpose) -> Requests] : Slots(f, u, purpose)

RequestsSound == \A r \in Requests : RegisterSound(r) /\ MailSound(r) /\ OpenSound(r)
LinksSound == \A k \in TokenIds : LinkSound(k)

IInv == TypeOK /\ NormalEmails /\ RequestsSound /\ InsertsApart /\ TokensApart /\ LinksSound
          /\ UsedDeleted /\ OneAccountPerAddress /\ VerifiedByLink /\ LinksInSlots

-----------------------------------------------------------------------------
(* Types                                                                   *)

LEMMA RequestShape ==
    ASSUME TypeOK, NEW r \in Requests, request[r] # Idle
    PROVE  /\ Mailing(r) => request[r] \in MailRequest
           /\ request[r].op = "open" => request[r] \in OpenRequest
           /\ request[r].op = "sso" => request[r] \in SsoRequest
           /\ request[r].op \in {"register", "link", "open", "sso"}
           /\ request[r].step \in {"insert", "delete", "lock", "mail", "commit"} => Mailing(r)
           /\ request[r].step = "write" => request[r].op = "open"
           /\ request[r].step \in {"link", "create"} => request[r].op = "sso"
<1> request[r] \in Request
  BY DEF TypeOK
<1> QED
  BY DEF Request, MailRequest, OpenRequest, SsoRequest, Mailing

LEMMA RowShape ==
    ASSUME TypeOK
    PROVE  /\ \A u \in UserIds : Account(u) => user[u] \in UserRow
           /\ \A k \in TokenIds : Live(k) => token[k] \in TokenRow
  BY DEF TypeOK, Account, Live, NoRow

(* What opening a link does to the row of the user.                        *)
LEMMA OpenedRow ==
    ASSUME NEW row \in UserRow, NEW q \in OpenRequest
    PROVE  /\ Opened(row, q) \in UserRow
           /\ Opened(row, q).state = row.state /\ Opened(row, q).email = row.email
           /\ q.purpose # "verify" => Opened(row, q).verified = row.verified
           /\ q.purpose # "reset" => Opened(row, q).password = row.password
<1>1. CASE q.purpose = "verify"
  <2>1. Opened(row, q) = [row EXCEPT !.verified = TRUE]
    BY <1>1 DEF Opened
  <2>2. QED
    BY <1>1, <2>1 DEF UserRow
<1>2. CASE q.purpose # "verify"
  <2>1. Opened(row, q) = [row EXCEPT !.password = q.password]
    BY <1>2 DEF Opened
  <2>2. q.purpose = "reset" /\ q.password \in Passwords \cup {NoPassword}
    BY <1>2 DEF OpenRequest, Purposes
  <2>3. [row EXCEPT !.password = q.password] \in UserRow
    BY <2>2 DEF UserRow
  <2>4. /\ Opened(row, q).state = row.state /\ Opened(row, q).email = row.email
        /\ Opened(row, q).verified = row.verified
    BY <2>1 DEF UserRow
  <2>5. QED
    BY <1>2, <2>1, <2>2, <2>3, <2>4
<1>3. QED
  BY <1>1, <1>2

LEMMA BeginTyped ==
    ASSUME TypeOK, NEW r \in Requests, NEW q \in Request, Begin(r, q),
           UNCHANGED <<user, token, mail, used>>
    PROVE  TypeOK'
  BY DEF TypeOK, Begin

LEMMA FinishTyped ==
    ASSUME TypeOK, NEW r \in Requests, Finish(r)
    PROVE  request' \in [Requests -> Request]
  BY DEF TypeOK, Finish, Request

LEMMA TypeInductive ==
    ASSUME TypeOK, RequestsSound, [Next]_vars
    PROVE  TypeOK'
<1>1. ASSUME NEW k \in TokenIds, ExpireToken(k) PROVE TypeOK'
  <2>1. [token[k] EXCEPT !.expired = TRUE] \in TokenRow
    BY <1>1, RowShape DEF ExpireToken, TokenRow
  <2>2. QED
    BY <1>1, <2>1 DEF ExpireToken, TypeOK
<1>2. ASSUME NEW r \in Requests, RegisterBegin(r) PROVE TypeOK'
  <2>1. PICK e \in Emails, p \in Passwords : Begin(r, RegisterRequest(Normal[e], p))
    BY <1>2 DEF RegisterBegin
  <2>2. RegisterRequest(Normal[e], p) \in Request
    BY NormalAssumption DEF RegisterRequest, Request, MailRequest, Purposes
  <2>3. QED
    BY <1>2, <2>1, <2>2, BeginTyped DEF RegisterBegin
<1>3. ASSUME NEW r \in Requests, RegisterInsert(r) PROVE TypeOK'
  <2>1. request[r] \in MailRequest
    BY <1>3, RequestShape DEF RegisterInsert, AtStep
  <2>2. CASE Finish(r) /\ UNCHANGED user
    BY <1>3, <2>2, FinishTyped DEF RegisterInsert, TypeOK
  <2>3. CASE ~(Finish(r) /\ UNCHANGED user)
    <3>1. PICK u \in UserIds, next \in {"delete", "commit"} :
             /\ user' = [user EXCEPT ![u] = Drawn]
             /\ request' = [request EXCEPT ![r].user = u, ![r].step = next]
      BY <1>3, <2>3 DEF RegisterInsert
    <3>2. [request[r] EXCEPT !.user = u, !.step = next] \in Request
      BY <2>1 DEF MailRequest, Request
    <3>3. QED
      BY <1>3, <3>1, <3>2 DEF RegisterInsert, TypeOK, NoRow, Drawn
  <2>4. QED
    BY <2>2, <2>3
<1>4. ASSUME NEW r \in Requests, ResendBegin(r) PROVE TypeOK'
  <2>1. PICK u \in UserIds : Account(u) /\ Begin(r, LinkRequest(u, user[u].email, "verify"))
    BY <1>4 DEF ResendBegin
  <2>2. LinkRequest(u, user[u].email, "verify") \in Request
    BY <2>1, RowShape DEF LinkRequest, Request, MailRequest, Purposes, UserRow
  <2>3. QED
    BY <1>4, <2>1, <2>2, BeginTyped DEF ResendBegin
<1>5. ASSUME NEW r \in Requests, ForgotBegin(r) PROVE TypeOK'
  <2>1. PICK e \in Emails, u \in UserIds : Begin(r, LinkRequest(u, Normal[e], "reset"))
    BY <1>5 DEF ForgotBegin
  <2>2. LinkRequest(u, Normal[e], "reset") \in Request
    BY NormalAssumption DEF LinkRequest, Request, MailRequest, Purposes
  <2>3. QED
    BY <1>5, <2>1, <2>2, BeginTyped DEF ForgotBegin
<1>6. ASSUME NEW r \in Requests, TokenDelete(r) PROVE TypeOK'
  <2>1. request[r] \in MailRequest
    BY <1>6, RequestShape DEF TokenDelete, AtStep
  <2>2. Links(request[r].user, request[r].purpose) \subseteq TokenIds
    BY DEF Links
  <2>3. [request[r] EXCEPT !.gone = Links(request[r].user, request[r].purpose),
                           !.step = "lock"] \in Request
    BY <2>1, <2>2 DEF MailRequest, Request
  <2>4. QED
    BY <1>6, <2>3 DEF TokenDelete, TypeOK
<1>7. ASSUME NEW r \in Requests, TokenInsert(r) PROVE TypeOK'
  <2>1. PICK k \in TokenIds :
           /\ token' = [token EXCEPT ![k] = Drawn]
           /\ request' = [request EXCEPT ![r].token = k, ![r].step = "mail"]
    BY <1>7 DEF TokenInsert
  <2>2. request[r] \in MailRequest
    BY <1>7, RequestShape DEF TokenInsert, AtStep
  <2>3. [request[r] EXCEPT !.token = k, !.step = "mail"] \in Request
    BY <2>2 DEF MailRequest, Request
  <2>4. QED
    BY <1>7, <2>1, <2>3 DEF TokenInsert, TypeOK, NoRow, Drawn
<1>8. ASSUME NEW r \in Requests, SendMail(r) PROVE TypeOK'
  <2>1. request[r] \in MailRequest
    BY <1>8, RequestShape DEF SendMail, AtStep
  <2>2. [request[r] EXCEPT !.step = "commit"] \in Request
    BY <2>1 DEF MailRequest, Request
  <2>3. [to |-> request[r].email, purpose |-> request[r].purpose] \in Mail
    BY <2>1 DEF MailRequest, Mail
  <2>4. QED
    BY <1>8, <2>2, <2>3 DEF SendMail, Goto, TypeOK
<1>9. ASSUME NEW r \in Requests, Commit(r) PROVE TypeOK'
  <2>1. request[r] # Idle /\ request[r].step = "commit"
    BY <1>9 DEF Commit, AtStep
  <2>2. request[r] \in MailRequest
    BY <2>1, RequestShape
  <2>3. request[r].user \in UserIds
    BY <2>1, <2>2 DEF RequestsSound, RegisterSound, MailSound, Busy, MailRequest
  <2>4. user' \in [UserIds -> UserRow \cup NoRow]
    BY <1>9, <2>2 DEF Commit, NewAccount, UserRow, MailRequest, TypeOK
  <2>5. token' \in [TokenIds -> TokenRow \cup NoRow]
    <3>1. [state |-> "live", user |-> request[r].user, purpose |-> request[r].purpose,
           expired |-> FALSE] \in TokenRow
      BY <2>2, <2>3 DEF TokenRow, MailRequest
    <3>2. QED
      BY <1>9, <3>1 DEF Commit, TypeOK, NoRow, Deleted
  <2>6. QED
    BY <1>9, <2>4, <2>5, FinishTyped DEF Commit, TypeOK
<1>10. ASSUME NEW r \in Requests, OpenLink(r) PROVE TypeOK'
  <2>1. PICK k \in TokenIds, page \in Purposes, p \in Passwords :
           Live(k) /\ Begin(r, OpenRecord(k, page, p))
    BY <1>10 DEF OpenLink
  <2>2. OpenRecord(k, page, p) \in Request
    BY <2>1, RowShape DEF OpenRecord, Request, OpenRequest, TokenRow
  <2>3. QED
    BY <1>10, <2>1, <2>2, BeginTyped DEF OpenLink
<1>11. ASSUME NEW r \in Requests, OpenWrite(r) PROVE TypeOK'
  <2>1. request[r] # Idle /\ request[r].op = "open" /\ request[r] \in OpenRequest
    BY <1>11, RequestShape DEF OpenWrite, AtStep
  <2>2. Account(request[r].user) /\ request[r].user \in UserIds
    BY <2>1 DEF RequestsSound, OpenSound, Busy, Mailed, OpenRequest
  <2>3. Opened(user[request[r].user], request[r]) \in UserRow
    BY <2>1, <2>2, RowShape, OpenedRow
  <2>4. token' \in [TokenIds -> TokenRow \cup NoRow]
    BY <1>11 DEF OpenWrite, TypeOK, NoRow, Deleted
  <2>5. used' \subseteq TokenIds
    BY <1>11, <2>1 DEF OpenWrite, TypeOK, OpenRequest
  <2>6. QED
    BY <1>11, <2>3, <2>4, <2>5, FinishTyped DEF OpenWrite, TypeOK
<1>12. ASSUME NEW r \in Requests, SsoBegin(r) PROVE TypeOK'
  <2>1. PICK e \in Emails, s \in Subs :
           \/ \E u \in UserIds : Begin(r, SsoRecord(Normal[e], s, u, "link"))
           \/ Begin(r, SsoRecord(Normal[e], s, NoUser, "create"))
    BY <1>12 DEF SsoBegin
  <2>2. /\ \A u \in UserIds : SsoRecord(Normal[e], s, u, "link") \in Request
        /\ SsoRecord(Normal[e], s, NoUser, "create") \in Request
    BY NormalAssumption DEF SsoRecord, Request, SsoRequest
  <2>3. QED
    BY <1>12, <2>1, <2>2, BeginTyped DEF SsoBegin
<1>13. ASSUME NEW r \in Requests, SsoLink(r) PROVE TypeOK'
  <2>1. request[r] # Idle /\ request[r].op = "sso" /\ request[r].step = "link"
          /\ request[r] \in SsoRequest
    BY <1>13, RequestShape DEF SsoLink, AtStep
  <2>2. Account(request[r].user) /\ request[r].user \in UserIds
    BY <2>1 DEF RequestsSound, OpenSound, Busy, SsoRequest
  <2>3. [user[request[r].user] EXCEPT !.sub = request[r].sub] \in UserRow
    BY <2>1, <2>2, RowShape DEF UserRow, SsoRequest
  <2>4. user' \in [UserIds -> UserRow \cup NoRow]
    BY <1>13, <2>3 DEF SsoLink, TypeOK
  <2>5. QED
    BY <1>13, <2>4, FinishTyped DEF SsoLink, TypeOK
<1>14. ASSUME NEW r \in Requests, SsoCreate(r) PROVE TypeOK'
  <2>1. request[r] \in SsoRequest
    BY <1>14, RequestShape DEF SsoCreate, AtStep
  <2>2. NewAccount(request[r].email, NoPassword, request[r].sub) \in UserRow
    BY <2>1 DEF NewAccount, UserRow, SsoRequest
  <2>3. user' \in [UserIds -> UserRow \cup NoRow]
    BY <1>14, <2>2 DEF SsoCreate, TypeOK
  <2>4. QED
    BY <1>14, <2>3, FinishTyped DEF SsoCreate, TypeOK
<1>15. ASSUME NEW r \in Requests, Rollback(r) PROVE TypeOK'
  BY <1>15, FinishTyped DEF Rollback, TypeOK
<1>16. ASSUME UNCHANGED vars PROVE TypeOK'
  BY <1>16 DEF vars, TypeOK
<1>17. QED
  BY <1>1, <1>2, <1>3, <1>4, <1>5, <1>6, <1>7, <1>8, <1>9, <1>10, <1>11, <1>12, <1>13, <1>14,
     <1>15, <1>16 DEF Next

-----------------------------------------------------------------------------
(* What a step changes                                                     *)

LEMMA StepsOfUser ==
    ASSUME TypeOK, RequestsSound, [Next]_vars, NEW u \in UserIds, user'[u] # user[u]
    PROVE  /\ \A v \in UserIds \ {u} : user'[v] = user[v]
           /\ \E r \in Requests :
                /\ request[r] # Idle
                /\ \/ /\ RegisterInsert(r) /\ request'[r] # Idle /\ request'[r].user = u
                      /\ user[u] = Unused /\ user'[u] = Drawn
                   \/ /\ Commit(r) /\ request[r].op = "register" /\ request[r].user = u
                      /\ user[u] = Drawn
                      /\ user'[u] = NewAccount(request[r].email, request[r].password, NoSub)
                   \/ /\ SsoCreate(r) /\ request[r].op = "sso" /\ user[u] = Unused
                      /\ user'[u] = NewAccount(request[r].email, NoPassword, request[r].sub)
                      /\ ~ClaimedByOther(r, request[r].email) /\ ~EmailTaken(request[r].email)
                   \/ /\ OpenWrite(r) /\ request[r].op = "open" /\ request[r].user = u
                      /\ Account(u) /\ user'[u] = Opened(user[u], request[r])
                   \/ /\ SsoLink(r) /\ Account(u)
                      /\ user'[u] = [user[u] EXCEPT !.sub = request[r].sub]
<1>1. PICK r \in Requests : RegisterInsert(r) \/ Commit(r) \/ OpenWrite(r) \/ SsoLink(r)
                              \/ SsoCreate(r)
  BY DEF Next, vars, ExpireToken, RegisterBegin, ResendBegin, ForgotBegin, TokenDelete,
         TokenInsert, SendMail, OpenLink, SsoBegin, Rollback
<1>2. request[r] # Idle
  BY <1>1 DEF RegisterInsert, Commit, OpenWrite, SsoLink, SsoCreate, AtStep
<1>3. CASE RegisterInsert(r)
  <2>1. PICK v \in UserIds, next \in {"delete", "commit"} :
           /\ user[v] = Unused /\ user' = [user EXCEPT ![v] = Drawn]
           /\ request' = [request EXCEPT ![r].user = v, ![r].step = next]
    BY <1>3 DEF RegisterInsert
  <2>2. request[r] \in MailRequest
    BY <1>2, <1>3, RequestShape DEF RegisterInsert, AtStep
  <2>3. request'[r].user = v /\ request'[r].step # "idle" /\ request'[r].op # "idle"
    BY <2>1, <2>2 DEF TypeOK, MailRequest
  <2>4. v = u /\ request'[r] # Idle
    BY <2>1, <2>3 DEF TypeOK, Idle
  <2>5. QED
    BY <1>2, <1>3, <2>1, <2>3, <2>4 DEF TypeOK
<1>4. CASE Commit(r)
  <2>1. /\ request[r].op = "register"
        /\ user' = [user EXCEPT ![request[r].user] =
                      NewAccount(request[r].email, request[r].password, NoSub)]
    BY <1>4 DEF Commit
  <2>2. request[r].step = "commit"
    BY <1>4 DEF Commit, AtStep
  <2>3. user[request[r].user] = Drawn
    BY <1>2, <2>1, <2>2 DEF RequestsSound, RegisterSound, Busy
  <2>4. QED
    BY <1>2, <1>4, <2>1, <2>3 DEF TypeOK
<1>5. CASE OpenWrite(r)
  <2>1. request[r].op = "open" /\ request[r] \in OpenRequest
    BY <1>2, <1>5, RequestShape DEF OpenWrite, AtStep
  <2>2. Account(request[r].user) /\ request[r].user \in UserIds
    BY <1>2, <2>1 DEF RequestsSound, OpenSound, Busy, Mailed, OpenRequest
  <2>3. user' = [user EXCEPT ![request[r].user] = Opened(user[request[r].user], request[r])]
    BY <1>5 DEF OpenWrite
  <2>4. QED
    BY <1>2, <1>5, <2>1, <2>2, <2>3 DEF TypeOK
<1>6. CASE SsoLink(r)
  <2>1. request[r].op = "sso" /\ request[r].step = "link"
    BY <1>2, <1>6, RequestShape DEF SsoLink, AtStep
  <2>2. Account(request[r].user)
    BY <1>2, <2>1 DEF RequestsSound, OpenSound, Busy
  <2>3. user' = [user EXCEPT ![request[r].user].sub = request[r].sub]
    BY <1>6 DEF SsoLink
  <2>4. request[r].user = u
    BY <2>3 DEF TypeOK
  <2>5. user'[u] = [user[u] EXCEPT !.sub = request[r].sub]
    BY <2>3, <2>4 DEF TypeOK
  <2>6. \A v \in UserIds \ {u} : user'[v] = user[v]
    BY <2>3, <2>4 DEF TypeOK
  <2>7. QED
    BY <1>2, <1>6, <2>2, <2>4, <2>5, <2>6
<1>7. CASE SsoCreate(r)
  <2>1. request[r].op = "sso"
    BY <1>2, <1>7, RequestShape DEF SsoCreate, AtStep
  <2>2. ~ClaimedByOther(r, request[r].email) /\ ~EmailTaken(request[r].email)
    BY <1>7 DEF SsoCreate
  <2>3. PICK v \in UserIds :
           /\ user[v] = Unused
           /\ user' = [user EXCEPT ![v] = NewAccount(request[r].email, NoPassword,
                                                     request[r].sub)]
    BY <1>7 DEF SsoCreate
  <2>4. v = u
    BY <2>3 DEF TypeOK
  <2>5. QED
    BY <1>2, <1>7, <2>1, <2>2, <2>3, <2>4 DEF TypeOK
<1>8. QED
  BY <1>1, <1>3, <1>4, <1>5, <1>6, <1>7

LEMMA AccountStays ==
    ASSUME TypeOK, RequestsSound, [Next]_vars, NEW u \in UserIds, Account(u)
    PROVE  Account(u)' /\ user'[u].email = user[u].email
<1>1. user[u] \in UserRow
  BY RowShape
<1>2. user[u].state # Unused.state /\ user[u].state # Drawn.state
  BY DEF Account, Unused, Drawn
<1>3. CASE user'[u] # user[u]
  <2>1. PICK r \in Requests :
           /\ request[r] # Idle
           /\ \/ request[r].op = "open" /\ user'[u] = Opened(user[u], request[r])
              \/ user'[u] = [user[u] EXCEPT !.sub = request[r].sub]
    BY <1>2, <1>3, StepsOfUser
  <2>2. request[r].op = "open" => request[r] \in OpenRequest
    BY <2>1, RequestShape
  <2>3. QED
    BY <1>1, <2>1, <2>2, OpenedRow DEF Account, UserRow
<1>4. QED
  BY <1>3 DEF Account

LEMMA StepsOfToken ==
    ASSUME TypeOK, RequestsSound, [Next]_vars, NEW k \in TokenIds, token'[k] # token[k]
    PROVE  \/ Live(k) /\ token'[k] = [token[k] EXCEPT !.expired = TRUE]
           \/ \E r \in Requests : /\ TokenInsert(r) /\ request'[r] # Idle
                                  /\ request'[r].token = k
                                  /\ token[k] = Unused /\ token'[k] = Drawn
           \/ \E r \in Requests : /\ Commit(r) /\ request[r] # Idle /\ Mailing(r)
                                  /\ request[r].step = "commit"
                                  /\ request[r].token = k /\ token[k] = Drawn
                                  /\ token'[k] = [state |-> "live", user |-> request[r].user,
                                                  purpose |-> request[r].purpose,
                                                  expired |-> FALSE]
           \/ token'[k] = Deleted /\ token[k].state \in {"live", "deleted"}
<1>1. CASE \E x \in TokenIds : ExpireToken(x)
  BY <1>1 DEF ExpireToken, TypeOK
<1>2. CASE \E r \in Requests : TokenInsert(r)
  <2>1. PICK r \in Requests : TokenInsert(r)
    BY <1>2
  <2>2. PICK x \in TokenIds :
           /\ token[x] = Unused /\ token' = [token EXCEPT ![x] = Drawn]
           /\ request' = [request EXCEPT ![r].token = x, ![r].step = "mail"]
    BY <2>1 DEF TokenInsert
  <2>3. request[r] # Idle /\ request[r] \in MailRequest
    BY <2>1, RequestShape DEF TokenInsert, AtStep
  <2>4. request'[r].token = x /\ request'[r].op # "idle"
    BY <2>2, <2>3 DEF TypeOK, MailRequest
  <2>5. x = k
    BY <2>2 DEF TypeOK
  <2>6. request'[r] # Idle
    BY <2>4 DEF Idle
  <2>7. QED
    BY <2>1, <2>2, <2>4, <2>5, <2>6 DEF TypeOK
<1>3. CASE \E r \in Requests : Commit(r)
  <2>1. PICK r \in Requests : Commit(r)
    BY <1>3
  <2>2. request[r] # Idle /\ Mailing(r) /\ request[r].step = "commit"
    BY <2>1, RequestShape DEF Commit, AtStep
  <2>3. CASE request[r].token = k
    <3>1. token[k] = Drawn
      BY <2>2, <2>3, NullAssumption DEF RequestsSound, MailSound
    <3>2. QED
      BY <2>1, <2>2, <2>3, <3>1 DEF Commit
  <2>4. CASE request[r].token # k
    <3>1. k \in request[r].gone /\ token'[k] = Deleted
      BY <2>1, <2>4 DEF Commit
    <3>2. QED
      BY <2>2, <3>1 DEF RequestsSound, MailSound
  <2>5. QED
    BY <2>3, <2>4
<1>4. CASE \E r \in Requests : OpenWrite(r)
  <2>1. PICK r \in Requests : OpenWrite(r)
    BY <1>4
  <2>2. request[r] # Idle /\ request[r].op = "open"
    BY <2>1, RequestShape DEF OpenWrite, AtStep
  <2>3. token' = [token EXCEPT ![request[r].token] = Deleted]
    BY <2>1 DEF OpenWrite
  <2>4. k = request[r].token /\ token'[k] = Deleted
    BY <2>3 DEF TypeOK
  <2>5. QED
    BY <2>2, <2>4 DEF RequestsSound, OpenSound, Busy
<1>5. QED
  BY <1>1, <1>2, <1>3, <1>4 DEF Next, vars, RegisterBegin, RegisterInsert, ResendBegin,
     ForgotBegin, TokenDelete, SendMail, OpenLink, SsoBegin, SsoLink, SsoCreate, Rollback

(* A token that was committed is from then on live or deleted.             *)
LEMMA CommittedStays ==
    ASSUME TypeOK, RequestsSound, [Next]_vars, NEW k \in TokenIds,
           token[k].state \in {"live", "deleted"}
    PROVE  /\ token'[k].state \in {"live", "deleted"}
           /\ token[k].state = "deleted" => token'[k].state = "deleted"
           /\ mail'[k] = mail[k]
<1>1. token[k] # Drawn /\ token[k] # Unused
  BY DEF Drawn, Unused
<1>2. /\ token'[k].state \in {"live", "deleted"}
      /\ token[k].state = "deleted" => token'[k].state = "deleted"
  <2>1. CASE token'[k] = token[k]
    BY <2>1
  <2>2. CASE Live(k) /\ token'[k] = [token[k] EXCEPT !.expired = TRUE]
    BY <2>2, RowShape DEF Live, TokenRow
  <2>3. CASE token'[k] = Deleted
    BY <2>3 DEF Deleted
  <2>4. QED
    BY <1>1, <2>1, <2>2, <2>3, StepsOfToken
<1>3. mail'[k] = mail[k]
  <2>1. CASE \E r \in Requests : SendMail(r)
    <3>1. PICK r \in Requests : SendMail(r)
      BY <2>1
    <3>2. request[r] # Idle /\ Mailing(r) /\ request[r].step = "mail"
      BY <3>1, RequestShape DEF SendMail, AtStep
    <3>3. token[request[r].token] = Drawn
      BY <3>2 DEF RequestsSound, MailSound
    <3>4. request[r].token # k
      BY <1>1, <3>3
    <3>5. QED
      BY <3>1, <3>4 DEF SendMail, TypeOK
  <2>2. CASE ~\E r \in Requests : SendMail(r)
    BY <2>2 DEF Next, vars, ExpireToken, RegisterBegin, RegisterInsert, ResendBegin,
       ForgotBegin, TokenDelete, TokenInsert, Commit, OpenLink, OpenWrite, SsoBegin, SsoLink,
       SsoCreate, Rollback
  <2>3. QED
    BY <2>1, <2>2
<1>4. QED
  BY <1>2, <1>3

LEMMA MailedStays ==
    ASSUME TypeOK, RequestsSound, [Next]_vars, NEW k \in TokenIds, NEW u \in UserIds,
           NEW purpose, token[k].state \in {"live", "deleted"}, Mailed(k, u, purpose)
    PROVE  Mailed(k, u, purpose)'
<1>1. mail'[k] = mail[k]
  BY CommittedStays
<1>2. Account(u)' /\ user'[u].email = user[u].email
  BY AccountStays DEF Mailed
<1>3. QED
  BY <1>1, <1>2 DEF Mailed

(* A step is of one request at most.                                       *)
LEMMA StepOfOne ==
    ASSUME TypeOK, [Next]_vars, NEW r \in Requests, request'[r] # request[r]
    PROVE  /\ \A x \in Requests \ {r} : request'[x] = request[x]
           /\ \/ RegisterBegin(r) \/ RegisterInsert(r) \/ ResendBegin(r) \/ ForgotBegin(r)
              \/ TokenDelete(r) \/ TokenInsert(r) \/ SendMail(r) \/ Commit(r)
              \/ OpenLink(r) \/ OpenWrite(r) \/ SsoBegin(r) \/ SsoLink(r) \/ SsoCreate(r)
              \/ Rollback(r)
<1>1. PICK x \in Requests :
              \/ RegisterBegin(x) \/ RegisterInsert(x) \/ ResendBegin(x) \/ ForgotBegin(x)
              \/ TokenDelete(x) \/ TokenInsert(x) \/ SendMail(x) \/ Commit(x)
              \/ OpenLink(x) \/ OpenWrite(x) \/ SsoBegin(x) \/ SsoLink(x) \/ SsoCreate(x)
              \/ Rollback(x)
  BY DEF Next, vars, ExpireToken
<1>2. request' = [request EXCEPT ![x] = request'[x]]
  BY <1>1 DEF RegisterBegin, RegisterInsert, ResendBegin, ForgotBegin, TokenDelete, TokenInsert,
     SendMail, Commit, OpenLink, OpenWrite, SsoBegin, SsoLink, SsoCreate, Rollback, Begin, Goto,
     Finish, TypeOK
<1>3. x = r
  BY <1>2 DEF TypeOK
<1>4. QED
  BY <1>1, <1>2, <1>3 DEF TypeOK

(* How a request begins, and how one that mails a link goes on.            *)
LEMMA StepsOfRequest ==
    ASSUME TypeOK, [Next]_vars, NEW r \in Requests, request'[r] # request[r],
           request'[r] # Idle
    PROVE  \/ /\ request[r] = Idle /\ UNCHANGED <<user, token, mail, used>>
              /\ \/ \E e \in Emails, p \in Passwords :
                       request'[r] = RegisterRequest(Normal[e], p)
                 \/ \E u \in UserIds, purpose \in Purposes :
                       Account(u) /\ request'[r] = LinkRequest(u, user[u].email, purpose)
                 \/ \E k \in TokenIds, page \in Purposes, p \in Passwords :
                       /\ Live(k) /\ token[k].purpose = page
                       /\ request'[r] = OpenRecord(k, page, p)
                 \/ \E e \in Emails, s \in Subs, u \in UserIds :
                       Account(u) /\ request'[r] = SsoRecord(Normal[e], s, u, "link")
                 \/ \E e \in Emails, s \in Subs :
                       request'[r] = SsoRecord(Normal[e], s, NoUser, "create")
           \/ /\ request[r] # Idle /\ Mailing(r)
              /\ \/ \E u \in UserIds, next \in {"delete", "commit"} :
                       /\ request[r].step = "insert" /\ user[u] = Unused
                       /\ ~ClaimedByOther(r, request[r].email) /\ ~EmailTaken(request[r].email)
                       /\ user' = [user EXCEPT ![u] = Drawn] /\ UNCHANGED <<token, mail>>
                       /\ request'[r] = [request[r] EXCEPT !.user = u, !.step = next]
                 \/ /\ request[r].step = "delete" /\ UNCHANGED <<user, token, mail>>
                    /\ request'[r] = [request[r] EXCEPT
                          !.gone = Links(request[r].user, request[r].purpose), !.step = "lock"]
                 \/ \E k \in TokenIds :
                       /\ request[r].step = "lock" /\ token[k] = Unused
                       /\ token' = [token EXCEPT ![k] = Drawn] /\ UNCHANGED <<user, mail>>
                       /\ request'[r] = [request[r] EXCEPT !.token = k, !.step = "mail"]
                 \/ /\ request[r].step = "mail" /\ UNCHANGED <<user, token>>
                    /\ mail' = [mail EXCEPT ![request[r].token] =
                                  [to |-> request[r].email, purpose |-> request[r].purpose]]
                    /\ request'[r] = [request[r] EXCEPT !.step = "commit"]
<1>1. CASE RegisterBegin(r) \/ ResendBegin(r) \/ ForgotBegin(r) \/ OpenLink(r) \/ SsoBegin(r)
  <2>1. request[r] = Idle /\ UNCHANGED <<user, token, mail, used>>
    BY <1>1 DEF RegisterBegin, ResendBegin, ForgotBegin, OpenLink, SsoBegin, Begin
  <2>2. CASE RegisterBegin(r)
    BY <2>1, <2>2 DEF RegisterBegin, Begin, TypeOK
  <2>3. CASE ResendBegin(r)
    BY <2>1, <2>3 DEF ResendBegin, Begin, TypeOK, Purposes
  <2>4. CASE ForgotBegin(r)
    BY <2>1, <2>4 DEF ForgotBegin, Begin, TypeOK, Purposes, HasEmail
  <2>5. CASE OpenLink(r)
    BY <2>1, <2>5 DEF OpenLink, Begin, TypeOK
  <2>6. CASE SsoBegin(r)
    BY <2>1, <2>6 DEF SsoBegin, Begin, TypeOK, HasEmail
  <2>7. QED
    BY <1>1, <2>2, <2>3, <2>4, <2>5, <2>6
<1>2. CASE RegisterInsert(r)
  <2>1. request[r] # Idle /\ Mailing(r) /\ request[r].step = "insert"
    BY <1>2, RequestShape DEF RegisterInsert, AtStep
  <2>2. ~Finish(r)
    BY DEF Finish, TypeOK
  <2>3. QED
    BY <1>2, <2>1, <2>2 DEF RegisterInsert, TypeOK
<1>3. CASE TokenDelete(r)
  <2>1. request[r] # Idle /\ Mailing(r) /\ request[r].step = "delete"
    BY <1>3, RequestShape DEF TokenDelete, AtStep
  <2>2. QED
    BY <1>3, <2>1 DEF TokenDelete, TypeOK
<1>4. CASE TokenInsert(r)
  <2>1. request[r] # Idle /\ Mailing(r) /\ request[r].step = "lock"
    BY <1>4, RequestShape DEF TokenInsert, AtStep
  <2>2. QED
    BY <1>4, <2>1 DEF TokenInsert, TypeOK
<1>5. CASE SendMail(r)
  <2>1. request[r] # Idle /\ Mailing(r) /\ request[r].step = "mail"
    BY <1>5, RequestShape DEF SendMail, AtStep
  <2>2. QED
    BY <1>5, <2>1 DEF SendMail, Goto, TypeOK
<1>6. CASE Finish(r)
  BY <1>6 DEF Finish, TypeOK
<1>7. QED
  BY <1>1, <1>2, <1>3, <1>4, <1>5, <1>6, StepOfOne DEF Commit, OpenWrite, SsoLink, SsoCreate,
     Rollback

LEMMA Beginning ==
    ASSUME TypeOK, [Next]_vars, NEW r \in Requests, request[r] = Idle, request'[r] # Idle
    PROVE  /\ UNCHANGED <<user, token, mail, used>>
           /\ request'[r].op \in {"register", "link", "open", "sso"}
           /\ request'[r].op = "register" =>
                 /\ \E e \in Emails : request'[r].email = Normal[e]
                 /\ request'[r].purpose = "verify" /\ request'[r].user = NoUser
                 /\ request'[r].gone = {} /\ request'[r].token = NoToken
                 /\ request'[r].step = "insert"
           /\ request'[r].op = "link" =>
                 /\ request'[r].user \in UserIds /\ Account(request'[r].user)
                 /\ request'[r].email = user[request'[r].user].email
                 /\ request'[r].gone = {} /\ request'[r].token = NoToken
                 /\ request'[r].step = "delete"
           /\ request'[r].op = "open" =>
                 /\ request'[r].token \in TokenIds /\ Live(request'[r].token)
                 /\ request'[r].purpose = token[request'[r].token].purpose
                 /\ request'[r].user = token[request'[r].token].user
           /\ request'[r].op = "sso" =>
                 /\ \E e \in Emails : request'[r].email = Normal[e]
                 /\ request'[r].step = "link" =>
                       request'[r].user \in UserIds /\ Account(request'[r].user)
<1>1. UNCHANGED <<user, token, mail, used>>
  BY StepsOfRequest
<1>2. CASE \E e \in Emails, p \in Passwords : request'[r] = RegisterRequest(Normal[e], p)
  BY <1>1, <1>2 DEF RegisterRequest
<1>3. CASE \E u \in UserIds, purpose \in Purposes :
              Account(u) /\ request'[r] = LinkRequest(u, user[u].email, purpose)
  BY <1>1, <1>3 DEF LinkRequest
<1>4. CASE \E k \in TokenIds, page \in Purposes, p \in Passwords :
              Live(k) /\ token[k].purpose = page /\ request'[r] = OpenRecord(k, page, p)
  BY <1>1, <1>4 DEF OpenRecord
<1>5. CASE \E e \in Emails, s \in Subs, u \in UserIds :
              Account(u) /\ request'[r] = SsoRecord(Normal[e], s, u, "link")
  BY <1>1, <1>5 DEF SsoRecord
<1>6. CASE \E e \in Emails, s \in Subs : request'[r] = SsoRecord(Normal[e], s, NoUser, "create")
  BY <1>1, <1>6 DEF SsoRecord
<1>7. QED
  BY <1>2, <1>3, <1>4, <1>5, <1>6, StepsOfRequest

LEMMA Proceeding ==
    ASSUME TypeOK, [Next]_vars, NEW r \in Requests, request[r] # Idle, request'[r] # Idle,
           request'[r] # request[r]
    PROVE  /\ Mailing(r) /\ request[r] \in MailRequest
           /\ request'[r].op = request[r].op /\ request'[r].email = request[r].email
           /\ request'[r].purpose = request[r].purpose
           /\ \/ \E u \in UserIds :
                    /\ request[r].step = "insert" /\ user[u] = Unused
                    /\ ~ClaimedByOther(r, request[r].email) /\ ~EmailTaken(request[r].email)
                    /\ user' = [user EXCEPT ![u] = Drawn] /\ UNCHANGED <<token, mail>>
                    /\ request'[r].user = u /\ request'[r].step \in {"delete", "commit"}
                    /\ request'[r].gone = request[r].gone /\ request'[r].token = request[r].token
              \/ /\ request[r].step = "delete" /\ UNCHANGED <<user, token, mail>>
                 /\ request'[r].user = request[r].user /\ request'[r].step = "lock"
                 /\ request'[r].gone = Links(request[r].user, request[r].purpose)
                 /\ request'[r].token = request[r].token
              \/ \E k \in TokenIds :
                    /\ request[r].step = "lock" /\ token[k] = Unused
                    /\ token' = [token EXCEPT ![k] = Drawn] /\ UNCHANGED <<user, mail>>
                    /\ request'[r].user = request[r].user /\ request'[r].step = "mail"
                    /\ request'[r].gone = request[r].gone /\ request'[r].token = k
              \/ /\ request[r].step = "mail" /\ UNCHANGED <<user, token>>
                 /\ mail' = [mail EXCEPT ![request[r].token] =
                               [to |-> request[r].email, purpose |-> request[r].purpose]]
                 /\ request'[r].user = request[r].user /\ request'[r].step = "commit"
                 /\ request'[r].gone = request[r].gone /\ request'[r].token = request[r].token
<1>1. Mailing(r) /\ request[r] \in MailRequest
  BY StepsOfRequest, RequestShape
<1>2. CASE \E u \in UserIds, next \in {"delete", "commit"} :
              /\ request[r].step = "insert" /\ user[u] = Unused
              /\ ~ClaimedByOther(r, request[r].email) /\ ~EmailTaken(request[r].email)
              /\ user' = [user EXCEPT ![u] = Drawn] /\ UNCHANGED <<token, mail>>
              /\ request'[r] = [request[r] EXCEPT !.user = u, !.step = next]
  <2>1. PICK u \in UserIds, next \in {"delete", "commit"} :
              /\ request[r].step = "insert" /\ user[u] = Unused
              /\ ~ClaimedByOther(r, request[r].email) /\ ~EmailTaken(request[r].email)
              /\ user' = [user EXCEPT ![u] = Drawn] /\ UNCHANGED <<token, mail>>
              /\ request'[r] = [request[r] EXCEPT !.user = u, !.step = next]
    BY <1>2
  <2>2. /\ request'[r].user = u /\ request'[r].step = next
        /\ request'[r].gone = request[r].gone /\ request'[r].token = request[r].token
        /\ request'[r].op = request[r].op /\ request'[r].email = request[r].email
        /\ request'[r].purpose = request[r].purpose
    BY <1>1, <2>1 DEF MailRequest
  <2>3. QED
    BY <1>1, <2>1, <2>2
<1>3. CASE /\ request[r].step = "delete" /\ UNCHANGED <<user, token, mail>>
           /\ request'[r] = [request[r] EXCEPT
                 !.gone = Links(request[r].user, request[r].purpose), !.step = "lock"]
  BY <1>1, <1>3 DEF MailRequest
<1>4. CASE \E k \in TokenIds :
              /\ request[r].step = "lock" /\ token[k] = Unused
              /\ token' = [token EXCEPT ![k] = Drawn] /\ UNCHANGED <<user, mail>>
              /\ request'[r] = [request[r] EXCEPT !.token = k, !.step = "mail"]
  <2>1. PICK k \in TokenIds :
              /\ request[r].step = "lock" /\ token[k] = Unused
              /\ token' = [token EXCEPT ![k] = Drawn] /\ UNCHANGED <<user, mail>>
              /\ request'[r] = [request[r] EXCEPT !.token = k, !.step = "mail"]
    BY <1>4
  <2>2. /\ request'[r].user = request[r].user /\ request'[r].step = "mail"
        /\ request'[r].gone = request[r].gone /\ request'[r].token = k
        /\ request'[r].op = request[r].op /\ request'[r].email = request[r].email
        /\ request'[r].purpose = request[r].purpose
    BY <1>1, <2>1 DEF MailRequest
  <2>3. QED
    BY <1>1, <2>1, <2>2
<1>5. CASE /\ request[r].step = "mail" /\ UNCHANGED <<user, token>>
           /\ mail' = [mail EXCEPT ![request[r].token] =
                         [to |-> request[r].email, purpose |-> request[r].purpose]]
           /\ request'[r] = [request[r] EXCEPT !.step = "commit"]
  BY <1>1, <1>5 DEF MailRequest
<1>6. QED
  BY <1>2, <1>3, <1>4, <1>5, StepsOfRequest

-----------------------------------------------------------------------------
(* The invariant is inductive                                              *)

(* An account that comes into being has the address of a registration that *)
(* commits, or of a single sign-on that found the address free.            *)
LEMMA NewAccounts ==
    ASSUME TypeOK, RequestsSound, [Next]_vars, NEW u \in UserIds, ~Account(u), Account(u)'
    PROVE  /\ \A v \in UserIds \ {u} : user'[v] = user[v]
           /\ user'[u].verified = FALSE
           /\ \E r \in Requests :
                /\ user'[u].email = request[r].email
                /\ \/ Commit(r) /\ Registering(r) /\ request[r].user = u
                   \/ /\ SsoCreate(r) /\ Busy(r, "sso")
                      /\ ~ClaimedByOther(r, request[r].email) /\ ~EmailTaken(request[r].email)
<1>1. user'[u] # user[u]
  BY DEF Account
<1>2. user'[u] # Drawn
  BY DEF Account, Drawn
<1>3. PICK r \in Requests :
         /\ request[r] # Idle
         /\ \/ /\ Commit(r) /\ request[r].op = "register" /\ request[r].user = u
               /\ user'[u] = NewAccount(request[r].email, request[r].password, NoSub)
            \/ /\ SsoCreate(r) /\ request[r].op = "sso"
               /\ user'[u] = NewAccount(request[r].email, NoPassword, request[r].sub)
               /\ ~ClaimedByOther(r, request[r].email) /\ ~EmailTaken(request[r].email)
  BY <1>1, <1>2, StepsOfUser
<1>4. user'[u].email = request[r].email /\ user'[u].verified = FALSE
  BY <1>3 DEF NewAccount
<1>5. request[r].user = u => request[r].user # NoUser
  BY NullAssumption
<1>6. QED
  BY <1>1, <1>3, <1>4, <1>5, StepsOfUser DEF Registering, Busy

LEMMA NormalInductive ==
    ASSUME TypeOK, RequestsSound, NormalEmails, [Next]_vars
    PROVE  NormalEmails'
<1>1. ASSUME NEW u \in UserIds, Account(u)' PROVE Normal[user'[u].email] = user'[u].email
  <2>1. CASE Account(u)
    BY <2>1, AccountStays DEF NormalEmails
  <2>2. CASE ~Account(u)
    BY <1>1, <2>2, NewAccounts DEF NormalEmails, Registering
  <2>3. QED
    BY <2>1, <2>2
<1>2. ASSUME NEW r \in Requests, (Busy(r, "register") \/ Busy(r, "sso"))'
      PROVE  Normal[request'[r].email] = request'[r].email
  <2>1. CASE request'[r] = request[r]
    BY <1>2, <2>1 DEF NormalEmails, Busy
  <2>2. CASE request'[r] # request[r] /\ request[r] = Idle
    <3>1. \E e \in Emails : request'[r].email = Normal[e]
      BY <1>2, <2>2, Beginning DEF Busy
    <3>2. QED
      BY <3>1, NormalAssumption
  <2>3. CASE request'[r] # request[r] /\ request[r] # Idle
    BY <1>2, <2>3, Proceeding DEF NormalEmails, Busy, Mailing
  <2>4. QED
    BY <2>1, <2>2, <2>3
<1>3. QED
  BY <1>1, <1>2 DEF NormalEmails

(* What another request does leaves an insertion as it is.                 *)
LEMMA InsertionStays ==
    ASSUME TypeOK, RequestsSound, InsertsApart, [Next]_vars, NEW r \in Requests,
           Registering(r), request'[r] = request[r]
    PROVE  /\ user'[request[r].user] = Drawn
           /\ \A v \in UserIds : Account(v)' => user'[v].email # request[r].email
<1> DEFINE e == request[r].email
           u == request[r].user
<1>1. request[r] \in MailRequest /\ u \in UserIds
  BY RequestShape DEF Registering, Busy, Mailing, MailRequest
<1>2. user[u] = Drawn /\ ~EmailTaken(e)
  BY DEF RequestsSound, RegisterSound, Registering, Busy
<1>3. Drawn # Unused /\ ~Account(u)
  BY <1>2 DEF Drawn, Unused, Account
<1>4. ASSUME NEW x \in Requests, Commit(x) PROVE x # r
  BY <1>4 DEF Commit, Finish, TypeOK, Registering, Busy
<1>5. user'[u] = Drawn
  <2> SUFFICES ASSUME user'[u] # user[u] PROVE FALSE
    BY <1>2
  <2>1. PICK x \in Requests : request[x] # Idle /\ Commit(x) /\ request[x].op = "register"
                                 /\ request[x].user = u
    BY <1>1, <1>2, <1>3, StepsOfUser
  <2>2. Registering(x) /\ x # r
    BY <1>4, <2>1 DEF Registering, Busy
  <2>3. QED
    BY <2>1, <2>2 DEF InsertsApart
<1>6. ASSUME NEW v \in UserIds, Account(v)', user'[v].email = e PROVE FALSE
  <2>1. ~Account(v)
    BY <1>2, <1>6, AccountStays DEF EmailTaken, HasEmail
  <2>2. PICK x \in Requests :
           /\ user'[v].email = request[x].email
           /\ \/ Commit(x) /\ Registering(x)
              \/ SsoCreate(x) /\ Busy(x, "sso") /\ ~ClaimedByOther(x, request[x].email)
    BY <1>6, <2>1, NewAccounts
  <2>3. request[x].email = e
    BY <1>6, <2>2
  <2>4. CASE Commit(x) /\ Registering(x)
    BY <1>4, <2>3, <2>4 DEF InsertsApart
  <2>5. CASE Busy(x, "sso") /\ ~ClaimedByOther(x, request[x].email)
    BY <2>3, <2>5 DEF ClaimedByOther, Claims, Registering, Busy
  <2>6. QED
    BY <2>2, <2>4, <2>5
<1>7. QED
  BY <1>5, <1>6

LEMMA RegisterInductive ==
    ASSUME TypeOK, RequestsSound, InsertsApart, [Next]_vars, NEW r \in Requests
    PROVE  RegisterSound(r)'
<1> SUFFICES ASSUME Busy(r, "register")' PROVE RegisterSound(r)'
  BY DEF RegisterSound
<1>1. CASE request'[r] = request[r]
  <2>1. Busy(r, "register")
    BY <1>1 DEF Busy
  <2>2. request[r].user # NoUser =>
           /\ user'[request[r].user] = Drawn
           /\ \A v \in UserIds : Account(v)' => user'[v].email # request[r].email
    BY <1>1, <2>1, InsertionStays DEF Registering
  <2>3. /\ request[r].purpose = "verify"
        /\ request[r].user = NoUser <=> request[r].step = "insert"
    BY <2>1 DEF RequestsSound, RegisterSound
  <2>4. QED
    BY <1>1, <2>2, <2>3 DEF RegisterSound, EmailTaken, HasEmail, Account
<1>2. CASE request'[r] # request[r] /\ request[r] = Idle
  <2>1. /\ request'[r].purpose = "verify" /\ request'[r].user = NoUser
        /\ request'[r].step = "insert"
    BY <1>2, Beginning DEF Busy
  <2>2. QED
    BY <2>1 DEF RegisterSound
<1>3. CASE request'[r] # request[r] /\ request[r] # Idle
  <2>1. /\ request'[r].op = request[r].op /\ request'[r].email = request[r].email
        /\ request'[r].purpose = request[r].purpose /\ request[r] \in MailRequest
    BY <1>3, Proceeding DEF Busy
  <2>2. /\ Busy(r, "register") /\ request[r].purpose = "verify"
        /\ request[r].user = NoUser <=> request[r].step = "insert"
        /\ request[r].user # NoUser => user[request[r].user] = Drawn
                                         /\ ~EmailTaken(request[r].email)
    BY <1>3, <2>1 DEF RequestsSound, RegisterSound, Busy
  <2>3. CASE request[r].step = "insert"
    <3>1. PICK u \in UserIds :
             /\ user[u] = Unused /\ ~EmailTaken(request[r].email)
             /\ user' = [user EXCEPT ![u] = Drawn]
             /\ request'[r].user = u /\ request'[r].step \in {"delete", "commit"}
      BY <1>3, <2>3, Proceeding DEF Busy
    <3>2. \A v \in UserIds : Account(v)' => Account(v) /\ user'[v] = user[v]
      BY <3>1 DEF Account, Drawn, TypeOK
    <3>3. ~\E v \in UserIds : Account(v)' /\ user'[v].email = request[r].email
      BY <3>1, <3>2 DEF EmailTaken, HasEmail
    <3>4. user'[u] = Drawn /\ u # NoUser
      BY <3>1, NullAssumption DEF TypeOK
    <3>5. QED
      BY <2>1, <2>2, <3>1, <3>3, <3>4 DEF RegisterSound, EmailTaken, HasEmail
  <2>4. CASE request[r].step # "insert"
    <3>1. request'[r].user = request[r].user /\ request'[r].step # "insert" /\ user' = user
      BY <1>3, <2>4, Proceeding DEF Busy
    <3>2. QED
      BY <2>1, <2>2, <2>4, <3>1 DEF RegisterSound, EmailTaken, HasEmail, Account
  <2>5. QED
    BY <2>3, <2>4
<1>4. QED
  BY <1>1, <1>2, <1>3

(* An insertion that was not there a step before has just taken an address *)
(* that nobody claims and an id that nobody has drawn.                     *)
LEMMA InsertsInductive ==
    ASSUME TypeOK, RequestsSound, InsertsApart, [Next]_vars
    PROVE  InsertsApart'
<1>1. ASSUME NEW r \in Requests, NEW x \in Requests, Registering(r)', Registering(x)', r # x,
             request'[r] # request[r]
      PROVE  request'[r].user # request'[x].user /\ request'[r].email # request'[x].email
  <2>1. request'[x] = request[x]
    BY <1>1, StepOfOne
  <2>2. Registering(x)
    BY <1>1, <2>1 DEF Registering, Busy
  <2>3. user[request[x].user] = Drawn
    BY <2>2 DEF RequestsSound, RegisterSound, Registering, Busy
  <2>4. request[r] # Idle
    BY <1>1, Beginning DEF Registering, Busy
  <2>5. request'[r].op = "register" /\ request[r].op = "register"
    BY <1>1, <2>4, Proceeding DEF Registering, Busy
  <2>6. CASE request[r].step = "insert"
    <3>1. PICK u \in UserIds :
             /\ user[u] = Unused /\ ~ClaimedByOther(r, request[r].email)
             /\ request'[r].user = u /\ request'[r].email = request[r].email
      BY <1>1, <2>4, <2>6, Proceeding DEF Registering, Busy
    <3>2. request[x].email # request[r].email
      BY <1>1, <2>2, <3>1 DEF ClaimedByOther, Claims, Registering, Busy
    <3>3. request[x].user # u
      BY <2>3, <3>1 DEF Unused, Drawn
    <3>4. QED
      BY <2>1, <3>1, <3>2, <3>3
  <2>7. CASE request[r].step # "insert"
    <3>1. request'[r].user = request[r].user /\ request'[r].email = request[r].email
      BY <1>1, <2>4, <2>7, Proceeding DEF Registering, Busy
    <3>2. Registering(r)
      BY <1>1, <2>4, <2>5, <3>1 DEF Registering, Busy
    <3>3. QED
      BY <1>1, <2>1, <2>2, <3>1, <3>2 DEF InsertsApart
  <2>8. QED
    BY <2>6, <2>7
<1>2. ASSUME NEW r \in Requests, NEW x \in Requests, Registering(r)', Registering(x)', r # x,
             request'[r] = request[r], request'[x] = request[x]
      PROVE  request'[r].user # request'[x].user /\ request'[r].email # request'[x].email
  <2>1. Registering(r) /\ Registering(x)
    BY <1>2 DEF Registering, Busy
  <2>2. QED
    BY <1>2, <2>1 DEF InsertsApart
<1>3. QED
  BY <1>1, <1>2 DEF InsertsApart

(* A token that a request has drawn stays with it until its commit.        *)
LEMMA DrawnStays ==
    ASSUME TypeOK, RequestsSound, TokensApart, [Next]_vars, NEW r \in Requests,
           request[r] # Idle, Mailing(r), request[r].token # NoToken,
           request'[r] = request[r]
    PROVE  token'[request[r].token] = Drawn /\ mail'[request[r].token] = mail[request[r].token]
<1> DEFINE k == request[r].token
<1>1. k \in TokenIds /\ token[k] = Drawn
  BY RequestShape DEF MailRequest, RequestsSound, MailSound
<1>2. Drawn # Unused /\ Drawn.state \notin {"live", "deleted"}
  BY DEF Drawn, Unused
<1>3. ASSUME NEW x \in Requests, Commit(x) \/ SendMail(x)
      PROVE  x # r /\ request[x] # Idle /\ Mailing(x)
  <2>1. request[x] # Idle /\ Mailing(x)
    BY <1>3, RequestShape DEF Commit, SendMail, AtStep
  <2>2. request[x] \in MailRequest
    BY <2>1, RequestShape
  <2>3. request'[x] # request[x]
    <3>1. CASE Commit(x)
      BY <2>1, <3>1 DEF Commit, Finish, TypeOK
    <3>2. CASE SendMail(x)
      <4>1. request'[x].step = "commit" /\ request[x].step = "mail"
        BY <2>2, <3>2 DEF SendMail, Goto, AtStep, TypeOK, MailRequest
      <4>2. QED
        BY <4>1
    <3>3. QED
      BY <1>3, <3>1, <3>2
  <2>4. QED
    BY <2>1, <2>3
<1>4. token'[k] = Drawn
  <2> SUFFICES ASSUME token'[k] # token[k] PROVE FALSE
    BY <1>1
  <2>1. ~Live(k)
    BY <1>1, <1>2 DEF Live
  <2>2. PICK x \in Requests : Commit(x) /\ request[x].token = k
    BY <1>1, <1>2, <2>1, StepsOfToken
  <2>3. QED
    BY <1>3, <2>2 DEF TokensApart
<1>5. mail'[k] = mail[k]
  <2>1. CASE \E x \in Requests : SendMail(x)
    <3>1. PICK x \in Requests : SendMail(x)
      BY <2>1
    <3>2. request[x].token # k
      BY <1>3, <3>1 DEF TokensApart
    <3>3. QED
      BY <3>1, <3>2 DEF SendMail, TypeOK
  <2>2. CASE ~\E x \in Requests : SendMail(x)
    BY <2>2 DEF Next, vars, ExpireToken, RegisterBegin, RegisterInsert, ResendBegin,
       ForgotBegin, TokenDelete, TokenInsert, Commit, OpenLink, OpenWrite, SsoBegin, SsoLink,
       SsoCreate, Rollback
  <2>3. QED
    BY <2>1, <2>2
<1>6. QED
  BY <1>4, <1>5

LEMMA TokensInductive ==
    ASSUME TypeOK, RequestsSound, TokensApart, [Next]_vars
    PROVE  TokensApart'
<1> SUFFICES ASSUME NEW r \in Requests, NEW x \in Requests, r # x,
                    request'[r] # Idle, Mailing(r)', request'[x] # Idle, Mailing(x)',
                    request'[r].token # NoToken
             PROVE  request'[r].token # request'[x].token
  BY DEF TokensApart
<1>1. CASE request'[r] = request[r] /\ request'[x] = request[x]
  BY <1>1 DEF TokensApart, Mailing
<1>2. ASSUME NEW y \in Requests, NEW z \in Requests, y # z, request'[y] # request[y],
             request'[y] # Idle, Mailing(y)', request'[z] # Idle, Mailing(z)',
             request'[y].token # NoToken
      PROVE  request'[y].token # request'[z].token
  <2>1. request'[z] = request[z]
    BY <1>2, StepOfOne
  <2>2. request[y] # Idle
    BY <1>2, Beginning DEF Mailing
  <2>3. request[z] # Idle /\ Mailing(z)
    BY <1>2, <2>1 DEF Mailing
  <2>4. CASE request'[y].token = request[y].token
    <3>1. Mailing(y)
      BY <1>2, <2>2, Proceeding
    <3>2. QED
      BY <1>2, <2>1, <2>2, <2>3, <2>4, <3>1 DEF TokensApart
  <2>5. CASE request'[y].token # request[y].token
    <3>1. token[request'[y].token] = Unused
      BY <1>2, <2>2, <2>5, Proceeding
    <3>2. request[z].token # NoToken => token[request[z].token] = Drawn
      BY <2>3 DEF RequestsSound, MailSound
    <3>3. QED
      BY <1>2, <2>1, <3>1, <3>2 DEF Unused, Drawn
  <2>6. QED
    BY <2>4, <2>5
<1>3. QED
  BY <1>1, <1>2

LEMMA GoneStays ==
    ASSUME TypeOK, RequestsSound, [Next]_vars, NEW r \in Requests, request[r] # Idle, Mailing(r)
    PROVE  \A k \in request[r].gone : token'[k].state \in {"live", "deleted"}
<1>1. request[r].gone \subseteq TokenIds
  BY RequestShape DEF MailRequest
<1>2. \A k \in request[r].gone : token[k].state \in {"live", "deleted"}
  BY DEF RequestsSound, MailSound
<1>3. QED
  BY <1>1, <1>2, CommittedStays

LEMMA MailInductive ==
    ASSUME TypeOK, RequestsSound, TokensApart, [Next]_vars, NEW r \in Requests
    PROVE  MailSound(r)'
<1>1. ASSUME Busy(r, "link")'
      PROVE  /\ request'[r].user # NoUser /\ request'[r].step # "insert"
             /\ user'[request'[r].user].state = "live"
             /\ user'[request'[r].user].email = request'[r].email
  <2>1. CASE request[r] = Idle
    <3>1. /\ request'[r].user \in UserIds /\ Account(request'[r].user)
          /\ request'[r].email = user[request'[r].user].email
          /\ request'[r].step = "delete" /\ user' = user
      BY <1>1, <2>1, Beginning DEF Busy
    <3>2. QED
      BY <1>1, <2>1, <3>1, NullAssumption DEF Account, Busy
  <2>2. CASE request[r] # Idle
    <3>1. Busy(r, "link") /\ request'[r].email = request[r].email
      BY <1>1, <2>2, Proceeding DEF Busy
    <3>2. /\ request[r].user # NoUser /\ request[r].step # "insert"
          /\ HasEmail(request[r].user, request[r].email)
      BY <3>1 DEF RequestsSound, MailSound
    <3>3. request'[r].user = request[r].user /\ request'[r].step # "insert"
      BY <1>1, <2>2, <3>2, Proceeding DEF Busy
    <3>4. request[r].user \in UserIds
      BY <3>1, <3>2, RequestShape DEF Busy, Mailing, MailRequest
    <3>5. Account(request[r].user) /\ user[request[r].user].email = request[r].email
      BY <3>2 DEF HasEmail
    <3>6. user'[request[r].user].state = "live"
            /\ user'[request[r].user].email = request[r].email
      BY <3>4, <3>5, AccountStays DEF Account
    <3>7. QED
      BY <3>1, <3>2, <3>3, <3>6 DEF Account
  <2>3. QED
    BY <2>1, <2>2
<1>2. ASSUME request'[r] # Idle, Mailing(r)'
      PROVE  /\ \A k \in request'[r].gone : token'[k].state \in {"live", "deleted"}
             /\ request'[r].step = "mail" => request'[r].token # NoToken
             /\ request'[r].token # NoToken =>
                   /\ request'[r].step \in {"mail", "commit"}
                   /\ token'[request'[r].token] = Drawn
                   /\ request'[r].step = "commit" =>
                         mail'[request'[r].token] = [to |-> request'[r].email,
                                                     purpose |-> request'[r].purpose]
  <2>1. CASE request[r] = Idle
    <3>1. /\ request'[r].gone = {} /\ request'[r].token = NoToken
          /\ request'[r].step \in {"insert", "delete"}
      BY <1>2, <2>1, Beginning DEF Mailing
    <3>2. QED
      BY <3>1
  <2>2. CASE request[r] # Idle /\ request'[r] = request[r]
    <3>1. Mailing(r)
      BY <1>2, <2>2 DEF Mailing
    <3>2. \A k \in request'[r].gone : token'[k].state \in {"live", "deleted"}
      BY <2>2, <3>1, GoneStays
    <3>3. /\ request[r].step = "mail" => request[r].token # NoToken
          /\ request[r].token # NoToken =>
                /\ request[r].step \in {"mail", "commit"}
                /\ request[r].step = "commit" =>
                      mail[request[r].token] = [to |-> request[r].email,
                                                purpose |-> request[r].purpose]
      BY <2>2, <3>1 DEF RequestsSound, MailSound
    <3>4. request[r].token # NoToken =>
             token'[request[r].token] = Drawn /\ mail'[request[r].token] = mail[request[r].token]
      BY <2>2, <3>1, DrawnStays
    <3>5. QED
      BY <2>2, <3>2, <3>3, <3>4
  <2>3. CASE request[r] # Idle /\ request'[r] # request[r]
    <3>1. Mailing(r) /\ request[r] \in MailRequest
            /\ request'[r].email = request[r].email /\ request'[r].purpose = request[r].purpose
      BY <1>2, <2>3, Proceeding
    <3>2. \A k \in request[r].gone : token'[k].state \in {"live", "deleted"}
      BY <2>3, <3>1, GoneStays
    <3>3. /\ request[r].step = "mail" => request[r].token # NoToken
          /\ request[r].token # NoToken =>
                request[r].step \in {"mail", "commit"} /\ token[request[r].token] = Drawn
      BY <2>3, <3>1 DEF RequestsSound, MailSound
    <3>4. CASE request[r].step = "insert"
      BY <1>2, <2>3, <3>2, <3>3, <3>4, Proceeding
    <3>5. CASE request[r].step = "delete"
      <4>1. /\ request'[r].gone = Links(request[r].user, request[r].purpose)
            /\ request'[r].token = request[r].token /\ request'[r].step = "lock"
            /\ token' = token
        BY <1>2, <2>3, <3>5, Proceeding
      <4>2. QED
        BY <3>3, <3>5, <4>1 DEF Links, Live
    <3>6. CASE request[r].step = "lock"
      <4>1. PICK k \in TokenIds :
               /\ token' = [token EXCEPT ![k] = Drawn]
               /\ request'[r].gone = request[r].gone /\ request'[r].token = k
               /\ request'[r].step = "mail"
        BY <1>2, <2>3, <3>6, Proceeding
      <4>2. token'[k] = Drawn /\ k # NoToken
        BY <4>1, NullAssumption DEF TypeOK
      <4>3. QED
        BY <3>2, <4>1, <4>2
    <3>7. CASE request[r].step = "mail"
      <4>1. /\ request'[r].gone = request[r].gone /\ request'[r].token = request[r].token
            /\ request'[r].step = "commit" /\ token' = token
            /\ mail' = [mail EXCEPT ![request[r].token] =
                          [to |-> request[r].email, purpose |-> request[r].purpose]]
        BY <1>2, <2>3, <3>7, Proceeding
      <4>2. request[r].token \in TokenIds
        BY <3>1, <3>3, <3>7 DEF MailRequest
      <4>3. mail'[request[r].token] = [to |-> request[r].email, purpose |-> request[r].purpose]
        BY <4>1, <4>2 DEF TypeOK
      <4>4. QED
        BY <3>1, <3>2, <3>3, <4>1, <4>3
    <3>8. QED
      BY <1>2, <2>3, <3>4, <3>5, <3>6, <3>7, Proceeding
  <2>4. QED
    BY <2>1, <2>2, <2>3
<1>3. QED
  BY <1>1, <1>2 DEF MailSound, HasEmail, Account

LEMMA OpenInductive ==
    ASSUME TypeOK, RequestsSound, LinksSound, [Next]_vars, NEW r \in Requests
    PROVE  OpenSound(r)'
<1>1. ASSUME Busy(r, "open")'
      PROVE  /\ token'[request'[r].token].state \in {"live", "deleted"}
             /\ Mailed(request[r].token, request[r].user, request[r].purpose)'
  <2> DEFINE q == request'[r]
  <2>1. PICK k \in TokenIds, u \in UserIds, purpose \in Purposes :
           /\ q.token = k /\ q.user = u /\ q.purpose = purpose
           /\ token[k].state \in {"live", "deleted"} /\ Mailed(k, u, purpose)
    <3>1. CASE request[r] = Idle
      <4>1. /\ q.token \in TokenIds /\ Live(q.token)
            /\ q.purpose = token[q.token].purpose /\ q.user = token[q.token].user
        BY <1>1, <3>1, Beginning DEF Busy
      <4>2. token[q.token] \in TokenRow
        BY <4>1, RowShape
      <4>3. Mailed(q.token, token[q.token].user, token[q.token].purpose)
        BY <4>1 DEF LinksSound, LinkSound
      <4>4. QED
        BY <4>1, <4>2, <4>3 DEF TokenRow, Live
    <3>2. CASE request[r] # Idle
      <4>1. request'[r] = request[r]
        BY <1>1, <3>2, Proceeding DEF Busy, Mailing
      <4>2. Busy(r, "open") /\ request[r] \in OpenRequest
        BY <1>1, <4>1, <3>2, RequestShape DEF Busy
      <4>3. QED
        BY <4>1, <4>2 DEF RequestsSound, OpenSound, OpenRequest
    <3>3. QED
      BY <3>1, <3>2
  <2>2. token'[k].state \in {"live", "deleted"}
    BY <2>1, CommittedStays
  <2>3. Mailed(k, u, purpose)'
    BY <2>1, MailedStays
  <2>4. QED
    BY <2>1, <2>2, <2>3 DEF Mailed, Account
<1>2. ASSUME Busy(r, "sso")', request'[r].step = "link"
      PROVE  request'[r].user # NoUser /\ Account(request[r].user)'
  <2>1. PICK u \in UserIds : request'[r].user = u /\ Account(u)
    <3>1. CASE request[r] = Idle
      BY <1>2, <3>1, Beginning DEF Busy
    <3>2. CASE request[r] # Idle
      <4>1. request'[r] = request[r]
        BY <1>2, <3>2, Proceeding DEF Busy, Mailing
      <4>2. Busy(r, "sso") /\ request[r].step = "link" /\ request[r] \in SsoRequest
        BY <1>2, <4>1, <3>2, RequestShape DEF Busy
      <4>3. QED
        BY <4>1, <4>2 DEF RequestsSound, OpenSound, SsoRequest
    <3>3. QED
      BY <3>1, <3>2
  <2>2. user'[u].state = "live" /\ u # NoUser
    BY <2>1, AccountStays, NullAssumption DEF Account
  <2>3. QED
    BY <2>1, <2>2 DEF Account
<1>3. QED
  BY <1>1, <1>2 DEF OpenSound

(* A link comes to life when the request that mailed it commits.           *)
LEMMA NewLinks ==
    ASSUME TypeOK, RequestsSound, [Next]_vars, NEW k \in TokenIds, Live(k)'
    PROVE  \/ /\ Live(k) /\ token'[k].user = token[k].user
              /\ token'[k].purpose = token[k].purpose
           \/ \E r \in Requests :
                /\ Commit(r) /\ request[r] # Idle /\ Mailing(r) /\ request[r].step = "commit"
                /\ request[r].token = k /\ token[k] = Drawn
                /\ token'[k].user = request[r].user /\ token'[k].purpose = request[r].purpose
<1>1. token'[k] # Drawn /\ token'[k] # Deleted
  BY DEF Live, Drawn, Deleted
<1>2. CASE token'[k] = token[k]
  BY <1>2 DEF Live
<1>3. CASE Live(k) /\ token'[k] = [token[k] EXCEPT !.expired = TRUE]
  BY <1>3, RowShape DEF TokenRow
<1>4. CASE \E r \in Requests :
                /\ Commit(r) /\ request[r] # Idle /\ Mailing(r) /\ request[r].step = "commit"
                /\ request[r].token = k /\ token[k] = Drawn
                /\ token'[k] = [state |-> "live", user |-> request[r].user,
                                purpose |-> request[r].purpose, expired |-> FALSE]
  BY <1>4
<1>5. QED
  BY <1>1, <1>2, <1>3, <1>4, StepsOfToken

LEMMA CommitKnowsUser ==
    ASSUME TypeOK, RequestsSound, NEW r \in Requests, Commit(r)
    PROVE  /\ request[r].user \in UserIds
           /\ user'[request[r].user].state = "live"
           /\ user'[request[r].user].email = request[r].email
           /\ request[r] # Idle /\ Mailing(r) /\ request[r] \in MailRequest
           /\ request[r].step = "commit" /\ mail' = mail
<1>1. request[r] # Idle /\ Mailing(r) /\ request[r] \in MailRequest /\ request[r].step = "commit"
  BY RequestShape DEF Commit, AtStep
<1>2. request[r].user \in UserIds
  BY <1>1 DEF RequestsSound, RegisterSound, MailSound, Busy, Mailing, MailRequest
<1>3. user'[request[r].user].state = "live" /\ user'[request[r].user].email = request[r].email
  <2>1. CASE request[r].op = "register"
    <3>1. user'[request[r].user] = NewAccount(request[r].email, request[r].password, NoSub)
      BY <1>2, <2>1 DEF Commit, TypeOK
    <3>2. QED
      BY <3>1 DEF NewAccount
  <2>2. CASE request[r].op = "link"
    BY <1>1, <2>2 DEF Commit, RequestsSound, MailSound, Busy, HasEmail, Account
  <2>3. QED
    BY <1>1, <2>1, <2>2 DEF Mailing
<1>4. QED
  BY <1>1, <1>2, <1>3 DEF Commit

LEMMA LinksInductive ==
    ASSUME TypeOK, RequestsSound, LinksSound, [Next]_vars
    PROVE  LinksSound'
<1> SUFFICES ASSUME NEW k \in TokenIds, Live(k)'
             PROVE  \E u \in UserIds, purpose \in Purposes :
                       /\ token'[k].user = u /\ token'[k].purpose = purpose
                       /\ Mailed(k, u, purpose)'
  BY DEF LinksSound, LinkSound, Mailed, Account
<1>1. CASE /\ Live(k) /\ token'[k].user = token[k].user
           /\ token'[k].purpose = token[k].purpose
  <2>1. PICK u \in UserIds, purpose \in Purposes : token[k].user = u /\ token[k].purpose = purpose
    BY <1>1, RowShape DEF TokenRow
  <2>2. Mailed(k, u, purpose) /\ token[k].state = "live"
    BY <1>1, <2>1 DEF LinksSound, LinkSound, Live
  <2>3. QED
    BY <1>1, <2>1, <2>2, MailedStays
<1>2. CASE \E r \in Requests :
             /\ Commit(r) /\ request[r].token = k
             /\ token'[k].user = request[r].user /\ token'[k].purpose = request[r].purpose
  <2>1. PICK r \in Requests :
             /\ Commit(r) /\ request[r].token = k
             /\ token'[k].user = request[r].user /\ token'[k].purpose = request[r].purpose
    BY <1>2
  <2>2. PICK u \in UserIds, purpose \in Purposes :
           request[r].user = u /\ request[r].purpose = purpose
    BY <2>1, CommitKnowsUser DEF MailRequest
  <2>3. mail[k] = [to |-> request[r].email, purpose |-> request[r].purpose]
    BY <2>1, CommitKnowsUser, NullAssumption DEF RequestsSound, MailSound
  <2>4. Account(u)' /\ user'[u].email = request[r].email /\ mail' = mail
    BY <2>1, <2>2, CommitKnowsUser DEF Account
  <2>5. QED
    BY <2>1, <2>2, <2>3, <2>4 DEF Mailed
<1>3. QED
  BY <1>1, <1>2, NewLinks

LEMMA UsedInductive ==
    ASSUME TypeOK, RequestsSound, UsedDeleted, [Next]_vars
    PROVE  UsedDeleted'
<1> SUFFICES ASSUME NEW k \in used' PROVE token'[k].state = "deleted"
  BY DEF UsedDeleted
<1>1. CASE k \in used
  BY <1>1, CommittedStays DEF UsedDeleted, TypeOK
<1>2. CASE k \notin used
  <2>1. PICK r \in Requests : OpenWrite(r)
    BY <1>2 DEF Next, vars, ExpireToken, RegisterBegin, RegisterInsert, ResendBegin,
       ForgotBegin, TokenDelete, TokenInsert, SendMail, Commit, OpenLink, SsoBegin, SsoLink,
       SsoCreate, Rollback
  <2>2. k = request[r].token
    BY <1>2, <2>1 DEF OpenWrite
  <2>3. k \in TokenIds
    BY <2>1, <2>2, RequestShape DEF OpenWrite, AtStep, OpenRequest
  <2>4. token'[k] = Deleted
    BY <2>1, <2>2, <2>3 DEF OpenWrite, TypeOK
  <2>5. QED
    BY <2>4 DEF Deleted
<1>3. QED
  BY <1>1, <1>2

(* An address stays with one account: who creates one holds the claim to   *)
(* the address, or found it neither taken nor claimed.                     *)
LEMMA OneAccountInductive ==
    ASSUME TypeOK, RequestsSound, NormalEmails, OneAccountPerAddress, [Next]_vars
    PROVE  OneAccountPerAddress'
<1>1. NormalEmails'
  BY NormalInductive
<1>2. ASSUME NEW u \in UserIds, NEW v \in UserIds, u # v, Account(u)', Account(v)', ~Account(u),
             user'[u].email = user'[v].email
      PROVE  FALSE
  <2>1. user'[v] = user[v]
    BY <1>2, NewAccounts
  <2>2. HasEmail(v, user'[u].email)
    BY <1>2, <2>1 DEF HasEmail, Account
  <2>3. EmailTaken(user'[u].email)
    BY <2>2 DEF EmailTaken
  <2>4. PICK r \in Requests :
           /\ user'[u].email = request[r].email
           /\ Registering(r) \/ ~EmailTaken(request[r].email)
    BY <1>2, NewAccounts
  <2>5. ~EmailTaken(request[r].email)
    BY <2>4 DEF RequestsSound, RegisterSound, Registering, Busy
  <2>6. QED
    BY <2>3, <2>4, <2>5
<1>3. ASSUME NEW u \in UserIds, NEW v \in UserIds, Account(u)', Account(v)',
             Normal[user'[u].email] = Normal[user'[v].email]
      PROVE  u = v
  <2>1. user'[u].email = user'[v].email
    BY <1>1, <1>3 DEF NormalEmails
  <2>2. CASE Account(u) /\ Account(v)
    BY <1>3, <2>2, AccountStays DEF OneAccountPerAddress
  <2>3. CASE ~Account(u) \/ ~Account(v)
    BY <1>2, <1>3, <2>1, <2>3
  <2>4. QED
    BY <2>2, <2>3
<1>4. QED
  BY <1>3 DEF OneAccountPerAddress, Account

(* Only an opened link makes an account verified, and what was mailed with *)
(* that link stays what it is.                                             *)
LEMMA VerifiedInductive ==
    ASSUME TypeOK, RequestsSound, UsedDeleted, VerifiedByLink, [Next]_vars
    PROVE  VerifiedByLink'
<1> SUFFICES ASSUME NEW u \in UserIds, Account(u)', user'[u].verified
             PROVE  \E k \in used' : mail'[k] = [to |-> user'[u].email, purpose |-> "verify"]
  BY DEF VerifiedByLink, Account
<1>1. Account(u)
  BY NewAccounts
<1>2. user'[u].email = user[u].email
  BY <1>1, AccountStays
<1>3. \A k \in used : mail'[k] = mail[k]
  BY CommittedStays DEF UsedDeleted, TypeOK
<1>4. used \subseteq used'
  BY DEF Next, vars, ExpireToken, RegisterBegin, RegisterInsert, ResendBegin,
     ForgotBegin, TokenDelete, TokenInsert, SendMail, Commit, OpenLink, OpenWrite, SsoBegin,
     SsoLink, SsoCreate, Rollback
<1>5. CASE user[u].verified
  BY <1>1, <1>2, <1>3, <1>4, <1>5 DEF VerifiedByLink
<1>6. CASE ~user[u].verified
  <2>1. user[u] \in UserRow /\ user[u] # Unused /\ user[u] # Drawn
    BY <1>1, RowShape DEF Account, Unused, Drawn
  <2>2. ASSUME NEW s, user'[u] = [user[u] EXCEPT !.sub = s] PROVE FALSE
    BY <1>6, <2>1, <2>2 DEF UserRow
  <2>3. PICK r \in Requests :
           /\ OpenWrite(r) /\ request[r] # Idle /\ request[r].op = "open"
           /\ request[r].user = u /\ user'[u] = Opened(user[u], request[r])
    BY <1>6, <2>1, <2>2, StepsOfUser
  <2>4. request[r] \in OpenRequest
    BY <2>3, RequestShape
  <2>5. request[r].purpose = "verify"
    BY <1>6, <2>1, <2>3, <2>4, OpenedRow
  <2>6. mail[request[r].token] = [to |-> user[u].email, purpose |-> "verify"]
    BY <2>3, <2>5 DEF RequestsSound, OpenSound, Busy, Mailed
  <2>7. request[r].token \in used' /\ mail' = mail
    BY <2>3 DEF OpenWrite
  <2>8. QED
    BY <1>2, <2>6, <2>7
<1>7. QED
  BY <1>5, <1>6

(* A link that stays in its slot is deleted by the request there: the      *)
(* DELETE of that request comes after the commit of the link.              *)
LEMMA SlotStays ==
    ASSUME TypeOK, RequestsSound, LinksSound, [Next]_vars,
           NEW u \in UserIds, NEW purpose \in Purposes, NEW k \in Links(u, purpose),
           NEW r \in Requests, Deleting(r, u, purpose) => k \in request[r].gone,
           Deleting(r, u, purpose)'
    PROVE  k \in request'[r].gone
<1>1. CASE request'[r] = request[r]
  BY <1>1 DEF Deleting, Mailing
<1>2. CASE request'[r] # request[r]
  <2>1. /\ request'[r] # Idle /\ Mailing(r)' /\ request'[r].step \in {"lock", "mail", "commit"}
        /\ request'[r].user = u /\ request'[r].purpose = purpose
    BY DEF Deleting
  <2>2. request[r] # Idle
    BY <2>1, Beginning DEF Mailing
  <2>3. Mailing(r) /\ request[r].purpose = purpose
    BY <1>2, <2>1, <2>2, Proceeding
  <2>4. CASE request[r].step = "insert"
    <3>1. user[u] = Unused
      BY <1>2, <2>1, <2>2, <2>4, Proceeding
    <3>2. Live(k) /\ token[k].user = u /\ k \in TokenIds
      BY DEF Links
    <3>3. Account(u)
      BY <3>2 DEF LinksSound, LinkSound, Mailed
    <3>4. QED
      BY <3>1, <3>3 DEF Account, Unused
  <2>5. CASE request[r].step = "delete"
    <3>1. /\ request'[r].user = request[r].user
          /\ request'[r].gone = Links(request[r].user, request[r].purpose)
      BY <1>2, <2>1, <2>2, <2>5, Proceeding
    <3>2. QED
      BY <2>1, <2>3, <3>1
  <2>6. CASE request[r].step \in {"lock", "mail"}
    <3>1. request'[r].user = request[r].user /\ request'[r].gone = request[r].gone
      BY <1>2, <2>1, <2>2, <2>6, Proceeding
    <3>2. Deleting(r, u, purpose)
      BY <2>1, <2>2, <2>3, <2>6, <3>1 DEF Deleting
    <3>3. QED
      BY <3>1, <3>2
  <2>7. QED
    BY <1>2, <2>1, <2>2, <2>4, <2>5, <2>6, Proceeding
<1>3. QED
  BY <1>1, <1>2

LEMMA SlotsInductive ==
    ASSUME TypeOK, RequestsSound, LinksSound, LinksInSlots, [Next]_vars
    PROVE  LinksInSlots'
<1> SUFFICES ASSUME NEW u \in UserIds, NEW purpose \in Purposes
             PROVE  (\E f \in [Links(u, purpose) -> Requests] : Slots(f, u, purpose))'
  BY DEF LinksInSlots
<1> DEFINE L == Links(u, purpose)
<1>1. PICK L2 : L' = L2
  OBVIOUS
<1>2. PICK f \in [L -> Requests] : Slots(f, u, purpose)
  BY DEF LinksInSlots
<1>3. /\ \A k, j \in L : f[k] = f[j] => k = j
      /\ \A k \in L : Deleting(f[k], u, purpose) => k \in request[f[k]].gone
  BY <1>2 DEF Slots, Injection, IsInjective
<1>4. \A k \in L : Deleting(f[k], u, purpose)' => k \in request'[f[k]].gone
  <2> TAKE k \in L
  <2>1. f[k] \in Requests
    BY <1>2
  <2>2. QED
    BY <1>3, <2>1, SlotStays DEF Deleting, Mailing
<1>5. ASSUME NEW g \in [L2 -> Requests],
             \A k, j \in L2 : g[k] = g[j] => k = j,
             \A k \in L2 : Deleting(g[k], u, purpose)' => k \in request'[g[k]].gone
      PROVE  (\E h \in [Links(u, purpose) -> Requests] : Slots(h, u, purpose))'
  <2>1. Slots(g, u, purpose)'
    BY <1>1, <1>5 DEF Slots, Injection, IsInjective
  <2>2. g \in [L' -> Requests]
    BY <1>1
  <2>3. QED
    BY <2>1, <2>2
<1>6. CASE L2 \subseteq L
  <2> DEFINE g == [k \in L2 |-> f[k]]
  <2>1. g \in [L2 -> Requests] /\ \A k \in L2 : g[k] = f[k]
    BY <1>6
  <2>2. \A k, j \in L2 : g[k] = g[j] => k = j
    BY <1>3, <1>6, <2>1
  <2>3. \A k \in L2 : Deleting(g[k], u, purpose)' => k \in request'[g[k]].gone
    BY <1>4, <1>6, <2>1
  <2> HIDE DEF g
  <2>4. QED
    BY <1>5, <2>1, <2>2, <2>3
<1>7. CASE ~(L2 \subseteq L)
  <2>1. PICK t \in L2 : t \notin L
    BY <1>7
  <2>2. PICK r \in Requests :
           /\ Commit(r) /\ request[r] # Idle /\ Mailing(r) /\ request[r].step = "commit"
           /\ request[r].token = t /\ request[r].user = u /\ request[r].purpose = purpose
    BY <1>1, <2>1, NewLinks DEF Links, Live
  <2>3. Deleting(r, u, purpose)
    BY <2>2 DEF Deleting
  <2>4. request'[r] = Idle /\ \A x \in Requests : request'[x] # request[x] => x = r
    BY <2>2 DEF Commit, Finish, TypeOK
  <2>5. \A k \in L2 : k # t => k \in L
    <3> SUFFICES ASSUME NEW k \in L2, k # t, k \notin L PROVE FALSE
      OBVIOUS
    <3>1. PICK x \in Requests : Commit(x) /\ request[x] # Idle /\ request[x].token = k
      BY <1>1, NewLinks DEF Links, Live
    <3>2. request'[x] = Idle
      BY <3>1 DEF Commit, Finish, TypeOK
    <3>3. x = r
      BY <2>4, <3>1, <3>2
    <3>4. QED
      BY <2>2, <3>1, <3>3
  <2>6. \A k \in L2 : k # t => f[k] # r
    <3> SUFFICES ASSUME NEW k \in L2, k # t, f[k] = r PROVE FALSE
      OBVIOUS
    <3>1. k \in request[r].gone
      BY <1>3, <2>3, <2>5
    <3>2. token'[k] = Deleted
      <4>1. k \in TokenIds /\ k # request[r].token
        BY <1>1, <2>2 DEF Links
      <4>2. QED
        BY <2>2, <3>1, <4>1 DEF Commit
    <3>3. QED
      BY <1>1, <3>2 DEF Deleted, Links, Live
  <2> DEFINE g == [k \in L2 |-> IF k = t THEN r ELSE f[k]]
  <2>7. g \in [L2 -> Requests] /\ \A k \in L2 : g[k] = IF k = t THEN r ELSE f[k]
    BY <2>5
  <2>8. \A k, j \in L2 : g[k] = g[j] => k = j
    BY <1>3, <2>5, <2>6, <2>7
  <2>9. \A k \in L2 : Deleting(g[k], u, purpose)' => k \in request'[g[k]].gone
    <3>1. ~Deleting(r, u, purpose)'
      BY <2>4 DEF Deleting
    <3>2. QED
      BY <1>4, <2>5, <2>7, <3>1
  <2> HIDE DEF g
  <2>10. QED
    BY <1>5, <2>7, <2>8, <2>9
<1>8. QED
  BY <1>6, <1>7

-----------------------------------------------------------------------------
LEMMA InitIInv == Init => IInv
<1> SUFFICES ASSUME Init PROVE IInv
  OBVIOUS
<1>1. TypeOK
  BY DEF Init, TypeOK, NoRow, Unused, Request
<1>2. /\ \A r \in Requests : request[r] = Idle
      /\ \A u \in UserIds : ~Account(u)
      /\ \A k \in TokenIds : ~Live(k)
      /\ used = {}
  BY DEF Init, Account, Live, Unused
<1>3. NormalEmails /\ RequestsSound /\ InsertsApart /\ TokensApart /\ LinksSound /\ UsedDeleted
        /\ OneAccountPerAddress /\ VerifiedByLink
  BY <1>2 DEF NormalEmails, RequestsSound, RegisterSound, MailSound, OpenSound, InsertsApart,
     TokensApart, LinksSound, LinkSound, UsedDeleted, OneAccountPerAddress, VerifiedByLink, Busy,
     Registering
<1>4. LinksInSlots
  <2> SUFFICES ASSUME NEW u \in UserIds, NEW purpose \in Purposes
               PROVE  \E f \in [Links(u, purpose) -> Requests] : Slots(f, u, purpose)
    BY DEF LinksInSlots
  <2>1. Links(u, purpose) = {}
    BY <1>2 DEF Links
  <2>2. [k \in {} |-> k] \in [{} -> Requests]
    OBVIOUS
  <2>3. Slots([k \in {} |-> k], u, purpose)
    BY <2>1, <2>2 DEF Slots, Injection, IsInjective
  <2>4. QED
    BY <2>1, <2>2, <2>3
<1>5. QED
  BY <1>1, <1>3, <1>4 DEF IInv

LEMMA IInvInductive == IInv /\ [Next]_vars => IInv'
<1> SUFFICES ASSUME IInv, [Next]_vars PROVE IInv'
  OBVIOUS
<1>1. TypeOK' /\ NormalEmails' /\ InsertsApart' /\ TokensApart' /\ LinksSound' /\ UsedDeleted'
  BY TypeInductive, NormalInductive, InsertsInductive, TokensInductive, LinksInductive,
     UsedInductive DEF IInv
<1>2. RequestsSound'
  BY RegisterInductive, MailInductive, OpenInductive DEF IInv, RequestsSound
<1>3. OneAccountPerAddress' /\ VerifiedByLink' /\ LinksInSlots'
  BY OneAccountInductive, VerifiedInductive, SlotsInductive DEF IInv
<1>4. QED
  BY <1>1, <1>2, <1>3 DEF IInv

LEMMA Invariant == Spec => []IInv
  BY InitIInv, IInvInductive, PTL DEF Spec

-----------------------------------------------------------------------------
(* Every reachable state is well typed: a request never writes a user or a *)
(* token that is not there.                                                *)
THEOREM TypeCorrect == Spec => []TypeOK
<1>1. IInv => TypeOK
  BY DEF IInv
<1>2. QED
  BY <1>1, Invariant, PTL

(* However many registrations and single sign-ons race, and however an     *)
(* address is typed, it has one account.                                   *)
THEOREM OneAccountTheorem == Spec => []OneAccountPerAddress
<1>1. IInv => OneAccountPerAddress
  BY DEF IInv
<1>2. QED
  BY <1>1, Invariant, PTL

(* A verified address is one whose owner has opened a link mailed to it.   *)
THEOREM VerifiedTheorem == Spec => []VerifiedByLink
<1>1. IInv => VerifiedByLink
  BY DEF IInv
<1>2. QED
  BY <1>1, Invariant, PTL

(* A link that somebody got through with is dead, for ever.                *)
THEOREM UsedTheorem == Spec => []UsedLinkIsDead
<1>1. IInv => UsedLinkIsDead
  BY DEF IInv, UsedDeleted, UsedLinkIsDead, Live
<1>2. QED
  BY <1>1, Invariant, PTL

(* The links that work, per user and purpose, are no more than the request *)
(* slots.                                                                  *)
THEOREM LinksTheorem == Spec => []LiveLinksBounded
<1>1. ASSUME IInv, NEW u \in UserIds, NEW purpose \in Purposes
      PROVE  Cardinality(Links(u, purpose)) <= Cardinality(Requests)
  <2>1. PICK f \in Injection(Links(u, purpose), Requests) : TRUE
    BY <1>1 DEF IInv, LinksInSlots, Slots
  <2>2. QED
    BY <2>1, RequestsAssumption, FS_Injection
<1>2. IInv => LiveLinksBounded
  BY <1>1 DEF LiveLinksBounded
<1>3. QED
  BY <1>2, Invariant, PTL

LEMMA PasswordStep ==
    ASSUME IInv, [Next]_vars, NEW u \in UserIds, Account(u), user'[u].password # user[u].password
    PROVE  \E r \in Requests :
             /\ request[r] # Idle /\ request'[r] = Idle /\ request[r].op = "open"
             /\ mail[request[r].token] = [to |-> user[u].email, purpose |-> "reset"]
<1>1. TypeOK /\ RequestsSound
  BY DEF IInv
<1>2. user[u] \in UserRow /\ user[u] # Unused /\ user[u] # Drawn
  BY <1>1, RowShape DEF Account, Unused, Drawn
<1>3. ASSUME NEW s, user'[u] = [user[u] EXCEPT !.sub = s] PROVE FALSE
  BY <1>2, <1>3 DEF UserRow
<1>4. PICK r \in Requests :
         /\ OpenWrite(r) /\ request[r] # Idle /\ request[r].op = "open"
         /\ request[r].user = u /\ user'[u] = Opened(user[u], request[r])
  BY <1>1, <1>2, <1>3, StepsOfUser
<1>5. request[r] \in OpenRequest
  BY <1>1, <1>4, RequestShape
<1>6. request[r].purpose = "reset"
  BY <1>2, <1>4, <1>5, OpenedRow
<1>7. mail[request[r].token] = [to |-> user[u].email, purpose |-> "reset"]
  BY <1>1, <1>4, <1>6 DEF RequestsSound, OpenSound, Busy, Mailed
<1>8. request'[r] = Idle
  BY <1>1, <1>4 DEF OpenWrite, Finish, TypeOK
<1>9. QED
  BY <1>4, <1>7, <1>8

(* A password changes by a reset link that went to the address of that     *)
(* account, whoever else asked for links or opened them meanwhile.         *)
THEOREM PasswordTheorem == Spec => PasswordChangedByLink
<1> DEFINE Step ==
      \A u \in UserIds : (Account(u) /\ user'[u].password # user[u].password) =>
          \E r \in Requests :
             /\ request[r] # Idle /\ request'[r] = Idle /\ request[r].op = "open"
             /\ mail[request[r].token] = [to |-> user[u].email, purpose |-> "reset"]
<1>1. IInv /\ [Next]_vars => [Step]_vars
  BY PasswordStep
<1>2. QED
  BY <1>1, Invariant, PTL DEF Spec, PasswordChangedByLink

=============================================================================
