------------------------------ MODULE Accounts ------------------------------
(***************************************************************************)
(* Accounts of memlord: registration (ui/login.py, and the registration    *)
(* form of oauth.py), single sign-on (sso.py), and the links that are      *)
(* mailed to verify an address or to reset a password                      *)
(* (dao/email_token.py).                                                   *)
(*                                                                         *)
(* As in Workspaces, a SELECT is an action and the writes of a request are *)
(* one action with its commit.  The requests that mail a link are the      *)
(* exception: they send the mail between their writes and their commit, so *)
(* a DELETE has a step for its snapshot and one at which it holds its row  *)
(* locks, an INSERT claims its address until the transaction ends, and     *)
(* ids that were drawn stay drawn when it is rolled back.                  *)
(*                                                                         *)
(* The variable used is history.  Login and the session cookie change no   *)
(* state; requests that are refused at once are left out.                  *)
(***************************************************************************)
EXTENDS FiniteSets, Naturals

CONSTANTS
    UserIds, TokenIds, Requests,
    Emails,        \* addresses as people type them
    Normal,        \* Normal[e] is e.strip().lower()
    Passwords, Subs,
    NoPassword, NoSub, NoUser, NoToken,   \* NULL
    AutoRegister   \* settings.azure_auto_register

ASSUME NormalAssumption ==
    /\ Normal \in [Emails -> Emails]
    /\ \A e \in Emails : Normal[Normal[e]] = Normal[e]
ASSUME NullAssumption ==
    /\ NoPassword \notin Passwords /\ NoSub \notin Subs
    /\ NoUser \notin UserIds /\ NoToken \notin TokenIds
ASSUME SettingAssumption == AutoRegister \in BOOLEAN
ASSUME RequestsAssumption == IsFiniteSet(Requests)

VARIABLES
    user,      \* [UserIds -> row, or none]
    token,     \* [TokenIds -> row of email_tokens, or none]
    mail,      \* [TokenIds -> the mail with this token, or NoMail]
    request,   \* [Requests -> request in flight, or Idle]
    used       \* tokens with which somebody got through

vars == <<user, token, mail, request, used>>

Purposes == {"verify", "reset"}

Unused == [state |-> "unused"]
Drawn == [state |-> "drawn"]       \* the id is spent, the row not committed
Deleted == [state |-> "deleted"]
NoRow == [state: {"unused", "drawn", "deleted"}]

UserRow == [state: {"live"}, email: Emails, password: Passwords \cup {NoPassword},
            verified: BOOLEAN, sub: Subs \cup {NoSub}]
TokenRow == [state: {"live"}, user: UserIds, purpose: Purposes, expired: BOOLEAN]
NoMail == [to |-> "nobody"]
Mail == [to: Emails, purpose: Purposes]

Account(u) == user[u].state = "live"
Live(k) == token[k].state = "live"
Links(u, purpose) == {k \in TokenIds : Live(k) /\ token[k].user = u /\ token[k].purpose = purpose}

-----------------------------------------------------------------------------
Idle == [op |-> "idle"]

(* A request that mails a link.                                            *)
MailRequest == [op: {"register", "link"}, email: Emails, password: Passwords \cup {NoPassword},
                user: UserIds \cup {NoUser}, purpose: Purposes,
                gone: SUBSET TokenIds, token: TokenIds \cup {NoToken},
                step: {"insert", "delete", "lock", "mail", "commit"}]
OpenRequest == [op: {"open"}, token: TokenIds, purpose: Purposes, user: UserIds,
                password: Passwords \cup {NoPassword}, step: {"write"}]
SsoRequest == [op: {"sso"}, email: Emails, sub: Subs, user: UserIds \cup {NoUser},
               step: {"link", "create"}]
Request == MailRequest \cup OpenRequest \cup SsoRequest \cup {Idle}

Begin(r, q) == request[r] = Idle /\ request' = [request EXCEPT ![r] = q]
Goto(r, step) == request' = [request EXCEPT ![r].step = step]
Finish(r) == request' = [request EXCEPT ![r] = Idle]
Mailing(r) == request[r].op \in {"register", "link"}
AtStep(r, step) == request[r] # Idle /\ request[r].step = step

(* The UPDATEs and DELETEs that r has executed and not committed lock rows,*)
(* and its INSERT of a user makes others wait at the unique address.       *)
Locks(r) == IF Mailing(r) /\ request[r].step \in {"mail", "commit"} THEN request[r].gone ELSE {}
Claims(r, e) == /\ request[r].op = "register" /\ request[r].user # NoUser
                /\ request[r].email = e
LockedByOther(r, k) == \E x \in Requests \ {r} : k \in Locks(x) /\ Live(k)
ClaimedByOther(r, e) == \E x \in Requests \ {r} : Claims(x, e)

HasEmail(u, e) == Account(u) /\ user[u].email = e
EmailTaken(e) == \E u \in UserIds : HasEmail(u, e)
SubTaken(s, u) == \E v \in UserIds \ {u} : Account(v) /\ user[v].sub = s

(* Mutant: two columns are swapped.                                        *)
NewAccountSwapped(e, p, s) ==
    [state |-> "live", email |-> e, password |-> s, verified |-> FALSE, sub |-> p]

NewAccount(e, p, s) ==
    [state |-> "live", email |-> e, password |-> p, verified |-> FALSE, sub |-> s]

Init ==
    /\ user = [u \in UserIds |-> Unused]
    /\ token = [k \in TokenIds |-> Unused]
    /\ mail = [k \in TokenIds |-> NoMail]
    /\ request = [r \in Requests |-> Idle]
    /\ used = {}

-----------------------------------------------------------------------------
(* Requests that mail a link                                               *)

RegisterRequest(e, p) ==
    [op |-> "register", email |-> e, password |-> p, user |-> NoUser,
     purpose |-> "verify", gone |-> {}, token |-> NoToken, step |-> "insert"]

(* Mutant: exists_by_email normalises the address, create does not.        *)
RegisterBeginAsTyped(r) == \E e \in Emails, p \in Passwords :
    /\ ~EmailTaken(Normal[e])
    /\ Begin(r, RegisterRequest(e, p))
    /\ UNCHANGED <<user, token, mail, used>>

(* exists_by_email found nobody.                                           *)
RegisterBegin(r) == \E e \in Emails, p \in Passwords :
    /\ ~EmailTaken(Normal[e])
    /\ Begin(r, RegisterRequest(Normal[e], p))
    /\ UNCHANGED <<user, token, mail, used>>

(* UserDao.create up to the commit.  The unique address decides.  The form *)
(* of oauth.py, or one without an SMTP server, mails no link.              *)
RegisterInsert(r) ==
    /\ AtStep(r, "insert")
    /\ LET q == request[r] IN
       /\ ~ClaimedByOther(r, q.email)
       /\ IF EmailTaken(q.email)
            THEN Finish(r) /\ UNCHANGED user
            ELSE \E u \in UserIds, next \in {"delete", "commit"} :
                    /\ user[u] = Unused
                    /\ user' = [user EXCEPT ![u] = Drawn]
                    /\ request' = [request EXCEPT ![r].user = u, ![r].step = next]
    /\ UNCHANGED <<token, mail, used>>

LinkRequest(u, to, purpose) ==
    [op |-> "link", email |-> to, password |-> NoPassword, user |-> u,
     purpose |-> purpose, gone |-> {}, token |-> NoToken, step |-> "delete"]

ResendBegin(r) == \E u \in UserIds :
    /\ Account(u) /\ ~user[u].verified
    /\ Begin(r, LinkRequest(u, user[u].email, "verify"))
    /\ UNCHANGED <<user, token, mail, used>>

(* Mutant: the mail goes to the address as it was typed.                   *)
ForgotBeginAsTyped(r) == \E e \in Emails, u \in UserIds :
    /\ HasEmail(u, Normal[e])
    /\ Begin(r, LinkRequest(u, e, "reset"))
    /\ UNCHANGED <<user, token, mail, used>>

ForgotBegin(r) == \E e \in Emails, u \in UserIds :
    /\ HasEmail(u, Normal[e])
    /\ Begin(r, LinkRequest(u, Normal[e], "reset"))
    /\ UNCHANGED <<user, token, mail, used>>

(* Mutant: the earlier links are kept.                                     *)
TokenDeleteNothing(r) ==
    /\ AtStep(r, "delete")
    /\ Goto(r, "lock")
    /\ UNCHANGED <<user, token, mail, used>>

(* EmailTokenDao.create: the DELETE sees what is committed when it starts. *)
TokenDelete(r) ==
    /\ AtStep(r, "delete")
    /\ request' = [request EXCEPT ![r].gone = Links(request[r].user, request[r].purpose),
                                  ![r].step = "lock"]
    /\ UNCHANGED <<user, token, mail, used>>

(* It waits for the rows that others are deleting, and the INSERT follows. *)
TokenInsert(r) == \E k \in TokenIds :
    /\ AtStep(r, "lock")
    /\ \A x \in request[r].gone : ~LockedByOther(r, x)
    /\ token[k] = Unused
    /\ token' = [token EXCEPT ![k] = Drawn]
    /\ request' = [request EXCEPT ![r].token = k, ![r].step = "mail"]
    /\ UNCHANGED <<user, mail, used>>

(* send_email, before the commit.                                          *)
SendMail(r) ==
    /\ AtStep(r, "mail")
    /\ LET q == request[r] IN
       mail' = [mail EXCEPT ![q.token] =
                  [to |-> q.email, purpose |-> q.purpose]]
    /\ Goto(r, "commit")
    /\ UNCHANGED <<user, token, used>>

Commit(r) ==
    /\ AtStep(r, "commit")
    /\ LET q == request[r] IN
       /\ user' = IF q.op = "register"
                    THEN [user EXCEPT ![q.user] = NewAccount(q.email, q.password, NoSub)]
                    ELSE user
       /\ token' = [k \in TokenIds |->
             IF k = q.token THEN [state |-> "live", user |-> q.user, purpose |-> q.purpose,
                                  expired |-> FALSE]
             ELSE IF k \in q.gone THEN Deleted
             ELSE token[k]]
    /\ Finish(r)
    /\ UNCHANGED <<mail, used>>

-----------------------------------------------------------------------------
(* The pages the links lead to                                             *)

OpenRecord(k, page, p) ==
    [op |-> "open", token |-> k, purpose |-> page, user |-> token[k].user,
     password |-> IF page = "reset" THEN p ELSE NoPassword, step |-> "write"]

(* Mutant: any token opens any page.                                       *)
OpenAnyLink(r) == \E k \in TokenIds, page \in Purposes, p \in Passwords :
    /\ Live(k) /\ mail[k] # NoMail
    /\ ~token[k].expired
    /\ Begin(r, OpenRecord(k, page, p))
    /\ UNCHANGED <<user, token, mail, used>>

(* EmailTokenDao.consume reads the token: right page, not expired.         *)
OpenLink(r) == \E k \in TokenIds, page \in Purposes, p \in Passwords :
    /\ Live(k) /\ mail[k] # NoMail
    /\ token[k].purpose = page
    /\ ~token[k].expired
    /\ Begin(r, OpenRecord(k, page, p))
    /\ UNCHANGED <<user, token, mail, used>>

Opened(row, q) == IF q.purpose = "verify" THEN [row EXCEPT !.verified = TRUE]
                                          ELSE [row EXCEPT !.password = q.password]

(* Mutant: the token is not deleted.                                       *)
OpenWriteKeeps(r) ==
    /\ AtStep(r, "write")
    /\ user' = [user EXCEPT ![request[r].user] = Opened(@, request[r])]
    /\ used' = used \cup {request[r].token}
    /\ Finish(r)
    /\ UNCHANGED <<token, mail>>

(* Then it deletes it, with no look at how many rows that were, and the    *)
(* page writes the user.                                                   *)
OpenWrite(r) ==
    /\ AtStep(r, "write")
    /\ LET q == request[r] IN
       /\ ~LockedByOther(r, q.token)
       /\ token' = [token EXCEPT ![q.token] = Deleted]
       /\ user' = [user EXCEPT ![q.user] = Opened(@, q)]
       /\ used' = used \cup {q.token}
    /\ Finish(r)
    /\ UNCHANGED mail

-----------------------------------------------------------------------------
(* Single sign-on: get_or_create_by_email_for_sso                          *)

SsoRecord(e, s, u, step) == [op |-> "sso", email |-> e, sub |-> s, user |-> u, step |-> step]

SsoBegin(r) == \E e \in Emails, s \in Subs :
    /\ \/ \E u \in UserIds :
             /\ HasEmail(u, Normal[e]) /\ user[u].sub = NoSub
             /\ Begin(r, SsoRecord(Normal[e], s, u, "link"))
       \/ /\ AutoRegister
          /\ ~EmailTaken(Normal[e])
          /\ Begin(r, SsoRecord(Normal[e], s, NoUser, "create"))
    /\ UNCHANGED <<user, token, mail, used>>

(* UPDATE ... WHERE id; azure_sub is unique.                               *)
SsoLink(r) ==
    /\ AtStep(r, "link")
    /\ LET q == request[r] IN
       user' = IF SubTaken(q.sub, q.user) THEN user
               ELSE [user EXCEPT ![q.user].sub = q.sub]
    /\ Finish(r)
    /\ UNCHANGED <<token, mail, used>>

SsoCreate(r) ==
    /\ AtStep(r, "create")
    /\ LET q == request[r] IN
       /\ ~ClaimedByOther(r, q.email)
       /\ IF EmailTaken(q.email) \/ SubTaken(q.sub, NoUser)
            THEN UNCHANGED user
            ELSE \E u \in UserIds :
                    /\ user[u] = Unused
                    /\ user' = [user EXCEPT ![u] = NewAccount(q.email, NoPassword, q.sub)]
    /\ Finish(r)
    /\ UNCHANGED <<token, mail, used>>

-----------------------------------------------------------------------------
(* The mail server, the database or the process fails before the commit.   *)
Rollback(r) ==
    /\ request[r] # Idle
    /\ Finish(r)
    /\ UNCHANGED <<user, token, mail, used>>

ExpireToken(k) ==
    /\ Live(k) /\ ~token[k].expired
    /\ token' = [token EXCEPT ![k].expired = TRUE]
    /\ UNCHANGED <<user, mail, request, used>>

Next ==
    \/ \E k \in TokenIds : ExpireToken(k)
    \/ \E r \in Requests :
          \/ RegisterBegin(r) \/ RegisterInsert(r)
          \/ ResendBegin(r) \/ ForgotBegin(r)
          \/ TokenDelete(r) \/ TokenInsert(r) \/ SendMail(r) \/ Commit(r)
          \/ OpenLink(r) \/ OpenWrite(r)
          \/ SsoBegin(r) \/ SsoLink(r) \/ SsoCreate(r)
          \/ Rollback(r)

Spec == Init /\ [][Next]_vars
-----------------------------------------------------------------------------
(* Properties *)

TypeOK ==
    /\ user \in [UserIds -> UserRow \cup NoRow]
    /\ token \in [TokenIds -> TokenRow \cup NoRow]
    /\ mail \in [TokenIds -> Mail \cup {NoMail}]
    /\ request \in [Requests -> Request]
    /\ used \subseteq TokenIds

(* A mail address has one account, however it is typed and whichever of    *)
(* registration and single sign-on comes first or at the same time.        *)
OneAccountPerAddress ==
    \A u, v \in UserIds :
        (Account(u) /\ Account(v) /\ Normal[user[u].email] = Normal[user[v].email]) => u = v

(* An address counts as verified only after somebody opened a verification *)
(* link that was mailed to it (verify_email).                              *)
VerifiedByLink ==
    \A u \in UserIds : (Account(u) /\ user[u].verified) =>
        \E k \in used : mail[k] = [to |-> user[u].email, purpose |-> "verify"]

(* A password changes only by a reset link that was mailed to the address  *)
(* of that account (reset_password_post).                                  *)
PasswordChangedByLink ==
    [][\A u \in UserIds : (Account(u) /\ user'[u].password # user[u].password) =>
          \E r \in Requests :
             /\ request[r] # Idle /\ request'[r] = Idle /\ request[r].op = "open"
             /\ mail[request[r].token] = [to |-> user[u].email, purpose |-> "reset"]]_vars

(* A link that somebody got through with admits no later request (consume).*)
UsedLinkIsDead == \A k \in used : ~Live(k)

(* EmailTokenDao.create promises one token per user and purpose.  Requests *)
(* at the same time do not see each other's, but no more stay than there   *)
(* are requests at a time: each deletes what was committed before it.      *)
LiveLinksBounded ==
    \A u \in UserIds, purpose \in Purposes :
        Cardinality(Links(u, purpose)) <= Cardinality(Requests)

=============================================================================
