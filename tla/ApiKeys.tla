------------------------------- MODULE ApiKeys -------------------------------
(***************************************************************************)
(* API keys of memlord: dao/api_key.py, the settings page that calls it,   *)
(* and the two lookups of a key when a tool is called: load_access_token   *)
(* (oauth.py) in a transaction of its own, then _current_user_gen (auth.py)*)
(* in the transaction of the tool.                                         *)
(*                                                                         *)
(* As in Workspaces, a SELECT is an action, and the writes of a request    *)
(* are one action with its commit.  A key is deleted by one statement.     *)
(* Requests that are refused at once are left out.                         *)
(***************************************************************************)
EXTENDS FiniteSets, Integers

CONSTANTS
    Users, KeyIds, Requests,
    MaxKeys   \* MAX_KEYS_PER_USER

ASSUME MaxKeysAssumption == MaxKeys \in Nat
ASSUME RequestsAssumption == IsFiniteSet(Requests)   \* a connection pool

VARIABLES
    key,      \* [KeyIds -> row of api_keys, or none]
    request   \* [Requests -> request in flight, or Idle]

vars == <<key, request>>

Unused == [state |-> "unused"]
KeyRow == [state: {"live", "deleted"}, user: Users, touched: BOOLEAN]

Live(k) == key[k].state = "live"
KeysOf(u) == {k \in KeyIds : Live(k) /\ key[k].user = u}

Idle == [op |-> "idle"]
CreateRequest == [op: {"create"}, user: Users, step: {"insert"}]
AccessRequest == [op: {"access"}, key: KeyIds, user: Users,
                  step: {"touch", "resolve", "served"}]
Request == CreateRequest \cup AccessRequest \cup {Idle}

Begin(r, q) == request[r] = Idle /\ request' = [request EXCEPT ![r] = q]
Goto(r, step) == request' = [request EXCEPT ![r].step = step]
Finish(r) == request' = [request EXCEPT ![r] = Idle]
AtStep(r, step) == request[r] # Idle /\ request[r].step = step

Init ==
    /\ key = [k \in KeyIds |-> Unused]
    /\ request = [r \in Requests |-> Idle]

-----------------------------------------------------------------------------
(* Mutant: count > MAX_KEYS_PER_USER raises.                               *)
CreateCountOneMore(r) == \E u \in Users :
    /\ Cardinality(KeysOf(u)) <= MaxKeys
    /\ Begin(r, [op |-> "create", user |-> u, step |-> "insert"])
    /\ UNCHANGED key

(* ApiKeyDao.create: the keys are counted, then one is inserted.           *)
CreateCount(r) == \E u \in Users :
    /\ Cardinality(KeysOf(u)) < MaxKeys
    /\ Begin(r, [op |-> "create", user |-> u, step |-> "insert"])
    /\ UNCHANGED key

CreateInsert(r) == \E k \in KeyIds :
    /\ AtStep(r, "insert")
    /\ key[k] = Unused
    /\ key' = [key EXCEPT ![k] = [state |-> "live", user |-> request[r].user, touched |-> FALSE]]
    /\ Finish(r)

(* DELETE ... WHERE id = k AND user_id = u, from the settings page of u.   *)
Revoke(u, k) ==
    /\ k \in KeysOf(u)
    /\ key' = [key EXCEPT ![k].state = "deleted"]
    /\ UNCHANGED request

(* validate_key found the hash.                                            *)
AccessBegin(r) == \E k \in KeyIds :
    /\ Live(k)
    /\ Begin(r, [op |-> "access", key |-> k, user |-> key[k].user, step |-> "touch"])
    /\ UNCHANGED key

(* Mutant: last_used_at is all that the UPDATE leaves of the row.          *)
AccessTouchBlind(r) ==
    /\ AtStep(r, "touch")
    /\ key' = [key EXCEPT ![request[r].key] = [touched |-> TRUE]]
    /\ Goto(r, "resolve")

(* touch_last_used, and the end of that transaction.                       *)
AccessTouch(r) ==
    /\ AtStep(r, "touch")
    /\ key' = IF Live(request[r].key) THEN [key EXCEPT ![request[r].key].touched = TRUE]
              ELSE key
    /\ Goto(r, "resolve")

(* Mutant: the user that validate_key returned is trusted.                 *)
AccessResolveCached(r) ==
    /\ AtStep(r, "resolve")
    /\ Goto(r, "served")
    /\ UNCHANGED key

(* _current_user_gen looks the key up again: "API key not found".          *)
AccessResolve(r) ==
    /\ AtStep(r, "resolve")
    /\ LET k == request[r].key IN
       IF Live(k)
         THEN request' = [request EXCEPT ![r].step = "served", ![r].user = key[k].user]
         ELSE Finish(r)
    /\ UNCHANGED key

AccessDone(r) ==
    /\ AtStep(r, "served")
    /\ Finish(r)
    /\ UNCHANGED key

Rollback(r) ==
    /\ request[r] # Idle
    /\ Finish(r)
    /\ UNCHANGED key

Next ==
    \/ \E u \in Users, k \in KeyIds : Revoke(u, k)
    \/ \E r \in Requests :
          \/ CreateCount(r) \/ CreateInsert(r)
          \/ AccessBegin(r) \/ AccessTouch(r) \/ AccessResolve(r) \/ AccessDone(r)
          \/ Rollback(r)

Spec == Init /\ [][Next]_vars

-----------------------------------------------------------------------------
(* Properties *)

TypeOK ==
    /\ key \in [KeyIds -> KeyRow \cup {Unused}]
    /\ request \in [Requests -> Request]

(* Requests that count at the same time do not see each other's keys, so   *)
(* the cap of create can be exceeded, but only by as many as there are     *)
(* other requests at a time; with one at a time it is exact.               *)
CapExceededByRacesOnly ==
    \A u \in Users :
        KeysOf(u) # {} => Cardinality(KeysOf(u)) < MaxKeys + Cardinality(Requests)

(* A tool call starts with a key only while the key exists, also when the  *)
(* key is revoked between the two lookups, and as the user whose key it is.*)
RevokedKeyServesNobody ==
    [][\A r \in Requests :
          (request'[r] # Idle /\ request'[r] # request[r] /\ request'[r].step = "served")
             => /\ Live(request'[r].key)
                /\ request'[r].user = key[request'[r].key].user]_vars
=============================================================================
