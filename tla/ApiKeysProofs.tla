---------------------------- MODULE ApiKeysProofs ----------------------------
(***************************************************************************)
(* Proofs, for every set of users and keys, every cap and every finite set *)
(* of request slots, of the safety properties of ApiKeys.                  *)
(***************************************************************************)
EXTENDS ApiKeys, FiniteSetTheorems, TLAPS

(* Requests that have counted the keys of u and not yet inserted theirs.   *)
Inserting(u) == {r \in Requests : request[r] # Idle /\ request[r].op = "create"
                                                    /\ request[r].user = u}

(* Each of them may still add a key.                                       *)
Bounded(u) ==
    /\ IsFiniteSet(KeysOf(u))
    /\ \/ KeysOf(u) = {} /\ Inserting(u) = {}
       \/ Cardinality(KeysOf(u)) + Cardinality(Inserting(u)) < MaxKeys + Cardinality(Requests)

CapInv == \A u \in Users : Bounded(u)

IInv == TypeOK /\ CapInv

-----------------------------------------------------------------------------
LEMMA RequestShape ==
    ASSUME TypeOK, NEW r \in Requests, request[r] # Idle
    PROVE  /\ request[r].op = "create" => request[r] \in CreateRequest
           /\ request[r].op = "access" => request[r] \in AccessRequest
           /\ request[r].op \in {"create", "access"}
           /\ request[r].step = "insert" => request[r].op = "create"
           /\ request[r].step # "insert" => request[r].op = "access"
  BY DEF TypeOK, Request, CreateRequest, AccessRequest

LEMMA KeyShape ==
    ASSUME TypeOK, NEW k \in KeyIds
    PROVE  /\ key[k] # Unused => key[k] \in KeyRow
           /\ Live(k) => key[k] # Unused
  BY DEF TypeOK, Live, Unused

LEMMA InsertingFinite ==
    ASSUME NEW u \in Users
    PROVE  /\ IsFiniteSet(Inserting(u)) /\ Cardinality(Inserting(u)) \in Nat
           /\ Cardinality(Inserting(u)) <= Cardinality(Requests)
           /\ Cardinality(Requests) \in Nat
  BY RequestsAssumption, FS_Subset, FS_CardinalityType DEF Inserting

(* Fewer keys and fewer requests stay within the bound.                    *)
LEMMA BoundedShrinks ==
    ASSUME NEW u \in Users, Bounded(u),
           KeysOf(u)' \subseteq KeysOf(u), Inserting(u)' \subseteq Inserting(u)
    PROVE  Bounded(u)'
  <1>1. /\ IsFiniteSet(KeysOf(u)') /\ Cardinality(KeysOf(u)') <= Cardinality(KeysOf(u))
        /\ Cardinality(KeysOf(u)') \in Nat /\ Cardinality(KeysOf(u)) \in Nat
    BY FS_Subset, FS_CardinalityType DEF Bounded
  <1>2. /\ Cardinality(Inserting(u)') <= Cardinality(Inserting(u))
        /\ Cardinality(Inserting(u)') \in Nat /\ Cardinality(Inserting(u)) \in Nat
    BY InsertingFinite, FS_Subset, FS_CardinalityType
  <1>3. CASE KeysOf(u) = {} /\ Inserting(u) = {}
    BY <1>1, <1>3 DEF Bounded
  <1>4. CASE Cardinality(KeysOf(u)) + Cardinality(Inserting(u)) < MaxKeys + Cardinality(Requests)
    <2>1. Cardinality(Requests) \in Nat /\ MaxKeys \in Nat
      BY InsertingFinite, MaxKeysAssumption
    <2>2. Cardinality(KeysOf(u)') + Cardinality(Inserting(u)') < MaxKeys + Cardinality(Requests)
      BY <1>1, <1>2, <1>4, <2>1
    <2>. QED  BY <1>1, <2>2 DEF Bounded
  <1>. QED  BY <1>3, <1>4 DEF Bounded

-----------------------------------------------------------------------------
LEMMA InitInv == Init => IInv
  <1>. SUFFICES ASSUME Init PROVE IInv
    OBVIOUS
  <1>1. TypeOK
    BY DEF Init, TypeOK, Request
  <1>2. ASSUME NEW u \in Users PROVE KeysOf(u) = {} /\ Inserting(u) = {}
    BY DEF Init, KeysOf, Live, Unused, Inserting
  <1>3. CapInv
    BY <1>2, FS_EmptySet DEF CapInv, Bounded
  <1>. QED  BY <1>1, <1>3 DEF IInv

LEMMA TypePreserved ==
    ASSUME TypeOK, [Next]_vars
    PROVE  TypeOK'
  <1>1. ASSUME NEW u \in Users, NEW k \in KeyIds, Revoke(u, k) PROVE TypeOK'
    <2>1. key[k] \in KeyRow
      BY <1>1, KeyShape DEF Revoke, KeysOf
    <2>2. [key[k] EXCEPT !.state = "deleted"] \in KeyRow
      BY <2>1 DEF KeyRow
    <2>. QED  BY <1>1, <2>2 DEF Revoke, TypeOK
  <1>2. ASSUME NEW r \in Requests, CreateCount(r) PROVE TypeOK'
    BY <1>2 DEF CreateCount, Begin, TypeOK, Request, CreateRequest
  <1>3. ASSUME NEW r \in Requests, CreateInsert(r) PROVE TypeOK'
    <2>1. request[r].user \in Users
      BY <1>3, RequestShape DEF CreateInsert, AtStep, CreateRequest
    <2>. QED  BY <1>3, <2>1 DEF CreateInsert, Finish, TypeOK, KeyRow, Request
  <1>4. ASSUME NEW r \in Requests, AccessBegin(r) PROVE TypeOK'
    <2>1. PICK k \in KeyIds :
             /\ Live(k)
             /\ Begin(r, [op |-> "access", key |-> k, user |-> key[k].user, step |-> "touch"])
      BY <1>4 DEF AccessBegin
    <2>2. key[k].user \in Users
      BY <2>1, KeyShape DEF KeyRow
    <2>3. [op |-> "access", key |-> k, user |-> key[k].user, step |-> "touch"] \in AccessRequest
      BY <2>2 DEF AccessRequest
    <2>. QED  BY <1>4, <2>1, <2>3 DEF AccessBegin, Begin, TypeOK, Request
  <1>5. ASSUME NEW r \in Requests, AccessTouch(r) PROVE TypeOK'
    <2>1. request[r] \in AccessRequest
      BY <1>5, RequestShape DEF AccessTouch, AtStep
    <2>2. [request[r] EXCEPT !.step = "resolve"] \in Request
      BY <2>1 DEF AccessRequest, Request
    <2>3. PICK k \in KeyIds : k = request[r].key
      BY <2>1 DEF AccessRequest
    <2>4. Live(k) => [key[k] EXCEPT !.touched = TRUE] \in KeyRow
      BY KeyShape DEF KeyRow
    <2>5. key' \in [KeyIds -> KeyRow \cup {Unused}]
      BY <1>5, <2>3, <2>4 DEF AccessTouch, TypeOK
    <2>. QED  BY <1>5, <2>2, <2>5 DEF AccessTouch, Goto, TypeOK
  <1>6. ASSUME NEW r \in Requests, AccessResolve(r) PROVE TypeOK'
    <2>1. request[r] \in AccessRequest
      BY <1>6, RequestShape DEF AccessResolve, AtStep
    <2>2. PICK k \in KeyIds : k = request[r].key
      BY <2>1 DEF AccessRequest
    <2>3. Live(k) => [request[r] EXCEPT !.step = "served", !.user = key[k].user] \in Request
      BY <2>1, KeyShape DEF AccessRequest, Request, KeyRow
    <2>. QED  BY <1>6, <2>2, <2>3 DEF AccessResolve, Finish, TypeOK, Request
  <1>7. ASSUME NEW r \in Requests, AccessDone(r) \/ Rollback(r) PROVE TypeOK'
    BY <1>7 DEF AccessDone, Rollback, Finish, TypeOK, Request
  <1>8. ASSUME UNCHANGED vars PROVE TypeOK'
    BY <1>8 DEF vars, TypeOK
  <1>. QED  BY <1>1, <1>2, <1>3, <1>4, <1>5, <1>6, <1>7, <1>8 DEF Next

(* A step that only finishes r, or moves it on within its operation, and   *)
(* changes no key but its last_used_at, adds neither keys nor creations.   *)
LEMMA AccessAddsNothing ==
    ASSUME TypeOK, NEW r \in Requests, NEW u \in Users,
           AccessBegin(r) \/ AccessTouch(r) \/ AccessResolve(r) \/ AccessDone(r) \/ Rollback(r)
    PROVE  KeysOf(u)' \subseteq KeysOf(u) /\ Inserting(u)' \subseteq Inserting(u)
  <1>1. ASSUME NEW k \in KeyIds PROVE key'[k].state = key[k].state /\ key'[k].user = key[k].user
    <2>1. CASE AccessTouch(r)
      <3>1. request[r].key \in KeyIds
        BY <2>1, RequestShape DEF AccessTouch, AtStep, AccessRequest
      <3>2. Live(k) => key[k] \in KeyRow
        BY KeyShape
      <3>. QED  BY <2>1, <3>1, <3>2 DEF AccessTouch, TypeOK, KeyRow
    <2>2. CASE ~AccessTouch(r)
      BY <2>2 DEF AccessBegin, AccessResolve, AccessDone, Rollback
    <2>. QED  BY <2>1, <2>2
  <1>2. ASSUME NEW x \in Requests
        PROVE  request'[x] = request[x] \/ request'[x] = Idle \/ request'[x].op = "access"
    <2>1. request' = [request EXCEPT ![r] = request'[r]]
      BY DEF AccessBegin, AccessTouch, AccessResolve, AccessDone, Rollback, Begin, Goto, Finish,
             TypeOK
    <2>2. request'[r] = Idle \/ request'[r].op = "access"
      <3>1. CASE AccessBegin(r)
        BY <3>1 DEF AccessBegin, Begin, TypeOK
      <3>2. CASE AccessTouch(r)
        <4>1. request[r] \in AccessRequest
          BY <3>2, RequestShape DEF AccessTouch, AtStep
        <4>. QED  BY <3>2, <4>1 DEF AccessTouch, Goto, TypeOK, AccessRequest
      <3>3. CASE AccessResolve(r)
        <4>1. request[r] \in AccessRequest
          BY <3>3, RequestShape DEF AccessResolve, AtStep
        <4>. QED  BY <3>3, <4>1 DEF AccessResolve, Finish, TypeOK, AccessRequest
      <3>4. CASE AccessDone(r) \/ Rollback(r)
        BY <3>4 DEF AccessDone, Rollback, Finish, TypeOK
      <3>. QED  BY <3>1, <3>2, <3>3, <3>4
    <2>. QED  BY <2>1, <2>2 DEF TypeOK
  <1>3. KeysOf(u)' \subseteq KeysOf(u)
    BY <1>1 DEF KeysOf, Live
  <1>4. Inserting(u)' \subseteq Inserting(u)
    BY <1>2 DEF Inserting
  <1>. QED  BY <1>3, <1>4

-----------------------------------------------------------------------------
(* A request counts fewer keys than the cap, and with it at most all       *)
(* requests are creating.                                                  *)
LEMMA CountKeepsBound ==
    ASSUME TypeOK, CapInv, NEW r \in Requests, CreateCount(r)
    PROVE  CapInv'
  <1>1. PICK v \in Users :
           /\ Cardinality(KeysOf(v)) < MaxKeys
           /\ Begin(r, [op |-> "create", user |-> v, step |-> "insert"])
    BY DEF CreateCount
  <1>2. \A u \in Users : KeysOf(u)' = KeysOf(u)
    BY DEF CreateCount, KeysOf, Live
  <1>3. \A u \in Users \ {v} : Inserting(u)' \subseteq Inserting(u)
    BY <1>1 DEF Begin, Inserting, TypeOK
  <1>4. Bounded(v)'
    <2>1. /\ IsFiniteSet(KeysOf(v)) /\ Cardinality(KeysOf(v)) \in Nat
      BY FS_CardinalityType DEF CapInv, Bounded
    <2>2. Inserting(v)' \in SUBSET Requests
      BY DEF Inserting
    <2>3. /\ Cardinality(Inserting(v)') <= Cardinality(Requests)
          /\ Cardinality(Inserting(v)') \in Nat /\ Cardinality(Requests) \in Nat
      BY <2>2, RequestsAssumption, FS_Subset, FS_CardinalityType
    <2>4. Cardinality(KeysOf(v)') + Cardinality(Inserting(v)') < MaxKeys + Cardinality(Requests)
      BY <1>1, <1>2, <2>1, <2>3, MaxKeysAssumption
    <2>. QED  BY <1>2, <2>1, <2>4 DEF Bounded
  <1>5. \A u \in Users \ {v} : Bounded(u)'
    BY <1>2, <1>3, BoundedShrinks DEF CapInv
  <1>. QED  BY <1>4, <1>5 DEF CapInv

(* What a request adds as a key it takes from the creations in flight.     *)
LEMMA InsertKeepsBound ==
    ASSUME TypeOK, CapInv, NEW r \in Requests, CreateInsert(r)
    PROVE  CapInv'
  <1>1. request[r] \in CreateRequest
    BY RequestShape DEF CreateInsert, AtStep
  <1>2. PICK v \in Users : v = request[r].user
    BY <1>1 DEF CreateRequest
  <1>3. PICK k \in KeyIds :
           /\ key[k] = Unused
           /\ key' = [key EXCEPT ![k] = [state |-> "live", user |-> v, touched |-> FALSE]]
    BY <1>2 DEF CreateInsert
  <1>4. \A u \in Users \ {v} : KeysOf(u)' = KeysOf(u) /\ Inserting(u)' \subseteq Inserting(u)
    <2>1. \A u \in Users \ {v} : KeysOf(u)' = KeysOf(u)
      BY <1>3 DEF KeysOf, Live, TypeOK, Unused
    <2>2. \A u \in Users : Inserting(u)' \subseteq Inserting(u)
      BY DEF CreateInsert, Finish, Inserting, TypeOK
    <2>. QED  BY <2>1, <2>2
  <1>5. Bounded(v)'
    <2>1. KeysOf(v)' = KeysOf(v) \cup {k} /\ k \notin KeysOf(v)
      BY <1>3 DEF KeysOf, Live, TypeOK, Unused
    <2>2. Inserting(v)' = Inserting(v) \ {r} /\ r \in Inserting(v)
      BY <1>1, <1>2 DEF CreateInsert, AtStep, Finish, Inserting, TypeOK, CreateRequest
    <2>3. /\ IsFiniteSet(KeysOf(v)) /\ Cardinality(KeysOf(v)) \in Nat
          /\ IsFiniteSet(Inserting(v)) /\ Cardinality(Inserting(v)) \in Nat
      BY FS_CardinalityType, InsertingFinite DEF CapInv, Bounded
    <2>4. /\ IsFiniteSet(KeysOf(v)')
          /\ Cardinality(KeysOf(v)') = Cardinality(KeysOf(v)) + 1
          /\ Cardinality(Inserting(v)') = Cardinality(Inserting(v)) - 1
      <3>1. /\ IsFiniteSet(KeysOf(v) \cup {k})
            /\ Cardinality(KeysOf(v) \cup {k}) = Cardinality(KeysOf(v)) + 1
        BY <2>1, <2>3, FS_AddElement
      <3>2. Cardinality(Inserting(v) \ {r}) = Cardinality(Inserting(v)) - 1
        BY <2>2, <2>3, FS_RemoveElement
      <3>. QED  BY <3>1, <3>2, <2>1, <2>2
    <2>5. Cardinality(KeysOf(v)) + Cardinality(Inserting(v)) < MaxKeys + Cardinality(Requests)
      BY <2>2 DEF CapInv, Bounded
    <2>6. Cardinality(KeysOf(v)') + Cardinality(Inserting(v)') < MaxKeys + Cardinality(Requests)
      BY <2>3, <2>4, <2>5
    <2>. QED  BY <2>4, <2>6 DEF Bounded
  <1>6. \A u \in Users \ {v} : Bounded(u)'
    BY <1>4, BoundedShrinks DEF CapInv
  <1>. QED  BY <1>5, <1>6 DEF CapInv

LEMMA CapPreserved ==
    ASSUME TypeOK, CapInv, [Next]_vars
    PROVE  CapInv'
  <1>1. ASSUME NEW v \in Users, NEW k \in KeyIds, Revoke(v, k) PROVE CapInv'
    <2>1. \A u \in Users : KeysOf(u)' \subseteq KeysOf(u) /\ Inserting(u)' = Inserting(u)
      BY <1>1 DEF Revoke, KeysOf, Live, Inserting, TypeOK
    <2>. QED  BY <2>1, BoundedShrinks DEF CapInv
  <1>2. ASSUME NEW r \in Requests,
               \/ AccessBegin(r) \/ AccessTouch(r) \/ AccessResolve(r) \/ AccessDone(r)
               \/ Rollback(r)
        PROVE  CapInv'
    BY <1>2, AccessAddsNothing, BoundedShrinks DEF CapInv
  <1>3. ASSUME UNCHANGED vars PROVE CapInv'
    BY <1>3 DEF vars, CapInv, Bounded, KeysOf, Live, Inserting
  <1>. QED  BY <1>1, <1>2, <1>3, CountKeepsBound, InsertKeepsBound DEF Next

(* The inductive invariant.                                                *)
THEOREM Invariant == Spec => []IInv
  <1>1. IInv /\ [Next]_vars => IInv'
    BY TypePreserved, CapPreserved DEF IInv
  <1>. QED  BY InitInv, <1>1, PTL DEF Spec

(* Every reachable state is well typed.                                    *)
THEOREM TypeCorrect == Spec => []TypeOK
  BY Invariant, PTL DEF IInv

(* The cap of ApiKeyDao.create is exceeded by fewer keys than there are    *)
(* requests at a time, whatever the cap and however requests interleave.   *)
THEOREM CapTheorem == Spec => []CapExceededByRacesOnly
  <1>1. IInv => CapExceededByRacesOnly
    <2>. SUFFICES ASSUME CapInv, NEW u \in Users, KeysOf(u) # {}
                  PROVE  Cardinality(KeysOf(u)) < MaxKeys + Cardinality(Requests)
      BY DEF IInv, CapExceededByRacesOnly
    <2>1. /\ Cardinality(KeysOf(u)) \in Nat /\ Cardinality(Inserting(u)) \in Nat
          /\ Cardinality(Requests) \in Nat /\ MaxKeys \in Nat
      BY FS_CardinalityType, InsertingFinite, MaxKeysAssumption DEF CapInv, Bounded
    <2>2. Cardinality(KeysOf(u)) + Cardinality(Inserting(u)) < MaxKeys + Cardinality(Requests)
      BY DEF CapInv, Bounded
    <2>. QED  BY <2>1, <2>2
  <1>. QED  BY Invariant, <1>1, PTL

(* A call that starts has a key that exists at that moment, also when the  *)
(* key was revoked between its two lookups.                                *)
THEOREM RevokedKeyTheorem == Spec => RevokedKeyServesNobody
  <1>1. TypeOK /\ [Next]_vars =>
           [\A r \in Requests :
              (request'[r] # Idle /\ request'[r] # request[r] /\ request'[r].step = "served")
                 => /\ Live(request'[r].key)
                    /\ request'[r].user = key[request'[r].key].user]_vars
    <2>. SUFFICES ASSUME TypeOK, Next, NEW r \in Requests, request'[r] # Idle,
                         request'[r] # request[r], request'[r].step = "served"
                  PROVE  Live(request'[r].key) /\ request'[r].user = key[request'[r].key].user
      OBVIOUS
    <2>1. AccessResolve(r)
      <3>1. PICK x \in Requests :
               \/ CreateCount(x) \/ CreateInsert(x) \/ AccessBegin(x) \/ AccessTouch(x)
               \/ AccessResolve(x) \/ AccessDone(x) \/ Rollback(x)
        BY DEF Next, Revoke
      <3>2. x = r
        BY <3>1 DEF CreateCount, CreateInsert, AccessBegin, AccessTouch, AccessResolve,
                    AccessDone, Rollback, Begin, Goto, Finish, TypeOK
      <3>3. ~(CreateCount(r) \/ CreateInsert(r) \/ AccessBegin(r) \/ AccessDone(r) \/ Rollback(r))
        BY DEF CreateCount, CreateInsert, AccessBegin, AccessDone, Rollback, Begin, Finish, TypeOK
      <3>4. ~AccessTouch(r)
        <4>1. SUFFICES ASSUME AccessTouch(r) PROVE FALSE
          OBVIOUS
        <4>2. request[r] \in AccessRequest
          BY <4>1, RequestShape DEF AccessTouch, AtStep
        <4>. QED  BY <4>1, <4>2 DEF AccessTouch, Goto, TypeOK, AccessRequest
      <3>. QED  BY <3>1, <3>2, <3>3, <3>4
    <2>2. request[r] \in AccessRequest
      BY <2>1, RequestShape DEF AccessResolve, AtStep
    <2>3. Live(request[r].key)
      BY <2>1 DEF AccessResolve, Finish, TypeOK
    <2>. QED  BY <2>1, <2>2, <2>3 DEF AccessResolve, TypeOK, AccessRequest
  <1>. QED  BY TypeCorrect, <1>1, PTL DEF Spec, RevokedKeyServesNobody
=============================================================================
