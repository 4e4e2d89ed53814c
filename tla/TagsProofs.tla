------------------------------ MODULE TagsProofs ------------------------------
(***************************************************************************)
(* Proofs, for every set of memories, tags and request slots, of the       *)
(* safety properties of Tags.                                              *)
(***************************************************************************)
EXTENDS Tags, SequenceLemmas

-----------------------------------------------------------------------------
(* The inductive invariant                                                 *)

FiniteTags ==
    IsFiniteSet(tag) /\ \A r \in Requests : Active(r) => IsFiniteSet(request[r].newTags)

(* What a request has done by the step it is at.                           *)
StepSound(r) ==
    LET q == request[r] IN
    /\ q.op = "store" => q.step \in {"insert", "select", "attach", "commit"}
    /\ q.op = "delete" => q.step \notin {"insert", "select", "attach"} /\ q.asked = {}
    /\ q.step \in {"insert", "select", "attach"} => q.todo # <<>>
    /\ q.step = "attach" /\ q.tag # NoTag => q.tag.name = Head(q.todo)
    /\ q.step \in {"snapshot", "delete", "cascade", "commit"} => q.todo = <<>>
    /\ q.step \in {"lock", "cut"} => q.newPairs = {} /\ q.oldPairs = {}
    /\ q.step = "delete" => q.orphans # <<>>
    /\ (q.op = "store" \/ q.step \notin {"delete", "cascade", "commit"}) =>
          q.orphans = <<>> /\ q.oldTags = {}

(* The tags attached so far and those still to come are the ones asked for.*)
AskedSound(r) ==
    LET q == request[r] IN {p.tag.name : p \in q.newPairs} \cup ToSet(q.todo) = q.asked

(* The pairs a request has inserted are of its memory, which is there, and *)
(* of tags that are there and that it does not clean up itself.            *)
NewPairsSound(r) ==
    LET q == request[r] IN
    /\ \A p \in q.newPairs : /\ p.memory = q.id /\ p.tag \in SeenTags(q)
                             /\ p.tag \notin ToSet(q.orphans) \cup q.oldTags
    /\ (q.op = "replace" /\ q.newPairs # {}) => q.id \in memory

(* Those that it replaces are all that the memory has, and those of a tag  *)
(* that it deletes go with the tag.                                        *)
CutSound(r) ==
    LET q == request[r] IN
    (q.op # "store" /\ q.step \notin {"lock", "cut"}) => PairsOf(pair, q.id) \subseteq q.oldPairs

CascadeSound(r) ==
    LET q == request[r] IN
    q.step = "commit" => \A p \in pair : p.tag \in q.oldTags => p \in q.oldPairs

RequestsSound ==
    \A r \in Requests : Active(r) =>
        StepSound(r) /\ AskedSound(r) /\ NewPairsSound(r) /\ CutSound(r) /\ CascadeSound(r)

(* The lock on the row of a memory: of two requests that are past it, both *)
(* found no row.  The id of a store is its own.                            *)
Past(r) == Active(r) /\ request[r].op # "store" /\ request[r].step # "lock"

LocksSound ==
    /\ \A r \in Requests : (Active(r) /\ request[r].op = "store") => request[r].id \notin memory
    /\ \A r, x \in Requests :
          (r # x /\ Active(r) /\ Active(x) /\ request[r].id = request[x].id) =>
              /\ request[r].op # "store"
              /\ Past(r) /\ Past(x) => request[r].id \notin memory

(* The locks on the rows of tags: nobody deletes what another attaches.    *)
TagsApart ==
    \A r, x \in Requests : (r # x /\ Active(r) /\ Active(x)) =>
        \A p \in request[r].newPairs : p.tag \notin request[x].oldTags

IInv == TypeOK /\ FiniteTags /\ RequestsSound /\ LocksSound /\ TagsApart /\ NoDanglingPairs

-----------------------------------------------------------------------------
(* What a step of a request does to its record                             *)

LEMMA RequestShape ==
    ASSUME TypeOK, NEW r \in Requests, Active(r)
    PROVE  request[r] \in Request
  BY DEF TypeOK, Active

LEMMA ActiveRecord == \A q \in Request : q # Idle
  BY DEF Request, Idle

LEMMA OrderShape ==
    ASSUME NEW order \in Orders
    PROVE  order \in Seq(Names) /\ ToSet(order) \subseteq Names
<1>1. PICK S \in SUBSET Names : IsFiniteSet(S) /\ order \in SetToSeqs(S)
  BY OrdersAssumption
<1>2. order \in Seq(S)
  BY <1>1, OrderOfSet
<1>3. order \in Seq(Names)
  BY <1>2, SeqMonotonic
<1>4. QED
  BY <1>3, ToSetShape

LEMMA StartedShape ==
    ASSUME NEW o \in {"store", "replace", "delete"}, NEW m \in MemIds, NEW order \in Seq(Names),
           NEW step \in {"lock", "insert"}
    PROVE  Started(o, m, order, step) \in Request
<1>1. ToSet(order) \subseteq Names /\ <<>> \in Seq(TagRow)
  BY ToSetShape, EmptySeq
<1>2. QED
  BY <1>1 DEF Started, Request

LEMMA UpsertingShape ==
    ASSUME NEW q \in Request
    PROVE  /\ Upserting(q) \in Request
           /\ Upserting(q).op = q.op /\ Upserting(q).id = q.id /\ Upserting(q).asked = q.asked
           /\ Upserting(q).todo = q.todo /\ Upserting(q).tag = q.tag
           /\ Upserting(q).orphans = q.orphans
           /\ Upserting(q).newTags = q.newTags /\ Upserting(q).oldTags = q.oldTags
           /\ Upserting(q).newPairs = q.newPairs /\ Upserting(q).oldPairs = q.oldPairs
           /\ q.todo # <<>> => Upserting(q).step = "insert"
           /\ (q.todo = <<>> /\ q.op = "replace") => Upserting(q).step = "snapshot"
           /\ (q.todo = <<>> /\ q.op # "replace") => Upserting(q).step = "commit"
<1>1. PICK s \in {"insert", "snapshot", "commit"} :
         /\ Upserting(q) = [q EXCEPT !.step = s]
         /\ q.todo # <<>> => s = "insert"
         /\ (q.todo = <<>> /\ q.op = "replace") => s = "snapshot"
         /\ (q.todo = <<>> /\ q.op # "replace") => s = "commit"
  BY DEF Upserting
<1>2. [q EXCEPT !.step = s] \in Request /\ [q EXCEPT !.step = s].step = s
  BY DEF Request
<1>3. QED
  BY <1>1, <1>2 DEF Request

LEMMA LockMoves ==
    ASSUME TypeOK, NEW r \in Requests, LockMemory(r), request'[r] # Idle
    PROVE  LET q == request[r] p == request'[r] IN
           /\ q.step = "lock" /\ p.step = "cut" /\ WaitsFor(r) = {}
           /\ q.op = "delete" => q.id \in memory
           /\ q \in Request /\ p \in Request
           /\ p.op = q.op /\ p.id = q.id /\ p.asked = q.asked
           /\ p.todo = q.todo /\ p.orphans = q.orphans
           /\ p.newTags = q.newTags /\ p.oldTags = q.oldTags
           /\ p.newPairs = q.newPairs /\ p.oldPairs = q.oldPairs
<1>1. request[r] \in Request /\ request[r].step = "lock" /\ WaitsFor(r) = {}
  BY RequestShape DEF LockMemory, Runs, AtStep
<1>2. /\ request'[r] = [request[r] EXCEPT !.step = "cut"]
      /\ request[r].op = "delete" => request[r].id \in memory
  BY DEF LockMemory, Finish, Set, TypeOK
<1>3. [request[r] EXCEPT !.step = "cut"] \in Request
  BY <1>1 DEF Request
<1>4. QED
  BY <1>1, <1>2, <1>3 DEF Request

LEMMA CutMoves ==
    ASSUME TypeOK, NEW r \in Requests, CutPairs(r)
    PROVE  LET q == request[r] p == request'[r] IN
           /\ q.step = "cut"
           /\ q.op = "delete" => p.step = "snapshot"
           /\ (q.op # "delete" /\ q.todo # <<>>) => p.step = "insert"
           /\ (q.op = "replace" /\ q.todo = <<>>) => p.step = "snapshot"
           /\ (q.op = "store" /\ q.todo = <<>>) => p.step = "commit"
           /\ q \in Request /\ p \in Request
           /\ p.op = q.op /\ p.id = q.id /\ p.asked = q.asked
           /\ p.todo = q.todo /\ p.orphans = q.orphans
           /\ p.newTags = q.newTags /\ p.oldTags = q.oldTags
           /\ p.newPairs = q.newPairs
           /\ p.oldPairs = PairsOf(SeenPairs(q), q.id)
<1> DEFINE q == request[r]
           c == [q EXCEPT !.oldPairs = PairsOf(SeenPairs(q), q.id)]
<1>1. q \in Request /\ q.step = "cut"
  BY RequestShape DEF CutPairs, Runs, AtStep
<1>2. PairsOf(SeenPairs(q), q.id) \in SUBSET PairRow
  BY <1>1 DEF PairsOf, SeenPairs, TypeOK, Request
<1>3. /\ c \in Request /\ c.op = q.op /\ c.id = q.id /\ c.asked = q.asked
      /\ c.todo = q.todo /\ c.orphans = q.orphans
      /\ c.newTags = q.newTags /\ c.oldTags = q.oldTags /\ c.newPairs = q.newPairs
      /\ c.oldPairs = PairsOf(SeenPairs(q), q.id)
  BY <1>1, <1>2 DEF Request
<1>4. request'[r] = IF c.op = "delete" THEN [c EXCEPT !.step = "snapshot"] ELSE Upserting(c)
  BY DEF CutPairs, Set, TypeOK
<1>5. q.op \in {"store", "replace", "delete"}
  BY <1>1 DEF Request
<1> HIDE DEF c
<1>6. CASE c.op = "delete"
  <2>1. /\ [c EXCEPT !.step = "snapshot"] \in Request
        /\ [c EXCEPT !.step = "snapshot"].step = "snapshot"
    BY <1>3 DEF Request
  <2>2. request'[r] = [c EXCEPT !.step = "snapshot"]
    BY <1>4, <1>6
  <2>3. QED
    BY <1>1, <1>3, <1>6, <2>1, <2>2 DEF Request
<1>7. CASE c.op # "delete"
  BY <1>1, <1>3, <1>4, <1>5, <1>7, UpsertingShape
<1>8. QED
  BY <1>6, <1>7

LEMMA InsertMoves ==
    ASSUME TypeOK, NEW r \in Requests, InsertTag(r)
    PROVE  LET q == request[r] p == request'[r] IN
           /\ q.step = "insert" /\ p.step = "select"
           /\ q \in Request /\ p \in Request
           /\ p.op = q.op /\ p.id = q.id /\ p.asked = q.asked
           /\ p.todo = q.todo /\ p.orphans = q.orphans
           /\ p.newTags = q.newTags \/ \E x \in TagRow : p.newTags = q.newTags \cup {x}
           /\ p.oldTags = q.oldTags
           /\ p.newPairs = q.newPairs /\ p.oldPairs = q.oldPairs
<1> DEFINE q == request[r]
<1>1. q \in Request /\ q.step = "insert"
  BY RequestShape DEF InsertTag, Runs, AtStep
<1>2. CASE request'[r] = [q EXCEPT !.step = "select"]
  BY <1>1, <1>2 DEF Request
<1>3. CASE request'[r] # [q EXCEPT !.step = "select"]
  <2>1. PICK x \in FreshTag(Head(q.todo)) :
           request'[r] = [q EXCEPT !.step = "select", !.newTags = q.newTags \cup {x}]
    BY <1>3 DEF InsertTag, Set, TypeOK
  <2>2. x \in TagRow
    BY DEF FreshTag
  <2>3. PICK N \in SUBSET TagRow : N = q.newTags \cup {x}
    BY <1>1, <2>2 DEF Request
  <2>4. request'[r] = [q EXCEPT !.step = "select", !.newTags = N]
    BY <2>1, <2>3
  <2>5. request'[r] \in Request /\ request'[r].newTags = N
    BY <1>1, <2>4 DEF Request
  <2>6. QED
    BY <1>1, <2>2, <2>3, <2>4, <2>5 DEF Request
<1>4. QED
  BY <1>2, <1>3

LEMMA SelectMoves ==
    ASSUME TypeOK, NEW r \in Requests, SelectTag(r)
    PROVE  LET q == request[r] p == request'[r] IN
           /\ q.step = "select" /\ p.step = "attach"
           /\ p.tag # NoTag => p.tag.name = Head(q.todo)
           /\ q \in Request /\ p \in Request
           /\ p.op = q.op /\ p.id = q.id /\ p.asked = q.asked
           /\ p.todo = q.todo /\ p.orphans = q.orphans
           /\ p.newTags = q.newTags /\ p.oldTags = q.oldTags
           /\ p.newPairs = q.newPairs /\ p.oldPairs = q.oldPairs
<1> DEFINE q == request[r]
<1>1. q \in Request /\ q.step = "select"
  BY RequestShape DEF SelectTag, Runs, AtStep
<1>2. SeenTags(q) \subseteq TagRow
  BY <1>1 DEF SeenTags, TypeOK, Request
<1>3. PICK t \in TagRow \cup {NoTag} :
         /\ t # NoTag => t.name = Head(q.todo)
         /\ request'[r] = [q EXCEPT !.step = "attach", !.tag = t]
  <2> DEFINE found == {x \in SeenTags(q) : x.name = Head(q.todo)}
  <2>1. request'[r] = [q EXCEPT !.step = "attach",
                         !.tag = IF found = {} THEN NoTag ELSE CHOOSE x \in found : TRUE]
    BY DEF SelectTag, Set, TypeOK
  <2>2. CASE found = {}
    BY <2>1, <2>2
  <2>3. CASE found # {}
    <3>1. (CHOOSE x \in found : TRUE) \in found
      BY <2>3
    <3>2. PICK t \in found : t = CHOOSE x \in found : TRUE
      BY <3>1
    <3>3. t \in TagRow /\ t.name = Head(q.todo)
      BY <1>2
    <3> HIDE DEF found
    <3>4. QED
      BY <2>1, <2>3, <3>2, <3>3
  <2>4. QED
    BY <2>2, <2>3
<1>4. QED
  BY <1>1, <1>3 DEF Request

LEMMA AttachMoves ==
    ASSUME TypeOK, NEW r \in Requests, Attach(r), request'[r] # Idle,
           StepSound(r)
    PROVE  LET q == request[r] p == request'[r] IN
           /\ q.step = "attach" /\ q.todo # <<>> /\ WaitsFor(r) = {}
           /\ q.tag \in TagRow /\ q.tag \in SeenTags(q) /\ q.tag.name = Head(q.todo)
           /\ q.op # "store" => q.id \in memory
           /\ p.todo # <<>> => p.step = "insert"
           /\ (p.todo = <<>> /\ q.op = "replace") => p.step = "snapshot"
           /\ (p.todo = <<>> /\ q.op # "replace") => p.step = "commit"
           /\ q \in Request /\ p \in Request
           /\ p.op = q.op /\ p.id = q.id /\ p.asked = q.asked
           /\ p.todo = Tail(q.todo) /\ p.orphans = q.orphans
           /\ p.newTags = q.newTags /\ p.oldTags = q.oldTags
           /\ p.newPairs = q.newPairs \cup {[memory |-> q.id, tag |-> q.tag]}
           /\ p.oldPairs = q.oldPairs
<1> DEFINE q == request[r]
<1>1. q \in Request /\ q.step = "attach" /\ WaitsFor(r) = {}
  BY RequestShape DEF Attach, Runs, AtStep
<1>2. HasTag(q) /\ HasMemory(q) /\ request'[r] = Attached(q)
  BY DEF Attach, Finish, Set, TypeOK
<1>3. SeenTags(q) \subseteq TagRow
  BY <1>1 DEF SeenTags, TypeOK, Request
<1>4. q.tag \in TagRow /\ q.tag \in SeenTags(q) /\ (q.op # "store" => q.id \in memory)
  BY <1>2, <1>3 DEF HasTag, HasMemory
<1>5. q.todo # <<>> /\ q.tag.name = Head(q.todo)
  BY <1>1, <1>4, NoTagAssumption DEF StepSound, TagRow
<1>6. Tail(q.todo) \in Seq(Names)
  BY <1>1, <1>5, RestOfSeq DEF Request
<1>7. PICK P \in SUBSET PairRow : P = q.newPairs \cup {[memory |-> q.id, tag |-> q.tag]}
  <2>1. q.id \in MemIds /\ q.newPairs \subseteq PairRow
    BY <1>1 DEF Request
  <2>2. [memory |-> q.id, tag |-> q.tag] \in PairRow
    BY <1>4, <2>1 DEF PairRow
  <2>3. QED
    BY <2>1, <2>2
<1>8. PICK c : c = [q EXCEPT !.newPairs = P, !.todo = Tail(q.todo), !.tag = NoTag]
  OBVIOUS
<1>9. /\ c \in Request /\ c.op = q.op /\ c.id = q.id /\ c.asked = q.asked
      /\ c.todo = Tail(q.todo) /\ c.orphans = q.orphans
      /\ c.newTags = q.newTags /\ c.oldTags = q.oldTags
      /\ c.newPairs = P /\ c.oldPairs = q.oldPairs
  BY <1>1, <1>6, <1>7, <1>8 DEF Request
<1>10. request'[r] = Upserting(c)
  BY <1>2, <1>7, <1>8 DEF Attached
<1>11. QED
  BY <1>1, <1>4, <1>5, <1>7, <1>9, <1>10, UpsertingShape

LEMMA SnapshotMoves ==
    ASSUME TypeOK, FiniteTags, NEW r \in Requests, CleanSnapshot(r)
    PROVE  LET q == request[r] p == request'[r] IN
           /\ q.step = "snapshot"
           /\ p.step = IF p.orphans = <<>> THEN "commit" ELSE "delete"
           /\ \A x \in ToSet(p.orphans) : \A y \in q.newPairs : y.tag # x
           /\ q \in Request /\ p \in Request
           /\ p.op = q.op /\ p.id = q.id /\ p.asked = q.asked
           /\ p.todo = q.todo
           /\ p.newTags = q.newTags /\ p.oldTags = q.oldTags
           /\ p.newPairs = q.newPairs /\ p.oldPairs = q.oldPairs
<1> DEFINE q == request[r]
           orphans == {x \in SeenTags(q) : \A y \in SeenPairs(q) : y.tag # x}
<1>1. q \in Request /\ q.step = "snapshot"
  BY RequestShape DEF CleanSnapshot, Runs, AtStep
<1>2. PICK order \in SetToSeqs(orphans) :
         request'[r] = [q EXCEPT !.orphans = order,
                          !.step = IF order = <<>> THEN "commit" ELSE "delete"]
  BY DEF CleanSnapshot, Set, TypeOK
<1>3. orphans \subseteq TagRow /\ \A x \in orphans, y \in q.newPairs : y.tag # x
  BY <1>1 DEF SeenTags, SeenPairs, TypeOK, Request
<1>4. IsFiniteSet(orphans)
  <2>1. IsFiniteSet(tag) /\ IsFiniteSet(q.newTags)
    BY DEF FiniteTags, CleanSnapshot, Runs, AtStep
  <2>2. IsFiniteSet(tag \ q.oldTags)
    BY <2>1, FS_Subset
  <2>3. IsFiniteSet(SeenTags(q))
    BY <2>1, <2>2, FS_Union DEF SeenTags
  <2>4. orphans \in SUBSET SeenTags(q)
    OBVIOUS
  <2>5. QED
    BY <2>3, <2>4, FS_Subset
<1> HIDE DEF orphans
<1>5. order \in Seq(orphans) /\ ToSet(order) = orphans
  BY <1>4, OrderOfSet
<1>6. order \in Seq(TagRow)
  BY <1>3, <1>5, SeqMonotonic
<1>7. PICK s \in {"commit", "delete"} : s = IF order = <<>> THEN "commit" ELSE "delete"
  OBVIOUS
<1>8. request'[r] = [q EXCEPT !.orphans = order, !.step = s]
  BY <1>2, <1>7
<1>9. QED
  BY <1>1, <1>3, <1>5, <1>6, <1>7, <1>8 DEF Request

LEMMA DeleteMoves ==
    ASSUME TypeOK, NEW r \in Requests, CleanDelete(r), StepSound(r)
    PROVE  LET q == request[r] p == request'[r] IN
           /\ q.step = "delete" /\ q.orphans # <<>> /\ WaitsFor(r) = {}
           /\ ToSet(p.orphans) \subseteq ToSet(q.orphans)
           /\ Head(q.orphans) \in ToSet(q.orphans)
           /\ p.step = IF p.orphans = <<>> THEN "cascade" ELSE "delete"
           /\ p.oldTags = q.oldTags \cup ({Head(q.orphans)} \cap tag)
           /\ q \in Request /\ p \in Request
           /\ p.op = q.op /\ p.id = q.id /\ p.asked = q.asked
           /\ p.todo = q.todo
           /\ p.newTags = q.newTags
           /\ p.newPairs = q.newPairs /\ p.oldPairs = q.oldPairs
<1> DEFINE q == request[r]
<1>1. q \in Request /\ q.step = "delete" /\ WaitsFor(r) = {} /\ q.orphans # <<>>
  BY RequestShape DEF CleanDelete, Runs, AtStep, StepSound
<1>2. q.orphans \in Seq(TagRow)
  BY <1>1 DEF Request
<1>3. /\ Head(q.orphans) \in TagRow /\ Tail(q.orphans) \in Seq(TagRow)
      /\ Len(q.orphans) = 1 <=> Tail(q.orphans) = <<>>
      /\ ToSet(q.orphans) = {Head(q.orphans)} \cup ToSet(Tail(q.orphans))
  BY <1>1, <1>2, RestOfSeq, ToSetTail
<1>4. PICK O \in SUBSET TagRow : O = q.oldTags \cup ({Head(q.orphans)} \cap tag)
  BY <1>1, <1>3 DEF Request
<1>5. PICK s \in {"delete", "cascade"} : s = IF Tail(q.orphans) = <<>> THEN "cascade" ELSE "delete"
  OBVIOUS
<1>6. request'[r] = [q EXCEPT !.orphans = Tail(q.orphans), !.oldTags = O, !.step = s]
  <2>1. request'[r] = [q EXCEPT !.orphans = Tail(q.orphans),
                         !.oldTags = q.oldTags \cup ({Head(q.orphans)} \cap tag),
                         !.step = IF Len(q.orphans) = 1 THEN "cascade" ELSE q.step]
    BY DEF CleanDelete, Set, TypeOK
  <2>2. (IF Len(q.orphans) = 1 THEN "cascade" ELSE q.step) = s
    BY <1>1, <1>3, <1>5
  <2>3. QED
    BY <1>4, <2>1, <2>2
<1>7. QED
  BY <1>1, <1>3, <1>4, <1>5, <1>6 DEF Request

LEMMA CascadeMoves ==
    ASSUME TypeOK, NEW r \in Requests, CleanCascade(r)
    PROVE  LET q == request[r] p == request'[r] IN
           /\ q.step = "cascade" /\ p.step = "commit"
           /\ p.oldPairs = q.oldPairs \cup {x \in SeenPairs(q) : x.tag \in q.oldTags}
           /\ q \in Request /\ p \in Request
           /\ p.op = q.op /\ p.id = q.id /\ p.asked = q.asked
           /\ p.todo = q.todo /\ p.orphans = q.orphans
           /\ p.newTags = q.newTags /\ p.oldTags = q.oldTags
           /\ p.newPairs = q.newPairs
<1> DEFINE q == request[r]
<1>1. q \in Request /\ q.step = "cascade"
  BY RequestShape DEF CleanCascade, Runs, AtStep
<1>2. PICK O \in SUBSET PairRow : O = q.oldPairs \cup {x \in SeenPairs(q) : x.tag \in q.oldTags}
  BY <1>1 DEF Request, SeenPairs, TypeOK
<1>3. request'[r] = [q EXCEPT !.step = "commit", !.oldPairs = O]
  BY <1>2 DEF CleanCascade, Set, TypeOK
<1>4. QED
  BY <1>1, <1>2, <1>3 DEF Request

LEMMA Beginning ==
    ASSUME TypeOK, [Next]_vars, NEW r \in Requests, request[r] = Idle, request'[r] # Idle
    PROVE  LET p == request'[r] IN
           /\ UNCHANGED <<memory, tag, pair>> /\ p \in Request
           /\ p.newTags = {} /\ p.oldTags = {} /\ p.newPairs = {} /\ p.oldPairs = {}
           /\ p.orphans = <<>> /\ ToSet(p.todo) = p.asked
           /\ p.op = "store" =>
                 /\ p.id \notin memory
                 /\ \A x \in Requests : Active(x) => request[x].id # p.id
                 /\ p.todo # <<>> => p.step = "insert"
                 /\ p.todo = <<>> => p.step = "commit"
           /\ p.op = "replace" => p.step = "lock"
           /\ p.op = "delete" => p.step = "lock" /\ p.asked = {}
           /\ p.op # "store" => p.id \in memory
<1>1. ~LockMemory(r) /\ ~CutPairs(r) /\ ~InsertTag(r) /\ ~SelectTag(r) /\ ~Attach(r)
        /\ ~CleanSnapshot(r) /\ ~CleanDelete(r) /\ ~CleanCascade(r) /\ ~Commit(r) /\ ~Rollback(r)
        /\ ~DeadlockVictim(r)
  BY DEF LockMemory, CutPairs, InsertTag, SelectTag, Attach, CleanSnapshot, CleanDelete,
     CleanCascade, Commit, Rollback, DeadlockVictim, Runs, AtStep, Active, Finish, Set, TypeOK
<1>2. \A x \in Requests \ {r} : ~(\/ StoreBegin(x) \/ ReplaceBegin(x) \/ DeleteBegin(x)
                                   \/ Step(x) \/ Rollback(x) \/ DeadlockVictim(x))
  BY DEF StoreBegin, ReplaceBegin, DeleteBegin, Step, LockMemory, CutPairs, InsertTag, SelectTag,
     Attach, CleanSnapshot, CleanDelete, CleanCascade, Commit, Rollback, DeadlockVictim, Finish,
     Set, TypeOK
<1>3. StoreBegin(r) \/ ReplaceBegin(r) \/ DeleteBegin(r)
  BY <1>1, <1>2 DEF Next, Step, vars, DropWithWorkspace
<1>4. CASE StoreBegin(r)
  <2>1. PICK order \in Orders, m \in FreshMemory :
           request'[r] = Upserting(Started("store", m, order, "insert"))
    BY <1>4 DEF StoreBegin, Set, TypeOK
  <2>2. m \in MemIds /\ m \notin memory /\ \A x \in Requests : Active(x) => request[x].id # m
    BY <2>1 DEF FreshMemory
  <2>3. order \in Seq(Names)
    BY OrderShape
  <2>4. Started("store", m, order, "insert") \in Request
    BY <2>2, <2>3, StartedShape
  <2>5. PICK q \in Request : q = Started("store", m, order, "insert")
    BY <2>4
  <2>6. /\ q.op = "store" /\ q.id = m /\ q.asked = ToSet(order) /\ q.todo = order
        /\ q.orphans = <<>> /\ q.newTags = {} /\ q.oldTags = {}
        /\ q.newPairs = {} /\ q.oldPairs = {}
    BY <2>5 DEF Started
  <2>7. request'[r] = Upserting(q)
    BY <2>1, <2>5
  <2>8. UNCHANGED <<memory, tag, pair>>
    BY <1>4 DEF StoreBegin
  <2>9. QED
    BY <2>2, <2>6, <2>7, <2>8, UpsertingShape
<1>5. CASE ReplaceBegin(r)
  <2>1. PICK order \in Orders, m \in memory : request'[r] = Started("replace", m, order, "lock")
    BY <1>5 DEF ReplaceBegin, Set, TypeOK
  <2>2. order \in Seq(Names)
    BY OrderShape
  <2>3. Started("replace", m, order, "lock") \in Request
    BY <2>2, StartedShape DEF TypeOK
  <2>4. QED
    BY <1>5, <2>1, <2>3 DEF ReplaceBegin, Started
<1>6. CASE DeleteBegin(r)
  <2>1. PICK m \in memory : request'[r] = Started("delete", m, <<>>, "lock")
    BY <1>6 DEF DeleteBegin, Set, TypeOK
  <2>2. <<>> \in Seq(Names) /\ ToSet(<<>>) = {}
    BY EmptySeq, ToSetShape
  <2>3. Started("delete", m, <<>>, "lock") \in Request
    BY <2>2, StartedShape DEF TypeOK
  <2>4. QED
    BY <1>6, <2>1, <2>2, <2>3 DEF DeleteBegin, Started
<1>7. QED
  BY <1>3, <1>4, <1>5, <1>6

(* A request in flight goes on by one of its statements, which is in no    *)
(* table before the commit.                                                *)
Moves(r) ==
    \/ LockMemory(r) \/ CutPairs(r) \/ InsertTag(r) \/ SelectTag(r) \/ Attach(r)
    \/ CleanSnapshot(r) \/ CleanDelete(r) \/ CleanCascade(r)

LEMMA Proceeding ==
    ASSUME TypeOK, [Next]_vars, NEW r \in Requests, Active(r), request'[r] # Idle,
           request'[r] # request[r]
    PROVE  Moves(r) /\ UNCHANGED <<memory, tag, pair>>
<1>1. ~StoreBegin(r) /\ ~ReplaceBegin(r) /\ ~DeleteBegin(r) /\ ~Commit(r) /\ ~Rollback(r)
        /\ ~DeadlockVictim(r)
  BY DEF StoreBegin, ReplaceBegin, DeleteBegin, Commit, Rollback, DeadlockVictim, Finish, Set,
     TypeOK
<1>2. \A x \in Requests \ {r} : ~(\/ StoreBegin(x) \/ ReplaceBegin(x) \/ DeleteBegin(x)
                                   \/ Step(x) \/ Rollback(x) \/ DeadlockVictim(x))
  BY DEF StoreBegin, ReplaceBegin, DeleteBegin, Step, LockMemory, CutPairs, InsertTag, SelectTag,
     Attach, CleanSnapshot, CleanDelete, CleanCascade, Commit, Rollback, DeadlockVictim, Finish,
     Set, TypeOK
<1>3. Moves(r)
  BY <1>1, <1>2 DEF Next, Step, vars, DropWithWorkspace, Moves
<1>4. QED
  BY <1>3 DEF Moves, LockMemory, CutPairs, InsertTag, SelectTag, Attach, CleanSnapshot,
     CleanDelete, CleanCascade

LEMMA OthersStay ==
    ASSUME TypeOK, [Next]_vars, NEW r \in Requests, request'[r] # request[r]
    PROVE  \A x \in Requests \ {r} : request'[x] = request[x]
<1>1. PICK x \in Requests : \/ StoreBegin(x) \/ ReplaceBegin(x) \/ DeleteBegin(x)
                            \/ Step(x) \/ Rollback(x) \/ DeadlockVictim(x)
  BY DEF Next, vars, DropWithWorkspace
<1>2. \A y \in Requests \ {x} : request'[y] = request[y]
  BY <1>1 DEF StoreBegin, ReplaceBegin, DeleteBegin, Step, LockMemory, CutPairs, InsertTag,
     SelectTag, Attach, CleanSnapshot, CleanDelete, CleanCascade, Commit, Rollback,
     DeadlockVictim, Finish, Set, TypeOK
<1>3. QED
  BY <1>2

(* The tables change with a commit, or when a workspace is deleted.        *)
LEMMA TablesStay ==
    ASSUME TypeOK, [Next]_vars
    PROVE  \/ UNCHANGED <<memory, tag, pair>>
           \/ \E x \in Requests : Commit(x) /\ Active(x) /\ request'[x] = Idle
           \/ (\E m \in MemIds : DropWithWorkspace(m)) /\ UNCHANGED <<tag, request>>
<1>1. CASE \E x \in Requests : Commit(x)
  BY <1>1 DEF Commit, Runs, AtStep, Finish, Set, TypeOK
<1>2. CASE \E m \in MemIds : DropWithWorkspace(m)
  BY <1>2 DEF DropWithWorkspace
<1>3. QED
  BY <1>1, <1>2 DEF Next, vars, StoreBegin, ReplaceBegin, DeleteBegin, Step, LockMemory, CutPairs,
     InsertTag, SelectTag, Attach, CleanSnapshot, CleanDelete, CleanCascade, Rollback,
     DeadlockVictim

-----------------------------------------------------------------------------
(* The invariant is inductive                                              *)

LEMMA MovesTyped ==
    ASSUME TypeOK, FiniteTags, RequestsSound, NEW r \in Requests, Active(r), Moves(r),
           request'[r] # Idle
    PROVE  /\ request'[r] \in Request
           /\ request'[r].op = request[r].op /\ request'[r].id = request[r].id
           /\ request'[r].newTags = request[r].newTags
                \/ \E x \in TagRow : request'[r].newTags = request[r].newTags \cup {x}
<1>1. StepSound(r)
  BY DEF RequestsSound
<1>2. CASE LockMemory(r)
  BY <1>2, LockMoves
<1>3. CASE CutPairs(r)
  BY <1>3, CutMoves
<1>4. CASE InsertTag(r)
  BY <1>4, InsertMoves
<1>5. CASE SelectTag(r)
  BY <1>5, SelectMoves
<1>6. CASE Attach(r)
  BY <1>1, <1>6, AttachMoves
<1>7. CASE CleanSnapshot(r)
  BY <1>7, SnapshotMoves
<1>8. CASE CleanDelete(r)
  BY <1>1, <1>8, DeleteMoves
<1>9. CASE CleanCascade(r)
  BY <1>9, CascadeMoves
<1>10. QED
  BY <1>2, <1>3, <1>4, <1>5, <1>6, <1>7, <1>8, <1>9 DEF Moves

LEMMA TypeInductive ==
    ASSUME TypeOK, FiniteTags, RequestsSound, [Next]_vars
    PROVE  TypeOK'
<1>1. request' = [x \in Requests |-> request'[x]]
  BY DEF Next, vars, DropWithWorkspace, StoreBegin, ReplaceBegin, DeleteBegin, Step, LockMemory,
     CutPairs, InsertTag, SelectTag, Attach, CleanSnapshot, CleanDelete, CleanCascade, Commit,
     Rollback, DeadlockVictim, Finish, Set, TypeOK
<1>2. ASSUME NEW r \in Requests PROVE request'[r] \in Request \cup {Idle}
  <2>1. CASE request'[r] = request[r] \/ request'[r] = Idle
    BY <2>1 DEF TypeOK
  <2>2. CASE request[r] = Idle /\ request'[r] # Idle
    BY <2>2, Beginning
  <2>3. CASE Active(r) /\ request'[r] # Idle /\ request'[r] # request[r]
    BY <2>3, Proceeding, MovesTyped
  <2>4. QED
    BY <2>1, <2>2, <2>3 DEF Active
<1>3. memory' \subseteq MemIds /\ tag' \subseteq TagRow /\ pair' \subseteq PairRow
  <2>1. CASE \E x \in Requests : Commit(x) /\ Active(x)
    <3>1. PICK x \in Requests : Commit(x) /\ request[x] \in Request
      BY <2>1, RequestShape
    <3>2. /\ tag' = SeenTags(request[x]) /\ pair' = SeenPairs(request[x])
          /\ memory' \in {memory, memory \cup {request[x].id}, memory \ {request[x].id}}
      BY <3>1 DEF Commit
    <3>3. QED
      BY <3>1, <3>2 DEF SeenTags, SeenPairs, TypeOK, Request
  <2>2. CASE UNCHANGED <<memory, tag, pair>>
    BY <2>2 DEF TypeOK
  <2>3. CASE (\E m \in MemIds : DropWithWorkspace(m)) /\ UNCHANGED <<tag, request>>
    BY <2>3 DEF DropWithWorkspace, TypeOK
  <2>4. QED
    BY <2>1, <2>2, <2>3, TablesStay
<1>4. QED
  BY <1>1, <1>2, <1>3 DEF TypeOK

LEMMA FiniteInductive ==
    ASSUME TypeOK, FiniteTags, RequestsSound, [Next]_vars
    PROVE  FiniteTags'
<1>1. ASSUME NEW r \in Requests, request'[r] # Idle PROVE IsFiniteSet(request'[r].newTags)
  <2>1. CASE request'[r] = request[r]
    BY <1>1, <2>1 DEF FiniteTags, Active
  <2>2. CASE request[r] = Idle
    BY <1>1, <2>2, Beginning, FS_EmptySet
  <2>3. CASE Active(r) /\ request'[r] # request[r]
    <3>1. IsFiniteSet(request[r].newTags)
      BY <2>3 DEF FiniteTags
    <3>2. \A x : IsFiniteSet(request[r].newTags \cup {x})
      BY <3>1, FS_AddElement
    <3>3. QED
      BY <1>1, <2>3, <3>1, <3>2, Proceeding, MovesTyped
  <2>4. QED
    BY <2>1, <2>2, <2>3 DEF Active
<1>2. IsFiniteSet(tag')
  <2>1. CASE \E x \in Requests : Commit(x) /\ Active(x)
    <3>1. PICK x \in Requests : Commit(x) /\ Active(x)
      BY <2>1
    <3>2. IsFiniteSet(tag) /\ IsFiniteSet(request[x].newTags)
      BY <3>1 DEF FiniteTags
    <3>3. IsFiniteSet(tag \ request[x].oldTags)
      BY <3>2, FS_Subset
    <3>4. IsFiniteSet(SeenTags(request[x]))
      BY <3>2, <3>3, FS_Union DEF SeenTags
    <3>5. QED
      BY <3>1, <3>4 DEF Commit
  <2>2. CASE UNCHANGED tag
    BY <2>2 DEF FiniteTags
  <2>3. QED
    BY <2>1, <2>2, TablesStay
<1>3. QED
  BY <1>1, <1>2 DEF FiniteTags, Active

LEMMA StepInductive ==
    ASSUME TypeOK, FiniteTags, RequestsSound, [Next]_vars, NEW r \in Requests, request'[r] # Idle
    PROVE  StepSound(r)'
<1>1. CASE request'[r] = request[r]
  BY <1>1 DEF RequestsSound, Active, StepSound
<1>2. CASE request[r] = Idle
  <2>1. request'[r].op \in {"store", "replace", "delete"}
    BY <1>2, Beginning DEF Request
  <2>2. ToSet(request'[r].todo) = {} => request'[r].todo = <<>>
    BY <1>2, Beginning, ToSetShape DEF Request
  <2>3. QED
    BY <1>2, <2>1, <2>2, Beginning DEF StepSound
<1>3. CASE Active(r) /\ request'[r] # request[r]
  <2>1. StepSound(r) /\ Moves(r)
    BY <1>3, Proceeding DEF RequestsSound
  <2>2. request[r].op \in {"store", "replace", "delete"}
    BY <1>3, RequestShape DEF Request
  <2>3. CASE LockMemory(r)
    BY <2>1, <2>3, LockMoves DEF StepSound
  <2>4. CASE CutPairs(r)
    <3>1. /\ request[r].step = "cut" /\ request[r].op \in {"replace", "delete"}
          /\ request[r].orphans = <<>> /\ request[r].oldTags = {}
          /\ request[r].op = "delete" => request[r].asked = {}
      BY <2>1, <2>2, <2>4, CutMoves DEF StepSound
    <3>2. ToSet(request[r].todo) = {} => request[r].todo = <<>>
      BY <1>3, RequestShape, ToSetShape DEF Request
    <3>3. request[r].op = "delete" => request[r].todo = <<>>
      BY <1>3, <3>1, <3>2 DEF RequestsSound, AskedSound
    <3>4. /\ request'[r].op = request[r].op /\ request'[r].todo = request[r].todo
          /\ request'[r].asked = request[r].asked /\ request'[r].orphans = request[r].orphans
          /\ request'[r].oldTags = request[r].oldTags
          /\ \/ request'[r].step = "snapshot" /\ request'[r].todo = <<>>
             \/ /\ request'[r].step = "insert" /\ request'[r].op = "replace"
                /\ request'[r].todo # <<>>
      BY <2>4, <3>1, <3>3, CutMoves
    <3>5. QED
      BY <3>1, <3>4 DEF StepSound
  <2>5. CASE InsertTag(r)
    BY <2>1, <2>5, InsertMoves DEF StepSound
  <2>6. CASE SelectTag(r)
    BY <2>1, <2>6, SelectMoves DEF StepSound
  <2>7. CASE Attach(r)
    BY <2>1, <2>2, <2>7, AttachMoves DEF StepSound
  <2>8. CASE CleanSnapshot(r)
    BY <2>1, <2>8, SnapshotMoves DEF StepSound
  <2>9. CASE CleanDelete(r)
    BY <2>1, <2>9, DeleteMoves DEF StepSound
  <2>10. CASE CleanCascade(r)
    BY <2>1, <2>10, CascadeMoves DEF StepSound
  <2>11. QED
    BY <2>1, <2>3, <2>4, <2>5, <2>6, <2>7, <2>8, <2>9, <2>10 DEF Moves
<1>4. QED
  BY <1>1, <1>2, <1>3 DEF Active

LEMMA AskedInductive ==
    ASSUME TypeOK, FiniteTags, RequestsSound, [Next]_vars, NEW r \in Requests, request'[r] # Idle
    PROVE  AskedSound(r)'
<1>1. CASE request'[r] = request[r]
  BY <1>1 DEF RequestsSound, Active, AskedSound
<1>2. CASE request[r] = Idle
  <2>1. request'[r].newPairs = {} /\ ToSet(request'[r].todo) = request'[r].asked
    BY <1>2, Beginning
  <2>2. QED
    BY <2>1 DEF AskedSound
<1>3. CASE Active(r) /\ request'[r] # request[r]
  <2>1. StepSound(r) /\ Moves(r) /\ AskedSound(r)
    BY <1>3, Proceeding DEF RequestsSound
  <2>2. CASE Attach(r)
    <3> DEFINE q == request[r]
               p == request'[r]
    <3>1. /\ q.todo # <<>> /\ q.tag.name = Head(q.todo) /\ p.todo = Tail(q.todo)
          /\ p.newPairs = q.newPairs \cup {[memory |-> q.id, tag |-> q.tag]}
          /\ p.asked = q.asked /\ q \in Request
      BY <2>1, <2>2, AttachMoves
    <3>2. ToSet(q.todo) = {Head(q.todo)} \cup ToSet(p.todo)
      BY <3>1, ToSetTail DEF Request
    <3>3. {x.tag.name : x \in p.newPairs} = {x.tag.name : x \in q.newPairs} \cup {q.tag.name}
      <4>1. PICK z : z = [memory |-> q.id, tag |-> q.tag]
        OBVIOUS
      <4>2. z.tag.name = q.tag.name
        BY <4>1
      <4>3. p.newPairs = q.newPairs \cup {z}
        BY <3>1, <4>1
      <4>4. QED
        BY <4>2, <4>3
    <3>4. QED
      BY <2>1, <3>1, <3>2, <3>3 DEF AskedSound
  <2>3. CASE ~Attach(r)
    <3>1. /\ request'[r].newPairs = request[r].newPairs
          /\ request'[r].todo = request[r].todo
          /\ request'[r].asked = request[r].asked
      BY <2>1, <2>3, LockMoves, CutMoves, InsertMoves, SelectMoves, SnapshotMoves, DeleteMoves,
         CascadeMoves DEF Moves
    <3>2. QED
      BY <2>1, <3>1 DEF AskedSound
  <2>4. QED
    BY <2>2, <2>3
<1>4. QED
  BY <1>1, <1>2, <1>3 DEF Active

LEMMA Committing ==
    ASSUME TypeOK, NEW x \in Requests, Commit(x)
    PROVE  LET q == request[x] IN
           /\ q \in Request /\ q.step = "commit" /\ request'[x] = Idle /\ Active(x)
           /\ tag' = (tag \ q.oldTags) \cup q.newTags
           /\ pair' = (pair \ q.oldPairs) \cup q.newPairs
           /\ q.op = "store" => memory' = memory \cup {q.id}
           /\ q.op = "delete" => memory' = memory \ {q.id}
           /\ q.op = "replace" => memory' = memory
           /\ q.op \in {"store", "replace", "delete"}
<1>1. request[x] \in Request /\ request[x].step = "commit" /\ Active(x)
  BY RequestShape DEF Commit, Runs, AtStep
<1>2. request'[x] = Idle
  BY DEF Commit, Finish, Set, TypeOK
<1>3. request[x].op \in {"store", "replace", "delete"}
  BY <1>1 DEF Request
<1>4. QED
  BY <1>1, <1>2, <1>3 DEF Commit, SeenTags, SeenPairs

LEMMA NewPairsInductive ==
    ASSUME TypeOK, FiniteTags, RequestsSound, LocksSound, TagsApart, [Next]_vars,
           NEW r \in Requests, request'[r] # Idle
    PROVE  NewPairsSound(r)'
<1> DEFINE q == request[r]
           p == request'[r]
<1>1. CASE p = q
  <2>1. /\ Active(r) /\ StepSound(r)
        /\ \A y \in q.newPairs : /\ y.memory = q.id /\ y.tag \in (tag \ q.oldTags) \cup q.newTags
                                 /\ y.tag \notin ToSet(q.orphans) \cup q.oldTags
        /\ (q.op = "replace" /\ q.newPairs # {}) => q.id \in memory
    BY <1>1 DEF RequestsSound, NewPairsSound, SeenTags, Active
  <2>2. /\ \A y \in q.newPairs : y.tag \in (tag' \ q.oldTags) \cup q.newTags
        /\ (q.op = "replace" /\ q.newPairs # {}) => q.id \in memory'
    <3>1. CASE UNCHANGED <<memory, tag, pair>>
      BY <2>1, <3>1
    <3>2. CASE \E x \in Requests : Commit(x) /\ Active(x) /\ request'[x] = Idle
      <4>1. PICK x \in Requests \ {r} : Commit(x) /\ Active(x)
        BY <1>1, <2>1, <3>2 DEF Active
      <4>2. \A y \in q.newPairs : y.tag \notin request[x].oldTags
        BY <2>1, <4>1 DEF TagsApart
      <4>3. \A y \in q.newPairs : y.tag \in (tag' \ q.oldTags) \cup q.newTags
        BY <2>1, <4>1, <4>2, Committing
      <4>4. ASSUME q.op = "replace", q.newPairs # {} PROVE q.id \in memory'
        <5>1. Past(r) /\ q.id \in memory
          BY <2>1, <4>4 DEF StepSound, Past
        <5>2. request[x].op = "delete" => Past(x)
          BY <4>1, Committing DEF Past
        <5>3. ~(request[x].op = "delete" /\ request[x].id = q.id)
          BY <2>1, <4>1, <5>1, <5>2 DEF LocksSound
        <5>4. QED
          BY <4>1, <5>1, <5>3, Committing
      <4>5. QED
        BY <4>3, <4>4
    <3>3. CASE (\E m \in MemIds : DropWithWorkspace(m)) /\ UNCHANGED <<tag, request>>
      <4>1. PICK m \in MemIds : DropWithWorkspace(m)
        BY <3>3
      <4>2. q.newPairs # {} => q.id # m
        BY <2>1, <4>1 DEF DropWithWorkspace, StepSound
      <4>3. QED
        BY <2>1, <3>3, <4>1, <4>2 DEF DropWithWorkspace
    <3>4. QED
      BY <3>1, <3>2, <3>3, TablesStay
  <2>3. QED
    BY <1>1, <2>1, <2>2 DEF NewPairsSound, SeenTags
<1>2. CASE q = Idle
  BY <1>2, Beginning DEF NewPairsSound
<1>3. CASE Active(r) /\ p # q
  <2>1. StepSound(r) /\ Moves(r) /\ NewPairsSound(r) /\ UNCHANGED <<memory, tag, pair>>
    BY <1>3, Proceeding DEF RequestsSound
  <2>2. /\ \A y \in q.newPairs : /\ y.memory = q.id /\ y.tag \in (tag \ q.oldTags) \cup q.newTags
                                 /\ y.tag \notin ToSet(q.orphans) \cup q.oldTags
        /\ (q.op = "replace" /\ q.newPairs # {}) => q.id \in memory
    BY <2>1 DEF NewPairsSound, SeenTags
  <2>3. /\ \A y \in p.newPairs : /\ y.memory = p.id /\ y.tag \in (tag \ p.oldTags) \cup p.newTags
                                 /\ y.tag \notin ToSet(p.orphans) \cup p.oldTags
        /\ (p.op = "replace" /\ p.newPairs # {}) => p.id \in memory
    <3>1. CASE Attach(r)
      <4>1. PICK z : z = [memory |-> q.id, tag |-> q.tag]
        OBVIOUS
      <4>2. z.memory = q.id /\ z.tag = q.tag
        BY <4>1
      <4>3. /\ p.newPairs = q.newPairs \cup {z}
            /\ p.id = q.id /\ p.op = q.op /\ p.newTags = q.newTags /\ p.oldTags = q.oldTags
            /\ p.orphans = q.orphans
            /\ q.tag \in (tag \ q.oldTags) \cup q.newTags
            /\ q.op # "store" => q.id \in memory
        BY <1>3, <2>1, <3>1, <4>1, AttachMoves DEF SeenTags
      <4>4. q.orphans = <<>> /\ q.oldTags = {} /\ ToSet(<<>>) = {}
        BY <1>3, <2>1, <3>1, AttachMoves, ToSetShape, EmptySeq DEF StepSound
      <4>5. QED
        BY <2>2, <4>2, <4>3, <4>4
    <3>2. CASE CleanSnapshot(r)
      <4>1. /\ p.newPairs = q.newPairs
            /\ p.id = q.id /\ p.op = q.op /\ p.newTags = q.newTags /\ p.oldTags = q.oldTags
            /\ \A x \in ToSet(p.orphans) : \A y \in q.newPairs : y.tag # x
        BY <3>2, SnapshotMoves
      <4>2. QED
        BY <2>2, <4>1
    <3>3. CASE CleanDelete(r)
      <4>1. /\ p.newPairs = q.newPairs
            /\ p.id = q.id /\ p.op = q.op /\ p.newTags = q.newTags
            /\ p.oldTags \subseteq q.oldTags \cup {Head(q.orphans)}
            /\ ToSet(p.orphans) \subseteq ToSet(q.orphans)
            /\ Head(q.orphans) \in ToSet(q.orphans)
        BY <2>1, <3>3, DeleteMoves
      <4>2. QED
        BY <2>2, <4>1
    <3>4. CASE ~Attach(r) /\ ~CleanSnapshot(r) /\ ~CleanDelete(r)
      <4>1. /\ p.newPairs = q.newPairs
            /\ p.id = q.id /\ p.op = q.op /\ q.newTags \subseteq p.newTags
            /\ p.oldTags = q.oldTags /\ p.orphans = q.orphans
        BY <1>3, <2>1, <3>4, LockMoves, CutMoves, InsertMoves, SelectMoves, CascadeMoves DEF Moves
      <4>2. QED
        BY <2>2, <4>1
    <3>5. QED
      BY <3>1, <3>2, <3>3, <3>4
  <2>4. QED
    BY <2>1, <2>3 DEF NewPairsSound, SeenTags
<1>4. QED
  BY <1>1, <1>2, <1>3 DEF Active

(* A delete attaches nothing.                                              *)
LEMMA DeleteAttachesNothing ==
    ASSUME RequestsSound, NEW r \in Requests, Active(r), request[r].op = "delete"
    PROVE  request[r].newPairs = {}
<1>1. {p.tag.name : p \in request[r].newPairs} \subseteq {}
  BY DEF RequestsSound, StepSound, AskedSound
<1>2. QED
  BY <1>1

(* Two requests that replace the tags of one memory are not both past its  *)
(* lock while the memory is there.                                         *)
LEMMA PairsApart ==
    ASSUME TypeOK, RequestsSound, LocksSound, NEW r \in Requests, NEW x \in Requests \ {r},
           Active(x), request[x].step = "commit", Past(r), NEW y \in request[x].newPairs
    PROVE  y.memory # request[r].id
<1>1. y.memory = request[x].id /\ NewPairsSound(x)
  BY DEF RequestsSound, NewPairsSound
<1>2. request[x].op \in {"store", "replace", "delete"}
  BY RequestShape DEF Request
<1>3. SUFFICES ASSUME request[x].id = request[r].id PROVE FALSE
  BY <1>1
<1>4. request[x].op # "store" /\ Past(x)
  BY <1>3 DEF LocksSound, Past
<1>5. request[x].op = "replace"
  BY <1>2, <1>4, DeleteAttachesNothing
<1>6. request[x].id \in memory
  BY <1>1, <1>5 DEF NewPairsSound
<1>7. QED
  BY <1>3, <1>4, <1>6 DEF LocksSound, Past

LEMMA CutInductive ==
    ASSUME TypeOK, FiniteTags, RequestsSound, LocksSound, [Next]_vars,
           NEW r \in Requests, request'[r] # Idle
    PROVE  CutSound(r)'
<1> DEFINE q == request[r]
           p == request'[r]
<1>1. CASE p = q
  <2>1. SUFFICES ASSUME q.op # "store", q.step \notin {"lock", "cut"}
                 PROVE  PairsOf(pair', q.id) \subseteq q.oldPairs
    BY <1>1 DEF CutSound
  <2>2. Past(r) /\ PairsOf(pair, q.id) \subseteq q.oldPairs
    BY <1>1, <2>1 DEF RequestsSound, CutSound, Past, Active
  <2>3. CASE \E x \in Requests : Commit(x) /\ Active(x) /\ request'[x] = Idle
    <3>1. PICK x \in Requests \ {r} : Commit(x)
      BY <1>1, <2>2, <2>3 DEF Past, Active
    <3>2. \A y \in request[x].newPairs : y.memory # q.id
      BY <2>2, <3>1, Committing, PairsApart
    <3>3. pair' \subseteq pair \cup request[x].newPairs
      BY <3>1, Committing
    <3>4. QED
      BY <2>2, <3>2, <3>3 DEF PairsOf
  <2>4. CASE pair' \subseteq pair
    BY <2>2, <2>4 DEF PairsOf
  <2>5. QED
    BY <2>3, <2>4, TablesStay DEF DropWithWorkspace
<1>2. CASE q = Idle
  <2>1. p.op # "store" => p.step = "lock"
    BY <1>2, Beginning DEF Request
  <2>2. QED
    BY <2>1 DEF CutSound
<1>3. CASE Active(r) /\ p # q
  <2>1. StepSound(r) /\ CutSound(r) /\ Moves(r) /\ pair' = pair
    BY <1>3, Proceeding DEF RequestsSound
  <2>2. CASE LockMemory(r)
    BY <2>2, LockMoves DEF CutSound
  <2>3. CASE CutPairs(r)
    <3>1. q.newPairs = {} /\ q.oldPairs = {} /\ p.oldPairs = PairsOf(SeenPairs(q), q.id) /\ p.id = q.id
      BY <2>1, <2>3, CutMoves DEF StepSound
    <3>2. QED
      BY <2>1, <3>1 DEF CutSound, SeenPairs
  <2>4. CASE ~LockMemory(r) /\ ~CutPairs(r)
    <3>1. /\ p.op = q.op /\ p.id = q.id /\ q.oldPairs \subseteq p.oldPairs
          /\ q.step \notin {"lock", "cut"}
      BY <1>3, <2>1, <2>4, InsertMoves, SelectMoves, AttachMoves, SnapshotMoves, DeleteMoves,
         CascadeMoves DEF Moves
    <3>2. QED
      BY <2>1, <3>1 DEF CutSound
  <2>5. QED
    BY <2>2, <2>3, <2>4
<1>4. QED
  BY <1>1, <1>2, <1>3 DEF Active

LEMMA CascadeInductive ==
    ASSUME TypeOK, FiniteTags, RequestsSound, TagsApart, [Next]_vars,
           NEW r \in Requests, request'[r] # Idle
    PROVE  CascadeSound(r)'
<1> DEFINE q == request[r]
           p == request'[r]
<1>1. CASE p = q
  <2>1. SUFFICES ASSUME q.step = "commit", NEW y \in pair', y.tag \in q.oldTags
                 PROVE  y \in q.oldPairs
    BY <1>1 DEF CascadeSound
  <2>2. Active(r) /\ (y \in pair => y \in q.oldPairs)
    BY <1>1, <2>1 DEF RequestsSound, CascadeSound, Active
  <2>3. CASE \E x \in Requests : Commit(x) /\ Active(x) /\ request'[x] = Idle
    <3>1. PICK x \in Requests \ {r} : Commit(x) /\ Active(x)
      BY <1>1, <2>2, <2>3 DEF Active
    <3>2. y \notin request[x].newPairs
      BY <2>1, <2>2, <3>1 DEF TagsApart
    <3>3. QED
      BY <2>2, <3>1, <3>2, Committing
  <2>4. CASE pair' \subseteq pair
    BY <2>2, <2>4
  <2>5. QED
    BY <2>3, <2>4, TablesStay DEF DropWithWorkspace
<1>2. CASE q = Idle
  BY <1>2, Beginning DEF CascadeSound
<1>3. CASE Active(r) /\ p # q
  <2>1. StepSound(r) /\ Moves(r) /\ pair' = pair
    BY <1>3, Proceeding DEF RequestsSound
  <2>2. CASE CleanCascade(r)
    <3>1. p.oldTags = q.oldTags /\ p.newTags = q.newTags /\ p.newPairs = q.newPairs
            /\ p.oldPairs = q.oldPairs \cup {y \in SeenPairs(q) : y.tag \in q.oldTags}
      BY <2>2, CascadeMoves
    <3>2. QED
      BY <2>1, <3>1 DEF CascadeSound, SeenPairs
  <2>3. CASE ~CleanCascade(r)
    <3>1. p.step = "commit" => p.oldTags = q.oldTags /\ q.step \in {"cut", "attach", "snapshot"}
      BY <1>3, <2>1, <2>3, LockMoves, CutMoves, InsertMoves, SelectMoves, AttachMoves,
         SnapshotMoves, DeleteMoves DEF Moves
    <3>2. p.step = "commit" => p.oldTags = {}
      BY <2>1, <3>1 DEF StepSound
    <3>3. QED
      BY <3>2 DEF CascadeSound
  <2>4. QED
    BY <2>2, <2>3
<1>4. QED
  BY <1>1, <1>2, <1>3 DEF Active

LEMMA DanglingInductive ==
    ASSUME TypeOK, RequestsSound, NoDanglingPairs, [Next]_vars
    PROVE  NoDanglingPairs'
<1>1. CASE UNCHANGED <<memory, tag, pair>>
  BY <1>1 DEF NoDanglingPairs
<1>2. CASE (\E m \in MemIds : DropWithWorkspace(m)) /\ UNCHANGED <<tag, request>>
  BY <1>2 DEF NoDanglingPairs, DropWithWorkspace, PairsOf
<1>3. CASE \E x \in Requests : Commit(x) /\ Active(x) /\ request'[x] = Idle
  <2>1. PICK x \in Requests : Commit(x)
    BY <1>3
  <2> DEFINE q == request[x]
  <2>2. /\ q.step = "commit" /\ Active(x) /\ q.op \in {"store", "replace", "delete"}
        /\ tag' = (tag \ q.oldTags) \cup q.newTags
        /\ pair' = (pair \ q.oldPairs) \cup q.newPairs
        /\ q.op = "store" => memory' = memory \cup {q.id}
        /\ q.op = "delete" => memory' = memory \ {q.id}
        /\ q.op = "replace" => memory' = memory
    BY <2>1, Committing
  <2>3. NewPairsSound(x) /\ CutSound(x) /\ CascadeSound(x)
    BY <2>2 DEF RequestsSound
  <2>4. ASSUME NEW y \in pair, y \notin q.oldPairs PROVE y.memory \in memory' /\ y.tag \in tag'
    <3>1. y.memory \in memory /\ y.tag \in tag
      BY DEF NoDanglingPairs
    <3>2. y.tag \notin q.oldTags
      BY <2>2, <2>3, <2>4 DEF CascadeSound
    <3>3. q.op = "delete" => y.memory # q.id
      BY <2>2, <2>3, <2>4 DEF CutSound, PairsOf
    <3>4. QED
      BY <2>2, <3>1, <3>2, <3>3
  <2>5. ASSUME NEW y \in q.newPairs PROVE y.memory \in memory' /\ y.tag \in tag'
    <3>1. y.memory = q.id /\ y.tag \in (tag \ q.oldTags) \cup q.newTags
      BY <2>3 DEF NewPairsSound, SeenTags
    <3>2. q.op = "replace" => q.id \in memory
      BY <2>3 DEF NewPairsSound
    <3>3. q.op # "delete"
      BY <2>2, DeleteAttachesNothing
    <3>4. QED
      BY <2>2, <3>1, <3>2, <3>3
  <2>6. QED
    BY <2>2, <2>4, <2>5 DEF NoDanglingPairs
<1>4. QED
  BY <1>1, <1>2, <1>3, TablesStay

(* A memory gets its row from the one request that stores it.              *)
LEMMA MemoryComes ==
    ASSUME TypeOK, LocksSound, [Next]_vars, NEW r \in Requests, Active(r), request'[r] # Idle,
           request[r].id \in memory'
    PROVE  request[r].id \in memory
<1>1. CASE \E x \in Requests : Commit(x) /\ Active(x) /\ request'[x] = Idle
  <2>1. PICK x \in Requests \ {r} : Commit(x) /\ Active(x)
    BY <1>1
  <2>2. ~(request[x].op = "store" /\ request[x].id = request[r].id)
    BY <2>1 DEF LocksSound
  <2>3. QED
    BY <2>1, <2>2, Committing
<1>2. CASE memory' \subseteq memory
  BY <1>2
<1>3. QED
  BY <1>1, <1>2, TablesStay DEF DropWithWorkspace

LEMMA GoingOn ==
    ASSUME TypeOK, FiniteTags, RequestsSound, [Next]_vars, NEW r \in Requests, Active(r),
           request'[r] # Idle
    PROVE  /\ request'[r].op = request[r].op /\ request'[r].id = request[r].id
           /\ (Past(r)' /\ ~Past(r)) => LockMemory(r)
<1>1. CASE request'[r] = request[r]
  BY <1>1 DEF Past, Active
<1>2. CASE request'[r] # request[r]
  <2>1. Moves(r)
    BY <1>2, Proceeding
  <2>2. request'[r].op = request[r].op /\ request'[r].id = request[r].id
    BY <2>1, MovesTyped
  <2>3. ~LockMemory(r) => request[r].step # "lock"
    BY <2>1 DEF Moves, CutPairs, InsertTag, SelectTag, Attach, CleanSnapshot, CleanDelete,
       CleanCascade, Runs, AtStep
  <2>4. QED
    BY <2>2, <2>3 DEF Past
<1>3. QED
  BY <1>1, <1>2

(* The lock is granted to one request at a time, if there is a row.        *)
LEMMA LockGranted ==
    ASSUME TypeOK, NEW r \in Requests, NEW x \in Requests \ {r}, LockMemory(r), Past(x),
           request[x].id = request[r].id
    PROVE  request[r].id \notin memory
<1>1. Active(r) /\ Active(x) /\ request[r].step = "lock" /\ WaitsFor(r) = {}
  BY DEF LockMemory, Runs, AtStep, Past
<1>2. ~Blocks(request[x], request[r])
  BY <1>1 DEF WaitsFor
<1>3. QED
  BY <1>1, <1>2 DEF Blocks, Past

LEMMA LocksInductive ==
    ASSUME TypeOK, FiniteTags, RequestsSound, LocksSound, [Next]_vars
    PROVE  LocksSound'
<1>1. ASSUME NEW r \in Requests, request'[r] # Idle, request'[r].op = "store"
      PROVE  request'[r].id \notin memory'
  <2>1. CASE request[r] = Idle
    BY <1>1, <2>1, Beginning
  <2>2. CASE Active(r)
    BY <1>1, <2>2, GoingOn, MemoryComes DEF LocksSound
  <2>3. QED
    BY <2>1, <2>2 DEF Active
<1>2. ASSUME NEW r \in Requests, NEW x \in Requests, r # x, request'[r] # Idle, request'[x] # Idle,
             request'[r].id = request'[x].id
      PROVE  request'[r].op # "store" /\ (Past(r)' /\ Past(x)' => request'[r].id \notin memory')
  <2>1. CASE request[r] = Idle
    <3>1. request'[x] = request[x] /\ Active(x)
      BY <1>2, <2>1, OthersStay DEF Active
    <3>2. request'[r].op # "store"
      BY <1>2, <2>1, <3>1, Beginning
    <3>3. request'[r].step = "lock"
      BY <1>2, <2>1, <3>2, Beginning DEF Request
    <3>4. QED
      BY <3>2, <3>3 DEF Past
  <2>2. CASE request[x] = Idle
    <3>1. request'[r] = request[r] /\ Active(r)
      BY <1>2, <2>2, OthersStay DEF Active
    <3>2. request'[x].op # "store"
      BY <1>2, <2>2, <3>1, Beginning
    <3>3. request'[x].step = "lock" /\ request'[x].id \in memory
      BY <1>2, <2>2, <3>2, Beginning DEF Request
    <3>4. request'[r].op # "store"
      BY <1>2, <3>1, <3>3 DEF LocksSound
    <3>5. QED
      BY <3>3, <3>4 DEF Past
  <2>3. CASE Active(r) /\ Active(x)
    <3>1. /\ request'[r].op = request[r].op /\ request'[r].id = request[r].id
          /\ request'[x].id = request[x].id
          /\ (Past(r)' /\ ~Past(r)) => LockMemory(r)
          /\ (Past(x)' /\ ~Past(x)) => LockMemory(x)
      BY <1>2, <2>3, GoingOn
    <3>2. request[r].op # "store" /\ (Past(r) /\ Past(x) => request[r].id \notin memory)
      BY <1>2, <2>3, <3>1 DEF LocksSound
    <3>3. ASSUME Past(r)', Past(x)' PROVE request[r].id \notin memory
      <4>1. CASE Past(r) /\ Past(x)
        BY <3>2, <4>1
      <4>2. CASE ~Past(r)
        <5>1. LockMemory(r) /\ request'[r] # request[r]
          BY <3>1, <3>3, <4>2 DEF Past, Active
        <5>2. Past(x)
          BY <1>2, <3>3, <5>1, OthersStay DEF Past, Active
        <5>3. QED
          BY <1>2, <3>1, <5>1, <5>2, LockGranted
      <4>3. CASE ~Past(x)
        <5>1. LockMemory(x) /\ request'[x] # request[x]
          BY <3>1, <3>3, <4>3 DEF Past, Active
        <5>2. Past(r)
          BY <1>2, <3>3, <5>1, OthersStay DEF Past, Active
        <5>3. QED
          BY <1>2, <3>1, <5>1, <5>2, LockGranted
      <4>4. QED
        BY <4>1, <4>2, <4>3
    <3>4. QED
      BY <1>2, <2>3, <3>1, <3>2, <3>3, MemoryComes
  <2>4. QED
    BY <2>1, <2>2, <2>3 DEF Active
<1>3. QED
  BY <1>1, <1>2 DEF LocksSound, Active

LEMMA ApartInductive ==
    ASSUME TypeOK, FiniteTags, RequestsSound, TagsApart, [Next]_vars
    PROVE  TagsApart'
<1>1. SUFFICES ASSUME NEW r \in Requests, NEW x \in Requests, r # x,
                      request'[r] # Idle, request'[x] # Idle, NEW y \in request'[r].newPairs
               PROVE  y.tag \notin request'[x].oldTags
  BY DEF TagsApart, Active
<1>2. CASE request[r] = Idle \/ request[x] = Idle
  BY <1>1, <1>2, Beginning
<1>3. CASE Active(r) /\ Active(x)
  <2>1. StepSound(r) /\ StepSound(x) /\ \A z \in request[r].newPairs : z.tag \notin request[x].oldTags
    BY <1>1, <1>3 DEF RequestsSound, TagsApart
  <2>2. CASE request'[r] # request[r]
    <3>1. request'[x] = request[x] /\ Moves(r)
      BY <1>1, <1>3, <2>2, OthersStay, Proceeding
    <3>2. CASE Attach(r)
      <4>1. PICK z : z = [memory |-> request[r].id, tag |-> request[r].tag]
        OBVIOUS
      <4>2. /\ request'[r].newPairs = request[r].newPairs \cup {z}
            /\ request[r].step = "attach" /\ WaitsFor(r) = {}
        BY <1>1, <2>1, <3>2, <4>1, AttachMoves
      <4>3. ~Blocks(request[x], request[r])
        BY <1>1, <1>3, <4>2 DEF WaitsFor
      <4>4. z.tag \notin request[x].oldTags
        BY <4>1, <4>2, <4>3 DEF Blocks
      <4>5. QED
        BY <1>1, <2>1, <3>1, <4>2, <4>4
    <3>3. CASE ~Attach(r)
      <4>1. request'[r].newPairs = request[r].newPairs
        BY <1>1, <2>1, <3>1, <3>3, LockMoves, CutMoves, InsertMoves, SelectMoves, SnapshotMoves,
           DeleteMoves, CascadeMoves DEF Moves
      <4>2. QED
        BY <1>1, <2>1, <3>1, <4>1
    <3>4. QED
      BY <3>2, <3>3
  <2>3. CASE request'[x] # request[x]
    <3>1. request'[r] = request[r] /\ Moves(x)
      BY <1>1, <1>3, <2>3, OthersStay, Proceeding
    <3>2. CASE CleanDelete(x)
      <4>1. /\ request'[x].oldTags \subseteq request[x].oldTags \cup {Head(request[x].orphans)}
            /\ request[x].step = "delete" /\ WaitsFor(x) = {}
        BY <2>1, <3>2, DeleteMoves
      <4>2. ~Blocks(request[r], request[x])
        BY <1>1, <1>3, <4>1 DEF WaitsFor
      <4>3. y.tag # Head(request[x].orphans)
        BY <1>1, <3>1, <4>1, <4>2 DEF Blocks
      <4>4. QED
        BY <1>1, <2>1, <3>1, <4>1, <4>3
    <3>3. CASE ~CleanDelete(x)
      <4>1. request'[x].oldTags = request[x].oldTags
        BY <1>1, <2>1, <3>1, <3>3, LockMoves, CutMoves, InsertMoves, SelectMoves, AttachMoves,
           SnapshotMoves, CascadeMoves DEF Moves
      <4>2. QED
        BY <1>1, <2>1, <3>1, <4>1
    <3>4. QED
      BY <3>2, <3>3
  <2>4. QED
    BY <1>1, <2>1, <2>2, <2>3
<1>4. QED
  BY <1>2, <1>3 DEF Active

LEMMA InitIInv ==
    ASSUME Init
    PROVE  IInv
<1>1. \A r \in Requests : request[r] = Idle
  BY DEF Init
<1>2. TypeOK
  BY DEF Init, TypeOK
<1>3. FiniteTags
  BY <1>1, FS_EmptySet DEF Init, FiniteTags, Active
<1>4. RequestsSound /\ LocksSound /\ TagsApart /\ NoDanglingPairs
  BY <1>1 DEF Init, RequestsSound, LocksSound, TagsApart, NoDanglingPairs, Active
<1>5. QED
  BY <1>2, <1>3, <1>4 DEF IInv

LEMMA IInvInductive ==
    ASSUME IInv, [Next]_vars
    PROVE  IInv'
<1>1. TypeOK' /\ FiniteTags'
  BY TypeInductive, FiniteInductive DEF IInv
<1>2. ASSUME NEW r \in Requests, request'[r] # Idle
      PROVE  /\ StepSound(r)' /\ AskedSound(r)' /\ NewPairsSound(r)'
             /\ CutSound(r)' /\ CascadeSound(r)'
  BY <1>2, StepInductive, AskedInductive, NewPairsInductive, CutInductive, CascadeInductive
     DEF IInv
<1>3. RequestsSound'
  BY <1>2 DEF RequestsSound, Active
<1>4. LocksSound' /\ TagsApart' /\ NoDanglingPairs'
  BY LocksInductive, ApartInductive, DanglingInductive DEF IInv
<1>5. QED
  BY <1>1, <1>3, <1>4 DEF IInv

LEMMA Invariant == Spec => []IInv
<1>1. Init => IInv
  BY InitIInv
<1>2. IInv /\ [Next]_vars => IInv'
  BY IInvInductive
<1>3. QED
  BY <1>1, <1>2, PTL DEF Spec

-----------------------------------------------------------------------------
(* The theorems                                                            *)

(* The tables hold rows, and every request in flight is a request.         *)
THEOREM TypeCorrect == Spec => []TypeOK
<1>1. IInv => TypeOK
  BY DEF IInv
<1>2. QED
  BY <1>1, Invariant, PTL

(* Whatever clean-ups, updates, deletes, crashes and deadlock victims come *)
(* between the statements of a request, a pair in memory_tags has its      *)
(* memory and its tag.                                                     *)
THEOREM NoDanglingTheorem == Spec => []NoDanglingPairs
<1>1. IInv => NoDanglingPairs
  BY DEF IInv
<1>2. QED
  BY <1>1, Invariant, PTL

LEMMA CommitStores ==
    ASSUME IInv, NEW r \in Requests, Commit(r)
    PROVE  NamesIn(tag', pair', request[r].id) = request[r].asked
<1> DEFINE q == request[r]
<1>1. /\ q.step = "commit" /\ Active(r) /\ q \in Request
      /\ q.op \in {"store", "replace", "delete"}
      /\ tag' = (tag \ q.oldTags) \cup q.newTags
      /\ pair' = (pair \ q.oldPairs) \cup q.newPairs
  BY Committing DEF IInv
<1>2. StepSound(r) /\ AskedSound(r) /\ NewPairsSound(r) /\ CutSound(r)
  BY <1>1 DEF IInv, RequestsSound
<1>3. q.todo = <<>> /\ ToSet(<<>>) = {}
  BY <1>1, <1>2, ToSetShape, EmptySeq DEF StepSound
<1>4. {y.tag.name : y \in q.newPairs} = q.asked
  BY <1>2, <1>3 DEF AskedSound
<1>5. \A y \in pair \ q.oldPairs : y.memory # q.id
  <2>1. CASE q.op = "store"
    BY <1>1, <2>1 DEF IInv, LocksSound, NoDanglingPairs
  <2>2. CASE q.op # "store"
    BY <1>1, <1>2, <2>2 DEF CutSound, PairsOf
  <2>3. QED
    BY <2>1, <2>2
<1>6. \A y \in q.newPairs : y \in PairRow /\ y.memory = q.id /\ y.tag \in tag'
  BY <1>1, <1>2 DEF NewPairsSound, SeenTags, Request
<1>7. ASSUME NEW n \in NamesIn(tag', pair', q.id) PROVE n \in q.asked
  <2>1. PICK t \in tag' : n = t.name /\ [memory |-> q.id, tag |-> t] \in pair'
    BY DEF NamesIn
  <2>2. PICK y : y = [memory |-> q.id, tag |-> t]
    OBVIOUS
  <2>3. y.memory = q.id /\ y.tag.name = n
    BY <2>1, <2>2
  <2>4. y \in q.newPairs
    BY <1>1, <1>5, <2>1, <2>2, <2>3
  <2>5. QED
    BY <1>4, <2>3, <2>4
<1>8. ASSUME NEW n \in q.asked PROVE n \in NamesIn(tag', pair', q.id)
  <2>1. PICK y \in q.newPairs : n = y.tag.name
    BY <1>4
  <2>2. y = [memory |-> q.id, tag |-> y.tag] /\ y.tag \in tag'
    BY <1>6 DEF PairRow
  <2>3. [memory |-> q.id, tag |-> y.tag] \in pair'
    BY <1>1, <2>2
  <2>4. QED
    BY <2>1, <2>2, <2>3 DEF NamesIn
<1>9. QED
  BY <1>7, <1>8

(* A store or an update that commits leaves its memory with the tags it    *)
(* asked for and a delete with none, for any number of requests whose      *)
(* clean-ups delete tags between its statements.                           *)
THEOREM AskedTheorem == Spec => CommitStoresAskedTags
<1>1. IInv /\ [Next]_vars =>
        [\A r \in Requests :
           Commit(r) => NamesIn(tag', pair', request[r].id) = request[r].asked]_vars
  BY CommitStores
<1>2. QED
  BY <1>1, Invariant, PTL DEF Spec, CommitStoresAskedTags

=============================================================================
