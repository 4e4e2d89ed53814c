---------------------------- MODULE MemoriesProofs ----------------------------
(***************************************************************************)
(* Proofs, for every set of users, workspaces, memories, texts, tags and   *)
(* request slots, of the properties of Memories.                           *)
(***************************************************************************)
EXTENDS Memories, SequenceLemmas

-----------------------------------------------------------------------------
(* The inductive invariant                                                 *)

Busy(r, op) == request[r] # Idle /\ request[r].op = op

(* An import has items left until it comes to its commit.                  *)
ItemsLeft ==
    \A r \in Requests :
        (Busy(r, "import") /\ request[r].step # "commit") => request[r].todo # <<>>

(* An update that has read the row embeds a text just if it changes it.    *)
EmbedsChanges ==
    \A r \in Requests :
        (AtStep(r, "update", "write") /\ request[r].embed # Unset) =>
            request[r].set.content # Unset \/ request[r].set.tags # Unset

(* A store without force that is about to write has seen nothing near what *)
(* it writes; what has happened since may be near.                         *)
SeenFar ==
    \A r \in Requests :
        (AtStep(r, "store", "write") /\ ~request[r].force) =>
            LET q == request[r] IN
            \A p \in q.seen : ~Near(p[2], EmbedText(q.content, q.tags))

(* What the unique constraints say of rows that are not committed yet: the *)
(* rows an import has inserted are in a live workspace and clash neither   *)
(* with each other, nor with a memory there, nor with another import's.    *)
Clash(i, j) == i.content = j.content \/ i.name = j.name

ClaimsHold ==
    /\ \A r \in Requests : Busy(r, "import") =>
          /\ request[r].new # {} => request[r].ws \in liveWs
          /\ \A i, j \in request[r].new : Clash(i, j) => i = j
          /\ \A i \in request[r].new, m \in In(request[r].ws) : ~Clash(i, memory[m])
          /\ request[r].step = "insert" =>
                \A i \in request[r].new : i.content # Head(request[r].todo).content
    /\ \A r, x \in Requests :
          (Busy(r, "import") /\ Busy(x, "import") /\ r # x /\ request[r].ws = request[x].ws) =>
              \A i \in request[r].new, j \in request[x].new : ~Clash(i, j)

IInv == TypeOK /\ ItemsLeft /\ EmbedsChanges /\ SeenFar /\ MemoryInLiveWorkspace
          /\ UniquePerWorkspace /\ ClaimsHold

-----------------------------------------------------------------------------
(* Tags and embeddings                                                     *)

(* What the normalisation of tags leaves is made of tags, and is left as   *)
(* it is by another normalisation.                                         *)
LEMMA TagSetStored ==
    ASSUME NEW T \in SUBSET RawTags
    PROVE  TagSet(T) \in StoredTags /\ TagSet(T) \subseteq RawTags
  BY NormalAssumption DEF TagSet, StoredTags

LEMMA StoredIsNormal ==
    ASSUME NEW T \in StoredTags
    PROVE  T \subseteq RawTags /\ TagSet(T) = T
<1>1. \A n \in T : n \in RawTags /\ Normal[n] = n /\ n # Blank
  <2> SUFFICES ASSUME NEW n \in T PROVE n \in RawTags /\ Normal[n] = n /\ n # Blank
    OBVIOUS
  <2>1. PICK t \in RawTags : n = Normal[t] /\ n # Blank
    BY DEF StoredTags, TagSet
  <2>2. QED
    BY <2>1, NormalAssumption
<1>2. QED
  BY <1>1 DEF TagSet

(* The row that a store or an import inserts.                              *)
LEMMA NewRow ==
    ASSUME NEW w \in WsIds, NEW n \in Names, NEW c \in Contents, NEW T \in SUBSET RawTags
    PROVE  [state |-> "live", ws |-> w, name |-> n, content |-> c, tags |-> TagSet(T),
            embedding |-> EmbedText(c, T)] \in MemoryRow
  BY TagSetStored DEF MemoryRow, Embedding, EmbedText

-----------------------------------------------------------------------------
(* Shapes                                                                  *)

(* A memory that is live has a row.                                        *)
LEMMA LiveRow ==
    ASSUME TypeOK, NEW m \in MemIds, Live(m)
    PROVE  memory[m] \in MemoryRow
  BY DEF TypeOK, Live, NoRow

(* What the near-duplicate check records.                                  *)
LEMMA SeenTyped ==
    ASSUME TypeOK, NEW w \in WsIds
    PROVE  Seen(w) \in SUBSET (MemIds \X Embedding)
  BY LiveRow DEF Seen, In, MemoryRow

(* What a request in flight holds, by operation.                           *)
LEMMA RequestShape ==
    ASSUME TypeOK, NEW r \in Requests
    PROVE  /\ Busy(r, "store") => request[r] \in StoreRequest
           /\ Busy(r, "update") => request[r] \in UpdateRequest
           /\ Busy(r, "delete") => request[r] \in DeleteRequest
           /\ Busy(r, "move") => request[r] \in MoveRequest
           /\ Busy(r, "import") => request[r] \in ImportRequest
           /\ Busy(r, "reembed") => request[r] \in ReembedRequest
<1> request[r] \in Request
  BY DEF TypeOK
<1> QED
  BY DEF Request, Busy, StoreRequest, UpdateRequest, DeleteRequest, MoveRequest,
         ImportRequest, ReembedRequest

(* The next item of an import that has one.                                *)
LEMMA NextItemShape ==
    ASSUME NEW q \in ImportRequest, q.todo # <<>>
    PROVE  /\ Head(q.todo) \in Item
           /\ NextItem(q) \in ImportRequest
           /\ NextItem(q).op = "import" /\ NextItem(q).ws = q.ws /\ NextItem(q).user = q.user
           /\ NextItem(q).items = q.items /\ NextItem(q).new = q.new
           /\ NextItem(q).todo = Tail(q.todo)
           /\ NextItem(q).step \in {"lookup", "commit"}
           /\ NextItem(q).step = "commit" <=> NextItem(q).todo = <<>>
<1>1. q.todo \in Seq(Item)
  BY DEF ImportRequest
<1>2. /\ Head(q.todo) \in Item
      /\ Tail(q.todo) \in Seq(Item)
      /\ Len(q.todo) = 1 <=> Tail(q.todo) = <<>>
  BY <1>1, RestOfSeq
<1>3. QED
  BY <1>2 DEF NextItem, ImportRequest

(* So with an item added to those that are inserted.                       *)
LEMMA AddItemShape ==
    ASSUME NEW q \in ImportRequest, q.todo # <<>>
    PROVE  LET p == [q EXCEPT !.new = @ \cup {Head(q.todo)}]
           IN  /\ p \in ImportRequest
               /\ p.op = "import" /\ p.ws = q.ws /\ p.user = q.user /\ p.items = q.items
               /\ p.todo = q.todo /\ p.new = q.new \cup {Head(q.todo)}
  BY NextItemShape DEF ImportRequest

(* A request goes on to one of the steps of its operation.                 *)
LEMMA GotoShape ==
    ASSUME TypeOK, NEW r \in Requests, NEW step, Goto(r, step),
           \/ Busy(r, "store") /\ step \in {"dedup", "write"}
           \/ Busy(r, "move") /\ step = "write"
           \/ Busy(r, "import") /\ step = "insert"
    PROVE  request' \in [Requests -> Request]
<1>1. [request[r] EXCEPT !.step = step] \in Request
  BY RequestShape DEF Request, Busy, StoreRequest, MoveRequest, ImportRequest
<1>2. QED
  BY <1>1 DEF TypeOK, Goto

-----------------------------------------------------------------------------
(* Type correctness                                                        *)

LEMMA InitTyped == Init => TypeOK
  BY RoleAssumption DEF Init, TypeOK, NoRow, Unused, Request

(* An action that only starts a request.                                   *)
LEMMA BeginTyped ==
    ASSUME TypeOK, NEW r \in Requests, UNCHANGED <<liveWs, role, memory>>,
           StoreBegin(r) \/ UpdateBegin(r) \/ DeleteBegin(r) \/ MoveBegin(r)
             \/ ImportBegin(r) \/ ReembedBegin(r)
    PROVE  TypeOK'
<1>0. ASSUME NEW q \in Request, Begin(r, q) PROVE TypeOK'
  BY <1>0 DEF Begin, TypeOK
<1>1. CASE StoreBegin(r)
  BY <1>0, <1>1 DEF StoreBegin, Request, StoreRequest
<1>2. CASE UpdateBegin(r)
  BY <1>0, <1>2, InputAssumption DEF UpdateBegin, Request, UpdateRequest
<1>3. CASE DeleteBegin(r)
  BY <1>0, <1>3 DEF DeleteBegin, Request, DeleteRequest
<1>4. CASE MoveBegin(r)
  BY <1>0, <1>4 DEF MoveBegin, Request, MoveRequest
<1>5. CASE ImportBegin(r)
  <2>1. PICK u \in Users, w \in WsIds, b \in Batches :
            Begin(r, [op |-> "import", user |-> u, ws |-> w, items |-> b, todo |-> b,
                      new |-> {}, step |-> "lookup"])
    BY <1>5 DEF ImportBegin
  <2>2. b \in Seq(Item)
    BY InputAssumption
  <2>3. QED
    BY <1>0, <2>1, <2>2 DEF Request, ImportRequest
<1>6. CASE ReembedBegin(r)
  <2>1. [m \in MemIds |-> IF Live(m) THEN memory[m].content ELSE Unset]
            \in [MemIds -> Contents \cup {Unset}]
    BY LiveRow DEF MemoryRow
  <2>2. QED
    BY <1>0, <1>6, <2>1 DEF ReembedBegin, Request, ReembedRequest
<1>7. QED
  BY <1>1, <1>2, <1>3, <1>4, <1>5, <1>6

(* The lookups in between only change the request.                         *)
LEMMA LookupTyped ==
    ASSUME TypeOK, ItemsLeft, NEW r \in Requests, UNCHANGED <<liveWs, role, memory>>,
           StoreLookup(r) \/ StoreDedup(r) \/ UpdateRead(r) \/ MoveRead(r) \/ MoveCheck(r)
             \/ ImportLookup(r) \/ ImportInsert(r) \/ Rollback(r)
    PROVE  TypeOK'
<1>0. SUFFICES request' \in [Requests -> Request]
  BY DEF TypeOK
<1>1. CASE Finish(r)
  BY <1>1 DEF Finish, TypeOK, Request
<1>2. ASSUME NEW q \in Request, request' = [request EXCEPT ![r] = q]
      PROVE  request' \in [Requests -> Request]
  BY <1>2 DEF TypeOK
<1>3. CASE StoreLookup(r)
  BY <1>1, <1>3, GotoShape DEF StoreLookup, AtStep, Busy
<1>9. CASE StoreDedup(r) /\ ~Finish(r)
  <2> DEFINE q == request[r]
             p == [q EXCEPT !.step = "write", !.seen = Seen(q.ws)]
  <2>1. q \in StoreRequest
    BY <1>9, RequestShape DEF StoreDedup, AtStep, Busy
  <2>2. request' = [request EXCEPT ![r] = p]
    BY <1>9 DEF StoreDedup
  <2>3. Seen(q.ws) \in SUBSET (MemIds \X Embedding)
    BY <2>1, SeenTyped DEF StoreRequest
  <2>4. p \in StoreRequest
    BY <2>1, <2>3 DEF StoreRequest
  <2>5. QED
    BY <2>2, <2>4, <1>2 DEF Request
<1>4. CASE UpdateRead(r) /\ ~Finish(r)
  <2> DEFINE q == request[r]
             row == memory[q.id]
             e == IF q.set.content = Unset /\ q.set.tags = Unset THEN Unset
                  ELSE EmbedText(Given(q.set.content, row.content), Given(q.set.tags, row.tags))
  <2>1. q \in UpdateRequest
    BY <1>4, RequestShape DEF UpdateRead, AtStep, Busy
  <2>2. Live(q.id) /\ request' = [request EXCEPT ![r].step = "write", ![r].embed = e]
    BY <1>4 DEF UpdateRead, In
  <2>3. row \in MemoryRow
    BY <2>1, <2>2, LiveRow DEF UpdateRequest
  <2>4. q.set \in Changes /\ row.content \in Contents /\ row.tags \subseteq RawTags
    BY <2>1, <2>3, StoredIsNormal DEF UpdateRequest, MemoryRow
  <2>5. e \in {Unset} \cup Embedding
    BY <2>4 DEF Changes, Given, EmbedText, Embedding
  <2>6. [q EXCEPT !.step = "write", !.embed = e] \in UpdateRequest
    BY <2>1, <2>5 DEF UpdateRequest
  <2>7. request' = [request EXCEPT ![r] = [q EXCEPT !.step = "write", !.embed = e]]
    BY <2>2
  <2>8. QED
    BY <2>6, <2>7, <1>2 DEF Request
<1>5. CASE MoveRead(r) /\ ~Finish(r)
  <2> DEFINE q == request[r]
             p == [q EXCEPT !.step = "check", !.name = memory[q.id].name,
                            !.content = memory[q.id].content]
  <2>1. q \in MoveRequest
    BY <1>5, RequestShape DEF MoveRead, AtStep, Busy
  <2>2. Live(q.id) /\ request' = [request EXCEPT ![r] = p]
    BY <1>5 DEF MoveRead, In
  <2>3. memory[q.id] \in MemoryRow
    BY <2>1, <2>2, LiveRow DEF MoveRequest
  <2>4. p \in MoveRequest
    BY <2>1, <2>3 DEF MoveRequest, MemoryRow
  <2>5. QED
    BY <2>2, <2>4, <1>2 DEF Request
<1>6. CASE MoveCheck(r)
  BY <1>1, <1>6, GotoShape DEF MoveCheck, AtStep, Busy
<1>7. CASE (ImportLookup(r) \/ ImportInsert(r)) /\ ~Finish(r)
  <2> DEFINE q == request[r]
             p == [q EXCEPT !.new = @ \cup {Head(q.todo)}]
  <2>1. q \in ImportRequest /\ q.todo # <<>>
    BY <1>7, RequestShape DEF ImportLookup, ImportInsert, AtStep, Busy, ItemsLeft
  <2>2. p \in ImportRequest /\ p.todo # <<>>
    BY <2>1, AddItemShape
  <2>3. NextItem(q) \in ImportRequest /\ NextItem(p) \in ImportRequest
    BY <2>1, <2>2, NextItemShape
  <2>4. CASE request' = [request EXCEPT ![r] = NextItem(q)]
    BY <2>3, <2>4, <1>2 DEF Request
  <2>5. CASE request' = [request EXCEPT ![r] = NextItem(p)]
    BY <2>3, <2>5, <1>2 DEF Request
  <2>6. CASE ImportLookup(r) /\ Goto(r, "insert")
    BY <2>6, GotoShape DEF ImportLookup, AtStep, Busy
  <2>7. QED
    BY <1>7, <2>4, <2>5, <2>6 DEF ImportLookup, ImportInsert
<1>8. QED
  BY <1>1, <1>3, <1>4, <1>5, <1>6, <1>7, <1>9 DEF Rollback, StoreDedup

(* The row that a request q inserts, of an item, or of what it asks to     *)
(* store itself.                                                           *)
InsertedRow(q, x) ==
    [state |-> "live", ws |-> q.ws, name |-> x.name, content |-> x.content,
     tags |-> TagSet(x.tags), embedding |-> EmbedText(x.content, x.tags)]

(* The commit of an import gives every item a row of its own, where there  *)
(* was none.                                                               *)
LEMMA CommitRows ==
    ASSUME TypeOK, NEW r \in Requests, ImportCommit(r)
    PROVE  \E id \in [request[r].new -> MemIds] :
              /\ \A x \in request[r].new :
                    memory[id[x]] = Unused /\ memory'[id[x]] = InsertedRow(request[r], x)
              /\ \A x, y \in request[r].new : id[x] = id[y] => x = y
              /\ \A m \in MemIds :
                    (\A x \in request[r].new : id[x] # m) => memory'[m] = memory[m]
<1> DEFINE q == request[r]
<1>1. PICK id \in [q.new -> {m \in MemIds : memory[m] = Unused}] :
          /\ \A x, y \in q.new : id[x] = id[y] => x = y
          /\ memory' = [m \in MemIds |->
                IF \E x \in q.new : id[x] = m
                  THEN InsertedRow(q, CHOOSE y \in q.new : id[y] = m)
                  ELSE memory[m]]
  BY DEF ImportCommit, InsertedRow
<1>2. ASSUME NEW x \in q.new
      PROVE  memory[id[x]] = Unused /\ memory'[id[x]] = InsertedRow(q, x)
  <2>1. id[x] \in MemIds /\ memory[id[x]] = Unused
    BY <1>1
  <2>2. (CHOOSE y \in q.new : id[y] = id[x]) = x
    BY <1>1
  <2>3. QED
    BY <1>1, <2>1, <2>2
<1>3. id \in [q.new -> MemIds]
  BY <1>1
<1>4. QED
  BY <1>1, <1>2, <1>3

LEMMA WriteTyped ==
    ASSUME TypeOK, NEW r \in Requests, UNCHANGED <<liveWs, role>>,
           StoreWrite(r) \/ UpdateWrite(r) \/ DeleteWrite(r) \/ MoveWrite(r)
             \/ ImportCommit(r) \/ ReembedWrite(r)
    PROVE  TypeOK'
<1> DEFINE q == request[r]
           Rows == [MemIds -> MemoryRow \cup NoRow]
<1>1. request' \in [Requests -> Request]
  BY DEF TypeOK, Request, Finish, StoreWrite, UpdateWrite, DeleteWrite, MoveWrite,
         ImportCommit, ReembedWrite
<1>2. SUFFICES memory' \in Rows
  BY <1>1 DEF TypeOK
<1>3. ASSUME NEW m \in MemIds, NEW row \in MemoryRow \cup NoRow,
             memory' = [memory EXCEPT ![m] = row]
      PROVE  memory' \in Rows
  BY <1>3 DEF TypeOK
<1>4. CASE UNCHANGED memory
  BY <1>4 DEF TypeOK
<1>5. CASE StoreWrite(r) /\ memory' # memory
  <2>1. q \in StoreRequest
    BY <1>5, RequestShape DEF StoreWrite, AtStep, Busy
  <2>2. InsertedRow(q, q) \in MemoryRow
    BY <2>1, NewRow DEF StoreRequest, InsertedRow
  <2>3. PICK m \in MemIds : memory' = [memory EXCEPT ![m] = InsertedRow(q, q)]
    BY <1>5 DEF StoreWrite, InsertedRow
  <2>4. QED
    BY <1>3, <2>2, <2>3
<1>6. CASE UpdateWrite(r) /\ memory' # memory
  <2>1. q \in UpdateRequest
    BY <1>6, RequestShape DEF UpdateWrite, AtStep, Busy
  <2>2. Live(q.id) /\ memory' = [memory EXCEPT ![q.id] = Updated(memory[q.id], q.set, q.embed)]
    BY <1>6 DEF UpdateWrite
  <2>3. memory[q.id] \in MemoryRow /\ q.set \in Changes /\ q.embed \in {Unset} \cup Embedding
    BY <2>1, <2>2, LiveRow DEF UpdateRequest
  <2>4. q.set.tags # Unset => TagSet(q.set.tags) \in StoredTags
    BY <2>3, TagSetStored DEF Changes
  <2>5. Updated(memory[q.id], q.set, q.embed) \in MemoryRow
    BY <2>3, <2>4 DEF Updated, Given, MemoryRow, Changes
  <2>6. QED
    BY <1>3, <2>1, <2>2, <2>5 DEF UpdateRequest
<1>7. CASE DeleteWrite(r) /\ memory' # memory
  BY <1>3, <1>7 DEF DeleteWrite, In, Deleted, NoRow
<1>8. CASE MoveWrite(r) /\ memory' # memory
  <2>1. q \in MoveRequest
    BY <1>8, RequestShape DEF MoveWrite, AtStep, Busy
  <2>2. Live(q.id) /\ memory' = [memory EXCEPT ![q.id].ws = q.to]
    BY <1>8 DEF MoveWrite
  <2>3. [memory[q.id] EXCEPT !.ws = q.to] \in MemoryRow
    BY <2>1, <2>2, LiveRow DEF MoveRequest, MemoryRow
  <2>4. memory' = [memory EXCEPT ![q.id] = [memory[q.id] EXCEPT !.ws = q.to]]
    BY <2>2
  <2>5. QED
    BY <1>3, <2>1, <2>3, <2>4 DEF MoveRequest
<1>9. CASE ImportCommit(r)
  <2>1. q \in ImportRequest
    BY <1>9, RequestShape DEF ImportCommit, AtStep, Busy
  <2>2. \A x \in q.new : InsertedRow(q, x) \in MemoryRow
    BY <2>1, NewRow DEF ImportRequest, InsertedRow, Item
  <2>3. \A m \in MemIds : memory'[m] \in MemoryRow \cup NoRow
    BY <1>9, <2>2, CommitRows DEF TypeOK
  <2>4. memory' = [m \in MemIds |-> memory'[m]]
    BY <1>9 DEF ImportCommit
  <2>5. QED
    BY <2>3, <2>4
<1>10. CASE ReembedWrite(r)
  <2>1. q \in ReembedRequest
    BY <1>10, RequestShape DEF ReembedWrite, AtStep, Busy
  <2>2. ASSUME NEW m \in MemIds, Live(m), q.read[m] # Unset
        PROVE  [memory[m] EXCEPT !.embedding = EmbedText(q.read[m], {})] \in MemoryRow
    BY <2>1, <2>2, LiveRow DEF ReembedRequest, MemoryRow, EmbedText, Embedding
  <2>3. QED
    BY <1>10, <2>2 DEF ReembedWrite, TypeOK
<1>11. QED
  BY <1>4, <1>5, <1>6, <1>7, <1>8, <1>9, <1>10

LEMMA OutsideTyped ==
    ASSUME TypeOK, NEW u \in Users, NEW w \in WsIds, JoinOrLeave(u, w) \/ DeleteWorkspace(w)
    PROVE  TypeOK'
<1>1. CASE JoinOrLeave(u, w)
  <2>1. \A ro \in Roles : [role EXCEPT ![w][u] = ro] \in [WsIds -> [Users -> Roles]]
    BY DEF TypeOK
  <2>2. role' \in [WsIds -> [Users -> Roles]]
    BY <1>1, <2>1 DEF JoinOrLeave, Roles
  <2>3. QED
    BY <1>1, <2>2 DEF JoinOrLeave, TypeOK
<1>2. CASE DeleteWorkspace(w)
  <2>1. [v \in Users |-> "none"] \in [Users -> Roles]
    BY DEF Roles
  <2>2. role' \in [WsIds -> [Users -> Roles]]
    BY <1>2, <2>1 DEF DeleteWorkspace, TypeOK
  <2>3. memory' \in [MemIds -> MemoryRow \cup NoRow]
    BY <1>2 DEF DeleteWorkspace, TypeOK, Deleted, NoRow
  <2>4. QED
    BY <1>2, <2>2, <2>3 DEF DeleteWorkspace, TypeOK
<1>3. QED
  BY <1>1, <1>2

LEMMA TypeInductive == TypeOK /\ ItemsLeft /\ [Next]_vars => TypeOK'
<1> SUFFICES ASSUME TypeOK, ItemsLeft, [Next]_vars PROVE TypeOK'
  OBVIOUS
<1>1. CASE UNCHANGED vars
  BY <1>1 DEF vars, TypeOK
<1>2. ASSUME NEW r \in Requests,
             StoreBegin(r) \/ UpdateBegin(r) \/ DeleteBegin(r) \/ MoveBegin(r)
               \/ ImportBegin(r) \/ ReembedBegin(r)
      PROVE  TypeOK'
  BY <1>2, BeginTyped
     DEF StoreBegin, UpdateBegin, DeleteBegin, MoveBegin, ImportBegin, ReembedBegin
<1>3. ASSUME NEW r \in Requests,
             StoreLookup(r) \/ StoreDedup(r) \/ UpdateRead(r) \/ MoveRead(r) \/ MoveCheck(r)
               \/ ImportLookup(r) \/ ImportInsert(r) \/ Rollback(r)
      PROVE  TypeOK'
  BY <1>3, LookupTyped DEF StoreLookup, StoreDedup, UpdateRead, MoveRead, MoveCheck,
                           ImportLookup, ImportInsert, Rollback
<1>4. ASSUME NEW r \in Requests,
             StoreWrite(r) \/ UpdateWrite(r) \/ DeleteWrite(r) \/ MoveWrite(r)
               \/ ImportCommit(r) \/ ReembedWrite(r)
      PROVE  TypeOK'
  BY <1>4, WriteTyped DEF StoreWrite, UpdateWrite, DeleteWrite, MoveWrite, ImportCommit,
                          ReembedWrite
<1>5. ASSUME NEW u \in Users, NEW w \in WsIds, JoinOrLeave(u, w) PROVE TypeOK'
  BY <1>5, OutsideTyped
<1>6. ASSUME NEW w \in WsIds, DeleteWorkspace(w) PROVE TypeOK'
  BY <1>6, OutsideTyped DEF DeleteWorkspace
<1>7. QED
  BY <1>1, <1>2, <1>3, <1>4, <1>5, <1>6 DEF Next

-----------------------------------------------------------------------------
(* Requests in flight                                                      *)

(* A request goes from step to step of its own operation.                  *)
LEMMA OpStays ==
    ASSUME TypeOK, NEW r \in Requests, NEW x \in Requests, NEW step, Goto(r, step),
           \/ Busy(r, "store") \/ Busy(r, "move") \/ Busy(r, "import")
    PROVE  /\ request'[r].op = request[r].op
           /\ x # r => request'[x] = request[x]
  BY RequestShape DEF TypeOK, Goto, Busy, StoreRequest, MoveRequest, ImportRequest

(* What is done in a step to a request that is an import afterwards, or an *)
(* update or a store about to write, or a run of the script.               *)
LEMMA StepsOfRequest ==
    ASSUME TypeOK, [Next]_vars, NEW x \in Requests, request'[x] # request[x]
    PROVE  /\ Busy(x, "import")' =>
                ImportBegin(x) \/ ImportLookup(x) \/ ImportInsert(x)
           /\ AtStep(x, "update", "write")' => UpdateRead(x)
           /\ AtStep(x, "store", "write")' => StoreLookup(x) \/ StoreDedup(x)
           /\ Busy(x, "reembed")' => ReembedBegin(x)
<1> DEFINE Goal == /\ Busy(x, "import")' =>
                         ImportBegin(x) \/ ImportLookup(x) \/ ImportInsert(x)
                   /\ AtStep(x, "update", "write")' => UpdateRead(x)
                   /\ AtStep(x, "store", "write")' => StoreLookup(x) \/ StoreDedup(x)
                   /\ Busy(x, "reembed")' => ReembedBegin(x)
<1>0. ASSUME NEW r \in Requests, Finish(r) PROVE Goal
  BY <1>0 DEF Finish, TypeOK, Busy, AtStep
<1>1. ASSUME NEW r \in Requests, StoreBegin(r) \/ DeleteBegin(r) \/ MoveBegin(r)
      PROVE  Goal
  BY <1>1 DEF StoreBegin, DeleteBegin, MoveBegin, Begin, TypeOK, Busy, AtStep
<1>2. ASSUME NEW r \in Requests, UpdateBegin(r) PROVE Goal
  BY <1>2 DEF UpdateBegin, Begin, TypeOK, Busy, AtStep
<1>3. ASSUME NEW r \in Requests, ImportBegin(r) \/ ReembedBegin(r) PROVE Goal
  <2>1. /\ x = r
        /\ ImportBegin(r) => request'[x].op = "import"
        /\ ReembedBegin(r) => request'[x].op = "reembed"
    BY <1>3 DEF ImportBegin, ReembedBegin, Begin, TypeOK
  <2>2. QED
    BY <1>3, <2>1 DEF AtStep, Busy
<1>4. ASSUME NEW r \in Requests, StoreLookup(r) \/ MoveCheck(r) PROVE Goal
  <2>1. /\ StoreLookup(r) => Busy(r, "store")
        /\ MoveCheck(r) => Busy(r, "move")
    BY DEF StoreLookup, MoveCheck, AtStep, Busy
  <2>2. ASSUME NEW step, Goto(r, step) PROVE Goal
    <3>1. request'[r].op = request[r].op /\ x = r
      BY <1>4, <2>1, <2>2, OpStays
    <3>2. QED
      BY <1>4, <2>1, <3>1 DEF Busy, AtStep
  <2>3. QED
    BY <1>0, <1>4, <2>2 DEF StoreLookup, MoveCheck
<1>11. ASSUME NEW r \in Requests, StoreDedup(r) PROVE Goal
  <2>1. request[r] \in StoreRequest
    BY <1>11, RequestShape DEF StoreDedup, AtStep, Busy
  <2>2. x = r /\ (request'[x] = Idle \/ request'[x].op = "store")
    BY <1>11, <2>1 DEF StoreDedup, Finish, TypeOK, StoreRequest
  <2>3. QED
    BY <1>11, <2>2 DEF AtStep, Busy
<1>5. ASSUME NEW r \in Requests, UpdateRead(r) PROVE Goal
  <2>1. CASE x # r
    BY <1>5, <1>0, <2>1 DEF UpdateRead, TypeOK
  <2>2. CASE x = r
    <3>1. request[x] \in UpdateRequest
      BY <1>5, <2>2, RequestShape DEF UpdateRead, AtStep, Busy
    <3>2. request'[x] = Idle \/ request'[x].op = "update"
      BY <1>5, <2>2, <3>1 DEF UpdateRead, Finish, TypeOK, UpdateRequest
    <3>3. QED
      BY <1>5, <2>2, <3>2 DEF AtStep, Busy
  <2>3. QED
    BY <2>1, <2>2
<1>6. ASSUME NEW r \in Requests, MoveRead(r) PROVE Goal
  <2>1. request[r] \in MoveRequest
    BY <1>6, RequestShape DEF MoveRead, AtStep, Busy
  <2>2. x = r /\ (request'[x] = Idle \/ request'[x].op = "move")
    BY <1>6, <2>1 DEF MoveRead, Finish, TypeOK, MoveRequest
  <2>3. QED
    BY <2>2 DEF AtStep, Busy
<1>7. ASSUME NEW r \in Requests, ImportLookup(r) \/ ImportInsert(r) PROVE Goal
  <2> DEFINE q == request[r]
  <2>1. q \in ImportRequest
    BY <1>7, RequestShape DEF ImportLookup, ImportInsert, AtStep, Busy
  <2>2. CASE \E step : Goto(r, step)
    <3>1. request'[r].op = "import" /\ x = r
      BY <2>1, <2>2, <1>7, OpStays DEF ImportLookup, ImportInsert, AtStep, Busy
    <3>2. QED
      BY <1>7, <3>1 DEF AtStep, Busy
  <2>3. ASSUME NEW new,
               request' = [request EXCEPT ![r] = NextItem([q EXCEPT !.new = new])]
        PROVE  Goal
    <3>1. NextItem([q EXCEPT !.new = new]).op = "import"
      BY <2>1 DEF NextItem, ImportRequest
    <3>2. request'[r].op = "import" /\ x = r
      BY <2>3, <3>1 DEF TypeOK
    <3>3. QED
      BY <1>7, <3>2 DEF AtStep, Busy
  <2>4. q = [q EXCEPT !.new = q.new]
    BY <2>1 DEF ImportRequest
  <2>5. QED
    BY <1>0, <1>7, <2>2, <2>3, <2>4 DEF ImportLookup, ImportInsert
<1>8. ASSUME NEW r \in Requests,
             StoreWrite(r) \/ UpdateWrite(r) \/ DeleteWrite(r) \/ MoveWrite(r)
               \/ ImportCommit(r) \/ ReembedWrite(r) \/ Rollback(r)
      PROVE  Goal
  BY <1>8, <1>0 DEF StoreWrite, UpdateWrite, DeleteWrite, MoveWrite, ImportCommit,
                    ReembedWrite, Rollback
<1>9. CASE UNCHANGED request
  BY <1>9
<1>10. QED
  BY <1>1, <1>2, <1>3, <1>4, <1>5, <1>6, <1>7, <1>8, <1>9, <1>11
     DEF Next, vars, JoinOrLeave, DeleteWorkspace

(* What an import that goes on has done with the item at its head: found   *)
(* the content new, skipped it because it was not, or inserted it.         *)
FoundNew(r) ==
    LET q == request[r] item == Head(q.todo) IN
    /\ request'[r].step = "insert"
    /\ request'[r].todo = q.todo /\ request'[r].new = q.new
    /\ \A i \in q.new : i.content # item.content

Skipped(r) ==
    LET q == request[r] item == Head(q.todo) IN
    /\ request'[r].step \in {"lookup", "commit"}
    /\ request'[r].todo = Tail(q.todo) /\ request'[r].new = q.new
    /\ \/ \E m \in In(q.ws) : memory[m].content = item.content
       \/ \E x \in q.new : x.content = item.content

Inserted(r) ==
    LET q == request[r] item == Head(q.todo) IN
    /\ q.step = "insert"
    /\ request'[r].step \in {"lookup", "commit"}
    /\ request'[r].todo = Tail(q.todo) /\ request'[r].new = q.new \cup {item}
    /\ q.ws \in liveWs
    /\ \A m \in In(q.ws) : ~Clash(item, memory[m])
    /\ \A i \in q.new : i.name # item.name
    /\ ~Claimed(r, q.ws, item.content, item.name)

LEMMA ImportMoves ==
    ASSUME TypeOK, ItemsLeft, NEW r \in Requests, ImportLookup(r) \/ ImportInsert(r),
           request'[r] # Idle
    PROVE  /\ Busy(r, "import") /\ request[r].step # "commit"
           /\ request[r].todo \in Seq(Item) /\ request[r].todo # <<>>
           /\ request'[r].ws = request[r].ws /\ request'[r].items = request[r].items
           /\ request'[r].op = "import"
           /\ request'[r].step = "commit" <=> request'[r].todo = <<>>
           /\ FoundNew(r) \/ Skipped(r) \/ Inserted(r)
<1> DEFINE q == request[r]
           item == Head(q.todo)
           p == [q EXCEPT !.new = @ \cup {item}]
<1>1. Busy(r, "import") /\ q.step # "commit" /\ ~Finish(r)
  BY DEF ImportLookup, ImportInsert, AtStep, Busy, Finish, TypeOK
<1>2. q \in ImportRequest /\ q.todo # <<>> /\ q.todo \in Seq(Item)
  BY <1>1, RequestShape DEF ItemsLeft, ImportRequest
<1>3. CASE ImportLookup(r) /\ Goto(r, "insert")
  <2>1. request'[r] = [q EXCEPT !.step = "insert"]
    BY <1>3 DEF Goto, TypeOK
  <2>2. q.step = "lookup" /\ NextItem(q).step \in {"lookup", "commit"}
    BY <1>2, <1>3, NextItemShape DEF ImportLookup, AtStep
  <2>3. request'[r].step = "insert"
    BY <1>2, <2>1 DEF ImportRequest
  <2>4. request'[r] # NextItem(q)
    BY <2>2, <2>3
  <2>5. \A x \in q.new : x.content # item.content
    BY <1>1, <1>3, <2>4 DEF ImportLookup, TypeOK
  <2>6. QED
    BY <1>1, <1>2, <2>1, <2>5 DEF FoundNew, ImportRequest
<1>4. CASE ImportLookup(r) /\ ~Goto(r, "insert")
  <2>1. /\ request'[r] = NextItem(q)
        /\ \/ \E m \in In(q.ws) : memory[m].content = item.content
           \/ \E x \in q.new : x.content = item.content
    BY <1>1, <1>4 DEF ImportLookup, TypeOK
  <2>2. QED
    BY <1>1, <1>2, <2>1, NextItemShape DEF Skipped
<1>5. CASE ImportInsert(r)
  <2>1. /\ q.step = "insert"
        /\ request'[r] = NextItem(p)
        /\ q.ws \in liveWs
        /\ \A m \in In(q.ws) : memory[m].content # item.content /\ memory[m].name # item.name
        /\ \A i \in q.new : i.name # item.name
        /\ ~Claimed(r, q.ws, item.content, item.name)
    BY <1>1, <1>5 DEF ImportInsert, TypeOK, AtStep
  <2>2. /\ p \in ImportRequest /\ p.op = "import" /\ p.ws = q.ws /\ p.items = q.items
        /\ p.todo = q.todo /\ p.new = q.new \cup {item}
    BY <1>2, AddItemShape
  <2>3. /\ request'[r].ws = q.ws /\ request'[r].items = q.items /\ request'[r].op = "import"
        /\ request'[r].todo = Tail(q.todo) /\ request'[r].new = q.new \cup {item}
        /\ request'[r].step \in {"lookup", "commit"}
        /\ request'[r].step = "commit" <=> request'[r].todo = <<>>
    BY <1>2, <2>1, <2>2, NextItemShape
  <2>4. QED
    BY <1>1, <1>2, <2>1, <2>3 DEF Inserted, Clash
<1>6. QED
  BY <1>3, <1>4, <1>5

LEMMA ItemsInductive == TypeOK /\ ItemsLeft /\ [Next]_vars => ItemsLeft'
<1> SUFFICES ASSUME TypeOK, ItemsLeft, [Next]_vars, NEW r \in Requests,
                    Busy(r, "import")', request'[r].step # "commit"
             PROVE  request'[r].todo # <<>>
  BY DEF ItemsLeft, Busy
<1>1. CASE request'[r] = request[r]
  BY <1>1 DEF ItemsLeft, Busy
<1>2. CASE ImportBegin(r)
  BY <1>2, InputAssumption DEF ImportBegin, Begin, TypeOK
<1>3. CASE ImportLookup(r) \/ ImportInsert(r)
  BY <1>3, ImportMoves DEF Busy
<1>4. QED
  BY <1>1, <1>2, <1>3, StepsOfRequest

LEMMA EmbedsInductive == TypeOK /\ EmbedsChanges /\ [Next]_vars => EmbedsChanges'
<1> SUFFICES ASSUME TypeOK, EmbedsChanges, [Next]_vars, NEW r \in Requests,
                    AtStep(r, "update", "write")', request'[r].embed # Unset
             PROVE  request'[r].set.content # Unset \/ request'[r].set.tags # Unset
  BY DEF EmbedsChanges, AtStep
<1>1. CASE request'[r] = request[r]
  BY <1>1 DEF EmbedsChanges, AtStep
<1>2. CASE UpdateRead(r)
  <2>1. request[r] \in UpdateRequest
    BY <1>2, RequestShape DEF UpdateRead, AtStep, Busy
  <2>2. QED
    BY <1>2, <2>1 DEF UpdateRead, Finish, AtStep, TypeOK, UpdateRequest
<1>3. QED
  BY <1>1, <1>2, StepsOfRequest

LEMMA SeenInductive == TypeOK /\ SeenFar /\ [Next]_vars => SeenFar'
<1> SUFFICES ASSUME TypeOK, SeenFar, [Next]_vars, NEW r \in Requests,
                    AtStep(r, "store", "write")', ~request'[r].force,
                    NEW p \in request'[r].seen
             PROVE  ~Near(p[2], EmbedText(request'[r].content, request'[r].tags))
  BY DEF SeenFar, AtStep
<1>0. ~Finish(r)
  BY DEF Finish, AtStep, TypeOK
<1>1. CASE request'[r] = request[r]
  BY <1>1 DEF SeenFar, AtStep
<1>2. CASE StoreLookup(r)
  <2>1. request[r] \in StoreRequest
    BY <1>2, RequestShape DEF StoreLookup, AtStep, Busy
  <2>2. PICK step \in {"dedup", "write"} :
            request' = [request EXCEPT ![r].step = step] /\ (step = "write" => request[r].force)
    BY <1>0, <1>2 DEF StoreLookup, Goto
  <2>3. request'[r].step = step /\ request'[r].force = request[r].force
    BY <2>1, <2>2 DEF TypeOK, StoreRequest
  <2>4. QED
    BY <2>2, <2>3 DEF AtStep
<1>3. CASE StoreDedup(r)
  <2>1. request[r] \in StoreRequest
    BY <1>3, RequestShape DEF StoreDedup, AtStep, Busy
  <2>2. /\ request' = [request EXCEPT ![r].step = "write", ![r].seen = Seen(request[r].ws)]
        /\ \A m \in In(request[r].ws) :
              ~Near(memory[m].embedding, EmbedText(request[r].content, request[r].tags))
    BY <1>0, <1>3 DEF StoreDedup
  <2>3. /\ request'[r].content = request[r].content /\ request'[r].tags = request[r].tags
        /\ request'[r].seen = Seen(request[r].ws)
    BY <2>1, <2>2 DEF TypeOK, StoreRequest
  <2>4. PICK m \in In(request[r].ws) : p = <<m, memory[m].embedding>>
    BY <2>3 DEF Seen
  <2>5. QED
    BY <2>2, <2>3, <2>4
<1>4. QED
  BY <1>1, <1>2, <1>3, StepsOfRequest

-----------------------------------------------------------------------------
(* Unique names and contents                                               *)

(* Nothing is violated by a step after which the memories that there are   *)
(* were there before, with the name and content and in the workspace that  *)
(* they have, and the imports in flight were in flight or hold nothing.    *)
LEMMA RowsStay ==
    ASSUME IInv,
           \A m \in MemIds : Live(m)' =>
               /\ Live(m) /\ memory[m].ws \in liveWs'
               /\ memory'[m].ws = memory[m].ws
               /\ memory'[m].name = memory[m].name /\ memory'[m].content = memory[m].content,
           \A r \in Requests : Busy(r, "import")' =>
               \/ request'[r] = request[r] /\ (request[r].new # {} => request[r].ws \in liveWs')
               \/ request'[r].new = {}
    PROVE  MemoryInLiveWorkspace' /\ UniquePerWorkspace' /\ ClaimsHold'
<1>1. MemoryInLiveWorkspace' /\ UniquePerWorkspace'
  BY DEF IInv, MemoryInLiveWorkspace, UniquePerWorkspace, Live
<1>2. ASSUME NEW r \in Requests, Busy(r, "import")'
      PROVE  /\ request'[r].new # {} => request'[r].ws \in liveWs'
             /\ \A i, j \in request'[r].new : Clash(i, j) => i = j
             /\ request'[r].step = "insert" =>
                   \A i \in request'[r].new : i.content # Head(request'[r].todo).content
  BY <1>2 DEF IInv, ClaimsHold, Busy
<1>3. ASSUME NEW r \in Requests, Busy(r, "import")', NEW i \in request'[r].new,
             NEW m \in In(request[r].ws)'
      PROVE  ~Clash(i, memory'[m])
  <2>1. request'[r] = request[r] /\ Busy(r, "import") /\ m \in In(request[r].ws)
    BY <1>3 DEF In, Busy
  <2>2. ~Clash(i, memory[m])
    BY <1>3, <2>1 DEF IInv, ClaimsHold
  <2>3. QED
    BY <1>3, <2>2 DEF Clash, In
<1>4. ASSUME NEW r \in Requests, NEW x \in Requests, Busy(r, "import")', Busy(x, "import")',
             r # x, request'[r].ws = request'[x].ws,
             NEW i \in request'[r].new, NEW j \in request'[x].new
      PROVE  ~Clash(i, j)
  BY <1>4 DEF IInv, ClaimsHold, Busy
<1>5. ClaimsHold'
  BY <1>2, <1>3, <1>4 DEF ClaimsHold, Busy
<1>6. QED
  BY <1>1, <1>5

(* Nor by a write of one row that passes the unique constraints.           *)
LEMMA RowWritten ==
    ASSUME IInv, NEW r \in Requests, NEW m \in MemIds, NEW row, row.state = "live",
           memory' = [memory EXCEPT ![m] = row], UNCHANGED liveWs, row.ws \in liveWs,
           ~Conflict(m, row.ws, row.content, row.name),
           ~Claimed(r, row.ws, row.content, row.name),
           ~Busy(r, "import"), Finish(r)
    PROVE  MemoryInLiveWorkspace' /\ UniquePerWorkspace' /\ ClaimsHold'
<1>1. /\ memory'[m] = row
      /\ \A x \in MemIds \ {m} : memory'[x] = memory[x]
  BY DEF IInv, TypeOK
<1>2. \A x \in Requests : Busy(x, "import")' =>
          x # r /\ request'[x] = request[x] /\ Busy(x, "import")
  BY DEF IInv, TypeOK, Finish, Busy
<1>3. MemoryInLiveWorkspace'
  BY <1>1 DEF IInv, MemoryInLiveWorkspace, Live
<1>4. \A x \in MemIds \ {m} : (Live(x) /\ memory[x].ws = row.ws) =>
          memory[x].name # row.name /\ memory[x].content # row.content
  BY DEF Conflict, In
<1>5. UniquePerWorkspace'
  BY <1>1, <1>4 DEF IInv, UniquePerWorkspace, Live
<1>6. ASSUME NEW x \in Requests, Busy(x, "import")', NEW i \in request'[x].new,
             NEW n \in In(request[x].ws)'
      PROVE  ~Clash(i, memory'[n])
  <2>1. CASE n = m
    <3>1. request[x].ws = row.ws /\ i \in request[x].new /\ Busy(x, "import") /\ x # r
      BY <1>1, <1>2, <1>6, <2>1 DEF In, Live
    <3>2. i.content # row.content /\ i.name # row.name
      BY <3>1 DEF Claimed, Busy
    <3>3. QED
      BY <1>1, <2>1, <3>2 DEF Clash
  <2>2. CASE n # m
    <3>1. n \in In(request[x].ws) /\ memory'[n] = memory[n]
      BY <1>1, <1>2, <1>6, <2>2 DEF In, Live
    <3>2. QED
      BY <1>2, <1>6, <3>1 DEF IInv, ClaimsHold
  <2>3. QED
    BY <2>1, <2>2
<1>7. ClaimsHold'
  <2>1. \A x \in Requests : Busy(x, "import")' =>
            /\ request'[x].new # {} => request'[x].ws \in liveWs'
            /\ \A i, j \in request'[x].new : Clash(i, j) => i = j
            /\ request'[x].step = "insert" =>
                  \A i \in request'[x].new : i.content # Head(request'[x].todo).content
    BY <1>2 DEF IInv, ClaimsHold
  <2>2. \A x, y \in Requests :
            (Busy(x, "import")' /\ Busy(y, "import")' /\ x # y
               /\ request'[x].ws = request'[y].ws) =>
                \A i \in request'[x].new, j \in request'[y].new : ~Clash(i, j)
    BY <1>2 DEF IInv, ClaimsHold
  <2>3. QED
    BY <1>6, <2>1, <2>2 DEF ClaimsHold, Busy
<1>8. QED
  BY <1>3, <1>5, <1>7

(* An import that inserts an item finds it free, and keeps it for itself.  *)
LEMMA ImportStepKeeps ==
    ASSUME IInv, NEW r \in Requests, ImportLookup(r) \/ ImportInsert(r), request'[r] # Idle
    PROVE  MemoryInLiveWorkspace' /\ UniquePerWorkspace' /\ ClaimsHold'
<1> DEFINE q == request[r]
           item == Head(q.todo)
<1>1. /\ UNCHANGED <<liveWs, role, memory>>
      /\ \A x \in Requests \ {r} : request'[x] = request[x]
  BY DEF IInv, TypeOK, ImportLookup, ImportInsert, Goto, Finish
<1>2. /\ Busy(r, "import") /\ request'[r].ws = q.ws
      /\ FoundNew(r) \/ Skipped(r) \/ Inserted(r)
  BY ImportMoves DEF IInv
<1>3. MemoryInLiveWorkspace' /\ UniquePerWorkspace'
  BY <1>1 DEF IInv, MemoryInLiveWorkspace, UniquePerWorkspace, Live
<1>4. \A w : In(w)' = In(w)
  BY <1>1 DEF In, Live
<1>5. /\ request'[r].new # {} => q.ws \in liveWs'
      /\ request'[r].step = "insert" =>
            \A i \in request'[r].new : i.content # Head(request'[r].todo).content
      /\ \A i \in request'[r].new, m \in In(q.ws) : ~Clash(i, memory[m])
  BY <1>1, <1>2 DEF IInv, ClaimsHold, FoundNew, Skipped, Inserted
<1>6. \A i, j \in request'[r].new : Clash(i, j) => i = j
  <2>1. CASE request'[r].new = q.new
    BY <1>2, <2>1 DEF IInv, ClaimsHold
  <2>2. CASE Inserted(r)
    <3>1. \A i \in q.new : ~Clash(i, item) /\ ~Clash(item, i)
      BY <1>2, <2>2 DEF IInv, ClaimsHold, Inserted, Clash
    <3>2. QED
      BY <1>2, <2>2, <3>1 DEF IInv, ClaimsHold, Inserted
  <2>3. QED
    BY <1>2, <2>1, <2>2 DEF FoundNew, Skipped
<1>7. ASSUME NEW x \in Requests \ {r}, Busy(x, "import"), request[x].ws = q.ws,
             NEW i \in request'[r].new, NEW j \in request[x].new
      PROVE  ~Clash(i, j) /\ ~Clash(j, i)
  <2>1. CASE i \in q.new
    BY <1>2, <1>7, <2>1 DEF IInv, ClaimsHold
  <2>2. CASE Inserted(r) /\ i = item
    BY <1>7, <2>2 DEF Inserted, Claimed, Clash, Busy
  <2>3. QED
    BY <1>2, <1>7, <2>1, <2>2 DEF FoundNew, Skipped, Inserted
<1>8. \A x \in Requests \ {r} : Busy(x, "import")' <=> Busy(x, "import")
  BY <1>1 DEF Busy
<1>9. ASSUME NEW x \in Requests, Busy(x, "import")'
      PROVE  /\ request'[x].new # {} => request'[x].ws \in liveWs'
             /\ \A i, j \in request'[x].new : Clash(i, j) => i = j
             /\ \A i \in request'[x].new, m \in In(request[x].ws)' : ~Clash(i, memory'[m])
             /\ request'[x].step = "insert" =>
                   \A i \in request'[x].new : i.content # Head(request'[x].todo).content
  <2>1. CASE x = r
    BY <1>1, <1>2, <1>4, <1>5, <1>6, <2>1
  <2>2. CASE x # r
    BY <1>1, <1>4, <1>8, <1>9, <2>2 DEF IInv, ClaimsHold
  <2>3. QED
    BY <2>1, <2>2
<1>10. ASSUME NEW x \in Requests, NEW y \in Requests, Busy(x, "import")', Busy(y, "import")',
              x # y, request'[x].ws = request'[y].ws,
              NEW i \in request'[x].new, NEW j \in request'[y].new
       PROVE  ~Clash(i, j)
  <2>1. CASE x # r /\ y # r
    BY <1>1, <1>8, <1>10, <2>1 DEF IInv, ClaimsHold
  <2>2. CASE x = r \/ y = r
    BY <1>1, <1>2, <1>7, <1>8, <1>10, <2>2
  <2>3. QED
    BY <2>1, <2>2
<1>11. ClaimsHold'
  BY <1>9, <1>10 DEF ClaimsHold, Busy
<1>12. QED
  BY <1>3, <1>11

(* The commit of an import writes what it has kept for itself.             *)
LEMMA ImportCommitKeeps ==
    ASSUME IInv, NEW r \in Requests, ImportCommit(r)
    PROVE  MemoryInLiveWorkspace' /\ UniquePerWorkspace' /\ ClaimsHold'
<1> DEFINE q == request[r]
<1>1. /\ Busy(r, "import") /\ UNCHANGED <<liveWs, role>>
      /\ \A x \in Requests : Busy(x, "import")' =>
             x # r /\ request'[x] = request[x] /\ Busy(x, "import")
  BY DEF IInv, TypeOK, ImportCommit, AtStep, Finish, Busy
<1>2. PICK id \in [q.new -> MemIds] :
          /\ \A x \in q.new : memory[id[x]] = Unused /\ memory'[id[x]] = InsertedRow(q, x)
          /\ \A x, y \in q.new : id[x] = id[y] => x = y
          /\ \A m \in MemIds : (\A x \in q.new : id[x] # m) => memory'[m] = memory[m]
  BY CommitRows DEF IInv
<1>3. ASSUME NEW m \in MemIds, Live(m)'
      PROVE  \/ /\ Live(m) /\ memory'[m] = memory[m]
                /\ \A x \in q.new : id[x] # m
             \/ \E x \in q.new :
                   /\ id[x] = m /\ memory'[m].ws = q.ws
                   /\ memory'[m].name = x.name /\ memory'[m].content = x.content
  <2>1. CASE \A x \in q.new : id[x] # m
    BY <1>2, <1>3, <2>1 DEF Live
  <2>2. ASSUME NEW x \in q.new, id[x] = m
        PROVE  /\ memory'[m].ws = q.ws
               /\ memory'[m].name = x.name /\ memory'[m].content = x.content
    <3>1. memory'[m] = InsertedRow(q, x)
      BY <1>2, <2>2
    <3>2. QED
      BY <3>1 DEF InsertedRow
  <2>3. QED
    BY <2>1, <2>2
<1>4. MemoryInLiveWorkspace'
  <2>1. q.new # {} => q.ws \in liveWs'
    BY <1>1 DEF IInv, ClaimsHold
  <2>2. \A m \in MemIds : Live(m)' => memory'[m].ws \in liveWs'
    BY <1>1, <1>3, <2>1 DEF IInv, MemoryInLiveWorkspace
  <2>3. QED
    BY <2>2 DEF MemoryInLiveWorkspace, Live
<1>5. UniquePerWorkspace'
  <2> SUFFICES ASSUME NEW m \in MemIds, NEW n \in MemIds, Live(m)', Live(n)', m # n,
                      memory'[m].ws = memory'[n].ws
               PROVE  memory'[m].name # memory'[n].name /\ memory'[m].content # memory'[n].content
    BY DEF UniquePerWorkspace
  <2> DEFINE Old(k) == Live(k) /\ memory'[k] = memory[k]
             New(k, x) == /\ id[x] = k /\ memory'[k].ws = q.ws
                          /\ memory'[k].name = x.name /\ memory'[k].content = x.content
  <2>1. CASE Old(m) /\ Old(n)
    BY <2>1 DEF IInv, UniquePerWorkspace
  <2>2. ASSUME NEW x \in q.new, NEW k \in MemIds, NEW l \in MemIds, Old(k), New(l, x),
               memory'[k].ws = memory'[l].ws
        PROVE  memory'[k].name # memory'[l].name /\ memory'[k].content # memory'[l].content
    BY <1>1, <2>2 DEF IInv, ClaimsHold, In, Clash
  <2>3. ASSUME NEW x \in q.new, NEW y \in q.new, New(m, x), New(n, y)
        PROVE  memory'[m].name # memory'[n].name /\ memory'[m].content # memory'[n].content
    BY <1>1, <2>3 DEF IInv, ClaimsHold, Clash
  <2>4. QED
    BY <1>3, <2>1, <2>2, <2>3
<1>6. ASSUME NEW x \in Requests, Busy(x, "import")', NEW i \in request'[x].new,
             NEW m \in In(request[x].ws)'
      PROVE  ~Clash(i, memory'[m])
  <2>1. x # r /\ request'[x] = request[x] /\ Busy(x, "import")
    BY <1>1, <1>6
  <2>2. CASE Live(m) /\ memory'[m] = memory[m]
    BY <1>6, <2>1, <2>2 DEF IInv, ClaimsHold, In
  <2>3. ASSUME NEW y \in q.new, memory'[m].ws = q.ws, memory'[m].name = y.name,
               memory'[m].content = y.content
        PROVE  ~Clash(i, memory'[m])
    <3>1. request[x].ws = q.ws
      BY <1>6, <2>1, <2>3 DEF In
    <3>2. ~Clash(i, y)
      BY <1>1, <1>6, <2>1, <3>1 DEF IInv, ClaimsHold
    <3>3. QED
      BY <2>3, <3>2 DEF Clash
  <2>4. QED
    BY <1>3, <1>6, <2>2, <2>3 DEF In
<1>7. ClaimsHold'
  <2>1. \A x \in Requests : Busy(x, "import")' =>
            /\ request'[x].new # {} => request'[x].ws \in liveWs'
            /\ \A i, j \in request'[x].new : Clash(i, j) => i = j
            /\ request'[x].step = "insert" =>
                  \A i \in request'[x].new : i.content # Head(request'[x].todo).content
    BY <1>1 DEF IInv, ClaimsHold
  <2>2. \A x, y \in Requests :
            (Busy(x, "import")' /\ Busy(y, "import")' /\ x # y
               /\ request'[x].ws = request'[y].ws) =>
                \A i \in request'[x].new, j \in request'[y].new : ~Clash(i, j)
    BY <1>1 DEF IInv, ClaimsHold
  <2>3. QED
    BY <1>6, <2>1, <2>2 DEF ClaimsHold, Busy
<1>8. QED
  BY <1>4, <1>5, <1>7

(* The writes of the other requests pass the unique constraints, or take   *)
(* memories away, or leave names, contents and workspaces as they are.     *)
LEMMA WriteKeeps ==
    ASSUME IInv, [Next]_vars, NEW r \in Requests,
           StoreWrite(r) \/ UpdateWrite(r) \/ MoveWrite(r) \/ DeleteWrite(r) \/ ReembedWrite(r)
    PROVE  MemoryInLiveWorkspace' /\ UniquePerWorkspace' /\ ClaimsHold'
<1> DEFINE q == request[r]
           Goal == MemoryInLiveWorkspace' /\ UniquePerWorkspace' /\ ClaimsHold'
<1>1. /\ UNCHANGED liveWs /\ Finish(r) /\ ~Busy(r, "import")
      /\ \A x \in Requests : Busy(x, "import")' => request'[x] = request[x] /\ Busy(x, "import")
  BY DEF IInv, TypeOK, StoreWrite, UpdateWrite, MoveWrite, DeleteWrite, ReembedWrite,
         AtStep, Finish, Busy
<1>2. ASSUME \A m \in MemIds : Live(m)' =>
                 /\ Live(m) /\ memory'[m].ws = memory[m].ws
                 /\ memory'[m].name = memory[m].name /\ memory'[m].content = memory[m].content
      PROVE  Goal
  BY <1>1, <1>2, RowsStay DEF IInv, MemoryInLiveWorkspace, ClaimsHold
<1>3. CASE UNCHANGED memory
  BY <1>2, <1>3 DEF Live
<1>4. CASE StoreWrite(r) /\ memory' # memory
  <2>1. PICK m \in MemIds : /\ q.ws \in liveWs /\ ~Conflict(m, q.ws, q.content, q.name)
                            /\ memory' = [memory EXCEPT ![m] = InsertedRow(q, q)]
    BY <1>4 DEF StoreWrite, InsertedRow
  <2>2. ~Claimed(r, q.ws, q.content, q.name)
    BY <1>4 DEF StoreWrite
  <2>3. /\ InsertedRow(q, q).state = "live" /\ InsertedRow(q, q).ws = q.ws
        /\ InsertedRow(q, q).name = q.name /\ InsertedRow(q, q).content = q.content
    BY DEF InsertedRow
  <2>4. QED
    BY <1>1, <2>1, <2>2, <2>3, RowWritten
<1>5. CASE UpdateWrite(r) /\ memory' # memory
  <2> DEFINE new == Updated(memory[q.id], q.set, q.embed)
  <2>1. /\ Live(q.id) /\ ~Claimed(r, new.ws, new.content, new.name)
        /\ ~Conflict(q.id, new.ws, new.content, new.name)
        /\ memory' = [memory EXCEPT ![q.id] = new]
    BY <1>5 DEF UpdateWrite
  <2>2. q.id \in MemIds
    BY <1>5, RequestShape DEF IInv, UpdateWrite, AtStep, Busy, UpdateRequest
  <2>3. new.state = "live" /\ new.ws = memory[q.id].ws
    BY <2>1, <2>2, LiveRow DEF IInv, Updated, MemoryRow
  <2>4. new.ws \in liveWs
    BY <2>1, <2>2, <2>3 DEF IInv, MemoryInLiveWorkspace
  <2>5. QED
    BY <1>1, <2>1, <2>2, <2>3, <2>4, RowWritten
<1>6. CASE MoveWrite(r) /\ memory' # memory
  <2> DEFINE row == memory[q.id]
             new == [row EXCEPT !.ws = q.to]
  <2>1. /\ Live(q.id) /\ ~Claimed(r, q.to, row.content, row.name)
        /\ q.to \in liveWs /\ ~Conflict(q.id, q.to, row.content, row.name)
        /\ memory' = [memory EXCEPT ![q.id].ws = q.to]
    BY <1>6 DEF MoveWrite
  <2>2. q.id \in MemIds
    BY <1>6, RequestShape DEF IInv, MoveWrite, AtStep, Busy, MoveRequest
  <2>3. /\ new.state = "live" /\ new.ws = q.to
        /\ new.name = row.name /\ new.content = row.content
    BY <2>1, <2>2, LiveRow DEF IInv, MemoryRow
  <2>4. memory' = [memory EXCEPT ![q.id] = new]
    BY <2>1
  <2>5. QED
    BY <1>1, <2>1, <2>2, <2>3, <2>4, RowWritten
<1>7. CASE DeleteWrite(r)
  <2>1. \A m \in MemIds : memory'[m] = memory[m] \/ memory'[m] = Deleted
    BY <1>7 DEF DeleteWrite, IInv, TypeOK
  <2>2. QED
    BY <1>2, <2>1 DEF Live, Deleted
<1>8. CASE ReembedWrite(r)
  <2>1. ASSUME NEW m \in MemIds, Live(m)'
        PROVE  /\ Live(m) /\ memory'[m].ws = memory[m].ws
               /\ memory'[m].name = memory[m].name /\ memory'[m].content = memory[m].content
    <3>1. memory[m] \in MemoryRow \cup NoRow
      BY DEF IInv, TypeOK
    <3>2. \/ memory'[m] = memory[m]
          \/ Live(m) /\ \E e : memory'[m] = [memory[m] EXCEPT !.embedding = e]
      BY <1>8 DEF ReembedWrite
    <3>3. QED
      BY <2>1, <3>1, <3>2, LiveRow DEF IInv, Live, MemoryRow
  <2>2. QED
    BY <1>2, <2>1
<1>9. QED
  BY <1>3, <1>4, <1>5, <1>6, <1>7, <1>8

LEMMA RowsInductive ==
    IInv /\ [Next]_vars => MemoryInLiveWorkspace' /\ UniquePerWorkspace' /\ ClaimsHold'
<1> SUFFICES ASSUME IInv, [Next]_vars
             PROVE  MemoryInLiveWorkspace' /\ UniquePerWorkspace' /\ ClaimsHold'
  OBVIOUS
<1>1. ASSUME NEW r \in Requests, ImportLookup(r) \/ ImportInsert(r), request'[r] # Idle
      PROVE  MemoryInLiveWorkspace' /\ UniquePerWorkspace' /\ ClaimsHold'
  BY <1>1, ImportStepKeeps
<1>2. ASSUME NEW r \in Requests, ImportCommit(r)
      PROVE  MemoryInLiveWorkspace' /\ UniquePerWorkspace' /\ ClaimsHold'
  BY <1>2, ImportCommitKeeps
<1>3. ASSUME NEW r \in Requests,
             StoreWrite(r) \/ UpdateWrite(r) \/ MoveWrite(r) \/ DeleteWrite(r) \/ ReembedWrite(r)
      PROVE  MemoryInLiveWorkspace' /\ UniquePerWorkspace' /\ ClaimsHold'
  BY <1>3, WriteKeeps
<1> DEFINE Steady == \A r \in Requests : Busy(r, "import")' =>
                         request'[r] = request[r] \/ request'[r].new = {}
<1>4. ~(\E r \in Requests : (ImportLookup(r) \/ ImportInsert(r)) /\ request'[r] # Idle) => Steady
  <2> SUFFICES ASSUME NEW r \in Requests, Busy(r, "import")', request'[r] # request[r],
                      ~(ImportLookup(r) \/ ImportInsert(r))
               PROVE  request'[r].new = {}
    BY DEF Busy
  <2>1. ImportBegin(r)
    BY StepsOfRequest DEF IInv
  <2>2. QED
    BY <2>1 DEF ImportBegin, Begin, IInv, TypeOK
<1>5. CASE Steady /\ UNCHANGED <<liveWs, memory>>
  <2>1. \A m \in MemIds : Live(m)' => Live(m) /\ memory'[m] = memory[m]
    BY <1>5 DEF Live
  <2>2. QED
    BY <1>5, <2>1, RowsStay DEF IInv, MemoryInLiveWorkspace, ClaimsHold, Busy
<1>6. ASSUME NEW w \in WsIds, DeleteWorkspace(w)
      PROVE  MemoryInLiveWorkspace' /\ UniquePerWorkspace' /\ ClaimsHold'
  <2>1. ASSUME NEW m \in MemIds, Live(m)'
        PROVE  Live(m) /\ memory'[m] = memory[m] /\ memory[m].ws \in liveWs'
    BY <1>6, <2>1 DEF DeleteWorkspace, IInv, MemoryInLiveWorkspace, In, Live, Deleted
  <2>2. ASSUME NEW r \in Requests, Busy(r, "import")'
        PROVE  /\ request'[r] = request[r]
               /\ request[r].new # {} => request[r].ws \in liveWs'
    BY <1>6, <2>2 DEF DeleteWorkspace, IInv, ClaimsHold, Busy
  <2>3. QED
    BY <2>1, <2>2, RowsStay
<1>7. CASE \E r \in Requests : (ImportLookup(r) \/ ImportInsert(r)) /\ request'[r] # Idle
  BY <1>1, <1>7
<1>8. QED
  BY <1>2, <1>3, <1>4, <1>5, <1>6, <1>7
     DEF Next, vars, JoinOrLeave, StoreBegin, StoreLookup, StoreDedup, UpdateBegin, UpdateRead,
         DeleteBegin, MoveBegin, MoveRead, MoveCheck, ImportBegin, ImportLookup, ImportInsert,
         ReembedBegin, Rollback

-----------------------------------------------------------------------------
(* Theorems                                                                *)

LEMMA InitIInv == Init => IInv
<1> SUFFICES ASSUME Init PROVE IInv
  OBVIOUS
<1>1. \A m \in MemIds : ~Live(m)
  BY DEF Init, Live, Unused
<1>2. \A r \in Requests : request[r] = Idle
  BY DEF Init
<1>3. QED
  BY <1>1, <1>2, InitTyped DEF IInv, ItemsLeft, EmbedsChanges, SeenFar,
                               MemoryInLiveWorkspace, UniquePerWorkspace, ClaimsHold, Busy, AtStep

LEMMA IInvInductive == IInv /\ [Next]_vars => IInv'
  BY TypeInductive, ItemsInductive, EmbedsInductive, SeenInductive, RowsInductive DEF IInv

LEMMA Invariant == Spec => []IInv
  BY InitIInv, IInvInductive, PTL DEF Spec

(* Every reachable state is well typed, imports of any length included.    *)
THEOREM TypeCorrect == Spec => []TypeOK
<1>1. IInv => TypeOK
  BY DEF IInv
<1>2. QED
  BY <1>1, Invariant, PTL

(* No memory outlives its workspace, whichever request races its deletion. *)
THEOREM LiveWorkspaceTheorem == Spec => []MemoryInLiveWorkspace
<1>1. IInv => MemoryInLiveWorkspace
  BY DEF IInv
<1>2. QED
  BY <1>1, Invariant, PTL

(* Names and contents are unique within a workspace, although stores,      *)
(* updates, moves and imports decide on lookups that are stale when they   *)
(* write, and imports insert rows long before they commit them.            *)
THEOREM UniqueTheorem == Spec => []UniquePerWorkspace
<1>1. IInv => UniquePerWorkspace
  BY DEF IInv
<1>2. QED
  BY <1>1, Invariant, PTL

-----------------------------------------------------------------------------
(* Action properties                                                       *)

(* The steps that change memories.                                         *)
Writing(r) ==
    StoreWrite(r) \/ UpdateWrite(r) \/ MoveWrite(r) \/ DeleteWrite(r) \/ ReembedWrite(r)
      \/ ImportCommit(r)

LEMMA StepsOfMemory ==
    ASSUME TypeOK, [Next]_vars, memory' # memory
    PROVE  \/ \E w \in WsIds : DeleteWorkspace(w)
           \/ \E r \in Requests : Writing(r) /\ request[r] # Idle /\ request'[r] = Idle
<1>1. ASSUME NEW r \in Requests, Writing(r) PROVE request[r] # Idle /\ request'[r] = Idle
  BY <1>1 DEF Writing, StoreWrite, UpdateWrite, MoveWrite, DeleteWrite, ReembedWrite,
              ImportCommit, Finish, AtStep, TypeOK
<1>2. ASSUME NEW r \in Requests,
             StoreDedup(r) \/ UpdateRead(r) \/ MoveRead(r) \/ ImportLookup(r) \/ ImportInsert(r)
      PROVE  UNCHANGED memory
  BY <1>2 DEF StoreDedup, UpdateRead, MoveRead, ImportLookup, ImportInsert
<1>3. QED
  BY <1>1, <1>2 DEF Next, vars, JoinOrLeave, StoreBegin, StoreLookup, UpdateBegin, DeleteBegin,
                    MoveBegin, MoveCheck, ImportBegin, ReembedBegin, Rollback, Writing

(* A store and an import write where there was no row.                     *)
LEMMA InsertsWhereUnused ==
    ASSUME TypeOK, NEW r \in Requests, StoreWrite(r) \/ ImportCommit(r), NEW m \in MemIds,
           memory'[m] # memory[m]
    PROVE  memory[m] = Unused
<1>1. CASE StoreWrite(r)
  BY <1>1 DEF StoreWrite, TypeOK
<1>2. CASE ImportCommit(r)
  BY <1>2, CommitRows
<1>3. QED
  BY <1>1, <1>2

(* An update changes the fields that its caller gave, however old the row  *)
(* is that it has embedded.                                                *)
LEMMA UpdateChanges ==
    ASSUME IInv, NEW r \in Requests, UpdateWrite(r), NEW m \in MemIds, Live(m),
           memory'[m] # memory[m]
    PROVE  LET q == request[r] new == memory'[m] old == memory[m] IN
           /\ q.id = m
           /\ new.ws = old.ws
           /\ new.content = Given(q.set.content, old.content)
           /\ new.name = Given(q.set.name, old.name)
           /\ new.tags # old.tags => q.set.tags # Unset
           /\ new.embedding # old.embedding => q.set.content # Unset \/ q.set.tags # Unset
<1> DEFINE q == request[r]
<1>1. q.id = m /\ memory'[m] = Updated(memory[m], q.set, q.embed)
  BY DEF UpdateWrite, IInv, TypeOK
<1>2. memory[m] \in MemoryRow
  BY LiveRow DEF IInv
<1>3. q.embed # Unset => q.set.content # Unset \/ q.set.tags # Unset
  BY DEF UpdateWrite, IInv, EmbedsChanges
<1>4. QED
  BY <1>1, <1>2, <1>3 DEF Updated, Given, MemoryRow

LEMMA ProvidedFieldsStep ==
    ASSUME IInv, [Next]_vars, NEW m \in MemIds,
           Live(m), memory'[m].state = "live", memory'[m] # memory[m]
    PROVE  \E r \in Requests :
             /\ request[r] # Idle /\ request'[r] = Idle
             /\ LET q == request[r] new == memory'[m] old == memory[m] IN
                CASE q.op = "move" -> q.id = m /\ new = [old EXCEPT !.ws = q.to]
                  [] q.op = "reembed" -> new = [old EXCEPT !.embedding = new.embedding]
                  [] q.op = "update" ->
                        /\ q.id = m
                        /\ new.ws = old.ws
                        /\ new.content = Given(q.set.content, old.content)
                        /\ new.name = Given(q.set.name, old.name)
                        /\ new.tags # old.tags => q.set.tags # Unset
                        /\ new.embedding # old.embedding =>
                              q.set.content # Unset \/ q.set.tags # Unset
                  [] OTHER -> FALSE
<1>1. memory[m] \in MemoryRow
  BY LiveRow DEF IInv
<1>2. \A w \in WsIds : ~DeleteWorkspace(w)
  BY DEF DeleteWorkspace, Deleted
<1>3. PICK r \in Requests : Writing(r) /\ request[r] # Idle /\ request'[r] = Idle
  BY <1>2, StepsOfMemory DEF IInv
<1>4. UpdateWrite(r) \/ MoveWrite(r) \/ ReembedWrite(r)
  <2>1. ~(StoreWrite(r) \/ ImportCommit(r))
    BY InsertsWhereUnused DEF IInv, Live, Unused
  <2>2. ~DeleteWrite(r)
    BY DEF DeleteWrite, IInv, TypeOK, Deleted
  <2>3. QED
    BY <1>3, <2>1, <2>2 DEF Writing
<1>5. CASE UpdateWrite(r)
  <2>1. request[r].op = "update"
    BY <1>5 DEF UpdateWrite, AtStep
  <2>2. QED
    BY <1>3, <1>5, <2>1, UpdateChanges
<1>6. CASE MoveWrite(r)
  <2>1. request[r].op = "move" /\ request[r].id = m
    BY <1>6 DEF MoveWrite, AtStep, IInv, TypeOK
  <2>2. memory'[m] = [memory[m] EXCEPT !.ws = request[r].to]
    BY <1>6, <2>1 DEF MoveWrite, IInv, TypeOK
  <2>3. QED
    BY <1>3, <2>1, <2>2
<1>7. CASE ReembedWrite(r)
  <2>1. request[r].op = "reembed"
    BY <1>7 DEF ReembedWrite, AtStep
  <2>2. PICK e : memory'[m] = [memory[m] EXCEPT !.embedding = e]
    BY <1>7 DEF ReembedWrite
  <2>3. memory'[m] = [memory[m] EXCEPT !.embedding = memory'[m].embedding]
    BY <1>1, <2>2 DEF MemoryRow
  <2>4. QED
    BY <1>3, <2>1, <2>3
<1>8. QED
  BY <1>4, <1>5, <1>6, <1>7

(* "Only provided fields are changed", for any number of concurrent        *)
(* updates, moves and runs of the script.                                  *)
THEOREM ProvidedFieldsTheorem == Spec => OnlyProvidedFieldsChange
<1> DEFINE Step ==
      \A m \in MemIds :
          (Live(m) /\ memory'[m].state = "live" /\ memory'[m] # memory[m]) =>
          \E r \in Requests :
             /\ request[r] # Idle /\ request'[r] = Idle
             /\ LET q == request[r] new == memory'[m] old == memory[m] IN
                CASE q.op = "move" -> q.id = m /\ new = [old EXCEPT !.ws = q.to]
                  [] q.op = "reembed" -> new = [old EXCEPT !.embedding = new.embedding]
                  [] q.op = "update" ->
                        /\ q.id = m
                        /\ new.ws = old.ws
                        /\ new.content = Given(q.set.content, old.content)
                        /\ new.name = Given(q.set.name, old.name)
                        /\ new.tags # old.tags => q.set.tags # Unset
                        /\ new.embedding # old.embedding =>
                              q.set.content # Unset \/ q.set.tags # Unset
                  [] OTHER -> FALSE
<1>1. IInv /\ [Next]_vars => [Step]_vars
  BY ProvidedFieldsStep
<1>2. QED
  BY <1>1, Invariant, PTL DEF Spec, OnlyProvidedFieldsChange

LEMMA DeleteStep ==
    ASSUME IInv, [Next]_vars, NEW m \in MemIds, Live(m), memory'[m].state # "live"
    PROVE  \/ memory[m].ws \notin liveWs'
           \/ \E r \in Requests :
                 /\ request[r] # Idle /\ request'[r] = Idle
                 /\ request[r].op = "delete" /\ request[r].id = m
                 /\ request[r].ws = memory[m].ws
<1>1. CASE \E w \in WsIds : DeleteWorkspace(w)
  BY <1>1 DEF DeleteWorkspace, In, Live
<1>2. ASSUME NEW r \in Requests, Writing(r), request[r] # Idle, request'[r] = Idle
      PROVE  DeleteWrite(r) /\ request[r].id = m /\ request[r].ws = memory[m].ws
  <2>1. ~(StoreWrite(r) \/ ImportCommit(r))
    BY InsertsWhereUnused DEF IInv, Live, Unused
  <2>2. ~UpdateWrite(r)
    <3> SUFFICES ASSUME UpdateWrite(r) PROVE FALSE
      OBVIOUS
    <3>1. memory'[m] = Updated(memory[m], request[r].set, request[r].embed)
      BY DEF UpdateWrite, IInv, TypeOK, Live
    <3>2. QED
      BY <3>1, LiveRow DEF IInv, Updated, MemoryRow
  <2>3. ~MoveWrite(r) /\ ~ReembedWrite(r)
    BY LiveRow DEF MoveWrite, ReembedWrite, IInv, TypeOK, Live, MemoryRow
  <2>4. DeleteWrite(r)
    BY <1>2, <2>1, <2>2, <2>3 DEF Writing
  <2>5. QED
    BY <2>4 DEF DeleteWrite, In, IInv, TypeOK, Live
<1>3. memory' # memory
  BY DEF Live
<1>4. QED
  BY <1>1, <1>2, <1>3, StepsOfMemory DEF IInv, DeleteWrite, AtStep

(* A delete takes a memory only out of the workspace it was allowed to     *)
(* write to, wherever the memory has been moved meanwhile.                 *)
THEOREM DeleteTheorem == Spec => DeletedWhereChecked
<1> DEFINE Step ==
      \A m \in MemIds :
          (Live(m) /\ memory'[m].state # "live") =>
             \/ memory[m].ws \notin liveWs'
             \/ \E r \in Requests :
                   /\ request[r] # Idle /\ request'[r] = Idle
                   /\ request[r].op = "delete" /\ request[r].id = m
                   /\ request[r].ws = memory[m].ws
<1>1. IInv /\ [Next]_vars => [Step]_vars
  BY DeleteStep
<1>2. QED
  BY <1>1, Invariant, PTL DEF Spec, DeletedWhereChecked

LEMMA NearStep ==
    ASSUME IInv, [Next]_vars, NEW m \in MemIds, memory[m] = Unused, memory'[m] # Unused
    PROVE  \E r \in Requests :
                /\ request[r] # Idle /\ request'[r] = Idle
                /\ \/ request[r].op = "import"
                   \/ request[r].op = "store" /\ request[r].force
                   \/ /\ request[r].op = "store"
                      /\ \A x \in In(memory'[m].ws) :
                            Near(memory[x].embedding, memory'[m].embedding) =>
                               <<x, memory[x].embedding>> \notin request[r].seen
<1>1. \A w \in WsIds : ~DeleteWorkspace(w)
  BY DEF DeleteWorkspace, In, Live, Unused
<1>2. PICK r \in Requests : Writing(r) /\ request[r] # Idle /\ request'[r] = Idle
  BY <1>1, StepsOfMemory DEF IInv
<1>3. StoreWrite(r) \/ ImportCommit(r)
  BY <1>2 DEF Writing, UpdateWrite, MoveWrite, DeleteWrite, ReembedWrite, IInv, TypeOK, In,
              Live, Unused
<1>4. CASE ImportCommit(r)
  BY <1>2, <1>4 DEF ImportCommit, AtStep
<1>5. CASE StoreWrite(r)
  <2>1. memory'[m] = InsertedRow(request[r], request[r])
    BY <1>5 DEF StoreWrite, InsertedRow, IInv, TypeOK
  <2>2. /\ memory'[m].ws = request[r].ws
        /\ memory'[m].embedding = EmbedText(request[r].content, request[r].tags)
    BY <2>1 DEF InsertedRow
  <2>3. request[r].op = "store" /\ AtStep(r, "store", "write")
    BY <1>5 DEF StoreWrite, AtStep
  <2>4. ASSUME ~request[r].force, NEW x \in MemIds,
               <<x, memory[x].embedding>> \in request[r].seen
        PROVE  ~Near(memory[x].embedding, memory'[m].embedding)
    <3>1. PICK p \in request[r].seen : p = <<x, memory[x].embedding>>
      BY <2>4
    <3>2. ~Near(p[2], EmbedText(request[r].content, request[r].tags))
      BY <2>3, <2>4 DEF IInv, SeenFar
    <3>3. QED
      BY <2>2, <3>1, <3>2
  <2>5. QED
    BY <1>2, <2>3, <2>4 DEF In
<1>6. QED
  BY <1>3, <1>4, <1>5

(* A store without force ends up beside a near-identical memory only if    *)
(* that came into the workspace, or got its embedding, after the check,    *)
(* for any number of concurrent requests and any similarity.               *)
THEOREM NearTheorem == Spec => NearDuplicatesOnlyByRaces
<1> DEFINE Step ==
      \A m \in MemIds :
          (memory[m] = Unused /\ memory'[m] # Unused) =>
             \E r \in Requests :
                /\ request[r] # Idle /\ request'[r] = Idle
                /\ \/ request[r].op = "import"
                   \/ request[r].op = "store" /\ request[r].force
                   \/ /\ request[r].op = "store"
                      /\ \A x \in In(memory'[m].ws) :
                            Near(memory[x].embedding, memory'[m].embedding) =>
                               <<x, memory[x].embedding>> \notin request[r].seen
<1>1. IInv /\ [Next]_vars => [Step]_vars
  BY NearStep
<1>2. QED
  BY <1>1, Invariant, PTL DEF Spec, NearDuplicatesOnlyByRaces

-----------------------------------------------------------------------------
(* One request at a time                                                   *)

(* Embeddings and the look at the items of an import are not protected by  *)
(* the database: another request may write between the read and the write. *)
(* Without another request they hold, whatever happens to workspaces and   *)
(* memberships meanwhile.  The server does run requests side by side, so   *)
(* this says what a race has to be blamed for, not that there is none.     *)
OneAtATime == \A r, x \in Requests : r = x

(* An update that is about to write has embedded the row as it still is.   *)
ReadIsCurrent ==
    \A r \in Requests :
        (AtStep(r, "update", "write") /\ Live(request[r].id)) =>
            LET q == request[r] row == memory[q.id] IN
            IF q.set.content = Unset /\ q.set.tags = Unset THEN q.embed = Unset
            ELSE q.embed = EmbedText(Given(q.set.content, row.content), Given(q.set.tags, row.tags))

(* The items an import has been through are inserted or were there.        *)
ItemsDone ==
    \A r \in Requests :
        (Busy(r, "import") /\ request[r].ws \in liveWs) =>
            LET q == request[r] IN
            /\ q.step = "commit" => q.todo = <<>>
            /\ \A x \in ToSet(q.items) :
                  \/ x \in ToSet(q.todo)
                  \/ \E i \in q.new : i.content = x.content
                  \/ \E m \in In(q.ws) : memory[m].content = x.content

SInv == ReadIsCurrent /\ ItemsDone

(* While the only request stays where it is, memories only go away with    *)
(* their workspace.                                                        *)
LEMMA NobodyElseWrites ==
    ASSUME TypeOK, [Next]_vars, OneAtATime, NEW r \in Requests, request'[r] # Idle
    PROVE  /\ liveWs' \subseteq liveWs
           /\ \A m \in MemIds : Live(m)' => Live(m) /\ memory'[m] = memory[m]
           /\ \A m \in MemIds : (Live(m) /\ memory[m].ws \in liveWs') => Live(m)'
<1>1. \A x \in Requests : request'[x] # Idle
  BY DEF OneAtATime
<1>2. UNCHANGED liveWs \/ \E w \in WsIds : DeleteWorkspace(w)
  <2>1. ASSUME NEW x \in Requests,
               Writing(x) \/ StoreDedup(x) \/ ImportLookup(x) \/ ImportInsert(x)
                 \/ UpdateRead(x) \/ MoveRead(x)
        PROVE  UNCHANGED liveWs
    BY <2>1 DEF Writing, StoreWrite, UpdateWrite, MoveWrite, DeleteWrite, ReembedWrite,
                ImportCommit, StoreDedup, ImportLookup, ImportInsert, UpdateRead, MoveRead
  <2>2. QED
    BY <2>1 DEF Next, vars, JoinOrLeave, StoreBegin, StoreLookup, UpdateBegin,
                DeleteBegin, MoveBegin, MoveCheck, ImportBegin, ReembedBegin, Rollback, Writing
<1>3. ASSUME NEW w \in WsIds, DeleteWorkspace(w)
      PROVE  /\ liveWs' \subseteq liveWs
             /\ \A m \in MemIds : Live(m)' => Live(m) /\ memory'[m] = memory[m]
             /\ \A m \in MemIds : (Live(m) /\ memory[m].ws \in liveWs') => Live(m)'
  BY <1>3 DEF DeleteWorkspace, In, Live, Deleted
<1>4. CASE UNCHANGED <<liveWs, memory>>
  BY <1>4 DEF Live
<1>5. QED
  BY <1>1, <1>2, <1>3, <1>4, StepsOfMemory

LEMMA ReadInductive ==
    ASSUME TypeOK, ReadIsCurrent, [Next]_vars, OneAtATime
    PROVE  ReadIsCurrent'
<1> SUFFICES ASSUME NEW r \in Requests, AtStep(r, "update", "write")',
                    memory'[request'[r].id].state = "live"
             PROVE  LET q == request'[r] row == memory'[q.id] IN
                    IF q.set.content = Unset /\ q.set.tags = Unset THEN q.embed = Unset
                    ELSE q.embed = EmbedText(Given(q.set.content, row.content),
                                             Given(q.set.tags, row.tags))
  BY DEF ReadIsCurrent, Live, AtStep
<1>1. CASE request'[r] = request[r]
  <2>1. request[r].id \in MemIds
    BY <1>1, RequestShape DEF AtStep, Busy, UpdateRequest
  <2>2. Live(request[r].id) /\ memory'[request[r].id] = memory[request[r].id]
    BY <1>1, <2>1, NobodyElseWrites DEF AtStep, Live
  <2>3. QED
    BY <1>1, <2>2 DEF ReadIsCurrent, AtStep
<1>2. CASE UpdateRead(r)
  <2>1. request[r] \in UpdateRequest
    BY <1>2, RequestShape DEF UpdateRead, AtStep, Busy
  <2>2. request'[r] = [request[r] EXCEPT
           !.step = "write",
           !.embed = IF request[r].set.content = Unset /\ request[r].set.tags = Unset THEN Unset
                     ELSE EmbedText(Given(request[r].set.content, memory[request[r].id].content),
                                    Given(request[r].set.tags, memory[request[r].id].tags))]
    BY <1>2 DEF UpdateRead, Finish, AtStep, TypeOK
  <2>3. QED
    BY <1>2, <2>1, <2>2 DEF UpdateRequest, UpdateRead
<1>3. QED
  BY <1>1, <1>2, StepsOfRequest

LEMMA FreshInductive ==
    ASSUME IInv, EmbeddingFresh, ReadIsCurrent, [Next]_vars, ~Reembeds,
           \A r \in Requests : ~Busy(r, "reembed")
    PROVE  EmbeddingFresh'
<1> SUFFICES ASSUME NEW m \in MemIds, Live(m)'
             PROVE  /\ memory'[m].embedding.content = memory'[m].content
                    /\ TagSet(memory'[m].embedding.tags) = memory'[m].tags
  BY DEF EmbeddingFresh, Live
<1>1. CASE memory'[m] = memory[m]
  BY <1>1 DEF EmbeddingFresh, Live
<1>2. ASSUME NEW r \in Requests, StoreWrite(r), memory'[m] # memory[m]
      PROVE  memory'[m] = InsertedRow(request[r], request[r])
  BY <1>2 DEF StoreWrite, InsertedRow, IInv, TypeOK
<1>3. ASSUME NEW r \in Requests, ImportCommit(r), memory'[m] # memory[m]
      PROVE  \E x : memory'[m] = InsertedRow(request[r], x)
  BY <1>3, CommitRows DEF IInv
<1>4. ASSUME NEW q, NEW x, memory'[m] = InsertedRow(q, x)
      PROVE  /\ memory'[m].embedding.content = memory'[m].content
             /\ TagSet(memory'[m].embedding.tags) = memory'[m].tags
  BY <1>4 DEF InsertedRow, EmbedText
<1>5. ASSUME NEW r \in Requests, UpdateWrite(r), memory'[m] # memory[m]
      PROVE  /\ memory'[m].embedding.content = memory'[m].content
             /\ TagSet(memory'[m].embedding.tags) = memory'[m].tags
  <2> DEFINE q == request[r]
             row == memory[m]
  <2>1. q \in UpdateRequest /\ q.id = m /\ Live(m) /\ memory'[m] = Updated(row, q.set, q.embed)
    BY <1>5, RequestShape DEF UpdateWrite, AtStep, Busy, IInv, TypeOK
  <2>2. row \in MemoryRow /\ TagSet(row.tags) = row.tags
    BY <2>1, LiveRow, StoredIsNormal DEF IInv, MemoryRow
  <2>3. /\ row.embedding.content = row.content
        /\ TagSet(row.embedding.tags) = row.tags
    BY <2>1 DEF EmbeddingFresh
  <2>4. IF q.set.content = Unset /\ q.set.tags = Unset THEN q.embed = Unset
        ELSE q.embed = EmbedText(Given(q.set.content, row.content), Given(q.set.tags, row.tags))
    BY <1>5, <2>1 DEF UpdateWrite, ReadIsCurrent
  <2>5. /\ memory'[m].content = Given(q.set.content, row.content)
        /\ memory'[m].tags = IF q.set.tags = Unset THEN row.tags ELSE TagSet(q.set.tags)
        /\ memory'[m].embedding = Given(q.embed, row.embedding)
    BY <2>1, <2>2 DEF Updated, MemoryRow
  <2>6. CASE q.set.content = Unset /\ q.set.tags = Unset
    BY <2>3, <2>4, <2>5, <2>6 DEF Given
  <2>7. CASE ~(q.set.content = Unset /\ q.set.tags = Unset)
    <3>1. q.embed # Unset
      <4>1. q.set \in Changes /\ row.content \in Contents /\ row.tags \subseteq RawTags
        BY <2>1, <2>2, StoredIsNormal DEF UpdateRequest, MemoryRow
      <4>2. q.embed \in Embedding
        BY <2>4, <2>7, <4>1 DEF Changes, Given, EmbedText, Embedding
      <4>3. QED
        BY <4>2, UnsetEmbedding
    <3>2. memory'[m].embedding = EmbedText(Given(q.set.content, row.content),
                                           Given(q.set.tags, row.tags))
      BY <2>4, <2>5, <2>7, <3>1 DEF Given
    <3>3. QED
      BY <2>2, <2>5, <3>2 DEF EmbedText, Given
  <2>8. QED
    BY <2>6, <2>7
<1>6. ASSUME NEW r \in Requests, MoveWrite(r), memory'[m] # memory[m]
      PROVE  /\ memory'[m].embedding.content = memory'[m].content
             /\ TagSet(memory'[m].embedding.tags) = memory'[m].tags
  <2>1. Live(m) /\ memory'[m] = [memory[m] EXCEPT !.ws = request[r].to]
    BY <1>6 DEF MoveWrite, IInv, TypeOK
  <2>2. QED
    BY <2>1, LiveRow DEF IInv, MemoryRow, EmbeddingFresh
<1>7. ASSUME NEW r \in Requests, DeleteWrite(r) PROVE memory'[m] = memory[m]
  BY <1>7 DEF DeleteWrite, IInv, TypeOK, Live, Deleted
<1>8. ASSUME NEW r \in Requests PROVE ~ReembedWrite(r)
  BY DEF ReembedWrite, AtStep, Busy
<1>9. ASSUME NEW w \in WsIds, DeleteWorkspace(w) PROVE memory'[m] = memory[m]
  BY <1>9 DEF DeleteWorkspace, Live, Deleted
<1>10. QED
  BY <1>1, <1>2, <1>3, <1>4, <1>5, <1>6, <1>7, <1>8, <1>9, StepsOfMemory DEF IInv, Writing

LEMMA DoneInductive ==
    ASSUME TypeOK, ItemsLeft, ItemsDone, [Next]_vars, OneAtATime
    PROVE  ItemsDone'
<1> SUFFICES ASSUME NEW r \in Requests, Busy(r, "import")', request'[r].ws \in liveWs'
             PROVE  /\ request'[r].step = "commit" => request'[r].todo = <<>>
                    /\ \A x \in ToSet(request'[r].items) :
                          \/ x \in ToSet(request'[r].todo)
                          \/ \E i \in request'[r].new : i.content = x.content
                          \/ \E m \in In(request[r].ws)' : memory'[m].content = x.content
  BY DEF ItemsDone, Busy
<1>1. CASE request'[r] = request[r]
  <2>1. Busy(r, "import") /\ request[r].ws \in liveWs
    BY <1>1, NobodyElseWrites DEF Busy
  <2>2. \A m \in In(request[r].ws) : m \in In(request[r].ws)' /\ memory'[m] = memory[m]
    BY <1>1, <2>1, NobodyElseWrites DEF In, Busy
  <2>3. QED
    BY <1>1, <2>1, <2>2 DEF ItemsDone
<1>2. CASE ImportBegin(r)
  <2>1. request'[r].todo = request'[r].items /\ request'[r].step = "lookup"
    BY <1>2 DEF ImportBegin, Begin, TypeOK
  <2>2. QED
    BY <2>1
<1>3. CASE ImportLookup(r) \/ ImportInsert(r)
  <2> DEFINE q == request[r]
             item == Head(q.todo)
  <2>1. /\ Busy(r, "import") /\ q.todo \in Seq(Item) /\ q.todo # <<>>
        /\ request'[r].ws = q.ws /\ request'[r].items = q.items
        /\ request'[r].step = "commit" <=> request'[r].todo = <<>>
        /\ FoundNew(r) \/ Skipped(r) \/ Inserted(r)
    BY <1>3, ImportMoves DEF Busy
  <2>2. UNCHANGED <<liveWs, memory>> /\ q.ws \in liveWs
    BY <1>3, <2>1 DEF ImportLookup, ImportInsert
  <2>3. In(q.ws) = In(request[r].ws)'
    BY <2>1, <2>2 DEF In, Live
  <2>4. ToSet(q.todo) = {item} \cup ToSet(Tail(q.todo))
    BY <2>1, ToSetTail
  <2>5. \A x \in ToSet(q.items) :
            \/ x \in ToSet(q.todo)
            \/ \E i \in q.new : i.content = x.content
            \/ \E m \in In(q.ws) : memory[m].content = x.content
    BY <2>1, <2>2 DEF ItemsDone
  <2>6. q.new \subseteq request'[r].new
    BY <2>1 DEF FoundNew, Skipped, Inserted
  <2>7. \/ request'[r].todo = q.todo
        \/ /\ request'[r].todo = Tail(q.todo)
           /\ \/ \E i \in request'[r].new : i.content = item.content
              \/ \E m \in In(q.ws) : memory[m].content = item.content
    BY <2>1 DEF FoundNew, Skipped, Inserted
  <2>8. QED
    BY <2>1, <2>2, <2>3, <2>4, <2>5, <2>6, <2>7
<1>4. QED
  BY <1>1, <1>2, <1>3, StepsOfRequest

LEMMA SerialInvariant ==
    ASSUME OneAtATime
    PROVE  Spec => [](IInv /\ SInv)
<1>1. Init => SInv
  BY DEF Init, SInv, ReadIsCurrent, ItemsDone, AtStep, Busy
<1>2. IInv /\ SInv /\ [Next]_vars => SInv'
  BY ReadInductive, DoneInductive DEF IInv, SInv
<1>3. QED
  BY <1>1, <1>2, InitIInv, IInvInductive, PTL DEF Spec

(* One request at a time and without the script, the stored embedding is   *)
(* that of the stored content and tags: an update that gives one of them   *)
(* embeds the other as it is stored.                                       *)
THEOREM EmbeddingTheorem ==
    ASSUME OneAtATime, ~Reembeds
    PROVE  Spec => []EmbeddingFresh
<1> DEFINE NoScript == \A r \in Requests : ~Busy(r, "reembed")
<1>1. Init => EmbeddingFresh /\ NoScript
  BY DEF Init, EmbeddingFresh, Live, Unused, Busy
<1>2. IInv /\ NoScript /\ [Next]_vars => NoScript'
  <2> SUFFICES ASSUME IInv, NoScript, [Next]_vars, NEW r \in Requests PROVE ~Busy(r, "reembed")'
    OBVIOUS
  <2>1. CASE request'[r] = request[r]
    BY <2>1 DEF Busy
  <2>2. CASE request'[r] # request[r]
    BY <2>2, StepsOfRequest DEF IInv, ReembedBegin
  <2>3. QED
    BY <2>1, <2>2
<1>3. IInv /\ SInv /\ NoScript /\ EmbeddingFresh /\ [Next]_vars => EmbeddingFresh'
  BY FreshInductive DEF SInv
<1>4. QED
  BY <1>1, <1>2, <1>3, SerialInvariant, PTL DEF Spec

LEMMA WholeStep ==
    ASSUME IInv, SInv, [Next]_vars, OneAtATime, NEW r \in Requests, request[r] # Idle,
           request[r].op = "import", request'[r] = Idle, memory' # memory
    PROVE  \A x \in ToSet(request[r].items) : \E m \in MemIds :
                /\ memory'[m].state = "live" /\ memory'[m].ws = request[r].ws
                /\ memory'[m].content = x.content
<1> DEFINE q == request[r]
<1>1. ImportCommit(r)
  <2>1. \A w \in WsIds : ~DeleteWorkspace(w)
    BY DEF DeleteWorkspace
  <2>2. Writing(r)
    BY <2>1, StepsOfMemory DEF IInv, OneAtATime
  <2>3. QED
    BY <2>2 DEF Writing, StoreWrite, UpdateWrite, MoveWrite, DeleteWrite, ReembedWrite, AtStep
<1>2. Busy(r, "import") /\ q.step = "commit"
  BY <1>1 DEF ImportCommit, AtStep, Busy
<1>3. PICK id \in [q.new -> MemIds] :
          /\ \A x \in q.new : memory[id[x]] = Unused /\ memory'[id[x]] = InsertedRow(q, x)
          /\ \A m \in MemIds : (\A x \in q.new : id[x] # m) => memory'[m] = memory[m]
  BY <1>1, CommitRows DEF IInv
<1>4. memory = [m \in MemIds |-> memory[m]] /\ memory' = [m \in MemIds |-> memory'[m]]
  BY <1>1 DEF IInv, TypeOK, ImportCommit
<1>5. q.new # {}
  <2> SUFFICES ASSUME q.new = {} PROVE FALSE
    OBVIOUS
  <2>1. \A m \in MemIds : memory'[m] = memory[m]
    BY <1>3
  <2>2. QED
    BY <1>4, <2>1
<1>6. q.ws \in liveWs
  BY <1>2, <1>5 DEF IInv, ClaimsHold
<1>7. \A x \in ToSet(q.items) : \/ \E i \in q.new : i.content = x.content
                                \/ \E m \in In(q.ws) : memory[m].content = x.content
  <2>1. ToSet(<<>>) = {}
    BY DEF ToSet
  <2>2. QED
    BY <1>2, <1>6, <2>1 DEF SInv, ItemsDone
<1>8. \A m \in In(q.ws) : memory'[m] = memory[m]
  BY <1>3 DEF In, Live, Unused
<1>9. \A i \in q.new : /\ id[i] \in MemIds /\ memory'[id[i]].state = "live"
                       /\ memory'[id[i]].ws = q.ws /\ memory'[id[i]].content = i.content
  <2> SUFFICES ASSUME NEW i \in q.new
               PROVE  /\ id[i] \in MemIds /\ memory'[id[i]].state = "live"
                      /\ memory'[id[i]].ws = q.ws /\ memory'[id[i]].content = i.content
    OBVIOUS
  <2>1. id[i] \in MemIds /\ memory'[id[i]] = InsertedRow(q, i)
    BY <1>3
  <2>2. /\ InsertedRow(q, i).state = "live" /\ InsertedRow(q, i).ws = q.ws
        /\ InsertedRow(q, i).content = i.content
    BY DEF InsertedRow
  <2>3. QED
    BY <2>1, <2>2
<1>10. QED
  BY <1>7, <1>8, <1>9 DEF In, Live

(* One request at a time, an import that writes leaves all of its items in *)
(* the workspace, though it looks at them one by one while the workspace   *)
(* may be deleted.                                                         *)
THEOREM WholeTheorem ==
    ASSUME OneAtATime
    PROVE  Spec => ImportIsWhole
<1> DEFINE Step ==
      \A r \in Requests :
          (request[r] # Idle /\ request[r].op = "import" /\ request'[r] = Idle /\ memory' # memory)
          => \A x \in ToSet(request[r].items) : \E m \in MemIds :
                /\ memory'[m].state = "live" /\ memory'[m].ws = request[r].ws
                /\ memory'[m].content = x.content
<1>1. IInv /\ SInv /\ [Next]_vars => [Step]_vars
  <2> SUFFICES ASSUME IInv, SInv, [Next]_vars, NEW r \in Requests, request[r] # Idle,
                      request[r].op = "import", request'[r] = Idle, memory' # memory
               PROVE  \A x \in ToSet(request[r].items) : \E m \in MemIds :
                         /\ memory'[m].state = "live" /\ memory'[m].ws = request[r].ws
                         /\ memory'[m].content = x.content
    OBVIOUS
  <2>1. QED
    BY OneAtATime, WholeStep
<1>2. QED
  BY <1>1, SerialInvariant, PTL DEF Spec, ImportIsWhole

=============================================================================
