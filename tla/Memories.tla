------------------------------ MODULE Memories ------------------------------
(***************************************************************************)
(* The memory store of memlord (dao/memory.py and the tools and REST       *)
(* handlers that call it): store, update, delete, move and import, each in *)
(* its own READ COMMITTED transaction, with the embedding computed in      *)
(* between the reads and the writes ("await embed"), and the script that   *)
(* embeds everything again.                                                *)
(*                                                                         *)
(* As in Workspaces, a request is a record; a SELECT is an action on the   *)
(* committed rows, the writes and the commit are one action.  The lookups  *)
(* that a handler repeats before its last permission check can only refuse *)
(* more and are left out: a request starts with that last check.  The tag  *)
(* tables are a set of tags per memory here; module Tags opens them up.    *)
(***************************************************************************)

EXTENDS Sequences, SequencesExt

CONSTANTS
    Users, WsIds, MemIds, Requests,
    Names, Contents,
    RawTags,       \* tags as callers write them
    Normal,        \* Normal[t] is t.lower().strip(), or Blank if that is empty
    Blank,
    Near(_, _),    \* cosine similarity of two embeddings >= dedup_threshold
    InitRole,      \* memberships at the start
    RolesChange,   \* whether users join and leave meanwhile
    Edits,         \* what updates give, of all Changes
    Batches,       \* what imported files hold: sequences of items
    Reembeds,      \* whether scripts/reembed.py runs while the server does
    Unset          \* the _UNSET marker of MemoryDao.update

ASSUME NormalAssumption ==
    /\ Normal \in [RawTags -> RawTags \cup {Blank}]
    /\ Blank \notin RawTags
    /\ \A t \in RawTags : Normal[t] # Blank => Normal[Normal[t]] = Normal[t]

ASSUME UnsetAssumption ==
    Unset \notin Contents \cup Names /\ \A S \in SUBSET RawTags : Unset # S

Item == [content: Contents, name: Names, tags: SUBSET RawTags]

Changes == [content: {Unset} \cup Contents, tags: {Unset} \cup SUBSET RawTags,
            name: {Unset} \cup Names]

ASSUME InputAssumption ==
    Edits \subseteq Changes /\ Batches \subseteq Seq(Item) \ {<<>>} /\ Reembeds \in BOOLEAN

Roles == {"none", "viewer", "editor", "owner"}
Writers == {"editor", "owner"}

ASSUME RoleAssumption ==
    InitRole \in [WsIds -> [Users -> Roles]] /\ RolesChange \in BOOLEAN

VARIABLES
    liveWs,   \* workspaces that exist
    role,     \* [WsIds -> [Users -> Roles]]
    memory,   \* [MemIds -> row, or no row]
    request   \* [Requests -> request in flight, or Idle]

vars == <<liveWs, role, memory, request>>

TagSet(T) == {Normal[t] : t \in T} \ {Blank}  \* what _upsert_tags stores for T
StoredTags == SUBSET TagSet(RawTags)

(* An embedding is known by the text it was computed from (_embed_text).   *)
Embedding == [content: Contents, tags: SUBSET RawTags]
EmbedText(c, T) == [content |-> c, tags |-> T]

ASSUME UnsetEmbedding == Unset \notin Embedding

ASSUME NearAssumption == \A e, f \in Embedding : Near(e, e) /\ Near(e, f) \in BOOLEAN

NoRow == [state: {"unused", "deleted"}]
Unused == [state |-> "unused"]
Deleted == [state |-> "deleted"]
MemoryRow == [state: {"live"}, ws: WsIds, name: Names, content: Contents,
              tags: StoredTags, embedding: Embedding]

Live(m) == memory[m].state = "live"
In(w) == {m \in MemIds : Live(m) /\ memory[m].ws = w}

-----------------------------------------------------------------------------
Idle == [op |-> "idle"]

StoreRequest == [op: {"store"}, user: Users, ws: WsIds, content: Contents, name: Names,
                 tags: SUBSET RawTags, force: BOOLEAN, seen: SUBSET (MemIds \X Embedding),
                 step: {"lookup", "dedup", "write"}]
UpdateRequest == [op: {"update"}, user: Users, ws: WsIds, id: MemIds, set: Changes,
                  embed: {Unset} \cup Embedding, step: {"read", "write"}]
DeleteRequest == [op: {"delete"}, user: Users, ws: WsIds, id: MemIds, step: {"write"}]
MoveRequest == [op: {"move"}, user: Users, ws: WsIds, to: WsIds, id: MemIds,
                name: Names \cup {Unset}, content: Contents \cup {Unset},
                step: {"read", "check", "write"}]
ImportRequest == [op: {"import"}, user: Users, ws: WsIds, items: Batches, todo: Seq(Item),
                  new: SUBSET Item, step: {"lookup", "insert", "commit"}]
ReembedRequest == [op: {"reembed"}, read: [MemIds -> Contents \cup {Unset}], step: {"write"}]

Request == StoreRequest \cup UpdateRequest \cup DeleteRequest \cup MoveRequest
              \cup ImportRequest \cup ReembedRequest \cup {Idle}

Begin(r, q) == request[r] = Idle /\ request' = [request EXCEPT ![r] = q]
Goto(r, step) == request' = [request EXCEPT ![r].step = step]
Finish(r) == request' = [request EXCEPT ![r] = Idle]
AtStep(r, op, step) == request[r] # Idle /\ request[r].op = op /\ request[r].step = step

CanWrite(u, w) == w \in liveWs /\ role[w][u] \in Writers

(* uq_memories_content_workspace and uq_memories_name_workspace, for a row *)
(* that would stand in w beside the memories other than m.                 *)
Conflict(m, w, c, n) ==
    \E x \in In(w) \ {m} : memory[x].content = c \/ memory[x].name = n

(* Another request has inserted a row like that and not committed yet: the *)
(* unique constraints make a write wait for it.                            *)
Claimed(r, w, c, n) ==
    \E x \in Requests \ {r} :
        /\ request[x] # Idle /\ request[x].op = "import" /\ request[x].ws = w
        /\ \E i \in request[x].new : i.content = c \/ i.name = n

Init ==
    /\ liveWs = WsIds
    /\ role = InitRole
    /\ memory = [m \in MemIds |-> Unused]
    /\ request = [r \in Requests |-> Idle]

-----------------------------------------------------------------------------
(* store_memory and MemoryDao.create                                       *)

(* The field seen is history that no guard reads: which memories, with     *)
(* which embedding, the near-duplicate check of the store has seen and     *)
(* passed.  Until then all that there may be stand in it.                  *)
Seen(w) == {<<m, memory[m].embedding>> : m \in In(w)}

StoreBegin(r) == \E u \in Users, w \in WsIds, c \in Contents, n \in Names,
                    T \in SUBSET RawTags, f \in BOOLEAN :
    /\ CanWrite(u, w)
    /\ Begin(r, [op |-> "store", user |-> u, ws |-> w, content |-> c, name |-> n,
                 tags |-> T, force |-> f, seen |-> MemIds \X Embedding, step |-> "lookup"])
    /\ UNCHANGED <<liveWs, role, memory>>

(* Mutant: the near-duplicate check is skipped.                            *)
StoreLookupNoDedup(r) ==
    /\ AtStep(r, "store", "lookup")
    /\ Goto(r, "write")
    /\ UNCHANGED <<liveWs, role, memory>>

(* The same content in the workspace: its id is returned, nothing written. *)
StoreLookup(r) ==
    /\ AtStep(r, "store", "lookup")
    /\ LET q == request[r] IN
       IF \E m \in In(q.ws) : memory[m].content = q.content
         THEN Finish(r)
         ELSE Goto(r, IF q.force THEN "write" ELSE "dedup")
    /\ UNCHANGED <<liveWs, role, memory>>

(* _check_near_duplicate, once the embedding has been computed.            *)
StoreDedup(r) ==
    /\ AtStep(r, "store", "dedup")
    /\ LET q == request[r] IN
       IF \E m \in In(q.ws) : Near(memory[m].embedding, EmbedText(q.content, q.tags))
         THEN Finish(r)
         ELSE request' = [request EXCEPT ![r].step = "write", ![r].seen = Seen(q.ws)]
    /\ UNCHANGED <<liveWs, role, memory>>

StoreWrite(r) ==
    /\ AtStep(r, "store", "write")
    /\ ~Claimed(r, request[r].ws, request[r].content, request[r].name)
    /\ LET q == request[r] IN
       \/ /\ q.ws \in liveWs
          /\ \E m \in MemIds :
                /\ memory[m] = Unused
                /\ ~Conflict(m, q.ws, q.content, q.name)
                /\ memory' = [memory EXCEPT ![m] =
                      [state |-> "live", ws |-> q.ws, name |-> q.name, content |-> q.content,
                       tags |-> TagSet(q.tags), embedding |-> EmbedText(q.content, q.tags)]]
       \/ /\ q.ws \notin liveWs \/ \E m \in In(q.ws) : memory[m].content = q.content
                                                        \/ memory[m].name = q.name
          /\ UNCHANGED memory
    /\ Finish(r)
    /\ UNCHANGED <<liveWs, role>>

-----------------------------------------------------------------------------
(* update_memory and MemoryDao.update                                      *)

UpdateBegin(r) == \E u \in Users, m \in MemIds, w \in WsIds, ch \in Edits :
    /\ CanWrite(u, w)
    /\ m \in In(w)
    /\ Begin(r, [op |-> "update", user |-> u, ws |-> w, id |-> m, set |-> ch,
                 embed |-> Unset, step |-> "read"])
    /\ UNCHANGED <<liveWs, role, memory>>

Given(new, old) == IF new = Unset THEN old ELSE new

(* Mutant: the embedding is computed only when the content is given.       *)
UpdateReadContentOnly(r) ==
    /\ AtStep(r, "update", "read")
    /\ LET q == request[r] IN
       request' = [request EXCEPT
           ![r].step = "write",
           ![r].embed = IF q.set.content = Unset THEN Unset
                        ELSE EmbedText(q.set.content, Given(q.set.tags, memory[q.id].tags))]
    /\ UNCHANGED <<liveWs, role, memory>>

(* The row must still be in the workspace; if the content or the tags are  *)
(* to change, the other one is read here and the text is embedded.         *)
UpdateRead(r) ==
    /\ AtStep(r, "update", "read")
    /\ LET q == request[r]
           row == memory[q.id]
       IN  IF q.id \in In(q.ws)
             THEN request' = [request EXCEPT
                    ![r].step = "write",
                    ![r].embed = IF q.set.content = Unset /\ q.set.tags = Unset THEN Unset
                                 ELSE EmbedText(Given(q.set.content, row.content),
                                                Given(q.set.tags, row.tags))]
             ELSE Finish(r)
    /\ UNCHANGED <<liveWs, role, memory>>

(* Mutants: the content that was read is written back; a name that is not  *)
(* given is written all the same.                                          *)
UpdatedWritesBack(row, set, embed) ==
    [row EXCEPT !.content = IF embed = Unset THEN @ ELSE embed.content,
                !.embedding = Given(embed, @)]

UpdatedUnset(row, set, embed) == [row EXCEPT !.name = set.name]

(* UPDATE ... WHERE id = m sets the given fields only, wherever the memory *)
(* is by now; then the tags are replaced.                                  *)
Updated(row, set, embed) ==
    [row EXCEPT !.content = Given(set.content, @),
                !.name = Given(set.name, @),
                !.tags = IF set.tags = Unset THEN @ ELSE TagSet(set.tags),
                !.embedding = Given(embed, @)]

UpdateWrite(r) ==
    /\ AtStep(r, "update", "write")
    /\ LET q == request[r]
           new == Updated(memory[q.id], q.set, q.embed)
       IN  /\ Live(q.id) => ~Claimed(r, new.ws, new.content, new.name)
           /\ IF Live(q.id) /\ ~Conflict(q.id, new.ws, new.content, new.name)
                THEN memory' = [memory EXCEPT ![q.id] = new]
                ELSE UNCHANGED memory
    /\ Finish(r)
    /\ UNCHANGED <<liveWs, role>>

-----------------------------------------------------------------------------
(* delete_memory and MemoryDao.delete                                      *)

DeleteBegin(r) == \E u \in Users, m \in MemIds, w \in WsIds :
    /\ CanWrite(u, w)
    /\ m \in In(w)
    /\ Begin(r, [op |-> "delete", user |-> u, ws |-> w, id |-> m, step |-> "write"])
    /\ UNCHANGED <<liveWs, role, memory>>

(* Mutant: the workspace is not in the WHERE clause.                       *)
DeleteById(r) ==
    /\ AtStep(r, "delete", "write")
    /\ memory' = IF Live(request[r].id)
                    THEN [memory EXCEPT ![request[r].id] = Deleted] ELSE memory
    /\ Finish(r)
    /\ UNCHANGED <<liveWs, role>>

DeleteWrite(r) ==
    /\ AtStep(r, "delete", "write")
    /\ LET q == request[r] IN
       memory' = IF q.id \in In(q.ws) THEN [memory EXCEPT ![q.id] = Deleted] ELSE memory
    /\ Finish(r)
    /\ UNCHANGED <<liveWs, role>>

-----------------------------------------------------------------------------
(* move_memory and MemoryDao.move                                          *)

MoveBegin(r) == \E u \in Users, m \in MemIds, w, to \in WsIds :
    /\ m \in In(w)
    /\ CanWrite(u, w)
    /\ CanWrite(u, to)
    /\ Begin(r, [op |-> "move", user |-> u, ws |-> w, to |-> to, id |-> m,
                 name |-> Unset, content |-> Unset, step |-> "read"])
    /\ UNCHANGED <<liveWs, role, memory>>

MoveRead(r) ==
    /\ AtStep(r, "move", "read")
    /\ LET q == request[r] IN
       IF q.id \in In(q.ws)
         THEN request' = [request EXCEPT ![r] =
                [q EXCEPT !.step = "check", !.name = memory[q.id].name,
                          !.content = memory[q.id].content]]
         ELSE Finish(r)
    /\ UNCHANGED <<liveWs, role, memory>>

MoveCheck(r) ==
    /\ AtStep(r, "move", "check")
    /\ LET q == request[r] IN
       IF Conflict(q.id, q.to, q.content, q.name) THEN Finish(r) ELSE Goto(r, "write")
    /\ UNCHANGED <<liveWs, role, memory>>

(* Mutant: nothing but the earlier check keeps duplicates out.             *)
MoveUnchecked(r) ==
    /\ AtStep(r, "move", "write")
    /\ Live(request[r].id)
    /\ request[r].to \in liveWs
    /\ memory' = [memory EXCEPT ![request[r].id].ws = request[r].to]
    /\ Finish(r)
    /\ UNCHANGED <<liveWs, role>>

MoveWrite(r) ==
    /\ AtStep(r, "move", "write")
    /\ LET q == request[r]
           row == memory[q.id]
       IN  /\ Live(q.id) => ~Claimed(r, q.to, row.content, row.name)
           /\ IF Live(q.id) /\ q.to \in liveWs /\ ~Conflict(q.id, q.to, row.content, row.name)
                THEN memory' = [memory EXCEPT ![q.id].ws = q.to]
                ELSE UNCHANGED memory
    /\ Finish(r)
    /\ UNCHANGED <<liveWs, role>>

-----------------------------------------------------------------------------
(* import_memories: forced creates in one transaction.  Items that do not  *)
(* validate are skipped before they get here.                              *)

ImportBegin(r) == \E u \in Users, w \in WsIds, b \in Batches :
    /\ CanWrite(u, w)
    /\ Begin(r, [op |-> "import", user |-> u, ws |-> w, items |-> b, todo |-> b, new |-> {},
                 step |-> "lookup"])
    /\ UNCHANGED <<liveWs, role, memory>>

(* On to the next item, or to the commit.                                  *)
NextItem(q) == [q EXCEPT !.todo = Tail(@), !.step = IF Len(q.todo) = 1 THEN "commit" ELSE "lookup"]

(* create asks for write access again, and skips a content that is there,  *)
(* by an earlier item too.                                                 *)
ImportLookup(r) ==
    /\ AtStep(r, "import", "lookup")
    /\ LET q == request[r]
           item == Head(q.todo)
       IN  CASE ~CanWrite(q.user, q.ws) -> Finish(r)
             [] \/ \E m \in In(q.ws) : memory[m].content = item.content
                \/ \E x \in q.new : x.content = item.content -> request' = [request EXCEPT ![r] = NextItem(q)]
             [] OTHER -> Goto(r, "insert")
    /\ UNCHANGED <<liveWs, role, memory>>

(* Mutant: an item that cannot be inserted is skipped.                     *)
ImportInsertOrSkip(r) ==
    /\ AtStep(r, "import", "insert")
    /\ LET q == request[r]
           item == Head(q.todo)
           fails == \/ \E m \in In(q.ws) : memory[m].content = item.content \/ memory[m].name = item.name
                    \/ \E x \in q.new : x.name = item.name
       IN  request' = [request EXCEPT ![r] =
                         IF fails THEN NextItem(q) ELSE NextItem([q EXCEPT !.new = @ \cup {item}])]
    /\ UNCHANGED <<liveWs, role, memory>>

(* A constraint error ends the whole import.                               *)
ImportInsert(r) ==
    /\ AtStep(r, "import", "insert")
    /\ LET q == request[r]
           item == Head(q.todo)
           fails == \/ q.ws \notin liveWs
                    \/ \E m \in In(q.ws) : memory[m].content = item.content \/ memory[m].name = item.name
                    \/ \E x \in q.new : x.name = item.name
       IN  /\ ~Claimed(r, q.ws, item.content, item.name)
           /\ IF fails THEN Finish(r)
              ELSE request' = [request EXCEPT ![r] = NextItem([q EXCEPT !.new = @ \cup {item}])]
    /\ UNCHANGED <<liveWs, role, memory>>

ImportCommit(r) ==
    /\ AtStep(r, "import", "commit")
    /\ LET q == request[r] IN
       \E id \in [q.new -> {m \in MemIds : memory[m] = Unused}] :
          /\ \A x, y \in q.new : id[x] = id[y] => x = y
          /\ memory' = [m \in MemIds |->
                IF \E x \in q.new : id[x] = m
                  THEN LET x == CHOOSE y \in q.new : id[y] = m
                       IN  [state |-> "live", ws |-> q.ws, name |-> x.name, content |-> x.content,
                            tags |-> TagSet(x.tags), embedding |-> EmbedText(x.content, x.tags)]
                  ELSE memory[m]]
    /\ Finish(r)
    /\ UNCHANGED <<liveWs, role>>

-----------------------------------------------------------------------------
(* scripts/reembed.py: all contents are read in one session; another one   *)
(* writes the vectors, of the contents alone, and commits them together.   *)

ReembedBegin(r) ==
    /\ Reembeds
    /\ \E m \in MemIds : Live(m)
    /\ Begin(r, [op |-> "reembed", step |-> "write",
                 read |-> [m \in MemIds |-> IF Live(m) THEN memory[m].content ELSE Unset]])
    /\ UNCHANGED <<liveWs, role, memory>>

ReembedWrite(r) ==
    /\ AtStep(r, "reembed", "write")
    /\ LET read == request[r].read IN
       memory' = [m \in MemIds |-> IF Live(m) /\ read[m] # Unset
                                     THEN [memory[m] EXCEPT !.embedding = EmbedText(read[m], {})]
                                     ELSE memory[m]]
    /\ Finish(r)
    /\ UNCHANGED <<liveWs, role>>

-----------------------------------------------------------------------------
(* The rest of the system.                                                 *)

Rollback(r) ==
    /\ request[r] # Idle
    /\ Finish(r)
    /\ UNCHANGED <<liveWs, role, memory>>

JoinOrLeave(u, w) ==
    /\ RolesChange
    /\ w \in liveWs
    /\ \/ role[w][u] = "none" /\ \E ro \in {"viewer", "editor"} : role' = [role EXCEPT ![w][u] = ro]
       \/ role[w][u] \in {"viewer", "editor"} /\ role' = [role EXCEPT ![w][u] = "none"]
    /\ UNCHANGED <<liveWs, memory, request>>

(* Mutant: memories.workspace_id has no cascade.                           *)
DeleteKeepsMemories(w) ==
    /\ w \in liveWs
    /\ liveWs' = liveWs \ {w}
    /\ UNCHANGED <<role, memory, request>>

(* ON DELETE CASCADE takes the memories and the memberships; it waits for  *)
(* an import that has inserted into the workspace.                         *)
DeleteWorkspace(w) ==
    /\ w \in liveWs
    /\ \A r \in Requests : (request[r] # Idle /\ request[r].op = "import" /\ request[r].ws = w)
                              => request[r].new = {}
    /\ \E u \in Users : role[w][u] = "owner"
    /\ liveWs' = liveWs \ {w}
    /\ role' = [role EXCEPT ![w] = [u \in Users |-> "none"]]
    /\ memory' = [m \in MemIds |-> IF m \in In(w) THEN Deleted ELSE memory[m]]
    /\ UNCHANGED request

Next ==
    \/ \E u \in Users, w \in WsIds : JoinOrLeave(u, w)
    \/ \E w \in WsIds : DeleteWorkspace(w)
    \/ \E r \in Requests :
          \/ StoreBegin(r) \/ StoreLookup(r) \/ StoreDedup(r) \/ StoreWrite(r)
          \/ UpdateBegin(r) \/ UpdateRead(r) \/ UpdateWrite(r)
          \/ DeleteBegin(r) \/ DeleteWrite(r)
          \/ MoveBegin(r) \/ MoveRead(r) \/ MoveCheck(r) \/ MoveWrite(r)
          \/ ImportBegin(r) \/ ImportLookup(r) \/ ImportInsert(r) \/ ImportCommit(r)
          \/ ReembedBegin(r) \/ ReembedWrite(r)
          \/ Rollback(r)

Spec == Init /\ [][Next]_vars

-----------------------------------------------------------------------------
(* Properties *)

TypeOK ==
    /\ liveWs \subseteq WsIds
    /\ role \in [WsIds -> [Users -> Roles]]
    /\ memory \in [MemIds -> MemoryRow \cup NoRow]
    /\ request \in [Requests -> Request]

(* Every memory is in a workspace that exists: a store or a move that races*)
(* the deletion of the workspace is refused by the foreign key.            *)
MemoryInLiveWorkspace == \A m \in MemIds : Live(m) => memory[m].ws \in liveWs

(* Names and contents are unique within a workspace, so get_memory and     *)
(* get_id_by_name find at most one row, also when the lookups of a store,  *)
(* an update or a move are stale by the time it writes.                    *)
UniquePerWorkspace ==
    \A m, x \in MemIds :
        (Live(m) /\ Live(x) /\ m # x /\ memory[m].ws = memory[x].ws)
            => memory[m].name # memory[x].name /\ memory[m].content # memory[x].content

(* "Only provided fields are changed" (update_memory): whatever was read   *)
(* before the embedding was computed, the write touches no other field, so *)
(* concurrent updates of different fields do not undo each other.          *)
OnlyProvidedFieldsChange ==
    [][\A m \in MemIds :
          (Live(m) /\ memory'[m].state = "live" /\ memory'[m] # memory[m]) =>
          \E r \in Requests :
             /\ request[r] # Idle /\ request'[r] = Idle
             /\ LET q == request[r] new == memory'[m] old == memory[m] IN
                CASE q.op = "move" -> q.id = m /\ new = [old EXCEPT !.ws = q.to]
                  [] q.op = "reembed" -> new = [old EXCEPT !.embedding = new.embedding]
                  [] q.op = "update" ->
                        /\ q.id = m
                        /\ new.ws = old.ws
                        /\ new.content = Given(q.set.content, old.content)
                        /\ new.name = Given(q.set.name, old.name)
                        /\ new.tags # old.tags => q.set.tags # Unset
                        /\ new.embedding # old.embedding =>
                              q.set.content # Unset \/ q.set.tags # Unset
                  [] OTHER -> FALSE]_vars

(* A delete takes a memory only out of the workspace whose write access it *)
(* has checked, although the memory may have been moved in between.        *)
DeletedWhereChecked ==
    [][\A m \in MemIds :
          (Live(m) /\ memory'[m].state # "live") =>
             \/ memory[m].ws \notin liveWs'
             \/ \E r \in Requests :
                   /\ request[r] # Idle /\ request'[r] = Idle
                   /\ request[r].op = "delete" /\ request[r].id = m
                   /\ request[r].ws = memory[m].ws]_vars

(* The stored embedding is that of the stored content and tags.            *)
EmbeddingFresh ==
    \A m \in MemIds : Live(m) =>
        /\ memory[m].embedding.content = memory[m].content
        /\ TagSet(memory[m].embedding.tags) = memory[m].tags

(* A store without force ends up beside a near-identical memory only by a  *)
(* race: that memory came into the workspace, or got its embedding, after  *)
(* the near-duplicate check of the store.                                  *)
NearDuplicatesOnlyByRaces ==
    [][\A m \in MemIds :
          (memory[m] = Unused /\ memory'[m] # Unused) =>
             \E r \in Requests :
                /\ request[r] # Idle /\ request'[r] = Idle
                /\ \/ request[r].op = "import"
                   \/ request[r].op = "store" /\ request[r].force
                   \/ /\ request[r].op = "store"
                      /\ \A x \in In(memory'[m].ws) :
                            Near(memory[x].embedding, memory'[m].embedding) =>
                               <<x, memory[x].embedding>> \notin request[r].seen]_vars

(* An import that writes anything leaves every one of its items in the     *)
(* workspace: the items it skipped are there as well, and when a name of   *)
(* one is taken, none of them is stored.                                   *)
ImportIsWhole ==
    [][\A r \in Requests :
          (request[r] # Idle /\ request[r].op = "import" /\ request'[r] = Idle /\ memory' # memory)
          => \A x \in ToSet(request[r].items) : \E m \in MemIds :
                /\ memory'[m].state = "live" /\ memory'[m].ws = request[r].ws
                /\ memory'[m].content = x.content]_vars

=============================================================================
