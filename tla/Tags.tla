-------------------------------- MODULE Tags --------------------------------
(***************************************************************************)
(* The tag tables of memlord (dao/memory.py): tags are rows shared by all  *)
(* memories of all users, memory_tags pairs them with memories, and every  *)
(* update of tags and every delete of a memory ends with a clean-up of the *)
(* tags that no memory has.                                                *)
(*                                                                         *)
(* Memories takes a transaction's writes as one action.  Here each         *)
(* statement is an action, because tags are the one place where requests   *)
(* of different users write the same rows: what a request has written is   *)
(* kept in its record until Commit, a statement sees the committed rows    *)
(* and its own, and it waits for the rows that another request has locked. *)
(*                                                                         *)
(* The rules of PostgreSQL at READ COMMITTED that matter:                  *)
(*   - INSERT ... ON CONFLICT DO NOTHING waits for a request that has      *)
(*     inserted or deleted a row of that name and not committed;           *)
(*   - the foreign key check of an INSERT locks the tag against deletion   *)
(*     (KEY SHARE), and waits for a request that is deleting it;           *)
(*   - DELETE takes its rows from the snapshot of the statement, waits for *)
(*     those that are locked, and deletes a row that was only locked       *)
(*     without looking at its WHERE clause again;                          *)
(*   - the cascade of a DELETE sees what is committed by then.             *)
(***************************************************************************)
EXTENDS Naturals, Sequences, SequencesExt

CONSTANTS
    MemIds, Names, Requests,
    Orders,        \* the sets of tags that callers give, as Python iterates them
    Serials,       \* tells a row of tags from earlier rows of that name
    NoTag          \* tag_id is None

ASSUME OrdersAssumption ==
    Orders \subseteq UNION {SetToSeqs(S) : S \in {T \in SUBSET Names : IsFiniteSet(T)}}
ASSUME NoTagAssumption == NoTag \notin [name: Names, serial: Serials]

VARIABLES
    memory,   \* ids of the rows of memories
    tag,      \* rows of tags
    pair,     \* rows of memory_tags, as [memory, tag]
    request   \* [Requests -> request in flight, or Idle]

vars == <<memory, tag, pair, request>>

TagRow == [name: Names, serial: Serials]  \* a row is known by its id, which is unique
PairRow == [memory: MemIds, tag: TagRow]

Idle == [op |-> "idle"]

Request ==
    [op: {"store", "replace", "delete"}, id: MemIds,
     asked: SUBSET Names, todo: Seq(Names),        \* the loop over the tags
     tag: TagRow \cup {NoTag},                     \* tag_id
     orphans: Seq(TagRow),                         \* rows of the clean-up still to delete
     newTags: SUBSET TagRow, oldTags: SUBSET TagRow,     \* inserted, deleted and
     newPairs: SUBSET PairRow, oldPairs: SUBSET PairRow, \* not yet committed
     step: {"lock", "cut", "insert", "select", "attach", "snapshot", "delete",
            "cascade", "commit"}]

Active(r) == request[r] # Idle
AtStep(r, step) == Active(r) /\ request[r].step = step
Set(r, q) == request' = [request EXCEPT ![r] = q]
Finish(r) == Set(r, Idle)

(* What the statements of a request see.                                   *)
SeenTags(q) == (tag \ q.oldTags) \cup q.newTags
SeenPairs(q) == (pair \ q.oldPairs) \cup q.newPairs
PairsOf(S, m) == {p \in S : p.memory = m}
NamesIn(T, P, m) == {x.name : x \in {y \in T : [memory |-> m, tag |-> y] \in P}}

Init ==
    /\ memory = {}
    /\ tag = {}
    /\ pair = {}
    /\ request = [r \in Requests |-> Idle]

-----------------------------------------------------------------------------
(* Row locks *)

(* What the next step of request q has to wait for in request p.           *)
Blocks(p, q) ==
    CASE q.step = "lock" -> q.id \in memory /\ p.id = q.id /\ p.step # "lock"
      [] q.step = "cut" -> PairsOf(p.oldPairs, q.id) # {}
      [] q.step = "insert" -> \E x \in p.newTags \cup p.oldTags : x.name = Head(q.todo)
      [] q.step = "attach" -> q.tag \in p.oldTags
      [] q.step = "delete" -> \/ Head(q.orphans) \in p.oldTags
                              \/ \E x \in p.newPairs : x.tag = Head(q.orphans)
      [] q.step = "cascade" -> \E x \in p.oldPairs : x.tag \in q.oldTags
      [] OTHER -> FALSE

WaitsFor(r) == {x \in Requests \ {r} :
                   Active(r) /\ Active(x) /\ Blocks(request[x], request[r])}

Runs(r, step) == AtStep(r, step) /\ WaitsFor(r) = {}

-----------------------------------------------------------------------------
(* _upsert_tags: after a tag, the next one or what follows the loop.       *)

Upserting(q) ==
    [q EXCEPT !.step = IF q.todo # <<>> THEN "insert"
                       ELSE IF q.op = "replace" THEN "snapshot" ELSE "commit"]

Started(o, m, order, step) ==
    [op |-> o, id |-> m, asked |-> ToSet(order), todo |-> order, tag |-> NoTag,
     orphans |-> <<>>, newTags |-> {}, oldTags |-> {}, newPairs |-> {}, oldPairs |-> {},
     step |-> step]

FreshMemory == MemIds \ (memory \cup {request[r].id : r \in {x \in Requests : Active(x)}})

(* Rows that no table and no request in flight has.  Serial ids are not    *)
(* reused; one that nobody knows any more is as good as a new one.         *)
FreshTag(n) ==
    {x \in TagRow : x.name = n /\ x \notin tag
       /\ \A r \in Requests : Active(r) =>
            LET q == request[r]
            IN  x \notin {q.tag} \cup q.newTags \cup q.oldTags \cup ToSet(q.orphans)}

(* create, when its checks have passed: the memory is inserted.            *)
StoreBegin(r) == \E order \in Orders :
    /\ ~Active(r)
    /\ FreshMemory # {}
    /\ LET m == CHOOSE x \in FreshMemory : TRUE
       IN  Set(r, Upserting(Started("store", m, order, "insert")))
    /\ UNCHANGED <<memory, tag, pair>>

(* update with tags, up to UPDATE memories; delete, up to DELETE.           *)
ReplaceBegin(r) == \E m \in memory, order \in Orders :
    /\ ~Active(r)
    /\ Set(r, Started("replace", m, order, "lock"))
    /\ UNCHANGED <<memory, tag, pair>>

DeleteBegin(r) == \E m \in memory :
    /\ ~Active(r)
    /\ Set(r, Started("delete", m, <<>>, "lock"))
    /\ UNCHANGED <<memory, tag, pair>>

(* The row is locked until the commit.  A delete that finds no row raises; *)
(* an update goes on.                                                      *)
LockMemory(r) ==
    /\ Runs(r, "lock")
    /\ IF request[r].op = "delete" /\ request[r].id \notin memory
         THEN Finish(r)
         ELSE Set(r, [request[r] EXCEPT !.step = "cut"])
    /\ UNCHANGED <<memory, tag, pair>>

(* _replace_tags deletes the old pairs; so does the cascade of a delete.   *)
CutPairs(r) ==
    /\ Runs(r, "cut")
    /\ LET q == [request[r] EXCEPT !.oldPairs = PairsOf(SeenPairs(request[r]), request[r].id)]
       IN  Set(r, IF q.op = "delete" THEN [q EXCEPT !.step = "snapshot"] ELSE Upserting(q))
    /\ UNCHANGED <<memory, tag, pair>>

(* INSERT INTO tags ... ON CONFLICT DO NOTHING.                            *)
InsertTag(r) ==
    /\ Runs(r, "insert")
    /\ LET q == request[r] IN
       \/ /\ \E x \in SeenTags(q) : x.name = Head(q.todo)
          /\ Set(r, [q EXCEPT !.step = "select"])
       \/ /\ \A x \in SeenTags(q) : x.name # Head(q.todo)
          /\ FreshTag(Head(q.todo)) # {}
          /\ Set(r, [q EXCEPT !.step = "select",
                       !.newTags = @ \cup {CHOOSE x \in FreshTag(Head(q.todo)) : TRUE}])
    /\ UNCHANGED <<memory, tag, pair>>

(* Mutant: the request asks again until the tag is there.                  *)
SelectTagRetry(r) ==
    /\ Runs(r, "select")
    /\ \E x \in SeenTags(request[r]) :
          /\ x.name = Head(request[r].todo)
          /\ Set(r, [request[r] EXCEPT !.step = "attach", !.tag = x])
    /\ UNCHANGED <<memory, tag, pair>>

(* A later statement: the row that was in the way may be gone by now.      *)
SelectTag(r) ==
    /\ Runs(r, "select")
    /\ LET q == request[r]
           found == {x \in SeenTags(q) : x.name = Head(q.todo)}
       IN  Set(r, [q EXCEPT !.step = "attach",
                     !.tag = IF found = {} THEN NoTag ELSE CHOOSE x \in found : TRUE])
    /\ UNCHANGED <<memory, tag, pair>>

HasTag(q) == q.tag \in SeenTags(q)
HasMemory(q) == q.op = "store" \/ q.id \in memory
Attached(q) == Upserting([q EXCEPT !.newPairs = @ \cup {[memory |-> q.id, tag |-> q.tag]},
                                   !.todo = Tail(@), !.tag = NoTag])

(* Mutants: memory_tags.tag_id has no foreign key, or is no part of a key, *)
(* or a tag that cannot be attached is skipped.                            *)
AttachUnchecked(r) ==
    /\ Runs(r, "attach")
    /\ IF request[r].tag # NoTag /\ HasMemory(request[r])
         THEN Set(r, Attached(request[r])) ELSE Finish(r)
    /\ UNCHANGED <<memory, tag, pair>>

AttachNull(r) ==
    /\ Runs(r, "attach")
    /\ IF (HasTag(request[r]) \/ request[r].tag = NoTag) /\ HasMemory(request[r])
         THEN Set(r, Attached(request[r])) ELSE Finish(r)
    /\ UNCHANGED <<memory, tag, pair>>

AttachOrSkip(r) ==
    /\ Runs(r, "attach")
    /\ LET q == request[r]
       IN  Set(r, IF HasTag(q) /\ HasMemory(q) THEN Attached(q)
                  ELSE Upserting([q EXCEPT !.todo = Tail(@), !.tag = NoTag]))
    /\ UNCHANGED <<memory, tag, pair>>

(* INSERT INTO memory_tags: NULL and both foreign keys are checked; an     *)
(* error rolls the request back.                                           *)
Attach(r) ==
    /\ Runs(r, "attach")
    /\ IF HasTag(request[r]) /\ HasMemory(request[r])
         THEN Set(r, Attached(request[r])) ELSE Finish(r)
    /\ UNCHANGED <<memory, tag, pair>>

-----------------------------------------------------------------------------
(* _cleanup_orphan_tags: one DELETE.                                       *)

(* Its snapshot says which tags have no memory.                            *)
CleanSnapshot(r) ==
    /\ Runs(r, "snapshot")
    /\ LET q == request[r]
           orphans == {x \in SeenTags(q) : \A p \in SeenPairs(q) : p.tag # x}
       IN  \E order \in SetToSeqs(orphans) :
              Set(r, [q EXCEPT !.orphans = order,
                               !.step = IF order = <<>> THEN "commit" ELSE "delete"])
    /\ UNCHANGED <<memory, tag, pair>>

(* A row that is gone is skipped.                                          *)
CleanDelete(r) ==
    /\ Runs(r, "delete")
    /\ LET q == request[r]
       IN  Set(r, [q EXCEPT !.orphans = Tail(@),
                            !.oldTags = @ \cup ({Head(q.orphans)} \cap tag),
                            !.step = IF Len(q.orphans) = 1 THEN "cascade" ELSE @])
    /\ UNCHANGED <<memory, tag, pair>>

CleanCascade(r) ==
    /\ Runs(r, "cascade")
    /\ LET q == request[r]
       IN  Set(r, [q EXCEPT !.step = "commit",
                     !.oldPairs = @ \cup {p \in SeenPairs(q) : p.tag \in q.oldTags}])
    /\ UNCHANGED <<memory, tag, pair>>

-----------------------------------------------------------------------------
Commit(r) ==
    /\ Runs(r, "commit")
    /\ LET q == request[r] IN
       /\ memory' = CASE q.op = "store" -> memory \cup {q.id}
                      [] q.op = "delete" -> memory \ {q.id}
                      [] OTHER -> memory
       /\ tag' = SeenTags(q)
       /\ pair' = SeenPairs(q)
    /\ Finish(r)

(* A lost connection, a crash.                                             *)
Rollback(r) == Active(r) /\ Finish(r) /\ UNCHANGED <<memory, tag, pair>>

Reaches[S \in SUBSET Requests] ==
    LET next == S \cup UNION {WaitsFor(r) : r \in S}
    IN  IF next = S THEN S ELSE Reaches[next]

(* PostgreSQL ends one of the requests that wait for each other.           *)
DeadlockVictim(r) ==
    /\ r \in Reaches[WaitsFor(r)]
    /\ Finish(r)
    /\ UNCHANGED <<memory, tag, pair>>

(* The workspace of a memory is deleted: both cascades, no clean-up.       *)
DropWithWorkspace(m) ==
    /\ m \in memory
    /\ \A r \in Requests : Active(r) =>
          /\ request[r].id = m => request[r].step = "lock"
          /\ PairsOf(request[r].oldPairs, m) = {}
    /\ memory' = memory \ {m}
    /\ pair' = pair \ PairsOf(pair, m)
    /\ UNCHANGED <<tag, request>>

Step(r) ==
    \/ LockMemory(r) \/ CutPairs(r)
    \/ InsertTag(r) \/ SelectTag(r) \/ Attach(r)
    \/ CleanSnapshot(r) \/ CleanDelete(r) \/ CleanCascade(r)
    \/ Commit(r)

Next ==
    \/ \E m \in MemIds : DropWithWorkspace(m)
    \/ \E r \in Requests :
          \/ StoreBegin(r) \/ ReplaceBegin(r) \/ DeleteBegin(r)
          \/ Step(r) \/ Rollback(r) \/ DeadlockVictim(r)

(* A request that gets its locks again and again runs in the end: locks    *)
(* are granted in the order of the requests.  A deadlock is found by a     *)
(* timer.  Nobody has to call, and no connection has to break.             *)
Fairness ==
    /\ \A r \in Requests : SF_vars(Step(r))
    /\ WF_vars(\E r \in Requests : DeadlockVictim(r))

Spec == Init /\ [][Next]_vars /\ Fairness

-----------------------------------------------------------------------------
(* Properties *)

TypeOK ==
    /\ memory \subseteq MemIds
    /\ tag \subseteq TagRow
    /\ pair \subseteq PairRow
    /\ request \in [Requests -> Request \cup {Idle}]

(* A clean-up that deletes a tag while another request attaches it leaves  *)
(* no pair without a tag, and a delete that meets an update none without a *)
(* memory.                                                                 *)
NoDanglingPairs == \A p \in pair : p.memory \in memory /\ p.tag \in tag

(* A store or an update that commits leaves the memory with the tags it    *)
(* asked for, no more and no fewer, and a delete with none, although       *)
(* clean-ups of others delete tags between its statements: it fails as a   *)
(* whole instead.                                                          *)
CommitStoresAskedTags ==
    [][\A r \in Requests :
          Commit(r) => NamesIn(tag', pair', request[r].id) = request[r].asked]_vars

(* Requests that wait for each other's tags all end: the locks that a      *)
(* request holds are released whatever becomes of it.                      *)
EveryRequestEnds == \A r \in Requests : Active(r) ~> ~Active(r)

(* A tag leaves a memory only by a request about that memory, or with its  *)
(* workspace: the clean-up takes orphans only.                             *)
TagsAreKept ==
    [][\A m \in memory \cap memory' :
          NamesIn(tag, pair, m) \subseteq NamesIn(tag', pair', m)
          \/ \E r \in Requests : Commit(r) /\ request[r].id = m]_vars

=============================================================================
