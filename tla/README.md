# Specifications of memlord

memlord is a memory server for language-model clients: a FastAPI and FastMCP
application on PostgreSQL with pgvector, with its own OAuth authorization
server.  This directory holds TLA+ modules of its core logic, TLC
configurations that check them on small instances, and proofs that TLAPS checks
for every instance.  The reference is the code under `src/memlord`; line numbers
below and in `PROJECT.json` are those of the repository.

## 1. Inventory

| Component | State | Operations | What makes it correct |
|---|---|---|---|
| Workspaces, members, invites (`dao/workspace.py`, `api/workspaces.py`) | rows of `workspaces`, `workspace_members`, `workspace_invites` | create, rename, describe, delete, leave, invite, join; a personal workspace per user | one owner who never changes; a personal workspace is private, permanent and unique; cascades leave nothing behind; an invite is used once |
| Memory store (`dao/memory.py`, `tools/`, `api/memories.py`) | rows of `memories` with embedding and tags | store, update, delete, move, import; get and list read | name and content unique per workspace; the embedding is that of the row; a write changes what its caller gave, where the caller may write; no near-duplicates |
| Tag tables (`dao/memory.py:29-56`) | `tags`, `memory_tags`, shared by all users | upsert, replace, delete orphans | a committed tag assignment is not lost to another request's clean-up |
| OAuth server (`oauth.py`, `auth.py`) | `_pending` and `_auth_codes` in the process; `oauth_clients`, `revoked_tokens`, `users` in the database; signed tokens at the clients | register, authorize, login, registration form, code, refresh, revoke, access | one code per authorization, one exchange per code, a token acts for the user who authorized it, a revoked or rotated token is dead, across restarts |
| API keys (`dao/api_key.py`) | `api_keys` | create under a cap, delete, validate, touch | the cap; a deleted key admits nobody |
| E-mail tokens (`dao/email_token.py`, `ui/login.py`) | `email_tokens` | create, consume | one live token per user and purpose, used once; the mailed link works |
| Accounts, single sign-on (`dao/user.py`, `sso.py`) | `users`, session cookie | register, authenticate, Azure callback | one account per e-mail and per Azure subject |
| Search (`search.py`, `tools/*search*`, `recall`, `list`) | none | hybrid search, tag filter, paging | results are readable by the caller, fusion and limits are as documented, pages partition the list |
| Embeddings (`embeddings.py`, `scripts/reembed.py`) | none; the script rewrites vectors | embed, re-embed | stored vectors are those of the stored text |
| Plumbing (`db.py`, `main.py`, `server.py`, `config.py`) | engine, session factory | a session and a transaction per request | all writes of a request commit together or not at all |
| Migrations, templates, schemas | - | - | not modelled |

How they interact.  A call arrives at a tool (MCP) or at a REST handler.  For a
tool, `load_access_token` accepts the token and `_current_user_gen` resolves it to
a user in the tool's session; for the web, the session cookie does.  The handler
makes its DAOs on one `AsyncSession` whose transaction (`db.py:27`) commits when
the handler returns and rolls back when it raises.  `MemoryDao` asks
`WorkspaceDao` for roles; `UserDao` calls it to make the personal workspace; the
login form of the OAuth server calls `UserDao`; `load_access_token` and
`_current_user_gen` each look an API key up in a transaction of their own.  Nothing else is shared: there
are no background tasks and no callbacks but the one of the ONNX run.

What is hard.  PostgreSQL runs these transactions at READ COMMITTED, and the code
takes no locks: it reads a role, a row or a count in one statement and acts on it
in a later one, sometimes with `await embed(...)` in between.  A read is several
statements too, each with a snapshot of its own, and a listing several requests.  Only unique
constraints, foreign keys with cascades, and row locks of writers keep concurrent
requests apart.  The OAuth server adds state that a restart loses beside state
that it does not.  `PROJECT.json` lists the hazards line by line, with the
properties that cover them or the module of the plan that will.

## 2. How the modules model a request

A request is a record in the variable `request` with its operation, its
arguments, the step it is at, and what it has read.

* A SELECT is an action: it reads committed rows and stores what the code keeps.
* The writes of a request and its commit are one action.  Other requests cannot
  see uncommitted rows, and the rows written stay locked until the commit, so
  the writes take effect at one point.  Constraints are evaluated there.
  Two places are opened up further, because what a request has written and not
  committed is what matters there: the tag tables (`Tags`, every statement an
  action, with row locks) and an import (`Memories`, which keeps the rows it has
  inserted, `Claimed` against other writers, until it commits).
* The arrival of a request and its first SELECT are one action; a request that is
  refused there changes nothing and is left out.
* `Rollback` (`Abort` in OAuthProvider) ends a request at any step without an
  effect: a constraint error, a deadlock victim, a lost connection, a crash.
  The requests of Accounts that mail a link are the exception: they call the mail
  server between their writes and their commit.  There a write is an action of
  its own that holds its row locks or its claim on a unique value, a DELETE
  first takes the snapshot of the rows it will delete, and an id that was drawn
  stays spent when the transaction is rolled back.
* Code of the OAuth server between two awaits is atomic, as on one event loop.
* Ids come from sequences or are random, and are never reused: an id goes from
  unused to live to deleted.

## 3. Modules

### Workspaces

`users`, `workspace`, `member` and `invite` are the four tables.  `Register` is
`UserDao.create` with `create_personal`; a name of the form `__personal_N__` that
a shared workspace already has makes the registration fail and spends its id
("burnt").  `CreateWorkspace` is `create`.  Rename, describe, delete, leave,
invite and join are `Open...` (the handler's first SELECT, the refusal for
personal workspaces), `CheckRole` (`get_role`), and `...Write`.  `Expire` lets an
invite's 72 hours pass.  Role changes of a member who stays do not exist in the
code.

| Property | States |
|---|---|
| `TypeOK` | shapes of rows and requests; an invite never carries "owner" |
| `OwnerIsCreator` | a live workspace has one owner, its creator |
| `PersonalIsPrivate` | a personal workspace has no other member |
| `EveryUserHasPersonal` | every registered user has one personal workspace, nobody else has |
| `NoDanglingRows` | members and invites belong to live workspaces, invites to shared ones |
| `RequestInv` | what a request has read about ownership stays true until it writes (proved with the others, see section 6) |
| `OwnerDecides` | only the owner at that moment renames, describes or deletes |
| `ImplementsAccess` | refinement of `WorkspaceAccess` |
| `InviteUsedOnce` | an invite admits one user (violated) |

`WorkspaceAccess` is the abstract specification of membership: found, join, leave,
dissolve, each one atomic step on a kind and a role per workspace and user.  The
mapping is `kind <- Kind, role <- member`: a workspace is "none", "personal" or
"shared".

### Memories

`memory` has the row of each memory with workspace, name, content, tags and
embedding; `role` and `liveWs` stand for the workspace tables, which others change
meanwhile (`JoinOrLeave`, `DeleteWorkspace`).  An embedding is the text it was
computed from (`EmbedText`), and `Near` says which are at least `dedup_threshold`
close.  Tags are normalised by `TagSet` (lower case, stripped, empty ones
dropped), but the embedding keeps them as given, as the code does.

| Code | Actions |
|---|---|
| `store_memory`, `MemoryDao.create` | `StoreBegin`, `StoreLookup` (same content), `StoreDedup` (near-duplicate, after the embedding), `StoreWrite` |
| `update_memory`, `MemoryDao.update` | `UpdateBegin`, `UpdateRead` (old content or tags, then embed), `UpdateWrite` (`Updated`) |
| `delete_memory`, `MemoryDao.delete` | `DeleteBegin`, `DeleteWrite` |
| `move_memory`, `MemoryDao.move` | `MoveBegin`, `MoveRead`, `MoveCheck`, `MoveWrite` |
| `import_memories` | `ImportBegin`, per item `ImportLookup` (access, same content) and `ImportInsert` (constraints), `ImportCommit` |
| `scripts/reembed.py` | `ReembedBegin` (all contents), `ReembedWrite` (vectors of the contents alone) |

`MemoryInLiveWorkspace` and `UniquePerWorkspace` are invariants,
`DeletedWhereChecked` and `OnlyProvidedFieldsChange` say what a write may touch
although its lookups are stale.  `ImportIsWhole` says that an import that stores
anything leaves all of its items in the workspace: the ones it skipped are there,
and one that cannot be inserted undoes the others.  `EmbeddingFresh` holds with one
request at a time and not with two.

Nothing in the code keeps two near-identical stores apart that check at the same time,
so near-duplicates do get stored.  `NearDuplicatesOnlyByRaces` says that they come from
nothing else: a store without force ends up beside a near-identical memory only if that
memory came into the workspace, or got its embedding, after the check of the store.
What the check saw is a history field of the request, `seen`: all that there may be until
`StoreDedup` passes, then the memories of the workspace with their embeddings (`Seen`).
No guard reads it.

### Tags

The rows of `tags` are shared by all memories of all users, so requests that have
nothing to do with each other write the same rows.  `memory`, `tag` and `pair` are
the committed rows; a request carries what it has inserted and deleted itself
(`newTags`, `oldTags`, `newPairs`, `oldPairs`), sees the committed rows and its own
(`SeenTags`, `SeenPairs`), and waits for the rows another request holds (`Blocks`).

| Code | Actions |
|---|---|
| `create`, `update`, `delete` up to the tags | `StoreBegin`; `ReplaceBegin`, `DeleteBegin` and `LockMemory` (the row lock of UPDATE or DELETE) |
| `_replace_tags`, cascade of a delete | `CutPairs` |
| `_upsert_tags`, per tag | `InsertTag` (ON CONFLICT DO NOTHING), `SelectTag` (`tag_id`, None if the row is gone), `Attach` (foreign keys) |
| `_cleanup_orphan_tags` | `CleanSnapshot` (NOT IN), `CleanDelete` per row, `CleanCascade` |
| end of the transaction | `Commit`, `Rollback`, `DeadlockVictim` |
| a workspace is deleted | `DropWithWorkspace` |

`NoDanglingPairs`: every pair has its memory and its tag.  `CommitStoresAskedTags`: a
request that commits leaves its memory with the tags it was given, although others
delete tags between its statements; when one is gone it fails as a whole.
`EveryRequestEnds` is liveness: two requests that insert or delete the same tags in
different orders wait for each other, and end all the same.  `TagsAreKept`, that
only a request about a memory takes tags off it, does not hold.

### Search

One reader, with any set of workspaces at each request (users join and leave at any
time), and writers in one step each.  What the statements look at in a row is
a "doc"; `TextRank` and `Distance` say how each doc answers the query, which is all
that the fusion uses of it.

| Code | Actions and operators |
|---|---|
| `retrieve_memory`, `recall_memory`, the search page | `SearchBegin` (workspaces, `Periods`) |
| `hybrid_search` | `TextSearch`, `VectorSearch` (a later snapshot), `Hits` (threshold), `Score` (1/(k + rank), as fractions), `Top` |
| dates and tags looked up by id | `Enrich` (a default for what is gone), `EnrichOrFail` (KeyError) |
| `search_by_tag` | `TagSearchBegin`, `TagSearch`, `HasTags` |
| `list_memories`, tool and REST | `ListBegin`, `ListRows` (LIMIT, OFFSET), `ListNext` |
| writers | `Store`, `Update`, `Move`, `Delete` |

`BetterComesFirst` checks the fusion against what it is for, without its formula: a
memory that one ranking puts before another and the other ranking does not put
after it comes first, whatever the threshold and the limit cut off.
`TextHitsKept` says what the threshold may drop.  `ShownAsScored`: a hit is one
memory as one statement saw it, although the two statements may have seen it in
different workspaces with different contents.  `DatedInPeriod`: an answer of
recall gives every hit its own date, in the period; when a hit was deleted
meanwhile there is no answer.  `TagSearchMeans` and `NothingSkipped` define tag
search and paging by sets, with the exceptions the code has: a tag that was
spelt twice in an AND search, two memories of one time, a memory that left the list
between two pages.

### OAuthProvider

`pending` and `code` are the two dictionaries of the process; `accounts`, `client`
and `revoked` are tables; `pair` is what the clients hold.  `Restart` empties the
dictionaries, ends all requests and keeps the rest.

| Code | Actions |
|---|---|
| `register_client`, `authorize` | `RegisterClient`, `Authorize` |
| `_login_post`, `_handle_login`, `_handle_register` | `LoginPost`, `RegisterPost`, `LoginExpired` |
| `_issue_code` | `IssueCode` (`del`, KeyError), `LinkClient` (UPDATE, commit), `CreateCode` |
| `load_authorization_code`, `exchange_authorization_code` | `Redeem`, `RedeemExpired` |
| `load_refresh_token`, `exchange_refresh_token` | `RefreshBegin`, `RefreshRevoke`, `RefreshIssue` |
| `/revoke`, `revoke_token`, `_revoke_pair` | `RevokeBegin`, `RevokeWrite` |
| `load_access_token`, `_current_user_gen`, the tool | `AccessBegin`, `AccessResolve`, `AccessDone` |
| lifetimes, failures | `ExpirePending`, `ExpireToken`, `Abort`, `Restart` |

Which authorization a code came from, what a pair came from, which refresh tokens
were rotated and which revocations were answered are history: the code has no such
fields, and no guard reads them.  `OneCodePerRequest`, `CodeSpentOnce`,
`HolderIsLinked` and `RevocationSticks` hold; `RotationEndsRefresh` does not.

### Accounts

`user` and `token` are the tables `users` and `email_tokens`, `mail` has the mails
that were sent, by the token they carry.  Addresses are what people type;
`Normal` is `strip().lower()`, applied exactly where the code applies it.  `used` is history: the tokens with which somebody got through.

| Code | Actions |
|---|---|
| `register_post`, `UserDao.create` | `RegisterBegin` (`exists_by_email`), `RegisterInsert` (unique address), then as below |
| `resend_verification`, `forgot_password_post` | `ResendBegin`, `ForgotBegin`, then as below |
| `EmailTokenDao.create`, `send_email`, commit | `TokenDelete` (snapshot), `TokenInsert` (after waiting for row locks), `SendMail`, `Commit` |
| `verify_email`, `reset_password_post`, `consume` | `OpenLink` (read), `OpenWrite` (delete, write the user, commit) |
| `azure_callback`, `get_or_create_by_email_for_sso` | `SsoBegin`, `SsoLink`, `SsoCreate` |
| failures, lifetimes | `Rollback`, `ExpireToken` |

`OneAccountPerAddress` is about the two ways in, which both look first and insert
later.  `VerifiedByLink` and `PasswordChangedByLink` tie what an account row says to
a mail that went to its address, several steps and a failed commit earlier: a
mail whose transaction was rolled back carries a token that does not exist.
`UsedLinkIsDead` and `LiveLinksBounded` are what `create` and `consume` keep of
"one token" and "used once" under concurrency: two requests that both read a token
before either deletes it both get through, and two that both ask for a link leave
two of them.

### ApiKeys

`key` is the table `api_keys`.  `CreateCount` and `CreateInsert` are
`ApiKeyDao.create`, `Revoke` is `delete`; `AccessBegin` (`validate_key`) and
`AccessTouch` (`touch_last_used`) are the transaction of `load_access_token`,
`AccessResolve` the second lookup in the session of the tool (`auth.py`), which is
what keeps a key out that was revoked in between.  `CapExceededByRacesOnly` bounds
how far the count that nobody locks can be exceeded; for one request at a time
it is the documented cap.

## 4. Runs

`tlc -workers 2 -config X.cfg M`, with M named in the table.  Every run takes three
minutes at most.  Deadlock is not checked: the ids are bounded, and a system that
has used them all may stop.  That requests do not wait for each other for ever is
`EveryRequestEnds`.

| Run | cfg, module | Shows |
|---|---|---|
| `workspaces` | MCWorkspaces, MCWorkspaces | the invariants, `OwnerDecides` and the refinement hold; 2 users, 3 workspaces, 2 invites, 2 requests |
| `invite_race` | MCInviteRace, MCWorkspaces | violation of `InviteUsedOnce`; 3 users, 1 invite, 2 requests |
| `memories` | MCMemories, MCMemories | uniqueness, foreign key, place of deletes, fields of updates, and near-duplicates only by races, with imports of 2 items and the re-embedding script; 2 workspaces, 2 memories, 2 names, 2 contents, 2 requests |
| `memory_serial` | MCMemorySerial, MCMemories | `EmbeddingFresh`, `ImportIsWhole` with one request at a time, with tags that differ in case and a second user who joins and leaves; 1 workspace, 3 memories |
| `stale_embedding` | MCStaleEmbedding, MCMemories | violation of `EmbeddingFresh` |
| `tags` | MCTags, MCTags | no dangling pair, a commit stores the tags asked for, every request ends; 2 memories, 2 names, 2 serials per name, 2 requests with no tags or both in either order |
| `tag_lost` | MCTagLost, MCTags | violation of `TagsAreKept`; the same with any set of tags |
| `search` | MCSearch, MCSearch | fusion, threshold, snapshots, dates, tag search and pages; 2 memories, 2 workspaces, 3 docs, 2 times, limit 1, window 2, pages of 1 |
| `oauth` | MCOAuth, MCOAuth | types, one code per authorization, one exchange per code, link before code, and that an access token whose revocation has been answered is refused (not the refresh token of its pair, nor a revoked refresh token); 2 authorizations, codes, token pairs and requests, so a refreshed pair is revoked too |
| `refresh_rotation` | MCRotation, MCOAuth | violation of `RotationEndsRefresh` |
| `accounts` | MCAccounts, MCAccounts | one account per address, verification and reset only by the mailed link, dead links, bounded live links; 2 users, 2 addresses each typed in 2 ways, 3 tokens, 1 password, 1 Azure subject, 2 requests |
| `api_keys` | MCApiKeys, MCApiKeys | the bound on keys and that a revoked key serves nobody; 2 users, 4 keys, cap 2, 2 requests |

Why the bounds are enough to be of interest.  Every race in this code is between
two requests over one row, so two request slots show it, and the slots are reused
without bound, so any sequence of requests follows.  Two users make an owner and a
stranger, and a third workspace leaves room for a shared one beside the two
personal ones; with three users an invite has two claimants besides the owner.  One
client and one account are enough for the runs of the OAuth server, since no step of
one client reads another's rows.  Two
memories and two workspaces are what a conflict of names and a move need.  One
authorization suffices for a chain of tokens, two give two codes.  The
second spelling of an address is what makes a forgotten normalisation visible, and
the third token lets a link be replaced while another is used.  Four keys are one
more than a cap of two and two requests allow.  The
ids are the only bounded counters: when they run out, creations stop and
everything else goes on.  In Tags and Search ids are taken again once nobody knows
them, which nobody can tell from a new one, so those runs never end.  Two tags are
what two orders need; two serials tell a tag from the one of that name that was
deleted.  In Search the limit and a page end each cut something off, and the three docs
are found by both statements, by the words only (too far for the threshold of retrieve,
not for that of recall), and by the embedding only.

What these bounds do not reach, the theorems do.  The window of a search is twice its
limit, so with two memories it cuts nothing off; `BetterTheorem` and `KeptTheorem` hold
for every window.  In `memories` the two contents are near-duplicates of each other,
so a store that passes its check has seen an empty workspace, and every race puts it
beside something near; `NearTheorem` is for every similarity.  The one password of
`accounts` makes only the first password of an account of the single sign-on a visible
change; `PasswordTheorem` is for any number.

Fairness.  Only `Tags` states a liveness property, and needs two assumptions.
`SF_vars(Step(r))`: a request whose next statement can run again and again runs in
the end.  Strong fairness is what PostgreSQL's lock queues give: a request that
waits for a row may see it locked again by others in between, but it is served in
its turn; a request that waits for nothing is run by the event loop.
`WF_vars(\E r \in Requests : DeadlockVictim(r))`: a cycle of waiting requests is found
by a timer (`deadlock_timeout`) and one of them is ended.  Nobody has to call, and
`Rollback` is never forced.  The other specifications have safety properties only and
no fairness.

## 5. Findings

Each violation run checks one statement of the repository and finds a run of the
code against it; `PROJECT.json` quotes both.

* Invite links are single-use by the page that makes them; two users who open one
  at the same time both join (`dao/workspace.py:368` updates without looking at
  `used_by` again).
* The embedding follows the content; an update of the tags that overlaps an update
  of the content leaves the old content's embedding for good.
* Refresh tokens are documented to be rotated; the old one still works, because
  `load_refresh_token` does not read `revoked_tokens`.
* The clean-up deletes orphan tags.  One that another request attaches while the
  statement waits for the row is no orphan any more when it is deleted, and the
  cascade takes the new pair with it (`dao/memory.py:51`): a memory, possibly of
  another user, loses a tag it was given.  A clean-up that locks the tags it means to
  delete and asks again would not.

Three more statements of the repository that the code does not keep, without a run of
their own, since each is seen from the source at once:

* "Revocation: `_revoke_pair` removes both sides of the access ↔ refresh pair"
  (`DESIGN.md:414`).  `revoke_token` calls it with the presented token only
  (`oauth.py:590`, `592`), and `_revoke_pair` (`oauth.py:620`) cannot find the other
  one, which stays valid.  A refresh token that is presented is put into the table that
  `load_refresh_token` does not read, so it goes on working as after a rotation.
* "Per-user cap: 5 keys maximum"
  (`docs/superpowers/specs/2026-05-26-api-key-auth-design.md:38`).  Requests that count
  at the same time exceed it (`dao/api_key.py:32`), by as many as run beside each other
  and no more: `CapExceededByRacesOnly`.
* "Create a new token, delete any existing one for same user+purpose"
  (`dao/email_token.py:26`).  Two requests at the same time leave two links that work,
  and no number of them leaves more than there are requests: `LiveLinksBounded`.

Known behaviour that the properties leave room for: two
concurrent stores of near-identical contents are both stored; an update lands in the
workspace to which its memory was moved after the check (`dao/memory.py:197`); a reset
link that two requests open at the same time sets both passwords
(`dao/email_token.py:62`); a token acts for the user who logged in last with
its client id (`auth.py:49`, as DESIGN.md describes); an AND search for two
spellings of one tag finds nothing (`tools/search_by_tag.py:44`, where the docstring
says that tags are case-insensitive); pages skip memories of equal time or after a
deletion; `scripts/reembed.py` embeds contents without their tags.

## 6. Proofs

`tlapm X.tla` for X = `WorkspacesProofs`, `MemoriesProofs`, `TagsProofs`,
`SearchProofs`, `OAuthProofs`, `AccountsProofs`, `ApiKeysProofs` and
`SequenceLemmas`.  Every invariant, every action property and the refinement that a
passing run checks is a theorem here, for every choice of the constants (the two
that `memory_serial` checks with one request slot, for one request slot).

What is assumed of the constants is what the modules name:

| Assumption | Says |
|---|---|
| `PersonalNameAssumption` (Workspaces) | personal names are distinct |
| `NullAssumption`, `NoUserAssumption`, `NoTagAssumption`, `UnsetAssumption`, `UnsetEmbedding`, part of `QueryAssumption` | what stands for NULL or "not given" is not a value |
| `FreshAssumption` (OAuthProvider) | codes and tokens are different random ids |
| `NormalAssumption` (Memories, Accounts; weaker in Search) | normalising an address or a tag twice is normalising it once; in Search only that it gives a tag or nothing |
| `InputAssumption`, `RoleAssumption`, `SettingAssumption`, `NearAssumption` (Memories, Accounts) | the inputs have the shape the entry points let through; a text is near itself |
| `OrdersAssumption` (Tags) | the tags of a request come in an order of a finite set |
| `QueryAssumption`, `SizesAssumption` (Search) | ranks, distances and times are natural numbers; limit, window, k and page size are positive |
| `MaxKeysAssumption` (ApiKeys) | the cap is a natural number |
| `RequestsAssumption` (ApiKeys, Accounts) | finitely many requests run at a time, as the connection pool has a size |

All proofs go the same way: an inductive invariant `IInv` that TLC has checked on the
instance of the run first, `Init => IInv`, `IInv /\ [Next]_vars => IInv'` with a
lemma for each part, and the properties from it.

**WorkspacesProofs.**  The invariants of the run together are inductive: `IInv` is
`TypeOK`, `OwnerIsCreator`, `PersonalIsPrivate`, `EveryUserHasPersonal`,
`NoDanglingRows` and `RequestInv`.  The last one is what carries the argument: a
request that is about to write has read a role some time ago, and the proof needs
that what it read still decides what it may do.  It does because ids are not
reused and the owner of a live workspace never changes.  `OwnerDecidesTheorem`
follows from it, and `AccessTheorem` shows the refinement: `Register` and
`CreateWorkspace` found, `JoinWrite` joins, `LeaveWrite` leaves, `DeleteWrite`
dissolves, everything else stutters.

**OAuthProofs.**  `OneCodePerRequest` is not inductive.  What makes it so is
`TakenOnce`: a login that has taken the authorization out of `_pending` is the only
one that has, and no code was made from it yet; a code that exists was made from
an authorization that was taken (`CodeFromTaken`).  `HolderIsLinked` needs that the
link is committed before the code is made (`LinkedBeforeCode`) and that nothing
undoes a link (`ClientKept`).  `CodeSpentOnce` needs that a pair made from a code
leaves it used (`ViaIsUsed`), `RevocationSticks` that an answered revocation is in
the table unless the token had expired (`AnsweredIsDead`).

**ApiKeysProofs.**  `CapExceededByRacesOnly` says nothing of requests that have
counted and not inserted, so it is not inductive.  `Bounded` is: the keys of a user
and the creations in flight for that user are together fewer than the cap and the
request slots, or there are none of either.  Counting adds one creation while the
keys are below the cap, inserting turns one creation into a key, everything else
takes away.  `RevokedKeyTheorem` needs only the types.

**MemoriesProofs.**  `UniquePerWorkspace` is not inductive because an import inserts
rows long before it commits them.  `ClaimsHold` says what the unique constraints
make of these rows: they are in a live workspace, and clash neither with each
other, nor with a memory there, nor with what another import has inserted.
`ItemsLeft` says that an import has items until its commit, and `EmbedsChanges` that
an update that is about to write has embedded a text just if it changes the text
or its tags.  `OnlyProvidedFieldsChange` and `DeletedWhereChecked` follow from the
types: they are about what a write does with a row that has changed since the
request read it.  `NearDuplicatesOnlyByRaces` needs `SeenFar`: nothing that the check of
a store has seen is near what the store is about to write.  Others may change the
workspace as they like, since this is about what was seen, and so `NearTheorem` holds
for any number of concurrent requests.

`EmbeddingFresh` and `ImportIsWhole` hold with one request at a time, so their theorems
assume `OneAtATime` (at most one request slot) and the first also that the script does
not run; workspaces and memberships still change between all steps.  The server runs
requests side by side: `stale_embedding` is what the first becomes without the
assumption.  `SInv` says what a request knows that nobody else can change: the row an
update has read is current, and the items an import has been through are inserted or
stored.

**TagsProofs.**  `NoDanglingPairs` depends on row locks.  `TagsApart` and `LocksSound`
say what these are for: nobody deletes a tag that another request has attached and
not committed, and of two requests that are past the lock of one memory both found no
row.  `NewPairsSound` says that the pairs of a request are of its memory and of
tags that it sees and does not clean up, `CascadeSound` that the pairs of the tags it
deletes go with them.  For `CommitStoresAskedTags`, `AskedSound` says that the tags
attached and those still to come are the ones that were asked for, and `CutSound` that
the pairs a request removes are all that its memory had.  `FiniteTags` is there for the
serial numbers: a fresh one is found because there are finitely many.

**SearchProofs.**  `BetterComesFirst` is a statement about the fusion: `FusionShape`
derives it from `ScoreAbove`, which says that a memory that beats another has the
higher score, 1/(K + i) + 1/(K + j) as fractions, by the cases of which
statement found which.  `ReadSound` carries what a statement read to the step that uses
it: the rows are of workspaces of the caller, and as long as a memory lives its time is
in the period, since ids are not reused and a memory keeps its time.  `NothingSkipped`
says nothing of a listing that has not ended.  `PagesSound` does: a memory that stayed
and was not shown yet has at least as many newer ones in the list as there were places
on the pages so far (`Offset(page)`).  A page keeps it because of `PageShape` (who has
`offset` newer ones is on the page, or the page is full and he has as many more),
a write because the newer ones can only become more while nobody leaves the list.
A page that is not full then has shown the rest.  `TagSearchMeans` compares two numbers
of tags; that this compares the sets is `TagsFound`.

**AccountsProofs.**  `OneAccountPerAddress` needs that the uncommitted INSERTs of
registrations have different ids and addresses, none of them an account's
(`InsertsApart`, `RegisterSound`), and that all addresses are normalised
(`NormalEmails`).  `VerifiedByLink` and `PasswordChangedByLink` need that a token that
works was mailed to the address of its user for its purpose (`LinkSound`), also
while a request that has read it is about to act on it (`OpenSound`), and for
that what a request that is still mailing knows (`MailSound`, `TokensApart`).
`LiveLinksBounded` counts; its invariant is an injection of the live links of a user
into the request slots, such that a request in a slot is going to delete the link laid
to it (`LinksInSlots`).

**SequenceLemmas** has what the other modules need of sequences and finite sets: the
head and the tail of a list, the elements of an ordering of a set, images of finite
sets.

**Only model-checked:** `EveryRequestEnds`, since liveness under fairness and ENABLED are
out of the prover's reach, and the four violations.

## 7. Plan

Done, each with its MC module, mutants and hazards: `Workspaces`, `WorkspaceAccess`,
`Memories` with import and re-embedding, `OAuthProvider`, `ApiKeys`, `Accounts`, `Tags`,
`Search`, and the proof module of each.  Left:

1. A composition of Workspaces and Memories in which the roles are those of the
   workspace requests, with the theorem that it implements both parts.  Memories
   now takes any change of the roles (`JoinOrLeave`), which includes those of Workspaces.
2. The hazards without a property: tokens of a pair that is revoked one by one,
   dictionaries of the OAuth server that only grow, an update that lands in another
   workspace, and a token that changes its user; `PROJECT.json` says why for each.

Bounds as above: 2 or 3 of everything that is contended.

## 8. Not modelled

Export (reads and formats only), the reading of dates out of a question
(`dateparser`), scopes, redirect URIs and PKCE (checked by the `mcp` package or constant), HTML
forms and templates, ranking by `ts_rank`, the approximate vector index (a
near-duplicate that the index does not return would be missed; `Memories` takes
the query as exact), bcrypt and JWT signatures (taken as sound), migrations (run
while the server is stopped), settings.
