# PocketRisu patches: formal models

This directory holds TLA+ models of the concurrent parts of this repository, the
TLC configurations that check them on small instances, and TLAPS proofs of their
main properties for every size.

The repository is an installer (`src/src/*.cjs`) and a set of patches
(`src/patches/*`) that it writes into the sources of PocketRisu. Most patches
change the browser's user interface. Three of them turn the Node server into a
concurrent system with durable state:

- `lazy-chat-sync` keeps each chat separately on the server, accepts full and
  delta saves against a base revision, journals them, and fences storage resets;
- `bg-preserve` runs a model request on the server, so that it survives the
  browser, and hands the result to whichever page asks for it;
- `lazy-chat-bg-adapter` moves the whole turn to the server: the input of the
  user is admitted, transformed, attached to the chat, answered, and the answer
  is committed into the chat, with or without a browser.

These, the browser's side of saving a chat, and the installer with its journaled
transactions are what is modelled.

Short names used below for the long paths, under `src/patches/` unless they say
otherwise:

| name | file |
|---|---|
| server | `lazy-chat-sync/files-1.10/server/node/server.cjs` |
| journal | `lazy-chat-sync/files/server/node/chatWriteJournal.cjs` |
| commit | `lazy-chat-sync/files-1.10/server/node/serverChatCommit.cjs` |
| commit owner | `lazy-chat-bg-adapter/files-1.10/server/node/serverChatCommitOwner.cjs` |
| input owner | `lazy-chat-bg-adapter/files-1.10/server/node/serverChatInputOwner.cjs` |
| anchor | `lazy-chat-bg-adapter/files-1.10/server/node/chatAnchorCommit.cjs` |
| attach | `lazy-chat-bg-adapter/files-1.10/server/node/chatInputAttach.cjs` |
| drain | `lazy-chat-bg-adapter/files-1.10/server/node/serverChatInputDrain.cjs` |
| manifest | `lazy-chat-bg-adapter/manifest.cjs` (edits of the orchestrator) |
| orchestrator | `bg-preserve.json` (orchestrator, run registry, operation store, browser side) |
| retention | `bg-preserve/files/server/node/bgOrchestrationResultRetention.cjs` |
| boot | `bg-preserve/files/src/ts/process/bgBootMerge.ts` |
| page | `lazy-chat-sync/files-1.10/src/ts/globalApi.svelte.ts`, `storage/nodeStorage.ts`, `storage/chatStorage.ts` |
| rebase | `lazy-chat-sync/files/src/ts/storage/chatSaveRebase.ts` |
| installer | `src/src/manager.cjs`, `staging.cjs`, `resolver.cjs`, `compose.cjs`, `cli.cjs` |

## Inventory

**Chat store and write journal** (server, journal). State: the chats in memory
(`fullChatStore`), the database object with the applied ledger (`dbCache`), the
image `database.bin`, and one journal record per chat. Operations: full save,
delta save, debounced persist, reload at startup. Everything runs inside
`queueStorageOperation`, one operation at a time, but an operation may wait in
the middle, and the two durable writes of a persist are separate. Correct when
an acknowledged save is never lost and a save from an old base never
overwrites.

**Server chat commit** (commit, commit owner, anchor). State: commit records and
op journal records in SQLite, the applied ledger in the database object.
Operations: read the assembly context, commit an answer (resolve, prepare the
stage, transaction, publish), recover a commit. Correct when an answer is
committed at most once, never after an acknowledged cancel, at the place behind
its input, without dropping what the user wrote meanwhile.

**Server chat input** (input owner, attach). State: one durable record per
operation (input state, transform state, predecessor, retry links, receipts), a
few settings snapshots in memory. Operations: admit, advance the predecessor,
begin and end the transform, attach, settle (failure, cancel, commit), retry of
a blocked input, startup recovery. Correct when a command enters the chat once,
inputs are answered in order, and every input is decided once.

**Run registry, operation store, routes** (orchestrator, manifest). State: one
lifecycle row per operation (`queued`, `running`, `result-ready`, `cancelled`,
`chat-committed`), the runs in memory with their abort controllers. Operations:
start, provider start, finish, discard, cancel, claim and acknowledge a result.
Correct when the row is enough to tell paid work from work that never began.

**Server input drain** (drain). State: waiting envelopes, a timer, a flag that a
pass is running, a generation, attempts. Operations: enqueue, pass, reset. A pass
awaits the owner of the inputs twice for each envelope, and envelopes are added,
predecessors publish and the storage is reset meanwhile. Correct when a waiting
input is started after its predecessor, once, and never for a reset storage.

**Storage reset and epoch** (server). State: the durable epoch, the reset in
progress, the reset generation, a flag that the storage needs recovery.
Operations: restore of a snapshot, removal of the database, an import without
data, each in a slot of the storage queue that first makes the pending save, then
replaces data, recovery rows and epoch in one transaction. Requests that were
admitted, a chat store that is being loaded, debounced saves and runs that
generate are all in flight. Correct when nothing of the old data comes back and
nothing acknowledged is lost that the reset did not replace.

**Result delivery and retention** (orchestrator, retention, boot). State: the
registry entry and the durable row of the operation, the parked result with its
claim; in the browser a pending marker, and in each page a watch, a merge target
and a memory of the chat. Operations: start, publish (intermediate and terminal),
poll and claim, heartbeat, merge, save in two halves, acknowledge, cancel, boot
recovery, retention sweep. Correct when the reply ends up in the chat once,
without overwriting an edit, whatever page is killed; and when the provider is
not paid a second time.

**Retirement of terminal records**: removal of old records with receipts that
keep a command from being admitted again.

**Client writers and save queue** (page, rebase). State: the chat that the page
shows, the tracker of what has to be saved, for each chat the snapshot and revision
last known to be saved, the save in progress. Operations: edit, take what is tracked,
send the difference or the whole chat, confirm after a lost or refused request by
reading the chat, merge three ways, publish the merge in the view, retry, requeue,
evict snapshots; writer sessions decide which page writes at all. A save awaits
several times, and the user and other devices go on. Correct when no edit of the page
is lost or undone, nothing that others saved is touched, and the edits arrive.

**Plugin host**: a worker with a sandbox, sessions and storage that runs the
plugins of a transform on the server.

**Backup snapshot and restore safety**, **client build fence**, **usage cost and
request log**, **PageFold model preset**, **execution projection and notices**:
see the notes in `PROJECT.json`.

**Patch installer** (installer). State: the managed files of the target root, the
installed state and the selection (`intent`), the transaction journal with the old
contents, the root lock, the receipt of a staged candidate. Operations: resolve a
selection, compose and revert units, take and release the lock, roll back an
interrupted transaction, plan, write, stage and check. Several patchers may run
at once, each may die between two file operations, and writes fail. Correct when
the tree goes from one complete installation to another and an installation can
always be taken back. **Update channel and reports** read feeds and print.

**User interface patches**: organizers, rendering, parser and archive patches.

How they interact: a start request admits an input in one storage operation; the
run waits for its turn, transforms and attaches it in further storage
operations, calls the provider outside the queue, and commits in another. Saves
of the user come between any two of these. A cancel is a DELETE that uses no
storage operation at all. Every save, and every request for a result, first
recovers the pending commits of the chat. At startup the chats are reloaded and
`recoverAll` runs before the server listens. A storage reset refuses writers from
its first moment on, waits for its slot in the same storage queue, cancels the
runs and clears the drain. An input that has to wait leaves an envelope with the
drain, which starts it through the start route. A run without a server input parks
its result instead of committing it, and the pages of the browser fetch it. The
installer shares nothing with the running server.

What is hard: two durable writes with a crash between them; a wait inside a
storage operation while cancels arrive; a transaction whose publication fails;
inputs that wait for inputs that were retried, cancelled or blocked; a restart
that forgets memory and keeps rows; passes, loads and requests that a reset
overtakes; a page that dies between two halves of a save while another page has
the claim; edits made while an earlier one is being saved, refused and merged. `PROJECT.json` lists each such hazard with
its line and the properties that would notice it going wrong.

## Modules

| module | what it models |
|---|---|
| `ChatStore` | one chat: memory, image, ordinary journal record, storage queue, saves, persist, restart |
| `ServerChatCommit` | extends it with run, lifecycle row, assembly, provider, commit, publication, recovery |
| `ServerChatInput` | composes both with the input records: the complete protocol of one chat |
| `ChatSaveRebase` | the three-way merge of chats and message lists, as operators |
| `ClientSaves` | extends it and the chat store with one page that saves, and others that save too |
| `StorageReset` | resets with queue, timers, chat store loads, requests and runs in flight, the transaction and its failures |
| `ServerInputDrain` | envelopes, timer, passes with two awaits, generation fence; the input owner as the answers of `loadExecution` |
| `ResultDelivery` | one result between the server and the pages of one browser |
| `ServerStorage` | composes the last three: a reset clears the drain in its slot, and a restart stops everything |
| `PatchCompose` | the resolver of a selection, and applying, ordering and reverting units, as operators |
| `PatchInstall` | patchers on one root: lock, rollback, plan, transaction, staging, deaths, failures |
| `AtomicInstall` | what the installer promises: the tree changes by single installations and edits |
| `ChatStoreProofs`, `ServerChatInputProofs`, `ServerChatOrderProofs` | theorems about the chat protocol |
| `ServerStorageProofs`, `ResultDeliveryProofs` | theorems about the composed server storage |
| `PatchComposeProofs` | lemmas about sequences and folds, and theorems about resolving and composing units |
| `PatchInstallProofs` | theorems about the installer, the refinement included |
| `ClientSavesProofs` | theorems about merges and about a page that saves |
| `MCClientSaves`, `MCServerChatInput`, `MCServer`, `MCPatchInstall` | instances for TLC |

`ServerChatCommit` defines actions on its own variables; `ServerChatInput`
conjoins to each of them what happens to the input record in the same storage
operation or transaction, because in the code the commit owner calls into the
input owner inside one transaction.

### The chat protocol

State and code:

| variable | code |
|---|---|
| `live`, `applied` | the chat in `fullChatStore`; the operations in the applied ledger of `dbCache` |
| `image` | `database.bin`: chat and ledger |
| `staged` | ordinary record of the chat in the write journal |
| `slot` | the operation that `queueStorageOperation` runs while it waits (prepare of a stage, between the two writes of a persist) |
| `opState` | lifecycle row |
| `commit` | commit record with its op journal record: base and stored chat |
| `run`, `anchor` | registry entry and how far the run has come; the chat the prompt was assembled from |
| `rec` | input record |
| `snap`, `tbase` | settings snapshot; chat captured when the transform began |
| `todo` | records that `recoverAll` has still to look at; the server listens when it is empty |
| `acked`, `cancelled`, `early`, `starts` | history that only properties read |

Actions and code: `Admit` is `admit`; `CascadeBlock`, `RevisionBlock` and
`Resolve` are the outcomes of `advancePredecessor`; `Launch` and `LaunchRefused`
are the start route and the drain; `CheckPredecessor`, `Begin...` are the two
storage operations of `beginTransform`; `AttachPrepare` and `AttachTx` are the
two halves of `attachTransformed`; `PrepareCommit`, `CommitAnswer` and
`AnswerCancelled` those of `commitQueued`; `Finalize` is `finalizeInputCommit`;
`Cancel` is the DELETE route; `RecoverCommit` is the recovery in front of a save
or a result; `Crash` is the death of the process at any point, followed by
`Recover...`, the iterations of `recoverAll`.

Abstractions, and why they are sound for the properties:

- One chat. Inputs of different chats share only the number of settings
  snapshots and of active runs; the refusal of a launch by other chats' runs is
  kept as a choice (`LaunchRefused`).
- A chat is a sequence of message identities and the number of the last text
  edit in it. The revision is a hash of the content, so equal revisions are
  equal chats here.
- A save may edit a text, add a message anywhere or delete any message. A save
  from an old base is refused by the code and changes nothing.
- The transform yields the same input; its effects on globals and statistics
  are left out.
- The base comparison inside an attach or commit transaction cannot fail,
  because the storage queue is held from the resolution to the transaction; the
  model has no step for its failure.
- A run waits in `runDetachedTurn`; any waiting run may be next, which allows
  more orders than the code's chain of promises.
- `RecoverCommit` is one step; in the code publication and the record of it are
  two storage operations, and the state between them is the one that a
  published commit has before `Finalize`.
- `Cancel` writes the row and settles the record without an await in between, so it
  is one step; the crash between the two writes is an alternative of `Crash`.
- Startup recovery succeeds. Its failure leaves a record for the recovery in
  front of the next save.

### Saves of the browser

| variable | code |
|---|---|
| `live`, `image`, `staged`, `slot` | the chat on the server, as in `ChatStore` |
| `view` | the chat object that the page shows and edits |
| `tracked` | the chat is in `changeTracker.chat` |
| `sync` | `chatSyncStates`: the chat last known to be saved, whether its snapshot is still held, whether its revision is known |
| `save` | the save in progress: what it waits for, the submitted chat, the base and revision of the merge, the attempts |
| `stray` | a request whose fetch failed and which the server may still receive |
| `mine`, `faults` | history that only properties read, and the bound on losses |

`Take` is `takeTrackedChanges` with the beginning of `saveChatContentRebased`;
`Reprint` the recovery of an evicted base by its fingerprint; `Saved`, `SavedBare`,
`AnswerLost`, `RequestLost` and `Refused` are what can come of a request, and `Late` a
lost request that arrives after all; `Confirmed`, `Rebase` and `Conflict` are the
outcomes of the read that follows, in `confirmCurrentSnapshotOnServer` and the catch
of the attempt loop: the merge of the submitted chat with the server's, of the view with
that, the publication in the view, and the next of at most three attempts. `Requeue` is
the failure of a save; `Falter` and `Unconfirmed` a read that fails.

Abstractions: a chat has a list of messages with ids, which the merge treats by id, and one
number for all texts, which it treats as a field. The server's chat commits are saves of
others here. A delta and a full save differ only in size. A request and the handling
of its answer are one step unless the answer is lost: the page does nothing with the chat
between them, and the server's part of them is one storage operation. A stray request
is assumed to reach the server before the page's next one; a later one is refused there,
because the chat is no longer its base, except in the fifth case below.

### Storage resets and the drain

| variable | code |
|---|---|
| `database`, `journal`, `files`, `rows`, `epoch` | the key-value store: `database.bin`, journal records, other keys, operation rows, the storage epoch |
| `unrepaired` | `database.bin` is as it was copied in: the first decoding of it finds something to repair and writes it |
| `cache`, `loading`, `storeGen` | `fullChatStore` with `dbCache`, a load in flight, `chatStoreGeneration` |
| `queue`, `timer` | the storage queue (its head runs), the debounced save that is armed |
| `reset`, `resetGen`, `recovery` | the reset in progress, `storageResetGeneration`, `storageRecoveryRequired` |
| `request`, `run` | requests that were admitted and runs that generate, with the generation and the epoch they saw |
| `waiting`, `attempts`, `drainTimer`, `active`, `generation`, `passes` | the maps, timer, flag and fence of the drain, and its passes in flight |
| `execution` | what `loadExecution` answers for an input |
| `acked`, `installed`, `barrier`, `lapsed`, `overrun` | history that only properties read |

Data is the number of the reset that installed it and the writes in it. `Admit`,
`Enqueue` and `SaveChat`/`WriteKey` are the three places at which a writer is
checked: when it arrives, when its body has been read, and in its slot. `Persist`
is the callback of the save timer; only the callback of the armed timer saves, and
a save that fails is not retried. `RecordSaves`, `ClearSaves` and `Apply` are the
stages of a reset inside its slot, between which it awaits: timers, loads and
requests go on. `Fail` is an error in any of them, with the re-arming of the
recorded save. `BeginLoad` is a load of the chat store outside the queue: the route
`/api/db/stats/characters` calls `ensureChatStore` there (server 6349); every other load
is inside a slot. `EndLoad` publishes it only if no reset came between, but writes the
repair of the database that it has read in any case (server 456). `ReadDatabase` is
the read route, which decodes and publishes in its slot without joining a load in
flight. `BeginPass`, `Load`, `StartInput`, `StartReturns`, `LoadFails` are
the pieces of a pass of the drain between its awaits.

The in-slot check of a writer is redundant with the check at the end of its body:
the queue is first in, first out, and a reset that starts later is behind it. The
gate of a commit refuses an old run both by its missing row and by its epoch; each
suffices. Both defences are in the model as they are in the code.

### The delivery of a result

| variable | code |
|---|---|
| `entry`, `aborted` | the run in the registry and `run.cancelled` |
| `row` | `bg-orch-state-op`, the durable state of the operation |
| `parked` | `bg-orch-result-op`: the result, the page that claimed it, whether the lease still runs |
| `store` | the stored chat: edits, the merged reply, the conflict copy, the delivery record in the root |
| `marker` | the pending marker in local storage |
| `page` | every load of a page: watch, freshness of its data, memory, merge target |
| `starts`, `answer`, `fallback`, `edited`, `outrun` | history that only properties read |

A result is `mid` (the reply before post-processing), `end` (terminal with a
reply) or `fail` (terminal without one). `Start` is the start route with its
duplicate requests; `Poll` the GET route with the claim and the browser's reaction
(`stopWatch`, `triggerClientFallback`, the merge); `SaveBody` and `SaveRoot` the two
halves of the durable save; `Ack` the acknowledgement route with the exact result
and the reaction to a lost answer; `Boot` is `beginBootRecoveryAfterHydration`;
`Expire` the retention sweep.

The write lock of the writer session and the revisions of the storage are reduced
to their effect: a page saves only over data that it has loaded (`fresh`), and what
one page writes makes the others stale.

### The installer

`disk`, `journal`, `receipt` and `lock` are the files of the root; `pc` and `job`
where each patcher is and what it runs; `host` is the history of the texts that
the unpatched host would have; `git` whether the root is a git working tree, and `found`
the history of the texts that the last staging run accepted. `Fresh` and `Drifted` are the
looks before and after staging: without git they see the metadata of the installer and the
managed files only, and of a long git status the first lines (`StatusLines`, 100 in the
code). A text is a sequence of tokens and a unit has a
block with marker tokens, so that units can nest in, conflict with and depend on
one another as in the real catalogs. `Planned` is `planTransition` with resolution,
reverting and composition; `Begin`, `WriteFile`, `Keep` the transaction;
`RestoreFile`, `RestoreDone` the rollback; `InspectLock`, `BreakLock` the takeover of
the lock of a dead process, in which `unlink` removes whatever has the name.

## What is checked

| run | instance | question |
|---|---|---|
| `saves` | 1 page, 2 messages, 3 edits or saves of others, 2 faults, any number of restarts | is an edit of the page ever lost, undone or made to others' work, and does it arrive? |
| `core` | 2 operations, 2 commands, 1 save (text or deletion), 1 restart | the protocol under cancels, failures, failed publications and a crash anywhere |
| `edits` | 2 operations, 2 commands, 2 saves, no restart | user edits while the server prepares, generates, commits and recovers |
| `server` | 2 resets, a save, a key, a run; 2 waiting inputs and 1 reset; a result and 2 pages; 1 fault | does anything old survive a reset, anything acknowledged get lost, any input wait for ever, any reply go missing or come twice? |
| `install` | 2 patchers, 4 catalogs, 3 files, with and without git, 1 death, 1 failed write, 1 edit | is the tree always a whole installation that can be taken back? |
| `own_cascade`, `acked_text`, `deleted_input`, `early_cancel`, `restart_answers` | 1 operation (3 for the first) | statements of comments and tests that the code does not keep |
| `lock_race` | 2 patchers, 1 death | is the root lock exclusive when two patchers find a dead one's lock? |
| `reply_regenerated` | as `server` | is a reply that was published ever generated again? |

Properties of the passing runs of the chat protocol:

- `DurableBeforeShown`: neither memory, image nor journal shows an input before
  its receipt or an answer before its commit record.
- `CommandOnce`, `OneTryPerCommand`, `PaidOnce`: over all retries and restarts,
  a command enters the chat once, has one current try, and is paid for once.
- `CancelWins`: after an acknowledged cancel of an admitted input no answer is
  committed, although the run goes on until it notices.
- `UnpublishedFrozen`: while a commit waits for publication nobody changes the
  chat, so recovery may put the stored chat in place.
- `ConversationOrder`, `TurnsInOrder`: inputs and answers stand in the order of
  admission, and an input joins only after everything before it is over and
  published.
- `TransformNotRepeated`: while a transform of a command runs, or its outcome is unknown
  after a failure, a cancel or a restart, no operation of the command begins one.
- `SnapshotReleased`: no settings snapshot outlives its input; leaked ones would
  refuse all later inputs.
- `OutcomeFinal`: no late failure, cancel or recovery changes an outcome.
- `ConcurrentEditsServed`, `AnswersServed`: without a restart, neither the user's
  edits nor published answers are overwritten.

Properties of `saves`:

- `QuietMeansSaved`: when nothing is tracked and no save is in progress, every edit of
  the user has been saved.
- `ViewKeepsEdits`: no merge, retry or lost answer undoes an edit in the page: added
  messages stay until someone deletes them, deleted ones stay deleted, and a typed text
  is replaced only after it was saved.
- `OnlyOwnEdits`: a save of the page adds, removes and changes only what its user added,
  removed and typed, and leaves the order of the rest. Messages of a request without an
  answer are exempt (`mine.unsure`), see the limits below. A restart that loaded anything
  else than what was served would break it as well.
- `EditsArrive` (liveness): if edits do not overlap for ever, the page always comes to
  rest with everything saved.

What these properties leave open, because the code does: (1) the answer to a save is
lost, another device deletes a message that the save had added, and the page merges from
its old base: it adds the message again. (2) The answer is lost, the read that should
confirm it fails, and the user deletes or edits the same thing: the deletion may be undone by the
merge, or the two texts conflict until the user settles them. (3) An evicted snapshot with a
chat that changed on the server leaves nothing to merge from; the save is refused until the
chat is loaded again. (4) The answers that the server commits are adopted by a path of
their own (`adoptServerCommittedChat`), which is not modelled. (5) A revision is a hash of
the content, so a stray request that arrives after the chat has come back to its base is
accepted.

Properties of `server`:

- `NothingOldReturns`: after a reset that replaced the data, neither database,
  journal, memory nor keys hold anything from before, whichever request, save, run or
  load it overtook.
- `AckedIsKept`: what was acknowledged and not replaced is served, and a restart
  at this moment would serve it, also after a reset that failed.
- `AckedReachesDatabase` (liveness): every acknowledged change reaches the database
  in the end, also when the reset that had disarmed its save fails.

  These three hold until a load outside the queue ends over a store newer than the one
  it read, and either has a repair to write or no reset came between (`overrun`). Such a
  load does break the first two, see below. An overtaken load that has
  nothing to repair is not an exception: the generation keeps it out.

- `OneLivePass`: the drain's flag says exactly whether a pass of this generation runs.
- `EnvelopesKept`: an envelope goes only with its own input, its own failures, or a
  reset, never because of a fenced pass.
- `ReadyIsDrained` (liveness): an envelope whose input is ready is started or given
  up, resets included.
- `RepliesKept`: a reply that is the last result is parked until it is saved; a late or
  repeated acknowledgement of another result never removes it. A reply that a terminal
  result without one has replaced is not meant.
- `EditsKept`: no result replaces an edit made while it was generated.
- `DeliveredOnce`: no reply is stored twice, also when a save stops between its
  halves and another page repeats it, and no copy is made without an edit.
- `OneConsumer`: two pages save at the same time only after a claim ran out.
- `FallbackIsDue`: the server starts the provider once, and the page generates the reply
  itself only when the run never started or the terminal result has no reply: never
  while it is unknown whether a lost run had begun. Whether the reply had been
  published before that is finding 7.
- `ResultLeaves` (liveness): no result stays parked for ever.

Properties of `install`:

- `InstallsAtomically` (refinement): with the open journal counted as rolled back,
  `PatchInstall` implements `AtomicInstall`.
- `RevertRestoresHost`, `HostUnderUnits`: what is taken back, or could be, leaves the
  texts of the user with all edits, after any upgrades, deaths and rollbacks.
- `SelectionClosed`: what is written holds what its packs require and nothing that
  conflicts or was superseded.
- `ReadyOnlyWhole`: a candidate is declared ready only with the whole plan of a catalog on
  the texts that the staging run accepted, in the metadata and in every managed file,
  whatever the checks changed. With git, the accepted texts are upstream's, and a tracked
  file without units still has its own as far as the compared lines of git status
  show it. What it leaves open is below.
- `LockExcludes`: one patcher at a time is between taking and releasing the lock, as
  long as no two patchers meet the lock of one dead process (`BreakersOverlap`).
- `TransactionEnds` (liveness): an interrupted transaction ends once the installer is
  run again, unless a process died between creating and writing its lock file.

Deadlock is checked in every run but those of `MCServer`, whose behaviours stop when their
bounded requests, resets and faults are used up and nothing is in flight.

Bounds. `MaxActive` (2) and `MaxSnapshots` (2) are bounds of the code
(`SERVER_CHAT_INPUT_MAX_NONTERMINAL_PER_CHAT`,
`SERVER_CHAT_SETTINGS_SNAPSHOT_MAX_CONTEXTS`) at their real values. Two operations are
enough for one input that waits for, retries or follows another. Three, which give a
retry with a third input waiting behind the first, are the instance of `own_cascade`;
without saves and restarts (136,000 states) they were explored for `TurnsInOrder`,
`OneTryPerCommand` and `PaidOnce` too, without an error, and the theorems hold for any
number. `MaxSaves` and `MaxRestarts`
bound the user's saves and the crashes; one save and one crash meet every step
of the protocol, because both are enabled everywhere. Two saves are needed for
"add, then delete". Operations and commands are interchangeable, and TLC uses
that symmetry. The passing runs of `MCServerChatInput` also have the action
constraint `PersistBeforeRestart`: `image` and `staged` are read by a restart only,
so after the last one no step writes the image. Nothing is lost by it: an image is a
copy of `live`, which the properties check as well, and `core` has persists at every
point before its restart.

In `saves`, three edits or other saves give an edit before a save, one during it and a
save of another device in between, in all orders; two faults a lost answer with a lost
confirmation, or a request that arrives late after an evicted base. Four edits with one
fault (1.3 million states), which reach the limit of three attempts, were explored too,
without an error.

In `server` a behaviour has one kind of traffic (saves and runs, keys, inputs, or a
result): these share only the reset and the restart, so what one of them does
cannot disturb another. Only the traffic of saves and runs, which alone loads the store,
may start from a database that needs repair. `MaxFaults` is one failure, loss or restart anywhere. Two
resets are needed for a request or load that is overtaken by one reset and meets
the data of the next; one reset meets every step of the drain. `MaxAttempts` is 2
instead of the 3 of the code: one failure that is retried and one that gives up. Two
pages give every interleaving of a page with another consumer; without
liveness, three pages with one loss and one restart (7.8 million states) and two pages
with two losses were explored too, without an error. `Timers` is as large as the assumption on it demands, so that a timer is
never reused while its callback waits.

In `install` the catalogs are one with a pack nested in the block of
another, a newer one that replaces a pack and adds a dependency, one whose
units give two results in two orders and must be refused, and one with packs that
exclude each other, refused as well. Of the three files one is patched, one is created by
a unit, and one has no units. Two lines of git status show every change of the two
tracked files. One death and one failed
write meet every step of a transaction and of a rollback.

Fairness, only in the runs with liveness:

- `install`: a living patcher goes on, planning ends, and the user runs the
  installer again (`Fairness`). None is assumed of deaths, failures or edits.
- `saves` (`FairSaves`): the page's loop takes what is tracked, after a pause or a timer
  when saves fail; a save in progress goes on reading; the storage queue comes to the
  request sooner or later, between persists that may come at any time (strong fairness of
  `GetsAnswer`); a persist ends. None is assumed of edits, of other devices, of losses, or of
  a request that was given up.
- the storage (`ResetFairness`): the storage queue goes on to its next operation,
  timers run out, loads end, and a reset goes on to its next stage. The queue is a
  chain of promises whose links catch errors, and each operation is bounded by I/O.
- the drain (`DrainFairness`): its timer runs out and the owner answers, or fails.
- the delivery (`DeliveryFairness`): runs end by their timeout, claims by their
  lease, results and markers by their age, watches by their deadline. All of
  these are timers of the code. Polls, saves and acknowledgements of pages are not fair:
  a browser may be closed for ever.

### Disagreements between the code and its comments or tests

Each is a run that TLC refutes.

1. `RetryNotInOwnCascade`: a retry of a blocked root is made to wait for a
   follower of the root that is still queued and has not yet noticed the block.
   Both end blocked, each the predecessor of the other, and further retries of
   either wait for the other again. The test "lets a blocked root recover
   without depending on its never-executed cascade" looks at the follower
   before it retries.
2. `AckedTextServed`: recovery after a restart decides by the applied ledger of
   the image. An answer that was published, and edited in a save, before the
   next persist is published again over the journalled save.
3. `DeletedInputStaysDeleted`: an attached input that the user deletes leaves
   exactly the attachment base, which is what tells the code to publish it
   again.
4. `EarlyCancelWins`: admission writes the `queued` row over the cancelled row
   of a DELETE that came first.
5. `RestartKeepsAnswers`: publication does not write the ordinary journal
   record. When the process dies after the image is written and before the
   journal is cleared, the older record is loaded over the newer image, whose
   ledger says the answer is there.

6. `LockExcludes` with overlapping breakers (`lock_race`): two patchers read the
   lock of the same dead process; the second unlinks the lock that the first has
   created since, and both recover, plan and write.

7. `ReplyNotRegenerated` (`reply_regenerated`): the post-processing of a reply that was
   already published and merged is cut off after 600 s (`runServerPreview`, orchestrator).
   The terminal result has an error and no chat, and the page generates the reply again,
   which the header of `bgOrchestrate.ts` excludes.

The models have more steps of this kind, as named exceptions of the passing properties:

- `OldIsGone`, which is `NothingOldReturns` without its exception: a load that a reset
  overtook writes the repaired old database after its await. The generation protects the
  store in memory only. TLC finds eight states: a stats request begins to load an
  unrepaired database, a restore runs from beginning to end, the load ends.
- `AckedIsServed`, which is `AckedIsKept` without it: a load outside the queue publishes
  whenever no reset came between, over a store that the read route has published since and
  that an acknowledged save has changed. If that save was persisted and its journal
  record cleared, the next save writes the older chats back (nine states to the first chat
  that is no longer served).
- A candidate without `.git` is taken for fresh, so an edited source is accepted and
  declared ready, although src/README.md:1237 says that `stage` proves the candidate fresh.
  `ReadyOnlyWhole` says "with git" for that reason.
- Only the first 100 lines of git status are compared before and after the checks
  (staging.cjs:82), and an applied candidate has more changes than that (339 managed paths).
  A check can change a tracked file that sorts behind them. `AllShown` is this
  exception.

Because of 2, 3 and 5, `ConcurrentEditsServed` and `AnswersServed` are checked
without restarts, and `AckedEditsServed` and `RestartLosesNothing` are stated for the
store by itself, where they are proved, restarts included.

## What is proved

`ChatStoreProofs`, from `StoreAssumption` (the bound on saves is a natural
number; the names for a free and a persisting queue, and for "no chat", are
different from operations and chats):

- `StoreTyped`: `StoreSpec => []StoreTypeOK`.
- `StoreDurable`: `StoreSpec => []RestartLosesNothing`. The inductive invariant
  `StoreInv` adds to it that inside a persist the image already is the chat in
  memory, which is why the journal may be cleared then.
- `StoreServes`: `StoreSpec => []AckedEditsServed`. `ServedInv` adds that no
  message occurs twice in the chat and that every message in it was once added,
  so that a deletion by position removes the message for good. The lemmas
  `InsertChat`, `DropChat`, `InsertOnce` and `DropOnce` say what the two sequence
  operators do to the set of messages.

`ServerChatInputProofs`, from the assumptions of all three modules
(`InputAssumption` says that there are finitely many operations, that the bounds
are natural numbers, and that "no record" and "no operation" are none):

- `InputTyped`: the composed system keeps its types.
- `TriesSerial` (`OneTryPerCommand`), `AttachedOnce` (`CommandOnce`),
  `ProviderOnce` (`PaidOnce`), `CancelFinal` (`CancelWins`).

None of these four is inductive. Their common inductive invariant is

    InputInv == InputTypeOK /\ QueueHeld /\ RowsAgree /\ OneTryPerCommand
                /\ RetriedUnused /\ PaidPast /\ CancelSettled

- `QueueHeld`: an operation that holds the storage queue is a run inside its
  attachment or its commit, and in a commit its input is in the chat.
- `RowsAgree`: what the run and the commit record say about the input record,
  although cancels settle it from outside the run: a run was admitted, a commit
  exists exactly for a completed input, and a receipt exists from the
  attachment on.
- `RetriedUnused`: a record that was superseded by a retry is blocked and never
  attached. With `OneTryPerCommand` it gives `CommandOnce`.
- `PaidPast`: once the provider was started, the receipt exists, the lifecycle
  row is never `queued` again and the run is past every phase from which the
  provider can be started, so no second start follows. With `CommandOnce` it
  gives `PaidOnce`.
- `CancelSettled`: a cancelled input is terminal and without a commit, so the
  commit transaction, which requires an attached input, can no longer happen.

The proof has one preservation lemma per group of actions that change the same
things (blocking, settling, publishing, attaching, committing and so on), and
`InputInvNext` splits the next-state relation over them. `TLC` has checked the same
invariant on the instance of `core`, and on that with three operations, before the proof.

From `InputInv` the same module also proves:

- `OutcomeOnce` (`OutcomeFinal`): every step is put in a class by what it does to
  the records, and no class changes the state of a terminal record.
- `TransformsOnce` (`TransformNotRepeated`): the same classes move the transform of queued
  inputs only, and `RetriedKnown` adds that what a retry has superseded never has a transform
  whose outcome is unknown; `OneTryPerCommand` leaves no other operation.
- `SnapshotsFreed` (`SnapshotReleased`), which is inductive together with
  `InputInv`.
- `ShownIsDurable` (`DurableBeforeShown`). The invariant is not inductive:
  publication and recovery copy chats out of receipts and commit records, and a
  restart out of image and journal. `DurableEverywhere` demands the same of all
  of these; `ReceiptsStay` says that receipts and commit records are never
  taken back.

`ServerChatOrderProofs` adds the order of inputs and what is not overwritten, from
`InputInv` and

    OrderInv == Numbered /\ PastNoted /\ CommitsNoted /\ RecoveryFirst /\ InTurn

  `Numbered` says that no two admissions have a number in common; `PastNoted` and
  `CommitsNoted` what a receipt and a commit record were made from; `RecoveryFirst` that
  no run lives while recovery has commits before it, and that afterwards a commit the chat
  lacks was made from exactly this chat; `InTurn` that an input which is next, or past that,
  has nothing open before it. `InTurn` has to hold from the moment the predecessor is
  checked, through the transforms to the attachment, although cancels and retries change
  the records before it all the time.

- `CommitWaitsAlone` (`UnpublishedFrozen`), `InputsInTurn` (`TurnsInOrder`).
- `ReadsInOrder` (`ConversationOrder`): like `DurableBeforeShown` the property has to hold
  of every chat that may be served once more (`OrderedEverywhere`). It needs
  `InTurn`, because an input is put at the end of the chat and an answer behind its input.
- `EditsStayServed` (`ConcurrentEditsServed`), `AnswersStayServed` (`AnswersServed`): both
  are stated, as in the runs, of behaviours without a restart (`restarts = 0`), because
  findings 2, 3 and 5 refute them with one. `EditsInv` carries both; `ServedMoves` says that
  until a restart the served chat moves only when an input joins, an answer joins or the user
  saves, so publications and recoveries take nothing back.

`ServerStorageProofs` and `ResultDeliveryProofs` are about the composed `Spec` of `ServerStorage`, from the
assumptions of its modules. Each first splits the step of the whole server into
what it does to one component (`ServerMoves`, `DrainMoves`), so that the others cannot disturb it.

- `ResetIsFinal` (`NothingOldReturns`) and `AcknowledgedIsServed` (`AckedIsKept`), from

      ResetInv == ShapeInv /\ OrderInv /\ LoadInv /\ DataInv /\ FilesInv

  Both theorems, like the properties, end with a load that is late (`overrun`). `OrderInv`
  orders the epoch, the generations and the history; `LoadInv` says that a
  load that no reset overtook read the database of now, unless the store is already there; `DataInv` that database,
  journal and memory belong to the last reset, and that the journal, or the database
  when there is none, has every acknowledged change. Nothing in it mentions the order of
  the queue: the theorems hold of any serialization of its operations.
- `OnePassAtATime` (`OneLivePass`) and `EnvelopesAreWoken` (`EnvelopeHasWakeup`), from
  `PassInv`: two passes of this generation are one, and the flag is set exactly when there
  is one.
- `EnvelopesStay` (`EnvelopesKept`), from `DrainInv`: which envelope a pass has in hand, which
  it has still to visit, and what the owner has answered, follow each other; so a pass
  that a reset has overtaken removes nothing.
- `TypesKept` (`ServerTypeOK`). A timer gets an identity that no timer has yet; the
  theorem assumes that identities do not run out (`~IsFiniteSet(Timers)`), as
  object identities do not. The run, with finitely many, checks the same invariant.
- `DeliveryTyped`: types, and that a page saves only a result with a reply.
- `EditsSurvive` (`EditsKept`), from `EditsInv`: an edited chat is in every memory that is
  fresh, so a page without the edit cannot save.
- `ConsumersAlone` (`OneConsumer`), from `RunInv /\ ConsumerInv`: until a claim runs out, a
  page that saves owns it or the result is gone for everyone.
- `FallbackOnlyWhenDue` (`FallbackIsDue`), from these and `FallbackInv`.
- `StoredOnce` (`DeliveredOnce`), from `OnceInv`: no memory of a page has a reply twice, and
  as long as there is no edit, the merge target of every page is exactly what it has in
  memory, so that no merge goes to a copy.
- `ReplyIsKept` (`RepliesKept`), from `KeptInv`: how registry and row follow what was published
  (`RowInv`), and that a page acknowledges a reply only after it is in the stored chat
  (`KeptChats`).

`PatchInstallProofs`, from `InstallAssumption`, for any number of patchers, files,
catalogs, deaths, failures and edits, as long as no two patchers meet the lock of one dead
process (`~BreakersOverlap`; without it `lock_race` refutes the second):

- `InstallTyped`, `LockSerializes` (`LockExcludes`);
- `InstallAtomic`: the refinement `InstallsAtomically`. The invariant adds to types and lock
  how far the one process inside a transaction is (`JournalInv`): what it writes is a complete
  installation over `Tree`, the paths that are no longer to do have their new contents, or,
  in a rollback, those of the journal. Then every file operation leaves `Tree` alone, and
  only the removal of the journal switches it.
- `StagedIsWhole` (`ReadyOnlyWhole`), from `StageInv`: what a staging process has accepted, planned,
  written and recorded while it has the lock. With git or without, and for any length of
  git status.
- `SelectionIsClosed` (`SelectionClosed`): the resolver's answer is the smallest closed set
  without what it supersedes, and `SupersedingCloses` shows that what is left is still
  closed unless the selection is refused.
- `RevertRestores` (`RevertRestoresHost`) and `HostIsUnderUnits` (`HostUnderUnits`) as long as
  the user has not edited a text (`edits = 0`). The invariant is

      OnHost(Tree): Tree's texts are its units applied in their order to the host's texts

  and the step that keeps it rests on `PatchComposeProofs!StripUndoes`: for any list of units
  applied in any order, if taking them off in the opposite order succeeds, the texts below
  come out. A unit is taken off by looking for its block, so this is only true if the search
  finds this block and nothing else; `SignedCatalogs` says what makes it so: each block of a
  catalog has a token that neither the host text nor another unit in that file has. In
  the repository these are the START markers, which carry the id of the unit, and the
  owned files, which the host has not. The instance of the run satisfies it.
  With edits the two properties are only model-checked: an edit deletes a token of the host
  everywhere in the history but once on the disk, so that the text below would have to be
  described up to what the edits removed.

The hypotheses `AbsentIsNoText` and `AbsentIsNoState` say that the mark of a missing file
is neither a sequence nor a record. What the recursive functions over units compute is
proved by a least counterexample (`LeastNumber`, which is `WFMin` of the library's
`WellFoundedInduction` for numbers), and that such a function exists by building it up
step by step (`UpFrom0`).

`ClientSavesProofs`, from `StoreAssumption` and `ClientAssumption` (the bound on faults is
a natural number), for any number of messages, edits, faults and restarts:

- `MergedChat`: a merge that succeeds has the messages that either side has added and
  those of the base that both have kept, each of them once. The operators concatenate the
  gaps with `FlattenSeq`, a recursive function of the community modules; what that contains
  is proved by a minimal counterexample.
- `SavesTyped`, `ViewKept` (`ViewKeepsEdits`) and `QuietSaved` (`QuietMeansSaved`), from one
  inductive invariant:

      SavesInv == SaveShape /\ ChatsOnce /\ MessagesInv /\ TextsInv
                    /\ ViewKeepsEdits /\ Settled

  A merge could undo a deletion only with a message that the server has, the base has not
  and the user has deleted; `MessagesInv` says that there is none whose saving is not in
  doubt. It could drop a text only if the base or the server had it; `TextsInv` says that it
  has been saved then. `Settled` is what the tracker is for: an untracked view is what is
  saved or being saved. It is kept because a save that ends without a word tracks the chat
  again, and because the confirmation compares the chat with the submitted body.
- `OwnEditsOnly` (`OnlyOwnEdits`), from a second invariant over the first:

      OwnInv == what the page shows, sends or has given up is OwnEdits of the
                chat it was made from

  where `OwnEdits(h, base, body)` says that body lacks of base only what the user has deleted,
  has its text or one that the user typed, and has the messages of base in their order. A
  save is accepted only on its base, so the invariant is the property, one request ahead.
  The hard step is the rebase: `MergeKeepsOrder` shows that a merge keeps the order of the
  other side, from where each gap of the base begins and ends (`GapOrder`, `GapsFollow`), and
  orders are composed through the intermediate merge (`KeepsOrderThrough`): a message that
  is in both ends is in the middle, because what the view has beyond the submitted body
  was never on the server.

Only model-checked: `RevertRestoresHost` and `HostUnderUnits` after an edit of the user, and
what is out of the prover's reach: liveness (`EditsArrive`, `AckedReachesDatabase`,
`ReadyIsDrained`, `ResultLeaves`, `TransactionEnds`). Every other property of a passing run
has a theorem. What `LatestReplacement` and `CascadeRoot` find in chains of retries of any
length is not proved by itself; the proofs do not need it, because they hold whatever
predecessor an input is given.

## Not modelled

- Of the chat protocol: inputs that the client prepares, deleted chats, acknowledgement
  of failed inputs, retirement of records, globals and statistics, failed journal
  writes, chats that wait for their metadata.
- Of resets: what a restore decodes, the swap of the image directory beyond its
  outcome, session locks, browser state that a reset orphans, and the migration of remote
  blocks (server 636): it runs before the server listens, restored databases are made
  inline before they are installed, and later calls find nothing to migrate.
- Of the delivery: results keyed by chat instead of operation, plugin globals and
  statistics of a result, duplicate start requests that arrive after the run, deleted
  chats and copies, edits of the conflict copy, the age of the operation row, a reset
  while a result is parked, and which of many results retention picks. The pages are those
  of `bg-preserve`. On the 1.10 target the recovery units of `lazy-chat-bg-adapter` replace
  parts of the watch: they go on polling at its deadline, park a recovery that they cannot
  verify, and queue it again in the same page. `ResultLeaves`, which uses the end
  of a watch, then rests on lapse and expiry alone.
- Of the installer: file modes, the identity of the target package (which `status` compares
  too), locks of another host, git commands that fail, files that the user creates, and the
  checks of a catalog's own form.
- Of the browser's saves: creation and deletion of chats, writer sessions with the
  reload after 423, adoption of answers that the server commits, the answers 400, 404, 405,
  413 and 5xx, messages without ids, and the save of the root with its own patches.
- The plugin worker: a protocol of its own; the server side is in the models as what a
  transform returns. Whether the effects of a transform reach globals, statistics or other
  services twice is not asked; `TransformNotRepeated` says when it is begun.
- Backups, the client build fence, usage reports, the PageFold rendering, the execution
  projection and the notices: no protocol, or one that decides nothing about chats.
- The user interface patches, which are most of the source lines: sequential browser code
  covered by unit tests.

## Plan

What would be next, most important first:

1. `ServerChatInput`: client preparation (tokens, interruption); deletion of the chat under a run; acknowledgement of
   failed inputs; retirement of records and their receipts.
2. `ChatWriteJournal`: the journal in detail, new chats awaiting their metadata,
   failing writes.
3. `ClientSaves`: creation and deletion of chats, writer sessions, adoption of committed
   answers; an abstract chat whose accepted edits are totally ordered, implemented by
   server and clients.
4. `Conversation`: an abstract conversation (each command is answered, failed,
   cancelled or blocked once), implemented by `ServerChatInput` without restarts.
5. Plugin worker: requests, timeouts and termination. `BackupSnapshot`: rotation
   and restore safety.

Proofs to add: the installer with edits of the user, from an `OnHost` that describes the
texts below up to the tokens that edits have removed; that a waiting chain of inputs has no cycle
but the one of finding 1.
