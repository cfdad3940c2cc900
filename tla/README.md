# Verification of dynamic context pruning

TLA+ models of `dynamic_context_pruning`, the TLC runs that check them and the
TLAPS proofs of their main invariants. Paths are relative to `src/`; `plugin/`
stands for `opencode-dcp-plugin/lib/`, and a Rust file without a path is in the
crate the sentence is about.

The program sits between a coding agent and the model. Before every request it
rewrites the conversation the host holds: it drops tool calls that later calls
made redundant, replaces whole ranges by summaries the model wrote itself (the
`compress` tool), asks the model to compress when the context fills up, and
keeps enough state to do the same thing consistently on the next request.
Nearly all of its correctness is about that state staying consistent over a long
session in which the host appends, elides and reverts messages, the model
compresses ranges that contain earlier summaries, the user switches blocks off
and on, and processes end and start again.

The repository holds the program twice: a Rust workspace (`crates/`, the
*library*) and a TypeScript plugin for OpenCode (`opencode-dcp-plugin/`, the
*plugin*), which reimplements the same behaviour rather than calling the Rust
one. The NAPI bridge (`crates/opencode-dcp-bridge`) is a third way in: the library
behind OpenCode's message format.

## 1. Inventory

| component | state it keeps | operations | what makes it correct | module |
|---|---|---|---|---|
| `dcp-compress` | none of its own; edits the blocks in `SessionState` | `handle_range`, `handle_message`, `resolve_range`, `commit_block`, `filter_compressed_ranges` | each block has one fate; lists and lookups agree; nothing folded is lost | `CompressionBlocks`, `BlockLedger` |
| `dcp-state` session | references, blocks, counters, `prune.tools`, frontier | `assign_message_refs`, `reset_on_compaction_at`, `rebuild_from_messages` | references are a chronological bijection; a rebuilt session decides the same | `CompressionBlocks` |
| `dcp-state` tool cache | per-call tool, status, turn, error; rebuilt on each transform | `sync_tool_cache` | pairing of calls and results; ages count closed turns | `ToolPruning` |
| `dcp-prune` | adds to `prune.tools` | the strategies, `should_apply_now`, `apply_prune_to_messages` | the most recent call on a thing survives; errors stay visible | `ToolPruning` |
| `dcp-core` | `ContextPruner`: config, state, store, force flag | `transform_messages`, `handle_compress`, `decompress`, `recompress`, `force_apply`, `update_config`, `reset`, `save` | the order of the steps; a failed step leaves the rest intact | by step, in all of the library's modules |
| `dcp-core` facade | the pruner under one fair mutex | async wrappers | a call holds the lock to its end, the save included | `FileStore` |
| `dcp-nudges` | counters, pairs in the state | `build_priority_map`, `inject_nudges` | paced, once per turn, never behind the frontier | `Nudges` |
| `dcp-storage` | JSON files, or a map | load, save, delete | a crash leaves the old or the new state | `FileStore`, `SavedSessions` |
| `dcp-config` | layered settings | discover, merge, validate | the same files mean the same in both engines | `Settings` |
| `dcp-permissions` | a session's permission | snapshot, effective permission, sync | a denial holds | none: nothing in the repository calls the sync |
| `opencode-dcp-bridge` | a pruner and its bound session under a mutex | conversion and merge of messages, NAPI calls, save on drop | what comes back is what the library decided | `BridgeMessages`, `FileStore` |
| plugin state (`plugin/state`) | one state object for all sessions, one JSON file per session | `checkSession`, `ensureSessionInitialized`, load and save | handlers that yield never mix two sessions | `PluginSession` |
| plugin compress, sync, block commands (`plugin/compress`, `plugin/messages`, `plugin/commands`) | blocks and three indexes of them | range and message tools across awaits, `syncCompressionBlocks`, decompress, recompress | a commit rests on what it validated; rebuilding agrees with commits | `PluginBlocks` |
| plugin strategies, tool cache, sweep | bounded cache of calls, list of calls, pruned calls | `syncToolCache`, `deduplicate`, `purgeErrors`, sweep | nothing unseen, unique or protected goes | `PluginPruning` |
| plugin nudges (`plugin/messages/inject`) | anchors | `injectCompressNudges`, `applyAnchoredNudges` | the model is asked while the context is full; old text does not change | `Nudges` |
| plugin configuration, hooks, V1 and V2 entry points | settings, the host's rules, the permission of the session | config hook, message transform, system prompt, commands | the model is told to compress where the rules allow it | `Settings`, `PluginSession` |
| `dcp-messages`, `dcp-prompts`, `dcp-notification`, `dcp-telemetry`, `dcp-tokens`, `dcp-protected`, `dcp-traits`, `dcp-rig` | none a decision reads, apart from counters | text, counting, globs, interfaces | text and layout | none |
| plugin UI, TUI, auth, update, logger; installers, scripts, examples | files and terminals | input and output | not a state machine | none |

How they interact. The host calls `transform_messages` before each request and
`handle_compress` when the model uses the tool. Both run on one `&mut
SessionState`, behind a mutex, so in the library the interleaving that matters is
one of **whole operations**, in any order, with a host that edits its list in
between. `transform_messages` performs, in this order: filter invalid messages,
detect a compaction, synchronise (tool cache, references, turn), decide with the
three strategies, apply the decisions if the cache-stability gate is open,
expand blocks, nudge, strip, save. The plugin has no mutex: its handlers yield
at every `await`, share one state object and write the same files.

What is hard: `prune.tools` and the blocks outlive the messages they were decided
from; three copies of "is this block active" are updated by four operations;
several entries of a compress call are committed one after another against a state
their predecessors change; the host may hand over its own list or the transformed
one, and compacts without saying so; a save may fail, be cut short or be undone by
a power loss; a plugin handler works on after its session was switched away, throws after
it has changed the state, or starts a save and does not wait for it.
`PROJECT.json` lists these hazards, each at its line, with the properties that catch
it going wrong, or a note where the code does go wrong.

## 2. Modules

    CompressionBlocks ── INSTANCE ──> BlockLedger      (abstract specification)
      └─ CompressionBlocksProofs      references, blocks, refinement
    ToolPruning ── MCToolPruning
      └─ BridgeMessages ── MCBridgeMessages            composed: host, bridge, library
           └─ ToolPruningProofs       decisions, what goes out, what the bridge hands back
    FileStore ── INSTANCE ──> SavedSessions            (abstract specification)
      └─ FileStoreProofs              saves, power losses, refinement
    Nudges                                             both engines
      └─ NudgesProofs
    Settings ── MCSettings                             both engines
      └─ SettingsProofs
    PluginBlocks ── MCPluginBlocks
      └─ PluginBlocksProofs
    PluginSession
      └─ PluginSessionProofs
    PluginPruning ── MCPluginPruning
      └─ PluginPruningProofs

The `MC` modules only give constants their values. In every module a message is a
number in the order of its creation, and the host's list a set of such numbers.

### `CompressionBlocks`: one session's references and blocks

| model | code |
|---|---|
| `by_raw_id`, `by_ref`, `next_ref` | `MessageIdState` (`dcp-types`) |
| `blocks_by_id`, `active_block_ids`, `active_by_anchor_message_id`, `next_block_id`, `next_run_id`, `frontier_message_ref` | the fields of the same name |
| `messages`, `newest`, `HostAppend`, `HostElide`, `HostRevert` | the host |
| `shown` | what `transform_messages` last returned |
| `Transform`, `TransformAfterCompaction` | `transform_messages` without and with a detected compaction |
| `CompressRange`, `CompressMessage` | validation of all entries in `handle_range`, `handle_message`, then `allocate_run_id` |
| `CommitEntry`, `FailEntry` | one pass of the commit loop; its early return |
| `Decompress`, `Recompress`, `Reset` | `ContextPruner::decompress`, `recompress`, `reset` |
| `call` | the entries still to commit: the loop's position |

A summary is reduced to the blocks whose text it holds (`holds`), to the
placeholders that `parse_placeholders` sees (`mentioned`), to those it skips and
`inject_placeholder_expansions` nevertheless expands (`loose`), and to whether
it came out larger than what it replaces (`oversized`). A call that fails
validation changes nothing, so it is no step. A call in progress is several
steps only to expose the state between two entries; nothing else may move until it
is over (`Idle`), as with `&mut`.

`BlockLedger` is what a session promises about blocks: numbers are handed out in
order; a block is active, off (by the user), folded into a later block, or
retired by a compaction; folding and retiring are final.

### `ToolPruning`: strategies, gate, apply phase, outgoing list

| model | code |
|---|---|
| `Calls`, `Answers`, `Completed`, `Errored`, `Turns`, `Age` | `sync_tool_cache` (rebuilt on each transform, hence operators and not state) |
| `Duplicates`, `OldErrors`, `StaleReads`, `Decide` | the strategies and `run_strategies` |
| `tools` | `state.prune.tools` |
| `GateOpen` | `should_apply_now` |
| `ToolLeft`, `Applied`, `Render`, `Stripped` | `apply_prune_to_messages`, `filter_compressed_ranges`, `strip_messages` |
| `Transform` | `transform_messages` as one step |
| `ForceApply`, `UpdateConfig`, `Compress`, `Decompress`, `Reset` | the pruner's methods |
| `HostSays`, `HostAnswers`, `HostFinishes`, `HostElide`, `HostRevert` | the host |

A message carries at most one tool part, and a call is identified by its message.
Blocks here fold no other block: they are present because the apply phase runs
before the expansion and the two interfere. `sent` is what the last step sent out,
nothing if it was no transform.

### `BridgeMessages`: OpenCode's messages through the bridge

Extends `ToolPruning`: OpenCode keeps a call and its result in one part, the
library wants two messages, so message *k* of OpenCode becomes 2*k* - 1 and, once
its call has ended, a synthetic 2*k*.

| model | code |
|---|---|
| `host` | OpenCode's list |
| `Converted`, `OwnOf`, `ResultOf`, `Stub` | `opencode_values_to_dcp`, `part_to_dcp` (`message.rs`) |
| `LooksLikeSummary`, `ToolHanded`, `Merged`, `MergedList` | `merge_one_message`, `apply_output_prune`, `merge_dcp_into_opencode_values` |
| `BridgeTransform`, `HandedBack` | `DcpPruner::transform_messages`, what it returns |
| `OpenCodeSays`, `OpenCodeFinishes`, `OpenCodeCompacts`, `OpenCodeReverts` | OpenCode |

Which message carries a nudge is not computed here; `HandedBack` allows any one
with a text, or none.

### `Nudges`: who asks the model to compress, in both engines

| model | code |
|---|---|
| `rust`, `Chosen`, `Injected`, `Noted`, `RustTransform` | `state.nudges`, `build_priority_map`, `inject_nudges` (`dcp-nudges`) |
| `Cleared`, `Referenced`, `PastFrontier` | compaction, references, frontier as nudges see them |
| `plugin`, `saved`, `Opened`, `Raised`, `Lowered`, `Written`, `PluginTransform` | anchors and file, `injectCompressNudges`, `applyAnchoredNudges` |
| `SaveIf`, `BeginSaves`, `saving`, `SaveEnds` | `void saveSessionState(...)`: a save begins in the step of the request and ends there, later, or not at all |
| `Command` | a slash command that saves the session (sweep, decompress, recompress) |
| `Compresses`, `HostWrites`, `HostReverts`, `HostCompacts`, `Silence`, `Restart` | model, host, user, process |
| `Restored` | the folds the plugin finds in its file |

How full the context is comes with the transform (`level`): the tokenizer and the
provider are outside. `wanted` is history: what the last save of the process was to write.

### `FileStore` and `SavedSessions`: saving a session

`SavedSessions` is the promise of `StatePersistence`: per session one envelope,
replaced as a whole, and after a power loss one of those stored since the last
sync. `FileStore` is `FileStateStore::save` step by step (`Backup`, `Create`,
`Write`, `Sync`, `Rename`, `SyncDir`, each of which may `Fail`), called by tasks
through the lock of their pruner (`queue`), by several pruners on one
directory, with ends of processes (`End`), new pruners (`Build`), deletions and
power losses. A session's name leads to a line of files: the last one is what load
reads, the earlier ones what a loss may bring back.

### `Settings`: configuration and permissions, in both engines

| model | code |
|---|---|
| `files`, `layout` | the settings files; the working directory, markers of a project in it, the platform's directory for settings |
| `DiscoverGlobal`, `DiscoverCustom`, `DiscoverProject`, `DiscoverOverlays`, `AllLayers`, `Repeated` | `ResolvedPaths::discover`, `all_layers` |
| `Normalize`, `DeepMerge`, `LoadWithPaths`, `Deserializes`, `Validate`, `Loads` | `load_with_paths`: aliases, `deep_merge`, serde's types, the refusals of `Config::validate` |
| `StartRust`, `UpdateConfig` | a new pruner, `ContextPruner::update_config` |
| `GetConfigPaths`, `LoadConfigFile`, `MergeLayer`, `GetConfig`, `Warned`, `Throws` | `config.ts` |
| `StartPlugin`, `ConfigHook` | the plugin's entry point, its config hook |
| `ResolvePermission`, `DisabledByHost` | `host-permissions.ts`, `compress-permission.ts` |
| `Arrive`, `SubAgentKnown`, `SyncPermission`, `SystemPrompt` | requests, slash commands and compress calls, between their awaits; the system prompt |

Ten keys stand for the schema, one or two of each sort: a switch, a choice, lists, two
limits that constrain each other and a map of limits per model, a number with a range, a
key with an alias (`pruneNotification`), one the engines spell differently
(`allowSubAgents`). Requests, commands and compress calls of all sessions take the one
state the plugin has (`Handlers`); a compress call takes it only for a session that is not
the one in memory.

### `PluginBlocks`, `PluginSession`, `PluginPruning`: the plugin

`PluginBlocks`: a compress call is `Fetch` (messages awaited), `Resolve`
(boundaries, selection, validation), `Commit` (after the protected output was
awaited), or `Fail`; `CommandFetch`, `Decompress` and `Recompress` are the
commands; `Transform` synchronises and folds, `Reopen` is a restart that loads the
saved blocks (`LoadPruneMessagesState`). `Sync` is `syncCompressionBlocks`, `Apply` is
`applyCompressionState`.

`PluginSession`: one `state` for all sessions, a `file` per session, a task per
handler that stops at each await (`Waits`). `Request` and `RequestV2` are the
message transforms of the two plugin interfaces (V2 does not await them), `Call` is
the compress tool, the manual toggle or the trigger command; `Continue` is the event
loop going on with a handler, `Allowed` the user (or a rule of the host) letting a
compress call go on. A compress call changes memory twice: its strategies prune before the
arguments are looked at (`ArriveCompress`, the end of `prepareSession`), and its blocks come
with `Commit`; it may throw before, between and after the two (`Throws`, and the second
branch of `ArriveCompress`), with nothing undone and nothing saved. A write of a file is two
steps, `Truncate` and `Complete`, and `Fails` before or after the truncation; the error is
logged, and nobody tries again. A read may fail and is then taken for "no file".
`Crash` kills the process.

`PluginPruning`: the transcript (`User`, `Step`, `CallEnds`, `Compaction`, `Revert`), a
request (`Transform`: synchronise, cache, render), a compress call that runs the
strategies on the list and cache of the last request, `Decompress`, and the sweep, which may
come in while calls are under way. A message taken back keeps its number and is `gone`;
`prune.tools` and the cache stay as they are, and a block whose compress call was taken
back ends with the next request or command.

## 3. Runs

State counts are distinct states. Times are with two workers.

| run | module | bounds | states, time |
|---|---|---|---|
| `blocks` | `CompressionBlocks` | 3 messages, 3 blocks, 1 entry per call, both lists, block 0 named | 418,569, 50 s |
| `batches` | `CompressionBlocks` | 2 messages, 3 blocks, 2 entries per call, every summary oversized | 60,783, 15 s |
| `references` | `CompressionBlocks` | 6 messages, two of them unlisted, 3 references | 32,057, 6 s |
| `pruning` | `ToolPruning` | 6 messages, reads of one file and edits of two, errors purged after 2 turns, one block, gate by request | 1,269,150, 100 s |
| `bridge` | `BridgeMessages` | 3 messages of OpenCode with 0 to 2 texts and a call, one block, bare or wrapped | 600,370, 80 s |
| `nudges` | `Nudges` | 4 messages, 1 fold, 1 write that ends late or fails, both engines, frequency 2 | 838,111, 105 s |
| `file_store` | `FileStore` | 2 tasks, 2 pruners, 2 runs, 1 session, 1 loss | 213,304, 60 s |
| `settings` | `Settings` | 10 places, 2 files of 11 layers, 5 sets of rules, 2 sessions, 3 handlers | 5,165,217, 120 s |
| `plugin_blocks` | `PluginBlocks` | 2 messages, 3 blocks, 2 calls at a time of up to 2 entries | 1,561,770, 140 s |
| `plugin_session` | `PluginSession` | 2 sessions, 2 handlers, 1 crash, 1 compaction, both hosts | 453,776, 145 s |
| `plugin_pruning` | `PluginPruning` | 5 messages, 3 calls, a cache of 2, 1 block, turn protection off and on, 1 sweep | 1,367,911, 80 s |
| `summary_reaches_model` | `ToolPruning` | 3 messages, one block; ends at a violation | section 6 |

Deadlock is checked where the system can go on for ever within its bounds
(`blocks`, `batches`, `references`, `pruning`). The other models end: the
host may write no more messages than the bound, and then nothing is left to do.

Why the bounds reach the interesting cases:

- `blocks`: three blocks make a chain (a block that holds a block that holds a
  block), the least on which a one-level computation of included and effective
  lists could differ from the closure; three messages let a block be anchored
  inside another. Summaries naming block 0 make calls fail in the loop.
- `batches`: two entries of one call may share a consumed block, which gives it two
  parents; a second entry may fail after the first is committed; resets restart the
  counters.
- `references`: three references for up to four listed messages out of six, so the
  space runs out and a message waits without one until a compaction, real or
  misdetected, starts the numbering again.
- `pruning`: three answered calls are the least on which an edit of two files
  meets a later read of one and a later edit of both in either order, and on which
  an error is old enough under two turns. Every message that calls also speaks, so
  that turns pass. A block may hide any of them before and after they are decided on.
- `bridge`: two calls with one signature, so that one is pruned, and a third
  message before, between or after them; a text changes only by a nudge, a summary or
  an empty summary, and each can meet each kind of message. The gate opens after
  a final text or by request.
- `nudges`: with frequency 2, two messages may lie between anchors; four messages are
  two turns, the least on which the library has an older turn to nudge. The library
  injects in the mode `append_text`, as the default mode's nudges are stripped
  (section 6).
- `file_store`: two pruners on one directory, two tasks at one lock, a second run
  after an end; one loss suffices to bring back whatever the line still holds.
- `settings`: any two of the ten places hold any of eleven layers, whole or torn, or
  something empty or unreadable, so every pair of layers meets in every order, with each
  layout of the working directory. The handlers and the update are followed where the
  only file is the host's and holds one of two layers (`Followed`): they depend on two keys
  of it. Three handlers of a primary and a sub-agent session interleave at both awaits.
  The library starts before the plugin is ready, its settings are updated once: it shares
  no memory with the plugin, and what it does commutes.
- `plugin_blocks`: two parallel calls and a command, each stopped between its fetch
  and its commit; three blocks make the chain again.
- `plugin_session`: two handlers of different sessions, or of one, at every pair of
  awaits, with unfinished writes and a crash; each call, read and write may fail.
- `plugin_pruning`: three calls in a cache of two, so the oldest is evicted and
  comes back; calls end in any order around a request and a sweep; five messages are the
  least on which a call is pruned as a duplicate of another, which is then taken back.

What the properties say is in the comment above each definition. In short:

- *Indexes agree* (`ActiveIndexAgrees`, `AnchorLookupSound`, `IndexesAgree`): the
  sets, flags and lookups describe one set of blocks, in both engines.
- *Blocks have one fate* (`ImplementsLedger`; in the plugin `ActiveIsDerived`, that
  commits on state parallel handlers changed come out as a synchronisation would).
- *Nothing folded is lost or shown twice* (`SummaryCarriesIncluded`,
  `IncludedIsClosure`, `FoldedStaysHidden`, `SummaryGoesOut`, and through the bridge
  `FoldedStaysOut`).
- *References* (`RefsInverse`, `RefsChronological`) through elisions, reverts and
  compactions, also those misdetected.
- *Restart* (`RebuildAgrees`, `RebuildPrunesSame`): what a session rebuilt from
  messages and blocks decides equals what the running one decided.
- *Pruning* (`MostRecentKept`, `ErrorStaysVisible`, `SeenBeforePruned`, `OneCopyLeft`,
  `ProtectedKept`, `UndecidedStayWhole`, `ErrorReachesModel`): a call goes only while a
  later one stands for it, a failed one keeps its message, nobody loses what was not
  decided on, and the bridge adds nothing to that and takes nothing away.
- *Nudges* (`PluginNudgesWhenFull`, `NudgesStay`, `TurnNudgedOnce`).
- *Files* (`ImplementsSavedSessions`, `AcknowledgedSurvives`, `TornIsTransient`,
  `SessionsKeptApart`, `MemoryAgreesWithFile`).
- *Settings* (`SameFilesSameSettings`, `PromptFollowsRules`).
- *Progress* (`CallsReturn`, `HandlersEnd`).

Conditions in properties, and why they are there:

- `MostRecentKept` and `RebuildPrunesSame` exclude sessions in which the host has
  taken messages back (`reverted`): `prune.tools` is only cleared by a compaction or
  a reset, so a call pruned in favour of a later one stays pruned after the later
  one is gone. `RebuildPrunesSame` also rests on a rule of the model APIs which the
  model makes a guard of the host: the assistant goes on only when its last call is
  answered.
- `SessionsKeptApart` and `MemoryAgreesWithFile` exclude handlers that were under
  way together (`raced`): there the plugin does mix sessions (section 6).
  `MemoryAgreesWithFile` also leaves out what the strategies had pruned for a compress call
  that then threw (`thrown`): it is in memory and in no file until something else saves.
  And it says nothing after a save or a read of the file has failed (`behind`), until the
  next save that succeeds.
- `TornIsTransient` excludes files a crash, a write that failed or two writes at once have
  left torn (`cut`), until they are written again: nothing repairs such a file but the next
  save of its session.
- `OneCopyLeft` is about all steps but the revert itself: a duplicate whose copy is taken
  back stays pruned (section 6). A call pruned while it had a copy keeps one until a revert.
  Calls cached before their input was known are excluded (`blind`), from `ProtectedKept`
  those swept without an entry in the cache as well, from `SeenBeforePruned` those the
  sweep took.
- `SameFilesSameSettings` compares the engines on the file systems of a user of the plugin
  (`DropIn`): the files both know by name and place, the keys the plugin documents. There
  `allowSubAgents` is the one setting that is lost, and the property says so. Where
  the library refuses to load, the plugin's user was warned, or the files hold something
  the plugin takes without a word (`OnlyRustMinds`): numbers out of the library's
  ranges, patterns that do not compile, names of tools that are no text, limits per model
  or in percent that are out of range, limits at odds, torn and unreadable files.
- `PromptFollowsRules` says "if and only if" for a request no other handler was under way
  with, on a state that was set up so, by a host that said whose child the session is
  (`disturbed` is the history of that); and of every request that nothing is told that is
  denied to all.
- `TurnNudgedOnce` excludes sessions in which the library has folded something
  (`folded`): a fold may change which message of the user an answer is paired with, and
  when a revert is taken for a compaction the fold is gone and the pair another one
  again. It takes a longer conversation than the run's and was found while proving
  (section 6).
- `UndecidedStayWhole` and `ErrorReachesModel` exclude calls a block stands for, not
  those of which a block holds the result alone: the host keeps both in one part, and
  the merge hands it back.
- `NudgesStay` holds across a restart if the file had come to hold what the last save was
  to write (`saved = wanted`, none under way): nobody waits for those saves, and a kill in
  between loses anchors. Even then turn nudges found at the opening may be gone, as they
  are not saved.

`TypeOK` of `ToolPruning` and `IdsDense`, `ConsumedIsFinal` of `CompressionBlocks` are
theorems (section 5) and do not run; `TypeOK` of `PluginPruning` and `Settings` documents
the state.

## 4. Fairness and liveness

Two modules claim liveness, and only where the code itself schedules the work.

- `FileStore`: weak fairness of `TaskStep(t)`, a task's own next step once it is
  called. The tokio mutex of the facade is fair and hands the lock over in the order
  of arrival, which `queue` models, and every step of a save returns, with an error
  or without. `CallsReturn`: every call returns.
- `PluginSession`: weak fairness of `Continue(t)`, since the host answers what the plugin
  asks it and the event loop serves the answer, and of the two steps of each write, which
  the operating system finishes or gives up on. The user's permission (`toolCtx.ask`,
  `plugin/compress/pipeline.ts:50`) has no fairness: a compress call may wait for it for
  ever. Nor has a crash. `HandlersEnd`: every handler ends, comes to ask the user, or dies
  with the process, and one the user lets go on ends; `TornIsTransient`: a file that does
  not parse is soon whole again, unless a crash, a failed write or an overlapping one
  left it so.

Nothing is assumed of hosts, users and models, who may stop for good at any time; the
other specifications state no fairness and make no claim of progress.

## 5. Proofs

TLAPS proves the following for every value of the constants that meets the
assumptions the modules declare; TLC evaluates the assumptions in every run. They say
that bounds are naturals, that parameters are subsets of what they choose from, and
that special values differ from ordinary ones (`NoSession` is no session, `None` and
`Null` in `ValuesAssumption` are no values of a file, tasks are not sessions, so that a
write is named by the one or the other). Every safety property of a passing run is
a theorem.

### `CompressionBlocksProofs`

*References*: `RefsInverseHolds`, `RefsChronologicalHolds`. Chronology is
not inductive: a message without a reference that lies between two referenced
ones would be numbered last. `RefsInv` therefore adds that every listable message
before a referenced one is referenced already (and that the host's numbers stay
below its newest one). Overflow keeps this because numbering fails for a suffix of
the queue. The lemmas about `Number` (monotone, injective, below the new counter)
are stated about the queue and cited for both transforms.

*Blocks*: `TypeCorrect`, `ActiveIndexAgreesHolds`, `AnchorLookupSoundHolds`,
`IdsDenseHolds`, `LineageConsistentHolds`, `SummaryCarriesIncludedHolds`,
`IncludedIsClosureHolds`, `RebuildAgreesHolds`, `ConsumedIsFinalHolds`,
`ImplementsLedgerHolds`. The inductive invariant `IInv` is
the conjunction of the block types, `IdsDense`, `ActiveIndexAgrees`,
`AnchorLookupSound`, the content of blocks (lineage, text carried, closure) and
two strengthenings:

- `CallReady`: each entry still to be committed is a well-typed plan whose required
  blocks are committed and, by now, either in force or folded by an earlier entry
  of this very call. Validation happens before the first commit, so without this
  nothing would be known about what the second commit consumes.
- `StandingOK`: the record fields that tell a block's fate exclude one another (a
  block in force has no parent and is not switched off, and only a consumed one has
  an heir).

There is one lemma per action, and for a commit one per conjunct it disturbs.
`RebuildAgrees` rests on `IdsDense`: the numbers below the counter have no gap, so the
counter is one more than the latest block, and a run number is only known to be below
its counter. `ConsumedIsFinal` and `ImplementsLedger` follow from `IInv` before a step:
each action maps to one ledger action or to a stutter.

### `ToolPruningProofs`

`TypeCorrect`, `MostRecentKeptHolds`, `RebuildPrunesSameHolds`,
`ErrorStaysVisibleHolds`, for any messages, files and signatures. `IInv` adds to the
types and to `MostRecentKept` that a call is answered once and by a later message
(`AnswersInv`), that what was decided on has its final status (`SettledInv`) and
that a block is anchored at one of its own messages (`BlocksInv`). One lemma carries the
argument (`LastOfGroupSurvives`): of the calls not decided on that touch a file, or have
a signature, the last completed one is out of reach of each strategy, as each asks for a
later one of the same group; so the strategies may take turns in any order.

`RebuildPrunesSame` needs the other direction as well: what was decided is what the
list alone says. `Prunable` states that without reference to earlier decisions
(`DecideIsPrunable`), and it is stable under what the host does: ages count turns from
the call on (`AgeIsTurnsSince`), and the host drops only a prefix. Here the rule of the
model APIs is needed (`OrderInv`: a call is answered before the next is made).

Behind the bridge: `UndecidedStayWholeHolds`, `ErrorReachesModelHolds`,
`FoldedStaysOutHolds`, about `BridgeSpec`. `BridgeInv` says that the library sees
`Converted(host)`, that a message of the host has an input exactly if it has a call, and
what blocks are. A call the library hands back makes `LooksLikeSummary` false
(`CallIsHandedBack`), so a message is mistaken for a summary only after its call was
taken away. The module extends `BridgeMessages`; the theorems about `Spec` use
nothing of it.

### `FileStoreProofs`

`TypeCorrect`, `AcknowledgedSurvivesHolds`, `ImplementsSavedSessionsHolds`, for any
number of tasks, pruners, sessions, runs and losses. The inductive invariant is
`IInv == TypeOK /\ TaskInvs /\ RunInv /\ FilesInv /\ AckInv`:

- `TaskInvs`: a task that saves is first in the queue of its pruner and carries the
  state the pruner has; from the sync on its temporary file is whole and safe. This is
  where the lock is needed: an envelope built under it and written outside would be
  older than its pruner.
- `RunInv`: no two pruners share a run, and nothing is confirmed beyond the run's
  state.
- `FilesInv`: every file that has a session's name is whole and safe. It is why
  the sync comes before the rename, and what the refinement rests on: load never
  meets a torn file.
- `AckInv`: `AcknowledgedSurvives`, strengthened by what is known between the rename
  and the directory sync (`Behind`), when the newest file of the run may already have
  been pushed back by another run.

The refinement maps the line of files to the line of envelopes; a rename is a
`Put`, a directory sync is `Settle`, a loss is `Lose`, anything else a stutter.

### `NudgesProofs`

`TypeCorrect`, `PluginNudgesWhenFullHolds`, `NudgesStayHolds`, `TurnNudgedOnceHolds`,
for any number of messages and folds, frequency, threshold, force and mode. `NudgesInv`:

- `HostInv`: the list starts with a message anybody sees, no two folds end at the
  same message, and one comes after what it folds. So the last visible entry exists and
  is where both engines look for it (`LastOne`, `InOrderIs`).
- `FileAgrees`, `SentInv`: what the last save was to write holds each anchor in memory but
  for turns, unless a compaction has just been found, and each nudge sent hangs on one of
  them. The file itself may be behind: `NudgesStay` across a restart rests on the anchors
  and on the restart finding `saved = wanted`.
- `RustInv`: references are as many as the next number says, for the frontier.
- `TurnInv`: until something is folded, a remembered pair is an answer and the last
  message of the user before it, as long as both are listed. It is what makes a pair that
  is formed again the same pair, and it fails once a fold has been taken back, which is
  why `TurnNudgedOnce` carries its condition.

### `SettingsProofs`

`PromptFollowsRulesHolds`, `SameFilesSameSettingsHolds`. The first from `PromptInv`: a
handler that has been alone since the state was set up owns it - session, sub-agent flag
and permission are its own at every await - and the host's rules the plugin keeps deny what
the user's words deny. The second relates the two cascades as functions of the files. The
places are the same three in the same order once those only the library knows are empty;
laying one file over both accumulations keeps a relation between them (values the same,
lists and maps of the one within the other's, as long as no value was one the library
refuses or the plugin warns of), so five layers of one and three of the other end in
related settings. `SameInv` adds what the files still are when the engines start: the
plugin creates one file, without keys, and only in the host's directory.

### `PluginBlocksProofs`

`TypeCorrect`, `IndexesAgreeHolds`, `FoldedStaysHiddenHolds`, `ActiveIsDerivedHolds`,
`SummaryGoesOutHolds`, for any number of parallel calls. `IInv` adds to these that the
entry of a message lists exactly the blocks whose effective messages it is among
(`EntriesInv`), that blocks consume older ones only (`BlocksInv`), and that a planned
call consumes blocks that exist - which is all that can be said of a plan made before an
await. The loops of `syncCompressionBlocks` and of a commit are recursive functions of
the number of rounds; the proof carries an invariant through one round and
then, by well-founded induction on the number of the first round that fails, through
all. A commit is shown to do what one more round of the synchronisation would do,
whatever state it finds.

### `PluginSessionProofs`

`TypeCorrect`, `SessionsKeptApartHolds`, `MemoryAgreesWithFileHolds`, for any sessions,
handlers, compactions, crashes and failures. `IInv` says of sessions in which handlers never
overlapped (`Orderly`): at most one handler is under way and finds its own session in
memory after each await (`OneHandler`); at most one write is under way, of what is in
memory (`OneWrite`, which includes the write a request leaves behind when it ends); memory,
files and requests hold the items of their session (`OwnItems`); memory and file agree
but for a load or a write, for what a call that threw had pruned and for what the
strategies pruned for the call under way, and unless a save or a read failed (`Agreed`).
`WholeInv`, that a file that does not parse holds nothing, is needed without that
condition, for crashes.

### `PluginPruningProofs`

`SeenBeforePrunedHolds`, `OneCopyLeftHolds`, `ProtectedKeptHolds`, for any size of the
cache. `IInv`: an entry of the cache tells the truth about its call, or the call is blind
(`CacheInv`), a listed call was sent in full or is pruned (`ListInv`), and each duplicate
has a later copy that is no duplicate itself, that is still in the transcript and whose
entry, if the cache holds or refetches one, has its input (`StandsFor`). `OneCopyLeft`
alone is not inductive: when the copy is itself taken as a duplicate, the last call of the
signature takes its place, and an evicted entry comes back with the same input. `Listed`
says that once a request went out the list has no call that was taken back, so the
strategies never keep one for a copy. `Inv(ex)` claims copies for all duplicates but those
in the set `ex`, and each action except `Revert` is shown to keep it for the same set: hence
the theorem about steps, from any state the system reaches.

### Only model-checked

Liveness (`CallsReturn`, `HandlersEnd`, `TornIsTransient`), which is out of the prover's
reach. Induction over data is as well, where a theorem would quantify over operators;
sums and loops are handled by the least counterexample instead (the library's
well-founded induction), as above. `SummaryReachesModel` is violated (section 6).

## 6. Where documents and code disagree

### Checked by a run: `summary_reaches_model`

`dcp-core/src/pipeline.rs:434-436` says the `<dcp-*>` tags the library injected
are "part of the contract - keep them", and `dcp-compress/src/filter.rs:8-9` that
an anchor's text becomes the wrapped summary. The last step of a transform,
`strip_messages`, removes each `<dcp...>` tag **with the text up to its end tag**.
The run shows a block whose messages are hidden and whose summary is gone as well
(`SummaryReachesModel`). The same step takes out everything else the library says
to the model in tags:

- nudges in the default injection mode `wrap_block` (`append_text` survives);
- the `<dcp-message-id>` tags, so that the model never learns the references its
  compress calls need;
- protected user text, tool outputs and tags appended to summaries, and the
  expanded results of sub-agents.

### Found with these models

The properties behind them were violated by the models as they are; they are told
here and are no runs.

- Library: a context-limit or iteration nudge with a frequency above one never
  comes: `dcp-nudges/src/lib.rs:283` tests a counter that nothing increments, against
  `lib.rs:6-8` and `280-282`.
- `recompress` does not look for another block at its anchor
  (`dcp-core/src/pruner.rs:444`), so two active blocks may share one, against
  `dcp-types/src/lib.rs:1253`; the entry of the other is overwritten, and its summary goes
  out nowhere.
- A range may start inside an active block (`resolve.rs:67`); a block anchored at a
  hidden message never shows its summary (`filter.rs:8`).
- When a block consumes another, the consumed block's own messages go out raw
  again (`filter.rs:26`).
- `handler.rs:59` says no mutation on error; a failure in the commit loop
  (`handler.rs:125`) keeps the run id and the entries committed before.
- With the gate closed the raw list goes out, also the calls that were pruned before
  (`pruner.rs:263`), which breaks the provider's prefix cache the gate is there to
  keep (`cache_stability.rs:9`).
- Pruning a tool-call message that anchors a block removes the summary, while the
  block's messages stay hidden (`dcp-prune/src/apply.rs:56`, `filter.rs:8`).
- Bridge: a message of nothing but pruned calls vanishes, and a nudged message whose
  call was pruned loses its tool part, though `message.rs:407-410` says that a
  prune must not strip tools but blank outputs. With the default summary, whose text
  is empty after stripping, an anchor with a call is not recognised and keeps the
  tool part, blanked. A block anchored at a synthetic result loses its summary.
- Plugin: a decompress between the resolution and the commit of a compress call leaves
  the parent and the block nested in it both active (`plugin/compress/range.ts:123`), which
  `plugin/commands/decompress.ts:211` refuses.
- Plugin on OpenCode V2: the hook does not await the message handler
  (`index.ts:295`, against `150-152`), so a request goes out with nothing applied;
  the adapter drops the mark of a compaction.
- Library: an answer may get the nudge of its turn twice, against "fired once per
  uncompressed pair" (`dcp-nudges/src/lib.rs:9`): when its user's message is folded away
  it is paired with an earlier one (`lib.rs:743`), and when a revert that a transform
  takes for a compaction retires the block, with its own again.
- Plugin: handlers of two sessions under way together mix their decisions. A session that
  has its id in memory is taken to be there although its file is still being read
  (`plugin/state/state.ts:155`), and a late answer about the parent of one session is
  written to the state of the other (`state.ts:158`), whose permission and system prompt it
  then decides. A mode that is "pending" is overwritten by the read of a handler that
  looked before it was set (`state.ts:201-210`).
- Plugin: a compress call that throws after `prepareSession` - its ranges are refused, or a
  later entry's - leaves what the strategies have pruned
  (`plugin/compress/pipeline.ts:72`) in memory and unsaved (`range.ts:76-77`,
  `message.ts:68-70`); a restart forgets it, so requests before and after differ.
- Plugin: a write of the session's file that fails after the truncation leaves it torn
  (`plugin/state/persistence.ts:72`); the error is logged (`persistence.ts:107`), nothing is
  tried again, and the next start takes the file for none and saves over it.
- Plugin: `saveManualModeSetting` reads the file, and writes it back with the new mode
  (`persistence.ts:248`): what another handler saves in between is undone, and a file that
  is just being written reads as an empty one.
- Plugin: saves of anchors are not awaited (`plugin/messages/inject/inject.ts:135`), so a
  process that is killed forgets nudges it has already sent.
- Plugin on OpenCode V2: the messages a compress call works on are those of the last
  request of whichever session (`lastContext`, `index.ts:177-197`).
- Plugin: `prune.tools` does not follow a revert: when the user takes back the later copy
  of a call pruned as a duplicate (`plugin/strategies/deduplication.ts:88-91`), the output
  is in no message any more. The library does the same (`reverted` in `MostRecentKept`).
- Settings: `experimental.allowSubAgents`, as the plugin documents it
  (`opencode-dcp-plugin/dcp.schema.json:107`), is `allowSubagents` to the library
  (`dcp-config/src/sub_configs.rs:271-275`), which ignores the key without a word,
  although `cascade.rs:51-54` says that the two can share the file.
- Settings: the library refuses to load what the plugin takes without a warning:
  `nudgeFrequency` 200, `iterationNudgeThreshold` 1, turns out of range, limits below their
  least value, limits at odds, percentages above 100, patterns that do not compile, names of
  tools that are no text (`dcp-config/src/config.rs:332-376`). One such value and all of
  the user's settings are gone.
- Settings: the library also reads `config.jsonc` in the host's directories
  (`cascade.rs:30`) and looks for them below the platform's directory for settings, the
  plugin below `~/.config` (`config.ts:706-708`): where these differ, the same file is read
  by one of them. `compress.modelMaxLimits` of several files are merged by the
  library and replaced by the plugin.

Smaller disagreements:

- `handler.rs:115-118` says a later range may mention a block an earlier range of
  the call made; validation, which comes first, rejects the mention.
- `dcp-types/src/lib.rs:871-872` says the direct messages exclude those of
  consumed blocks; with a range over the raw list they do not.
- `dcp-types/src/lib.rs:540` calls references permanent; a compaction starts
  them again, and keeps the frontier expressed in the old ones
  (`dcp-state/src/session.rs:299`).
- A block the user switched off before a compaction can be recompressed after it.
- `stale_file_reads` judges a call that touches a protected path by its other
  paths, and `purge_errors` does not look at protected paths.
- `set_manual_mode` sets a flag the strategies do not read
  (`dcp-core/src/pruner.rs:652`).
- The saved envelope lacks the blocks, and a new pruner never loads one
  (`pipeline.rs:451`): its first save replaces what an earlier run stored. The
  backup is never read either. `bind_session` keeps the state of the session before.
- The oldest turn not yet nudged blocks all later ones once it lies behind the
  frontier (`dcp-nudges/src/lib.rs:776`).
- `compress_permission.rs:3` calls itself a port of the plugin's, but takes the stored
  permission of the last agent as its base, so that a denial would outlive its agent, and
  an agent's "allow" would lift the settings'. Nothing in the repository calls it.
- In the library limits in percent of both kinds never validate, as both resolve
  against the same default (`resolve(None)`); the plugin validates no limits.
- The plugin's entry of a cached call is never refreshed (`plugin/state/tool-cache.ts:46`): a
  call cached by a sweep while it was pending has no input and stays so. It is never
  purged as an error, two such calls of one tool count as duplicates whatever
  they did, and no file protects them. A completed call may be pruned as the duplicate of a
  later failed one. A sweep takes calls the cache does not hold without asking whether they
  are protected (`plugin/commands/sweep.ts:176`).

## 7. Abstractions, and what is not modelled

Every bound is a constant whose comment starts with "bound"; `MaxRef` and
`MaxCache` are the code's own limits.

A loop of the code is a function of the number of its rounds (`SyncRounds`,
`ApplyRounds` in `PluginBlocks`), a list in order is chosen by what defines its order
(`InOrder`), and the cascade of settings, whose length is fixed, is written out: forms
that TLC evaluates and TLAPS can reason about.

Left out of the library's modules: the disabled program and sub-agent sessions (the
list passes through), the expansion of sub-agents' results, custom strategies and
memory retrieval (host code), the diff, the pending snapshot, counters and
statistics that only feed texts, token counts (a summary is oversized or not, a
context below, between or above its limits, freely), messages with several tool
parts, two results for one call, the spelling of paths and arguments. Pending and
running calls are one status. `ToolPruning` gives every message a reference;
unlisted messages and the end of the reference space are in `CompressionBlocks`.
Through the bridge, reasoning and file parts, more than two texts and tool parts of
users' messages are left out.

Left out of the plugin's modules: token counts, durations, statistics, the text of
summaries, notifications, ignored messages in `PluginBlocks`, a clock that steps
back, and what the unused `pruneFullTool` would do. `PluginSession` follows pruned calls
and blocks as items; anchors, statistics and what `syncCompressionBlocks` writes into a
block take the same way. Prune and fold are separate modules of the plugin: what a block
hides is a set of messages in `PluginPruning`.

`Nudges` has one session: a command on another one is `PluginSession`'s matter. In it
`Command` saves a session that is open; the commands that open one add nothing a request
does not. After late or failed writes the folds the plugin restores are those of
some earlier time (`Restored`), without following each file.

`Settings` leaves out groups that are no objects (of which neither engine warns), JSON5 syntax
that the library's parser takes and the plugin's does not, and the plugin's interface to
OpenCode V2, which does not await the initialisation and passes no rules of the host
(`index.ts:218-300`). `threshold` stands for all numbers with a range, with the narrowest of
them. The library's own session permission (`compress_permission.rs`) is not modelled, as
nothing calls it.

Not modelled, because they are text, layout, counting, interfaces or network calls
that no modelled decision reads: `dcp-messages`, `dcp-prompts`, `dcp-notification`,
`dcp-telemetry`, `dcp-tokens`, `dcp-protected`, `dcp-traits`, `dcp-rig`, the texts
of slash commands, the plugin's prompts, UI, TUI, logger, auth and update check,
installers, scripts and examples.

## 8. Plan

1. Coverage: the helpers of `dcp-messages` that place references and nudges in a
   message (`inject.rs`) and the sub-agent expansion of `dcp-core`, as operators of a
   module of their own.
2. A theorem that a session behind the bridge (`BridgeSpec`) keeps `MostRecentKept`: the
   list changes by two messages at a time there, so it is no instance of `ToolPruning`'s
   specification.
3. `ActiveIsDerived` as a refinement of a small specification of the plugin's blocks,
   like `BlockLedger`.
