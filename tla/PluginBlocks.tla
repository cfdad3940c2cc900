---------------------------- MODULE PluginBlocks ----------------------------
(***************************************************************************)
(* The compress tool, the decompress and recompress commands and the block *)
(* synchronisation of the OpenCode plugin (lib/compress, lib/commands,     *)
(* lib/messages/sync.ts, filterCompressedRanges).                          *)
(*                                                                         *)
(* The plugin is one JavaScript thread, so a handler runs alone between    *)
(* two awaits; what happens in between is up to the event loop. A compress *)
(* call awaits the session's messages, then the protected tool output, and *)
(* only then commits; a command awaits the messages. Several calls  *)
(* of one assistant message may run at the same time.                      *)
(*                                                                         *)
(* A message is a number, in the order the host created it; its reference  *)
(* stands for it, as a reference is never given twice while the numbering  *)
(* lives. A boundary bN of a range stands for the anchor of that block:    *)
(* the block is in the selection either way. Ignored messages, topics,     *)
(* token counts, durations and the text of summaries are left out; a block *)
(* is created later than the blocks with smaller ids (the clock does not   *)
(* step back).                                                             *)
(***************************************************************************)
EXTENDS Integers, Sequences, FiniteSets, SequencesExt

CONSTANTS
  MaxMsg,      \* bound: messages the host ever creates
  MaxBlocks,   \* bound: blocks the calls ever create
  Calls,       \* compress calls that may run at the same time
  MaxEntries,  \* bound: entries of one compress call
  Modes        \* config.compress.mode as a host switches it: "range", "message"

ASSUME PluginBoundsAssumption ==
  /\ MaxMsg \in Nat \ {0} /\ MaxBlocks \in Nat
  /\ MaxEntries \in Nat \ {0}
  /\ Modes \subseteq {"range", "message"}

Msg      == 1..MaxMsg
BlockIds == 1..MaxBlocks
NoBlock  == 0

\* CompressionBlock.
Block == [run : Nat, mode : {"range", "message"}, origin : Msg, anchor : Msg,
          consumed : SUBSET BlockIds, effective : SUBSET Msg,
          active : BOOLEAN, byUser : BOOLEAN]

\* A prepared plan: the selection, the anchor and the blocks to be consumed.
Plan == [msgs : SUBSET Msg, anchor : Msg, consumed : SUBSET BlockIds]

EmptyFcn == [x \in {} |-> x]
NoEntry  == [all |-> {}, active |-> {}]

VARIABLES
  list,      \* the host's list of messages
  newest,    \* the last number the host used
  prune,     \* state.prune.messages: a PruneMessagesState
  calls,     \* the compress calls that run
  command,   \* the slash command that awaits the session's messages
  present    \* history: blocks whose origin the last look at a list found

hostVars == <<list, newest>>
vars == <<hostVars, prune, calls, command, present>>

Created == DOMAIN prune.blocks
Idle    == [phase |-> "idle"]

TypeOK ==
  /\ list \subseteq 1..newest /\ newest \in 0..MaxMsg
  /\ Created = 1..(prune.nextBlock - 1) /\ Created \subseteq BlockIds
  /\ prune.blocks \in [Created -> Block]
  /\ prune.active \subseteq Created
  /\ prune.byAnchor \in [DOMAIN prune.byAnchor -> Created]
  /\ DOMAIN prune.byMessage \subseteq Msg
  /\ \A m \in DOMAIN prune.byMessage :
       prune.byMessage[m] \in [all : SUBSET Created, active : SUBSET Created]
  /\ prune.nextRun \in Nat \ {0}
  /\ \A c \in Calls : calls[c].phase \in {"idle", "fetched", "planned"}
  /\ command.phase \in {"idle", "fetched"}
  /\ present \subseteq Created

Init ==
  /\ list = {} /\ newest = 0
  /\ prune = [blocks |-> EmptyFcn, active |-> {}, byAnchor |-> EmptyFcn,
              byMessage |-> EmptyFcn, nextBlock |-> 1, nextRun |-> 1]
  /\ calls = [c \in Calls |-> Idle]
  /\ command = Idle
  /\ present = {}

----------------------------------------------------------------------------
(***************************************************************************)
(* syncCompressionBlocks: rebuild who is active from a list of messages.   *)
(***************************************************************************)
EraseKeys(f, ks) == [k \in DOMAIN f \ ks |-> f[k]]
Put(f, k, v)     == [x \in DOMAIN f \cup {k} |-> IF x = k THEN v ELSE f[x]]

SyncIgnoringConsumed(s, b, snap) ==   \* variant: consumed blocks stay active
  IF s.blocks[b].origin \notin snap \/ s.blocks[b].byUser
  THEN [s EXCEPT !.blocks[b].active = FALSE]
  ELSE [s EXCEPT !.blocks[b].active = TRUE, !.active = @ \cup {b},
                 !.byAnchor = Put(@, s.blocks[b].anchor, b)]

SyncWithoutAnchors(s, b, snap) ==   \* variant: anchors are left to the commit
  LET block == s.blocks[b]
      gone  == block.consumed \cap s.active
      alive == block.origin \in snap /\ ~block.byUser
  IN  [s EXCEPT !.blocks = [k \in DOMAIN @ |->
                   [@[k] EXCEPT !.active = (k = b /\ alive) \/ (s.blocks[k].active /\ k # b
                                            /\ ~(alive /\ k \in gone))]],
                !.active = IF alive THEN (@ \ gone) \cup {b} ELSE @]

\* One round of the loop over the blocks in the order of their creation.
SyncBlock(s, b, snap) ==
  LET block  == s.blocks[b]
      folded == block.consumed \cap s.active
  IN  IF block.origin \notin snap \/ block.byUser
      THEN [s EXCEPT !.blocks[b].active = FALSE]
      ELSE [s EXCEPT
             !.blocks = [k \in DOMAIN @ |->
                           IF k = b THEN [@[k] EXCEPT !.active = TRUE]
                           ELSE IF k \in folded THEN [@[k] EXCEPT !.active = FALSE]
                           ELSE @[k]],
             !.active = (@ \ folded) \cup {b},
             !.byAnchor =
               LET rest == EraseKeys(@, {a \in DOMAIN @ : @[a] \in folded})
               IN  IF block.anchor \in snap THEN Put(rest, block.anchor, b) ELSE rest]

RefreshNarrowing(s) ==   \* variant: a block that returns hides nothing
  [s EXCEPT !.byMessage =
     [m \in DOMAIN @ |-> [all |-> @[m].all, active |-> @[m].active \cap s.active]]]

RefreshNothing(s) == s   \* variant: the entries keep what the commits wrote

\* The entries of the messages follow the new set of active blocks.
RefreshEntries(s) ==
  [s EXCEPT !.byMessage =
     [m \in DOMAIN @ |-> [all |-> @[m].all, active |-> @[m].all \cap s.active]]]

\* The loop, round by round: nobody is active before the first block.
SyncRounds(s, snap) ==
  LET loop[b \in 0..(s.nextBlock - 1)] ==
        IF b = 0 THEN [s EXCEPT !.active = {}, !.byAnchor = EmptyFcn]
                 ELSE SyncBlock(loop[b - 1], b, snap)
  IN  loop

Sync(s, snap) == RefreshEntries(SyncRounds(s, snap)[s.nextBlock - 1])

Found(s, snap) == {b \in DOMAIN s.blocks : s.blocks[b].origin \in snap}

----------------------------------------------------------------------------
(***************************************************************************)
(* Resolving the entries of a call against the list it fetched and the     *)
(* blocks active at that moment.                                           *)
(***************************************************************************)
Between(snap, lo, hi) == {m \in snap : lo <= m /\ m <= hi}

\* Blocks with their anchor in a selection; by mention, as a boundary or
\* appended as missing, the new summary carries every one of them.
Required(msgs) == {b \in Created : prune.blocks[b].active /\ prune.blocks[b].anchor \in msgs}

RangePlan(snap, lo, hi) ==
  LET msgs == Between(snap, lo, hi)
  IN  [msgs |-> msgs, anchor |-> lo, consumed |-> Required(msgs)]

Disjoint(plans) ==
  \A i, j \in DOMAIN plans : i # j => plans[i].msgs \cap plans[j].msgs = {}

BoundedSeqs(S) == UNION {[1..n -> S] : n \in 1..MaxEntries}

RangePlans(snap) ==
  LET ordered == {r \in snap \X snap : r[1] <= r[2]}
  IN  {plans \in BoundedSeqs({RangePlan(snap, r[1], r[2]) : r \in ordered}) :
         Disjoint(plans)}

\* Messages of the list no active block hides. An id spelled in another case
\* passes the duplicate check, so a message may come twice.
Uncompressed(snap) ==
  {m \in snap : m \notin DOMAIN prune.byMessage \/ prune.byMessage[m].active = {}}

MessagePlans(snap) ==
  BoundedSeqs({[msgs |-> {m}, anchor |-> m, consumed |-> {}] : m \in Uncompressed(snap)})

PlansOf(mode, snap) ==
  IF mode = "range" THEN RangePlans(snap) ELSE MessagePlans(snap)

----------------------------------------------------------------------------
(***************************************************************************)
(* applyCompressionState: commit one prepared plan.                        *)
(***************************************************************************)
EntryOf(s, m) == IF m \in DOMAIN s.byMessage THEN s.byMessage[m] ELSE NoEntry

Apply(s, origin, mode, plan) ==
  LET b         == s.nextBlock
      effective == plan.msgs \cup UNION {s.blocks[k].effective : k \in plan.consumed}
      folded    == {k \in plan.consumed : s.blocks[k].active}
      known     == plan.msgs \cup DOMAIN s.byMessage
      left(m)   == EntryOf(s, m).active
                     \ {k \in plan.consumed : m \in s.blocks[k].effective}
      entry(m)  == IF m \in effective
                   THEN [all |-> EntryOf(s, m).all \cup {b}, active |-> left(m) \cup {b}]
                   ELSE EntryOf(s, m)
      block     == [run |-> s.nextRun - 1, mode |-> mode, origin |-> origin,
                    anchor |-> plan.anchor, consumed |-> plan.consumed,
                    effective |-> effective,
                    active |-> TRUE, byUser |-> FALSE]
      before    == [k \in DOMAIN s.blocks |->
                      IF k \in folded THEN [s.blocks[k] EXCEPT !.active = FALSE]
                                      ELSE s.blocks[k]]
      anchors   == Put(s.byAnchor, plan.anchor, b)
  IN  [blocks    |-> Put(before, b, block),
       active    |-> (s.active \cup {b}) \ folded,
       byAnchor  |-> EraseKeys(anchors, {a \in DOMAIN anchors :
                        anchors[a] \in folded /\ s.blocks[anchors[a]].anchor = a}),
       byMessage |-> [m \in known |-> entry(m)],
       nextBlock |-> b + 1,
       nextRun   |-> s.nextRun]

ApplySameRun(origin, mode, plans) ==   \* variant: ids are handed out by the run
  [FoldLeft(LAMBDA s, plan : Apply(s, origin, mode, plan),
            [prune EXCEPT !.nextRun = @ + 1], plans) EXCEPT !.nextBlock = prune.nextBlock + 1]

\* allocateRunId, then the entries in the order the model wrote them.
ApplyRounds(origin, mode, plans) ==
  LET loop[i \in 0..Len(plans)] ==
        IF i = 0 THEN [prune EXCEPT !.nextRun = @ + 1]
                 ELSE Apply(loop[i - 1], origin, mode, plans[i])
  IN  loop

ApplyAll(origin, mode, plans) == ApplyRounds(origin, mode, plans)[Len(plans)]

----------------------------------------------------------------------------
(***************************************************************************)
(* The host: messages, and the revert that takes back the last ones. An    *)
(* assistant message waits for the calls of the one before it.             *)
(***************************************************************************)
Quiet == \A c \in Calls : calls[c].phase = "idle"

HostWrites ==
  /\ newest < MaxMsg
  /\ newest' = newest + 1
  /\ list' = list \cup {newest + 1}
  /\ UNCHANGED <<prune, calls, command, present>>

HostReverts ==
  /\ Quiet
  /\ \E m \in list : list' = {k \in list : k < m}
  /\ UNCHANGED <<newest, prune, calls, command, present>>

----------------------------------------------------------------------------
(***************************************************************************)
(* The compress tool: createCompressRangeTool, createCompressMessageTool.  *)
(***************************************************************************)
Running == {c \in Calls : calls[c].phase # "idle"}

\* The assistant message a call belongs to; calls in parallel share it.
OriginOf(m) ==
  IF Running = {} THEN \A k \in list : k <= m
                  ELSE \E c \in Running : calls[c].origin = m

\* prepareSession up to the answer of client.session.messages.
Fetch(c) ==
  /\ calls[c].phase = "idle"
  /\ prune.nextBlock <= MaxBlocks
  /\ \E m \in list :
       /\ OriginOf(m)
       /\ calls' = [calls EXCEPT ![c] =
                     [phase |-> "fetched", origin |-> m, snap |-> list]]
  /\ UNCHANGED <<hostVars, prune, command, present>>

\* buildSearchContext and the resolution of the entries, up to the await of
\* appendProtectedTools.
Resolve(c) ==
  /\ calls[c].phase = "fetched"
  /\ \E mode \in Modes : \E plans \in PlansOf(mode, calls[c].snap) :
       calls' = [calls EXCEPT ![c] =
         [phase |-> "planned", origin |-> @.origin, mode |-> mode, plans |-> plans]]
  /\ UNCHANGED <<hostVars, prune, command, present>>

\* A boundary, an overlap or a batch of skipped entries that throws.
Fail(c) ==
  /\ calls[c].phase = "fetched"
  /\ calls' = [calls EXCEPT ![c] = Idle]
  /\ UNCHANGED <<hostVars, prune, command, present>>

Commit(c) ==
  /\ calls[c].phase = "planned"
  /\ prune.nextBlock + Len(calls[c].plans) - 1 <= MaxBlocks
  /\ prune' = ApplyAll(calls[c].origin, calls[c].mode, calls[c].plans)
  /\ present' = present \cup (DOMAIN prune'.blocks \ Created)
  /\ calls' = [calls EXCEPT ![c] = Idle]
  /\ UNCHANGED <<hostVars, command>>

\* Past the bound on blocks a call ends without a commit.
Drop(c) ==
  /\ calls[c].phase = "planned"
  /\ prune.nextBlock + Len(calls[c].plans) - 1 > MaxBlocks
  /\ calls' = [calls EXCEPT ![c] = Idle]
  /\ UNCHANGED <<hostVars, prune, command, present>>

----------------------------------------------------------------------------
(***************************************************************************)
(* The slash commands.                                                     *)
(***************************************************************************)
\* Both await the session's messages first.
CommandFetch ==
  /\ command.phase = "idle"
  /\ Created # {} /\ list # {}
  /\ command' = [phase |-> "fetched", snap |-> list]
  /\ UNCHANGED <<hostVars, prune, calls, present>>

\* resolveCompressionTarget: the blocks of one run of the message mode go
\* together.
TargetOf(b) ==
  IF prune.blocks[b].mode = "range" THEN {b}
  ELSE {k \in Created : prune.blocks[k].mode = "message"
                        /\ prune.blocks[k].run = prune.blocks[b].run}

Flag(s, target, byUser) ==
  [s EXCEPT !.blocks = [k \in DOMAIN @ |->
     IF k \notin target THEN @[k]
     ELSE IF byUser THEN [@[k] EXCEPT !.active = FALSE, !.byUser = TRUE]
     ELSE [@[k] EXCEPT !.byUser = FALSE]]]

Decompress(b) ==
  /\ command.phase = "fetched" /\ b \in Created
  /\ LET synced == Sync(prune, command.snap)
         target == TargetOf(b)
     IN  prune' = IF \E k \in target : synced.blocks[k].active
                  THEN Sync(Flag(synced, target, TRUE), command.snap)
                  ELSE synced
  /\ present' = Found(prune, command.snap)
  /\ command' = Idle
  /\ UNCHANGED <<hostVars, calls>>

Recompress(b) ==
  /\ command.phase = "fetched" /\ b \in Created
  /\ LET synced == Sync(prune, command.snap)
         target == TargetOf(b)
     IN  prune' = IF /\ target \subseteq Found(prune, command.snap)
                     /\ \E k \in target : prune.blocks[k].byUser
                  THEN Sync(Flag(synced, target, FALSE), command.snap)
                  ELSE synced
  /\ present' = Found(prune, command.snap)
  /\ command' = Idle
  /\ UNCHANGED <<hostVars, calls>>

----------------------------------------------------------------------------
(***************************************************************************)
(* A request: syncCompressionBlocks, then filterCompressedRanges. The list *)
(* begins with a user message, so every summary finds one before it.       *)
(***************************************************************************)
Outgoing(s, snap) ==
  [raw |-> {m \in snap : EntryOf(s, m).active = {}},
   summaries |-> {s.byAnchor[a] : a \in DOMAIN s.byAnchor \cap snap}]

Transform ==
  /\ list # {}
  /\ prune' = Sync(prune, list)
  /\ present' = Found(prune, list)
  /\ UNCHANGED <<hostVars, calls, command>>

(***************************************************************************)
(* A restart: the first request loads the session, then synchronises. A    *)
(* call or command that died with the process left nothing behind, as if   *)
(* it had never been made, so restarts are looked at while none runs.      *)
(***************************************************************************)
\* loadPruneMessagesState: the two indexes are completed from the flags of the
\* blocks, in the order of their ids, and the counters moved past every id.
LoadPruneMessagesState(s) ==
  LET held       == DOMAIN s.blocks
      flagged    == {b \in held : s.blocks[b].active}
      anchors    == {s.blocks[b].anchor : b \in flagged}
      lastAt(a)  == Max({b \in flagged : s.blocks[b].anchor = a})
  IN  [blocks    |-> s.blocks,
       active    |-> s.active \cup flagged,
       byAnchor  |-> [a \in anchors \cup DOMAIN s.byAnchor |->
                        IF a \in anchors THEN lastAt(a) ELSE s.byAnchor[a]],
       byMessage |-> s.byMessage,
       nextBlock |-> Max({s.nextBlock} \cup {b + 1 : b \in held}),
       nextRun   |-> Max({s.nextRun} \cup {s.blocks[b].run + 1 : b \in held})]

\* Commits and commands save what they change (PluginSession has the writes, and
\* what becomes of them when the process ends); a request does not, so the flags
\* in the file may be older than those in memory. Sync erases them all first.
Reopen ==
  /\ Quiet /\ command.phase = "idle" /\ list # {}
  /\ prune' = Sync(LoadPruneMessagesState(prune), list)
  /\ present' = Found(prune, list)
  /\ UNCHANGED <<hostVars, calls, command>>

Next ==
  \/ HostWrites \/ HostReverts
  \/ \E c \in Calls : Fetch(c) \/ Resolve(c) \/ Fail(c) \/ Commit(c) \/ Drop(c)
  \/ CommandFetch
  \/ \E b \in BlockIds : Decompress(b) \/ Recompress(b)
  \/ Transform \/ Reopen

Spec == Init /\ [][Next]_vars

----------------------------------------------------------------------------
(***************************************************************************)
(* Properties.                                                             *)
(***************************************************************************)
\* The three indexes of active blocks (the set, the entry of each message, the
\* anchors) agree with the flags of the blocks, whichever of the commit, the
\* synchronisation and the commands wrote them last.
IndexesAgree ==
  /\ prune.active = {b \in Created : prune.blocks[b].active}
  /\ \A m \in DOMAIN prune.byMessage :
       prune.byMessage[m].active = prune.byMessage[m].all \cap prune.active
  /\ \A a \in DOMAIN prune.byAnchor :
       prune.byAnchor[a] \in prune.active /\ prune.blocks[prune.byAnchor[a]].anchor = a

\* A block that is active hides every message it stands for, those of the blocks
\* it consumed included, also after some of these were consumed by a parallel
\* call, decompressed or brought back by a revert.
FoldedStaysHidden ==
  \A b \in prune.active :
    prune.blocks[b].effective \cap Outgoing(prune, list).raw = {}

\* Who is active, by commits on state that parallel handlers have changed, is who
\* the rule of the synchronisation says: blocks whose origin was found and the
\* user has not restored, but for those another such block consumed.
ActiveIsDerived ==
  LET alive == {b \in present : ~prune.blocks[b].byUser}
  IN  prune.active = alive \ UNION {prune.blocks[b].consumed : b \in alive}

\* The summary of an active block goes out with every request that has its
\* anchor, the first one after a restart included, unless another block was
\* anchored at the same message.
SummaryGoesOut ==
  [][Transform \/ Reopen =>
       \A b \in prune'.active :
         LET a == prune.blocks[b].anchor
         IN  a \in list => \/ b \in Outgoing(prune', list).summaries
                          \/ \E k \in Created \ {b} : prune.blocks[k].anchor = a]_vars
=============================================================================
