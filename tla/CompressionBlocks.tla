------------------------- MODULE CompressionBlocks -------------------------
(***************************************************************************)
(* The compression-block life cycle of one ContextPruner session: message  *)
(* references, the compress tool in range and message mode, decompress,    *)
(* recompress, compaction detection, reset, and the list of messages the   *)
(* transform sends out (dcp-compress, dcp-state, dcp-core).                *)
(*                                                                         *)
(* A host message is a number and the numbers follow the order in which    *)
(* the host created the messages, so a message list is a set: position     *)
(* order is number order, and the selection of a range is an interval.     *)
(* Text is abstracted to what the bookkeeping tells apart: which blocks a  *)
(* summary mentions and whether it came out larger than what it replaces.  *)
(***************************************************************************)
EXTENDS Integers, Sequences, FiniteSets

CONSTANTS
  MaxMsg,      \* bound: messages the host ever creates
  MaxRef,      \* MESSAGE_REF_MAX_INDEX, 9999 in the code
  MaxBlocks,   \* bound: blocks ever committed between two resets
  MaxRuns,     \* bound: run ids ever handed out between two resets
  MaxEntries,  \* bound: entries in the content of one compress call
  Unlisted,    \* messages that never get a reference: system, ignored, invalid
  Invalid,     \* those of them filter_valid_messages drops
  HostPasses,  \* the lists a host may hand to handle_compress: "session" (the
               \* raw messages) and/or "output" (what transform_messages last
               \* returned, as examples/04_custom_agent.rs does)
  EndKinds,    \* forms of reference the model uses for endId: "m", "b", "raw"
  Oversizes,   \* the values summary_tokens >= compressed_tokens may take
  LooseForms   \* sets of block numbers a summary may name in a form that
               \* parse_placeholders skips and inject_placeholder_expansions
               \* expands: {{block:b0}}, {{block:b+3}}

ASSUME BoundsAssumption ==
  /\ MaxMsg \in Nat /\ MaxRef \in Nat /\ MaxBlocks \in Nat
  /\ MaxRuns \in Nat /\ MaxEntries \in Nat

ASSUME InputAssumption ==
  /\ Unlisted \subseteq 1..MaxMsg
  /\ Invalid \subseteq Unlisted
  /\ HostPasses \subseteq {"session", "output"}
  /\ EndKinds \subseteq {"m", "b", "raw"}
  /\ Oversizes \subseteq BOOLEAN
  /\ LooseForms \subseteq SUBSET Nat

Msg      == 1..MaxMsg
RefNums  == 1..MaxRef
BlockIds == 1..MaxBlocks
NoBlock  == 0                  \* Option::None; BlockId(0) is never allocated

\* MessageRef: "m0001", "b1", or a raw id that parses as neither.
Refs == [kind : {"m"}, n : RefNums] \cup [kind : {"b"}, n : BlockIds]
          \cup [kind : {"raw"}, n : Msg]
NoRef == [kind |-> "none", n |-> 0]

\* What CompressionBlock keeps and the properties tell apart; "holds" is the
\* set of blocks whose summary text is inside this block's summary.
Block == [run : Nat, anchor : Msg, direct : SUBSET Msg, effective : SUBSET Msg,
          consumed : SUBSET BlockIds, included : SUBSET BlockIds,
          holds : SUBSET BlockIds, parents : SUBSET BlockIds,
          active : BOOLEAN, deactivated_by_user : BOOLEAN,
          deactivated_by : BlockIds \cup {NoBlock}]

\* A resolved entry of a compress call, waiting to be committed.
Plan == [anchor : Msg, direct : SUBSET Msg, required : SUBSET BlockIds,
         mentioned : SUBSET BlockIds, loose : SUBSET Nat,
         end : Refs, oversized : BOOLEAN]

VARIABLES
  messages,                     \* the host's current message list
  newest,                       \* the last message number the host used
  shown,                        \* ids the last transform_messages returned
  by_raw_id, by_ref, next_ref,  \* MessageIdState
  blocks_by_id, active_block_ids, active_by_anchor_message_id,
  next_block_id, next_run_id, frontier_message_ref,
  call                          \* the compress call being executed

hostVars  == <<messages, newest>>
refVars   == <<by_raw_id, by_ref, next_ref>>
blockVars == <<blocks_by_id, active_block_ids, active_by_anchor_message_id>>
allocVars == <<next_block_id, next_run_id, frontier_message_ref>>
vars      == <<hostVars, shown, refVars, blockVars, allocVars, call>>

NoCall == [run |-> 0, todo |-> <<>>]
Idle   == call = NoCall

EmptyFcn == [x \in {} |-> x]

\* f maps some members of S into T.
IsPartialFcn(f, S, T) == DOMAIN f \subseteq S /\ f \in [DOMAIN f -> T]

TypeOK ==
  /\ messages \subseteq Msg
  /\ newest \in 0..MaxMsg
  /\ shown \subseteq Msg
  /\ IsPartialFcn(by_raw_id, Msg, RefNums)
  /\ IsPartialFcn(by_ref, RefNums, Msg)
  /\ next_ref \in 0..(MaxRef + 1)
  /\ IsPartialFcn(blocks_by_id, BlockIds, Block)
  /\ active_block_ids \subseteq BlockIds
  /\ IsPartialFcn(active_by_anchor_message_id, Msg, BlockIds)
  /\ next_block_id \in 0..(MaxBlocks + 1)
  /\ next_run_id \in 0..(MaxRuns + 1)
  /\ frontier_message_ref \in Refs \cup {NoRef}
  /\ call \in [run : 0..MaxRuns, todo : Seq(Plan)]

Init ==
  /\ messages = {}
  /\ newest = 0
  /\ shown = {}
  /\ by_raw_id = EmptyFcn
  /\ by_ref = EmptyFcn
  /\ next_ref = 0
  /\ blocks_by_id = EmptyFcn
  /\ active_block_ids = {}
  /\ active_by_anchor_message_id = EmptyFcn
  /\ next_block_id = 0
  /\ next_run_id = 0
  /\ frontier_message_ref = NoRef
  /\ call = NoCall

----------------------------------------------------------------------------
(***************************************************************************)
(* The host. It appends messages, elides the oldest (its own compaction)   *)
(* and reverts the newest.                                                 *)
(***************************************************************************)
HostAppend ==
  /\ Idle
  /\ newest < MaxMsg
  /\ newest' = newest + 1
  /\ messages' = messages \cup {newest + 1}
  /\ UNCHANGED <<shown, refVars, blockVars, allocVars, call>>

HostElide ==
  /\ Idle
  /\ \E m \in messages : messages' = {x \in messages : x > m}
  /\ UNCHANGED <<newest, shown, refVars, blockVars, allocVars, call>>

HostRevert ==
  /\ Idle
  /\ \E m \in messages : messages' = {x \in messages : x < m}
  /\ UNCHANGED <<newest, shown, refVars, blockVars, allocVars, call>>

----------------------------------------------------------------------------
(***************************************************************************)
(* transform_messages: compaction detection, reference allocation, and     *)
(* the outgoing list.                                                      *)
(***************************************************************************)

\* The ids detect_compaction calls recent: the last three references.
RecentWindow == 3
Recent == {by_ref[r] : r \in {q \in DOMAIN by_ref :
                 Cardinality({p \in DOMAIN by_ref : p > q}) < RecentWindow}}

CompactionDetected ==
  /\ DOMAIN by_raw_id # {}
  /\ Recent \cap messages = {}

Earliest(S) == CHOOSE x \in S : \A y \in S : x <= y
Latest(S)   == CHOOSE x \in S : \A y \in S : x >= y

PromoteNothing(n) == n   \* variant: block 0 is handed out

\* The allocators treat 0 as "not yet initialised" and start at 1.
Promote(n) == IF n = 0 THEN 1 ELSE n

WaitingAll(kept) == messages \ Unlisted   \* variant: numbers a message again

\* The messages assign_message_refs numbers when "kept" already have a number.
\* Nothing in the workspace sets is_subagent, so its extra skip never applies.
Waiting(kept) == messages \ (Unlisted \cup kept)

NumberFromNewest(queue, start, m) ==   \* variant: walks the list backwards
  start + Cardinality({x \in queue : x > m})

\* The number message m gets when numbering starts at "start".
Number(queue, start, m) == start + Cardinality({x \in queue : x < m})

\* assign_message_refs when the messages "kept" hold the references "keptRefs"
\* and numbering goes on at "start"; it stops silently once MaxRef is passed.
AssignRefs(kept, keptRefs, start) ==
  LET queue == Waiting(kept)
      given == {m \in queue : Number(queue, start, m) <= MaxRef}
  IN  /\ by_raw_id' = [m \in kept \cup given |->
                         IF m \in given THEN Number(queue, start, m)
                                        ELSE by_raw_id[m]]
      /\ by_ref' = [r \in keptRefs \cup {Number(queue, start, m) : m \in given} |->
                      IF \E m \in given : Number(queue, start, m) = r
                      THEN CHOOSE m \in given : Number(queue, start, m) = r
                      ELSE by_ref[r]]
      /\ next_ref' = start + Cardinality(given)

\* filter_compressed_ranges: the ids dropped because an active block covers
\* them directly.
Hidden == UNION {blocks_by_id[b].direct \ {blocks_by_id[b].anchor} :
                   b \in active_block_ids}

\* A transform that finds the session as it left it.
Transform ==
  /\ Idle
  /\ ~CompactionDetected
  /\ AssignRefs(DOMAIN by_raw_id, DOMAIN by_ref, Promote(next_ref))
  /\ shown' = (messages \ Invalid) \ Hidden
  /\ UNCHANGED <<hostVars, blockVars, allocVars, call>>

\* A transform that detects a compaction: reset_on_compaction_at first.
TransformAfterCompaction ==
  /\ Idle
  /\ CompactionDetected
  /\ blocks_by_id' = [b \in DOMAIN blocks_by_id |->
       IF b \in active_block_ids
       THEN [blocks_by_id[b] EXCEPT !.active = FALSE, !.deactivated_by = NoBlock]
       ELSE blocks_by_id[b]]
  /\ active_block_ids' = {}
  /\ active_by_anchor_message_id' = EmptyFcn
  /\ AssignRefs({}, {}, 1)
  /\ shown' = messages \ Invalid
  /\ UNCHANGED <<hostVars, allocVars, call>>

----------------------------------------------------------------------------
(***************************************************************************)
(* The compress tool.  A call validates all its entries against the state  *)
(* it finds (a rejected call changes nothing, so it is no step here), then *)
(* takes a run id and commits the entries one by one.  handle_compress     *)
(* holds &mut SessionState throughout, so nothing else moves until the     *)
(* call is over.                                                           *)
(***************************************************************************)

\* The list handle_compress is given.
View(host) == IF host = "session" THEN messages ELSE shown

\* resolve_ref_to_raw: does reference r stand for message m?
Resolves(r, m) ==
  \/ r.kind = "raw" /\ r.n = m /\ m \in DOMAIN by_raw_id
  \/ r.kind = "m" /\ r.n \in DOMAIN by_ref /\ by_ref[r.n] = m
  \/ /\ r.kind = "b" /\ r.n \in DOMAIN blocks_by_id
     /\ blocks_by_id[r.n].active /\ blocks_by_id[r.n].anchor = m

Named(m) == \E r \in Refs : Resolves(r, m)

\* resolve_range on the interval s..e of the list: the blocks anchored inside
\* are consumed, every other selected message is direct.
Selection(view, s, e)  == {m \in view : s <= m /\ m <= e}
ConsumedAnchors(sel)   == sel \cap DOMAIN active_by_anchor_message_id
RequiredBlocks(sel)    == {active_by_anchor_message_id[a] : a \in ConsumedAnchors(sel)}
DirectMessages(sel)    == sel \ ConsumedAnchors(sel)
AnchorOf(sel, s)       == IF DirectMessages(sel) = {} THEN s
                                                     ELSE Earliest(DirectMessages(sel))

\* The entries that pass resolve_range, check_range_entry and
\* validate_placeholders: what is mentioned must be required.
RangePlans(view) ==
  UNION {LET sel == Selection(view, se[1], se[2])
         IN  {[anchor |-> AnchorOf(sel, se[1]), direct |-> DirectMessages(sel),
               required |-> RequiredBlocks(sel), mentioned |-> mentioned,
               loose |-> loose, end |-> end, oversized |-> oversized] :
                 mentioned \in SUBSET RequiredBlocks(sel),
                 loose \in LooseForms,
                 end \in {r \in Refs : r.kind \in EndKinds /\ Resolves(r, se[2])},
                 oversized \in Oversizes} :
         se \in {x \in view \X view : x[1] <= x[2] /\ Named(x[1]) /\ Named(x[2])}}

\* The entries handle_message accepts: a referenced message that no active
\* block is anchored at or covers directly.
MessagePlans(view) ==
  {[anchor |-> by_ref[r], direct |-> {by_ref[r]}, required |-> {},
    mentioned |-> {}, loose |-> {}, end |-> [kind |-> "m", n |-> r],
    oversized |-> oversized] :
      r \in {q \in DOMAIN by_ref :
              /\ by_ref[q] \in view \ DOMAIN active_by_anchor_message_id
              /\ \A b \in DOMAIN blocks_by_id :
                   blocks_by_id[b].active => by_ref[q] \notin blocks_by_id[b].direct},
      oversized \in Oversizes}

\* allocate_run_id, and the entries that are now to be committed.
StartCall(plans) ==
  /\ Idle
  /\ Promote(next_run_id) <= MaxRuns
  /\ Promote(next_block_id) + Len(plans) - 1 <= MaxBlocks
  /\ call' = [run |-> Promote(next_run_id), todo |-> plans]
  /\ next_run_id' = Promote(next_run_id) + 1
  /\ UNCHANGED <<hostVars, shown, refVars, blockVars, next_block_id,
                 frontier_message_ref>>

\* Phases A and B of handle_range: ranges may share consumed blocks, never a
\* direct message (validate_non_overlapping).
CompressRange ==
  \E host \in HostPasses, n \in 1..MaxEntries :
    \E plans \in [1..n -> RangePlans(View(host))] :
      /\ \A i, j \in 1..n : i # j => plans[i].direct \cap plans[j].direct = {}
      /\ StartCall(plans)

\* The validation loop of handle_message; validate_topic_and_content has
\* refused an id that occurs twice.
CompressMessage ==
  \E host \in HostPasses, n \in 1..MaxEntries :
    \E plans \in [1..n -> MessagePlans(View(host))] :
      /\ \A i, j \in 1..n : i # j => plans[i].anchor # plans[j].anchor
      /\ StartCall(plans)

\* inject_placeholder_expansions fails on a number no block has.
Expandable(plan) == plan.loose \subseteq DOMAIN blocks_by_id

InlinedMentions(plan) ==   \* variant: appends no missing summary
  plan.mentioned \cup plan.loose

\* The blocks whose summary the placeholders expand to or
\* append_missing_block_summaries adds.
Inlined(plan) == plan.mentioned \cup plan.loose \cup (plan.required \ plan.mentioned)

\* compute_effective and compute_included: one level down is enough because the
\* blocks below did the same.
Effective(direct, required) ==
  direct \cup UNION {blocks_by_id[c].effective : c \in required}
IncludedDirectly(required) == required   \* variant: forgets the blocks below
Included(required) ==
  required \cup UNION {blocks_by_id[c].included : c \in required}

\* The block a plan becomes.
BlockOf(plan, run, id) ==
  [run |-> run, anchor |-> plan.anchor, direct |-> plan.direct,
   effective |-> Effective(plan.direct, plan.required),
   consumed |-> plan.required,
   included |-> Included(plan.required),
   holds |-> {id} \cup UNION {blocks_by_id[c].holds : c \in Inlined(plan)},
   parents |-> {}, active |-> TRUE, deactivated_by_user |-> FALSE,
   deactivated_by |-> NoBlock]

ConsumedStillActive(block, id) ==   \* variant: forgets the active flag
  [block EXCEPT !.deactivated_by = id, !.parents = @ \cup {id}]

ParentOverwritten(block, id) ==   \* variant: the last parent replaces the others
  [block EXCEPT !.active = FALSE, !.deactivated_by = id, !.parents = {id}]

\* What commit_block does to a block the new block id consumes.
Consumed(block, id) ==
  [block EXCEPT !.active = FALSE, !.deactivated_by = id, !.parents = @ \cup {id}]

AnchorsRegistered(plan, id) ==   \* variant: leaves the consumed entries behind
  [a \in DOMAIN active_by_anchor_message_id \cup {plan.anchor} |->
     IF a = plan.anchor THEN id ELSE active_by_anchor_message_id[a]]

\* The anchor lookup once id is registered and the consumed blocks' entries are
\* removed, unless id has just taken their place.
AnchorsAfter(plan, id) ==
  LET registered == [a \in DOMAIN active_by_anchor_message_id \cup {plan.anchor} |->
                       IF a = plan.anchor THEN id ELSE active_by_anchor_message_id[a]]
      stale == {blocks_by_id[c].anchor : c \in
                  {d \in plan.required : /\ blocks_by_id[d].anchor \in DOMAIN registered
                                        /\ registered[blocks_by_id[d].anchor] = d}}
  IN  [a \in DOMAIN registered \ stale |-> registered[a]]

\* ref_lt: block references sort after message references.
RefLt(a, b) ==
  \/ a.kind = b.kind /\ a.n < b.n
  \/ a.kind = "m" /\ b.kind = "b"

\* maybe_advance_frontier: only an oversized summary moves it, only forward,
\* and never to a raw id.
FrontierAfter(plan) ==
  IF /\ plan.oversized
     /\ plan.end.kind # "raw"
     /\ frontier_message_ref = NoRef \/ RefLt(frontier_message_ref, plan.end)
  THEN plan.end ELSE frontier_message_ref

\* One pass of the commit loop: allocate_block_id, commit_block,
\* maybe_advance_frontier.
CommitEntry ==
  /\ call.todo # <<>>
  /\ LET plan == Head(call.todo)
         id   == Promote(next_block_id)
     IN  /\ Expandable(plan)
         /\ blocks_by_id' = [b \in DOMAIN blocks_by_id \cup {id} |->
              IF b = id THEN BlockOf(plan, call.run, id)
              ELSE IF b \in plan.required THEN Consumed(blocks_by_id[b], id)
              ELSE blocks_by_id[b]]
         /\ active_block_ids' = (active_block_ids \cup {id}) \ plan.required
         /\ active_by_anchor_message_id' = AnchorsAfter(plan, id)
         /\ next_block_id' = id + 1
         /\ frontier_message_ref' = FrontierAfter(plan)
  /\ call' = IF Len(call.todo) = 1 THEN NoCall
                                   ELSE [call EXCEPT !.todo = Tail(@)]
  /\ UNCHANGED <<hostVars, shown, refVars, next_run_id>>

\* The `?` on inject_placeholder_expansions inside the loop.
FailEntry ==
  /\ call.todo # <<>>
  /\ ~Expandable(Head(call.todo))
  /\ call' = NoCall
  /\ UNCHANGED <<hostVars, shown, refVars, blockVars, allocVars>>

----------------------------------------------------------------------------
(***************************************************************************)
(* The slash commands and reset().                                         *)
(***************************************************************************)
Decompress(b) ==
  /\ Idle
  /\ blocks_by_id[b].active
  /\ blocks_by_id' = [blocks_by_id EXCEPT ![b].active = FALSE,
                                          ![b].deactivated_by_user = TRUE]
  /\ active_block_ids' = active_block_ids \ {b}
  /\ active_by_anchor_message_id' =
       [a \in {x \in DOMAIN active_by_anchor_message_id :
                 ~(x = blocks_by_id[b].anchor /\ active_by_anchor_message_id[x] = b)} |->
          active_by_anchor_message_id[a]]
  /\ UNCHANGED <<hostVars, shown, refVars, allocVars, call>>

MayReturnUnlessActive(block) == ~block.active   \* variant: also a consumed block

\* Only a block the user decompressed comes back.
MayReturn(block) == ~block.active /\ block.deactivated_by_user

Recompress(b) ==
  /\ Idle
  /\ MayReturn(blocks_by_id[b])
  /\ blocks_by_id' = [blocks_by_id EXCEPT ![b].active = TRUE,
                                          ![b].deactivated_by_user = FALSE]
  /\ active_block_ids' = active_block_ids \cup {b}
  /\ active_by_anchor_message_id' =
       [a \in DOMAIN active_by_anchor_message_id \cup {blocks_by_id[b].anchor} |->
          IF a = blocks_by_id[b].anchor THEN b ELSE active_by_anchor_message_id[a]]
  /\ UNCHANGED <<hostVars, shown, refVars, allocVars, call>>

Reset ==
  /\ Idle
  /\ by_raw_id' = EmptyFcn
  /\ by_ref' = EmptyFcn
  /\ next_ref' = 0
  /\ blocks_by_id' = EmptyFcn
  /\ active_block_ids' = {}
  /\ active_by_anchor_message_id' = EmptyFcn
  /\ next_block_id' = 0
  /\ next_run_id' = 0
  /\ frontier_message_ref' = NoRef
  /\ UNCHANGED <<hostVars, shown, call>>

Host == HostAppend \/ HostElide \/ HostRevert

Next ==
  \/ Host
  \/ Transform
  \/ TransformAfterCompaction
  \/ CompressRange
  \/ CompressMessage
  \/ CommitEntry
  \/ FailEntry
  \/ \E b \in DOMAIN blocks_by_id : Decompress(b) \/ Recompress(b)
  \/ Reset

Spec == Init /\ [][Next]_vars

----------------------------------------------------------------------------
(***************************************************************************)
(* Properties.                                                             *)
(***************************************************************************)
Blocks == DOMAIN blocks_by_id

\* The set of active ids and the active flags of the blocks are two copies of
\* one fact, kept in step by commit_block, decompress, recompress and
\* reset_on_compaction_at.
ActiveIndexAgrees == active_block_ids = {b \in Blocks : blocks_by_id[b].active}

\* The anchor lookup only leads to active blocks that are anchored there, so
\* resolve_range never consumes a block that is not in force.
AnchorLookupSound ==
  \A a \in DOMAIN active_by_anchor_message_id :
    LET b == active_by_anchor_message_id[a]
    IN  b \in Blocks /\ blocks_by_id[b].active /\ blocks_by_id[b].anchor = a

\* Block ids are dense and every id is handed out once: a number below the
\* counter is a committed block, also after a call that failed half way.
IdsDense ==
  /\ Blocks = {b \in BlockIds : b < next_block_id}
  /\ \A b \in Blocks : blocks_by_id[b].run < next_run_id

\* Who consumed whom is told the same way from both ends, also when two entries of
\* a call consume the same block, the second after the first has put it out of
\* force: the blocks a block consumed name it as a parent, were committed before it,
\* and one that has a parent is out of force for good, never waiting to be
\* recompressed.
LineageConsistent ==
  \A b \in Blocks :
    /\ \A c \in blocks_by_id[b].consumed :
         c \in Blocks /\ c < b /\ b \in blocks_by_id[c].parents
    /\ \A p \in blocks_by_id[b].parents : p \in Blocks /\ b \in blocks_by_id[p].consumed
    /\ blocks_by_id[b].parents # {} =>
         /\ ~blocks_by_id[b].active
         /\ ~blocks_by_id[b].deactivated_by_user
         /\ blocks_by_id[b].deactivated_by \in blocks_by_id[b].parents

\* "Information is never silently lost" (placeholder.rs): the text of every
\* block folded into b, at any depth, is inside b's summary, whichever of
\* them the model mentioned.
SummaryCarriesIncluded ==
  \A b \in Blocks : blocks_by_id[b].included \subseteq blocks_by_id[b].holds

\* included_block_ids is the transitive closure of consumed_block_ids although
\* compute_included looks only one level down, and effective_message_ids are the
\* direct messages of everything in it.
IncludedIsClosure ==
  \A b \in Blocks :
    LET block == blocks_by_id[b]
    IN  /\ block.included =
             block.consumed \cup UNION {blocks_by_id[c].included : c \in block.consumed}
        /\ block.effective =
             block.direct \cup UNION {blocks_by_id[c].direct : c \in block.included}

\* "Blocks that were consumed by a parent stay consumed" (recompress).
ConsumedIsFinal ==
  [][\A b \in Blocks \cap Blocks' :
       blocks_by_id[b].parents # {} => ~blocks_by_id'[b].active]_vars

\* by_raw_id and by_ref are inverse to each other, and every reference handed
\* out is below the counter.
RefsInverse ==
  /\ \A m \in DOMAIN by_raw_id :
       by_raw_id[m] \in DOMAIN by_ref /\ by_ref[by_raw_id[m]] = m
  /\ \A r \in DOMAIN by_ref :
       r < next_ref /\ by_ref[r] \in DOMAIN by_raw_id /\ by_raw_id[by_ref[r]] = r

\* References follow the conversation: of two referenced messages the earlier
\* one has the smaller number, through elisions, reverts and the compactions
\* they are taken for. A range that is not inverted in m#### numbers is not
\* inverted in the list.
RefsChronological ==
  \A m, n \in DOMAIN by_raw_id : m < n => by_raw_id[m] < by_raw_id[n]

\* What rebuild_from_messages derives from the blocks of this session.
RebuiltActive    == {b \in Blocks : blocks_by_id[b].active}
RebuiltNextBlock == IF Blocks = {} THEN 1 ELSE Latest(Blocks) + 1
RebuiltNextRun   == IF Blocks = {} THEN 1
                    ELSE Latest({blocks_by_id[b].run : b \in Blocks}) + 1

\* "A SessionState whose pruning decisions match what an in-progress session
\* would have computed" (rebuild_from_messages): rebuilt from its own blocks a
\* session filters the same messages and goes on with the same block id. A
\* failed call leaves a gap in the run ids, so the run id may fall back.
RebuildAgrees ==
  /\ RebuiltActive = active_block_ids
  /\ RebuiltNextBlock = Promote(next_block_id)
  /\ RebuiltNextRun <= Promote(next_run_id)

\* Every block has one fate, and a step changes it only as BlockLedger allows:
\* folded and retired are final, off is not, and the heir of a folded block is a
\* later block.
StatusOf(block) ==
  IF block.active THEN "active"
  ELSE IF block.deactivated_by_user THEN "off"
  ELSE IF block.parents # {} THEN "folded" ELSE "retired"

Ledger == INSTANCE BlockLedger WITH
  Ids    <- BlockIds,
  status <- [b \in Blocks |-> StatusOf(blocks_by_id[b])],
  heir   <- [b \in Blocks |-> blocks_by_id[b].deactivated_by]

ImplementsLedger == Ledger!Spec

============================================================================
