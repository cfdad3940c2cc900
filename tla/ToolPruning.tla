---------------------------- MODULE ToolPruning ----------------------------
(***************************************************************************)
(* Tool calls in one ContextPruner session: the tool cache, the three      *)
(* pruning strategies, the cache-stability gate, the apply phase, and the  *)
(* expansion of compression blocks in the list that goes out (dcp-state,   *)
(* dcp-prune, dcp-core, dcp-compress).                                     *)
(*                                                                         *)
(* A message is a number, in the order the host created it, and carries at *)
(* most one tool part; a call id is the number of the message that makes   *)
(* the call. The tool cache is rebuilt from the list on every transform,   *)
(* so it is a set of operators here and no state. A transform sends out,   *)
(* per message, what is left of its tool part and of its text, in whose    *)
(* place a block's summary may stand.                                      *)
(***************************************************************************)
EXTENDS Integers, FiniteSets

CONSTANTS
  MaxMsg,          \* bound: messages the host ever creates
  MaxBlocks,       \* bound: compression blocks in force at a time
  Shapes,          \* what the host writes: "user", "text", "call", "text+call"
  Paths,           \* file paths
  Inputs,          \* canonical signatures of tool calls
  NoInput,         \* a message without a tool call
  PathsOf,         \* the paths a call's input names; none for an untracked tool
  DedupProtected,  \* signatures whose tool deduplicate, purge_errors and
  PurgeProtected,  \* stale_file_reads must leave alone
  StaleProtected,
  ProtectedPaths,  \* protectedFilePatterns
  PurgeTurns,      \* strategies.purgeErrors.turns
  Forms,           \* how summaries are wrapped, as config.compress has it at the time
  Modes            \* the values of cacheStabilityMode a host switches between

ASSUME BoundsAssumption == MaxMsg \in Nat /\ MaxBlocks \in Nat /\ PurgeTurns \in Nat

ASSUME InputAssumption ==
  /\ Shapes \subseteq {"user", "text", "call", "text+call"}
  /\ NoInput \notin Inputs
  /\ PathsOf \in [Inputs -> SUBSET Paths]
  /\ ProtectedPaths \subseteq Paths
  /\ DedupProtected \subseteq Inputs
  /\ PurgeProtected \subseteq Inputs
  /\ StaleProtected \subseteq Inputs
  /\ Modes \subseteq {"aggressive", "agent-message", "manual"} /\ Modes # {}
  /\ Forms \subseteq {"bare", "summary", "block"}

Msg == 1..MaxMsg
NoCall == 0

\* ToolStatus; pending and running are one value, no strategy tells them apart.
Statuses == {"running", "completed", "error"}

\* A message: a text, a call, or the result of a call.
Content == [role : {"user", "assistant"}, text : BOOLEAN,
            input : Inputs \cup {NoInput},
            of : Msg \cup {NoCall}, status : Statuses \cup {"none"}]

\* What goes out of a message: its own text, none, or what is left of a summary;
\* and its tool part whole, purged or not at all.
Outgoing == [text : {"own", "none", "summary", "blank", "empty"},
             tool : {"whole", "purged", "none"}]

\* A compression block in force: its anchor, its direct messages, and whether
\* its summary is bare (neither showCompression nor summaryBuffer), within
\* <dcp-summary> tags, or within <dcp-block> tags as well.
Block == [anchor : Msg, direct : SUBSET Msg, form : Forms]

VARIABLES
  messages,              \* the host's list: number -> content
  newest,                \* the last number the host used
  refd,                  \* messages that hold a reference
  tools,                 \* state.prune.tools: the calls decided on
  blocks,                \* the blocks in force
  cache_stability_mode,
  force_apply_requested,
  sent,                  \* what the last step sent out: number -> rendering
  reverted               \* history: the host took messages back that "tools"
                         \* may have been decided by

hostVars == <<messages, newest, reverted>>
vars     == <<hostVars, refd, tools, blocks, cache_stability_mode,
              force_apply_requested, sent>>

EmptyFcn == [x \in {} |-> x]
Listed   == DOMAIN messages

TypeOK ==
  /\ Listed \subseteq Msg /\ messages \in [Listed -> Content]
  /\ newest \in 0..MaxMsg
  /\ refd \subseteq Msg
  /\ tools \subseteq refd
  /\ blocks \subseteq Block
  /\ cache_stability_mode \in Modes
  /\ force_apply_requested \in BOOLEAN
  /\ DOMAIN sent \subseteq Msg /\ sent \in [DOMAIN sent -> Outgoing]
  /\ reverted \in BOOLEAN

Init ==
  /\ messages = EmptyFcn
  /\ newest = 0
  /\ refd = {}
  /\ tools = {}
  /\ blocks = {}
  /\ cache_stability_mode \in Modes
  /\ force_apply_requested = FALSE
  /\ sent = EmptyFcn
  /\ reverted = FALSE

----------------------------------------------------------------------------
(***************************************************************************)
(* The tool cache: what sync_tool_cache reads off the list.                *)
(***************************************************************************)
Calls == {c \in Listed : messages[c].input # NoInput}

\* The message r answers the call c; an answer whose call is gone is an orphan.
Answers(r, c) == messages[r].of = c

HasStatus(c, status) ==
  \E r \in Listed : Answers(r, c) /\ messages[r].status = status
Completed(c) == HasStatus(c, "completed")
Errored(c)   == HasStatus(c, "error")

\* The files a call touches, and those stale_file_reads may judge it by.
PathsIn(c) == PathsOf[messages[c].input]
Watched(c) == PathsIn(c) \ ProtectedPaths

\* count_turns_through on the part of the list that S holds: an assistant text
\* whose own call, if any, is answered within S ends a turn.
EndsTurn(a, S) ==
  /\ messages[a].role = "assistant"
  /\ messages[a].text
  /\ messages[a].input # NoInput => \E r \in S : Answers(r, a)
Turns(S) == Cardinality({a \in S : EndsTurn(a, S)})

AgeOfSession(c) == Turns(Listed)   \* variant: forgets when the call was made

\* current_turn minus the turn recorded when the call was made.
Age(c) == Turns(Listed) - Turns({m \in Listed : m < c})

----------------------------------------------------------------------------
(***************************************************************************)
(* The strategies.  Each skips the calls "done", decided on before.        *)
(***************************************************************************)
\* deduplicate: of the completed calls with one signature all but the last.
Duplicates(done) ==
  LET group == {c \in Calls \ done :
                  /\ Completed(c)
                  /\ messages[c].input \notin DedupProtected
                  /\ PathsIn(c) \cap ProtectedPaths = {}}
  IN  {c \in group : \E d \in group : d > c /\ messages[d].input = messages[c].input}

\* purge_errors: errored calls that are old enough; 0 turns count as 1.
OldErrors(done) ==
  {c \in Calls \ done :
     /\ Errored(c)
     /\ messages[c].input \notin PurgeProtected
     /\ Age(c) >= (IF PurgeTurns = 0 THEN 1 ELSE PurgeTurns)}

StaleReadsByAnyPath(done) ==   \* variant: forgets the keep set
  LET reads == {c \in Calls \ done :
                  Completed(c) /\ messages[c].input \notin StaleProtected}
  IN  {c \in reads : \E d \in reads : d > c /\ Watched(d) \cap Watched(c) # {}}

\* stale_file_reads: completed calls that are the latest for none of their
\* paths (the keep set), if they have any.
StaleReads(done) ==
  LET reads == {c \in Calls \ done :
                  Completed(c) /\ messages[c].input \notin StaleProtected}
  IN  {c \in reads :
         /\ Watched(c) # {}
         /\ \A p \in Watched(c) : \E d \in reads : d > c /\ p \in Watched(d)}

\* run_strategies, in its order, on top of the decisions "done".
Decide(done) ==
  LET deduplicated == done \cup Duplicates(done)
      purged       == deduplicated \cup OldErrors(deduplicated)
  IN  purged \cup StaleReads(purged)

----------------------------------------------------------------------------
(***************************************************************************)
(* The outgoing list.                                                      *)
(***************************************************************************)

\* The call a message's tool part belongs to.
CallOf(m) == IF messages[m].input # NoInput THEN m ELSE messages[m].of

PruneKindDropAll(c) == "none"   \* variant: forgets the recorded status

\* apply_prune: an errored call is purged, any other one is dropped, also one
\* the list no longer holds.
PruneKind(c) == IF c \in Calls /\ Errored(c) THEN "purged" ELSE "none"

\* apply_prune_to_messages: what is left of m's tool part.
ToolLeft(m, decided) ==
  IF CallOf(m) = NoCall THEN "none"
  ELSE IF CallOf(m) \in decided THEN PruneKind(CallOf(m)) ELSE "whole"

\* A message of which no part is left is dropped before blocks are expanded.
Applied(decided) == {m \in Listed : messages[m].text \/ ToolLeft(m, decided) # "none"}

\* filter_compressed_ranges with the blocks "inForce" on the applied list.
Covered(inForce) == UNION {b.direct \ {b.anchor} : b \in inForce}
ToolsOf(b) == {CallOf(m) : m \in b.direct \cap Listed}

\* strip_messages removes <dcp tags with all that is between them: of a summary
\* in one pair of tags nothing is left, of one in two a line break.
Stripped(form) ==
  CASE form = "bare" -> "summary" [] form = "summary" -> "empty" [] form = "block" -> "blank"

Render(decided, inForce) ==
  [m \in Applied(decided) \ Covered(inForce) |->
     LET anchored == {b \in inForce : b.anchor = m}
     IN  [text |-> IF anchored # {} THEN Stripped((CHOOSE b \in anchored : TRUE).form)
                   ELSE IF messages[m].text THEN "own" ELSE "none",
          tool |-> IF \E b \in anchored : CallOf(m) \in ToolsOf(b) THEN "none"
                   ELSE ToolLeft(m, decided)]]

\* is_last_assistant_text.
LastIsAssistantText ==
  \E m \in Listed :
    /\ \A x \in Listed : x <= m
    /\ messages[m].role = "assistant" /\ messages[m].text
    /\ messages[m].input = NoInput

\* should_apply_now.
GateOpen ==
  \/ force_apply_requested
  \/ cache_stability_mode = "aggressive"
  \/ cache_stability_mode = "agent-message" /\ LastIsAssistantText

\* detect_compaction: the three latest references are all gone from the list.
Recent == {m \in refd : Cardinality({x \in refd : x > m}) < 3}
CompactionDetected == refd # {} /\ Recent \cap Listed = {}

\* The decisions a transform starts from: reset_on_compaction_at drops them with
\* the references.
DecidedBefore == IF CompactionDetected THEN {} ELSE tools

\* transform_messages. With the gate closed the strategies decide as well, and
\* the list goes out as the host gave it.
Transform ==
  /\ UNCHANGED <<messages, newest, cache_stability_mode>>
  /\ force_apply_requested' = FALSE
  /\ blocks' = IF CompactionDetected THEN {} ELSE blocks
  /\ refd' = (IF CompactionDetected THEN {} ELSE refd) \cup Listed
  /\ reverted' = (reverted /\ ~CompactionDetected)
  /\ tools' = Decide(DecidedBefore)
  /\ sent' = Render(IF GateOpen THEN tools' ELSE {}, blocks')

----------------------------------------------------------------------------
(***************************************************************************)
(* The host.                                                               *)
(***************************************************************************)
NothingSent == sent' = EmptyFcn

HostAppend(content) ==
  /\ newest < MaxMsg
  /\ newest' = newest + 1
  /\ messages' = [m \in Listed \cup {newest + 1} |->
                    IF m = newest + 1 THEN content ELSE messages[m]]
  /\ NothingSent
  /\ UNCHANGED <<refd, tools, blocks, cache_stability_mode, force_apply_requested, reverted>>

\* A user prompt, or an assistant message with a text, a call or both. The
\* assistant goes on once its last call is answered, as model APIs demand.
HostSays ==
  \E shape \in Shapes, input \in Inputs :
    /\ shape # "user" => \A c \in Calls : \E r \in Listed : Answers(r, c)
    /\ HostAppend([role |-> IF shape = "user" THEN "user" ELSE "assistant",
                   text |-> shape # "call",
                   input |-> IF shape \in {"call", "text+call"} THEN input ELSE NoInput,
                   of |-> NoCall, status |-> "none"])

\* The one result of a call.
HostAnswers ==
  \E c \in Calls, status \in Statuses :
    /\ ~\E r \in Listed : Answers(r, c)
    /\ HostAppend([role |-> "user", text |-> FALSE, input |-> NoInput,
                   of |-> c, status |-> status])

\* A running call finishes: the host replaces the result in place.
HostFinishes ==
  \E r \in Listed, status \in {"completed", "error"} :
    /\ messages[r].status = "running"
    /\ messages' = [messages EXCEPT ![r].status = status]
    /\ NothingSent
    /\ UNCHANGED <<newest, refd, tools, blocks, cache_stability_mode,
                   force_apply_requested, reverted>>

KeepOnly(kept) ==
  /\ messages' = [x \in kept |-> messages[x]]
  /\ NothingSent
  /\ UNCHANGED <<newest, refd, tools, blocks, cache_stability_mode, force_apply_requested>>

HostElide ==
  /\ \E m \in Listed : KeepOnly({x \in Listed : x > m})
  /\ UNCHANGED reverted

HostRevert ==
  /\ \E m \in Listed : KeepOnly({x \in Listed : x < m})
  /\ reverted' = TRUE

----------------------------------------------------------------------------
(***************************************************************************)
(* The other calls a host makes.                                           *)
(***************************************************************************)

\* force_apply, which /dcp sweep calls too.
ForceApply ==
  /\ force_apply_requested' = TRUE
  /\ NothingSent
  /\ UNCHANGED <<hostVars, refd, tools, blocks, cache_stability_mode>>

UpdateConfig ==
  /\ cache_stability_mode' \in Modes
  /\ NothingSent
  /\ UNCHANGED <<hostVars, refd, tools, blocks, force_apply_requested>>

\* handle_compress for a range that touches no block in force; how blocks fold
\* into one another is the business of CompressionBlocks.
Compress ==
  /\ Cardinality(blocks) < MaxBlocks
  /\ \E s, e \in Listed \cap refd, form \in Forms :
       LET direct == {m \in Listed : s <= m /\ m <= e}
       IN  /\ s <= e
           /\ \A b \in blocks : direct \cap b.direct = {}
           /\ blocks' = blocks \cup {[anchor |-> s, direct |-> direct, form |-> form]}
  /\ NothingSent
  /\ UNCHANGED <<hostVars, refd, tools, cache_stability_mode, force_apply_requested>>

Decompress ==
  /\ \E b \in blocks : blocks' = blocks \ {b}
  /\ NothingSent
  /\ UNCHANGED <<hostVars, refd, tools, cache_stability_mode, force_apply_requested>>

Reset ==
  /\ refd' = {}
  /\ tools' = {}
  /\ blocks' = {}
  /\ force_apply_requested' = FALSE
  /\ reverted' = FALSE
  /\ NothingSent
  /\ UNCHANGED <<messages, newest, cache_stability_mode>>

Next ==
  \/ Transform
  \/ HostSays \/ HostAnswers \/ HostFinishes \/ HostElide \/ HostRevert
  \/ ForceApply \/ UpdateConfig
  \/ Compress \/ Decompress
  \/ Reset

Spec == Init /\ [][Next]_vars

----------------------------------------------------------------------------
(***************************************************************************)
(* Properties.                                                             *)
(***************************************************************************)

\* "Keeping only the most recent" (dcp-prune): a completed call is pruned only
\* while the list holds a later completed call, itself not pruned, for every file
\* it touched, or one with its signature if it touched none, however deduplicate
\* and stale_file_reads took turns. A host that takes messages back may take the
\* later call with them: tools is never reconsidered.
MostRecentKept ==
  ~reverted =>
    \A c \in tools \cap Calls :
      Completed(c) =>
        LET later == {d \in Calls \ tools : d > c /\ Completed(d)}
        IN  IF Watched(c) = {}
            THEN \E d \in later : messages[d].input = messages[c].input
            ELSE \A p \in Watched(c) : \E d \in later : p \in Watched(d)

\* "A SessionState whose pruning decisions match what an in-progress session
\* would have computed" (rebuild_from_messages): what a long session has decided
\* about the calls in the list, one transform after the other, is what a fresh
\* session decides from the list alone.
RebuildPrunesSame ==
  [][~reverted /\ Transform => tools' \cap Listed = Decide({})]_vars

\* "While keeping the error message" (purge_errors): the result of a failed call
\* goes out with the call, purged or whole, unless a block stands for it.
ErrorStaysVisible ==
  [][Transform =>
       \A c \in Calls, r \in Listed :
         /\ Answers(r, c) /\ messages[r].status = "error"
         /\ \A b \in blocks' : {c, r} \cap b.direct = {}
         => /\ c \in DOMAIN sent' /\ r \in DOMAIN sent'
            /\ sent'[c].tool # "none" /\ sent'[r].tool = sent'[c].tool]_vars

\* "The `<dcp-*>` tags it injected itself ... are part of the contract - keep
\* them" (strip_internal_metadata): where a block stands for messages that are
\* hidden, the model is shown its summary. The code breaks this: unless the
\* summary is bare, strip_messages removes it along with its tags.
SummaryReachesModel ==
  [][Transform =>
       \A b \in blocks' :
         b.anchor \in DOMAIN sent' => sent'[b.anchor].text = "summary"]_vars

============================================================================
