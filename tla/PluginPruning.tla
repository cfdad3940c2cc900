--------------------------- MODULE PluginPruning ---------------------------
(***************************************************************************)
(* The plugin's pruning of tool calls (opencode-dcp-plugin): the cache of  *)
(* what each call was, filled once per call and trimmed to a limit; the    *)
(* list of the calls a request sent; the two strategies that run when the  *)
(* model compresses, on the list and the cache of the last request; the    *)
(* sweep command, which may run while calls are still under way; and what  *)
(* a request then sends of each call.                                      *)
(*                                                                         *)
(* A call is a number, in the order of the transcript; a message is its    *)
(* kind, and keeps its number when the user takes it back. A block is the  *)
(* step that made it and the messages it hides: PluginBlocks models the    *)
(* blocks, PluginSession the saving and the switch of sessions.            *)
(***************************************************************************)
EXTENDS Integers, FiniteSets, Sequences, SequencesExt

CONSTANTS
  Kinds,            \* what calls do: pairs of the name of a tool and an input
  NoInput,          \* the empty input of a call that has not begun
  ProtectedParams,  \* inputs naming a file that protectedFilePatterns covers
  ProtectedTools,   \* per cause of pruning, the names its list of tools covers
  PurgeTurns,       \* strategies.purgeErrors.turns
  ProtectTurns,     \* values of turnProtection.turns, 0 when it is off
  Automatic,        \* manualMode.automaticStrategies
  MaxCache,         \* MAX_TOOL_CACHE_SIZE
  MaxMsgs, MaxCalls, MaxStep, \* bounds: messages, calls, calls of a step,
  MaxSweeps, MaxBlocks       \* sweeps, active blocks

Causes == {"duplicate", "error", "sweep"}
Ended == {"completed", "error"}

ASSUME PruningAssumption ==
  /\ \A kind \in Kinds : Len(kind) = 2 /\ kind[2] # NoInput
  /\ NoInput \notin ProtectedParams /\ DOMAIN ProtectedTools = Causes
  /\ PurgeTurns \in Nat /\ ProtectTurns \subseteq Nat
  /\ Automatic \in BOOLEAN
  /\ {MaxCache, MaxMsgs, MaxCalls, MaxStep, MaxSweeps, MaxBlocks} \subseteq Nat \ {0}

VARIABLES
  msgs,      \* the messages: "user", "step" or "summary" (a compaction)
  gone,      \* messages the user has taken back
  calls,     \* the calls: message, tool, input, status
  phase,     \* "idle"; "asked": a request is out; "step": its answer is under way
  blocks,    \* the active compression blocks
  state,     \* the plugin's memory of the session, see TypeOK
  seen,      \* history: calls the model was sent in full, or a sweep listed before that
  sweeps,    \* how many sweeps there were
  blind      \* history: calls cached, or swept, with their input unknown

vars == << msgs, gone, calls, phase, blocks, state, seen, sweeps, blind >>

Ids == DOMAIN calls
Transcript == DOMAIN msgs \ gone
----------------------------------------------------------------------------
\* What the plugin reads from the transcript.

\* Older than the last compaction, or under an active block.
IsMessageCompacted(m, compaction, hidden) == m < compaction \/ m \in hidden

\* step-start parts of the messages up to m that are not compacted.
CountTurns(m, compaction, hidden) ==
  Cardinality({i \in Transcript : /\ i <= m /\ msgs[i] # "user"
                                  /\ ~IsMessageCompacted(i, compaction, hidden)})

\* The last message of a kind, 0 if there is none.
FindLast(kind) ==
  SelectLastInSeq([i \in DOMAIN msgs |-> IF i \in gone THEN "gone" ELSE msgs[i]],
                  LAMBDA m : m = kind)

FindLastCompactionTimestamp == FindLast("summary")

BuildToolIdList(compaction, hidden) ==
  {c \in Ids : /\ calls[c].msg \in Transcript
               /\ ~IsMessageCompacted(calls[c].msg, compaction, hidden)}

\* The messages blocks hide.
Hidden(active) == {m \in DOMAIN msgs : \E b \in active : m <= b.upTo}

\* What a call shows of its input: nothing while it is pending.
Input(c) == IF calls[c].status = "pending" THEN NoInput ELSE calls[c].param

Entry(c, turn) ==
  [id |-> c, tool |-> calls[c].tool, param |-> Input(c), status |-> calls[c].status,
   turn |-> turn]

CachedIds(cache) == {e.id : e \in ToSet(cache)}

\* First in, first out.
TrimToolParametersCache(cache) ==
  SubSeq(cache, 1 + Len(cache) - (IF Len(cache) < MaxCache THEN Len(cache) ELSE MaxCache),
         Len(cache))

\* Calls in the order of the transcript.
InOrder(ids) ==
  CHOOSE order \in [1..Cardinality(ids) -> ids] :
    \A i, j \in DOMAIN order : i < j => order[i] < order[j]

\* Every listed call not yet cached, in order, unless its turn protects it.  An entry is
\* never refreshed; the turns are counted up to the call, against the last request's.
SyncToolCache(s, hidden) ==
  LET TurnOf(c) == CountTurns(calls[c].msg, s.lastCompaction, hidden)
      fresh == {c \in BuildToolIdList(s.lastCompaction, hidden) \ CachedIds(s.cache) :
                  ~(s.protect > 0 /\ s.currentTurn - TurnOf(c) < s.protect)}
      order == InOrder(fresh)
  IN [s EXCEPT !.cache = TrimToolParametersCache(
                @ \o [i \in DOMAIN order |-> Entry(order[i], TurnOf(order[i]))])]

\* By the name of the tool or by the files its input names, as they are cached.
IsProtected(e, cause) == e.tool \in ProtectedTools[cause] \/ e.param \in ProtectedParams

----------------------------------------------------------------------------
\* The strategies.

\* Entries a strategy looks at: listed, cached, not yet pruned, not protected.
Open(s, cause) ==
  {e \in ToSet(s.cache) : e.id \in s.toolIdList \ DOMAIN s.pruned /\ ~IsProtected(e, cause)}

\* The token count of prune.tools is replaced by the cause.
Mark(s, ids, cause) ==
  [s EXCEPT !.pruned =
     [c \in ids \cup DOMAIN @ |-> IF c \in ids THEN cause ELSE s.pruned[c]]]

SameSignature(e, f) == e.tool = f.tool /\ e.param = f.param

DeduplicateKeepFirst(s) ==  \* variant: the later calls go
  LET open == Open(s, "duplicate")
  IN Mark(s, {e.id : e \in {x \in open : \E f \in open : f.id < x.id /\ SameSignature(x, f)}},
          "duplicate")

\* Of every signature all calls but the last.
Deduplicate(s) ==
  LET open == Open(s, "duplicate")
  IN Mark(s, {e.id : e \in {x \in open : \E f \in open : f.id > x.id /\ SameSignature(x, f)}},
          "duplicate")

\* Calls cached as failed that are PurgeTurns, at least one, turns old.
PurgeErrors(s) ==
  Mark(s, {e.id : e \in {x \in Open(s, "error") :
            /\ x.status = "error"
            /\ s.currentTurn - x.turn >= (IF PurgeTurns > 1 THEN PurgeTurns ELSE 1)}}, "error")

PrepareSessionFresh(s, manualMode) ==  \* variant: list and cache are brought up to date first
  LET now == [SyncToolCache(s, Hidden(blocks))
              EXCEPT !.toolIdList = BuildToolIdList(s.lastCompaction, Hidden(blocks))]
  IN PurgeErrors(Deduplicate(now))

\* What the compress tool does before it looks at its arguments.
PrepareSession(s, manualMode) ==
  IF manualMode /\ ~Automatic THEN s ELSE PurgeErrors(Deduplicate(s))

----------------------------------------------------------------------------
\* Sweep.

LastOf(ids, n) == {c \in ids : Cardinality({d \in ids : d > c}) < n}

\* The last n calls, or those since the last user message: there always is one.
ToolIdsToSweep(s) ==
  {LastOf(s.toolIdList, n) : n \in 1..MaxCalls}
    \cup {{c \in s.toolIdList : calls[c].msg > FindLast("user")}}

SweepableCachedTool(s, ids) ==  \* variant: only the names of tools are looked at
  {c \in ids \ DOMAIN s.pruned :
     \A e \in ToSet(s.cache) : e.id = c => e.tool \notin ProtectedTools["sweep"]}

\* A call without an entry is swept whatever it is.
Sweepable(s, ids) ==
  {c \in ids \ DOMAIN s.pruned : \A e \in ToSet(s.cache) : e.id = c => ~IsProtected(e, "sweep")}

----------------------------------------------------------------------------
\* What a request sends.

\* Output of a completed call, input of a failed one, questions of a question.
Prune(c, pruned) ==
  IF c \notin DOMAIN pruned \/ calls[c].status \notin Ended THEN "full"
  ELSE IF calls[c].status = "error" THEN "no input"
  ELSE CASE calls[c].tool = "question" -> "no questions"
         [] calls[c].tool \in {"edit", "write"} -> "full"
         [] OTHER -> "no output"

\* A compaction seen for the first time forgets all but the list.
ResetOnCompaction(s) ==
  [s EXCEPT !.lastCompaction = FindLastCompactionTimestamp, !.cache = <<>>, !.pruned = <<>>]
----------------------------------------------------------------------------
Init ==
  /\ msgs = << "user" >> /\ gone = {} /\ calls = <<>> /\ phase = "idle" /\ blocks = {}
  /\ \E turns \in ProtectTurns :
       state = [cache |-> <<>>, toolIdList |-> {}, pruned |-> <<>>, currentTurn |-> 0,
                lastCompaction |-> 0, protect |-> turns]
  /\ seen = {} /\ sweeps = 0 /\ blind = {}

Quiet == \A c \in Ids : calls[c].status \in Ended

\* The host: a user's message, a compaction, the model's answer with its calls.
User ==
  /\ Len(msgs) < MaxMsgs /\ Quiet /\ phase = "step"
  /\ msgs' = Append(msgs, "user") /\ phase' = "idle"
  /\ UNCHANGED << gone, calls, blocks, state, seen, sweeps, blind >>

\* The user takes messages back and writes another; nothing tells the plugin.
Revert ==
  /\ Len(msgs) < MaxMsgs /\ Quiet /\ phase # "asked"
  /\ \E m \in Transcript \ {1} : gone' = gone \cup m..Len(msgs)
  /\ msgs' = Append(msgs, "user") /\ phase' = "idle"
  /\ UNCHANGED << calls, blocks, state, seen, sweeps, blind >>

Compaction ==
  /\ Len(msgs) < MaxMsgs /\ Quiet /\ phase = "step"
  /\ msgs' = Append(msgs, "summary") /\ phase' = "idle"
  /\ UNCHANGED << gone, calls, blocks, state, seen, sweeps, blind >>

Step ==
  /\ Len(msgs) < MaxMsgs /\ phase = "asked"
  /\ \E k \in {n \in 0..MaxStep : Len(calls) + n <= MaxCalls} :
       \E new \in [1..k -> Kinds] :
         calls' = calls \o [i \in 1..k |-> [msg |-> Len(msgs) + 1, tool |-> new[i][1],
                                            param |-> new[i][2], status |-> "pending"]]
  /\ msgs' = Append(msgs, "step") /\ phase' = "step"
  /\ UNCHANGED << gone, blocks, state, seen, sweeps, blind >>

\* A call gets its input and ends.
CallEnds ==
  /\ \E c \in Ids, status \in Ended :
       calls[c].status = "pending" /\ calls' = [calls EXCEPT ![c].status = status]
  /\ UNCHANGED << msgs, gone, phase, blocks, state, seen, sweeps, blind >>

\* Entries of cache that are new and do not know their call's input.
NewlyBlind(old, new) ==
  {e.id : e \in {x \in ToSet(new) : x \notin ToSet(old) /\ x.param = NoInput}}

\* A request, once the calls of the last step have ended. A block whose compress call
\* was taken back is switched off.
Transform ==
  /\ Quiet /\ phase # "asked"
  /\ LET reset == FindLastCompactionTimestamp > state.lastCompaction
         s1 == IF reset THEN ResetOnCompaction(state) ELSE state
         active == IF reset THEN {} ELSE {b \in blocks : b.by \in Transcript}
         hidden == Hidden(active)
         s2 == SyncToolCache(
                 [s1 EXCEPT !.currentTurn = CountTurns(Len(msgs), s1.lastCompaction, hidden)],
                 hidden)
         list == BuildToolIdList(s2.lastCompaction, hidden)
     IN /\ blocks' = active
        /\ state' = [s2 EXCEPT !.toolIdList = list]
        /\ seen' = seen \cup {c \in list : Prune(c, s2.pruned) = "full"}
  /\ phase' = "asked"
  /\ UNCHANGED << msgs, gone, calls, sweeps, blind >>

\* The compress tool, called by the step under way: it folds messages before the step, or
\* fails after its preparation.
Compress ==
  /\ phase = "step"
  /\ \E manualMode \in BOOLEAN : state' = PrepareSession(state, manualMode)
  /\ LET step == FindLast("step")
     IN \/ UNCHANGED blocks
        \/ \E k \in 1..(step - 1) :
             /\ \A b \in blocks : b.upTo < k
             /\ Cardinality(blocks) < MaxBlocks
             /\ blocks' = blocks \cup {[by |-> step, upTo |-> k]}
  /\ UNCHANGED << msgs, gone, calls, phase, seen, sweeps, blind >>

\* The decompress command: blocks whose compress call was taken back are switched off, and
\* if the command names the outermost of the others, that one too.
Decompress ==
  /\ blocks # {}
  /\ LET active == {b \in blocks : b.by \in Transcript}
     IN \/ blocks' = active
        \/ \E b \in active : (\A d \in active : d.upTo <= b.upTo) /\ blocks' = active \ {b}
  /\ UNCHANGED << msgs, gone, calls, phase, state, seen, sweeps, blind >>

\* /dcp sweep, at any time.
Sweep ==
  LET hidden == Hidden(blocks)
      s == [SyncToolCache(state, hidden)
            EXCEPT !.toolIdList = BuildToolIdList(state.lastCompaction, hidden)]
  IN \E ids \in ToolIdsToSweep(s) :
       /\ sweeps < MaxSweeps /\ sweeps' = sweeps + 1
       /\ state' = Mark(s, Sweepable(s, ids), "sweep")
       /\ seen' = seen \cup s.toolIdList
       /\ blind' = blind \cup NewlyBlind(state.cache, s.cache)
                         \cup (Sweepable(s, ids) \ CachedIds(s.cache))
       /\ UNCHANGED << msgs, gone, calls, phase, blocks >>

Next ==
  \/ User \/ Revert \/ Compaction \/ Step \/ CallEnds
  \/ Transform \/ Compress \/ Decompress \/ Sweep

Spec == Init /\ [][Next]_vars
----------------------------------------------------------------------------
(* Properties *)

\* The cache stays within its limit and holds every call once, as it was when it was
\* cached; what is listed and pruned are calls (tool-cache.ts, state/types.ts).
TypeOK ==
  /\ msgs \in Seq({"user", "step", "summary"}) /\ phase \in {"idle", "asked", "step"}
  /\ gone \subseteq 2..Len(msgs)
  /\ blocks \subseteq [by : 1..Len(msgs), upTo : 1..Len(msgs)]
  /\ Len(state.cache) <= MaxCache /\ Cardinality(CachedIds(state.cache)) = Len(state.cache)
  /\ \A e \in ToSet(state.cache) :
       /\ e.id \in Ids /\ e.tool = calls[e.id].tool /\ e.param \in {NoInput, calls[e.id].param}
       /\ e.status \in {"pending", calls[e.id].status} /\ e.turn \in 0..Len(msgs)
  /\ state.toolIdList \cup DOMAIN state.pruned \subseteq Ids
  /\ \A c \in DOMAIN state.pruned : state.pruned[c] \in Causes
  /\ {state.currentTurn, state.lastCompaction} \subseteq 0..Len(msgs)

\* The strategies take no result the model has not been sent: they run while the calls
\* of a step are under way, on the list and the cache of the last request, so that only
\* a sweep in between can hand them a call of that step (deduplication.ts:30).
SeenBeforePruned ==
  \A c \in DOMAIN state.pruned : state.pruned[c] # "sweep" => c \in seen

\* In the session s the call d is left of those that do what c does: it came later, it
\* has ended, the user has not taken it back, the strategy has not taken it, and if it is
\* cached its input is known.
StandsFor(s, d, c) ==
  /\ d > c /\ calls[d].tool = calls[c].tool /\ calls[d].param = calls[c].param
  /\ calls[d].status # "pending" /\ calls[d].msg \in Transcript
  /\ d \in DOMAIN s.pruned => s.pruned[d] # "duplicate"
  /\ \A e \in ToSet(s.cache) : e.id = d => e.param # NoInput

HasCopy(c) == \E d \in Ids : StandsFor(state, d, c)

\* Of calls that do the same one stays: no step but a revert leaves a call that was pruned
\* as a duplicate without a later copy, neither the step that prunes it nor a later one,
\* whatever is cached, evicted and cached again, unless the call was cached before its
\* input was known (deduplication.ts:69-91). A copy the user takes back is gone for good:
\* prune.tools does not follow a revert.
OneCopyLeft ==
  [][gone' = gone =>
       \A c \in DOMAIN state'.pruned \ blind' :
         /\ state'.pruned[c] = "duplicate"
         /\ c \in DOMAIN state.pruned /\ state.pruned[c] = "duplicate" => HasCopy(c)
         => HasCopy(c)']_vars

\* Nothing protected is pruned, by the name of its tool or by a file its input names, as
\* long as the plugin knew the input (sweep.ts:176-192, deduplication.ts:57-66).
ProtectedKept ==
  \A c \in DOMAIN state.pruned \ blind :
    /\ calls[c].tool \notin ProtectedTools[state.pruned[c]]
    /\ calls[c].param \notin ProtectedParams
============================================================================
