------------------------------- MODULE Nudges -------------------------------
(***************************************************************************)
(* Nudges: the texts that ask the model to compress. Two engines write     *)
(* them over the same conversation, the library (dcp-nudges, called by     *)
(* ContextPruner::transform_messages) and the plugin (injectCompressNudges *)
(* and applyAnchoredNudges); a host runs one of them.                      *)
(*                                                                         *)
(* The library chooses at most one nudge per transform and forgets it. The *)
(* plugin keeps anchors, messages that carry a nudge in every request from *)
(* then on, and saves them with the session, without waiting for the file. *)
(* How full the context is comes from a tokenizer or from the provider;    *)
(* here a transform is told. Texts, priorities of messages and the form of *)
(* a tag are left out.                                                     *)
(*                                                                         *)
(* A message is a number in the order of its creation; what a fold hides   *)
(* is shown by one entry in its place.                                     *)
(***************************************************************************)
EXTENDS Integers, Sequences, FiniteSets, SequencesExt

CONSTANTS
  MaxMsg,      \* bound: messages the host ever creates
  MaxFolds,    \* bound: compress calls
  MaxLate,     \* bound: writes of the session's file that end late, or fail
  Engines,     \* "rust", "plugin": the engines a host may run
  Frequency,   \* nudgeFrequency
  Threshold,   \* iterationNudgeThreshold
  NudgeForce,  \* nudgeForce: "soft", "strong"
  InjectionMode \* injectionMode: "wrap_block", "append_text"

ASSUME NudgeAssumption ==
  /\ {MaxMsg, MaxFolds, MaxLate} \subseteq Nat
  /\ Engines \subseteq {"rust", "plugin"}
  /\ Frequency \in Nat \ {0} /\ Threshold \in Nat \ {0}
  /\ NudgeForce \in {"soft", "strong"}
  /\ InjectionMode \in {"wrap_block", "append_text"}

Msg == 1..MaxMsg

\* What a message is: of the user, a notice of the plugin nobody but the user sees,
\* of the assistant with text, with text and a call that never ended, with nothing
\* but calls that failed, with a completed compress call.
Kinds == {"user", "notice", "text", "open", "failed", "compress"}
User(k)      == k \in {"user", "notice"}
Assistant(k) == ~User(k)
HasText(k)   == k \notin {"failed", "compress"}

NudgeKinds == {"context", "turn", "iteration"}

VARIABLES
  engine,          \* the engine of this host
  list, kind,      \* the messages of the session, what each one ever created is
  folds,           \* the folds: first and last message, the message that called
  rust,            \* the library's state.nudges, message_ids and frontier
  plugin,          \* the plugin's state.nudges and whether it has to stay silent
  saved,           \* the anchors in the session's file
  saving, late,    \* what writes that are under way will put there, how many were late
  wanted,          \* history: what the last save of this process was to write
  sent,            \* the nudges of the last request, by entry
  since,           \* history: "nothing", "restart" or "change" after that request
  folded           \* history: whether this process of the library has made a block

hostVars == <<list, kind, folds>>
fileVars == <<saved, saving, late, wanted>>
vars == <<engine, hostVars, rust, plugin, fileVars, sent, since, folded>>

EmptyFcn  == [x \in {} |-> x]
NoAnchors == [context |-> {}, turn |-> {}, iteration |-> {}]
NewRust   == [refs |-> EmptyFcn, next |-> 1, frontier |-> 0, pairs |-> {},
              contextCounter |-> 0, iterationCounter |-> 0]
NewPlugin == [anchors |-> NoAnchors, loaded |-> FALSE, silent |-> FALSE,
              compacted |-> FALSE]

newest == Len(kind)
Entries == 1..(2 * MaxMsg)   \* the entry of a summary the plugin writes at m: MaxMsg + m
Anchors == [context : SUBSET Entries, turn : SUBSET Entries, iteration : SUBSET Entries]

TypeOK ==
  /\ engine \in Engines
  /\ kind \in Seq(Kinds) /\ newest <= MaxMsg /\ list \subseteq 1..newest
  /\ \A f \in folds : f.lo <= f.hi /\ f.hi < f.at /\ f.at <= newest
  /\ DOMAIN rust.refs \subseteq 1..newest
  /\ \A m \in DOMAIN rust.refs : rust.refs[m] \in 1..(rust.next - 1)
  /\ rust.next \in 1..(MaxMsg + 1) /\ rust.frontier \in 0..MaxMsg
  /\ rust.pairs \subseteq Msg \X Msg
  /\ rust.contextCounter \in Nat /\ rust.iterationCounter \in Nat
  /\ {plugin.anchors, saved, wanted} \subseteq Anchors
  /\ saving \in Seq(Anchors) /\ Len(saving) <= late /\ late <= MaxLate
  /\ {plugin.loaded, plugin.silent, plugin.compacted} \subseteq BOOLEAN
  /\ DOMAIN sent \subseteq Entries /\ \A e \in DOMAIN sent : sent[e] \subseteq NudgeKinds
  /\ since \in {"nothing", "restart", "change"} /\ folded \in BOOLEAN

Init ==
  /\ engine \in Engines
  /\ list = {} /\ kind = <<>> /\ folds = {}
  /\ rust = NewRust /\ plugin = NewPlugin
  /\ saved = NoAnchors /\ saving = <<>> /\ late = 0 /\ wanted = NoAnchors
  /\ sent = EmptyFcn /\ since = "nothing" /\ folded = FALSE

----------------------------------------------------------------------------
(***************************************************************************)
(* The outgoing list: entries with a kind, in order.                       *)
(***************************************************************************)
Inside(f, m)  == f.lo <= m /\ m <= f.hi
Wider(f, g)   == f # g /\ f.lo <= g.lo /\ g.hi <= f.hi
Top(fs, m)    == {f \in fs : f.lo = m /\ ~\E g \in fs : Wider(g, f)}
Shown(fs)     == {m \in list : (\A f \in fs : ~Inside(f, m)) \/ Top(fs, m) # {}}

\* filter_compressed_ranges puts the summary into the first message of the range,
\* filterCompressedRanges into a user message of its own.
EntryOf(fs, m) ==
  IF Top(fs, m) = {} THEN [id |-> m, kind |-> kind[m]]
  ELSE IF engine = "plugin" THEN [id |-> MaxMsg + m, kind |-> "user"]
  ELSE [id |-> m, kind |-> IF User(kind[m]) THEN kind[m] ELSE "text"]

InOrder(ms) ==
  CHOOSE order \in [1..Cardinality(ms) -> ms] :
    \A i, j \in DOMAIN order : i < j => order[i] < order[j]

OutOf(fs) ==
  LET order == InOrder(Shown(fs))
  IN  [i \in DOMAIN order |-> EntryOf(fs, order[i])]
Out == OutOf(folds)

\* The position of the last entry whose kind passes, or 0.
LastOf(out, Test(_)) == SelectLastInSeq(out, LAMBDA e : Test(e.kind))

Visible(k)   == k # "notice"
PlainUser(k) == k = "user"
Id(out, i)   == IF i = 0 THEN 0 ELSE out[i].id

----------------------------------------------------------------------------
(***************************************************************************)
(* The library. Its two counters are tested and set to zero, and nothing   *)
(* counts: with a frequency above one, context and iteration nudges never  *)
(* come due.                                                               *)
(***************************************************************************)
\* maybe_detect_compaction: none of the last three references is in the list.
Recent(st) == {m \in DOMAIN st.refs : st.refs[m] > st.next - 4}
ClearedCount(st) ==   \* variant: numbering restarts, the references stay
  IF Recent(st) # {} /\ Recent(st) \cap list = {} THEN [st EXCEPT !.next = 1] ELSE st
Cleared(st) ==
  IF Recent(st) # {} /\ Recent(st) \cap list = {}
  THEN [st EXCEPT !.refs = EmptyFcn, !.next = 1] ELSE st

\* assign_message_refs; what is ignored gets none.
Referenced(st) ==
  LET new == {m \in list \ DOMAIN st.refs : Visible(kind[m])}
  IN  [st EXCEPT
        !.refs = [m \in DOMAIN @ \cup new |->
                    IF m \in DOMAIN @ THEN @[m]
                    ELSE st.next - 1 + Cardinality({k \in new : k <= m})],
        !.next = @ + Cardinality(new)]

TextAssistant(k) == Assistant(k) /\ HasText(k)
AnyUser(k)       == User(k)

Due(counter) == (counter + 1) % Frequency = 0

\* candidate_context_limit, candidate_iteration, candidate_turn: the entry, or 0.
ContextAt(st, out, level) ==
  IF level = "high" /\ Due(st.contextCounter)
  THEN IF LastOf(out, TextAssistant) # 0 THEN Id(out, LastOf(out, TextAssistant))
                                       ELSE Id(out, LastOf(out, AnyUser))
  ELSE 0

SinceUser(out) ==
  IF LastOf(out, PlainUser) = 0 THEN 0
  ELSE Cardinality({i \in DOMAIN out : i > LastOf(out, PlainUser) /\ Assistant(out[i].kind)})

IterationAt(st, out) ==
  IF SinceUser(out) > Threshold /\ Due(st.iterationCounter)
  THEN Id(out, LastOf(out, TextAssistant)) ELSE 0

\* turn_pairs: the assistant's texts, each with the user text before it.
UserBefore(out, i) == LastOf(SubSeq(out, 1, i - 1), PlainUser)
PairEnds(out) ==
  {i \in DOMAIN out : TextAssistant(out[i].kind) /\ UserBefore(out, i) # 0}
PairAt(out, i) == <<out[UserBefore(out, i)].id, out[i].id>>

\* collect_turn_nudge_anchors: an answer with a call that never ended is no anchor.
Anchored(e) == TextAssistant(e.kind) /\ e.kind # "open"

TurnAtAgain(st, out) ==   \* variant: pairs are not remembered
  LET old == {i \in PairEnds(out) : \E j \in PairEnds(out) : i < j}
      due == {i \in old : Anchored(out[i])}
  IN  IF due = {} THEN 0 ELSE out[CHOOSE i \in due : \A j \in due : i <= j].id

TurnAt(st, out) ==
  LET old == {i \in PairEnds(out) : \E j \in PairEnds(out) : i < j}
      due == {i \in old : Anchored(out[i]) /\ PairAt(out, i) \notin st.pairs}
  IN  IF due = {} THEN 0 ELSE out[CHOOSE i \in due : \A j \in due : i <= j].id

PastFrontier(st, e) ==
  st.frontier = 0 \/ e \notin DOMAIN st.refs \/ st.refs[e] > st.frontier

\* build_priority_map: the first candidate that is past the frontier.
NoNudge == [kind |-> "none", at |-> 0]
Chosen(st, out, level) ==
  LET ranked == <<[kind |-> "context", at |-> ContextAt(st, out, level)],
                  [kind |-> "iteration", at |-> IterationAt(st, out)],
                  [kind |-> "turn", at |-> IF NudgeForce = "soft" THEN TurnAt(st, out) ELSE 0]>>
      fits == {i \in DOMAIN ranked : ranked[i].at # 0 /\ PastFrontier(st, ranked[i].at)}
  IN  IF fits = {} THEN NoNudge ELSE ranked[CHOOSE i \in fits : \A j \in fits : i <= j]

\* inject_nudges passes over an ignored message.
Injected(out, nudge) ==
  [e \in {out[i].id : i \in DOMAIN out} |->
     IF e = nudge.at /\ \E i \in DOMAIN out : out[i].id = e /\ Visible(out[i].kind)
     THEN {nudge.kind} ELSE {}]

Noted(st, out, nudge) ==
  LET i == CHOOSE j \in DOMAIN out : out[j].id = nudge.at
  IN  IF nudge = NoNudge \/ ~Visible(out[i].kind) THEN st
      ELSE IF nudge.kind = "context" THEN [st EXCEPT !.contextCounter = 0]
      ELSE IF nudge.kind = "iteration" THEN [st EXCEPT !.iterationCounter = 0]
      ELSE [st EXCEPT !.pairs = @ \cup {PairAt(out, i)}]

\* strip_messages takes a nudge out again that was wrapped in <dcp-nudge> tags.
Stripped(nudged) ==
  IF InjectionMode = "append_text" THEN nudged ELSE [e \in DOMAIN nudged |-> {}]

RustTransform(level) ==
  /\ engine = "rust" /\ list # {}
  /\ LET left  == IF Cleared(rust) = rust THEN folds ELSE {}
         out   == OutOf(left)
         st    == Referenced(Cleared(rust))
         nudge == Chosen(st, out, level)
     IN  /\ rust' = Noted(st, out, nudge)
         /\ sent' = Stripped(Injected(out, nudge))
         /\ folds' = left
  /\ since' = "nothing"
  /\ UNCHANGED <<engine, list, kind, plugin, fileVars, folded>>

----------------------------------------------------------------------------
(***************************************************************************)
(* The plugin.                                                             *)
(***************************************************************************)
\* collectTurnNudgeAnchors: from the end back to the last compress call.
Collected ==
  LET last == {m \in list : kind[m] = "compress"}
      part == {m \in list : \A c \in last : c < m}
      next(m, Test(_)) == {k \in part : k > m /\ Test(kind[k])}
      ends == {m \in part : /\ Assistant(kind[m])
                            /\ next(m, PlainUser) # {}
                            /\ \A k \in next(m, Assistant) :
                                 \E u \in next(m, PlainUser) : u < k}
      first(m) == CHOOSE u \in next(m, PlainUser) :
                    \A v \in next(m, PlainUser) : u <= v
  IN  ends \cup {first(m) : m \in ends}

\* What ensureSessionInitialized restores, and checkSession clears.
Opened(p) ==
  IF ~p.loaded
  THEN [p EXCEPT !.anchors = [saved EXCEPT !.turn = @ \cup Collected], !.loaded = TRUE,
                 !.compacted = FALSE]
  ELSE IF p.compacted THEN [p EXCEPT !.anchors = NoAnchors, !.compacted = FALSE]
  ELSE p

\* addAnchor.
AddAnchorLate(ids, out, i) ==   \* variant: spaced one message too far
  LET held == {j \in DOMAIN out : out[j].id \in ids}
  IN  IF \A j \in held : i - j > Frequency THEN ids \cup {out[i].id} ELSE ids
AddAnchor(ids, out, i) ==
  LET held == {j \in DOMAIN out : out[j].id \in ids}
  IN  IF \A j \in held : i - j >= Frequency THEN ids \cup {out[i].id} ELSE ids

VisibleAfter(out, i) == {j \in DOMAIN out : j > i /\ Visible(out[j].kind)}

\* The two sections of injectCompressNudges that change the anchors.
Lowered(a, level) ==
  IF level = "low" THEN [a EXCEPT !.turn = {}, !.iteration = {}] ELSE a

Raised(a, out, level) ==
  LET last  == LastOf(out, Visible)
      user  == LastOf(out, PlainUser)
      reply == LastOf(out, Assistant)
  IN  CASE level = "high" /\ last # 0 ->
             [a EXCEPT !.context = AddAnchor(@, out, last)]
        [] level = "mid" ->
             [a EXCEPT
               !.turn = IF last # 0 /\ last = user /\ reply # 0
                        THEN @ \cup {out[last].id, out[reply].id} ELSE @,
               !.iteration =
                 IF user # 0 /\ last > user /\ Cardinality(VisibleAfter(out, user)) >= Threshold
                 THEN AddAnchor(@, out, last) ELSE @]
        [] OTHER -> a

\* injectAnchoredNudge: an answer without content carries nothing.
Carries(k) == k # "failed"

\* applyAnchoredNudges; the force decides which half of a turn speaks.
Written(a, out) ==
  LET speaks(k) == IF NudgeForce = "strong" THEN User(k) ELSE Assistant(k)
      at(e)     == CHOOSE i \in DOMAIN out : out[i].id = e
      kinds(e)  == {n \in NudgeKinds : /\ e \in a[n] /\ Carries(out[at(e)].kind)
                                       /\ n = "turn" => speaks(out[at(e)].kind)}
  IN  [e \in {out[i].id : i \in DOMAIN out} |-> kinds(e)]

Quiet(out) == [e \in {out[i].id : i \in DOMAIN out} |-> {}]

AfterCompress(out) == LastOf(out, Assistant) # 0 /\ out[LastOf(out, Assistant)].kind = "compress"

\* What a save writes is taken when it begins, and no request waits for the file: the
\* first saves of a step end before anything else happens, the others later or never.
BeginSaves(files) ==
  /\ \E k \in 0..Len(files) :
       /\ saved' = IF k = 0 THEN saved ELSE files[k]
       /\ saving' = saving \o SubSeq(files, k + 1, Len(files))
       /\ late' = late + Len(files) - k /\ late' <= MaxLate
  /\ wanted' = IF files = <<>> THEN wanted ELSE files[Len(files)]

SaveIfContext(old, new) ==   \* variant: only the anchors of the limit count as a change
  IF new.context # old.context THEN << new >> ELSE <<>>
SaveIf(old, new) == IF new # old THEN << new >> ELSE <<>>

PluginTransform(level) ==
  /\ engine = "plugin" /\ list # {}
  /\ LET out   == Out
         p     == Opened(plugin)
         a     == Lowered(p.anchors, level)
         new   == Raised(a, out, level)
         reset == IF plugin.compacted /\ plugin.loaded THEN << NoAnchors >> ELSE <<>>
     IN  \/ /\ p.silent
            /\ plugin' = p /\ sent' = Quiet(out)
            /\ BeginSaves(reset)
         \/ /\ ~p.silent /\ AfterCompress(out)
            /\ plugin' = [p EXCEPT !.anchors = NoAnchors] /\ sent' = Quiet(out)
            /\ BeginSaves(reset \o << NoAnchors >>)
         \/ /\ ~p.silent /\ ~AfterCompress(out)
            /\ plugin' = [p EXCEPT !.anchors = new] /\ sent' = Written(new, out)
            /\ BeginSaves(reset \o SaveIf(p.anchors, new))
  /\ since' = "nothing"
  /\ UNCHANGED <<engine, hostVars, rust, folded>>

\* A slash command that saves the session: sweep, decompress, recompress.
Command ==
  /\ engine = "plugin" /\ plugin.loaded
  /\ BeginSaves(<< plugin.anchors >>)
  /\ UNCHANGED <<engine, hostVars, rust, plugin, sent, since, folded>>

\* A late write ends, in any order: the file is written, or the write failed before the
\* file was emptied, or after that.
SaveEnds ==
  /\ \E i \in DOMAIN saving :
       saving' = RemoveAt(saving, i) /\ saved' \in {saving[i], saved, NoAnchors}
  /\ UNCHANGED <<engine, hostVars, rust, plugin, late, wanted, sent, since, folded>>

----------------------------------------------------------------------------
(***************************************************************************)
(* The host, the user and the model.                                       *)
(***************************************************************************)
\* Kinds the engine tells apart.
Told == {"user", "notice", "text", "failed", IF engine = "rust" THEN "open" ELSE "text"}

\* What a message that is gone was no longer matters.
Forgotten(rest) == [m \in 1..newest |-> IF m \in rest THEN kind[m] ELSE "user"]

HostWrites(k) ==
  /\ newest < MaxMsg /\ k \in Told
  /\ list = {} => k = "user"
  /\ kind' = Append(kind, k) /\ list' = list \cup {newest + 1}
  /\ UNCHANGED <<engine, folds, rust, plugin, fileVars, sent, since, folded>>

\* A compress call of the model, and the block it commits; a block that is no
\* shorter than what it folds moves the library's frontier forward. The plugin waits
\* for its save to end, one way or another.
Compresses(lo, hi, oversized) ==
  /\ newest < MaxMsg /\ Cardinality(folds) < MaxFolds
  /\ {lo, hi} \subseteq Shown(folds) /\ lo <= hi /\ Top(folds, hi) = {}
  /\ IF engine = "rust" THEN {lo, hi} \subseteq DOMAIN rust.refs ELSE plugin.loaded
  /\ kind' = Append(kind, "compress") /\ list' = list \cup {newest + 1}
  /\ folds' = folds \cup {[lo |-> lo, hi |-> hi, at |-> newest + 1]}
  /\ rust' = IF engine = "rust" /\ oversized /\ rust.refs[hi] > rust.frontier
             THEN [rust EXCEPT !.frontier = rust.refs[hi]] ELSE rust
  /\ folded' = (engine = "rust")
  /\ IF engine = "rust" THEN UNCHANGED <<saved, late, wanted>>
     ELSE /\ wanted' = plugin.anchors /\ ~oversized
          /\ \/ saved' = wanted' /\ UNCHANGED late
             \/ /\ late < MaxLate /\ late' = late + 1
                /\ saved' \in {saved, NoAnchors}
  /\ UNCHANGED <<engine, plugin, saving, sent, since>>

\* The plugin takes a fold back with the call that made it, the library keeps it.
HostReverts(m) ==
  /\ m \in list
  /\ list' = {k \in list : k < m} /\ kind' = Forgotten(list')
  /\ folds' = IF engine = "plugin" THEN {f \in folds : f.at < m}
                                   ELSE {f \in folds : f.lo < m}
  /\ UNCHANGED <<engine, rust, plugin, fileVars, sent, since, folded>>

\* After a change the nudges of the next request may be others: what the last one sent
\* does not matter any more.
Changes == since' = "change" /\ sent' = EmptyFcn

\* The host replaces the conversation by an answer that sums it up.
HostCompacts ==
  /\ newest < MaxMsg /\ list # {}
  /\ kind' = Append(Forgotten({}), "text") /\ list' = {newest + 1}
  /\ folds' = IF engine = "plugin" THEN {} ELSE folds
  /\ plugin' = [plugin EXCEPT !.compacted = TRUE]
  /\ Changes
  /\ UNCHANGED <<engine, rust, fileVars, folded>>

\* A compress permission that becomes deny, or manual mode: its command writes back the
\* file it has read, or an empty one if it read while a write was under way.
Silence ==
  /\ engine = "plugin"
  /\ plugin' = [plugin EXCEPT !.silent = ~@]
  /\ \/ UNCHANGED <<saving, late>>
     \/ /\ plugin.loaded /\ late < MaxLate /\ late' = late + 1
        /\ \E read \in {saved} \cup (IF saving = <<>> THEN {} ELSE {NoAnchors}) :
             saving' = Append(saving, read)
  /\ Changes
  /\ UNCHANGED <<engine, hostVars, rust, saved, wanted, folded>>

\* The folds a process finds in the file; if a write was ever late or failed, perhaps
\* those of an earlier time.
Restored ==
  IF engine = "rust" THEN {{}}
  ELSE {{f \in folds : f.at <= k} : k \in IF late = 0 THEN {newest} ELSE 0..newest}

\* A new process; ContextPruner starts from nothing, the plugin from its file, which a
\* write that was under way may have left torn.
Restart ==
  /\ saved' \in {saved} \cup (IF saving = <<>> THEN {} ELSE {NoAnchors})
  /\ saving' = <<>> /\ wanted' = saved'
  /\ rust' = NewRust /\ folds' \in Restored
  /\ plugin' = [NewPlugin EXCEPT !.silent = plugin.silent]
  /\ IF since # "change" /\ saving = <<>> /\ saved = wanted
     THEN since' = "restart" /\ UNCHANGED sent
     ELSE Changes
  /\ folded' = FALSE
  /\ UNCHANGED <<engine, list, kind, late>>

Levels == {"low", "mid", "high"}   \* below the minimum, between, above the maximum

Next ==
  \/ \E k \in Kinds : HostWrites(k)
  \/ \E lo, hi \in Msg, oversized \in BOOLEAN : Compresses(lo, hi, oversized)
  \/ \E m \in Msg : HostReverts(m)
  \/ HostCompacts \/ Silence \/ Command \/ SaveEnds \/ Restart
  \/ \E level \in Levels : RustTransform(level) \/ PluginTransform(level)

Spec == Init /\ [][Next]_vars

----------------------------------------------------------------------------
(***************************************************************************)
(* Properties.                                                             *)
(***************************************************************************)
Talks(level) ==
  /\ UNCHANGED hostVars /\ ~plugin.silent /\ since' = "nothing"
  /\ PluginTransform(level) /\ ~AfterCompress(Out)

\* The plugin: while the context is over the limit, one of the last messages of
\* every request asks to compress, unless its anchor there is an answer that
\* cannot carry text.
PluginNudgesWhenFull ==
  [][Talks("high") =>
       LET out == Out IN
       \E i \in DOMAIN out :
         /\ i > LastOf(out, Visible) - Frequency
         /\ out[i].id \in plugin'.anchors.context
         /\ "context" \in sent'[out[i].id] \/ out[i].kind = "failed"]_vars

\* The plugin: what a message carried it carries in the next request, as long as
\* the context is not below the minimum, nothing was compacted or compressed and
\* the user did not switch nudges off: the prefix the provider cached stays. After
\* a restart this holds, but for turn nudges found when the session was opened, if the
\* file had come to hold what the last save was to write: none was under way, none had
\* failed and none was overtaken (inject.ts:134-142).
NudgesStay ==
  [][since # "change" =>
       \A e \in DOMAIN sent \cap DOMAIN sent' :
         \A n \in sent[e] \ sent'[e] :
           \/ n = "turn" /\ since = "restart"
           \/ ~\E level \in {"mid", "high"} : Talks(level)]_vars

\* The library: as long as it has not folded anything, no answer gets the nudge of its
\* turn a second time, whatever the host reverts or compacts in between and whichever
\* of the two ways found the user's half of the pair it remembers. A fold may change
\* that half, and a revert that looks like a compaction takes the fold back.
TurnNudgedOnce ==
  [][\A level \in Levels :
       ~folded /\ RustTransform(level) =>
         \A e \in DOMAIN sent' :
           "turn" \in sent'[e] => \A pair \in rust.pairs : pair[2] # e]_vars
=============================================================================
