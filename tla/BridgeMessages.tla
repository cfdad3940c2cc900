--------------------------- MODULE BridgeMessages ---------------------------
(***************************************************************************)
(* OpenCode's messages through the bridge (opencode-dcp-bridge, DcpPruner::*)
(* transform_messages, handle_compress): every call converts the host's    *)
(* list, the library works on the converted one (ToolPruning), and what it *)
(* returns is merged into the list the host gave.                          *)
(*                                                                         *)
(* OpenCode keeps a call and its result in one part of an assistant's      *)
(* message; the library wants two messages. The message k of the host      *)
(* becomes 2k - 1, and a synthetic 2k once its call has ended. The merge   *)
(* is told nothing of blocks and decisions: it infers from the texts and   *)
(* calls that came back what was done. A message has up to two texts and   *)
(* one call; reasoning parts and files, and the tool parts of users'       *)
(* messages, which OpenCode does not write, are left out. That a nudge may *)
(* have been added to a text is modelled, which one gets it is not.        *)
(***************************************************************************)
EXTENDS ToolPruning

CONSTANTS
  MaxHost,   \* bound: messages OpenCode ever creates, MaxMsg = 2 * MaxHost
  Texts      \* how many texts a message may have

ASSUME BridgeAssumption ==
  MaxHost \in Nat /\ MaxMsg = 2 * MaxHost /\ Texts \subseteq 0..2

VARIABLE host   \* OpenCode's list: number -> message

bridgeVars == <<vars, host>>

HostMessage == [role : {"user", "assistant"}, texts : Texts,
                call : Statuses \cup {"none"}, input : Inputs \cup {NoInput}]

----------------------------------------------------------------------------
(***************************************************************************)
(* opencode_values_to_dcp.                                                 *)
(***************************************************************************)
Own(k)   == 2 * k - 1
Synth(k) == 2 * k
HostOf(m) == (m + 1) \div 2

Ended(message) == message.call \in {"completed", "error"}

\* A message without a part the library knows gets an empty text.
Stub(message) == message.texts = 0 /\ message.call = "none"

\* The two messages of the library one message of the host is.
OwnOf(from) ==
  [role |-> from.role, text |-> from.texts > 0 \/ Stub(from), input |-> from.input,
   of |-> NoCall, status |-> "none"]
ResultOf(k, status) ==
  [role |-> "user", text |-> FALSE, input |-> NoInput, of |-> Own(k), status |-> status]

Numbers(list) == {Own(k) : k \in DOMAIN list}
                   \cup {Synth(k) : k \in {j \in DOMAIN list : Ended(list[j])}}

ConvertedAsDone(list) ==   \* variant: forgets how a call ended
  [m \in Numbers(list) |->
     IF m = Own(HostOf(m)) THEN OwnOf(list[HostOf(m)])
                           ELSE ResultOf(HostOf(m), "completed")]
Converted(list) ==
  [m \in Numbers(list) |->
     IF m = Own(HostOf(m)) THEN OwnOf(list[HostOf(m)])
     ELSE ResultOf(HostOf(m), list[HostOf(m)].call)]

----------------------------------------------------------------------------
(***************************************************************************)
(* merge_dcp_into_opencode_values.                                         *)
(***************************************************************************)
Anchored(out) == out.text \in {"summary", "blank", "empty"}

\* The texts the library gave back for a message: how many there are, whether
\* the first one holds something, whether it is another one than the host's.
TextCount(message, out) ==
  IF Anchored(out) \/ Stub(message) THEN 1 ELSE message.texts
HoldsText(message, out, nudged) ==
  nudged \/ out.text \in {"summary", "blank"} \/ (out.text = "own" /\ ~Stub(message))
Changed(out, nudged) == nudged \/ Anchored(out)

SummaryByText(message, out, nudged) ==   \* variant: does not look at the calls
  /\ TextCount(message, out) = 1
  /\ HoldsText(message, out, nudged)
  /\ Changed(out, nudged)
  /\ message.call # "none" \/ message.texts = 0

\* looks_like_summary: the only text is a new one, no call came back, and the host
\* had a call or no text.
LooksLikeSummary(message, out, nudged) ==
  /\ out.tool = "none"
  /\ TextCount(message, out) = 1
  /\ HoldsText(message, out, nudged)
  /\ Changed(out, nudged)
  /\ message.call # "none" \/ message.texts = 0

ToolUntouched(message, out) ==   \* variant: a call that did not come back stays
  IF message.call = "none" THEN "none"
  ELSE IF out.tool = "none" THEN "whole" ELSE out.tool

\* apply_output_prune for a call that did not come back; one that came back
\* without its input loses it here too.
ToolHanded(message, out) ==
  IF message.call = "none" THEN "none"
  ELSE IF out.tool = "none" THEN (IF message.call = "error" THEN "purged" ELSE "blanked")
  ELSE out.tool

\* merge_one_message hands back the first text, whether the others are there, and
\* the tool part whole, blanked (no output), purged (no input) or not at all. Texts
\* are replaced one by one, those without a counterpart stay as the host has them.
Merged(message, out, nudged) ==
  IF LooksLikeSummary(message, out, nudged)
  THEN [first |-> out.text, rest |-> FALSE, tool |-> "none"]
  ELSE [first |-> out.text, rest |-> message.texts = 2, tool |-> ToolHanded(message, out)]

\* The synthetic messages are not handed back, nor is what stands in their place.
MergedList(list, outgoing, nudged) ==
  [k \in {j \in DOMAIN list : Own(j) \in DOMAIN outgoing} |->
     Merged(list[k], outgoing[Own(k)], Own(k) = nudged)]

\* DcpPruner::transform_messages hands back one of these lists: at most one message
\* with a text was nudged.
BridgeTransform == UNCHANGED host /\ Transform

HandedBack ==
  {MergedList(host, sent', nudged) :
     nudged \in {0} \cup {m \in DOMAIN sent' : sent'[m].text # "none"}}

----------------------------------------------------------------------------
(***************************************************************************)
(* OpenCode.                                                               *)
(***************************************************************************)
Hosts(list) ==
  /\ host' = list /\ messages' = Converted(list)
  /\ NothingSent
  /\ UNCHANGED <<refd, tools, blocks, cache_stability_mode, force_apply_requested>>

\* The next message comes when the calls before it have ended.
OpenCodeSays ==
  \E message \in HostMessage :
    LET k == newest \div 2 + 1
    IN  /\ k <= MaxHost
        /\ \A j \in DOMAIN host : host[j].call # "running"
        /\ (message.input = NoInput) <=> (message.call = "none")
        /\ message.role = "user" => message.call = "none" /\ message.texts > 0
        /\ Hosts([j \in DOMAIN host \cup {k} |-> IF j = k THEN message ELSE host[j]])
        /\ newest' = 2 * k
        /\ UNCHANGED reverted

OpenCodeFinishes ==
  \E k \in DOMAIN host, status \in {"completed", "error"} :
    /\ host[k].call = "running"
    /\ Hosts([host EXCEPT ![k].call = status])
    /\ UNCHANGED <<newest, reverted>>

OpenCodeCompacts ==
  /\ \E k \in DOMAIN host : Hosts([j \in {i \in DOMAIN host : i > k} |-> host[j]])
  /\ UNCHANGED <<newest, reverted>>

OpenCodeReverts ==
  /\ \E k \in DOMAIN host : Hosts([j \in {i \in DOMAIN host : i < k} |-> host[j]])
  /\ reverted' = TRUE
  /\ UNCHANGED newest

BridgeInit == Init /\ host = EmptyFcn

BridgeNext ==
  \/ BridgeTransform
  \/ OpenCodeSays \/ OpenCodeFinishes \/ OpenCodeCompacts \/ OpenCodeReverts
  \/ (ForceApply \/ Compress \/ Decompress) /\ UNCHANGED host

BridgeSpec == BridgeInit /\ [][BridgeNext]_bridgeVars

----------------------------------------------------------------------------
(***************************************************************************)
(* Properties.                                                             *)
(***************************************************************************)
\* What this transform applies, and whether a block stands for the message m.
Applying == IF GateOpen THEN tools' ELSE {}
Folded(m) == \E b \in blocks' : m \in b.direct

\* The merge infers right: a call nobody decided on goes out whole, with all the
\* texts of its message, unless a block stands for it - however messages were
\* nudged, folded beside it or taken back. A block that stands for the result
\* alone folds nothing: the host keeps it with the call.
UndecidedStayWhole ==
  [][BridgeTransform =>
       \A k \in DOMAIN host, handed \in HandedBack :
         host[k].call # "none" /\ Own(k) \notin Applying /\ ~Folded(Own(k))
         => /\ k \in DOMAIN handed /\ handed[k].tool = "whole"
            /\ handed[k].rest = (host[k].texts = 2)
            /\ handed[k].first = (IF host[k].texts > 0 THEN "own" ELSE "none")]_bridgeVars

\* What a block folded does not come back with the host's copy of it: the output of
\* a call is not handed back once its message is part of a block, and the message
\* only where the block is anchored.
FoldedStaysOut ==
  [][BridgeTransform =>
       \A handed \in HandedBack : \A k \in DOMAIN handed :
         Folded(Own(k)) =>
           /\ handed[k].tool # "whole" /\ handed[k].first # "own"
           /\ \E b \in blocks' : b.anchor = Own(k)]_bridgeVars

\* "Keeping the error message" as far as the model: a failed call that no block
\* stands for is handed back, at most without its input.
ErrorReachesModel ==
  [][BridgeTransform =>
       \A k \in DOMAIN host, handed \in HandedBack :
         host[k].call = "error" /\ ~Folded(Own(k))
         => k \in DOMAIN handed /\ handed[k].tool \in {"whole", "purged"}]_bridgeVars

============================================================================
