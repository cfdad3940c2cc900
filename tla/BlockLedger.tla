---------------------------- MODULE BlockLedger ----------------------------
(***************************************************************************)
(* What a session promises about its compression blocks, with messages,    *)
(* anchors and calls left out: block numbers are handed out in order, a    *)
(* block in force can be switched off and on again by the user, and being  *)
(* folded into a later block or cut off by a compaction is final.          *)
(***************************************************************************)
EXTENDS Naturals

CONSTANT Ids   \* the numbers blocks may get

VARIABLES
  status,  \* number of a block -> what has become of it
  heir     \* number of a block -> the later block that holds its content

ledger == <<status, heir>>

Statuses == {"active",    \* in force: its summary stands for its messages
             "off",       \* decompressed by the user
             "folded",    \* consumed by a later block
             "retired"}   \* in force when the host compacted the conversation

Committed == DOMAIN status

NoHeir == 0
Empty  == [x \in {} |-> x]

Init == status = Empty /\ heir = Empty

\* The next block takes over the blocks of C. Each is in force, or was when
\* the call began and an earlier entry of the same call has folded it already.
Commit(C) ==
  \E id \in Ids :
    /\ \A b \in Committed : b < id
    /\ \A c \in C : status[c] \in {"active", "folded"}
    /\ status' = [b \in Committed \cup {id} |->
                    IF b = id THEN "active" ELSE IF b \in C THEN "folded" ELSE status[b]]
    /\ heir' = [b \in Committed \cup {id} |->
                  IF b = id THEN NoHeir ELSE IF b \in C THEN id ELSE heir[b]]

SwitchOff(b) ==
  /\ status[b] = "active"
  /\ status' = [status EXCEPT ![b] = "off"]
  /\ UNCHANGED heir

SwitchOn(b) ==
  /\ status[b] = "off"
  /\ status' = [status EXCEPT ![b] = "active"]
  /\ UNCHANGED heir

Compaction ==
  /\ status' = [b \in Committed |-> IF status[b] = "active" THEN "retired" ELSE status[b]]
  /\ UNCHANGED heir

Reset == status' = Empty /\ heir' = Empty

Next ==
  \/ \E C \in SUBSET Committed : Commit(C)
  \/ \E b \in Committed : SwitchOff(b) \/ SwitchOn(b)
  \/ Compaction
  \/ Reset

Spec == Init /\ [][Next]_ledger
============================================================================
