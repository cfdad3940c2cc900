------------------------- MODULE PluginBlocksProofs -------------------------
(***************************************************************************)
(* Proofs about the blocks of the plugin, for any number of messages,      *)
(* blocks and compress calls that run at the same time: the indexes of     *)
(* active blocks agree, what is folded stays hidden, who is active follows *)
(* the rule of the synchronisation, and summaries go out.  The argument:   *)
(* the entry of a message lists exactly the blocks that stand for it, and  *)
(* a block is made of older ones only; then one round of the loop of the   *)
(* synchronisation keeps the three indexes in step for the blocks it has   *)
(* passed, and a commit, on whatever state it finds, does what one more    *)
(* round would do.                                                         *)
(***************************************************************************)
EXTENDS PluginBlocks, FiniteSetTheorems, SequenceTheorems, TLAPS

\* The fields of a PruneMessagesState and nothing else.
Shaped(s) ==
  s = [blocks |-> s.blocks, active |-> s.active, byAnchor |-> s.byAnchor,
       byMessage |-> s.byMessage, nextBlock |-> s.nextBlock, nextRun |-> s.nextRun]

\* Blocks are numbered as they were created, and consume older ones only.
BlocksInv(s) ==
  /\ s.nextBlock \in Nat \ {0} /\ s.nextRun \in Nat \ {0}
  /\ DOMAIN s.blocks = 1..(s.nextBlock - 1)
  /\ s.blocks \in [DOMAIN s.blocks -> Block]
  /\ \A b \in DOMAIN s.blocks : s.blocks[b].consumed \subseteq 1..(b - 1)
                                /\ s.blocks[b].run < s.nextRun

\* The entry of a message lists the blocks that stand for it.
EntriesInv(s) ==
  /\ DOMAIN s.byMessage \subseteq Msg
  /\ \A m \in DOMAIN s.byMessage :
       /\ s.byMessage[m] = [all |-> s.byMessage[m].all, active |-> s.byMessage[m].active]
       /\ s.byMessage[m].all = {b \in DOMAIN s.blocks : m \in s.blocks[b].effective}
  /\ \A b \in DOMAIN s.blocks : s.blocks[b].effective \subseteq DOMAIN s.byMessage

\* IndexesAgree of a state.
Agree(s) ==
  /\ s.active = {b \in DOMAIN s.blocks : s.blocks[b].active}
  /\ \A m \in DOMAIN s.byMessage :
       s.byMessage[m].active = s.byMessage[m].all \cap s.active
  /\ \A a \in DOMAIN s.byAnchor :
       s.byAnchor[a] \in s.active /\ s.blocks[s.byAnchor[a]].anchor = a

\* A function, as every index is.
Fcn(f) == f = [x \in DOMAIN f |-> f[x]]

\* ActiveIsDerived of a state.
Alive(s, found) == {b \in found : ~s.blocks[b].byUser}
Derived(s, found) ==
  s.active = Alive(s, found) \ UNION {s.blocks[b].consumed : b \in Alive(s, found)}

PruneInv(s, found) ==
  /\ Shaped(s) /\ BlocksInv(s) /\ EntriesInv(s) /\ Agree(s) /\ Fcn(s.byAnchor)
  /\ found \subseteq DOMAIN s.blocks /\ Derived(s, found)

\* What runs: calls between two awaits, and the command.
CallStates ==
  {Idle} \cup [phase : {"fetched"}, origin : Msg, snap : SUBSET Msg]
         \cup [phase : {"planned"}, origin : Msg, mode : {"range", "message"}, plans : Seq(Plan)]

CallsInv ==
  /\ list \subseteq 1..newest /\ newest \in 0..MaxMsg
  /\ calls \in [Calls -> CallStates]
  /\ \A c \in Calls : calls[c].phase = "planned" =>
       \A i \in 1..Len(calls[c].plans) : calls[c].plans[i].consumed \subseteq Created
  /\ command \in {Idle} \cup [phase : {"fetched"}, snap : SUBSET Msg]
  /\ Created \subseteq BlockIds

IInv == CallsInv /\ PruneInv(prune, present)

----------------------------------------------------------------------------
(***************************************************************************)
(* The loops of the synchronisation and of the commit are functions.       *)
(***************************************************************************)

\* A set of numbers has a least one.
LEMMA LeastOne ==
  ASSUME NEW D \in SUBSET Nat, D # {}
  PROVE  \E m \in D : \A x \in D : m <= x
<1>1. IsWellFoundedOn(OpToRel(<, Nat), Nat)
  BY NatLessThanWellFounded
<1>2. PICK m \in D : \A x \in D : <<x, m>> \notin OpToRel(<, Nat)
  BY <1>1, WFMin
<1>3. ASSUME NEW x \in D, x < m PROVE FALSE
  <2>1. <<x, m>> \in OpToRel(<, Nat)
    BY <1>3 DEF OpToRel
  <2> QED BY <1>2, <2>1
<1> QED BY <1>3

SyncStart(s) == [s EXCEPT !.active = {}, !.byAnchor = EmptyFcn]
SyncLoop(s, snap, n, f) ==
  f = [b \in 0..n |-> IF b = 0 THEN SyncStart(s) ELSE SyncBlock(f[b - 1], b, snap)]

LEMMA SyncLoopExists ==
  ASSUME NEW s, NEW snap, NEW n \in Nat
  PROVE  \E f : SyncLoop(s, snap, n, f)
<1> DEFINE Bad == {k \in Nat : ~ \E f : SyncLoop(s, snap, k, f)}
<1>1. SUFFICES ASSUME Bad # {} PROVE FALSE
  OBVIOUS
<1>2. PICK k \in Bad : \A x \in Bad : k <= x
  <2>1. Bad \in SUBSET Nat
    OBVIOUS
  <2> HIDE DEF Bad
  <2> QED BY <1>1, <2>1, LeastOne
<1>3. CASE k = 0
  <2> DEFINE f == [b \in 0..0 |-> SyncStart(s)]
  <2>1. SyncLoop(s, snap, 0, f)
    BY DEF SyncLoop
  <2> QED BY <1>3, <2>1
<1>4. CASE k # 0
  <2>1. k \in Nat /\ k - 1 \in Nat /\ k - 1 \notin Bad
    BY <1>2, <1>4
  <2>2. PICK g : SyncLoop(s, snap, k - 1, g)
    BY <2>1
  <2> DEFINE f == [b \in 0..k |-> IF b = k THEN SyncBlock(g[k - 1], k, snap) ELSE g[b]]
  <2>3. ASSUME NEW b \in 0..k
        PROVE  f[b] = IF b = 0 THEN SyncStart(s) ELSE SyncBlock(f[b - 1], b, snap)
    <3>1. CASE b = k
      <4>1. f[b] = SyncBlock(g[k - 1], k, snap) /\ f[k - 1] = g[k - 1]
        BY <2>1, <3>1
      <4> QED BY <1>4, <3>1, <4>1
    <3>2. CASE b # k
      <4>1. f[b] = g[b] /\ (b # 0 => f[b - 1] = g[b - 1])
        BY <2>1, <3>2
      <4>2. b \in 0..(k - 1)
        BY <2>1, <3>2
      <4>3. g[b] = IF b = 0 THEN SyncStart(s) ELSE SyncBlock(g[b - 1], b, snap)
        <5> DEFINE G(b_1) == IF b_1 = 0 THEN SyncStart(s) ELSE SyncBlock(g[b_1 - 1], b_1, snap)
        <5>1. g = [x \in 0..(k - 1) |-> G(x)]
          BY <2>2 DEF SyncLoop
        <5> HIDE DEF G
        <5>2. g[b] = G(b)
          BY <4>2, <5>1
        <5> QED BY <5>2 DEF G
      <4> QED BY <4>1, <4>3
    <3> QED BY <3>1, <3>2
  <2>4. f = [b \in 0..k |-> IF b = 0 THEN SyncStart(s) ELSE SyncBlock(f[b - 1], b, snap)]
    <3> DEFINE G(b) == IF b = 0 THEN SyncStart(s) ELSE SyncBlock(f[b - 1], b, snap)
    <3>1. \A b \in 0..k : f[b] = G(b)
      BY <2>3
    <3>2. f = [b \in 0..k |-> f[b]]
      OBVIOUS
    <3> HIDE DEF f, G
    <3>3. f = [b \in 0..k |-> G(b)]
      BY <3>1, <3>2
    <3> QED BY <3>3 DEF G
  <2>5. SyncLoop(s, snap, k, f)
    <3> HIDE DEF f
    <3> QED BY <2>4 DEF SyncLoop
  <2> QED BY <2>5
<1> QED BY <1>3, <1>4

\* What the rounds of the synchronisation are.
LEMMA SyncRoundsAre ==
  ASSUME NEW s, s.nextBlock \in Nat \ {0}, NEW snap
  PROVE  LET loop == SyncRounds(s, snap)
         IN  /\ loop[0] = SyncStart(s)
             /\ \A b \in 1..(s.nextBlock - 1) : loop[b] = SyncBlock(loop[b - 1], b, snap)
<1> DEFINE n == s.nextBlock - 1
           loop == SyncRounds(s, snap)
<1>1. n \in Nat
  OBVIOUS
<1>2. loop = CHOOSE f : SyncLoop(s, snap, n, f)
  BY DEF SyncRounds, SyncLoop, SyncStart
<1> HIDE DEF n, loop
<1>3. SyncLoop(s, snap, n, loop)
  BY <1>1, <1>2, SyncLoopExists
<1> DEFINE G(b) == IF b = 0 THEN SyncStart(s) ELSE SyncBlock(loop[b - 1], b, snap)
<1>4. loop = [b \in 0..n |-> G(b)]
  BY <1>3 DEF SyncLoop
<1> HIDE DEF G
<1>5. \A b \in 0..n : loop[b] = G(b)
  BY <1>4
<1>6. loop[0] = SyncStart(s)
  BY <1>1, <1>5 DEF G
<1>7. \A b \in 1..n : loop[b] = SyncBlock(loop[b - 1], b, snap)
  BY <1>1, <1>5 DEF G
<1> QED BY <1>6, <1>7 DEF n, loop

NextRun == [prune EXCEPT !.nextRun = @ + 1]
ApplyLoop(origin, mode, plans, n, f) ==
  f = [i \in 0..n |-> IF i = 0 THEN NextRun ELSE Apply(f[i - 1], origin, mode, plans[i])]

LEMMA ApplyLoopExists ==
  ASSUME NEW origin, NEW mode, NEW plans, NEW n \in Nat
  PROVE  \E f : ApplyLoop(origin, mode, plans, n, f)
<1> DEFINE Bad == {k \in Nat : ~ \E f : ApplyLoop(origin, mode, plans, k, f)}
<1>1. SUFFICES ASSUME Bad # {} PROVE FALSE
  OBVIOUS
<1>2. PICK k \in Bad : \A x \in Bad : k <= x
  <2>1. Bad \in SUBSET Nat
    OBVIOUS
  <2> HIDE DEF Bad
  <2> QED BY <1>1, <2>1, LeastOne
<1>3. CASE k = 0
  <2> DEFINE f == [b \in 0..0 |-> NextRun]
  <2>1. ApplyLoop(origin, mode, plans, 0, f)
    BY DEF ApplyLoop
  <2> QED BY <1>3, <2>1
<1>4. CASE k # 0
  <2>1. k \in Nat /\ k - 1 \in Nat /\ k - 1 \notin Bad
    BY <1>2, <1>4
  <2>2. PICK g : ApplyLoop(origin, mode, plans, k - 1, g)
    BY <2>1
  <2> DEFINE f == [b \in 0..k |-> IF b = k THEN Apply(g[k - 1], origin, mode, plans[k]) ELSE g[b]]
  <2>3. ASSUME NEW b \in 0..k
        PROVE  f[b] = IF b = 0 THEN NextRun ELSE Apply(f[b - 1], origin, mode, plans[b])
    <3>1. CASE b = k
      <4>1. f[b] = Apply(g[k - 1], origin, mode, plans[k]) /\ f[k - 1] = g[k - 1]
        BY <2>1, <3>1
      <4> QED BY <1>4, <3>1, <4>1
    <3>2. CASE b # k
      <4>1. f[b] = g[b] /\ (b # 0 => f[b - 1] = g[b - 1])
        BY <2>1, <3>2
      <4>2. b \in 0..(k - 1)
        BY <2>1, <3>2
      <4>3. g[b] = IF b = 0 THEN NextRun ELSE Apply(g[b - 1], origin, mode, plans[b])
        <5> DEFINE G(b_1) == IF b_1 = 0 THEN NextRun ELSE Apply(g[b_1 - 1], origin, mode, plans[b_1])
        <5>1. g = [x \in 0..(k - 1) |-> G(x)]
          BY <2>2 DEF ApplyLoop
        <5> HIDE DEF G
        <5>2. g[b] = G(b)
          BY <4>2, <5>1
        <5> QED BY <5>2 DEF G
      <4> QED BY <4>1, <4>3
    <3> QED BY <3>1, <3>2
  <2>4. f = [b \in 0..k |-> IF b = 0 THEN NextRun ELSE Apply(f[b - 1], origin, mode, plans[b])]
    <3> DEFINE G(b) == IF b = 0 THEN NextRun ELSE Apply(f[b - 1], origin, mode, plans[b])
    <3>1. \A b \in 0..k : f[b] = G(b)
      BY <2>3
    <3>2. f = [b \in 0..k |-> f[b]]
      OBVIOUS
    <3> HIDE DEF f, G
    <3>3. f = [b \in 0..k |-> G(b)]
      BY <3>1, <3>2
    <3> QED BY <3>3 DEF G
  <2>5. ApplyLoop(origin, mode, plans, k, f)
    <3> HIDE DEF f
    <3> QED BY <2>4 DEF ApplyLoop
  <2> QED BY <2>5
<1> QED BY <1>3, <1>4

\* What the rounds of a commit are.
LEMMA ApplyRoundsAre ==
  ASSUME NEW origin, NEW mode, NEW plans, Len(plans) \in Nat
  PROVE  LET loop == ApplyRounds(origin, mode, plans)
         IN  /\ loop[0] = NextRun
             /\ \A i \in 1..Len(plans) :
                  loop[i] = Apply(loop[i - 1], origin, mode, plans[i])
<1> DEFINE n == Len(plans)
           loop == ApplyRounds(origin, mode, plans)
<1>2. loop = CHOOSE f : ApplyLoop(origin, mode, plans, n, f)
  BY DEF ApplyRounds, ApplyLoop, NextRun
<1> HIDE DEF n, loop
<1>3. ApplyLoop(origin, mode, plans, n, loop)
  BY <1>2, ApplyLoopExists DEF n
<1> DEFINE G(i) == IF i = 0 THEN NextRun ELSE Apply(loop[i - 1], origin, mode, plans[i])
<1>4. loop = [i \in 0..n |-> G(i)]
  BY <1>3 DEF ApplyLoop
<1> HIDE DEF G
<1>5. \A i \in 0..n : loop[i] = G(i)
  BY <1>4
<1>6. loop[0] = NextRun
  BY <1>5 DEF G, n
<1>7. \A i \in 1..n : loop[i] = Apply(loop[i - 1], origin, mode, plans[i])
  BY <1>5 DEF G, n
<1> QED BY <1>6, <1>7 DEF n, loop

----------------------------------------------------------------------------
(***************************************************************************)
(* The synchronisation.                                                    *)
(***************************************************************************)

\* Two blocks that differ in the flag "active" at most.
SameBlock(x, y) ==
  /\ x \in Block /\ y \in Block
  /\ x.run = y.run /\ x.mode = y.mode /\ x.origin = y.origin /\ x.anchor = y.anchor
  /\ x.consumed = y.consumed /\ x.effective = y.effective /\ x.byUser = y.byUser

SameBlocks(r, s) ==
  /\ r.blocks \in [DOMAIN s.blocks -> Block]
  /\ \A k \in DOMAIN s.blocks : SameBlock(r.blocks[k], s.blocks[k])
  /\ r.byMessage = s.byMessage /\ r.nextBlock = s.nextBlock /\ r.nextRun = s.nextRun

\* The blocks up to b that the rule keeps alive.
AliveUpTo(s, snap, b) ==
  {k \in 1..b : s.blocks[k].origin \in snap /\ ~s.blocks[k].byUser}

\* A block that is active is at its anchor in the index, or another one is.
Anchored(r, snap) ==
  \A k \in r.active :
    LET a == r.blocks[k].anchor
    IN  a \in snap =>
          \/ a \in DOMAIN r.byAnchor /\ r.byAnchor[a] = k
          \/ \E j \in DOMAIN r.blocks \ {k} : r.blocks[j].anchor = a

\* What holds after the round of block b.
Round(s, r, snap, b) ==
  /\ Shaped(r) /\ SameBlocks(r, s) /\ Fcn(r.byAnchor)
  /\ r.active = {k \in 1..b : r.blocks[k].active}
  /\ r.active = AliveUpTo(s, snap, b)
                  \ UNION {s.blocks[k].consumed : k \in AliveUpTo(s, snap, b)}
  /\ \A a \in DOMAIN r.byAnchor :
       r.byAnchor[a] \in r.active /\ r.blocks[r.byAnchor[a]].anchor = a
  /\ Anchored(r, snap)

LEMMA RoundStarts ==
  ASSUME NEW s, Shaped(s), BlocksInv(s), NEW snap
  PROVE  Round(s, SyncStart(s), snap, 0)
<1> DEFINE r == SyncStart(s)
<1>1. r = [blocks |-> s.blocks, active |-> {}, byAnchor |-> EmptyFcn,
           byMessage |-> s.byMessage, nextBlock |-> s.nextBlock, nextRun |-> s.nextRun]
  <2>1. r = [s EXCEPT !.active = {}, !.byAnchor = EmptyFcn]
    BY DEF SyncStart
  <2> HIDE DEF r
  <2> QED BY <2>1, Zenon DEF Shaped
<1> HIDE DEF r
<1>2. Shaped(r)
  BY <1>1 DEF Shaped
<1>3. DOMAIN EmptyFcn = {} /\ 1..0 = {}
  BY DEF EmptyFcn
<1>4. SameBlocks(r, s)
  BY <1>1 DEF SameBlocks, SameBlock, BlocksInv
<1>5. r.active = {} /\ AliveUpTo(s, snap, 0) = {}
  BY <1>1, <1>3 DEF AliveUpTo
<1>6. r.active = {k \in 1..0 : r.blocks[k].active}
  BY <1>3, <1>5
<1>7. Anchored(r, snap) /\ DOMAIN r.byAnchor = {}
  BY <1>1, <1>3 DEF Anchored
<1>8. Fcn(r.byAnchor)
  <2>1. EmptyFcn = [x \in DOMAIN EmptyFcn |-> EmptyFcn[x]]
    BY DEF EmptyFcn
  <2> QED BY <1>1, <2>1 DEF Fcn
<1> QED BY <1>2, <1>4, <1>5, <1>6, <1>7, <1>8 DEF Round, r

LEMMA Flagged ==
  ASSUME NEW x \in Block, NEW v \in BOOLEAN
  PROVE  LET y == [x EXCEPT !.active = v]
         IN  y \in Block /\ SameBlock(y, x) /\ SameBlock(x, y) /\ y.active = v
<1> DEFINE y == [x EXCEPT !.active = v]
<1>1. y \in Block
  BY DEF Block
<1>2. y.active = v
  BY DEF Block
<1>3. /\ x.run = y.run /\ x.mode = y.mode /\ x.origin = y.origin /\ x.anchor = y.anchor
      /\ x.consumed = y.consumed /\ x.effective = y.effective /\ x.byUser = y.byUser
  BY DEF Block
<1> QED BY <1>1, <1>2, <1>3, Zenon DEF SameBlock

LEMMA SameBlockTransitive ==
  ASSUME NEW x, NEW y, NEW z, SameBlock(x, y), SameBlock(y, z)
  PROVE  SameBlock(x, z)
BY Zenon DEF SameBlock

\* A round for a block whose origin is gone, or that the user restored.
LEMMA RoundSkips ==
  ASSUME NEW s, BlocksInv(s), NEW snap, NEW b \in DOMAIN s.blocks, NEW r,
         Round(s, r, snap, b - 1),
         s.blocks[b].origin \notin snap \/ s.blocks[b].byUser
  PROVE  Round(s, SyncBlock(r, b, snap), snap, b)
<1> DEFINE q == SyncBlock(r, b, snap)
           blocks == [r.blocks EXCEPT ![b].active = FALSE]
<1>1. /\ b \in Nat \ {0} /\ b \in 1..(s.nextBlock - 1) /\ DOMAIN r.blocks = DOMAIN s.blocks
      /\ \A k \in DOMAIN s.blocks : SameBlock(r.blocks[k], s.blocks[k]) /\ r.blocks[k] \in Block
  BY DEF BlocksInv, Round, SameBlocks
<1>2. q = [r EXCEPT !.blocks = blocks]
  BY <1>1 DEF SyncBlock, SameBlock
<1>3. /\ DOMAIN blocks = DOMAIN s.blocks /\ blocks[b] = [r.blocks[b] EXCEPT !.active = FALSE]
      /\ \A k \in DOMAIN s.blocks \ {b} : blocks[k] = r.blocks[k]
  BY <1>1
<1> HIDE DEF blocks, q
<1>4. q = [blocks |-> blocks, active |-> r.active, byAnchor |-> r.byAnchor,
           byMessage |-> r.byMessage, nextBlock |-> r.nextBlock, nextRun |-> r.nextRun]
  BY <1>2, Zenon DEF Round, Shaped
<1>5. blocks[b] \in Block /\ SameBlock(blocks[b], r.blocks[b]) /\ blocks[b].active = FALSE
  BY <1>1, <1>3, Flagged
<1>6. blocks \in [DOMAIN s.blocks -> Block] /\ \A k \in DOMAIN s.blocks : SameBlock(blocks[k], s.blocks[k])
  <2>1. \A k \in DOMAIN s.blocks : blocks[k] \in Block /\ SameBlock(blocks[k], s.blocks[k])
    <3> SUFFICES ASSUME NEW k \in DOMAIN s.blocks
                 PROVE  blocks[k] \in Block /\ SameBlock(blocks[k], s.blocks[k])
      OBVIOUS
    <3>1. CASE k = b
      BY <1>1, <1>5, <3>1, SameBlockTransitive
    <3>2. CASE k # b
      BY <1>1, <1>3, <3>2
    <3> QED BY <3>1, <3>2
  <2>2. blocks = [k \in DOMAIN s.blocks |-> blocks[k]]
    BY <1>1, <1>3 DEF blocks
  <2> QED BY <2>1, <2>2
<1>7. Shaped(q) /\ SameBlocks(q, s)
  BY <1>4, <1>6 DEF Shaped, SameBlocks, Round
<1>8. AliveUpTo(s, snap, b) = AliveUpTo(s, snap, b - 1)
  BY <1>1 DEF AliveUpTo
<1>9. q.active = {k \in 1..b : q.blocks[k].active}
  <2>1. r.active = {k \in 1..(b - 1) : r.blocks[k].active}
    BY DEF Round
  <2>2. \A k \in 1..b : k # b => k \in 1..(b - 1) /\ k \in DOMAIN s.blocks
    BY <1>1 DEF BlocksInv
  <2>3. \A k \in 1..(b - 1) : k # b /\ k \in 1..b
    BY <1>1
  <2>4. q.active = r.active /\ q.blocks = blocks
    BY <1>4
  <2>5. \A k \in 1..b : k \in q.active <=> q.blocks[k].active
    BY <1>3, <1>5, <2>1, <2>2, <2>3, <2>4
  <2>6. q.active \subseteq 1..b
    BY <2>1, <2>3, <2>4
  <2> HIDE DEF q
  <2> QED BY <2>5, <2>6
<1>10. \A k \in DOMAIN s.blocks : q.blocks[k].anchor = r.blocks[k].anchor
  BY <1>1, <1>4, <1>6 DEF SameBlock
<1>11. r.active \subseteq DOMAIN s.blocks
  BY <1>1 DEF Round, BlocksInv
<1>12. \A a \in DOMAIN q.byAnchor :
         q.byAnchor[a] \in q.active /\ q.blocks[q.byAnchor[a]].anchor = a
  BY <1>4, <1>10, <1>11 DEF Round
<1>13. Anchored(q, snap)
  BY <1>1, <1>3, <1>4, <1>10, <1>11 DEF Round, Anchored
<1>14. q.active = AliveUpTo(s, snap, b) \ UNION {s.blocks[k].consumed : k \in AliveUpTo(s, snap, b)}
  BY <1>4, <1>8 DEF Round
<1>15. Fcn(q.byAnchor)
  BY <1>4 DEF Round
<1> QED BY <1>7, <1>9, <1>12, <1>13, <1>14, <1>15 DEF Round, q

\* A round for a block that the rule keeps alive.
LEMMA RoundFolds ==
  ASSUME NEW s, BlocksInv(s), NEW snap, NEW b \in DOMAIN s.blocks, NEW r,
         Round(s, r, snap, b - 1),
         s.blocks[b].origin \in snap, ~s.blocks[b].byUser
  PROVE  Round(s, SyncBlock(r, b, snap), snap, b)
<1> DEFINE q == SyncBlock(r, b, snap)
           folded == r.blocks[b].consumed \cap r.active
           blocks == [k \in DOMAIN r.blocks |->
                        IF k = b THEN [r.blocks[k] EXCEPT !.active = TRUE]
                        ELSE IF k \in folded THEN [r.blocks[k] EXCEPT !.active = FALSE]
                        ELSE r.blocks[k]]
           rest == EraseKeys(r.byAnchor, {a \in DOMAIN r.byAnchor : r.byAnchor[a] \in folded})
           anchor == r.blocks[b].anchor
           byAnchor == IF anchor \in snap THEN Put(rest, anchor, b) ELSE rest
           active == (r.active \ folded) \cup {b}
<1>1. /\ b \in Nat \ {0} /\ b \in 1..(s.nextBlock - 1) /\ DOMAIN r.blocks = DOMAIN s.blocks
      /\ \A k \in DOMAIN s.blocks : SameBlock(r.blocks[k], s.blocks[k]) /\ r.blocks[k] \in Block
  BY DEF BlocksInv, Round, SameBlocks
<1>2. q = [r EXCEPT !.blocks = blocks, !.active = active, !.byAnchor = byAnchor]
  <2>1. r.blocks[b].origin \in snap /\ ~r.blocks[b].byUser
    BY <1>1 DEF SameBlock
  <2> QED BY <2>1 DEF SyncBlock
<1>3. /\ DOMAIN blocks = DOMAIN s.blocks
      /\ \A k \in DOMAIN s.blocks :
           /\ blocks[k] \in Block /\ SameBlock(blocks[k], s.blocks[k])
           /\ blocks[k].active <=> IF k = b THEN TRUE
                                   ELSE IF k \in folded THEN FALSE ELSE r.blocks[k].active
  <2> SUFFICES ASSUME NEW k \in DOMAIN s.blocks
               PROVE  /\ blocks[k] \in Block /\ SameBlock(blocks[k], s.blocks[k])
                      /\ blocks[k].active <=> IF k = b THEN TRUE
                            ELSE IF k \in folded THEN FALSE ELSE r.blocks[k].active
    BY <1>1
  <2>1. CASE k = b
    <3>1. blocks[k] = [r.blocks[k] EXCEPT !.active = TRUE]
      BY <1>1, <2>1
    <3> QED BY <1>1, <2>1, <3>1, Flagged, SameBlockTransitive
  <2>2. CASE k # b /\ k \in folded
    <3>1. blocks[k] = [r.blocks[k] EXCEPT !.active = FALSE]
      BY <1>1, <2>2
    <3> HIDE DEF blocks, folded
    <3> QED BY <1>1, <2>2, <3>1, Flagged, SameBlockTransitive
  <2>3. CASE k # b /\ k \notin folded
    BY <1>1, <2>3
  <2> QED BY <2>1, <2>2, <2>3
<1>4. blocks \in [DOMAIN s.blocks -> Block]
  <2>1. blocks = [k \in DOMAIN s.blocks |-> blocks[k]]
    BY <1>1
  <2> QED BY <1>3, <2>1
<1>5. /\ folded = s.blocks[b].consumed \cap r.active
      /\ anchor = s.blocks[b].anchor
      /\ s.blocks[b].consumed \subseteq 1..(b - 1)
  BY <1>1 DEF SameBlock, BlocksInv
<1> HIDE DEF blocks, q, folded, anchor
<1>6. q = [blocks |-> blocks, active |-> active, byAnchor |-> byAnchor,
           byMessage |-> r.byMessage, nextBlock |-> r.nextBlock, nextRun |-> r.nextRun]
  <2> HIDE DEF active, byAnchor
  <2> QED BY <1>2, Zenon DEF Round, Shaped
<1>7. Shaped(q) /\ SameBlocks(q, s)
  <2> HIDE DEF active, byAnchor
  <2> QED BY <1>3, <1>4, <1>6 DEF Shaped, SameBlocks, Round
<1>8. AliveUpTo(s, snap, b) = AliveUpTo(s, snap, b - 1) \cup {b}
  BY <1>1 DEF AliveUpTo
<1>9. active = AliveUpTo(s, snap, b) \ UNION {s.blocks[k].consumed : k \in AliveUpTo(s, snap, b)}
  <2> DEFINE alive == AliveUpTo(s, snap, b - 1)
             eaten == UNION {s.blocks[k].consumed : k \in alive}
  <2>1. r.active = alive \ eaten
    BY DEF Round
  <2>2. UNION {s.blocks[k].consumed : k \in alive \cup {b}} = eaten \cup s.blocks[b].consumed
    <3> HIDE DEF alive
    <3> QED OBVIOUS
  <2>3. b \notin eaten /\ b \notin s.blocks[b].consumed
    <3>1. \A k \in alive : k \in 1..(b - 1) /\ k \in DOMAIN s.blocks
      BY <1>1 DEF AliveUpTo, BlocksInv
    <3>2. \A k \in alive : b \notin s.blocks[k].consumed
      BY <1>1, <3>1 DEF BlocksInv
    <3> HIDE DEF alive
    <3> QED BY <1>1, <1>5, <3>2
  <2> HIDE DEF alive, eaten
  <2>4. active = (alive \cup {b}) \ (eaten \cup s.blocks[b].consumed)
    BY <1>5, <2>1, <2>3
  <2> QED BY <1>8, <2>2, <2>4 DEF alive
<1>10. r.active \subseteq DOMAIN s.blocks /\ r.active \subseteq 1..(b - 1)
  BY <1>1 DEF Round, BlocksInv
<1>11. q.active = {k \in 1..b : q.blocks[k].active}
  <2>1. r.active = {k \in 1..(b - 1) : r.blocks[k].active}
    BY DEF Round
  <2>2. \A k \in 1..b : k # b => k \in 1..(b - 1) /\ k \in DOMAIN s.blocks
    BY <1>1 DEF BlocksInv
  <2>3. \A k \in 1..(b - 1) : k # b /\ k \in 1..b
    BY <1>1
  <2>4. b \in 1..b
    BY <1>1
  <2>5. \A k \in 1..b : k \in q.active <=> q.blocks[k].active
    BY <1>1, <1>3, <1>6, <2>1, <2>2, <2>3, <2>4
  <2>6. q.active \subseteq 1..b
    BY <1>6, <2>1, <2>3, <2>4
  <2> HIDE DEF q
  <2> QED BY <2>5, <2>6
<1>12. \A k \in DOMAIN s.blocks : q.blocks[k].anchor = s.blocks[k].anchor
                                  /\ r.blocks[k].anchor = s.blocks[k].anchor
  BY <1>1, <1>3, <1>6 DEF SameBlock
<1>13. /\ DOMAIN rest = {a \in DOMAIN r.byAnchor : r.byAnchor[a] \notin folded}
       /\ \A a \in DOMAIN rest : rest[a] = r.byAnchor[a]
  BY DEF EraseKeys
<1>18. Fcn(byAnchor)
  <2>1. Fcn(rest)
    BY DEF EraseKeys, Fcn
  <2>2. Fcn(Put(rest, anchor, b))
    <3> HIDE DEF rest
    <3> QED BY DEF Put, Fcn
  <2> HIDE DEF rest
  <2> QED BY <2>1, <2>2
<1>14. \A a \in DOMAIN rest : rest[a] \in r.active \ folded /\ s.blocks[rest[a]].anchor = a
  <2> HIDE DEF rest
  <2> QED BY <1>10, <1>12, <1>13 DEF Round
<1> HIDE DEF rest
<1>15. /\ DOMAIN byAnchor = DOMAIN rest \cup (IF anchor \in snap THEN {anchor} ELSE {})
       /\ \A a \in DOMAIN byAnchor :
            byAnchor[a] = IF anchor \in snap /\ a = anchor THEN b ELSE rest[a]
  BY DEF Put
<1> HIDE DEF byAnchor
<1>16. \A a \in DOMAIN q.byAnchor :
         q.byAnchor[a] \in q.active /\ q.blocks[q.byAnchor[a]].anchor = a
  BY <1>1, <1>5, <1>6, <1>10, <1>12, <1>14, <1>15
<1>17. Anchored(q, snap)
  <2> SUFFICES ASSUME NEW k \in q.active, s.blocks[k].anchor \in snap
               PROVE  \/ /\ s.blocks[k].anchor \in DOMAIN byAnchor
                         /\ byAnchor[s.blocks[k].anchor] = k
                      \/ \E j \in DOMAIN s.blocks \ {k} : s.blocks[j].anchor = s.blocks[k].anchor
    <3>1. q.active \subseteq DOMAIN s.blocks /\ DOMAIN q.blocks = DOMAIN s.blocks
      BY <1>1, <1>3, <1>6, <1>10
    <3> QED BY <1>6, <1>12, <3>1 DEF Anchored
  <2>1. CASE k = b
    BY <1>5, <1>15, <2>1
  <2>2. CASE k # b
    <3>1. k \in r.active \ folded /\ k \in DOMAIN s.blocks
      BY <1>6, <1>10, <2>2
    <3>2. \/ /\ s.blocks[k].anchor \in DOMAIN r.byAnchor
             /\ r.byAnchor[s.blocks[k].anchor] = k
          \/ \E j \in DOMAIN s.blocks \ {k} : s.blocks[j].anchor = s.blocks[k].anchor
      BY <1>1, <1>12, <3>1 DEF Round, Anchored
    <3>3. CASE s.blocks[k].anchor = anchor
      BY <1>1, <1>5, <1>15, <2>2, <3>3
    <3>4. CASE s.blocks[k].anchor # anchor
      BY <1>13, <1>15, <3>1, <3>2, <3>4
    <3> QED BY <3>3, <3>4
  <2> QED BY <2>1, <2>2
<1> QED BY <1>6, <1>7, <1>9, <1>11, <1>16, <1>17, <1>18 DEF Round, q

\* Synced: what the synchronisation of a state makes of it.
Synced(s, t, snap) ==
  /\ PruneInv(t, Found(s, snap))
  /\ Found(t, snap) = Found(s, snap)
  /\ Anchored(t, snap)
  /\ DOMAIN t.blocks = DOMAIN s.blocks
  /\ \A k \in DOMAIN s.blocks : SameBlock(t.blocks[k], s.blocks[k])
  /\ t.nextBlock = s.nextBlock /\ t.nextRun = s.nextRun

LEMMA SyncSyncs ==
  ASSUME NEW s, Shaped(s), BlocksInv(s), EntriesInv(s), NEW snap
  PROVE  Synced(s, Sync(s, snap), snap)
<1> DEFINE n == s.nextBlock - 1
           loop == SyncRounds(s, snap)
           Bad == {b \in 0..n : ~Round(s, loop[b], snap, b)}
<1>1. n \in Nat /\ DOMAIN s.blocks = 1..n /\ s.nextBlock \in Nat \ {0}
  BY DEF BlocksInv
<1>2. loop[0] = SyncStart(s) /\ \A b \in 1..n : loop[b] = SyncBlock(loop[b - 1], b, snap)
  BY <1>1, SyncRoundsAre
<1> HIDE DEF loop
<1>3. Bad = {}
  <2> SUFFICES ASSUME Bad # {} PROVE FALSE
    OBVIOUS
  <2>1. PICK b \in Bad : \A x \in Bad : b <= x
    <3>1. Bad \in SUBSET Nat
      BY <1>1
    <3> HIDE DEF Bad
    <3> QED BY <3>1, LeastOne
  <2>2. b # 0
    BY <1>2, <2>1, RoundStarts
  <2>3. b \in 1..n /\ b - 1 \in 0..n /\ b - 1 \notin Bad
    BY <1>1, <2>1, <2>2
  <2>4. Round(s, loop[b - 1], snap, b - 1)
    BY <2>3
  <2>5. Round(s, SyncBlock(loop[b - 1], b, snap), snap, b)
    BY <1>1, <2>3, <2>4, RoundSkips, RoundFolds
  <2> QED BY <1>2, <2>1, <2>3, <2>5
<1> DEFINE r == loop[n]
           t == RefreshEntries(r)
           found == Found(s, snap)
<1>4. Round(s, r, snap, n)
  BY <1>1, <1>3
<1>5. t = Sync(s, snap)
  BY DEF Sync, loop
<1> HIDE DEF r, Bad, n
<1> DEFINE entries == [m \in DOMAIN r.byMessage |->
                         [all |-> r.byMessage[m].all, active |-> r.byMessage[m].all \cap r.active]]
<1>6. t = [r EXCEPT !.byMessage = entries]
  BY DEF RefreshEntries
<1> HIDE DEF t, entries
<1>7. t = [blocks |-> r.blocks, active |-> r.active, byAnchor |-> r.byAnchor,
           byMessage |-> entries, nextBlock |-> r.nextBlock, nextRun |-> r.nextRun]
  BY <1>4, <1>6, Zenon DEF Round, Shaped
<1>8. Shaped(t) /\ t.blocks = r.blocks /\ t.active = r.active /\ t.byAnchor = r.byAnchor
      /\ t.byMessage = entries /\ t.nextBlock = s.nextBlock /\ t.nextRun = s.nextRun
  BY <1>4, <1>7 DEF Shaped, Round, SameBlocks
<1>9. /\ t.blocks \in [DOMAIN s.blocks -> Block] /\ DOMAIN t.blocks = DOMAIN s.blocks
      /\ \A k \in DOMAIN s.blocks : SameBlock(t.blocks[k], s.blocks[k])
  BY <1>4, <1>8 DEF Round, SameBlocks
<1>10. BlocksInv(t)
  BY <1>8, <1>9 DEF BlocksInv, SameBlock
<1>11. /\ DOMAIN entries = DOMAIN s.byMessage
       /\ \A m \in DOMAIN entries :
            /\ entries[m] = [all |-> entries[m].all, active |-> entries[m].active]
            /\ entries[m].all = s.byMessage[m].all
            /\ entries[m].active = s.byMessage[m].all \cap r.active
  <2>1. /\ DOMAIN entries = DOMAIN s.byMessage
        /\ \A m \in DOMAIN entries :
             entries[m] = [all |-> s.byMessage[m].all,
                           active |-> s.byMessage[m].all \cap r.active]
    BY <1>4 DEF entries, Round, SameBlocks
  <2> SUFFICES ASSUME NEW m \in DOMAIN entries
               PROVE  /\ entries[m] = [all |-> entries[m].all, active |-> entries[m].active]
                      /\ entries[m].all = s.byMessage[m].all
                      /\ entries[m].active = s.byMessage[m].all \cap r.active
    BY <2>1
  <2>2. entries[m] = [all |-> s.byMessage[m].all,
                      active |-> s.byMessage[m].all \cap r.active]
    BY <2>1
  <2>3. /\ entries[m].all = s.byMessage[m].all
        /\ entries[m].active = s.byMessage[m].all \cap r.active
    BY <2>2
  <2> QED BY <2>2, <2>3
<1>12. EntriesInv(t)
  <2>1. \A m \in DOMAIN entries : entries[m].all = {b \in DOMAIN t.blocks : m \in t.blocks[b].effective}
    <3> SUFFICES ASSUME NEW m \in DOMAIN entries
                 PROVE  entries[m].all = {b \in DOMAIN t.blocks : m \in t.blocks[b].effective}
      OBVIOUS
    <3>1. entries[m].all = {b \in DOMAIN s.blocks : m \in s.blocks[b].effective}
      BY <1>11 DEF EntriesInv
    <3>2. \A b \in DOMAIN s.blocks : t.blocks[b].effective = s.blocks[b].effective
      BY <1>9 DEF SameBlock
    <3> QED BY <1>9, <3>1, <3>2
  <2>2. \A m \in DOMAIN entries : entries[m] = [all |-> entries[m].all, active |-> entries[m].active]
    BY <1>11
  <2>3. \A b \in DOMAIN t.blocks : t.blocks[b].effective \subseteq DOMAIN t.byMessage
    BY <1>8, <1>9, <1>11 DEF EntriesInv, SameBlock
  <2> QED BY <1>8, <1>11, <2>1, <2>2, <2>3 DEF EntriesInv
<1>13. Agree(t)
  <2>1. t.active = {b \in DOMAIN t.blocks : t.blocks[b].active}
    BY <1>1, <1>4, <1>8, <1>9 DEF Round
  <2>2. \A m \in DOMAIN t.byMessage : t.byMessage[m].active = t.byMessage[m].all \cap t.active
    BY <1>8, <1>11
  <2>3. \A a \in DOMAIN t.byAnchor :
          t.byAnchor[a] \in t.active /\ t.blocks[t.byAnchor[a]].anchor = a
    BY <1>4, <1>8 DEF Round
  <2> QED BY <2>1, <2>2, <2>3 DEF Agree
<1>14. Found(t, snap) = found /\ found \subseteq DOMAIN t.blocks
  BY <1>9 DEF Found, SameBlock
<1>15. Alive(t, found) = AliveUpTo(s, snap, n)
  BY <1>1, <1>9 DEF Alive, AliveUpTo, Found, SameBlock
<1>16. Derived(t, found)
  <2>1. \A k \in AliveUpTo(s, snap, n) : t.blocks[k].consumed = s.blocks[k].consumed
    BY <1>1, <1>9 DEF AliveUpTo, SameBlock
  <2>2. UNION {t.blocks[k].consumed : k \in AliveUpTo(s, snap, n)}
          = UNION {s.blocks[k].consumed : k \in AliveUpTo(s, snap, n)}
    BY <2>1
  <2> QED BY <1>4, <1>8, <1>15, <2>2 DEF Derived, Round
<1>17. Anchored(t, snap)
  BY <1>4, <1>8 DEF Round, Anchored
<1>18. Fcn(t.byAnchor)
  BY <1>4, <1>8 DEF Round
<1> QED BY <1>5, <1>8, <1>9, <1>10, <1>12, <1>13, <1>14, <1>16, <1>17, <1>18 DEF Synced, PruneInv

----------------------------------------------------------------------------
(***************************************************************************)
(* The commit.                                                             *)
(***************************************************************************)

\* One entry of a call, on whatever state its commit finds.
LEMMA ApplyKeeps ==
  ASSUME NEW s, NEW found, PruneInv(s, found),
         NEW origin \in Msg, NEW mode \in {"range", "message"},
         NEW plan \in Plan, plan.consumed \subseteq DOMAIN s.blocks,
         s.nextBlock \in BlockIds
  PROVE  LET t == Apply(s, origin, mode, plan)
         IN  /\ PruneInv(t, found \cup {s.nextBlock})
             /\ t.nextBlock = s.nextBlock + 1 /\ t.nextRun = s.nextRun
             /\ DOMAIN t.blocks = DOMAIN s.blocks \cup {s.nextBlock}
<1> DEFINE t         == Apply(s, origin, mode, plan)
           b         == s.nextBlock
           effective == plan.msgs \cup UNION {s.blocks[k].effective : k \in plan.consumed}
           folded    == {k \in plan.consumed : s.blocks[k].active}
           known     == plan.msgs \cup DOMAIN s.byMessage
           left(m)   == EntryOf(s, m).active
                          \ {k \in plan.consumed : m \in s.blocks[k].effective}
           entry(m)  == IF m \in effective
                        THEN [all |-> EntryOf(s, m).all \cup {b}, active |-> left(m) \cup {b}]
                        ELSE EntryOf(s, m)
           block     == [run |-> s.nextRun - 1, mode |-> mode, origin |-> origin,
                         anchor |-> plan.anchor, consumed |-> plan.consumed,
                         effective |-> effective,
                         active |-> TRUE, byUser |-> FALSE]
           before    == [k \in DOMAIN s.blocks |->
                           IF k \in folded THEN [s.blocks[k] EXCEPT !.active = FALSE]
                                           ELSE s.blocks[k]]
           anchors   == Put(s.byAnchor, plan.anchor, b)
           blocks    == Put(before, b, block)
           active    == (s.active \cup {b}) \ folded
           byAnchor  == EraseKeys(anchors, {a \in DOMAIN anchors :
                           anchors[a] \in folded /\ s.blocks[anchors[a]].anchor = a})
           byMessage == [m \in known |-> entry(m)]
<1>1. t = [blocks |-> blocks, active |-> active, byAnchor |-> byAnchor,
           byMessage |-> byMessage, nextBlock |-> b + 1, nextRun |-> s.nextRun]
  BY Zenon DEF Apply
<1> HIDE DEF t
<1>2. /\ b \in Nat \ {0} /\ s.nextRun \in Nat \ {0} /\ DOMAIN s.blocks = 1..(b - 1)
      /\ b \notin DOMAIN s.blocks /\ s.nextRun - 1 \in Nat
      /\ \A k \in DOMAIN s.blocks : s.blocks[k] \in Block
  BY DEF PruneInv, BlocksInv
<1>3. effective \in SUBSET Msg /\ plan.msgs \subseteq Msg /\ plan.anchor \in Msg
  BY <1>2 DEF Plan, Block
<1>4. folded = plan.consumed \cap s.active /\ s.active \subseteq DOMAIN s.blocks
  BY DEF PruneInv, Agree
\* The blocks.
<1>5. /\ DOMAIN blocks = DOMAIN s.blocks \cup {b} /\ blocks[b] = block
      /\ \A k \in DOMAIN s.blocks : blocks[k] = before[k]
  <2> HIDE DEF before, block
  <2>1. DOMAIN before = DOMAIN s.blocks
    BY DEF before
  <2> QED BY <1>2, <2>1 DEF Put
<1>6. \A k \in DOMAIN s.blocks :
        /\ blocks[k] \in Block /\ SameBlock(blocks[k], s.blocks[k])
        /\ blocks[k].active <=> s.blocks[k].active /\ k \notin folded
  <2> SUFFICES ASSUME NEW k \in DOMAIN s.blocks
               PROVE  /\ before[k] \in Block /\ SameBlock(before[k], s.blocks[k])
                      /\ before[k].active <=> s.blocks[k].active /\ k \notin folded
    <3> HIDE DEF before, blocks, folded
    <3> QED BY <1>5
  <2>1. CASE k \in folded
    <3>1. before[k] = [s.blocks[k] EXCEPT !.active = FALSE]
      BY <2>1
    <3> HIDE DEF before, folded
    <3> QED BY <1>2, <2>1, <3>1, Flagged
  <2>2. CASE k \notin folded
    BY <1>2, <2>2 DEF SameBlock
  <2> QED BY <2>1, <2>2
<1>7. block \in Block
  BY <1>2, <1>3 DEF Block, Plan
<1>8. /\ block.consumed = plan.consumed /\ block.effective = effective /\ block.active = TRUE
      /\ block.byUser = FALSE /\ block.anchor = plan.anchor /\ block.run = s.nextRun - 1
  OBVIOUS
<1> HIDE DEF blocks, block, before, effective, folded
<1>9. /\ t.blocks = blocks /\ t.active = active /\ t.byAnchor = byAnchor
      /\ t.byMessage = byMessage /\ t.nextBlock = b + 1 /\ t.nextRun = s.nextRun
  <2> HIDE DEF active, byAnchor, byMessage, b
  <2> QED BY <1>1
<1>10. Shaped(t)
  <2> HIDE DEF active, byAnchor, byMessage, b
  <2> QED BY <1>1, <1>9, Zenon DEF Shaped
<1>11. DOMAIN blocks = 1..b
  BY <1>2, <1>5
<1>12. BlocksInv(t)
  <2>1. blocks \in [DOMAIN blocks -> Block]
    <3>1. \A k \in DOMAIN blocks : blocks[k] \in Block
      BY <1>5, <1>6, <1>7
    <3>2. blocks = [k \in DOMAIN blocks |-> blocks[k]]
      BY DEF blocks, Put
    <3> QED BY <3>1, <3>2
  <2>2. \A k \in DOMAIN blocks : blocks[k].consumed \subseteq 1..(k - 1) /\ blocks[k].run < s.nextRun
    <3> SUFFICES ASSUME NEW k \in DOMAIN blocks
                 PROVE  blocks[k].consumed \subseteq 1..(k - 1) /\ blocks[k].run < s.nextRun
      OBVIOUS
    <3>1. CASE k = b
      BY <1>2, <1>5, <1>8, <3>1
    <3>2. CASE k # b
      <4>1. k \in DOMAIN s.blocks
        BY <1>5, <3>2
      <4>2. s.blocks[k].consumed \subseteq 1..(k - 1) /\ s.blocks[k].run < s.nextRun
        BY <4>1 DEF PruneInv, BlocksInv
      <4> QED BY <1>6, <4>1, <4>2 DEF SameBlock
    <3> QED BY <3>1, <3>2
  <2>3. b + 1 \in Nat \ {0} /\ (b + 1) - 1 = b
    BY <1>2
  <2> QED BY <1>2, <1>9, <1>11, <2>1, <2>2, <2>3 DEF BlocksInv
\* The entries.
<1>13. \A m : /\ EntryOf(s, m).all = {k \in DOMAIN s.blocks : m \in s.blocks[k].effective}
              /\ EntryOf(s, m).active = EntryOf(s, m).all \cap s.active
              /\ EntryOf(s, m) = [all |-> EntryOf(s, m).all, active |-> EntryOf(s, m).active]
  <2> SUFFICES ASSUME NEW m
               PROVE  /\ EntryOf(s, m).all = {k \in DOMAIN s.blocks : m \in s.blocks[k].effective}
                      /\ EntryOf(s, m).active = EntryOf(s, m).all \cap s.active
                      /\ EntryOf(s, m) = [all |-> EntryOf(s, m).all, active |-> EntryOf(s, m).active]
    OBVIOUS
  <2>1. CASE m \in DOMAIN s.byMessage
    <3>1. EntryOf(s, m) = s.byMessage[m]
      BY <2>1 DEF EntryOf
    <3> QED BY <2>1, <3>1 DEF PruneInv, EntriesInv, Agree
  <2>2. CASE m \notin DOMAIN s.byMessage
    <3>1. EntryOf(s, m) = [all |-> {}, active |-> {}]
      BY <2>2 DEF EntryOf, NoEntry
    <3>2. {k \in DOMAIN s.blocks : m \in s.blocks[k].effective} = {}
      BY <2>2 DEF PruneInv, EntriesInv
    <3> QED BY <3>1, <3>2
  <2> QED BY <2>1, <2>2
<1>14. \A m \in known :
         /\ entry(m) = [all |-> entry(m).all, active |-> entry(m).active]
         /\ entry(m).all = EntryOf(s, m).all \cup (IF m \in effective THEN {b} ELSE {})
         /\ entry(m).active = IF m \in effective THEN left(m) \cup {b} ELSE EntryOf(s, m).active
  <2> SUFFICES ASSUME NEW m \in known
               PROVE  /\ entry(m) = [all |-> entry(m).all, active |-> entry(m).active]
                      /\ entry(m).all = EntryOf(s, m).all \cup (IF m \in effective THEN {b} ELSE {})
                      /\ entry(m).active = IF m \in effective THEN left(m) \cup {b}
                                           ELSE EntryOf(s, m).active
    OBVIOUS
  <2>1. CASE m \in effective
    <3>1. entry(m) = [all |-> EntryOf(s, m).all \cup {b}, active |-> left(m) \cup {b}]
      BY <2>1
    <3> HIDE DEF entry, left, b
    <3> QED BY <2>1, <3>1
  <2>2. CASE m \notin effective
    <3>1. entry(m) = EntryOf(s, m)
      BY <2>2
    <3>2. EntryOf(s, m) = [all |-> EntryOf(s, m).all, active |-> EntryOf(s, m).active]
      BY <1>13
    <3>3. EntryOf(s, m).all \cup {} = EntryOf(s, m).all
      OBVIOUS
    <3> HIDE DEF entry, left, b
    <3> QED BY <2>2, <3>1, <3>2, <3>3
  <2> QED BY <2>1, <2>2
<1>15. \A m \in known : entry(m).all = {k \in DOMAIN blocks : m \in blocks[k].effective}
  <2> SUFFICES ASSUME NEW m \in known
               PROVE  entry(m).all = {k \in DOMAIN blocks : m \in blocks[k].effective}
    OBVIOUS
  <2>1. \A k \in DOMAIN s.blocks : blocks[k].effective = s.blocks[k].effective
    BY <1>6 DEF SameBlock
  <2> DEFINE all == EntryOf(s, m).all
             now == entry(m).all
  <2>2. all = {k \in DOMAIN s.blocks : m \in s.blocks[k].effective}
    BY <1>13
  <2>3. now = all \cup (IF m \in effective THEN {b} ELSE {})
    BY <1>14
  <2> HIDE DEF entry, known, all, now
  <2>4. now = {k \in DOMAIN blocks : m \in blocks[k].effective}
    BY <1>5, <1>8, <2>1, <2>2, <2>3
  <2> QED BY <2>4 DEF now
<1>16. \A m \in known : entry(m).active = entry(m).all \cap active
  <2> SUFFICES ASSUME NEW m \in known
               PROVE  entry(m).active = entry(m).all \cap active
    OBVIOUS
  <2> DEFINE all == EntryOf(s, m).all
  <2>1. all = {k \in DOMAIN s.blocks : m \in s.blocks[k].effective}
        /\ EntryOf(s, m).active = all \cap s.active
    BY <1>13
  <2> HIDE DEF all
  <2>2. CASE m \in effective
    <3>1. entry(m).active
            = ((all \cap s.active) \ {k \in plan.consumed : m \in s.blocks[k].effective}) \cup {b}
      BY <1>14, <2>1, <2>2
    <3>2. entry(m).all = all \cup {b}
      BY <1>14, <2>2 DEF all
    <3>3. {k \in plan.consumed : m \in s.blocks[k].effective} = plan.consumed \cap all
      BY <2>1
    <3>4. b \notin plan.consumed
      BY <1>2
    <3> HIDE DEF entry
    <3> QED BY <1>2, <1>4, <2>1, <3>1, <3>2, <3>3, <3>4
  <2>3. CASE m \notin effective
    <3>1. entry(m).active = all \cap s.active /\ entry(m).all = all
      BY <1>14, <2>1, <2>3 DEF all
    <3>2. all \cap folded = {}
      BY <1>4, <2>1, <2>3 DEF effective
    <3>3. b \notin all
      BY <1>2, <2>1
    <3> HIDE DEF entry
    <3> QED BY <3>1, <3>2, <3>3
  <2> QED BY <2>2, <2>3
<1>17. DOMAIN byMessage = known /\ \A m \in known : byMessage[m] = entry(m)
  <2> HIDE DEF entry, known
  <2> QED OBVIOUS
<1> HIDE DEF entry, byMessage
<1>18. EntriesInv(t)
  <2>1. known \subseteq Msg
    BY <1>3 DEF PruneInv, EntriesInv
  <2>2. \A k \in DOMAIN blocks : blocks[k].effective \subseteq known
    <3>1. effective \subseteq known
      BY DEF effective, PruneInv, EntriesInv
    <3>2. \A k \in DOMAIN s.blocks : blocks[k].effective = s.blocks[k].effective
      BY <1>6 DEF SameBlock
    <3> QED BY <1>5, <1>8, <3>1, <3>2 DEF PruneInv, EntriesInv
  <2> HIDE DEF known
  <2>3. \A m \in DOMAIN byMessage :
          /\ byMessage[m] = [all |-> byMessage[m].all, active |-> byMessage[m].active]
          /\ byMessage[m].all = {k \in DOMAIN blocks : m \in blocks[k].effective}
    <3> SUFFICES ASSUME NEW m \in known
                 PROVE  /\ byMessage[m] = [all |-> byMessage[m].all, active |-> byMessage[m].active]
                        /\ byMessage[m].all = {k \in DOMAIN blocks : m \in blocks[k].effective}
      BY <1>17
    <3>1. byMessage[m] = entry(m)
      BY <1>17
    <3>2. entry(m) = [all |-> entry(m).all, active |-> entry(m).active]
      BY <1>14
    <3>3. entry(m).all = {k \in DOMAIN blocks : m \in blocks[k].effective}
      BY <1>15
    <3> QED BY <3>1, <3>2, <3>3, Zenon
  <2>4. DOMAIN byMessage = known
    BY <1>17
  <2> QED BY <1>9, <2>1, <2>2, <2>3, <2>4, Zenon DEF EntriesInv
\* The indexes.
<1>19. active = {k \in DOMAIN blocks : blocks[k].active}
  <2>1. s.active = {k \in DOMAIN s.blocks : s.blocks[k].active}
    BY DEF PruneInv, Agree
  <2>2. b \notin folded
    BY <1>2, <1>4
  <2> QED BY <1>5, <1>6, <1>8, <2>1, <2>2
<1>20. \A a \in DOMAIN byAnchor : byAnchor[a] \in active /\ blocks[byAnchor[a]].anchor = a
  <2>1. /\ DOMAIN anchors = DOMAIN s.byAnchor \cup {plan.anchor}
        /\ \A a \in DOMAIN anchors : anchors[a] = IF a = plan.anchor THEN b ELSE s.byAnchor[a]
    BY DEF Put
  <2> HIDE DEF anchors
  <2>2. /\ DOMAIN byAnchor = DOMAIN anchors \ {a \in DOMAIN anchors :
                           anchors[a] \in folded /\ s.blocks[anchors[a]].anchor = a}
        /\ \A a \in DOMAIN byAnchor : byAnchor[a] = anchors[a]
    BY DEF EraseKeys
  <2> SUFFICES ASSUME NEW a \in DOMAIN byAnchor
               PROVE  byAnchor[a] \in active /\ blocks[byAnchor[a]].anchor = a
    OBVIOUS
  <2>3. byAnchor[a] = anchors[a] /\ a \in DOMAIN anchors
        /\ ~(anchors[a] \in folded /\ s.blocks[anchors[a]].anchor = a)
    BY <2>2
  <2> HIDE DEF byAnchor
  <2>4. CASE a = plan.anchor
    <3>1. byAnchor[a] = b /\ b \notin folded
      BY <1>2, <1>4, <2>1, <2>3, <2>4
    <3> QED BY <1>5, <1>8, <2>4, <3>1
  <2>5. CASE a # plan.anchor
    <3>1. byAnchor[a] = s.byAnchor[a] /\ a \in DOMAIN s.byAnchor
      BY <2>1, <2>3, <2>5
    <3>2. s.byAnchor[a] \in s.active /\ s.blocks[s.byAnchor[a]].anchor = a
      BY <3>1 DEF PruneInv, Agree
    <3>3. s.byAnchor[a] \notin folded
      BY <2>1, <2>3, <3>1, <3>2, <2>5
    <3>4. blocks[s.byAnchor[a]].anchor = a
      BY <1>4, <1>6, <3>2 DEF SameBlock
    <3> QED BY <3>1, <3>2, <3>3, <3>4
  <2> QED BY <2>4, <2>5
<1>21. Agree(t)
  <2> HIDE DEF active, byAnchor, known
  <2> QED BY <1>9, <1>16, <1>17, <1>19, <1>20 DEF Agree
\* The rule.
<1>22. Alive(t, found \cup {b}) = Alive(s, found) \cup {b}
  <2>1. found \subseteq DOMAIN s.blocks /\ b \notin found
    BY <1>2 DEF PruneInv
  <2>2. \A k \in found : blocks[k].byUser = s.blocks[k].byUser
    BY <1>6, <2>1 DEF SameBlock
  <2> QED BY <1>5, <1>8, <1>9, <2>1, <2>2 DEF Alive
<1>23. Derived(t, found \cup {b})
  <2> DEFINE alive == Alive(s, found)
             eaten == UNION {s.blocks[k].consumed : k \in alive}
  <2>1. alive \subseteq DOMAIN s.blocks
    BY DEF Alive, PruneInv
  <2>2. s.active = alive \ eaten
    BY DEF PruneInv, Derived
  <2>3. b \notin eaten
    <3>1. \A k \in alive : b \notin s.blocks[k].consumed
      BY <1>2, <2>1 DEF PruneInv, BlocksInv
    <3> HIDE DEF alive
    <3> QED BY <3>1
  <2>4. \A k \in alive : blocks[k].consumed = s.blocks[k].consumed
    BY <1>6, <2>1 DEF SameBlock
  <2>5. UNION {blocks[k].consumed : k \in alive \cup {b}} = eaten \cup plan.consumed
    <3> HIDE DEF alive
    <3> QED BY <1>5, <1>8, <2>4
  <2>6. active = (alive \cup {b}) \ (eaten \cup plan.consumed)
    <3>1. b \notin plan.consumed
      BY <1>2
    <3> HIDE DEF alive, eaten, b
    <3> QED BY <1>4, <2>2, <2>3, <3>1
  <2> HIDE DEF active, eaten, alive
  <2>7. t.active = active /\ t.blocks = blocks /\ Alive(t, found \cup {b}) = alive \cup {b}
    BY <1>9, <1>22 DEF alive
  <2> DEFINE now == Alive(t, found \cup {b})
  <2> HIDE DEF now
  <2>8. now = alive \cup {b}
    BY <2>7 DEF now
  <2>9. UNION {t.blocks[k].consumed : k \in now} = UNION {blocks[k].consumed : k \in alive \cup {b}}
    <3> HIDE DEF b
    <3> QED BY <2>7, <2>8
  <2>10. t.active = now \ UNION {t.blocks[k].consumed : k \in now}
    BY <2>5, <2>6, <2>7, <2>8, <2>9, Zenon
  <2> QED BY <2>10, Zenon DEF Derived, now
<1>24. found \cup {b} \subseteq DOMAIN t.blocks
  BY <1>5, <1>9 DEF PruneInv
<1>25. Fcn(byAnchor)
  <2> HIDE DEF anchors
  <2> QED BY DEF EraseKeys, Fcn
<1> HIDE DEF active, byAnchor
<1> QED BY <1>5, <1>9, <1>10, <1>12, <1>18, <1>21, <1>23, <1>24, <1>25 DEF PruneInv, t

\* The entries of a call, one after the other: the counter moves by one with
\* each, and every block made on the way counts as found.
LEMMA ApplyAllKeeps ==
  ASSUME NEW found, PruneInv(prune, found),
         NEW origin \in Msg, NEW mode \in {"range", "message"}, NEW plans \in Seq(Plan),
         \A i \in 1..Len(plans) : plans[i].consumed \subseteq Created,
         prune.nextBlock + Len(plans) - 1 <= MaxBlocks
  PROVE  LET t == ApplyAll(origin, mode, plans)
         IN  /\ PruneInv(t, found \cup (DOMAIN t.blocks \ Created))
             /\ Created \subseteq DOMAIN t.blocks /\ DOMAIN t.blocks \subseteq BlockIds
<1> DEFINE n     == Len(plans)
           first == prune.nextBlock
           loop  == ApplyRounds(origin, mode, plans)
           made(i) == first..(first + i - 1)
           Good(i) == PruneInv(loop[i], found \cup made(i)) /\ loop[i].nextBlock = first + i
           Bad == {i \in 0..n : ~Good(i)}
<1>1. n \in Nat /\ first \in Nat \ {0} /\ Created = 1..(first - 1)
  BY DEF PruneInv, BlocksInv, Created
<1>2. loop[0] = NextRun /\ \A i \in 1..n : loop[i] = Apply(loop[i - 1], origin, mode, plans[i])
  BY <1>1, ApplyRoundsAre
<1> HIDE DEF loop, Good, made, Bad
<1>3. Good(0)
  <2> DEFINE r == NextRun
  <2>1. r = [blocks |-> prune.blocks, active |-> prune.active, byAnchor |-> prune.byAnchor,
             byMessage |-> prune.byMessage, nextBlock |-> prune.nextBlock,
             nextRun |-> prune.nextRun + 1]
    <3>1. r = [prune EXCEPT !.nextRun = prune.nextRun + 1]
      BY DEF NextRun
    <3>2. Shaped(prune)
      BY DEF PruneInv
    <3> HIDE DEF r
    <3> QED BY <3>1, <3>2, Zenon DEF Shaped
  <2> HIDE DEF r
  <2>2. Shaped(r)
    BY <2>1 DEF Shaped
  <2>3. /\ r.blocks = prune.blocks /\ r.active = prune.active /\ r.byAnchor = prune.byAnchor
        /\ r.byMessage = prune.byMessage /\ r.nextBlock = prune.nextBlock
        /\ r.nextRun = prune.nextRun + 1
    BY <2>1
  <2>4. BlocksInv(r)
    <3>1. BlocksInv(prune)
      BY DEF PruneInv
    <3>2. \A b \in DOMAIN prune.blocks :
            prune.blocks[b].run \in Nat /\ prune.blocks[b].run < prune.nextRun
      BY <3>1 DEF BlocksInv, Block
    <3>3. \A b \in DOMAIN prune.blocks : prune.blocks[b].run < prune.nextRun + 1
      BY <3>1, <3>2 DEF BlocksInv
    <3>4. prune.nextRun + 1 \in Nat \ {0}
      BY <3>1 DEF BlocksInv
    <3> QED BY <2>3, <3>1, <3>3, <3>4 DEF BlocksInv
  <2>5. EntriesInv(r) /\ Agree(r) /\ Fcn(r.byAnchor) /\ Derived(r, found)
    BY <2>3 DEF PruneInv, EntriesInv, Agree, Derived, Alive
  <2>6. made(0) = {}
    BY <1>1 DEF made
  <2>7. found \cup made(0) = found
    BY <2>6
  <2>8. loop[0] = r
    BY <1>2 DEF r
  <2>9. PruneInv(r, found)
    BY <2>2, <2>3, <2>4, <2>5 DEF PruneInv
  <2>10. r.nextBlock = first + 0
    BY <1>1, <2>3
  <2> QED BY <2>7, <2>8, <2>9, <2>10 DEF Good
<1>4. Bad = {}
  <2> SUFFICES ASSUME Bad # {} PROVE FALSE
    OBVIOUS
  <2>1. PICK i \in Bad : \A x \in Bad : i <= x
    <3>1. Bad \in SUBSET Nat
      BY <1>1 DEF Bad
    <3> QED BY <3>1, LeastOne
  <2>2. i # 0 /\ i \in 0..n
    BY <1>3, <2>1 DEF Bad
  <2>3. i \in 1..n /\ i - 1 \in 0..n /\ i - 1 \notin Bad
    <3>1. i - 1 < i /\ i \in 1..n /\ i - 1 \in 0..n
      BY <1>1, <2>2
    <3>2. i - 1 \in Bad => i <= i - 1
      BY <2>1
    <3> HIDE DEF n
    <3> QED BY <1>1, <3>1, <3>2
  <2>4. Good(i - 1)
    BY <2>3 DEF Bad
  <2> DEFINE r == loop[i - 1]
             t == Apply(r, origin, mode, plans[i])
  <2>5. r.nextBlock = first + (i - 1) /\ PruneInv(r, found \cup made(i - 1))
    BY <2>4 DEF Good
  <2> HIDE DEF r
  <2>6. plans[i] \in Plan /\ plans[i].consumed \subseteq DOMAIN r.blocks
    <3>1. DOMAIN r.blocks = 1..(r.nextBlock - 1)
      BY <2>5 DEF PruneInv, BlocksInv
    <3>2. r.nextBlock \in Nat /\ first <= r.nextBlock
      BY <1>1, <2>3, <2>5
    <3>3. Created \subseteq DOMAIN r.blocks
      <4> HIDE DEF first
      <4> QED BY <1>1, <3>1, <3>2
    <3>4. plans[i] \in Plan
      BY <2>3
    <3> QED BY <2>3, <3>3, <3>4
  <2>7. r.nextBlock \in BlockIds
    <3>1. first + (i - 1) <= MaxBlocks /\ first + (i - 1) >= 1
      BY <1>1, <2>3, PluginBoundsAssumption
    <3> QED BY <1>1, <2>3, <2>5, <3>1, PluginBoundsAssumption DEF BlockIds
  <2>8. PruneInv(t, (found \cup made(i - 1)) \cup {r.nextBlock}) /\ t.nextBlock = r.nextBlock + 1
    <3> DEFINE plan == plans[i]
               now  == found \cup made(i - 1)
    <3>1. plan \in Plan /\ plan.consumed \subseteq DOMAIN r.blocks
      BY <2>6
    <3>2. PruneInv(r, now)
      BY <2>5
    <3> HIDE DEF plan, now
    <3>3. LET q == Apply(r, origin, mode, plan)
          IN  PruneInv(q, now \cup {r.nextBlock}) /\ q.nextBlock = r.nextBlock + 1
      BY <2>7, <3>1, <3>2, ApplyKeeps, Zenon
    <3> QED BY <3>3, Zenon DEF plan, now
  <2>9. (found \cup made(i - 1)) \cup {r.nextBlock} = found \cup made(i)
    <3>1. first + i - 1 = first + (i - 1) /\ i \in Nat /\ i >= 1
      BY <1>1, <2>3
    <3>2. made(i) = made(i - 1) \cup {first + (i - 1)}
      <4> DEFINE k == i - 1
      <4>1. k \in Nat /\ i = k + 1
        BY <3>1
      <4>2. made(i) = first..(first + k) /\ made(i - 1) = first..(first + k - 1)
        BY <1>1, <4>1 DEF made
      <4> HIDE DEF k, first
      <4>3. first..(first + k) = first..(first + k - 1) \cup {first + k}
        BY <1>1, <4>1
      <4> QED BY <4>2, <4>3 DEF k
    <3> QED BY <2>5, <3>2
  <2>10. loop[i] = t
    BY <1>2, <2>3 DEF r
  <2> HIDE DEF t
  <2>11. Good(i)
    <3>1. (first + (i - 1)) + 1 = first + i
      BY <1>1, <2>3
    <3> QED BY <2>5, <2>8, <2>9, <2>10, <3>1 DEF Good
  <2> QED BY <2>1, <2>11 DEF Bad
<1> DEFINE t == ApplyAll(origin, mode, plans)
<1>5. t = loop[n]
  BY DEF ApplyAll, loop
<1>6. Good(n)
  <2> QED BY <1>1, <1>4 DEF Bad
<1>7. PruneInv(t, found \cup made(n)) /\ t.nextBlock = first + n
  BY <1>5, <1>6 DEF Good
<1> HIDE DEF t
<1>8. DOMAIN t.blocks = 1..(first + n - 1)
  BY <1>1, <1>7 DEF PruneInv, BlocksInv
<1>9. made(n) = DOMAIN t.blocks \ Created /\ Created \subseteq DOMAIN t.blocks
  BY <1>1, <1>8 DEF made
<1>10. DOMAIN t.blocks \subseteq BlockIds
  BY <1>1, <1>8, PluginBoundsAssumption DEF BlockIds
<1> QED BY <1>7, <1>9, <1>10 DEF t

----------------------------------------------------------------------------
(***************************************************************************)
(* The commands and the restart: what the synchronisation is given.        *)
(***************************************************************************)
Sound(s) == Shaped(s) /\ BlocksInv(s) /\ EntriesInv(s)

\* A command changes flags only.
LEMMA FlagKeeps ==
  ASSUME NEW s, Sound(s), NEW target, NEW byUser \in BOOLEAN
  PROVE  LET t == Flag(s, target, byUser)
         IN  /\ Sound(t) /\ DOMAIN t.blocks = DOMAIN s.blocks
             /\ \A snap : Found(t, snap) = Found(s, snap)
<1> DEFINE t == Flag(s, target, byUser)
           flagged(k) == IF k \notin target THEN s.blocks[k]
                         ELSE IF byUser THEN [s.blocks[k] EXCEPT !.active = FALSE, !.byUser = TRUE]
                         ELSE [s.blocks[k] EXCEPT !.byUser = FALSE]
           blocks == [k \in DOMAIN s.blocks |-> flagged(k)]
<1>1. t = [s EXCEPT !.blocks = blocks]
  BY DEF Flag
<1> HIDE DEF t
<1>2. \A k \in DOMAIN s.blocks :
        /\ blocks[k] \in Block
        /\ blocks[k].run = s.blocks[k].run /\ blocks[k].consumed = s.blocks[k].consumed
        /\ blocks[k].effective = s.blocks[k].effective /\ blocks[k].origin = s.blocks[k].origin
  <2> SUFFICES ASSUME NEW k \in DOMAIN s.blocks, NEW x, x = s.blocks[k]
               PROVE  LET y == flagged(k)
                      IN  /\ y \in Block /\ y.run = x.run /\ y.consumed = x.consumed
                          /\ y.effective = x.effective /\ y.origin = x.origin
    OBVIOUS
  <2>1. x \in Block
    BY DEF Sound, BlocksInv
  <2>2. CASE k \notin target
    BY <2>1, <2>2
  <2>3. CASE k \in target /\ byUser
    BY <2>1, <2>3 DEF Block
  <2>4. CASE k \in target /\ ~byUser
    BY <2>1, <2>4 DEF Block
  <2> QED BY <2>2, <2>3, <2>4
<1>3. DOMAIN blocks = DOMAIN s.blocks /\ blocks \in [DOMAIN s.blocks -> Block]
  <2>1. blocks = [k \in DOMAIN s.blocks |-> blocks[k]]
    OBVIOUS
  <2> HIDE DEF flagged
  <2> QED BY <1>2, <2>1
<1> HIDE DEF blocks
<1>4. t = [blocks |-> blocks, active |-> s.active, byAnchor |-> s.byAnchor,
           byMessage |-> s.byMessage, nextBlock |-> s.nextBlock, nextRun |-> s.nextRun]
  <2>1. Shaped(s)
    BY DEF Sound
  <2> QED BY <1>1, <2>1, Zenon DEF Shaped
<1>5. Shaped(t)
  BY <1>4 DEF Shaped
<1>6. BlocksInv(t)
  BY <1>2, <1>3, <1>4 DEF Sound, BlocksInv
<1>7. EntriesInv(t)
  <2>1. \A m : {b \in DOMAIN t.blocks : m \in t.blocks[b].effective}
                 = {b \in DOMAIN s.blocks : m \in s.blocks[b].effective}
    BY <1>2, <1>3, <1>4
  <2>2. t.byMessage = s.byMessage
    BY <1>4
  <2>3. \A b \in DOMAIN t.blocks : t.blocks[b].effective \subseteq DOMAIN t.byMessage
    BY <1>2, <1>3, <1>4 DEF Sound, EntriesInv
  <2> QED BY <2>1, <2>2, <2>3 DEF Sound, EntriesInv
<1>8. \A snap : Found(t, snap) = Found(s, snap)
  BY <1>2, <1>3, <1>4 DEF Found
<1> QED BY <1>3, <1>4, <1>5, <1>6, <1>7, <1>8 DEF Sound, t

\* The loader recovers both counters, and leaves blocks and entries as they are.
LEMMA LoadKeeps ==
  ASSUME NEW s, Sound(s)
  PROVE  LET t == LoadPruneMessagesState(s) IN Sound(t) /\ t.blocks = s.blocks
<1> DEFINE t       == LoadPruneMessagesState(s)
           held    == DOMAIN s.blocks
           blockIn == {s.nextBlock} \cup {b + 1 : b \in held}
           runIn   == {s.nextRun} \cup {s.blocks[b].run + 1 : b \in held}
<1>1. /\ t.blocks = s.blocks /\ t.byMessage = s.byMessage
      /\ t.nextBlock = Max(blockIn) /\ t.nextRun = Max(runIn)
      /\ Shaped(t)
  BY Zenon DEF LoadPruneMessagesState, Shaped
<1> HIDE DEF t
<1>2. s.nextBlock \in Nat \ {0} /\ s.nextRun \in Nat \ {0} /\ held = 1..(s.nextBlock - 1)
  BY DEF Sound, BlocksInv
<1>3. Max(blockIn) = s.nextBlock
  <2>1. s.nextBlock \in blockIn /\ \A x \in blockIn : x \in Nat /\ s.nextBlock >= x
    BY <1>2
  <2> HIDE DEF blockIn
  <2>2. \A x \in blockIn : (\A y \in blockIn : x >= y) => x = s.nextBlock
    BY <1>2, <2>1
  <2> QED BY <2>1, <2>2 DEF Max
<1>4. Max(runIn) = s.nextRun
  <2>1. s.nextRun \in runIn /\ \A x \in runIn : x \in Nat /\ s.nextRun >= x
    <3>1. \A b \in held : s.blocks[b].run \in Nat /\ s.blocks[b].run < s.nextRun
      BY DEF Sound, BlocksInv, Block
    <3>2. \A b \in held : s.blocks[b].run + 1 \in Nat /\ s.nextRun >= s.blocks[b].run + 1
      BY <1>2, <3>1
    <3> QED BY <1>2, <3>2
  <2> HIDE DEF runIn
  <2>2. \A x \in runIn : (\A y \in runIn : x >= y) => x = s.nextRun
    BY <1>2, <2>1
  <2> QED BY <2>1, <2>2 DEF Max
<1>5. BlocksInv(t) /\ EntriesInv(t)
  BY <1>1, <1>3, <1>4 DEF Sound, BlocksInv, EntriesInv
<1> QED BY <1>1, <1>5 DEF Sound, t

\* A command that was answered: synchronise, and again when it changed flags.
LEMMA TwiceSynced ==
  ASSUME NEW s, Sound(s), NEW snap, NEW target, NEW byUser \in BOOLEAN
  PROVE  LET synced == Sync(s, snap)
             t      == Sync(Flag(synced, target, byUser), snap)
         IN  /\ PruneInv(synced, Found(s, snap)) /\ DOMAIN synced.blocks = DOMAIN s.blocks
             /\ PruneInv(t, Found(s, snap)) /\ DOMAIN t.blocks = DOMAIN s.blocks
<1> DEFINE synced == Sync(s, snap)
           f == Flag(synced, target, byUser)
           t == Sync(f, snap)
<1>1. /\ PruneInv(synced, Found(s, snap)) /\ Found(synced, snap) = Found(s, snap)
      /\ DOMAIN synced.blocks = DOMAIN s.blocks
  BY SyncSyncs, Zenon DEF Sound, Synced
<1>2. Sound(synced)
  BY <1>1 DEF PruneInv, Sound
<1> HIDE DEF synced
<1>3. Sound(f) /\ DOMAIN f.blocks = DOMAIN synced.blocks /\ Found(f, snap) = Found(synced, snap)
  BY <1>2, FlagKeeps, Zenon
<1> HIDE DEF f
<1>4. PruneInv(t, Found(f, snap)) /\ DOMAIN t.blocks = DOMAIN f.blocks
  BY <1>3, SyncSyncs, Zenon DEF Sound, Synced
<1> QED BY <1>1, <1>3, <1>4 DEF synced, f

\* What a call resolves to: plans over the host's messages, and existing blocks.
LEMMA PlansType ==
  ASSUME NEW mode \in Modes, NEW snap \in SUBSET Msg, Created \subseteq BlockIds,
         NEW plans \in PlansOf(mode, snap)
  PROVE  /\ plans \in Seq(Plan)
         /\ \A i \in 1..Len(plans) : plans[i].consumed \subseteq Created
<1> DEFINE Sane == {p \in Plan : p.consumed \subseteq Created}
<1>1. ASSUME NEW lo \in snap, NEW hi \in snap
      PROVE  RangePlan(snap, lo, hi) \in Sane
  <2>1. Between(snap, lo, hi) \in SUBSET Msg
    BY DEF Between
  <2>2. Required(Between(snap, lo, hi)) \in SUBSET Created
    BY DEF Required
  <2>3. Required(Between(snap, lo, hi)) \in SUBSET BlockIds
    BY <2>2
  <2>4. lo \in Msg
    OBVIOUS
  <2> QED BY <2>1, <2>2, <2>3, <2>4 DEF RangePlan, Plan
<1>2. {RangePlan(snap, r[1], r[2]) : r \in {r \in snap \X snap : r[1] <= r[2]}} \subseteq Sane
  <2> HIDE DEF Sane
  <2> QED BY <1>1
<1>3. {[msgs |-> {m}, anchor |-> m, consumed |-> {}] : m \in Uncompressed(snap)} \subseteq Sane
  BY DEF Uncompressed, Plan
<1> HIDE DEF Sane
<1>4. ASSUME NEW S, S \subseteq Sane, NEW p \in BoundedSeqs(S) PROVE p \in Seq(Sane)
  <2>1. PICK n \in 1..MaxEntries : p \in [1..n -> S]
    BY DEF BoundedSeqs
  <2>2. n \in Nat /\ p \in [1..n -> Sane]
    BY <1>4, <2>1, PluginBoundsAssumption
  <2> QED BY <2>2, SeqDef
<1>5. plans \in Seq(Sane)
  <2>1. CASE mode = "range"
    <3>1. plans \in BoundedSeqs({RangePlan(snap, r[1], r[2]) :
                                   r \in {r \in snap \X snap : r[1] <= r[2]}})
      BY <2>1 DEF PlansOf, RangePlans
    <3> QED BY <1>2, <1>4, <3>1
  <2>2. CASE mode # "range"
    <3>1. plans \in BoundedSeqs({[msgs |-> {m}, anchor |-> m, consumed |-> {}] :
                                   m \in Uncompressed(snap)})
      BY <2>2 DEF PlansOf, MessagePlans
    <3> QED BY <1>3, <1>4, <3>1
  <2> QED BY <2>1, <2>2
<1>6. \A i \in 1..Len(plans) : plans[i] \in Sane
  BY <1>5
<1>7. plans \in Seq(Plan)
  <2>1. plans \in [1..Len(plans) -> Plan] /\ Len(plans) \in Nat
    BY <1>5, <1>6 DEF Sane
  <2> QED BY <2>1, SeqDef
<1> QED BY <1>6, <1>7 DEF Sane

----------------------------------------------------------------------------
(***************************************************************************)
(* Every step keeps the invariant.                                         *)
(***************************************************************************)
LEMMA InitHolds == Init => IInv
<1> SUFFICES ASSUME Init PROVE IInv
  OBVIOUS
<1>1. DOMAIN EmptyFcn = {} /\ 1..0 = {} /\ EmptyFcn = [x \in {} |-> EmptyFcn[x]]
  BY DEF EmptyFcn
<1>2. /\ prune.blocks = EmptyFcn /\ prune.active = {} /\ prune.byAnchor = EmptyFcn
      /\ prune.byMessage = EmptyFcn /\ prune.nextBlock = 1 /\ prune.nextRun = 1
      /\ Shaped(prune)
  BY DEF Init, Shaped
<1>3. BlocksInv(prune)
  <2>1. EmptyFcn \in [{} -> Block]
    BY <1>1
  <2> QED BY <1>1, <1>2, <2>1 DEF BlocksInv
<1>4. EntriesInv(prune) /\ Agree(prune) /\ Derived(prune, present)
  BY <1>1, <1>2 DEF Init, EntriesInv, Agree, Derived, Alive
<1>5. Fcn(prune.byAnchor)
  BY <1>1, <1>2 DEF Fcn
<1>6. PruneInv(prune, present)
  BY <1>2, <1>3, <1>4, <1>5 DEF Init, PruneInv
<1>7. CallsInv
  <2>1. Created = {}
    BY <1>1, <1>2 DEF Created
  <2>2. calls \in [Calls -> CallStates] /\ \A c \in Calls : calls[c].phase = "idle"
    BY DEF Init, CallStates, Idle
  <2>3. list = {} /\ newest = 0 /\ command = Idle
    BY DEF Init
  <2> QED BY <2>1, <2>2, <2>3, PluginBoundsAssumption DEF CallsInv
<1> QED BY <1>6, <1>7 DEF IInv

\* A handler that is done, on blocks none of which were taken away.
LEMMA CallsStay ==
  ASSUME CallsInv, UNCHANGED hostVars, Created \subseteq Created', Created' \subseteq BlockIds,
         command' \in {command, Idle},
         calls' = calls \/ \E c \in Calls : calls' = [calls EXCEPT ![c] = Idle]
  PROVE  CallsInv'
<1>1. calls' \in [Calls -> CallStates]
  BY DEF CallsInv, CallStates
<1>2. \A c \in Calls : calls'[c].phase = "planned" => calls'[c] = calls[c]
  <2> SUFFICES ASSUME NEW c \in Calls, calls'[c].phase = "planned" PROVE calls'[c] = calls[c]
    OBVIOUS
  <2>1. Idle.phase # "planned"
    BY DEF Idle
  <2> QED BY <2>1 DEF CallsInv
<1>3. \A c \in Calls : calls'[c].phase = "planned" =>
        \A i \in 1..Len(calls'[c].plans) : calls'[c].plans[i].consumed \subseteq Created'
  BY <1>2 DEF CallsInv
<1> QED BY <1>1, <1>3 DEF CallsInv, hostVars

LEMMA FetchKeeps ==
  ASSUME IInv, NEW c \in Calls, Fetch(c)
  PROVE  CallsInv'
<1>1. PICK m \in list : calls' = [calls EXCEPT ![c] =
                           [phase |-> "fetched", origin |-> m, snap |-> list]]
  BY DEF Fetch
<1>2. list \in SUBSET Msg
  BY PluginBoundsAssumption DEF IInv, CallsInv, Msg
<1>3. [phase |-> "fetched", origin |-> m, snap |-> list] \in CallStates
  BY <1>2 DEF CallStates
<1>4. calls' \in [Calls -> CallStates]
  BY <1>1, <1>3 DEF IInv, CallsInv
<1>5. \A k \in Calls : calls'[k].phase = "planned" => calls'[k] = calls[k]
  BY <1>1 DEF IInv, CallsInv
<1> QED BY <1>4, <1>5 DEF IInv, CallsInv, Fetch, hostVars, Created

LEMMA ResolveKeeps ==
  ASSUME IInv, NEW c \in Calls, Resolve(c)
  PROVE  CallsInv'
<1>1. PICK mode \in Modes : \E plans \in PlansOf(mode, calls[c].snap) :
        calls' = [calls EXCEPT ![c] = [phase |-> "planned", origin |-> @.origin,
                                       mode |-> mode, plans |-> plans]]
  BY DEF Resolve
<1>2. PICK plans \in PlansOf(mode, calls[c].snap) :
        calls' = [calls EXCEPT ![c] = [phase |-> "planned", origin |-> @.origin,
                                       mode |-> mode, plans |-> plans]]
  BY <1>1
<1>3. calls[c].origin \in Msg /\ calls[c].snap \in SUBSET Msg
  BY DEF IInv, CallsInv, CallStates, Resolve, Idle
<1>4. /\ plans \in Seq(Plan)
      /\ \A i \in 1..Len(plans) : plans[i].consumed \subseteq Created
  BY <1>3, PlansType DEF IInv, CallsInv
<1> DEFINE planned == [phase |-> "planned", origin |-> calls[c].origin,
                       mode |-> mode, plans |-> plans]
<1>5. planned \in CallStates /\ planned.plans = plans
  BY <1>3, <1>4, PluginBoundsAssumption DEF CallStates
<1>6. calls' = [calls EXCEPT ![c] = planned]
  BY <1>2
<1> HIDE DEF planned
<1>7. calls' \in [Calls -> CallStates]
  BY <1>5, <1>6 DEF IInv, CallsInv
<1>8. \A k \in Calls : calls'[k].phase = "planned" =>
        \A i \in 1..Len(calls'[k].plans) : calls'[k].plans[i].consumed \subseteq Created
  <2> SUFFICES ASSUME NEW k \in Calls, calls'[k].phase = "planned"
               PROVE  \A i \in 1..Len(calls'[k].plans) :
                        calls'[k].plans[i].consumed \subseteq Created
    OBVIOUS
  <2>1. CASE k = c
    <3>1. calls'[k] = planned
      BY <1>6, <2>1 DEF IInv, CallsInv
    <3> QED BY <1>4, <1>5, <3>1
  <2>2. CASE k # c
    <3>1. calls'[k] = calls[k]
      BY <1>6, <2>2 DEF IInv, CallsInv
    <3> QED BY <3>1 DEF IInv, CallsInv
  <2> QED BY <2>1, <2>2
<1> QED BY <1>7, <1>8 DEF IInv, CallsInv, Resolve, hostVars, Created

LEMMA CommitKeeps ==
  ASSUME IInv, NEW c \in Calls, Commit(c)
  PROVE  IInv'
<1>1. /\ calls[c].origin \in Msg /\ calls[c].mode \in {"range", "message"}
      /\ calls[c].plans \in Seq(Plan)
      /\ \A i \in 1..Len(calls[c].plans) : calls[c].plans[i].consumed \subseteq Created
  BY DEF IInv, CallsInv, CallStates, Commit, Idle
<1>2. /\ prune' = ApplyAll(calls[c].origin, calls[c].mode, calls[c].plans)
      /\ prune.nextBlock + Len(calls[c].plans) - 1 <= MaxBlocks
  BY DEF Commit
<1>3. /\ PruneInv(prune', present \cup (DOMAIN prune'.blocks \ Created))
      /\ Created \subseteq DOMAIN prune'.blocks /\ DOMAIN prune'.blocks \subseteq BlockIds
  BY <1>1, <1>2, ApplyAllKeeps DEF IInv
<1>4. PruneInv(prune, present)'
  BY <1>3 DEF Commit
<1>5. CallsInv'
  BY <1>3, CallsStay DEF Commit, IInv, Created
<1> QED BY <1>4, <1>5 DEF IInv

LEMMA NextKeeps == IInv /\ [Next]_vars => IInv'
<1> SUFFICES ASSUME IInv, [Next]_vars PROVE IInv'
  OBVIOUS
<1>1. Sound(prune) /\ Created \subseteq BlockIds
  BY DEF IInv, PruneInv, Sound, CallsInv
<1>2. CASE HostWrites \/ HostReverts
  <2>1. list' \subseteq 1..newest' /\ newest' \in 0..MaxMsg
    <3>1. CASE HostWrites
      BY <3>1, PluginBoundsAssumption DEF HostWrites, IInv, CallsInv
    <3>2. CASE HostReverts
      BY <3>2 DEF HostReverts, IInv, CallsInv
    <3> QED BY <1>2, <3>1, <3>2
  <2>2. UNCHANGED <<prune, calls, command, present>>
    BY <1>2 DEF HostWrites, HostReverts
  <2> QED BY <2>1, <2>2 DEF IInv, CallsInv, Created
<1>3. ASSUME NEW c \in Calls, Fetch(c) \/ Resolve(c) PROVE IInv'
  <2>1. CallsInv'
    BY <1>3, FetchKeeps, ResolveKeeps
  <2>2. UNCHANGED <<prune, present>>
    BY <1>3 DEF Fetch, Resolve
  <2> QED BY <2>1, <2>2 DEF IInv
<1>4. ASSUME NEW c \in Calls, Fail(c) \/ Drop(c) PROVE IInv'
  <2>1. UNCHANGED <<hostVars, prune, command, present>> /\ calls' = [calls EXCEPT ![c] = Idle]
    BY <1>4 DEF Fail, Drop
  <2>2. CallsInv'
    BY <1>1, <2>1, CallsStay DEF IInv, Created
  <2> QED BY <2>1, <2>2 DEF IInv
<1>5. ASSUME NEW c \in Calls, Commit(c) PROVE IInv'
  BY <1>5, CommitKeeps
<1>6. CASE CommandFetch
  <2>1. list \in SUBSET Msg
    BY PluginBoundsAssumption DEF IInv, CallsInv, Msg
  <2>2. command' \in [phase : {"fetched"}, snap : SUBSET Msg]
    BY <1>6, <2>1 DEF CommandFetch
  <2> QED BY <1>6, <2>2 DEF CommandFetch, IInv, CallsInv, Created, hostVars
<1>7. ASSUME NEW b \in BlockIds, Decompress(b) \/ Recompress(b) PROVE IInv'
  <2> DEFINE snap   == command.snap
             synced == Sync(prune, snap)
             t(byUser) == Sync(Flag(synced, TargetOf(b), byUser), snap)
  <2>1. prune' \in {synced, t(TRUE), t(FALSE)} /\ present' = Found(prune, snap)
    BY <1>7, Zenon DEF Decompress, Recompress
  <2>2. \A u \in BOOLEAN :
          /\ PruneInv(synced, Found(prune, snap)) /\ DOMAIN synced.blocks = Created
          /\ PruneInv(t(u), Found(prune, snap)) /\ DOMAIN t(u).blocks = Created
    BY <1>1, TwiceSynced, Zenon DEF Created
  <2> HIDE DEF synced, t
  <2>3. PruneInv(prune', present') /\ DOMAIN prune'.blocks = Created
    BY <2>1, <2>2
  <2>4. CallsInv'
    BY <1>1, <1>7, <2>3, CallsStay DEF Decompress, Recompress, IInv, Created
  <2> QED BY <2>3, <2>4 DEF IInv
<1>8. CASE Transform
  <2>1. PruneInv(prune', present') /\ DOMAIN prune'.blocks = Created
    BY <1>1, <1>8, SyncSyncs, Zenon DEF Transform, Sound, Synced, Created
  <2>2. CallsInv'
    BY <1>1, <1>8, <2>1, CallsStay DEF Transform, IInv, Created
  <2> QED BY <2>1, <2>2 DEF IInv
<1>9. CASE Reopen
  <2> DEFINE s == LoadPruneMessagesState(prune)
  <2>1. Sound(s) /\ s.blocks = prune.blocks
    BY <1>1, LoadKeeps, Zenon
  <2>2. prune' = Sync(s, list) /\ present' = Found(prune, list)
    BY <1>9 DEF Reopen
  <2> HIDE DEF s
  <2>3. Found(s, list) = Found(prune, list)
    BY <2>1 DEF Found
  <2>4. PruneInv(prune', present') /\ DOMAIN prune'.blocks = Created
    BY <2>1, <2>2, <2>3, SyncSyncs, Zenon DEF Sound, Synced, Created
  <2>5. CallsInv'
    BY <1>1, <1>9, <2>4, CallsStay DEF Reopen, IInv, Created
  <2> QED BY <2>4, <2>5 DEF IInv
<1>10. CASE UNCHANGED vars
  BY <1>10 DEF vars, hostVars, IInv, CallsInv, Created
<1> QED BY <1>2, <1>3, <1>4, <1>5, <1>6, <1>7, <1>8, <1>9, <1>10 DEF Next

----------------------------------------------------------------------------
(***************************************************************************)
(* The results.                                                            *)
(***************************************************************************)

\* The invariant the properties rest on: the entries list who stands for a message,
\* blocks are made of older ones, and the indexes follow the flags of the blocks in
\* every reachable state (sync.ts, state.ts, lib/commands).
THEOREM InvariantHolds == Spec => []IInv
BY InitHolds, NextKeeps, PTL DEF Spec

\* The state is well typed: blocks numbered without gaps from 1 to the counter, every
\* index over blocks and messages that exist (types.ts, state.ts).
THEOREM TypeCorrect == Spec => []TypeOK
<1>1. IInv => TypeOK
  <2> SUFFICES ASSUME IInv PROVE TypeOK
    OBVIOUS
  <2>1. /\ Created = 1..(prune.nextBlock - 1) /\ Created \subseteq BlockIds
        /\ prune.blocks \in [Created -> Block] /\ prune.nextRun \in Nat \ {0}
        /\ prune.active \subseteq Created /\ present \subseteq Created
    BY DEF IInv, CallsInv, PruneInv, BlocksInv, Agree, Created
  <2>2. prune.byAnchor \in [DOMAIN prune.byAnchor -> Created]
    <3>1. Fcn(prune.byAnchor) /\ \A a \in DOMAIN prune.byAnchor : prune.byAnchor[a] \in Created
      BY <2>1 DEF IInv, PruneInv, Agree
    <3> QED BY <3>1 DEF Fcn
  <2>3. /\ DOMAIN prune.byMessage \subseteq Msg
        /\ \A m \in DOMAIN prune.byMessage :
             prune.byMessage[m] \in [all : SUBSET Created, active : SUBSET Created]
    <3>1. DOMAIN prune.byMessage \subseteq Msg
      BY DEF IInv, PruneInv, EntriesInv
    <3>2. ASSUME NEW m \in DOMAIN prune.byMessage, NEW e, e = prune.byMessage[m]
          PROVE  e \in [all : SUBSET Created, active : SUBSET Created]
      <4>1. e = [all |-> e.all, active |-> e.active] /\ e.all \subseteq Created
        BY <3>2 DEF IInv, PruneInv, EntriesInv, Created
      <4>2. e.active = e.all \cap prune.active
        BY <3>2 DEF IInv, PruneInv, Agree
      <4> QED BY <4>1, <4>2
    <3> QED BY <3>1, <3>2
  <2>4. \A c \in Calls : calls[c].phase \in {"idle", "fetched", "planned"}
    BY DEF IInv, CallsInv, CallStates, Idle
  <2>5. command.phase \in {"idle", "fetched"}
    BY DEF IInv, CallsInv, Idle
  <2> QED BY <2>1, <2>2, <2>3, <2>4, <2>5 DEF TypeOK, IInv, CallsInv
<1> QED BY <1>1, InvariantHolds, PTL

\* The three indexes of active blocks agree with the flags of the blocks, whichever
\* handler wrote them last and however parallel calls, commands and restarts follow
\* each other (compress/state.ts, messages/sync.ts, state/utils.ts).
THEOREM IndexesAgreeHolds == Spec => []IndexesAgree
<1>1. IInv => IndexesAgree
  BY DEF IInv, PruneInv, Agree, IndexesAgree, Created
<1> QED BY <1>1, InvariantHolds, PTL

\* An active block hides every message it stands for, those of the blocks it consumed
\* included (filterCompressedRanges, compress/state.ts).
THEOREM FoldedStaysHiddenHolds == Spec => []FoldedStaysHidden
<1>1. IInv => FoldedStaysHidden
  <2> SUFFICES ASSUME IInv, NEW b \in prune.active, NEW m \in prune.blocks[b].effective
               PROVE  m \notin Outgoing(prune, list).raw
    BY DEF FoldedStaysHidden
  <2>1. b \in DOMAIN prune.blocks /\ m \in DOMAIN prune.byMessage
    BY DEF IInv, PruneInv, Agree, EntriesInv
  <2>2. b \in prune.byMessage[m].active
    BY <2>1 DEF IInv, PruneInv, Agree, EntriesInv
  <2>3. EntryOf(prune, m).active # {}
    BY <2>1, <2>2 DEF EntryOf
  <2> QED BY <2>3 DEF Outgoing
<1> QED BY <1>1, InvariantHolds, PTL

\* Commits on state that parallel handlers have changed leave active who the rule of
\* the synchronisation would (compress/state.ts, messages/sync.ts).
THEOREM ActiveIsDerivedHolds == Spec => []ActiveIsDerived
<1>1. IInv => ActiveIsDerived
  BY DEF IInv, PruneInv, Derived, Alive, ActiveIsDerived
<1> QED BY <1>1, InvariantHolds, PTL

\* With every request that has its anchor the summary of an active block goes out, or
\* another block is anchored there (messages/prune.ts, messages/sync.ts).
THEOREM SummaryGoesOutHolds == Spec => SummaryGoesOut
<1> DEFINE GoesOut == Transform \/ Reopen =>
             \A b \in prune'.active :
               LET a == prune.blocks[b].anchor
               IN  a \in list => \/ b \in Outgoing(prune', list).summaries
                                \/ \E k \in Created \ {b} : prune.blocks[k].anchor = a
<1>1. ASSUME IInv, Transform \/ Reopen PROVE GoesOut
  <2>1. PICK s : Sound(s) /\ s.blocks = prune.blocks /\ prune' = Sync(s, list)
    <3>1. Sound(prune)
      BY <1>1 DEF IInv, PruneInv, Sound
    <3>2. CASE Transform
      BY <3>1, <3>2 DEF Transform
    <3>3. CASE Reopen
      BY <3>1, <3>3, LoadKeeps, Zenon DEF Reopen
    <3> QED BY <1>1, <3>2, <3>3
  <2>2. Synced(s, prune', list)
    BY <2>1, SyncSyncs DEF Sound
  <2> SUFFICES ASSUME NEW b \in prune'.active, prune.blocks[b].anchor \in list
               PROVE  \/ b \in Outgoing(prune', list).summaries
                      \/ \E k \in Created \ {b} :
                           prune.blocks[k].anchor = prune.blocks[b].anchor
    OBVIOUS
  <2>3. prune'.active \subseteq DOMAIN prune'.blocks /\ DOMAIN prune'.blocks = Created
    BY <2>1, <2>2 DEF Synced, PruneInv, Agree, Created
  <2>4. \A k \in Created : prune'.blocks[k].anchor = prune.blocks[k].anchor
    BY <2>1, <2>2 DEF Synced, SameBlock, Created
  <2> DEFINE a == prune.blocks[b].anchor
  <2>5. \/ a \in DOMAIN prune'.byAnchor /\ prune'.byAnchor[a] = b
        \/ \E j \in Created \ {b} : prune'.blocks[j].anchor = a
    BY <2>2, <2>3, <2>4 DEF Synced, Anchored
  <2> QED BY <2>3, <2>4, <2>5 DEF Outgoing
<1>2. IInv /\ [Next]_vars => [GoesOut]_vars
  BY <1>1
<1>3. IInv /\ [Next]_vars => [Transform \/ Reopen =>
             \A b \in prune'.active :
               LET a == prune.blocks[b].anchor
               IN  a \in list => \/ b \in Outgoing(prune', list).summaries
                                \/ \E k \in Created \ {b} : prune.blocks[k].anchor = a]_vars
  BY <1>2
<1> QED BY <1>3, InvariantHolds, PTL DEF Spec, SummaryGoesOut
=============================================================================
