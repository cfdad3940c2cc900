---------------------------- MODULE NudgesProofs ----------------------------
(***************************************************************************)
(* Proofs about Nudges, for any number of messages and folds, any          *)
(* frequency, threshold, force and injection mode.                         *)
(*                                                                         *)
(* The invariant has four parts: types (the library's references are       *)
(* counted by its next number), a conversation that starts with a message  *)
(* anybody sees and folds that are nested or apart, what a sent nudge says *)
(* of the plugin's anchors and of its file, and what the library remembers *)
(* of the turns it nudged.                                                 *)
(***************************************************************************)
EXTENDS Nudges, FiniteSetTheorems, SequenceTheorems, TLAPS

----------------------------------------------------------------------------
(***************************************************************************)
(* Numbers.                                                                *)
(***************************************************************************)
\* A set of numbers has a least one.
LEMMA LeastOne ==
  ASSUME NEW D \in SUBSET Nat, D # {}
  PROVE  \E m \in D : \A x \in D : m <= x
<1>1. IsWellFoundedOn(OpToRel(<, Nat), Nat)
  BY NatLessThanWellFounded
<1>2. PICK m \in D : \A x \in D : <<x, m>> \notin OpToRel(<, Nat)
  BY <1>1, WFMin
<1>3. ASSUME NEW x \in D, x < m PROVE FALSE
  <2>1. <<x, m>> \in OpToRel(<, Nat)
    BY <1>3 DEF OpToRel
  <2> QED BY <1>2, <2>1
<1> QED BY <1>3

\* A set of positions has a last one.
LEMMA LastOne ==
  ASSUME NEW n \in Nat, NEW D \in SUBSET (1..n), D # {}
  PROVE  \E e \in D : \A x \in D : x <= e
<1> DEFINE Back == {n - x : x \in D}
<1>1. Back \in SUBSET Nat /\ Back # {}
  <2>1. \A x \in D : x \in Int /\ n - x \in Nat
    OBVIOUS
  <2> QED BY <2>1
<1>2. PICK m \in Back : \A x \in Back : m <= x
  <2> HIDE DEF Back
  <2> QED BY <1>1, LeastOne
<1>3. PICK e \in D : m = n - e
  OBVIOUS
<1>4. ASSUME NEW x \in D PROVE x <= e
  <2>1. m <= n - x
    BY <1>2
  <2> QED BY <1>3, <2>1
<1> QED BY <1>4

Ordered(ids, order) ==
  /\ order \in [1..Cardinality(ids) -> ids]
  /\ \A i, j \in DOMAIN order : i < j => order[i] < order[j]

\* One more message before all others.
LEMMA OrderedAdd ==
  ASSUME NEW A \in SUBSET Nat, IsFiniteSet(A), NEW m \in A, \A x \in A : m <= x,
         NEW o, Ordered(A \ {m}, o)
  PROVE  \E order : Ordered(A, order)
<1> DEFINE n == Cardinality(A)
           order == [i \in 1..n |-> IF i = 1 THEN m ELSE o[i - 1]]
<1>1. n \in Nat /\ Cardinality(A \ {m}) = n - 1 /\ n - 1 \in Nat
  <2>1. IsFiniteSet(A \ {m}) /\ Cardinality(A \ {m}) = n - 1
    BY FS_RemoveElement
  <2> QED BY <2>1, FS_CardinalityType
<1> HIDE DEF n
<1>2. o \in [1..(n - 1) -> A \ {m}] /\ \A i, j \in 1..(n - 1) : i < j => o[i] < o[j]
  BY <1>1 DEF Ordered, n
<1>3. order \in [1..n -> A]
  BY <1>1, <1>2
<1>4. ASSUME NEW i \in 1..n, NEW j \in 1..n, i < j
      PROVE  order[i] < order[j]
  <2>1. j - 1 \in 1..(n - 1) /\ order[j] = o[j - 1] /\ o[j - 1] \in A \ {m}
    BY <1>1, <1>2, <1>4
  <2>2. CASE i = 1
    <3>1. order[i] = m
      BY <1>4, <2>2
    <3>2. \A x \in A \ {m} : m < x
      OBVIOUS
    <3> HIDE DEF order
    <3> QED BY <2>1, <3>1, <3>2
  <2>3. CASE i # 1
    <3>1. i - 1 \in 1..(n - 1) /\ order[i] = o[i - 1] /\ i - 1 < j - 1
      BY <1>1, <1>4, <2>3
    <3> QED BY <1>2, <2>1, <3>1
  <2> QED BY <2>2, <2>3
<1> QED BY <1>3, <1>4 DEF Ordered, n

\* Every finite set of messages can be put in order.
LEMMA OrderExists ==
  ASSUME NEW A \in SUBSET Nat, IsFiniteSet(A)
  PROVE  \E order : Ordered(A, order)
<1> DEFINE Bad == {B \in FiniteSubsetsOf(Nat) : ~ \E order : Ordered(B, order)}
<1>1. SUFFICES ASSUME Bad # {} PROVE FALSE
  BY DEF FiniteSubsetsOf
<1>2. IsWellFoundedOn(StrictSubsetOrdering(Nat), FiniteSubsetsOf(Nat))
  BY FS_StrictSubsetOrderingWellFounded
<1>3. PICK B \in Bad : \A C \in Bad : <<C, B>> \notin StrictSubsetOrdering(Nat)
  <2>1. Bad \subseteq FiniteSubsetsOf(Nat)
    OBVIOUS
  <2> HIDE DEF Bad
  <2> QED BY <1>1, <1>2, <2>1, WFMin
<1>4. B \in SUBSET Nat /\ IsFiniteSet(B) /\ ~ \E order : Ordered(B, order)
  BY DEF FiniteSubsetsOf
<1>5. B # {}
  <2>1. Cardinality({}) = 0 /\ 1..0 = {}
    BY FS_EmptySet
  <2>2. Ordered({}, [i \in {} |-> i])
    BY <2>1 DEF Ordered
  <2> QED BY <1>4, <2>2
<1>6. PICK m \in B : \A x \in B : m <= x
  BY <1>4, <1>5, LeastOne
<1>7. B \ {m} \in FiniteSubsetsOf(Nat)
  BY <1>4, FS_RemoveElement DEF FiniteSubsetsOf
<1>8. <<B \ {m}, B>> \in StrictSubsetOrdering(Nat)
  BY <1>4, <1>6 DEF StrictSubsetOrdering
<1>9. \E order : Ordered(B \ {m}, order)
  BY <1>3, <1>7, <1>8
<1> QED BY <1>4, <1>6, <1>9, OrderedAdd

\* Max names the last one.
LEMMA MaxIs ==
  ASSUME NEW n \in Nat, NEW D \in SUBSET (1..n), D # {}
  PROVE  Max(D) \in D /\ \A x \in D : x <= Max(D)
<1>1. \E m \in D : \A x \in D : m >= x
  BY LastOne
<1>2. Max(D) \in D /\ \A x \in D : Max(D) >= x
  BY <1>1 DEF Max
<1> QED BY <1>2

\* InOrder lists a set of messages, each of them once, in order.
LEMMA InOrderIs ==
  ASSUME NEW A \in SUBSET Nat, IsFiniteSet(A)
  PROVE  LET order == InOrder(A)
             n == Cardinality(A)
         IN  /\ n \in Nat /\ order \in [1..n -> A]
             /\ \A i, j \in 1..n : i < j => order[i] < order[j]
             /\ \A m \in A : \E i \in 1..n : order[i] = m
<1> DEFINE order == InOrder(A)
           n == Cardinality(A)
<1>1. Ordered(A, order)
  BY OrderExists DEF InOrder, Ordered
<1>2. n \in Nat
  BY FS_CardinalityType
<1>3. order \in [1..n -> A] /\ \A i, j \in 1..n : i < j => order[i] < order[j]
  BY <1>1 DEF Ordered
<1> HIDE DEF order
<1>4. order \in Injection(1..n, A)
  <2>1. \A i, j \in 1..n : order[i] = order[j] => i = j
    <3> SUFFICES ASSUME NEW i \in 1..n, NEW j \in 1..n, order[i] = order[j], i # j
                 PROVE  FALSE
      OBVIOUS
    <3>1. i < j \/ j < i
      BY <1>2
    <3>2. order[i] \in Nat /\ order[j] \in Nat
      BY <1>3
    <3> QED BY <1>3, <3>1, <3>2
  <2> QED BY <1>3, <2>1 DEF Injection, IsInjective
<1>5. Cardinality(1..n) = n
  BY <1>2, FS_Interval
<1>6. order \in Surjection(1..n, A)
  BY <1>4, <1>5, FS_Injection
<1>7. \A m \in A : \E i \in 1..n : order[i] = m
  BY <1>6 DEF Surjection
<1> QED BY <1>2, <1>3, <1>7 DEF order

----------------------------------------------------------------------------
(***************************************************************************)
(* The conversation, and the list that goes out.                           *)
(***************************************************************************)
HostInv ==
  /\ engine \in {"rust", "plugin"}
  /\ kind \in Seq(Kinds) /\ newest \in 0..MaxMsg /\ list \in SUBSET (1..newest)
  /\ folds \in SUBSET [lo : Msg, hi : Msg, at : Msg]
  /\ \A f \in folds : f.lo <= f.hi /\ f.hi < f.at /\ f.at <= newest
  /\ \A f, g \in folds : f.hi = g.hi => f = g
  /\ engine = "plugin" => \A f \in folds : f.lo \in list
  /\ \A m \in list : (\A k \in list : m <= k) => kind[m] # "notice"

\* What an entry stands for is not told by its kind once it is a summary's.
Position(fs, i) == InOrder(Shown(fs))[i]

LEMMA OutIs ==
  ASSUME HostInv, NEW fs
  PROVE  LET out == OutOf(fs)
             n == Cardinality(Shown(fs))
         IN  /\ n \in Nat /\ DOMAIN out = 1..n /\ Len(out) = n
             /\ out \in Seq([id : Entries, kind : Kinds])
             /\ \A i \in 1..n : Position(fs, i) \in Shown(fs) /\ out[i] = EntryOf(fs, Position(fs, i))
             /\ \A i, j \in 1..n : i < j => Position(fs, i) < Position(fs, j)
             /\ \A m \in Shown(fs) : \E i \in 1..n : Position(fs, i) = m
             /\ \A i, j \in 1..n : out[i].id = out[j].id => i = j
<1> DEFINE S == Shown(fs)
           n == Cardinality(S)
           order == InOrder(S)
           out == OutOf(fs)
<1>1. S \subseteq list /\ S \in SUBSET Nat /\ IsFiniteSet(S) /\ newest \in Nat /\ MaxMsg \in Nat
      /\ newest <= MaxMsg /\ DOMAIN kind = 1..newest
  <2>1. newest \in Nat /\ MaxMsg \in Nat /\ newest <= MaxMsg
    BY NudgeAssumption DEF HostInv
  <2>5. DOMAIN kind = 1..newest
    BY LenProperties DEF HostInv, newest
  <2>2. S \subseteq list
    BY DEF Shown
  <2>3. list \in SUBSET (1..newest)
    BY DEF HostInv
  <2>4. IsFiniteSet(1..newest)
    BY <2>1, FS_Interval
  <2>6. S \in SUBSET (1..newest)
    BY <2>2, <2>3
  <2>7. IsFiniteSet(S)
    BY <2>4, <2>6, FS_Subset
  <2>8. S \in SUBSET Nat
    BY <2>1, <2>6
  <2> QED BY <2>1, <2>2, <2>5, <2>7, <2>8
<1>2. /\ n \in Nat /\ order \in [1..n -> S]
      /\ \A i, j \in 1..n : i < j => order[i] < order[j]
      /\ \A m \in S : \E i \in 1..n : order[i] = m
  BY <1>1, InOrderIs
<1>3. out = [i \in DOMAIN order |-> EntryOf(fs, order[i])]
  BY DEF OutOf
<1>4. \A m \in S : m \in 1..newest /\ kind[m] \in Kinds /\ EntryOf(fs, m).id \in {m, MaxMsg + m}
                   /\ EntryOf(fs, m) \in [id : Entries, kind : Kinds]
  <2> TAKE m \in S
  <2>1. m \in 1..newest /\ kind[m] \in Kinds
    BY <1>1 DEF HostInv
  <2>2. m \in Entries /\ MaxMsg + m \in Entries
    BY <1>1, <2>1 DEF Entries
  <2>3. "user" \in Kinds /\ "text" \in Kinds
    BY DEF Kinds
  <2>4. EntryOf(fs, m) \in {[id |-> m, kind |-> kind[m]], [id |-> MaxMsg + m, kind |-> "user"],
                            [id |-> m, kind |-> "text"]}
    BY DEF EntryOf
  <2> QED BY <2>1, <2>2, <2>3, <2>4
<1> HIDE DEF S, order, n
<1>5. DOMAIN out = 1..n /\ \A i \in 1..n : order[i] \in S /\ out[i] = EntryOf(fs, order[i])
  BY <1>2, <1>3
<1>6. \A i, j \in 1..n : out[i].id = out[j].id => i = j
  <2> SUFFICES ASSUME NEW i \in 1..n, NEW j \in 1..n, out[i].id = out[j].id, i # j
               PROVE  FALSE
    OBVIOUS
  <2>1. order[i] = order[j]
    <3>1. /\ order[i] \in 1..newest /\ order[j] \in 1..newest
          /\ out[i].id \in {order[i], MaxMsg + order[i]}
          /\ out[j].id \in {order[j], MaxMsg + order[j]}
      BY <1>4, <1>5
    <3> HIDE DEF out
    <3> QED BY <1>1, <3>1
  <2>2. i < j \/ j < i
    BY <1>2
  <2>3. order[i] \in Nat
    BY <1>1, <1>2
  <2> QED BY <1>2, <2>1, <2>2, <2>3
<1>7. out \in Seq([id : Entries, kind : Kinds]) /\ Len(out) = n
  <2> DEFINE Entry == [id : Entries, kind : Kinds]
  <2>1. out \in [1..n -> Entry]
    BY <1>3, <1>4, <1>5
  <2> HIDE DEF out, Entry
  <2>2. out \in Seq(Entry)
    BY <1>2, <2>1, SeqDef
  <2>3. Len(out) \in Nat /\ DOMAIN out = 1..Len(out)
    BY <2>2, LenProperties
  <2>4. Len(out) = n
    BY <1>2, <1>5, <2>3
  <2> QED BY <2>2, <2>4 DEF Entry
<1> QED BY <1>2, <1>5, <1>6, <1>7 DEF S, order, n, Position

\* Without folds an entry is its message.
LEMMA OutUnfolded ==
  ASSUME NEW m
  PROVE  Shown({}) = list /\ EntryOf({}, m) = [id |-> m, kind |-> kind[m]]
BY DEF Shown, EntryOf, Top

\* The last entry of a sort.
LEMMA LastIs ==
  ASSUME NEW n \in Nat, NEW D \in SUBSET (1..n), NEW l, l = IF D # {} THEN Max(D) ELSE 0
  PROVE  /\ l \in 0..n
         /\ l # 0 => l \in D
         /\ \A i \in 1..n : i > l => i \notin D
<1>1. CASE D = {}
  BY <1>1
<1>2. CASE D # {}
  <2>1. l \in D /\ \A x \in D : x <= l
    BY <1>2, MaxIs
  <2> QED BY <2>1
<1> QED BY <1>1, <1>2

\* The same for each sort of entry the two engines look for.
LEMMA LastVisible ==
  ASSUME NEW out, Len(out) \in Nat
  PROVE  LET l == LastOf(out, Visible)
         IN  /\ l \in 0..Len(out)
             /\ l # 0 => Visible(out[l].kind)
             /\ \A i \in 1..Len(out) : i > l => ~Visible(out[i].kind)
<1> DEFINE D == {i \in 1..Len(out) : Visible(out[i].kind)}
<1>1. LastOf(out, Visible) = IF D # {} THEN Max(D) ELSE 0
  BY DEF LastOf, SelectLastInSeq
<1>2. D \in SUBSET (1..Len(out))
  OBVIOUS
<1>3. \A i \in 1..Len(out) : i \in D <=> Visible(out[i].kind)
  OBVIOUS
<1>4. D \subseteq 1..Len(out)
  OBVIOUS
<1> HIDE DEF D
<1> QED BY <1>1, <1>2, <1>3, <1>4, LastIs

LEMMA LastUser ==
  ASSUME NEW out, Len(out) \in Nat
  PROVE  LET l == LastOf(out, PlainUser)
         IN  /\ l \in 0..Len(out)
             /\ l # 0 => out[l].kind = "user"
             /\ \A i \in 1..Len(out) : i > l => out[i].kind # "user"
<1> DEFINE D == {i \in 1..Len(out) : out[i].kind = "user"}
<1>1. LastOf(out, PlainUser) = IF D # {} THEN Max(D) ELSE 0
  BY DEF LastOf, SelectLastInSeq, PlainUser
<1>2. D \in SUBSET (1..Len(out))
  OBVIOUS
<1>3. \A i \in 1..Len(out) : i \in D <=> out[i].kind = "user"
  OBVIOUS
<1>4. D \subseteq 1..Len(out)
  OBVIOUS
<1> HIDE DEF D
<1> QED BY <1>1, <1>2, <1>3, <1>4, LastIs

LEMMA LastReply ==
  ASSUME NEW out, Len(out) \in Nat
  PROVE  LastOf(out, Assistant) \in 0..Len(out)
<1> DEFINE D == {i \in 1..Len(out) : Assistant(out[i].kind)}
<1>1. LastOf(out, Assistant) = IF D # {} THEN Max(D) ELSE 0
  BY DEF LastOf, SelectLastInSeq
<1>2. D \in SUBSET (1..Len(out))
  OBVIOUS
<1> HIDE DEF D
<1> QED BY <1>1, <1>2, LastIs

\* The plugin's entries: a message of the list as it is, or a summary, a user's.
KindOf(e) == IF e > MaxMsg THEN "user" ELSE kind[e]

LEMMA PluginEntry ==
  ASSUME HostInv, engine = "plugin", NEW i \in DOMAIN Out
  PROVE  /\ Out[i].kind = KindOf(Out[i].id) /\ Out[i].id \in Entries
         /\ Out[i].id <= MaxMsg => Out[i].id \in list
<1> DEFINE m == Position(folds, i)
<1>1. m \in Shown(folds) /\ Out[i] = EntryOf(folds, m)
  BY OutIs DEF Out
<1> HIDE DEF m
<1>2. m \in list /\ m \in 1..newest /\ newest \in Nat /\ newest <= MaxMsg /\ MaxMsg \in Nat
  <2>1. newest \in Nat /\ newest <= MaxMsg /\ MaxMsg \in Nat /\ list \in SUBSET (1..newest)
    BY NudgeAssumption DEF HostInv
  <2>2. m \in list
    BY <1>1 DEF Shown
  <2> QED BY <2>1, <2>2
<1>3. Out[i] = IF Top(folds, m) = {} THEN [id |-> m, kind |-> kind[m]]
               ELSE [id |-> MaxMsg + m, kind |-> "user"]
  BY <1>1 DEF EntryOf
<1> QED BY <1>2, <1>3 DEF KindOf, Entries

\* The library's entries carry the number of a message.
LEMMA RustEntry ==
  ASSUME HostInv, engine = "rust", NEW fs, NEW i \in DOMAIN OutOf(fs)
  PROVE  /\ OutOf(fs)[i].id = Position(fs, i) /\ Position(fs, i) \in list
         /\ OutOf(fs)[i].id \in 1..newest
<1>1. Position(fs, i) \in Shown(fs) /\ OutOf(fs)[i] = EntryOf(fs, Position(fs, i))
  BY OutIs
<1>2. Position(fs, i) \in list /\ Position(fs, i) \in 1..newest
  BY <1>1 DEF Shown, HostInv
<1> QED BY <1>1, <1>2 DEF EntryOf
----------------------------------------------------------------------------
(***************************************************************************)
(* The conversation stays one.                                             *)
(***************************************************************************)
LEMMA HostInit == Init => HostInv
<1> SUFFICES ASSUME Init PROVE HostInv
  OBVIOUS
<1>1. kind = <<>> /\ list = {} /\ folds = {} /\ engine \in {"rust", "plugin"}
  BY NudgeAssumption DEF Init
<1>2. kind \in Seq(Kinds) /\ newest = 0
  BY <1>1 DEF newest
<1> QED BY <1>1, <1>2, NudgeAssumption DEF HostInv

\* What follows from HostInv about numbers.
LEMMA HostNumbers ==
  ASSUME HostInv
  PROVE  /\ MaxMsg \in Nat /\ newest \in Nat /\ newest <= MaxMsg
         /\ DOMAIN kind = 1..newest
         /\ \A m \in 1..newest : kind[m] \in Kinds
         /\ \A m \in list : m \in 1..newest
<1>1. MaxMsg \in Nat /\ newest \in Nat /\ newest <= MaxMsg /\ kind \in Seq(Kinds)
      /\ list \in SUBSET (1..newest)
  BY NudgeAssumption DEF HostInv
<1>2. DOMAIN kind = 1..newest /\ \A m \in 1..newest : kind[m] \in Kinds
  BY <1>1, LenProperties, ElementOfSeq DEF newest
<1> QED BY <1>1, <1>2

\* One more message.
LEMMA KindAppend ==
  ASSUME HostInv, NEW k \in Kinds, kind' = Append(kind, k)
  PROVE  /\ kind' \in Seq(Kinds) /\ newest' = newest + 1
         /\ \A m \in 1..newest : kind'[m] = kind[m]
         /\ kind'[newest + 1] = k
<1>1. kind \in Seq(Kinds)
  BY DEF HostInv
<1> QED BY <1>1, AppendProperties DEF newest

\* Messages taken back.
LEMMA KindForgotten ==
  ASSUME HostInv, NEW rest
  PROVE  /\ Forgotten(rest) \in Seq(Kinds) /\ Len(Forgotten(rest)) = newest
         /\ \A m \in rest : m \in 1..newest => Forgotten(rest)[m] = kind[m]
<1>1. newest \in Nat /\ \A m \in 1..newest : kind[m] \in Kinds
  BY HostNumbers
<1>2. "user" \in Kinds
  BY DEF Kinds
<1>3. Forgotten(rest) \in [1..newest -> Kinds]
  BY <1>1, <1>2 DEF Forgotten
<1>4. Forgotten(rest) \in Seq(Kinds)
  BY <1>1, <1>3, SeqDef
<1>5. Len(Forgotten(rest)) \in Nat /\ DOMAIN Forgotten(rest) = 1..Len(Forgotten(rest))
  BY <1>4, LenProperties
<1>6. Len(Forgotten(rest)) = newest
  <2> DEFINE l == Len(Forgotten(rest))
  <2>1. DOMAIN Forgotten(rest) = 1..newest
    BY DEF Forgotten
  <2>2. l \in Nat /\ 1..l = 1..newest
    BY <1>5, <2>1
  <2> HIDE DEF l
  <2>3. l = newest
    BY <1>1, <2>2
  <2> QED BY <2>3 DEF l
<1>7. \A m \in rest : m \in 1..newest => Forgotten(rest)[m] = kind[m]
  BY DEF Forgotten
<1> QED BY <1>4, <1>6, <1>7

\* A message only ever changes when it leaves the list, and none comes back.
LEMMA HostKeeps ==
  ASSUME HostInv, [Next]_vars
  PROVE  /\ newest' \in 0..MaxMsg /\ newest <= newest' /\ engine' = engine
         /\ \A m \in list' : m \in list \/ m > newest
         /\ \A m \in list' : m \in list => kind'[m] = kind[m]
<1>0. /\ MaxMsg \in Nat /\ newest \in Nat /\ newest <= MaxMsg
      /\ DOMAIN kind = 1..newest
      /\ \A m \in list : m \in 1..newest
  BY HostNumbers
<1>1. ASSUME NEW k \in Kinds, HostWrites(k)
      PROVE  /\ newest' \in 0..MaxMsg /\ newest <= newest' /\ engine' = engine
             /\ \A m \in list' : m \in list \/ m > newest
             /\ \A m \in list' : m \in list => kind'[m] = kind[m]
  <2>1. newest < MaxMsg /\ kind' = Append(kind, k) /\ list' = list \cup {newest + 1}
        /\ engine' = engine
    BY <1>1 DEF HostWrites
  <2>2. newest' = newest + 1 /\ \A m \in 1..newest : kind'[m] = kind[m]
    BY <2>1, KindAppend
  <2> QED BY <1>0, <2>1, <2>2
<1>2. ASSUME NEW lo \in Msg, NEW hi \in Msg, NEW oversized \in BOOLEAN,
             Compresses(lo, hi, oversized)
      PROVE  /\ newest' \in 0..MaxMsg /\ newest <= newest' /\ engine' = engine
             /\ \A m \in list' : m \in list \/ m > newest
             /\ \A m \in list' : m \in list => kind'[m] = kind[m]
  <2>1. newest < MaxMsg /\ kind' = Append(kind, "compress") /\ list' = list \cup {newest + 1}
        /\ engine' = engine /\ "compress" \in Kinds
    BY <1>2 DEF Compresses, Kinds
  <2>2. newest' = newest + 1 /\ \A m \in 1..newest : kind'[m] = kind[m]
    BY <2>1, KindAppend
  <2> QED BY <1>0, <2>1, <2>2
<1>3. ASSUME NEW m \in Msg, HostReverts(m)
      PROVE  /\ newest' \in 0..MaxMsg /\ newest <= newest' /\ engine' = engine
             /\ \A k \in list' : k \in list \/ k > newest
             /\ \A k \in list' : k \in list => kind'[k] = kind[k]
  <2>1. kind' = Forgotten(list') /\ list' = {k \in list : k < m} /\ engine' = engine
    BY <1>3 DEF HostReverts
  <2>2. newest' = newest /\ \A k \in list' : k \in 1..newest => kind'[k] = kind[k]
    BY <2>1, KindForgotten DEF newest
  <2> QED BY <1>0, <2>1, <2>2
<1>4. ASSUME HostCompacts
      PROVE  /\ newest' \in 0..MaxMsg /\ newest <= newest' /\ engine' = engine
             /\ \A k \in list' : k \in list \/ k > newest
             /\ \A k \in list' : k \in list => kind'[k] = kind[k]
  <2>1. newest < MaxMsg /\ kind' = Append(Forgotten({}), "text") /\ list' = {newest + 1}
        /\ engine' = engine /\ "text" \in Kinds
    BY <1>4 DEF HostCompacts, Kinds
  <2>2. Forgotten({}) \in Seq(Kinds) /\ Len(Forgotten({})) = newest
    BY KindForgotten
  <2>3. newest' = newest + 1
    BY <2>1, <2>2, AppendProperties DEF newest
  <2> QED BY <1>0, <2>1, <2>3
<1>5. ASSUME UNCHANGED <<engine, list, kind>>
      PROVE  /\ newest' \in 0..MaxMsg /\ newest <= newest' /\ engine' = engine
             /\ \A k \in list' : k \in list \/ k > newest
             /\ \A k \in list' : k \in list => kind'[k] = kind[k]
  BY <1>0, <1>5 DEF newest
<1>6. ASSUME NEW level, RustTransform(level) \/ PluginTransform(level)
      PROVE  UNCHANGED <<engine, list, kind>>
  BY <1>6 DEF RustTransform, PluginTransform, hostVars
<1>7. Silence => UNCHANGED <<engine, list, kind>>
  BY DEF Silence, hostVars
<1>8. Restart => UNCHANGED <<engine, list, kind>>
  BY DEF Restart
<1>9. Command \/ SaveEnds => UNCHANGED <<engine, list, kind>>
  BY DEF Command, SaveEnds, hostVars
<1>10. UNCHANGED vars => UNCHANGED <<engine, list, kind>>
  BY DEF vars, hostVars
<1> QED BY <1>1, <1>2, <1>3, <1>4, <1>5, <1>6, <1>7, <1>8, <1>9, <1>10 DEF Next

\* Every message of the list that is least is the old one or, in an empty list, new.
LEMMA HostStep ==
  ASSUME HostInv, [Next]_vars
  PROVE  HostInv'
<1>0. /\ MaxMsg \in Nat /\ newest \in Nat /\ newest <= MaxMsg
      /\ DOMAIN kind = 1..newest
      /\ \A m \in list : m \in 1..newest
      /\ engine \in {"rust", "plugin"} /\ kind \in Seq(Kinds) /\ list \in SUBSET (1..newest)
      /\ folds \in SUBSET [lo : Msg, hi : Msg, at : Msg]
      /\ \A f \in folds : f.lo <= f.hi /\ f.hi < f.at /\ f.at <= newest
      /\ \A f, g \in folds : f.hi = g.hi => f = g
      /\ engine = "plugin" => \A f \in folds : f.lo \in list
      /\ \A m \in list : (\A k \in list : m <= k) => kind[m] # "notice"
  BY HostNumbers DEF HostInv
<1>00. \A f \in folds : f.lo \in Msg /\ f.hi \in Msg /\ f.at \in Msg
  BY <1>0
<1>1. ASSUME NEW k \in Kinds, HostWrites(k)
      PROVE  HostInv'
  <2>1. newest < MaxMsg /\ kind' = Append(kind, k) /\ list' = list \cup {newest + 1}
        /\ engine' = engine /\ folds' = folds /\ (list = {} => k = "user")
    BY <1>1 DEF HostWrites
  <2>2. newest' = newest + 1 /\ kind' \in Seq(Kinds) /\ kind'[newest + 1] = k
        /\ \A m \in 1..newest : kind'[m] = kind[m]
    BY <2>1, KindAppend
  <2>3. newest' \in 0..MaxMsg /\ list' \in SUBSET (1..newest')
    BY <1>0, <2>1, <2>2
  <2>4. \A f \in folds' : f.lo <= f.hi /\ f.hi < f.at /\ f.at <= newest'
    BY <1>0, <1>00, <2>1, <2>2 DEF Msg
  <2>5. ASSUME NEW m \in list', \A x \in list' : m <= x
        PROVE  kind'[m] # "notice"
    <3>1. CASE m \in list
      BY <1>0, <2>1, <2>2, <2>5, <3>1
    <3>2. CASE m = newest + 1
      <4>1. list = {}
        <5> SUFFICES ASSUME NEW x \in list PROVE FALSE
          OBVIOUS
        <5>1. x <= newest /\ m <= x /\ x \in Int
          BY <1>0, <2>1, <2>5
        <5> QED BY <1>0, <3>2, <5>1
      <4> QED BY <2>1, <2>2, <3>2, <4>1
    <3> QED BY <2>1, <3>1, <3>2
  <2> QED BY <1>0, <2>1, <2>2, <2>3, <2>4, <2>5 DEF HostInv
<1>2. ASSUME NEW lo \in Msg, NEW hi \in Msg, NEW oversized \in BOOLEAN,
             Compresses(lo, hi, oversized)
      PROVE  HostInv'
  <2> DEFINE new == [lo |-> lo, hi |-> hi, at |-> newest + 1]
  <2>1. newest < MaxMsg /\ kind' = Append(kind, "compress") /\ list' = list \cup {newest + 1}
        /\ engine' = engine /\ folds' = folds \cup {new} /\ "compress" \in Kinds
        /\ {lo, hi} \subseteq Shown(folds) /\ lo <= hi /\ Top(folds, hi) = {}
    BY <1>2 DEF Compresses, Kinds
  <2>2. newest' = newest + 1 /\ kind' \in Seq(Kinds)
        /\ \A m \in 1..newest : kind'[m] = kind[m]
    BY <2>1, KindAppend
  <2>3. newest' \in 0..MaxMsg /\ list' \in SUBSET (1..newest')
    BY <1>0, <2>1, <2>2
  <2>4. lo \in list /\ hi \in list /\ \A f \in folds : ~Inside(f, hi)
    BY <2>1 DEF Shown
  <2>5. new \in [lo : Msg, hi : Msg, at : Msg] /\ new.lo = lo /\ new.hi = hi /\ new.at = newest + 1
    BY <1>0, <2>1 DEF Msg
  <2> HIDE DEF new
  <2>6. \A f \in folds' : f.lo <= f.hi /\ f.hi < f.at /\ f.at <= newest'
    <3> TAKE f \in folds'
    <3>1. CASE f = new
      <4>1. hi <= newest /\ hi \in Int /\ lo \in Int
        BY <1>0, <2>4
      <4> QED BY <1>0, <2>1, <2>2, <2>5, <3>1, <4>1
    <3>2. CASE f \in folds
      BY <1>0, <1>00, <2>2, <3>2 DEF Msg
    <3> QED BY <2>1, <3>1, <3>2
  <2>7. \A f, g \in folds' : f.hi = g.hi => f = g
    <3>1. \A f \in folds : f.hi # new.hi
      <4> SUFFICES ASSUME NEW f \in folds, f.hi = hi PROVE FALSE
        BY <2>5
      <4>1. f.lo <= hi /\ hi <= f.hi
        BY <1>0, <1>00 DEF Msg
      <4> QED BY <2>4, <4>1 DEF Inside
    <3> QED BY <1>0, <2>1, <3>1
  <2>8. engine' = "plugin" => \A f \in folds' : f.lo \in list'
    BY <1>0, <2>1, <2>4, <2>5
  <2>9. ASSUME NEW m \in list', \A x \in list' : m <= x
        PROVE  kind'[m] # "notice"
    <3>1. m \in list
      <4>1. m <= lo /\ lo <= newest /\ lo \in Int
        BY <1>0, <2>1, <2>4, <2>9
      <4> QED BY <1>0, <2>1, <4>1
    <3> QED BY <1>0, <2>1, <2>2, <2>9, <3>1
  <2>10. folds' \in SUBSET [lo : Msg, hi : Msg, at : Msg]
    BY <1>0, <2>1, <2>5
  <2> QED BY <1>0, <2>1, <2>2, <2>3, <2>6, <2>7, <2>8, <2>9, <2>10 DEF HostInv
<1>3. ASSUME NEW m \in Msg, HostReverts(m)
      PROVE  HostInv'
  <2>1. kind' = Forgotten(list') /\ list' = {k \in list : k < m} /\ engine' = engine
        /\ m \in list
        /\ folds' = IF engine = "plugin" THEN {f \in folds : f.at < m}
                                         ELSE {f \in folds : f.lo < m}
    BY <1>3 DEF HostReverts
  <2>2. newest' = newest /\ kind' \in Seq(Kinds)
        /\ \A k \in list' : k \in 1..newest => kind'[k] = kind[k]
    BY <2>1, KindForgotten DEF newest
  <2>3. folds' \subseteq folds /\ list' \subseteq list
    BY <2>1
  <2>4. engine' = "plugin" => \A f \in folds' : f.lo \in list'
    <3> SUFFICES ASSUME engine = "plugin", NEW f \in folds, f.at < m PROVE f.lo \in list'
      BY <2>1
    <3>1. f.lo < m
      BY <1>0, <1>00 DEF Msg
    <3> QED BY <1>0, <2>1, <3>1
  <2>5. ASSUME NEW x \in list', \A y \in list' : x <= y
        PROVE  kind'[x] # "notice"
    <3>1. \A y \in list : x <= y
      <4> SUFFICES ASSUME NEW y \in list, y \notin list' PROVE x <= y
        BY <2>5
      <4>1. y \in Int /\ x \in Int /\ m \in Int /\ x < m /\ ~(y < m)
        BY <1>0, <2>1, <2>3
      <4> QED BY <4>1
    <3>2. x \in list /\ kind'[x] = kind[x]
      BY <1>0, <2>2, <2>3
    <3> QED BY <1>0, <3>1, <3>2
  <2>6. \A f \in folds' : f.lo <= f.hi /\ f.hi < f.at /\ f.at <= newest'
    BY <1>0, <2>2, <2>3
  <2> QED BY <1>0, <2>1, <2>2, <2>3, <2>4, <2>5, <2>6 DEF HostInv
<1>4. ASSUME HostCompacts
      PROVE  HostInv'
  <2>1. newest < MaxMsg /\ kind' = Append(Forgotten({}), "text") /\ list' = {newest + 1}
        /\ engine' = engine /\ "text" \in Kinds
        /\ folds' = IF engine = "plugin" THEN {} ELSE folds
    BY <1>4 DEF HostCompacts, Kinds
  <2>2. Forgotten({}) \in Seq(Kinds) /\ Len(Forgotten({})) = newest
    BY KindForgotten
  <2>3. newest' = newest + 1 /\ kind' \in Seq(Kinds) /\ kind'[newest + 1] = "text"
    BY <2>1, <2>2, AppendProperties DEF newest
  <2>4. newest' \in 0..MaxMsg /\ list' \in SUBSET (1..newest')
    BY <1>0, <2>1, <2>3
  <2>5. folds' \subseteq folds /\ (engine' = "plugin" => folds' = {})
    BY <2>1
  <2>6. \A f \in folds' : f.lo <= f.hi /\ f.hi < f.at /\ f.at <= newest'
    <3> TAKE f \in folds'
    <3>1. f \in folds /\ f.at \in Int /\ f.at <= newest
      BY <1>0, <1>00, <2>5 DEF Msg
    <3> QED BY <1>0, <2>3, <3>1
  <2> QED BY <1>0, <2>1, <2>3, <2>4, <2>5, <2>6 DEF HostInv
<1>5. ASSUME UNCHANGED <<engine, list, kind>>, folds' \subseteq folds
      PROVE  HostInv'
  <2>1. newest' = newest
    BY <1>5 DEF newest
  <2> QED BY <1>0, <1>5, <2>1 DEF HostInv
<1>6. ASSUME NEW level \in Levels, RustTransform(level) \/ PluginTransform(level)
      PROVE  HostInv'
  <2>1. CASE RustTransform(level)
    BY <1>5, <2>1 DEF RustTransform
  <2>2. CASE PluginTransform(level)
    BY <1>5, <2>2 DEF PluginTransform, hostVars
  <2> QED BY <1>6, <2>1, <2>2
<1>7. CASE Silence
  BY <1>5, <1>7 DEF Silence, hostVars
<1>8. CASE Restart
  BY <1>5, <1>8 DEF Restart, Restored
<1>9. CASE Command \/ SaveEnds
  BY <1>5, <1>9 DEF Command, SaveEnds, hostVars
<1>10. CASE UNCHANGED vars
  BY <1>5, <1>10 DEF vars, hostVars
<1> QED BY <1>1, <1>2, <1>3, <1>4, <1>6, <1>7, <1>8, <1>9, <1>10 DEF Next
----------------------------------------------------------------------------
(***************************************************************************)
(* What the plugin keeps: its anchors, its file, what it last sent.        *)
(***************************************************************************)
PluginShape == [anchors : Anchors, loaded : BOOLEAN, silent : BOOLEAN, compacted : BOOLEAN]

Speaks(k) == IF NudgeForce = "strong" THEN User(k) ELSE Assistant(k)

\* The file, the writes under way and what the last save was to write.
SavesInv ==
  /\ saved \in Anchors /\ wanted \in Anchors
  /\ saving \in Seq(Anchors) /\ late \in Nat /\ Len(saving) <= late /\ late <= MaxLate

PluginInv == plugin \in PluginShape /\ SavesInv

\* The anchors an opened session shares with its last save; a session that is not open
\* has no write under way.
FileAgrees ==
  /\ plugin.loaded /\ ~plugin.compacted =>
       /\ plugin.anchors.context = wanted.context
       /\ plugin.anchors.iteration = wanted.iteration
  /\ ~plugin.loaded => saving = <<>> /\ wanted = saved

History ==
  /\ engine \in Engines
  /\ since \in {"nothing", "restart", "change"} /\ folded \in BOOLEAN

\* A nudge that was sent hangs on an anchor in memory or, after a restart that found
\* what was saved last, in the file.
Hangs(e, n) ==
  /\ since = "nothing" => plugin.loaded /\ ~plugin.compacted /\ e \in plugin.anchors[n]
  /\ since = "restart" /\ n # "turn" => ~plugin.loaded /\ ~plugin.compacted /\ e \in saved[n]

SentInv ==
  /\ DOMAIN sent \subseteq Entries
  /\ since = "change" => DOMAIN sent = {}
  /\ \A e \in DOMAIN sent : sent[e] \subseteq NudgeKinds /\ (e <= MaxMsg => e <= newest)
  /\ engine = "plugin" =>
       \A e \in DOMAIN sent : \A n \in sent[e] :
         /\ e > MaxMsg \/ e \in list => Carries(KindOf(e)) /\ (n = "turn" => Speaks(KindOf(e)))
         /\ Hangs(e, n)

\* One field of the anchors.
LEMMA AnchorFields ==
  ASSUME NEW a \in Anchors, NEW S \in SUBSET Entries
  PROVE  /\ \A n \in NudgeKinds : a[n] \in SUBSET Entries
         /\ [a EXCEPT !.context = S] \in Anchors
         /\ [a EXCEPT !.turn = S] \in Anchors
         /\ [a EXCEPT !.iteration = S] \in Anchors
         /\ [a EXCEPT !.turn = S].turn = S
         /\ [a EXCEPT !.turn = S].context = a.context
         /\ [a EXCEPT !.turn = S].iteration = a.iteration
         /\ [a EXCEPT !.context = S].context = S
         /\ [a EXCEPT !.context = S].turn = a.turn
         /\ [a EXCEPT !.context = S].iteration = a.iteration
         /\ [a EXCEPT !.iteration = S].iteration = S
         /\ [a EXCEPT !.iteration = S].turn = a.turn
         /\ [a EXCEPT !.iteration = S].context = a.context
BY DEF Anchors, NudgeKinds

LEMMA TwoAnchorFields ==
  ASSUME NEW a \in Anchors, NEW T, NEW I, NEW b, b = [a EXCEPT !.turn = T, !.iteration = I]
  PROVE  b = [context |-> a.context, turn |-> T, iteration |-> I]
<1>1. a \in Anchors
  OBVIOUS
<1> QED BY <1>1, Zenon DEF Anchors

LEMMA NoAnchorsIs == NoAnchors \in Anchors
BY DEF NoAnchors, Anchors

\* addAnchor never takes one away, and leaves one that is near enough.
LEMMA AddAnchorIs ==
  ASSUME NEW ids \in SUBSET Entries, NEW out, DOMAIN out \subseteq Nat,
         NEW i \in DOMAIN out, out[i].id \in Entries
  PROVE  /\ AddAnchor(ids, out, i) \in SUBSET Entries
         /\ ids \subseteq AddAnchor(ids, out, i)
         /\ \E j \in DOMAIN out : j > i - Frequency /\ out[j].id \in AddAnchor(ids, out, i)
<1>1. Frequency \in Nat /\ Frequency > 0
  BY NudgeAssumption
<1>2. CASE \A j \in DOMAIN out : out[j].id \in ids => i - j >= Frequency
  <2>1. AddAnchor(ids, out, i) = ids \cup {out[i].id}
    BY <1>2 DEF AddAnchor
  <2>2. i > i - Frequency
    BY <1>1
  <2> QED BY <2>1, <2>2
<1>3. CASE \E j \in DOMAIN out : out[j].id \in ids /\ ~(i - j >= Frequency)
  <2>1. PICK j \in DOMAIN out : out[j].id \in ids /\ ~(i - j >= Frequency)
    BY <1>3
  <2>2. AddAnchor(ids, out, i) = ids
    BY <2>1 DEF AddAnchor
  <2>3. j > i - Frequency
    BY <1>1, <2>1
  <2> QED BY <2>1, <2>2, <2>3
<1> QED BY <1>2, <1>3

\* The message list of the plugin's request.
LEMMA OutIsSeq ==
  ASSUME HostInv
  PROVE  /\ Len(Out) \in Nat /\ DOMAIN Out = 1..Len(Out)
         /\ \A i \in DOMAIN Out : Out[i].id \in Entries /\ Out[i].kind \in Kinds
         /\ \A i, j \in DOMAIN Out : Out[i].id = Out[j].id => i = j
<1> DEFINE n == Cardinality(Shown(folds))
<1>1. n \in Nat /\ DOMAIN Out = 1..n /\ Len(Out) = n
      /\ Out \in Seq([id : Entries, kind : Kinds])
      /\ \A i, j \in 1..n : Out[i].id = Out[j].id => i = j
  BY OutIs DEF Out
<1>2. \A i \in 1..Len(Out) : Out[i] \in [id : Entries, kind : Kinds]
  <2> DEFINE Entry == [id : Entries, kind : Kinds]
  <2> HIDE DEF Entry
  <2>1. Out \in Seq(Entry)
    BY <1>1 DEF Entry
  <2>2. \A i \in 1..Len(Out) : Out[i] \in Entry
    BY <2>1, ElementOfSeq
  <2> QED BY <2>2 DEF Entry
<1> QED BY <1>1, <1>2

\* What the middle of injectCompressNudges does to the anchors.
LEMMA RaisedIs ==
  ASSUME HostInv, NEW a \in Anchors, NEW level \in Levels
  PROVE  /\ Raised(a, Out, level) \in Anchors
         /\ \A n \in NudgeKinds : a[n] \subseteq Raised(a, Out, level)[n]
<1> DEFINE last  == LastOf(Out, Visible)
           user  == LastOf(Out, PlainUser)
           reply == LastOf(Out, Assistant)
           Turn  == IF last # 0 /\ last = user /\ reply # 0
                    THEN a.turn \cup {Out[last].id, Out[reply].id} ELSE a.turn
           Iter  == IF user # 0 /\ last > user
                       /\ Cardinality(VisibleAfter(Out, user)) >= Threshold
                    THEN AddAnchor(a.iteration, Out, last) ELSE a.iteration
<1>1. Len(Out) \in Nat /\ DOMAIN Out = 1..Len(Out) /\ \A i \in DOMAIN Out : Out[i].id \in Entries
  BY OutIsSeq
<1>2. last \in 0..Len(Out) /\ user \in 0..Len(Out) /\ reply \in 0..Len(Out)
  BY <1>1, LastVisible, LastUser, LastReply
<1>3. a.context \in SUBSET Entries /\ a.turn \in SUBSET Entries /\ a.iteration \in SUBSET Entries
  BY DEF Anchors
<1>4. CASE level = "high"
  <2>1. CASE last # 0
    <3>1. Raised(a, Out, level) = [a EXCEPT !.context = AddAnchor(a.context, Out, last)]
      BY <1>4, <2>1 DEF Raised
    <3>2. last \in DOMAIN Out /\ DOMAIN Out \subseteq Nat
      BY <1>1, <1>2, <2>1
    <3> HIDE DEF last
    <3>3. AddAnchor(a.context, Out, last) \in SUBSET Entries
          /\ a.context \subseteq AddAnchor(a.context, Out, last)
      BY <1>1, <1>3, <3>2, AddAnchorIs
    <3> DEFINE held == AddAnchor(a.context, Out, last)
               new  == [a EXCEPT !.context = held]
    <3> HIDE DEF held
    <3>4. new \in Anchors /\ new.context = held /\ new.turn = a.turn
          /\ new.iteration = a.iteration
      BY <3>3, AnchorFields DEF held
    <3>5. Raised(a, Out, level) = new /\ a.context \subseteq held
      BY <3>1, <3>3 DEF held
    <3> HIDE DEF new
    <3> QED BY <3>4, <3>5 DEF NudgeKinds
  <2>2. CASE last = 0
    <3>1. Raised(a, Out, level) = a
      BY <1>4, <2>2 DEF Raised
    <3> QED BY <3>1
  <2> QED BY <2>1, <2>2
<1>5. CASE level = "mid"
  <2>1. Raised(a, Out, level) = [a EXCEPT !.turn = Turn, !.iteration = Iter]
    BY <1>5 DEF Raised
  <2>2. Turn \in SUBSET Entries /\ a.turn \subseteq Turn
    <3>1. CASE last # 0 /\ last = user /\ reply # 0
      <4>1. last \in DOMAIN Out /\ reply \in DOMAIN Out
        BY <1>1, <1>2, <3>1
      <4>2. Turn = a.turn \cup {Out[last].id, Out[reply].id}
        BY <3>1
      <4> HIDE DEF last, reply, Turn
      <4> QED BY <1>1, <1>3, <4>1, <4>2
    <3>2. CASE ~(last # 0 /\ last = user /\ reply # 0)
      BY <1>3, <3>2
    <3> QED BY <3>1, <3>2
  <2>3. Iter \in SUBSET Entries /\ a.iteration \subseteq Iter
    <3>1. CASE user # 0 /\ last > user /\ Cardinality(VisibleAfter(Out, user)) >= Threshold
      <4>1. last \in DOMAIN Out /\ DOMAIN Out \subseteq Nat
        BY <1>1, <1>2, <3>1
      <4>2. Iter = AddAnchor(a.iteration, Out, last)
        BY <3>1
      <4> HIDE DEF last, Iter
      <4> QED BY <1>1, <1>3, <4>1, <4>2, AddAnchorIs
    <3>2. CASE ~(user # 0 /\ last > user /\ Cardinality(VisibleAfter(Out, user)) >= Threshold)
      BY <1>3, <3>2
    <3> QED BY <3>1, <3>2
  <2> HIDE DEF Turn, Iter
  <2>4. Raised(a, Out, level) = [context |-> a.context, turn |-> Turn, iteration |-> Iter]
    BY <2>1, TwoAnchorFields
  <2> QED BY <1>3, <2>2, <2>3, <2>4 DEF NudgeKinds, Anchors
<1>6. CASE level = "low"
  <2>1. Raised(a, Out, level) = a
    BY <1>6 DEF Raised
  <2> QED BY <2>1
<1> QED BY <1>4, <1>5, <1>6 DEF Levels

LEMMA LoweredIs ==
  ASSUME NEW a \in Anchors, NEW level
  PROVE  /\ Lowered(a, level) \in Anchors /\ Lowered(a, level).context = a.context
         /\ level # "low" => Lowered(a, level) = a
<1>1. CASE level = "low"
  <2>1. Lowered(a, level) = [context |-> a.context, turn |-> {}, iteration |-> {}]
    BY <1>1 DEF Lowered, Anchors
  <2> QED BY <1>1, <2>1 DEF Anchors
<1>2. CASE level # "low"
  BY <1>2 DEF Lowered
<1> QED BY <1>1, <1>2

\* collectTurnNudgeAnchors finds messages of the list.
LEMMA CollectedIs ==
  ASSUME HostInv
  PROVE  Collected \in SUBSET Entries
<1> DEFINE last == {m \in list : kind[m] = "compress"}
           part == {m \in list : \A c \in last : c < m}
           next(m, Test(_)) == {k \in part : k > m /\ Test(kind[k])}
           ends == {m \in part : /\ Assistant(kind[m])
                                 /\ next(m, PlainUser) # {}
                                 /\ \A k \in next(m, Assistant) :
                                      \E u \in next(m, PlainUser) : u < k}
           first(m) == CHOOSE u \in next(m, PlainUser) :
                         \A v \in next(m, PlainUser) : u <= v
<1>1. Collected = ends \cup {first(m) : m \in ends}
  BY DEF Collected
<1>2. list \subseteq Entries /\ list \subseteq Nat
  BY HostNumbers DEF Entries
<1>3. part \subseteq list /\ ends \subseteq part
  OBVIOUS
<1>4. ASSUME NEW m \in ends PROVE first(m) \in list
  <2> DEFINE N == {k \in part : k > m /\ PlainUser(kind[k])}
  <2>1. N # {}
    BY <1>4
  <2>2. N \subseteq list /\ N \in SUBSET Nat
    BY <1>2, <1>3
  <2>3. first(m) = CHOOSE u \in N : \A v \in N : u <= v
    OBVIOUS
  <2> HIDE DEF N
  <2>4. \E u \in N : \A v \in N : u <= v
    BY <2>1, <2>2, LeastOne
  <2>5. first(m) \in N
    <3> HIDE DEF first
    <3> QED BY <2>3, <2>4
  <2> QED BY <2>2, <2>5
<1> HIDE DEF ends, part, first
<1> QED BY <1>1, <1>2, <1>3, <1>4

\* saveSessionState: some saves end at once, the rest are under way.
LEMMA SavesBegin ==
  ASSUME SavesInv, NEW files \in Seq(Anchors), BeginSaves(files)
  PROVE  /\ SavesInv'
         /\ wanted' = IF files = <<>> THEN wanted ELSE files[Len(files)]
<1>1. Len(files) \in Nat /\ \A i \in 1..Len(files) : files[i] \in Anchors
  BY ElementOfSeq, LenProperties
<1>2. /\ saved \in Anchors /\ wanted \in Anchors /\ saving \in Seq(Anchors)
      /\ late \in Nat /\ Len(saving) <= late /\ Len(saving) \in Nat /\ MaxLate \in Nat
  BY LenProperties, NudgeAssumption DEF SavesInv
<1>3. PICK k \in 0..Len(files) :
        /\ saved' = IF k = 0 THEN saved ELSE files[k]
        /\ saving' = saving \o SubSeq(files, k + 1, Len(files))
        /\ late' = late + Len(files) - k /\ late' <= MaxLate
  BY DEF BeginSaves
<1> DEFINE rest == SubSeq(files, k + 1, Len(files))
<1>4. rest \in Seq(Anchors) /\ Len(rest) = Len(files) - k
  <2>1. k + 1 \in Int /\ Len(files) \in Int /\ \A i \in (k + 1)..Len(files) : files[i] \in Anchors
    BY <1>1
  <2>2. rest \in Seq(Anchors)
        /\ Len(rest) = IF k + 1 <= Len(files) THEN Len(files) - (k + 1) + 1 ELSE 0
    BY <2>1, SubSeqProperties
  <2> HIDE DEF rest
  <2> QED BY <1>1, <2>2
<1> HIDE DEF rest
<1>5. saving' \in Seq(Anchors) /\ Len(saving') = Len(saving) + Len(rest)
  BY <1>2, <1>3, <1>4, ConcatProperties DEF rest
<1>6. saved' \in Anchors
  BY <1>1, <1>2, <1>3
<1>7. late' \in Nat /\ Len(saving') <= late' /\ late' <= MaxLate
  BY <1>1, <1>2, <1>3, <1>4, <1>5
<1>8. wanted' = (IF files = <<>> THEN wanted ELSE files[Len(files)])
  BY DEF BeginSaves
<1>9. wanted' \in Anchors
  <2>1. CASE files = <<>>
    BY <1>2, <1>8, <2>1
  <2>2. CASE files # <<>>
    <3>1. Len(files) \in 1..Len(files)
      BY <2>2, EmptySeq
    <3> QED BY <1>1, <1>8, <2>2, <3>1
  <2> QED BY <2>1, <2>2
<1> QED BY <1>5, <1>6, <1>7, <1>8, <1>9 DEF SavesInv

\* At most two saves begin in a step.
LEMMA FewSaves ==
  /\ <<>> \in Seq(Anchors)
  /\ \A a \in Anchors : <<a>> \in Seq(Anchors) /\ <<a>> # <<>> /\ <<a>>[Len(<<a>>)] = a
  /\ \A a, b \in Anchors : /\ <<a>> \o <<b>> \in Seq(Anchors) /\ <<a>> \o <<b>> # <<>>
                            /\ (<<a>> \o <<b>>)[Len(<<a>> \o <<b>>)] = b
  /\ \A a \in Anchors : <<a>> \o <<>> = <<a>> /\ <<>> \o <<a>> = <<a>>
  /\ <<>> \o <<>> = <<>>
<1>1. \A a \in Anchors : <<a>> \in Seq(Anchors) /\ Len(<<a>>) = 1 /\ <<a>>[1] = a
  OBVIOUS
<1>2. <<>> \in Seq(Anchors) /\ Len(<<>>) = 0
  BY EmptySeq
<1>3. ASSUME NEW a \in Anchors, NEW b \in Anchors
      PROVE  /\ <<a>> \o <<b>> \in Seq(Anchors) /\ Len(<<a>> \o <<b>>) = 2
             /\ (<<a>> \o <<b>>)[2] = b
  <2> DEFINE x == <<a>>
             y == <<b>>
  <2>1. x \in Seq(Anchors) /\ y \in Seq(Anchors) /\ Len(x) = 1 /\ Len(y) = 1 /\ y[1] = b
    BY <1>1
  <2> HIDE DEF x, y
  <2>2. /\ x \o y \in Seq(Anchors) /\ Len(x \o y) = 1 + 1
        /\ \A i \in 1..(1 + 1) : (x \o y)[i] = IF i <= 1 THEN x[i] ELSE y[i - 1]
    BY <2>1, ConcatProperties
  <2>3. (x \o y)[2] = y[1]
    BY <2>2
  <2> QED BY <2>1, <2>2, <2>3 DEF x, y
<1>4. \A a \in Anchors : <<a>> # <<>>
  BY <1>1, <1>2
<1>5. \A a, b \in Anchors : <<a>> \o <<b>> # <<>>
  BY <1>2, <1>3
<1>6. \A a \in Anchors : <<a>> \o <<>> = <<a>> /\ <<>> \o <<a>> = <<a>>
  BY <1>1, ConcatEmptySeq
<1>7. <<>> \o <<>> = <<>>
  BY <1>2, ConcatEmptySeq
<1>8. \A a \in Anchors : <<a>>[Len(<<a>>)] = a
  BY <1>1
<1>9. \A a, b \in Anchors : (<<a>> \o <<b>>)[Len(<<a>> \o <<b>>)] = b
  BY <1>3
<1> QED BY <1>1, <1>2, <1>3, <1>4, <1>5, <1>6, <1>7, <1>8, <1>9

LEMMA LastSave ==
  ASSUME NEW a \in Anchors, NEW first, first = <<>> \/ first = << NoAnchors >>,
         NEW files, files = first \o << a >>
  PROVE  files \in Seq(Anchors) /\ files # <<>> /\ files[Len(files)] = a
<1>1. CASE first = <<>>
  <2>1. files = << a >>
    BY <1>1, FewSaves
  <2> QED BY <2>1, FewSaves
<1>2. CASE first = << NoAnchors >>
  <2>1. files = << NoAnchors >> \o << a >>
    BY <1>2
  <2> QED BY <2>1, FewSaves, NoAnchorsIs, Zenon
<1> QED BY <1>1, <1>2

\* A write that was under way ends, or fails.
LEMMA SaveEndsIs ==
  ASSUME SavesInv, SaveEnds
  PROVE  SavesInv' /\ saving # <<>>
<1>1. saving \in Seq(Anchors) /\ saved \in Anchors /\ Len(saving) \in Nat
      /\ DOMAIN saving = 1..Len(saving) /\ \A i \in 1..Len(saving) : saving[i] \in Anchors
  BY LenProperties, ElementOfSeq DEF SavesInv
<1>2. PICK i \in DOMAIN saving :
        saving' = RemoveAt(saving, i) /\ saved' \in {saving[i], saved, NoAnchors}
  BY DEF SaveEnds
<1> DEFINE head == SubSeq(saving, 1, i - 1)
           tail == SubSeq(saving, i + 1, Len(saving))
<1>3. i \in 1..Len(saving) /\ i \in Int
  BY <1>1, <1>2
<1>4. head \in Seq(Anchors) /\ Len(head) = i - 1
  <2>1. 1 \in Int /\ i - 1 \in Int /\ \A j \in 1..(i - 1) : saving[j] \in Anchors
    BY <1>1, <1>3
  <2>2. head \in Seq(Anchors) /\ Len(head) = IF 1 <= i - 1 THEN i - 1 - 1 + 1 ELSE 0
    BY <2>1, SubSeqProperties
  <2> HIDE DEF head
  <2> QED BY <1>3, <2>2
<1>5. tail \in Seq(Anchors) /\ Len(tail) = Len(saving) - i
  <2>1. i + 1 \in Int /\ Len(saving) \in Int
        /\ \A j \in (i + 1)..Len(saving) : saving[j] \in Anchors
    BY <1>1, <1>3
  <2>2. tail \in Seq(Anchors)
        /\ Len(tail) = IF i + 1 <= Len(saving) THEN Len(saving) - (i + 1) + 1 ELSE 0
    BY <2>1, SubSeqProperties
  <2> HIDE DEF tail
  <2> QED BY <1>1, <1>3, <2>2
<1> HIDE DEF head, tail
<1>6. saving' = head \o tail
  BY <1>2 DEF RemoveAt, head, tail
<1>7. saving' \in Seq(Anchors) /\ Len(saving') = Len(head) + Len(tail)
  BY <1>4, <1>5, <1>6, ConcatProperties
<1>8. Len(saving') <= Len(saving)
  BY <1>1, <1>3, <1>4, <1>5, <1>7
<1>9. saved' \in Anchors
  BY <1>1, <1>2, <1>3, NoAnchorsIs
<1>10. UNCHANGED <<late, wanted>>
  BY DEF SaveEnds
<1>11. Len(saving') <= late'
  BY <1>1, <1>4, <1>5, <1>7, <1>8, <1>10 DEF SavesInv
<1>12. saving # <<>>
  BY <1>1, <1>2, EmptySeq
<1> QED BY <1>7, <1>9, <1>10, <1>11, <1>12 DEF SavesInv

\* What a session is once it was opened.
LEMMA OpenedIs ==
  ASSUME HostInv, PluginInv
  PROVE  LET p == Opened(plugin)
         IN  /\ p \in PluginShape /\ p.loaded /\ ~p.compacted /\ p.silent = plugin.silent
             /\ plugin.loaded /\ ~plugin.compacted => p = plugin
             /\ plugin.loaded /\ plugin.compacted => p.anchors = NoAnchors
             /\ ~plugin.loaded => /\ p.anchors.context = saved.context
                                  /\ p.anchors.iteration = saved.iteration
<1> DEFINE p == Opened(plugin)
<1>1. plugin \in PluginShape /\ saved \in Anchors
  BY DEF PluginInv, SavesInv
<1>2. CASE ~plugin.loaded
  <2> DEFINE found == saved.turn \cup Collected
             restored == [saved EXCEPT !.turn = found]
  <2>1. saved.turn \in SUBSET Entries
    BY <1>1 DEF Anchors
  <2>2. found \in SUBSET Entries
    BY <2>1, CollectedIs
  <2> HIDE DEF found
  <2>3. restored \in Anchors /\ restored.context = saved.context
        /\ restored.iteration = saved.iteration
    BY <1>1, <2>2, AnchorFields
  <2>4. p = [plugin EXCEPT !.anchors = restored, !.loaded = TRUE, !.compacted = FALSE]
    BY <1>2 DEF Opened, found
  <2> HIDE DEF restored, p
  <2>5. p = [anchors |-> restored, loaded |-> TRUE, silent |-> plugin.silent,
             compacted |-> FALSE]
    BY <1>1, <2>4, Zenon DEF PluginShape
  <2>6. plugin.silent \in BOOLEAN
    BY <1>1 DEF PluginShape
  <2> QED BY <1>2, <2>3, <2>5, <2>6 DEF PluginShape, p
<1>3. CASE plugin.loaded /\ plugin.compacted
  <2>1. p = [plugin EXCEPT !.anchors = NoAnchors, !.compacted = FALSE]
    BY <1>3 DEF Opened
  <2> HIDE DEF p
  <2>2. p = [anchors |-> NoAnchors, loaded |-> plugin.loaded, silent |-> plugin.silent,
             compacted |-> FALSE]
    BY <1>1, <2>1, Zenon DEF PluginShape
  <2>3. plugin.silent \in BOOLEAN /\ plugin.loaded \in BOOLEAN
    BY <1>1 DEF PluginShape
  <2> QED BY <1>3, <2>2, <2>3, NoAnchorsIs DEF PluginShape, p
<1>4. CASE plugin.loaded /\ ~plugin.compacted
  <2>1. p = plugin
    BY <1>4 DEF Opened
  <2> HIDE DEF p
  <2> QED BY <1>1, <1>4, <2>1 DEF p
<1> QED BY <1>2, <1>3, <1>4
\* applyAnchoredNudges: what an entry says.
LEMMA WrittenIs ==
  ASSUME HostInv, NEW a, NEW i \in DOMAIN Out
  PROVE  /\ DOMAIN Written(a, Out) = {Out[j].id : j \in DOMAIN Out}
         /\ \A n : n \in Written(a, Out)[Out[i].id] <=>
                     /\ n \in NudgeKinds /\ Out[i].id \in a[n] /\ Carries(Out[i].kind)
                     /\ (n = "turn" => Speaks(Out[i].kind))
<1> DEFINE e == Out[i].id
           at == CHOOSE j \in DOMAIN Out : Out[j].id = e
<1>1. at = i
  <2>1. \A j, k \in DOMAIN Out : Out[j].id = Out[k].id => j = k
    BY OutIsSeq
  <2>2. i \in DOMAIN Out /\ Out[i].id = e
    OBVIOUS
  <2>3. at \in DOMAIN Out /\ Out[at].id = e
    BY <2>2
  <2> HIDE DEF at
  <2> QED BY <2>1, <2>3
<1>2. Written(a, Out) =
        [x \in {Out[j].id : j \in DOMAIN Out} |->
           {n \in NudgeKinds :
              /\ x \in a[n] /\ Carries(Out[CHOOSE j \in DOMAIN Out : Out[j].id = x].kind)
              /\ (n = "turn" => Speaks(Out[CHOOSE j \in DOMAIN Out : Out[j].id = x].kind))}]
  BY DEF Written, Speaks
<1>3. Written(a, Out)[e] = {n \in NudgeKinds : /\ e \in a[n] /\ Carries(Out[at].kind)
                                              /\ (n = "turn" => Speaks(Out[at].kind))}
  <2> DEFINE ids == {Out[j].id : j \in DOMAIN Out}
             says(x) == {n \in NudgeKinds :
               /\ x \in a[n] /\ Carries(Out[CHOOSE j \in DOMAIN Out : Out[j].id = x].kind)
               /\ (n = "turn" => Speaks(Out[CHOOSE j \in DOMAIN Out : Out[j].id = x].kind))}
  <2>1. e \in ids
    OBVIOUS
  <2>2. Written(a, Out) = [x \in ids |-> says(x)]
    BY <1>2
  <2>3. says(e) = {n \in NudgeKinds : /\ e \in a[n] /\ Carries(Out[at].kind)
                                      /\ (n = "turn" => Speaks(Out[at].kind))}
    OBVIOUS
  <2> HIDE DEF ids, says
  <2>4. Written(a, Out)[e] = says(e)
    BY <2>1, <2>2
  <2> QED BY <2>3, <2>4
<1>4. DOMAIN Written(a, Out) = {Out[j].id : j \in DOMAIN Out}
  BY <1>2
<1> HIDE DEF at
<1> QED BY <1>1, <1>3, <1>4

LEMMA WrittenDomain ==
  ASSUME NEW a, NEW out
  PROVE  DOMAIN Written(a, out) = {out[j].id : j \in DOMAIN out}
BY DEF Written

\* One request of the plugin.
LEMMA PluginDoes ==
  ASSUME HostInv, PluginInv, FileAgrees, NEW level \in Levels, PluginTransform(level)
  PROVE  LET p   == Opened(plugin)
             new == Raised(Lowered(p.anchors, level), Out, level)
         IN  /\ PluginInv' /\ FileAgrees'
             /\ plugin'.loaded /\ ~plugin'.compacted /\ plugin'.silent = plugin.silent
             /\ sent' = Quiet(Out) \/ sent' = Written(plugin'.anchors, Out)
             /\ ~plugin.silent /\ ~AfterCompress(Out) =>
                  plugin'.anchors = new /\ sent' = Written(new, Out)
<1> DEFINE p   == Opened(plugin)
           new == Raised(Lowered(p.anchors, level), Out, level)
           reset == IF plugin.compacted /\ plugin.loaded THEN << NoAnchors >> ELSE <<>>
<1>1. p \in PluginShape /\ p.loaded /\ ~p.compacted /\ p.silent = plugin.silent
      /\ (plugin.loaded /\ ~plugin.compacted => p = plugin)
      /\ (plugin.loaded /\ plugin.compacted => p.anchors = NoAnchors)
      /\ (~plugin.loaded => /\ p.anchors.context = saved.context
                            /\ p.anchors.iteration = saved.iteration)
  BY OpenedIs
<1>2. p.anchors \in Anchors /\ SavesInv
  BY <1>1 DEF PluginShape, PluginInv
<1>3. new \in Anchors
  BY <1>2, LoweredIs, RaisedIs
<1>4. \/ /\ p.silent
         /\ plugin' = p /\ sent' = Quiet(Out)
         /\ BeginSaves(reset)
      \/ /\ ~p.silent /\ AfterCompress(Out)
         /\ plugin' = [p EXCEPT !.anchors = NoAnchors] /\ sent' = Quiet(Out)
         /\ BeginSaves(reset \o << NoAnchors >>)
      \/ /\ ~p.silent /\ ~AfterCompress(Out)
         /\ plugin' = [p EXCEPT !.anchors = new] /\ sent' = Written(new, Out)
         /\ BeginSaves(reset \o SaveIf(p.anchors, new))
  BY DEF PluginTransform
<1>5. ASSUME NEW a \in Anchors, plugin' = [p EXCEPT !.anchors = a]
      PROVE  /\ plugin' \in PluginShape /\ plugin'.anchors = a
             /\ plugin'.loaded /\ ~plugin'.compacted /\ plugin'.silent = p.silent
  <2> HIDE DEF p
  <2> QED BY <1>1, <1>5 DEF PluginShape
<1> HIDE DEF p, new
<1>6. reset = <<>> =>
        p.anchors.context = wanted.context /\ p.anchors.iteration = wanted.iteration
  <2>1. reset = <<>> => ~(plugin.compacted /\ plugin.loaded)
    BY FewSaves, NoAnchorsIs
  <2> HIDE DEF reset
  <2> QED BY <1>1, <2>1 DEF FileAgrees
<1>7. \/ reset = <<>>
      \/ reset = << NoAnchors >> /\ p.anchors = NoAnchors
  BY <1>1
<1> HIDE DEF reset
<1>8. CASE /\ p.silent
           /\ plugin' = p /\ sent' = Quiet(Out)
           /\ BeginSaves(reset)
  <2>1. reset \in Seq(Anchors)
    BY <1>7, FewSaves, NoAnchorsIs
  <2>2. SavesInv' /\ wanted' = IF reset = <<>> THEN wanted ELSE reset[Len(reset)]
    BY <1>2, <1>8, <2>1, SavesBegin
  <2>3. wanted'.context = p.anchors.context /\ wanted'.iteration = p.anchors.iteration
    BY <1>6, <1>7, <2>2, FewSaves, NoAnchorsIs
  <2> QED BY <1>1, <1>8, <2>2, <2>3 DEF PluginInv, FileAgrees, p, new
<1>9. CASE /\ ~p.silent /\ AfterCompress(Out)
           /\ plugin' = [p EXCEPT !.anchors = NoAnchors] /\ sent' = Quiet(Out)
           /\ BeginSaves(reset \o << NoAnchors >>)
  <2>1. /\ plugin' \in PluginShape /\ plugin'.anchors = NoAnchors
        /\ plugin'.loaded /\ ~plugin'.compacted /\ plugin'.silent = p.silent
    BY <1>5, <1>9, NoAnchorsIs
  <2> DEFINE files == reset \o << NoAnchors >>
  <2>2. files \in Seq(Anchors) /\ files # <<>> /\ files[Len(files)] = NoAnchors
    BY <1>7, LastSave, NoAnchorsIs
  <2> HIDE DEF files
  <2>3. SavesInv' /\ wanted' = NoAnchors
    BY <1>2, <1>9, <2>2, SavesBegin DEF files
  <2> QED BY <1>1, <1>9, <2>1, <2>3 DEF PluginInv, FileAgrees, p, new
<1>10. CASE /\ ~p.silent /\ ~AfterCompress(Out)
            /\ plugin' = [p EXCEPT !.anchors = new] /\ sent' = Written(new, Out)
            /\ BeginSaves(reset \o SaveIf(p.anchors, new))
  <2>1. /\ plugin' \in PluginShape /\ plugin'.anchors = new
        /\ plugin'.loaded /\ ~plugin'.compacted /\ plugin'.silent = p.silent
    BY <1>3, <1>5, <1>10
  <2>2. SavesInv' /\ wanted'.context = new.context /\ wanted'.iteration = new.iteration
    <3> DEFINE files == reset \o SaveIf(p.anchors, new)
    <3>1. CASE new # p.anchors
      <4>1. files = reset \o << new >>
        BY <3>1 DEF SaveIf
      <4>2. files \in Seq(Anchors) /\ files # <<>> /\ files[Len(files)] = new
        BY <1>3, <1>7, <4>1, LastSave
      <4> HIDE DEF files
      <4>3. SavesInv' /\ wanted' = new
        BY <1>2, <1>10, <4>2, SavesBegin DEF files
      <4> QED BY <4>3
    <3>2. CASE new = p.anchors
      <4>1. files = reset
        BY <1>7, <3>2, FewSaves, NoAnchorsIs DEF SaveIf
      <4>2. files \in Seq(Anchors)
        BY <1>7, <4>1, FewSaves, NoAnchorsIs
      <4>3. BeginSaves(reset)
        BY <1>10, <4>1
      <4> HIDE DEF files
      <4>4. SavesInv' /\ wanted' = IF reset = <<>> THEN wanted ELSE reset[Len(reset)]
        BY <1>2, <4>1, <4>2, <4>3, SavesBegin
      <4> QED BY <1>6, <1>7, <3>2, <4>4, FewSaves, NoAnchorsIs
    <3> QED BY <3>1, <3>2
  <2> QED BY <1>1, <1>10, <2>1, <2>2 DEF PluginInv, FileAgrees, p, new
<1> QED BY <1>4, <1>8, <1>9, <1>10

LEMMA PluginInit == Init => PluginInv /\ FileAgrees
<1> SUFFICES ASSUME Init PROVE PluginInv /\ FileAgrees
  OBVIOUS
<1>1. /\ plugin = NewPlugin /\ saved = NoAnchors /\ wanted = NoAnchors
      /\ saving = <<>> /\ late = 0 /\ MaxLate \in Nat
  BY NudgeAssumption DEF Init
<1>2. <<>> \in Seq(Anchors) /\ Len(<<>>) = 0
  BY EmptySeq
<1>3. plugin \in PluginShape /\ ~plugin.loaded
  BY <1>1, NoAnchorsIs DEF NewPlugin, PluginShape
<1> QED BY <1>1, <1>2, <1>3, NoAnchorsIs DEF PluginInv, SavesInv, FileAgrees

\* The last save keeps up with the memory.
LEMMA PluginStep ==
  ASSUME HostInv, PluginInv, FileAgrees, [Next]_vars
  PROVE  PluginInv' /\ FileAgrees'
<1>0. /\ saved \in Anchors /\ wanted \in Anchors /\ saving \in Seq(Anchors)
      /\ late \in Nat /\ Len(saving) <= late /\ Len(saving) \in Nat
      /\ MaxLate \in Nat /\ late <= MaxLate /\ plugin \in PluginShape
  BY LenProperties, NudgeAssumption DEF PluginInv, SavesInv
<1>00. plugin.anchors \in Anchors /\ plugin.silent \in BOOLEAN /\ plugin.loaded \in BOOLEAN
  BY <1>0 DEF PluginShape
<1>1. CASE UNCHANGED <<plugin, fileVars>>
  BY <1>1 DEF PluginInv, SavesInv, FileAgrees, fileVars
<1>2. ASSUME NEW k \in Kinds, HostWrites(k) PROVE UNCHANGED <<plugin, fileVars>>
  BY <1>2 DEF HostWrites
<1>3. ASSUME NEW lo \in Msg, NEW hi \in Msg, NEW oversized \in BOOLEAN,
             Compresses(lo, hi, oversized)
      PROVE  PluginInv' /\ FileAgrees'
  <2>1. plugin' = plugin /\ saving' = saving /\ engine \in {"rust", "plugin"}
    BY <1>3 DEF Compresses, HostInv
  <2>2. CASE engine = "rust"
    <3>1. UNCHANGED <<plugin, fileVars>>
      BY <1>3, <2>1, <2>2 DEF Compresses, fileVars
    <3> QED BY <1>1, <3>1
  <2>3. CASE engine = "plugin"
    <3>1. /\ plugin.loaded /\ wanted' = plugin.anchors
          /\ saved' \in {wanted', saved, NoAnchors}
          /\ late' = late \/ (late < MaxLate /\ late' = late + 1)
      BY <1>3, <2>3 DEF Compresses
    <3>2. saved' \in Anchors /\ wanted' \in Anchors
      BY <1>0, <1>00, <3>1, NoAnchorsIs
    <3>3. late' \in Nat /\ Len(saving) <= late' /\ late' <= MaxLate
      BY <1>0, <3>1
    <3> QED BY <1>0, <2>1, <3>1, <3>2, <3>3 DEF PluginInv, SavesInv, FileAgrees
  <2> QED BY <2>1, <2>2, <2>3
<1>4. ASSUME NEW m \in Msg, HostReverts(m) PROVE UNCHANGED <<plugin, fileVars>>
  BY <1>4 DEF HostReverts
<1>5. CASE HostCompacts
  <2>1. plugin' = [plugin EXCEPT !.compacted = TRUE] /\ UNCHANGED fileVars
    BY <1>5 DEF HostCompacts
  <2>2. plugin' \in PluginShape /\ plugin'.compacted /\ plugin'.loaded = plugin.loaded
    BY <1>0, <2>1 DEF PluginShape
  <2> QED BY <2>1, <2>2 DEF PluginInv, SavesInv, FileAgrees, fileVars
<1>6. CASE Silence
  <2>1. plugin' = [plugin EXCEPT !.silent = ~@] /\ UNCHANGED <<saved, wanted>>
    BY <1>6 DEF Silence
  <2>2. plugin' \in PluginShape /\ plugin'.anchors = plugin.anchors
        /\ plugin'.loaded = plugin.loaded /\ plugin'.compacted = plugin.compacted
    BY <1>0, <2>1 DEF PluginShape
  <2>3. \/ UNCHANGED <<saving, late>>
        \/ /\ plugin.loaded /\ late < MaxLate /\ late' = late + 1
           /\ \E read \in {saved, NoAnchors} : saving' = Append(saving, read)
    BY <1>6 DEF Silence
  <2>4. CASE UNCHANGED <<saving, late>>
    BY <2>1, <2>2, <2>4 DEF PluginInv, SavesInv, FileAgrees
  <2>5. ASSUME plugin.loaded, late < MaxLate, late' = late + 1,
               NEW read \in {saved, NoAnchors}, saving' = Append(saving, read)
        PROVE  PluginInv' /\ FileAgrees'
    <3>1. read \in Anchors
      BY <1>0, NoAnchorsIs
    <3>2. saving' \in Seq(Anchors) /\ Len(saving') = Len(saving) + 1
      BY <1>0, <2>5, <3>1, AppendProperties
    <3>3. late' \in Nat /\ Len(saving') <= late' /\ late' <= MaxLate
      BY <1>0, <2>5, <3>2
    <3> QED BY <1>0, <2>1, <2>2, <2>5, <3>2, <3>3 DEF PluginInv, SavesInv, FileAgrees
  <2> QED BY <2>3, <2>4, <2>5
<1>7. CASE Restart
  <2>1. /\ plugin' = [NewPlugin EXCEPT !.silent = plugin.silent] /\ saving' = <<>>
        /\ saved' \in {saved, NoAnchors} /\ wanted' = saved' /\ late' = late
    BY <1>7 DEF Restart
  <2>2. plugin' \in PluginShape /\ ~plugin'.loaded
    BY <1>00, <2>1, NoAnchorsIs DEF NewPlugin, PluginShape
  <2>3. <<>> \in Seq(Anchors) /\ Len(<<>>) = 0
    BY EmptySeq
  <2>4. saved' \in Anchors
    BY <1>0, <2>1, NoAnchorsIs
  <2> QED BY <1>0, <2>1, <2>2, <2>3, <2>4 DEF PluginInv, SavesInv, FileAgrees
<1>8. ASSUME NEW level \in Levels, RustTransform(level) PROVE UNCHANGED <<plugin, fileVars>>
  BY <1>8 DEF RustTransform
<1>9. ASSUME NEW level \in Levels, PluginTransform(level) PROVE PluginInv' /\ FileAgrees'
  BY <1>9, PluginDoes
<1>10. CASE Command
  <2>1. plugin' = plugin /\ plugin.loaded /\ BeginSaves(<< plugin.anchors >>)
    BY <1>10 DEF Command
  <2> DEFINE files == << plugin.anchors >>
  <2>2. files \in Seq(Anchors) /\ files # <<>> /\ files[Len(files)] = plugin.anchors
    BY <1>00, FewSaves
  <2> HIDE DEF files
  <2>3. SavesInv' /\ wanted' = plugin.anchors
    BY <2>1, <2>2, SavesBegin DEF PluginInv, files
  <2> QED BY <1>0, <2>1, <2>3 DEF PluginInv, FileAgrees
<1>11. CASE SaveEnds
  <2>1. SavesInv' /\ saving # <<>>
    BY <1>11, SaveEndsIs DEF PluginInv
  <2>2. plugin' = plugin /\ wanted' = wanted
    BY <1>11 DEF SaveEnds
  <2> QED BY <1>0, <2>1, <2>2 DEF PluginInv, FileAgrees
<1>12. CASE UNCHANGED vars
  BY <1>1, <1>12 DEF vars
<1> QED BY <1>1, <1>2, <1>3, <1>4, <1>5, <1>6, <1>7, <1>8, <1>9, <1>10, <1>11, <1>12 DEF Next

\* Somebody sees the first entry of a request.
LEMMA FirstIsVisible ==
  ASSUME HostInv, engine = "plugin", list # {}
  PROVE  \E i \in DOMAIN Out : Visible(Out[i].kind)
<1>1. /\ MaxMsg \in Nat /\ newest \in Nat /\ \A m \in list : m \in 1..newest
      /\ \A f \in folds : f.lo \in Nat /\ f.hi \in 1..MaxMsg /\ f.lo <= f.hi /\ f.lo \in list
      /\ \A f, g \in folds : f.hi = g.hi => f = g
      /\ \A m \in list : (\A k \in list : m <= k) => kind[m] # "notice"
  <2>1. folds \in SUBSET [lo : Msg, hi : Msg, at : Msg]
    BY DEF HostInv
  <2>2. \A f \in folds : f.lo \in Nat /\ f.hi \in 1..MaxMsg
    BY <2>1 DEF Msg
  <2> QED BY <2>2, HostNumbers DEF HostInv
<1>2. PICK m \in list : \A k \in list : m <= k
  <2>1. list \in SUBSET Nat
    BY <1>1
  <2> QED BY <2>1, LeastOne
<1>3. \A f \in folds : Inside(f, m) => f.lo = m
  <2> SUFFICES ASSUME NEW f \in folds, Inside(f, m) PROVE f.lo = m
    OBVIOUS
  <2>1. f.lo <= m /\ m <= f.lo /\ f.lo \in Nat /\ m \in Nat
    BY <1>1, <1>2 DEF Inside
  <2> QED BY <2>1
<1>4. m \in Shown(folds) /\ (Top(folds, m) = {} => \A f \in folds : ~Inside(f, m))
  <2>1. CASE \A f \in folds : ~Inside(f, m)
    BY <2>1 DEF Shown
  <2>2. CASE \E f \in folds : Inside(f, m)
    <3> DEFINE Ends == {f.hi : f \in {g \in folds : g.lo = m}}
    <3>1. Ends # {} /\ Ends \in SUBSET (1..MaxMsg)
      BY <1>1, <1>3, <2>2
    <3>2. PICK e \in Ends : \A x \in Ends : x <= e
      <4> HIDE DEF Ends
      <4> QED BY <1>1, <3>1, LastOne
    <3>3. PICK f \in folds : f.lo = m /\ f.hi = e
      BY <3>2
    <3>4. ASSUME NEW g \in folds, Wider(g, f) PROVE FALSE
      <4>1. g # f /\ g.lo <= m /\ e <= g.hi
        BY <3>3, <3>4 DEF Wider
      <4>2. g.lo = m
        BY <1>1, <1>2, <4>1
      <4>3. g.hi <= e
        BY <3>2, <4>2
      <4>4. g.hi = e
        <5>1. g.hi \in Nat /\ e \in Nat
          BY <1>1, <3>3
        <5> HIDE DEF Ends
        <5> QED BY <4>1, <4>3, <5>1
      <4> QED BY <1>1, <3>3, <4>1, <4>4
    <3>5. f \in Top(folds, m)
      BY <3>3, <3>4 DEF Top
    <3> QED BY <3>5 DEF Shown
  <2> QED BY <2>1, <2>2
<1>5. PICK i \in DOMAIN Out : Out[i] = EntryOf(folds, m)
  BY <1>4, OutIs DEF Out
<1>6. Visible(Out[i].kind)
  <2>1. CASE Top(folds, m) = {}
    BY <1>1, <1>2, <1>5, <2>1 DEF EntryOf, Visible
  <2>2. CASE Top(folds, m) # {}
    BY <1>5, <2>2 DEF EntryOf, Visible
  <2> QED BY <2>1, <2>2
<1> QED BY <1>6
----------------------------------------------------------------------------
(***************************************************************************)
(* The library: references, the nudge it chooses, what it remembers.       *)
(***************************************************************************)
RefMaps == UNION {[D -> Nat] : D \in SUBSET Msg}

RustShape == [refs : RefMaps, next : Nat, frontier : Nat, pairs : SUBSET (Msg \X Msg),
              contextCounter : Nat, iterationCounter : Nat]

\* The references are numbered from one without a gap.
Counted(st) ==
  /\ st \in RustShape
  /\ DOMAIN st.refs \subseteq 1..newest
  /\ st.next = Cardinality(DOMAIN st.refs) + 1
  /\ \A m \in DOMAIN st.refs : st.refs[m] \in 1..(st.next - 1)
  /\ st.frontier \in 0..MaxMsg
  /\ \A pair \in st.pairs : pair[2] <= newest

RustInv == Counted(rust)

\* What a pair that was nudged is as long as nothing was folded: an answer and the
\* last message of the user before it.
OwnTurn(pair) ==
  pair[2] \in list =>
    /\ pair[1] \in list /\ pair[1] < pair[2] /\ kind[pair[1]] = "user"
    /\ \A m \in list : pair[1] < m /\ m < pair[2] => kind[m] # "user"

TurnInv == engine = "rust" /\ ~folded => folds = {} /\ \A pair \in rust.pairs : OwnTurn(pair)

LEMMA NextBound ==
  ASSUME HostInv, NEW st, Counted(st)
  PROVE  st.next \in 1..(MaxMsg + 1) /\ st.next <= newest + 1
<1>1. MaxMsg \in Nat /\ newest \in Nat /\ newest <= MaxMsg
  BY HostNumbers
<1>2. IsFiniteSet(1..newest) /\ Cardinality(1..newest) = newest
  BY <1>1, FS_Interval
<1>3. Cardinality(DOMAIN st.refs) <= newest /\ Cardinality(DOMAIN st.refs) \in Nat
  BY <1>2, FS_Subset, FS_CardinalityType DEF Counted
<1>4. st.next = Cardinality(DOMAIN st.refs) + 1
  BY DEF Counted
<1> QED BY <1>1, <1>3, <1>4

\* A record of the library with other references.
WithRefs(st, r, n) ==
  [refs |-> r, next |-> n, frontier |-> st.frontier, pairs |-> st.pairs,
   contextCounter |-> st.contextCounter, iterationCounter |-> st.iterationCounter]

LEMMA RefsField ==
  ASSUME NEW st \in RustShape, NEW r \in RefMaps, NEW n \in Nat
  PROVE  /\ WithRefs(st, r, n) \in RustShape
         /\ WithRefs(st, r, n).refs = r /\ WithRefs(st, r, n).next = n
         /\ WithRefs(st, r, n).frontier = st.frontier
         /\ WithRefs(st, r, n).pairs = st.pairs
<1>1. st.frontier \in Nat /\ st.pairs \in SUBSET (Msg \X Msg)
      /\ st.contextCounter \in Nat /\ st.iterationCounter \in Nat
  BY DEF RustShape
<1> QED BY <1>1 DEF RustShape, WithRefs

LEMMA ClearedIs ==
  ASSUME HostInv, RustInv
  PROVE  Counted(Cleared(rust)) /\ Cleared(rust).pairs = rust.pairs
<1>1. CASE ~(Recent(rust) # {} /\ Recent(rust) \cap list = {})
  BY <1>1 DEF Cleared, RustInv
<1>2. CASE Recent(rust) # {} /\ Recent(rust) \cap list = {}
  <2> DEFINE b == Cleared(rust)
  <2>1. b = [rust EXCEPT !.refs = EmptyFcn, !.next = 1]
    BY <1>2 DEF Cleared
  <2>2. EmptyFcn \in RefMaps /\ DOMAIN EmptyFcn = {}
    <3>1. EmptyFcn \in [{} -> Nat]
      BY DEF EmptyFcn
    <3>2. {} \in SUBSET Msg
      OBVIOUS
    <3> QED BY <3>1, <3>2 DEF RefMaps
  <2> HIDE DEF b
  <2>3. /\ b \in RustShape /\ b.refs = EmptyFcn /\ b.next = 1 /\ b.frontier = rust.frontier
        /\ b.pairs = rust.pairs
    <3>1. rust \in RustShape /\ 1 \in Nat
      BY DEF RustInv, Counted
    <3>2. b = WithRefs(rust, EmptyFcn, 1)
      BY <2>1, <3>1, Zenon DEF RustShape, WithRefs
    <3> QED BY <2>2, <3>1, <3>2, RefsField
  <2>4. Cardinality({}) = 0
    BY FS_EmptySet
  <2> QED BY <2>2, <2>3, <2>4 DEF RustInv, Counted, b
<1> QED BY <1>1, <1>2

LEMMA ReferencedIs ==
  ASSUME HostInv, NEW st, Counted(st)
  PROVE  Counted(Referenced(st)) /\ Referenced(st).pairs = st.pairs
<1> DEFINE D   == DOMAIN st.refs
           new == {m \in list \ DOMAIN st.refs : Visible(kind[m])}
           upto(m) == {k \in new : k <= m}
           refs == [m \in D \cup new |->
                      IF m \in D THEN st.refs[m] ELSE st.next - 1 + Cardinality(upto(m))]
           next == st.next + Cardinality(new)
           b    == Referenced(st)
<1>1. b = [st EXCEPT !.refs = refs, !.next = next]
  BY DEF Referenced
<1>2. MaxMsg \in Nat /\ newest \in Nat /\ newest <= MaxMsg /\ new \subseteq 1..newest
  BY HostNumbers
<1>3. D \subseteq 1..newest /\ st.next = Cardinality(D) + 1 /\ st \in RustShape
      /\ \A m \in D : st.refs[m] \in 1..(st.next - 1)
  BY DEF Counted
<1>4. D \cap new = {}
  OBVIOUS
<1>5. IsFiniteSet(D) /\ IsFiniteSet(new) /\ Cardinality(D) \in Nat /\ Cardinality(new) \in Nat
  <2>1. IsFiniteSet(1..newest)
    BY <1>2, FS_Interval
  <2> HIDE DEF D, new
  <2> QED BY <1>2, <1>3, <2>1, FS_Subset, FS_CardinalityType
<1>6. \A m \in new : Cardinality(upto(m)) \in 1..Cardinality(new)
  <2> TAKE m \in new
  <2>1. upto(m) \subseteq new /\ m \in upto(m)
    BY <1>2
  <2> HIDE DEF upto, new
  <2>2. IsFiniteSet(upto(m)) /\ Cardinality(upto(m)) <= Cardinality(new)
        /\ Cardinality(upto(m)) \in Nat
    BY <1>5, <2>1, FS_Subset, FS_CardinalityType
  <2>3. Cardinality(upto(m)) # 0
    BY <2>1, <2>2, FS_EmptySet
  <2> QED BY <1>5, <2>2, <2>3
<1>7. Cardinality(D \cup new) = Cardinality(D) + Cardinality(new)
  <2> HIDE DEF D, new
  <2>1. Cardinality(D \cup new) = Cardinality(D) + Cardinality(new) - Cardinality(D \cap new)
    BY <1>5, FS_Union
  <2>2. Cardinality(D \cap new) = 0
    BY <1>4, FS_EmptySet
  <2> QED BY <1>5, <2>1, <2>2
<1> HIDE DEF D, new, upto
<1>8. \A m \in D \cup new : refs[m] \in 1..(next - 1)
  <2> TAKE m \in D \cup new
  <2>1. CASE m \in D
    BY <1>3, <1>5, <2>1
  <2>2. CASE m \notin D
    <3>1. refs[m] = st.next - 1 + Cardinality(upto(m)) /\ m \in new
      BY <2>2
    <3>2. Cardinality(upto(m)) \in 1..Cardinality(new)
      BY <1>6, <3>1
    <3> QED BY <1>3, <1>5, <3>1, <3>2
  <2> QED BY <2>1, <2>2
<1>9. refs \in RefMaps /\ DOMAIN refs = D \cup new /\ next \in Nat
  <2>1. next \in Nat
    BY <1>3, <1>5
  <2>2. refs \in [D \cup new -> Nat]
    <3>1. refs = [m \in D \cup new |-> refs[m]]
      OBVIOUS
    <3> HIDE DEF refs, next
    <3>2. \A m \in D \cup new : refs[m] \in Nat
      BY <1>8, <2>1
    <3> QED BY <3>1, <3>2
  <2>3. D \cup new \in SUBSET Msg
    BY <1>2, <1>3 DEF Msg
  <2>4. DOMAIN refs = D \cup new
    OBVIOUS
  <2> HIDE DEF refs
  <2> QED BY <2>1, <2>2, <2>3, <2>4 DEF RefMaps
<1> HIDE DEF refs, next, b
<1>10. /\ b \in RustShape /\ b.refs = refs /\ b.next = next /\ b.frontier = st.frontier
       /\ b.pairs = st.pairs
  <2>1. b = WithRefs(st, refs, next)
    BY <1>1, <1>3, Zenon DEF RustShape, WithRefs
  <2> QED BY <1>3, <1>9, <2>1, RefsField
<1>11. next = Cardinality(D \cup new) + 1
  BY <1>3, <1>5, <1>7 DEF next
<1>12. Counted(b)
  <2>1. DOMAIN b.refs \subseteq 1..newest
    BY <1>2, <1>3, <1>9, <1>10
  <2>2. st.frontier \in 0..MaxMsg /\ \A pair \in st.pairs : pair[2] <= newest
    BY DEF Counted
  <2> QED BY <1>8, <1>9, <1>10, <1>11, <2>1, <2>2 DEF Counted
<1> QED BY <1>10, <1>12 DEF b
\* The entry before an answer that turn_pairs takes for the user's.
LEMMA UserBeforeIs ==
  ASSUME NEW out, Len(out) \in Nat, NEW i \in 1..Len(out)
  PROVE  LET u == UserBefore(out, i)
         IN  /\ u \in 0..(i - 1)
             /\ u # 0 => out[u].kind = "user"
             /\ \A j \in 1..(i - 1) : j > u => out[j].kind # "user"
<1> DEFINE s == SubSeq(out, 1, i - 1)
           All == {out[j] : j \in 1..(i - 1)}
<1>1. 1 \in Int /\ i - 1 \in Nat /\ \A j \in 1..(i - 1) : out[j] \in All
  OBVIOUS
<1>2. Len(s) = i - 1 /\ \A j \in 1..(i - 1) : s[j] = out[j]
  <2>1. Len(s) = (IF 1 <= i - 1 THEN (i - 1) - 1 + 1 ELSE 0)
        /\ \A j \in 1..((i - 1) - 1 + 1) : s[j] = out[1 + j - 1]
    <3> HIDE DEF All
    <3> QED BY <1>1, SubSeqProperties
  <2>2. (i - 1) - 1 + 1 = i - 1 /\ \A j \in 1..(i - 1) : 1 + j - 1 = j
    OBVIOUS
  <2> HIDE DEF s
  <2>3. Len(s) = i - 1
    BY <1>1, <2>1
  <2> QED BY <2>1, <2>2, <2>3
<1>3. UserBefore(out, i) = LastOf(s, PlainUser)
  BY DEF UserBefore
<1> HIDE DEF s
<1> DEFINE u == UserBefore(out, i)
<1>4. /\ u \in 0..Len(s)
      /\ u # 0 => s[u].kind = "user"
      /\ \A j \in 1..Len(s) : j > u => s[j].kind # "user"
  <2>1. Len(s) \in Nat
    BY <1>1, <1>2
  <2> QED BY <1>3, <2>1, LastUser
<1> HIDE DEF u, All
<1>5. /\ u \in 0..(i - 1)
      /\ u # 0 => out[u].kind = "user"
      /\ \A j \in 1..(i - 1) : j > u => out[j].kind # "user"
  <2>1. u \in 0..(i - 1)
    BY <1>2, <1>4
  <2>2. u # 0 => u \in 1..(i - 1)
    BY <1>1, <2>1
  <2> QED BY <1>2, <1>4, <2>1, <2>2
<1> QED BY <1>5 DEF u

\* A pair of messages of the list.
LEMMA PairAtIs ==
  ASSUME HostInv, engine = "rust", NEW fs, NEW i \in PairEnds(OutOf(fs))
  PROVE  /\ PairAt(OutOf(fs), i) \in Msg \X Msg /\ PairAt(OutOf(fs), i)[2] <= newest
         /\ fs = {} => OwnTurn(PairAt(OutOf(fs), i))
<1> DEFINE out == OutOf(fs)
           n   == Len(out)
           u   == UserBefore(out, i)
<1>0. /\ n \in Nat /\ DOMAIN out = 1..n
      /\ \A j \in 1..n : out[j] = EntryOf(fs, Position(fs, j))
      /\ \A j, k \in 1..n : j < k => Position(fs, j) < Position(fs, k)
      /\ \A m \in Shown(fs) : \E j \in 1..n : Position(fs, j) = m
  BY OutIs
<1>1. i \in 1..n /\ u # 0
  BY <1>0 DEF PairEnds
<1>2. u \in 0..(i - 1) /\ out[u].kind = "user"
      /\ \A j \in 1..(i - 1) : j > u => out[j].kind # "user"
  BY <1>0, <1>1, UserBeforeIs
<1>3. u \in 1..n /\ u < i
  BY <1>0, <1>1, <1>2
<1>4. \A j \in 1..n : out[j].id = Position(fs, j) /\ Position(fs, j) \in list /\ Position(fs, j) \in 1..newest
  BY <1>0, RustEntry
<1>5. PairAt(out, i) = <<Position(fs, u), Position(fs, i)>>
  <2>1. PairAt(out, i) = <<out[u].id, out[i].id>>
    BY DEF PairAt
  <2> QED BY <1>1, <1>3, <1>4, <2>1
<1> HIDE DEF out, u, n
<1>6. /\ PairAt(out, i) \in Msg \X Msg /\ PairAt(out, i)[2] <= newest
  <2>1. newest \in Nat /\ MaxMsg \in Nat /\ newest <= MaxMsg
    BY HostNumbers
  <2>2. Position(fs, u) \in Msg /\ Position(fs, i) \in Msg /\ Position(fs, i) <= newest
    BY <1>1, <1>3, <1>4, <2>1 DEF Msg
  <2> QED BY <1>5, <2>2
<1>7. ASSUME fs = {} PROVE OwnTurn(PairAt(out, i))
  <2>1. Shown(fs) = list /\ \A j \in 1..n : out[j].kind = kind[Position(fs, j)]
    BY <1>0, <1>7, OutUnfolded
  <2>2. Position(fs, u) \in list /\ Position(fs, u) < Position(fs, i) /\ kind[Position(fs, u)] = "user"
    BY <1>0, <1>1, <1>2, <1>3, <1>4, <2>1
  <2>3. ASSUME NEW m \in list, Position(fs, u) < m, m < Position(fs, i)
        PROVE  kind[m] # "user"
    <3>1. PICK j \in 1..n : Position(fs, j) = m
      <4>1. m \in Shown(fs)
        BY <2>1
      <4> QED BY <1>0, <4>1
    <3>2. u < j /\ j < i
      <4>1. Position(fs, u) \in Nat /\ Position(fs, i) \in Nat /\ Position(fs, j) \in Nat /\ u \in Nat /\ i \in Nat /\ j \in Nat
        BY <1>0, <1>1, <1>3, <1>4
      <4>2. ~(j < u) /\ j # u
        BY <1>0, <1>3, <2>3, <3>1, <4>1
      <4>3. ~(i < j) /\ j # i
        BY <1>0, <1>1, <2>3, <3>1, <4>1
      <4> QED BY <4>1, <4>2, <4>3
    <3>3. j \in 1..(i - 1)
      BY <1>1, <3>2
    <3> QED BY <1>2, <2>1, <3>1, <3>2, <3>3
  <2> QED BY <1>5, <2>2, <2>3 DEF OwnTurn
<1> QED BY <1>6, <1>7 DEF out

\* candidate_turn: an answer that ends a pair nobody was reminded of.
LEMMA TurnAtIs ==
  ASSUME NEW st, NEW out, DOMAIN out \subseteq Nat, TurnAt(st, out) # 0
  PROVE  \E i \in PairEnds(out) : TurnAt(st, out) = out[i].id /\ PairAt(out, i) \notin st.pairs
<1> DEFINE old == {i \in PairEnds(out) : \E j \in PairEnds(out) : i < j}
           due == {i \in old : Anchored(out[i]) /\ PairAt(out, i) \notin st.pairs}
           first == CHOOSE i \in due : \A j \in due : i <= j
<1>1. TurnAt(st, out) = IF due = {} THEN 0 ELSE out[first].id
  BY DEF TurnAt
<1>2. due # {}
  BY <1>1
<1>3. due \in SUBSET Nat /\ due \subseteq PairEnds(out)
      /\ \A i \in due : PairAt(out, i) \notin st.pairs
  BY DEF PairEnds
<1> HIDE DEF due
<1>4. \E i \in due : \A j \in due : i <= j
  BY <1>2, <1>3, LeastOne
<1>5. first \in due
  BY <1>4
<1> HIDE DEF first
<1> QED BY <1>1, <1>2, <1>3, <1>5

\* build_priority_map: one of the candidates, or none.
LEMMA ChosenIs ==
  ASSUME NEW st, NEW out, NEW level
  PROVE  LET nudge == Chosen(st, out, level)
         IN  \/ nudge = NoNudge
             \/ nudge.at # 0 /\ nudge.kind \in {"context", "iteration"}
             \/ nudge.at # 0 /\ nudge.kind = "turn" /\ nudge.at = TurnAt(st, out)
<1> DEFINE c == [kind |-> "context", at |-> ContextAt(st, out, level)]
           r == [kind |-> "iteration", at |-> IterationAt(st, out)]
           t == [kind |-> "turn", at |-> IF NudgeForce = "soft" THEN TurnAt(st, out) ELSE 0]
           ranked == <<c, r, t>>
           fits == {i \in DOMAIN ranked : ranked[i].at # 0 /\ PastFrontier(st, ranked[i].at)}
           first == CHOOSE i \in fits : \A j \in fits : i <= j
<1>1. Chosen(st, out, level) = IF fits = {} THEN NoNudge ELSE ranked[first]
  BY DEF Chosen
<1>2. DOMAIN ranked = 1..3 /\ ranked[1] = c /\ ranked[2] = r /\ ranked[3] = t
  <2> HIDE DEF c, r, t
  <2> QED OBVIOUS
<1>3. /\ c.kind = "context" /\ r.kind = "iteration" /\ t.kind = "turn"
      /\ t.at # 0 => t.at = TurnAt(st, out)
  OBVIOUS
<1> HIDE DEF c, r, t, ranked
<1>4. fits \in SUBSET Nat /\ fits \subseteq 1..3 /\ \A i \in fits : ranked[i].at # 0
  BY <1>2
<1> HIDE DEF fits
<1>5. CASE fits = {}
  BY <1>1, <1>5
<1>6. CASE fits # {}
  <2>1. first \in fits
    <3>1. \E i \in fits : \A j \in fits : i <= j
      BY <1>4, <1>6, LeastOne
    <3> QED BY <3>1
  <2> HIDE DEF first
  <2>2. first = 1 \/ first = 2 \/ first = 3
    BY <1>4, <2>1
  <2>3. Chosen(st, out, level) = ranked[first] /\ ranked[first].at # 0
    BY <1>1, <1>4, <1>6, <2>1
  <2> QED BY <1>2, <1>3, <2>2, <2>3
<1> QED BY <1>5, <1>6
\* What the library remembers of a nudge.
LEMMA NotedIs ==
  ASSUME HostInv, engine = "rust", NEW fs, NEW st, Counted(st), NEW level
  PROVE  LET out == OutOf(fs)
             b   == Noted(st, out, Chosen(st, out, level))
         IN  /\ Counted(b)
             /\ \/ b.pairs = st.pairs
                \/ \E i \in PairEnds(out) : b.pairs = st.pairs \cup {PairAt(out, i)}
<1> DEFINE out   == OutOf(fs)
           nudge == Chosen(st, out, level)
           b     == Noted(st, out, nudge)
           i     == CHOOSE j \in DOMAIN out : out[j].id = nudge.at
<1>1. \/ b = st
      \/ nudge # NoNudge /\ nudge.kind = "context" /\ b = [st EXCEPT !.contextCounter = 0]
      \/ nudge # NoNudge /\ nudge.kind = "iteration" /\ b = [st EXCEPT !.iterationCounter = 0]
      \/ /\ nudge # NoNudge /\ nudge.kind \notin {"context", "iteration"}
         /\ b = [st EXCEPT !.pairs = st.pairs \cup {PairAt(out, i)}]
  BY DEF Noted
<1>2. st \in RustShape
  BY DEF Counted
<1>3. \/ nudge = NoNudge
      \/ nudge.at # 0 /\ nudge.kind \in {"context", "iteration"}
      \/ nudge.at # 0 /\ nudge.kind = "turn" /\ nudge.at = TurnAt(st, out)
  BY ChosenIs
<1>4. CASE b = st
  BY <1>4
<1> HIDE DEF b
<1>5. CASE b = [st EXCEPT !.contextCounter = 0]
  <2>1. /\ b \in RustShape /\ b.refs = st.refs /\ b.next = st.next /\ b.pairs = st.pairs
        /\ b.frontier = st.frontier
    BY <1>2, <1>5 DEF RustShape
  <2> QED BY <2>1 DEF Counted, b
<1>6. CASE b = [st EXCEPT !.iterationCounter = 0]
  <2>1. /\ b \in RustShape /\ b.refs = st.refs /\ b.next = st.next /\ b.pairs = st.pairs
        /\ b.frontier = st.frontier
    BY <1>2, <1>6 DEF RustShape
  <2> QED BY <2>1 DEF Counted, b
<1>7. CASE /\ nudge # NoNudge /\ nudge.kind \notin {"context", "iteration"}
           /\ b = [st EXCEPT !.pairs = st.pairs \cup {PairAt(out, i)}]
  <2>1. nudge.at # 0 /\ nudge.at = TurnAt(st, out)
    BY <1>3, <1>7
  <2>2. /\ DOMAIN out = 1..Len(out) /\ Len(out) \in Nat
        /\ \A j, k \in 1..Len(out) : out[j].id = out[k].id => j = k
    BY OutIs
  <2>3. PICK k \in PairEnds(out) : TurnAt(st, out) = out[k].id
    <3>1. DOMAIN out \subseteq Nat
      BY <2>2
    <3> HIDE DEF out
    <3> QED BY <2>1, <3>1, TurnAtIs
  <2>4. i = k
    <3>1. k \in DOMAIN out /\ out[k].id = nudge.at
      BY <2>1, <2>3 DEF PairEnds
    <3> HIDE DEF out, nudge
    <3>2. i \in DOMAIN out /\ out[i].id = nudge.at
      BY <3>1
    <3> HIDE DEF i
    <3> QED BY <2>2, <3>1, <3>2
  <2> DEFINE more == st.pairs \cup {PairAt(out, k)}
  <2>5. PairAt(out, k) \in Msg \X Msg /\ PairAt(out, k)[2] <= newest
    BY PairAtIs
  <2>6. more \in SUBSET (Msg \X Msg) /\ \A pair \in more : pair[2] <= newest
    BY <1>2, <2>5 DEF Counted, RustShape
  <2>7. b = [st EXCEPT !.pairs = more]
    BY <1>7, <2>4
  <2> HIDE DEF more
  <2>8. /\ b \in RustShape /\ b.refs = st.refs /\ b.next = st.next /\ b.pairs = more
        /\ b.frontier = st.frontier
    BY <1>2, <2>6, <2>7 DEF RustShape
  <2>9. Counted(b)
    BY <2>6, <2>8 DEF Counted
  <2> QED BY <2>8, <2>9 DEF b, more
<1> QED BY <1>1, <1>4, <1>5, <1>6, <1>7

\* The text that goes out: at most one nudge, where it was chosen.
LEMMA InjectedIs ==
  ASSUME NEW out, NEW nudge
  PROVE  LET says == Stripped(Injected(out, nudge))
         IN  /\ DOMAIN says = {out[i].id : i \in DOMAIN out}
             /\ \A e \in DOMAIN says : \A n \in says[e] : n = nudge.kind /\ e = nudge.at
<1> DEFINE ids  == {out[i].id : i \in DOMAIN out}
           inj  == Injected(out, nudge)
<1>1. DOMAIN inj = ids /\ \A e \in ids : \A n \in inj[e] : n = nudge.kind /\ e = nudge.at
  BY DEF Injected
<1> HIDE DEF inj, ids
<1>2. CASE InjectionMode = "append_text"
  <2>1. Stripped(inj) = inj
    BY <1>2 DEF Stripped
  <2> QED BY <1>1, <2>1 DEF inj, ids
<1>3. CASE InjectionMode # "append_text"
  <2>1. Stripped(inj) = [e \in ids |-> {}]
    BY <1>1, <1>3 DEF Stripped
  <2> QED BY <2>1 DEF inj, ids
<1> QED BY <1>2, <1>3

\* One request of the library.
LEMMA RustDoes ==
  ASSUME HostInv, RustInv, NEW level, RustTransform(level)
  PROVE  /\ RustInv' /\ newest' = newest /\ engine = "rust"
         /\ DOMAIN sent' \subseteq 1..newest
         /\ \A e \in DOMAIN sent' : sent'[e] \subseteq NudgeKinds
         /\ \E fs \in {folds, {}} :
              /\ folds' = fs
              /\ \/ rust'.pairs = rust.pairs
                 \/ \E i \in PairEnds(OutOf(fs)) :
                      rust'.pairs = rust.pairs \cup {PairAt(OutOf(fs), i)}
              /\ \A e \in DOMAIN sent' : "turn" \in sent'[e] =>
                   \E i \in PairEnds(OutOf(fs)) :
                     OutOf(fs)[i].id = e /\ PairAt(OutOf(fs), i) \notin rust.pairs
<1> DEFINE left  == IF Cleared(rust) = rust THEN folds ELSE {}
           out   == OutOf(left)
           st    == Referenced(Cleared(rust))
           nudge == Chosen(st, out, level)
<1>1. /\ engine = "rust" /\ rust' = Noted(st, out, nudge)
      /\ sent' = Stripped(Injected(out, nudge)) /\ folds' = left /\ kind' = kind
  BY DEF RustTransform
<1>2. Counted(st) /\ st.pairs = rust.pairs
  <2>1. Counted(Cleared(rust)) /\ Cleared(rust).pairs = rust.pairs
    BY ClearedIs
  <2> QED BY <2>1, ReferencedIs
<1> HIDE DEF st, left
<1>3. newest' = newest
  BY <1>1 DEF newest
<1>4. /\ Counted(rust')
      /\ \/ rust'.pairs = st.pairs
         \/ \E i \in PairEnds(out) : rust'.pairs = st.pairs \cup {PairAt(out, i)}
  BY <1>1, <1>2, NotedIs
<1>5. RustInv'
  BY <1>3, <1>4 DEF RustInv, Counted
<1>6. /\ DOMAIN sent' = {out[i].id : i \in DOMAIN out}
      /\ \A e \in DOMAIN sent' : \A n \in sent'[e] : n = nudge.kind /\ e = nudge.at
  BY <1>1, InjectedIs
<1>7. DOMAIN sent' \subseteq 1..newest
  <2>1. \A i \in DOMAIN out : out[i].id \in 1..newest
    BY <1>1, RustEntry
  <2> HIDE DEF out
  <2> QED BY <1>6, <2>1
<1>8. \/ nudge = NoNudge
      \/ nudge.at # 0 /\ nudge.kind \in {"context", "iteration"}
      \/ nudge.at # 0 /\ nudge.kind = "turn" /\ nudge.at = TurnAt(st, out)
  BY ChosenIs
<1>9. DOMAIN out \subseteq Nat
  BY OutIs
<1>10. NoNudge.at = 0
  BY DEF NoNudge
<1> HIDE DEF out, nudge
<1>11. \A e \in DOMAIN sent' : sent'[e] \subseteq NudgeKinds
  <2> SUFFICES ASSUME NEW e \in DOMAIN sent', NEW n \in sent'[e] PROVE n \in NudgeKinds
    OBVIOUS
  <2>1. n = nudge.kind /\ e = nudge.at /\ e \in 1..newest
    BY <1>6, <1>7
  <2>2. newest \in Nat
    BY HostNumbers
  <2>3. nudge # NoNudge
    BY <1>10, <2>1, <2>2
  <2> QED BY <1>8, <2>1, <2>3 DEF NudgeKinds
<1>12. ASSUME NEW e \in DOMAIN sent', "turn" \in sent'[e]
       PROVE  \E i \in PairEnds(out) : out[i].id = e /\ PairAt(out, i) \notin rust.pairs
  <2>1. nudge.kind = "turn" /\ e = nudge.at
    BY <1>6, <1>12
  <2>2. nudge # NoNudge
    BY <2>1 DEF NoNudge
  <2>3. e = TurnAt(st, out) /\ e # 0
    BY <1>8, <2>1, <2>2
  <2> QED BY <1>2, <1>9, <2>3, TurnAtIs
<1>13. left \in {folds, {}}
  BY DEF left
<1> QED BY <1>1, <1>2, <1>3, <1>4, <1>5, <1>7, <1>11, <1>12, <1>13 DEF out
LEMMA RustInit == Init => RustInv
<1> SUFFICES ASSUME Init PROVE RustInv
  OBVIOUS
<1>1. rust = NewRust /\ newest = 0 /\ MaxMsg \in Nat
  BY NudgeAssumption DEF Init, newest
<1>2. EmptyFcn \in RefMaps /\ DOMAIN EmptyFcn = {}
  <2>1. EmptyFcn \in [{} -> Nat]
    BY DEF EmptyFcn
  <2>2. {} \in SUBSET Msg
    OBVIOUS
  <2> QED BY <2>1, <2>2 DEF RefMaps
<1>3. Cardinality({}) = 0
  BY FS_EmptySet
<1> QED BY <1>1, <1>2, <1>3 DEF RustInv, Counted, RustShape, NewRust

\* A library that starts again.
LEMMA RustNew ==
  ASSUME HostInv, NEW n \in Nat
  PROVE  /\ NewRust \in RustShape /\ DOMAIN NewRust.refs \subseteq 1..n
         /\ NewRust.next = Cardinality(DOMAIN NewRust.refs) + 1
         /\ DOMAIN NewRust.refs = {} /\ NewRust.frontier \in 0..MaxMsg /\ NewRust.pairs = {}
<1>1. EmptyFcn \in RefMaps /\ DOMAIN EmptyFcn = {}
  <2>1. EmptyFcn \in [{} -> Nat]
    BY DEF EmptyFcn
  <2>2. {} \in SUBSET Msg
    OBVIOUS
  <2> QED BY <2>1, <2>2 DEF RefMaps
<1>2. Cardinality({}) = 0
  BY FS_EmptySet
<1>3. MaxMsg \in Nat
  BY HostNumbers
<1> QED BY <1>1, <1>2, <1>3 DEF RustShape, NewRust

LEMMA RustStep ==
  ASSUME HostInv, RustInv, [Next]_vars
  PROVE  RustInv'
<1>0. newest' \in Nat /\ newest \in Nat /\ newest <= newest'
  <2>1. newest' \in 0..MaxMsg /\ newest <= newest'
    BY HostKeeps
  <2> QED BY <2>1, HostNumbers
<1>1. ASSUME rust' \in RustShape, rust'.refs = rust.refs, rust'.next = rust.next,
             rust'.pairs = rust.pairs, rust'.frontier \in 0..MaxMsg
      PROVE  RustInv'
  <2>1. DOMAIN rust.refs \subseteq 1..newest'
    BY <1>0 DEF RustInv, Counted
  <2>2. \A pair \in rust.pairs : pair[2] <= newest'
    <3> SUFFICES ASSUME NEW pair \in rust.pairs PROVE pair[2] <= newest'
      OBVIOUS
    <3>1. pair[2] \in Int /\ pair[2] <= newest
      BY DEF RustInv, Counted, RustShape, Msg
    <3> QED BY <1>0, <3>1
  <2> QED BY <1>1, <2>1, <2>2 DEF RustInv, Counted
<1>2. ASSUME rust' = rust PROVE RustInv'
  BY <1>1, <1>2 DEF RustInv, Counted
<1>3. ASSUME NEW lo \in Msg, NEW hi \in Msg, NEW oversized \in BOOLEAN,
             Compresses(lo, hi, oversized)
      PROVE  RustInv'
  <2>1. CASE rust' = rust
    BY <1>2, <2>1
  <2>2. CASE rust' # rust
    <3>1. hi \in DOMAIN rust.refs /\ rust' = [rust EXCEPT !.frontier = rust.refs[hi]]
      BY <1>3, <2>2 DEF Compresses
    <3>2. rust.refs[hi] \in 0..MaxMsg /\ rust.refs[hi] \in Nat
      <4>1. rust.refs[hi] \in 1..(rust.next - 1) /\ rust.next \in 1..(MaxMsg + 1)
        BY <3>1, NextBound DEF RustInv, Counted
      <4> QED BY <4>1, HostNumbers
    <3>3. rust \in RustShape
      BY DEF RustInv, Counted
    <3>4. /\ rust' \in RustShape /\ rust'.refs = rust.refs /\ rust'.next = rust.next
          /\ rust'.pairs = rust.pairs /\ rust'.frontier = rust.refs[hi]
      BY <3>1, <3>2, <3>3 DEF RustShape
    <3> QED BY <1>1, <3>2, <3>4
  <2> QED BY <2>1, <2>2
<1>4. CASE Restart
  <2>1. rust' = NewRust
    BY <1>4 DEF Restart
  <2> QED BY <1>0, <2>1, RustNew DEF RustInv, Counted
<1>5. ASSUME NEW level \in Levels, RustTransform(level) PROVE RustInv'
  BY <1>5, RustDoes
<1>6. ASSUME NEW k \in Kinds, HostWrites(k) PROVE rust' = rust
  BY <1>6 DEF HostWrites
<1>7. ASSUME NEW m \in Msg, HostReverts(m) PROVE rust' = rust
  BY <1>7 DEF HostReverts
<1>8. HostCompacts => rust' = rust
  BY DEF HostCompacts
<1>9. Silence => rust' = rust
  BY DEF Silence
<1>10. ASSUME NEW level \in Levels, PluginTransform(level) PROVE rust' = rust
  BY <1>10 DEF PluginTransform
<1>11. Command \/ SaveEnds => rust' = rust
  BY DEF Command, SaveEnds
<1>12. UNCHANGED vars => rust' = rust
  BY DEF vars
<1> QED BY <1>2, <1>3, <1>4, <1>5, <1>6, <1>7, <1>8, <1>9, <1>10, <1>11, <1>12 DEF Next

\* A pair the library remembers stays the turn it was, or leaves the list for good.
LEMMA TurnStep ==
  ASSUME HostInv, RustInv, TurnInv, [Next]_vars
  PROVE  TurnInv'
<1> SUFFICES ASSUME engine' = "rust", ~folded'
             PROVE  folds' = {} /\ \A pair \in rust'.pairs : OwnTurn(pair)'
  BY DEF TurnInv
<1>0. /\ engine = "rust" /\ newest \in Nat
      /\ \A m \in list : m \in 1..newest
      /\ \A m \in list' : m \in list \/ m > newest
      /\ \A m \in list' : m \in list => kind'[m] = kind[m]
  BY HostKeeps, HostNumbers
<1>1. \A pair \in rust.pairs : pair[1] \in Nat /\ pair[2] \in Nat /\ pair[2] <= newest
  BY DEF RustInv, Counted, RustShape, Msg
<1>2. ASSUME ~folded, folds' \subseteq folds, rust' = rust,
             \A pair \in rust.pairs : pair[2] \in list' /\ pair[1] \in list /\ pair[1] < pair[2]
               => pair[1] \in list'
      PROVE  folds' = {} /\ \A pair \in rust'.pairs : OwnTurn(pair)'
  <2>1. folds = {} /\ \A pair \in rust.pairs : OwnTurn(pair)
    BY <1>0, <1>2 DEF TurnInv
  <2>2. ASSUME NEW pair \in rust.pairs, pair[2] \in list'
        PROVE  /\ pair[1] \in list' /\ pair[1] < pair[2] /\ kind'[pair[1]] = "user"
               /\ \A m \in list' : pair[1] < m /\ m < pair[2] => kind'[m] # "user"
    <3>1. pair[2] \in list
      BY <1>0, <1>1, <2>2
    <3>2. /\ pair[1] \in list /\ pair[1] < pair[2] /\ kind[pair[1]] = "user"
          /\ \A m \in list : pair[1] < m /\ m < pair[2] => kind[m] # "user"
      BY <2>1, <3>1 DEF OwnTurn
    <3>3. pair[1] \in list' /\ kind'[pair[1]] = "user"
      BY <1>0, <1>2, <2>2, <3>2
    <3>4. ASSUME NEW m \in list', pair[1] < m, m < pair[2]
          PROVE  kind'[m] # "user"
      <4>1. ~(m > newest)
        <5> SUFFICES ASSUME m > newest PROVE FALSE
          OBVIOUS
        <5>1. m \in Nat
          <6>1. list' \in SUBSET (1..newest')
            BY HostStep DEF HostInv
          <6>2. newest' \in Nat
            BY HostKeeps, HostNumbers
          <6> QED BY <6>1, <6>2
        <5> QED BY <1>0, <1>1, <3>4, <5>1
      <4>2. m \in list
        BY <1>0, <4>1
      <4> QED BY <1>0, <3>2, <3>4, <4>2
    <3> QED BY <3>2, <3>3, <3>4
  <2> QED BY <1>2, <2>1, <2>2 DEF OwnTurn
<1>3. ASSUME NEW k \in Kinds, HostWrites(k)
      PROVE  folds' = {} /\ \A pair \in rust'.pairs : OwnTurn(pair)'
  <2>1. folded' = folded /\ folds' = folds /\ rust' = rust /\ list \subseteq list'
    BY <1>3 DEF HostWrites
  <2> QED BY <1>2, <2>1
<1>4. ASSUME NEW lo \in Msg, NEW hi \in Msg, NEW oversized \in BOOLEAN,
             Compresses(lo, hi, oversized)
      PROVE  FALSE
  BY <1>0, <1>4 DEF Compresses
<1>5. ASSUME NEW m \in Msg, HostReverts(m)
      PROVE  folds' = {} /\ \A pair \in rust'.pairs : OwnTurn(pair)'
  <2>1. folded' = folded /\ folds' \subseteq folds /\ rust' = rust
        /\ list' = {k \in list : k < m}
    BY <1>5 DEF HostReverts
  <2>2. \A pair \in rust.pairs : pair[2] \in list' /\ pair[1] \in list /\ pair[1] < pair[2]
          => pair[1] \in list'
    BY <1>1, <2>1 DEF Msg
  <2> QED BY <1>2, <2>1, <2>2
<1>6. CASE HostCompacts
  <2>1. folded' = folded /\ folds' = folds /\ rust' = rust /\ list' = {newest + 1}
    BY <1>0, <1>6 DEF HostCompacts
  <2>2. \A pair \in rust.pairs : pair[2] \notin list'
    BY <1>0, <1>1, <2>1
  <2> QED BY <1>2, <2>1, <2>2
<1>7. CASE Silence
  BY <1>0, <1>7 DEF Silence
<1>8. CASE Restart
  <2>1. folds' = {} /\ rust' = NewRust
    BY <1>0, <1>8 DEF Restart, Restored
  <2>2. NewRust.pairs = {}
    BY DEF NewRust
  <2> QED BY <2>1, <2>2
<1>9. ASSUME NEW level \in Levels, RustTransform(level)
      PROVE  folds' = {} /\ \A pair \in rust'.pairs : OwnTurn(pair)'
  <2>1. list' = list /\ kind' = kind /\ folded' = folded
    BY <1>9 DEF RustTransform
  <2>2. folds = {} /\ \A pair \in rust.pairs : OwnTurn(pair)
    BY <1>0, <2>1 DEF TurnInv
  <2>3. folds' = {} /\ \/ rust'.pairs = rust.pairs
                       \/ \E i \in PairEnds(OutOf({})) :
                            rust'.pairs = rust.pairs \cup {PairAt(OutOf({}), i)}
    BY <1>9, <2>2, RustDoes
  <2>4. \A i \in PairEnds(OutOf({})) : OwnTurn(PairAt(OutOf({}), i))
    BY <1>0, PairAtIs
  <2>5. \A pair \in rust'.pairs : OwnTurn(pair)
    BY <2>2, <2>3, <2>4
  <2> QED BY <2>1, <2>3, <2>5 DEF OwnTurn
<1>10. ASSUME NEW level \in Levels, PluginTransform(level) PROVE FALSE
  BY <1>0, <1>10 DEF PluginTransform
<1>11. CASE Command \/ SaveEnds
  <2>1. folded' = folded /\ folds' = folds /\ rust' = rust /\ list' = list
    BY <1>11 DEF Command, SaveEnds, hostVars
  <2> QED BY <1>2, <2>1
<1>12. CASE UNCHANGED vars
  <2>1. folded' = folded /\ folds' = folds /\ rust' = rust /\ list' = list
    BY <1>12 DEF vars, hostVars
  <2> QED BY <1>2, <2>1
<1> QED BY <1>3, <1>4, <1>5, <1>6, <1>7, <1>8, <1>9, <1>10, <1>11, <1>12 DEF Next

\* What was sent keeps hanging on its anchor.
LEMMA SentStep ==
  ASSUME HostInv, PluginInv, FileAgrees, RustInv, SentInv, History, [Next]_vars
  PROVE  SentInv'
<1>0. /\ newest' \in Nat /\ newest \in Nat /\ newest <= newest' /\ engine' = engine
      /\ newest' <= MaxMsg /\ MaxMsg \in Nat
      /\ \A m \in list' : m \in list \/ m > newest
      /\ \A m \in list' : m \in list => kind'[m] = kind[m]
  BY HostKeeps, HostNumbers
<1>00. Entries \subseteq Nat
  BY <1>0 DEF Entries
<1>1. ASSUME sent' = sent, since' = "change" => since = "change",
             \A e \in DOMAIN sent : \A n \in sent[e] : engine = "plugin" /\ Hangs(e, n) => Hangs(e, n)'
      PROVE  SentInv'
  <2>1. \A e \in DOMAIN sent : e \in Nat /\ (e <= MaxMsg => e <= newest)
    BY <1>00 DEF SentInv
  <2>2. \A e \in DOMAIN sent : e <= MaxMsg => e <= newest'
    BY <1>0, <2>1
  <2>3. ASSUME engine = "plugin", NEW e \in DOMAIN sent, NEW n \in sent[e],
               e > MaxMsg \/ e \in list'
        PROVE  Carries(KindOf(e)') /\ (n = "turn" => Speaks(KindOf(e)'))
    <3>1. e > MaxMsg \/ e \in list
      BY <1>0, <2>1, <2>3
    <3>2. KindOf(e)' = KindOf(e)
      BY <1>0, <2>3, <3>1 DEF KindOf
    <3>3. Carries(KindOf(e)) /\ (n = "turn" => Speaks(KindOf(e)))
      BY <2>3, <3>1 DEF SentInv
    <3> QED BY <3>2, <3>3
  <2> QED BY <1>0, <1>1, <2>2, <2>3 DEF SentInv
<1>2. ASSUME UNCHANGED <<sent, plugin, since>>, ~plugin.loaded => saved' = saved PROVE SentInv'
  BY <1>1, <1>2 DEF Hangs
<1>3. ASSUME NEW k \in Kinds, HostWrites(k) PROVE SentInv'
  BY <1>2, <1>3 DEF HostWrites, fileVars
<1>4. ASSUME NEW lo \in Msg, NEW hi \in Msg, NEW oversized \in BOOLEAN,
             Compresses(lo, hi, oversized)
      PROVE  SentInv'
  <2>1. UNCHANGED <<sent, plugin, since>> /\ (~plugin.loaded => saved' = saved)
    BY <1>4 DEF Compresses
  <2> QED BY <1>2, <2>1
<1>5. ASSUME NEW m \in Msg, HostReverts(m) PROVE SentInv'
  BY <1>2, <1>5 DEF HostReverts, fileVars
<1>50. ASSUME Changes PROVE SentInv'
  <2>1. sent' = EmptyFcn /\ DOMAIN EmptyFcn = {}
    BY <1>50 DEF Changes, EmptyFcn
  <2>2. \A e \in DOMAIN sent' : FALSE
    BY <2>1
  <2> QED BY <2>1, <2>2 DEF SentInv
<1>6. CASE HostCompacts
  BY <1>6, <1>50 DEF HostCompacts
<1>7. CASE Silence
  BY <1>7, <1>50 DEF Silence
<1>8. CASE Restart
  <2>1. CASE Changes
    BY <1>50, <2>1
  <2>2. CASE ~Changes
    <3>1. /\ since # "change" /\ saving = <<>> /\ saved = wanted /\ saved' = saved
          /\ since' = "restart" /\ sent' = sent
          /\ plugin' = [NewPlugin EXCEPT !.silent = plugin.silent]
      BY <1>8, <2>2 DEF Restart
    <3>2. ~plugin'.loaded /\ ~plugin'.compacted
      BY <3>1 DEF NewPlugin
    <3>3. ASSUME NEW e \in DOMAIN sent, NEW n \in sent[e], engine = "plugin", Hangs(e, n)
          PROVE  Hangs(e, n)'
      <4>1. ASSUME n # "turn" PROVE e \in saved[n]
        <5>1. n \in {"context", "iteration"}
          BY <4>1 DEF SentInv, NudgeKinds
        <5>2. since = "nothing" \/ since = "restart"
          BY <3>1 DEF History
        <5>3. CASE since = "restart"
          BY <3>3, <4>1, <5>3 DEF Hangs
        <5>4. CASE since = "nothing"
          <6>1. plugin.loaded /\ ~plugin.compacted /\ e \in plugin.anchors[n]
            BY <3>3, <5>4 DEF Hangs
          <6>2. plugin.anchors.context = saved.context
                /\ plugin.anchors.iteration = saved.iteration
            BY <3>1, <6>1 DEF FileAgrees
          <6> QED BY <5>1, <6>1, <6>2
        <5> QED BY <5>2, <5>3, <5>4
      <4> QED BY <3>1, <3>2, <4>1 DEF Hangs
    <3> QED BY <1>1, <3>1, <3>3
  <2> QED BY <2>1, <2>2
<1>9. ASSUME NEW level \in Levels, RustTransform(level) PROVE SentInv'
  <2>1. /\ engine = "rust" /\ newest' = newest /\ DOMAIN sent' \subseteq 1..newest
        /\ \A e \in DOMAIN sent' : sent'[e] \subseteq NudgeKinds
    BY <1>9, RustDoes
  <2>2. DOMAIN sent' \subseteq Entries /\ \A e \in DOMAIN sent' : e <= newest'
    BY <1>0, <2>1 DEF Entries
  <2>3. since' = "nothing"
    BY <1>9 DEF RustTransform
  <2> QED BY <1>0, <2>1, <2>2, <2>3 DEF SentInv
<1>10. ASSUME NEW level \in Levels, PluginTransform(level) PROVE SentInv'
  <2>1. /\ plugin'.loaded /\ ~plugin'.compacted
        /\ sent' = Quiet(Out) \/ sent' = Written(plugin'.anchors, Out)
    BY <1>10, PluginDoes
  <2>2. engine = "plugin" /\ list' = list /\ kind' = kind
        /\ since' = "nothing"
    BY <1>10 DEF PluginTransform, hostVars
  <2>3. \A i \in DOMAIN Out :
          /\ Out[i].id \in Entries /\ Out[i].kind = KindOf(Out[i].id)
          /\ Out[i].id <= MaxMsg => Out[i].id \in list
    BY <2>2, PluginEntry
  <2>4. \A m \in list : m <= newest
    BY HostNumbers
  <2>5. newest' = newest
    BY <2>2 DEF newest
  <2>6. DOMAIN sent' = {Out[i].id : i \in DOMAIN Out}
    <3>1. CASE sent' = Quiet(Out)
      BY <3>1 DEF Quiet
    <3>2. CASE sent' = Written(plugin'.anchors, Out)
      BY <3>2, WrittenDomain
    <3> QED BY <2>1, <3>1, <3>2
  <2>7. ASSUME NEW i \in DOMAIN Out, NEW n \in sent'[Out[i].id]
        PROVE  /\ n \in NudgeKinds /\ Out[i].id \in plugin'.anchors[n]
               /\ Carries(Out[i].kind) /\ (n = "turn" => Speaks(Out[i].kind))
    <3>1. sent' # Quiet(Out)
      <4> SUFFICES ASSUME sent' = Quiet(Out) PROVE FALSE
        OBVIOUS
      <4>1. Out[i].id \in {Out[j].id : j \in DOMAIN Out}
        OBVIOUS
      <4>2. Quiet(Out)[Out[i].id] = {}
        BY <4>1 DEF Quiet
      <4> QED BY <2>7, <4>2
    <3> QED BY <2>1, <2>7, <3>1, WrittenIs
  <2>8. \A e \in DOMAIN sent' : \E i \in DOMAIN Out : e = Out[i].id
    BY <2>6
  <2>9. ASSUME NEW e \in DOMAIN sent', NEW n \in sent'[e]
        PROVE  /\ n \in NudgeKinds /\ Hangs(e, n)'
               /\ Carries(KindOf(e)') /\ (n = "turn" => Speaks(KindOf(e)'))
    <3>1. PICK i \in DOMAIN Out : e = Out[i].id
      BY <2>8
    <3>2. /\ n \in NudgeKinds /\ e \in plugin'.anchors[n]
          /\ Carries(Out[i].kind) /\ (n = "turn" => Speaks(Out[i].kind))
      BY <2>7, <2>9, <3>1
    <3>3. KindOf(e)' = Out[i].kind
      BY <2>2, <2>3, <3>1 DEF KindOf
    <3>4. Hangs(e, n)'
      BY <2>1, <2>2, <3>2 DEF Hangs
    <3> QED BY <3>2, <3>3, <3>4
  <2>10. \A e \in DOMAIN sent' : e \in Entries /\ (e <= MaxMsg => e <= newest')
    BY <2>3, <2>4, <2>5, <2>8
  <2> QED BY <1>0, <2>2, <2>9, <2>10 DEF SentInv
<1>11. CASE Command
  <2>1. UNCHANGED <<sent, plugin, since>> /\ plugin.loaded
    BY <1>11 DEF Command
  <2> QED BY <1>2, <2>1
<1>12. CASE SaveEnds
  <2>1. saving # <<>>
    BY <1>12, SaveEndsIs DEF PluginInv
  <2>2. UNCHANGED <<sent, plugin, since>> /\ plugin.loaded
    BY <1>12, <2>1 DEF SaveEnds, FileAgrees
  <2> QED BY <1>2, <2>2
<1>13. CASE UNCHANGED vars
  BY <1>2, <1>13 DEF vars, fileVars
<1> QED BY <1>3, <1>4, <1>5, <1>6, <1>7, <1>8, <1>9, <1>10, <1>11, <1>12, <1>13 DEF Next
----------------------------------------------------------------------------
(***************************************************************************)
(* The invariant, and what the specification promises.                     *)
(***************************************************************************)
NudgesInv ==
  HostInv /\ PluginInv /\ FileAgrees /\ RustInv /\ TurnInv /\ SentInv /\ History

LEMMA NudgesInit == Init => NudgesInv
<1> SUFFICES ASSUME Init PROVE NudgesInv
  OBVIOUS
<1>1. HostInv /\ PluginInv /\ FileAgrees /\ RustInv
  BY HostInit, PluginInit, RustInit
<1>2. TurnInv
  BY DEF Init, TurnInv, NewRust
<1>3. SentInv /\ History
  BY DEF Init, SentInv, History, EmptyFcn
<1> QED BY <1>1, <1>2, <1>3 DEF NudgesInv

LEMMA HistoryStep == History /\ [Next]_vars => History'
<1> SUFFICES ASSUME History, [Next]_vars PROVE History'
  OBVIOUS
<1>1. ASSUME UNCHANGED <<engine, since, folded>> PROVE History'
  BY <1>1 DEF History
<1>2. ASSUME NEW k \in Kinds, HostWrites(k) PROVE History'
  BY <1>1, <1>2 DEF HostWrites
<1>3. ASSUME NEW lo \in Msg, NEW hi \in Msg, NEW oversized \in BOOLEAN,
             Compresses(lo, hi, oversized)
      PROVE  History'
  BY <1>3 DEF Compresses, History
<1>4. ASSUME NEW m \in Msg, HostReverts(m) PROVE History'
  BY <1>1, <1>4 DEF HostReverts
<1>5. CASE HostCompacts
  BY <1>5 DEF HostCompacts, Changes, History
<1>6. CASE Silence
  BY <1>6 DEF Silence, Changes, History
<1>7. CASE Restart
  BY <1>7 DEF Restart, Changes, History
<1>8. ASSUME NEW level \in Levels, RustTransform(level) PROVE History'
  BY <1>8 DEF RustTransform, History
<1>9. ASSUME NEW level \in Levels, PluginTransform(level) PROVE History'
  BY <1>9 DEF PluginTransform, History
<1>10. CASE Command \/ SaveEnds
  BY <1>1, <1>10 DEF Command, SaveEnds
<1>11. CASE UNCHANGED vars
  BY <1>1, <1>11 DEF vars
<1> QED BY <1>2, <1>3, <1>4, <1>5, <1>6, <1>7, <1>8, <1>9, <1>10, <1>11 DEF Next

\* One step per component of the invariant.
LEMMA NudgesStep == NudgesInv /\ [Next]_vars => NudgesInv'
BY HostStep, PluginStep, RustStep, TurnStep, SentStep, HistoryStep DEF NudgesInv

THEOREM NudgesInvHolds == Spec => []NudgesInv
BY NudgesInit, NudgesStep, PTL DEF Spec

LEMMA TypesFollow == NudgesInv => TypeOK
<1> SUFFICES ASSUME NudgesInv PROVE TypeOK
  OBVIOUS
<1> USE DEF NudgesInv
<1>1. engine \in Engines /\ kind \in Seq(Kinds) /\ newest <= MaxMsg /\ list \subseteq 1..newest
      /\ \A f \in folds : f.lo <= f.hi /\ f.hi < f.at /\ f.at <= newest
  BY HostNumbers DEF HostInv, History
<1>2. /\ DOMAIN rust.refs \subseteq 1..newest
      /\ \A m \in DOMAIN rust.refs : rust.refs[m] \in 1..(rust.next - 1)
      /\ rust.next \in 1..(MaxMsg + 1) /\ rust.frontier \in 0..MaxMsg
      /\ rust.pairs \subseteq Msg \X Msg
      /\ rust.contextCounter \in Nat /\ rust.iterationCounter \in Nat
  BY NextBound DEF RustInv, Counted, RustShape
<1>3. /\ {plugin.anchors, saved, wanted} \subseteq Anchors
      /\ saving \in Seq(Anchors) /\ Len(saving) <= late /\ late <= MaxLate
      /\ {plugin.loaded, plugin.silent, plugin.compacted} \subseteq BOOLEAN
  BY DEF PluginInv, SavesInv, PluginShape
<1>4. DOMAIN sent \subseteq Entries /\ \A e \in DOMAIN sent : sent[e] \subseteq NudgeKinds
  BY DEF SentInv
<1> QED BY <1>1, <1>2, <1>3, <1>4 DEF TypeOK, History

\* The types, and that the library's references are numbered below its next number
\* (assign_message_refs, maybe_detect_compaction).
THEOREM TypeCorrect == Spec => []TypeOK
BY NudgesInvHolds, TypesFollow, PTL

LEMMA FullStep ==
  ASSUME NudgesInv, Talks("high")
  PROVE  LET out == Out IN
         \E i \in DOMAIN out :
           /\ i > LastOf(out, Visible) - Frequency
           /\ out[i].id \in plugin'.anchors.context
           /\ "context" \in sent'[out[i].id] \/ out[i].kind = "failed"
<1> DEFINE last == LastOf(Out, Visible)
           old  == Lowered(Opened(plugin).anchors, "high")
           new  == Raised(old, Out, "high")
<1>1. /\ engine = "plugin" /\ list # {} /\ ~plugin.silent /\ ~AfterCompress(Out)
      /\ PluginTransform("high") /\ "high" \in Levels
  BY DEF Talks, PluginTransform, Levels
<1>2. plugin'.anchors = new /\ sent' = Written(new, Out)
  BY <1>1, PluginDoes DEF NudgesInv
<1>3. Opened(plugin) \in PluginShape
  BY OpenedIs DEF NudgesInv
<1>4. old \in Anchors
  BY <1>3, LoweredIs DEF PluginShape
<1>5. /\ DOMAIN Out = 1..Len(Out) /\ Len(Out) \in Nat
      /\ \A i \in DOMAIN Out : Out[i].id \in Entries
  BY OutIsSeq DEF NudgesInv
<1>6. last \in 0..Len(Out) /\ \A i \in 1..Len(Out) : i > last => ~Visible(Out[i].kind)
  BY <1>5, LastVisible
<1>7. last \in DOMAIN Out
  <2>1. PICK i \in DOMAIN Out : Visible(Out[i].kind)
    BY <1>1, FirstIsVisible DEF NudgesInv
  <2> HIDE DEF last
  <2>2. ~(i > last) /\ i \in 1..Len(Out)
    BY <1>5, <1>6, <2>1
  <2> QED BY <1>5, <1>6, <2>2
<1>8. new = [old EXCEPT !.context = AddAnchor(old.context, Out, last)]
  <2>1. last # 0
    BY <1>5, <1>7
  <2> QED BY <2>1 DEF Raised
<1> HIDE DEF last, old, new
<1>9. old.context \in SUBSET Entries
  BY <1>4 DEF Anchors
<1>10. /\ AddAnchor(old.context, Out, last) \in SUBSET Entries
       /\ \E j \in DOMAIN Out : j > last - Frequency
                               /\ Out[j].id \in AddAnchor(old.context, Out, last)
  <2>1. DOMAIN Out \subseteq Nat
    BY <1>5
  <2> QED BY <1>5, <1>7, <1>9, <2>1, AddAnchorIs
<1>11. new.context = AddAnchor(old.context, Out, last)
  BY <1>4, <1>8, <1>10, AnchorFields
<1>12. PICK j \in DOMAIN Out : j > last - Frequency /\ Out[j].id \in new.context
  BY <1>10, <1>11
<1>13. "context" \in sent'[Out[j].id] \/ Out[j].kind = "failed"
  <2>1. "context" \in NudgeKinds /\ Out[j].id \in new["context"]
    BY <1>12 DEF NudgeKinds
  <2>2. Carries(Out[j].kind) => "context" \in Written(new, Out)[Out[j].id]
    BY <1>12, <2>1, WrittenIs DEF NudgesInv
  <2> QED BY <1>2, <2>2 DEF Carries
<1> QED BY <1>2, <1>12, <1>13 DEF last

\* While the context is over the limit the plugin never runs out of anchors near the
\* end of a request (addAnchor measures their spacing in the request itself).
THEOREM PluginNudgesWhenFullHolds == Spec => PluginNudgesWhenFull
<1>1. NudgesInv /\ [Next]_vars =>
        [Talks("high") =>
           LET out == Out IN
           \E i \in DOMAIN out :
             /\ i > LastOf(out, Visible) - Frequency
             /\ out[i].id \in plugin'.anchors.context
             /\ "context" \in sent'[out[i].id] \/ out[i].kind = "failed"]_vars
  BY FullStep
<1> QED BY <1>1, NudgesInvHolds, PTL DEF Spec, PluginNudgesWhenFull

LEMMA StayStep ==
  ASSUME NudgesInv, since # "change", NEW level \in {"mid", "high"}, Talks(level),
         NEW e \in DOMAIN sent \cap DOMAIN sent', NEW n \in sent[e],
         ~(n = "turn" /\ since = "restart")
  PROVE  n \in sent'[e]
<1> DEFINE p   == Opened(plugin)
           old == Lowered(p.anchors, level)
           new == Raised(old, Out, level)
<1>1. /\ engine = "plugin" /\ ~plugin.silent /\ ~AfterCompress(Out)
      /\ PluginTransform(level) /\ level \in Levels /\ level # "low"
  BY DEF Talks, PluginTransform, Levels
<1>2. sent' = Written(new, Out)
  BY <1>1, PluginDoes DEF NudgesInv
<1>3. /\ p \in PluginShape
      /\ plugin.loaded /\ ~plugin.compacted => p = plugin
      /\ ~plugin.loaded => /\ p.anchors.context = saved.context
                           /\ p.anchors.iteration = saved.iteration
  BY OpenedIs DEF NudgesInv
<1>4. p.anchors \in Anchors
  BY <1>3 DEF PluginShape
<1>5. old = p.anchors
  BY <1>1, <1>4, LoweredIs
<1>6. n \in NudgeKinds /\ Hangs(e, n)
      /\ (e > MaxMsg \/ e \in list => Carries(KindOf(e)) /\ (n = "turn" => Speaks(KindOf(e))))
  BY <1>1 DEF NudgesInv, SentInv
<1>7. \A k \in NudgeKinds : p.anchors[k] \subseteq new[k]
  BY <1>1, <1>4, <1>5, RaisedIs DEF NudgesInv
<1> HIDE DEF p, old, new
<1>8. e \in p.anchors[n]
  <2>1. CASE since = "nothing"
    BY <1>3, <1>6, <2>1 DEF Hangs
  <2>2. CASE since # "nothing"
    <3>1. since = "restart" /\ n # "turn"
      BY <2>2 DEF NudgesInv, History
    <3>2. ~plugin.loaded /\ e \in saved[n]
      BY <1>6, <3>1 DEF Hangs
    <3>3. n = "context" \/ n = "iteration"
      BY <1>6, <3>1 DEF NudgeKinds
    <3> QED BY <1>3, <3>2, <3>3
  <2> QED BY <2>1, <2>2
<1>9. e \in new[n]
  BY <1>6, <1>7, <1>8
<1>10. PICK i \in DOMAIN Out : e = Out[i].id
  <2>1. e \in DOMAIN sent'
    OBVIOUS
  <2>2. DOMAIN sent' = {Out[j].id : j \in DOMAIN Out}
    BY <1>2, WrittenDomain
  <2> QED BY <2>1, <2>2
<1>11. Out[i].kind = KindOf(e) /\ e \in Entries /\ (e <= MaxMsg => e \in list)
  BY <1>1, <1>10, PluginEntry DEF NudgesInv
<1>12. e > MaxMsg \/ e \in list
  <2>1. MaxMsg \in Nat /\ e \in Nat
    BY <1>11, NudgeAssumption DEF Entries
  <2> QED BY <1>11, <2>1
<1>13. Carries(Out[i].kind) /\ (n = "turn" => Speaks(Out[i].kind))
  BY <1>6, <1>11, <1>12
<1> QED BY <1>2, <1>6, <1>9, <1>10, <1>13, WrittenIs DEF NudgesInv

\* What a message carried it carries in the next request, across a restart too if the
\* file holds what the last save was to write: the anchors of the memory, because every
\* change of them is followed by a save of its own (inject.ts, saveSessionState).
THEOREM NudgesStayHolds == Spec => NudgesStay
<1>1. NudgesInv /\ [Next]_vars =>
        [since # "change" =>
           \A e \in DOMAIN sent \cap DOMAIN sent' :
             \A n \in sent[e] \ sent'[e] :
               \/ n = "turn" /\ since = "restart"
               \/ ~\E level \in {"mid", "high"} : Talks(level)]_vars
  BY StayStep
<1> QED BY <1>1, NudgesInvHolds, PTL DEF Spec, NudgesStay

LEMMA OnceStep ==
  ASSUME NudgesInv, NEW level \in Levels, ~folded, RustTransform(level),
         NEW e \in DOMAIN sent', "turn" \in sent'[e], NEW pair \in rust.pairs, pair[2] = e
  PROVE  FALSE
<1> DEFINE out == OutOf({})
<1>1. engine = "rust"
  BY DEF RustTransform
<1>2. folds = {} /\ OwnTurn(pair) /\ pair \in Msg \X Msg
  BY <1>1 DEF NudgesInv, TurnInv, RustInv, Counted, RustShape
<1>3. PICK i \in PairEnds(out) : out[i].id = e /\ PairAt(out, i) \notin rust.pairs
  BY <1>2, RustDoes DEF NudgesInv
<1>4. /\ PairAt(out, i) \in Msg \X Msg /\ OwnTurn(PairAt(out, i))
      /\ PairAt(out, i)[2] = e
  <2>1. PairAt(out, i) \in Msg \X Msg /\ OwnTurn(PairAt(out, i))
    BY <1>1, PairAtIs DEF NudgesInv
  <2>2. PairAt(out, i)[2] = out[i].id
    BY DEF PairAt
  <2> QED BY <1>3, <2>1, <2>2
<1>5. e \in list
  <2>1. i \in DOMAIN out
    BY DEF PairEnds
  <2> QED BY <1>1, <1>3, <2>1, RustEntry DEF NudgesInv
<1> DEFINE q == PairAt(out, i)
<1> HIDE DEF q
<1>6. q \in Msg \X Msg /\ OwnTurn(q) /\ q[2] = e /\ q \notin rust.pairs
  BY <1>3, <1>4 DEF q
<1>7. /\ pair[1] \in list /\ pair[1] < e /\ kind[pair[1]] = "user"
      /\ \A m \in list : pair[1] < m /\ m < e => kind[m] # "user"
  BY <1>2, <1>5 DEF OwnTurn
<1>8. /\ q[1] \in list /\ q[1] < e /\ kind[q[1]] = "user"
      /\ \A m \in list : q[1] < m /\ m < e => kind[m] # "user"
  BY <1>5, <1>6 DEF OwnTurn
<1>9. pair[1] = q[1]
  <2>1. pair[1] \in Nat /\ q[1] \in Nat
    BY <1>2, <1>6 DEF Msg
  <2> QED BY <1>7, <1>8, <2>1
<1>10. pair = q
  BY <1>2, <1>6, <1>9
<1> QED BY <1>6, <1>10

\* As long as the library has folded nothing, no answer is nudged twice for its turn
\* (turn_pairs, inject_nudges).
THEOREM TurnNudgedOnceHolds == Spec => TurnNudgedOnce
<1>1. NudgesInv /\ [Next]_vars =>
        [\A level \in Levels :
           ~folded /\ RustTransform(level) =>
             \A e \in DOMAIN sent' :
               "turn" \in sent'[e] => \A pair \in rust.pairs : pair[2] # e]_vars
  BY OnceStep
<1> QED BY <1>1, NudgesInvHolds, PTL DEF Spec, TurnNudgedOnce
=============================================================================
