------------------------ MODULE PluginPruningProofs ------------------------
(***************************************************************************)
(* Proofs about the plugin's pruning of tool calls, for any transcript,    *)
(* any size of the cache and any lists of protected tools: the strategies  *)
(* take nothing the model has not been sent, of equal calls one stays, and *)
(* nothing protected is pruned.  The argument: an entry of the cache tells *)
(* the truth about its call or is blind, and stays so, as a call's input   *)
(* never changes once it is known; a listed call was sent in full or is    *)
(* pruned already; and when the copy that stood for a duplicate is itself  *)
(* taken, the last call of the same signature takes its place.             *)
(***************************************************************************)
EXTENDS PluginPruning, FiniteSetTheorems, SequenceTheorems, TLAPS

\* A state of a session: its fields and nothing else; the cache is a sequence.
Shaped(s) ==
  /\ s = [cache |-> s.cache, toolIdList |-> s.toolIdList, pruned |-> s.pruned,
          currentTurn |-> s.currentTurn, lastCompaction |-> s.lastCompaction,
          protect |-> s.protect]
  /\ s.cache \in Seq(ToSet(s.cache))

\* Calls have an input; what is listed or pruned is a call.
CallsInv ==
  /\ calls \in Seq([msg : Nat, tool : {kind[1] : kind \in Kinds},
                    param : {kind[2] : kind \in Kinds}, status : Ended \cup {"pending"}])
  /\ msgs \in Seq({"user", "step", "summary"})

\* An entry tells what its call does, or the call is blind; a call has one entry.
Truthful(e, bl) ==
  /\ e.id \in Ids /\ e.tool = calls[e.id].tool
  /\ e.param = NoInput => e.id \in bl
  /\ e.param # NoInput => e.param = calls[e.id].param /\ calls[e.id].status # "pending"

CacheInv(s, bl) ==
  /\ \A e \in ToSet(s.cache) : Truthful(e, bl)
  /\ \A e, f \in ToSet(s.cache) : e.id = f.id => e = f

\* What a strategy pruned was sent in full.
PrunedInv(s, sn) ==
  /\ DOMAIN s.pruned \subseteq Ids
  /\ \A c \in DOMAIN s.pruned : s.pruned[c] # "sweep" => c \in sn

\* A listed call was sent in full, or is pruned.
ListInv(s, sn) ==
  /\ s.toolIdList \subseteq Ids
  /\ \A c \in s.toolIdList : c \in sn \/ c \in DOMAIN s.pruned

\* But for the calls in ex, what was pruned as a duplicate has a copy that is left.
CopyInv(s, ex) ==
  \A c \in DOMAIN s.pruned \ ex :
    s.pruned[c] = "duplicate" => \E d \in Ids : StandsFor(s, d, c)

KeptInv(s, bl) ==
  \A c \in DOMAIN s.pruned \ bl :
    /\ calls[c].tool \notin ProtectedTools[s.pruned[c]]
    /\ calls[c].param \notin ProtectedParams

\* What holds of a state while a request makes its list anew.
CoreInv(s, sn, bl, ex) ==
  /\ Shaped(s)
  /\ CacheInv(s, bl)
  /\ PrunedInv(s, sn)
  /\ CopyInv(s, ex)
  /\ KeptInv(s, bl)

StateInv(s, sn, bl, ex) == CoreInv(s, sn, bl, ex) /\ ListInv(s, sn)

\* From the request to the end of the step that answers it the list holds nothing the
\* user has taken back.
Listed(s) == \A c \in s.toolIdList : calls[c].msg \in Transcript

\* ex is any set of calls a step is not asked to account for; with all of Nat exempt the
\* invariant holds through reverts too.
Inv(ex) ==
  /\ CallsInv
  /\ phase # "idle" => Listed(state)
  /\ StateInv(state, seen, blind, ex)

IInv == Inv(Nat)

----------------------------------------------------------------------------
(***************************************************************************)
(* Numbers of calls.                                                       *)
(***************************************************************************)

\* A set of numbers has a least one.
LEMMA LeastOne ==
  ASSUME NEW D \in SUBSET Nat, D # {}
  PROVE  \E m \in D : \A x \in D : m <= x
<1>1. IsWellFoundedOn(OpToRel(<, Nat), Nat)
  BY NatLessThanWellFounded
<1>2. PICK m \in D : \A x \in D : <<x, m>> \notin OpToRel(<, Nat)
  BY <1>1, WFMin
<1>3. ASSUME NEW x \in D, x < m PROVE FALSE
  <2>1. <<x, m>> \in OpToRel(<, Nat)
    BY <1>3 DEF OpToRel
  <2> QED BY <1>2, <2>1
<1> QED BY <1>3

\* A set of calls has a last one.
LEMMA LastOne ==
  ASSUME NEW n \in Nat, NEW D \in SUBSET (1..n), D # {}
  PROVE  \E e \in D : \A x \in D : x <= e
<1> DEFINE Back == {n - x : x \in D}
<1>1. Back \in SUBSET Nat /\ Back # {}
  <2>1. \A x \in D : x \in Int /\ n - x \in Nat
    OBVIOUS
  <2> QED BY <2>1
<1>2. PICK m \in Back : \A x \in Back : m <= x
  <2> HIDE DEF Back
  <2> QED BY <1>1, LeastOne
<1>3. PICK e \in D : m = n - e
  OBVIOUS
<1>4. ASSUME NEW x \in D PROVE x <= e
  <2>1. m <= n - x
    BY <1>2
  <2> QED BY <1>3, <2>1
<1> QED BY <1>4

Ordered(ids, order) ==
  /\ order \in [1..Cardinality(ids) -> ids]
  /\ \A i, j \in DOMAIN order : i < j => order[i] < order[j]

\* One more call before all others.
LEMMA OrderedAdd ==
  ASSUME NEW A \in SUBSET Nat, IsFiniteSet(A), NEW m \in A, \A x \in A : m <= x,
         NEW o, Ordered(A \ {m}, o)
  PROVE  \E order : Ordered(A, order)
<1> DEFINE n == Cardinality(A)
           order == [i \in 1..n |-> IF i = 1 THEN m ELSE o[i - 1]]
<1>1. n \in Nat /\ Cardinality(A \ {m}) = n - 1 /\ n - 1 \in Nat
  <2>1. IsFiniteSet(A \ {m}) /\ Cardinality(A \ {m}) = n - 1
    BY FS_RemoveElement
  <2> QED BY <2>1, FS_CardinalityType
<1> HIDE DEF n
<1>2. o \in [1..(n - 1) -> A \ {m}] /\ \A i, j \in 1..(n - 1) : i < j => o[i] < o[j]
  BY <1>1 DEF Ordered, n
<1>3. order \in [1..n -> A]
  BY <1>1, <1>2
<1>4. ASSUME NEW i \in 1..n, NEW j \in 1..n, i < j
      PROVE  order[i] < order[j]
  <2>1. j - 1 \in 1..(n - 1) /\ order[j] = o[j - 1] /\ o[j - 1] \in A \ {m}
    BY <1>1, <1>2, <1>4
  <2>2. CASE i = 1
    <3>1. order[i] = m
      BY <1>4, <2>2
    <3>2. \A x \in A \ {m} : m < x
      OBVIOUS
    <3> HIDE DEF order
    <3> QED BY <2>1, <3>1, <3>2
  <2>3. CASE i # 1
    <3>1. i - 1 \in 1..(n - 1) /\ order[i] = o[i - 1] /\ i - 1 < j - 1
      BY <1>1, <1>4, <2>3
    <3> QED BY <1>2, <2>1, <3>1
  <2> QED BY <2>2, <2>3
<1> QED BY <1>3, <1>4 DEF Ordered, n

\* Every finite set of calls can be put in order.
LEMMA OrderExists ==
  ASSUME NEW A \in SUBSET Nat, IsFiniteSet(A)
  PROVE  \E order : Ordered(A, order)
<1> DEFINE Bad == {B \in FiniteSubsetsOf(Nat) : ~ \E order : Ordered(B, order)}
<1>1. SUFFICES ASSUME Bad # {} PROVE FALSE
  BY DEF FiniteSubsetsOf
<1>2. IsWellFoundedOn(StrictSubsetOrdering(Nat), FiniteSubsetsOf(Nat))
  BY FS_StrictSubsetOrderingWellFounded
<1>3. PICK B \in Bad : \A C \in Bad : <<C, B>> \notin StrictSubsetOrdering(Nat)
  <2>1. Bad \subseteq FiniteSubsetsOf(Nat)
    OBVIOUS
  <2> HIDE DEF Bad
  <2> QED BY <1>1, <1>2, <2>1, WFMin
<1>4. B \in SUBSET Nat /\ IsFiniteSet(B) /\ ~ \E order : Ordered(B, order)
  BY DEF FiniteSubsetsOf
<1>5. B # {}
  <2>1. Cardinality({}) = 0 /\ 1..0 = {}
    BY FS_EmptySet
  <2>2. Ordered({}, [i \in {} |-> i])
    BY <2>1 DEF Ordered
  <2> QED BY <1>4, <2>2
<1>6. PICK m \in B : \A x \in B : m <= x
  BY <1>4, <1>5, LeastOne
<1>7. B \ {m} \in FiniteSubsetsOf(Nat)
  BY <1>4, FS_RemoveElement DEF FiniteSubsetsOf
<1>8. <<B \ {m}, B>> \in StrictSubsetOrdering(Nat)
  BY <1>4, <1>6 DEF StrictSubsetOrdering
<1>9. \E order : Ordered(B \ {m}, order)
  BY <1>3, <1>7, <1>8
<1> QED BY <1>4, <1>6, <1>9, OrderedAdd

LEMMA InOrderType ==
  ASSUME NEW A \in SUBSET Nat, IsFiniteSet(A)
  PROVE  InOrder(A) \in [1..Cardinality(A) -> A]
BY OrderExists DEF InOrder, Ordered

----------------------------------------------------------------------------
(***************************************************************************)
(* The cache.                                                              *)
(***************************************************************************)

LEMMA IdsType ==
  ASSUME CallsInv
  PROVE  /\ Len(calls) \in Nat /\ Ids = 1..Len(calls) /\ Ids \in SUBSET Nat
         /\ IsFiniteSet(Ids)
         /\ \A c \in Ids : calls[c].status \in Ended \cup {"pending"} /\ calls[c].param # NoInput
<1>1. Len(calls) \in Nat /\ Ids = 1..Len(calls)
  BY DEF CallsInv, Ids
<1>2. IsFiniteSet(Ids)
  BY <1>1, FS_Interval
<1>3. \A c \in Ids : calls[c] \in [msg : Nat, tool : {kind[1] : kind \in Kinds},
                    param : {kind[2] : kind \in Kinds}, status : Ended \cup {"pending"}]
  BY <1>1, ElementOfSeq DEF CallsInv
<1> QED BY <1>1, <1>2, <1>3, PruningAssumption DEF PruningAssumption

\* Trimming keeps a part of the cache.
LEMMA TrimKeeps ==
  ASSUME NEW S, NEW cache \in Seq(S)
  PROVE  /\ TrimToolParametersCache(cache) \in Seq(ToSet(TrimToolParametersCache(cache)))
         /\ ToSet(TrimToolParametersCache(cache)) \subseteq ToSet(cache)
<1> DEFINE n == Len(cache)
           m == 1 + n - (IF n < MaxCache THEN n ELSE MaxCache)
           r == SubSeq(cache, m, n)
<1>1. n \in Nat /\ m \in 1..(n + 1) /\ DOMAIN cache = 1..n
  BY PruningAssumption DEF PruningAssumption
<1>2. \A i \in m..n : cache[i] \in ToSet(cache)
  BY <1>1 DEF ToSet
<1>3. r = TrimToolParametersCache(cache)
  BY DEF TrimToolParametersCache
<1> HIDE DEF m, n
<1>4. r \in Seq(ToSet(cache))
  BY <1>1, <1>2, SubSeqProperties
<1> HIDE DEF r
<1>5. r \in [1..Len(r) -> ToSet(cache)] /\ Len(r) \in Nat
  BY <1>4
<1>6. ToSet(r) \subseteq ToSet(cache)
  BY <1>5 DEF ToSet
<1>7. r \in Seq(ToSet(r))
  <2>1. r \in [1..Len(r) -> ToSet(r)]
    BY <1>5 DEF ToSet
  <2> QED BY <1>5, <2>1, SeqDef
<1> QED BY <1>3, <1>6, <1>7

\* What a synchronisation adds to the cache are entries of calls that had none, as
\* the calls are at that moment.
LEMMA SyncAdds ==
  ASSUME CallsInv, NEW s, Shaped(s), NEW hidden
  PROVE  LET r == SyncToolCache(s, hidden)
         IN  /\ Shaped(r)
             /\ r.toolIdList = s.toolIdList /\ r.pruned = s.pruned
             /\ \A e \in ToSet(r.cache) \ ToSet(s.cache) :
                  /\ e.id \in Ids \ CachedIds(s.cache)
                  /\ e = Entry(e.id, CountTurns(calls[e.id].msg, s.lastCompaction, hidden))
<1> DEFINE TurnOf(c) == CountTurns(calls[c].msg, s.lastCompaction, hidden)
           fresh == {c \in BuildToolIdList(s.lastCompaction, hidden) \ CachedIds(s.cache) :
                       ~(s.protect > 0 /\ s.currentTurn - TurnOf(c) < s.protect)}
           order == InOrder(fresh)
           added == [i \in DOMAIN order |-> Entry(order[i], TurnOf(order[i]))]
           News == {Entry(c, TurnOf(c)) : c \in fresh}
           r == SyncToolCache(s, hidden)
           cache == TrimToolParametersCache(s.cache \o added)
<1>1. r = [s EXCEPT !.cache = cache]
  BY DEF SyncToolCache
<1>2. fresh \subseteq Ids \ CachedIds(s.cache) /\ fresh \in SUBSET Nat /\ IsFiniteSet(fresh)
  <2>1. fresh \subseteq Ids \ CachedIds(s.cache)
    BY DEF BuildToolIdList
  <2> QED BY <2>1, IdsType, FS_Subset
<1> HIDE DEF fresh
<1>3. order \in [1..Cardinality(fresh) -> fresh] /\ Cardinality(fresh) \in Nat
  BY <1>2, InOrderType, FS_CardinalityType
<1> HIDE DEF order
<1>4. added \in [1..Cardinality(fresh) -> News]
  BY <1>3
<1>5. added \in Seq(News)
  BY <1>3, <1>4, SeqDef
<1>6. \A e \in News : e.id \in fresh /\ e = Entry(e.id, TurnOf(e.id))
  BY DEF Entry
<1> HIDE DEF News, added
<1> DEFINE All == ToSet(s.cache) \cup News
<1>7. s.cache \in Seq(All) /\ added \in Seq(All)
  <2>1. s.cache \in Seq(ToSet(s.cache))
    BY DEF Shaped
  <2> QED BY <1>5, <2>1, SeqMonotonic
<1>8. s.cache \o added \in Seq(All)
  BY <1>7, ConcatProperties
<1>9. ToSet(s.cache \o added) \subseteq All
  <2>1. s.cache \o added \in [1..Len(s.cache \o added) -> All]
    BY <1>8, LenProperties
  <2> QED BY <2>1 DEF ToSet
<1>10. cache \in Seq(ToSet(cache)) /\ ToSet(cache) \subseteq All
  BY <1>8, <1>9, TrimKeeps
<1> HIDE DEF cache
<1>11. r = [cache |-> cache, toolIdList |-> s.toolIdList, pruned |-> s.pruned,
            currentTurn |-> s.currentTurn, lastCompaction |-> s.lastCompaction,
            protect |-> s.protect]
  BY <1>1 DEF Shaped
<1> HIDE DEF r
<1>12. Shaped(r) /\ r.toolIdList = s.toolIdList /\ r.pruned = s.pruned /\ r.cache = cache
  BY <1>10, <1>11 DEF Shaped
<1>13. ASSUME NEW e \in ToSet(r.cache) \ ToSet(s.cache)
       PROVE  e.id \in Ids \ CachedIds(s.cache) /\ e = Entry(e.id, TurnOf(e.id))
  <2>1. e \in News
    BY <1>10, <1>12
  <2> QED BY <1>2, <1>6, <2>1
<1> QED BY <1>12, <1>13 DEF r

\* A synchronisation leaves a cache of truthful entries and no other change; what it
\* adds without its input must be blind.
LEMMA SyncKeeps ==
  ASSUME CallsInv, NEW s, NEW sn, NEW bl, NEW ex, CoreInv(s, sn, bl, ex), NEW hidden, NEW more,
         \A e \in ToSet(SyncToolCache(s, hidden).cache) \ ToSet(s.cache) :
           e.param = NoInput => e.id \in more
  PROVE  CoreInv(SyncToolCache(s, hidden), sn, bl \cup more, ex)
<1> DEFINE r == SyncToolCache(s, hidden)
<1>1. /\ Shaped(r) /\ r.toolIdList = s.toolIdList /\ r.pruned = s.pruned
      /\ \A e \in ToSet(r.cache) \ ToSet(s.cache) :
           /\ e.id \in Ids \ CachedIds(s.cache)
           /\ e = Entry(e.id, CountTurns(calls[e.id].msg, s.lastCompaction, hidden))
  BY SyncAdds DEF StateInv, CoreInv
<1>2. \A e \in ToSet(r.cache) \ ToSet(s.cache) : e.param = NoInput => e.id \in more
  OBVIOUS
<1> HIDE DEF r
<1>3. ASSUME NEW e \in ToSet(r.cache) \ ToSet(s.cache)
      PROVE  /\ e.tool = calls[e.id].tool
             /\ e.param = NoInput <=> calls[e.id].status = "pending"
             /\ e.param # NoInput => e.param = calls[e.id].param
  <2>1. e = Entry(e.id, CountTurns(calls[e.id].msg, s.lastCompaction, hidden))
    BY <1>1
  <2>2. e.tool = calls[e.id].tool /\ e.param = Input(e.id)
    BY <2>1 DEF Entry
  <2>3. calls[e.id].param # NoInput
    BY <1>1, IdsType
  <2> QED BY <2>2, <2>3 DEF Input
<1>4. CacheInv(r, bl \cup more)
  <2>1. ASSUME NEW e \in ToSet(r.cache)
        PROVE  Truthful(e, bl \cup more)
    BY <1>1, <1>2, <1>3 DEF Truthful, StateInv, CoreInv, CacheInv
  <2>2. ASSUME NEW e \in ToSet(r.cache), NEW f \in ToSet(r.cache), e.id = f.id
        PROVE  e = f
    <3>1. CASE e \in ToSet(s.cache) /\ f \in ToSet(s.cache)
      BY <2>2, <3>1 DEF StateInv, CoreInv, CacheInv
    <3>2. CASE e \notin ToSet(s.cache) /\ f \notin ToSet(s.cache)
      BY <1>1, <2>2, <3>2
    <3>3. CASE (e \in ToSet(s.cache)) # (f \in ToSet(s.cache))
      <4>1. e.id \in CachedIds(s.cache) <=> f.id \notin CachedIds(s.cache)
        BY <1>1, <3>3 DEF CachedIds
      <4> QED BY <2>2, <4>1
    <3> QED BY <3>1, <3>2, <3>3
  <2> QED BY <2>1, <2>2 DEF CacheInv
<1>5. CopyInv(r, ex)
  <2>1. ASSUME NEW c, NEW d \in Ids, StandsFor(s, d, c)
        PROVE  StandsFor(r, d, c)
    BY <1>1, <1>3, <2>1 DEF StandsFor
  <2> QED BY <1>1, <2>1 DEF StateInv, CoreInv, CopyInv
<1> QED BY <1>1, <1>4, <1>5 DEF StateInv, CoreInv, ListInv, PrunedInv, KeptInv, r

----------------------------------------------------------------------------
(***************************************************************************)
(* The strategies.                                                         *)
(***************************************************************************)

LEMMA MarkChanges ==
  ASSUME NEW s, Shaped(s), NEW ids, NEW cause
  PROVE  LET r == Mark(s, ids, cause)
         IN  /\ Shaped(r)
             /\ r.cache = s.cache /\ r.toolIdList = s.toolIdList
             /\ DOMAIN r.pruned = ids \cup DOMAIN s.pruned
             /\ \A c \in DOMAIN r.pruned :
                  r.pruned[c] = IF c \in ids THEN cause ELSE s.pruned[c]
<1> DEFINE r == Mark(s, ids, cause)
           pruned == [c \in ids \cup DOMAIN s.pruned |->
                        IF c \in ids THEN cause ELSE s.pruned[c]]
<1>1. r = [s EXCEPT !.pruned = pruned]
  BY DEF Mark
<1>2. /\ DOMAIN pruned = ids \cup DOMAIN s.pruned
      /\ \A c \in DOMAIN pruned : pruned[c] = IF c \in ids THEN cause ELSE s.pruned[c]
  OBVIOUS
<1> HIDE DEF pruned
<1>3. r = [cache |-> s.cache, toolIdList |-> s.toolIdList, pruned |-> pruned,
           currentTurn |-> s.currentTurn, lastCompaction |-> s.lastCompaction,
           protect |-> s.protect]
  BY <1>1 DEF Shaped
<1> HIDE DEF r
<1>4. Shaped(r) /\ r.cache = s.cache /\ r.toolIdList = s.toolIdList /\ r.pruned = pruned
  BY <1>3 DEF Shaped
<1> QED BY <1>2, <1>4 DEF r

\* An open call was sent in full, is not pruned yet, and nothing protects it.
LEMMA OpenCalls ==
  ASSUME CallsInv, NEW s, NEW sn, NEW bl, NEW ex, StateInv(s, sn, bl, ex), NEW cause,
         NEW e \in Open(s, cause)
  PROVE  /\ e \in ToSet(s.cache) /\ Truthful(e, bl)
         /\ e.id \in Ids /\ e.id \in sn /\ e.id \notin DOMAIN s.pruned
         /\ e.id \notin bl => /\ calls[e.id].tool \notin ProtectedTools[cause]
                              /\ calls[e.id].param \notin ProtectedParams
BY DEF Open, IsProtected, StateInv, CoreInv, ListInv, PrunedInv, CacheInv, Truthful

\* Pruning open calls for a cause keeps everything but, perhaps, the copies.
LEMMA MarkKeeps ==
  ASSUME CallsInv, NEW s, NEW sn, NEW bl, NEW ex, StateInv(s, sn, bl, ex), NEW cause,
         NEW D \in SUBSET Open(s, cause)
  PROVE  LET r == Mark(s, {e.id : e \in D}, cause)
         IN  Shaped(r) /\ CacheInv(r, bl) /\ PrunedInv(r, sn) /\ ListInv(r, sn) /\ KeptInv(r, bl)
<1> DEFINE ids == {e.id : e \in D}
           r == Mark(s, ids, cause)
<1>1. /\ Shaped(r) /\ r.cache = s.cache /\ r.toolIdList = s.toolIdList
      /\ DOMAIN r.pruned = ids \cup DOMAIN s.pruned
      /\ \A c \in DOMAIN r.pruned :
           r.pruned[c] = IF c \in ids THEN cause ELSE s.pruned[c]
  BY MarkChanges DEF StateInv, CoreInv
<1>2. \A c \in ids : /\ c \in Ids /\ c \in sn /\ c \notin DOMAIN s.pruned
                     /\ c \notin bl => /\ calls[c].tool \notin ProtectedTools[cause]
                                       /\ calls[c].param \notin ProtectedParams
  BY OpenCalls
<1> HIDE DEF r, ids
<1>3. CacheInv(r, bl)
  BY <1>1 DEF StateInv, CoreInv, CacheInv
<1>4. PrunedInv(r, sn) /\ ListInv(r, sn)
  BY <1>1, <1>2 DEF StateInv, CoreInv, ListInv, PrunedInv
<1>5. KeptInv(r, bl)
  BY <1>1, <1>2 DEF StateInv, CoreInv, KeptInv
<1> QED BY <1>1, <1>3, <1>4, <1>5 DEF r, ids

LEMMA PurgeErrorsKeeps ==
  ASSUME CallsInv, NEW s, NEW sn, NEW bl, NEW ex, StateInv(s, sn, bl, ex)
  PROVE  StateInv(PurgeErrors(s), sn, bl, ex)
<1> DEFINE D == {x \in Open(s, "error") :
                   /\ x.status = "error"
                   /\ s.currentTurn - x.turn >= (IF PurgeTurns > 1 THEN PurgeTurns ELSE 1)}
           r == Mark(s, {e.id : e \in D}, "error")
<1>1. D \in SUBSET Open(s, "error") /\ PurgeErrors(s) = r
  BY DEF PurgeErrors
<1> HIDE DEF D
<1>2. Shaped(r) /\ CacheInv(r, bl) /\ PrunedInv(r, sn) /\ ListInv(r, sn) /\ KeptInv(r, bl)
  BY <1>1, MarkKeeps
<1>3. /\ r.cache = s.cache /\ DOMAIN r.pruned = {e.id : e \in D} \cup DOMAIN s.pruned
      /\ \A c \in DOMAIN r.pruned :
           r.pruned[c] = IF c \in {e.id : e \in D} THEN "error" ELSE s.pruned[c]
  BY MarkChanges DEF StateInv, CoreInv
<1> HIDE DEF r
<1>4. CopyInv(r, ex)
  <2>1. ASSUME NEW c, NEW d \in Ids, StandsFor(s, d, c)
        PROVE  StandsFor(r, d, c)
    BY <1>3, <2>1 DEF StandsFor
  <2> QED BY <1>3, <2>1 DEF StateInv, CoreInv, CopyInv
<1> QED BY <1>1, <1>2, <1>4 DEF StateInv, CoreInv

\* Whatever else the strategy takes, of the open calls that do what a known one does
\* the last one stays.
LEMMA LastStays ==
  ASSUME CallsInv, NEW s, NEW sn, NEW bl, NEW ex, StateInv(s, sn, bl, ex),
         NEW e \in Open(s, "duplicate"), e.param # NoInput
  PROVE  \E g \in Open(s, "duplicate") :
           /\ SameSignature(e, g) /\ g.id >= e.id
           /\ \A f \in Open(s, "duplicate") : f.id > g.id => ~SameSignature(g, f)
<1> DEFINE Alike == {f \in Open(s, "duplicate") : SameSignature(e, f) /\ f.id >= e.id}
           Numbers == {f.id : f \in Alike}
<1>1. e \in Alike /\ \A f \in Alike : f.id \in Ids /\ f.id \in Nat
  BY OpenCalls, IdsType DEF SameSignature
<1>2. PICK m \in Numbers : \A x \in Numbers : x <= m
  <2>1. Numbers \in SUBSET (1..Len(calls)) /\ Len(calls) \in Nat /\ Numbers # {}
    BY <1>1, IdsType
  <2> HIDE DEF Numbers
  <2> QED BY <2>1, LastOne
<1>3. PICK g \in Alike : g.id = m
  OBVIOUS
<1>4. ASSUME NEW f \in Open(s, "duplicate"), f.id > g.id, SameSignature(g, f)
      PROVE  FALSE
  <2>1. f.id \in Nat /\ g.id \in Nat /\ e.id \in Nat
    BY OpenCalls, IdsType, <1>1
  <2>2. f \in Alike
    BY <1>4, <2>1 DEF SameSignature
  <2>3. f.id <= g.id
    BY <1>2, <1>3, <2>2
  <2> QED BY <1>4, <2>1, <2>3
<1> QED BY <1>4

LEMMA DeduplicateKeeps ==
  ASSUME CallsInv, NEW s, NEW sn, NEW bl, NEW ex, StateInv(s, sn, bl, ex),
         Listed(s), bl \cap Nat \subseteq ex
  PROVE  StateInv(Deduplicate(s), sn, bl, ex)
<1> DEFINE open == Open(s, "duplicate")
           D == {x \in open : \E f \in open : f.id > x.id /\ SameSignature(x, f)}
           ids == {e.id : e \in D}
           r == Mark(s, ids, "duplicate")
<1>1. D \in SUBSET open /\ Deduplicate(s) = r
  BY DEF Deduplicate
<1>2. Shaped(r) /\ CacheInv(r, bl) /\ PrunedInv(r, sn) /\ ListInv(r, sn) /\ KeptInv(r, bl)
  <2> HIDE DEF D
  <2> QED BY <1>1, MarkKeeps
<1>3. /\ r.cache = s.cache /\ DOMAIN r.pruned = ids \cup DOMAIN s.pruned
      /\ \A c \in DOMAIN r.pruned :
           r.pruned[c] = IF c \in ids THEN "duplicate" ELSE s.pruned[c]
  BY MarkChanges DEF StateInv, CoreInv
<1> HIDE DEF r
\* A known call that is taken leaves a later one that does the same.
<1>4. ASSUME NEW e \in D, e.param # NoInput
      PROVE  \E d \in Ids : StandsFor(r, d, e.id)
  <2>1. PICK g \in open : /\ SameSignature(e, g) /\ g.id >= e.id
                          /\ \A f \in open : f.id > g.id => ~SameSignature(g, f)
    BY <1>4, LastStays
  <2>2. g \notin D
    BY <2>1
  <2>3. g # e /\ g.param = e.param /\ g.tool = e.tool
    BY <2>1, <2>2 DEF SameSignature
  <2>4. /\ Truthful(e, bl) /\ Truthful(g, bl) /\ e \in ToSet(s.cache) /\ g \in ToSet(s.cache)
        /\ g.id \in Nat /\ e.id \in Nat /\ g.id \notin DOMAIN s.pruned
    BY OpenCalls, IdsType
  <2>5. g.id # e.id
    BY <2>3, <2>4 DEF StateInv, CoreInv, CacheInv
  <2>6. g.id \notin ids
    <3>1. \A x \in D : x.id = g.id => x = g
      BY <1>1, <2>4, OpenCalls DEF StateInv, CoreInv, CacheInv
    <3> QED BY <2>2, <3>1
  <2>7. g.id > e.id
    BY <2>1, <2>4, <2>5
  <2>8. /\ g.id \in Ids /\ calls[g.id].status # "pending"
        /\ calls[g.id].tool = calls[e.id].tool /\ calls[g.id].param = calls[e.id].param
    BY <1>4, <2>3, <2>4 DEF Truthful
  <2>9. \A x \in ToSet(s.cache) : x.id = g.id => x.param # NoInput
    BY <1>4, <2>3, <2>4 DEF StateInv, CoreInv, CacheInv
  <2>10. g.id \notin DOMAIN r.pruned
    BY <1>3, <2>4, <2>6
  <2>11. calls[g.id].msg \in Transcript
    BY DEF Open, Listed
  <2>12. StandsFor(r, g.id, e.id)
    BY <1>3, <2>7, <2>8, <2>9, <2>10, <2>11 DEF StandsFor
  <2> QED BY <2>8, <2>12
<1>5. ASSUME NEW c \in DOMAIN r.pruned \ ex, r.pruned[c] = "duplicate"
      PROVE  \E d \in Ids : StandsFor(r, d, c)
  <2>1. CASE c \in ids
    <3>1. PICK e \in D : e.id = c
      BY <2>1
    <3>2. Truthful(e, bl) /\ e.id \in Nat
      BY <1>1, <3>1, OpenCalls, IdsType
    <3>3. e.param # NoInput
      BY <1>5, <3>1, <3>2 DEF Truthful
    <3> QED BY <1>4, <3>1, <3>3
  <2>2. CASE c \notin ids
    <3>1. c \in DOMAIN s.pruned \ ex /\ s.pruned[c] = "duplicate"
      BY <1>3, <1>5, <2>2
    <3>2. PICK d \in Ids : StandsFor(s, d, c)
      BY <3>1 DEF StateInv, CoreInv, CopyInv
    <3>3. CASE d \notin ids
      BY <1>3, <3>2, <3>3 DEF StandsFor
    <3>4. CASE d \in ids
      <4>1. PICK e \in D : e.id = d
        BY <3>4
      <4>2. e \in ToSet(s.cache)
        BY <1>1, OpenCalls
      <4>3. e.param # NoInput
        BY <3>2, <4>1, <4>2 DEF StandsFor
      <4>4. PICK g \in Ids : StandsFor(r, g, d)
        BY <1>4, <4>1, <4>3
      <4>5. d > c /\ g > d /\ c \in Nat /\ d \in Nat /\ g \in Nat
        BY <3>1, <3>2, <4>4, IdsType DEF StandsFor, StateInv, CoreInv, ListInv, PrunedInv
      <4>6. g > c
        BY <4>5
      <4>7. StandsFor(r, g, c)
        BY <3>2, <4>4, <4>6 DEF StandsFor
      <4> QED BY <4>7
    <3> QED BY <3>3, <3>4
  <2> QED BY <2>1, <2>2
<1>6. CopyInv(r, ex)
  BY <1>5 DEF CopyInv
<1> QED BY <1>1, <1>2, <1>6 DEF StateInv, CoreInv

LEMMA PrepareSessionKeeps ==
  ASSUME CallsInv, NEW s, NEW sn, NEW bl, NEW ex, StateInv(s, sn, bl, ex),
         Listed(s), bl \cap Nat \subseteq ex, NEW manualMode
  PROVE  StateInv(PrepareSession(s, manualMode), sn, bl, ex)
BY DeduplicateKeeps, PurgeErrorsKeeps DEF PrepareSession

\* The strategies leave the list of calls as it is.
LEMMA PrepareSessionLists ==
  ASSUME CallsInv, NEW s, NEW sn, NEW bl, NEW ex, StateInv(s, sn, bl, ex),
         Listed(s), bl \cap Nat \subseteq ex, NEW manualMode
  PROVE  PrepareSession(s, manualMode).toolIdList = s.toolIdList
<1>1. Deduplicate(s).toolIdList = s.toolIdList
  BY MarkChanges DEF Deduplicate, StateInv, CoreInv
<1>2. StateInv(Deduplicate(s), sn, bl, ex)
  BY DeduplicateKeeps
<1>3. PurgeErrors(Deduplicate(s)).toolIdList = Deduplicate(s).toolIdList
  BY <1>2, MarkChanges DEF PurgeErrors, StateInv, CoreInv
<1> QED BY <1>1, <1>3 DEF PrepareSession

----------------------------------------------------------------------------
(***************************************************************************)
(* The steps.                                                              *)
(***************************************************************************)

\* The sweep: a call is blind if it has no entry, or one that does not know its input.
LEMMA SweepKeeps ==
  ASSUME CallsInv, NEW s, NEW sn, NEW bl, NEW ex, StateInv(s, sn, bl, ex), NEW ids \in SUBSET Ids
  PROVE  LET swept == Sweepable(s, ids)
         IN  StateInv(Mark(s, swept, "sweep"), sn,
                      bl \cup (swept \ CachedIds(s.cache)), ex)
<1> DEFINE swept == Sweepable(s, ids)
           bl2 == bl \cup (swept \ CachedIds(s.cache))
           r == Mark(s, swept, "sweep")
<1>1. swept \subseteq Ids /\ swept \cap DOMAIN s.pruned = {}
  BY DEF Sweepable
<1>2. ASSUME NEW c \in swept \ bl2
      PROVE  /\ calls[c].tool \notin ProtectedTools["sweep"]
             /\ calls[c].param \notin ProtectedParams
  <2>1. PICK e \in ToSet(s.cache) : e.id = c
    BY <1>2 DEF CachedIds
  <2>2. ~IsProtected(e, "sweep")
    BY <2>1 DEF Sweepable
  <2>3. Truthful(e, bl)
    BY <2>1 DEF StateInv, CoreInv, CacheInv
  <2> QED BY <1>2, <2>1, <2>2, <2>3 DEF IsProtected, Truthful
<1>3. /\ Shaped(r) /\ r.cache = s.cache /\ r.toolIdList = s.toolIdList
      /\ DOMAIN r.pruned = swept \cup DOMAIN s.pruned
      /\ \A c \in DOMAIN r.pruned :
           r.pruned[c] = IF c \in swept THEN "sweep" ELSE s.pruned[c]
  BY MarkChanges DEF StateInv, CoreInv
<1>4. bl \subseteq bl2
  OBVIOUS
<1> HIDE DEF r, swept, bl2
<1>5. CacheInv(r, bl2)
  BY <1>3, <1>4 DEF StateInv, CoreInv, CacheInv, Truthful
<1>6. PrunedInv(r, sn) /\ ListInv(r, sn)
  BY <1>1, <1>3 DEF StateInv, CoreInv, ListInv, PrunedInv
<1>7. CopyInv(r, ex)
  <2>1. ASSUME NEW c, NEW d \in Ids, StandsFor(s, d, c)
        PROVE  StandsFor(r, d, c)
    BY <1>3, <2>1 DEF StandsFor
  <2> QED BY <1>3, <1>4, <2>1 DEF StateInv, CoreInv, CopyInv
<1>8. KeptInv(r, bl2)
  BY <1>2, <1>3, <1>4 DEF StateInv, CoreInv, KeptInv
<1> QED BY <1>3, <1>5, <1>6, <1>7, <1>8 DEF StateInv, CoreInv, r, swept, bl2

\* Replacing the list of calls, and what was seen, by a list of calls that are seen.
LEMMA RelistKeeps ==
  ASSUME NEW s, NEW sn, NEW bl, NEW ex, CoreInv(s, sn, bl, ex), NEW list \in SUBSET Ids, NEW more,
         \A c \in list : c \in sn \cup more \/ c \in DOMAIN s.pruned
  PROVE  StateInv([s EXCEPT !.toolIdList = list], sn \cup more, bl, ex)
<1> DEFINE r == [s EXCEPT !.toolIdList = list]
<1>1. r = [cache |-> s.cache, toolIdList |-> list, pruned |-> s.pruned,
           currentTurn |-> s.currentTurn, lastCompaction |-> s.lastCompaction,
           protect |-> s.protect]
  BY DEF StateInv, CoreInv, Shaped
<1> HIDE DEF r
<1>2. Shaped(r) /\ r.cache = s.cache /\ r.pruned = s.pruned /\ r.toolIdList = list
  BY <1>1 DEF Shaped, StateInv, CoreInv
<1>3. CacheInv(r, bl) /\ KeptInv(r, bl)
  BY <1>2 DEF StateInv, CoreInv, CacheInv, KeptInv
<1>4. PrunedInv(r, sn \cup more) /\ ListInv(r, sn \cup more)
  BY <1>2 DEF StateInv, CoreInv, ListInv, PrunedInv
<1>5. CopyInv(r, ex)
  <2>1. ASSUME NEW c, NEW d \in Ids, StandsFor(s, d, c)
        PROVE  StandsFor(r, d, c)
    BY <1>2, <2>1 DEF StandsFor
  <2> QED BY <1>2, <2>1 DEF StateInv, CoreInv, CopyInv
<1> QED BY <1>2, <1>3, <1>4, <1>5 DEF StateInv, CoreInv, r

\* What the turn of a request changes is no matter of the invariant.
LEMMA TurnKeeps ==
  ASSUME NEW s, NEW sn, NEW bl, NEW ex, CoreInv(s, sn, bl, ex), NEW turn
  PROVE  CoreInv([s EXCEPT !.currentTurn = turn], sn, bl, ex)
<1> DEFINE r == [s EXCEPT !.currentTurn = turn]
<1>1. r = [cache |-> s.cache, toolIdList |-> s.toolIdList, pruned |-> s.pruned,
           currentTurn |-> turn, lastCompaction |-> s.lastCompaction,
           protect |-> s.protect]
  BY DEF StateInv, CoreInv, Shaped
<1> HIDE DEF r
<1>2. Shaped(r) /\ r.cache = s.cache /\ r.pruned = s.pruned /\ r.toolIdList = s.toolIdList
  BY <1>1 DEF Shaped, StateInv, CoreInv
<1>3. CacheInv(r, bl) /\ KeptInv(r, bl) /\ PrunedInv(r, sn)
  BY <1>2 DEF StateInv, CoreInv, CacheInv, KeptInv, ListInv, PrunedInv
<1>4. CopyInv(r, ex)
  <2>1. ASSUME NEW c, NEW d \in Ids, StandsFor(s, d, c)
        PROVE  StandsFor(r, d, c)
    BY <1>2, <2>1 DEF StandsFor
  <2> QED BY <1>2, <2>1 DEF StateInv, CoreInv, CopyInv
<1> QED BY <1>2, <1>3, <1>4 DEF StateInv, CoreInv, r

\* After the reset nothing is cached or pruned; the list is the old one, but the
\* request makes a new one before anything reads it.
LEMMA ResetKeeps ==
  ASSUME NEW s, NEW sn, NEW bl, NEW ex, CoreInv(s, sn, bl, ex)
  PROVE  CoreInv(ResetOnCompaction(s), sn, bl, ex)
<1> DEFINE r == ResetOnCompaction(s)
<1> DEFINE last == FindLastCompactionTimestamp
<1>1. r = [s EXCEPT !.lastCompaction = last, !.cache = <<>>, !.pruned = <<>>]
  BY DEF ResetOnCompaction
<1> HIDE DEF r, last
<1>2. r = [cache |-> <<>>, toolIdList |-> s.toolIdList, pruned |-> <<>>,
           currentTurn |-> s.currentTurn, lastCompaction |-> last, protect |-> s.protect]
  BY <1>1 DEF CoreInv, Shaped
<1>3. ToSet(<<>>) = {} /\ <<>> \in Seq({}) /\ DOMAIN <<>> = {}
  BY DEF ToSet
<1>4. Shaped(r)
  BY <1>2, <1>3 DEF Shaped
<1> QED BY <1>2, <1>3, <1>4 DEF CoreInv, CacheInv, KeptInv, PrunedInv, CopyInv, r

\* The invariant speaks of calls; new calls, and calls that end, keep it.
LEMMA CallsGrow ==
  ASSUME NEW ex, Inv(ex), UNCHANGED <<state, seen, blind, gone>>,
         DOMAIN msgs \subseteq DOMAIN msgs',
         \A c \in Ids : /\ c \in Ids' /\ calls'[c].msg = calls[c].msg
                        /\ calls'[c].tool = calls[c].tool /\ calls'[c].param = calls[c].param
                        /\ calls[c].status # "pending" => calls'[c].status # "pending"
  PROVE  StateInv(state, seen, blind, ex)' /\ (Listed(state) => Listed(state)')
<1>1. Shaped(state)' /\ CacheInv(state, blind)'
  BY DEF Inv, StateInv, CoreInv, Shaped, CacheInv, Truthful
<1>2. PrunedInv(state, seen)' /\ ListInv(state, seen)' /\ KeptInv(state, blind)'
  BY DEF Inv, StateInv, CoreInv, PrunedInv, ListInv, KeptInv
<1>3. Transcript \subseteq Transcript'
  BY DEF Transcript
<1>4. ASSUME NEW c \in DOMAIN state.pruned \ ex, state.pruned[c] = "duplicate"
      PROVE  \E d \in Ids' : StandsFor(state, d, c)'
  <2>1. PICK d \in Ids : StandsFor(state, d, c)
    BY <1>4 DEF Inv, StateInv, CoreInv, CopyInv
  <2>2. c \in Ids
    BY <1>4 DEF Inv, StateInv, CoreInv, PrunedInv
  <2>3. StandsFor(state, d, c)'
    BY <1>3, <2>1, <2>2 DEF StandsFor
  <2> QED BY <2>3
<1>5. CopyInv(state, ex)'
  BY <1>4 DEF CopyInv
<1>6. Listed(state) => Listed(state)'
  BY <1>3 DEF Listed, Inv, StateInv, ListInv
<1> QED BY <1>1, <1>2, <1>5, <1>6 DEF StateInv, CoreInv

\* While the calls and the transcript stay what they are, the new state can be judged by
\* the old ones.
LEMMA CallsStay ==
  ASSUME calls' = calls, DOMAIN msgs \subseteq DOMAIN msgs', gone' = gone, NEW ex,
         StateInv(state', seen', blind', ex)
  PROVE  StateInv(state, seen, blind, ex)' /\ (Listed(state') => Listed(state)')
<1>1. Transcript \subseteq Transcript'
  BY DEF Transcript
<1>2. \A c, d : StandsFor(state', d, c) => StandsFor(state, d, c)'
  BY <1>1 DEF StandsFor, Ids
<1>3. CopyInv(state, ex)'
  BY <1>2 DEF StateInv, CoreInv, CopyInv, Ids
<1>4. Shaped(state)' /\ CacheInv(state, blind)'
  BY DEF StateInv, CoreInv, Shaped, CacheInv, Truthful, Ids
<1>5. PrunedInv(state, seen)' /\ ListInv(state, seen)' /\ KeptInv(state, blind)'
  BY DEF StateInv, CoreInv, PrunedInv, ListInv, KeptInv, Ids
<1>6. Listed(state') => Listed(state)'
  BY <1>1 DEF Listed
<1> QED BY <1>3, <1>4, <1>5, <1>6 DEF StateInv, CoreInv

LEMMA InitHolds == Init => IInv
<1> SUFFICES ASSUME Init PROVE IInv
  OBVIOUS
<1>1. CallsInv
  BY DEF Init, CallsInv
<1>2. PICK turns \in ProtectTurns :
        state = [cache |-> <<>>, toolIdList |-> {}, pruned |-> <<>>, currentTurn |-> 0,
                 lastCompaction |-> 0, protect |-> turns]
  BY DEF Init
<1>3. ToSet(<<>>) = {} /\ <<>> \in Seq({}) /\ DOMAIN <<>> = {}
  BY DEF ToSet
<1>4. Shaped(state) /\ state.toolIdList = {} /\ DOMAIN state.pruned = {}
      /\ ToSet(state.cache) = {}
  BY <1>2, <1>3 DEF Shaped
<1> QED BY <1>1, <1>4 DEF IInv, Inv, StateInv, CoreInv, CacheInv, PrunedInv, ListInv, CopyInv, KeptInv,
               Listed

\* The answer of the model appends its calls.
LEMMA StepKeeps ==
  ASSUME NEW ex, Inv(ex), Step
  PROVE  Inv(ex)'
<1> DEFINE Call == [msg : Nat, tool : {kind[1] : kind \in Kinds},
                    param : {kind[2] : kind \in Kinds}, status : Ended \cup {"pending"}]
<1>0. PICK k \in {n \in 0..MaxStep : Len(calls) + n <= MaxCalls} :
        \E new \in [1..k -> Kinds] :
          calls' = calls \o [i \in 1..k |-> [msg |-> Len(msgs) + 1, tool |-> new[i][1],
                                             param |-> new[i][2], status |-> "pending"]]
  BY DEF Step
<1>1. PICK new \in [1..k -> Kinds] :
        calls' = calls \o [i \in 1..k |-> [msg |-> Len(msgs) + 1, tool |-> new[i][1],
                                           param |-> new[i][2], status |-> "pending"]]
  BY <1>0
<1> DEFINE added == [i \in 1..k |-> [msg |-> Len(msgs) + 1, tool |-> new[i][1],
                                     param |-> new[i][2], status |-> "pending"]]
<1>2. calls \in Seq(Call) /\ Len(msgs) + 1 \in Nat
  BY DEF Inv, CallsInv
<1>3. k \in Nat
  BY PruningAssumption DEF PruningAssumption
<1>4. \A i \in 1..k : added[i] \in Call
  BY <1>2
<1>5. added \in Seq(Call)
  BY <1>3, <1>4, SeqDef
<1> HIDE DEF added, Call
<1>6. calls' = calls \o added
  BY <1>1 DEF added
<1>7. calls' \in Seq(Call) /\ Ids \subseteq Ids' /\ \A c \in Ids : calls'[c] = calls[c]
  <2>1. /\ calls \o added \in Seq(Call) /\ Len(calls \o added) = Len(calls) + Len(added)
        /\ \A i \in 1..(Len(calls) + Len(added)) :
             (calls \o added)[i] = IF i <= Len(calls) THEN calls[i] ELSE added[i - Len(calls)]
    BY <1>2, <1>5, ConcatProperties
  <2>2. Len(calls) \in Nat /\ Len(added) \in Nat /\ Ids = 1..Len(calls)
    BY <1>2, <1>5, LenProperties DEF Ids
  <2>3. Ids' = 1..(Len(calls) + Len(added))
    BY <1>6, <2>1, LenProperties DEF Ids
  <2> QED BY <1>6, <2>1, <2>2, <2>3
<1>8. msgs' \in Seq({"user", "step", "summary"}) /\ DOMAIN msgs \subseteq DOMAIN msgs'
  BY AppendProperties DEF Step, Inv, CallsInv
<1>9. CallsInv'
  BY <1>7, <1>8 DEF CallsInv, Call
<1>10. StateInv(state, seen, blind, ex)' /\ (Listed(state) => Listed(state)')
  BY <1>7, <1>8, CallsGrow DEF Step
<1> QED BY <1>9, <1>10 DEF Step, Inv

LEMMA CallEndsKeeps ==
  ASSUME NEW ex, Inv(ex), CallEnds
  PROVE  Inv(ex)'
<1> DEFINE Call == [msg : Nat, tool : {kind[1] : kind \in Kinds},
                    param : {kind[2] : kind \in Kinds}, status : Ended \cup {"pending"}]
<1>1. PICK c \in Ids, status \in Ended :
        calls[c].status = "pending" /\ calls' = [calls EXCEPT ![c].status = status]
  BY DEF CallEnds
<1>2. calls \in Seq(Call) /\ Ids = 1..Len(calls)
  BY IdsType DEF Inv, CallsInv
<1>3. calls[c] \in Call
  BY <1>2, ElementOfSeq
<1>4. [calls[c] EXCEPT !.status = status] \in Call
  BY <1>3
<1> DEFINE new == [calls[c] EXCEPT !.status = status]
<1>5. calls' = [calls EXCEPT ![c] = new]
  BY <1>1
<1>6. /\ new.tool = calls[c].tool /\ new.param = calls[c].param /\ new.status = status
      /\ new.msg = calls[c].msg
  BY <1>3
<1> HIDE DEF new, Call
<1>7. calls' \in Seq(Call) /\ Ids' = Ids
      /\ \A d \in Ids : calls'[d] = IF d = c THEN new ELSE calls[d]
  BY <1>2, <1>4, <1>5, ExceptSeq, LenProperties DEF new, Ids
<1>8. \A d \in Ids : /\ calls'[d].msg = calls[d].msg
                     /\ calls'[d].tool = calls[d].tool /\ calls'[d].param = calls[d].param
                     /\ calls[d].status # "pending" => calls'[d].status # "pending"
  BY <1>1, <1>6, <1>7
<1>9. CallsInv'
  BY <1>7 DEF CallEnds, Inv, CallsInv, Call
<1>10. StateInv(state, seen, blind, ex)' /\ (Listed(state) => Listed(state)')
  BY <1>7, <1>8, CallsGrow DEF CallEnds
<1> QED BY <1>9, <1>10 DEF CallEnds, Inv

LEMMA TransformKeeps ==
  ASSUME NEW ex, Inv(ex), Transform
  PROVE  Inv(ex)'
<1> DEFINE reset == FindLastCompactionTimestamp > state.lastCompaction
           s1 == IF reset THEN ResetOnCompaction(state) ELSE state
           active == IF reset THEN {} ELSE {b \in blocks : b.by \in Transcript}
           hidden == Hidden(active)
           turn == CountTurns(Len(msgs), s1.lastCompaction, hidden)
           s1b == [s1 EXCEPT !.currentTurn = turn]
           s2 == SyncToolCache(s1b, hidden)
           list == BuildToolIdList(s2.lastCompaction, hidden)
           more == {c \in list : Prune(c, s2.pruned) = "full"}
<1>1. state' = [s2 EXCEPT !.toolIdList = list] /\ seen' = seen \cup more
      /\ calls' = calls /\ msgs' = msgs /\ gone' = gone /\ blind' = blind /\ Quiet
  BY DEF Transform
<1>2. CoreInv(s1, seen, blind, ex)
  BY ResetKeeps DEF Inv, StateInv
<1> HIDE DEF s1, turn
<1>3. CoreInv(s1b, seen, blind, ex)
  BY <1>2, TurnKeeps
<1> HIDE DEF s1b, hidden
<1>4. \A e \in ToSet(s2.cache) \ ToSet(s1b.cache) : e.param = NoInput => e.id \in {}
  <2> SUFFICES ASSUME NEW e \in ToSet(s2.cache) \ ToSet(s1b.cache)
               PROVE  e.param # NoInput
    OBVIOUS
  <2>1. /\ e.id \in Ids
        /\ e = Entry(e.id, CountTurns(calls[e.id].msg, s1b.lastCompaction, hidden))
    BY <1>3, SyncAdds DEF CoreInv, Inv
  <2>2. e.param = Input(e.id)
    BY <2>1 DEF Entry
  <2> QED BY <1>1, <2>1, <2>2, IdsType DEF Quiet, Input, Ended, Inv
<1>5. CoreInv(s2, seen, blind \cup {}, ex)
  BY <1>3, <1>4, SyncKeeps DEF Inv
<1>6. blind \cup {} = blind
  OBVIOUS
<1> HIDE DEF s2
<1>6a. \A c \in list : calls[c].msg \in Transcript
  BY DEF BuildToolIdList
<1>7. list \in SUBSET Ids /\ \A c \in list : c \in seen \cup more \/ c \in DOMAIN s2.pruned
  BY DEF BuildToolIdList, Prune
<1> HIDE DEF list, more
<1>8. StateInv([s2 EXCEPT !.toolIdList = list], seen \cup more, blind, ex)
  BY <1>5, <1>6, <1>7, RelistKeeps
<1>9. StateInv(state', seen', blind', ex)
  BY <1>1, <1>8
<1>9a. Listed(state')
  <2>1. Shaped(s2)
    BY <1>5 DEF CoreInv
  <2>2. state'.toolIdList = list
    BY <1>1, <2>1 DEF Shaped
  <2> QED BY <1>6a, <2>2 DEF Listed
<1>10. StateInv(state, seen, blind, ex)' /\ Listed(state)'
  BY <1>1, <1>9, <1>9a, CallsStay
<1> QED BY <1>1, <1>10 DEF Inv, CallsInv

LEMMA SweepStepKeeps ==
  ASSUME NEW ex, Inv(ex), Sweep
  PROVE  Inv(ex)'
<1> DEFINE s0 == SyncToolCache(state, Hidden(blocks))
           list == BuildToolIdList(state.lastCompaction, Hidden(blocks))
           s == [s0 EXCEPT !.toolIdList = list]
           newly == NewlyBlind(state.cache, s.cache)
<1>1. PICK ids \in ToolIdsToSweep(s) :
        /\ state' = Mark(s, Sweepable(s, ids), "sweep")
        /\ seen' = seen \cup s.toolIdList
        /\ blind' = blind \cup newly \cup (Sweepable(s, ids) \ CachedIds(s.cache))
        /\ UNCHANGED <<msgs, gone, calls, phase, blocks>>
  BY DEF Sweep
<1>2. Shaped(s0)
  BY SyncAdds DEF Inv, StateInv, CoreInv
<1>3. s.cache = s0.cache /\ s.toolIdList = list
  <2> HIDE DEF s0, list
  <2> QED BY <1>2 DEF Shaped
<1>4. \A e \in ToSet(s0.cache) \ ToSet(state.cache) : e.param = NoInput => e.id \in newly
  BY <1>3 DEF NewlyBlind
<1>5. CoreInv(s0, seen, blind \cup newly, ex)
  <2> HIDE DEF newly, s
  <2> QED BY <1>4, SyncKeeps DEF Inv, StateInv
<1>6. list \in SUBSET Ids
  BY DEF BuildToolIdList
<1>7. StateInv(s, seen \cup list, blind \cup newly, ex)
  <2> HIDE DEF s0, list, newly
  <2> QED BY <1>5, <1>6, RelistKeeps
<1>8. ids \in SUBSET Ids
  <2> HIDE DEF s
  <2>1. s.toolIdList \subseteq Ids
    BY <1>3, <1>6
  <2>2. ids \subseteq s.toolIdList
    BY DEF ToolIdsToSweep, LastOf
  <2> QED BY <2>1, <2>2
<1>9. StateInv(state', seen', blind', ex)
  <2> HIDE DEF s, s0, list, newly
  <2> QED BY <1>1, <1>3, <1>7, <1>8, SweepKeeps DEF Inv
<1>9a. Listed(state')
  <2>1. \A c \in list : calls[c].msg \in Transcript
    BY DEF BuildToolIdList
  <2> HIDE DEF s0, s, list, newly
  <2>2. state'.toolIdList = list
    BY <1>1, <1>3, <1>7, MarkChanges DEF StateInv, CoreInv
  <2> QED BY <2>1, <2>2 DEF Listed
<1>10. StateInv(state, seen, blind, ex)' /\ Listed(state)'
  BY <1>1, <1>9, <1>9a, CallsStay
<1> QED BY <1>1, <1>10 DEF Inv, CallsInv

\* A user's message and a compaction.
LEMMA GrowKeeps ==
  ASSUME NEW ex, Inv(ex), User \/ Compaction
  PROVE  Inv(ex)'
<1>1. msgs \in Seq({"user", "step", "summary"})
  BY DEF Inv, CallsInv
<1>2. msgs' \in Seq({"user", "step", "summary"}) /\ DOMAIN msgs \subseteq DOMAIN msgs'
  BY <1>1, AppendProperties DEF User, Compaction
<1>3. CallsInv' /\ phase' = "idle"
  BY <1>2 DEF User, Compaction, Inv, CallsInv
<1>4. StateInv(state, seen, blind, ex)'
  BY <1>2, CallsStay DEF User, Compaction, Inv
<1> QED BY <1>3, <1>4 DEF Inv

\* After a revert no call is asked for a copy that is left.
LEMMA RevertKeeps ==
  ASSUME NEW ex, Inv(ex), Revert
  PROVE  Inv(Nat)'
<1>1. msgs' \in Seq({"user", "step", "summary"})
  BY AppendProperties DEF Inv, CallsInv, Revert
<1>2. CallsInv' /\ phase' = "idle" /\ UNCHANGED <<calls, state, seen, blind>>
  BY <1>1 DEF Inv, CallsInv, Revert
<1>3. Shaped(state)' /\ CacheInv(state, blind)'
  BY <1>2 DEF Inv, StateInv, CoreInv, Shaped, CacheInv, Truthful, Ids
<1>4. PrunedInv(state, seen)' /\ ListInv(state, seen)' /\ KeptInv(state, blind)'
  BY <1>2 DEF Inv, StateInv, CoreInv, PrunedInv, ListInv, KeptInv, Ids
<1>5. DOMAIN state'.pruned \ Nat = {}
  BY <1>2, IdsType DEF Inv, StateInv, CoreInv, PrunedInv
<1>6. CopyInv(state, Nat)'
  BY <1>5 DEF CopyInv
<1> QED BY <1>2, <1>3, <1>4, <1>6 DEF Inv, StateInv, CoreInv

\* The strategies take a copy only where another is left. What is pruned blind is exempt.
LEMMA CompressKeeps ==
  ASSUME NEW ex, Inv(ex), blind \cap Nat \subseteq ex, Compress
  PROVE  Inv(ex)'
<1>1. PICK manualMode \in BOOLEAN : state' = PrepareSession(state, manualMode)
  BY DEF Compress
<1>2. UNCHANGED <<calls, msgs, gone, phase, seen, blind>> /\ phase = "step"
  BY DEF Compress
<1>3. CallsInv /\ StateInv(state, seen, blind, ex) /\ Listed(state)
  BY <1>2 DEF Inv
<1>4. /\ StateInv(state', seen', blind', ex)
      /\ state'.toolIdList = state.toolIdList
  BY <1>1, <1>2, <1>3, PrepareSessionKeeps, PrepareSessionLists
<1>5. Listed(state')
  BY <1>3, <1>4 DEF Listed
<1>6. StateInv(state, seen, blind, ex)' /\ Listed(state)'
  BY <1>2, <1>4, <1>5, CallsStay
<1> QED BY <1>2, <1>3, <1>6 DEF Inv, CallsInv

\* Any step but a revert.
LEMMA StepsKeep ==
  ASSUME NEW ex, Inv(ex), blind \cap Nat \subseteq ex, [Next]_vars, ~Revert
  PROVE  Inv(ex)'
<1>1. CASE User \/ Compaction
  BY <1>1, GrowKeeps
<1>2. CASE Step
  BY <1>2, StepKeeps
<1>3. CASE CallEnds
  BY <1>3, CallEndsKeeps
<1>4. CASE Transform
  BY <1>4, TransformKeeps
<1>5. CASE Compress
  BY <1>5, CompressKeeps
<1>6. CASE Decompress
  <2>1. UNCHANGED <<calls, msgs, gone, phase, state, seen, blind>>
    BY <1>6 DEF Decompress
  <2> QED BY <2>1, CallsStay DEF Inv, CallsInv
<1>7. CASE Sweep
  BY <1>7, SweepStepKeeps
<1>8. CASE UNCHANGED vars
  <2>1. UNCHANGED <<calls, msgs, gone, phase, state, seen, blind>>
    BY <1>8 DEF vars
  <2> QED BY <2>1, CallsStay DEF Inv, CallsInv
<1> QED BY <1>1, <1>2, <1>3, <1>4, <1>5, <1>6, <1>7, <1>8 DEF Next

LEMMA NextKeeps == IInv /\ [Next]_vars => IInv'
<1> SUFFICES ASSUME IInv, [Next]_vars PROVE IInv'
  OBVIOUS
<1>1. Inv(Nat)
  BY DEF IInv
<1>2. CASE Revert
  BY <1>1, <1>2, RevertKeeps DEF IInv
<1>3. CASE ~Revert
  <2>1. blind \cap Nat \subseteq Nat
    OBVIOUS
  <2>2. Inv(Nat)'
    BY <1>1, <1>3, <2>1, StepsKeep
  <2> QED BY <2>2 DEF IInv
<1> QED BY <1>2, <1>3

\* The action property of a step: it starts where the invariant holds, with the calls
\* that are blind or have no copy left exempt.
LEMMA StepLeavesCopy ==
  ASSUME IInv, [Next]_vars, gone' = gone,
         NEW c \in DOMAIN state'.pruned \ blind', state'.pruned[c] = "duplicate",
         c \in DOMAIN state.pruned /\ state.pruned[c] = "duplicate" => HasCopy(c)
  PROVE  HasCopy(c)'
<1> DEFINE Missing == {x \in DOMAIN state.pruned : state.pruned[x] = "duplicate" /\ ~HasCopy(x)}
<1>1. PICK ex : ex = blind \cup Missing
  OBVIOUS
<1>2. Inv(ex)
  <2>1. CopyInv(state, ex)
    BY <1>1 DEF CopyInv, HasCopy
  <2> QED BY <2>1 DEF IInv, Inv, StateInv, CoreInv
<1>3. blind \subseteq blind'
  BY DEF Next, User, Revert, Compaction, Step, CallEnds, Transform, Compress, Decompress, Sweep,
         vars
<1>4. ~Revert
  BY DEF Revert, Transcript
<1>5. Inv(ex)'
  <2>1. blind \cap Nat \subseteq ex
    BY <1>1
  <2> QED BY <1>2, <1>4, <2>1, StepsKeep
<1>6. c \notin ex
  BY <1>1, <1>3
<1>7. \E d \in Ids' : StandsFor(state, d, c)'
  BY <1>5, <1>6 DEF Inv, StateInv, CoreInv, CopyInv
<1> QED BY <1>7 DEF HasCopy

----------------------------------------------------------------------------
(***************************************************************************)
(* The results.                                                            *)
(***************************************************************************)

\* The invariant the properties rest on: what the cache, the list and the decisions
\* say of the calls in every reachable state (tool-cache.ts, deduplication.ts).
THEOREM InvariantHolds == Spec => []IInv
BY InitHolds, NextKeeps, PTL DEF Spec

\* No strategy takes a result the model has not been sent, however requests, compress
\* calls and sweeps follow each other (deduplication.ts:30).
THEOREM SeenBeforePrunedHolds == Spec => []SeenBeforePruned
<1>1. IInv => SeenBeforePruned
  BY DEF IInv, Inv, StateInv, CoreInv, PrunedInv, SeenBeforePruned
<1> QED BY <1>1, InvariantHolds, PTL

\* Of calls that do the same one stays: no step but a revert takes the last copy of a
\* call that was pruned as a duplicate, for any transcript and any size of the cache
\* (deduplication.ts:69-91).
THEOREM OneCopyLeftHolds == Spec => OneCopyLeft
<1>1. IInv /\ [Next]_vars =>
        [gone' = gone =>
           \A c \in DOMAIN state'.pruned \ blind' :
             /\ state'.pruned[c] = "duplicate"
             /\ c \in DOMAIN state.pruned /\ state.pruned[c] = "duplicate" => HasCopy(c)
             => HasCopy(c)']_vars
  BY StepLeavesCopy
<1> QED BY <1>1, InvariantHolds, PTL DEF Spec, OneCopyLeft

\* Nothing protected is pruned while the plugin knew what it was, for any lists of
\* tools and of files (sweep.ts:176-192, deduplication.ts:57-66).
THEOREM ProtectedKeptHolds == Spec => []ProtectedKept
<1>1. IInv => ProtectedKept
  BY DEF IInv, Inv, StateInv, CoreInv, KeptInv, ProtectedKept
<1> QED BY <1>1, InvariantHolds, PTL
=============================================================================
