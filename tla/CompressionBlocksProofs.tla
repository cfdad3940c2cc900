---------------------- MODULE CompressionBlocksProofs ----------------------
(***************************************************************************)
(* Proofs about CompressionBlocks, for all values of its constants.        *)
(* First the message references: the numbers assign_message_refs hands out *)
(* are new, distinct and in list order, so by_raw_id and by_ref stay       *)
(* inverse to each other through every transform, compaction and reset.    *)
(* Then the blocks: IInv below is inductive, and the properties the runs   *)
(* check follow from it.                                                   *)
(***************************************************************************)
EXTENDS CompressionBlocks, FiniteSetTheorems, TLAPS

----------------------------------------------------------------------------
(***************************************************************************)
(* Numbering.                                                              *)
(***************************************************************************)

\* The messages of a queue that come before m are finitely many.
LEMMA QueueFinite ==
  ASSUME NEW Q \in SUBSET Msg
  PROVE  IsFiniteSet(Q)
<1>1. IsFiniteSet(Msg)
  BY BoundsAssumption, FS_Interval DEF Msg
<1> QED BY <1>1, FS_Subset

\* A number is never below the one numbering starts at.
LEMMA NumberFromStart ==
  ASSUME NEW Q \in SUBSET Msg, NEW start \in Nat, NEW m \in Q
  PROVE  /\ Number(Q, start, m) \in Nat
         /\ Number(Q, start, m) >= start
<1> DEFINE before == {x \in Q : x < m}
<1>1. Cardinality(before) \in Nat
  BY before \in SUBSET Msg, QueueFinite, FS_CardinalityType
<1> QED BY <1>1 DEF Number

\* Of two messages the earlier one gets the smaller number: the walk of
\* assign_message_refs never hands out a number twice.
LEMMA NumberMonotone ==
  ASSUME NEW Q \in SUBSET Msg, NEW start \in Nat, NEW m \in Q, NEW n \in Q, m < n
  PROVE  Number(Q, start, m) < Number(Q, start, n)
<1> DEFINE M == {x \in Q : x < m}
           N == {x \in Q : x < n}
<1>1. /\ IsFiniteSet(M) /\ IsFiniteSet(N)
      /\ Cardinality(M) \in Nat /\ Cardinality(N) \in Nat
  BY M \in SUBSET Msg, N \in SUBSET Msg, QueueFinite, FS_CardinalityType
<1>2. M \in SUBSET N
  <2>1. \A x \in Q : x \in Int
    BY BoundsAssumption DEF Msg
  <2>2. \A x \in Q : x < m => x < n
    BY <2>1
  <2> QED BY <2>2
<1>3. m \in N /\ m \notin M
  BY DEF Msg
<1>4. Cardinality(M) <= Cardinality(N) /\ Cardinality(M) # Cardinality(N)
  BY <1>1, <1>2, <1>3, FS_Subset
<1> QED BY <1>1, <1>4 DEF Number

LEMMA NumberInjective ==
  ASSUME NEW Q \in SUBSET Msg, NEW start \in Nat, NEW m \in Q, NEW n \in Q,
         Number(Q, start, m) = Number(Q, start, n)
  PROVE  m = n
<1>1. CASE m < n
  BY <1>1, NumberMonotone, NumberFromStart
<1>2. CASE n < m
  BY <1>2, NumberMonotone, NumberFromStart
<1> QED BY <1>1, <1>2 DEF Msg

\* The numbers given are the interval from start on: each lies below the
\* counter that is left behind, and the counter never passes MaxRef + 1.
LEMMA NumberBelowCounter ==
  ASSUME NEW Q \in SUBSET Msg, NEW start \in Nat, start <= MaxRef + 1,
         NEW given, given = {m \in Q : Number(Q, start, m) <= MaxRef}
  PROVE  /\ Cardinality(given) \in Nat
         /\ start + Cardinality(given) <= MaxRef + 1
         /\ \A m \in given : Number(Q, start, m) < start + Cardinality(given)
<1>1. /\ IsFiniteSet(given)
      /\ Cardinality(given) \in Nat
  BY given \in SUBSET Msg, QueueFinite, FS_CardinalityType
<1>2. start + Cardinality(given) <= MaxRef + 1
  <2> DEFINE number == [m \in given |-> Number(Q, start, m)]
  <2>1. number \in Injection(given, start..MaxRef)
    <3>1. number \in [given -> start..MaxRef]
      BY NumberFromStart, BoundsAssumption
    <3>2. \A m, n \in given : number[m] = number[n] => m = n
      BY NumberInjective
    <3> QED BY <3>1, <3>2 DEF Injection, IsInjective
  <2>2. /\ IsFiniteSet(start..MaxRef)
        /\ Cardinality(start..MaxRef) = IF start > MaxRef THEN 0 ELSE MaxRef - start + 1
    BY FS_Interval, BoundsAssumption
  <2>3. Cardinality(given) <= Cardinality(start..MaxRef)
    BY <2>1, <2>2, FS_Injection
  <2> QED BY <1>1, <2>2, <2>3, BoundsAssumption
<1>3. ASSUME NEW m \in given
      PROVE  Number(Q, start, m) < start + Cardinality(given)
  <2> DEFINE M == {x \in Q : x < m}
  <2>1. M \in SUBSET given
    BY NumberMonotone, NumberFromStart, BoundsAssumption
  <2>2. m \notin M
    BY DEF Msg
  <2>3. /\ Cardinality(M) \in Nat
        /\ Cardinality(M) <= Cardinality(given) /\ Cardinality(M) # Cardinality(given)
    BY <1>1, <2>1, <2>2, FS_Subset, FS_CardinalityType
  <2> QED BY <1>1, <2>3 DEF Number
<1> QED BY <1>1, <1>2, <1>3

----------------------------------------------------------------------------
(***************************************************************************)
(* One pass of assign_message_refs.                                        *)
(***************************************************************************)

\* The messages one pass numbers.
Given(kept, start) ==
  {m \in Waiting(kept) : Number(Waiting(kept), start, m) <= MaxRef}

RefsTypeOK ==
  /\ IsPartialFcn(by_raw_id, Msg, RefNums)
  /\ IsPartialFcn(by_ref, RefNums, Msg)
  /\ next_ref \in 0..(MaxRef + 1)

\* The messages "kept" and the references "keptRefs" are paired one to one,
\* below start.
Paired(kept, keptRefs, start) ==
  /\ \A m \in kept : by_raw_id[m] \in keptRefs /\ by_ref[by_raw_id[m]] = m
  /\ \A r \in keptRefs :
       r < start /\ by_ref[r] \in kept /\ by_raw_id[by_ref[r]] = r

\* What the pass leaves in the two maps.
LEMMA AssignRefsMaps ==
  ASSUME messages \subseteq Msg,
         NEW kept \in SUBSET Msg, NEW keptRefs \in SUBSET RefNums,
         NEW start \in 1..(MaxRef + 1),
         Paired(kept, keptRefs, start),
         AssignRefs(kept, keptRefs, start)
  PROVE  LET queue == Waiting(kept)
             given == Given(kept, start)
         IN  /\ DOMAIN by_raw_id' = kept \cup given
             /\ \A m \in given : by_raw_id'[m] = Number(queue, start, m)
             /\ \A m \in kept : by_raw_id'[m] = by_raw_id[m]
             /\ DOMAIN by_ref' = keptRefs \cup {Number(queue, start, m) : m \in given}
             /\ \A m \in given : by_ref'[Number(queue, start, m)] = m
             /\ \A r \in keptRefs : by_ref'[r] = by_ref[r]
             /\ next_ref' = start + Cardinality(given)
             /\ queue \in SUBSET Msg
             /\ \A m \in given : Number(queue, start, m) \in start..MaxRef
<1> DEFINE queue == Waiting(kept)
           given == Given(kept, start)
           number(m) == Number(queue, start, m)
<1>1. queue \in SUBSET Msg /\ given \in SUBSET queue /\ given \cap kept = {}
  BY DEF Waiting, Given
<1>2. \A m \in given : number(m) \in start..MaxRef
  BY <1>1, NumberFromStart, BoundsAssumption DEF Given
<1>3. /\ by_raw_id' = [m \in kept \cup given |->
                         IF m \in given THEN number(m) ELSE by_raw_id[m]]
      /\ by_ref' = [r \in keptRefs \cup {number(m) : m \in given} |->
                      IF \E m \in given : number(m) = r
                      THEN CHOOSE m \in given : number(m) = r
                      ELSE by_ref[r]]
      /\ next_ref' = start + Cardinality(given)
  BY DEF AssignRefs, Given
<1>4. \A m \in given : by_ref'[number(m)] = m
  <2> TAKE m \in given
  <2>1. \A n \in given : number(n) = number(m) => n = m
    BY <1>1, NumberInjective
  <2> HIDE DEF number
  <2>2. by_ref'[number(m)] = CHOOSE n \in given : number(n) = number(m)
    BY <1>3
  <2> QED BY <2>1, <2>2
<1>5. \A r \in keptRefs : by_ref'[r] = by_ref[r]
  <2> TAKE r \in keptRefs
  <2>1. ~ \E m \in given : number(m) = r
    BY <1>2 DEF Paired, RefNums
  <2> QED BY <1>3, <2>1
<1>6. /\ DOMAIN by_raw_id' = kept \cup given
      /\ \A m \in given : by_raw_id'[m] = number(m)
      /\ \A m \in kept : by_raw_id'[m] = by_raw_id[m]
      /\ DOMAIN by_ref' = keptRefs \cup {number(m) : m \in given}
  BY <1>1, <1>3
<1> QED BY <1>1, <1>2, <1>3, <1>4, <1>5, <1>6

\* A pass keeps the maps inverse to each other and below the counter.
LEMMA AssignRefsInverse ==
  ASSUME messages \subseteq Msg,
         NEW kept \in SUBSET Msg, NEW keptRefs \in SUBSET RefNums,
         NEW start \in 1..(MaxRef + 1),
         Paired(kept, keptRefs, start),
         AssignRefs(kept, keptRefs, start)
  PROVE  RefsTypeOK' /\ RefsInverse'
<1> DEFINE queue == Waiting(kept)
           given == Given(kept, start)
           number(m) == Number(queue, start, m)
<1>1. /\ DOMAIN by_raw_id' = kept \cup given
      /\ \A m \in given : by_raw_id'[m] = number(m)
      /\ \A m \in kept : by_raw_id'[m] = by_raw_id[m]
      /\ DOMAIN by_ref' = keptRefs \cup {number(m) : m \in given}
      /\ \A m \in given : by_ref'[number(m)] = m
      /\ \A r \in keptRefs : by_ref'[r] = by_ref[r]
      /\ next_ref' = start + Cardinality(given)
      /\ queue \in SUBSET Msg
      /\ \A m \in given : number(m) \in start..MaxRef
  BY AssignRefsMaps
<1>2. given \in SUBSET Msg
  BY <1>1 DEF Given
<1>3. /\ Cardinality(given) \in Nat
      /\ start + Cardinality(given) <= MaxRef + 1
      /\ \A m \in given : number(m) < start + Cardinality(given)
  BY <1>1, NumberBelowCounter DEF Given
<1> HIDE DEF number, given
<1>4. \A m \in given : number(m) \in RefNums
  BY <1>1, BoundsAssumption DEF RefNums
<1>5. RefsTypeOK'
  <2>1. DOMAIN by_raw_id' \subseteq Msg /\ DOMAIN by_ref' \subseteq RefNums
    BY <1>1, <1>2, <1>4
  <2>2. \A m \in DOMAIN by_raw_id' : by_raw_id'[m] \in RefNums
    BY <1>1, <1>4 DEF Paired
  <2>3. \A r \in DOMAIN by_ref' : by_ref'[r] \in Msg
    BY <1>1, <1>2 DEF Paired
  <2>4. /\ by_raw_id' = [m \in DOMAIN by_raw_id' |-> by_raw_id'[m]]
        /\ by_ref' = [r \in DOMAIN by_ref' |-> by_ref'[r]]
    BY DEF AssignRefs
  <2>5. next_ref' \in 0..(MaxRef + 1)
    BY <1>1, <1>3, BoundsAssumption
  <2> QED BY <2>1, <2>2, <2>3, <2>4, <2>5 DEF RefsTypeOK, IsPartialFcn
<1>6. \A m \in DOMAIN by_raw_id' :
        by_raw_id'[m] \in DOMAIN by_ref' /\ by_ref'[by_raw_id'[m]] = m
  BY <1>1 DEF Paired
<1>7. \A r \in DOMAIN by_ref' : by_ref'[r] \in DOMAIN by_raw_id' /\ by_raw_id'[by_ref'[r]] = r
  BY <1>1 DEF Paired
<1>8. \A r \in DOMAIN by_ref' : r < next_ref'
  <2> TAKE r \in DOMAIN by_ref'
  <2>1. CASE r \in keptRefs
    <3>1. \A q \in RefNums : q \in Int
      BY BoundsAssumption DEF RefNums
    <3>2. r \in Int /\ r < start
      BY <2>1, <3>1 DEF Paired
    <3>3. start \in Int
      BY BoundsAssumption
    <3> QED BY <3>2, <3>3, <1>1, <1>3
  <2>2. CASE \E m \in given : r = number(m)
    BY <2>2, <1>1, <1>3
  <2> QED BY <2>1, <2>2, <1>1
<1> QED BY <1>5, <1>6, <1>7, <1>8 DEF RefsInverse

\* A pass keeps references chronological, provided a waiting message is never
\* older than one that has its reference already.
LEMMA AssignRefsChronological ==
  ASSUME messages \subseteq Msg,
         NEW kept \in SUBSET Msg, NEW keptRefs \in SUBSET RefNums,
         NEW start \in 1..(MaxRef + 1),
         Paired(kept, keptRefs, start),
         \A m, n \in kept : m < n => by_raw_id[m] < by_raw_id[n],
         \A m \in Waiting(kept), n \in kept : n < m,
         AssignRefs(kept, keptRefs, start)
  PROVE  /\ RefsChronological'
         /\ \A m \in messages \ Unlisted, n \in DOMAIN by_raw_id' :
              m < n => m \in DOMAIN by_raw_id'
<1> DEFINE queue == Waiting(kept)
           given == Given(kept, start)
           number(m) == Number(queue, start, m)
<1>1. /\ DOMAIN by_raw_id' = kept \cup given
      /\ \A m \in given : by_raw_id'[m] = number(m)
      /\ \A m \in kept : by_raw_id'[m] = by_raw_id[m]
      /\ queue \in SUBSET Msg
      /\ \A m \in given : number(m) \in start..MaxRef
  BY AssignRefsMaps
<1>2. given \in SUBSET queue
  BY DEF Given
<1>3. \A m, n \in given : m < n => number(m) < number(n)
  BY <1>1, <1>2, NumberMonotone
<1>4. \A m \in kept, n \in given : by_raw_id[m] < number(n)
  <2>1. \A q \in RefNums : q \in Int
    BY BoundsAssumption DEF RefNums
  <2>2. \A m \in kept : by_raw_id[m] \in Int /\ by_raw_id[m] < start
    BY <2>1 DEF Paired
  <2>3. \A n \in given : number(n) \in Int /\ start <= number(n) /\ start \in Int
    BY <1>1, BoundsAssumption
  <2> QED BY <2>2, <2>3
<1>5. \A m \in Msg : m \in Int
  BY BoundsAssumption DEF Msg
<1>6. \A m \in given, n \in kept : ~(m < n)
  BY <1>1, <1>2, <1>5
<1>7. RefsChronological'
  <2> SUFFICES ASSUME NEW m \in DOMAIN by_raw_id', NEW n \in DOMAIN by_raw_id', m < n
               PROVE  by_raw_id'[m] < by_raw_id'[n]
    BY DEF RefsChronological
  <2>1. CASE m \in given /\ n \in given
    BY <2>1, <1>1, <1>3
  <2>2. CASE m \in kept /\ n \in given
    BY <2>2, <1>1, <1>4
  <2>3. CASE m \in kept /\ n \in kept
    BY <2>3, <1>1
  <2>4. CASE m \in given /\ n \in kept
    BY <2>4, <1>6
  <2> QED BY <2>1, <2>2, <2>3, <2>4, <1>1
<1>8. ASSUME NEW m \in messages \ Unlisted, NEW n \in DOMAIN by_raw_id', m < n
      PROVE  m \in DOMAIN by_raw_id'
  <2>1. CASE m \in kept
    BY <2>1, <1>1
  <2>2. CASE m \in queue /\ n \in kept
    BY <2>2, <1>1, <1>5, <1>8
  <2>3. CASE m \in queue /\ n \in given
    <3>1. number(m) < number(n) /\ number(n) <= MaxRef
      BY <2>3, <1>1, <1>2, <1>8, NumberMonotone DEF Given
    <3>2. number(m) \in Int /\ number(n) \in Int
      BY <2>3, <1>1, <1>2, NumberFromStart
    <3>3. m \in given
      BY <3>1, <3>2, <2>3, BoundsAssumption DEF Given
    <3> QED BY <3>3, <1>1
  <2> QED BY <2>1, <2>2, <2>3, <1>1, <1>8 DEF Waiting
<1> QED BY <1>7, <1>8

----------------------------------------------------------------------------
(***************************************************************************)
(* The invariant and its two conclusions.                                  *)
(***************************************************************************)

\* RefsChronological is not inductive by itself: a message that waits for its
\* reference must not be older than one that has it.
RefsInv ==
  /\ newest \in 0..MaxMsg
  /\ messages \subseteq 1..newest
  /\ DOMAIN by_raw_id \subseteq 1..newest
  /\ RefsTypeOK
  /\ RefsInverse
  /\ RefsChronological
  /\ \A m \in messages \ Unlisted, n \in DOMAIN by_raw_id :
       m < n => m \in DOMAIN by_raw_id

LEMMA RefsInit == Init => RefsInv
<1> SUFFICES ASSUME Init PROVE RefsInv
  OBVIOUS
<1>1. by_raw_id = EmptyFcn /\ by_ref = EmptyFcn /\ DOMAIN EmptyFcn = {}
  BY DEF Init, EmptyFcn
<1>2. RefsTypeOK
  BY <1>1, BoundsAssumption DEF Init, RefsTypeOK, IsPartialFcn, EmptyFcn
<1> QED BY <1>1, <1>2, BoundsAssumption DEF Init, RefsInv, RefsInverse, RefsChronological

LEMMA TransformRefs ==
  ASSUME RefsInv, Transform PROVE RefsInv'
<1> DEFINE kept == DOMAIN by_raw_id
           start == Promote(next_ref)
<1>1. kept \in SUBSET Msg /\ DOMAIN by_ref \in SUBSET RefNums /\ messages \subseteq Msg
  BY BoundsAssumption DEF RefsInv, RefsTypeOK, IsPartialFcn, Msg
<1>2. start \in 1..(MaxRef + 1)
  BY BoundsAssumption DEF RefsInv, RefsTypeOK, Promote
<1>3. Paired(kept, DOMAIN by_ref, start)
  <2>1. \A r \in DOMAIN by_ref : r \in Int /\ r < next_ref
    BY BoundsAssumption DEF RefsInv, RefsTypeOK, IsPartialFcn, RefNums, RefsInverse
  <2>2. \A r \in DOMAIN by_ref : r < start
    BY <2>1, BoundsAssumption DEF Promote, RefsInv, RefsTypeOK
  <2> QED BY <2>2 DEF Paired, RefsInv, RefsInverse
<1>4. \A m \in Waiting(kept), n \in kept : n < m
  <2>1. \A m \in Waiting(kept) : m \in messages \ Unlisted /\ m \notin kept
    BY DEF Waiting
  <2>2. \A m \in messages \cup kept : m \in Int
    BY BoundsAssumption DEF RefsInv
  <2>3. \A m \in messages \ Unlisted, n \in kept : m < n => m \in kept
    BY DEF RefsInv
  <2> QED BY <2>1, <2>2, <2>3
<1>5. AssignRefs(kept, DOMAIN by_ref, start) /\ UNCHANGED hostVars
  BY DEF Transform
<1>6. RefsTypeOK' /\ RefsInverse'
  BY <1>1, <1>2, <1>3, <1>5, AssignRefsInverse
<1>7. /\ RefsChronological'
      /\ \A m \in messages \ Unlisted, n \in DOMAIN by_raw_id' :
           m < n => m \in DOMAIN by_raw_id'
  BY <1>1, <1>2, <1>3, <1>4, <1>5, AssignRefsChronological DEF RefsInv, RefsChronological
<1>8. DOMAIN by_raw_id' \subseteq kept \cup messages
  <2>1. DOMAIN by_raw_id' = kept \cup Given(kept, start)
    BY <1>1, <1>2, <1>3, <1>5, AssignRefsMaps
  <2> QED BY <2>1 DEF Given, Waiting
<1> QED BY <1>5, <1>6, <1>7, <1>8 DEF RefsInv, hostVars

LEMMA CompactionRefs ==
  ASSUME RefsInv, TransformAfterCompaction PROVE RefsInv'
<1>1. messages \subseteq Msg
  BY BoundsAssumption DEF RefsInv, Msg
<1>2. 1 \in 1..(MaxRef + 1)
  BY BoundsAssumption
<1>3. Paired({}, {}, 1)
  BY DEF Paired
<1>4. AssignRefs({}, {}, 1) /\ UNCHANGED hostVars
  BY DEF TransformAfterCompaction
<1>5. {} \in SUBSET Msg /\ {} \in SUBSET RefNums
  OBVIOUS
<1>6. RefsTypeOK' /\ RefsInverse'
  BY <1>1, <1>2, <1>3, <1>4, <1>5, AssignRefsInverse
<1>7. /\ RefsChronological'
      /\ \A m \in messages \ Unlisted, n \in DOMAIN by_raw_id' :
           m < n => m \in DOMAIN by_raw_id'
  BY <1>1, <1>2, <1>3, <1>4, <1>5, AssignRefsChronological
<1>8. DOMAIN by_raw_id' \subseteq messages
  <2>1. DOMAIN by_raw_id' = {} \cup Given({}, 1)
    BY <1>1, <1>2, <1>3, <1>4, <1>5, AssignRefsMaps
  <2> QED BY <2>1 DEF Given, Waiting
<1> QED BY <1>4, <1>6, <1>7, <1>8 DEF RefsInv, hostVars

LEMMA HostRefs ==
  ASSUME RefsInv, Host PROVE RefsInv'
<1>1. UNCHANGED refVars
  BY DEF Host, HostAppend, HostElide, HostRevert
<1>2. RefsTypeOK' /\ RefsInverse' /\ RefsChronological'
  BY <1>1 DEF RefsInv, refVars, RefsTypeOK, RefsInverse, RefsChronological
<1>3. /\ newest' \in 0..MaxMsg
      /\ messages' \subseteq 1..newest'
      /\ 1..newest \subseteq 1..newest'
  <2>1. CASE HostAppend
    <3>1. newest' = newest + 1 /\ newest < MaxMsg /\ messages' = messages \cup {newest + 1}
      BY <2>1 DEF HostAppend
    <3>2. newest' \in 0..MaxMsg /\ 1..newest' = 1..newest \cup {newest + 1}
      BY <3>1, BoundsAssumption DEF RefsInv
    <3> QED BY <3>1, <3>2 DEF RefsInv
  <2>2. CASE HostElide \/ HostRevert
    <3>1. newest' = newest /\ messages' \subseteq messages
      BY <2>2 DEF HostElide, HostRevert
    <3> QED BY <3>1 DEF RefsInv
  <2> QED BY <2>1, <2>2 DEF Host
<1>4. \A m \in messages' \ Unlisted, n \in DOMAIN by_raw_id :
        m < n => m \in DOMAIN by_raw_id
  <2>1. \A m \in messages' : m \in messages \/ m = newest + 1
    BY DEF Host, HostAppend, HostElide, HostRevert
  <2>2. \A n \in DOMAIN by_raw_id : ~(newest + 1 < n)
    BY BoundsAssumption DEF RefsInv
  <2> QED BY <2>1, <2>2 DEF RefsInv
<1> QED BY <1>1, <1>2, <1>3, <1>4 DEF RefsInv, refVars

LEMMA RefsStep == RefsInv /\ [Next]_vars => RefsInv'
<1> SUFFICES ASSUME RefsInv, [Next]_vars PROVE RefsInv'
  OBVIOUS
<1>1. CASE UNCHANGED <<hostVars, refVars>>
  BY <1>1 DEF RefsInv, hostVars, refVars, RefsTypeOK, RefsInverse, RefsChronological
<1>2. CASE Reset
  <2>1. by_raw_id' = EmptyFcn /\ by_ref' = EmptyFcn /\ DOMAIN EmptyFcn = {}
    BY <1>2 DEF Reset, EmptyFcn
  <2>2. RefsTypeOK'
    BY <1>2, <2>1, BoundsAssumption DEF Reset, RefsTypeOK, IsPartialFcn, EmptyFcn
  <2>3. RefsInverse' /\ RefsChronological'
    BY <2>1 DEF RefsInverse, RefsChronological
  <2> QED BY <1>2, <2>1, <2>2, <2>3 DEF Reset, RefsInv, hostVars
<1>3. CASE CompressRange \/ CompressMessage
  BY <1>1, <1>3 DEF CompressRange, CompressMessage, StartCall, hostVars, refVars
<1>4. CASE CommitEntry \/ FailEntry
  BY <1>1, <1>4 DEF CommitEntry, FailEntry, hostVars, refVars
<1>5. CASE \E b \in DOMAIN blocks_by_id : Decompress(b) \/ Recompress(b)
  BY <1>1, <1>5 DEF Decompress, Recompress, hostVars, refVars
<1>6. CASE UNCHANGED vars
  BY <1>1, <1>6 DEF vars
<1> QED
  BY <1>2, <1>3, <1>4, <1>5, <1>6, HostRefs, TransformRefs, CompactionRefs DEF Next

LEMMA RefsInvariant == Spec => []RefsInv
<1> QED BY RefsInit, RefsStep, PTL DEF Spec

\* MessageIdState's two maps are inverse to each other and below next_ref in
\* every reachable state: message_refs.rs, session.rs.
THEOREM RefsInverseHolds == Spec => []RefsInverse
<1>1. RefsInv => RefsInverse
  BY DEF RefsInv
<1> QED BY <1>1, RefsInvariant, PTL

\* References follow the conversation, whatever the host elides, reverts or
\* compacts: a range that is in order in m#### numbers is in order in the list.
THEOREM RefsChronologicalHolds == Spec => []RefsChronological
<1>1. RefsInv => RefsChronological
  BY DEF RefsInv
<1> QED BY <1>1, RefsInvariant, PTL


----------------------------------------------------------------------------
(***************************************************************************)
(* The inductive invariant.                                                *)
(***************************************************************************)

\* The part of TypeOK that RefsInv does not give.
BlocksTypeOK ==
  /\ shown \subseteq Msg
  /\ IsPartialFcn(blocks_by_id, BlockIds, Block)
  /\ active_block_ids \subseteq BlockIds
  /\ IsPartialFcn(active_by_anchor_message_id, Msg, BlockIds)
  /\ next_block_id \in 0..(MaxBlocks + 1)
  /\ next_run_id \in 0..(MaxRuns + 1)
  /\ frontier_message_ref \in Refs \cup {NoRef}
  /\ call \in [run : 0..MaxRuns, todo : Seq(Plan)]

\* A plan that is still to be committed stays committable while the entries
\* before it are: what it requires exists, is not decompressed, and is either
\* in force or was consumed by an earlier entry of the call.
PlanReady(plan) ==
  /\ plan.required \subseteq Blocks
  /\ plan.mentioned \subseteq plan.required
  /\ \A c \in plan.required :
       /\ ~blocks_by_id[c].deactivated_by_user
       /\ blocks_by_id[c].active \/ blocks_by_id[c].parents # {}

CallReady ==
  call.todo # <<>> =>
    /\ \A i \in 1..Len(call.todo) : PlanReady(call.todo[i])
    /\ call.run \in 1..MaxRuns
    /\ call.run < next_run_id
    /\ Promote(next_block_id) + Len(call.todo) - 1 <= MaxBlocks

\* A block includes only blocks, its summary holds its own text, only a consumed
\* block has an heir, and one in force has neither been consumed nor decompressed.
StandingOK ==
  \A b \in Blocks :
    /\ blocks_by_id[b].included \subseteq Blocks
    /\ b \in blocks_by_id[b].holds
    /\ blocks_by_id[b].parents = {} => blocks_by_id[b].deactivated_by = NoBlock
    /\ blocks_by_id[b].active => /\ ~blocks_by_id[b].deactivated_by_user
                                 /\ blocks_by_id[b].parents = {}

\* What the fields of the blocks say of each other.
ContentOK ==
  /\ StandingOK
  /\ LineageConsistent
  /\ SummaryCarriesIncluded
  /\ IncludedIsClosure

IInv ==
  /\ BlocksTypeOK
  /\ CallReady
  /\ IdsDense
  /\ ActiveIndexAgrees
  /\ AnchorLookupSound
  /\ ContentOK

----------------------------------------------------------------------------
(***************************************************************************)
(* The plans of a call.                                                    *)
(***************************************************************************)

\* A nonempty selection has an earliest message.
LEMMA EarliestExists ==
  ASSUME NEW S \in SUBSET Msg, S # {}
  PROVE  Earliest(S) \in S
<1> DEFINE before(m) == {x \in S : x < m}
           rank == [m \in S |-> Number(S, 0, m)]
           N == Cardinality(S)
<1>1. /\ IsFiniteSet(S) /\ N \in Nat /\ N # 0
      /\ \A m \in S : IsFiniteSet(before(m)) /\ Cardinality(before(m)) \in Nat
  <2>1. \A m \in S : before(m) \in SUBSET Msg
    OBVIOUS
  <2> QED BY <2>1, QueueFinite, FS_CardinalityType, FS_EmptySet
<1>2. \A m \in S : Number(S, 0, m) = Cardinality(before(m))
  BY <1>1 DEF Number
<1>3. \A m \in S : Cardinality(before(m)) < N
  <2> TAKE m \in S
  <2>1. before(m) \in SUBSET S /\ m \notin before(m)
    BY DEF Msg
  <2>2. Cardinality(before(m)) <= N /\ Cardinality(before(m)) # N
    BY <1>1, <2>1, FS_Subset
  <2> QED BY <1>1, <2>2
<1>4. rank \in Injection(S, 0..(N - 1))
  <2>1. \A m \in S : Number(S, 0, m) \in 0..(N - 1)
    <3> HIDE DEF before, N
    <3> QED BY <1>1, <1>2, <1>3
  <2>2. \A m, n \in S : rank[m] = rank[n] => m = n
    BY NumberInjective
  <2>3. rank \in [S -> 0..(N - 1)]
    BY <2>1
  <2> QED BY <2>2, <2>3 DEF Injection, IsInjective
<1>5. IsFiniteSet(0..(N - 1)) /\ Cardinality(0..(N - 1)) = N
  BY <1>1, FS_Interval
<1>6. rank \in Surjection(S, 0..(N - 1))
  BY <1>4, <1>5, FS_Injection
<1>7. PICK m \in S : rank[m] = 0
  <2>1. 0 \in 0..(N - 1)
    <3> HIDE DEF N
    <3> QED BY <1>1
  <2>2. \A r \in 0..(N - 1) : \E m \in S : rank[m] = r
    BY <1>6 DEF Surjection
  <2> QED BY <2>1, <2>2
<1>8. before(m) = {}
  BY <1>1, <1>2, <1>7, FS_EmptySet
<1>9. \A x \in S : x \in Int
  BY BoundsAssumption DEF Msg
<1>10. \A x \in S : m <= x
  BY <1>8, <1>9
<1> QED BY <1>10 DEF Earliest

\* The anchor of a plan is a message of the list.
LEMMA AnchorTyped ==
  ASSUME NEW sel \in SUBSET Msg, NEW s \in Msg
  PROVE  AnchorOf(sel, s) \in Msg
<1>1. CASE DirectMessages(sel) = {}
  BY <1>1 DEF AnchorOf
<1>2. CASE DirectMessages(sel) # {}
  <2>1. DirectMessages(sel) \in SUBSET Msg
    BY DEF DirectMessages
  <2>2. Earliest(DirectMessages(sel)) \in Msg
    BY <1>2, <2>1, EarliestExists
  <2> QED BY <1>2, <2>2 DEF AnchorOf
<1> QED BY <1>1, <1>2

\* A range consumes only blocks in force.
LEMMA RequiredInForce ==
  ASSUME BlocksTypeOK, AnchorLookupSound, StandingOK, NEW sel
  PROVE  /\ RequiredBlocks(sel) \subseteq Blocks
         /\ \A c \in RequiredBlocks(sel) :
              blocks_by_id[c].active /\ ~blocks_by_id[c].deactivated_by_user
BY DEF RequiredBlocks, ConsumedAnchors, AnchorLookupSound, StandingOK

LEMMA RangePlanOK ==
  ASSUME BlocksTypeOK, AnchorLookupSound, StandingOK,
         NEW view \in SUBSET Msg, NEW plan \in RangePlans(view)
  PROVE  plan \in Plan /\ PlanReady(plan)
<1>1. PICK se \in view \X view :
        LET sel == Selection(view, se[1], se[2])
        IN  \E mentioned \in SUBSET RequiredBlocks(sel), loose \in LooseForms,
               end \in {r \in Refs : r.kind \in EndKinds /\ Resolves(r, se[2])},
               oversized \in Oversizes :
              plan = [anchor |-> AnchorOf(sel, se[1]), direct |-> DirectMessages(sel),
                      required |-> RequiredBlocks(sel), mentioned |-> mentioned,
                      loose |-> loose, end |-> end, oversized |-> oversized]
  BY DEF RangePlans
<1> DEFINE sel == Selection(view, se[1], se[2])
<1>2. PICK mentioned \in SUBSET RequiredBlocks(sel), loose \in LooseForms,
           end \in Refs, oversized \in Oversizes :
        plan = [anchor |-> AnchorOf(sel, se[1]), direct |-> DirectMessages(sel),
                required |-> RequiredBlocks(sel), mentioned |-> mentioned,
                loose |-> loose, end |-> end, oversized |-> oversized]
  BY <1>1
<1>3. sel \in SUBSET Msg /\ se[1] \in Msg
  BY DEF Selection
<1> HIDE DEF sel
<1>4. AnchorOf(sel, se[1]) \in Msg /\ DirectMessages(sel) \in SUBSET Msg
  BY <1>3, AnchorTyped DEF DirectMessages
<1>5. /\ RequiredBlocks(sel) \subseteq Blocks
      /\ \A c \in RequiredBlocks(sel) :
           blocks_by_id[c].active /\ ~blocks_by_id[c].deactivated_by_user
  BY RequiredInForce
<1>6. RequiredBlocks(sel) \in SUBSET BlockIds /\ mentioned \in SUBSET BlockIds
  BY <1>5 DEF BlocksTypeOK, IsPartialFcn, Blocks
<1>7. loose \in SUBSET Nat /\ oversized \in BOOLEAN
  BY InputAssumption
<1>8. plan \in Plan
  BY <1>2, <1>4, <1>6, <1>7 DEF Plan
<1>9. PlanReady(plan)
  BY <1>2, <1>5 DEF PlanReady
<1> QED BY <1>8, <1>9

LEMMA MessagePlanOK ==
  ASSUME RefsTypeOK, NEW view \in SUBSET Msg, NEW plan \in MessagePlans(view)
  PROVE  plan \in Plan /\ PlanReady(plan)
<1>1. PICK r \in DOMAIN by_ref, oversized \in Oversizes :
        /\ by_ref[r] \in view
        /\ plan = [anchor |-> by_ref[r], direct |-> {by_ref[r]}, required |-> {},
                   mentioned |-> {}, loose |-> {}, end |-> [kind |-> "m", n |-> r],
                   oversized |-> oversized]
  BY DEF MessagePlans
<1>2. r \in RefNums /\ oversized \in BOOLEAN /\ by_ref[r] \in Msg
  BY InputAssumption DEF RefsTypeOK, IsPartialFcn
<1>3. [kind |-> "m", n |-> r] \in Refs
  BY <1>2 DEF Refs
<1>4. plan \in Plan
  BY <1>1, <1>2, <1>3 DEF Plan
<1>5. PlanReady(plan)
  BY <1>1 DEF PlanReady
<1> QED BY <1>4, <1>5

\* Counting starts at 1.
LEMMA Promoted ==
  ASSUME NEW n \in Nat
  PROVE  Promote(n) \in Nat \ {0} /\ n <= Promote(n)
BY DEF Promote

\* Opening a call leaves a call that is ready, if its plans are.
LEMMA StartCallOK ==
  ASSUME BlocksTypeOK, NEW n \in Nat \ {0}, NEW plans \in [1..n -> Plan],
         \A i \in 1..n : PlanReady(plans[i]),
         StartCall(plans)
  PROVE  BlocksTypeOK' /\ CallReady'
<1>1. /\ call' = [run |-> Promote(next_run_id), todo |-> plans]
      /\ next_run_id' = Promote(next_run_id) + 1
      /\ Promote(next_run_id) <= MaxRuns
      /\ Promote(next_block_id) + Len(plans) - 1 <= MaxBlocks
      /\ UNCHANGED <<blocks_by_id, active_block_ids, active_by_anchor_message_id, shown,
                     next_block_id, frontier_message_ref>>
  BY DEF StartCall, blockVars
<1>2. plans \in Seq(Plan) /\ Len(plans) = n
  OBVIOUS
<1>3. next_run_id \in Nat /\ next_block_id \in Nat
  BY BoundsAssumption DEF BlocksTypeOK
<1>4. Promote(next_run_id) \in 1..MaxRuns /\ next_run_id' \in 0..(MaxRuns + 1)
  <2>1. Promote(next_run_id) \in Nat \ {0}
    BY <1>3, Promoted
  <2> QED BY <1>1, <2>1, BoundsAssumption
<1>5. BlocksTypeOK'
  BY <1>1, <1>2, <1>4 DEF BlocksTypeOK, IsPartialFcn
<1>6. \A i \in 1..n : PlanReady(plans[i])'
  BY <1>1 DEF PlanReady, Blocks
<1>7. CallReady'
  BY <1>1, <1>2, <1>4, <1>6 DEF CallReady, PlanReady, Blocks
<1> QED BY <1>5, <1>7

LEMMA CompressOK ==
  ASSUME RefsInv, IInv, CompressRange \/ CompressMessage
  PROVE  BlocksTypeOK' /\ CallReady' /\ UNCHANGED <<blockVars, next_block_id>>
                                    /\ next_run_id <= next_run_id'
<1>1. \A host \in HostPasses : View(host) \in SUBSET Msg
  BY BoundsAssumption DEF View, RefsInv, IInv, BlocksTypeOK, Msg
<1>2. PICK n \in Nat \ {0} : \E plans \in [1..n -> Plan] :
        (\A i \in 1..n : PlanReady(plans[i])) /\ StartCall(plans)
  <2>1. CASE CompressRange
    <3>1. PICK host \in HostPasses, n \in 1..MaxEntries :
            \E plans \in [1..n -> RangePlans(View(host))] : StartCall(plans)
      BY <2>1 DEF CompressRange
    <3>2. \A plan \in RangePlans(View(host)) : plan \in Plan /\ PlanReady(plan)
      BY <1>1, RangePlanOK DEF IInv, ContentOK
    <3>3. n \in Nat \ {0}
      BY BoundsAssumption
    <3> QED BY <3>1, <3>2, <3>3
  <2>2. CASE CompressMessage
    <3>1. PICK host \in HostPasses, n \in 1..MaxEntries :
            \E plans \in [1..n -> MessagePlans(View(host))] : StartCall(plans)
      BY <2>2 DEF CompressMessage
    <3>2. \A plan \in MessagePlans(View(host)) : plan \in Plan /\ PlanReady(plan)
      BY <1>1, MessagePlanOK DEF RefsInv
    <3>3. n \in Nat \ {0}
      BY BoundsAssumption
    <3> QED BY <3>1, <3>2, <3>3
  <2> QED BY <2>1, <2>2
<1>3. BlocksTypeOK' /\ CallReady'
  BY <1>2, StartCallOK DEF IInv
<1>4. next_run_id <= next_run_id'
  <2>1. next_run_id \in Nat /\ next_run_id' = Promote(next_run_id) + 1
    BY <1>2, BoundsAssumption DEF StartCall, IInv, BlocksTypeOK
  <2> QED BY <2>1 DEF Promote
<1> QED BY <1>2, <1>3, <1>4 DEF StartCall

----------------------------------------------------------------------------
(***************************************************************************)
(* Committing an entry.                                                    *)
(***************************************************************************)

\* What CommitEntry does, read off for the block it creates, the blocks it
\* consumes, and all others.
LEMMA CommitFacts ==
  ASSUME IInv, CommitEntry,
         NEW plan, plan = Head(call.todo), NEW id, id = Promote(next_block_id)
  PROVE  /\ plan \in Plan /\ PlanReady(plan) /\ Expandable(plan)
         /\ id \in BlockIds /\ id \notin Blocks /\ next_block_id' = id + 1
         /\ \A b \in Blocks : b < id
         /\ Blocks' = Blocks \cup {id}
         /\ blocks_by_id' = [b \in Blocks' |-> blocks_by_id'[b]]
         /\ blocks_by_id'[id] = BlockOf(plan, call.run, id)
         /\ \A b \in plan.required : blocks_by_id'[b] = Consumed(blocks_by_id[b], id)
         /\ \A b \in Blocks \ plan.required : blocks_by_id'[b] = blocks_by_id[b]
<1>1. /\ call.todo # <<>> /\ Expandable(plan)
      /\ blocks_by_id' = [b \in Blocks \cup {id} |->
              IF b = id THEN BlockOf(plan, call.run, id)
              ELSE IF b \in plan.required THEN Consumed(blocks_by_id[b], id)
              ELSE blocks_by_id[b]]
      /\ next_block_id' = id + 1
  BY DEF CommitEntry, Blocks
<1>2. call.todo \in Seq(Plan) /\ Len(call.todo) \in Nat \ {0}
  BY <1>1 DEF IInv, BlocksTypeOK
<1>3. plan \in Plan /\ PlanReady(plan)
  <2>1. plan = call.todo[1] /\ 1 \in 1..Len(call.todo)
    BY <1>2
  <2> QED BY <1>1, <1>2, <2>1 DEF IInv, CallReady
<1>4. id \in BlockIds /\ \A b \in Blocks : b < id
  <2>1. next_block_id \in Nat
    BY BoundsAssumption DEF IInv, BlocksTypeOK
  <2>2. id \in Nat \ {0} /\ next_block_id <= id
    BY <2>1, Promoted
  <2>3. id + Len(call.todo) - 1 <= MaxBlocks
    BY <1>1 DEF IInv, CallReady
  <2>4. id \in BlockIds
    BY <1>2, <2>2, <2>3, BoundsAssumption DEF BlockIds
  <2>5. \A b \in Blocks : b \in Int /\ b < next_block_id
    BY BoundsAssumption DEF IInv, IdsDense, BlockIds
  <2> QED BY <2>1, <2>2, <2>4, <2>5
<1>5. id \notin Blocks
  <2>1. id \in Int
    BY <1>4, BoundsAssumption DEF BlockIds
  <2> QED BY <1>4, <2>1
<1>6. plan.required \subseteq Blocks
  BY <1>3 DEF PlanReady
<1>7. Blocks' = Blocks \cup {id}
  BY <1>1 DEF Blocks
<1>8. /\ blocks_by_id' = [b \in Blocks' |-> blocks_by_id'[b]]
      /\ blocks_by_id'[id] = BlockOf(plan, call.run, id)
      /\ \A b \in plan.required : blocks_by_id'[b] = Consumed(blocks_by_id[b], id)
      /\ \A b \in Blocks \ plan.required : blocks_by_id'[b] = blocks_by_id[b]
  BY <1>1, <1>5, <1>6, <1>7
<1> QED BY <1>1, <1>3, <1>4, <1>5, <1>7, <1>8

\* The fields of a block that is consumed.
LEMMA ConsumedFields ==
  ASSUME NEW block \in Block, NEW id \in BlockIds, NEW after, after = Consumed(block, id)
  PROVE  /\ after \in Block
         /\ ~after.active /\ after.deactivated_by = id
         /\ after.parents = block.parents \cup {id}
         /\ after.deactivated_by_user = block.deactivated_by_user
         /\ after.run = block.run /\ after.anchor = block.anchor
         /\ after.direct = block.direct /\ after.effective = block.effective
         /\ after.consumed = block.consumed /\ after.included = block.included
         /\ after.holds = block.holds
BY DEF Consumed, Block

\* The block a plan becomes is a block.
LEMMA BlockOfTyped ==
  ASSUME BlocksTypeOK, NEW plan \in Plan, PlanReady(plan), Expandable(plan),
         NEW run \in Nat, NEW id \in BlockIds
  PROVE  BlockOf(plan, run, id) \in Block
<1>1. \A c \in Blocks : blocks_by_id[c] \in Block /\ c \in BlockIds
  BY DEF BlocksTypeOK, IsPartialFcn, Blocks
<1>2. plan.required \subseteq Blocks /\ Inlined(plan) \subseteq Blocks
  BY DEF PlanReady, Expandable, Inlined, Blocks
<1>3. /\ plan.anchor \in Msg /\ plan.direct \in SUBSET Msg /\ plan.required \in SUBSET BlockIds
  BY DEF Plan
<1>4. Effective(plan.direct, plan.required) \in SUBSET Msg
  <2>1. \A c \in plan.required : blocks_by_id[c].effective \in SUBSET Msg
    BY <1>1, <1>2 DEF Block
  <2> QED BY <1>3, <2>1 DEF Effective
<1>5. Included(plan.required) \in SUBSET BlockIds
  <2>1. \A c \in plan.required : blocks_by_id[c].included \in SUBSET BlockIds
    BY <1>1, <1>2 DEF Block
  <2> QED BY <1>3, <2>1 DEF Included
<1>6. {id} \cup UNION {blocks_by_id[c].holds : c \in Inlined(plan)} \in SUBSET BlockIds
  <2>1. \A c \in Inlined(plan) : blocks_by_id[c].holds \in SUBSET BlockIds
    BY <1>1, <1>2 DEF Block
  <2> QED BY <2>1
<1> QED BY <1>3, <1>4, <1>5, <1>6 DEF BlockOf, Block

\* The frontier stays a reference or absent.
LEMMA FrontierTyped ==
  ASSUME BlocksTypeOK, NEW plan \in Plan
  PROVE  FrontierAfter(plan) \in Refs \cup {NoRef}
BY DEF FrontierAfter, BlocksTypeOK, Plan

\* The entries of the anchor lookup after a commit: the new block's own, and
\* those of blocks that are not consumed.
LEMMA AnchorsAfterFacts ==
  ASSUME NEW plan, NEW id
  PROVE  LET after == AnchorsAfter(plan, id)
         IN  /\ after = [a \in DOMAIN after |-> after[a]]
             /\ \A a \in DOMAIN after :
                  \/ a = plan.anchor /\ after[a] = id
                  \/ /\ a \in DOMAIN active_by_anchor_message_id
                     /\ after[a] = active_by_anchor_message_id[a]
                     /\ ~ \E c \in plan.required :
                            c = after[a] /\ blocks_by_id[c].anchor = a
<1> DEFINE registered == [a \in DOMAIN active_by_anchor_message_id \cup {plan.anchor} |->
                            IF a = plan.anchor THEN id ELSE active_by_anchor_message_id[a]]
           stale == {blocks_by_id[c].anchor : c \in
                       {d \in plan.required : /\ blocks_by_id[d].anchor \in DOMAIN registered
                                             /\ registered[blocks_by_id[d].anchor] = d}}
           after == AnchorsAfter(plan, id)
<1>1. after = [a \in DOMAIN registered \ stale |-> registered[a]]
  BY DEF AnchorsAfter
<1>2. ASSUME NEW a \in DOMAIN after
      PROVE  \/ a = plan.anchor /\ after[a] = id
             \/ /\ a \in DOMAIN active_by_anchor_message_id
                /\ after[a] = active_by_anchor_message_id[a]
                /\ ~ \E c \in plan.required : c = after[a] /\ blocks_by_id[c].anchor = a
  <2>1. a \in DOMAIN registered /\ a \notin stale /\ after[a] = registered[a]
    BY <1>1
  <2>2. CASE a = plan.anchor
    BY <2>1, <2>2
  <2>3. CASE a # plan.anchor
    <3>1. a \in DOMAIN active_by_anchor_message_id /\ after[a] = active_by_anchor_message_id[a]
      BY <2>1, <2>3
    <3>2. ~ \E c \in plan.required : c = registered[a] /\ blocks_by_id[c].anchor = a
      BY <2>1
    <3> QED BY <2>1, <3>1, <3>2
  <2> QED BY <2>2, <2>3
<1> HIDE DEF after
<1> QED BY <1>1, <1>2 DEF after

LEMMA CommitTyped ==
  ASSUME IInv, CommitEntry PROVE BlocksTypeOK'
<1> DEFINE plan == Head(call.todo)
           id == Promote(next_block_id)
<1>1. /\ plan \in Plan /\ PlanReady(plan) /\ Expandable(plan)
      /\ id \in BlockIds /\ next_block_id' = id + 1
      /\ Blocks' = Blocks \cup {id}
      /\ blocks_by_id' = [b \in Blocks' |-> blocks_by_id'[b]]
      /\ blocks_by_id'[id] = BlockOf(plan, call.run, id)
      /\ \A b \in plan.required : blocks_by_id'[b] = Consumed(blocks_by_id[b], id)
      /\ \A b \in Blocks \ plan.required : blocks_by_id'[b] = blocks_by_id[b]
  BY CommitFacts
<1>2. /\ active_block_ids' = (active_block_ids \cup {id}) \ plan.required
      /\ active_by_anchor_message_id' = AnchorsAfter(plan, id)
      /\ frontier_message_ref' = FrontierAfter(plan)
      /\ call' = IF Len(call.todo) = 1 THEN NoCall ELSE [call EXCEPT !.todo = Tail(@)]
      /\ call.todo # <<>>
      /\ UNCHANGED <<shown, next_run_id>>
  BY DEF CommitEntry
<1> HIDE DEF plan, id
<1>3. \A c \in Blocks : blocks_by_id[c] \in Block /\ c \in BlockIds
  BY DEF IInv, BlocksTypeOK, IsPartialFcn, Blocks
<1>4. IsPartialFcn(blocks_by_id, BlockIds, Block)'
  <2>1. call.run \in Nat
    BY BoundsAssumption DEF IInv, BlocksTypeOK
  <2>2. blocks_by_id'[id] \in Block
    BY <1>1, <2>1, BlockOfTyped DEF IInv
  <2>3. \A b \in plan.required : blocks_by_id'[b] \in Block
    BY <1>1, <1>3, ConsumedFields DEF PlanReady
  <2>4. \A b \in Blocks' : blocks_by_id'[b] \in Block /\ b \in BlockIds
    BY <1>1, <1>3, <2>2, <2>3
  <2> QED BY <1>1, <2>4 DEF IsPartialFcn, Blocks
<1>5. active_block_ids' \subseteq BlockIds
  BY <1>1, <1>2 DEF IInv, BlocksTypeOK
<1>6. IsPartialFcn(active_by_anchor_message_id, Msg, BlockIds)'
  <2> DEFINE after == AnchorsAfter(plan, id)
  <2>1. /\ after = [a \in DOMAIN after |-> after[a]]
        /\ \A a \in DOMAIN after :
             \/ a = plan.anchor /\ after[a] = id
             \/ /\ a \in DOMAIN active_by_anchor_message_id
                /\ after[a] = active_by_anchor_message_id[a]
    BY AnchorsAfterFacts
  <2> HIDE DEF after
  <2>2. plan.anchor \in Msg
    BY <1>1 DEF Plan
  <2>3. \A a \in DOMAIN active_by_anchor_message_id :
          a \in Msg /\ active_by_anchor_message_id[a] \in BlockIds
    BY DEF IInv, BlocksTypeOK, IsPartialFcn
  <2>4. \A a \in DOMAIN after : a \in Msg /\ after[a] \in BlockIds
    BY <1>1, <2>1, <2>2, <2>3
  <2>5. IsPartialFcn(after, Msg, BlockIds)
    BY <2>1, <2>4 DEF IsPartialFcn
  <2>6. active_by_anchor_message_id' = after
    BY <1>2 DEF after
  <2> QED BY <2>5, <2>6 DEF IsPartialFcn
<1>7. next_block_id' \in 0..(MaxBlocks + 1)
  BY <1>1, BoundsAssumption DEF BlockIds
<1>8. frontier_message_ref' \in Refs \cup {NoRef}
  BY <1>1, <1>2, FrontierTyped DEF IInv
<1>9. call' \in [run : 0..MaxRuns, todo : Seq(Plan)]
  <2>1. NoCall \in [run : 0..MaxRuns, todo : Seq(Plan)]
    BY BoundsAssumption DEF NoCall
  <2>2. Tail(call.todo) \in Seq(Plan)
    BY <1>2 DEF IInv, BlocksTypeOK
  <2> QED BY <1>2, <2>1, <2>2 DEF IInv, BlocksTypeOK
<1>10. shown' \subseteq Msg /\ next_run_id' \in 0..(MaxRuns + 1)
  BY <1>2 DEF IInv, BlocksTypeOK
<1> QED BY <1>4, <1>5, <1>6, <1>7, <1>8, <1>9, <1>10 DEF BlocksTypeOK

\* The field of every block after a commit, by what the commit does to it.
LEMMA CommitFields ==
  ASSUME IInv, CommitEntry,
         NEW plan, plan = Head(call.todo), NEW id, id = Promote(next_block_id)
  PROVE  /\ \A b \in Blocks :
              /\ blocks_by_id'[b].run = blocks_by_id[b].run
              /\ blocks_by_id'[b].anchor = blocks_by_id[b].anchor
              /\ blocks_by_id'[b].direct = blocks_by_id[b].direct
              /\ blocks_by_id'[b].effective = blocks_by_id[b].effective
              /\ blocks_by_id'[b].consumed = blocks_by_id[b].consumed
              /\ blocks_by_id'[b].included = blocks_by_id[b].included
              /\ blocks_by_id'[b].holds = blocks_by_id[b].holds
              /\ blocks_by_id'[b].deactivated_by_user = blocks_by_id[b].deactivated_by_user
         /\ \A b \in plan.required :
              /\ ~blocks_by_id'[b].active
              /\ blocks_by_id'[b].parents = blocks_by_id[b].parents \cup {id}
              /\ blocks_by_id'[b].deactivated_by = id
         /\ \A b \in Blocks \ plan.required : blocks_by_id'[b] = blocks_by_id[b]
<1>1. /\ PlanReady(plan) /\ id \in BlockIds
      /\ \A b \in plan.required : blocks_by_id'[b] = Consumed(blocks_by_id[b], id)
      /\ \A b \in Blocks \ plan.required : blocks_by_id'[b] = blocks_by_id[b]
  BY CommitFacts
<1>2. \A b \in plan.required : b \in Blocks /\ blocks_by_id[b] \in Block
  BY <1>1 DEF IInv, BlocksTypeOK, IsPartialFcn, Blocks, PlanReady
<1> QED BY <1>1, <1>2, ConsumedFields

LEMMA CommitReady ==
  ASSUME IInv, CommitEntry PROVE CallReady' /\ IdsDense' /\ ActiveIndexAgrees'
<1> DEFINE plan == Head(call.todo)
           id == Promote(next_block_id)
<1>1. /\ plan \in Plan /\ PlanReady(plan) /\ Expandable(plan)
      /\ id \in BlockIds /\ id \notin Blocks /\ next_block_id' = id + 1
      /\ \A b \in Blocks : b < id
      /\ Blocks' = Blocks \cup {id}
      /\ blocks_by_id'[id] = BlockOf(plan, call.run, id)
      /\ \A b \in plan.required : blocks_by_id'[b] = Consumed(blocks_by_id[b], id)
      /\ \A b \in Blocks \ plan.required : blocks_by_id'[b] = blocks_by_id[b]
  BY CommitFacts
<1>2. /\ active_block_ids' = (active_block_ids \cup {id}) \ plan.required
      /\ call' = IF Len(call.todo) = 1 THEN NoCall ELSE [call EXCEPT !.todo = Tail(@)]
      /\ call.todo # <<>>
      /\ next_run_id' = next_run_id
  BY DEF CommitEntry
<1>3. /\ \A b \in Blocks :
           /\ blocks_by_id'[b].run = blocks_by_id[b].run
           /\ blocks_by_id'[b].deactivated_by_user = blocks_by_id[b].deactivated_by_user
      /\ \A b \in plan.required :
           /\ ~blocks_by_id'[b].active
           /\ blocks_by_id'[b].parents = blocks_by_id[b].parents \cup {id}
  BY CommitFields
<1>4. id + Len(call.todo) - 1 <= MaxBlocks /\ call.run \in 1..MaxRuns /\ call.run < next_run_id
  BY <1>2 DEF IInv, CallReady
<1>5. plan.required \subseteq Blocks
  BY <1>1 DEF PlanReady
<1> HIDE DEF plan, id
<1>6. ASSUME NEW p, PlanReady(p) PROVE PlanReady(p)'
  <2>1. p.required \subseteq Blocks' /\ p.mentioned \subseteq p.required
    BY <1>1, <1>6 DEF PlanReady
  <2>2. ASSUME NEW c \in p.required
        PROVE  /\ ~blocks_by_id'[c].deactivated_by_user
               /\ blocks_by_id'[c].active \/ blocks_by_id'[c].parents # {}
    <3>1. /\ c \in Blocks /\ ~blocks_by_id[c].deactivated_by_user
          /\ blocks_by_id[c].active \/ blocks_by_id[c].parents # {}
      BY <1>6 DEF PlanReady
    <3>2. CASE c \in plan.required
      BY <1>3, <3>1, <3>2
    <3>3. CASE c \notin plan.required
      BY <1>1, <3>1, <3>3
    <3> QED BY <3>2, <3>3
  <2> QED BY <2>1, <2>2 DEF PlanReady
<1>7. CallReady'
  <2>1. CASE Len(call.todo) = 1
    BY <1>2, <2>1 DEF NoCall, CallReady
  <2>2. CASE Len(call.todo) # 1
    <3>1. /\ call' = [call EXCEPT !.todo = Tail(@)]
          /\ call.todo \in Seq(Plan) /\ Len(call.todo) \in Nat \ {0}
      BY <1>2, <2>2 DEF IInv, BlocksTypeOK
    <3>2. call'.todo = Tail(call.todo) /\ call'.run = call.run
      BY <3>1 DEF IInv, BlocksTypeOK
    <3>3. /\ Len(Tail(call.todo)) = Len(call.todo) - 1
          /\ \A i \in 1..Len(Tail(call.todo)) :
               Tail(call.todo)[i] = call.todo[i + 1] /\ i + 1 \in 1..Len(call.todo)
      BY <3>1
    <3>4. \A i \in 1..Len(call'.todo) : PlanReady(call.todo[i])'
      <4> TAKE i \in 1..Len(call'.todo)
      <4>1. PICK p : p = call.todo[i + 1]
        OBVIOUS
      <4>2. PlanReady(p) /\ p = call'.todo[i]
        BY <1>2, <3>2, <3>3, <4>1 DEF IInv, CallReady
      <4>3. PlanReady(p)'
        BY <1>6, <4>2
      <4> QED BY <4>2, <4>3 DEF PlanReady
    <3>5. Promote(next_block_id') + Len(call'.todo) - 1 <= MaxBlocks
      <4>1. id \in Int /\ id >= 1
        BY <1>1, BoundsAssumption DEF BlockIds
      <4>2. Promote(next_block_id') = id + 1
        BY <1>1, <4>1 DEF Promote
      <4> QED BY <1>4, <3>1, <3>2, <3>3, <4>1, <4>2, BoundsAssumption
    <3> QED BY <1>2, <1>4, <3>2, <3>4, <3>5 DEF CallReady
  <2> QED BY <2>1, <2>2
<1>8. IdsDense'
  <2>1. Blocks' = {b \in BlockIds : b < next_block_id'}
    <3>1. \A b \in BlockIds : b \in Int /\ b >= 1
      BY BoundsAssumption DEF BlockIds
    <3>2. next_block_id \in Nat /\ (id = next_block_id \/ (next_block_id = 0 /\ id = 1))
      BY BoundsAssumption DEF id, Promote, IInv, BlocksTypeOK
    <3>3. Blocks = {b \in BlockIds : b < next_block_id}
      BY DEF IInv, IdsDense
    <3> QED BY <1>1, <3>1, <3>2, <3>3
  <2>2. blocks_by_id'[id].run = call.run
    BY <1>1 DEF BlockOf
  <2>3. \A b \in Blocks : blocks_by_id[b].run < next_run_id
    BY DEF IInv, IdsDense
  <2> QED BY <1>1, <1>2, <1>3, <1>4, <2>1, <2>2, <2>3 DEF IdsDense
<1>9. ActiveIndexAgrees'
  <2>1. blocks_by_id'[id].active
    BY <1>1 DEF BlockOf
  <2>2. active_block_ids = {b \in Blocks : blocks_by_id[b].active}
    BY DEF IInv, ActiveIndexAgrees
  <2> QED BY <1>1, <1>2, <1>3, <1>5, <2>1, <2>2 DEF ActiveIndexAgrees
<1> QED BY <1>7, <1>8, <1>9

LEMMA CommitAnchors ==
  ASSUME IInv, CommitEntry PROVE AnchorLookupSound'
<1> DEFINE plan == Head(call.todo)
           id == Promote(next_block_id)
<1>1. /\ plan \in Plan /\ PlanReady(plan) /\ Expandable(plan)
      /\ id \in BlockIds /\ id \notin Blocks /\ next_block_id' = id + 1
      /\ \A b \in Blocks : b < id
      /\ Blocks' = Blocks \cup {id}
      /\ blocks_by_id'[id] = BlockOf(plan, call.run, id)
      /\ \A b \in plan.required : blocks_by_id'[b] = Consumed(blocks_by_id[b], id)
      /\ \A b \in Blocks \ plan.required : blocks_by_id'[b] = blocks_by_id[b]
  BY CommitFacts
<1>2. active_by_anchor_message_id' = AnchorsAfter(plan, id)
  BY DEF CommitEntry
<1> HIDE DEF plan, id
<1> SUFFICES ASSUME NEW a \in DOMAIN active_by_anchor_message_id'
             PROVE  LET b == active_by_anchor_message_id'[a]
                    IN  /\ b \in Blocks' /\ blocks_by_id'[b].active
                        /\ blocks_by_id'[b].anchor = a
  BY DEF AnchorLookupSound
<1> DEFINE b == active_by_anchor_message_id'[a]
<1>3. \/ a = plan.anchor /\ b = id
      \/ /\ a \in DOMAIN active_by_anchor_message_id
         /\ b = active_by_anchor_message_id[a]
         /\ ~ \E c \in plan.required : c = b /\ blocks_by_id[c].anchor = a
  BY <1>2, AnchorsAfterFacts
<1> HIDE DEF b
<1>4. CASE a = plan.anchor /\ b = id
  BY <1>1, <1>4 DEF BlockOf, b
<1>5. CASE /\ a \in DOMAIN active_by_anchor_message_id
           /\ b = active_by_anchor_message_id[a]
           /\ ~ \E c \in plan.required : c = b /\ blocks_by_id[c].anchor = a
  <2>1. b \in Blocks /\ blocks_by_id[b].active /\ blocks_by_id[b].anchor = a
    BY <1>5 DEF IInv, AnchorLookupSound
  <2>2. b \notin plan.required
    BY <1>5, <2>1
  <2>3. blocks_by_id'[b] = blocks_by_id[b] /\ b \in Blocks'
    BY <1>1, <2>1, <2>2
  <2> QED BY <2>1, <2>3 DEF b
<1> QED BY <1>3, <1>4, <1>5

LEMMA CommitContent ==
  ASSUME IInv, CommitEntry PROVE ContentOK'
<1> DEFINE plan == Head(call.todo)
           id == Promote(next_block_id)
           new == blocks_by_id'[id]
<1>1. /\ plan \in Plan /\ PlanReady(plan)
      /\ id \in BlockIds /\ id \notin Blocks
      /\ \A b \in Blocks : b < id
      /\ Blocks' = Blocks \cup {id}
      /\ new = BlockOf(plan, call.run, id)
  BY CommitFacts
<1>2. /\ \A b \in Blocks :
           /\ blocks_by_id'[b].direct = blocks_by_id[b].direct
           /\ blocks_by_id'[b].effective = blocks_by_id[b].effective
           /\ blocks_by_id'[b].consumed = blocks_by_id[b].consumed
           /\ blocks_by_id'[b].included = blocks_by_id[b].included
           /\ blocks_by_id'[b].holds = blocks_by_id[b].holds
           /\ blocks_by_id'[b].deactivated_by_user = blocks_by_id[b].deactivated_by_user
      /\ \A b \in plan.required :
           /\ ~blocks_by_id'[b].active
           /\ blocks_by_id'[b].parents = blocks_by_id[b].parents \cup {id}
           /\ blocks_by_id'[b].deactivated_by = id
      /\ \A b \in Blocks \ plan.required : blocks_by_id'[b] = blocks_by_id[b]
  BY CommitFields
<1>3. /\ new.direct = plan.direct
      /\ new.effective = Effective(plan.direct, plan.required)
      /\ new.consumed = plan.required
      /\ new.included = Included(plan.required)
      /\ new.holds = {id} \cup UNION {blocks_by_id[c].holds : c \in Inlined(plan)}
      /\ new.parents = {} /\ new.active /\ ~new.deactivated_by_user
      /\ new.deactivated_by = NoBlock
  BY <1>1 DEF BlockOf
<1>4. plan.required \subseteq Blocks
  BY <1>1 DEF PlanReady
<1>5. \A c \in Blocks : c # id
  BY <1>1
<1>6. \A b \in Blocks : blocks_by_id[b].included \subseteq Blocks
                        /\ blocks_by_id[b].consumed \subseteq Blocks
  BY DEF IInv, ContentOK, StandingOK, LineageConsistent
<1> HIDE DEF plan, id, new
<1>7. StandingOK'
  <2> SUFFICES ASSUME NEW b \in Blocks'
               PROVE  /\ blocks_by_id'[b].included \subseteq Blocks'
                      /\ b \in blocks_by_id'[b].holds
                      /\ blocks_by_id'[b].parents = {} =>
                           blocks_by_id'[b].deactivated_by = NoBlock
                      /\ blocks_by_id'[b].active => /\ ~blocks_by_id'[b].deactivated_by_user
                                                    /\ blocks_by_id'[b].parents = {}
    BY DEF StandingOK
  <2>1. CASE b = id
    <3>1. Included(plan.required) \subseteq Blocks
      BY <1>4, <1>6 DEF Included
    <3> QED BY <2>1, <3>1, <1>1, <1>3 DEF new
  <2>2. CASE b \in Blocks
    BY <2>2, <1>1, <1>2 DEF IInv, ContentOK, StandingOK
  <2> QED BY <2>1, <2>2, <1>1
<1>8. LineageConsistent'
  <2> SUFFICES ASSUME NEW b \in Blocks'
               PROVE
      /\ \A c \in blocks_by_id'[b].consumed :
           c \in Blocks' /\ c < b /\ b \in blocks_by_id'[c].parents
      /\ \A p \in blocks_by_id'[b].parents : p \in Blocks' /\ b \in blocks_by_id'[p].consumed
      /\ blocks_by_id'[b].parents # {} =>
           /\ ~blocks_by_id'[b].active
           /\ ~blocks_by_id'[b].deactivated_by_user
           /\ blocks_by_id'[b].deactivated_by \in blocks_by_id'[b].parents
    BY DEF LineageConsistent
  <2>1. CASE b = id
    BY <2>1, <1>1, <1>2, <1>3, <1>4 DEF new
  <2>2. CASE b \in Blocks
    <3>1. \A c \in blocks_by_id'[b].consumed :
            c \in Blocks' /\ c < b /\ b \in blocks_by_id'[c].parents
      <4> TAKE c \in blocks_by_id'[b].consumed
      <4>1. c \in Blocks /\ c < b /\ b \in blocks_by_id[c].parents
        BY <2>2, <1>2 DEF IInv, ContentOK, LineageConsistent
      <4>2. blocks_by_id[c].parents \subseteq blocks_by_id'[c].parents
        BY <4>1, <1>2
      <4> QED BY <4>1, <4>2, <1>1
    <3>2. \A p \in blocks_by_id[b].parents : p \in Blocks' /\ b \in blocks_by_id'[p].consumed
      BY <2>2, <1>1, <1>2 DEF IInv, ContentOK, LineageConsistent
    <3>3. CASE b \in plan.required
      <4>1. blocks_by_id'[b].parents = blocks_by_id[b].parents \cup {id}
        BY <1>2, <3>3
      <4>2. id \in Blocks' /\ b \in blocks_by_id'[id].consumed
        BY <1>1, <1>3, <3>3 DEF new
      <4>3. ~blocks_by_id[b].deactivated_by_user
        BY <1>1, <3>3 DEF PlanReady
      <4> QED BY <2>2, <1>2, <3>1, <3>2, <3>3, <4>1, <4>2, <4>3
    <3>4. CASE b \notin plan.required
      BY <2>2, <1>2, <3>1, <3>2, <3>4 DEF IInv, ContentOK, LineageConsistent
    <3> QED BY <3>3, <3>4
  <2> QED BY <2>1, <2>2, <1>1
<1>9. SummaryCarriesIncluded'
  <2> SUFFICES ASSUME NEW b \in Blocks'
               PROVE  blocks_by_id'[b].included \subseteq blocks_by_id'[b].holds
    BY DEF SummaryCarriesIncluded
  <2>1. CASE b = id
    <3>1. plan.required \subseteq Inlined(plan)
      BY DEF Inlined
    <3>2. \A c \in plan.required :
            c \in blocks_by_id[c].holds /\ blocks_by_id[c].included \subseteq blocks_by_id[c].holds
      BY <1>4 DEF IInv, ContentOK, StandingOK, SummaryCarriesIncluded
    <3> QED BY <2>1, <1>3, <3>1, <3>2 DEF new, Included
  <2>2. CASE b \in Blocks
    BY <2>2, <1>2 DEF IInv, ContentOK, SummaryCarriesIncluded
  <2> QED BY <2>1, <2>2, <1>1
<1>10. IncludedIsClosure'
  <2> SUFFICES ASSUME NEW b \in Blocks'
               PROVE
      /\ blocks_by_id'[b].included = blocks_by_id'[b].consumed
            \cup UNION {blocks_by_id'[c].included : c \in blocks_by_id'[b].consumed}
      /\ blocks_by_id'[b].effective = blocks_by_id'[b].direct
            \cup UNION {blocks_by_id'[c].direct : c \in blocks_by_id'[b].included}
    BY DEF IncludedIsClosure
  <2>1. CASE b = id
    <3>1. \A c \in plan.required : blocks_by_id'[c].included = blocks_by_id[c].included
      BY <1>2, <1>4
    <3>2. Included(plan.required) \subseteq Blocks
      BY <1>4, <1>6 DEF Included
    <3>3. \A c \in Included(plan.required) : blocks_by_id'[c].direct = blocks_by_id[c].direct
      BY <1>2, <3>2
    <3>4. \A c \in plan.required : blocks_by_id[c].effective =
            blocks_by_id[c].direct
              \cup UNION {blocks_by_id[d].direct : d \in blocks_by_id[c].included}
      BY <1>4 DEF IInv, ContentOK, IncludedIsClosure
    <3>5. Effective(plan.direct, plan.required) =
            plan.direct \cup UNION {blocks_by_id[c].direct : c \in Included(plan.required)}
      BY <3>4 DEF Effective, Included
    <3>6. UNION {blocks_by_id'[c].direct : c \in Included(plan.required)}
            = UNION {blocks_by_id[c].direct : c \in Included(plan.required)}
      BY <3>3
    <3>7. Included(plan.required) = plan.required
            \cup UNION {blocks_by_id'[c].included : c \in plan.required}
      BY <3>1 DEF Included
    <3> QED BY <2>1, <1>3, <3>5, <3>6, <3>7 DEF new
  <2>2. CASE b \in Blocks
    <3>1. /\ \A c \in blocks_by_id[b].consumed :
               blocks_by_id'[c].included = blocks_by_id[c].included
          /\ \A c \in blocks_by_id[b].included :
               blocks_by_id'[c].direct = blocks_by_id[c].direct
      BY <2>2, <1>2, <1>6
    <3>2. /\ UNION {blocks_by_id'[c].included : c \in blocks_by_id[b].consumed}
               = UNION {blocks_by_id[c].included : c \in blocks_by_id[b].consumed}
          /\ UNION {blocks_by_id'[c].direct : c \in blocks_by_id[b].included}
               = UNION {blocks_by_id[c].direct : c \in blocks_by_id[b].included}
      BY <3>1
    <3>3. /\ blocks_by_id[b].included = blocks_by_id[b].consumed
               \cup UNION {blocks_by_id[c].included : c \in blocks_by_id[b].consumed}
          /\ blocks_by_id[b].effective = blocks_by_id[b].direct
               \cup UNION {blocks_by_id[c].direct : c \in blocks_by_id[b].included}
      BY <2>2 DEF IInv, ContentOK, IncludedIsClosure
    <3> QED BY <2>2, <1>2, <3>2, <3>3
  <2> QED BY <2>1, <2>2, <1>1
<1> QED BY <1>7, <1>8, <1>9, <1>10 DEF ContentOK

----------------------------------------------------------------------------
(***************************************************************************)
(* The other actions.                                                      *)
(***************************************************************************)

\* A step that only switches blocks which have no parent keeps their content.
LEMMA SwitchKeepsContent ==
  ASSUME ContentOK, Blocks' = Blocks,
         \A b \in Blocks :
           /\ blocks_by_id'[b].direct = blocks_by_id[b].direct
           /\ blocks_by_id'[b].effective = blocks_by_id[b].effective
           /\ blocks_by_id'[b].consumed = blocks_by_id[b].consumed
           /\ blocks_by_id'[b].included = blocks_by_id[b].included
           /\ blocks_by_id'[b].holds = blocks_by_id[b].holds
           /\ blocks_by_id'[b].parents = blocks_by_id[b].parents
           /\ blocks_by_id[b].parents # {} => blocks_by_id'[b] = blocks_by_id[b]
           /\ ~(blocks_by_id'[b].active /\ blocks_by_id'[b].deactivated_by_user)
           /\ \/ blocks_by_id'[b].deactivated_by = blocks_by_id[b].deactivated_by
              \/ blocks_by_id'[b].deactivated_by = NoBlock
  PROVE  ContentOK'
<1>1. StandingOK'
  BY DEF ContentOK, StandingOK, LineageConsistent
<1>2. LineageConsistent'
  BY DEF ContentOK, LineageConsistent
<1>3. SummaryCarriesIncluded'
  BY DEF ContentOK, SummaryCarriesIncluded
<1>4. IncludedIsClosure'
  <2> SUFFICES ASSUME NEW b \in Blocks
               PROVE
      /\ blocks_by_id'[b].included = blocks_by_id'[b].consumed
            \cup UNION {blocks_by_id'[c].included : c \in blocks_by_id'[b].consumed}
      /\ blocks_by_id'[b].effective = blocks_by_id'[b].direct
            \cup UNION {blocks_by_id'[c].direct : c \in blocks_by_id'[b].included}
    BY DEF IncludedIsClosure
  <2>1. blocks_by_id[b].consumed \subseteq Blocks /\ blocks_by_id[b].included \subseteq Blocks
    BY DEF ContentOK, LineageConsistent, StandingOK
  <2>2. /\ UNION {blocks_by_id'[c].included : c \in blocks_by_id[b].consumed}
             = UNION {blocks_by_id[c].included : c \in blocks_by_id[b].consumed}
        /\ UNION {blocks_by_id'[c].direct : c \in blocks_by_id[b].included}
             = UNION {blocks_by_id[c].direct : c \in blocks_by_id[b].included}
    BY <2>1
  <2>3. /\ blocks_by_id[b].included = blocks_by_id[b].consumed
             \cup UNION {blocks_by_id[c].included : c \in blocks_by_id[b].consumed}
        /\ blocks_by_id[b].effective = blocks_by_id[b].direct
             \cup UNION {blocks_by_id[c].direct : c \in blocks_by_id[b].included}
    BY DEF ContentOK, IncludedIsClosure
  <2> QED BY <2>2, <2>3
<1> QED BY <1>1, <1>2, <1>3, <1>4 DEF ContentOK

\* While no call is under way there is no plan to keep ready.
LEMMA IdleReady ==
  ASSUME Idle, UNCHANGED call PROVE CallReady'
BY DEF Idle, NoCall, CallReady

LEMMA DecompressOK ==
  ASSUME IInv, NEW b \in Blocks, Decompress(b) PROVE IInv'
<1>1. /\ Idle /\ blocks_by_id[b].active
      /\ blocks_by_id' = [blocks_by_id EXCEPT ![b].active = FALSE,
                                              ![b].deactivated_by_user = TRUE]
      /\ active_block_ids' = active_block_ids \ {b}
      /\ active_by_anchor_message_id' =
           [a \in {x \in DOMAIN active_by_anchor_message_id :
                     ~(x = blocks_by_id[b].anchor /\ active_by_anchor_message_id[x] = b)} |->
              active_by_anchor_message_id[a]]
      /\ UNCHANGED <<shown, next_block_id, next_run_id, frontier_message_ref, call>>
  BY DEF Decompress, allocVars
<1>2. \A c \in Blocks : blocks_by_id[c] \in Block /\ c \in BlockIds
  BY DEF IInv, BlocksTypeOK, IsPartialFcn, Blocks
<1>3. /\ Blocks' = Blocks
      /\ blocks_by_id' = [c \in Blocks |-> blocks_by_id'[c]]
      /\ \A c \in Blocks \ {b} : blocks_by_id'[c] = blocks_by_id[c]
      /\ blocks_by_id'[b] = [blocks_by_id[b] EXCEPT !.active = FALSE,
                                                    !.deactivated_by_user = TRUE]
  BY <1>1 DEF Blocks, IInv, BlocksTypeOK, IsPartialFcn
<1>4. /\ blocks_by_id'[b] \in Block
      /\ ~blocks_by_id'[b].active /\ blocks_by_id'[b].deactivated_by_user
      /\ blocks_by_id'[b].run = blocks_by_id[b].run
      /\ blocks_by_id'[b].direct = blocks_by_id[b].direct
      /\ blocks_by_id'[b].effective = blocks_by_id[b].effective
      /\ blocks_by_id'[b].consumed = blocks_by_id[b].consumed
      /\ blocks_by_id'[b].included = blocks_by_id[b].included
      /\ blocks_by_id'[b].holds = blocks_by_id[b].holds
      /\ blocks_by_id'[b].parents = blocks_by_id[b].parents
      /\ blocks_by_id'[b].deactivated_by = blocks_by_id[b].deactivated_by
  BY <1>2, <1>3 DEF Block
<1>5. BlocksTypeOK'
  <2>1. IsPartialFcn(blocks_by_id, BlockIds, Block)'
    BY <1>2, <1>3, <1>4 DEF IsPartialFcn, Blocks
  <2>2. IsPartialFcn(active_by_anchor_message_id, Msg, BlockIds)'
    BY <1>1 DEF IsPartialFcn, IInv, BlocksTypeOK
  <2> QED BY <1>1, <2>1, <2>2 DEF IInv, BlocksTypeOK
<1>6. CallReady'
  BY <1>1, IdleReady
<1>7. IdsDense'
  <2>1. \A c \in Blocks : blocks_by_id'[c].run = blocks_by_id[c].run
    BY <1>3, <1>4
  <2>2. next_block_id' = next_block_id /\ next_run_id' = next_run_id /\ Blocks' = Blocks
    BY <1>1, <1>3
  <2> QED BY <2>1, <2>2 DEF IInv, IdsDense
<1>8. ActiveIndexAgrees'
  BY <1>1, <1>3, <1>4 DEF IInv, ActiveIndexAgrees
<1>9. AnchorLookupSound'
  <2> SUFFICES ASSUME NEW a \in DOMAIN active_by_anchor_message_id'
               PROVE  LET c == active_by_anchor_message_id'[a]
                      IN  /\ c \in Blocks' /\ blocks_by_id'[c].active
                          /\ blocks_by_id'[c].anchor = a
    BY DEF AnchorLookupSound
  <2> DEFINE c == active_by_anchor_message_id'[a]
  <2>1. /\ a \in DOMAIN active_by_anchor_message_id
        /\ c = active_by_anchor_message_id[a]
        /\ ~(a = blocks_by_id[b].anchor /\ c = b)
    BY <1>1
  <2>2. c \in Blocks /\ blocks_by_id[c].active /\ blocks_by_id[c].anchor = a
    BY <2>1 DEF IInv, AnchorLookupSound
  <2> QED BY <1>3, <2>1, <2>2
<1>10. ContentOK'
  <2>1. blocks_by_id[b].parents = {}
    BY <1>1 DEF IInv, ContentOK, StandingOK
  <2>2. \A c \in Blocks : ~(blocks_by_id[c].active /\ blocks_by_id[c].deactivated_by_user)
    BY DEF IInv, ContentOK, StandingOK
  <2> QED BY <1>3, <1>4, <2>1, <2>2, SwitchKeepsContent DEF IInv
<1> QED BY <1>5, <1>6, <1>7, <1>8, <1>9, <1>10 DEF IInv

LEMMA RecompressOK ==
  ASSUME IInv, NEW b \in Blocks, Recompress(b) PROVE IInv'
<1>1. /\ Idle /\ blocks_by_id[b].deactivated_by_user
      /\ blocks_by_id' = [blocks_by_id EXCEPT ![b].active = TRUE,
                                              ![b].deactivated_by_user = FALSE]
      /\ active_block_ids' = active_block_ids \cup {b}
      /\ active_by_anchor_message_id' =
           [a \in DOMAIN active_by_anchor_message_id \cup {blocks_by_id[b].anchor} |->
              IF a = blocks_by_id[b].anchor THEN b ELSE active_by_anchor_message_id[a]]
      /\ UNCHANGED <<shown, next_block_id, next_run_id, frontier_message_ref, call>>
  BY DEF Recompress, MayReturn, allocVars
<1>2. \A c \in Blocks : blocks_by_id[c] \in Block /\ c \in BlockIds
  BY DEF IInv, BlocksTypeOK, IsPartialFcn, Blocks
<1>3. /\ Blocks' = Blocks
      /\ blocks_by_id' = [c \in Blocks |-> blocks_by_id'[c]]
      /\ \A c \in Blocks \ {b} : blocks_by_id'[c] = blocks_by_id[c]
      /\ blocks_by_id'[b] = [blocks_by_id[b] EXCEPT !.active = TRUE,
                                                    !.deactivated_by_user = FALSE]
  BY <1>1 DEF Blocks, IInv, BlocksTypeOK, IsPartialFcn
<1>4. /\ blocks_by_id'[b] \in Block
      /\ blocks_by_id'[b].active /\ ~blocks_by_id'[b].deactivated_by_user
      /\ blocks_by_id'[b].run = blocks_by_id[b].run
      /\ blocks_by_id'[b].anchor = blocks_by_id[b].anchor
      /\ blocks_by_id'[b].direct = blocks_by_id[b].direct
      /\ blocks_by_id'[b].effective = blocks_by_id[b].effective
      /\ blocks_by_id'[b].consumed = blocks_by_id[b].consumed
      /\ blocks_by_id'[b].included = blocks_by_id[b].included
      /\ blocks_by_id'[b].holds = blocks_by_id[b].holds
      /\ blocks_by_id'[b].parents = blocks_by_id[b].parents
      /\ blocks_by_id'[b].deactivated_by = blocks_by_id[b].deactivated_by
      /\ blocks_by_id[b].anchor \in Msg
  BY <1>2, <1>3 DEF Block
<1>5. BlocksTypeOK'
  <2>1. IsPartialFcn(blocks_by_id, BlockIds, Block)'
    BY <1>2, <1>3, <1>4 DEF IsPartialFcn, Blocks
  <2>2. IsPartialFcn(active_by_anchor_message_id, Msg, BlockIds)'
    BY <1>1, <1>2, <1>4 DEF IsPartialFcn, IInv, BlocksTypeOK
  <2>3. active_block_ids' \subseteq BlockIds
    BY <1>1, <1>2 DEF IInv, BlocksTypeOK
  <2> QED BY <1>1, <2>1, <2>2, <2>3 DEF IInv, BlocksTypeOK
<1>6. CallReady'
  BY <1>1, IdleReady
<1>7. IdsDense'
  <2>1. \A c \in Blocks : blocks_by_id'[c].run = blocks_by_id[c].run
    BY <1>3, <1>4
  <2>2. next_block_id' = next_block_id /\ next_run_id' = next_run_id /\ Blocks' = Blocks
    BY <1>1, <1>3
  <2> QED BY <2>1, <2>2 DEF IInv, IdsDense
<1>8. ActiveIndexAgrees'
  BY <1>1, <1>3, <1>4 DEF IInv, ActiveIndexAgrees
<1>9. AnchorLookupSound'
  <2> SUFFICES ASSUME NEW a \in DOMAIN active_by_anchor_message_id'
               PROVE  LET c == active_by_anchor_message_id'[a]
                      IN  /\ c \in Blocks' /\ blocks_by_id'[c].active
                          /\ blocks_by_id'[c].anchor = a
    BY DEF AnchorLookupSound
  <2>1. CASE a = blocks_by_id[b].anchor
    BY <2>1, <1>1, <1>3, <1>4
  <2>2. CASE a # blocks_by_id[b].anchor
    <3>1. /\ a \in DOMAIN active_by_anchor_message_id
          /\ active_by_anchor_message_id'[a] = active_by_anchor_message_id[a]
      BY <1>1, <2>2
    <3> QED BY <1>3, <2>2, <3>1 DEF IInv, AnchorLookupSound
  <2> QED BY <2>1, <2>2
<1>10. ContentOK'
  <2>1. blocks_by_id[b].parents = {}
    BY <1>1 DEF IInv, ContentOK, LineageConsistent
  <2>2. \A c \in Blocks : ~(blocks_by_id[c].active /\ blocks_by_id[c].deactivated_by_user)
    BY DEF IInv, ContentOK, StandingOK
  <2> QED BY <1>3, <1>4, <2>1, <2>2, SwitchKeepsContent DEF IInv
<1> QED BY <1>5, <1>6, <1>7, <1>8, <1>9, <1>10 DEF IInv

LEMMA CompactionOK ==
  ASSUME RefsInv, IInv, TransformAfterCompaction PROVE IInv'
<1>1. /\ Idle
      /\ blocks_by_id' = [b \in Blocks |->
           IF b \in active_block_ids
           THEN [blocks_by_id[b] EXCEPT !.active = FALSE, !.deactivated_by = NoBlock]
           ELSE blocks_by_id[b]]
      /\ active_block_ids' = {}
      /\ active_by_anchor_message_id' = EmptyFcn
      /\ shown' = messages \ Invalid
      /\ UNCHANGED <<next_block_id, next_run_id, frontier_message_ref, call>>
  BY DEF TransformAfterCompaction, allocVars, Blocks
<1>2. \A c \in Blocks : blocks_by_id[c] \in Block /\ c \in BlockIds
  BY DEF IInv, BlocksTypeOK, IsPartialFcn, Blocks
<1>3. Blocks' = Blocks /\ blocks_by_id' = [c \in Blocks |-> blocks_by_id'[c]]
  BY <1>1 DEF Blocks
<1>4. ASSUME NEW c \in Blocks
      PROVE  /\ blocks_by_id'[c] \in Block
             /\ ~blocks_by_id'[c].active
             /\ blocks_by_id'[c].run = blocks_by_id[c].run
             /\ blocks_by_id'[c].direct = blocks_by_id[c].direct
             /\ blocks_by_id'[c].effective = blocks_by_id[c].effective
             /\ blocks_by_id'[c].consumed = blocks_by_id[c].consumed
             /\ blocks_by_id'[c].included = blocks_by_id[c].included
             /\ blocks_by_id'[c].holds = blocks_by_id[c].holds
             /\ blocks_by_id'[c].parents = blocks_by_id[c].parents
             /\ blocks_by_id[c].parents # {} => blocks_by_id'[c] = blocks_by_id[c]
             /\ \/ blocks_by_id'[c].deactivated_by = blocks_by_id[c].deactivated_by
                \/ blocks_by_id'[c].deactivated_by = NoBlock
  <2>1. CASE c \in active_block_ids
    <3>1. blocks_by_id[c].parents = {}
      BY <2>1 DEF IInv, ActiveIndexAgrees, ContentOK, StandingOK
    <3>2. blocks_by_id'[c] = [blocks_by_id[c] EXCEPT !.active = FALSE, !.deactivated_by = NoBlock]
      BY <1>1, <2>1
    <3> QED BY <1>2, <3>1, <3>2 DEF Block
  <2>2. CASE c \notin active_block_ids
    <3>1. ~blocks_by_id[c].active
      BY <2>2 DEF IInv, ActiveIndexAgrees
    <3> QED BY <1>1, <1>2, <2>2, <3>1
  <2> QED BY <2>1, <2>2
<1>5. BlocksTypeOK'
  <2>1. IsPartialFcn(blocks_by_id, BlockIds, Block)'
    BY <1>2, <1>3, <1>4 DEF IsPartialFcn, Blocks
  <2>2. IsPartialFcn(active_by_anchor_message_id, Msg, BlockIds)'
    BY <1>1 DEF IsPartialFcn, EmptyFcn
  <2>3. shown' \subseteq Msg
    <3>1. messages \subseteq Msg
      BY BoundsAssumption DEF RefsInv, Msg
    <3> QED BY <1>1, <3>1
  <2> QED BY <1>1, <2>1, <2>2, <2>3 DEF IInv, BlocksTypeOK
<1>6. CallReady'
  BY <1>1, IdleReady
<1>7. IdsDense'
  BY <1>1, <1>3, <1>4 DEF IInv, IdsDense
<1>8. ActiveIndexAgrees' /\ AnchorLookupSound'
  BY <1>1, <1>3, <1>4 DEF ActiveIndexAgrees, AnchorLookupSound, EmptyFcn
<1>9. ContentOK'
  BY <1>3, <1>4, SwitchKeepsContent DEF IInv
<1> QED BY <1>5, <1>6, <1>7, <1>8, <1>9 DEF IInv

\* A session without blocks, at construction or after a reset.
Fresh ==
  /\ blocks_by_id = EmptyFcn /\ active_block_ids = {}
  /\ active_by_anchor_message_id = EmptyFcn
  /\ next_block_id = 0 /\ next_run_id = 0 /\ frontier_message_ref = NoRef
  /\ call = NoCall /\ shown \subseteq Msg

LEMMA FreshOK == Fresh => IInv
<1> SUFFICES ASSUME Fresh PROVE IInv
  OBVIOUS
<1> USE DEF Fresh
<1>1. DOMAIN EmptyFcn = {} /\ Blocks = {}
  BY DEF EmptyFcn, Blocks
<1>2. BlocksTypeOK
  <2>1. IsPartialFcn(blocks_by_id, BlockIds, Block)
    BY DEF IsPartialFcn, EmptyFcn
  <2>2. IsPartialFcn(active_by_anchor_message_id, Msg, BlockIds)
    BY DEF IsPartialFcn, EmptyFcn
  <2>3. NoCall \in [run : 0..MaxRuns, todo : Seq(Plan)]
    BY BoundsAssumption DEF NoCall
  <2> QED BY <2>1, <2>2, <2>3, BoundsAssumption DEF BlocksTypeOK
<1>3. CallReady
  BY DEF NoCall, CallReady
<1>4. IdsDense
  <2>1. \A b \in BlockIds : ~(b < 0)
    BY BoundsAssumption DEF BlockIds
  <2> QED BY <1>1, <2>1 DEF IdsDense
<1>5. ActiveIndexAgrees /\ AnchorLookupSound /\ ContentOK
  BY <1>1 DEF ActiveIndexAgrees, AnchorLookupSound, ContentOK, StandingOK,
              LineageConsistent, SummaryCarriesIncluded, IncludedIsClosure
<1> QED BY <1>2, <1>3, <1>4, <1>5 DEF IInv

LEMMA FreshAgain == Fresh' => IInv'
BY FreshOK, PTL

LEMMA ResetOK ==
  ASSUME IInv, Reset PROVE IInv'
<1>1. Fresh'
  BY DEF Fresh, Reset, Idle, IInv, BlocksTypeOK
<1> QED BY <1>1, FreshAgain

\* Steps that leave the blocks alone.
LEMMA QuietOK ==
  ASSUME RefsInv, IInv,
         \/ Host \/ Transform \/ UNCHANGED vars
         \/ CompressRange \/ CompressMessage \/ FailEntry
  PROVE  IInv'
<1>1. UNCHANGED <<blockVars, next_block_id>>
  BY CompressOK DEF Host, HostAppend, HostElide, HostRevert, Transform, vars, allocVars,
                    FailEntry
<1>2. BlocksTypeOK' /\ CallReady' /\ next_run_id <= next_run_id'
  <2>1. CASE CompressRange \/ CompressMessage
    BY <2>1, CompressOK
  <2>2. CASE \/ Host \/ Transform \/ UNCHANGED vars \/ FailEntry
    <3>1. UNCHANGED <<allocVars, blockVars>> /\ (UNCHANGED call \/ call' = NoCall)
      BY <2>2 DEF Host, HostAppend, HostElide, HostRevert, Transform, vars, FailEntry
    <3>2. shown' \subseteq Msg
      <4>1. messages \subseteq Msg
        BY BoundsAssumption DEF RefsInv, Msg
      <4> QED BY <2>2, <4>1 DEF Host, HostAppend, HostElide, HostRevert, Transform, vars,
                               FailEntry, IInv, BlocksTypeOK
    <3>3. NoCall \in [run : 0..MaxRuns, todo : Seq(Plan)]
      BY BoundsAssumption DEF NoCall
    <3>4. BlocksTypeOK'
      BY <3>1, <3>2, <3>3 DEF IInv, BlocksTypeOK, IsPartialFcn, blockVars, allocVars
    <3>5. CallReady'
      BY <3>1 DEF IInv, CallReady, PlanReady, Blocks, NoCall, blockVars, allocVars
    <3>6. next_run_id <= next_run_id'
      BY <3>1, BoundsAssumption DEF IInv, BlocksTypeOK, allocVars
    <3> QED BY <3>4, <3>5, <3>6
  <2> QED BY <2>1, <2>2
<1>3. IdsDense'
  <2>1. \A b \in Blocks : blocks_by_id[b].run \in Nat
    BY DEF IInv, BlocksTypeOK, IsPartialFcn, Blocks, Block
  <2>2. next_run_id \in Int /\ next_run_id' \in Int
    BY <1>2, BoundsAssumption DEF IInv, BlocksTypeOK
  <2> QED BY <1>1, <1>2, <2>1, <2>2 DEF IInv, IdsDense, Blocks, blockVars
<1>4. ActiveIndexAgrees' /\ AnchorLookupSound'
  BY <1>1 DEF IInv, ActiveIndexAgrees, AnchorLookupSound, Blocks, blockVars
<1>5. ContentOK'
  BY <1>1 DEF IInv, ContentOK, StandingOK, LineageConsistent, SummaryCarriesIncluded,
              IncludedIsClosure, Blocks, blockVars
<1> QED BY <1>2, <1>3, <1>4, <1>5 DEF IInv

LEMMA BlocksInit == Init => IInv
<1>1. Init => Fresh
  BY DEF Init, Fresh
<1> QED BY <1>1, FreshOK

LEMMA BlocksStep == RefsInv /\ IInv /\ [Next]_vars => IInv'
<1> SUFFICES ASSUME RefsInv, IInv, [Next]_vars PROVE IInv'
  OBVIOUS
<1>1. CASE CommitEntry
  BY <1>1, CommitTyped, CommitReady, CommitAnchors, CommitContent DEF IInv
<1>2. CASE \E b \in Blocks : Decompress(b) \/ Recompress(b)
  BY <1>2, DecompressOK, RecompressOK
<1>3. CASE TransformAfterCompaction
  BY <1>3, CompactionOK
<1>4. CASE Reset
  BY <1>4, ResetOK
<1>5. CASE \/ Host \/ Transform \/ UNCHANGED vars
           \/ CompressRange \/ CompressMessage \/ FailEntry
  BY <1>5, QuietOK
<1> QED BY <1>1, <1>2, <1>3, <1>4, <1>5 DEF Next, Blocks

LEMMA BlocksInvariant == Spec => [](RefsInv /\ IInv)
<1>1. Spec => []IInv
  BY BlocksInit, BlocksStep, RefsInvariant, PTL DEF Spec
<1> QED BY <1>1, RefsInvariant, PTL

----------------------------------------------------------------------------
(***************************************************************************)
(* What follows: the invariants.                                           *)
(***************************************************************************)

\* Type correctness, the bounds included.
THEOREM TypeCorrect == Spec => []TypeOK
<1>1. RefsInv /\ IInv => TypeOK
  <2> SUFFICES ASSUME RefsInv, IInv PROVE TypeOK
    OBVIOUS
  <2>1. messages \subseteq Msg /\ newest \in 0..MaxMsg
    BY BoundsAssumption DEF RefsInv, Msg
  <2> QED BY <2>1 DEF RefsInv, RefsTypeOK, IInv, BlocksTypeOK, TypeOK
<1> QED BY <1>1, BlocksInvariant, PTL

\* active_block_ids and the active flags never disagree, in the middle of a
\* batch either: block.rs, pruner.rs, session.rs.
THEOREM ActiveIndexAgreesHolds == Spec => []ActiveIndexAgrees
<1>1. IInv => ActiveIndexAgrees
  BY DEF IInv
<1> QED BY <1>1, BlocksInvariant, PTL

\* The anchor lookup resolve_range consumes from never leads to a block that is
\* not in force or is anchored elsewhere.
THEOREM AnchorLookupSoundHolds == Spec => []AnchorLookupSound
<1>1. IInv => AnchorLookupSound
  BY DEF IInv
<1> QED BY <1>1, BlocksInvariant, PTL

\* The allocators of handler.rs hand out every block number once, without gaps,
\* also when an entry of a batch fails.
THEOREM IdsDenseHolds == Spec => []IdsDense
<1>1. IInv => IdsDense
  BY DEF IInv
<1> QED BY <1>1, BlocksInvariant, PTL

\* consumed_block_ids and parent_block_ids describe one graph, also when the entries
\* of a call share what they consume.
THEOREM LineageConsistentHolds == Spec => []LineageConsistent
<1>1. IInv => LineageConsistent
  BY DEF IInv, ContentOK
<1> QED BY <1>1, BlocksInvariant, PTL

\* No summary of a folded block is lost, whatever the model mentioned.
THEOREM SummaryCarriesIncludedHolds == Spec => []SummaryCarriesIncluded
<1>1. IInv => SummaryCarriesIncluded
  BY DEF IInv, ContentOK
<1> QED BY <1>1, BlocksInvariant, PTL

\* compute_included and compute_effective yield transitive closures.
THEOREM IncludedIsClosureHolds == Spec => []IncludedIsClosure
<1>1. IInv => IncludedIsClosure
  BY DEF IInv, ContentOK
<1> QED BY <1>1, BlocksInvariant, PTL

\* A nonempty set of numbers up to n has a latest one, and nothing in it is later.
LEMMA LatestExists ==
  ASSUME NEW n \in Nat, NEW S \in SUBSET (0..n), S # {}
  PROVE  Latest(S) \in S /\ \A y \in S : Latest(S) >= y
<1> DEFINE Back == {n - x : x \in S}
<1>1. Back \in SUBSET Nat /\ Back # {}
  <2>1. \A x \in S : x \in Int /\ n - x \in Nat
    OBVIOUS
  <2> QED BY <2>1
<1>2. PICK m \in Back : \A x \in Back : <<x, m>> \notin OpToRel(<, Nat)
  <2> HIDE DEF Back
  <2> QED BY <1>1, NatLessThanWellFounded, WFMin
<1>3. \A x \in Back : ~(x < m)
  <2> HIDE DEF Back
  <2> QED BY <1>1, <1>2 DEF OpToRel
<1>4. PICK e \in S : m = n - e
  OBVIOUS
<1>5. \A y \in S : e >= y
  <2> TAKE y \in S
  <2>1. ~(n - y < n - e)
    BY <1>3, <1>4
  <2>2. y \in 0..n /\ e \in 0..n
    <3> HIDE DEF Back
    <3> QED OBVIOUS
  <2> QED BY <2>1, <2>2
<1> QED BY <1>5 DEF Latest

\* A session rebuilt from its own blocks filters the same messages and numbers
\* its next block alike: rebuild_from_messages (session.rs) and the allocators
\* of handler.rs agree because the numbers are dense and the flags are exact.
THEOREM RebuildAgreesHolds == Spec => []RebuildAgrees
<1>1. ASSUME IInv PROVE RebuildAgrees
  <2>1. RebuiltActive = active_block_ids
    BY <1>1 DEF IInv, ActiveIndexAgrees, RebuiltActive
  <2>2. /\ Blocks = {b \in BlockIds : b < next_block_id}
        /\ \A b \in Blocks : blocks_by_id[b].run < next_run_id
        /\ \A b \in Blocks : blocks_by_id[b] \in Block
        /\ next_block_id \in 0..(MaxBlocks + 1)
        /\ next_run_id \in 0..(MaxRuns + 1)
    BY <1>1 DEF IInv, IdsDense, BlocksTypeOK, IsPartialFcn, Blocks
  <2>3. MaxBlocks \in Nat /\ MaxRuns \in Nat
    BY BoundsAssumption
  <2>4. CASE Blocks = {}
    <3>1. next_block_id = 0 \/ next_block_id = 1
      <4>1. SUFFICES ASSUME next_block_id >= 2 PROVE FALSE
        BY <2>2, <2>3
      <4>2. 1 \in BlockIds /\ 1 < next_block_id
        BY <2>2, <2>3, <4>1 DEF BlockIds
      <4> QED BY <2>2, <2>4, <4>2
    <3>2. RebuiltNextBlock = Promote(next_block_id)
      BY <2>4, <3>1 DEF RebuiltNextBlock, Promote
    <3>3. RebuiltNextRun <= Promote(next_run_id)
      BY <2>2, <2>3, <2>4 DEF RebuiltNextRun, Promote
    <3> QED BY <2>1, <3>2, <3>3 DEF RebuildAgrees
  <2>5. CASE Blocks # {}
    <3>1. PICK c \in Blocks : c \in 1..MaxBlocks /\ c < next_block_id
      BY <2>2, <2>5 DEF BlockIds
    <3>2. next_block_id - 1 \in Blocks /\ next_block_id # 0
      <4>1. next_block_id - 1 \in BlockIds /\ next_block_id - 1 < next_block_id
        BY <2>2, <2>3, <3>1 DEF BlockIds
      <4> QED BY <2>2, <3>1, <4>1
    <3>3. Latest(Blocks) \in Blocks /\ \A y \in Blocks : Latest(Blocks) >= y
      <4>1. Blocks \in SUBSET (0..MaxBlocks)
        BY <2>2 DEF BlockIds
      <4> QED BY <2>3, <2>5, <4>1, LatestExists
    <3>4. Latest(Blocks) + 1 = next_block_id
      <4>1. Latest(Blocks) >= next_block_id - 1
        BY <3>2, <3>3
      <4>2. Latest(Blocks) \in 1..MaxBlocks /\ Latest(Blocks) < next_block_id
        BY <2>2, <3>3 DEF BlockIds
      <4> QED BY <2>2, <2>3, <4>1, <4>2
    <3>5. RebuiltNextBlock = Promote(next_block_id)
      BY <2>5, <3>2, <3>4 DEF RebuiltNextBlock, Promote
    <3> DEFINE runs == {blocks_by_id[b].run : b \in Blocks}
    <3>6. \A b \in Blocks : blocks_by_id[b].run \in 0..MaxRuns
      <4> TAKE b \in Blocks
      <4>1. blocks_by_id[b].run \in Nat
        BY <2>2 DEF Block
      <4> QED BY <2>2, <2>3, <4>1
    <3>7. runs \in SUBSET (0..MaxRuns) /\ runs # {}
      BY <2>5, <3>6
    <3>8. Latest(runs) \in runs
      <4> HIDE DEF runs
      <4> QED BY <2>3, <3>7, LatestExists
    <3>9. PICK b \in Blocks : Latest(runs) = blocks_by_id[b].run
      BY <3>8
    <3>10. Latest(runs) + 1 <= next_run_id /\ next_run_id # 0
      BY <2>2, <2>3, <3>6, <3>9
    <3>11. RebuiltNextRun <= Promote(next_run_id)
      BY <2>5, <3>10 DEF RebuiltNextRun, Promote
    <3> QED BY <2>1, <3>5, <3>11 DEF RebuildAgrees
  <2> QED BY <2>4, <2>5
<1> QED BY <1>1, BlocksInvariant, PTL

----------------------------------------------------------------------------
(***************************************************************************)
(* What follows: the action properties.                                    *)
(***************************************************************************)

\* A step never takes a parent away from a block it keeps.
LEMMA ParentsGrow ==
  ASSUME RefsInv, IInv, [Next]_vars, NEW b \in Blocks \cap Blocks'
  PROVE  blocks_by_id[b].parents \subseteq blocks_by_id'[b].parents
<1>1. \A c \in Blocks : blocks_by_id[c] \in Block
  BY DEF IInv, BlocksTypeOK, IsPartialFcn, Blocks
<1>2. CASE CommitEntry
  BY <1>2, CommitFields
<1>3. CASE \E c \in Blocks : Decompress(c) \/ Recompress(c)
  BY <1>1, <1>3 DEF Decompress, Recompress, Blocks, Block
<1>4. CASE TransformAfterCompaction
  BY <1>1, <1>4 DEF TransformAfterCompaction, Blocks, Block
<1>5. CASE Reset
  BY <1>5 DEF Reset, Blocks, EmptyFcn
<1>6. CASE UNCHANGED blocks_by_id
  BY <1>6
<1>7. Host \/ Transform \/ UNCHANGED vars \/ CompressRange \/ CompressMessage \/ FailEntry
        => UNCHANGED blocks_by_id
  BY DEF Host, HostAppend, HostElide, HostRevert, Transform, vars, blockVars,
         CompressRange, CompressMessage, StartCall, FailEntry
<1> QED BY <1>2, <1>3, <1>4, <1>5, <1>6, <1>7 DEF Next, Blocks

\* A consumed block never comes back: recompress refuses it, and no other
\* operation makes a block active but its own commit.
THEOREM ConsumedIsFinalHolds == Spec => ConsumedIsFinal
<1>1. RefsInv /\ IInv /\ [Next]_vars =>
        [\A b \in Blocks \cap Blocks' :
           blocks_by_id[b].parents # {} => ~blocks_by_id'[b].active]_vars
  <2> SUFFICES ASSUME RefsInv, IInv, [Next]_vars, NEW b \in Blocks \cap Blocks',
                      blocks_by_id[b].parents # {}
               PROVE  ~blocks_by_id'[b].active
    OBVIOUS
  <2>1. LineageConsistent'
    BY BlocksStep DEF IInv, ContentOK
  <2>2. blocks_by_id'[b].parents # {}
    BY ParentsGrow
  <2> QED BY <2>1, <2>2 DEF LineageConsistent
<1> QED BY <1>1, BlocksInvariant, PTL DEF Spec, ConsumedIsFinal

----------------------------------------------------------------------------
(***************************************************************************)
(* The session implements the ledger.                                      *)
(***************************************************************************)
Status == [b \in Blocks |-> StatusOf(blocks_by_id[b])]
Heir   == [b \in Blocks |-> blocks_by_id[b].deactivated_by]

LEMMA LedgerInit == Init => Ledger!Init
<1>1. Init => Blocks = {}
  BY DEF Init, Blocks, EmptyFcn
<1> QED BY <1>1 DEF Ledger!Init, Ledger!Empty

LEMMA CommitIsLedgerStep ==
  ASSUME IInv, CommitEntry
  PROVE  \E C \in SUBSET Ledger!Committed : Ledger!Commit(C)
<1> DEFINE plan == Head(call.todo)
           id == Promote(next_block_id)
<1>1. /\ PlanReady(plan) /\ id \in BlockIds /\ id \notin Blocks
      /\ \A b \in Blocks : b < id
      /\ Blocks' = Blocks \cup {id}
      /\ blocks_by_id'[id] = BlockOf(plan, call.run, id)
  BY CommitFacts
<1>2. /\ \A b \in plan.required :
           /\ ~blocks_by_id'[b].active
           /\ blocks_by_id'[b].deactivated_by_user = blocks_by_id[b].deactivated_by_user
           /\ blocks_by_id'[b].parents = blocks_by_id[b].parents \cup {id}
           /\ blocks_by_id'[b].deactivated_by = id
      /\ \A b \in Blocks \ plan.required : blocks_by_id'[b] = blocks_by_id[b]
  BY <1>1, CommitFields DEF PlanReady
<1> HIDE DEF plan, id
<1>3. plan.required \subseteq Blocks
  BY <1>1 DEF PlanReady
<1>4. \A c \in plan.required : Status[c] \in {"active", "folded"}
  BY <1>1, <1>3 DEF PlanReady, Status, StatusOf
<1>5. Status' = [b \in Blocks \cup {id} |->
                  IF b = id THEN "active" ELSE IF b \in plan.required THEN "folded" ELSE Status[b]]
  <2>1. StatusOf(blocks_by_id'[id]) = "active"
    BY <1>1 DEF BlockOf, StatusOf
  <2>2. \A b \in plan.required : StatusOf(blocks_by_id'[b]) = "folded"
    BY <1>1, <1>2 DEF PlanReady, StatusOf
  <2> QED BY <1>1, <1>2, <1>3, <2>1, <2>2 DEF Status
<1>6. Heir' = [b \in Blocks \cup {id} |->
                IF b = id THEN NoBlock ELSE IF b \in plan.required THEN id ELSE Heir[b]]
  <2>1. blocks_by_id'[id].deactivated_by = NoBlock
    BY <1>1 DEF BlockOf
  <2> QED BY <1>1, <1>2, <1>3, <2>1 DEF Heir
<1>7. Ledger!Committed = Blocks
  BY DEF Ledger!Committed
<1>8. PICK C \in SUBSET Ledger!Committed : C = plan.required
  BY <1>3, <1>7
<1>9. Ledger!Commit(C)
  BY <1>1, <1>4, <1>5, <1>6, <1>7, <1>8 DEF Ledger!Commit, Ledger!NoHeir, NoBlock, Status, Heir
<1> QED BY <1>9

LEMMA SwitchIsLedgerStep ==
  ASSUME IInv, NEW b \in Blocks, Decompress(b) \/ Recompress(b)
  PROVE  \E c \in Ledger!Committed : Ledger!SwitchOff(c) \/ Ledger!SwitchOn(c)
<1>1. \A c \in Blocks : blocks_by_id[c] \in Block
  BY DEF IInv, BlocksTypeOK, IsPartialFcn, Blocks
<1>2. Blocks' = Blocks /\ Ledger!Committed = Blocks
  BY DEF Decompress, Recompress, Blocks, Ledger!Committed
<1>3. \A c \in Blocks \ {b} : blocks_by_id'[c] = blocks_by_id[c]
  BY DEF Decompress, Recompress, Blocks, IInv, BlocksTypeOK, IsPartialFcn
<1>4. CASE Decompress(b)
  <2>1. /\ blocks_by_id[b].active
        /\ blocks_by_id'[b] = [blocks_by_id[b] EXCEPT !.active = FALSE,
                                                      !.deactivated_by_user = TRUE]
    BY <1>4 DEF Decompress, Blocks, IInv, BlocksTypeOK, IsPartialFcn
  <2>2. /\ StatusOf(blocks_by_id[b]) = "active" /\ StatusOf(blocks_by_id'[b]) = "off"
        /\ blocks_by_id'[b].deactivated_by = blocks_by_id[b].deactivated_by
    BY <1>1, <2>1 DEF StatusOf, Block
  <2>3. Ledger!SwitchOff(b)
    BY <1>2, <1>3, <2>2 DEF Ledger!SwitchOff
  <2> QED BY <1>2, <2>3
<1>5. CASE Recompress(b)
  <2>1. /\ ~blocks_by_id[b].active /\ blocks_by_id[b].deactivated_by_user
        /\ blocks_by_id'[b] = [blocks_by_id[b] EXCEPT !.active = TRUE,
                                                      !.deactivated_by_user = FALSE]
    BY <1>5 DEF Recompress, MayReturn, Blocks, IInv, BlocksTypeOK, IsPartialFcn
  <2>2. /\ StatusOf(blocks_by_id[b]) = "off" /\ StatusOf(blocks_by_id'[b]) = "active"
        /\ blocks_by_id'[b].deactivated_by = blocks_by_id[b].deactivated_by
    BY <1>1, <2>1 DEF StatusOf, Block
  <2>3. Ledger!SwitchOn(b)
    BY <1>2, <1>3, <2>2 DEF Ledger!SwitchOn
  <2> QED BY <1>2, <2>3
<1> QED BY <1>4, <1>5

LEMMA CompactionIsLedgerStep ==
  ASSUME IInv, TransformAfterCompaction
  PROVE  Ledger!Compaction
<1>1. \A c \in Blocks : blocks_by_id[c] \in Block
  BY DEF IInv, BlocksTypeOK, IsPartialFcn, Blocks
<1>2. /\ Blocks' = Blocks
      /\ \A c \in active_block_ids : c \in Blocks => blocks_by_id'[c] =
           [blocks_by_id[c] EXCEPT !.active = FALSE, !.deactivated_by = NoBlock]
      /\ \A c \in Blocks \ active_block_ids : blocks_by_id'[c] = blocks_by_id[c]
  BY DEF TransformAfterCompaction, Blocks
<1>3. ASSUME NEW c \in Blocks
      PROVE  /\ StatusOf(blocks_by_id'[c]) =
                  IF StatusOf(blocks_by_id[c]) = "active" THEN "retired"
                                                         ELSE StatusOf(blocks_by_id[c])
             /\ blocks_by_id'[c].deactivated_by = blocks_by_id[c].deactivated_by
  <2>1. CASE blocks_by_id[c].active
    <3>1. /\ c \in active_block_ids /\ ~blocks_by_id[c].deactivated_by_user
          /\ blocks_by_id[c].parents = {} /\ blocks_by_id[c].deactivated_by = NoBlock
      BY <2>1 DEF IInv, ActiveIndexAgrees, ContentOK, StandingOK
    <3>2. blocks_by_id'[c] =
            [blocks_by_id[c] EXCEPT !.active = FALSE, !.deactivated_by = NoBlock]
      BY <1>2, <3>1
    <3>3. /\ ~blocks_by_id'[c].active
          /\ blocks_by_id'[c].deactivated_by_user = blocks_by_id[c].deactivated_by_user
          /\ blocks_by_id'[c].parents = blocks_by_id[c].parents
          /\ blocks_by_id'[c].deactivated_by = NoBlock
      BY <1>1, <3>2 DEF Block
    <3>4. StatusOf(blocks_by_id[c]) = "active"
      BY <2>1 DEF StatusOf
    <3>5. StatusOf(blocks_by_id'[c]) = "retired"
      BY <3>1, <3>3 DEF StatusOf
    <3> QED BY <3>1, <3>3, <3>4, <3>5
  <2>2. CASE ~blocks_by_id[c].active
    <3>1. c \notin active_block_ids
      BY <2>2 DEF IInv, ActiveIndexAgrees
    <3>2. blocks_by_id'[c] = blocks_by_id[c]
      BY <1>2, <3>1
    <3> QED BY <2>2, <3>2 DEF StatusOf
  <2> QED BY <2>1, <2>2
<1>4. Status' = [c \in Blocks |-> IF Status[c] = "active" THEN "retired" ELSE Status[c]]
  BY <1>2, <1>3 DEF Status
<1>5. Heir' = Heir
  BY <1>2, <1>3 DEF Heir
<1> QED BY <1>4, <1>5 DEF Ledger!Compaction, Ledger!Committed, Status, Heir

LEMMA LedgerStep == RefsInv /\ IInv /\ [Next]_vars => [Ledger!Next]_(Ledger!ledger)
<1> SUFFICES ASSUME RefsInv, IInv, [Next]_vars PROVE [Ledger!Next]_(Ledger!ledger)
  OBVIOUS
<1>1. CASE CommitEntry
  BY <1>1, CommitIsLedgerStep DEF Ledger!Next
<1>2. CASE \E b \in Blocks : Decompress(b) \/ Recompress(b)
  BY <1>2, SwitchIsLedgerStep DEF Ledger!Next
<1>3. CASE TransformAfterCompaction
  BY <1>3, CompactionIsLedgerStep DEF Ledger!Next
<1>4. CASE Reset
  <2>1. Blocks' = {}
    BY <1>4 DEF Reset, Blocks, EmptyFcn
  <2>2. Ledger!Reset
    BY <2>1 DEF Ledger!Reset, Ledger!Empty
  <2> QED BY <2>2 DEF Ledger!Next
<1>5. CASE \/ Host \/ Transform \/ UNCHANGED vars
           \/ CompressRange \/ CompressMessage \/ FailEntry
  <2>1. UNCHANGED blocks_by_id
    BY <1>5 DEF Host, HostAppend, HostElide, HostRevert, Transform, vars, blockVars,
                CompressRange, CompressMessage, StartCall, FailEntry
  <2> QED BY <2>1 DEF Ledger!ledger, Blocks
<1> QED BY <1>1, <1>2, <1>3, <1>4, <1>5 DEF Next, Blocks

\* Every behaviour of the session is a behaviour of BlockLedger: folded and
\* retired are final, off is not, and the heir of a folded block is later.
THEOREM ImplementsLedgerHolds == Spec => ImplementsLedger
<1>1. Spec => Ledger!Init /\ [][Ledger!Next]_(Ledger!ledger)
  BY LedgerInit, LedgerStep, BlocksInvariant, PTL DEF Spec
<1> QED BY <1>1 DEF ImplementsLedger, Ledger!Spec
============================================================================
