-------------------------- MODULE ToolPruningProofs --------------------------
(***************************************************************************)
(* Proofs about the pruning decisions of ToolPruning, alone and behind the *)
(* bridge (BridgeMessages), for any number of messages, files, signatures  *)
(* and blocks: the latest completed call of a file or a signature is never *)
(* pruned, and the result of a failed call stays in what goes out.  The    *)
(* argument: of the calls not decided on yet that touch a file, or have a  *)
(* signature, the last one is out of reach of every strategy, since each   *)
(* asks for a later one; and the host never answers a call twice, so a     *)
(* call that was decided on as completed, or as failed, stays so.  Behind  *)
(* the bridge: a message whose call came back is never taken for a summary *)
(* by the merge, and a call is taken away only if it was decided on or     *)
(* folded.                                                                 *)
(***************************************************************************)
EXTENDS BridgeMessages, FiniteSetTheorems, TLAPS

\* Numbers of messages grow; a call is answered once, by a later message that
\* makes no call of its own.
AnswersInv ==
  /\ \A m \in Listed \cup refd : m <= newest
  /\ \A r \in Listed :
       messages[r].of # NoCall => messages[r].of < r /\ messages[r].input = NoInput
  /\ \A r, q \in Listed :
       messages[r].of # NoCall /\ messages[r].of = messages[q].of => r = q

\* A call in the list that was decided on has its final result there, unless the
\* host took it back.
SettledInv ==
  ~reverted => \A c \in tools \cap Calls : Completed(c) \/ Errored(c)

\* A block is anchored at one of its own messages.
BlocksInv == \A b \in blocks : b.anchor \in b.direct

IInv ==
  /\ TypeOK
  /\ AnswersInv
  /\ SettledInv
  /\ BlocksInv
  /\ MostRecentKept

\* MostRecentKept of decisions "done" that need not be the present ones.
KeptFor(done) ==
  \A c \in done \cap Calls :
    Completed(c) =>
      LET later == {d \in Calls \ done : d > c /\ Completed(d)}
      IN  IF Watched(c) = {}
          THEN \E d \in later : messages[d].input = messages[c].input
          ELSE \A p \in Watched(c) : \E d \in later : p \in Watched(d)

----------------------------------------------------------------------------
(***************************************************************************)
(* The last call of a group survives the strategies.                       *)
(***************************************************************************)

\* There are finitely many messages.
LEMMA MsgFinite == IsFiniteSet(Msg)
<1>1. 1 \in Int /\ MaxMsg \in Int
  BY BoundsAssumption
<1> QED BY <1>1, FS_Interval DEF Msg

\* A set of messages has a last one.
LEMMA LastMessage ==
  ASSUME NEW D \in SUBSET Msg, D # {}
  PROVE  \E e \in D : \A x \in D : x <= e
<1> DEFINE After(d) == {x \in D : x > d}
           Afters == {After(d) : d \in D}
<1>1. IsFiniteSet(Msg)
  BY MsgFinite
<1>2. IsWellFoundedOn(StrictSubsetOrdering(Msg), FiniteSubsetsOf(Msg))
  BY FS_StrictSubsetOrderingWellFounded
<1>3. Afters \subseteq FiniteSubsetsOf(Msg) /\ Afters # {}
  <2>1. FiniteSubsetsOf(Msg) = SUBSET Msg
    BY <1>1, FS_FiniteSubsetsOfFinite
  <2>2. \A d \in D : After(d) \in SUBSET Msg
    OBVIOUS
  <2> HIDE DEF After
  <2> QED BY <2>1, <2>2
<1>4. PICK A \in Afters : \A B \in Afters : <<B, A>> \notin StrictSubsetOrdering(Msg)
  <2> HIDE DEF Afters
  <2> QED BY <1>2, <1>3, WFMin
<1>5. PICK e \in D : A = After(e)
  BY <1>4
<1>6. ASSUME NEW x \in D, ~(x <= e)
      PROVE  FALSE
  <2>1. \A y \in D : y \in Int
    BY DEF Msg
  <2>2. x > e
    BY <1>6, <2>1
  <2>3. After(x) \subseteq After(e)
    BY <2>1, <2>2
  <2>4. x \in After(e) /\ x \notin After(x)
    BY <2>1, <2>2
  <2>5. <<After(x), After(e)>> \in StrictSubsetOrdering(Msg)
    <3>1. After(x) \in SUBSET Msg /\ After(e) \in SUBSET Msg
      OBVIOUS
    <3> HIDE DEF After
    <3> QED BY <2>3, <2>4, <3>1 DEF StrictSubsetOrdering
  <2> QED BY <1>4, <1>5, <2>5
<1> QED BY <1>6

\* A call is completed or failed, not both.
LEMMA OneResult ==
  ASSUME AnswersInv, TypeOK, NEW c \in Calls, Completed(c)
  PROVE  ~Errored(c)
BY DEF AnswersInv, TypeOK, Calls, Completed, Errored, HasStatus, Answers, Msg, NoCall, Listed

\* Calls with one signature touch the same files.
LEMMA SameSignature ==
  ASSUME NEW c, NEW d, messages[c].input = messages[d].input
  PROVE  Watched(c) = Watched(d)
BY DEF Watched, PathsIn

\* What run_strategies decides on top of "done" is what one of the strategies
\* adds to decisions that hold "done".
LEMMA DecideSplit ==
  ASSUME NEW done, NEW c \in Decide(done) \ done
  PROVE  \/ c \in Duplicates(done)
         \/ \E before : done \subseteq before /\ c \in OldErrors(before)
         \/ \E before : done \subseteq before /\ c \in StaleReads(before)
<1> DEFINE deduplicated == done \cup Duplicates(done)
           purged       == deduplicated \cup OldErrors(deduplicated)
<1>1. Decide(done) = purged \cup StaleReads(purged)
  BY DEF Decide
<1>2. done \subseteq deduplicated /\ done \subseteq purged
  OBVIOUS
<1> QED BY <1>1, <1>2

\* No strategy reaches a completed call that is the last undecided one for one of
\* its files, or the last undecided one with its signature if it touches no file.
LEMMA LastOfGroupSurvives ==
  ASSUME TypeOK, AnswersInv, NEW done, NEW e \in Calls \ done, Completed(e),
         \/ \E p \in Watched(e) :
              \A d \in Calls \ done : Completed(d) /\ p \in Watched(d) => ~(d > e)
         \/ /\ Watched(e) = {}
            /\ \A d \in Calls \ done :
                 Completed(d) /\ messages[d].input = messages[e].input => ~(d > e)
  PROVE  e \notin Decide(done)
<1>1. e \notin Duplicates(done)
  BY SameSignature DEF Duplicates
<1>2. ASSUME NEW before, done \subseteq before
      PROVE  e \notin OldErrors(before)
  BY OneResult DEF OldErrors
<1>3. ASSUME NEW before, done \subseteq before
      PROVE  e \notin StaleReads(before)
  BY <1>3 DEF StaleReads
<1> QED BY <1>1, <1>2, <1>3, DecideSplit

\* Of the completed calls of a file one stays that is no earlier than any given one.
LEMMA FileKept ==
  ASSUME TypeOK, AnswersInv, NEW done, NEW d \in Calls \ done, Completed(d),
         NEW p \in Watched(d)
  PROVE  \E e \in Calls \ Decide(done) : e >= d /\ Completed(e) /\ p \in Watched(e)
<1> DEFINE D == {x \in Calls \ done : Completed(x) /\ p \in Watched(x)}
<1>1. D \in SUBSET Msg /\ D # {}
  BY DEF Calls, TypeOK
<1>2. PICK e \in D : \A x \in D : x <= e
  <2> HIDE DEF D
  <2> QED BY <1>1, LastMessage
<1>3. \A x \in D : x \in Int /\ ~(x > e)
  BY <1>1, <1>2 DEF Msg
<1>4. e \notin Decide(done)
  BY <1>3, LastOfGroupSurvives
<1> QED BY <1>2, <1>3, <1>4

\* So it is with the completed calls of a signature that touches no file.
LEMMA SignatureKept ==
  ASSUME TypeOK, AnswersInv, NEW done, NEW d \in Calls \ done, Completed(d),
         Watched(d) = {}
  PROVE  \E e \in Calls \ Decide(done) :
           e >= d /\ Completed(e) /\ messages[e].input = messages[d].input
<1> DEFINE D == {x \in Calls \ done : Completed(x) /\ messages[x].input = messages[d].input}
<1>1. D \in SUBSET Msg /\ D # {}
  BY DEF Calls, TypeOK
<1>2. PICK e \in D : \A x \in D : x <= e
  <2> HIDE DEF D
  <2> QED BY <1>1, LastMessage
<1>3. \A x \in D : x \in Int /\ ~(x > e)
  BY <1>1, <1>2 DEF Msg
<1>4. Watched(e) = {}
  BY <1>2, SameSignature
<1>5. e \notin Decide(done)
  BY <1>3, <1>4, LastOfGroupSurvives
<1> QED BY <1>2, <1>3, <1>5

\* Whatever was decided before, run_strategies keeps the latest calls.
LEMMA DecideKeeps ==
  ASSUME TypeOK, AnswersInv, NEW done, KeptFor(done)
  PROVE  KeptFor(Decide(done))
<1> SUFFICES ASSUME NEW c \in Decide(done) \cap Calls, Completed(c)
             PROVE  LET later == {d \in Calls \ Decide(done) : d > c /\ Completed(d)}
                    IN  IF Watched(c) = {}
                        THEN \E d \in later : messages[d].input = messages[c].input
                        ELSE \A p \in Watched(c) : \E d \in later : p \in Watched(d)
  BY DEF KeptFor
<1>0. \A x \in Calls : x \in Int
  BY DEF Calls, TypeOK, Msg
<1>1. /\ Watched(c) = {} => \E d \in Calls \ done :
           d > c /\ Completed(d) /\ messages[d].input = messages[c].input
      /\ \A p \in Watched(c) : \E d \in Calls \ done :
           d > c /\ Completed(d) /\ p \in Watched(d)
  <2>1. CASE c \in done
    BY <2>1 DEF KeptFor
  <2>2. CASE c \in Duplicates(done)
    BY <2>2, SameSignature DEF Duplicates
  <2>3. ASSUME NEW before, done \subseteq before, c \in OldErrors(before)
        PROVE  FALSE
    BY <2>3, OneResult DEF OldErrors
  <2>4. CASE \E before : done \subseteq before /\ c \in StaleReads(before)
    BY <2>4 DEF StaleReads
  <2> QED BY <2>1, <2>2, <2>3, <2>4, DecideSplit
<1>2. ASSUME Watched(c) = {}
      PROVE  \E e \in Calls \ Decide(done) :
               e > c /\ Completed(e) /\ messages[e].input = messages[c].input
  <2>1. PICK d \in Calls \ done :
          d > c /\ Completed(d) /\ messages[d].input = messages[c].input
    BY <1>1, <1>2
  <2>2. Watched(d) = {}
    BY <1>2, <2>1, SameSignature
  <2>3. PICK e \in Calls \ Decide(done) :
          e >= d /\ Completed(e) /\ messages[e].input = messages[d].input
    BY <2>1, <2>2, SignatureKept
  <2> QED BY <1>0, <2>1, <2>3
<1>3. ASSUME NEW p \in Watched(c)
      PROVE  \E e \in Calls \ Decide(done) : e > c /\ Completed(e) /\ p \in Watched(e)
  <2>1. PICK d \in Calls \ done : d > c /\ Completed(d) /\ p \in Watched(d)
    BY <1>1
  <2>2. PICK e \in Calls \ Decide(done) : e >= d /\ Completed(e) /\ p \in Watched(e)
    BY <2>1, FileKept
  <2> QED BY <1>0, <2>1, <2>2
<1> QED BY <1>2, <1>3

----------------------------------------------------------------------------
(***************************************************************************)
(* Initial states and transforms.                                          *)
(***************************************************************************)

LEMMA KeptIsKeptFor == MostRecentKept <=> (~reverted => KeptFor(tools))
BY DEF MostRecentKept, KeptFor

\* A session starts with no message, no decision and no block.
LEMMA InitIInv == Init => IInv
<1> SUFFICES ASSUME Init
             PROVE  IInv
  OBVIOUS
<1>1. Listed = {}
  BY DEF Init, Listed, EmptyFcn
<1>2. TypeOK
  <2>1. messages \in [Listed -> Content] /\ sent \in [DOMAIN sent -> Outgoing]
        /\ DOMAIN sent \subseteq Msg
    BY <1>1 DEF Init, Listed, EmptyFcn
  <2>2. newest \in 0..MaxMsg
    BY BoundsAssumption DEF Init
  <2>3. /\ refd \subseteq Msg /\ tools \subseteq refd /\ blocks \subseteq Block
        /\ cache_stability_mode \in Modes
    BY DEF Init
  <2>4. force_apply_requested \in BOOLEAN /\ reverted \in BOOLEAN
    BY DEF Init
  <2>5. Listed \subseteq Msg
    BY <1>1
  <2> QED BY <2>1, <2>2, <2>3, <2>4, <2>5 DEF TypeOK
<1>3. AnswersInv /\ SettledInv /\ BlocksInv /\ MostRecentKept
  BY <1>1 DEF Init, AnswersInv, SettledInv, BlocksInv, MostRecentKept
<1> QED BY <1>2, <1>3 DEF IInv

\* What the strategies decide on top of "done" are calls in the list.
LEMMA DecideCalls ==
  ASSUME NEW done
  PROVE  /\ done \subseteq Decide(done)
         /\ \A c \in Decide(done) \ done : c \in Calls /\ (Completed(c) \/ Errored(c))
<1>1. done \subseteq Decide(done)
  BY DEF Decide
<1>2. ASSUME NEW c \in Decide(done) \ done
      PROVE  c \in Calls /\ (Completed(c) \/ Errored(c))
  <2>1. CASE c \in Duplicates(done)
    BY <2>1 DEF Duplicates
  <2>2. ASSUME NEW before, c \in OldErrors(before)
        PROVE  c \in Calls /\ Errored(c)
    BY <2>2 DEF OldErrors
  <2>3. ASSUME NEW before, c \in StaleReads(before)
        PROVE  c \in Calls /\ Completed(c)
    BY <2>3 DEF StaleReads
  <2> QED BY <2>1, <2>2, <2>3, DecideSplit
<1> QED BY <1>1, <1>2

\* What is rendered of a message is text and a tool part as Outgoing says.
LEMMA RenderType ==
  ASSUME TypeOK, NEW decided, NEW inForce \in SUBSET Block
  PROVE  /\ DOMAIN Render(decided, inForce) \subseteq Msg
         /\ Render(decided, inForce) \in [DOMAIN Render(decided, inForce) -> Outgoing]
<1> DEFINE At(m) == {b \in inForce : b.anchor = m}
           Text(m) == IF At(m) # {} THEN Stripped((CHOOSE b \in At(m) : TRUE).form)
                      ELSE IF messages[m].text THEN "own" ELSE "none"
           Tool(m) == IF \E b \in At(m) : CallOf(m) \in ToolsOf(b) THEN "none"
                      ELSE ToolLeft(m, decided)
           Out == Applied(decided) \ Covered(inForce)
<1>1. Out \subseteq Msg
  BY DEF Applied, TypeOK
<1>2. ASSUME NEW m \in Out
      PROVE  Text(m) \in {"own", "none", "summary", "blank", "empty"}
  <2>1. CASE At(m) # {}
    <3>1. (CHOOSE b \in At(m) : TRUE) \in At(m)
      BY <2>1
    <3>2. (CHOOSE b \in At(m) : TRUE).form \in {"bare", "summary", "block"}
      BY <3>1, InputAssumption DEF Block
    <3> QED BY <2>1, <3>2 DEF Stripped
  <2> QED BY <2>1
<1>3. ASSUME NEW m \in Out
      PROVE  Tool(m) \in {"whole", "purged", "none"}
  BY DEF ToolLeft, PruneKind
<1>4. Render(decided, inForce) = [m \in Out |-> [text |-> Text(m), tool |-> Tool(m)]]
  BY DEF Render
<1> HIDE DEF Out, Text, Tool
<1>5. \A m \in Out : [text |-> Text(m), tool |-> Tool(m)] \in Outgoing
  BY <1>2, <1>3 DEF Outgoing
<1> QED BY <1>1, <1>4, <1>5

LEMMA TransformIInv ==
  ASSUME IInv, Transform
  PROVE  IInv'
<1> USE DEF IInv
<1>1. messages' = messages /\ Listed' = Listed /\ Calls' = Calls
  BY DEF Transform, Listed, Calls
<1>2. /\ \A c : Completed(c)' = Completed(c)
      /\ \A c : Errored(c)' = Errored(c)
      /\ \A c : Watched(c)' = Watched(c)
  BY <1>1 DEF Completed, Errored, HasStatus, Answers, Watched, PathsIn
<1>3. tools' = Decide(DecidedBefore)
  BY DEF Transform
<1>4. DecidedBefore \subseteq tools /\ (CompactionDetected => DecidedBefore = {})
  BY DEF DecidedBefore
<1>5. tools' \subseteq refd'
  <2>1. DecidedBefore \subseteq IF CompactionDetected THEN {} ELSE refd
    BY <1>4 DEF TypeOK, DecidedBefore
  <2>2. \A c \in tools' \ DecidedBefore : c \in Listed
    BY <1>3, DecideCalls DEF Calls
  <2> QED BY <2>1, <2>2 DEF Transform
<1>6. TypeOK'
  <2>1. blocks' \in SUBSET Block
    BY DEF Transform, TypeOK
  <2>2. /\ DOMAIN sent' \subseteq Msg
        /\ sent' \in [DOMAIN sent' -> Outgoing]
    BY <2>1, RenderType DEF Transform
  <2>3. refd' \subseteq Msg
    BY DEF Transform, TypeOK
  <2> QED BY <1>1, <1>5, <2>1, <2>2, <2>3 DEF Transform, TypeOK
<1>7. AnswersInv'
  BY <1>1 DEF Transform, AnswersInv
<1>8. SettledInv'
  <2> SUFFICES ASSUME ~reverted', NEW c \in tools' \cap Calls
               PROVE  Completed(c) \/ Errored(c)
    BY <1>1, <1>2 DEF SettledInv
  <2>1. CASE c \in DecidedBefore
    BY <1>4, <2>1 DEF Transform, SettledInv
  <2> QED BY <1>3, <2>1, DecideCalls
<1>9. BlocksInv'
  BY DEF Transform, BlocksInv
<1>10. MostRecentKept'
  <2> SUFFICES ASSUME ~reverted'
               PROVE  KeptFor(tools')
    BY <1>1, <1>2 DEF MostRecentKept, KeptFor
  <2>1. KeptFor(DecidedBefore)
    <3>1. CASE CompactionDetected
      BY <1>4, <3>1 DEF KeptFor
    <3>2. CASE ~CompactionDetected
      BY <3>2, KeptIsKeptFor DEF Transform, DecidedBefore
    <3> QED BY <3>1, <3>2
  <2> QED BY <1>3, <2>1, DecideKeeps
<1> QED BY <1>6, <1>7, <1>8, <1>9, <1>10

----------------------------------------------------------------------------
(***************************************************************************)
(* The steps of the host.                                                  *)
(***************************************************************************)

\* Steps that touch neither the list nor what was decided.
LEMMA ListUntouched ==
  ASSUME IInv, UNCHANGED <<hostVars, refd>>, TypeOK', BlocksInv',
         tools' = tools
  PROVE  IInv'
<1>1. messages' = messages /\ Listed' = Listed /\ Calls' = Calls
  BY DEF hostVars, Listed, Calls
<1>2. /\ \A c : Completed(c)' = Completed(c)
      /\ \A c : Errored(c)' = Errored(c)
      /\ \A c : Watched(c)' = Watched(c)
  BY <1>1 DEF Completed, Errored, HasStatus, Answers, Watched, PathsIn
<1>3. AnswersInv' /\ SettledInv' /\ MostRecentKept'
  BY <1>1, <1>2 DEF IInv, hostVars, AnswersInv, SettledInv, MostRecentKept
<1> QED BY <1>3 DEF IInv

\* A host's step keeps the decisions right when the calls decided on keep their
\* results, and the completed calls after one that stays in the list stay too.
LEMMA DecisionsUntouched ==
  ASSUME IInv, tools' = tools, ~reverted' => ~reverted,
         \A c \in tools \cap Calls' :
           /\ c \in Calls /\ messages'[c].input = messages[c].input
           /\ ~reverted' => (Completed(c)' <=> Completed(c)) /\ (Errored(c)' <=> Errored(c)),
         \A c \in tools \cap Calls', d \in Calls :
           ~reverted' /\ d > c /\ Completed(d) =>
             d \in Calls' /\ Completed(d)' /\ messages'[d].input = messages[d].input
  PROVE  SettledInv' /\ MostRecentKept'
<1>1. \A d : messages'[d].input = messages[d].input => Watched(d)' = Watched(d)
  BY DEF Watched, PathsIn
<1>2. SettledInv'
  BY DEF IInv, SettledInv
<1>3. MostRecentKept'
  <2> SUFFICES ASSUME ~reverted', NEW c \in tools \cap Calls', Completed(c)'
               PROVE  LET later == {d \in Calls' \ tools : d > c /\ Completed(d)'}
                      IN  IF Watched(c)' = {}
                          THEN \E d \in later : messages'[d].input = messages'[c].input
                          ELSE \A p \in Watched(c)' : \E d \in later : p \in Watched(d)'
    BY DEF MostRecentKept
  <2>1. c \in Calls /\ Completed(c) /\ Watched(c)' = Watched(c)
        /\ messages'[c].input = messages[c].input
    BY <1>1
  <2>2. \A d \in Calls \ tools : d > c /\ Completed(d) =>
           /\ d \in Calls' \ tools /\ Completed(d)'
           /\ messages'[d].input = messages[d].input /\ Watched(d)' = Watched(d)
    BY <1>1
  <2>3. CASE Watched(c) = {}
    <3>1. PICK d \in Calls \ tools :
            d > c /\ Completed(d) /\ messages[d].input = messages[c].input
      BY <2>1, <2>3 DEF IInv, MostRecentKept
    <3> QED BY <2>1, <2>2, <2>3, <3>1
  <2>4. ASSUME NEW p \in Watched(c)
        PROVE  \E d \in Calls' \ tools : d > c /\ Completed(d)' /\ p \in Watched(d)'
    <3>1. PICK d \in Calls \ tools : d > c /\ Completed(d) /\ p \in Watched(d)
      BY <2>1, <2>4 DEF IInv, MostRecentKept
    <3> QED BY <2>2, <3>1
  <2> QED BY <2>1, <2>3, <2>4
<1> QED BY <1>2, <1>3

\* A message that is new belongs to no decision, and changes no other one.
LEMMA AppendIInv ==
  ASSUME IInv, NEW content \in Content, HostAppend(content),
         \/ content.of = NoCall
         \/ /\ content.of \in Calls /\ content.input = NoInput
            /\ ~\E r \in Listed : Answers(r, content.of)
  PROVE  IInv'
<1> DEFINE m == newest + 1
<1> USE DEF IInv
<1>1. /\ m \in Msg /\ m \notin Listed /\ m \notin tools /\ m \notin refd
      /\ \A x \in Listed : x < m
      /\ newest' = m
  BY BoundsAssumption DEF HostAppend, TypeOK, AnswersInv, Msg
<1>2. /\ Listed' = Listed \cup {m}
      /\ messages'[m] = content
      /\ \A x \in Listed : messages'[x] = messages[x]
      /\ UNCHANGED <<refd, tools, blocks, cache_stability_mode, force_apply_requested, reverted>>
      /\ sent' = EmptyFcn
  BY <1>1 DEF HostAppend, Listed, NothingSent
<1>3. TypeOK'
  <2>1. messages' \in [Listed' -> Content]
    BY <1>1, <1>2 DEF HostAppend, Listed, TypeOK
  <2>2. DOMAIN sent' \subseteq Msg /\ sent' \in [DOMAIN sent' -> Outgoing]
    BY <1>2 DEF EmptyFcn
  <2>3. newest' \in 0..MaxMsg /\ Listed' \subseteq Msg
    BY <1>1, <1>2 DEF TypeOK, Msg
  <2> QED BY <1>2, <2>1, <2>2, <2>3 DEF TypeOK
<1>4. AnswersInv'
  <2>1. \A x \in (Listed \cup refd)' : x <= newest'
    BY <1>1, <1>2 DEF AnswersInv, TypeOK, Msg
  <2>2. ASSUME NEW r \in Listed', messages'[r].of # NoCall
        PROVE  messages'[r].of < r /\ messages'[r].input = NoInput
    BY <1>1, <1>2, <2>2 DEF AnswersInv, Calls
  <2>3. ASSUME NEW r \in Listed', NEW q \in Listed', messages'[r].of # NoCall,
               messages'[r].of = messages'[q].of
        PROVE  r = q
    BY <1>1, <1>2, <2>3 DEF AnswersInv, Answers
  <2> QED BY <2>1, <2>2, <2>3 DEF AnswersInv
<1>5. \* one new call at most
      /\ \A c \in Calls : c \in Calls' /\ messages'[c] = messages[c]
      /\ \A c \in tools \cap Calls' : c \in Calls
  BY <1>1, <1>2 DEF Calls
<1>6. ASSUME NEW c \in Calls, NEW status, HasStatus(c, status)
      PROVE  HasStatus(c, status)'
  BY <1>2, <1>6 DEF HasStatus, Answers
<1>7. ASSUME NEW c \in tools \cap Calls, NEW status, ~reverted, HasStatus(c, status)'
      PROVE  HasStatus(c, status)
  <2>1. PICK q \in Listed : Answers(q, c)
    BY <1>7 DEF SettledInv, Completed, Errored, HasStatus
  <2>2. c # NoCall
    BY DEF Calls, TypeOK, Msg, NoCall
  <2>3. PICK r \in Listed' : messages'[r].of = c /\ messages'[r].status = status
    BY <1>7 DEF HasStatus, Answers
  <2>4. r \in Listed
    BY <1>1, <1>2, <2>1, <2>2, <2>3 DEF Answers
  <2> QED BY <1>2, <2>3, <2>4 DEF HasStatus, Answers
<1>8. SettledInv' /\ MostRecentKept'
  BY <1>2, <1>5, <1>6, <1>7, DecisionsUntouched DEF Completed, Errored
<1> QED BY <1>2, <1>3, <1>4, <1>8 DEF BlocksInv

LEMMA FinishIInv ==
  ASSUME IInv, HostFinishes
  PROVE  IInv'
<1> USE DEF IInv
<1>1. PICK r \in Listed, status \in {"completed", "error"} :
        /\ messages[r].status = "running"
        /\ messages' = [messages EXCEPT ![r].status = status]
        /\ sent' = EmptyFcn
        /\ UNCHANGED <<newest, refd, tools, blocks, cache_stability_mode,
                       force_apply_requested, reverted>>
  BY DEF HostFinishes, NothingSent
<1>2. /\ Listed' = Listed
      /\ \A x \in Listed \ {r} : messages'[x] = messages[x]
      /\ messages[r] \in Content /\ messages'[r] = [messages[r] EXCEPT !.status = status]
  BY <1>1 DEF Listed, TypeOK
<1>3. /\ \A x \in Listed : messages'[x].of = messages[x].of
      /\ \A x \in Listed : messages'[x].input = messages[x].input
      /\ messages'[r] \in Content
      /\ messages'[r].status = status
  BY <1>2 DEF Content, Statuses
<1>4. TypeOK'
  <2>1. messages' \in [Listed' -> Content]
    <3>1. \A x \in Listed' : messages'[x] \in Content
      BY <1>2, <1>3 DEF TypeOK
    <3>2. messages' = [x \in Listed' |-> messages'[x]]
      BY <1>1, <1>2 DEF TypeOK
    <3> QED BY <3>1, <3>2
  <2>2. DOMAIN sent' \subseteq Msg /\ sent' \in [DOMAIN sent' -> Outgoing]
    BY <1>1 DEF EmptyFcn
  <2> QED BY <1>1, <1>2, <2>1, <2>2 DEF TypeOK
<1>5. AnswersInv'
  BY <1>1, <1>2, <1>3 DEF AnswersInv
<1>6. Calls' = Calls
  BY <1>2, <1>3 DEF Calls
<1>7. ASSUME NEW c, NEW final \in {"completed", "error"}, HasStatus(c, final)
      PROVE  HasStatus(c, final)'
  BY <1>1, <1>2, <1>3, <1>7 DEF HasStatus, Answers
<1>8. ASSUME NEW c \in tools \cap Calls, NEW final \in {"completed", "error"}, ~reverted,
             HasStatus(c, final)'
      PROVE  HasStatus(c, final)
  <2>1. PICK q \in Listed : messages[q].of = c /\ messages[q].status \in {"completed", "error"}
    BY <1>8 DEF SettledInv, Completed, Errored, HasStatus, Answers
  <2>2. messages[r].of # c
    BY <1>1, <2>1 DEF AnswersInv, Calls, TypeOK, Msg, NoCall
  <2> QED BY <1>2, <1>3, <1>8, <2>2 DEF HasStatus, Answers
<1>9. SettledInv' /\ MostRecentKept'
  BY <1>1, <1>3, <1>6, <1>7, <1>8, DecisionsUntouched DEF Completed, Errored, Calls
<1> QED BY <1>1, <1>4, <1>5, <1>9 DEF BlocksInv

\* What is left of the list holds the messages as they were.
LEMMA KeepFacts ==
  ASSUME IInv, NEW kept \in SUBSET Listed, KeepOnly(kept)
  PROVE  /\ Listed' = kept
         /\ \A x \in kept : messages'[x] = messages[x]
         /\ tools' = tools /\ blocks' = blocks
         /\ AnswersInv'
         /\ reverted' \in BOOLEAN => TypeOK'
<1> USE DEF IInv
<1>1. /\ Listed' = kept /\ messages' = [x \in kept |-> messages[x]]
      /\ \A x \in kept : messages'[x] = messages[x]
      /\ sent' = EmptyFcn
      /\ UNCHANGED <<newest, refd, tools, blocks, cache_stability_mode, force_apply_requested>>
  BY DEF KeepOnly, Listed, NothingSent
<1>2. AnswersInv'
  BY <1>1 DEF AnswersInv
<1>3. messages' \in [Listed' -> Content] /\ Listed' \subseteq Msg
  BY <1>1 DEF TypeOK
<1>4. DOMAIN sent' \subseteq Msg /\ sent' \in [DOMAIN sent' -> Outgoing]
  BY <1>1 DEF EmptyFcn
<1> QED BY <1>1, <1>2, <1>3, <1>4 DEF TypeOK

\* The host drops old messages: a call that stays keeps its result and the calls
\* after it, which come later.
LEMMA ElideIInv ==
  ASSUME IInv, HostElide
  PROVE  IInv'
<1> USE DEF IInv
<1>1. PICK m \in Listed : KeepOnly({x \in Listed : x > m})
  BY DEF HostElide
<1> DEFINE kept == {x \in Listed : x > m}
<1>2. /\ Listed' = kept
      /\ \A x \in kept : messages'[x] = messages[x]
      /\ tools' = tools /\ blocks' = blocks /\ reverted' = reverted
      /\ AnswersInv' /\ TypeOK'
  BY <1>1, KeepFacts DEF HostElide, TypeOK
<1>3. \A x \in Listed : x \in Int
  BY DEF TypeOK, Msg
<1>4. Calls' = Calls \cap kept
  BY <1>2 DEF Calls
<1>5. ASSUME NEW c \in Calls \cap kept, NEW status
      PROVE  HasStatus(c, status)' <=> HasStatus(c, status)
  <2>1. c # NoCall
    BY DEF TypeOK, Msg, NoCall
  <2>2. \A r \in Listed : messages[r].of = c => r \in kept
    BY <1>3, <2>1 DEF AnswersInv
  <2> QED BY <1>2, <2>2 DEF HasStatus, Answers
<1>6. \A c \in kept, d \in Listed : d > c => d \in kept
  BY <1>3
<1>7. SettledInv' /\ MostRecentKept'
  <2> HIDE DEF kept
  <2> QED BY <1>2, <1>4, <1>5, <1>6, DecisionsUntouched DEF Completed, Errored, Calls
<1> QED BY <1>2, <1>7 DEF BlocksInv

LEMMA RevertIInv ==
  ASSUME IInv, HostRevert
  PROVE  IInv'
<1> USE DEF IInv
<1>1. PICK m \in Listed : KeepOnly({x \in Listed : x < m})
  BY DEF HostRevert
<1>2. tools' = tools /\ blocks' = blocks /\ reverted' = TRUE /\ AnswersInv' /\ TypeOK'
  BY <1>1, KeepFacts DEF HostRevert
<1> QED BY <1>2 DEF BlocksInv, SettledInv, MostRecentKept

----------------------------------------------------------------------------
(***************************************************************************)
(* The theorems.                                                           *)
(***************************************************************************)

\* Every call a host makes keeps the invariant.
LEMMA StepIInv ==
  ASSUME IInv, [Next]_vars
  PROVE  IInv'
<1>1. CASE Transform
  BY <1>1, TransformIInv
<1>2. CASE HostSays
  <2>1. PICK shape \in Shapes, input \in Inputs :
          HostAppend([role |-> IF shape = "user" THEN "user" ELSE "assistant",
                      text |-> shape # "call",
                      input |-> IF shape \in {"call", "text+call"} THEN input ELSE NoInput,
                      of |-> NoCall, status |-> "none"])
    BY <1>2 DEF HostSays
  <2> DEFINE content == [role |-> IF shape = "user" THEN "user" ELSE "assistant",
                         text |-> shape # "call",
                         input |-> IF shape \in {"call", "text+call"} THEN input ELSE NoInput,
                         of |-> NoCall, status |-> "none"]
  <2>2. content \in Content /\ content.of = NoCall
    BY DEF Content, NoCall
  <2> HIDE DEF content
  <2> QED BY <2>1, <2>2, AppendIInv DEF content
<1>3. CASE HostAnswers
  <2>1. PICK c \in Calls, status \in Statuses :
          /\ ~\E r \in Listed : Answers(r, c)
          /\ HostAppend([role |-> "user", text |-> FALSE, input |-> NoInput,
                         of |-> c, status |-> status])
    BY <1>3 DEF HostAnswers
  <2> DEFINE content == [role |-> "user", text |-> FALSE, input |-> NoInput,
                         of |-> c, status |-> status]
  <2>2. content \in Content /\ content.of = c /\ content.input = NoInput
    BY DEF Content, Calls, IInv, TypeOK
  <2> HIDE DEF content
  <2> QED BY <2>1, <2>2, AppendIInv DEF content
<1>4. CASE HostFinishes
  BY <1>4, FinishIInv
<1>5. CASE HostElide
  BY <1>5, ElideIInv
<1>6. CASE HostRevert
  BY <1>6, RevertIInv
<1>7. CASE ForceApply \/ UpdateConfig
  <2>1. /\ UNCHANGED <<hostVars, refd, tools, blocks>>
        /\ cache_stability_mode' \in Modes /\ force_apply_requested' \in BOOLEAN
        /\ sent' = EmptyFcn
    BY <1>7 DEF ForceApply, UpdateConfig, NothingSent, IInv, TypeOK
  <2>2. DOMAIN sent' \subseteq Msg /\ sent' \in [DOMAIN sent' -> Outgoing]
    BY <2>1 DEF EmptyFcn
  <2>3. TypeOK' /\ BlocksInv'
    BY <2>1, <2>2 DEF IInv, TypeOK, BlocksInv, hostVars, Listed
  <2> QED BY <2>1, <2>3, ListUntouched
<1>8. CASE Compress
  <2>1. PICK s \in Listed, e \in Listed, form \in Forms :
          /\ s <= e
          /\ blocks' = blocks \cup {[anchor |-> s, direct |-> {m \in Listed : s <= m /\ m <= e},
                                     form |-> form]}
    BY <1>8 DEF Compress
  <2>2. UNCHANGED <<hostVars, refd, tools, cache_stability_mode, force_apply_requested>>
        /\ sent' = EmptyFcn
    BY <1>8 DEF Compress, NothingSent
  <2>3. DOMAIN sent' \subseteq Msg /\ sent' \in [DOMAIN sent' -> Outgoing]
    BY <2>2 DEF EmptyFcn
  <2> DEFINE b == [anchor |-> s, direct |-> {m \in Listed : s <= m /\ m <= e}, form |-> form]
  <2>4. b \in Block /\ b.anchor \in b.direct
    BY <2>1 DEF Block, IInv, TypeOK, Msg
  <2> HIDE DEF b
  <2>5. TypeOK' /\ BlocksInv'
    BY <2>1, <2>2, <2>3, <2>4 DEF IInv, TypeOK, BlocksInv, hostVars, Listed, b
  <2> QED BY <2>2, <2>5, ListUntouched
<1>9. CASE Decompress
  <2>1. /\ UNCHANGED <<hostVars, refd, tools, cache_stability_mode, force_apply_requested>>
        /\ sent' = EmptyFcn /\ blocks' \subseteq blocks
    BY <1>9 DEF Decompress, NothingSent
  <2>2. DOMAIN sent' \subseteq Msg /\ sent' \in [DOMAIN sent' -> Outgoing]
    BY <2>1 DEF EmptyFcn
  <2>3. TypeOK' /\ BlocksInv'
    BY <2>1, <2>2 DEF IInv, TypeOK, BlocksInv, hostVars, Listed
  <2> QED BY <2>1, <2>3, ListUntouched
<1>10. CASE Reset
  <2>1. DOMAIN sent' \subseteq Msg /\ sent' \in [DOMAIN sent' -> Outgoing]
    BY <1>10 DEF Reset, NothingSent, EmptyFcn
  <2>2. TypeOK'
    BY <1>10, <2>1 DEF Reset, IInv, TypeOK, Listed
  <2> QED BY <1>10, <2>2
       DEF Reset, IInv, AnswersInv, SettledInv, BlocksInv, MostRecentKept, Listed
<1>11. CASE UNCHANGED vars
  <2>1. TypeOK' /\ BlocksInv'
    BY <1>11 DEF vars, hostVars, IInv, TypeOK, BlocksInv, Listed
  <2> QED BY <1>11, <2>1, ListUntouched DEF vars
<1> QED BY <1>1, <1>2, <1>3, <1>4, <1>5, <1>6, <1>7, <1>8, <1>9, <1>10, <1>11 DEF Next

THEOREM InvariantHolds == Spec => []IInv
<1> QED BY InitIInv, StepIInv, PTL DEF Spec

\* Every step leaves the cache, the decisions and what goes out well typed, and the
\* decisions about calls that hold a reference.
THEOREM TypeCorrect == Spec => []TypeOK
<1>1. IInv => TypeOK
  BY DEF IInv
<1> QED BY <1>1, InvariantHolds, PTL

\* "Keeping only the most recent": however deduplicate and stale_file_reads take
\* turns, the last completed call of a file, or of a signature, is not pruned.
THEOREM MostRecentKeptHolds == Spec => []MostRecentKept
<1>1. IInv => MostRecentKept
  BY DEF IInv
<1> QED BY <1>1, InvariantHolds, PTL

----------------------------------------------------------------------------
(***************************************************************************)
(* Decisions do not depend on how a session came to its list.  What the    *)
(* strategies decide can be read off the list alone: a call is prunable    *)
(* when a later call has its signature, when later calls touch all its     *)
(* files, or when it failed long enough ago, and it stays prunable while   *)
(* the host adds messages, finishes calls and drops old ones.              *)
(***************************************************************************)
Repeated(c) ==
  /\ Completed(c)
  /\ messages[c].input \notin DedupProtected
  /\ PathsIn(c) \cap ProtectedPaths = {}
  /\ \E d \in Calls : d > c /\ Completed(d) /\ messages[d].input = messages[c].input

\* A later call, seen by stale_file_reads, touches the file p too.
TouchedAfter(p, c) ==
  \E d \in Calls :
    d > c /\ Completed(d) /\ messages[d].input \notin StaleProtected /\ p \in Watched(d)

Superseded(c) ==
  /\ Completed(c)
  /\ messages[c].input \notin StaleProtected
  /\ Watched(c) # {}
  /\ \A p \in Watched(c) : TouchedAfter(p, c)

Expired(c) ==
  /\ Errored(c)
  /\ messages[c].input \notin PurgeProtected
  /\ Age(c) >= (IF PurgeTurns = 0 THEN 1 ELSE PurgeTurns)

Prunable(c) == Repeated(c) \/ Superseded(c) \/ Expired(c)

\* A call is answered before the next one is made, and the decisions name no
\* message that makes no call.
OrderInv ==
  /\ \A a, c \in Calls : a < c => \E r \in Listed : Answers(r, a) /\ r < c
  /\ tools \cap Listed \subseteq Calls

PrunableInv == ~reverted => \A c \in tools \cap Calls : Prunable(c)

\* A strategy decides on prunable calls only.
LEMMA StrategiesPrunable ==
  ASSUME NEW done
  PROVE  /\ \A c \in Duplicates(done) : c \in Calls /\ Repeated(c)
         /\ \A c \in OldErrors(done) : c \in Calls /\ Expired(c)
         /\ \A c \in StaleReads(done) : c \in Calls /\ Superseded(c)
<1>1. \A c \in Duplicates(done) : c \in Calls /\ Repeated(c)
  BY DEF Duplicates, Repeated
<1>2. \A c \in OldErrors(done) : c \in Calls /\ Expired(c)
  BY DEF OldErrors, Expired
<1>3. \A c \in StaleReads(done) : c \in Calls /\ Superseded(c)
  BY DEF StaleReads, Superseded, TouchedAfter
<1> QED BY <1>1, <1>2, <1>3

\* The last call that touches a file is not prunable as a completed call.
LEMMA LastOfFile ==
  ASSUME TypeOK, AnswersInv, NEW c, NEW p, TouchedAfter(p, c), c \in Msg
  PROVE  \E e \in Calls :
           /\ e > c /\ Completed(e) /\ messages[e].input \notin StaleProtected
           /\ p \in Watched(e) /\ ~Prunable(e)
           /\ \A d \in Calls :
                Completed(d) /\ messages[d].input = messages[e].input => ~(d > e)
<1> DEFINE D == {d \in Calls : /\ d > c /\ Completed(d)
                              /\ messages[d].input \notin StaleProtected /\ p \in Watched(d)}
<1>1. D \in SUBSET Msg /\ D # {}
  BY DEF TouchedAfter, Calls, TypeOK
<1>2. PICK e \in D : \A x \in D : x <= e
  <2> HIDE DEF D
  <2> QED BY <1>1, LastMessage
<1>3. \A x \in Calls : x \in Int
  BY DEF Calls, TypeOK, Msg
<1>4. \A d \in Calls : d > e => d > c
  BY <1>2, <1>3 DEF Msg
<1>5. \A d \in Calls : Completed(d) /\ messages[d].input \notin StaleProtected /\ p \in Watched(d)
                       => ~(d > e)
  BY <1>2, <1>3, <1>4
<1>6. \A d \in Calls : Completed(d) /\ messages[d].input = messages[e].input => ~(d > e)
  BY <1>2, <1>5, SameSignature
<1>7. ~Repeated(e)
  BY <1>6 DEF Repeated
<1>8. ~Superseded(e)
  BY <1>2, <1>5 DEF Superseded, TouchedAfter
<1>9. ~Expired(e)
  BY <1>2, OneResult DEF Expired
<1> QED BY <1>2, <1>6, <1>7, <1>8, <1>9 DEF Prunable

\* stale_file_reads finds every superseded call, although it does not look at
\* the calls decided on before.
LEMMA SupersededDecided ==
  ASSUME TypeOK, AnswersInv, NEW done, \A x \in done \cap Calls : Prunable(x),
         NEW c \in Calls, Superseded(c)
  PROVE  c \in Decide(done)
<1> DEFINE deduplicated == done \cup Duplicates(done)
           purged       == deduplicated \cup OldErrors(deduplicated)
<1>1. Decide(done) = purged \cup StaleReads(purged)
  BY DEF Decide
<1>2. \A x \in purged \cap Calls : Prunable(x)
  BY StrategiesPrunable DEF Prunable
<1> HIDE DEF purged
<1>3. ASSUME c \notin purged
      PROVE  c \in StaleReads(purged)
  <2>1. c \in Msg
    BY DEF Calls, TypeOK
  <2>2. ASSUME NEW p \in Watched(c)
        PROVE  \E e \in Calls \ purged :
                 /\ e > c /\ Completed(e) /\ messages[e].input \notin StaleProtected
                 /\ p \in Watched(e)
    <3>1. TouchedAfter(p, c)
      BY DEF Superseded
    <3> QED BY <1>2, <2>1, <3>1, LastOfFile
  <2> QED BY <1>3, <2>2 DEF StaleReads, Superseded
<1> QED BY <1>1, <1>3

\* Decisions that were right so far come to the same as deciding anew.
LEMMA DecideIsPrunable ==
  ASSUME TypeOK, AnswersInv, NEW done, \A x \in done \cap Calls : Prunable(x)
  PROVE  Decide(done) \cap Calls = {c \in Calls : Prunable(c)}
<1>1. ASSUME NEW c \in Decide(done) \cap Calls
      PROVE  Prunable(c)
  BY DecideSplit, StrategiesPrunable DEF Prunable
<1>2. ASSUME NEW c \in Calls, Prunable(c)
      PROVE  c \in Decide(done)
  <2>1. CASE Superseded(c)
    BY <2>1, SupersededDecided
  <2>2. CASE Expired(c)
    <3> DEFINE deduplicated == done \cup Duplicates(done)
    <3>1. c \in deduplicated \/ c \in OldErrors(deduplicated)
      BY <2>2 DEF OldErrors, Expired
    <3> QED BY <3>1 DEF Decide
  <2>3. CASE Repeated(c)
    <3> DEFINE D == {d \in Calls : Completed(d) /\ messages[d].input = messages[c].input}
    <3>1. D \in SUBSET Msg /\ D # {}
      BY <2>3 DEF Repeated, Calls, TypeOK
    <3>2. PICK e \in D : \A x \in D : x <= e
      <4> HIDE DEF D
      <4> QED BY <3>1, LastMessage
    <3>3. e > c /\ \A d \in Calls : Completed(d) /\ messages[d].input = messages[e].input => ~(d > e)
      BY <2>3, <3>1, <3>2 DEF Repeated, Msg, Calls, TypeOK
    <3>4. PathsIn(e) = PathsIn(c) /\ Watched(e) = Watched(c)
      BY <3>2 DEF PathsIn, Watched
    <3>5. CASE c \in done \/ e \notin done
      <4>1. c \in done \/ c \in Duplicates(done)
        BY <2>3, <3>2, <3>3, <3>4, <3>5 DEF Duplicates, Repeated
      <4> QED BY <4>1 DEF Decide
    <3>6. CASE e \in done
      <4>1. ~Repeated(e) /\ ~Expired(e)
        BY <3>2, <3>3, OneResult DEF Repeated, Expired
      <4>2. Superseded(e)
        BY <3>2, <3>6, <4>1 DEF Prunable
      <4>3. Superseded(c)
        <5>1. \A d \in Calls : d > e => d > c
          BY <3>2, <3>3 DEF Calls, TypeOK, Msg
        <5> QED BY <2>3, <3>2, <3>4, <4>2, <5>1 DEF Superseded, Repeated, TouchedAfter
      <4> QED BY <4>3, SupersededDecided
    <3> QED BY <3>5, <3>6
  <2> QED BY <1>2, <2>1, <2>2, <2>3 DEF Prunable
<1> QED BY <1>1, <1>2

----------------------------------------------------------------------------
(***************************************************************************)
(* The age of a call is the number of turns that ended since it was made.  *)
(***************************************************************************)
EndedSince(c) == {a \in Listed : a >= c /\ EndsTurn(a, Listed)}

LEMMA ListedFinite ==
  ASSUME TypeOK, NEW S \in SUBSET Listed
  PROVE  IsFiniteSet(S) /\ Cardinality(S) \in Nat
<1>1. IsFiniteSet(Msg)
  BY MsgFinite
<1> QED BY <1>1, FS_Subset, FS_CardinalityType DEF TypeOK

LEMMA AgeIsTurnsSince ==
  TypeOK /\ OrderInv => \A c \in Calls : Age(c) = Cardinality(EndedSince(c))
<1> SUFFICES ASSUME TypeOK, OrderInv, NEW c \in Calls
             PROVE  Age(c) = Cardinality(EndedSince(c))
  OBVIOUS
<1> DEFINE All    == {a \in Listed : EndsTurn(a, Listed)}
           Before == {a \in {m \in Listed : m < c} : EndsTurn(a, {m \in Listed : m < c})}
<1>0. \A x \in Listed : x \in Int
  BY DEF TypeOK, Msg
<1>1. ASSUME NEW a \in Listed, a < c
      PROVE  EndsTurn(a, {m \in Listed : m < c}) <=> EndsTurn(a, Listed)
  <2>1. messages[a].input # NoInput => \E r \in {m \in Listed : m < c} : Answers(r, a)
    BY <1>1 DEF OrderInv, Calls
  <2> QED BY <2>1 DEF EndsTurn
<1>2. Before \subseteq All /\ EndedSince(c) = All \ Before
  <2>1. Before = {a \in All : a < c}
    BY <1>1
  <2>2. \A a \in Listed : a >= c <=> ~(a < c)
    BY <1>0 DEF Calls
  <2> QED BY <2>1, <2>2 DEF EndedSince
<1>3. IsFiniteSet(All) /\ Cardinality(All) \in Nat /\ Cardinality(Before) \in Nat
  <2>1. All \in SUBSET Listed /\ Before \in SUBSET Listed
    OBVIOUS
  <2> HIDE DEF All, Before
  <2> QED BY <2>1, ListedFinite
<1>4. Cardinality(All \ Before) = Cardinality(All) - Cardinality(All \cap Before)
  <2> HIDE DEF All, Before
  <2> QED BY <1>3, FS_Difference
<1>5. All \cap Before = Before
  BY <1>2
<1>6. Age(c) = Cardinality(All) - Cardinality(Before)
  BY DEF Age, Turns
<1> HIDE DEF All, Before
<1> QED BY <1>2, <1>4, <1>5, <1>6

LEMMA AgeIsTurnsSinceAfter ==
  (TypeOK /\ OrderInv => \A c \in Calls : Age(c) = Cardinality(EndedSince(c)))'
BY AgeIsTurnsSince, PTL

\* A call that was prunable stays so when the later calls stay, with their
\* results, and the turns that ended since.
LEMMA PrunableStays ==
  ASSUME TypeOK, TypeOK', OrderInv, OrderInv', NEW c \in Calls, c \in Calls', Prunable(c),
         messages'[c].input = messages[c].input,
         \A d \in Calls, final \in {"completed", "error"} :
           d >= c /\ HasStatus(d, final) =>
             d \in Calls' /\ messages'[d].input = messages[d].input /\ HasStatus(d, final)',
         EndedSince(c) \subseteq EndedSince(c)'
  PROVE  Prunable(c)'
<1>1. c >= c
  BY DEF Calls, TypeOK, Msg
<1>2. ASSUME NEW d, NEW e, messages'[d].input = messages[e].input
      PROVE  PathsIn(d)' = PathsIn(e) /\ Watched(d)' = Watched(e)
  BY <1>2 DEF PathsIn, Watched
<1>3. (Completed(c) => Completed(c)') /\ (Errored(c) => Errored(c)')
  BY <1>1 DEF Completed, Errored
<1>4. \A d \in Calls : d > c /\ Completed(d) =>
         d \in Calls' /\ messages'[d].input = messages[d].input /\ Completed(d)'
  <2>1. \A d \in Calls : d > c => d >= c
    BY DEF Calls, TypeOK, Msg
  <2> QED BY <2>1 DEF Completed
<1>5. CASE Repeated(c)
  BY <1>2, <1>3, <1>4, <1>5 DEF Repeated, Prunable
<1>6. CASE Superseded(c)
  <2>1. \A p : TouchedAfter(p, c) => TouchedAfter(p, c)'
    BY <1>2, <1>4 DEF TouchedAfter
  <2> QED BY <1>2, <1>3, <1>6, <2>1 DEF Superseded, Prunable
<1>7. CASE Expired(c)
  <2>1. Age(c)' = Cardinality(EndedSince(c)')
    BY AgeIsTurnsSinceAfter
  <2>2. Age(c) = Cardinality(EndedSince(c))
    BY AgeIsTurnsSince
  <2>3. IsFiniteSet(EndedSince(c)') /\ Cardinality(EndedSince(c)') \in Nat
    <3>1. EndedSince(c)' \in SUBSET Listed'
      BY DEF EndedSince
    <3>2. IsFiniteSet(Msg)
      BY MsgFinite
    <3>3. EndedSince(c)' \in SUBSET Msg
      BY <3>1 DEF TypeOK
    <3> QED BY <3>2, <3>3, FS_Subset, FS_CardinalityType
  <2>4. Cardinality(EndedSince(c)) \in Nat
        /\ Cardinality(EndedSince(c)) <= Cardinality(EndedSince(c)')
    BY <2>3, FS_Subset, FS_CardinalityType
  <2>5. Age(c)' >= Age(c) /\ Age(c) \in Int /\ Age(c)' \in Int
    BY <2>1, <2>2, <2>3, <2>4
  <2> QED BY <1>3, <1>7, <2>5, BoundsAssumption DEF Expired, Prunable
<1> QED BY <1>5, <1>6, <1>7 DEF Prunable

----------------------------------------------------------------------------
(***************************************************************************)
(* Every step keeps the order of calls and the prunable calls prunable.    *)
(***************************************************************************)
RebuildInv == IInv /\ OrderInv /\ PrunableInv

LEMMA InitRebuildInv == Init => RebuildInv
BY InitIInv DEF Init, RebuildInv, OrderInv, PrunableInv, Calls, Listed, EmptyFcn

\* The decisions of a transform, whether it dropped the earlier ones or not.
LEMMA DecidedAnew ==
  ASSUME RebuildInv, ~reverted \/ CompactionDetected
  PROVE  Decide(DecidedBefore) \cap Calls = {c \in Calls : Prunable(c)}
<1>1. \A x \in DecidedBefore \cap Calls : Prunable(x)
  BY DEF DecidedBefore, RebuildInv, PrunableInv
<1> QED BY <1>1, DecideIsPrunable DEF RebuildInv, IInv

LEMMA TransformRebuildInv ==
  ASSUME RebuildInv, Transform
  PROVE  RebuildInv'
<1>1. IInv'
  BY TransformIInv DEF RebuildInv
<1>2. messages' = messages /\ Listed' = Listed /\ Calls' = Calls
  BY DEF Transform, Listed, Calls
<1>3. tools' = Decide(DecidedBefore)
  BY DEF Transform
<1>4. OrderInv'
  <2>1. tools' \cap Listed \subseteq Calls
    <3>1. DecidedBefore \subseteq tools
      BY DEF DecidedBefore
    <3> QED BY <1>3, <3>1, DecideCalls DEF RebuildInv, OrderInv
  <2> QED BY <1>2, <2>1 DEF RebuildInv, OrderInv, Answers
<1>5. PrunableInv'
  <2> SUFFICES ASSUME ~reverted'
               PROVE  \A c \in tools' \cap Calls : Prunable(c)'
    BY <1>2 DEF PrunableInv
  <2>1. ~reverted \/ CompactionDetected
    BY DEF Transform
  <2>2. \A c \in tools' \cap Calls : Prunable(c)
    BY <1>3, <2>1, DecidedAnew
  <2>3. \A c : Prunable(c)' <=> Prunable(c)
    BY <1>2 DEF Prunable, Repeated, Superseded, Expired, TouchedAfter, Completed, Errored,
                HasStatus, Answers, Watched, PathsIn, Age, Turns, EndsTurn
  <2> QED BY <2>2, <2>3
<1> QED BY <1>1, <1>4, <1>5 DEF RebuildInv

\* Steps that leave the list and the decisions as they are.
LEMMA ListUntouchedRebuild ==
  ASSUME RebuildInv, IInv', messages' = messages, tools' \subseteq tools, reverted' = reverted
  PROVE  RebuildInv'
<1>1. Listed' = Listed /\ Calls' = Calls
  BY DEF Listed, Calls
<1>2. \A c : Prunable(c)' <=> Prunable(c)
  BY <1>1 DEF Prunable, Repeated, Superseded, Expired, TouchedAfter, Completed, Errored,
              HasStatus, Answers, Watched, PathsIn, Age, Turns, EndsTurn
<1> QED BY <1>1, <1>2 DEF RebuildInv, OrderInv, PrunableInv, Answers

LEMMA AppendRebuildInv ==
  ASSUME RebuildInv, IInv', NEW content \in Content, HostAppend(content),
         \/ content.input = NoInput
         \/ \A c \in Calls : \E r \in Listed : Answers(r, c)
  PROVE  RebuildInv'
<1> DEFINE m == newest + 1
<1> USE DEF RebuildInv
<1>1. /\ m \in Msg /\ m \notin Listed /\ m \notin tools
      /\ \A x \in Listed : x < m
  BY BoundsAssumption DEF HostAppend, IInv, TypeOK, AnswersInv, Msg
<1>2. /\ Listed' = Listed \cup {m}
      /\ messages'[m] = content
      /\ \A x \in Listed : messages'[x] = messages[x]
      /\ tools' = tools /\ reverted' = reverted
  BY <1>1 DEF HostAppend, Listed
<1>3. /\ \A c \in Calls : c \in Calls' /\ messages'[c] = messages[c]
      /\ \A c \in Calls' \ Calls : c = m /\ content.input # NoInput
  BY <1>1, <1>2 DEF Calls
<1>4. OrderInv'
  <2>1. ASSUME NEW a \in Calls', NEW c \in Calls', a < c
        PROVE  \E r \in Listed' : Answers(r, a)' /\ r < c
    <3>1. CASE c \in Calls
      <4>1. a \in Calls
        <5>1. a # m
          BY <1>1, <2>1, <3>1 DEF Calls, IInv, TypeOK, Msg
        <5> QED BY <1>3, <5>1
      <4> QED BY <1>2, <2>1, <3>1, <4>1 DEF OrderInv, Answers
    <3>2. CASE c \notin Calls
      <4>1. c = m /\ content.input # NoInput
        BY <1>3, <3>2
      <4>2. a \in Calls
        <5>1. a # m
          <6> HIDE DEF m
          <6> QED BY <1>1, <2>1, <4>1 DEF Msg
        <5> QED BY <1>3, <5>1
      <4>3. PICK r \in Listed : Answers(r, a)
        BY <4>1, <4>2
      <4> QED BY <1>1, <1>2, <4>1, <4>3 DEF Answers
    <3> QED BY <3>1, <3>2
  <2>2. (tools \cap Listed)' \subseteq Calls'
    BY <1>1, <1>2, <1>3 DEF OrderInv
  <2> QED BY <2>1, <2>2 DEF OrderInv
<1>5. PrunableInv'
  <2> SUFFICES ASSUME ~reverted', NEW c \in tools \cap Calls'
               PROVE  Prunable(c)'
    BY <1>2 DEF PrunableInv
  <2>1. c \in Calls /\ Prunable(c)
    BY <1>1, <1>2, <1>3 DEF PrunableInv
  <2>2. \A d, final : HasStatus(d, final) => HasStatus(d, final)'
    BY <1>2 DEF HasStatus, Answers
  <2>3. EndedSince(c) \subseteq EndedSince(c)'
    BY <1>2 DEF EndedSince, EndsTurn, Answers
  <2> QED BY <1>3, <1>4, <2>1, <2>2, <2>3, PrunableStays DEF IInv
<1> QED BY <1>4, <1>5

LEMMA FinishRebuildInv ==
  ASSUME RebuildInv, IInv', HostFinishes
  PROVE  RebuildInv'
<1> USE DEF RebuildInv
<1>1. PICK r \in Listed, status \in {"completed", "error"} :
        /\ messages[r].status = "running"
        /\ messages' = [messages EXCEPT ![r].status = status]
        /\ tools' = tools /\ reverted' = reverted
  BY DEF HostFinishes
<1>2. /\ Listed' = Listed
      /\ \A x \in Listed \ {r} : messages'[x] = messages[x]
      /\ messages[r] \in Content /\ messages'[r] = [messages[r] EXCEPT !.status = status]
  BY <1>1 DEF Listed, IInv, TypeOK
<1>3. \A x \in Listed : /\ messages'[x].of = messages[x].of
                        /\ messages'[x].input = messages[x].input
                        /\ messages'[x].text = messages[x].text
                        /\ messages'[x].role = messages[x].role
  BY <1>2 DEF Content
<1>4. Calls' = Calls
  BY <1>2, <1>3 DEF Calls
<1>5. OrderInv'
  BY <1>1, <1>2, <1>3, <1>4 DEF OrderInv, Answers
<1>6. PrunableInv'
  <2> SUFFICES ASSUME ~reverted, NEW c \in tools \cap Calls
               PROVE  Prunable(c)'
    BY <1>1, <1>4 DEF PrunableInv
  <2>1. Prunable(c)
    BY DEF PrunableInv
  <2>2. \A d \in Calls, final \in {"completed", "error"} :
           HasStatus(d, final) => HasStatus(d, final)'
    BY <1>1, <1>2, <1>3 DEF HasStatus, Answers
  <2>3. EndedSince(c) \subseteq EndedSince(c)'
    BY <1>2, <1>3 DEF EndedSince, EndsTurn, Answers
  <2>4. \A d \in Calls : d \in Calls' /\ messages'[d].input = messages[d].input
    BY <1>3, <1>4 DEF Calls
  <2>5. \A d \in Calls, final \in {"completed", "error"} :
           d >= c /\ HasStatus(d, final) =>
             d \in Calls' /\ messages'[d].input = messages[d].input /\ HasStatus(d, final)'
    BY <2>2, <2>4
  <2>6. TypeOK /\ TypeOK' /\ OrderInv
    BY DEF IInv
  <2> QED BY <1>5, <2>1, <2>3, <2>4, <2>5, <2>6, PrunableStays
<1> QED BY <1>5, <1>6

LEMMA KeepOrder ==
  ASSUME RebuildInv, NEW kept \in SUBSET Listed, KeepOnly(kept),
         \A a, c \in Calls \cap kept, r \in Listed : a < r /\ r < c => r \in kept
  PROVE  OrderInv'
<1> USE DEF RebuildInv, IInv
<1>1. /\ Listed' = kept /\ tools' = tools
      /\ \A x \in kept : messages'[x] = messages[x]
  BY KeepFacts
<1>2. Calls' = Calls \cap kept
  BY <1>1 DEF Calls
<1>3. ASSUME NEW a \in Calls', NEW c \in Calls', a < c
      PROVE  \E r \in Listed' : Answers(r, a)' /\ r < c
  <2>1. PICK r \in Listed : Answers(r, a) /\ r < c
    BY <1>2, <1>3 DEF OrderInv
  <2>2. a < r
    BY <1>2, <2>1 DEF AnswersInv, Answers, Calls, TypeOK, Msg, NoCall
  <2> QED BY <1>1, <1>2, <2>1, <2>2 DEF Answers
<1>4. (tools \cap Listed)' \subseteq Calls'
  BY <1>1, <1>2 DEF OrderInv
<1> QED BY <1>3, <1>4 DEF OrderInv

\* The answer to a call lies between it and the next one, so a list that is cut
\* at its start holds it if it holds the call.
LEMMA ElideRebuildInv ==
  ASSUME RebuildInv, IInv', HostElide
  PROVE  RebuildInv'
<1> USE DEF RebuildInv, IInv
<1>1. PICK m \in Listed : KeepOnly({x \in Listed : x > m})
  BY DEF HostElide
<1> DEFINE kept == {x \in Listed : x > m}
<1>2. /\ Listed' = kept
      /\ \A x \in kept : messages'[x] = messages[x]
      /\ tools' = tools /\ reverted' = reverted
  BY <1>1, KeepFacts DEF HostElide
<1>3. \A x \in Listed : x \in Int
  BY DEF TypeOK, Msg
<1>4. OrderInv'
  <2>1. \A a \in kept, r \in Listed : a < r => r \in kept
    BY <1>3
  <2> HIDE DEF kept
  <2> QED BY <1>1, <2>1, KeepOrder DEF kept
<1>5. Calls' = Calls \cap kept
  BY <1>2 DEF Calls
<1>6. PrunableInv'
  <2> SUFFICES ASSUME ~reverted, NEW c \in tools \cap Calls, c \in kept
               PROVE  Prunable(c)'
    BY <1>2, <1>5 DEF PrunableInv
  <2>1. Prunable(c)
    BY DEF PrunableInv
  <2>2. \A d \in Listed : d >= c => d \in kept
    BY <1>3
  <2>3. \A d \in Calls, r \in Listed : Answers(r, d) => r > d
    BY DEF AnswersInv, Answers, Calls, TypeOK, Msg, NoCall
  <2>4. \A d \in Calls, r \in Listed : d \in kept /\ Answers(r, d) => r \in kept
    BY <1>3, <2>3 DEF Calls
  <2>5. \A d \in Calls : \A final : d \in kept /\ HasStatus(d, final) => HasStatus(d, final)'
    BY <1>2, <2>4 DEF HasStatus, Answers
  <2>6. EndedSince(c) \subseteq EndedSince(c)'
    BY <1>2, <2>2, <2>4 DEF EndedSince, EndsTurn, Answers, Calls
  <2>7. \A d \in Calls : d >= c => d \in Calls' /\ messages'[d].input = messages[d].input
    BY <1>2, <1>5, <2>2 DEF Calls
  <2>8. \A d \in Calls : d >= c => d \in kept
    BY <2>2 DEF Calls
  <2>9. \A d \in Calls, final \in {"completed", "error"} :
           d >= c /\ HasStatus(d, final) =>
             d \in Calls' /\ messages'[d].input = messages[d].input /\ HasStatus(d, final)'
    BY <2>5, <2>7, <2>8
  <2>10. c \in Calls' /\ messages'[c].input = messages[c].input
    BY <1>2, <1>5
  <2> QED BY <1>4, <2>1, <2>6, <2>9, <2>10, PrunableStays
<1> QED BY <1>4, <1>6

LEMMA RevertRebuildInv ==
  ASSUME RebuildInv, IInv', HostRevert
  PROVE  RebuildInv'
<1> USE DEF RebuildInv, IInv
<1>1. PICK m \in Listed : KeepOnly({x \in Listed : x < m})
  BY DEF HostRevert
<1>2. \A x \in Listed : x \in Int
  BY DEF TypeOK, Msg
<1>3. OrderInv'
  <2>1. \A c \in {x \in Listed : x < m}, r \in Listed : r < c => r \in {x \in Listed : x < m}
    BY <1>2
  <2> QED BY <1>1, <2>1, KeepOrder
<1> QED BY <1>3 DEF HostRevert, PrunableInv

LEMMA StepRebuildInv ==
  ASSUME RebuildInv, [Next]_vars
  PROVE  RebuildInv'
<1>0. IInv'
  BY StepIInv DEF RebuildInv
<1>1. CASE Transform
  BY <1>1, TransformRebuildInv
<1>2. CASE HostSays
  <2>1. PICK shape \in Shapes, input \in Inputs :
          /\ shape # "user" => \A c \in Calls : \E r \in Listed : Answers(r, c)
          /\ HostAppend([role |-> IF shape = "user" THEN "user" ELSE "assistant",
                         text |-> shape # "call",
                         input |-> IF shape \in {"call", "text+call"} THEN input ELSE NoInput,
                         of |-> NoCall, status |-> "none"])
    BY <1>2 DEF HostSays
  <2> DEFINE content == [role |-> IF shape = "user" THEN "user" ELSE "assistant",
                         text |-> shape # "call",
                         input |-> IF shape \in {"call", "text+call"} THEN input ELSE NoInput,
                         of |-> NoCall, status |-> "none"]
  <2>2. content \in Content /\ (shape = "user" => content.input = NoInput)
    BY DEF Content, NoCall
  <2> HIDE DEF content
  <2> QED BY <1>0, <2>1, <2>2, AppendRebuildInv DEF content
<1>3. CASE HostAnswers
  <2>1. PICK c \in Calls, status \in Statuses :
          HostAppend([role |-> "user", text |-> FALSE, input |-> NoInput,
                      of |-> c, status |-> status])
    BY <1>3 DEF HostAnswers
  <2> DEFINE content == [role |-> "user", text |-> FALSE, input |-> NoInput,
                         of |-> c, status |-> status]
  <2>2. content \in Content /\ content.input = NoInput
    BY DEF Content, Calls, RebuildInv, IInv, TypeOK
  <2> HIDE DEF content
  <2> QED BY <1>0, <2>1, <2>2, AppendRebuildInv DEF content
<1>4. CASE HostFinishes
  BY <1>0, <1>4, FinishRebuildInv
<1>5. CASE HostElide
  BY <1>0, <1>5, ElideRebuildInv
<1>6. CASE HostRevert
  BY <1>0, <1>6, RevertRebuildInv
<1>7. CASE ForceApply \/ UpdateConfig \/ Compress \/ Decompress \/ UNCHANGED vars
  <2>1. messages' = messages /\ tools' = tools /\ reverted' = reverted
    BY <1>7 DEF ForceApply, UpdateConfig, Compress, Decompress, vars, hostVars
  <2> QED BY <1>0, <2>1, ListUntouchedRebuild
<1>8. CASE Reset
  <2>1. messages' = messages /\ tools' = {}
    BY <1>8 DEF Reset
  <2>2. Listed' = Listed /\ Calls' = Calls
    BY <2>1 DEF Listed, Calls
  <2> QED BY <1>0, <2>1, <2>2 DEF RebuildInv, OrderInv, PrunableInv, Answers
<1> QED BY <1>1, <1>2, <1>3, <1>4, <1>5, <1>6, <1>7, <1>8 DEF Next

\* rebuild_from_messages: while the host takes no message back, the decisions of
\* a long session about the calls in the list are those of a fresh one.
THEOREM RebuildPrunesSameHolds == Spec => RebuildPrunesSame
<1>1. ASSUME RebuildInv, ~reverted, Transform
      PROVE  tools' \cap Listed = Decide({})
  <2>1. Decide(DecidedBefore) \cap Calls = {c \in Calls : Prunable(c)}
    BY <1>1, DecidedAnew
  <2>2. Decide({}) \cap Calls = {c \in Calls : Prunable(c)}
    BY <1>1, DecideIsPrunable DEF RebuildInv, IInv
  <2>3. Decide({}) \subseteq Calls
    BY DecideCalls
  <2>4. Decide(DecidedBefore) \cap Listed \subseteq Calls
    <3>1. DecidedBefore \subseteq tools
      BY DEF DecidedBefore
    <3> QED BY <1>1, <3>1, DecideCalls DEF RebuildInv, OrderInv
  <2>5. Calls \subseteq Listed
    BY DEF Calls
  <2> QED BY <1>1, <2>1, <2>2, <2>3, <2>4, <2>5 DEF Transform
<1>2. RebuildInv /\ [Next]_vars
        => [~reverted /\ Transform => tools' \cap Listed = Decide({})]_vars
  BY <1>1
<1> QED BY <1>2, InitRebuildInv, StepRebuildInv, PTL DEF Spec, RebuildPrunesSame

----------------------------------------------------------------------------
(***************************************************************************)
(* What goes out of a failed call.                                         *)
(***************************************************************************)

\* A message that no block in force holds goes out with what apply_prune leaves
\* of its tool part.
LEMMA OutsideBlocks ==
  ASSUME BlocksInv', NEW decided, NEW m \in Listed, ToolLeft(m, decided) # "none",
         \A b \in blocks' : m \notin b.direct
  PROVE  /\ m \in DOMAIN Render(decided, blocks')
         /\ Render(decided, blocks')[m].tool = ToolLeft(m, decided)
<1>1. m \in Applied(decided) \ Covered(blocks')
  BY DEF Applied, Covered
<1>2. \A b \in blocks' : b.anchor # m
  BY DEF BlocksInv
<1> QED BY <1>1, <1>2 DEF Render

\* "While keeping the error message": the result of a failed call goes out with
\* its call, whole or purged, unless a block stands for one of them.
THEOREM ErrorStaysVisibleHolds == Spec => ErrorStaysVisible
<1>1. ASSUME IInv, IInv', Transform, NEW c \in Calls, NEW r \in Listed,
             Answers(r, c), messages[r].status = "error",
             \A b \in blocks' : {c, r} \cap b.direct = {}
      PROVE  /\ c \in DOMAIN sent' /\ r \in DOMAIN sent'
             /\ sent'[c].tool # "none" /\ sent'[r].tool = sent'[c].tool
  <2> DEFINE decided == IF GateOpen THEN tools' ELSE {}
  <2>1. sent' = Render(decided, blocks')
    BY <1>1 DEF Transform
  <2>2. CallOf(c) = c /\ CallOf(r) = c /\ c # NoCall /\ c \in Listed
    BY <1>1 DEF CallOf, Calls, Answers, IInv, AnswersInv, TypeOK, Msg, NoCall
  <2>3. Errored(c)
    BY <1>1 DEF Errored, HasStatus
  <2>4. ToolLeft(c, decided) # "none" /\ ToolLeft(r, decided) = ToolLeft(c, decided)
    BY <2>2, <2>3 DEF ToolLeft, PruneKind
  <2> HIDE DEF decided
  <2> QED BY <1>1, <2>1, <2>2, <2>4, OutsideBlocks DEF IInv
<1>2. IInv /\ IInv' /\ [Next]_vars =>
        [Transform =>
           \A c \in Calls, r \in Listed :
             /\ Answers(r, c) /\ messages[r].status = "error"
             /\ \A b \in blocks' : {c, r} \cap b.direct = {}
             => /\ c \in DOMAIN sent' /\ r \in DOMAIN sent'
                /\ sent'[c].tool # "none" /\ sent'[r].tool = sent'[c].tool]_vars
  BY <1>1
<1> QED BY <1>2, InvariantHolds, PTL DEF Spec, ErrorStaysVisible

----------------------------------------------------------------------------
(***************************************************************************)
(* Behind the bridge.                                                      *)
(***************************************************************************)

\* The library sees what the bridge makes of OpenCode's list, a message of which
\* has a call or a text.
BridgeInv ==
  /\ DOMAIN host \subseteq Nat
  /\ host \in [DOMAIN host -> HostMessage]
  /\ \A k \in DOMAIN host : (host[k].input = NoInput) <=> (host[k].call = "none")
  /\ newest \in Nat
  /\ messages = Converted(host)
  /\ blocks \subseteq [anchor : Int, direct : SUBSET Int, form : Forms]
  /\ BlocksInv

\* The two messages of the library a message of the host becomes.
LEMMA ConvertedAt ==
  ASSUME NEW list, DOMAIN list \subseteq Nat, NEW k \in DOMAIN list
  PROVE  /\ Own(k) \in DOMAIN Converted(list) /\ Own(k) \in Int
         /\ Converted(list)[Own(k)] = OwnOf(list[k])
         /\ Ended(list[k]) =>
              /\ Synth(k) \in DOMAIN Converted(list)
              /\ Converted(list)[Synth(k)] = ResultOf(k, list[k].call)
<1>1. k \in Nat
  OBVIOUS
<1>2. HostOf(Own(k)) = k /\ HostOf(Synth(k)) = k
  BY <1>1 DEF HostOf, Own, Synth
<1>3. Synth(k) # Own(k) /\ Own(k) \in Int
  BY <1>1 DEF Own, Synth
<1>4. Own(k) \in Numbers(list) /\ (Ended(list[k]) => Synth(k) \in Numbers(list))
  BY DEF Numbers
<1> QED BY <1>2, <1>3, <1>4 DEF Converted

\* Every number in use is an integer.
LEMMA NumbersAreIntegers ==
  ASSUME NEW list, DOMAIN list \subseteq Nat
  PROVE  DOMAIN Converted(list) \subseteq Int
<1>1. \A k \in DOMAIN list : Own(k) \in Int /\ Synth(k) \in Int
  BY DEF Own, Synth
<1> QED BY <1>1 DEF Converted, Numbers

LEMMA BridgeInitInv == BridgeInit => BridgeInv
<1> SUFFICES ASSUME BridgeInit PROVE BridgeInv
  OBVIOUS
<1>1. DOMAIN EmptyFcn = {}
  BY DEF EmptyFcn
<1>2. Numbers(host) = {}
  BY <1>1 DEF BridgeInit, Numbers
<1>3. messages = Converted(host)
  BY <1>2 DEF BridgeInit, Init, Converted, EmptyFcn
<1>4. host \in [DOMAIN host -> HostMessage]
  BY DEF BridgeInit, EmptyFcn
<1> QED BY <1>1, <1>3, <1>4 DEF BridgeInit, Init, BridgeInv, BlocksInv

\* What OpenCode does to its list, the bridge converts.
LEMMA HostsInv ==
  ASSUME BridgeInv, NEW list, Hosts(list), newest' \in Nat,
         DOMAIN list \subseteq Nat, list \in [DOMAIN list -> HostMessage],
         \A k \in DOMAIN list : (list[k].input = NoInput) <=> (list[k].call = "none")
  PROVE  BridgeInv'
BY DEF BridgeInv, Hosts, BlocksInv, Converted, Numbers, Own, Synth, Ended, HostOf,
       OwnOf, ResultOf, Stub

LEMMA BridgeStepInv == BridgeInv /\ [BridgeNext]_bridgeVars => BridgeInv'
<1> SUFFICES ASSUME BridgeInv, [BridgeNext]_bridgeVars PROVE BridgeInv'
  OBVIOUS
<1> DEFINE Kept == UNCHANGED <<host, messages, newest>> /\ blocks' \subseteq blocks
<1>1. ASSUME Kept PROVE BridgeInv'
  <2>1. host' = host /\ messages' = messages /\ newest' = newest /\ blocks' \subseteq blocks
    BY <1>1
  <2>2. Converted(host)' = Converted(host)
    BY <2>1 DEF Converted, Numbers, Own, Synth, Ended, HostOf, OwnOf, ResultOf, Stub
  <2> QED BY <2>1, <2>2 DEF BridgeInv, BlocksInv
<1>2. CASE BridgeTransform
  BY <1>1, <1>2 DEF BridgeTransform, Transform
<1>3. CASE OpenCodeSays
  <2>1. PICK message \in HostMessage :
          LET k == newest \div 2 + 1
          IN  /\ (message.input = NoInput) <=> (message.call = "none")
              /\ Hosts([j \in DOMAIN host \cup {k} |-> IF j = k THEN message ELSE host[j]])
    BY <1>3 DEF OpenCodeSays
  <2> DEFINE k == newest \div 2 + 1
             list == [j \in DOMAIN host \cup {k} |-> IF j = k THEN message ELSE host[j]]
  <2>2. k \in Nat /\ newest' \in Nat
    BY <1>3 DEF OpenCodeSays, BridgeInv
  <2>3. DOMAIN list \subseteq Nat /\ list \in [DOMAIN list -> HostMessage]
    BY <2>2 DEF BridgeInv
  <2>4. \A j \in DOMAIN list : (list[j].input = NoInput) <=> (list[j].call = "none")
    BY <2>1 DEF BridgeInv
  <2> HIDE DEF list
  <2> QED BY <2>1, <2>2, <2>3, <2>4, HostsInv DEF list
<1>4. CASE OpenCodeFinishes
  <2>1. PICK k \in DOMAIN host, status \in {"completed", "error"} :
          host[k].call = "running" /\ Hosts([host EXCEPT ![k].call = status])
    BY <1>4 DEF OpenCodeFinishes
  <2> DEFINE list == [host EXCEPT ![k].call = status]
  <2>2. /\ DOMAIN list = DOMAIN host
        /\ \A j \in DOMAIN host : /\ list[j] \in HostMessage
                                  /\ (list[j].input = NoInput) <=> (list[j].call = "none")
    BY <2>1 DEF BridgeInv, HostMessage, Statuses
  <2>3. list \in [DOMAIN list -> HostMessage]
    BY <2>2
  <2> HIDE DEF list
  <2>4. newest' \in Nat
    BY <1>4 DEF OpenCodeFinishes, BridgeInv
  <2> QED BY <2>1, <2>2, <2>3, <2>4, HostsInv DEF BridgeInv, list
<1>5. ASSUME NEW kept \in SUBSET DOMAIN host, Hosts([j \in kept |-> host[j]]),
             newest' = newest
      PROVE  BridgeInv'
  BY <1>5, HostsInv DEF BridgeInv
<1>6. CASE OpenCodeCompacts \/ OpenCodeReverts
  <2>1. newest' = newest /\ \E kept \in SUBSET DOMAIN host : Hosts([j \in kept |-> host[j]])
    BY <1>6 DEF OpenCodeCompacts, OpenCodeReverts
  <2> QED BY <1>5, <2>1
<1>7. CASE (ForceApply \/ Decompress) /\ UNCHANGED host
  BY <1>1, <1>7 DEF ForceApply, Decompress, hostVars
<1>8. CASE Compress /\ UNCHANGED host
  <2>1. PICK s \in Listed, e \in Listed, form \in Forms :
          /\ s <= e
          /\ blocks' = blocks \cup {[anchor |-> s,
                                     direct |-> {m \in Listed : s <= m /\ m <= e},
                                     form |-> form]}
    BY <1>8 DEF Compress
  <2> DEFINE b == [anchor |-> s, direct |-> {m \in Listed : s <= m /\ m <= e}, form |-> form]
  <2>2. Listed \subseteq Int
    BY NumbersAreIntegers DEF BridgeInv, Listed
  <2>3. b \in [anchor : Int, direct : SUBSET Int, form : Forms] /\ b.anchor \in b.direct
    <3>1. s \in Int /\ {m \in Listed : s <= m /\ m <= e} \in SUBSET Int
      BY <2>2
    <3>2. s <= s
      BY <3>1
    <3>3. s \in {m \in Listed : s <= m /\ m <= e}
      BY <2>1, <3>2
    <3> QED BY <3>1, <3>3
  <2>4. messages' = messages /\ host' = host /\ newest' = newest
    BY <1>8 DEF Compress, hostVars
  <2>5. Converted(host)' = Converted(host)
    BY <2>4 DEF Converted, Numbers, Own, Synth, Ended, HostOf, OwnOf, ResultOf, Stub
  <2> QED BY <2>1, <2>3, <2>4, <2>5 DEF BridgeInv, BlocksInv
<1>9. CASE UNCHANGED bridgeVars
  BY <1>1, <1>9 DEF bridgeVars, vars, hostVars
<1> QED BY <1>2, <1>3, <1>4, <1>6, <1>7, <1>8, <1>9 DEF BridgeNext

LEMMA BridgeInvariant == BridgeSpec => []BridgeInv
BY BridgeInitInv, BridgeStepInv, PTL DEF BridgeSpec

\* What goes out of a message that makes a call and is in no block: its text as
\* it is, and what apply_prune leaves of the call.
LEMMA CallGoesOut ==
  ASSUME BridgeInv, BridgeInv', BridgeTransform, NEW k \in DOMAIN host,
         host[k].call # "none", ~Folded(Own(k)),
         ToolLeft(Own(k), Applying) # "none"
  PROVE  /\ Own(k) \in DOMAIN sent'
         /\ sent'[Own(k)].tool = ToolLeft(Own(k), Applying)
         /\ sent'[Own(k)].text = (IF host[k].texts > 0 THEN "own" ELSE "none")
<1>1. sent' = Render(Applying, blocks')
  BY DEF BridgeTransform, Transform, Applying
<1>2. Own(k) \in Listed /\ messages[Own(k)] = OwnOf(host[k])
  BY ConvertedAt DEF BridgeInv, Listed
<1>3. messages[Own(k)].text = (host[k].texts > 0)
  BY <1>2 DEF OwnOf, Stub
<1>4. \A b \in blocks' : Own(k) \notin b.direct /\ b.anchor # Own(k)
  BY DEF Folded, BridgeInv, BlocksInv
<1>5. Own(k) \in Applied(Applying) \ Covered(blocks')
  BY <1>2, <1>4 DEF Applied, Covered
<1> HIDE DEF Applying
<1> QED BY <1>1, <1>3, <1>4, <1>5 DEF Render

\* The call of a message of the host is the call of the library's message.
LEMMA CallIsOwn ==
  ASSUME BridgeInv, NEW k \in DOMAIN host, host[k].call # "none"
  PROVE  /\ CallOf(Own(k)) = Own(k) /\ Own(k) # NoCall /\ Own(k) \in Calls
         /\ host[k].call = "error" => Errored(Own(k))
<1>1. Own(k) \in Listed /\ messages[Own(k)] = OwnOf(host[k])
  BY ConvertedAt DEF BridgeInv, Listed
<1>2. messages[Own(k)].input # NoInput
  BY <1>1 DEF OwnOf, BridgeInv
<1>3. Own(k) # NoCall
  BY DEF Own, NoCall, BridgeInv
<1>4. ASSUME host[k].call = "error" PROVE Errored(Own(k))
  <2>1. Synth(k) \in Listed /\ messages[Synth(k)] = ResultOf(k, "error")
    BY <1>4, ConvertedAt DEF Ended, BridgeInv, Listed
  <2> QED BY <2>1 DEF Errored, HasStatus, Answers, ResultOf
<1> QED BY <1>1, <1>2, <1>3, <1>4 DEF CallOf, Calls

\* A message that still has its call is not taken for a summary: merge_one_message
\* hands back the call as the library left it, and every text.
LEMMA CallIsHandedBack ==
  ASSUME NEW handed \in HandedBack, NEW k \in DOMAIN host,
         Own(k) \in DOMAIN sent', sent'[Own(k)].tool # "none", host[k].call # "none"
  PROVE  /\ k \in DOMAIN handed
         /\ handed[k].tool = sent'[Own(k)].tool
         /\ handed[k].first = sent'[Own(k)].text
         /\ handed[k].rest = (host[k].texts = 2)
<1>1. PICK nudged : handed = MergedList(host, sent', nudged)
  BY DEF HandedBack
<1>2. k \in DOMAIN handed /\ handed[k] = Merged(host[k], sent'[Own(k)], Own(k) = nudged)
  BY <1>1 DEF MergedList
<1> QED BY <1>2 DEF Merged, LooksLikeSummary, ToolHanded

\* The merge infers right: a call nobody decided on goes out whole, with all the
\* texts of its message, unless a block stands for it, whichever message was
\* nudged.
THEOREM UndecidedStayWholeHolds == BridgeSpec => UndecidedStayWhole
<1>1. ASSUME BridgeInv, BridgeInv', BridgeTransform,
             NEW k \in DOMAIN host, NEW handed \in HandedBack,
             host[k].call # "none", Own(k) \notin Applying, ~Folded(Own(k))
      PROVE  /\ k \in DOMAIN handed /\ handed[k].tool = "whole"
             /\ handed[k].rest = (host[k].texts = 2)
             /\ handed[k].first = (IF host[k].texts > 0 THEN "own" ELSE "none")
  <2>1. ToolLeft(Own(k), Applying) = "whole"
    BY <1>1, CallIsOwn DEF ToolLeft
  <2>2. /\ Own(k) \in DOMAIN sent' /\ sent'[Own(k)].tool = "whole"
        /\ sent'[Own(k)].text = (IF host[k].texts > 0 THEN "own" ELSE "none")
    BY <1>1, <2>1, CallGoesOut
  <2> QED BY <1>1, <2>2, CallIsHandedBack
<1>2. BridgeInv /\ BridgeInv' /\ [BridgeNext]_bridgeVars =>
        [BridgeTransform =>
           \A k \in DOMAIN host, handed \in HandedBack :
             host[k].call # "none" /\ Own(k) \notin Applying /\ ~Folded(Own(k))
             => /\ k \in DOMAIN handed /\ handed[k].tool = "whole"
                /\ handed[k].rest = (host[k].texts = 2)
                /\ handed[k].first = (IF host[k].texts > 0 THEN "own" ELSE "none")]_bridgeVars
  BY <1>1
<1> QED BY <1>2, BridgeInvariant, PTL DEF BridgeSpec, UndecidedStayWhole

\* "Keeping the error message", as far as the model: a failed call no block stands
\* for is handed back, whole or without its input.
THEOREM ErrorReachesModelHolds == BridgeSpec => ErrorReachesModel
<1>1. ASSUME BridgeInv, BridgeInv', BridgeTransform,
             NEW k \in DOMAIN host, NEW handed \in HandedBack,
             host[k].call = "error", ~Folded(Own(k))
      PROVE  k \in DOMAIN handed /\ handed[k].tool \in {"whole", "purged"}
  <2>1. ToolLeft(Own(k), Applying) \in {"whole", "purged"}
    BY <1>1, CallIsOwn DEF ToolLeft, PruneKind
  <2>2. Own(k) \in DOMAIN sent' /\ sent'[Own(k)].tool = ToolLeft(Own(k), Applying)
    BY <1>1, <2>1, CallGoesOut
  <2> QED BY <1>1, <2>1, <2>2, CallIsHandedBack
<1>2. BridgeInv /\ BridgeInv' /\ [BridgeNext]_bridgeVars =>
        [BridgeTransform =>
           \A k \in DOMAIN host, handed \in HandedBack :
             host[k].call = "error" /\ ~Folded(Own(k))
             => k \in DOMAIN handed /\ handed[k].tool \in {"whole", "purged"}]_bridgeVars
  BY <1>1
<1> QED BY <1>2, BridgeInvariant, PTL DEF BridgeSpec, ErrorReachesModel

\* What a block folded does not come back with the host's copy of it: only the
\* anchor of a block is handed back of its messages, with the summary for its
\* text and without the output of its call.
THEOREM FoldedStaysOutHolds == BridgeSpec => FoldedStaysOut
<1>1. ASSUME BridgeInv', BridgeTransform, NEW handed \in HandedBack,
             NEW k \in DOMAIN handed, Folded(Own(k))
      PROVE  /\ handed[k].tool # "whole" /\ handed[k].first # "own"
             /\ \E b \in blocks' : b.anchor = Own(k)
  <2> DEFINE m == Own(k)
             At == {b \in blocks' : b.anchor = m}
  <2>1. sent' = Render(Applying, blocks')
    BY <1>1 DEF BridgeTransform, Transform, Applying
  <2>2. PICK nudged : handed = MergedList(host, sent', nudged)
    BY DEF HandedBack
  <2>3. m \in DOMAIN sent' /\ handed[k] = Merged(host[k], sent'[m], m = nudged)
    BY <2>2 DEF MergedList
  <2>4. m \in Applied(Applying) \ Covered(blocks')
    <3> HIDE DEF Applying, m
    <3> QED BY <2>1, <2>3 DEF Render
  <2>5. PICK b \in blocks' : m \in b.direct
    BY <1>1 DEF Folded
  <2>6. b.anchor = m
    BY <2>4, <2>5 DEF Covered
  <2>7. CallOf(m) \in ToolsOf(b)
    BY <2>4, <2>5 DEF ToolsOf, Applied
  <2>8. sent'[m].tool = "none"
    <3> HIDE DEF Applying, m
    <3> QED BY <2>1, <2>4, <2>6, <2>7 DEF Render
  <2>9. sent'[m].text = Stripped((CHOOSE c \in At : TRUE).form)
    <3>1. At # {}
      BY <2>6
    <3> HIDE DEF Applying, m
    <3> QED BY <2>1, <2>4, <3>1 DEF Render
  <2>10. sent'[m].text # "own"
    <3>1. (CHOOSE c \in At : TRUE) \in At
      BY <2>6
    <3>2. (CHOOSE c \in At : TRUE).form \in {"bare", "summary", "block"}
      BY <1>1, <3>1, InputAssumption DEF BridgeInv
    <3> QED BY <2>9, <3>2 DEF Stripped
  <2> QED BY <2>3, <2>6, <2>8, <2>10 DEF Merged, ToolHanded
<1>2. BridgeInv /\ BridgeInv' /\ [BridgeNext]_bridgeVars =>
        [BridgeTransform =>
           \A handed \in HandedBack : \A k \in DOMAIN handed :
             Folded(Own(k)) =>
               /\ handed[k].tool # "whole" /\ handed[k].first # "own"
               /\ \E b \in blocks' : b.anchor = Own(k)]_bridgeVars
  BY <1>1
<1> QED BY <1>2, BridgeInvariant, PTL DEF BridgeSpec, FoldedStaysOut

============================================================================
