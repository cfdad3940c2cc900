------------------------- MODULE PluginSessionProofs -------------------------
(***************************************************************************)
(* Proofs about the session of the OpenCode plugin, for any number of      *)
(* sessions, handlers, compactions and crashes: as long as no two handlers *)
(* were under way at the same time, what a session decided stays with it,  *)
(* in memory, in its file and in its requests, and memory and file agree   *)
(* whenever nothing is under way, but for what a call that threw had       *)
(* pruned and unless a save or a read has failed.  The argument: a handler *)
(* that goes on after an await finds its own session in memory, since only *)
(* a handler that starts brings another one; and the one write that may be *)
(* under way holds what the session in memory has decided.                 *)
(***************************************************************************)
EXTENDS PluginSession, TLAPS

State == [sid : Sessions \cup {NoSession}, manual : Modes,
          items : SUBSET Item, lastCompaction : 0..MaxCompactions]

SentType == sent.of \in Sessions \cup {NoSession} /\ sent.items \subseteq Item

\* A handler that reads a session's file finds some session in memory.
LoadInv == \A t \in Tasks : task[t].wait \in {"parent", "load"} => state.sid \in Sessions

\* A handler whose write is under way waits for it.
WriterInv == \A t \in Tasks : write[t] # NoWrite => task[t].wait = "write"

TypeInv == TypeOK /\ LoadInv /\ WriterInv

----------------------------------------------------------------------------
(***************************************************************************)
(* Types.                                                                  *)
(***************************************************************************)

LEMMA FreshType ==
  ASSUME NEW s \in Sessions \cup {NoSession}, NEW m \in Modes
  PROVE  Fresh(s, m) \in State
BY SessionAssumption DEF Fresh, State

LEMMA ModeType == \A enabled : Mode(enabled) \in Modes
BY DEF Mode, Modes

LEMMA SnapshotType ==
  ASSUME NEW st \in State, NEW s \in Sessions, NEW manual \in BOOLEAN,
         NEW items \in SUBSET Item
  PROVE  /\ Snapshot(st) \in Files
         /\ Saved(manual, items) \in Files
         /\ SaveOf(s, Snapshot(st)) \in Write
         /\ SaveOf(s, Saved(manual, items)) \in Write
<1>1. (st.manual # "off") \in BOOLEAN /\ st.items \in SUBSET Item
  BY DEF State
<1>2. Saved(manual, items) \in Files
  BY DEF Saved, Files
<1>3. Snapshot(st) \in Files
  BY <1>1 DEF Snapshot, Saved, Files
<1> QED BY <1>2, <1>3 DEF SaveOf, Write

LEMMA LoadedType ==
  ASSUME NEW st \in State, NEW f \in Files
  PROVE  Loaded(st, f) \in State /\ Loaded(st, f).sid = st.sid
BY ModeType DEF Loaded, State, Files

LEMMA ClearedType ==
  ASSUME NEW st \in State, NEW seen \in 0..MaxCompactions
  PROVE  /\ Cleared(st, seen) \in State
         /\ Cleared(st, seen).sid = st.sid
         /\ Cleared(st, seen).manual = st.manual
BY DEF Cleared, State

LEMMA MadeType ==
  ASSUME NEW k \in Task, NEW what \in {"pruned", "block"}
  PROVE  Made(k, what) \in Item /\ Made(k, what).of = k.of
BY DEF Made, Task, Item

LEMMA SeenType ==
  ASSUME TypeOK, NEW s \in Sessions
  PROVE  Seen(s) \in 0..MaxCompactions
BY SessionAssumption DEF TypeOK, Seen

LEMMA ReadType ==
  ASSUME TypeOK, NEW s \in Sessions, NEW f \in Read(s)
  PROVE  f \in Files
<1>1. NoFile \in Files
  BY DEF NoFile, Files
<1>2. file[s] \in Files
  BY DEF TypeOK
<1> QED BY <1>1, <1>2 DEF Read

LEMMA HandlerType ==
  ASSUME TypeOK, NEW s \in Sessions, NEW kind \in Kinds, starts < MaxStarts
  PROVE  /\ Handler(kind, s) \in Task
         /\ Handler(kind, s).of = s /\ Handler(kind, s).kind = kind
         /\ starts + 1 \in 0..MaxStarts
<1>1. starts + 1 \in 1..MaxStarts
  BY SessionAssumption DEF TypeOK
<1> QED BY <1>1, SeenType DEF Handler, Task, Waits

\* What is left of the tasks when one of them waits for something else, or ends.
LEMMA WaitingType ==
  ASSUME TypeOK, NEW t \in Tasks, NEW k \in Task, NEW at \in Waits, Waiting(t, k, at)
  PROVE  /\ task' \in [Tasks -> Task \cup {Idle}]
         /\ \A u \in Tasks \ {t} : task'[u] = task[u]
         /\ task'[t] \in Task /\ task'[t] # Idle /\ task'[t].wait = at
         /\ task'[t].of = k.of /\ task'[t].kind = k.kind /\ task'[t].n = k.n
<1> DEFINE b == [k EXCEPT !.wait = at]
<1>1. b \in Task /\ b # Idle /\ b.wait = at /\ b.of = k.of /\ b.kind = k.kind /\ b.n = k.n
  BY DEF Task, Idle, Waits
<1>2. task' = [task EXCEPT ![t] = b]
  BY DEF Waiting
<1> HIDE DEF b
<1> QED BY <1>1, <1>2 DEF TypeOK

LEMMA EndingType ==
  ASSUME TypeOK, NEW t \in Tasks, Ending(t)
  PROVE  /\ task' \in [Tasks -> Task \cup {Idle}]
         /\ \A u \in Tasks \ {t} : task'[u] = task[u]
         /\ task'[t] = Idle /\ task'[t].wait = "idle"
<1>1. Idle.wait = "idle"
  BY DEF Idle
<1> QED BY <1>1 DEF Ending, TypeOK

LEMMA MayLeaveSaveType ==
  ASSUME TypeOK, NEW st \in State, MayLeaveSave(st)
  PROVE  /\ write' \in [Writers -> Write \cup {NoWrite}]
         /\ \A u \in Tasks : write'[u] = write[u]
<1>1. CASE write' = write
  BY <1>1 DEF TypeOK
<1>2. CASE /\ st.sid # NoSession
           /\ write' = [write EXCEPT ![st.sid] = SaveOf(st.sid, Snapshot(st))]
  <2>1. st.sid \in Sessions
    BY <1>2 DEF State
  <2>2. SaveOf(st.sid, Snapshot(st)) \in Write
    BY <2>1, SnapshotType
  <2> QED BY <1>2, <2>1, <2>2, SessionAssumption DEF TypeOK, Writers
<1> QED BY <1>1, <1>2 DEF MayLeaveSave

LEMMA SentOfType ==
  ASSUME TypeOK, NEW k \in Task, NEW st \in State
  PROVE  /\ SentOf(k, st).of \in Sessions \cup {NoSession}
         /\ SentOf(k, st).items \subseteq Item
BY DEF TypeOK, SentOf, Task, State

\* What a handler does until its next await leaves the types as they are.
LEMMA ArriveType ==
  ASSUME TypeOK, NEW t \in Tasks, NEW k \in Task, NEW st \in State,
         st.sid \in Sessions, Arrive(t, k, st)
  PROVE  /\ state' \in State /\ state'.sid = st.sid
         /\ task' \in [Tasks -> Task \cup {Idle}]
         /\ \A u \in Tasks \ {t} : task'[u] = task[u]
         /\ task'[t] = Idle \/ (task'[t] \in Task /\ task'[t].of = k.of
                                /\ task'[t].kind = k.kind /\ task'[t].n = k.n)
         /\ task'[t].wait \in {"idle", "manual", "work", "tell"}
         /\ write' \in [Writers -> Write \cup {NoWrite}]
         /\ \A u \in Tasks : write'[u] = write[u]
         /\ SentType' /\ thrown' \subseteq Item
<1>0. k.of \in Sessions /\ k.seen \in 0..MaxCompactions
      /\ {"manual", "work", "tell"} \subseteq Waits /\ SentType /\ thrown \subseteq Item
      /\ write \in [Writers -> Write \cup {NoWrite}]
  BY DEF Task, Waits, TypeOK, SentType
<1>1. CASE ArriveRequest(t, k, st)
  <2>1. state' \in State /\ state'.sid = st.sid
    BY <1>0, <1>1, ClearedType DEF ArriveRequest
  <2>2. SaveOf(st.sid, Snapshot(state')) \in Write
    BY <2>1, SnapshotType DEF TypeOK
  <2>3. write' \in [Writers -> Write \cup {NoWrite}] /\ \A u \in Tasks : write'[u] = write[u]
    <3>1. CASE write' = [write EXCEPT ![k.of] = SaveOf(st.sid, Snapshot(state'))]
      BY <1>0, <2>2, <3>1, SessionAssumption DEF Writers
    <3>2. CASE MayLeaveSave(st) \/ write' = write
      BY <1>0, <3>2, MayLeaveSaveType
    <3> QED BY <1>1, <3>1, <3>2 DEF ArriveRequest
  <2>4. CASE Ending(t) /\ sent' = SentOf(k, state')
    BY <1>0, <1>1, <2>1, <2>3, <2>4, EndingType, SentOfType DEF ArriveRequest, SentType
  <2>5. CASE Waiting(t, k, "manual") /\ sent' = sent
    BY <1>0, <1>1, <2>1, <2>3, <2>5, WaitingType DEF ArriveRequest, SentType
  <2> QED BY <1>1, <2>4, <2>5 DEF ArriveRequest
<1>2. CASE ArriveCompress(t, k, st)
  <2>1. Made(k, "pruned") \in Item
    BY MadeType
  <2>2. state' \in State /\ state'.sid = st.sid /\ thrown' \subseteq Item
        /\ write' = write /\ sent' = sent
    BY <1>0, <1>2, <2>1 DEF ArriveCompress, State
  <2>3. CASE Ending(t)
    BY <1>0, <2>2, <2>3, EndingType DEF SentType
  <2>4. CASE Waiting(t, k, "work")
    BY <1>0, <2>2, <2>4, WaitingType DEF SentType
  <2> QED BY <1>2, <2>3, <2>4 DEF ArriveCompress
<1>3. ASSUME UNCHANGED <<write, sent, thrown>>,
             \/ state' = st
             \/ state' = [st EXCEPT !.manual = Mode(@ = "off")]
             \/ state' = [st EXCEPT !.manual = "pending"],
             Waiting(t, k, "tell") \/ Ending(t)
      PROVE  /\ state' \in State /\ state'.sid = st.sid
             /\ task' \in [Tasks -> Task \cup {Idle}]
             /\ \A u \in Tasks \ {t} : task'[u] = task[u]
             /\ task'[t] = Idle \/ (task'[t] \in Task /\ task'[t].of = k.of
                                    /\ task'[t].kind = k.kind /\ task'[t].n = k.n)
             /\ task'[t].wait \in {"idle", "manual", "work", "tell"}
             /\ write' \in [Writers -> Write \cup {NoWrite}]
             /\ \A u \in Tasks : write'[u] = write[u]
             /\ SentType' /\ thrown' \subseteq Item
  <2>1. state' \in State /\ state'.sid = st.sid
    BY <1>3, ModeType DEF State, Modes
  <2>2. CASE Ending(t)
    BY <1>0, <1>3, <2>1, <2>2, EndingType DEF SentType
  <2>3. CASE Waiting(t, k, "tell")
    BY <1>0, <1>3, <2>1, <2>3, WaitingType DEF SentType
  <2> QED BY <1>3, <2>2, <2>3
<1> QED BY <1>1, <1>2, <1>3 DEF Arrive

LEMMA EnsureSessionType ==
  ASSUME TypeOK, NEW t \in Tasks, NEW k \in Task, EnsureSession(t, k)
  PROVE  /\ state' \in State /\ state'.sid \in Sessions
         /\ task' \in [Tasks -> Task \cup {Idle}]
         /\ \A u \in Tasks \ {t} : task'[u] = task[u]
         /\ write' \in [Writers -> Write \cup {NoWrite}]
         /\ \A u \in Tasks : write'[u] = write[u]
         /\ SentType' /\ thrown' \subseteq Item /\ behind' \in BOOLEAN
<1>0. k.of \in Sessions /\ "parent" \in Waits
  BY DEF Task, Waits
<1>1. CASE state.sid = k.of /\ Arrive(t, k, state) /\ UNCHANGED behind
  BY <1>0, <1>1, ArriveType DEF TypeOK, State
<1>2. CASE /\ state' = Begun(k.of) /\ behind' = FALSE
           /\ Waiting(t, k, "parent")
           /\ UNCHANGED <<write, sent, thrown>>
  <2>1. state' \in State /\ state'.sid \in Sessions
    BY <1>0, <1>2, ModeType, FreshType DEF Begun, Fresh
  <2> QED BY <1>0, <1>2, <2>1, WaitingType DEF TypeOK, SentType
<1> QED BY <1>1, <1>2 DEF EnsureSession

LEMMA InitTypeInv == Init => TypeInv
<1> SUFFICES ASSUME Init
             PROVE  TypeInv
  OBVIOUS
<1>1. state \in State
  BY FreshType DEF Init, Modes
<1>2. NoFile \in Files /\ 0 \in 0..MaxCompactions /\ 0 \in 0..MaxStarts /\ 0 \in 0..MaxCrashes
  BY SessionAssumption DEF NoFile, Files
<1>3. raced \in BOOLEAN /\ behind \in BOOLEAN /\ thrown \subseteq Item
  BY DEF Init
<1>4. cut \subseteq Sessions /\ sent.of \in Sessions \cup {NoSession} /\ sent.items \subseteq Item
  BY DEF Init
<1> QED BY <1>1, <1>2, <1>3, <1>4
        DEF Init, TypeInv, LoadInv, WriterInv, Writers, TypeOK, State, Idle

\* Every start of a handler, every continuation and every step of a write.
LEMMA StartType ==
  ASSUME TypeInv, NEW t \in Tasks, NEW s \in Sessions,
         \/ Request(t, s)
         \/ \E u \in Tasks, asked \in BOOLEAN : RequestV2(t, u, s, asked)
         \/ \E kind \in Kinds : Call(t, s, kind)
  PROVE  TypeInv'
<1> USE DEF TypeInv
<1>0. task[t].wait = "idle" /\ write[t] = NoWrite
  BY DEF Request, RequestV2, Call, MayStart, Idle, WriterInv
<1>1. CASE Request(t, s)
  <2>1. Handler("request", s) \in Task /\ starts' \in 0..MaxStarts
    BY <1>1, HandlerType DEF Request, MayStart
  <2>2. raced' \in BOOLEAN
    BY <1>1 DEF Request, TypeOK
  <2>3. /\ state' \in State /\ state'.sid \in Sessions
        /\ task' \in [Tasks -> Task \cup {Idle}]
        /\ \A u \in Tasks \ {t} : task'[u] = task[u]
        /\ write' \in [Writers -> Write \cup {NoWrite}]
        /\ \A u \in Tasks : write'[u] = write[u]
        /\ SentType' /\ thrown' \subseteq Item /\ behind' \in BOOLEAN
    BY <1>1, <2>1, EnsureSessionType DEF Request
  <2>4. TypeOK'
    BY <1>1, <2>1, <2>2, <2>3 DEF Request, TypeOK, State, SentType
  <2>5. LoadInv' /\ WriterInv'
    BY <1>0, <2>3 DEF LoadInv, WriterInv
  <2> QED BY <2>4, <2>5
<1>2. ASSUME NEW u \in Tasks, NEW asked \in BOOLEAN, RequestV2(t, u, s, asked)
      PROVE  TypeInv'
  <2> DEFINE k  == Handler("request", s)
             st == IF state.sid = s THEN state ELSE Begun(s)
  <2>1. k \in Task /\ starts' \in 0..MaxStarts
    BY <1>2, HandlerType DEF RequestV2, MayStart
  <2>2. st \in State
    BY ModeType, FreshType DEF Begun, TypeOK, State
  <2>3. state' \in State /\ state'.sid \in Sessions
    BY <1>2, <2>2 DEF RequestV2, State, Modes, Begun, Fresh
  <2>4. [k EXCEPT !.wait = "manual"] \in Task
        /\ [k EXCEPT !.wait = "parent", !.kind = "init"] \in Task
    BY <2>1 DEF Task, Waits
  <2>5. task' \in [Tasks -> Task \cup {Idle}]
    <3>1. task' = [task EXCEPT
              ![t] = IF state'.manual = "pending" THEN Idle ELSE [k EXCEPT !.wait = "manual"],
              ![u] = IF state.sid = s THEN @ ELSE [k EXCEPT !.wait = "parent", !.kind = "init"]]
      BY <1>2 DEF RequestV2
    <3> HIDE DEF k
    <3> QED BY <2>4, <3>1 DEF TypeOK
  <2>5a. \A v \in Tasks : task'[v] = task[v] \/ task[v].wait = "idle"
    <3>1. \A v \in Tasks \ {t, u} : task'[v] = task[v]
      BY <1>2 DEF RequestV2, TypeOK
    <3>2. task[u].wait = "idle" \/ task'[u] = task[u]
      BY <1>2 DEF RequestV2, TypeOK, Idle
    <3> QED BY <1>0, <3>1, <3>2
  <2>6. raced' \in BOOLEAN /\ behind' \in BOOLEAN
    BY <1>2 DEF RequestV2, TypeOK
  <2>7. sent'.of \in Sessions \cup {NoSession} /\ sent'.items \subseteq Item
    BY <1>2 DEF RequestV2
  <2>8. write' \in [Writers -> Write \cup {NoWrite}] /\ \A v \in Tasks : write'[v] = write[v]
    <3>1. MayLeaveSave(state') \/ write' = write
      BY <1>2 DEF RequestV2
    <3> QED BY <2>3, <3>1, MayLeaveSaveType DEF TypeOK
  <2>9. TypeOK'
    BY <1>2, <2>1, <2>3, <2>5, <2>6, <2>7, <2>8 DEF RequestV2, TypeOK, State
  <2>10. LoadInv' /\ WriterInv'
    BY <2>3, <2>5a, <2>8 DEF LoadInv, WriterInv
  <2> QED BY <2>9, <2>10
<1>3. ASSUME NEW kind \in Kinds, Call(t, s, kind)
      PROVE  TypeInv'
  <2>1. Handler(kind, s) \in Task /\ starts' \in 0..MaxStarts
    BY <1>3, HandlerType DEF Call, MayStart
  <2>2. PICK at \in {"manual", "ask", "fetch"} : Waiting(t, Handler(kind, s), at)
    BY <1>3 DEF Call, AfterMode
  <2>3. at \in Waits
    BY DEF Waits
  <2>4. raced' \in BOOLEAN
    BY <1>3 DEF Call, TypeOK
  <2>5. /\ task' \in [Tasks -> Task \cup {Idle}] /\ task'[t].wait = at
        /\ \A u \in Tasks \ {t} : task'[u] = task[u]
    BY <2>1, <2>2, <2>3, WaitingType
  <2>6. UNCHANGED <<host, compactions, crashes, state, file, write, sent, thrown, behind, cut>>
    BY <1>3 DEF Call
  <2>7. TypeOK'
    BY <2>1, <2>4, <2>5, <2>6 DEF TypeOK
  <2>8. LoadInv' /\ WriterInv'
    BY <1>0, <2>5, <2>6 DEF LoadInv, WriterInv
  <2> QED BY <2>7, <2>8
<1> QED BY <1>1, <1>2, <1>3

\* A handler that waits is a task, whatever it waits for.
LEMMA AtTask ==
  ASSUME TypeOK, NEW t \in Tasks, NEW wait \in Waits, At(t, wait)
  PROVE  task[t] \in Task /\ task[t].of \in Sessions /\ task[t] # Idle /\ task[t].wait = wait
BY DEF TypeOK, At, Idle, Waits, Task

\* Where a handler goes on in the session that is in memory, and no file changes.
LEMMA GoOnType ==
  ASSUME TypeInv, NEW t \in Tasks, UNCHANGED <<hostVars, file, raced, cut>>,
         state' \in State,
         state'.sid = state.sid \/ state'.sid \in Sessions,
         task' \in [Tasks -> Task \cup {Idle}],
         write' \in [Writers -> Write \cup {NoWrite}],
         SentType', thrown' \subseteq Item, behind' \in BOOLEAN,
         \A u \in Tasks \ {t} : task'[u] = task[u] /\ write'[u] = write[u],
         task[t].wait # "write", write'[t] = write[t] \/ task'[t].wait = "write",
         task'[t].wait \in {"parent", "load"} =>
           state'.sid \in Sessions \/ task[t].wait \in {"parent", "load"}
  PROVE  TypeInv'
<1>1. TypeOK'
  BY DEF TypeInv, TypeOK, State, hostVars, SentType
<1>2. LoadInv' /\ WriterInv'
  BY DEF TypeInv, LoadInv, WriterInv
<1> QED BY <1>1, <1>2 DEF TypeInv

LEMMA ContinueType ==
  ASSUME TypeInv, NEW t \in Tasks, Continue(t) \/ Allowed(t) \/ Throws(t)
  PROVE  TypeInv'
<1> USE DEF TypeInv
<1>0. /\ state \in State /\ SentType /\ thrown \subseteq Item /\ behind \in BOOLEAN
      /\ write \in [Writers -> Write \cup {NoWrite}]
  BY DEF TypeOK, State, SentType
<1>00. task[t].wait # "write"
  BY DEF Continue, Allowed, Throws, Fetched, ParentKnown, FileRead, ManualRead, Commit, Told,
         Merged, At
<1>1. CASE Fetched(t)
  <2>1. task[t] \in Task
    BY <1>1, AtTask DEF Fetched, Waits
  <2>2. [task[t] EXCEPT !.seen = Seen(task[t].of)] \in Task
    BY <2>1, SeenType DEF Task
  <2> QED BY <1>0, <1>00, <1>1, <2>2, EnsureSessionType, GoOnType DEF Fetched
<1>2. CASE ParentKnown(t)
  <2>1. task[t] \in Task /\ task[t].seen \in 0..MaxCompactions /\ task[t].wait = "parent"
        /\ "load" \in Waits
    BY <1>2, AtTask DEF ParentKnown, Waits, Task
  <2>2. state' \in State /\ state'.sid = state.sid
    BY <1>0, <1>2, <2>1 DEF ParentKnown, State
  <2>3. UNCHANGED <<hostVars, file, write, sent, history>> /\ Waiting(t, task[t], "load")
    BY <1>2 DEF ParentKnown
  <2>4. /\ task' \in [Tasks -> Task \cup {Idle}]
        /\ (\A u \in Tasks \ {t} : task'[u] = task[u]) /\ task'[t].wait = "load"
    BY <2>1, <2>3, WaitingType
  <2> QED BY <1>0, <1>00, <2>1, <2>2, <2>3, <2>4, GoOnType DEF history, SentType
<1>3. CASE FileRead(t)
  <2>1. task[t] \in Task /\ task[t].of \in Sessions /\ state.sid \in Sessions
    BY <1>3, AtTask DEF FileRead, Waits, At, LoadInv
  <2>2. PICK f \in Read(task[t].of) :
          Arrive(t, task[t], Loaded(state, f)) /\ behind' = (behind \/ f # file[task[t].of])
    BY <1>3 DEF FileRead
  <2>3. f \in Files
    BY <2>1, ReadType
  <2>4. Loaded(state, f) \in State /\ Loaded(state, f).sid = state.sid
    BY <1>0, <2>3, LoadedType
  <2>5. UNCHANGED <<hostVars, file, raced, cut>> /\ behind' \in BOOLEAN
    BY <1>0, <1>3, <2>2 DEF FileRead
  <2> QED BY <1>00, <2>1, <2>2, <2>4, <2>5, ArriveType, GoOnType
<1>4. CASE ManualRead(t)
  <2>1. task[t] \in Task /\ task[t].of \in Sessions /\ {"ask", "fetch"} \subseteq Waits
    BY <1>4, AtTask DEF ManualRead, Waits
  <2>2. state' \in State /\ state'.sid = state.sid
    BY <1>0, <1>4, ModeType DEF ManualRead, State
  <2>3. UNCHANGED <<hostVars, file, raced, cut, thrown, behind>>
    BY <1>4 DEF ManualRead, history
  <2>4. CASE Ending(t) /\ sent' = SentOf(task[t], state') /\ MayLeaveSave(state')
    BY <1>0, <1>00, <2>1, <2>2, <2>3, <2>4, EndingType, SentOfType, MayLeaveSaveType, GoOnType
       DEF SentType
  <2>5. CASE Ending(t) /\ UNCHANGED <<write, sent>>
    BY <1>0, <1>00, <2>1, <2>2, <2>3, <2>5, EndingType, GoOnType DEF SentType
  <2>6. CASE Waiting(t, task[t], AfterMode) /\ UNCHANGED <<write, sent>>
    <3>1. AfterMode \in Waits /\ AfterMode \notin {"parent", "load"}
      BY DEF AfterMode, Waits
    <3>2. /\ task' \in [Tasks -> Task \cup {Idle}]
          /\ (\A u \in Tasks \ {t} : task'[u] = task[u]) /\ task'[t].wait = AfterMode
      BY <2>1, <2>6, <3>1, WaitingType
    <3> QED BY <1>0, <1>00, <2>2, <2>3, <2>6, <3>1, <3>2, GoOnType DEF SentType
  <2> QED BY <1>4, <2>4, <2>5, <2>6 DEF ManualRead
<1>5. CASE Commit(t)
  <2>1. task[t] \in Task /\ {"tell", "write"} \subseteq Waits
    BY <1>5, AtTask DEF Commit, Waits
  <2>2. Made(task[t], "block") \in Item
    BY <2>1, MadeType
  <2>3. state' \in State /\ state'.sid = state.sid
    BY <1>0, <1>5, <2>2 DEF Commit, State, Modes
  <2>4. UNCHANGED <<hostVars, file, sent, raced, cut, thrown, behind>>
    BY <1>5 DEF Commit, history
  <2>5. CASE state.sid = NoSession
    <3>1. Waiting(t, task[t], "tell") /\ write' = write
      BY <1>5, <2>5 DEF Commit
    <3> QED BY <1>0, <1>00, <2>1, <2>3, <2>4, <3>1, WaitingType, GoOnType DEF SentType
  <2>6. CASE state.sid \in Sessions
    <3>1. Waiting(t, task[t], "write")
          /\ write' = [write EXCEPT ![t] = SaveOf(state.sid, Snapshot(state'))]
      BY <1>5, <2>6, SessionAssumption DEF Commit
    <3>2. SaveOf(state.sid, Snapshot(state')) \in Write
      BY <2>3, <2>6, SnapshotType
    <3>3. /\ write' \in [Writers -> Write \cup {NoWrite}]
          /\ \A u \in Tasks \ {t} : write'[u] = write[u]
      BY <1>0, <3>1, <3>2 DEF Writers
    <3> QED BY <1>0, <1>00, <2>1, <2>3, <2>4, <3>1, <3>3, WaitingType, GoOnType DEF SentType
  <2> QED BY <1>0, <2>5, <2>6 DEF State
<1>6. CASE Told(t)
  <2>1. task[t] \in Task /\ "merge" \in Waits
    BY <1>6, AtTask DEF Told, Waits
  <2> DEFINE k == [task[t] EXCEPT !.manual = (state.manual # "off")]
  <2>2. k \in Task
    BY <2>1 DEF Task
  <2>3. UNCHANGED <<hostVars, state, file, write, sent, raced, cut, thrown, behind>>
    BY <1>6 DEF Told, history
  <2>4. Ending(t) \/ Waiting(t, k, "merge")
    BY <1>6 DEF Told
  <2> HIDE DEF k
  <2> QED BY <1>0, <1>00, <2>1, <2>2, <2>3, <2>4, EndingType, WaitingType, GoOnType DEF SentType
<1>7. CASE Merged(t)
  <2>1. task[t] \in Task /\ task[t].of \in Sessions /\ task[t].manual \in BOOLEAN
        /\ "write" \in Waits
    BY <1>7, AtTask DEF Merged, Waits, Task
  <2>2. PICK f \in Read(task[t].of) :
          /\ write' = [write EXCEPT ![t] = SaveOf(task[t].of, Saved(task[t].manual, f.items))]
          /\ behind' = (behind \/ f # file[task[t].of])
    BY <1>7 DEF Merged
  <2>3. f.items \in SUBSET Item
    BY <2>1, ReadType DEF Files
  <2>4. SaveOf(task[t].of, Saved(task[t].manual, f.items)) \in Write
    BY <1>0, <2>1, <2>3, SnapshotType
  <2>5. /\ write' \in [Writers -> Write \cup {NoWrite}] /\ behind' \in BOOLEAN
        /\ \A u \in Tasks \ {t} : write'[u] = write[u]
    BY <1>0, <2>2, <2>4 DEF Writers
  <2>6. UNCHANGED <<hostVars, state, file, sent, raced, cut, thrown>> /\ Waiting(t, task[t], "write")
    BY <1>7 DEF Merged
  <2> QED BY <1>0, <1>00, <2>1, <2>5, <2>6, WaitingType, GoOnType DEF SentType
<1>8. CASE Allowed(t)
  <2>1. task[t] \in Task /\ "fetch" \in Waits
    BY <1>8, AtTask DEF Allowed, Waits
  <2> QED BY <1>0, <1>00, <1>8, <2>1, WaitingType, GoOnType DEF Allowed, history, SentType
<1>9. CASE Throws(t)
  <2>1. thrown' \subseteq Item
    <3>1. CASE At(t, "work")
      <4>1. Made(task[t], "pruned") \in Item
        BY <3>1, AtTask, MadeType DEF Waits
      <4> QED BY <1>0, <1>9, <4>1 DEF Throws
    <3>2. CASE ~At(t, "work")
      BY <1>0, <1>9, <3>2 DEF Throws
    <3> QED BY <3>1, <3>2
  <2> QED BY <1>0, <1>00, <1>9, <2>1, EndingType, GoOnType DEF Throws, SentType
<1> QED BY <1>1, <1>2, <1>3, <1>4, <1>5, <1>6, <1>7, <1>8, <1>9 DEF Continue

\* The task of a write that is done, one way or the other.
LEMMA SettledType ==
  ASSUME TypeInv, NEW w \in Writers, write[w] # NoWrite, Settled(w)
  PROVE  /\ write' \in [Writers -> Write \cup {NoWrite}]
         /\ \A v \in Writers \ {w} : write'[v] = write[v]
         /\ write'[w] = NoWrite
         /\ task' \in [Tasks -> Task \cup {Idle}]
         /\ \A u \in Tasks \ {w} : task'[u] = task[u]
         /\ w \in Tasks => \/ task'[w] = Idle /\ task'[w].wait = "idle"
                           \/ task'[w].wait = "tell" /\ task'[w].of = task[w].of
<1> USE DEF TypeInv
<1>1. /\ write' \in [Writers -> Write \cup {NoWrite}]
      /\ \A v \in Writers \ {w} : write'[v] = write[v]
      /\ write'[w] = NoWrite
  BY DEF Settled, TypeOK
<1>2. CASE w \notin Tasks
  BY <1>1, <1>2 DEF Settled, TypeOK
<1>3. CASE w \in Tasks /\ task[w].kind = "compress"
  <2>1. Waiting(w, task[w], "tell") /\ task[w] \in Task /\ "tell" \in Waits
    BY <1>3, AtTask DEF Settled, WriterInv, At, Waits
  <2> QED BY <1>1, <1>3, <2>1, WaitingType
<1>4. CASE w \in Tasks /\ task[w].kind # "compress"
  <2>1. Ending(w)
    BY <1>4 DEF Settled
  <2> QED BY <1>1, <1>4, <2>1, EndingType
<1> QED BY <1>2, <1>3, <1>4

LEMMA WriteType ==
  ASSUME TypeInv, NEW w \in Writers, Truncate(w) \/ Complete(w) \/ Fails(w)
  PROVE  TypeInv'
<1> USE DEF TypeInv
<1>1. write[w] \in Write /\ write[w].of \in Sessions /\ write[w].content \in Files
      /\ write[w] # NoWrite
  BY DEF Truncate, Complete, Fails, TypeOK, Write
<1>2. Torn \in Files
  BY DEF Torn, Files
<1>3. CASE Truncate(w)
  <2> DEFINE Next1(v) == IF v = w THEN [write[v] EXCEPT !.open = TRUE, !.alone = (Rivals(w) = {})]
                         ELSE IF v \in Rivals(w) THEN [write[v] EXCEPT !.alone = FALSE]
                         ELSE write[v]
  <2>0. \A v \in Rivals(w) : write[v].of \in Sessions /\ write[v] # NoWrite
    BY <1>1, SessionAssumption DEF Rivals, NoWrite
  <2>1. ASSUME NEW v \in Writers
        PROVE  /\ Next1(v) \in Write \cup {NoWrite}
               /\ Next1(v) # NoWrite => write[v] # NoWrite
    <3>1. CASE v = w
      BY <1>1, <3>1 DEF Write
    <3>2. CASE v \in Rivals(w) /\ v # w
      <4>1. write[v] \in Write
        BY <2>0, <3>2 DEF TypeOK
      <4>2. [write[v] EXCEPT !.alone = FALSE] \in Write
        BY <4>1 DEF Write
      <4> QED BY <2>0, <3>2, <4>2
    <3>3. CASE v \notin Rivals(w) /\ v # w
      BY <3>3 DEF TypeOK
    <3> QED BY <3>1, <3>2, <3>3
  <2>2. write' = [v \in Writers |-> Next1(v)]
    BY <1>3 DEF Truncate
  <2> HIDE DEF Next1
  <2>3. write' \in [Writers -> Write \cup {NoWrite}]
        /\ \A v \in Writers : write'[v] # NoWrite => write[v] # NoWrite
    BY <2>1, <2>2
  <2>4. file' \in [Sessions -> Files]
    BY <1>1, <1>2, <1>3 DEF Truncate, TypeOK
  <2>5. TypeOK' /\ LoadInv'
    BY <1>3, <2>3, <2>4 DEF Truncate, TypeOK, LoadInv, hostVars, history
  <2>6. WriterInv'
    BY <1>3, <2>3 DEF Truncate, WriterInv, Writers
  <2> QED BY <2>5, <2>6
<1>4. CASE Complete(w) \/ Fails(w)
  <2>1. file' \in [Sessions -> Files] /\ cut' \subseteq Sessions /\ behind' \in BOOLEAN
    BY <1>1, <1>2, <1>4 DEF Complete, Fails, TypeOK
  <2>2. Settled(w) /\ UNCHANGED <<hostVars, state, sent, raced, thrown>>
    BY <1>4 DEF Complete, Fails
  <2>3. /\ write' \in [Writers -> Write \cup {NoWrite}]
        /\ (\A v \in Writers \ {w} : write'[v] = write[v]) /\ write'[w] = NoWrite
        /\ task' \in [Tasks -> Task \cup {Idle}]
        /\ \A u \in Tasks \ {w} : task'[u] = task[u]
        /\ w \in Tasks => task'[w].wait \in {"idle", "tell"}
    BY <1>1, <2>2, SettledType
  <2>4. TypeOK'
    BY <2>1, <2>2, <2>3 DEF TypeOK, hostVars
  <2>5. LoadInv' /\ WriterInv'
    BY <2>2, <2>3 DEF LoadInv, WriterInv, Writers
  <2> QED BY <2>4, <2>5
<1> QED BY <1>3, <1>4

LEMMA StepTypeInv ==
  ASSUME TypeInv, [Next]_vars
  PROVE  TypeInv'
<1> USE DEF TypeInv
<1>1. ASSUME NEW t \in Tasks, NEW s \in Sessions,
             \/ Request(t, s)
             \/ \E u \in Tasks, asked \in BOOLEAN : RequestV2(t, u, s, asked)
             \/ \E kind \in Kinds : Call(t, s, kind)
      PROVE  TypeInv'
  BY <1>1, StartType
<1>2. ASSUME NEW t \in Tasks, Continue(t) \/ Allowed(t) \/ Throws(t)
      PROVE  TypeInv'
  BY <1>2, ContinueType
<1>3. ASSUME NEW w \in Writers, Truncate(w) \/ Complete(w) \/ Fails(w)
      PROVE  TypeInv'
  BY <1>3, WriteType
<1>4. ASSUME NEW s \in Sessions, Compact(s)
      PROVE  TypeInv'
  BY <1>4, SessionAssumption DEF Compact, TypeOK, LoadInv, WriterInv, history
<1>5. CASE Crash
  <2>1. state' \in State
    BY <1>5, FreshType DEF Crash, Modes
  <2>2. crashes' \in 0..MaxCrashes
    BY <1>5, SessionAssumption DEF Crash, TypeOK
  <2>3. cut' \subseteq Sessions
    BY <1>5 DEF Crash, TypeOK, Write
  <2> QED BY <1>5, <2>1, <2>2, <2>3
          DEF Crash, TypeOK, State, LoadInv, WriterInv, Writers, Idle
<1>6. CASE UNCHANGED vars
  BY <1>6 DEF vars, hostVars, history, TypeOK, LoadInv, WriterInv
<1> QED BY <1>1, <1>2, <1>3, <1>4, <1>5, <1>6 DEF Next

----------------------------------------------------------------------------
(***************************************************************************)
(* Handlers that run one after the other.                                  *)
(***************************************************************************)
Own(items, s) == \A i \in items : i.of = s

\* The handler that is under way is the only one, and finds its session in memory
\* from the time it brought it there.
Past == {"parent", "load", "work", "tell", "merge", "write"}

OneHandler ==
  /\ \A t, u \in Tasks : task[t] # Idle /\ task[u] # Idle => t = u
  /\ \A t \in Tasks :
       task[t].wait \in Past \/ (task[t].wait = "manual" /\ task[t].kind = "request")
         => state.sid = task[t].of
  /\ \A t \in Tasks : task[t].wait = "merge" => task[t].kind # "compress"

\* What a session holds is its own.
OwnItems ==
  /\ \A s \in Sessions : Own(file[s].items, s)
  /\ Own(state.items, state.sid)
  /\ Own(sent.items, sent.of)

\* What is kept of the session in memory: all of it but "spare".
Kept(items, spare) == items \subseteq state.items /\ state.items \ items \subseteq spare

\* At most one write is under way, of what is in memory or, for the manual mode, in
\* the file: that of the handler that awaits it, or one that a request started, or a
\* request that has ended since.
OneWrite ==
  /\ \A v, w \in Writers : write[v] # NoWrite /\ write[w] # NoWrite => v = w
  /\ \A w \in Writers : write[w] # NoWrite =>
       /\ write[w].alone
       /\ write[w].of = state.sid
       /\ Own(write[w].content.items, state.sid)
       /\ SavesAll(w) \/ ~behind => Kept(write[w].content.items, thrown)
       /\ \/ w \in Tasks /\ task[w].wait = "write"
          \/ w \in Sessions /\ w = state.sid /\ \A t \in Tasks :
               task[t] = Idle \/ (task[t].wait = "manual" /\ task[t].kind = "request")

\* What a compress call that is still at work has pruned.
AtWork == {Made(task[t], "pruned") : t \in {u \in Tasks : task[u].wait = "work"}}

\* Memory and file agree, but while a session is brought in or written.
Agreed ==
  /\ \A t \in Tasks : task[t].wait \in {"parent", "load"} => state.items = {}
  /\ /\ state.sid # NoSession /\ ~behind
     /\ \A t \in Tasks : task[t].wait \notin {"parent", "load"}
     /\ \A w \in Writers : write[w] = NoWrite
     => Kept(file[state.sid].items, thrown \cup AtWork)

Orderly == OneHandler /\ OwnItems /\ OneWrite /\ Agreed

\* A file that is not there or does not parse holds nothing.
WholeInv ==
  /\ \A s \in Sessions : file[s].kind # "whole" => file[s].items = {}
  /\ \A w \in Writers : write[w] # NoWrite => write[w].content.kind = "whole"

IInv == TypeInv /\ WholeInv /\ (~raced => Orderly)

LEMMA InitIInv == Init => IInv
<1> SUFFICES ASSUME Init
             PROVE  IInv
  OBVIOUS
<1>1. \A t \in Tasks : task[t] = Idle /\ task[t].wait = "idle"
  BY DEF Init, Idle
<1>2. \A w \in Writers : write[w] = NoWrite
  BY DEF Init
<1>3. state.sid = NoSession /\ state.items = {} /\ sent.items = {}
      /\ \A s \in Sessions : file[s].items = {}
  BY DEF Init, Fresh, NoFile
<1>4. Orderly
  BY <1>1, <1>2, <1>3 DEF Orderly, OneHandler, OwnItems, OneWrite, Agreed, Own, Past
<1> QED BY <1>2, <1>3, <1>4, InitTypeInv DEF IInv, WholeInv

\* A save somewhere, and nothing else, leaves files whole.
LEMMA NewSaveWhole ==
  ASSUME TypeOK, WholeInv, UNCHANGED file,
         \/ write' = write
         \/ \E w, s, st : write' = [write EXCEPT ![w] = SaveOf(s, Snapshot(st))]
         \/ \E w, s, m, items : write' = [write EXCEPT ![w] = SaveOf(s, Saved(m, items))]
  PROVE  WholeInv'
<1>1. \A s, m, items : SaveOf(s, Saved(m, items)).content.kind = "whole"
  BY DEF SaveOf, Saved
<1>2. \A s, st : SaveOf(s, Snapshot(st)).content.kind = "whole"
  BY <1>1 DEF Snapshot
<1> QED BY <1>1, <1>2 DEF WholeInv, TypeOK

\* WholeInv through every step.
LEMMA StepWhole ==
  ASSUME TypeInv, WholeInv, [Next]_vars
  PROVE  WholeInv'
<1> USE DEF TypeInv
<1> DEFINE NewSave == \/ write' = write
                      \/ \E w, s, st : write' = [write EXCEPT ![w] = SaveOf(s, Snapshot(st))]
                      \/ \E w, s, m, items :
                           write' = [write EXCEPT ![w] = SaveOf(s, Saved(m, items))]
<1>1. \A st : MayLeaveSave(st) => NewSave
  BY DEF MayLeaveSave
<1>2. ASSUME NEW t, NEW k, NEW st, Arrive(t, k, st)
      PROVE  NewSave
  BY <1>1, <1>2 DEF Arrive, ArriveRequest, ArriveCompress
<1>3. ASSUME NEW t, NEW k, EnsureSession(t, k)
      PROVE  NewSave
  BY <1>2, <1>3 DEF EnsureSession
<1>4. ASSUME NEW t \in Tasks, NEW s \in Sessions,
             \/ Request(t, s)
             \/ \E u \in Tasks, asked \in BOOLEAN : RequestV2(t, u, s, asked)
             \/ \E kind \in Kinds : Call(t, s, kind)
      PROVE  file' = file /\ NewSave
  <2>1. CASE Request(t, s)
    BY <1>3, <2>1 DEF Request
  <2>2. CASE \E u \in Tasks, asked \in BOOLEAN : RequestV2(t, u, s, asked)
    <3>1. file' = file /\ (MayLeaveSave(state') \/ write' = write)
      BY <2>2 DEF RequestV2
    <3> QED BY <1>1, <3>1
  <2>3. CASE \E kind \in Kinds : Call(t, s, kind)
    BY <2>3 DEF Call
  <2> QED BY <1>4, <2>1, <2>2, <2>3
<1>5. ASSUME NEW t \in Tasks, Continue(t) \/ Allowed(t) \/ Throws(t)
      PROVE  file' = file /\ NewSave
  <2>1. CASE Fetched(t)
    BY <1>3, <2>1 DEF Fetched
  <2>2. CASE FileRead(t)
    BY <1>2, <2>2 DEF FileRead
  <2>3. CASE ManualRead(t)
    BY <1>1, <2>3 DEF ManualRead
  <2>4. CASE Commit(t) \/ Merged(t)
    BY <2>4 DEF Commit, Merged
  <2>5. CASE ParentKnown(t) \/ Told(t) \/ Allowed(t) \/ Throws(t)
    BY <2>5 DEF ParentKnown, Told, Allowed, Throws
  <2> QED BY <1>5, <2>1, <2>2, <2>3, <2>4, <2>5 DEF Continue
<1>6. ASSUME NEW w \in Writers, Truncate(w)
      PROVE  WholeInv'
  <2>1. \A s \in Sessions : file'[s] = file[s] \/ (file'[s].kind = "torn" /\ file'[s].items = {})
    BY <1>6 DEF Truncate, TypeOK, Torn
  <2>2. \A v \in Writers : write'[v] # NoWrite =>
          write[v] # NoWrite /\ write'[v].content = write[v].content
    <3>1. write[w] # NoWrite
      BY <1>6 DEF Truncate
    <3>2. \A v \in Rivals(w) : write[v] # NoWrite
      BY <3>1, SessionAssumption DEF Rivals, NoWrite, TypeOK, Write
    <3>3. \A v \in Writers : write[v] # NoWrite => write[v] \in Write
      BY DEF TypeOK
    <3> QED BY <1>6, <3>1, <3>2, <3>3 DEF Truncate, Write
  <2> QED BY <2>1, <2>2 DEF WholeInv
<1>7. ASSUME NEW w \in Writers, Complete(w) \/ Fails(w)
      PROVE  WholeInv'
  <2>1. write[w] # NoWrite /\ Settled(w) /\ write[w].of \in Sessions
    BY <1>7 DEF Complete, Fails, TypeOK, Write
  <2>2. \A s \in Sessions : \/ file'[s] = file[s]
                            \/ file'[s].kind = "whole"
                            \/ file'[s].kind = "torn" /\ file'[s].items = {}
    BY <1>7, <2>1 DEF Complete, Fails, WholeInv, TypeOK, Torn
  <2>3. \A v \in Writers : write'[v] = write[v] \/ write'[v] = NoWrite
    BY <2>1, SettledType
  <2> QED BY <2>2, <2>3 DEF WholeInv
<1>8. CASE Crash \/ (\E s \in Sessions : Compact(s)) \/ UNCHANGED vars
  BY <1>8 DEF Crash, Compact, vars, WholeInv
<1> QED BY <1>4, <1>5, <1>6, <1>7, <1>8, NewSaveWhole DEF Next

\* Nothing but the handler t is under way, and t has not begun to write.
Alone(t) ==
  /\ \A u \in Tasks \ {t} : task[u] = Idle
  /\ \A w \in Writers : write[w] = NoWrite

\* A save that nobody awaits, left by a handler that ends or waits for its mode while
\* nothing else is under way.
LEMMA SaveOrderly ==
  ASSUME TypeOK, NEW t \in Tasks, NEW s \in Sessions, Alone(t),
         \A u \in Tasks \ {t} : task'[u] = Idle,
         task'[t] = Idle \/ (task'[t].wait = "manual" /\ task'[t].kind = "request"),
         write' = [write EXCEPT ![s] = SaveOf(s, Snapshot(state'))],
         state'.sid = s, OwnItems'
  PROVE  OneWrite' /\ Agreed'
<1>1. s \in Writers /\ s # NoSession
  BY SessionAssumption DEF Writers
<1>2. /\ write'[s] = SaveOf(s, Snapshot(state'))
      /\ \A w \in Writers : w # s => write'[w] = NoWrite
  BY <1>1 DEF Alone, TypeOK
<1>3. /\ write'[s].alone /\ write'[s].of = s
      /\ write'[s].content.items = state'.items
  BY <1>2 DEF SaveOf, Snapshot, Saved
<1>4. write'[s] # NoWrite
  BY <1>1, <1>3 DEF NoWrite
<1>5. OneWrite'
  BY <1>1, <1>2, <1>3 DEF OneWrite, OwnItems, Kept
<1>6. Agreed'
  <2>1. \A u \in Tasks : task'[u].wait \notin {"parent", "load"}
    BY DEF Idle
  <2> QED BY <1>1, <1>4, <2>1 DEF Agreed
<1> QED BY <1>5, <1>6

\* No write is under way, and the handler t goes on or ends with its session in memory.
LEMMA QuietOrderly ==
  ASSUME NEW t \in Tasks,
         \A u \in Tasks \ {t} : task'[u] = Idle,
         \A w \in Writers : write'[w] = NoWrite,
         task'[t].wait \in {"parent", "load"} => state'.items = {},
         \/ behind' \/ task'[t].wait \in {"parent", "load"} \/ state'.sid = NoSession
         \/ Kept(file[state.sid].items, thrown \cup AtWork)'
  PROVE  OneWrite' /\ Agreed'
<1>1. \A u \in Tasks \ {t} : task'[u].wait = "idle"
  BY DEF Idle
<1>2. OneWrite'
  BY DEF OneWrite
<1>3. Agreed'
  BY <1>1 DEF Agreed
<1> QED BY <1>2, <1>3

\* Nobody but t waits, and t has its session in memory.
LEMMA HandlerOrderly ==
  ASSUME NEW t \in Tasks, \A u \in Tasks \ {t} : task'[u] = Idle,
         \/ task'[t].wait \in {"idle", "ask", "fetch"}
         \/ task'[t].wait = "manual" /\ task'[t].kind # "request"
         \/ task'[t].of = state'.sid,
         task'[t].wait = "merge" => task'[t].kind # "compress"
  PROVE  OneHandler'
<1>1. \A u \in Tasks \ {t} : task'[u].wait = "idle"
  BY DEF Idle
<1> QED BY <1>1 DEF OneHandler, Past

\* A handler that goes on alone in its session, "st" being what it finds in memory,
\* leaves order behind.
LEMMA ArriveOrderly ==
  ASSUME TypeOK, NEW t \in Tasks, NEW k \in Task, NEW st \in State,
         Alone(t), UNCHANGED file, Arrive(t, k, st), st.sid = k.of,
         OwnItems, Own(st.items, k.of),
         behind' \/ (/\ file[k.of].items \subseteq st.items
                     /\ st.items \ file[k.of].items \subseteq thrown)
  PROVE  Orderly'
<1>0. k.of \in Sessions /\ k.of # NoSession /\ k.of \notin Tasks /\ SentType
  BY SessionAssumption DEF Task, TypeOK, SentType
<1>1. /\ \A u \in Tasks \ {t} : task'[u] = Idle
      /\ task'[t] = Idle \/ (task'[t].of = k.of /\ task'[t].kind = k.kind)
      /\ task'[t].wait \in {"idle", "manual", "work", "tell"}
      /\ state'.sid = k.of
  BY <1>0, ArriveType DEF Alone
<1>2. OneHandler'
  BY <1>1, HandlerOrderly DEF Idle
<1>3. CASE ArriveRequest(t, k, st) /\ k.kind = "request"
  <2>1. state'.items = {} \/ (state'.items = st.items /\ ~IsCompacted(st, k.seen))
    BY <1>3 DEF ArriveRequest, Cleared, State
  <2>2. sent' = sent \/ sent' = SentOf(k, state')
    BY <1>3 DEF ArriveRequest
  <2>3. OwnItems'
    BY <1>1, <2>1, <2>2 DEF OwnItems, Own, SentOf
  <2>4. /\ task'[t] = Idle \/ (task'[t].wait = "manual" /\ task'[t].kind = "request")
        /\ task'[t].wait \in {"idle", "manual"}
    <3>1. CASE Ending(t)
      BY <3>1, EndingType
    <3>2. CASE Waiting(t, k, "manual")
      BY <1>3, <3>2, WaitingType DEF Waits
    <3> QED BY <1>3, <3>1, <3>2 DEF ArriveRequest
  <2>5. CASE write' = write /\ ~IsCompacted(st, k.seen)
    <3>1. state'.items = st.items /\ thrown' = thrown
      BY <1>3, <2>5 DEF ArriveRequest, Cleared
    <3>2. behind' \/ Kept(file[state.sid].items, thrown \cup AtWork)'
      BY <1>1, <3>1 DEF Kept
    <3>3. \A w \in Writers : write'[w] = NoWrite
      BY <2>5 DEF Alone
    <3> QED BY <1>1, <1>2, <2>3, <2>4, <3>2, <3>3, QuietOrderly DEF Orderly
  <2>6. CASE write' = [write EXCEPT ![k.of] = SaveOf(k.of, Snapshot(state'))]
    BY <1>0, <1>1, <1>2, <2>3, <2>4, <2>6, SaveOrderly DEF Orderly
  <2>7. \/ write' = write /\ ~IsCompacted(st, k.seen)
        \/ write' = [write EXCEPT ![k.of] = SaveOf(k.of, Snapshot(state'))]
    <3>1. CASE IsCompacted(st, k.seen)
      BY <1>3, <3>1 DEF ArriveRequest
    <3>2. CASE ~IsCompacted(st, k.seen)
      BY <1>3, <3>2 DEF ArriveRequest, Cleared, MayLeaveSave
    <3> QED BY <3>1, <3>2
  <2> QED BY <2>5, <2>6, <2>7
<1>4. CASE ArriveCompress(t, k, st)
  <2>1. /\ state'.items = st.items \cup {Made(k, "pruned")}
        /\ write' = write /\ sent' = sent
    BY <1>4 DEF ArriveCompress, State
  <2>2. OwnItems'
    <3>1. Made(k, "pruned").of = k.of
      BY MadeType
    <3> QED BY <1>1, <2>1, <3>1 DEF OwnItems, Own
  <2>3. Made(k, "pruned") \in (thrown \cup AtWork)' /\ thrown \subseteq thrown'
        /\ task'[t].wait \in {"idle", "work"}
    <3>1. CASE Ending(t) /\ thrown' = thrown \cup {Made(k, "pruned")}
      BY <3>1, EndingType
    <3>2. CASE Waiting(t, k, "work") /\ thrown' = thrown
      <4>1. task'[t].wait = "work" /\ task'[t].of = k.of /\ task'[t].n = k.n
        BY <3>2, WaitingType DEF Waits
      <4>2. Made(task'[t], "pruned") = Made(k, "pruned")
        BY <4>1 DEF Made
      <4> QED BY <3>2, <4>1, <4>2 DEF AtWork
    <3> QED BY <1>4, <3>1, <3>2 DEF ArriveCompress
  <2>4. behind' \/ Kept(file[state.sid].items, thrown \cup AtWork)'
    BY <1>1, <2>1, <2>3 DEF Kept
  <2>5. \A w \in Writers : write'[w] = NoWrite
    BY <2>1 DEF Alone
  <2> QED BY <1>1, <1>2, <2>2, <2>3, <2>4, <2>5, QuietOrderly DEF Orderly
<1>5. CASE k.kind \notin {"request", "compress"}
  <2>1. /\ state'.items = st.items
        /\ UNCHANGED <<write, sent, thrown>>
    BY <1>5 DEF Arrive, State
  <2>2. OwnItems'
    BY <1>1, <2>1 DEF OwnItems, Own
  <2>3. behind' \/ Kept(file[state.sid].items, thrown \cup AtWork)'
    BY <1>1, <2>1 DEF Kept
  <2>4. \A w \in Writers : write'[w] = NoWrite
    BY <2>1 DEF Alone
  <2> QED BY <1>1, <1>2, <2>2, <2>3, <2>4, QuietOrderly DEF Orderly
<1> QED BY <1>3, <1>4, <1>5 DEF Arrive

LEMMA EnsureSessionOrderly ==
  ASSUME TypeOK, WholeInv, NEW t \in Tasks, NEW k \in Task, Alone(t), UNCHANGED file,
         EnsureSession(t, k), Orderly,
         task[t].wait \notin {"parent", "load", "work"}
  PROVE  Orderly'
<1>0. k.of \in Sessions /\ k.of # NoSession
  BY SessionAssumption DEF Task
<1>1. CASE state.sid = k.of /\ Arrive(t, k, state) /\ UNCHANGED behind
  <2>1. \A u \in Tasks : task[u].wait \notin {"parent", "load", "work"}
    BY DEF Alone, Idle
  <2>2. Own(state.items, k.of)
    BY <1>1 DEF Orderly, OwnItems
  <2>3. behind \/ Kept(file[k.of].items, thrown)
    BY <1>0, <1>1, <2>1 DEF Orderly, Agreed, Alone, AtWork
  <2> QED BY <1>1, <2>2, <2>3, ArriveOrderly DEF Orderly, TypeOK, State, Kept
<1>2. CASE /\ state' = Begun(k.of) /\ behind' = FALSE
           /\ Waiting(t, k, "parent")
           /\ UNCHANGED <<write, sent, thrown>>
  <2>1. state'.sid = k.of /\ state'.items = {}
    BY <1>2 DEF Begun, Fresh
  <2>2. /\ task'[t].wait = "parent" /\ task'[t].of = k.of
        /\ \A u \in Tasks \ {t} : task'[u] = Idle
    BY <1>2, WaitingType DEF Alone, Waits
  <2>3. OneHandler'
    BY <2>1, <2>2, HandlerOrderly
  <2>4. OwnItems'
    BY <1>2, <2>1 DEF Orderly, OwnItems, Own
  <2>5. \A w \in Writers : write'[w] = NoWrite
    BY <1>2 DEF Alone
  <2> QED BY <2>1, <2>2, <2>3, <2>4, <2>5, QuietOrderly DEF Orderly
<1> QED BY <1>1, <1>2 DEF EnsureSession

\* A handler that starts while nothing is under way is alone, and one that waits
\* for anything but its own write has not begun one.
LEMMA StartAlone ==
  ASSUME TypeOK, Orderly, NEW t \in Tasks, task[t] = Idle, ~Overlaps(t)
  PROVE  Alone(t)
<1>1. \A u \in Tasks : task[u] = Idle /\ task[u].wait # "write"
  BY DEF Overlaps, Idle
<1>2. \A s \in Sessions : write[s] = NoWrite
  BY DEF Overlaps
<1> QED BY <1>1, <1>2 DEF Alone, Orderly, OneWrite, Writers

LEMMA WaitAlone ==
  ASSUME TypeOK, Orderly, NEW t \in Tasks,
         \/ task[t].wait \in {"ask", "fetch", "parent", "load", "work", "tell", "merge"}
         \/ task[t].wait = "manual" /\ task[t].kind # "request"
  PROVE  Alone(t)
<1>1. task[t] # Idle /\ \A u \in Tasks \ {t} : task[u] = Idle
  BY DEF Orderly, OneHandler, Idle
<1>2. \A u \in Tasks : task[u].wait # "write"
  BY <1>1 DEF Idle
<1> QED BY <1>1, <1>2 DEF Alone, Orderly, OneWrite, Writers

\* What Agreed says when the handler t is alone and brings no session in.
LEMMA AgreedNow ==
  ASSUME TypeOK, Orderly, NEW t \in Tasks, Alone(t), ~behind, state.sid # NoSession,
         task[t].wait \notin {"parent", "load"}
  PROVE  Kept(file[state.sid].items, thrown \cup AtWork)
<1>1. \A u \in Tasks : task[u].wait \notin {"parent", "load"}
  BY DEF Alone, Idle
<1> QED BY <1>1 DEF Orderly, Agreed, Alone

LEMMA StartOrderly ==
  ASSUME IInv, ~raced', NEW t \in Tasks, NEW s \in Sessions,
         \/ Request(t, s)
         \/ \E u \in Tasks, asked \in BOOLEAN : RequestV2(t, u, s, asked)
         \/ \E kind \in Kinds : Call(t, s, kind)
  PROVE  Orderly'
<1> USE DEF IInv, TypeInv
<1>0. ~raced /\ ~Overlaps(t) /\ task[t] = Idle
  BY DEF Request, RequestV2, Call, MayStart
<1>1. Orderly /\ Alone(t) /\ task[t].wait = "idle"
  BY <1>0, StartAlone DEF Idle
<1>2. AtWork = {}
  <2>1. \A u \in Tasks : task[u].wait # "work"
    BY <1>1 DEF Alone, Idle
  <2> QED BY <2>1 DEF AtWork
<1>3. behind \/ state.sid = NoSession \/ Kept(file[state.sid].items, thrown)
  BY <1>1, <1>2, AgreedNow
<1>4. CASE Request(t, s)
  <2>1. Handler("request", s) \in Task
    BY <1>4, HandlerType DEF Request, MayStart
  <2> QED BY <1>1, <1>4, <2>1, EnsureSessionOrderly DEF Request
<1>5. ASSUME NEW u \in Tasks, NEW asked \in BOOLEAN, RequestV2(t, u, s, asked)
      PROVE  Orderly'
  <2>1. state.sid = s /\ s # NoSession
    BY <1>5, SessionAssumption DEF RequestV2
  <2>2. /\ state'.sid = s /\ state'.items = state.items /\ behind' = behind
        /\ UNCHANGED <<file, thrown>> /\ sent' = [of |-> s, items |-> {}]
    BY <1>5, <2>1 DEF RequestV2, TypeOK
  <2> DEFINE k == Handler("request", s)
  <2>3. k \in Task /\ k.of = s /\ k.kind = "request"
    BY <1>5, HandlerType DEF RequestV2, MayStart
  <2>4. /\ task'[t] = IF state'.manual = "pending" THEN Idle ELSE [k EXCEPT !.wait = "manual"]
        /\ \A v \in Tasks \ {t} : task'[v] = Idle
    BY <1>1, <1>5, <2>1 DEF RequestV2, TypeOK, Alone
  <2>5. \/ task'[t] = Idle
        \/ task'[t].wait = "manual" /\ task'[t].of = s /\ task'[t].kind = "request"
    BY <2>3, <2>4 DEF Task
  <2> HIDE DEF k
  <2>6. OneHandler'
    <3>1. \A v \in Tasks \ {t} : task'[v] = Idle
      BY <2>4
    <3>2. \/ task'[t].wait = "idle"
          \/ task'[t].wait = "manual" /\ task'[t].of = state'.sid
      BY <2>1, <2>2, <2>5 DEF Idle
    <3>3. \/ task'[t].wait \in {"idle", "ask", "fetch"}
          \/ task'[t].of = state'.sid
      BY <3>2
    <3>4. task'[t].wait # "merge"
      BY <3>2
    <3> QED BY <3>1, <3>3, <3>4, HandlerOrderly
  <2>7. OwnItems'
    BY <1>1, <2>1, <2>2 DEF Orderly, OwnItems, Own
  <2>8. \/ write' = write
        \/ write' = [write EXCEPT ![s] = SaveOf(s, Snapshot(state'))]
    <3>1. write' = write \/ MayLeaveSave(state')
      BY <1>5 DEF RequestV2
    <3> QED BY <2>2, <3>1 DEF MayLeaveSave
  <2>9. CASE write' = write
    <3>1. behind' \/ Kept(file[state.sid].items, thrown \cup AtWork)'
      BY <1>3, <2>1, <2>2 DEF Kept
    <3>2. \A w \in Writers : write'[w] = NoWrite
      BY <1>1, <2>9 DEF Alone
    <3>3. task'[t].wait \notin {"parent", "load"}
      BY <2>5 DEF Idle
    <3> QED BY <2>4, <2>6, <2>7, <3>1, <3>2, <3>3, QuietOrderly DEF Orderly
  <2>10. CASE write' = [write EXCEPT ![s] = SaveOf(s, Snapshot(state'))]
    BY <1>1, <2>2, <2>4, <2>5, <2>6, <2>7, <2>10, SaveOrderly DEF Orderly
  <2> QED BY <2>8, <2>9, <2>10
<1>6. ASSUME NEW kind \in Kinds, Call(t, s, kind)
      PROVE  Orderly'
  <2>1. kind # "request" /\ UNCHANGED <<state, file, write, sent, thrown, behind>>
    BY <1>6 DEF Call
  <2>2. Handler(kind, s) \in Task /\ Handler(kind, s).kind = kind
    BY <1>6, HandlerType DEF Call, MayStart
  <2>3. PICK at \in {"manual", "ask", "fetch"} : Waiting(t, Handler(kind, s), at)
    BY <1>6 DEF Call, AfterMode
  <2>4. /\ task'[t].wait = at /\ task'[t].kind = kind
        /\ \A v \in Tasks \ {t} : task'[v] = Idle
    BY <1>1, <2>2, <2>3, WaitingType DEF Alone, Waits
  <2>5. OneHandler'
    BY <2>1, <2>3, <2>4, HandlerOrderly
  <2>6. OwnItems'
    BY <1>1, <2>1 DEF Orderly, OwnItems
  <2>7. behind' \/ state'.sid = NoSession \/ Kept(file[state.sid].items, thrown \cup AtWork)'
    BY <1>3, <2>1 DEF Kept
  <2>8. \A w \in Writers : write'[w] = NoWrite
    BY <1>1, <2>1 DEF Alone
  <2> QED BY <2>3, <2>4, <2>5, <2>6, <2>7, <2>8, QuietOrderly DEF Orderly
<1> QED BY <1>4, <1>5, <1>6

\* A handler that is alone goes on, or ends, without touching what is decided, its
\* session, or a file.
LEMMA GoOnOrderly ==
  ASSUME TypeOK, Orderly, NEW t \in Tasks, Alone(t),
         \A u \in Tasks \ {t} : task'[u] = task[u],
         \/ task'[t].wait \in {"idle", "ask", "fetch"}
         \/ task'[t].of = state.sid,
         task'[t].wait = "merge" => task'[t].kind # "compress",
         task'[t].wait \notin {"parent", "load"},
         task[t].wait \notin {"parent", "load"},
         state'.sid = state.sid, state'.items = state.items,
         UNCHANGED <<file, write, sent, behind>>,
         thrown \cup AtWork \subseteq (thrown \cup AtWork)'
  PROVE  Orderly'
<1>1. OneHandler'
  BY HandlerOrderly DEF Alone
<1>2. OwnItems'
  BY DEF Orderly, OwnItems, Own
<1>3. behind' \/ state'.sid = NoSession \/ Kept(file[state.sid].items, thrown \cup AtWork)'
  BY AgreedNow DEF Kept
<1>4. \A w \in Writers : write'[w] = NoWrite
  BY DEF Alone
<1> QED BY <1>1, <1>2, <1>3, <1>4, QuietOrderly DEF Orderly, Alone

LEMMA ContinueOrderly ==
  ASSUME IInv, ~raced, NEW t \in Tasks, Continue(t) \/ Allowed(t) \/ Throws(t)
  PROVE  Orderly'
<1> USE DEF IInv, TypeInv
<1>0. Orderly /\ TypeOK /\ state \in State
  BY DEF TypeOK, State
<1>1. CASE Fetched(t)
  <2>1. task[t] \in Task /\ task[t].wait = "fetch"
    BY <1>1, AtTask DEF Fetched, Waits
  <2>2. [task[t] EXCEPT !.seen = Seen(task[t].of)] \in Task
    BY <2>1, SeenType DEF Task
  <2>3. Alone(t)
    BY <1>0, <2>1, WaitAlone
  <2> QED BY <1>0, <1>1, <2>1, <2>2, <2>3, EnsureSessionOrderly DEF Fetched
<1>2. CASE ParentKnown(t)
  <2>1. task[t] \in Task /\ task[t].wait = "parent"
    BY <1>2, AtTask DEF ParentKnown, Waits
  <2>2. Alone(t)
    BY <1>0, <2>1, WaitAlone
  <2>3. /\ state'.sid = state.sid /\ state'.items = state.items
        /\ UNCHANGED <<file, write, sent>>
    BY <1>0, <1>2 DEF ParentKnown, State
  <2>4. /\ task'[t].wait = "load" /\ task'[t].of = task[t].of
        /\ \A u \in Tasks \ {t} : task'[u] = Idle
    BY <1>2, <2>1, <2>2, WaitingType DEF ParentKnown, Alone, Waits
  <2>5. state.sid = task[t].of /\ state.items = {}
    BY <1>0, <2>1 DEF Orderly, OneHandler, Past, Agreed
  <2>6. OneHandler' /\ OwnItems'
    BY <1>0, <2>3, <2>4, <2>5, HandlerOrderly DEF Orderly, OwnItems, Own
  <2>7. \A w \in Writers : write'[w] = NoWrite
    BY <2>2, <2>3 DEF Alone
  <2> QED BY <2>3, <2>4, <2>5, <2>6, <2>7, QuietOrderly DEF Orderly
<1>3. CASE FileRead(t)
  <2>1. task[t] \in Task /\ task[t].wait = "load" /\ task[t].of \in Sessions
    BY <1>3, AtTask DEF FileRead, Waits
  <2>2. Alone(t)
    BY <1>0, <2>1, WaitAlone
  <2>3. state.sid = task[t].of /\ state.items = {}
    BY <1>0, <2>1 DEF Orderly, OneHandler, Past, Agreed
  <2>4. PICK f \in Read(task[t].of) :
          Arrive(t, task[t], Loaded(state, f)) /\ behind' = (behind \/ f # file[task[t].of])
    BY <1>3 DEF FileRead
  <2> DEFINE st == Loaded(state, f)
  <2>5. st \in State /\ st.sid = task[t].of
    BY <1>0, <2>1, <2>3, <2>4, ReadType, LoadedType
  <2>6. st.items = {} \/ st.items = f.items
    BY <1>0, <2>3 DEF Loaded, State
  <2>7. Own(st.items, task[t].of)
    BY <1>0, <2>1, <2>4, <2>6 DEF Orderly, OwnItems, Own, Read, NoFile
  <2>8. f = file[task[t].of] => st.items = file[task[t].of].items
    BY <1>0, <2>1, <2>3 DEF Loaded, State, WholeInv
  <2>9. behind' \/ st.items = file[task[t].of].items
    BY <2>4, <2>8 DEF TypeOK
  <2>10. Arrive(t, task[t], st) /\ UNCHANGED file
    BY <1>3, <2>4 DEF FileRead
  <2> HIDE DEF st
  <2> QED BY <1>0, <2>1, <2>2, <2>5, <2>7, <2>9, <2>10, ArriveOrderly DEF Orderly
<1>4. CASE ManualRead(t)
  <2>1. task[t] \in Task /\ task[t].wait = "manual" /\ task[t] # Idle
    BY <1>4, AtTask DEF ManualRead, Waits
  <2>2. /\ state'.sid = state.sid /\ state'.items = state.items
        /\ UNCHANGED <<file, thrown, behind>>
    BY <1>0, <1>4 DEF ManualRead, State, history
  <2>3. CASE task[t].kind = "request"
    <3>1. Ending(t) /\ sent' = SentOf(task[t], state') /\ MayLeaveSave(state')
      BY <1>4, <2>3 DEF ManualRead
    <3>2. state.sid = task[t].of
      BY <1>0, <2>1, <2>3 DEF Orderly, OneHandler
    <3>3. \A u \in Tasks \ {t} : task[u] = Idle
      BY <1>0, <2>1 DEF Orderly, OneHandler
    <3>4. \A u \in Tasks : task'[u] = Idle /\ task'[u].wait = "idle"
      BY <3>1, <3>3, EndingType DEF Idle
    <3>5. OneHandler'
      BY <3>4 DEF OneHandler, Past
    <3>6. OwnItems'
      BY <1>0, <2>2, <3>1, <3>2 DEF Orderly, OwnItems, Own, SentOf
    <3>7. CASE Alone(t)
      <4>1. AtWork = {}
        BY <2>1, <3>3 DEF AtWork, Idle
      <4>2. CASE write' = write
        <5>1. behind' \/ state'.sid = NoSession
              \/ Kept(file[state.sid].items, thrown \cup AtWork)'
          BY <1>0, <2>1, <2>2, <3>7, <4>1, AgreedNow DEF Kept
        <5>2. \A w \in Writers : write'[w] = NoWrite
          BY <3>7, <4>2 DEF Alone
        <5> QED BY <3>4, <3>5, <3>6, <5>1, <5>2, QuietOrderly DEF Orderly
      <4>3. CASE write' # write
        <5>1. /\ write' = [write EXCEPT ![state'.sid] = SaveOf(state'.sid, Snapshot(state'))]
              /\ state'.sid \in Sessions
          BY <1>0, <2>2, <3>1, <4>3 DEF MayLeaveSave, State
        <5> QED BY <3>4, <3>5, <3>6, <3>7, <5>1, SaveOrderly DEF Orderly
      <4> QED BY <4>2, <4>3
    <3>8. CASE ~Alone(t)
      <4>1. PICK w \in Writers : write[w] # NoWrite
        BY <3>3, <3>8 DEF Alone
      <4>2. w \in Sessions /\ w = state.sid /\ write[w].of = state.sid
        BY <1>0, <2>1, <3>3, <4>1 DEF Orderly, OneWrite, Idle
      <4>3. \A v \in Writers : v # w => write[v] = NoWrite
        BY <1>0, <4>1 DEF Orderly, OneWrite
      <4>4. CASE write' = write
        <5>1. SavesAll(w) /\ SavesAll(w)'
          BY <4>2, SessionAssumption DEF SavesAll
        <5>2. /\ write[w].alone /\ Own(write[w].content.items, state.sid)
              /\ Kept(write[w].content.items, thrown)
          BY <1>0, <4>1, <5>1 DEF Orderly, OneWrite
        <5>3. /\ write'[w].alone /\ Own(write'[w].content.items, state'.sid)
              /\ Kept(write[w].content.items, thrown)'
              /\ write'[w].of = state'.sid /\ w = state'.sid
          BY <2>2, <4>2, <4>4, <5>2 DEF Own, Kept
        <5>4. \A v \in Writers : write'[v] # NoWrite => v = w
          BY <4>3, <4>4
        <5>5. OneWrite'
          BY <3>4, <4>2, <5>3, <5>4 DEF OneWrite
        <5>6. Agreed'
          BY <3>4, <4>1, <4>4 DEF Agreed
        <5> QED BY <3>5, <3>6, <5>5, <5>6 DEF Orderly
      <4>5. CASE write' # write
        <5>1. /\ write' = [write EXCEPT ![state.sid] = SaveOf(state.sid, Snapshot(state'))]
              /\ state.sid \in Sessions /\ write[state.sid] = NoWrite
          BY <1>0, <2>2, <3>1, <4>5 DEF MayLeaveSave, State
        <5> QED BY <4>1, <4>2, <5>1
      <4> QED BY <4>4, <4>5
    <3> QED BY <3>7, <3>8
  <2>4. CASE task[t].kind # "request"
    <3>1. UNCHANGED <<write, sent>> /\ (Ending(t) \/ Waiting(t, task[t], AfterMode))
      BY <1>4, <2>4 DEF ManualRead
    <3>2. Alone(t)
      BY <1>0, <2>1, <2>4, WaitAlone
    <3>3. AfterMode \in {"ask", "fetch"} /\ {"ask", "fetch"} \subseteq Waits
      BY DEF AfterMode, Waits
    <3>4. /\ \A u \in Tasks \ {t} : task'[u] = task[u]
          /\ task'[t].wait \in {"idle", "ask", "fetch"}
      BY <2>1, <3>1, <3>3, EndingType, WaitingType
    <3>5. AtWork \subseteq AtWork'
      BY <2>1, <3>4 DEF AtWork
    <3> QED BY <1>0, <2>1, <2>2, <3>1, <3>2, <3>4, <3>5, GoOnOrderly
  <2> QED BY <2>3, <2>4
<1>5. CASE Commit(t)
  <2>1. task[t] \in Task /\ task[t].wait = "work" /\ task[t].of \in Sessions
    BY <1>5, AtTask DEF Commit, Waits
  <2>2. Alone(t)
    BY <1>0, <2>1, WaitAlone
  <2>3. state.sid = task[t].of /\ state.sid # NoSession
    BY <1>0, <2>1, SessionAssumption DEF Orderly, OneHandler, Past
  <2>4. /\ state'.sid = state.sid
        /\ state'.items = state.items \cup {Made(task[t], "block")}
        /\ UNCHANGED <<file, sent, thrown, behind>>
        /\ Waiting(t, task[t], "write")
        /\ write' = [write EXCEPT ![t] = SaveOf(state.sid, Snapshot(state'))]
    BY <1>0, <1>5, <2>3 DEF Commit, State, history
  <2>5. /\ task'[t].wait = "write" /\ task'[t].of = task[t].of
        /\ \A u \in Tasks \ {t} : task'[u] = Idle /\ task'[u].wait = "idle"
    BY <2>1, <2>2, <2>4, WaitingType DEF Alone, Waits, Idle
  <2>6. OneHandler'
    BY <2>3, <2>4, <2>5, HandlerOrderly
  <2>7. OwnItems'
    <3>1. Made(task[t], "block").of = task[t].of
      BY <2>1, MadeType
    <3> QED BY <1>0, <2>3, <2>4, <3>1 DEF Orderly, OwnItems, Own
  <2>8. /\ write'[t] = SaveOf(state.sid, Snapshot(state'))
        /\ \A w \in Writers : w # t => write'[w] = NoWrite
    BY <2>2, <2>4 DEF TypeOK, Alone, Writers
  <2>9. /\ write'[t].alone /\ write'[t].of = state.sid
        /\ write'[t].content.items = state'.items
    BY <2>8 DEF SaveOf, Snapshot, Saved
  <2>10. OneWrite'
    BY <2>4, <2>5, <2>7, <2>8, <2>9 DEF OneWrite, OwnItems, Kept
  <2>11. Agreed'
    BY <2>3, <2>5, <2>9 DEF Agreed, Writers, NoWrite
  <2> QED BY <2>6, <2>7, <2>10, <2>11 DEF Orderly
<1>6. CASE Told(t)
  <2>1. task[t] \in Task /\ task[t].wait = "tell"
    BY <1>6, AtTask DEF Told, Waits
  <2>2. Alone(t) /\ state.sid = task[t].of
    BY <1>0, <2>1, WaitAlone DEF Orderly, OneHandler, Past
  <2> DEFINE k == [task[t] EXCEPT !.manual = (state.manual # "off")]
  <2>3. k \in Task /\ k.of = task[t].of /\ k.kind = task[t].kind
    BY <2>1 DEF Task
  <2>4. /\ UNCHANGED <<state, file, write, sent, thrown, behind>>
        /\ Ending(t) \/ (task[t].kind = "toggle" /\ Waiting(t, k, "merge"))
    BY <1>6 DEF Told, history
  <2> HIDE DEF k
  <2>5. /\ \A u \in Tasks \ {t} : task'[u] = task[u]
        /\ \/ task'[t].wait = "idle"
           \/ /\ task'[t].wait = "merge" /\ task'[t].of = state.sid
              /\ task'[t].kind # "compress"
    BY <2>2, <2>3, <2>4, EndingType, WaitingType DEF Waits
  <2>6. AtWork \subseteq AtWork'
    BY <2>1, <2>5 DEF AtWork
  <2> QED BY <1>0, <2>1, <2>2, <2>4, <2>5, <2>6, GoOnOrderly
<1>7. CASE Merged(t)
  <2>1. task[t] \in Task /\ task[t].wait = "merge" /\ task[t].of \in Sessions
    BY <1>7, AtTask DEF Merged, Waits
  <2>2. Alone(t)
    BY <1>0, <2>1, WaitAlone
  <2>3. state.sid = task[t].of /\ state.sid # NoSession
    BY <1>0, <2>1, SessionAssumption DEF Orderly, OneHandler, Past
  <2>4. PICK f \in Read(task[t].of) :
          /\ write' = [write EXCEPT ![t] = SaveOf(task[t].of, Saved(task[t].manual, f.items))]
          /\ behind' = (behind \/ f # file[task[t].of])
    BY <1>7 DEF Merged
  <2>5. UNCHANGED <<state, file, sent, thrown>> /\ Waiting(t, task[t], "write")
    BY <1>7 DEF Merged
  <2>6. /\ task'[t].wait = "write" /\ task'[t].of = task[t].of /\ task'[t].kind = task[t].kind
        /\ \A u \in Tasks \ {t} : task'[u] = Idle /\ task'[u].wait = "idle"
    BY <2>1, <2>2, <2>5, WaitingType DEF Alone, Waits, Idle
  <2>7. OneHandler'
    BY <2>3, <2>5, <2>6, HandlerOrderly
  <2>8. OwnItems'
    BY <1>0, <2>5 DEF Orderly, OwnItems
  <2>9. /\ write'[t] = SaveOf(task[t].of, Saved(task[t].manual, f.items))
        /\ \A w \in Writers : w # t => write'[w] = NoWrite
    BY <2>2, <2>4 DEF TypeOK, Alone, Writers
  <2>10. /\ write'[t].alone /\ write'[t].of = state.sid
         /\ write'[t].content.items = f.items
    BY <2>3, <2>9 DEF SaveOf, Saved
  <2>11. Own(f.items, state.sid)
    BY <1>0, <2>1, <2>3, <2>4 DEF Orderly, OwnItems, Own, Read, NoFile
  <2>12. ~behind' => Kept(f.items, thrown)
    <3>1. AtWork = {}
      BY <2>1, <2>2 DEF AtWork, Alone, Idle
    <3> QED BY <1>0, <2>1, <2>2, <2>3, <2>4, <3>1, AgreedNow DEF TypeOK
  <2>13. ~SavesAll(t)'
    BY <1>0, <2>1, <2>6 DEF Orderly, OneHandler, SavesAll
  <2>14. OneWrite'
    BY <2>3, <2>5, <2>6, <2>9, <2>10, <2>11, <2>12, <2>13 DEF OneWrite, Kept
  <2>15. Agreed'
    BY <2>3, <2>6, <2>10 DEF Agreed, Writers, NoWrite
  <2> QED BY <2>7, <2>8, <2>14, <2>15 DEF Orderly
<1>8. CASE Allowed(t)
  <2>1. task[t] \in Task /\ task[t].wait = "ask"
    BY <1>8, AtTask DEF Allowed, Waits
  <2>2. Alone(t)
    BY <1>0, <2>1, WaitAlone
  <2>3. /\ \A u \in Tasks \ {t} : task'[u] = task[u]
        /\ task'[t].wait = "fetch"
        /\ UNCHANGED <<state, file, write, sent, thrown, behind>>
    BY <1>8, <2>1, WaitingType DEF Allowed, history, Waits
  <2>4. AtWork \subseteq AtWork'
    BY <2>1, <2>3 DEF AtWork
  <2> QED BY <1>0, <2>1, <2>2, <2>3, <2>4, GoOnOrderly
<1>9. CASE Throws(t)
  <2>1. task[t].wait \in {"ask", "fetch", "work"}
    BY <1>9 DEF Throws, At
  <2>2. Alone(t)
    BY <1>0, <2>1, WaitAlone
  <2>3. /\ \A u \in Tasks \ {t} : task'[u] = task[u]
        /\ task'[t].wait = "idle"
        /\ UNCHANGED <<state, file, write, sent, behind>>
    BY <1>9, EndingType DEF Throws
  <2>4. thrown \cup AtWork \subseteq (thrown \cup AtWork)'
    <3>1. CASE task[t].wait = "work"
      <4>1. thrown' = thrown \cup {Made(task[t], "pruned")}
        BY <1>9, <3>1 DEF Throws, At
      <4> QED BY <2>3, <4>1 DEF AtWork
    <3>2. CASE task[t].wait # "work"
      BY <1>9, <2>3, <3>2 DEF Throws, At, AtWork
    <3> QED BY <3>1, <3>2
  <2> QED BY <1>0, <2>1, <2>2, <2>3, <2>4, GoOnOrderly
<1> QED BY <1>1, <1>2, <1>3, <1>4, <1>5, <1>6, <1>7, <1>8, <1>9 DEF Continue

\* A write that has no rival passes its content on as it is, or fails.
LEMMA WriteOrderly ==
  ASSUME IInv, ~raced, NEW w \in Writers, Truncate(w) \/ Complete(w) \/ Fails(w)
  PROVE  Orderly'
<1> USE DEF IInv, TypeInv
<1>0. Orderly /\ TypeOK
  OBVIOUS
<1>1. /\ write[w] # NoWrite /\ write[w] \in Write /\ write[w].of \in Sessions
      /\ UNCHANGED <<state, sent, thrown>>
  BY DEF Truncate, Complete, Fails, TypeOK, Write, history
<1>2. /\ write[w].alone /\ write[w].of = state.sid
      /\ Own(write[w].content.items, state.sid)
      /\ SavesAll(w) \/ ~behind => Kept(write[w].content.items, thrown)
      /\ \A v \in Writers : v # w => write[v] = NoWrite
  BY <1>0, <1>1 DEF Orderly, OneWrite
<1>3. \A t \in Tasks : task[t].wait \notin {"parent", "load", "work"}
  BY <1>0, <1>1 DEF Orderly, OneWrite, OneHandler, Idle
<1>4. CASE Truncate(w)
  <2>1. Rivals(w) = {}
    BY <1>1, <1>2, SessionAssumption DEF Rivals, NoWrite
  <2>2. /\ write' = [v \in Writers |-> IF v = w THEN [write[v] EXCEPT !.open = TRUE, !.alone = TRUE]
                                       ELSE write[v]]
        /\ file' = [file EXCEPT ![write[w].of] = Torn] /\ task' = task /\ behind' = behind
    BY <1>4, <2>1 DEF Truncate, history
  <2>3. /\ \A v \in Writers : v # w => write'[v] = NoWrite
        /\ write'[w] # NoWrite
        /\ write'[w].alone = TRUE /\ write'[w].of = write[w].of
        /\ write'[w].content = write[w].content
    BY <1>1, <1>2, <2>2 DEF Write, NoWrite
  <2>4. OneHandler'
    BY <1>0, <1>1, <2>2 DEF Orderly, OneHandler
  <2>5. OwnItems'
    BY <1>0, <1>1, <2>2 DEF Orderly, OwnItems, Own, Torn, TypeOK
  <2>6. OneWrite'
    BY <1>0, <1>1, <1>2, <2>2, <2>3 DEF Orderly, OneWrite, SavesAll, Kept
  <2>7. Agreed'
    BY <1>3, <2>2, <2>3 DEF Agreed
  <2> QED BY <2>4, <2>5, <2>6, <2>7 DEF Orderly
<1>5. CASE Complete(w) \/ Fails(w)
  <2>1. /\ \A v \in Writers : write'[v] = NoWrite
        /\ \A t \in Tasks : \/ task'[t] = task[t] \/ task'[t] = Idle
                            \/ task'[t].wait = "tell" /\ task'[t].of = task[t].of
    BY <1>1, <1>2, <1>5, SettledType DEF Complete, Fails
  <2>2. \A t \in Tasks : task'[t] # task[t] => w = t
    BY <1>1, <1>5, SettledType DEF Complete, Fails
  <2>3. w \in Tasks => task[w].wait = "write" /\ task[w] # Idle
    BY <1>1 DEF WriterInv, Idle
  <2>4. OneHandler'
    BY <1>0, <1>1, <2>1, <2>2, <2>3 DEF Orderly, OneHandler, Past, Idle
  <2>5. OwnItems'
    <3>1. \A s \in Sessions : \/ file'[s] = file[s]
                              \/ file'[s] = Torn
                              \/ s = state.sid /\ file'[s] = write[w].content
      BY <1>1, <1>2, <1>5 DEF Complete, Fails, TypeOK
    <3> QED BY <1>0, <1>1, <1>2, <3>1 DEF Orderly, OwnItems, Own, Torn
  <2>6. OneWrite'
    BY <2>1 DEF OneWrite
  <2>7. \A t \in Tasks : task'[t].wait \notin {"parent", "load"}
    BY <1>3, <2>1 DEF Idle
  <2>8. behind' \/ Kept(file[state.sid].items, thrown \cup AtWork)'
    <3>1. CASE Complete(w)
      <4>1. /\ file' = [file EXCEPT ![write[w].of] = write[w].content]
            /\ behind' = (behind /\ ~SavesAll(w))
        BY <1>2, <3>1 DEF Complete
      <4>2. behind' \/ Kept(write[w].content.items, thrown)
        BY <1>2, <4>1 DEF TypeOK
      <4> QED BY <1>1, <1>2, <4>1, <4>2 DEF Kept, TypeOK
    <3>2. CASE Fails(w)
      BY <3>2 DEF Fails
    <3> QED BY <1>5, <3>1, <3>2
  <2>9. Agreed'
    BY <2>7, <2>8 DEF Agreed
  <2> QED BY <2>4, <2>5, <2>6, <2>9 DEF Orderly
<1> QED BY <1>4, <1>5

LEMMA StepIInv ==
  ASSUME IInv, [Next]_vars
  PROVE  IInv'
<1>1. TypeInv' /\ WholeInv'
  BY StepTypeInv, StepWhole DEF IInv
<1>2. ASSUME ~raced'
      PROVE  Orderly'
  <2>1. ASSUME NEW t \in Tasks, NEW s \in Sessions,
               \/ Request(t, s)
               \/ \E u \in Tasks, asked \in BOOLEAN : RequestV2(t, u, s, asked)
               \/ \E kind \in Kinds : Call(t, s, kind)
        PROVE  Orderly'
    BY <1>2, <2>1, StartOrderly
  <2>2. ASSUME NEW t \in Tasks, Continue(t) \/ Allowed(t) \/ Throws(t)
        PROVE  Orderly'
    <3>1. ~raced
      BY <1>2, <2>2
         DEF Continue, Allowed, Throws, Fetched, ParentKnown, FileRead, ManualRead, Commit, Told,
             Merged, history
    <3> QED BY <2>2, <3>1, ContinueOrderly
  <2>3. ASSUME NEW w \in Writers, Truncate(w) \/ Complete(w) \/ Fails(w)
        PROVE  Orderly'
    <3>1. ~raced
      BY <1>2, <2>3 DEF Truncate, Complete, Fails, history
    <3> QED BY <2>3, <3>1, WriteOrderly
  <2>4. CASE Crash
    <3>1. /\ ~raced /\ file' = file /\ sent' = sent
          /\ \A t \in Tasks : task'[t] = Idle /\ task'[t].wait = "idle"
          /\ \A w \in Writers : write'[w] = NoWrite
          /\ state'.sid = NoSession /\ state'.items = {}
      BY <1>2, <2>4 DEF Crash, Idle, Fresh
    <3>2. OwnItems
      BY <3>1 DEF IInv, Orderly
    <3> QED BY <3>1, <3>2 DEF Orderly, OneHandler, OwnItems, Own, OneWrite, Agreed, Past
  <2>5. CASE (\E s \in Sessions : Compact(s)) \/ UNCHANGED vars
    <3>1. ~raced /\ UNCHANGED <<state, file, task, write, sent, thrown, behind>>
      BY <1>2, <2>5 DEF Compact, vars, history
    <3>2. UNCHANGED AtWork
      BY <3>1 DEF AtWork
    <3> QED BY <3>1, <3>2
            DEF IInv, Orderly, OneHandler, OwnItems, OneWrite, Agreed, SavesAll, Kept
  <2> QED BY <2>1, <2>2, <2>3, <2>4, <2>5 DEF Next
<1> QED BY <1>1, <1>2 DEF IInv

----------------------------------------------------------------------------
(***************************************************************************)
(* The theorems.                                                           *)
(***************************************************************************)

THEOREM InvariantHolds == Spec => []IInv
<1> QED BY InitIInv, StepIInv, PTL DEF Spec

\* Memory, files, handlers and writes stay well typed through every await, failure and
\* crash.
THEOREM TypeCorrect == Spec => []TypeOK
<1>1. IInv => TypeOK
  BY DEF IInv, TypeInv
<1> QED BY <1>1, InvariantHolds, PTL

\* When the handlers of the process have run one after the other, what a session
\* decided is in its own file, in memory under its own id and in its own requests.
THEOREM SessionsKeptApartHolds == Spec => []SessionsKeptApart
<1>1. IInv => SessionsKeptApart
  BY DEF IInv, Orderly, OwnItems, Own, SessionsKeptApart
<1> QED BY <1>1, InvariantHolds, PTL

\* Once such handlers and their writes are done, the file of the session in memory
\* holds what memory holds, but for what calls that threw had pruned, unless a save or
\* a read of it has failed.
THEOREM MemoryAgreesWithFileHolds == Spec => []MemoryAgreesWithFile
<1>1. ASSUME IInv, ~raced, ~behind, Quiet, state.sid # NoSession
      PROVE  Kept(file[state.sid].items, thrown)
  <2>1. \A t \in Tasks : task[t].wait = "idle"
    BY <1>1 DEF Quiet, Idle
  <2>2. AtWork = {}
    BY <2>1 DEF AtWork
  <2> QED BY <1>1, <2>1, <2>2 DEF Quiet, IInv, Orderly, Agreed
<1>2. IInv => MemoryAgreesWithFile
  BY <1>1 DEF MemoryAgreesWithFile, Kept
<1> QED BY <1>2, InvariantHolds, PTL

============================================================================
