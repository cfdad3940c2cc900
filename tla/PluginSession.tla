---------------------------- MODULE PluginSession ----------------------------
(***************************************************************************)
(* The session of the OpenCode plugin: one state object in memory for all  *)
(* sessions, one file per session, and handlers that interleave at their   *)
(* awaits (lib/state/state.ts, lib/state/persistence.ts, lib/hooks.ts,     *)
(* lib/commands/manual.ts, the hook of index.ts for OpenCode V2).          *)
(*                                                                         *)
(* A handler is a task that stops at every await: the user's permission,   *)
(* the messages, the look at the parent session, a file, a notification. A *)
(* file is written in place, so a write is two steps, the truncation and   *)
(* the data; each may fail, two writes that overlap may leave either       *)
(* content or neither, a file may not be read, and the plugin may be       *)
(* killed at any time. What a session has decided is a set of items, each  *)
(* with the compress call that made it: the calls its strategies pruned,   *)
(* which are in memory before anything can go wrong with the call, and the *)
(* blocks it commits. Anchors, statistics and the flags of a block go the  *)
(* same way and are left out.                                              *)
(***************************************************************************)
EXTENDS Integers, FiniteSets

CONSTANTS
  Sessions,        \* sessions of the host, sub-agents included
  NoSession,       \* state.sessionId = null
  Tasks,           \* handlers that may be under way at the same time
  Kinds,           \* what the host calls: "request", "compress", "toggle", "trigger"
  Hosts,           \* the plugin interface in use: "V1", "V2"
  ManualDefault,   \* config.manualMode.enabled
  MaxStarts,       \* bound: handlers the host starts
  MaxCompactions,  \* bound: compactions of a session
  MaxCrashes       \* bound: times the host process is killed

ASSUME SessionAssumption ==
  /\ NoSession \notin Sessions /\ Tasks \cap Sessions = {}
  /\ Kinds \subseteq {"request", "compress", "toggle", "trigger"}
  /\ Hosts \subseteq {"V1", "V2"}
  /\ ManualDefault \in BOOLEAN
  /\ MaxStarts \in Nat /\ MaxCompactions \in Nat /\ MaxCrashes \in Nat

Item  == [of : Sessions, n : 1..MaxStarts, what : {"pruned", "block"}]
Modes == {"off", "active", "pending"}   \* state.manualMode

\* The file of a session; a torn one does not parse.
NoFile == [kind |-> "none", manual |-> FALSE, items |-> {}]
Torn   == [kind |-> "torn", manual |-> FALSE, items |-> {}]
Saved(manual, items) == [kind |-> "whole", manual |-> manual, items |-> items]
Files  == [kind : {"none", "torn", "whole"}, manual : BOOLEAN, items : SUBSET Item]

\* Where a handler waits: for its manual mode, for the user's permission, for the
\* session's messages, for isSubAgentSession, for the file of the session, for
\* protected output, for a notification, for the file to be merged with, for its own
\* write.
Waits == {"manual", "ask", "fetch", "parent", "load", "work", "tell", "merge", "write"}

Idle == [wait |-> "idle"]
Task == [wait : Waits, kind : Kinds \cup {"init"}, of : Sessions, n : 1..MaxStarts,
         seen : 0..MaxCompactions, manual : BOOLEAN]

\* A write of a session's file: before the truncation, or with the data under way;
\* "alone" until another write of the same file was under way at the same time.
NoWrite == [of |-> NoSession]
Write   == [of : Sessions, content : Files, open : BOOLEAN, alone : BOOLEAN]

VARIABLES
  host,         \* V1 awaits its handlers, V2 does not
  state,        \* sessionId, manualMode, the items, lastCompaction
  file,         \* the file of each session
  task,         \* the handlers under way
  write,        \* the writes of handlers, and per session the save nobody awaits
  compactions,  \* compactions in the list of each session
  starts, crashes,
  sent,         \* the last request: its session and the items applied to it
  raced,        \* history: two handlers were under way at the same time
  thrown,       \* history: what compress calls had pruned that then threw
  behind,       \* history: a save or a read of the session in memory failed
  cut           \* history: sessions whose file a crash, a write that failed or
                \* another write left torn

hostVars == <<host, compactions, starts, crashes>>
history  == <<raced, thrown, behind, cut>>
vars     == <<hostVars, state, file, task, write, sent, history>>

Writers == Tasks \cup Sessions

Fresh(sid, manual) ==
  [sid |-> sid, manual |-> manual, items |-> {}, lastCompaction |-> 0]

TypeOK ==
  /\ host \in Hosts
  /\ state \in [sid : Sessions \cup {NoSession}, manual : Modes,
                items : SUBSET Item, lastCompaction : 0..MaxCompactions]
  /\ file \in [Sessions -> Files]
  /\ task \in [Tasks -> Task \cup {Idle}]
  /\ write \in [Writers -> Write \cup {NoWrite}]
  /\ compactions \in [Sessions -> 0..MaxCompactions]
  /\ starts \in 0..MaxStarts /\ crashes \in 0..MaxCrashes
  /\ sent.of \in Sessions \cup {NoSession} /\ sent.items \subseteq Item
  /\ raced \in BOOLEAN /\ thrown \subseteq Item /\ behind \in BOOLEAN
  /\ cut \subseteq Sessions

Init ==
  /\ host \in Hosts
  /\ state = Fresh(NoSession, "off")
  /\ file = [s \in Sessions |-> NoFile]
  /\ task = [t \in Tasks |-> Idle]
  /\ write = [w \in Writers |-> NoWrite]
  /\ compactions = [s \in Sessions |-> 0]
  /\ starts = 0 /\ crashes = 0
  /\ sent = [of |-> NoSession, items |-> {}]
  /\ raced = FALSE /\ thrown = {} /\ behind = FALSE /\ cut = {}

----------------------------------------------------------------------------
(***************************************************************************)
(* Pieces of the handlers: what runs between two awaits.                   *)
(***************************************************************************)
Mode(enabled) == IF enabled THEN "active" ELSE "off"

\* saveSessionState takes its snapshot before it waits for anything.
Snapshot(st)      == Saved(st.manual # "off", st.items)
SaveOf(s, content) == [of |-> s, content |-> content, open |-> FALSE, alone |-> TRUE]

BegunInPlace(s) ==   \* variant: the maps are kept across a switch
  [state EXCEPT !.sid = s, !.manual = Mode(ManualDefault)]

\* ensureSessionInitialized for a session that is not the one in memory: the reset
\* and the new id come before the first await.
Begun(s) == Fresh(s, Mode(ManualDefault))

\* The rest of the initialisation, once the file is read: what it holds replaces
\* what is in memory, whichever session that is by now.
Loaded(st, f) ==
  IF f.kind = "whole" THEN [st EXCEPT !.manual = Mode(f.manual), !.items = f.items] ELSE st

IsCompacted(st, seen) == seen > st.lastCompaction

ClearedPast(st, seen) ==   \* variant: the time of the message after the compaction
  IF IsCompacted(st, seen)
  THEN [st EXCEPT !.items = {}, !.lastCompaction = seen + 1] ELSE st

\* checkSession: a compaction that is new clears the decisions and starts a save.
Cleared(st, seen) ==
  IF IsCompacted(st, seen) THEN [st EXCEPT !.items = {}, !.lastCompaction = seen] ELSE st

Made(k, what) == [of |-> k.of, n |-> k.n, what |-> what]

\* A save that nobody awaits (bound: one of a session at a time).
MayLeaveSave(st) ==
  \/ UNCHANGED write
  \/ /\ st.sid # NoSession /\ write[st.sid] = NoWrite
     /\ write' = [write EXCEPT ![st.sid] = SaveOf(st.sid, Snapshot(st))]

\* The transform applies what is in memory to the request; V2 has sent it already.
SentOf(k, st) == IF host = "V1" THEN [of |-> k.of, items |-> st.items] ELSE sent

Waiting(t, k, at) == task' = [task EXCEPT ![t] = [k EXCEPT !.wait = at]]
Ending(t)         == task' = [task EXCEPT ![t] = Idle]

\* A request whose session is there: a compaction that is new is saved, and a mode
\* that is pending is kept without a look at the file.
ArriveRequest(t, k, st) ==
  /\ state' = Cleared(st, k.seen)
  /\ IF IsCompacted(st, k.seen)
     THEN /\ write[k.of] = NoWrite
          /\ write' = [write EXCEPT ![k.of] = SaveOf(st.sid, Snapshot(state'))]
     ELSE IF st.manual = "pending" THEN MayLeaveSave(st) ELSE UNCHANGED write
  /\ IF st.manual = "pending"
     THEN Ending(t) /\ sent' = SentOf(k, state')
     ELSE Waiting(t, k, "manual") /\ UNCHANGED sent
  /\ UNCHANGED thrown

\* A compress call whose session is there: the strategies prune, and the ranges or
\* messages it names may be refused in the same step.
ArriveCompress(t, k, st) ==
  /\ state' = [st EXCEPT !.items = @ \cup {Made(k, "pruned")}]
  /\ \/ Waiting(t, k, "work") /\ UNCHANGED thrown
     \/ Ending(t) /\ thrown' = thrown \cup {Made(k, "pruned")}
  /\ UNCHANGED <<write, sent>>

\* What the handler k does once its session is there, up to its next await.
Arrive(t, k, st) ==
  \/ k.kind = "request" /\ ArriveRequest(t, k, st)
  \/ k.kind = "compress" /\ ArriveCompress(t, k, st)
  \/ /\ k.kind = "toggle" /\ Waiting(t, k, "tell")
     /\ state' = [st EXCEPT !.manual = Mode(@ = "off")]
     /\ UNCHANGED <<write, sent, thrown>>
  \/ /\ k.kind = "trigger" /\ Ending(t)
     /\ state' = [st EXCEPT !.manual = "pending"]
     /\ UNCHANGED <<write, sent, thrown>>
  \/ /\ k.kind = "init" /\ Ending(t)
     /\ state' = st /\ UNCHANGED <<write, sent, thrown>>

\* ensureSessionInitialized: a session that has its id in memory is taken to be
\* there, loaded or not.
EnsureSession(t, k) ==
  \/ state.sid = k.of /\ Arrive(t, k, state) /\ UNCHANGED behind
  \/ /\ state.sid # k.of
     /\ state' = Begun(k.of) /\ behind' = FALSE
     /\ Waiting(t, k, "parent")
     /\ UNCHANGED <<write, sent, thrown>>

----------------------------------------------------------------------------
(***************************************************************************)
(* The host starts a handler.                                              *)
(***************************************************************************)
\* findLastCompactionTimestamp; the adapter for V2 drops the mark of a compaction.
Seen(s) == IF host = "V1" THEN compactions[s] ELSE 0

Handler(kind, s) ==
  [wait |-> "fetch", kind |-> kind, of |-> s, n |-> starts + 1,
   seen |-> Seen(s), manual |-> FALSE]

\* A handler takes one of the slots that are free, always the same one.
MayStart(t) ==
  /\ task[t] = Idle /\ t = CHOOSE u \in Tasks : task[u] = Idle
  /\ starts < MaxStarts
  /\ starts' = starts + 1

Overlaps(t) == \/ \E u \in Tasks \ {t} : task[u] # Idle
               \/ \E s \in Sessions : write[s] # NoWrite

\* experimental.chat.messages.transform of a V1 host.
Request(t, s) ==
  /\ "request" \in Kinds /\ host = "V1" /\ MayStart(t)
  /\ EnsureSession(t, Handler("request", s))
  /\ raced' = (raced \/ Overlaps(t))
  /\ UNCHANGED <<host, compactions, crashes, file, cut>>

\* The context hook of a V2 host: the initialisation and the message transform are
\* started and not awaited, and the request goes out. A /dcp-compress turn is found
\* in between, and the transform does not read the file when the mode is pending.
RequestV2(t, u, s, asked) ==
  /\ "request" \in Kinds /\ host = "V2" /\ MayStart(t)
  /\ asked => "trigger" \in Kinds
  /\ LET k    == Handler("request", s)
         here == state.sid = s
         st   == IF here THEN state ELSE Begun(s)
     IN  /\ u # t /\ (here \/ task[u] = Idle)
         /\ state' = [st EXCEPT !.manual = IF asked THEN "pending" ELSE @]
         /\ task' = [task EXCEPT
              ![t] = IF state'.manual = "pending" THEN Idle ELSE [k EXCEPT !.wait = "manual"],
              ![u] = IF here THEN @ ELSE [k EXCEPT !.wait = "parent", !.kind = "init"]]
         /\ IF state'.manual = "pending" THEN MayLeaveSave(state') ELSE UNCHANGED write
         /\ behind' = (here /\ behind)
         /\ raced' = (raced \/ Overlaps(t) \/ ~here)
  /\ sent' = [of |-> s, items |-> {}]
  /\ UNCHANGED <<host, compactions, crashes, file, thrown, cut>>

\* Where a compress call goes once it knows its mode: a V1 host asks the user, the
\* one of V2 never does.
AfterMode == IF host = "V1" THEN "ask" ELSE "fetch"

\* The compress tool looks at the manual mode first, unless it is pending; a command
\* awaits the list.
Call(t, s, kind) ==
  /\ kind \in Kinds \ {"request"} /\ MayStart(t)
  /\ host = "V1" \/ kind = "compress"
  /\ Waiting(t, Handler(kind, s),
             IF kind # "compress" THEN "fetch"
             ELSE IF state.manual = "pending" THEN AfterMode ELSE "manual")
  /\ raced' = (raced \/ Overlaps(t))
  /\ UNCHANGED <<host, compactions, crashes, state, file, write, sent, thrown, behind, cut>>

----------------------------------------------------------------------------
(***************************************************************************)
(* The continuations.                                                      *)
(***************************************************************************)
At(t, wait) == task[t].wait = wait

\* The user, or a rule of the host, lets the compress call go on.
Allowed(t) ==
  /\ At(t, "ask") /\ Waiting(t, task[t], "fetch")
  /\ UNCHANGED <<hostVars, state, file, write, sent, history>>

\* A handler that throws: the user says no, the messages are not to be had, or an
\* entry of the compress call is refused after an earlier one has been prepared.
\* Nothing is undone and nothing is saved.
Throws(t) ==
  /\ \/ At(t, "ask")  /\ UNCHANGED thrown
     \/ At(t, "fetch") /\ UNCHANGED thrown
     \/ At(t, "work") /\ thrown' = thrown \cup {Made(task[t], "pruned")}
  /\ Ending(t)
  /\ UNCHANGED <<hostVars, state, file, write, sent, raced, behind, cut>>

\* The answer to client.session.messages; the list is the one of now.
Fetched(t) ==
  /\ At(t, "fetch")
  /\ EnsureSession(t, [task[t] EXCEPT !.seen = Seen(task[t].of)])
  /\ UNCHANGED <<hostVars, file, raced, cut>>

ParentKnown(t) ==
  /\ At(t, "parent")
  /\ state' = [state EXCEPT !.lastCompaction = task[t].seen]
  /\ Waiting(t, task[t], "load")
  /\ UNCHANGED <<hostVars, file, write, sent, history>>

\* A file that cannot be read is taken for none.
Read(s) == {file[s], NoFile}

FileReadWhole(t) ==   \* variant: a file that does not parse is read again
  /\ At(t, "load") /\ file[task[t].of].kind # "torn"
  /\ Arrive(t, task[t], Loaded(state, file[task[t].of]))
  /\ UNCHANGED <<hostVars, file, raced, behind, cut>>

FileRead(t) ==
  /\ At(t, "load")
  /\ \E f \in Read(task[t].of) :
       /\ Arrive(t, task[t], Loaded(state, f))
       /\ behind' = (behind \/ f # file[task[t].of])
  /\ UNCHANGED <<hostVars, file, raced, cut>>

\* refreshManualMode after its read: whatever the mode has become, the file has the
\* last word. A request is then pruned and sent, and may save new nudge anchors; a
\* compress call goes on unless the manual mode is on.
ManualRead(t) ==
  /\ At(t, "manual")
  /\ \E f \in Read(task[t].of) :
       state' = [state EXCEPT !.manual = Mode(IF f.kind = "whole" THEN f.manual ELSE ManualDefault)]
  /\ \/ /\ task[t].kind = "request" /\ Ending(t)
        /\ sent' = SentOf(task[t], state')
        /\ MayLeaveSave(state')
     \/ /\ task[t].kind = "compress" /\ UNCHANGED <<write, sent>>
        /\ IF state'.manual = "active" THEN Ending(t) ELSE Waiting(t, task[t], AfterMode)
  /\ UNCHANGED <<hostVars, file, history>>

\* The commit of a compress call and finalizeSession up to its save.
Commit(t) ==
  /\ At(t, "work")
  /\ state' = [state EXCEPT !.items = @ \cup {Made(task[t], "block")},
                            !.manual = IF @ = "off" THEN "off" ELSE "active"]
  /\ IF state.sid = NoSession
     THEN Waiting(t, task[t], "tell") /\ UNCHANGED write
     ELSE /\ Waiting(t, task[t], "write")
          /\ write' = [write EXCEPT ![t] = SaveOf(state.sid, Snapshot(state'))]
  /\ UNCHANGED <<hostVars, file, sent, history>>

\* The notification is out: a compress call is done, handleManualToggleCommand reads
\* the mode again.
Told(t) ==
  /\ At(t, "tell")
  /\ \/ task[t].kind = "compress" /\ Ending(t)
     \/ /\ task[t].kind = "toggle"
        /\ Waiting(t, [task[t] EXCEPT !.manual = (state.manual # "off")], "merge")
  /\ UNCHANGED <<hostVars, state, file, write, sent, history>>

MergedAnew(t) ==   \* variant: the mode is saved in a new file
  /\ At(t, "merge")
  /\ Waiting(t, task[t], "write")
  /\ write' = [write EXCEPT ![t] = SaveOf(task[t].of, Saved(task[t].manual, {}))]
  /\ UNCHANGED <<hostVars, state, file, sent, history>>

\* saveManualModeSetting: the rest of the file is written back as it was read.
Merged(t) ==
  /\ At(t, "merge")
  /\ Waiting(t, task[t], "write")
  /\ \E f \in Read(task[t].of) :
       /\ write' = [write EXCEPT ![t] = SaveOf(task[t].of, Saved(task[t].manual, f.items))]
       /\ behind' = (behind \/ f # file[task[t].of])
  /\ UNCHANGED <<hostVars, state, file, sent, raced, thrown, cut>>

----------------------------------------------------------------------------
(***************************************************************************)
(* Files.                                                                  *)
(***************************************************************************)
Rivals(w) == {v \in Writers \ {w} : write[v].of = write[w].of /\ write[v].open}

\* fs.writeFile opens and truncates the file.
Truncate(w) ==
  /\ write[w] # NoWrite /\ ~write[w].open
  /\ file' = [file EXCEPT ![write[w].of] = Torn]
  /\ write' = [v \in Writers |->
       IF v = w THEN [write[v] EXCEPT !.open = TRUE, !.alone = (Rivals(w) = {})]
       ELSE IF v \in Rivals(w) THEN [write[v] EXCEPT !.alone = FALSE]
       ELSE write[v]]
  /\ UNCHANGED <<hostVars, state, task, sent, history>>

\* What follows the write of a handler: a compress call tells the user.
Settled(w) ==
  /\ write' = [write EXCEPT ![w] = NoWrite]
  /\ IF w \notin Tasks THEN UNCHANGED task
     ELSE IF task[w].kind = "compress" THEN Waiting(w, task[w], "tell") ELSE Ending(w)

\* saveSessionState writes all that is in memory, saveManualModeSetting does not.
SavesAll(w) == w \notin Tasks \/ task[w].kind = "compress"

CompleteNothing(w) ==   \* variant: a write that fails is taken for done
  /\ write[w] # NoWrite /\ write[w].open
  /\ Settled(w)
  /\ UNCHANGED <<hostVars, state, file, sent, history>>

\* The data is there; bytes of two writes that overlapped may be mixed.
Complete(w) ==
  /\ write[w] # NoWrite /\ write[w].open
  /\ \/ /\ file' = [file EXCEPT ![write[w].of] = write[w].content]
        /\ cut' = cut \ {write[w].of}
     \/ /\ ~write[w].alone
        /\ file' = [file EXCEPT ![write[w].of] = Torn]
        /\ cut' = cut \cup {write[w].of}
  /\ behind' = (behind /\ ~SavesAll(w))
  /\ Settled(w)
  /\ UNCHANGED <<hostVars, state, sent, raced, thrown>>

\* The directory is not made, the file not opened or the data not written. The error
\* is logged, or ends the command: nothing is tried again.
Fails(w) ==
  /\ write[w] # NoWrite
  /\ \/ UNCHANGED file
     \/ write[w].open /\ file' = [file EXCEPT ![write[w].of] = Torn]
  /\ cut' = IF file'[write[w].of].kind = "torn" THEN cut \cup {write[w].of} ELSE cut
  /\ behind' = TRUE
  /\ Settled(w)
  /\ UNCHANGED <<hostVars, state, sent, raced, thrown>>

----------------------------------------------------------------------------
\* The host compacts a session: its list holds one more compaction.
Compact(s) ==
  /\ compactions[s] < MaxCompactions
  /\ compactions' = [compactions EXCEPT ![s] = @ + 1]
  /\ UNCHANGED <<host, starts, crashes, state, file, task, write, sent, history>>

\* The process is killed; a new one begins with createSessionState.
Crash ==
  /\ crashes < MaxCrashes
  /\ crashes' = crashes + 1
  /\ state' = Fresh(NoSession, "off")
  /\ task' = [t \in Tasks |-> Idle]
  /\ write' = [w \in Writers |-> NoWrite]
  /\ behind' = FALSE
  /\ cut' = cut \cup {write[w].of : w \in {v \in Writers : write[v] # NoWrite /\ write[v].open}}
  /\ UNCHANGED <<host, compactions, starts, file, sent, raced, thrown>>

Continue(t) ==
  \/ Fetched(t) \/ ParentKnown(t) \/ FileRead(t) \/ ManualRead(t)
  \/ Commit(t) \/ Told(t) \/ Merged(t)

Next ==
  \/ \E t \in Tasks, s \in Sessions :
       \/ Request(t, s)
       \/ \E u \in Tasks, asked \in BOOLEAN : RequestV2(t, u, s, asked)
       \/ \E kind \in Kinds : Call(t, s, kind)
  \/ \E t \in Tasks : Continue(t) \/ Allowed(t) \/ Throws(t)
  \/ \E w \in Writers : Truncate(w) \/ Complete(w) \/ Fails(w)
  \/ \E s \in Sessions : Compact(s)
  \/ Crash

\* An await that was answered resumes: the event loop serves every continuation, the
\* host answers what the plugin asks it, and the operating system finishes every
\* write or gives up on it. Nobody has to answer for the user.
Fairness ==
  /\ \A t \in Tasks : WF_vars(Continue(t))
  /\ \A w \in Writers : WF_vars(Truncate(w)) /\ WF_vars(Complete(w))

Spec == Init /\ [][Next]_vars /\ Fairness

----------------------------------------------------------------------------
(***************************************************************************)
(* Properties.                                                             *)
(***************************************************************************)
Quiet == (\A t \in Tasks : task[t] = Idle) /\ (\A w \in Writers : write[w] = NoWrite)

\* When the handlers of the process have run one after the other, what a session
\* decided is in its own file, in memory under its own id and in its own requests,
\* across switches of the session, crashes and files that did not parse.
SessionsKeptApart ==
  ~raced => /\ \A s \in Sessions : \A i \in file[s].items : i.of = s
            /\ \A i \in state.items : i.of = state.sid
            /\ \A i \in sent.items : i.of = sent.of

\* Nothing decided is lost or left behind: once such handlers are done, the file of
\* the session in memory holds what memory holds, but for what the strategies had
\* pruned for a compress call that threw, unless a save or a read of it has failed
\* since. What a session has no longer decided is not in its file either.
MemoryAgreesWithFile ==
  ~raced /\ ~behind /\ Quiet /\ state.sid # NoSession =>
    /\ file[state.sid].items \subseteq state.items
    /\ state.items \ file[state.sid].items \subseteq thrown

\* Every handler the host started ends or comes to ask the user, in whatever order
\* the event loop serves the answers, or dies with the process; one the user has let
\* go on ends.
HandlersEnd ==
  \A t \in Tasks : task[t] # Idle ~> (task[t] = Idle \/ At(t, "ask"))

\* A file that does not parse is one a write is about to complete, or a crash, a
\* write that failed or an overlapping write has left it so.
TornIsTransient ==
  \A s \in Sessions : file[s].kind = "torn" ~> (file[s].kind = "whole" \/ s \in cut)

==============================================================================
