------------------------------ MODULE FileStore ------------------------------
(***************************************************************************)
(* Saving a session: hosts' tasks call pruners, a pruner saves after every *)
(* transform (ContextPruner::transform_messages, save), and FileStateStore *)
(* replaces <session>.json by a temporary file, step by step.              *)
(*                                                                         *)
(* A task holds its pruner's lock for the whole call, the save included    *)
(* (ContextPrunerAsync: a fair tokio Mutex; DcpPruner: a std Mutex). Two   *)
(* pruners, in one process or in two, share the directory and no lock.     *)
(* Every step of save may fail, a process may end between two steps, and   *)
(* a power loss may undo what was not synced: the contents of a file, the  *)
(* name it was given by a rename, a deletion. A synced directory is taken  *)
(* to be safe. Of an envelope we keep whose it is and how new it is.       *)
(***************************************************************************)
EXTENDS Integers, Sequences, FiniteSets

CONSTANTS
  Tasks, Pruners, Sessions,
  KeepBackup,   \* config.persistence.keep_backup
  MaxChanges,   \* bound: changes of state a run makes
  MaxRuns,      \* bound: pruners ever built
  MaxLosses,    \* bound: power losses and deletions
  None,         \* no session, no file
  Half          \* contents that do not parse

ASSUME StoreAssumption ==
  /\ KeepBackup \in BOOLEAN
  /\ MaxChanges \in Nat /\ MaxRuns \in Nat /\ MaxLosses \in Nat

Run  == 1..MaxRuns   \* a pruner between its building and its end

Envelope == [session : Sessions, run : Run, version : 0..MaxChanges]

ASSUME NamesAssumption ==
  /\ None # Half /\ {None, Half} \cap Envelope = {}
  /\ None \notin Sessions /\ None \notin Pruners
  /\ None \notin [data : Envelope \cup {Half}, kept : BOOLEAN]

VARIABLES
  pruner,   \* per pruner: its run (0: not there), session id, changes so far
  queue,    \* per pruner: the tasks at its lock, the first one holds it
  task,     \* per task: its step, pruner, call and the save under way
  names,    \* per session: the files its name may lead to after a loss, the last now
  runs,     \* pruners built so far
  losses,   \* power losses and deletions so far
  acked     \* history: per run and session, the newest change a save confirmed

vars == <<pruner, queue, task, names, runs, losses, acked>>

\* A file: what it holds, and whether that survives a power loss.
File == [data : Envelope \cup {Half}, kept : BOOLEAN]

\* A call: on a session's pruner, with the id set_session_id or the last message gives.
Ops   == {"transform", "save", "bind", "reset"}
Steps == {"idle", "called", "backup", "create", "write", "sync", "rename", "syncdir"}

PrunerState == [run : 0..MaxRuns, session : Sessions \cup {None}, version : 0..MaxChanges]

TaskState == [step : Steps, pruner : Pruners \cup {None}, op : Ops,
              session : Sessions \cup {None}, envelope : Envelope \cup {Half},
              temp : File \cup {None}]

Idle == [step |-> "idle", pruner |-> None, op |-> "save", session |-> None,
         envelope |-> Half, temp |-> None]

Gone == [run |-> 0, session |-> None, version |-> 0]

TypeOK ==
  /\ pruner \in [Pruners -> PrunerState]
  /\ queue \in [Pruners -> Seq(Tasks)]
  /\ task \in [Tasks -> TaskState]
  /\ names \in [Sessions -> Seq(File \cup {None})]
  /\ \A s \in Sessions : names[s] # <<>>
  /\ runs \in 0..MaxRuns /\ losses \in 0..MaxLosses
  /\ acked \in [Run -> [Sessions -> 0..MaxChanges]]

Init ==
  /\ pruner = [p \in Pruners |-> Gone]
  /\ queue = [p \in Pruners |-> <<>>]
  /\ task = [t \in Tasks |-> Idle]
  /\ names = [s \in Sessions |-> <<None>>]
  /\ runs = 0 /\ losses = 0
  /\ acked = [r \in Run |-> [s \in Sessions |-> 0]]

Target(s) == names[s][Len(names[s])]

----------------------------------------------------------------------------
(***************************************************************************)
(* Pruners and their calls.                                                *)
(***************************************************************************)
\* ContextPrunerBuilder::build: nothing is loaded.
Build(p) ==
  /\ pruner[p].run = 0 /\ runs < MaxRuns
  /\ runs' = runs + 1
  /\ pruner' = [pruner EXCEPT ![p] = [Gone EXCEPT !.run = runs + 1]]
  /\ UNCHANGED <<queue, task, names, losses, acked>>

Call(t, p, op, s) ==
  /\ task[t].step = "idle" /\ pruner[p].run # 0
  /\ op = "transform" => pruner[p].version < MaxChanges
  /\ task' = [task EXCEPT ![t] = [Idle EXCEPT !.step = "called", !.pruner = p,
                                              !.op = op, !.session = s]]
  /\ queue' = [queue EXCEPT ![p] = Append(@, t)]
  /\ UNCHANGED <<pruner, names, runs, losses, acked>>

\* A task that is called runs when the lock comes to it.
Runs(t, op) ==
  /\ task[t].step = "called" /\ task[t].op = op
  /\ LET q == queue[task[t].pruner] IN q # <<>> /\ Head(q) = t

\* The lock goes from its holder to the next task.
Leave(t) == [queue EXCEPT ![task[t].pruner] = IF @ # <<>> /\ Head(@) = t THEN Tail(@) ELSE @]

Release(t) == task' = [task EXCEPT ![t] = Idle] /\ queue' = Leave(t)

\* build_persisted, then FileStateStore::save under the pruner's session id.
Saving(t, state) ==
  [task[t] EXCEPT
    !.step = IF KeepBackup /\ Target(state.session) # None THEN "backup" ELSE "create",
    !.session = state.session,
    !.envelope = [session |-> state.session, run |-> state.run, version |-> state.version]]

SaveUnlocked(t, state) ==   \* variant: the lock is given back before the save
  /\ state.session # None
  /\ task' = [task EXCEPT ![t] = Saving(t, state)] /\ queue' = Leave(t)
SaveRelocked(t, state) ==   \* variant: the save waits for the lock its caller holds
  state.session = None /\ Release(t)
Save(t, state) ==
  IF state.session = None THEN Release(t)
  ELSE task' = [task EXCEPT ![t] = Saving(t, state)] /\ UNCHANGED queue

\* sync_state names a session after the last message when the host has not.
Named(state, s) == IF state.session = None THEN [state EXCEPT !.session = s] ELSE state

ChangedTwice(state) == [state EXCEPT !.version = @ + 2]   \* variant: counted twice
Changed(state) == [state EXCEPT !.version = @ + 1]

\* transform_messages_inner: disabled, it returns at once; for a sub-agent, whose
\* sessions are not pruned, before it saves.
Transform(t) ==
  /\ Runs(t, "transform")
  /\ LET p   == task[t].pruner
         new == Changed(Named(pruner[p], task[t].session))
     IN  \/ UNCHANGED pruner /\ Release(t)
         \/ /\ pruner[p].version < MaxChanges
            /\ pruner' = [pruner EXCEPT ![p] = new]
            /\ Release(t) \/ Save(t, new)
  /\ UNCHANGED <<names, runs, losses, acked>>

SaveCall(t) ==
  /\ Runs(t, "save") /\ Save(t, pruner[task[t].pruner])
  /\ UNCHANGED <<pruner, names, runs, losses, acked>>

\* set_session_id, bind_session: the state stays as it is.
Bind(t) ==
  /\ Runs(t, "bind") /\ Release(t)
  /\ pruner' = [pruner EXCEPT ![task[t].pruner].session = task[t].session]
  /\ UNCHANGED <<names, runs, losses, acked>>

Reset(t) ==
  /\ Runs(t, "reset") /\ Release(t)
  /\ LET p == task[t].pruner
     IN  IF pruner[p].version = MaxChanges THEN UNCHANGED pruner
         ELSE pruner' = [pruner EXCEPT ![p] = [Changed(@) EXCEPT !.session = None]]
  /\ UNCHANGED <<names, runs, losses, acked>>

----------------------------------------------------------------------------
(***************************************************************************)
(* FileStateStore::save.                                                   *)
(***************************************************************************)
Goes(t, from, to) == task[t].step = from /\ task' = [task EXCEPT ![t] = to]

\* The copy to <session>.json.bak, which nothing ever reads; that it fails is told.
Backup(t) ==
  /\ Goes(t, "backup", [task[t] EXCEPT !.step = "create"])
  /\ UNCHANGED <<pruner, queue, names, runs, losses, acked>>

Create(t) ==
  /\ Goes(t, "create", [task[t] EXCEPT !.step = "write",
                                       !.temp = [data |-> Half, kept |-> FALSE]])
  /\ UNCHANGED <<pruner, queue, names, runs, losses, acked>>

Write(t) ==
  /\ Goes(t, "write", [task[t] EXCEPT !.step = "sync", !.temp.data = task[t].envelope])
  /\ UNCHANGED <<pruner, queue, names, runs, losses, acked>>

SyncNot(t) ==   \* variant: the file is renamed before its contents are safe
  /\ Goes(t, "sync", [task[t] EXCEPT !.step = "rename"])
  /\ UNCHANGED <<pruner, queue, names, runs, losses, acked>>
Sync(t) ==
  /\ Goes(t, "sync", [task[t] EXCEPT !.step = "rename", !.temp.kept = TRUE])
  /\ UNCHANGED <<pruner, queue, names, runs, losses, acked>>

Rename(t) ==
  /\ Goes(t, "rename", [task[t] EXCEPT !.step = "syncdir", !.temp = None])
  /\ names' = [names EXCEPT ![task[t].session] = Append(@, task[t].temp)]
  /\ UNCHANGED <<pruner, queue, runs, losses, acked>>

\* The save has succeeded, and the call returns.
SyncDir(t) ==
  /\ task[t].step = "syncdir" /\ Release(t)
  /\ names' = [s \in Sessions |-> <<Target(s)>>]
  /\ LET e == task[t].envelope
     IN  acked' = IF acked[e.run][e.session] >= e.version THEN acked
                  ELSE [acked EXCEPT ![e.run][e.session] = e.version]
  /\ UNCHANGED <<pruner, runs, losses>>

\* The temporary file stays, nothing reads it; a transform counts the failure and
\* returns its messages, save returns the error.
Fail(t) ==
  /\ task[t].step \in {"create", "write", "sync", "rename"} /\ Release(t)
  /\ UNCHANGED <<pruner, names, runs, losses, acked>>

----------------------------------------------------------------------------
(***************************************************************************)
(* Hosts and machines.                                                     *)
(***************************************************************************)
\* A pruner ends with its process, and with it the calls on it.
End(p) ==
  /\ pruner[p].run # 0
  /\ pruner' = [pruner EXCEPT ![p] = Gone]
  /\ queue' = [queue EXCEPT ![p] = <<>>]
  /\ task' = [t \in Tasks |-> IF task[t].pruner = p THEN Idle ELSE task[t]]
  /\ UNCHANGED <<names, runs, losses, acked>>

Delete(s) ==
  /\ losses < MaxLosses /\ Target(s) # None
  /\ losses' = losses + 1
  /\ names' = [names EXCEPT ![s] = Append(@, None)]
  /\ UNCHANGED <<pruner, queue, task, runs, acked>>

\* What is left of a file.
Remains(f) == IF f = None \/ f.kept THEN f ELSE [data |-> Half, kept |-> TRUE]

PowerLoss ==
  /\ losses < MaxLosses
  /\ losses' = losses + 1
  /\ pruner' = [p \in Pruners |-> Gone]
  /\ queue' = [p \in Pruners |-> <<>>]
  /\ task' = [t \in Tasks |-> Idle]
  /\ \E left \in [Sessions -> UNION {DOMAIN names[s] : s \in Sessions}] :
       /\ \A s \in Sessions : left[s] \in DOMAIN names[s]
       /\ names' = [s \in Sessions |-> <<Remains(names[s][left[s]])>>]
  /\ UNCHANGED <<runs, acked>>

TaskStep(t) ==
  \/ Transform(t) \/ SaveCall(t) \/ Bind(t) \/ Reset(t)
  \/ Backup(t) \/ Create(t) \/ Write(t) \/ Sync(t) \/ Rename(t) \/ SyncDir(t)
  \/ Fail(t)

Next ==
  \/ \E p \in Pruners : Build(p) \/ End(p)
  \/ \E t \in Tasks, p \in Pruners, op \in Ops, s \in Sessions : Call(t, p, op, s)
  \/ \E t \in Tasks : TaskStep(t)
  \/ \E s \in Sessions : Delete(s)
  \/ PowerLoss

\* A thread that can take a step takes it; calls, ends and losses are not owed.
Spec == Init /\ [][Next]_vars /\ \A t \in Tasks : WF_vars(TaskStep(t))

----------------------------------------------------------------------------
(***************************************************************************)
(* Properties.                                                             *)
(***************************************************************************)
\* What load returns, now or after a power loss: nothing, or one whole envelope
\* somebody saved; a step replaces it as a whole, deletes it, makes it safe or
\* goes back to an earlier one that was not yet safe.
Holds(f) == IF f = None THEN None ELSE IF f.kept THEN f.data ELSE Half
Saved == INSTANCE SavedSessions
           WITH line <- [s \in Sessions |-> [i \in DOMAIN names[s] |-> Holds(names[s][i])]]
ImplementsSavedSessions == Saved!Spec

\* Once a save of a run has returned without an error, no interleaving with that
\* run's other calls and no power loss brings an older envelope of it back.
AcknowledgedSurvives ==
  \A s \in Sessions : \A i \in DOMAIN names[s] :
    names[s][i] # None =>
      LET e == names[s][i].data IN e # Half => e.version >= acked[e.run][s]

\* Every call returns, whatever the others do, however saves fail.
CallsReturn == \A t \in Tasks : task[t].step # "idle" ~> task[t].step = "idle"
=============================================================================
