-------------------------- MODULE FileStoreProofs --------------------------
(***************************************************************************)
(* FileStore implements SavedSessions, and a confirmed save is never       *)
(* undone, for any number of tasks, pruners, sessions, changes and power   *)
(* losses. The argument: a task that saves is first at its pruner's lock,  *)
(* so its envelope is the pruner's present state and no other task of that *)
(* run puts a file in place before it is done; a file gets its name only   *)
(* after its contents are complete and safe.                               *)
(***************************************************************************)
EXTENDS FileStore, TLAPS

Saves == {"backup", "create", "write", "sync", "rename", "syncdir"}

\* A task and its lock: a call is on a pruner that is there, the task that saves is
\* first in line and saves the state the pruner has, step after step.
TaskInv(t) ==
  LET w == task[t] IN
  /\ w.step # "idle" =>
       w.pruner \in Pruners /\ w.session \in Sessions /\ pruner[w.pruner].run # 0
  /\ w.step \in Saves =>
       /\ queue[w.pruner] # <<>> /\ Head(queue[w.pruner]) = t
       /\ w.envelope \in Envelope
       /\ w.envelope.session = w.session
       /\ w.envelope.run = pruner[w.pruner].run
       /\ w.envelope.version = pruner[w.pruner].version
  /\ w.step \in {"write", "sync", "rename"} => w.temp \in File
  /\ w.step \in {"sync", "rename"} => w.temp.data = w.envelope
  /\ w.step = "rename" => w.temp.kept = TRUE

TaskInvs == \A t \in Tasks : TaskInv(t)

\* Runs are never given twice, and nothing is confirmed beyond a run's state.
RunInv ==
  /\ \A p, q \in Pruners : pruner[p].run # 0 /\ pruner[p].run = pruner[q].run => p = q
  /\ \A p \in Pruners : pruner[p].run <= runs
  /\ \A r \in Run, s \in Sessions : r > runs => acked[r][s] = 0
  /\ \A p \in Pruners, s \in Sessions :
       pruner[p].run # 0 => acked[pruner[p].run][s] <= pruner[p].version

\* A file with a session's name is whole and safe.
Whole(f) == f \in File /\ f.kept = TRUE /\ f.data \in Envelope
FilesInv == \A s \in Sessions : \A i \in DOMAIN names[s] : names[s][i] # None => Whole(names[s][i])

\* Once a file has its name, only another run or a deletion can push it off the
\* end of the line before its save returns.
Behind(t) ==
  task[t].step = "syncdir" =>
    LET e == task[t].envelope
        f == Target(e.session)
    IN  f # None /\ f.data.run = e.run => f.data.version >= e.version

AckInv == AcknowledgedSurvives /\ \A t \in Tasks : Behind(t)

IInv == TypeOK /\ TaskInvs /\ RunInv /\ FilesInv /\ AckInv
----------------------------------------------------------------------------
LEMMA IdleTask == Idle \in TaskState /\ Idle.step = "idle"
  BY NamesAssumption DEF Idle, TaskState, Steps, Ops

LEMMA RunPositive == \A r \in Run : r \in Nat /\ r # 0 /\ r \in 0..MaxRuns
  BY StoreAssumption DEF Run

LEMMA InitInv == Init => IInv
<1> SUFFICES ASSUME Init PROVE IInv
  OBVIOUS
<1> USE DEF Init
<1>1. TypeOK
  <2>1. Gone \in PrunerState
    BY StoreAssumption DEF Gone, PrunerState
  <2>2. \A s \in Sessions : names[s] \in Seq(File \cup {None}) /\ names[s] # <<>>
    OBVIOUS
  <2> QED
    BY <2>1, <2>2, IdleTask, StoreAssumption DEF TypeOK, Run
<1>2. TaskInvs
  BY DEF TaskInvs, TaskInv, Idle, Saves
<1>3. RunInv
  BY StoreAssumption DEF RunInv, Gone, Run
<1>4. FilesInv
  BY DEF FilesInv
<1>5. AckInv
  BY DEF AckInv, AcknowledgedSurvives, Behind, Idle
<1> QED
  BY <1>1, <1>2, <1>3, <1>4, <1>5 DEF IInv

(***************************************************************************)
(* What the calls of one task leave of the others.                         *)
(***************************************************************************)
\* Task t has moved, the other tasks have not, and a lock it was not the holder of
\* has the same line.
Moved(t) ==
  /\ task' \in [Tasks -> TaskState]
  /\ queue' \in [Pruners -> Seq(Tasks)]
  /\ \A u \in Tasks \ {t} : task'[u] = task[u]
  /\ \A p \in Pruners : queue'[p] = queue[p] \/ (queue[p] # <<>> /\ Head(queue[p]) = t)

\* A pruner changes at most under the lock, and stays the run it is.
PrunerKept(t) ==
  /\ pruner' \in [Pruners -> PrunerState]
  /\ \A p \in Pruners : pruner'[p].run = pruner[p].run
  /\ \A p \in Pruners : pruner'[p] = pruner[p] \/ (queue[p] # <<>> /\ Head(queue[p]) = t)

LEMMA OthersKept ==
  ASSUME TypeOK, TaskInvs, NEW t \in Tasks, Moved(t), PrunerKept(t)
  PROVE  \A u \in Tasks \ {t} : TaskInv(u)'
<1> SUFFICES ASSUME NEW u \in Tasks \ {t} PROVE TaskInv(u)'
  OBVIOUS
<1> DEFINE w == task[u]
<1>1. TaskInv(u) /\ task'[u] = w
  BY DEF TaskInvs, Moved
<1>2. w.step # "idle" =>
        w.pruner \in Pruners /\ w.session \in Sessions /\ pruner'[w.pruner].run # 0
  BY <1>1 DEF TaskInv, PrunerKept
<1>3. ASSUME w.step \in Saves
      PROVE  /\ queue'[w.pruner] # <<>> /\ Head(queue'[w.pruner]) = u
             /\ w.envelope \in Envelope
             /\ w.envelope.session = w.session
             /\ w.envelope.run = pruner'[w.pruner].run
             /\ w.envelope.version = pruner'[w.pruner].version
  <2>1. w.step # "idle"
    BY <1>3 DEF Saves
  <2>2. w.pruner \in Pruners /\ queue[w.pruner] # <<>> /\ Head(queue[w.pruner]) = u
    BY <1>1, <1>3, <2>1 DEF TaskInv
  <2>3. queue'[w.pruner] = queue[w.pruner] /\ pruner'[w.pruner] = pruner[w.pruner]
    BY <2>2 DEF Moved, PrunerKept
  <2> QED
    BY <1>1, <1>3, <2>2, <2>3 DEF TaskInv
<1> QED
  BY <1>1, <1>2, <1>3 DEF TaskInv

\* The lock goes back: the task is idle, the others keep theirs.
LEMMA ReleaseMoves ==
  ASSUME TypeOK, NEW t \in Tasks, task[t].pruner \in Pruners, Release(t)
  PROVE  Moved(t) /\ task'[t] = Idle /\ TaskInv(t)'
<1>1. task' = [task EXCEPT ![t] = Idle] /\ task \in [Tasks -> TaskState]
  BY DEF Release, TypeOK
<1> DEFINE q == task[t].pruner
           left == IF queue[q] # <<>> /\ Head(queue[q]) = t THEN Tail(queue[q]) ELSE queue[q]
<1>2. queue' = [queue EXCEPT ![q] = left] /\ queue \in [Pruners -> Seq(Tasks)]
  BY DEF Release, Leave, TypeOK
<1>3. left \in Seq(Tasks)
  <2>1. queue[q] \in Seq(Tasks)
    BY <1>2
  <2> QED
    BY <2>1
<1> HIDE DEF left
<1>4. queue' \in [Pruners -> Seq(Tasks)]
  BY <1>2, <1>3
<1>5. \A p \in Pruners : queue'[p] = queue[p] \/ (queue[p] # <<>> /\ Head(queue[p]) = t)
  BY <1>2 DEF left
<1>6. task'[t] = Idle /\ \A u \in Tasks \ {t} : task'[u] = task[u]
  BY <1>1
<1>7. TaskInv(t)'
  BY <1>6, IdleTask DEF TaskInv, Saves
<1> QED
  BY <1>1, <1>4, <1>5, <1>6, <1>7, IdleTask DEF Moved

\* A save begins with the state the pruner has, under the lock.
LEMMA SaveMoves ==
  ASSUME TypeOK, TaskInvs, NEW t \in Tasks, NEW op, Runs(t, op),
         NEW state \in PrunerState, state.run # 0,
         pruner'[task[t].pruner] = state, Save(t, state)
  PROVE  Moved(t) /\ TaskInv(t)' /\ task'[t].step # "syncdir"
<1>1. task[t].pruner \in Pruners /\ task[t] \in TaskState
  BY DEF TypeOK, TaskInvs, TaskInv, Runs
<1>2. CASE state.session = None
  BY <1>1, <1>2, ReleaseMoves, IdleTask DEF Save
<1>3. CASE state.session # None
  <2> DEFINE w == Saving(t, state)
             p == task[t].pruner
  <2>1. task' = [task EXCEPT ![t] = w] /\ queue' = queue
    BY <1>3 DEF Save
  <2>2. state.session \in Sessions
    BY <1>3 DEF PrunerState
  <2>3. state.run \in Run
    BY StoreAssumption DEF PrunerState, Run
  <2>4. [session |-> state.session, run |-> state.run, version |-> state.version] \in Envelope
    BY <2>2, <2>3 DEF Envelope, PrunerState
  <2>5. /\ w \in TaskState /\ w.step \in {"backup", "create"} /\ w.pruner = p
        /\ w.session = state.session
        /\ w.envelope = [session |-> state.session, run |-> state.run,
                         version |-> state.version]
    BY <1>1, <2>2, <2>4 DEF Saving, TaskState, Steps
  <2> HIDE DEF w
  <2>6. task \in [Tasks -> TaskState] /\ queue \in [Pruners -> Seq(Tasks)]
    BY DEF TypeOK
  <2>7. Moved(t)
    BY <2>1, <2>5, <2>6 DEF Moved
  <2>8. task'[t] = w
    BY <2>1, <2>6
  <2>9. queue'[p] # <<>> /\ Head(queue'[p]) = t
    BY <2>1 DEF Runs
  <2>10. TaskInv(t)'
    BY <1>1, <2>2, <2>4, <2>5, <2>8, <2>9 DEF TaskInv, Saves
  <2> QED
    BY <2>5, <2>7, <2>8, <2>10
<1> QED
  BY <1>2, <1>3

----------------------------------------------------------------------------
(***************************************************************************)
(* Steps that put no file in place.                                        *)
(***************************************************************************)
LEMMA NamesSame ==
  ASSUME IInv, NEW t \in Tasks, Moved(t), TaskInv(t)', task'[t].step # "syncdir",
         PrunerKept(t), \A p \in Pruners : pruner'[p].version >= pruner[p].version,
         UNCHANGED <<names, runs, losses, acked>>
  PROVE  IInv'
<1> USE DEF IInv
<1>1. TypeOK'
  BY DEF TypeOK, Moved, PrunerKept
<1>2. TaskInvs'
  BY OthersKept DEF TaskInvs
<1>3. RunInv'
  <2>1. \A p \in Pruners, s \in Sessions :
          pruner[p].run # 0 => acked[pruner[p].run][s] <= pruner'[p].version
    <3> SUFFICES ASSUME NEW p \in Pruners, NEW s \in Sessions, pruner[p].run # 0
                 PROVE  acked[pruner[p].run][s] <= pruner'[p].version
      OBVIOUS
    <3>1. pruner[p] \in PrunerState /\ pruner'[p] \in PrunerState
      BY DEF TypeOK, PrunerKept
    <3>2. pruner[p].run \in Run
      BY <3>1, StoreAssumption DEF PrunerState, Run
    <3>3. acked[pruner[p].run][s] \in 0..MaxChanges
      BY <3>2 DEF TypeOK
    <3>4. acked[pruner[p].run][s] <= pruner[p].version
      BY DEF RunInv
    <3> QED
      BY <3>1, <3>3, <3>4, StoreAssumption DEF PrunerState
  <2> QED
    BY <2>1 DEF RunInv, PrunerKept
<1>4. FilesInv'
  BY DEF FilesInv
<1>5. AckInv'
  <2>1. AcknowledgedSurvives'
    BY DEF AckInv, AcknowledgedSurvives
  <2>2. \A u \in Tasks : Behind(u)'
    BY DEF AckInv, Behind, Moved, Target
  <2> QED
    BY <2>1, <2>2 DEF AckInv
<1> QED
  BY <1>1, <1>2, <1>3, <1>4, <1>5

LEMMA PrunerSame ==
  ASSUME TypeOK, NEW t \in Tasks, pruner' = pruner
  PROVE  PrunerKept(t) /\ \A p \in Pruners : pruner'[p].version >= pruner[p].version
  BY StoreAssumption DEF TypeOK, PrunerKept, PrunerState

\* A task that runs holds the lock of a pruner that is there.
LEMMA RunsHolds ==
  ASSUME TypeOK, TaskInvs, NEW t \in Tasks, NEW op, Runs(t, op)
  PROVE  /\ task[t].pruner \in Pruners /\ task[t].session \in Sessions
         /\ pruner[task[t].pruner] \in PrunerState /\ pruner[task[t].pruner].run # 0
         /\ queue[task[t].pruner] # <<>> /\ Head(queue[task[t].pruner]) = t
  BY DEF TypeOK, TaskInvs, TaskInv, Runs

\* What a task holding the lock may make of its pruner.
LEMMA PrunerMoves ==
  ASSUME TypeOK, TaskInvs, NEW t \in Tasks, NEW op, Runs(t, op), NEW new \in PrunerState,
         new.run = pruner[task[t].pruner].run,
         new.version >= pruner[task[t].pruner].version,
         pruner' = [pruner EXCEPT ![task[t].pruner] = new]
  PROVE  /\ PrunerKept(t) /\ \A p \in Pruners : pruner'[p].version >= pruner[p].version
         /\ pruner'[task[t].pruner] = new
<1>1. pruner \in [Pruners -> PrunerState]
  BY DEF TypeOK
<1>2. \A p \in Pruners : pruner[p].version \in 0..MaxChanges
  BY <1>1 DEF PrunerState
<1> QED
  BY <1>1, <1>2, RunsHolds, StoreAssumption DEF PrunerKept

LEMMA TransformStep == ASSUME IInv, NEW t \in Tasks, Transform(t) PROVE IInv'
<1> DEFINE p   == task[t].pruner
           new == Changed(Named(pruner[p], task[t].session))
<1>1. TypeOK /\ TaskInvs
  BY DEF IInv
<1>2. Runs(t, "transform") /\ UNCHANGED <<names, runs, losses, acked>>
  BY DEF Transform
<1>3. /\ p \in Pruners /\ task[t].session \in Sessions
      /\ pruner[p] \in PrunerState /\ pruner[p].run # 0
  BY <1>1, <1>2, RunsHolds
<1>4. CASE UNCHANGED pruner /\ Release(t)
  BY <1>1, <1>2, <1>3, <1>4, ReleaseMoves, PrunerSame, NamesSame, IdleTask
<1>5. CASE /\ pruner[p].version < MaxChanges
           /\ pruner' = [pruner EXCEPT ![p] = new]
           /\ Release(t) \/ Save(t, new)
  <2>1. /\ new \in PrunerState /\ new.run = pruner[p].run
        /\ new.version = pruner[p].version + 1
    BY <1>3, <1>5, StoreAssumption DEF Changed, Named, PrunerState
  <2> HIDE DEF new
  <2>2. /\ PrunerKept(t) /\ \A q \in Pruners : pruner'[q].version >= pruner[q].version
        /\ pruner'[p] = new
    <3>1. new.version >= pruner[p].version
      BY <1>3, <2>1 DEF PrunerState
    <3> QED
      BY <1>1, <1>2, <1>5, <2>1, <3>1, PrunerMoves
  <2>3. Moved(t) /\ TaskInv(t)' /\ task'[t].step # "syncdir"
    <3>1. CASE Release(t)
      BY <1>1, <1>3, <3>1, ReleaseMoves, IdleTask
    <3>2. CASE Save(t, new)
      BY <1>1, <1>2, <1>3, <2>1, <2>2, <3>2, SaveMoves
    <3> QED
      BY <1>5, <3>1, <3>2
  <2> QED
    BY <1>2, <2>2, <2>3, NamesSame
<1> QED
  BY <1>4, <1>5 DEF Transform

LEMMA SaveCallStep == ASSUME IInv, NEW t \in Tasks, SaveCall(t) PROVE IInv'
<1> DEFINE p == task[t].pruner
<1>1. TypeOK /\ TaskInvs
  BY DEF IInv
<1>2. Runs(t, "save") /\ Save(t, pruner[p]) /\ UNCHANGED <<pruner, names, runs, losses, acked>>
  BY DEF SaveCall
<1>3. p \in Pruners /\ pruner[p] \in PrunerState /\ pruner[p].run # 0
  BY <1>1, <1>2, RunsHolds
<1>4. Moved(t) /\ TaskInv(t)' /\ task'[t].step # "syncdir"
  BY <1>1, <1>2, <1>3, SaveMoves
<1> QED
  BY <1>1, <1>2, <1>4, PrunerSame, NamesSame

LEMMA BindStep == ASSUME IInv, NEW t \in Tasks, Bind(t) PROVE IInv'
<1> DEFINE p   == task[t].pruner
           new == [pruner[p] EXCEPT !.session = task[t].session]
<1>1. TypeOK /\ TaskInvs
  BY DEF IInv
<1>2. /\ Runs(t, "bind") /\ Release(t) /\ UNCHANGED <<names, runs, losses, acked>>
      /\ pruner' = [pruner EXCEPT ![p] = new]
  BY <1>1 DEF Bind, TypeOK
<1>3. /\ p \in Pruners /\ task[t].session \in Sessions
      /\ pruner[p] \in PrunerState
  BY <1>1, <1>2, RunsHolds
<1>4. new \in PrunerState /\ new.run = pruner[p].run /\ new.version >= pruner[p].version
  BY <1>3, StoreAssumption DEF PrunerState
<1> HIDE DEF new
<1>5. PrunerKept(t) /\ \A q \in Pruners : pruner'[q].version >= pruner[q].version
  BY <1>1, <1>2, <1>4, PrunerMoves
<1> QED
  BY <1>1, <1>2, <1>3, <1>5, ReleaseMoves, NamesSame, IdleTask

LEMMA ResetStep == ASSUME IInv, NEW t \in Tasks, Reset(t) PROVE IInv'
<1> DEFINE p   == task[t].pruner
           new == [Changed(pruner[p]) EXCEPT !.session = None]
<1>1. TypeOK /\ TaskInvs
  BY DEF IInv
<1>2. Runs(t, "reset") /\ Release(t) /\ UNCHANGED <<names, runs, losses, acked>>
  BY DEF Reset
<1>3. p \in Pruners /\ pruner[p] \in PrunerState
  BY <1>1, <1>2, RunsHolds
<1>4. Moved(t) /\ TaskInv(t)' /\ task'[t].step # "syncdir"
  BY <1>1, <1>2, <1>3, ReleaseMoves, IdleTask
<1>5. CASE UNCHANGED pruner
  BY <1>1, <1>2, <1>4, <1>5, PrunerSame, NamesSame
<1>6. CASE pruner[p].version # MaxChanges /\ pruner' = [pruner EXCEPT ![p] = new]
  <2> DEFINE mid == Changed(pruner[p])
  <2>3. /\ mid \in PrunerState /\ mid.run = pruner[p].run
        /\ mid.version >= pruner[p].version
    BY <1>3, <1>6, StoreAssumption DEF PrunerState, Changed
  <2> HIDE DEF mid
  <2>4. new = [mid EXCEPT !.session = None]
    BY DEF mid
  <2> HIDE DEF new
  <2>1. new \in PrunerState /\ new.run = pruner[p].run /\ new.version >= pruner[p].version
    BY <2>3, <2>4 DEF PrunerState
  <2>2. PrunerKept(t) /\ \A q \in Pruners : pruner'[q].version >= pruner[q].version
    BY <1>1, <1>2, <1>6, <2>1, PrunerMoves
  <2> QED
    BY <1>2, <1>4, <2>2, NamesSame
<1>7. pruner[p].version = MaxChanges => UNCHANGED pruner
  BY DEF Reset
<1>8. pruner[p].version # MaxChanges => pruner' = [pruner EXCEPT ![p] = new]
  BY <1>1, <1>3 DEF Reset, TypeOK
<1> QED
  BY <1>5, <1>6, <1>7, <1>8

\* A step of a save keeps the task's pruner, session and envelope.
LEMMA SavingStep ==
  ASSUME IInv, NEW t \in Tasks, NEW w \in TaskState,
         task[t].step \in Saves,
         task' = [task EXCEPT ![t] = w],
         w.step \in Saves \ {"syncdir"},
         w.pruner = task[t].pruner, w.session = task[t].session,
         w.envelope = task[t].envelope,
         w.step \in {"write", "sync", "rename"} => w.temp \in File,
         w.step \in {"sync", "rename"} => w.temp.data = w.envelope,
         w.step = "rename" => w.temp.kept = TRUE,
         UNCHANGED <<pruner, queue, names, runs, losses, acked>>
  PROVE  IInv'
<1>1. TypeOK /\ TaskInvs /\ task \in [Tasks -> TaskState] /\ queue \in [Pruners -> Seq(Tasks)]
  BY DEF IInv, TypeOK
<1>2. Moved(t) /\ task'[t] = w
  BY <1>1 DEF Moved
<1>3. TaskInv(t)'
  BY <1>1, <1>2 DEF TaskInvs, TaskInv, Saves
<1> QED
  BY <1>1, <1>2, <1>3, PrunerSame, NamesSame

LEMMA SavingTask ==
  ASSUME IInv, NEW t \in Tasks, task[t].step \in Saves
  PROVE  /\ task \in [Tasks -> TaskState] /\ task[t] \in TaskState
         /\ task[t].pruner \in Pruners /\ task[t].session \in Sessions
         /\ task[t].envelope \in Envelope
         /\ task[t].envelope.session = task[t].session
         /\ task[t].envelope.run = pruner[task[t].pruner].run
         /\ task[t].envelope.version = pruner[task[t].pruner].version
         /\ pruner[task[t].pruner].run \in Run
         /\ queue[task[t].pruner] # <<>> /\ Head(queue[task[t].pruner]) = t
<1>1. task[t].step # "idle" /\ task \in [Tasks -> TaskState] /\ task[t] \in TaskState
  BY DEF Saves, IInv, TypeOK
<1>2. TaskInv(t)
  BY DEF IInv, TaskInvs
<1>3. task[t].pruner \in Pruners /\ pruner[task[t].pruner].run # 0
  BY <1>1, <1>2 DEF TaskInv
<1>4. pruner[task[t].pruner].run \in Run
  BY <1>3, StoreAssumption DEF IInv, TypeOK, PrunerState, Run
<1> QED
  BY <1>1, <1>2, <1>4 DEF TaskInv

LEMMA BackupStep == ASSUME IInv, NEW t \in Tasks, Backup(t) PROVE IInv'
<1> DEFINE w == [task[t] EXCEPT !.step = "create"]
<1>1. task[t].step \in Saves /\ task' = [task EXCEPT ![t] = w]
  BY DEF Backup, Goes, Saves
<1>2. task[t] \in TaskState
  BY <1>1, SavingTask
<1>3. /\ w \in TaskState /\ w.step = "create" /\ w.pruner = task[t].pruner
      /\ w.session = task[t].session /\ w.envelope = task[t].envelope
  BY <1>2 DEF TaskState, Steps
<1> HIDE DEF w
<1> QED
  BY <1>1, <1>3, SavingStep DEF Backup, Saves

LEMMA CreateStep == ASSUME IInv, NEW t \in Tasks, Create(t) PROVE IInv'
<1> DEFINE temp == [data |-> Half, kept |-> FALSE]
           w    == [task[t] EXCEPT !.step = "write", !.temp = temp]
<1>1. task[t].step \in Saves /\ task' = [task EXCEPT ![t] = w]
  BY DEF Create, Goes, Saves
<1>2. task[t] \in TaskState /\ temp \in File
  BY <1>1, SavingTask DEF File
<1> HIDE DEF temp
<1>3. /\ w \in TaskState /\ w.step = "write" /\ w.pruner = task[t].pruner
      /\ w.session = task[t].session /\ w.envelope = task[t].envelope /\ w.temp = temp
  BY <1>2 DEF TaskState, Steps
<1> HIDE DEF w
<1> QED
  BY <1>1, <1>2, <1>3, SavingStep DEF Create, Saves

LEMMA WriteStep == ASSUME IInv, NEW t \in Tasks, Write(t) PROVE IInv'
<1> DEFINE w == [task[t] EXCEPT !.step = "sync", !.temp.data = task[t].envelope]
<1>1. task[t].step = "write" /\ task' = [task EXCEPT ![t] = w]
  BY DEF Write, Goes
<1>2. task[t].step \in Saves
  BY <1>1 DEF Saves
<1>3. task[t] \in TaskState /\ task[t].envelope \in Envelope
  BY <1>2, SavingTask
<1>4. task[t].temp \in File
  BY <1>1 DEF IInv, TaskInvs, TaskInv
<1> DEFINE temp == [task[t].temp EXCEPT !.data = task[t].envelope]
<1>5. temp \in File /\ temp.data = task[t].envelope
  BY <1>3, <1>4 DEF File
<1>6. w = [task[t] EXCEPT !.step = "sync", !.temp = temp]
  BY <1>3 DEF TaskState
<1> HIDE DEF temp, w
<1>7. /\ w \in TaskState /\ w.step = "sync" /\ w.pruner = task[t].pruner
      /\ w.session = task[t].session /\ w.envelope = task[t].envelope /\ w.temp = temp
  BY <1>3, <1>5, <1>6 DEF TaskState, Steps
<1> QED
  BY <1>1, <1>2, <1>5, <1>7, SavingStep DEF Write, Saves

LEMMA SyncStep == ASSUME IInv, NEW t \in Tasks, Sync(t) PROVE IInv'
<1> DEFINE w == [task[t] EXCEPT !.step = "rename", !.temp.kept = TRUE]
<1>1. task[t].step = "sync" /\ task' = [task EXCEPT ![t] = w]
  BY DEF Sync, Goes
<1>2. task[t].step \in Saves
  BY <1>1 DEF Saves
<1>3. task[t] \in TaskState
  BY <1>2, SavingTask
<1>4. task[t].temp \in File /\ task[t].temp.data = task[t].envelope
  BY <1>1 DEF IInv, TaskInvs, TaskInv
<1> DEFINE temp == [task[t].temp EXCEPT !.kept = TRUE]
<1>5. temp \in File /\ temp.data = task[t].envelope /\ temp.kept = TRUE
  BY <1>4 DEF File
<1>6. w = [task[t] EXCEPT !.step = "rename", !.temp = temp]
  BY <1>3 DEF TaskState
<1> HIDE DEF temp, w
<1>7. /\ w \in TaskState /\ w.step = "rename" /\ w.pruner = task[t].pruner
      /\ w.session = task[t].session /\ w.envelope = task[t].envelope /\ w.temp = temp
  BY <1>3, <1>5, <1>6 DEF TaskState, Steps
<1> QED
  BY <1>1, <1>2, <1>5, <1>7, SavingStep DEF Sync, Saves

LEMMA FailStep == ASSUME IInv, NEW t \in Tasks, Fail(t) PROVE IInv'
<1>1. task[t].step \in Saves /\ Release(t) /\ UNCHANGED <<pruner, names, runs, losses, acked>>
  BY DEF Fail, Saves
<1>2. task[t].pruner \in Pruners
  BY <1>1, SavingTask
<1>3. TypeOK
  BY DEF IInv
<1> QED
  BY <1>1, <1>2, <1>3, ReleaseMoves, PrunerSame, NamesSame, IdleTask

----------------------------------------------------------------------------
(***************************************************************************)
(* Steps that change what the names lead to.                               *)
(***************************************************************************)
LEMMA LineGrows ==
  ASSUME NEW S, NEW q \in Seq(S), NEW f \in S
  PROVE  /\ Append(q, f) \in Seq(S) /\ Append(q, f) # <<>>
         /\ Len(Append(q, f)) = Len(q) + 1
         /\ DOMAIN Append(q, f) = 1..(Len(q) + 1) /\ DOMAIN q = 1..Len(q)
         /\ \A i \in DOMAIN q : Append(q, f)[i] = q[i]
         /\ Append(q, f)[Len(q) + 1] = f
  OBVIOUS

LEMMA NamesType ==
  ASSUME TypeOK, NEW s \in Sessions
  PROVE  /\ names[s] \in Seq(File \cup {None}) /\ names[s] # <<>>
         /\ Len(names[s]) \in DOMAIN names[s]
         /\ \A i \in DOMAIN names[s] : names[s][i] \in File \cup {None}
         /\ Target(s) \in File \cup {None}
<1>1. names[s] \in Seq(File \cup {None}) /\ names[s] # <<>>
  BY DEF TypeOK
<1> QED
  BY <1>1 DEF Target

\* A file, or a deletion, at the end of the line of session s.
LEMMA Grown ==
  ASSUME IInv, NEW s \in Sessions, NEW f \in File \cup {None},
         names' = [names EXCEPT ![s] = Append(@, f)],
         f # None => Whole(f) /\ f.data.version >= acked[f.data.run][s],
         acked' = acked
  PROVE  /\ names' \in [Sessions -> Seq(File \cup {None})]
         /\ \A x \in Sessions : names'[x] # <<>>
         /\ Target(s)' = f /\ \A x \in Sessions \ {s} : Target(x)' = Target(x)
         /\ FilesInv' /\ AcknowledgedSurvives'
<1> DEFINE q == names[s]
<1>1. names \in [Sessions -> Seq(File \cup {None})] /\ q \in Seq(File \cup {None})
  BY DEF IInv, TypeOK
<1>2. names'[s] = Append(q, f) /\ \A x \in Sessions \ {s} : names'[x] = names[x]
  BY <1>1
<1>3. /\ Append(q, f) \in Seq(File \cup {None}) /\ Append(q, f) # <<>>
      /\ Len(Append(q, f)) = Len(q) + 1
      /\ DOMAIN Append(q, f) = 1..(Len(q) + 1) /\ DOMAIN q = 1..Len(q)
      /\ \A i \in DOMAIN q : Append(q, f)[i] = q[i]
      /\ Append(q, f)[Len(q) + 1] = f
  BY <1>1, LineGrows
<1>4. \A i \in DOMAIN Append(q, f) : i \in DOMAIN q \/ Append(q, f)[i] = f
  <2>1. Len(q) \in Nat
    BY <1>1
  <2> QED
    BY <1>3, <2>1
<1>5. names' \in [Sessions -> Seq(File \cup {None})] /\ \A x \in Sessions : names'[x] # <<>>
  BY <1>1, <1>3 DEF IInv, TypeOK
<1>6. Target(s)' = f /\ \A x \in Sessions \ {s} : Target(x)' = Target(x)
  BY <1>2, <1>3 DEF Target
<1>7. FilesInv'
  <2> SUFFICES ASSUME NEW x \in Sessions, NEW i \in DOMAIN names'[x], names'[x][i] # None
               PROVE  Whole(names'[x][i])
    BY DEF FilesInv
  <2>1. (\E j \in DOMAIN names[x] : names'[x][i] = names[x][j]) \/ names'[x][i] = f
    BY <1>2, <1>3, <1>4
  <2> QED
    BY <2>1 DEF IInv, FilesInv
<1>8. AcknowledgedSurvives'
  <2> SUFFICES ASSUME NEW x \in Sessions, NEW i \in DOMAIN names'[x],
                      names'[x][i] # None, names'[x][i].data # Half
               PROVE  names'[x][i].data.version >= acked[names'[x][i].data.run][x]
    BY DEF AcknowledgedSurvives
  <2>1. \/ \E j \in DOMAIN names[x] : names'[x][i] = names[x][j]
        \/ x = s /\ names'[x][i] = f
    BY <1>2, <1>3, <1>4
  <2> QED
    BY <2>1 DEF IInv, AckInv, AcknowledgedSurvives
<1> QED
  BY <1>5, <1>6, <1>7, <1>8

LEMMA RenameStep == ASSUME IInv, NEW t \in Tasks, Rename(t) PROVE IInv'
<1> PICK s, f, e : s = task[t].session /\ f = task[t].temp /\ e = task[t].envelope
  OBVIOUS
<1> DEFINE w == [task[t] EXCEPT !.step = "syncdir", !.temp = None]
<1>1. /\ task[t].step = "rename" /\ task' = [task EXCEPT ![t] = w]
      /\ names' = [names EXCEPT ![s] = Append(@, f)]
      /\ UNCHANGED <<pruner, queue, runs, losses, acked>>
  BY DEF Rename, Goes
<1>2. task[t].step \in Saves
  BY <1>1 DEF Saves
<1>3. /\ task \in [Tasks -> TaskState] /\ task[t] \in TaskState
      /\ task[t].pruner \in Pruners /\ s \in Sessions
      /\ e \in Envelope /\ e.session = s
      /\ e.run = pruner[task[t].pruner].run /\ e.version = pruner[task[t].pruner].version
      /\ e.run \in Run
  BY <1>2, SavingTask
<1>4. f \in File /\ f.data = e /\ f.kept = TRUE
  BY <1>1 DEF IInv, TaskInvs, TaskInv
<1>5. /\ w \in TaskState /\ w.step = "syncdir" /\ w.pruner = task[t].pruner
      /\ w.session = s /\ w.envelope = e
  BY <1>3 DEF TaskState, Steps
<1> HIDE DEF w
<1>6. Moved(t) /\ task'[t] = w /\ TypeOK /\ TaskInvs
  BY <1>1, <1>3, <1>5 DEF Moved, IInv, TypeOK
<1>7. PrunerKept(t)
  BY <1>1, <1>6, PrunerSame
<1>8. f.data.version >= acked[f.data.run][s]
  <2>1. e.run # 0
    BY <1>3, RunPositive
  <2>2. acked[e.run][s] <= e.version
    BY <1>3, <2>1 DEF IInv, RunInv
  <2>3. acked[e.run][s] \in 0..MaxChanges /\ e.version \in 0..MaxChanges
    BY <1>3 DEF Envelope, IInv, TypeOK
  <2> QED
    BY <1>4, <2>2, <2>3, StoreAssumption
<1>9. /\ names' \in [Sessions -> Seq(File \cup {None})]
      /\ \A x \in Sessions : names'[x] # <<>>
      /\ Target(s)' = f /\ \A x \in Sessions \ {s} : Target(x)' = Target(x)
      /\ FilesInv' /\ AcknowledgedSurvives'
  BY <1>1, <1>3, <1>4, <1>8, Grown DEF Whole
<1>10. TypeOK'
  BY <1>1, <1>6, <1>7, <1>9 DEF TypeOK, Moved, PrunerKept
<1>11. TaskInvs'
  <2>1. TaskInv(t)'
    BY <1>1, <1>2, <1>5, <1>6 DEF TaskInvs, TaskInv, Saves
  <2> QED
    BY <1>6, <1>7, <2>1, OthersKept DEF TaskInvs
<1>12. RunInv'
  BY <1>1 DEF IInv, RunInv
<1>13. ASSUME NEW u \in Tasks PROVE Behind(u)'
  <2> PICK v : v = task'[u]
    OBVIOUS
  <2> DEFINE x == v.envelope.session
  <2> SUFFICES ASSUME v.step = "syncdir", Target(x)' # None,
                      Target(x)'.data.run = v.envelope.run
               PROVE  Target(x)'.data.version >= v.envelope.version
    BY DEF Behind, Target
  <2>1. CASE u = t
    <3>1. e.version \in Nat
      BY <1>3, StoreAssumption DEF Envelope
    <3>2. v.envelope = e
      BY <1>5, <1>6, <2>1
    <3> QED
      BY <1>3, <1>4, <1>9, <3>1, <3>2
  <2>2. CASE u # t
    <3>1. v = task[u] /\ task[u].step \in Saves
      BY <1>6, <2>2 DEF Moved, Saves
    <3>2. /\ v.envelope \in Envelope
          /\ v.pruner \in Pruners /\ Head(queue[v.pruner]) = u
          /\ v.envelope.run = pruner[v.pruner].run
          /\ pruner[v.pruner].run \in Run
      BY <3>1, SavingTask
    <3>3. x \in Sessions
      BY <3>2 DEF Envelope
    <3>4. Head(queue[task[t].pruner]) = t
      BY <1>2, SavingTask
    <3>5. v.envelope.run # e.run
      BY <1>3, <2>2, <3>2, <3>4, RunPositive DEF IInv, RunInv
    <3>6. x # s
      BY <1>4, <1>9, <3>5
    <3>7. Behind(u) /\ Target(x)' = Target(x)
      BY <1>9, <3>3, <3>6 DEF IInv, AckInv
    <3> QED
      BY <3>1, <3>7 DEF Behind
  <2> QED
    BY <2>1, <2>2
<1> QED
  BY <1>9, <1>10, <1>11, <1>12, <1>13 DEF IInv, AckInv

LEMMA DeleteStep == ASSUME IInv, NEW s \in Sessions, Delete(s) PROVE IInv'
<1>1. /\ names' = [names EXCEPT ![s] = Append(@, None)]
      /\ losses' = losses + 1 /\ losses < MaxLosses
      /\ UNCHANGED <<pruner, queue, task, runs, acked>>
  BY DEF Delete
<1>2. /\ names' \in [Sessions -> Seq(File \cup {None})]
      /\ \A x \in Sessions : names'[x] # <<>>
      /\ Target(s)' = None /\ \A x \in Sessions \ {s} : Target(x)' = Target(x)
      /\ FilesInv' /\ AcknowledgedSurvives'
  BY <1>1, Grown
<1>3. TypeOK'
  BY <1>1, <1>2, StoreAssumption DEF IInv, TypeOK
<1>4. TaskInvs' /\ RunInv'
  BY <1>1 DEF IInv, TaskInvs, TaskInv, RunInv
<1>5. ASSUME NEW u \in Tasks PROVE Behind(u)'
  <2> PICK v : v = task[u] /\ v = task'[u]
    BY <1>1
  <2> DEFINE x == v.envelope.session
  <2> SUFFICES ASSUME v.step = "syncdir", Target(x)' # None,
                      Target(x)'.data.run = v.envelope.run
               PROVE  Target(x)'.data.version >= v.envelope.version
    BY DEF Behind, Target
  <2>1. v.envelope \in Envelope
    BY SavingTask DEF Saves
  <2>2. x \in Sessions \ {s}
    BY <1>2, <2>1 DEF Envelope
  <2> QED
    BY <1>2, <2>2 DEF IInv, AckInv, Behind
<1> QED
  BY <1>2, <1>3, <1>4, <1>5 DEF IInv, AckInv

\* One file of each line is left, or half of it where it was not safe.
LEMMA Single ==
  ASSUME NEW f \in File \cup {None}
  PROVE  /\ <<f>> \in Seq(File \cup {None}) /\ <<f>> # <<>>
         /\ DOMAIN <<f>> = {1} /\ <<f>>[1] = f /\ Len(<<f>>) = 1
  OBVIOUS

LEMMA SyncDirStep == ASSUME IInv, NEW t \in Tasks, SyncDir(t) PROVE IInv'
<1> PICK e : e = task[t].envelope
  OBVIOUS
<1>1. /\ task[t].step = "syncdir" /\ Release(t)
      /\ names' = [s \in Sessions |-> <<Target(s)>>]
      /\ acked' = IF acked[e.run][e.session] >= e.version THEN acked
                  ELSE [acked EXCEPT ![e.run][e.session] = e.version]
      /\ UNCHANGED <<pruner, runs, losses>>
  BY DEF SyncDir
<1>2. TypeOK /\ TaskInvs /\ task[t].step \in Saves
  BY <1>1 DEF IInv, Saves
<1>3. /\ task[t].pruner \in Pruners /\ e \in Envelope
      /\ e.run = pruner[task[t].pruner].run /\ e.version = pruner[task[t].pruner].version
      /\ e.run \in Run /\ Head(queue[task[t].pruner]) = t
  BY <1>2, SavingTask
<1>4. e.session \in Sessions /\ e.version \in 0..MaxChanges
  BY <1>3 DEF Envelope
<1>5. Moved(t) /\ task'[t] = Idle /\ TaskInv(t)' /\ PrunerKept(t)
  BY <1>1, <1>2, <1>3, ReleaseMoves, PrunerSame
<1>6. \A s \in Sessions : /\ Target(s) \in File \cup {None}
                          /\ \E j \in DOMAIN names[s] : Target(s) = names[s][j]
  BY <1>2, NamesType DEF Target
<1>7. /\ names' \in [Sessions -> Seq(File \cup {None})]
      /\ \A s \in Sessions :
           /\ names'[s] # <<>> /\ DOMAIN names'[s] = {1}
           /\ names'[s][1] = Target(s) /\ Len(names'[s]) = 1
  BY <1>1, <1>6, Single
<1>8. /\ acked' \in [Run -> [Sessions -> 0..MaxChanges]]
      /\ \A r \in Run, s \in Sessions :
           acked'[r][s] = IF r = e.run /\ s = e.session /\ acked[r][s] < e.version
                          THEN e.version ELSE acked[r][s]
  <2>1. acked \in [Run -> [Sessions -> 0..MaxChanges]]
    BY <1>2 DEF TypeOK
  <2>2. acked[e.run][e.session] \in 0..MaxChanges
    BY <1>3, <1>4, <2>1
  <2>3. CASE acked[e.run][e.session] >= e.version
    BY <1>1, <1>4, <2>1, <2>2, <2>3, StoreAssumption
  <2>4. CASE ~(acked[e.run][e.session] >= e.version)
    <3>1. acked' = [acked EXCEPT ![e.run] = [acked[e.run] EXCEPT ![e.session] = e.version]]
      BY <1>1, <1>3, <2>1, <2>4
    <3>2. acked[e.run][e.session] < e.version
      BY <1>4, <2>2, <2>4, StoreAssumption
    <3> QED
      BY <1>3, <1>4, <2>1, <3>1, <3>2
  <2> QED
    BY <2>3, <2>4
<1>9. TypeOK'
  BY <1>1, <1>2, <1>5, <1>7, <1>8 DEF TypeOK, Moved, PrunerKept
<1>10. TaskInvs'
  BY <1>2, <1>5, OthersKept DEF TaskInvs
<1>11. RunInv'
  <2>1. \A r \in Run, s \in Sessions : r > runs => acked'[r][s] = 0
    <3>1. ~(e.run > runs)
      <4>1. pruner[task[t].pruner].run <= runs /\ runs \in Nat
        BY <1>2, <1>3, StoreAssumption DEF IInv, RunInv, TypeOK
      <4> QED
        BY <1>3, <4>1, RunPositive
    <3> QED
      BY <1>8, <3>1 DEF IInv, RunInv
  <2>2. ASSUME NEW p \in Pruners, NEW s \in Sessions, pruner[p].run # 0
        PROVE  acked'[pruner[p].run][s] <= pruner[p].version
    <3>1. pruner[p] \in PrunerState /\ pruner[p].run \in Run
      BY <1>2, <2>2, StoreAssumption DEF TypeOK, PrunerState, Run
    <3>2. CASE pruner[p].run = e.run
      <4>1. p = task[t].pruner
        BY <1>3, <2>2, <3>2 DEF IInv, RunInv
      <4> QED
        BY <1>3, <1>4, <1>8, <2>2, <3>1, <4>1, StoreAssumption DEF IInv, RunInv
    <3>3. CASE pruner[p].run # e.run
      BY <1>8, <2>2, <3>1, <3>3 DEF IInv, RunInv
    <3> QED
      BY <3>2, <3>3
  <2> QED
    BY <1>1, <2>1, <2>2 DEF IInv, RunInv
<1>12. FilesInv'
  BY <1>6, <1>7 DEF IInv, FilesInv
<1>13. AcknowledgedSurvives'
  <2> SUFFICES ASSUME NEW s \in Sessions, NEW f, f = Target(s), f # None, f.data # Half
               PROVE  f.data.version >= acked'[f.data.run][s]
    BY <1>7 DEF AcknowledgedSurvives
  <2>1. f.data \in Envelope
    BY <1>6 DEF IInv, FilesInv, Whole
  <2>2. f.data.version >= acked[f.data.run][s]
    BY <1>6 DEF IInv, AckInv, AcknowledgedSurvives
  <2>3. f.data.run = e.run /\ s = e.session => f.data.version >= e.version
    BY <1>1 DEF IInv, AckInv, Behind
  <2>4. f.data.run \in Run
    BY <2>1 DEF Envelope
  <2> QED
    BY <1>8, <2>2, <2>3, <2>4
<1>14. ASSUME NEW u \in Tasks PROVE Behind(u)'
  <2> PICK v : v = task'[u]
    OBVIOUS
  <2> DEFINE x == v.envelope.session
  <2> SUFFICES ASSUME v.step = "syncdir"
               PROVE  Target(x)' # None /\ Target(x)'.data.run = v.envelope.run
                        => Target(x)'.data.version >= v.envelope.version
    BY DEF Behind, Target
  <2>1. v = task[u] /\ task[u].step \in Saves
    BY <1>5, IdleTask DEF Moved, Saves
  <2>2. v.envelope \in Envelope
    BY <2>1, SavingTask
  <2>3. x \in Sessions
    BY <2>2 DEF Envelope
  <2>4. Target(x)' = Target(x)
    BY <1>7, <2>3 DEF Target
  <2> QED
    BY <2>1, <2>4 DEF IInv, AckInv, Behind
<1> QED
  BY <1>9, <1>10, <1>11, <1>12, <1>13, <1>14 DEF IInv, AckInv

LEMMA PowerLossStep == ASSUME IInv, PowerLoss PROVE IInv'
<1>1. /\ losses < MaxLosses /\ losses' = losses + 1
      /\ pruner' = [p \in Pruners |-> Gone]
      /\ queue' = [p \in Pruners |-> <<>>]
      /\ task' = [t \in Tasks |-> Idle]
      /\ UNCHANGED <<runs, acked>>
  BY DEF PowerLoss
<1>2. PICK left \in [Sessions -> UNION {DOMAIN names[s] : s \in Sessions}] :
        /\ \A s \in Sessions : left[s] \in DOMAIN names[s]
        /\ names' = [s \in Sessions |-> <<Remains(names[s][left[s]])>>]
  BY DEF PowerLoss
<1>3. \A s \in Sessions : Remains(names[s][left[s]]) = names[s][left[s]]
  BY <1>2 DEF IInv, FilesInv, Whole, Remains
<1>4. \A s \in Sessions : names[s][left[s]] \in File \cup {None}
  BY <1>2, NamesType DEF IInv
<1>5. /\ names' \in [Sessions -> Seq(File \cup {None})]
      /\ \A s \in Sessions : /\ names'[s] # <<>> /\ DOMAIN names'[s] = {1}
                             /\ names'[s][1] = names[s][left[s]]
  BY <1>2, <1>3, <1>4, Single
<1>6. Gone \in PrunerState /\ Gone.run = 0
  BY StoreAssumption DEF Gone, PrunerState
<1>7. TypeOK'
  BY <1>1, <1>5, <1>6, IdleTask, StoreAssumption DEF IInv, TypeOK
<1>8. TaskInvs' /\ \A t \in Tasks : Behind(t)'
  BY <1>1, IdleTask DEF TaskInvs, TaskInv, Behind, Saves
<1>9. RunInv'
  BY <1>1, <1>6, StoreAssumption DEF IInv, RunInv, TypeOK
<1>10. FilesInv'
  BY <1>2, <1>5 DEF IInv, FilesInv
<1>11. AcknowledgedSurvives'
  BY <1>1, <1>2, <1>5 DEF IInv, AckInv, AcknowledgedSurvives
<1> QED
  BY <1>7, <1>8, <1>9, <1>10, <1>11 DEF IInv, AckInv

----------------------------------------------------------------------------
(***************************************************************************)
(* Steps of hosts.                                                         *)
(***************************************************************************)
LEMMA BuildStep == ASSUME IInv, NEW p \in Pruners, Build(p) PROVE IInv'
<1> DEFINE new == [Gone EXCEPT !.run = runs + 1]
<1>1. /\ pruner[p].run = 0 /\ runs < MaxRuns /\ runs' = runs + 1
      /\ pruner' = [pruner EXCEPT ![p] = new]
      /\ UNCHANGED <<queue, task, names, losses, acked>>
  BY DEF Build
<1>2. runs \in 0..MaxRuns /\ pruner \in [Pruners -> PrunerState] /\ TypeOK
  BY DEF IInv, TypeOK
<1>3. new \in PrunerState /\ new.run = runs + 1 /\ new.version = 0 /\ new.run \in Run
  BY <1>1, <1>2, StoreAssumption DEF Gone, PrunerState, Run
<1> HIDE DEF new
<1>4. pruner'[p] = new /\ \A q \in Pruners \ {p} : pruner'[q] = pruner[q]
  BY <1>1, <1>2
<1>5. TypeOK'
  BY <1>1, <1>2, <1>3, StoreAssumption DEF TypeOK
<1>6. TaskInvs'
  BY <1>1, <1>4 DEF IInv, TaskInvs, TaskInv, Saves
<1>7. RunInv'
  <2>1. \A q \in Pruners : pruner[q].run \in Nat /\ pruner[q].run <= runs
    BY <1>2 DEF IInv, RunInv, PrunerState
  <2>2. \A s \in Sessions : acked[runs + 1][s] = 0
    BY <1>2, <1>3, StoreAssumption DEF IInv, RunInv
  <2>3. \A q, r \in Pruners : pruner'[q].run # 0 /\ pruner'[q].run = pruner'[r].run => q = r
    BY <1>2, <1>3, <1>4, <2>1 DEF IInv, RunInv
  <2>4. \A q \in Pruners : pruner'[q].run <= runs + 1
    BY <1>2, <1>3, <1>4, <2>1
  <2>5. \A r \in Run, s \in Sessions : r > runs + 1 => acked[r][s] = 0
    BY <1>2, RunPositive DEF IInv, RunInv
  <2>6. \A q \in Pruners, s \in Sessions :
          pruner'[q].run # 0 => acked[pruner'[q].run][s] <= pruner'[q].version
    BY <1>3, <1>4, <2>2 DEF IInv, RunInv
  <2> QED
    BY <1>1, <2>3, <2>4, <2>5, <2>6 DEF RunInv
<1>8. FilesInv' /\ AckInv'
  BY <1>1 DEF IInv, FilesInv, AckInv, AcknowledgedSurvives, Behind, Target
<1> QED
  BY <1>5, <1>6, <1>7, <1>8 DEF IInv

LEMMA EndStep == ASSUME IInv, NEW p \in Pruners, End(p) PROVE IInv'
<1>1. /\ pruner' = [pruner EXCEPT ![p] = Gone]
      /\ queue' = [queue EXCEPT ![p] = <<>>]
      /\ task' = [t \in Tasks |-> IF task[t].pruner = p THEN Idle ELSE task[t]]
      /\ UNCHANGED <<names, runs, losses, acked>>
  BY DEF End
<1>2. /\ pruner \in [Pruners -> PrunerState] /\ queue \in [Pruners -> Seq(Tasks)]
      /\ task \in [Tasks -> TaskState] /\ TypeOK
  BY DEF IInv, TypeOK
<1>3. Gone \in PrunerState /\ Gone.run = 0
  BY StoreAssumption DEF Gone, PrunerState
<1>4. /\ pruner'[p] = Gone /\ \A q \in Pruners \ {p} : pruner'[q] = pruner[q]
      /\ \A q \in Pruners \ {p} : queue'[q] = queue[q]
  BY <1>1, <1>2
<1>5. TypeOK'
  BY <1>1, <1>2, <1>3, IdleTask DEF TypeOK
<1>6. ASSUME NEW t \in Tasks PROVE TaskInv(t)' /\ Behind(t)'
  <2>1. CASE task[t].pruner = p
    BY <1>1, <2>1, IdleTask DEF TaskInv, Behind, Saves
  <2>2. CASE task[t].pruner # p
    <3>1. task'[t] = task[t]
      BY <1>1, <2>2
    <3>2. TaskInv(t) /\ Behind(t)
      BY DEF IInv, TaskInvs, AckInv
    <3>3. TaskInv(t)'
      BY <1>4, <2>2, <3>1, <3>2 DEF TaskInv, Saves
    <3>4. Behind(t)'
      BY <1>1, <3>1, <3>2 DEF Behind, Target
    <3> QED
      BY <3>3, <3>4
  <2> QED
    BY <2>1, <2>2
<1>7. RunInv'
  <2>1. runs \in Nat
    BY <1>2, StoreAssumption DEF TypeOK
  <2> QED
    BY <1>1, <1>3, <1>4, <2>1 DEF IInv, RunInv
<1>8. FilesInv' /\ AcknowledgedSurvives'
  BY <1>1 DEF IInv, FilesInv, AckInv, AcknowledgedSurvives
<1> QED
  BY <1>5, <1>6, <1>7, <1>8 DEF IInv, TaskInvs, AckInv

LEMMA CallStep ==
  ASSUME IInv, NEW t \in Tasks, NEW p \in Pruners, NEW op \in Ops, NEW s \in Sessions,
         Call(t, p, op, s)
  PROVE  IInv'
<1> DEFINE w == [Idle EXCEPT !.step = "called", !.pruner = p, !.op = op, !.session = s]
<1>1. /\ task[t].step = "idle" /\ pruner[p].run # 0
      /\ task' = [task EXCEPT ![t] = w]
      /\ queue' = [queue EXCEPT ![p] = Append(@, t)]
      /\ UNCHANGED <<pruner, names, runs, losses, acked>>
  BY DEF Call
<1>2. /\ queue \in [Pruners -> Seq(Tasks)] /\ task \in [Tasks -> TaskState] /\ TypeOK
  BY DEF IInv, TypeOK
<1>3. w \in TaskState /\ w.step = "called" /\ w.pruner = p /\ w.session = s
  BY DEF Idle, TaskState, Steps
<1> HIDE DEF w
<1>4. task'[t] = w /\ \A u \in Tasks \ {t} : task'[u] = task[u]
  BY <1>1, <1>2
<1>5. Append(queue[p], t) \in Seq(Tasks)
  BY <1>2
<1>6. \A q \in Pruners : queue[q] # <<>> => queue'[q] # <<>> /\ Head(queue'[q]) = Head(queue[q])
  <2>1. queue[p] \in Seq(Tasks)
    BY <1>2
  <2>2. queue[p] # <<>> => Append(queue[p], t) # <<>> /\ Head(Append(queue[p], t)) = Head(queue[p])
    BY <2>1
  <2> QED
    BY <1>1, <1>2, <2>2
<1>7. TypeOK'
  BY <1>1, <1>2, <1>3, <1>5 DEF TypeOK
<1>8. ASSUME NEW u \in Tasks PROVE TaskInv(u)' /\ Behind(u)'
  <2>1. CASE u = t
    BY <1>1, <1>3, <1>4, <2>1 DEF TaskInv, Behind, Saves
  <2>2. CASE u # t
    <3>1. TaskInv(u) /\ Behind(u) /\ task'[u] = task[u]
      BY <1>4, <2>2 DEF IInv, TaskInvs, AckInv
    <3>2. TaskInv(u)'
      BY <1>1, <1>6, <3>1 DEF TaskInv, Saves
    <3>3. Behind(u)'
      BY <1>1, <3>1 DEF Behind, Target
    <3> QED
      BY <3>2, <3>3
  <2> QED
    BY <2>1, <2>2
<1>9. RunInv' /\ FilesInv' /\ AcknowledgedSurvives'
  BY <1>1 DEF IInv, RunInv, FilesInv, AckInv, AcknowledgedSurvives
<1> QED
  BY <1>7, <1>8, <1>9 DEF IInv, TaskInvs, AckInv

LEMMA StutterStep == ASSUME IInv, UNCHANGED vars PROVE IInv'
<1> USE DEF vars
<1>1. TypeOK' /\ RunInv' /\ FilesInv' /\ AcknowledgedSurvives'
  BY DEF IInv, TypeOK, RunInv, FilesInv, AckInv, AcknowledgedSurvives
<1>2. TaskInvs' /\ \A t \in Tasks : Behind(t)'
  BY DEF IInv, TaskInvs, TaskInv, AckInv, Behind, Target
<1> QED
  BY <1>1, <1>2 DEF IInv, AckInv

LEMMA NextInv == IInv /\ [Next]_vars => IInv'
<1> SUFFICES ASSUME IInv, [Next]_vars PROVE IInv'
  OBVIOUS
<1>1. ASSUME NEW t \in Tasks, TaskStep(t) PROVE IInv'
  BY <1>1, TransformStep, SaveCallStep, BindStep, ResetStep, BackupStep, CreateStep,
     WriteStep, SyncStep, RenameStep, SyncDirStep, FailStep DEF TaskStep
<1> QED
  BY <1>1, BuildStep, EndStep, CallStep, DeleteStep, PowerLossStep, StutterStep DEF Next

LEMMA Invariance == Spec => []IInv
  BY InitInv, NextInv, PTL DEF Spec
----------------------------------------------------------------------------
(***************************************************************************)
(* The results.                                                            *)
(***************************************************************************)
\* Whatever tasks, failures, ends and losses do, every variable of FileStore has
\* its type: no save is under way without an envelope, no lock without a line.
THEOREM TypeCorrect == Spec => []TypeOK
<1>1. IInv => TypeOK
  BY DEF IInv
<1> QED
  BY <1>1, Invariance, PTL

\* A save that has returned without an error is not undone: what a loss may leave
\* of the session is never an older envelope of that run (FileStateStore::save,
\* called under the lock of the pruner).
THEOREM AcknowledgedSurvivesHolds == Spec => []AcknowledgedSurvives
<1>1. IInv => AcknowledgedSurvives
  BY DEF IInv, AckInv
<1> QED
  BY <1>1, Invariance, PTL

----------------------------------------------------------------------------
(***************************************************************************)
(* The refinement.                                                         *)
(***************************************************************************)
\* The state of SavedSessions that the names stand for.
Line == [s \in Sessions |-> [i \in DOMAIN names[s] |-> Holds(names[s][i])]]

LEMMA InitSaved == Init => Saved!Init
<1> SUFFICES ASSUME Init PROVE Line = [s \in Sessions |-> <<None>>]
  BY DEF Saved!Init, Line
<1>1. \A s \in Sessions : names[s] = <<None>>
  BY DEF Init
<1>2. [i \in DOMAIN <<None>> |-> Holds(<<None>>[i])] = <<None>>
  BY DEF Holds
<1> QED
  BY <1>1, <1>2 DEF Line

\* A file more at the end of a line is an entry more in SavedSessions.
LEMMA LineAppends ==
  ASSUME TypeOK, NEW s \in Sessions, NEW f \in File \cup {None},
         names' = [names EXCEPT ![s] = Append(@, f)]
  PROVE  Line' = [Line EXCEPT ![s] = Append(@, Holds(f))]
<1> DEFINE q == names[s]
           h == [i \in DOMAIN q |-> Holds(q[i])]
<1>1. names \in [Sessions -> Seq(File \cup {None})] /\ q \in Seq(File \cup {None})
  BY DEF TypeOK
<1>2. names'[s] = Append(q, f) /\ \A x \in Sessions \ {s} : names'[x] = names[x]
  BY <1>1
<1>3. /\ DOMAIN Append(q, f) = 1..(Len(q) + 1) /\ DOMAIN q = 1..Len(q)
      /\ \A i \in DOMAIN q : Append(q, f)[i] = q[i]
      /\ Append(q, f)[Len(q) + 1] = f /\ Len(q) \in Nat
  BY <1>1, LineGrows
<1> DEFINE S == {Holds(q[i]) : i \in DOMAIN q} \cup {Holds(f)}
<1>4. h \in Seq(S) /\ Len(h) = Len(q)
  BY <1>3
<1>5. /\ DOMAIN Append(h, Holds(f)) = 1..(Len(h) + 1) /\ DOMAIN h = 1..Len(h)
      /\ \A i \in DOMAIN h : Append(h, Holds(f))[i] = h[i]
      /\ Append(h, Holds(f))[Len(h) + 1] = Holds(f)
      /\ Append(h, Holds(f)) \in Seq(S)
  BY <1>4, LineGrows
<1>6. [i \in DOMAIN Append(q, f) |-> Holds(Append(q, f)[i])] = Append(h, Holds(f))
  <2> DEFINE g == [i \in DOMAIN Append(q, f) |-> Holds(Append(q, f)[i])]
             k == Append(h, Holds(f))
  <2>1. DOMAIN g = DOMAIN k
    BY <1>3, <1>4, <1>5
  <2>2. \A i \in DOMAIN g : g[i] = k[i]
    <3> SUFFICES ASSUME NEW i \in 1..(Len(q) + 1) PROVE g[i] = k[i]
      BY <1>3
    <3>1. CASE i \in 1..Len(q)
      <4>1. g[i] = Holds(q[i])
        BY <1>3, <3>1
      <4>2. k[i] = Holds(q[i])
        BY <1>3, <1>4, <1>5, <3>1
      <4> QED
        BY <4>1, <4>2
    <3>2. CASE i = Len(q) + 1
      <4>1. g[i] = Holds(f)
        BY <1>3, <3>2
      <4>2. k[i] = Holds(f)
        BY <1>4, <1>5, <3>2
      <4> QED
        BY <4>1, <4>2
    <3> QED
      BY <1>3, <3>1, <3>2
  <2>3. k = [i \in DOMAIN k |-> k[i]]
    BY <1>5
  <2>4. g = [i \in DOMAIN g |-> g[i]]
    OBVIOUS
  <2> HIDE DEF g, k
  <2>5. g = k
    BY <2>1, <2>2, <2>3, <2>4
  <2> QED
    BY <2>5 DEF g, k
<1>7. Line'[s] = Append(h, Holds(f)) /\ Line[s] = h
  BY <1>2, <1>6 DEF Line
<1>8. \A x \in Sessions \ {s} : Line'[x] = Line[x]
  BY <1>2 DEF Line
<1> HIDE DEF h
<1>9. Line' = [x \in Sessions |-> Line'[x]] /\ Line = [x \in Sessions |-> Line[x]]
  BY DEF Line
<1> QED
  BY <1>7, <1>8, <1>9

LEMMA StepSaved == IInv /\ IInv' /\ [Next]_vars => [Saved!Next]_Line
<1> SUFFICES ASSUME IInv, IInv', [Next]_vars PROVE [Saved!Next]_Line
  OBVIOUS
<1> TypeOK /\ FilesInv
  BY DEF IInv
<1>1. CASE names' = names
  BY <1>1 DEF Line
<1>2. ASSUME NEW s \in Sessions, Delete(s) PROVE Saved!Next
  <2>1. Line' = [Line EXCEPT ![s] = Append(@, None)]
    <3>1. Holds(None) = None
      BY DEF Holds
    <3> QED
      BY <1>2, <3>1, LineAppends DEF Delete
  <2> QED
    BY <2>1 DEF Line, Saved!Next, Saved!Delete, Saved!Replace
<1>3. ASSUME NEW t \in Tasks, Rename(t) PROVE Saved!Next
  <2> PICK s, f : s = task[t].session /\ f = task[t].temp
    OBVIOUS
  <2>1. task[t].step = "rename" /\ names' = [names EXCEPT ![s] = Append(@, f)]
    BY <1>3 DEF Rename, Goes
  <2>2. s \in Sessions /\ task[t].envelope \in Envelope
    BY <2>1, SavingTask DEF Saves
  <2>3. f \in File /\ f.data \in Envelope /\ f.kept = TRUE
    BY <2>1, <2>2 DEF IInv, TaskInvs, TaskInv
  <2>4. Holds(f) = f.data
    BY <2>3, NamesAssumption DEF Holds, File
  <2>5. Line' = [Line EXCEPT ![s] = Append(@, f.data)]
    BY <2>1, <2>2, <2>3, <2>4, LineAppends
  <2> QED
    BY <2>2, <2>3, <2>5 DEF Line, Saved!Next, Saved!Put, Saved!Replace
<1>4. ASSUME NEW t \in Tasks, SyncDir(t) PROVE Saved!Next
  <2>1. names' = [s \in Sessions |-> <<Target(s)>>]
    BY <1>4 DEF SyncDir
  <2>2. \A s \in Sessions : Len(names[s]) \in DOMAIN names[s] /\ names[s] \in Seq(File \cup {None})
    BY NamesType
  <2>3. \A s \in Sessions : Line[s][Len(Line[s])] = Holds(Target(s))
    <3> SUFFICES ASSUME NEW s \in Sessions PROVE Line[s][Len(Line[s])] = Holds(Target(s))
      OBVIOUS
    <3>1. DOMAIN names[s] = 1..Len(names[s]) /\ Len(names[s]) \in Nat
      BY <2>2
    <3>2. DOMAIN Line[s] = 1..Len(names[s])
      BY <3>1 DEF Line
    <3>3. Len(Line[s]) = Len(names[s])
      BY <3>1, <3>2
    <3> QED
      BY <2>2, <3>3 DEF Line, Target
  <2>4. \A s \in Sessions : Line'[s] = <<Holds(Target(s))>>
    <3> SUFFICES ASSUME NEW s \in Sessions PROVE Line'[s] = <<Holds(Target(s))>>
      OBVIOUS
    <3>1. Line'[s] = [i \in DOMAIN <<Target(s)>> |-> Holds(<<Target(s)>>[i])]
      BY <2>1 DEF Line
    <3> QED
      BY <3>1
  <2>5. Line' = [s \in Sessions |-> <<Line[s][Len(Line[s])]>>]
    BY <2>3, <2>4 DEF Line
  <2> QED
    BY <2>5 DEF Line, Saved!Next, Saved!Settle, Saved!current
<1>5. ASSUME PowerLoss PROVE Saved!Next
  <2>1. PICK left \in [Sessions -> UNION {DOMAIN names[s] : s \in Sessions}] :
          /\ \A s \in Sessions : left[s] \in DOMAIN names[s]
          /\ names' = [s \in Sessions |-> <<Remains(names[s][left[s]])>>]
    BY <1>5 DEF PowerLoss
  <2>2. \A s \in Sessions : Remains(names[s][left[s]]) = names[s][left[s]]
    BY <2>1 DEF FilesInv, Whole, Remains
  <2>3. \A s \in Sessions : DOMAIN Line[s] = DOMAIN names[s]
    BY DEF Line
  <2>4. \A s \in Sessions : Line'[s] = <<Line[s][left[s]]>>
    <3> SUFFICES ASSUME NEW s \in Sessions PROVE Line'[s] = <<Line[s][left[s]]>>
      OBVIOUS
    <3> DEFINE f == names[s][left[s]]
    <3>1. names'[s] = <<f>>
      BY <2>1, <2>2
    <3>2. Line'[s] = [i \in DOMAIN <<f>> |-> Holds(<<f>>[i])]
      BY <3>1 DEF Line
    <3>3. Line[s][left[s]] = Holds(f)
      BY <2>1 DEF Line
    <3> HIDE DEF f
    <3> QED
      BY <3>2, <3>3
  <2>5. Line' = [s \in Sessions |-> <<Line[s][left[s]]>>]
    BY <2>4 DEF Line
  <2>6. left \in [Sessions -> UNION {DOMAIN Line[s] : s \in Sessions}]
    BY <2>1, <2>3
  <2> QED
    BY <2>1, <2>3, <2>5, <2>6 DEF Line, Saved!Next, Saved!Lose
<1>6. ASSUME NEW t \in Tasks, TaskStep(t) PROVE names' = names \/ Rename(t) \/ SyncDir(t)
  BY <1>6 DEF TaskStep, Transform, SaveCall, Bind, Reset, Backup, Create, Write, Sync, Fail
<1>7. \/ names' = names
      \/ \E t \in Tasks : Rename(t) \/ SyncDir(t)
      \/ \E s \in Sessions : Delete(s)
      \/ PowerLoss
  BY <1>6 DEF Next, vars, Build, End, Call
<1> QED
  BY <1>1, <1>2, <1>3, <1>4, <1>5, <1>7

\* Saving through temporary files, synced before they are renamed, is saving as
\* the in-memory store does: what load returns is one whole envelope at any time,
\* whatever fails, ends or loses power in between.
THEOREM ImplementsSavedSessionsHolds == Spec => ImplementsSavedSessions
<1>1. [Saved!Next]_Line =>
        [Saved!Next]_[s \in Sessions |-> [i \in DOMAIN names[s] |-> Holds(names[s][i])]]
  BY DEF Line
<1> QED
  BY <1>1, InitSaved, StepSaved, Invariance, PTL
     DEF Spec, ImplementsSavedSessions, Saved!Spec
============================================================================
