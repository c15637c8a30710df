--------------------------- MODULE Reviewer_proofs ---------------------------
(***************************************************************************)
(* Proofs about what a person decides and is shown: Approval, for every    *)
(* set of requests, recoveries and readers, and however often the          *)
(* connection of the lock breaks; RunStreams, for every set of clients,    *)
(* every length of the bounded history and every number of restarts;       *)
(* DurableStream, for every set of watchers, every retry limit and every   *)
(* number of trace events.                                                 *)
(***************************************************************************)
EXTENDS Approval, RunStreams, DurableStream, TLAPS, SequenceTheorems, FiniteSetTheorems

-----------------------------------------------------------------------------
(* What holds whatever becomes of the lock *)

(* A run only goes forward, from waiting through running to its end: what  *)
(* an open transaction has read is not ahead of the tables, and a run that *)
(* was read running had been claimed.                                      *)
SnapshotsAreBehind ==
    \A a \in Actors : LET s == seen[a] IN
        /\ s.run.status = "running" =>
             run.status # "waiting_approval" /\ s.checkpoint.exists /\ s.checkpoint.decision # "none"
        /\ s.run.status \in Terminal => run.status \in Terminal

(* Who has claimed the approval: it may execute the tool, or has.          *)
Claimants == {r \in Requests : pc[r] \in {"resuming", "ran"}} \cup toolRuns

OneClaim ==
    /\ \A p, q \in Claimants : p = q
    /\ run.status = "waiting_approval" => Claimants = {}
    /\ \A r \in toolRuns : action[r] = "approve"

(* What holds while the connections that hold the lock last                *)

RequestHolds(r) == pc[r] \in {"locked", "checking", "resuming", "ran", "unlocking"}
RecoveryHolds(k) == pc[k] \in {"recovering", "repairing", "releasing"}

LockIsHeld ==
    /\ \A r \in Requests : RequestHolds(r) => lock = r
    /\ \A k \in Recoveries : RecoveryHolds(k) => lock = k

(* Only the lock's holder writes the run, so what it has read of it is so. *)
HolderIsCurrent ==
    /\ \A r \in Requests : pc[r] = "checking" => seen[r].run = run
    /\ \A k \in Recoveries : pc[k] = "repairing" => seen[k].run = run

(* Whoever has read the run's end has read what it will always be.         *)
EndsAreFinal == \A a \in Actors : seen[a].run.status \in Terminal => seen[a].run = run

WhileLocked ==
    losses = 0 =>
        /\ LockIsHeld /\ HolderIsCurrent /\ EndsAreFinal
        /\ ActiveApprovalSkipped /\ RootFollowsRun

IInv ==
    /\ TypeOK /\ NeverStranded /\ SnapshotsAreBehind /\ OneClaim
    /\ WhileLocked

LEMMA BlankIsQuiet == Blank \in Snapshots /\ Blank.run.status = "waiting_approval"
  BY DEF Blank, Snapshots, RunRows, Checkpoints, Jobs, Waiting, NoCheckpoint, Answers

LEMMA InitInv == Init => IInv
  <1> SUFFICES ASSUME Init PROVE IInv
    OBVIOUS
  <1>1. TypeOK
    <2>1. run \in RunRows /\ root \in RunRows /\ job \in Jobs /\ checkpoint \in Checkpoints
      BY DEF Init, Waiting, Pending, RunRows, Answers, Jobs, Checkpoints
    <2>2. pc \in [Actors -> PCs] /\ seen \in [Actors -> Snapshots]
      BY BlankIsQuiet DEF Init, PCs
    <2>3. QED
      BY <2>1, <2>2, LossAssumption DEF Init, TypeOK
  <1>2. NeverStranded /\ SnapshotsAreBehind
    BY BlankIsQuiet DEF Init, NeverStranded, SnapshotsAreBehind, Waiting, Pending, Terminal
  <1>3. \A r \in Requests : pc[r] = "ready"
    BY DEF Init, Actors
  <1>4. \A k \in Recoveries : pc[k] = "off"
    BY ActorsAssumption DEF Init, Actors
  <1>5. OneClaim
    BY <1>3 DEF Init, OneClaim, Claimants
  <1>6. WhileLocked
    BY <1>3, <1>4, BlankIsQuiet
       DEF Init, WhileLocked, LockIsHeld, HolderIsCurrent, EndsAreFinal, ActiveApprovalSkipped,
           RootFollowsRun, RequestHolds, RecoveryHolds, Terminal
  <1>7. QED
    BY <1>1, <1>2, <1>5, <1>6 DEF IInv

-----------------------------------------------------------------------------
(* Steps that leave the tables alone *)

(* An actor goes on, reads the tables or forgets what it has read; it may  *)
(* take the lock if it is free, or free its own.                           *)
LEMMA QuietInv ==
  ASSUME IInv, NEW a \in Actors, NEW label \in PCs \ {"resuming", "ran"}, Goto(a, label),
         UNCHANGED <<tables, losses, toolRuns, action>>,
         UNCHANGED seen \/ Forget(a) \/ Remember(a),
         label \in {"checking", "repairing"} => Remember(a),
         lock' \in Requests \cup Recoveries \cup {Nobody},
         lock' = lock \/ (lock = Nobody /\ lock' = a) \/ (lock = a /\ lock' = Nobody),
         a \in Requests /\ label \in {"locked", "checking", "unlocking"} =>
             lock' = a \/ (RequestHolds(a) /\ lock' = lock),
         a \in Recoveries /\ label \in {"recovering", "repairing", "releasing"} =>
             lock' = a \/ (RecoveryHolds(a) /\ lock' = lock)
  PROVE  IInv'
  <1>1. /\ pc' \in [Actors -> PCs] /\ pc'[a] = label
        /\ \A b \in Actors \ {a} : pc'[b] = pc[b]
    BY DEF IInv, TypeOK, Goto
  <1>2. /\ UNCHANGED <<run, checkpoint, root, job, losses, toolRuns, action>>
        /\ run \in RunRows /\ checkpoint \in Checkpoints /\ job \in Jobs
    BY DEF tables, IInv, TypeOK
  <1>3. /\ seen' \in [Actors -> Snapshots]
        /\ \A b \in Actors \ {a} : seen'[b] = seen[b]
        /\ seen'[a] = seen[a] \/ seen'[a] = Blank \/ seen'[a] = Snapshot
        /\ label \in {"checking", "repairing"} => seen'[a] = Snapshot
    <2>1. Snapshot \in Snapshots
      BY <1>2 DEF Snapshot, Snapshots
    <2>2. QED
      BY <2>1, BlankIsQuiet DEF IInv, TypeOK, Forget, Remember
  <1>4. Snapshot.run = run /\ Snapshot.checkpoint = checkpoint
    BY DEF Snapshot
  <1>5. TypeOK'
    BY <1>1, <1>2, <1>3 DEF IInv, TypeOK
  <1>6. NeverStranded'
    BY <1>2 DEF IInv, NeverStranded
  <1>7. SnapshotsAreBehind'
    <2> SUFFICES ASSUME NEW b \in Actors
                 PROVE  /\ seen'[b].run.status = "running" =>
                             /\ run'.status # "waiting_approval" /\ seen'[b].checkpoint.exists
                             /\ seen'[b].checkpoint.decision # "none"
                        /\ seen'[b].run.status \in Terminal => run'.status \in Terminal
      BY DEF SnapshotsAreBehind
    <2>1. CASE seen'[b] = seen[b]
      BY <2>1, <1>2 DEF IInv, SnapshotsAreBehind
    <2>2. CASE seen'[b] = Blank
      BY <2>2, BlankIsQuiet DEF Terminal
    <2>3. CASE seen'[b] = Snapshot
      BY <2>3, <1>2, <1>4 DEF IInv, NeverStranded
    <2>4. QED
      BY <1>3, <2>1, <2>2, <2>3
  <1>8. OneClaim'
    <2>1. Claimants' \subseteq Claimants
      BY <1>1, <1>2 DEF Claimants, Actors
    <2>2. QED
      BY <2>1, <1>2 DEF IInv, OneClaim
  <1>9. ASSUME losses' = 0
        PROVE  /\ LockIsHeld' /\ HolderIsCurrent' /\ EndsAreFinal'
               /\ ActiveApprovalSkipped' /\ RootFollowsRun'
    <2>1. losses = 0 /\ LockIsHeld /\ HolderIsCurrent /\ EndsAreFinal
      BY <1>2, <1>9 DEF IInv, WhileLocked
    <2>2. LockIsHeld'
      <3>1. ASSUME NEW r \in Requests, RequestHolds(r)' PROVE lock' = r
        BY <3>1, <1>1, <2>1, ActorsAssumption DEF LockIsHeld, RequestHolds, Actors
      <3>2. ASSUME NEW k \in Recoveries, RecoveryHolds(k)' PROVE lock' = k
        BY <3>2, <1>1, <2>1, ActorsAssumption DEF LockIsHeld, RecoveryHolds, Actors
      <3>3. QED
        BY <3>1, <3>2 DEF LockIsHeld
    <2>3. HolderIsCurrent'
      BY <1>1, <1>2, <1>3, <1>4, <2>1 DEF HolderIsCurrent, Actors
    <2>4. EndsAreFinal'
      <3> SUFFICES ASSUME NEW b \in Actors, seen'[b].run.status \in Terminal
                   PROVE  seen'[b].run = run'
        BY DEF EndsAreFinal
      <3>1. QED
        BY <1>2, <1>3, <1>4, <2>1, BlankIsQuiet DEF EndsAreFinal, Terminal
    <2>5. ActiveApprovalSkipped'
      BY <1>1, <1>2, <2>1 DEF IInv, WhileLocked, ActiveApprovalSkipped, Actors
    <2>6. RootFollowsRun'
      BY <1>2, <2>1 DEF IInv, WhileLocked, RootFollowsRun
    <2>7. QED
      BY <2>2, <2>3, <2>4, <2>5, <2>6
  <1>10. QED
    BY <1>5, <1>6, <1>7, <1>8, <1>9 DEF IInv, WhileLocked

LEMMA CrashInv ==
  ASSUME IInv, NEW a \in Actors, Crash(a)
  PROVE  IInv'
  <1> DEFINE label == IF a \in Requests THEN "done" ELSE IF a \in Recoveries THEN "off" ELSE "idle"
  <1>1. label \in PCs \ {"resuming", "ran"} /\ label \in {"done", "off", "idle"}
    BY DEF PCs
  <1>2. Goto(a, label) /\ Forget(a) /\ UNCHANGED <<tables, losses, toolRuns, action>>
    BY DEF Crash
  <1>3. /\ lock' \in Requests \cup Recoveries \cup {Nobody}
        /\ lock' = lock \/ (lock = a /\ lock' = Nobody)
    BY DEF Crash, IInv, TypeOK
  <1> HIDE DEF label
  <1>4. QED
    BY <1>1, <1>2, <1>3, QuietInv

LEMMA QuietRequestInv ==
  ASSUME IInv, NEW r \in Requests,
         Enter(r) \/ Lock(r) \/ Check(r) \/ Unlock(r) \/ CloseRead(r)
  PROVE  IInv'
  <1>1. r \in Actors /\ lock \in Requests \cup Recoveries \cup {Nobody}
    BY DEF Actors, IInv, TypeOK
  <1>2. CASE Enter(r)
    BY <1>1, <1>2, QuietInv DEF Enter, PCs
  <1>3. CASE Lock(r)
    BY <1>1, <1>3, QuietInv DEF Lock, PCs
  <1>4. CASE Check(r)
    BY <1>1, <1>4, QuietInv DEF Check, PCs, RequestHolds
  <1>5. CASE Unlock(r)
    BY <1>1, <1>5, QuietInv DEF Unlock, PCs
  <1>6. CASE CloseRead(r)
    BY <1>1, <1>6, QuietInv DEF CloseRead, PCs
  <1>7. QED
    BY <1>2, <1>3, <1>4, <1>5, <1>6

LEMMA QuietRecoveryInv ==
  ASSUME IInv, NEW k \in Recoveries,
         List(k) \/ RecoveryLock(k) \/ RecoveryRead(k) \/ RecoveryUnlock(k)
  PROVE  IInv'
  <1>1. k \in Actors /\ lock \in Requests \cup Recoveries \cup {Nobody} /\ k \notin Requests
    BY ActorsAssumption DEF Actors, IInv, TypeOK
  <1>2. CASE List(k)
    BY <1>1, <1>2, QuietInv DEF List, PCs
  <1>3. CASE RecoveryLock(k)
    BY <1>1, <1>3, QuietInv DEF RecoveryLock, PCs
  <1>4. CASE RecoveryRead(k)
    BY <1>1, <1>4, QuietInv DEF RecoveryRead, PCs, RecoveryHolds
  <1>5. CASE RecoveryUnlock(k)
    BY <1>1, <1>5, QuietInv DEF RecoveryUnlock, PCs
  <1>6. QED
    BY <1>2, <1>3, <1>4, <1>5

LEMMA ReadTaskInv ==
  ASSUME IInv, NEW v \in Readers, ReadTask(v)
  PROVE  IInv'
  <1>1. v \in Actors /\ v \notin Requests /\ v \notin Recoveries
        /\ lock \in Requests \cup Recoveries \cup {Nobody}
    BY ActorsAssumption DEF Actors, IInv, TypeOK
  <1>2. QED
    BY <1>1, QuietInv DEF ReadTask, PCs

(* The connection breaks: from now on nothing rests on the lock. *)
LEMMA LoseLockInv == IInv /\ LoseLock => IInv'
  <1> SUFFICES ASSUME IInv, LoseLock PROVE IInv'
    OBVIOUS
  <1>1. /\ losses' \in 0..MaxLockLosses /\ losses' # 0
        /\ UNCHANGED <<run, checkpoint, root, job, toolRuns, pc, action, seen>>
    BY LossAssumption DEF LoseLock, tables, IInv, TypeOK
  <1>2. TypeOK'
    BY <1>1 DEF LoseLock, IInv, TypeOK
  <1>3. NeverStranded' /\ SnapshotsAreBehind' /\ OneClaim'
    BY <1>1 DEF IInv, NeverStranded, SnapshotsAreBehind, OneClaim, Claimants
  <1>4. QED
    BY <1>1, <1>2, <1>3 DEF IInv, WhileLocked

LEMMA ExpireInv == IInv /\ CheckpointExpires => IInv'
  <1> SUFFICES ASSUME IInv, CheckpointExpires PROVE IInv'
    OBVIOUS
  <1>1. /\ checkpoint' \in Checkpoints /\ checkpoint'.exists = checkpoint.exists
        /\ checkpoint'.decision = checkpoint.decision
        /\ UNCHANGED <<run, root, job, lock, losses, toolRuns, pc, action, seen>>
    BY DEF CheckpointExpires, IInv, TypeOK, Checkpoints
  <1>2. TypeOK'
    BY <1>1 DEF IInv, TypeOK
  <1>3. NeverStranded' /\ SnapshotsAreBehind' /\ OneClaim'
    BY <1>1 DEF IInv, NeverStranded, SnapshotsAreBehind, OneClaim, Claimants
  <1>4. WhileLocked'
    BY <1>1 DEF IInv, WhileLocked, LockIsHeld, HolderIsCurrent, EndsAreFinal, RequestHolds,
                RecoveryHolds, ActiveApprovalSkipped, RootFollowsRun
  <1>5. QED
    BY <1>2, <1>3, <1>4 DEF IInv

(* The tool is executed by the one who has claimed. *)
LEMMA RunToolInv ==
  ASSUME IInv, NEW r \in Requests, RunTool(r)
  PROVE  IInv'
  <1>1. /\ UNCHANGED <<run, checkpoint, root, job, lock, losses, action, seen>>
        /\ pc[r] = "resuming" /\ action[r] = "approve"
        /\ pc' \in [Actors -> PCs] /\ pc'[r] = "ran" /\ \A b \in Actors \ {r} : pc'[b] = pc[b]
        /\ toolRuns' = toolRuns \cup {r} /\ r \in Actors
    BY DEF RunTool, tables, Goto, IInv, TypeOK, Actors, PCs
  <1>2. TypeOK'
    BY <1>1 DEF IInv, TypeOK
  <1>3. NeverStranded' /\ SnapshotsAreBehind'
    BY <1>1 DEF IInv, NeverStranded, SnapshotsAreBehind
  <1>4. OneClaim'
    <2>1. Claimants' = Claimants
      BY <1>1 DEF Claimants, Actors
    <2>2. QED
      BY <1>1, <2>1 DEF IInv, OneClaim
  <1>5. WhileLocked'
    <2> SUFFICES ASSUME losses' = 0
                 PROVE  /\ LockIsHeld' /\ HolderIsCurrent' /\ EndsAreFinal'
                        /\ ActiveApprovalSkipped' /\ RootFollowsRun'
      BY DEF WhileLocked
    <2>1. /\ LockIsHeld /\ HolderIsCurrent /\ EndsAreFinal
          /\ ActiveApprovalSkipped /\ RootFollowsRun
      BY <1>1 DEF IInv, WhileLocked
    <2>2. LockIsHeld'
      BY <1>1, <2>1, ActorsAssumption DEF LockIsHeld, RequestHolds, RecoveryHolds, Actors
    <2>3. HolderIsCurrent' /\ EndsAreFinal' /\ ActiveApprovalSkipped' /\ RootFollowsRun'
      BY <1>1, <2>1, ActorsAssumption
         DEF HolderIsCurrent, EndsAreFinal, ActiveApprovalSkipped, RootFollowsRun, Actors
    <2>4. QED
      BY <2>2, <2>3
  <1>6. QED
    BY <1>2, <1>3, <1>4, <1>5 DEF IInv

-----------------------------------------------------------------------------
(* Steps that repair the public run *)

(* The repair writes the end that was read, which is the run's end still:  *)
(* it does not matter who writes it, or how often.                         *)
LEMMA SyncInv ==
  ASSUME IInv, NEW a \in Actors, NEW label \in {"unlocked", "done", "idle"}, Goto(a, label),
         Sync(seen[a]), Forget(a),
         UNCHANGED <<run, checkpoint, lock, losses, toolRuns, action>>
  PROVE  IInv'
  <1> DEFINE s == seen[a]
  <1>1. /\ pc' \in [Actors -> PCs] /\ pc'[a] = label
        /\ \A b \in Actors \ {a} : pc'[b] = pc[b]
    BY DEF IInv, TypeOK, Goto, PCs
  <1>2. /\ seen' \in [Actors -> Snapshots] /\ seen'[a] = Blank
        /\ \A b \in Actors \ {a} : seen'[b] = seen[b]
        /\ s.run \in RunRows
    BY BlankIsQuiet DEF IInv, TypeOK, Forget, Snapshots
  <1>3. \/ /\ s.run.status \in Terminal /\ root' = s.run /\ job' = s.run.status
        \/ UNCHANGED <<root, job>>
    BY DEF Sync, SyncDue
  <1> HIDE DEF s
  <1>4. TypeOK'
    BY <1>1, <1>2, <1>3 DEF IInv, TypeOK, Jobs
  <1>5. NeverStranded'
    BY DEF IInv, NeverStranded
  <1>6. SnapshotsAreBehind'
    BY <1>2, BlankIsQuiet DEF IInv, SnapshotsAreBehind, Terminal
  <1>7. OneClaim'
    <2>1. Claimants' \subseteq Claimants
      BY <1>1 DEF Claimants, Actors
    <2>2. QED
      BY <2>1 DEF IInv, OneClaim
  <1>8. WhileLocked'
    <2> SUFFICES ASSUME losses' = 0
                 PROVE  /\ LockIsHeld' /\ HolderIsCurrent' /\ EndsAreFinal'
                        /\ ActiveApprovalSkipped' /\ RootFollowsRun'
      BY DEF WhileLocked
    <2>1. /\ LockIsHeld /\ HolderIsCurrent /\ EndsAreFinal
          /\ ActiveApprovalSkipped /\ RootFollowsRun
      BY DEF IInv, WhileLocked
    <2>2. LockIsHeld'
      BY <1>1, <2>1 DEF LockIsHeld, RequestHolds, RecoveryHolds, Actors
    <2>3. HolderIsCurrent'
      BY <1>1, <1>2, <2>1 DEF HolderIsCurrent, Actors
    <2>4. EndsAreFinal'
      BY <1>2, <2>1, BlankIsQuiet DEF EndsAreFinal, Terminal
    <2>5. ActiveApprovalSkipped'
      BY <1>1, <2>1 DEF ActiveApprovalSkipped, Actors
    <2>6. RootFollowsRun'
      BY <1>3, <2>1 DEF RootFollowsRun, EndsAreFinal, s
    <2>7. QED
      BY <2>2, <2>3, <2>4, <2>5, <2>6
  <1>9. QED
    BY <1>4, <1>5, <1>6, <1>7, <1>8 DEF IInv

LEMMA RepairsInv ==
  ASSUME IInv,
         \/ \E r \in Requests : Admit(r) \/ CloseWrite(r)
         \/ \E v \in Readers : RepairTask(v)
  PROVE  IInv'
  <1>1. ASSUME NEW r \in Requests, Admit(r) PROVE IInv'
    <2>1. PICK label \in {"unlocked", "done", "idle"} : Goto(r, label)
      BY <1>1 DEF Admit
    <2>2. QED
      BY <1>1, <2>1, SyncInv DEF Admit, Actors
  <1>2. ASSUME NEW r \in Requests, CloseWrite(r) PROVE IInv'
    BY <1>2, SyncInv DEF CloseWrite, Actors
  <1>3. ASSUME NEW v \in Readers, RepairTask(v) PROVE IInv'
    BY <1>3, SyncInv DEF RepairTask, Actors
  <1>4. QED
    BY <1>1, <1>2, <1>3

-----------------------------------------------------------------------------
(* Steps that write the run *)

(* Whatever is written moves the run forward and leaves its checkpoint to  *)
(* match; whoever writes holds the lock as far as it knows.                *)
LEMMA WriteInv ==
  ASSUME IInv, NEW a \in Actors, NEW label \in {"unlocking", "resuming", "releasing"},
         Goto(a, label), UNCHANGED seen \/ Forget(a),
         UNCHANGED <<root, job, lock, losses, toolRuns, action>>,
         run' \in RunRows, checkpoint' \in Checkpoints, NeverStranded',
         run.status # "waiting_approval" => run'.status # "waiting_approval",
         run.status \in Terminal => run'.status \in Terminal,
         losses = 0 /\ run.status \in Terminal => run' = run,
         (a \in Requests /\ RequestHolds(a) /\ label \in {"unlocking", "resuming"})
           \/ (a \in Recoveries /\ RecoveryHolds(a) /\ label = "releasing"),
         label = "resuming" =>
             run.status = "waiting_approval" /\ run'.status = "running" /\ checkpoint'.exists
  PROVE  IInv'
  <1>1. /\ pc' \in [Actors -> PCs] /\ pc'[a] = label
        /\ \A b \in Actors \ {a} : pc'[b] = pc[b]
    BY DEF IInv, TypeOK, Goto, PCs
  <1>2. /\ seen' \in [Actors -> Snapshots] /\ seen'[a] \in {seen[a], Blank}
        /\ \A b \in Actors \ {a} : seen'[b] = seen[b]
    BY BlankIsQuiet DEF IInv, TypeOK, Forget
  <1>3. TypeOK'
    BY <1>1, <1>2 DEF IInv, TypeOK
  <1>4. SnapshotsAreBehind'
    <2> SUFFICES ASSUME NEW b \in Actors
                 PROVE  /\ seen'[b].run.status = "running" =>
                             /\ run'.status # "waiting_approval" /\ seen'[b].checkpoint.exists
                             /\ seen'[b].checkpoint.decision # "none"
                        /\ seen'[b].run.status \in Terminal => run'.status \in Terminal
      BY DEF SnapshotsAreBehind
    <2>1. CASE seen'[b] = seen[b]
      BY <2>1 DEF IInv, SnapshotsAreBehind
    <2>2. CASE seen'[b] = Blank
      BY <2>2, BlankIsQuiet DEF Terminal
    <2>3. QED
      BY <1>2, <2>1, <2>2
  <1>5. OneClaim'
    <2>1. CASE label # "resuming"
      <3>1. Claimants' \subseteq Claimants
        BY <1>1, <2>1 DEF Claimants, Actors
      <3>2. QED
        BY <3>1 DEF IInv, OneClaim
    <2>2. CASE label = "resuming"
      <3>1. Claimants = {}
        BY <2>2 DEF IInv, OneClaim
      <3>2. Claimants' \subseteq {a}
        BY <1>1, <2>2, <3>1 DEF Claimants, Actors
      <3>3. QED
        BY <2>2, <3>2 DEF IInv, OneClaim
    <2>3. QED
      BY <2>1, <2>2
  <1>6. WhileLocked'
    <2> SUFFICES ASSUME losses' = 0
                 PROVE  /\ LockIsHeld' /\ HolderIsCurrent' /\ EndsAreFinal'
                        /\ ActiveApprovalSkipped' /\ RootFollowsRun'
      BY DEF WhileLocked
    <2>1. /\ LockIsHeld /\ HolderIsCurrent /\ EndsAreFinal
          /\ ActiveApprovalSkipped /\ RootFollowsRun
      BY DEF IInv, WhileLocked
    <2>2. /\ \A r \in Requests : RequestHolds(r) => r = a
          /\ \A k \in Recoveries : RecoveryHolds(k) => k = a
      BY <2>1 DEF LockIsHeld
    <2>3. LockIsHeld'
      BY <1>1, <2>1, ActorsAssumption DEF LockIsHeld, RequestHolds, RecoveryHolds, Actors
    <2>4. HolderIsCurrent'
      BY <1>1, <2>2 DEF HolderIsCurrent, RequestHolds, RecoveryHolds, Actors
    <2>5. EndsAreFinal'
      BY <1>2, <2>1, BlankIsQuiet DEF EndsAreFinal, Terminal
    <2>6. ActiveApprovalSkipped'
      BY <1>1, <2>2 DEF ActiveApprovalSkipped, RequestHolds, Actors
    <2>7. RootFollowsRun'
      BY <2>1 DEF RootFollowsRun
    <2>8. QED
      BY <2>3, <2>4, <2>5, <2>6, <2>7
  <1>7. QED
    BY <1>3, <1>4, <1>5, <1>6 DEF IInv

LEMMA RowTypes ==
    /\ \A answer \in Answers, status \in Terminal : [status |-> status, answer |-> answer] \in RunRows
    /\ [status |-> "running", answer |-> ""] \in RunRows
    /\ NoCheckpoint \in Checkpoints /\ ~NoCheckpoint.exists
  BY DEF RunRows, Answers, NoCheckpoint, Checkpoints, Terminal

(* The claim compares the status: only a run that still waits is claimed.  *)
LEMMA ClaimInv ==
  ASSUME IInv, NEW r \in Requests, Claim(r)
  PROVE  IInv'
  <1> DEFINE s == seen[r]
  <1>1. /\ r \in Actors /\ pc[r] = "checking" /\ RequestHolds(r) /\ Forget(r)
        /\ UNCHANGED <<root, job, lock, losses, toolRuns, action>>
        /\ run \in RunRows /\ checkpoint \in Checkpoints /\ action[r] \in Actions
    BY DEF Claim, RequestHolds, Actors, IInv, TypeOK
  <1>2. losses = 0 => s.run = run
    BY <1>1 DEF IInv, WhileLocked, HolderIsCurrent
  <1>3. \/ UNCHANGED <<run, checkpoint>> /\ Goto(r, "unlocking")
        \/ /\ s.run.status = "waiting_approval" /\ Goto(r, "unlocking")
           /\ \E answer \in Answers : run' = [status |-> "failed", answer |-> answer]
           /\ checkpoint' = NoCheckpoint
        \/ ClaimWins /\ ClaimRows(r) /\ Goto(r, "resuming")
    BY DEF Claim, Answers
  <1> HIDE DEF s
  <1>4. CASE UNCHANGED <<run, checkpoint>> /\ Goto(r, "unlocking")
    <2>1. NeverStranded'
      BY <1>4 DEF IInv, NeverStranded
    <2>2. QED
      BY <1>1, <1>4, <2>1, WriteInv
  <1>5. CASE /\ s.run.status = "waiting_approval" /\ Goto(r, "unlocking")
             /\ \E answer \in Answers : run' = [status |-> "failed", answer |-> answer]
             /\ checkpoint' = NoCheckpoint
    <2>1. run' \in RunRows /\ run'.status = "failed" /\ checkpoint' \in Checkpoints
      BY <1>5, RowTypes DEF RunRows, Terminal
    <2>2. NeverStranded'
      BY <2>1 DEF NeverStranded
    <2>3. ~(losses = 0 /\ run.status \in Terminal)
      BY <1>2, <1>5 DEF Terminal
    <2>4. QED
      BY <1>1, <1>5, <2>1, <2>2, <2>3, WriteInv DEF Terminal
  <1>6. CASE ClaimWins /\ ClaimRows(r) /\ Goto(r, "resuming")
    <2>1. /\ run.status = "waiting_approval" /\ run' \in RunRows /\ run'.status = "running"
          /\ checkpoint' \in Checkpoints /\ checkpoint'.exists
          /\ checkpoint'.decision = action[r] /\ action[r] # "none"
      BY <1>1, <1>6, RowTypes DEF ClaimWins, ClaimRows, Checkpoints, Actions
    <2>2. NeverStranded'
      BY <2>1 DEF NeverStranded
    <2>3. QED
      BY <1>1, <1>6, <2>1, <2>2, WriteInv DEF Terminal
  <1>7. QED
    BY <1>3, <1>4, <1>5, <1>6

(* The result is written whatever the row holds: while the lock lasts, it  *)
(* holds the running run.                                                  *)
LEMMA FinishInv ==
  ASSUME IInv, NEW r \in Requests, Finish(r)
  PROVE  IInv'
  <1>1. /\ r \in Actors /\ pc[r] \in {"resuming", "ran"} /\ RequestHolds(r)
        /\ UNCHANGED <<root, job, lock, losses, toolRuns, action, seen>>
        /\ Goto(r, "unlocking") /\ checkpoint' = NoCheckpoint
    BY DEF Finish, RequestHolds, Actors
  <1>2. PICK answer \in Answers, status \in Terminal :
          run' = [status |-> status, answer |-> answer]
    <2>1. action[r] \in Actions
      BY DEF IInv, TypeOK
    <2>2. Refusal(action[r]) \in Answers /\ {"RESULT", ""} \subseteq Answers
      BY <2>1 DEF Refusal, Actions, Answers
    <2>3. QED
      BY <2>2 DEF Finish, Terminal
  <1>3. run' \in RunRows /\ run'.status \in Terminal /\ checkpoint' \in Checkpoints
    BY <1>1, <1>2, RowTypes
  <1>4. NeverStranded'
    BY <1>3 DEF NeverStranded, Terminal
  <1>5. ~(losses = 0 /\ run.status \in Terminal)
    BY <1>1 DEF IInv, WhileLocked, ActiveApprovalSkipped, Terminal
  <1>6. QED
    BY <1>1, <1>3, <1>4, <1>5, WriteInv DEF Terminal

(* A recovery fails what was claimed or has expired; a run that was read   *)
(* running had been claimed, so none is ever put back to waiting.          *)
LEMMA RepairInv ==
  ASSUME IInv, NEW k \in Recoveries, Repair(k)
  PROVE  IInv'
  <1> DEFINE s == seen[k]
  <1>1. /\ k \in Actors /\ pc[k] = "repairing" /\ RecoveryHolds(k) /\ Forget(k)
        /\ Goto(k, "releasing") /\ UNCHANGED <<root, job, lock, losses, toolRuns, action>>
        /\ run \in RunRows /\ checkpoint \in Checkpoints /\ s \in Snapshots
    BY DEF Repair, RecoveryHolds, Actors, IInv, TypeOK
  <1>2. losses = 0 => s.run = run
    BY <1>1 DEF IInv, WhileLocked, HolderIsCurrent
  <1>3. /\ s.run.status = "running" => s.checkpoint.decision # "none"
        /\ s.run.status \in Terminal => run.status \in Terminal
    BY <1>1 DEF IInv, SnapshotsAreBehind
  <1>4. \/ UNCHANGED <<run, checkpoint>>
        \/ s.run.status \in Terminal /\ checkpoint' = NoCheckpoint /\ UNCHANGED run
        \/ s.run.status \notin Terminal /\ FailLost(s)
    <2>1. s.run.status \in {"waiting_approval", "running"} \cup Terminal
      BY <1>1 DEF Snapshots, RunRows
    <2>2. QED
      BY <1>3, <2>1 DEF Repair
  <1> HIDE DEF s
  <1>5. CASE UNCHANGED <<run, checkpoint>>
    <2>1. NeverStranded'
      BY <1>5 DEF IInv, NeverStranded
    <2>2. QED
      BY <1>1, <1>5, <2>1, WriteInv
  <1>6. CASE s.run.status \in Terminal /\ checkpoint' = NoCheckpoint /\ UNCHANGED run
    <2>1. NeverStranded' /\ checkpoint' \in Checkpoints
      BY <1>3, <1>6, RowTypes DEF NeverStranded, Terminal
    <2>2. QED
      BY <1>1, <1>6, <2>1, WriteInv
  <1>7. CASE s.run.status \notin Terminal /\ FailLost(s)
    <2>1. PICK answer \in Answers : run' = [status |-> "failed", answer |-> answer]
      BY <1>7 DEF FailLost, Answers
    <2>2. run' \in RunRows /\ run'.status = "failed" /\ checkpoint' \in Checkpoints
      BY <1>7, <2>1, RowTypes DEF FailLost, RunRows, Terminal
    <2>3. NeverStranded'
      BY <2>2 DEF NeverStranded
    <2>4. ~(losses = 0 /\ run.status \in Terminal)
      BY <1>2, <1>7
    <2>5. QED
      BY <1>1, <2>2, <2>3, <2>4, WriteInv DEF Terminal
  <1>8. QED
    BY <1>4, <1>5, <1>6, <1>7

-----------------------------------------------------------------------------

LEMMA StepInv == IInv /\ [Next]_vars => IInv'
  <1> SUFFICES ASSUME IInv, [Next]_vars PROVE IInv'
    OBVIOUS
  <1>1. CASE \E r \in Requests : RequestStep(r)
    BY <1>1, QuietRequestInv, RepairsInv, ClaimInv, RunToolInv, FinishInv DEF RequestStep
  <1>2. CASE \E k \in Recoveries : RecoveryStep(k)
    BY <1>2, QuietRecoveryInv, RepairInv DEF RecoveryStep
  <1>3. CASE \E v \in Readers : ReaderStep(v)
    BY <1>3, ReadTaskInv, RepairsInv DEF ReaderStep
  <1>4. CASE \E a \in Actors : Crash(a)
    BY <1>4, CrashInv
  <1>5. CASE UNCHANGED vars
    <2>1. TypeOK' /\ NeverStranded' /\ SnapshotsAreBehind' /\ OneClaim'
      BY <1>5 DEF vars, IInv, TypeOK, NeverStranded, SnapshotsAreBehind, OneClaim, Claimants
    <2>2. WhileLocked'
      BY <1>5 DEF vars, IInv, WhileLocked, LockIsHeld, HolderIsCurrent, EndsAreFinal,
                  ActiveApprovalSkipped, RootFollowsRun, RequestHolds, RecoveryHolds
    <2>3. QED
      BY <2>1, <2>2 DEF IInv
  <1>6. QED
    BY <1>1, <1>2, <1>3, <1>4, <1>5, ExpireInv, LoseLockInv DEF Next, Actors

LEMMA Invariance == Spec => []IInv
  BY InitInv, StepInv, PTL DEF Spec

(* approve_agent_run and the recoveries, however they meet and crash, and  *)
(* even when the lock's connection breaks: the high-risk tool is executed  *)
(* for one request at most, and for an approval only.                      *)
THEOREM ToolsRunAtMostOnce == Spec => []ToolRunsAtMostOnce
  <1>1. IInv => ToolRunsAtMostOnce
    <2> SUFFICES ASSUME IInv PROVE ToolRunsAtMostOnce
      OBVIOUS
    <2>1. \A p, q \in toolRuns : p = q
      BY DEF IInv, OneClaim, Claimants
    <2>2. Cardinality(toolRuns) <= 1
      <3>1. CASE toolRuns = {}
        BY <3>1, FS_EmptySet
      <3>2. ASSUME NEW p \in toolRuns PROVE Cardinality(toolRuns) <= 1
        <4>1. toolRuns = {p}
          BY <2>1, <3>2
        <4>2. Cardinality({p}) = 1
          BY FS_Singleton
        <4>3. QED
          BY <4>1, <4>2
      <3>3. QED
        BY <3>1, <3>2
    <2>3. QED
      BY <2>2 DEF IInv, OneClaim, ToolRunsAtMostOnce
  <1>2. QED
    BY <1>1, Invariance, PTL

(* A waiting task can be decided and a running one found by a recovery,    *)
(* whoever dies between any two transactions.                              *)
THEOREM TasksAreNeverStranded == Spec => []NeverStranded
  <1>1. IInv => NeverStranded
    BY DEF IInv
  <1>2. QED
    BY <1>1, Invariance, PTL

(* sync_published_approval: while the lock's connections last, a public    *)
(* result is the private run's, whichever repair wrote it from whatever    *)
(* snapshot.                                                               *)
THEOREM RootsFollowRuns == Spec => []RootFollowsRun
  <1>1. IInv => RootFollowsRun
    BY DEF IInv, WhileLocked, RootFollowsRun
  <1>2. QED
    BY <1>1, Invariance, PTL

(* P3-runbook.md: a recovery skips an approval while it executes: so it    *)
(* does as long as the lock's connections last.                            *)
THEOREM ActiveApprovalsAreSkipped == Spec => [](losses = 0 => ActiveApprovalSkipped)
  <1>1. IInv => (losses = 0 => ActiveApprovalSkipped)
    BY DEF IInv, WhileLocked
  <1>2. QED
    BY <1>1, Invariance, PTL

(* A finished private run is written once: while the lock's connections    *)
(* last nobody who read it earlier writes over it.                         *)
THEOREM FinishedRunsAreFinal == Spec => FinishedIsFinal
  <1>1. ASSUME IInv, [Next]_vars, run.status \in Terminal, losses = 0 PROVE run' = run
    <2>1. ASSUME NEW r \in Requests, Claim(r) PROVE run' = run
      <3>1. seen[r].run = run
        BY <1>1, <2>1 DEF Claim, IInv, WhileLocked, HolderIsCurrent
      <3>2. QED
        BY <1>1, <2>1, <3>1 DEF Claim, ClaimWins, Terminal
    <2>2. ASSUME NEW r \in Requests, Finish(r) PROVE FALSE
      BY <1>1, <2>2 DEF Finish, IInv, WhileLocked, ActiveApprovalSkipped, Terminal
    <2>3. ASSUME NEW k \in Recoveries, Repair(k) PROVE run' = run
      <3>1. seen[k].run = run
        BY <1>1, <2>3 DEF Repair, IInv, WhileLocked, HolderIsCurrent
      <3>2. QED
        BY <1>1, <2>3, <3>1 DEF Repair
    <2>4. QED
      BY <1>1, <2>1, <2>2, <2>3
         DEF Next, vars, tables, RequestStep, RecoveryStep, ReaderStep, Enter, Admit, Lock, Check,
             RunTool, Unlock, CloseRead, CloseWrite, List, RecoveryLock, RecoveryRead,
             RecoveryUnlock, ReadTask, RepairTask, Crash, CheckpointExpires, LoseLock
  <1>2. IInv /\ [Next]_vars => [run.status \in Terminal /\ losses = 0 => run' = run]_vars
    BY <1>1
  <1>3. QED
    BY <1>2, Invariance, PTL DEF Spec, FinishedIsFinal

-----------------------------------------------------------------------------
(* The event streams *)

(* A history holds the newest of the numbers below next, without a gap. *)
Whole(events, next) ==
    /\ Len(events) = IF next - 1 <= MaxEvents THEN next - 1 ELSE MaxEvents
    /\ \A i \in 1..Len(events) : events[i].seq = next - 1 - Len(events) + i

(* A status that names an outcome is held by the row: completed for good,  *)
(* waiting until somebody acts upon the approval.                          *)
Held(status) ==
    /\ status = "completed" => row = "completed"
    /\ status = "waiting_approval" => approval # "none"

(* Nothing is published for the run by its own task any more. *)
Over == {"done", "lost", "escaped"}

(* The numbers of the first n events of s grow. *)
Rises(s, n) == \A i, j \in 1..n : i < j => s[i].seq < s[j].seq

(* What the first n events of s miss of the numbers above from is at least *)
(* MaxEvents older than to.                                                *)
Covers(s, n, from, to) ==
    \A m \in (from + 1)..to : (\E i \in 1..n : s[i].seq = m) \/ m + MaxEvents <= to

(* Where the run is tells what its row says ... *)
RowFollows ==
    /\ task = "idle" => row = "absent"
    /\ task \in {"prepared", "scheduled", "executing"} => row = "running"
    /\ task \in {"idle", "prepared", "scheduled", "executing"} => approval = "none"
    /\ Held(task)
    /\ approval = "asked" <=> row = "waiting_approval"
    /\ approval = "decided" => row = "running"

(* ... and so does every event that names an outcome. *)
LogNamesRow == \A i \in 1..Len(log) : Held(log[i].status)

(* A history is closed by its last event, when the run has ended. *)
ClosedByLast ==
    closed /\ ~early =>
        /\ log # <<>> /\ log[Len(log)].type = "terminal"
        /\ task \in Over

RunInv == Whole(log, sequence) /\ RowFollows /\ LogNamesRow /\ ClosedByLast

Opened == Reading \cup {"ended"}

(* What a client knows of the outcome is true. *)
ClientNamesRow(c) ==
    /\ Held(client[c].seen)
    /\ client[c].pc \in Reading => client[c].seen # "absent"
    /\ \A i \in 1..Len(client[c].got) :
         Held(client[c].got[i].status)

(* What a handler has sent of this history reaches as far as its cursor. *)
SentOfLog(c) ==
    client[c].pc \in Reading /\ client[c].from = 0 /\ client[c].got # <<>> =>
        LET last == client[c].got[Len(client[c].got)] IN
        /\ last.seq <= sequence - 1
        /\ last.seq = sequence - 1 => log # <<>> /\ log[Len(log)] = last

CursorOK(c) ==
    LET got == client[c].got IN
    /\ Rises(got, Len(got))
    /\ client[c].pc \in Opened /\ got = <<>> => client[c].from = 0
    /\ client[c].pc = "out" => got = <<>>

GapsAreOld(c) ==
    client[c].pc \in Opened /\ client[c].got # <<>> =>
        LET got == client[c].got
            last == got[Len(got)].seq
        IN  /\ client[c].from <= last
            /\ Covers(got, Len(got), client[c].from, last)

ToldEnd(c) ==
    client[c].pc = "ended" /\ client[c].from = 0 /\ ~early =>
        client[c].got # <<>> /\ client[c].got[Len(client[c].got)].type = "terminal"

ClientInv(c) == ClientNamesRow(c) /\ SentOfLog(c) /\ CursorOK(c) /\ GapsAreOld(c) /\ ToldEnd(c)

StreamInv == StreamTypeOK /\ RunInv /\ \A c \in Clients : ClientInv(c)

-----------------------------------------------------------------------------
(* An event that is added with the next number leaves the history whole. *)
LEMMA TrimKeepsWhole ==
    ASSUME NEW events \in Seq(Event), NEW next \in Nat \ {0}, Whole(events, next),
           NEW e \in Event, e.seq = next, NEW out, out = Trim(Append(events, e))
    PROVE  /\ out \in Seq(Event) /\ Len(out) \in 1..MaxEvents /\ Whole(out, next + 1)
           /\ out[Len(out)] = e
           /\ \A i \in 1..Len(out) : out[i] = e \/ \E k \in 1..Len(events) : out[i] = events[k]
<1> DEFINE all == Append(events, e)
           n == Len(events)
<1> USE StreamAssumption
<1>1. /\ n \in Nat /\ all \in Seq(Event) /\ Len(all) = n + 1
      /\ (\A i \in 1..n : all[i] = events[i]) /\ all[n + 1] = e
  BY AppendProperties
<1>2. /\ n = IF next - 1 <= MaxEvents THEN next - 1 ELSE MaxEvents
      /\ \A i \in 1..n : events[i].seq = next - 1 - n + i
  BY DEF Whole
<1>3. \A i \in 1..(n + 1) : all[i] = e \/ \E k \in 1..n : all[i] = events[k]
  BY <1>1
<1>4. \A i \in 1..(n + 1) : all[i].seq = next - 1 - n + i
  BY <1>1, <1>2
<1> HIDE DEF all, n
<1>5. CASE n + 1 <= MaxEvents
  <2>1. out = all /\ Len(out) = n + 1
    BY <1>1, <1>5 DEF Trim, all
  <2>2. Whole(out, next + 1)
    BY <1>1, <1>2, <1>4, <1>5, <2>1 DEF Whole
  <2>3. out \in Seq(Event) /\ Len(out) \in 1..MaxEvents /\ out[Len(out)] = e
    BY <1>1, <1>5, <2>1
  <2>4. \A i \in 1..Len(out) : out[i] = e \/ \E k \in 1..n : out[i] = events[k]
    BY <1>3, <2>1
  <2> QED
    BY <2>2, <2>3, <2>4 DEF n
<1>6. CASE n + 1 > MaxEvents
  <2>1. out = SubSeq(all, n + 1 - MaxEvents + 1, n + 1) /\ n = MaxEvents
    <3>1. n = MaxEvents
      BY <1>1, <1>2, <1>6
    <3>2. out = SubSeq(all, Len(all) - MaxEvents + 1, Len(all))
      BY <1>1, <1>6 DEF Trim, all
    <3> QED
      BY <1>1, <3>1, <3>2
  <2>2. out = SubSeq(all, 2, n + 1)
    BY <1>1, <2>1
  <2>3. \A i \in 2..(n + 1) : all[i] \in Event
    BY <1>1
  <2>4. /\ out \in Seq(Event) /\ Len(out) = n
        /\ \A i \in 1..n : out[i] = all[i + 1]
    <3>1. /\ SubSeq(all, 2, n + 1) \in Seq(Event)
          /\ Len(SubSeq(all, 2, n + 1)) = IF 2 <= n + 1 THEN n + 1 - 2 + 1 ELSE 0
          /\ \A i \in 1..(n + 1 - 2 + 1) : SubSeq(all, 2, n + 1)[i] = all[2 + i - 1]
      BY <1>1, <2>3, SubSeqProperties
    <3> QED
      BY <1>1, <2>1, <2>2, <3>1
  <2>5. Whole(out, next + 1)
    BY <1>1, <1>2, <1>4, <2>1, <2>4 DEF Whole
  <2>6. Len(out) \in 1..MaxEvents /\ out[Len(out)] = e
    <3>1. Len(out) \in 1..MaxEvents /\ Len(out) = n
      BY <1>1, <2>1, <2>4
    <3> QED
      BY <1>1, <2>4, <3>1
  <2>7. \A i \in 1..Len(out) : out[i] = e \/ \E k \in 1..n : out[i] = events[k]
    <3>1. ASSUME NEW i \in 1..Len(out) PROVE i + 1 \in 1..(n + 1) /\ out[i] = all[i + 1]
      BY <1>1, <2>4
    <3> QED
      BY <1>3, <3>1
  <2> QED
    BY <2>4, <2>5, <2>6, <2>7 DEF n
<1> QED
  BY <1>1, <1>5, <1>6

(* The events above a number are a tail of the history. *)
LEMMA AfterIsTail ==
    ASSUME NEW events \in Seq(Event), NEW next \in Nat \ {0}, Whole(events, next), NEW n \in Nat
    PROVE  \E k \in 0..Len(events) :
             /\ \A i \in 1..Len(events) : events[i].seq > n <=> i > k
             /\ After(events, n) \in Seq(Event) /\ Len(After(events, n)) = Len(events) - k
             /\ \A i \in 1..(Len(events) - k) : After(events, n)[i] = events[k + i]
<1> DEFINE len == Len(events)
           Splits(k) == \A i \in 1..len : events[i].seq > n <=> i > k
           old == CHOOSE k \in 0..len : Splits(k)
<1>1. len \in Nat /\ \A i \in 1..len : events[i] \in Event /\ events[i].seq = next - 1 - len + i
  BY DEF Whole
<1>2. \E k \in 0..len : Splits(k)
  <2>1. CASE n <= next - 1 - len
    <3>1. 0 \in 0..len /\ Splits(0)
      BY <1>1, <2>1
    <3> QED
      BY <3>1
  <2>2. CASE n >= next - 1
    <3>1. len \in 0..len /\ Splits(len)
      BY <1>1, <2>2
    <3> QED
      BY <3>1
  <2>3. CASE n > next - 1 - len /\ n < next - 1
    <3>1. n - (next - 1 - len) \in 0..len
      BY <1>1, <2>3
    <3>2. Splits(n - (next - 1 - len))
      BY <1>1, <3>1
    <3> QED
      BY <3>1, <3>2
  <2>4. n <= next - 1 - len \/ n >= next - 1 \/ (n > next - 1 - len /\ n < next - 1)
    BY <1>1
  <2> QED
    BY <2>1, <2>2, <2>3, <2>4
<1>3. old \in 0..len /\ Splits(old)
  BY <1>2
<1>4. After(events, n) = SubSeq(events, old + 1, len)
  BY DEF After
<1> HIDE DEF old
<1>5. \A i \in (old + 1)..len : events[i] \in Event
  BY <1>1, <1>3
<1>6. /\ After(events, n) \in Seq(Event) /\ Len(After(events, n)) = len - old
      /\ \A i \in 1..(len - old) : After(events, n)[i] = events[old + i]
  <2>1. /\ SubSeq(events, old + 1, len) \in Seq(Event)
        /\ Len(SubSeq(events, old + 1, len)) = IF old + 1 <= len THEN len - (old + 1) + 1 ELSE 0
        /\ \A i \in 1..(len - (old + 1) + 1) : SubSeq(events, old + 1, len)[i] = events[old + 1 + i - 1]
    BY <1>1, <1>3, <1>5, SubSeqProperties
  <2> QED
    BY <1>1, <1>3, <1>4, <2>1
<1> QED
  BY <1>3, <1>6

LEMMA ClientTyped ==
    ASSUME StreamTypeOK, NEW c \in Clients
    PROVE  /\ client[c].pc \in Reading \cup {"out", "cut", "ended"}
           /\ client[c].seen \in Outcomes \cup {"absent", "running"}
           /\ client[c].from \in Nat /\ client[c].got \in Seq(Event)
           /\ Len(client[c].got) \in Nat
           /\ \A i \in 1..Len(client[c].got) : client[c].got[i] \in Event
  BY DEF StreamTypeOK

LEMMA StreamInitRow == StreamInit => approval = "none"
  BY DEF StreamInit

LEMMA StreamBegins == StreamInit => StreamInv
<1> SUFFICES ASSUME StreamInit
             PROVE  StreamInv
  OBVIOUS
<1> USE StreamAssumption
<1>1. StreamTypeOK
  <2>1. client \in [Clients -> [pc: Reading \cup {"out", "cut", "ended"},
                                seen: Outcomes \cup {"absent", "running"},
                                from: Nat, got: Seq(Event)]]
    BY EmptySeq DEF StreamInit
  <2>2. log \in Seq(Event) /\ Len(log) <= MaxEvents
    BY EmptySeq DEF StreamInit
  <2>3. /\ row = "absent" /\ task = "idle" /\ sequence = 1 /\ closed = FALSE
        /\ restarts = 0 /\ early = FALSE
    BY DEF StreamInit
  <2>4. restarts \in 0..MaxRestarts
    BY <2>3
  <2>5. /\ row \in Outcomes \cup {"absent", "running"}
        /\ task \in Outcomes \cup {"idle", "prepared", "scheduled", "executing", "escaped", "done", "lost"}
        /\ approval \in {"none", "asked", "decided", "over"}
    BY <2>3, StreamInitRow
  <2>6. sequence \in Nat \ {0}
    BY <2>3
  <2>7. closed \in BOOLEAN /\ early \in BOOLEAN
    BY <2>3, Zenon
  <2> QED
    BY <2>1, <2>2, <2>4, <2>5, <2>6, <2>7 DEF StreamTypeOK
<1>2. RunInv
  BY DEF StreamInit, RunInv, Whole, RowFollows, LogNamesRow, ClosedByLast, Held, Over
<1>3. ASSUME NEW c \in Clients
      PROVE  ClientInv(c)
  <2>1. client[c] = [pc |-> "out", seen |-> "absent", from |-> 0, got |-> <<>>]
    BY DEF StreamInit
  <2> QED
    BY <2>1 DEF ClientInv, ClientNamesRow, SentOfLog, CursorOK, GapsAreOld, ToldEnd, Reading,
       Opened, Held, Rises
<1> QED
  BY <1>1, <1>2, <1>3 DEF StreamInv

(* What publishing does to the broker's part of the invariant. *)
LEMMA PublishAdds ==
    ASSUME StreamInv, NEW type \in {"accepted", "progress", "terminal"},
           NEW status \in Outcomes \cup {"running"}, NEW terminal \in BOOLEAN,
           Publish(type, status, terminal)
    PROVE  /\ log' \in Seq(Event) /\ Len(log') \in 1..MaxEvents /\ log' # <<>>
           /\ Whole(log', sequence') /\ sequence' = sequence + 1 /\ sequence' \in Nat \ {0}
           /\ log'[Len(log')].type = type
           /\ \A i \in 1..Len(log') :
                log'[i].status = status \/ \E k \in 1..Len(log) : log'[i].status = log[k].status
           /\ closed' = (closed \/ terminal) /\ closed' \in BOOLEAN
<1> DEFINE e == [seq |-> sequence, type |-> type, status |-> status]
<1>1. /\ log \in Seq(Event) /\ sequence \in Nat \ {0} /\ Whole(log, sequence) /\ closed \in BOOLEAN
  BY DEF StreamInv, StreamTypeOK, RunInv
<1>2. e \in Event /\ e.seq = sequence /\ e.type = type /\ e.status = status
  BY <1>1 DEF Event
<1>3. log' = Trim(Append(log, e)) /\ sequence' = sequence + 1 /\ closed' = (closed \/ terminal)
  BY DEF Publish
<1> HIDE DEF e
<1>4. /\ log' \in Seq(Event) /\ Len(log') \in 1..MaxEvents /\ Whole(log', sequence + 1)
      /\ log'[Len(log')] = e
      /\ \A i \in 1..Len(log') : log'[i] = e \/ \E k \in 1..Len(log) : log'[i] = log[k]
  BY <1>1, <1>2, <1>3, TrimKeepsWhole
<1>5. log' # <<>>
  BY <1>4, StreamAssumption
<1> QED
  BY <1>1, <1>2, <1>3, <1>4, <1>5

(* Any step that publishes one event: it tells the truth, and once the     *)
(* history is closed nothing but an announcement follows.                  *)
LEMMA PublishKeeps ==
    ASSUME StreamInv, NEW type \in {"accepted", "progress", "terminal"},
           NEW status \in Outcomes \cup {"running"}, NEW terminal \in BOOLEAN,
           Publish(type, status, terminal),
           Held(status),
           row' = row, approval' = approval, restarts' = restarts, RowFollows',
           task' \in Outcomes \cup {"idle", "prepared", "scheduled", "executing", "escaped", "done", "lost"},
           early' \in BOOLEAN, ~early' => ~early,
           ~early' => (closed \/ terminal => type = "terminal" /\ task' \in Over),
           client' \in [Clients -> [pc: Reading \cup {"out", "cut", "ended"},
                                    seen: Outcomes \cup {"absent", "running"},
                                    from: Nat, got: Seq(Event)]],
           \A c \in Clients :
               /\ client'[c].seen = client[c].seen /\ client'[c].from = client[c].from
               /\ client'[c].got = client[c].got
               /\ client'[c].pc = client[c].pc \/ {client[c].pc, client'[c].pc} \subseteq Reading
    PROVE  StreamInv'
<1>1. /\ log' \in Seq(Event) /\ Len(log') \in 1..MaxEvents /\ log' # <<>>
      /\ Whole(log', sequence') /\ sequence' = sequence + 1 /\ sequence' \in Nat \ {0}
      /\ log'[Len(log')].type = type
      /\ \A i \in 1..Len(log') :
           log'[i].status = status \/ \E k \in 1..Len(log) : log'[i].status = log[k].status
      /\ closed' = (closed \/ terminal) /\ closed' \in BOOLEAN
  BY PublishAdds
<1>2. StreamTypeOK'
  BY <1>1, StreamAssumption DEF StreamInv, StreamTypeOK
<1>3. LogNamesRow'
  <2>1. ASSUME NEW s, Held(s)
        PROVE  Held(s)'
    BY <2>1 DEF Held
  <2>2. \A i \in 1..Len(log) : Held(log[i].status)
    BY DEF StreamInv, RunInv, LogNamesRow
  <2>3. ASSUME NEW i \in 1..Len(log')
        PROVE  Held(log[i].status)'
    <3>1. CASE log'[i].status = status
      BY <3>1 DEF Held
    <3>2. CASE \E k \in 1..Len(log) : log'[i].status = log[k].status
      BY <2>2, <3>2 DEF Held
    <3> QED
      BY <1>1, <3>1, <3>2
  <2> QED
    BY <2>3 DEF LogNamesRow
<1>4. ClosedByLast'
  <2>1. closed' /\ ~early' => type = "terminal" /\ task' \in Over
    BY <1>1, Zenon
  <2> QED
    BY <1>1, <2>1 DEF ClosedByLast
<1>5. RunInv'
  BY <1>1, <1>3, <1>4 DEF RunInv
<1>6. ASSUME NEW c \in Clients
      PROVE  ClientInv(c)'
  <2>1. ClientInv(c) /\ sequence \in Nat /\ early \in BOOLEAN
    BY DEF StreamInv, StreamTypeOK
  <2>2. /\ client'[c].seen = client[c].seen /\ client'[c].from = client[c].from
        /\ client'[c].got = client[c].got
        /\ client'[c].pc = client[c].pc \/ {client[c].pc, client'[c].pc} \subseteq Reading
    OBVIOUS
  <2>3. ClientNamesRow(c)'
    BY <2>1, <2>2 DEF ClientInv, ClientNamesRow, Held
  <2>4. client[c].got # <<>> => client[c].got[Len(client[c].got)].seq \in Nat
    <3> DEFINE g == client[c].got
    <3>1. g \in Seq(Event) /\ Len(g) \in Nat /\ \A i \in 1..Len(g) : g[i] \in Event
      BY ClientTyped DEF StreamInv
    <3> HIDE DEF g
    <3>2. ASSUME g # <<>> PROVE g[Len(g)] \in Event
      <4>1. Len(g) # 0
        BY <3>1, <3>2, EmptySeq
      <4> QED
        BY <3>1, <4>1
    <3> QED
      BY <3>2 DEF Event, g
  <2>5. SentOfLog(c)'
    BY <1>1, <2>1, <2>2, <2>4 DEF ClientInv, SentOfLog
  <2>6. CursorOK(c)' /\ GapsAreOld(c)'
    BY <2>1, <2>2 DEF ClientInv, CursorOK, GapsAreOld, Opened, Reading
  <2>7. ToldEnd(c)'
    BY <2>1, <2>2 DEF ClientInv, ToldEnd, Reading
  <2> QED
    BY <2>3, <2>5, <2>6, <2>7 DEF ClientInv
<1> QED
  BY <1>2, <1>5, <1>6 DEF StreamInv

-----------------------------------------------------------------------------
(* The run's own steps *)

LEMMA RunTyped ==
    ASSUME StreamInv
    PROVE  /\ row \in Outcomes \cup {"absent", "running"} /\ early \in BOOLEAN
           /\ approval \in {"none", "asked", "decided", "over"}
           /\ closed \in BOOLEAN /\ sequence \in Nat \ {0} /\ log \in Seq(Event)
           /\ Len(log) <= MaxEvents /\ restarts \in 0..MaxRestarts
           /\ task \in Outcomes \cup {"idle", "prepared", "scheduled", "executing", "escaped", "done", "lost"}
           /\ client \in [Clients -> [pc: Reading \cup {"out", "cut", "ended"},
                                      seen: Outcomes \cup {"absent", "running"},
                                      from: Nat, got: Seq(Event)]]
           /\ RowFollows
  BY DEF StreamInv, StreamTypeOK, RunInv

(* A step that commits to the row and tells nobody: neither a completed    *)
(* run nor an approval that was asked for is undone.                       *)
LEMMA CommitKeeps ==
    ASSUME StreamInv,
           row' \in Outcomes \cup {"running"},
           approval' \in {"none", "asked", "decided", "over"},
           task' \in Outcomes \cup
                {"idle", "prepared", "scheduled", "executing", "escaped", "done", "lost"},
           row = "completed" => row' = "completed",
           approval # "none" => approval' # "none",
           task \in Over => task' \in Over, RowFollows',
           UNCHANGED <<brokerVars, client, restarts, early>>
    PROVE  StreamInv'
<1>1. /\ log' = log /\ sequence' = sequence /\ closed' = closed
      /\ client' = client /\ restarts' = restarts /\ early' = early
  BY DEF brokerVars
<1>2. StreamTypeOK'
  BY <1>1, RunTyped DEF StreamTypeOK
<1>3. Whole(log', sequence') /\ LogNamesRow'
  BY <1>1 DEF StreamInv, RunInv, LogNamesRow, Held
<1>4. ClosedByLast'
  BY <1>1 DEF StreamInv, RunInv, ClosedByLast
<1>5. ASSUME NEW c \in Clients
      PROVE  ClientInv(c)'
  <2>1. ClientInv(c)
    BY DEF StreamInv
  <2>2. ClientNamesRow(c)'
    BY <1>1, <2>1 DEF ClientInv, ClientNamesRow, Held
  <2>3. SentOfLog(c)' /\ CursorOK(c)' /\ GapsAreOld(c)' /\ ToldEnd(c)'
    BY <1>1, <2>1 DEF ClientInv, SentOfLog, CursorOK, GapsAreOld, ToldEnd
  <2> QED
    BY <2>2, <2>3 DEF ClientInv
<1> QED
  BY <1>2, <1>3, <1>4, <1>5 DEF StreamInv, RunInv

LEMMA CreateRunKeeps == ASSUME StreamInv, CreateRun PROVE StreamInv'
<1>1. /\ task = "idle" /\ row = "absent" /\ row' = "running" /\ task' = "prepared"
      /\ approval = "none" /\ approval' = "none"
      /\ UNCHANGED <<brokerVars, client, restarts, early>>
  BY RunTyped DEF CreateRun, RowFollows
<1>2. RowFollows'
  BY <1>1 DEF RowFollows, Held
<1> QED
  BY <1>1, <1>2, CommitKeeps DEF Over

LEMMA StartRunKeeps == ASSUME StreamInv, StartRun PROVE StreamInv'
<1>1. /\ task = "scheduled" /\ row = "running" /\ approval = "none" /\ approval' = "none"
      /\ \/ task' = "executing" /\ row' = "running"
         \/ task' = "failed" /\ row' = "failed"
         \/ task' = "escaped" /\ row' = "running"
      /\ UNCHANGED <<brokerVars, client, restarts, early>>
  BY RunTyped DEF StartRun, RowFollows
<1>2. RowFollows'
  BY <1>1 DEF RowFollows, Held
<1> QED
  BY <1>1, <1>2, CommitKeeps DEF Outcomes, Over

LEMMA FinishRunKeeps == ASSUME StreamInv, FinishRun PROVE StreamInv'
<1>1. /\ task = "executing" /\ row = "running" /\ approval = "none"
      /\ \/ /\ row' \in Outcomes /\ approval' = Asked(row')
            /\ task' \in {row', "failed"}
         \/ row' = "running" /\ approval' = "none" /\ task' = "failed"
      /\ UNCHANGED <<brokerVars, client, restarts, early>>
  BY RunTyped DEF FinishRun, RowFollows, rowVars
<1>2. RowFollows'
  BY <1>1 DEF RowFollows, Held, Outcomes, Asked
<1>3. approval' \in {"none", "asked"} /\ task' \in Outcomes /\ row' \in Outcomes \cup {"running"}
  BY <1>1 DEF Asked, Outcomes
<1> QED
  BY <1>1, <1>2, <1>3, CommitKeeps DEF Over

LEMMA TakeApprovalKeeps == ASSUME StreamInv, TakeApproval PROVE StreamInv'
<1>1. /\ approval = "asked" /\ row = "waiting_approval" /\ task' = task
      /\ \/ row' = "running" /\ approval' = "decided"
         \/ row' = "failed" /\ approval' = "over"
      /\ UNCHANGED <<brokerVars, client, restarts, early>>
  BY RunTyped DEF TakeApproval, RowFollows
<1>2. RowFollows'
  BY <1>1, RunTyped DEF RowFollows, Held
<1> QED
  BY <1>1, <1>2, RunTyped, CommitKeeps DEF Outcomes

LEMMA EndApprovalKeeps == ASSUME StreamInv, EndApproval PROVE StreamInv'
<1>1. /\ approval = "decided" /\ row = "running" /\ task' = task
      /\ row' \in Outcomes
      /\ approval' = IF row' = "waiting_approval" THEN "asked" ELSE "over"
      /\ UNCHANGED <<brokerVars, client, restarts, early>>
  BY RunTyped DEF EndApproval, RowFollows
<1>2. RowFollows'
  BY <1>1, RunTyped DEF RowFollows, Held, Outcomes
<1> QED
  BY <1>1, <1>2, RunTyped, CommitKeeps

LEMMA AcceptKeeps == ASSUME StreamInv, Accept PROVE StreamInv'
<1>1. /\ task = "prepared" /\ task' = "scheduled" /\ row' = row /\ approval' = approval
      /\ Publish("accepted", "running", FALSE)
      /\ client' = client /\ restarts' = restarts /\ early' = early
  BY DEF Accept, rowVars
<1>2. RowFollows'
  BY <1>1, RunTyped DEF RowFollows, Held
<1>3. ~early' => ~closed
  BY <1>1 DEF StreamInv, RunInv, ClosedByLast, Over
<1>4. Held("running")
  BY DEF Held
<1> QED
  BY <1>1, <1>2, <1>3, <1>4, RunTyped, PublishKeeps

LEMMA ProgressKeeps == ASSUME StreamInv, Progress PROVE StreamInv'
<1>1. /\ task \in {"executing", "completed", "waiting_approval"} /\ task' = task /\ row' = row /\ approval' = approval
      /\ Publish("progress", "running", FALSE)
      /\ client' = client /\ restarts' = restarts /\ early' = early
  BY DEF Progress, rowVars
<1>2. RowFollows'
  BY <1>1, RunTyped DEF RowFollows, Held
<1>3. ~early' => ~closed
  BY <1>1 DEF StreamInv, RunInv, ClosedByLast, Over
<1>4. Held("running")
  BY DEF Held
<1> QED
  BY <1>1, <1>2, <1>3, <1>4, RunTyped, PublishKeeps

LEMMA TellEndKeeps == ASSUME StreamInv, TellEnd PROVE StreamInv'
<1>1. /\ task \in Outcomes /\ task' = "done" /\ row' = row /\ approval' = approval
      /\ Publish("terminal", task, TRUE)
      /\ client' = client /\ restarts' = restarts /\ early' = early
  BY DEF TellEnd, rowVars
<1>2. RowFollows'
  BY <1>1, RunTyped DEF RowFollows, Held
<1>3. Held(task)
  BY RunTyped DEF RowFollows
<1> QED
  BY <1>1, <1>2, <1>3, RunTyped, PublishKeeps DEF Over

-----------------------------------------------------------------------------
(* The handlers' steps *)

(* What one handler does is right for the others: only its own entry of    *)
(* client changes, to c.                                                   *)
LEMMA ServeKeeps ==
    ASSUME StreamInv, NEW c \in Clients,
           NEW r \in [pc: Reading \cup {"out", "cut", "ended"},
                      seen: Outcomes \cup {"absent", "running"},
                      from: Nat, got: Seq(Event)],
           client' = [client EXCEPT ![c] = r],
           UNCHANGED <<rowVars, task, brokerVars, restarts, early>>,
           ClientInv(c)'
    PROVE  StreamInv'
<1>1. /\ row' = row /\ approval' = approval /\ task' = task /\ log' = log
      /\ sequence' = sequence /\ closed' = closed /\ restarts' = restarts /\ early' = early
  BY DEF brokerVars, rowVars
<1>2. StreamTypeOK'
  BY <1>1, RunTyped DEF StreamTypeOK
<1>3. RunInv'
  BY <1>1 DEF StreamInv, RunInv, RowFollows, LogNamesRow, ClosedByLast, Held
<1>4. ASSUME NEW d \in Clients
      PROVE  ClientInv(d)'
  <2>1. CASE d = c
    BY <2>1
  <2>2. CASE d # c
    <3>1. client'[d] = client[d] /\ ClientInv(d)
      BY <2>2, RunTyped DEF StreamInv
    <3>2. ClientNamesRow(d)' /\ SentOfLog(d)'
      BY <1>1, <3>1 DEF ClientInv, ClientNamesRow, SentOfLog, Held
    <3>3. CursorOK(d)' /\ GapsAreOld(d)' /\ ToldEnd(d)'
      BY <1>1, <3>1 DEF ClientInv, CursorOK, GapsAreOld, ToldEnd
    <3> QED
      BY <3>2, <3>3 DEF ClientInv
  <2> QED
    BY <2>1, <2>2
<1> QED
  BY <1>2, <1>3, <1>4 DEF StreamInv

(* A handler that only goes on. *)
LEMMA HandlerMoves ==
    ASSUME StreamTypeOK, NEW c \in Clients, NEW to,
           client' = [client EXCEPT ![c].pc = to]
    PROVE  client' = [client EXCEPT ![c] = [pc |-> to, seen |-> client[c].seen,
                                            from |-> client[c].from, got |-> client[c].got]]
<1>1. client[c] \in [pc: Reading \cup {"out", "cut", "ended"},
                     seen: Outcomes \cup {"absent", "running"}, from: Nat, got: Seq(Event)]
  BY DEF StreamTypeOK
<1>2. [client[c] EXCEPT !.pc = to] = [pc |-> to, seen |-> client[c].seen,
                                      from |-> client[c].from, got |-> client[c].got]
  BY <1>1
<1>3. client' = [client EXCEPT ![c] = [client[c] EXCEPT !.pc = to]]
  OBVIOUS
<1> QED
  BY <1>2, <1>3, Zenon

LEMMA AnnounceKeeps == ASSUME StreamInv, NEW c \in Clients, Announce(c) PROVE StreamInv'
<1>1. /\ client[c].pc = "announcing" /\ row' = row /\ approval' = approval
      /\ task' = task /\ restarts' = restarts
      /\ Publish("terminal", client[c].seen, TRUE)
      /\ client' = [client EXCEPT ![c].pc = "streaming"]
  BY DEF Announce, rowVars
<1>2. early' = (early \/ task \notin Over)
  BY DEF Announce, Over
<1>3. /\ early' \in BOOLEAN /\ (~early' => ~early)
      /\ (~early' => task \in Over)
  BY <1>2, RunTyped, Zenon
<1>4. /\ client[c].seen \in Outcomes \cup {"running"}
      /\ Held(client[c].seen)
  <2>1. ClientInv(c) /\ client[c].seen \in Outcomes \cup {"absent", "running"}
    BY ClientTyped DEF StreamInv
  <2> QED
    BY <1>1, <2>1 DEF ClientInv, ClientNamesRow, Reading
<1>5. RowFollows'
  BY <1>1, RunTyped DEF RowFollows, Held
<1>6. client' \in [Clients -> [pc: Reading \cup {"out", "cut", "ended"},
                               seen: Outcomes \cup {"absent", "running"},
                               from: Nat, got: Seq(Event)]]
  <2>1. client' = [client EXCEPT ![c] = [pc |-> "streaming", seen |-> client[c].seen,
                                         from |-> client[c].from, got |-> client[c].got]]
    BY <1>1, HandlerMoves DEF StreamInv
  <2>2. [pc |-> "streaming", seen |-> client[c].seen, from |-> client[c].from,
         got |-> client[c].got] \in [pc: Reading \cup {"out", "cut", "ended"},
                               seen: Outcomes \cup {"absent", "running"},
                               from: Nat, got: Seq(Event)]
    BY ClientTyped DEF StreamInv, Reading
  <2> QED
    BY <2>1, <2>2, RunTyped
<1>7. \A d \in Clients :
         /\ client'[d].seen = client[d].seen /\ client'[d].from = client[d].from
         /\ client'[d].got = client[d].got
         /\ client'[d].pc = client[d].pc \/ {client[d].pc, client'[d].pc} \subseteq Reading
  BY <1>1, RunTyped DEF Reading
<1> QED
  BY <1>1, <1>3, <1>4, <1>5, <1>6, <1>7, RunTyped, PublishKeeps

LEMMA CheckEventsKeeps == ASSUME StreamInv, NEW c \in Clients, CheckEvents(c) PROVE StreamInv'
<1> DEFINE r == [pc |-> IF log = <<>> THEN "announcing" ELSE "streaming",
                 seen |-> client[c].seen, from |-> client[c].from, got |-> client[c].got]
<1>1. /\ client[c].pc = "checking" /\ client' = [client EXCEPT ![c] = r]
      /\ UNCHANGED <<rowVars, task, brokerVars, restarts, early>>
  BY HandlerMoves DEF CheckEvents, StreamInv
<1>2. r \in [pc: Reading \cup {"out", "cut", "ended"}, seen: Outcomes \cup {"absent", "running"},
             from: Nat, got: Seq(Event)]
  BY ClientTyped DEF StreamInv, Reading
<1>3. /\ client'[c].pc \in Reading \ {"checking"} /\ client'[c].seen = client[c].seen
      /\ client'[c].from = client[c].from /\ client'[c].got = client[c].got
  BY <1>1, RunTyped DEF Reading
<1>4. /\ row' = row /\ approval' = approval /\ log' = log
      /\ sequence' = sequence /\ early' = early
      /\ client[c].pc \in Reading /\ ClientInv(c)
  BY <1>1 DEF brokerVars, rowVars, StreamInv, Reading
<1>5. ClientInv(c)'
  <2>1. ClientNamesRow(c)' /\ SentOfLog(c)'
    BY <1>3, <1>4 DEF ClientInv, ClientNamesRow, SentOfLog, Held
  <2>2. CursorOK(c)' /\ GapsAreOld(c)'
    BY <1>3, <1>4 DEF ClientInv, CursorOK, GapsAreOld, Opened, Reading
  <2>3. ToldEnd(c)'
    BY <1>3 DEF ToldEnd, Reading
  <2> QED
    BY <2>1, <2>2, <2>3 DEF ClientInv
<1> QED
  BY <1>1, <1>2, <1>5, ServeKeeps

LEMMA OpenStreamKeeps == ASSUME StreamInv, NEW c \in Clients, OpenStream(c) PROVE StreamInv'
<1>1. PICK kept \in 0..Len(client[c].got) :
        client' = [client EXCEPT ![c] =
             [pc |-> "checking", seen |-> row,
              from |-> IF kept = 0 THEN 0 ELSE client[c].got[kept].seq,
              got |-> SubSeq(client[c].got, 1, kept)]]
  BY DEF OpenStream
<1> DEFINE got == client[c].got
           r == [pc |-> "checking", seen |-> row,
                 from |-> IF kept = 0 THEN 0 ELSE got[kept].seq, got |-> SubSeq(got, 1, kept)]
<1>2. row # "absent" /\ UNCHANGED <<rowVars, task, brokerVars, restarts, early>>
      /\ row' = row /\ approval' = approval
  BY DEF OpenStream, rowVars
<1>3. /\ got \in Seq(Event) /\ Len(got) \in Nat /\ kept \in 0..Len(got)
      /\ \A i \in 1..Len(got) : got[i] \in Event /\ got[i].seq \in Nat \ {0}
  BY <1>1, ClientTyped DEF StreamInv, Event
<1>4. /\ SubSeq(got, 1, kept) \in Seq(Event) /\ Len(SubSeq(got, 1, kept)) = kept
      /\ \A i \in 1..kept : SubSeq(got, 1, kept)[i] = got[i]
  <2>1. /\ SubSeq(got, 1, kept) \in Seq(Event)
        /\ Len(SubSeq(got, 1, kept)) = IF 1 <= kept THEN kept - 1 + 1 ELSE 0
        /\ \A i \in 1..(kept - 1 + 1) : SubSeq(got, 1, kept)[i] = got[1 + i - 1]
    BY <1>3, SubSeqProperties
  <2> QED
    BY <1>3, <2>1
<1>5. r \in [pc: Reading \cup {"out", "cut", "ended"}, seen: Outcomes \cup {"absent", "running"},
             from: Nat, got: Seq(Event)]
  <2>1. (IF kept = 0 THEN 0 ELSE got[kept].seq) \in Nat
    BY <1>3
  <2> HIDE DEF got
  <2> QED
    BY <1>4, <2>1, RunTyped DEF Reading
<1>6. ClientInv(c) /\ got = client[c].got
  BY DEF StreamInv
<1>7. /\ client'[c].pc = "checking" /\ client'[c].seen = row
      /\ client'[c].from = (IF kept = 0 THEN 0 ELSE got[kept].seq)
      /\ client'[c].got = SubSeq(got, 1, kept)
  BY <1>1, RunTyped
<1>8. client' = [client EXCEPT ![c] = r]
  BY <1>1
<1> HIDE DEF got, r
<1>9. row = "waiting_approval" => approval = "asked"
  BY RunTyped DEF RowFollows
<1>10. ClientInv(c)'
  <2>1. ClientNamesRow(c)'
    <3>1. \A i \in 1..Len(got) : Held(got[i].status)
      BY <1>6 DEF ClientInv, ClientNamesRow
    <3> QED
      BY <1>2, <1>3, <1>4, <1>7, <1>9, <3>1 DEF ClientNamesRow, Held
  <2>2. SentOfLog(c)' /\ ToldEnd(c)'
    BY <1>3, <1>4, <1>7 DEF SentOfLog, ToldEnd
  <2>3. CursorOK(c)'
    <3>1. \A i, j \in 1..Len(got) : i < j => got[i].seq < got[j].seq
      BY <1>6 DEF ClientInv, CursorOK, Rises
    <3>2. SubSeq(got, 1, kept) = <<>> => kept = 0
      BY <1>4
    <3>3. \A i, j \in 1..kept : i < j => SubSeq(got, 1, kept)[i].seq < SubSeq(got, 1, kept)[j].seq
      <4>1. kept \in Nat /\ kept <= Len(got)
        BY <1>3
      <4>2. \A i \in 1..kept : i \in 1..Len(got)
        BY <1>3, <4>1
      <4> QED
        BY <1>4, <3>1, <4>2
    <3> QED
      BY <1>4, <1>7, <3>2, <3>3 DEF CursorOK, Rises
  <2>4. GapsAreOld(c)'
    <3>1. CASE kept = 0
      <4>1. client'[c].got = <<>>
        BY <1>4, <1>7, <3>1
      <4> QED
        BY <4>1 DEF GapsAreOld
    <3>2. CASE kept # 0
      <4>1. client'[c].got[Len(client'[c].got)].seq = client'[c].from /\ client'[c].from \in Nat
        BY <1>3, <1>4, <1>7, <3>2
      <4> QED
        BY <4>1 DEF GapsAreOld, Covers
    <3> QED
      BY <3>1, <3>2
  <2> QED
    BY <2>1, <2>2, <2>3, <2>4 DEF ClientInv
<1> QED
  BY <1>2, <1>5, <1>8, <1>10, ServeKeeps

(* Two sequences, one after the other. *)
LEMMA Catenated ==
    ASSUME NEW a \in Seq(Event), NEW b \in Seq(Event), NEW c, c = a \o b
    PROVE  /\ c \in Seq(Event) /\ Len(c) = Len(a) + Len(b)
           /\ \A i \in 1..Len(a) : c[i] = a[i]
           /\ \A i \in 1..Len(b) : c[Len(a) + i] = b[i]
  OBVIOUS

(* The first n events of s are among the first g of a and the first l of b. *)
Drawn(s, n, a, g, b, l) ==
    \A i \in 1..n : (\E j \in 1..g : s[i] = a[j]) \/ (\E j \in 1..l : s[i] = b[j])

(* The last p events of a history of k + p, those with a number above n,   *)
(* after g events with smaller ones.                                       *)
Follows(all, got, g, events, k, p, first, n) ==
    /\ g \in Nat /\ k \in Nat /\ p \in Nat /\ first \in Nat /\ n \in Nat
    /\ \A i \in 1..(k + p) : events[i].seq = first + i
    /\ \A i \in 1..(k + p) : events[i].seq > n <=> i > k
    /\ \A i \in 1..g : all[i] = got[i]
    /\ \A i \in 1..g : got[i].seq \in Nat /\ got[i].seq <= n
    /\ \A i \in 1..p : all[g + i] = events[k + i]
    /\ Rises(got, g)
    /\ first = 0 \/ k + p = MaxEvents

(* They go on where the others end and leave out nothing that is left.     *)
LEMMA Joined ==
    ASSUME NEW g, NEW k, NEW p, NEW first, NEW n, NEW got, NEW events, NEW all,
           Follows(all, got, g, events, k, p, first, n)
    PROVE  /\ Rises(all, g + p) /\ Drawn(all, g + p, got, g, events, k + p)
           /\ p = 0 => \A i \in 1..(k + p) : events[i].seq <= n
           /\ p # 0 => /\ all[g + p] = events[k + p] /\ events[k + p].seq = first + (k + p)
                       /\ n < first + (k + p)
           /\ Covers(all, g + p, n, first + (k + p))
<1>1. /\ g \in Nat /\ k \in Nat /\ p \in Nat /\ first \in Nat /\ n \in Nat
      /\ \A i \in 1..(k + p) : events[i].seq = first + i
      /\ \A i \in 1..(k + p) : events[i].seq > n <=> i > k
      /\ \A i \in 1..g : all[i] = got[i]
      /\ \A i \in 1..g : got[i].seq \in Nat /\ got[i].seq <= n
      /\ \A i \in 1..p : all[g + i] = events[k + i]
      /\ \A i, j \in 1..g : i < j => got[i].seq < got[j].seq
      /\ first = 0 \/ k + p = MaxEvents
  BY DEF Follows, Rises
<1> USE <1>1
<1>2. ASSUME NEW i \in 1..(g + p)
      PROVE  \/ i \in 1..g
             \/ i - g \in 1..p /\ g + (i - g) = i
  OBVIOUS
<1>3. ASSUME NEW i \in 1..p
      PROVE  /\ all[g + i] = events[k + i] /\ k + i \in 1..(k + p)
             /\ all[g + i].seq = first + (k + i) /\ all[g + i].seq > n
  <2>1. k + i \in 1..(k + p) /\ k + i > k
    OBVIOUS
  <2>2. events[k + i].seq = first + (k + i) /\ events[k + i].seq > n
    BY <2>1
  <2> QED
    BY <2>1, <2>2
<1>4. ASSUME NEW i \in 1..(g + p), NEW j \in 1..(g + p), i < j
      PROVE  all[i].seq < all[j].seq
  <2>1. CASE i \in 1..g /\ j \in 1..g
    BY <1>4, <2>1
  <2>2. CASE i \in 1..g /\ j - g \in 1..p
    <3>1. all[i].seq \in Nat /\ all[i].seq <= n
      BY <2>2
    <3>2. all[g + (j - g)].seq = first + (k + (j - g)) /\ all[g + (j - g)].seq > n
      BY <1>3, <2>2
    <3> QED
      BY <3>1, <3>2
  <2>3. CASE i - g \in 1..p /\ j - g \in 1..p
    <3>1. all[g + (i - g)].seq = first + (k + (i - g)) /\ all[g + (j - g)].seq = first + (k + (j - g))
      BY <1>3, <2>3
    <3> QED
      BY <1>4, <3>1
  <2> QED
    BY <1>2, <1>4, <2>1, <2>2, <2>3
<1>5. ASSUME NEW i \in 1..(g + p)
      PROVE  (\E j \in 1..g : all[i] = got[j]) \/ \E j \in 1..(k + p) : all[i] = events[j]
  <2>1. CASE i \in 1..g
    BY <2>1
  <2>2. CASE i - g \in 1..p /\ g + (i - g) = i
    <3>1. all[i] = events[k + (i - g)] /\ k + (i - g) \in 1..(k + p)
      BY <1>3, <2>2
    <3> QED
      BY <3>1
  <2> QED
    BY <1>2, <2>1, <2>2
<1>6. ASSUME p # 0
      PROVE  /\ all[g + p] = events[k + p] /\ events[k + p].seq = first + (k + p)
             /\ n < first + (k + p)
  <2>1. p \in 1..p
    BY <1>6
  <2>2. all[g + p] = events[k + p] /\ all[g + p].seq = first + (k + p) /\ all[g + p].seq > n
    BY <1>3, <2>1
  <2> QED
    BY <2>2
<1>7. ASSUME NEW m \in (n + 1)..(first + (k + p)), m > first
      PROVE  \E i \in 1..(g + p) : all[i].seq = m
  <2>1. m - first \in 1..(k + p)
    BY <1>7
  <2>2. events[m - first].seq = first + (m - first) /\ (events[m - first].seq > n <=> m - first > k)
    BY <2>1
  <2>3. m - first > k
    BY <1>7, <2>2
  <2>4. (m - first) - k \in 1..p
    BY <2>1, <2>3
  <2>5. all[g + ((m - first) - k)].seq = first + (k + ((m - first) - k))
    BY <1>3, <2>4
  <2>6. first + (k + ((m - first) - k)) = m /\ g + ((m - first) - k) \in 1..(g + p)
    BY <1>7, <2>4
  <2> QED
    BY <2>5, <2>6
<1>8. ASSUME NEW m \in (n + 1)..(first + (k + p)), ~(m > first)
      PROVE  m + MaxEvents <= first + (k + p)
  <2>1. first # 0 /\ m <= first
    BY <1>8
  <2>2. k + p = MaxEvents
    BY <2>1
  <2> QED
    BY <2>1, <2>2
<1>9. ASSUME p = 0, NEW i \in 1..(k + p)
      PROVE  events[i].seq <= n
  <2>1. ~(i > k)
    BY <1>9
  <2>2. ~(events[i].seq > n) /\ events[i].seq = first + i
    BY <2>1
  <2> QED
    BY <2>2
<1>10. ASSUME NEW m \in (n + 1)..(first + (k + p))
      PROVE  (\E i \in 1..(g + p) : all[i].seq = m) \/ m + MaxEvents <= first + (k + p)
  BY <1>7, <1>8, Zenon
<1> QED
  BY <1>4, <1>5, <1>6, <1>9, <1>10, Zenon DEF Rises, Drawn, Covers

(* What a handler has sent, and the tail it sends next: the numbers still  *)
(* grow, nothing of the history above the cursor is left out, and what is  *)
(* missing is older than the whole history.                                *)
LEMMA TailIsSent ==
    ASSUME StreamInv, NEW c \in Clients, client[c].pc = "streaming"
    PROVE  LET got == client[c].got
               n == Cursor(c)
               all == got \o After(log, n)
           IN
           /\ all \in Seq(Event) /\ n \in Nat /\ (got = <<>> => n = 0 /\ client[c].from = 0)
           /\ got # <<>> => n = got[Len(got)].seq
           /\ Rises(all, Len(all)) /\ Drawn(all, Len(all), got, Len(got), log, Len(log))
           /\ \A i \in 1..Len(got) : i \in 1..Len(all) /\ all[i] = got[i]
           /\ \/ all = got /\ \A i \in 1..Len(log) : log[i].seq <= n
              \/ /\ all # <<>> /\ log # <<>> /\ all[Len(all)] = log[Len(log)]
                 /\ all[Len(all)].seq = sequence - 1 /\ n < sequence - 1
                 /\ Covers(all, Len(all), n, sequence - 1)
<1> DEFINE got == client[c].got
           n == Cursor(c)
           all == got \o After(log, n)
<1>1. /\ got \in Seq(Event) /\ client[c].from \in Nat
      /\ log \in Seq(Event) /\ sequence \in Nat \ {0} /\ Whole(log, sequence)
  BY ClientTyped, RunTyped DEF StreamInv, RunInv
<1>2. /\ Len(got) \in Nat /\ (\A i \in 1..Len(got) : got[i].seq \in Nat)
      /\ (got # <<>> => Len(got) \in 1..Len(got))
  <2>1. \A i \in 1..Len(got) : got[i] \in Event
    BY <1>1
  <2> HIDE DEF got
  <2>2. \A i \in 1..Len(got) : got[i].seq \in Nat
    BY <2>1 DEF Event
  <2> QED
    BY <1>1, <2>2
<1>3. /\ n = (IF got = <<>> THEN client[c].from ELSE got[Len(got)].seq)
      /\ got = <<>> => client[c].from = 0
  BY DEF Cursor, Last, StreamInv, ClientInv, CursorOK, Opened, Reading
<1> HIDE DEF got, n
<1>4. n \in Nat /\ (got = <<>> => n = 0) /\ (got # <<>> => n = got[Len(got)].seq)
  BY <1>2, <1>3
<1>5. Rises(got, Len(got))
  BY DEF StreamInv, ClientInv, CursorOK, got
<1>6. \A i \in 1..Len(got) : got[i].seq <= n
  <2> TAKE i \in 1..Len(got)
  <2>1. got # <<>> /\ (i = Len(got) \/ i < Len(got))
    BY <1>1, <1>2
  <2>2. CASE i = Len(got)
    BY <1>2, <1>4, <2>1, <2>2
  <2>3. CASE i < Len(got)
    <3>1. got[i].seq < got[Len(got)].seq
      BY <1>2, <1>5, <2>1, <2>3 DEF Rises
    <3> QED
      BY <1>2, <1>4, <2>1, <3>1
  <2> QED
    BY <2>1, <2>2, <2>3
<1>7. PICK k \in 0..Len(log) :
        /\ \A i \in 1..Len(log) : log[i].seq > n <=> i > k
        /\ After(log, n) \in Seq(Event) /\ Len(After(log, n)) = Len(log) - k
        /\ \A i \in 1..(Len(log) - k) : After(log, n)[i] = log[k + i]
  BY <1>1, <1>4, AfterIsTail
<1> DEFINE g == Len(got)
           l == Len(log)
           p == Len(log) - k
           first == sequence - 1 - Len(log)
           tail == After(log, n)
<1>8. l = (IF sequence - 1 <= MaxEvents THEN sequence - 1 ELSE MaxEvents) /\ l \in Nat
  BY <1>1 DEF Whole
<1>9. \A i \in 1..l : log[i].seq = first + i
  BY <1>1 DEF Whole
<1>10. all \in Seq(Event) /\ Len(all) = g + p
  <2>1. all \in Seq(Event) /\ Len(all) = g + Len(tail)
    BY <1>1, <1>7, Catenated
  <2>2. Len(tail) = p
    BY <1>7
  <2> QED
    BY <2>1, <2>2
<1>11. \A i \in 1..g : all[i] = got[i]
  BY <1>1, <1>7, Catenated
<1>12. \A i \in 1..p : all[g + i] = log[k + i]
  <2>1. \A i \in 1..Len(tail) : all[g + i] = tail[i]
    BY <1>1, <1>7, Catenated
  <2> QED
    BY <1>7, <2>1
<1>13. p = 0 => all = got
  <2>1. ASSUME p = 0
        PROVE  tail = <<>>
    <3>1. Len(tail) = 0
      BY <1>7, <2>1
    <3> QED
      BY <1>7, <3>1
  <2> QED
    BY <1>1, <2>1
<1>14. \A i \in 1..l : log[i].seq > n <=> i > k
  BY <1>7
<1>15. /\ g \in Nat /\ k \in Nat /\ p \in Nat /\ l = k + p /\ first \in Nat
       /\ sequence - 1 = first + (k + p) /\ (first = 0 \/ k + p = MaxEvents)
  BY <1>1, <1>2, <1>7, <1>8, StreamAssumption
<1>16. (all = <<>> => g + p = 0) /\ (log = <<>> => k + p = 0)
  BY <1>10, <1>15
<1> HIDE DEF g, l, p, first, tail, all
<1>17. Follows(all, got, g, log, k, p, first, n)
  <2>1. /\ \A i \in 1..(k + p) : log[i].seq = first + i
        /\ \A i \in 1..(k + p) : log[i].seq > n <=> i > k
    BY <1>9, <1>14, <1>15
  <2>2. \A i \in 1..g : got[i].seq \in Nat /\ got[i].seq <= n
    BY <1>2, <1>6 DEF g
  <2>3. Rises(got, g)
    BY <1>5 DEF g
  <2> QED
    BY <1>4, <1>11, <1>12, <1>15, <2>1, <2>2, <2>3, Zenon DEF Follows
<1>18. /\ Rises(all, g + p) /\ Drawn(all, g + p, got, g, log, k + p)
       /\ p = 0 => \A i \in 1..(k + p) : log[i].seq <= n
       /\ p # 0 => /\ all[g + p] = log[k + p] /\ log[k + p].seq = first + (k + p)
                   /\ n < first + (k + p)
       /\ Covers(all, g + p, n, first + (k + p))
  BY <1>17, Joined
<1>19. /\ Rises(all, Len(all)) /\ Drawn(all, Len(all), got, Len(got), log, Len(log))
       /\ Covers(all, Len(all), n, sequence - 1)
  BY <1>10, <1>15, <1>18 DEF g, l
<1>20. \A i \in 1..Len(got) : i \in 1..Len(all) /\ all[i] = got[i]
  BY <1>10, <1>11, <1>15 DEF g
<1>21. CASE p = 0
  <2>1. all = got /\ \A i \in 1..Len(log) : log[i].seq <= n
    BY <1>13, <1>15, <1>18, <1>21 DEF l
  <2> QED
    BY <1>3, <1>4, <1>10, <1>19, <1>20, <2>1 DEF got, n, all
<1>22. CASE p # 0
  <2>1. /\ all[Len(all)] = log[Len(log)] /\ all[Len(all)].seq = sequence - 1 /\ n < sequence - 1
    BY <1>10, <1>15, <1>18, <1>22 DEF l
  <2>2. all # <<>> /\ log # <<>>
    BY <1>15, <1>16, <1>22
  <2> QED
    BY <1>3, <1>4, <1>10, <1>19, <1>20, <2>1, <2>2 DEF got, n, all
<1> QED
  BY <1>21, <1>22

LEMMA DeliverKeeps == ASSUME StreamInv, NEW c \in Clients, Deliver(c) PROVE StreamInv'
<1> DEFINE got == client[c].got
           n == Cursor(c)
           all == got \o After(log, n)
           r == [pc |-> IF closed THEN "ended" ELSE "streaming",
                 seen |-> client[c].seen, from |-> client[c].from, got |-> all]
<1> USE StreamAssumption
<1>1. /\ client[c].pc = "streaming" /\ client' = [client EXCEPT ![c] = r]
      /\ UNCHANGED <<rowVars, task, brokerVars, restarts, early>>
  BY DEF Deliver
<1>2. /\ row' = row /\ approval' = approval /\ log' = log
      /\ sequence' = sequence /\ closed' = closed /\ early' = early
  BY <1>1 DEF brokerVars, rowVars
<1>3. client[c].from \in Nat
  BY ClientTyped DEF StreamInv
<1>4. log \in Seq(Event) /\ sequence \in Nat \ {0} /\ Whole(log, sequence)
  BY RunTyped DEF StreamInv, RunInv
<1>5. ClientInv(c) /\ client[c].pc \in Reading /\ client[c].pc \in Opened
  BY <1>1 DEF StreamInv, Opened, Reading
<1>6. /\ client'[c].pc = (IF closed THEN "ended" ELSE "streaming")
      /\ client'[c].seen = client[c].seen /\ client'[c].from = client[c].from
      /\ client'[c].got = all
  BY <1>1, RunTyped
<1> HIDE DEF n
<1>7. /\ all \in Seq(Event) /\ n \in Nat /\ (got = <<>> => n = 0 /\ client[c].from = 0)
      /\ got # <<>> => n = got[Len(got)].seq
      /\ Rises(all, Len(all)) /\ Drawn(all, Len(all), got, Len(got), log, Len(log))
      /\ \A i \in 1..Len(got) : i \in 1..Len(all) /\ all[i] = got[i]
  BY <1>1, TailIsSent, Zenon DEF n
<1>8. \/ all = got /\ \A i \in 1..Len(log) : log[i].seq <= n
      \/ /\ all # <<>> /\ log # <<>> /\ all[Len(all)] = log[Len(log)]
         /\ all[Len(all)].seq = sequence - 1 /\ n < sequence - 1
         /\ Covers(all, Len(all), n, sequence - 1)
  BY <1>1, TailIsSent, Zenon DEF n
<1>9. /\ n \in Nat /\ (got # <<>> => n = got[Len(got)].seq)
      /\ (got = <<>> => n = 0 /\ client[c].from = 0)
  BY <1>7
<1>10. Rises(all, Len(all))
  BY <1>7
<1>11. r \in [pc: Reading \cup {"out", "cut", "ended"}, seen: Outcomes \cup {"absent", "running"},
              from: Nat, got: Seq(Event)]
  <2>1. (IF closed THEN "ended" ELSE "streaming") \in Reading \cup {"out", "cut", "ended"}
    BY DEF Reading
  <2>2. client[c].seen \in Outcomes \cup {"absent", "running"} /\ client[c].from \in Nat
    BY ClientTyped DEF StreamInv
  <2> HIDE DEF all
  <2> QED
    BY <1>7, <2>1, <2>2
<1> HIDE DEF all, r
<1>12. ClientNamesRow(c)'
  <2>1. /\ \A i \in 1..Len(log) : Held(log[i].status)
        /\ \A i \in 1..Len(got) : Held(got[i].status)
        /\ Held(client[c].seen)
        /\ client[c].seen # "absent"
    BY <1>5 DEF StreamInv, RunInv, LogNamesRow, ClientInv, ClientNamesRow
  <2>2. \A i \in 1..Len(all) : Held(all[i].status)
    <3> HIDE DEF got
    <3> QED
      BY <1>7, <2>1 DEF Drawn
  <2> QED
    BY <1>2, <1>6, <2>1, <2>2 DEF ClientNamesRow, Held
<1>13. SentOfLog(c)'
  <2>1. CASE all = got
    BY <1>2, <1>5, <1>6, <2>1 DEF ClientInv, SentOfLog
  <2>2. CASE all # got
    BY <1>2, <1>4, <1>6, <1>8, <2>2 DEF SentOfLog
  <2> QED
    BY <2>1, <2>2
<1>14. CursorOK(c)'
  <2>1. all = <<>> => got = <<>>
    BY <1>8
  <2> QED
    BY <1>9, <1>10, <1>6, <2>1 DEF CursorOK
<1>15. GapsAreOld(c)'
  <2>1. got # <<>> => /\ client[c].from <= n
                      /\ Covers(got, Len(got), client[c].from, n)
    BY <1>9, <1>5 DEF ClientInv, GapsAreOld
  <2>2. CASE all = got
    BY <1>5, <1>6, <2>2 DEF ClientInv, GapsAreOld
  <2>3. CASE all # got
    <3>1. /\ all[Len(all)].seq = sequence - 1 /\ n < sequence - 1
          /\ Covers(all, Len(all), n, sequence - 1)
      BY <1>8, <2>3
    <3>2. client[c].from <= n
      BY <1>3, <1>9, <2>1
    <3>3. ASSUME NEW m \in (client[c].from + 1)..(sequence - 1)
          PROVE  (\E i \in 1..Len(all) : all[i].seq = m) \/ m + MaxEvents <= sequence - 1
      <4>1. CASE m <= n
        <5>1. got # <<>>
          BY <1>3, <1>9, <3>3, <4>1
        <5>2. m \in (client[c].from + 1)..n
          BY <1>3, <1>9, <1>4, <3>3, <4>1
        <5>3. CASE \E i \in 1..Len(got) : got[i].seq = m
          BY <1>7, <5>3, Zenon
        <5>4. CASE m + MaxEvents <= n
          BY <1>9, <1>4, <3>1, <3>3, <5>2, <5>4
        <5> QED
          BY <2>1, <5>1, <5>2, <5>3, <5>4 DEF Covers
      <4>2. CASE m > n
        <5>1. m \in (n + 1)..(sequence - 1)
          BY <1>3, <1>9, <1>4, <3>3, <4>2
        <5> QED
          BY <3>1, <5>1 DEF Covers
      <4> QED
        BY <1>3, <1>9, <1>4, <3>3, <4>1, <4>2
    <3>4. client[c].from <= sequence - 1
      BY <1>3, <1>9, <1>4, <3>1, <3>2
    <3> QED
      BY <1>6, <3>1, <3>3, <3>4 DEF GapsAreOld, Covers
  <2> QED
    BY <2>2, <2>3
<1>16. ToldEnd(c)'
  <2>1. SUFFICES ASSUME client'[c].pc = "ended", client[c].from = 0, ~early
                 PROVE  all # <<>> /\ all[Len(all)].type = "terminal"
    BY <1>2, <1>6 DEF ToldEnd
  <2>2. closed
    BY <1>6, <2>1
  <2>3. log # <<>> /\ log[Len(log)].type = "terminal"
    BY <2>1, <2>2 DEF StreamInv, RunInv, ClosedByLast
  <2>4. CASE all # <<>> /\ all[Len(all)] = log[Len(log)]
    BY <2>3, <2>4
  <2>5. CASE all = got /\ \A i \in 1..Len(log) : log[i].seq <= n
    <3>1. Len(log) \in 1..Len(log) /\ sequence - 1 >= 1
      <4>1. Len(log) \in Nat /\ Len(log) # 0
        BY <1>4, <2>3
      <4> QED
        BY <1>4, <4>1 DEF Whole
    <3>2. log[Len(log)].seq = sequence - 1 /\ log[Len(log)].seq <= n
      <4>1. Len(log) \in Nat /\ sequence \in Nat
        BY <1>4, RunTyped
      <4>2. log[Len(log)].seq = sequence - 1 - Len(log) + Len(log)
        BY <1>4, <3>1 DEF Whole
      <4>3. log[Len(log)].seq = sequence - 1
        BY <4>1, <4>2
      <4> QED
        BY <2>5, <3>1, <4>3
    <3>3. n >= sequence - 1
      BY <1>9, <1>4, <3>2
    <3>4. got # <<>>
      BY <1>9, <1>4, <3>1, <3>3
    <3>5. /\ got[Len(got)].seq <= sequence - 1
          /\ got[Len(got)].seq = sequence - 1 => log # <<>> /\ log[Len(log)] = got[Len(got)]
      BY <1>5, <2>1, <3>4 DEF ClientInv, SentOfLog
    <3>6. log[Len(log)] = got[Len(got)]
      BY <1>9, <1>4, <3>3, <3>4, <3>5
    <3> QED
      BY <2>3, <2>5, <3>4, <3>6
  <2> QED
    BY <1>8, <2>4, <2>5
<1>17. ClientInv(c)'
  BY <1>12, <1>13, <1>14, <1>15, <1>16 DEF ClientInv
<1> QED
  BY <1>1, <1>11, <1>17, ServeKeeps

LEMMA RestartKeeps == ASSUME StreamInv, Restart PROVE StreamInv'
<1> USE StreamAssumption
<1>1. /\ restarts < MaxRestarts /\ restarts' = restarts + 1
      /\ log' = <<>> /\ sequence' = 1 /\ closed' = FALSE
      /\ task' = (IF task \in {"idle", "done"} THEN task ELSE "lost")
      /\ client' = [c \in Clients |->
                      IF client[c].pc \in Reading THEN [client[c] EXCEPT !.pc = "cut"]
                      ELSE client[c]]
      /\ IF approval = "decided" THEN row' = "failed" /\ approval' = "over"
                                 ELSE row' = row /\ approval' = approval
      /\ early' = early
  BY DEF Restart, rowVars
<1>2. ASSUME NEW c \in Clients
      PROVE  /\ client'[c] \in [pc: Reading \cup {"out", "cut", "ended"},
                                seen: Outcomes \cup {"absent", "running"},
                                from: Nat, got: Seq(Event)]
             /\ client'[c].seen = client[c].seen /\ client'[c].from = client[c].from
             /\ client'[c].got = client[c].got
             /\ client'[c].pc \notin Reading
             /\ client'[c].pc = "cut" \/ client'[c].pc = client[c].pc
  <2>1. /\ client[c] \in [pc: Reading \cup {"out", "cut", "ended"},
                          seen: Outcomes \cup {"absent", "running"},
                          from: Nat, got: Seq(Event)]
        /\ client'[c] = IF client[c].pc \in Reading THEN [client[c] EXCEPT !.pc = "cut"]
                        ELSE client[c]
    BY <1>1, RunTyped
  <2> QED
    BY <2>1 DEF Reading
<1>3. StreamTypeOK'
  <2>1. client' \in [Clients -> [pc: Reading \cup {"out", "cut", "ended"},
                                 seen: Outcomes \cup {"absent", "running"},
                                 from: Nat, got: Seq(Event)]]
    BY <1>1, <1>2
  <2>2. /\ log' \in Seq(Event) /\ Len(log') <= MaxEvents /\ sequence' \in Nat \ {0}
        /\ restarts' \in 0..MaxRestarts
    BY <1>1, RunTyped
  <2>3. closed' \in BOOLEAN /\ early' \in BOOLEAN
    BY <1>1, RunTyped, Zenon
  <2> QED
    BY <1>1, <2>1, <2>2, <2>3, RunTyped DEF StreamTypeOK, Outcomes
<1>6. /\ row = "completed" => row' = "completed"
      /\ approval # "none" => approval' # "none"
  BY <1>1, RunTyped DEF RowFollows
<1>4. RunInv'
  <2>1. RowFollows'
    BY <1>1, RunTyped DEF RowFollows, Held
  <2> QED
    BY <1>1, <2>1 DEF RunInv, Whole, LogNamesRow, ClosedByLast
<1>5. ASSUME NEW c \in Clients
      PROVE  ClientInv(c)'
  <2>1. ClientInv(c)
    BY DEF StreamInv
  <2>2. /\ client'[c].seen = client[c].seen /\ client'[c].from = client[c].from
        /\ client'[c].got = client[c].got /\ client'[c].pc \notin Reading
        /\ client'[c].pc = "cut" \/ client'[c].pc = client[c].pc
    BY <1>2
  <2>3. ClientNamesRow(c)' /\ SentOfLog(c)'
    BY <1>1, <1>6, <2>1, <2>2 DEF ClientInv, ClientNamesRow, SentOfLog, Held
  <2>4. CursorOK(c)' /\ GapsAreOld(c)' /\ ToldEnd(c)'
    BY <1>1, <2>1, <2>2 DEF ClientInv, CursorOK, GapsAreOld, ToldEnd, Opened, Reading
  <2> QED
    BY <2>3, <2>4 DEF ClientInv
<1> QED
  BY <1>3, <1>4, <1>5 DEF StreamInv

LEMMA StreamStepKeeps == ASSUME StreamInv, [StreamNext]_streamVars PROVE StreamInv'
<1>1. CASE CreateRun
  BY <1>1, CreateRunKeeps
<1>2. CASE Accept
  BY <1>2, AcceptKeeps
<1>3. CASE StartRun
  BY <1>3, StartRunKeeps
<1>4. CASE Progress
  BY <1>4, ProgressKeeps
<1>5. CASE FinishRun
  BY <1>5, FinishRunKeeps
<1>6. CASE TellEnd
  BY <1>6, TellEndKeeps
<1>7. CASE Restart
  BY <1>7, RestartKeeps
<1>10. CASE TakeApproval \/ EndApproval
  BY <1>10, TakeApprovalKeeps, EndApprovalKeeps
<1>8. ASSUME NEW c \in Clients, OpenStream(c) \/ CheckEvents(c) \/ Announce(c) \/ Deliver(c)
      PROVE  StreamInv'
  BY <1>8, OpenStreamKeeps, CheckEventsKeeps, AnnounceKeeps, DeliverKeeps
<1>9. CASE UNCHANGED streamVars
  <2>1. /\ row' = row /\ approval' = approval /\ task' = task
        /\ log' = log /\ sequence' = sequence /\ closed' = closed
        /\ client' = client /\ restarts' = restarts /\ early' = early
    BY <1>9 DEF streamVars
  <2>2. StreamTypeOK'
    BY <2>1, RunTyped DEF StreamTypeOK
  <2>3. RunInv'
    BY <2>1 DEF StreamInv, RunInv, RowFollows, LogNamesRow, ClosedByLast, Held
  <2>4. ASSUME NEW c \in Clients
        PROVE  ClientInv(c)'
    <3>1. ClientInv(c)
      BY DEF StreamInv
    <3>2. ClientNamesRow(c)' /\ SentOfLog(c)'
      BY <2>1, <3>1 DEF ClientInv, ClientNamesRow, SentOfLog, Held
    <3>3. CursorOK(c)' /\ GapsAreOld(c)' /\ ToldEnd(c)'
      BY <2>1, <3>1 DEF ClientInv, CursorOK, GapsAreOld, ToldEnd
    <3> QED
      BY <3>2, <3>3 DEF ClientInv
  <2> QED
    BY <2>2, <2>3, <2>4 DEF StreamInv
<1> QED
  BY <1>1, <1>2, <1>3, <1>4, <1>5, <1>6, <1>7, <1>8, <1>9, <1>10
  DEF StreamNext, Execute, Serve

-----------------------------------------------------------------------------
(* What a reader of a stream relies on. *)

LEMMA StreamsTellSafely == ASSUME StreamInv PROVE StreamsTellTheRun
<1>1. StreamTypeOK
  BY DEF StreamInv
<1>2. StreamTellsOutcome
  <2> SUFFICES ASSUME NEW c \in Clients, client[c].pc = "ended", client[c].from = 0, ~early
               PROVE  /\ client[c].got # <<>> /\ Last(client[c].got).type = "terminal"
                      /\ Held(Last(client[c].got).status)
                      /\ approval = "asked" <=> row = "waiting_approval"
    BY DEF StreamTellsOutcome, Held
  <2>1. client[c].got # <<>> /\ client[c].got[Len(client[c].got)].type = "terminal"
    BY DEF StreamInv, ClientInv, ToldEnd
  <2>2. Len(client[c].got) \in 1..Len(client[c].got)
    BY <1>1, <2>1, ClientTyped
  <2>3. Held(client[c].got[Len(client[c].got)].status)
    BY <2>2 DEF StreamInv, ClientInv, ClientNamesRow
  <2> QED
    BY <2>1, <2>3 DEF Last, StreamInv, RunInv, RowFollows
<1>3. OnlyOldEventsMissed
  <2> SUFFICES ASSUME NEW c \in Clients, client[c].pc \in {"streaming", "ended"},
                      client[c].got # <<>>,
                      NEW n \in (client[c].from + 1)..Last(client[c].got).seq
               PROVE  \/ \E e \in ToSet(client[c].got) : e.seq = n
                      \/ n + MaxEvents <= Last(client[c].got).seq
    BY DEF OnlyOldEventsMissed
  <2>1. Last(client[c].got).seq = client[c].got[Len(client[c].got)].seq
    BY DEF Last
  <2>2. (\E i \in 1..Len(client[c].got) : client[c].got[i].seq = n)
           \/ n + MaxEvents <= Last(client[c].got).seq
    BY <2>1 DEF StreamInv, ClientInv, GapsAreOld, Covers, Opened, Reading
  <2>3. \A i \in 1..Len(client[c].got) : client[c].got[i] \in ToSet(client[c].got)
    BY DEF ToSet
  <2> QED
    BY <2>2, <2>3
<1> QED
  BY <1>1, <1>2, <1>3 DEF StreamsTellTheRun

(* However slow the clients are, however often they come back and the API  *)
(* restarts, a stream of run_event_service.py that was read from the start *)
(* to its end says completed only of a run whose row in agent_runs is, and *)
(* waiting_approval only of one whose approval was asked for, whoever acts *)
(* upon it meanwhile; it skips only what the bounded history had given up. *)
THEOREM StreamsTell == StreamSpec => []StreamsTellTheRun
<1>1. StreamInit => StreamInv
  BY StreamBegins
<1>2. StreamInv /\ [StreamNext]_streamVars => StreamInv'
  BY StreamStepKeeps
<1>3. StreamInv => StreamsTellTheRun
  BY StreamsTellSafely
<1> QED
  BY <1>1, <1>2, <1>3, PTL DEF StreamSpec

-----------------------------------------------------------------------------
(* The progress stream of a durable task *)

LineSet == [kind: Settled \cup {"attempt", "progress", "ACCESS_REVOKED"},
            attempt: 0..MaxAttempts, id: Nat]

WatcherSet == [pc: {"out", "watching", "cut", "ended"}, from: Nat, cursor: Nat,
               shown: 0..MaxAttempts, sent: Seq(LineSet)]

(* Of the first n lines, the one at j announced the attempt last. *)
Heads(lines, j, n, attempt) ==
    /\ lines[j].kind = "attempt" /\ lines[j].attempt = attempt
    /\ \A k \in (j + 1)..n : lines[k].kind # "attempt"

(* Each event is that of the attempt announced last before it, and the     *)
(* attempt announced last of all is the one that is shown.                 *)
Headed(lines, n, shown) ==
    /\ \A i \in 1..n : lines[i].kind = "progress" =>
         \E j \in 1..(i - 1) : Heads(lines, j, i, lines[i].attempt)
    /\ shown # 0 => \E j \in 1..n : Heads(lines, j, n, shown)

Tells(lines, n, id) == \E k \in 1..n : lines[k].kind = "progress" /\ lines[k].id = id

SaysDecided(lines, n) == \E k \in 1..n : lines[k].kind \in Decided

LedgerType ==
    /\ ledger \in [status: Settled \cup {"queued", "running"}, attempts: 0..MaxAttempts,
                   leased: BOOLEAN, started: BOOLEAN, published: 0..MaxAttempts,
                   child: Settled \cup {"none", "resuming"}]
    /\ trace \in Seq(1..MaxAttempts) /\ Len(trace) <= MaxTrace
    /\ writers \subseteq 1..MaxAttempts /\ access \in BOOLEAN

(* The published attempt is the last one, and nobody writes to its trace   *)
(* any more once what became of the job is decided.                        *)
LedgerInv ==
    /\ ledger.published \in {0, ledger.attempts}
    /\ ledger.status \in {"queued", "running"} => ledger.child = "none"
    /\ ledger.child = "none" <=> ledger.published = 0
    /\ ledger.status = "running" => ledger.attempts # 0
    /\ ledger.status \in Decided => ledger.child \in Decided \cup {"none"}
    /\ ledger.child \in Decided => ledger.published \notin writers
    /\ \A a \in writers : a <= ledger.attempts
    /\ \A i \in 1..Len(trace) : trace[i] <= ledger.attempts

(* Behind its cursor a watcher has been told all of the last attempt. *)
ToldBehind(w) ==
    LET sent == watcher[w].sent IN
    /\ watcher[w].from <= watcher[w].cursor /\ watcher[w].cursor <= Len(trace)
    /\ \A i \in (watcher[w].from + 1)..watcher[w].cursor :
         trace[i] = ledger.attempts => Tells(sent, Len(sent), i)

ToldDecided(w) ==
    LET sent == watcher[w].sent IN
    SaysDecided(sent, Len(sent)) =>
        /\ ledger.status \in Decided
        /\ \A i \in 1..Len(trace) :
             trace[i] = ledger.published /\ i > watcher[w].from => Tells(sent, Len(sent), i)

WatcherInv(w) ==
    /\ Headed(watcher[w].sent, Len(watcher[w].sent), watcher[w].shown)
    /\ ToldBehind(w) /\ ToldDecided(w)

WatchInv ==
    /\ LedgerType /\ LedgerInv
    /\ watcher \in [Watchers -> WatcherSet]
    /\ \A w \in Watchers : WatcherInv(w)

-----------------------------------------------------------------------------
(* What more lines do to those before them *)

Extends(new, lines, n) == \A i \in 1..n : new[i] = lines[i]

LEMMA MoreIsTold ==
    ASSUME NEW lines, NEW new, NEW n \in Nat, NEW p \in Nat, Extends(new, lines, n), NEW id,
           Tells(lines, n, id)
    PROVE  Tells(new, n + p, id)
<1>1. PICK k \in 1..n : lines[k].kind = "progress" /\ lines[k].id = id
  BY DEF Tells
<1>2. k \in 1..(n + p) /\ new[k] = lines[k]
  BY DEF Extends
<1> QED
  BY <1>1, <1>2 DEF Tells

LEMMA HeadsStays ==
    ASSUME NEW lines, NEW new, NEW n \in Nat, Extends(new, lines, n), NEW i \in 1..n,
           NEW j \in 1..i, NEW attempt, Heads(lines, j, i, attempt)
    PROVE  Heads(new, j, i, attempt)
<1>1. \A k \in (j + 1)..i : k \in 1..n
  OBVIOUS
<1> QED
  BY <1>1 DEF Heads, Extends

(* ... a new announcement, *)
LEMMA AnnouncedHeads ==
    ASSUME NEW lines, NEW new, NEW n \in Nat, Extends(new, lines, n), NEW shown,
           Headed(lines, n, shown), new[n + 1].kind = "attempt"
    PROVE  Headed(new, n + 1, new[n + 1].attempt)
<1>1. ASSUME NEW i \in 1..(n + 1), new[i].kind = "progress"
      PROVE  \E j \in 1..(i - 1) : Heads(new, j, i, new[i].attempt)
  <2>1. i \in 1..n
    <3>1. i # n + 1
      BY <1>1
    <3> QED
      BY <3>1
  <2>2. new[i] = lines[i]
    BY <2>1 DEF Extends
  <2>3. PICK j \in 1..(i - 1) : Heads(lines, j, i, lines[i].attempt)
    BY <1>1, <2>1, <2>2 DEF Headed
  <2>4. Heads(new, j, i, lines[i].attempt)
    BY <2>1, <2>3, HeadsStays
  <2> QED
    BY <2>2, <2>4
<1>2. n + 1 \in 1..(n + 1) /\ Heads(new, n + 1, n + 1, new[n + 1].attempt)
  BY DEF Heads
<1> QED
  BY <1>1, <1>2 DEF Headed

(* ... and lines under the attempt that is shown. *)
LEMMA EventsAreHeaded ==
    ASSUME NEW lines, NEW new, NEW n \in Nat, NEW p \in Nat, Extends(new, lines, n), NEW shown,
           Headed(lines, n, shown),
           \A i \in (n + 1)..(n + p) :
               /\ new[i].kind # "attempt"
               /\ new[i].kind = "progress" => new[i].attempt = shown /\ shown # 0
    PROVE  Headed(new, n + p, shown)
<1>1. ASSUME shown # 0, NEW i \in n..(n + p), i >= 1
      PROVE  \E j \in 1..n : Heads(new, j, i, shown)
  <2>1. PICK j \in 1..n : Heads(lines, j, n, shown)
    BY <1>1 DEF Headed
  <2>2. n \in 1..n
    BY <2>1
  <2>3. Heads(new, j, n, shown)
    BY <2>1, <2>2, HeadsStays
  <2>4. \A k \in (j + 1)..i : k \in (j + 1)..n \/ k \in (n + 1)..(n + p)
    BY <1>1
  <2>5. Heads(new, j, i, shown)
    BY <2>3, <2>4 DEF Heads
  <2> QED
    BY <2>5
<1>2. ASSUME NEW i \in 1..(n + p), new[i].kind = "progress"
      PROVE  \E j \in 1..(i - 1) : Heads(new, j, i, new[i].attempt)
  <2>1. CASE i <= n
    <3>1. new[i] = lines[i] /\ i \in 1..n
      BY <2>1 DEF Extends
    <3>2. PICK j \in 1..(i - 1) : Heads(lines, j, i, lines[i].attempt)
      BY <1>2, <3>1 DEF Headed
    <3>3. Heads(new, j, i, lines[i].attempt)
      BY <3>1, <3>2, HeadsStays
    <3> QED
      BY <3>1, <3>3
  <2>2. CASE i > n
    <3>1. i \in (n + 1)..(n + p) /\ i \in n..(n + p) /\ i >= 1
      BY <2>2
    <3>2. new[i].attempt = shown /\ shown # 0
      BY <1>2, <3>1
    <3>3. PICK j \in 1..n : Heads(new, j, i, shown)
      BY <1>1, <3>1, <3>2
    <3>4. j \in 1..(i - 1)
      BY <2>2
    <3> QED
      BY <3>2, <3>3, <3>4
  <2> QED
    BY <2>1, <2>2
<1>3. ASSUME shown # 0
      PROVE  \E j \in 1..(n + p) : Heads(new, j, n + p, shown)
  <2>1. n + p \in n..(n + p) /\ n >= 1
    BY <1>3 DEF Headed
  <2>2. PICK j \in 1..n : Heads(new, j, n + p, shown)
    BY <1>1, <1>3, <2>1
  <2> QED
    BY <2>2
<1> QED
  BY <1>2, <1>3 DEF Headed

(* One line more. *)
LEMMA Appended ==
    ASSUME NEW s \in Seq(LineSet), NEW l \in LineSet
    PROVE  /\ Append(s, l) \in Seq(LineSet) /\ Len(s) \in Nat /\ Len(Append(s, l)) = Len(s) + 1
           /\ Extends(Append(s, l), s, Len(s)) /\ Append(s, l)[Len(s) + 1] = l
  BY DEF Extends

LEMMA Followed ==
    ASSUME NEW a \in Seq(LineSet), NEW b \in Seq(LineSet)
    PROVE  /\ a \o b \in Seq(LineSet) /\ Len(a) \in Nat /\ Len(b) \in Nat
           /\ Len(a \o b) = Len(a) + Len(b) /\ Extends(a \o b, a, Len(a))
           /\ \A i \in 1..Len(b) : (a \o b)[Len(a) + i] = b[i]
  BY DEF Extends

LEMMA DecidedBefore ==
    ASSUME NEW lines, NEW new, NEW n \in Nat, NEW p \in Nat, Extends(new, lines, n),
           \A i \in (n + 1)..(n + p) : new[i].kind \notin Decided,
           SaysDecided(new, n + p)
    PROVE  SaysDecided(lines, n)
<1>1. PICK k \in 1..(n + p) : new[k].kind \in Decided
  BY DEF SaysDecided
<1>2. k \in 1..n
  BY <1>1
<1> QED
  BY <1>1, <1>2 DEF SaysDecided, Extends

-----------------------------------------------------------------------------
(* The ledger *)

LEMMA LedgerTyped ==
    ASSUME LedgerType
    PROVE  /\ ledger.status \in Settled \cup {"queued", "running"}
           /\ ledger.attempts \in 0..MaxAttempts /\ ledger.published \in 0..MaxAttempts
           /\ ledger.leased \in BOOLEAN /\ ledger.started \in BOOLEAN
           /\ ledger.child \in Settled \cup {"none", "resuming"}
           /\ trace \in Seq(1..MaxAttempts) /\ Len(trace) \in Nat /\ Len(trace) <= MaxTrace
           /\ (\A i \in 1..Len(trace) : trace[i] \in 1..MaxAttempts)
           /\ writers \subseteq 1..MaxAttempts /\ access \in BOOLEAN
<1>1. /\ ledger.status \in Settled \cup {"queued", "running"}
      /\ ledger.attempts \in 0..MaxAttempts /\ ledger.published \in 0..MaxAttempts
      /\ ledger.leased \in BOOLEAN /\ ledger.started \in BOOLEAN
      /\ ledger.child \in Settled \cup {"none", "resuming"}
  BY DEF LedgerType
<1>2. trace \in Seq(1..MaxAttempts) /\ Len(trace) <= MaxTrace
  BY DEF LedgerType
<1>3. Len(trace) \in Nat /\ \A i \in 1..Len(trace) : trace[i] \in 1..MaxAttempts
  <2> DEFINE Numbers == 1..MaxAttempts
  <2>1. trace \in Seq(Numbers)
    BY <1>2
  <2> HIDE DEF Numbers
  <2>2. Len(trace) \in Nat /\ \A i \in 1..Len(trace) : trace[i] \in Numbers
    BY <2>1
  <2> QED
    BY <2>2 DEF Numbers
<1> QED
  BY <1>1, <1>2, <1>3 DEF LedgerType

LEMMA WatcherTyped ==
    ASSUME WatchInv, NEW w \in Watchers
    PROVE  /\ watcher[w] \in WatcherSet
           /\ watcher[w].pc \in {"out", "watching", "cut", "ended"}
           /\ watcher[w].from \in Nat /\ watcher[w].cursor \in Nat
           /\ watcher[w].shown \in 0..MaxAttempts /\ watcher[w].sent \in Seq(LineSet)
           /\ Len(watcher[w].sent) \in Nat /\ WatcherInv(w)
<1>1. watcher[w] \in WatcherSet /\ WatcherInv(w)
  BY DEF WatchInv
<1> QED
  BY <1>1 DEF WatcherSet

LEMMA WatchBegins == WatchInit => WatchInv
<1> SUFFICES ASSUME WatchInit
             PROVE  WatchInv
  OBVIOUS
<1> USE WatchAssumption
<1>1. /\ ledger = [status |-> "queued", attempts |-> 0, leased |-> FALSE, started |-> FALSE,
                   published |-> 0, child |-> "none"]
      /\ trace = <<>> /\ writers = {}
      /\ watcher = [w \in Watchers |->
                     [pc |-> "out", from |-> 0, cursor |-> 0, shown |-> 0, sent |-> <<>>]]
  BY DEF WatchInit
<1>2. LedgerType
  <2>1. access \in BOOLEAN
    BY Zenon DEF WatchInit
  <2>2. trace \in Seq(1..MaxAttempts) /\ Len(trace) <= MaxTrace
    BY <1>1
  <2>3. ledger \in [status: Settled \cup {"queued", "running"}, attempts: 0..MaxAttempts,
                    leased: BOOLEAN, started: BOOLEAN, published: 0..MaxAttempts,
                    child: Settled \cup {"none", "resuming"}]
    BY <1>1
  <2> QED
    BY <1>1, <2>1, <2>2, <2>3 DEF LedgerType
<1>3. LedgerInv
  BY <1>1 DEF LedgerInv, Decided
<1>4. watcher \in [Watchers -> WatcherSet]
  <2>1. [pc |-> "out", from |-> 0, cursor |-> 0, shown |-> 0, sent |-> <<>>] \in WatcherSet
    BY EmptySeq DEF WatcherSet
  <2> QED
    BY <1>1, <2>1
<1>5. ASSUME NEW w \in Watchers
      PROVE  WatcherInv(w)
  <2>1. watcher[w] = [pc |-> "out", from |-> 0, cursor |-> 0, shown |-> 0, sent |-> <<>>]
    BY <1>1
  <2>2. Len(watcher[w].sent) = 0
    BY <2>1
  <2>3. ToldBehind(w)
    BY <1>1, <2>1 DEF ToldBehind
  <2>4. ToldDecided(w)
    BY <2>2 DEF ToldDecided, SaysDecided
  <2>5. Headed(watcher[w].sent, Len(watcher[w].sent), watcher[w].shown)
    BY <2>1, <2>2 DEF Headed
  <2> QED
    BY <2>3, <2>4, <2>5 DEF WatcherInv
<1> QED
  BY <1>2, <1>3, <1>4, <1>5 DEF WatchInv

(* A step of the ledger leaves a watcher who takes no part right: a new    *)
(* attempt has told nothing yet, and a decided job is what it was.         *)
LEMMA WatcherStays ==
    ASSUME WatchInv, NEW w \in Watchers, watcher'[w] = watcher[w], trace' = trace,
           ledger'.attempts \in {ledger.attempts, ledger.attempts + 1},
           ledger.status \in Decided => ledger' = ledger
    PROVE  WatcherInv(w)'
<1>1. WatcherInv(w) /\ watcher[w].from \in Nat /\ watcher[w].cursor \in Nat
  BY WatcherTyped
<1>2. ledger.attempts \in Nat /\ Len(trace) \in Nat
  BY LedgerTyped DEF WatchInv
<1>3. Headed(watcher[w].sent, Len(watcher[w].sent), watcher[w].shown)'
  BY <1>1 DEF WatcherInv
<1>4. ToldBehind(w)'
  <2>1. /\ watcher[w].from <= watcher[w].cursor /\ watcher[w].cursor <= Len(trace)
        /\ \A i \in (watcher[w].from + 1)..watcher[w].cursor :
             trace[i] = ledger.attempts => Tells(watcher[w].sent, Len(watcher[w].sent), i)
    BY <1>1 DEF WatcherInv, ToldBehind
  <2>2. CASE ledger'.attempts = ledger.attempts
    BY <2>1, <2>2 DEF ToldBehind
  <2>3. CASE ledger'.attempts = ledger.attempts + 1
    <3>1. \A i \in 1..Len(trace) : trace[i] <= ledger.attempts /\ trace[i] \in Nat
      BY LedgerTyped DEF WatchInv, LedgerInv
    <3>2. ASSUME NEW i \in (watcher[w].from + 1)..watcher[w].cursor
          PROVE  trace[i] # ledger'.attempts
      <4>1. i \in 1..Len(trace)
        BY <1>1, <1>2, <2>1
      <4> QED
        BY <1>2, <2>3, <3>1, <4>1
    <3> QED
      BY <2>1, <3>2 DEF ToldBehind
  <2> QED
    BY <2>2, <2>3
<1>5. ToldDecided(w)'
  BY <1>1 DEF WatcherInv, ToldDecided
<1> QED
  BY <1>3, <1>4, <1>5 DEF WatcherInv

LEMMA LedgerStepKeeps ==
    ASSUME WatchInv, watcher' = watcher, trace' = trace,
           ledger'.attempts \in {ledger.attempts, ledger.attempts + 1},
           ledger.status \in Decided => ledger' = ledger,
           LedgerType', LedgerInv'
    PROVE  WatchInv'
<1>1. \A w \in Watchers : WatcherInv(w)'
  BY WatcherStays
<1> QED
  BY <1>1 DEF WatchInv

LEMMA ClaimJobKeeps == ASSUME WatchInv, ClaimJob PROVE WatchInv'
<1> USE WatchAssumption
<1>1. LedgerType /\ LedgerInv
  BY DEF WatchInv
<1>2. /\ ledger.status \in {"queued", "running"} /\ ledger.attempts < MaxAttempts
      /\ ledger' = [ledger EXCEPT !.status = "running", !.attempts = ledger.attempts + 1,
                                  !.leased = TRUE, !.started = FALSE]
      /\ trace' = trace /\ writers' = writers /\ access' = access /\ watcher' = watcher
  BY DEF ClaimJob
<1>3. LedgerType'
  <2>1. ledger.attempts + 1 \in 0..MaxAttempts
    BY <1>1, <1>2, LedgerTyped
  <2> QED
    BY <1>1, <1>2, <2>1 DEF LedgerType
<1>4. /\ ledger'.attempts = ledger.attempts + 1 /\ ledger'.published = ledger.published
      /\ ledger'.status = "running" /\ ledger'.child = ledger.child
  BY <1>1, <1>2 DEF LedgerType
<1>5. ledger.published = 0 /\ ledger.child = "none"
  BY <1>1, <1>2 DEF LedgerInv
<1>6. \A a \in writers : a <= ledger.attempts + 1
  BY <1>1, LedgerTyped DEF LedgerInv
<1>7. \A i \in 1..Len(trace) : trace[i] <= ledger.attempts + 1
  <2>1. ledger.attempts \in Nat /\ \A i \in 1..Len(trace) : trace[i] \in Nat
    BY <1>1, LedgerTyped
  <2>2. \A i \in 1..Len(trace) : trace[i] <= ledger.attempts
    BY <1>1 DEF LedgerInv
  <2> QED
    BY <2>1, <2>2
<1>8. LedgerInv'
  <2>1. ledger.attempts + 1 # 0
    BY <1>1, LedgerTyped
  <2> QED
    BY <1>2, <1>4, <1>5, <1>6, <1>7, <2>1 DEF LedgerInv, Decided
<1> QED
  BY <1>2, <1>3, <1>4, <1>8, LedgerStepKeeps DEF Decided

LEMMA FailExpiredKeeps == ASSUME WatchInv, FailExpired PROVE WatchInv'
<1>1. LedgerType /\ LedgerInv
  BY DEF WatchInv
<1>2. /\ ledger.status = "running" /\ ledger' = [ledger EXCEPT !.status = "failed"]
      /\ trace' = trace /\ writers' = writers /\ access' = access /\ watcher' = watcher
  BY DEF FailExpired
<1>3. LedgerType'
  BY <1>1, <1>2 DEF LedgerType, Settled
<1>4. /\ ledger'.attempts = ledger.attempts /\ ledger'.published = ledger.published
      /\ ledger'.status = "failed" /\ ledger'.child = ledger.child
  BY <1>1, <1>2 DEF LedgerType
<1>5. LedgerInv'
  BY <1>1, <1>2, <1>4 DEF LedgerInv, Decided
<1> QED
  BY <1>2, <1>3, <1>4, <1>5, LedgerStepKeeps DEF Decided

LEMMA LoseLeaseKeeps == ASSUME WatchInv, LoseLease PROVE WatchInv'
<1>1. LedgerType /\ LedgerInv
  BY DEF WatchInv
<1>2. /\ ledger.status = "running" /\ ledger' = [ledger EXCEPT !.leased = FALSE]
      /\ trace' = trace /\ writers' = writers /\ access' = access /\ watcher' = watcher
  BY DEF LoseLease
<1>3. LedgerType'
  BY <1>1, <1>2 DEF LedgerType
<1>4. /\ ledger'.attempts = ledger.attempts /\ ledger'.published = ledger.published
      /\ ledger'.status = ledger.status /\ ledger'.child = ledger.child
  BY <1>1, <1>2 DEF LedgerType
<1>5. LedgerInv'
  BY <1>1, <1>2, <1>4 DEF LedgerInv
<1> QED
  BY <1>2, <1>3, <1>4, <1>5, LedgerStepKeeps DEF Decided

LEMMA StartAttemptKeeps == ASSUME WatchInv, StartAttempt PROVE WatchInv'
<1>1. LedgerType /\ LedgerInv
  BY DEF WatchInv
<1>2. /\ ledger.status = "running" /\ ledger' = [ledger EXCEPT !.started = TRUE]
      /\ trace' = trace /\ writers' = writers \cup {ledger.attempts} /\ access' = access
      /\ watcher' = watcher
  BY DEF StartAttempt
<1>3. ledger.attempts \in 1..MaxAttempts
  BY <1>1, <1>2, LedgerTyped DEF LedgerInv
<1>4. LedgerType'
  BY <1>1, <1>2, <1>3 DEF LedgerType
<1>5. /\ ledger'.attempts = ledger.attempts /\ ledger'.published = ledger.published
      /\ ledger'.status = ledger.status /\ ledger'.child = ledger.child
  BY <1>1, <1>2 DEF LedgerType
<1>6. \A a \in writers' : a <= ledger.attempts
  BY <1>1, <1>2, <1>3 DEF LedgerInv
<1>7. LedgerInv'
  BY <1>1, <1>2, <1>5, <1>6 DEF LedgerInv, Decided
<1> QED
  BY <1>2, <1>4, <1>5, <1>7, LedgerStepKeeps DEF Decided

LEMMA RecordEventKeeps ==
    ASSUME WatchInv, NEW a \in 1..MaxAttempts, RecordEvent(a)
    PROVE  WatchInv'
<1> USE WatchAssumption
<1>1. LedgerType /\ LedgerInv
  BY DEF WatchInv
<1>2. /\ a \in writers /\ Len(trace) < MaxTrace /\ trace' = Append(trace, a)
      /\ ledger' = ledger /\ writers' = writers /\ access' = access /\ watcher' = watcher
  BY DEF RecordEvent
<1>3. trace \in Seq(1..MaxAttempts) /\ Len(trace) \in Nat /\ ledger.attempts \in Nat
  BY <1>1, LedgerTyped
<1>4. /\ trace' \in Seq(1..MaxAttempts) /\ Len(trace') = Len(trace) + 1
      /\ (\A i \in 1..Len(trace) : trace'[i] = trace[i]) /\ trace'[Len(trace) + 1] = a
  BY <1>2, <1>3
<1>5. \A i \in 1..Len(trace') : i \in 1..Len(trace) \/ i = Len(trace) + 1
  BY <1>3, <1>4
<1>6. LedgerType'
  BY <1>1, <1>2, <1>3, <1>4 DEF LedgerType
<1>7. LedgerInv'
  <2>1. \A i \in 1..Len(trace') : trace'[i] <= ledger.attempts
    BY <1>1, <1>2, <1>4, <1>5 DEF LedgerInv
  <2> QED
    BY <1>1, <1>2, <2>1 DEF LedgerInv
<1>8. ASSUME NEW w \in Watchers
      PROVE  WatcherInv(w)'
  <2>1. /\ WatcherInv(w) /\ watcher[w].from \in Nat /\ watcher[w].cursor \in Nat
    BY WatcherTyped
  <2>2. Headed(watcher[w].sent, Len(watcher[w].sent), watcher[w].shown)'
    BY <1>2, <2>1 DEF WatcherInv
  <2>3. ToldBehind(w)'
    <3>1. /\ watcher[w].from <= watcher[w].cursor /\ watcher[w].cursor <= Len(trace)
          /\ \A i \in (watcher[w].from + 1)..watcher[w].cursor :
               trace[i] = ledger.attempts => Tells(watcher[w].sent, Len(watcher[w].sent), i)
      BY <2>1 DEF WatcherInv, ToldBehind
    <3>2. ASSUME NEW i \in (watcher[w].from + 1)..watcher[w].cursor
          PROVE  trace'[i] = trace[i]
      <4>1. i \in 1..Len(trace)
        BY <1>3, <2>1, <3>1
      <4> QED
        BY <1>4, <4>1
    <3>3. watcher[w].cursor <= Len(trace')
      BY <1>3, <1>4, <2>1, <3>1
    <3> QED
      BY <1>2, <3>1, <3>2, <3>3 DEF ToldBehind
  <2>4. ToldDecided(w)'
    <3> SUFFICES ASSUME SaysDecided(watcher[w].sent, Len(watcher[w].sent))
                 PROVE  /\ ledger.status \in Decided
                        /\ \A i \in 1..Len(trace') :
                             trace'[i] = ledger.published /\ i > watcher[w].from
                               => Tells(watcher[w].sent, Len(watcher[w].sent), i)
      BY <1>2 DEF ToldDecided
    <3>1. /\ ledger.status \in Decided
          /\ \A i \in 1..Len(trace) :
               trace[i] = ledger.published /\ i > watcher[w].from
                 => Tells(watcher[w].sent, Len(watcher[w].sent), i)
      BY <2>1 DEF WatcherInv, ToldDecided
    <3>2. a # ledger.published
      BY <1>1, <1>2, <3>1 DEF LedgerInv
    <3> QED
      BY <1>4, <1>5, <3>1, <3>2
  <2> QED
    BY <2>2, <2>3, <2>4 DEF WatcherInv
<1> QED
  BY <1>2, <1>6, <1>7, <1>8 DEF WatchInv

LEMMA StopWriterKeeps ==
    ASSUME WatchInv, NEW a \in 1..MaxAttempts, StopWriter(a)
    PROVE  WatchInv'
<1>1. LedgerType /\ LedgerInv
  BY DEF WatchInv
<1>2. /\ writers' = writers \ {a}
      /\ ledger' = ledger /\ trace' = trace /\ access' = access /\ watcher' = watcher
  BY DEF StopWriter
<1>3. LedgerType'
  BY <1>1, <1>2 DEF LedgerType
<1>4. LedgerInv'
  BY <1>1, <1>2 DEF LedgerInv
<1> QED
  BY <1>2, <1>3, <1>4, LedgerStepKeeps

LEMMA PublishAttemptKeeps == ASSUME WatchInv, PublishAttempt PROVE WatchInv'
<1>1. LedgerType /\ LedgerInv
  BY DEF WatchInv
<1>2. PICK status \in Settled :
        ledger' = [ledger EXCEPT !.status = status, !.leased = FALSE, !.child = status,
                                 !.published = ledger.attempts]
  BY DEF PublishAttempt
<1>3. /\ ledger.status = "running" /\ writers' = writers \ {ledger.attempts}
      /\ trace' = trace /\ access' = access /\ watcher' = watcher
  BY DEF PublishAttempt
<1>4. LedgerType'
  BY <1>1, <1>2, <1>3 DEF LedgerType
<1>5. /\ ledger'.attempts = ledger.attempts /\ ledger'.published = ledger.attempts
      /\ ledger'.status = status /\ ledger'.child = status
  BY <1>1, <1>2 DEF LedgerType
<1>6. LedgerInv'
  BY <1>1, <1>2, <1>3, <1>5 DEF LedgerInv, Decided, Settled
<1> QED
  BY <1>3, <1>4, <1>5, <1>6, LedgerStepKeeps DEF Decided

LEMMA ResumeApprovedKeeps == ASSUME WatchInv, ResumeApproved PROVE WatchInv'
<1>1. LedgerType /\ LedgerInv
  BY DEF WatchInv
<1>2. /\ ledger.status = "waiting_approval" /\ ledger.child = "waiting_approval"
      /\ ledger' = [ledger EXCEPT !.child = "resuming"]
      /\ writers' = writers \cup {ledger.published}
      /\ trace' = trace /\ access' = access /\ watcher' = watcher
  BY DEF ResumeApproved
<1>3. ledger.published \in 1..MaxAttempts /\ ledger.published = ledger.attempts
  BY <1>1, <1>2, LedgerTyped DEF LedgerInv
<1>4. LedgerType'
  BY <1>1, <1>2, <1>3 DEF LedgerType
<1>5. /\ ledger'.attempts = ledger.attempts /\ ledger'.published = ledger.published
      /\ ledger'.status = ledger.status /\ ledger'.child = "resuming"
  BY <1>1, <1>2 DEF LedgerType
<1>6. \A b \in writers' : b <= ledger.attempts
  BY <1>1, <1>2, <1>3 DEF LedgerInv
<1>7. LedgerInv'
  BY <1>1, <1>2, <1>5, <1>6 DEF LedgerInv, Decided
<1> QED
  BY <1>2, <1>4, <1>5, <1>7, LedgerStepKeeps DEF Decided

LEMMA EndApprovedKeeps == ASSUME WatchInv, EndApproved PROVE WatchInv'
<1>1. LedgerType /\ LedgerInv
  BY DEF WatchInv
<1>2. PICK status \in Decided : ledger' = [ledger EXCEPT !.child = status]
  BY DEF EndApproved
<1>3. /\ ledger.child = "resuming" /\ writers' = writers \ {ledger.published}
      /\ trace' = trace /\ access' = access /\ watcher' = watcher
  BY DEF EndApproved
<1>4. LedgerType'
  BY <1>1, <1>2, <1>3 DEF LedgerType, Decided, Settled
<1>5. /\ ledger'.attempts = ledger.attempts /\ ledger'.published = ledger.published
      /\ ledger'.status = ledger.status /\ ledger'.child = status
  BY <1>1, <1>2 DEF LedgerType
<1>6. LedgerInv'
  BY <1>1, <1>2, <1>3, <1>5 DEF LedgerInv, Decided
<1>7. ledger.status \notin Decided
  BY <1>1, <1>3 DEF LedgerInv, Decided
<1> QED
  BY <1>3, <1>4, <1>5, <1>6, <1>7, LedgerStepKeeps

(* sync_published_approval, whoever calls it. *)
LEMMA SyncKeeps ==
    ASSUME LedgerType, LedgerInv, ledger' = Synced, trace' = trace, writers' = writers,
           access' = access
    PROVE  /\ LedgerType' /\ LedgerInv'
           /\ ledger'.attempts = ledger.attempts /\ ledger'.published = ledger.published
           /\ ledger.status \in Decided => ledger' = ledger
<1>1. CASE ledger.status = "waiting_approval" /\ ledger.child \in Decided
  <2>1. ledger' = [ledger EXCEPT !.status = ledger.child]
    BY <1>1 DEF Synced
  <2>2. LedgerType'
    BY <1>1, <2>1 DEF LedgerType, Decided, Settled
  <2>3. /\ ledger'.attempts = ledger.attempts /\ ledger'.published = ledger.published
        /\ ledger'.status = ledger.child /\ ledger'.child = ledger.child
    BY <2>1 DEF LedgerType
  <2>4. LedgerInv'
    BY <1>1, <2>1, <2>3 DEF LedgerInv, Decided
  <2>5. ledger.status \notin Decided
    BY <1>1 DEF Decided
  <2> QED
    BY <2>2, <2>3, <2>4, <2>5
<1>2. CASE ~(ledger.status = "waiting_approval" /\ ledger.child \in Decided)
  <2>1. ledger' = ledger
    BY <1>2 DEF Synced
  <2> QED
    BY <2>1 DEF LedgerType, LedgerInv
<1> QED
  BY <1>1, <1>2

LEMMA SyncApprovalKeeps == ASSUME WatchInv, SyncApproval PROVE WatchInv'
<1>1. /\ ledger' = Synced /\ trace' = trace /\ writers' = writers /\ access' = access
      /\ watcher' = watcher
  BY DEF SyncApproval
<1> QED
  BY <1>1, SyncKeeps, LedgerStepKeeps DEF WatchInv

LEMMA RevokeKeeps == ASSUME WatchInv, Revoke PROVE WatchInv'
<1>1. ledger' = ledger /\ trace' = trace /\ writers' = writers /\ watcher' = watcher
  BY DEF Revoke
<1>2. access' \in BOOLEAN
  BY Zenon DEF Revoke
<1>3. LedgerType' /\ LedgerInv'
  BY <1>1, <1>2 DEF WatchInv, LedgerType, LedgerInv
<1> QED
  BY <1>1, <1>3, LedgerStepKeeps

-----------------------------------------------------------------------------
(* The watchers *)

(* What one watcher is told is right for the others. *)
LEMMA WatcherStepKeeps ==
    ASSUME WatchInv, NEW w \in Watchers, NEW r \in WatcherSet,
           watcher' = [watcher EXCEPT ![w] = r], trace' = trace,
           LedgerType', LedgerInv', ledger'.attempts = ledger.attempts,
           ledger.status \in Decided => ledger' = ledger,
           WatcherInv(w)'
    PROVE  WatchInv'
<1>1. watcher \in [Watchers -> WatcherSet] /\ watcher' \in [Watchers -> WatcherSet]
  BY DEF WatchInv
<1>2. ASSUME NEW v \in Watchers
      PROVE  WatcherInv(v)'
  <2>1. CASE v = w
    BY <2>1
  <2>2. CASE v # w
    <3>1. watcher'[v] = watcher[v]
      BY <1>1, <2>2
    <3> QED
      BY <3>1, WatcherStays
  <2> QED
    BY <2>1, <2>2
<1> QED
  BY <1>1, <1>2 DEF WatchInv

LEMMA WatchKeeps == ASSUME WatchInv, NEW w \in Watchers, Watch(w) PROVE WatchInv'
<1>1. PICK from \in {0, watcher[w].cursor} :
        watcher' = [watcher EXCEPT ![w] = [pc |-> "watching", from |-> from, cursor |-> from,
                                           shown |-> 0, sent |-> <<>>]]
  BY DEF Watch
<1> DEFINE r == [pc |-> "watching", from |-> from, cursor |-> from, shown |-> 0, sent |-> <<>>]
<1>2. ledger' = ledger /\ trace' = trace /\ writers' = writers /\ access' = access
  BY DEF Watch
<1>3. watcher[w].cursor \in Nat /\ WatcherInv(w) /\ Len(trace) \in Nat
  BY WatcherTyped, LedgerTyped DEF WatchInv
<1>4. from \in Nat /\ from <= Len(trace)
  BY <1>3 DEF WatcherInv, ToldBehind
<1>5. r \in WatcherSet
  BY <1>4, EmptySeq, WatchAssumption DEF WatcherSet
<1>6. watcher'[w] = r
  BY <1>1 DEF WatchInv
<1>7. LedgerType' /\ LedgerInv'
  BY <1>2 DEF WatchInv, LedgerType, LedgerInv
<1>8. WatcherInv(w)'
  <2>1. Len(watcher'[w].sent) = 0 /\ watcher'[w].shown = 0
    BY <1>6
  <2>2. ToldBehind(w)'
    BY <1>2, <1>4, <1>6 DEF ToldBehind
  <2>3. ToldDecided(w)'
    BY <2>1 DEF ToldDecided, SaysDecided
  <2>4. Headed(watcher[w].sent, Len(watcher[w].sent), watcher[w].shown)'
    BY <2>1 DEF Headed
  <2> QED
    BY <2>2, <2>3, <2>4 DEF WatcherInv
<1> QED
  BY <1>1, <1>2, <1>5, <1>7, <1>8, WatcherStepKeeps

LEMMA CutWatchKeeps == ASSUME WatchInv, NEW w \in Watchers, CutWatch(w) PROVE WatchInv'
<1> DEFINE r == [watcher[w] EXCEPT !.pc = "cut"]
<1>1. /\ watcher' = [watcher EXCEPT ![w] = r]
      /\ ledger' = ledger /\ trace' = trace /\ writers' = writers /\ access' = access
  BY DEF CutWatch
<1>2. /\ r \in WatcherSet /\ r.from = watcher[w].from /\ r.cursor = watcher[w].cursor
      /\ r.shown = watcher[w].shown /\ r.sent = watcher[w].sent
  BY WatcherTyped DEF WatcherSet
<1>3. watcher'[w] = r /\ WatcherInv(w)
  BY <1>1 DEF WatchInv
<1>4. LedgerType' /\ LedgerInv'
  BY <1>1 DEF WatchInv, LedgerType, LedgerInv
<1> HIDE DEF r
<1>5. /\ watcher'[w].from = watcher[w].from /\ watcher'[w].cursor = watcher[w].cursor
      /\ watcher'[w].shown = watcher[w].shown /\ watcher'[w].sent = watcher[w].sent
  BY <1>2, <1>3
<1>6. WatcherInv(w)'
  BY <1>1, <1>3, <1>5 DEF WatcherInv, ToldBehind, ToldDecided
<1> QED
  BY <1>1, <1>2, <1>4, <1>6, WatcherStepKeeps

LEMMA PollRevokedKeeps ==
    ASSUME WatchInv, NEW w \in Watchers, PollRevoked(w),
           UNCHANGED <<trace, writers, access>>
    PROVE  WatchInv'
<1> DEFINE sent == watcher[w].sent
           n == Len(watcher[w].sent)
           new == Append(sent, Line("ACCESS_REVOKED", 0, 0))
           r == [pc |-> "ended", from |-> watcher[w].from, cursor |-> watcher[w].cursor,
                 shown |-> watcher[w].shown, sent |-> new]
<1>1. /\ watcher' = [watcher EXCEPT ![w] = r]
      /\ ledger' = ledger /\ trace' = trace /\ writers' = writers /\ access' = access
  BY DEF PollRevoked
<1>2. WatcherInv(w) /\ sent \in Seq(LineSet) /\ n \in Nat
  BY WatcherTyped
<1>3. /\ Line("ACCESS_REVOKED", 0, 0) \in LineSet
      /\ Line("ACCESS_REVOKED", 0, 0).kind = "ACCESS_REVOKED"
  BY WatchAssumption DEF Line, LineSet
<1>4. /\ new \in Seq(LineSet) /\ Len(new) = n + 1 /\ Extends(new, sent, n)
      /\ new[n + 1].kind = "ACCESS_REVOKED"
  <2> HIDE DEF sent
  <2>1. /\ new \in Seq(LineSet) /\ Len(new) = Len(sent) + 1 /\ Extends(new, sent, Len(sent))
        /\ new[Len(sent) + 1] = Line("ACCESS_REVOKED", 0, 0)
    BY <1>2, <1>3, Appended
  <2> QED
    BY <1>3, <2>1 DEF sent
<1> HIDE DEF new, sent, n
<1>5. r \in WatcherSet
  BY <1>4, WatcherTyped DEF WatcherSet
<1>6. /\ watcher'[w].from = watcher[w].from /\ watcher'[w].cursor = watcher[w].cursor
      /\ watcher'[w].shown = watcher[w].shown /\ watcher'[w].sent = new
  BY <1>1 DEF WatchInv
<1>7. LedgerType' /\ LedgerInv'
  BY <1>1 DEF WatchInv, LedgerType, LedgerInv
<1>8. \A i \in (n + 1)..(n + 1) : new[i].kind = "ACCESS_REVOKED"
  BY <1>2, <1>4
<1>9. WatcherInv(w)'
  <2>1. Headed(sent, n, watcher[w].shown) /\ ToldBehind(w) /\ ToldDecided(w)
    BY <1>2 DEF WatcherInv, sent, n
  <2>2. Headed(new, n + 1, watcher[w].shown)
    BY <1>2, <1>4, <1>8, <2>1, EventsAreHeaded
  <2>3. \A i : Tells(sent, n, i) => Tells(new, n + 1, i)
    BY <1>2, <1>4, MoreIsTold
  <2>4. SaysDecided(new, n + 1) => SaysDecided(sent, n)
    BY <1>2, <1>4, <1>8, DecidedBefore DEF Decided
  <2>5. ToldBehind(w)'
    BY <1>1, <1>4, <1>6, <2>1, <2>3 DEF ToldBehind, sent, n
  <2>6. ToldDecided(w)'
    BY <1>1, <1>4, <1>6, <2>1, <2>3, <2>4 DEF ToldDecided, sent, n
  <2> QED
    BY <1>4, <1>6, <2>2, <2>5, <2>6 DEF WatcherInv
<1> QED
  BY <1>1, <1>5, <1>7, <1>9, WatcherStepKeeps

(* The ids of new events, in their order, are positions of the trace. *)
LEMMA OrderedIds ==
    ASSUME LedgerType, NEW from \in Nat, NEW ids,
           NEW S \in SUBSET ((from + 1)..Len(trace)), ids \in InOrder(S)
    PROVE  /\ ids \in Seq(S) /\ Len(ids) \in Nat
           /\ \A i \in 1..Len(ids) : ids[i] \in S
           /\ \A id \in S : \E i \in 1..Len(ids) : ids[i] = id
<1>1. Len(trace) \in Nat
  BY LedgerTyped
<1>2. IsFiniteSet(S) /\ Cardinality(S) \in Nat
  <2>1. IsFiniteSet((from + 1)..Len(trace))
    BY <1>1, FS_Interval
  <2>2. IsFiniteSet(S)
    BY <2>1, FS_Subset
  <2> QED
    BY <2>2, FS_CardinalityType
<1>3. /\ ids \in [1..Cardinality(S) -> S]
      /\ \A id \in S : \E i \in 1..Cardinality(S) : ids[i] = id
  BY DEF InOrder
<1> DEFINE n == Cardinality(S)
<1> HIDE DEF n
<1>4. n \in Nat /\ ids \in [1..n -> S]
  BY <1>2, <1>3 DEF n
<1>5. ids \in Seq(S) /\ Len(ids) = n
  BY <1>4
<1> QED
  BY <1>3, <1>4, <1>5 DEF n

(* What is shown of a job: while somebody works on it the last attempt,    *)
(* and of a decided one the published attempt.                             *)
LEMMA ShownAttempt ==
    ASSUME NEW entry, entry.attempts \in 0..MaxAttempts, entry.published \in {0, entry.attempts},
           NEW number, NEW ran, number = Shown(entry)[1], ran = Shown(entry)[2]
    PROVE  /\ number \in 0..MaxAttempts
           /\ ran # 0 => ran = number /\ ran = entry.attempts
           /\ entry.status \in Decided => ran = entry.published
<1> USE WatchAssumption
<1>1. CASE entry.status = "running" /\ entry.leased
  <2>1. number = entry.attempts /\ ran = IF entry.started THEN entry.attempts ELSE 0
    BY <1>1 DEF Shown
  <2> QED
    BY <1>1, <2>1 DEF Decided
<1>2. CASE ~(entry.status = "running" /\ entry.leased)
  <2>1. number = entry.published /\ ran = entry.published
    BY <1>2 DEF Shown
  <2> QED
    BY <2>1
<1> QED
  BY <1>1, <1>2

(* One announcement more, *)
LEMMA AnnouncementAdded ==
    ASSUME NEW s \in Seq(LineSet), NEW shown, Headed(s, Len(s), shown),
           NEW l \in LineSet, l.kind = "attempt"
    PROVE  LET new == Append(s, l) IN
           /\ new \in Seq(LineSet) /\ Headed(new, Len(new), l.attempt)
           /\ \A id : Tells(s, Len(s), id) => Tells(new, Len(new), id)
           /\ SaysDecided(new, Len(new)) => SaysDecided(s, Len(s))
<1> DEFINE n == Len(s)
           new == Append(s, l)
<1>1. /\ new \in Seq(LineSet) /\ n \in Nat /\ Len(new) = n + 1
      /\ Extends(new, s, n) /\ new[n + 1] = l
  BY Appended
<1>2. Headed(s, n, shown) /\ new[n + 1].kind = "attempt"
  BY <1>1
<1> HIDE DEF n, new
<1>3. Headed(new, n + 1, l.attempt)
  BY <1>1, <1>2, AnnouncedHeads
<1>4. \A id : Tells(s, n, id) => Tells(new, n + 1, id)
  BY <1>1, MoreIsTold
<1>5. \A i \in (n + 1)..(n + 1) : new[i].kind \notin Decided
  BY <1>1, <1>2 DEF Decided
<1>6. SaysDecided(new, n + 1) => SaysDecided(s, n)
  BY <1>1, <1>5, DecidedBefore
<1> QED
  BY <1>1, <1>3, <1>4, <1>6 DEF n, new

(* ... one that is neither announcement nor event, *)
LEMMA LineAdded ==
    ASSUME NEW s \in Seq(LineSet), NEW shown, Headed(s, Len(s), shown),
           NEW l \in LineSet, l.kind \notin {"attempt", "progress"}
    PROVE  LET new == Append(s, l) IN
           /\ new \in Seq(LineSet) /\ Headed(new, Len(new), shown)
           /\ \A id : Tells(s, Len(s), id) => Tells(new, Len(new), id)
           /\ l.kind \notin Decided /\ SaysDecided(new, Len(new)) => SaysDecided(s, Len(s))
<1> DEFINE n == Len(s)
           new == Append(s, l)
<1>1. /\ new \in Seq(LineSet) /\ n \in Nat /\ Len(new) = n + 1
      /\ Extends(new, s, n) /\ new[n + 1] = l
  BY Appended
<1>2. Headed(s, n, shown)
  OBVIOUS
<1> HIDE DEF n, new
<1>3. \A i \in (n + 1)..(n + 1) : new[i].kind = l.kind
  BY <1>1
<1>4. Headed(new, n + 1, shown)
  BY <1>1, <1>2, <1>3, EventsAreHeaded
<1>5. \A id : Tells(s, n, id) => Tells(new, n + 1, id)
  BY <1>1, MoreIsTold
<1>6. l.kind \notin Decided /\ SaysDecided(new, n + 1) => SaysDecided(s, n)
  BY <1>1, <1>3, DecidedBefore
<1> QED
  BY <1>1, <1>4, <1>5, <1>6 DEF n, new

(* ... or events of the attempt that is shown. *)
LEMMA EventsAdded ==
    ASSUME NEW s \in Seq(LineSet), NEW shown, Headed(s, Len(s), shown),
           NEW block \in Seq(LineSet),
           \A i \in 1..Len(block) :
               block[i].kind = "progress" /\ block[i].attempt = shown /\ shown # 0
    PROVE  LET new == s \o block IN
           /\ new \in Seq(LineSet) /\ Headed(new, Len(new), shown)
           /\ \A id : Tells(s, Len(s), id) => Tells(new, Len(new), id)
           /\ \A i \in 1..Len(block) : Tells(new, Len(new), block[i].id)
           /\ SaysDecided(new, Len(new)) => SaysDecided(s, Len(s))
<1> DEFINE n == Len(s)
           p == Len(block)
           new == s \o block
<1>1. /\ new \in Seq(LineSet) /\ n \in Nat /\ p \in Nat /\ Len(new) = n + p
      /\ Extends(new, s, n) /\ \A i \in 1..p : new[n + i] = block[i]
  BY Followed
<1>2. Headed(s, n, shown)
  OBVIOUS
<1>3. \A i \in 1..p : block[i].kind = "progress" /\ block[i].attempt = shown /\ shown # 0
  OBVIOUS
<1> HIDE DEF n, p, new
<1>4. ASSUME NEW i \in (n + 1)..(n + p)
      PROVE  new[i].kind = "progress" /\ new[i].attempt = shown /\ shown # 0
  <2>1. i - n \in 1..p /\ n + (i - n) = i
    BY <1>1
  <2>2. new[n + (i - n)] = block[i - n]
    BY <1>1, <2>1
  <2> QED
    BY <1>3, <2>1, <2>2
<1>5. Headed(new, n + p, shown)
  BY <1>1, <1>2, <1>4, EventsAreHeaded
<1>6. \A id : Tells(s, n, id) => Tells(new, n + p, id)
  BY <1>1, MoreIsTold
<1>7. ASSUME NEW i \in 1..p
      PROVE  Tells(new, n + p, block[i].id)
  <2>1. n + i \in 1..(n + p) /\ new[n + i] = block[i] /\ block[i].kind = "progress"
    BY <1>1, <1>3
  <2> QED
    BY <2>1 DEF Tells
<1>8. SaysDecided(new, n + p) => SaysDecided(s, n)
  <2>1. \A i \in (n + 1)..(n + p) : new[i].kind \notin Decided
    BY <1>4 DEF Decided
  <2> QED
    BY <1>1, <2>1, DecidedBefore
<1> QED
  BY <1>1, <1>5, <1>6, <1>7, <1>8 DEF n, p, new

(* The lines of one round, after those sent before. *)
Round(sent, shown, number, ids, status) ==
    LET marked == IF number = shown THEN sent ELSE Append(sent, Line("attempt", number, 0))
        told == marked \o [i \in 1..Len(ids) |-> Line("progress", trace[ids[i]], ids[i])]
    IN  IF status \in Settled THEN Append(told, Line(status, 0, 0)) ELSE told

LEMMA RoundIsFaithful ==
    ASSUME LedgerType, NEW sent \in Seq(LineSet), NEW shown, Headed(sent, Len(sent), shown),
           NEW number \in 0..MaxAttempts, NEW ran, ran # 0 => ran = number,
           NEW from \in Nat, NEW S \in SUBSET ((from + 1)..Len(trace)),
           \A i \in S : trace[i] = ran,
           NEW ids \in InOrder(S), NEW status \in Settled \cup {"queued", "running"}
    PROVE  LET all == Round(sent, shown, number, ids, status) IN
           /\ all \in Seq(LineSet) /\ Headed(all, Len(all), number)
           /\ \A id : Tells(sent, Len(sent), id) => Tells(all, Len(all), id)
           /\ \A id \in S : Tells(all, Len(all), id)
           /\ status \notin Decided /\ SaysDecided(all, Len(all)) => SaysDecided(sent, Len(sent))
<1> USE WatchAssumption
<1> DEFINE marked == IF number = shown THEN sent ELSE Append(sent, Line("attempt", number, 0))
           block == [i \in 1..Len(ids) |-> Line("progress", trace[ids[i]], ids[i])]
           told == marked \o block
           all == IF status \in Settled THEN Append(told, Line(status, 0, 0)) ELSE told
<1>1. /\ ids \in Seq(S) /\ Len(ids) \in Nat /\ \A i \in 1..Len(ids) : ids[i] \in S
      /\ \A id \in S : \E i \in 1..Len(ids) : ids[i] = id
  BY OrderedIds
<1>2. ASSUME NEW i \in S
      PROVE  i \in Nat /\ trace[i] = number /\ number # 0
  <2>1. i \in 1..Len(trace) /\ i \in Nat /\ trace[i] = ran
    BY LedgerTyped
  <2>2. trace[i] # 0
    BY <2>1, LedgerTyped
  <2> QED
    BY <2>1, <2>2
<1>3. /\ marked \in Seq(LineSet) /\ Headed(marked, Len(marked), number)
      /\ \A id : Tells(sent, Len(sent), id) => Tells(marked, Len(marked), id)
      /\ SaysDecided(marked, Len(marked)) => SaysDecided(sent, Len(sent))
  <2>1. CASE number = shown
    BY <2>1
  <2>2. CASE number # shown
    <3> DEFINE l == Line("attempt", number, 0)
    <3>1. l \in LineSet /\ l.kind = "attempt" /\ l.attempt = number
      BY DEF Line, LineSet
    <3>2. marked = Append(sent, l)
      BY <2>2
    <3> HIDE DEF l, marked
    <3> QED
      BY <3>1, <3>2, AnnouncementAdded
  <2> QED
    BY <2>1, <2>2
<1>4. /\ block \in Seq(LineSet) /\ Len(block) = Len(ids)
      /\ \A i \in 1..Len(ids) :
           /\ block[i].kind = "progress" /\ block[i].attempt = number /\ number # 0
           /\ block[i].id = ids[i]
  <2> DEFINE p == Len(ids)
  <2>1. p \in Nat
    BY <1>1
  <2>2. ASSUME NEW i \in 1..p
        PROVE  /\ Line("progress", trace[ids[i]], ids[i]) \in LineSet
               /\ Line("progress", trace[ids[i]], ids[i]).kind = "progress"
               /\ Line("progress", trace[ids[i]], ids[i]).attempt = number /\ number # 0
               /\ Line("progress", trace[ids[i]], ids[i]).id = ids[i]
    <3>1. ids[i] \in Nat /\ trace[ids[i]] = number /\ number # 0
      BY <1>1, <1>2
    <3> QED
      BY <3>1 DEF Line, LineSet
  <2> HIDE DEF p
  <2>3. block = [i \in 1..p |-> Line("progress", trace[ids[i]], ids[i])]
    BY DEF p
  <2>4. block \in [1..p -> LineSet]
    BY <2>2, <2>3
  <2>5. block \in Seq(LineSet) /\ Len(block) = p
    BY <2>1, <2>4
  <2>6. \A i \in 1..p : block[i] = Line("progress", trace[ids[i]], ids[i])
    BY <2>3
  <2> HIDE DEF block
  <2> QED
    BY <2>2, <2>5, <2>6 DEF p
<1> HIDE DEF marked, block
<1>5. /\ told \in Seq(LineSet) /\ Headed(told, Len(told), number)
      /\ \A id : Tells(marked, Len(marked), id) => Tells(told, Len(told), id)
      /\ \A i \in 1..Len(block) : Tells(told, Len(told), block[i].id)
      /\ SaysDecided(told, Len(told)) => SaysDecided(marked, Len(marked))
  BY <1>3, <1>4, EventsAdded
<1> HIDE DEF told
<1>6. \A id \in S : Tells(told, Len(told), id)
  BY <1>1, <1>4, <1>5
<1>7. /\ all \in Seq(LineSet) /\ Headed(all, Len(all), number)
      /\ \A id : Tells(told, Len(told), id) => Tells(all, Len(all), id)
      /\ status \notin Decided /\ SaysDecided(all, Len(all)) => SaysDecided(told, Len(told))
  <2>1. CASE status \notin Settled
    BY <1>5, <2>1
  <2>2. CASE status \in Settled
    <3> DEFINE l == Line(status, 0, 0)
    <3>1. l \in LineSet /\ l.kind = status /\ l.kind \notin {"attempt", "progress"}
      BY <2>2 DEF Line, LineSet, Settled
    <3>2. all = Append(told, l)
      BY <2>2
    <3> HIDE DEF l, all
    <3> QED
      BY <1>5, <3>1, <3>2, LineAdded
  <2> QED
    BY <2>1, <2>2
<1> HIDE DEF all
<1>8. /\ all \in Seq(LineSet) /\ Headed(all, Len(all), number)
      /\ \A id : Tells(sent, Len(sent), id) => Tells(all, Len(all), id)
      /\ \A id \in S : Tells(all, Len(all), id)
      /\ status \notin Decided /\ SaysDecided(all, Len(all)) => SaysDecided(sent, Len(sent))
  BY <1>3, <1>5, <1>6, <1>7
<1> QED
  BY <1>8 DEF Round, all, told, marked, block

LEMMA PollJobKeeps ==
    ASSUME WatchInv, NEW w \in Watchers, PollJob(w), UNCHANGED <<trace, writers, access>>
    PROVE  WatchInv'
<1> DEFINE number == Shown(Synced)[1]
           ran == Shown(Synced)[2]
           status == Synced.status
           old == watcher[w]
           sent == watcher[w].sent
           S == NewIds(w, ran)
           all(ids) == Round(sent, old.shown, number, ids, status)
           cursor(ids) == IF ids = <<>> THEN old.cursor ELSE ids[Len(ids)]
           r(ids) == [pc |-> IF status \in Settled THEN "ended" ELSE "watching",
                      from |-> old.from, cursor |-> cursor(ids), shown |-> number,
                      sent |-> all(ids)]
<1>1. PICK ids \in InOrder(S) : watcher' = [watcher EXCEPT ![w] = r(ids)]
  BY Zenon DEF PollJob, Round
<1>2. ledger' = Synced /\ trace' = trace /\ writers' = writers /\ access' = access
  BY DEF PollJob
<1>3. /\ LedgerType' /\ LedgerInv'
      /\ ledger'.attempts = ledger.attempts /\ ledger'.published = ledger.published
      /\ ledger.status \in Decided => ledger' = ledger
  BY <1>2, SyncKeeps DEF WatchInv
<1>4. LedgerType /\ LedgerInv /\ WatcherInv(w)
  BY DEF WatchInv
<1>5. /\ old.from \in Nat /\ old.cursor \in Nat /\ sent \in Seq(LineSet)
      /\ Headed(sent, Len(sent), old.shown) /\ ToldBehind(w) /\ ToldDecided(w)
  BY <1>4, WatcherTyped DEF WatcherInv
<1>6. /\ number \in 0..MaxAttempts
      /\ ran # 0 => ran = number /\ ran = ledger.attempts
      /\ status \in Decided => ran = ledger.published
      /\ status \in Settled \cup {"queued", "running"}
  <2>1. number = Shown(ledger')[1] /\ ran = Shown(ledger')[2] /\ status = ledger'.status
    BY <1>2
  <2> HIDE DEF number, ran, status
  <2>2. ledger'.status \in Settled \cup {"queued", "running"}
    BY <1>3 DEF LedgerType
  <2>3. /\ number \in 0..MaxAttempts
        /\ ran # 0 => ran = number /\ ran = ledger'.attempts
        /\ ledger'.status \in Decided => ran = ledger'.published
    <3>1. ledger'.attempts \in 0..MaxAttempts /\ ledger'.published \in {0, ledger'.attempts}
      BY <1>3 DEF LedgerType, LedgerInv
    <3> QED
      BY <2>1, <3>1, ShownAttempt
  <2> QED
    BY <1>3, <2>1, <2>2, <2>3
<1>7. /\ Len(trace) \in Nat
      /\ S = {i \in (old.cursor + 1)..Len(trace) : trace[i] = ran}
  BY <1>4, LedgerTyped DEF NewIds
<1> HIDE DEF number, ran, status, S
<1>8. S \in SUBSET ((old.cursor + 1)..Len(trace)) /\ \A i \in S : trace[i] = ran
  BY <1>7
<1>9. /\ all(ids) \in Seq(LineSet) /\ Headed(all(ids), Len(all(ids)), number)
      /\ \A id : Tells(sent, Len(sent), id) => Tells(all(ids), Len(all(ids)), id)
      /\ \A id \in S : Tells(all(ids), Len(all(ids)), id)
      /\ (status \notin Decided /\ SaysDecided(all(ids), Len(all(ids)))) => SaysDecided(sent, Len(sent))
  <2>1. sent \in Seq(LineSet) /\ Headed(sent, Len(sent), old.shown) /\ old.cursor \in Nat
    BY <1>5
  <2>2. ran # 0 => ran = number
    BY <1>6
  <2> HIDE DEF old, sent
  <2> QED
    BY <1>1, <1>4, <1>6, <1>8, <2>1, <2>2, RoundIsFaithful
<1> DEFINE new == all(ids)
           to == cursor(ids)
<1>10. (to = old.cursor /\ ids = <<>>) \/ to \in S
  <2>1. /\ ids \in Seq(S) /\ Len(ids) \in Nat /\ \A i \in 1..Len(ids) : ids[i] \in S
    BY <1>1, <1>4, <1>5, <1>8, OrderedIds
  <2>2. ids # <<>> => Len(ids) \in 1..Len(ids)
    BY <2>1
  <2> QED
    BY <2>1, <2>2
<1>11. (to \in Nat /\ old.cursor <= to /\ to <= Len(trace)) \/ to = old.cursor
  BY <1>5, <1>7, <1>8, <1>10
<1>12. watcher' = [watcher EXCEPT ![w] =
          [pc |-> IF status \in Settled THEN "ended" ELSE "watching", from |-> old.from,
           cursor |-> to, shown |-> number, sent |-> new]]
  BY <1>1
<1> HIDE DEF all, cursor, new, to
<1>13. [pc |-> IF status \in Settled THEN "ended" ELSE "watching", from |-> old.from,
        cursor |-> to, shown |-> number, sent |-> new] \in WatcherSet
  BY <1>5, <1>6, <1>9, <1>11 DEF WatcherSet, new
<1>14. /\ watcher'[w].from = old.from /\ watcher'[w].cursor = to
       /\ watcher'[w].shown = number /\ watcher'[w].sent = new
  BY <1>12 DEF WatchInv
<1>15. /\ Headed(new, Len(new), number)
       /\ \A id : Tells(sent, Len(sent), id) => Tells(new, Len(new), id)
       /\ \A id \in S : Tells(new, Len(new), id)
       /\ (status \notin Decided /\ SaysDecided(new, Len(new))) => SaysDecided(sent, Len(sent))
  BY <1>9 DEF new
<1>16. /\ old.from <= old.cursor /\ old.cursor <= Len(trace)
       /\ \A i \in (old.from + 1)..old.cursor :
            trace[i] = ledger.attempts => Tells(sent, Len(sent), i)
  BY <1>5 DEF ToldBehind
<1> HIDE DEF old, sent
<1>17. /\ watcher'[w].from <= watcher'[w].cursor /\ watcher'[w].cursor <= Len(trace)
  BY <1>5, <1>7, <1>11, <1>14, <1>16
<1>18. ASSUME NEW i \in (old.from + 1)..to, trace[i] = ledger.attempts
       PROVE  Tells(new, Len(new), i)
  <2>1. CASE i <= old.cursor
    <3>1. i \in (old.from + 1)..old.cursor
      BY <1>5, <2>1
    <3> QED
      BY <1>15, <1>16, <1>18, <3>1
  <2>2. CASE i > old.cursor
    <3>1. to \in S
      BY <1>5, <1>10, <1>18, <2>2
    <3>2. trace[to] = ran /\ to \in 1..Len(trace) /\ i \in (old.cursor + 1)..Len(trace)
      BY <1>5, <1>7, <1>8, <1>18, <2>2, <3>1
    <3>3. ran # 0
      BY <1>4, <3>2, LedgerTyped
    <3>4. trace[i] = ran
      BY <1>6, <1>18, <3>3
    <3> QED
      BY <1>7, <1>15, <3>2, <3>4
  <2> QED
    BY <1>5, <2>1, <2>2
<1>19. ToldBehind(w)'
  BY <1>2, <1>3, <1>14, <1>17, <1>18 DEF ToldBehind
<1>20. ToldDecided(w)'
  <2> SUFFICES ASSUME SaysDecided(new, Len(new))
               PROVE  /\ status \in Decided
                      /\ \A i \in 1..Len(trace) :
                           trace[i] = ledger.published /\ i > old.from => Tells(new, Len(new), i)
    BY <1>2, <1>3, <1>14 DEF ToldDecided, status
  <2>1. status \in Decided
    <3> SUFFICES ASSUME status \notin Decided
                 PROVE  FALSE
      OBVIOUS
    <3>1. SaysDecided(sent, Len(sent))
      BY <1>15
    <3>2. ledger.status \in Decided
      BY <1>5, <3>1 DEF ToldDecided, sent
    <3> QED
      BY <1>2, <1>3, <3>2 DEF status
  <2>2. ASSUME NEW i \in 1..Len(trace), trace[i] = ledger.published, i > old.from
        PROVE  Tells(new, Len(new), i)
    <3>1. trace[i] # 0 /\ ran = trace[i] /\ ledger.published = ledger.attempts
      BY <1>4, <1>6, <2>1, <2>2, LedgerTyped DEF LedgerInv
    <3>2. CASE i <= old.cursor
      <4>1. i \in (old.from + 1)..old.cursor
        BY <1>5, <1>7, <2>2, <3>2
      <4> QED
        BY <1>15, <1>16, <2>2, <3>1, <4>1
    <3>3. CASE i > old.cursor
      <4>1. i \in (old.cursor + 1)..Len(trace)
        BY <1>5, <1>7, <2>2, <3>3
      <4> QED
        BY <1>7, <1>15, <3>1, <4>1
    <3> QED
      BY <1>5, <1>7, <3>2, <3>3
  <2> QED
    BY <2>1, <2>2
<1>21. WatcherInv(w)'
  BY <1>14, <1>15, <1>19, <1>20 DEF WatcherInv
<1> QED
  BY <1>2, <1>3, <1>12, <1>13, <1>21, WatcherStepKeeps

LEMMA WatchStepKeeps == ASSUME WatchInv, [WatchNext]_watchVars PROVE WatchInv'
<1>1. CASE ClaimJob
  BY <1>1, ClaimJobKeeps
<1>2. CASE FailExpired
  BY <1>2, FailExpiredKeeps
<1>3. CASE LoseLease
  BY <1>3, LoseLeaseKeeps
<1>4. CASE StartAttempt
  BY <1>4, StartAttemptKeeps
<1>5. CASE PublishAttempt
  BY <1>5, PublishAttemptKeeps
<1>6. CASE ResumeApproved
  BY <1>6, ResumeApprovedKeeps
<1>7. CASE EndApproved
  BY <1>7, EndApprovedKeeps
<1>8. CASE SyncApproval
  BY <1>8, SyncApprovalKeeps
<1>9. ASSUME NEW a \in 1..MaxAttempts, RecordEvent(a) \/ StopWriter(a)
      PROVE  WatchInv'
  BY <1>9, RecordEventKeeps, StopWriterKeeps
<1>10. CASE Revoke
  BY <1>10, RevokeKeeps
<1>11. ASSUME NEW w \in Watchers, Watch(w) \/ CutWatch(w) \/ Poll(w)
       PROVE  WatchInv'
  BY <1>11, WatchKeeps, CutWatchKeeps, PollJobKeeps, PollRevokedKeeps DEF Poll
<1>12. CASE UNCHANGED watchVars
  <2>1. /\ ledger' = ledger /\ trace' = trace /\ writers' = writers /\ access' = access
        /\ watcher' = watcher
    BY <1>12 DEF watchVars
  <2>2. LedgerType' /\ LedgerInv'
    BY <2>1 DEF WatchInv, LedgerType, LedgerInv
  <2> QED
    BY <2>1, <2>2, LedgerStepKeeps
<1> QED
  BY <1>1, <1>2, <1>3, <1>4, <1>5, <1>6, <1>7, <1>8, <1>9, <1>10, <1>11, <1>12
  DEF WatchNext, Ledger

-----------------------------------------------------------------------------
(* What a watcher relies on. *)

LEMMA WatchersToldSafely == ASSUME WatchInv PROVE ProgressIsFaithful
<1>1. WatchTypeOK
  <2>1. DOMAIN watcher = Watchers
    BY DEF WatchInv
  <2>2. ASSUME NEW w \in Watchers
        PROVE  /\ watcher[w].pc \in {"out", "watching", "cut", "ended"}
               /\ {watcher[w].from, watcher[w].cursor} \subseteq 0..MaxTrace
    <3>1. /\ watcher[w].pc \in {"out", "watching", "cut", "ended"}
          /\ watcher[w].from \in Nat /\ watcher[w].cursor \in Nat /\ ToldBehind(w)
      BY WatcherTyped DEF WatcherInv
    <3>2. Len(trace) \in Nat /\ Len(trace) <= MaxTrace
      BY LedgerTyped DEF WatchInv
    <3> QED
      BY <3>1, <3>2, WatchAssumption DEF ToldBehind
  <2> QED
    BY <2>1, <2>2 DEF WatchTypeOK, WatchInv, LedgerType
<1>2. ASSUME NEW w \in Watchers
      PROVE  UnderOwnAttempt(w)
  <2> DEFINE lines == watcher[w].sent
  <2>1. Headed(lines, Len(lines), watcher[w].shown) /\ Len(lines) \in Nat
    BY WatcherTyped DEF WatcherInv
  <2> SUFFICES ASSUME NEW i \in 1..Len(lines), lines[i].kind = "progress"
               PROVE  \E j \in 1..(i - 1) :
                        /\ lines[j].kind = "attempt" /\ lines[j].attempt = lines[i].attempt
                        /\ \A k \in j..i : k # j => lines[k].kind # "attempt"
    BY DEF UnderOwnAttempt
  <2> HIDE DEF lines
  <2>2. PICK j \in 1..(i - 1) : Heads(lines, j, i, lines[i].attempt)
    BY <2>1 DEF Headed
  <2>3. \A k \in j..i : k # j => k \in (j + 1)..i
    BY <2>1
  <2> QED
    BY <2>2, <2>3 DEF Heads
<1>3. ASSUME NEW w \in Watchers
      PROVE  PublishedToldWhole(w)
  <2> DEFINE lines == watcher[w].sent
  <2>1. ToldDecided(w) /\ Len(lines) \in Nat
    BY WatcherTyped DEF WatcherInv
  <2> SUFFICES ASSUME Sent(w, "completed") \cup Sent(w, "failed") # {}
               PROVE  \A i \in 1..Len(trace) : trace[i] = ledger.published /\ i > watcher[w].from =>
                        \E l \in Sent(w, "progress") : l.id = i
    BY DEF PublishedToldWhole
  <2>2. SaysDecided(lines, Len(lines))
    BY DEF Sent, ToSet, SaysDecided, Decided
  <2>3. \A i : Tells(lines, Len(lines), i) => \E l \in Sent(w, "progress") : l.id = i
    BY DEF Tells, Sent, ToSet
  <2> QED
    BY <2>1, <2>2, <2>3 DEF ToldDecided
<1> QED
  BY <1>1, <1>2, <1>3 DEF ProgressIsFaithful

(* Whatever attempts fail, expire and write on, stream_progress            *)
(* (durable_access.py) shows each event under its own attempt, and whoever *)
(* is told that the task is decided has been shown all of what was         *)
(* published, from where that watcher began.                               *)
THEOREM WatchersTold == WatchSpec => []ProgressIsFaithful
<1>1. WatchInit => WatchInv
  BY WatchBegins
<1>2. WatchInv /\ [WatchNext]_watchVars => WatchInv'
  BY WatchStepKeeps
<1>3. WatchInv => ProgressIsFaithful
  BY WatchersToldSafely
<1> QED
  BY <1>1, <1>2, <1>3, PTL DEF WatchSpec

=============================================================================
