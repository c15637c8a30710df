------------------------------ MODULE Approval ------------------------------
(***************************************************************************)
(* The decision on one task that was published as waiting for approval:    *)
(* approve_agent_run of agent_router.py with the resume_agent it calls     *)
(* (agent_service.py), the advisory lock of approval_lock.py, the recovery *)
(* every API process runs when it starts (approval_recovery_service.py)    *)
(* and the repair every reader runs (sync_published_approval of            *)
(* durable_access.py).                                                     *)
(*                                                                         *)
(* Tasks do not interact here: lock, checkpoint, private run, public run   *)
(* and job belong to one task, so one task is modelled.  Transactions read *)
(* a snapshot and write later, by primary key; both halves are actions.    *)
(***************************************************************************)
EXTENDS Integers, FiniteSets

CONSTANTS
    Requests,      \* approval requests, each handled once by some API thread
    Recoveries,    \* API processes that start and reconcile
    Readers,       \* clients whose reads repair the public run
    MaxLockLosses, \* how often the lock's own connection may break
    Nobody         \* the value of a free lock

ASSUME ActorsAssumption ==
    /\ Requests \cap Recoveries = {} /\ Requests \cap Readers = {}
    /\ Recoveries \cap Readers = {}
    /\ Nobody \notin Requests \cup Recoveries
ASSUME LossAssumption == MaxLockLosses \in Nat

VARIABLES
    run,        \* the published private run: status and answer
    checkpoint, \* its agent_approval_checkpoints row
    root,       \* the public run
    job,        \* durable_jobs.status
    lock,       \* who holds GET_LOCK("wp-approval-...")
    losses,     \* lock connections lost so far
    toolRuns,   \* requests on whose behalf the high-risk tool was executed
    pc,         \* where each actor is
    action,     \* what each request asks for
    seen        \* the snapshot each actor's open transaction reads

vars == <<run, checkpoint, root, job, lock, losses, toolRuns, pc, action, seen>>
tables == <<run, checkpoint, root, job>>

-----------------------------------------------------------------------------
Actors == Requests \cup Recoveries \cup Readers
Actions == {"approve", "reject", "cancel"}
Terminal == {"completed", "failed"}

Answers == {"WAITING", "", "RESULT", "REJECTED", "CANCELLED",
            "APPROVAL_CHECKPOINT_MISSING", "APPROVAL_CHECKPOINT_EXPIRED",
            "APPROVAL_EXECUTION_OUTCOME_UNKNOWN"}
RunRows == [status: {"waiting_approval", "running"} \cup Terminal, answer: Answers]
Checkpoints == [exists: BOOLEAN, decision: {"none"} \cup Actions, expired: BOOLEAN]
NoCheckpoint == [exists |-> FALSE, decision |-> "none", expired |-> FALSE]
Jobs == {"waiting_approval"} \cup Terminal
Snapshots == [run: RunRows, checkpoint: Checkpoints, job: Jobs]

Waiting == [status |-> "waiting_approval", answer |-> "WAITING"]
Pending == [exists |-> TRUE, decision |-> "none", expired |-> FALSE]
Snapshot == [run |-> run, checkpoint |-> checkpoint, job |-> job]
Blank == [run |-> Waiting, checkpoint |-> NoCheckpoint, job |-> "waiting_approval"]

PCs == {"ready", "entering", "unlocked", "locked", "checking", "resuming", "ran",
        "unlocking", "closing", "closed", "done",           \* requests
        "off", "listed", "recovering", "repairing", "releasing",  \* recoveries
        "idle", "reading"}                                  \* readers

(* publish_attempt has just made the task public as waiting for approval. *)
Init ==
    /\ run = Waiting /\ root = Waiting
    /\ checkpoint = Pending
    /\ job = "waiting_approval"
    /\ lock = Nobody /\ losses = 0
    /\ toolRuns = {}
    /\ pc = [a \in Actors |-> IF a \in Requests THEN "ready"
                              ELSE IF a \in Recoveries THEN "off" ELSE "idle"]
    /\ action \in [Requests -> Actions]
    /\ seen = [a \in Actors |-> Blank]

Goto(a, label) == pc' = [pc EXCEPT ![a] = label]
Forget(a) == seen' = [seen EXCEPT ![a] = Blank]
Remember(a) == seen' = [seen EXCEPT ![a] = Snapshot]

-----------------------------------------------------------------------------
(* sync_published_approval: write what the snapshot shows, unconditionally. *)

(* Mutant: forgets that a run may end failed. *)
SyncDueCompletedOnly(s) == s.job = "waiting_approval" /\ s.run.status = "completed"

SyncDue(s) == s.job = "waiting_approval" /\ s.run.status \in Terminal

(* Mutant: the queue row is repaired, the public run is not. *)
SyncJobOnly(s) ==
    IF SyncDue(s) THEN job' = s.run.status /\ UNCHANGED root
                  ELSE UNCHANGED <<root, job>>

Sync(s) ==
    IF SyncDue(s) THEN root' = s.run /\ job' = s.run.status
                  ELSE UNCHANGED <<root, job>>

ReadTask(v) ==
    /\ pc[v] = "idle"
    /\ Remember(v) /\ Goto(v, "reading")
    /\ UNCHANGED <<tables, lock, losses, toolRuns, action>>

RepairTask(v) ==
    /\ pc[v] = "reading"
    /\ Sync(seen[v])
    /\ Forget(v) /\ Goto(v, "idle")
    /\ UNCHANGED <<run, checkpoint, lock, losses, toolRuns, action>>

-----------------------------------------------------------------------------
(* approve_agent_run *)

Enter(r) ==
    /\ pc[r] = "ready"
    /\ Remember(r) /\ Goto(r, "entering")
    /\ UNCHANGED <<tables, lock, losses, toolRuns, action>>

(* Repair first; a task that is no longer waiting is answered with 409. *)
Admit(r) ==
    LET s == seen[r]
    IN /\ pc[r] = "entering"
       /\ Sync(s)
       /\ Goto(r, IF s.job = "waiting_approval" /\ ~SyncDue(s) THEN "unlocked" ELSE "done")
       /\ Forget(r)
       /\ UNCHANGED <<run, checkpoint, lock, losses, toolRuns, action>>

(* Mutant: goes on whether or not GET_LOCK succeeded. *)
LockAlways(r) ==
    /\ pc[r] = "unlocked"
    /\ lock' = IF lock = Nobody THEN r ELSE lock
    /\ Goto(r, "locked")
    /\ UNCHANGED <<tables, losses, toolRuns, action, seen>>

(* GET_LOCK with timeout 0 either succeeds or answers at once. *)
Lock(r) ==
    /\ pc[r] = "unlocked"
    /\ IF lock = Nobody THEN lock' = r /\ Goto(r, "locked")
                        ELSE UNCHANGED lock /\ Goto(r, "closing")
    /\ UNCHANGED <<tables, losses, toolRuns, action, seen>>

Check(r) ==
    /\ pc[r] = "locked"
    /\ Remember(r) /\ Goto(r, "checking")
    /\ UNCHANGED <<tables, lock, losses, toolRuns, action>>

(* _fail_unrecoverable_approval *)
Unrecoverable(s) == ~s.checkpoint.exists \/ s.checkpoint.expired

(* Mutant: the run is updated without comparing its status. *)
ClaimWinsAlways == checkpoint.exists

(* The conditional UPDATE of the run, and the UPDATE of the checkpoint.    *)
ClaimWins == run.status = "waiting_approval" /\ checkpoint.exists

(* Mutant: the decision is recorded after the graph has run. *)
ClaimRowsStatusOnly(r) ==
    run' = [status |-> "running", answer |-> ""] /\ UNCHANGED checkpoint

(* Mutant: the decision is recorded, the run keeps its status. *)
ClaimRowsDecisionOnly(r) ==
    checkpoint' = [checkpoint EXCEPT !.decision = action[r]] /\ UNCHANGED run

ClaimRows(r) ==
    /\ run' = [status |-> "running", answer |-> ""]
    /\ checkpoint' = [checkpoint EXCEPT !.decision = action[r]]

(* The second half of the transaction that began with Check. *)
Claim(r) ==
    LET s == seen[r]
    IN /\ pc[r] = "checking"
       /\ \/ /\ \/ s.run.status # "waiting_approval"
                \/ ~Unrecoverable(s) /\ (s.checkpoint.decision # "none" \/ ~ClaimWins)
             /\ UNCHANGED <<run, checkpoint>> /\ Goto(r, "unlocking")
          \/ /\ s.run.status = "waiting_approval" /\ Unrecoverable(s)
             /\ run' = [status |-> "failed",
                        answer |-> IF s.checkpoint.exists
                                   THEN "APPROVAL_CHECKPOINT_EXPIRED"
                                   ELSE "APPROVAL_CHECKPOINT_MISSING"]
             /\ checkpoint' = NoCheckpoint
             /\ Goto(r, "unlocking")
          \/ /\ s.run.status = "waiting_approval" /\ ~Unrecoverable(s)
             /\ s.checkpoint.decision = "none" /\ ClaimWins
             /\ ClaimRows(r)
             /\ Goto(r, "resuming")
       /\ Forget(r)
       /\ UNCHANGED <<root, job, lock, losses, toolRuns, action>>

(* Mutant: the plan is executed whatever was decided. *)
RunToolAlways(r) ==
    /\ pc[r] = "resuming"
    /\ toolRuns' = toolRuns \cup {r}
    /\ Goto(r, "ran")
    /\ UNCHANGED <<tables, lock, losses, action, seen>>

(* The restored graph executes the plan only for an approval. *)
RunTool(r) ==
    /\ pc[r] = "resuming" /\ action[r] = "approve"
    /\ toolRuns' = toolRuns \cup {r}
    /\ Goto(r, "ran")
    /\ UNCHANGED <<tables, lock, losses, action, seen>>

Refusal(a) == CASE a = "reject" -> "REJECTED" [] a = "cancel" -> "CANCELLED"
                [] OTHER -> ""

(* _finish_run: the status is written whatever the row now holds.  From    *)
(* "resuming" no tool was called: the decision was not to, the registry    *)
(* refused the call, or the graph raised before it.                        *)
Finish(r) ==
    /\ \/ /\ pc[r] = "ran"
          /\ \/ run' = [status |-> "completed", answer |-> "RESULT"]
             \/ run' = [status |-> "failed", answer |-> ""]
       \/ /\ pc[r] = "resuming"
          /\ run' = [status |-> "failed", answer |-> Refusal(action[r])]
    /\ checkpoint' = NoCheckpoint
    /\ Goto(r, "unlocking")
    /\ UNCHANGED <<root, job, lock, losses, toolRuns, action, seen>>

Unlock(r) ==
    /\ pc[r] = "unlocking"
    /\ lock' = IF lock = r THEN Nobody ELSE lock
    /\ Goto(r, "closing")
    /\ UNCHANGED <<tables, losses, toolRuns, action, seen>>

(* The finally block: rollback, read again, repair. *)
CloseRead(r) ==
    /\ pc[r] = "closing"
    /\ Remember(r) /\ Goto(r, "closed")
    /\ UNCHANGED <<tables, lock, losses, toolRuns, action>>

CloseWrite(r) ==
    /\ pc[r] = "closed"
    /\ Sync(seen[r])
    /\ Forget(r) /\ Goto(r, "done")
    /\ UNCHANGED <<run, checkpoint, lock, losses, toolRuns, action>>

-----------------------------------------------------------------------------
(* reconcile_approval_checkpoints *)

List(k) ==
    /\ pc[k] = "off"
    /\ checkpoint.exists
    /\ Goto(k, "listed")
    /\ UNCHANGED <<tables, lock, losses, toolRuns, action, seen>>

(* A held lock means an active approval: count it and skip. *)
RecoveryLock(k) ==
    /\ pc[k] = "listed"
    /\ IF lock = Nobody THEN lock' = k /\ Goto(k, "recovering")
                        ELSE UNCHANGED lock /\ Goto(k, "off")
    /\ UNCHANGED <<tables, losses, toolRuns, action, seen>>

RecoveryRead(k) ==
    /\ pc[k] = "recovering"
    /\ Remember(k) /\ Goto(k, "repairing")
    /\ UNCHANGED <<tables, lock, losses, toolRuns, action>>

(* Mutant: a claimed approval is put back for another decision. *)
FailLostReplay(s) == run' = Waiting /\ checkpoint' = [checkpoint EXCEPT !.decision = "none"]

(* Mutant: a claimed approval is left alone. *)
FailLostSkipped(s) == UNCHANGED <<run, checkpoint>>

(* Mutant: only claimed approvals are failed, an expired one is left alone. *)
FailLostClaimedOnly(s) ==
    IF s.checkpoint.decision = "none" THEN UNCHANGED <<run, checkpoint>>
    ELSE /\ run' = [status |-> "failed", answer |-> "APPROVAL_EXECUTION_OUTCOME_UNKNOWN"]
         /\ checkpoint' = NoCheckpoint

(* Expired, or claimed by a process that is gone: fail it, never replay.   *)
FailLost(s) ==
    /\ run' = [status |-> "failed",
               answer |-> IF s.checkpoint.expired THEN "APPROVAL_CHECKPOINT_EXPIRED"
                                                  ELSE "APPROVAL_EXECUTION_OUTCOME_UNKNOWN"]
    /\ checkpoint' = NoCheckpoint

Repair(k) ==
    LET s == seen[k]
    IN /\ pc[k] = "repairing"
       /\ \/ /\ ~s.checkpoint.exists
             /\ UNCHANGED <<run, checkpoint>>
          \/ /\ s.checkpoint.exists /\ s.run.status \in Terminal
             /\ checkpoint' = NoCheckpoint /\ UNCHANGED run
          \/ /\ s.checkpoint.exists /\ s.run.status \notin Terminal
             /\ s.checkpoint.expired \/ s.checkpoint.decision # "none"
             /\ FailLost(s)
          \/ /\ s.checkpoint.exists /\ s.run.status \notin Terminal
             /\ ~s.checkpoint.expired /\ s.checkpoint.decision = "none"
             /\ run' = IF s.run.status = "waiting_approval" THEN run
                       ELSE [run EXCEPT !.status = "waiting_approval"]
             /\ UNCHANGED checkpoint
       /\ Forget(k) /\ Goto(k, "releasing")
       /\ UNCHANGED <<root, job, lock, losses, toolRuns, action>>

RecoveryUnlock(k) ==
    /\ pc[k] = "releasing"
    /\ lock' = IF lock = k THEN Nobody ELSE lock
    /\ Goto(k, "off")
    /\ UNCHANGED <<tables, losses, toolRuns, action, seen>>

-----------------------------------------------------------------------------
(* Time and failures *)

CheckpointExpires ==
    /\ checkpoint.exists /\ ~checkpoint.expired
    /\ checkpoint' = [checkpoint EXCEPT !.expired = TRUE]
    /\ UNCHANGED <<run, root, job, lock, losses, toolRuns, pc, action, seen>>

(* The process dies: its open transaction rolls back and the database      *)
(* frees the lock with its connection.  An exception that escapes before   *)
(* _finish_run commits leaves the same rows.                               *)
Crash(a) ==
    /\ pc[a] \notin {"ready", "done", "off", "idle"}
    /\ lock' = IF lock = a THEN Nobody ELSE lock
    /\ Goto(a, IF a \in Requests THEN "done" ELSE IF a \in Recoveries THEN "off" ELSE "idle")
    /\ Forget(a)
    /\ UNCHANGED <<tables, losses, toolRuns, action>>

(* Only the connection that holds the lock breaks; nothing notices. *)
LoseLock ==
    /\ losses < MaxLockLosses
    /\ lock # Nobody
    /\ lock' = Nobody /\ losses' = losses + 1
    /\ UNCHANGED <<tables, toolRuns, pc, action, seen>>

-----------------------------------------------------------------------------
RequestStep(r) ==
    \/ Enter(r) \/ Admit(r) \/ Lock(r) \/ Check(r) \/ Claim(r) \/ RunTool(r)
    \/ Finish(r) \/ Unlock(r) \/ CloseRead(r) \/ CloseWrite(r)

RecoveryStep(k) ==
    List(k) \/ RecoveryLock(k) \/ RecoveryRead(k) \/ Repair(k) \/ RecoveryUnlock(k)

ReaderStep(v) == ReadTask(v) \/ RepairTask(v)

Next ==
    \/ \E r \in Requests : RequestStep(r) \/ Crash(r)
    \/ \E k \in Recoveries : RecoveryStep(k) \/ Crash(k)
    \/ \E v \in Readers : ReaderStep(v) \/ Crash(v)
    \/ CheckpointExpires
    \/ LoseLock

Spec == Init /\ [][Next]_vars

(* A request that was accepted keeps running unless its process dies, API  *)
(* processes are started again and again, and clients keep reading.        *)
Scheduling ==
    /\ \A r \in Requests : WF_vars(pc[r] # "ready" /\ RequestStep(r))
    /\ \A k \in Recoveries : SF_vars(RecoveryLock(k)) /\ WF_vars(RecoveryStep(k))
    /\ \A v \in Readers : WF_vars(ReaderStep(v))

FairSpec == Spec /\ Scheduling

-----------------------------------------------------------------------------
(* Properties *)

TypeOK ==
    /\ run \in RunRows /\ root \in RunRows /\ job \in Jobs
    /\ checkpoint \in Checkpoints
    /\ lock \in Requests \cup Recoveries \cup {Nobody}
    /\ losses \in 0..MaxLockLosses
    /\ toolRuns \subseteq Requests
    /\ pc \in [Actors -> PCs]
    /\ action \in [Requests -> Actions]
    /\ seen \in [Actors -> Snapshots]

(* However many people decide at once, and whoever crashes, the high-risk  *)
(* tool is executed for at most one request, and only for an approval.     *)
ToolRunsAtMostOnce ==
    /\ Cardinality(toolRuns) <= 1
    /\ \A r \in toolRuns : action[r] = "approve"

(* A task is never stranded, whoever crashes between two steps: while it   *)
(* waits, its checkpoint exists and nobody has claimed it, so it can still *)
(* be decided; while it runs, its claimed checkpoint is there for a        *)
(* recovery to find.                                                       *)
NeverStranded ==
    /\ run.status = "waiting_approval" => checkpoint.exists /\ checkpoint.decision = "none"
    /\ run.status = "running" => checkpoint.exists /\ checkpoint.decision # "none"

(* A recovery never declares an approval lost that is still executing.     *)
ActiveApprovalSkipped ==
    \A r \in Requests :
        pc[r] \in {"resuming", "ran"} => run.status = "running" /\ checkpoint.exists

(* What users see as the final result is the private run's final result,   *)
(* whichever of the unsynchronized repairs wrote it; while the connections *)
(* that hold the lock last: a request that lost its lock may still write.  *)
RootFollowsRun ==
    job \in Terminal /\ losses = 0 => root = run /\ job = run.status

(* A finished private run is never written again, while the connections    *)
(* that hold the lock last: the late result of a request that lost its     *)
(* lock overwrites the failure that a recovery wrote.                      *)
FinishedIsFinal == [][run.status \in Terminal /\ losses = 0 => run' = run]_vars

(* Some actor dies, rather than doing what would look the same. *)
Dying ==
    \/ \E r \in Requests : Crash(r) /\ ~RequestStep(r)
    \/ \E k \in Recoveries : Crash(k) /\ ~RecoveryStep(k)
    \/ \E v \in Readers : Crash(v) /\ ~ReaderStep(v)

(* An approval that was claimed, or whose checkpoint has expired although  *)
(* nobody ever decided, ends in public, whatever crashes, provided crashes *)
(* stop: the request finishes it or the next API process that starts fails *)
(* it, and some reader repairs the public run.  Again while the            *)
(* connections that hold the lock last.                                    *)
HandledBecomesPublic ==
    <>[][~Dying]_vars /\ [](losses = 0) =>
        ((run.status # "waiting_approval" \/ checkpoint.expired) ~> (job \in Terminal))
=============================================================================
