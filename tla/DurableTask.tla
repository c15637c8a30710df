----------------------------- MODULE DurableTask -----------------------------
(***************************************************************************)
(* The durable task pipeline: the job and attempt tables of                *)
(* durable_queue.py, the isolated execution and fenced publication of      *)
(* durable_attempt.py, and the worker loop run_one of durable_worker.py.   *)
(*                                                                         *)
(* Every database transaction whose writes are guarded by one conditional  *)
(* UPDATE is an action; a transaction that first reads a snapshot and      *)
(* writes later (claim_next, publish_attempt, the recovery of a            *)
(* checkpoint) is two actions, so that everything another process can do   *)
(* in between is explored.                                                 *)
(*                                                                         *)
(* The database clock is relative: job[j].lease is the number of ticks     *)
(* left before lease_until, 0 meaning lease_until <= utc_timestamp.        *)
(***************************************************************************)
EXTENDS Integers, FiniteSets

CONSTANTS
    Workers,      \* worker processes, each running run_one in a loop
    Jobs,         \* primary keys of durable_jobs; claims go in this order
    SafeJobs,     \* the jobs submitted with retry_safe = True
    MaxAttempts,  \* max_attempts of every job
    LeaseTicks    \* lease_seconds, in clock ticks

ASSUME JobsAssumption == Jobs \subseteq Nat /\ SafeJobs \subseteq Jobs
ASSUME AttemptsAssumption == MaxAttempts \in Nat \ {0}
ASSUME LeaseAssumption == LeaseTicks \in Nat \ {0}

VARIABLES
    job,        \* durable_jobs rows
    attempt,    \* durable_job_attempts rows, by job and number
    child,      \* private agent_runs of the attempts, with their checkpoint
    root,       \* the submitted, public agent_runs row of each job
    issued,     \* claim tokens drawn for each job so far
    granted,    \* does the creator still hold the run's team and services?
    pc,         \* where each worker is inside run_one
    seen,       \* the candidate row a worker read in claim_next
    claim,      \* the Claim a worker holds
    read,       \* the child row a worker read in publish_attempt
    recovery    \* what the recovery of each checkpoint is about to commit

vars == <<job, attempt, child, root, issued, granted, pc, seen, claim, read,
          recovery>>

-----------------------------------------------------------------------------
(* Rows.  A claim token is a uuid4: the n-th token of a job is modelled by *)
(* the number n, and 0 is NULL.  What an execution writes as its answer is *)
(* told apart by the attempt that wrote it.                                *)

Numbers == 1..MaxAttempts
Outcomes == {"completed", "failed", "waiting_approval"}

Texts == {"", "RESULT", "WAITING", "ATTEMPT_EXECUTION_FAILED",
          "INVALID_ATTEMPT_RESULT", "APPROVAL_CHECKPOINT_EXPIRED",
          "SCOPE_CHANGED", "RETRY_LIMIT_REACHED", "EXECUTION_OUTCOME_UNKNOWN"}
Answers == [by: 0..MaxAttempts, text: Texts]
NoAnswer == [by |-> 0, text |-> ""]
Reason(text) == [by |-> 0, text |-> text]

JobRows == [status: {"absent", "queued", "running"} \cup Outcomes,
            attempts: Nat, token: Nat, lease: 0..LeaseTicks, published: Nat]
AttemptRows == [status: {"none", "running", "expired"} \cup Outcomes, token: Nat]
ChildRows == [status: {"none", "running"} \cup Outcomes, answer: Answers,
              checkpoint: {"none", "pending", "expired"}]
RootRows == [status: {"absent", "running"} \cup Outcomes, answer: Answers]
SeenRows == [job: Jobs, status: {"queued", "running"}, token: Nat,
             attempts: Nat, left: 0..LeaseTicks]
Claims == [job: Jobs, number: Numbers, token: Nat]

NoAttempt == [status |-> "none", token |-> 0]
NoChild == [status |-> "none", answer |-> NoAnswer, checkpoint |-> "none"]
NoSeen == [job |-> 0, status |-> "none", token |-> 0, attempts |-> 0, left |-> 0]
NoClaim == [job |-> 0, number |-> 0, token |-> 0]

PCs == {"idle", "selected", "claimed", "unstarted", "executing", "committed",
        "publish", "publishing"}
Owning == {"claimed", "unstarted", "executing", "committed", "publish",
           "publishing"}
Running == {"executing", "committed", "publish", "publishing"}
Recoveries == {"none", "delete", "fail"}

Init ==
    /\ job = [j \in Jobs |-> [status |-> "absent", attempts |-> 0, token |-> 0,
                              lease |-> 0, published |-> 0]]
    /\ attempt = [j \in Jobs |-> [n \in Numbers |-> NoAttempt]]
    /\ child = [j \in Jobs |-> [n \in Numbers |-> NoChild]]
    /\ root = [j \in Jobs |-> [status |-> "absent", answer |-> NoAnswer]]
    /\ issued = [j \in Jobs |-> 0]
    /\ granted = [j \in Jobs |-> TRUE]
    /\ pc = [w \in Workers |-> "idle"]
    /\ seen = [w \in Workers |-> NoSeen]
    /\ claim = [w \in Workers |-> NoClaim]
    /\ read = [w \in Workers |-> NoChild]
    /\ recovery = [j \in Jobs |-> [n \in Numbers |-> "none"]]

(* run_one returns or raises: the worker forgets everything it held. *)
Leave(w) ==
    /\ pc' = [pc EXCEPT ![w] = "idle"]
    /\ seen' = [seen EXCEPT ![w] = NoSeen]
    /\ claim' = [claim EXCEPT ![w] = NoClaim]
    /\ read' = [read EXCEPT ![w] = NoChild]

Goto(w, label) ==
    /\ pc' = [pc EXCEPT ![w] = label]
    /\ UNCHANGED <<seen, claim, read>>

-----------------------------------------------------------------------------
(* Submission: the public run and its job row appear in one transaction. *)
Submit(j) ==
    /\ job[j].status = "absent"
    /\ job' = [job EXCEPT ![j] = [@ EXCEPT !.status = "queued"]]
    /\ root' = [root EXCEPT ![j] = [@ EXCEPT !.status = "running"]]
    /\ UNCHANGED <<attempt, child, issued, granted, pc, seen, claim, read, recovery>>

-----------------------------------------------------------------------------
(* claim_next *)

(* Mutant: expired claims are never looked at again. *)
ClaimableQueuedOnly(j) == job[j].status = "queued"

Claimable(j) ==
    \/ job[j].status = "queued"
    \/ job[j].status = "running" /\ job[j].lease = 0

PollEmpty(w) ==
    /\ pc[w] = "idle"
    /\ \A j \in Jobs : ~Claimable(j)
    /\ UNCHANGED vars

Select(w) ==
    /\ pc[w] = "idle"
    /\ \E j \in Jobs :
        /\ Claimable(j)
        /\ \A k \in Jobs : Claimable(k) => j <= k
        /\ seen' = [seen EXCEPT ![w] =
                      [job |-> j, status |-> job[j].status,
                       token |-> job[j].token, attempts |-> job[j].attempts,
                       left |-> LeaseTicks]]
    /\ pc' = [pc EXCEPT ![w] = "selected"]
    /\ UNCHANGED <<job, attempt, child, root, issued, granted, claim, read, recovery>>

(* Mutant: only the status is compared, not the token or the lease. *)
CasHoldsStatusOnly(s) == job[s.job].status = s.status

(* The WHERE clause of the compare-and-swap against the row as it is now. *)
CasHolds(s) ==
    /\ job[s.job].status = s.status
    /\ s.status = "running" => job[s.job].token = s.token /\ job[s.job].lease = 0

(* Mutant: a job is repeated whether or not that is safe. *)
CanRetryAnyJob(s) == s.status = "queued" \/ s.attempts < MaxAttempts

(* Mutant: off by one at the retry limit. *)
CanRetryOnceMore(s) ==
    s.status = "queued" \/ (s.job \in SafeJobs /\ s.attempts <= MaxAttempts)

CanRetry(s) ==
    \/ s.status = "queued"
    \/ s.job \in SafeJobs /\ s.attempts < MaxAttempts

ClaimLost(w) ==
    /\ pc[w] = "selected"
    /\ ~CasHolds(seen[w])
    /\ Leave(w)
    /\ UNCHANGED <<job, attempt, child, root, issued, granted, recovery>>

(* The running attempt rows that carry the expired claim's token. *)
ActiveRows(j, token) ==
    {n \in Numbers : attempt[j][n].status = "running" /\ attempt[j][n].token = token}

(* Anything but exactly one such row is the RuntimeError, and a second     *)
(* row with the same number violates uq(job_id, number): both roll back.   *)
LedgerAllows(s) ==
    /\ s.status = "running" => \E n \in Numbers : ActiveRows(s.job, s.token) = {n}
    /\ CanRetry(s) => /\ s.attempts + 1 \in Numbers
                      /\ attempt[s.job][s.attempts + 1] = NoAttempt

(* Mutant: the expired attempt is left running. *)
ExpireRowForgotten(rows, s) == rows

ExpireRow(rows, s) ==
    [n \in Numbers |->
        IF s.status = "running" /\ n \in ActiveRows(s.job, s.token)
        THEN [rows[n] EXCEPT !.status = "expired"] ELSE rows[n]]

ClaimTaken(w) ==
    LET s == seen[w]
        token == issued[s.job] + 1
        number == s.attempts + 1
    IN /\ pc[w] = "selected"
       /\ CasHolds(s) /\ CanRetry(s) /\ LedgerAllows(s)
       /\ issued' = [issued EXCEPT ![s.job] = token]
       /\ job' = [job EXCEPT ![s.job] =
                    [@ EXCEPT !.status = "running", !.attempts = number,
                              !.token = token, !.lease = s.left]]
       /\ attempt' = [attempt EXCEPT ![s.job] =
                        [ExpireRow(@, s) EXCEPT ![number] =
                            [status |-> "running", token |-> token]]]
       /\ claim' = [claim EXCEPT ![w] =
                      [job |-> s.job, number |-> number, token |-> token]]
       /\ pc' = [pc EXCEPT ![w] = "claimed"]
       /\ seen' = [seen EXCEPT ![w] = NoSeen]
       /\ UNCHANGED <<child, root, granted, read, recovery>>

(* Mutant: claim_next is called without on_exhausted. *)
ClaimExhaustedSilently(w) ==
    LET s == seen[w]
    IN /\ pc[w] = "selected"
       /\ CasHolds(s) /\ ~CanRetry(s) /\ LedgerAllows(s)
       /\ job' = [job EXCEPT ![s.job] =
                    [@ EXCEPT !.status = "failed", !.token = 0, !.lease = 0]]
       /\ attempt' = [attempt EXCEPT ![s.job] = ExpireRow(@, s)]
       /\ Leave(w)
       /\ UNCHANGED <<child, root, issued, granted, recovery>>

(* on_exhausted = _mark_exhausted runs inside the claim transaction. *)
ClaimExhausted(w) ==
    LET s == seen[w]
        why == IF s.job \in SafeJobs THEN "RETRY_LIMIT_REACHED"
                                     ELSE "EXECUTION_OUTCOME_UNKNOWN"
    IN /\ pc[w] = "selected"
       /\ CasHolds(s) /\ ~CanRetry(s) /\ LedgerAllows(s)
       /\ job' = [job EXCEPT ![s.job] =
                    [@ EXCEPT !.status = "failed", !.token = 0, !.lease = 0]]
       /\ attempt' = [attempt EXCEPT ![s.job] = ExpireRow(@, s)]
       /\ root' = [root EXCEPT ![s.job] =
                     [status |-> "failed", answer |-> Reason(why)]]
       /\ Leave(w)
       /\ UNCHANGED <<child, issued, granted, recovery>>

-----------------------------------------------------------------------------
(* Mutant: the fence forgets the claim token. *)
LeaseHeldAnyToken(c) == job[c.job].status = "running" /\ job[c.job].lease > 0

(* Mutant: the fence compares the attempt number alone. *)
LeaseHeldNumberOnly(c) == job[c.job].attempts = c.number

(* The fence every later write of a worker repeats in its WHERE clause. *)
LeaseHeld(c) ==
    /\ job[c.job].status = "running"
    /\ job[c.job].token = c.token
    /\ job[c.job].lease > 0

RowOf(c) == attempt[c.job][c.number]
ChildOf(c) == child[c.job][c.number]

RowRunning(c) == RowOf(c) = [status |-> "running", token |-> c.token]
Unallocated(c) == ChildOf(c).status = "none"

(* start_attempt returned None: another owner recovers the job. *)
StartLate(w) ==
    /\ pc[w] = "claimed"
    /\ ~LeaseHeld(claim[w])
    /\ Leave(w)
    /\ UNCHANGED <<job, attempt, child, root, issued, granted, recovery>>

Start(w) ==
    LET c == claim[w]
    IN /\ pc[w] = "claimed"
       /\ LeaseHeld(c) /\ RowRunning(c) /\ Unallocated(c)
       /\ granted[c.job]
       /\ child' = [child EXCEPT ![c.job][c.number] =
                      [@ EXCEPT !.status = "running"]]
       /\ Goto(w, "executing")
       /\ UNCHANGED <<job, attempt, root, issued, granted, recovery>>

(* resolve_run_scope raised: membership or grants are gone. *)
StartRefused(w) ==
    LET c == claim[w]
    IN /\ pc[w] = "claimed"
       /\ LeaseHeld(c) /\ RowRunning(c) /\ Unallocated(c)
       /\ ~granted[c.job]
       /\ Goto(w, "unstarted")
       /\ UNCHANGED <<job, attempt, child, root, issued, granted, recovery>>

FailUnstarted(w) ==
    LET c == claim[w]
    IN /\ pc[w] = "unstarted"
       /\ LeaseHeld(c) /\ RowRunning(c) /\ Unallocated(c)
       /\ job' = [job EXCEPT ![c.job] =
                    [@ EXCEPT !.status = "failed", !.token = 0, !.lease = 0]]
       /\ attempt' = [attempt EXCEPT ![c.job][c.number] =
                        [@ EXCEPT !.status = "failed"]]
       /\ root' = [root EXCEPT ![c.job] =
                     [status |-> "failed", answer |-> Reason("SCOPE_CHANGED")]]
       /\ Leave(w)
       /\ UNCHANGED <<child, issued, granted, recovery>>

FailUnstartedLate(w) ==
    /\ pc[w] = "unstarted"
    /\ ~LeaseHeld(claim[w])
    /\ Leave(w)
    /\ UNCHANGED <<job, attempt, child, root, issued, granted, recovery>>

-----------------------------------------------------------------------------
(* execute: it writes the private run only, and no fence stops it. *)

(* Mutant: the adapter falls back to the specialist for retry-safe jobs. *)
ReachableByFallback(j) == Outcomes

(* A retry-safe job only ever runs the read-only investigation, which never *)
(* asks for approval; any other job may stop for one.                       *)
Reachable(j) == IF j \in SafeJobs THEN {"completed", "failed"} ELSE Outcomes

ExecuteCommit(w) ==
    LET c == claim[w]
    IN /\ pc[w] = "executing"
       /\ \E status \in Reachable(c.job) :
            child' = [child EXCEPT ![c.job][c.number] =
              IF status = "waiting_approval"
              THEN [status |-> status, checkpoint |-> "pending",
                    answer |-> [by |-> c.number, text |-> "WAITING"]]
              ELSE [status |-> status, checkpoint |-> "none",
                    answer |-> [by |-> c.number, text |-> "RESULT"]]]
       /\ Goto(w, "committed")
       /\ UNCHANGED <<job, attempt, root, issued, granted, recovery>>

ExecuteReturn(w) ==
    /\ pc[w] = "committed"
    /\ Goto(w, "publish")
    /\ UNCHANGED <<job, attempt, child, root, issued, granted, recovery>>

(* _fail_private_run overwrites the run, and leaves its checkpoint behind. *)
FailPrivateRun(c, text) ==
    child' = [child EXCEPT ![c.job][c.number] =
                [@ EXCEPT !.status = "failed",
                          !.answer = [by |-> c.number, text |-> text]]]

(* execute raised, before or after it committed a result, or returned with *)
(* the child still RUNNING.                                                *)
ExecuteRaise(w) ==
    /\ pc[w] \in {"executing", "committed"}
    /\ FailPrivateRun(claim[w], "ATTEMPT_EXECUTION_FAILED")
    /\ Goto(w, "publish")
    /\ UNCHANGED <<job, attempt, root, issued, granted, recovery>>

(* renew, called by the heartbeat thread while run_one is past start_attempt. *)
Renew(w) ==
    LET j == claim[w].job
    IN /\ pc[w] \in Running
       /\ LeaseHeld(claim[w])
       /\ job[j].lease < LeaseTicks
       /\ job' = [job EXCEPT ![j] = [@ EXCEPT !.lease = LeaseTicks]]
       /\ UNCHANGED <<attempt, child, root, issued, granted, pc, seen, claim, read, recovery>>

-----------------------------------------------------------------------------
(* publish_attempt *)

(* A snapshot in which the attempt is no longer running: return False. *)
PublishStale(w) ==
    /\ pc[w] = "publish"
    /\ ~RowRunning(claim[w]) \/ Unallocated(claim[w])
    /\ Leave(w)
    /\ UNCHANGED <<job, attempt, child, root, issued, granted, recovery>>

Publishable(run) ==
    /\ run.status \in Outcomes
    /\ run.status = "waiting_approval" => run.checkpoint = "pending"

PublishRead(w) ==
    LET c == claim[w]
    IN /\ pc[w] = "publish"
       /\ RowRunning(c) /\ ~Unallocated(c)
       /\ Publishable(ChildOf(c))
       /\ read' = [read EXCEPT ![w] = ChildOf(c)]
       /\ pc' = [pc EXCEPT ![w] = "publishing"]
       /\ UNCHANGED <<job, attempt, child, root, issued, granted, seen, claim, recovery>>

(* A recovery has failed the run because its checkpoint had expired. *)
ExpiredRun(run) ==
    run.status = "failed" /\ run.answer.text = "APPROVAL_CHECKPOINT_EXPIRED"

(* The ValueError of publish_attempt; run_one fails the run and retries.    *)
(* It is also raised when the snapshot still shows the run waiting while    *)
(* the recovery that failed it commits: the locking read of the checkpoint, *)
(* unlike the snapshot, finds it gone.                                      *)
InvalidResult(w) ==
    LET c == claim[w]
    IN /\ pc[w] = "publish"
       /\ RowRunning(c) /\ ~Unallocated(c)
       /\ ~Publishable(ChildOf(c)) \/ ExpiredRun(ChildOf(c))
       /\ FailPrivateRun(c, "INVALID_ATTEMPT_RESULT")
       /\ Goto(w, "publish")
       /\ UNCHANGED <<job, attempt, root, issued, granted, recovery>>

PublishWrite(w) ==
    LET c == claim[w]
    IN /\ pc[w] = "publishing"
       /\ LeaseHeld(c)
       /\ job' = [job EXCEPT ![c.job] =
                    [@ EXCEPT !.status = read[w].status, !.token = 0,
                              !.lease = 0, !.published = c.number]]
       /\ attempt' = [attempt EXCEPT ![c.job][c.number] =
                        [@ EXCEPT !.status = read[w].status]]
       /\ root' = [root EXCEPT ![c.job] = [status |-> read[w].status,
                                           answer |-> read[w].answer]]
       /\ Leave(w)
       /\ UNCHANGED <<child, issued, granted, recovery>>

PublishFenced(w) ==
    /\ pc[w] = "publishing"
    /\ ~LeaseHeld(claim[w])
    /\ Leave(w)
    /\ UNCHANGED <<job, attempt, child, root, issued, granted, recovery>>

-----------------------------------------------------------------------------
(* Processes, time and the rest of the application *)

(* The process dies, or an exception (a lost connection, a deadlock victim) *)
(* escapes run_one: its open transaction rolls back, its commits stay.      *)
Crash(w) ==
    /\ pc[w] # "idle"
    /\ Leave(w)
    /\ UNCHANGED <<job, attempt, child, root, issued, granted, recovery>>

Older(ticks) == IF ticks > 0 THEN ticks - 1 ELSE 0

(* lease_until of a claim is computed from the instant of its first read,   *)
(* so a claim that is being made ages too.                                  *)
Tick ==
    /\ \/ \E j \in Jobs : job[j].lease > 0
       \/ \E w \in Workers : seen[w].left > 0
    /\ job' = [j \in Jobs |-> [job[j] EXCEPT !.lease = Older(@)]]
    /\ seen' = [w \in Workers |-> [seen[w] EXCEPT !.left = Older(@)]]
    /\ UNCHANGED <<attempt, child, root, issued, granted, pc, claim, read, recovery>>

RevokeScope(j) ==
    /\ granted[j]
    /\ granted' = [granted EXCEPT ![j] = FALSE]
    /\ UNCHANGED <<job, attempt, child, root, issued, pc, seen, claim, read, recovery>>

CheckpointExpires(j, n) ==
    /\ child[j][n].checkpoint = "pending"
    /\ child' = [child EXCEPT ![j][n] = [@ EXCEPT !.checkpoint = "expired"]]
    /\ UNCHANGED <<job, attempt, root, issued, granted, pc, seen, claim, read, recovery>>

-----------------------------------------------------------------------------
(* _reconcile_one, in an API process that starts: it reads checkpoint and   *)
(* run in one snapshot without locking them, and writes by primary key when *)
(* it commits, whatever happened since.  The advisory lock admits one       *)
(* recovery of a checkpoint at a time; what a lost lock, or the decision on *)
(* a published task, does to the same rows is in module Approval.           *)
Recover(j, n, step) == recovery' = [recovery EXCEPT ![j][n] = step]

RecoveryReads(j, n) ==
    /\ recovery[j][n] = "none"
    /\ child[j][n].checkpoint # "none"
    /\ \/ child[j][n].status \in {"completed", "failed"} /\ Recover(j, n, "delete")
       \/ /\ child[j][n].status = "waiting_approval"
          /\ child[j][n].checkpoint = "expired"
          /\ Recover(j, n, "fail")
    /\ UNCHANGED <<job, attempt, child, root, issued, granted, pc, seen, claim, read>>

(* Mutant: the checkpoint is read without FOR UPDATE. *)
CheckpointUnlocked(j, n) == FALSE

(* publish_attempt holds the checkpoint FOR UPDATE until it commits. *)
CheckpointLocked(j, n) ==
    \E w \in Workers : /\ pc[w] = "publishing"
                       /\ read[w].status = "waiting_approval"
                       /\ claim[w].job = j /\ claim[w].number = n

RecoveryWrites(j, n) ==
    /\ recovery[j][n] # "none"
    /\ ~CheckpointLocked(j, n)
    /\ child' = [child EXCEPT ![j][n] =
          IF recovery[j][n] = "fail"
          THEN [status |-> "failed", checkpoint |-> "none",
                answer |-> [by |-> n, text |-> "APPROVAL_CHECKPOINT_EXPIRED"]]
          ELSE [@ EXCEPT !.checkpoint = "none"]]
    /\ Recover(j, n, "none")
    /\ UNCHANGED <<job, attempt, root, issued, granted, pc, seen, claim, read>>

(* The process dies, or its transaction is rolled back as a deadlock victim. *)
RecoveryStops(j, n) ==
    /\ recovery[j][n] # "none"
    /\ Recover(j, n, "none")
    /\ UNCHANGED <<job, attempt, child, root, issued, granted, pc, seen, claim, read>>

-----------------------------------------------------------------------------
WorkerStep(w) ==
    \/ PollEmpty(w) \/ Select(w) \/ ClaimLost(w) \/ ClaimTaken(w) \/ ClaimExhausted(w)
    \/ StartLate(w) \/ Start(w) \/ StartRefused(w)
    \/ FailUnstarted(w) \/ FailUnstartedLate(w)
    \/ ExecuteCommit(w) \/ ExecuteReturn(w) \/ ExecuteRaise(w)
    \/ PublishStale(w) \/ PublishRead(w) \/ InvalidResult(w)
    \/ PublishWrite(w) \/ PublishFenced(w)

Environment ==
    \/ Tick
    \/ \E j \in Jobs : Submit(j) \/ RevokeScope(j)
    \/ \E j \in Jobs, n \in Numbers :
          \/ CheckpointExpires(j, n)
          \/ RecoveryReads(j, n) \/ RecoveryWrites(j, n) \/ RecoveryStops(j, n)

Next ==
    \/ \E w \in Workers : WorkerStep(w) \/ Renew(w) \/ Crash(w)
    \/ Environment

Spec == Init /\ [][Next]_vars

(* The worker loop never stops polling, an execution returns (its tools and *)
(* model calls carry timeouts), and the database clock advances.            *)
FairSpec == Spec /\ WF_vars(Tick) /\ \A w \in Workers : WF_vars(WorkerStep(w))

-----------------------------------------------------------------------------
(* Properties *)

Settled(j) == job[j].status \in Outcomes

(* Every row and every worker's local state has the shape the code gives it. *)
TypeOK ==
    /\ job \in [Jobs -> JobRows]
    /\ attempt \in [Jobs -> [Numbers -> AttemptRows]]
    /\ child \in [Jobs -> [Numbers -> ChildRows]]
    /\ root \in [Jobs -> RootRows]
    /\ issued \in [Jobs -> Nat]
    /\ granted \in [Jobs -> BOOLEAN]
    /\ pc \in [Workers -> PCs]
    /\ seen \in [Workers -> SeenRows \cup {NoSeen}]
    /\ claim \in [Workers -> Claims \cup {NoClaim}]
    /\ read \in [Workers -> ChildRows]
    /\ recovery \in [Jobs -> [Numbers -> Recoveries]]
    /\ \A w \in Workers : pc[w] = "selected" => seen[w] \in SeenRows
    /\ \A w \in Workers : pc[w] \in Owning => claim[w] \in Claims
    /\ \A w \in Workers : pc[w] = "publishing" => read[w].status \in Outcomes

(* The two tables agree although claim, expiry, publication and refusal    *)
(* write them separately: attempts are numbered without a gap, only the    *)
(* last can be running, it runs exactly while the job does and carries the *)
(* job's token, and every claim that was ever granted left its row.        *)
LedgerConsistent ==
    \A j \in Jobs :
        /\ job[j].attempts = issued[j]
        /\ \A n \in Numbers :
            /\ attempt[j][n] # NoAttempt <=> n <= job[j].attempts
            /\ n < job[j].attempts => attempt[j][n].status = "expired"
        /\ job[j].status = "running" =>
            \E n \in Numbers : /\ n = job[j].attempts
                               /\ attempt[j][n] = [status |-> "running",
                                                   token |-> job[j].token]

(* claim_next and start_attempt raise RuntimeError on a ledger they do not *)
(* expect; such an error would stop the queue at that job for ever, since  *)
(* the candidate with the lowest id is tried first.  It never happens.     *)
LedgerNeverFaults ==
    \A w \in Workers :
        /\ pc[w] = "selected" /\ CasHolds(seen[w]) => LedgerAllows(seen[w])
        /\ pc[w] \in {"claimed", "unstarted"} /\ LeaseHeld(claim[w]) =>
               RowRunning(claim[w]) /\ Unallocated(claim[w])

(* Two workers never own the same job at once: at most one of the workers  *)
(* that still believe in a claim passes the fence.                         *)
OneOwner ==
    \A v, w \in Workers :
        /\ pc[v] \in Owning /\ pc[w] \in Owning
        /\ claim[v].job = claim[w].job
        /\ LeaseHeld(claim[v]) /\ LeaseHeld(claim[w])
        => v = w

(* A job that is not retry safe is executed at most once, whatever crashes, *)
(* leases that run out or late workers do.                                  *)
UnsafeRunsOnce ==
    \A j \in Jobs \ SafeJobs :
        Cardinality({n \in Numbers : child[j][n].status # "none"}) <= 1

(* A row copied from a private run shows it as it is, or as it was before a *)
(* recovery failed that run for its expired checkpoint.                     *)
Shows(row, run) ==
    \/ row.status = run.status /\ row.answer = run.answer
    \/ /\ ExpiredRun(run)
       /\ row.status \in {"failed", "waiting_approval"}
       /\ row.answer.by = run.answer.by

(* The public run is untouched until its job settles; from then on it is   *)
(* the result of the last attempt alone, or the reason why there is none.  *)
(* Only a recovery that read the run before may still fail that attempt's  *)
(* run behind the publication, and never one published as completed.       *)
PublicResult ==
    \A j \in Jobs :
        /\ job[j].status \in {"queued", "running"} =>
               root[j] = [status |-> "running", answer |-> NoAnswer]
        /\ Settled(j) => root[j].status = job[j].status
        /\ Settled(j) /\ job[j].published = 0 =>
               /\ job[j].status = "failed"
               /\ root[j].answer \in {Reason("SCOPE_CHANGED"), Reason("RETRY_LIMIT_REACHED"),
                                    Reason("EXECUTION_OUTCOME_UNKNOWN")}
        /\ job[j].published # 0 =>
               /\ Settled(j) /\ job[j].published = job[j].attempts
               /\ root[j].answer.by = job[j].published
               /\ Shows(root[j], child[j][job[j].published])

(* A task is published as waiting for approval only while a checkpoint     *)
(* exists that the approval can resume from, and keeps it until a recovery *)
(* fails the run because the checkpoint has expired.                       *)
WaitingIsResumable ==
    [][\A j \in Jobs :
          job'[j].status = "waiting_approval" =>
            LET run == child'[j][job'[j].published]
            IN \/ run.checkpoint # "none"
               \/ job[j].status = "waiting_approval" /\ ExpiredRun(run)]_vars

(* Once a job is settled, no late worker, crash or retry changes its row,  *)
(* its public run or its attempt rows.                                     *)
SettledIsFinal ==
    [][\A j \in Jobs : Settled(j) =>
          /\ job'[j] = job[j] /\ root'[j] = root[j]
          /\ \A n \in Numbers : attempt'[j][n] = attempt[j][n]]_vars

(* An expired lease is never revived for the claim that lost it: renew and *)
(* every write of that claim come too late for good.                       *)
ExpiredStaysExpired ==
    [][\A j \in Jobs :
          job[j].status = "running" /\ job[j].lease = 0 =>
             \/ job'[j].lease = 0
             \/ job'[j].token # job[j].token /\ job'[j].attempts = job[j].attempts + 1]_vars

(* The result an attempt left when it lost its job is never made public:   *)
(* whatever becomes public is the work of the claim that held the lease at *)
(* that moment.                                                            *)
PublishedUnderLease ==
    [][\A j \in Jobs :
          job'[j].published # job[j].published =>
             /\ job[j].status = "running" /\ job[j].lease > 0
             /\ attempt[j][job'[j].published].token = job[j].token]_vars

(* What the proofs need to know between the lines of the properties above. *)

(* A token names its attempt; settled and waiting rows hold no token. *)
TokenInv ==
    \A j \in Jobs :
        /\ job[j].status \in {"absent", "queued"} => job[j].attempts = 0
        /\ job[j].status = "running" => job[j].token = job[j].attempts
        /\ job[j].status # "running" => job[j].token = 0 /\ job[j].lease = 0
        /\ job[j].attempts <= MaxAttempts
        /\ \A n \in Numbers : attempt[j][n] # NoAttempt => attempt[j][n].token = n
        /\ j \notin SafeJobs => job[j].attempts <= 1

(* A snapshot that passes the compare-and-swap is still accurate. *)
SnapshotInv ==
    \A w \in Workers : pc[w] = "selected" =>
        IF seen[w].status = "queued" THEN seen[w].attempts = 0
        ELSE seen[w].token = seen[w].attempts /\ seen[w].attempts > 0

(* Claims are never shared, and none is held on what was published. *)
ClaimInv ==
    \A w \in Workers : pc[w] \in Owning =>
        LET c == claim[w]
        IN /\ c.token = c.number /\ c.number <= job[c.job].attempts
           /\ job[c.job].published # c.number
           /\ \A v \in Workers \ {w} :
                 pc[v] \in Owning /\ claim[v].job = c.job => claim[v].number # c.number

(* A private run exists from start_attempt on; it has an answer and a      *)
(* checkpoint once execute wrote them, and a waiting one always has both.  *)
ChildInv ==
    \A j \in Jobs, n \in Numbers :
        /\ child[j][n].status # "none" => n <= job[j].attempts
        /\ child[j][n].status \in {"none", "running"} => child[j][n] =
              [status |-> child[j][n].status, answer |-> NoAnswer, checkpoint |-> "none"]
        /\ child[j][n].status \in Outcomes => child[j][n].answer.by = n
        /\ child[j][n].status = "waiting_approval" =>
              j \notin SafeJobs /\ child[j][n].checkpoint # "none"

(* What a recovery has read of a run stays true until it writes: nobody    *)
(* revives a checkpoint, and a waiting run can only fail.                  *)
RecoveryInv ==
    \A j \in Jobs, n \in Numbers :
        /\ recovery[j][n] = "delete" => child[j][n].status \in {"completed", "failed"}
        /\ recovery[j][n] = "fail" =>
              /\ child[j][n].status \in {"failed", "waiting_approval"}
              /\ child[j][n].checkpoint = "expired"

(* Only the worker that owns an attempt moves its private run forward, and *)
(* a publication under way has read it as it is, unless a recovery failed  *)
(* it since; a run about to be published as waiting still waits.           *)
OwnerInv ==
    \A w \in Workers :
        /\ pc[w] \in {"claimed", "unstarted"} => Unallocated(claim[w])
        /\ pc[w] = "executing" => ChildOf(claim[w]).status = "running"
        /\ pc[w] \in {"committed", "publish", "publishing"} =>
              ChildOf(claim[w]).status \in Outcomes
        /\ pc[w] = "publishing" =>
              /\ read[w].answer.by = claim[w].number
              /\ Shows(read[w], ChildOf(claim[w]))
              /\ read[w].status = "waiting_approval" =>
                    ChildOf(claim[w]).status = "waiting_approval"

(* Nothing is published before the job settles. *)
UnpublishedInv ==
    \A j \in Jobs :
        /\ ~Settled(j) => job[j].published = 0
        /\ job[j].status = "absent" =>
               root[j] = [status |-> "absent", answer |-> NoAnswer]

(* The inductive invariant. *)
IInv ==
    /\ TypeOK /\ LedgerConsistent /\ TokenInv /\ SnapshotInv
    /\ ClaimInv /\ ChildInv /\ RecoveryInv /\ OwnerInv /\ UnpublishedInv /\ PublicResult

(* The pipeline implements the promise of TaskOutcome: the public runs are *)
(* the outcomes, and an execution begins when its private run is created.  *)
Outcome == INSTANCE TaskOutcome WITH
    begun <- [j \in Jobs |-> {n \in Numbers : child[j][n].status # "none"}],
    outcome <- root,
    Answers <- Answers

ImplementsOutcome == Outcome!Spec

(* Every submitted job settles, provided crashes eventually stop. *)
EverySubmissionSettles ==
    <>[][~\E w \in Workers : Crash(w) /\ ~WorkerStep(w)]_vars =>
        \A j \in Jobs : (job[j].status = "queued") ~> Settled(j)
=============================================================================
