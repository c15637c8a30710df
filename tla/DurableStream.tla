----------------------------- MODULE DurableStream -----------------------------
(***************************************************************************)
(* The progress stream of a durable task: stream_progress                  *)
(* (durable_access.py), the generator behind GET /agent/runs/{id}/events.  *)
(* Every round opens a session of its own, asks again who is watching, and *)
(* shows the trace of the attempt that holds the lease, later that of the  *)
(* published one.  Trace events of all runs draw their ids from one        *)
(* sequence, and one cursor follows the stream across the attempts.        *)
(*                                                                         *)
(* Of the ledger (DurableTask models it) only what the stream reads is     *)
(* kept: one job, its attempts, and workers that may outlive their lease.  *)
(***************************************************************************)
EXTENDS Naturals, Sequences, FiniteSets, SequencesExt

CONSTANTS
    Watchers,
    MaxAttempts,  \* durable_jobs.max_attempts
    MaxTrace      \* bound: trace events recorded

ASSUME WatchAssumption == MaxAttempts \in Nat \ {0} /\ MaxTrace \in Nat

VARIABLES
    ledger,   \* the job's row, and the status of its published run
    trace,    \* agent_trace_events: the attempt that recorded the event of each id
    writers,  \* attempts with a process that still records events
    access,   \* session, membership and service grants of the watchers
    watcher   \* per watcher: its generator and the lines it sent

watchVars == <<ledger, trace, writers, access, watcher>>

-----------------------------------------------------------------------------
Settled == {"completed", "failed", "waiting_approval"}
Decided == {"completed", "failed"}

WatchInit ==
    /\ ledger = [status |-> "queued", attempts |-> 0, leased |-> FALSE, started |-> FALSE,
                 published |-> 0, child |-> "none"]
    /\ trace = <<>> /\ writers = {} /\ access = TRUE
    /\ watcher = [w \in Watchers |->
                    [pc |-> "out", from |-> 0, cursor |-> 0, shown |-> 0, sent |-> <<>>]]

(* claim_next: queued, or its lease ran out; the earlier attempt expires. *)
ClaimJob ==
    /\ ledger.status = "queued" \/ (ledger.status = "running" /\ ~ledger.leased)
    /\ ledger.attempts < MaxAttempts
    /\ ledger' = [ledger EXCEPT !.status = "running", !.attempts = @ + 1,
                                !.leased = TRUE, !.started = FALSE]
    /\ UNCHANGED <<trace, writers, access, watcher>>

(* ... or the job is failed, unsafe to retry or out of attempts. *)
FailExpired ==
    /\ ledger.status = "running" /\ ~ledger.leased
    /\ ledger' = [ledger EXCEPT !.status = "failed"]
    /\ UNCHANGED <<trace, writers, access, watcher>>

LoseLease ==
    /\ ledger.status = "running" /\ ledger.leased
    /\ ledger' = [ledger EXCEPT !.leased = FALSE]
    /\ UNCHANGED <<trace, writers, access, watcher>>

(* start_attempt links a private run. *)
StartAttempt ==
    /\ ledger.status = "running" /\ ledger.leased /\ ~ledger.started
    /\ ledger' = [ledger EXCEPT !.started = TRUE]
    /\ writers' = writers \cup {ledger.attempts}
    /\ UNCHANGED <<trace, access, watcher>>

(* A worker records events of its own run, whether it still holds the      *)
(* lease or not.                                                           *)
RecordEvent(a) ==
    /\ a \in writers /\ Len(trace) < MaxTrace
    /\ trace' = Append(trace, a)
    /\ UNCHANGED <<ledger, writers, access, watcher>>

StopWriter(a) ==
    /\ a \in writers /\ ledger.child # "resuming"
    /\ writers' = writers \ {a}
    /\ UNCHANGED <<ledger, trace, access, watcher>>

(* publish_attempt, under a live lease, of a run that has ended. *)
PublishAttempt ==
    /\ ledger.status = "running" /\ ledger.leased /\ ledger.started
    /\ \E status \in Settled :
         ledger' = [ledger EXCEPT !.status = status, !.leased = FALSE, !.child = status,
                                  !.published = ledger.attempts]
    /\ writers' = writers \ {ledger.attempts}
    /\ UNCHANGED <<trace, access, watcher>>

(* An approval resumes the published run and ends it; the public row is    *)
(* repaired after that, by the approving request or by whoever looks next. *)
ResumeApproved ==
    /\ ledger.status = "waiting_approval" /\ ledger.child = "waiting_approval"
    /\ ledger' = [ledger EXCEPT !.child = "resuming"]
    /\ writers' = writers \cup {ledger.published}
    /\ UNCHANGED <<trace, access, watcher>>

EndApproved ==
    /\ ledger.child = "resuming"
    /\ \E status \in Decided : ledger' = [ledger EXCEPT !.child = status]
    /\ writers' = writers \ {ledger.published}
    /\ UNCHANGED <<trace, access, watcher>>

(* sync_published_approval *)
Synced ==
    IF ledger.status = "waiting_approval" /\ ledger.child \in Decided
    THEN [ledger EXCEPT !.status = ledger.child] ELSE ledger

SyncApproval ==
    /\ ledger' = Synced /\ ledger' # ledger
    /\ UNCHANGED <<trace, writers, access, watcher>>

Revoke ==
    /\ access /\ access' = FALSE
    /\ UNCHANGED <<ledger, trace, writers, watcher>>

-----------------------------------------------------------------------------
(* A client connects, naming the last event it holds, if any. *)
Watch(w) ==
    /\ watcher[w].pc \in {"out", "cut"} /\ access
    /\ \E from \in {0, watcher[w].cursor} :
         watcher' = [watcher EXCEPT ![w] = [pc |-> "watching", from |-> from, cursor |-> from,
                                            shown |-> 0, sent |-> <<>>]]
    /\ UNCHANGED <<ledger, trace, writers, access>>

CutWatch(w) ==
    /\ watcher[w].pc = "watching"
    /\ watcher' = [watcher EXCEPT ![w].pc = "cut"]
    /\ UNCHANGED <<ledger, trace, writers, access>>

(* Mutant: any attempt that still runs is shown. *)
ShownStale(job) ==
    IF job.status = "running" /\ writers # {}
    THEN LET a == CHOOSE a \in writers : \A b \in writers : a <= b IN <<a, a>>
    ELSE <<job.published, job.published>>

(* The attempt number that is announced and the run whose events are shown *)
(* (0 for None): the leased attempt, else the published one.               *)
Shown(job) ==
    IF job.status = "running" /\ job.leased
    THEN <<job.attempts, IF job.started THEN job.attempts ELSE 0>>
    ELSE <<job.published, job.published>>

Line(kind, attempt, id) == [kind |-> kind, attempt |-> attempt, id |-> id]

NewIds(w, run) == {i \in (watcher[w].cursor + 1)..Len(trace) : trace[i] = run}

(* order_by(id): each of the ids once, the smaller before the larger one. *)
InOrder(ids) ==
    {s \in [1..Cardinality(ids) -> ids] :
        /\ \A i, j \in 1..Cardinality(ids) : i < j => s[i] < s[j]
        /\ \A id \in ids : \E i \in 1..Cardinality(ids) : s[i] = id}

(* One round: repair, announce a change of attempt, send the new events,   *)
(* end with a settled job.                                                 *)
PollJob(w) ==
    LET job == Synced
        number == Shown(job)[1]
        sent == watcher[w].sent
        marked == IF number = watcher[w].shown THEN sent
                  ELSE Append(sent, Line("attempt", number, 0))
        settled == job.status \in Settled
    IN  /\ access
        /\ ledger' = job
        /\ \E ids \in InOrder(NewIds(w, Shown(job)[2])) :
             LET told == marked \o [i \in 1..Len(ids) |-> Line("progress", trace[ids[i]], ids[i])]
             IN  watcher' = [watcher EXCEPT ![w] =
                   [pc |-> IF settled THEN "ended" ELSE "watching",
                    from |-> watcher[w].from,
                    cursor |-> IF ids = <<>> THEN watcher[w].cursor ELSE ids[Len(ids)],
                    shown |-> number,
                    sent |-> IF settled THEN Append(told, Line(job.status, 0, 0)) ELSE told]]

PollRevoked(w) ==
    /\ ~access
    /\ watcher' = [watcher EXCEPT ![w] =
          [pc |-> "ended", from |-> watcher[w].from, cursor |-> watcher[w].cursor,
           shown |-> watcher[w].shown,
           sent |-> Append(watcher[w].sent, Line("ACCESS_REVOKED", 0, 0))]]
    /\ UNCHANGED ledger

Poll(w) ==
    /\ watcher[w].pc = "watching"
    /\ PollJob(w) \/ PollRevoked(w)
    /\ UNCHANGED <<trace, writers, access>>

Ledger ==
    \/ ClaimJob \/ FailExpired \/ LoseLease \/ StartAttempt \/ PublishAttempt
    \/ ResumeApproved \/ EndApproved \/ SyncApproval
    \/ \E a \in 1..MaxAttempts : RecordEvent(a) \/ StopWriter(a)

WatchNext == Ledger \/ Revoke \/ \E w \in Watchers : Watch(w) \/ CutWatch(w) \/ Poll(w)

WatchSpec == WatchInit /\ [][WatchNext]_watchVars

-----------------------------------------------------------------------------
(* Properties *)

WatchTypeOK ==
    /\ ledger \in [status: Settled \cup {"queued", "running"}, attempts: 0..MaxAttempts,
                   leased: BOOLEAN, started: BOOLEAN, published: 0..MaxAttempts,
                   child: Settled \cup {"none", "resuming"}]
    /\ trace \in Seq(1..MaxAttempts) /\ Len(trace) <= MaxTrace
    /\ writers \subseteq 1..MaxAttempts /\ access \in BOOLEAN
    /\ DOMAIN watcher = Watchers
    /\ \A w \in Watchers :
         /\ watcher[w].pc \in {"out", "watching", "cut", "ended"}
         /\ {watcher[w].from, watcher[w].cursor} \subseteq 0..MaxTrace

Sent(w, kind) == {l \in ToSet(watcher[w].sent) : l.kind = kind}

(* A client that clears its view at each "attempt" line (the Console does) *)
(* holds the events of one attempt only: every progress line belongs to    *)
(* the attempt announced last.                                             *)
UnderOwnAttempt(w) ==
    LET lines == watcher[w].sent IN
    \A i \in 1..Len(lines) : lines[i].kind = "progress" =>
        \E j \in 1..(i - 1) :
            /\ lines[j].kind = "attempt" /\ lines[j].attempt = lines[i].attempt
            /\ \A k \in j..i : k # j => lines[k].kind # "attempt"

(* A stream that ends with a decided task has shown its whole published    *)
(* trace, although the cursor passed over ids of other attempts.           *)
PublishedToldWhole(w) ==
    Sent(w, "completed") \cup Sent(w, "failed") # {} =>
        \A i \in 1..Len(trace) : trace[i] = ledger.published /\ i > watcher[w].from =>
            \E l \in Sent(w, "progress") : l.id = i

(* A watcher is shown each attempt's progress as that attempt's, and in    *)
(* the end all of the published one.                                       *)
ProgressIsFaithful ==
    WatchTypeOK /\ \A w \in Watchers : UnderOwnAttempt(w) /\ PublishedToldWhole(w)
=============================================================================
