------------------------------ MODULE Submission ------------------------------
(***************************************************************************)
(* How a durable task comes into being: an HTTP submission with an         *)
(* idempotency key (agent_router.py) or a delivered alert                  *)
(* (alert_service.py) creates the public run, the job and, for an alert,   *)
(* its incident in one transaction, or is answered with the run an earlier *)
(* submission created.  Unique indexes decide between submissions that     *)
(* arrive together: an insert waits while another open transaction holds   *)
(* its key and fails once that has committed.                              *)
(*                                                                         *)
(* Requests are those that pass validation and permission checks; all      *)
(* members belong to one team.                                             *)
(***************************************************************************)
EXTENDS Naturals, FiniteSets

CONSTANTS
    Requests,   \* HTTP requests, each with what it asks for
    Members,
    Keys,       \* idempotency keys; (source, event_id) of alerts
    Bodies,     \* what the request digest tells apart
    MaxSends    \* how often a client sends one request

ASSUME SendsAssumption == MaxSends \in Nat \ {0}

VARIABLES
    runs,      \* committed agent_runs
    jobs,      \* committed durable_jobs
    incidents, \* committed incident_submissions
    req,       \* what a request asks, and where its handler is
    lastRun    \* auto-increment of agent_runs

vars == <<runs, jobs, incidents, req, lastRun>>

-----------------------------------------------------------------------------
Kinds == {"task", "alert"}
Contents == [kind: Kinds, member: Members, key: Keys, body: Bodies]

(* uq_job_submission: the creator's key; an alert's key is digested apart. *)
JobKey(c) == <<c.kind, c.member, c.key>>

Open == {"looking", "preparing", "adding", "added", "committing", "lost"}
Answers == {"accepted", "conflict", "error"}

Init ==
    /\ runs = {} /\ jobs = {} /\ incidents = {} /\ lastRun = 0
    /\ \E asked \in [Requests -> Contents] :
         req = [r \in Requests |-> [pc |-> "unsent", asks |-> asked[r], run |-> 0, sends |-> 0]]

Asks(r) == req[r].asks

(* The rows an existing submission may be found by: find_submission for a  *)
(* task, existing() for an alert.                                          *)
Existing(r) ==
    IF Asks(r).kind = "task" THEN {j \in jobs : JobKey(j.asks) = JobKey(Asks(r))}
    ELSE {i \in incidents : i.event = Asks(r).key}

(* Mutant: a key that was used before is accepted for any content. *)
SameBodyUnchecked(hit, r) == TRUE

SameBody(hit, r) == hit.body = Asks(r).body

At(r, pc) == req[r].pc = pc
Goto(r, pc) == req' = [req EXCEPT ![r].pc = pc]

(* What is answered from the rows found. *)
Reply(r, found) ==
    \E hit \in found :
        req' = [req EXCEPT ![r].pc = IF SameBody(hit, r) THEN "accepted" ELSE "conflict",
                           ![r].run = IF SameBody(hit, r) THEN hit.run ELSE 0]

-----------------------------------------------------------------------------
(* A client sends, or sends again because no answer reached it. *)
Send(r) ==
    /\ At(r, "unsent") \/ req[r].pc \in Answers
    /\ req[r].sends < MaxSends
    /\ req' = [req EXCEPT ![r].pc = "looking", ![r].run = 0, ![r].sends = @ + 1]
    /\ UNCHANGED <<runs, jobs, incidents, lastRun>>

Look(r) ==
    /\ At(r, "looking")
    /\ \/ Reply(r, Existing(r))
       \/ Existing(r) = {} /\ Goto(r, "preparing")
    /\ UNCHANGED <<runs, jobs, incidents, lastRun>>

(* Mutant: prepare_agent_run commits, as it does for in-process runs. *)
PrepareCommits(r) ==
    /\ At(r, "preparing")
    /\ lastRun' = lastRun + 1
    /\ runs' = runs \cup {lastRun'}
    /\ req' = [req EXCEPT ![r].pc = "adding", ![r].run = lastRun']
    /\ UNCHANGED <<jobs, incidents>>

(* Mutant: the run's id is read before the flush that draws it. *)
PrepareUnflushed(r) ==
    /\ At(r, "preparing")
    /\ lastRun' = lastRun + 1
    /\ req' = [req EXCEPT ![r].pc = "adding"]
    /\ UNCHANGED <<runs, jobs, incidents>>

(* prepare_agent_run(commit=False): the run exists in this transaction only. *)
Prepare(r) ==
    /\ At(r, "preparing")
    /\ lastRun' = lastRun + 1
    /\ req' = [req EXCEPT ![r].pc = "adding", ![r].run = lastRun']
    /\ UNCHANGED <<runs, jobs, incidents>>

(* Mutant: a failed transaction is never rolled back. *)
HoldsJobAfterError(r) == req[r].pc \in {"added", "committing", "error"}

(* An open transaction has inserted its job, its incident. *)
HoldsJob(r) == req[r].pc \in {"added", "committing"}

HoldsIncident(r) == At(r, "committing") /\ Asks(r).kind = "alert"

Rival(r) == Requests \ {r}

(* add_job, with the IntegrityError of its unique key. *)
AddJob(r) ==
    /\ At(r, "adding")
    /\ ~\E q \in Rival(r) : HoldsJob(q) /\ JobKey(Asks(q)) = JobKey(Asks(r))
    /\ IF \E j \in jobs : JobKey(j.asks) = JobKey(Asks(r)) THEN Goto(r, "lost")
       ELSE Goto(r, IF Asks(r).kind = "alert" THEN "added" ELSE "committing")
    /\ UNCHANGED <<runs, jobs, incidents, lastRun>>

(* Mutant: the event is unique for one member only. *)
EventTakenByMember(r) ==
    \E i \in incidents, j \in jobs :
        i.run = j.run /\ i.event = Asks(r).key /\ j.asks.member = Asks(r).member

EventTaken(r) == \E i \in incidents : i.event = Asks(r).key

AddIncident(r) ==
    /\ At(r, "added")
    /\ ~\E q \in Rival(r) : HoldsIncident(q) /\ Asks(q).key = Asks(r).key
    /\ Goto(r, IF EventTaken(r) THEN "lost" ELSE "committing")
    /\ UNCHANGED <<runs, jobs, incidents, lastRun>>

Commit(r) ==
    /\ At(r, "committing")
    /\ runs' = runs \cup {req[r].run}
    /\ jobs' = jobs \cup {[run |-> req[r].run, asks |-> Asks(r), body |-> Asks(r).body]}
    /\ incidents' = IF Asks(r).kind = "task" THEN incidents ELSE incidents \cup
            {[run |-> req[r].run, event |-> Asks(r).key, body |-> Asks(r).body]}
    /\ Goto(r, "accepted")
    /\ UNCHANGED lastRun

(* Mutant: read again without a rollback, in the old snapshot, in which no *)
(* such row existed.                                                       *)
ExistingInSnapshot(r) == {}

ExistingAfterRollback(r) == Existing(r)

(* The IntegrityError was rolled back: answer with the winner's run, or    *)
(* raise if there is none.                                                 *)
Relook(r) ==
    /\ At(r, "lost")
    /\ \/ Reply(r, ExistingAfterRollback(r))
       \/ ExistingAfterRollback(r) = {} /\ req' = [req EXCEPT ![r].pc = "error", ![r].run = 0]
    /\ UNCHANGED <<runs, jobs, incidents, lastRun>>

(* The process dies or loses its connection: the transaction is rolled back. *)
Fail(r) ==
    /\ req[r].pc \in Open
    /\ req' = [req EXCEPT ![r].pc = "error", ![r].run = 0]
    /\ UNCHANGED <<runs, jobs, incidents, lastRun>>

Handle(r) ==
    \/ Look(r) \/ Prepare(r) \/ AddJob(r) \/ AddIncident(r) \/ Commit(r) \/ Relook(r)

Idle == (\A r \in Requests : req[r].pc \in Answers \cup {"unsent"}) /\ UNCHANGED vars

Next == (\E r \in Requests : Send(r) \/ Handle(r) \/ Fail(r)) \/ Idle

Spec == Init /\ [][Next]_vars

(* A handler that has begun runs on. *)
HandlersRun == \A r \in Requests : WF_vars(Handle(r))

FairSpec == Spec /\ HandlersRun

-----------------------------------------------------------------------------
(* Properties *)

TypeOK ==
    /\ runs \subseteq 1..lastRun /\ lastRun \in Nat
    /\ jobs \subseteq [run: 1..lastRun, asks: Contents, body: Bodies]
    /\ incidents \subseteq [run: 1..lastRun, event: Keys, body: Bodies]
    /\ req \in [Requests -> [pc: Open \cup Answers \cup {"unsent"}, asks: Contents,
                             run: 0..lastRun, sends: 0..MaxSends]]

Accepted(r) == At(r, "accepted")

(* Do two requests name the same submission?  A task by its creator's key, *)
(* an alert by its event, whoever delivered it.                            *)
SameSubmission(c, d) ==
    /\ c.kind = d.kind /\ c.key = d.key
    /\ c.kind = "task" => c.member = d.member

(* alert_service.py: "Deduplicate events across team members"; the router: *)
(* one run for one key.  However often and by whomever a submission is     *)
(* sent, all answers name one run, made for exactly that content.          *)
OneRunPerSubmission ==
    \A r, q \in Requests :
        Accepted(r) /\ Accepted(q) /\ SameSubmission(Asks(r), Asks(q)) =>
            req[r].run = req[q].run /\ Asks(r).body = Asks(q).body

(* Run, job and incident appear together: no public run without a job that *)
(* a worker can claim, no job for two runs, no alert task without its      *)
(* provenance.                                                             *)
RowsTogether ==
    /\ \A n \in runs : \E j \in jobs : j.run = n
    /\ \A j, k \in jobs : j.run = k.run \/ JobKey(j.asks) = JobKey(k.asks) => j = k
    /\ \A j \in jobs :
        /\ j.run \in runs
        /\ j.asks.kind = "alert" <=> \E i \in incidents : i.run = j.run /\ i.event = j.asks.key
    /\ \A i, k \in incidents : i.run = k.run \/ i.event = k.event => i = k

(* A submission is one run, one job and, for an alert, one incident,       *)
(* whatever meets it: repetitions, races, failed transactions.             *)
SubmissionIsWhole == TypeOK /\ OneRunPerSubmission /\ RowsTogether

(* The loser of a race is never answered with a server error: when it      *)
(* reads again, the row that beat it is there.                             *)
LoserIsAnswered ==
    [][\A r \in Requests : At(r, "lost") /\ Relook(r) => req'[r].pc # "error"]_vars

(* Every request that was received is answered, whatever it waits for. *)
EveryRequestAnswered ==
    \A r \in Requests : req[r].pc \in Open ~> req[r].pc \in Answers

(* Every request gets an answer, and the loser of a race a useful one.     *)
RequestsAreAnswered == LoserIsAnswered /\ EveryRequestAnswered
=============================================================================
