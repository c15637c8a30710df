----------------------------- MODULE Investigation -----------------------------
(***************************************************************************)
(* The multi-agent investigation of one run: execute_multi_agent_run of    *)
(* multi_agent_service.py, its parallel branches investigate_service and   *)
(* their shared ToolBudget (multi_agent_runtime.py), and the model calls   *)
(* of diagnostic_agents.py.                                                *)
(*                                                                         *)
(* Branch s investigates service s in a thread of the pool; branch 0 is    *)
(* the follow-up the supervisor runs itself.  What tools return and what   *)
(* models answer is open.  The options are those of the product: follow-up,*)
(* retry and verifier enabled.                                             *)
(***************************************************************************)
EXTENDS Integers, FiniteSets

CONSTANTS
    ServiceCount,     \* planned services
    MaxWorkers,       \* threads of the pool
    MaxToolAttempts,  \* limit of the budget all branches share
    MaxAgentAttempts, \* limit of each service, follow-up included
    AgentModes        \* may diagnostic models be configured, may they be missing?

ASSUME ServicesAssumption == ServiceCount \in Nat \ {0}
ASSUME LimitsAssumption ==
    /\ MaxWorkers \in Nat \ {0}
    /\ MaxToolAttempts \in Nat /\ MaxAgentAttempts \in Nat
    /\ AgentModes \subseteq BOOLEAN

VARIABLES
    agents,  \* are diagnostic models configured?
    branch,  \* what each branch owns: its task, steps and place in the code
    budget,  \* ToolBudget.used
    models,  \* used of the model budget
    stop,    \* stop_event
    unsent,  \* branches with events in the progress queue
    parent,  \* where the supervisor is
    pending, \* futures the supervisor still waits for
    done,    \* futures the last wait() returned
    fatal,   \* did a future raise?
    target   \* the service of the follow-up, 0 for none

vars == <<agents, branch, budget, models, stop, unsent, parent, pending, done, fatal, target>>

-----------------------------------------------------------------------------
Services == 1..ServiceCount  \* in plan order
Followup == 0
Branches == Services \cup {Followup}
Tools == {"query_error_logs", "search_tickets", "search_knowledge"}
ModelLimit == MaxAgentAttempts * ServiceCount + 1

BranchRecords ==
    [pc: {"queued", "choosing", "claiming", "calling", "observed", "finished", "raised"},
     tool: Tools \cup {"none"}, used: SUBSET Tools, attempts: Nat, tries: 0..2,
     result: {"none", "data", "empty", "failed"}, gap: BOOLEAN, evidence: BOOLEAN,
     timedOut: BOOLEAN]

NewBranch ==
    [pc |-> "queued", tool |-> "query_error_logs", used |-> {}, attempts |-> 0,
     tries |-> 0, result |-> "none", gap |-> FALSE, evidence |-> FALSE,
     timedOut |-> FALSE]

(* What the supervisor gets from a branch, and nothing of its working state. *)
Outcome(task, end) ==
    [NewBranch EXCEPT !.pc = end, !.tool = "none", !.attempts = task.attempts,
                      !.gap = task.gap, !.evidence = task.evidence]

Ended(b) == branch[b].pc \in {"finished", "raised"}
Active(b) == branch[b].pc # "queued" /\ ~Ended(b)

Init ==
    /\ agents \in AgentModes
    /\ branch = [b \in Branches |-> NewBranch]
    /\ budget = 0 /\ models = 0
    /\ stop = FALSE
    /\ unsent = {}
    /\ parent = "waiting" /\ pending = Services /\ done = {}
    /\ fatal = FALSE /\ target = Followup

(* Mutant: the follow-up gets a full share of its own. *)
FollowupLimitFresh == MaxAgentAttempts

FollowupLimit == MaxAgentAttempts - branch[target].attempts

LocalLimit(b) == IF b = Followup THEN FollowupLimit ELSE MaxAgentAttempts

(* What a look at the clock may say: the deadline, the earlier of the task's *)
(* and the run's, does not go away once it was seen to have passed.          *)
TimeUp(b) == {up \in BOOLEAN : branch[b].timedOut => up}

(* The events of a branch go to the progress queue; the follow-up has none. *)
Emit(b) == unsent' = unsent \cup ({b} \ {Followup})

-----------------------------------------------------------------------------
(* investigate_service *)

(* A worker of the pool takes the next submitted service. *)
Begin(b) ==
    /\ branch[b].pc = "queued"
    /\ IF b = Followup THEN parent = "following"
       ELSE /\ \A s \in Services : s < b => branch[s].pc # "queued"
            /\ Cardinality({s \in Services : Active(s)}) < MaxWorkers
    /\ branch' = [branch EXCEPT ![b].pc = "choosing"]
    /\ Emit(b)
    /\ UNCHANGED <<agents, budget, models, stop, parent, pending, done, fatal, target>>

(* The outer loop: select the next tool, or finish.  Once a branch has     *)
(* finished only its outcome is left.                                      *)
Choose(b) ==
    LET task == branch[b]
        more == task.tool # "none" /\ task.attempts < LocalLimit(b)
    IN /\ task.pc = "choosing"
       /\ \E up \in TimeUp(b) :
            branch' = [branch EXCEPT ![b] =
                IF more /\ ~stop /\ ~up
                THEN [task EXCEPT !.pc = "claiming", !.used = task.used \cup {task.tool}]
                ELSE Outcome(task, "finished")]
       /\ Emit(b)
       /\ UNCHANGED <<agents, budget, models, stop, parent, pending, done, fatal, target>>

Observed(task, result) ==
    [task EXCEPT !.pc = "observed", !.result = result, !.tries = 0]

(* Mutant: the budget counts but does not refuse. *)
BudgetLeftAlways == TRUE

BudgetLeft == budget < MaxToolAttempts

(* The inner loop: one more attempt of the selected tool, or give it up. *)
Claim(b) ==
    LET task == branch[b]
        left == task.attempts < LocalLimit(b) /\ BudgetLeft
    IN /\ task.pc = "claiming"
       /\ \E up \in TimeUp(b) :
            IF ~stop /\ ~up /\ left
            THEN /\ budget' = budget + 1
                 /\ branch' = [branch EXCEPT ![b] =
                        [task EXCEPT !.pc = "calling", !.attempts = task.attempts + 1,
                                     !.tries = task.tries + 1]]
            ELSE /\ budget' = budget
                 /\ branch' = [branch EXCEPT ![b] =
                        [Observed(task, "failed") EXCEPT !.tool = "none", !.timedOut = up]]
       /\ UNCHANGED <<agents, models, stop, unsent, parent, pending, done, fatal, target>>

(* Records arrived, perhaps none; an empty first look at the logs is a gap. *)
ToolSucceeds(b) ==
    LET task == branch[b]
    IN /\ task.pc = "calling"
       /\ \E result \in {"data", "empty"} :
            branch' = [branch EXCEPT ![b] =
                [Observed(task, result) EXCEPT !.evidence = TRUE,
                          !.gap = \/ task.gap
                                  \/ /\ b # Followup /\ result = "empty"
                                     /\ task.tool = "query_error_logs"]]
       /\ Emit(b)
       /\ UNCHANGED <<agents, budget, models, stop, parent, pending, done, fatal, target>>

(* Mutant: tried again for as long as attempts are left. *)
RetriableAlways(task, b) == task.attempts < LocalLimit(b)

(* A confirmed connection failure is tried once more. *)
Retriable(task, b) == task.tries = 1 /\ task.attempts < LocalLimit(b)

ConnectionFails(b) ==
    LET task == branch[b]
    IN /\ task.pc = "calling"
       /\ branch' = [branch EXCEPT ![b] =
            IF Retriable(task, b) THEN [task EXCEPT !.pc = "claiming"]
            ELSE Observed(task, "failed")]
       /\ Emit(b)
       /\ UNCHANGED <<agents, budget, models, stop, parent, pending, done, fatal, target>>

(* Any other refused or failed call, a timeout, or records out of scope. *)
ToolFails(b) ==
    /\ branch[b].pc = "calling"
    /\ branch' = [branch EXCEPT ![b] = Observed(branch[b], "failed")]
    /\ Emit(b)
    /\ UNCHANGED <<agents, budget, models, stop, parent, pending, done, fatal, target>>

(* A database error, or an output that breaks its schema, escapes. *)
ToolRaises(b) ==
    /\ branch[b].pc = "calling"
    /\ branch' = [branch EXCEPT ![b] = Outcome(branch[b], "raised")]
    /\ UNCHANGED <<agents, budget, models, stop, unsent, parent, pending, done, fatal, target>>

(* The rule that follows a step, also when the model gave no decision. *)
NextTool(task, b) ==
    IF b = Followup THEN "none"
    ELSE IF task.tool = "query_error_logs" THEN "search_tickets"
    ELSE IF task.tool = "search_tickets" /\ task.result # "data" THEN "search_knowledge"
    ELSE "none"

Reserve(b) == b # Followup /\ branch[b].gap

(* The tool attempts offered to the model. *)
Remaining(b) ==
    LET own == LocalLimit(b) - branch[b].attempts
        shared == MaxToolAttempts - budget
        least == IF own <= shared THEN own ELSE shared
    IN IF b = Followup THEN 0
       ELSE IF Reserve(b) THEN IF least > 0 THEN least - 1 ELSE 0 ELSE least

Selected(task, tool) ==
    [task EXCEPT !.pc = "choosing", !.tool = tool, !.result = "none"]

Advance(b) ==
    /\ branch[b].pc = "observed" /\ ~agents
    /\ branch' = [branch EXCEPT ![b] =
            Selected(branch[b], NextTool(branch[b], b))]
    /\ UNCHANGED <<agents, budget, models, stop, unsent, parent, pending, done, fatal, target>>

(* The model proposes a tool it has not used, while attempts remain. *)
Decide(b) ==
    /\ branch[b].pc = "observed" /\ agents
    /\ models < ModelLimit /\ models' = models + 1
    /\ \E tool \in {"none"} \cup {t \in Tools \ {"query_error_logs"} :
                                    Remaining(b) > 0 /\ t \notin branch[b].used} :
        branch' = [branch EXCEPT ![b] = Selected(branch[b], tool)]
    /\ Emit(b)
    /\ UNCHANGED <<agents, budget, stop, parent, pending, done, fatal, target>>

(* No model call left, or the call or its answer is unusable. *)
DecideFails(b) ==
    /\ branch[b].pc = "observed" /\ agents
    /\ models' = IF models < ModelLimit THEN models + 1 ELSE models
    /\ branch' = [branch EXCEPT ![b] =
            Selected(branch[b], IF Reserve(b) /\ Remaining(b) = 0 THEN "none"
                                ELSE NextTool(branch[b], b))]
    /\ Emit(b)
    /\ UNCHANGED <<agents, budget, stop, parent, pending, done, fatal, target>>

BranchStep(b) ==
    \/ Begin(b) \/ Choose(b) \/ Claim(b) \/ Advance(b) \/ Decide(b) \/ DecideFails(b)
    \/ ToolSucceeds(b) \/ ConnectionFails(b) \/ ToolFails(b) \/ ToolRaises(b)

-----------------------------------------------------------------------------
(* execute_multi_agent_run: the loop around wait() with its 0.2 s timeout *)

Wait ==  \* a round that finds neither results nor events changes nothing
    /\ parent = "waiting"
    /\ unsent # {} \/ \E s \in pending : Ended(s)
    /\ done' = {s \in pending : Ended(s)}
    /\ parent' = "draining"
    /\ UNCHANGED <<agents, branch, budget, models, stop, unsent, pending, fatal, target>>

Drain ==
    /\ parent = "draining"
    /\ unsent' = {}
    /\ parent' = "collecting"
    /\ UNCHANGED <<agents, branch, budget, models, stop, pending, done, fatal, target>>

(* The trace transaction fails: the exception leaves the pool's context    *)
(* manager, which waits for every branch without telling it to stop.       *)
DrainFails ==
    /\ parent = "draining" /\ unsent # {}
    /\ parent' = "aborting"
    /\ UNCHANGED <<agents, branch, budget, models, stop, unsent, pending, done, fatal, target>>

Abort ==
    /\ parent = "aborting" /\ \A s \in Services : Ended(s)
    /\ parent' = "failed"
    /\ UNCHANGED <<agents, branch, budget, models, stop, unsent, pending, done, fatal, target>>

(* Mutant: every future that has ended by now is collected. *)
ReadyNow == {s \in pending : Ended(s)}

(* Mutant: a future that raised is waited for again. *)
ReadyFinished == {s \in done : branch[s].pc = "finished"}

Ready == done

(* Mutant: a branch that raised counts as one without a result. *)
RaisedIgnored == {}

Raised == {s \in Ready : branch[s].pc = "raised"}

Collect ==
    /\ parent = "collecting"
    /\ pending' = pending \ Ready
    /\ fatal' = (fatal \/ Raised # {})
    /\ stop' = (stop \/ Raised # {})
    /\ parent' = IF pending' # {} THEN "waiting" ELSE IF fatal' THEN "failed" ELSE "merging"
    /\ done' = {}
    /\ UNCHANGED <<agents, branch, budget, models, unsent, target>>

(* _followup_candidate *)
Candidates == {s \in Services : branch[s].gap /\ branch[s].attempts < MaxAgentAttempts}

Merge ==
    /\ parent = "merging"
    /\ \/ /\ budget < MaxToolAttempts /\ Candidates # {}
          /\ \E s \in Candidates : (\A t \in Candidates : s <= t) /\ target' = s
          /\ parent' = "following"
       \/ parent' = "verifying" /\ UNCHANGED target  \* also when the run is late
    /\ UNCHANGED <<agents, branch, budget, models, stop, unsent, pending, done, fatal>>

MergeFollowup ==
    /\ parent = "following" /\ Ended(Followup)
    /\ parent' = IF branch[Followup].pc = "raised" THEN "failed" ELSE "verifying"
    /\ UNCHANGED <<agents, branch, budget, models, stop, unsent, pending, done, fatal, target>>

Verdict == IF \E b \in Branches : branch[b].evidence THEN "completed" ELSE "failed"

(* Without claims to review, or without models, no model call is made; a   *)
(* verifier that fails still lets the run finish.                          *)
Verify ==
    /\ parent = "verifying"
    /\ \/ models' = models
       \/ agents /\ models < ModelLimit /\ models' = models + 1
    /\ parent' = Verdict
    /\ UNCHANGED <<agents, branch, budget, stop, unsent, pending, done, fatal, target>>

(* Any other exception of the supervisor itself: the run is closed as failed. *)
SupervisorFails ==
    /\ parent \in {"merging", "verifying"}
    /\ parent' = "failed"
    /\ UNCHANGED <<agents, branch, budget, models, stop, unsent, pending, done, fatal, target>>

SupervisorStep ==
    \/ Wait \/ Drain \/ DrainFails \/ Abort \/ Collect
    \/ Merge \/ MergeFollowup \/ Verify \/ SupervisorFails

-----------------------------------------------------------------------------
Over == parent \in {"completed", "failed"} /\ UNCHANGED vars

Step == SupervisorStep \/ \E b \in Branches : BranchStep(b)

Next == Step \/ Over

Spec == Init /\ [][Next]_vars

(* As long as some thread can go on, one does: every tool and model call   *)
(* has a timeout of its own.  Nothing is assumed of which thread it is.    *)
FairSpec == Spec /\ WF_vars(Step)

-----------------------------------------------------------------------------
(* Properties *)

TypeOK ==
    /\ agents \in AgentModes /\ branch \in [Branches -> BranchRecords]
    /\ budget \in Nat /\ models \in 0..ModelLimit
    /\ stop \in BOOLEAN /\ fatal \in BOOLEAN
    /\ unsent \subseteq Services /\ pending \subseteq Services /\ done \subseteq pending
    /\ parent \in {"waiting", "draining", "collecting", "aborting", "merging",
                   "following", "verifying", "completed", "failed"}
    /\ target \in Branches

(* README: a service gets its attempts once, retries and follow-up included. *)
ServiceAttempts(s) ==
    branch[s].attempts + (IF s = target THEN branch[Followup].attempts ELSE 0)

(* The attempts of all branches, each by its number in its branch. *)
CallsMade == UNION {{b} \X (1..branch[b].attempts) : b \in Branches}

(* No service makes more calls than its own attempts, and the branches     *)
(* together no more than the shared budget grants, whatever they do at the *)
(* same moment; the counter says how many were made, because what is left  *)
(* of it decides about the follow-up.                                      *)
AttemptsAreBounded ==
    /\ \A s \in Services : ServiceAttempts(s) <= MaxAgentAttempts
    /\ Cardinality(CallsMade) <= MaxToolAttempts /\ budget = Cardinality(CallsMade)

(* README: 3 x services + 1 model calls: the last one is the verifier's, so *)
(* when the verifier's turn comes a call is left for it.                    *)
VerifierHasCall == agents /\ parent = "verifying" => models < ModelLimit

(* The shared budgets hold, whatever the branches do at the same moment.   *)
BudgetIsKept == TypeOK /\ AttemptsAreBounded /\ VerifierHasCall

(* No event of a parallel branch is lost on its way to the trace: when the *)
(* results are merged, the progress queue is empty.                        *)
EventsAreTraced ==
    parent \in {"merging", "following", "verifying", "completed"} => unsent = {}

(* A run in which a branch broke is never reported as completed, even if   *)
(* other branches found evidence.                                          *)
FaultFailsRun ==
    parent = "completed" => \A b \in Branches : branch[b].pc # "raised"

(* Nothing of a branch gets lost: not its events, not its failure. *)
NothingIsLost == EventsAreTraced /\ FaultFailsRun

(* README: when the first window is empty, an attempt is kept for the      *)
(* supervisor's one query of a wider window.                               *)
FollowupReserved ==
    parent = "merging" =>
        \A s \in Services : branch[s].gap => branch[s].attempts < MaxAgentAttempts

(* Every investigation ends. *)
InvestigationEnds == <>(parent \in {"completed", "failed"})
=============================================================================
