------------------------------- MODULE Diagnosis -------------------------------
(***************************************************************************)
(* What a multi-agent run concludes and what its history shows afterwards: *)
(* the observations of the branches (multi_agent_runtime.py), their merge, *)
(* the review of the claims by a model or by rules (diagnostic_agents.py,  *)
(* evidence_verifier.py), the result (multi_agent_service.py), and the     *)
(* saved run as it is opened again (run_history_service.py).               *)
(*                                                                         *)
(* Investigation is about the threads; here a branch's whole call is one   *)
(* step and the log of tool calls, in the order of their commits, is kept. *)
(* A record of a tool is the number of the call that read it.  A claim is  *)
(* what it cites: its words, and the numbers in them, are the verdict's.   *)
(***************************************************************************)
EXTENDS Integers, FiniteSets, Sequences

CONSTANTS
    PlanLength,  \* planned services
    CallLimit,   \* calls of the whole run
    TaskLimit,   \* calls about one service, follow-up included
    Reasoning    \* may diagnostic models be configured, may they be missing?

(* MAX_AGENT_ATTEMPTS is 3: with no more attempts a service's task uses no *)
(* tool twice, so that the tool stands for the step in an evidence id.     *)
ASSUME DiagnosisAssumption ==
    PlanLength \in Nat \ {0} /\ CallLimit \in Nat /\ TaskLimit \in 0..3 /\ Reasoning \subseteq BOOLEAN

VARIABLES
    reasons,   \* are diagnostic models configured?
    calls,     \* ToolCallLog: every call that ended
    tasks,     \* what each branch keeps for itself until it ends
    stage,     \* where the supervisor is
    target,    \* the service of the follow-up, 0 for none
    evidence,  \* the merged evidence, in steps
    trace,     \* saved events: tool_completed, and results_merged when there is one
    report,    \* VerifierReport
    answer     \* AgentResult

diagnosisVars == <<reasons, calls, tasks, stage, target, evidence, trace, report, answer>>

-----------------------------------------------------------------------------
Planned == 1..PlanLength
Extra == 0  \* the follow-up
Investigators == Planned \cup {Extra}
Logs == "query_error_logs"
Tickets == "search_tickets"
Articles == "search_knowledge"

NewTask(pc) ==
    [pc |-> pc, tool |-> Logs, tries |-> 0, attempts |-> 0, used |-> {Logs}, seen |-> <<>>,
     error |-> FALSE, cut |-> FALSE, gap |-> FALSE, findings |-> {}]

Unset == [status |-> "none"]

DiagnosisInit ==
    /\ reasons \in Reasoning
    /\ calls = <<>>
    /\ tasks = [b \in Investigators |-> NewTask(IF b = Extra THEN "idle" ELSE "working")]
    /\ stage = "investigating" /\ target = Extra
    /\ evidence = <<>> /\ trace = [events |-> {}, merged |-> Unset]
    /\ report = Unset /\ answer = Unset

Subject(b) == IF b = Extra THEN target ELSE b

(* _tool_inputs: documents are asked for by a question, not by a service name. *)
Inputs(b, tool) ==
    [service_name |-> IF tool = Articles THEN 0 ELSE Subject(b),
     query |-> IF tool = Articles THEN Subject(b) ELSE 0,
     wide |-> tool = Logs /\ b = Extra]

LimitOf(b) == IF b = Extra THEN TaskLimit - tasks[target].attempts ELSE TaskLimit

-----------------------------------------------------------------------------
(* investigate_service *)

MayCall(b) ==
    /\ tasks[b].pc = "working" /\ tasks[b].tool # "none"
    /\ tasks[b].attempts < LimitOf(b) /\ Len(calls) < CallLimit

Called(b) == [tasks[b] EXCEPT !.attempts = @ + 1, !.tries = @ + 1]

Log(b, status, empty, scoped) ==
    calls' = Append(calls,
        [id |-> Len(calls) + 1, tool |-> tasks[b].tool, inputs |-> Inputs(b, tasks[b].tool),
         status |-> status, empty |-> empty, scoped |-> scoped])

(* A tool is used once in a task, so its name tells the step of the id. *)
Observation(b, empty) ==
    LET tool == tasks[b].tool
    IN [id |-> [task |-> b, tool |-> tool, attempt |-> tasks[b].tries + 1],
        agent |-> Subject(b), service |-> Subject(b), tool |-> tool,
        inputs |-> Inputs(b, tool), empty |-> empty, output |-> Len(calls) + 1]

NextLookup(b, task, dry) ==
    IF b = Extra THEN "none"
    ELSE IF task.tool = Logs THEN Tickets
    ELSE IF task.tool = Tickets /\ dry THEN Articles
    ELSE "none"

Least(i, j) == IF i <= j THEN i ELSE j

(* Attempts offered to the model; an empty first window keeps one back. *)
Offered(b, task, spent) ==
    LET left == Least(LimitOf(b) - task.attempts, CallLimit - spent)
    IN IF b = Extra THEN 0 ELSE IF task.gap /\ left > 0 THEN left - 1 ELSE left

IdsOf(seen) == {seen[i].id : i \in DOMAIN seen}

(* Mutant: what other services found may be cited too. *)
KnownAll(b, task) == IdsOf(task.seen) \cup UNION {IdsOf(tasks[t].seen) : t \in Planned}

(* What a branch may cite; the follow-up is handed its service's evidence. *)
Known(b, task) ==
    IdsOf(task.seen) \cup (IF b = Extra THEN IdsOf(tasks[target].seen) ELSE {})

(* No claim, or one about everything known or about one observation. *)
Proposals(b, task) ==
    LET known == Known(b, task)
        cites == {c \in {known} \cup {{id} : id \in known} : c # {}}
    IN {{}} \cup {{[by |-> b, kind |-> k, cites |-> c]} : k \in {"fact", "hypothesis"}, c \in cites}

Selected(task, tool) ==
    [task EXCEPT !.tool = tool, !.tries = 0, !.used = @ \cup ({tool} \ {"none"})]

(* What follows a call: a rule, a decision of the model, or the rule again *)
(* when the decision fails; the findings of an earlier decision stay.      *)
Moves(b, task, dry, spent) ==
    LET offered == Offered(b, task, spent)
        open == IF offered > 0 THEN {Tickets, Articles} \ task.used ELSE {}
        rule == NextLookup(b, task, dry)
    IN IF ~reasons THEN {Selected(task, rule)}
       ELSE {[Selected(task, tool) EXCEPT !.findings = found] :
                tool \in {"none"} \cup open, found \in Proposals(b, task)}
            \cup {[Selected(task, IF b # Extra /\ task.gap /\ offered = 0 THEN "none" ELSE rule)
                     EXCEPT !.error = TRUE]}

After(b, task, dry) ==
    \E next \in Moves(b, task, dry, Len(calls) + 1) : tasks' = [tasks EXCEPT ![b] = next]

Answered(b) ==
    /\ MayCall(b)
    /\ \E empty \in BOOLEAN :
        /\ Log(b, "completed", empty, TRUE)
        /\ After(b, [Called(b) EXCEPT !.seen = Append(@, Observation(b, empty)),
                                      !.gap = @ \/ (empty /\ b # Extra /\ tasks[b].tool = Logs)],
                 empty)
    /\ UNCHANGED <<reasons, stage, target, evidence, trace, report, answer>>

(* records_match_scope: the call was completed, but its records are not of *)
(* the service; documents have no service.                                 *)
OutOfScope(b) ==
    /\ MayCall(b) /\ tasks[b].tool # Articles
    /\ Log(b, "completed", FALSE, FALSE)
    /\ After(b, [Called(b) EXCEPT !.error = TRUE], TRUE)
    /\ UNCHANGED <<reasons, stage, target, evidence, trace, report, answer>>

CallFails(b) ==
    /\ MayCall(b)
    /\ Log(b, "failed", FALSE, TRUE)
    /\ After(b, [Called(b) EXCEPT !.error = TRUE], TRUE)
    /\ UNCHANGED <<reasons, stage, target, evidence, trace, report, answer>>

(* Only a connection that was never made is tried again, once. *)
NotConnected(b) ==
    /\ MayCall(b) /\ tasks[b].tries = 0 /\ Called(b).attempts < LimitOf(b)
    /\ Log(b, "failed", FALSE, TRUE)
    /\ tasks' = [tasks EXCEPT ![b] = Called(b)]
    /\ UNCHANGED <<reasons, stage, target, evidence, trace, report, answer>>

(* A limit is reached, the deadline passed or the run was stopped; inside  *)
(* the retry loop the model is asked once more, about nothing new.         *)
GiveUp(b) ==
    /\ tasks[b].pc = "working" /\ tasks[b].tool # "none"
    /\ \E last \in {tasks[b]} \cup Moves(b, tasks[b], TRUE, Len(calls)) :
        tasks' = [tasks EXCEPT ![b] = [last EXCEPT !.pc = "ended", !.tool = "none", !.cut = TRUE]]
    /\ UNCHANGED <<reasons, calls, stage, target, evidence, trace, report, answer>>

EndTask(b) ==
    /\ tasks[b].pc = "working" /\ tasks[b].tool = "none"
    /\ tasks' = [tasks EXCEPT ![b].pc = "ended"]
    /\ UNCHANGED <<reasons, calls, stage, target, evidence, trace, report, answer>>

(* Mutant: errors are listed, but only an early end makes a task partial. *)
TaskStatusByEnd(task) ==
    IF task.cut /\ task.seen # <<>> THEN "partial" ELSE IF task.seen # <<>> THEN "completed" ELSE "failed"

TaskStatus(task) ==
    IF (task.error \/ task.cut) /\ task.seen # <<>> THEN "partial"
    ELSE IF task.seen # <<>> THEN "completed" ELSE "failed"

-----------------------------------------------------------------------------
(* execute_multi_agent_run, after its branches ended *)

Event(obs) ==
    [id |-> obs.id, agent |-> obs.agent, tool |-> obs.tool, inputs |-> obs.inputs,
     empty |-> obs.empty]

EventsOf(seen) == {Event(seen[i]) : i \in DOMAIN seen}

(* _followup_candidate: the first service whose first window was empty. *)
FollowupOf(s) ==
    /\ Len(calls) < CallLimit
    /\ tasks[s].gap /\ tasks[s].attempts < TaskLimit
    /\ \A t \in Planned : tasks[t].gap /\ tasks[t].attempts < TaskLimit => s <= t

(* _merge_outcome, one result after the other: the observations of the     *)
(* branches in the order of the plan, each branch's in its own order.      *)
Found == {p \in Planned \X (1..TaskLimit) : p[2] \in DOMAIN tasks[p[1]].seen}
Before(p, q) == p[1] < q[1] \/ (p[1] = q[1] /\ p[2] < q[2])
Place(p) == Cardinality({q \in Found : Before(q, p)}) + 1

InPlanOrder ==
    [n \in 1..Cardinality(Found) |->
        LET p == CHOOSE p \in Found : Place(p) = n IN tasks[p[1]].seen[p[2]]]

MergeBranches ==
    /\ stage = "investigating" /\ \A s \in Planned : tasks[s].pc = "ended"
    /\ evidence' = InPlanOrder
    /\ trace' = [trace EXCEPT !.events = UNION {EventsOf(tasks[s].seen) : s \in Planned}]
    /\ \/ stage' = "reviewing" /\ UNCHANGED <<target, tasks>>  \* also when the run is late
       \/ /\ stage' = "following"
          /\ \E s \in Planned : FollowupOf(s) /\ target' = s
          /\ tasks' = [tasks EXCEPT ![Extra].pc = "working"]
    /\ UNCHANGED <<reasons, calls, report, answer>>

(* Mutant: the follow-up's events are not flushed. *)
MergeFollowupUntraced ==
    /\ stage = "following" /\ tasks[Extra].pc = "ended"
    /\ evidence' = evidence \o tasks[Extra].seen
    /\ stage' = "reviewing"
    /\ UNCHANGED <<reasons, calls, tasks, target, trace, report, answer>>

MergeExtra ==
    /\ stage = "following" /\ tasks[Extra].pc = "ended"
    /\ evidence' = evidence \o tasks[Extra].seen
    /\ trace' = [trace EXCEPT !.events = @ \cup EventsOf(tasks[Extra].seen)]
    /\ stage' = "reviewing"
    /\ UNCHANGED <<reasons, calls, tasks, target, report, answer>>

(* _candidate_facts: a count for an empty answer, else the first records of *)
(* logs and tickets.  (With at most ten facts; the rest is dropped.)        *)
CandidateFacts ==
    {[by |-> evidence[i].service, kind |-> "fact", step |-> i, tool |-> evidence[i].tool,
      output |-> evidence[i].output] :
        i \in {j \in DOMAIN evidence : evidence[j].empty \/ evidence[j].tool # Articles}}

(* EvidenceVerifier.verify for one fact: the step it names must have the   *)
(* tool and the record it tells of.                                        *)
Matches(fact) ==
    /\ fact.step \in DOMAIN evidence
    /\ evidence[fact.step].tool = fact.tool /\ evidence[fact.step].output = fact.output

RuleClaim(fact) ==
    [by |-> fact.by, kind |-> "fact", support |-> IF Matches(fact) THEN "supported" ELSE "unsupported",
     cites |-> IF fact.step \in DOMAIN evidence THEN {evidence[fact.step].id} ELSE {}]

(* Several services with errors in their logs may be related. *)
RuleHypothesis ==
    LET broken == {evidence[i].service : i \in {j \in DOMAIN evidence :
                                        evidence[j].tool = Logs /\ ~evidence[j].empty}}
    IN IF Cardinality(broken) >= 2
       THEN {[by |-> Extra, kind |-> "hypothesis", support |-> "unverified", cites |-> {}]} ELSE {}

(* DiagnosticAgents.verify: the findings of the last task of a service that has any. *)
Proposed ==
    UNION {IF s = target /\ tasks[Extra].findings # {} THEN tasks[Extra].findings ELSE tasks[s].findings :
            s \in Planned}

(* review_claim: a verdict counts only if what the claim cites was found. *)
Reviewed(claim, support) ==
    [by |-> claim.by, kind |-> claim.kind, cites |-> claim.cites,
     support |-> IF claim.cites \subseteq IdsOf(evidence) THEN support ELSE "unsupported"]

(* Failed or timed out: nothing depends on which. *)
Incomplete == [status |-> "incomplete", claims |-> {}]

Reports ==
    IF ~reasons
    THEN {[status |-> "completed", claims |-> {RuleClaim(f) : f \in CandidateFacts} \cup RuleHypothesis],
          Incomplete}
    ELSE IF Proposed = {} THEN {Incomplete}
    ELSE {Incomplete} \cup
         {[status |-> "completed", claims |-> {Reviewed(c, verdict[c]) : c \in Proposed}] :
            verdict \in [Proposed -> {"supported", "unsupported", "unverified"}]}

Review ==
    /\ stage = "reviewing" /\ stage' = "closing"
    /\ report' \in Reports
    /\ UNCHANGED <<reasons, calls, tasks, target, evidence, trace, answer>>

Ran == {b \in Investigators : tasks[b].pc = "ended"}

(* _service_investigations *)
ServiceStatus(s) ==
    LET own == {i \in DOMAIN evidence : evidence[i].service = s}
        incomplete == \E b \in Ran : Subject(b) = s /\ TaskStatus(tasks[b]) # "completed"
    IN IF own = {} THEN "failed" ELSE IF incomplete THEN "partial" ELSE "completed"

InvestigationStatus ==
    IF evidence = <<>> THEN "failed"
    ELSE IF \E b \in Ran : TaskStatus(tasks[b]) # "completed" THEN "partial" ELSE "completed"

(* Mutant: what the verifier could not decide is asserted too. *)
SupportedOrOpen == {c \in report.claims : report.status = "completed" /\ c.support # "unsupported"}

Supported == {c \in report.claims : report.status = "completed" /\ c.support = "supported"}

(* The first five. *)
CitedSteps ==
    LET cited == {i \in DOMAIN evidence : \E c \in Supported : evidence[i].id \in c.cites}
    IN {i \in cited : Cardinality({j \in cited : j < i}) < 5}

(* The result, the results_merged event and the run are saved together. *)
Close ==
    /\ stage = "closing" /\ stage' = "closed"
    /\ answer' = [status |-> IF evidence = <<>> THEN "failed" ELSE "completed",
                  verdict |-> InvestigationStatus,
                  services |-> [s \in Planned |-> ServiceStatus(s)],
                  facts |-> {c \in Supported : c.kind = "fact"}, steps |-> CitedSteps]
    /\ trace' = [trace EXCEPT !.merged =
            [status |-> answer'.status, ids |-> [i \in DOMAIN evidence |-> evidence[i].id],
             verdict |-> answer'.verdict, claims |-> report.claims]]
    /\ UNCHANGED <<reasons, calls, tasks, target, evidence, report>>

(* A branch or the supervisor raised: the pool lets every branch end first. *)
Break ==
    /\ stage \in {"investigating", "following", "reviewing", "closing"}
    /\ \A b \in Investigators : tasks[b].pc # "working"
    /\ stage' = "closed"
    /\ answer' = [status |-> "failed", verdict |-> "none", services |-> <<>>, facts |-> {}, steps |-> {}]
    /\ UNCHANGED <<reasons, calls, tasks, target, evidence, trace, report>>

-----------------------------------------------------------------------------
(* get_agent_run_detail *)

Completed == {c \in DOMAIN calls : calls[c].status = "completed"}

EventsOfId(n) == {e \in trace.events : e.id = trace.merged.ids[n]}

(* Mutant: the tool alone decides. *)
SameTool(event, other) == other.tool = event.tool

SameLookup(event, other) == other.tool = event.tool /\ other.inputs = event.inputs

(* The first call left that has the event's tool and inputs; each call is  *)
(* taken once, so that the ids of one lookup take its calls in turn.       *)
CallOf(n, event) ==
    LET fitting == {c \in Completed : SameLookup(event, calls[c])}
        earlier == {m \in 1..(n - 1) : \E e \in EventsOfId(m) : SameLookup(event, e)}
    IN {c \in fitting : Cardinality({d \in fitting : d < c}) = Cardinality(earlier)}

(* The evidence ids that have an event and a call; the others are left out. *)
Restored == {n \in DOMAIN trace.merged.ids : \E e \in EventsOfId(n) : CallOf(n, e) # {}}

Rebuilt(n) ==
    LET event == CHOOSE e \in EventsOfId(n) : CallOf(n, e) # {}
        call == calls[CHOOSE c \in CallOf(n, event) : TRUE]
    IN [id |-> event.id, agent |-> event.agent, service |-> call.inputs.service_name,
        tool |-> call.tool, empty |-> event.empty, output |-> call.id]

Detail ==
    IF trace.merged = Unset
    THEN [verdict |-> "none",
          evidence |-> [c \in Completed |-> [tool |-> calls[c].tool, output |-> calls[c].id]]]
    ELSE [verdict |-> trace.merged.verdict, evidence |-> [n \in Restored |-> Rebuilt(n)]]

-----------------------------------------------------------------------------
DiagnosisNext ==
    \/ \E b \in Investigators :
        \/ Answered(b) \/ OutOfScope(b) \/ CallFails(b) \/ NotConnected(b) \/ GiveUp(b) \/ EndTask(b)
    \/ MergeBranches \/ MergeExtra \/ Review \/ Close \/ Break

DiagnosisSpec == DiagnosisInit /\ [][DiagnosisNext]_diagnosisVars

-----------------------------------------------------------------------------
(* Properties *)

(* A fact is stated only when the review supports it, and everything it    *)
(* cites is a completed call of this run whose records are of the service  *)
(* that the fact is about; the steps shown beside it are those it cites.   *)
FactsComeFromRecords ==
    answer # Unset =>
        /\ \A fact \in answer.facts :
            /\ fact.support = "supported" /\ fact.cites # {}
            /\ \A id \in fact.cites : \E i \in DOMAIN evidence :
                LET call == calls[evidence[i].output]
                IN /\ evidence[i].id = id /\ call.status = "completed" /\ call.scoped
                   /\ {call.inputs.service_name, call.inputs.query} \ {0} = {Subject(fact.by)}
        /\ \A i \in answer.steps : \E c \in report.claims :
            c.support = "supported" /\ evidence[i].id \in c.cites

(* Whether a call was answered in the end. *)
Recovered(i) ==
    \E j \in DOMAIN calls :
        /\ j >= i /\ calls[j].status = "completed" /\ calls[j].scoped
        /\ calls[j].tool = calls[i].tool /\ calls[j].inputs = calls[i].inputs

(* An investigation is called completed only if every planned service was  *)
(* looked into, no task was cut short, and every call that failed or       *)
(* brought foreign records was answered by a later one; the statuses of    *)
(* the services say the same as the run's.                                 *)
CompletedIsWhole ==
    answer # Unset /\ answer.verdict = "completed" =>
        /\ \A i \in DOMAIN calls : Recovered(i)
        /\ \A s \in Planned : answer.services[s] = "completed"
        /\ \A b \in Investigators : ~tasks[b].cut

(* An answer says no more than the records support, of its facts and of    *)
(* its own completeness.                                                   *)
AnswerIsSupported == FactsComeFromRecords /\ CompletedIsWhole

(* README: a finished run is opened again with its evidence.  The calls    *)
(* are found again by tool and inputs, among those of all branches, the    *)
(* rejected ones included: each evidence id gets the very records it had   *)
(* when it was merged, and nothing is missing.  (Its service is lost when  *)
(* the tool was asked for documents: the event does not say it.)           *)
ReopenedIsSame ==
    trace.merged # Unset =>
        /\ Detail.verdict = answer.verdict /\ DOMAIN Detail.evidence = DOMAIN evidence
        /\ \A i \in DOMAIN evidence :
            LET item == Detail.evidence[i]
            IN item = [id |-> evidence[i].id, agent |-> evidence[i].agent,
                       service |-> evidence[i].inputs.service_name, tool |-> evidence[i].tool,
                       empty |-> evidence[i].empty, output |-> evidence[i].output]
=============================================================================
