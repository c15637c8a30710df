-------------------------------- MODULE Workflow --------------------------------
(***************************************************************************)
(* One run of the graph workflow (agent/graph.py, agent/nodes.py) in the   *)
(* API process: route, plan, classify the risk of the whole plan, stop for *)
(* a human decision, execute the plan step by step, analyse, answer.       *)
(*                                                                         *)
(* Two threads touch the run.  The creator executes it, leaves it waiting  *)
(* if the plan is of high risk and, for a specialist run, writes one more  *)
(* trace event afterwards.  The approver may decide as soon as the run is  *)
(* waiting; it executes the graph again from the state in the checkpoint.  *)
(* The contest of several approvers, crashes and recovery are in Approval. *)
(***************************************************************************)
EXTENDS Naturals, Sequences, SequencesExt, FiniteSetsExt

CONSTANTS
    Services,
    MaxSteps,  \* Planner.max_steps
    LlmPlans   \* plans the model may write

ToolNames == {"simulate", "knowledge", "detail", "database", "logs", "tickets"}
NoService == "none"

ASSUME StepsAssumption == MaxSteps \in 1..5
ASSUME PlansAssumption ==
    /\ NoService \notin Services
    /\ LlmPlans \subseteq Seq([tool: ToolNames, service: Services \cup {NoService}])

VARIABLES
    query,      \* of the request: its mode and services, and whether a model is configured
    at,         \* what each thread does next
    graph,      \* the graph state each thread works on
    rec,        \* its TraceRecorder: the number of its first event, and the events
    run,        \* the run's row
    checkpoint, \* the approval checkpoint's row
    trace,      \* the committed trace; an event's place is its step number
    calls,      \* calls of tools, in order
    decision,   \* the decision taken, and the plan it was taken on
    told        \* what each thread has answered

vars == <<query, at, graph, rec, run, checkpoint, trace, calls, decision, told>>

-----------------------------------------------------------------------------
(* Plans *)

Threads == {"creator", "approver"}
Intents == {"operation", "ticket_search", "log_analysis", "knowledge_search", "data_query",
            "incident_analysis", "general"}
Absent == [absent |-> TRUE]

Step(tool, service) == [tool |-> tool, service |-> service]
Single(tool) == <<Step(tool, NoService)>>

(* select_tool *)
SingleSteps(intent) ==
    CASE intent = "operation" -> {Single("simulate")}
      [] intent = "knowledge_search" -> {Single("knowledge")}
      [] intent = "ticket_search" -> {Single("detail"), Single("database")}
      [] intent = "general" -> {<<>>}
      [] OTHER -> {Single("database")}

Cut(steps) == SubSeq(steps, 1, Min({Len(steps), MaxSteps}))

EvidenceSteps(service) ==
    <<Step("logs", service), Step("tickets", service), Step("knowledge", NoService)>>

(* Spend the bounded budget on service coverage before supporting context. *)
MultiServiceSteps(services) ==
    [i \in DOMAIN services |-> Step("logs", services[i])] \o Tail(EvidenceSteps(services[1]))

Several(intent) == Len(query.services) > 1 /\ intent \in {"incident_analysis", "log_analysis"}

(* create_plan *)
Plans(intent) ==
    IF Several(intent) THEN {Cut(MultiServiceSteps(query.services))}
    ELSE IF intent # "incident_analysis" THEN SingleSteps(intent)
    ELSE IF query.services # <<>> THEN {Cut(EvidenceSteps(query.services[1]))}
    ELSE SingleSteps(intent) \cup (IF query.llm THEN {Cut(steps) : steps \in LlmPlans} ELSE {})

Registered(tool) == tool # "database" \/ query.llm
High(tool) == tool = "simulate"

(* Mutant: only the first step of the plan is classified. *)
HighPlanFirst(plan) == plan # <<>> /\ High(plan[1].tool)

HighPlan(plan) == \E i \in DOMAIN plan : High(plan[i].tool)

-----------------------------------------------------------------------------
(* The graph state and the investigations of several services *)

StartState ==
    [intent |-> "general", plan |-> <<>>, inv |-> <<>>, current |-> 0, evidence |-> <<>>,
     requires |-> FALSE, approval |-> "none", action |-> "none", resume |-> FALSE,
     error |-> "none", analysis |-> Absent, answer |-> "none"]

Pending == [status |-> "pending", evidence |-> {}, failed |-> FALSE]
Investigated(g) == DOMAIN g.inv

(* _step_service: a step without a service counts for the first one. *)
StepService(g, step) ==
    IF step.service # NoService THEN step.service
    ELSE IF g.inv # <<>> THEN query.services[1] ELSE "unscoped"

HasMore(g, service, n) ==
    \E i \in DOMAIN g.plan : i > n /\ StepService(g, g.plan[i]) = service

(* Mutant: an earlier failure is forgotten at the next success. *)
AfterSuccessForgetful(g, service, n) ==
    [g.inv EXCEPT ![service] =
        [status |-> IF HasMore(g, service, n) THEN "running" ELSE "completed",
         evidence |-> g.inv[service].evidence \cup {n}, failed |-> FALSE]]

(* _record_investigation_success *)
AfterSuccess(g, service, n) ==
    [g.inv EXCEPT ![service] =
        [status |-> IF g.inv[service].failed THEN "partial"
                    ELSE IF HasMore(g, service, n) THEN "running" ELSE "completed",
         evidence |-> g.inv[service].evidence \cup {n}, failed |-> g.inv[service].failed]]

(* _record_investigation_failure *)
AfterFailure(g, service) ==
    [g.inv EXCEPT ![service] =
        [status |-> IF g.inv[service].evidence # {} THEN "partial" ELSE "failed",
         evidence |-> g.inv[service].evidence, failed |-> TRUE]]

-----------------------------------------------------------------------------
(* The trace *)

Recorder(t) == [from |-> Len(trace) + 1, events |-> <<>>]

Event(node, n) == [node |-> node, n |-> n]

(* One event per run and step number: the commit fails if a number is taken. *)
NumbersFree(t) == rec[t].events = <<>> \/ rec[t].from = Len(trace) + 1
Written(t) == trace' = trace \o rec[t].events

(* A node ran: its output is in the state, its event in the recorder. *)
Ran(t, node, g, next) ==
    /\ at' = [at EXCEPT ![t] = next]
    /\ graph' = [graph EXCEPT ![t] = g]
    /\ rec' = [rec EXCEPT ![t] =
         [from |-> rec[t].from, events |-> Append(rec[t].events, Event(node, g.current))]]

-----------------------------------------------------------------------------
(* A request; a specialist run is dispatched first (execute_specialist_run). *)

Init ==
    /\ query \in [mode: {"single", "specialist"}, llm: BOOLEAN,
                  services: {s \in SeqOf(Services, 3) : IsInjective(s)}]
    /\ at = [creator |-> IF query.mode = "single" THEN "starting" ELSE "dispatching",
             approver |-> "watching"]
    /\ graph = [t \in Threads |-> StartState]
    /\ rec = [t \in Threads |-> [from |-> 1, events |-> <<>>]]
    /\ run = [status |-> "running", answer |-> "none"] /\ checkpoint = Absent
    /\ trace = <<>> /\ calls = <<>> /\ decision = Absent
    /\ told = [t \in Threads |-> "nothing"]

Dispatch(t) ==
    /\ at[t] = "dispatching" /\ at' = [at EXCEPT ![t] = "starting"]
    /\ trace' = Append(trace, Event("dispatched", 0))
    /\ UNCHANGED <<query, graph, rec, run, checkpoint, calls, decision, told>>

(* A new recorder, and the graph from its start (route_from_start). *)
Start(t) ==
    /\ at[t] = "starting"
    /\ rec' = [rec EXCEPT ![t] = Recorder(t)]
    /\ at' = [at EXCEPT ![t] = IF graph[t].resume THEN "deciding" ELSE "routing"]
    /\ UNCHANGED <<query, graph, run, checkpoint, trace, calls, decision, told>>

-----------------------------------------------------------------------------
(* The nodes *)

(* intent_router: a rule, else the model, else general. *)
Route(t) ==
    /\ at[t] = "routing"
    /\ \E intent \in Intents : Ran(t, "router", [graph[t] EXCEPT !.intent = intent], "planning")
    /\ UNCHANGED <<query, run, checkpoint, trace, calls, decision, told>>

(* plan_task *)
Plan(t) ==
    /\ at[t] = "planning"
    /\ \E plan \in Plans(graph[t].intent) :
         LET inv == IF Several(graph[t].intent)
                    THEN [s \in Range(query.services) |-> Pending] ELSE <<>>
         IN Ran(t, "planner", [graph[t] EXCEPT !.plan = plan, !.inv = inv, !.current = 0],
                IF plan = <<>> THEN "answering" ELSE "checking")
    /\ UNCHANGED <<query, run, checkpoint, trace, calls, decision, told>>

(* check_risk: a tool that is not registered cannot be assessed. *)
CheckRisk(t) ==
    LET g == graph[t]
        high == HighPlan(g.plan)
    IN /\ at[t] = "checking"
       /\ IF \E i \in DOMAIN g.plan : ~ Registered(g.plan[i].tool)
          THEN Ran(t, "risk", g, "failing")
          ELSE Ran(t, "risk", [g EXCEPT !.requires = high,
                                        !.approval = IF high THEN "pending" ELSE "none"],
                   IF high THEN "gating" ELSE "executing")
       /\ UNCHANGED <<query, run, checkpoint, trace, calls, decision, told>>

(* approval_gate interrupts the graph; it never resumes from there. *)
Gate(t) ==
    /\ at[t] = "gating" /\ Ran(t, "gate", graph[t], "interrupted")
    /\ UNCHANGED <<query, run, checkpoint, trace, calls, decision, told>>

Refusal(action) ==
    CASE action = "approve" -> "none" [] action = "reject" -> "rejected" [] action = "cancel" -> "cancelled"

(* approval_decision *)
Decide(t) ==
    LET error == Refusal(graph[t].action)
    IN /\ at[t] = "deciding"
       /\ Ran(t, "decision",
              [graph[t] EXCEPT !.requires = FALSE, !.resume = FALSE, !.error = error,
                               !.approval = IF error = "none" THEN "approved" ELSE error],
              IF error = "none" THEN "executing" ELSE "answering")
       /\ UNCHANGED <<query, run, checkpoint, trace, calls, decision, told>>

(* Mutant: the plan is finished one step too late. *)
PlanEndsLate(g) == g.current > Min({Len(g.plan), MaxSteps})

(* Mutant: a failed step is tried again. *)
NextStepOnlyIfOk(g, ok) == IF ok THEN g.current + 1 ELSE g.current

PlanEnds(g) == g.current >= Min({Len(g.plan), MaxSteps})

NextStep(g, ok) == g.current + 1

Stops(g) == g.error # "none"

(* route_after_execution *)
AfterExecution(g) ==
    IF Stops(g) THEN "answering"
    ELSE IF ~ PlanEnds(g) THEN "executing"
    ELSE IF (g.intent = "incident_analysis" \/ Cardinality(Investigated(g)) > 1)
            /\ (g.evidence # <<>> \/ g.inv # <<>>)
         THEN "analysing" ELSE "answering"

(* tool_executor: the current step, through the registry.  The registry    *)
(* refuses text-to-SQL under team permissions.                             *)
Execute(t) ==
    LET g == graph[t]
        n == g.current + 1
        step == g.plan[n]
        service == StepService(g, step)
        own == service \in Investigated(g)
    IN /\ at[t] = "executing"
       /\ \E ok \in BOOLEAN :
            LET after == [g EXCEPT
                    !.current = NextStep(g, ok),
                    !.evidence = IF ok THEN Append(g.evidence, n) ELSE g.evidence,
                    !.inv = CASE own /\ ok   -> AfterSuccess(g, service, n)
                              [] own /\ ~ ok -> AfterFailure(g, service)
                              [] OTHER       -> g.inv,
                    !.error = IF ok \/ g.inv # <<>> THEN "none" ELSE "tool"]
            IN /\ ok => step.tool # "database"
               /\ Ran(t, "tool", after, AfterExecution(after))
               /\ calls' = Append(calls, [n |-> n, tool |-> step.tool, ok |-> ok])
       /\ UNCHANGED <<query, run, checkpoint, trace, decision, told>>

(* The database fails under the call: the node raises. *)
Break(t) ==
    /\ at[t] = "executing" /\ Ran(t, "broken", graph[t], "failing")
    /\ UNCHANGED <<query, run, checkpoint, trace, calls, decision, told>>

(* Mutant: the model's citations are taken as they are. *)
ValidAlways(g, cited) == TRUE

Valid(g, cited) == cited # {} /\ cited \subseteq ToSet(g.evidence)

(* The first citation of every service that has one. *)
ServiceCitations(g) == {Min(g.inv[s].evidence) : s \in {i \in Investigated(g) : g.inv[i].evidence # {}}}

(* Mutant: the model's analysis is not marked. *)
UncertainFallback(g, source) == source = "fallback" /\ \E s \in Investigated(g) : g.inv[s].status \in {"partial", "failed"}

(* _needs_uncertainty, as far as it looks at the investigations *)
Uncertain(g, source) == \E s \in Investigated(g) : g.inv[s].status \in {"partial", "failed"}

(* IncidentAnalyzer.analyze: the model's analysis if its citations are     *)
(* valid at the first or the second try, else one built from the evidence. *)
Analyse(t) ==
    LET g == graph[t]
        By(source, cited) ==
            Ran(t, "analyzer",
                [g EXCEPT !.analysis = [source |-> source, cited |-> cited, uncertain |-> Uncertain(g, source)]],
                "answering")
    IN /\ at[t] = "analysing"
       /\ \/ By("fallback", ToSet(g.evidence))
          \/ /\ query.llm /\ g.evidence # <<>>
             /\ \E cited \in SUBSET (1..MaxSteps) :
                  Valid(g, cited) /\ By("llm", cited \cup ServiceCitations(g))
       /\ UNCHANGED <<query, run, checkpoint, trace, calls, decision, told>>

(* Mutant: results of earlier steps are given before the failure is looked at. *)
TextResultsFirst(g) ==
    IF g.error \in {"rejected", "cancelled"} THEN "nothing executed"
    ELSE IF g.analysis # Absent THEN "analysis"
    ELSE IF g.evidence # <<>> THEN "results"
    ELSE IF g.error = "tool" THEN "stopped"
    ELSE IF g.plan = <<>> THEN "no plan" ELSE "no results"

Text(g) ==
    IF g.error \in {"rejected", "cancelled"} THEN "nothing executed"
    ELSE IF g.error = "tool" THEN "stopped"
    ELSE IF g.plan = <<>> THEN "no plan"
    ELSE IF g.evidence = <<>> THEN "no results"
    ELSE IF g.analysis # Absent THEN "analysis" ELSE "results"

(* answer_generator *)
Answer(t) ==
    /\ at[t] = "answering"
    /\ Ran(t, "answer", [graph[t] EXCEPT !.answer = Text(graph[t])], "finishing")
    /\ UNCHANGED <<query, run, checkpoint, trace, calls, decision, told>>

-----------------------------------------------------------------------------
(* Commits: execute_agent_run and _resume_agent_locked *)

Result(t) == IF graph[t].error = "none" THEN "completed" ELSE "failed"
Done(t, answer) == at' = [at EXCEPT ![t] = "done"] /\ told' = [told EXCEPT ![t] = answer]

(* What follows the commit: a specialist run is handed back. *)
Over(t, answer) ==
    IF query.mode = "specialist" THEN at' = [at EXCEPT ![t] = "handing over"] /\ UNCHANGED told
    ELSE Done(t, answer)

(* The commit fails on a step number another recorder has written. *)
Clash(t) ==
    /\ at[t] \in {"finishing", "failing", "interrupted", "handing back"} /\ ~ NumbersFree(t)
    /\ Done(t, "an error")
    /\ UNCHANGED <<query, graph, rec, run, checkpoint, trace, calls, decision>>

(* _finish_run *)
Finish(t) ==
    /\ at[t] = "finishing" /\ NumbersFree(t)
    /\ run' = [status |-> Result(t), answer |-> graph[t].answer]
    /\ checkpoint' = Absent /\ Written(t)
    /\ Over(t, Result(t))
    /\ UNCHANGED <<query, graph, rec, calls, decision>>

(* Mutant: a failed run is committed without its trace. *)
FinishFailedUntraced(t) ==
    /\ at[t] = "failing" /\ NumbersFree(t)
    /\ run' = [status |-> "failed", answer |-> "none"]
    /\ checkpoint' = Absent
    /\ Done(t, "an error")
    /\ UNCHANGED <<query, graph, rec, trace, calls, decision>>

FinishFailed(t) ==
    /\ at[t] = "failing" /\ NumbersFree(t)
    /\ run' = [status |-> "failed", answer |-> "none"]
    /\ checkpoint' = Absent /\ Written(t)
    /\ Done(t, "an error")
    /\ UNCHANGED <<query, graph, rec, calls, decision>>

(* _mark_waiting *)
MarkWaiting(t) ==
    /\ at[t] = "interrupted" /\ NumbersFree(t)
    /\ run' = [status |-> "waiting_approval", answer |-> "waiting"]
    /\ checkpoint' = [state |-> graph[t]] /\ Written(t)
    /\ Over(t, "waiting_approval")
    /\ UNCHANGED <<query, graph, rec, calls, decision>>

(* _complete_handoff numbers one event, then commits it. *)
HandOver(t) ==
    /\ at[t] = "handing over" /\ at' = [at EXCEPT ![t] = "handing back"]
    /\ rec' = [rec EXCEPT ![t] = [from |-> Recorder(t).from, events |-> <<Event("result", 0)>>]]
    /\ UNCHANGED <<query, graph, run, checkpoint, trace, calls, decision, told>>

HandBack(t) ==
    /\ at[t] = "handing back" /\ NumbersFree(t) /\ Written(t)
    /\ Done(t, IF graph[t].requires THEN "waiting_approval" ELSE Result(t))
    /\ UNCHANGED <<query, graph, rec, run, checkpoint, calls, decision>>

Restored(state, action) == [state EXCEPT !.action = action, !.resume = TRUE]

(* A decision claims the waiting run, and the graph starts from its state. *)
Claim ==
    /\ at["approver"] = "watching" /\ run.status = "waiting_approval"
    /\ \E action \in {"approve", "reject", "cancel"} :
         /\ decision' = [action |-> action, plan |-> checkpoint.state.plan]
         /\ graph' = [graph EXCEPT !["approver"] = Restored(checkpoint.state, action)]
    /\ run' = [status |-> "running", answer |-> "none"]
    /\ at' = [at EXCEPT !["approver"] = "starting"]
    /\ UNCHANGED <<query, rec, checkpoint, trace, calls, told>>

-----------------------------------------------------------------------------
ThreadStep(t) ==
    \/ Dispatch(t) \/ Start(t) \/ Route(t) \/ Plan(t) \/ CheckRisk(t) \/ Gate(t) \/ Decide(t)
    \/ Execute(t) \/ Break(t) \/ Analyse(t) \/ Answer(t)
    \/ Finish(t) \/ FinishFailed(t) \/ MarkWaiting(t) \/ HandOver(t) \/ HandBack(t) \/ Clash(t)

(* Nobody has to decide. *)
Rest ==
    /\ at["creator"] = "done" /\ at["approver"] \in {"watching", "done"}
    /\ UNCHANGED vars

Next == (\E t \in Threads : ThreadStep(t)) \/ Claim \/ Rest

Spec == Init /\ [][Next]_vars

-----------------------------------------------------------------------------
(* Properties *)

States == {"dispatching", "starting", "routing", "planning", "checking", "gating", "interrupted",
           "deciding", "executing", "analysing", "answering", "finishing", "failing",
           "handing over", "handing back", "watching", "done"}

TypeOK ==
    /\ query.mode \in {"single", "specialist"} /\ query.llm \in BOOLEAN
    /\ at \in [Threads -> States]
    /\ run.status \in {"running", "waiting_approval", "completed", "failed"}
    /\ checkpoint # Absent => HighPlan(checkpoint.state.plan)
    /\ \A t \in Threads :
         /\ rec[t].from \in Nat \ {0}
         /\ Len(graph[t].plan) <= MaxSteps /\ graph[t].current <= Len(graph[t].plan)
         /\ at[t] = "executing" => graph[t].current < Len(graph[t].plan)
         /\ told[t] \in {"nothing", "an error", "waiting_approval", "completed", "failed"}

(* No tool of a plan with a high-risk step is called, not even a harmless  *)
(* one before it, unless a human approved exactly the plan that is         *)
(* executed (check_risk and approval_decision, across the checkpoint).     *)
WholePlanApproved ==
    \A t \in Threads : (\E i \in DOMAIN graph[t].plan : High(graph[t].plan[i].tool)) /\ calls # <<>> =>
        /\ decision # Absent /\ decision.action = "approve"
        /\ \A i \in DOMAIN calls : calls[i].tool = decision.plan[calls[i].n].tool

(* Each step is called once and in the plan's order, across the decision,  *)
(* and none after a step that failed unless several services are           *)
(* investigated (tool_executor, route_after_execution).                    *)
CallsFollowPlan ==
    /\ \A i \in DOMAIN calls : calls[i].n = i /\ i <= MaxSteps
    /\ \A i \in DOMAIN calls : ~ calls[i].ok =>
         i = Len(calls) \/ \E t \in Threads : Cardinality(Investigated(graph[t])) > 1

(* Between planning and answering, across a decision by another process,   *)
(* the plan is approved as a whole and carried out as it stands.           *)
PlanIsKept == TypeOK /\ WholePlanApproved /\ CallsFollowPlan

(* What the user reads is what happened (answer_generator,                 *)
(* analyze_incident): nothing was executed when the answer says so, a run  *)
(* said to be stopped stopped at a failed call, results without an         *)
(* analysis are those of a run without failures.  A service's status tells *)
(* its calls apart, and an analysis over one that did not go well says     *)
(* that it is uncertain, whoever wrote it.                                 *)
OutcomeIsTold ==
    /\ run.answer \in {"nothing executed", "waiting", "no plan"} => calls = <<>>
    /\ run.answer = "stopped" => ~ Last(calls).ok
    /\ run.answer = "analysis" => \E i \in DOMAIN calls : calls[i].ok
    /\ run.answer = "results" => calls # <<>> /\ \A i \in DOMAIN calls : calls[i].ok
    /\ \A t \in Threads : at[t] \in {"finishing", "done"} /\ graph[t].answer # "none" =>
         LET g == graph[t]
             OfService(s) == {i \in DOMAIN calls : StepService(g, g.plan[calls[i].n]) = s}
         IN /\ \A s \in Investigated(g) :
                 /\ g.inv[s].evidence = {i \in OfService(s) : calls[i].ok}
                 /\ g.inv[s].status = IF \A i \in OfService(s) : calls[i].ok THEN "completed"
                                      ELSE IF g.inv[s].evidence # {} THEN "partial" ELSE "failed"
            /\ g.analysis # Absent /\ (\E i \in DOMAIN calls : ~ calls[i].ok) => g.analysis.uncertain

(* An analysis cites steps that brought evidence, at least one if there is *)
(* any, and every service that has evidence.                               *)
CitationsAreEvidence ==
    \A t \in Threads : graph[t].analysis # Absent =>
        LET cited == graph[t].analysis.cited
        IN /\ cited \subseteq {calls[i].n : i \in {j \in DOMAIN calls : calls[j].ok}}
           /\ graph[t].evidence # <<>> => cited # {}
           /\ \A s \in Investigated(graph[t]) :
                graph[t].inv[s].evidence # {} => cited \cap graph[t].inv[s].evidence # {}

(* The answer, its statuses and its citations say what the calls brought.  *)
OutcomeIsSupported == OutcomeIsTold /\ CitationsAreEvidence

(* The trace of a finished run tells each of its calls once and in order,  *)
(* those before and after the decision being numbered on (TraceRecorder);  *)
(* the calls' own numbers are those of their places in the plan.           *)
TraceTellsCalls ==
    run.status \in {"completed", "failed"} =>
        LET tools == {i \in DOMAIN trace : trace[i].node = "tool"}
        IN /\ {trace[i].n : i \in tools} = {calls[i].n : i \in DOMAIN calls}
           /\ \A i, j \in tools : i < j => trace[i].n < trace[j].n

(* A decision that was carried out leaves a finished run behind: it is not *)
(* said to be running for ever (README: an approved operation returns its  *)
(* simulated execution).                                                   *)
DecisionEndsRun ==
    at["approver"] = "done" => run.status \in {"completed", "failed"}
=============================================================================
