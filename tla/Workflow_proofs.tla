---------------------------- MODULE Workflow_proofs ----------------------------
(***************************************************************************)
(* What Workflow promises about a run of the graph: the plan that is       *)
(* executed is the plan that was classified and approved, the answer says  *)
(* what the calls brought, and the trace tells them.                       *)
(*                                                                         *)
(* The inductive invariant is about the thread that may call tools, the    *)
(* Owner: the creator until somebody decides, the approver after that.     *)
(* GraphIsSound compares its graph state with the calls made so far;       *)
(* CreatorIsSound and ApproverIsSound say what is handed from the one to   *)
(* the other through the checkpoint; TraceInv compares its recorder, then  *)
(* the committed trace, with the calls.                                    *)
(***************************************************************************)
EXTENDS Workflow, FiniteSetTheorems, TLAPS

-----------------------------------------------------------------------------
(* The shapes of the data, for the services ns of the request *)

Names(ns) == {ns[i] : i \in DOMAIN ns}
Lists == {ns \in Seq(Services) : Len(ns) <= 3 /\ IsInjective(ns)}
StepRows == [tool: ToolNames, service: Services \cup {NoService}]
PlanRows == {plan \in Seq(StepRows) : Len(plan) <= MaxSteps}
InvRows == [status: {"pending", "running", "completed", "partial", "failed"},
            evidence: SUBSET (1..MaxSteps), failed: BOOLEAN]
Actions == {"approve", "reject", "cancel"}
Texts == {"nothing executed", "stopped", "no plan", "no results", "analysis", "results"}
Analyses == [source: {"fallback", "llm"}, cited: SUBSET Nat, uncertain: BOOLEAN]
GraphRows(ns) ==
    [intent: Intents, plan: PlanRows, inv: {<<>>} \cup [Names(ns) -> InvRows], current: Nat,
     evidence: Seq(Nat), requires: BOOLEAN,
     approval: {"none", "pending", "approved", "rejected", "cancelled"},
     action: {"none"} \cup Actions, resume: BOOLEAN,
     error: {"none", "tool", "rejected", "cancelled"},
     analysis: {Absent} \cup Analyses, answer: {"none"} \cup Texts]
Nodes == {"dispatched", "router", "planner", "risk", "gate", "decision", "tool", "broken",
          "analyzer", "answer", "result"}
Events == [node: Nodes, n: Nat]
CallRows == [n: Nat, tool: ToolNames, ok: BOOLEAN]
Past == {"handing over", "handing back", "done"}

-----------------------------------------------------------------------------
(* A graph state g against the calls cs *)

(* StepService for the services ns of the request *)
ServiceOf(ns, g, step) ==
    IF step.service # NoService THEN step.service
    ELSE IF g.inv # <<>> THEN ns[1] ELSE "unscoped"

CallsOf(ns, g, cs, s) == {i \in DOMAIN cs : ServiceOf(ns, g, g.plan[i]) = s}
More(ns, g, s, n) == \E i \in DOMAIN g.plan : i > n /\ ServiceOf(ns, g, g.plan[i]) = s

(* The record of one service says how its calls went. *)
ServiceIsSound(ns, g, cs, s) ==
    /\ g.inv[s].evidence = {i \in CallsOf(ns, g, cs, s) : cs[i].ok}
    /\ g.inv[s].failed = (\E i \in CallsOf(ns, g, cs, s) : ~ cs[i].ok)
    /\ g.inv[s].status =
         IF g.inv[s].failed THEN IF g.inv[s].evidence # {} THEN "partial" ELSE "failed"
         ELSE IF CallsOf(ns, g, cs, s) = {} THEN "pending"
         ELSE IF More(ns, g, s, Len(cs)) THEN "running" ELSE "completed"

(* A run of several services: a failed step does not stop it, and the plan *)
(* has a step for each of them if the budget allows.                       *)
SeveralIsSound(ns, g, cs) ==
    g.inv # <<>> =>
        /\ Len(ns) > 1 /\ ~ HighPlan(g.plan) /\ g.error = "none" /\ g.plan # <<>>
        /\ \A i \in DOMAIN g.plan : g.plan[i].service \in Names(ns) \cup {NoService}
        /\ \A s \in Names(ns) : ServiceIsSound(ns, g, cs, s)
        /\ MaxSteps >= 3 => \A s \in Names(ns) : \E i \in DOMAIN g.plan : ServiceOf(ns, g, g.plan[i]) = s

(* Any other run: only the last call may have failed, and then it stops. *)
OneIsSound(g, cs) ==
    g.inv = <<>> =>
        /\ \A i \in DOMAIN cs : i < Len(cs) => cs[i].ok
        /\ g.error = "tool" <=> cs # <<>> /\ ~ cs[Len(cs)].ok

Succeeded(cs) == {i \in DOMAIN cs : cs[i].ok}

AnalysisIsSound(g, cs) ==
    g.analysis # Absent =>
        /\ g.error = "none"
        /\ g.inv # <<>> => Len(cs) = Len(g.plan)
        /\ g.analysis.cited \subseteq Succeeded(cs)
        /\ Succeeded(cs) # {} => g.analysis.cited # {}
        /\ g.inv # <<>> =>
             /\ \A s \in DOMAIN g.inv : g.inv[s].evidence # {} => g.analysis.cited \cap g.inv[s].evidence # {}
             /\ g.analysis.uncertain = (\E s \in DOMAIN g.inv : g.inv[s].status \in {"partial", "failed"})

AnswerIsSound(g) ==
    g.answer # "none" => g.answer = Text(g) /\ (g.inv # <<>> => g.analysis # Absent)

GraphIsSound(ns, g, cs) ==
    /\ Len(cs) = g.current /\ g.current <= Len(g.plan)
    /\ \A i \in DOMAIN cs : cs[i].n = i /\ cs[i].tool = g.plan[i].tool
    /\ {g.evidence[i] : i \in DOMAIN g.evidence} = Succeeded(cs)
    /\ g.error \in {"rejected", "cancelled"} => cs = <<>>
    /\ SeveralIsSound(ns, g, cs) /\ OneIsSound(g, cs)
    /\ AnalysisIsSound(g, cs) /\ AnswerIsSound(g)

(* What holds of g where its thread stands *)
Early == {"dispatching", "starting", "routing", "planning", "checking", "gating", "interrupted",
          "deciding"}
Open == Early \cup {"executing", "analysing", "answering", "finishing", "failing"}

PlaceIsSound(pc, g, cs) ==
    /\ pc \in Early => cs = <<>> /\ g.analysis = Absent /\ g.answer = "none" /\ g.error = "none"
    /\ pc \in {"dispatching", "routing", "planning"} => g.plan = <<>> /\ g.inv = <<>>
    /\ pc = "starting" /\ ~ g.resume => g.plan = <<>> /\ g.inv = <<>>
    /\ pc = "checking" => g.plan # <<>>
    /\ pc \in {"gating", "interrupted", "deciding"} => HighPlan(g.plan)
    /\ pc = "executing" => /\ g.error = "none" /\ g.analysis = Absent /\ g.answer = "none"
                           /\ Len(cs) < Len(g.plan)
    /\ pc = "analysing" => /\ g.error = "none" /\ g.analysis = Absent /\ g.answer = "none"
                           /\ g.inv # <<>> => Len(cs) = Len(g.plan)
    /\ pc = "answering" => g.answer = "none" /\ (g.inv # <<>> => g.analysis # Absent)
    /\ pc = "failing" => g.answer = "none"

(* The creator never executes any step of a plan that needs an approval. *)
CreatorIsSound(pc, g, cs) ==
    /\ pc \notin {"deciding", "watching"} /\ ~ g.resume /\ g.error \notin {"rejected", "cancelled"}
    /\ HighPlan(g.plan) => /\ cs = <<>> /\ g.analysis = Absent /\ g.answer = "none"
                           /\ pc \in {"checking", "gating", "interrupted", "failing"} \cup Past

(* The approver executes the plan it decided on, or nothing. *)
ApproverIsSound(pc, g, cs, d) ==
    /\ pc \in {"starting", "deciding", "executing", "analysing", "answering", "finishing", "failing"} \cup Past
    /\ pc = "starting" => g.resume
    /\ HighPlan(g.plan) /\ d # Absent /\ d.plan = g.plan /\ d.action = g.action /\ g.action \in Actions
    /\ cs # <<>> \/ pc \in {"executing", "analysing"} => g.action = "approve"

-----------------------------------------------------------------------------
(* Traces *)

Tools(events) == {i \in DOMAIN events : events[i].node = "tool"}

(* The tool events tell the calls cs, once and in order. *)
Tells(events, cs) ==
    /\ {events[i].n : i \in Tools(events)} = {cs[i].n : i \in DOMAIN cs}
    /\ \A i, j \in Tools(events) : i < j => events[i].n < events[j].n

-----------------------------------------------------------------------------
(* The inductive invariant *)

Owner == IF at["approver"] = "watching" THEN "creator" ELSE "approver"

Shapes ==
    /\ query \in [mode: {"single", "specialist"}, llm: BOOLEAN, services: Lists]
    /\ at \in [Threads -> States]
    /\ graph \in [Threads -> GraphRows(query.services)]
    /\ rec \in [Threads -> [from: Nat \ {0}, events: Seq(Events)]]
    /\ run \in [status: {"running", "waiting_approval", "completed", "failed"},
                answer: {"none", "waiting"} \cup Texts]
    /\ checkpoint \in {Absent} \cup [state: GraphRows(query.services)]
    /\ trace \in Seq(Events) /\ calls \in Seq(CallRows)
    /\ decision \in {Absent} \cup [action: Actions, plan: PlanRows]
    /\ told \in [Threads -> {"nothing", "an error", "waiting_approval", "completed", "failed"}]

OwnerInv ==
    /\ GraphIsSound(query.services, graph[Owner], calls)
    /\ PlaceIsSound(at[Owner], graph[Owner], calls)

(* Before anybody decides, the approver has nothing; after that the        *)
(* creator has nothing but its handoff left to do.                         *)
ThreadsInv ==
    IF Owner = "creator"
    THEN /\ CreatorIsSound(at["creator"], graph["creator"], calls)
         /\ graph["approver"] = StartState /\ decision = Absent
    ELSE /\ ApproverIsSound(at["approver"], graph["approver"], calls, decision)
         /\ at["creator"] \in Past /\ graph["creator"].plan = graph["approver"].plan
         /\ graph["creator"].analysis = Absent /\ graph["creator"].answer = "none"
         /\ graph["creator"].current = 0

RunInv ==
    /\ checkpoint # Absent => /\ checkpoint = [state |-> graph["creator"]]
                              /\ HighPlan(graph["creator"].plan) /\ at["creator"] \in Past
    /\ run.status = "waiting_approval" => at["approver"] = "watching" /\ checkpoint # Absent
    /\ at[Owner] \notin Past => run.status = "running"
    /\ run.answer = "waiting" => run.status = "waiting_approval"
    /\ run.answer \in Texts => run.answer = graph[Owner].answer /\ run.status \in {"completed", "failed"}

TraceInv ==
    /\ run.status \in {"completed", "failed"} => Tells(trace, calls)
    /\ run.status \in {"running", "waiting_approval"} => Tools(trace) = {}
    /\ at[Owner] \in Open \ {"dispatching", "starting"} => Tells(rec[Owner].events, calls)
    /\ \A t \in Threads : at[t] = "handing back" => Tools(rec[t].events) = {}

IInv == Shapes /\ OwnerInv /\ ThreadsInv /\ RunInv /\ TraceInv

-----------------------------------------------------------------------------
(* Operators *)

(* The smaller of two numbers (Cut, PlanEnds). *)
LEMMA MinOfTwo == ASSUME NEW a \in Nat, NEW b \in Nat PROVE Min({a, b}) = IF a <= b THEN a ELSE b
  <1>1. CASE a <= b
    <2>1. a \in {a, b} /\ \A y \in {a, b} : a =< y
      BY <1>1
    <2>2. \A x \in {a, b} : (\A y \in {a, b} : x =< y) => x = a
      BY <1>1
    <2>3. QED
      BY <1>1, <2>1, <2>2 DEF Min
  <1>2. CASE ~ (a <= b)
    <2>1. b \in {a, b} /\ \A y \in {a, b} : b =< y
      BY <1>2
    <2>2. \A x \in {a, b} : (\A y \in {a, b} : x =< y) => x = b
      BY <1>2
    <2>3. QED
      BY <1>2, <2>1, <2>2 DEF Min
  <1>3. QED
    BY <1>1, <1>2

(* A nonempty set of step numbers has a first (ServiceCitations). *)
LEMMA MinOfSteps == ASSUME NEW S \in SUBSET (1..MaxSteps), S # {} PROVE Min(S) \in S
  <1>1. S \subseteq 1..5
    BY StepsAssumption
  <1>2. \A y \in S : y = 1 \/ y = 2 \/ y = 3 \/ y = 4 \/ y = 5
    BY <1>1
  <1>3. ASSUME NEW x \in S, \A y \in S : x =< y PROVE Min(S) \in S
    BY <1>3 DEF Min
  <1>4. CASE 1 \in S
    BY <1>2, <1>3, <1>4
  <1>5. CASE 1 \notin S /\ 2 \in S
    BY <1>2, <1>3, <1>5
  <1>6. CASE 1 \notin S /\ 2 \notin S /\ 3 \in S
    BY <1>2, <1>3, <1>6
  <1>7. CASE 1 \notin S /\ 2 \notin S /\ 3 \notin S /\ 4 \in S
    BY <1>2, <1>3, <1>7
  <1>8. CASE 1 \notin S /\ 2 \notin S /\ 3 \notin S /\ 4 \notin S
    <2>1. 5 \in S /\ \A y \in S : y = 5
      BY <1>2, <1>8
    <2>2. QED
      BY <1>3, <2>1
  <1>9. QED
    BY <1>4, <1>5, <1>6, <1>7, <1>8

(* A plan that is cut to the budget is a plan. *)
LEMMA CutIsPlan ==
    ASSUME NEW steps \in Seq(StepRows)
    PROVE  /\ Cut(steps) \in PlanRows
           /\ Len(Cut(steps)) = IF Len(steps) <= MaxSteps THEN Len(steps) ELSE MaxSteps
           /\ \A i \in 1..Len(Cut(steps)) : Cut(steps)[i] = steps[i]
  <1>1. Len(steps) \in Nat /\ MaxSteps \in Nat \ {0}
    BY StepsAssumption
  <1> DEFINE n == IF Len(steps) <= MaxSteps THEN Len(steps) ELSE MaxSteps
  <1>2. Cut(steps) = SubSeq(steps, 1, n)
    BY <1>1, MinOfTwo DEF Cut
  <1>3. n \in Nat /\ n <= Len(steps) /\ n <= MaxSteps
    BY <1>1
  <1> HIDE DEF n
  <1>4. SubSeq(steps, 1, n) \in Seq(StepRows) /\ Len(SubSeq(steps, 1, n)) = n
    BY <1>3
  <1>5. \A i \in 1..n : SubSeq(steps, 1, n)[i] = steps[i]
    BY <1>3
  <1>6. QED
    BY <1>2, <1>3, <1>4, <1>5 DEF PlanRows, n

(* The plan of several services has one log query for each of them, if the *)
(* budget allows, and no step of high risk.                                *)
LEMMA SeveralPlans ==
    ASSUME query.services \in Lists, Len(query.services) > 1,
           NEW plan, plan = Cut(MultiServiceSteps(query.services))
    PROVE  /\ plan \in PlanRows /\ plan # <<>> /\ ~ HighPlan(plan)
           /\ \A i \in DOMAIN plan : plan[i].service \in Names(query.services) \cup {NoService}
           /\ MaxSteps >= 3 => \A s \in Names(query.services) : \E i \in DOMAIN plan : plan[i].service = s
  <1> DEFINE ns == query.services
             logs == [i \in DOMAIN ns |-> Step("logs", ns[i])]
             rest == <<Step("tickets", ns[1]), Step("knowledge", NoService)>>
             steps == logs \o rest
  <1>1. ns \in Seq(Services) /\ Len(ns) \in Nat /\ Len(ns) <= 3 /\ DOMAIN ns = 1..Len(ns)
    BY DEF Lists
  <1>2. ns[1] \in Services
    BY <1>1
  <1>3. Tail(EvidenceSteps(ns[1])) = rest
    BY DEF EvidenceSteps
  <1>4. logs \in Seq(StepRows) /\ Len(logs) = Len(ns) /\ \A i \in 1..Len(ns) : logs[i] = Step("logs", ns[i])
    <2>1. \A i \in 1..Len(ns) : Step("logs", ns[i]) \in StepRows
      BY <1>1 DEF Step, StepRows, ToolNames
    <2>2. QED
      BY <1>1, <2>1
  <1>5. rest \in Seq(StepRows) /\ Len(rest) = 2
    <2>1. Step("tickets", ns[1]) \in StepRows /\ Step("knowledge", NoService) \in StepRows
      BY <1>2 DEF Step, StepRows, ToolNames
    <2>2. QED
      BY <2>1
  <1>6. steps \in Seq(StepRows) /\ Len(steps) = Len(ns) + 2
    BY <1>1, <1>4, <1>5
  <1>7. \A i \in 1..Len(ns) : steps[i] = Step("logs", ns[i])
    BY <1>1, <1>4, <1>5
  <1>8. steps[Len(ns) + 1] = Step("tickets", ns[1]) /\ steps[Len(ns) + 2] = Step("knowledge", NoService)
    BY <1>1, <1>4, <1>5
  <1>9. plan = Cut(steps)
    BY <1>3 DEF MultiServiceSteps
  <1> HIDE DEF steps, logs, rest
  <1>10. /\ plan \in PlanRows
         /\ Len(plan) = IF Len(ns) + 2 <= MaxSteps THEN Len(ns) + 2 ELSE MaxSteps
         /\ \A i \in 1..Len(plan) : plan[i] = steps[i]
    BY <1>6, <1>9, CutIsPlan
  <1>11. DOMAIN plan = 1..Len(plan) /\ Len(plan) \in Nat /\ Len(plan) >= 1 /\ Len(plan) <= Len(ns) + 2
    BY <1>1, <1>10, StepsAssumption DEF PlanRows
  <1>12. \A i \in DOMAIN plan :
           /\ plan[i].tool \in {"logs", "tickets", "knowledge"}
           /\ plan[i].service \in Names(ns) \cup {NoService}
    <2> SUFFICES ASSUME NEW i \in 1..Len(plan)
                 PROVE  /\ plan[i].tool \in {"logs", "tickets", "knowledge"}
                        /\ plan[i].service \in Names(ns) \cup {NoService}
      BY <1>11
    <2>1. CASE i \in 1..Len(ns)
      <3>1. plan[i] = Step("logs", ns[i])
        BY <2>1, <1>7, <1>10
      <3>2. ns[i] \in Names(ns)
        BY <2>1, <1>1 DEF Names
      <3>3. QED
        BY <3>1, <3>2 DEF Step
    <2>2. CASE i = Len(ns) + 1
      <3>1. ns[1] \in Names(ns)
        BY <1>1 DEF Names
      <3>2. QED
        BY <2>2, <3>1, <1>8, <1>10 DEF Step
    <2>3. CASE i = Len(ns) + 2
      BY <2>3, <1>8, <1>10 DEF Step
    <2>4. QED
      BY <2>1, <2>2, <2>3, <1>1, <1>11
  <1>13. ~ HighPlan(plan)
    BY <1>12 DEF HighPlan, High
  <1>14. ASSUME MaxSteps >= 3, NEW s \in Names(ns) PROVE \E i \in DOMAIN plan : plan[i].service = s
    <2>1. PICK i \in 1..Len(ns) : ns[i] = s
      BY <1>1 DEF Names
    <2>2. i \in 1..Len(plan)
      BY <1>1, <1>10, <1>14, StepsAssumption
    <2>3. plan[i] = Step("logs", s)
      BY <2>1, <2>2, <1>7, <1>10
    <2>4. QED
      BY <2>2, <2>3, <1>11 DEF Step
  <1>15. plan # <<>>
    BY <1>10, <1>11
  <1>16. QED
    BY <1>10, <1>12, <1>13, <1>14, <1>15

(* Every plan there may be fits the budget. *)
LEMMA PlansAreRows ==
    ASSUME query.services \in Lists, NEW intent \in Intents, NEW plan \in Plans(intent)
    PROVE  plan \in PlanRows
  <1>1. MaxSteps \in Nat /\ MaxSteps >= 1
    BY StepsAssumption
  <1>2. \A tool \in ToolNames : Single(tool) \in PlanRows
    <2>1. \A tool \in ToolNames : Step(tool, NoService) \in StepRows
      BY DEF Step, StepRows
    <2>2. \A tool \in ToolNames : <<Step(tool, NoService)>> \in Seq(StepRows) /\ Len(<<Step(tool, NoService)>>) = 1
      BY <2>1
    <2>3. QED
      BY <1>1, <2>2 DEF Single, PlanRows
  <1>3. <<>> \in PlanRows
    BY <1>1 DEF PlanRows
  <1>4. SingleSteps(intent) \subseteq PlanRows
    BY <1>2, <1>3 DEF SingleSteps, ToolNames, Intents
  <1>5. \A steps \in LlmPlans : Cut(steps) \in PlanRows
    BY PlansAssumption, CutIsPlan DEF StepRows
  <1>6. ASSUME query.services # <<>> PROVE Cut(EvidenceSteps(query.services[1])) \in PlanRows
    <2>1. query.services[1] \in Services
      BY <1>6 DEF Lists
    <2>2. EvidenceSteps(query.services[1]) \in Seq(StepRows)
      BY <2>1 DEF EvidenceSteps, Step, StepRows, ToolNames
    <2>3. QED
      BY <2>2, CutIsPlan
  <1>7. Several(intent) => Cut(MultiServiceSteps(query.services)) \in PlanRows
    BY SeveralPlans DEF Several
  <1>8. QED
    BY <1>4, <1>5, <1>6, <1>7 DEF Plans

-----------------------------------------------------------------------------
(* Traces *)

(* Events that are no calls of tools, before or after those that are,      *)
(* change nothing of what a trace tells.                                   *)
LEMMA TellsConcat ==
    ASSUME NEW s \in Seq(Events), NEW u \in Seq(Events), NEW cs
    PROVE  /\ Tools(s) = {} /\ Tells(u, cs) => Tells(s \o u, cs)
           /\ Tells(s, cs) /\ Tools(u) = {} => Tells(s \o u, cs)
           /\ Tools(s) = {} /\ Tools(u) = {} => Tools(s \o u) = {}
  <1>1. Len(s) \in Nat /\ Len(u) \in Nat /\ DOMAIN s = 1..Len(s) /\ DOMAIN u = 1..Len(u)
    OBVIOUS
  <1>2. /\ DOMAIN (s \o u) = 1..(Len(s) + Len(u))
        /\ \A i \in 1..Len(s) : (s \o u)[i] = s[i]
        /\ \A i \in 1..Len(u) : (s \o u)[Len(s) + i] = u[i]
    OBVIOUS
  <1> DEFINE su == s \o u
  <1>3. \A i \in DOMAIN su : i \in 1..Len(s) \/ (i - Len(s) \in 1..Len(u) /\ i = Len(s) + (i - Len(s)))
    BY <1>1, <1>2
  <1> HIDE DEF su
  <1>4. \A i \in Tools(su) : i \in Tools(s) \/ (i - Len(s) \in Tools(u) /\ i = Len(s) + (i - Len(s)))
    BY <1>1, <1>2, <1>3 DEF Tools, su
  <1>5. /\ \A i \in Tools(s) : i \in Tools(su) /\ su[i] = s[i] /\ i \in Nat
        /\ \A i \in Tools(u) : Len(s) + i \in Tools(su) /\ su[Len(s) + i] = u[i] /\ i \in Nat
    BY <1>1, <1>2 DEF Tools, su
  <1>6. ASSUME Tools(s) = {}, Tells(u, cs) PROVE Tells(su, cs)
    <2>1. {su[i].n : i \in Tools(su)} = {u[i].n : i \in Tools(u)}
      BY <1>4, <1>5, <1>6
    <2>2. \A i, j \in Tools(su) : i < j => su[i].n < su[j].n
      <3> SUFFICES ASSUME NEW i \in Tools(su), NEW j \in Tools(su), i < j PROVE su[i].n < su[j].n
        OBVIOUS
      <3> DEFINE k == i - Len(s)
                 l == j - Len(s)
      <3>1. k \in Tools(u) /\ l \in Tools(u) /\ i = Len(s) + k /\ j = Len(s) + l
        BY <1>4, <1>6
      <3>2. k \in Nat /\ l \in Nat
        BY <3>1, <1>5
      <3> HIDE DEF k, l
      <3>3. k < l
        BY <3>1, <3>2, <1>1
      <3>4. u[k].n < u[l].n
        BY <3>1, <3>3, <1>6 DEF Tells
      <3>5. QED
        BY <3>1, <3>4, <1>5
    <2>3. QED
      BY <2>1, <2>2, <1>6 DEF Tells
  <1>7. ASSUME Tells(s, cs), Tools(u) = {} PROVE Tells(su, cs)
    <2>1. Tools(su) = Tools(s) /\ \A i \in Tools(s) : su[i] = s[i]
      BY <1>4, <1>5, <1>7
    <2>2. {su[i].n : i \in Tools(su)} = {s[i].n : i \in Tools(s)}
      BY <2>1
    <2>3. QED
      BY <2>1, <2>2, <1>7 DEF Tells
  <1>8. ASSUME Tools(s) = {}, Tools(u) = {} PROVE Tools(su) = {}
    BY <1>4, <1>8
  <1>9. QED
    BY <1>6, <1>7, <1>8 DEF su

(* One more event, of a node that calls no tool. *)
LEMMA TellsNode ==
    ASSUME NEW s \in Seq(Events), NEW e \in Events, e.node # "tool", NEW cs
    PROVE  /\ Tells(s, cs) => Tells(Append(s, e), cs)
           /\ Tools(s) = {} => Tools(Append(s, e)) = {}
  <1> DEFINE u == <<e>>
  <1>1. u \in Seq(Events) /\ Append(s, e) = s \o u
    OBVIOUS
  <1>2. Tools(u) = {}
    BY DEF Tools
  <1> HIDE DEF u
  <1>3. QED
    BY <1>1, <1>2, TellsConcat

(* One more call, with its event. *)
LEMMA TellsCall ==
    ASSUME NEW s \in Seq(Events), NEW cs \in Seq(CallRows), NEW e \in Events, NEW c \in CallRows,
           e.node = "tool", e.n = c.n, \A i \in DOMAIN cs : cs[i].n < c.n, Tells(s, cs)
    PROVE  Tells(Append(s, e), Append(cs, c))
  <1> DEFINE t == Append(s, e)
             ds == Append(cs, c)
  <1>1. /\ Len(s) \in Nat /\ DOMAIN s = 1..Len(s) /\ DOMAIN t = 1..(Len(s) + 1)
        /\ t[Len(s) + 1] = e /\ \A i \in 1..Len(s) : t[i] = s[i]
    OBVIOUS
  <1>2. /\ Len(cs) \in Nat /\ DOMAIN cs = 1..Len(cs) /\ DOMAIN ds = 1..(Len(cs) + 1)
        /\ ds[Len(cs) + 1] = c /\ \A i \in 1..Len(cs) : ds[i] = cs[i]
    OBVIOUS
  <1> HIDE DEF t, ds
  <1>3. Tools(t) = Tools(s) \cup {Len(s) + 1}
    BY <1>1 DEF Tools
  <1>4. DOMAIN ds = DOMAIN cs \cup {Len(cs) + 1}
    BY <1>2
  <1>5. \A i \in Tools(s) : t[i] = s[i] /\ i \in 1..Len(s)
    BY <1>1 DEF Tools
  <1>6. {t[i].n : i \in Tools(t)} = {s[i].n : i \in Tools(s)} \cup {e.n}
    <2>1. \A i \in Tools(s) : t[i].n = s[i].n
      BY <1>5
    <2>2. t[Len(s) + 1].n = e.n
      BY <1>1
    <2>3. {t[i].n : i \in Tools(s)} = {s[i].n : i \in Tools(s)}
      BY <2>1
    <2>4. {t[i].n : i \in Tools(s) \cup {Len(s) + 1}} = {t[i].n : i \in Tools(s)} \cup {t[Len(s) + 1].n}
      OBVIOUS
    <2>5. QED
      BY <2>2, <2>3, <2>4, <1>3
  <1>7. {ds[i].n : i \in DOMAIN ds} = {cs[i].n : i \in DOMAIN cs} \cup {c.n}
    BY <1>2, <1>4
  <1>8. \A i \in Tools(s) : s[i].n < c.n
    <2>1. \A i \in Tools(s) : s[i].n \in {cs[j].n : j \in DOMAIN cs}
      BY DEF Tells
    <2>2. QED
      BY <2>1
  <1>9. \A i, j \in Tools(t) : i < j => t[i].n < t[j].n
    <2> SUFFICES ASSUME NEW i \in Tools(t), NEW j \in Tools(t), i < j PROVE t[i].n < t[j].n
      OBVIOUS
    <2>1. i \in Tools(s)
      BY <1>1, <1>3, <1>5
    <2>2. CASE j \in Tools(s)
      BY <2>1, <2>2, <1>5 DEF Tells
    <2>3. CASE j = Len(s) + 1
      BY <2>1, <2>3, <1>1, <1>5, <1>8
    <2>4. QED
      BY <2>2, <2>3, <1>3
  <1>10. QED
    BY <1>6, <1>7, <1>9 DEF Tells, t, ds

-----------------------------------------------------------------------------
(* A node of the graph *)

(* Only the owner has nodes of the graph to run. *)
LEMMA OpenIsOwner ==
    ASSUME IInv, NEW t \in Threads, at[t] \in Open
    PROVE  t = Owner /\ run.status = "running"
  <1>1. at[t] \notin Past /\ at[t] # "watching"
    BY DEF Open, Early, Past
  <1>2. t = Owner
    BY <1>1 DEF IInv, ThreadsInv, Owner, Threads
  <1>3. QED
    BY <1>1, <1>2 DEF IInv, RunInv

(* The invariant holds after a node if its output g fits the calls made,   *)
(* the place the thread goes on from, and what the other thread has.       *)
LEMMA RanInv ==
    ASSUME IInv, NEW t \in Threads, at[t] \in Open,
           NEW g \in GraphRows(query.services), NEW next \in Open \ {"dispatching", "starting"},
           NEW node \in Nodes, NEW cs \in Seq(CallRows),
           Ran(t, node, g, next), calls' = cs,
           UNCHANGED <<query, run, checkpoint, trace, decision, told>>,
           GraphIsSound(query.services, g, cs), PlaceIsSound(next, g, cs),
           t = "creator" => CreatorIsSound(next, g, cs),
           t = "approver" => ApproverIsSound(next, g, cs, decision) /\ g.plan = graph[t].plan,
           Tells(Append(rec[t].events, Event(node, g.current)), cs)
    PROVE  IInv'
  <1> DEFINE events == Append(rec[t].events, Event(node, g.current))
  <1>1. t = Owner /\ run.status = "running" /\ at[t] # "watching" /\ at[t] \notin Past
    BY OpenIsOwner DEF Open, Early, Past
  <1>2. next # "watching" /\ next \notin Past /\ next \in States /\ next # "handing back"
    BY DEF Open, Early, Past, States
  <1>3. /\ at \in [Threads -> States] /\ graph \in [Threads -> GraphRows(query.services)]
        /\ rec \in [Threads -> [from: Nat \ {0}, events: Seq(Events)]]
    BY DEF IInv, Shapes
  <1>4. /\ at'[t] = next /\ \A o \in Threads : o # t => at'[o] = at[o]
        /\ at' \in [Threads -> States]
    BY <1>2, <1>3 DEF Ran
  <1>5. /\ graph'[t] = g /\ \A o \in Threads : o # t => graph'[o] = graph[o]
        /\ graph' \in [Threads -> GraphRows(query.services)]
    BY <1>3 DEF Ran
  <1>6. events \in Seq(Events)
    <2>1. g.current \in Nat
      BY DEF GraphRows
    <2>2. Event(node, g.current) \in Events
      BY <2>1 DEF Event, Events
    <2>3. rec[t].events \in Seq(Events)
      BY <1>3
    <2>4. QED
      BY <2>2, <2>3
  <1>7. /\ rec'[t] = [from |-> rec[t].from, events |-> events]
        /\ \A o \in Threads : o # t => rec'[o] = rec[o]
    BY <1>3 DEF Ran
  <1>8. rec'[t].events = events
    BY <1>7
  <1>9. rec' \in [Threads -> [from: Nat \ {0}, events: Seq(Events)]]
    BY <1>3, <1>6 DEF Ran
  <1> HIDE DEF events
  <1>10. Owner' = Owner
    BY <1>1, <1>2, <1>4 DEF Owner, Threads
  <1>11. Shapes'
    BY <1>4, <1>5, <1>9 DEF IInv, Shapes
  <1>12. OwnerInv'
    BY <1>1, <1>4, <1>5, <1>10 DEF OwnerInv
  <1>13. ThreadsInv'
    <2>1. CASE t = "creator"
      BY <2>1, <1>1, <1>4, <1>5, <1>10 DEF IInv, ThreadsInv, Threads
    <2>2. CASE t = "approver"
      BY <2>2, <1>1, <1>4, <1>5, <1>10 DEF IInv, ThreadsInv, Threads
    <2>3. QED
      BY <2>1, <2>2 DEF Threads
  <1>14. RunInv'
    <2>1. checkpoint # Absent => t # "creator"
      BY <1>1 DEF IInv, RunInv
    <2>2. run.answer # "waiting" /\ run.answer \notin Texts
      BY <1>1 DEF IInv, RunInv
    <2>3. checkpoint # Absent => graph'["creator"] = graph["creator"] /\ at'["creator"] = at["creator"]
      BY <2>1, <1>4, <1>5 DEF Threads
    <2>4. QED
      BY <2>2, <2>3, <1>1 DEF IInv, RunInv
  <1>15. TraceInv'
    <2>1. \A o \in Threads : at'[o] = "handing back" => Tools(rec'[o].events) = {}
      BY <1>2, <1>4, <1>7 DEF IInv, TraceInv
    <2>2. Tells(rec'[t].events, calls')
      BY <1>8 DEF events
    <2>3. QED
      BY <2>1, <2>2, <1>1, <1>10 DEF IInv, TraceInv
  <1>16. QED
    BY <1>11, <1>12, <1>13, <1>14, <1>15 DEF IInv

(* What is known of a thread that has a node of the graph to run. *)
LEMMA Standing ==
    ASSUME IInv, NEW t \in Threads, at[t] \in Open
    PROVE  /\ query \in [mode: {"single", "specialist"}, llm: BOOLEAN, services: Lists]
           /\ graph[t] \in GraphRows(query.services) /\ calls \in Seq(CallRows)
           /\ rec[t].events \in Seq(Events)
           /\ GraphIsSound(query.services, graph[t], calls)
           /\ PlaceIsSound(at[t], graph[t], calls)
           /\ t = "creator" => CreatorIsSound(at[t], graph[t], calls)
           /\ t = "approver" => ApproverIsSound(at[t], graph[t], calls, decision)
           /\ at[t] \notin {"dispatching", "starting"} => Tells(rec[t].events, calls)
  <1>1. t = Owner
    BY OpenIsOwner
  <1>2. /\ query \in [mode: {"single", "specialist"}, llm: BOOLEAN, services: Lists]
        /\ graph[t] \in GraphRows(query.services) /\ calls \in Seq(CallRows)
        /\ rec[t].events \in Seq(Events)
    BY DEF IInv, Shapes
  <1>3. GraphIsSound(query.services, graph[t], calls) /\ PlaceIsSound(at[t], graph[t], calls)
    BY <1>1 DEF IInv, OwnerInv
  <1>4. /\ t = "creator" => CreatorIsSound(at[t], graph[t], calls)
        /\ t = "approver" => ApproverIsSound(at[t], graph[t], calls, decision)
    BY <1>1 DEF IInv, ThreadsInv
  <1>5. at[t] \notin {"dispatching", "starting"} => Tells(rec[t].events, calls)
    BY <1>1 DEF IInv, TraceInv
  <1>6. QED
    BY <1>2, <1>3, <1>4, <1>5

(* As RanInv, for a node that calls no tool. *)
LEMMA NodeInv ==
    ASSUME IInv, NEW t \in Threads, at[t] \in Open \ {"dispatching", "starting"},
           NEW g \in GraphRows(query.services), NEW next \in Open \ {"dispatching", "starting"},
           NEW node \in Nodes \ {"tool"}, Ran(t, node, g, next),
           UNCHANGED <<query, run, checkpoint, trace, calls, decision, told>>,
           GraphIsSound(query.services, g, calls), PlaceIsSound(next, g, calls),
           t = "creator" => CreatorIsSound(next, g, calls),
           t = "approver" => ApproverIsSound(next, g, calls, decision) /\ g.plan = graph[t].plan
    PROVE  IInv'
  <1>1. calls \in Seq(CallRows) /\ rec[t].events \in Seq(Events) /\ Tells(rec[t].events, calls)
    BY Standing
  <1> DEFINE e == Event(node, g.current)
  <1>2. e \in Events /\ e.node # "tool"
    BY DEF Event, Events, GraphRows
  <1> HIDE DEF e
  <1>3. Tells(Append(rec[t].events, e), calls)
    BY <1>1, <1>2, TellsNode
  <1>4. QED
    BY <1>1, <1>3, RanInv DEF e

(* The records of the services are compared with plan and calls alone. *)
LEMMA SeveralAgrees ==
    ASSUME NEW ns, NEW cs, NEW g, NEW h, SeveralIsSound(ns, g, cs),
           h.plan = g.plan, h.inv = g.inv, h.error = g.error
    PROVE  SeveralIsSound(ns, h, cs)
  <1>1. \A step : ServiceOf(ns, h, step) = ServiceOf(ns, g, step)
    BY DEF ServiceOf
  <1>2. \A s : CallsOf(ns, h, cs, s) = CallsOf(ns, g, cs, s)
    BY <1>1 DEF CallsOf
  <1>3. \A s, n : More(ns, h, s, n) <=> More(ns, g, s, n)
    BY <1>1 DEF More
  <1>4. \A s : ServiceIsSound(ns, g, cs, s) => ServiceIsSound(ns, h, cs, s)
    BY <1>2, <1>3 DEF ServiceIsSound
  <1>5. QED
    BY <1>1, <1>4 DEF SeveralIsSound

(* What is compared with the calls does not depend on the other fields. *)
LEMMA GraphAgrees ==
    ASSUME NEW ns, NEW cs, NEW g, NEW h, GraphIsSound(ns, g, cs),
           h.plan = g.plan, h.inv = g.inv, h.current = g.current, h.evidence = g.evidence,
           h.error = g.error, h.analysis = g.analysis, h.answer = g.answer
    PROVE  GraphIsSound(ns, h, cs)
  <1>1. SeveralIsSound(ns, h, cs)
    BY SeveralAgrees DEF GraphIsSound
  <1>2. OneIsSound(h, cs) /\ AnalysisIsSound(h, cs)
    BY DEF GraphIsSound, OneIsSound, AnalysisIsSound
  <1>3. AnswerIsSound(h)
    BY DEF GraphIsSound, AnswerIsSound, Text
  <1>4. QED
    BY <1>1, <1>2, <1>3 DEF GraphIsSound

LEMMA NoHighStep == ~ HighPlan(<<>>)
  BY DEF HighPlan

LEMMA RouteInv == ASSUME IInv, NEW t \in Threads, Route(t) PROVE IInv'
  <1> DEFINE g == graph[t]
  <1>1. at[t] = "routing" /\ at[t] \in Open
    BY DEF Route, Open, Early
  <1>2. g \in GraphRows(query.services) /\ GraphIsSound(query.services, g, calls) /\ PlaceIsSound("routing", g, calls)
    BY <1>1, Standing
  <1>3. t = "creator" /\ CreatorIsSound("routing", g, calls)
    BY <1>1, Standing DEF ApproverIsSound, Past, Threads
  <1>4. PICK intent \in Intents : Ran(t, "router", [g EXCEPT !.intent = intent], "planning")
    BY DEF Route
  <1> DEFINE h == [g EXCEPT !.intent = intent]
  <1>5. /\ h \in GraphRows(query.services)
        /\ h.plan = g.plan /\ h.inv = g.inv /\ h.current = g.current /\ h.evidence = g.evidence
        /\ h.error = g.error /\ h.analysis = g.analysis /\ h.answer = g.answer /\ h.resume = g.resume
    BY <1>2 DEF GraphRows
  <1> HIDE DEF h
  <1>6. GraphIsSound(query.services, h, calls)
    BY <1>2, <1>5, GraphAgrees
  <1>7. PlaceIsSound("planning", h, calls)
    BY <1>2, <1>5 DEF PlaceIsSound, Early
  <1>8. CreatorIsSound("planning", h, calls)
    BY <1>2, <1>3, <1>5, NoHighStep DEF CreatorIsSound, PlaceIsSound
  <1>9. Ran(t, "router", h, "planning") /\ UNCHANGED <<query, run, checkpoint, trace, calls, decision, told>>
    BY <1>4 DEF Route, h
  <1>10. "router" \in Nodes \ {"tool"} /\ "planning" \in Open \ {"dispatching", "starting"}
    BY DEF Nodes, Open, Early
  <1>11. QED
    BY <1>1, <1>3, <1>5, <1>6, <1>7, <1>8, <1>9, <1>10, NodeInv

LEMMA PlanInv == ASSUME IInv, NEW t \in Threads, Plan(t) PROVE IInv'
  <1> DEFINE g == graph[t]
             ns == query.services
  <1>1. at[t] = "planning" /\ at[t] \in Open
    BY DEF Plan, Open, Early
  <1>2. /\ ns \in Lists /\ g \in GraphRows(ns) /\ calls \in Seq(CallRows)
        /\ GraphIsSound(ns, g, calls) /\ PlaceIsSound("planning", g, calls)
    BY <1>1, Standing
  <1>3. t = "creator" /\ CreatorIsSound("planning", g, calls)
    BY <1>1, Standing DEF ApproverIsSound, Past, Threads
  <1>4. calls = <<>> /\ g.analysis = Absent /\ g.answer = "none" /\ g.error = "none"
    BY <1>2 DEF PlaceIsSound, Early
  <1>5. g.intent \in Intents
    BY <1>2 DEF GraphRows
  <1> DEFINE records == IF Several(g.intent) THEN [s \in Range(ns) |-> Pending] ELSE <<>>
  <1>6. PICK plan \in Plans(g.intent) :
          Ran(t, "planner", [g EXCEPT !.plan = plan, !.inv = records, !.current = 0],
              IF plan = <<>> THEN "answering" ELSE "checking")
    BY DEF Plan
  <1> DEFINE h == [g EXCEPT !.plan = plan, !.inv = records, !.current = 0]
             next == IF plan = <<>> THEN "answering" ELSE "checking"
  <1>7. plan \in PlanRows
    BY <1>2, <1>5, PlansAreRows
  <1>8. records \in {<<>>} \cup [Names(ns) -> InvRows]
    BY DEF Pending, InvRows, Names, Range
  <1>9. ASSUME records # <<>>
        PROVE  /\ records = [s \in Names(ns) |-> Pending] /\ Len(ns) > 1
               /\ plan = Cut(MultiServiceSteps(ns))
    BY <1>6, <1>9 DEF Several, Plans, Names, Range
  <1>10. ASSUME records # <<>>
         PROVE  /\ plan # <<>> /\ ~ HighPlan(plan)
                /\ \A i \in DOMAIN plan : plan[i].service \in Names(ns) \cup {NoService}
                /\ MaxSteps >= 3 => \A s \in Names(ns) : \E i \in DOMAIN plan : plan[i].service = s
    BY <1>2, <1>9, <1>10, SeveralPlans
  <1> HIDE DEF records
  <1>11. /\ h \in GraphRows(ns) /\ h.plan = plan /\ h.inv = records /\ h.current = 0
         /\ h.evidence = g.evidence /\ h.error = "none" /\ h.analysis = Absent /\ h.answer = "none"
         /\ h.resume = g.resume
    BY <1>2, <1>4, <1>7, <1>8 DEF GraphRows
  <1> HIDE DEF h
  <1>12. Len(calls) = 0 /\ DOMAIN calls = {} /\ Succeeded(calls) = {}
    BY <1>4 DEF Succeeded
  <1>13. SeveralIsSound(ns, h, calls)
    <2> SUFFICES ASSUME records # <<>> PROVE SeveralIsSound(ns, h, calls)
      BY <1>11 DEF SeveralIsSound
    <2>1. \A s \in Names(ns) : ServiceIsSound(ns, h, calls, s)
      <3> SUFFICES ASSUME NEW s \in Names(ns) PROVE ServiceIsSound(ns, h, calls, s)
        OBVIOUS
      <3>1. h.inv[s] = Pending
        BY <1>9, <1>11
      <3>2. CallsOf(ns, h, calls, s) = {}
        BY <1>12 DEF CallsOf
      <3>3. QED
        BY <3>1, <3>2 DEF ServiceIsSound, Pending
    <2>2. ASSUME MaxSteps >= 3, NEW s \in Names(ns)
          PROVE  \E i \in DOMAIN plan : ServiceOf(ns, h, plan[i]) = s
      <3>1. PICK i \in DOMAIN plan : plan[i].service = s
        BY <1>10, <2>2
      <3>2. s # NoService
        BY <1>2, PlansAssumption DEF Names, Lists
      <3>3. QED
        BY <3>1, <3>2 DEF ServiceOf
    <2>3. QED
      BY <1>9, <1>10, <1>11, <2>1, <2>2 DEF SeveralIsSound
  <1>14. OneIsSound(h, calls) /\ AnalysisIsSound(h, calls) /\ AnswerIsSound(h)
    BY <1>4, <1>11, <1>12 DEF OneIsSound, AnalysisIsSound, AnswerIsSound
  <1>15. GraphIsSound(ns, h, calls)
    <2>1. Len(plan) \in Nat
      BY <1>7 DEF PlanRows
    <2>2. {h.evidence[i] : i \in DOMAIN h.evidence} = Succeeded(calls)
      BY <1>2, <1>11 DEF GraphIsSound
    <2>3. QED
      BY <1>4, <1>11, <1>12, <1>13, <1>14, <2>1, <2>2 DEF GraphIsSound
  <1>16. PlaceIsSound(next, h, calls)
    BY <1>4, <1>10, <1>11 DEF PlaceIsSound, Early
  <1>17. CreatorIsSound(next, h, calls)
    BY <1>3, <1>4, <1>11, NoHighStep DEF CreatorIsSound
  <1>18. "planner" \in Nodes \ {"tool"} /\ next \in Open \ {"dispatching", "starting"}
    BY DEF Nodes, Open, Early
  <1>19. Ran(t, "planner", h, next) /\ UNCHANGED <<query, run, checkpoint, trace, calls, decision, told>>
    BY <1>6 DEF Plan, h
  <1> HIDE DEF next
  <1>20. QED
    BY <1>1, <1>3, <1>11, <1>15, <1>16, <1>17, <1>18, <1>19, NodeInv

LEMMA CheckRiskInv == ASSUME IInv, NEW t \in Threads, CheckRisk(t) PROVE IInv'
  <1> DEFINE g == graph[t]
             ns == query.services
             high == HighPlan(g.plan)
             known == \A i \in DOMAIN g.plan : Registered(g.plan[i].tool)
  <1>1. at[t] = "checking" /\ at[t] \in Open
    BY DEF CheckRisk, Open, Early
  <1>2. /\ g \in GraphRows(ns) /\ GraphIsSound(ns, g, calls) /\ PlaceIsSound("checking", g, calls)
        /\ calls \in Seq(CallRows)
    BY <1>1, Standing
  <1>3. t = "creator" /\ CreatorIsSound("checking", g, calls)
    BY <1>1, Standing DEF ApproverIsSound, Past, Threads
  <1>4. /\ calls = <<>> /\ g.analysis = Absent /\ g.answer = "none" /\ g.error = "none"
        /\ g.plan # <<>>
    BY <1>2 DEF PlaceIsSound, Early
  <1>5. UNCHANGED <<query, run, checkpoint, trace, calls, decision, told>>
    BY DEF CheckRisk
  <1>6. CASE ~ known
    <2>1. Ran(t, "risk", g, "failing")
      BY <1>6 DEF CheckRisk
    <2>2. PlaceIsSound("failing", g, calls) /\ CreatorIsSound("failing", g, calls)
      BY <1>3, <1>4 DEF PlaceIsSound, CreatorIsSound, Early
    <2>3. "risk" \in Nodes \ {"tool"} /\ "failing" \in Open \ {"dispatching", "starting"}
      BY DEF Nodes, Open, Early
    <2>4. QED
      BY <1>1, <1>2, <1>3, <1>5, <2>1, <2>2, <2>3, NodeInv
  <1>7. CASE known
    <2> DEFINE h == [g EXCEPT !.requires = high, !.approval = IF high THEN "pending" ELSE "none"]
               next == IF high THEN "gating" ELSE "executing"
    <2>1. Ran(t, "risk", h, next)
      BY <1>7 DEF CheckRisk
    <2>2. high \in BOOLEAN
      BY DEF HighPlan
    <2>3. /\ h \in GraphRows(ns)
          /\ h.plan = g.plan /\ h.inv = g.inv /\ h.current = g.current /\ h.evidence = g.evidence
          /\ h.error = g.error /\ h.analysis = g.analysis /\ h.answer = g.answer /\ h.resume = g.resume
      BY <1>2, <2>2 DEF GraphRows
    <2> HIDE DEF h
    <2>4. GraphIsSound(ns, h, calls)
      BY <1>2, <2>3, GraphAgrees
    <2>5. Len(calls) < Len(g.plan)
      <3>1. g.plan \in Seq(StepRows)
        BY <1>2 DEF GraphRows, PlanRows
      <3>2. QED
        BY <1>4, <3>1
    <2>6. PlaceIsSound(next, h, calls)
      BY <1>4, <2>3, <2>5 DEF PlaceIsSound, Early
    <2>7. CreatorIsSound(next, h, calls)
      BY <1>3, <1>4, <2>3 DEF CreatorIsSound
    <2>8. "risk" \in Nodes \ {"tool"} /\ next \in Open \ {"dispatching", "starting"}
      BY DEF Nodes, Open, Early
    <2> HIDE DEF next
    <2>9. QED
      BY <1>1, <1>3, <1>5, <2>1, <2>3, <2>4, <2>6, <2>7, <2>8, NodeInv
  <1>8. QED
    BY <1>6, <1>7

LEMMA GateInv == ASSUME IInv, NEW t \in Threads, Gate(t) PROVE IInv'
  <1> DEFINE g == graph[t]
  <1>1. at[t] = "gating" /\ at[t] \in Open
    BY DEF Gate, Open, Early
  <1>2. /\ g \in GraphRows(query.services) /\ GraphIsSound(query.services, g, calls)
        /\ PlaceIsSound("gating", g, calls)
    BY <1>1, Standing
  <1>3. t = "creator" /\ CreatorIsSound("gating", g, calls)
    BY <1>1, Standing DEF ApproverIsSound, Past, Threads
  <1>4. PlaceIsSound("interrupted", g, calls) /\ CreatorIsSound("interrupted", g, calls)
    BY <1>2, <1>3 DEF PlaceIsSound, CreatorIsSound, Early
  <1>5. "gate" \in Nodes \ {"tool"} /\ "interrupted" \in Open \ {"dispatching", "starting"}
    BY DEF Nodes, Open, Early
  <1>6. QED
    BY <1>1, <1>2, <1>3, <1>4, <1>5, NodeInv DEF Gate

LEMMA DecideInv == ASSUME IInv, NEW t \in Threads, Decide(t) PROVE IInv'
  <1> DEFINE g == graph[t]
             ns == query.services
             error == Refusal(g.action)
             next == IF error = "none" THEN "executing" ELSE "answering"
             h == [g EXCEPT !.requires = FALSE, !.resume = FALSE, !.error = error,
                            !.approval = IF error = "none" THEN "approved" ELSE error]
  <1>1. at[t] = "deciding" /\ at[t] \in Open
    BY DEF Decide, Open, Early
  <1>2. /\ g \in GraphRows(ns) /\ calls \in Seq(CallRows)
        /\ GraphIsSound(ns, g, calls) /\ PlaceIsSound("deciding", g, calls)
    BY <1>1, Standing
  <1>3. t = "approver" /\ ApproverIsSound("deciding", g, calls, decision)
    BY <1>1, Standing DEF CreatorIsSound, Threads
  <1>4. /\ calls = <<>> /\ g.analysis = Absent /\ g.answer = "none"
        /\ HighPlan(g.plan) /\ g.action \in Actions
    BY <1>2, <1>3 DEF PlaceIsSound, Early, ApproverIsSound
  <1>5. error \in {"none", "rejected", "cancelled"} /\ (error = "none" => g.action = "approve")
    BY <1>4 DEF Refusal, Actions
  <1> HIDE DEF error
  <1>6. /\ h \in GraphRows(ns)
        /\ h.plan = g.plan /\ h.inv = g.inv /\ h.current = g.current /\ h.evidence = g.evidence
        /\ h.error = error /\ h.analysis = g.analysis /\ h.answer = g.answer
        /\ h.action = g.action /\ h.resume = FALSE
    BY <1>2, <1>5 DEF GraphRows
  <1>7. Ran(t, "decision", h, next) /\ UNCHANGED <<query, run, checkpoint, trace, calls, decision, told>>
    BY DEF Decide, error
  <1> HIDE DEF h
  <1>8. g.inv = <<>> /\ Len(calls) < Len(g.plan)
    <2>1. g.inv = <<>>
      BY <1>2, <1>4 DEF GraphIsSound, SeveralIsSound
    <2>2. g.plan \in Seq(StepRows) /\ g.plan # <<>>
      BY <1>2, <1>4, NoHighStep DEF GraphRows, PlanRows
    <2>3. QED
      BY <1>4, <2>1, <2>2
  <1>9. GraphIsSound(ns, h, calls)
    <2>1. SeveralIsSound(ns, h, calls)
      BY <1>6, <1>8 DEF SeveralIsSound
    <2>2. OneIsSound(h, calls)
      BY <1>4, <1>5 , <1>6 DEF OneIsSound
    <2>3. AnalysisIsSound(h, calls) /\ AnswerIsSound(h)
      BY <1>4, <1>6 DEF AnalysisIsSound, AnswerIsSound
    <2>4. QED
      BY <1>2, <1>4, <1>6, <2>1, <2>2, <2>3 DEF GraphIsSound
  <1>10. PlaceIsSound(next, h, calls)
    BY <1>4, <1>6, <1>8 DEF PlaceIsSound, Early
  <1>11. ApproverIsSound(next, h, calls, decision)
    BY <1>3, <1>4, <1>5, <1>6 DEF ApproverIsSound
  <1>12. "decision" \in Nodes \ {"tool"} /\ next \in Open \ {"dispatching", "starting"}
    BY DEF Nodes, Open, Early
  <1> HIDE DEF next
  <1>13. QED
    BY <1>1, <1>3, <1>6, <1>7, <1>9, <1>10, <1>11, <1>12, NodeInv

LEMMA BreakInv == ASSUME IInv, NEW t \in Threads, Break(t) PROVE IInv'
  <1> DEFINE g == graph[t]
  <1>1. at[t] = "executing" /\ at[t] \in Open
    BY DEF Break, Open
  <1>2. /\ g \in GraphRows(query.services) /\ GraphIsSound(query.services, g, calls)
        /\ PlaceIsSound("executing", g, calls)
        /\ t = "creator" => CreatorIsSound("executing", g, calls)
        /\ t = "approver" => ApproverIsSound("executing", g, calls, decision)
    BY <1>1, Standing
  <1>3. PlaceIsSound("failing", g, calls)
    BY <1>2 DEF PlaceIsSound, Early
  <1>4. /\ t = "creator" => CreatorIsSound("failing", g, calls)
        /\ t = "approver" => ApproverIsSound("failing", g, calls, decision)
    BY <1>2 DEF CreatorIsSound, ApproverIsSound
  <1>5. "broken" \in Nodes \ {"tool"} /\ "failing" \in Open \ {"dispatching", "starting"}
    BY DEF Nodes, Open, Early
  <1>6. QED
    BY <1>1, <1>2, <1>3, <1>4, <1>5, NodeInv DEF Break

-----------------------------------------------------------------------------
(* The tool executor *)

(* Several services are more than one. *)
LEMMA SeveralNames ==
    ASSUME NEW ns \in Lists, Len(ns) > 1
    PROVE  Cardinality(Names(ns)) > 1
  <1>1. ns \in Seq(Services) /\ Len(ns) \in Nat /\ DOMAIN ns = 1..Len(ns) /\ IsInjective(ns)
    BY DEF Lists
  <1>2. 1 \in DOMAIN ns /\ 2 \in DOMAIN ns
    BY <1>1
  <1>3. ns[1] # ns[2]
    BY <1>1, <1>2 DEF IsInjective
  <1>4. IsFiniteSet(Names(ns))
    <2>1. IsFiniteSet({ns[1]})
      BY FS_Singleton
    <2>2. IsFiniteSet({ns[1]} \cup {ns[2]})
      BY <2>1, FS_AddElement
    <2>3. IsFiniteSet({ns[1]} \cup {ns[2]} \cup {ns[3]})
      BY <2>2, FS_AddElement
    <2>4. Names(ns) \subseteq {ns[1]} \cup {ns[2]} \cup {ns[3]}
      <3>1. \A i \in 1..Len(ns) : i = 1 \/ i = 2 \/ i = 3
        BY DEF Lists
      <3>2. QED
        BY <1>1, <3>1 DEF Names
    <2>5. QED
      BY <2>3, <2>4, FS_Subset
  <1>5. {ns[1], ns[2]} \subseteq Names(ns)
    BY <1>2 DEF Names
  <1>6. Cardinality({ns[1], ns[2]}) = 2
    <2>1. IsFiniteSet({ns[1]}) /\ Cardinality({ns[1]}) = 1
      BY FS_Singleton
    <2>2. Cardinality({ns[1]} \cup {ns[2]}) = Cardinality({ns[1]}) + 1
      BY <1>3, <2>1, FS_AddElement
    <2>3. {ns[1]} \cup {ns[2]} = {ns[1], ns[2]}
      OBVIOUS
    <2>4. QED
      BY <2>1, <2>2, <2>3
  <1>7. Cardinality({ns[1], ns[2]}) <= Cardinality(Names(ns)) /\ Cardinality(Names(ns)) \in Nat
    BY <1>4, <1>5, FS_Subset, FS_CardinalityType
  <1>8. QED
    BY <1>6, <1>7

(* The record of a service after its call c *)
RecordAfter(ns, g, service, c, row) ==
    /\ row \in InvRows
    /\ row.evidence = IF c.ok THEN g.inv[service].evidence \cup {c.n} ELSE g.inv[service].evidence
    /\ row.failed = IF c.ok THEN g.inv[service].failed ELSE TRUE
    /\ row.status = IF row.failed THEN IF row.evidence # {} THEN "partial" ELSE "failed"
                    ELSE IF More(ns, g, service, c.n) THEN "running" ELSE "completed"

InvAfter(ns, g, service, c, inv) ==
    \E row : RecordAfter(ns, g, service, c, row) /\ inv = [g.inv EXCEPT ![service] = row]

(* The record of every service says how its calls went, after one more. *)
LEMMA ServicesAfterCall ==
    ASSUME NEW ns \in Lists, NEW g \in GraphRows(ns), NEW cs \in Seq(CallRows), NEW c \in CallRows,
           NEW h \in GraphRows(ns),
           GraphIsSound(ns, g, cs), g.inv # <<>>, Len(cs) < Len(g.plan), c.n = Len(cs) + 1,
           NEW service \in Names(ns), service = ServiceOf(ns, g, g.plan[c.n]),
           h.plan = g.plan, InvAfter(ns, g, service, c, h.inv)
    PROVE  /\ h.inv # <<>> /\ DOMAIN h.inv = Names(ns)
           /\ \A step : ServiceOf(ns, h, step) = ServiceOf(ns, g, step)
           /\ \A s \in Names(ns) : ServiceIsSound(ns, h, Append(cs, c), s)
  <1> DEFINE ds == Append(cs, c)
             n == c.n
  <1>a. PICK row : RecordAfter(ns, g, service, c, row) /\ h.inv = [g.inv EXCEPT ![service] = row]
    BY DEF InvAfter
  <1>b. /\ row.evidence = IF c.ok THEN g.inv[service].evidence \cup {c.n} ELSE g.inv[service].evidence
        /\ row.failed = IF c.ok THEN g.inv[service].failed ELSE TRUE
        /\ row.status = IF row.failed THEN IF row.evidence # {} THEN "partial" ELSE "failed"
                        ELSE IF More(ns, g, service, c.n) THEN "running" ELSE "completed"
    BY <1>a DEF RecordAfter
  <1>1. /\ Len(cs) \in Nat /\ DOMAIN cs = 1..Len(cs) /\ DOMAIN ds = 1..n /\ ds[n] = c
        /\ n = Len(cs) + 1 /\ Len(ds) = n /\ \A i \in 1..Len(cs) : ds[i] = cs[i]
    OBVIOUS
  <1> HIDE DEF ds
  <1>2. g.inv \in [Names(ns) -> InvRows]
    BY DEF GraphRows
  <1>3. DOMAIN h.inv = Names(ns) /\ h.inv[service] = row /\ \A s \in Names(ns) \ {service} : h.inv[s] = g.inv[s]
    BY <1>2, <1>a
  <1>4. h.inv # <<>>
    BY <1>3
  <1>5. \A step : ServiceOf(ns, h, step) = ServiceOf(ns, g, step)
    BY <1>4 DEF ServiceOf
  <1>6. \A s : CallsOf(ns, h, ds, s) = IF s = service THEN CallsOf(ns, g, cs, s) \cup {n} ELSE CallsOf(ns, g, cs, s)
    BY <1>1, <1>5 DEF CallsOf
  <1>7. \A s : n \notin CallsOf(ns, g, cs, s) /\ CallsOf(ns, g, cs, s) \subseteq 1..Len(cs)
    BY <1>1 DEF CallsOf
  <1>8. \A s, m : More(ns, h, s, m) <=> More(ns, g, s, m)
    BY <1>5 DEF More
  <1>9. \A s : s # service => (More(ns, g, s, Len(cs)) <=> More(ns, g, s, n))
    <2>1. \A i \in DOMAIN g.plan : i \in Nat
      BY DEF GraphRows, PlanRows
    <2>2. QED
      BY <1>1, <2>1 DEF More
  <1>10. ASSUME NEW s \in Names(ns) \ {service} PROVE ServiceIsSound(ns, h, ds, s)
    <2>1. ServiceIsSound(ns, g, cs, s)
      BY DEF GraphIsSound, SeveralIsSound
    <2>2. CallsOf(ns, h, ds, s) = CallsOf(ns, g, cs, s) /\ \A i \in CallsOf(ns, g, cs, s) : ds[i] = cs[i]
      BY <1>1, <1>6, <1>7
    <2>3. h.inv[s] = g.inv[s] /\ (More(ns, h, s, Len(ds)) <=> More(ns, g, s, Len(cs)))
      BY <1>1, <1>3, <1>8, <1>9
    <2>4. QED
      BY <2>1, <2>2, <2>3 DEF ServiceIsSound
  <1>11. ServiceIsSound(ns, h, ds, service)
    <2> DEFINE K == CallsOf(ns, g, cs, service)
               L == CallsOf(ns, h, ds, service)
    <2>1. ServiceIsSound(ns, g, cs, service)
      BY DEF GraphIsSound, SeveralIsSound
    <2>2. L = K \cup {n} /\ ds[n] = c /\ \A i \in K : ds[i] = cs[i]
      BY <1>1, <1>6, <1>7
    <2>3. g.inv[service].evidence = {i \in K : cs[i].ok} /\ g.inv[service].failed = (\E i \in K : ~ cs[i].ok)
      BY <2>1 DEF ServiceIsSound
    <2>4. More(ns, h, service, Len(ds)) <=> More(ns, g, service, n)
      BY <1>1, <1>8
    <2> HIDE DEF K, L
    <2>5. c.ok \in BOOLEAN
      BY DEF CallRows
    <2>6. row.evidence = {i \in L : ds[i].ok}
      <3>1. CASE c.ok
        BY <1>b, <2>2, <2>3, <3>1
      <3>2. CASE ~ c.ok
        BY <1>b, <2>2, <2>3, <3>2
      <3>3. QED
        BY <2>5, <3>1, <3>2
    <2>7. row.failed = (\E i \in L : ~ ds[i].ok)
      <3>1. CASE c.ok
        BY <1>b, <2>2, <2>3, <3>1
      <3>2. CASE ~ c.ok
        BY <1>b, <2>2, <3>2
      <3>3. QED
        BY <2>5, <3>1, <3>2
    <2>8. L # {}
      BY <2>2
    <2>9. QED
      BY <1>3, <1>b, <2>4, <2>6, <2>7, <2>8 DEF ServiceIsSound, L
  <1>12. QED
    BY <1>3, <1>4, <1>5, <1>10, <1>11 DEF ds

LEMMA ExecuteInv == ASSUME IInv, NEW t \in Threads, Execute(t) PROVE IInv'
  <1> DEFINE g == graph[t]
             ns == query.services
             n == g.current + 1
             step == g.plan[n]
             service == StepService(g, step)
             own == service \in Investigated(g)
  <1>1. at[t] = "executing" /\ at[t] \in Open
    BY DEF Execute, Open
  <1>2. /\ ns \in Lists /\ g \in GraphRows(ns) /\ calls \in Seq(CallRows) /\ rec[t].events \in Seq(Events)
        /\ GraphIsSound(ns, g, calls) /\ PlaceIsSound("executing", g, calls)
        /\ t = "creator" => CreatorIsSound("executing", g, calls)
        /\ t = "approver" => ApproverIsSound("executing", g, calls, decision)
        /\ Tells(rec[t].events, calls)
    BY <1>1, Standing
  <1>3. g.error = "none" /\ g.analysis = Absent /\ g.answer = "none" /\ Len(calls) < Len(g.plan)
    BY <1>2 DEF PlaceIsSound
  <1>4. PICK ok \in BOOLEAN :
          LET after == [g EXCEPT
                  !.current = NextStep(g, ok),
                  !.evidence = IF ok THEN Append(g.evidence, n) ELSE g.evidence,
                  !.inv = CASE own /\ ok   -> AfterSuccess(g, service, n)
                            [] own /\ ~ ok -> AfterFailure(g, service)
                            [] OTHER       -> g.inv,
                  !.error = IF ok \/ g.inv # <<>> THEN "none" ELSE "tool"]
          IN /\ Ran(t, "tool", after, AfterExecution(after))
             /\ calls' = Append(calls, [n |-> n, tool |-> step.tool, ok |-> ok])
    BY DEF Execute
  <1> DEFINE c == [n |-> n, tool |-> step.tool, ok |-> ok]
             cs == Append(calls, c)
             records == CASE own /\ ok   -> AfterSuccess(g, service, n)
                          [] own /\ ~ ok -> AfterFailure(g, service)
                          [] OTHER       -> g.inv
             error == IF ok \/ g.inv # <<>> THEN "none" ELSE "tool"
             evidence == IF ok THEN Append(g.evidence, n) ELSE g.evidence
             h == [g EXCEPT !.current = n, !.evidence = evidence, !.inv = records, !.error = error]
             next == AfterExecution(h)
  <1>5. Ran(t, "tool", h, next) /\ calls' = cs
    BY <1>4 DEF NextStep
  <1>6. /\ g.plan \in Seq(StepRows) /\ Len(g.plan) \in Nat /\ Len(g.plan) <= MaxSteps
        /\ DOMAIN g.plan = 1..Len(g.plan) /\ g.evidence \in Seq(Nat) /\ g.current \in Nat
    BY <1>2 DEF GraphRows, PlanRows
  <1>7. /\ Len(calls) = g.current /\ n = Len(calls) + 1 /\ n \in 1..Len(g.plan) /\ n \in 1..MaxSteps
        /\ step \in StepRows
    BY <1>2, <1>3, <1>6, StepsAssumption DEF GraphIsSound
  <1>8. c \in CallRows /\ c.n = n /\ c.tool = step.tool /\ c.ok = ok
    BY <1>6, <1>7 DEF CallRows, StepRows
  <1>9. service = ServiceOf(ns, g, step)
    BY DEF StepService, ServiceOf
  <1> HIDE DEF c
  <1>10. /\ cs \in Seq(CallRows) /\ Len(cs) = n /\ DOMAIN cs = 1..n /\ cs[n] = c
         /\ \A i \in 1..Len(calls) : cs[i] = calls[i]
    BY <1>2, <1>7, <1>8
  <1>11. DOMAIN calls = 1..Len(calls) /\ Len(calls) \in Nat
    BY <1>2
  <1>12. /\ evidence \in Seq(Nat)
         /\ {evidence[i] : i \in DOMAIN evidence} = Succeeded(cs)
    <2>1. evidence \in Seq(Nat)
      BY <1>6
    <2>2. {g.evidence[i] : i \in DOMAIN g.evidence} = Succeeded(calls)
      BY <1>2 DEF GraphIsSound
    <2>3. Succeeded(cs) = IF ok THEN Succeeded(calls) \cup {n} ELSE Succeeded(calls)
      BY <1>7, <1>8, <1>10, <1>11 DEF Succeeded
    <2>4. CASE ok
      <3> DEFINE e == Append(g.evidence, n)
      <3>1. /\ DOMAIN e = 1..(Len(g.evidence) + 1) /\ e[Len(g.evidence) + 1] = n
            /\ DOMAIN g.evidence = 1..Len(g.evidence) /\ Len(g.evidence) \in Nat
            /\ \A i \in 1..Len(g.evidence) : e[i] = g.evidence[i]
        BY <1>6
      <3> HIDE DEF e
      <3>2. DOMAIN e = DOMAIN g.evidence \cup {Len(g.evidence) + 1}
        BY <3>1
      <3>3. {e[i] : i \in DOMAIN e} = {g.evidence[i] : i \in DOMAIN g.evidence} \cup {n}
        BY <3>1, <3>2
      <3>4. evidence = e
        BY <2>4 DEF e
      <3>5. QED
        BY <2>1, <2>2, <2>3, <2>4, <3>3, <3>4
    <2>5. CASE ~ ok
      BY <2>1, <2>2, <2>3, <2>5
    <2>6. QED
      BY <2>1, <2>4, <2>5
  <1> HIDE DEF evidence
  <1>13. /\ records \in {<<>>} \cup [Names(ns) -> InvRows]
         /\ g.inv = <<>> => records = <<>>
         /\ g.inv # <<>> => /\ Len(ns) > 1 /\ service \in Names(ns) /\ own /\ DOMAIN g.inv = Names(ns)
                            /\ g.inv \in [Names(ns) -> InvRows]
    <2>1. CASE g.inv = <<>>
      <3>1. ~ own
        BY <2>1 DEF Investigated
      <3>2. QED
        BY <2>1, <3>1
    <2>2. CASE g.inv # <<>>
      <3>1. g.inv \in [Names(ns) -> InvRows] /\ DOMAIN g.inv = Names(ns)
        BY <1>2, <2>2 DEF GraphRows
      <3>2. Len(ns) > 1 /\ step.service \in Names(ns) \cup {NoService}
        BY <1>2, <1>6, <1>7, <2>2 DEF GraphIsSound, SeveralIsSound
      <3>3. ns[1] \in Names(ns)
        BY <1>2, <3>2 DEF Names, Lists
      <3>4. service \in Names(ns)
        BY <1>9, <2>2, <3>2, <3>3 DEF ServiceOf
      <3>5. own
        BY <3>1, <3>4 DEF Investigated
      <3>6. AfterSuccess(g, service, n) \in [Names(ns) -> InvRows]
        <4> DEFINE row == [status |-> IF g.inv[service].failed THEN "partial"
                                      ELSE IF HasMore(g, service, n) THEN "running" ELSE "completed",
                           evidence |-> g.inv[service].evidence \cup {n}, failed |-> g.inv[service].failed]
        <4>1. row \in InvRows
          BY <1>7, <3>1, <3>4 DEF InvRows
        <4>2. AfterSuccess(g, service, n) = [g.inv EXCEPT ![service] = row]
          BY DEF AfterSuccess
        <4> HIDE DEF row
        <4>3. QED
          BY <3>1, <4>1, <4>2
      <3>7. AfterFailure(g, service) \in [Names(ns) -> InvRows]
        <4> DEFINE row == [status |-> IF g.inv[service].evidence # {} THEN "partial" ELSE "failed",
                           evidence |-> g.inv[service].evidence, failed |-> TRUE]
        <4>1. row \in InvRows
          BY <3>1, <3>4 DEF InvRows
        <4>2. AfterFailure(g, service) = [g.inv EXCEPT ![service] = row]
          BY DEF AfterFailure
        <4> HIDE DEF row
        <4>3. QED
          BY <3>1, <4>1, <4>2
      <3>8. QED
        BY <2>2, <3>1, <3>2, <3>4, <3>5, <3>6, <3>7
    <2>3. QED
      BY <2>1, <2>2
  <1>14. error \in {"none", "tool"} /\ (error = "tool" <=> ~ ok /\ g.inv = <<>>)
    OBVIOUS
  <1> HIDE DEF error
  <1>15. h \in GraphRows(ns)
    <2>1. n \in Nat
      BY <1>7
    <2>2. QED
      BY <1>2, <1>12, <1>13, <1>14, <2>1 DEF GraphRows
  <1>16. /\ h.plan = g.plan /\ h.inv = records /\ h.current = n /\ h.evidence = evidence
         /\ h.error = error /\ h.analysis = Absent /\ h.answer = "none" /\ h.intent = g.intent
         /\ h.action = g.action /\ h.resume = g.resume
    BY <1>2, <1>3 DEF GraphRows
  <1>17. ASSUME g.inv # <<>>
         PROVE  /\ h.inv # <<>> /\ DOMAIN h.inv = Names(ns)
                /\ \A st : ServiceOf(ns, h, st) = ServiceOf(ns, g, st)
                /\ \A s \in Names(ns) : ServiceIsSound(ns, h, cs, s)
    <2> DEFINE row == IF ok
                      THEN [status |-> IF g.inv[service].failed THEN "partial"
                                       ELSE IF HasMore(g, service, n) THEN "running" ELSE "completed",
                            evidence |-> g.inv[service].evidence \cup {n}, failed |-> g.inv[service].failed]
                      ELSE [status |-> IF g.inv[service].evidence # {} THEN "partial" ELSE "failed",
                            evidence |-> g.inv[service].evidence, failed |-> TRUE]
    <2>1. g.inv \in [Names(ns) -> InvRows] /\ service \in Names(ns) /\ own
      BY <1>13, <1>17
    <2>2. g.inv[service] \in InvRows
      BY <2>1
    <2>3. row \in InvRows
      BY <1>7, <2>2 DEF InvRows
    <2>4. records = [g.inv EXCEPT ![service] = row]
      BY <2>1 DEF AfterSuccess, AfterFailure
    <2>5. HasMore(g, service, n) <=> More(ns, g, service, n)
      BY DEF HasMore, More, StepService, ServiceOf
    <2>6. /\ row.evidence = IF ok THEN g.inv[service].evidence \cup {n} ELSE g.inv[service].evidence
          /\ row.failed = IF ok THEN g.inv[service].failed ELSE TRUE
      OBVIOUS
    <2>7. row.status = IF row.failed THEN IF row.evidence # {} THEN "partial" ELSE "failed"
                       ELSE IF More(ns, g, service, n) THEN "running" ELSE "completed"
      BY <2>5
    <2>8. c.n = Len(calls) + 1 /\ service = ServiceOf(ns, g, g.plan[c.n])
      BY <1>7, <1>8, <1>9
    <2>9. /\ row.evidence = IF c.ok THEN g.inv[service].evidence \cup {c.n} ELSE g.inv[service].evidence
          /\ row.failed = IF c.ok THEN g.inv[service].failed ELSE TRUE
          /\ row.status = IF row.failed THEN IF row.evidence # {} THEN "partial" ELSE "failed"
                          ELSE IF More(ns, g, service, c.n) THEN "running" ELSE "completed"
      BY <2>6, <2>7, <1>8
    <2> HIDE DEF row
    <2>10. h.plan = g.plan /\ InvAfter(ns, g, service, c, h.inv)
      BY <1>16, <2>3, <2>4, <2>9 DEF InvAfter, RecordAfter
    <2>11. cs = Append(calls, c)
      OBVIOUS
    <2> HIDE DEF records, h, service, own, n, step, cs, g, ns
    <2>12. /\ h.inv # <<>> /\ DOMAIN h.inv = Names(ns)
           /\ \A st : ServiceOf(ns, h, st) = ServiceOf(ns, g, st)
           /\ \A s \in Names(ns) : ServiceIsSound(ns, h, Append(calls, c), s)
      BY <1>2, <1>3, <1>8, <1>15, <1>17, <2>1, <2>8, <2>10, ServicesAfterCall
    <2>13. QED
      BY <2>11, <2>12
  <1>18. h.inv = <<>> <=> g.inv = <<>>
    BY <1>13, <1>16, <1>17
  <1> HIDE DEF records, h, service, own
  <1>19. SeveralIsSound(ns, h, cs)
    <2>1. SeveralIsSound(ns, g, calls)
      BY <1>2 DEF GraphIsSound
    <2>2. QED
      BY <2>1, <1>14, <1>16, <1>17, <1>18 DEF SeveralIsSound
  <1>20. OneIsSound(h, cs)
    <2> SUFFICES ASSUME g.inv = <<>> PROVE OneIsSound(h, cs)
      BY <1>18 DEF OneIsSound
    <2>1. \A i \in 1..Len(calls) : calls[i].ok
      BY <1>2, <1>3, <1>11 DEF GraphIsSound, OneIsSound
    <2>2. \A i \in DOMAIN cs : i < Len(cs) => cs[i].ok
      BY <1>7, <1>10, <1>11, <2>1
    <2>3. cs # <<>> /\ cs[Len(cs)].ok = ok
      BY <1>7, <1>8, <1>10
    <2>4. QED
      BY <1>14, <1>16, <2>2, <2>3 DEF OneIsSound
  <1>21. AnalysisIsSound(h, cs) /\ AnswerIsSound(h)
    BY <1>16 DEF AnalysisIsSound, AnswerIsSound
  <1>22. GraphIsSound(ns, h, cs)
    <2>1. \A i \in DOMAIN cs : cs[i].n = i /\ cs[i].tool = g.plan[i].tool
      <3>1. \A i \in DOMAIN calls : calls[i].n = i /\ calls[i].tool = g.plan[i].tool
        BY <1>2 DEF GraphIsSound
      <3>2. QED
        BY <3>1, <1>7, <1>8, <1>10, <1>11
    <2>2. n <= Len(g.plan)
      BY <1>7
    <2>3. h.error \notin {"rejected", "cancelled"}
      BY <1>14, <1>16
    <2>4. QED
      BY <2>1, <2>2, <2>3, <1>10, <1>12, <1>16, <1>19, <1>20, <1>21 DEF GraphIsSound
  <1>23. PlanEnds(h) <=> n = Len(g.plan)
    <2>1. Min({Len(g.plan), MaxSteps}) = Len(g.plan)
      <3>1. MaxSteps \in Nat
        BY StepsAssumption
      <3> DEFINE k == Len(g.plan)
      <3>2. k \in Nat /\ k <= MaxSteps
        BY <1>6
      <3> HIDE DEF k
      <3>3. Min({k, MaxSteps}) = k
        BY <3>1, <3>2, MinOfTwo
      <3>4. QED
        BY <3>3 DEF k
    <2>2. PlanEnds(h) <=> n >= Len(g.plan)
      BY <1>16, <2>1 DEF PlanEnds
    <2>3. QED
      BY <1>6, <1>7, <2>2
  <1>24. /\ next \in {"executing", "analysing", "answering"}
         /\ next = "executing" => error = "none" /\ n < Len(g.plan)
         /\ next = "analysing" => error = "none" /\ n = Len(g.plan)
         /\ next = "answering" => h.inv = <<>>
    <2>1. h.inv # <<>> => Cardinality(Investigated(h)) > 1 /\ error = "none"
      BY <1>2, <1>13, <1>14, <1>17, <1>18, SeveralNames DEF Investigated
    <2>2. QED
      BY <1>6, <1>7, <1>16, <1>23, <2>1 DEF AfterExecution, Stops
  <1> HIDE DEF next
  <1>25. PlaceIsSound(next, h, cs)
    BY <1>10, <1>16, <1>24 DEF PlaceIsSound, Early
  <1>26. t = "creator" => CreatorIsSound(next, h, cs)
    <2>1. t = "creator" => ~ HighPlan(g.plan) /\ ~ g.resume
      BY <1>2 DEF CreatorIsSound, Past
    <2>2. QED
      BY <2>1, <1>14, <1>16, <1>24 DEF CreatorIsSound
  <1>27. t = "approver" => ApproverIsSound(next, h, cs, decision)
    BY <1>2, <1>16, <1>24 DEF ApproverIsSound
  <1>28. Tells(Append(rec[t].events, Event("tool", h.current)), cs)
    <2> DEFINE e == Event("tool", h.current)
    <2>1. e \in Events /\ e.node = "tool" /\ e.n = c.n
      BY <1>7, <1>8, <1>16 DEF Event, Events, Nodes
    <2>2. \A i \in DOMAIN calls : calls[i].n < c.n
      BY <1>2, <1>7, <1>8, <1>11 DEF GraphIsSound
    <2> HIDE DEF e
    <2>3. Tells(Append(rec[t].events, e), cs)
      BY <1>2, <1>8, <2>1, <2>2, TellsCall
    <2>4. QED
      BY <2>3 DEF e
  <1>29. "tool" \in Nodes /\ next \in Open \ {"dispatching", "starting"}
    BY <1>24 DEF Nodes, Open, Early
  <1>30. UNCHANGED <<query, run, checkpoint, trace, decision, told>>
    BY DEF Execute
  <1> HIDE DEF cs
  <1>31. QED
    BY <1>1, <1>5, <1>10, <1>15, <1>16, <1>22, <1>25, <1>26, <1>27, <1>28, <1>29, <1>30, RanInv

-----------------------------------------------------------------------------
(* The analysis and the answer *)

(* Only calls that succeeded are evidence of a service. *)
LEMMA EvidenceSucceeded ==
    ASSUME NEW ns, NEW g, NEW cs, GraphIsSound(ns, g, cs), g.inv # <<>>, g \in GraphRows(ns)
    PROVE  /\ DOMAIN g.inv = Names(ns)
           /\ \A s \in Names(ns) : g.inv[s].evidence \subseteq Succeeded(cs) /\ g.inv[s].evidence \subseteq 1..MaxSteps
  <1>1. g.inv \in [Names(ns) -> InvRows]
    BY DEF GraphRows
  <1>2. \A s \in Names(ns) : ServiceIsSound(ns, g, cs, s)
    BY DEF GraphIsSound, SeveralIsSound
  <1>3. \A s \in Names(ns) : g.inv[s].evidence \subseteq Succeeded(cs)
    <2> SUFFICES ASSUME NEW s \in Names(ns) PROVE g.inv[s].evidence \subseteq Succeeded(cs)
      OBVIOUS
    <2>1. g.inv[s].evidence = {i \in CallsOf(ns, g, cs, s) : cs[i].ok}
      BY <1>2 DEF ServiceIsSound
    <2>2. CallsOf(ns, g, cs, s) \subseteq DOMAIN cs
      BY DEF CallsOf
    <2>3. QED
      BY <2>1, <2>2 DEF Succeeded
  <1>4. \A s \in Names(ns) : g.inv[s].evidence \subseteq 1..MaxSteps
    BY <1>1 DEF InvRows
  <1>5. QED
    BY <1>1, <1>3, <1>4

(* An analysis that cites what succeeded, of every service something, and  *)
(* that is marked if a service did not go well, may be added.              *)
LEMMA AnalysisInv ==
    ASSUME IInv, NEW t \in Threads, at[t] = "analysing",
           NEW source \in {"fallback", "llm"}, NEW cited \in SUBSET Succeeded(calls),
           Succeeded(calls) # {} => cited # {},
           \A s \in Investigated(graph[t]) :
               graph[t].inv[s].evidence # {} => cited \cap graph[t].inv[s].evidence # {},
           Ran(t, "analyzer",
               [graph[t] EXCEPT !.analysis =
                   [source |-> source, cited |-> cited, uncertain |-> Uncertain(graph[t], source)]],
               "answering"),
           UNCHANGED <<query, run, checkpoint, trace, calls, decision, told>>
    PROVE  IInv'
  <1> DEFINE g == graph[t]
             ns == query.services
             a == [source |-> source, cited |-> cited, uncertain |-> Uncertain(g, source)]
             h == [g EXCEPT !.analysis = a]
  <1>1. at[t] \in Open
    BY DEF Open
  <1>2. /\ g \in GraphRows(ns) /\ calls \in Seq(CallRows)
        /\ GraphIsSound(ns, g, calls) /\ PlaceIsSound("analysing", g, calls)
        /\ t = "creator" => CreatorIsSound("analysing", g, calls)
        /\ t = "approver" => ApproverIsSound("analysing", g, calls, decision)
    BY <1>1, Standing
  <1>3. /\ g.error = "none" /\ g.answer = "none" /\ (g.inv # <<>> => Len(calls) = Len(g.plan))
    BY <1>2 DEF PlaceIsSound
  <1>4. /\ a.cited = cited /\ a.uncertain = (\E s \in DOMAIN g.inv : g.inv[s].status \in {"partial", "failed"})
        /\ a # Absent
    <2>1. DOMAIN a # DOMAIN Absent
      BY DEF Absent
    <2>2. QED
      BY <2>1 DEF Uncertain, Investigated
  <1>5. a \in Analyses
    <2>1. cited \in SUBSET Nat
      BY <1>2 DEF Succeeded
    <2>2. Uncertain(g, source) \in BOOLEAN
      BY DEF Uncertain
    <2>3. QED
      BY <2>1, <2>2 DEF Analyses
  <1> HIDE DEF a
  <1>6. /\ h \in GraphRows(ns)
        /\ h.plan = g.plan /\ h.inv = g.inv /\ h.current = g.current /\ h.evidence = g.evidence
        /\ h.error = g.error /\ h.analysis = a /\ h.answer = g.answer
        /\ h.action = g.action /\ h.resume = g.resume
    BY <1>2, <1>5 DEF GraphRows
  <1>7. Ran(t, "analyzer", h, "answering")
    BY DEF a
  <1> HIDE DEF h
  <1>8. GraphIsSound(ns, h, calls)
    <2>1. SeveralIsSound(ns, h, calls)
      BY <1>2, <1>6, SeveralAgrees DEF GraphIsSound
    <2>2. OneIsSound(h, calls) /\ AnswerIsSound(h)
      BY <1>2, <1>3, <1>6 DEF GraphIsSound, OneIsSound, AnswerIsSound
    <2>3. AnalysisIsSound(h, calls)
      BY <1>3, <1>4, <1>6 DEF AnalysisIsSound, Investigated
    <2>4. QED
      BY <1>2, <1>6, <2>1, <2>2, <2>3 DEF GraphIsSound
  <1>9. PlaceIsSound("answering", h, calls)
    BY <1>3, <1>4, <1>6 DEF PlaceIsSound, Early
  <1>10. /\ t = "creator" => CreatorIsSound("answering", h, calls)
         /\ t = "approver" => ApproverIsSound("answering", h, calls, decision) /\ h.plan = g.plan
    BY <1>2, <1>6 DEF CreatorIsSound, ApproverIsSound, Past
  <1>11. "analyzer" \in Nodes \ {"tool"} /\ "answering" \in Open \ {"dispatching", "starting"}
    BY DEF Nodes, Open, Early
  <1>12. QED
    BY <1>1, <1>6, <1>7, <1>8, <1>9, <1>10, <1>11, NodeInv

LEMMA AnalyseInv == ASSUME IInv, NEW t \in Threads, Analyse(t) PROVE IInv'
  <1> DEFINE g == graph[t]
             ns == query.services
  <1>1. at[t] = "analysing" /\ at[t] \in Open
    BY DEF Analyse, Open
  <1>2. /\ g \in GraphRows(ns) /\ calls \in Seq(CallRows) /\ GraphIsSound(ns, g, calls)
    BY <1>1, Standing
  <1>3. ToSet(g.evidence) = Succeeded(calls)
    BY <1>2 DEF GraphIsSound, ToSet
  <1>4. /\ g.inv = <<>> => Investigated(g) = {}
        /\ \A s \in Investigated(g) : g.inv[s].evidence \subseteq Succeeded(calls)
        /\ \A s \in Investigated(g) : g.inv[s].evidence \subseteq 1..MaxSteps
    BY <1>2, EvidenceSucceeded DEF Investigated
  <1>5. UNCHANGED <<query, run, checkpoint, trace, calls, decision, told>>
    BY DEF Analyse
  <1>6. ASSUME Ran(t, "analyzer",
                   [g EXCEPT !.analysis = [source |-> "fallback", cited |-> ToSet(g.evidence),
                                           uncertain |-> Uncertain(g, "fallback")]], "answering")
        PROVE  IInv'
    <2> DEFINE cited == Succeeded(calls)
    <2>1. \A s \in Investigated(g) : g.inv[s].evidence # {} => cited \cap g.inv[s].evidence # {}
      BY <1>4
    <2>2. Ran(t, "analyzer",
              [g EXCEPT !.analysis = [source |-> "fallback", cited |-> cited,
                                      uncertain |-> Uncertain(g, "fallback")]], "answering")
      BY <1>3, <1>6
    <2> HIDE DEF cited
    <2>3. cited \in SUBSET Succeeded(calls) /\ (Succeeded(calls) # {} => cited # {})
      BY DEF cited
    <2>4. QED
      BY <1>1, <1>5, <2>1, <2>2, <2>3, AnalysisInv
  <1>7. ASSUME NEW chosen \in SUBSET (1..MaxSteps), Valid(g, chosen),
               Ran(t, "analyzer",
                   [g EXCEPT !.analysis = [source |-> "llm", cited |-> chosen \cup ServiceCitations(g),
                                           uncertain |-> Uncertain(g, "llm")]], "answering")
        PROVE  IInv'
    <2> DEFINE cited == chosen \cup ServiceCitations(g)
    <2>1. \A s \in Investigated(g) : g.inv[s].evidence # {} => Min(g.inv[s].evidence) \in g.inv[s].evidence
      BY <1>4, MinOfSteps
    <2>2. ServiceCitations(g) \subseteq Succeeded(calls)
      BY <1>4, <2>1 DEF ServiceCitations
    <2>3. \A s \in Investigated(g) : g.inv[s].evidence # {} => cited \cap g.inv[s].evidence # {}
      <3> SUFFICES ASSUME NEW s \in Investigated(g), g.inv[s].evidence # {}
                   PROVE  cited \cap g.inv[s].evidence # {}
        OBVIOUS
      <3>1. Min(g.inv[s].evidence) \in ServiceCitations(g)
        BY DEF ServiceCitations
      <3>2. QED
        BY <2>1, <3>1
    <2>4. cited \in SUBSET Succeeded(calls) /\ cited # {}
      BY <1>3, <1>7, <2>2 DEF Valid
    <2> HIDE DEF cited
    <2>5. Ran(t, "analyzer",
              [g EXCEPT !.analysis = [source |-> "llm", cited |-> cited,
                                      uncertain |-> Uncertain(g, "llm")]], "answering")
      BY <1>7 DEF cited
    <2>6. QED
      BY <1>1, <1>5, <2>3, <2>4, <2>5, AnalysisInv
  <1>8. QED
    BY <1>6, <1>7 DEF Analyse

LEMMA AnswerInv == ASSUME IInv, NEW t \in Threads, Answer(t) PROVE IInv'
  <1> DEFINE g == graph[t]
             ns == query.services
             text == Text(g)
             h == [g EXCEPT !.answer = text]
  <1>1. at[t] = "answering" /\ at[t] \in Open
    BY DEF Answer, Open
  <1>2. /\ g \in GraphRows(ns) /\ calls \in Seq(CallRows)
        /\ GraphIsSound(ns, g, calls) /\ PlaceIsSound("answering", g, calls)
        /\ t = "creator" => CreatorIsSound("answering", g, calls)
        /\ t = "approver" => ApproverIsSound("answering", g, calls, decision)
    BY <1>1, Standing
  <1>3. g.inv # <<>> => g.analysis # Absent
    BY <1>2 DEF PlaceIsSound
  <1>4. text \in Texts
    BY DEF Text, Texts
  <1>5. Ran(t, "answer", h, "finishing") /\ UNCHANGED <<query, run, checkpoint, trace, calls, decision, told>>
    BY DEF Answer
  <1> HIDE DEF text
  <1>6. /\ h \in GraphRows(ns)
        /\ h.plan = g.plan /\ h.inv = g.inv /\ h.current = g.current /\ h.evidence = g.evidence
        /\ h.error = g.error /\ h.analysis = g.analysis /\ h.answer = text
        /\ h.action = g.action /\ h.resume = g.resume
    BY <1>2, <1>4 DEF GraphRows
  <1> HIDE DEF h
  <1>7. text = Text(h)
    BY <1>6 DEF text, Text
  <1>8. GraphIsSound(ns, h, calls)
    <2>1. SeveralIsSound(ns, h, calls)
      BY <1>2, <1>6, SeveralAgrees DEF GraphIsSound
    <2>2. OneIsSound(h, calls) /\ AnalysisIsSound(h, calls)
      BY <1>2, <1>6 DEF GraphIsSound, OneIsSound, AnalysisIsSound
    <2>3. AnswerIsSound(h)
      BY <1>3, <1>6, <1>7 DEF AnswerIsSound
    <2>4. QED
      BY <1>2, <1>6, <2>1, <2>2, <2>3 DEF GraphIsSound
  <1>9. PlaceIsSound("finishing", h, calls)
    BY DEF PlaceIsSound, Early
  <1>10. /\ t = "creator" => CreatorIsSound("finishing", h, calls)
         /\ t = "approver" => ApproverIsSound("finishing", h, calls, decision) /\ h.plan = g.plan
    BY <1>2, <1>6 DEF CreatorIsSound, ApproverIsSound, Past
  <1>11. "answer" \in Nodes \ {"tool"} /\ "finishing" \in Open \ {"dispatching", "starting"}
    BY DEF Nodes, Open, Early
  <1>12. QED
    BY <1>1, <1>5, <1>6, <1>8, <1>9, <1>10, <1>11, NodeInv

-----------------------------------------------------------------------------
(* Beginnings *)

(* A thread that goes from one place to another, with a new recorder       *)
(* perhaps, while nothing else changes.                                    *)
LEMMA MovedShapes ==
    ASSUME IInv, NEW t \in Threads, NEW next \in States, at' = [at EXCEPT ![t] = next],
           NEW row \in [from: Nat \ {0}, events: Seq(Events)], rec' = [rec EXCEPT ![t] = row],
           UNCHANGED <<query, graph, run, checkpoint, calls, decision, told>>, trace' \in Seq(Events)
    PROVE  /\ Shapes'
           /\ at'[t] = next /\ rec'[t] = row
           /\ \A o \in Threads \ {t} : at'[o] = at[o] /\ rec'[o] = rec[o]
  <1>1. /\ at \in [Threads -> States] /\ rec \in [Threads -> [from: Nat \ {0}, events: Seq(Events)]]
    BY DEF IInv, Shapes
  <1>2. at' \in [Threads -> States] /\ rec' \in [Threads -> [from: Nat \ {0}, events: Seq(Events)]]
    BY <1>1
  <1>3. /\ at'[t] = next /\ rec'[t] = row
        /\ \A o \in Threads \ {t} : at'[o] = at[o] /\ rec'[o] = rec[o]
    BY <1>1
  <1>4. Shapes'
    BY <1>2 DEF IInv, Shapes
  <1>5. QED
    BY <1>3, <1>4

LEMMA SameRecorder ==
    ASSUME IInv, NEW t \in Threads
    PROVE  rec[t] \in [from: Nat \ {0}, events: Seq(Events)] /\ rec = [rec EXCEPT ![t] = rec[t]]
  BY DEF IInv, Shapes

LEMMA DispatchInv == ASSUME IInv, NEW t \in Threads, Dispatch(t) PROVE IInv'
  <1> DEFINE g == graph[t]
             e == Event("dispatched", 0)
  <1>1. at[t] = "dispatching" /\ at[t] \in Open
    BY DEF Dispatch, Open, Early
  <1>2. /\ g \in GraphRows(query.services) /\ PlaceIsSound("dispatching", g, calls)
        /\ GraphIsSound(query.services, g, calls)
    BY <1>1, Standing
  <1>3. t = "creator" /\ CreatorIsSound("dispatching", g, calls) /\ t = Owner /\ run.status = "running"
    BY <1>1, Standing, OpenIsOwner DEF ApproverIsSound, Past, Threads
  <1>4. trace \in Seq(Events) /\ e \in Events /\ e.node # "tool"
    BY DEF IInv, Shapes, Event, Events, Nodes
  <1>5. trace' = Append(trace, e)
    BY DEF Dispatch
  <1> HIDE DEF e
  <1>6. trace' \in Seq(Events) /\ Tools(trace') = {}
    <2>1. Tools(trace) = {}
      BY <1>3 DEF IInv, TraceInv
    <2>2. QED
      BY <1>4, <1>5, <2>1, TellsNode
  <1>7. /\ rec' = [rec EXCEPT ![t] = rec[t]] /\ at' = [at EXCEPT ![t] = "starting"]
        /\ UNCHANGED <<query, graph, rec, run, checkpoint, calls, decision, told>>
    BY SameRecorder DEF Dispatch
  <1>8. /\ Shapes' /\ at'[t] = "starting" /\ \A o \in Threads \ {t} : at'[o] = at[o]
    <2>1. "starting" \in States
      BY DEF States
    <2> DEFINE row == rec[t]
    <2>2. row \in [from: Nat \ {0}, events: Seq(Events)] /\ rec' = [rec EXCEPT ![t] = row]
      BY <1>7, SameRecorder
    <2> HIDE DEF row
    <2>3. /\ at' = [at EXCEPT ![t] = "starting"]
          /\ UNCHANGED <<query, graph, run, checkpoint, calls, decision, told>>
      BY <1>7
    <2> HIDE DEF g
    <2>4. QED
      BY <1>6, <2>1, <2>2, <2>3, MovedShapes
  <1>9. Owner' = Owner
    BY <1>3, <1>8 DEF Owner, Threads
  <1>10. OwnerInv'
    <2>1. PlaceIsSound("starting", g, calls)
      BY <1>2 DEF PlaceIsSound, Early
    <2>2. QED
      BY <1>2, <1>3, <1>7, <1>8, <1>9, <2>1 DEF OwnerInv
  <1>11. ThreadsInv'
    <2>1. CreatorIsSound("starting", g, calls)
      BY <1>2, <1>3, NoHighStep DEF CreatorIsSound, PlaceIsSound
    <2>2. QED
      BY <1>3, <1>7, <1>8, <1>9, <2>1 DEF IInv, ThreadsInv
  <1>12. RunInv'
    <2>1. checkpoint = Absent
      BY <1>1, <1>3 DEF IInv, RunInv, Past
    <2>2. QED
      BY <1>3, <1>7, <1>8, <1>9, <2>1 DEF IInv, RunInv, Past, Threads
  <1>13. TraceInv'
    BY <1>3, <1>6, <1>7, <1>8, <1>9 DEF IInv, TraceInv, Open
  <1>14. QED
    BY <1>8, <1>10, <1>11, <1>12, <1>13 DEF IInv

LEMMA StartInv == ASSUME IInv, NEW t \in Threads, Start(t) PROVE IInv'
  <1> DEFINE g == graph[t]
             row == [from |-> Len(trace) + 1, events |-> <<>>]
             next == IF g.resume THEN "deciding" ELSE "routing"
  <1>1. at[t] = "starting" /\ at[t] \in Open
    BY DEF Start, Open, Early
  <1>2. /\ g \in GraphRows(query.services) /\ PlaceIsSound("starting", g, calls)
        /\ GraphIsSound(query.services, g, calls)
        /\ t = "creator" => CreatorIsSound("starting", g, calls)
        /\ t = "approver" => ApproverIsSound("starting", g, calls, decision)
        /\ t = Owner /\ run.status = "running"
    BY <1>1, Standing, OpenIsOwner
  <1>3. t = "creator" <=> ~ g.resume
    BY <1>2 DEF CreatorIsSound, ApproverIsSound, Threads
  <1>4. /\ rec' = [rec EXCEPT ![t] = row] /\ at' = [at EXCEPT ![t] = next]
        /\ UNCHANGED <<query, graph, run, checkpoint, trace, calls, decision, told>>
    BY DEF Start, Recorder
  <1>5. trace \in Seq(Events)
    BY DEF IInv, Shapes
  <1>6. row \in [from: Nat \ {0}, events: Seq(Events)] /\ row.events = <<>>
    BY <1>5
  <1>7. next \in {"deciding", "routing"} /\ next \in States
    BY DEF States
  <1> HIDE DEF row, next
  <1>8. /\ Shapes' /\ at'[t] = next /\ rec'[t] = row
        /\ \A o \in Threads \ {t} : at'[o] = at[o] /\ rec'[o] = rec[o]
    BY <1>4, <1>5, <1>6, <1>7, MovedShapes
  <1>9. Owner' = Owner
    BY <1>1, <1>2, <1>7, <1>8 DEF Owner, Threads
  <1>10. OwnerInv'
    <2>1. PlaceIsSound(next, g, calls)
      BY <1>2, <1>3 DEF PlaceIsSound, Early, next, ApproverIsSound, Threads
    <2>2. QED
      BY <1>2, <1>4, <1>8, <1>9, <2>1 DEF OwnerInv
  <1>11. ThreadsInv'
    <2>1. t = "creator" => CreatorIsSound(next, g, calls)
      BY <1>2, <1>3, NoHighStep DEF CreatorIsSound, PlaceIsSound, next
    <2>2. t = "approver" => ApproverIsSound(next, g, calls, decision)
      BY <1>2, <1>3 DEF ApproverIsSound, next
    <2>3. QED
      BY <1>2, <1>4, <1>8, <1>9, <2>1, <2>2 DEF IInv, ThreadsInv, Threads
  <1>12. RunInv'
    <2>1. checkpoint # Absent => t # "creator"
      BY <1>1 DEF IInv, RunInv, Past
    <2>2. QED
      BY <1>2, <1>4, <1>8, <1>9, <2>1 DEF IInv, RunInv, Threads
  <1>13. TraceInv'
    <2>1. calls = <<>>
      BY <1>2 DEF PlaceIsSound, Early
    <2>2. Tells(<<>>, <<>>)
      BY DEF Tells, Tools
    <2>3. Tells(rec'[t].events, calls')
      BY <1>4, <1>6, <1>8, <2>1, <2>2
    <2>4. \A o \in Threads : at'[o] = "handing back" => Tools(rec'[o].events) = {}
      BY <1>7, <1>8 DEF IInv, TraceInv
    <2>5. QED
      BY <1>2, <1>4, <1>9, <2>3, <2>4 DEF IInv, TraceInv
  <1>14. QED
    BY <1>8, <1>10, <1>11, <1>12, <1>13 DEF IInv

-----------------------------------------------------------------------------
(* Commits *)

LEMMA ConcatEvents == ASSUME NEW s \in Seq(Events), NEW u \in Seq(Events) PROVE s \o u \in Seq(Events)
  OBVIOUS

LEMMA NoCalls == DOMAIN <<>> = {}
  OBVIOUS

LEMMA NoEvents ==
    ASSUME NEW s \in Seq(Events)
    PROVE  Len(s) + 1 \in Nat \ {0} /\ s = s \o <<>> /\ <<>> \in Seq(Events) /\ Tools(<<>>) = {}
  <1>1. Len(s) + 1 \in Nat \ {0} /\ s = s \o <<>> /\ <<>> \in Seq(Events)
    OBVIOUS
  <1>2. Tools(<<>>) = {}
    BY DEF Tools
  <1>3. QED
    BY <1>1, <1>2

(* The invariant holds after a commit of the owner if the run it writes    *)
(* fits: a waiting one has its checkpoint, a finished one its trace.       *)
LEMMA CommitInv ==
    ASSUME IInv, NEW t \in Threads, at[t] \in {"finishing", "failing", "interrupted"},
           NEW next \in {"handing over", "done"}, at' = [at EXCEPT ![t] = next],
           told' \in [Threads -> {"nothing", "an error", "waiting_approval", "completed", "failed"}],
           Written(t), UNCHANGED <<query, graph, rec, calls, decision>>,
           NEW status, NEW answer, run' = [status |-> status, answer |-> answer],
           IF at[t] = "interrupted"
           THEN /\ checkpoint' = [state |-> graph[t]]
                /\ status = "waiting_approval" /\ answer = "waiting"
           ELSE /\ checkpoint' = Absent
                /\ status \in {"completed", "failed"} /\ answer \in {"none", graph[t].answer}
    PROVE  IInv'
  <1> DEFINE g == graph[t]
             ns == query.services
  <1>1. at[t] \in Open \ {"dispatching", "starting"} /\ at[t] # "watching"
    BY DEF Open, Early
  <1>2. /\ g \in GraphRows(ns) /\ PlaceIsSound(at[t], g, calls) /\ GraphIsSound(ns, g, calls)
        /\ t = "creator" => CreatorIsSound(at[t], g, calls)
        /\ t = "approver" => ApproverIsSound(at[t], g, calls, decision)
        /\ t = Owner /\ run.status = "running"
        /\ rec[t].events \in Seq(Events) /\ Tells(rec[t].events, calls)
    BY <1>1, Standing, OpenIsOwner
  <1>3. at[t] = "interrupted" => t = "creator" /\ HighPlan(g.plan) /\ calls = <<>>
    BY <1>2 DEF PlaceIsSound, Early, ApproverIsSound, Past, Threads
  <1>4. /\ at \in [Threads -> States] /\ trace \in Seq(Events)
        /\ graph \in [Threads -> GraphRows(ns)]
    BY DEF IInv, Shapes
  <1>5. at'[t] = next /\ (\A o \in Threads \ {t} : at'[o] = at[o]) /\ at' \in [Threads -> States]
    BY <1>4 DEF States
  <1>6. next \in Past /\ next \notin Open /\ next # "watching" /\ next # "handing back"
    BY DEF Past, Open, Early
  <1>7. Owner' = Owner
    BY <1>1, <1>2, <1>5, <1>6 DEF Owner, Threads
  <1>8. /\ run' \in [status: {"running", "waiting_approval", "completed", "failed"},
                     answer: {"none", "waiting"} \cup Texts]
        /\ checkpoint' \in {Absent} \cup [state: GraphRows(ns)]
    <2>1. g.answer \in {"none"} \cup Texts
      BY <1>2 DEF GraphRows
    <2>2. [state |-> g] \in [state: GraphRows(ns)]
      BY <1>2
    <2>3. status \in {"waiting_approval", "completed", "failed"} /\ answer \in {"none", "waiting"} \cup Texts
      BY <2>1
    <2>4. run' \in [status: {"running", "waiting_approval", "completed", "failed"},
                    answer: {"none", "waiting"} \cup Texts]
      BY <2>3
    <2>5. checkpoint' = [state |-> g] \/ checkpoint' = Absent
      OBVIOUS
    <2>6. QED
      BY <2>2, <2>4, <2>5
  <1>9. trace' = trace \o rec[t].events /\ trace' \in Seq(Events)
    <2> DEFINE u == rec[t].events
    <2>1. trace' = trace \o u /\ u \in Seq(Events)
      BY <1>2 DEF Written
    <2> HIDE DEF u
    <2>2. trace \in Seq(Events)
      BY <1>4
    <2>3. trace \o u \in Seq(Events)
      BY <2>1, <2>2, ConcatEvents, Zenon
    <2>4. QED
      BY <2>1, <2>3 DEF u
  <1>10. Shapes'
    BY <1>5, <1>8, <1>9 DEF IInv, Shapes
  <1>11. PlaceIsSound(next, g, calls)
    BY DEF PlaceIsSound, Early
  <1>12. OwnerInv'
    BY <1>2, <1>5, <1>7, <1>11 DEF OwnerInv
  <1>13. ThreadsInv'
    <2>1. t = "creator" => CreatorIsSound(next, g, calls)
      BY <1>2, <1>6 DEF CreatorIsSound, Past
    <2>2. t = "approver" => ApproverIsSound(next, g, calls, decision)
      BY <1>2, <1>6 DEF ApproverIsSound
    <2>3. QED
      BY <1>2, <1>5, <1>7, <2>1, <2>2 DEF IInv, ThreadsInv, Threads
  <1>14. RunInv'
    <2>1. CASE at[t] = "interrupted"
      <3>1. at["approver"] = "watching"
        BY <1>2, <1>3, <2>1 DEF Owner
      <3>2. at'["approver"] = "watching"
        BY <1>3, <1>5, <2>1, <3>1 DEF Threads
      <3>3. checkpoint' = [state |-> graph["creator"]] /\ checkpoint' # Absent
        <4>1. DOMAIN [state |-> g] # DOMAIN Absent
          BY DEF Absent
        <4>2. QED
          BY <1>3, <2>1, <4>1
      <3>4. "waiting" \notin Texts
        BY DEF Texts
      <3>5. run'.status = "waiting_approval" /\ run'.answer = "waiting"
        BY <2>1
      <3>6. at'[Owner'] \in Past /\ at'["creator"] \in Past /\ graph' = graph /\ HighPlan(graph["creator"].plan)
        BY <1>2, <1>3, <1>5, <1>6, <1>7, <2>1
      <3>7. QED
        BY <3>2, <3>3, <3>4, <3>5, <3>6 DEF RunInv
    <2>2. CASE at[t] # "interrupted"
      <3>1. "waiting" \notin Texts /\ "none" \notin Texts
        BY DEF Texts
      <3>2. g.answer \in {"none"} \cup Texts
        BY <1>2 DEF GraphRows
      <3>3. QED
        BY <1>2, <1>5, <1>6, <1>7, <2>2, <3>1, <3>2 DEF RunInv
    <2>3. QED
      BY <2>1, <2>2
  <1>15. TraceInv'
    <2>1. Tools(trace) = {}
      BY <1>2 DEF IInv, TraceInv
    <2>2. Tells(trace', calls)
      BY <1>2, <1>4, <1>9, <2>1, TellsConcat
    <2>3. at[t] = "interrupted" => Tools(trace') = {}
      <3> SUFFICES ASSUME at[t] = "interrupted" PROVE Tools(trace') = {}
        OBVIOUS
      <3>1. {calls[i].n : i \in DOMAIN calls} = {}
        <4>1. calls = <<>>
          BY <1>3
        <4>2. QED
          BY <4>1, NoCalls, Zenon
      <3>2. {trace'[i].n : i \in Tools(trace')} = {calls[i].n : i \in DOMAIN calls}
        BY <2>2 DEF Tells
      <3>3. QED
        BY <3>1, <3>2
    <2>4. \A o \in Threads : at'[o] = "handing back" => Tools(rec'[o].events) = {}
      BY <1>5, <1>6 DEF IInv, TraceInv
    <2>5. QED
      BY <1>2, <1>5, <1>6, <1>7, <2>2, <2>3, <2>4 DEF TraceInv
  <1>16. QED
    BY <1>10, <1>12, <1>13, <1>14, <1>15 DEF IInv

(* _complete_run: the result is that of the graph. *)
LEMMA FinishInv == ASSUME IInv, NEW t \in Threads, Finish(t) PROVE IInv'
  <1> DEFINE status == Result(t)
             answer == graph[t].answer
             next == IF query.mode = "specialist" THEN "handing over" ELSE "done"
  <1>1. at[t] = "finishing" /\ Written(t) /\ run' = [status |-> status, answer |-> answer]
        /\ checkpoint' = Absent /\ UNCHANGED <<query, graph, rec, calls, decision>>
    BY DEF Finish
  <1>2. status \in {"completed", "failed"}
    BY DEF Result
  <1>3. told \in [Threads -> {"nothing", "an error", "waiting_approval", "completed", "failed"}]
    BY DEF IInv, Shapes
  <1>4. at' = [at EXCEPT ![t] = next] /\ next \in {"handing over", "done"}
    BY DEF Finish, Over, Done
  <1>5. told' \in [Threads -> {"nothing", "an error", "waiting_approval", "completed", "failed"}]
    BY <1>2, <1>3 DEF Finish, Over, Done
  <1> HIDE DEF status, answer, next
  <1>6. status \in {"completed", "failed"} /\ answer \in {"none", graph[t].answer}
    BY <1>2 DEF answer
  <1>7. QED
    BY <1>1, <1>4, <1>5, <1>6, CommitInv

LEMMA FinishFailedInv == ASSUME IInv, NEW t \in Threads, FinishFailed(t) PROVE IInv'
  <1>1. at[t] = "failing" /\ Written(t) /\ run' = [status |-> "failed", answer |-> "none"]
        /\ checkpoint' = Absent /\ UNCHANGED <<query, graph, rec, calls, decision>>
    BY DEF FinishFailed
  <1>2. told \in [Threads -> {"nothing", "an error", "waiting_approval", "completed", "failed"}]
    BY DEF IInv, Shapes
  <1>3. at' = [at EXCEPT ![t] = "done"]
    BY DEF FinishFailed, Done
  <1>4. told' \in [Threads -> {"nothing", "an error", "waiting_approval", "completed", "failed"}]
    BY <1>2 DEF FinishFailed, Done
  <1>5. QED
    BY <1>1, <1>3, <1>4, CommitInv

LEMMA MarkWaitingInv == ASSUME IInv, NEW t \in Threads, MarkWaiting(t) PROVE IInv'
  <1> DEFINE next == IF query.mode = "specialist" THEN "handing over" ELSE "done"
  <1>1. at[t] = "interrupted" /\ Written(t) /\ run' = [status |-> "waiting_approval", answer |-> "waiting"]
        /\ checkpoint' = [state |-> graph[t]] /\ UNCHANGED <<query, graph, rec, calls, decision>>
    BY DEF MarkWaiting
  <1>2. told \in [Threads -> {"nothing", "an error", "waiting_approval", "completed", "failed"}]
    BY DEF IInv, Shapes
  <1>3. at' = [at EXCEPT ![t] = next] /\ next \in {"handing over", "done"}
    BY DEF MarkWaiting, Over, Done
  <1>4. told' \in [Threads -> {"nothing", "an error", "waiting_approval", "completed", "failed"}]
    BY <1>2 DEF MarkWaiting, Over, Done
  <1> HIDE DEF next
  <1>5. QED
    BY <1>1, <1>3, <1>4, CommitInv

-----------------------------------------------------------------------------
(* After the commit *)

(* A commit that fails on a taken number changes only the thread itself. *)
LEMMA ClashInv == ASSUME IInv, NEW t \in Threads, Clash(t) PROVE IInv'
  <1>1. at[t] \in {"finishing", "failing", "interrupted", "handing back"} /\ at[t] # "watching"
        /\ at' = [at EXCEPT ![t] = "done"] /\ told' = [told EXCEPT ![t] = "an error"]
        /\ UNCHANGED <<query, graph, rec, run, checkpoint, trace, calls, decision>>
    BY DEF Clash, Done
  <1>2. /\ at \in [Threads -> States]
        /\ told \in [Threads -> {"nothing", "an error", "waiting_approval", "completed", "failed"}]
    BY DEF IInv, Shapes
  <1>3. /\ at'[t] = "done" /\ \A o \in Threads : o # t => at'[o] = at[o]
        /\ at' \in [Threads -> States]
        /\ told' \in [Threads -> {"nothing", "an error", "waiting_approval", "completed", "failed"}]
    BY <1>1, <1>2 DEF States
  <1>4. Owner' = Owner
    BY <1>1, <1>3 DEF Owner, Threads
  <1>5. Shapes'
    BY <1>1, <1>3 DEF IInv, Shapes
  <1>6. OwnerInv'
    <2>1. \A g, cs : PlaceIsSound("done", g, cs)
      BY DEF PlaceIsSound, Early
    <2>2. at'[Owner] = at[Owner] \/ at'[Owner] = "done"
      BY <1>3 DEF Owner, Threads
    <2>3. QED
      BY <1>1, <1>4, <2>1, <2>2 DEF IInv, OwnerInv
  <1>7. ThreadsInv'
    <2>1. CASE Owner = "creator"
      <3>1. CreatorIsSound(at["creator"], graph["creator"], calls) /\ graph["approver"] = StartState
            /\ decision = Absent
        BY <2>1 DEF IInv, ThreadsInv
      <3>2. CreatorIsSound(at'["creator"], graph["creator"], calls)
        BY <1>1, <1>3, <3>1 DEF CreatorIsSound, Past, Threads
      <3>3. QED
        BY <1>1, <1>4, <2>1, <3>1, <3>2 DEF ThreadsInv
    <2>2. CASE Owner # "creator"
      <3>1. /\ ApproverIsSound(at["approver"], graph["approver"], calls, decision)
            /\ at["creator"] \in Past /\ graph["creator"].plan = graph["approver"].plan
            /\ graph["creator"].analysis = Absent /\ graph["creator"].answer = "none"
            /\ graph["creator"].current = 0
        BY <2>2 DEF IInv, ThreadsInv
      <3>2. ApproverIsSound(at'["approver"], graph["approver"], calls, decision)
        BY <1>1, <1>3, <3>1 DEF ApproverIsSound, Past, Threads
      <3>3. at'["creator"] \in Past
        BY <1>3, <3>1 DEF Past, Threads
      <3>4. QED
        BY <1>1, <1>4, <2>2, <3>1, <3>2, <3>3 DEF ThreadsInv
    <2>3. QED
      BY <2>1, <2>2
  <1>8. RunInv'
    <2>1. at["creator"] \in Past => at'["creator"] \in Past
      BY <1>3 DEF Past, Threads
    <2>2. at'[Owner] \notin Past => at[Owner] \notin Past
      BY <1>1, <1>3 DEF Past, Owner, Threads
    <2>3. at["approver"] = "watching" => at'["approver"] = "watching"
      BY <1>1, <1>3 DEF Threads
    <2>4. QED
      BY <1>1, <1>4, <2>1, <2>2, <2>3 DEF IInv, RunInv
  <1>9. TraceInv'
    <2>1. at'[Owner] \in Open \ {"dispatching", "starting"} => at[Owner] \in Open \ {"dispatching", "starting"}
      BY <1>3 DEF Open, Early, Owner, Threads
    <2>2. \A o \in Threads : at'[o] = "handing back" => at[o] = "handing back"
      BY <1>3
    <2>3. QED
      BY <1>1, <1>4, <2>1, <2>2 DEF IInv, TraceInv
  <1>10. QED
    BY <1>5, <1>6, <1>7, <1>8, <1>9 DEF IInv

(* A thread that goes on with its handoff, or ends it, changes neither the *)
(* graph nor the run; the trace gets events that are no calls.             *)
LEMMA HandoffInv ==
    ASSUME IInv, NEW t \in Threads, at[t] \in Past, NEW next \in Past, at' = [at EXCEPT ![t] = next],
           NEW row \in [from: Nat \ {0}, events: Seq(Events)], rec' = [rec EXCEPT ![t] = row],
           Tools(row.events) = {},
           NEW events \in Seq(Events), Tools(events) = {}, trace' = trace \o events,
           told' \in [Threads -> {"nothing", "an error", "waiting_approval", "completed", "failed"}],
           UNCHANGED <<query, graph, run, checkpoint, calls, decision>>
    PROVE  IInv'
  <1>1. /\ at \in [Threads -> States] /\ rec \in [Threads -> [from: Nat \ {0}, events: Seq(Events)]]
        /\ trace \in Seq(Events)
    BY DEF IInv, Shapes
  <1>2. next \in States /\ next # "watching" /\ next \notin Open /\ at[t] # "watching" /\ at[t] \notin Open
    BY DEF States, Past, Open, Early
  <1>3. /\ at'[t] = next /\ \A o \in Threads : o # t => at'[o] = at[o]
        /\ at' \in [Threads -> States]
    BY <1>1, <1>2
  <1>4. /\ rec'[t] = row /\ \A o \in Threads : o # t => rec'[o] = rec[o]
        /\ rec' \in [Threads -> [from: Nat \ {0}, events: Seq(Events)]]
    BY <1>1
  <1>5. trace' \in Seq(Events)
    BY <1>1, ConcatEvents
  <1>6. Owner' = Owner
    BY <1>2, <1>3 DEF Owner, Threads
  <1>7. Shapes'
    BY <1>3, <1>4, <1>5 DEF IInv, Shapes
  <1>8. OwnerInv'
    <2>1. PlaceIsSound(next, graph[Owner], calls)
      BY <1>2 DEF PlaceIsSound, Open, Early
    <2>2. at'[Owner] = at[Owner] \/ at'[Owner] = next
      BY <1>3 DEF Owner, Threads
    <2>3. QED
      BY <1>6, <2>1, <2>2 DEF IInv, OwnerInv
  <1>9. ThreadsInv'
    <2>1. CASE Owner = "creator"
      <3>1. CreatorIsSound(at["creator"], graph["creator"], calls) /\ graph["approver"] = StartState
            /\ decision = Absent
        BY <2>1 DEF IInv, ThreadsInv
      <3>2. CreatorIsSound(at'["creator"], graph["creator"], calls)
        BY <1>2, <1>3, <3>1 DEF CreatorIsSound, Past, Threads
      <3>3. QED
        BY <1>6, <2>1, <3>1, <3>2 DEF ThreadsInv
    <2>2. CASE Owner # "creator"
      <3>1. /\ ApproverIsSound(at["approver"], graph["approver"], calls, decision)
            /\ at["creator"] \in Past /\ graph["creator"].plan = graph["approver"].plan
            /\ graph["creator"].analysis = Absent /\ graph["creator"].answer = "none"
            /\ graph["creator"].current = 0
        BY <2>2 DEF IInv, ThreadsInv
      <3>2. ApproverIsSound(at'["approver"], graph["approver"], calls, decision)
        BY <1>2, <1>3, <3>1 DEF ApproverIsSound, Past, Threads
      <3>3. at'["creator"] \in Past
        BY <1>3, <3>1 DEF Threads
      <3>4. QED
        BY <1>6, <2>2, <3>1, <3>2, <3>3 DEF ThreadsInv
    <2>3. QED
      BY <2>1, <2>2
  <1>10. RunInv'
    <2>1. at["creator"] \in Past => at'["creator"] \in Past
      BY <1>3 DEF Threads
    <2>2. at'[Owner] \notin Past => at[Owner] \notin Past
      BY <1>3 DEF Owner, Threads
    <2>3. at["approver"] = "watching" => at'["approver"] = "watching"
      BY <1>2, <1>3 DEF Threads
    <2>4. QED
      BY <1>6, <2>1, <2>2, <2>3 DEF IInv, RunInv
  <1>11. TraceInv'
    <2>1. at'[Owner] \in Open => at'[Owner] = at[Owner] /\ rec'[Owner] = rec[Owner]
      BY <1>2, <1>3, <1>4 DEF Owner, Threads
    <2>2. \A o \in Threads : at'[o] = "handing back" => Tools(rec'[o].events) = {}
      BY <1>3, <1>4 DEF IInv, TraceInv
    <2>3. Tells(trace, calls) => Tells(trace', calls)
      BY <1>1, TellsConcat
    <2>4. Tools(trace) = {} => Tools(trace') = {}
      BY <1>1, TellsConcat
    <2>5. QED
      BY <1>6, <2>1, <2>2, <2>3, <2>4 DEF IInv, TraceInv
  <1>12. QED
    BY <1>7, <1>8, <1>9, <1>10, <1>11 DEF IInv

(* _complete_handoff numbers its event, ... *)
LEMMA HandOverInv == ASSUME IInv, NEW t \in Threads, HandOver(t) PROVE IInv'
  <1> DEFINE e == Event("result", 0)
             row == [from |-> Len(trace) + 1, events |-> <<e>>]
             nothing == <<>>
  <1>1. trace \in Seq(Events)
        /\ told \in [Threads -> {"nothing", "an error", "waiting_approval", "completed", "failed"}]
    BY DEF IInv, Shapes
  <1>2. /\ at[t] = "handing over" /\ at' = [at EXCEPT ![t] = "handing back"] /\ rec' = [rec EXCEPT ![t] = row]
        /\ UNCHANGED <<query, graph, run, checkpoint, trace, calls, decision, told>>
    BY DEF HandOver, Recorder
  <1>3. at[t] \in Past /\ "handing back" \in Past
    BY <1>2 DEF Past
  <1>4. e \in Events /\ e.node # "tool"
    BY DEF Event, Events, Nodes
  <1> HIDE DEF e
  <1>5. row \in [from: Nat \ {0}, events: Seq(Events)] /\ Tools(row.events) = {}
    <2>1. Len(trace) + 1 \in Nat \ {0}
      BY <1>1, NoEvents
    <2>2. <<e>> \in Seq(Events)
      BY <1>4
    <2>3. Tools(<<e>>) = {}
      BY <1>4 DEF Tools
    <2>4. QED
      BY <2>1, <2>2, <2>3
  <1>6. nothing \in Seq(Events) /\ Tools(nothing) = {} /\ trace = trace \o nothing
    BY <1>1, NoEvents, Zenon
  <1> HIDE DEF row, nothing
  <1>7. trace' = trace \o nothing
    BY <1>2, <1>6
  <1>8. QED
    BY <1>1, <1>2, <1>3, <1>5, <1>6, <1>7, HandoffInv

(* ... and commits it. *)
LEMMA HandBackInv == ASSUME IInv, NEW t \in Threads, HandBack(t) PROVE IInv'
  <1> DEFINE row == rec[t]
             events == rec[t].events
             answer == IF graph[t].requires THEN "waiting_approval" ELSE Result(t)
  <1>1. /\ at[t] = "handing back" /\ at' = [at EXCEPT ![t] = "done"] /\ trace' = trace \o events
        /\ told' = [told EXCEPT ![t] = answer]
        /\ UNCHANGED <<query, graph, rec, run, checkpoint, calls, decision>>
    BY DEF HandBack, Done, Written
  <1>2. told \in [Threads -> {"nothing", "an error", "waiting_approval", "completed", "failed"}]
    BY DEF IInv, Shapes
  <1>3. answer \in {"waiting_approval", "completed", "failed"}
    BY DEF Result
  <1> HIDE DEF answer
  <1>4. told' \in [Threads -> {"nothing", "an error", "waiting_approval", "completed", "failed"}]
    BY <1>1, <1>2, <1>3
  <1>5. at[t] \in Past /\ "done" \in Past
    BY <1>1 DEF Past
  <1>6. row \in [from: Nat \ {0}, events: Seq(Events)] /\ rec = [rec EXCEPT ![t] = row]
    BY SameRecorder
  <1>7. Tools(events) = {}
    BY <1>1 DEF IInv, TraceInv
  <1>8. events \in Seq(Events) /\ row.events = events
    BY <1>6
  <1> HIDE DEF row, events
  <1>9. rec' = [rec EXCEPT ![t] = row] /\ Tools(row.events) = {}
    BY <1>1, <1>6, <1>7, <1>8
  <1>10. QED
    BY <1>1, <1>4, <1>5, <1>6, <1>7, <1>8, <1>9, HandoffInv

(* A decision makes the approver the owner, with the creator's graph state. *)
LEMMA ClaimInv == ASSUME IInv, Claim PROVE IInv'
  <1> DEFINE g == graph["creator"]
             ns == query.services
  <1>1. at["approver"] = "watching" /\ run.status = "waiting_approval" /\ Owner = "creator"
    BY DEF Claim, Owner
  <1>2. checkpoint = [state |-> g] /\ HighPlan(g.plan) /\ at["creator"] \in Past
    BY <1>1 DEF IInv, RunInv
  <1>3. PICK action \in {"approve", "reject", "cancel"} :
          /\ decision' = [action |-> action, plan |-> checkpoint.state.plan]
          /\ graph' = [graph EXCEPT !["approver"] = Restored(checkpoint.state, action)]
    BY DEF Claim
  <1>4. /\ run' = [status |-> "running", answer |-> "none"] /\ at' = [at EXCEPT !["approver"] = "starting"]
        /\ UNCHANGED <<query, rec, checkpoint, trace, calls, told>>
    BY DEF Claim
  <1> DEFINE h == [g EXCEPT !.action = action, !.resume = TRUE]
             d == [action |-> action, plan |-> g.plan]
  <1>5. /\ at \in [Threads -> States] /\ graph \in [Threads -> GraphRows(ns)] /\ g \in GraphRows(ns)
    BY DEF IInv, Shapes, Threads
  <1>6. decision' = d /\ graph' = [graph EXCEPT !["approver"] = h]
    BY <1>2, <1>3 DEF Restored
  <1>7. GraphIsSound(ns, g, calls) /\ CreatorIsSound(at["creator"], g, calls)
    BY <1>1 DEF IInv, OwnerInv, ThreadsInv
  <1>8. calls = <<>> /\ g.analysis = Absent /\ g.answer = "none" /\ g.current = 0
        /\ g.error = "none"
    <2>1. calls = <<>> /\ g.analysis = Absent /\ g.answer = "none"
      BY <1>2, <1>7 DEF CreatorIsSound
    <2>2. Len(calls) = 0
      BY <2>1
    <2>3. g.current = 0
      BY <1>7, <2>2 DEF GraphIsSound
    <2>4. g.inv = <<>>
      BY <1>2, <1>7 DEF GraphIsSound, SeveralIsSound
    <2>5. g.error # "tool"
      BY <1>7, <2>1, <2>4 DEF GraphIsSound, OneIsSound
    <2>6. g.error \notin {"rejected", "cancelled"}
      BY <1>7 DEF CreatorIsSound
    <2>7. QED
      BY <1>5, <2>1, <2>3, <2>5, <2>6 DEF GraphRows
  <1>9. /\ h \in GraphRows(ns)
        /\ h.plan = g.plan /\ h.inv = g.inv /\ h.current = g.current /\ h.evidence = g.evidence
        /\ h.error = g.error /\ h.analysis = g.analysis /\ h.answer = g.answer
        /\ h.action = action /\ h.resume = TRUE
    BY <1>5 DEF GraphRows, Actions
  <1>10. d \in [action: Actions, plan: PlanRows] /\ d.plan = g.plan /\ d.action = action /\ d # Absent
    <2>1. g.plan \in PlanRows
      BY <1>5 DEF GraphRows
    <2>2. DOMAIN d # DOMAIN Absent
      BY DEF Absent
    <2>3. QED
      BY <2>1, <2>2 DEF Actions
  <1> HIDE DEF h, d
  <1>11. /\ graph'["approver"] = h /\ graph'["creator"] = g /\ graph' \in [Threads -> GraphRows(ns)]
    BY <1>5, <1>6, <1>9 DEF Threads
  <1>12. /\ at'["approver"] = "starting" /\ at'["creator"] = at["creator"] /\ at' \in [Threads -> States]
    BY <1>4, <1>5 DEF Threads, States
  <1>13. Owner' = "approver"
    BY <1>12 DEF Owner
  <1>14. Shapes'
    BY <1>4, <1>6, <1>10, <1>11, <1>12 DEF IInv, Shapes
  <1>15. OwnerInv'
    <2>1. GraphIsSound(ns, h, calls)
      BY <1>7, <1>9, GraphAgrees
    <2>2. PlaceIsSound("starting", h, calls)
      BY <1>8, <1>9 DEF PlaceIsSound, Early
    <2>3. QED
      BY <1>4, <1>11, <1>12, <1>13, <2>1, <2>2 DEF OwnerInv
  <1>16. ThreadsInv'
    <2>1. ApproverIsSound("starting", h, calls, d)
      BY <1>2, <1>8, <1>9, <1>10 DEF ApproverIsSound, Actions
    <2>2. QED
      BY <1>2, <1>4, <1>6, <1>8, <1>9, <1>11, <1>12, <1>13, <2>1 DEF ThreadsInv
  <1>17. RunInv'
    <2>1. "none" \notin Texts
      BY DEF Texts
    <2>2. run'.status = "running" /\ run'.answer = "none"
      BY <1>4
    <2>3. QED
      BY <1>2, <1>4, <1>11, <1>12, <1>13, <2>1, <2>2 DEF RunInv
  <1>18. TraceInv'
    <2>1. run'.status = "running" /\ Tools(trace) = {}
      BY <1>1, <1>4 DEF IInv, TraceInv
    <2>2. \A o \in Threads : at'[o] = "handing back" => at[o] = "handing back"
      BY <1>12 DEF Threads
    <2>3. QED
      BY <1>4, <1>12, <1>13, <2>1, <2>2 DEF IInv, TraceInv
  <1>19. QED
    BY <1>14, <1>15, <1>16, <1>17, <1>18 DEF IInv

LEMMA RestInv == ASSUME IInv, UNCHANGED vars PROVE IInv'
  <1>1. UNCHANGED <<query, at, graph, rec, run, checkpoint, trace, calls, decision, told>>
    BY DEF vars
  <1>2. Owner' = Owner
    BY <1>1 DEF Owner
  <1>3. Shapes' /\ OwnerInv' /\ ThreadsInv'
    BY <1>1, <1>2 DEF IInv, Shapes, OwnerInv, ThreadsInv
  <1>4. RunInv' /\ TraceInv'
    BY <1>1, <1>2 DEF IInv, RunInv, TraceInv
  <1>5. QED
    BY <1>3, <1>4 DEF IInv

-----------------------------------------------------------------------------
(* The invariant *)

(* A request names no service, or some that differ, up to three. *)
LEMMA RequestLists == ASSUME NEW s \in SeqOf(Services, 3), IsInjective(s) PROVE s \in Lists
  <1>1. PICK m \in 0..3 : s \in [1..m -> Services]
    BY DEF SeqOf
  <1>2. s \in Seq(Services) /\ Len(s) = m
    BY <1>1
  <1>3. QED
    BY <1>1, <1>2 DEF Lists

(* A graph state without plan and calls has nothing to be compared. *)
LEMMA NothingIsSound ==
    ASSUME NEW ns, NEW none, none = <<>>, NEW g,
           g.plan = none, g.inv = none, g.current = 0, g.evidence = none,
           g.error = "none", g.analysis = Absent, g.answer = "none"
    PROVE  GraphIsSound(ns, g, none)
  <1>1. Len(none) = 0 /\ DOMAIN none = {}
    BY NoCalls
  <1>2. Succeeded(none) = {}
    BY <1>1 DEF Succeeded
  <1>3. {g.evidence[i] : i \in DOMAIN g.evidence} = {}
    BY <1>1
  <1>4. SeveralIsSound(ns, g, none) /\ AnalysisIsSound(g, none) /\ AnswerIsSound(g)
    BY DEF SeveralIsSound, AnalysisIsSound, AnswerIsSound
  <1>5. OneIsSound(g, none)
    BY <1>1 DEF OneIsSound
  <1>6. QED
    BY <1>1, <1>2, <1>3, <1>4, <1>5 DEF GraphIsSound

LEMMA StartIsSound ==
    ASSUME NEW ns
    PROVE  /\ StartState \in GraphRows(ns) /\ GraphIsSound(ns, StartState, <<>>)
           /\ StartState.plan = <<>> /\ StartState.inv = <<>> /\ ~ StartState.resume
           /\ StartState.error = "none" /\ StartState.analysis = Absent /\ StartState.answer = "none"
  <1>1. /\ StartState.plan = <<>> /\ StartState.inv = <<>> /\ ~ StartState.resume
        /\ StartState.current = 0 /\ StartState.evidence = <<>>
        /\ StartState.error = "none" /\ StartState.analysis = Absent /\ StartState.answer = "none"
    BY DEF StartState
  <1>2. <<>> \in PlanRows /\ <<>> \in Seq(Nat)
    BY StepsAssumption DEF PlanRows
  <1>3. StartState \in GraphRows(ns)
    BY <1>2 DEF StartState, GraphRows, Intents
  <1>4. GraphIsSound(ns, StartState, <<>>)
    BY <1>1, NothingIsSound
  <1>5. QED
    BY <1>1, <1>3, <1>4

LEMMA InitInv == Init => IInv
  <1> SUFFICES ASSUME Init PROVE IInv
    OBVIOUS
  <1> DEFINE start == IF query.mode = "single" THEN "starting" ELSE "dispatching"
             nothing == <<>>
  <1>1. query \in [mode: {"single", "specialist"}, llm: BOOLEAN, services: Lists]
    BY RequestLists DEF Init
  <1>2. /\ at \in [Threads -> States] /\ at["creator"] = start /\ at["approver"] = "watching"
        /\ start \in {"starting", "dispatching"}
    <2>1. /\ at = [creator |-> start, approver |-> "watching"]
          /\ start \in {"starting", "dispatching"}
      BY DEF Init
    <2> HIDE DEF start
    <2>2. at["creator"] = start /\ at["approver"] = "watching"
      BY <2>1
    <2>3. at = [t \in Threads |-> IF t = "creator" THEN start ELSE "watching"]
      BY <2>1 DEF Threads
    <2>4. \A t \in Threads : (IF t = "creator" THEN start ELSE "watching") \in States
      BY <2>1 DEF States
    <2>5. QED
      BY <2>1, <2>2, <2>3, <2>4
  <1>3. graph = [t \in Threads |-> StartState] /\ graph["creator"] = StartState /\ graph["approver"] = StartState
    BY DEF Init, Threads
  <1>4. /\ calls = nothing /\ trace = nothing /\ decision = Absent /\ checkpoint = Absent
        /\ run.status = "running" /\ run.answer = "none"
    BY DEF Init
  <1>5. nothing \in Seq(Events) /\ nothing \in Seq(CallRows) /\ Tools(nothing) = {}
    BY DEF Tools
  <1>6. rec \in [Threads -> [from: Nat \ {0}, events: Seq(Events)]]
    BY DEF Init
  <1>7. Owner = "creator"
    BY <1>2 DEF Owner
  <1> HIDE DEF start
  <1>8. GraphIsSound(query.services, StartState, nothing)
    BY StartIsSound
  <1>9. Shapes
    <2>1. graph \in [Threads -> GraphRows(query.services)]
      BY <1>3, StartIsSound
    <2>2. run \in [status: {"running", "waiting_approval", "completed", "failed"},
                   answer: {"none", "waiting"} \cup Texts]
      BY DEF Init
    <2>3. told \in [Threads -> {"nothing", "an error", "waiting_approval", "completed", "failed"}]
      BY DEF Init
    <2>4. trace \in Seq(Events) /\ calls \in Seq(CallRows)
      BY <1>4, <1>5
    <2>5. checkpoint \in {Absent} \cup [state: GraphRows(query.services)]
      BY <1>4
    <2>6. decision \in {Absent} \cup [action: Actions, plan: PlanRows]
      BY <1>4
    <2>7. QED
      BY <1>1, <1>2, <1>6, <2>1, <2>2, <2>3, <2>4, <2>5, <2>6 DEF Shapes
  <1>10. OwnerInv
    <2>1. PlaceIsSound(start, StartState, calls)
      BY <1>2, <1>4, StartIsSound DEF PlaceIsSound, Early
    <2>2. QED
      BY <1>2, <1>3, <1>4, <1>7, <1>8, <2>1 DEF OwnerInv
  <1>11. ThreadsInv
    <2>1. CreatorIsSound(start, StartState, calls)
      BY <1>2, StartIsSound, NoHighStep DEF CreatorIsSound
    <2>2. QED
      BY <1>2, <1>3, <1>4, <1>7, <2>1 DEF ThreadsInv
  <1>12. RunInv
    <2>1. "none" \notin Texts
      BY DEF Texts
    <2>2. QED
      BY <1>4, <2>1 DEF RunInv
  <1>13. TraceInv
    BY <1>2, <1>4, <1>5, <1>7 DEF TraceInv, Threads
  <1>14. QED
    BY <1>9, <1>10, <1>11, <1>12, <1>13 DEF IInv

LEMMA NextInv == IInv /\ [Next]_vars => IInv'
  <1> SUFFICES ASSUME IInv, [Next]_vars PROVE IInv'
    OBVIOUS
  <1>1. ASSUME NEW t \in Threads, ThreadStep(t) PROVE IInv'
    <2>1. CASE Dispatch(t)
      BY <2>1, DispatchInv
    <2>2. CASE Start(t)
      BY <2>2, StartInv
    <2>3. CASE Route(t)
      BY <2>3, RouteInv
    <2>4. CASE Plan(t)
      BY <2>4, PlanInv
    <2>5. CASE CheckRisk(t)
      BY <2>5, CheckRiskInv
    <2>6. CASE Gate(t)
      BY <2>6, GateInv
    <2>7. CASE Decide(t)
      BY <2>7, DecideInv
    <2>8. CASE Execute(t)
      BY <2>8, ExecuteInv
    <2>9. CASE Break(t)
      BY <2>9, BreakInv
    <2>10. CASE Analyse(t)
      BY <2>10, AnalyseInv
    <2>11. CASE Answer(t)
      BY <2>11, AnswerInv
    <2>12. CASE Finish(t)
      BY <2>12, FinishInv
    <2>13. CASE FinishFailed(t)
      BY <2>13, FinishFailedInv
    <2>14. CASE MarkWaiting(t)
      BY <2>14, MarkWaitingInv
    <2>15. CASE HandOver(t)
      BY <2>15, HandOverInv
    <2>16. CASE HandBack(t)
      BY <2>16, HandBackInv
    <2>17. CASE Clash(t)
      BY <2>17, ClashInv
    <2>18. QED
      BY <1>1, <2>1, <2>2, <2>3, <2>4, <2>5, <2>6, <2>7, <2>8, <2>9, <2>10, <2>11, <2>12, <2>13, <2>14,
         <2>15, <2>16, <2>17 DEF ThreadStep
  <1>2. CASE Claim
    BY <1>2, ClaimInv
  <1>3. CASE Rest
    BY <1>3, RestInv DEF Rest
  <1>4. CASE UNCHANGED vars
    BY <1>4, RestInv
  <1>5. QED
    BY <1>1, <1>2, <1>3, <1>4 DEF Next

(* The inductive invariant holds of every run of the graph. *)
THEOREM Invariance == Spec => []IInv
  <1>1. QED
    BY InitInv, NextInv, PTL DEF Spec

-----------------------------------------------------------------------------
(* What it implies *)

LEMMA NamesOfInv ==
    ASSUME NEW ns, NEW g \in GraphRows(ns), g.inv # <<>>
    PROVE  Investigated(g) = Names(ns)
  BY DEF GraphRows, Investigated

LEMMA KeptByInv == IInv => PlanIsKept
  <1> SUFFICES ASSUME IInv PROVE PlanIsKept
    OBVIOUS
  <1> DEFINE g == graph[Owner]
             ns == query.services
  <1>1. /\ Owner \in Threads /\ ns \in Lists /\ g \in GraphRows(ns) /\ calls \in Seq(CallRows)
        /\ graph \in [Threads -> GraphRows(ns)]
    BY DEF IInv, Shapes, Owner, Threads
  <1>2. GraphIsSound(ns, g, calls) /\ PlaceIsSound(at[Owner], g, calls)
    BY DEF IInv, OwnerInv
  <1>3. /\ g.plan \in Seq(StepRows) /\ Len(g.plan) \in Nat /\ Len(g.plan) <= MaxSteps /\ MaxSteps \in Nat
        /\ g.current \in Nat /\ Len(calls) = g.current /\ g.current <= Len(g.plan)
    BY <1>1, <1>2, StepsAssumption DEF GraphRows, PlanRows, GraphIsSound
  <1>4. \A t \in Threads : t = Owner \/ graph[t].current = 0
    <2>1. CASE Owner = "creator"
      BY <2>1 DEF IInv, ThreadsInv, Threads, StartState
    <2>2. CASE Owner # "creator"
      <3>1. Owner = "approver" /\ graph["creator"].current = 0
        BY <2>2 DEF IInv, ThreadsInv, Owner
      <3>2. QED
        BY <3>1 DEF Threads
    <2>3. QED
      BY <2>1, <2>2
  <1>5. \A t \in Threads : Len(graph[t].plan) \in Nat /\ Len(graph[t].plan) <= MaxSteps
    BY <1>1 DEF GraphRows, PlanRows
  <1>6. TypeOK
    <2>1. /\ query.mode \in {"single", "specialist"} /\ query.llm \in BOOLEAN
          /\ at \in [Threads -> States]
          /\ run.status \in {"running", "waiting_approval", "completed", "failed"}
      BY DEF IInv, Shapes
    <2>2. checkpoint # Absent => HighPlan(checkpoint.state.plan)
      BY DEF IInv, RunInv
    <2>3. ASSUME NEW t \in Threads
          PROVE  /\ rec[t].from \in Nat \ {0}
                 /\ told[t] \in {"nothing", "an error", "waiting_approval", "completed", "failed"}
      BY DEF IInv, Shapes
    <2>4. ASSUME NEW t \in Threads PROVE graph[t].current <= Len(graph[t].plan)
      BY <1>3, <1>4, <1>5
    <2>5. ASSUME NEW t \in Threads, at[t] = "executing" PROVE graph[t].current < Len(graph[t].plan)
      <3>1. t = Owner
        BY <2>5, OpenIsOwner DEF Open
      <3>2. QED
        BY <2>5, <3>1, <1>2, <1>3 DEF PlaceIsSound
    <2>6. QED
      BY <1>5, <2>1, <2>2, <2>3, <2>4, <2>5 DEF TypeOK
  <1>7. WholePlanApproved
    <2> SUFFICES ASSUME NEW t \in Threads, HighPlan(graph[t].plan), calls # <<>>
                 PROVE  /\ decision # Absent /\ decision.action = "approve"
                        /\ \A i \in DOMAIN calls : calls[i].tool = decision.plan[calls[i].n].tool
      BY DEF WholePlanApproved, HighPlan
    <2>1. Owner = "approver"
      <3>1. SUFFICES ASSUME Owner = "creator" PROVE FALSE
        BY DEF Owner
      <3>2. ~ HighPlan(graph["creator"].plan) /\ ~ HighPlan(graph["approver"].plan)
        BY <3>1, NoHighStep DEF IInv, ThreadsInv, CreatorIsSound, StartState
      <3>3. QED
        BY <3>2 DEF Threads
    <2>2. decision # Absent /\ decision.plan = g.plan /\ decision.action = "approve"
      BY <2>1 DEF IInv, ThreadsInv, ApproverIsSound
    <2>3. \A i \in DOMAIN calls : calls[i].n = i /\ calls[i].tool = g.plan[i].tool
      BY <1>2 DEF GraphIsSound
    <2>4. QED
      BY <2>2, <2>3
  <1>8. CallsFollowPlan
    <2>1. ASSUME NEW i \in DOMAIN calls PROVE calls[i].n = i /\ i <= MaxSteps
      <3>1. calls[i].n = i /\ i \in Nat /\ i <= Len(calls)
        BY <1>1, <1>2 DEF GraphIsSound
      <3>2. QED
        BY <1>3, <3>1
    <2>2. ASSUME NEW i \in DOMAIN calls, ~ calls[i].ok, i # Len(calls)
          PROVE  Cardinality(Investigated(g)) > 1
      <3>1. i \in Nat /\ i < Len(calls)
        BY <1>1, <2>2
      <3>2. g.inv # <<>>
        BY <1>2, <2>2, <3>1 DEF GraphIsSound, OneIsSound
      <3>3. Investigated(g) = Names(ns) /\ Len(ns) > 1
        BY <1>1, <1>2, <3>2, NamesOfInv DEF GraphIsSound, SeveralIsSound
      <3>4. QED
        BY <1>1, <3>3, SeveralNames
    <2>3. QED
      BY <1>1, <2>1, <2>2 DEF CallsFollowPlan
  <1>9. QED
    BY <1>6, <1>7, <1>8 DEF PlanIsKept

(* Only the owner has answered or analysed. *)
LEMMA OwnerAnswers ==
    ASSUME IInv, NEW t \in Threads, graph[t].answer # "none" \/ graph[t].analysis # Absent
    PROVE  t = Owner
  <1>1. CASE Owner = "creator"
    BY <1>1 DEF IInv, ThreadsInv, StartState, Threads
  <1>2. CASE Owner # "creator"
    <2>1. Owner = "approver" /\ graph["creator"].answer = "none" /\ graph["creator"].analysis = Absent
      BY <1>2 DEF IInv, ThreadsInv, Owner
    <2>2. QED
      BY <2>1 DEF Threads
  <1>3. QED
    BY <1>1, <1>2

(* What the answer of the owner's graph says of the calls. *)
LEMMA TextTells ==
    ASSUME NEW ns, NEW cs \in Seq(CallRows), NEW g \in GraphRows(ns), GraphIsSound(ns, g, cs),
           g.answer # "none"
    PROVE  /\ g.answer \in {"nothing executed", "no plan"} => cs = <<>>
           /\ g.answer = "stopped" => ~ Last(cs).ok
           /\ g.answer = "analysis" => \E i \in DOMAIN cs : cs[i].ok
           /\ g.answer = "results" => cs # <<>> /\ \A i \in DOMAIN cs : cs[i].ok
  <1>1. g.answer = Text(g) /\ (g.inv # <<>> => g.analysis # Absent)
    BY DEF GraphIsSound, AnswerIsSound
  <1>2. Len(cs) \in Nat /\ DOMAIN cs = 1..Len(cs) /\ (Len(cs) = 0 => cs = <<>>)
    OBVIOUS
  <1>3. g.error \in {"rejected", "cancelled"} => cs = <<>>
    BY DEF GraphIsSound
  <1>4. g.plan = <<>> => cs = <<>>
    <2>1. ASSUME g.plan = <<>> PROVE Len(cs) <= 0
      BY <2>1 DEF GraphIsSound
    <2>2. QED
      BY <1>2, <2>1
  <1>5. g.error = "tool" => ~ cs[Len(cs)].ok
    BY DEF GraphIsSound, SeveralIsSound, OneIsSound
  <1>6. g.evidence # <<>> => \E i \in DOMAIN cs : cs[i].ok
    <2>1. SUFFICES ASSUME g.evidence # <<>> PROVE \E i \in DOMAIN cs : cs[i].ok
      OBVIOUS
    <2>2. g.evidence \in Seq(Nat)
      BY DEF GraphRows
    <2>3. 1 \in DOMAIN g.evidence
      BY <2>1, <2>2
    <2>4. g.evidence[1] \in Succeeded(cs)
      BY <2>3 DEF GraphIsSound
    <2>5. QED
      BY <2>4 DEF Succeeded
  <1>7. ASSUME g.error # "tool", g.analysis = Absent PROVE \A i \in DOMAIN cs : cs[i].ok
    <2>1. g.inv = <<>>
      BY <1>1, <1>7
    <2>2. /\ \A i \in DOMAIN cs : i < Len(cs) => cs[i].ok
          /\ cs = <<>> \/ cs[Len(cs)].ok
      BY <1>7, <2>1 DEF GraphIsSound, OneIsSound
    <2>3. ASSUME NEW i \in DOMAIN cs PROVE cs[i].ok
      <3>1. i \in Nat /\ i <= Len(cs) /\ cs # <<>>
        BY <1>2
      <3>2. QED
        BY <1>2, <2>2, <3>1
    <2>4. QED
      BY <2>3
  <1>8. g.answer = "stopped" => ~ Last(cs).ok
    <2>1. g.answer = "stopped" => g.error = "tool"
      BY <1>1 DEF Text
    <2>2. Last(cs) = cs[Len(cs)]
      BY DEF Last
    <2>3. QED
      BY <1>5, <2>1, <2>2, Zenon
  <1>9. g.answer \in {"nothing executed", "no plan"} => cs = <<>>
    BY <1>1, <1>3, <1>4 DEF Text
  <1>10. g.answer = "analysis" => \E i \in DOMAIN cs : cs[i].ok
    <2>1. Text(g) = "analysis" => g.evidence # <<>>
      BY DEF Text
    <2>2. QED
      BY <1>1, <1>6, <2>1
  <1>11. g.answer = "results" => cs # <<>> /\ \A i \in DOMAIN cs : cs[i].ok
    <2>1. SUFFICES ASSUME g.answer = "results" PROVE cs # <<>> /\ \A i \in DOMAIN cs : cs[i].ok
      OBVIOUS
    <2>2. g.error # "tool" /\ g.analysis = Absent /\ g.evidence # <<>>
      BY <1>1, <2>1 DEF Text
    <2>3. QED
      BY <1>2, <1>6, <1>7, <2>2
  <1>12. QED
    BY <1>8, <1>9, <1>10, <1>11

(* The services' records and the analysis at the end of a run. *)
LEMMA RecordsTell ==
    ASSUME MaxSteps >= 3, NEW ns \in Lists, NEW cs \in Seq(CallRows), NEW g \in GraphRows(ns),
           GraphIsSound(ns, g, cs), g.answer # "none"
    PROVE  /\ \A s \in Investigated(g) :
                /\ g.inv[s].evidence = {i \in CallsOf(ns, g, cs, s) : cs[i].ok}
                /\ g.inv[s].status = IF \A i \in CallsOf(ns, g, cs, s) : cs[i].ok THEN "completed"
                                     ELSE IF g.inv[s].evidence # {} THEN "partial" ELSE "failed"
           /\ g.analysis # Absent /\ (\E i \in DOMAIN cs : ~ cs[i].ok) => g.analysis.uncertain
  <1>1. Len(cs) \in Nat /\ DOMAIN cs = 1..Len(cs) /\ g.plan \in Seq(StepRows) /\ DOMAIN g.plan = 1..Len(g.plan)
    BY DEF GraphRows, PlanRows
  <1>2. CASE g.inv = <<>>
    <2>1. Investigated(g) = {}
      BY <1>2, NoCalls DEF Investigated
    <2>2. ASSUME g.analysis # Absent, NEW i \in DOMAIN cs, ~ cs[i].ok PROVE FALSE
      <3>1. i \in Nat /\ i <= Len(cs) /\ cs # <<>>
        BY <1>1
      <3>2. g.error # "tool"
        BY <2>2 DEF GraphIsSound, AnalysisIsSound
      <3>3. cs[Len(cs)].ok /\ (i < Len(cs) => cs[i].ok)
        BY <1>2, <2>2, <3>1, <3>2 DEF GraphIsSound, OneIsSound
      <3>4. QED
        BY <1>1, <2>2, <3>1, <3>3
    <2>3. QED
      BY <2>1, <2>2
  <1>3. CASE g.inv # <<>>
    <2>1. g.analysis # Absent /\ Len(cs) = Len(g.plan)
      BY <1>3 DEF GraphIsSound, AnswerIsSound, AnalysisIsSound
    <2>2. Investigated(g) = Names(ns)
      BY <1>3, NamesOfInv
    <2>3. SeveralIsSound(ns, g, cs) /\ MaxSteps >= 3
      BY DEF GraphIsSound
    <2>4. ASSUME NEW s \in Names(ns)
          PROVE  /\ g.inv[s].evidence = {i \in CallsOf(ns, g, cs, s) : cs[i].ok}
                 /\ g.inv[s].status = IF \A i \in CallsOf(ns, g, cs, s) : cs[i].ok THEN "completed"
                                      ELSE IF g.inv[s].evidence # {} THEN "partial" ELSE "failed"
      <3>1. ServiceIsSound(ns, g, cs, s)
        BY <1>3, <2>3 DEF SeveralIsSound
      <3>2. CallsOf(ns, g, cs, s) # {}
        <4>1. PICK i \in DOMAIN g.plan : ServiceOf(ns, g, g.plan[i]) = s
          BY <1>3, <2>3 DEF SeveralIsSound
        <4>2. i \in DOMAIN cs
          BY <1>1, <2>1
        <4>3. QED
          BY <4>1, <4>2 DEF CallsOf
      <3>3. ~ More(ns, g, s, Len(cs))
        BY <1>1, <2>1 DEF More
      <3>4. QED
        BY <3>1, <3>2, <3>3 DEF ServiceIsSound
    <2>5. ASSUME NEW i \in DOMAIN cs, ~ cs[i].ok PROVE g.analysis.uncertain
      <3> DEFINE s == ServiceOf(ns, g, g.plan[i])
      <3>1. s \in Names(ns)
        <4>1. i \in DOMAIN g.plan
          BY <1>1, <2>1
        <4>2. g.plan[i].service \in Names(ns) \cup {NoService}
          BY <1>3, <2>3, <4>1 DEF SeveralIsSound
        <4>3. ns[1] \in Names(ns)
          <5>1. Len(ns) > 1
            BY <1>3, <2>3 DEF SeveralIsSound
          <5>2. 1 \in DOMAIN ns
            BY <5>1 DEF Lists
          <5>3. QED
            BY <5>2 DEF Names
        <4>4. QED
          BY <1>3, <4>2, <4>3 DEF ServiceOf
      <3>2. i \in CallsOf(ns, g, cs, s)
        BY DEF CallsOf
      <3> HIDE DEF s
      <3>3. g.inv[s].status \in {"partial", "failed"}
        BY <2>4, <2>5, <3>1, <3>2
      <3>4. s \in DOMAIN g.inv
        BY <2>2, <3>1 DEF Investigated
      <3>5. QED
        BY <1>3, <2>1, <3>3, <3>4 DEF GraphIsSound, AnalysisIsSound
    <2>6. QED
      BY <2>2, <2>4, <2>5
  <1>4. QED
    BY <1>2, <1>3

LEMMA ToldByInv == ASSUME MaxSteps >= 3, IInv PROVE OutcomeIsTold
  <1> DEFINE g == graph[Owner]
             ns == query.services
  <1>1. /\ Owner \in Threads /\ ns \in Lists /\ g \in GraphRows(ns) /\ calls \in Seq(CallRows)
    BY DEF IInv, Shapes, Owner, Threads
  <1>2. GraphIsSound(ns, g, calls)
    BY DEF IInv, OwnerInv
  <1>3. run.answer = "waiting" => calls = <<>>
    <2> SUFFICES ASSUME run.answer = "waiting" PROVE calls = <<>>
      OBVIOUS
    <2>1. Owner = "creator" /\ HighPlan(graph["creator"].plan)
      BY DEF IInv, RunInv, Owner
    <2>2. QED
      BY <2>1 DEF IInv, ThreadsInv, CreatorIsSound
  <1>4. run.answer \in Texts => run.answer = g.answer
    BY DEF IInv, RunInv
  <1>5. /\ run.answer \in {"nothing executed", "no plan"} => calls = <<>>
        /\ run.answer = "stopped" => ~ Last(calls).ok
        /\ run.answer = "analysis" => \E i \in DOMAIN calls : calls[i].ok
        /\ run.answer = "results" => calls # <<>> /\ \A i \in DOMAIN calls : calls[i].ok
    <2>1. CASE run.answer \in Texts
      <3>1. run.answer = g.answer /\ g.answer # "none"
        BY <1>4, <2>1 DEF Texts
      <3> HIDE DEF g, ns
      <3>2. QED
        BY <1>1, <1>2, <3>1, TextTells
    <2>2. CASE run.answer \notin Texts
      BY <2>2 DEF Texts
    <2>3. QED
      BY <2>1, <2>2
  <1>6. ASSUME NEW t \in Threads, graph[t].answer # "none"
        PROVE  LET h == graph[t]
                   OfService(s) == {i \in DOMAIN calls : StepService(h, h.plan[calls[i].n]) = s}
               IN /\ \A s \in Investigated(h) :
                       /\ h.inv[s].evidence = {i \in OfService(s) : calls[i].ok}
                       /\ h.inv[s].status = IF \A i \in OfService(s) : calls[i].ok THEN "completed"
                                            ELSE IF h.inv[s].evidence # {} THEN "partial" ELSE "failed"
                  /\ h.analysis # Absent /\ (\E i \in DOMAIN calls : ~ calls[i].ok) => h.analysis.uncertain
    <2> DEFINE h == graph[t]
               OfService(s) == {i \in DOMAIN calls : StepService(h, h.plan[calls[i].n]) = s}
    <2>1. h = g
      BY <1>6, OwnerAnswers
    <2>2. \A s : OfService(s) = CallsOf(ns, h, calls, s)
      <3>1. \A i \in DOMAIN calls : calls[i].n = i
        BY <1>2 DEF GraphIsSound
      <3>2. \A step : StepService(h, step) = ServiceOf(ns, h, step)
        BY DEF StepService, ServiceOf
      <3>3. QED
        BY <3>1, <3>2 DEF CallsOf
    <2>3. /\ h \in GraphRows(ns) /\ GraphIsSound(ns, h, calls) /\ h.answer # "none"
      BY <1>1, <1>2, <1>6, <2>1
    <2> HIDE DEF h, g, ns, OfService
    <2>4. /\ \A s \in Investigated(h) :
               /\ h.inv[s].evidence = {i \in CallsOf(ns, h, calls, s) : calls[i].ok}
               /\ h.inv[s].status = IF \A i \in CallsOf(ns, h, calls, s) : calls[i].ok THEN "completed"
                                    ELSE IF h.inv[s].evidence # {} THEN "partial" ELSE "failed"
          /\ h.analysis # Absent /\ (\E i \in DOMAIN calls : ~ calls[i].ok) => h.analysis.uncertain
      BY <1>1, <2>3, RecordsTell
    <2>5. /\ \A s \in Investigated(h) :
               /\ h.inv[s].evidence = {i \in OfService(s) : calls[i].ok}
               /\ h.inv[s].status = IF \A i \in OfService(s) : calls[i].ok THEN "completed"
                                    ELSE IF h.inv[s].evidence # {} THEN "partial" ELSE "failed"
          /\ h.analysis # Absent /\ (\E i \in DOMAIN calls : ~ calls[i].ok) => h.analysis.uncertain
      BY <2>2, <2>4
    <2>6. QED
      BY <2>5 DEF h, OfService
  <1>7. QED
    BY <1>3, <1>5, <1>6 DEF OutcomeIsTold

LEMMA CitedByInv == ASSUME IInv PROVE CitationsAreEvidence
  <1> DEFINE ns == query.services
  <1> SUFFICES ASSUME NEW t \in Threads, graph[t].analysis # Absent
               PROVE  LET cited == graph[t].analysis.cited
                      IN /\ cited \subseteq {calls[i].n : i \in {j \in DOMAIN calls : calls[j].ok}}
                         /\ graph[t].evidence # <<>> => cited # {}
                         /\ \A s \in Investigated(graph[t]) :
                              graph[t].inv[s].evidence # {} => cited \cap graph[t].inv[s].evidence # {}
    BY DEF CitationsAreEvidence
  <1> DEFINE g == graph[t]
             cited == graph[t].analysis.cited
  <1>1. t = Owner
    BY OwnerAnswers
  <1>2. GraphIsSound(ns, g, calls) /\ g \in GraphRows(ns)
    BY <1>1 DEF IInv, OwnerInv, Shapes
  <1>3. /\ cited \subseteq Succeeded(calls)
        /\ Succeeded(calls) # {} => cited # {}
        /\ g.inv # <<>> => \A s \in DOMAIN g.inv : g.inv[s].evidence # {} => cited \cap g.inv[s].evidence # {}
    BY <1>2 DEF GraphIsSound, AnalysisIsSound
  <1>4. \A i \in DOMAIN calls : calls[i].n = i
    BY <1>2 DEF GraphIsSound
  <1>5. cited \subseteq {calls[i].n : i \in {j \in DOMAIN calls : calls[j].ok}}
    BY <1>3, <1>4 DEF Succeeded
  <1>6. g.evidence # <<>> => cited # {}
    <2> SUFFICES ASSUME g.evidence # <<>> PROVE cited # {}
      OBVIOUS
    <2>1. g.evidence \in Seq(Nat)
      BY <1>2 DEF GraphRows
    <2>2. 1 \in DOMAIN g.evidence
      BY <2>1
    <2>3. g.evidence[1] \in Succeeded(calls)
      BY <1>2, <2>2 DEF GraphIsSound
    <2>4. QED
      BY <1>3, <2>3
  <1>7. \A s \in Investigated(g) : g.inv[s].evidence # {} => cited \cap g.inv[s].evidence # {}
    <2>1. CASE g.inv = <<>>
      BY <2>1, NoCalls DEF Investigated
    <2>2. CASE g.inv # <<>>
      BY <2>2, <1>3 DEF Investigated
    <2>3. QED
      BY <2>1, <2>2
  <1>8. QED
    BY <1>5, <1>6, <1>7

(* The plan that was classified, and approved if it had to be, is the plan *)
(* that is executed, step by step; for every number of steps up to the     *)
(* planner's limit, every set of services and every plan a model writes.   *)
THEOREM PlansAreKept == Spec => []PlanIsKept
  <1>1. QED
    BY Invariance, KeptByInv, PTL

(* The answer, the services' records and the citations say what the calls  *)
(* brought.  The budget has to be three steps at least: a smaller one cuts *)
(* a service's only step, and its record stays pending.                    *)
THEOREM OutcomesAreSupported == ASSUME MaxSteps >= 3 PROVE Spec => []OutcomeIsSupported
  <1>1. IInv => OutcomeIsSupported
    BY ToldByInv, CitedByInv DEF OutcomeIsSupported
  <1>2. QED
    BY <1>1, Invariance, PTL

(* A finished run's trace tells each call once and in order. *)
THEOREM TracesTellCalls == Spec => []TraceTellsCalls
  <1>1. IInv => TraceTellsCalls
    BY DEF IInv, TraceInv, Tells, Tools, TraceTellsCalls
  <1>2. QED
    BY <1>1, Invariance, PTL
=============================================================================
