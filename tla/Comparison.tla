------------------------------- MODULE Comparison -------------------------------
(***************************************************************************)
(* One pair of the offline comparison (eval/w4_fixture.py) or of the live  *)
(* replay (eval/incident_replay.py): the same case is investigated by one  *)
(* agent that visits the services in order, and by the multi-agent run     *)
(* with its pool, and the two results are compared.  No models take part.  *)
(*                                                                         *)
(* Every call goes through the tool registry, which resolves the scope of  *)
(* the run first, and neither harness gives its runs one: a call that      *)
(* names a service is refused before any client sees it.  So no search of  *)
(* logs ever comes back empty or breaks its connection, and the follow-ups *)
(* and retries of both arms, which Investigation models, have no step      *)
(* here.  At most three services have attempts of their own, so the shared *)
(* budget of nine never refuses; the deadlines are out of reach.           *)
(***************************************************************************)
EXTENDS Naturals, FiniteSets, Sequences, SequencesExt

CONSTANTS
    Sizes,         \* how many services a case may name
    AttemptLimit   \* calls about one service

ASSUME ComparisonAssumption == Sizes \subseteq 1..3 /\ AttemptLimit \in Nat \ {0}

VARIABLES
    trial,    \* the case, its fault, and which variant of the multi arm runs
    bench,    \* the arm that runs, and its state
    outcomes  \* what is kept of the arms that ended

comparisonVars == <<trial, bench, outcomes>>

-----------------------------------------------------------------------------
LogTool == "query_error_logs"
TicketTool == "search_tickets"
KnowledgeTool == "search_knowledge"

Alone == "enhanced_single_equal"
Pooled == "multi"

(* What a fixture may be told to break, in the tools or in the review. *)
FixtureFaults ==
    {"none", "transient_once", "transient_persistent", "outcome_unknown", "ticket_failure",
     "knowledge_failure", "wrong_service_record", "non_low_tool",
     "verifier_timeout", "verifier_failure", "overreach_claim", "verifier_false_reject"}

(* bare: the tools that have no records. *)
FixtureTrials ==
    [source: {"fixture"}, size: Sizes, fault: FixtureFaults,
     bare: {{}, {TicketTool}, {LogTool, TicketTool, KnowledgeTool}}, order: {<<Alone, Pooled>>},
     variant: {"full", "serial", "no_verifier", "no_followup", "no_retry"}]

(* The cases of the replay name one or two services; its pairs alternate   *)
(* their order.                                                            *)
ReplayTrials ==
    [source: {"replay"}, size: Sizes \ {3}, fault: {"none", "ticket_failure"}, bare: {{}},
     order: {<<Alone, Pooled>>, <<Pooled, Alone>>}, variant: {"full"}]

Live == trial.source = "replay"
Named == 1..trial.size

Resting == [arm |-> "none"]

ComparisonInit ==
    /\ trial \in FixtureTrials \cup ReplayTrials
    /\ bench = Resting /\ outcomes = <<>>

Running(arm) == bench.arm = arm

-----------------------------------------------------------------------------
(* FixtureClient.call_tool, for search_knowledge: the question names its   *)
(* service only in its text, so that the fault hits every service.         *)
Handbook ==
    IF trial.fault = "knowledge_failure" THEN "error"
    ELSE IF KnowledgeTool \in trial.bare THEN "empty" ELSE "data"

(* ToolRegistry.call_tool.  The fixture's session is a mock that grants no *)
(* service: of the tools only the handbook is asked without one.  A run of *)
(* the replay belongs to no team and has no scope at all.                  *)
Answer(tool) == IF Live \/ tool # KnowledgeTool THEN "refused" ELSE Handbook

Failures == {"refused", "error"}

(* _next_tool *)
NextTool(tool, failed, answer) ==
    IF tool = LogTool THEN TicketTool
    ELSE IF tool = TicketTool /\ (failed \/ answer = "empty") THEN KnowledgeTool
    ELSE "none"

-----------------------------------------------------------------------------
(* The arms *)

NewJob == [tool |-> LogTool, used |-> 0, seen |-> <<>>]

Fresh(arm) == [arm |-> arm, jobs |-> [s \in Named |-> NewJob], evidence |-> <<>>]

NoClaims == [supported |-> 0, unsupported |-> 0]

Blocked ==
    [status |-> "blocked", evidence |-> <<>>, attempts |-> 0,
     verdict |-> [status |-> "skipped", claims |-> NoClaims]]

(* Every tool an arm may select must be of low risk before its first call. *)
StartArm ==
    /\ Running("none") /\ Len(outcomes) < 2
    /\ IF trial.fault = "non_low_tool"
       THEN outcomes' = Append(outcomes, Blocked) /\ UNCHANGED bench
       ELSE bench' = Fresh(trial.order[Len(outcomes) + 1]) /\ UNCHANGED outcomes
    /\ UNCHANGED trial

Open(s) == bench.jobs[s].tool # "none" /\ bench.jobs[s].used < AttemptLimit

Observed(tool, s) == [tool |-> tool, service |-> s, answer |-> Answer(tool)]

(* What a call adds to the evidence. *)
Brought(s) ==
    LET tool == bench.jobs[s].tool
    IN IF Answer(tool) \in Failures THEN <<>> ELSE <<Observed(tool, s)>>

AfterCall(s) ==
    LET job == bench.jobs[s]
    IN [tool |-> NextTool(job.tool, Answer(job.tool) \in Failures, Answer(job.tool)),
        used |-> job.used + 1, seen |-> job.seen \o Brought(s)]

First(S) == CHOOSE s \in S : \A t \in S : s <= t

(* _run_enhanced_single: one cursor, one list of evidence *)
SingleCall ==
    /\ Running(Alone) /\ \E s \in Named : Open(s)
    /\ LET s == First({n \in Named : Open(n)})
       IN bench' = [bench EXCEPT !.evidence = @ \o Brought(s), !.jobs[s] = AfterCall(s)]
    /\ UNCHANGED <<trial, outcomes>>

(* _run_multi and the replay's multi arm: execute_multi_agent_run without  *)
(* models.  A branch is at work once fewer branches before it are than     *)
(* there are workers.                                                      *)
Workers == IF trial.variant = "serial" THEN 1 ELSE 2

AtWork(s) == Open(s) /\ Cardinality({t \in 1..(s - 1) : Open(t)}) < Workers

BranchCall(s) ==
    /\ Running(Pooled) /\ AtWork(s)
    /\ bench' = [bench EXCEPT !.jobs[s] = AfterCall(s)]
    /\ UNCHANGED <<trial, outcomes>>

(* The database fails while the replay reads the scope of the run: the     *)
(* error leaves the arm, and with it the program.                          *)
ReplayAborts ==
    /\ Live /\ bench.arm \in {Alone, Pooled} /\ \E s \in Named : Open(s)
    /\ bench' = [arm |-> "aborted"]
    /\ UNCHANGED <<trial, outcomes>>

-----------------------------------------------------------------------------
(* EvidenceVerifier: records of the handbook are no facts; that it has     *)
(* none is one.  Without a fact the analysis says so, which no record does. *)
Checked(evidence) ==
    LET facts == Cardinality({n \in DOMAIN evidence :
                    evidence[n].answer = "empty" \/ evidence[n].tool # KnowledgeTool})
    IN [supported |-> facts, unsupported |-> IF facts = 0 THEN 1 ELSE 0]

(* _review: one claim more, or the first supported one rejected.           *)
Claims(evidence) ==
    LET report == Checked(evidence)
        beyond == IF trial.fault = "overreach_claim" THEN 1 ELSE 0
        rejected == IF trial.fault = "verifier_false_reject" /\ report.supported > 0 THEN 1 ELSE 0
    IN [supported |-> report.supported - rejected, unsupported |-> report.unsupported + rejected + beyond]

ReviewOf(evidence) ==
    CASE trial.fault = "verifier_timeout" -> [status |-> "timeout", claims |-> NoClaims]
      [] trial.fault = "verifier_failure" -> [status |-> "failed", claims |-> NoClaims]
      [] OTHER -> [status |-> "completed", claims |-> Claims(evidence)]

PooledReview(evidence) ==
    IF trial.variant = "no_verifier" THEN [status |-> "skipped", claims |-> NoClaims] ELSE ReviewOf(evidence)

UsedFor(s) == IF s \in Named THEN bench.jobs[s].used ELSE 0
SeenFor(s) == IF s \in Named THEN bench.jobs[s].seen ELSE <<>>

(* The fixture counts what was spent, the replay what its client was asked. *)
AttemptsMade == IF Live THEN 0 ELSE UsedFor(1) + UsedFor(2) + UsedFor(3)

(* Mutant: the last service comes first. *)
MergedBackwards == SeenFor(3) \o SeenFor(2) \o SeenFor(1)

(* In the order of the services, of which there are three at most. *)
Merged == SeenFor(1) \o SeenFor(2) \o SeenFor(3)

Recorded(evidence, verdict) ==
    [status |-> IF evidence # <<>> THEN "completed" ELSE "failed", evidence |-> evidence,
     attempts |-> AttemptsMade, verdict |-> verdict]

EndArm ==
    /\ \/ Running(Alone) /\ outcomes' = Append(outcomes, Recorded(bench.evidence, ReviewOf(bench.evidence)))
       \/ Running(Pooled) /\ outcomes' = Append(outcomes, Recorded(Merged, PooledReview(Merged)))
    /\ \A s \in Named : ~Open(s)
    /\ bench' = Resting
    /\ UNCHANGED trial

-----------------------------------------------------------------------------
ComparisonNext ==
    \/ StartArm \/ SingleCall \/ EndArm \/ ReplayAborts
    \/ \E s \in Named : BranchCall(s)

ComparisonSpec == ComparisonInit /\ [][ComparisonNext]_comparisonVars

-----------------------------------------------------------------------------
(* Results *)

Compared == Len(outcomes) = 2

Of(arm) == outcomes[IF trial.order[1] = arm THEN 1 ELSE 2]

-----------------------------------------------------------------------------
(* Properties *)

(* The two arms of a pair differ in what the variant leaves out and in     *)
(* nothing else, whatever the branches of the pool do at the same time:    *)
(* the cursor of _run_enhanced_single and the merge of                     *)
(* execute_multi_agent_run bring the same evidence in the same order at    *)
(* the same cost, and the same claims where both are reviewed.             *)
ArmsAgree ==
    Compared =>
        /\ Of(Alone).evidence = Of(Pooled).evidence
        /\ Of(Alone).status = Of(Pooled).status /\ Of(Alone).attempts = Of(Pooled).attempts
        /\ trial.variant # "no_verifier" => Of(Alone).verdict = Of(Pooled).verdict
=============================================================================
