------------------------------- MODULE ModelArms -------------------------------
(***************************************************************************)
(* The comparison of arms whose decisions an online model takes            *)
(* (eval/model_comparison.py): every arm of a line-up investigates the     *)
(* same fixture, with the product's budgets for tools and models and a     *)
(* meter of the tokens it may spend, shared by its branches.               *)
(*                                                                         *)
(* What a model decides is open, within what decide() accepts; the size of *)
(* a prompt is fixed by the pilot.  Tools, arms and the rule for the next  *)
(* tool are those of Comparison, and so is the registry, which refuses     *)
(* what names a service: only the handbook is ever read, and it is empty.  *)
(***************************************************************************)
EXTENDS Comparison

CONSTANTS
    Pilots,       \* cases, with their line-up, repeats, prompt size and usage report
    TokenLimit,   \* TOKEN_LIMIT
    CharLimit,    \* INPUT_CHAR_LIMIT
    OutputLimit   \* OUTPUT_LIMIT and the fixed overhead

(* VARIANTS: the arms a line-up may name, each as often as it likes. *)
ArmNames == {Alone, Pooled, "serial", "no_verifier", "no_followup", "no_retry"}

ASSUME ModelArmsAssumption ==
    /\ TokenLimit \in Nat /\ CharLimit \in Nat /\ OutputLimit \in Nat
    /\ Pilots \subseteq
         [size: 1..3, fault: {"none", "transient_once", "log_failure", "ticket_failure", "knowledge_failure"},
          lineup: Seq(ArmNames) \ {<<>>}, repeats: 1..3, prompt: Nat, usage: BOOLEAN]

VARIABLES
    pilot,    \* what the program was started with
    arm,      \* the arm that runs
    meter,    \* its BudgetedModel
    wire,     \* its Fixture: the calls that reach it
    raw,      \* raw.jsonl
    summary   \* summary.json

armVars == <<pilot, arm, meter, wire, raw, summary>>

-----------------------------------------------------------------------------
Services == 1..pilot.size

Rested == [variant |-> "none"]
Unwritten == [pairs |-> {}, written |-> FALSE]

ArmsInit ==
    /\ pilot \in Pilots
    /\ arm = Rested /\ wire = <<>> /\ raw = <<>> /\ summary = Unwritten
    /\ meter = [calls |-> 0, reserved |-> 0, chars |-> 0, tokens |-> 0, known |-> TRUE]

ArmRuns == arm.variant \notin {"none", "gone"}

(* main: every second repeat goes through the variants backwards. *)
Lineup(repeat) == IF repeat % 2 = 1 THEN pilot.lineup ELSE Reverse(pilot.lineup)

RepeatOf(k) == 1 + ((k - 1) \div Len(pilot.lineup))
VariantOf(k) == Lineup(RepeatOf(k))[1 + ((k - 1) % Len(pilot.lineup))]

NewBranch ==
    [pc |-> "calling", tool |-> LogTool, used |-> 0, chosen |-> {LogTool}, answer |-> "none", late |-> FALSE]

(* run_variant: a fixture and a meter of its own. *)
StartVariant ==
    /\ arm = Rested /\ Len(raw) < pilot.repeats * Len(pilot.lineup)
    /\ arm' = [variant |-> VariantOf(Len(raw) + 1), asks |-> 0, spoke |-> FALSE, review |-> "none",
               jobs |-> [s \in Services |-> NewBranch]]
    /\ wire' = <<>>
    /\ meter' = [calls |-> 0, reserved |-> 0, chars |-> 0, tokens |-> 0, known |-> TRUE]
    /\ UNCHANGED <<pilot, raw, summary>>

-----------------------------------------------------------------------------
(* Fixture.call_tool, for search_knowledge: the service is the first one   *)
(* whose name the question contains.                                       *)
Finds(s) == IF pilot.fault = "knowledge_failure" /\ s = 1 THEN "error" ELSE "empty"

(* The arguments that the client receives carry the run, one of each arm.  *)
Request(s) == [run |-> Len(raw) + 1, tool |-> KnowledgeTool, service |-> s]

-----------------------------------------------------------------------------
(* investigate_service with a model, in the arm's pool or one after another *)

Pool == IF arm.variant \in {Alone, "serial"} THEN 1 ELSE 2

Ended(s) == arm.jobs[s].pc = "ended"
ServicesEnded == \A s \in Services : Ended(s)

(* Branches start in the order of the services. *)
Going(s) == ArmRuns /\ Cardinality({t \in 1..(s - 1) : ~Ended(t)}) < Pool

(* ToolRegistry.call_tool: the mock session grants no service. *)
CallsTool(s) ==
    /\ Going(s) /\ arm.jobs[s].pc = "calling"
    /\ LET job == arm.jobs[s]
           reached == job.tool = KnowledgeTool
           answer == IF reached THEN Finds(s) ELSE "refused"
       IN
       /\ wire' = IF reached THEN Append(wire, [request |-> Request(s), answer |-> answer]) ELSE wire
       /\ arm' = [arm EXCEPT !.jobs[s] = [job EXCEPT !.used = @ + 1, !.pc = "deciding", !.answer = answer]]
    /\ UNCHANGED <<pilot, meter, raw, summary>>

(* The deadline passed: before the next step of the branch, or within one, *)
(* and then the model is asked once more.                                  *)
Late(s) ==
    /\ Going(s) /\ arm.jobs[s].pc = "calling"
    /\ \E pc \in {"ended", "deciding"} :
         arm' = [arm EXCEPT !.jobs[s] = [@ EXCEPT !.pc = pc, !.tool = "none", !.late = TRUE]]
    /\ UNCHANGED <<pilot, meter, wire, raw, summary>>

(* Mutant: only the model is told that no attempt is left. *)
ChoosesOn(s, tool) ==
    [arm.jobs[s] EXCEPT !.tool = tool, !.chosen = @ \cup ({tool} \ {"none"}),
                        !.pc = IF tool = "none" \/ arm.jobs[s].late THEN "ended" ELSE "calling"]

Chooses(s, tool) ==
    LET job == arm.jobs[s]
        over == tool = "none" \/ job.late \/ job.used >= AttemptLimit
    IN [job EXCEPT !.tool = tool, !.chosen = @ \cup ({tool} \ {"none"}),
                   !.pc = IF over THEN "ended" ELSE "calling"]

RuleFor(s) == NextTool(arm.jobs[s].tool, arm.jobs[s].answer \in Failures, arm.jobs[s].answer)

-----------------------------------------------------------------------------
(* BudgetedModel.generate_structured *)

Cost == pilot.prompt + OutputLimit
ModelLimitOf == AttemptLimit * pilot.size + 1

(* Mutant: what was answered is counted, not what may still be. *)
FitsAnswered ==
    /\ meter.calls < ModelLimitOf
    /\ meter.tokens + Cost <= TokenLimit /\ meter.chars + pilot.prompt <= CharLimit

Fits ==
    /\ meter.calls < ModelLimitOf
    /\ meter.reserved + Cost <= TokenLimit /\ meter.chars + pilot.prompt <= CharLimit

(* Under the lock, before the request is sent. *)
Spend ==
    meter' = [meter EXCEPT !.calls = @ + 1, !.reserved = @ + Cost, !.chars = @ + pilot.prompt]

(* Sink.record_llm: a total, known if every call reported its usage, which *)
(* is at most what was reserved for it: a token has at least one byte.     *)
Metered(reported) ==
    meter' = [meter EXCEPT !.tokens = IF reported THEN @ + Cost ELSE @, !.known = @ /\ reported]

(* A request that failed has no usage, an answer that is refused may have. *)
MeteredOnFailure == \E reported \in {pilot.usage, FALSE} : Metered(reported)

(* decide: the diagnostic budget counts before the meter does. *)
MayAsk == arm.asks < ModelLimitOf

Asks(s) ==
    /\ Going(s) /\ arm.jobs[s].pc = "deciding"
    /\ \/ /\ MayAsk /\ Fits /\ Spend
          /\ arm' = [arm EXCEPT !.asks = @ + 1, !.jobs[s].pc = "waiting"]
       \/ /\ ~(MayAsk /\ Fits) /\ UNCHANGED meter
          /\ arm' = [arm EXCEPT !.asks = IF MayAsk THEN @ + 1 ELSE @, !.jobs[s] = Chooses(s, RuleFor(s))]
    /\ UNCHANGED <<pilot, wire, raw, summary>>

(* The model stops, or chooses a tool it was offered. *)
Decides(s) ==
    /\ Going(s) /\ arm.jobs[s].pc = "waiting" /\ Metered(pilot.usage)
    /\ \E tool \in {"none"} \cup
            (IF arm.jobs[s].used < AttemptLimit THEN {TicketTool, KnowledgeTool} \ arm.jobs[s].chosen ELSE {}) :
         arm' = [arm EXCEPT !.spoke = TRUE, !.jobs[s] = Chooses(s, tool)]
    /\ UNCHANGED <<pilot, wire, raw, summary>>

DecisionFails(s) ==
    /\ Going(s) /\ arm.jobs[s].pc = "waiting" /\ MeteredOnFailure
    /\ arm' = [arm EXCEPT !.jobs[s] = Chooses(s, RuleFor(s))]
    /\ UNCHANGED <<pilot, wire, raw, summary>>

-----------------------------------------------------------------------------
(* verify, if any claim was made of the evidence. *)

Replies == {n \in DOMAIN wire : wire[n].answer = "empty"}

AsksReview ==
    /\ ArmRuns /\ ServicesEnded /\ arm.review = "none" /\ arm.variant # "no_verifier"
    /\ arm.spoke /\ Replies # {}
    /\ MayAsk /\ Fits /\ Spend
    /\ arm' = [arm EXCEPT !.asks = @ + 1, !.review = "waiting"]
    /\ UNCHANGED <<pilot, wire, raw, summary>>

ReviewEnds ==
    /\ ArmRuns /\ arm.review = "waiting" /\ MeteredOnFailure
    /\ arm' = [arm EXCEPT !.review = "over"]
    /\ UNCHANGED <<pilot, wire, raw, summary>>

-----------------------------------------------------------------------------
(* summarize, budget_checks_pass *)
BudgetChecks ==
    /\ Len(wire) <= AttemptLimit * 3
    /\ meter.calls <= ModelLimitOf /\ meter.reserved <= TokenLimit /\ meter.chars <= CharLimit

(* The requests that were answered, for the comparison with other arms. *)
EndsVariant ==
    /\ ArmRuns /\ ServicesEnded /\ arm.review # "waiting"
    /\ raw' = Append(raw, [variant |-> arm.variant, repeat |-> RepeatOf(Len(raw) + 1), pass |-> BudgetChecks,
                           responses |-> {wire[n] : n \in Replies}])
    /\ arm' = Rested
    /\ UNCHANGED <<pilot, meter, wire, summary>>

(* summarize: every arm against the single one of its repeat; of arms with *)
(* the same name it keeps the last.  Requests are compared run and all, so *)
(* that those of two arms never are the same.                              *)
Group(repeat, variant) == {k \in DOMAIN raw : raw[k].repeat = repeat /\ raw[k].variant = variant}

LastOf(repeat, variant) ==
    raw[CHOOSE k \in Group(repeat, variant) : \A l \in Group(repeat, variant) : l <= k]

Requests(responses) == {w.request : w \in responses}

PairOf(repeat, variant) ==
    LET base == LastOf(repeat, Alone).responses
        other == LastOf(repeat, variant).responses
    IN [repeat |-> repeat, with |-> variant,
        common |-> Cardinality(Requests(base) \cap Requests(other)),
        identical |-> \A l \in base, r \in other : l.request = r.request => l.answer = r.answer]

Pairs ==
    {PairOf(p[1], p[2]) : p \in {q \in (1..pilot.repeats) \X (ArmNames \ {Alone}) :
        Group(q[1], Alone) # {} /\ Group(q[1], q[2]) # {}}}

WritesSummary ==
    /\ arm = Rested /\ ~summary.written /\ Len(raw) = pilot.repeats * Len(pilot.lineup)
    /\ summary' = [pairs |-> Pairs, written |-> TRUE]
    /\ UNCHANGED <<pilot, arm, meter, wire, raw>>

(* The program is stopped: what it appended stays. *)
Stopped ==
    /\ ArmRuns /\ arm' = [variant |-> "gone"]
    /\ UNCHANGED <<pilot, meter, wire, raw, summary>>

-----------------------------------------------------------------------------
ArmsNext ==
    \/ StartVariant
    \/ \E s \in Services : CallsTool(s) \/ Late(s) \/ Asks(s) \/ Decides(s) \/ DecisionFails(s)
    \/ AsksReview \/ ReviewEnds \/ EndsVariant \/ WritesSummary \/ Stopped

ArmsSpec == ArmsInit /\ [][ArmsNext]_armVars

-----------------------------------------------------------------------------
(* Properties *)

(* Whatever the branches of an arm ask at the same time, they never spend  *)
(* more than the arm was given: calls, tokens and characters as promised   *)
(* before they are sent, and tokens as they are reported.  No service has  *)
(* more attempts than its own, so that one call of the model is always     *)
(* left for the review; and every record says that its arm kept to them.   *)
ArmsAreBounded ==
    /\ meter.reserved <= TokenLimit /\ meter.chars <= CharLimit /\ meter.tokens <= meter.reserved
    /\ ArmRuns =>
        /\ \A s \in Services : arm.jobs[s].used <= AttemptLimit
        /\ ServicesEnded /\ arm.review = "none" => arm.asks < ModelLimitOf
    /\ \A n \in DOMAIN raw : raw[n].pass

(* What every comparison rests on: two arms without models that differ in  *)
(* their variant alone, and arms with a model that keep to their budgets.  *)
ComparisonsAreFair == ArmsAgree /\ ArmsAreBounded
=============================================================================
