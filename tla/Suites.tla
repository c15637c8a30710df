--------------------------------- MODULE Suites ---------------------------------
(***************************************************************************)
(* Programs that evaluate the agent from outside: the A/B batches of       *)
(* eval/phase22_ab.py, whose result files accumulate until they are        *)
(* compared, and the suites of eval/runner.py: those of single components, *)
(* the live one, and the representative one, which injects a fault into    *)
(* the application for one case at a time.                                 *)
(*                                                                         *)
(* What the agent answers is open, within what the injected fault allows;  *)
(* which code is checked out and how it is configured may change between   *)
(* programs, and a program may be killed.  A program reads its code, its   *)
(* configuration and its cases when it starts.                             *)
(***************************************************************************)
EXTENDS Naturals, FiniteSets, Sequences, SequencesExt

CONSTANTS
    Trees, BaselineTree,   \* commits that may be checked out; BASELINE_SHA
    RulesOf,               \* gold cases, fixture version and permissions of a commit
    Configs,               \* configurations of model and database
    AbCases,               \* the cases of the A/B batches
    SuiteFaults,           \* the faults of the representative cases, in order
    LiveCases,             \* number of cases of the live suite
    ComponentCases,        \* number of cases of each suite of one component
    MaxPrograms, MaxRepeat \* bounds: programs that are started; --repeat

CrossFaults == {"cross_service_fixture", "cross_service_conflict", "cross_service_tool_failure"}

RepresentativeFault ==
    {"none", "empty_mcp", "llm_failure", "mcp_failure", "sql_guard_rejection",
     "missing_approval_checkpoint"} \cup CrossFaults

ASSUME SuitesAssumption ==
    /\ BaselineTree \in Trees /\ LiveCases \in Nat \ {0} /\ ComponentCases \in Nat \ {0}
    /\ MaxPrograms \in Nat /\ MaxRepeat \in Nat \ {0}
    /\ SuiteFaults \in Seq(RepresentativeFault)

VARIABLES
    tree, config,  \* what is checked out and configured
    results,       \* result files of each A/B variant and case, by their time
    compared,      \* the last comparison that was written
    app,           \* what the started application calls
    harness,       \* the running program, or how the last one ended
    programs

suiteVars == <<tree, config, results, compared, app, harness, programs>>

-----------------------------------------------------------------------------
Variants == {"baseline", "enhanced"}
GoldServices == {"order-service", "inventory-service", "payment-service"}  \* of every A/B case

Untouched == [registry |-> "original", analyzer |-> "original"]
Ended(exit, judged) == [pc |-> "ended", exit |-> exit, judged |-> judged]

SuitesInit ==
    /\ tree \in Trees /\ config \in Configs
    /\ results = [v \in Variants |-> [c \in AbCases |-> <<>>]]
    /\ compared = <<>> /\ app = Untouched
    /\ harness = Ended("none", <<>>) /\ programs = 0

HarnessAt(pc) == harness.pc = pc

(* A running program does not read them again, so they may as well change *)
(* between programs only.                                                  *)
Checkout ==
    /\ HarnessAt("ended")
    /\ tree' \in Trees \ {tree}
    /\ UNCHANGED <<config, results, compared, app, harness, programs>>

Configure ==
    /\ HarnessAt("ended")
    /\ config' \in Configs \ {config}
    /\ UNCHANGED <<tree, results, compared, app, harness, programs>>

StartProgram ==
    /\ HarnessAt("ended") /\ programs < MaxPrograms  \* bound
    /\ programs' = programs + 1

-----------------------------------------------------------------------------
(* phase22_ab *)

(* Mutant: any commit may call itself the baseline. *)
BaselineOfAnyCommit(v) == TRUE

MayRun(v) == v = "baseline" => tree = BaselineTree

(* main(): the code is loaded and configured once, for all its cases. *)
StartAb ==
    /\ StartProgram
    /\ \E v \in Variants, n \in 1..MaxRepeat,
          cases \in {SetToSeq(AbCases)} \cup {<<c>> : c \in AbCases} :
         /\ MayRun(v)
         /\ harness' = [pc |-> "ab", variant |-> v, code |-> tree, config |-> config,
                        todo |-> FlattenSeq([i \in 1..n |-> cases])]
    /\ app' = Untouched
    /\ UNCHANGED <<tree, config, results, compared>>

(* What a run may bring: services whose gold record is among the evidence, *)
(* those a citation points at, failed calls, doubts, and unsafe tools or a *)
(* high risk.                                                              *)
AbRuns ==
    {r \in [matched: SUBSET GoldServices, cited: SUBSET GoldServices,
            failed: BOOLEAN, doubtful: BOOLEAN, safe: BOOLEAN] : r.cited \subseteq r.matched}

DegradationOk(case, r) ==
    IF case = "cross-service-tool-failure"
    THEN Cardinality(r.matched \ {"order-service"}) >= 2 /\ r.failed
    ELSE ~r.failed

(* _run_case: business_success *)
BusinessSuccess(case, r) ==
    /\ r.matched = GoldServices /\ r.cited = GoldServices
    /\ DegradationOk(case, r)
    /\ case = "cross-service-conflict" => r.doubtful
    /\ r.safe

(* The fixture of the case replaces the tools of the original registry. *)
RunAbCase ==
    /\ HarnessAt("ab") /\ harness.todo # <<>>
    /\ LET case == Head(harness.todo) IN
       /\ app' = [Untouched EXCEPT !.registry = case]
       /\ \E good \in {BusinessSuccess(case, r) : r \in AbRuns} :
            harness' = [pc |-> "save", variant |-> harness.variant, code |-> harness.code,
                        config |-> harness.config, todo |-> Tail(harness.todo), case |-> case,
                        payload |-> [code |-> harness.code, config |-> harness.config,
                                     rules |-> RulesOf[harness.code], good |-> good]]
    /\ UNCHANGED <<tree, config, results, compared, programs>>

Saved(file) == [results EXCEPT ![harness.variant][harness.case] = Append(@, file)]

SaveResult ==
    /\ HarnessAt("save")
    /\ results' = Saved(harness.payload)
    /\ harness' = [pc |-> "ab", variant |-> harness.variant, code |-> harness.code,
                   config |-> harness.config, todo |-> harness.todo]
    /\ UNCHANGED <<tree, config, compared, app, programs>>

(* A batch exits with 0 whatever its cases have shown. *)
EndAb ==
    /\ HarnessAt("ab") /\ harness.todo = <<>>
    /\ harness' = Ended("0", <<>>)
    /\ UNCHANGED <<tree, config, results, compared, app, programs>>

TornFile == [torn |-> TRUE]

(* The batch is killed, perhaps while it writes a file. *)
KillAb ==
    /\ harness.pc \in {"ab", "save"}
    /\ harness' = Ended("killed", <<>>)
    /\ results' \in {results} \cup IF HarnessAt("save") THEN {Saved(TornFile)} ELSE {}
    /\ UNCHANGED <<tree, config, compared, app, programs>>

Files(v, case) == results[v][case]

(* Mutant: the files are paired as far as there are two. *)
PairableShortest(case) == Files("baseline", case) # <<>> /\ Files("enhanced", case) # <<>>

Pairable(case) ==
    /\ Files("baseline", case) # <<>>
    /\ Len(Files("baseline", case)) = Len(Files("enhanced", case))

Readable(case) == \A v \in Variants : ~Contains(Files(v, case), TornFile)

(* The i-th files of both variants belong together. *)
SameConditions(case) ==
    \A i \in DOMAIN Files("baseline", case) \cap DOMAIN Files("enhanced", case) :
        LET b == Files("baseline", case)[i]
            e == Files("enhanced", case)[i]
        IN b.config = e.config /\ b.rules = e.rules

SummaryOf(files) ==
    [runs |-> Len(files), good |-> Len(SelectSeq(files, LAMBDA f : f.good))]

(* _compare: it raises at the first case it cannot compare. *)
Compare ==
    /\ HarnessAt("ended")
    /\ \A c \in AbCases : Readable(c) /\ Pairable(c) /\ SameConditions(c)
    /\ compared' = [c \in AbCases |-> [v \in Variants |-> SummaryOf(Files(v, c))]]
    /\ UNCHANGED <<tree, config, results, app, harness, programs>>

-----------------------------------------------------------------------------
(* run_representative_agent *)

(* Mutant: the analyzer of the case before stays. *)
AnalyzerStays(fault) ==
    [registry |-> IF fault \in {"none", "llm_failure", "missing_approval_checkpoint"}
                  THEN "original" ELSE fault,
     analyzer |-> IF fault = "llm_failure" THEN "failing" ELSE app.analyzer]

(* Registry and analyzer are the original ones again, then one is replaced. *)
Injected(fault) ==
    [registry |-> IF fault \in {"none", "llm_failure", "missing_approval_checkpoint"}
                  THEN "original" ELSE fault,
     analyzer |-> IF fault = "llm_failure" THEN "failing" ELSE "original"]

StartSuite ==
    /\ StartProgram
    /\ \E faults \in {SuiteFaults} \cup {<<SuiteFaults[k]>> : k \in DOMAIN SuiteFaults} :
         harness' = [pc |-> "suite", todo |-> faults, judged |-> <<>>]
    /\ app' = Untouched
    /\ UNCHANGED <<tree, config, results, compared>>

NoAnswer == [status |-> "none", tools |-> "none", substance |-> FALSE,
             gold |-> {}, cited |-> {}, source |-> "none"]

(* What the application may answer to the query of a case: only incidents  *)
(* are analyzed, a data query runs the SQL of its tools' own model, and an *)
(* operation of high risk waits for its approval.                          *)
SuiteAnswers(fault, under) ==
    {NoAnswer, [NoAnswer EXCEPT !.status = "failed"]} \cup
    IF fault = "missing_approval_checkpoint" THEN {[NoAnswer EXCEPT !.status = "waiting_approval"]}
    ELSE IF under.registry \in {"mcp_failure", "sql_guard_rejection"} THEN {}
    ELSE    {a \in [status: {"completed"}, tools: {"all", "some"}, substance: BOOLEAN,
                    gold: {{}, GoldServices}, cited: {{}, {"a record"}, GoldServices},
                    source: {"llm", "fallback"}] :
                /\ under.registry = "empty_mcp" => ~a.substance
                /\ under.registry = "cross_service_tool_failure" => a.tools = "some"
                /\ a.gold # {} => a.substance /\ under.registry \in CrossFaults
                /\ a.cited = GoldServices => a.gold # {}
                /\ under.analyzer = "failing" => a.source = "fallback"}

(* One case is prepared and posted. *)
RunCase ==
    /\ HarnessAt("suite") /\ harness.todo # <<>>
    /\ LET fault == Head(harness.todo) IN
       /\ app' = Injected(fault)
       /\ \E a \in SuiteAnswers(fault, Injected(fault)) :
            harness' = [pc |-> IF fault = "missing_approval_checkpoint" /\ a.status # "none"
                               THEN "approve" ELSE "judge",
                        todo |-> harness.todo, judged |-> harness.judged, answer |-> a]
    /\ UNCHANGED <<tree, config, results, compared, programs>>

(* The checkpoint is deleted and the run approved: without its checkpoint  *)
(* the run fails, a run that does not wait stays as it is.                 *)
ApproveWithoutCheckpoint ==
    /\ HarnessAt("approve")
    /\ harness' = [pc |-> "judge", todo |-> harness.todo, judged |-> harness.judged,
                   answer |-> [NoAnswer EXCEPT !.status = "failed"]]
    /\ UNCHANGED <<tree, config, results, compared, app, programs>>

(* The checks of a case. *)
CaseSucceeds(fault, a) ==
    LET fails == fault \in {"mcp_failure", "sql_guard_rejection", "missing_approval_checkpoint"}
        tools == CASE fails -> "none"
                   [] fault = "cross_service_tool_failure" -> "some"
                   [] OTHER -> "all"
    IN
    /\ a.status = IF fails THEN "failed" ELSE "completed"
    /\ a.tools = tools
    /\ fault = "empty_mcp" => ~a.substance
    /\ fault \in {"none", "llm_failure"} \cup CrossFaults => a.substance
    /\ a.source # "none" => a.cited # {}
    /\ fault \in CrossFaults => a.gold = GoldServices /\ a.cited = GoldServices
    /\ fault = "llm_failure" => a.source = "fallback"
    /\ fault \in {"none"} \cup (CrossFaults \ {"cross_service_tool_failure"}) => a.source = "llm"

JudgeCase ==
    /\ HarnessAt("judge")
    /\ LET fault == Head(harness.todo) IN
       harness' = [pc |-> "suite", todo |-> Tail(harness.todo),
                   judged |-> Append(harness.judged,
                       [fault |-> fault, under |-> app,
                        passed |-> CaseSucceeds(fault, harness.answer)])]
    /\ UNCHANGED <<tree, config, results, compared, app, programs>>

-----------------------------------------------------------------------------
(* run_routing, run_tools, run_sql_guard, run_retrieval *)

(* In the order in which all of them are run. *)
ComponentNames == {"routing", "tools", "sql_guard", "retrieval"}
ComponentSuites == <<"routing", "tools", "sql_guard", "retrieval">>

StartComponents ==
    /\ StartProgram
    /\ \E suites \in {ComponentSuites} \cup {<<ComponentSuites[k]>> : k \in DOMAIN ComponentSuites} :
         harness' = [pc |-> "component", judged |-> <<>>,
                     todo |-> [i \in 1..(Len(suites) * ComponentCases) |->
                                  suites[1 + ((i - 1) \div ComponentCases)]]]
    /\ UNCHANGED <<tree, config, results, compared, app>>

(* How a component may answer one case: in which respects as expected, and *)
(* for a search the best rank of a relevant document, 0 for none.          *)
RoutingVerdicts == {a.intent /\ a.source : a \in [intent: BOOLEAN, source: BOOLEAN]}
ToolVerdicts == {a.tool /\ a.inputs : a \in [tool: BOOLEAN, inputs: BOOLEAN]}

(* A statement that is let through must read the expected tables with the  *)
(* expected limit, one that is refused must be refused for its reason.     *)
SqlVerdicts ==
    {a.allowed = a.expected /\ (IF a.expected THEN a.tables /\ a.limit ELSE a.code) :
        a \in [expected: BOOLEAN, allowed: BOOLEAN, tables: BOOLEAN, limit: BOOLEAN, code: BOOLEAN]}

RetrievalVerdicts == {a.rank # 0 /\ a.rank <= a.k : a \in [rank: 0..3, k: 1..2]}

ComponentVerdicts(suite) ==
    CASE suite = "routing" -> RoutingVerdicts [] suite = "tools" -> ToolVerdicts
      [] suite = "sql_guard" -> SqlVerdicts [] suite = "retrieval" -> RetrievalVerdicts

UnderNoFault(passed) == [fault |-> "none", under |-> Untouched, passed |-> passed]

ComponentCase ==
    /\ HarnessAt("component") /\ harness.todo # <<>>
    /\ \E passed \in ComponentVerdicts(Head(harness.todo)) :
         harness' = [pc |-> "component", todo |-> Tail(harness.todo),
                     judged |-> Append(harness.judged, UnderNoFault(passed))]
    /\ UNCHANGED <<tree, config, results, compared, app, programs>>

-----------------------------------------------------------------------------
(* run_live_agent *)

StartLive ==
    /\ StartProgram
    /\ \E n \in {1, LiveCases} :
         harness' = [pc |-> "live", todo |-> [i \in 1..n |-> "none"], judged |-> <<>>]
    /\ UNCHANGED <<tree, config, results, compared, app>>

(* The deployed agent answers as the case expects or otherwise, or not in *)
(* time, or with an error: a failed case, and the suite goes on.          *)
LiveCase ==
    /\ HarnessAt("live") /\ harness.todo # <<>>
    /\ \E reply \in {"expected", "other", "no answer"} :
         harness' = [pc |-> "live", todo |-> Tail(harness.todo),
                     judged |-> Append(harness.judged, UnderNoFault(reply = "expected"))]
    /\ UNCHANGED <<tree, config, results, compared, app, programs>>

(* Mutant: the suite is good when most cases are. *)
ExitOfMost(judged) ==
    IF Len(SelectSeq(judged, LAMBDA v : v.passed)) * 2 > Len(judged) THEN "0" ELSE "1"

ExitCode(judged) == IF \E k \in DOMAIN judged : ~judged[k].passed THEN "1" ELSE "0"

(* main() of runner.py *)
EndSuite ==
    /\ harness.pc \in {"suite", "live", "component"} /\ harness.todo = <<>>
    /\ harness' = Ended(ExitCode(harness.judged), harness.judged)
    /\ UNCHANGED <<tree, config, results, compared, app, programs>>

(* The database is not available: no results, whatever has been judged. *)
SuiteBreaks ==
    /\ harness.pc \in {"suite", "approve", "judge"}
    /\ harness' = Ended("2", <<>>)
    /\ UNCHANGED <<tree, config, results, compared, app, programs>>

SuitesNext ==
    \/ Checkout \/ Configure
    \/ StartAb \/ RunAbCase \/ SaveResult \/ EndAb \/ KillAb \/ Compare
    \/ StartSuite \/ RunCase \/ ApproveWithoutCheckpoint \/ JudgeCase
    \/ StartComponents \/ ComponentCase \/ StartLive \/ LiveCase \/ EndSuite \/ SuiteBreaks

SuitesSpec == SuitesInit /\ [][SuitesNext]_suiteVars

-----------------------------------------------------------------------------
(* Properties *)

(* What a comparison says of the two variants is said of runs under equal  *)
(* conditions: as many runs of every case, all of them whole, the k-th of  *)
(* both with the same model, database and gold, and all of the baseline's  *)
(* by the baseline's code; however often the checkout or the configuration *)
(* has changed between the batches and wherever a batch was killed.        *)
ReportsCompareAlike ==
    [][compared' # compared => \A c \in AbCases :
         LET b == results["baseline"][c]
             e == results["enhanced"][c]
         IN
         /\ compared'[c]["baseline"].runs = compared'[c]["enhanced"].runs
         /\ Len(b) = Len(e) /\ b # <<>>
         /\ \A k \in DOMAIN b :
              /\ {b[k], e[k]} \cap {TornFile} = {}
              /\ b[k].code = BaselineTree
              /\ <<b[k].config, b[k].rules>> = <<e[k].config, e[k].rules>>]_suiteVars

(* Every case is judged under the fault it injects and no other, the one   *)
(* of the case before it included; a suite that ends with 0 has judged all *)
(* its cases, each in its turn, and all have passed; one that ends with 1  *)
(* has a case that failed.                                                 *)
VerdictsAreOwn ==
    /\ "judged" \in DOMAIN harness =>
         \A k \in DOMAIN harness.judged :
            LET v == harness.judged[k] IN
            /\ (v.under = Untouched) = (v.fault \in {"none", "missing_approval_checkpoint"})
            /\ (v.under.analyzer # "original") = (v.fault = "llm_failure")
            /\ v.under.registry \in {"original", v.fault}
    /\ HarnessAt("ended") /\ harness.judged # <<>> =>
         (harness.exit = "0") = (\A k \in DOMAIN harness.judged : harness.judged[k].passed)
=============================================================================
