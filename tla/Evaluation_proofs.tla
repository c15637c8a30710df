--------------------------- MODULE Evaluation_proofs ---------------------------
(***************************************************************************)
(* Proofs about conclusions and how they are judged.  Suites: for every    *)
(* set of trees, configurations and cases, every order of representative   *)
(* faults and however many programs are started and interrupted.           *)
(* Experiment: for every number of cases, set of versions, and number of   *)
(* kills and resumptions.  Diagnosis: for every length of the plan, number *)
(* of calls, choice of the models and verdict of the review.               *)
(***************************************************************************)
EXTENDS Suites, Experiment, Diagnosis, TLAPS, SequenceTheorems, FiniteSetTheorems

(* Whole result files, and what a suite writes down of a case. *)
AbFile == [code: Trees, config: Configs, rules: {RulesOf[t] : t \in Trees}, good: BOOLEAN]

Setups == [registry: RepresentativeFault \cup {"original"}, analyzer: {"original", "failing"}]
Verdict == [fault: RepresentativeFault, under: Setups, passed: BOOLEAN]

(* A verdict was given under the fault of its case. *)
Own(v) ==
    /\ (v.under = Untouched) = (v.fault \in {"none", "missing_approval_checkpoint"})
    /\ (v.under.analyzer # "original") = (v.fault = "llm_failure")
    /\ v.under.registry \in {"original", v.fault}

AllPassed(judged) == \A k \in 1..Len(judged) : judged[k].passed

Batching == {"ab", "save"}
Representing == {"suite", "approve", "judge"}
Judging == Representing \cup {"component", "live", "ended"}

(* A batch runs the code it was started with, the baseline's own if it     *)
(* calls itself the baseline.                                              *)
BatchInv ==
    /\ "judged" \notin DOMAIN harness
    /\ harness.variant \in Variants /\ harness.code \in Trees /\ harness.config \in Configs
    /\ harness.variant = "baseline" => harness.code = BaselineTree
    /\ harness.pc = "save" => harness.payload \in AbFile /\ harness.payload.code = harness.code

(* What has been judged was judged under its own fault, and the fault of   *)
(* the case under way is the one that is injected.                         *)
SuiteInv ==
    /\ harness.judged \in Seq(Verdict) /\ \A k \in 1..Len(harness.judged) : Own(harness.judged[k])
    /\ harness.pc \in Representing => harness.todo \in Seq(RepresentativeFault)
    /\ harness.pc \in {"approve", "judge"} =>
         harness.todo # <<>> /\ app = Injected(Head(harness.todo))
    /\ harness.pc = "component" => harness.todo \in Seq(ComponentNames)
    /\ harness.pc = "ended" /\ harness.judged # <<>> =>
         (harness.exit = "0") = AllPassed(harness.judged)

HarnessInv ==
    /\ harness.pc \in Batching \cup Judging
    /\ harness.pc \in Batching => BatchInv
    /\ harness.pc \in Judging => SuiteInv

FilesInv ==
    /\ results \in [Variants -> [AbCases -> Seq(AbFile \cup {TornFile})]]
    /\ \A c \in AbCases : \A k \in 1..Len(results["baseline"][c]) :
         results["baseline"][c][k] # TornFile => results["baseline"][c][k].code = BaselineTree

SuitesInv == tree \in Trees /\ config \in Configs /\ FilesInv /\ HarnessInv

-----------------------------------------------------------------------------
LEMMA NoVerdict == <<>> \in Seq(Verdict) /\ Len(<<>>) = 0
  BY EmptySeq

LEMMA EndedIsSound == ASSUME NEW exit, harness' = Ended(exit, <<>>) PROVE HarnessInv'
  <1>1. harness'.pc = "ended" /\ harness'.judged = <<>>
    BY DEF Ended
  <1>2. SuiteInv'
    <2>1. harness'.judged \in Seq(Verdict) /\ \A k \in 1..Len(harness'.judged) : Own(harness'.judged[k])
      <3>1. Len(harness'.judged) = 0
        BY <1>1, NoVerdict, Zenon
      <3> QED
        BY <1>1, <3>1, NoVerdict, \A k \in 1..0 : FALSE, Zenon
    <2>2. harness'.pc \notin Representing /\ harness'.pc # "component"
      BY <1>1 DEF Representing
    <2> QED
      BY <1>1, <2>1, <2>2, Zenon DEF SuiteInv, Representing
  <1> QED
    BY <1>1, <1>2 DEF HarnessInv, Batching, Judging, Representing

LEMMA SuitesBegin == SuitesInit => SuitesInv
  <1> SUFFICES ASSUME SuitesInit
               PROVE  SuitesInv
    OBVIOUS
  <1>1. FilesInv
    BY EmptySeq DEF SuitesInit, FilesInv, Variants
  <1>2. HarnessInv
    <2>1. harness.pc = "ended" /\ harness.judged = <<>>
      BY DEF SuitesInit, Ended
    <2> QED
      BY <2>1, NoVerdict DEF HarnessInv, SuiteInv, Batching, Judging, Representing
  <1> QED
    BY <1>1, <1>2 DEF SuitesInit, SuitesInv

(* A fault that is injected is the only change to the application. *)
LEMMA InjectedIsOwn ==
    ASSUME NEW fault \in RepresentativeFault, NEW passed \in BOOLEAN
    PROVE  LET v == [fault |-> fault, under |-> Injected(fault), passed |-> passed]
           IN  v \in Verdict /\ Own(v)
  <1> DEFINE v == [fault |-> fault, under |-> Injected(fault), passed |-> passed]
  <1>1. v.fault = fault /\ v.under = Injected(fault)
    OBVIOUS
  <1>2. /\ Injected(fault) \in Setups
        /\ (Injected(fault) = Untouched) = (fault \in {"none", "missing_approval_checkpoint"})
        /\ (Injected(fault).analyzer # "original") = (fault = "llm_failure")
        /\ Injected(fault).registry \in {"original", fault}
    <2>1. fault # "original"
      BY DEF RepresentativeFault, CrossFaults
    <2>2. CASE fault \in {"none", "missing_approval_checkpoint"}
      BY <2>1, <2>2 DEF Injected, Untouched, Setups
    <2>3. CASE fault = "llm_failure"
      BY <2>1, <2>3 DEF Injected, Untouched, Setups
    <2>4. CASE fault \notin {"none", "missing_approval_checkpoint", "llm_failure"}
      <3>1. Injected(fault) = [registry |-> fault, analyzer |-> "original"]
        BY <2>4 DEF Injected
      <3>2. Injected(fault).registry # Untouched.registry
        BY <2>1, <3>1 DEF Untouched
      <3> QED
        BY <2>4, <3>1, <3>2 DEF Setups
    <2> QED
      BY <2>2, <2>3, <2>4
  <1> HIDE DEF v
  <1>3. v \in Verdict
    BY <1>2 DEF Verdict, v
  <1> QED
    BY <1>1, <1>2, <1>3 DEF Own, v

LEMMA VerdictsAreBoolean ==
    ASSUME NEW suite \in ComponentNames, NEW passed \in ComponentVerdicts(suite)
    PROVE  passed \in BOOLEAN
  <1>1. CASE suite = "routing"
    BY <1>1 DEF ComponentVerdicts, RoutingVerdicts
  <1>2. CASE suite = "tools"
    BY <1>2 DEF ComponentVerdicts, ToolVerdicts
  <1>3. CASE suite = "sql_guard"
    BY <1>3 DEF ComponentVerdicts, SqlVerdicts
  <1>4. CASE suite = "retrieval"
    BY <1>4 DEF ComponentVerdicts, RetrievalVerdicts
  <1> QED
    BY <1>1, <1>2, <1>3, <1>4 DEF ComponentNames

LEMMA UntouchedIsOwn ==
    ASSUME NEW passed \in BOOLEAN
    PROVE  UnderNoFault(passed) \in Verdict /\ Own(UnderNoFault(passed))
  <1>1. UnderNoFault(passed).fault = "none" /\ UnderNoFault(passed).under = Untouched
    BY DEF UnderNoFault
  <1>2. UnderNoFault(passed) \in Verdict
    BY DEF UnderNoFault, Verdict, Setups, Untouched, RepresentativeFault
  <1> QED
    BY <1>1, <1>2 DEF Own, Untouched

(* What is judged is kept when a verdict of its own is added. *)
LEMMA Judged ==
    ASSUME NEW judged \in Seq(Verdict), \A k \in 1..Len(judged) : Own(judged[k]),
           NEW v \in Verdict, Own(v)
    PROVE  /\ Append(judged, v) \in Seq(Verdict)
           /\ \A k \in 1..Len(Append(judged, v)) : Own(Append(judged, v)[k])
  <1>1. /\ Append(judged, v) \in Seq(Verdict) /\ Len(Append(judged, v)) = Len(judged) + 1
        /\ \A k \in 1..Len(judged) : Append(judged, v)[k] = judged[k]
        /\ Append(judged, v)[Len(judged) + 1] = v
    OBVIOUS
  <1>2. \A k \in 1..(Len(judged) + 1) : k \in 1..Len(judged) \/ k = Len(judged) + 1
    OBVIOUS
  <1> QED
    BY <1>1, <1>2

LEMMA BetweenKeeps == SuitesInv /\ (Checkout \/ Configure) => SuitesInv'
  <1> SUFFICES ASSUME SuitesInv, Checkout \/ Configure
               PROVE  SuitesInv'
    OBVIOUS
  <1>1. results' = results /\ app' = app /\ harness' = harness
    BY DEF Checkout, Configure
  <1>2. tree' \in Trees /\ config' \in Configs
    BY DEF Checkout, Configure, SuitesInv
  <1>3. FilesInv' /\ HarnessInv'
    BY <1>1 DEF SuitesInv, FilesInv, HarnessInv, BatchInv, SuiteInv
  <1> QED
    BY <1>2, <1>3 DEF SuitesInv

LEMMA StartAbKeeps == SuitesInv /\ StartAb => SuitesInv'
  <1> SUFFICES ASSUME SuitesInv, StartAb
               PROVE  SuitesInv'
    OBVIOUS
  <1>1. tree' = tree /\ config' = config /\ results' = results
    BY DEF StartAb
  <1>2. PICK v \in Variants :
          /\ MayRun(v)
          /\ harness'.pc = "ab" /\ harness'.variant = v
          /\ harness'.code = tree /\ harness'.config = config
          /\ "judged" \notin DOMAIN harness'
    BY DEF StartAb
  <1>3. HarnessInv'
    BY <1>2 DEF SuitesInv, MayRun, HarnessInv, BatchInv, Batching, Judging, Representing
  <1> QED
    BY <1>1, <1>3 DEF SuitesInv, FilesInv

LEMMA RunAbCaseKeeps == SuitesInv /\ RunAbCase => SuitesInv'
  <1> SUFFICES ASSUME SuitesInv, RunAbCase
               PROVE  SuitesInv'
    OBVIOUS
  <1>1. /\ tree' = tree /\ config' = config /\ results' = results
        /\ harness.pc = "ab"
    BY DEF RunAbCase, HarnessAt
  <1>2. BatchInv
    BY <1>1 DEF SuitesInv, HarnessInv, Batching
  <1>3. PICK good \in BOOLEAN :
          harness' = [pc |-> "save", variant |-> harness.variant, code |-> harness.code,
                      config |-> harness.config, todo |-> Tail(harness.todo), case |-> Head(harness.todo),
                      payload |-> [code |-> harness.code, config |-> harness.config,
                                   rules |-> RulesOf[harness.code], good |-> good]]
    <2>1. \A case, r : BusinessSuccess(case, r) \in BOOLEAN
      BY DEF BusinessSuccess
    <2> QED
      BY <2>1 DEF RunAbCase
  <1>4. /\ harness'.pc = "save" /\ harness'.variant = harness.variant
        /\ harness'.code = harness.code /\ harness'.config = harness.config
        /\ harness'.payload = [code |-> harness.code, config |-> harness.config,
                               rules |-> RulesOf[harness.code], good |-> good]
        /\ "judged" \notin DOMAIN harness'
    BY <1>3
  <1>5. harness'.payload \in AbFile /\ harness'.payload.code = harness.code
    BY <1>2, <1>4 DEF AbFile, BatchInv
  <1>6. HarnessInv'
    BY <1>2, <1>4, <1>5 DEF HarnessInv, BatchInv, Batching, Judging, Representing
  <1> QED
    BY <1>1, <1>6 DEF SuitesInv, FilesInv

(* A file that is written, whole or torn, joins those of its batch. *)
LEMMA SavedKeeps ==
    ASSUME SuitesInv, harness.pc = "save", NEW file \in {harness.payload, TornFile},
           results' = Saved(file)
    PROVE  FilesInv'
  <1> DEFINE v == harness.variant
             c == harness.case
             Files_ == AbFile \cup {TornFile}
  <1>1. BatchInv
    BY DEF SuitesInv, HarnessInv, Batching
  <1>2. v \in Variants /\ file \in Files_ /\ (v = "baseline" /\ file # TornFile => file.code = BaselineTree)
    BY <1>1 DEF BatchInv
  <1>3. results \in [Variants -> [AbCases -> Seq(Files_)]]
    BY DEF SuitesInv, FilesInv
  <1>4. \A w \in Variants : \A d \in AbCases :
          results'[w][d] = IF w = v /\ d = c THEN Append(results[v][c], file) ELSE results[w][d]
    BY <1>2, <1>3 DEF Saved
  <1>5. results' \in [Variants -> [AbCases -> Seq(Files_)]]
    <2> DEFINE new == [results[v] EXCEPT ![c] = Append(results[v][c], file)]
    <2> HIDE DEF v, c, Files_
    <2>1. results' = [results EXCEPT ![v] = new]
      BY <1>3 DEF Saved, v, c
    <2>2. \A d \in AbCases : new[d] \in Seq(Files_)
      BY <1>2, <1>3
    <2>3. new \in [AbCases -> Seq(Files_)]
      BY <1>2, <1>3, <2>2
    <2> HIDE DEF new
    <2> QED
      BY <1>3, <2>1, <2>3
  <1>6. ASSUME NEW d \in AbCases, NEW k \in 1..Len(results'["baseline"][d]),
               results'["baseline"][d][k] # TornFile
        PROVE  results'["baseline"][d][k].code = BaselineTree
    <2>0. "baseline" \in Variants
      BY DEF Variants
    <2>1. CASE "baseline" = v /\ d = c
      <3>1. /\ results'["baseline"][d] = Append(results["baseline"][d], file)
            /\ results["baseline"][d] \in Seq(Files_)
        BY <1>3, <1>4, <2>0, <2>1
      <3>2. k \in 1..Len(results["baseline"][d]) \/ k = Len(results["baseline"][d]) + 1
        BY <3>1
      <3>3. \/ results'["baseline"][d][k] = file
            \/ /\ k \in 1..Len(results["baseline"][d])
               /\ results'["baseline"][d][k] = results["baseline"][d][k]
        BY <3>1, <3>2
      <3> QED
        BY <1>2, <1>6, <2>1, <3>3 DEF SuitesInv, FilesInv
    <2>2. CASE ~("baseline" = v /\ d = c)
      <3>1. results'["baseline"][d] = results["baseline"][d]
        BY <1>4, <2>0, <2>2
      <3> QED
        BY <1>6, <3>1 DEF SuitesInv, FilesInv
    <2> QED
      BY <2>1, <2>2
  <1> QED
    BY <1>5, <1>6 DEF FilesInv

LEMMA SaveResultKeeps == SuitesInv /\ SaveResult => SuitesInv'
  <1> SUFFICES ASSUME SuitesInv, SaveResult
               PROVE  SuitesInv'
    OBVIOUS
  <1>1. /\ tree' = tree /\ config' = config /\ harness.pc = "save"
        /\ results' = Saved(harness.payload)
        /\ harness' = [pc |-> "ab", variant |-> harness.variant, code |-> harness.code,
                       config |-> harness.config, todo |-> harness.todo]
    BY DEF SaveResult, HarnessAt
  <1>2. FilesInv'
    BY <1>1, SavedKeeps
  <1>3. HarnessInv'
    <2>1. BatchInv
      BY <1>1 DEF SuitesInv, HarnessInv, Batching
    <2> QED
      BY <1>1, <2>1 DEF HarnessInv, BatchInv, Batching, Judging, Representing
  <1> QED
    BY <1>1, <1>2, <1>3 DEF SuitesInv

LEMMA KillAbKeeps == SuitesInv /\ KillAb => SuitesInv'
  <1> SUFFICES ASSUME SuitesInv, KillAb
               PROVE  SuitesInv'
    OBVIOUS
  <1>1. /\ tree' = tree /\ config' = config /\ harness' = Ended("killed", <<>>)
        /\ results' = results \/ (harness.pc = "save" /\ results' = Saved(TornFile))
    BY DEF KillAb, HarnessAt
  <1>2. FilesInv'
    <2>1. CASE results' = results
      BY <2>1 DEF SuitesInv, FilesInv
    <2> QED
      BY <1>1, <2>1, SavedKeeps
  <1> QED
    BY <1>1, <1>2, EndedIsSound DEF SuitesInv

(* Programs that end without a verdict, and the comparison. *)
LEMMA OthersKeep == SuitesInv /\ (EndAb \/ SuiteBreaks \/ Compare) => SuitesInv'
  <1> SUFFICES ASSUME SuitesInv, EndAb \/ SuiteBreaks \/ Compare
               PROVE  SuitesInv'
    OBVIOUS
  <1>1. tree' = tree /\ config' = config /\ results' = results
    BY DEF EndAb, SuiteBreaks, Compare
  <1>2. HarnessInv'
    <2>1. CASE Compare
      BY <2>1 DEF Compare, SuitesInv, HarnessInv, BatchInv, SuiteInv
    <2> QED
      BY <2>1, EndedIsSound DEF EndAb, SuiteBreaks
  <1> QED
    BY <1>1, <1>2 DEF SuitesInv, FilesInv

LEMMA StartSuiteKeeps == SuitesInv /\ StartSuite => SuitesInv'
  <1> SUFFICES ASSUME SuitesInv, StartSuite
               PROVE  SuitesInv'
    OBVIOUS
  <1>1. tree' = tree /\ config' = config /\ results' = results
    BY DEF StartSuite
  <1>2. PICK faults \in Seq(RepresentativeFault) :
          harness' = [pc |-> "suite", todo |-> faults, judged |-> <<>>]
    <2>1. \A k \in DOMAIN SuiteFaults : <<SuiteFaults[k]>> \in Seq(RepresentativeFault)
      BY SuitesAssumption
    <2> QED
      BY <2>1, SuitesAssumption, Zenon DEF StartSuite
  <1>3. HarnessInv'
    BY <1>2, NoVerdict DEF HarnessInv, SuiteInv, Batching, Judging, Representing
  <1> QED
    BY <1>1, <1>3 DEF SuitesInv, FilesInv

LEMMA RunCaseKeeps == SuitesInv /\ RunCase => SuitesInv'
  <1> SUFFICES ASSUME SuitesInv, RunCase
               PROVE  SuitesInv'
    OBVIOUS
  <1>1. /\ tree' = tree /\ config' = config /\ results' = results
        /\ harness.pc = "suite" /\ harness.todo # <<>> /\ app' = Injected(Head(harness.todo))
    BY DEF RunCase, HarnessAt
  <1>2. SuiteInv
    BY <1>1 DEF SuitesInv, HarnessInv, Judging, Representing
  <1>4. /\ harness'.pc \in {"approve", "judge"}
        /\ harness'.todo = harness.todo /\ harness'.judged = harness.judged
    BY DEF RunCase
  <1>5. HarnessInv'
    BY <1>1, <1>2, <1>4 DEF HarnessInv, SuiteInv, Batching, Judging, Representing
  <1> QED
    BY <1>1, <1>5 DEF SuitesInv, FilesInv

LEMMA ApproveKeeps == SuitesInv /\ ApproveWithoutCheckpoint => SuitesInv'
  <1> SUFFICES ASSUME SuitesInv, ApproveWithoutCheckpoint
               PROVE  SuitesInv'
    OBVIOUS
  <1>1. /\ tree' = tree /\ config' = config /\ results' = results /\ app' = app
        /\ harness.pc = "approve"
    BY DEF ApproveWithoutCheckpoint, HarnessAt
  <1>2. SuiteInv
    BY <1>1 DEF SuitesInv, HarnessInv, Judging, Representing
  <1>3. harness'.pc = "judge" /\ harness'.todo = harness.todo /\ harness'.judged = harness.judged
    BY DEF ApproveWithoutCheckpoint
  <1>4. HarnessInv'
    BY <1>1, <1>2, <1>3 DEF HarnessInv, SuiteInv, Batching, Judging, Representing
  <1> QED
    BY <1>1, <1>4 DEF SuitesInv, FilesInv

LEMMA JudgeCaseKeeps == SuitesInv /\ JudgeCase => SuitesInv'
  <1> SUFFICES ASSUME SuitesInv, JudgeCase
               PROVE  SuitesInv'
    OBVIOUS
  <1> DEFINE fault == Head(harness.todo)
             v == [fault |-> fault, under |-> app, passed |-> CaseSucceeds(fault, harness.answer)]
  <1>1. /\ tree' = tree /\ config' = config /\ results' = results
        /\ harness.pc = "judge"
        /\ harness' = [pc |-> "suite", todo |-> Tail(harness.todo), judged |-> Append(harness.judged, v)]
    BY DEF JudgeCase, HarnessAt
  <1>2. SuiteInv
    BY <1>1 DEF SuitesInv, HarnessInv, Judging, Representing
  <1>3. /\ harness.todo \in Seq(RepresentativeFault) /\ harness.todo # <<>>
        /\ app = Injected(fault) /\ fault \in RepresentativeFault
    BY <1>1, <1>2 DEF SuiteInv, Representing
  <1>4. v \in Verdict /\ Own(v)
    <2>1. CaseSucceeds(fault, harness.answer) \in BOOLEAN
      BY DEF CaseSucceeds
    <2> QED
      BY <1>3, <2>1, InjectedIsOwn
  <1> HIDE DEF v
  <1>5. /\ Append(harness.judged, v) \in Seq(Verdict)
        /\ \A k \in 1..Len(Append(harness.judged, v)) : Own(Append(harness.judged, v)[k])
    BY <1>2, <1>4, Judged DEF SuiteInv
  <1>6. /\ harness'.pc = "suite" /\ harness'.todo = Tail(harness.todo)
        /\ harness'.judged = Append(harness.judged, v)
    BY <1>1
  <1>7. Tail(harness.todo) \in Seq(RepresentativeFault)
    BY <1>3
  <1>8. HarnessInv'
    BY <1>5, <1>6, <1>7 DEF HarnessInv, SuiteInv, Batching, Judging, Representing
  <1> QED
    BY <1>1, <1>8 DEF SuitesInv, FilesInv

LEMMA StartComponentsKeeps == SuitesInv /\ StartComponents => SuitesInv'
  <1> SUFFICES ASSUME SuitesInv, StartComponents
               PROVE  SuitesInv'
    OBVIOUS
  <1>1. tree' = tree /\ config' = config /\ results' = results
    BY DEF StartComponents
  <1>2. PICK suites \in Seq(ComponentNames) :
          harness' = [pc |-> "component", judged |-> <<>>,
                      todo |-> [i \in 1..(Len(suites) * ComponentCases) |->
                                  suites[1 + ((i - 1) \div ComponentCases)]]]
    <2>1. ComponentSuites \in Seq(ComponentNames)
      BY DEF ComponentSuites, ComponentNames
    <2>2. \A k \in DOMAIN ComponentSuites : <<ComponentSuites[k]>> \in Seq(ComponentNames)
      BY <2>1
    <2> QED
      BY <2>1, <2>2, Zenon DEF StartComponents
  <1>3. harness'.todo \in Seq(ComponentNames)
    <2> DEFINE n == Len(suites)
               C == ComponentCases
    <2>1. n \in Nat /\ C \in Nat \ {0} /\ n * C \in Nat
      BY SuitesAssumption
    <2>2. \A i \in 1..(n * C) : 1 + ((i - 1) \div C) \in 1..n
      <3> SUFFICES ASSUME NEW i \in 1..(n * C)
                   PROVE  1 + ((i - 1) \div C) \in 1..n
        OBVIOUS
      <3> HIDE DEF n, C
      <3> QED
        BY <2>1
    <2> QED
      BY <1>2, <2>1, <2>2
  <1>4. harness'.pc = "component" /\ harness'.judged = <<>>
    BY <1>2
  <1>5. HarnessInv'
    BY <1>3, <1>4, NoVerdict DEF HarnessInv, SuiteInv, Batching, Judging, Representing
  <1> QED
    BY <1>1, <1>5 DEF SuitesInv, FilesInv

LEMMA StartLiveKeeps == SuitesInv /\ StartLive => SuitesInv'
  <1> SUFFICES ASSUME SuitesInv, StartLive
               PROVE  SuitesInv'
    OBVIOUS
  <1>1. tree' = tree /\ config' = config /\ results' = results
    BY DEF StartLive
  <1>2. harness'.pc = "live" /\ harness'.judged = <<>>
    BY DEF StartLive
  <1>3. HarnessInv'
    BY <1>2, NoVerdict DEF HarnessInv, SuiteInv, Batching, Judging, Representing
  <1> QED
    BY <1>1, <1>3 DEF SuitesInv, FilesInv

LEMMA AskedKeeps == SuitesInv /\ (ComponentCase \/ LiveCase) => SuitesInv'
  <1> SUFFICES ASSUME SuitesInv, ComponentCase \/ LiveCase
               PROVE  SuitesInv'
    OBVIOUS
  <1>1. /\ tree' = tree /\ config' = config /\ results' = results
        /\ harness.pc \in {"component", "live"}
    BY DEF ComponentCase, LiveCase, HarnessAt
  <1>2. SuiteInv
    BY <1>1 DEF SuitesInv, HarnessInv, Judging
  <1>3. PICK passed \in BOOLEAN :
          harness' = [pc |-> harness.pc, todo |-> Tail(harness.todo),
                      judged |-> Append(harness.judged, UnderNoFault(passed))]
    <2>1. CASE ComponentCase
      <3>1. Head(harness.todo) \in ComponentNames
        BY <1>2, <2>1 DEF ComponentCase, HarnessAt, SuiteInv
      <3>2. \A passed \in ComponentVerdicts(Head(harness.todo)) : passed \in BOOLEAN
        BY <3>1, VerdictsAreBoolean
      <3> QED
        BY <2>1, <3>2 DEF ComponentCase, HarnessAt
    <2>2. CASE LiveCase
      BY <2>2 DEF LiveCase, HarnessAt
    <2> QED
      BY <2>1, <2>2
  <1> DEFINE v == UnderNoFault(passed)
  <1>4. v \in Verdict /\ Own(v)
    BY UntouchedIsOwn
  <1> HIDE DEF v
  <1>5. /\ harness'.pc = harness.pc /\ harness'.todo = Tail(harness.todo)
        /\ harness'.judged = Append(harness.judged, v)
    BY <1>3 DEF v
  <1>6. /\ Append(harness.judged, v) \in Seq(Verdict)
        /\ \A k \in 1..Len(Append(harness.judged, v)) : Own(Append(harness.judged, v)[k])
    BY <1>2, <1>4, Judged DEF SuiteInv
  <1>7. harness.pc = "component" => Tail(harness.todo) \in Seq(ComponentNames)
    BY <1>1, <1>2 DEF ComponentCase, LiveCase, HarnessAt, SuiteInv
  <1>8. HarnessInv'
    BY <1>1, <1>5, <1>6, <1>7 DEF HarnessInv, SuiteInv, Batching, Judging, Representing
  <1> QED
    BY <1>1, <1>8 DEF SuitesInv, FilesInv

LEMMA EndSuiteKeeps == SuitesInv /\ EndSuite => SuitesInv'
  <1> SUFFICES ASSUME SuitesInv, EndSuite
               PROVE  SuitesInv'
    OBVIOUS
  <1>1. /\ tree' = tree /\ config' = config /\ results' = results
        /\ harness.pc \in {"suite", "live", "component"}
        /\ harness' = Ended(ExitCode(harness.judged), harness.judged)
    BY DEF EndSuite
  <1>2. SuiteInv
    BY <1>1 DEF SuitesInv, HarnessInv, Judging, Representing
  <1>3. /\ harness'.pc = "ended" /\ harness'.judged = harness.judged
        /\ harness'.exit = ExitCode(harness.judged)
    BY <1>1 DEF Ended
  <1>4. (ExitCode(harness.judged) = "0") = AllPassed(harness.judged)
    <2>1. DOMAIN harness.judged = 1..Len(harness.judged)
      BY <1>2 DEF SuiteInv
    <2>2. ExitCode(harness.judged) = IF AllPassed(harness.judged) THEN "0" ELSE "1"
      BY <2>1, Zenon DEF ExitCode, AllPassed
    <2>3. AllPassed(harness.judged) \in BOOLEAN
      BY DEF AllPassed
    <2> QED
      BY <2>2, <2>3, "0" # "1", Zenon
  <1>5. HarnessInv'
    BY <1>2, <1>3, <1>4 DEF HarnessInv, SuiteInv, Batching, Judging, Representing
  <1> QED
    BY <1>1, <1>5 DEF SuitesInv, FilesInv

LEMMA SuitesKept == SuitesInv /\ [SuitesNext]_suiteVars => SuitesInv'
  <1>1. SuitesInv /\ UNCHANGED suiteVars => SuitesInv'
    BY DEF suiteVars, SuitesInv, FilesInv, HarnessInv, BatchInv, SuiteInv
  <1> QED
    BY <1>1, BetweenKeeps, StartAbKeeps, RunAbCaseKeeps, SaveResultKeeps, KillAbKeeps, OthersKeep,
       StartSuiteKeeps, RunCaseKeeps, ApproveKeeps, JudgeCaseKeeps, StartComponentsKeeps,
       StartLiveKeeps, AskedKeeps, EndSuiteKeeps DEF SuitesNext

LEMMA SuitesInvariance == SuitesSpec => []SuitesInv
  BY SuitesBegin, SuitesKept, PTL DEF SuitesSpec

(* A suite of eval/runner.py judges every case under the fault it injects  *)
(* and no other, and its exit code tells whether all its cases passed.     *)
THEOREM VerdictsOwned == SuitesSpec => []VerdictsAreOwn
  <1>1. SuitesInv => VerdictsAreOwn
    <2> SUFFICES ASSUME SuitesInv
                 PROVE  VerdictsAreOwn
      OBVIOUS
    <2>1. CASE harness.pc \in Batching
      <3>1. "judged" \notin DOMAIN harness /\ ~HarnessAt("ended")
        BY <2>1 DEF SuitesInv, HarnessInv, BatchInv, Batching, HarnessAt
      <3> QED
        BY <3>1 DEF VerdictsAreOwn
    <2>2. CASE harness.pc \in Judging
      <3>1. SuiteInv
        BY <2>2 DEF SuitesInv, HarnessInv
      <3>2. DOMAIN harness.judged = 1..Len(harness.judged)
        BY <3>1 DEF SuiteInv
      <3>3. \A k \in DOMAIN harness.judged : Own(harness.judged[k])
        BY <3>1, <3>2 DEF SuiteInv
      <3>4. HarnessAt("ended") /\ harness.judged # <<>> =>
              (harness.exit = "0") = (\A k \in DOMAIN harness.judged : harness.judged[k].passed)
        BY <3>1, <3>2 DEF SuiteInv, HarnessAt, AllPassed
      <3> QED
        BY <3>3, <3>4 DEF VerdictsAreOwn, Own
    <2> QED
      BY <2>1, <2>2 DEF SuitesInv, HarnessInv
  <1> QED
    BY <1>1, SuitesInvariance, PTL

(* _compare of eval/phase22_ab.py reports only of runs under equal         *)
(* conditions, however often the checkout or the configuration changed     *)
(* between the batches and wherever one of them was killed.                *)
THEOREM ReportsAlike == SuitesSpec => ReportsCompareAlike
  <1> DEFINE b(c) == results["baseline"][c]
             e(c) == results["enhanced"][c]
             Alike(c) ==
               /\ compared'[c]["baseline"].runs = compared'[c]["enhanced"].runs
               /\ Len(b(c)) = Len(e(c)) /\ b(c) # <<>>
               /\ \A k \in DOMAIN b(c) :
                    /\ {b(c)[k], e(c)[k]} \cap {TornFile} = {}
                    /\ b(c)[k].code = BaselineTree
                    /\ <<b(c)[k].config, b(c)[k].rules>> = <<e(c)[k].config, e(c)[k].rules>>
  <1>1. ASSUME SuitesInv, Compare, NEW c \in AbCases
        PROVE  Alike(c)
    <2>1. /\ b(c) \in Seq(AbFile \cup {TornFile}) /\ e(c) \in Seq(AbFile \cup {TornFile})
          /\ \A k \in 1..Len(b(c)) : b(c)[k] # TornFile => b(c)[k].code = BaselineTree
      BY <1>1 DEF SuitesInv, FilesInv, Variants
    <2>2. /\ b(c) # <<>> /\ Len(b(c)) = Len(e(c))
          /\ \A i \in DOMAIN b(c) \cap DOMAIN e(c) :
               b(c)[i].config = e(c)[i].config /\ b(c)[i].rules = e(c)[i].rules
      BY <1>1 DEF Compare, Pairable, SameConditions, Files
    <2>3. \A k \in 1..Len(b(c)) : b(c)[k] # TornFile /\ e(c)[k] # TornFile
      BY <1>1, <2>1, <2>2 DEF Compare, Readable, Contains, Files, Variants
    <2>4. /\ compared'[c]["baseline"].runs = Len(b(c))
          /\ compared'[c]["enhanced"].runs = Len(e(c))
      BY <1>1 DEF Compare, SummaryOf, Files, Variants
    <2>5. DOMAIN b(c) = 1..Len(b(c)) /\ DOMAIN e(c) = 1..Len(b(c))
      BY <2>1, <2>2
    <2> HIDE DEF b, e
    <2>6. \A k \in DOMAIN b(c) :
            /\ {b(c)[k], e(c)[k]} \cap {TornFile} = {}
            /\ b(c)[k].code = BaselineTree
            /\ <<b(c)[k].config, b(c)[k].rules>> = <<e(c)[k].config, e(c)[k].rules>>
      BY <2>1, <2>2, <2>3, <2>5
    <2> QED
      BY <2>2, <2>4, <2>6
  <1>2. SuitesInv /\ [SuitesNext]_suiteVars =>
          [compared' # compared => \A c \in AbCases : Alike(c)]_suiteVars
    <2>1. [SuitesNext]_suiteVars /\ compared' # compared => Compare
      BY DEF SuitesNext, suiteVars, Checkout, Configure, StartAb, RunAbCase, SaveResult, EndAb, KillAb,
         StartSuite, RunCase, ApproveWithoutCheckpoint, JudgeCase, StartComponents, ComponentCase,
         StartLive, LiveCase, EndSuite, SuiteBreaks
    <2> HIDE DEF Alike
    <2> QED
      BY <1>1, <2>1
  <1> QED
    BY <1>2, SuitesInvariance, PTL DEF SuitesSpec, ReportsCompareAlike

-----------------------------------------------------------------------------
(* Whole lines of the two files. *)
Record ==
    [case: 1..Cases, arm: Arms, good: BOOLEAN, limited: BOOLEAN, id: Nat, version: Versions]
Grade ==
    [case: 1..Cases, graded: {TRUE}, x: Arms, passed: [Arms -> BOOLEAN]]
    \cup [case: 1..Cases, graded: {FALSE}]

HasRecord(records, c, a) == \E n \in 1..Len(records) : records[n].case = c /\ records[n].arm = a
HasGrade(grades, c) == \E n \in 1..Len(grades) : grades[n].case = c

(* A grade tells of two answers that are there, and of each what it is worth. *)
Fair(g, records) ==
    /\ \A a \in Arms : HasRecord(records, g.case, a)
    /\ g.graded => \A n \in 1..Len(records) :
         records[n].case = g.case => g.passed[records[n].arm] = records[n].good

Sound(records, grades, version) ==
    /\ records \in Seq(Record) /\ grades \in Seq(Grade)
    /\ \A n \in 1..Len(records) : records[n].id = n - 1 /\ records[n].version = version
    /\ \A m, n \in 1..Len(records) :
         records[m].case = records[n].case /\ records[m].arm = records[n].arm => m = n
    /\ \A m, n \in 1..Len(grades) : grades[m].case = grades[n].case => m = n
    /\ \A n \in 1..Len(grades) : Fair(grades[n], records)

(* The files hold sound lines, of which the last may be torn. *)
Recorded(raw, judgments, version) ==
    \E records \in Seq(Record), grades \in Seq(Grade) :
        /\ Sound(records, grades, version)
        /\ raw = records \/ raw = Append(records, Torn)
        /\ judgments = grades \/ judgments = Append(grades, Torn)

DirectoryInv ==
    /\ files = [manifest |-> files.manifest, dataset |-> files.dataset, raw |-> files.raw,
                judgments |-> files.judgments, summary |-> files.summary,
                blocked |-> files.blocked, audit |-> files.audit]
    /\ files.manifest \in Versions \cup {NoFile}
    /\ Recorded(files.raw, files.judgments, files.manifest)
    /\ files.manifest = NoFile => files.raw = <<>> /\ files.judgments = <<>>

Complete(grades) == \A c \in 1..Cases : HasGrade(grades, c)

OffInv ==
    process.end = "results" =>
        /\ Sound(files.raw, files.judgments, files.manifest) /\ Complete(files.judgments)
        /\ files.summary = Aggregate(files.raw, files.judgments)

StartingInv ==
    /\ process \in [pc: {"new", "copy", "load"}, version: Versions]
    /\ files.manifest = IF At("new") THEN NoFile ELSE process.version

(* A process at work knows what the files say, and the line under way. *)
WorkingInv ==
    /\ process \in [pc: {"case", "record", "judged"}, version: Versions, index: 1..(Cases + 1),
                    records: Seq(Record), grades: Seq(Grade)]
    /\ process.version = files.manifest
    /\ Sound(process.records, process.grades, process.version)
    /\ \A c \in 1..(process.index - 1) : HasGrade(process.grades, c)
    /\ At("case") =>
         /\ process.records = files.raw /\ process.grades = files.judgments
         /\ process.index = Cases + 1 => files.summary = Aggregate(files.raw, files.judgments)
    /\ At("record") =>
         /\ process.index # Cases + 1
         /\ \E r \in Record : process.records = Append(files.raw, r)
         /\ process.grades = files.judgments
         /\ Sound(files.raw, files.judgments, process.version)
    /\ At("judged") =>
         /\ process.index # Cases + 1
         /\ process.records = files.raw
         /\ \E g \in Grade : process.grades = Append(files.judgments, g)
         /\ Sound(files.raw, files.judgments, process.version)

Starting == {"new", "copy", "load"}
AtWork == {"case", "record", "judged"}

ExperimentInv ==
    /\ DirectoryInv
    /\ process.pc \in {"off"} \cup Starting \cup AtWork
    /\ At("off") => OffInv
    /\ process.pc \in Starting => StartingInv
    /\ process.pc \in AtWork => WorkingInv

-----------------------------------------------------------------------------
LEMMA TornIsNoLine == Torn \notin Record /\ Torn \notin Grade
<1>1. "torn" \in DOMAIN Torn
  BY DEF Torn
<1>2. \A r \in Record : "torn" \notin DOMAIN r
  BY DEF Record
<1>3. ASSUME NEW g \in Grade PROVE "torn" \notin DOMAIN g
  <2>1. CASE g \in [case: 1..Cases, graded: {TRUE}, x: Arms, passed: [Arms -> BOOLEAN]]
    BY <2>1
  <2>2. CASE g \in [case: 1..Cases, graded: {FALSE}]
    BY <2>2
  <2> QED
    BY <2>1, <2>2 DEF Grade
<1> QED
  BY <1>1, <1>2, <1>3

(* An answer of an arm that had none leaves the records sound. *)
LEMMA RecordAdded ==
    ASSUME NEW records, NEW grades, NEW version, Sound(records, grades, version),
           NEW r \in Record, r.id = Len(records), r.version = version,
           ~ HasRecord(records, r.case, r.arm)
    PROVE  Sound(Append(records, r), grades, version)
<1> DEFINE more == Append(records, r)
           n == Len(records)
<1>1. /\ records \in Seq(Record) /\ grades \in Seq(Grade)
      /\ \A i \in 1..n : records[i].id = i - 1 /\ records[i].version = version
      /\ \A i, j \in 1..n :
           records[i].case = records[j].case /\ records[i].arm = records[j].arm => i = j
      /\ \A i, j \in 1..Len(grades) : grades[i].case = grades[j].case => i = j
      /\ \A i \in 1..Len(grades) : Fair(grades[i], records)
  BY DEF Sound
<1>2. /\ n \in Nat /\ more \in Seq(Record) /\ Len(more) = n + 1
      /\ (\A i \in 1..n : more[i] = records[i]) /\ more[n + 1] = r
  BY <1>1, AppendProperties
<1>3. \A i \in 1..n : ~ (records[i].case = r.case /\ records[i].arm = r.arm)
  BY DEF HasRecord
<1>4. r.id = n
  OBVIOUS
<1>5. \A i \in 1..(n + 1) : i \in 1..n \/ i = n + 1
  BY <1>2
<1> HIDE DEF more, n
<1>6. ASSUME NEW i \in 1..Len(more) PROVE more[i].id = i - 1 /\ more[i].version = version
  <2>1. CASE i \in 1..n
    BY <1>1, <1>2, <2>1
  <2>2. CASE i = n + 1
    BY <1>2, <1>4, <2>2
  <2> QED
    BY <1>2, <1>5, <2>1, <2>2
<1>7. ASSUME NEW i \in 1..Len(more), NEW j \in 1..Len(more),
             more[i].case = more[j].case, more[i].arm = more[j].arm
      PROVE  i = j
  <2>1. CASE i \in 1..n /\ j \in 1..n
    BY <1>1, <1>2, <1>7, <2>1
  <2>2. CASE i = n + 1 /\ j \in 1..n
    BY <1>2, <1>3, <1>7, <2>2
  <2>3. CASE j = n + 1 /\ i \in 1..n
    BY <1>2, <1>3, <1>7, <2>3
  <2> QED
    BY <1>2, <1>5, <2>1, <2>2, <2>3
<1>8. ASSUME NEW k \in 1..Len(grades) PROVE Fair(grades[k], more)
  <2> DEFINE g == grades[k]
  <2>1. /\ \A a \in Arms : HasRecord(records, g.case, a)
        /\ g.graded => \A i \in 1..n :
             records[i].case = g.case => g.passed[records[i].arm] = records[i].good
    BY <1>1 DEF Fair, n
  <2> HIDE DEF g
  <2>2. ASSUME NEW a \in Arms PROVE HasRecord(more, g.case, a)
    <3>1. PICK i \in 1..n : records[i].case = g.case /\ records[i].arm = a
      BY <2>1 DEF HasRecord, n
    <3>2. more[i] = records[i] /\ i \in 1..Len(more)
      BY <1>2
    <3> QED
      BY <3>1, <3>2 DEF HasRecord
  <2>3. g.case # r.case
    <3>1. r.arm \in Arms
      BY DEF Record
    <3> QED
      BY <2>1, <3>1
  <2>4. g.graded => \A i \in 1..Len(more) :
          more[i].case = g.case => g.passed[more[i].arm] = more[i].good
    BY <1>2, <1>5, <2>1, <2>3
  <2> QED
    BY <2>2, <2>4 DEF Fair, g
<1> QED
  BY <1>1, <1>2, <1>6, <1>7, <1>8 DEF Sound, more

(* A grade of a case is still there after another one is appended.       *)
LEMMA GradeStays ==
    ASSUME NEW grades \in Seq(Grade), NEW g \in Grade, NEW c, HasGrade(grades, c)
    PROVE  HasGrade(Append(grades, g), c)
<1>1. PICK n \in 1..Len(grades) : grades[n].case = c
  BY DEF HasGrade
<1>2. Len(Append(grades, g)) = Len(grades) + 1 /\ Append(grades, g)[n] = grades[n]
  BY AppendProperties
<1>3. n \in 1..Len(Append(grades, g))
  BY <1>1, <1>2
<1>4. Append(grades, g)[n].case = c
  BY <1>1, <1>2
<1> QED
  BY <1>3, <1>4 DEF HasGrade

(* A fair grade of a case that had none keeps records and grades sound.   *)
LEMMA GradeAdded ==
    ASSUME NEW records, NEW grades, NEW version, Sound(records, grades, version),
           NEW g \in Grade, Fair(g, records), ~ HasGrade(grades, g.case)
    PROVE  Sound(records, Append(grades, g), version)
<1> DEFINE more == Append(grades, g)
           n == Len(grades)
<1>1. /\ records \in Seq(Record) /\ grades \in Seq(Grade)
      /\ \A i \in 1..Len(records) : records[i].id = i - 1 /\ records[i].version = version
      /\ \A i, j \in 1..Len(records) :
           records[i].case = records[j].case /\ records[i].arm = records[j].arm => i = j
      /\ \A i, j \in 1..n : grades[i].case = grades[j].case => i = j
      /\ \A i \in 1..n : Fair(grades[i], records)
  BY DEF Sound
<1>2. /\ n \in Nat /\ more \in Seq(Grade) /\ Len(more) = n + 1
      /\ (\A i \in 1..n : more[i] = grades[i]) /\ more[n + 1] = g
  BY <1>1, AppendProperties
<1>3. \A i \in 1..n : grades[i].case # g.case
  BY DEF HasGrade
<1>4. \A i \in 1..(n + 1) : i \in 1..n \/ i = n + 1
  BY <1>2
<1> HIDE DEF more, n
<1>5. \A i, j \in 1..Len(more) : more[i].case = more[j].case => i = j
  BY <1>1, <1>2, <1>3, <1>4
<1>6. \A i \in 1..Len(more) : Fair(more[i], records)
  BY <1>1, <1>2, <1>4
<1> QED
  BY <1>1, <1>2, <1>5, <1>6 DEF Sound, more

LEMMA RecordTyped ==
    ASSUME NEW records \in Seq(Record), NEW n \in 1..Len(records)
    PROVE  records[n] \in Record /\ records[n].case \in 1..Cases /\ records[n].arm \in Arms
<1>1. records[n] \in Record
  OBVIOUS
<1> QED
  BY <1>1 DEF Record

(* Files without a torn line are what they hold. *)
LEMMA WholeFiles ==
    ASSUME NEW raw, NEW judgments, NEW version, Recorded(raw, judgments, version),
           ~ Contains(raw, Torn), ~ Contains(judgments, Torn)
    PROVE  Sound(raw, judgments, version)
<1>1. PICK records \in Seq(Record), grades \in Seq(Grade) :
        /\ Sound(records, grades, version)
        /\ raw = records \/ raw = Append(records, Torn)
        /\ judgments = grades \/ judgments = Append(grades, Torn)
  BY DEF Recorded
<1>2. ASSUME NEW S, NEW seq \in Seq(S) PROVE Contains(Append(seq, Torn), Torn)
  <2>1. /\ Len(seq) \in Nat /\ Len(Append(seq, Torn)) = Len(seq) + 1
        /\ Append(seq, Torn)[Len(seq) + 1] = Torn
    <3>1. seq \in Seq(S \cup {Torn})
      OBVIOUS
    <3> QED
      BY <3>1, AppendProperties
  <2>2. Len(seq) + 1 \in 1..Len(Append(seq, Torn))
    BY <2>1
  <2> QED
    BY <2>1, <2>2 DEF Contains
<1>3. raw = records /\ judgments = grades
  BY <1>1, <1>2
<1> QED
  BY <1>1, <1>3

LEMMA SoundIsRecorded ==
    ASSUME NEW records, NEW grades, NEW version, Sound(records, grades, version)
    PROVE  /\ Recorded(records, grades, version)
           /\ Recorded(Append(records, Torn), grades, version)
           /\ Recorded(records, Append(grades, Torn), version)
  BY DEF Recorded, Sound

LEMMA NothingIsSound ==
    ASSUME NEW version
    PROVE  Sound(<<>>, <<>>, version)
<1>1. /\ <<>> \in Seq(Record) /\ <<>> \in Seq(Grade) /\ Len(<<>>) = 0
      /\ \A n \in 1..0 : FALSE
  OBVIOUS
<1> QED
  BY <1>1 DEF Sound

LEMMA InitInv == ExperimentInit => ExperimentInv
<1> SUFFICES ASSUME ExperimentInit PROVE ExperimentInv
  OBVIOUS
<1>1. DirectoryInv
  BY NothingIsSound, SoundIsRecorded DEF ExperimentInit, DirectoryInv
<1>2. process.pc = "off" /\ process.end # "results"
  BY DEF ExperimentInit, Off
<1> QED
  BY <1>1, <1>2 DEF ExperimentInv, OffInv, At, Starting, AtWork

-----------------------------------------------------------------------------
LEMMA StartInv ==
    ASSUME ExperimentInv, StartBatch
    PROVE  ExperimentInv'
<1>1. files' = files /\ DirectoryInv
  BY DEF StartBatch, ExperimentInv
<1>2. PICK v \in Versions :
        process' = CASE files.manifest = NoFile -> [pc |-> "new", version |-> v]
                     [] files.manifest = v -> [pc |-> "load", version |-> v]
                     [] OTHER -> Off("mixed")
  BY DEF StartBatch
<1>3. DirectoryInv'
  BY <1>1 DEF DirectoryInv
<1>4. CASE files.manifest = NoFile
  <2>1. process' = [pc |-> "new", version |-> v]
    BY <1>2, <1>4, ExperimentAssumption
  <2>2. StartingInv'
    BY <1>1, <1>4, <2>1 DEF StartingInv, At
  <2> QED
    BY <1>3, <2>1, <2>2 DEF ExperimentInv, At, Starting, AtWork
<1>5. CASE files.manifest # NoFile /\ files.manifest = v
  <2>1. process' = [pc |-> "load", version |-> v]
    BY <1>2, <1>5
  <2>2. StartingInv'
    BY <1>1, <1>5, <2>1 DEF StartingInv, At
  <2> QED
    BY <1>3, <2>1, <2>2 DEF ExperimentInv, At, Starting, AtWork
<1>6. CASE files.manifest # NoFile /\ files.manifest # v
  <2>1. process'.pc = "off" /\ process'.end = "mixed"
    BY <1>2, <1>6 DEF Off
  <2> QED
    BY <1>3, <2>1 DEF ExperimentInv, OffInv, At, Starting, AtWork
<1> QED
  BY <1>4, <1>5, <1>6

LEMMA ManifestInv ==
    ASSUME ExperimentInv, WriteManifest \/ CopyDataset
    PROVE  ExperimentInv'
<1>1. DirectoryInv /\ StartingInv /\ process.pc \in {"new", "copy"}
  BY DEF ExperimentInv, WriteManifest, CopyDataset, At, Starting
<1>2. CASE WriteManifest
  <2>1. files' = [files EXCEPT !.manifest = process.version]
        /\ process' = [process EXCEPT !.pc = "copy"] /\ At("new")
    BY <1>2 DEF WriteManifest
  <2>2. /\ process.version \in Versions /\ files.manifest = NoFile
        /\ files.raw = <<>> /\ files.judgments = <<>>
    BY <1>1, <2>1 DEF StartingInv, DirectoryInv
  <2>3. /\ process' = [pc |-> "copy", version |-> process.version]
        /\ files' = [manifest |-> process.version, dataset |-> files.dataset, raw |-> <<>>,
                     judgments |-> <<>>, summary |-> files.summary,
                     blocked |-> files.blocked, audit |-> files.audit]
    BY <1>1, <2>1, <2>2 DEF StartingInv, DirectoryInv
  <2>4. DirectoryInv'
    BY <2>2, <2>3, NothingIsSound, SoundIsRecorded DEF DirectoryInv
  <2>5. StartingInv'
    BY <2>2, <2>3 DEF StartingInv, At
  <2> QED
    BY <2>3, <2>4, <2>5 DEF ExperimentInv, At, Starting, AtWork
<1>3. CASE CopyDataset
  <2>1. files' = [files EXCEPT !.dataset = process.version]
        /\ process' = [process EXCEPT !.pc = "load"] /\ At("copy")
    BY <1>3 DEF CopyDataset
  <2>2. process.version \in Versions /\ files.manifest = process.version
    BY <1>1, <2>1 DEF StartingInv, At
  <2>3. /\ process' = [pc |-> "load", version |-> process.version]
        /\ files' = [manifest |-> files.manifest, dataset |-> process.version, raw |-> files.raw,
                     judgments |-> files.judgments, summary |-> files.summary,
                     blocked |-> files.blocked, audit |-> files.audit]
    BY <1>1, <2>1 DEF StartingInv, DirectoryInv
  <2>4. DirectoryInv'
    BY <1>1, <2>3 DEF DirectoryInv
  <2>5. StartingInv'
    BY <2>2, <2>3 DEF StartingInv, At
  <2> QED
    BY <2>3, <2>4, <2>5 DEF ExperimentInv, At, Starting, AtWork
<1> QED
  BY <1>2, <1>3

LEMMA LoadInv ==
    ASSUME ExperimentInv, Load
    PROVE  ExperimentInv'
<1>1. DirectoryInv /\ StartingInv /\ process.pc = "load" /\ files' = files
  BY DEF ExperimentInv, Load, At, Starting
<1>2. process.version \in Versions /\ files.manifest = process.version
  BY <1>1 DEF StartingInv, At
<1>3. DirectoryInv'
  BY <1>1 DEF DirectoryInv
<1>4. CASE Contains(files.raw, Torn) \/ Contains(files.judgments, Torn)
  <2>1. process'.pc = "off" /\ process'.end = "unreadable"
    BY <1>4 DEF Load, Off
  <2> QED
    BY <1>3, <2>1 DEF ExperimentInv, OffInv, At, Starting, AtWork
<1>5. CASE ~ (Contains(files.raw, Torn) \/ Contains(files.judgments, Torn))
  <2>1. process' = [pc |-> "case", version |-> process.version, index |-> 1,
                    records |-> files.raw, grades |-> files.judgments]
    BY <1>5 DEF Load, Working
  <2>2. Sound(files.raw, files.judgments, files.manifest)
    BY <1>1, <1>5, WholeFiles DEF DirectoryInv
  <2>3. files.raw \in Seq(Record) /\ files.judgments \in Seq(Grade)
    BY <2>2 DEF Sound
  <2>4. 1 \in 1..(Cases + 1) /\ 1 # Cases + 1 /\ \A c \in 1..(1 - 1) : FALSE
    BY ExperimentAssumption
  <2>5. WorkingInv'
    BY <1>1, <1>2, <2>1, <2>2, <2>3, <2>4 DEF WorkingInv, At
  <2> QED
    BY <1>3, <2>1, <2>5 DEF ExperimentInv, At, Starting, AtWork
<1> QED
  BY <1>4, <1>5

-----------------------------------------------------------------------------
(* What is known of a process at work. *)
LEMMA AtWorkFacts ==
    ASSUME ExperimentInv, process.pc \in AtWork
    PROVE  /\ DirectoryInv /\ WorkingInv
           /\ files.manifest = process.version /\ process.version \in Versions
           /\ process.index \in 1..(Cases + 1)
           /\ process.records \in Seq(Record) /\ process.grades \in Seq(Grade)
           /\ Sound(process.records, process.grades, process.version)
           /\ \A c \in 1..(process.index - 1) : HasGrade(process.grades, c)
<1>1. DirectoryInv /\ WorkingInv
  BY DEF ExperimentInv
<1> QED
  BY <1>1 DEF WorkingInv

LEMMA RunInv ==
    ASSUME ExperimentInv, RunArm
    PROVE  ExperimentInv'
<1>1. At("case") /\ process.index <= Cases /\ Missing # {} /\ files' = files
  BY DEF RunArm
<1>2. /\ DirectoryInv /\ WorkingInv
      /\ files.manifest = process.version /\ process.version \in Versions
      /\ process.index \in 1..(Cases + 1)
      /\ process.records \in Seq(Record) /\ process.grades \in Seq(Grade)
      /\ Sound(process.records, process.grades, process.version)
      /\ \A c \in 1..(process.index - 1) : HasGrade(process.grades, c)
  BY <1>1, AtWorkFacts DEF At, AtWork
<1>3. /\ process.records = files.raw /\ process.grades = files.judgments
      /\ process \in [pc: {"case", "record", "judged"}, version: Versions, index: 1..(Cases + 1),
                      records: Seq(Record), grades: Seq(Grade)]
  BY <1>1, <1>2 DEF WorkingInv
<1> DEFINE arm == Order[Min(Missing)]
<1>4. arm \in Arms /\ ~ HasRecord(process.records, process.index, arm)
  <2>1. Missing \subseteq 1..2
    BY DEF Missing
  <2>2. Min(Missing) \in Missing
    <3>1. CASE 1 \in Missing
      <4>1. \E x \in Missing : \A y \in Missing : x <= y
        BY <2>1, <3>1
      <4> QED
        BY <4>1 DEF Min
    <3>2. CASE 1 \notin Missing
      <4>1. Missing = {2}
        <5>1. \A x \in Missing : x = 2
          BY <2>1, <3>2
        <5> QED
          BY <1>1, <5>1
      <4>2. \E x \in Missing : \A y \in Missing : x <= y
        BY <4>1
      <4> QED
        BY <4>2 DEF Min
    <3> QED
      BY <3>1, <3>2
  <2>3. PICK turn \in 1..2 :
          /\ arm = Order[turn]
          /\ \A n \in OfCase(process.records, process.index) : process.records[n].arm # arm
    BY <2>2 DEF Missing
  <2>4. Order[turn] \in Arms
    BY DEF Order, Arms
  <2> HIDE DEF arm
  <2> QED
    BY <1>2, <2>3, <2>4 DEF OfCase, HasRecord
<1> HIDE DEF arm
<1>5. PICK good \in BOOLEAN, limited \in BOOLEAN :
        process' = [process EXCEPT !.pc = "record", !.records = Append(process.records,
          [case |-> process.index, arm |-> arm, good |-> good, limited |-> limited,
           id |-> Len(process.records), version |-> process.version])]
  BY DEF RunArm, arm
<1> DEFINE r == [case |-> process.index, arm |-> arm, good |-> good, limited |-> limited,
                 id |-> Len(process.records), version |-> process.version]
<1>6. /\ r \in Record /\ r.id = Len(process.records) /\ r.version = process.version
      /\ r.case = process.index /\ r.arm = arm
  <2>1. process.index \in 1..Cases /\ Len(process.records) \in Nat
    BY <1>1, <1>2, ExperimentAssumption
  <2> QED
    BY <1>2, <1>4, <2>1 DEF Record
<1>7. process' = [pc |-> "record", version |-> process.version, index |-> process.index,
                  records |-> Append(process.records, r), grades |-> process.grades]
  BY <1>3, <1>5
<1> HIDE DEF r
<1>8. Sound(Append(process.records, r), process.grades, process.version)
  BY <1>2, <1>4, <1>6, RecordAdded
<1>9. DirectoryInv'
  BY <1>1, <1>2 DEF DirectoryInv
<1>10. process.index # Cases + 1
  BY <1>1, <1>2, ExperimentAssumption
<1>11. Append(process.records, r) \in Seq(Record)
  BY <1>8 DEF Sound
<1>12. WorkingInv'
  BY <1>1, <1>2, <1>3, <1>6, <1>7, <1>8, <1>10, <1>11 DEF WorkingInv, At
<1> QED
  BY <1>7, <1>9, <1>12 DEF ExperimentInv, At, Starting, AtWork

LEMMA AppendRecordInv ==
    ASSUME ExperimentInv, AppendRecord
    PROVE  ExperimentInv'
<1>1. At("record")
  BY DEF AppendRecord
<1>2. /\ DirectoryInv /\ WorkingInv
      /\ files.manifest = process.version /\ process.version \in Versions
      /\ process.index \in 1..(Cases + 1)
      /\ process.records \in Seq(Record) /\ process.grades \in Seq(Grade)
      /\ Sound(process.records, process.grades, process.version)
      /\ \A c \in 1..(process.index - 1) : HasGrade(process.grades, c)
  BY <1>1, AtWorkFacts DEF At, AtWork
<1>3. /\ process \in [pc: {"case", "record", "judged"}, version: Versions, index: 1..(Cases + 1),
                       records: Seq(Record), grades: Seq(Grade)]
      /\ process.index # Cases + 1 /\ process.grades = files.judgments
      /\ \E r \in Record : process.records = Append(files.raw, r)
      /\ Sound(files.raw, files.judgments, process.version)
  BY <1>1, <1>2 DEF WorkingInv
<1> DEFINE last == Last(process.records)
<1>4. Append(files.raw, last) = process.records
  <2>1. PICK r \in Record : process.records = Append(files.raw, r)
    BY <1>3
  <2>2. files.raw \in Seq(Record)
    BY <1>3 DEF Sound
  <2>3. Append(files.raw, r)[Len(files.raw) + 1] = r /\ Len(Append(files.raw, r)) = Len(files.raw) + 1
    BY <2>2, AppendProperties
  <2> QED
    BY <2>1, <2>3 DEF Last
<1>5. files' = [files EXCEPT !.raw = Append(files.raw, last),
                             !.blocked = files.blocked \/ last.limited]
  BY DEF AppendRecord
<1> HIDE DEF last
<1>6. files' = [manifest |-> files.manifest, dataset |-> files.dataset, raw |-> process.records,
                judgments |-> files.judgments, summary |-> files.summary,
                blocked |-> (files.blocked \/ last.limited), audit |-> files.audit]
  BY <1>2, <1>4, <1>5 DEF DirectoryInv
<1>7. DirectoryInv'
  <2>1. Recorded(process.records, files.judgments, files.manifest)
    BY <1>2, <1>3, SoundIsRecorded
  <2>2. files.manifest # NoFile
    BY <1>2, ExperimentAssumption
  <2> QED
    BY <1>2, <1>6, <2>1, <2>2 DEF DirectoryInv
<1>8. CASE process' = Off("limited")
  BY <1>7, <1>8 DEF ExperimentInv, Off, OffInv, At, Starting, AtWork
<1>9. CASE process' = [process EXCEPT !.pc = "case"]
  <2>1. process' = [pc |-> "case", version |-> process.version, index |-> process.index,
                    records |-> process.records, grades |-> process.grades]
    BY <1>3, <1>9
  <2>2. WorkingInv'
    BY <1>2, <1>3, <1>6, <2>1 DEF WorkingInv, At
  <2> QED
    BY <1>7, <2>1, <2>2 DEF ExperimentInv, At, Starting, AtWork
<1> QED
  BY <1>8, <1>9 DEF AppendRecord, last

LEMMA AppendGradeInv ==
    ASSUME ExperimentInv, AppendGrade
    PROVE  ExperimentInv'
<1>1. At("judged")
  BY DEF AppendGrade
<1>2. /\ DirectoryInv /\ WorkingInv
      /\ files.manifest = process.version /\ process.version \in Versions
      /\ process.index \in 1..(Cases + 1)
      /\ process.records \in Seq(Record) /\ process.grades \in Seq(Grade)
      /\ Sound(process.records, process.grades, process.version)
      /\ \A c \in 1..(process.index - 1) : HasGrade(process.grades, c)
  BY <1>1, AtWorkFacts DEF At, AtWork
<1>3. /\ process \in [pc: {"case", "record", "judged"}, version: Versions, index: 1..(Cases + 1),
                       records: Seq(Record), grades: Seq(Grade)]
      /\ process.index # Cases + 1 /\ process.records = files.raw
      /\ \E g \in Grade : process.grades = Append(files.judgments, g)
      /\ Sound(files.raw, files.judgments, process.version)
  BY <1>1, <1>2 DEF WorkingInv
<1> DEFINE last == Last(process.grades)
<1>4. Append(files.judgments, last) = process.grades
  <2>1. PICK g \in Grade : process.grades = Append(files.judgments, g)
    BY <1>3
  <2>2. files.judgments \in Seq(Grade)
    BY <1>3 DEF Sound
  <2>3. /\ Append(files.judgments, g)[Len(files.judgments) + 1] = g
        /\ Len(Append(files.judgments, g)) = Len(files.judgments) + 1
    BY <2>2, AppendProperties
  <2> QED
    BY <2>1, <2>3 DEF Last
<1>5. /\ files' = [files EXCEPT !.judgments = Append(files.judgments, last)]
      /\ process' = [process EXCEPT !.pc = "case"]
  BY DEF AppendGrade
<1> HIDE DEF last
<1>6. /\ files' = [manifest |-> files.manifest, dataset |-> files.dataset, raw |-> files.raw,
                   judgments |-> process.grades, summary |-> files.summary,
                   blocked |-> files.blocked, audit |-> files.audit]
      /\ process' = [pc |-> "case", version |-> process.version, index |-> process.index,
                     records |-> process.records, grades |-> process.grades]
  BY <1>2, <1>3, <1>4, <1>5 DEF DirectoryInv
<1>7. DirectoryInv'
  <2>1. Recorded(files.raw, process.grades, files.manifest)
    BY <1>2, <1>3, SoundIsRecorded
  <2>2. files.manifest # NoFile
    BY <1>2, ExperimentAssumption
  <2> QED
    BY <1>2, <1>6, <2>1, <2>2 DEF DirectoryInv
<1>8. WorkingInv'
  BY <1>2, <1>3, <1>6 DEF WorkingInv, At
<1> QED
  BY <1>6, <1>7, <1>8 DEF ExperimentInv, At, Starting, AtWork

(* When both arms have run, the case has their two records and no other. *)
LEMMA PairOfArms ==
    ASSUME ExperimentInv, At("case"), Missing = {}
    PROVE  \E lo, hi \in 1..Len(process.records) :
             /\ OfCase(process.records, process.index) = {lo, hi}
             /\ Pair = <<process.records[lo], process.records[hi]>>
             /\ process.records[lo].arm # process.records[hi].arm
             /\ {process.records[lo].arm, process.records[hi].arm} = Arms
<1> DEFINE records == process.records
           made == OfCase(records, process.index)
           n == Len(records)
<1>1. /\ records \in Seq(Record) /\ Sound(records, process.grades, process.version)
  BY AtWorkFacts DEF At, AtWork
<1>2. \A i \in made : i \in 1..n /\ records[i].case = process.index /\ records[i].arm \in Arms
  BY <1>1, RecordTyped DEF OfCase
<1>3. \A i, j \in made : records[i].arm = records[j].arm => i = j
  BY <1>1, <1>2 DEF Sound
<1>4. \A turn \in 1..2 : \E i \in made : records[i].arm = Order[turn]
  BY DEF Missing
<1>5. {Order[1], Order[2]} = Arms /\ Order[1] # Order[2]
  BY DEF Order, Arms, SingleArm, MultiArm
<1> HIDE DEF records, made, n
<1>6. PICK first \in made : records[first].arm = Order[1]
  BY <1>4
<1>7. PICK second \in made : records[second].arm = Order[2]
  BY <1>4
<1>8. made = {first, second} /\ first # second
  BY <1>2, <1>3, <1>5, <1>6, <1>7
<1>9. first \in 1..n /\ second \in 1..n /\ n \in Nat
  BY <1>1, <1>2, <1>8 DEF n
<1>10. ASSUME NEW lo \in 1..n, NEW hi \in 1..n, made = {lo, hi}, lo < hi
       PROVE  Min(made) = lo /\ Max(made) = hi
  <2>1. /\ lo \in made /\ (\A y \in made : lo <= y)
        /\ hi \in made /\ (\A y \in made : hi >= y)
    BY <1>10
  <2>2. \A x \in made : (\A y \in made : x <= y) => x = lo
    BY <1>10
  <2>3. \A x \in made : (\A y \in made : x >= y) => x = hi
    BY <1>10
  <2> QED
    BY <2>1, <2>2, <2>3 DEF Min, Max
<1>11. Pair = <<records[Min(made)], records[Max(made)]>>
  BY DEF Pair, made, records
<1>12. CASE first < second
  <2>1. Pair = <<records[first], records[second]>>
    BY <1>8, <1>9, <1>10, <1>11, <1>12
  <2> QED
    BY <1>5, <1>6, <1>7, <1>8, <1>9, <2>1 DEF records, made, n
<1>13. CASE second < first
  <2>1. made = {second, first}
    BY <1>8
  <2>2. Pair = <<records[second], records[first]>>
    BY <1>9, <1>10, <1>11, <1>13, <2>1
  <2> QED
    BY <1>5, <1>6, <1>7, <1>9, <2>1, <2>2 DEF records, made, n
<1> QED
  BY <1>8, <1>9, <1>12, <1>13

LEMMA JudgeInv ==
    ASSUME ExperimentInv, JudgePair
    PROVE  ExperimentInv'
<1>1. /\ At("case") /\ process.index <= Cases /\ Missing = {} /\ files' = files
      /\ OfCase(process.grades, process.index) = {}
  BY DEF JudgePair
<1>2. /\ DirectoryInv /\ WorkingInv
      /\ files.manifest = process.version /\ process.version \in Versions
      /\ process.index \in 1..(Cases + 1)
      /\ process.records \in Seq(Record) /\ process.grades \in Seq(Grade)
      /\ Sound(process.records, process.grades, process.version)
      /\ \A c \in 1..(process.index - 1) : HasGrade(process.grades, c)
  BY <1>1, AtWorkFacts DEF At, AtWork
<1>3. /\ process.records = files.raw /\ process.grades = files.judgments
      /\ process \in [pc: {"case", "record", "judged"}, version: Versions, index: 1..(Cases + 1),
                      records: Seq(Record), grades: Seq(Grade)]
  BY <1>1, <1>2 DEF WorkingInv
<1>4. PICK lo \in 1..Len(process.records), hi \in 1..Len(process.records) :
        /\ OfCase(process.records, process.index) = {lo, hi}
        /\ Pair = <<process.records[lo], process.records[hi]>>
        /\ process.records[lo].arm # process.records[hi].arm
        /\ {process.records[lo].arm, process.records[hi].arm} = Arms
  BY <1>1, PairOfArms
<1>5. process.records[lo] \in Record /\ process.records[hi] \in Record
  BY <1>2, RecordTyped
<1> DEFINE verdict == [X |-> Ordered[1].good, Y |-> Ordered[2].good]
           passed == [a \in Arms |-> \E l \in {"X", "Y"} : Labels[l] = a /\ verdict[l]]
<1>6. PICK g \in {[case |-> process.index, graded |-> TRUE, x |-> Ordered[1].arm, passed |-> passed],
                   [case |-> process.index, graded |-> FALSE]} :
        process' = [process EXCEPT !.pc = "judged", !.grades = Append(process.grades, g)]
  BY DEF JudgePair
<1>7. /\ passed \in [Arms -> BOOLEAN]
      /\ passed[process.records[lo].arm] = process.records[lo].good
      /\ passed[process.records[hi].arm] = process.records[hi].good
      /\ Ordered[1].arm \in Arms
  <2> DEFINE first == process.records[lo]
             second == process.records[hi]
  <2>1. /\ first.arm # second.arm /\ first.arm \in Arms /\ second.arm \in Arms
        /\ first.good \in BOOLEAN /\ second.good \in BOOLEAN
    BY <1>4, <1>5 DEF Record
  <2>2. \/ Ordered[1] = first /\ Ordered[2] = second
        \/ Ordered[1] = second /\ Ordered[2] = first
    BY <1>4 DEF Ordered
  <2>3. /\ Labels["X"] = Ordered[1].arm /\ Labels["Y"] = Ordered[2].arm
        /\ verdict["X"] = Ordered[1].good /\ verdict["Y"] = Ordered[2].good
    BY DEF Labels
  <2> HIDE DEF verdict, first, second
  <2>4. passed[Ordered[1].arm] = Ordered[1].good /\ passed[Ordered[2].arm] = Ordered[2].good
    <3>1. \A a \in Arms : passed[a] = ((Ordered[1].arm = a /\ Ordered[1].good)
                                      \/ (Ordered[2].arm = a /\ Ordered[2].good))
      BY <2>3
    <3>2. CASE Ordered[1] = first /\ Ordered[2] = second
      BY <2>1, <3>1, <3>2
    <3>3. CASE Ordered[1] = second /\ Ordered[2] = first
      BY <2>1, <3>1, <3>3
    <3> QED
      BY <2>2, <3>2, <3>3
  <2>5. passed \in [Arms -> BOOLEAN]
    OBVIOUS
  <2> HIDE DEF passed
  <2> QED
    BY <2>1, <2>2, <2>4, <2>5 DEF first, second
<1> HIDE DEF passed
<1>8. process.index \in 1..Cases
  BY <1>1, <1>2, ExperimentAssumption
<1>9. g \in Grade /\ g.case = process.index
  <2>1. CASE g = [case |-> process.index, graded |-> TRUE, x |-> Ordered[1].arm, passed |-> passed]
    BY <1>7, <1>8, <2>1 DEF Grade
  <2>2. CASE g = [case |-> process.index, graded |-> FALSE]
    BY <1>8, <2>2 DEF Grade
  <2> QED
    BY <1>6, <2>1, <2>2
<1>10. Fair(g, process.records)
  <2>1. \A a \in Arms : HasRecord(process.records, g.case, a)
    <3>1. process.records[lo].case = process.index /\ process.records[hi].case = process.index
      BY <1>4 DEF OfCase
    <3> QED
      BY <1>4, <1>9, <3>1 DEF HasRecord
  <2>2. ASSUME g.graded, NEW n \in 1..Len(process.records), process.records[n].case = g.case
        PROVE  g.passed[process.records[n].arm] = process.records[n].good
    <3>1. g = [case |-> process.index, graded |-> TRUE, x |-> Ordered[1].arm, passed |-> passed]
      BY <1>6, <2>2
    <3>2. n \in OfCase(process.records, process.index)
      BY <1>2, <1>9, <2>2 DEF OfCase
    <3>3. n = lo \/ n = hi
      BY <1>4, <3>2
    <3> QED
      BY <1>7, <3>1, <3>3
  <2> QED
    BY <2>1, <2>2 DEF Fair
<1>11. ~ HasGrade(process.grades, g.case)
  BY <1>1, <1>2, <1>9 DEF HasGrade, OfCase
<1>12. process' = [pc |-> "judged", version |-> process.version, index |-> process.index,
                   records |-> process.records, grades |-> Append(process.grades, g)]
  BY <1>3, <1>6
<1>13. Sound(process.records, Append(process.grades, g), process.version)
  BY <1>2, <1>9, <1>10, <1>11, GradeAdded
<1>14. Append(process.grades, g) \in Seq(Grade)
  BY <1>13 DEF Sound
<1>15. \A c \in 1..(process.index - 1) : HasGrade(Append(process.grades, g), c)
  BY <1>2, <1>9, GradeStays
<1>16. DirectoryInv'
  BY <1>1, <1>2 DEF DirectoryInv
<1>17. process.index # Cases + 1
  BY <1>8, ExperimentAssumption
<1>18. WorkingInv'
  BY <1>1, <1>2, <1>3, <1>9, <1>12, <1>13, <1>14, <1>15, <1>17 DEF WorkingInv, At
<1> QED
  BY <1>12, <1>16, <1>18 DEF ExperimentInv, At, Starting, AtWork

LEMMA SummarizeInv ==
    ASSUME ExperimentInv, Summarize
    PROVE  ExperimentInv'
<1>1. At("case") /\ process.index <= Cases /\ OfCase(process.grades, process.index) # {}
  BY DEF Summarize
<1>2. /\ DirectoryInv /\ WorkingInv
      /\ files.manifest = process.version /\ process.version \in Versions
      /\ process.index \in 1..(Cases + 1)
      /\ process.records \in Seq(Record) /\ process.grades \in Seq(Grade)
      /\ Sound(process.records, process.grades, process.version)
      /\ \A c \in 1..(process.index - 1) : HasGrade(process.grades, c)
  BY <1>1, AtWorkFacts DEF At, AtWork
<1>3. /\ process.records = files.raw /\ process.grades = files.judgments
      /\ process \in [pc: {"case", "record", "judged"}, version: Versions, index: 1..(Cases + 1),
                      records: Seq(Record), grades: Seq(Grade)]
  BY <1>1, <1>2 DEF WorkingInv
<1>4. /\ files' = [files EXCEPT !.summary = Aggregate(process.records, process.grades)]
      /\ process' = [process EXCEPT !.index = process.index + 1]
  BY DEF Summarize
<1>5. /\ files' = [manifest |-> files.manifest, dataset |-> files.dataset, raw |-> files.raw,
                   judgments |-> files.judgments, summary |-> Aggregate(files.raw, files.judgments),
                   blocked |-> files.blocked, audit |-> files.audit]
      /\ process' = [pc |-> "case", version |-> process.version, index |-> process.index + 1,
                     records |-> process.records, grades |-> process.grades]
  BY <1>1, <1>2, <1>3, <1>4 DEF DirectoryInv, At
<1>6. DirectoryInv'
  BY <1>2, <1>5 DEF DirectoryInv
<1>7. process.index + 1 \in 1..(Cases + 1)
  BY <1>1, <1>2, ExperimentAssumption
<1>8. \A c \in 1..(process.index + 1 - 1) : HasGrade(process.grades, c)
  <2>1. HasGrade(process.grades, process.index)
    BY <1>1, <1>2 DEF HasGrade, OfCase
  <2>2. \A c \in 1..(process.index + 1 - 1) : c \in 1..(process.index - 1) \/ c = process.index
    BY <1>2
  <2> QED
    BY <1>2, <2>1, <2>2
<1>9. WorkingInv'
  BY <1>2, <1>3, <1>5, <1>7, <1>8 DEF WorkingInv, At
<1> QED
  BY <1>5, <1>6, <1>9 DEF ExperimentInv, At, Starting, AtWork

LEMMA EndInv ==
    ASSUME ExperimentInv, EndBatch
    PROVE  ExperimentInv'
<1>1. At("case") /\ process.index > Cases /\ process' = Off("results") /\ files' = files
  BY DEF EndBatch
<1>2. /\ DirectoryInv /\ WorkingInv
      /\ files.manifest = process.version
      /\ process.index \in 1..(Cases + 1)
      /\ Sound(process.records, process.grades, process.version)
      /\ \A c \in 1..(process.index - 1) : HasGrade(process.grades, c)
  BY <1>1, AtWorkFacts DEF At, AtWork
<1>3. process.index = Cases + 1 /\ process.index - 1 = Cases
  BY <1>1, <1>2, ExperimentAssumption
<1>4. /\ process.records = files.raw /\ process.grades = files.judgments
      /\ files.summary = Aggregate(files.raw, files.judgments)
  BY <1>1, <1>2, <1>3 DEF WorkingInv
<1>5. OffInv'
  BY <1>1, <1>2, <1>3, <1>4 DEF OffInv, Complete
<1>6. DirectoryInv'
  BY <1>1, <1>2 DEF DirectoryInv
<1> QED
  BY <1>1, <1>5, <1>6 DEF ExperimentInv, Off, At, Starting, AtWork

LEMMA CrashInv ==
    ASSUME ExperimentInv, Crash
    PROVE  ExperimentInv'
<1>1. /\ DirectoryInv /\ process'.pc = "off" /\ process'.end = "killed"
  BY DEF ExperimentInv, Crash, Off
<1>2. DirectoryInv'
  <2>1. CASE files' = files
    BY <1>1, <2>1 DEF DirectoryInv
  <2>2. CASE At("record") /\ files' = [files EXCEPT !.raw = Append(files.raw, Torn)]
    <3>1. Sound(files.raw, files.judgments, files.manifest) /\ files.manifest # NoFile
      BY <2>2, AtWorkFacts, ExperimentAssumption DEF WorkingInv, At, AtWork
    <3>2. files' = [manifest |-> files.manifest, dataset |-> files.dataset,
                    raw |-> Append(files.raw, Torn), judgments |-> files.judgments,
                    summary |-> files.summary, blocked |-> files.blocked, audit |-> files.audit]
      BY <1>1, <2>2 DEF DirectoryInv
    <3> QED
      BY <1>1, <3>1, <3>2, SoundIsRecorded DEF DirectoryInv
  <2>3. CASE At("judged") /\ files' = [files EXCEPT !.judgments = Append(files.judgments, Torn)]
    <3>1. Sound(files.raw, files.judgments, files.manifest) /\ files.manifest # NoFile
      BY <2>3, AtWorkFacts, ExperimentAssumption DEF WorkingInv, At, AtWork
    <3>2. files' = [manifest |-> files.manifest, dataset |-> files.dataset, raw |-> files.raw,
                    judgments |-> Append(files.judgments, Torn), summary |-> files.summary,
                    blocked |-> files.blocked, audit |-> files.audit]
      BY <1>1, <2>3 DEF DirectoryInv
    <3> QED
      BY <1>1, <3>1, <3>2, SoundIsRecorded DEF DirectoryInv
  <2> QED
    BY <2>1, <2>2, <2>3 DEF Crash
<1> QED
  BY <1>1, <1>2 DEF ExperimentInv, OffInv, At, Starting, AtWork

LEMMA AuditInv ==
    ASSUME ExperimentInv, Audit
    PROVE  ExperimentInv'
<1>1. DirectoryInv /\ At("off") /\ process' = process /\ OffInv
  BY DEF ExperimentInv, Audit
<1>2. /\ files'.manifest = files.manifest /\ files'.raw = files.raw
      /\ files'.judgments = files.judgments /\ files'.summary = files.summary
      /\ files' = [manifest |-> files'.manifest, dataset |-> files'.dataset, raw |-> files'.raw,
                   judgments |-> files'.judgments, summary |-> files'.summary,
                   blocked |-> files'.blocked, audit |-> files'.audit]
  BY <1>1 DEF Audit, DirectoryInv
<1>3. DirectoryInv'
  BY <1>1, <1>2 DEF DirectoryInv
<1>4. OffInv'
  BY <1>1, <1>2 DEF OffInv
<1> QED
  BY <1>1, <1>3, <1>4 DEF ExperimentInv, At, Starting, AtWork

LEMMA StutterInv ==
    ASSUME ExperimentInv, UNCHANGED experimentVars
    PROVE  ExperimentInv'
<1>1. files' = files /\ process' = process
  BY DEF experimentVars
<1> QED
  BY <1>1 DEF ExperimentInv, DirectoryInv, OffInv, StartingInv, WorkingInv, At

LEMMA ExperimentInvHolds == ExperimentSpec => []ExperimentInv
<1>1. ExperimentInv /\ [ExperimentNext]_experimentVars => ExperimentInv'
  BY StartInv, ManifestInv, LoadInv, RunInv, AppendRecordInv, JudgeInv, AppendGradeInv,
     SummarizeInv, EndInv, CrashInv, AuditInv, StutterInv DEF ExperimentNext
<1> QED
  BY <1>1, InitInv, PTL DEF ExperimentSpec

-----------------------------------------------------------------------------
LEMMA WholeLinesAre ==
    ASSUME NEW S, Torn \notin S, NEW seq \in Seq(S), NEW file,
           file = seq \/ file = Append(seq, Torn)
    PROVE  WholeLines(file) = 1..Len(seq) /\ \A n \in 1..Len(seq) : file[n] = seq[n]
<1>1. Len(seq) \in Nat /\ DOMAIN seq = 1..Len(seq) /\ \A n \in 1..Len(seq) : seq[n] # Torn
  OBVIOUS
<1>2. CASE file = seq
  BY <1>1, <1>2 DEF WholeLines
<1>3. CASE file = Append(seq, Torn)
  <2>1. /\ file \in Seq(S \cup {Torn}) /\ Len(file) = Len(seq) + 1 /\ file[Len(seq) + 1] = Torn
        /\ \A n \in 1..Len(seq) : file[n] = seq[n]
    <3>1. seq \in Seq(S \cup {Torn})
      OBVIOUS
    <3> QED
      BY <1>3, <3>1, AppendProperties
  <2>2. DOMAIN file = 1..(Len(seq) + 1)
    BY <2>1
  <2>3. \A n \in 1..(Len(seq) + 1) : n \in 1..Len(seq) \/ n = Len(seq) + 1
    BY <1>1
  <2>4. \A n \in 1..Len(seq) : n \in 1..(Len(seq) + 1)
    BY <1>1
  <2>5. \A n \in DOMAIN file : file[n] # Torn <=> n \in 1..Len(seq)
    BY <1>1, <2>1, <2>2, <2>3
  <2> QED
    BY <2>1, <2>2, <2>4, <2>5 DEF WholeLines
<1> QED
  BY <1>2, <1>3

LEMMA ArmsOnce == ExperimentInv => ArmsRunOnce
<1> SUFFICES ASSUME ExperimentInv PROVE ArmsRunOnce
  OBVIOUS
<1> DEFINE raw == files.raw
           judgments == files.judgments
<1>1. PICK records \in Seq(Record), grades \in Seq(Grade) :
        /\ Sound(records, grades, files.manifest)
        /\ raw = records \/ raw = Append(records, Torn)
        /\ judgments = grades \/ judgments = Append(grades, Torn)
  BY DEF ExperimentInv, DirectoryInv, Recorded
<1> HIDE DEF raw, judgments
<1>2. /\ WholeLines(raw) = 1..Len(records) /\ \A n \in 1..Len(records) : raw[n] = records[n]
      /\ WholeLines(judgments) = 1..Len(grades)
      /\ \A n \in 1..Len(grades) : judgments[n] = grades[n]
  BY <1>1, TornIsNoLine, WholeLinesAre
<1>3. /\ \A n \in 1..Len(records) : records[n].id = n - 1 /\ records[n].version = files.manifest
      /\ \A m, n \in 1..Len(records) :
           records[m].case = records[n].case /\ records[m].arm = records[n].arm => m = n
      /\ \A m, n \in 1..Len(grades) : grades[m].case = grades[n].case => m = n
      /\ \A n \in 1..Len(grades) : Fair(grades[n], records)
  BY <1>1 DEF Sound
<1>4. ASSUME NEW m \in WholeLines(raw), NEW n \in WholeLines(raw), m # n
      PROVE  raw[m].id # raw[n].id /\ <<raw[m].case, raw[m].arm>> # <<raw[n].case, raw[n].arm>>
  <2>1. /\ m \in 1..Len(records) /\ n \in 1..Len(records) /\ m \in Int /\ n \in Int
        /\ raw[m] = records[m] /\ raw[n] = records[n]
    BY <1>2
  <2>2. records[m].id = m - 1 /\ records[n].id = n - 1
    BY <1>3, <2>1
  <2>3. records[m].id # records[n].id
    BY <1>4, <2>1, <2>2
  <2>4. ~ (records[m].case = records[n].case /\ records[m].arm = records[n].arm)
    BY <1>3, <1>4, <2>1
  <2> QED
    BY <2>1, <2>3, <2>4
<1>5. ASSUME NEW m \in WholeLines(judgments), NEW n \in WholeLines(judgments), m # n
      PROVE  judgments[m].case # judgments[n].case
  BY <1>2, <1>3, <1>5
<1>6. ASSUME NEW g \in WholeLines(judgments), NEW a \in Arms
      PROVE  \E n \in WholeLines(raw) : raw[n].case = judgments[g].case /\ raw[n].arm = a
  <2>1. HasRecord(records, grades[g].case, a)
    BY <1>2, <1>3 DEF Fair
  <2> QED
    BY <1>2, <2>1 DEF HasRecord
<1>7. ASSUME NEW n \in WholeLines(raw) PROVE raw[n].version = files.manifest
  BY <1>2, <1>3
<1> QED
  BY <1>4, <1>5, <1>6, <1>7 DEF ArmsRunOnce, raw, judgments

(* Lines that tell of every case once are as many as the cases. *)
LEMMA OneEach ==
    ASSUME NEW lines, NEW T, T \subseteq DOMAIN lines,
           \A n \in T : lines[n].case \in 1..Cases,
           \A m, n \in T : lines[m].case = lines[n].case => m = n,
           \A c \in 1..Cases : \E n \in T : lines[n].case = c
    PROVE  IsFiniteSet(T) /\ Cardinality(T) = Cases
<1> DEFINE f == [n \in T |-> lines[n].case]
<1>1. f \in Injection(T, 1..Cases) /\ f \in Surjection(T, 1..Cases)
  BY DEF Injection, IsInjective, Surjection
<1>2. IsFiniteSet(1..Cases) /\ Cardinality(1..Cases) = Cases
  BY ExperimentAssumption, FS_Interval
<1> QED
  BY <1>1, <1>2, FS_Injection

LEMMA DisjointSum ==
    ASSUME NEW A, NEW B, IsFiniteSet(A \cup B), A \cap B = {}
    PROVE  /\ Cardinality(A \cup B) = Cardinality(A) + Cardinality(B)
           /\ Cardinality(A) \in Nat /\ Cardinality(B) \in Nat
<1>1. IsFiniteSet(A) /\ IsFiniteSet(B)
  <2>1. A \in SUBSET (A \cup B) /\ B \in SUBSET (A \cup B)
    OBVIOUS
  <2> QED
    BY <2>1, FS_Subset
<1>2. Cardinality(A) \in Nat /\ Cardinality(B) \in Nat
  BY <1>1, FS_CardinalityType
<1>3. Cardinality(A \cup B) = Cardinality(A) + Cardinality(B) - Cardinality(A \cap B)
  BY <1>1, FS_Union
<1>4. Cardinality(A \cap B) = 0
  BY FS_EmptySet
<1> QED
  BY <1>2, <1>3, <1>4

(* The grades that were given credit an arm with its good answers. *)
LEMMA CreditIsOwn ==
    ASSUME NEW records, NEW grades, NEW version, Sound(records, grades, version),
           NEW a \in Arms, NEW g \in Graded(grades)
    PROVE  grades[g].passed[a] <=> \E n \in DOMAIN records :
             records[n].case = grades[g].case /\ records[n].arm = a /\ records[n].good
<1>1. /\ records \in Seq(Record) /\ grades \in Seq(Grade)
      /\ \A n \in 1..Len(grades) : Fair(grades[n], records)
  BY DEF Sound
<1>2. g \in 1..Len(grades) /\ grades[g].graded /\ DOMAIN records = 1..Len(records)
  BY <1>1 DEF Graded
<1>3. /\ HasRecord(records, grades[g].case, a)
      /\ \A n \in 1..Len(records) :
           records[n].case = grades[g].case => grades[g].passed[records[n].arm] = records[n].good
  BY <1>1, <1>2 DEF Fair
<1>4. PICK i \in 1..Len(records) : records[i].case = grades[g].case /\ records[i].arm = a
  BY <1>3 DEF HasRecord
<1>5. grades[g].passed[a] = records[i].good
  BY <1>3, <1>4
<1>6. records[i].good \in BOOLEAN
  <2>1. records[i] \in Record
    BY <1>1
  <2> QED
    BY <2>1 DEF Record
<1>7. \A n \in 1..Len(records) :
        records[n].case = grades[g].case /\ records[n].arm = a => records[n].good = grades[g].passed[a]
  BY <1>3
<1> QED
  BY <1>2, <1>4, <1>5, <1>6, <1>7

LEMMA OutcomeTells ==
    ASSUME NEW g, g.passed[SingleArm] \in BOOLEAN, g.passed[MultiArm] \in BOOLEAN
    PROVE  /\ g.passed[SingleArm] <=> Outcome(g) = "both_pass" \/ Outcome(g) = "single_only"
           /\ g.passed[MultiArm] <=> Outcome(g) = "both_pass" \/ Outcome(g) = "multi_only"
  BY DEF Outcome

LEMMA SummaryHolds == ExperimentInv => SummaryIsTrue
<1> SUFFICES ASSUME ExperimentInv, At("off"), process.end = "results" PROVE SummaryIsTrue
  BY DEF SummaryIsTrue
<1> DEFINE records == files.raw
           grades == files.judgments
           s == files.summary
<1>1. /\ Sound(records, grades, files.manifest) /\ Complete(grades)
      /\ s = Aggregate(records, grades)
  BY DEF ExperimentInv, OffInv
<1> DEFINE Of(a) == {n \in DOMAIN records : records[n].arm = a}
           Passed(a) == {n \in Graded(grades) : grades[n].passed[a]}
           Ends(o) == {n \in Graded(grades) : Outcome(grades[n]) = o}
           Credited(a) == {g \in Graded(grades) : \E n \in DOMAIN records :
             records[n].case = grades[g].case /\ records[n].arm = a /\ records[n].good}
<1>2. /\ \A a \in Arms :
           /\ s.variants[a].runs = Cardinality(Of(a))
           /\ s.variants[a].graded = Cardinality(Graded(grades))
           /\ s.variants[a].ungraded = Cardinality(Of(a)) - Cardinality(Graded(grades))
           /\ s.variants[a].passed = Cardinality(Passed(a))
      /\ s.paired["both_pass"] = Cardinality(Ends("both_pass"))
      /\ s.paired["single_only"] = Cardinality(Ends("single_only"))
      /\ s.paired["multi_only"] = Cardinality(Ends("multi_only"))
      /\ s.failed = Cardinality(Failed(grades))
  BY <1>1 DEF Aggregate
<1>3. SingleArm \in Arms /\ MultiArm \in Arms
  BY DEF Arms
<1> HIDE DEF s, records, grades
<1>4. /\ records \in Seq(Record) /\ grades \in Seq(Grade)
      /\ DOMAIN records = 1..Len(records) /\ DOMAIN grades = 1..Len(grades)
      /\ \A m, n \in DOMAIN records :
           records[m].case = records[n].case /\ records[m].arm = records[n].arm => m = n
      /\ \A m, n \in DOMAIN grades : grades[m].case = grades[n].case => m = n
      /\ \A n \in DOMAIN grades : Fair(grades[n], records)
  <2>1. /\ records \in Seq(Record) /\ grades \in Seq(Grade)
        /\ \A m, n \in 1..Len(records) :
             records[m].case = records[n].case /\ records[m].arm = records[n].arm => m = n
        /\ \A m, n \in 1..Len(grades) : grades[m].case = grades[n].case => m = n
        /\ \A n \in 1..Len(grades) : Fair(grades[n], records)
    BY <1>1 DEF Sound
  <2>2. DOMAIN records = 1..Len(records) /\ DOMAIN grades = 1..Len(grades)
    BY <2>1
  <2> QED
    BY <2>1, <2>2
<1>5. ASSUME NEW a \in Arms PROVE Cardinality(Of(a)) = Cases
  <2>1. \A n \in Of(a) : records[n].case \in 1..Cases
    BY <1>4, RecordTyped
  <2>2. \A m, n \in Of(a) : records[m].case = records[n].case => m = n
    BY <1>4
  <2>3. ASSUME NEW c \in 1..Cases PROVE \E n \in Of(a) : records[n].case = c
    <3>1. PICK k \in 1..Len(grades) : grades[k].case = c
      BY <1>1 DEF Complete, HasGrade
    <3>2. HasRecord(records, c, a)
      BY <1>4, <3>1 DEF Fair
    <3> QED
      BY <1>4, <3>2 DEF HasRecord
  <2>4. Of(a) \subseteq DOMAIN records
    OBVIOUS
  <2> HIDE DEF Of
  <2> QED
    BY <2>1, <2>2, <2>3, <2>4, OneEach
<1>6. IsFiniteSet(DOMAIN grades) /\ Cardinality(DOMAIN grades) = Cases
  <2>1. ASSUME NEW n \in DOMAIN grades PROVE grades[n].case \in 1..Cases
    <3>1. grades[n] \in Grade
      BY <1>4
    <3> QED
      BY <3>1 DEF Grade
  <2>2. \A c \in 1..Cases : \E n \in DOMAIN grades : grades[n].case = c
    BY <1>1, <1>4 DEF Complete, HasGrade
  <2> QED
    BY <1>4, <2>1, <2>2, OneEach
<1>7. /\ Cardinality(Graded(grades)) + Cardinality(Failed(grades)) = Cases
      /\ Cardinality(Graded(grades)) \in Nat /\ Cardinality(Failed(grades)) \in Nat
  <2>1. /\ Graded(grades) \cup Failed(grades) = DOMAIN grades
        /\ Graded(grades) \cap Failed(grades) = {}
    BY DEF Graded, Failed
  <2> QED
    BY <1>6, <2>1, DisjointSum
<1>8. ASSUME NEW a \in Arms PROVE Passed(a) = Credited(a)
  BY <1>1, <1>8, CreditIsOwn
<1>9. ASSUME NEW a \in Arms, NEW o \in {"single_only", "multi_only"},
             \A n \in Graded(grades) : grades[n].passed[a]
               <=> Outcome(grades[n]) = "both_pass" \/ Outcome(grades[n]) = o
      PROVE  Cardinality(Ends("both_pass")) + Cardinality(Ends(o)) = Cardinality(Passed(a))
  <2>1. /\ Ends("both_pass") \cup Ends(o) = Passed(a)
        /\ Ends("both_pass") \cap Ends(o) = {}
    BY <1>9
  <2>2. Passed(a) \in SUBSET (DOMAIN grades)
    BY DEF Graded
  <2>3. IsFiniteSet(Passed(a))
    BY <1>6, <2>2, FS_Subset
  <2> HIDE DEF Ends, Passed
  <2> QED
    BY <2>1, <2>3, DisjointSum
<1>10. ASSUME NEW n \in Graded(grades)
       PROVE  /\ grades[n].passed[SingleArm]
                    <=> Outcome(grades[n]) = "both_pass" \/ Outcome(grades[n]) = "single_only"
              /\ grades[n].passed[MultiArm]
                    <=> Outcome(grades[n]) = "both_pass" \/ Outcome(grades[n]) = "multi_only"
  <2>1. grades[n] \in Grade /\ grades[n].graded
    BY <1>4 DEF Graded
  <2>2. grades[n].passed \in [Arms -> BOOLEAN]
    BY <2>1 DEF Grade
  <2>3. grades[n].passed[SingleArm] \in BOOLEAN /\ grades[n].passed[MultiArm] \in BOOLEAN
    BY <1>3, <2>2
  <2> QED
    BY <2>3, OutcomeTells
<1> HIDE DEF Of, Passed, Ends
<1>11. \A a \in Arms :
         /\ s.variants[a].runs = Cases
         /\ s.variants[a].passed = Cardinality(Credited(a))
         /\ s.variants[a].graded + s.variants[a].ungraded = Cases
  <2>1. SUFFICES ASSUME NEW a \in Arms
                 PROVE  /\ s.variants[a].runs = Cases
                        /\ s.variants[a].passed = Cardinality(Credited(a))
                        /\ s.variants[a].graded + s.variants[a].ungraded = Cases
    OBVIOUS
  <2>2. s.variants[a].runs = Cases
    BY <1>2, <1>5
  <2>3. s.variants[a].passed = Cardinality(Credited(a))
    BY <1>2, <1>8
  <2>4. s.variants[a].graded + s.variants[a].ungraded = Cases
    BY <1>2, <1>5, <1>7, ExperimentAssumption
  <2> QED
    BY <2>2, <2>3, <2>4
<1>12. s.failed = s.variants[SingleArm].ungraded
  BY <1>2, <1>3, <1>5, <1>7, ExperimentAssumption
<1>13. s.paired["both_pass"] + s.paired["single_only"] = s.variants[SingleArm].passed
  BY <1>2, <1>3, <1>9, <1>10
<1>14. s.paired["both_pass"] + s.paired["multi_only"] = s.variants[MultiArm].passed
  BY <1>2, <1>3, <1>9, <1>10
<1> HIDE DEF Credited
<1> QED
  BY <1>11, <1>12, <1>13, <1>14 DEF SummaryIsTrue, s, records, grades, Credited

(* However often a batch is killed, stopped by a limit and resumed, no arm *)
(* runs a case twice, no case is judged twice or too early, and the        *)
(* results that are announced count what the arms' own answers were worth  *)
(* (main, grade_pair and aggregate of run_dataset_experiment.py).          *)
THEOREM ResultsTrue == ExperimentSpec => []ResultsAreTrue
<1>1. ExperimentInv => ResultsAreTrue
  BY ArmsOnce, SummaryHolds DEF ResultsAreTrue
<1> QED
  BY <1>1, ExperimentInvHolds, PTL

-----------------------------------------------------------------------------
-----------------------------------------------------------------------------
(* What the branches do *)

Lookups == {Logs, Tickets, Articles}
Scopes == [service_name: Investigators, query: Investigators, wide: BOOLEAN]
EvidenceIds == [task: Investigators, tool: Lookups, attempt: Nat]
Observations ==
    [id: EvidenceIds, agent: Investigators, service: Investigators, tool: Lookups,
     inputs: Scopes, empty: BOOLEAN, output: Nat]
CallRecords ==
    [id: Nat, tool: Lookups, inputs: Scopes, status: {"completed", "failed"}, empty: BOOLEAN,
     scoped: BOOLEAN]
Findings == [by: Investigators, kind: {"fact", "hypothesis"}, cites: SUBSET EvidenceIds]
TaskRecords ==
    [pc: {"idle", "working", "ended"}, tool: Lookups \cup {"none"}, tries: Nat, attempts: Nat,
     used: SUBSET Lookups, seen: Seq(Observations), error: BOOLEAN, cut: BOOLEAN, gap: BOOLEAN,
     findings: SUBSET Findings]

Stages == {"investigating", "following", "reviewing", "closing", "closed"}

DiagnosisTypeOK ==
    /\ calls \in Seq(CallRecords) /\ tasks \in [Investigators -> TaskRecords]
    /\ stage \in Stages /\ target \in Investigators
    /\ evidence \in Seq(Observations)
    /\ trace = [events |-> trace.events, merged |-> trace.merged]

Started(b) == tasks[b].pc # "idle"

(* The call c was completed, about what the branch asks the tool for. *)
Answers(c, b, tool) ==
    calls[c].status = "completed" /\ calls[c].tool = tool /\ calls[c].inputs = Inputs(b, tool)

(* Where a branch stands: its first lookup are the logs, no tool is used   *)
(* twice before the attempts of the branch are spent.                      *)
BranchOK(b) ==
    /\ Logs \in tasks[b].used /\ tasks[b].tool \in tasks[b].used \cup {"none"}
    /\ tasks[b].tool = Logs => tasks[b].used = {Logs}
    /\ tasks[b].tool \in {Tickets, Articles} =>
         /\ tasks[b].attempts >= 1
         /\ {Tickets, Articles} \subseteq tasks[b].used => tasks[b].attempts >= 2
    /\ b = Extra => tasks[b].used = {Logs}
    /\ Len(tasks[b].seen) <= tasks[b].attempts /\ tasks[b].attempts <= TaskLimit
    /\ tasks[b].pc = "working" =>
         \A c \in DOMAIN calls : Answers(c, b, tasks[b].tool) => tasks[b].attempts >= 3
    /\ ~Started(b) => tasks[b] = NewTask("idle")
    /\ b \in Planned => Started(b)

(* What a branch has seen are completed calls in its scope, its findings   *)
(* cite what it may cite.                                                  *)
SeenOfBranchOK(b) ==
    /\ \A k \in DOMAIN tasks[b].seen :
         LET o == tasks[b].seen[k] IN
         /\ o.id.task = b /\ o.id.tool = o.tool /\ o.tool \in tasks[b].used
         /\ o.agent = Subject(b) /\ o.service = Subject(b)
         /\ o.output \in DOMAIN calls /\ calls[o.output].scoped
         /\ o.inputs = Inputs(b, o.tool) /\ Answers(o.output, b, o.tool)
    /\ \A k, l \in DOMAIN tasks[b].seen : tasks[b].seen[k].output = tasks[b].seen[l].output => k = l
    /\ \A claim \in tasks[b].findings :
         claim.by = b /\ claim.cites # {} /\ claim.cites \subseteq Known(b, tasks[b])

(* Every call is a started branch's; it was answered by a later one, or    *)
(* the branch knows it is incomplete, or it tries again.                   *)
CallOK(c) ==
    /\ calls[c].id = c
    /\ \E b \in Investigators :
         /\ Started(b) /\ calls[c].tool \in tasks[b].used /\ calls[c].inputs = Inputs(b, calls[c].tool)
         /\ \/ Recovered(c) \/ tasks[b].error \/ tasks[b].cut
            \/ tasks[b].pc = "working" /\ tasks[b].tool = calls[c].tool /\ tasks[b].tries = 1

(* A lookup is completed once. *)
CompletedOnce ==
    \A c, d \in DOMAIN calls :
        /\ calls[c].status = "completed" /\ calls[d].status = "completed"
        /\ calls[c].tool = calls[d].tool /\ calls[c].inputs = calls[d].inputs
        => c = d

-----------------------------------------------------------------------------
(* What the supervisor does *)

(* The branches whose results have been merged. *)
MergedBranches == Planned \cup (IF stage # "following" /\ Started(Extra) THEN {Extra} ELSE {})

EvidenceOK ==
    /\ \A n \in DOMAIN evidence : \E b \in MergedBranches :
         \E k \in DOMAIN tasks[b].seen : evidence[n] = tasks[b].seen[k]
    /\ \A b \in MergedBranches : \A k \in DOMAIN tasks[b].seen :
         \E n \in DOMAIN evidence : evidence[n] = tasks[b].seen[k]
    /\ \A n, m \in DOMAIN evidence : evidence[n].id = evidence[m].id => n = m
    /\ trace.events = UNION {EventsOf(tasks[b].seen) : b \in MergedBranches}

StageOK ==
    /\ stage = "investigating" => target = Extra /\ ~Started(Extra)
    /\ stage # "investigating" => \A s \in Planned : tasks[s].pc = "ended"
    /\ Started(Extra) => target \in Planned
    /\ stage = "following" => Started(Extra)
    /\ stage \in {"reviewing", "closing", "closed"} => tasks[Extra].pc # "working"
    /\ stage \in {"following", "reviewing", "closing"} => EvidenceOK
    /\ stage = "closing" => report \in Reports
    /\ stage # "closed" => answer = Unset /\ trace.merged = Unset
    /\ stage = "investigating" => trace.events = {}

(* The merge is saved as it was, beside the events of what was merged. *)
MergedOK ==
    trace.merged # Unset =>
        /\ EvidenceOK /\ trace.merged.verdict = answer.verdict
        /\ trace.merged.ids = [i \in DOMAIN evidence |-> evidence[i].id]

DiagnosisInv ==
    /\ DiagnosisTypeOK
    /\ \A b \in Investigators : BranchOK(b) /\ SeenOfBranchOK(b)
    /\ \A c \in DOMAIN calls : CallOK(c)
    /\ CompletedOnce /\ StageOK /\ AnswerIsSupported /\ MergedOK

-----------------------------------------------------------------------------
LEMMA BranchNumbers ==
    /\ Extra \notin Planned /\ Extra \in Investigators /\ Planned \subseteq Investigators
    /\ \A b \in Investigators : b \in Nat /\ (b = Extra \/ b \in Planned)
BY DiagnosisAssumption DEF Extra, Planned, Investigators

LEMMA ScopesOfBranches ==
    ASSUME NEW b \in Investigators, target \in Investigators, NEW tool \in Lookups
    PROVE  Subject(b) \in Investigators /\ Inputs(b, tool) \in Scopes
<1>1. Subject(b) \in Investigators
  BY DEF Subject
<1>2. 0 \in Investigators
  BY DEF Investigators, Extra
<1> QED
  BY <1>1, <1>2 DEF Inputs, Scopes

(* Two branches do not ask for the same. *)
LEMMA InputsApart ==
    ASSUME NEW b \in Investigators, NEW d \in Investigators, NEW tool \in Lookups,
           b = Extra \/ d = Extra => tool = Logs, Inputs(b, tool) = Inputs(d, tool)
    PROVE  b = d
<1>1. CASE b \in Planned /\ d \in Planned
  <2>1. Subject(b) = b /\ Subject(d) = d
    BY <1>1, BranchNumbers DEF Subject
  <2>2. /\ Inputs(b, tool).service_name = Inputs(d, tool).service_name
        /\ Inputs(b, tool).query = Inputs(d, tool).query
    OBVIOUS
  <2> QED
    BY <2>1, <2>2 DEF Inputs
<1>2. CASE b = Extra \/ d = Extra
  <2>1. Inputs(b, tool).wide = Inputs(d, tool).wide /\ tool = Logs
    BY <1>2
  <2>2. (b = Extra) <=> (d = Extra)
    BY <2>1 DEF Inputs
  <2> QED
    BY <1>2, <2>2
<1> QED
  BY <1>1, <1>2, BranchNumbers

(* What follows a call keeps what was seen, and takes another tool, unless *)
(* the rules go on from the tool before.                                   *)
LEMMA MovesOn ==
    ASSUME NEW b \in Investigators, NEW task \in TaskRecords, NEW dry \in BOOLEAN, NEW spent \in Nat,
           NEW next \in Moves(b, task, dry, spent),
           CallLimit \in Nat, LimitOf(b) \in Int, target \in Investigators, tasks \in [Investigators -> TaskRecords],
           Known(b, task) \subseteq EvidenceIds
    PROVE  /\ next \in TaskRecords
           /\ next.pc = task.pc /\ next.tries = 0 /\ next.attempts = task.attempts
           /\ next.seen = task.seen /\ next.cut = task.cut /\ next.gap = task.gap
           /\ task.error => next.error
           /\ next.tool \in {"none", Tickets, Articles}
           /\ next.used = task.used \cup ({next.tool} \ {"none"})
           /\ next.tool \in task.used =>
                \/ task.tool = Logs /\ next.tool = Tickets
                \/ task.tool = Tickets /\ next.tool = Articles
           /\ b = Extra => next.tool = "none"
           /\ next.findings = task.findings \/ next.findings \in Proposals(b, task)
<1> DEFINE rule == NextLookup(b, task, dry)
           offered == Offered(b, task, spent)
           open == IF offered > 0 THEN {Tickets, Articles} \ task.used ELSE {}
<1>1. /\ rule \in {"none", Tickets, Articles} /\ (b = Extra => rule = "none")
      /\ rule # "none" => (task.tool = Logs /\ rule = Tickets) \/ (task.tool = Tickets /\ rule = Articles)
  BY DEF NextLookup, Logs, Tickets, Articles
<1>2. open \subseteq {Tickets, Articles} \ task.used /\ (b = Extra => open = {})
  BY DEF Offered
<1>3. ASSUME NEW found \in Proposals(b, task) PROVE found \in SUBSET Findings
  <2>1. CASE found = {}
    BY <2>1
  <2>2. CASE found # {}
    <3>1. PICK k \in {"fact", "hypothesis"}, c \in SUBSET EvidenceIds :
            found = {[by |-> b, kind |-> k, cites |-> c]}
      BY <2>2 DEF Proposals
    <3>2. [by |-> b, kind |-> k, cites |-> c] \in Findings
      BY DEF Findings
    <3> QED
      BY <3>1, <3>2
  <2> QED
    BY <2>1, <2>2
<1>4. "none" \notin {Tickets, Articles} /\ "none" \notin task.used
  BY DEF TaskRecords, Lookups, Logs, Tickets, Articles
<1>10. ASSUME NEW n \in TaskRecords, NEW f \in SUBSET Findings
       PROVE  LET m == [n EXCEPT !.findings = f] IN
              /\ m \in TaskRecords /\ m.findings = f /\ m.tool = n.tool
              /\ m.pc = n.pc /\ m.tries = n.tries /\ m.attempts = n.attempts
              /\ m.seen = n.seen /\ m.cut = n.cut /\ m.gap = n.gap /\ m.error = n.error
              /\ m.used = n.used
  BY DEF TaskRecords
<1>11. ASSUME NEW n \in TaskRecords
       PROVE  LET m == [n EXCEPT !.error = TRUE] IN
              /\ m \in TaskRecords /\ m.findings = n.findings /\ m.tool = n.tool
              /\ m.pc = n.pc /\ m.tries = n.tries /\ m.attempts = n.attempts
              /\ m.seen = n.seen /\ m.cut = n.cut /\ m.gap = n.gap /\ m.error = TRUE
              /\ m.used = n.used
  BY DEF TaskRecords
<1>5. ASSUME NEW tool \in {"none", Tickets, Articles}
      PROVE  LET n == Selected(task, tool) IN
             /\ n \in TaskRecords /\ n.tool = tool
             /\ n.pc = task.pc /\ n.tries = 0 /\ n.attempts = task.attempts
             /\ n.seen = task.seen /\ n.cut = task.cut /\ n.gap = task.gap /\ n.error = task.error
             /\ n.used = task.used \cup ({tool} \ {"none"}) /\ n.findings = task.findings
  BY DEF Selected, TaskRecords, Lookups
<1> DEFINE Chosen == {[Selected(task, tool) EXCEPT !.findings = found] :
                         tool \in {"none"} \cup open, found \in Proposals(b, task)}
           Ruled == {[Selected(task, IF b # Extra /\ task.gap /\ offered = 0 THEN "none" ELSE rule)
                        EXCEPT !.error = TRUE]}
<1>6. CASE next = Selected(task, rule)
  BY <1>1, <1>4, <1>5, <1>6
<1>7. CASE next \in Chosen
  <2>1. PICK tool \in {"none"} \cup open : \E found \in Proposals(b, task) :
            next = [Selected(task, tool) EXCEPT !.findings = found]
    BY <1>7
  <2>2. PICK found \in Proposals(b, task) : next = [Selected(task, tool) EXCEPT !.findings = found]
    BY <2>1
  <2>3. tool \in {"none", Tickets, Articles} /\ (tool \notin task.used \/ tool = "none")
    BY <1>2
  <2>4. next = [Selected(task, tool) EXCEPT !.findings = found] /\ found \in SUBSET Findings
    BY <1>3, <2>2
  <2> HIDE DEF open, rule, offered
  <2>5. /\ next \in TaskRecords /\ next.tool = tool /\ next.findings = found
        /\ next.pc = task.pc /\ next.tries = 0 /\ next.attempts = task.attempts
        /\ next.seen = task.seen /\ next.cut = task.cut /\ next.gap = task.gap /\ next.error = task.error
        /\ next.used = task.used \cup ({tool} \ {"none"})
    BY <1>5, <1>10, <2>3, <2>4
  <2> QED
    BY <1>2, <1>4, <2>2, <2>3, <2>5
<1>8. CASE next \in Ruled
  <2> DEFINE tool == IF b # Extra /\ task.gap /\ offered = 0 THEN "none" ELSE rule
  <2>1. next = [Selected(task, tool) EXCEPT !.error = TRUE]
    BY <1>8
  <2>2. tool \in {"none", Tickets, Articles} /\ (tool # "none" => tool = rule)
    BY <1>1
  <2> HIDE DEF tool, rule
  <2>3. /\ next \in TaskRecords /\ next.tool = tool /\ next.error = TRUE
        /\ next.pc = task.pc /\ next.tries = 0 /\ next.attempts = task.attempts
        /\ next.seen = task.seen /\ next.cut = task.cut /\ next.gap = task.gap
        /\ next.used = task.used \cup ({tool} \ {"none"}) /\ next.findings = task.findings
    BY <1>5, <1>11, <2>1, <2>2
  <2>4. b = Extra => tool = "none"
    BY <1>1, <2>2
  <2> QED
    BY <1>1, <1>4, <2>2, <2>3, <2>4
<1>9. next = Selected(task, rule) \/ next \in Chosen \/ next \in Ruled
  BY DEF Moves
<1> QED
  BY <1>6, <1>7, <1>8, <1>9

(* A call that answers what a branch asks a tool for was that branch's. *)
LEMMA AnswersAreOfUsed ==
    ASSUME DiagnosisInv, NEW c \in DOMAIN calls, NEW b \in Investigators, NEW tool \in Lookups,
           b = Extra => tool = Logs, Answers(c, b, tool)
    PROVE  tool \in tasks[b].used
<1>1. PICK d \in Investigators : tool \in tasks[d].used /\ Inputs(b, tool) = Inputs(d, tool)
  BY DEF DiagnosisInv, CallOK, Answers
<1>2. d = Extra => tool = Logs
  BY <1>1 DEF DiagnosisInv, BranchOK
<1>3. b = d
  BY <1>1, <1>2, InputsApart
<1> QED
  BY <1>1, <1>3

(* Where the run is when a branch works. *)
LEMMA WorkingStage ==
    ASSUME DiagnosisInv, NEW b \in Investigators, tasks[b].pc = "working"
    PROVE  /\ b \in Planned => stage = "investigating"
           /\ b = Extra => stage = "following"
           /\ stage # "closed" /\ answer = Unset /\ trace.merged = Unset
<1>1. stage \in Stages
  BY DEF DiagnosisInv, DiagnosisTypeOK
<1>2. CASE b \in Planned
  BY <1>2, BranchNumbers DEF DiagnosisInv, StageOK
<1>3. CASE b = Extra
  BY <1>1, <1>3, BranchNumbers DEF DiagnosisInv, StageOK, Started, Stages
<1> QED
  BY <1>2, <1>3, BranchNumbers DEF DiagnosisInv, StageOK

(* Where a branch may go when its tool has been called. *)
GoesOn(b, next) ==
    LET task == tasks[b] IN
    /\ next.tool \in {"none", Tickets, Articles}
    /\ next.used = task.used \cup ({next.tool} \ {"none"})
    /\ next.tool \in task.used =>
         \/ task.tool = Logs /\ next.tool = Tickets
         \/ task.tool = Tickets /\ next.tool = Articles
    /\ b = Extra => next.tool = "none"

(* The step of a branch that made a call. *)
CallStep(b, rec, next) ==
    LET task == tasks[b] IN
    /\ rec \in CallRecords /\ next \in TaskRecords
    /\ rec.id = Len(calls) + 1 /\ rec.tool = task.tool /\ rec.inputs = Inputs(b, task.tool)
    /\ calls' = Append(calls, rec) /\ tasks' = [tasks EXCEPT ![b] = next]
    /\ UNCHANGED <<reasons, stage, target, evidence, trace, report, answer>>
    /\ next.pc = "working" /\ next.attempts = task.attempts + 1
    /\ next.cut = task.cut /\ (task.error => next.error)
    /\ \/ /\ next.tool = task.tool /\ next.used = task.used /\ next.tries = 1
          /\ rec.status = "failed"
       \/ /\ GoesOn(b, next)
          /\ next.error \/ (rec.status = "completed" /\ rec.scoped)
    /\ \/ next.seen = task.seen
       \/ /\ \E empty \in BOOLEAN : next.seen = Append(task.seen, Observation(b, empty))
          /\ rec.status = "completed" /\ rec.scoped
    /\ \A claim \in next.findings :
         claim.by = b /\ claim.cites # {} /\ claim.cites \subseteq Known(b, next)

LEMMA CallKeepsBranches ==
    ASSUME DiagnosisInv, NEW b \in Investigators, MayCall(b), NEW rec, NEW next, CallStep(b, rec, next)
    PROVE  \A d \in Investigators : BranchOK(d)'
<1> DEFINE task == tasks[b]
           tool == rec.tool
           new == rec.id
<1>1. /\ calls \in Seq(CallRecords) /\ tasks \in [Investigators -> TaskRecords]
      /\ task \in TaskRecords /\ target \in Investigators
  BY DEF DiagnosisInv, DiagnosisTypeOK
<1>2. /\ task.pc = "working" /\ tool = task.tool /\ new = Len(calls) + 1 /\ tool \in Lookups /\ tool \in task.used
      /\ task.attempts \in Nat /\ task.attempts < LimitOf(b)
  BY <1>1 DEF MayCall, TaskRecords, DiagnosisInv, BranchOK, CallStep
<1>3. TaskLimit \in 0..3 /\ LimitOf(b) <= TaskLimit /\ LimitOf(b) \in Int
  <2>1. tasks[target].attempts \in Nat
    BY <1>1 DEF TaskRecords
  <2>2. TaskLimit \in 0..3
    BY DiagnosisAssumption
  <2> QED
    BY <2>1, <2>2 DEF LimitOf
<1>4. /\ Len(calls') = new /\ DOMAIN calls' = DOMAIN calls \cup {new}
      /\ calls'[new] = rec /\ \A c \in DOMAIN calls : calls'[c] = calls[c]
  BY <1>1 DEF CallStep
<1>5. \A c \in DOMAIN calls : ~ Answers(c, b, tool)
  BY <1>2, <1>3 DEF DiagnosisInv, BranchOK
<1>6. target' = target /\ \A d, t : Inputs(d, t)' = Inputs(d, t)
  BY DEF CallStep, Inputs, Subject
<1>7. ASSUME NEW c \in DOMAIN calls', NEW d, NEW t, calls'[c].status = "completed",
             calls'[c].tool = t, calls'[c].inputs = Inputs(d, t)
      PROVE  \/ c \in DOMAIN calls /\ Answers(c, d, t)
             \/ c = new /\ rec.status = "completed" /\ t = tool /\ Inputs(d, t) = Inputs(b, tool)
  BY <1>2, <1>4, <1>7 DEF Answers, CallStep
<1>8. tasks'[b] = next /\ \A d \in Investigators \ {b} : tasks'[d] = tasks[d]
  BY <1>1 DEF CallStep
<1>9. BranchOK(b)'
  <2>1. /\ Logs \in task.used /\ (tool = Logs => task.used = {Logs})
        /\ b = Extra => task.used = {Logs}
        /\ Len(task.seen) <= task.attempts /\ b \in Planned \cup {Extra}
        /\ tool \in {Tickets, Articles} =>
             /\ task.attempts >= 1
             /\ {Tickets, Articles} \subseteq task.used => task.attempts >= 2
    BY <1>2, BranchNumbers DEF DiagnosisInv, BranchOK
  <2>2. /\ next.pc = "working" /\ next.attempts = task.attempts + 1
        /\ next.attempts <= TaskLimit
    BY <1>2, <1>3 DEF CallStep
  <2>3. Len(next.seen) <= next.attempts
    <3>1. task.seen \in Seq(Observations)
      BY <1>1 DEF TaskRecords
    <3>2. Len(task.seen) \in Nat /\ Len(next.seen) <= Len(task.seen) + 1
      BY <3>1 DEF CallStep
    <3>3. Len(next.seen) \in Nat
      BY DEF CallStep, TaskRecords
    <3> QED
      BY <1>2, <2>1, <2>2, <3>2, <3>3
  <2>4. Logs # Tickets /\ Logs # Articles /\ Tickets # Articles /\ "none" \notin Lookups
        /\ Lookups = {Logs, Tickets, Articles}
    BY DEF Logs, Tickets, Articles, Lookups
  <2>5. CASE next.tool = tool /\ next.used = task.used /\ rec.status = "failed"
    <3>1. \A c \in DOMAIN calls' :
            ~ (calls'[c].status = "completed" /\ calls'[c].tool = next.tool
               /\ calls'[c].inputs = Inputs(b, next.tool))
      BY <1>2, <1>5, <1>7, <2>5
    <3>2. \A c \in DOMAIN calls' : Answers(c, b, tasks[b].tool)' => tasks'[b].attempts >= 3
      BY <1>6, <1>8, <3>1 DEF Answers
    <3> QED
      BY <1>2, <1>8, <2>1, <2>2, <2>3, <2>5, <3>2 DEF BranchOK, Started
  <2>6. CASE GoesOn(b, next)
    <3>1. /\ next.tool \in {"none", Tickets, Articles}
          /\ next.used = task.used \cup ({next.tool} \ {"none"})
          /\ b = Extra => next.tool = "none"
          /\ next.tool \in task.used =>
               \/ tool = Logs /\ next.tool = Tickets
               \/ tool = Tickets /\ next.tool = Articles
      BY <1>2, <2>6 DEF GoesOn
    <3>2. next.tool \in task.used => next.attempts >= 3
      BY <1>2, <2>1, <2>2, <2>4, <3>1
    <3>3. next.tool \in {Tickets, Articles} =>
            /\ next.attempts >= 1
            /\ {Tickets, Articles} \subseteq next.used => next.attempts >= 2
      <4>1. next.attempts >= 1
        BY <1>2, <2>2
      <4>2. CASE tool = Logs
        BY <2>1, <2>4, <3>1, <4>1, <4>2
      <4>3. CASE tool \in {Tickets, Articles}
        BY <1>2, <2>1, <2>2, <4>1, <4>3
      <4> QED
        BY <1>2, <2>4, <4>2, <4>3
    <3>4. ASSUME NEW c \in DOMAIN calls', calls'[c].status = "completed",
                 calls'[c].tool = next.tool, calls'[c].inputs = Inputs(b, next.tool)
          PROVE  next.attempts >= 3
      <4>1. CASE c \in DOMAIN calls /\ Answers(c, b, next.tool)
        <5>1. next.tool \in Lookups
          <6>1. calls[c] \in CallRecords
            BY <1>1, <4>1
          <6>2. calls[c].tool \in Lookups
            BY <6>1 DEF CallRecords
          <6> QED
            BY <4>1, <6>2 DEF Answers
        <5>2. b # Extra
          BY <2>4, <3>1, <5>1
        <5> QED
          BY <3>2, <4>1, <5>1, <5>2, AnswersAreOfUsed
      <4>2. CASE next.tool = tool
        BY <1>2, <3>2, <4>2
      <4> QED
        BY <1>7, <3>4, <4>1, <4>2
    <3>5. \A c \in DOMAIN calls' : Answers(c, b, tasks[b].tool)' => tasks'[b].attempts >= 3
      BY <1>6, <1>8, <3>4 DEF Answers
    <3> QED
      BY <1>8, <2>1, <2>2, <2>3, <2>4, <3>1, <3>3, <3>5 DEF BranchOK, Started
  <2> QED
    BY <2>5, <2>6 DEF CallStep
<1>10. ASSUME NEW d \in Investigators, d # b PROVE BranchOK(d)'
  <2>1. tasks'[d] = tasks[d] /\ BranchOK(d)
    BY <1>8, <1>10 DEF DiagnosisInv
  <2>2. ASSUME NEW c \in DOMAIN calls', calls'[c].status = "completed",
               calls'[c].tool = tasks[d].tool, calls'[c].inputs = Inputs(d, tasks[d].tool)
        PROVE  c \in DOMAIN calls /\ Answers(c, d, tasks[d].tool)
    <3>1. ~ (tasks[d].tool = tool /\ Inputs(d, tool) = Inputs(b, tool))
      <4>1. SUFFICES ASSUME tasks[d].tool = tool, Inputs(d, tool) = Inputs(b, tool) PROVE FALSE
        OBVIOUS
      <4>2. b = Extra \/ d = Extra => tool = Logs
        <5>1. "none" # tool
          BY <1>2 DEF Lookups, Logs, Tickets, Articles
        <5> QED
          BY <1>2, <2>1, <4>1, <5>1 DEF DiagnosisInv, BranchOK
      <4> QED
        BY <1>2, <1>10, <4>1, <4>2, InputsApart
    <3> QED
      BY <1>7, <2>2, <3>1
  <2>3. \A c \in DOMAIN calls' : Answers(c, d, tasks[d].tool)' => c \in DOMAIN calls /\ Answers(c, d, tasks[d].tool)
    BY <1>6, <2>1, <2>2 DEF Answers
  <2> QED
    BY <1>6, <2>1, <2>3 DEF BranchOK, Started
<1> QED
  BY <1>9, <1>10

LEMMA CallKeepsSeen ==
    ASSUME DiagnosisInv, NEW b \in Investigators, MayCall(b), NEW rec, NEW next, CallStep(b, rec, next)
    PROVE  \A d \in Investigators : SeenOfBranchOK(d)'
<1> DEFINE task == tasks[b]
<1>1. /\ calls \in Seq(CallRecords) /\ tasks \in [Investigators -> TaskRecords]
      /\ task \in TaskRecords /\ target \in Investigators /\ task.pc = "working"
  BY DEF DiagnosisInv, DiagnosisTypeOK, MayCall
<1>2. /\ rec.id = Len(calls) + 1 /\ DOMAIN calls' = DOMAIN calls \cup {rec.id}
      /\ calls'[rec.id] = rec /\ \A c \in DOMAIN calls : calls'[c] = calls[c]
      /\ \A c \in DOMAIN calls : c # rec.id
  BY <1>1 DEF CallStep
<1>3. target' = target /\ (\A d, t : Inputs(d, t)' = Inputs(d, t)) /\ \A d : Subject(d)' = Subject(d)
  BY DEF CallStep, Inputs, Subject
<1>4. tasks'[b] = next /\ \A d \in Investigators \ {b} : tasks'[d] = tasks[d]
  BY <1>1 DEF CallStep
<1>5. ASSUME NEW c \in DOMAIN calls, NEW d, NEW t, calls[c].scoped, Answers(c, d, t)
      PROVE  c \in DOMAIN calls' /\ calls'[c].scoped /\ calls'[c].status = "completed"
             /\ calls'[c].tool = t /\ calls'[c].inputs = Inputs(d, t)
  BY <1>2, <1>5 DEF Answers
<1>6. ASSUME NEW d \in Investigators, d # b PROVE SeenOfBranchOK(d)'
  <2>1. SeenOfBranchOK(d) /\ tasks'[d] = tasks[d]
    BY <1>4, <1>6 DEF DiagnosisInv
  <2>2. ASSUME NEW k \in DOMAIN tasks[d].seen
        PROVE  LET o == tasks[d].seen[k] IN
               /\ o.id.task = d /\ o.id.tool = o.tool /\ o.agent = Subject(d) /\ o.service = Subject(d)
               /\ o.inputs = Inputs(d, o.tool)
               /\ o.output \in DOMAIN calls' /\ calls'[o.output].scoped
               /\ calls'[o.output].status = "completed" /\ calls'[o.output].tool = o.tool
               /\ calls'[o.output].inputs = Inputs(d, o.tool)
    BY <1>5, <2>1 DEF SeenOfBranchOK
  <2>3. \A claim \in tasks[d].findings : claim.cites \subseteq Known(d, tasks[d])'
    <3>1. CASE d = Extra
      <4>1. stage = "investigating"
        BY <1>1, <1>6, <3>1, WorkingStage, BranchNumbers
      <4>2. tasks[d].findings = {}
        BY <3>1, <4>1 DEF DiagnosisInv, StageOK, BranchOK, NewTask
      <4> QED
        BY <4>2
    <3>2. CASE d # Extra
      BY <2>1, <3>2 DEF SeenOfBranchOK, Known
    <3> QED
      BY <3>1, <3>2
  <2> QED
    BY <1>3, <2>1, <2>2, <2>3 DEF SeenOfBranchOK, Answers
<1>8. task.used \subseteq next.used /\ task.tool \in task.used
  <2>1. task.tool \in task.used
    BY <1>1 DEF MayCall, DiagnosisInv, BranchOK
  <2> QED
    BY <2>1 DEF CallStep, GoesOn
<1>7. SeenOfBranchOK(b)'
  <2>1. SeenOfBranchOK(b)
    BY DEF DiagnosisInv
  <2>2. task.seen \in Seq(Observations) /\ next.seen \in Seq(Observations)
    BY <1>1 DEF CallStep, TaskRecords
  <2>3. ASSUME NEW k \in DOMAIN task.seen
        PROVE  LET o == task.seen[k] IN
               /\ o.id.task = b /\ o.id.tool = o.tool /\ o.tool \in next.used /\ o.agent = Subject(b) /\ o.service = Subject(b)
               /\ o.inputs = Inputs(b, o.tool) /\ o.output # rec.id
               /\ o.output \in DOMAIN calls' /\ calls'[o.output].scoped
               /\ calls'[o.output].status = "completed" /\ calls'[o.output].tool = o.tool
               /\ calls'[o.output].inputs = Inputs(b, o.tool)
    BY <1>2, <1>5, <1>8, <2>1 DEF SeenOfBranchOK
  <2>4. \A k, l \in DOMAIN task.seen : task.seen[k].output = task.seen[l].output => k = l
    BY <2>1 DEF SeenOfBranchOK
  <2>5. \A claim \in next.findings :
          claim.by = b /\ claim.cites # {} /\ claim.cites \subseteq Known(b, next)'
    <3>1. Known(b, next)' = Known(b, next)
      <4>1. b = Extra => target # b /\ target \in Investigators
        BY <1>1, BranchNumbers DEF DiagnosisInv, StageOK, Started
      <4>2. b = Extra => tasks'[target'] = tasks[target]
        BY <1>3, <1>4, <4>1
      <4> QED
        BY <1>3, <4>2 DEF Known
    <3> QED
      BY <3>1 DEF CallStep
  <2>6. CASE next.seen = task.seen
    BY <1>3, <1>4, <2>3, <2>4, <2>5, <2>6 DEF SeenOfBranchOK, Answers
  <2>7. CASE \E empty \in BOOLEAN : next.seen = Append(task.seen, Observation(b, empty))
    <3>1. PICK empty \in BOOLEAN : next.seen = Append(task.seen, Observation(b, empty))
      BY <2>7
    <3> DEFINE o == Observation(b, empty)
               n == Len(task.seen) + 1
    <3>2. /\ o.id.task = b /\ o.id.tool = o.tool /\ o.agent = Subject(b) /\ o.service = Subject(b)
          /\ o.tool = task.tool /\ o.inputs = Inputs(b, o.tool) /\ o.output = Len(calls) + 1
      BY DEF Observation
    <3> HIDE DEF o
    <3>3. \/ next.seen = task.seen
          \/ rec.status = "completed" /\ rec.scoped
      BY DEF CallStep
    <3>4. /\ DOMAIN next.seen = DOMAIN task.seen \cup {n} /\ n \notin DOMAIN task.seen
          /\ next.seen[n] = o /\ \A k \in DOMAIN task.seen : next.seen[k] = task.seen[k]
      <4>1. Len(task.seen) \in Nat /\ DOMAIN task.seen = 1..Len(task.seen)
        BY <2>2
      <4>2. next.seen = Append(task.seen, o)
        BY <3>1 DEF o
      <4> QED
        BY <2>2, <4>1, <4>2
    <3>5. rec.status = "completed" /\ rec.scoped /\ rec.tool = task.tool /\ rec.inputs = Inputs(b, task.tool)
      BY <3>3, <3>4 DEF CallStep
    <3>6. /\ o.output = rec.id /\ o.output \in DOMAIN calls' /\ calls'[o.output].scoped
          /\ calls'[o.output].status = "completed" /\ calls'[o.output].tool = o.tool
          /\ calls'[o.output].inputs = Inputs(b, o.tool)
      BY <1>2, <3>2, <3>5
    <3>7. ASSUME NEW k \in DOMAIN next.seen
          PROVE  LET p == next.seen[k] IN
                 /\ p.id.task = b /\ p.id.tool = p.tool /\ p.tool \in next.used /\ p.agent = Subject(b) /\ p.service = Subject(b)
                 /\ p.inputs = Inputs(b, p.tool)
                 /\ p.output \in DOMAIN calls' /\ calls'[p.output].scoped
                 /\ calls'[p.output].status = "completed" /\ calls'[p.output].tool = p.tool
                 /\ calls'[p.output].inputs = Inputs(b, p.tool)
      BY <1>8, <2>3, <3>2, <3>4, <3>6
    <3>8. \A k, l \in DOMAIN next.seen : next.seen[k].output = next.seen[l].output => k = l
      BY <2>3, <2>4, <3>4, <3>6
    <3> HIDE DEF n
    <3> QED
      BY <1>3, <1>4, <2>5, <3>7, <3>8 DEF SeenOfBranchOK, Answers
  <2> QED
    BY <2>6, <2>7 DEF CallStep
<1> QED
  BY <1>6, <1>7

LEMMA CallKeepsCalls ==
    ASSUME DiagnosisInv, NEW b \in Investigators, MayCall(b), NEW rec, NEW next, CallStep(b, rec, next)
    PROVE  (\A c \in DOMAIN calls' : CallOK(c)') /\ CompletedOnce'
<1> DEFINE task == tasks[b]
           tool == rec.tool
<1>1. /\ calls \in Seq(CallRecords) /\ tasks \in [Investigators -> TaskRecords]
      /\ task \in TaskRecords /\ target \in Investigators /\ task.pc = "working"
      /\ tool = task.tool /\ tool \in Lookups /\ tool \in task.used /\ rec.inputs = Inputs(b, tool)
  BY DEF DiagnosisInv, DiagnosisTypeOK, MayCall, CallStep, TaskRecords, BranchOK
<1>2. /\ rec.id = Len(calls) + 1 /\ DOMAIN calls' = DOMAIN calls \cup {rec.id}
      /\ calls'[rec.id] = rec /\ \A c \in DOMAIN calls : calls'[c] = calls[c]
      /\ \A c \in DOMAIN calls : c # rec.id /\ c <= rec.id /\ rec.id \in Nat
  BY <1>1 DEF CallStep
<1>3. target' = target /\ (\A d, t : Inputs(d, t)' = Inputs(d, t))
  BY DEF CallStep, Inputs, Subject
<1>4. tasks'[b] = next /\ \A d \in Investigators \ {b} : tasks'[d] = tasks[d]
  BY <1>1 DEF CallStep
<1>5. next.pc = "working" /\ next.cut = task.cut /\ (task.error => next.error)
      /\ \/ next.tool = tool /\ next.tries = 1
         \/ next.error \/ (rec.status = "completed" /\ rec.scoped)
      /\ task.used \subseteq next.used
  BY <1>1 DEF CallStep, GoesOn
<1>6. ASSUME NEW c \in DOMAIN calls PROVE CallOK(c)'
  <2>1. calls'[c] = calls[c] /\ calls[c].id = c /\ calls[c].tool \in Lookups
    <3>1. calls[c] \in CallRecords
      BY <1>1
    <3> QED
      BY <1>2, <3>1 DEF DiagnosisInv, CallOK, CallRecords
  <2>2. Recovered(c) => Recovered(c)'
    BY <1>2, <2>1 DEF Recovered
  <2>3. PICK d \in Investigators :
          /\ Started(d) /\ calls[c].tool \in tasks[d].used /\ calls[c].inputs = Inputs(d, calls[c].tool)
          /\ \/ Recovered(c) \/ tasks[d].error \/ tasks[d].cut
             \/ tasks[d].pc = "working" /\ tasks[d].tool = calls[c].tool /\ tasks[d].tries = 1
    BY DEF DiagnosisInv, CallOK
  <2>4. CASE d # b
    <3>1. tasks'[d] = tasks[d]
      BY <1>4, <2>4
    <3> QED
      BY <1>3, <2>1, <2>2, <2>3, <3>1 DEF CallOK, Started
  <2>5. CASE d = b
    <3>1. calls[c].tool \in next.used /\ next.pc # "idle"
      BY <1>5, <2>3, <2>5
    <3>2. \/ Recovered(c)' \/ next.error \/ next.cut
          \/ next.pc = "working" /\ next.tool = calls[c].tool /\ next.tries = 1
      <4>1. CASE Recovered(c) \/ task.error \/ task.cut
        BY <1>5, <2>2, <4>1
      <4>2. CASE task.tool = calls[c].tool
        <5>1. calls[c].tool = tool /\ calls[c].inputs = rec.inputs
          BY <1>1, <2>3, <2>5, <4>2
        <5>2. rec.status = "completed" /\ rec.scoped => Recovered(c)'
          BY <1>2, <2>1, <5>1 DEF Recovered
        <5> QED
          BY <1>5, <5>1, <5>2
      <4> QED
        BY <2>3, <2>5, <4>1, <4>2
    <3> QED
      BY <1>3, <1>4, <2>1, <2>3, <2>5, <3>1, <3>2 DEF CallOK, Started
  <2> QED
    BY <2>4, <2>5
<1>7. ASSUME NEW c, c = rec.id PROVE CallOK(c)'
  <2>1. calls'[c] = rec /\ rec.id = c /\ c \in DOMAIN calls' /\ c <= c
    BY <1>2, <1>7
  <2>2. rec.status = "completed" /\ rec.scoped => Recovered(c)'
    BY <2>1 DEF Recovered
  <2>3. tool \in next.used
    BY <1>1, <1>5
  <2>4. \/ Recovered(c)' \/ next.error \/ next.cut
        \/ next.pc = "working" /\ next.tool = tool /\ next.tries = 1
    BY <1>5, <2>2
  <2> QED
    BY <1>1, <1>3, <1>4, <1>5, <2>1, <2>3, <2>4 DEF CallOK, Started
<1>8. ASSUME NEW c \in DOMAIN calls, calls[c].status = "completed", rec.status = "completed",
             calls[c].tool = tool, calls[c].inputs = rec.inputs
      PROVE  FALSE
  <2>1. PICK d \in Investigators : tool \in tasks[d].used /\ Inputs(b, tool) = Inputs(d, tool)
    BY <1>1, <1>8 DEF DiagnosisInv, CallOK
  <2>2. b = Extra \/ d = Extra => tool = Logs
    BY <1>1, <2>1 DEF DiagnosisInv, BranchOK
  <2>3. b = d
    BY <1>1, <2>1, <2>2, InputsApart
  <2>4. Answers(c, b, task.tool)
    BY <1>1, <1>8 DEF Answers
  <2>5. task.attempts >= 3
    BY <1>1, <2>4 DEF DiagnosisInv, BranchOK
  <2>6. task.attempts < LimitOf(b) /\ LimitOf(b) <= 3 /\ LimitOf(b) \in Int /\ task.attempts \in Nat
    <3>1. tasks[target].attempts \in Nat /\ task.attempts \in Nat
      BY <1>1 DEF TaskRecords
    <3>2. TaskLimit \in 0..3
      BY DiagnosisAssumption
    <3> QED
      BY <3>1, <3>2 DEF LimitOf, MayCall
  <2> QED
    BY <2>5, <2>6
<1>9. CompletedOnce'
  BY <1>2, <1>8 DEF DiagnosisInv, CompletedOnce
<1> QED
  BY <1>2, <1>6, <1>7, <1>9

(* While a branch works, the supervisor stays where it is. *)
LEMMA BranchesKeepStage ==
    ASSUME DiagnosisInv, NEW b \in Investigators, tasks[b].pc = "working", NEW next,
           tasks' = [tasks EXCEPT ![b] = next], next.pc \in {"working", "ended"},
           UNCHANGED <<reasons, stage, target, evidence, trace, report, answer>>
    PROVE  StageOK' /\ AnswerIsSupported' /\ MergedOK'
<1>1. /\ stage # "closed" /\ answer' = Unset /\ trace'.merged = Unset
      /\ b \in Planned => stage = "investigating"
      /\ b = Extra => stage = "following"
  BY WorkingStage
<1>2. AnswerIsSupported' /\ MergedOK'
  BY <1>1 DEF AnswerIsSupported, FactsComeFromRecords, CompletedIsWhole, MergedOK
<1>3. tasks'[b] = next /\ \A d \in Investigators \ {b} : tasks'[d] = tasks[d]
  BY DEF DiagnosisInv, DiagnosisTypeOK
<1>4. CASE b \in Planned
  <2>1. stage = "investigating" /\ b # Extra /\ ~ Started(Extra)'
    BY <1>1, <1>3, <1>4, BranchNumbers DEF DiagnosisInv, StageOK, Started
  <2> QED
    BY <1>1, <1>2, <2>1 DEF DiagnosisInv, StageOK
<1>5. CASE b = Extra
  <2>1. stage = "following" /\ Started(Extra)' /\ \A s \in Planned : tasks'[s] = tasks[s]
    BY <1>1, <1>3, <1>5, BranchNumbers DEF Started
  <2>2. MergedBranches = Planned /\ MergedBranches' = Planned
    BY <2>1 DEF MergedBranches
  <2>3. EvidenceOK
    BY <2>1 DEF DiagnosisInv, StageOK
  <2>4. EvidenceOK'
    BY <2>1, <2>2, <2>3 DEF EvidenceOK
  <2>5. Started(Extra)
    BY <1>5 DEF Started
  <2> QED
    BY <1>1, <1>2, <2>1, <2>4, <2>5 DEF DiagnosisInv, StageOK
<1> QED
  BY <1>2, <1>4, <1>5, BranchNumbers

LEMMA CallKeeps ==
    ASSUME DiagnosisInv, NEW b \in Investigators, MayCall(b), NEW rec, NEW next, CallStep(b, rec, next)
    PROVE  DiagnosisInv'
<1>1. DiagnosisTypeOK'
  BY DEF DiagnosisInv, DiagnosisTypeOK, CallStep
<1>2. StageOK' /\ AnswerIsSupported' /\ MergedOK'
  BY BranchesKeepStage DEF CallStep, MayCall
<1> QED
  BY <1>1, <1>2, CallKeepsBranches, CallKeepsSeen, CallKeepsCalls DEF DiagnosisInv

(* A branch that ends, after a last decision or without. *)
EndStep(b, next) ==
    LET task == tasks[b] IN
    /\ next \in TaskRecords /\ tasks' = [tasks EXCEPT ![b] = next]
    /\ UNCHANGED <<reasons, calls, stage, target, evidence, trace, report, answer>>
    /\ task.pc = "working" /\ next.pc = "ended" /\ next.tool = "none"
    /\ next.attempts = task.attempts /\ next.seen = task.seen
    /\ (task.error => next.error) /\ (task.cut => next.cut)
    /\ next.cut \/ task.tool = "none"
    /\ task.used \subseteq next.used /\ (b = Extra => next.used = task.used)
    /\ \A claim \in next.findings :
         claim.by = b /\ claim.cites # {} /\ claim.cites \subseteq Known(b, next)

LEMMA EndKeeps ==
    ASSUME DiagnosisInv, NEW b \in Investigators, NEW next, EndStep(b, next)
    PROVE  DiagnosisInv'
<1> DEFINE task == tasks[b]
<1>1. /\ calls \in Seq(CallRecords) /\ tasks \in [Investigators -> TaskRecords]
      /\ task \in TaskRecords /\ target \in Investigators /\ task.pc = "working"
      /\ calls' = calls
  BY DEF DiagnosisInv, DiagnosisTypeOK, EndStep
<1>2. /\ target' = target /\ (\A d, t : Inputs(d, t)' = Inputs(d, t)) /\ (\A d : Subject(d)' = Subject(d))
  BY DEF EndStep, Inputs, Subject
<1>3. tasks'[b] = next /\ \A d \in Investigators \ {b} : tasks'[d] = tasks[d]
  BY <1>1 DEF EndStep
<1>4. DiagnosisTypeOK'
  BY DEF DiagnosisInv, DiagnosisTypeOK, EndStep
<1>5. StageOK' /\ AnswerIsSupported' /\ MergedOK'
  BY BranchesKeepStage DEF EndStep
<1>6. ASSUME NEW d \in Investigators PROVE BranchOK(d)'
  <2>1. BranchOK(d)
    BY DEF DiagnosisInv
  <2>2. CASE d # b
    <3>1. tasks'[d] = tasks[d]
      BY <1>3, <2>2
    <3> QED
      BY <1>1, <1>2, <2>1, <3>1 DEF BranchOK, Started, Answers
  <2>3. CASE d = b
    <3>1. "none" \notin {Logs, Tickets, Articles}
      BY DEF Logs, Tickets, Articles
    <3>2. /\ next.pc = "ended" /\ next.tool = "none" /\ next.attempts = task.attempts
          /\ next.seen = task.seen /\ task.used \subseteq next.used
          /\ (b = Extra => next.used = task.used)
      BY DEF EndStep
    <3> QED
      BY <1>3, <2>1, <2>3, <3>1, <3>2 DEF BranchOK, Started
  <2> QED
    BY <2>2, <2>3
<1>7. ASSUME NEW d \in Investigators PROVE SeenOfBranchOK(d)'
  <2>1. SeenOfBranchOK(d)
    BY DEF DiagnosisInv
  <2>2. tasks'[d].seen = tasks[d].seen /\ tasks[d].used \subseteq tasks'[d].used
    BY <1>3 DEF EndStep
  <2>3. \A claim \in tasks'[d].findings :
          claim.by = d /\ claim.cites # {} /\ claim.cites \subseteq Known(d, tasks[d])'
    <3>1. target \in Investigators /\ tasks'[target'].seen = tasks[target].seen
      BY <1>1, <1>2, <1>3 DEF EndStep
    <3>2. Known(d, tasks[d])' = Known(d, tasks[d])
      BY <2>2, <3>1 DEF Known
    <3>3. CASE d = b
      <4>1. Known(b, next) = Known(b, task)
        BY DEF EndStep, Known
      <4> QED
        BY <1>3, <3>2, <3>3, <4>1 DEF EndStep
    <3>4. CASE d # b
      BY <1>3, <2>1, <3>2, <3>4 DEF SeenOfBranchOK
    <3> QED
      BY <3>3, <3>4
  <2> QED
    BY <1>1, <1>2, <2>1, <2>2, <2>3 DEF SeenOfBranchOK, Answers
<1>8. ASSUME NEW c \in DOMAIN calls PROVE CallOK(c)'
  <2>1. calls[c].id = c /\ calls[c].tool # "none"
    <3>1. calls[c] \in CallRecords
      BY <1>1
    <3> QED
      BY <3>1 DEF DiagnosisInv, CallOK, CallRecords, Lookups, Logs, Tickets, Articles
  <2>2. PICK d \in Investigators :
          /\ Started(d) /\ calls[c].tool \in tasks[d].used /\ calls[c].inputs = Inputs(d, calls[c].tool)
          /\ \/ Recovered(c) \/ tasks[d].error \/ tasks[d].cut
             \/ tasks[d].pc = "working" /\ tasks[d].tool = calls[c].tool /\ tasks[d].tries = 1
    BY DEF DiagnosisInv, CallOK
  <2>3. Recovered(c)' <=> Recovered(c)
    BY <1>1 DEF Recovered
  <2>4. CASE d # b
    BY <1>1, <1>2, <1>3, <2>1, <2>2, <2>3, <2>4 DEF CallOK, Started
  <2>5. CASE d = b
    BY <1>1, <1>2, <1>3, <2>1, <2>2, <2>3, <2>5 DEF CallOK, Started, EndStep
  <2> QED
    BY <2>4, <2>5
<1>9. CompletedOnce'
  BY <1>1 DEF DiagnosisInv, CompletedOnce
<1> QED
  BY <1>1, <1>4, <1>5, <1>6, <1>7, <1>8, <1>9 DEF DiagnosisInv

-----------------------------------------------------------------------------
(* The steps of the branches *)

LEMMA BranchTypes ==
    ASSUME DiagnosisInv, NEW b \in Investigators, tasks[b].pc = "working"
    PROVE  /\ tasks[b] \in TaskRecords /\ target \in Investigators /\ CallLimit \in Nat
           /\ Len(calls) \in Nat /\ LimitOf(b) \in Int /\ tasks \in [Investigators -> TaskRecords]
           /\ Subject(b) \in Investigators
           /\ \A task \in TaskRecords : Known(b, task) \subseteq EvidenceIds
<1>1. /\ calls \in Seq(CallRecords) /\ tasks \in [Investigators -> TaskRecords]
      /\ target \in Investigators /\ tasks[b] \in TaskRecords /\ tasks[target] \in TaskRecords
  BY DEF DiagnosisInv, DiagnosisTypeOK
<1>2. LimitOf(b) \in Int
  <2>1. tasks[target].attempts \in Nat
    BY <1>1 DEF TaskRecords
  <2> QED
    BY <2>1, DiagnosisAssumption DEF LimitOf
<1>3. \A task \in TaskRecords : IdsOf(task.seen) \subseteq EvidenceIds
  <2> SUFFICES ASSUME NEW task \in TaskRecords, NEW k \in DOMAIN task.seen
               PROVE  task.seen[k].id \in EvidenceIds
    BY DEF IdsOf
  <2>1. task.seen[k] \in Observations
    BY DEF TaskRecords
  <2> QED
    BY <2>1 DEF Observations
<1>4. \A task \in TaskRecords : Known(b, task) \subseteq EvidenceIds
  BY <1>1, <1>3 DEF Known
<1> QED
  BY <1>1, <1>2, <1>4, DiagnosisAssumption DEF Subject

(* A decision that keeps the findings, or makes new ones of what is known. *)
LEMMA FindingsCite ==
    ASSUME DiagnosisInv, NEW b \in Investigators, NEW task, NEW next,
           next.seen = task.seen, IdsOf(tasks[b].seen) \subseteq IdsOf(task.seen),
           next.findings = tasks[b].findings \/ next.findings \in Proposals(b, task)
    PROVE  \A claim \in next.findings :
             claim.by = b /\ claim.cites # {} /\ claim.cites \subseteq Known(b, next)
<1>1. Known(b, next) = Known(b, task)
  BY DEF Known
<1>2. Known(b, tasks[b]) \subseteq Known(b, task)
  BY DEF Known
<1>3. CASE next.findings = tasks[b].findings
  BY <1>1, <1>2, <1>3 DEF DiagnosisInv, SeenOfBranchOK
<1>4. CASE next.findings \in Proposals(b, task)
  <2>1. CASE next.findings = {}
    BY <2>1
  <2>2. CASE next.findings # {}
    <3>1. PICK k \in {"fact", "hypothesis"}, c \in {Known(b, task)} \cup {{id} : id \in Known(b, task)} :
            c # {} /\ next.findings = {[by |-> b, kind |-> k, cites |-> c]}
      BY <1>4, <2>2 DEF Proposals
    <3>2. c \subseteq Known(b, task)
      OBVIOUS
    <3> QED
      BY <1>1, <3>1, <3>2
  <2> QED
    BY <2>1, <2>2
<1> QED
  BY <1>3, <1>4

LEMMA CalledTask ==
    ASSUME NEW b, tasks[b] \in TaskRecords
    PROVE  /\ Called(b) \in TaskRecords /\ Called(b).attempts = tasks[b].attempts + 1
           /\ Called(b).tries = tasks[b].tries + 1 /\ Called(b).pc = tasks[b].pc
           /\ Called(b).seen = tasks[b].seen /\ Called(b).cut = tasks[b].cut
           /\ Called(b).tool = tasks[b].tool /\ Called(b).used = tasks[b].used
           /\ Called(b).error = tasks[b].error /\ Called(b).gap = tasks[b].gap
           /\ Called(b).findings = tasks[b].findings
<1>1. tasks[b].attempts + 1 \in Nat /\ tasks[b].tries + 1 \in Nat
  BY DEF TaskRecords
<1> QED
  BY <1>1 DEF Called, TaskRecords

(* What a call is logged as. *)
LEMMA CallLogged ==
    ASSUME DiagnosisInv, NEW b \in Investigators, MayCall(b),
           NEW status \in {"completed", "failed"}, NEW empty \in BOOLEAN, NEW scoped \in BOOLEAN,
           Log(b, status, empty, scoped)
    PROVE  \E rec \in CallRecords :
             /\ calls' = Append(calls, rec) /\ rec.id = Len(calls) + 1 /\ rec.tool = tasks[b].tool
             /\ rec.inputs = Inputs(b, tasks[b].tool) /\ rec.status = status /\ rec.scoped = scoped
<1>1. tasks[b].pc = "working" /\ tasks[b].tool # "none"
  BY DEF MayCall
<1>2. tasks[b] \in TaskRecords /\ target \in Investigators /\ Len(calls) \in Nat
  BY <1>1, BranchTypes
<1>3. tasks[b].tool \in Lookups
  BY <1>1, <1>2 DEF TaskRecords
<1>4. Inputs(b, tasks[b].tool) \in Scopes
  BY <1>2, <1>3, ScopesOfBranches
<1> DEFINE rec == [id |-> Len(calls) + 1, tool |-> tasks[b].tool, inputs |-> Inputs(b, tasks[b].tool),
                   status |-> status, empty |-> empty, scoped |-> scoped]
<1>5. rec \in CallRecords
  BY <1>2, <1>3, <1>4 DEF CallRecords
<1> QED
  BY <1>5 DEF Log

(* A call that brings nothing: it failed, or its records are foreign. *)
LEMMA ErrorKeeps ==
    ASSUME DiagnosisInv, NEW b \in Investigators, MayCall(b),
           NEW status \in {"completed", "failed"}, NEW scoped \in BOOLEAN,
           Log(b, status, FALSE, scoped), After(b, [Called(b) EXCEPT !.error = TRUE], TRUE),
           UNCHANGED <<reasons, stage, target, evidence, trace, report, answer>>
    PROVE  DiagnosisInv'
<1> DEFINE task == tasks[b]
           done == [Called(b) EXCEPT !.error = TRUE]
<1>1. task.pc = "working"
  BY DEF MayCall
<1>2. /\ task \in TaskRecords /\ target \in Investigators /\ CallLimit \in Nat
      /\ Len(calls) \in Nat /\ LimitOf(b) \in Int /\ tasks \in [Investigators -> TaskRecords]
      /\ \A t \in TaskRecords : Known(b, t) \subseteq EvidenceIds
  BY <1>1, BranchTypes
<1>3. /\ done \in TaskRecords /\ done.error /\ done.attempts = task.attempts + 1 /\ done.pc = task.pc
      /\ done.seen = task.seen /\ done.cut = task.cut /\ done.tool = task.tool
      /\ done.used = task.used /\ done.findings = task.findings
  BY <1>2, CalledTask DEF TaskRecords
<1> HIDE DEF done
<1>4. PICK next \in Moves(b, done, TRUE, Len(calls) + 1) : tasks' = [tasks EXCEPT ![b] = next]
  BY DEF After, done
<1>5. /\ next \in TaskRecords
      /\ next.pc = task.pc /\ next.attempts = task.attempts + 1
      /\ next.seen = task.seen /\ next.cut = task.cut /\ next.error
      /\ GoesOn(b, next) /\ next.seen = done.seen
      /\ next.findings = task.findings \/ next.findings \in Proposals(b, done)
  <2>1. Len(calls) + 1 \in Nat /\ Known(b, done) \subseteq EvidenceIds
    BY <1>2, <1>3
  <2>2. PICK dry \in BOOLEAN : dry = TRUE
    OBVIOUS
  <2>3. next \in Moves(b, done, dry, Len(calls) + 1)
    BY <2>2
  <2> QED
    BY <1>2, <1>3, <2>1, <2>3, MovesOn DEF GoesOn
<1>6. \A claim \in next.findings :
        claim.by = b /\ claim.cites # {} /\ claim.cites \subseteq Known(b, next)
  BY <1>3, <1>5, FindingsCite
<1>7. PICK rec \in CallRecords :
             /\ calls' = Append(calls, rec) /\ rec.id = Len(calls) + 1 /\ rec.tool = tasks[b].tool
             /\ rec.inputs = Inputs(b, tasks[b].tool) /\ rec.status = status /\ rec.scoped = scoped
  BY FALSE \in BOOLEAN, CallLogged
<1>8. CallStep(b, rec, next)
  BY <1>1, <1>4, <1>5, <1>6, <1>7 DEF CallStep
<1> QED
  BY <1>8, CallKeeps

LEMMA AnsweredKeeps ==
    ASSUME DiagnosisInv, NEW b \in Investigators, Answered(b)
    PROVE  DiagnosisInv'
<1> DEFINE task == tasks[b]
<1>1. PICK empty \in BOOLEAN :
        /\ Log(b, "completed", empty, TRUE)
        /\ After(b, [Called(b) EXCEPT !.seen = Append(@, Observation(b, empty)),
                                      !.gap = @ \/ (empty /\ b # Extra /\ tasks[b].tool = Logs)],
                 empty)
  BY DEF Answered
<1> DEFINE o == Observation(b, empty)
           gap == Called(b).gap \/ (empty /\ b # Extra /\ tasks[b].tool = Logs)
           done == [Called(b) EXCEPT !.seen = Append(Called(b).seen, o), !.gap = gap]
<1>2. MayCall(b) /\ task.pc = "working" /\ task.tool # "none"
      /\ UNCHANGED <<reasons, stage, target, evidence, trace, report, answer>>
  BY DEF Answered, MayCall
<1>3. /\ task \in TaskRecords /\ target \in Investigators /\ CallLimit \in Nat
      /\ Len(calls) \in Nat /\ LimitOf(b) \in Int /\ tasks \in [Investigators -> TaskRecords]
      /\ Subject(b) \in Investigators
      /\ \A t \in TaskRecords : Known(b, t) \subseteq EvidenceIds
  BY <1>2, BranchTypes
<1>4. o \in Observations
  <2>1. task.tool \in Lookups /\ task.tries \in Nat
    BY <1>2, <1>3 DEF TaskRecords
  <2>2. Inputs(b, task.tool) \in Scopes
    BY <1>3, <2>1, ScopesOfBranches
  <2>3. [task |-> b, tool |-> task.tool, attempt |-> task.tries + 1] \in EvidenceIds
    BY <2>1 DEF EvidenceIds
  <2> QED
    BY <1>3, <2>1, <2>2, <2>3 DEF Observation, Observations
<1> HIDE DEF o
<1>5. /\ done \in TaskRecords /\ (task.error => done.error)
      /\ done.attempts = task.attempts + 1 /\ done.pc = task.pc
      /\ done.seen = Append(task.seen, o) /\ done.cut = task.cut /\ done.tool = task.tool
      /\ done.used = task.used /\ done.findings = task.findings
  <2>1. Called(b) \in TaskRecords /\ task.seen \in Seq(Observations)
    BY <1>3, CalledTask DEF TaskRecords
  <2>4. gap \in BOOLEAN
    OBVIOUS
  <2>2. gap \in BOOLEAN /\ Append(task.seen, o) \in Seq(Observations) /\ Called(b).seen = task.seen
    BY <1>3, <1>4, <2>1, <2>4, CalledTask
  <2> HIDE DEF gap
  <2>3. /\ done \in TaskRecords /\ done.error = Called(b).error
        /\ done.attempts = Called(b).attempts /\ done.pc = Called(b).pc
        /\ done.seen = Append(task.seen, o) /\ done.cut = Called(b).cut /\ done.tool = Called(b).tool
        /\ done.used = Called(b).used /\ done.findings = Called(b).findings
    BY <2>1, <2>2 DEF TaskRecords
  <2> HIDE DEF done
  <2> QED
    BY <1>3, <2>3, CalledTask
<1>6. PICK next \in Moves(b, done, empty, Len(calls) + 1) : tasks' = [tasks EXCEPT ![b] = next]
  BY <1>1 DEF After, o
<1> HIDE DEF done
<1>7. /\ next \in TaskRecords
      /\ next.pc = task.pc /\ next.attempts = task.attempts + 1
      /\ next.seen = Append(task.seen, o) /\ next.cut = task.cut /\ (task.error => next.error)
      /\ GoesOn(b, next) /\ next.seen = done.seen
      /\ next.findings = task.findings \/ next.findings \in Proposals(b, done)
  <2>1. Len(calls) + 1 \in Nat /\ Known(b, done) \subseteq EvidenceIds
    BY <1>3, <1>5
  <2> QED
    BY <1>3, <1>5, <2>1, MovesOn DEF GoesOn
<1>8. IdsOf(task.seen) \subseteq IdsOf(done.seen)
  <2>1. task.seen \in Seq(Observations)
    BY <1>3 DEF TaskRecords
  <2>2. \A k \in DOMAIN task.seen : k \in DOMAIN done.seen /\ done.seen[k] = task.seen[k]
    BY <1>4, <1>5, <2>1
  <2> QED
    BY <2>2 DEF IdsOf
<1>9. \A claim \in next.findings :
        claim.by = b /\ claim.cites # {} /\ claim.cites \subseteq Known(b, next)
  BY <1>7, <1>8, FindingsCite
<1>10. PICK rec \in CallRecords :
             /\ calls' = Append(calls, rec) /\ rec.id = Len(calls) + 1 /\ rec.tool = tasks[b].tool
             /\ rec.inputs = Inputs(b, tasks[b].tool) /\ rec.status = "completed" /\ rec.scoped = TRUE
  BY <1>1, <1>2, CallLogged
<1>11. CallStep(b, rec, next)
  BY <1>2, <1>6, <1>7, <1>9, <1>10 DEF CallStep, o
<1> QED
  BY <1>2, <1>11, CallKeeps

LEMMA NotConnectedKeeps ==
    ASSUME DiagnosisInv, NEW b \in Investigators, NotConnected(b)
    PROVE  DiagnosisInv'
<1> DEFINE task == tasks[b]
           next == Called(b)
<1>1. /\ MayCall(b) /\ task.pc = "working" /\ task.tries = 0 /\ Log(b, "failed", FALSE, TRUE)
      /\ tasks' = [tasks EXCEPT ![b] = next]
      /\ UNCHANGED <<reasons, stage, target, evidence, trace, report, answer>>
  BY DEF NotConnected, MayCall
<1>2. task \in TaskRecords
  BY <1>1, BranchTypes
<1>3. PICK rec \in CallRecords :
             /\ calls' = Append(calls, rec) /\ rec.id = Len(calls) + 1 /\ rec.tool = tasks[b].tool
             /\ rec.inputs = Inputs(b, tasks[b].tool) /\ rec.status = "failed" /\ rec.scoped = TRUE
  BY <1>1, CallLogged
<1>4. /\ next \in TaskRecords /\ next.attempts = task.attempts + 1 /\ next.tries = 1 /\ next.pc = "working"
      /\ next.seen = task.seen /\ next.cut = task.cut /\ next.tool = task.tool /\ next.used = task.used
      /\ next.error = task.error /\ next.findings = task.findings
  BY <1>1, <1>2, CalledTask
<1> HIDE DEF next
<1>5. \A claim \in next.findings :
        claim.by = b /\ claim.cites # {} /\ claim.cites \subseteq Known(b, next)
  BY <1>4, FindingsCite
<1>6. CallStep(b, rec, next)
  BY <1>1, <1>3, <1>4, <1>5 DEF CallStep
<1> QED
  BY <1>1, <1>6, CallKeeps

LEMMA GiveUpKeeps ==
    ASSUME DiagnosisInv, NEW b \in Investigators, GiveUp(b)
    PROVE  DiagnosisInv'
<1> DEFINE task == tasks[b]
<1>1. PICK last \in {task} \cup Moves(b, task, TRUE, Len(calls)) :
        tasks' = [tasks EXCEPT ![b] = [last EXCEPT !.pc = "ended", !.tool = "none", !.cut = TRUE]]
  BY DEF GiveUp
<1>2. task.pc = "working" /\ UNCHANGED <<reasons, calls, stage, target, evidence, trace, report, answer>>
  BY DEF GiveUp
<1>3. /\ task \in TaskRecords /\ target \in Investigators /\ CallLimit \in Nat
      /\ Len(calls) \in Nat /\ LimitOf(b) \in Int /\ tasks \in [Investigators -> TaskRecords]
      /\ \A t \in TaskRecords : Known(b, t) \subseteq EvidenceIds
  BY <1>2, BranchTypes
<1>4. /\ last \in TaskRecords /\ last.attempts = task.attempts /\ last.seen = task.seen
      /\ (task.error => last.error) /\ task.used \subseteq last.used
      /\ (b = Extra => last.used = task.used)
      /\ last.findings = task.findings \/ last.findings \in Proposals(b, task)
  <2>1. CASE last = task
    BY <1>3, <2>1
  <2>2. CASE last \in Moves(b, task, TRUE, Len(calls))
    <3>1. Known(b, task) \subseteq EvidenceIds
      BY <1>3
    <3>2. PICK dry \in BOOLEAN : dry = TRUE
      OBVIOUS
    <3>3. last \in Moves(b, task, dry, Len(calls))
      BY <2>2, <3>2
    <3>4. /\ last \in TaskRecords /\ last.attempts = task.attempts /\ last.seen = task.seen
          /\ (task.error => last.error) /\ last.used = task.used \cup ({last.tool} \ {"none"})
          /\ (b = Extra => last.tool = "none")
          /\ last.findings = task.findings \/ last.findings \in Proposals(b, task)
      BY <1>3, <3>1, <3>3, MovesOn
    <3>5. b = Extra => last.used = task.used
      BY <3>4
    <3> QED
      BY <3>4, <3>5
  <2> QED
    BY <2>1, <2>2
<1> DEFINE next == [last EXCEPT !.pc = "ended", !.tool = "none", !.cut = TRUE]
<1>5. /\ next \in TaskRecords /\ next.attempts = last.attempts /\ next.seen = last.seen
      /\ next.pc = "ended" /\ next.tool = "none" /\ next.cut /\ next.error = last.error
      /\ next.used = last.used /\ next.findings = last.findings
  BY <1>4 DEF TaskRecords
<1> HIDE DEF next
<1>6. \A claim \in next.findings :
        claim.by = b /\ claim.cites # {} /\ claim.cites \subseteq Known(b, next)
  <2>1. /\ next.seen = tasks[b].seen
        /\ next.findings = tasks[b].findings \/ next.findings \in Proposals(b, tasks[b])
    BY <1>4, <1>5
  <2> QED
    BY <2>1, FindingsCite
<1>7. tasks' = [tasks EXCEPT ![b] = next]
  BY <1>1 DEF next
<1>8. EndStep(b, next)
  BY <1>2, <1>4, <1>5, <1>6, <1>7 DEF EndStep
<1> QED
  BY <1>8, EndKeeps

LEMMA EndTaskKeeps ==
    ASSUME DiagnosisInv, NEW b \in Investigators, EndTask(b)
    PROVE  DiagnosisInv'
<1> DEFINE task == tasks[b]
           next == [task EXCEPT !.pc = "ended"]
<1>1. /\ task.pc = "working" /\ task.tool = "none"
      /\ UNCHANGED <<reasons, calls, stage, target, evidence, trace, report, answer>>
  BY DEF EndTask
<1>2. task \in TaskRecords /\ tasks \in [Investigators -> TaskRecords]
  BY <1>1, BranchTypes
<1>3. tasks' = [tasks EXCEPT ![b] = next]
  BY <1>2 DEF EndTask
<1>4. /\ next \in TaskRecords /\ next.attempts = task.attempts /\ next.seen = task.seen
      /\ next.pc = "ended" /\ next.tool = "none" /\ next.cut = task.cut /\ next.error = task.error
      /\ next.used = task.used /\ next.findings = task.findings
  BY <1>1, <1>2 DEF TaskRecords
<1> HIDE DEF next
<1>5. \A claim \in next.findings :
        claim.by = b /\ claim.cites # {} /\ claim.cites \subseteq Known(b, next)
  BY <1>4, FindingsCite
<1>6. EndStep(b, next)
  BY <1>1, <1>3, <1>4, <1>5 DEF EndStep
<1> QED
  BY <1>6, EndKeeps

-----------------------------------------------------------------------------
(* The steps of the supervisor *)

(* What was seen under one id, or of one lookup, is the same observation. *)
LEMMA SeenApart ==
    ASSUME DiagnosisInv, NEW b \in Investigators, NEW d \in Investigators,
           NEW k \in DOMAIN tasks[b].seen, NEW l \in DOMAIN tasks[d].seen,
           \/ tasks[b].seen[k].id = tasks[d].seen[l].id
           \/ /\ tasks[b].seen[k].tool = tasks[d].seen[l].tool
              /\ tasks[b].seen[k].inputs = tasks[d].seen[l].inputs
    PROVE  b = d /\ k = l
<1> DEFINE o == tasks[b].seen[k]
           p == tasks[d].seen[l]
<1>1. /\ o.id.task = b /\ o.id.tool = o.tool /\ o.tool \in tasks[b].used
      /\ o.output \in DOMAIN calls /\ o.inputs = Inputs(b, o.tool) /\ Answers(o.output, b, o.tool)
  BY DEF DiagnosisInv, SeenOfBranchOK
<1>2. /\ p.id.task = d /\ p.id.tool = p.tool /\ p.tool \in tasks[d].used
      /\ p.output \in DOMAIN calls /\ p.inputs = Inputs(d, p.tool) /\ Answers(p.output, d, p.tool)
  BY DEF DiagnosisInv, SeenOfBranchOK
<1> HIDE DEF o, p
<1>3. o.tool \in Lookups
  BY <1>1 DEF DiagnosisInv, DiagnosisTypeOK, TaskRecords
<1>4. b = d /\ o.tool = p.tool
  <2>1. CASE o.id = p.id
    BY <1>1, <1>2, <2>1
  <2>2. CASE o.tool = p.tool /\ o.inputs = p.inputs
    <3>1. Inputs(b, o.tool) = Inputs(d, o.tool)
      BY <1>1, <1>2, <2>2
    <3>2. b = Extra \/ d = Extra => o.tool = Logs
      BY <1>1, <1>2, <2>2 DEF DiagnosisInv, BranchOK
    <3> QED
      BY <1>3, <2>2, <3>1, <3>2, InputsApart
  <2> QED
    BY <2>1, <2>2 DEF o, p
<1>5. o.output = p.output
  BY <1>1, <1>2, <1>4 DEF Answers, DiagnosisInv, CompletedOnce
<1> QED
  BY <1>4, <1>5 DEF o, p, DiagnosisInv, SeenOfBranchOK

(* Every place of the merged evidence is that of one observation. *)
LEMMA PlacesAreFilled ==
    /\ Cardinality(Found) \in Nat
    /\ \A p \in Found : Place(p) \in 1..Cardinality(Found)
    /\ \A n \in 1..Cardinality(Found) : \E p \in Found : Place(p) = n
    /\ \A p, q \in Found : Place(p) = Place(q) => p = q
<1> DEFINE C == Cardinality(Found)
           Below(p) == {q \in Found : Before(q, p)}
<1>1. IsFiniteSet(Found) /\ C \in Nat
  <2>1. IsFiniteSet(Planned) /\ IsFiniteSet(1..TaskLimit)
    BY DiagnosisAssumption, FS_Interval DEF Planned
  <2>2. IsFiniteSet(Planned \X (1..TaskLimit))
    BY <2>1, FS_Product
  <2>3. Found \in SUBSET (Planned \X (1..TaskLimit))
    BY DEF Found
  <2>4. IsFiniteSet(Found)
    BY <2>2, <2>3, FS_Subset
  <2> QED
    BY <2>4, FS_CardinalityType
<1>2. \A p \in Found : p[1] \in Int /\ p[2] \in Int /\ p = <<p[1], p[2]>>
  BY DiagnosisAssumption DEF Found, Planned
<1>3. ASSUME NEW p \in Found
      PROVE  IsFiniteSet(Below(p)) /\ Cardinality(Below(p)) \in 0..(C - 1)
  <2>1. Below(p) \in SUBSET Found /\ p \notin Below(p)
    BY <1>2 DEF Before
  <2>2. /\ IsFiniteSet(Below(p)) /\ Cardinality(Below(p)) <= C
        /\ (C = Cardinality(Below(p)) => Found = Below(p))
    BY <1>1, <2>1, FS_Subset
  <2>3. Cardinality(Below(p)) \in Nat
    BY <2>2, FS_CardinalityType
  <2>4. C # Cardinality(Below(p))
    BY <2>1, <2>2
  <2> HIDE DEF Below, C
  <2> QED
    BY <1>1, <2>2, <2>3, <2>4
<1>4. ASSUME NEW p \in Found, NEW q \in Found, Before(p, q)
      PROVE  Cardinality(Below(p)) < Cardinality(Below(q))
  <2>1. p \in Below(q) /\ p \notin Below(p)
    BY <1>2, <1>4 DEF Before
  <2>2. \A r \in Found : Before(r, p) => Before(r, q)
    BY <1>2, <1>4 DEF Before
  <2>3. Below(p) \in SUBSET Below(q) /\ Below(p) # Below(q)
    BY <2>1, <2>2
  <2>4. IsFiniteSet(Below(q)) /\ Cardinality(Below(p)) \in Int /\ Cardinality(Below(q)) \in Int
    <3> HIDE DEF Below, C
    <3>1. \A m \in 0..(C - 1) : m \in Int
      OBVIOUS
    <3> QED
      BY <1>3, <3>1
  <2>5. /\ Cardinality(Below(p)) <= Cardinality(Below(q))
        /\ (Cardinality(Below(q)) = Cardinality(Below(p)) => Below(q) = Below(p))
    BY <2>3, <2>4, FS_Subset
  <2> HIDE DEF Below
  <2> QED
    BY <2>3, <2>4, <2>5
<1>5. \A p \in Found : Place(p) = Cardinality(Below(p)) + 1
  BY DEF Place
<1> HIDE DEF Below, C
<1>6. \A p \in Found : Place(p) \in 1..C
  BY <1>1, <1>3, <1>5
<1>7. ASSUME NEW p \in Found, NEW q \in Found, p # q PROVE Place(p) # Place(q)
  <2>1. Before(p, q) \/ Before(q, p)
    <3>1. p[1] # q[1] \/ p[2] # q[2]
      BY <1>2, <1>7
    <3> QED
      BY <1>2, <3>1 DEF Before
  <2>2. \A m \in 0..(C - 1) : m \in Int
    BY <1>1
  <2>3. Cardinality(Below(p)) \in Int /\ Cardinality(Below(q)) \in Int
    BY <1>3, <2>2
  <2>4. Cardinality(Below(p)) # Cardinality(Below(q))
    BY <1>4, <2>1, <2>3
  <2> QED
    BY <1>5, <2>3, <2>4
<1> DEFINE f == [p \in Found |-> Place(p)]
<1>8. f \in Injection(Found, 1..C)
  BY <1>6, <1>7 DEF Injection, IsInjective
<1>9. IsFiniteSet(1..C) /\ Cardinality(1..C) = C
  BY <1>1, FS_Interval
<1>10. f \in Surjection(Found, 1..C)
  <2>1. Cardinality(Found) = Cardinality(1..C)
    BY <1>9 DEF C
  <2> HIDE DEF f
  <2> QED
    BY <1>8, <1>9, <2>1, FS_Injection
<1>11. \A n \in 1..C : \E p \in Found : Place(p) = n
  BY <1>10 DEF Surjection
<1> QED
  BY <1>1, <1>6, <1>7, <1>11 DEF C

(* Nothing of the branches and their calls is touched. *)
LEMMA BranchesStay ==
    ASSUME DiagnosisInv, UNCHANGED <<calls, tasks, target>>
    PROVE  /\ \A b \in Investigators : BranchOK(b)' /\ SeenOfBranchOK(b)'
           /\ \A c \in DOMAIN calls' : CallOK(c)'
           /\ CompletedOnce'
<1>1. \A b \in Investigators : BranchOK(b)'
  BY DEF DiagnosisInv, BranchOK, Answers, Inputs, Subject, Started, NewTask
<1>2. \A b \in Investigators : SeenOfBranchOK(b)'
  BY DEF DiagnosisInv, SeenOfBranchOK, Answers, Inputs, Subject, Known, IdsOf
<1>3. ASSUME NEW c \in DOMAIN calls' PROVE CallOK(c)'
  <2>1. CallOK(c)
    BY DEF DiagnosisInv
  <2>2. Recovered(c)' = Recovered(c)
    BY DEF Recovered
  <2>3. \A b \in Investigators : /\ Inputs(b, calls[c].tool)' = Inputs(b, calls[c].tool)
                                 /\ Started(b)' = Started(b)
    BY DEF Inputs, Subject, Started
  <2> QED
    BY <2>1, <2>2, <2>3 DEF CallOK
<1>4. CompletedOnce'
  BY DEF DiagnosisInv, CompletedOnce
<1> QED
  BY <1>1, <1>2, <1>3, <1>4

LEMMA DiagnosisBegins == DiagnosisInit => DiagnosisInv
<1> SUFFICES ASSUME DiagnosisInit PROVE DiagnosisInv
  OBVIOUS
<1>1. /\ calls = <<>> /\ evidence = <<>> /\ stage = "investigating" /\ target = Extra
      /\ trace = [events |-> {}, merged |-> Unset] /\ answer = Unset
      /\ tasks = [b \in Investigators |-> NewTask(IF b = Extra THEN "idle" ELSE "working")]
  BY DEF DiagnosisInit
<1>2. /\ NewTask("idle") \in TaskRecords /\ NewTask("working") \in TaskRecords
      /\ \A pc : LET n == NewTask(pc) IN
           /\ n.pc = pc /\ n.tool = Logs /\ n.tries = 0 /\ n.attempts = 0 /\ n.used = {Logs}
           /\ n.seen = <<>> /\ n.findings = {}
  BY DEF NewTask, TaskRecords, Lookups
<1>3. DiagnosisTypeOK
  BY <1>1, <1>2, BranchNumbers DEF DiagnosisTypeOK, Stages
<1>4. ASSUME NEW b \in Investigators
      PROVE  tasks[b] = NewTask(IF b = Extra THEN "idle" ELSE "working")
  BY <1>1
<1>5. ASSUME NEW b \in Investigators PROVE BranchOK(b)
  <2>1. tasks[b].used = {Logs} /\ tasks[b].tool = Logs /\ tasks[b].attempts = 0 /\ tasks[b].seen = <<>>
        /\ (tasks[b].pc = "idle" <=> b = Extra)
    BY <1>2, <1>4
  <2>2. Len(tasks[b].seen) = 0 /\ 0 <= TaskLimit
    BY <2>1, DiagnosisAssumption
  <2>3. DOMAIN calls = {} /\ Logs \notin {Tickets, Articles}
    BY <1>1 DEF Logs, Tickets, Articles
  <2> QED
    BY <1>4, <2>1, <2>2, <2>3, BranchNumbers DEF BranchOK, Started
<1>6. ASSUME NEW b \in Investigators PROVE SeenOfBranchOK(b)
  <2>1. tasks[b].seen = <<>> /\ tasks[b].findings = {}
    BY <1>2, <1>4
  <2>2. DOMAIN tasks[b].seen = {}
    BY <2>1
  <2> QED
    BY <2>1, <2>2 DEF SeenOfBranchOK
<1>7. \A c \in DOMAIN calls : CallOK(c)
  BY <1>1
<1>8. CompletedOnce
  BY <1>1 DEF CompletedOnce
<1>9. StageOK
  <2>1. ~Started(Extra)
    BY <1>2, <1>4, BranchNumbers DEF Started
  <2> QED
    BY <1>1, <2>1 DEF StageOK
<1>10. AnswerIsSupported /\ MergedOK
  BY <1>1 DEF AnswerIsSupported, FactsComeFromRecords, CompletedIsWhole, MergedOK
<1> QED
  BY <1>3, <1>5, <1>6, <1>7, <1>8, <1>9, <1>10 DEF DiagnosisInv

LEMMA TraceShape ==
    ASSUME DiagnosisInv
    PROVE  \A new : /\ [trace EXCEPT !.events = new] = [events |-> new, merged |-> trace.merged]
                    /\ [trace EXCEPT !.merged = new] = [events |-> trace.events, merged |-> new]
<1> TAKE new
<1>1. trace = [events |-> trace.events, merged |-> trace.merged]
  BY DEF DiagnosisInv, DiagnosisTypeOK
<1> QED
  BY <1>1

LEMMA MergeExtraKeeps ==
    ASSUME DiagnosisInv, MergeExtra
    PROVE  DiagnosisInv'
<1> DEFINE more == tasks[Extra].seen
<1>1. /\ stage = "following" /\ tasks[Extra].pc = "ended" /\ stage' = "reviewing"
      /\ evidence' = evidence \o more
      /\ trace' = [trace EXCEPT !.events = trace.events \cup EventsOf(more)]
      /\ UNCHANGED <<reasons, calls, tasks, target, report, answer>>
  BY DEF MergeExtra
<1>2. /\ tasks \in [Investigators -> TaskRecords] /\ evidence \in Seq(Observations)
      /\ Extra \in Investigators /\ EvidenceOK /\ answer = Unset /\ trace.merged = Unset
      /\ Started(Extra) /\ target \in Planned
  BY <1>1, BranchNumbers DEF DiagnosisInv, DiagnosisTypeOK, StageOK
<1>3. more \in Seq(Observations) /\ Len(more) \in Nat /\ Len(evidence) \in Nat
  <2>1. more \in Seq(Observations)
    BY <1>2 DEF TaskRecords
  <2> QED
    BY <1>2, <2>1
<1> DEFINE N == Len(evidence)
<1>4. /\ evidence' \in Seq(Observations) /\ Len(evidence') = N + Len(more)
      /\ \A n \in 1..N : evidence'[n] = evidence[n]
      /\ \A k \in DOMAIN more : N + k \in DOMAIN evidence' /\ evidence'[N + k] = more[k]
      /\ \A n \in DOMAIN evidence' : n \in 1..N \/ (n - N \in DOMAIN more /\ n = N + (n - N))
  <2>1. evidence \o more \in Seq(Observations) /\ Len(evidence \o more) = N + Len(more)
    BY <1>2, <1>3
  <2>2. \A n \in 1..(N + Len(more)) :
          (evidence \o more)[n] = IF n <= N THEN evidence[n] ELSE more[n - N]
    BY <1>2, <1>3
  <2> QED
    BY <1>1, <1>2, <1>3, <2>1, <2>2
<1>5. MergedBranches = Planned /\ MergedBranches' = Planned \cup {Extra}
  BY <1>1, <1>2 DEF MergedBranches, Started
<1>6. ASSUME NEW n \in DOMAIN evidence'
      PROVE  \/ n \in DOMAIN evidence /\ evidence'[n] = evidence[n]
             \/ \E k \in DOMAIN more : n = N + k /\ evidence'[n] = more[k]
  BY <1>2, <1>4
<1>7. DOMAIN evidence = 1..N /\ DOMAIN evidence \subseteq DOMAIN evidence'
  BY <1>2, <1>3, <1>4
<1> HIDE DEF more, N
<1>8. EvidenceOK'
  <2>1. ASSUME NEW n \in DOMAIN evidence'
        PROVE  \E b \in Planned \cup {Extra} : \E k \in DOMAIN tasks[b].seen : evidence'[n] = tasks[b].seen[k]
    <3>1. CASE n \in DOMAIN evidence /\ evidence'[n] = evidence[n]
      BY <1>2, <1>5, <3>1 DEF EvidenceOK
    <3>2. CASE \E k \in DOMAIN more : evidence'[n] = more[k]
      BY <3>2 DEF more
    <3> QED
      BY <1>6, <3>1, <3>2
  <2>2. ASSUME NEW b \in Planned \cup {Extra}, NEW k \in DOMAIN tasks[b].seen
        PROVE  \E n \in DOMAIN evidence' : evidence'[n] = tasks[b].seen[k]
    <3>1. CASE b \in Planned
      <4>1. PICK n \in DOMAIN evidence : evidence[n] = tasks[b].seen[k]
        BY <1>2, <1>5, <3>1 DEF EvidenceOK
      <4> QED
        BY <1>4, <1>7, <4>1
    <3>2. CASE b = Extra
      BY <1>4, <3>2 DEF more
    <3> QED
      BY <3>1, <3>2
  <2>3. ASSUME NEW n \in DOMAIN evidence, NEW k \in DOMAIN more PROVE evidence[n].id # more[k].id
    <3>3. PICK b \in Planned : \E l \in DOMAIN tasks[b].seen : evidence[n] = tasks[b].seen[l]
      BY <1>2, <1>5 DEF EvidenceOK
    <3>1. PICK l \in DOMAIN tasks[b].seen : evidence[n] = tasks[b].seen[l]
      BY <3>3
    <3>2. b # Extra /\ b \in Investigators /\ Extra \in Investigators
      BY BranchNumbers
    <3> QED
      BY <3>1, <3>2, SeenApart DEF more
  <2>4. ASSUME NEW n \in DOMAIN evidence', NEW m \in DOMAIN evidence', evidence'[n].id = evidence'[m].id
        PROVE  n = m
    <3>1. CASE /\ n \in DOMAIN evidence /\ evidence'[n] = evidence[n]
               /\ m \in DOMAIN evidence /\ evidence'[m] = evidence[m]
      BY <1>2, <2>4, <3>1 DEF EvidenceOK
    <3>2. CASE \E k, l \in DOMAIN more : /\ n = N + k /\ evidence'[n] = more[k]
                                         /\ m = N + l /\ evidence'[m] = more[l]
      BY <1>2, <2>4, <3>2, SeenApart DEF more
    <3> QED
      BY <1>6, <2>3, <2>4, <3>1, <3>2
  <2>5. trace'.events = UNION {EventsOf(tasks[b].seen) : b \in Planned \cup {Extra}}
    <3>1. trace.events = UNION {EventsOf(tasks[b].seen) : b \in Planned}
      BY <1>2, <1>5 DEF EvidenceOK
    <3>2. trace'.events = trace.events \cup EventsOf(more)
      BY <1>1, TraceShape
    <3> QED
      BY <3>1, <3>2 DEF more
  <2>6. tasks' = tasks
    BY <1>1
  <2>7. trace'.events = UNION {EventsOf(tasks'[b].seen) : b \in MergedBranches'}
    BY <1>5, <2>5, <2>6
  <2> QED
    BY <1>5, <2>1, <2>2, <2>4, <2>6, <2>7 DEF EvidenceOK
<1>9. StageOK'
  BY <1>1, <1>2, <1>8, TraceShape DEF DiagnosisInv, StageOK, Started
<1>10. DiagnosisTypeOK'
  BY <1>1, <1>4 DEF DiagnosisInv, DiagnosisTypeOK, Stages
<1>11. AnswerIsSupported' /\ MergedOK'
  <2>1. answer' = Unset /\ trace'.merged = Unset
    BY <1>1, <1>2, TraceShape
  <2> QED
    BY <2>1 DEF AnswerIsSupported, FactsComeFromRecords, CompletedIsWhole, MergedOK
<1> QED
  BY <1>1, <1>9, <1>10, <1>11, BranchesStay DEF DiagnosisInv

(* The reports depend on nothing but what was found. *)
LEMMA ReportsStay ==
    ASSUME UNCHANGED <<reasons, tasks, target, evidence>>
    PROVE  Reports' = Reports
<1>1. Proposed' = Proposed
  BY DEF Proposed
<1>2. CandidateFacts' = CandidateFacts /\ RuleHypothesis' = RuleHypothesis
  BY DEF CandidateFacts, RuleHypothesis
<1>3. \A fact : RuleClaim(fact)' = RuleClaim(fact)
  BY DEF RuleClaim, Matches
<1>4. \A claim, support : Reviewed(claim, support)' = Reviewed(claim, support)
  BY DEF Reviewed, IdsOf
<1>5. reasons' = reasons
  OBVIOUS
<1> DEFINE ByRules == {RuleClaim(f) : f \in CandidateFacts}
           Verdicts == {"supported", "unsupported", "unverified"}
           JudgedBy(verdict) == {Reviewed(c, verdict[c]) : c \in Proposed}
           ByModel == {[status |-> "completed", claims |-> JudgedBy(verdict)] :
                          verdict \in [Proposed -> Verdicts]}
<1>6. ByRules' = ByRules
  BY <1>2, <1>3
<1>7. \A verdict : JudgedBy(verdict)' = JudgedBy(verdict)
  BY <1>1, <1>4
<1> HIDE DEF JudgedBy
<1>8. ByModel' = ByModel
  BY <1>1, <1>7
<1>9. Reports = IF ~reasons THEN {[status |-> "completed", claims |-> ByRules \cup RuleHypothesis], Incomplete}
                ELSE IF Proposed = {} THEN {Incomplete} ELSE {Incomplete} \cup ByModel
  BY DEF Reports, JudgedBy
<1>10. Reports' = (IF ~reasons THEN {[status |-> "completed", claims |-> ByRules \cup RuleHypothesis], Incomplete}
                   ELSE IF Proposed = {} THEN {Incomplete} ELSE {Incomplete} \cup ByModel)'
  BY DEF Reports, JudgedBy
<1> HIDE DEF ByRules, ByModel
<1> QED
  BY <1>1, <1>2, <1>5, <1>6, <1>8, <1>9, <1>10 DEF Incomplete

LEMMA ReviewKeeps ==
    ASSUME DiagnosisInv, Review
    PROVE  DiagnosisInv'
<1>1. /\ stage = "reviewing" /\ stage' = "closing" /\ report' \in Reports
      /\ UNCHANGED <<reasons, calls, tasks, target, evidence, trace, answer>>
  BY DEF Review
<1>2. Reports' = Reports
  BY <1>1, ReportsStay
<1>3. EvidenceOK /\ answer = Unset /\ trace.merged = Unset
  BY <1>1 DEF DiagnosisInv, StageOK
<1>4. MergedBranches' = MergedBranches /\ tasks' = tasks
  BY <1>1 DEF MergedBranches, Started
<1>5. EvidenceOK'
  BY <1>1, <1>3, <1>4 DEF EvidenceOK
<1>6. StageOK'
  BY <1>1, <1>2, <1>5 DEF DiagnosisInv, StageOK, Started
<1>7. DiagnosisTypeOK'
  BY <1>1 DEF DiagnosisInv, DiagnosisTypeOK, Stages
<1>8. AnswerIsSupported' /\ MergedOK'
  BY <1>1, <1>3 DEF AnswerIsSupported, FactsComeFromRecords, CompletedIsWhole, MergedOK
<1> QED
  BY <1>1, <1>6, <1>7, <1>8, BranchesStay DEF DiagnosisInv

LEMMA BreakKeeps ==
    ASSUME DiagnosisInv, Break
    PROVE  DiagnosisInv'
<1>1. /\ stage \in {"investigating", "following", "reviewing", "closing"} /\ stage' = "closed"
      /\ \A b \in Investigators : tasks[b].pc # "working"
      /\ answer' = [status |-> "failed", verdict |-> "none", services |-> <<>>, facts |-> {}, steps |-> {}]
      /\ UNCHANGED <<reasons, calls, tasks, target, evidence, trace, report>>
  BY DEF Break
<1>2. trace.merged = Unset /\ tasks \in [Investigators -> TaskRecords]
  BY <1>1 DEF DiagnosisInv, StageOK, DiagnosisTypeOK
<1>3. \A s \in Planned : tasks[s].pc = "ended"
  BY <1>1, <1>2, BranchNumbers DEF DiagnosisInv, BranchOK, Started, TaskRecords
<1>4. StageOK'
  BY <1>1, <1>3, BranchNumbers DEF DiagnosisInv, StageOK, Started
<1>5. DiagnosisTypeOK'
  BY <1>1 DEF DiagnosisInv, DiagnosisTypeOK, Stages
<1>6. AnswerIsSupported'
  BY <1>1 DEF AnswerIsSupported, FactsComeFromRecords, CompletedIsWhole
<1>7. MergedOK'
  BY <1>1, <1>2 DEF MergedOK
<1> QED
  BY <1>1, <1>4, <1>5, <1>6, <1>7, BranchesStay DEF DiagnosisInv

(* Before its results are merged, every call is one of the plan. *)
LEMMA CallsAreOfThePlan ==
    ASSUME DiagnosisInv, stage = "investigating"
    PROVE  /\ target = Extra /\ tasks[Extra] = NewTask("idle") /\ ~Started(Extra)
           /\ \A c \in DOMAIN calls : \E s \in Planned : calls[c].inputs = Inputs(s, calls[c].tool)
<1>1. target = Extra /\ ~Started(Extra)
  BY DEF DiagnosisInv, StageOK
<1>2. tasks[Extra] = NewTask("idle")
  BY <1>1, BranchNumbers DEF DiagnosisInv, BranchOK
<1>3. ASSUME NEW c \in DOMAIN calls
      PROVE  \E s \in Planned : calls[c].inputs = Inputs(s, calls[c].tool)
  <2>1. PICK b \in Investigators : Started(b) /\ calls[c].inputs = Inputs(b, calls[c].tool)
    BY DEF DiagnosisInv, CallOK
  <2> QED
    BY <1>1, <2>1, BranchNumbers
<1> QED
  BY <1>1, <1>2, <1>3

(* The merged evidence is what the planned branches saw, each observation  *)
(* once.                                                                   *)
LEMMA PlanOrderIsWhole ==
    ASSUME DiagnosisInv
    PROVE  /\ InPlanOrder \in Seq(Observations)
           /\ \A n \in DOMAIN InPlanOrder : \E s \in Planned :
                \E k \in DOMAIN tasks[s].seen : InPlanOrder[n] = tasks[s].seen[k]
           /\ \A s \in Planned : \A k \in DOMAIN tasks[s].seen :
                \E n \in DOMAIN InPlanOrder : InPlanOrder[n] = tasks[s].seen[k]
           /\ \A n, m \in DOMAIN InPlanOrder : InPlanOrder[n].id = InPlanOrder[m].id => n = m
<1> DEFINE C == Cardinality(Found)
           at(n) == CHOOSE p \in Found : Place(p) = n
<1>1. C \in Nat /\ DOMAIN InPlanOrder = 1..C
      /\ \A n \in 1..C : InPlanOrder[n] = tasks[at(n)[1]].seen[at(n)[2]]
  BY PlacesAreFilled DEF InPlanOrder
<1>2. \A n \in 1..C : at(n) \in Found /\ Place(at(n)) = n
  <2>1. \A n \in 1..C : \E p \in Found : Place(p) = n
    BY PlacesAreFilled
  <2> QED
    BY <2>1
<1>3. \A p \in Found : p[1] \in Planned /\ p[2] \in DOMAIN tasks[p[1]].seen /\ p = <<p[1], p[2]>>
  BY DEF Found
<1>4. \A s \in Planned : tasks[s].seen \in Seq(Observations) /\ Len(tasks[s].seen) <= TaskLimit
  <2>1. ASSUME NEW s \in Planned PROVE tasks[s].seen \in Seq(Observations) /\ Len(tasks[s].seen) <= TaskLimit
    <3>1. tasks[s] \in TaskRecords /\ s \in Investigators
      BY BranchNumbers DEF DiagnosisInv, DiagnosisTypeOK
    <3>2. Len(tasks[s].seen) <= tasks[s].attempts /\ tasks[s].attempts <= TaskLimit
      BY <3>1 DEF DiagnosisInv, BranchOK
    <3>3. tasks[s].seen \in Seq(Observations) /\ tasks[s].attempts \in Nat /\ TaskLimit \in Int
      BY <3>1, DiagnosisAssumption DEF TaskRecords
    <3>4. Len(tasks[s].seen) \in Nat
      BY <3>3
    <3> QED
      BY <3>2, <3>3, <3>4
  <2> QED
    BY <2>1
<1>5. \A s \in Planned : \A k \in DOMAIN tasks[s].seen : <<s, k>> \in Found
  <2>1. ASSUME NEW s \in Planned, NEW k \in DOMAIN tasks[s].seen PROVE <<s, k>> \in Found
    <3>1. k \in 1..TaskLimit
      BY <1>4, DiagnosisAssumption
    <3> QED
      BY <3>1 DEF Found
  <2> QED
    BY <2>1
<1> HIDE DEF C, at
<1>6. ASSUME NEW n \in 1..C
      PROVE  \E s \in Planned : \E k \in DOMAIN tasks[s].seen :
               InPlanOrder[n] = tasks[s].seen[k] /\ at(n) = <<s, k>>
  BY <1>1, <1>2, <1>3
<1>7. InPlanOrder \in Seq(Observations)
  <2>1. \A n \in 1..C : InPlanOrder[n] \in Observations
    BY <1>4, <1>6
  <2>2. InPlanOrder \in [1..C -> Observations]
    <3>1. InPlanOrder = [n \in 1..C |-> InPlanOrder[n]]
      BY <1>1 DEF InPlanOrder, C
    <3> QED
      BY <2>1, <3>1
  <2> QED
    BY <1>1, <2>2, SeqDef
<1>8. ASSUME NEW s \in Planned, NEW k \in DOMAIN tasks[s].seen
      PROVE  \E n \in 1..C : InPlanOrder[n] = tasks[s].seen[k]
  <2>1. <<s, k>> \in Found
    BY <1>5
  <2>2. Place(<<s, k>>) \in 1..C
    BY <2>1, PlacesAreFilled DEF C
  <2> DEFINE n == Place(<<s, k>>)
  <2>3. at(n) = <<s, k>>
    <3>1. at(n) \in Found /\ Place(at(n)) = Place(<<s, k>>)
      BY <1>2, <2>2
    <3> QED
      BY <2>1, <3>1, PlacesAreFilled
  <2> QED
    BY <1>1, <2>2, <2>3
<1>9. ASSUME NEW n \in 1..C, NEW m \in 1..C, InPlanOrder[n].id = InPlanOrder[m].id PROVE n = m
  <2>1. PICK s \in Planned : \E k \in DOMAIN tasks[s].seen :
               InPlanOrder[n] = tasks[s].seen[k] /\ at(n) = <<s, k>>
    BY <1>6
  <2>2. PICK k \in DOMAIN tasks[s].seen : InPlanOrder[n] = tasks[s].seen[k] /\ at(n) = <<s, k>>
    BY <2>1
  <2>3. PICK t \in Planned : \E k2 \in DOMAIN tasks[t].seen :
               InPlanOrder[m] = tasks[t].seen[k2] /\ at(m) = <<t, k2>>
    BY <1>6
  <2>4. PICK l \in DOMAIN tasks[t].seen : InPlanOrder[m] = tasks[t].seen[l] /\ at(m) = <<t, l>>
    BY <2>3
  <2>5. s = t /\ k = l
    BY <1>9, <2>2, <2>4, BranchNumbers, SeenApart
  <2> QED
    BY <1>2, <2>2, <2>4, <2>5
<1>10. \A n \in DOMAIN InPlanOrder : \E s \in Planned :
         \E k \in DOMAIN tasks[s].seen : InPlanOrder[n] = tasks[s].seen[k]
  BY <1>1, <1>6
<1>11. \A s \in Planned : \A k \in DOMAIN tasks[s].seen :
         \E n \in DOMAIN InPlanOrder : InPlanOrder[n] = tasks[s].seen[k]
  BY <1>1, <1>8
<1>12. \A n, m \in DOMAIN InPlanOrder : InPlanOrder[n].id = InPlanOrder[m].id => n = m
  BY <1>1, <1>9
<1> QED
  BY <1>7, <1>10, <1>11, <1>12
LEMMA MergeBranchesKeeps ==
    ASSUME DiagnosisInv, MergeBranches
    PROVE  DiagnosisInv'
<1>1. /\ stage = "investigating" /\ \A s \in Planned : tasks[s].pc = "ended"
      /\ evidence' = InPlanOrder
      /\ trace' = [trace EXCEPT !.events = UNION {EventsOf(tasks[s].seen) : s \in Planned}]
      /\ UNCHANGED <<reasons, calls, report, answer>>
      /\ \/ stage' = "reviewing" /\ UNCHANGED <<target, tasks>>
         \/ /\ stage' = "following" /\ target' \in Planned
            /\ tasks' = [tasks EXCEPT ![Extra] = [tasks[Extra] EXCEPT !.pc = "working"]]
  BY DEF MergeBranches
<1>2. /\ tasks \in [Investigators -> TaskRecords] /\ answer = Unset /\ trace.merged = Unset
      /\ Planned \subseteq Investigators /\ Extra \in Investigators /\ Extra \notin Planned
  BY <1>1, BranchNumbers DEF DiagnosisInv, DiagnosisTypeOK, StageOK
<1>3. target = Extra /\ tasks[Extra] = NewTask("idle") /\ ~Started(Extra)
  BY <1>1, CallsAreOfThePlan
<1> DEFINE old == tasks[Extra]
           new == [old EXCEPT !.pc = "working"]
<1>4. /\ old \in TaskRecords /\ old.tool = Logs /\ old.attempts = 0 /\ old.used = {Logs}
      /\ old.seen = <<>> /\ old.findings = {}
  <2>1. old \in TaskRecords /\ old = NewTask("idle")
    BY <1>2, <1>3
  <2> HIDE DEF old
  <2> QED
    BY <2>1 DEF NewTask
<1>5. /\ new \in TaskRecords
      /\ new.pc = "working" /\ new.tool = Logs /\ new.attempts = 0 /\ new.used = {Logs}
      /\ new.seen = <<>> /\ new.findings = {}
  <2> HIDE DEF old
  <2> QED
    BY <1>4 DEF TaskRecords
<1> HIDE DEF new
<1>6. \A s \in Planned : tasks'[s] = tasks[s]
  BY <1>1, <1>2
<1>7. MergedBranches' = Planned
  BY <1>1, <1>3 DEF MergedBranches, Started
<1>8. trace' = [events |-> UNION {EventsOf(tasks[s].seen) : s \in Planned}, merged |-> trace.merged]
  BY <1>1, TraceShape
<1>9. EvidenceOK'
  <2>1. \A n \in DOMAIN evidence' : \E b \in Planned :
          \E k \in DOMAIN tasks'[b].seen : evidence'[n] = tasks'[b].seen[k]
    BY <1>1, <1>6, PlanOrderIsWhole
  <2>2. \A b \in Planned : \A k \in DOMAIN tasks'[b].seen :
          \E n \in DOMAIN evidence' : evidence'[n] = tasks'[b].seen[k]
    BY <1>1, <1>6, PlanOrderIsWhole
  <2>3. \A n, m \in DOMAIN evidence' : evidence'[n].id = evidence'[m].id => n = m
    BY <1>1, PlanOrderIsWhole
  <2>4. trace'.events = UNION {EventsOf(tasks'[b].seen) : b \in Planned}
    BY <1>6, <1>8
  <2> QED
    BY <1>7, <2>1, <2>2, <2>3, <2>4 DEF EvidenceOK
<1>10. AnswerIsSupported' /\ MergedOK'
  <2>1. answer' = Unset /\ trace'.merged = Unset
    BY <1>1, <1>2, <1>8
  <2> QED
    BY <2>1 DEF AnswerIsSupported, FactsComeFromRecords, CompletedIsWhole, MergedOK
<1>11. CASE stage' = "reviewing" /\ UNCHANGED <<target, tasks>>
  <2>1. StageOK'
    BY <1>1, <1>2, <1>3, <1>8, <1>9, <1>11 DEF DiagnosisInv, StageOK, Started
  <2>2. DiagnosisTypeOK'
    BY <1>1, <1>8, <1>11, PlanOrderIsWhole DEF DiagnosisInv, DiagnosisTypeOK, Stages
  <2> QED
    BY <1>1, <1>10, <1>11, <2>1, <2>2, BranchesStay DEF DiagnosisInv
<1>12. CASE stage' = "following" /\ target' \in Planned /\ tasks' = [tasks EXCEPT ![Extra] = new]
  <2>1. /\ tasks' \in [Investigators -> TaskRecords] /\ tasks'[Extra] = new
        /\ \A b \in Investigators : b # Extra => tasks'[b] = tasks[b] /\ b \in Planned
    BY <1>2, <1>5, <1>12, BranchNumbers
  <2>2. /\ \A b \in Planned : Started(b)' = Started(b) /\ Subject(b)' = Subject(b)
        /\ \A b \in Planned, tool \in Lookups : Inputs(b, tool)' = Inputs(b, tool)
        /\ Started(Extra)' /\ Inputs(Extra, Logs)'.wide
    BY <1>2, <1>5, <1>6, <2>1 DEF Started, Subject, Inputs, Logs, Articles
  <2>3. StageOK'
    BY <1>1, <1>2, <1>6, <1>8, <1>9, <1>12, <2>2 DEF DiagnosisInv, StageOK
  <2>4. DiagnosisTypeOK'
    BY <1>1, <1>2, <1>8, <1>12, <2>1, PlanOrderIsWhole DEF DiagnosisInv, DiagnosisTypeOK, Stages
  <2>5. ASSUME NEW b \in Planned PROVE BranchOK(b)'
    <3>1. BranchOK(b) /\ tasks'[b] = tasks[b] /\ b # Extra /\ tasks[b].pc = "ended" /\ Started(b)'
      BY <1>1, <1>2, <1>6, <2>2 DEF DiagnosisInv, Started
    <3> QED
      BY <3>1 DEF BranchOK
  <2>6. BranchOK(Extra)'
    <3>1. ASSUME NEW c \in DOMAIN calls PROVE ~Answers(c, Extra, Logs)'
      <4>1. PICK s \in Planned : calls[c].inputs = Inputs(s, calls[c].tool)
        BY <1>1, CallsAreOfThePlan
      <4>2. ~Inputs(s, calls[c].tool).wide
        BY <1>2 DEF Inputs
      <4> QED
        BY <1>1, <2>2, <4>1, <4>2 DEF Answers
    <3>2. Len(new.seen) = 0 /\ 0 <= TaskLimit
      BY <1>5, DiagnosisAssumption
    <3>3. Logs \notin {Tickets, Articles}
      BY DEF Logs, Tickets, Articles
    <3> QED
      BY <1>1, <1>2, <1>5, <2>1, <2>2, <3>1, <3>2, <3>3 DEF BranchOK
  <2>7. ASSUME NEW b \in Planned PROVE SeenOfBranchOK(b)'
    <3>1. SeenOfBranchOK(b) /\ tasks'[b] = tasks[b] /\ b # Extra /\ calls' = calls /\ b \in Investigators
      BY <1>1, <1>2, <1>6 DEF DiagnosisInv
    <3>2. Known(b, tasks[b])' = Known(b, tasks[b])
      BY <3>1 DEF Known, IdsOf
    <3>3. \A k \in DOMAIN tasks[b].seen : tasks[b].seen[k].tool \in Lookups
      <4>1. tasks[b].seen \in Seq(Observations)
        BY <1>2 DEF TaskRecords
      <4>2. \A k \in DOMAIN tasks[b].seen : tasks[b].seen[k] \in Observations
        BY <4>1
      <4> QED
        BY <4>2 DEF Observations
    <3>4. \A tool \in Lookups : Inputs(b, tool)' = Inputs(b, tool)
      BY <2>2
    <3> QED
      BY <2>2, <3>1, <3>2, <3>3, <3>4 DEF SeenOfBranchOK, Answers
  <2>8. SeenOfBranchOK(Extra)'
    <3>1. DOMAIN new.seen = {} /\ new.findings = {}
      BY <1>5
    <3> QED
      BY <2>1, <3>1 DEF SeenOfBranchOK
  <2>9. ASSUME NEW c \in DOMAIN calls PROVE CallOK(c)'
    <3>1. PICK b \in Investigators :
            /\ Started(b) /\ calls[c].tool \in tasks[b].used /\ calls[c].inputs = Inputs(b, calls[c].tool)
            /\ \/ Recovered(c) \/ tasks[b].error \/ tasks[b].cut
               \/ tasks[b].pc = "working" /\ tasks[b].tool = calls[c].tool /\ tasks[b].tries = 1
      BY DEF DiagnosisInv, CallOK
    <3>2. b \in Planned /\ tasks'[b] = tasks[b] /\ calls' = calls
      BY <1>1, <1>3, <1>6, <3>1, BranchNumbers
    <3>3. calls[c].tool \in Lookups
      <4>1. calls \in Seq(CallRecords)
        BY DEF DiagnosisInv, DiagnosisTypeOK
      <4>2. calls[c] \in CallRecords
        BY <4>1
      <4> QED
        BY <4>2 DEF CallRecords
    <3>4. Started(b)' /\ Inputs(b, calls[c].tool)' = Inputs(b, calls[c].tool)
      BY <2>2, <3>1, <3>2, <3>3
    <3>5. Recovered(c)' = Recovered(c)
      BY <3>2 DEF Recovered
    <3>6. calls[c].id = c
      BY DEF DiagnosisInv, CallOK
    <3> QED
      BY <1>2, <3>1, <3>2, <3>4, <3>5, <3>6 DEF CallOK
  <2>10. CompletedOnce'
    BY <1>1 DEF DiagnosisInv, CompletedOnce
  <2>11. DOMAIN calls' = DOMAIN calls
    BY <1>1
  <2> QED
    BY <1>10, <2>3, <2>4, <2>5, <2>6, <2>7, <2>8, <2>9, <2>10, <2>11, BranchNumbers DEF DiagnosisInv
<1> QED
  BY <1>1, <1>11, <1>12 DEF new

(* What a merged observation tells of: a completed call about the service  *)
(* of the branch that made it.                                             *)
LEMMA EvidenceIsOfCalls ==
    ASSUME DiagnosisInv, EvidenceOK, NEW n \in DOMAIN evidence
    PROVE  \E b \in MergedBranches : \E k \in DOMAIN tasks[b].seen :
             LET call == calls[evidence[n].output] IN
             /\ b \in Investigators /\ evidence[n] = tasks[b].seen[k]
             /\ evidence[n].service = Subject(b) /\ Subject(b) \in Planned
             /\ evidence[n].output \in DOMAIN calls
             /\ call.status = "completed" /\ call.scoped
             /\ call.tool = evidence[n].tool /\ call.inputs = evidence[n].inputs
             /\ {call.inputs.service_name, call.inputs.query} \ {0} = {Subject(b)}
<1>1. PICK b \in MergedBranches : \E k \in DOMAIN tasks[b].seen : evidence[n] = tasks[b].seen[k]
  BY DEF EvidenceOK
<1>2. PICK k \in DOMAIN tasks[b].seen : evidence[n] = tasks[b].seen[k]
  BY <1>1
<1>3. b \in Investigators /\ (b = Extra => target \in Planned)
  BY BranchNumbers DEF MergedBranches, DiagnosisInv, StageOK
<1>4. Subject(b) \in Planned /\ Subject(b) # 0
  BY <1>3, BranchNumbers DEF Subject, Extra
<1> DEFINE o == tasks[b].seen[k]
<1>5. /\ o.service = Subject(b) /\ o.output \in DOMAIN calls /\ calls[o.output].scoped
      /\ o.inputs = Inputs(b, o.tool) /\ Answers(o.output, b, o.tool)
  BY <1>3 DEF DiagnosisInv, SeenOfBranchOK
<1> HIDE DEF o
<1>6. calls[o.output].status = "completed" /\ calls[o.output].tool = o.tool /\ calls[o.output].inputs = o.inputs
  BY <1>5 DEF Answers
<1>7. {o.inputs.service_name, o.inputs.query} \ {0} = {Subject(b)}
  <2>1. \/ o.inputs.service_name = Subject(b) /\ o.inputs.query = 0
        \/ o.inputs.service_name = 0 /\ o.inputs.query = Subject(b)
    BY <1>5 DEF Inputs
  <2> QED
    BY <1>4, <2>1
<1> QED
  BY <1>2, <1>3, <1>4, <1>5, <1>6, <1>7 DEF o

(* A supported fact cites what was merged, about its own service. *)
LEMMA FactsCiteRecords ==
    ASSUME DiagnosisInv, stage = "closing", NEW fact \in Supported, fact.kind = "fact"
    PROVE  /\ fact.support = "supported" /\ fact.cites # {}
           /\ \A id \in fact.cites : \E i \in DOMAIN evidence :
                LET call == calls[evidence[i].output]
                IN /\ evidence[i].id = id /\ call.status = "completed" /\ call.scoped
                   /\ {call.inputs.service_name, call.inputs.query} \ {0} = {Subject(fact.by)}
<1>1. EvidenceOK /\ report \in Reports
  BY DEF DiagnosisInv, StageOK
<1>2. fact \in report.claims /\ report.status = "completed" /\ fact.support = "supported"
  BY DEF Supported
<1>3. CASE ~reasons
  <2>1. fact \in {RuleClaim(f) : f \in CandidateFacts} \cup RuleHypothesis
    BY <1>1, <1>2, <1>3 DEF Reports, Incomplete
  <2>2. fact \notin RuleHypothesis
    BY DEF RuleHypothesis
  <2>3. PICK f \in CandidateFacts : fact = RuleClaim(f)
    BY <2>1, <2>2
  <2>4. PICK i \in DOMAIN evidence : f.step = i /\ f.by = evidence[i].service
    BY DEF CandidateFacts
  <2>5. fact.cites = {evidence[i].id} /\ fact.by = evidence[i].service
    BY <2>3, <2>4 DEF RuleClaim
  <2>6. /\ evidence[i].service \in Planned /\ calls[evidence[i].output].status = "completed"
        /\ calls[evidence[i].output].scoped
        /\ {calls[evidence[i].output].inputs.service_name, calls[evidence[i].output].inputs.query} \ {0}
             = {evidence[i].service}
    BY <1>1, EvidenceIsOfCalls
  <2>7. Subject(fact.by) = evidence[i].service
    BY <2>5, <2>6, BranchNumbers DEF Subject
  <2> QED
    BY <1>2, <2>5, <2>6, <2>7
<1>4. CASE reasons
  <2>1. \E verdict : fact \in {Reviewed(c, verdict[c]) : c \in Proposed}
    BY <1>1, <1>2, <1>4 DEF Reports, Incomplete
  <2>2. PICK verdict : fact \in {Reviewed(c, verdict[c]) : c \in Proposed}
    BY <2>1
  <2>3. PICK p \in Proposed : fact = Reviewed(p, verdict[p])
    BY <2>2
  <2>4. fact.by = p.by /\ fact.cites = p.cites /\ p.cites \subseteq IdsOf(evidence)
    BY <1>2, <2>3 DEF Reviewed
  <2>5. PICK d \in Investigators : p \in tasks[d].findings /\ (d = Extra => target \in Planned)
    BY BranchNumbers DEF Proposed
  <2>6. p.by = d /\ p.cites # {} /\ p.cites \subseteq Known(d, tasks[d])
    BY <2>5 DEF DiagnosisInv, SeenOfBranchOK
  <2>7. ASSUME NEW id \in fact.cites
        PROVE  \E i \in DOMAIN evidence :
                LET call == calls[evidence[i].output]
                IN /\ evidence[i].id = id /\ call.status = "completed" /\ call.scoped
                   /\ {call.inputs.service_name, call.inputs.query} \ {0} = {Subject(fact.by)}
    <3>1. PICK i \in DOMAIN evidence : evidence[i].id = id
      BY <2>4 DEF IdsOf
    <3>2. PICK b \in MergedBranches : \E k \in DOMAIN tasks[b].seen :
             LET call == calls[evidence[i].output] IN
             /\ b \in Investigators /\ evidence[i] = tasks[b].seen[k]
             /\ call.status = "completed" /\ call.scoped
             /\ {call.inputs.service_name, call.inputs.query} \ {0} = {Subject(b)}
      BY <1>1, EvidenceIsOfCalls
    <3>3. PICK k \in DOMAIN tasks[b].seen : evidence[i] = tasks[b].seen[k]
      BY <3>2
    <3>4. PICK e \in Investigators : id \in IdsOf(tasks[e].seen) /\ (e = d \/ (d = Extra /\ e = target))
      BY <2>4, <2>5, <2>6, BranchNumbers DEF Known
    <3>5. PICK l \in DOMAIN tasks[e].seen : tasks[e].seen[l].id = id
      BY <3>4 DEF IdsOf
    <3>6. b = e
      BY <3>1, <3>2, <3>3, <3>5, SeenApart
    <3>7. Subject(e) = Subject(d)
      BY <2>5, <3>4, BranchNumbers DEF Subject
    <3> QED
      BY <2>4, <2>6, <3>1, <3>2, <3>6, <3>7
  <2> QED
    BY <1>2, <2>4, <2>6, <2>7
<1> QED
  BY <1>3, <1>4

(* A run that may call itself completed looked into every service.         *)
LEMMA CompletedBranches ==
    ASSUME DiagnosisInv, stage = "closing", InvestigationStatus = "completed"
    PROVE  /\ \A i \in DOMAIN calls : Recovered(i)
           /\ \A s \in Planned : ServiceStatus(s) = "completed"
           /\ \A b \in Investigators : ~tasks[b].cut
<1>1. /\ EvidenceOK /\ \A s \in Planned : tasks[s].pc = "ended"
      /\ tasks[Extra].pc # "working" /\ tasks \in [Investigators -> TaskRecords]
  BY DEF DiagnosisInv, DiagnosisTypeOK, StageOK
<1>2. \A b \in Ran : TaskStatus(tasks[b]) = "completed"
  BY DEF InvestigationStatus
<1>3. \A b \in Ran : ~tasks[b].error /\ ~tasks[b].cut /\ tasks[b].seen # <<>>
  BY <1>2 DEF TaskStatus
<1>4. \A b \in Investigators : Started(b) => b \in Ran
  <2>1. \A b \in Investigators : tasks[b].pc \in {"idle", "working", "ended"}
    BY <1>1 DEF TaskRecords
  <2>2. \A b \in Investigators : tasks[b].pc # "working"
    BY <1>1, BranchNumbers
  <2> QED
    BY <2>1, <2>2 DEF Started, Ran
<1>5. ASSUME NEW b \in Investigators PROVE ~tasks[b].cut
  <2>1. CASE Started(b)
    BY <1>3, <1>4, <2>1
  <2>2. CASE ~Started(b)
    <3>1. tasks[b] = NewTask("idle")
      BY <2>2 DEF DiagnosisInv, BranchOK
    <3> QED
      BY <3>1 DEF NewTask
  <2> QED
    BY <2>1, <2>2
<1>6. ASSUME NEW c \in DOMAIN calls PROVE Recovered(c)
  <2>1. PICK b \in Investigators :
          /\ Started(b)
          /\ \/ Recovered(c) \/ tasks[b].error \/ tasks[b].cut
             \/ tasks[b].pc = "working" /\ tasks[b].tool = calls[c].tool /\ tasks[b].tries = 1
    BY DEF DiagnosisInv, CallOK
  <2>2. b \in Ran /\ tasks[b].pc = "ended"
    BY <1>4, <2>1 DEF Ran
  <2> QED
    BY <1>3, <2>1, <2>2
<1>7. ASSUME NEW s \in Planned PROVE ServiceStatus(s) = "completed"
  <2>1. s \in Investigators /\ s \in Ran /\ Subject(s) = s /\ s \in MergedBranches
    BY <1>1, BranchNumbers DEF Ran, Subject, MergedBranches
  <2>2. tasks[s].seen # <<>> /\ tasks[s].seen \in Seq(Observations)
    BY <1>1, <1>3, <2>1 DEF TaskRecords
  <2>3. 1 \in DOMAIN tasks[s].seen
    BY <2>2
  <2>4. PICK n \in DOMAIN evidence : evidence[n] = tasks[s].seen[1]
    BY <1>1, <2>1, <2>3 DEF EvidenceOK
  <2>5. evidence[n].service = s
    BY <2>1, <2>3, <2>4 DEF DiagnosisInv, SeenOfBranchOK
  <2>6. ~\E b \in Ran : Subject(b) = s /\ TaskStatus(tasks[b]) # "completed"
    BY <1>2
  <2> QED
    BY <2>5, <2>6 DEF ServiceStatus
<1> QED
  BY <1>5, <1>6, <1>7

(* What the history needs to find a call again: an id has one event, the   *)
(* event's lookup one completed call, and no earlier id the same lookup.   *)
LEMMA CallsAreFound ==
    ASSUME DiagnosisInv, EvidenceOK, NEW n \in DOMAIN evidence
    PROVE  /\ {e \in trace.events : e.id = evidence[n].id} = {Event(evidence[n])}
           /\ {c \in Completed : SameLookup(Event(evidence[n]), calls[c])} = {evidence[n].output}
           /\ \A m \in DOMAIN evidence :
                SameLookup(Event(evidence[n]), Event(evidence[m])) => m = n
           /\ calls[evidence[n].output].id = evidence[n].output
<1>1. PICK b \in MergedBranches : \E k \in DOMAIN tasks[b].seen :
             LET call == calls[evidence[n].output] IN
             /\ b \in Investigators /\ evidence[n] = tasks[b].seen[k]
             /\ evidence[n].output \in DOMAIN calls /\ call.status = "completed"
             /\ call.tool = evidence[n].tool /\ call.inputs = evidence[n].inputs
  BY EvidenceIsOfCalls
<1>2. PICK k \in DOMAIN tasks[b].seen : evidence[n] = tasks[b].seen[k]
  BY <1>1
<1>3. \A x : /\ Event(x).id = x.id /\ Event(x).tool = x.tool /\ Event(x).inputs = x.inputs
  BY DEF Event
<1>4. \A d \in MergedBranches : d \in Investigators
  BY BranchNumbers DEF MergedBranches
<1>5. trace.events = UNION {EventsOf(tasks[d].seen) : d \in MergedBranches}
  BY DEF EvidenceOK
<1>6. Event(evidence[n]) \in trace.events
  <2>1. Event(evidence[n]) \in EventsOf(tasks[b].seen)
    BY <1>2 DEF EventsOf
  <2> QED
    BY <1>5, <2>1
<1>7. ASSUME NEW e \in trace.events, e.id = evidence[n].id PROVE e = Event(evidence[n])
  <2>1. PICK d \in MergedBranches : e \in EventsOf(tasks[d].seen)
    BY <1>5
  <2>2. PICK l \in DOMAIN tasks[d].seen : e = Event(tasks[d].seen[l])
    BY <2>1 DEF EventsOf
  <2>3. tasks[d].seen[l].id = tasks[b].seen[k].id
    BY <1>2, <1>3, <1>7, <2>2
  <2>4. d = b /\ l = k
    BY <1>1, <1>4, <2>3, SeenApart
  <2> QED
    BY <1>2, <2>2, <2>4
<1>8. {e \in trace.events : e.id = evidence[n].id} = {Event(evidence[n])}
  BY <1>3, <1>6, <1>7
<1>9. ASSUME NEW c \in Completed
      PROVE  SameLookup(Event(evidence[n]), calls[c]) <=> c = evidence[n].output
  <2>1. c \in DOMAIN calls /\ calls[c].status = "completed"
    BY DEF Completed
  <2> QED
    BY <1>1, <1>3, <2>1 DEF SameLookup, DiagnosisInv, CompletedOnce
<1>10. evidence[n].output \in Completed
  BY <1>1 DEF Completed
<1>11. {c \in Completed : SameLookup(Event(evidence[n]), calls[c])} = {evidence[n].output}
  BY <1>9, <1>10
<1>12. ASSUME NEW m \in DOMAIN evidence, SameLookup(Event(evidence[n]), Event(evidence[m]))
       PROVE  m = n
  <2>1. PICK d \in MergedBranches : \E l \in DOMAIN tasks[d].seen : evidence[m] = tasks[d].seen[l]
    BY DEF EvidenceOK
  <2>2. PICK l \in DOMAIN tasks[d].seen : evidence[m] = tasks[d].seen[l]
    BY <2>1
  <2>3. tasks[b].seen[k].tool = tasks[d].seen[l].tool /\ tasks[b].seen[k].inputs = tasks[d].seen[l].inputs
    BY <1>2, <1>3, <1>12, <2>2 DEF SameLookup
  <2>4. b = d /\ k = l
    BY <1>1, <1>4, <2>3, SeenApart
  <2> QED
    BY <1>2, <2>2, <2>4 DEF EvidenceOK
<1>13. calls[evidence[n].output].id = evidence[n].output
  BY <1>1 DEF DiagnosisInv, CallOK
<1> QED
  BY <1>8, <1>11, <1>12, <1>13

LEMMA ReopenedIsMerged ==
    ASSUME DiagnosisInv, trace.merged # Unset
    PROVE  ReopenedIsSame
<1>1. /\ EvidenceOK /\ trace.merged.verdict = answer.verdict
      /\ trace.merged.ids = [i \in DOMAIN evidence |-> evidence[i].id]
      /\ evidence \in Seq(Observations)
  BY DEF DiagnosisInv, DiagnosisTypeOK, MergedOK
<1>2. DOMAIN trace.merged.ids = DOMAIN evidence
  BY <1>1
<1>3. ASSUME NEW n \in DOMAIN evidence PROVE EventsOfId(n) = {Event(evidence[n])}
  <2>1. EventsOfId(n) = {e \in trace.events : e.id = evidence[n].id}
    BY <1>1 DEF EventsOfId
  <2> QED
    BY <1>1, <2>1, CallsAreFound
<1>4. ASSUME NEW n \in DOMAIN evidence PROVE CallOf(n, Event(evidence[n])) = {evidence[n].output}
  <2> DEFINE event == Event(evidence[n])
             out == evidence[n].output
             fitting == {c \in Completed : SameLookup(event, calls[c])}
  <2>1. fitting = {out} /\ out \in Nat
    <3>1. evidence[n] \in Observations
      BY <1>1
    <3>2. out \in Nat
      BY <3>1 DEF Observations
    <3> QED
      BY <1>1, <3>2, CallsAreFound
  <2>2. {m \in 1..(n - 1) : \E e \in EventsOfId(m) : SameLookup(event, e)} = {}
    <3>1. ASSUME NEW m \in 1..(n - 1) PROVE ~\E e \in EventsOfId(m) : SameLookup(event, e)
      <4>1. m \in DOMAIN evidence /\ m # n
        BY <1>1
      <4>2. EventsOfId(m) = {Event(evidence[m])}
        BY <1>3, <4>1
      <4>3. ~SameLookup(event, Event(evidence[m]))
        BY <1>1, <4>1, CallsAreFound
      <4> HIDE DEF event
      <4> QED
        BY <4>2, <4>3
    <3> HIDE DEF event
    <3> QED
      BY <3>1
  <2>3. CallOf(n, event) = {c \in fitting : Cardinality({d \in fitting : d < c}) = Cardinality({})}
    <3> HIDE DEF event
    <3> QED
      BY <2>2 DEF CallOf
  <2> HIDE DEF fitting, out
  <2>4. {d \in fitting : d < out} = {}
    BY <2>1
  <2> QED
    BY <2>1, <2>3, <2>4 DEF out
<1>5. Restored = DOMAIN evidence
  BY <1>2, <1>3, <1>4 DEF Restored
<1>6. Detail = [verdict |-> answer.verdict, evidence |-> [n \in Restored |-> Rebuilt(n)]]
  BY <1>1 DEF Detail
<1>7. ASSUME NEW n \in DOMAIN evidence
      PROVE  Rebuilt(n) = [id |-> evidence[n].id, agent |-> evidence[n].agent,
                           service |-> evidence[n].inputs.service_name, tool |-> evidence[n].tool,
                           empty |-> evidence[n].empty, output |-> evidence[n].output]
  <2> DEFINE event == CHOOSE e \in EventsOfId(n) : CallOf(n, e) # {}
             found == CHOOSE c \in CallOf(n, event) : TRUE
  <2>1. event = Event(evidence[n])
    BY <1>3, <1>4
  <2> HIDE DEF event
  <2>2. found = evidence[n].output
    BY <1>4, <2>1
  <2> HIDE DEF found
  <2>3. /\ calls[found].tool = evidence[n].tool /\ calls[found].inputs = evidence[n].inputs
        /\ calls[found].id = evidence[n].output
    BY <1>1, <2>2, EvidenceIsOfCalls, CallsAreFound
  <2>4. Rebuilt(n) = [id |-> event.id, agent |-> event.agent, service |-> calls[found].inputs.service_name,
                      tool |-> calls[found].tool, empty |-> event.empty, output |-> calls[found].id]
    BY DEF Rebuilt, event, found
  <2>5. event.id = evidence[n].id /\ event.agent = evidence[n].agent /\ event.empty = evidence[n].empty
    BY <2>1 DEF Event
  <2> QED
    BY <2>3, <2>4, <2>5
<1>8. /\ Detail.verdict = answer.verdict /\ DOMAIN Detail.evidence = DOMAIN evidence
      /\ \A n \in DOMAIN evidence : Detail.evidence[n] = Rebuilt(n)
  BY <1>5, <1>6
<1> QED
  BY <1>7, <1>8 DEF ReopenedIsSame

LEMMA CloseKeeps ==
    ASSUME DiagnosisInv, Close
    PROVE  DiagnosisInv'
<1>1. /\ stage = "closing" /\ stage' = "closed"
      /\ answer'.verdict = InvestigationStatus /\ answer'.services = [s \in Planned |-> ServiceStatus(s)]
      /\ answer'.facts = {c \in Supported : c.kind = "fact"} /\ answer'.steps = CitedSteps
      /\ UNCHANGED <<reasons, calls, tasks, target, evidence, report>>
  BY DEF Close
<1>2. \E new : trace' = [trace EXCEPT !.merged = new]
  BY DEF Close
<1>3. trace' = [events |-> trace'.events, merged |-> trace'.merged]
  BY <1>2, TraceShape
<1>8. MergedOK'
  <2>1. trace' = [trace EXCEPT !.merged =
            [status |-> answer'.status, ids |-> [i \in DOMAIN evidence |-> evidence[i].id],
             verdict |-> answer'.verdict, claims |-> report.claims]]
    BY DEF Close
  <2>2. trace' = [events |-> trace.events, merged |->
            [status |-> answer'.status, ids |-> [i \in DOMAIN evidence |-> evidence[i].id],
             verdict |-> answer'.verdict, claims |-> report.claims]]
    BY <2>1, TraceShape
  <2>3. /\ trace'.events = trace.events /\ trace'.merged.verdict = answer'.verdict
        /\ trace'.merged.ids = [i \in DOMAIN evidence |-> evidence[i].id]
    BY <2>2
  <2>4. EvidenceOK
    BY <1>1 DEF DiagnosisInv, StageOK
  <2>5. MergedBranches' = MergedBranches /\ tasks' = tasks /\ evidence' = evidence
    BY <1>1 DEF MergedBranches, Started
  <2>6. EvidenceOK'
    BY <2>3, <2>4, <2>5 DEF EvidenceOK
  <2> QED
    BY <2>3, <2>5, <2>6 DEF MergedOK
<1>4. DiagnosisTypeOK'
  BY <1>1, <1>3 DEF DiagnosisInv, DiagnosisTypeOK, Stages
<1>5. StageOK'
  BY <1>1 DEF DiagnosisInv, StageOK, Started
<1>6. FactsComeFromRecords'
  <2>1. \A fact \in answer'.facts :
            /\ fact.support = "supported" /\ fact.cites # {}
            /\ \A id \in fact.cites : \E i \in DOMAIN evidence :
                LET call == calls[evidence[i].output]
                IN /\ evidence[i].id = id /\ call.status = "completed" /\ call.scoped
                   /\ {call.inputs.service_name, call.inputs.query} \ {0} = {Subject(fact.by)}
    BY <1>1, FactsCiteRecords
  <2>2. \A b : Subject(b)' = Subject(b)
    BY <1>1 DEF Subject
  <2>3. \A i \in answer'.steps : \E c \in report.claims :
            c.support = "supported" /\ evidence[i].id \in c.cites
    BY <1>1 DEF CitedSteps, Supported
  <2>4. ASSUME NEW fact \in answer'.facts, NEW id \in fact.cites
        PROVE  \E i \in DOMAIN evidence' :
                LET call == calls'[evidence'[i].output]
                IN /\ evidence'[i].id = id /\ call.status = "completed" /\ call.scoped
                   /\ {call.inputs.service_name, call.inputs.query} \ {0} = {Subject(fact.by)'}
    <3>1. PICK i \in DOMAIN evidence :
                LET call == calls[evidence[i].output]
                IN /\ evidence[i].id = id /\ call.status = "completed" /\ call.scoped
                   /\ {call.inputs.service_name, call.inputs.query} \ {0} = {Subject(fact.by)}
      BY <2>1
    <3> QED
      BY <1>1, <2>2, <3>1
  <2> QED
    BY <1>1, <2>1, <2>3, <2>4 DEF FactsComeFromRecords
<1>7. CompletedIsWhole'
  <2>1. \A i \in DOMAIN calls : Recovered(i)' = Recovered(i)
    BY <1>1 DEF Recovered
  <2>2. InvestigationStatus = "completed" =>
          /\ \A i \in DOMAIN calls : Recovered(i)
          /\ \A s \in Planned : answer'.services[s] = "completed"
          /\ \A b \in Investigators : ~tasks[b].cut
    BY <1>1, CompletedBranches
  <2> QED
    BY <1>1, <2>1, <2>2 DEF CompletedIsWhole
<1> QED
  BY <1>1, <1>4, <1>5, <1>6, <1>7, <1>8, BranchesStay DEF DiagnosisInv, AnswerIsSupported

-----------------------------------------------------------------------------
LEMMA DiagnosisKeeps == DiagnosisInv /\ [DiagnosisNext]_diagnosisVars => DiagnosisInv'
<1> SUFFICES ASSUME DiagnosisInv, [DiagnosisNext]_diagnosisVars PROVE DiagnosisInv'
  OBVIOUS
<1>1. ASSUME NEW b \in Investigators, Answered(b) PROVE DiagnosisInv'
  BY <1>1, AnsweredKeeps
<1>2. ASSUME NEW b \in Investigators, OutOfScope(b) PROVE DiagnosisInv'
  <2>1. PICK scoped \in BOOLEAN : scoped = FALSE
    OBVIOUS
  <2> QED
    BY <1>2, <2>1, ErrorKeeps DEF OutOfScope
<1>3. ASSUME NEW b \in Investigators, CallFails(b) PROVE DiagnosisInv'
  <2>1. PICK scoped \in BOOLEAN : scoped = TRUE
    OBVIOUS
  <2> QED
    BY <1>3, <2>1, ErrorKeeps DEF CallFails
<1>4. ASSUME NEW b \in Investigators, NotConnected(b) PROVE DiagnosisInv'
  BY <1>4, NotConnectedKeeps
<1>5. ASSUME NEW b \in Investigators, GiveUp(b) PROVE DiagnosisInv'
  BY <1>5, GiveUpKeeps
<1>6. ASSUME NEW b \in Investigators, EndTask(b) PROVE DiagnosisInv'
  BY <1>6, EndTaskKeeps
<1>7. CASE MergeBranches
  BY <1>7, MergeBranchesKeeps
<1>8. CASE MergeExtra
  BY <1>8, MergeExtraKeeps
<1>9. CASE Review
  BY <1>9, ReviewKeeps
<1>10. CASE Close
  BY <1>10, CloseKeeps
<1>11. CASE Break
  BY <1>11, BreakKeeps
<1>12. CASE UNCHANGED diagnosisVars
  <2>1. /\ stage' = stage /\ answer' = answer /\ report' = report /\ trace' = trace
        /\ UNCHANGED <<reasons, calls, tasks, target, evidence>>
    BY <1>12 DEF diagnosisVars
  <2>2. /\ \A b \in Investigators : BranchOK(b)' /\ SeenOfBranchOK(b)'
        /\ \A c \in DOMAIN calls' : CallOK(c)'
        /\ CompletedOnce'
    BY <2>1, BranchesStay
  <2>3. DiagnosisTypeOK /\ StageOK /\ AnswerIsSupported /\ MergedOK
    BY DEF DiagnosisInv
  <2>4. DiagnosisTypeOK'
    BY <2>1, <2>3 DEF DiagnosisTypeOK
  <2>5. MergedBranches' = MergedBranches /\ tasks' = tasks
    BY <2>1 DEF MergedBranches, Started
  <2>6. EvidenceOK => EvidenceOK'
    BY <2>1, <2>5 DEF EvidenceOK
  <2>7. StageOK' /\ MergedOK'
    BY <2>1, <2>3, <2>6, ReportsStay DEF StageOK, Started, MergedOK
  <2>8. FactsComeFromRecords'
    <3>1. \A b : Subject(b)' = Subject(b)
      BY <2>1 DEF Subject
    <3>2. FactsComeFromRecords
      BY <2>3 DEF AnswerIsSupported
    <3>3. ASSUME answer # Unset, NEW fact \in answer.facts
          PROVE  /\ fact.support = "supported" /\ fact.cites # {}
                 /\ \A id \in fact.cites : \E i \in DOMAIN evidence' :
                      LET call == calls'[evidence'[i].output]
                      IN /\ evidence'[i].id = id /\ call.status = "completed" /\ call.scoped
                         /\ {call.inputs.service_name, call.inputs.query} \ {0} = {Subject(fact.by)'}
      <4>1. /\ fact.support = "supported" /\ fact.cites # {}
            /\ \A id \in fact.cites : \E i \in DOMAIN evidence :
                 LET call == calls[evidence[i].output]
                 IN /\ evidence[i].id = id /\ call.status = "completed" /\ call.scoped
                    /\ {call.inputs.service_name, call.inputs.query} \ {0} = {Subject(fact.by)}
        BY <3>2, <3>3 DEF FactsComeFromRecords
      <4> QED
        BY <2>1, <3>1, <4>1
    <3>4. answer # Unset => \A i \in answer.steps : \E c \in report.claims :
              c.support = "supported" /\ evidence[i].id \in c.cites
      BY <3>2 DEF FactsComeFromRecords
    <3> QED
      BY <2>1, <3>3, <3>4 DEF FactsComeFromRecords
  <2>9. CompletedIsWhole'
    BY <2>1, <2>3 DEF AnswerIsSupported, CompletedIsWhole, Recovered
  <2> QED
    BY <2>2, <2>4, <2>7, <2>8, <2>9 DEF DiagnosisInv, AnswerIsSupported
<1> QED
  BY <1>1, <1>2, <1>3, <1>4, <1>5, <1>6, <1>7, <1>8, <1>9, <1>10, <1>11, <1>12 DEF DiagnosisNext

LEMMA DiagnosisHolds == DiagnosisSpec => []DiagnosisInv
<1> QED
  BY DiagnosisBegins, DiagnosisKeeps, PTL DEF DiagnosisSpec

(* A fact is stated only when the review supports it, and cites only       *)
(* completed calls of the run about the service it is of; a run called     *)
(* completed recovered from every call that failed, and looked into every  *)
(* planned service (diagnostic_agents.py, multi_agent_service.py).         *)
THEOREM AnswersSupported == DiagnosisSpec => []AnswerIsSupported
<1>1. DiagnosisInv => AnswerIsSupported
  BY DEF DiagnosisInv
<1> QED
  BY <1>1, DiagnosisHolds, PTL

(* A finished run is opened again with its evidence: each id finds the     *)
(* records it had when it was merged (run_history_service.py).             *)
THEOREM ReopenedAlike == DiagnosisSpec => []ReopenedIsSame
<1>1. DiagnosisInv => ReopenedIsSame
  <2>1. CASE trace.merged = Unset
    BY <2>1 DEF ReopenedIsSame
  <2>2. CASE trace.merged # Unset
    BY <2>2, ReopenedIsMerged
  <2> QED
    BY <2>1, <2>2
<1> QED
  BY <1>1, DiagnosisHolds, PTL
=============================================================================
