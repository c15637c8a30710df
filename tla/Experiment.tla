------------------------------ MODULE Experiment ------------------------------
(***************************************************************************)
(* One result directory of the dataset experiment                          *)
(* (eval/run_dataset_experiment.py): every case is investigated by two     *)
(* arms, a judge grades the two anonymous answers, files record it all.    *)
(* The process may be killed anywhere, be stopped by a rate limit and be   *)
(* resumed on the same directory, possibly with changed code.              *)
(*                                                                         *)
(* How good an answer is, is open and known to the judge alone; the judge  *)
(* may also fail.  audit is eval/audit_dataset_run.py.                     *)
(***************************************************************************)
EXTENDS Naturals, Sequences, SequencesExt, FiniteSets, FiniteSetsExt

NoFile == "absent"

CONSTANTS
    Cases,       \* number of cases of the data set
    Versions,    \* what a manifest says of data, model, settings and code
    MaxCrashes, MaxResumes  \* bounds

ASSUME ExperimentAssumption ==
    Cases \in Nat \ {0} /\ NoFile \notin Versions /\ MaxCrashes \in Nat /\ MaxResumes \in Nat

VARIABLES
    files,    \* the directory
    process,  \* the running process and its memory
    crashes, resumes

experimentVars == <<files, process, crashes, resumes>>

-----------------------------------------------------------------------------
SingleArm == "enhanced_single_equal"
MultiArm == "multi"
Arms == {SingleArm, MultiArm}
Torn == [torn |-> TRUE]  \* a line that was not written to its end

Off(end) == [pc |-> "off", end |-> end]

ExperimentInit ==
    /\ files = [manifest |-> NoFile, dataset |-> NoFile, raw |-> <<>>, judgments |-> <<>>,
                summary |-> NoFile, blocked |-> FALSE, audit |-> <<>>]
    /\ process = Off("none")
    /\ crashes = 0 /\ resumes = 0

At(pc) == process.pc = pc

(* Where a sequence tells of a case. *)
OfCase(seq, case) == {n \in DOMAIN seq : seq[n].case = case}

-----------------------------------------------------------------------------
(* main(): the manifest is compared, or written and the data set after it. *)
StartBatch ==
    /\ At("off") /\ process.end # "results" /\ resumes < MaxResumes
    /\ resumes' = resumes + 1
    /\ \E v \in Versions :
         process' = CASE files.manifest = NoFile -> [pc |-> "new", version |-> v]
                      [] files.manifest = v -> [pc |-> "load", version |-> v]
                      [] OTHER -> Off("mixed")
    /\ UNCHANGED <<files, crashes>>

WriteManifest ==
    /\ At("new")
    /\ files' = [files EXCEPT !.manifest = process.version]
    /\ process' = [process EXCEPT !.pc = "copy"]
    /\ UNCHANGED <<crashes, resumes>>

CopyDataset ==
    /\ At("copy")
    /\ files' = [files EXCEPT !.dataset = process.version]
    /\ process' = [process EXCEPT !.pc = "load"]
    /\ UNCHANGED <<crashes, resumes>>

Working(records, grades) ==
    [pc |-> "case", version |-> process.version, index |-> 1,
     records |-> records, grades |-> grades]

(* Mutant: a resumed batch forgets what was answered. *)
LoadGradesOnly ==
    /\ At("load")
    /\ process' = IF Contains(files.raw, Torn) \/ Contains(files.judgments, Torn)
                  THEN Off("unreadable") ELSE Working(<<>>, files.judgments)
    /\ UNCHANGED <<files, crashes, resumes>>

(* What is there already is read; a torn line cannot be. *)
Load ==
    /\ At("load")
    /\ process' = IF Contains(files.raw, Torn) \/ Contains(files.judgments, Torn)
                  THEN Off("unreadable") ELSE Working(files.raw, files.judgments)
    /\ UNCHANGED <<files, crashes, resumes>>

(* Case-alternating arm order. *)
Order == IF process.index % 2 = 1 THEN <<SingleArm, MultiArm>> ELSE <<MultiArm, SingleArm>>

(* Turns in that order whose arm has no record of the case yet. *)
Missing ==
    {turn \in 1..2 :
        \A n \in OfCase(process.records, process.index) : process.records[n].arm # Order[turn]}

(* run_variant: the answer, how good it is, and whether a rate limit hit. *)
RunArm ==
    /\ At("case") /\ process.index <= Cases /\ Missing # {}
    /\ \E good, limited \in BOOLEAN :
         LET record == [case |-> process.index, arm |-> Order[Min(Missing)], good |-> good,
                        limited |-> limited, id |-> Len(process.records),
                        version |-> process.version]
         IN  process' = [process EXCEPT !.pc = "record", !.records = Append(@, record)]
    /\ UNCHANGED <<files, crashes, resumes>>

AppendRecord ==
    /\ At("record")
    /\ files' = [files EXCEPT !.raw = Append(@, Last(process.records)),
                              !.blocked = @ \/ Last(process.records).limited]
    /\ process' = IF Last(process.records).limited THEN Off("limited")
                  ELSE [process EXCEPT !.pc = "case"]
    /\ UNCHANGED <<crashes, resumes>>

(* grade_pair, of the records of the case in the order they were made; no  *)
(* arm has two.                                                            *)
Pair ==
    LET made == OfCase(process.records, process.index)
    IN  <<process.records[Min(made)], process.records[Max(made)]>>

Ordered == IF process.index % 2 = 0 THEN <<Pair[2], Pair[1]>> ELSE Pair

(* Mutant: the labels are given out before the pair is reordered. *)
LabelsFirst == [X |-> Pair[1].arm, Y |-> Pair[2].arm]

Labels == [X |-> Ordered[1].arm, Y |-> Ordered[2].arm]

(* The judge sees the answers by their labels; its assessment of a label   *)
(* is the assessment of the arm that has the label.                        *)
JudgePair ==
    LET verdict == [X |-> Ordered[1].good, Y |-> Ordered[2].good]
        passed == [a \in Arms |-> \E l \in {"X", "Y"} : Labels[l] = a /\ verdict[l]]
    IN
    /\ At("case") /\ process.index <= Cases /\ Missing = {}
    /\ OfCase(process.grades, process.index) = {}
    /\ \E grade \in {[case |-> process.index, graded |-> TRUE, x |-> Ordered[1].arm, passed |-> passed],
                     [case |-> process.index, graded |-> FALSE]} :
         process' = [process EXCEPT !.pc = "judged", !.grades = Append(@, grade)]
    /\ UNCHANGED <<files, crashes, resumes>>

AppendGrade ==
    /\ At("judged")
    /\ files' = [files EXCEPT !.judgments = Append(@, Last(process.grades))]
    /\ process' = [process EXCEPT !.pc = "case"]
    /\ UNCHANGED <<crashes, resumes>>

Graded(grades) == {n \in DOMAIN grades : grades[n].graded}
Failed(grades) == DOMAIN grades \ Graded(grades)

Outcome(g) ==
    LET single == g.passed[SingleArm]  multi == g.passed[MultiArm] IN
    CASE single /\ multi -> "both_pass"
      [] ~single /\ ~multi -> "both_fail"
      [] multi /\ ~single -> "multi_only"
      [] single /\ ~multi -> "single_only"

(* aggregate *)
Aggregate(records, grades) ==
    LET runs == [a \in Arms |-> Cardinality({n \in DOMAIN records : records[n].arm = a})]
        graded == Cardinality(Graded(grades))
    IN
    [variants |-> [a \in Arms |->
        [runs |-> runs[a], graded |-> graded, ungraded |-> runs[a] - graded,
         passed |-> Cardinality({n \in Graded(grades) : grades[n].passed[a]})]],
     paired |-> [o \in {"both_pass", "both_fail", "multi_only", "single_only"} |->
        Cardinality({n \in Graded(grades) : Outcome(grades[n]) = o})],
     failed |-> Cardinality(Failed(grades))]

(* The summary is written after every case, before the next one. *)
Summarize ==
    /\ At("case") /\ process.index <= Cases /\ Missing = {}
    /\ OfCase(process.grades, process.index) # {}
    /\ files' = [files EXCEPT !.summary = Aggregate(process.records, process.grades)]
    /\ process' = [process EXCEPT !.index = @ + 1]
    /\ UNCHANGED <<crashes, resumes>>

EndBatch ==
    /\ At("case") /\ process.index > Cases
    /\ process' = Off("results")
    /\ UNCHANGED <<files, crashes, resumes>>

-----------------------------------------------------------------------------
(* The process is killed, perhaps in the middle of a line. *)
Crash ==
    /\ ~At("off") /\ crashes < MaxCrashes
    /\ crashes' = crashes + 1
    /\ process' = Off("killed")
    /\ \/ UNCHANGED files
       \/ At("record") /\ files' = [files EXCEPT !.raw = Append(@, Torn)]
       \/ At("judged") /\ files' = [files EXCEPT !.judgments = Append(@, Torn)]
    /\ UNCHANGED resumes

(* audit: once, and only where all three files can be read and the data    *)
(* set is there.                                                           *)
Audit ==
    /\ At("off") /\ files.audit = <<>> /\ files.dataset # NoFile
    /\ files.raw # <<>> /\ files.judgments # <<>>
    /\ ~Contains(files.raw, Torn) /\ ~Contains(files.judgments, Torn)
    /\ files' = [files EXCEPT !.audit =
          <<[matches |-> files.dataset = files.manifest,
           arms |-> [c \in 1..Cases |-> Cardinality(OfCase(files.raw, c))],
           judged |-> Cardinality(Graded(files.judgments)),
           failed |-> Cardinality(Failed(files.judgments))]>>]
    /\ UNCHANGED <<process, crashes, resumes>>

ExperimentNext ==
    \/ StartBatch \/ WriteManifest \/ CopyDataset \/ Load \/ RunArm \/ AppendRecord
    \/ JudgePair \/ AppendGrade \/ Summarize \/ EndBatch \/ Crash \/ Audit

ExperimentSpec == ExperimentInit /\ [][ExperimentNext]_experimentVars

-----------------------------------------------------------------------------
(* Properties *)

WholeLines(file) == {n \in DOMAIN file : file[n] # Torn}

(* However often a batch is killed, stopped and resumed: no arm of a case  *)
(* runs twice, no case is judged twice or before both its arms ran, run    *)
(* ids do not repeat, and all of it is the work of one version.            *)
ArmsRunOnce ==
    LET raw == files.raw
        judgments == files.judgments
    IN
    /\ \A m, n \in WholeLines(raw) : m # n =>
         raw[m].id # raw[n].id /\ <<raw[m].case, raw[m].arm>> # <<raw[n].case, raw[n].arm>>
    /\ \A m, n \in WholeLines(judgments) : m # n => judgments[m].case # judgments[n].case
    /\ \A g \in WholeLines(judgments), a \in Arms : \E n \in WholeLines(raw) :
         raw[n].case = judgments[g].case /\ raw[n].arm = a
    /\ \A n \in WholeLines(raw) : raw[n].version = files.manifest

(* Results that are announced are true: every arm ran every case, an arm   *)
(* is credited with its own good answers and no others, and the paired     *)
(* outcomes, the failed judgments and the ungraded runs add up.            *)
SummaryIsTrue ==
    At("off") /\ process.end = "results" =>
        LET s == files.summary
            Credited(a) == {g \in Graded(files.judgments) : \E n \in DOMAIN files.raw :
                files.raw[n].case = files.judgments[g].case /\ files.raw[n].arm = a /\ files.raw[n].good}
        IN
        /\ \A a \in Arms :
             /\ s.variants[a].runs = Cases
             /\ s.variants[a].passed = Cardinality(Credited(a))
             /\ s.variants[a].graded + s.variants[a].ungraded = Cases
        /\ s.failed = s.variants[SingleArm].ungraded
        /\ s.paired["both_pass"] + s.paired["single_only"] = s.variants[SingleArm].passed
        /\ s.paired["both_pass"] + s.paired["multi_only"] = s.variants[MultiArm].passed

(* The results of an experiment are its runs', each counted once. *)
ResultsAreTrue == ArmsRunOnce /\ SummaryIsTrue

(* The manifest's promise of its order, "alternating anonymous judge       *)
(* labels": in successive cases, label X hides different arms.             *)
LabelsAlternate ==
    LET lines == files.judgments
        graded == {n \in WholeLines(lines) : lines[n].graded}
    IN  \A g, h \in graded : lines[h].case = lines[g].case + 1 => lines[h].x # lines[g].x
=============================================================================
