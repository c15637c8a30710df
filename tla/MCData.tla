--------------------------------- MODULE MCData ---------------------------------
(***************************************************************************)
(* What the agents' tools stand on, what becomes of the records they       *)
(* bring, and what compares the agents, for TLC: the imports and searches  *)
(* of the knowledge base, questions to the database, the diagnosis and its *)
(* history, the experiment on a data set, the pairs of the offline         *)
(* comparison and the live replay, and the arms with an online model.      *)
(* They share no state, so each behaviour begins with one of them awake    *)
(* and the others asleep: one run checks them all without multiplying      *)
(* their states.                                                           *)
(***************************************************************************)
EXTENDS Knowledge, TextToSql, Diagnosis, Experiment, ModelArms, TLC

CONSTANTS i1, i2, u1, t1

Item(source, title, content) == [source |-> source, title |-> title, content |-> content]

(* Two sources at once; one source twice, the first time with other text. *)
SomePayloads ==
    {<<Item("s1", "a", "a"), Item("s2", "a", "b")>>, <<Item("s1", "b", "b"), Item("s1", "a", "b")>>}

Scores == ("a" :> 1) @@ ("b" :> 2)

(* Two allowed tables, one with a column that is not; one table that is not. *)
AllowList == ("tickets" :> {"id", "title"}) @@ ("error_logs" :> {"id", "level"})

AllColumns ==
    ("tickets" :> {"id", "title"}) @@ ("error_logs" :> {"id", "level", "hidden"})
        @@ ("users" :> {"id", "hidden"})

Table(name, alias) == [name |-> name, alias |-> alias, qualified |-> FALSE]

SomeTables ==
    {<<>>, <<Table("users", "")>>, <<[Table("tickets", "") EXCEPT !.qualified = TRUE]>>}
    \cup {<<Table(n, a)>> : n \in {"tickets", "error_logs"}, a \in {"", "e", "tickets"}}
    \cup {<<Table("tickets", a), Table("error_logs", b)>> :
            a \in {"", "e", "error_logs"}, b \in {"", "e", "tickets"}}

Output(name, alias, star) == [name |-> name, alias |-> alias, star |-> star]

Plain ==
    [kind |-> "select", nodes |-> {}, tables |-> <<Table("tickets", "")>>,
     outputs |-> <<Output("id", "", FALSE)>>, columns |-> <<[table |-> "", name |-> "id"]>>,
     functions |-> {}, limit |-> None, offset |-> None]

(* Statements that differ from a plain one in what one check looks at. *)
SomeStatements ==
    {[Plain EXCEPT !.kind = k] : k \in {"empty", "untokenizable", "unparsable", "many", "other"}}
    \cup {[Plain EXCEPT !.nodes = {"Union"}], [Plain EXCEPT !.functions = {"SLEEP"}],
          [Plain EXCEPT !.functions = {"COUNT"}]}
    \cup {[Plain EXCEPT !.limit = l, !.offset = o] :
            l \in {None, NotInteger, 0, 2, 3}, o \in {None, NotInteger, 1, 2}}
    \cup {[Plain EXCEPT !.outputs = <<Output("id", a, FALSE), Output(n, "", star)>>] :
            a \in {"", "hidden", "n"}, n \in {"id", "", "title"}, star \in BOOLEAN}
    \cup {[Plain EXCEPT !.outputs = <<Output("id", "n", FALSE)>>,
                        !.columns = <<[table |-> "", name |-> "id"], [table |-> t, name |-> "n"]>>] :
            t \in {"", "tickets"}}
    \cup {[Plain EXCEPT !.tables = ts, !.columns = <<[table |-> t, name |-> c]>>] :
            ts \in SomeTables, t \in {"", "e", "tickets", "error_logs"},
            c \in {"id", "level", "hidden"}}

(* A pilot: two services whose branches meet at the meter, against the one *)
(* that visits them in turn; two arms twice and in either order; two       *)
(* services whose usage is reported; and the other variants.               *)
Pilot(size, fault, lineup, repeats, usage) ==
    [size |-> size, fault |-> fault, lineup |-> lineup, repeats |-> repeats, prompt |-> 1, usage |-> usage]

SomePilots ==
    {Pilot(2, "none", <<Alone, Pooled>>, 1, FALSE),
     Pilot(1, "none", <<Alone, "no_followup">>, 2, FALSE),
     Pilot(2, "knowledge_failure", <<Pooled>>, 1, TRUE),
     Pilot(1, "knowledge_failure", <<"serial", "no_verifier", "no_retry">>, 1, TRUE)}

-----------------------------------------------------------------------------
(* A part that is asleep can take no step. *)

KnowledgeAsleep ==
    /\ rows = {} /\ lastId = 0 /\ clock = MaxImports
    /\ importer = [i \in Importers |-> Closed]
    /\ searcher = [s \in Searchers |-> [pc |-> "idle"]]
    /\ cache = NoIndex /\ searches = MaxSearches
    /\ raced = {} /\ late = FALSE

SqlAsleep ==
    /\ query = [pc |-> "raised", attempt |-> 1] /\ prompt = <<>>
    /\ events = <<[kind |-> "llm", status |-> "failed", what |-> "TIMEOUT"]>>

DiagnosisAsleep ==
    /\ reasons = FALSE /\ calls = <<>>
    /\ tasks = [b \in Investigators |-> NewTask("idle")]
    /\ stage = "closed" /\ target = Extra /\ evidence = <<>>
    /\ trace = [events |-> {}, merged |-> Unset] /\ report = Unset /\ answer = Unset

ExperimentAsleep ==
    /\ files = [manifest |-> NoFile, dataset |-> NoFile, raw |-> <<>>, judgments |-> <<>>,
                summary |-> NoFile, blocked |-> FALSE, audit |-> <<>>]
    /\ process = Off("none") /\ crashes = 0 /\ resumes = MaxResumes

ComparisonAsleep ==
    /\ trial = [source |-> "asleep"] /\ bench = [arm |-> "aborted"] /\ outcomes = <<>>

ArmsAsleep ==
    /\ pilot = [size |-> 0] /\ arm = [variant |-> "gone"] /\ wire = <<>> /\ raw = <<>>
    /\ meter = [calls |-> 0, reserved |-> 0, chars |-> 0, tokens |-> 0, known |-> TRUE]
    /\ summary = Unwritten

-----------------------------------------------------------------------------
DataInit ==
    \/ KnowledgeInit /\ SqlAsleep /\ DiagnosisAsleep /\ ExperimentAsleep /\ ComparisonAsleep /\ ArmsAsleep
    \/ KnowledgeAsleep /\ SqlInit /\ DiagnosisAsleep /\ ExperimentAsleep /\ ComparisonAsleep /\ ArmsAsleep
    \/ KnowledgeAsleep /\ SqlAsleep /\ DiagnosisInit /\ ExperimentAsleep /\ ComparisonAsleep /\ ArmsAsleep
    \/ KnowledgeAsleep /\ SqlAsleep /\ DiagnosisAsleep /\ ExperimentInit /\ ComparisonAsleep /\ ArmsAsleep
    \/ KnowledgeAsleep /\ SqlAsleep /\ DiagnosisAsleep /\ ExperimentAsleep /\ ComparisonInit /\ ArmsAsleep
    \/ KnowledgeAsleep /\ SqlAsleep /\ DiagnosisAsleep /\ ExperimentAsleep /\ ComparisonAsleep /\ ArmsInit

(* Importers are interchangeable: one that begins alone is called i1. *)
FirstIsFirst ==
    importer[i2] = Closed /\ importer'[i2] # Closed => importer[i1] # Closed

(* The facts of the first service and of the follow-up cite in every way   *)
(* there is; other claims cite all they know, and the second service       *)
(* states no hypothesis.                                                   *)
OthersCiteAll ==
    \A b \in Investigators : tasks'[b].findings # tasks[b].findings =>
        \A c \in tasks'[b].findings :
            /\ c.by = 2 => c.kind = "fact" /\ tasks'[b].tool = "none"
            /\ c.by = 2 \/ c.kind = "hypothesis" => c.cites = Known(b, tasks'[b])

DataNext ==
    \/ KnowledgeNext /\ FirstIsFirst
          /\ UNCHANGED <<sqlVars, diagnosisVars, experimentVars, comparisonVars, armVars>>
    \/ SqlNext /\ UNCHANGED <<knowledgeVars, diagnosisVars, experimentVars, comparisonVars, armVars>>
    \/ DiagnosisNext /\ OthersCiteAll
          /\ UNCHANGED <<knowledgeVars, sqlVars, experimentVars, comparisonVars, armVars>>
    \/ ExperimentNext /\ UNCHANGED <<knowledgeVars, sqlVars, diagnosisVars, comparisonVars, armVars>>
    \/ trial.source # "asleep" /\ ComparisonNext
          /\ UNCHANGED <<knowledgeVars, sqlVars, diagnosisVars, experimentVars, armVars>>
    \/ ArmsNext /\ UNCHANGED <<knowledgeVars, sqlVars, diagnosisVars, experimentVars, comparisonVars>>

dataVars == <<knowledgeVars, sqlVars, diagnosisVars, experimentVars, comparisonVars, armVars>>

DataSpec == DataInit /\ [][DataNext]_dataVars

(* The experiment alone, for the run that refutes a promise of its manifest. *)
BatchSpec ==
    /\ KnowledgeAsleep /\ SqlAsleep /\ DiagnosisAsleep /\ ExperimentInit /\ ComparisonAsleep /\ ArmsAsleep
    /\ [][ExperimentNext
            /\ UNCHANGED <<knowledgeVars, sqlVars, diagnosisVars, comparisonVars, armVars>>]_dataVars
=============================================================================
