------------------------------ MODULE MCWorkflow ------------------------------
(***************************************************************************)
(* Runs of the graph workflow, calls of tools, and the suites that judge   *)
(* such runs, for TLC.  Workflow takes a call for one step, ToolCall what  *)
(* happens in it, Suites a whole run; they share no state, so each         *)
(* behaviour begins with one of them awake and the others asleep: one run  *)
(* checks them all without multiplying their states.                       *)
(***************************************************************************)
EXTENDS Workflow, ToolCall, Suites, TLC

CONSTANTS s1, s2, s3, c1, c2

(* Plans a model may write: up to two steps, with and without a high-risk one. *)
ShortPlans ==
    {steps \in SeqOf({Step("logs", s1), Step("knowledge", NoService), Step("simulate", NoService)}, 2) :
        steps # <<>>}

(* Two commits with the same gold cases, one with others. *)
SomeRules == [t \in Trees |-> IF t = "later" THEN "new" ELSE "old"]

SomeFaults ==
    <<"llm_failure", "none", "missing_approval_checkpoint", "cross_service_tool_failure", "empty_mcp">>

OneTwiceOneOnce == (c1 :> 2) @@ (c2 :> 1)

-----------------------------------------------------------------------------
(* A part that is asleep takes no step, not even to rest: a deadlock of   *)
(* the other one is found.                                                 *)

WorkflowAsleep ==
    /\ query = [mode |-> "single", llm |-> FALSE, services |-> <<>>]
    /\ at = [t \in Threads |-> "done"] /\ graph = [t \in Threads |-> StartState]
    /\ rec = [t \in Threads |-> [from |-> 1, events |-> <<>>]]
    /\ run = [status |-> "completed", answer |-> "asleep"] /\ checkpoint = Absent
    /\ trace = <<>> /\ calls = <<>> /\ decision = Absent
    /\ told = [t \in Threads |-> "nothing"]

ToolsAsleep ==
    /\ main = "closed" /\ thread = FALSE /\ worker = "dead"
    /\ current = NoRequest /\ queue = <<>> /\ served = {}
    /\ future = [r \in Requests \cup {Listing} |-> "pending"]
    /\ call = [c \in Callers |-> [pc |-> "idle", n |-> 1, retry |-> FALSE, row |-> "none", outcome |-> "none"]]
    /\ log = [r \in Requests |-> <<>>]

SuitesAsleep ==
    /\ tree = BaselineTree /\ config = "asleep" /\ app = Untouched
    /\ results = <<>> /\ compared = <<>>
    /\ harness = Ended("none", <<>>) /\ programs = MaxPrograms

WorkflowAndToolsInit ==
    \/ Init /\ ToolsAsleep /\ SuitesAsleep
    \/ WorkflowAsleep /\ CallInit /\ SuitesAsleep
    \/ WorkflowAsleep /\ ToolsAsleep /\ SuitesInit

WorkflowAndToolsNext ==
    \/ Next /\ run.answer # "asleep" /\ UNCHANGED <<callVars, suiteVars>>
    \/ CallNext /\ run.answer = "asleep" /\ config = "asleep" /\ UNCHANGED <<vars, suiteVars>>
    \/ config # "asleep" /\ SuitesNext /\ UNCHANGED <<vars, callVars>>

WorkflowAndToolsSpec ==
    /\ WorkflowAndToolsInit /\ [][WorkflowAndToolsNext]_<<vars, callVars, suiteVars>>
    /\ ThreadsRun

(* The workflow alone, for the run that refutes a promise about decisions. *)
WorkflowAlone ==
    /\ Init /\ ToolsAsleep /\ SuitesAsleep
    /\ [][Next /\ UNCHANGED <<callVars, suiteVars>>]_<<vars, callVars, suiteVars>>
=============================================================================
