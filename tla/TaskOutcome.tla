----------------------------- MODULE TaskOutcome -----------------------------
(***************************************************************************)
(* What a submitted durable task promises its user, without queue, leases  *)
(* or workers: executions are begun, a bounded number of them for a task   *)
(* that may be repeated and at most one for any other; then the task gets  *)
(* one outcome, either that of its newest execution or a failure that says *)
(* no outcome can be given; and after that nothing more begins.            *)
(* DurableTask implements this specification.                              *)
(***************************************************************************)
EXTENDS Integers, FiniteSets

CONSTANTS Jobs, SafeJobs, MaxAttempts, Answers

VARIABLES
    begun,      \* the attempts of each task that began to execute
    outcome     \* the public state of each task

vars == <<begun, outcome>>

Unsettled == [status |-> "running", answer |-> [by |-> 0, text |-> ""]]

Init ==
    /\ begun = [j \in Jobs |-> {}]
    /\ outcome = [j \in Jobs |-> [status |-> "absent", answer |-> Unsettled.answer]]

Submit(j) ==
    /\ outcome[j].status = "absent"
    /\ outcome' = [outcome EXCEPT ![j] = Unsettled]
    /\ UNCHANGED begun

Begin(j) ==
    /\ outcome[j] = Unsettled
    /\ j \notin SafeJobs => begun[j] = {}
    /\ \E n \in 1..MaxAttempts :
        /\ \A m \in begun[j] : m < n
        /\ begun' = [begun EXCEPT ![j] = @ \cup {n}]
    /\ UNCHANGED outcome

(* The newest execution's answer becomes the task's. *)
Publish(j) ==
    /\ outcome[j] = Unsettled
    /\ \E answer \in Answers, status \in {"completed", "failed", "waiting_approval"} :
        /\ answer.by \in begun[j]
        /\ \A m \in begun[j] : m <= answer.by
        /\ status = "waiting_approval" => j \notin SafeJobs
        /\ outcome' = [outcome EXCEPT ![j] = [status |-> status, answer |-> answer]]
    /\ UNCHANGED begun

(* No execution can be trusted or repeated, or none may begin. *)
GiveUp(j) ==
    /\ outcome[j] = Unsettled
    /\ \E answer \in Answers :
        /\ answer.by = 0
        /\ outcome' = [outcome EXCEPT ![j] = [status |-> "failed", answer |-> answer]]
    /\ UNCHANGED begun

Next == \E j \in Jobs : Submit(j) \/ Begin(j) \/ Publish(j) \/ GiveUp(j)

Spec == Init /\ [][Next]_vars
=============================================================================
