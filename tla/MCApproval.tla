----------------------------- MODULE MCApproval -----------------------------
(* Instances of Approval for TLC. *)
EXTENDS Approval, TLC

(* The lock's connection breaks where both requests approve: a rejection   *)
(* executes no tool.  Otherwise as FairSpec.                               *)
LossOfApprovals == losses' # losses => \A r \in Requests : action[r] = "approve"

ApprovalSpec == Init /\ [][Next /\ LossOfApprovals]_vars /\ Scheduling

(* Requests differ only in the action they carry, which Init enumerates. *)
RequestSymmetry == Permutations(Requests)
=============================================================================
