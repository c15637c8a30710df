-------------------------- MODULE DurableTask_proofs --------------------------
(***************************************************************************)
(* Proofs about DurableTask for every set of workers and jobs, every retry *)
(* limit and every lease length: its types, its inductive invariant, what  *)
(* follows from it - the safety and step properties of the durable task    *)
(* pipeline - and that the pipeline implements TaskOutcome.                *)
(***************************************************************************)
EXTENDS DurableTask, FiniteSetTheorems, TLAPS

(* The bounds of the numeric columns. *)
LEMMA LeaseBounds ==
    /\ 0 \in 0..LeaseTicks /\ LeaseTicks \in 0..LeaseTicks
    /\ \A l \in 0..LeaseTicks : Older(l) \in 0..LeaseTicks
    /\ Older(0) = 0
  <1>1. \A l \in 0..LeaseTicks : Older(l) \in 0..LeaseTicks
    <2> TAKE l \in 0..LeaseTicks
    <2> QED BY LeaseAssumption DEF Older
  <1>2. QED
    BY <1>1, LeaseAssumption DEF Older

LEMMA NumberBounds ==
    /\ 0 \in 0..MaxAttempts
    /\ \A n \in Numbers : n \in Nat /\ n \in 0..MaxAttempts /\ n # 0
  BY AttemptsAssumption DEF Numbers

(* What may be written as an answer. *)
LEMMA AnswerTypes ==
    /\ NoAnswer \in Answers
    /\ \A text \in Texts : Reason(text) \in Answers
    /\ \A n \in Numbers, text \in Texts : [by |-> n, text |-> text] \in Answers
  BY NumberBounds DEF NoAnswer, Answers, Reason, Texts

(* The rows before anything happened. *)
LEMMA EmptyRows ==
    /\ [status |-> "absent", attempts |-> 0, token |-> 0, lease |-> 0,
        published |-> 0] \in JobRows
    /\ NoAttempt \in AttemptRows
    /\ NoChild \in ChildRows
    /\ [status |-> "absent", answer |-> NoAnswer] \in RootRows
  BY LeaseBounds, AnswerTypes DEF JobRows, AttemptRows, NoAttempt, ChildRows, NoChild, RootRows

(* What the transactions write into one row keeps the row's type. *)
LEMMA JobRowTypes ==
  ASSUME NEW row \in JobRows
  PROVE  /\ [row EXCEPT !.status = "queued"] \in JobRows
         /\ \A status \in Outcomes :
              [row EXCEPT !.status = status, !.token = 0, !.lease = 0] \in JobRows
         /\ \A status \in Outcomes, n \in Numbers :
              [row EXCEPT !.status = status, !.token = 0, !.lease = 0,
                          !.published = n] \in JobRows
         /\ \A n \in Numbers, token \in Nat, l \in 0..LeaseTicks :
              [row EXCEPT !.status = "running", !.attempts = n, !.token = token,
                          !.lease = l] \in JobRows
         /\ \A l \in 0..LeaseTicks : [row EXCEPT !.lease = l] \in JobRows
  <1>1. 0 \in 0..LeaseTicks /\ \A n \in Numbers : n \in Nat
    BY LeaseBounds, NumberBounds
  <1>2. QED
    BY <1>1 DEF JobRows

LEMMA AttemptRowTypes ==
  ASSUME NEW row \in AttemptRows
  PROVE  /\ \A status \in Outcomes : [row EXCEPT !.status = status] \in AttemptRows
         /\ [row EXCEPT !.status = "expired"] \in AttemptRows
         /\ \A token \in Nat : [status |-> "running", token |-> token] \in AttemptRows
  BY DEF AttemptRows

LEMMA ChildRowTypes ==
  ASSUME NEW row \in ChildRows
  PROVE  /\ [row EXCEPT !.status = "running"] \in ChildRows
         /\ \A status \in Outcomes, answer \in Answers :
              [row EXCEPT !.status = status, !.answer = answer] \in ChildRows
         /\ \A mark \in {"none", "pending", "expired"} :
              [row EXCEPT !.checkpoint = mark] \in ChildRows
         /\ \A status \in Outcomes, answer \in Answers,
               mark \in {"none", "pending", "expired"} :
              [status |-> status, checkpoint |-> mark, answer |-> answer] \in ChildRows
  BY DEF ChildRows

LEMMA RootRowTypes ==
    /\ \A status \in Outcomes, answer \in Answers :
          [status |-> status, answer |-> answer] \in RootRows
    /\ \A row \in RootRows : [row EXCEPT !.status = "running"] \in RootRows
  BY DEF RootRows

LEMMA OutcomeNames ==
    {"completed", "failed", "waiting_approval"} = Outcomes
  BY DEF Outcomes

(* A private run that is failed by its worker. *)
LEMMA FailPrivateRunType ==
  ASSUME NEW c \in Claims, NEW text \in Texts, TypeOK, FailPrivateRun(c, text)
  PROVE  child' \in [Jobs -> [Numbers -> ChildRows]]
  <1>1. c.job \in Jobs /\ c.number \in Numbers
    BY DEF Claims
  <1>2. [by |-> c.number, text |-> text] \in Answers
    BY <1>1, AnswerTypes
  <1>3. child[c.job][c.number] \in ChildRows
    BY <1>1 DEF TypeOK
  <1>4. QED
    BY <1>1, <1>2, <1>3, ChildRowTypes, OutcomeNames DEF FailPrivateRun, TypeOK

-----------------------------------------------------------------------------
(* Type correctness *)

LEMMA InitType == Init => TypeOK
  <1> SUFFICES ASSUME Init PROVE TypeOK
    OBVIOUS
  <1>1. /\ job \in [Jobs -> JobRows] /\ root \in [Jobs -> RootRows]
        /\ attempt \in [Jobs -> [Numbers -> AttemptRows]]
        /\ child \in [Jobs -> [Numbers -> ChildRows]]
        /\ read \in [Workers -> ChildRows]
    BY EmptyRows DEF Init
  <1>2. pc \in [Workers -> PCs] /\ \A w \in Workers : pc[w] = "idle"
    BY DEF Init, PCs
  <1>3. QED
    BY <1>1, <1>2 DEF Init, TypeOK, Owning, Recoveries

(* A worker that leaves run_one holds nothing. *)
LEMMA LeaveType ==
  ASSUME NEW w \in Workers, TypeOK, Leave(w)
  PROVE  /\ pc' \in [Workers -> PCs]
         /\ seen' \in [Workers -> SeenRows \cup {NoSeen}]
         /\ claim' \in [Workers -> Claims \cup {NoClaim}]
         /\ read' \in [Workers -> ChildRows]
         /\ \A v \in Workers : pc'[v] = "selected" => seen'[v] \in SeenRows
         /\ \A v \in Workers : pc'[v] \in Owning => claim'[v] \in Claims
         /\ \A v \in Workers : pc'[v] = "publishing" => read'[v].status \in Outcomes
  BY EmptyRows DEF TypeOK, Leave, PCs, Owning

LEMMA RecoverType ==
  ASSUME TypeOK, NEW j \in Jobs, NEW n \in Numbers, NEW step \in Recoveries, Recover(j, n, step)
  PROVE  recovery' \in [Jobs -> [Numbers -> Recoveries]]
  BY DEF TypeOK, Recover

LEMMA StepType == TypeOK /\ [Next]_vars => TypeOK'
  <1> SUFFICES ASSUME TypeOK, [Next]_vars PROVE TypeOK'
    OBVIOUS
  <1>1. CASE UNCHANGED vars
    BY <1>1 DEF TypeOK, vars
  <1>2. ASSUME NEW w \in Workers, WorkerStep(w) PROVE TypeOK'
    <2>1. CASE PollEmpty(w)
      BY <2>1 DEF PollEmpty, TypeOK, vars
    <2>2. CASE Select(w)
      <3>1. PICK j \in Jobs : /\ Claimable(j)
                             /\ seen' = [seen EXCEPT ![w] =
                                  [job |-> j, status |-> job[j].status,
                                   token |-> job[j].token,
                                   attempts |-> job[j].attempts, left |-> LeaseTicks]]
        BY <2>2 DEF Select
      <3>2. job[j] \in JobRows /\ job[j].status \in {"queued", "running"}
        BY <3>1 DEF TypeOK, Claimable
      <3>3. [job |-> j, status |-> job[j].status, token |-> job[j].token,
             attempts |-> job[j].attempts, left |-> LeaseTicks] \in SeenRows
        BY <3>2, LeaseBounds DEF JobRows, SeenRows
      <3>4. QED
        BY <2>2, <3>1, <3>3 DEF Select, TypeOK, PCs, Owning
    <2>3. CASE ClaimLost(w)
      BY <2>3, LeaveType DEF ClaimLost, TypeOK
    <2>4. CASE ClaimTaken(w)
      <3> DEFINE s == seen[w]
      <3>1. s \in SeenRows /\ s.job \in Jobs /\ s.attempts + 1 \in Numbers
        BY <2>4 DEF ClaimTaken, TypeOK, LedgerAllows, SeenRows
      <3>2. job' \in [Jobs -> JobRows]
        <4>1. job[s.job] \in JobRows /\ issued[s.job] + 1 \in Nat /\ s.left \in 0..LeaseTicks
          BY <3>1 DEF TypeOK, SeenRows
        <4>2. QED
          BY <2>4, <3>1, <4>1, JobRowTypes DEF ClaimTaken, TypeOK
      <3>3. ExpireRow(attempt[s.job], s) \in [Numbers -> AttemptRows]
        BY <3>1, AttemptRowTypes DEF TypeOK, ExpireRow
      <3>4. attempt' \in [Jobs -> [Numbers -> AttemptRows]]
        <4>1. issued[s.job] + 1 \in Nat
          BY <3>1 DEF TypeOK
        <4>2. [status |-> "running", token |-> issued[s.job] + 1] \in AttemptRows
          BY <4>1 DEF AttemptRows
        <4>3. QED
          BY <2>4, <3>1, <3>3, <4>2 DEF ClaimTaken, TypeOK
      <3>5. claim' \in [Workers -> Claims \cup {NoClaim}] /\ claim'[w] \in Claims
        BY <2>4, <3>1 DEF ClaimTaken, TypeOK, Claims
      <3>6. QED
        BY <2>4, <3>1, <3>2, <3>4, <3>5 DEF ClaimTaken, TypeOK, PCs, Owning
    <2>5. CASE ClaimExhausted(w)
      <3> DEFINE s == seen[w]
      <3>1. s \in SeenRows /\ s.job \in Jobs
        BY <2>5 DEF ClaimExhausted, TypeOK, SeenRows
      <3>2. job' \in [Jobs -> JobRows]
        BY <2>5, <3>1, JobRowTypes, OutcomeNames DEF ClaimExhausted, TypeOK
      <3>3. ExpireRow(attempt[s.job], s) \in [Numbers -> AttemptRows]
        BY <3>1, AttemptRowTypes DEF TypeOK, ExpireRow
      <3>4. attempt' \in [Jobs -> [Numbers -> AttemptRows]]
        BY <2>5, <3>1, <3>3 DEF ClaimExhausted, TypeOK
      <3>5. root' \in [Jobs -> RootRows]
        BY <2>5, <3>1, AnswerTypes, RootRowTypes, OutcomeNames DEF ClaimExhausted, TypeOK, Texts
      <3>6. QED
        BY <2>5, <3>2, <3>4, <3>5, LeaveType DEF ClaimExhausted, TypeOK
    <2>6. CASE StartLate(w)
      BY <2>6, LeaveType DEF StartLate, TypeOK
    <2>7. CASE Start(w)
      <3>1. claim[w] \in Claims
        BY <2>7 DEF Start, TypeOK, Owning
      <3>2. child' \in [Jobs -> [Numbers -> ChildRows]]
        <4>1. claim[w].job \in Jobs /\ claim[w].number \in Numbers
          BY <3>1 DEF Claims
        <4>2. child[claim[w].job][claim[w].number] \in ChildRows
          BY <4>1 DEF TypeOK
        <4>3. [child[claim[w].job][claim[w].number] EXCEPT !.status = "running"] \in ChildRows
          BY <4>2, ChildRowTypes
        <4>4. QED
          BY <2>7, <4>1, <4>3 DEF Start, TypeOK
      <3>3. QED
        BY <2>7, <3>1, <3>2 DEF Start, Goto, TypeOK, PCs, Owning
    <2>8. CASE StartRefused(w)
      BY <2>8 DEF StartRefused, Goto, TypeOK, PCs, Owning
    <2>9. CASE FailUnstarted(w)
      <3>1. claim[w] \in Claims
        BY <2>9 DEF FailUnstarted, TypeOK, Owning
      <3>2. job' \in [Jobs -> JobRows]
        BY <2>9, <3>1, JobRowTypes, OutcomeNames DEF FailUnstarted, TypeOK, Claims
      <3>3. attempt' \in [Jobs -> [Numbers -> AttemptRows]]
        BY <2>9, <3>1, AttemptRowTypes, OutcomeNames DEF FailUnstarted, TypeOK, Claims
      <3>4. root' \in [Jobs -> RootRows]
        BY <2>9, <3>1, AnswerTypes, RootRowTypes, OutcomeNames DEF FailUnstarted, TypeOK, Texts, Claims
      <3>5. QED
        BY <2>9, <3>2, <3>3, <3>4, LeaveType DEF FailUnstarted, TypeOK
    <2>10. CASE FailUnstartedLate(w)
      BY <2>10, LeaveType DEF FailUnstartedLate, TypeOK
    <2>11. CASE ExecuteCommit(w)
      <3>1. claim[w] \in Claims
        BY <2>11 DEF ExecuteCommit, TypeOK, Owning
      <3>2. child' \in [Jobs -> [Numbers -> ChildRows]]
        <4>1. Reachable(claim[w].job) \subseteq Outcomes
          BY DEF Reachable, Outcomes
        <4>2. claim[w].job \in Jobs /\ claim[w].number \in Numbers
          BY <3>1 DEF Claims
        <4>3. /\ [by |-> claim[w].number, text |-> "WAITING"] \in Answers
              /\ [by |-> claim[w].number, text |-> "RESULT"] \in Answers
          BY <4>2, AnswerTypes DEF Texts
        <4>4. PICK row \in ChildRows : child' = [child EXCEPT ![claim[w].job][claim[w].number] = row]
          BY <2>11, <4>1, <4>3 DEF ExecuteCommit, ChildRows
        <4>5. QED
          BY <4>2, <4>4 DEF TypeOK
      <3>3. QED
        BY <2>11, <3>1, <3>2 DEF ExecuteCommit, Goto, TypeOK, PCs, Owning
    <2>12. CASE ExecuteReturn(w)
      BY <2>12 DEF ExecuteReturn, Goto, TypeOK, PCs, Owning
    <2>13. CASE ExecuteRaise(w)
      <3>1. claim[w] \in Claims
        BY <2>13 DEF ExecuteRaise, TypeOK, Owning
      <3>2. child' \in [Jobs -> [Numbers -> ChildRows]]
        BY <2>13, <3>1, FailPrivateRunType DEF ExecuteRaise, Texts
      <3>3. QED
        BY <2>13, <3>1, <3>2 DEF ExecuteRaise, Goto, TypeOK, PCs, Owning
    <2>14. CASE PublishStale(w)
      BY <2>14, LeaveType DEF PublishStale, TypeOK
    <2>15. CASE PublishRead(w)
      <3>1. claim[w] \in Claims
        BY <2>15 DEF PublishRead, TypeOK, Owning
      <3>2. ChildOf(claim[w]) \in ChildRows
        BY <3>1 DEF ChildOf, TypeOK, Claims
      <3>3. QED
        BY <2>15, <3>1, <3>2 DEF PublishRead, Publishable, TypeOK, PCs, Owning
    <2>16. CASE InvalidResult(w)
      <3>1. claim[w] \in Claims
        BY <2>16 DEF InvalidResult, TypeOK, Owning
      <3>2. child' \in [Jobs -> [Numbers -> ChildRows]]
        BY <2>16, <3>1, FailPrivateRunType DEF InvalidResult, Texts
      <3>3. QED
        BY <2>16, <3>1, <3>2 DEF InvalidResult, Goto, TypeOK, PCs, Owning
    <2>17. CASE PublishWrite(w)
      <3>1. claim[w] \in Claims /\ read[w] \in ChildRows /\ read[w].status \in Outcomes
        BY <2>17 DEF PublishWrite, TypeOK, Owning
      <3>2. job' \in [Jobs -> JobRows]
        BY <2>17, <3>1, JobRowTypes DEF PublishWrite, TypeOK, Claims
      <3>3. attempt' \in [Jobs -> [Numbers -> AttemptRows]]
        BY <2>17, <3>1, AttemptRowTypes DEF PublishWrite, TypeOK, Claims
      <3>4. root' \in [Jobs -> RootRows]
        <4>1. read[w].answer \in Answers
          BY <3>1 DEF ChildRows
        <4>2. QED
          BY <2>17, <3>1, <4>1, RootRowTypes DEF PublishWrite, TypeOK, Claims
      <3>5. QED
        BY <2>17, <3>2, <3>3, <3>4, LeaveType DEF PublishWrite, TypeOK
    <2>18. CASE PublishFenced(w)
      BY <2>18, LeaveType DEF PublishFenced, TypeOK
    <2>19. QED
      BY <1>2, <2>1, <2>2, <2>3, <2>4, <2>5, <2>6, <2>7, <2>8, <2>9, <2>10, <2>11,
         <2>12, <2>13, <2>14, <2>15, <2>16, <2>17, <2>18 DEF WorkerStep
  <1>3. ASSUME NEW w \in Workers, Renew(w) PROVE TypeOK'
    <2>1. claim[w] \in Claims
      BY <1>3 DEF Renew, Running, Owning, TypeOK
    <2>2. job' \in [Jobs -> JobRows]
      BY <1>3, <2>1, JobRowTypes, LeaseBounds DEF Renew, TypeOK, Claims
    <2>3. QED
      BY <1>3, <2>2 DEF Renew, TypeOK
  <1>4. ASSUME NEW w \in Workers, Crash(w) PROVE TypeOK'
    BY <1>4, LeaveType DEF Crash, TypeOK
  <1>5. CASE Tick
    <2>1. \A j \in Jobs : Older(job[j].lease) \in 0..LeaseTicks
      BY LeaseBounds DEF TypeOK, JobRows
    <2>2. job' \in [Jobs -> JobRows]
      BY <1>5, <2>1, JobRowTypes DEF Tick, TypeOK
    <2>3. \A w \in Workers : seen[w] \in SeenRows => seen'[w] \in SeenRows
      BY <1>5, LeaseBounds DEF Tick, TypeOK, SeenRows
    <2>4. \A w \in Workers : seen[w] = NoSeen => seen'[w] = NoSeen
      BY <1>5, LeaseBounds DEF Tick, NoSeen
    <2>5. QED
      BY <1>5, <2>2, <2>3, <2>4 DEF Tick, TypeOK
  <1>6. ASSUME NEW j \in Jobs, Submit(j) \/ RevokeScope(j) PROVE TypeOK'
    <2>1. CASE Submit(j)
      <3>1. job[j] \in JobRows /\ root[j] \in RootRows
        BY DEF TypeOK
      <3>2. /\ [job[j] EXCEPT !.status = "queued"] \in JobRows
            /\ [root[j] EXCEPT !.status = "running"] \in RootRows
        BY <3>1, JobRowTypes, RootRowTypes
      <3>3. job' \in [Jobs -> JobRows] /\ root' \in [Jobs -> RootRows]
        BY <2>1, <3>2 DEF Submit, TypeOK
      <3>4. QED
        BY <2>1, <3>3 DEF Submit, TypeOK
    <2>2. CASE RevokeScope(j)
      BY <2>2 DEF RevokeScope, TypeOK
    <2>3. QED
      BY <1>6, <2>1, <2>2
  <1>7. ASSUME NEW j \in Jobs, NEW n \in Numbers, CheckpointExpires(j, n) PROVE TypeOK'
    BY <1>7, ChildRowTypes DEF CheckpointExpires, TypeOK
  <1>8. ASSUME NEW j \in Jobs, NEW n \in Numbers, RecoveryWrites(j, n) PROVE TypeOK'
    <2>1. child' \in [Jobs -> [Numbers -> ChildRows]]
      <3>1. [by |-> n, text |-> "APPROVAL_CHECKPOINT_EXPIRED"] \in Answers
        BY AnswerTypes DEF Texts
      <3>2. child[j][n] \in ChildRows
        BY DEF TypeOK
      <3>3. /\ [child[j][n] EXCEPT !.checkpoint = "none"] \in ChildRows
            /\ [status |-> "failed", checkpoint |-> "none",
                answer |-> [by |-> n, text |-> "APPROVAL_CHECKPOINT_EXPIRED"]] \in ChildRows
        BY <3>1, <3>2, ChildRowTypes, OutcomeNames
      <3>4. PICK row \in ChildRows : child' = [child EXCEPT ![j][n] = row]
        BY <1>8, <3>3 DEF RecoveryWrites
      <3>5. QED
        BY <3>4 DEF TypeOK
    <2>2. recovery' \in [Jobs -> [Numbers -> Recoveries]]
      BY <1>8, RecoverType DEF RecoveryWrites, Recoveries
    <2>3. QED
      BY <1>8, <2>1, <2>2 DEF RecoveryWrites, TypeOK
  <1>9. ASSUME NEW j \in Jobs, NEW n \in Numbers, RecoveryReads(j, n) \/ RecoveryStops(j, n)
        PROVE  TypeOK'
    <2>1. recovery' \in [Jobs -> [Numbers -> Recoveries]]
      BY <1>9, RecoverType DEF RecoveryReads, RecoveryStops, Recoveries
    <2>2. QED
      BY <1>9, <2>1 DEF RecoveryReads, RecoveryStops, TypeOK
  <1>10. QED
    BY <1>1, <1>2, <1>3, <1>4, <1>5, <1>6, <1>7, <1>8, <1>9 DEF Next, Environment

(* Every row and every worker keeps the shape the tables and run_one give it. *)
THEOREM TypeCorrect == Spec => []TypeOK
  BY InitType, StepType, PTL DEF Spec

-----------------------------------------------------------------------------
(* The inductive invariant *)

LEMMA NumberRange == \A n \in Numbers : n \in Nat /\ n >= 1 /\ n <= MaxAttempts
  BY AttemptsAssumption DEF Numbers

LEMMA InitIInv == Init => IInv
  <1> SUFFICES ASSUME Init PROVE IInv
    OBVIOUS
  <1>1. TypeOK
    BY InitType
  <1>2. \A w \in Workers : pc[w] = "idle"
    BY DEF Init
  <1>3. SnapshotInv /\ ClaimInv /\ OwnerInv
    BY <1>2 DEF SnapshotInv, ClaimInv, OwnerInv, Owning
  <1>4. \A j \in Jobs : /\ job[j].status = "absent" /\ job[j].attempts = 0
                        /\ job[j].token = 0 /\ job[j].lease = 0 /\ job[j].published = 0
                        /\ issued[j] = 0
                        /\ root[j] = [status |-> "absent", answer |-> NoAnswer]
                        /\ \A n \in Numbers : attempt[j][n] = NoAttempt /\ child[j][n] = NoChild
    BY DEF Init
  <1>5. LedgerConsistent
    BY <1>4, NumberRange DEF LedgerConsistent
  <1>6. TokenInv
    BY <1>4, AttemptsAssumption DEF TokenInv
  <1>7. ChildInv
    BY <1>4 DEF ChildInv, NoChild, Outcomes
  <1>8. UnpublishedInv /\ PublicResult
    BY <1>4 DEF UnpublishedInv, PublicResult, Settled, Outcomes
  <1>9. RecoveryInv
    BY DEF Init, RecoveryInv
  <1>10. QED
    BY <1>1, <1>3, <1>5, <1>6, <1>7, <1>8, <1>9 DEF IInv

-----------------------------------------------------------------------------
(* What IInv says of a worker's snapshot and claim, said once. *)

(* A worker that owns a claim is alone with it, and while it passes the    *)
(* fence its attempt is the last one and nothing is published.             *)
LEMMA OwnerFacts ==
  ASSUME IInv, NEW w \in Workers, pc[w] \in Owning
  PROVE  /\ claim[w].job \in Jobs /\ claim[w].number \in Numbers
         /\ claim[w].token = claim[w].number
         /\ claim[w].number <= job[claim[w].job].attempts
         /\ job[claim[w].job].published # claim[w].number
         /\ \A v \in Workers : v # w /\ pc[v] \in Owning =>
               /\ claim[v].job \in Jobs /\ claim[v].number \in Numbers
               /\ claim[v].job # claim[w].job \/ claim[v].number # claim[w].number
         /\ LeaseHeld(claim[w]) =>
               /\ job[claim[w].job].status = "running"
               /\ claim[w].number = job[claim[w].job].attempts
               /\ job[claim[w].job].published = 0
               /\ RowRunning(claim[w])
  <1>1. \A v \in Workers : pc[v] \in Owning =>
            claim[v] \in Claims /\ claim[v].job \in Jobs /\ claim[v].number \in Numbers
    BY DEF IInv, TypeOK, Claims
  <1>2. /\ claim[w].token = claim[w].number
        /\ claim[w].number <= job[claim[w].job].attempts
        /\ job[claim[w].job].published # claim[w].number
        /\ \A v \in Workers : v # w /\ pc[v] \in Owning =>
              claim[v].job # claim[w].job \/ claim[v].number # claim[w].number
    BY DEF IInv, ClaimInv
  <1>3. ASSUME LeaseHeld(claim[w])
        PROVE  /\ job[claim[w].job].status = "running"
               /\ claim[w].number = job[claim[w].job].attempts
               /\ job[claim[w].job].published = 0
               /\ RowRunning(claim[w])
    <2>1. /\ job[claim[w].job].status = "running"
          /\ job[claim[w].job].token = claim[w].number
          /\ job[claim[w].job].token = job[claim[w].job].attempts
      BY <1>1, <1>2, <1>3 DEF LeaseHeld, IInv, TokenInv
    <2>2. job[claim[w].job].published = 0
      BY <1>1, <2>1 DEF IInv, UnpublishedInv, Settled, Outcomes
    <2>3. RowRunning(claim[w])
      BY <1>1, <1>2, <2>1 DEF IInv, LedgerConsistent, RowRunning, RowOf
    <2>4. QED
      BY <2>1, <2>2, <2>3
  <1>4. QED
    BY <1>1, <1>2, <1>3

(* A candidate that passes the compare-and-swap was read as it still is:   *)
(* nobody claimed it in between, and its last attempt is running if it is. *)
LEMMA SnapshotFacts ==
  ASSUME IInv, NEW w \in Workers, pc[w] = "selected", CasHolds(seen[w])
  PROVE  /\ seen[w] \in SeenRows /\ seen[w].job \in Jobs
         /\ job[seen[w].job].status = seen[w].status
         /\ seen[w].status \in {"queued", "running"}
         /\ seen[w].attempts = job[seen[w].job].attempts
         /\ job[seen[w].job].attempts \in Nat
         /\ job[seen[w].job].attempts = issued[seen[w].job]
         /\ job[seen[w].job].published = 0
         /\ seen[w].status = "queued" => seen[w].attempts = 0
         /\ seen[w].status = "running" =>
               /\ seen[w].attempts \in Numbers
               /\ ActiveRows(seen[w].job, seen[w].token) = {seen[w].attempts}
  <1> DEFINE s == seen[w]
  <1>1. /\ s \in SeenRows /\ s.job \in Jobs /\ s.status \in {"queued", "running"}
        /\ s.attempts \in Nat /\ job[s.job] \in JobRows /\ job[s.job].attempts \in Nat
    BY DEF IInv, TypeOK, SeenRows, JobRows
  <1>2. job[s.job].status = s.status /\ (s.status = "running" => job[s.job].token = s.token)
    BY DEF CasHolds
  <1>3. s.attempts = job[s.job].attempts /\ (s.status = "queued" => s.attempts = 0)
    BY <1>1, <1>2 DEF IInv, SnapshotInv, TokenInv
  <1>4. job[s.job].published = 0 /\ job[s.job].attempts = issued[s.job]
    BY <1>1, <1>2 DEF IInv, UnpublishedInv, LedgerConsistent, Settled, Outcomes
  <1>5. ASSUME s.status = "running"
        PROVE  s.attempts \in Numbers /\ ActiveRows(s.job, s.token) = {s.attempts}
    <2>1. PICK n \in Numbers : /\ n = job[s.job].attempts
                               /\ attempt[s.job][n] = [status |-> "running",
                                                       token |-> job[s.job].token]
      BY <1>1, <1>2, <1>5 DEF IInv, LedgerConsistent
    <2>2. n = s.attempts /\ attempt[s.job][n].status = "running" /\ attempt[s.job][n].token = s.token
      BY <1>2, <1>3, <1>5, <2>1
    <2>3. \A m \in Numbers : m # n => attempt[s.job][m].status # "running"
      <3> TAKE m \in Numbers
      <3>1. CASE m < n
        BY <1>1, <2>1, <3>1 DEF IInv, LedgerConsistent
      <3>2. CASE m > n
        BY <1>1, <2>1, <3>2, NumberRange DEF IInv, LedgerConsistent, NoAttempt
      <3>3. QED
        BY <3>1, <3>2, NumberRange
    <2>4. QED
      BY <2>2, <2>3 DEF ActiveRows
  <1>6. QED
    BY <1>1, <1>2, <1>3, <1>4, <1>5

(* What IInv says of one row. *)
LEMMA RowFacts ==
  ASSUME IInv, NEW j \in Jobs
  PROVE  /\ job[j] \in JobRows /\ job[j].attempts \in Nat
         /\ job[j].attempts = issued[j] /\ job[j].attempts <= MaxAttempts
         /\ \A n \in Numbers :
               /\ attempt[j][n] \in AttemptRows
               /\ attempt[j][n] # NoAttempt <=> n <= job[j].attempts
               /\ n < job[j].attempts => attempt[j][n].status = "expired"
               /\ attempt[j][n] # NoAttempt => attempt[j][n].token = n
               /\ child[j][n] \in ChildRows
               /\ child[j][n].status # "none" => n <= job[j].attempts
  <1>1. job[j] \in JobRows /\ job[j].attempts \in Nat
    BY DEF IInv, TypeOK, JobRows
  <1>2. job[j].attempts = issued[j] /\ job[j].attempts <= MaxAttempts
    BY DEF IInv, LedgerConsistent, TokenInv
  <1>3. ASSUME NEW n \in Numbers
        PROVE  /\ attempt[j][n] \in AttemptRows
               /\ attempt[j][n] # NoAttempt <=> n <= job[j].attempts
               /\ n < job[j].attempts => attempt[j][n].status = "expired"
               /\ attempt[j][n] # NoAttempt => attempt[j][n].token = n
               /\ child[j][n] \in ChildRows
               /\ child[j][n].status # "none" => n <= job[j].attempts
    <2>1. attempt[j][n] \in AttemptRows /\ child[j][n] \in ChildRows
      BY DEF IInv, TypeOK
    <2>2. /\ attempt[j][n] # NoAttempt <=> n <= job[j].attempts
          /\ n < job[j].attempts => attempt[j][n].status = "expired"
      BY DEF IInv, LedgerConsistent
    <2>3. attempt[j][n] # NoAttempt => attempt[j][n].token = n
      BY DEF IInv, TokenInv
    <2>4. child[j][n].status # "none" => n <= job[j].attempts
      BY DEF IInv, ChildInv
    <2>5. QED
      BY <2>1, <2>2, <2>3, <2>4
  <1>4. QED
    BY <1>1, <1>2, <1>3

-----------------------------------------------------------------------------
(* Preservation by the steps that leave something alone. *)

(* The invariants of the tables need nothing from the workers. *)
LEMMA TablesKept ==
  ASSUME IInv, UNCHANGED <<job, attempt, child, root, issued, recovery>>
  PROVE  /\ LedgerConsistent' /\ TokenInv' /\ ChildInv' /\ RecoveryInv'
         /\ UnpublishedInv' /\ PublicResult'
  <1>1. LedgerConsistent'
    BY DEF IInv, LedgerConsistent
  <1>2. TokenInv'
    BY DEF IInv, TokenInv
  <1>3. ChildInv'
    BY DEF IInv, ChildInv
  <1>4. UnpublishedInv' /\ PublicResult'
    BY DEF IInv, UnpublishedInv, PublicResult, Settled, Shows, ExpiredRun
  <1>5. RecoveryInv'
    BY DEF IInv, RecoveryInv
  <1>6. QED
    BY <1>1, <1>2, <1>3, <1>4, <1>5

(* A worker that leaves run_one takes its claim out of the picture. *)
LEMMA LeaveKeeps ==
  ASSUME IInv, NEW w \in Workers, Leave(w)
  PROVE  /\ SnapshotInv'
         /\ \A v \in Workers : pc'[v] \in Owning =>
               v # w /\ pc'[v] = pc[v] /\ claim'[v] = claim[v] /\ read'[v] = read[v]
  <1>1. TypeOK
    BY DEF IInv
  <1>2. SnapshotInv'
    BY <1>1 DEF IInv, SnapshotInv, Leave, TypeOK
  <1>3. \A v \in Workers : pc'[v] \in Owning =>
            v # w /\ pc'[v] = pc[v] /\ claim'[v] = claim[v] /\ read'[v] = read[v]
    BY <1>1 DEF Leave, TypeOK, Owning
  <1>4. QED
    BY <1>2, <1>3

(* Claims stay unshared when owners keep theirs, jobs are claimed again    *)
(* and nothing becomes published.                                          *)
LEMMA ClaimsKept ==
  ASSUME IInv,
         \A v \in Workers : pc'[v] \in Owning => pc[v] \in Owning /\ claim'[v] = claim[v],
         \A j \in Jobs : /\ job[j].attempts <= job'[j].attempts
                         /\ job'[j].attempts \in Nat
                         /\ job'[j].published = job[j].published
  PROVE  ClaimInv'
  <1> SUFFICES ASSUME NEW w \in Workers, pc'[w] \in Owning
               PROVE  LET c == claim'[w]
                      IN /\ c.token = c.number /\ c.number <= job'[c.job].attempts
                         /\ job'[c.job].published # c.number
                         /\ \A v \in Workers \ {w} :
                               pc'[v] \in Owning /\ claim'[v].job = c.job =>
                                  claim'[v].number # c.number
    BY DEF ClaimInv
  <1>1. pc[w] \in Owning /\ claim'[w] = claim[w]
    OBVIOUS
  <1>2. /\ claim[w].job \in Jobs /\ claim[w].number \in Numbers
        /\ claim[w].token = claim[w].number
        /\ claim[w].number <= job[claim[w].job].attempts
        /\ job[claim[w].job].published # claim[w].number
    BY <1>1, OwnerFacts
  <1>3. job[claim[w].job].attempts \in Nat /\ claim[w].number \in Nat
    BY <1>2, NumberRange DEF IInv, TypeOK, JobRows
  <1>4. claim[w].number <= job'[claim[w].job].attempts
    BY <1>2, <1>3
  <1>5. \A v \in Workers \ {w} : pc'[v] \in Owning /\ claim'[v].job = claim[w].job =>
            claim'[v].number # claim[w].number
    BY <1>1, OwnerFacts
  <1>6. QED
    BY <1>1, <1>2, <1>4, <1>5

(* The owners' view of their private runs, when owners and runs stay put. *)
LEMMA OwnersKept ==
  ASSUME IInv,
         \A v \in Workers : pc'[v] \in Owning =>
            pc'[v] = pc[v] /\ claim'[v] = claim[v] /\ read'[v] = read[v],
         UNCHANGED child
  PROVE  OwnerInv'
  BY DEF IInv, OwnerInv, Owning, Unallocated, ChildOf, Shows, ExpiredRun

(* Every step in which a worker only gives up. *)
LEMMA LeaveStep ==
  ASSUME IInv, TypeOK', NEW w \in Workers, Leave(w),
         UNCHANGED <<job, attempt, child, root, issued, recovery>>
  PROVE  IInv'
  <1>1. /\ LedgerConsistent' /\ TokenInv' /\ ChildInv' /\ RecoveryInv'
        /\ UnpublishedInv' /\ PublicResult'
    BY TablesKept
  <1>2. SnapshotInv' /\ OwnerInv'
    BY LeaveKeeps, OwnersKept
  <1>3. ClaimInv'
    <2>1. \A j \in Jobs : job[j].attempts \in Nat
      BY DEF IInv, TypeOK, JobRows
    <2>2. \A v \in Workers : pc'[v] \in Owning => pc[v] \in Owning /\ claim'[v] = claim[v]
      BY LeaveKeeps
    <2>3. QED
      BY <2>1, <2>2, ClaimsKept
  <1>4. QED
    BY <1>1, <1>2, <1>3 DEF IInv

(* Every step in which a worker only moves on to a later label.            *)
LEMMA GotoKeeps ==
  ASSUME IInv, NEW w \in Workers, NEW label \in Owning,
         pc[w] \in Owning, Goto(w, label)
  PROVE  /\ SnapshotInv'
         /\ UNCHANGED <<claim, read>> /\ pc'[w] = label
         /\ \A v \in Workers : v # w => pc'[v] = pc[v]
         /\ \A v \in Workers : pc'[v] \in Owning => pc[v] \in Owning
  <1>1. TypeOK
    BY DEF IInv
  <1>2. /\ UNCHANGED <<claim, read>> /\ pc'[w] = label
        /\ \A v \in Workers : v # w => pc'[v] = pc[v]
    BY <1>1 DEF Goto, TypeOK
  <1>3. SnapshotInv'
    BY <1>1, <1>2 DEF IInv, SnapshotInv, Goto, Owning
  <1>4. QED
    BY <1>2, <1>3

(* Every step in which an owner writes only the private run of its attempt. *)
LEMMA ChildWriteStep ==
  ASSUME IInv, TypeOK', NEW w \in Workers, pc[w] \in Owning,
         NEW label \in {"executing", "committed", "publish"}, Goto(w, label),
         NEW row,
         child' = [child EXCEPT ![claim[w].job][claim[w].number] = row],
         row.status \in {"running"} \cup Outcomes,
         row.status = "running" =>
            row = [status |-> "running", answer |-> NoAnswer, checkpoint |-> "none"],
         row.status \in Outcomes => row.answer.by = claim[w].number,
         row.status = "waiting_approval" =>
            claim[w].job \notin SafeJobs /\ row.checkpoint # "none",
         label = "executing" <=> row.status = "running",
         \/ child[claim[w].job][claim[w].number].status \in {"none", "running"}
         \/ /\ row.status = "failed"
            /\ row.checkpoint = child[claim[w].job][claim[w].number].checkpoint,
         UNCHANGED <<job, attempt, root, issued, recovery>>
  PROVE  IInv'
  <1> DEFINE c == claim[w]
  <1>1. /\ c.job \in Jobs /\ c.number \in Numbers
        /\ c.number <= job[c.job].attempts /\ job[c.job].published # c.number
    BY OwnerFacts
  <1>2. /\ SnapshotInv' /\ UNCHANGED <<claim, read>> /\ pc'[w] = label
        /\ \A v \in Workers : v # w => pc'[v] = pc[v]
        /\ \A v \in Workers : pc'[v] \in Owning => pc[v] \in Owning
    <2>1. label \in Owning
      BY DEF Owning
    <2>2. QED
      BY <2>1, GotoKeeps
  <1>3. /\ child'[c.job][c.number] = row
        /\ \A j \in Jobs, n \in Numbers :
              j # c.job \/ n # c.number => child'[j][n] = child[j][n]
    BY <1>1 DEF IInv, TypeOK
  <1>4. LedgerConsistent' /\ TokenInv' /\ UnpublishedInv'
    <2>1. LedgerConsistent'
      BY DEF IInv, LedgerConsistent
    <2>2. TokenInv'
      BY DEF IInv, TokenInv
    <2>3. UnpublishedInv'
      BY DEF IInv, UnpublishedInv, Settled
    <2>4. QED
      BY <2>1, <2>2, <2>3
  <1>5. ChildInv'
    <2> SUFFICES ASSUME NEW j \in Jobs, NEW n \in Numbers
                 PROVE  /\ child'[j][n].status # "none" => n <= job[j].attempts
                        /\ child'[j][n].status \in {"none", "running"} => child'[j][n] =
                              [status |-> child'[j][n].status, answer |-> NoAnswer,
                               checkpoint |-> "none"]
                        /\ child'[j][n].status \in Outcomes => child'[j][n].answer.by = n
                        /\ child'[j][n].status = "waiting_approval" =>
                              j \notin SafeJobs /\ child'[j][n].checkpoint # "none"
      BY DEF ChildInv
    <2>1. CASE j = c.job /\ n = c.number
      BY <1>1, <1>3, <2>1 DEF Outcomes
    <2>2. CASE j # c.job \/ n # c.number
      BY <1>3, <2>2 DEF IInv, ChildInv
    <2>3. QED
      BY <2>1, <2>2
  <1>6. ClaimInv'
    <2>1. \A j \in Jobs : job[j].attempts \in Nat
      BY DEF IInv, TypeOK, JobRows
    <2>2. QED
      BY <1>2, <2>1, ClaimsKept
  <1>7. OwnerInv'
    <2> SUFFICES ASSUME NEW v \in Workers, pc'[v] \in Owning
                 PROVE  LET run == child'[claim[v].job][claim[v].number]
                        IN /\ pc'[v] \in {"claimed", "unstarted"} => run.status = "none"
                           /\ pc'[v] = "executing" => run.status = "running"
                           /\ pc'[v] \in {"committed", "publish", "publishing"} =>
                                 run.status \in Outcomes
                           /\ pc'[v] = "publishing" =>
                                 /\ read[v].answer.by = claim[v].number
                                 /\ Shows(read[v], run)
                                 /\ read[v].status = "waiting_approval" =>
                                       run.status = "waiting_approval"
      BY <1>2 DEF OwnerInv, Unallocated, ChildOf, Owning
    <2>1. CASE v = w
      BY <1>2, <1>3, <2>1 DEF Outcomes
    <2>2. CASE v # w
      <3>1. /\ pc[v] \in Owning /\ pc'[v] = pc[v]
            /\ claim[v].job \in Jobs /\ claim[v].number \in Numbers
            /\ claim[v].job # c.job \/ claim[v].number # c.number
        BY <1>2, <2>2, OwnerFacts
      <3>2. child'[claim[v].job][claim[v].number] = child[claim[v].job][claim[v].number]
        BY <1>3, <3>1
      <3>3. QED
        BY <3>1, <3>2 DEF IInv, OwnerInv, Unallocated, ChildOf
    <2>3. QED
      BY <2>1, <2>2
  <1>8. PublicResult'
    <2> SUFFICES ASSUME NEW j \in Jobs, job[j].published # 0
                 PROVE  Shows(root[j], child'[j][job[j].published])
      BY DEF IInv, PublicResult, Settled
    <2>1. job[j].published \in Numbers
      BY AttemptsAssumption DEF IInv, TypeOK, JobRows, PublicResult, TokenInv, Numbers
    <2>2. child'[j][job[j].published] = child[j][job[j].published]
      BY <1>1, <1>3, <2>1
    <2>3. QED
      BY <2>2 DEF IInv, PublicResult
  <1>9. RecoveryInv'
    <2> SUFFICES ASSUME NEW j \in Jobs, NEW n \in Numbers
                 PROVE  /\ recovery[j][n] = "delete" =>
                              child'[j][n].status \in {"completed", "failed"}
                        /\ recovery[j][n] = "fail" =>
                              /\ child'[j][n].status \in {"failed", "waiting_approval"}
                              /\ child'[j][n].checkpoint = "expired"
      BY DEF RecoveryInv
    <2>1. CASE j = c.job /\ n = c.number
      BY <1>1, <1>3, <2>1 DEF IInv, RecoveryInv
    <2>2. CASE j # c.job \/ n # c.number
      BY <1>3, <2>2 DEF IInv, RecoveryInv
    <2>3. QED
      BY <2>1, <2>2
  <1>10. QED
    BY <1>2, <1>4, <1>5, <1>6, <1>7, <1>8, <1>9 DEF IInv

-----------------------------------------------------------------------------
(* The actions of run_one, one lemma each. *)

LEMMA SelectStep ==
  ASSUME IInv, TypeOK', NEW w \in Workers, Select(w)
  PROVE  IInv'
  <1>1. TypeOK
    BY DEF IInv
  <1>2. /\ LedgerConsistent' /\ TokenInv' /\ ChildInv' /\ RecoveryInv'
        /\ UnpublishedInv' /\ PublicResult'
    BY TablesKept DEF Select
  <1>3. \A v \in Workers : pc'[v] \in Owning =>
            v # w /\ pc'[v] = pc[v] /\ claim'[v] = claim[v] /\ read'[v] = read[v]
    BY <1>1 DEF Select, TypeOK, Owning
  <1>4. OwnerInv'
    BY <1>3, OwnersKept DEF Select
  <1>5. ClaimInv'
    <2>1. \A j \in Jobs : job[j].attempts \in Nat
      BY <1>1 DEF TypeOK, JobRows
    <2>2. QED
      BY <1>3, <2>1, ClaimsKept DEF Select
  <1>6. SnapshotInv'
    <2>1. PICK j \in Jobs : /\ Claimable(j)
                           /\ seen' = [seen EXCEPT ![w] =
                                [job |-> j, status |-> job[j].status,
                                 token |-> job[j].token,
                                 attempts |-> job[j].attempts, left |-> LeaseTicks]]
      BY DEF Select
    <2>2. /\ seen'[w].status = job[j].status /\ seen'[w].token = job[j].token
          /\ seen'[w].attempts = job[j].attempts
          /\ \A v \in Workers : v # w => seen'[v] = seen[v] /\ pc'[v] = pc[v]
      BY <1>1, <2>1 DEF Select, TypeOK
    <2>3. CASE job[j].status = "queued"
      BY <2>2, <2>3 DEF IInv, SnapshotInv, TokenInv
    <2>4. CASE job[j].status = "running"
      <3>1. \E n \in Numbers : n = job[j].attempts
        BY <2>4 DEF IInv, LedgerConsistent
      <3>2. job[j].attempts > 0
        BY <3>1, NumberRange
      <3>3. QED
        BY <2>2, <2>4, <3>2 DEF IInv, SnapshotInv, TokenInv
    <2>5. QED
      BY <2>1, <2>3, <2>4 DEF Claimable
  <1>7. QED
    BY <1>2, <1>4, <1>5, <1>6 DEF IInv

LEMMA StartStep ==
  ASSUME IInv, TypeOK', NEW w \in Workers, Start(w)
  PROVE  IInv'
  <1> DEFINE c == claim[w]
             row == [child[c.job][c.number] EXCEPT !.status = "running"]
  <1>1. pc[w] \in Owning /\ Goto(w, "executing") /\ UNCHANGED <<job, attempt, root, issued, recovery>>
    BY DEF Start, Owning
  <1>2. c.job \in Jobs /\ c.number \in Numbers
    BY <1>1, OwnerFacts
  <1>3. child[c.job][c.number].status = "none"
    BY DEF Start, Unallocated, ChildOf
  <1>4. row = [status |-> "running", answer |-> NoAnswer, checkpoint |-> "none"]
    <2>1. child[c.job][c.number] = [status |-> "none", answer |-> NoAnswer,
                                    checkpoint |-> "none"]
      BY <1>2, <1>3 DEF IInv, ChildInv
    <2>2. QED
      BY <2>1
  <1>5. child' = [child EXCEPT ![c.job][c.number] = row]
    BY <1>2 DEF Start, IInv, TypeOK
  <1>6. row.status = "running" /\ row.status \notin Outcomes
    BY <1>4 DEF Outcomes
  <1>7. QED
    BY <1>1, <1>3, <1>4, <1>5, <1>6, ChildWriteStep

LEMMA ExecuteCommitStep ==
  ASSUME IInv, TypeOK', NEW w \in Workers, ExecuteCommit(w)
  PROVE  IInv'
  <1> DEFINE c == claim[w]
  <1>1. pc[w] \in Owning /\ Goto(w, "committed") /\ UNCHANGED <<job, attempt, root, issued, recovery>>
    BY DEF ExecuteCommit, Owning
  <1>2. PICK status \in Reachable(c.job) :
            child' = [child EXCEPT ![c.job][c.number] =
              IF status = "waiting_approval"
              THEN [status |-> status, checkpoint |-> "pending",
                    answer |-> [by |-> c.number, text |-> "WAITING"]]
              ELSE [status |-> status, checkpoint |-> "none",
                    answer |-> [by |-> c.number, text |-> "RESULT"]]]
    BY DEF ExecuteCommit
  <1> DEFINE row == IF status = "waiting_approval"
                    THEN [status |-> status, checkpoint |-> "pending",
                          answer |-> [by |-> c.number, text |-> "WAITING"]]
                    ELSE [status |-> status, checkpoint |-> "none",
                          answer |-> [by |-> c.number, text |-> "RESULT"]]
  <1>3. /\ row.status = status /\ row.answer.by = c.number
        /\ status = "waiting_approval" => row.checkpoint # "none"
    OBVIOUS
  <1>4. /\ status \in Outcomes /\ status # "running"
        /\ status = "waiting_approval" => c.job \notin SafeJobs
    BY DEF Reachable, Outcomes
  <1>5. child' = [child EXCEPT ![c.job][c.number] = row]
    BY <1>2
  <1>6. child[c.job][c.number].status = "running"
    BY DEF ExecuteCommit, IInv, OwnerInv, ChildOf
  <1> HIDE DEF row
  <1>7. QED
    BY <1>1, <1>3, <1>4, <1>5, <1>6, ChildWriteStep

(* ExecuteRaise and InvalidResult write the same row. *)
LEMMA FailPrivateRunStep ==
  ASSUME IInv, TypeOK', NEW w \in Workers, pc[w] \in Owning, NEW text,
         FailPrivateRun(claim[w], text), Goto(w, "publish"),
         UNCHANGED <<job, attempt, root, issued, recovery>>
  PROVE  IInv'
  <1> DEFINE c == claim[w]
             row == [child[c.job][c.number] EXCEPT !.status = "failed",
                        !.answer = [by |-> c.number, text |-> text]]
  <1>1. c.job \in Jobs /\ c.number \in Numbers
    BY OwnerFacts
  <1>2. child' = [child EXCEPT ![c.job][c.number] = row]
    BY <1>1 DEF FailPrivateRun, IInv, TypeOK
  <1>3. child[c.job][c.number] \in ChildRows
    BY <1>1 DEF IInv, TypeOK
  <1>4. /\ row.status = "failed" /\ row.answer.by = c.number
        /\ row.checkpoint = child[c.job][c.number].checkpoint
    BY <1>3 DEF ChildRows
  <1> HIDE DEF row
  <1>5. QED
    BY <1>2, <1>4, ChildWriteStep DEF Outcomes

LEMMA PublishReadStep ==
  ASSUME IInv, TypeOK', NEW w \in Workers, PublishRead(w)
  PROVE  IInv'
  <1>1. TypeOK
    BY DEF IInv
  <1>2. /\ LedgerConsistent' /\ TokenInv' /\ ChildInv' /\ RecoveryInv'
        /\ UnpublishedInv' /\ PublicResult'
    BY TablesKept DEF PublishRead
  <1>3. /\ pc'[w] = "publishing" /\ read'[w] = ChildOf(claim[w])
        /\ ChildOf(claim[w]).status \in Outcomes
        /\ UNCHANGED <<claim, child, seen>>
        /\ \A v \in Workers : v # w => pc'[v] = pc[v] /\ read'[v] = read[v]
    BY <1>1 DEF PublishRead, Publishable, TypeOK
  <1>4. SnapshotInv'
    BY <1>3 DEF IInv, SnapshotInv
  <1>5. ClaimInv'
    <2>1. \A j \in Jobs : job[j].attempts \in Nat
      BY <1>1 DEF TypeOK, JobRows
    <2>2. \A v \in Workers : pc'[v] \in Owning => pc[v] \in Owning /\ claim'[v] = claim[v]
      BY <1>3 DEF PublishRead, Owning
    <2>3. QED
      BY <2>1, <2>2, ClaimsKept DEF PublishRead
  <1>6. OwnerInv'
    <2>1. claim[w].job \in Jobs /\ claim[w].number \in Numbers
      BY OwnerFacts DEF PublishRead, Owning
    <2>2. ChildOf(claim[w]).answer.by = claim[w].number
      BY <1>3, <2>1 DEF IInv, ChildInv, ChildOf
    <2> SUFFICES ASSUME NEW v \in Workers
                 PROVE  LET run == child[claim[v].job][claim[v].number]
                        IN /\ pc'[v] \in {"claimed", "unstarted"} => run.status = "none"
                           /\ pc'[v] = "executing" => run.status = "running"
                           /\ pc'[v] \in {"committed", "publish", "publishing"} =>
                                 run.status \in Outcomes
                           /\ pc'[v] = "publishing" =>
                                 /\ read'[v].answer.by = claim[v].number
                                 /\ Shows(read'[v], run)
                                 /\ read'[v].status = "waiting_approval" =>
                                       run.status = "waiting_approval"
      BY <1>3 DEF OwnerInv, Unallocated, ChildOf, Shows, ExpiredRun
    <2>3. CASE v = w
      BY <1>3, <2>2, <2>3 DEF ChildOf, Shows
    <2>4. CASE v # w
      BY <1>3, <2>4 DEF IInv, OwnerInv, Unallocated, ChildOf
    <2>5. QED
      BY <2>3, <2>4
  <1>7. QED
    BY <1>2, <1>4, <1>5, <1>6 DEF IInv

(* StartRefused and ExecuteReturn only move on. *)
LEMMA MoveStep ==
  ASSUME IInv, TypeOK', NEW w \in Workers, StartRefused(w) \/ ExecuteReturn(w)
  PROVE  IInv'
  <1>1. /\ LedgerConsistent' /\ TokenInv' /\ ChildInv' /\ RecoveryInv'
        /\ UnpublishedInv' /\ PublicResult'
    BY TablesKept DEF StartRefused, ExecuteReturn
  <1>2. PICK label \in {"unstarted", "publish"} :
            /\ Goto(w, label) /\ pc[w] \in {"claimed", "committed"}
            /\ label = "unstarted" <=> pc[w] = "claimed"
    BY DEF StartRefused, ExecuteReturn
  <1>3. label \in Owning /\ pc[w] \in Owning
    BY <1>2 DEF Owning
  <1>4. /\ SnapshotInv' /\ UNCHANGED <<claim, read>> /\ pc'[w] = label
        /\ \A v \in Workers : v # w => pc'[v] = pc[v]
        /\ \A v \in Workers : pc'[v] \in Owning => pc[v] \in Owning
    BY <1>2, <1>3, GotoKeeps
  <1>5. UNCHANGED <<job, child>>
    BY DEF StartRefused, ExecuteReturn
  <1>6. ClaimInv'
    <2>1. \A j \in Jobs : job[j].attempts \in Nat
      BY DEF IInv, TypeOK, JobRows
    <2>2. QED
      BY <1>4, <1>5, <2>1, ClaimsKept
  <1>7. OwnerInv'
    BY <1>2, <1>4, <1>5 DEF IInv, OwnerInv, Unallocated, ChildOf, Shows, ExpiredRun
  <1>8. QED
    BY <1>1, <1>4, <1>6, <1>7 DEF IInv

LEMMA ClaimTakenStep ==
  ASSUME IInv, TypeOK', NEW w \in Workers, ClaimTaken(w)
  PROVE  IInv'
  <1> DEFINE s == seen[w]
             j == s.job
             number == s.attempts + 1
  <1>1. /\ s \in SeenRows /\ j \in Jobs /\ s.status \in {"queued", "running"}
        /\ s.attempts = job[j].attempts /\ job[j].attempts \in Nat
        /\ issued[j] = job[j].attempts /\ job[j].published = 0
        /\ s.status = "queued" => s.attempts = 0
        /\ s.status = "running" => /\ s.attempts \in Numbers
                                   /\ ActiveRows(j, s.token) = {s.attempts}
    BY SnapshotFacts DEF ClaimTaken
  <1>2. number \in Numbers /\ number = issued[j] + 1 /\ number > job[j].attempts
    BY <1>1 DEF ClaimTaken, LedgerAllows
  <1>3. /\ job'[j] = [job[j] EXCEPT !.status = "running", !.attempts = number,
                                    !.token = number, !.lease = s.left]
        /\ issued' = [issued EXCEPT ![j] = number]
        /\ \A k \in Jobs : k # j => job'[k] = job[k]
    BY <1>1, <1>2 DEF ClaimTaken, IInv, TypeOK
  <1>4. /\ job'[j].status = "running" /\ job'[j].attempts = number
        /\ job'[j].token = number /\ job'[j].published = 0
    <2>1. job[j] \in JobRows
      BY <1>1 DEF IInv, TypeOK
    <2>2. QED
      BY <1>1, <1>3, <2>1 DEF JobRows
  <1>5. /\ \A k \in Jobs : k # j => attempt'[k] = attempt[k]
        /\ attempt'[j] = [ExpireRow(attempt[j], s) EXCEPT ![number] =
                             [status |-> "running", token |-> number]]
    BY <1>1, <1>2 DEF ClaimTaken, IInv, TypeOK
  <1>6. /\ attempt'[j][number] = [status |-> "running", token |-> number]
        /\ \A n \in Numbers : n # number => attempt'[j][n] = ExpireRow(attempt[j], s)[n]
    BY <1>2, <1>5 DEF ExpireRow
  <1>7. \A n \in Numbers : n # number =>
            attempt'[j][n] = IF s.status = "running" /\ n = s.attempts
                             THEN [attempt[j][n] EXCEPT !.status = "expired"]
                             ELSE attempt[j][n]
    BY <1>1, <1>6 DEF ExpireRow
  <1>8. /\ claim'[w] = [job |-> j, number |-> number, token |-> number]
        /\ pc'[w] = "claimed" /\ UNCHANGED <<child, root, granted, read, recovery>>
        /\ \A v \in Workers : v # w =>
              claim'[v] = claim[v] /\ pc'[v] = pc[v] /\ seen'[v] = seen[v]
    BY <1>1, <1>2 DEF ClaimTaken, IInv, TypeOK
  <1>9. \A n \in Numbers : n # number =>
            /\ attempt'[j][n] # NoAttempt <=> n <= job[j].attempts
            /\ n <= job[j].attempts => /\ attempt'[j][n].status = "expired"
                                       /\ attempt'[j][n].token = n
    <2> TAKE n \in Numbers
    <2>1. /\ attempt[j][n] # NoAttempt <=> n <= job[j].attempts
          /\ n < job[j].attempts => attempt[j][n].status = "expired"
          /\ attempt[j][n] # NoAttempt => attempt[j][n].token = n
          /\ attempt[j][n] \in AttemptRows
      BY <1>1, RowFacts
    <2>2. CASE s.status = "running" /\ n = s.attempts
      <3>1. /\ [attempt[j][n] EXCEPT !.status = "expired"].status = "expired"
            /\ [attempt[j][n] EXCEPT !.status = "expired"].token = attempt[j][n].token
        BY <2>1 DEF AttemptRows
      <3>2. n <= job[j].attempts /\ attempt[j][n].token = n
        BY <1>1, <2>1, <2>2
      <3>3. HAVE n # number
      <3>4. attempt'[j][n] = [attempt[j][n] EXCEPT !.status = "expired"]
        BY <1>7, <2>2, <3>3
      <3>5. attempt'[j][n].status = "expired" /\ attempt'[j][n].token = n
        BY <3>1, <3>2, <3>4
      <3>6. QED
        BY <3>2, <3>5 DEF NoAttempt
    <2>3. CASE ~(s.status = "running" /\ n = s.attempts)
      <3>1. n # job[j].attempts
        BY <1>1, <2>3, NumberRange
      <3>2. HAVE n # number
      <3>3. attempt'[j][n] = attempt[j][n]
        BY <1>7, <2>3, <3>2
      <3>4. n <= job[j].attempts => n < job[j].attempts
        BY <1>1, <3>1, NumberRange
      <3>5. QED
        BY <2>1, <3>3, <3>4
    <2>4. QED
      BY <2>2, <2>3
  <1>10. LedgerConsistent'
    <2>1. ASSUME NEW k \in Jobs, k # j
          PROVE  job'[k] = job[k] /\ attempt'[k] = attempt[k] /\ issued'[k] = issued[k]
      BY <1>3, <1>5, <2>1 DEF IInv, TypeOK
    <2>2. issued'[j] = number
      BY <1>1, <1>3 DEF IInv, TypeOK
    <2>3. ASSUME NEW n \in Numbers
          PROVE  /\ attempt'[j][n] # NoAttempt <=> n <= number
                 /\ n < number => attempt'[j][n].status = "expired"
      BY <1>1, <1>2, <1>6, <1>9, NumberRange DEF NoAttempt
    <2>4. QED
      BY <1>2, <1>4, <1>6, <2>1, <2>2, <2>3 DEF IInv, LedgerConsistent
  <1>11. TokenInv'
    <2>1. number <= MaxAttempts
      BY <1>2, NumberRange
    <2>2. j \notin SafeJobs => number <= 1
      BY <1>1 DEF ClaimTaken, CanRetry
    <2>3. \A n \in Numbers : attempt'[j][n] # NoAttempt => attempt'[j][n].token = n
      BY <1>6, <1>9
    <2> SUFFICES ASSUME NEW k \in Jobs
                 PROVE  /\ job'[k].status \in {"absent", "queued"} => job'[k].attempts = 0
                        /\ job'[k].status = "running" => job'[k].token = job'[k].attempts
                        /\ job'[k].status # "running" => job'[k].token = 0 /\ job'[k].lease = 0
                        /\ job'[k].attempts <= MaxAttempts
                        /\ \A n \in Numbers : attempt'[k][n] # NoAttempt =>
                                                attempt'[k][n].token = n
                        /\ k \notin SafeJobs => job'[k].attempts <= 1
      BY DEF TokenInv
    <2>4. CASE k = j
      BY <1>4, <2>1, <2>2, <2>3, <2>4
    <2>5. CASE k # j
      BY <1>3, <1>5, <2>5 DEF IInv, TokenInv
    <2>6. QED
      BY <2>4, <2>5
  <1>12. SnapshotInv'
    BY <1>8 DEF IInv, SnapshotInv
  <1>13. ChildInv'
    <2>1. ASSUME NEW k \in Jobs
          PROVE  job[k].attempts \in Nat /\ job'[k].attempts \in Nat
                 /\ job[k].attempts <= job'[k].attempts
      <3>1. job[k].attempts \in Nat /\ number \in Nat
        BY <1>2, RowFacts, NumberRange
      <3>2. CASE k = j
        BY <1>2, <1>4, <3>1, <3>2
      <3>3. CASE k # j
        BY <1>3, <3>1, <3>3
      <3>4. QED
        BY <3>2, <3>3
    <2>3. ASSUME NEW k \in Jobs, NEW n \in Numbers, child[k][n].status # "none"
          PROVE  n <= job'[k].attempts
      <3>1. n <= job[k].attempts /\ n \in Nat
        BY <2>3, RowFacts, NumberRange
      <3>2. QED
        BY <2>1, <3>1
    <2>4. QED
      BY <1>8, <2>3 DEF IInv, ChildInv
  <1>14. ClaimInv'
    <2>1. ASSUME NEW v \in Workers, v # w, pc'[v] \in Owning
          PROVE  /\ pc[v] \in Owning /\ claim'[v] = claim[v]
                 /\ claim[v].job \in Jobs /\ claim[v].number \in Numbers
                 /\ claim[v].token = claim[v].number
                 /\ claim[v].number <= job[claim[v].job].attempts
                 /\ job[claim[v].job].published # claim[v].number
                 /\ \A u \in Workers : u # v /\ pc[u] \in Owning =>
                       claim[u].job # claim[v].job \/ claim[u].number # claim[v].number
      BY <1>8, <2>1, OwnerFacts
    <2>2. ASSUME NEW v \in Workers, v # w, pc'[v] \in Owning
          PROVE  /\ claim[v].number <= job'[claim[v].job].attempts
                 /\ job'[claim[v].job].published # claim[v].number
                 /\ claim[v].job = j => claim[v].number # number
      <3>1. /\ claim[v].job \in Jobs /\ claim[v].number \in Nat /\ claim[v].number # 0
            /\ claim[v].number <= job[claim[v].job].attempts
            /\ job[claim[v].job].published # claim[v].number
        BY <2>1, <2>2, NumberRange
      <3>2. CASE claim[v].job = j
        BY <1>1, <1>2, <1>4, <3>1, <3>2
      <3>3. CASE claim[v].job # j
        BY <1>3, <3>1, <3>3
      <3>4. QED
        BY <3>2, <3>3
    <2>3. /\ claim'[w].job = j /\ claim'[w].number = number /\ claim'[w].token = number
          /\ number <= job'[j].attempts /\ job'[j].published # number
      BY <1>2, <1>4, <1>8, NumberRange
    <2>4. ASSUME NEW u \in Workers, pc'[u] \in Owning,
                 NEW v \in Workers \ {u}, pc'[v] \in Owning, claim'[v].job = claim'[u].job
          PROVE  claim'[v].number # claim'[u].number
      <3>1. CASE u = w
        BY <2>2, <2>3, <2>4, <2>1, <3>1
      <3>2. CASE v = w
        BY <2>2, <2>3, <2>4, <2>1, <3>2
      <3>3. CASE u # w /\ v # w
        BY <2>1, <2>4, <3>3
      <3>4. QED
        BY <3>1, <3>2, <3>3
    <2>5. ASSUME NEW u \in Workers, pc'[u] \in Owning
          PROVE  /\ claim'[u].token = claim'[u].number
                 /\ claim'[u].number <= job'[claim'[u].job].attempts
                 /\ job'[claim'[u].job].published # claim'[u].number
      <3>1. CASE u = w
        BY <2>3, <3>1
      <3>2. CASE u # w
        BY <2>1, <2>2, <2>5, <3>2
      <3>3. QED
        BY <3>1, <3>2
    <2>6. QED
      BY <2>4, <2>5 DEF ClaimInv
  <1>15. OwnerInv'
    <2>1. child[j][number].status = "none"
      BY <1>1, <1>2, RowFacts, NumberRange
    <2>2. child'[claim'[w].job][claim'[w].number].status = "none" /\ pc'[w] = "claimed"
      BY <1>8, <2>1
    <2>3. \A v \in Workers : v # w =>
              claim'[v] = claim[v] /\ pc'[v] = pc[v] /\ read'[v] = read[v]
      BY <1>8
    <2>4. QED
      BY <1>8, <2>2, <2>3 DEF IInv, OwnerInv, Unallocated, ChildOf, Shows, ExpiredRun
  <1>16. UnpublishedInv' /\ PublicResult'
    <2>1. job[j].status \in {"queued", "running"}
      BY SnapshotFacts DEF ClaimTaken
    <2>2. UnpublishedInv'
      BY <1>3, <1>4, <1>8 DEF IInv, UnpublishedInv, Settled, Outcomes
    <2>3. PublicResult'
      <3>1. root[j] = [status |-> "running", answer |-> NoAnswer]
        BY <1>1, <2>1 DEF IInv, PublicResult
      <3>2. ASSUME NEW k \in Jobs
            PROVE  /\ job'[k].status \in {"queued", "running"} =>
                          root[k] = [status |-> "running", answer |-> NoAnswer]
                   /\ job'[k].status \in Outcomes => root[k].status = job'[k].status
                   /\ job'[k].status \in Outcomes /\ job'[k].published = 0 =>
                          /\ job'[k].status = "failed"
                          /\ root[k].answer \in {Reason("SCOPE_CHANGED"),
                                Reason("RETRY_LIMIT_REACHED"),
                                Reason("EXECUTION_OUTCOME_UNKNOWN")}
                   /\ job'[k].published # 0 =>
                          /\ job'[k].status \in Outcomes
                          /\ job'[k].published = job'[k].attempts
                          /\ root[k].answer.by = job'[k].published
                          /\ Shows(root[k], child[k][job'[k].published])
        <4>1. CASE k = j
          BY <1>4, <3>1, <4>1 DEF Outcomes
        <4>2. CASE k # j
          BY <1>3, <4>2 DEF IInv, PublicResult, Settled
        <4>3. QED
          BY <4>1, <4>2
      <3>3. QED
        BY <1>8, <3>2 DEF PublicResult, Settled, Shows, ExpiredRun
    <2>4. QED
      BY <2>2, <2>3
  <1>17. RecoveryInv'
    BY <1>8 DEF IInv, RecoveryInv
  <1>18. QED
    BY <1>10, <1>11, <1>12, <1>13, <1>14, <1>15, <1>16, <1>17 DEF IInv

(* The three transactions that settle a job (the claim that finds it       *)
(* exhausted, the refusal of its scope, the publication of its result)     *)
(* write the same rows: the job's, its last attempt's and the public run.  *)
LEMMA SettleStep ==
  ASSUME IInv, TypeOK', NEW w \in Workers, Leave(w),
         NEW j \in Jobs, job[j].status = "running",
         NEW last \in Numbers, last = job[j].attempts,
         job'[j].status \in Outcomes, job'[j].attempts = job[j].attempts,
         job'[j].token = 0, job'[j].lease = 0,
         \A k \in Jobs : k # j =>
            job'[k] = job[k] /\ attempt'[k] = attempt[k] /\ root'[k] = root[k],
         \A n \in Numbers : n # last => attempt'[j][n] = attempt[j][n],
         attempt'[j][last].status # "none",
         attempt'[j][last].token = attempt[j][last].token,
         root'[j].status = job'[j].status,
         \/ /\ job'[j].published = 0 /\ job'[j].status = "failed"
            /\ root'[j].answer \in {Reason("SCOPE_CHANGED"),
                  Reason("RETRY_LIMIT_REACHED"), Reason("EXECUTION_OUTCOME_UNKNOWN")}
         \/ /\ job'[j].published = last
            /\ root'[j].answer.by = last
            /\ Shows(root'[j], child[j][last])
            /\ pc[w] \in Owning /\ claim[w].job = j /\ claim[w].number = last,
         UNCHANGED <<child, issued, recovery>>
  PROVE  IInv'
  <1>1. /\ job[j].attempts \in Nat /\ last \in Nat /\ last # 0
        /\ attempt[j][last] # NoAttempt /\ attempt[j][last].token = last
    BY RowFacts, NumberRange
  <1>2. attempt'[j][last] # NoAttempt /\ attempt'[j][last].token = last
    BY <1>1 DEF NoAttempt
  <1>3. LedgerConsistent'
    <2> SUFFICES ASSUME NEW k \in Jobs
                 PROVE  /\ job'[k].attempts = issued[k]
                        /\ \A n \in Numbers :
                              /\ attempt'[k][n] # NoAttempt <=> n <= job'[k].attempts
                              /\ n < job'[k].attempts => attempt'[k][n].status = "expired"
                        /\ job'[k].status = "running" =>
                              \E n \in Numbers :
                                 /\ n = job'[k].attempts
                                 /\ attempt'[k][n] = [status |-> "running",
                                                      token |-> job'[k].token]
      BY DEF LedgerConsistent
    <2>1. CASE k # j
      BY <2>1 DEF IInv, LedgerConsistent
    <2>2. CASE k = j
      <3>1. ASSUME NEW n \in Numbers
            PROVE  /\ attempt'[j][n] # NoAttempt <=> n <= job[j].attempts
                   /\ n < job[j].attempts => attempt'[j][n].status = "expired"
        <4>1. CASE n = last
          BY <1>1, <1>2, <4>1
        <4>2. CASE n # last
          BY <4>2, RowFacts
        <4>3. QED
          BY <4>1, <4>2
      <3>2. job[j].attempts = issued[j]
        BY RowFacts
      <3>3. job'[j].status # "running"
        BY DEF Outcomes
      <3>4. QED
        BY <2>2, <3>1, <3>2, <3>3
    <2>3. QED
      BY <2>1, <2>2
  <1>4. TokenInv'
    <2> SUFFICES ASSUME NEW k \in Jobs
                 PROVE  /\ job'[k].status \in {"absent", "queued"} => job'[k].attempts = 0
                        /\ job'[k].status = "running" => job'[k].token = job'[k].attempts
                        /\ job'[k].status # "running" => job'[k].token = 0 /\ job'[k].lease = 0
                        /\ job'[k].attempts <= MaxAttempts
                        /\ \A n \in Numbers : attempt'[k][n] # NoAttempt =>
                                                attempt'[k][n].token = n
                        /\ k \notin SafeJobs => job'[k].attempts <= 1
      BY DEF TokenInv
    <2>1. CASE k # j
      BY <2>1 DEF IInv, TokenInv
    <2>2. CASE k = j
      <3>1. \A n \in Numbers : attempt'[j][n] # NoAttempt => attempt'[j][n].token = n
        BY <1>2, RowFacts
      <3>2. job[j].attempts <= MaxAttempts /\ (j \notin SafeJobs => job[j].attempts <= 1)
        BY DEF IInv, TokenInv
      <3>3. QED
        BY <2>2, <3>1, <3>2 DEF Outcomes
    <2>3. QED
      BY <2>1, <2>2
  <1>5. ChildInv'
    <2>1. \A k \in Jobs : job'[k].attempts = job[k].attempts
      OBVIOUS
    <2>2. QED
      BY <2>1 DEF IInv, ChildInv
  <1>6. SnapshotInv' /\ OwnerInv'
    BY LeaveKeeps, OwnersKept
  <1>7. ClaimInv'
    <2> SUFFICES ASSUME NEW u \in Workers, pc'[u] \in Owning
                 PROVE  LET c == claim'[u]
                        IN /\ c.token = c.number /\ c.number <= job'[c.job].attempts
                           /\ job'[c.job].published # c.number
                           /\ \A v \in Workers \ {u} :
                                 pc'[v] \in Owning /\ claim'[v].job = c.job =>
                                    claim'[v].number # c.number
      BY DEF ClaimInv
    <2>1. u # w /\ pc[u] \in Owning /\ claim'[u] = claim[u]
      BY LeaveKeeps
    <2>2. /\ claim[u].job \in Jobs /\ claim[u].number \in Numbers
          /\ claim[u].token = claim[u].number
          /\ claim[u].number <= job[claim[u].job].attempts
          /\ job[claim[u].job].published # claim[u].number
          /\ \A v \in Workers : v # u /\ pc[v] \in Owning =>
                claim[v].job # claim[u].job \/ claim[v].number # claim[u].number
      BY <2>1, OwnerFacts
    <2>3. claim[u].number <= job'[claim[u].job].attempts
      BY <2>2
    <2>4. job'[claim[u].job].published # claim[u].number
      <3>1. CASE claim[u].job # j
        BY <2>2, <3>1
      <3>2. CASE claim[u].job = j
        BY <2>1, <2>2, <3>2, NumberRange
      <3>3. QED
        BY <3>1, <3>2
    <2>5. \A v \in Workers \ {u} :
             pc'[v] \in Owning /\ claim'[v].job = claim[u].job =>
                claim'[v].number # claim[u].number
      BY <2>2, LeaveKeeps
    <2>6. QED
      BY <2>1, <2>2, <2>3, <2>4, <2>5
  <1>8. UnpublishedInv'
    <2> SUFFICES ASSUME NEW k \in Jobs
                 PROVE  /\ job'[k].status \notin Outcomes => job'[k].published = 0
                        /\ job'[k].status = "absent" =>
                              root'[k] = [status |-> "absent", answer |-> NoAnswer]
      BY DEF UnpublishedInv, Settled
    <2>1. CASE k # j
      BY <2>1 DEF IInv, UnpublishedInv, Settled
    <2>2. CASE k = j
      BY <2>2 DEF Outcomes
    <2>3. QED
      BY <2>1, <2>2
  <1>9. PublicResult'
    <2> SUFFICES ASSUME NEW k \in Jobs
                 PROVE  /\ job'[k].status \in {"queued", "running"} =>
                              root'[k] = [status |-> "running", answer |-> NoAnswer]
                        /\ job'[k].status \in Outcomes => root'[k].status = job'[k].status
                        /\ job'[k].status \in Outcomes /\ job'[k].published = 0 =>
                              /\ job'[k].status = "failed"
                              /\ root'[k].answer \in {Reason("SCOPE_CHANGED"),
                                    Reason("RETRY_LIMIT_REACHED"),
                                    Reason("EXECUTION_OUTCOME_UNKNOWN")}
                        /\ job'[k].published # 0 =>
                              /\ job'[k].status \in Outcomes
                              /\ job'[k].published = job'[k].attempts
                              /\ root'[k].answer.by = job'[k].published
                              /\ Shows(root'[k], child[k][job'[k].published])
      BY DEF PublicResult, Settled, Shows, ExpiredRun
    <2>1. CASE k # j
      BY <2>1 DEF IInv, PublicResult, Settled
    <2>2. CASE k = j
      BY <1>1, <2>2 DEF Outcomes
    <2>3. QED
      BY <2>1, <2>2
  <1>10. RecoveryInv'
    BY DEF IInv, RecoveryInv
  <1>11. QED
    BY <1>3, <1>4, <1>5, <1>6, <1>7, <1>8, <1>9, <1>10 DEF IInv

LEMMA ClaimExhaustedStep ==
  ASSUME IInv, TypeOK', NEW w \in Workers, ClaimExhausted(w)
  PROVE  IInv'
  <1> DEFINE s == seen[w]
             j == s.job
             why == IF j \in SafeJobs THEN "RETRY_LIMIT_REACHED"
                                      ELSE "EXECUTION_OUTCOME_UNKNOWN"
  <1>1. /\ j \in Jobs /\ s.status = "running" /\ job[j].status = "running"
        /\ s.attempts = job[j].attempts /\ s.attempts \in Numbers
        /\ job[j].published = 0 /\ ActiveRows(j, s.token) = {s.attempts}
    BY SnapshotFacts DEF ClaimExhausted, CanRetry
  <1>2. job[j] \in JobRows /\ attempt[j][s.attempts] \in AttemptRows
    BY <1>1, RowFacts
  <1>3. /\ job'[j].status = "failed" /\ job'[j].attempts = job[j].attempts
        /\ job'[j].token = 0 /\ job'[j].lease = 0 /\ job'[j].published = 0
    BY <1>1, <1>2 DEF ClaimExhausted, IInv, TypeOK, JobRows
  <1>4. /\ root'[j] = [status |-> "failed", answer |-> Reason(why)]
        /\ \A k \in Jobs : k # j =>
              job'[k] = job[k] /\ attempt'[k] = attempt[k] /\ root'[k] = root[k]
        /\ attempt'[j] = ExpireRow(attempt[j], s)
        /\ Leave(w) /\ UNCHANGED <<child, issued, recovery>>
    BY <1>1 DEF ClaimExhausted, IInv, TypeOK
  <1>5. /\ \A n \in Numbers : n # s.attempts => attempt'[j][n] = attempt[j][n]
        /\ attempt'[j][s.attempts] = [attempt[j][s.attempts] EXCEPT !.status = "expired"]
    BY <1>1, <1>4 DEF ExpireRow
  <1>6. /\ attempt'[j][s.attempts].status # "none"
        /\ attempt'[j][s.attempts].token = attempt[j][s.attempts].token
    BY <1>2, <1>5 DEF AttemptRows
  <1>7. /\ root'[j].status = job'[j].status /\ job'[j].status \in Outcomes
        /\ job'[j].status = "failed"
        /\ root'[j].answer \in {Reason("SCOPE_CHANGED"), Reason("RETRY_LIMIT_REACHED"),
                                Reason("EXECUTION_OUTCOME_UNKNOWN")}
    BY <1>3, <1>4 DEF Outcomes
  <1> HIDE DEF s, j, why
  <1>8. QED
    BY <1>1, <1>3, <1>4, <1>5, <1>6, <1>7, SettleStep

LEMMA FailUnstartedStep ==
  ASSUME IInv, TypeOK', NEW w \in Workers, FailUnstarted(w)
  PROVE  IInv'
  <1> DEFINE c == claim[w]
             j == c.job
             n == c.number
  <1>1. /\ j \in Jobs /\ n \in Numbers /\ job[j].status = "running"
        /\ n = job[j].attempts /\ job[j].published = 0
    BY OwnerFacts DEF FailUnstarted, Owning
  <1>2. job[j] \in JobRows /\ attempt[j][n] \in AttemptRows
    BY <1>1, RowFacts
  <1>3. /\ job'[j].status = "failed" /\ job'[j].attempts = job[j].attempts
        /\ job'[j].token = 0 /\ job'[j].lease = 0 /\ job'[j].published = 0
    BY <1>1, <1>2 DEF FailUnstarted, IInv, TypeOK, JobRows
  <1>4. /\ root'[j] = [status |-> "failed", answer |-> Reason("SCOPE_CHANGED")]
        /\ \A k \in Jobs : k # j =>
              job'[k] = job[k] /\ attempt'[k] = attempt[k] /\ root'[k] = root[k]
        /\ Leave(w) /\ UNCHANGED <<child, issued, recovery>>
    BY <1>1 DEF FailUnstarted, IInv, TypeOK
  <1>5. /\ \A m \in Numbers : m # n => attempt'[j][m] = attempt[j][m]
        /\ attempt'[j][n] = [attempt[j][n] EXCEPT !.status = "failed"]
    <2>1. attempt'[j] = [attempt[j] EXCEPT ![n] = [@ EXCEPT !.status = "failed"]]
      BY <1>1 DEF FailUnstarted, IInv, TypeOK
    <2>2. attempt[j] \in [Numbers -> AttemptRows]
      BY <1>1 DEF IInv, TypeOK
    <2>3. QED
      BY <1>1, <2>1, <2>2
  <1>6. attempt'[j][n].status # "none" /\ attempt'[j][n].token = attempt[j][n].token
    BY <1>2, <1>5 DEF AttemptRows
  <1>7. /\ root'[j].status = job'[j].status /\ job'[j].status \in Outcomes
        /\ job'[j].status = "failed"
        /\ root'[j].answer \in {Reason("SCOPE_CHANGED"), Reason("RETRY_LIMIT_REACHED"),
                                Reason("EXECUTION_OUTCOME_UNKNOWN")}
    BY <1>3, <1>4 DEF Outcomes
  <1> HIDE DEF c, j, n
  <1>8. QED
    BY <1>1, <1>3, <1>4, <1>5, <1>6, <1>7, SettleStep

(* What shows a run is the status and the answer alone. *)
LEMMA ShowsAlike ==
  ASSUME NEW old, NEW row, NEW run, Shows(old, run),
         row.status = old.status, row.answer = old.answer
  PROVE  Shows(row, run)
  BY DEF Shows

LEMMA PublishWriteStep ==
  ASSUME IInv, TypeOK', NEW w \in Workers, PublishWrite(w)
  PROVE  IInv'
  <1> DEFINE c == claim[w]
             j == c.job
             n == c.number
  <1>1. /\ j \in Jobs /\ n \in Numbers /\ job[j].status = "running"
        /\ n = job[j].attempts /\ pc[w] \in Owning
    BY OwnerFacts DEF PublishWrite, Owning
  <1>2. job[j] \in JobRows /\ attempt[j][n] \in AttemptRows
    BY <1>1, RowFacts
  <1>3. /\ read[w].status \in Outcomes
        /\ read[w].answer.by = n /\ Shows(read[w], child[j][n])
    BY DEF PublishWrite, IInv, TypeOK, OwnerInv, ChildOf
  <1>4. /\ job'[j].status = read[w].status /\ job'[j].attempts = job[j].attempts
        /\ job'[j].token = 0 /\ job'[j].lease = 0 /\ job'[j].published = n
    BY <1>1, <1>2 DEF PublishWrite, IInv, TypeOK, JobRows
  <1>5. /\ root'[j] = [status |-> read[w].status, answer |-> read[w].answer]
        /\ \A k \in Jobs : k # j =>
              job'[k] = job[k] /\ attempt'[k] = attempt[k] /\ root'[k] = root[k]
        /\ Leave(w) /\ UNCHANGED <<child, issued, recovery>>
    BY <1>1 DEF PublishWrite, IInv, TypeOK
  <1>6. /\ \A m \in Numbers : m # n => attempt'[j][m] = attempt[j][m]
        /\ attempt'[j][n] = [attempt[j][n] EXCEPT !.status = read[w].status]
    BY <1>1 DEF PublishWrite, IInv, TypeOK
  <1>7. attempt'[j][n].status # "none" /\ attempt'[j][n].token = attempt[j][n].token
    BY <1>2, <1>3, <1>6 DEF AttemptRows, Outcomes
  <1>8. /\ root'[j].status = job'[j].status /\ job'[j].status \in Outcomes
    BY <1>3, <1>4, <1>5
  <1>9. /\ job'[j].published = n
        /\ root'[j].answer.by = n
        /\ Shows(root'[j], child[j][n])
        /\ pc[w] \in Owning /\ claim[w].job = j /\ claim[w].number = n
    BY <1>1, <1>3, <1>4, <1>5, ShowsAlike
  <1>10. /\ job'[j].attempts = job[j].attempts /\ job'[j].token = 0 /\ job'[j].lease = 0
         /\ root'[j].status = job'[j].status /\ job'[j].status \in Outcomes
    BY <1>4, <1>8
  <1>11. \/ /\ job'[j].published = 0 /\ job'[j].status = "failed"
            /\ root'[j].answer \in {Reason("SCOPE_CHANGED"),
                  Reason("RETRY_LIMIT_REACHED"), Reason("EXECUTION_OUTCOME_UNKNOWN")}
         \/ /\ job'[j].published = n
            /\ root'[j].answer.by = n
            /\ Shows(root'[j], child[j][n])
            /\ pc[w] \in Owning /\ claim[w].job = j /\ claim[w].number = n
    BY <1>9
  <1>12. \A m \in Numbers : m # n => attempt'[j][m] = attempt[j][m]
    BY <1>6
  <1> HIDE DEF c, j, n
  <1>13. QED
    BY <1>1, <1>5, <1>7, <1>10, <1>11, <1>12, SettleStep

-----------------------------------------------------------------------------
(* The heartbeat and the environment. *)

(* Renewing a lease and letting time pass change the age of leases only. *)
LEMMA LeaseStep ==
  ASSUME IInv, TypeOK',
         \A j \in Jobs : /\ job'[j].status = job[j].status
                         /\ job'[j].attempts = job[j].attempts
                         /\ job'[j].token = job[j].token
                         /\ job'[j].published = job[j].published
                         /\ job[j].status # "running" => job'[j].lease = 0,
         \A w \in Workers : /\ seen'[w].status = seen[w].status
                            /\ seen'[w].token = seen[w].token
                            /\ seen'[w].attempts = seen[w].attempts,
         UNCHANGED <<attempt, child, root, issued, pc, claim, read, recovery>>
  PROVE  IInv'
  <1>1. LedgerConsistent'
    BY DEF IInv, LedgerConsistent
  <1>2. TokenInv'
    BY DEF IInv, TokenInv
  <1>3. SnapshotInv'
    BY DEF IInv, SnapshotInv
  <1>4. ClaimInv'
    <2>1. \A v \in Workers : pc'[v] \in Owning => pc[v] \in Owning /\ claim'[v] = claim[v]
      OBVIOUS
    <2>2. \A j \in Jobs : job[j].attempts <= job'[j].attempts /\ job'[j].attempts \in Nat
      BY RowFacts
    <2>3. QED
      BY <2>1, <2>2, ClaimsKept
  <1>5. ChildInv'
    BY DEF IInv, ChildInv
  <1>6. OwnerInv'
    BY OwnersKept
  <1>7. UnpublishedInv'
    BY DEF IInv, UnpublishedInv, Settled
  <1>8. PublicResult'
    BY DEF IInv, PublicResult, Settled, Shows, ExpiredRun
  <1>9. RecoveryInv'
    BY DEF IInv, RecoveryInv
  <1>10. QED
    BY <1>1, <1>2, <1>3, <1>4, <1>5, <1>6, <1>7, <1>8, <1>9 DEF IInv

LEMMA RenewStep ==
  ASSUME IInv, TypeOK', NEW w \in Workers, Renew(w)
  PROVE  IInv'
  <1> DEFINE j == claim[w].job
  <1>1. j \in Jobs /\ job[j].status = "running" /\ job[j] \in JobRows
    <2>1. pc[w] \in Owning
      BY DEF Renew, Running, Owning
    <2>2. j \in Jobs
      BY <2>1, OwnerFacts
    <2>3. QED
      BY <2>2, RowFacts DEF Renew, LeaseHeld
  <1>2. /\ job'[j] = [job[j] EXCEPT !.lease = LeaseTicks]
        /\ \A k \in Jobs : k # j => job'[k] = job[k]
    BY <1>1 DEF Renew, IInv, TypeOK
  <1>3. /\ job'[j].status = job[j].status /\ job'[j].attempts = job[j].attempts
        /\ job'[j].token = job[j].token /\ job'[j].published = job[j].published
    BY <1>1, <1>2 DEF JobRows
  <1>4. \A k \in Jobs : /\ job'[k].status = job[k].status
                        /\ job'[k].attempts = job[k].attempts
                        /\ job'[k].token = job[k].token
                        /\ job'[k].published = job[k].published
                        /\ job[k].status # "running" => job'[k].lease = 0
    BY <1>1, <1>2, <1>3 DEF IInv, TokenInv
  <1>5. QED
    BY <1>4, LeaseStep DEF Renew

LEMMA TickStep ==
  ASSUME IInv, TypeOK', Tick
  PROVE  IInv'
  <1>1. ASSUME NEW j \in Jobs
        PROVE  /\ job'[j].status = job[j].status
               /\ job'[j].attempts = job[j].attempts
               /\ job'[j].token = job[j].token
               /\ job'[j].published = job[j].published
               /\ job[j].status # "running" => job'[j].lease = 0
    <2>1. job'[j] = [job[j] EXCEPT !.lease = Older(job[j].lease)] /\ job[j] \in JobRows
      BY RowFacts DEF Tick
    <2>2. /\ job'[j].status = job[j].status
          /\ job'[j].attempts = job[j].attempts
          /\ job'[j].token = job[j].token
          /\ job'[j].published = job[j].published
          /\ job'[j].lease = Older(job[j].lease)
      BY <2>1 DEF JobRows
    <2>3. job[j].status # "running" => job[j].lease = 0
      BY DEF IInv, TokenInv
    <2>4. QED
      BY <2>2, <2>3, LeaseBounds
  <1>2. ASSUME NEW w \in Workers
        PROVE  /\ seen'[w].status = seen[w].status
               /\ seen'[w].token = seen[w].token
               /\ seen'[w].attempts = seen[w].attempts
    <2>1. /\ seen'[w] = [seen[w] EXCEPT !.left = Older(seen[w].left)]
          /\ seen[w] \in SeenRows \cup {NoSeen}
      BY DEF Tick, IInv, TypeOK
    <2>2. CASE seen[w] \in SeenRows
      BY <2>1, <2>2 DEF SeenRows
    <2>3. CASE seen[w] = NoSeen
      BY <2>1, <2>3 DEF NoSeen
    <2>4. QED
      BY <2>1, <2>2, <2>3
  <1>3. UNCHANGED <<attempt, child, root, issued, pc, claim, read, recovery>>
    BY DEF Tick
  <1>4. QED
    BY <1>1, <1>2, <1>3, LeaseStep

LEMMA SubmitStep ==
  ASSUME IInv, TypeOK', NEW j \in Jobs, Submit(j)
  PROVE  IInv'
  <1>1. job[j] \in JobRows /\ job[j].status = "absent"
    BY RowFacts DEF Submit
  <1>2. root[j] = [status |-> "absent", answer |-> NoAnswer]
    BY <1>1 DEF IInv, UnpublishedInv
  <1>3. /\ job[j].attempts = 0 /\ job[j].token = 0 /\ job[j].lease = 0 /\ job[j].published = 0
    BY <1>1 DEF IInv, TokenInv, UnpublishedInv, Settled, Outcomes
  <1>4. /\ job'[j].status = "queued" /\ job'[j].attempts = 0 /\ job'[j].token = 0
        /\ job'[j].lease = 0 /\ job'[j].published = 0
    BY <1>1, <1>3 DEF Submit, IInv, TypeOK, JobRows
  <1>5. root'[j] = [status |-> "running", answer |-> NoAnswer]
    <2>1. root'[j] = [root[j] EXCEPT !.status = "running"]
      BY DEF Submit, IInv, TypeOK
    <2>2. QED
      BY <1>2, <2>1
  <1>6. /\ \A k \in Jobs : k # j => job'[k] = job[k] /\ root'[k] = root[k]
        /\ UNCHANGED <<attempt, child, issued, granted, pc, seen, claim, read, recovery>>
    BY DEF Submit, IInv, TypeOK
  <1>7. \A k \in Jobs : /\ job'[k].attempts = job[k].attempts
                        /\ job'[k].published = job[k].published
                        /\ job'[k].status = "running" => k # j
    BY <1>3, <1>4, <1>6
  <1>8. LedgerConsistent'
    <2>1. \A k \in Jobs : job'[k].status = "running" => job'[k] = job[k]
      BY <1>6, <1>7
    <2>2. UNCHANGED <<attempt, issued>>
      BY <1>6
    <2>3. \A k \in Jobs : job'[k].attempts = job[k].attempts
      BY <1>7
    <2>4. ASSUME NEW k \in Jobs
          PROVE  /\ job'[k].attempts = issued[k]
                 /\ \A n \in Numbers :
                       /\ attempt[k][n] # NoAttempt <=> n <= job'[k].attempts
                       /\ n < job'[k].attempts => attempt[k][n].status = "expired"
      BY <2>3, RowFacts
    <2>5. ASSUME NEW k \in Jobs, job'[k].status = "running"
          PROVE  \E n \in Numbers : /\ n = job'[k].attempts
                                    /\ attempt[k][n] = [status |-> "running",
                                                        token |-> job'[k].token]
      BY <2>1, <2>5 DEF IInv, LedgerConsistent
    <2>6. QED
      BY <2>2, <2>4, <2>5 DEF LedgerConsistent
  <1>9. TokenInv'
    <2> SUFFICES ASSUME NEW k \in Jobs
                 PROVE  /\ job'[k].status \in {"absent", "queued"} => job'[k].attempts = 0
                        /\ job'[k].status = "running" => job'[k].token = job'[k].attempts
                        /\ job'[k].status # "running" => job'[k].token = 0 /\ job'[k].lease = 0
                        /\ job'[k].attempts <= MaxAttempts
                        /\ \A n \in Numbers : attempt[k][n] # NoAttempt =>
                                                attempt[k][n].token = n
                        /\ k \notin SafeJobs => job'[k].attempts <= 1
      BY <1>6 DEF TokenInv
    <2>1. CASE k = j
      BY <1>4, <2>1, RowFacts, AttemptsAssumption
    <2>2. CASE k # j
      BY <1>6, <2>2 DEF IInv, TokenInv
    <2>3. QED
      BY <2>1, <2>2
  <1>10. SnapshotInv' /\ OwnerInv'
    BY <1>6, OwnersKept DEF IInv, SnapshotInv
  <1>11. ClaimInv'
    <2>1. \A v \in Workers : pc'[v] \in Owning => pc[v] \in Owning /\ claim'[v] = claim[v]
      BY <1>6
    <2>2. \A k \in Jobs : job[k].attempts <= job'[k].attempts /\ job'[k].attempts \in Nat
      BY <1>7, RowFacts
    <2>3. QED
      BY <1>7, <2>1, <2>2, ClaimsKept
  <1>12. ChildInv'
    BY <1>6, <1>7 DEF IInv, ChildInv
  <1>13. UnpublishedInv'
    BY <1>4, <1>6 DEF IInv, UnpublishedInv, Settled
  <1>14. PublicResult'
    <2> SUFFICES ASSUME NEW k \in Jobs
                 PROVE  /\ job'[k].status \in {"queued", "running"} =>
                              root'[k] = [status |-> "running", answer |-> NoAnswer]
                        /\ job'[k].status \in Outcomes => root'[k].status = job'[k].status
                        /\ job'[k].status \in Outcomes /\ job'[k].published = 0 =>
                              /\ job'[k].status = "failed"
                              /\ root'[k].answer \in {Reason("SCOPE_CHANGED"),
                                    Reason("RETRY_LIMIT_REACHED"),
                                    Reason("EXECUTION_OUTCOME_UNKNOWN")}
                        /\ job'[k].published # 0 =>
                              /\ job'[k].status \in Outcomes
                              /\ job'[k].published = job'[k].attempts
                              /\ root'[k].answer.by = job'[k].published
                              /\ Shows(root'[k], child[k][job'[k].published])
      BY <1>6 DEF PublicResult, Settled, Shows, ExpiredRun
    <2>1. CASE k = j
      BY <1>4, <1>5, <2>1 DEF Outcomes
    <2>2. CASE k # j
      BY <1>6, <2>2 DEF IInv, PublicResult, Settled
    <2>3. QED
      BY <2>1, <2>2
  <1>15. RecoveryInv'
    BY <1>6 DEF IInv, RecoveryInv
  <1>16. QED
    BY <1>8, <1>9, <1>10, <1>11, <1>12, <1>13, <1>14, <1>15 DEF IInv

(* A run that nobody executes any more changes: its checkpoint alone, or a *)
(* recovery fails it for its expired checkpoint although what it showed    *)
(* may be published, or be about to.                                       *)
LEMMA RunSeenStep ==
  ASSUME IInv, TypeOK', NEW j \in Jobs, NEW n \in Numbers, NEW row,
         child' = [child EXCEPT ![j][n] = row],
         child[j][n].status \in Outcomes, row.status \in Outcomes, row.answer.by = n,
         row.status = "waiting_approval" => j \notin SafeJobs /\ row.checkpoint # "none",
         \/ row.status = child[j][n].status /\ row.answer = child[j][n].answer
         \/ /\ ExpiredRun(row) /\ child[j][n].status \in {"failed", "waiting_approval"}
            /\ ~CheckpointLocked(j, n),
         \A k \in Jobs, m \in Numbers : k # j \/ m # n => recovery'[k][m] = recovery[k][m],
         recovery'[j][n] \in {recovery[j][n], "none"},
         recovery'[j][n] = "fail" => row.checkpoint = "expired",
         UNCHANGED <<job, attempt, root, issued, pc, seen, claim, read>>
  PROVE  IInv'
  <1>1. /\ child'[j][n] = row
        /\ \A k \in Jobs, m \in Numbers :
              k # j \/ m # n => child'[k][m] = child[k][m]
    BY DEF IInv, TypeOK
  <1>2. LedgerConsistent' /\ TokenInv' /\ UnpublishedInv'
    BY DEF IInv, LedgerConsistent, TokenInv, UnpublishedInv, Settled
  <1>3. SnapshotInv' /\ ClaimInv'
    BY DEF IInv, SnapshotInv, ClaimInv
  <1>4. ChildInv'
    <2> SUFFICES ASSUME NEW k \in Jobs, NEW m \in Numbers
                 PROVE  /\ child'[k][m].status # "none" => m <= job[k].attempts
                        /\ child'[k][m].status \in {"none", "running"} => child'[k][m] =
                              [status |-> child'[k][m].status, answer |-> NoAnswer,
                               checkpoint |-> "none"]
                        /\ child'[k][m].status \in Outcomes => child'[k][m].answer.by = m
                        /\ child'[k][m].status = "waiting_approval" =>
                              k \notin SafeJobs /\ child'[k][m].checkpoint # "none"
      BY DEF ChildInv
    <2>1. CASE k = j /\ m = n
      <3>1. child[j][n].status # "none"
        BY DEF Outcomes
      <3>2. n <= job[j].attempts
        BY <3>1, RowFacts
      <3>3. row.status # "none" /\ row.status # "running"
        BY DEF Outcomes
      <3>4. QED
        BY <1>1, <2>1, <3>2, <3>3
    <2>2. CASE k # j \/ m # n
      BY <1>1, <2>2 DEF IInv, ChildInv
    <2>3. QED
      BY <2>1, <2>2
  (* A row that showed the run still does. *)
  <1>5. ASSUME NEW old, Shows(old, child[j][n]), old.answer.by = n
        PROVE  Shows(old, row)
    <2>1. CASE row.status = child[j][n].status /\ row.answer = child[j][n].answer
      BY <1>5, <2>1 DEF Shows, ExpiredRun
    <2>2. CASE ExpiredRun(row) /\ child[j][n].status \in {"failed", "waiting_approval"}
      BY <1>5, <2>2 DEF Shows
    <2>3. QED
      BY <2>1, <2>2
  <1>6. OwnerInv'
    <2> SUFFICES ASSUME NEW v \in Workers, pc[v] \in Owning
                 PROVE  LET run == child'[claim[v].job][claim[v].number]
                        IN /\ pc[v] \in {"claimed", "unstarted"} => run.status = "none"
                           /\ pc[v] = "executing" => run.status = "running"
                           /\ pc[v] \in {"committed", "publish", "publishing"} =>
                                 run.status \in Outcomes
                           /\ pc[v] = "publishing" =>
                                 /\ read[v].answer.by = claim[v].number
                                 /\ Shows(read[v], run)
                                 /\ read[v].status = "waiting_approval" =>
                                       run.status = "waiting_approval"
      BY DEF OwnerInv, Unallocated, ChildOf, Owning
    <2>1. claim[v].job \in Jobs /\ claim[v].number \in Numbers
      BY OwnerFacts
    <2>2. LET run == child[claim[v].job][claim[v].number]
          IN /\ pc[v] \in {"claimed", "unstarted"} => run.status = "none"
             /\ pc[v] = "executing" => run.status = "running"
             /\ pc[v] \in {"committed", "publish", "publishing"} => run.status \in Outcomes
             /\ pc[v] = "publishing" =>
                   /\ read[v].answer.by = claim[v].number
                   /\ Shows(read[v], run)
                   /\ read[v].status = "waiting_approval" =>
                         run.status = "waiting_approval"
      BY DEF IInv, OwnerInv, Unallocated, ChildOf
    <2>3. CASE claim[v].job = j /\ claim[v].number = n
      <3>1. pc[v] \notin {"claimed", "unstarted", "executing"} /\ row.status \in Outcomes
        BY <2>2, <2>3 DEF Outcomes
      <3>2. ASSUME pc[v] = "publishing"
            PROVE  /\ read[v].answer.by = n /\ Shows(read[v], row)
                   /\ read[v].status = "waiting_approval" => row.status = "waiting_approval"
        <4>1. read[v].answer.by = n /\ Shows(read[v], child[j][n])
          BY <2>2, <2>3, <3>2
        <4>2. Shows(read[v], row)
          BY <1>5, <4>1
        <4>3. ASSUME read[v].status = "waiting_approval" PROVE row.status = "waiting_approval"
          <5>1. CheckpointLocked(j, n)
            BY <2>3, <3>2, <4>3 DEF CheckpointLocked
          <5>2. child[j][n].status = "waiting_approval"
            BY <2>2, <2>3, <3>2, <4>3
          <5>3. QED
            BY <5>1, <5>2
        <4>4. QED
          BY <4>1, <4>2, <4>3
      <3>3. QED
        BY <1>1, <2>3, <3>1, <3>2
    <2>4. CASE claim[v].job # j \/ claim[v].number # n
      BY <1>1, <2>1, <2>2, <2>4
    <2>5. QED
      BY <2>3, <2>4
  <1>7. PublicResult'
    <2> SUFFICES ASSUME NEW k \in Jobs, job[k].published # 0
                 PROVE  Shows(root[k], child'[k][job[k].published])
      BY DEF IInv, PublicResult, Settled
    <2>1. job[k].published \in Numbers
      BY AttemptsAssumption DEF IInv, TypeOK, JobRows, PublicResult, TokenInv, Numbers
    <2>2. /\ root[k].answer.by = job[k].published
          /\ Shows(root[k], child[k][job[k].published])
      BY DEF IInv, PublicResult
    <2>3. CASE k = j /\ job[k].published = n
      BY <1>1, <1>5, <2>2, <2>3
    <2>4. CASE k # j \/ job[k].published # n
      BY <1>1, <2>1, <2>2, <2>4
    <2>5. QED
      BY <2>3, <2>4
  <1>8. RecoveryInv'
    <2> SUFFICES ASSUME NEW k \in Jobs, NEW m \in Numbers
                 PROVE  /\ recovery'[k][m] = "delete" =>
                              child'[k][m].status \in {"completed", "failed"}
                        /\ recovery'[k][m] = "fail" =>
                              /\ child'[k][m].status \in {"failed", "waiting_approval"}
                              /\ child'[k][m].checkpoint = "expired"
      BY DEF RecoveryInv
    <2>1. CASE k = j /\ m = n
      BY <1>1, <2>1 DEF IInv, RecoveryInv, ExpiredRun
    <2>2. CASE k # j \/ m # n
      BY <1>1, <2>2 DEF IInv, RecoveryInv
    <2>3. QED
      BY <2>1, <2>2
  <1>9. QED
    BY <1>2, <1>3, <1>4, <1>6, <1>7, <1>8 DEF IInv

LEMMA CheckpointExpiresStep ==
  ASSUME IInv, TypeOK', NEW j \in Jobs, NEW n \in Numbers, CheckpointExpires(j, n)
  PROVE  IInv'
  <1> DEFINE row == [child[j][n] EXCEPT !.checkpoint = "expired"]
  <1>1. /\ child[j][n] \in ChildRows /\ child[j][n].checkpoint = "pending"
    BY RowFacts DEF CheckpointExpires
  <1>2. child[j][n].status \in Outcomes
    <2>1. child[j][n].status \in {"none", "running"} => child[j][n] =
             [status |-> child[j][n].status, answer |-> NoAnswer, checkpoint |-> "none"]
      BY DEF IInv, ChildInv
    <2>2. child[j][n].status \notin {"none", "running"}
      BY <1>1, <2>1
    <2>3. QED
      BY <1>1, <2>2 DEF ChildRows
  <1>3. /\ child[j][n].answer.by = n
        /\ child[j][n].status = "waiting_approval" => j \notin SafeJobs
    BY <1>2 DEF IInv, ChildInv
  <1>4. /\ row.status = child[j][n].status /\ row.answer = child[j][n].answer
        /\ row.checkpoint = "expired"
    BY <1>1 DEF ChildRows
  <1>5. child' = [child EXCEPT ![j][n] = row]
    BY DEF CheckpointExpires, IInv, TypeOK
  <1>6. recovery' = recovery /\ recovery[j][n] # "fail"
    BY <1>1 DEF CheckpointExpires, IInv, RecoveryInv
  <1> HIDE DEF row
  <1>7. QED
    BY <1>2, <1>3, <1>4, <1>5, <1>6, RunSeenStep DEF CheckpointExpires

LEMMA RecoveryWritesStep ==
  ASSUME IInv, TypeOK', NEW j \in Jobs, NEW n \in Numbers, RecoveryWrites(j, n)
  PROVE  IInv'
  <1>1. child[j][n] \in ChildRows /\ recovery[j][n] \in {"delete", "fail"}
    BY RowFacts DEF RecoveryWrites, IInv, TypeOK, Recoveries
  <1>2. /\ UNCHANGED <<job, attempt, root, issued, pc, seen, claim, read>>
        /\ \A k \in Jobs, m \in Numbers : k # j \/ m # n => recovery'[k][m] = recovery[k][m]
        /\ recovery'[j][n] = "none"
    BY DEF RecoveryWrites, Recover, IInv, TypeOK
  <1>3. CASE recovery[j][n] = "delete"
    <2> DEFINE row == [child[j][n] EXCEPT !.checkpoint = "none"]
    <2>1. child[j][n].status \in Outcomes /\ child[j][n].status # "waiting_approval"
      BY <1>3 DEF IInv, RecoveryInv, Outcomes
    <2>2. row.status = child[j][n].status /\ row.answer = child[j][n].answer
      BY <1>1 DEF ChildRows
    <2>3. child[j][n].answer.by = n
      BY <2>1 DEF IInv, ChildInv
    <2>4. child' = [child EXCEPT ![j][n] = row]
      BY <1>3 DEF RecoveryWrites, IInv, TypeOK
    <2>5. /\ row.status \in Outcomes /\ row.answer.by = n
          /\ row.status # "waiting_approval"
      BY <2>1, <2>2, <2>3
    <2> HIDE DEF row
    <2>6. /\ recovery'[j][n] \in {recovery[j][n], "none"}
          /\ recovery'[j][n] = "fail" => row.checkpoint = "expired"
      BY <1>2
    <2>7. QED
      BY <1>2, <2>1, <2>2, <2>4, <2>5, <2>6, RunSeenStep
  <1>4. CASE recovery[j][n] = "fail"
    <2> DEFINE row == [status |-> "failed", checkpoint |-> "none",
                       answer |-> [by |-> n, text |-> "APPROVAL_CHECKPOINT_EXPIRED"]]
    <2>1. child[j][n].status \in Outcomes /\ child[j][n].status \in {"failed", "waiting_approval"}
      BY <1>4 DEF IInv, RecoveryInv, Outcomes
    <2>2. /\ row.status \in Outcomes /\ row.status # "waiting_approval" /\ row.answer.by = n
          /\ ExpiredRun(row)
      BY DEF Outcomes, ExpiredRun
    <2>3. ~CheckpointLocked(j, n) /\ child' = [child EXCEPT ![j][n] = row]
      BY <1>4 DEF RecoveryWrites
    <2> HIDE DEF row
    <2>4. QED
      BY <1>2, <2>1, <2>2, <2>3, RunSeenStep
  <1>5. QED
    BY <1>1, <1>3, <1>4

(* What a recovery reads is true when it reads it, and a recovery that     *)
(* stops leaves everything as it was.                                      *)
LEMMA RecoveryMovesStep ==
  ASSUME IInv, TypeOK', NEW j \in Jobs, NEW n \in Numbers,
         RecoveryReads(j, n) \/ RecoveryStops(j, n)
  PROVE  IInv'
  <1>1. UNCHANGED <<job, attempt, child, root, issued, pc, seen, claim, read>>
    BY DEF RecoveryReads, RecoveryStops
  <1>2. /\ \A k \in Jobs, m \in Numbers : k # j \/ m # n => recovery'[k][m] = recovery[k][m]
        /\ recovery'[j][n] = "delete" => child[j][n].status \in {"completed", "failed"}
        /\ recovery'[j][n] = "fail" => /\ child[j][n].status = "waiting_approval"
                                       /\ child[j][n].checkpoint = "expired"
    BY DEF RecoveryReads, RecoveryStops, Recover, IInv, TypeOK
  <1>3. RecoveryInv'
    BY <1>1, <1>2 DEF IInv, RecoveryInv
  <1>4. LedgerConsistent' /\ TokenInv' /\ UnpublishedInv'
    BY <1>1 DEF IInv, LedgerConsistent, TokenInv, UnpublishedInv, Settled
  <1>5. SnapshotInv' /\ ClaimInv' /\ ChildInv'
    BY <1>1 DEF IInv, SnapshotInv, ClaimInv, ChildInv
  <1>6. OwnerInv'
    BY <1>1, OwnersKept
  <1>7. PublicResult'
    BY <1>1 DEF IInv, PublicResult, Settled, Shows, ExpiredRun
  <1>8. QED
    BY <1>3, <1>4, <1>5, <1>6, <1>7 DEF IInv

-----------------------------------------------------------------------------
(* The invariant is inductive. *)

LEMMA StepIInv == IInv /\ [Next]_vars => IInv'
  <1> SUFFICES ASSUME IInv, [Next]_vars PROVE IInv'
    OBVIOUS
  <1>1. TypeOK'
    BY StepType DEF IInv
  <1>2. CASE UNCHANGED vars
    BY <1>1, <1>2, LeaseStep, RowFacts DEF vars, IInv, TokenInv
  <1>3. ASSUME NEW w \in Workers, WorkerStep(w) PROVE IInv'
    <2>1. CASE PollEmpty(w)
      BY <1>1, <2>1, LeaseStep DEF PollEmpty, vars, IInv, TokenInv
    <2>2. CASE Select(w)
      BY <1>1, <2>2, SelectStep
    <2>3. CASE ClaimLost(w)
      BY <1>1, <2>3, LeaveStep DEF ClaimLost
    <2>4. CASE ClaimTaken(w)
      BY <1>1, <2>4, ClaimTakenStep
    <2>5. CASE ClaimExhausted(w)
      BY <1>1, <2>5, ClaimExhaustedStep
    <2>6. CASE StartLate(w)
      BY <1>1, <2>6, LeaveStep DEF StartLate
    <2>7. CASE Start(w)
      BY <1>1, <2>7, StartStep
    <2>8. CASE StartRefused(w)
      BY <1>1, <2>8, MoveStep
    <2>9. CASE FailUnstarted(w)
      BY <1>1, <2>9, FailUnstartedStep
    <2>10. CASE FailUnstartedLate(w)
      BY <1>1, <2>10, LeaveStep DEF FailUnstartedLate
    <2>11. CASE ExecuteCommit(w)
      BY <1>1, <2>11, ExecuteCommitStep
    <2>12. CASE ExecuteReturn(w)
      BY <1>1, <2>12, MoveStep
    <2>13. CASE ExecuteRaise(w)
      BY <1>1, <2>13, FailPrivateRunStep DEF ExecuteRaise, Owning
    <2>14. CASE PublishStale(w)
      BY <1>1, <2>14, LeaveStep DEF PublishStale
    <2>15. CASE PublishRead(w)
      BY <1>1, <2>15, PublishReadStep
    <2>16. CASE InvalidResult(w)
      BY <1>1, <2>16, FailPrivateRunStep DEF InvalidResult, Owning
    <2>17. CASE PublishWrite(w)
      BY <1>1, <2>17, PublishWriteStep
    <2>18. CASE PublishFenced(w)
      BY <1>1, <2>18, LeaveStep DEF PublishFenced
    <2>19. QED
      BY <1>3, <2>1, <2>2, <2>3, <2>4, <2>5, <2>6, <2>7, <2>8, <2>9, <2>10, <2>11,
         <2>12, <2>13, <2>14, <2>15, <2>16, <2>17, <2>18 DEF WorkerStep
  <1>4. ASSUME NEW w \in Workers, Renew(w) PROVE IInv'
    BY <1>1, <1>4, RenewStep
  <1>5. ASSUME NEW w \in Workers, Crash(w) PROVE IInv'
    BY <1>1, <1>5, LeaveStep DEF Crash
  <1>6. CASE Tick
    BY <1>1, <1>6, TickStep
  <1>7. ASSUME NEW j \in Jobs, Submit(j) PROVE IInv'
    BY <1>1, <1>7, SubmitStep
  <1>8. ASSUME NEW j \in Jobs, RevokeScope(j) PROVE IInv'
    BY <1>1, <1>8, LeaseStep DEF RevokeScope, IInv, TokenInv
  <1>9. ASSUME NEW j \in Jobs, NEW n \in Numbers, CheckpointExpires(j, n) PROVE IInv'
    BY <1>1, <1>9, CheckpointExpiresStep
  <1>10. ASSUME NEW j \in Jobs, NEW n \in Numbers, RecoveryWrites(j, n) PROVE IInv'
    BY <1>1, <1>10, RecoveryWritesStep
  <1>11. ASSUME NEW j \in Jobs, NEW n \in Numbers, RecoveryReads(j, n) \/ RecoveryStops(j, n)
         PROVE  IInv'
    BY <1>1, <1>11, RecoveryMovesStep
  <1>12. QED
    BY <1>2, <1>3, <1>4, <1>5, <1>6, <1>7, <1>8, <1>9, <1>10, <1>11 DEF Next, Environment

(* The inductive invariant holds in every reachable state. *)
THEOREM Invariance == Spec => []IInv
  BY InitIInv, StepIInv, PTL DEF Spec

-----------------------------------------------------------------------------
(* What the inductive invariant gives *)

(* The job and attempt tables agree, however claims, lease expiries,       *)
(* crashes and publications interleave.                                    *)
THEOREM LedgerCorrect == Spec => []LedgerConsistent
  <1>1. IInv => LedgerConsistent
    BY DEF IInv
  <1>2. QED
    BY <1>1, Invariance, PTL

(* The public run stays untouched until its job settles, and then shows    *)
(* the last attempt's own result or the reason why there is none.          *)
THEOREM PublicResultCorrect == Spec => []PublicResult
  <1>1. IInv => PublicResult
    BY DEF IInv
  <1>2. QED
    BY <1>1, Invariance, PTL

(* The RuntimeErrors of claim_next and start_attempt are unreachable.      *)
THEOREM QueueNeverFaults == Spec => []LedgerNeverFaults
  <1>1. IInv => LedgerNeverFaults
    <2> SUFFICES ASSUME IInv, NEW w \in Workers
                 PROVE  /\ pc[w] = "selected" /\ CasHolds(seen[w]) => LedgerAllows(seen[w])
                        /\ pc[w] \in {"claimed", "unstarted"} /\ LeaseHeld(claim[w]) =>
                               RowRunning(claim[w]) /\ Unallocated(claim[w])
      BY DEF LedgerNeverFaults
    <2>1. ASSUME pc[w] = "selected", CasHolds(seen[w]) PROVE LedgerAllows(seen[w])
      <3> DEFINE s == seen[w]
      <3>1. /\ s \in SeenRows /\ s.job \in Jobs /\ s.status \in {"queued", "running"}
            /\ s.attempts = job[s.job].attempts /\ s.attempts \in Nat
            /\ s.status = "queued" => s.attempts = 0
            /\ s.status = "running" => /\ s.attempts \in Numbers
                                       /\ ActiveRows(s.job, s.token) = {s.attempts}
        BY <2>1, SnapshotFacts
      <3>2. ASSUME CanRetry(s)
            PROVE  s.attempts + 1 \in Numbers /\ attempt[s.job][s.attempts + 1] = NoAttempt
        <4>1. s.attempts + 1 \in Numbers
          BY <3>1, <3>2, AttemptsAssumption DEF CanRetry, Numbers
        <4>2. ~(s.attempts + 1 <= job[s.job].attempts)
          BY <3>1
        <4>3. QED
          BY <3>1, <4>1, <4>2, RowFacts
      <3>3. QED
        BY <3>1, <3>2 DEF LedgerAllows
    <2>2. ASSUME pc[w] \in {"claimed", "unstarted"}, LeaseHeld(claim[w])
          PROVE  RowRunning(claim[w]) /\ Unallocated(claim[w])
      <3>1. pc[w] \in Owning
        BY <2>2 DEF Owning
      <3>2. RowRunning(claim[w])
        BY <2>2, <3>1, OwnerFacts
      <3>3. QED
        BY <2>2, <3>2 DEF IInv, OwnerInv
    <2>3. QED
      BY <2>1, <2>2
  <1>2. QED
    BY <1>1, Invariance, PTL

(* At most one worker passes the fence of a job: a late worker never       *)
(* writes over the one that recovered its job.                             *)
THEOREM MutualExclusion == Spec => []OneOwner
  <1>1. IInv => OneOwner
    <2> SUFFICES ASSUME IInv, NEW v \in Workers, NEW w \in Workers,
                        pc[v] \in Owning, pc[w] \in Owning,
                        claim[v].job = claim[w].job,
                        LeaseHeld(claim[v]), LeaseHeld(claim[w]), v # w
                 PROVE  FALSE
      BY DEF OneOwner
    <2>1. claim[v].number = job[claim[v].job].attempts
      BY OwnerFacts
    <2>2. claim[w].number = job[claim[w].job].attempts
      BY OwnerFacts
    <2>3. claim[v].number # claim[w].number
      BY OwnerFacts
    <2>4. QED
      BY <2>1, <2>2, <2>3
  <1>2. QED
    BY <1>1, Invariance, PTL

(* A job that was not submitted as retry safe never runs a second time.    *)
THEOREM UnsafeOnce == Spec => []UnsafeRunsOnce
  <1>1. IInv => UnsafeRunsOnce
    <2> SUFFICES ASSUME IInv, NEW j \in Jobs \ SafeJobs
                 PROVE  Cardinality({n \in Numbers : child[j][n].status # "none"}) <= 1
      BY DEF UnsafeRunsOnce
    <2> DEFINE begun == {n \in Numbers : child[j][n].status # "none"}
    <2>1. job[j].attempts \in Nat /\ job[j].attempts <= 1
      BY RowFacts DEF IInv, TokenInv
    <2>2. \A n \in begun : n = 1
      BY <2>1, RowFacts, NumberRange
    <2>3. begun = {} \/ begun = {1}
      BY <2>2
    <2>4. Cardinality({}) = 0 /\ Cardinality({1}) = 1
      BY FS_EmptySet, FS_Singleton
    <2> HIDE DEF begun
    <2>5. Cardinality(begun) <= 1
      BY <2>3, <2>4
    <2>6. QED
      BY <2>5 DEF begun
  <1>2. QED
    BY <1>1, Invariance, PTL

-----------------------------------------------------------------------------
(* What a step may do to the rows of one job. *)

Untouched(j) == job'[j] = job[j] /\ attempt'[j] = attempt[j] /\ root'[j] = root[j]

Submitted(j) ==
    /\ job[j].status = "absent" /\ job'[j].published = job[j].published
    /\ job'[j].status = "queued"

Claimed(j) ==
    /\ job[j].status \in {"queued", "running"} /\ job'[j].status = "running"
    /\ job'[j].published = job[j].published
    /\ job'[j].attempts = job[j].attempts + 1
    /\ job[j].status = "running" => job'[j].token # job[j].token

GivenUp(j) ==
    /\ job[j].status = "running" /\ job'[j].lease = 0 /\ job'[j].status = "failed"
    /\ job'[j].published = job[j].published

Published(j) ==
    /\ job[j].status = "running" /\ job[j].lease > 0
    /\ attempt[j][job'[j].published].token = job[j].token
    /\ job'[j].status = "waiting_approval" =>
          child'[j][job'[j].published].status = "waiting_approval"

LeaseMoved(j) ==
    /\ job[j].status = "running" /\ job'[j].status = "running"
    /\ job'[j].published = job[j].published
    /\ job[j].lease = 0 => job'[j].lease = 0

LEMMA JobEffects ==
  ASSUME IInv, [Next]_vars, NEW j \in Jobs
  PROVE  \/ Untouched(j) \/ Submitted(j) \/ Claimed(j) \/ GivenUp(j)
         \/ Published(j) \/ LeaseMoved(j)
  <1> DEFINE Effect == \/ Untouched(j) \/ Submitted(j) \/ Claimed(j) \/ GivenUp(j)
                       \/ Published(j) \/ LeaseMoved(j)
  <1> SUFFICES Effect
    OBVIOUS
  <1>1. TypeOK /\ job[j] \in JobRows /\ job \in [Jobs -> JobRows]
    BY RowFacts DEF IInv, TypeOK
  <1>2. ASSUME UNCHANGED <<job, attempt, root>> PROVE Effect
    BY <1>2 DEF Untouched
  <1>3. ASSUME NEW w \in Workers, ClaimTaken(w) PROVE Effect
    <2> DEFINE s == seen[w]
    <2>1. /\ s.job \in Jobs /\ job[s.job].status = s.status
          /\ s.status \in {"queued", "running"}
          /\ s.attempts = job[s.job].attempts /\ issued[s.job] = job[s.job].attempts
          /\ job[s.job].attempts \in Nat
      BY <1>3, SnapshotFacts DEF ClaimTaken
    <2>2. CASE j # s.job
      BY <1>1, <1>3, <2>1, <2>2 DEF ClaimTaken, TypeOK, Untouched
    <2>3. CASE j = s.job
      <3>1. job'[j] = [job[j] EXCEPT !.status = "running", !.attempts = s.attempts + 1,
                                     !.token = issued[s.job] + 1, !.lease = s.left]
        BY <1>1, <1>3, <2>1, <2>3 DEF ClaimTaken
      <3>2. /\ job'[j].attempts = job[j].attempts + 1 /\ job'[j].token = job[j].attempts + 1
            /\ job'[j].published = job[j].published /\ job'[j].status = "running"
        BY <1>1, <2>1, <2>3, <3>1 DEF JobRows
      <3>3. job[j].status = "running" => job[j].token = job[j].attempts
        BY DEF IInv, TokenInv
      <3>4. Claimed(j)
        BY <2>1, <2>3, <3>2, <3>3 DEF Claimed
      <3>5. QED
        BY <3>4
    <2>4. QED
      BY <2>2, <2>3
  <1>4. ASSUME NEW w \in Workers, ClaimExhausted(w) PROVE Effect
    <2> DEFINE s == seen[w]
    <2>1. s.job \in Jobs /\ job[s.job].status = "running"
      BY <1>4, SnapshotFacts DEF ClaimExhausted, CanRetry
    <2>2. CASE j # s.job
      BY <1>1, <1>4, <2>1, <2>2 DEF ClaimExhausted, TypeOK, Untouched
    <2>3. CASE j = s.job
      <3>1. job'[j] = [job[j] EXCEPT !.status = "failed", !.token = 0, !.lease = 0]
        BY <1>1, <1>4, <2>1, <2>3 DEF ClaimExhausted
      <3>2. GivenUp(j)
        BY <1>1, <2>1, <2>3, <3>1 DEF GivenUp, JobRows
      <3>3. QED
        BY <3>2
    <2>4. QED
      BY <2>2, <2>3
  <1>5. ASSUME NEW w \in Workers, FailUnstarted(w) PROVE Effect
    <2> DEFINE c == claim[w]
    <2>1. c.job \in Jobs /\ job[c.job].status = "running"
      BY <1>5, OwnerFacts DEF FailUnstarted, Owning
    <2>2. CASE j # c.job
      BY <1>1, <1>5, <2>1, <2>2 DEF FailUnstarted, TypeOK, Untouched
    <2>3. CASE j = c.job
      <3>1. job'[j] = [job[j] EXCEPT !.status = "failed", !.token = 0, !.lease = 0]
        BY <1>1, <1>5, <2>1, <2>3 DEF FailUnstarted
      <3>2. GivenUp(j)
        BY <1>1, <2>1, <2>3, <3>1 DEF GivenUp, JobRows
      <3>3. QED
        BY <3>2
    <2>4. QED
      BY <2>2, <2>3
  <1>6. ASSUME NEW w \in Workers, PublishWrite(w) PROVE Effect
    <2> DEFINE c == claim[w]
    <2>1. /\ c.job \in Jobs /\ job[c.job].status = "running"
          /\ RowRunning(c) /\ LeaseHeld(c)
      BY <1>6, OwnerFacts DEF PublishWrite, Owning
    <2>2. CASE j # c.job
      BY <1>1, <1>6, <2>1, <2>2 DEF PublishWrite, TypeOK, Untouched
    <2>3. CASE j = c.job
      <3>1. job'[j] = [job[j] EXCEPT !.status = read[w].status, !.token = 0, !.lease = 0,
                                     !.published = c.number]
        BY <1>1, <1>6, <2>1, <2>3 DEF PublishWrite
      <3>2. job'[j].published = c.number /\ job'[j].status = read[w].status
        BY <1>1, <3>1 DEF JobRows
      <3>3. attempt[j][c.number].token = job[j].token /\ job[j].lease > 0
        BY <2>1, <2>3 DEF RowRunning, RowOf, LeaseHeld
      <3>4. read[w].status = "waiting_approval" =>
               child'[j][c.number].status = "waiting_approval"
        BY <1>6, <2>3 DEF PublishWrite, IInv, OwnerInv, ChildOf
      <3>5. Published(j)
        BY <2>1, <2>3, <3>2, <3>3, <3>4 DEF Published
      <3>6. QED
        BY <3>5
    <2>4. QED
      BY <2>2, <2>3
  <1>7. ASSUME NEW w \in Workers, Renew(w) PROVE Effect
    <2>1. claim[w].job \in Jobs
      BY <1>7, OwnerFacts DEF Renew, Running, Owning
    <2>2. CASE j # claim[w].job
      BY <1>1, <1>7, <2>1, <2>2 DEF Renew, Untouched
    <2>3. CASE j = claim[w].job
      <3>1. /\ job'[j] = [job[j] EXCEPT !.lease = LeaseTicks]
            /\ job[j].status = "running" /\ job[j].lease > 0
        BY <1>1, <1>7, <2>1, <2>3 DEF Renew, LeaseHeld
      <3>2. LeaseMoved(j)
        BY <1>1, <3>1 DEF LeaseMoved, JobRows
      <3>3. QED
        BY <3>2
    <2>4. QED
      BY <2>2, <2>3
  <1>8. ASSUME Tick PROVE Effect
    <2>1. /\ job'[j] = [job[j] EXCEPT !.lease = Older(job[j].lease)]
          /\ UNCHANGED <<attempt, root>>
      BY <1>8 DEF Tick
    <2>2. CASE job[j].status = "running"
      <3>1. LeaseMoved(j)
        BY <1>1, <2>1, <2>2, LeaseBounds DEF LeaseMoved, JobRows
      <3>2. QED
        BY <3>1
    <2>3. CASE job[j].status # "running"
      <3>1. Older(job[j].lease) = job[j].lease
        BY <2>3, LeaseBounds DEF IInv, TokenInv
      <3>2. job'[j] = job[j]
        BY <1>1, <2>1, <3>1 DEF JobRows
      <3>3. QED
        BY <2>1, <3>2 DEF Untouched
    <2>4. QED
      BY <2>2, <2>3
  <1>9. ASSUME NEW k \in Jobs, Submit(k) PROVE Effect
    <2>1. CASE j # k
      BY <1>1, <1>9, <2>1 DEF Submit, TypeOK, Untouched
    <2>2. CASE j = k
      <3>1. job'[j] = [job[j] EXCEPT !.status = "queued"] /\ job[j].status = "absent"
        BY <1>1, <1>9, <2>2 DEF Submit
      <3>2. Submitted(j)
        BY <1>1, <3>1 DEF Submitted, JobRows
      <3>3. QED
        BY <3>2
    <2>3. QED
      BY <2>1, <2>2
  <1>10. ASSUME NEW w \in Workers, WorkerStep(w)
         PROVE  \/ UNCHANGED <<job, attempt, root>> \/ ClaimTaken(w) \/ ClaimExhausted(w)
                \/ FailUnstarted(w) \/ PublishWrite(w)
    BY <1>10 DEF WorkerStep, PollEmpty, vars, Select, ClaimLost, StartLate, Start,
         StartRefused, FailUnstartedLate, ExecuteCommit, ExecuteReturn, ExecuteRaise,
         PublishStale, PublishRead, InvalidResult, PublishFenced
  <1>11. ASSUME Environment, ~Tick
         PROVE  UNCHANGED <<job, attempt, root>> \/ \E k \in Jobs : Submit(k)
    BY <1>11 DEF Environment, RevokeScope, CheckpointExpires, RecoveryReads, RecoveryWrites,
                  RecoveryStops
  <1>12. ASSUME NEW w \in Workers, Crash(w) PROVE UNCHANGED <<job, attempt, root>>
    BY <1>12 DEF Crash
  <1>13. ASSUME UNCHANGED vars PROVE UNCHANGED <<job, attempt, root>>
    BY <1>13 DEF vars
  <1> HIDE DEF Effect
  <1>14. QED
    BY <1>2, <1>3, <1>4, <1>5, <1>6, <1>7, <1>8, <1>9, <1>10, <1>11, <1>12, <1>13 DEF Next

(* Whatever is published as waiting for approval has its checkpoint, and    *)
(* loses it only to the recovery that fails the run because it expired.     *)
THEOREM WaitingResumable == Spec => WaitingIsResumable
  <1> DEFINE Resumable ==
        \A j \in Jobs :
          job'[j].status = "waiting_approval" =>
            LET run == child'[j][job'[j].published]
            IN \/ run.checkpoint # "none"
               \/ job[j].status = "waiting_approval" /\ ExpiredRun(run)
  <1>1. IInv /\ [Next]_vars => Resumable
    <2> SUFFICES ASSUME IInv, [Next]_vars, NEW j \in Jobs,
                        job'[j].status = "waiting_approval"
                 PROVE  LET run == child'[j][job'[j].published]
                        IN \/ run.checkpoint # "none"
                           \/ job[j].status = "waiting_approval" /\ ExpiredRun(run)
      OBVIOUS
    <2> DEFINE run == child'[j][job'[j].published]
    <2>1. IInv'
      BY StepIInv
    <2>2. /\ job'[j].published # 0 /\ root'[j].status = "waiting_approval"
          /\ Shows(root'[j], run)
      BY <2>1 DEF IInv, PublicResult, Settled, Outcomes, Shows, ExpiredRun
    <2>3. job'[j].published \in Numbers
      BY <2>1, <2>2, AttemptsAssumption DEF IInv, TypeOK, JobRows, PublicResult, TokenInv, Numbers
    <2>4. run.status = "waiting_approval" => run.checkpoint # "none"
      BY <2>1, <2>3 DEF IInv, ChildInv
    <2>5. run.status = "waiting_approval" \/ ExpiredRun(run)
      BY <2>2 DEF Shows
    <2>6. job[j].status = "waiting_approval" \/ run.status = "waiting_approval"
      BY JobEffects DEF Untouched, Submitted, Claimed, GivenUp, Published, LeaseMoved
    <2>7. QED
      BY <2>4, <2>5, <2>6
  <1> HIDE DEF Resumable
  <1>2. Spec => [][Resumable]_vars
    BY <1>1, Invariance, PTL DEF Spec
  <1>3. QED
    BY <1>2 DEF WaitingIsResumable, Resumable

(* Once a job is settled, no worker, crash or retry changes what it shows. *)
THEOREM SettledFinal == Spec => SettledIsFinal
  <1> DEFINE Final == \A j \in Jobs : Settled(j) =>
                /\ job'[j] = job[j] /\ root'[j] = root[j]
                /\ \A n \in Numbers : attempt'[j][n] = attempt[j][n]
  <1>1. IInv /\ [Next]_vars => Final
    BY JobEffects DEF Settled, Outcomes, Untouched, Submitted, Claimed, GivenUp, Published,
                      LeaseMoved
  <1> HIDE DEF Final
  <1>2. Spec => [][Final]_vars
    BY <1>1, Invariance, PTL DEF Spec
  <1>3. QED
    BY <1>2 DEF SettledIsFinal, Final

(* A lease that ran out is never given back to the claim that lost it.     *)
THEOREM ExpiredFinal == Spec => ExpiredStaysExpired
  <1> DEFINE Stays == \A j \in Jobs : job[j].status = "running" /\ job[j].lease = 0 =>
                \/ job'[j].lease = 0
                \/ job'[j].token # job[j].token /\ job'[j].attempts = job[j].attempts + 1
  <1>1. IInv /\ [Next]_vars => Stays
    BY JobEffects DEF Untouched, Submitted, Claimed, GivenUp, Published, LeaseMoved
  <1> HIDE DEF Stays
  <1>2. Spec => [][Stays]_vars
    BY <1>1, Invariance, PTL DEF Spec
  <1>3. QED
    BY <1>2 DEF ExpiredStaysExpired, Stays

(* Only the holder of an unexpired lease makes its attempt public.         *)
THEOREM FencedPublication == Spec => PublishedUnderLease
  <1> DEFINE Fenced == \A j \in Jobs : job'[j].published # job[j].published =>
                /\ job[j].status = "running" /\ job[j].lease > 0
                /\ attempt[j][job'[j].published].token = job[j].token
  <1>1. IInv /\ [Next]_vars => Fenced
    BY JobEffects DEF Untouched, Submitted, Claimed, GivenUp, Published, LeaseMoved
  <1> HIDE DEF Fenced
  <1>2. Spec => [][Fenced]_vars
    BY <1>1, Invariance, PTL DEF Spec
  <1>3. QED
    BY <1>2 DEF PublishedUnderLease, Fenced

-----------------------------------------------------------------------------
(* The refinement of TaskOutcome. *)

Begun(j) == {n \in Numbers : child[j][n].status # "none"}
AllBegun == [j \in Jobs |-> Begun(j)]

(* Every attempt that began is an attempt that was claimed. *)
LEMMA BegunBounds ==
  ASSUME IInv, NEW j \in Jobs, NEW n \in Begun(j)
  PROVE  n \in Numbers /\ n \in Nat /\ n <= job[j].attempts /\ job[j].attempts \in Nat
  BY RowFacts, NumberRange DEF Begun

(* A step that creates no private run and leaves the public runs alone. *)
LEMMA OutcomeStutters ==
  ASSUME UNCHANGED root,
         \A j \in Jobs, n \in Numbers :
            child'[j][n].status = "none" <=> child[j][n].status = "none"
  PROVE  UNCHANGED Outcome!vars
  <1>1. \A j \in Jobs : Begun(j)' = Begun(j)
    BY DEF Begun
  <1>2. AllBegun' = AllBegun
    BY <1>1 DEF AllBegun
  <1>3. QED
    BY <1>2 DEF Outcome!vars, AllBegun, Begun

LEMMA OutcomeInit == Init => Outcome!Init
  <1> SUFFICES ASSUME Init PROVE Outcome!Init
    OBVIOUS
  <1>1. \A j \in Jobs : {n \in Numbers : child[j][n].status # "none"} = {}
    BY DEF Init, NoChild
  <1>2. root = [j \in Jobs |-> [status |-> "absent", answer |-> [by |-> 0, text |-> ""]]]
    BY DEF Init, NoAnswer
  <1>3. QED
    BY <1>1, <1>2 DEF Outcome!Init, Outcome!Unsettled

LEMMA SubmitImplements ==
  ASSUME IInv, NEW j \in Jobs, Submit(j)
  PROVE  Outcome!Submit(j)
  <1>1. root[j] = [status |-> "absent", answer |-> NoAnswer] /\ UNCHANGED child
    BY DEF Submit, IInv, UnpublishedInv
  <1>2. root' = [root EXCEPT ![j] = [status |-> "running", answer |-> NoAnswer]]
    <2>1. [root[j] EXCEPT !.status = "running"] = [status |-> "running", answer |-> NoAnswer]
      BY <1>1
    <2>2. root' = [root EXCEPT ![j] = [root[j] EXCEPT !.status = "running"]]
      BY DEF Submit, IInv, TypeOK
    <2>3. QED
      BY <2>1, <2>2
  <1>3. /\ root[j].status = "absent" /\ UNCHANGED AllBegun
        /\ root' = [root EXCEPT ![j] = Outcome!Unsettled]
    <2>1. UNCHANGED AllBegun
      BY <1>1 DEF AllBegun, Begun
    <2>2. root[j].status = "absent"
      BY <1>1
    <2>3. root' = [root EXCEPT ![j] = Outcome!Unsettled]
      BY <1>2 DEF Outcome!Unsettled, NoAnswer
    <2>4. QED
      BY <2>1, <2>2, <2>3
  <1>4. QED
    BY <1>3 DEF Outcome!Submit, AllBegun, Begun

LEMMA StartImplements ==
  ASSUME IInv, NEW w \in Workers, Start(w), NEW j \in Jobs, j = claim[w].job
  PROVE  Outcome!Begin(j)
  <1> DEFINE n == claim[w].number
  <1>1. /\ j \in Jobs /\ n \in Numbers /\ n \in Nat /\ job[j].status = "running"
        /\ n = job[j].attempts
    BY OwnerFacts, NumberRange DEF Start, Owning
  <1>2. child[j][n].status = "none" /\ UNCHANGED root
    BY DEF Start, Unallocated, ChildOf
  <1>3. /\ child'[j][n].status = "running"
        /\ \A k \in Jobs, m \in Numbers : k # j \/ m # n => child'[k][m] = child[k][m]
    <2>1. child' = [child EXCEPT ![j][n] = [child[j][n] EXCEPT !.status = "running"]]
      BY <1>1 DEF Start, IInv, TypeOK
    <2>2. child[j][n] \in ChildRows
      BY <1>1, RowFacts
    <2>3. QED
      BY <1>1, <2>1, <2>2 DEF IInv, TypeOK, ChildRows
  <1>4. root[j] = [status |-> "running", answer |-> NoAnswer]
    BY <1>1 DEF IInv, PublicResult
  <1>5. \A m \in Begun(j) : m < n
    <2> TAKE m \in Begun(j)
    <2>1. m \in Nat /\ m <= n
      BY <1>1, BegunBounds
    <2>2. m # n
      BY <1>2 DEF Begun
    <2>3. QED
      BY <1>1, <2>1, <2>2
  <1>6. j \notin SafeJobs => Begun(j) = {}
    <2> SUFFICES ASSUME j \notin SafeJobs, NEW m \in Begun(j) PROVE FALSE
      OBVIOUS
    <2>1. n <= 1
      BY <1>1 DEF IInv, TokenInv
    <2>2. m < n /\ m \in Numbers
      BY <1>1, <1>5, BegunBounds
    <2>3. QED
      BY <1>1, <2>1, <2>2, NumberRange
  <1>7. AllBegun' = [AllBegun EXCEPT ![j] = Begun(j) \cup {n}]
    <2> DEFINE After(k) == {m \in Numbers : child'[k][m].status # "none"}
    <2>1. After(j) = Begun(j) \cup {n}
      <3>1. \A m \in Numbers : m # n => child'[j][m] = child[j][m]
        BY <1>1, <1>3
      <3>2. child'[j][n].status # "none" /\ n \in Numbers
        BY <1>1, <1>3
      <3>3. QED
        BY <3>1, <3>2 DEF Begun
    <2>2. \A k \in Jobs : k # j => After(k) = Begun(k)
      BY <1>3 DEF Begun
    <2>3. AllBegun' = [k \in Jobs |-> After(k)]
      BY DEF AllBegun, Begun
    <2> HIDE DEF After
    <2>4. QED
      BY <1>1, <2>1, <2>2, <2>3 DEF AllBegun
  <1>8. AllBegun[j] = Begun(j)
    BY <1>1 DEF AllBegun
  <1> HIDE DEF n
  <1>9. /\ root[j] = Outcome!Unsettled
        /\ j \notin SafeJobs => AllBegun[j] = {}
        /\ \E i \in 1..MaxAttempts :
              /\ \A m \in AllBegun[j] : m < i
              /\ AllBegun' = [AllBegun EXCEPT ![j] = @ \cup {i}]
        /\ UNCHANGED root
    BY <1>1, <1>2, <1>4, <1>5, <1>6, <1>7, <1>8 DEF Outcome!Unsettled, NoAnswer, Numbers
  <1>10. QED
    BY <1>9 DEF Outcome!Begin, AllBegun, Begun

LEMMA PublishImplements ==
  ASSUME IInv, NEW w \in Workers, PublishWrite(w)
  PROVE  Outcome!Publish(claim[w].job)
  <1> DEFINE j == claim[w].job
             n == claim[w].number
             answer == read[w].answer
             status == read[w].status
  <1>1. /\ j \in Jobs /\ n \in Numbers /\ job[j].status = "running"
        /\ n = job[j].attempts
    BY OwnerFacts DEF PublishWrite, Owning
  <1>2. /\ status \in Outcomes /\ child[j][n].status \in Outcomes
        /\ answer.by = n /\ answer \in Answers
        /\ status = "waiting_approval" => child[j][n].status = "waiting_approval"
    BY DEF PublishWrite, IInv, TypeOK, OwnerInv, ChildOf, ChildRows
  <1>3. root[j] = [status |-> "running", answer |-> NoAnswer]
    BY <1>1 DEF IInv, PublicResult
  <1>4. answer.by = n /\ (status = "waiting_approval" => j \notin SafeJobs)
    <2>1. child[j][n].status = "waiting_approval" => j \notin SafeJobs
      BY <1>1 DEF IInv, ChildInv
    <2>2. QED
      BY <1>2, <2>1
  <1>5. n \in Begun(j)
    BY <1>1, <1>2 DEF Begun, Outcomes
  <1>6. \A m \in Begun(j) : m <= n
    BY <1>1, BegunBounds
  <1>7. AllBegun[j] = Begun(j)
    BY <1>1 DEF AllBegun
  <1>8. AllBegun' = AllBegun
    BY DEF PublishWrite, AllBegun, Begun
  <1>9. root' = [root EXCEPT ![j] = [status |-> status, answer |-> answer]]
    BY DEF PublishWrite
  <1> HIDE DEF j, n, answer, status
  <1>10. /\ root[j] = Outcome!Unsettled
         /\ \E a \in Answers, st \in {"completed", "failed", "waiting_approval"} :
               /\ a.by \in AllBegun[j]
               /\ \A m \in AllBegun[j] : m <= a.by
               /\ st = "waiting_approval" => j \notin SafeJobs
               /\ root' = [root EXCEPT ![j] = [status |-> st, answer |-> a]]
         /\ UNCHANGED AllBegun
    BY <1>2, <1>3, <1>4, <1>5, <1>6, <1>7, <1>8, <1>9 DEF Outcome!Unsettled, NoAnswer, Outcomes
  <1>11. QED
    BY <1>10 DEF Outcome!Publish, AllBegun, Begun, j

(* ClaimExhausted and FailUnstarted end a job without a result. *)
LEMMA GiveUpImplements ==
  ASSUME IInv, NEW j \in Jobs, job[j].status = "running", NEW text \in Texts,
         root' = [root EXCEPT ![j] = [status |-> "failed", answer |-> Reason(text)]],
         UNCHANGED child
  PROVE  Outcome!GiveUp(j)
  <1>1. root[j] = [status |-> "running", answer |-> NoAnswer]
    BY DEF IInv, PublicResult
  <1>2. Reason(text) \in Answers /\ Reason(text).by = 0
    BY AnswerTypes DEF Reason
  <1>3. UNCHANGED AllBegun
    BY DEF AllBegun, Begun
  <1>4. /\ root[j] = Outcome!Unsettled
        /\ \E answer \in Answers :
              /\ answer.by = 0
              /\ root' = [root EXCEPT ![j] = [status |-> "failed", answer |-> answer]]
    BY <1>1, <1>2 DEF Outcome!Unsettled, NoAnswer
  <1>5. QED
    BY <1>3, <1>4 DEF Outcome!GiveUp, AllBegun, Begun

(* What an execution writes after start_attempt created its private run,   *)
(* and what a reconciliation writes, is nobody's outcome yet.              *)
LEMMA ChildWriteStutters ==
  ASSUME IInv, NEW j \in Jobs, NEW n \in Numbers, NEW row,
         child[j][n].status # "none", row.status # "none",
         child' = [child EXCEPT ![j][n] = row], UNCHANGED root
  PROVE  UNCHANGED Outcome!vars
  <1>1. /\ child'[j][n] = row
        /\ \A k \in Jobs, m \in Numbers : k # j \/ m # n => child'[k][m] = child[k][m]
    BY DEF IInv, TypeOK
  <1>2. ASSUME NEW k \in Jobs, NEW m \in Numbers
        PROVE  child'[k][m].status = "none" <=> child[k][m].status = "none"
    BY <1>1
  <1>3. QED
    BY <1>2, OutcomeStutters

LEMMA FailPrivateRunStutters ==
  ASSUME IInv, NEW w \in Workers, pc[w] \in {"executing", "committed", "publish"},
         NEW text, FailPrivateRun(claim[w], text), UNCHANGED root
  PROVE  UNCHANGED Outcome!vars
  <1> DEFINE c == claim[w]
             row == [child[c.job][c.number] EXCEPT !.status = "failed",
                        !.answer = [by |-> c.number, text |-> text]]
  <1>1. c.job \in Jobs /\ c.number \in Numbers
    BY OwnerFacts DEF Owning
  <1>2. child[c.job][c.number] \in ChildRows /\ child[c.job][c.number].status # "none"
    BY <1>1, RowFacts DEF IInv, OwnerInv, ChildOf, Outcomes
  <1>3. child' = [child EXCEPT ![c.job][c.number] = row]
    BY <1>1 DEF FailPrivateRun, IInv, TypeOK
  <1>4. row.status # "none"
    BY <1>2 DEF ChildRows
  <1> HIDE DEF row
  <1>5. QED
    BY <1>1, <1>2, <1>3, <1>4, ChildWriteStutters

LEMMA OutcomeStep == IInv /\ [Next]_vars => [Outcome!Next]_(Outcome!vars)
  <1> SUFFICES ASSUME IInv, [Next]_vars PROVE [Outcome!Next]_(Outcome!vars)
    OBVIOUS
  <1>1. ASSUME UNCHANGED <<child, root>> PROVE UNCHANGED Outcome!vars
    BY <1>1, OutcomeStutters
  <1>2. ASSUME NEW w \in Workers, WorkerStep(w) PROVE [Outcome!Next]_(Outcome!vars)
    <2>1. CASE ClaimExhausted(w)
      <3>1. seen[w].job \in Jobs /\ job[seen[w].job].status = "running"
        BY <2>1, SnapshotFacts DEF ClaimExhausted, CanRetry
      <3>2. PICK text \in Texts : /\ root' = [root EXCEPT ![seen[w].job] =
                                      [status |-> "failed", answer |-> Reason(text)]]
                                 /\ UNCHANGED child
        BY <2>1 DEF ClaimExhausted, Texts
      <3>3. Outcome!GiveUp(seen[w].job)
        BY <3>1, <3>2, GiveUpImplements
      <3>4. QED
        BY <3>1, <3>3 DEF Outcome!Next
    <2>2. CASE FailUnstarted(w)
      <3>1. claim[w].job \in Jobs /\ job[claim[w].job].status = "running"
        BY <2>2, OwnerFacts DEF FailUnstarted, Owning
      <3>2. /\ root' = [root EXCEPT ![claim[w].job] =
                          [status |-> "failed", answer |-> Reason("SCOPE_CHANGED")]]
            /\ UNCHANGED child /\ "SCOPE_CHANGED" \in Texts
        BY <2>2 DEF FailUnstarted, Texts
      <3>3. Outcome!GiveUp(claim[w].job)
        BY <3>1, <3>2, GiveUpImplements
      <3>4. QED
        BY <3>1, <3>3 DEF Outcome!Next
    <2>3. CASE Start(w)
      <3>1. PICK j \in Jobs : j = claim[w].job
        BY <2>3, OwnerFacts DEF Start, Owning
      <3>2. Outcome!Begin(j)
        BY <2>3, <3>1, StartImplements
      <3>3. QED
        BY <3>1, <3>2 DEF Outcome!Next
    <2>4. CASE PublishWrite(w)
      <3>1. claim[w].job \in Jobs
        BY <2>4, OwnerFacts DEF PublishWrite, Owning
      <3>2. QED
        BY <2>4, <3>1, PublishImplements DEF Outcome!Next
    <2>5. CASE ExecuteCommit(w)
      <3>1. claim[w].job \in Jobs /\ claim[w].number \in Numbers
        BY <2>5, OwnerFacts DEF ExecuteCommit, Owning
      <3>2. child[claim[w].job][claim[w].number].status # "none"
        BY <2>5 DEF ExecuteCommit, IInv, OwnerInv, ChildOf
      <3>3. PICK status \in Outcomes :
                child' = [child EXCEPT ![claim[w].job][claim[w].number] =
                  IF status = "waiting_approval"
                  THEN [status |-> status, checkpoint |-> "pending",
                        answer |-> [by |-> claim[w].number, text |-> "WAITING"]]
                  ELSE [status |-> status, checkpoint |-> "none",
                        answer |-> [by |-> claim[w].number, text |-> "RESULT"]]]
        BY <2>5 DEF ExecuteCommit, Reachable, Outcomes
      <3> DEFINE row == IF status = "waiting_approval"
                        THEN [status |-> status, checkpoint |-> "pending",
                              answer |-> [by |-> claim[w].number, text |-> "WAITING"]]
                        ELSE [status |-> status, checkpoint |-> "none",
                              answer |-> [by |-> claim[w].number, text |-> "RESULT"]]
      <3>4. row.status # "none"
        BY DEF Outcomes
      <3>5. child' = [child EXCEPT ![claim[w].job][claim[w].number] = row] /\ UNCHANGED root
        BY <2>5, <3>3 DEF ExecuteCommit
      <3> HIDE DEF row
      <3>6. QED
        BY <3>1, <3>2, <3>4, <3>5, ChildWriteStutters
    <2>6. CASE ExecuteRaise(w)
      BY <2>6, FailPrivateRunStutters DEF ExecuteRaise
    <2>7. CASE InvalidResult(w)
      BY <2>7, FailPrivateRunStutters DEF InvalidResult
    <2>8. CASE UNCHANGED <<child, root>>
      BY <1>1, <2>8
    <2>9. QED
      BY <1>2, <2>1, <2>2, <2>3, <2>4, <2>5, <2>6, <2>7, <2>8 DEF WorkerStep, PollEmpty,
         vars, Select, ClaimLost, ClaimTaken, StartLate, StartRefused, FailUnstartedLate,
         ExecuteReturn, PublishStale, PublishRead, PublishFenced
  <1>3. ASSUME NEW j \in Jobs, Submit(j) PROVE [Outcome!Next]_(Outcome!vars)
    BY <1>3, SubmitImplements DEF Outcome!Next
  <1>4. ASSUME NEW j \in Jobs, NEW n \in Numbers, CheckpointExpires(j, n)
        PROVE  UNCHANGED Outcome!vars
    <2> DEFINE row == [child[j][n] EXCEPT !.checkpoint = "expired"]
    <2>1. /\ child[j][n] \in ChildRows /\ child[j][n].checkpoint = "pending"
          /\ child' = [child EXCEPT ![j][n] = row] /\ UNCHANGED root
      BY <1>4, RowFacts DEF CheckpointExpires, IInv, TypeOK
    <2>2. child[j][n].status = "none" => child[j][n] =
             [status |-> child[j][n].status, answer |-> NoAnswer, checkpoint |-> "none"]
      BY DEF IInv, ChildInv
    <2>3. child[j][n].status # "none"
      BY <2>1, <2>2
    <2>4. row.status # "none"
      BY <2>1, <2>3 DEF ChildRows
    <2> HIDE DEF row
    <2>5. QED
      BY <2>1, <2>3, <2>4, ChildWriteStutters
  <1>5. ASSUME NEW j \in Jobs, NEW n \in Numbers, RecoveryWrites(j, n)
        PROVE  UNCHANGED Outcome!vars
    <2> DEFINE row == IF recovery[j][n] = "fail"
                      THEN [status |-> "failed", checkpoint |-> "none",
                            answer |-> [by |-> n, text |-> "APPROVAL_CHECKPOINT_EXPIRED"]]
                      ELSE [child[j][n] EXCEPT !.checkpoint = "none"]
    <2>1. child[j][n] \in ChildRows /\ child[j][n].status # "none" /\ UNCHANGED root
      <3>1. recovery[j][n] \in {"delete", "fail"} /\ UNCHANGED root
        BY <1>5 DEF RecoveryWrites, IInv, TypeOK, Recoveries
      <3>2. child[j][n].status \in {"completed", "failed", "waiting_approval"}
        BY <3>1 DEF IInv, RecoveryInv
      <3>3. QED
        BY <3>1, <3>2, RowFacts
    <2>2. row.status # "none"
      BY <2>1 DEF ChildRows
    <2>3. child' = [child EXCEPT ![j][n] = row]
      BY <1>5 DEF RecoveryWrites, IInv, TypeOK
    <2> HIDE DEF row
    <2>4. QED
      BY <2>1, <2>2, <2>3, ChildWriteStutters
  <1>6. ASSUME Environment,
               ~\E j \in Jobs : Submit(j),
               ~\E j \in Jobs, n \in Numbers :
                    CheckpointExpires(j, n) \/ RecoveryWrites(j, n)
        PROVE  UNCHANGED <<child, root>>
    BY <1>6 DEF Environment, Tick, RevokeScope, RecoveryReads, RecoveryStops
  <1>7. ASSUME NEW w \in Workers, Renew(w) \/ Crash(w) PROVE UNCHANGED <<child, root>>
    BY <1>7 DEF Renew, Crash
  <1>8. ASSUME UNCHANGED vars PROVE UNCHANGED <<child, root>>
    BY <1>8 DEF vars
  <1>9. CASE Environment
    BY <1>1, <1>3, <1>4, <1>5, <1>6, <1>9
  <1>10. QED
    BY <1>1, <1>2, <1>7, <1>8, <1>9 DEF Next

(* The pipeline keeps the promise of TaskOutcome: queue, leases, crashes   *)
(* and late workers never show in what a user sees of a task.              *)
THEOREM Implementation == Spec => ImplementsOutcome
  BY OutcomeInit, OutcomeStep, Invariance, PTL DEF Spec, ImplementsOutcome, Outcome!Spec
=============================================================================
