------------------------------ MODULE Arms_proofs ------------------------------
(***************************************************************************)
(* Proofs about Comparison and ModelArms: for every set of pilots the      *)
(* model comparison can be started with, every limit of the attempts and   *)
(* every budget of tokens and characters, its arms keep to their budgets;  *)
(* for every set of case sizes and every limit of the attempts, the two    *)
(* arms of a pair without models agree.                                    *)
(***************************************************************************)
EXTENDS ModelArms, TLAPS, SequenceTheorems

ArmTools == {LogTool, TicketTool, KnowledgeTool, "none"}

Stages == {"calling", "deciding", "waiting", "ended"}

JobType ==
    [pc: Stages, tool: ArmTools, used: Nat, chosen: SUBSET ArmTools,
     answer: {"refused", "error", "empty", "none"}, late: BOOLEAN]

ArmType ==
    [variant: ArmNames, asks: Nat, spoke: BOOLEAN, review: {"none", "waiting", "over"},
     jobs: [Services -> JobType]]

ReplyType == [request: [run: Nat, tool: ArmTools, service: 1..3], answer: {"error", "empty"}]

RecordType == [variant: ArmNames, repeat: Nat, pass: BOOLEAN, responses: SUBSET ReplyType]

MeterType == [calls: Nat, reserved: Nat, chars: Nat, tokens: Nat, known: BOOLEAN]

-----------------------------------------------------------------------------
(* The branches of the arm that runs *)

JobIsSound(job) ==
    /\ job.used <= AttemptLimit
    /\ job.pc = "calling" => job.used < AttemptLimit /\ ~ job.late
    /\ job.late => job.used < AttemptLimit
    /\ job.pc \in {"deciding", "waiting"} /\ ~ job.late => job.used >= 1

(* How often a branch that got as far as job says has asked its model at   *)
(* most: after each call, and once more when the deadline passed.          *)
TurnsOf(job) ==
    IF job.pc = "deciding" THEN IF job.late THEN job.used ELSE job.used - 1
    ELSE IF job.late THEN job.used + 1 ELSE job.used

Turns(s) == IF s \in Services THEN TurnsOf(arm.jobs[s]) ELSE 0

ReviewTurn == IF arm.review = "none" THEN 0 ELSE 1

(* The tokens reserved for an answer that has not come.                    *)
HeldOf(job) == IF job.pc = "waiting" THEN Cost ELSE 0

Held(s) == IF s \in Services THEN HeldOf(arm.jobs[s]) ELSE 0

HeldForReview == IF arm.review = "waiting" THEN Cost ELSE 0

Spent(s) == IF s \in Services THEN arm.jobs[s].used ELSE 0

(* Every call of the model and every token reported is accounted for by a  *)
(* branch or by the review, and every call on the wire by an attempt.      *)
RunIsSound ==
    /\ arm \in ArmType
    /\ \A s \in Services : JobIsSound(arm.jobs[s])
    /\ arm.asks <= Turns(1) + Turns(2) + Turns(3) + ReviewTurn
    /\ meter.tokens + Held(1) + Held(2) + Held(3) + HeldForReview <= meter.reserved
    /\ Len(wire) <= Spent(1) + Spent(2) + Spent(3)
    /\ arm.review # "none" => ServicesEnded

MeterIsSound ==
    /\ meter \in MeterType
    /\ meter.calls <= ModelLimitOf /\ meter.reserved <= TokenLimit /\ meter.chars <= CharLimit
    /\ meter.tokens <= meter.reserved

FileIsSound == raw \in Seq(RecordType) /\ \A k \in 1..Len(raw) : raw[k].pass = TRUE

ArmsInv ==
    /\ pilot \in Pilots /\ wire \in Seq(ReplyType)
    /\ MeterIsSound /\ FileIsSound
    /\ arm = Rested \/ arm = [variant |-> "gone"] \/ RunIsSound

-----------------------------------------------------------------------------
(* What the program may be started with.                                   *)
LEMMA PilotFacts ==
    ASSUME pilot \in Pilots
    PROVE  /\ pilot.size \in 1..3 /\ pilot.repeats \in 1..3 /\ pilot.prompt \in Nat /\ pilot.usage \in BOOLEAN
           /\ pilot.lineup \in Seq(ArmNames) /\ Len(pilot.lineup) \in Nat /\ Len(pilot.lineup) >= 1
           /\ Cost \in Nat /\ AttemptLimit \in Nat /\ AttemptLimit >= 1 /\ TokenLimit \in Nat /\ CharLimit \in Nat
           /\ Services \subseteq 1..3
<1>1. /\ pilot.size \in 1..3 /\ pilot.repeats \in 1..3 /\ pilot.prompt \in Nat /\ pilot.usage \in BOOLEAN
      /\ pilot.lineup \in Seq(ArmNames) /\ pilot.lineup # <<>>
  BY ModelArmsAssumption
<1>2. Len(pilot.lineup) \in Nat /\ Len(pilot.lineup) >= 1
  BY <1>1, EmptySeq, LenProperties
<1> QED
  BY <1>1, <1>2, ModelArmsAssumption, ComparisonAssumption DEF Cost, Services

LEMMA TurnsAreNatural ==
    ASSUME NEW job \in JobType, JobIsSound(job)
    PROVE  TurnsOf(job) \in Nat
  BY DEF TurnsOf, JobType, JobIsSound

(* Every call on the wire counts as an attempt of its branch.             *)
CallsCount(b, job) == wire' \in Seq(ReplyType) /\ Len(wire') + arm.jobs[b].used <= Len(wire) + job.used

(* A branch goes on: if it asks no more than its turns grow, holds no more *)
(* tokens than are reserved, and calls no more than it counts, the arm     *)
(* stays sound.                                                            *)
LEMMA BranchMoves ==
    ASSUME ArmsInv, RunIsSound, NEW b \in Services, arm.jobs[b].pc # "ended",
           NEW job \in JobType, JobIsSound(job),
           arm' \in ArmType, arm'.jobs = [arm.jobs EXCEPT ![b] = job],
           arm'.variant = arm.variant, arm'.review = arm.review,
           arm'.asks + TurnsOf(arm.jobs[b]) <= arm.asks + TurnsOf(job), meter' \in MeterType,
           meter'.tokens + HeldOf(job) + meter.reserved <= meter.tokens + HeldOf(arm.jobs[b]) + meter'.reserved,
           CallsCount(b, job), UNCHANGED <<pilot, raw>>
    PROVE  RunIsSound'
<1>1. /\ pilot \in Pilots /\ meter \in MeterType /\ arm \in ArmType
      /\ arm.jobs[b] \in JobType /\ JobIsSound(arm.jobs[b])
  BY DEF ArmsInv, MeterIsSound, RunIsSound, ArmType
<1>2. Services' = Services /\ Cost' = Cost /\ Cost \in Nat
  BY <1>1, PilotFacts DEF Services, Cost
<1>3. /\ arm'.variant = arm.variant /\ arm'.review = arm.review
      /\ arm'.jobs[b] = job /\ \A c \in Services : c # b => arm'.jobs[c] = arm.jobs[c]
  BY <1>1 DEF ArmType
<1>4. (arm \in ArmType)'
  BY <1>2 DEF ArmType
<1>5. arm.review = "none"
  BY DEF RunIsSound, ServicesEnded, Ended
<1>6. \A c \in Services' : JobIsSound(arm'.jobs[c])
  BY <1>2, <1>3 DEF RunIsSound
<1>7. b = 1 \/ b = 2 \/ b = 3
  BY <1>1, PilotFacts
<1>8. (arm.asks <= Turns(1) + Turns(2) + Turns(3) + ReviewTurn)'
  <2>1. \A c \in Services : TurnsOf(arm.jobs[c]) \in Nat
    BY <1>1, TurnsAreNatural DEF RunIsSound, ArmType
  <2>2. \A c : Turns(c) \in Nat
    BY <2>1 DEF Turns
  <2>3. Turns(b)' = TurnsOf(job) /\ Turns(b) = TurnsOf(arm.jobs[b])
    BY <1>2, <1>3 DEF Turns, TurnsOf
  <2>4. ASSUME NEW c \in 1..3, c # b PROVE Turns(c)' = Turns(c)
    BY <1>2, <1>3, <2>4 DEF Turns, TurnsOf
  <2>5. arm.asks \in Nat /\ arm'.asks \in Nat /\ ReviewTurn' = ReviewTurn /\ ReviewTurn \in Nat
    BY <1>1, <1>3 DEF ArmType, ReviewTurn
  <2>6. /\ arm.asks <= Turns(1) + Turns(2) + Turns(3) + ReviewTurn
        /\ Turns(b)' \in Nat /\ arm'.asks + Turns(b) <= arm.asks + Turns(b)'
    BY <2>3, TurnsAreNatural DEF RunIsSound
  <2>7. Turns(1) \in Nat /\ Turns(2) \in Nat /\ Turns(3) \in Nat
    BY <2>2
  <2>8. \/ b = 1 /\ Turns(2)' = Turns(2) /\ Turns(3)' = Turns(3)
        \/ b = 2 /\ Turns(1)' = Turns(1) /\ Turns(3)' = Turns(3)
        \/ b = 3 /\ Turns(1)' = Turns(1) /\ Turns(2)' = Turns(2)
    BY <1>7, <2>4
  <2> QED
    BY <2>5, <2>6, <2>7, <2>8
<1>9. (meter.tokens + Held(1) + Held(2) + Held(3) + HeldForReview <= meter.reserved)'
  <2>1. \A c : Held(c) \in Nat
    BY <1>2 DEF Held, HeldOf
  <2>2. Held(b)' = HeldOf(job) /\ Held(b) = HeldOf(arm.jobs[b])
    BY <1>2, <1>3 DEF Held, HeldOf
  <2>3. ASSUME NEW c \in 1..3, c # b PROVE Held(c)' = Held(c)
    BY <1>2, <1>3, <2>3 DEF Held, HeldOf
  <2>4. /\ HeldForReview' = HeldForReview /\ HeldForReview \in Nat
        /\ meter.tokens \in Nat /\ meter'.tokens \in Nat /\ meter.reserved \in Nat /\ meter'.reserved \in Nat
    BY <1>1, <1>2, <1>3 DEF MeterType, HeldForReview
  <2>5. /\ meter.tokens + Held(1) + Held(2) + Held(3) + HeldForReview <= meter.reserved
        /\ Held(b)' \in Nat /\ meter'.tokens + Held(b)' + meter.reserved <= meter.tokens + Held(b) + meter'.reserved
    BY <1>2, <2>2 DEF RunIsSound, HeldOf
  <2>6. Held(1) \in Nat /\ Held(2) \in Nat /\ Held(3) \in Nat
    BY <2>1
  <2>7. \/ b = 1 /\ Held(2)' = Held(2) /\ Held(3)' = Held(3)
        \/ b = 2 /\ Held(1)' = Held(1) /\ Held(3)' = Held(3)
        \/ b = 3 /\ Held(1)' = Held(1) /\ Held(2)' = Held(2)
    BY <1>7, <2>3
  <2> QED
    BY <2>4, <2>5, <2>6, <2>7
<1>10. (Len(wire) <= Spent(1) + Spent(2) + Spent(3))'
  <2>1. \A c : Spent(c) \in Nat
    BY <1>1 DEF Spent, ArmType, JobType
  <2>2. Spent(b)' = job.used /\ Spent(b) = arm.jobs[b].used /\ job.used \in Nat
    BY <1>2, <1>3 DEF Spent, JobType
  <2>3. ASSUME NEW c \in 1..3, c # b PROVE Spent(c)' = Spent(c)
    BY <1>2, <1>3, <2>3 DEF Spent
  <2>4. Len(wire) \in Nat /\ Len(wire') \in Nat /\ Len(wire) <= Spent(1) + Spent(2) + Spent(3)
    BY LenProperties DEF ArmsInv, RunIsSound, CallsCount
  <2>5. Spent(1) \in Nat /\ Spent(2) \in Nat /\ Spent(3) \in Nat
    BY <2>1
  <2>6. \/ b = 1 /\ Spent(2)' = Spent(2) /\ Spent(3)' = Spent(3)
        \/ b = 2 /\ Spent(1)' = Spent(1) /\ Spent(3)' = Spent(3)
        \/ b = 3 /\ Spent(1)' = Spent(1) /\ Spent(2)' = Spent(2)
    BY <1>7, <2>3
  <2>7. Len(wire') + Spent(b) <= Len(wire) + Spent(b)' /\ Spent(b)' \in Nat
    BY <2>2 DEF CallsCount
  <2> QED
    BY <2>4, <2>5, <2>6, <2>7
<1>11. (arm.review # "none" => ServicesEnded)'
  BY <1>3, <1>5
<1> QED
  BY <1>4, <1>6, <1>8, <1>9, <1>10, <1>11 DEF RunIsSound

-----------------------------------------------------------------------------
LEMMA RunningFacts ==
    ASSUME ArmsInv, ArmRuns
    PROVE  RunIsSound
<1>1. arm # Rested /\ arm # [variant |-> "gone"]
  BY DEF ArmRuns, Rested
<1> QED
  BY <1>1 DEF ArmsInv

(* What has to be shown of a step of an arm.                               *)
LEMMA ArmKeeps ==
    ASSUME ArmsInv, RunIsSound', MeterIsSound', UNCHANGED <<pilot, raw>>, wire' \in Seq(ReplyType)
    PROVE  ArmsInv'
  BY DEF ArmsInv, FileIsSound

LEMMA SameMeter ==
    ASSUME ArmsInv, UNCHANGED <<pilot, meter>>
    PROVE  MeterIsSound'
  BY DEF ArmsInv, MeterIsSound, ModelLimitOf

LEMMA MeterChanges ==
    ASSUME NEW m \in MeterType, NEW calls \in Nat, NEW reserved \in Nat, NEW chars \in Nat
    PROVE  [m EXCEPT !.calls = calls, !.reserved = reserved, !.chars = chars] \in MeterType
  BY DEF MeterType

LEMMA MeterReports ==
    ASSUME NEW m \in MeterType, NEW tokens \in Nat, NEW known \in BOOLEAN
    PROVE  [m EXCEPT !.tokens = tokens, !.known = known] \in MeterType
  BY DEF MeterType

(* Before its tokens are spent a request is known to fit.                  *)
LEMMA SpendKeeps ==
    ASSUME ArmsInv, UNCHANGED pilot, Fits, Spend
    PROVE  MeterIsSound' /\ meter'.tokens = meter.tokens /\ meter'.reserved = meter.reserved + Cost
<1>1. /\ meter \in MeterType /\ Cost \in Nat /\ pilot.prompt \in Nat /\ AttemptLimit \in Nat
      /\ TokenLimit \in Nat /\ CharLimit \in Nat /\ pilot.size \in Nat
      /\ meter.tokens <= meter.reserved
  BY PilotFacts DEF ArmsInv, MeterIsSound
<1>2. /\ meter'.calls = meter.calls + 1 /\ meter'.reserved = meter.reserved + Cost
      /\ meter'.chars = meter.chars + pilot.prompt /\ meter'.tokens = meter.tokens
  BY <1>1 DEF Spend, MeterType
<1>6. meter' \in MeterType
  <2>1. meter.calls + 1 \in Nat /\ meter.reserved + Cost \in Nat /\ meter.chars + pilot.prompt \in Nat
    BY <1>1 DEF MeterType
  <2> QED
    BY <1>1, <2>1, MeterChanges DEF Spend
<1>3. ModelLimitOf \in Nat /\ ModelLimitOf' = ModelLimitOf
  BY <1>1 DEF ModelLimitOf
<1>4. meter.calls \in Nat /\ meter.reserved \in Nat /\ meter.chars \in Nat
  BY <1>1 DEF MeterType
<1>5. meter.calls + 1 <= ModelLimitOf /\ meter.reserved + Cost <= TokenLimit /\ meter.chars + pilot.prompt <= CharLimit
  BY <1>3, <1>4 DEF Fits
<1> QED
  <2>1. meter.tokens \in Nat /\ meter.tokens <= meter.reserved + Cost
    BY <1>1, <1>4 DEF MeterType
  <2> QED
    BY <1>2, <1>3, <1>5, <1>6, <2>1 DEF MeterIsSound

(* What a call reports is at most what was held for it.                    *)
LEMMA MeteredKeeps ==
    ASSUME ArmsInv, UNCHANGED pilot, NEW reported \in BOOLEAN, Metered(reported),
           meter.tokens + Cost <= meter.reserved
    PROVE  /\ MeterIsSound' /\ meter'.reserved = meter.reserved
           /\ meter'.tokens <= meter.tokens + Cost /\ meter'.tokens \in Nat
<1>1. meter \in MeterType /\ Cost \in Nat /\ meter.tokens \in Nat /\ meter.reserved \in Nat
  BY PilotFacts DEF ArmsInv, MeterIsSound, MeterType
<1>2. /\ meter'.tokens = IF reported THEN meter.tokens + Cost ELSE meter.tokens
      /\ meter'.calls = meter.calls /\ meter'.reserved = meter.reserved /\ meter'.chars = meter.chars
  BY <1>1 DEF Metered, MeterType
<1>4. meter' \in MeterType
  <2>1. meter.known \in BOOLEAN /\ (meter.known /\ reported) \in BOOLEAN
    BY <1>1 DEF MeterType
  <2>2. meter.tokens + Cost \in Nat
    BY <1>1
  <2> QED
    BY <1>1, <2>1, <2>2, MeterReports DEF Metered
<1>3. meter'.tokens <= meter.tokens + Cost /\ meter'.tokens <= meter.reserved /\ meter'.tokens \in Nat
  BY <1>1, <1>2
<1> QED
  BY <1>2, <1>3, <1>4 DEF ArmsInv, MeterIsSound, ModelLimitOf

-----------------------------------------------------------------------------
(* Each step keeps the invariant *)

(* A change of one branch, and of what the arm counts, is a change of these alone. *)
LEMMA JobChanges ==
    ASSUME arm \in ArmType, NEW b \in Services, NEW job \in JobType, arm' = [arm EXCEPT !.jobs[b] = job]
    PROVE  /\ arm' \in ArmType /\ arm'.jobs = [arm.jobs EXCEPT ![b] = job] /\ arm'.asks = arm.asks
           /\ arm'.variant = arm.variant /\ arm'.review = arm.review
<1>1. [arm.jobs EXCEPT ![b] = job] \in [Services -> JobType]
  BY DEF ArmType
<1>2. arm' \in ArmType
  BY <1>1 DEF ArmType
<1> QED
  BY <1>2 DEF ArmType

LEMMA AskingChanges ==
    ASSUME arm \in ArmType, NEW b \in Services, NEW job \in JobType, NEW asks \in Nat,
           arm' = [arm EXCEPT !.asks = asks, !.jobs[b] = job]
    PROVE  /\ arm' \in ArmType /\ arm'.jobs = [arm.jobs EXCEPT ![b] = job] /\ arm'.asks = asks
           /\ arm'.variant = arm.variant /\ arm'.review = arm.review
<1>1. [arm.jobs EXCEPT ![b] = job] \in [Services -> JobType]
  BY DEF ArmType
<1>2. arm' \in ArmType
  BY <1>1 DEF ArmType
<1> QED
  BY <1>2 DEF ArmType

LEMMA SpeakingChanges ==
    ASSUME arm \in ArmType, NEW b \in Services, NEW job \in JobType,
           arm' = [arm EXCEPT !.spoke = TRUE, !.jobs[b] = job]
    PROVE  /\ arm' \in ArmType /\ arm'.jobs = [arm.jobs EXCEPT ![b] = job] /\ arm'.asks = arm.asks
           /\ arm'.variant = arm.variant /\ arm'.review = arm.review
<1>1. [arm.jobs EXCEPT ![b] = job] \in [Services -> JobType]
  BY DEF ArmType
<1>2. arm' \in ArmType
  BY <1>1 DEF ArmType
<1> QED
  BY <1>2 DEF ArmType

(* The same for a step that leaves the meter alone and asks nothing.       *)
LEMMA StepKeepsMeter ==
    ASSUME ArmsInv, RunIsSound, NEW b \in Services, arm.jobs[b].pc # "ended",
           NEW job \in JobType, JobIsSound(job),
           arm' \in ArmType, arm'.jobs = [arm.jobs EXCEPT ![b] = job], arm'.asks = arm.asks,
           arm'.variant = arm.variant, arm'.review = arm.review,
           TurnsOf(job) >= TurnsOf(arm.jobs[b]), HeldOf(job) = HeldOf(arm.jobs[b]),
           CallsCount(b, job), UNCHANGED <<pilot, meter, raw>>
    PROVE  RunIsSound'
<1>1. arm.jobs[b] \in JobType /\ JobIsSound(arm.jobs[b]) /\ arm.asks \in Nat /\ pilot \in Pilots
  BY DEF RunIsSound, ArmType, ArmsInv
<1>2. TurnsOf(arm.jobs[b]) \in Nat /\ TurnsOf(job) \in Nat /\ HeldOf(job) \in Nat
  BY <1>1, TurnsAreNatural, PilotFacts DEF HeldOf
<1>3. meter' \in MeterType /\ meter' = meter /\ meter.tokens \in Nat /\ meter.reserved \in Nat
  BY DEF ArmsInv, MeterIsSound, MeterType
<1>4. /\ arm'.asks + TurnsOf(arm.jobs[b]) <= arm.asks + TurnsOf(job)
      /\ meter'.tokens + HeldOf(job) + meter.reserved <= meter.tokens + HeldOf(arm.jobs[b]) + meter'.reserved
  BY <1>1, <1>2, <1>3
<1> QED
  BY <1>3, <1>4, BranchMoves

(* A step that calls nothing.                                              *)
LEMMA SilentMoves ==
    ASSUME ArmsInv, NEW b, NEW job \in JobType, job.used = arm.jobs[b].used, UNCHANGED wire
    PROVE  CallsCount(b, job)
  BY LenProperties DEF ArmsInv, CallsCount, JobType

(* A call counts as an attempt whether it reaches the fixture or not.      *)
LEMMA CallsToolInv ==
    ASSUME ArmsInv, NEW b \in Services, CallsTool(b)
    PROVE  ArmsInv'
<1> DEFINE job == arm.jobs[b]
           reached == job.tool = KnowledgeTool
           answer == IF reached THEN Finds(b) ELSE "refused"
           reply == [request |-> Request(b), answer |-> answer]
           next == [job EXCEPT !.used = @ + 1, !.pc = "deciding", !.answer = answer]
<1>1. /\ ArmRuns /\ job.pc = "calling" /\ wire' = (IF reached THEN Append(wire, reply) ELSE wire)
      /\ arm' = [arm EXCEPT !.jobs[b] = next]
      /\ UNCHANGED <<pilot, meter, raw, summary>>
  BY DEF CallsTool, Going
<1>2. RunIsSound /\ arm \in ArmType /\ job \in JobType /\ JobIsSound(job) /\ pilot \in Pilots
  BY <1>1, RunningFacts DEF RunIsSound, ArmType, ArmsInv
<1>3. answer \in {"refused", "error", "empty"} /\ (reached => answer \in {"error", "empty"})
  BY DEF Finds
<1>4. reached => reply \in ReplyType
  <2>1. Len(raw) + 1 \in Nat
    BY LenProperties DEF ArmsInv, FileIsSound
  <2>2. b \in 1..3 /\ KnowledgeTool \in ArmTools
    BY <1>2, PilotFacts DEF ArmTools
  <2> HIDE DEF answer
  <2> QED
    BY <1>3, <2>1, <2>2 DEF ReplyType, Request
<1> HIDE DEF answer, reply
<1>5. job.used \in Nat /\ AttemptLimit \in Nat /\ job.used < AttemptLimit /\ ~ job.late
  BY <1>1, <1>2, PilotFacts DEF JobType, JobIsSound
<1>6. next \in JobType
  <2>1. job.used + 1 \in Nat /\ "deciding" \in Stages
    BY <1>5 DEF Stages
  <2> QED
    BY <1>2, <1>3, <2>1 DEF JobType
<1>7. next.used = job.used + 1 /\ next.pc = "deciding"
  BY <1>2 DEF JobType
<1>8. ~ next.late
  BY <1>2, <1>5 DEF JobType
<1> HIDE DEF next
<1>9. JobIsSound(next) /\ TurnsOf(next) >= TurnsOf(job) /\ HeldOf(next) = HeldOf(job)
  BY <1>1, <1>5, <1>7, <1>8 DEF JobIsSound, TurnsOf, HeldOf
<1>10. CallsCount(b, next)
  <2>1. wire \in Seq(ReplyType) /\ Len(wire) \in Nat
    BY LenProperties DEF ArmsInv
  <2>2. CASE reached
    <3>1. wire' \in Seq(ReplyType) /\ Len(wire') = Len(wire) + 1
      BY <1>1, <1>4, <2>1, <2>2, AppendProperties
    <3> QED
      BY <1>5, <1>7, <2>1, <3>1 DEF CallsCount
  <2>3. CASE ~ reached
    BY <1>1, <1>5, <1>7, <2>1, <2>3 DEF CallsCount
  <2> QED
    BY <2>2, <2>3
<1>11. RunIsSound'
  <2>1. /\ arm' \in ArmType /\ arm'.jobs = [arm.jobs EXCEPT ![b] = next] /\ arm'.asks = arm.asks
        /\ arm'.variant = arm.variant /\ arm'.review = arm.review
    BY <1>1, <1>2, <1>6, JobChanges
  <2> QED
    BY <1>1, <1>2, <1>6, <1>9, <1>10, <2>1, StepKeepsMeter
<1> QED
  BY <1>1, <1>10, <1>11, SameMeter, ArmKeeps DEF CallsCount

(* How far a branch gets once its deadline has passed.                     *)
LEMMA LateInv ==
    ASSUME ArmsInv, NEW b \in Services, Late(b)
    PROVE  ArmsInv'
<1> DEFINE job == arm.jobs[b]
<1>1. PICK pc \in {"ended", "deciding"} :
        arm' = [arm EXCEPT !.jobs[b] = [job EXCEPT !.pc = pc, !.tool = "none", !.late = TRUE]]
  BY DEF Late
<1>2. ArmRuns /\ job.pc = "calling" /\ UNCHANGED <<pilot, meter, wire, raw, summary>>
  BY DEF Late, Going
<1>3. RunIsSound /\ arm \in ArmType /\ job \in JobType /\ JobIsSound(job) /\ pilot \in Pilots
  BY <1>2, RunningFacts DEF RunIsSound, ArmType, ArmsInv
<1>4. job.used \in Nat /\ AttemptLimit \in Nat /\ job.used < AttemptLimit /\ ~ job.late
  BY <1>2, <1>3, PilotFacts DEF JobType, JobIsSound
<1> DEFINE next == [job EXCEPT !.pc = pc, !.tool = "none", !.late = TRUE]
<1>5. next \in JobType
  <2>1. "none" \in ArmTools /\ pc \in Stages /\ TRUE \in BOOLEAN
    BY DEF ArmTools, Stages
  <2> QED
    BY <1>3, <2>1 DEF JobType
<1>6. next.used = job.used /\ next.pc = pc /\ next.late
  BY <1>3 DEF JobType
<1>7. arm' = [arm EXCEPT !.jobs[b] = next]
  BY <1>1
<1> HIDE DEF next
<1>8. JobIsSound(next) /\ TurnsOf(next) >= TurnsOf(job) /\ HeldOf(next) = HeldOf(job)
  BY <1>2, <1>4, <1>6 DEF JobIsSound, TurnsOf, HeldOf
<1>9. CallsCount(b, next)
  BY <1>2, <1>5, <1>6, SilentMoves
<1>10. RunIsSound'
  <2>1. /\ arm' \in ArmType /\ arm'.jobs = [arm.jobs EXCEPT ![b] = next] /\ arm'.asks = arm.asks
        /\ arm'.variant = arm.variant /\ arm'.review = arm.review
    BY <1>3, <1>5, <1>7, JobChanges
  <2> QED
    BY <1>2, <1>3, <1>5, <1>8, <1>9, <2>1, StepKeepsMeter
<1> QED
  BY <1>2, <1>9, <1>10, SameMeter, ArmKeeps DEF CallsCount

(* A branch that has asked goes on with a tool it may still call, or ends. *)
LEMMA ChoosesFacts ==
    ASSUME ArmsInv, NEW b \in Services, arm.jobs[b] \in JobType, JobIsSound(arm.jobs[b]),
           arm.jobs[b].pc \in {"deciding", "waiting"}, NEW tool \in ArmTools
    PROVE  /\ Chooses(b, tool) \in JobType /\ JobIsSound(Chooses(b, tool))
           /\ Chooses(b, tool).pc \in {"calling", "ended"} /\ Chooses(b, tool).used = arm.jobs[b].used
           /\ TurnsOf(Chooses(b, tool)) = TurnsOf(arm.jobs[b]) + IF arm.jobs[b].pc = "deciding" THEN 1 ELSE 0
<1> DEFINE job == arm.jobs[b]
           over == tool = "none" \/ job.late \/ job.used >= AttemptLimit
           pc == IF over THEN "ended" ELSE "calling"
           next == [job EXCEPT !.tool = tool, !.chosen = @ \cup ({tool} \ {"none"}), !.pc = pc]
<1>1. Chooses(b, tool) = next
  BY DEF Chooses
<1>2. job.used \in Nat /\ AttemptLimit \in Nat /\ job.used <= AttemptLimit
  BY PilotFacts DEF JobType, JobIsSound, ArmsInv
<1>3. pc \in {"calling", "ended"} /\ (pc = "calling" => ~ job.late /\ job.used < AttemptLimit)
  BY <1>2
<1> HIDE DEF pc
<1>4. next \in JobType
  <2>1. (job.chosen \cup ({tool} \ {"none"})) \in SUBSET ArmTools
    BY DEF JobType
  <2>2. pc \in Stages
    BY <1>3 DEF Stages
  <2> QED
    BY <2>1, <2>2 DEF JobType
<1>5. next.used = job.used /\ next.pc = pc /\ (next.late <=> job.late)
  BY DEF JobType
<1> HIDE DEF next
<1>6. JobIsSound(next)
  BY <1>2, <1>3, <1>5 DEF JobIsSound
<1>7. TurnsOf(next) = TurnsOf(job) + IF job.pc = "deciding" THEN 1 ELSE 0
  BY <1>2, <1>3, <1>5 DEF TurnsOf
<1> QED
  BY <1>1, <1>3, <1>4, <1>5, <1>6, <1>7

LEMMA RuleIsTool == \A s : RuleFor(s) \in ArmTools
  BY DEF RuleFor, NextTool, ArmTools

(* A request is sent, or the budget refuses it and the rule decides.       *)
LEMMA AsksInv ==
    ASSUME ArmsInv, NEW b \in Services, Asks(b)
    PROVE  ArmsInv'
<1> DEFINE job == arm.jobs[b]
<1>1. ArmRuns /\ job.pc = "deciding" /\ UNCHANGED <<pilot, wire, raw, summary>>
  BY DEF Asks, Going
<1>2. RunIsSound /\ arm \in ArmType /\ arm.asks \in Nat /\ job \in JobType /\ JobIsSound(job) /\ pilot \in Pilots
  BY <1>1, RunningFacts DEF RunIsSound, ArmType, ArmsInv
<1>3. /\ Cost \in Nat /\ meter \in MeterType /\ meter.tokens \in Nat /\ meter.reserved \in Nat
      /\ TurnsOf(job) \in Nat /\ HeldOf(job) = 0 /\ job.used \in Nat
  BY <1>1, <1>2, PilotFacts, TurnsAreNatural DEF ArmsInv, MeterIsSound, MeterType, HeldOf, JobType
<1>4. CASE /\ MayAsk /\ Fits /\ Spend
           /\ arm' = [arm EXCEPT !.asks = @ + 1, !.jobs[b].pc = "waiting"]
  <2> DEFINE next == [job EXCEPT !.pc = "waiting"]
  <2>1. arm' = [arm EXCEPT !.asks = arm.asks + 1, !.jobs[b] = next]
    BY <1>2, <1>4 DEF ArmType
  <2>2. next \in JobType
    BY <1>2 DEF JobType, Stages
  <2>3. next.used = job.used /\ next.pc = "waiting" /\ (next.late <=> job.late)
    BY <1>2 DEF JobType
  <2> HIDE DEF next
  <2>4. JobIsSound(next)
    BY <1>1, <1>2, <2>3 DEF JobIsSound
  <2>5. TurnsOf(next) = TurnsOf(job) + 1 /\ HeldOf(next) = Cost
    BY <1>1, <1>2, <2>3 DEF TurnsOf, JobType, JobIsSound, HeldOf
  <2>6. MeterIsSound' /\ meter'.tokens = meter.tokens /\ meter'.reserved = meter.reserved + Cost
    BY <1>1, <1>4, SpendKeeps
  <2>7. /\ arm' \in ArmType /\ arm'.jobs = [arm.jobs EXCEPT ![b] = next] /\ arm'.asks = arm.asks + 1
        /\ arm'.variant = arm.variant /\ arm'.review = arm.review
    <3>1. arm.asks + 1 \in Nat
      BY <1>2
    <3> QED
      BY <1>2, <2>1, <2>2, <3>1, AskingChanges
  <2>8. /\ arm'.asks + TurnsOf(job) <= arm.asks + TurnsOf(next)
        /\ meter'.tokens + HeldOf(next) + meter.reserved <= meter.tokens + HeldOf(job) + meter'.reserved
    BY <1>2, <1>3, <2>3, <2>5, <2>6, <2>7
  <2>9. meter' \in MeterType
    BY <2>6 DEF MeterIsSound
  <2>10. RunIsSound'
    <3>1. CallsCount(b, next)
      BY <1>1, <2>2, <2>3, SilentMoves
    <3> QED
      BY <1>1, <1>2, <2>2, <2>3, <2>4, <2>7, <2>8, <2>9, <3>1, BranchMoves
  <2> QED
    BY <1>1, <2>6, <2>10, ArmKeeps DEF ArmsInv
<1>5. CASE /\ UNCHANGED meter
           /\ arm' = [arm EXCEPT !.asks = IF MayAsk THEN @ + 1 ELSE @, !.jobs[b] = Chooses(b, RuleFor(b))]
  <2> DEFINE next == Chooses(b, RuleFor(b))
             asks == IF MayAsk THEN arm.asks + 1 ELSE arm.asks
  <2>1. arm' = [arm EXCEPT !.asks = asks, !.jobs[b] = next]
    BY <1>2, <1>5 DEF ArmType
  <2>2. asks \in Nat /\ asks <= arm.asks + 1
    BY <1>2
  <2>3. /\ next \in JobType /\ JobIsSound(next) /\ next.pc \in {"calling", "ended"} /\ next.used = job.used
        /\ TurnsOf(next) = TurnsOf(job) + 1
    BY <1>1, <1>2, RuleIsTool, ChoosesFacts
  <2> HIDE DEF next, asks
  <2>4. /\ arm' \in ArmType /\ arm'.jobs = [arm.jobs EXCEPT ![b] = next] /\ arm'.asks = asks
        /\ arm'.variant = arm.variant /\ arm'.review = arm.review
    BY <1>2, <2>1, <2>2, <2>3, AskingChanges
  <2>5. HeldOf(next) = 0
    BY <2>3 DEF HeldOf
  <2>6. /\ arm'.asks + TurnsOf(job) <= arm.asks + TurnsOf(next)
        /\ meter'.tokens + HeldOf(next) + meter.reserved <= meter.tokens + HeldOf(job) + meter'.reserved
    BY <1>2, <1>3, <1>5, <2>2, <2>3, <2>4, <2>5
  <2>7. meter' \in MeterType
    BY <1>3, <1>5
  <2>8. RunIsSound'
    <3>1. CallsCount(b, next)
      BY <1>1, <2>3, SilentMoves
    <3> QED
      BY <1>1, <1>2, <2>3, <2>4, <2>6, <2>7, <3>1, BranchMoves
  <2> QED
    BY <1>1, <1>5, <2>8, SameMeter, ArmKeeps DEF ArmsInv
<1> QED
  BY <1>4, <1>5 DEF Asks

(* An answer of the model comes, or the request fails.                     *)
LEMMA AnswerInv ==
    ASSUME ArmsInv, NEW b \in Services, Decides(b) \/ DecisionFails(b)
    PROVE  ArmsInv'
<1> DEFINE job == arm.jobs[b]
<1>1. ArmRuns /\ job.pc = "waiting" /\ UNCHANGED <<pilot, wire, raw, summary>>
  BY DEF Decides, DecisionFails, Going
<1>2. RunIsSound /\ arm \in ArmType /\ arm.asks \in Nat /\ job \in JobType /\ JobIsSound(job) /\ pilot \in Pilots
  BY <1>1, RunningFacts DEF RunIsSound, ArmType, ArmsInv
<1>3. /\ Cost \in Nat /\ meter \in MeterType /\ meter.tokens \in Nat /\ meter.reserved \in Nat
      /\ TurnsOf(job) \in Nat /\ HeldOf(job) = Cost /\ pilot.usage \in BOOLEAN /\ job.used \in Nat
  BY <1>1, <1>2, PilotFacts, TurnsAreNatural DEF ArmsInv, MeterIsSound, MeterType, HeldOf, JobType
<1>4. meter.tokens + Cost <= meter.reserved
  <2>1. Held(1) \in Nat /\ Held(2) \in Nat /\ Held(3) \in Nat /\ HeldForReview \in Nat /\ Held(b) = Cost
    BY <1>3 DEF Held, HeldOf, HeldForReview
  <2>2. b = 1 \/ b = 2 \/ b = 3
    BY <1>2, PilotFacts
  <2>3. meter.tokens + Held(1) + Held(2) + Held(3) + HeldForReview <= meter.reserved
    BY <1>2 DEF RunIsSound
  <2> QED
    BY <1>3, <2>1, <2>2, <2>3
<1>5. PICK reported \in BOOLEAN : Metered(reported)
  BY <1>3 DEF Decides, DecisionFails, MeteredOnFailure
<1>6. /\ MeterIsSound' /\ meter'.reserved = meter.reserved
      /\ meter'.tokens <= meter.tokens + Cost /\ meter'.tokens \in Nat
  BY <1>1, <1>4, <1>5, MeteredKeeps
<1>7. PICK tool \in ArmTools :
        \/ arm' = [arm EXCEPT !.spoke = TRUE, !.jobs[b] = Chooses(b, tool)]
        \/ arm' = [arm EXCEPT !.jobs[b] = Chooses(b, tool)]
  <2>1. CASE Decides(b)
    BY <2>1 DEF Decides, ArmTools
  <2>2. CASE DecisionFails(b)
    BY <2>2, RuleIsTool DEF DecisionFails
  <2> QED
    BY <2>1, <2>2
<1> DEFINE next == Chooses(b, tool)
<1>8. /\ next \in JobType /\ JobIsSound(next) /\ next.pc \in {"calling", "ended"} /\ next.used = job.used
      /\ TurnsOf(next) = TurnsOf(job)
  <2>1. "waiting" # "deciding"
    OBVIOUS
  <2> QED
    BY <1>1, <1>2, <1>3, <1>7, <2>1, ChoosesFacts
<1>9. arm' = [arm EXCEPT !.spoke = TRUE, !.jobs[b] = next] \/ arm' = [arm EXCEPT !.jobs[b] = next]
  BY <1>7
<1> HIDE DEF next
<1>10. /\ arm' \in ArmType /\ arm'.jobs = [arm.jobs EXCEPT ![b] = next] /\ arm'.asks = arm.asks
       /\ arm'.variant = arm.variant /\ arm'.review = arm.review
  BY <1>2, <1>8, <1>9, SpeakingChanges, JobChanges
<1>11. HeldOf(next) = 0
  BY <1>8 DEF HeldOf
<1>12. /\ arm'.asks + TurnsOf(job) <= arm.asks + TurnsOf(next)
       /\ meter'.tokens + HeldOf(next) + meter.reserved <= meter.tokens + HeldOf(job) + meter'.reserved
  BY <1>2, <1>3, <1>6, <1>8, <1>10, <1>11
<1>13. meter' \in MeterType /\ job.pc # "ended"
  BY <1>1, <1>6 DEF MeterIsSound
<1>14. RunIsSound'
  <2>1. CallsCount(b, next)
    BY <1>1, <1>8, SilentMoves
  <2> QED
    BY <1>1, <1>2, <1>8, <1>10, <1>12, <1>13, <2>1, BranchMoves
<1> QED
  BY <1>1, <1>6, <1>14, ArmKeeps DEF ArmsInv

(* What a review changes of the arm is no branch.                          *)
LEMMA JobsStay ==
    ASSUME ArmsInv, RunIsSound, arm' \in ArmType, arm'.jobs = arm.jobs, ServicesEnded,
           arm'.asks + ReviewTurn <= arm.asks + ReviewTurn',
           meter' \in MeterType,
           meter'.tokens + HeldForReview' + meter.reserved <= meter.tokens + HeldForReview + meter'.reserved,
           UNCHANGED <<pilot, wire, raw>>
    PROVE  RunIsSound'
<1>1. /\ pilot \in Pilots /\ arm \in ArmType /\ meter.tokens \in Nat /\ meter.reserved \in Nat
      /\ meter'.tokens \in Nat /\ meter'.reserved \in Nat /\ arm.asks \in Nat /\ arm'.asks \in Nat
  BY DEF ArmsInv, MeterIsSound, RunIsSound, MeterType, ArmType
<1>2. Services' = Services /\ Cost' = Cost /\ Cost \in Nat
  BY <1>1, PilotFacts DEF Services, Cost
<1>3. (arm \in ArmType)'
  BY <1>2 DEF ArmType
<1>4. (\A s \in Services : JobIsSound(arm.jobs[s]))' /\ ServicesEnded'
  BY <1>2 DEF RunIsSound, ServicesEnded, Ended
<1>5. \A c : Turns(c)' = Turns(c) /\ Held(c)' = Held(c) /\ Spent(c)' = Spent(c)
  BY <1>2 DEF Turns, TurnsOf, Held, HeldOf, Spent
<1>6. \A c : Turns(c) \in Nat /\ Held(c) \in Nat
  BY <1>1, <1>2, TurnsAreNatural DEF RunIsSound, ArmType, Turns, Held, HeldOf
<1>7. ReviewTurn \in Nat /\ ReviewTurn' \in Nat /\ HeldForReview \in Nat /\ HeldForReview' \in Nat
  BY <1>2 DEF ReviewTurn, HeldForReview
<1>8. /\ arm.asks <= Turns(1) + Turns(2) + Turns(3) + ReviewTurn
      /\ meter.tokens + Held(1) + Held(2) + Held(3) + HeldForReview <= meter.reserved
  BY DEF RunIsSound
<1>9. (arm.asks <= Turns(1) + Turns(2) + Turns(3) + ReviewTurn)'
  <2>1. Turns(1) \in Nat /\ Turns(2) \in Nat /\ Turns(3) \in Nat
    BY <1>6
  <2>2. Turns(1)' = Turns(1) /\ Turns(2)' = Turns(2) /\ Turns(3)' = Turns(3)
    BY <1>5
  <2> QED
    BY <1>1, <1>7, <1>8, <2>1, <2>2
<1>10. (meter.tokens + Held(1) + Held(2) + Held(3) + HeldForReview <= meter.reserved)'
  <2>1. Held(1) \in Nat /\ Held(2) \in Nat /\ Held(3) \in Nat
    BY <1>6
  <2>2. Held(1)' = Held(1) /\ Held(2)' = Held(2) /\ Held(3)' = Held(3)
    BY <1>5
  <2> QED
    BY <1>1, <1>7, <1>8, <2>1, <2>2
<1>11. (Len(wire) <= Spent(1) + Spent(2) + Spent(3))'
  BY <1>5 DEF RunIsSound
<1> QED
  BY <1>3, <1>4, <1>9, <1>10, <1>11 DEF RunIsSound

LEMMA ReviewInv ==
    ASSUME ArmsInv, AsksReview \/ ReviewEnds
    PROVE  ArmsInv'
<1>1. ArmRuns /\ UNCHANGED <<pilot, wire, raw, summary>> /\ wire' \in Seq(ReplyType)
  BY DEF AsksReview, ReviewEnds, ArmsInv
<1>2. /\ RunIsSound /\ arm \in ArmType /\ pilot \in Pilots /\ Cost \in Nat /\ arm.asks \in Nat
      /\ meter.tokens \in Nat /\ meter.reserved \in Nat /\ pilot.usage \in BOOLEAN
  BY <1>1, RunningFacts, PilotFacts DEF RunIsSound, ArmsInv, MeterIsSound, MeterType, ArmType
<1>3. CASE AsksReview
  <2>1. /\ ServicesEnded /\ arm.review = "none" /\ Fits /\ Spend
        /\ arm' = [arm EXCEPT !.asks = @ + 1, !.review = "waiting"]
    BY <1>3 DEF AsksReview
  <2>2. MeterIsSound' /\ meter'.tokens = meter.tokens /\ meter'.reserved = meter.reserved + Cost
    BY <1>1, <2>1, SpendKeeps
  <2>3. arm' \in ArmType /\ arm'.jobs = arm.jobs /\ arm'.review = "waiting" /\ arm'.asks = arm.asks + 1
    <3>1. arm.asks + 1 \in Nat
      BY <1>2
    <3>2. arm' \in ArmType
      BY <1>2, <2>1, <3>1 DEF ArmType
    <3> QED
      BY <1>2, <2>1, <3>2 DEF ArmType
  <2>4. Cost' = Cost /\ HeldForReview = 0 /\ HeldForReview' = Cost /\ ReviewTurn = 0 /\ ReviewTurn' = 1
    BY <1>1, <2>1, <2>3 DEF Cost, HeldForReview, ReviewTurn
  <2>5. /\ arm'.asks + ReviewTurn <= arm.asks + ReviewTurn' /\ meter' \in MeterType
        /\ meter'.tokens + HeldForReview' + meter.reserved <= meter.tokens + HeldForReview + meter'.reserved
    BY <1>2, <2>2, <2>3, <2>4 DEF MeterIsSound
  <2>6. RunIsSound'
    BY <1>1, <1>2, <2>1, <2>3, <2>5, JobsStay
  <2> QED
    BY <1>1, <2>2, <2>6, ArmKeeps
<1>4. CASE ReviewEnds
  <2>1. arm.review = "waiting" /\ arm' = [arm EXCEPT !.review = "over"]
    BY <1>4 DEF ReviewEnds
  <2>2. PICK reported \in BOOLEAN : Metered(reported)
    BY <1>2, <1>4 DEF ReviewEnds, MeteredOnFailure
  <2>3. ServicesEnded
    BY <1>2, <2>1 DEF RunIsSound
  <2>4. meter.tokens + Cost <= meter.reserved
    <3>1. Held(1) \in Nat /\ Held(2) \in Nat /\ Held(3) \in Nat /\ HeldForReview = Cost
      BY <1>2, <2>1 DEF Held, HeldOf, HeldForReview
    <3>2. meter.tokens + Held(1) + Held(2) + Held(3) + HeldForReview <= meter.reserved
      BY <1>2 DEF RunIsSound
    <3> HIDE DEF Held, HeldForReview
    <3> QED
      BY <1>2, <3>1, <3>2
  <2>5. /\ MeterIsSound' /\ meter'.reserved = meter.reserved
        /\ meter'.tokens <= meter.tokens + Cost /\ meter'.tokens \in Nat
    BY <1>1, <2>2, <2>4, MeteredKeeps
  <2>6. arm' \in ArmType /\ arm'.jobs = arm.jobs /\ arm'.review = "over" /\ arm'.asks = arm.asks
    BY <1>2, <2>1 DEF ArmType
  <2>7. HeldForReview = Cost /\ HeldForReview' = 0 /\ ReviewTurn = 1 /\ ReviewTurn' = 1
    BY <2>1, <2>6 DEF HeldForReview, ReviewTurn
  <2>8. /\ arm'.asks + ReviewTurn <= arm.asks + ReviewTurn' /\ meter' \in MeterType
        /\ meter'.tokens + HeldForReview' + meter.reserved <= meter.tokens + HeldForReview + meter'.reserved
    BY <1>2, <2>5, <2>6, <2>7 DEF MeterIsSound
  <2>9. RunIsSound'
    BY <1>1, <1>2, <2>3, <2>6, <2>8, JobsStay
  <2> QED
    BY <1>1, <2>5, <2>9, ArmKeeps
<1> QED
  BY <1>3, <1>4

-----------------------------------------------------------------------------
(* Arms begin and end *)

(* Each arm is one of the line-up.                                         *)
LEMMA RepeatFacts ==
    ASSUME pilot \in Pilots, NEW k \in Nat, k >= 1
    PROVE  RepeatOf(k) \in Nat /\ VariantOf(k) \in ArmNames
<1> DEFINE L == Len(pilot.lineup)
           q == (k - 1) \div L
           i == (k - 1) % L
<1>1. L \in Nat \ {0} /\ pilot.lineup \in Seq(ArmNames)
  BY PilotFacts
<1> HIDE DEF L
<1>2. q \in Nat /\ i \in 0..(L - 1)
  <2>1. k - 1 \in Nat
    OBVIOUS
  <2> QED
    BY <1>1, <2>1
<1> HIDE DEF q, i
<1>3. RepeatOf(k) = 1 + q /\ VariantOf(k) = Lineup(1 + q)[1 + i]
  BY DEF RepeatOf, VariantOf, q, i, L
<1>4. Lineup(1 + q)[1 + i] \in ArmNames
  <2>1. 1 + i \in 1..L /\ L - (1 + i) + 1 \in 1..L
    BY <1>1, <1>2
  <2>2. \A n \in 1..L : pilot.lineup[n] \in ArmNames
    BY <1>1 DEF L
  <2>3. Lineup(1 + q)[1 + i] = pilot.lineup[1 + i] \/ Lineup(1 + q)[1 + i] = pilot.lineup[L - (1 + i) + 1]
    BY <2>1 DEF Lineup, Reverse, L
  <2> QED
    BY <2>1, <2>2, <2>3
<1> QED
  BY <1>2, <1>3, <1>4

LEMMA StartVariantInv ==
    ASSUME ArmsInv, StartVariant
    PROVE  ArmsInv'
<1> DEFINE k == Len(raw) + 1
           start == [s \in Services |-> NewBranch]
<1>1. /\ arm' = [variant |-> VariantOf(k), asks |-> 0, spoke |-> FALSE, review |-> "none", jobs |-> start]
      /\ wire' = <<>> /\ meter' = [calls |-> 0, reserved |-> 0, chars |-> 0, tokens |-> 0, known |-> TRUE]
      /\ UNCHANGED <<pilot, raw, summary>>
  BY DEF StartVariant
<1>2. pilot \in Pilots /\ k \in Nat /\ k >= 1
  BY LenProperties DEF ArmsInv, FileIsSound
<1>3. VariantOf(k) \in ArmNames
  BY <1>2, RepeatFacts
<1>4. /\ Services' = Services /\ ModelLimitOf' = ModelLimitOf /\ ModelLimitOf \in Nat
      /\ AttemptLimit \in Nat /\ AttemptLimit >= 1 /\ TokenLimit \in Nat /\ CharLimit \in Nat
  BY <1>1, <1>2, PilotFacts DEF Services, ModelLimitOf
<1>5. NewBranch \in JobType /\ JobIsSound(NewBranch) /\ TurnsOf(NewBranch) = 0 /\ HeldOf(NewBranch) = 0
  BY <1>4 DEF NewBranch, JobType, Stages, ArmTools, JobIsSound, TurnsOf, HeldOf
<1>6. start \in [Services -> JobType] /\ \A s \in Services : start[s] = NewBranch
  BY <1>5
<1>7. NewBranch.used = 0
  BY DEF NewBranch
<1> HIDE DEF start
<1>8. arm'.jobs = start /\ arm'.asks = 0 /\ arm'.review = "none"
  BY <1>1
<1>9. (arm \in ArmType)'
  BY <1>1, <1>3, <1>4, <1>6 DEF ArmType
<1>10. \A c : Turns(c)' = 0 /\ Held(c)' = 0 /\ Spent(c)' = 0
  <2>1. \A c : Turns(c)' = (IF c \in Services THEN TurnsOf(start[c]) ELSE 0)
    BY <1>4, <1>8 DEF Turns, TurnsOf
  <2>2. \A c : Held(c)' = (IF c \in Services THEN HeldOf(start[c]) ELSE 0)
    BY <1>1, <1>4, <1>8 DEF Held, HeldOf, Cost
  <2>3. \A c : Spent(c)' = (IF c \in Services THEN start[c].used ELSE 0)
    BY <1>4, <1>8 DEF Spent
  <2> QED
    BY <1>5, <1>6, <1>7, <2>1, <2>2, <2>3
<1>11. ReviewTurn' = 0 /\ HeldForReview' = 0 /\ meter'.tokens = 0 /\ meter'.reserved = 0 /\ Len(wire') = 0
  BY <1>1, <1>8 DEF ReviewTurn, HeldForReview
<1>12. RunIsSound'
  <2>1. (\A s \in Services : JobIsSound(arm.jobs[s]))'
    BY <1>4, <1>5, <1>6, <1>8
  <2>2. (arm.asks <= Turns(1) + Turns(2) + Turns(3) + ReviewTurn)'
    BY <1>8, <1>10, <1>11
  <2>3. (meter.tokens + Held(1) + Held(2) + Held(3) + HeldForReview <= meter.reserved)'
    BY <1>10, <1>11
  <2>4. (Len(wire) <= Spent(1) + Spent(2) + Spent(3))'
    BY <1>10, <1>11
  <2> QED
    BY <1>8, <1>9, <2>1, <2>2, <2>3, <2>4 DEF RunIsSound
<1>13. MeterIsSound'
  BY <1>1, <1>4 DEF MeterIsSound, MeterType
<1> QED
  BY <1>1, <1>12, <1>13, ArmKeeps

(* No arm that ends has called more often than its services had attempts.  *)
LEMMA EndsVariantInv ==
    ASSUME ArmsInv, EndsVariant
    PROVE  ArmsInv'
<1> DEFINE record == [variant |-> arm.variant, repeat |-> RepeatOf(Len(raw) + 1), pass |-> BudgetChecks,
                      responses |-> {wire[n] : n \in Replies}]
<1>1. /\ ArmRuns /\ raw' = Append(raw, record) /\ arm' = Rested /\ UNCHANGED <<pilot, meter, wire, summary>>
  BY DEF EndsVariant
<1>2. /\ RunIsSound /\ pilot \in Pilots /\ raw \in Seq(RecordType) /\ Len(raw) \in Nat
      /\ AttemptLimit \in Nat /\ AttemptLimit >= 1
  BY <1>1, RunningFacts, PilotFacts, LenProperties DEF ArmsInv, FileIsSound
<1>3. BudgetChecks = TRUE
  <2>1. \A c : Spent(c) \in Nat /\ Spent(c) <= AttemptLimit
    BY <1>2 DEF RunIsSound, ArmType, JobType, JobIsSound, Spent
  <2>2. Len(wire) \in Nat /\ Len(wire) <= Spent(1) + Spent(2) + Spent(3)
    BY <1>2, LenProperties DEF ArmsInv, RunIsSound
  <2>3. Len(wire) <= AttemptLimit * 3
    <3> HIDE DEF Spent
    <3> QED
      BY <1>2, <2>1, <2>2
  <2> QED
    BY <2>3 DEF BudgetChecks, ArmsInv, MeterIsSound
<1>4. record \in RecordType /\ record.pass = TRUE
  <2>1. RepeatOf(Len(raw) + 1) \in Nat
    <3> DEFINE k == Len(raw) + 1
    <3>1. k \in Nat /\ k >= 1
      BY <1>2
    <3> HIDE DEF k
    <3>2. RepeatOf(k) \in Nat
      BY <1>2, <3>1, RepeatFacts
    <3> QED
      BY <3>2 DEF k
  <2>2. arm.variant \in ArmNames
    BY <1>2 DEF RunIsSound, ArmType
  <2>3. {wire[n] : n \in Replies} \subseteq ReplyType
    BY DEF ArmsInv, Replies
  <2>4. record = [variant |-> arm.variant, repeat |-> RepeatOf(Len(raw) + 1), pass |-> TRUE,
                  responses |-> {wire[n] : n \in Replies}]
    BY <1>3
  <2> QED
    BY <2>1, <2>2, <2>3, <2>4 DEF RecordType
<1> HIDE DEF record
<1>5. /\ raw' \in Seq(RecordType) /\ Len(raw') = Len(raw) + 1
      /\ \A k \in 1..Len(raw) : raw'[k] = raw[k]
      /\ raw'[Len(raw) + 1] = record
  BY <1>1, <1>2, <1>4, AppendProperties
<1>6. ASSUME NEW k \in 1..Len(raw') PROVE raw'[k].pass = TRUE
  <2>1. CASE k \in 1..Len(raw)
    BY <1>5, <2>1 DEF ArmsInv, FileIsSound
  <2>2. CASE k = Len(raw) + 1
    BY <1>4, <1>5, <2>2
  <2>3. k \in 1..(Len(raw) + 1)
    BY <1>5
  <2>4. k \in 1..Len(raw) \/ k = Len(raw) + 1
    BY <1>2, <2>3
  <2> QED
    BY <2>1, <2>2, <2>4
<1> QED
  BY <1>1, <1>5, <1>6, SameMeter DEF ArmsInv, FileIsSound

LEMMA RestInv ==
    ASSUME ArmsInv, WritesSummary \/ Stopped \/ UNCHANGED armVars
    PROVE  ArmsInv'
<1>1. UNCHANGED <<pilot, meter, wire, raw>>
  BY DEF WritesSummary, Stopped, armVars
<1>2. FileIsSound' /\ MeterIsSound'
  BY <1>1, SameMeter DEF ArmsInv, FileIsSound
<1>3. CASE Stopped
  BY <1>1, <1>2, <1>3 DEF Stopped, ArmsInv
<1>4. CASE UNCHANGED arm
  <2>1. RunIsSound => RunIsSound'
    <3>1. Services' = Services /\ ArmType' = ArmType /\ ServicesEnded' = ServicesEnded
      BY <1>1, <1>4 DEF ArmType, Services, ServicesEnded, Ended
    <3>2. \A b : Turns(b)' = Turns(b) /\ Held(b)' = Held(b) /\ Spent(b)' = Spent(b)
      BY <1>1, <1>4, <3>1 DEF Turns, TurnsOf, Held, HeldOf, Cost, Spent
    <3>3. ReviewTurn' = ReviewTurn /\ HeldForReview' = HeldForReview
      BY <1>1, <1>4 DEF ReviewTurn, HeldForReview, Cost
    <3> QED
      BY <1>1, <1>4, <3>1, <3>2, <3>3 DEF RunIsSound
  <2> QED
    BY <1>1, <1>2, <1>4, <2>1 DEF ArmsInv
<1> QED
  BY <1>3, <1>4 DEF WritesSummary, armVars

-----------------------------------------------------------------------------
LEMMA ArmsStart ==
    ASSUME ArmsInit
    PROVE  ArmsInv
<1>1. /\ pilot \in Pilots /\ arm = Rested /\ wire = <<>> /\ raw = <<>>
      /\ meter = [calls |-> 0, reserved |-> 0, chars |-> 0, tokens |-> 0, known |-> TRUE]
  BY DEF ArmsInit
<1>2. ModelLimitOf \in Nat /\ TokenLimit \in Nat /\ CharLimit \in Nat
  BY <1>1, PilotFacts DEF ModelLimitOf
<1>3. MeterIsSound
  BY <1>1, <1>2 DEF MeterIsSound, MeterType
<1> QED
  BY <1>1, <1>3 DEF ArmsInv, FileIsSound

LEMMA ArmsStep ==
    ASSUME ArmsInv, [ArmsNext]_armVars
    PROVE  ArmsInv'
<1>1. CASE StartVariant
  BY <1>1, StartVariantInv
<1>2. ASSUME NEW b \in Services, CallsTool(b) PROVE ArmsInv'
  BY <1>2, CallsToolInv
<1>3. ASSUME NEW b \in Services, Late(b) PROVE ArmsInv'
  BY <1>3, LateInv
<1>4. ASSUME NEW b \in Services, Asks(b) PROVE ArmsInv'
  BY <1>4, AsksInv
<1>5. ASSUME NEW b \in Services, Decides(b) \/ DecisionFails(b) PROVE ArmsInv'
  BY <1>5, AnswerInv
<1>6. CASE AsksReview \/ ReviewEnds
  BY <1>6, ReviewInv
<1>7. CASE EndsVariant
  BY <1>7, EndsVariantInv
<1>8. CASE WritesSummary \/ Stopped \/ UNCHANGED armVars
  BY <1>8, RestInv
<1> QED
  BY <1>1, <1>2, <1>3, <1>4, <1>5, <1>6, <1>7, <1>8 DEF ArmsNext

(* An arm that has not had its review, and whose branches ended, has asked *)
(* its model less often than it may: each branch asks once for a call, and *)
(* once more only when its deadline has cost it a call.                    *)
LEMMA ReviewIsLeft ==
    ASSUME ArmsInv, RunIsSound, ServicesEnded, arm.review = "none"
    PROVE  arm.asks < ModelLimitOf
<1>1. pilot \in Pilots /\ pilot.size \in 1..3 /\ AttemptLimit \in Nat /\ AttemptLimit >= 1 /\ Services = 1..pilot.size
  BY PilotFacts DEF ArmsInv, Services
<1>2. ASSUME NEW s \in Services PROVE Turns(s) \in Nat /\ Turns(s) <= AttemptLimit
  <2>1. /\ arm.jobs[s].used \in Nat /\ arm.jobs[s].pc = "ended" /\ arm.jobs[s].used <= AttemptLimit
        /\ arm.jobs[s].late => arm.jobs[s].used < AttemptLimit
    BY DEF RunIsSound, ArmType, JobType, JobIsSound, ServicesEnded, Ended
  <2> QED
    BY <1>1, <2>1 DEF Turns, TurnsOf
<1>3. \A c : c \notin Services => Turns(c) = 0
  BY DEF Turns
<1>4. arm.asks \in Nat /\ arm.asks <= Turns(1) + Turns(2) + Turns(3)
  <2>1. \A c : Turns(c) \in Nat
    BY <1>2, <1>3
  <2>2. arm.asks \in Nat /\ arm.asks <= Turns(1) + Turns(2) + Turns(3) + ReviewTurn /\ ReviewTurn = 0
    BY DEF RunIsSound, ArmType, ReviewTurn
  <2> HIDE DEF Turns
  <2> QED
    BY <2>1, <2>2
<1> HIDE DEF Turns
<1>5. CASE pilot.size = 1
  <2>1. Turns(1) \in Nat /\ Turns(1) <= AttemptLimit /\ Turns(2) = 0 /\ Turns(3) = 0
    BY <1>1, <1>2, <1>3, <1>5
  <2>2. ModelLimitOf = AttemptLimit + 1
    BY <1>1, <1>5 DEF ModelLimitOf
  <2> QED
    BY <1>1, <1>4, <2>1, <2>2
<1>6. CASE pilot.size = 2
  <2>1. Turns(1) \in Nat /\ Turns(1) <= AttemptLimit /\ Turns(2) \in Nat /\ Turns(2) <= AttemptLimit /\ Turns(3) = 0
    BY <1>1, <1>2, <1>3, <1>6
  <2>2. ModelLimitOf = AttemptLimit + AttemptLimit + 1
    BY <1>1, <1>6 DEF ModelLimitOf
  <2> QED
    BY <1>1, <1>4, <2>1, <2>2
<1>7. CASE pilot.size = 3
  <2>1. /\ Turns(1) \in Nat /\ Turns(1) <= AttemptLimit /\ Turns(2) \in Nat /\ Turns(2) <= AttemptLimit
        /\ Turns(3) \in Nat /\ Turns(3) <= AttemptLimit
    BY <1>1, <1>2, <1>3, <1>7
  <2>2. ModelLimitOf = AttemptLimit + AttemptLimit + AttemptLimit + 1
    BY <1>1, <1>7 DEF ModelLimitOf
  <2> QED
    BY <1>1, <1>4, <2>1, <2>2
<1> QED
  BY <1>1, <1>5, <1>6, <1>7

(* The budgets of every arm hold whatever its branches ask at the same     *)
(* time: calls, tokens and characters are counted under one lock before a  *)
(* request is sent, a refused call of a tool is an attempt too, and one    *)
(* call to the model is kept for the review (BudgetedModel, decide,        *)
(* run_variant).                                                           *)
THEOREM ArmsBounded == ArmsSpec => []ArmsAreBounded
<1>1. ArmsInit => ArmsInv
  BY ArmsStart
<1>2. ArmsInv /\ [ArmsNext]_armVars => ArmsInv'
  BY ArmsStep
<1>3. ArmsInv => ArmsAreBounded
  <2> SUFFICES ASSUME ArmsInv PROVE ArmsAreBounded
    OBVIOUS
  <2>1. meter.reserved <= TokenLimit /\ meter.chars <= CharLimit /\ meter.tokens <= meter.reserved
    BY DEF ArmsInv, MeterIsSound
  <2>2. ASSUME ArmRuns, NEW s \in Services PROVE arm.jobs[s].used <= AttemptLimit
    BY <2>2, RunningFacts DEF RunIsSound, JobIsSound
  <2>3. ASSUME ArmRuns, ServicesEnded, arm.review = "none" PROVE arm.asks < ModelLimitOf
    BY <2>3, RunningFacts, ReviewIsLeft
  <2>4. \A n \in DOMAIN raw : raw[n].pass
    <3>1. DOMAIN raw = 1..Len(raw)
      BY DEF ArmsInv, FileIsSound
    <3> QED
      BY <3>1 DEF ArmsInv, FileIsSound
  <2> QED
    BY <2>1, <2>2, <2>3, <2>4 DEF ArmsAreBounded
<1> QED
  BY <1>1, <1>2, <1>3, PTL DEF ArmsSpec

-----------------------------------------------------------------------------
(* Pairs without models.  Whatever the order in which an arm visits the    *)
(* services, each of them comes to the same calls: logs and tickets are    *)
(* refused, and the handbook is asked if an attempt is left for it.        *)

Most == IF AttemptLimit < 3 THEN AttemptLimit ELSE 3

ToolAfter(n) ==
    IF n = 0 THEN LogTool ELSE IF n = 1 THEN TicketTool ELSE IF n = 2 THEN KnowledgeTool ELSE "none"

SeenAfter(s, n) ==
    IF n = 3 /\ Answer(KnowledgeTool) \notin Failures THEN <<Observed(KnowledgeTool, s)>> ELSE <<>>

Follows(s, job) ==
    /\ job.used \in 0..Most
    /\ job = [tool |-> ToolAfter(job.used), used |-> job.used, seen |-> SeenAfter(s, job.used)]

(* What either arm has to show in the end, a function of the case.         *)
InTheEnd(s) == IF s \in Named THEN SeenAfter(s, Most) ELSE <<>>

Everything == InTheEnd(1) \o InTheEnd(2) \o InTheEnd(3)

InAll(s) == IF s \in Named THEN Most ELSE 0

Expected(which) ==
    IF trial.fault = "non_low_tool" THEN Blocked
    ELSE [status |-> IF Everything # <<>> THEN "completed" ELSE "failed", evidence |-> Everything,
          attempts |-> IF Live THEN 0 ELSE InAll(1) + InAll(2) + InAll(3),
          verdict |-> IF which = Alone THEN ReviewOf(Everything) ELSE PooledReview(Everything)]

OutcomesAreSound ==
    \/ outcomes = <<>>
    \/ outcomes = <<Expected(trial.order[1])>>
    \/ outcomes = <<Expected(trial.order[1]), Expected(trial.order[2])>>

(* The cursor of the single agent is never past a service that is open.    *)
CursorIsSound ==
    /\ bench.evidence = Merged
    /\ \A s, t \in Named : s < t /\ Open(s) => bench.jobs[t].used = 0

BenchIsSound ==
    /\ trial.fault # "non_low_tool" /\ Len(outcomes) < 2
    /\ bench = [arm |-> trial.order[Len(outcomes) + 1], jobs |-> bench.jobs, evidence |-> bench.evidence]
    /\ bench.jobs = [s \in Named |-> bench.jobs[s]] /\ \A s \in Named : Follows(s, bench.jobs[s])
    /\ Running(Alone) => CursorIsSound

PairInv ==
    /\ trial \in FixtureTrials \cup ReplayTrials
    /\ OutcomesAreSound
    /\ bench = Resting \/ bench = [arm |-> "aborted"] \/ BenchIsSound

LEMMA AppendsOne ==
    ASSUME NEW a, NEW b
    PROVE  Append(<<>>, a) = <<a>> /\ Append(<<a>>, b) = <<a, b>>
<1> DEFINE T == {a, b}
           s == Append(<<a>>, b)
           t == Append(<<>>, a)
<1>1. a \in T /\ b \in T
  OBVIOUS
<1> HIDE DEF T
<1>2. <<>> \in Seq(T) /\ <<a>> \in Seq(T) /\ Len(<<>>) = 0 /\ Len(<<a>>) = 1
  BY <1>1
<1>3. t \in Seq(T) /\ Len(t) = 1 /\ t[1] = a
  BY <1>1, <1>2, AppendProperties
<1>4. s \in Seq(T) /\ Len(s) = 2 /\ s[1] = a /\ s[2] = b
  BY <1>1, <1>2, AppendProperties
<1> HIDE DEF s, t
<1>5. t = <<a>> /\ s = <<a, b>>
  BY <1>3, <1>4
<1> QED
  BY <1>5 DEF s, t

LEMMA TrialFacts ==
    ASSUME trial \in FixtureTrials \cup ReplayTrials
    PROVE  /\ trial.size \in 1..3 /\ Named \subseteq 1..3 /\ Named = 1..trial.size
           /\ trial.order = <<Alone, Pooled>> \/ trial.order = <<Pooled, Alone>>
           /\ AttemptLimit \in Nat /\ Most \in 1..3 /\ Most <= AttemptLimit
<1>1. trial.size \in Sizes /\ (trial.order = <<Alone, Pooled>> \/ trial.order = <<Pooled, Alone>>)
  BY DEF FixtureTrials, ReplayTrials
<1>2. trial.size \in 1..3
  BY <1>1, ComparisonAssumption
<1> QED
  BY <1>1, <1>2, ComparisonAssumption DEF Named, Most

LEMMA TrialStays ==
    ASSUME UNCHANGED trial
    PROVE  /\ Named' = Named /\ \A s, n : SeenAfter(s, n)' = SeenAfter(s, n)
           /\ \A which : Expected(which)' = Expected(which)
<1>1. Named' = Named /\ Live' = Live
  BY DEF Named, Live
<1>2. \A t : Answer(t)' = Answer(t)
  BY DEF Answer, Live, Handbook
<1>3. \A s, n : SeenAfter(s, n)' = SeenAfter(s, n)
  BY <1>2 DEF SeenAfter, Observed
<1>4. Everything' = Everything /\ \A s : InAll(s)' = InAll(s)
  BY <1>1, <1>3 DEF Everything, InTheEnd, InAll
<1>5. \A e : Claims(e)' = Claims(e)
  BY DEF Claims
<1>6. \A e : ReviewOf(e)' = ReviewOf(e) /\ PooledReview(e)' = PooledReview(e)
  BY <1>5 DEF ReviewOf, PooledReview
<1> QED
  BY <1>1, <1>3, <1>4, <1>6 DEF Expected

(* A call brings its service one step further, and shows the handbook only *)
(* to one that has seen nothing before.                                    *)
LEMMA CallKeeps ==
    ASSUME PairInv, NEW s \in Named, Follows(s, bench.jobs[s]), Open(s)
    PROVE  /\ Follows(s, AfterCall(s)) /\ AfterCall(s).used = bench.jobs[s].used + 1
           /\ bench.jobs[s].seen = <<>> /\ AfterCall(s).seen = Brought(s)
<1> DEFINE job == bench.jobs[s]
<1>1. /\ job.used \in 0..2 /\ job.used + 1 \in 0..Most /\ job.seen = <<>> /\ job.tool = ToolAfter(job.used)
  <2>1. /\ AttemptLimit \in Nat /\ Most = IF AttemptLimit < 3 THEN AttemptLimit ELSE 3
        /\ job.used \in 0..Most /\ job.used < AttemptLimit
    BY TrialFacts DEF PairInv, Follows, Open, Most
  <2>2. job.tool = ToolAfter(job.used) /\ job.seen = SeenAfter(s, job.used) /\ job.tool # "none"
    BY DEF Follows, Open
  <2>3. job.used # 3
    BY <2>2 DEF ToolAfter
  <2>4. job.seen = <<>>
    BY <2>2, <2>3 DEF SeenAfter
  <2> QED
    BY <2>1, <2>2, <2>3, <2>4
<1>2. Brought(s) = SeenAfter(s, job.used + 1) /\ NextTool(job.tool, Answer(job.tool) \in Failures, Answer(job.tool)) = ToolAfter(job.used + 1)
  <2>1. CASE job.used = 0
    <3>1. job.tool = LogTool /\ Answer(job.tool) = "refused"
      BY <1>1, <2>1 DEF ToolAfter, Answer, LogTool, KnowledgeTool
    <3> QED
      BY <2>1, <3>1 DEF Brought, SeenAfter, NextTool, ToolAfter, Failures
  <2>2. CASE job.used = 1
    <3>1. job.tool = TicketTool /\ Answer(job.tool) = "refused"
      BY <1>1, <2>2 DEF ToolAfter, Answer, TicketTool, KnowledgeTool
    <3> QED
      BY <2>2, <3>1 DEF Brought, SeenAfter, NextTool, ToolAfter, Failures, LogTool, TicketTool
  <2>3. CASE job.used = 2
    <3>1. job.tool = KnowledgeTool
      BY <1>1, <2>3 DEF ToolAfter
    <3> QED
      BY <2>3, <3>1 DEF Brought, SeenAfter, NextTool, ToolAfter, LogTool, TicketTool, KnowledgeTool
  <2> QED
    BY <1>1, <2>1, <2>2, <2>3
<1>3. <<>> \o Brought(s) = Brought(s)
  <2> DEFINE o == Observed(job.tool, s)
  <2>1. Brought(s) = <<>> \/ Brought(s) = <<o>>
    BY DEF Brought
  <2> HIDE DEF o
  <2>2. <<>> \in Seq({o}) /\ <<o>> \in Seq({o})
    OBVIOUS
  <2>3. Brought(s) \in Seq({o})
    BY <2>1, <2>2
  <2> QED
    BY <2>3, ConcatEmptySeq
<1>4. AfterCall(s) = [tool |-> ToolAfter(job.used + 1), used |-> job.used + 1, seen |-> SeenAfter(s, job.used + 1)]
  BY <1>1, <1>2, <1>3 DEF AfterCall
<1> QED
  BY <1>1, <1>2, <1>4 DEF Follows

LEMMA ClosedFacts ==
    ASSUME PairInv, NEW s \in Named, Follows(s, bench.jobs[s]), ~ Open(s)
    PROVE  bench.jobs[s].used = Most /\ bench.jobs[s].seen = SeenAfter(s, Most)
<1>1. bench.jobs[s].used \in 0..Most /\ bench.jobs[s].tool = ToolAfter(bench.jobs[s].used)
      /\ bench.jobs[s].seen = SeenAfter(s, bench.jobs[s].used)
  BY DEF Follows
<1>2. AttemptLimit \in Nat /\ Most = IF AttemptLimit < 3 THEN AttemptLimit ELSE 3
  BY TrialFacts DEF PairInv, Most
<1>3. bench.jobs[s].used >= 3 \/ bench.jobs[s].used >= AttemptLimit
  BY <1>1, <1>2 DEF Open, ToolAfter, LogTool, TicketTool, KnowledgeTool
<1> QED
  BY <1>1, <1>2, <1>3

(* The branches of a bench that goes on.                                   *)
LEMMA BenchGoesOn ==
    ASSUME PairInv, BenchIsSound, NEW s \in Named, Open(s), UNCHANGED <<trial, outcomes>>,
           NEW e, bench' = [bench EXCEPT !.evidence = e, !.jobs[s] = AfterCall(s)],
           Running(Alone) => CursorIsSound'
    PROVE  PairInv'
<1>1. /\ bench = [arm |-> trial.order[Len(outcomes) + 1], jobs |-> bench.jobs, evidence |-> bench.evidence]
      /\ bench.jobs = [t \in Named |-> bench.jobs[t]] /\ \A t \in Named : Follows(t, bench.jobs[t])
  BY DEF BenchIsSound
<1>2. bench' = [arm |-> bench.arm, jobs |-> [bench.jobs EXCEPT ![s] = AfterCall(s)], evidence |-> e]
  BY <1>1
<1>3. bench'.arm = bench.arm /\ bench'.jobs = [bench.jobs EXCEPT ![s] = AfterCall(s)]
  BY <1>2
<1>4. Follows(s, AfterCall(s))
  BY <1>1, CallKeeps
<1>5. Named' = Named /\ \A t, n : SeenAfter(t, n)' = SeenAfter(t, n)
  BY TrialStays
<1>6. (\A t \in Named : Follows(t, bench.jobs[t]))'
  <2>1. ASSUME NEW t \in Named PROVE Follows(t, bench.jobs[t])'
    <3>1. CASE t = s
      <4>1. bench'.jobs[t] = AfterCall(s)
        BY <1>1, <1>3, <3>1
      <4> QED
        BY <1>4, <1>5, <3>1, <4>1 DEF Follows
    <3>2. CASE t # s
      <4>1. bench'.jobs[t] = bench.jobs[t]
        BY <1>1, <1>3, <3>2
      <4> QED
        BY <1>1, <1>5, <4>1 DEF Follows
    <3> QED
      BY <3>1, <3>2
  <2> QED
    BY <1>5, <2>1
<1>7. BenchIsSound'
  <2>1. (bench.jobs = [t \in Named |-> bench.jobs[t]])'
    <3>1. DOMAIN bench'.jobs = Named /\ bench'.jobs = [t \in DOMAIN bench'.jobs |-> bench'.jobs[t]]
      BY <1>1, <1>3
    <3> QED
      BY <1>5, <3>1
  <2>2. (bench = [arm |-> trial.order[Len(outcomes) + 1], jobs |-> bench.jobs, evidence |-> bench.evidence])'
    <3>1. bench.arm = trial.order[Len(outcomes) + 1]
      BY <1>1
    <3>2. bench'.jobs = [bench.jobs EXCEPT ![s] = AfterCall(s)] /\ bench'.evidence = e
      BY <1>2
    <3> QED
      BY <1>2, <3>1, <3>2
  <2>3. (Running(Alone) => CursorIsSound)'
    BY <1>3 DEF Running
  <2>4. (trial.fault # "non_low_tool" /\ Len(outcomes) < 2)'
    BY DEF BenchIsSound
  <2> QED
    BY <1>6, <2>1, <2>2, <2>3, <2>4 DEF BenchIsSound
<1>8. OutcomesAreSound'
  BY TrialStays DEF PairInv, OutcomesAreSound
<1> QED
  BY <1>7, <1>8 DEF PairInv

LEMMA FirstIsLeast ==
    ASSUME NEW S, S \subseteq 1..3, S # {}
    PROVE  First(S) \in S /\ \A t \in S : First(S) <= t
<1>1. \E s \in S : \A t \in S : s <= t
  <2>1. CASE 1 \in S
    BY <2>1
  <2>2. CASE 1 \notin S /\ 2 \in S
    <3>1. \A t \in S : 2 <= t
      BY <2>2
    <3> QED
      BY <2>2, <3>1
  <2>3. CASE 1 \notin S /\ 2 \notin S
    <3>1. PICK x \in S : TRUE
      OBVIOUS
    <3>2. x = 3 /\ \A t \in S : 3 <= t
      BY <2>3
    <3> QED
      BY <3>2
  <2> QED
    BY <2>1, <2>2, <2>3
<1> QED
  BY <1>1 DEF First

(* The next call of the single agent adds to its evidence where the merge  *)
(* of the branches puts it: the services after the first open one have not *)
(* been called, and so have nothing to show.                               *)
LEMMA SingleCallInv ==
    ASSUME PairInv, SingleCall
    PROVE  PairInv'
<1> DEFINE opened == {n \in Named : Open(n)}
<1>1. Running(Alone) /\ opened # {} /\ UNCHANGED <<trial, outcomes>> /\ trial \in FixtureTrials \cup ReplayTrials
  BY DEF SingleCall, PairInv
<1>2. PICK s \in opened :
        /\ \A t \in opened : s <= t
        /\ bench' = [bench EXCEPT !.evidence = bench.evidence \o Brought(s), !.jobs[s] = AfterCall(s)]
  <2>1. opened \subseteq 1..3
    BY <1>1, TrialFacts
  <2>2. First(opened) \in opened /\ \A t \in opened : First(opened) <= t
    BY <1>1, <2>1, FirstIsLeast
  <2>3. bench' = [bench EXCEPT !.evidence = bench.evidence \o Brought(First(opened)),
                               !.jobs[First(opened)] = AfterCall(First(opened))]
    BY DEF SingleCall
  <2> QED
    BY <2>2, <2>3
<1>3. BenchIsSound /\ CursorIsSound
  <2>1. bench # Resting /\ bench # [arm |-> "aborted"]
    BY <1>1 DEF Running, Resting, Alone
  <2> QED
    BY <1>1, <2>1 DEF PairInv, BenchIsSound
<1>4. /\ bench = [arm |-> bench.arm, jobs |-> bench.jobs, evidence |-> bench.evidence]
      /\ bench.jobs = [t \in Named |-> bench.jobs[t]] /\ \A t \in Named : Follows(t, bench.jobs[t])
      /\ s \in Named /\ Open(s) /\ s \in 1..3
  BY <1>1, <1>2, <1>3, TrialFacts DEF BenchIsSound
<1>5. /\ bench'.evidence = bench.evidence \o Brought(s)
      /\ bench'.jobs = [bench.jobs EXCEPT ![s] = AfterCall(s)] /\ bench'.jobs[s] = AfterCall(s)
      /\ \A t \in Named : t # s => bench'.jobs[t] = bench.jobs[t]
  <2>1. bench' = [arm |-> bench.arm, jobs |-> [bench.jobs EXCEPT ![s] = AfterCall(s)],
                  evidence |-> bench.evidence \o Brought(s)]
    BY <1>2, <1>4
  <2> QED
    BY <1>4, <2>1
<1>6. /\ AfterCall(s).used = bench.jobs[s].used + 1 /\ bench.jobs[s].seen = <<>>
      /\ AfterCall(s).seen = Brought(s)
  BY <1>4, CallKeeps
<1>7. \A t \in Named : s < t => bench.jobs[t].used = 0 /\ bench.jobs[t].seen = <<>>
  <2>1. ASSUME NEW t \in Named, s < t PROVE bench.jobs[t].used = 0 /\ bench.jobs[t].seen = <<>>
    <3>1. bench.jobs[t].used = 0
      BY <1>3, <1>4, <2>1 DEF CursorIsSound
    <3>2. bench.jobs[t].seen = SeenAfter(t, 0)
      <4>1. Follows(t, bench.jobs[t])
        BY <1>4
      <4> QED
        BY <3>1, <4>1 DEF Follows
    <3> QED
      BY <3>1, <3>2 DEF SeenAfter
  <2> QED
    BY <2>1
<1>8. (\A x, t \in Named : x < t /\ Open(x) => bench.jobs[t].used = 0)'
  <2>1. Named' = Named
    BY <1>1, TrialStays
  <2>2. ASSUME NEW x \in Named, NEW t \in Named, x < t, Open(x)' PROVE bench'.jobs[t].used = 0
    <3>1. x \in 1..3 /\ t \in 1..3
      BY <1>1, TrialFacts
    <3>2. CASE x = s
      BY <1>5, <1>7, <2>2, <3>1, <3>2
    <3>3. CASE x # s
      <4>1. Open(x)
        BY <1>5, <2>2, <3>3 DEF Open
      <4>2. s < x
        BY <1>2, <1>4, <3>1, <3>3, <4>1
      <4>3. s < t /\ t # s
        BY <1>4, <2>2, <3>1, <4>2
      <4> QED
        BY <1>5, <1>7, <4>3
    <3> QED
      BY <3>2, <3>3
  <2> QED
    BY <2>1, <2>2
<1>9. bench'.evidence = Merged'
  <2> DEFINE T == {Observed(KnowledgeTool, t) : t \in 1..3}
  <2>1. \A t \in 1..3 : SeenFor(t) \in Seq(T)
    <3>1. ASSUME NEW t \in Named PROVE bench.jobs[t].seen \in Seq(T)
      <4>1. bench.jobs[t].seen = SeenAfter(t, bench.jobs[t].used)
        <5>1. Follows(t, bench.jobs[t])
          BY <1>4
        <5> QED
          BY <5>1 DEF Follows
      <4>2. t \in 1..3
        BY <1>1, TrialFacts
      <4>3. Observed(KnowledgeTool, t) \in T
        BY <4>2
      <4> HIDE DEF T
      <4> QED
        BY <4>1, <4>3 DEF SeenAfter
    <3> HIDE DEF T
    <3> QED
      BY <3>1 DEF SeenFor
  <2>2. Brought(s) \in Seq(T)
    <3>1. Follows(s, AfterCall(s))
      BY <1>4, CallKeeps
    <3>2. Brought(s) = SeenAfter(s, AfterCall(s).used)
      BY <1>6, <3>1 DEF Follows
    <3>3. Observed(KnowledgeTool, s) \in T
      BY <1>4
    <3> HIDE DEF T
    <3> QED
      BY <3>2, <3>3 DEF SeenAfter
  <2>3. SeenFor(s)' = Brought(s) /\ SeenFor(s) = <<>>
    <3>1. Named' = Named
      BY <1>1, TrialStays
    <3> QED
      BY <1>4, <1>5, <1>6, <3>1 DEF SeenFor
  <2>4. \A t \in 1..3 : t # s => SeenFor(t)' = SeenFor(t)
    <3>1. Named' = Named
      BY <1>1, TrialStays
    <3> QED
      BY <1>5, <3>1 DEF SeenFor
  <2>5. \A t \in 1..3 : s < t => SeenFor(t) = <<>>
    BY <1>7 DEF SeenFor
  <2> DEFINE a == SeenFor(1)
             b == SeenFor(2)
             x == Brought(s)
  <2>6. bench.evidence = a \o b \o SeenFor(3)
    BY <1>3 DEF CursorIsSound, Merged
  <2>7. a \in Seq(T) /\ b \in Seq(T) /\ x \in Seq(T) /\ <<>> \in Seq(T)
    BY <2>1, <2>2
  <2>8. s = 1 \/ s = 2 \/ s = 3
    BY <1>4
  <2>9. CASE s = 1
    <3>1. a = <<>> /\ b = <<>> /\ SeenFor(3) = <<>>
      BY <2>3, <2>5, <2>9
    <3>2. SeenFor(1)' = x /\ SeenFor(2)' = <<>> /\ SeenFor(3)' = <<>>
      BY <2>3, <2>4, <2>9, <3>1
    <3> HIDE DEF a, b, x, T
    <3>3. <<>> \o <<>> \o <<>> \o x = x /\ x \o <<>> \o <<>> = x
      BY <2>7, ConcatEmptySeq
    <3> QED
      BY <1>5, <2>6, <3>1, <3>2, <3>3 DEF Merged, x
  <2>10. CASE s = 2
    <3>1. b = <<>> /\ SeenFor(3) = <<>>
      BY <2>3, <2>5, <2>10
    <3>2. SeenFor(1)' = a /\ SeenFor(2)' = x /\ SeenFor(3)' = <<>>
      BY <2>3, <2>4, <2>10, <3>1
    <3> HIDE DEF a, b, x, T
    <3>3. a \o x \in Seq(T)
      BY <2>7, ConcatProperties
    <3>4. a \o <<>> \o <<>> \o x = a \o x /\ a \o x \o <<>> = a \o x
      BY <2>7, <3>3, ConcatEmptySeq
    <3> QED
      BY <1>5, <2>6, <3>1, <3>2, <3>4 DEF Merged, x
  <2>11. CASE s = 3
    <3>1. SeenFor(3) = <<>>
      BY <2>3, <2>11
    <3>2. SeenFor(1)' = a /\ SeenFor(2)' = b /\ SeenFor(3)' = x
      BY <2>3, <2>4, <2>11
    <3> HIDE DEF a, b, x, T
    <3>3. a \o b \in Seq(T)
      BY <2>7, ConcatProperties
    <3>4. a \o b \o <<>> = a \o b
      BY <3>3, ConcatEmptySeq
    <3> QED
      BY <1>5, <2>6, <3>1, <3>2, <3>4 DEF Merged, x
  <2> QED
    BY <2>8, <2>9, <2>10, <2>11
<1> QED
  <2>1. CursorIsSound'
    BY <1>8, <1>9 DEF CursorIsSound
  <2> QED
    BY <1>1, <1>2, <1>3, <1>4, <2>1, BenchGoesOn

LEMMA BranchCallInv ==
    ASSUME PairInv, NEW s \in Named, BranchCall(s)
    PROVE  PairInv'
<1>1. Running(Pooled) /\ Open(s) /\ bench' = [bench EXCEPT !.jobs[s] = AfterCall(s)] /\ UNCHANGED <<trial, outcomes>>
  BY DEF BranchCall, AtWork
<1>2. BenchIsSound
  <2>1. bench # Resting /\ bench # [arm |-> "aborted"]
    BY <1>1 DEF Running, Resting, Pooled
  <2> QED
    BY <2>1 DEF PairInv
<1>3. bench' = [bench EXCEPT !.evidence = bench.evidence, !.jobs[s] = AfterCall(s)]
  <2>1. bench = [arm |-> bench.arm, jobs |-> bench.jobs, evidence |-> bench.evidence]
    BY <1>2 DEF BenchIsSound
  <2> QED
    BY <1>1, <2>1
<1>4. ~ Running(Alone)
  BY <1>1 DEF Running, Alone, Pooled
<1> QED
  BY <1>1, <1>2, <1>3, <1>4, BenchGoesOn

(* An arm begins with nothing seen, or is blocked before its first call.   *)
LEMMA StartArmInv ==
    ASSUME PairInv, StartArm
    PROVE  PairInv'
<1>1. /\ bench = Resting /\ Len(outcomes) < 2 /\ UNCHANGED trial /\ trial \in FixtureTrials \cup ReplayTrials
  <2>1. bench # [arm |-> "aborted"] /\ ~ BenchIsSound
    <3>1. \A n \in {1, 2} : trial.order[n] \in {Alone, Pooled}
      BY TrialFacts DEF PairInv
    <3>2. Len(outcomes) < 2 => Len(outcomes) + 1 \in {1, 2}
      BY DEF PairInv, OutcomesAreSound
    <3>3. bench.arm = "none"
      BY DEF StartArm, Running
    <3> QED
      BY <3>1, <3>2, <3>3 DEF BenchIsSound, Alone, Pooled
  <2> QED
    BY <2>1 DEF StartArm, PairInv
<1>2. /\ Named' = Named /\ (\A which : Expected(which)' = Expected(which))
      /\ \A s, n : SeenAfter(s, n)' = SeenAfter(s, n)
  BY <1>1, TrialStays
<1>3. CASE trial.fault = "non_low_tool"
  <2>1. outcomes' = Append(outcomes, Blocked) /\ bench' = Resting
    BY <1>1, <1>3 DEF StartArm
  <2>2. \A which : Expected(which) = Blocked
    BY <1>3 DEF Expected
  <2>3. outcomes = <<>> \/ outcomes = <<Blocked>>
    BY <1>1, <2>2 DEF PairInv, OutcomesAreSound
  <2>4. outcomes' = <<Blocked>> \/ outcomes' = <<Blocked, Blocked>>
    BY <2>1, <2>3, AppendsOne
  <2>5. OutcomesAreSound'
    BY <1>1, <1>2, <2>2, <2>4 DEF OutcomesAreSound
  <2> QED
    BY <1>1, <2>1, <2>5 DEF PairInv
<1>4. CASE trial.fault # "non_low_tool"
  <2> DEFINE jobs == [s \in Named |-> NewJob]
  <2>1. /\ bench' = [arm |-> trial.order[Len(outcomes) + 1], jobs |-> jobs, evidence |-> <<>>]
        /\ UNCHANGED outcomes
    BY <1>4 DEF StartArm, Fresh
  <2>2. \A s \in Named : jobs[s] = NewJob
    OBVIOUS
  <2>3. jobs = [s \in Named |-> jobs[s]]
    OBVIOUS
  <2> HIDE DEF jobs
  <2>4. bench'.jobs = jobs /\ bench'.evidence = <<>> /\ bench'.arm = trial.order[Len(outcomes) + 1]
    BY <2>1
  <2>5. ASSUME NEW s PROVE Follows(s, NewJob)
    <3>1. 0 \in 0..Most
      BY <1>1, TrialFacts
    <3> QED
      BY <3>1 DEF Follows, NewJob, ToolAfter, SeenAfter
  <2>6. (\A s \in Named : Follows(s, bench.jobs[s]))'
    <3>1. ASSUME NEW s \in Named PROVE Follows(s, bench.jobs[s])'
      <4>1. bench'.jobs[s] = NewJob /\ Follows(s, NewJob)
        BY <2>2, <2>4, <2>5
      <4> QED
        BY <1>2, <4>1 DEF Follows
    <3> QED
      BY <1>2, <3>1
  <2>7. CursorIsSound'
    <3>1. \A s : SeenFor(s)' = <<>>
      BY <1>2, <2>2, <2>4 DEF SeenFor, NewJob
    <3>2. Merged' = <<>> \o <<>> \o <<>>
      BY <3>1 DEF Merged
    <3>3. <<>> \o <<>> \o <<>> = <<>>
      OBVIOUS
    <3>4. \A t \in Named : bench'.jobs[t].used = 0
      BY <2>2, <2>4 DEF NewJob
    <3> QED
      BY <1>2, <2>4, <3>2, <3>3, <3>4 DEF CursorIsSound
  <2>8. BenchIsSound'
    <3>1. (bench.jobs = [s \in Named |-> bench.jobs[s]])'
      BY <1>2, <2>3, <2>4
    <3>2. (bench = [arm |-> trial.order[Len(outcomes) + 1], jobs |-> bench.jobs, evidence |-> bench.evidence])'
      BY <1>1, <2>1, <2>4
    <3>3. (trial.fault # "non_low_tool" /\ Len(outcomes) < 2)'
      BY <1>1, <1>4, <2>1
    <3> QED
      BY <2>6, <2>7, <3>1, <3>2, <3>3 DEF BenchIsSound
  <2>9. OutcomesAreSound'
    BY <1>1, <1>2, <2>1 DEF PairInv, OutcomesAreSound
  <2> QED
    BY <1>1, <2>8, <2>9 DEF PairInv
<1> QED
  BY <1>3, <1>4

(* An arm that ends has come to what the case has to show.                 *)
LEMMA EndArmInv ==
    ASSUME PairInv, EndArm
    PROVE  PairInv'
<1>1. /\ Running(Alone) \/ Running(Pooled)
      /\ \A s \in Named : ~ Open(s)
      /\ bench' = Resting /\ UNCHANGED trial /\ trial \in FixtureTrials \cup ReplayTrials
  BY DEF EndArm, PairInv
<1>2. BenchIsSound
  <2>1. bench # Resting /\ bench # [arm |-> "aborted"]
    BY <1>1 DEF Running, Resting, Alone, Pooled
  <2> QED
    BY <2>1 DEF PairInv
<1>3. \A s : SeenFor(s) = InTheEnd(s) /\ UsedFor(s) = InAll(s)
  <2>1. \A s \in Named : bench.jobs[s].used = Most /\ bench.jobs[s].seen = SeenAfter(s, Most)
    BY <1>1, <1>2, ClosedFacts DEF BenchIsSound
  <2> QED
    BY <2>1 DEF SeenFor, InTheEnd, UsedFor, InAll
<1>4. Merged = Everything /\ AttemptsMade = IF Live THEN 0 ELSE InAll(1) + InAll(2) + InAll(3)
  BY <1>3 DEF Merged, Everything, AttemptsMade
<1>5. outcomes' = Append(outcomes, Expected(bench.arm))
  <2>1. trial.fault # "non_low_tool"
    BY <1>2 DEF BenchIsSound
  <2>2. CASE Running(Alone)
    <3>1. bench.evidence = Everything /\ bench.arm = Alone
      BY <1>2, <1>4, <2>2 DEF BenchIsSound, CursorIsSound, Running
    <3>2. outcomes' = Append(outcomes, Recorded(Everything, ReviewOf(Everything)))
      BY <2>2, <3>1 DEF EndArm, Running, Alone, Pooled
    <3> QED
      BY <1>4, <2>1, <3>1, <3>2 DEF Recorded, Expected
  <2>3. CASE Running(Pooled)
    <3>1. bench.arm = Pooled /\ Pooled # Alone
      BY <2>3 DEF Running, Alone, Pooled
    <3>2. outcomes' = Append(outcomes, Recorded(Everything, PooledReview(Everything)))
      BY <1>4, <2>3, <3>1 DEF EndArm, Running
    <3> QED
      BY <1>4, <2>1, <3>1, <3>2 DEF Recorded, Expected
  <2> QED
    BY <1>1, <2>2, <2>3
<1>6. bench.arm = trial.order[Len(outcomes) + 1] /\ Len(outcomes) < 2
  BY <1>2 DEF BenchIsSound
<1>7. \/ outcomes' = <<Expected(trial.order[1])>>
      \/ outcomes' = <<Expected(trial.order[1]), Expected(trial.order[2])>>
  <2>1. CASE outcomes = <<>>
    <3>1. bench.arm = trial.order[1]
      BY <1>6, <2>1
    <3> QED
      BY <1>5, <2>1, <3>1, AppendsOne
  <2>2. CASE outcomes = <<Expected(trial.order[1])>>
    <3>1. bench.arm = trial.order[2]
      BY <1>6, <2>2
    <3> QED
      BY <1>5, <2>2, <3>1, AppendsOne
  <2> QED
    BY <1>6, <2>1, <2>2 DEF PairInv, OutcomesAreSound
<1>8. OutcomesAreSound'
  BY <1>1, <1>7, TrialStays DEF OutcomesAreSound
<1> QED
  BY <1>1, <1>8 DEF PairInv

LEMMA PairStep ==
    ASSUME PairInv, [ComparisonNext]_comparisonVars
    PROVE  PairInv'
<1>1. CASE StartArm
  BY <1>1, StartArmInv
<1>2. CASE SingleCall
  BY <1>2, SingleCallInv
<1>3. ASSUME NEW s \in Named, BranchCall(s) PROVE PairInv'
  BY <1>3, BranchCallInv
<1>4. CASE EndArm
  BY <1>4, EndArmInv
<1>5. CASE ReplayAborts
  <2>1. bench' = [arm |-> "aborted"] /\ UNCHANGED <<trial, outcomes>>
    BY <1>5 DEF ReplayAborts
  <2> QED
    BY <2>1, TrialStays DEF PairInv, OutcomesAreSound
<1>6. CASE UNCHANGED comparisonVars
  <2>1. UNCHANGED <<trial, bench, outcomes>>
    BY <1>6 DEF comparisonVars
  <2>2. BenchIsSound => BenchIsSound'
    <3>1. Named' = Named /\ \A s, n : SeenAfter(s, n)' = SeenAfter(s, n)
      BY <2>1, TrialStays
    <3>2. Merged' = Merged
      BY <2>1, <3>1 DEF Merged, SeenFor
    <3> QED
      BY <2>1, <3>1, <3>2 DEF BenchIsSound, CursorIsSound, Follows, Running, Open
  <2> QED
    BY <2>1, <2>2, TrialStays DEF PairInv, OutcomesAreSound
<1> QED
  BY <1>1, <1>2, <1>3, <1>4, <1>5, <1>6 DEF ComparisonNext

(* Both arms of a pair show the same evidence in the same order at the     *)
(* same cost, and the same claims where both are reviewed, in whatever     *)
(* order the branches of the pool are called (_run_enhanced_single,        *)
(* _run_multi, run_one).                                                   *)
THEOREM ArmsAlike == ComparisonSpec => []ArmsAgree
<1>1. ComparisonInit => PairInv
  BY DEF ComparisonInit, PairInv, OutcomesAreSound
<1>2. PairInv /\ [ComparisonNext]_comparisonVars => PairInv'
  BY PairStep
<1>3. PairInv => ArmsAgree
  <2> SUFFICES ASSUME PairInv, Compared PROVE ArmsAgree
    BY DEF ArmsAgree
  <2>1. trial.order = <<Alone, Pooled>> \/ trial.order = <<Pooled, Alone>>
    BY TrialFacts DEF PairInv
  <2>2. outcomes = <<Expected(trial.order[1]), Expected(trial.order[2])>>
    BY DEF PairInv, OutcomesAreSound, Compared
  <2>3. Of(Alone) = Expected(Alone) /\ Of(Pooled) = Expected(Pooled)
    BY <2>1, <2>2 DEF Of, Alone, Pooled
  <2>4. CASE trial.fault = "non_low_tool"
    BY <2>3, <2>4 DEF ArmsAgree, Expected
  <2>5. CASE trial.fault # "non_low_tool"
    <3>1. /\ Expected(Alone).evidence = Expected(Pooled).evidence /\ Expected(Alone).status = Expected(Pooled).status
          /\ Expected(Alone).attempts = Expected(Pooled).attempts
          /\ Expected(Alone).verdict = ReviewOf(Everything)
          /\ Expected(Pooled).verdict = PooledReview(Everything)
      BY <2>5 DEF Expected, Alone, Pooled
    <3>2. trial.variant # "no_verifier" => PooledReview(Everything) = ReviewOf(Everything)
      BY DEF PooledReview
    <3> QED
      BY <2>3, <3>1, <3>2 DEF ArmsAgree
  <2> QED
    BY <2>4, <2>5
<1> QED
  BY <1>1, <1>2, <1>3, PTL DEF ComparisonSpec

(* What the runs check of both kinds of comparison.                        *)
THEOREM ComparisonsFair == ComparisonSpec /\ ArmsSpec => []ComparisonsAreFair
<1>1. ArmsAgree /\ ArmsAreBounded => ComparisonsAreFair
  BY DEF ComparisonsAreFair
<1> QED
  BY <1>1, ArmsAlike, ArmsBounded, PTL
=============================================================================
