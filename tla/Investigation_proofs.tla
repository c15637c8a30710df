------------------------- MODULE Investigation_proofs -------------------------
(***************************************************************************)
(* Proofs about Investigation, for any number of services and workers and  *)
(* any limits.                                                             *)
(***************************************************************************)
EXTENDS Investigation, FiniteSetTheorems, TLAPS

-----------------------------------------------------------------------------
(* What a branch keeps *)

(* Why a branch gave its tool up: nothing lets it make another attempt. *)
GaveUp(b) == stop \/ branch[b].timedOut \/ ~ BudgetLeft

(* A branch on its way never passes its limit, and it has an attempt left  *)
(* whenever it is about to make one.  While models decide, a gap keeps one *)
(* attempt more.                                                           *)
BranchIsSound(b) ==
    LET task == branch[b]
    IN /\ task.pc = "queued" => task = NewBranch
       /\ task.pc = "choosing" => task.tries = 0
       /\ task.pc = "claiming" => task.attempts < LocalLimit(b) /\ task.tries \in {0, 1}
       /\ task.pc = "calling" => task.attempts > 0 /\ task.tries \in {1, 2}
       /\ task.pc \in {"claiming", "calling"} => task.tool # "none"
       /\ task.pc = "claiming" /\ task.tries = 1 => task.attempts > 0
       /\ task.gap => task.attempts > 0
       /\ task.pc = "observed" => task.tries = 0
       /\ task.pc = "observed" =>
            IF task.tool = "none" THEN task.attempts < LocalLimit(b) /\ GaveUp(b)
            ELSE task.attempts > 0
       /\ task.attempts <= LocalLimit(b)
       /\ /\ agents /\ Reserve(b)
          /\ \/ task.pc = "choosing" /\ task.tool # "none"
             \/ task.pc = "claiming" /\ task.tries = 0
          => task.attempts < MaxAgentAttempts - 1

BranchesAreSound == \A b \in Branches : branch[b].pc # "queued" => BranchIsSound(b)

-----------------------------------------------------------------------------
(* What the supervisor keeps *)

Merging == parent \in {"merging", "following", "verifying", "completed"}

SupervisorIsSound ==
    /\ \A s \in Services : branch[s].pc = "raised" /\ s \notin pending => fatal
    /\ \A s \in Services : s \notin pending \/ s \in done => Ended(s)
    /\ parent = "collecting" => unsent \subseteq pending \ done
    /\ Merging => pending = {} /\ unsent = {} /\ ~ fatal
    /\ parent = "merging" => target = Followup
    /\ parent = "following" => target # Followup
    /\ target = Followup => branch[Followup].pc = "queued"
    /\ target # Followup =>
         /\ parent \in {"following", "verifying", "completed", "failed"} /\ pending = {}
         /\ branch[target].gap /\ branch[target].attempts < MaxAgentAttempts
    /\ parent \in {"verifying", "completed"} => branch[Followup].pc \in {"queued", "finished"}
    /\ \A b \in Branches : branch[b].pc = "queued" => branch[b] = NewBranch

-----------------------------------------------------------------------------
(* What the counters count *)

CallsAreCounted ==
    /\ IsFiniteSet(CallsMade)
    /\ budget = Cardinality(CallsMade) /\ budget <= MaxToolAttempts

(* How many of its MaxAgentAttempts model calls a service may have used by *)
(* now: one for every step it has observed, and once it has come to its    *)
(* end the rest, but for the one a follow-up may need.                     *)
OwnShare(s) == IF branch[s].gap /\ branch[s].attempts < MaxAgentAttempts
               THEN MaxAgentAttempts - 1 ELSE MaxAgentAttempts

DecidedBy(s) ==
    LET task == branch[s]
        spare == IF task.gap THEN MaxAgentAttempts - 2 ELSE MaxAgentAttempts - 1
    IN CASE task.pc = "queued" -> 0
         [] task.pc = "claiming" -> task.attempts - task.tries
         [] task.pc = "calling" -> task.attempts - 1
         [] task.pc = "observed" -> IF task.tool # "none" THEN task.attempts - 1
                                    ELSE IF task.attempts < spare THEN task.attempts ELSE spare
         [] task.pc = "choosing" -> IF task.tool = "none" \/ stop \/ task.timedOut
                                    THEN OwnShare(s) ELSE task.attempts
         [] task.pc \in {"finished", "raised"} -> OwnShare(s)

FollowupDecided ==
    \/ branch[Followup].pc = "choosing" /\ branch[Followup].tool = "none"
    \/ Ended(Followup)

Decided(s) == DecidedBy(s) + (IF s = target /\ FollowupDecided THEN 1 ELSE 0)

ModelCalls == {call \in Services \X (1..MaxAgentAttempts) : call[2] <= Decided(call[1])}

ModelsAreCounted ==
    agents /\ parent \notin {"completed", "failed"} => models <= Cardinality(ModelCalls)

IInv ==
    /\ TypeOK /\ BranchesAreSound /\ SupervisorIsSound
    /\ CallsAreCounted /\ ModelsAreCounted

-----------------------------------------------------------------------------
(* Counting *)

LEMMA Limits ==
    /\ ServiceCount \in Nat \ {0} /\ MaxAgentAttempts \in Nat /\ MaxToolAttempts \in Nat
    /\ Followup \notin Services /\ Services \subseteq Branches /\ Branches = Services \cup {Followup}
    /\ ModelLimit \in Nat \ {0}
  BY ServicesAssumption, LimitsAssumption DEF Followup, Services, Branches, ModelLimit

LEMMA SharesAreFinite ==
  ASSUME NEW C \in SUBSET (Services \X (1..MaxAgentAttempts))
  PROVE  /\ IsFiniteSet(C) /\ Cardinality(C) \in Nat
         /\ Cardinality(C) <= MaxAgentAttempts * ServiceCount
  <1> DEFINE All == Services \X (1..MaxAgentAttempts)
  <1>1. IsFiniteSet(Services) /\ Cardinality(Services) = ServiceCount
    BY Limits, FS_Interval DEF Services
  <1>2. IsFiniteSet(1..MaxAgentAttempts) /\ Cardinality(1..MaxAgentAttempts) = MaxAgentAttempts
    BY Limits, FS_Interval
  <1>3. IsFiniteSet(All) /\ Cardinality(All) = ServiceCount * MaxAgentAttempts
    BY <1>1, <1>2, FS_Product
  <1>4. IsFiniteSet(C) /\ Cardinality(C) <= Cardinality(All) /\ Cardinality(C) \in Nat
    BY <1>3, FS_Subset, FS_CardinalityType
  <1>5. ServiceCount * MaxAgentAttempts = MaxAgentAttempts * ServiceCount
    BY Limits
  <1>6. QED
    BY <1>3, <1>4, <1>5

(* What services may have used only grows. *)
LEMMA MoreModelCalls ==
  ASSUME \A s \in Services : Decided(s) \in Int /\ Decided(s)' \in Int /\ Decided(s) <= Decided(s)'
  PROVE  /\ Cardinality(ModelCalls) \in Nat /\ Cardinality(ModelCalls)' \in Nat
         /\ Cardinality(ModelCalls) <= Cardinality(ModelCalls)'
         /\ (\E s \in Services : Decided(s) \in 0..(MaxAgentAttempts - 1) /\ Decided(s) < Decided(s)')
              => Cardinality(ModelCalls) + 1 <= Cardinality(ModelCalls)'
  <1>1. /\ IsFiniteSet(ModelCalls) /\ Cardinality(ModelCalls) \in Nat
        /\ IsFiniteSet(ModelCalls') /\ Cardinality(ModelCalls') \in Nat
    BY SharesAreFinite DEF ModelCalls
  <1>2. ModelCalls \subseteq ModelCalls'
    BY Limits DEF ModelCalls
  <1>3. Cardinality(ModelCalls) <= Cardinality(ModelCalls')
    BY <1>1, <1>2, FS_Subset
  <1>4. ASSUME NEW s \in Services, Decided(s) \in 0..(MaxAgentAttempts - 1), Decided(s) < Decided(s)'
        PROVE  Cardinality(ModelCalls) + 1 <= Cardinality(ModelCalls')
    <2> DEFINE e == <<s, Decided(s) + 1>>
    <2>1. Decided(s) + 1 \in 1..MaxAgentAttempts /\ Decided(s) + 1 <= Decided(s)'
      BY <1>4, Limits
    <2>2. e \in ModelCalls'
      BY <2>1 DEF ModelCalls
    <2>3. e \notin ModelCalls
      BY <1>4, <2>1 DEF ModelCalls
    <2>4. Cardinality(ModelCalls \cup {e}) = Cardinality(ModelCalls) + 1
      BY <1>1, <2>3, FS_AddElement
    <2>5. ModelCalls \cup {e} \in SUBSET ModelCalls'
      BY <1>2, <2>2
    <2>6. QED
      BY <1>1, <2>4, <2>5, FS_Subset
  <1>5. QED
    BY <1>1, <1>3, <1>4

(* As long as no branch makes an attempt there are the same calls. *)
LEMMA SameCalls ==
  ASSUME CallsAreCounted, budget' = budget,
         \A b \in Branches : branch'[b].attempts = branch[b].attempts
  PROVE  CallsAreCounted'
  <1>1. CallsMade' = CallsMade
    BY DEF CallsMade
  <1>2. QED
    BY <1>1 DEF CallsAreCounted

(* An attempt adds one. *)
LEMMA OneMoreCall ==
  ASSUME CallsAreCounted, NEW b \in Branches, budget' = budget + 1, budget < MaxToolAttempts,
         branch[b].attempts \in Nat, branch'[b].attempts = branch[b].attempts + 1,
         \A d \in Branches \ {b} : branch'[d].attempts = branch[d].attempts
  PROVE  CallsAreCounted' /\ budget \in Nat
  <1> DEFINE k == branch[b].attempts + 1
             e == <<b, k>>
             Of(d) == {d} \X (1..branch[d].attempts)
  <1>1. e \notin CallsMade
    BY DEF CallsMade
  <1>2. 1..k = (1..branch[b].attempts) \cup {k}
    OBVIOUS
  <1>3. CallsMade' = CallsMade \cup {e}
    <2>1. CallsMade' = UNION {{d} \X (1..branch'[d].attempts) : d \in Branches}
      BY DEF CallsMade
    <2>2. \A d \in Branches : {d} \X (1..branch'[d].attempts) =
                              IF d = b THEN Of(d) \cup {e} ELSE Of(d)
      <3>1. {b} \X (1..branch'[b].attempts) = Of(b) \cup {e}
        BY <1>2
      <3>2. QED
        BY <3>1
    <2>3. QED
      BY <2>1, <2>2 DEF CallsMade
  <1>4. Cardinality(CallsMade) \in Nat
    BY FS_CardinalityType DEF CallsAreCounted
  <1>5. IsFiniteSet(CallsMade') /\ Cardinality(CallsMade') = Cardinality(CallsMade) + 1
    BY <1>1, <1>3, FS_AddElement DEF CallsAreCounted
  <1>6. QED
    BY <1>4, <1>5, Limits DEF CallsAreCounted

-----------------------------------------------------------------------------
LEMMA InitInv == Init => IInv
  <1> SUFFICES ASSUME Init PROVE IInv
    OBVIOUS
  <1>1. \A b \in Branches : branch[b] = NewBranch
    BY DEF Init
  <1>2. TypeOK
    <2>1. NewBranch \in BranchRecords
      BY DEF NewBranch, BranchRecords, Tools
    <2>2. branch \in [Branches -> BranchRecords]
      BY <2>1 DEF Init
    <2>3. budget \in Nat /\ models \in 0..ModelLimit
      BY Limits DEF Init
    <2>4. target \in Branches
      BY Limits DEF Init
    <2>5. QED
      BY <2>2, <2>3, <2>4 DEF Init, TypeOK
  <1>3. BranchesAreSound
    BY <1>1 DEF BranchesAreSound, NewBranch
  <1>4. SupervisorIsSound
    BY <1>1, Limits DEF Init, SupervisorIsSound, Merging, NewBranch
  <1>5. CallsAreCounted
    <2>1. \A b \in Branches : {b} \X (1..branch[b].attempts) = {}
      BY <1>1 DEF NewBranch
    <2>2. CallsMade = {}
      BY <2>1 DEF CallsMade
    <2>3. QED
      BY <2>2, FS_EmptySet, Limits DEF CallsAreCounted, Init
  <1>6. ModelsAreCounted
    <2>1. ModelCalls \in SUBSET (Services \X (1..MaxAgentAttempts))
      BY DEF ModelCalls
    <2>2. QED
      BY <2>1, SharesAreFinite DEF ModelsAreCounted, Init
  <1>7. QED
    BY <1>2, <1>3, <1>4, <1>5, <1>6 DEF IInv

-----------------------------------------------------------------------------
(* Steps of a branch *)

(* A step of branch b, seen from outside. *)
Moves(b) ==
    /\ ~ Ended(b)
    /\ branch[b].pc = "queued" /\ b = Followup => parent = "following"
    /\ branch'[b] \in BranchRecords /\ branch'[b].pc # "queued"
    /\ branch' = [branch EXCEPT ![b] = branch'[b]]
    /\ unsent' = unsent \/ Emit(b)
    /\ UNCHANGED <<agents, stop, parent, pending, done, fatal, target>>

LEMMA MoverIsLive ==
  ASSUME IInv, NEW b \in Branches, Moves(b)
  PROVE  /\ b # target /\ LocalLimit(b) \in Int /\ LocalLimit(b)' = LocalLimit(b)
         /\ \A d \in Branches \ {b} : branch'[d] = branch[d] /\ LocalLimit(d)' = LocalLimit(d)
         /\ branch' \in [Branches -> BranchRecords]
         /\ b \in Services => b \in pending \ done /\ ~ Merging
         /\ b = Followup => target # Followup
  <1>1. TypeOK /\ SupervisorIsSound /\ BranchesAreSound
    BY DEF IInv
  <1>2. branch' \in [Branches -> BranchRecords] /\ \A d \in Branches \ {b} : branch'[d] = branch[d]
    BY <1>1 DEF Moves, TypeOK
  <1>3. b \in Services => b \in pending \ done /\ ~ Merging /\ target = Followup
    BY <1>1, Limits DEF Moves, SupervisorIsSound, TypeOK
  <1>4. b = Followup => target # Followup
    BY <1>1, Limits DEF Moves, SupervisorIsSound
  <1>5. b # target
    BY <1>3, <1>4, Limits
  <1>6. target \in Branches /\ target' = target /\ branch'[target] = branch[target]
    BY <1>1, <1>2, <1>5 DEF Moves, TypeOK
  <1>7. FollowupLimit \in Int /\ FollowupLimit' = FollowupLimit
    BY <1>1, <1>6, Limits DEF FollowupLimit, TypeOK, BranchRecords
  <1>8. \A d \in Branches : LocalLimit(d) \in Int /\ LocalLimit(d)' = LocalLimit(d)
    BY <1>7, Limits DEF LocalLimit
  <1>9. QED
    BY <1>2, <1>3, <1>4, <1>5, <1>8

(* It disturbs neither the other branches nor the supervisor, ... *)
LEMMA MovesInv ==
  ASSUME IInv, NEW b \in Branches, Moves(b), BranchIsSound(b)', CallsAreCounted', ModelsAreCounted',
         budget \in Nat, budget' \in Nat, budget <= budget', models' \in 0..ModelLimit
  PROVE  IInv'
  <1>1. TypeOK /\ SupervisorIsSound /\ BranchesAreSound
    BY DEF IInv
  <1>2. UNCHANGED <<agents, stop, parent, pending, done, fatal, target>> /\ ~ Ended(b)
    BY DEF Moves
  <1>3. unsent' = unsent \/ unsent' = unsent \cup ({b} \ {Followup})
    BY DEF Moves, Emit
  <1>4. TypeOK'
    BY <1>1, <1>2, <1>3, MoverIsLive, Limits DEF TypeOK
  <1>5. ASSUME NEW d \in Branches \ {b}, branch[d].pc # "queued" PROVE BranchIsSound(d)'
    <2>1. branch'[d] = branch[d] /\ LocalLimit(d)' = LocalLimit(d) /\ BranchIsSound(d)
      BY <1>1, <1>5, MoverIsLive DEF BranchesAreSound
    <2>2. GaveUp(d) => GaveUp(d)'
      BY <1>2, <2>1, Limits DEF GaveUp, BudgetLeft
    <2>3. QED
      BY <1>2, <2>1, <2>2 DEF BranchIsSound, Reserve
  <1>6. BranchesAreSound'
    BY <1>5, MoverIsLive DEF BranchesAreSound
  <1>7. /\ \A d \in Branches : d # b => branch'[d] = branch[d]
        /\ branch'[b].pc # "queued" /\ b # target
        /\ b \in Services => b \in pending \ done /\ ~ Merging
        /\ b = Followup => target # Followup
    BY MoverIsLive DEF Moves
  <1>8. /\ b \in Services \/ b = Followup
        /\ parent \in {"verifying", "completed"} => b \in Services
    BY <1>1, <1>2, Limits DEF SupervisorIsSound, Ended, Moves
  <1>9. SupervisorIsSound'
    <2>1. \A s \in Services : branch'[s].pc = "raised" /\ s \notin pending' => fatal'
      BY <1>1, <1>2, <1>7, Limits DEF SupervisorIsSound
    <2>2. \A s \in Services : s \notin pending' \/ s \in done' => Ended(s)'
      BY <1>1, <1>2, <1>7, Limits DEF SupervisorIsSound, Ended
    <2>3. parent' = "collecting" => unsent' \subseteq pending' \ done'
      BY <1>1, <1>2, <1>3, <1>7, <1>8 DEF SupervisorIsSound
    <2>4. Merging' => pending' = {} /\ unsent' = {} /\ ~ fatal'
      BY <1>1, <1>2, <1>3, <1>7, <1>8 DEF SupervisorIsSound, Merging
    <2>5. target' = Followup => branch'[Followup].pc = "queued"
      BY <1>1, <1>2, <1>7, Limits DEF SupervisorIsSound
    <2>6. target' # Followup =>
            /\ parent' \in {"following", "verifying", "completed", "failed"} /\ pending' = {}
            /\ branch'[target'].gap /\ branch'[target'].attempts < MaxAgentAttempts
      BY <1>1, <1>2, <1>7 DEF SupervisorIsSound, TypeOK
    <2>7. parent' \in {"verifying", "completed"} => branch'[Followup].pc \in {"queued", "finished"}
      BY <1>1, <1>2, <1>7, <1>8, Limits DEF SupervisorIsSound, Merging
    <2>8. \A d \in Branches : branch'[d].pc = "queued" => branch'[d] = NewBranch
      BY <1>1, <1>7 DEF SupervisorIsSound
    <2>9. QED
      BY <2>1, <2>2, <2>3, <2>4, <2>5, <2>6, <2>7, <2>8, <1>1, <1>2 DEF SupervisorIsSound
  <1>10. QED
    BY <1>4, <1>6, <1>9 DEF IInv

-----------------------------------------------------------------------------
(* ... and what services may have used of the model calls depends on the   *)
(* branch that moves alone.                                                *)

(* The share of a branch: a service's own, or the one call of a follow-up. *)
ShareOf(b) == IF b = Followup THEN IF FollowupDecided THEN 1 ELSE 0 ELSE DecidedBy(b)

LEMMA SharesAreNumbers ==
  TypeOK => \A s \in Services : DecidedBy(s) \in Int /\ Decided(s) \in Int
  <1> SUFFICES ASSUME TypeOK, NEW s \in Services PROVE DecidedBy(s) \in Int /\ Decided(s) \in Int
    OBVIOUS
  <1> DEFINE t == branch[s]
  <1>1. t \in BranchRecords
    BY Limits DEF TypeOK
  <1>2. t.attempts \in Nat /\ t.tries \in 0..2
        /\ t.pc \in {"queued", "choosing", "claiming", "calling", "observed", "finished", "raised"}
    BY <1>1 DEF BranchRecords
  <1>3. OwnShare(s) \in Int
    BY Limits DEF OwnShare
  <1>4. DecidedBy(s) \in Int
    BY <1>2, <1>3, Limits DEF DecidedBy
  <1>5. QED
    BY <1>3, <1>4 DEF Decided

(* A branch may use no model call more than it leaves to the others. *)
LEMMA ModelsKept ==
  ASSUME IInv, TypeOK', NEW b \in Branches, Moves(b),
         agents => /\ ShareOf(b) <= ShareOf(b)'
                   /\ models' \in {models, models + 1}
                   /\ models' = models + 1 =>
                        /\ ShareOf(b) < ShareOf(b)'
                        /\ b \in Services => ShareOf(b) \in 0..(MaxAgentAttempts - 1)
  PROVE  ModelsAreCounted'
  <1> SUFFICES ASSUME agents', parent' \notin {"completed", "failed"}
               PROVE  models' <= Cardinality(ModelCalls)'
    BY DEF ModelsAreCounted
  <1>1. TypeOK /\ SupervisorIsSound /\ ModelsAreCounted
    BY DEF IInv
  <1>2. agents /\ models <= Cardinality(ModelCalls)
    BY <1>1 DEF Moves, ModelsAreCounted
  <1>3. UNCHANGED <<stop, target>>
    BY DEF Moves
  <1>4. \A d \in Branches : d # b => branch'[d] = branch[d]
    BY MoverIsLive
  <1>5. ASSUME NEW s \in Services, s # b PROVE DecidedBy(s)' = DecidedBy(s)
    BY <1>3, <1>4, <1>5, Limits DEF DecidedBy, OwnShare
  <1>6. b # Followup => (FollowupDecided' <=> FollowupDecided)
    BY <1>4, Limits DEF FollowupDecided, Ended
  <1>7. \A s \in Services : /\ Decided(s) \in Int /\ Decided(s)' \in Int
                            /\ DecidedBy(s) \in Int /\ DecidedBy(s)' \in Int
    <2>1. (TypeOK => \A s \in Services : DecidedBy(s) \in Int /\ Decided(s) \in Int)'
      BY SharesAreNumbers, PTL
    <2>2. QED
      BY <1>1, <2>1, SharesAreNumbers
  <1>8. CASE b \in Services
    <2>1. b # target /\ b # Followup
      BY <1>8, MoverIsLive, Limits
    <2>2. Decided(b) = ShareOf(b) /\ Decided(b)' = ShareOf(b)'
      BY <1>3, <1>7, <1>8, <2>1 DEF Decided, ShareOf
    <2>3. \A s \in Services : s # b => Decided(s)' = Decided(s)
      BY <1>3, <1>5, <1>6, <2>1 DEF Decided
    <2>4. \A s \in Services : Decided(s) <= Decided(s)'
      BY <1>2, <1>7, <2>2, <2>3
    <2>5. models' = models + 1 => Decided(b) \in 0..(MaxAgentAttempts - 1) /\ Decided(b) < Decided(b)'
      BY <1>2, <1>8, <2>2
    <2>6. QED
      BY <1>1, <1>2, <1>7, <1>8, <2>4, <2>5, MoreModelCalls DEF TypeOK
  <1>9. CASE b = Followup
    <2>1. PICK s \in Services : s = target
      BY <1>1, <1>9, MoverIsLive, Limits DEF TypeOK
    <2>2. FollowupDecided => FollowupDecided'
      BY <1>2, <1>9 DEF ShareOf
    <2>3. \A r \in Services : DecidedBy(r)' = DecidedBy(r)
      BY <1>5, <1>9, Limits
    <2>4. \A r \in Services : Decided(r) \in Int /\ Decided(r)' \in Int /\ Decided(r) <= Decided(r)'
      BY <1>3, <1>7, <2>2, <2>3 DEF Decided
    <2>5. models' = models + 1 => Decided(s) \in 0..(MaxAgentAttempts - 1) /\ Decided(s) < Decided(s)'
      <3> SUFFICES ASSUME models' = models + 1
                   PROVE  Decided(s) \in 0..(MaxAgentAttempts - 1) /\ Decided(s) < Decided(s)'
        OBVIOUS
      <3>1. ~ FollowupDecided /\ FollowupDecided'
        BY <1>2, <1>9 DEF ShareOf
      <3>2. Ended(s) /\ branch[s].gap /\ branch[s].attempts < MaxAgentAttempts
        BY <1>1, <2>1, Limits DEF SupervisorIsSound
      <3>3. branch[s].attempts \in Nat
        BY <1>1, Limits DEF TypeOK, BranchRecords
      <3>4. DecidedBy(s) = MaxAgentAttempts - 1
        BY <3>2 DEF DecidedBy, OwnShare, Ended
      <3>5. QED
        BY <1>3, <2>1, <2>3, <3>1, <3>2, <3>3, <3>4, Limits DEF Decided
    <2>6. /\ Cardinality(ModelCalls) \in Nat /\ Cardinality(ModelCalls)' \in Nat
          /\ Cardinality(ModelCalls) <= Cardinality(ModelCalls)'
          /\ models' = models + 1 => Cardinality(ModelCalls) + 1 <= Cardinality(ModelCalls)'
      BY <2>4, <2>5, MoreModelCalls
    <2>7. models \in Nat /\ models' \in {models, models + 1}
      BY <1>1, <1>2, Limits DEF TypeOK
    <2>8. QED
      BY <1>2, <2>6, <2>7
  <1>10. QED
    BY <1>8, <1>9, Limits

LEMMA BranchMoves ==
  ASSUME IInv, NEW b \in Branches, Moves(b), BranchIsSound(b)', CallsAreCounted',
         budget' \in Nat, budget <= budget', models' \in 0..ModelLimit,
         agents => /\ ShareOf(b) <= ShareOf(b)'
                   /\ models' \in {models, models + 1}
                   /\ models' = models + 1 =>
                        /\ ShareOf(b) < ShareOf(b)'
                        /\ b \in Services => ShareOf(b) \in 0..(MaxAgentAttempts - 1)
  PROVE  IInv'
  <1>1. TypeOK
    BY DEF IInv
  <1>2. TypeOK'
    BY <1>1, MoverIsLive, Limits DEF TypeOK, Moves, Emit
  <1>3. ModelsAreCounted'
    BY <1>2, ModelsKept
  <1>4. QED
    BY <1>1, <1>3, MovesInv DEF TypeOK

(* The facts about a live branch its own steps use. *)
LEMMA BranchFacts ==
  ASSUME IInv, NEW b \in Branches
  PROVE  /\ branch[b] \in BranchRecords /\ branch[b].attempts \in Nat /\ branch[b].tries \in 0..2
         /\ branch[b].gap \in BOOLEAN /\ branch[b].timedOut \in BOOLEAN
         /\ stop \in BOOLEAN /\ branch[b].tool \in Tools \cup {"none"}
         /\ branch \in [Branches -> BranchRecords] /\ budget \in Nat /\ models \in 0..ModelLimit
         /\ branch[b].pc # "queued" => BranchIsSound(b)
         /\ branch[b].pc = "queued" => branch[b] = NewBranch
         /\ b \in Services => LocalLimit(b) = MaxAgentAttempts
  BY Limits DEF IInv, TypeOK, BranchRecords, BranchesAreSound, SupervisorIsSound, LocalLimit

LEMMA BeginInv == ASSUME IInv, NEW b \in Branches, Begin(b) PROVE IInv'
  <1> DEFINE t == branch[b]
             u == branch'[b]
  <1>1. t = NewBranch /\ branch \in [Branches -> BranchRecords]
    BY BranchFacts DEF Begin
  <1>2. /\ branch' = [branch EXCEPT ![b] = u] /\ u = [t EXCEPT !.pc = "choosing"]
        /\ u \in BranchRecords
    BY <1>1 DEF Begin, BranchRecords
  <1>3. /\ t.pc = "queued" /\ u.pc = "choosing" /\ u.tool = "query_error_logs" /\ u.attempts = 0
        /\ t.attempts = 0 /\ u.tries = 0 /\ u.gap = FALSE /\ u.timedOut = FALSE
    BY <1>1, <1>2 DEF NewBranch, BranchRecords
  <1> HIDE DEF t, u
  <1>4. Moves(b)
    BY <1>2, <1>3 DEF Begin, Moves, Ended, t, u
  <1>5. TypeOK /\ SupervisorIsSound /\ CallsAreCounted
    BY DEF IInv
  <1>6. LocalLimit(b)' \in Nat
    <2>1. CASE b = Followup
      <3>1. target \in Services /\ branch[target].attempts < MaxAgentAttempts
        BY <1>4, <1>5, <2>1, MoverIsLive, Limits DEF SupervisorIsSound, TypeOK
      <3>2. branch[target].attempts \in Nat
        BY <3>1, BranchFacts, Limits
      <3>3. LocalLimit(b) \in Nat
        BY <2>1, <3>1, <3>2, Limits DEF LocalLimit, FollowupLimit
      <3>4. QED
        BY <1>4, <3>3, MoverIsLive
    <2>2. QED
      BY <2>1, Limits DEF LocalLimit
  <1>7. BranchIsSound(b)'
    BY <1>3, <1>6 DEF BranchIsSound, Reserve, u
  <1>8. /\ UNCHANGED <<budget, models>> /\ budget \in Nat /\ models \in 0..ModelLimit
    BY <1>5 DEF Begin, TypeOK
  <1>9. CallsAreCounted'
    BY <1>3, <1>4, <1>5, <1>8, SameCalls, MoverIsLive DEF t, u
  <1>10. ShareOf(b) \in Int /\ ShareOf(b)' \in Int /\ ShareOf(b) <= ShareOf(b)'
    BY <1>3, Limits DEF ShareOf, FollowupDecided, DecidedBy, OwnShare, Ended, t, u
  <1>11. QED
    BY <1>4, <1>7, <1>8, <1>9, <1>10, BranchMoves

(* A step that makes neither an attempt nor a model call. *)
LEMMA QuietStep ==
  ASSUME IInv, NEW b \in Branches, Moves(b), BranchIsSound(b)', UNCHANGED <<budget, models>>,
         branch'[b].attempts = branch[b].attempts, agents => ShareOf(b) <= ShareOf(b)'
  PROVE  IInv'
  <1>1. budget \in Nat /\ models \in 0..ModelLimit /\ CallsAreCounted
    BY DEF IInv, TypeOK
  <1>2. CallsAreCounted'
    BY <1>1, SameCalls, MoverIsLive
  <1>3. models' \in {models, models + 1} /\ models' # models + 1
    BY <1>1, Limits
  <1>4. QED
    BY <1>1, <1>2, <1>3, BranchMoves

LEMMA OutcomeFields ==
  ASSUME NEW t \in BranchRecords, NEW end \in {"finished", "raised"}
  PROVE  /\ Outcome(t, end) \in BranchRecords /\ Outcome(t, end).pc = end
         /\ Outcome(t, end).attempts = t.attempts /\ Outcome(t, end).gap = t.gap
  <1>1. NewBranch \in BranchRecords
    BY DEF NewBranch, BranchRecords, Tools
  <1>2. t.attempts \in Nat /\ t.gap \in BOOLEAN /\ t.evidence \in BOOLEAN
    BY DEF BranchRecords
  <1>3. QED
    BY <1>1, <1>2 DEF Outcome, BranchRecords

LEMMA ChooseInv == ASSUME IInv, NEW b \in Branches, Choose(b) PROVE IInv'
  <1> DEFINE t == branch[b]
             u == branch'[b]
             more == t.tool # "none" /\ t.attempts < LocalLimit(b)
  <1>1. /\ t \in BranchRecords /\ branch \in [Branches -> BranchRecords] /\ t.pc = "choosing"
        /\ BranchIsSound(b) /\ UNCHANGED <<agents, budget, models, stop, parent, pending, done, fatal, target>>
        /\ Emit(b)
    BY BranchFacts DEF Choose
  <1>2. PICK up \in TimeUp(b) :
          branch' = [branch EXCEPT ![b] =
              IF more /\ ~stop /\ ~up THEN [t EXCEPT !.pc = "claiming", !.used = t.used \cup {t.tool}]
              ELSE Outcome(t, "finished")]
    BY DEF Choose
  <1>3. CASE more /\ ~stop /\ ~up
    <2>1. /\ u = [t EXCEPT !.pc = "claiming", !.used = t.used \cup {t.tool}]
          /\ branch' = [branch EXCEPT ![b] = u]
      BY <1>1, <1>2, <1>3
    <2>2. /\ u \in BranchRecords /\ u.pc = "claiming" /\ u.tool = t.tool /\ u.attempts = t.attempts
          /\ u.tries = t.tries /\ u.gap = t.gap /\ u.timedOut = t.timedOut
      <3>1. t.used \cup {t.tool} \in SUBSET Tools
        BY <1>1, <1>3 DEF BranchRecords
      <3>2. QED
        BY <1>1, <2>1, <3>1 DEF BranchRecords
    <2>3. Moves(b)
      BY <1>1, <2>1, <2>2 DEF Moves, Ended
    <2>4. LocalLimit(b)' = LocalLimit(b) /\ LocalLimit(b) \in Int
      BY <2>3, MoverIsLive
    <2>5. BranchIsSound(b)'
      BY <1>1, <1>3, <2>2, <2>4, BranchFacts DEF BranchIsSound, Reserve
    <2>6. t.timedOut => up
      BY DEF TimeUp
    <2>7. ShareOf(b) <= ShareOf(b)'
      <3>1. DecidedBy(b) = t.attempts /\ DecidedBy(b)' = t.attempts
        BY <1>1, <1>3, <2>2, <2>6, BranchFacts DEF DecidedBy, BranchIsSound
      <3>2. b = Followup => ~ FollowupDecided
        BY <1>1, <1>3 DEF FollowupDecided, Ended
      <3>3. QED
        BY <3>1, <3>2, BranchFacts DEF ShareOf
    <2>8. QED
      BY <1>1, <2>2, <2>3, <2>5, <2>7, QuietStep
  <1>4. CASE ~ (more /\ ~stop /\ ~up)
    <2>1. u = Outcome(t, "finished") /\ branch' = [branch EXCEPT ![b] = u]
      BY <1>1, <1>2, <1>4
    <2>2. /\ u \in BranchRecords /\ u.pc = "finished" /\ u.attempts = t.attempts /\ u.gap = t.gap
      BY <1>1, <2>1, OutcomeFields
    <2>3. Moves(b)
      BY <1>1, <2>1, <2>2 DEF Moves, Ended
    <2>4. LocalLimit(b)' = LocalLimit(b) /\ LocalLimit(b) \in Int
      BY <2>3, MoverIsLive
    <2>5. BranchIsSound(b)'
      BY <1>1, <2>2, <2>4, BranchFacts DEF BranchIsSound, Reserve
    <2>6. ShareOf(b) <= ShareOf(b)'
      <3>1. FollowupDecided' \/ b # Followup
        BY <2>2 DEF FollowupDecided, Ended
      <3>2. b \in Services => DecidedBy(b) <= OwnShare(b) /\ DecidedBy(b)' = OwnShare(b)
        BY <1>1, <2>2, BranchFacts, Limits DEF DecidedBy, OwnShare, BranchIsSound
      <3>3. QED
        BY <3>1, <3>2, Limits DEF ShareOf
    <2>7. QED
      BY <1>1, <2>2, <2>3, <2>5, <2>6, QuietStep
  <1>5. QED
    BY <1>3, <1>4

LEMMA ObservedFields ==
  ASSUME NEW t \in BranchRecords, NEW result \in {"data", "empty", "failed"}
  PROVE  /\ Observed(t, result) \in BranchRecords /\ Observed(t, result).pc = "observed"
         /\ Observed(t, result).tries = 0 /\ Observed(t, result).tool = t.tool
         /\ Observed(t, result).attempts = t.attempts /\ Observed(t, result).gap = t.gap
         /\ Observed(t, result).timedOut = t.timedOut
  <1> DEFINE u == Observed(t, result)
  <1>1. u = [t EXCEPT !.pc = "observed", !.result = result, !.tries = 0]
    BY DEF Observed
  <1> HIDE DEF u
  <1>2. u \in BranchRecords
    <2>1. result \in {"none", "data", "empty", "failed"} /\ 0 \in 0..2
      OBVIOUS
    <2>2. QED
      BY <1>1, <2>1 DEF BranchRecords
  <1>3. /\ u.pc = "observed" /\ u.tries = 0 /\ u.tool = t.tool
        /\ u.attempts = t.attempts /\ u.gap = t.gap /\ u.timedOut = t.timedOut
    BY <1>1 DEF BranchRecords
  <1>4. QED
    BY <1>2, <1>3 DEF u

LEMMA ClaimInv == ASSUME IInv, NEW b \in Branches, Claim(b) PROVE IInv'
  <1> DEFINE t == branch[b]
             u == branch'[b]
             left == t.attempts < LocalLimit(b) /\ BudgetLeft
  <1>1. /\ t \in BranchRecords /\ branch \in [Branches -> BranchRecords] /\ t.pc = "claiming"
        /\ BranchIsSound(b) /\ UNCHANGED <<agents, models, stop, unsent, parent, pending, done, fatal, target>>
    BY BranchFacts DEF Claim
  <1>2. /\ t.attempts < LocalLimit(b) /\ t.tries \in {0, 1} /\ t.tool # "none" /\ t.attempts \in Nat
        /\ t.tries = 1 => t.attempts > 0
        /\ t.gap => t.attempts > 0
        /\ agents /\ Reserve(b) /\ t.tries = 0 => t.attempts < MaxAgentAttempts - 1
    BY <1>1, BranchFacts DEF BranchIsSound
  <1>3. PICK up \in TimeUp(b) :
          IF ~stop /\ ~up /\ left
          THEN /\ budget' = budget + 1
               /\ branch' = [branch EXCEPT ![b] =
                      [t EXCEPT !.pc = "calling", !.attempts = t.attempts + 1, !.tries = t.tries + 1]]
          ELSE /\ budget' = budget
               /\ branch' = [branch EXCEPT ![b] =
                      [Observed(t, "failed") EXCEPT !.tool = "none", !.timedOut = up]]
    BY DEF Claim
  <1>4. CASE ~stop /\ ~up /\ left
    <2>1. /\ u = [t EXCEPT !.pc = "calling", !.attempts = t.attempts + 1, !.tries = t.tries + 1]
          /\ branch' = [branch EXCEPT ![b] = u] /\ budget' = budget + 1
      BY <1>1, <1>3, <1>4
    <2>2. /\ u \in BranchRecords /\ u.pc = "calling" /\ u.tool = t.tool
          /\ u.attempts = t.attempts + 1 /\ u.tries = t.tries + 1 /\ u.gap = t.gap
      <3>1. t.attempts + 1 \in Nat /\ t.tries + 1 \in 0..2
        BY <1>2
      <3>2. QED
        BY <1>1, <2>1, <3>1 DEF BranchRecords
    <2>3. Moves(b)
      BY <1>1, <2>1, <2>2 DEF Moves, Ended
    <2>4. /\ LocalLimit(b)' = LocalLimit(b) /\ LocalLimit(b) \in Int
          /\ \A d \in Branches \ {b} : branch'[d] = branch[d]
      BY <2>3, MoverIsLive
    <2>5. BranchIsSound(b)'
      BY <1>2, <2>2, <2>4 DEF BranchIsSound
    <2>6. CallsAreCounted' /\ budget \in Nat
      BY <1>2, <1>4, <2>1, <2>2, <2>4, OneMoreCall DEF IInv, BudgetLeft
    <2>7. ShareOf(b) <= ShareOf(b)'
      BY <1>1, <1>2, <2>2 DEF ShareOf, FollowupDecided, Ended, DecidedBy
    <2>8. models' \in 0..ModelLimit /\ models' = models /\ models' # models + 1
      BY <1>1, BranchFacts, Limits
    <2>9. QED
      BY <2>1, <2>3, <2>5, <2>6, <2>7, <2>8, BranchMoves
  <1>5. CASE ~ (~stop /\ ~up /\ left)
    <2>1. /\ u = [Observed(t, "failed") EXCEPT !.tool = "none", !.timedOut = up]
          /\ branch' = [branch EXCEPT ![b] = u] /\ budget' = budget /\ up \in BOOLEAN
      BY <1>1, <1>3, <1>5 DEF TimeUp
    <2>2. /\ u \in BranchRecords /\ u.pc = "observed" /\ u.tool = "none" /\ u.tries = 0
          /\ u.attempts = t.attempts /\ u.gap = t.gap /\ u.timedOut = up
      <3> DEFINE o == Observed(t, "failed")
      <3>1. /\ o \in BranchRecords /\ o.pc = "observed" /\ o.tries = 0
            /\ o.attempts = t.attempts /\ o.gap = t.gap
        BY <1>1, ObservedFields
      <3>2. u = [o EXCEPT !.tool = "none", !.timedOut = up]
        BY <2>1
      <3> HIDE DEF o, u, t
      <3>3. "none" \in Tools \cup {"none"} /\ up \in BOOLEAN
        BY <2>1
      <3>4. u \in BranchRecords
        BY <3>1, <3>2, <3>3 DEF BranchRecords
      <3>5. QED
        BY <3>1, <3>2, <3>4 DEF BranchRecords
    <2>3. Moves(b)
      BY <1>1, <2>1, <2>2 DEF Moves, Ended
    <2>4. LocalLimit(b)' = LocalLimit(b) /\ LocalLimit(b) \in Int
      BY <2>3, MoverIsLive
    <2>5. GaveUp(b)'
      BY <1>1, <1>2, <1>5, <2>1, <2>2 DEF GaveUp, BudgetLeft
    <2>6. BranchIsSound(b)'
      BY <1>2, <2>2, <2>4, <2>5 DEF BranchIsSound
    <2>7. agents => ShareOf(b) <= ShareOf(b)'
      <3>1. b = Followup => ~ FollowupDecided /\ ~ FollowupDecided'
        BY <1>1, <2>2 DEF FollowupDecided, Ended
      <3>2. agents /\ b \in Services => DecidedBy(b) <= DecidedBy(b)'
        BY <1>1, <1>2, <2>2, BranchFacts, Limits DEF DecidedBy, Reserve
      <3>3. QED
        BY <3>1, <3>2, Limits DEF ShareOf
    <2>8. QED
      BY <1>1, <2>1, <2>2, <2>3, <2>6, <2>7, QuietStep
  <1>6. QED
    BY <1>4, <1>5

(* A tool call that ends, well or not, or is to be tried again. *)
LEMMA CallEnds ==
  ASSUME IInv, NEW b \in Branches, branch[b].pc = "calling", branch'[b] \in BranchRecords,
         branch' = [branch EXCEPT ![b] = branch'[b]], unsent' = unsent \/ Emit(b),
         UNCHANGED <<agents, budget, models, stop, parent, pending, done, fatal, target>>,
         branch'[b].attempts = branch[b].attempts,
         \/ branch'[b].pc = "observed" /\ branch'[b].tool = branch[b].tool /\ branch'[b].tries = 0
         \/ /\ branch'[b].pc = "claiming" /\ branch'[b].tool = branch[b].tool
            /\ branch'[b].tries = 1 /\ branch[b].tries = 1 /\ branch[b].attempts < LocalLimit(b)
         \/ branch'[b].pc = "raised"
  PROVE  IInv'
  <1> DEFINE t == branch[b]
             u == branch'[b]
  <1>1. /\ t.attempts \in Nat /\ t.attempts > 0 /\ t.tries \in {1, 2} /\ t.tool # "none"
        /\ t.attempts <= LocalLimit(b)
    BY BranchFacts DEF BranchIsSound
  <1>2. Moves(b)
    BY DEF Moves, Ended
  <1>3. LocalLimit(b)' = LocalLimit(b) /\ LocalLimit(b) \in Int
    BY <1>2, MoverIsLive
  <1>4. BranchIsSound(b)'
    BY <1>1, <1>3 DEF BranchIsSound
  <1>5. ShareOf(b) <= ShareOf(b)'
    <2>1. b = Followup => ~ FollowupDecided
      BY DEF FollowupDecided, Ended
    <2>2. b \in Services => DecidedBy(b) <= DecidedBy(b)'
      BY <1>1, BranchFacts, Limits DEF DecidedBy, OwnShare
    <2>3. QED
      BY <2>1, <2>2, Limits DEF ShareOf
  <1>6. QED
    BY <1>2, <1>4, <1>5, QuietStep

LEMMA ToolInv ==
  ASSUME IInv, NEW b \in Branches, ToolSucceeds(b) \/ ConnectionFails(b) \/ ToolFails(b) \/ ToolRaises(b)
  PROVE  IInv'
  <1> DEFINE t == branch[b]
             u == branch'[b]
  <1>1. /\ t \in BranchRecords /\ branch \in [Branches -> BranchRecords] /\ t.pc = "calling"
        /\ UNCHANGED <<agents, budget, models, stop, parent, pending, done, fatal, target>>
        /\ unsent' = unsent \/ Emit(b)
    BY BranchFacts DEF ToolSucceeds, ConnectionFails, ToolFails, ToolRaises
  <1>2. CASE ToolSucceeds(b)
    <2>1. PICK result \in {"data", "empty"}, gap \in BOOLEAN :
            branch' = [branch EXCEPT ![b] =
                         [Observed(t, result) EXCEPT !.evidence = TRUE, !.gap = gap]]
      BY <1>1, <1>2, BranchFacts DEF ToolSucceeds
    <2>2. u = [Observed(t, result) EXCEPT !.evidence = TRUE, !.gap = gap]
      BY <1>1, <2>1
    <2>3. /\ u \in BranchRecords /\ u.pc = "observed" /\ u.tool = t.tool /\ u.tries = 0
          /\ u.attempts = t.attempts
      <3> DEFINE o == Observed(t, result)
      <3>1. o \in BranchRecords /\ o.pc = "observed" /\ o.tool = t.tool /\ o.tries = 0
            /\ o.attempts = t.attempts
        BY <1>1, ObservedFields
      <3>2. u = [o EXCEPT !.evidence = TRUE, !.gap = gap]
        BY <2>2
      <3> HIDE DEF o, u, t
      <3>3. u \in BranchRecords
        BY <3>1, <3>2 DEF BranchRecords
      <3>4. QED
        BY <3>1, <3>2, <3>3 DEF BranchRecords
    <2>4. QED
      BY <1>1, <2>1, <2>2, <2>3, CallEnds
  <1>3. CASE ConnectionFails(b) /\ Retriable(t, b)
    <2>1. u = [t EXCEPT !.pc = "claiming"] /\ branch' = [branch EXCEPT ![b] = u]
      BY <1>1, <1>3 DEF ConnectionFails
    <2>2. /\ u \in BranchRecords /\ u.pc = "claiming" /\ u.tool = t.tool /\ u.tries = t.tries
          /\ u.attempts = t.attempts
      BY <1>1, <2>1 DEF BranchRecords
    <2>3. QED
      BY <1>1, <1>3, <2>1, <2>2, CallEnds DEF Retriable
  <1>4. CASE (ConnectionFails(b) /\ ~ Retriable(t, b)) \/ ToolFails(b)
    <2>1. u = Observed(t, "failed") /\ branch' = [branch EXCEPT ![b] = u]
      BY <1>1, <1>4 DEF ConnectionFails, ToolFails
    <2>2. QED
      BY <1>1, <2>1, ObservedFields, CallEnds
  <1>5. CASE ToolRaises(b)
    <2>1. u = Outcome(t, "raised") /\ branch' = [branch EXCEPT ![b] = u]
      BY <1>1, <1>5 DEF ToolRaises
    <2>2. QED
      BY <1>1, <2>1, OutcomeFields, CallEnds
  <1>6. QED
    BY <1>2, <1>3, <1>4, <1>5

(* A branch that has observed the result of a step goes on with some tool, *)
(* whoever chose it.                                                       *)
LEMMA SelectInv ==
  ASSUME IInv, NEW b \in Branches, branch[b].pc = "observed", NEW tool \in Tools \cup {"none"},
         branch' = [branch EXCEPT ![b] = Selected(branch[b], tool)], unsent' = unsent \/ Emit(b),
         UNCHANGED <<agents, budget, stop, parent, pending, done, fatal, target>>,
         models' \in 0..ModelLimit,
         agents => /\ models' \in {models, models + 1}
                   /\ tool # "none" /\ Reserve(b) => branch[b].attempts < MaxAgentAttempts - 1
                   /\ tool # "none" /\ branch[b].tool = "none" => stop \/ branch[b].timedOut
                   /\ b = Followup => tool = "none"
  PROVE  IInv'
  <1> DEFINE t == branch[b]
             u == branch'[b]
  <1>1. /\ t \in BranchRecords /\ t.attempts \in Nat /\ t.gap \in BOOLEAN /\ BranchIsSound(b)
        /\ branch \in [Branches -> BranchRecords] /\ budget \in Nat /\ models \in 0..ModelLimit
    BY BranchFacts
  <1>2. /\ t.attempts <= LocalLimit(b) /\ t.tries = 0
        /\ t.gap => t.attempts > 0
        /\ t.tool # "none" => t.attempts > 0
        /\ t.tool = "none" => t.attempts < LocalLimit(b)
    BY <1>1 DEF BranchIsSound
  <1>3. u = [t EXCEPT !.pc = "choosing", !.tool = tool, !.result = "none"]
    BY <1>1 DEF Selected
  <1> HIDE DEF t, u
  <1>4. u \in BranchRecords
    BY <1>1, <1>3 DEF BranchRecords
  <1>5. /\ u.pc = "choosing" /\ u.tool = tool /\ u.attempts = t.attempts /\ u.tries = 0
        /\ u.gap = t.gap /\ u.timedOut = t.timedOut
    BY <1>1, <1>2, <1>3 DEF BranchRecords
  <1>6. Moves(b)
    BY <1>1, <1>3, <1>4, <1>5 DEF Moves, Ended, Selected, t, u
  <1>7. LocalLimit(b)' = LocalLimit(b) /\ LocalLimit(b) \in Int
    BY <1>6, MoverIsLive
  <1>8. BranchIsSound(b)'
    BY <1>1, <1>2, <1>5, <1>7 DEF BranchIsSound, Reserve, t, u
  <1>9. CallsAreCounted'
    BY <1>5, <1>6, SameCalls, MoverIsLive DEF IInv, t, u
  <1>10. ASSUME agents, b \in Services
         PROVE  ShareOf(b) \in 0..(MaxAgentAttempts - 1) /\ ShareOf(b) < ShareOf(b)'
    <2>1. b # Followup /\ LocalLimit(b) = MaxAgentAttempts /\ b \in Branches
      BY <1>10, BranchFacts, Limits
    <2>2. ShareOf(b) = DecidedBy(b) /\ ShareOf(b)' = DecidedBy(b)'
      BY <2>1 DEF ShareOf
    <2>3. OwnShare(b)' = OwnShare(b) /\ OwnShare(b) \in Int
          /\ OwnShare(b) = IF t.gap /\ t.attempts < MaxAgentAttempts
                           THEN MaxAgentAttempts - 1 ELSE MaxAgentAttempts
      BY <1>5, Limits DEF OwnShare, t, u
    <2>4. DecidedBy(b)' = IF tool = "none" \/ stop \/ t.timedOut THEN OwnShare(b) ELSE t.attempts
      BY <1>5, <2>3 DEF DecidedBy, u
    <2>5. CASE t.tool # "none"
      <3>1. DecidedBy(b) = t.attempts - 1
        BY <2>5 DEF DecidedBy, t
      <3>2. QED
        BY <1>1, <1>2, <2>1, <2>2, <2>3, <2>4, <2>5, <3>1, Limits
    <2>6. CASE t.tool = "none"
      <3>1. DecidedBy(b)' = OwnShare(b)
        BY <1>10, <2>4, <2>6 DEF t
      <3>2. DecidedBy(b) =
              LET spare == IF t.gap THEN MaxAgentAttempts - 2 ELSE MaxAgentAttempts - 1
              IN  IF t.attempts < spare THEN t.attempts ELSE spare
        BY <2>6 DEF DecidedBy, t
      <3>3. QED
        BY <1>1, <1>2, <2>1, <2>2, <2>3, <2>6, <3>1, <3>2, Limits
    <2>7. QED
      BY <2>5, <2>6
  <1>11. agents /\ b = Followup => ShareOf(b) < ShareOf(b)'
    BY <1>5 DEF ShareOf, FollowupDecided, Ended, u
  <1>12. ShareOf(b) \in Int /\ ShareOf(b)' \in Int
    BY <1>1, <1>5, Limits DEF ShareOf, DecidedBy, OwnShare, t, u
  <1>13. agents => ShareOf(b) < ShareOf(b)' /\ ShareOf(b) <= ShareOf(b)'
    BY <1>10, <1>11, <1>12, Limits
  <1>14. QED
    BY <1>1, <1>6, <1>8, <1>9, <1>10, <1>13, BranchMoves

LEMMA DecisionInv ==
  ASSUME IInv, NEW b \in Branches, Advance(b) \/ Decide(b) \/ DecideFails(b)
  PROVE  IInv'
  <1> DEFINE t == branch[b]
  <1>1. /\ t \in BranchRecords /\ t.attempts \in Nat /\ BranchIsSound(b) /\ t.pc = "observed"
        /\ budget \in Nat /\ models \in 0..ModelLimit
        /\ UNCHANGED <<agents, budget, stop, parent, pending, done, fatal, target>>
        /\ unsent' = unsent \/ Emit(b)
    BY BranchFacts DEF Advance, Decide, DecideFails
  <1>2. models \in Nat /\ ModelLimit \in Nat /\ models <= ModelLimit
    BY <1>1, Limits
  <1>3. t.tool = "none" => stop \/ t.timedOut \/ ~ BudgetLeft
    BY <1>1 DEF BranchIsSound, GaveUp
  <1>4. /\ t.tool = "none" => NextTool(t, b) = "none"
        /\ b = Followup => NextTool(t, b) = "none"
        /\ NextTool(t, b) \in Tools \cup {"none"}
    BY DEF NextTool, Tools
  <1>5. LocalLimit(b) \in Int /\ (b \in Services => LocalLimit(b) = MaxAgentAttempts)
    <2>1. target \in Branches /\ branch[target].attempts \in Nat
      BY BranchFacts DEF IInv, TypeOK
    <2>2. QED
      BY <2>1, Limits DEF LocalLimit, FollowupLimit
  <1>6. /\ b = Followup => Remaining(b) = 0
        /\ ~ BudgetLeft => Remaining(b) <= 0
        /\ Reserve(b) => b \in Services /\ Remaining(b) >= 0
        /\ Reserve(b) /\ Remaining(b) > 0 => t.attempts < MaxAgentAttempts - 1
    BY <1>1, <1>5, Limits DEF Remaining, Reserve, BudgetLeft
  <1>7. Remaining(b) \in Int
    BY <1>1, <1>5, Limits DEF Remaining
  <1>8. CASE Advance(b)
    <2>1. branch' = [branch EXCEPT ![b] = Selected(t, NextTool(t, b))] /\ ~ agents /\ models' = models
      BY <1>8 DEF Advance
    <2>2. QED
      BY <1>1, <1>4, <2>1, SelectInv
  <1>9. CASE Decide(b)
    <2>1. PICK tool \in {"none"} \cup {c \in Tools \ {"query_error_logs"} :
                                         Remaining(b) > 0 /\ c \notin t.used} :
            branch' = [branch EXCEPT ![b] = Selected(t, tool)]
      BY <1>9 DEF Decide
    <2>2. models' = models + 1 /\ models' \in 0..ModelLimit
      BY <1>2, <1>9 DEF Decide
    <2>3. tool \in Tools \cup {"none"} /\ (tool # "none" => Remaining(b) > 0)
      OBVIOUS
    <2>4. /\ tool # "none" /\ Reserve(b) => t.attempts < MaxAgentAttempts - 1
          /\ tool # "none" /\ t.tool = "none" => stop \/ t.timedOut
          /\ b = Followup => tool = "none"
      BY <1>3, <1>6, <1>7, <2>3
    <2>5. QED
      BY <1>1, <2>1, <2>2, <2>3, <2>4, SelectInv
  <1>10. CASE DecideFails(b)
    <2> DEFINE tool == IF Reserve(b) /\ Remaining(b) = 0 THEN "none" ELSE NextTool(t, b)
    <2>1. branch' = [branch EXCEPT ![b] = Selected(t, tool)]
      BY <1>10 DEF DecideFails
    <2>2. models' \in {models, models + 1} /\ models' \in 0..ModelLimit
      BY <1>2, <1>10 DEF DecideFails
    <2>3. /\ tool \in Tools \cup {"none"}
          /\ tool # "none" /\ Reserve(b) => t.attempts < MaxAgentAttempts - 1
          /\ tool # "none" /\ t.tool = "none" => stop \/ t.timedOut
          /\ b = Followup => tool = "none"
      BY <1>4, <1>6, <1>7
    <2>4. QED
      BY <1>1, <2>1, <2>2, <2>3, SelectInv
  <1>11. QED
    BY <1>8, <1>9, <1>10

LEMMA BranchInv == ASSUME IInv, NEW b \in Branches, BranchStep(b) PROVE IInv'
  BY BeginInv, ChooseInv, ClaimInv, ToolInv, DecisionInv DEF BranchStep

-----------------------------------------------------------------------------
(* Steps of the supervisor *)

(* The branches and the counters stay as they are, and whatever the        *)
(* supervisor learns, no service may use fewer calls than before.          *)
LEMMA SupervisorMoves ==
  ASSUME IInv, UNCHANGED <<agents, branch, budget>>, TypeOK', SupervisorIsSound',
         stop => stop', target' # Followup => target' = target \/ branch[Followup].pc = "queued",
         target # Followup => target' = target,
         parent \in {"completed", "failed"} => parent' \in {"completed", "failed"},
         models' = models \/ parent' \in {"completed", "failed"}
  PROVE  IInv'
  <1>1. TypeOK /\ SupervisorIsSound /\ BranchesAreSound /\ CallsAreCounted /\ ModelsAreCounted
    BY DEF IInv
  <1>2. CallsAreCounted'
    BY <1>1, SameCalls
  <1>3. ASSUME NEW b \in Branches, branch[b].pc # "queued"
        PROVE  BranchIsSound(b) /\ LocalLimit(b)' = LocalLimit(b) /\ BranchIsSound(b)'
    <2>1. BranchIsSound(b)
      BY <1>1, <1>3 DEF BranchesAreSound
    <2>2. b = Followup => target' = target
      BY <1>1, <1>3 DEF SupervisorIsSound
    <2>3. LocalLimit(b)' = LocalLimit(b)
      BY <2>2 DEF LocalLimit, FollowupLimit
    <2>4. QED
      BY <2>1, <2>3 DEF BranchIsSound, GaveUp, BudgetLeft, Reserve
  <1>4. BranchesAreSound'
    BY <1>3 DEF BranchesAreSound
  <1>5. (TypeOK => \A s \in Services : DecidedBy(s) \in Int /\ Decided(s) \in Int)'
    BY SharesAreNumbers, PTL
  <1>6. ASSUME agents, NEW s \in Services
        PROVE  Decided(s) \in Int /\ Decided(s)' \in Int /\ Decided(s) <= Decided(s)'
    <2>1. /\ s \in Branches /\ branch[s].attempts \in Nat
          /\ branch[s].pc \in {"queued", "choosing", "claiming", "calling", "observed",
                              "finished", "raised"}
      BY <1>1, Limits DEF TypeOK, BranchRecords
    <2>2. /\ OwnShare(s)' = OwnShare(s) /\ OwnShare(s) \in Int
          /\ DecidedBy(s) \in Int /\ DecidedBy(s)' \in Int
      BY <1>1, <1>5, <2>1, SharesAreNumbers, Limits DEF OwnShare
    <2>3. DecidedBy(s) <= DecidedBy(s)'
      <3>1. CASE branch[s].pc = "choosing"
        <4>1. branch[s].attempts <= OwnShare(s)
          BY <1>3, <1>6, <2>1, <3>1, Limits DEF BranchIsSound, OwnShare, LocalLimit, Reserve
        <4>2. QED
          BY <2>1, <2>2, <3>1, <4>1 DEF DecidedBy
      <3>2. CASE branch[s].pc # "choosing"
        <4>1. DecidedBy(s)' = DecidedBy(s)
          BY <2>1, <2>2, <3>2 DEF DecidedBy
        <4>2. QED
          BY <2>2, <4>1
      <3>3. QED
        BY <3>1, <3>2
    <2>4. (FollowupDecided' <=> FollowupDecided) /\ (branch[Followup].pc = "queued" => ~ FollowupDecided)
      BY DEF FollowupDecided, Ended
    <2>5. s = target /\ FollowupDecided => s = target'
      BY Limits
    <2>6. QED
      BY <1>1, <1>5, <2>2, <2>3, <2>4, <2>5, SharesAreNumbers DEF Decided
  <1>7. ModelsAreCounted'
    <2> SUFFICES ASSUME agents, parent' \notin {"completed", "failed"}
                 PROVE  models <= Cardinality(ModelCalls)'
      BY DEF ModelsAreCounted
    <2>1. models <= Cardinality(ModelCalls) /\ models \in Nat
      BY <1>1, Limits DEF ModelsAreCounted, TypeOK
    <2>2. QED
      BY <1>6, <2>1, MoreModelCalls
  <1>8. QED
    BY <1>2, <1>4, <1>7 DEF IInv

LEMMA WaitInv == IInv /\ (Wait \/ Drain \/ DrainFails \/ Abort) => IInv'
  <1> SUFFICES ASSUME IInv, Wait \/ Drain \/ DrainFails \/ Abort PROVE IInv'
    OBVIOUS
  <1>1. TypeOK /\ SupervisorIsSound
    BY DEF IInv
  <1>2. /\ UNCHANGED <<agents, branch, budget, models, stop, pending, fatal, target>>
        /\ \A b \in Branches : Ended(b)' <=> Ended(b)
    BY DEF Wait, Drain, DrainFails, Abort, Ended
  <1>3. CASE Wait
    <2>1. done' = {s \in pending : Ended(s)} /\ parent = "waiting" /\ parent' = "draining"
          /\ unsent' = unsent
      BY <1>3 DEF Wait
    <2>2. TypeOK'
      BY <1>1, <1>2, <2>1 DEF TypeOK
    <2>3. SupervisorIsSound'
      BY <1>1, <1>2, <2>1, Limits DEF SupervisorIsSound, Merging, Ended
    <2>4. QED
      BY <1>2, <2>1, <2>2, <2>3, SupervisorMoves
  <1>4. CASE Drain
    <2>1. unsent' = {} /\ parent = "draining" /\ parent' = "collecting" /\ done' = done
      BY <1>4 DEF Drain
    <2>2. TypeOK'
      BY <1>1, <1>2, <2>1 DEF TypeOK
    <2>3. SupervisorIsSound'
      BY <1>1, <1>2, <2>1, Limits DEF SupervisorIsSound, Merging, Ended
    <2>4. QED
      BY <1>2, <2>1, <2>2, <2>3, SupervisorMoves
  <1>5. CASE DrainFails \/ Abort
    <2>1. /\ parent \in {"draining", "aborting"} /\ parent' \in {"aborting", "failed"}
          /\ UNCHANGED <<unsent, done>>
      BY <1>5 DEF DrainFails, Abort
    <2>2. TypeOK'
      BY <1>1, <1>2, <2>1 DEF TypeOK
    <2>3. SupervisorIsSound'
      BY <1>1, <1>2, <2>1, Limits DEF SupervisorIsSound, Merging, Ended
    <2>4. QED
      BY <1>2, <2>1, <2>2, <2>3, SupervisorMoves
  <1>6. QED
    BY <1>3, <1>4, <1>5

(* With the last future, and no event left behind, the supervisor merges.  *)
LEMMA CollectInv == IInv /\ Collect => IInv'
  <1> SUFFICES ASSUME IInv, Collect PROVE IInv'
    OBVIOUS
  <1>1. TypeOK /\ SupervisorIsSound
    BY DEF IInv
  <1>2. /\ parent = "collecting" /\ pending' = pending \ done /\ done' = {}
        /\ fatal' = (fatal \/ Raised # {}) /\ stop' = (stop \/ Raised # {})
        /\ parent' = IF pending' # {} THEN "waiting" ELSE IF fatal' THEN "failed" ELSE "merging"
        /\ UNCHANGED <<agents, branch, budget, models, unsent, target>>
    BY DEF Collect, Ready
  <1>3. Raised = {s \in done : branch[s].pc = "raised"}
    BY DEF Raised, Ready
  <1>4. parent' \in {"waiting", "failed", "merging"} /\ (parent' = "merging" => pending' = {} /\ ~ fatal')
    BY <1>2
  <1>5. target = Followup /\ branch[Followup].pc = "queued" /\ unsent \subseteq pending'
    BY <1>1, <1>2 DEF SupervisorIsSound
  <1>6. TypeOK'
    <2>1. fatal' \in BOOLEAN /\ stop' \in BOOLEAN
      BY <1>2
    <2>2. QED
      BY <1>1, <1>2, <1>4, <2>1 DEF TypeOK
  <1>7. SupervisorIsSound'
    <2>1. \A s \in Services : branch[s].pc = "raised" /\ s \notin pending' => fatal'
      BY <1>1, <1>2, <1>3 DEF SupervisorIsSound
    <2>2. \A s \in Services : s \notin pending' => Ended(s)
      BY <1>1, <1>2 DEF SupervisorIsSound
    <2>3. Merging' => parent' = "merging"
      BY <1>4 DEF Merging
    <2>4. Merging' => pending' = {} /\ unsent' = {} /\ ~ fatal'
      BY <1>2, <1>4, <1>5, <2>3
    <2>5. \A s \in Services : Ended(s)' <=> Ended(s)
      BY <1>2 DEF Ended
    <2>6. QED
      BY <1>1, <1>2, <1>4, <1>5, <2>1, <2>2, <2>4, <2>5 DEF SupervisorIsSound
  <1>8. stop => stop'
    BY <1>2
  <1>9. QED
    BY <1>2, <1>5, <1>6, <1>7, <1>8, SupervisorMoves

LEMMA MergeInv ==
  IInv /\ (Merge \/ MergeFollowup \/ Verify \/ SupervisorFails) => IInv'
  <1> SUFFICES ASSUME IInv, Merge \/ MergeFollowup \/ Verify \/ SupervisorFails PROVE IInv'
    OBVIOUS
  <1>1. TypeOK /\ SupervisorIsSound
    BY DEF IInv
  <1>2. /\ UNCHANGED <<agents, branch, budget, stop, unsent, pending, done, fatal>>
        /\ \A b \in Branches : Ended(b)' <=> Ended(b)
    BY DEF Merge, MergeFollowup, Verify, SupervisorFails, Ended
  <1>3. CASE Merge /\ target' = target /\ parent' = "verifying"
    <2>1. parent = "merging" /\ models' = models
      BY <1>3 DEF Merge
    <2>2. TypeOK'
      BY <1>1, <1>2, <1>3, <2>1 DEF TypeOK
    <2>3. SupervisorIsSound'
      BY <1>1, <1>2, <1>3, <2>1, Limits DEF SupervisorIsSound, Merging
    <2>4. QED
      BY <1>2, <1>3, <2>1, <2>2, <2>3, SupervisorMoves
  <1>4. CASE Merge /\ parent' = "following" /\ target' \in Candidates
    <2>1. /\ parent = "merging" /\ models' = models /\ target = Followup
          /\ branch[Followup].pc = "queued" /\ pending = {}
      BY <1>1, <1>4 DEF Merge, SupervisorIsSound, Merging
    <2>2. /\ target' \in Services /\ target' # Followup /\ target' \in Branches
          /\ branch[target'].gap /\ branch[target'].attempts < MaxAgentAttempts
      BY <1>4, Limits DEF Candidates
    <2>3. TypeOK'
      BY <1>1, <1>2, <1>4, <2>1, <2>2 DEF TypeOK
    <2>4. SupervisorIsSound'
      BY <1>1, <1>2, <1>4, <2>1, <2>2, Limits DEF SupervisorIsSound, Merging
    <2>5. QED
      BY <1>2, <1>4, <2>1, <2>3, <2>4, SupervisorMoves
  <1>5. CASE MergeFollowup
    <2>1. /\ parent = "following" /\ UNCHANGED <<models, target>> /\ Ended(Followup)
          /\ parent' = IF branch[Followup].pc = "raised" THEN "failed" ELSE "verifying"
      BY <1>5 DEF MergeFollowup
    <2>2. TypeOK'
      BY <1>1, <1>2, <2>1 DEF TypeOK
    <2>3. SupervisorIsSound'
      BY <1>1, <1>2, <2>1, Limits DEF SupervisorIsSound, Merging, Ended
    <2>4. QED
      BY <1>2, <2>1, <2>2, <2>3, SupervisorMoves
  <1>6. CASE Verify \/ SupervisorFails
    <2>1. /\ parent' \in {"completed", "failed"} /\ target' = target
          /\ parent \in {"merging", "verifying"} /\ (parent' = "completed" => parent = "verifying")
      BY <1>6 DEF Verify, SupervisorFails, Verdict
    <2>2. models' \in 0..ModelLimit
      BY <1>1, <1>6, Limits DEF Verify, SupervisorFails, TypeOK
    <2>3. TypeOK'
      BY <1>1, <1>2, <2>1, <2>2 DEF TypeOK
    <2>4. SupervisorIsSound'
      BY <1>1, <1>2, <2>1, Limits DEF SupervisorIsSound, Merging
    <2>5. QED
      BY <1>2, <2>1, <2>3, <2>4, SupervisorMoves
  <1>7. QED
    BY <1>3, <1>4, <1>5, <1>6 DEF Merge

LEMMA StepInv == IInv /\ [Next]_vars => IInv'
  <1> SUFFICES ASSUME IInv, [Next]_vars PROVE IInv'
    OBVIOUS
  <1>1. CASE UNCHANGED vars
    <2>1. TypeOK' /\ SupervisorIsSound'
      BY <1>1 DEF IInv, TypeOK, SupervisorIsSound, Merging, Ended, vars
    <2>2. QED
      BY <1>1, <2>1, SupervisorMoves DEF vars
  <1>2. CASE SupervisorStep
    BY <1>2, WaitInv, CollectInv, MergeInv DEF SupervisorStep
  <1>3. CASE \E b \in Branches : BranchStep(b)
    BY <1>3, BranchInv
  <1>4. QED
    BY <1>1, <1>2, <1>3 DEF Next, Step, Over

LEMMA Invariance == Spec => []IInv
  BY InitInv, StepInv, PTL DEF Spec

-----------------------------------------------------------------------------
(* The ToolBudget the branches of a multi-agent run share, the attempts of *)
(* every service with its follow-up, and the model calls are never         *)
(* overdrawn, whatever the branches do at the same moment; the counter     *)
(* says how many attempts were made, and when the verifier's turn comes a  *)
(* model call is left for it.                                              *)
THEOREM BudgetsAreKept == Spec => []BudgetIsKept
  <1>1. ASSUME IInv PROVE BudgetIsKept
    <2>1. /\ TypeOK /\ BranchesAreSound /\ SupervisorIsSound /\ CallsAreCounted
          /\ ModelsAreCounted
      BY <1>1 DEF IInv
    <2>2. \A b \in Branches : branch[b].attempts \in Nat
      BY <2>1 DEF TypeOK, BranchRecords
    <2>3. \A s \in Services : branch[s].attempts <= MaxAgentAttempts
      BY <2>1, Limits DEF BranchesAreSound, BranchIsSound, LocalLimit, SupervisorIsSound, NewBranch
    <2>4. ASSUME NEW s \in Services PROVE ServiceAttempts(s) <= MaxAgentAttempts
      <3>1. CASE s # target \/ branch[Followup].pc = "queued"
        BY <2>1, <2>2, <2>3, <3>1, Limits DEF ServiceAttempts, SupervisorIsSound, NewBranch
      <3>2. CASE s = target /\ branch[Followup].pc # "queued"
        <4>1. branch[Followup].attempts <= FollowupLimit
          BY <2>1, <3>2, Limits DEF BranchesAreSound, BranchIsSound, LocalLimit
        <4>2. QED
          BY <2>2, <3>2, <4>1, Limits DEF FollowupLimit, ServiceAttempts
      <3>3. QED
        BY <3>1, <3>2
    <2>5. AttemptsAreBounded
      BY <2>1, <2>4 DEF AttemptsAreBounded, CallsAreCounted
    <2>6. VerifierHasCall
      <3> SUFFICES ASSUME agents, parent = "verifying" PROVE models < ModelLimit
        BY DEF VerifierHasCall
      <3>1. models <= Cardinality(ModelCalls) /\ models \in Nat
        BY <2>1, Limits DEF ModelsAreCounted, TypeOK
      <3>2. /\ Cardinality(ModelCalls) \in Nat
            /\ Cardinality(ModelCalls) <= MaxAgentAttempts * ServiceCount
        BY SharesAreFinite DEF ModelCalls
      <3>3. MaxAgentAttempts * ServiceCount \in Nat
        BY Limits
      <3>4. QED
        BY <3>1, <3>2, <3>3 DEF ModelLimit
    <2>7. QED
      BY <2>1, <2>5, <2>6 DEF BudgetIsKept
  <1>2. QED
    BY Invariance, <1>1, PTL

(* Nothing of a branch gets lost on the way to the supervisor: when the    *)
(* results are merged the progress queue is empty, and a run in which some *)
(* branch raised is not completed.                                         *)
THEOREM BranchesAreNeverLost == Spec => []NothingIsLost
  <1>1. ASSUME IInv PROVE NothingIsLost
    <2>1. SupervisorIsSound
      BY <1>1 DEF IInv
    <2>2. EventsAreTraced
      BY <2>1 DEF SupervisorIsSound, EventsAreTraced, Merging
    <2>3. FaultFailsRun
      BY <2>1, Limits DEF SupervisorIsSound, FaultFailsRun, Merging
    <2>4. QED
      BY <2>2, <2>3 DEF NothingIsLost
  <1>2. QED
    BY Invariance, <1>1, PTL
=============================================================================
