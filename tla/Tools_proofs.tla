------------------------------ MODULE Tools_proofs ------------------------------
(***************************************************************************)
(* Proofs about the tools of the agents.  ToolCall: for every set of       *)
(* callers and however many calls each of them makes.  TextToSql: for      *)
(* every schema, list of allowed columns and set of statements a model     *)
(* may write.  Knowledge: for every set of files, imports and searches.    *)
(***************************************************************************)
EXTENDS ToolCall, TextToSql, Knowledge, TLAPS, SequenceTheorems, FiniteSetTheorems,
        WellFoundedInduction

-----------------------------------------------------------------------------
(* What the service, that is the main thread, the worker and the queue,    *)
(* keeps                                                                   *)

Futures == Requests \cup {Listing}
Messages == Futures \cup {Stop}
Inside(r) == r = current \/ Contains(queue, r)

ServiceTypeOK ==
    /\ main \in {"starting", "listing", "serving", "joining", "closed", "unclean"}
    /\ thread \in BOOLEAN
    /\ worker \in {"starting", "unready", "idle", "busy", "stopping", "ending", "dead"}
    /\ current \in Futures \cup {NoRequest} /\ (worker = "busy" <=> current # NoRequest)
    /\ queue \in Seq(Messages) /\ IsInjective(queue)
    /\ future \in [Futures -> {"pending", "data"} \cup Errors]
    /\ served \subseteq Futures

(* Nothing is queued, taken or answered twice, and only an answer resolves *)
(* a future with data.                                                     *)
ServiceIsSound ==
    /\ current # NoRequest => ~ Contains(queue, current)
    /\ \A r \in Futures : Inside(r) => future[r] = "pending"
    /\ \A r \in Futures : future[r] = "data" => r \in served
    /\ main = "starting" => future[Listing] = "pending" /\ ~ Inside(Listing)
    /\ main \in {"starting", "listing", "serving"} => ~ Contains(queue, Stop)
    /\ main = "closed" => worker = "dead"

ServiceInv == ServiceTypeOK /\ ServiceIsSound

-----------------------------------------------------------------------------
(* What every caller keeps *)

(* The request of a call that has not been put yet. *)
Unsent(c, n) == n > call[c].n \/ (n = call[c].n /\ call[c].pc \in {"idle", "putting"})
Unlogged(c, n) == n > call[c].n \/ (n = call[c].n /\ call[c].pc # "over")

Untouched(r) == future[r] = "pending" /\ ~ Inside(r)

OutcomeIsSound(c) ==
    /\ call[c].pc \in {"idle", "putting", "waiting"} => call[c].outcome = "none"
    /\ call[c].pc = "failing" => call[c].outcome \in Errors
    /\ call[c].pc = "over" => call[c].outcome # "none"
    /\ call[c].outcome = "lost" => future[Request(c)] # "pending"
    /\ call[c].outcome = "output" => Request(c) \in served
    /\ call[c].retry => call[c].n > 1 /\ future[<<c, call[c].n - 1>>] # "pending"

Audit(c) ==
    /\ \A n \in 1..Calls[c] : Unlogged(c, n) => log[<<c, n>>] = <<>>
    /\ call[c].pc = "over" =>
         /\ call[c].outcome = "output" => log[Request(c)] = <<"completed">>
         /\ call[c].outcome \in Errors => log[Request(c)] \in {<<>>, <<"failed">>}
         /\ call[c].outcome = "refused" => log[Request(c)] \in {<<>>, <<"rejected">>}

CallerInv(c) ==
    /\ OutcomeIsSound(c) /\ Audit(c)
    /\ \A n \in 1..Calls[c] : Unsent(c, n) => Untouched(<<c, n>>)

CallsTypeOK ==
    /\ call \in [Callers -> CallStates] /\ \A c \in Callers : call[c].n <= Calls[c]
    /\ log \in [Requests -> Seq(LogRows)]

CallersInv == CallsTypeOK /\ \A c \in Callers : CallerInv(c)

IInv == ServiceInv /\ CallersInv

-----------------------------------------------------------------------------
(* Requests and queues *)

LEMMA NamesDiffer ==
    /\ Listing \notin Requests /\ Stop \notin Futures /\ NoRequest \notin Messages
    /\ \A c \in Callers : Calls[c] \in Nat \ {0} /\ \A n \in 1..Calls[c] : <<c, n>> \in Requests
    /\ \A r \in Requests : \E c \in Callers : \E n \in 1..Calls[c] : r = <<c, n>>
  BY CallsAssumption DEF Listing, Requests, Stop, NoRequest, Futures, Messages

LEMMA RequestIsOwn ==
  ASSUME CallsTypeOK, NEW c \in Callers
  PROVE  /\ call[c].n \in 1..Calls[c] /\ Request(c) = <<c, call[c].n>>
         /\ Request(c) \in Requests /\ call[c] \in CallStates
  BY NamesDiffer DEF CallsTypeOK, CallStates, Request

LEMMA QueueAppend ==
  ASSUME NEW S, NEW q \in Seq(S), NEW e \in S, IsInjective(q), ~ Contains(q, e)
  PROVE  /\ Append(q, e) \in Seq(S) /\ IsInjective(Append(q, e))
         /\ \A r : Contains(Append(q, e), r) <=> Contains(q, r) \/ r = e
  <1> DEFINE a == Append(q, e)
  <1>1. /\ a \in Seq(S) /\ Len(a) = Len(q) + 1 /\ Len(q) \in Nat
        /\ \A i \in 1..Len(q) : a[i] = q[i]
        /\ a[Len(q) + 1] = e
    BY AppendProperties, LenProperties
  <1>2. DOMAIN a = 1..(Len(q) + 1) /\ DOMAIN q = 1..Len(q)
    BY <1>1, LenProperties
  <1> HIDE DEF a
  <1>3. \A i \in 1..Len(q) + 1 : i \in 1..Len(q) \/ i = Len(q) + 1
    BY <1>1
  <1>4. ASSUME NEW i \in DOMAIN a, NEW j \in DOMAIN a, a[i] = a[j] PROVE i = j
    BY <1>1, <1>2, <1>3, <1>4 DEF IsInjective, Contains
  <1>5. ASSUME NEW r PROVE Contains(a, r) <=> Contains(q, r) \/ r = e
    BY <1>1, <1>3 DEF Contains
  <1>6. QED
    BY <1>1, <1>4, <1>5 DEF IsInjective, a

LEMMA QueueTail ==
  ASSUME NEW S, NEW q \in Seq(S), IsInjective(q), q # <<>>
  PROVE  /\ Head(q) \in S /\ Tail(q) \in Seq(S) /\ IsInjective(Tail(q))
         /\ ~ Contains(Tail(q), Head(q)) /\ Contains(q, Head(q))
         /\ \A r : Contains(Tail(q), r) => Contains(q, r)
  <1> DEFINE t == Tail(q)
  <1>1. /\ Head(q) \in S /\ t \in Seq(S) /\ Len(t) = Len(q) - 1
        /\ \A i \in 1..Len(t) : t[i] = q[i + 1]
    BY HeadTailProperties
  <1>2. Len(q) \in Nat \ {0} /\ Len(t) \in Nat /\ DOMAIN t = 1..Len(t) /\ DOMAIN q = 1..Len(q)
    BY <1>1, LenProperties, EmptySeq
  <1>3. Head(q) = q[1]
    OBVIOUS
  <1> HIDE DEF t
  <1>4. \A i \in 1..Len(t) : i + 1 \in 1..Len(q) /\ i + 1 # 1
    BY <1>1, <1>2
  <1>5. ASSUME NEW i \in DOMAIN t, NEW j \in DOMAIN t, t[i] = t[j] PROVE i = j
    <2>1. i + 1 = j + 1
      BY <1>1, <1>2, <1>4, <1>5 DEF IsInjective
    <2>2. QED
      BY <1>2, <2>1
  <1>6. ~ Contains(t, Head(q))
    BY <1>1, <1>2, <1>3, <1>4 DEF IsInjective, Contains
  <1>7. Contains(q, Head(q)) /\ \A r : Contains(t, r) => Contains(q, r)
    BY <1>1, <1>2, <1>3, <1>4 DEF Contains
  <1>8. QED
    BY <1>1, <1>5, <1>6, <1>7 DEF IsInjective, t

LEMMA QueueEmpty ==
  ASSUME NEW S
  PROVE  <<>> \in Seq(S) /\ IsInjective(<<>>) /\ \A r : ~ Contains(<<>>, r)
  BY EmptySeq DEF IsInjective, Contains

-----------------------------------------------------------------------------
LEMMA InitInv == CallInit => IInv
  <1> SUFFICES ASSUME CallInit PROVE IInv
    OBVIOUS
  <1>1. ServiceTypeOK
    BY QueueEmpty DEF CallInit, ServiceTypeOK, Futures, NoRequest, Errors
  <1>2. \A r \in Futures : future[r] = "pending" /\ ~ Inside(r)
    BY NamesDiffer, QueueEmpty DEF CallInit, Inside, Futures, Messages
  <1>3. ServiceIsSound
    BY <1>2, QueueEmpty DEF CallInit, ServiceIsSound, Futures
  <1>4. CallsTypeOK
    <2>1. \A c \in Callers : 1 <= Calls[c]
      BY CallsAssumption
    <2>2. \A r \in Requests : log[r] \in Seq(LogRows)
      BY EmptySeq DEF CallInit
    <2>3. QED
      BY <2>1, <2>2, EmptySeq DEF CallInit, CallsTypeOK, CallStates
  <1>5. ASSUME NEW c \in Callers PROVE CallerInv(c)
    <2>1. call[c] = [pc |-> "idle", n |-> 1, retry |-> FALSE, row |-> "none", outcome |-> "none"]
      BY DEF CallInit
    <2>2. OutcomeIsSound(c)
      BY <2>1 DEF OutcomeIsSound
    <2>3. Audit(c)
      BY <2>1, NamesDiffer DEF Audit, CallInit
    <2>4. \A n \in 1..Calls[c] : Untouched(<<c, n>>)
      BY <1>2, NamesDiffer DEF Untouched, Futures
    <2>5. QED
      BY <2>2, <2>3, <2>4 DEF CallerInv
  <1>6. QED
    BY <1>1, <1>3, <1>4, <1>5 DEF IInv, ServiceInv, CallersInv

-----------------------------------------------------------------------------
(* Steps of the worker and of the main thread *)

(* A caller notices only that futures are resolved and requests answered;  *)
(* what it has not put stays untouched.                                    *)
LEMMA CallersUndisturbed ==
  ASSUME CallersInv, UNCHANGED <<call, log>>, served \subseteq served',
         \A r \in Requests : future[r] # "pending" => future'[r] # "pending",
         \A r \in Requests : Untouched(r) => Untouched(r)'
  PROVE  CallersInv'
  <1>1. CallsTypeOK /\ CallsTypeOK'
    BY DEF CallersInv, CallsTypeOK
  <1>2. ASSUME NEW c \in Callers PROVE CallerInv(c)'
    <2>1. CallerInv(c)
      BY DEF CallersInv
    <2>2. /\ Request(c) \in Requests /\ Request(c)' = Request(c)
          /\ call[c].n \in Nat /\ call[c].n <= Calls[c] /\ Calls[c] \in Nat
      BY <1>1, RequestIsOwn, NamesDiffer DEF Request, CallsTypeOK, CallStates
    <2>3. call[c].n > 1 => <<c, call[c].n - 1>> \in Requests
      <3> SUFFICES ASSUME call[c].n > 1 PROVE <<c, call[c].n - 1>> \in Requests
        OBVIOUS
      <3>1. call[c].n - 1 \in 1..Calls[c]
        BY <2>2
      <3>2. QED
        BY <3>1, NamesDiffer
    <2>4. OutcomeIsSound(c)'
      BY <2>1, <2>2, <2>3 DEF CallerInv, OutcomeIsSound
    <2>5. Audit(c)'
      BY <2>1, <2>2 DEF CallerInv, Audit, Unlogged
    <2>6. \A n \in 1..Calls[c] : Unsent(c, n)' => Untouched(<<c, n>>)'
      BY <2>1, NamesDiffer DEF CallerInv, Unsent
    <2>7. QED
      BY <2>4, <2>5, <2>6 DEF CallerInv
  <1>3. QED
    BY <1>1, <1>2 DEF CallersInv

LEMMA WorkerGoesOn ==
  ASSUME IInv, UNCHANGED <<main, thread, current, queue, future, served, call, log>>,
         worker \in {"starting", "unready", "idle", "stopping", "ending"},
         worker' \in {"idle", "dead"}
  PROVE  IInv'
  <1>1. ServiceTypeOK'
    BY DEF IInv, ServiceInv, ServiceTypeOK
  <1>2. ServiceIsSound'
    BY DEF IInv, ServiceInv, ServiceIsSound, Inside
  <1>3. CallersInv'
    BY CallersUndisturbed DEF IInv, Untouched, Inside
  <1>4. QED
    BY <1>1, <1>2, <1>3 DEF IInv, ServiceInv

LEMMA BreakInv == IInv /\ WorkerBreaks => IInv'
  <1> SUFFICES ASSUME IInv, WorkerBreaks PROVE IInv'
    OBVIOUS
  <1>1. PICK error \in Errors : FailPending(error)
    BY DEF WorkerBreaks
  <1>2. ServiceTypeOK /\ ServiceIsSound /\ CallersInv
    BY DEF IInv, ServiceInv
  <1>3. /\ UNCHANGED <<main, thread, current, served, call, log>>
        /\ worker \in {"starting", "idle", "stopping"} /\ worker' \in {"unready", "ending"}
    BY DEF WorkerBreaks
  <1>4. current = NoRequest
    BY <1>2, <1>3 DEF ServiceTypeOK
  <1>5. queue' = <<>> /\ \A r : ~ Contains(queue', r)
    BY <1>1, QueueEmpty DEF FailPending
  <1>6. /\ \A r \in Futures : /\ future[r] # "pending" => future'[r] = future[r]
                              /\ ~ Contains(queue, r) => future'[r] = future[r]
                              /\ future'[r] \in {future[r], error}
        /\ future' \in [Futures -> {"pending", "data"} \cup Errors]
    BY <1>1, <1>2 DEF FailPending, ServiceTypeOK
  <1>7. Listing \in Futures /\ NoRequest \notin Futures /\ Requests \subseteq Futures
    BY NamesDiffer DEF Futures, Messages
  <1>8. ServiceTypeOK'
    BY <1>2, <1>3, <1>4, <1>5, <1>6, QueueEmpty DEF ServiceTypeOK
  <1>9. ServiceIsSound'
    BY <1>2, <1>3, <1>4, <1>5, <1>6, <1>7 DEF ServiceIsSound, Inside, Errors
  <1>10. CallersInv'
    <2>1. \A r \in Requests : Untouched(r) => Untouched(r)'
      BY <1>3, <1>5, <1>6, <1>7 DEF Untouched, Inside
    <2>2. QED
      BY <2>1, <1>2, <1>3, <1>6, <1>7, CallersUndisturbed
  <1>11. QED
    BY <1>8, <1>9, <1>10 DEF IInv, ServiceInv

LEMMA TakeInv == IInv /\ Take => IInv'
  <1> SUFFICES ASSUME IInv, Take PROVE IInv'
    OBVIOUS
  <1>1. ServiceTypeOK /\ ServiceIsSound /\ CallersInv
    BY DEF IInv, ServiceInv
  <1>2. /\ UNCHANGED <<main, thread, future, served, call, log>> /\ queue # <<>>
        /\ worker = "idle" /\ queue' = Tail(queue)
        /\ \/ Head(queue) = Stop /\ worker' = "stopping" /\ current' = current
           \/ Head(queue) # Stop /\ worker' = "busy" /\ current' = Head(queue)
    BY DEF Take
  <1>3. current = NoRequest
    BY <1>1, <1>2 DEF ServiceTypeOK
  <1>4. /\ Head(queue) \in Messages /\ queue' \in Seq(Messages) /\ IsInjective(queue')
        /\ ~ Contains(queue', Head(queue)) /\ Contains(queue, Head(queue))
        /\ \A r : Contains(queue', r) => Contains(queue, r)
    BY <1>1, <1>2, QueueTail DEF ServiceTypeOK
  <1>5. Listing \in Futures /\ NoRequest \notin Messages /\ Requests \subseteq Futures
        /\ Messages = Futures \cup {Stop} /\ Stop # NoRequest
    BY NamesDiffer DEF Futures, Messages
  <1>6. \A r : Inside(r)' /\ r # NoRequest => Inside(r)
    BY <1>2, <1>3, <1>4 DEF Inside
  <1>7. ServiceTypeOK'
    BY <1>1, <1>2, <1>3, <1>4, <1>5 DEF ServiceTypeOK
  <1>8. ServiceIsSound'
    <2>1. current' # NoRequest => ~ Contains(queue', current')
      BY <1>2, <1>3, <1>4
    <2>2. \A r \in Futures : Inside(r)' => future'[r] = "pending"
      BY <1>1, <1>2, <1>5, <1>6 DEF ServiceIsSound
    <2>3. main' = "starting" => future'[Listing] = "pending" /\ ~ Inside(Listing)'
      BY <1>1, <1>2, <1>5, <1>6 DEF ServiceIsSound
    <2>4. QED
      BY <2>1, <2>2, <2>3, <1>1, <1>2, <1>4 DEF ServiceIsSound
  <1>9. CallersInv'
    <2>1. \A r \in Requests : Untouched(r) => Untouched(r)'
      BY <1>2, <1>5, <1>6 DEF Untouched
    <2>2. QED
      BY <2>1, <1>1, <1>2, CallersUndisturbed
  <1>10. QED
    BY <1>7, <1>8, <1>9 DEF IInv, ServiceInv

LEMMA ServeInv == IInv /\ Serve => IInv'
  <1> SUFFICES ASSUME IInv, Serve PROVE IInv'
    OBVIOUS
  <1>1. ServiceTypeOK /\ ServiceIsSound /\ CallersInv
    BY DEF IInv, ServiceInv
  <1>2. PICK outcome \in Answers :
          /\ future' = [future EXCEPT ![current] = outcome]
          /\ served' = IF outcome = "data" THEN served \cup {current} ELSE served
    BY DEF Serve, FutureOf
  <1>3. /\ UNCHANGED <<main, thread, queue, call, log>> /\ worker = "busy" /\ worker' = "idle"
        /\ current' = NoRequest
    BY DEF Serve
  <1>4. /\ current \in Futures /\ current # NoRequest /\ ~ Contains(queue, current)
        /\ Inside(current) /\ future[current] = "pending"
    BY <1>1, <1>3 DEF ServiceTypeOK, ServiceIsSound, Inside
  <1>5. /\ \A r \in Futures : future'[r] = IF r = current THEN outcome ELSE future[r]
        /\ future' \in [Futures -> {"pending", "data"} \cup Errors]
        /\ outcome # "pending"
    BY <1>1, <1>2, <1>4 DEF ServiceTypeOK, Answers, Errors
  <1>6. Listing \in Futures /\ NoRequest \notin Futures /\ Requests \subseteq Futures
    BY NamesDiffer DEF Futures, Messages
  <1>7. \A r \in Futures : Inside(r)' => Inside(r) /\ r # current
    BY <1>3, <1>4, <1>6 DEF Inside
  <1>8. ServiceTypeOK'
    BY <1>1, <1>2, <1>3, <1>4, <1>5 DEF ServiceTypeOK
  <1>9. ServiceIsSound'
    <2>1. \A r \in Futures : Inside(r)' => future'[r] = "pending"
      BY <1>1, <1>5, <1>7 DEF ServiceIsSound
    <2>2. \A r \in Futures : future'[r] = "data" => r \in served'
      BY <1>1, <1>2, <1>5 DEF ServiceIsSound
    <2>3. main' = "starting" => future'[Listing] = "pending" /\ ~ Inside(Listing)'
      BY <1>1, <1>3, <1>4, <1>5, <1>6, <1>7 DEF ServiceIsSound
    <2>4. QED
      BY <2>1, <2>2, <2>3, <1>1, <1>3 DEF ServiceIsSound, ServiceTypeOK
  <1>10. CallersInv'
    <2>1. \A r \in Requests : Untouched(r) => Untouched(r)'
      BY <1>4, <1>5, <1>6, <1>7 DEF Untouched
    <2>2. \A r \in Requests : future[r] # "pending" => future'[r] # "pending"
      BY <1>4, <1>5, <1>6
    <2>3. QED
      BY <2>1, <2>2, <1>1, <1>2, <1>3, CallersUndisturbed
  <1>11. QED
    BY <1>8, <1>9, <1>10 DEF IInv, ServiceInv

(* The main thread queues a message nobody has queued, or none. *)
LEMMA MainInv ==
  ASSUME IInv, UNCHANGED <<worker, current, future, served, call, log>>,
         thread' \in BOOLEAN, main \in {"starting", "listing", "serving", "joining"},
         main' \in {"listing", "serving", "joining", "closed", "unclean"},
         \/ queue' = queue
         \/ queue' = Append(queue, Stop) /\ main # "joining" /\ main' = "joining"
         \/ queue' = Append(queue, Listing) /\ main = "starting",
         main = "joining" => main' \in {"closed", "unclean"},
         main' = "closed" => worker = "dead"
  PROVE  IInv'
  <1>1. ServiceTypeOK /\ ServiceIsSound /\ CallersInv
    BY DEF IInv, ServiceInv
  <1>2. Listing \in Futures /\ NoRequest \notin Messages /\ Requests \subseteq Futures
        /\ Messages = Futures \cup {Stop} /\ Stop \notin Futures /\ Listing \notin Requests
    BY NamesDiffer DEF Futures, Messages
  <1>3. CASE queue' = queue
    BY <1>1, <1>3, CallersUndisturbed
    DEF ServiceTypeOK, ServiceIsSound, IInv, ServiceInv, Untouched, Inside
  <1>4. CASE queue' # queue
    <2>1. PICK e \in {Stop, Listing} :
            /\ queue' = Append(queue, e) /\ main \in {"starting", "listing", "serving"}
            /\ e = Listing => main = "starting"
            /\ e = Stop => main' = "joining"
      BY <1>2, <1>4
    <2>2. ~ Contains(queue, e) /\ e # current /\ (e \in Futures => future[e] = "pending")
      BY <1>1, <1>2, <2>1 DEF ServiceIsSound, ServiceTypeOK, Inside, Messages
    <2>3. /\ queue' \in Seq(Messages) /\ IsInjective(queue')
          /\ \A r : Contains(queue', r) <=> Contains(queue, r) \/ r = e
      BY <1>1, <1>2, <2>1, <2>2, QueueAppend DEF ServiceTypeOK
    <2>4. ServiceTypeOK'
      BY <1>1, <2>3 DEF ServiceTypeOK
    <2>5. ServiceIsSound'
      BY <1>1, <1>2, <2>1, <2>2, <2>3 DEF ServiceIsSound, Inside
    <2>6. CallersInv'
      BY <1>1, <1>2, <2>1, <2>3, CallersUndisturbed DEF Untouched, Inside
    <2>7. QED
      BY <2>4, <2>5, <2>6 DEF IInv, ServiceInv
  <1>5. QED
    BY <1>3, <1>4

LEMMA ServiceStepInv == IInv /\ (WorkerStep \/ WorkerBreaks \/ MainStep \/ Shutdown) => IInv'
  <1> SUFFICES ASSUME IInv, WorkerStep \/ WorkerBreaks \/ MainStep \/ Shutdown PROVE IInv'
    OBVIOUS
  <1>1. thread \in BOOLEAN
    BY DEF IInv, ServiceInv, ServiceTypeOK
  <1>2. CASE WorkerStarts \/ WorkerEnds
    BY <1>2, WorkerGoesOn DEF WorkerStarts, WorkerEnds
  <1>3. CASE Take
    BY <1>3, TakeInv
  <1>4. CASE Serve
    BY <1>4, ServeInv
  <1>5. CASE WorkerBreaks
    BY <1>5, BreakInv
  <1>6. CASE Connect
    BY <1>1, <1>6, MainInv DEF Connect, Close, Alive
  <1>7. CASE ConnectFails
    BY <1>1, <1>7, MainInv DEF ConnectFails, Close, Alive
  <1>8. CASE Listed
    BY <1>1, <1>8, MainInv DEF Listed, Close, Alive
  <1>9. CASE Joined
    BY <1>1, <1>9, MainInv DEF Joined, Alive
  <1>10. CASE Shutdown
    BY <1>1, <1>10, MainInv DEF Shutdown, Close, Alive
  <1>11. QED
    BY <1>2, <1>3, <1>4, <1>5, <1>6, <1>7, <1>8, <1>9, <1>10 DEF WorkerStep, MainStep

-----------------------------------------------------------------------------
(* Steps of a caller *)

(* A caller that goes on in its call: what Goes does, field by field. *)
LEMMA GoesFields ==
  ASSUME CallsTypeOK, NEW c \in Callers, NEW pc, NEW row, NEW outcome, Goes(c, pc, row, outcome),
         pc \in {"putting", "waiting", "failing", "over"}, row \in {"none", "running", "completed"},
         outcome \in {"none", "refused", "output"} \cup Errors
  PROVE  /\ call' \in [Callers -> CallStates] /\ \A d \in Callers : call'[d].n <= Calls[d]
         /\ call'[c].pc = pc /\ call'[c].row = row /\ call'[c].outcome = outcome
         /\ call'[c].n = call[c].n /\ call'[c].retry = call[c].retry /\ Request(c)' = Request(c)
         /\ \A d \in Callers \ {c} : call'[d] = call[d]
  <1>1. /\ call' = [call EXCEPT ![c] = call'[c]]
        /\ call'[c] = [call[c] EXCEPT !.pc = pc, !.row = row, !.outcome = outcome]
    BY DEF Goes, CallsTypeOK
  <1>2. call[c] \in CallStates
    BY DEF CallsTypeOK
  <1>3. /\ call'[c].pc = pc /\ call'[c].row = row /\ call'[c].outcome = outcome
        /\ call'[c].n = call[c].n /\ call'[c].retry = call[c].retry /\ call'[c] \in CallStates
    BY <1>1, <1>2 DEF CallStates
  <1>4. call' \in [Callers -> CallStates] /\ \A d \in Callers \ {c} : call'[d] = call[d]
    BY <1>1, <1>3 DEF CallsTypeOK
  <1>5. \A d \in Callers : call'[d].n = call[d].n
    BY <1>3, <1>4
  <1>6. QED
    BY <1>3, <1>4, <1>5 DEF Request, CallsTypeOK

(* The other callers are not concerned. *)
LEMMA OneCallerMoves ==
  ASSUME CallersInv, NEW c \in Callers, CallsTypeOK', UNCHANGED <<future, served>>,
         \A d \in Callers \ {c} : call'[d] = call[d],
         \A d \in Callers \ {c} : \A n \in 1..Calls[d] : log'[<<d, n>>] = log[<<d, n>>],
         \A d \in Callers \ {c} : \A n \in 1..Calls[d] : Untouched(<<d, n>>) => Untouched(<<d, n>>)',
         CallerInv(c)'
  PROVE  CallersInv'
  <1>1. ASSUME NEW d \in Callers \ {c} PROVE CallerInv(d)'
    <2>1. CallerInv(d) /\ CallsTypeOK
      BY DEF CallersInv
    <2>2. /\ call[d].n \in 1..Calls[d] /\ call'[d] = call[d] /\ Request(d)' = Request(d)
          /\ Request(d) = <<d, call[d].n>>
      BY <2>1, RequestIsOwn DEF Request
    <2>3. OutcomeIsSound(d)'
      BY <2>1, <2>2 DEF CallerInv, OutcomeIsSound
    <2>4. \A n \in 1..Calls[d] : log'[<<d, n>>] = log[<<d, n>>]
      OBVIOUS
    <2>5. Audit(d)'
      BY <2>1, <2>2, <2>4 DEF CallerInv, Audit, Unlogged
    <2>6. \A n \in 1..Calls[d] : Unsent(d, n)' => Untouched(<<d, n>>)'
      BY <2>1, <2>2 DEF CallerInv, Unsent
    <2>7. QED
      BY <2>3, <2>5, <2>6 DEF CallerInv
  <1>2. QED
    BY <1>1 DEF CallersInv

(* A caller goes on without writing a row of its log. *)
LEMMA GoesOnInv ==
  ASSUME IInv, NEW c \in Callers, NEW pc, NEW row, NEW outcome, Goes(c, pc, row, outcome),
         UNCHANGED <<main, thread, worker, current, queue, future, served, log>>,
         row \in {"none", "running", "completed"}, call[c].pc # "over",
         \/ pc = "putting" /\ outcome = "none" /\ call[c].pc = "idle"
         \/ pc = "failing" /\ outcome \in Errors
         \/ pc = "over" /\ outcome = "refused",
         outcome = "lost" => future[Request(c)] # "pending"
  PROVE  IInv'
  <1>1. CallersInv /\ CallsTypeOK /\ CallerInv(c) /\ OutcomeIsSound(c) /\ Audit(c)
    BY DEF IInv, CallersInv, CallerInv
  <1>2. /\ call' \in [Callers -> CallStates] /\ \A d \in Callers : call'[d].n <= Calls[d]
        /\ call'[c].pc = pc /\ call'[c].outcome = outcome
        /\ call'[c].n = call[c].n /\ call'[c].retry = call[c].retry /\ Request(c)' = Request(c)
        /\ \A d \in Callers \ {c} : call'[d] = call[d]
    BY <1>1, GoesFields
  <1>3. call[c].n \in 1..Calls[c] /\ Request(c) = <<c, call[c].n>>
    BY <1>1, RequestIsOwn
  <1>4. CallsTypeOK'
    BY <1>1, <1>2 DEF CallsTypeOK
  <1>5. OutcomeIsSound(c)'
    BY <1>1, <1>2 DEF OutcomeIsSound, Errors
  <1>6. log[Request(c)] = <<>>
    BY <1>1, <1>3 DEF Audit, Unlogged
  <1>7. Audit(c)'
    BY <1>1, <1>2, <1>6 DEF Audit, Unlogged, Errors
  <1>8. \A r : Untouched(r)' <=> Untouched(r)
    BY DEF Untouched, Inside
  <1>9. \A n \in 1..Calls[c] : Unsent(c, n)' => Untouched(<<c, n>>)'
    BY <1>1, <1>2, <1>8 DEF CallerInv, Unsent
  <1>10. CallersInv'
    BY <1>1, <1>2, <1>4, <1>5, <1>7, <1>8, <1>9, OneCallerMoves DEF CallerInv
  <1>11. ServiceInv'
    BY DEF IInv, ServiceInv, ServiceTypeOK, ServiceIsSound, Inside
  <1>12. QED
    BY <1>10, <1>11 DEF IInv

(* A caller comes to the end of its call and commits the rows of its log. *)
LEMMA EndsInv ==
  ASSUME IInv, NEW c \in Callers, NEW outcome, Goes(c, "over", "none", outcome),
         NEW entries \in Seq(LogRows), Logged(c, entries),
         UNCHANGED <<main, thread, worker, current, queue, future, served>>, call[c].pc # "over",
         \/ outcome = "output" /\ entries = <<"completed">> /\ future[Request(c)] = "data"
         \/ outcome \in Errors /\ entries \in {<<>>, <<"failed">>} /\ call[c].outcome = outcome
         \/ outcome = "refused" /\ entries \in {<<>>, <<"rejected">>}
  PROVE  IInv'
  <1>1. CallersInv /\ CallsTypeOK /\ CallerInv(c) /\ OutcomeIsSound(c) /\ Audit(c)
    BY DEF IInv, CallersInv, CallerInv
  <1>2. /\ call' \in [Callers -> CallStates] /\ \A d \in Callers : call'[d].n <= Calls[d]
        /\ call'[c].pc = "over" /\ call'[c].outcome = outcome
        /\ call'[c].n = call[c].n /\ call'[c].retry = call[c].retry /\ Request(c)' = Request(c)
        /\ \A d \in Callers \ {c} : call'[d] = call[d]
    BY <1>1, GoesFields
  <1>3. call[c].n \in 1..Calls[c] /\ Request(c) = <<c, call[c].n>> /\ Request(c) \in Requests
    BY <1>1, RequestIsOwn
  <1>4. log[Request(c)] = <<>>
    BY <1>1, <1>3 DEF Audit, Unlogged
  <1>5. log[Request(c)] \o entries = entries
    BY <1>4, ConcatEmptySeq
  <1>6. /\ log' = [log EXCEPT ![Request(c)] = entries]
        /\ log \in [Requests -> Seq(LogRows)]
    BY <1>1, <1>5 DEF Logged, CallsTypeOK
  <1>7. /\ log' \in [Requests -> Seq(LogRows)] /\ log'[Request(c)] = entries
        /\ \A r \in Requests : r # Request(c) => log'[r] = log[r]
    BY <1>3, <1>6
  <1>8. CallsTypeOK'
    BY <1>2, <1>7 DEF CallsTypeOK
  <1>9. \A r \in Futures : future[r] = "data" => r \in served
    BY DEF IInv, ServiceInv, ServiceIsSound
  <1>10. OutcomeIsSound(c)'
    BY <1>1, <1>2, <1>3, <1>9 DEF OutcomeIsSound, Errors, Futures
  <1>11. Audit(c)'
    <2>1. ASSUME NEW n \in 1..Calls[c], Unlogged(c, n)' PROVE log'[<<c, n>>] = <<>>
      <3>1. n > call[c].n
        BY <1>2, <2>1 DEF Unlogged
      <3>2. <<c, n>> \in Requests /\ <<c, n>> # Request(c)
        BY <1>3, <3>1, NamesDiffer
      <3>3. QED
        BY <1>1, <1>7, <3>1, <3>2 DEF Audit, Unlogged
    <2>2. QED
      BY <1>2, <1>7, <2>1 DEF Audit, Errors
  <1>12. \A r : Untouched(r)' <=> Untouched(r)
    BY DEF Untouched, Inside
  <1>13. \A n \in 1..Calls[c] : Unsent(c, n)' => Untouched(<<c, n>>)'
    BY <1>1, <1>2, <1>12 DEF CallerInv, Unsent
  <1>14. \A d \in Callers \ {c} : \A n \in 1..Calls[d] : log'[<<d, n>>] = log[<<d, n>>]
    <2> SUFFICES ASSUME NEW d \in Callers \ {c}, NEW n \in 1..Calls[d]
                 PROVE  log'[<<d, n>>] = log[<<d, n>>]
      OBVIOUS
    <2>1. <<d, n>> \in Requests /\ <<d, n>> # Request(c)
      BY <1>3, NamesDiffer
    <2>2. QED
      BY <1>7, <2>1
  <1>15. CallersInv'
    BY <1>1, <1>2, <1>8, <1>10, <1>11, <1>12, <1>13, <1>14, OneCallerMoves DEF CallerInv
  <1>16. ServiceInv'
    BY DEF IInv, ServiceInv, ServiceTypeOK, ServiceIsSound, Inside
  <1>17. QED
    BY <1>15, <1>16 DEF IInv

LEMMA PutInv == IInv /\ (\E c \in Callers : Put(c)) => IInv'
  <1> SUFFICES ASSUME IInv, NEW c \in Callers, Put(c) PROVE IInv'
    OBVIOUS
  <1>1. /\ ServiceTypeOK /\ ServiceIsSound /\ CallersInv
        /\ CallsTypeOK /\ CallerInv(c) /\ OutcomeIsSound(c) /\ Audit(c)
    BY DEF IInv, ServiceInv, CallersInv, CallerInv
  <1>2. /\ UNCHANGED <<main, thread, worker, current, future, served, log>>
        /\ call[c].pc = "putting" /\ queue' = Append(queue, Request(c))
        /\ Goes(c, "waiting", "running", "none")
    BY DEF Put
  <1>3. /\ call' \in [Callers -> CallStates] /\ \A d \in Callers : call'[d].n <= Calls[d]
        /\ call'[c].pc = "waiting" /\ call'[c].outcome = "none"
        /\ call'[c].n = call[c].n /\ call'[c].retry = call[c].retry /\ Request(c)' = Request(c)
        /\ \A d \in Callers \ {c} : call'[d] = call[d]
    BY <1>1, <1>2, GoesFields
  <1>4. /\ call[c].n \in 1..Calls[c] /\ Request(c) = <<c, call[c].n>> /\ Request(c) \in Requests
        /\ Request(c) \in Messages /\ Request(c) \notin {Stop, Listing, NoRequest}
    BY <1>1, RequestIsOwn, NamesDiffer DEF Messages, Futures
  <1>5. Untouched(Request(c))
    BY <1>1, <1>2, <1>4 DEF CallerInv, Unsent
  <1>6. /\ queue' \in Seq(Messages) /\ IsInjective(queue')
        /\ \A r : Contains(queue', r) <=> Contains(queue, r) \/ r = Request(c)
    <2>1. queue \in Seq(Messages) /\ IsInjective(queue) /\ ~ Contains(queue, Request(c))
      BY <1>1, <1>5 DEF ServiceTypeOK, Untouched, Inside
    <2>2. QED
      BY <1>2, <1>4, <2>1, QueueAppend
  <1>7. ServiceTypeOK'
    BY <1>1, <1>2, <1>6 DEF ServiceTypeOK
  <1>8. ServiceIsSound'
    BY <1>1, <1>2, <1>4, <1>5, <1>6 DEF ServiceIsSound, Untouched, Inside
  <1>9. \A r : Untouched(r) /\ r # Request(c) => Untouched(r)'
    BY <1>2, <1>6 DEF Untouched, Inside
  <1>10. CallsTypeOK'
    BY <1>1, <1>2, <1>3 DEF CallsTypeOK
  <1>11. OutcomeIsSound(c)'
    BY <1>1, <1>2, <1>3 DEF OutcomeIsSound, Errors
  <1>12. Audit(c)'
    BY <1>1, <1>2, <1>3 DEF Audit, Unlogged
  <1>13. ASSUME NEW n \in 1..Calls[c], Unsent(c, n)' PROVE Untouched(<<c, n>>)'
    <2>1. n > call[c].n
      BY <1>3, <1>13 DEF Unsent
    <2>2. <<c, n>> # Request(c) /\ Untouched(<<c, n>>)
      BY <1>1, <1>4, <2>1 DEF CallerInv, Unsent
    <2>3. QED
      BY <1>9, <2>2
  <1>14. \A d \in Callers \ {c} : \A n \in 1..Calls[d] : Untouched(<<d, n>>) => Untouched(<<d, n>>)'
    <2> SUFFICES ASSUME NEW d \in Callers \ {c}, NEW n \in 1..Calls[d], Untouched(<<d, n>>)
                 PROVE  Untouched(<<d, n>>)'
      OBVIOUS
    <2>1. <<d, n>> # Request(c)
      BY <1>4
    <2>2. QED
      BY <1>9, <2>1
  <1>15. CallersInv'
    BY <1>1, <1>2, <1>3, <1>10, <1>11, <1>12, <1>13, <1>14, OneCallerMoves DEF CallerInv
  <1>16. QED
    BY <1>7, <1>8, <1>15 DEF IInv, ServiceInv

LEMMA AgainInv == IInv /\ (\E c \in Callers : Again(c)) => IInv'
  <1> SUFFICES ASSUME IInv, NEW c \in Callers, Again(c) PROVE IInv'
    OBVIOUS
  <1>1. CallersInv /\ CallsTypeOK /\ CallerInv(c) /\ OutcomeIsSound(c) /\ Audit(c)
    BY DEF IInv, CallersInv, CallerInv
  <1>2. PICK retry \in {FALSE, call[c].outcome = "lost" /\ ~ call[c].retry} :
          call' = [call EXCEPT ![c] = [pc |-> "idle", n |-> call[c].n + 1, retry |-> retry,
                                       row |-> "none", outcome |-> "none"]]
    BY DEF Again
  <1>3. /\ UNCHANGED <<main, thread, worker, current, queue, future, served, log>>
        /\ call[c].pc = "over" /\ call[c].n < Calls[c]
    BY DEF Again
  <1>4. call[c].n \in 1..Calls[c] /\ Request(c) = <<c, call[c].n>> /\ Calls[c] \in Nat
    BY <1>1, RequestIsOwn, NamesDiffer
  <1> DEFINE row == [pc |-> "idle", n |-> call[c].n + 1, retry |-> retry,
                     row |-> "none", outcome |-> "none"]
  <1>5. /\ row \in CallStates /\ row.pc = "idle" /\ row.n = call[c].n + 1
        /\ row.retry = retry /\ row.outcome = "none"
    <2>1. retry = FALSE \/ retry = (call[c].outcome = "lost" /\ ~ call[c].retry)
      OBVIOUS
    <2>2. retry \in BOOLEAN
      BY <2>1
    <2>3. call[c].n + 1 \in Nat \ {0}
      BY <1>4
    <2>4. QED
      BY <2>2, <2>3 DEF CallStates
  <1>6. call' = [call EXCEPT ![c] = row]
    BY <1>2
  <1> HIDE DEF row
  <1>7. /\ call' \in [Callers -> CallStates] /\ call'[c].pc = "idle" /\ call'[c].n = call[c].n + 1
        /\ call'[c].retry = retry /\ call'[c].outcome = "none"
        /\ \A d \in Callers \ {c} : call'[d] = call[d]
    BY <1>1, <1>5, <1>6 DEF CallsTypeOK
  <1>8. CallsTypeOK'
    <2>1. \A d \in Callers : call'[d].n <= Calls[d]
      BY <1>1, <1>3, <1>4, <1>7 DEF CallsTypeOK
    <2>2. QED
      BY <1>1, <1>3, <1>7, <2>1 DEF CallsTypeOK
  <1>9. OutcomeIsSound(c)'
    <2>1. call'[c].retry => call[c].outcome = "lost"
      BY <1>2, <1>7
    <2>2. call'[c].n > 1 /\ call'[c].n - 1 = call[c].n
      BY <1>4, <1>7
    <2>3. QED
      BY <1>1, <1>3, <1>4, <1>7, <2>1, <2>2 DEF OutcomeIsSound, Errors
  <1>10. \A n \in 1..Calls[c] : n >= call[c].n + 1 => n > call[c].n
    BY <1>4
  <1>11. \A n \in 1..Calls[c] : Unsent(c, n)' \/ Unlogged(c, n)' => n > call[c].n
    BY <1>4, <1>7, <1>10 DEF Unsent, Unlogged
  <1>12. Audit(c)'
    BY <1>1, <1>3, <1>7, <1>11 DEF Audit, Unlogged
  <1>13. \A r : Untouched(r)' <=> Untouched(r)
    BY <1>3 DEF Untouched, Inside
  <1>14. \A n \in 1..Calls[c] : Unsent(c, n)' => Untouched(<<c, n>>)'
    BY <1>1, <1>11, <1>13 DEF CallerInv, Unsent
  <1>15. CallersInv'
    BY <1>1, <1>3, <1>7, <1>8, <1>9, <1>12, <1>13, <1>14, OneCallerMoves DEF CallerInv
  <1>16. ServiceInv'
    BY <1>3 DEF IInv, ServiceInv, ServiceTypeOK, ServiceIsSound, Inside
  <1>17. QED
    BY <1>15, <1>16 DEF IInv

LEMMA CallerStepInv ==
  ASSUME IInv, NEW c \in Callers, CallStep(c) \/ Reject(c) \/ Open(c) \/ Again(c)
  PROVE  IInv'
  <1>1. /\ CallsTypeOK /\ OutcomeIsSound(c)
        /\ \A told \in {<<>>, <<"rejected">>, <<"failed">>, <<"completed">>} : told \in Seq(LogRows)
    BY EmptySeq DEF IInv, CallersInv, CallerInv, LogRows
  <1>2. CASE Put(c)
    BY <1>2, PutInv
  <1>3. CASE Again(c)
    BY <1>3, AgainInv
  <1>4. CASE Reject(c)
    <2>1. PICK entries \in {<<>>, <<"rejected">>} : Logged(c, entries)
      BY <1>4 DEF Reject
    <2>2. Goes(c, "over", "none", "refused") /\ call[c].pc # "over"
      BY <1>4 DEF Reject, Calling
    <2>3. QED
      BY <1>1, <1>4, <2>1, <2>2, EndsInv DEF Reject
  <1>5. CASE Open(c)
    <2>1. \/ Goes(c, "putting", "running", "none")
          \/ Goes(c, "failing", "running", "error")
          \/ Goes(c, "over", "none", "refused")
      BY <1>5 DEF Open
    <2>2. UNCHANGED <<main, thread, worker, current, queue, future, served, log>>
      BY <1>5 DEF Open
    <2>3. call[c].pc = "idle" /\ "error" \in Errors
      BY <1>5 DEF Open, Calling, Errors
    <2>4. QED
      BY <2>1, <2>2, <2>3, GoesOnInv
  <1>6. CASE TimesOut(c)
    BY <1>6, GoesOnInv DEF TimesOut, Errors
  <1>7. CASE Answered(c)
    <2>1. /\ UNCHANGED <<main, thread, worker, current, queue, future, served>>
          /\ call[c].pc = "waiting" /\ future[Request(c)] # "pending"
      BY <1>7 DEF Answered, FutureOf
    <2>2. \/ /\ future[Request(c)] = "data" /\ Goes(c, "over", "none", "output")
             /\ Logged(c, <<"completed">>)
          \/ \E row \in {"running", "completed"} : Goes(c, "failing", row, "error") /\ UNCHANGED log
          \/ /\ future[Request(c)] \in Errors /\ Goes(c, "failing", "running", future[Request(c)])
             /\ UNCHANGED log
      BY <1>7 DEF Answered, FutureOf
    <2>3. CASE /\ future[Request(c)] = "data" /\ Goes(c, "over", "none", "output")
               /\ Logged(c, <<"completed">>)
      BY <1>1, <2>1, <2>3, EndsInv
    <2>4. CASE \E row \in {"running", "completed"} : Goes(c, "failing", row, "error") /\ UNCHANGED log
      BY <2>1, <2>4, GoesOnInv DEF Errors
    <2>5. CASE /\ future[Request(c)] \in Errors /\ Goes(c, "failing", "running", future[Request(c)])
               /\ UNCHANGED log
      BY <2>1, <2>5, GoesOnInv
    <2>6. QED
      BY <2>2, <2>3, <2>4, <2>5
  <1>8. CASE Fail(c)
    <2>1. PICK entries \in {<<>>, <<"failed">>} : Logged(c, entries)
      BY <1>8 DEF Fail, FailureRows
    <2>2. call[c].outcome \in Errors
      BY <1>1, <1>8 DEF Fail, OutcomeIsSound
    <2>3. QED
      BY <1>1, <1>8, <2>1, <2>2, EndsInv DEF Fail
  <1>9. QED
    BY <1>2, <1>3, <1>4, <1>5, <1>6, <1>7, <1>8 DEF CallStep

LEMMA StepInv == IInv /\ [CallNext]_callVars => IInv'
  <1> SUFFICES ASSUME IInv, [CallNext]_callVars PROVE IInv'
    OBVIOUS
  <1>1. CASE UNCHANGED callVars
    BY <1>1
    DEF callVars, IInv, ServiceInv, ServiceTypeOK, ServiceIsSound, CallersInv, CallsTypeOK,
        CallerInv, OutcomeIsSound, Audit, Unsent, Unlogged, Untouched, Inside, Request
  <1>2. CASE WorkerStep \/ WorkerBreaks \/ MainStep \/ Shutdown
    BY <1>2, ServiceStepInv
  <1>3. CASE \E c \in Callers : CallStep(c) \/ Reject(c) \/ Open(c) \/ Again(c)
    BY <1>3, CallerStepInv
  <1>4. QED
    BY <1>1, <1>2, <1>3 DEF CallNext, Quiet

LEMMA Invariance == CallSpec => []IInv
  BY InitInv, StepInv, PTL DEF CallSpec

-----------------------------------------------------------------------------
(* The audit log tells what the caller was told: one completed row for an  *)
(* output of ToolRegistry.call_tool, at most one other row for anything    *)
(* else, and never the running row of a transaction that failed.           *)
THEOREM AuditTellsOutcomes == CallSpec => []AuditMatchesOutcome
  <1>1. IInv => AuditMatchesOutcome
    <2> SUFFICES ASSUME IInv, NEW c \in Callers, call[c].pc = "over"
                 PROVE  log[Request(c)] \in
                          CASE call[c].outcome = "output"  -> {<<"completed">>}
                            [] call[c].outcome \in Errors  -> {<<>>, <<"failed">>}
                            [] call[c].outcome = "refused" -> {<<>>, <<"rejected">>}
      BY DEF AuditMatchesOutcome
    <2>1. CallsTypeOK /\ OutcomeIsSound(c) /\ Audit(c)
      BY DEF IInv, CallersInv, CallerInv
    <2>2. call[c].outcome \in {"refused", "output"} \cup Errors
      BY <2>1, RequestIsOwn DEF OutcomeIsSound, CallStates, Errors
    <2>3. CASE call[c].outcome = "output"
      BY <2>1, <2>3 DEF Audit, Errors
    <2>4. CASE call[c].outcome \in Errors
      BY <2>1, <2>4 DEF Audit, Errors
    <2>5. CASE call[c].outcome = "refused"
      BY <2>1, <2>5 DEF Audit, Errors
    <2>6. QED
      BY <2>2, <2>3, <2>4, <2>5
  <1>2. QED
    BY Invariance, <1>1, PTL

(* Requests to the MCP client are never mixed up: an output is what the    *)
(* server answered to this very request, and a retry is made only of a     *)
(* request that is neither queued nor with the server any more.            *)
THEOREM AnswersAreNeverMixed == CallSpec => []AnswersAreOwn
  <1>1. ASSUME IInv PROVE AnswersAreOwn
    <2>1. ServiceTypeOK /\ ServiceIsSound /\ CallsTypeOK /\ \A c \in Callers : OutcomeIsSound(c)
      BY <1>1 DEF IInv, ServiceInv, CallersInv, CallerInv
    <2>2. Requests \cup {Listing, Stop} = Messages
      BY DEF Messages, Futures
    <2>3. CallTypeOK
      BY <2>1, <2>2 DEF CallTypeOK, ServiceTypeOK, CallsTypeOK, Futures
    <2>4. OutputIsOwn
      BY <2>1 DEF OutputIsOwn, OutcomeIsSound
    <2>5. ASSUME NEW c \in Callers, call[c].retry
          PROVE  ~ Inside(<<c, call[c].n - 1>>)
      <3>1. call[c].n > 1 /\ future[<<c, call[c].n - 1>>] # "pending"
        BY <2>1, <2>5 DEF OutcomeIsSound
      <3>2. call[c].n \in 1..Calls[c] /\ Calls[c] \in Nat
        BY <2>1, RequestIsOwn, NamesDiffer
      <3>3. call[c].n - 1 \in 1..Calls[c]
        BY <3>1, <3>2
      <3>4. <<c, call[c].n - 1>> \in Futures
        BY <3>3, NamesDiffer DEF Futures
      <3>5. QED
        BY <2>1, <3>1, <3>4 DEF ServiceIsSound
    <2>6. RetryIsAlone
      BY <2>5 DEF RetryIsAlone, Inside
    <2>7. QED
      BY <2>3, <2>4, <2>6 DEF AnswersAreOwn
  <1>2. QED
    BY Invariance, <1>1, PTL

(* After WorkPilotMCPClient.close has returned normally the worker thread  *)
(* serves nothing more, so the engine and the server can be disposed of.   *)
THEOREM ClosedClientsAreQuiet == CallSpec => ClosedIsQuiet
  <1>1. IInv /\ [CallNext]_callVars => [main = "closed" => served' = served /\ worker' = worker]_callVars
    <2> SUFFICES ASSUME IInv, [CallNext]_callVars, main = "closed"
                 PROVE  served' = served /\ worker' = worker
      OBVIOUS
    <2>1. worker = "dead"
      BY DEF IInv, ServiceInv, ServiceIsSound
    <2>2. CASE UNCHANGED callVars
      BY <2>2 DEF callVars
    <2>3. CASE WorkerStep \/ WorkerBreaks
      BY <2>1, <2>3 DEF WorkerStep, WorkerStarts, WorkerEnds, Take, Serve, WorkerBreaks
    <2>4. CASE MainStep \/ Shutdown
      BY <2>4 DEF MainStep, Connect, ConnectFails, Listed, Joined, Shutdown
    <2>5. CASE \E c \in Callers : CallStep(c) \/ Reject(c) \/ Open(c) \/ Again(c)
      BY <2>5 DEF CallStep, Put, Answered, TimesOut, Fail, Reject, Open, Again
    <2>6. QED
      BY <2>2, <2>3, <2>4, <2>5 DEF CallNext, Quiet
  <1>2. QED
    BY Invariance, <1>1, PTL DEF CallSpec, ClosedIsQuiet

-----------------------------------------------------------------------------
(* A set of naturals has a least element. *)
LEMMA LeastExists ==
    ASSUME NEW T, T \subseteq Nat, T # {}
    PROVE  \E x \in T : \A y \in T : x <= y
<1> DEFINE less == OpToRel(<, Nat)
<1>1. IsWellFoundedOn(less, Nat)
  BY NatLessThanWellFounded
<1>2. \A x, y \in Nat : y < x => <<y, x>> \in less
  BY DEF OpToRel
<1> HIDE DEF less
<1>3. PICK x \in T : \A y \in T : ~ (<<y, x>> \in less)
  BY <1>1, WFMin
<1>4. \A y \in T : ~ (y < x)
  BY <1>2, <1>3
<1> QED
  BY <1>4

(* A set of bounded naturals has a greatest element. *)
LEMMA GreatestExists ==
    ASSUME NEW n \in Nat, NEW T, T \subseteq 0..n, T # {}
    PROVE  \E x \in T : \A y \in T : x >= y
<1> DEFINE rest == {n - x : x \in T}
<1>1. \A x \in T : x \in 0..n /\ n - x \in Nat
  OBVIOUS
<1>2. rest \subseteq Nat /\ rest # {}
  BY <1>1
<1>3. PICK r \in rest : \A q \in rest : r <= q
  BY <1>2, LeastExists
<1>4. PICK x \in T : r = n - x
  BY <1>3
<1>5. \A y \in T : n - x <= n - y
  BY <1>3, <1>4
<1> QED
  BY <1>1, <1>5

(* Every name the alias map knows is one of a table in the statement. *)
LEMMA AliasesAreTables ==
    ASSUME NEW s \in Statement, NEW a \in DOMAIN Aliases(s, Len(s.tables))
    PROVE  \E m \in DOMAIN s.tables : Aliases(s, Len(s.tables))[a] = s.tables[m].name
<1> DEFINE n == Len(s.tables)
           names(m) == NamesOf(s.tables[m])
           binds == {m \in 1..n : a \in names(m)}
           latest == CHOOSE m \in 1..n : a \in names(m) /\ \A k \in (m + 1)..n : a \notin names(k)
<1>1. n \in Nat /\ DOMAIN s.tables = 1..n
  BY DEF Statement
<1>2. Aliases(s, n)[a] = s.tables[latest].name /\ binds # {}
  BY DEF Aliases
<1>3. \E m \in binds : \A k \in binds : m >= k
  <2>1. binds \subseteq 0..n
    BY <1>1
  <2> QED
    BY <1>1, <1>2, <2>1, GreatestExists
<1>4. \E m \in 1..n : a \in names(m) /\ \A k \in (m + 1)..n : a \notin names(k)
  BY <1>1, <1>3
<1>5. latest \in 1..n
  BY <1>4
<1> QED
  BY <1>1, <1>2, <1>5
-----------------------------------------------------------------------------
(* TextToSql *)

Entry == [kind: {"llm", "sql"}, status: {"success", "failed"},
          what: LLMFailures \cup Seq(Statement) \cup Statement]

SqlTypes ==
    /\ query.pc \in {"asked", "generated", "guarded", "answered", "raised", "escaped"}
    /\ query.attempt \in {1, 2}
    /\ query.pc \in {"generated", "guarded", "answered"} => query.sql \in Statement
    /\ prompt \in Seq(Statement) /\ events \in Seq(Entry)

(* The entries of the first attempt, when it is over. *)
Before == IF query.attempt = 1 THEN 0 ELSE 2

(* Where the question is tells how long its trace is ... *)
TraceLength ==
    /\ query.pc = "asked" => Len(events) = Before
    /\ query.pc \in {"generated", "escaped"} => Len(events) = Before + 1
    /\ query.pc \in {"guarded", "answered"} => Len(events) = Before + 2
    /\ query.pc = "raised" => Len(events) \in {Before + 1, Before + 2}

(* ... and generations and verdicts take turns in it. *)
TurnsTaken ==
    \A i \in 1..Len(events) :
        /\ events[i].kind = IF i \in {1, 3} THEN "llm" ELSE "sql"
        /\ i \in {1, 3} => (events[i].status = "success" <=>
                           i < Len(events) \/ query.pc \in {"generated", "escaped"})

(* The second generation is told of the refusal that it repairs. *)
RepairTold ==
    /\ Len(events) >= 2 /\ query.attempt = 2 =>
         events[2].status = "failed" /\ prompt = <<events[2].what>>
    /\ query.attempt = 1 => prompt = <<>>
    /\ Len(events) >= 3 /\ events[3].status = "success" => events[3].what = prompt

PassedTraced ==
    query.pc \in {"guarded", "answered"} =>
        LET last == events[Len(events)] IN
        last.kind = "sql" /\ last.status = "success" /\ last.what = query.sql

SqlInv == SqlTypes /\ TraceLength /\ TurnsTaken /\ RepairTold /\ PassedTraced /\ QueryIsAllowed

(* Each column that the guard has looked up is allowed in each table that  *)
(* the database may mean.                                                  *)
LEMMA AllowedReadsAllowed ==
    ASSUME NEW s \in Statement, Verdict(s) = "ALLOWED",
           NEW c \in LookedUp(s), NEW r \in Read(s, c)
    PROVE  r[2] \in Columns[r[1]]
<1> USE SqlAssumption, HiddenEverywhere
<1>1. TablesAllowed(s) /\ ColumnsAllowed(s)
  BY DEF Verdict
<1>2. \A n \in DOMAIN s.tables : s.tables[n].name \in DOMAIN Columns
  BY <1>1 DEF TablesAllowed
<1>3. PICK t \in ToSet(s.tables) : r = <<t.name, c.name>> /\ c.name \in Stored[t.name]
  BY DEF Read
<1>4. t.name \in DOMAIN Columns
  BY <1>2, <1>3 DEF ToSet
<1>5. c \in ToSet(s.columns) /\ (c.table # "" \/ c.name \notin OutputAliases(s))
  BY DEF LookedUp
<1>6. \E u \in DOMAIN Columns : c.name \in Columns[u]
  <2>1. CASE c.table # ""
    <3>1. PICK a \in DOMAIN Aliases(s, Len(s.tables)) :
            c.name \in Columns[Aliases(s, Len(s.tables))[a]]
      BY <1>1, <1>5, <2>1 DEF ColumnsAllowed
    <3> QED
      BY <1>2, <3>1, AliasesAreTables
  <2>2. CASE c.table = ""
    <3>1. \E n \in DOMAIN s.tables : c.name \in Columns[s.tables[n].name]
      BY <1>1, <1>5, <2>2 DEF ColumnsAllowed
    <3> QED
      BY <1>2, <3>1
  <2> QED
    BY <2>1, <2>2
<1> QED
  BY <1>3, <1>4, <1>6

(* What the guard writes anew is the statement with a bounded limit. *)
LEMMA LimitApplied ==
    ASSUME NEW s \in Statement
    PROVE  /\ ApplyLimit(s) \in Statement
           /\ ApplyLimit(s).tables = s.tables /\ ApplyLimit(s).outputs = s.outputs
           /\ ApplyLimit(s).columns = s.columns /\ ApplyLimit(s).offset = s.offset
           /\ s.limit # NotInteger => ApplyLimit(s).limit \in 0..MaxRows
<1> DEFINE limit == IF s.limit = None \/ s.limit > MaxRows THEN MaxRows ELSE s.limit
<1>1. s.limit \in Nat \cup {None, NotInteger} /\ DOMAIN s = {"kind", "nodes", "tables",
        "outputs", "columns", "functions", "limit", "offset"}
  BY DEF Statement
<1>2. limit \in Nat \cup {None, NotInteger} /\ (s.limit # NotInteger => limit \in 0..MaxRows)
  BY <1>1, SqlAssumption DEF None, NotInteger
<1>3. ApplyLimit(s) = [s EXCEPT !.limit = limit]
  BY DEF ApplyLimit
<1> HIDE DEF limit
<1>4. ApplyLimit(s) \in Statement /\ ApplyLimit(s).limit = limit
  BY <1>1, <1>2, <1>3 DEF Statement
<1>5. /\ ApplyLimit(s).tables = s.tables /\ ApplyLimit(s).outputs = s.outputs
      /\ ApplyLimit(s).columns = s.columns /\ ApplyLimit(s).offset = s.offset
  BY <1>1, <1>3
<1> QED
  BY <1>2, <1>4, <1>5

(* The guard's verdict bounds what is executed and what it reads. *)
LEMMA GuardedIsAllowed ==
    ASSUME NEW s \in Statement, Verdict(s) = "ALLOWED"
    PROVE  LET g == ApplyLimit(s) IN
           /\ g \in Statement
           /\ g.limit \in 0..MaxRows
           /\ g.offset <= MaxOffset
           /\ \A t \in ToSet(g.tables) : t.name \in DOMAIN Columns
           /\ \A r \in UNION {Read(g, c) : c \in LookedUp(g)} : r[2] \in Columns[r[1]]
<1>1. s.limit # NotInteger /\ s.offset <= MaxOffset
  BY DEF Verdict, LimitIsInteger, OffsetAllowed
<1>2. LookedUp(ApplyLimit(s)) = LookedUp(s) /\ \A c : Read(ApplyLimit(s), c) = Read(s, c)
  BY LimitApplied DEF Read, LookedUp, OutputAliases
<1>3. \A t \in ToSet(ApplyLimit(s).tables) : t.name \in DOMAIN Columns
  BY LimitApplied DEF Verdict, TablesAllowed, ToSet
<1> QED
  BY <1>1, <1>2, <1>3, LimitApplied, AllowedReadsAllowed

LEMMA SqlBegins == SqlInit => SqlInv
  BY SqlAssumption DEF SqlInit, SqlInv, SqlTypes, TraceLength, TurnsTaken, RepairTold,
     PassedTraced, QueryIsAllowed, Before

(* One more entry: the trace grows at its end. *)
LEMMA EntryRecorded ==
    ASSUME NEW es \in Seq(Entry), NEW e \in Entry
    PROVE  /\ Append(es, e) \in Seq(Entry)
           /\ Len(es) \in Nat /\ Len(Append(es, e)) = Len(es) + 1
           /\ \A i \in 1..Len(es) : Append(es, e)[i] = es[i]
           /\ Append(es, e)[Len(es) + 1] = e
  BY AppendProperties

(* What one more entry does to a trace, whatever the step that records it. *)
LEMMA TraceGrows ==
    ASSUME SqlInv, NEW e \in Entry, events' = Append(events, e),
           query.pc \in {"asked", "generated"}, query'.attempt \in {1, 2},
           e.kind = IF query.pc = "asked" THEN "llm" ELSE "sql",
           query.pc = "asked" => (e.status = "success" <=> query'.pc = "generated"),
           query.pc = "generated" => query'.pc # "generated",
           query'.pc # "escaped"
    PROVE  /\ events' \in Seq(Entry)
           /\ Len(events') = Len(events) + 1
           /\ query.pc = "asked" => Len(events) = Before
           /\ query.pc = "generated" => Len(events) = Before + 1
           /\ \A i \in 1..Len(events) : events'[i] = events[i]
           /\ events'[Len(events')] = e
           /\ TurnsTaken'
<1>1. /\ events' \in Seq(Entry) /\ Len(events) \in Nat /\ Len(events') = Len(events) + 1
      /\ \A i \in 1..Len(events) : events'[i] = events[i]
      /\ events'[Len(events) + 1] = e
  BY EntryRecorded DEF SqlInv, SqlTypes
<1>2. /\ query.pc = "asked" => Len(events) = Before
      /\ query.pc = "generated" => Len(events) = Before + 1
  BY DEF SqlInv, TraceLength
<1>3. /\ query.pc = "asked" => Len(events) \in {0, 2}
      /\ query.pc = "generated" => Len(events) \in {1, 3}
  <2>1. query.attempt = 1 \/ query.attempt = 2
    BY DEF SqlInv, SqlTypes
  <2> QED
    BY <1>2, <2>1 DEF Before
<1>4. ASSUME NEW i \in 1..Len(events')
      PROVE  /\ events'[i].kind = IF i \in {1, 3} THEN "llm" ELSE "sql"
             /\ i \in {1, 3} =>
                  (events'[i].status = "success" <=>
                      i < Len(events') \/ query'.pc \in {"generated", "escaped"})
  <2>1. CASE i = Len(events) + 1
    BY <1>1, <1>3, <2>1
  <2>2. CASE i \in 1..Len(events)
    <3>1. /\ events[i].kind = IF i \in {1, 3} THEN "llm" ELSE "sql"
          /\ i \in {1, 3} =>
               (events[i].status = "success" <=> i < Len(events) \/ query.pc = "generated")
      BY <2>2 DEF SqlInv, TurnsTaken
    <3>2. i \in {1, 3} => i < Len(events) \/ query.pc = "generated"
      BY <1>3, <2>2
    <3> QED
      BY <1>1, <2>2, <3>1, <3>2
  <2>3. i = Len(events) + 1 \/ i \in 1..Len(events)
    BY <1>1
  <2> QED
    BY <2>1, <2>2, <2>3
<1> QED
  BY <1>1, <1>2, <1>4 DEF TurnsTaken

LEMMA GenerateFailsKeeps ==
    ASSUME SqlInv, GenerateFails
    PROVE  SqlInv'
<1>1. PICK error \in LLMFailures : Record([kind |-> "llm", status |-> "failed", what |-> error])
  BY DEF GenerateFails
<1> DEFINE e == [kind |-> "llm", status |-> "failed", what |-> error]
<1>2. /\ e \in Entry /\ e.kind = "llm" /\ e.status = "failed"
      /\ events' = Append(events, e)
  BY <1>1 DEF Entry, Record
<1> HIDE DEF e
<1>3. /\ query'.pc = "raised" /\ query'.attempt = query.attempt /\ query.attempt \in {1, 2}
      /\ prompt' = prompt /\ query.pc = "asked"
  BY DEF GenerateFails, SqlInv, SqlTypes
<1>4. /\ events' \in Seq(Entry) /\ Len(events') = Len(events) + 1
      /\ Len(events) = Before
      /\ \A i \in 1..Len(events) : events'[i] = events[i]
      /\ events'[Len(events')] = e /\ TurnsTaken'
  BY <1>2, <1>3, TraceGrows
<1>5. SqlTypes' /\ TraceLength'
  BY <1>3, <1>4 DEF SqlInv, SqlTypes, TraceLength, Before
<1>6. RepairTold'
  <2>1. query.attempt = 1 \/ query.attempt = 2
    BY <1>3
  <2> QED
    BY <1>2, <1>3, <1>4, <2>1 DEF SqlInv, RepairTold, Before
<1>7. PassedTraced' /\ QueryIsAllowed'
  BY <1>3 DEF PassedTraced, QueryIsAllowed
<1> QED
  BY <1>4, <1>5, <1>6, <1>7 DEF SqlInv

LEMMA GenerateKeeps ==
    ASSUME SqlInv, Generate
    PROVE  SqlInv'
<1> DEFINE e == [kind |-> "llm", status |-> "success", what |-> prompt]
<1>1. prompt \in Seq(Statement) /\ query.attempt \in {1, 2} /\ query.pc = "asked"
  BY DEF Generate, SqlInv, SqlTypes
<1>2. /\ e \in Entry /\ e.kind = "llm" /\ e.status = "success" /\ e.what = prompt
      /\ events' = Append(events, e)
  BY <1>1 DEF Generate, Entry, Record
<1> HIDE DEF e
<1>3. /\ query'.pc = "generated" /\ query'.attempt = query.attempt
      /\ query'.sql \in Statement /\ prompt' = prompt
  BY SqlAssumption DEF Generate
<1>4. /\ events' \in Seq(Entry) /\ Len(events') = Len(events) + 1
      /\ Len(events) = Before
      /\ \A i \in 1..Len(events) : events'[i] = events[i]
      /\ events'[Len(events')] = e /\ TurnsTaken'
  BY <1>1, <1>2, <1>3, TraceGrows
<1>5. SqlTypes' /\ TraceLength'
  BY <1>1, <1>3, <1>4 DEF SqlTypes, TraceLength, Before
<1>6. RepairTold'
  <2>1. query.attempt = 1 \/ query.attempt = 2
    BY <1>1
  <2> QED
    BY <1>2, <1>3, <1>4, <2>1 DEF SqlInv, RepairTold, Before
<1>7. PassedTraced' /\ QueryIsAllowed'
  BY <1>3 DEF PassedTraced, QueryIsAllowed
<1> QED
  BY <1>4, <1>5, <1>6, <1>7 DEF SqlInv

LEMMA AcceptSqlKeeps ==
    ASSUME SqlInv, AcceptSql
    PROVE  SqlInv'
<1> DEFINE g == ApplyLimit(query.sql)
           e == [kind |-> "sql", status |-> "success", what |-> ApplyLimit(query.sql)]
<1>1. /\ query.attempt \in {1, 2} /\ query.pc = "generated" /\ query.sql \in Statement
      /\ Verdict(query.sql) = "ALLOWED"
  BY DEF AcceptSql, SqlInv, SqlTypes
<1>2. /\ g \in Statement /\ g.limit \in 0..MaxRows /\ g.offset <= MaxOffset
      /\ \A t \in ToSet(g.tables) : t.name \in DOMAIN Columns
      /\ \A r \in UNION {Read(g, c) : c \in LookedUp(g)} : r[2] \in Columns[r[1]]
  BY <1>1, GuardedIsAllowed
<1>3. /\ e \in Entry /\ e.kind = "sql" /\ e.status = "success" /\ e.what = g
      /\ events' = Append(events, e)
  BY <1>2 DEF AcceptSql, Entry, Record
<1>4. /\ query'.pc = "guarded" /\ query'.attempt = query.attempt
      /\ query'.sql = g /\ prompt' = prompt
  BY DEF AcceptSql
<1> HIDE DEF e, g
<1>5. /\ events' \in Seq(Entry) /\ Len(events') = Len(events) + 1
      /\ Len(events) = Before + 1
      /\ \A i \in 1..Len(events) : events'[i] = events[i]
      /\ events'[Len(events')] = e /\ TurnsTaken'
  BY <1>1, <1>3, <1>4, TraceGrows
<1>6. SqlTypes' /\ TraceLength'
  BY <1>1, <1>2, <1>4, <1>5 DEF SqlInv, SqlTypes, TraceLength, Before
<1>7. RepairTold'
  <2>1. query.attempt = 1 \/ query.attempt = 2
    BY <1>1
  <2> QED
    BY <1>3, <1>4, <1>5, <2>1 DEF SqlInv, RepairTold, Before
<1>8. PassedTraced'
  BY <1>3, <1>4, <1>5 DEF PassedTraced
<1>9. QueryIsAllowed'
  BY <1>2, <1>4 DEF QueryIsAllowed
<1> QED
  BY <1>5, <1>6, <1>7, <1>8, <1>9 DEF SqlInv

LEMMA RefuseKeeps ==
    ASSUME SqlInv, Refuse
    PROVE  SqlInv'
<1> DEFINE e == [kind |-> "sql", status |-> "failed", what |-> query.sql]
<1>1. /\ query.attempt \in {1, 2} /\ query.pc = "generated" /\ query.sql \in Statement
  BY DEF Refuse, SqlInv, SqlTypes
<1>2. /\ e \in Entry /\ e.kind = "sql" /\ e.status = "failed" /\ e.what = query.sql
      /\ events' = Append(events, e)
  BY <1>1 DEF Refuse, Entry, Record
<1> HIDE DEF e
<1>3. CASE query.attempt = 1
  <2>1. prompt = <<>>
    BY <1>3 DEF SqlInv, RepairTold
  <2>2. /\ query'.pc = "asked" /\ query'.attempt = 2 /\ prompt' = <<query.sql>>
    BY <1>3, <2>1 DEF Refuse
  <2>3. /\ events' \in Seq(Entry) /\ Len(events) = 1 /\ Len(events') = 2
        /\ events'[2] = e /\ TurnsTaken'
    BY <1>1, <1>2, <1>3, <2>2, TraceGrows DEF Before
  <2>4. SqlTypes' /\ TraceLength'
    BY <1>1, <2>2, <2>3 DEF SqlTypes, TraceLength, Before
  <2>5. RepairTold'
    BY <1>2, <2>2, <2>3 DEF RepairTold
  <2>6. PassedTraced' /\ QueryIsAllowed'
    BY <2>2 DEF PassedTraced, QueryIsAllowed
  <2> QED
    BY <2>3, <2>4, <2>5, <2>6 DEF SqlInv
<1>4. CASE query.attempt = 2
  <2>1. /\ query'.pc = "raised" /\ query'.attempt = 2 /\ prompt' = prompt
    BY <1>4 DEF Refuse
  <2>2. /\ events' \in Seq(Entry) /\ Len(events) = 3 /\ Len(events') = 4
        /\ \A i \in 1..3 : events'[i] = events[i]
        /\ TurnsTaken'
    BY <1>1, <1>2, <1>4, <2>1, TraceGrows DEF Before
  <2>3. SqlTypes' /\ TraceLength'
    BY <2>1, <2>2 DEF SqlInv, SqlTypes, TraceLength, Before
  <2>4. RepairTold'
    BY <1>4, <2>1, <2>2 DEF SqlInv, RepairTold
  <2>5. PassedTraced' /\ QueryIsAllowed'
    BY <2>1 DEF PassedTraced, QueryIsAllowed
  <2> QED
    BY <2>2, <2>3, <2>4, <2>5 DEF SqlInv
<1> QED
  BY <1>1, <1>3, <1>4

LEMMA GuardRaisesKeeps ==
    ASSUME SqlInv, GuardRaises
    PROVE  SqlInv'
<1>1. /\ query.pc = "generated" /\ query'.pc = "escaped" /\ query'.attempt = query.attempt
      /\ prompt' = prompt /\ events' = events
  BY DEF GuardRaises
<1>2. SqlTypes' /\ TraceLength' /\ TurnsTaken'
  BY <1>1 DEF SqlInv, SqlTypes, TraceLength, TurnsTaken, Before
<1>3. RepairTold' /\ PassedTraced' /\ QueryIsAllowed'
  BY <1>1 DEF SqlInv, RepairTold, PassedTraced, QueryIsAllowed
<1> QED
  BY <1>2, <1>3 DEF SqlInv

LEMMA ExecuteSqlKeeps ==
    ASSUME SqlInv, ExecuteSql
    PROVE  SqlInv'
<1>1. /\ query.pc = "guarded" /\ query'.pc \in {"answered", "raised"}
      /\ query'.attempt = query.attempt /\ query'.sql = query.sql
      /\ prompt' = prompt /\ events' = events
  BY DEF ExecuteSql
<1>2. SqlTypes' /\ TraceLength'
  <2>1. SqlTypes'
    BY <1>1 DEF SqlInv, SqlTypes
  <2>2. Len(events) = Before + 2 /\ query.attempt \in {1, 2}
    BY <1>1 DEF SqlInv, SqlTypes, TraceLength, Before
  <2>3. TraceLength'
    BY <1>1, <2>2 DEF TraceLength, Before
  <2> QED
    BY <2>1, <2>3
<1>3. TurnsTaken' /\ RepairTold'
  BY <1>1 DEF SqlInv, TurnsTaken, RepairTold
<1>4. PassedTraced' /\ QueryIsAllowed'
  BY <1>1 DEF SqlInv, PassedTraced, QueryIsAllowed
<1> QED
  BY <1>2, <1>3, <1>4 DEF SqlInv

LEMMA SqlStuttersKeeps ==
    ASSUME SqlInv, UNCHANGED sqlVars
    PROVE  SqlInv'
<1>1. query' = query /\ prompt' = prompt /\ events' = events
  BY DEF sqlVars
<1> QED
  BY <1>1 DEF SqlInv, SqlTypes, TraceLength, Before, TurnsTaken, RepairTold, PassedTraced, QueryIsAllowed

LEMMA SqlStepKeeps ==
    ASSUME SqlInv, [SqlNext]_sqlVars
    PROVE  SqlInv'
  BY GenerateFailsKeeps, GenerateKeeps, AcceptSqlKeeps, RefuseKeeps, GuardRaisesKeeps, ExecuteSqlKeeps,
     SqlStuttersKeeps DEF SqlNext

LEMMA SqlInvGuards == ASSUME SqlInv PROVE QueryIsGuarded
<1>1. SUFFICES ASSUME query.pc \in {"answered", "raised", "escaped"}
               PROVE  QueryIsTraced
  BY DEF SqlInv, QueryIsGuarded, QueryIsTraced
<1>2. query.attempt = 1 \/ query.attempt = 2
  BY DEF SqlInv, SqlTypes
<1>3. Len(events) \in 1..4 /\ (Len(events) > 2 => query.attempt = 2)
  <2>1. Before \in {0, 2} /\ (Before = 2 => query.attempt = 2)
    BY <1>2 DEF Before
  <2>2. Len(events) \in {Before + 1, Before + 2}
    BY <1>1 DEF SqlInv, TraceLength
  <2>3. CASE Before = 0
    <3>1. Len(events) = 1 \/ Len(events) = 2
      BY <2>2, <2>3
    <3>2. CASE Len(events) = 1
      BY <3>2
    <3>3. CASE Len(events) = 2
      BY <3>3
    <3> QED
      BY <3>1, <3>2, <3>3
  <2>4. CASE Before = 2
    <3>1. Len(events) = 3 \/ Len(events) = 4
      BY <2>2, <2>4
    <3> QED
      BY <2>1, <2>4, <3>1
  <2> QED
    BY <2>1, <2>3, <2>4
<1>4. \A i \in 1..Len(events) :
        /\ events[i].kind = IF i \in {1, 3} THEN "llm" ELSE "sql"
        /\ i \in {1, 3} => (events[i].status = "success" <=> i < Len(events) \/ query.pc = "escaped")
  BY <1>1 DEF SqlInv, TurnsTaken
<1>5. Len(events) > 2 =>
        /\ events[2].status = "failed"
        /\ events[3].status = "success" => events[3].what = <<events[2].what>>
  BY <1>3 DEF SqlInv, RepairTold
<1>6. query.pc = "answered" =>
        LET last == events[Len(events)] IN
        last.kind = "sql" /\ last.status = "success" /\ last.what = query.sql
  BY DEF SqlInv, PassedTraced
<1>7. query.pc = "escaped" => Len(events) \in {1, 3}
  BY <1>2 DEF SqlInv, TraceLength, Before
<1> QED
  BY <1>3, <1>4, <1>5, <1>6, <1>7 DEF QueryIsTraced

(* Whatever the model answers, what reaches the database has passed the    *)
(* guard: it names allowed tables, the columns that sql_guard.py looks up  *)
(* are allowed ones under the database's own rules for names, and it asks  *)
(* for a bounded number of rows; and when the question ends its trace      *)
(* holds at most two generations, the second one told of the refusal of    *)
(* the first, each with its verdict unless the guard's parser failed.      *)
THEOREM QueryGuarded == SqlSpec => []QueryIsGuarded
<1>1. SqlInit => SqlInv
  BY SqlBegins
<1>2. SqlInv /\ [SqlNext]_sqlVars => SqlInv'
  BY SqlStepKeeps
<1>3. SqlInv => QueryIsGuarded
  BY SqlInvGuards
<1> QED
  BY <1>1, <1>2, <1>3, PTL DEF SqlSpec

-----------------------------------------------------------------------------
(* Knowledge *)

(* The time stamp of the latest update, as the version has it. *)
Latest(docs) == IF docs = {} THEN 0 ELSE Max({d.at : d \in docs})

Stamped(docs, now) == \A d \in docs : d.at \in 1..now

(* What searches hold of the corpus: snapshots, and the cached index. *)
Held == {searcher[s].docs : s \in {s \in Searchers : searcher[s].pc = "versioned"}}
        \cup (IF cache = NoIndex THEN {} ELSE {cache.docs})

Flushed(i) == importer[i].pc = "flushed"

RowFields == {"id", "owner", "source", "title", "content", "at"}

TablesOK ==
    /\ clock \in Nat /\ late \in BOOLEAN
    /\ DOMAIN importer = Importers /\ DOMAIN searcher = Searchers
    /\ \A r \in rows : DOMAIN r = RowFields
    /\ Stamped(rows, clock)

(* Every flush has a time of its own. *)
FlushesApart ==
    \A i \in Importers : Flushed(i) =>
        /\ importer[i].at \in 1..clock
        /\ \A r \in rows : r.at # importer[i].at
        /\ \A j \in Importers : Flushed(j) /\ j # i => importer[j].at # importer[i].at

(* As long as no import commits late, the latest update tells the states   *)
(* of the corpus apart, and the current one is the latest of all.          *)
StatesApart ==
    /\ \A docs \in Held : Stamped(docs, clock)
    /\ ~late => \A docs \in Held : Latest(docs) <= Latest(Documents)
    /\ ~late => \A docs, others \in Held \cup {Documents} :
                   Latest(docs) = Latest(others) => docs = others

VersionIsOwn == cache # NoIndex => cache.version = Version(cache.docs)

KnowledgeInv == TablesOK /\ FlushesApart /\ StatesApart /\ VersionIsOwn /\ SearchIsCurrent

LEMMA LatestIsMax ==
    ASSUME NEW now \in Nat, NEW docs, Stamped(docs, now)
    PROVE  /\ Latest(docs) \in 0..now
           /\ \A d \in docs : d.at <= Latest(docs)
           /\ docs # {} => \E d \in docs : d.at = Latest(docs)
<1> DEFINE ats == {d.at : d \in docs}
<1>1. CASE docs = {}
  BY <1>1 DEF Latest
<1>2. CASE docs # {}
  <2>1. ats \subseteq 0..now /\ ats # {}
    BY <1>2 DEF Stamped
  <2>2. \E x \in ats : \A y \in ats : x >= y
    BY <2>1, GreatestExists
  <2>3. Max(ats) \in ats /\ \A y \in ats : Max(ats) >= y
    BY <2>2 DEF Max
  <2>4. Latest(docs) = Max(ats)
    BY <1>2 DEF Latest
  <2>5. PICK d \in docs : d.at = Latest(docs)
    BY <2>3, <2>4
  <2>6. \A e \in docs : e.at \in 1..now /\ Latest(docs) >= e.at
    BY <2>3, <2>4 DEF Stamped
  <2> QED
    BY <2>5, <2>6
<1> QED
  BY <1>1, <1>2

LEMMA VersionTellsLatest ==
    ASSUME NEW docs, NEW others, Version(docs) = Version(others)
    PROVE  Latest(docs) = Latest(others)
  BY DEF Version, Latest

LEMMA KnowledgeBegins == KnowledgeInit => KnowledgeInv
<1> SUFFICES ASSUME KnowledgeInit
             PROVE  KnowledgeInv
  OBVIOUS
<1>1. TablesOK
  BY DEF KnowledgeInit, TablesOK, Stamped
<1>2. FlushesApart
  BY DEF KnowledgeInit, FlushesApart, Flushed, Closed
<1>3. Held = {}
  BY DEF KnowledgeInit, Held
<1>4. StatesApart
  BY <1>3 DEF StatesApart
<1>5. VersionIsOwn /\ SearchIsCurrent
  BY DEF KnowledgeInit, VersionIsOwn, SearchIsCurrent
<1> QED
  BY <1>1, <1>2, <1>4, <1>5 DEF KnowledgeInv

(* As long as the corpus stays, only a snapshot of it can be new.          *)
LEMMA CorpusStays ==
    ASSUME KnowledgeInv, rows' = rows, late' = late, clock' \in Nat, clock' >= clock,
           Held' \subseteq Held \cup {Documents}
    PROVE  StatesApart'
<1>1. Documents' = Documents
  BY DEF Documents
<1>2. /\ clock \in Nat /\ Stamped(Documents, clock)
      /\ \A docs \in Held : Stamped(docs, clock)
  BY DEF KnowledgeInv, TablesOK, Stamped, StatesApart, Documents
<1>3. \A docs : Stamped(docs, clock) => Stamped(docs, clock')
  BY <1>2 DEF Stamped
<1>4. \A docs \in Held' : Stamped(docs, clock')
  BY <1>2, <1>3
<1>5. Latest(Documents) \in Int
  BY <1>2, LatestIsMax
<1>6. ~late => /\ \A docs \in Held : Latest(docs) <= Latest(Documents)
               /\ \A docs, others \in Held \cup {Documents} :
                    Latest(docs) = Latest(others) => docs = others
  BY DEF KnowledgeInv, StatesApart
<1>7. ~late => \A docs \in Held' : Latest(docs) <= Latest(Documents)
  BY <1>5, <1>6
<1>8. ~late => \A docs, others \in Held' \cup {Documents} :
                 Latest(docs) = Latest(others) => docs = others
  BY <1>6
<1> QED
  BY <1>1, <1>4, <1>7, <1>8 DEF StatesApart

LEMMA BeginImportKeeps ==
    ASSUME KnowledgeInv, NEW i \in Importers, BeginImport(i)
    PROVE  KnowledgeInv'
<1>1. /\ rows' = rows /\ clock' = clock /\ late' = late
      /\ searcher' = searcher /\ cache' = cache
      /\ DOMAIN importer' = DOMAIN importer /\ importer'[i].pc = "read"
      /\ \A j \in Importers \ {i} : importer'[j] = importer[j]
  BY DEF BeginImport, KnowledgeInv, TablesOK
<1>2. TablesOK'
  BY <1>1 DEF KnowledgeInv, TablesOK
<1>3. FlushesApart'
  BY <1>1 DEF KnowledgeInv, FlushesApart, Flushed
<1>4. Held' = Held
  BY <1>1 DEF Held
<1>5. StatesApart'
  BY <1>1, <1>4, CorpusStays DEF KnowledgeInv, TablesOK
<1>6. VersionIsOwn' /\ SearchIsCurrent'
  BY <1>1 DEF KnowledgeInv, VersionIsOwn, SearchIsCurrent
<1> QED
  BY <1>2, <1>3, <1>5, <1>6 DEF KnowledgeInv

LEMMA RollBackImportKeeps ==
    ASSUME KnowledgeInv, NEW i \in Importers, RollBackImport(i)
    PROVE  KnowledgeInv'
<1>1. /\ rows' = rows /\ clock' = clock /\ late' = late
      /\ searcher' = searcher /\ cache' = cache
      /\ DOMAIN importer' = DOMAIN importer /\ importer'[i].pc = "idle"
      /\ \A j \in Importers \ {i} : importer'[j] = importer[j]
  BY DEF RollBackImport, KnowledgeInv, TablesOK, Closed
<1>2. TablesOK'
  BY <1>1 DEF KnowledgeInv, TablesOK
<1>3. FlushesApart'
  BY <1>1 DEF KnowledgeInv, FlushesApart, Flushed
<1>4. Held' = Held
  BY <1>1 DEF Held
<1>5. StatesApart'
  BY <1>1, <1>4, CorpusStays DEF KnowledgeInv, TablesOK
<1>6. VersionIsOwn' /\ SearchIsCurrent'
  BY <1>1 DEF KnowledgeInv, VersionIsOwn, SearchIsCurrent
<1> QED
  BY <1>2, <1>3, <1>5, <1>6 DEF KnowledgeInv

LEMMA FlushImportKeeps ==
    ASSUME KnowledgeInv, NEW i \in Importers, FlushImport(i)
    PROVE  KnowledgeInv'
<1>1. /\ rows' = rows /\ clock' = clock + 1 /\ late' = late
      /\ searcher' = searcher /\ cache' = cache
      /\ DOMAIN importer' = DOMAIN importer
      /\ importer'[i].pc = "flushed" /\ importer'[i].at = clock + 1
      /\ \A j \in Importers \ {i} : importer'[j] = importer[j]
  BY DEF FlushImport, KnowledgeInv, TablesOK
<1>2. clock \in Nat /\ \A r \in rows : r.at \in 1..clock
  BY DEF KnowledgeInv, TablesOK, Stamped
<1>3. TablesOK'
  BY <1>1, <1>2 DEF KnowledgeInv, TablesOK, Stamped
<1>4. \A j \in Importers : Flushed(j) => importer[j].at \in 1..clock
  BY DEF KnowledgeInv, FlushesApart
<1>5. FlushesApart'
  BY <1>1, <1>2, <1>4 DEF KnowledgeInv, FlushesApart, Flushed
<1>6. Held' = Held
  BY <1>1 DEF Held
<1>7. StatesApart'
  BY <1>1, <1>2, <1>6, CorpusStays
<1>8. VersionIsOwn' /\ SearchIsCurrent'
  BY <1>1 DEF KnowledgeInv, VersionIsOwn, SearchIsCurrent
<1> QED
  BY <1>3, <1>5, <1>7, <1>8 DEF KnowledgeInv

LEMMA SearchTeamKeeps ==
    ASSUME KnowledgeInv, NEW s \in Searchers, SearchTeam(s)
    PROVE  KnowledgeInv'
<1>1. /\ rows' = rows /\ clock' = clock /\ late' = late
      /\ importer' = importer /\ cache' = cache
      /\ DOMAIN searcher' = DOMAIN searcher /\ searcher'[s].pc = "answered"
      /\ searcher'[s].result = Result(searcher'[s].docs)
      /\ \A t \in Searchers \ {s} : searcher'[t] = searcher[t]
  BY DEF SearchTeam, KnowledgeInv, TablesOK
<1>2. TablesOK'
  BY <1>1 DEF KnowledgeInv, TablesOK
<1>3. FlushesApart' /\ VersionIsOwn'
  BY <1>1 DEF KnowledgeInv, FlushesApart, Flushed, VersionIsOwn
<1>4. Held' \subseteq Held
  BY <1>1 DEF Held
<1>5. StatesApart'
  BY <1>1, <1>4, CorpusStays DEF KnowledgeInv, TablesOK
<1>6. SearchIsCurrent'
  BY <1>1 DEF KnowledgeInv, SearchIsCurrent
<1> QED
  BY <1>2, <1>3, <1>5, <1>6 DEF KnowledgeInv

LEMMA ReadVersionKeeps ==
    ASSUME KnowledgeInv, NEW s \in Searchers, ReadVersion(s)
    PROVE  KnowledgeInv'
<1>1. /\ rows' = rows /\ clock' = clock /\ late' = late
      /\ importer' = importer /\ cache' = cache
      /\ DOMAIN searcher' = DOMAIN searcher
      /\ searcher'[s].pc = "versioned" /\ searcher'[s].docs = Documents
      /\ \A t \in Searchers \ {s} : searcher'[t] = searcher[t]
  BY DEF ReadVersion, KnowledgeInv, TablesOK
<1>2. TablesOK'
  BY <1>1 DEF KnowledgeInv, TablesOK
<1>3. FlushesApart' /\ VersionIsOwn'
  BY <1>1 DEF KnowledgeInv, FlushesApart, Flushed, VersionIsOwn
<1>4. Held' \subseteq Held \cup {Documents}
  BY <1>1 DEF Held
<1>5. StatesApart'
  BY <1>1, <1>4, CorpusStays DEF KnowledgeInv, TablesOK
<1>6. SearchIsCurrent'
  BY <1>1 DEF KnowledgeInv, SearchIsCurrent
<1> QED
  BY <1>2, <1>3, <1>5, <1>6 DEF KnowledgeInv

LEMMA SearchIndexKeeps ==
    ASSUME KnowledgeInv, NEW s \in Searchers, SearchIndex(s)
    PROVE  KnowledgeInv'
<1> DEFINE docs == searcher[s].docs
           hit == cache.version = Version(docs) /\ cache # NoIndex
           index == IF hit THEN cache.docs ELSE docs
<1>1. /\ rows' = rows /\ clock' = clock /\ late' = late
      /\ importer' = importer
      /\ cache' = IF hit THEN cache ELSE [version |-> Version(docs), docs |-> docs]
      /\ DOMAIN searcher' = DOMAIN searcher
      /\ searcher[s].pc = "versioned" /\ searcher'[s].pc = "answered"
      /\ searcher'[s].docs = docs /\ searcher'[s].result = Result(index)
      /\ \A t \in Searchers \ {s} : searcher'[t] = searcher[t]
  BY DEF SearchIndex, KnowledgeInv, TablesOK
<1>2. docs \in Held
  BY <1>1 DEF Held
<1>3. hit => cache.docs \in Held /\ Version(cache.docs) = Version(docs)
  BY DEF Held, KnowledgeInv, VersionIsOwn
<1>4. hit /\ ~late => cache.docs = docs
  BY <1>2, <1>3, VersionTellsLatest DEF KnowledgeInv, StatesApart
<1>5. TablesOK'
  BY <1>1 DEF KnowledgeInv, TablesOK
<1>6. FlushesApart'
  BY <1>1 DEF KnowledgeInv, FlushesApart, Flushed
<1>7. VersionIsOwn'
  <2>1. CASE hit
    BY <1>1, <2>1 DEF KnowledgeInv, VersionIsOwn
  <2>2. CASE ~hit
    BY <1>1, <2>2 DEF VersionIsOwn
  <2> QED
    BY <2>1, <2>2
<1>8. Held' \subseteq Held
  <2>1. {searcher'[t].docs : t \in {t \in Searchers : searcher'[t].pc = "versioned"}} \subseteq Held
    BY <1>1 DEF Held
  <2>2. cache' # NoIndex => cache'.docs \in Held
    BY <1>1, <1>2, <1>3
  <2> QED
    BY <2>1, <2>2 DEF Held
<1>9. StatesApart'
  BY <1>1, <1>8, CorpusStays DEF KnowledgeInv, TablesOK
<1>10. SearchIsCurrent'
  BY <1>1, <1>4 DEF KnowledgeInv, SearchIsCurrent
<1> QED
  BY <1>5, <1>6, <1>7, <1>9, <1>10 DEF KnowledgeInv

(* A row that a commit writes: an update keeps its owner and takes the     *)
(* import's time stamp.                                                    *)
LEMMA RewrittenRow ==
    ASSUME NEW i, NEW r, DOMAIN r = RowFields
    PROVE  /\ DOMAIN Rewritten(i, r) = RowFields
           /\ Rewritten(i, r).id = r.id /\ Rewritten(i, r).source = r.source
           /\ Rewritten(i, r).owner = r.owner /\ Rewritten(i, r).at = importer[i].at
  BY DEF Rewritten, RowFields

NewRows(i) == {NewRow(i, k) : k \in Created(i)}

(* After a commit every row is an old one or bears the import's stamp; if  *)
(* the corpus changed, one of its documents bears it.                      *)
LEMMA CommitStamps ==
    ASSUME KnowledgeInv, NEW i \in Importers, CommitImport(i)
    PROVE  /\ \A r \in rows' : DOMAIN r = RowFields
           /\ \A r \in rows' : r \in rows \/ r.at = importer[i].at
           /\ Documents' = Documents \/ \E d \in Documents' : d.at = importer[i].at
<1>1. rows' = {IF r.id \in Locked(i) THEN Rewritten(i, r) ELSE r : r \in rows} \cup NewRows(i)
  BY DEF CommitImport, NewRows
<1>2. \A r \in rows : DOMAIN r = RowFields
  BY DEF KnowledgeInv, TablesOK
<1>3. \A r \in NewRows(i) : DOMAIN r = RowFields /\ r.at = importer[i].at
  <2>1. ASSUME NEW k PROVE DOMAIN NewRow(i, k) = RowFields /\ NewRow(i, k).at = importer[i].at
    BY DEF NewRow, RowFields
  <2> QED
    BY <2>1 DEF NewRows
<1>4. \A r \in rows : LET q == Rewritten(i, r) IN
        DOMAIN q = RowFields /\ q.owner = r.owner /\ q.at = importer[i].at
  BY <1>2, RewrittenRow
<1>5. (\A r \in rows' : DOMAIN r = RowFields)
      /\ \A r \in rows' : r \in rows \/ r.at = importer[i].at
  BY <1>1, <1>2, <1>3, <1>4
<1>6. CASE \E d \in Documents' : d.at = importer[i].at
  BY <1>5, <1>6
<1>7. CASE ~ \E d \in Documents' : d.at = importer[i].at
  <2>1. \A r \in rows : r.owner # LogTable => r.id \notin Locked(i)
    BY <1>1, <1>4, <1>7 DEF Documents
  <2>2. \A d \in Documents : d \in Documents'
    BY <1>1, <2>1 DEF Documents
  <2>3. ASSUME NEW d \in Documents'
        PROVE  d \in Documents
    <3>1. d \in rows' /\ d.owner # LogTable /\ d.at # importer[i].at
      BY <1>7 DEF Documents
    <3>2. d \in rows
      BY <1>5, <3>1
    <3> QED
      BY <3>1, <3>2 DEF Documents
  <2> QED
    BY <1>5, <2>2, <2>3
<1> QED
  BY <1>6, <1>7

LEMMA CommitImportKeeps ==
    ASSUME KnowledgeInv, NEW i \in Importers, CommitImport(i)
    PROVE  KnowledgeInv'
<1> DEFINE at == importer[i].at
<1>1. /\ clock' = clock /\ searcher' = searcher /\ cache' = cache
      /\ late' = (late \/ \E r \in rows : r.at > at)
      /\ Flushed(i) /\ DOMAIN importer' = DOMAIN importer /\ importer'[i].pc = "idle"
      /\ \A j \in Importers \ {i} : importer'[j] = importer[j]
  BY DEF CommitImport, KnowledgeInv, TablesOK, Closed, Flushed
<1>2. /\ \A r \in rows' : DOMAIN r = RowFields
      /\ \A r \in rows' : r \in rows \/ r.at = at
      /\ Documents' = Documents \/ \E d \in Documents' : d.at = at
  BY CommitStamps
<1>3. /\ clock \in Nat /\ at \in 1..clock
      /\ \A r \in rows : r.at \in 1..clock /\ r.at # at
  BY <1>1 DEF KnowledgeInv, TablesOK, Stamped, FlushesApart
<1>4. Stamped(rows', clock)
  BY <1>2, <1>3 DEF Stamped
<1>5. TablesOK'
  BY <1>1, <1>2, <1>4 DEF KnowledgeInv, TablesOK
<1>6. FlushesApart'
  <2> SUFFICES ASSUME NEW j \in Importers, Flushed(j)'
               PROVE  /\ importer'[j].at \in 1..clock'
                      /\ \A r \in rows' : r.at # importer'[j].at
                      /\ \A k \in Importers : Flushed(k)' /\ k # j => importer'[k].at # importer'[j].at
    BY DEF FlushesApart
  <2>1. j # i /\ Flushed(j) /\ importer'[j] = importer[j]
    BY <1>1 DEF Flushed
  <2>2. /\ importer[j].at \in 1..clock /\ importer[j].at # at
        /\ \A r \in rows : r.at # importer[j].at
        /\ \A k \in Importers : Flushed(k) /\ k # j => importer[k].at # importer[j].at
    BY <1>1, <2>1 DEF KnowledgeInv, FlushesApart
  <2>3. \A k \in Importers : Flushed(k)' => Flushed(k) /\ importer'[k] = importer[k]
    BY <1>1 DEF Flushed
  <2> QED
    BY <1>1, <1>2, <2>1, <2>2, <2>3
<1>7. Held' = Held
  BY <1>1 DEF Held
<1>8. StatesApart'
  <2>1. \A docs \in Held : Stamped(docs, clock)
    BY DEF KnowledgeInv, StatesApart
  <2>2. CASE late'
    BY <1>1, <1>7, <2>1, <2>2 DEF StatesApart
  <2>3. CASE ~late' /\ Documents' = Documents
    BY <1>1, <1>7, <2>3 DEF KnowledgeInv, StatesApart
  <2>4. CASE ~late' /\ \E d \in Documents' : d.at = at
    <3>1. ~late /\ \A r \in rows : r.at < at
      <4>1. ~late /\ \A r \in rows : ~ (r.at > at)
        BY <1>1, <2>4, Zenon
      <4> QED
        BY <1>3, <4>1
    <3>2. /\ Stamped(Documents, clock) /\ Stamped(Documents', clock)
          /\ (\A d \in Documents : d.at < at) /\ \A d \in Documents' : d.at <= at
      BY <1>2, <1>3, <1>4, <3>1 DEF Stamped, Documents
    <3>3. /\ Latest(Documents) \in 0..clock
          /\ Documents # {} => \E d \in Documents : d.at = Latest(Documents)
      BY <1>3, <3>2, LatestIsMax
    <3>4. /\ Latest(Documents') \in 0..clock
          /\ \A d \in Documents' : d.at <= Latest(Documents')
          /\ Documents' # {} => \E d \in Documents' : d.at = Latest(Documents')
      BY <1>3, <3>2, LatestIsMax
    <3>5. Latest(Documents') = at
      BY <1>3, <2>4, <3>2, <3>4
    <3>6. Latest(Documents) < at
      BY <1>3, <3>2, <3>3 DEF Latest
    <3>7. \A docs \in Held : Latest(docs) \in 0..clock /\ Latest(docs) <= Latest(Documents)
      BY <1>3, <2>1, <3>1, LatestIsMax DEF KnowledgeInv, StatesApart
    <3>8. \A docs \in Held : Latest(docs) < Latest(Documents')
      BY <1>3, <3>3, <3>5, <3>6, <3>7
    <3>9. \A docs \in Held' : Latest(docs) <= Latest(Documents')
      BY <1>7, <3>4, <3>7, <3>8
    <3>10. \A docs, others \in Held' \cup {Documents'} :
             Latest(docs) = Latest(others) => docs = others
      BY <1>7, <3>1, <3>4, <3>7, <3>8 DEF KnowledgeInv, StatesApart
    <3> QED
      BY <1>1, <1>7, <2>1, <3>9, <3>10 DEF StatesApart
  <2> QED
    BY <1>2, <2>2, <2>3, <2>4
<1>9. VersionIsOwn' /\ SearchIsCurrent'
  BY <1>1 DEF KnowledgeInv, VersionIsOwn, SearchIsCurrent
<1> QED
  BY <1>5, <1>6, <1>8, <1>9 DEF KnowledgeInv

LEMMA KnowledgeStuttersKeeps ==
    ASSUME KnowledgeInv, UNCHANGED knowledgeVars
    PROVE  KnowledgeInv'
<1>1. /\ rows' = rows /\ clock' = clock /\ late' = late
      /\ importer' = importer /\ searcher' = searcher /\ cache' = cache
  BY DEF knowledgeVars
<1>2. TablesOK' /\ FlushesApart'
  BY <1>1 DEF KnowledgeInv, TablesOK, FlushesApart, Flushed
<1>3. Held' = Held
  BY <1>1 DEF Held
<1>4. StatesApart'
  BY <1>1, <1>3, CorpusStays DEF KnowledgeInv, TablesOK
<1>5. VersionIsOwn' /\ SearchIsCurrent'
  BY <1>1 DEF KnowledgeInv, VersionIsOwn, SearchIsCurrent
<1> QED
  BY <1>2, <1>4, <1>5 DEF KnowledgeInv

LEMMA KnowledgeStepKeeps ==
    ASSUME KnowledgeInv, [KnowledgeNext]_knowledgeVars
    PROVE  KnowledgeInv'
  BY BeginImportKeeps, FlushImportKeeps, CommitImportKeeps, RollBackImportKeeps, SearchTeamKeeps,
     ReadVersionKeeps, SearchIndexKeeps, KnowledgeStuttersKeeps DEF KnowledgeNext

(* Whatever is imported while searches are under way, a search answers     *)
(* from the corpus of its own snapshot, over the cached index or a new     *)
(* one, as long as no import commits behind a later one.                   *)
THEOREM SearchCurrent == KnowledgeSpec => []SearchIsCurrent
<1>1. KnowledgeInit => KnowledgeInv
  BY KnowledgeBegins
<1>2. KnowledgeInv /\ [KnowledgeNext]_knowledgeVars => KnowledgeInv'
  BY KnowledgeStepKeeps
<1>3. KnowledgeInv => SearchIsCurrent
  BY DEF KnowledgeInv
<1> QED
  BY <1>1, <1>2, <1>3, PTL DEF KnowledgeSpec

-----------------------------------------------------------------------------
(* What the imports know of the tables *)

Importings == {i \in Importers : Importing(i)}
ItemsOf(i) == importer[i].items
Sources(i) == {ItemsOf(i)[k].source : k \in DOMAIN ItemsOf(i)}
RowsOf(owner, source) == {r \in rows : r.owner = owner /\ r.source = source}

(* The ids that are a flushed import's own. *)
OwnIds(i) == importer[i].firstId .. (importer[i].firstId + Cardinality(Created(i)) - 1)

KnownIds == {r.id : r \in rows} \cup UNION {{q.id : q \in importer[i].seen} : i \in Importings}

ImportTypeOK ==
    /\ DOMAIN importer = Importers /\ lastId \in Nat
    /\ \A r \in rows : DOMAIN r = RowFields
    /\ \A i \in Importings : importer[i].pc \in {"read", "flushed"} /\ ItemsOf(i) \in Payloads

(* No id is given out twice. *)
IdsOK ==
    /\ \A r, q \in rows : r.id = q.id => r = q
    /\ \A id \in KnownIds : id \in 1..lastId
    /\ \A i \in Importers : Flushed(i) =>
         /\ importer[i].firstId \in Nat \ {0}
         /\ OwnIds(i) \subseteq 1..lastId /\ OwnIds(i) \cap KnownIds = {}
         /\ \A j \in Importers : Flushed(j) /\ j # i => OwnIds(i) \cap OwnIds(j) = {}

(* What an import has seen are rows of its own sources, one of each, and   *)
(* they do not come to belong to others.                                   *)
SeenOK ==
    \A i \in Importings : \A q \in importer[i].seen :
        /\ q.owner = importer[i].owner /\ q.source \in Sources(i)
        /\ \A p \in importer[i].seen : p.source = q.source => p = q
        /\ \A r \in rows : r.id = q.id => r.owner = q.owner /\ r.source = q.source

(* Where no two imports met, a source has one row at most, and the import  *)
(* that is open for it sees it as it is.                                   *)
UnracedOK ==
    \A owner, source : <<owner, source>> \notin raced =>
        /\ \A r, q \in RowsOf(owner, source) : r = q
        /\ \A i \in Importings : importer[i].owner = owner /\ source \in Sources(i) =>
             /\ SeenOf(i, source) = RowsOf(owner, source)
             /\ \A j \in Importings \ {i} :
                  ~ (importer[j].owner = owner /\ source \in Sources(j))

ImportInv == ImportTypeOK /\ IdsOK /\ SeenOK /\ UnracedOK

-----------------------------------------------------------------------------
LEMMA ItemsAreSequence ==
    ASSUME NEW items \in Payloads
    PROVE  Len(items) \in Nat /\ DOMAIN items = 1..Len(items)
<1>1. items \in Seq(ToSet(items))
  BY KnowledgeAssumption
<1> QED
  BY <1>1

(* Every source of a batch has a first item, and only one. *)
LEMMA FirstOfSource ==
    ASSUME NEW items \in Payloads
    PROVE  /\ \A j, k \in UniqueItems(items) : items[j].source = items[k].source => j = k
           /\ \A n \in DOMAIN items : \E k \in UniqueItems(items) : items[k].source = items[n].source
           /\ UniqueItems(items) \subseteq DOMAIN items /\ UniqueItems(items) \subseteq Nat
           /\ IsFiniteSet(UniqueItems(items))
<1>1. Len(items) \in Nat /\ DOMAIN items = 1..Len(items)
  BY ItemsAreSequence
<1>2. ASSUME NEW j \in UniqueItems(items), NEW k \in UniqueItems(items),
             items[j].source = items[k].source
      PROVE  j = k
  <2>1. /\ j \in 1..Len(items) /\ k \in 1..Len(items)
        /\ \A l \in 1..(k - 1) : items[l].source # items[k].source
        /\ \A l \in 1..(j - 1) : items[l].source # items[j].source
    BY <1>1 DEF UniqueItems
  <2>2. ~ (j \in 1..(k - 1)) /\ ~ (k \in 1..(j - 1))
    BY <1>2, <2>1
  <2> QED
    BY <1>1, <2>1, <2>2
<1>3. ASSUME NEW n \in DOMAIN items
      PROVE  \E k \in UniqueItems(items) : items[k].source = items[n].source
  <2> DEFINE T == {k \in DOMAIN items : items[k].source = items[n].source}
  <2>1. T \subseteq Nat /\ T # {}
    BY <1>1
  <2>2. PICK k \in T : \A y \in T : k <= y
    BY <2>1, LeastExists
  <2>3. k \in DOMAIN items /\ items[k].source = items[n].source
    OBVIOUS
  <2>4. \A j \in 1..(k - 1) : j \notin T /\ j \in DOMAIN items
    BY <1>1, <2>2, <2>3
  <2> QED
    BY <2>3, <2>4 DEF UniqueItems
<1>4. UniqueItems(items) \subseteq 1..Len(items)
  BY <1>1 DEF UniqueItems
<1>5. IsFiniteSet(UniqueItems(items))
  <2>1. IsFiniteSet(1..Len(items))
    BY <1>1, FS_Interval
  <2> QED
    BY <1>4, <2>1, FS_Subset
<1> QED
  BY <1>1, <1>2, <1>3, <1>4, <1>5

(* Numbers that count what is below are different and less than the whole. *)
LEMMA RanksApart ==
    ASSUME NEW C, C \subseteq Nat, IsFiniteSet(C)
    PROVE  /\ Cardinality(C) \in Nat
           /\ \A k \in C : Cardinality({j \in C : j < k}) \in 0..(Cardinality(C) - 1)
           /\ \A k, l \in C : Cardinality({j \in C : j < k}) = Cardinality({j \in C : j < l}) => k = l
<1> DEFINE Below(k) == {j \in C : j < k}
<1>1. Cardinality(C) \in Nat
  BY FS_CardinalityType
<1>2. ASSUME NEW k \in C
      PROVE  IsFiniteSet(Below(k)) /\ Cardinality(Below(k)) \in 0..(Cardinality(C) - 1)
  <2>1. Below(k) \in SUBSET C /\ k \notin Below(k)
    OBVIOUS
  <2>2. IsFiniteSet(Below(k)) /\ Cardinality(Below(k)) <= Cardinality(C)
        /\ (Cardinality(C) = Cardinality(Below(k)) => C = Below(k))
    BY <2>1, FS_Subset
  <2>3. Cardinality(Below(k)) \in Nat
    BY <2>2, FS_CardinalityType
  <2>4. Cardinality(C) # Cardinality(Below(k))
    BY <2>1, <2>2
  <2> HIDE DEF Below
  <2> QED
    BY <1>1, <2>2, <2>3, <2>4
<1>3. ASSUME NEW k \in C, NEW l \in C, k < l PROVE Cardinality(Below(k)) < Cardinality(Below(l))
  <2>1. Below(k) \in SUBSET Below(l) /\ k \in Below(l) /\ k \notin Below(k)
    <3>1. k \in Int /\ l \in Int /\ \A j \in C : j \in Int
      OBVIOUS
    <3>2. \A j \in C : j < k => j < l
      BY <1>3, <3>1
    <3>3. k \in Below(l)
      BY <1>3
    <3>4. ~ (k < k)
      BY <3>1
    <3>5. k \notin Below(k)
      BY <3>4
    <3>6. Below(k) \subseteq Below(l)
      BY <3>2
    <3> QED
      BY <3>3, <3>5, <3>6
  <2>2. IsFiniteSet(Below(l)) /\ Cardinality(Below(l)) \in Int /\ Cardinality(Below(k)) \in Int
    <3> HIDE DEF Below
    <3>1. \A m \in 0..(Cardinality(C) - 1) : m \in Int
      OBVIOUS
    <3> QED
      BY <1>2, <3>1
  <2>3. /\ Cardinality(Below(k)) <= Cardinality(Below(l))
        /\ (Cardinality(Below(l)) = Cardinality(Below(k)) => Below(l) = Below(k))
    BY <2>1, <2>2, FS_Subset
  <2>4. Below(l) # Below(k)
    BY <2>1
  <2> HIDE DEF Below
  <2> QED
    BY <2>2, <2>3, <2>4
<1>4. ASSUME NEW k \in C, NEW l \in C, Cardinality(Below(k)) = Cardinality(Below(l)) PROVE k = l
  <2>1. Cardinality(Below(k)) \in Int /\ Cardinality(Below(l)) \in Int
    BY <1>1, <1>2
  <2>2. ~ (k < l) /\ ~ (l < k)
    <3> HIDE DEF Below
    <3> QED
      BY <1>3, <1>4, <2>1
  <2> QED
    BY <2>2
<1> QED
  BY <1>1, <1>2, <1>4

(* The new rows of a flushed import have different ids, all of them its own. *)
LEMMA NewIds ==
    ASSUME ImportInv, NEW i \in Importers, Flushed(i)
    PROVE  /\ \A k \in Created(i) : NewRow(i, k).id \in OwnIds(i)
           /\ \A k, l \in Created(i) : NewRow(i, k).id = NewRow(i, l).id => k = l
<1>1. importer[i].firstId \in Nat /\ ItemsOf(i) \in Payloads
  BY DEF ImportInv, ImportTypeOK, IdsOK, Flushed, Importings, Importing
<1>2. Created(i) \subseteq Nat /\ IsFiniteSet(Created(i))
  <2>1. /\ UniqueItems(ItemsOf(i)) \subseteq Nat /\ IsFiniteSet(UniqueItems(ItemsOf(i)))
        /\ Created(i) \in SUBSET UniqueItems(ItemsOf(i))
    BY <1>1, FirstOfSource DEF Created, ItemsOf
  <2> QED
    BY <2>1, FS_Subset
<1> DEFINE first == importer[i].firstId
           C == Created(i)
           Rank(k) == Cardinality({j \in C : j < k})
<1>3. /\ Cardinality(C) \in Nat
      /\ \A k \in C : Rank(k) \in 0..(Cardinality(C) - 1)
      /\ \A k, l \in C : Rank(k) = Rank(l) => k = l
  BY <1>2, RanksApart
<1>4. \A k : NewRow(i, k).id = first + Rank(k)
  BY DEF NewRow
<1>5. OwnIds(i) = first .. (first + Cardinality(C) - 1) /\ first \in Nat
  BY <1>1 DEF OwnIds
<1> HIDE DEF Rank, first, C
<1>6. \A k \in C : NewRow(i, k).id \in OwnIds(i)
  BY <1>3, <1>4, <1>5
<1>7. \A k, l \in C : NewRow(i, k).id = NewRow(i, l).id => k = l
  BY <1>3, <1>4, <1>5
<1> QED
  BY <1>6, <1>7 DEF C

LEMMA ImportsBegin == KnowledgeInit => ImportInv
<1> SUFFICES ASSUME KnowledgeInit PROVE ImportInv
  OBVIOUS
<1>1. /\ rows = {} /\ lastId = 0 /\ DOMAIN importer = Importers
      /\ \A i \in Importers : importer[i].pc = "idle"
  BY DEF KnowledgeInit, Closed
<1>2. Importings = {}
  BY <1>1 DEF Importings, Importing
<1> QED
  BY <1>1, <1>2 DEF ImportInv, ImportTypeOK, IdsOK, SeenOK, UnracedOK, KnownIds, Flushed, RowsOf

(* A search touches neither the tables nor the imports. *)
LEMMA SearchLeavesImports ==
    ASSUME ImportInv, UNCHANGED <<rows, lastId, importer, raced>>
    PROVE  ImportInv'
<1>1. rows' = rows /\ lastId' = lastId /\ importer' = importer /\ raced' = raced
  OBVIOUS
<1> QED
  BY <1>1 DEF ImportInv, ImportTypeOK, IdsOK, SeenOK, UnracedOK, KnownIds, Flushed, RowsOf, SeenOf,
     Importings, Importing, ItemsOf, Sources, OwnIds, Created

(* An import that ends without a trace leaves the others as they were. *)
LEMMA RollBackLeavesImports ==
    ASSUME ImportInv, NEW i \in Importers, RollBackImport(i)
    PROVE  ImportInv'
<1>1. /\ rows' = rows /\ lastId' = lastId /\ raced' = raced
      /\ DOMAIN importer' = Importers /\ importer'[i].pc = "idle"
      /\ \A j \in Importers \ {i} : importer'[j] = importer[j]
  BY DEF RollBackImport, ImportInv, ImportTypeOK, Closed
<1>2. /\ Importings' = Importings \ {i}
      /\ \A j \in Importers : Flushed(j)' => j # i /\ Flushed(j)
  BY <1>1 DEF Importings, Importing, Flushed
<1>3. \A j \in Importers \ {i} :
        /\ importer'[j] = importer[j] /\ ItemsOf(j)' = ItemsOf(j) /\ Sources(j)' = Sources(j)
        /\ OwnIds(j)' = OwnIds(j) /\ \A source : SeenOf(j, source)' = SeenOf(j, source)
  BY <1>1 DEF ItemsOf, Sources, OwnIds, Created, SeenOf
<1>4. KnownIds' \subseteq KnownIds
  <2>1. \A j \in Importings' : j \in Importings /\ importer'[j].seen = importer[j].seen
    BY <1>1, <1>2 DEF Importings
  <2> QED
    BY <1>1, <2>1 DEF KnownIds
<1>5. ImportTypeOK'
  BY <1>1, <1>2, <1>3 DEF ImportInv, ImportTypeOK, Importings
<1>6. IdsOK'
  BY <1>1, <1>2, <1>3, <1>4 DEF ImportInv, IdsOK
<1>7. SeenOK'
  BY <1>1, <1>2, <1>3 DEF ImportInv, SeenOK, Importings
<1>8. UnracedOK'
  BY <1>1, <1>2, <1>3 DEF ImportInv, UnracedOK, RowsOf, Importings
<1> QED
  BY <1>5, <1>6, <1>7, <1>8 DEF ImportInv

LEMMA FlushLeavesImports ==
    ASSUME ImportInv, NEW i \in Importers, FlushImport(i)
    PROVE  ImportInv'
<1>1. /\ rows' = rows /\ raced' = raced /\ lastId' = lastId + Cardinality(Created(i))
      /\ importer[i].pc = "read" /\ DOMAIN importer' = Importers
      /\ importer'[i] = [pc |-> "flushed", owner |-> importer[i].owner, items |-> importer[i].items,
                         seen |-> importer[i].seen, at |-> clock + 1, firstId |-> lastId + 1]
      /\ \A j \in Importers \ {i} : importer'[j] = importer[j]
  BY DEF FlushImport, ImportInv, ImportTypeOK
<1>2. /\ Importings' = Importings /\ i \in Importings /\ lastId \in Nat
      /\ \A j \in Importers : Flushed(j)' <=> j = i \/ Flushed(j)
  BY <1>1 DEF Importings, Importing, Flushed, ImportInv, ImportTypeOK
<1>3. \A j \in Importers :
        /\ importer'[j].owner = importer[j].owner /\ importer'[j].seen = importer[j].seen
        /\ importer'[j].items = importer[j].items
  BY <1>1
<1>4. \A j \in Importers :
        /\ ItemsOf(j)' = ItemsOf(j) /\ Sources(j)' = Sources(j) /\ Created(j)' = Created(j)
        /\ \A source : SeenOf(j, source)' = SeenOf(j, source)
  BY <1>3 DEF ItemsOf, Sources, Created, SeenOf
<1>5. KnownIds' = KnownIds
  BY <1>1, <1>2, <1>3 DEF KnownIds, Importings
<1>6. Cardinality(Created(i)) \in Nat
  <2>1. IsFiniteSet(UniqueItems(ItemsOf(i))) /\ Created(i) \in SUBSET UniqueItems(ItemsOf(i))
    BY <1>2, FirstOfSource DEF Created, ItemsOf, ImportInv, ImportTypeOK
  <2> QED
    BY <2>1, FS_Subset, FS_CardinalityType
<1>7. ImportTypeOK'
  BY <1>1, <1>2, <1>4, <1>6 DEF ImportInv, ImportTypeOK, Importings
<1>8. IdsOK'
  <2>1. OwnIds(i)' = (lastId + 1) .. lastId'
    BY <1>1, <1>2, <1>4, <1>6 DEF OwnIds
  <2>2. \A j \in Importers \ {i} : OwnIds(j)' = OwnIds(j)
    BY <1>1, <1>4 DEF OwnIds
  <2>3. \A j \in Importers : Flushed(j) => OwnIds(j) \subseteq 1..lastId
    BY DEF ImportInv, IdsOK
  <2>4. KnownIds \subseteq 1..lastId
    BY DEF ImportInv, IdsOK
  <2>5. ((lastId + 1) .. lastId') \cap (1..lastId) = {} /\ 1..lastId \subseteq 1..lastId'
        /\ ((lastId + 1) .. lastId') \subseteq 1..lastId'
    BY <1>1, <1>2, <1>6
  <2>6. ASSUME NEW j \in Importers, Flushed(j)'
        PROVE  /\ importer'[j].firstId \in Nat \ {0}
               /\ OwnIds(j)' \subseteq 1..lastId' /\ OwnIds(j)' \cap KnownIds' = {}
               /\ \A k \in Importers : Flushed(k)' /\ k # j => OwnIds(j)' \cap OwnIds(k)' = {}
    <3>1. CASE j = i
      <4>1. importer'[i].firstId \in Nat \ {0}
        BY <1>1, <1>2
      <4> QED
        BY <1>2, <1>5, <2>1, <2>2, <2>3, <2>4, <2>5, <3>1, <4>1
    <3>2. CASE j # i
      <4>1. Flushed(j) /\ importer'[j] = importer[j] /\ OwnIds(j)' = OwnIds(j)
        BY <1>1, <1>2, <2>2, <2>6, <3>2
      <4>2. /\ importer[j].firstId \in Nat \ {0} /\ OwnIds(j) \cap KnownIds = {}
            /\ \A k \in Importers : Flushed(k) /\ k # j => OwnIds(j) \cap OwnIds(k) = {}
        BY <4>1 DEF ImportInv, IdsOK
      <4> QED
        BY <1>2, <1>5, <2>1, <2>2, <2>3, <2>5, <3>2, <4>1, <4>2
    <3> QED
      BY <3>1, <3>2
  <2>7. \A r, q \in rows' : r.id = q.id => r = q
    BY <1>1 DEF ImportInv, IdsOK
  <2>8. \A id \in KnownIds' : id \in 1..lastId'
    BY <1>5, <2>4, <2>5
  <2> QED
    BY <2>6, <2>7, <2>8 DEF IdsOK
<1>9. SeenOK'
  BY <1>1, <1>2, <1>3, <1>4 DEF ImportInv, SeenOK, Importings
<1>10. UnracedOK'
  BY <1>1, <1>2, <1>3, <1>4 DEF ImportInv, UnracedOK, RowsOf, Importings
<1> QED
  BY <1>7, <1>8, <1>9, <1>10 DEF ImportInv

(* An import that opens sees the rows of its sources; what it shares with  *)
(* another is raced from now on.                                           *)
LEMMA BeginLeavesImports ==
    ASSUME ImportInv, NEW i \in Importers, BeginImport(i)
    PROVE  ImportInv'
<1>1. PICK owner \in Owners, items \in Payloads :
        LET sources == {item.source : item \in ToSet(items)} IN
        /\ \E seen \in Existing(owner, sources) :
             importer' = [importer EXCEPT ![i] =
                 [pc |-> "read", owner |-> owner, items |-> items, seen |-> seen]]
        /\ raced' = raced \cup {<<owner, s>> : s \in {s \in sources :
               \E j \in Importers \ {i} :
                   /\ Importing(j) /\ importer[j].owner = owner
                   /\ \E item \in ToSet(importer[j].items) : item.source = s}}
  BY DEF BeginImport
<1> DEFINE sources == {item.source : item \in ToSet(items)}
           met == {s \in sources : \E j \in Importers \ {i} :
                    /\ Importing(j) /\ importer[j].owner = owner
                    /\ \E item \in ToSet(importer[j].items) : item.source = s}
<1>2. PICK seen \in Existing(owner, sources) :
        importer' = [importer EXCEPT ![i] =
          [pc |-> "read", owner |-> owner, items |-> items, seen |-> seen]]
  BY <1>1
<1>3. /\ rows' = rows /\ lastId' = lastId /\ ~ Importing(i)
      /\ DOMAIN importer' = Importers
      /\ importer'[i] = [pc |-> "read", owner |-> owner, items |-> items, seen |-> seen]
      /\ \A j \in Importers \ {i} : importer'[j] = importer[j]
  BY <1>2 DEF BeginImport, ImportInv, ImportTypeOK
<1>4. raced' = raced \cup {<<owner, s>> : s \in met}
  BY <1>1
<1>5. sources = {items[k].source : k \in DOMAIN items}
  BY DEF ToSet
<1>6. /\ \A q \in seen : q \in rows /\ q.owner = owner /\ q.source \in sources
      /\ \A q, p \in seen : q.source = p.source => q = p
      /\ \A r \in rows : r.owner = owner /\ r.source \in sources =>
           \E q \in seen : q.source = r.source
  <2> DEFINE found == {r \in rows : r.owner = owner /\ r.source \in sources}
  <2>1. /\ seen \in SUBSET found /\ {r.source : r \in seen} = {r.source : r \in found}
        /\ \A r, q \in seen : r.source = q.source => r = q
    BY <1>2 DEF Existing
  <2>2. \A r \in found : r.source \in {q.source : q \in seen}
    BY <2>1
  <2> QED
    BY <2>1, <2>2
<1> HIDE DEF sources
<1>7. /\ Importings' = Importings \cup {i} /\ i \notin Importings
      /\ \A j \in Importers : Flushed(j)' => j # i /\ Flushed(j)
  BY <1>3 DEF Importings, Importing, Flushed
<1>8. \A j \in Importers \ {i} :
        /\ importer'[j] = importer[j] /\ ItemsOf(j)' = ItemsOf(j) /\ Sources(j)' = Sources(j)
        /\ OwnIds(j)' = OwnIds(j) /\ \A source : SeenOf(j, source)' = SeenOf(j, source)
  BY <1>3 DEF ItemsOf, Sources, OwnIds, Created, SeenOf
<1>9. /\ importer'[i].pc = "read" /\ importer'[i].owner = owner /\ importer'[i].seen = seen
      /\ ItemsOf(i)' = items /\ Sources(i)' = sources
      /\ \A source : SeenOf(i, source)' = {q \in seen : q.source = source}
  BY <1>3, <1>5 DEF ItemsOf, Sources, SeenOf
<1>10. KnownIds' \subseteq KnownIds
  <2>1. \A id \in KnownIds' : \/ \E r \in rows : id = r.id
                              \/ \E j \in Importings' : \E q \in importer'[j].seen : id = q.id
    BY <1>3 DEF KnownIds
  <2>2. \A j \in Importings' : \A q \in importer'[j].seen :
          q \in rows \/ (j \in Importings /\ q \in importer[j].seen)
    BY <1>6, <1>7, <1>8, <1>9 DEF Importings
  <2> QED
    BY <2>1, <2>2 DEF KnownIds
<1>11. ImportTypeOK'
  BY <1>3, <1>7, <1>8, <1>9 DEF ImportInv, ImportTypeOK, Importings
<1>12. IdsOK'
  BY <1>3, <1>7, <1>8, <1>10 DEF ImportInv, IdsOK
<1>13. SeenOK'
  <2>1. \A q \in seen : \A r \in rows : r.id = q.id => r.owner = q.owner /\ r.source = q.source
    BY <1>6 DEF ImportInv, IdsOK
  <2> QED
    BY <1>3, <1>6, <1>7, <1>8, <1>9, <2>1 DEF ImportInv, SeenOK, Importings
<1>14. UnracedOK'
  <2> SUFFICES ASSUME NEW o, NEW s, <<o, s>> \notin raced'
               PROVE  /\ \A r, q \in RowsOf(o, s)' : r = q
                      /\ \A k \in Importings' : importer'[k].owner = o /\ s \in Sources(k)' =>
                           /\ SeenOf(k, s)' = RowsOf(o, s)'
                           /\ \A j \in Importings' \ {k} :
                                ~ (importer'[j].owner = o /\ s \in Sources(j)')
    BY DEF UnracedOK
  <2>1. <<o, s>> \notin raced /\ RowsOf(o, s)' = RowsOf(o, s) /\ ~ (o = owner /\ s \in met)
    BY <1>3, <1>4 DEF RowsOf
  <2>2. /\ \A r, q \in RowsOf(o, s) : r = q
        /\ \A k \in Importings : importer[k].owner = o /\ s \in Sources(k) =>
             /\ SeenOf(k, s) = RowsOf(o, s)
             /\ \A j \in Importings \ {k} : ~ (importer[j].owner = o /\ s \in Sources(j))
    BY <2>1 DEF ImportInv, UnracedOK
  <2>3. ASSUME o = owner, s \in sources
        PROVE  /\ {q \in seen : q.source = s} = RowsOf(o, s)
               /\ \A j \in Importings : ~ (importer[j].owner = o /\ s \in Sources(j))
    <3>1. {q \in seen : q.source = s} \subseteq RowsOf(o, s)
      BY <1>6, <2>3 DEF RowsOf
    <3>2. ASSUME NEW r \in RowsOf(o, s) PROVE r \in seen /\ r.source = s
      <4>1. r \in rows /\ r.owner = owner /\ r.source = s
        BY <2>3, <3>2 DEF RowsOf
      <4>2. PICK q \in seen : q.source = s
        BY <1>6, <2>3, <4>1
      <4>3. q \in RowsOf(o, s)
        BY <3>1, <4>2
      <4> QED
        BY <2>2, <4>1, <4>2, <4>3
    <3>3. ASSUME NEW j \in Importings, importer[j].owner = o, s \in Sources(j) PROVE FALSE
      <4>1. j \in Importers \ {i} /\ Importing(j)
        BY <1>7 DEF Importings
      <4>2. \E item \in ToSet(importer[j].items) : item.source = s
        BY <3>3 DEF Sources, ItemsOf, ToSet
      <4> QED
        BY <2>1, <2>3, <3>3, <4>1, <4>2
    <3> QED
      BY <3>1, <3>2, <3>3
  <2>4. ASSUME NEW k \in Importings', importer'[k].owner = o, s \in Sources(k)'
        PROVE  SeenOf(k, s)' = RowsOf(o, s)
    BY <1>7, <1>8, <1>9, <2>2, <2>3, <2>4 DEF Importings
  <2>5. ASSUME NEW k \in Importings', importer'[k].owner = o, s \in Sources(k)',
               NEW j \in Importings', importer'[j].owner = o, s \in Sources(j)'
        PROVE  j = k
    <3>1. CASE j = i /\ k # i
      BY <1>7, <1>8, <1>9, <2>3, <2>5, <3>1 DEF Importings
    <3>2. CASE k = i /\ j # i
      BY <1>7, <1>8, <1>9, <2>3, <2>5, <3>2 DEF Importings
    <3>3. CASE j # i /\ k # i
      <4>1. /\ j \in Importings /\ importer[j].owner = o /\ s \in Sources(j)
            /\ k \in Importings /\ importer[k].owner = o /\ s \in Sources(k)
        BY <1>7, <1>8, <2>5, <3>3 DEF Importings
      <4> QED
        BY <2>2, <4>1
    <3> QED
      BY <3>1, <3>2, <3>3
  <2> QED
    BY <2>1, <2>2, <2>4, <2>5
<1> QED
  BY <1>11, <1>12, <1>13, <1>14 DEF ImportInv

(* An old row after a commit. *)
Kept(i, r) == IF r.id \in Locked(i) THEN Rewritten(i, r) ELSE r

LEMMA CommitRows ==
    ASSUME ImportInv, NEW i \in Importers, CommitImport(i)
    PROVE  /\ Flushed(i) /\ i \in Importings /\ ItemsOf(i) \in Payloads
           /\ rows' = {Kept(i, r) : r \in rows} \cup NewRows(i)
           /\ \A r \in rows :
                /\ DOMAIN Kept(i, r) = RowFields /\ Kept(i, r).id = r.id
                /\ Kept(i, r).owner = r.owner /\ Kept(i, r).source = r.source
                /\ Kept(i, r) = r
                   \/ (r.owner = importer[i].owner /\ r.owner # LogTable /\ r.source \in Sources(i))
           /\ \A k \in Created(i) :
                /\ k \in UniqueItems(ItemsOf(i)) /\ SeenOf(i, ItemsOf(i)[k].source) = {}
                /\ DOMAIN NewRow(i, k) = RowFields /\ NewRow(i, k).owner = importer[i].owner
                /\ NewRow(i, k).source = ItemsOf(i)[k].source /\ NewRow(i, k).source \in Sources(i)
<1>1. Flushed(i) /\ i \in Importings /\ ItemsOf(i) \in Payloads
  BY DEF CommitImport, Flushed, Importings, Importing, ImportInv, ImportTypeOK
<1>2. rows' = {Kept(i, r) : r \in rows} \cup NewRows(i)
  BY DEF CommitImport, NewRows, Kept
<1>3. ASSUME NEW r \in rows
      PROVE  /\ DOMAIN Kept(i, r) = RowFields /\ Kept(i, r).id = r.id
             /\ Kept(i, r).owner = r.owner /\ Kept(i, r).source = r.source
  <2>1. DOMAIN r = RowFields
    BY DEF ImportInv, ImportTypeOK
  <2> QED
    BY <2>1, RewrittenRow DEF Kept
<1>4. ASSUME NEW r \in rows, r.id \in Locked(i)
      PROVE  r.owner = importer[i].owner /\ r.owner # LogTable /\ r.source \in Sources(i)
  <2>1. PICK u \in Updated(i) : u[1].id = r.id
    BY <1>4 DEF Locked
  <2>2. u[1] \in importer[i].seen /\ importer[i].owner # LogTable
    BY DEF Updated
  <2> QED
    BY <1>1, <2>1, <2>2 DEF ImportInv, SeenOK
<1>5. ASSUME NEW k \in Created(i)
      PROVE  /\ k \in UniqueItems(ItemsOf(i)) /\ SeenOf(i, ItemsOf(i)[k].source) = {}
             /\ DOMAIN NewRow(i, k) = RowFields /\ NewRow(i, k).owner = importer[i].owner
             /\ NewRow(i, k).source = ItemsOf(i)[k].source /\ NewRow(i, k).source \in Sources(i)
  <2>1. k \in UniqueItems(ItemsOf(i)) /\ SeenOf(i, ItemsOf(i)[k].source) = {}
    BY DEF Created, ItemsOf
  <2>2. /\ DOMAIN NewRow(i, k) = RowFields /\ NewRow(i, k).owner = importer[i].owner
        /\ NewRow(i, k).source = ItemsOf(i)[k].source
    BY DEF NewRow, RowFields, ItemsOf
  <2> QED
    BY <2>1, <2>2 DEF UniqueItems, Sources
<1>6. \A r \in rows : Kept(i, r) = r \/ r.id \in Locked(i)
  BY DEF Kept
<1> QED
  BY <1>1, <1>2, <1>3, <1>4, <1>5, <1>6

LEMMA CommitLeavesImports ==
    ASSUME ImportInv, NEW i \in Importers, CommitImport(i)
    PROVE  ImportInv'
<1> DEFINE owner == importer[i].owner
           items == ItemsOf(i)
<1>1. /\ Flushed(i) /\ i \in Importings /\ items \in Payloads
      /\ rows' = {Kept(i, r) : r \in rows} \cup NewRows(i)
      /\ \A r \in rows :
           /\ DOMAIN Kept(i, r) = RowFields /\ Kept(i, r).id = r.id
           /\ Kept(i, r).owner = r.owner /\ Kept(i, r).source = r.source
           /\ Kept(i, r) = r \/ (r.owner = owner /\ r.owner # LogTable /\ r.source \in Sources(i))
      /\ \A k \in Created(i) :
           /\ k \in UniqueItems(items) /\ SeenOf(i, items[k].source) = {}
           /\ DOMAIN NewRow(i, k) = RowFields /\ NewRow(i, k).owner = owner
           /\ NewRow(i, k).source = items[k].source /\ NewRow(i, k).source \in Sources(i)
  BY CommitRows
<1>2. /\ lastId' = lastId /\ raced' = raced
      /\ DOMAIN importer' = Importers /\ importer'[i].pc = "idle"
      /\ \A j \in Importers \ {i} : importer'[j] = importer[j]
  BY DEF CommitImport, ImportInv, ImportTypeOK, Closed
<1> HIDE DEF owner, items
<1>3. /\ Importings' = Importings \ {i}
      /\ \A j \in Importers : Flushed(j)' => j # i /\ Flushed(j)
  BY <1>2 DEF Importings, Importing, Flushed
<1>4. \A j \in Importers \ {i} :
        /\ importer'[j] = importer[j] /\ ItemsOf(j)' = ItemsOf(j) /\ Sources(j)' = Sources(j)
        /\ OwnIds(j)' = OwnIds(j) /\ \A source : SeenOf(j, source)' = SeenOf(j, source)
  BY <1>2 DEF ItemsOf, Sources, OwnIds, Created, SeenOf
<1>5. ASSUME NEW n \in rows'
      PROVE  \/ \E r \in rows : n = Kept(i, r)
             \/ \E k \in Created(i) : n = NewRow(i, k)
  BY <1>1 DEF NewRows
<1>6. /\ \A k \in Created(i) : NewRow(i, k).id \in OwnIds(i)
      /\ \A k, l \in Created(i) : NewRow(i, k).id = NewRow(i, l).id => k = l
      /\ OwnIds(i) \subseteq 1..lastId /\ OwnIds(i) \cap KnownIds = {}
      /\ \A j \in Importers : Flushed(j) /\ j # i => OwnIds(j) \cap OwnIds(i) = {}
  BY <1>1, NewIds DEF ImportInv, IdsOK
<1>7. \A r \in rows : r.id \in KnownIds
  BY DEF KnownIds
<1>8. \A j \in Importings : \A q \in importer[j].seen : q.id \in KnownIds
  BY DEF KnownIds
<1>9. KnownIds' \subseteq KnownIds \cup OwnIds(i)
  <2>1. ASSUME NEW n \in rows' PROVE n.id \in KnownIds \cup OwnIds(i)
    BY <1>1, <1>5, <1>6, <1>7, <2>1
  <2>2. \A j \in Importings' : \A q \in importer'[j].seen : q.id \in KnownIds
    BY <1>2, <1>3, <1>8 DEF Importings
  <2> QED
    BY <2>1, <2>2 DEF KnownIds
<1>10. ImportTypeOK'
  BY <1>1, <1>2, <1>3, <1>4, <1>5 DEF ImportInv, ImportTypeOK, Importings
<1>11. IdsOK'
  <2>1. ASSUME NEW m \in rows', NEW n \in rows', m.id = n.id PROVE m = n
    <3>1. CASE \E r \in rows : m = Kept(i, r)
      <4>1. PICK r \in rows : m = Kept(i, r)
        BY <3>1
      <4>2. n.id \in KnownIds
        BY <1>1, <1>7, <2>1, <4>1
      <4>3. PICK q \in rows : n = Kept(i, q)
        BY <1>5, <1>6, <4>2
      <4>4. q.id = r.id
        BY <1>1, <2>1, <4>1, <4>3
      <4>5. q = r
        BY <4>4 DEF ImportInv, IdsOK
      <4> QED
        BY <4>1, <4>3, <4>5
    <3>2. CASE \E k \in Created(i) : m = NewRow(i, k)
      <4>1. PICK k \in Created(i) : m = NewRow(i, k)
        BY <3>2
      <4>2. n.id \in OwnIds(i)
        BY <1>6, <2>1, <4>1
      <4>3. ~ \E r \in rows : n = Kept(i, r)
        BY <1>1, <1>6, <1>7, <4>2
      <4>4. PICK l \in Created(i) : n = NewRow(i, l)
        BY <1>5, <4>3
      <4>5. k = l
        BY <1>6, <2>1, <4>1, <4>4
      <4> QED
        BY <4>1, <4>4, <4>5
    <3> QED
      BY <1>5, <3>1, <3>2
  <2>2. \A id \in KnownIds' : id \in 1..lastId'
    BY <1>2, <1>6, <1>9 DEF ImportInv, IdsOK
  <2>3. ASSUME NEW j \in Importers, Flushed(j)'
        PROVE  /\ importer'[j].firstId \in Nat \ {0}
               /\ OwnIds(j)' \subseteq 1..lastId' /\ OwnIds(j)' \cap KnownIds' = {}
               /\ \A k \in Importers : Flushed(k)' /\ k # j => OwnIds(j)' \cap OwnIds(k)' = {}
    <3>1. j # i /\ Flushed(j) /\ importer'[j] = importer[j] /\ OwnIds(j)' = OwnIds(j)
      BY <1>3, <1>4, <2>3
    <3>2. /\ importer[j].firstId \in Nat \ {0} /\ OwnIds(j) \subseteq 1..lastId
          /\ OwnIds(j) \cap KnownIds = {} /\ OwnIds(j) \cap OwnIds(i) = {}
          /\ \A k \in Importers : Flushed(k) /\ k # j => OwnIds(j) \cap OwnIds(k) = {}
      BY <1>6, <3>1 DEF ImportInv, IdsOK
    <3>3. \A k \in Importers : Flushed(k)' => Flushed(k) /\ OwnIds(k)' = OwnIds(k)
      BY <1>3, <1>4
    <3> QED
      BY <1>2, <1>9, <3>1, <3>2, <3>3
  <2> QED
    BY <2>1, <2>2, <2>3 DEF IdsOK
<1>12. SeenOK'
  <2>1. ASSUME NEW j \in Importings', NEW q \in importer'[j].seen
        PROVE  /\ q.owner = importer'[j].owner /\ q.source \in Sources(j)'
               /\ \A p \in importer'[j].seen : p.source = q.source => p = q
               /\ \A n \in rows' : n.id = q.id => n.owner = q.owner /\ n.source = q.source
    <3>1. j \in Importings /\ importer'[j] = importer[j] /\ Sources(j)' = Sources(j)
      BY <1>3, <1>4 DEF Importings
    <3>2. /\ q.owner = importer[j].owner /\ q.source \in Sources(j)
          /\ \A p \in importer[j].seen : p.source = q.source => p = q
          /\ \A r \in rows : r.id = q.id => r.owner = q.owner /\ r.source = q.source
      BY <3>1 DEF ImportInv, SeenOK
    <3>3. q.id \in KnownIds
      BY <1>8, <3>1
    <3>4. ASSUME NEW n \in rows', n.id = q.id PROVE n.owner = q.owner /\ n.source = q.source
      <4>1. PICK r \in rows : n = Kept(i, r)
        BY <1>5, <1>6, <3>3, <3>4
      <4> QED
        BY <1>1, <3>2, <3>4, <4>1
    <3> QED
      BY <3>1, <3>2, <3>4
  <2> QED
    BY <2>1 DEF SeenOK
<1>13. UnracedOK'
  <2> SUFFICES ASSUME NEW o, NEW s, <<o, s>> \notin raced
               PROVE  /\ \A m, n \in RowsOf(o, s)' : m = n
                      /\ \A k \in Importings' : importer'[k].owner = o /\ s \in Sources(k)' =>
                           /\ SeenOf(k, s)' = RowsOf(o, s)'
                           /\ \A j \in Importings' \ {k} :
                                ~ (importer'[j].owner = o /\ s \in Sources(j)')
    BY <1>2 DEF UnracedOK
  <2>1. /\ \A r, q \in RowsOf(o, s) : r = q
        /\ \A k \in Importings : importer[k].owner = o /\ s \in Sources(k) =>
             /\ SeenOf(k, s) = RowsOf(o, s)
             /\ \A j \in Importings \ {k} : ~ (importer[j].owner = o /\ s \in Sources(j))
    BY DEF ImportInv, UnracedOK
  <2>2. ASSUME NEW n \in RowsOf(o, s)'
        PROVE  \/ \E r \in RowsOf(o, s) : n = Kept(i, r)
               \/ \E k \in Created(i) : /\ n = NewRow(i, k) /\ o = owner /\ s = items[k].source
                                        /\ s \in Sources(i) /\ RowsOf(o, s) = {}
    <3>1. n \in rows' /\ n.owner = o /\ n.source = s
      BY DEF RowsOf
    <3>2. CASE \E r \in rows : n = Kept(i, r)
      BY <1>1, <3>1, <3>2 DEF RowsOf
    <3>3. CASE \E k \in Created(i) : n = NewRow(i, k)
      <4>1. PICK k \in Created(i) : n = NewRow(i, k)
        BY <3>3
      <4>2. o = owner /\ s = items[k].source /\ s \in Sources(i) /\ SeenOf(i, s) = {}
        BY <1>1, <3>1, <4>1
      <4> QED
        BY <1>1, <2>1, <4>1, <4>2 DEF owner
    <3> QED
      BY <1>5, <3>1, <3>2, <3>3
  <2>3. ASSUME NEW m \in RowsOf(o, s)', NEW n \in RowsOf(o, s)' PROVE m = n
    <3>1. CASE RowsOf(o, s) # {}
      BY <2>1, <2>2, <3>1
    <3>2. CASE RowsOf(o, s) = {}
      <4>1. PICK k \in Created(i) : m = NewRow(i, k) /\ s = items[k].source
        BY <2>2, <3>2
      <4>2. PICK l \in Created(i) : n = NewRow(i, l) /\ s = items[l].source
        BY <2>2, <3>2
      <4>3. k = l
        BY <1>1, <4>1, <4>2, FirstOfSource
      <4> QED
        BY <4>1, <4>2, <4>3
    <3> QED
      BY <3>1, <3>2
  <2>4. ASSUME NEW k \in Importings', importer'[k].owner = o, s \in Sources(k)'
        PROVE  /\ SeenOf(k, s)' = RowsOf(o, s)'
               /\ \A j \in Importings' \ {k} : ~ (importer'[j].owner = o /\ s \in Sources(j)')
    <3>1. k \in Importings /\ k # i /\ importer[k].owner = o /\ s \in Sources(k)
          /\ SeenOf(k, s)' = SeenOf(k, s)
      BY <1>3, <1>4, <2>4 DEF Importings
    <3>2. ~ (owner = o /\ s \in Sources(i))
      BY <1>1, <2>1, <3>1 DEF owner
    <3>3. RowsOf(o, s)' \subseteq RowsOf(o, s)
      <4>1. ASSUME NEW n \in RowsOf(o, s)' PROVE n \in RowsOf(o, s)
        <5>1. PICK r \in RowsOf(o, s) : n = Kept(i, r)
          BY <2>2, <3>2
        <5>2. Kept(i, r) = r
          BY <1>1, <3>2 DEF RowsOf
        <5> QED
          BY <5>1, <5>2
      <4> QED
        BY <4>1
    <3>4. RowsOf(o, s) \subseteq RowsOf(o, s)'
      <4>1. ASSUME NEW r \in RowsOf(o, s) PROVE r \in rows' /\ r.owner = o /\ r.source = s
        <5>1. r \in rows /\ r.owner = o /\ r.source = s
          BY DEF RowsOf
        <5>2. Kept(i, r) = r
          BY <1>1, <3>2, <5>1
        <5> QED
          BY <1>1, <5>1, <5>2
      <4> QED
        BY <4>1 DEF RowsOf
    <3>5. \A j \in Importings' \ {k} : ~ (importer'[j].owner = o /\ s \in Sources(j)')
      BY <1>3, <1>4, <2>1, <3>1 DEF Importings
    <3> QED
      BY <2>1, <3>1, <3>3, <3>4, <3>5
  <2> QED
    BY <2>3, <2>4
<1> QED
  BY <1>10, <1>11, <1>12, <1>13 DEF ImportInv

LEMMA ImportInvStep == ImportInv /\ [KnowledgeNext]_knowledgeVars => ImportInv'
<1> SUFFICES ASSUME ImportInv, [KnowledgeNext]_knowledgeVars PROVE ImportInv'
  OBVIOUS
<1>1. ASSUME NEW i \in Importers, BeginImport(i) PROVE ImportInv'
  BY <1>1, BeginLeavesImports
<1>2. ASSUME NEW i \in Importers, FlushImport(i) PROVE ImportInv'
  BY <1>2, FlushLeavesImports
<1>3. ASSUME NEW i \in Importers, CommitImport(i) PROVE ImportInv'
  BY <1>3, CommitLeavesImports
<1>4. ASSUME NEW i \in Importers, RollBackImport(i) PROVE ImportInv'
  BY <1>4, RollBackLeavesImports
<1>5. ASSUME NEW s \in Searchers, SearchTeam(s) PROVE ImportInv'
  BY <1>5, SearchLeavesImports DEF SearchTeam
<1>6. ASSUME NEW s \in Searchers, ReadVersion(s) PROVE ImportInv'
  BY <1>6, SearchLeavesImports DEF ReadVersion
<1>7. ASSUME NEW s \in Searchers, SearchIndex(s) PROVE ImportInv'
  BY <1>7, SearchLeavesImports DEF SearchIndex
<1>8. CASE UNCHANGED knowledgeVars
  BY <1>8, SearchLeavesImports DEF knowledgeVars
<1> QED
  BY <1>1, <1>2, <1>3, <1>4, <1>5, <1>6, <1>7, <1>8 DEF KnowledgeNext

(* Only its commit closes a flushed import in a step that changes the rows. *)
LEMMA OnlyCommitsChangeRows ==
    ASSUME ImportInv, KnowledgeNext, NEW i \in Importers,
           importer[i].pc = "flushed", rows' # rows, importer'[i] = Closed
    PROVE  CommitImport(i)
<1>1. PICK j \in Importers : CommitImport(j)
  BY DEF KnowledgeNext, BeginImport, FlushImport, RollBackImport, SearchTeam, ReadVersion, SearchIndex
<1>2. importer[i] # Closed
  BY DEF Closed
<1>3. j = i
  BY <1>1, <1>2 DEF CommitImport, ImportInv, ImportTypeOK
<1> QED
  BY <1>1, <1>3

(* The document a source already had gets the text of the batch. *)
LEMMA KeptHasText ==
    ASSUME ImportInv, NEW i \in Importers, CommitImport(i), NEW k \in UniqueItems(ItemsOf(i)),
           NEW q \in rows, SeenOf(i, ItemsOf(i)[k].source) = {q}, importer[i].owner # LogTable
    PROVE  Kept(i, q).title = ItemsOf(i)[k].title /\ Kept(i, q).content = ItemsOf(i)[k].content
<1> DEFINE items == ItemsOf(i)
<1>1. Flushed(i) /\ i \in Importings /\ items \in Payloads
  BY CommitRows
<1>2. q \in importer[i].seen /\ q.source = items[k].source /\ DOMAIN q = RowFields
  BY DEF SeenOf, ImportInv, ImportTypeOK
<1>3. ASSUME NEW u \in Updated(i), u[1].id = q.id PROVE u[1] = q /\ u[2] = items[k]
  <2>1. PICK l \in UniqueItems(items) : u[2] = items[l]
    BY DEF Updated, ItemsOf
  <2>2. u[1] \in importer[i].seen /\ u[1].source = u[2].source
    BY DEF Updated
  <2>3. u[1].source = q.source
    BY <1>1, <1>2, <1>3, <2>2 DEF ImportInv, SeenOK
  <2>4. u[1] = q
    BY <1>1, <1>2, <2>2, <2>3 DEF ImportInv, SeenOK
  <2>5. l = k
    <3>1. items[l].source = items[k].source
      BY <1>2, <2>1, <2>2, <2>3
    <3>2. \A m, n \in UniqueItems(items) : items[m].source = items[n].source => m = n
      BY <1>1, FirstOfSource
    <3> HIDE DEF items
    <3>3. l \in UniqueItems(items) /\ k \in UniqueItems(items)
      BY DEF items
    <3> QED
      BY <3>1, <3>2, <3>3
  <2> QED
    BY <2>1, <2>4, <2>5
<1>4. CASE q.id \in Locked(i)
  <2> DEFINE w == CHOOSE u \in Updated(i) : u[1].id = q.id
  <2>1. w \in Updated(i) /\ w[1].id = q.id
    <3>1. \E u \in Updated(i) : u[1].id = q.id
      BY <1>4 DEF Locked
    <3> QED
      BY <3>1
  <2>2. w[1] = q /\ w[2] = items[k]
    BY <1>3, <2>1
  <2>3. Kept(i, q) = [q EXCEPT
            !.title = IF w[2].title # w[1].title THEN w[2].title ELSE q.title,
            !.content = IF w[2].content # w[1].content THEN w[2].content ELSE q.content,
            !.at = importer[i].at]
    BY <1>4 DEF Kept, Rewritten
  <2> HIDE DEF w
  <2> QED
    BY <1>2, <2>2, <2>3 DEF RowFields
<1>5. CASE q.id \notin Locked(i)
  <2>1. <<q, items[k]>> \notin Updated(i)
    BY <1>1, <1>5 DEF Locked, Flushed
  <2>2. q.title = items[k].title /\ q.content = items[k].content
    BY <1>2, <2>1 DEF Updated, ItemsOf
  <2> QED
    BY <1>5, <2>2 DEF Kept
<1> QED
  BY <1>4, <1>5

(* A source of the batch that no other import raced for has one row after  *)
(* the commit: the document with the batch's text, the log as it was.      *)
LEMMA CommitIsFaithful ==
    ASSUME ImportInv, NEW i \in Importers, CommitImport(i), NEW k \in UniqueItems(ItemsOf(i)),
           NEW o, o = importer[i].owner, NEW s, s = ItemsOf(i)[k].source, <<o, s>> \notin raced
    PROVE  \E r \in rows' :
             /\ {n \in rows' : n.owner = o /\ n.source = s} = {r}
             /\ IF o = LogTable /\ RowsOf(o, s) # {}
                THEN r \in rows
                ELSE r.title = ItemsOf(i)[k].title /\ r.content = ItemsOf(i)[k].content
<1> DEFINE items == ItemsOf(i)
<1>1. /\ Flushed(i) /\ i \in Importings /\ items \in Payloads
      /\ rows' = {Kept(i, r) : r \in rows} \cup NewRows(i)
      /\ \A r \in rows :
           /\ Kept(i, r).owner = r.owner /\ Kept(i, r).source = r.source
           /\ Kept(i, r) = r \/ (r.owner = o /\ r.owner # LogTable /\ r.source \in Sources(i))
      /\ \A l \in Created(i) :
           /\ l \in UniqueItems(items) /\ SeenOf(i, items[l].source) = {}
           /\ NewRow(i, l).owner = o /\ NewRow(i, l).source = items[l].source
  BY CommitRows
<1>2. k \in DOMAIN items /\ s \in Sources(i)
  BY DEF UniqueItems, Sources
<1>3. SeenOf(i, s) = RowsOf(o, s) /\ \A r, q \in RowsOf(o, s) : r = q
  BY <1>1, <1>2 DEF ImportInv, UnracedOK
<1>4. ASSUME NEW n \in rows', n.owner = o, n.source = s
      PROVE  \/ \E r \in RowsOf(o, s) : n = Kept(i, r)
             \/ k \in Created(i) /\ n = NewRow(i, k)
  <2>1. CASE \E r \in rows : n = Kept(i, r)
    BY <1>1, <1>4, <2>1 DEF RowsOf
  <2>2. CASE \E l \in Created(i) : n = NewRow(i, l)
    <3>1. PICK l \in Created(i) : n = NewRow(i, l)
      BY <2>2
    <3>2. l = k
      BY <1>1, <1>4, <3>1, FirstOfSource
    <3> QED
      BY <3>1, <3>2
  <2> QED
    BY <1>1, <2>1, <2>2 DEF NewRows
<1>5. CASE RowsOf(o, s) = {}
  <2>1. k \in Created(i)
    BY <1>3, <1>5 DEF Created, ItemsOf
  <2>2. NewRow(i, k) \in rows' /\ NewRow(i, k).owner = o /\ NewRow(i, k).source = s
    BY <1>1, <2>1 DEF NewRows
  <2>3. {n \in rows' : n.owner = o /\ n.source = s} = {NewRow(i, k)}
    BY <1>4, <1>5, <2>2
  <2>4. NewRow(i, k).title = items[k].title /\ NewRow(i, k).content = items[k].content
    BY DEF NewRow, ItemsOf
  <2> QED
    BY <1>5, <2>2, <2>3, <2>4
<1>6. CASE RowsOf(o, s) # {}
  <2>1. PICK q \in RowsOf(o, s) : TRUE
    BY <1>6
  <2>2. q \in rows /\ q.owner = o /\ q.source = s /\ RowsOf(o, s) = {q}
    BY <1>3, <2>1 DEF RowsOf
  <2>3. k \notin Created(i) /\ SeenOf(i, s) = {q}
    BY <1>3, <2>2 DEF Created, ItemsOf
  <2>4. Kept(i, q) \in rows' /\ Kept(i, q).owner = o /\ Kept(i, q).source = s
    BY <1>1, <2>2
  <2>5. {n \in rows' : n.owner = o /\ n.source = s} = {Kept(i, q)}
    BY <1>4, <2>2, <2>3, <2>4
  <2>6. CASE o = LogTable
    <3>1. Kept(i, q) = q
      BY <1>1, <2>2, <2>6
    <3> QED
      BY <1>6, <2>2, <2>4, <2>5, <2>6, <3>1
  <2>7. CASE o # LogTable
    <3>1. Kept(i, q).title = items[k].title /\ Kept(i, q).content = items[k].content
      BY <2>2, <2>3, <2>7, KeptHasText
    <3> QED
      BY <2>4, <2>5, <2>7, <3>1
  <2> QED
    BY <2>6, <2>7
<1> QED
  BY <1>5, <1>6

(* Imports are faithful, whatever else runs: when a batch commits, every   *)
(* source of it that no other import raced for has one row, with the text  *)
(* it has first in the batch, and no row of another source has changed     *)
(* (import_knowledge, import_logs).                                        *)
THEOREM ImportsFaithful == KnowledgeSpec => ImportsAreFaithful
<1>1. KnowledgeInit => ImportInv
  BY ImportsBegin
<1>2. ImportInv /\ [KnowledgeNext]_knowledgeVars => ImportInv'
  BY ImportInvStep
<1> DEFINE
      Faithful ==
        \A i \in Importers : importer[i].pc = "flushed" /\ rows' # rows /\ importer'[i] = Closed =>
         LET owner == importer[i].owner
             items == importer[i].items
             Of(source, table) == {r \in table : r.owner = owner /\ r.source = source}
         IN
         /\ \A k \in DOMAIN items :
              /\ \A j \in 1..(k - 1) : items[j].source # items[k].source
              /\ <<owner, items[k].source>> \notin raced
              => \E r \in rows' :
                   /\ Of(items[k].source, rows') = {r}
                   /\ IF owner = LogTable /\ Of(items[k].source, rows) # {}
                      THEN r \in rows
                      ELSE r.title = items[k].title /\ r.content = items[k].content
         /\ \A r \in rows : r \in rows' \/ (r.owner = owner /\ r.owner # LogTable
              /\ \E k \in DOMAIN items : items[k].source = r.source)
<1>3. ImportInv /\ [KnowledgeNext]_knowledgeVars => [Faithful]_knowledgeVars
  <2> SUFFICES ASSUME ImportInv, KnowledgeNext, NEW i \in Importers,
                      importer[i].pc = "flushed", rows' # rows, importer'[i] = Closed
               PROVE  LET owner == importer[i].owner
                          items == importer[i].items
                          Of(source, table) == {r \in table : r.owner = owner /\ r.source = source}
                      IN
                      /\ \A k \in DOMAIN items :
                           /\ \A j \in 1..(k - 1) : items[j].source # items[k].source
                           /\ <<owner, items[k].source>> \notin raced
                           => \E r \in rows' :
                                /\ Of(items[k].source, rows') = {r}
                                /\ IF owner = LogTable /\ Of(items[k].source, rows) # {}
                                   THEN r \in rows
                                   ELSE r.title = items[k].title /\ r.content = items[k].content
                      /\ \A r \in rows : r \in rows' \/ (r.owner = owner /\ r.owner # LogTable
                           /\ \E k \in DOMAIN items : items[k].source = r.source)
    OBVIOUS
  <2> DEFINE owner == importer[i].owner
             items == importer[i].items
  <2>1. CommitImport(i)
    BY OnlyCommitsChangeRows
  <2>2. ASSUME NEW k \in DOMAIN items, \A j \in 1..(k - 1) : items[j].source # items[k].source,
               <<owner, items[k].source>> \notin raced
        PROVE  \E r \in rows' :
                 /\ {n \in rows' : n.owner = owner /\ n.source = items[k].source} = {r}
                 /\ IF owner = LogTable
                       /\ {n \in rows : n.owner = owner /\ n.source = items[k].source} # {}
                    THEN r \in rows
                    ELSE r.title = items[k].title /\ r.content = items[k].content
    <3>1. k \in UniqueItems(ItemsOf(i)) /\ items = ItemsOf(i)
      BY <2>2 DEF UniqueItems, ItemsOf
    <3>2. <<owner, ItemsOf(i)[k].source>> \notin raced
      BY <2>2 DEF ItemsOf
    <3> HIDE DEF items
    <3>3. \E r \in rows' :
            /\ {n \in rows' : n.owner = owner /\ n.source = ItemsOf(i)[k].source} = {r}
            /\ IF owner = LogTable /\ RowsOf(owner, ItemsOf(i)[k].source) # {}
               THEN r \in rows
               ELSE r.title = ItemsOf(i)[k].title /\ r.content = ItemsOf(i)[k].content
      BY <2>1, <3>1, <3>2, CommitIsFaithful
    <3> QED
      BY <3>1, <3>3 DEF RowsOf
  <2>3. ASSUME NEW r \in rows, r \notin rows'
        PROVE  r.owner = owner /\ r.owner # LogTable
               /\ \E k \in DOMAIN items : items[k].source = r.source
    <3>1. Kept(i, r) \in rows'
          /\ (Kept(i, r) = r \/ (r.owner = owner /\ r.owner # LogTable /\ r.source \in Sources(i)))
      BY <2>1, CommitRows
    <3>2. r.owner = owner /\ r.owner # LogTable /\ r.source \in Sources(i)
      BY <2>3, <3>1
    <3> QED
      BY <3>2 DEF Sources, ItemsOf
  <2> QED
    BY <2>2, <2>3
<1> QED
  BY <1>1, <1>2, <1>3, PTL DEF KnowledgeSpec, ImportsAreFaithful
=============================================================================
