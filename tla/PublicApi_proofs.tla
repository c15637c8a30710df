---------------------------- MODULE PublicApi_proofs ----------------------------
(***************************************************************************)
(* Proofs about the public API: Submission, for every set of requests,     *)
(* members, keys and bodies, however often each request is sent; Review    *)
(* and Console, for every set of pages, runs, owners, teams and drafts,    *)
(* and for every bound on what they do.                                    *)
(***************************************************************************)
EXTENDS Submission, Console, SequenceTheorems, TLAPS

-----------------------------------------------------------------------------
(* What the committed rows and the answers depend on *)

Drawn(r) == req[r].pc \in {"adding", "added", "committing"}

(* A run number that an open transaction has drawn is its own: no other    *)
(* transaction has it, and nothing was committed under it.                 *)
DrawnRunsAreOwn ==
    \A r \in Requests : Drawn(r) =>
        /\ req[r].run \in 1..lastRun /\ req[r].run \notin runs
        /\ \A q \in Requests : Drawn(q) /\ q # r => req[q].run # req[r].run

(* Whoever has inserted a key is the only one, now and in the tables.      *)
HoldersAreAlone ==
    \A r \in Requests :
        /\ At(r, "added") => Asks(r).kind = "alert"
        /\ HoldsJob(r) =>
             /\ \A j \in jobs : JobKey(j.asks) # JobKey(Asks(r))
             /\ \A q \in Rival(r) : HoldsJob(q) => JobKey(Asks(q)) # JobKey(Asks(r))
        /\ HoldsIncident(r) =>
             /\ \A i \in incidents : i.event # Asks(r).key
             /\ \A q \in Rival(r) : HoldsIncident(q) => Asks(q).key # Asks(r).key

(* Who was answered with a run was answered with a committed submission of *)
(* its key and body; who lost a race lost it to a committed one.           *)
AnswersAreCommitted ==
    \A r \in Requests :
        /\ Accepted(r) => \E hit \in Existing(r) : hit.run = req[r].run /\ SameBody(hit, r)
        /\ At(r, "lost") => Existing(r) # {}

(* No incident without its public run. *)
IncidentsHaveRuns == \A i \in incidents : i.run \in runs

IInv ==
    /\ TypeOK /\ RowsTogether /\ IncidentsHaveRuns
    /\ DrawnRunsAreOwn /\ HoldersAreAlone /\ AnswersAreCommitted

LEMMA InitInv == Init => IInv
  <1> SUFFICES ASSUME Init PROVE IInv
    OBVIOUS
  <1>1. PICK asked \in [Requests -> Contents] :
          req = [r \in Requests |-> [pc |-> "unsent", asks |-> asked[r], run |-> 0, sends |-> 0]]
    BY DEF Init
  <1>2. TypeOK
    BY <1>1, SendsAssumption DEF Init, TypeOK
  <1>3. RowsTogether /\ IncidentsHaveRuns
    BY DEF Init, RowsTogether, IncidentsHaveRuns
  <1>4. DrawnRunsAreOwn /\ HoldersAreAlone /\ AnswersAreCommitted
    BY <1>1 DEF DrawnRunsAreOwn, HoldersAreAlone, AnswersAreCommitted, Drawn, HoldsJob,
                HoldsIncident, At, Accepted
  <1>5. QED
    BY <1>2, <1>3, <1>4 DEF IInv

-----------------------------------------------------------------------------
(* Steps that leave the tables alone *)

(* A handler that goes on, with the rows and the numbers as they were. *)
LEMMA GotoInv ==
  ASSUME IInv, NEW r \in Requests, UNCHANGED <<runs, jobs, incidents, lastRun>>,
         NEW row \in [pc: Open \cup Answers \cup {"unsent"}, asks: Contents, run: 0..lastRun,
                      sends: 0..MaxSends],
         req' = [req EXCEPT ![r] = row], row.asks = Asks(r),
         row.pc \in {"adding", "added", "committing"} => Drawn(r) /\ row.run = req[r].run,
         row.pc = "added" => Asks(r).kind = "alert",
         row.pc \in {"added", "committing"} =>
             HoldsJob(r) \/ /\ \A j \in jobs : JobKey(j.asks) # JobKey(Asks(r))
                            /\ \A q \in Rival(r) : HoldsJob(q) => JobKey(Asks(q)) # JobKey(Asks(r)),
         row.pc = "committing" /\ Asks(r).kind = "alert" =>
             /\ \A i \in incidents : i.event # Asks(r).key
             /\ \A q \in Rival(r) : HoldsIncident(q) => Asks(q).key # Asks(r).key,
         row.pc = "accepted" => \E hit \in Existing(r) : hit.run = row.run /\ SameBody(hit, r),
         row.pc = "lost" => Existing(r) # {}
  PROVE  IInv'
  <1>1. /\ req'[r] = row /\ \A q \in Rival(r) : req'[q] = req[q]
        /\ \A q \in Requests : req'[q].asks = req[q].asks
    BY DEF IInv, TypeOK, Rival, Asks
  <1>2. TypeOK'
    BY DEF IInv, TypeOK
  <1>3. RowsTogether' /\ IncidentsHaveRuns'
    BY DEF IInv, RowsTogether, IncidentsHaveRuns
  <1>4. DrawnRunsAreOwn'
    <2>1. \A q \in Requests : Drawn(q)' => Drawn(q) /\ req'[q].run = req[q].run
      BY <1>1 DEF Drawn, Rival
    <2>2. QED
      BY <2>1 DEF IInv, DrawnRunsAreOwn
  <1>5. HoldersAreAlone'
    <2>1. ASSUME NEW q \in Requests, HoldsJob(q)'
          PROVE  /\ \A j \in jobs' : JobKey(j.asks) # JobKey(Asks(q)')
                 /\ \A p \in Rival(q) : HoldsJob(p)' => JobKey(Asks(p)') # JobKey(Asks(q)')
      BY <1>1, <2>1 DEF IInv, HoldersAreAlone, HoldsJob, Asks, Rival
    <2>2. ASSUME NEW q \in Requests, HoldsIncident(q)'
          PROVE  /\ \A i \in incidents' : i.event # Asks(q).key'
                 /\ \A p \in Rival(q) : HoldsIncident(p)' => Asks(p).key' # Asks(q).key'
      BY <1>1, <2>2 DEF IInv, HoldersAreAlone, HoldsIncident, At, Asks, Rival
    <2>3. ASSUME NEW q \in Requests, At(q, "added")' PROVE Asks(q).kind' = "alert"
      BY <1>1, <2>3 DEF IInv, HoldersAreAlone, At, Asks, Rival
    <2>4. QED
      BY <2>1, <2>2, <2>3 DEF HoldersAreAlone
  <1>6. AnswersAreCommitted'
    <2>1. \A q \in Requests : Existing(q)' = Existing(q)
      <3>1. \A q \in Requests : Asks(q)' = Asks(q)
        BY <1>1 DEF Asks
      <3>2. QED
        BY <3>1 DEF Existing, JobKey
    <2>2. \A hit : \A q \in Requests : SameBody(hit, q)' <=> SameBody(hit, q)
      BY <1>1 DEF SameBody, Asks
    <2> SUFFICES ASSUME NEW q \in Requests
                 PROVE  /\ Accepted(q)' =>
                             \E hit \in Existing(q)' : hit.run = req'[q].run /\ SameBody(hit, q)'
                        /\ At(q, "lost")' => Existing(q)' # {}
      BY DEF AnswersAreCommitted
    <2>3. CASE q = r
      BY <1>1, <2>1, <2>2, <2>3 DEF Accepted, At
    <2>4. CASE q # r
      BY <1>1, <2>1, <2>2, <2>4 DEF IInv, AnswersAreCommitted, Accepted, At, Rival
    <2>5. QED
      BY <2>3, <2>4
  <1>7. QED
    BY <1>2, <1>3, <1>4, <1>5, <1>6 DEF IInv

LEMMA SendInv ==
  ASSUME IInv, NEW r \in Requests, Send(r)
  PROVE  IInv'
  <1> DEFINE row == [req[r] EXCEPT !.pc = "looking", !.run = 0, !.sends = @ + 1]
  <1>1. /\ row \in [pc: Open \cup Answers \cup {"unsent"}, asks: Contents, run: 0..lastRun,
                    sends: 0..MaxSends]
        /\ row.pc = "looking" /\ row.asks = Asks(r)
    BY SendsAssumption DEF IInv, TypeOK, Send, Open, Asks
  <1>2. req' = [req EXCEPT ![r] = row] /\ UNCHANGED <<runs, jobs, incidents, lastRun>>
    BY DEF Send
  <1> HIDE DEF row
  <1>3. QED
    BY <1>1, <1>2, GotoInv

(* A request that is answered from a row that was found. *)
LEMMA ReplyInv ==
  ASSUME IInv, NEW r \in Requests, Reply(r, Existing(r)),
         UNCHANGED <<runs, jobs, incidents, lastRun>>
  PROVE  IInv' /\ req'[r].pc \in {"accepted", "conflict"}
  <1>1. PICK hit \in Existing(r) :
          req' = [req EXCEPT ![r].pc = IF SameBody(hit, r) THEN "accepted" ELSE "conflict",
                             ![r].run = IF SameBody(hit, r) THEN hit.run ELSE 0]
    BY DEF Reply
  <1> DEFINE pc == IF SameBody(hit, r) THEN "accepted" ELSE "conflict"
             run == IF SameBody(hit, r) THEN hit.run ELSE 0
             row == [req[r] EXCEPT !.pc = pc, !.run = run]
  <1>2. run \in 0..lastRun /\ pc \in {"accepted", "conflict"}
    BY DEF IInv, TypeOK, Existing
  <1>3. pc = "accepted" => SameBody(hit, r) /\ run = hit.run
    OBVIOUS
  <1>4. req' = [req EXCEPT ![r] = row]
    BY <1>1
  <1> HIDE DEF pc, run
  <1>5. /\ row \in [pc: Open \cup Answers \cup {"unsent"}, asks: Contents, run: 0..lastRun,
                    sends: 0..MaxSends]
        /\ row.pc = pc /\ row.asks = Asks(r) /\ row.run = run
    BY <1>2 DEF IInv, TypeOK, Answers, Asks
  <1> HIDE DEF row
  <1>6. IInv'
    BY <1>2, <1>3, <1>4, <1>5, GotoInv
  <1>7. req'[r].pc = pc
    BY <1>4, <1>5 DEF IInv, TypeOK
  <1>8. QED
    BY <1>2, <1>6, <1>7

(* A handler that only moves its program counter. *)
LEMMA PcInv ==
  ASSUME IInv, NEW r \in Requests, UNCHANGED <<runs, jobs, incidents, lastRun>>,
         NEW pc \in {"preparing", "added", "committing", "lost"}, Goto(r, pc),
         pc = "added" => Asks(r).kind = "alert",
         pc \in {"added", "committing"} =>
             /\ Drawn(r)
             /\ HoldsJob(r) \/ /\ \A j \in jobs : JobKey(j.asks) # JobKey(Asks(r))
                               /\ \A q \in Rival(r) :
                                    HoldsJob(q) => JobKey(Asks(q)) # JobKey(Asks(r)),
         pc = "committing" /\ Asks(r).kind = "alert" =>
             /\ \A i \in incidents : i.event # Asks(r).key
             /\ \A q \in Rival(r) : HoldsIncident(q) => Asks(q).key # Asks(r).key,
         pc = "lost" => Existing(r) # {}
  PROVE  IInv'
  <1> DEFINE row == [req[r] EXCEPT !.pc = pc]
  <1>1. /\ row \in [pc: Open \cup Answers \cup {"unsent"}, asks: Contents, run: 0..lastRun,
                    sends: 0..MaxSends]
        /\ row.pc = pc /\ row.asks = Asks(r) /\ row.run = req[r].run
    BY DEF IInv, TypeOK, Open, Asks
  <1>2. req' = [req EXCEPT ![r] = row]
    BY DEF Goto
  <1> HIDE DEF row
  <1>3. QED
    BY <1>1, <1>2, GotoInv

(* A transaction that fails leaves nothing but its answer. *)
LEMMA ErrorInv ==
  ASSUME IInv, NEW r \in Requests, UNCHANGED <<runs, jobs, incidents, lastRun>>,
         req' = [req EXCEPT ![r].pc = "error", ![r].run = 0]
  PROVE  IInv'
  <1> DEFINE row == [req[r] EXCEPT !.pc = "error", !.run = 0]
  <1>0. req[r] \in [pc: Open \cup Answers \cup {"unsent"}, asks: Contents, run: 0..lastRun,
                     sends: 0..MaxSends] /\ 0 \in 0..lastRun
    BY DEF IInv, TypeOK
  <1>1. /\ row \in [pc: Open \cup Answers \cup {"unsent"}, asks: Contents, run: 0..lastRun,
                    sends: 0..MaxSends]
        /\ row.pc = "error" /\ row.asks = Asks(r)
    BY <1>0 DEF Answers, Asks
  <1>2. req' = [req EXCEPT ![r] = row]
    OBVIOUS
  <1> HIDE DEF row
  <1>3. QED
    BY <1>1, <1>2, GotoInv

LEMMA LookInv ==
  ASSUME IInv, NEW r \in Requests, Look(r)
  PROVE  IInv'
  <1>1. CASE Reply(r, Existing(r))
    BY <1>1, ReplyInv DEF Look
  <1>2. CASE Goto(r, "preparing")
    BY <1>2, PcInv DEF Look
  <1>3. QED
    BY <1>1, <1>2 DEF Look

(* An insert that fails on uq_job_submission met a committed job: a task's *)
(* own, or an alert's, which has its incident.                             *)
LEMMA AddJobInv ==
  ASSUME IInv, NEW r \in Requests, AddJob(r)
  PROVE  IInv'
  <1>1. CASE \E j \in jobs : JobKey(j.asks) = JobKey(Asks(r))
    <2>1. PICK j \in jobs : JobKey(j.asks) = JobKey(Asks(r))
      BY <1>1
    <2>2. j.asks.kind = Asks(r).kind /\ j.asks.key = Asks(r).key
      BY <2>1 DEF JobKey
    <2>3. Asks(r).kind = "alert" => \E i \in incidents : i.event = Asks(r).key
      BY <2>2 DEF IInv, RowsTogether
    <2>4. Existing(r) # {}
      BY <2>1, <2>3, <2>2 DEF Existing, IInv, TypeOK, Contents, Kinds
    <2>5. QED
      BY <1>1, <2>4, PcInv DEF AddJob
  <1>2. CASE ~\E j \in jobs : JobKey(j.asks) = JobKey(Asks(r))
    <2>1. Drawn(r) /\ \A q \in Rival(r) : HoldsJob(q) => JobKey(Asks(q)) # JobKey(Asks(r))
      BY DEF AddJob, At, Drawn
    <2>2. CASE Asks(r).kind = "alert"
      BY <1>2, <2>1, <2>2, PcInv DEF AddJob
    <2>3. CASE Asks(r).kind # "alert"
      BY <1>2, <2>1, <2>3, PcInv DEF AddJob
    <2>4. QED
      BY <2>2, <2>3
  <1>3. QED
    BY <1>1, <1>2

LEMMA AddIncidentInv ==
  ASSUME IInv, NEW r \in Requests, AddIncident(r)
  PROVE  IInv'
  <1>1. /\ Drawn(r) /\ HoldsJob(r) /\ Asks(r).kind = "alert"
        /\ \A q \in Rival(r) : HoldsIncident(q) => Asks(q).key # Asks(r).key
    BY DEF AddIncident, At, Drawn, HoldsJob, IInv, HoldersAreAlone
  <1>2. CASE EventTaken(r)
    <2>1. Existing(r) # {}
      BY <1>1, <1>2 DEF EventTaken, Existing
    <2>2. QED
      BY <1>2, <2>1, PcInv DEF AddIncident
  <1>3. CASE ~EventTaken(r)
    BY <1>1, <1>3, PcInv DEF AddIncident, EventTaken
  <1>4. QED
    BY <1>2, <1>3

LEMMA RelookInv ==
  ASSUME IInv, NEW r \in Requests, Relook(r)
  PROVE  IInv' /\ req'[r].pc \in {"accepted", "conflict"}
  <1>1. Existing(r) # {}
    BY DEF Relook, IInv, AnswersAreCommitted
  <1>2. QED
    BY <1>1, ReplyInv DEF Relook, ExistingAfterRollback

-----------------------------------------------------------------------------
(* Steps that draw a number or write rows *)

(* A number that was just drawn is above all others. *)
LEMMA PrepareInv ==
  ASSUME IInv, NEW r \in Requests, Prepare(r)
  PROVE  IInv'
  <1>1. /\ lastRun \in Nat /\ lastRun' = lastRun + 1 /\ 1..lastRun \subseteq 1..lastRun'
        /\ 0..lastRun \subseteq 0..lastRun' /\ lastRun' \in 1..lastRun' /\ lastRun' \in 0..lastRun'
    BY DEF Prepare, IInv, TypeOK
  <1>2. UNCHANGED <<runs, jobs, incidents>>
    BY DEF Prepare
  <1>3. req' = [req EXCEPT ![r].pc = "adding", ![r].run = lastRun']
    BY DEF Prepare
  <1>4. /\ req'[r].pc = "adding" /\ req'[r].run = lastRun'
        /\ \A q \in Rival(r) : req'[q] = req[q]
        /\ \A q \in Requests : Asks(q)' = Asks(q)
    BY <1>3 DEF IInv, TypeOK, Rival, Asks
  <1>5. TypeOK'
    <2>1. req' \in [Requests -> [pc: Open \cup Answers \cup {"unsent"}, asks: Contents,
                                 run: 0..lastRun', sends: 0..MaxSends]]
      <3>1. "adding" \in Open
        BY DEF Open
      <3>2. req \in [Requests -> [pc: Open \cup Answers \cup {"unsent"}, asks: Contents,
                                  run: 0..lastRun', sends: 0..MaxSends]]
        BY <1>1 DEF IInv, TypeOK
      <3> HIDE DEF Open
      <3>3. QED
        BY <1>1, <1>3, <3>1, <3>2
    <2>2. /\ runs' \subseteq 1..lastRun' /\ lastRun' \in Nat
          /\ jobs' \subseteq [run: 1..lastRun', asks: Contents, body: Bodies]
          /\ incidents' \subseteq [run: 1..lastRun', event: Keys, body: Bodies]
      BY <1>1, <1>2 DEF IInv, TypeOK
    <2>3. QED
      BY <2>1, <2>2 DEF TypeOK
  <1>6. RowsTogether' /\ IncidentsHaveRuns'
    BY <1>2 DEF IInv, RowsTogether, IncidentsHaveRuns
  <1>7. DrawnRunsAreOwn'
    <2>1. ASSUME NEW q \in Rival(r), Drawn(q)'
          PROVE  /\ Drawn(q) /\ req'[q].run = req[q].run /\ req[q].run \in 1..lastRun
                 /\ req[q].run \notin runs
      BY <1>4, <2>1 DEF Drawn, Rival, IInv, DrawnRunsAreOwn
    <2>2. lastRun' \notin 1..lastRun /\ lastRun' \notin runs
      BY <1>1 DEF IInv, TypeOK
    <2>3. ASSUME NEW q \in Requests, Drawn(q)'
          PROVE  req'[q].run \in 1..lastRun' /\ req'[q].run \notin runs'
      BY <1>1, <1>2, <1>4, <2>1, <2>2, <2>3 DEF Rival
    <2>4. ASSUME NEW q \in Requests, NEW p \in Requests, Drawn(q)', Drawn(p)', p # q
          PROVE  req'[p].run # req'[q].run
      <3>1. CASE q = r
        BY <3>1, <2>1, <2>2, <2>4, <1>4 DEF Rival
      <3>2. CASE p = r
        BY <3>2, <2>1, <2>2, <2>4, <1>4 DEF Rival
      <3>3. CASE q # r /\ p # r
        BY <3>3, <2>1, <2>4 DEF Rival, IInv, DrawnRunsAreOwn
      <3>4. QED
        BY <3>1, <3>2, <3>3
    <2>5. QED
      BY <2>3, <2>4 DEF DrawnRunsAreOwn
  <1>8. HoldersAreAlone'
    <2>1. \A q \in Requests :
            /\ HoldsJob(q)' => HoldsJob(q)
            /\ HoldsIncident(q)' => HoldsIncident(q)
            /\ At(q, "added")' => At(q, "added")
      BY <1>4 DEF HoldsJob, HoldsIncident, At, Rival
    <2>2. QED
      BY <1>2, <1>4, <2>1 DEF IInv, HoldersAreAlone, Rival, JobKey
  <1>9. AnswersAreCommitted'
    <2>1. \A q \in Requests : Existing(q)' = Existing(q)
      BY <1>2, <1>4 DEF Existing, JobKey
    <2>2. \A hit : \A q \in Requests : SameBody(hit, q)' <=> SameBody(hit, q)
      BY <1>4 DEF SameBody
    <2>3. \A q \in Requests : Accepted(q)' \/ At(q, "lost")' => req'[q] = req[q]
      BY <1>4 DEF Accepted, At, Rival
    <2>4. QED
      BY <2>1, <2>2, <2>3 DEF IInv, AnswersAreCommitted, Accepted, At
  <1>10. QED
    BY <1>5, <1>6, <1>7, <1>8, <1>9 DEF IInv

(* The commit: run, job and incident become visible together.  Its number  *)
(* and its keys are its own, so they are new to the tables, and every      *)
(* other open transaction's stay new.                                      *)
LEMMA CommitInv ==
  ASSUME IInv, NEW r \in Requests, Commit(r)
  PROVE  IInv'
  <1> DEFINE c == Asks(r)
             n == req[r].run
             job == [run |-> n, asks |-> c, body |-> c.body]
             incident == [run |-> n, event |-> c.key, body |-> c.body]
  <1>1. /\ At(r, "committing") /\ Drawn(r) /\ HoldsJob(r)
        /\ c.kind = "alert" => HoldsIncident(r)
        /\ c \in Contents /\ n \in 1..lastRun /\ n \notin runs
        /\ c.kind \in {"task", "alert"}
    BY DEF Commit, At, Drawn, HoldsJob, HoldsIncident, IInv, TypeOK, DrawnRunsAreOwn, Asks,
           Contents, Kinds
  <1>2. /\ runs' = runs \cup {n} /\ jobs' = jobs \cup {job} /\ lastRun' = lastRun
        /\ c.kind = "task" => incidents' = incidents
        /\ c.kind = "alert" => incidents' = incidents \cup {incident}
    BY <1>1 DEF Commit
  <1>3. /\ req'[r] = [req[r] EXCEPT !.pc = "accepted"]
        /\ req'[r].pc = "accepted" /\ req'[r].run = n
        /\ \A q \in Rival(r) : req'[q] = req[q]
        /\ \A q \in Requests : Asks(q)' = Asks(q)
    BY DEF Commit, Goto, IInv, TypeOK, Rival, Asks
  <1>4. TypeOK'
    <2>1. req' \in [Requests -> [pc: Open \cup Answers \cup {"unsent"}, asks: Contents,
                                 run: 0..lastRun', sends: 0..MaxSends]]
      BY <1>2 DEF Commit, Goto, IInv, TypeOK, Answers
    <2>2. /\ job \in [run: 1..lastRun, asks: Contents, body: Bodies]
          /\ incident \in [run: 1..lastRun, event: Keys, body: Bodies]
      BY <1>1 DEF Contents
    <2>3. QED
      BY <1>1, <1>2, <2>1, <2>2 DEF IInv, TypeOK
  <1>5. /\ \A j \in jobs : j.run # n /\ JobKey(j.asks) # JobKey(c)
        /\ \A i \in incidents : i.run # n
        /\ c.kind = "alert" => \A i \in incidents : i.event # c.key
    BY <1>1 DEF IInv, RowsTogether, IncidentsHaveRuns, HoldersAreAlone
  <1>6. /\ job.run = n /\ job.asks = c /\ job.body = c.body
        /\ incident.run = n /\ incident.event = c.key /\ incident.body = c.body
    OBVIOUS
  <1> HIDE DEF n, c, job, incident
  <1>7. IncidentsHaveRuns'
    BY <1>1, <1>2, <1>6 DEF IInv, IncidentsHaveRuns
  <1>8. RowsTogether'
    <2>1. \A m \in runs' : \E j \in jobs' : j.run = m
      BY <1>2, <1>6 DEF IInv, RowsTogether
    <2>2. \A j, k \in jobs' : j.run = k.run \/ JobKey(j.asks) = JobKey(k.asks) => j = k
      BY <1>2, <1>5, <1>6 DEF IInv, RowsTogether
    <2>3. \A i, k \in incidents' : i.run = k.run \/ i.event = k.event => i = k
      BY <1>1, <1>2, <1>5, <1>6 DEF IInv, RowsTogether
    <2>4. ASSUME NEW j \in jobs'
          PROVE  /\ j.run \in runs'
                 /\ (j.asks.kind = "alert") <=>
                      (\E i \in incidents' : i.run = j.run /\ i.event = j.asks.key)
      <3>1. CASE j = job
        BY <3>1, <1>1, <1>2, <1>5, <1>6
      <3>2. CASE j \in jobs
        BY <3>2, <1>1, <1>2, <1>5, <1>6 DEF IInv, RowsTogether
      <3>3. QED
        BY <3>1, <3>2, <1>2
    <2>5. QED
      BY <2>1, <2>2, <2>3, <2>4 DEF RowsTogether
  <1>9. DrawnRunsAreOwn'
    <2>1. \A q \in Requests : Drawn(q)' => q \in Rival(r) /\ Drawn(q) /\ req'[q].run = req[q].run
      BY <1>3 DEF Drawn, Rival
    <2>2. \A q \in Rival(r) : Drawn(q) => req[q].run # n
      BY <1>1 DEF IInv, DrawnRunsAreOwn, Rival, n
    <2>3. QED
      BY <1>2, <2>1, <2>2 DEF IInv, DrawnRunsAreOwn, Rival
  <1>10. HoldersAreAlone'
    <2>1. \A q \in Requests :
            /\ HoldsJob(q)' => HoldsJob(q) /\ q \in Rival(r)
            /\ HoldsIncident(q)' => HoldsIncident(q) /\ q \in Rival(r)
            /\ At(q, "added")' => At(q, "added")
      BY <1>3 DEF HoldsJob, HoldsIncident, At, Rival
    <2>2. \A q \in Rival(r) :
            /\ HoldsJob(q) => JobKey(Asks(q)) # JobKey(c)
            /\ HoldsIncident(q) /\ c.kind = "alert" => Asks(q).key # c.key
      BY <1>1 DEF IInv, HoldersAreAlone, c
    <2>3. ASSUME NEW q \in Requests, HoldsJob(q)'
          PROVE  /\ \A j \in jobs' : JobKey(j.asks) # JobKey(Asks(q)')
                 /\ \A p \in Rival(q) : HoldsJob(p)' => JobKey(Asks(p)') # JobKey(Asks(q)')
      BY <1>2, <1>3, <1>6, <2>1, <2>2, <2>3 DEF IInv, HoldersAreAlone, Rival
    <2>4. ASSUME NEW q \in Requests, HoldsIncident(q)'
          PROVE  /\ \A i \in incidents' : i.event # Asks(q)'.key
                 /\ \A p \in Rival(q) : HoldsIncident(p)' => Asks(p)'.key # Asks(q)'.key
      BY <1>1, <1>2, <1>3, <1>6, <2>1, <2>2, <2>4 DEF IInv, HoldersAreAlone, Rival
    <2>5. \A q \in Requests : At(q, "added")' => Asks(q)'.kind = "alert"
      BY <1>3, <2>1 DEF IInv, HoldersAreAlone
    <2>6. \A k, l : JobKey(k)' = JobKey(k)
      BY DEF JobKey
    <2>7. QED
      BY <2>3, <2>4, <2>5, <2>6 DEF HoldersAreAlone, Rival, JobKey
  <1>11. AnswersAreCommitted'
    <2>1. \A q \in Requests : Existing(q) \subseteq Existing(q)'
      BY <1>1, <1>2, <1>3 DEF Existing, JobKey
    <2>2. \A hit : \A q \in Requests : SameBody(hit, q)' <=> SameBody(hit, q)
      BY <1>3 DEF SameBody
    <2>3. \E hit \in Existing(r)' : hit.run = n /\ SameBody(hit, r)'
      <3>1. CASE c.kind = "task"
        BY <3>1, <1>2, <1>3, <1>6 DEF Existing, SameBody, JobKey, c
      <3>2. CASE c.kind = "alert"
        BY <3>2, <1>2, <1>3, <1>6 DEF Existing, SameBody, c
      <3>3. QED
        BY <1>1, <3>1, <3>2
    <2>4. ASSUME NEW q \in Rival(r)
          PROVE  /\ Accepted(q)' =>
                      \E hit \in Existing(q)' : hit.run = req'[q].run /\ SameBody(hit, q)'
                 /\ At(q, "lost")' => Existing(q)' # {}
      BY <1>3, <2>1, <2>2 DEF IInv, AnswersAreCommitted, Accepted, At, Rival
    <2>5. QED
      BY <1>3, <2>3, <2>4 DEF AnswersAreCommitted, Accepted, At, Rival
  <1>12. QED
    BY <1>4, <1>7, <1>8, <1>9, <1>10, <1>11 DEF IInv

-----------------------------------------------------------------------------

LEMMA StepInv == IInv /\ [Next]_vars => IInv'
  <1> SUFFICES ASSUME IInv, [Next]_vars PROVE IInv'
    OBVIOUS
  <1>1. ASSUME NEW r \in Requests, Fail(r) PROVE IInv'
    BY <1>1, ErrorInv DEF Fail
  <1>2. CASE UNCHANGED vars
    BY <1>2 DEF vars, IInv, TypeOK, RowsTogether, IncidentsHaveRuns, DrawnRunsAreOwn,
                HoldersAreAlone, AnswersAreCommitted, Drawn, HoldsJob, HoldsIncident, At,
                Asks, Rival, JobKey, Existing, SameBody, Accepted
  <1>3. QED
    BY <1>1, <1>2, SendInv, LookInv, PrepareInv, AddJobInv, AddIncidentInv, CommitInv, RelookInv
       DEF Next, Handle, Idle

LEMMA Invariance == Spec => []IInv
  BY InitInv, StepInv, PTL DEF Spec

(* However often and by whomever a task or an alert is submitted, whatever *)
(* is repeated, raced or rolled back: run, job and incident exist together *)
(* and once, and everyone who was answered was answered with that run, for *)
(* the body it was made for.                                               *)
THEOREM SubmissionsAreWhole == Spec => []SubmissionIsWhole
  <1>1. IInv => OneRunPerSubmission
    <2> SUFFICES ASSUME IInv, NEW r \in Requests, NEW q \in Requests, Accepted(r), Accepted(q),
                        SameSubmission(Asks(r), Asks(q))
                 PROVE  req[r].run = req[q].run /\ Asks(r).body = Asks(q).body
      BY DEF OneRunPerSubmission
    <2>1. PICK hit \in Existing(r) : hit.run = req[r].run /\ SameBody(hit, r)
      BY DEF IInv, AnswersAreCommitted
    <2>2. PICK other \in Existing(q) : other.run = req[q].run /\ SameBody(other, q)
      BY DEF IInv, AnswersAreCommitted
    <2>3. hit = other
      BY <2>1, <2>2 DEF Existing, SameSubmission, JobKey, IInv, RowsTogether
    <2>4. QED
      BY <2>1, <2>2, <2>3 DEF SameBody
  <1>2. IInv => SubmissionIsWhole
    BY <1>1 DEF IInv, SubmissionIsWhole
  <1>3. QED
    BY <1>2, Invariance, PTL

(* Whoever loses the race for a key finds the winner when it reads again:  *)
(* the IntegrityError is never passed on to the client.                    *)
THEOREM LosersAreAnswered == Spec => LoserIsAnswered
  <1>1. IInv /\ [Next]_vars =>
          [\A r \in Requests : At(r, "lost") /\ Relook(r) => req'[r].pc # "error"]_vars
    BY RelookInv
  <1>2. QED
    BY <1>1, Invariance, PTL DEF Spec, LoserIsAnswered

-----------------------------------------------------------------------------
(* Reviews: what the history depends on *)

(* A save whose UPDATE or INSERT has gone through holds the row alone, and *)
(* the row is still the version the save was drafted from.                 *)
WritersAreAlone ==
    \A r \in Reviewers : patch[r].pc = "written" =>
        /\ patch[r].expected = review[patch[r].case].version
        /\ \A s \in Reviewers \ {r} : patch[s].pc = "written" => patch[s].case # patch[r].case

(* What a content claims has happened to the run it is about. *)
Justified(content, c) ==
    /\ content.feedback # "unreviewed" => runStatus[c] \in Finished
    /\ content.handling # "open" => content.owner # Nobody
    /\ content.handling = "resolved" => content.feedback # "unreviewed" /\ content.note

(* What the checks found when they were made is so until the commit. *)
ChecksStillHold ==
    \A r \in Reviewers : patch[r].pc \in {"writing", "written"} =>
        Justified(patch[r].draft, patch[r].case)

ReviewInv == ReviewIsAccounted /\ WritersAreAlone /\ ChecksStillHold

(* What any step around the reviews may be. *)
ReviewStep ==
    \/ Around
    \/ \E r \in Reviewers : HandlePatch(r) \/ FailPatch(r)
    \/ \E r \in Reviewers, c \in Cases, version \in Nat, draft \in Drafts :
         SendPatch(r, c, version, draft)

LEMMA BlankIsContent == Blank \in Content /\ \A c \in Cases : Justified(Blank, c)
  BY DEF Blank, Content, Handling, Feedback, Justified

LEMMA ReviewInitInv == ReviewInit => ReviewInv
  <1> SUFFICES ASSUME ReviewInit PROVE ReviewInv
    OBVIOUS
  <1> USE BlankIsContent, DraftsAssumption
  <1>1. ReviewTypeOK
    <2>1. PICK sends \in [Reviewers -> 0..MaxSaves] :
            patch = [r \in Reviewers |-> [pc |-> "unsent", case |-> CHOOSE c \in Cases : TRUE,
                                          expected |-> 0, draft |-> Blank, sends |-> sends[r]]]
      BY DEF ReviewInit
    <2>2. (CHOOSE c \in Cases : TRUE) \in Cases
      OBVIOUS
    <2>3. patch \in [Reviewers -> Patches]
      BY <2>1, <2>2 DEF Patches
    <2>4. QED
      BY <2>3 DEF ReviewInit, ReviewTypeOK, ReviewRows, Finished
  <1>2. HistoryIsWhole /\ ReviewIsJustified /\ WritersAreAlone /\ ChecksStillHold
    BY DEF ReviewInit, HistoryIsWhole, ReviewIsJustified, WritersAreAlone, ChecksStillHold,
           Justified
  <1>3. QED
    BY <1>1, <1>2 DEF ReviewInv, ReviewIsAccounted

(* A finished run stays finished, so nothing claimed of it is undone. *)
LEMMA AroundInv == ReviewInv /\ Around => ReviewInv'
  <1> SUFFICES ASSUME ReviewInv, Around PROVE ReviewInv'
    OBVIOUS
  <1> USE DEF ReviewInv, ReviewIsAccounted
  <1>1. UNCHANGED <<review, notes, patch>>
    BY DEF Around, FinishCase, LeaveTeam
  <1>2. /\ runStatus' \in [Cases -> Finished \cup {"running"}]
        /\ \A c \in Cases : runStatus[c] \in Finished => runStatus'[c] \in Finished
    BY DEF Around, FinishCase, LeaveTeam, ReviewTypeOK, Finished
  <1>3. ReviewTypeOK'
    BY <1>1, <1>2 DEF ReviewTypeOK, Around, FinishCase, LeaveTeam
  <1>4. HistoryIsWhole' /\ WritersAreAlone'
    BY <1>1 DEF HistoryIsWhole, WritersAreAlone
  <1>5. ReviewIsJustified' /\ ChecksStillHold'
    BY <1>1, <1>2 DEF ReviewIsJustified, ChecksStillHold, Justified, ReviewTypeOK, Patches
  <1>6. QED
    BY <1>3, <1>4, <1>5

LEMMA SendPatchInv ==
  ASSUME ReviewInv, NEW r \in Reviewers, NEW c \in Cases, NEW version \in Nat,
         NEW draft \in Drafts, SendPatch(r, c, version, draft)
  PROVE  ReviewInv'
  <1> USE DEF ReviewInv, ReviewIsAccounted
  <1>1. UNCHANGED <<runStatus, present, review, notes>>
    BY DEF SendPatch
  <1>2. /\ patch'[r].pc = "checking" /\ patch'[r] \in Patches
        /\ \A s \in Reviewers \ {r} : patch'[s] = patch[s]
        /\ patch' \in [Reviewers -> Patches]
    BY DraftsAssumption DEF SendPatch, ReviewTypeOK, Patches
  <1>3. ReviewTypeOK' /\ HistoryIsWhole' /\ ReviewIsJustified'
    BY <1>1, <1>2 DEF ReviewTypeOK, HistoryIsWhole, ReviewIsJustified
  <1>4. WritersAreAlone'
    BY <1>1, <1>2 DEF WritersAreAlone
  <1>5. ChecksStillHold'
    BY <1>1, <1>2 DEF ChecksStillHold, Justified
  <1>6. QED
    BY <1>3, <1>4, <1>5

(* A handler that only goes on: to its refusal, its writes or its error. *)
LEMMA SaveStepInv ==
  ASSUME ReviewInv, NEW r \in Reviewers, NEW pc \in Answered \cup {"writing", "written"},
         Step(r, pc),
         pc = "writing" => Justified(patch[r].draft, patch[r].case),
         pc = "written" => patch[r].pc = "writing" /\ ~RowLocked(r) /\ VersionFits(r)
  PROVE  ReviewInv'
  <1> USE DEF ReviewInv, ReviewIsAccounted
  <1>1. UNCHANGED <<runStatus, present, review, notes>>
    BY DEF Step
  <1>2. /\ patch'[r].pc = pc /\ patch'[r].case = patch[r].case
        /\ patch'[r].expected = patch[r].expected /\ patch'[r].draft = patch[r].draft
        /\ \A s \in Reviewers \ {r} : patch'[s] = patch[s]
        /\ patch' \in [Reviewers -> Patches]
    BY DEF Step, ReviewTypeOK, Patches
  <1>3. ReviewTypeOK' /\ HistoryIsWhole' /\ ReviewIsJustified'
    BY <1>1, <1>2 DEF ReviewTypeOK, HistoryIsWhole, ReviewIsJustified
  <1>4. WritersAreAlone'
    <2>1. CASE pc = "written"
      BY <1>1, <1>2, <2>1 DEF WritersAreAlone, RowLocked, VersionFits
    <2>2. CASE pc # "written"
      BY <1>1, <1>2, <2>2 DEF WritersAreAlone
    <2>3. QED
      BY <2>1, <2>2
  <1>5. ChecksStillHold'
    <2>1. \A s \in Reviewers : patch'[s].pc \in {"writing", "written"} =>
            Justified(patch[s].draft, patch[s].case)
      BY <1>2 DEF ChecksStillHold
    <2>2. \A s \in Reviewers : patch'[s].draft = patch[s].draft /\ patch'[s].case = patch[s].case
      BY <1>2
    <2>3. QED
      BY <1>1, <2>1, <2>2 DEF ChecksStillHold, Justified
  <1>6. QED
    BY <1>3, <1>4, <1>5

(* The commit of a save that holds the row: since the row is as expected   *)
(* and the history is whole, there is no note of the new version yet.      *)
LEMMA CommitPatchInv ==
  ASSUME ReviewInv, NEW r \in Reviewers, CommitPatch(r)
  PROVE  ReviewInv'
  <1> USE DEF ReviewInv, ReviewIsAccounted
  <1> DEFINE p == patch[r]
             note == [actor |-> r, basis |-> p.expected, content |-> p.draft]
  <1>1. /\ p \in Patches /\ p.pc = "written" /\ p.expected = review[p.case].version
        /\ \A s \in Reviewers \ {r} : patch[s].pc = "written" => patch[s].case # p.case
        /\ note \in NoteRows
    BY DEF CommitPatch, WritersAreAlone, ReviewTypeOK, Patches, NoteRows
  <1>2. NoteFits(r)
    BY <1>1 DEF NoteFits, HistoryIsWhole, Patches
  <1>3. /\ review' = [review EXCEPT ![p.case] = [version |-> p.expected + 1, content |-> p.draft]]
        /\ notes' = [notes EXCEPT ![p.case] = Append(@, note)]
        /\ patch' = [patch EXCEPT ![r].pc = "saved"]
        /\ UNCHANGED <<runStatus, present>>
    BY <1>2 DEF CommitPatch
  <1>4. /\ patch' \in [Reviewers -> Patches] /\ patch'[r].pc = "saved"
        /\ \A s \in Reviewers \ {r} : patch'[s] = patch[s]
    BY <1>3, <1>1 DEF ReviewTypeOK, Patches, Answered
  <1>5. /\ review' \in [Cases -> ReviewRows]
        /\ review'[p.case] = [version |-> p.expected + 1, content |-> p.draft]
        /\ \A c \in Cases \ {p.case} : review'[c] = review[c]
    BY <1>3, <1>1 DEF ReviewTypeOK, Patches, ReviewRows
  <1>6. /\ DOMAIN notes' = Cases /\ notes'[p.case] = Append(notes[p.case], note)
        /\ \A c \in Cases \ {p.case} : notes'[c] = notes[c]
    BY <1>3, <1>1 DEF ReviewTypeOK, Patches
  <1>7. /\ notes[p.case] \in Seq(NoteRows)
        /\ notes'[p.case] \in Seq(NoteRows)
        /\ Len(notes'[p.case]) = Len(notes[p.case]) + 1
        /\ \A i \in 1..Len(notes[p.case]) : notes'[p.case][i] = notes[p.case][i]
        /\ notes'[p.case][Len(notes[p.case]) + 1] = note
    <2>1. notes[p.case] \in Seq(NoteRows)
      BY <1>1 DEF ReviewTypeOK, Patches
    <2>2. QED
      BY <2>1, <1>6, <1>1, AppendProperties
  <1>8. ReviewTypeOK'
    BY <1>1, <1>3, <1>4, <1>5, <1>6, <1>7 DEF ReviewTypeOK
  <1>9. HistoryIsWhole'
    <2> SUFFICES ASSUME NEW c \in Cases
                 PROVE  /\ Len(notes'[c]) = review'[c].version
                        /\ \A i \in 1..Len(notes'[c]) : notes'[c][i].basis = i - 1
                        /\ notes'[c] # <<>> => Last(notes'[c]).content = review'[c].content
      BY DEF HistoryIsWhole
    <2>1. CASE c # p.case
      BY <2>1, <1>5, <1>6 DEF HistoryIsWhole
    <2>2. CASE c = p.case
      <3>1. Len(notes[c]) = p.expected /\ Len(notes[c]) \in Nat
        BY <2>2, <1>1, <1>7, LenProperties DEF HistoryIsWhole
      <3>2. \A i \in 1..Len(notes[c]) : notes[c][i].basis = i - 1
        BY DEF HistoryIsWhole
      <3>3. Last(notes'[c]) = note
        BY <2>2, <1>7, <3>1 DEF Last
      <3>4. Len(notes'[c]) = review'[c].version /\ note.content = review'[c].content
        BY <2>2, <3>1, <1>5, <1>7
      <3>5. ASSUME NEW i \in 1..Len(notes'[c]) PROVE notes'[c][i].basis = i - 1
        <4>1. CASE i \in 1..Len(notes[c])
          BY <4>1, <2>2, <3>2, <1>7
        <4>2. CASE i = Len(notes[c]) + 1
          BY <4>2, <2>2, <3>1, <1>7
        <4>3. QED
          BY <4>1, <4>2, <2>2, <3>1, <1>7
      <3>6. QED
        BY <3>3, <3>4, <3>5
    <2>3. QED
      BY <2>1, <2>2
  <1>10. ReviewIsJustified'
    BY <1>1, <1>3, <1>5 DEF ReviewIsJustified, ChecksStillHold, Justified
  <1>11. WritersAreAlone'
    <2> SUFFICES ASSUME NEW s \in Reviewers, patch'[s].pc = "written"
                 PROVE  /\ patch'[s].expected = review'[patch'[s].case].version
                        /\ \A t \in Reviewers \ {s} :
                             patch'[t].pc = "written" => patch'[t].case # patch'[s].case
      BY DEF WritersAreAlone
    <2>1. s # r /\ patch'[s] = patch[s] /\ patch[s].case \in Cases \ {p.case}
      BY <1>1, <1>4 DEF ReviewTypeOK, Patches
    <2>2. patch'[s].expected = review'[patch'[s].case].version
      BY <2>1, <1>5 DEF WritersAreAlone
    <2>3. \A t \in Reviewers \ {s} : patch'[t].pc = "written" => t # r /\ patch'[t] = patch[t]
      BY <1>4
    <2>4. QED
      BY <2>1, <2>2, <2>3 DEF WritersAreAlone
  <1>12. ChecksStillHold'
    BY <1>3, <1>4 DEF ChecksStillHold, Justified
  <1>13. QED
    BY <1>8, <1>9, <1>10, <1>11, <1>12

LEMMA ReviewStepInv == ReviewInv /\ [ReviewStep]_reviewVars => ReviewInv'
  <1> SUFFICES ASSUME ReviewInv, [ReviewStep]_reviewVars PROVE ReviewInv'
    OBVIOUS
  <1>1. CASE Around
    BY <1>1, AroundInv
  <1>2. ASSUME NEW r \in Reviewers, CheckPatch(r) PROVE ReviewInv'
    <2>1. Refusal(patch[r].draft, patch[r].case) = "none" =>
            Justified(patch[r].draft, patch[r].case)
      BY DEF Refusal, WrongOwner, EarlyFeedback, Unexplained, Justified
    <2>2. Refusal(patch[r].draft, patch[r].case) \in Refusals \cup {"none"}
      BY DEF Refusal, Refusals
    <2>3. QED
      BY <1>2, <2>1, <2>2, SaveStepInv DEF CheckPatch, Answered, Refusals
  <1>3. ASSUME NEW r \in Reviewers, WritePatch(r) PROVE ReviewInv'
    BY <1>3, SaveStepInv DEF WritePatch, Answered, Refusals
  <1>4. ASSUME NEW r \in Reviewers, FailPatch(r) PROVE ReviewInv'
    BY <1>4, SaveStepInv DEF FailPatch, Answered, Refusals
  <1>5. CASE UNCHANGED reviewVars
    BY <1>5 DEF ReviewInv, ReviewIsAccounted, ReviewTypeOK, HistoryIsWhole, ReviewIsJustified,
                WritersAreAlone, ChecksStillHold, Justified, reviewVars
  <1>6. QED
    BY <1>1, <1>2, <1>3, <1>4, <1>5, CommitPatchInv, SendPatchInv DEF ReviewStep, HandlePatch
-----------------------------------------------------------------------------
(* The page: what its flags and its record depend on *)

(* A form that can be sent, or was, is of the record it was drawn from, and *)
(* the record is the shown run's as long as somebody is logged in.          *)
PageIsSound(p) ==
    /\ p \in PageStates
    /\ p.form.enabled \/ p.form.saving =>
         p.collaboration # NoReview /\ p.form.case = p.collaboration.case
    /\ p.collaboration # NoReview => p.collaboration.case \in Cases \ {None}
    /\ p.user /\ p.collaboration # NoReview =>
         p.collaboration.case = p.result /\ CaseTeam[p.result] = p.team

(* A request about a review names a run; its answer is of that run's team. *)
RequestIsSound(q) ==
    /\ q \in PageRequests
    /\ q.kind \in {"review", "refresh", "save"} => q.case \in Cases \ {None}
    /\ q.kind = "save" \/ (q.kind = "review" /\ q.answer = "ok") => CaseTeam[q.case] = q.team
    /\ q.kind = "stream" => q.answer # "unauthorized"

Acting == {"submit", "approve", "stream"}

(* Whatever blocks the page is still under way. *)
FlagsAreHeld(p, requests) ==
    /\ p.busy => \E q \in requests : q.kind \in Acting
    /\ p.collaborationBusy => \E q \in requests : q.kind = "save"

ConsoleInv ==
    /\ session \in BOOLEAN /\ clicks \in 0..MaxClicks
    /\ PageIsSound(page)
    /\ \A q \in flight : RequestIsSound(q)
    /\ FlagsAreHeld(page, flight)

-----------------------------------------------------------------------------
(* What each helper of the page makes of a sound page *)

LEMMA RenderSound ==
  ASSUME NEW p, PageIsSound(p)
  PROVE  /\ PageIsSound(Render(p))
         /\ Render(p).busy = p.busy /\ Render(p).collaborationBusy = p.collaborationBusy
  BY DEF PageIsSound, Render, NoForm, NoReview, PageStates, Forms, Records

(* A record of the shown run, of the selected team, is drawn. *)
LEMMA RedrawnSound ==
  ASSUME NEW p \in PageStates, p.collaboration.case \in Cases \ {None},
         p.collaboration.case = p.result, CaseTeam[p.result] = p.team
  PROVE  /\ PageIsSound(Render(p))
         /\ Render(p).busy = p.busy /\ Render(p).collaborationBusy = p.collaborationBusy
  BY DEF PageIsSound, Render, NoForm, NoReview, PageStates, Forms, Records

LEMMA ShowRunSound ==
  ASSUME NEW p, PageIsSound(p), NEW case \in Cases \cup {None}
  PROVE  /\ PageIsSound(ShowRun(p, case))
         /\ ShowRun(p, case).busy = p.busy
         /\ ShowRun(p, case).collaborationBusy = p.collaborationBusy
  <1> DEFINE shown == [p EXCEPT !.result = case, !.collaboration = NoReview, !.content = "plan"]
  <1>1. /\ shown \in PageStates /\ shown.content = "plan" /\ shown.collaboration = NoReview
        /\ shown.busy = p.busy /\ shown.collaborationBusy = p.collaborationBusy
    BY DEF PageIsSound, PageStates, Records, NoReview
  <1>2. ShowRun(p, case) = Render(shown)
    BY DEF ShowRun
  <1> HIDE DEF shown
  <1>3. Render(shown) = [shown EXCEPT !.form = NoForm]
    BY <1>1 DEF Render
  <1> DEFINE drawn == [shown EXCEPT !.form = NoForm]
  <1>4. NoForm \in Forms /\ ~NoForm.enabled /\ ~NoForm.saving
    BY DEF NoForm, Forms
  <1>5. /\ drawn \in PageStates /\ drawn.form = NoForm /\ drawn.collaboration = NoReview
        /\ drawn.busy = p.busy /\ drawn.collaborationBusy = p.collaborationBusy
    BY <1>1, <1>4 DEF PageStates
  <1>6. PageIsSound(drawn)
    BY <1>4, <1>5 DEF PageIsSound
  <1>7. QED
    BY <1>2, <1>3, <1>5, <1>6

LEMMA ResetSound ==
  ASSUME NEW p, PageIsSound(p)
  PROVE  /\ PageIsSound(Reset(p))
         /\ Reset(p).busy = p.busy /\ Reset(p).collaborationBusy = p.collaborationBusy
         /\ Reset(p).collaboration = NoReview
  BY DEF PageIsSound, Reset, NoForm, NoReview, PageStates, Forms, Records

LEMMA EnterSound ==
  ASSUME NEW p, PageIsSound(p), p.collaboration = NoReview, NEW team \in Teams
  PROVE  /\ PageIsSound([p EXCEPT !.user = TRUE, !.team = team])
         /\ [p EXCEPT !.user = TRUE, !.team = team].busy = p.busy
         /\ [p EXCEPT !.user = TRUE, !.team = team].collaborationBusy = p.collaborationBusy
  BY DEF PageIsSound, NoReview, PageStates

LEMMA ShowLoginSound ==
  ASSUME NEW p, PageIsSound(p)
  PROVE  /\ PageIsSound(ShowLogin(p))
         /\ ShowLogin(p).busy = p.busy /\ ShowLogin(p).collaborationBusy = p.collaborationBusy
  BY DEF PageIsSound, ShowLogin, PageStates

LEMMA SettleSound ==
  ASSUME NEW p, PageIsSound(p)
  PROVE  /\ PageIsSound(Settle(p))
         /\ Settle(p).busy = p.busy /\ ~Settle(p).collaborationBusy
  <1> DEFINE form == [p.form EXCEPT !.enabled = p.form.enabled \/ p.form.saving, !.saving = FALSE]
  <1>1. /\ form \in Forms /\ form.case = p.form.case /\ ~form.saving
        /\ form.enabled => p.form.enabled \/ p.form.saving
    BY DEF PageIsSound, PageStates, Forms
  <1>2. Settle(p) = [p EXCEPT !.collaborationBusy = FALSE, !.form = form]
    BY DEF Settle
  <1> HIDE DEF form
  <1> DEFINE settled == [p EXCEPT !.collaborationBusy = FALSE, !.form = form]
  <1>3. /\ settled \in PageStates /\ settled.form = form /\ ~settled.collaborationBusy
        /\ settled.busy = p.busy /\ settled.user = p.user /\ settled.team = p.team
        /\ settled.result = p.result /\ settled.collaboration = p.collaboration
    BY <1>1 DEF PageIsSound, PageStates
  <1>4. PageIsSound(settled)
    BY <1>1, <1>3 DEF PageIsSound
  <1>5. QED
    BY <1>2, <1>3, <1>4

LEMMA BusySound ==
  ASSUME NEW p, PageIsSound(p), NEW busy \in BOOLEAN
  PROVE  /\ PageIsSound([p EXCEPT !.busy = busy])
         /\ [p EXCEPT !.busy = busy].busy = busy
         /\ [p EXCEPT !.busy = busy].collaborationBusy = p.collaborationBusy
  BY DEF PageIsSound, PageStates

(* A new request carries the page's team and awaits its answer. *)
LEMMA RequestSound ==
  ASSUME NEW p, PageIsSound(p), NEW case \in Cases \cup {None},
         NEW kind \in {"history", "detail", "review", "refresh", "submit", "approve", "stream",
                       "logout"},
         kind \in {"review", "refresh"} => case # None
  PROVE  RequestIsSound(RequestOf(p, kind, case)) /\ RequestOf(p, kind, case).kind = kind
  BY DEF PageIsSound, RequestIsSound, RequestOf, PageStates, PageRequests

-----------------------------------------------------------------------------
(* How a step of the page may end *)

(* Something is asked, and nothing is answered. *)
LEMMA AskKeeps ==
  ASSUME ConsoleInv, PageIsSound(page'), page'.busy = page.busy,
         page'.collaborationBusy = page.collaborationBusy,
         flight \subseteq flight', \A q \in flight' \ flight : RequestIsSound(q),
         session' \in BOOLEAN, clicks' \in 0..MaxClicks
  PROVE  ConsoleInv'
  <1>1. \A q \in flight' : RequestIsSound(q)
    BY DEF ConsoleInv
  <1>2. FlagsAreHeld(page', flight')
    BY DEF ConsoleInv, FlagsAreHeld
  <1>3. QED
    BY <1>1, <1>2 DEF ConsoleInv, PageIsSound, FlagsAreHeld, RequestIsSound

(* An answer is taken which no flag waits for. *)
LEMMA DoneKeeps ==
  ASSUME ConsoleInv, NEW q \in flight, q.kind \notin Acting \cup {"save"},
         PageIsSound(page'), page'.busy = page.busy,
         page'.collaborationBusy = page.collaborationBusy,
         flight \ {q} \subseteq flight', \A r \in flight' \ flight : RequestIsSound(r),
         UNCHANGED <<session, clicks>>
  PROVE  ConsoleInv'
  <1>1. \A r \in flight' : RequestIsSound(r)
    BY DEF ConsoleInv
  <1>2. FlagsAreHeld(page', flight')
    BY DEF ConsoleInv, FlagsAreHeld
  <1>3. QED
    BY <1>1, <1>2 DEF ConsoleInv, PageIsSound, FlagsAreHeld, RequestIsSound

(* An answer is taken that a flag waits for: the flag is lowered. *)
LEMMA FreeKeeps ==
  ASSUME ConsoleInv, NEW q \in flight, PageIsSound(page'),
         page'.busy => page.busy /\ q.kind \notin Acting,
         page'.collaborationBusy => page.collaborationBusy /\ q.kind # "save",
         flight' = flight \ {q}, UNCHANGED <<session, clicks>>
  PROVE  ConsoleInv'
  <1>1. \A r \in flight' : RequestIsSound(r)
    BY DEF ConsoleInv
  <1>2. FlagsAreHeld(page', flight')
    BY DEF ConsoleInv, FlagsAreHeld
  <1>3. QED
    BY <1>1, <1>2 DEF ConsoleInv, PageIsSound, FlagsAreHeld, RequestIsSound

LEMMA ClickBounds ==
  ASSUME ConsoleInv, clicks < MaxClicks, clicks' = clicks + 1
  PROVE  clicks' \in 0..MaxClicks
  BY ConsoleAssumption DEF ConsoleInv

-----------------------------------------------------------------------------
(* What the user does *)

LEMMA EnterInv ==
  ASSUME ConsoleInv, NEW t \in Teams, Enter(t), session' \in BOOLEAN, clicks' \in 0..MaxClicks
  PROVE  ConsoleInv'
  <1> DEFINE p == [Reset(page) EXCEPT !.user = TRUE, !.team = t]
  <1>1. PageIsSound(p) /\ p.busy = page.busy /\ p.collaborationBusy = page.collaborationBusy
    <2>1. /\ PageIsSound(Reset(page)) /\ Reset(page).collaboration = NoReview
          /\ Reset(page).busy = page.busy
          /\ Reset(page).collaborationBusy = page.collaborationBusy
      BY ResetSound DEF ConsoleInv
    <2>2. QED
      BY <2>1, EnterSound
  <1>2. RequestIsSound(RequestOf(p, "history", None))
    BY <1>1, RequestSound
  <1>3. page' = p /\ flight' = flight \cup {RequestOf(p, "history", None)}
    BY DEF Enter, Paint, Ask
  <1> HIDE DEF p
  <1>4. QED
    BY <1>1, <1>2, <1>3, AskKeeps

LEMMA LoginInv == ConsoleInv /\ (Login \/ SelectTeam) => ConsoleInv'
  <1> SUFFICES ASSUME ConsoleInv, Login \/ SelectTeam PROVE ConsoleInv'
    OBVIOUS
  <1>1. session' \in BOOLEAN /\ clicks' \in 0..MaxClicks
    BY ClickBounds DEF Login, SelectTeam, Click, ConsoleInv
  <1>2. PICK t \in Teams : Enter(t)
    BY DEF Login, SelectTeam
  <1>3. QED
    BY <1>1, <1>2, EnterInv

LEMMA OpenInv ==
  ASSUME ConsoleInv,
         \/ Refresh \/ Logout \/ \E case \in Cases : OpenRun(case)
         \/ \E content \in {"plan", "collaboration"} : OpenTab(content)
  PROVE  ConsoleInv'
  <1>1. PageIsSound(page) /\ page.result \in Cases \cup {None}
    BY DEF ConsoleInv, PageIsSound, PageStates
  <1>2. session' \in BOOLEAN /\ clicks' \in 0..MaxClicks
    BY ClickBounds DEF Refresh, Logout, OpenRun, OpenTab, Click, ConsoleInv
  <1>3. CASE Refresh
    <2>1. RequestIsSound(Request("refresh", page.result))
      BY <1>1, <1>3, RequestSound DEF Refresh, Request
    <2>2. page' = page /\ flight' = flight \cup {Request("refresh", page.result)}
      BY <1>3 DEF Refresh, Paint, Ask
    <2>3. QED
      BY <2>1, <2>2, <1>1, <1>2, AskKeeps
  <1>4. CASE Logout
    <2>1. RequestIsSound(Request("logout", None))
      BY <1>1, RequestSound DEF Request
    <2>2. page' = page /\ flight' = flight \cup {Request("logout", None)}
      BY <1>4 DEF Logout, Paint, Ask
    <2>3. QED
      BY <2>1, <2>2, <1>1, <1>2, AskKeeps
  <1>5. ASSUME NEW case \in Cases, OpenRun(case) PROVE ConsoleInv'
    <2>1. RequestIsSound(Request("detail", case))
      BY <1>1, RequestSound DEF Request
    <2>2. page' = page /\ flight' = flight \cup {Request("detail", case)}
      BY <1>5 DEF OpenRun, Paint, Ask
    <2>3. QED
      BY <2>1, <2>2, <1>1, <1>2, AskKeeps
  <1>6. ASSUME NEW content \in {"plan", "collaboration"}, OpenTab(content) PROVE ConsoleInv'
    <2> DEFINE p == Render([page EXCEPT !.content = content])
               requests == IF content = "collaboration"
                           THEN {Request("review", page.result)} ELSE {}
    <2>1. /\ PageIsSound([page EXCEPT !.content = content])
          /\ [page EXCEPT !.content = content].busy = page.busy
          /\ [page EXCEPT !.content = content].collaborationBusy = page.collaborationBusy
      BY <1>1 DEF PageIsSound, PageStates
    <2>2. PageIsSound(p) /\ p.busy = page.busy /\ p.collaborationBusy = page.collaborationBusy
      BY <2>1, RenderSound
    <2>3. \A q \in requests : RequestIsSound(q)
      BY <1>1, <1>6, RequestSound DEF OpenTab, Request
    <2>4. page' = p /\ flight' = flight \cup requests
      BY <1>6 DEF OpenTab, Paint, Ask
    <2> HIDE DEF p, requests
    <2>5. QED
      BY <2>2, <2>3, <2>4, <1>2, AskKeeps
  <1>7. QED
    BY <1>3, <1>4, <1>5, <1>6

(* A form can be saved only while the review of the shown run is on the    *)
(* screen: the save is of the team that is selected.                       *)
LEMMA SaveReviewInv ==
  ASSUME ConsoleInv, SaveReview
  PROVE  /\ ConsoleInv'
         /\ page.form.case \in Cases /\ page.form.version \in Nat
  <1> DEFINE form == [page.form EXCEPT !.enabled = FALSE, !.saving = TRUE]
             p == [page EXCEPT !.collaborationBusy = TRUE, !.form = form]
             q == [Request("save", page.form.case) EXCEPT
                     !.answer = IF session THEN "awaited" ELSE "unauthorized"]
  <1>1. /\ page.user /\ page.form.enabled /\ page.form.case \in Cases \ {None}
        /\ CaseTeam[page.form.case] = page.team /\ page.form.version \in Nat
    BY DEF ConsoleInv, SaveReview, PageIsSound, PageStates, Forms
  <1>2. form \in Forms /\ form.case = page.form.case
    BY DEF ConsoleInv, PageIsSound, PageStates, Forms
  <1>3. page' = p /\ flight' = flight \cup {q}
    BY DEF SaveReview, Ask
  <1>4. session' \in BOOLEAN /\ clicks' \in 0..MaxClicks
    BY ClickBounds DEF SaveReview, Click, ConsoleInv
  <1>5. /\ p \in PageStates /\ p.form = form /\ p.busy = page.busy /\ p.user = page.user
        /\ p.team = page.team /\ p.result = page.result /\ p.collaboration = page.collaboration
    <2> HIDE DEF form
    <2>1. QED
      BY <1>2 DEF ConsoleInv, PageIsSound, PageStates
  <1>6. RequestIsSound(q) /\ q.kind = "save"
    BY <1>1 DEF ConsoleInv, PageIsSound, PageStates, RequestIsSound, PageRequests, Request,
                RequestOf
  <1> HIDE DEF form, p, q
  <1>7. PageIsSound(p)
    BY <1>1, <1>2, <1>5 DEF ConsoleInv, PageIsSound
  <1>8. FlagsAreHeld(page', flight')
    BY <1>3, <1>5, <1>6 DEF ConsoleInv, FlagsAreHeld
  <1>9. QED
    BY <1>1, <1>3, <1>4, <1>6, <1>7, <1>8
       DEF ConsoleInv, FlagsAreHeld, PageIsSound, RequestIsSound

LEMMA ActInv ==
  ASSUME ConsoleInv, NEW kind \in {"submit", "approve"}, Act(kind)
  PROVE  ConsoleInv'
  <1>1. PICK case \in Cases : flight' = flight \cup {Request(kind, case)}
    BY DEF Act, Ask
  <1>2. page' = [page EXCEPT !.busy = TRUE]
    BY DEF Act, Paint
  <1>3. session' \in BOOLEAN /\ clicks' \in 0..MaxClicks
    BY ClickBounds DEF Act, Click, ConsoleInv
  <1>4. RequestIsSound(Request(kind, case)) /\ Request(kind, case).kind = kind
    BY RequestSound DEF Request, ConsoleInv
  <1>5. PageIsSound(page') /\ page'.collaborationBusy = page.collaborationBusy
    BY <1>2, BusySound DEF ConsoleInv
  <1>6. FlagsAreHeld(page', flight')
    BY <1>1, <1>4, <1>5 DEF ConsoleInv, FlagsAreHeld, Acting
  <1>7. QED
    BY <1>1, <1>3, <1>4, <1>5, <1>6 DEF ConsoleInv, FlagsAreHeld, PageIsSound, RequestIsSound

-----------------------------------------------------------------------------
(* What the server and the callbacks do *)

(* A review that was found is of the team that asked for it; only a save   *)
(* is answered without a look at the team, which its form had.             *)
LEMMA AnswerInv ==
  ASSUME ConsoleInv, ReviewTypeOK, NEW q \in flight, Answer(q)
  PROVE  ConsoleInv'
  <1>1. PICK answer \in AnswersTo(q) :
          flight' = (flight \ {q}) \cup
            {[q EXCEPT !.answer = answer,
                       !.version = IF q.case = None THEN 0 ELSE review[q.case].version]}
    BY DEF Answer
  <1>2. RequestIsSound(q)
    BY DEF ConsoleInv
  <1> DEFINE version == IF q.case = None THEN 0 ELSE review[q.case].version
             a == [q EXCEPT !.answer = answer, !.version = version]
  <1>3. answer \in {"ok", "refused", "unauthorized"}
    BY DEF AnswersTo
  <1>4. q.kind = "review" /\ answer = "ok" => CaseTeam[q.case] = q.team
    BY <1>2 DEF AnswersTo, RequestIsSound
  <1>5. q.kind = "stream" => answer # "unauthorized"
    BY DEF AnswersTo
  <1>6. version \in Nat
    BY <1>2 DEF RequestIsSound, PageRequests, ReviewTypeOK, ReviewRows
  <1>7. flight' = (flight \ {q}) \cup {a}
    BY <1>1
  <1> HIDE DEF version
  <1>8. /\ a \in PageRequests /\ a.kind = q.kind /\ a.case = q.case /\ a.team = q.team
        /\ a.answer = answer
    BY <1>2, <1>3, <1>6 DEF RequestIsSound, PageRequests
  <1> HIDE DEF a
  <1>9. RequestIsSound(a)
    BY <1>8, <1>2, <1>4, <1>5 DEF RequestIsSound
  <1>10. FlagsAreHeld(page', flight')
    BY <1>7, <1>8 DEF Answer, ConsoleInv, FlagsAreHeld
  <1>11. PageIsSound(page') /\ clicks' \in 0..MaxClicks /\ session' \in BOOLEAN
    BY DEF Answer, ConsoleInv, PageIsSound
  <1>12. QED
    BY <1>7, <1>9, <1>10, <1>11 DEF ConsoleInv, PageIsSound, FlagsAreHeld, RequestIsSound

(* Answers that no flag waits for. *)
LEMMA LoadedInv ==
  ASSUME ConsoleInv, NEW q \in flight,
         \/ HistoryLoaded(q) \/ DetailLoaded(q) \/ ReviewLoaded(q) \/ ReviewFailed(q)
         \/ Refreshed(q) \/ LoggedOutNow(q) \/ Toast(q)
  PROVE  ConsoleInv'
  <1>1. PageIsSound(page) /\ RequestIsSound(q) /\ q \in PageRequests
    BY DEF ConsoleInv, RequestIsSound
  <1>2. q.kind \notin Acting \cup {"save"} /\ UNCHANGED <<session, clicks>>
    BY DEF HistoryLoaded, DetailLoaded, ReviewLoaded, ReviewFailed, Refreshed, LoggedOutNow,
           Toast, Take, Acting
  <1>3. flight \ {q} \subseteq flight' /\ \A r \in flight' \ flight : RequestIsSound(r)
    <2>1. CASE Refreshed(q) /\ StillShown(q)
      <3>1. flight' = (flight \ {q}) \cup {Request("review", q.case)}
        BY <2>1 DEF Refreshed, DoneAnd
      <3>2. RequestIsSound(Request("review", q.case))
        BY <2>1, <1>1, RequestSound DEF Refreshed, Request, RequestIsSound
      <3>3. QED
        BY <3>1, <3>2
    <2>2. CASE ~(Refreshed(q) /\ StillShown(q))
      BY <2>2 DEF HistoryLoaded, DetailLoaded, ReviewLoaded, ReviewFailed, Refreshed,
                  LoggedOutNow, Toast, Done, DoneAnd
    <2>3. QED
      BY <2>1, <2>2
  <1>4. /\ PageIsSound(page') /\ page'.busy = page.busy
        /\ page'.collaborationBusy = page.collaborationBusy
    <2>1. CASE HistoryLoaded(q)
      BY <2>1, <1>1 DEF HistoryLoaded, Paint, PageIsSound, PageStates, PageRequests
    <2>2. CASE DetailLoaded(q)
      BY <2>2, <1>1, ShowRunSound DEF DetailLoaded, Paint, PageRequests
    <2>3. CASE ReviewLoaded(q)
      <3> DEFINE record == [case |-> q.case, version |-> q.version]
                 p == [page EXCEPT !.collaboration = record]
      <3>1. CASE StillShown(q)
        <4>1. /\ record \in Records /\ record.case = q.case /\ q.case \in Cases \ {None}
              /\ q.case = page.result /\ CaseTeam[page.result] = page.team
          BY <1>1, <2>3, <3>1 DEF ReviewLoaded, Take, StillShown, RequestIsSound, PageRequests,
                                  Records
        <4>2. page' = Render(p)
          BY <2>3, <3>1 DEF ReviewLoaded, Paint
        <4> HIDE DEF record
        <4>3. /\ p \in PageStates /\ p.collaboration = record /\ p.form = page.form
              /\ p.busy = page.busy /\ p.collaborationBusy = page.collaborationBusy
              /\ p.result = page.result /\ p.team = page.team
          BY <1>1, <4>1 DEF PageIsSound, PageStates
        <4> HIDE DEF p
        <4>4. /\ PageIsSound(Render(p)) /\ Render(p).busy = p.busy
              /\ Render(p).collaborationBusy = p.collaborationBusy
          BY <4>1, <4>3, RedrawnSound
        <4>5. QED
          BY <4>2, <4>3, <4>4
      <3>2. CASE ~StillShown(q)
        BY <2>3, <3>2, <1>1 DEF ReviewLoaded, Paint
      <3>3. QED
        BY <3>1, <3>2
    <2>4. CASE ReviewFailed(q)
      <3>1. /\ NoForm \in Forms /\ ~NoForm.enabled /\ ~NoForm.saving
        BY DEF NoForm, Forms
      <3>2. page' \in {page, [page EXCEPT !.form = NoForm]}
        BY <2>4 DEF ReviewFailed, Paint
      <3>3. QED
        BY <1>1, <3>1, <3>2 DEF PageIsSound, PageStates
    <2>5. CASE Refreshed(q) \/ Toast(q)
      BY <2>5, <1>1 DEF Refreshed, Toast, Paint
    <2>6. CASE LoggedOutNow(q)
      BY <2>6, <1>1, ResetSound, ShowLoginSound DEF LoggedOutNow, Paint
    <2>7. QED
      BY <2>1, <2>2, <2>3, <2>4, <2>5, <2>6
  <1>5. QED
    BY <1>2, <1>3, <1>4, DoneKeeps

(* The answer to a save lowers the flag, whatever is on the screen then. *)
LEMMA SavedInv ==
  ASSUME ConsoleInv, NEW q \in flight, ReviewSaved(q) \/ SaveRefused(q)
  PROVE  ConsoleInv'
  <1>1. PageIsSound(page) /\ RequestIsSound(q) /\ q \in PageRequests
    BY DEF ConsoleInv, RequestIsSound
  <1>2. q.kind = "save" /\ UNCHANGED <<session, clicks>> /\ flight' = flight \ {q}
    BY DEF ReviewSaved, SaveRefused, Take, Done
  <1>3. PageIsSound(page') /\ page'.busy = page.busy /\ ~page'.collaborationBusy
    <2>1. CASE page' = Settle(page)
      BY <2>1, <1>1, SettleSound
    <2>2. CASE ReviewSaved(q) /\ StillShown(q)
      <3> DEFINE record == [case |-> q.case, version |-> q.version]
                 p == [page EXCEPT !.collaboration = record, !.collaborationBusy = FALSE]
      <3>1. /\ record \in Records /\ record.case = q.case /\ q.case \in Cases \ {None}
            /\ q.case = page.result /\ CaseTeam[page.result] = page.team
        BY <1>1, <2>2 DEF ReviewSaved, Take, StillShown, RequestIsSound, PageRequests, Records
      <3>2. page' = Render(p)
        BY <2>2 DEF ReviewSaved, Paint
      <3> HIDE DEF record
      <3>3. /\ p \in PageStates /\ p.collaboration = record /\ p.form = page.form
            /\ p.busy = page.busy /\ ~p.collaborationBusy
            /\ p.result = page.result /\ p.team = page.team
        BY <1>1, <3>1 DEF PageIsSound, PageStates
      <3> HIDE DEF p
      <3>4. /\ PageIsSound(Render(p)) /\ Render(p).busy = p.busy
            /\ Render(p).collaborationBusy = p.collaborationBusy
        BY <3>1, <3>3, RedrawnSound
      <3>5. QED
        BY <3>2, <3>3, <3>4
    <2>3. QED
      BY <2>1, <2>2 DEF ReviewSaved, SaveRefused, Paint
  <1>4. QED
    BY <1>2, <1>3, FreeKeeps DEF Acting

(* A run that is submitted hands its flag to the stream that is opened;    *)
(* the stream's end lowers it.                                             *)
LEMMA ActedInv ==
  ASSUME ConsoleInv, NEW q \in flight, Submitted(q) \/ ActDone(q)
  PROVE  ConsoleInv'
  <1>1. PageIsSound(page) /\ RequestIsSound(q) /\ q \in PageRequests
        /\ q.case \in Cases \cup {None}
    BY DEF ConsoleInv, RequestIsSound, PageRequests
  <1> DEFINE shown == ShowRun(page, q.case)
  <1>2. /\ PageIsSound(shown) /\ shown.busy = page.busy
        /\ shown.collaborationBusy = page.collaborationBusy
    BY <1>1, ShowRunSound
  <1> HIDE DEF shown
  <1>3. CASE Submitted(q)
    <2>1. /\ page' = shown /\ UNCHANGED <<session, clicks>> /\ q.kind = "submit"
          /\ flight' = (flight \ {q}) \cup {Request("stream", q.case)}
      BY <1>3 DEF Submitted, Paint, DoneAnd, Take, shown
    <2>2. /\ RequestIsSound(Request("stream", q.case))
          /\ Request("stream", q.case).kind = "stream"
      BY <1>1, RequestSound DEF Request
    <2>3. \A r \in flight' : RequestIsSound(r)
      BY <2>1, <2>2 DEF ConsoleInv
    <2>4. FlagsAreHeld(page', flight')
      BY <2>1, <2>2, <1>2 DEF ConsoleInv, FlagsAreHeld, Acting
    <2>5. QED
      BY <2>1, <2>3, <2>4, <1>2 DEF ConsoleInv, PageIsSound, FlagsAreHeld, RequestIsSound
  <1>4. CASE ActDone(q)
    <2>1. /\ q.kind \in Acting /\ flight' = flight \ {q} /\ UNCHANGED <<session, clicks>>
          /\ page' \in {[shown EXCEPT !.busy = FALSE], [page EXCEPT !.busy = FALSE]}
      BY <1>4 DEF ActDone, Acting, Done, Paint, Take, shown
    <2>2. /\ PageIsSound(page') /\ page'.busy = FALSE
          /\ page'.collaborationBusy = page.collaborationBusy
      BY <2>1, <1>1, <1>2, BusySound
    <2>3. QED
      BY <2>1, <2>2, FreeKeeps DEF Acting
  <1>5. QED
    BY <1>3, <1>4

LEMMA UnauthorizedInv ==
  ASSUME ConsoleInv, NEW q \in flight, Unauthorized(q)
  PROVE  ConsoleInv'
  <1> DEFINE p == CASE q.kind \in {"submit", "approve"} -> [page EXCEPT !.busy = FALSE]
                    [] q.kind = "save" -> Settle(page)
                    [] OTHER -> page
  <1>1. PageIsSound(page) /\ RequestIsSound(q)
    BY DEF ConsoleInv
  <1>2. /\ PageIsSound(p)
        /\ p.busy => page.busy /\ q.kind \notin {"submit", "approve"}
        /\ p.collaborationBusy => page.collaborationBusy /\ q.kind # "save"
    <2>1. CASE q.kind \in {"submit", "approve"}
      BY <2>1, <1>1, BusySound
    <2>2. CASE q.kind = "save"
      <3>1. p = Settle(page)
        BY <2>2
      <3>2. PageIsSound(Settle(page)) /\ Settle(page).busy = page.busy
            /\ ~Settle(page).collaborationBusy
        BY <1>1, SettleSound
      <3> HIDE DEF p
      <3>3. QED
        BY <2>2, <3>1, <3>2
    <2>3. CASE q.kind \notin {"submit", "approve", "save"}
      <3>1. p = page
        BY <2>3
      <3> HIDE DEF p
      <3>2. QED
        BY <1>1, <2>3, <3>1
    <2>4. QED
      BY <2>1, <2>2, <2>3
  <1>3. page' = ShowLogin(p)
    BY DEF Unauthorized, Paint
  <1> HIDE DEF p
  <1>4. /\ q.kind # "stream" /\ flight' = flight \ {q} /\ UNCHANGED <<session, clicks>>
    BY <1>1 DEF Unauthorized, RequestIsSound, Take, Done
  <1>5. QED
    BY <1>2, <1>3, <1>4, ShowLoginSound, FreeKeeps DEF Acting

-----------------------------------------------------------------------------
(* Both together *)

Inv == ReviewInv /\ ConsoleInv

LEMMA ConsoleInitInv == ConsoleInit => Inv
  <1> SUFFICES ASSUME ConsoleInit PROVE Inv
    OBVIOUS
  <1>1. ReviewInv
    BY ReviewInitInv DEF ConsoleInit
  <1>2. PICK t \in Teams : page = [LoggedOut EXCEPT !.user = TRUE, !.team = t, !.list = t]
    BY DEF ConsoleInit
  <1>3. /\ page \in PageStates /\ page.form = NoForm /\ page.collaboration = NoReview
        /\ ~page.busy /\ ~page.collaborationBusy
    BY <1>2 DEF LoggedOut, NoForm, NoReview, PageStates, Forms, Records
  <1>4. PageIsSound(page)
    BY <1>3 DEF PageIsSound, NoForm
  <1>5. FlagsAreHeld(page, flight)
    BY <1>3 DEF FlagsAreHeld
  <1>6. session \in BOOLEAN /\ clicks \in 0..MaxClicks /\ flight = {}
    BY DEF ConsoleInit
  <1>7. QED
    BY <1>1, <1>4, <1>5, <1>6 DEF Inv, ConsoleInv

(* Whatever the page does, the reviews see one of their own steps. *)
LEMMA ConsoleStepsAreReviewSteps ==
  ASSUME Inv, ConsoleNext
  PROVE  [ReviewStep]_reviewVars
  <1>1. CASE SaveReview
    <2>1. page.form.case \in Cases /\ page.form.version \in Nat
      BY <1>1, SaveReviewInv DEF Inv
    <2>2. QED
      BY <1>1, <2>1, ConsoleAssumption DEF SaveReview, ReviewStep
  <1>2. CASE Others
    <2>1. ASSUME NEW r \in Reviewers, SendSeen(r) PROVE ReviewStep
      <3>1. PICK c \in Cases, draft \in Drafts :
              \E seen \in 0..review[c].version : SendPatch(r, c, seen, draft)
        BY <2>1 DEF SendSeen
      <3>2. review[c].version \in Nat
        BY DEF Inv, ReviewInv, ReviewIsAccounted, ReviewTypeOK, ReviewRows
      <3>3. QED
        BY <3>1, <3>2 DEF ReviewStep
    <2>2. QED
      BY <1>2, <2>1 DEF Others, ReviewStep
  <1>3. CASE Server
    BY <1>3 DEF Server, Answer, ReviewStep
  <1>4. CASE Callback \/ ExpireSession
    BY <1>4 DEF Callback, Resume, HistoryLoaded, DetailLoaded, ReviewLoaded, ReviewFailed,
                Refreshed, ReviewSaved, SaveRefused, Submitted, ActDone, LoggedOutNow, Toast,
                Unauthorized, Paint, ExpireSession
  <1>5. CASE User /\ ~SaveReview
    BY <1>5 DEF User, Login, SelectTeam, Refresh, Logout, OpenRun, OpenTab, Act, Enter, Paint
  <1>6. QED
    BY <1>1, <1>2, <1>3, <1>4, <1>5 DEF ConsoleNext

LEMMA ConsoleStepInv == Inv /\ [ConsoleNext]_consoleVars => Inv'
  <1> SUFFICES ASSUME Inv, [ConsoleNext]_consoleVars PROVE Inv'
    OBVIOUS
  <1>1. ReviewInv'
    BY ConsoleStepsAreReviewSteps, ReviewStepInv DEF Inv, consoleVars
  <1>2. ReviewTypeOK /\ ConsoleInv
    BY DEF Inv, ReviewInv, ReviewIsAccounted
  <1>3. ConsoleInv'
    <2>1. CASE User
      BY <2>1, <1>2, LoginInv, OpenInv, SaveReviewInv, ActInv DEF User
    <2>2. CASE Callback
      BY <2>2, <1>2, LoadedInv, SavedInv, ActedInv, UnauthorizedInv DEF Callback, Resume
    <2>3. CASE \E q \in flight : Answer(q)
      BY <2>3, <1>2, AnswerInv
    <2>4. CASE UNCHANGED <<session, page, flight, clicks>>
      BY <2>4, <1>2 DEF ConsoleInv, PageIsSound, FlagsAreHeld, RequestIsSound
    <2>5. CASE ExpireSession
      BY <2>5, <1>2 DEF ExpireSession, ConsoleInv, PageIsSound, FlagsAreHeld, RequestIsSound
    <2>6. QED
      BY <2>1, <2>2, <2>3, <2>4, <2>5 DEF ConsoleNext, Others, Server, consoleVars
  <1>4. QED
    BY <1>1, <1>3 DEF Inv

(* A save that was acknowledged is in the history, at the place of the     *)
(* version it made.                                                        *)
SavesAreKept ==
    \A r \in Reviewers : LET p == patch[r] IN
        p.pc = "saved" =>
            /\ p.expected < Len(notes[p.case])
            /\ notes[p.case][p.expected + 1] =
                 [actor |-> r, basis |-> p.expected, content |-> p.draft]

(* No step rewrites a history: it stays, or a committing save appends.     *)
LEMMA HistoriesGrow ==
  ASSUME ReviewInv, [ReviewStep]_reviewVars, NEW c \in Cases
  PROVE  \/ notes'[c] = notes[c]
         \/ \E r \in Reviewers :
              /\ CommitPatch(r) /\ patch[r].case = c
              /\ notes'[c] = Append(notes[c], [actor |-> r, basis |-> patch[r].expected,
                                              content |-> patch[r].draft])
  <1>1. ASSUME NEW r \in Reviewers, CommitPatch(r)
        PROVE  \/ notes'[c] = notes[c]
               \/ /\ patch[r].case = c
                  /\ notes'[c] = Append(notes[c], [actor |-> r, basis |-> patch[r].expected,
                                                  content |-> patch[r].draft])
    BY <1>1 DEF CommitPatch, ReviewInv, ReviewIsAccounted, ReviewTypeOK
  <1>2. QED
    BY <1>1 DEF ReviewStep, reviewVars, Around, FinishCase, LeaveTeam, HandlePatch, CheckPatch,
                WritePatch, FailPatch, Step, SendPatch

LEMMA SavesAreKeptStep ==
  ASSUME ReviewInv, SavesAreKept, [ReviewStep]_reviewVars
  PROVE  SavesAreKept'
  <1> SUFFICES ASSUME NEW r \in Reviewers, patch'[r].pc = "saved"
               PROVE  /\ patch'[r].expected < Len(notes'[patch'[r].case])
                      /\ notes'[patch'[r].case][patch'[r].expected + 1] =
                           [actor |-> r, basis |-> patch'[r].expected,
                            content |-> patch'[r].draft]
    BY DEF SavesAreKept
  <1> DEFINE c == patch[r].case
             note(s) == [actor |-> s, basis |-> patch[s].expected, content |-> patch[s].draft]
  <1>1. /\ patch[r] \in Patches /\ c \in Cases /\ patch[r].expected \in Nat
        /\ notes[c] \in Seq(NoteRows) /\ Len(notes[c]) \in Nat
        /\ \A s \in Reviewers : note(s) \in NoteRows
    BY LenProperties DEF ReviewInv, ReviewIsAccounted, ReviewTypeOK, Patches, NoteRows
  <1>2. /\ patch'[r].case = c /\ patch'[r].expected = patch[r].expected
        /\ patch'[r].draft = patch[r].draft
        /\ \/ patch[r].pc = "saved"
           \/ CommitPatch(r) /\ notes'[c] = Append(notes[c], note(r))
    <2>1. CASE CommitPatch(r)
      <3>1. NoteFits(r)
        BY <2>1 DEF CommitPatch, NoteFits, ReviewInv, ReviewIsAccounted, HistoryIsWhole,
                    WritersAreAlone, ReviewTypeOK, Patches
      <3>2. /\ notes' = [notes EXCEPT ![c] = Append(@, note(r))]
            /\ patch' = [patch EXCEPT ![r].pc = "saved"]
        BY <2>1, <3>1 DEF CommitPatch
      <3>3. QED
        BY <2>1, <3>2, <1>1 DEF ReviewInv, ReviewIsAccounted, ReviewTypeOK, Patches
    <2>2. CASE ~CommitPatch(r)
      <3>1. ASSUME NEW s \in Reviewers, CommitPatch(s) PROVE patch'[r] = patch[r]
        BY <2>2, <3>1 DEF CommitPatch, ReviewInv, ReviewIsAccounted, ReviewTypeOK
      <3>2. ASSUME NEW s \in Reviewers, NEW pc, pc # "saved", Step(s, pc)
            PROVE  patch'[r] = patch[r]
        BY <3>2 DEF Step, ReviewInv, ReviewIsAccounted, ReviewTypeOK, Patches
      <3>3. ASSUME NEW s \in Reviewers, CheckPatch(s) \/ WritePatch(s) \/ FailPatch(s)
            PROVE  patch'[r] = patch[r]
        BY <3>2, <3>3 DEF CheckPatch, WritePatch, FailPatch, Refusal
      <3>4. ASSUME NEW s \in Reviewers, NEW case \in Cases, NEW version \in Nat,
                   NEW draft \in Drafts, SendPatch(s, case, version, draft)
            PROVE  patch'[r] = patch[r]
        BY <3>4 DEF SendPatch, ReviewInv, ReviewIsAccounted, ReviewTypeOK, Patches
      <3>5. patch'[r] = patch[r]
        BY <3>1, <3>3, <3>4 DEF ReviewStep, reviewVars, Around, FinishCase, LeaveTeam,
                                HandlePatch
      <3>6. QED
        BY <3>5
    <2>3. QED
      BY <2>1, <2>2
  <1>3. CASE patch[r].pc = "saved"
    <2>1. /\ patch[r].expected < Len(notes[c]) /\ notes[c][patch[r].expected + 1] = note(r)
      BY <1>3 DEF SavesAreKept
    <2>2. \/ notes'[c] = notes[c]
          \/ \E s \in Reviewers : notes'[c] = Append(notes[c], note(s))
      BY <1>1, HistoriesGrow
    <2>3. /\ Len(notes[c]) <= Len(notes'[c])
          /\ \A i \in 1..Len(notes[c]) : notes'[c][i] = notes[c][i]
      <3>1. CASE notes'[c] = notes[c]
        BY <3>1, <1>1
      <3>2. ASSUME NEW s \in Reviewers, notes'[c] = Append(notes[c], note(s))
            PROVE  /\ Len(notes[c]) <= Len(notes'[c])
                   /\ \A i \in 1..Len(notes[c]) : notes'[c][i] = notes[c][i]
        <4>1. note(s) \in NoteRows
          BY <1>1
        <4> HIDE DEF note
        <4>2. QED
          BY <3>2, <1>1, <4>1, AppendProperties
      <3>3. QED
        BY <2>2, <3>1, <3>2
    <2>4. QED
      BY <1>1, <1>2, <2>1, <2>3
  <1>4. CASE CommitPatch(r) /\ notes'[c] = Append(notes[c], note(r))
    <2>1. Len(notes[c]) = patch[r].expected
      BY <1>1, <1>4 DEF CommitPatch, ReviewInv, ReviewIsAccounted, HistoryIsWhole,
                        WritersAreAlone
    <2>2. QED
      BY <1>1, <1>2, <1>4, <2>1, AppendProperties
  <1>5. QED
    BY <1>2, <1>3, <1>4

LEMMA ConsoleInvariant == ConsoleSpec => []Inv
  BY ConsoleInitInv, ConsoleStepInv, PTL DEF ConsoleSpec

(* update_review: any number of pages that save any drafts, at any time,   *)
(* on any runs leave one history entry per version, each drafted from the  *)
(* version before it, and reviews that claim nothing which has not         *)
(* happened.                                                               *)
THEOREM ReviewsAreAccounted == ConsoleSpec => []ReviewIsAccounted
  <1>1. Inv => ReviewIsAccounted
    BY DEF Inv, ReviewInv
  <1>2. QED
    BY <1>1, ConsoleInvariant, PTL

(* update_review: what was acknowledged once is in the history for ever,   *)
(* however many saves follow, fail or meet.                                *)
THEOREM AcknowledgedSavesAreKept == ConsoleSpec => []SavesAreKept
  <1>1. ConsoleInit => SavesAreKept
    BY DEF ConsoleInit, ReviewInit, SavesAreKept
  <1>2. Inv /\ SavesAreKept /\ [ConsoleNext]_consoleVars => SavesAreKept'
    BY ConsoleStepsAreReviewSteps, SavesAreKeptStep DEF Inv, consoleVars
  <1>3. QED
    BY <1>1, <1>2, ConsoleInvariant, PTL DEF ConsoleSpec

(* The page: switching teams and runs while answers are under way never    *)
(* puts the review of another run, or another team, on the screen.         *)
THEOREM ReviewsAreOfShownRun == ConsoleSpec => []ReviewIsOfShownRun
  <1>1. Inv => ReviewIsOfShownRun
    BY DEF Inv, ConsoleInv, PageIsSound, ReviewIsOfShownRun
  <1>2. QED
    BY <1>1, ConsoleInvariant, PTL

(* The page: each flag that blocks it belongs to a request under way whose *)
(* answer, or failure, lowers it.                                          *)
THEOREM PagesAreFreed == ConsoleSpec => []PageIsFreed
  <1>1. Inv => PageIsFreed
    BY DEF Inv, ConsoleInv, PageIsSound, RequestIsSound, FlagsAreHeld, Acting, PageIsFreed,
           ConsoleTypeOK
  <1>2. QED
    BY <1>1, ConsoleInvariant, PTL
=============================================================================
