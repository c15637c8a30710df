------------------------------ MODULE RunStreams ------------------------------
(***************************************************************************)
(* The live progress of one run that the API executes in process:          *)
(* RunEventBroker (run_event_service.py), the background executor          *)
(* (agent_async_service.py), the in-process half of POST /agent/runs/async *)
(* and of GET /agent/runs/{id}/events (agent_router.py).                   *)
(*                                                                         *)
(* The broker keeps a bounded history in memory; clients read it at their  *)
(* own pace, may come back with the number of the last event they saw, and *)
(* lose the broker when the API restarts.  A heartbeat changes nothing and *)
(* is no action.  A run that waits for an approval has ended for its       *)
(* executor, not for the database: POST /agent/runs/{id}/approval goes on  *)
(* with it in a request of its own, which publishes nothing.               *)
(***************************************************************************)
EXTENDS Naturals, Sequences, SequencesExt

CONSTANTS
    Clients,
    MaxEvents,     \* max_events_per_run, 200 in the code
    MaxProgress,   \* bound: progress events of the run
    MaxRestarts    \* bound: restarts of the API

ASSUME StreamAssumption ==
    MaxEvents \in Nat \ {0} /\ MaxProgress \in Nat /\ MaxRestarts \in Nat

VARIABLES
    row,       \* status of the run's row, "absent" before it is committed
    approval,  \* what became of the approval that the run waits or waited for
    task,      \* where the request that creates the run, then its executor, is
    log,       \* the broker's events of the run
    sequence,  \* the broker's next sequence number
    closed,    \* the run is in _terminal_runs
    client,    \* per client: its handler, its cursor and what it received
    restarts,
    early      \* a handler announced the end of a run that was still to come

streamVars == <<row, approval, task, log, sequence, closed, client, restarts, early>>

-----------------------------------------------------------------------------
Outcomes == {"completed", "failed", "waiting_approval"}

Reading == {"checking", "announcing", "streaming"}

(* Mutant: a history at its limit loses one event too many. *)
TrimTooMany(events) ==
    IF Len(events) > MaxEvents THEN SubSeq(events, Len(events) - MaxEvents + 2, Len(events))
    ELSE events

(* del events[: len(events) - max]: the newest events stay. *)
Trim(events) ==
    IF Len(events) > MaxEvents THEN SubSeq(events, Len(events) - MaxEvents + 1, Len(events))
    ELSE events

Publish(type, status, terminal) ==
    /\ log' = Trim(Append(log, [seq |-> sequence, type |-> type, status |-> status]))
    /\ sequence' = sequence + 1
    /\ closed' = (closed \/ terminal)

brokerVars == <<log, sequence, closed>>

rowVars == <<row, approval>>

StreamInit ==
    /\ row = "absent" /\ approval = "none" /\ task = "idle"
    /\ log = <<>> /\ sequence = 1 /\ closed = FALSE
    /\ client = [c \in Clients |-> [pc |-> "out", seen |-> "absent", from |-> 0, got |-> <<>>]]
    /\ restarts = 0 /\ early = FALSE

-----------------------------------------------------------------------------
(* The creating request: prepare_agent_run commits the row, the broker is  *)
(* told "accepted", the executor is scheduled.                             *)
CreateRun ==
    /\ task = "idle"
    /\ row' = "running" /\ task' = "prepared"
    /\ UNCHANGED <<approval, brokerVars, client, restarts, early>>

Accept ==
    /\ task = "prepared"
    /\ Publish("accepted", "running", FALSE)
    /\ task' = "scheduled"
    /\ UNCHANGED <<rowVars, client, restarts, early>>

(* The executor checks the scope again; a lost permission fails the run    *)
(* before anything is executed.  Nothing catches another exception of the  *)
(* check or of that commit: the task is over and tells nobody.             *)
StartRun ==
    /\ task = "scheduled"
    /\ \/ task' = "executing" /\ row' = row
       \/ task' = "failed" /\ row' = "failed"
       \/ task' = "escaped" /\ row' = row
    /\ UNCHANGED <<approval, brokerVars, client, restarts, early>>

(* A trace event; a specialist's run records one after its outcome.  *)
Progress ==
    /\ task \in {"executing", "completed", "waiting_approval"}
    /\ sequence <= MaxProgress + 1
    /\ Publish("progress", "running", FALSE)
    /\ UNCHANGED <<rowVars, task, client, restarts, early>>

Asked(status) == IF status = "waiting_approval" THEN "asked" ELSE "none"

(* The services commit the outcome to the row; an AgentExecutionError has  *)
(* failed the run, any other exception may leave the row as it was, or     *)
(* come after that commit.                                                 *)
FinishRun ==
    /\ task = "executing"
    /\ \/ \E outcome \in Outcomes :
             /\ row' = outcome /\ approval' = Asked(outcome)
             /\ task' \in {outcome, "failed"}
       \/ UNCHANGED rowVars /\ task' = "failed"
    /\ UNCHANGED <<brokerVars, client, restarts, early>>

(* Mutant: only an expected error is told. *)
TellExpectedEnd ==
    /\ task \in Outcomes /\ row # "running"
    /\ Publish("terminal", task, TRUE)
    /\ task' = "done"
    /\ UNCHANGED <<rowVars, client, restarts, early>>

(* Each way out of the executor publishes one terminal event. *)
TellEnd ==
    /\ task \in Outcomes
    /\ Publish("terminal", task, TRUE)
    /\ task' = "done"
    /\ UNCHANGED <<rowVars, client, restarts, early>>

-----------------------------------------------------------------------------
(* The request that decides claims the waiting row and goes on with the    *)
(* run, or finds its checkpoint missing or expired and fails it (as the    *)
(* recovery does with an expired one); the graph may ask again.            *)
TakeApproval ==
    /\ approval = "asked"
    /\ \/ row' = "running" /\ approval' = "decided"
       \/ row' = "failed" /\ approval' = "over"
    /\ UNCHANGED <<task, brokerVars, client, restarts, early>>

EndApproval ==
    /\ approval = "decided"
    /\ row' \in Outcomes
    /\ approval' = IF row' = "waiting_approval" THEN "asked" ELSE "over"
    /\ UNCHANGED <<task, brokerVars, client, restarts, early>>

-----------------------------------------------------------------------------
(* A client asks for the events, from the start or after the last of those *)
(* it has kept; the handler reads the row and gives up its database        *)
(* session.                                                                *)
OpenStream(c) ==
    /\ client[c].pc \in {"out", "cut"} /\ row # "absent"
    /\ \E kept \in 0..Len(client[c].got) :
         client' = [client EXCEPT ![c] =
             [pc |-> "checking", seen |-> row,
              from |-> IF kept = 0 THEN 0 ELSE client[c].got[kept].seq,
              got |-> SubSeq(client[c].got, 1, kept)]]
    /\ UNCHANGED <<rowVars, task, brokerVars, restarts, early>>

(* has_events *)
CheckEvents(c) ==
    /\ client[c].pc = "checking"
    /\ client' = [client EXCEPT ![c].pc = IF log = <<>> THEN "announcing" ELSE "streaming"]
    /\ UNCHANGED <<rowVars, task, brokerVars, restarts, early>>

(* There is nothing to wait for, as the handler believes: it publishes a   *)
(* terminal event of its own, LIVE_STREAM_UNAVAILABLE for a running row.   *)
Announce(c) ==
    /\ client[c].pc = "announcing"
    /\ Publish("terminal", client[c].seen, TRUE)
    /\ early' = (early \/ task \notin {"done", "lost", "escaped"})
    /\ client' = [client EXCEPT ![c].pc = "streaming"]
    /\ UNCHANGED <<rowVars, task, restarts>>

Cursor(c) ==
    IF client[c].got = <<>> THEN client[c].from ELSE Last(client[c].got).seq

(* The events with a number above n; the numbers grow along the history.   *)
After(events, n) ==
    LET old == CHOOSE k \in 0..Len(events) :
                 \A i \in 1..Len(events) : events[i].seq > n <=> i > k
    IN  SubSeq(events, old + 1, Len(events))

(* Mutant: a stream ends when it has nothing to send at the moment. *)
DeliverOrEnd(c) ==
    LET pending == After(log, Cursor(c)) IN
    /\ client[c].pc = "streaming"
    /\ client' = [client EXCEPT ![c] =
          [pc |-> IF closed \/ pending = <<>> THEN "ended" ELSE "streaming",
           seen |-> client[c].seen, from |-> client[c].from, got |-> client[c].got \o pending]]
    /\ UNCHANGED <<rowVars, task, brokerVars, restarts, early>>

(* stream(): what is pending and whether the run has ended are read under  *)
(* one lock, then everything pending is sent.                              *)
Deliver(c) ==
    LET pending == After(log, Cursor(c)) IN
    /\ client[c].pc = "streaming"
    /\ pending # <<>> \/ closed
    /\ client' = [client EXCEPT ![c] =
          [pc |-> IF closed THEN "ended" ELSE "streaming",
           seen |-> client[c].seen, from |-> client[c].from, got |-> client[c].got \o pending]]
    /\ UNCHANGED <<rowVars, task, brokerVars, restarts, early>>

(* The API restarts: broker and executor are gone, connections are cut.    *)
(* Nothing reconciles the row of a run that was executing, except that of  *)
(* an approval that was being acted upon: its outcome is unknown.          *)
Restart ==
    /\ restarts < MaxRestarts
    /\ restarts' = restarts + 1
    /\ log' = <<>> /\ sequence' = 1 /\ closed' = FALSE
    /\ task' = IF task \in {"idle", "done"} THEN task ELSE "lost"
    /\ IF approval = "decided" THEN row' = "failed" /\ approval' = "over"
                               ELSE UNCHANGED rowVars
    /\ client' = [c \in Clients |->
                    IF client[c].pc \in Reading THEN [client[c] EXCEPT !.pc = "cut"] ELSE client[c]]
    /\ UNCHANGED early

Execute == Accept \/ StartRun \/ FinishRun \/ TellEnd
Serve(c) == CheckEvents(c) \/ Announce(c) \/ Deliver(c)

StreamNext ==
    \/ CreateRun \/ Execute \/ Progress \/ TakeApproval \/ EndApproval \/ Restart
    \/ \E c \in Clients : OpenStream(c) \/ Serve(c)

(* A thread that runs goes on, a handler too; clients need not come. *)
StreamFairness == WF_streamVars(Execute) /\ \A c \in Clients : WF_streamVars(Serve(c))

StreamSpec == StreamInit /\ [][StreamNext]_streamVars /\ StreamFairness

-----------------------------------------------------------------------------
(* Properties *)

Event == [seq: Nat \ {0}, type: {"accepted", "progress", "terminal"},
          status: Outcomes \cup {"running"}]

StreamTypeOK ==
    /\ row \in Outcomes \cup {"absent", "running"}
    /\ approval \in {"none", "asked", "decided", "over"}
    /\ task \in Outcomes \cup
                {"idle", "prepared", "scheduled", "executing", "escaped", "done", "lost"}
    /\ log \in Seq(Event) /\ Len(log) <= MaxEvents
    /\ sequence \in Nat \ {0} /\ closed \in BOOLEAN /\ early \in BOOLEAN
    /\ restarts \in 0..MaxRestarts
    /\ client \in [Clients -> [pc: Reading \cup {"out", "cut", "ended"},
                               seen: Outcomes \cup {"absent", "running"},
                               from: Nat, got: Seq(Event)]]

(* What a stream tells is the truth in the database: a client that read    *)
(* from the start and whose stream has ended holds a terminal event.  When *)
(* it says completed the row is completed and stays so; when it says       *)
(* waiting_approval an approval was asked for, and the row still waits     *)
(* unless somebody has acted upon it since.  Not so when another handler   *)
(* closed the run before its first event.                                  *)
StreamTellsOutcome ==
    \A c \in Clients : client[c].pc = "ended" /\ client[c].from = 0 /\ ~early =>
        LET end == Last(client[c].got) IN
        /\ client[c].got # <<>> /\ end.type = "terminal"
        /\ end.status = "completed" => row = "completed"
        /\ end.status = "waiting_approval" =>
             /\ approval # "none"
             /\ approval = "asked" <=> row = "waiting_approval"

(* A slow client loses only what the bounded history had to give up: of    *)
(* the events after its starting point, one that it missed is at least     *)
(* MaxEvents older than the newest one it holds.                           *)
OnlyOldEventsMissed ==
    \A c \in Clients : client[c].pc \in {"streaming", "ended"} /\ client[c].got # <<>> =>
        \A n \in (client[c].from + 1)..Last(client[c].got).seq :
            \/ \E e \in ToSet(client[c].got) : e.seq = n
            \/ n + MaxEvents <= Last(client[c].got).seq

(* A stream neither makes up what became of a run nor skips what it could  *)
(* have told.                                                              *)
StreamsTellTheRun == StreamTypeOK /\ StreamTellsOutcome /\ OnlyOldEventsMissed

(* Every stream comes to an end, however the run does: by its terminal     *)
(* event, by an announced one, or because the API went down.  The only     *)
(* ones that may stay open are those of a task that ended without a word,  *)
(* because an exception left it before it began to execute.                *)
EveryStreamEnds ==
    \A c \in Clients :
        client[c].pc \in Reading ~> client[c].pc \in {"ended", "cut"} \/ task = "escaped"
=============================================================================
