-------------------------------- MODULE ToolCall --------------------------------
(***************************************************************************)
(* Calls of read-only tools: ToolRegistry.call_tool (tools/registry.py),   *)
(* which keeps an audit row for every call in the caller's database        *)
(* session, over WorkPilotMCPClient (mcp/client.py), one worker thread     *)
(* that serves all callers' requests from one queue.                       *)
(*                                                                         *)
(* Callers are the threads of runs and branches; the main thread connects  *)
(* the client when the application starts and closes it at shutdown.  The  *)
(* MCP server and the library's session are open: any call may succeed,    *)
(* fail, lose its connection or run into its timeout.                      *)
(***************************************************************************)
EXTENDS Naturals, Sequences, SequencesExt

CONSTANTS
    Callers,  \* threads of runs and branches, none of them the main thread
    Calls     \* calls each caller makes, retries included

ASSUME CallsAssumption == "main" \notin Callers /\ Calls \in [Callers -> Nat \ {0}]

VARIABLES
    main,    \* the main thread: starting up, serving, shutting down
    thread,  \* is self._thread set?
    worker,  \* the worker thread
    current, \* the request it serves, NoRequest for none
    queue,   \* self._requests
    future,  \* outcome of every request's future
    served,  \* requests the server answered with data
    call,    \* what each caller is doing
    log      \* committed audit rows of every request

callVars == <<main, thread, worker, current, queue, future, served, call, log>>

-----------------------------------------------------------------------------
Listing == <<"main", 1>>  \* the tools/list request of connect()
Requests == UNION {{c} \X (1..Calls[c]) : c \in Callers}
NoRequest == <<"none", 0>>
Stop == <<"stop", 0>>     \* the None that close() queues

Alive == worker # "dead"
Request(c) == <<c, call[c].n>>
Errors == {"lost", "error"}  \* a transport failure of the connection; any other failure
Answers == {"data"} \cup Errors   \* what a call of the server ends with

CallInit ==
    /\ main = "starting" /\ thread = TRUE /\ worker = "starting"
    /\ current = NoRequest /\ queue = <<>> /\ served = {}
    /\ future = [r \in Requests \cup {Listing} |-> "pending"]
    /\ call = [c \in Callers |-> [pc |-> "idle", n |-> 1, retry |-> FALSE, row |-> "none", outcome |-> "none"]]
    /\ log = [r \in Requests |-> <<>>]

-----------------------------------------------------------------------------
(* The worker: _serve *)

WorkerStarts ==
    /\ worker = "starting" /\ worker' = "idle"
    /\ UNCHANGED <<main, thread, current, queue, future, served, call, log>>

(* _fail_pending_requests *)
FailPending(error) ==
    /\ queue' = <<>>
    /\ future' = [r \in DOMAIN future |->
                    IF future[r] = "pending" /\ Contains(queue, r) THEN error ELSE future[r]]

(* The session breaks outside a call, or cannot be opened or closed: what  *)
(* is queued by now fails with it.                                         *)
WorkerBreaks ==
    /\ worker \in {"starting", "idle", "stopping"}
    /\ worker' = IF worker = "starting" THEN "unready" ELSE "ending"
    /\ \E error \in Errors : FailPending(error)
    /\ UNCHANGED <<main, thread, current, served, call, log>>

WorkerEnds ==
    /\ worker \in {"unready", "ending", "stopping"}
    /\ worker' = "dead"
    /\ UNCHANGED <<main, thread, current, queue, future, served, call, log>>

Take ==
    /\ worker = "idle" /\ queue # <<>>
    /\ queue' = Tail(queue)
    /\ IF Head(queue) = Stop THEN worker' = "stopping" /\ UNCHANGED current
       ELSE worker' = "busy" /\ current' = Head(queue)
    /\ UNCHANGED <<main, thread, future, served, call, log>>

(* Mutant: a caller's requests share one future. *)
FutureOfCaller(r) == IF r = Listing THEN r ELSE <<r[1], 1>>

FutureOf(r) == r

(* The call ends, in its own time or by the session's read timeout; nobody *)
(* may be waiting for it any more.                                         *)
Serve ==
    /\ worker = "busy"
    /\ \E outcome \in Answers :
         /\ future' = [future EXCEPT ![FutureOf(current)] = outcome]
         /\ served' = IF outcome = "data" THEN served \cup {current} ELSE served
    /\ worker' = "idle" /\ current' = NoRequest
    /\ UNCHANGED <<main, thread, queue, call, log>>

WorkerStep == WorkerStarts \/ WorkerEnds \/ Take \/ Serve

-----------------------------------------------------------------------------
(* The main thread: connect, and close *)

(* Mutant: close() does not wait for the worker. *)
CloseUnjoined ==
    /\ thread' = FALSE
    /\ queue' = IF Alive THEN Append(queue, Stop) ELSE queue
    /\ main' = "closed"

Close ==
    /\ thread' = FALSE
    /\ queue' = IF Alive THEN Append(queue, Stop) ELSE queue
    /\ main' = IF Alive THEN "joining" ELSE "closed"

(* The worker is ready within the timeout: ask the server for its tools. *)
Connect ==
    /\ main = "starting" /\ worker \notin {"starting", "unready"}
    /\ IF Alive THEN main' = "listing" /\ queue' = Append(queue, Listing) /\ UNCHANGED thread
       ELSE Close
    /\ UNCHANGED <<worker, current, future, served, call, log>>

(* It is not, or it reported why it could not start. *)
ConnectFails ==
    /\ main = "starting" /\ worker \in {"starting", "unready", "dead"}
    /\ Close
    /\ UNCHANGED <<worker, current, future, served, call, log>>

(* All tools are there; or some are missing, or the request failed or ran out of time. *)
Listed ==
    /\ main = "listing"
    /\ \/ future[Listing] = "data" /\ main' = "serving" /\ UNCHANGED <<thread, queue>>
       \/ Close
    /\ UNCHANGED <<worker, current, future, served, call, log>>

Shutdown ==
    /\ main = "serving" /\ Close
    /\ UNCHANGED <<worker, current, future, served, call, log>>

(* join() returns when the worker has ended, or gives up after 10 s. *)
Joined ==
    /\ main = "joining"
    /\ main' \in IF Alive THEN {"unclean"} ELSE {"closed"}
    /\ UNCHANGED <<thread, worker, current, queue, future, served, call, log>>

MainStep == Connect \/ ConnectFails \/ Listed \/ Joined

-----------------------------------------------------------------------------
(* A caller: ToolRegistry.call_tool *)

Goes(c, pc, row, outcome) ==
    call' = [call EXCEPT ![c].pc = pc, ![c].row = row, ![c].outcome = outcome]
Logged(c, entries) == log' = [log EXCEPT ![Request(c)] = @ \o entries]

(* A run that has begun goes on while the application shuts down. *)
Calling(c) == call[c].pc = "idle" /\ (main = "serving" \/ call[c].n > 1)

(* Out of scope: no row.  Disabled, or invalid inputs: a rejected row, as  *)
(* far as it can be written.                                               *)
Reject(c) ==
    /\ Calling(c)
    /\ Goes(c, "over", "none", "refused")
    /\ \E entries \in {<<>>, <<"rejected">>} : Logged(c, entries)
    /\ UNCHANGED <<main, thread, worker, current, queue, future, served>>

(* The running row is flushed, not committed, and _submit looks at the     *)
(* thread; if the row cannot be flushed nothing is called.                 *)
Open(c) ==
    /\ Calling(c)
    /\ \/ thread /\ Alive /\ Goes(c, "putting", "running", "none")
       \/ ~ (thread /\ Alive) /\ Goes(c, "failing", "running", "error")
       \/ Goes(c, "over", "none", "refused")
    /\ UNCHANGED <<main, thread, worker, current, queue, future, served, log>>

(* Then it puts its request, whatever has become of the thread. *)
Put(c) ==
    /\ call[c].pc = "putting"
    /\ queue' = Append(queue, Request(c))
    /\ Goes(c, "waiting", "running", "none")
    /\ UNCHANGED <<main, thread, worker, current, future, served, log>>

(* An answer is checked against the tool's output schema and committed     *)
(* with its row; an error, an answer that does not fit and a failed commit *)
(* end in Fail.                                                            *)
Answered(c) ==
    LET outcome == future[FutureOf(Request(c))]
    IN /\ call[c].pc = "waiting" /\ outcome # "pending"
       /\ \/ outcome = "data" /\ Goes(c, "over", "none", "output") /\ Logged(c, <<"completed">>)
          \/ outcome = "data" /\ \E row \in {"running", "completed"} : Goes(c, "failing", row, "error")
                              /\ UNCHANGED log
          \/ outcome \in Errors /\ Goes(c, "failing", "running", outcome) /\ UNCHANGED log
       /\ UNCHANGED <<main, thread, worker, current, queue, future, served>>

(* Mutant: a caller waits until it is answered. *)
TimesOutNever(c) ==
    /\ call[c].pc = "waiting" /\ future[FutureOf(Request(c))] = "pending"
    /\ UNCHANGED callVars

(* Mutant: running out of time counts as losing the connection. *)
TimesOutRetryably(c) ==
    /\ call[c].pc = "waiting" /\ future[FutureOf(Request(c))] = "pending"
    /\ Goes(c, "failing", "running", "lost")
    /\ UNCHANGED <<main, thread, worker, current, queue, future, served, log>>

(* 30 s after the request was put, wherever it is then. *)
TimesOut(c) ==
    /\ call[c].pc = "waiting" /\ future[FutureOf(Request(c))] = "pending"
    /\ Goes(c, "failing", "running", "error")
    /\ UNCHANGED <<main, thread, worker, current, queue, future, served, log>>

(* Mutant: the failure row is committed with the transaction that failed. *)
FailureRowsUnrolled(c) == {<<>>, <<call[c].row, "failed">>}

(* Roll back, then leave one failure row, as far as it can be written. *)
FailureRows(c) == {<<>>, <<"failed">>}

Fail(c) ==
    /\ call[c].pc = "failing"
    /\ \E entries \in FailureRows(c) : Logged(c, entries)
    /\ Goes(c, "over", "none", call[c].outcome)
    /\ UNCHANGED <<main, thread, worker, current, queue, future, served>>

(* The investigator tries a lost connection once more (a transport failure *)
(* of the first attempt); any other outcome leads to another call.         *)
Again(c) ==
    /\ call[c].pc = "over" /\ call[c].n < Calls[c]
    /\ \E retry \in {FALSE, call[c].outcome = "lost" /\ ~ call[c].retry} :
         call' = [call EXCEPT ![c] = [pc |-> "idle", n |-> @.n + 1, retry |-> retry,
                                      row |-> "none", outcome |-> "none"]]
    /\ UNCHANGED <<main, thread, worker, current, queue, future, served, log>>

CallStep(c) == Put(c) \/ Answered(c) \/ TimesOut(c) \/ Fail(c)

-----------------------------------------------------------------------------
Quiet ==
    /\ main \in {"closed", "unclean"} /\ \A c \in Callers : call[c].pc \in {"idle", "over"}
    /\ UNCHANGED callVars

CallNext ==
    \/ WorkerStep \/ WorkerBreaks \/ MainStep \/ Shutdown \/ Quiet
    \/ \E c \in Callers : CallStep(c) \/ Reject(c) \/ Open(c) \/ Again(c)

CallSpec == CallInit /\ [][CallNext]_callVars

(* Threads run on; waits have timeouts.  Nobody has to call or to shut down. *)
ThreadsRun ==
    WF_callVars(WorkerStep) /\ WF_callVars(MainStep) /\ \A c \in Callers : WF_callVars(CallStep(c))

FairCallSpec == CallSpec /\ ThreadsRun

-----------------------------------------------------------------------------
(* Properties *)

CallStates ==
    [pc: {"idle", "putting", "waiting", "failing", "over"}, n: Nat \ {0}, retry: BOOLEAN,
     row: {"none", "running", "completed"}, outcome: {"none", "refused", "output"} \cup Errors]
LogRows == {"rejected", "running", "completed", "failed"}

CallTypeOK ==
    /\ main \in {"starting", "listing", "serving", "joining", "closed", "unclean"}
    /\ thread \in BOOLEAN
    /\ worker \in {"starting", "unready", "idle", "busy", "stopping", "ending", "dead"}
    /\ current \in Requests \cup {Listing, NoRequest} /\ (worker = "busy" <=> current # NoRequest)
    /\ queue \in Seq(Requests \cup {Listing, Stop}) /\ IsInjective(queue)
    /\ future \in [Requests \cup {Listing} -> {"pending", "data"} \cup Errors]
    /\ served \subseteq Requests \cup {Listing}
    /\ call \in [Callers -> CallStates] /\ \A c \in Callers : call[c].n <= Calls[c]
    /\ log \in [Requests -> Seq(LogRows)]

(* The audit log tells what the caller was told: one completed row for an  *)
(* output, at most one other row for anything else, and never the running  *)
(* row of a transaction that failed.                                       *)
AuditMatchesOutcome ==
    \A c \in Callers : call[c].pc = "over" =>
        log[Request(c)] \in
            CASE call[c].outcome = "output"  -> {<<"completed">>}
              [] call[c].outcome \in Errors  -> {<<>>, <<"failed">>}
              [] call[c].outcome = "refused" -> {<<>>, <<"rejected">>}

(* An output is what the server answered to this very request, never the   *)
(* late answer to one that timed out.                                      *)
OutputIsOwn ==
    \A c \in Callers : call[c].outcome = "output" => Request(c) \in served

(* A retry is made only of a request that has come to its end: its         *)
(* predecessor is neither queued nor with the server, so one investigation *)
(* step is never executed by two requests at a time ("outcome-unknown      *)
(* errors are intentionally excluded").                                    *)
RetryIsAlone ==
    \A c \in Callers : call[c].retry =>
        LET former == <<c, call[c].n - 1>> IN former # current /\ ~ Contains(queue, former)

(* Requests are never mixed up: neither their answers nor their attempts.  *)
AnswersAreOwn == CallTypeOK /\ OutputIsOwn /\ RetryIsAlone

(* After close() has returned normally the worker serves nothing more, so  *)
(* the engine and the server process can be disposed of.                   *)
ClosedIsQuiet == [][main = "closed" => served' = served /\ worker' = worker]_callVars

(* No caller waits for ever, whether the worker is slow, dead or stopped   *)
(* between the check of the thread and the put.                            *)
EveryCallEnds ==
    \A c \in Callers : call[c].pc = "putting" ~> call[c].pc = "over"
=============================================================================
