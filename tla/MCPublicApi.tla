------------------------------ MODULE MCPublicApi ------------------------------
(***************************************************************************)
(* The parts of the public API that answer browsers, for TLC: submissions, *)
(* the two kinds of event streams, and the console page with the reviews.  *)
(* They share no state that one of them writes and another one reads, so   *)
(* each behaviour begins with one of them awake and the others asleep: one *)
(* run checks them all without multiplying their states.                   *)
(***************************************************************************)
EXTENDS Submission, RunStreams, DurableStream, Console, TLC

CONSTANTS r1, r2, m1, m2, b1, b2, p1, p2, p3, c1, c2, t1, t2

Draft(handling, feedback, note) ==
    [owner |-> m1, handling |-> handling, feedback |-> feedback, note |-> note]

SomeDrafts == {Draft("in_progress", "unreviewed", FALSE), Draft("resolved", "supported", TRUE)}

OneCaseEach == (c1 :> t1) @@ (c2 :> t2)

-----------------------------------------------------------------------------
(* A part that is asleep can take no step: its bounds are used up. *)

SubmissionAsleep ==
    /\ runs = {} /\ jobs = {} /\ incidents = {} /\ lastRun = 0
    /\ req = [r \in Requests |-> [pc |-> "unsent", asks |-> CHOOSE c \in Contents : TRUE,
                                  run |-> 0, sends |-> MaxSends]]

StreamsAsleep ==
    /\ row = "absent" /\ approval = "none" /\ task = "done" /\ restarts = MaxRestarts
    /\ log = <<>> /\ sequence = 1 /\ closed = FALSE /\ early = FALSE
    /\ client = [c \in Clients |-> [pc |-> "out", seen |-> "absent", from |-> 0, got |-> <<>>]]

WatchAsleep ==
    /\ ledger = [status |-> "failed", attempts |-> 0, leased |-> FALSE, started |-> FALSE,
                 published |-> 0, child |-> "none"]
    /\ trace = <<>> /\ writers = {} /\ access = FALSE
    /\ watcher = [w \in Watchers |->
                    [pc |-> "out", from |-> 0, cursor |-> 0, shown |-> 0, sent |-> <<>>]]

ReviewsAsleep ==
    /\ runStatus = [c \in Cases |-> "completed"] /\ present = {}
    /\ review = [c \in Cases |-> [version |-> 0, content |-> Blank]]
    /\ notes = [c \in Cases |-> <<>>]
    /\ patch = [r \in Reviewers |-> [pc |-> "unsent", case |-> c1, expected |-> 0,
                                     draft |-> Blank, sends |-> MaxSaves]]

ConsoleAsleep ==
    /\ ReviewsAsleep
    /\ session = FALSE /\ flight = {} /\ clicks = MaxClicks /\ page = LoggedOut

-----------------------------------------------------------------------------
(* The page alone, with two closed cases; and three pages that save. *)
PageAlone ==
    /\ ConsoleInit
    /\ clicks = 0 /\ patch[Page].sends = 0
    /\ \A r \in Reviewers \ {Page} : patch[r].sends = MaxSaves
    /\ \A c \in Cases : runStatus[c] = "completed"

PeersSave == ConsoleInit /\ clicks = MaxClicks /\ \A r \in Reviewers : patch[r].sends = 0

(* Members and bodies are interchangeable: let the first request name these. *)
FirstRequest == Asks(r1).member = m1 /\ Asks(r1).body = b1

ApiInit ==
    \/ Init /\ FirstRequest /\ StreamsAsleep /\ WatchAsleep /\ ConsoleAsleep
    \/ SubmissionAsleep /\ StreamInit /\ WatchAsleep /\ ConsoleAsleep
    \/ SubmissionAsleep /\ StreamsAsleep /\ WatchInit /\ ConsoleAsleep
    \/ SubmissionAsleep /\ StreamsAsleep /\ WatchAsleep /\ (PageAlone \/ PeersSave)

ApiNext ==
    \/ Next /\ UNCHANGED <<streamVars, watchVars, consoleVars>>
    \/ StreamNext /\ UNCHANGED <<vars, watchVars, consoleVars>>
    \/ WatchNext /\ UNCHANGED <<vars, streamVars, consoleVars>>
    \/ ConsoleNext /\ UNCHANGED <<vars, streamVars, watchVars>>

apiVars == <<vars, streamVars, watchVars, consoleVars>>

ApiSpec ==
    /\ ApiInit /\ [][ApiNext]_apiVars
    /\ HandlersRun /\ StreamFairness

(* The page and one more reviewer, for the run that refutes a promise      *)
(* about its form.                                                         *)
PageMeetsPeer ==
    /\ ConsoleInit
    /\ clicks = 0 /\ patch[Page].sends = 0
    /\ Cardinality({r \in Reviewers : patch[r].sends < MaxSaves}) = 2
    /\ \A c \in Cases : runStatus[c] = "completed"

PageSpec ==
    /\ SubmissionAsleep /\ StreamsAsleep /\ WatchAsleep /\ PageMeetsPeer
    /\ [][ConsoleNext /\ UNCHANGED <<vars, streamVars, watchVars>>]_apiVars
=============================================================================
