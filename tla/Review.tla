-------------------------------- MODULE Review --------------------------------
(***************************************************************************)
(* Human collaboration on an investigation: update_review and              *)
(* collaboration_view (investigation_service.py) behind the routes of      *)
(* investigation_router.py.  A save names the version it was drafted from; *)
(* the review row and one entry of an append-only history are written in   *)
(* one transaction, and the database decides between saves that meet:      *)
(* a second writer of the row waits for the first and then finds that its  *)
(* version is gone.                                                        *)
(***************************************************************************)
EXTENDS Naturals, Sequences, SequencesExt

CONSTANTS
    Reviewers,   \* browser pages that save reviews
    Cases,       \* public runs
    Owners,     \* users who may be named as owner
    Drafts,      \* what a reviewer may ask for
    MaxSaves     \* bound: saves one reviewer sends, counted from any start

Nobody == "nobody"
Handling == {"open", "in_progress", "resolved"}
Feedback == {"unreviewed", "supported", "needs_correction", "inconclusive"}
Content == [owner: Owners \cup {Nobody}, handling: Handling, feedback: Feedback, note: BOOLEAN]

ASSUME DraftsAssumption ==
    Drafts \subseteq Content /\ MaxSaves \in Nat /\ Nobody \notin Owners /\ Cases # {}

VARIABLES
    runStatus,  \* execution status of each case
    present,    \* the members of the team at present
    review,     \* investigation_reviews: [version, content], version 0 for no row
    notes,      \* investigation_notes of each case, in order of version
    patch       \* per reviewer: its PATCH request and where its handler is

reviewVars == <<runStatus, present, review, notes, patch>>

-----------------------------------------------------------------------------
(* collaboration_view of a case without a row. *)
Blank == [owner |-> Nobody, handling |-> "open", feedback |-> "unreviewed", note |-> FALSE]

Finished == {"completed", "failed"}
Refusals == {"unprocessable", "conflict", "error"}
Answered == Refusals \cup {"saved"}

ReviewInit ==
    /\ runStatus \in [Cases -> {"running", "completed"}]
    /\ present = Owners
    /\ review = [c \in Cases |-> [version |-> 0, content |-> Blank]]
    /\ notes = [c \in Cases |-> <<>>]
    /\ \E sends \in [Reviewers -> 0..MaxSaves] :
         patch = [r \in Reviewers |-> [pc |-> "unsent", case |-> CHOOSE c \in Cases : TRUE,
                                      expected |-> 0, draft |-> Blank, sends |-> sends[r]]]

FinishCase(c) ==
    /\ runStatus[c] = "running"
    /\ \E s \in Finished : runStatus' = [runStatus EXCEPT ![c] = s]
    /\ UNCHANGED <<present, review, notes, patch>>

LeaveTeam(m) ==
    /\ m \in present /\ present' = present \ {m}
    /\ UNCHANGED <<runStatus, review, notes, patch>>

Step(r, pc) ==
    /\ patch' = [patch EXCEPT ![r].pc = pc]
    /\ UNCHANGED <<runStatus, present, review, notes>>

(* A page saves a draft of the version it shows. *)
SendPatch(r, c, version, draft) ==
    /\ patch[r].pc \in {"unsent"} \cup Answered
    /\ patch[r].sends < MaxSaves
    /\ patch' = [patch EXCEPT ![r] = [pc |-> "checking", case |-> c, expected |-> version,
                                      draft |-> draft, sends |-> @.sends + 1]]
    /\ UNCHANGED <<runStatus, present, review, notes>>

WrongOwner(d) ==
    \/ d.owner # Nobody /\ d.owner \notin present
    \/ d.handling # "open" /\ d.owner = Nobody

Unexplained(d) == d.handling = "resolved" /\ (d.feedback = "unreviewed" \/ ~d.note)

(* Mutant: feedback on a run is taken at any time. *)
EarlyNever(d, c) == FALSE

EarlyFeedback(d, c) == d.feedback # "unreviewed" /\ runStatus[c] \notin Finished

(* The checks in their order, which decides what is told. *)
Refusal(d, c) ==
    IF WrongOwner(d) THEN "unprocessable"
    ELSE IF EarlyFeedback(d, c) THEN "conflict"
    ELSE IF Unexplained(d) THEN "unprocessable" ELSE "none"

CheckPatch(r) ==
    LET refusal == Refusal(patch[r].draft, patch[r].case) IN
    /\ patch[r].pc = "checking"
    /\ Step(r, IF refusal = "none" THEN "writing" ELSE refusal)

(* Another open transaction has written the row of this case. *)
RowLocked(r) == \E s \in Reviewers \ {r} : patch[s].pc = "written" /\ patch[s].case = patch[r].case

(* INSERT of the first version, or UPDATE ... WHERE version = expected. *)
VersionFits(r) == review[patch[r].case].version = patch[r].expected

(* uq_investigation_revision: no note of the new version exists. *)
NoteFits(r) == Len(notes[patch[r].case]) <= patch[r].expected

WritePatch(r) ==
    /\ patch[r].pc = "writing" /\ ~RowLocked(r)
    /\ Step(r, IF VersionFits(r) THEN "written" ELSE "conflict")

(* Mutant: the review is committed before its note is written. *)
CommitReviewOnly(r) ==
    LET p == patch[r] IN
    /\ p.pc = "written"
    /\ review' = [review EXCEPT ![p.case] = [version |-> p.expected + 1, content |-> p.draft]]
    /\ patch' = [patch EXCEPT ![r].pc = "saved"]
    /\ UNCHANGED <<runStatus, present, notes>>

(* The note of the new version, then the commit of both. *)
CommitPatch(r) ==
    LET p == patch[r] IN
    /\ p.pc = "written"
    /\ IF NoteFits(r)
       THEN /\ review' = [review EXCEPT ![p.case] =
                            [version |-> p.expected + 1, content |-> p.draft]]
            /\ notes' = [notes EXCEPT ![p.case] =
                            Append(@, [actor |-> r, basis |-> p.expected, content |-> p.draft])]
            /\ patch' = [patch EXCEPT ![r].pc = "saved"]
       ELSE patch' = [patch EXCEPT ![r].pc = "conflict"] /\ UNCHANGED <<review, notes>>
    /\ UNCHANGED <<runStatus, present>>

(* The database fails, or the process: nothing of the save stays. *)
FailPatch(r) == patch[r].pc \in {"writing", "written"} /\ Step(r, "error")

HandlePatch(r) == CheckPatch(r) \/ WritePatch(r) \/ CommitPatch(r)

(* The world around the reviews, and a page that saves what it has seen at *)
(* some time: any version up to the present one.                           *)
Around == (\E c \in Cases : FinishCase(c)) \/ (\E m \in Owners : LeaveTeam(m))

SendSeen(r) ==
    \E c \in Cases, draft \in Drafts : \E seen \in 0..review[c].version : SendPatch(r, c, seen, draft)

-----------------------------------------------------------------------------
(* Properties *)

ReviewRows == [version: Nat, content: Content]
NoteRows == [actor: Reviewers, basis: Nat, content: Content]
Patches == [pc: Answered \cup {"unsent", "checking", "writing", "written"},
            case: Cases, expected: Nat, draft: Content, sends: 0..MaxSaves]

ReviewTypeOK ==
    /\ runStatus \in [Cases -> Finished \cup {"running"}]
    /\ present \subseteq Owners
    /\ review \in [Cases -> ReviewRows]
    /\ DOMAIN notes = Cases /\ \A c \in Cases : notes[c] \in Seq(NoteRows)
    /\ patch \in [Reviewers -> Patches]

(* However saves meet, fail or repeat: the history of a case holds one     *)
(* entry for each version, drafted from the version before it, and its     *)
(* last entry is the review.  No save overwrites one its author had not    *)
(* seen.                                                                   *)
HistoryIsWhole ==
    \A c \in Cases :
        /\ Len(notes[c]) = review[c].version
        /\ \A i \in 1..Len(notes[c]) : notes[c][i].basis = i - 1
        /\ notes[c] # <<>> => Last(notes[c]).content = review[c].content

(* What a review claims has happened: feedback is on a run that has ended, *)
(* a resolved case has an owner, feedback and an explanation.              *)
ReviewIsJustified ==
    \A c \in Cases : LET now == review[c].content IN
        /\ now.feedback # "unreviewed" => runStatus[c] \in Finished
        /\ now.handling # "open" => now.owner # Nobody
        /\ now.handling = "resolved" => now.feedback # "unreviewed" /\ now.note

(* A review accounts for itself: how it came about, and why it may say     *)
(* what it says.                                                           *)
ReviewIsAccounted == ReviewTypeOK /\ HistoryIsWhole /\ ReviewIsJustified
=============================================================================
