-------------------------------- MODULE Console --------------------------------
(***************************************************************************)
(* The browser page (frontend/app.js) and the reviews it edits.  The page  *)
(* is one thread: a click or an answer runs to its next await, and in      *)
(* between anything may happen to the state the rest of it will use: the   *)
(* team is switched, another run is opened, the session ends, the form is  *)
(* drawn again.  Answers arrive in any order.                              *)
(*                                                                         *)
(* Page, the page that is modelled, is one of the Reviewers; the others    *)
(* save what they please through Review.  What the page draws is reduced   *)
(* to which run, review and form it shows; the lists of business data and  *)
(* the import dialog are left out.                                         *)
(***************************************************************************)
EXTENDS Review, FiniteSets

CONSTANTS
    Page,
    Teams,
    CaseTeam,   \* the team a case belongs to
    Inflight,   \* bound: requests of the page under way at a time
    MaxClicks   \* bound: what the user does, counted from any start

ASSUME ConsoleAssumption ==
    /\ Page \in Reviewers /\ CaseTeam \in [Cases -> Teams]
    /\ Inflight \in Nat /\ MaxClicks \in Nat

VARIABLES
    session,  \* the login session is alive at the server
    page,     \* what app.js keeps in "state", and what is on the screen
    flight,   \* requests under way, with what the code after the await remembers
    clicks

consoleVars == <<reviewVars, session, page, flight, clicks>>

-----------------------------------------------------------------------------
None == "none"
NoReview == [case |-> None, version |-> 0]
NoForm == [case |-> None, version |-> 0, enabled |-> FALSE, saving |-> FALSE]

(* user and teamId, result, collaboration, activeContent, runs, busy,      *)
(* collaborationBusy; form is the review form on the screen.  A form knows *)
(* the save it has sent itself (the closure over its button).              *)
LoggedOut ==
    [user |-> FALSE, team |-> None, result |-> None, collaboration |-> NoReview,
     content |-> "plan", list |-> None, busy |-> FALSE, collaborationBusy |-> FALSE,
     form |-> NoForm]

(* restoreSession has found a session: a team is selected, its history     *)
(* listed.                                                                 *)
ConsoleInit ==
    /\ ReviewInit
    /\ session = TRUE /\ flight = {} /\ clicks \in 0..MaxClicks
    /\ \E t \in Teams : page = [LoggedOut EXCEPT !.user = TRUE, !.team = t, !.list = t]

RequestOf(p, kind, case) ==
    [kind |-> kind, case |-> case, team |-> p.team, answer |-> "awaited", version |-> 0]

Request(kind, case) == RequestOf(page, kind, case)

(* resetTeamView, as part of a new state of the page. *)
Reset(p) ==
    [p EXCEPT !.result = None, !.collaboration = NoReview, !.list = None, !.form = NoForm]

ShowLogin(p) == [p EXCEPT !.user = FALSE, !.team = None]

(* renderRunContent: the form is built anew from the collaboration record; *)
(* its button starts disabled while a save is under way.                   *)
Render(p) ==
    [p EXCEPT !.form =
        IF p.content # "collaboration" \/ p.result = None \/ p.collaboration = NoReview
        THEN NoForm
        ELSE [case |-> p.collaboration.case, version |-> p.collaboration.version,
              enabled |-> ~p.collaborationBusy, saving |-> FALSE]]

(* openHistoricRun and acceptResult: a run takes the screen. *)
ShowRun(p, case) ==
    Render([p EXCEPT !.result = case, !.collaboration = NoReview, !.content = "plan"])

Click ==
    /\ clicks < MaxClicks /\ clicks' = clicks + 1
    /\ UNCHANGED session

Ask(requests) ==
    /\ Cardinality(flight \cup requests) <= Inflight
    /\ flight' = flight \cup requests

Paint(p) == page' = p /\ UNCHANGED reviewVars

-----------------------------------------------------------------------------
(* What the user does *)

(* acceptUser after a login, or the team selection, which is disabled      *)
(* while the page is busy: an empty view, and the history of the team.     *)
Enter(t) ==
    LET p == [Reset(page) EXCEPT !.user = TRUE, !.team = t] IN
    /\ Paint(p) /\ Ask({RequestOf(p, "history", None)})

Login ==
    /\ ~page.user /\ clicks < MaxClicks /\ clicks' = clicks + 1
    /\ session' = TRUE
    /\ \E t \in Teams : Enter(t)

SelectTeam ==
    /\ page.user /\ ~page.busy /\ Click
    /\ \E t \in Teams \ {page.team} : Enter(t)

OpenRun(case) ==
    /\ page.user /\ page.list = CaseTeam[case] /\ Click
    /\ Paint(page) /\ Ask({Request("detail", case)})

(* A content tab: the result is drawn again, the review is loaded again. *)
OpenTab(content) ==
    /\ page.user /\ page.result # None /\ Click
    /\ Paint(Render([page EXCEPT !.content = content]))
    /\ Ask(IF content = "collaboration" THEN {Request("review", page.result)} ELSE {})

(* "Refresh task and review" on the collaboration tab. *)
Refresh ==
    /\ page.user /\ page.content = "collaboration" /\ page.result # None /\ Click
    /\ Paint(page) /\ Ask({Request("refresh", page.result)})

(* The form is submitted with the record it was drawn from. *)
SaveReview ==
    /\ page.user /\ page.form.enabled /\ ~page.collaborationBusy /\ Click
    /\ \E draft \in Drafts :
         IF session THEN SendPatch(Page, page.form.case, page.form.version, draft)
         ELSE UNCHANGED reviewVars
    /\ page' = [page EXCEPT !.collaborationBusy = TRUE,
                            !.form = [page.form EXCEPT !.enabled = FALSE, !.saving = TRUE]]
    /\ Ask({[Request("save", page.form.case) EXCEPT
                !.answer = IF session THEN "awaited" ELSE "unauthorized"]})

(* runAgent or submitApproval: one at a time.  A run that is executing     *)
(* stands for the one that is submitted.                                   *)
Act(kind) ==
    /\ page.user /\ ~page.busy /\ Click
    /\ \E case \in Cases :
         /\ CaseTeam[case] = page.team
         /\ kind = "approve" => page.result = case
         /\ Ask({Request(kind, case)})
    /\ Paint([page EXCEPT !.busy = TRUE])

Logout ==
    /\ page.user /\ ~page.busy /\ Click
    /\ Paint(page) /\ Ask({Request("logout", None)})

-----------------------------------------------------------------------------
(* The server answers a request; a session that is gone gets 401, a case   *)
(* of another team 404, and any request may fail.                          *)
ExpireSession ==
    /\ session /\ session' = FALSE
    /\ UNCHANGED <<reviewVars, page, flight, clicks>>

AnswersTo(q) ==
    IF q.kind = "save"
    THEN IF patch[Page].pc = "saved" THEN {"ok"}
         ELSE IF patch[Page].pc \in Refusals THEN {"refused"} ELSE {}
    ELSE {"refused"} \cup
         IF q.kind \in {"logout", "stream"} THEN {"ok"}
         ELSE IF ~session THEN {"unauthorized"}
         ELSE IF q.case = None \/ CaseTeam[q.case] = q.team THEN {"ok"} ELSE {}

Answer(q) ==
    /\ q.answer = "awaited"
    /\ \E answer \in AnswersTo(q) :
         flight' = (flight \ {q}) \cup
            {[q EXCEPT !.answer = answer,
                       !.version = IF q.case = None THEN 0 ELSE review[q.case].version]}
    /\ session' = (session /\ ~(q.kind = "logout"))
    /\ UNCHANGED <<reviewVars, page, clicks>>

-----------------------------------------------------------------------------
(* What the code after an await does with an answer *)

Take(q, answer) ==
    /\ q.answer = answer
    /\ UNCHANGED <<session, clicks>>

Done(q) == flight' = flight \ {q}
DoneAnd(q, requests) == flight' = (flight \ {q}) \cup requests

HistoryLoaded(q) ==
    /\ q.kind = "history" /\ Take(q, "ok")
    /\ Paint([page EXCEPT !.list = q.team]) /\ Done(q)

(* The run is shown whatever was selected meanwhile. *)
DetailLoaded(q) ==
    /\ q.kind = "detail" /\ Take(q, "ok")
    /\ Paint(ShowRun(page, q.case)) /\ Done(q)

(* Mutant: only the team is compared. *)
StillTeam(q) == page.team = q.team

(* state.teamId and state.result are still what they were. *)
StillShown(q) == page.team = q.team /\ page.result = q.case

ReviewLoaded(q) ==
    /\ q.kind = "review" /\ Take(q, "ok")
    /\ Paint(IF StillShown(q)
             THEN Render([page EXCEPT !.collaboration = [case |-> q.case, version |-> q.version]])
             ELSE page)
    /\ Done(q)

(* loadCollaboration fails: the tab shows why instead of the form. *)
ReviewFailed(q) ==
    /\ q.kind = "review" /\ Take(q, "refused")
    /\ Paint(IF StillShown(q) /\ page.content = "collaboration"
             THEN [page EXCEPT !.form = NoForm] ELSE page)
    /\ Done(q)

(* The refreshed run is followed by its review, drawn again at the end. *)
Refreshed(q) ==
    /\ q.kind = "refresh" /\ Take(q, "ok")
    /\ Paint(page)
    /\ DoneAnd(q, IF StillShown(q) THEN {Request("review", q.case)} ELSE {})

(* finally: the flag is down, and the button of the form that was saved.   *)
Settle(p) ==
    [p EXCEPT !.collaborationBusy = FALSE,
              !.form = [p.form EXCEPT !.enabled = p.form.enabled \/ p.form.saving,
                                    !.saving = FALSE]]

ReviewSaved(q) ==
    /\ q.kind = "save" /\ Take(q, "ok")
    /\ Paint(IF StillShown(q)
             THEN Render([page EXCEPT !.collaboration = [case |-> q.case, version |-> q.version],
                                      !.collaborationBusy = FALSE])
             ELSE Settle(page))
    /\ Done(q)

(* Mutant: a refusal leaves the flag up. *)
SaveStuck(q) ==
    /\ q.kind = "save" /\ Take(q, "refused")
    /\ Paint(page) /\ Done(q)

SaveRefused(q) ==
    /\ q.kind = "save" /\ Take(q, "refused")
    /\ Paint(Settle(page)) /\ Done(q)

(* The run is accepted and shown; its stream is followed. *)
Submitted(q) ==
    /\ q.kind = "submit" /\ Take(q, "ok")
    /\ Paint(ShowRun(page, q.case))
    /\ DoneAnd(q, {Request("stream", q.case)})

(* The terminal event, or the result of an approval: shown, and the page   *)
(* is free again.  A stream that breaks off frees it too.                  *)
ActDone(q) ==
    /\ q.kind \in {"stream", "approve", "submit"}
    /\ \/ q.kind # "submit" /\ Take(q, "ok")
          /\ Paint([ShowRun(page, q.case) EXCEPT !.busy = FALSE])
       \/ Take(q, "refused") /\ Paint([page EXCEPT !.busy = FALSE])
    /\ Done(q)

LoggedOutNow(q) ==
    /\ q.kind = "logout" /\ Take(q, "ok")
    /\ Paint(ShowLogin(Reset(page))) /\ Done(q)

(* A toast. *)
Toast(q) ==
    /\ q.kind \in {"history", "detail", "refresh", "logout"} /\ Take(q, "refused")
    /\ Paint(page) /\ Done(q)

(* requestJson shows the login and throws; what the caller had blocked is  *)
(* free again.                                                             *)
Unauthorized(q) ==
    /\ Take(q, "unauthorized")
    /\ Paint(ShowLogin(CASE q.kind \in {"submit", "approve"} -> [page EXCEPT !.busy = FALSE]
                         [] q.kind = "save" -> Settle(page)
                         [] OTHER -> page))
    /\ Done(q)

Resume(q) ==
    \/ HistoryLoaded(q) \/ DetailLoaded(q) \/ ReviewLoaded(q) \/ ReviewFailed(q)
    \/ Refreshed(q) \/ ReviewSaved(q) \/ SaveRefused(q) \/ Submitted(q) \/ ActDone(q)
    \/ LoggedOutNow(q) \/ Toast(q) \/ Unauthorized(q)

-----------------------------------------------------------------------------
User ==
    \/ Login \/ SelectTeam \/ Refresh \/ SaveReview \/ Logout
    \/ \E case \in Cases : OpenRun(case)
    \/ \E content \in {"plan", "collaboration"} : OpenTab(content)
    \/ \E kind \in {"submit", "approve"} : Act(kind)

Others ==
    /\ \/ Around
       \/ \E r \in Reviewers \ {Page} : SendSeen(r)
       \/ \E r \in Reviewers : FailPatch(r)
    /\ UNCHANGED <<session, page, flight, clicks>>

Server ==
    \/ \E q \in flight : Answer(q)
    \/ /\ \E r \in Reviewers : HandlePatch(r)
       /\ UNCHANGED <<session, page, flight, clicks>>

Callback == \E q \in flight : Resume(q)

ConsoleNext == User \/ Others \/ Server \/ Callback \/ ExpireSession

(* Every request is answered some time, and its callback runs. *)
ConsoleFairness == WF_consoleVars(Server) /\ WF_consoleVars(Callback)

ConsoleSpec == ConsoleInit /\ [][ConsoleNext]_consoleVars /\ ConsoleFairness

-----------------------------------------------------------------------------
(* Properties *)

Records == [case: Cases \cup {None}, version: Nat]
Forms == [case: Cases \cup {None}, version: Nat, enabled: BOOLEAN, saving: BOOLEAN]
PageStates ==
    [user: BOOLEAN, team: Teams \cup {None}, result: Cases \cup {None}, collaboration: Records,
     content: {"plan", "collaboration"}, list: Teams \cup {None}, busy: BOOLEAN,
     collaborationBusy: BOOLEAN, form: Forms]
PageRequests ==
    [kind: {"history", "detail", "review", "refresh", "save", "submit", "approve", "stream",
            "logout"},
     case: Cases \cup {None}, team: Teams \cup {None},
     answer: {"awaited", "ok", "refused", "unauthorized"}, version: Nat]

ConsoleTypeOK ==
    /\ session \in BOOLEAN /\ clicks \in 0..MaxClicks
    /\ page \in PageStates /\ flight \subseteq PageRequests

(* The review on the screen is the one of the run on the screen, and of    *)
(* the selected team, whatever was switched while it was loading or being  *)
(* saved.                                                                  *)
ReviewIsOfShownRun ==
    page.user /\ page.collaboration # NoReview =>
        /\ page.collaboration.case = page.result
        /\ CaseTeam[page.result] = page.team

(* P4-runbook.md: "a conflict returns 409, the page keeps the draft": when *)
(* a save meets a conflict while its run and tab are still shown, the form *)
(* on the screen is the one that was sent, and it can be sent again.       *)
ConflictKeepsDraft ==
    [][\A q \in flight \ flight' :
         /\ q.kind = "save" /\ q.answer = "refused" /\ patch[Page].pc = "conflict"
         /\ StillShown(q) /\ page.content = "collaboration"
         => page.form.saving /\ page'.form.enabled]_consoleVars

(* The page is not blocked for ever: while a flag is up, a request is under *)
(* way whose answer, whatever it is, leads to lowering it; also when the   *)
(* session ends, the stream breaks off, or the form is long gone.          *)
PageIsFreed ==
    /\ ConsoleTypeOK
    /\ page.busy => \E q \in flight : q.kind \in {"submit", "approve", "stream"}
    /\ page.collaborationBusy => \E q \in flight : q.kind = "save"
=============================================================================
