----------------------------- MODULE IntakeDraft -----------------------------
(***************************************************************************)
(* The way from a private message or a pasted text to an issue             *)
(* (issues/service.py, the draft handlers of web/app.py, the private half  *)
(* of the inbound loop in worker.py), the images on that way               *)
(* (media/storage.py), the cleanup of what has expired, and the deletion   *)
(* of closed issues and of a team (admin/service.py).                      *)
(*                                                                         *)
(* Two processes share the database and the object store.  In the worker   *)
(* the inbound loop and the cleanup loop run side by side.  The web        *)
(* process is one event loop: a handler can be overtaken where it awaits   *)
(* (the customer group, the Agent, the uploads) and nowhere else, so       *)
(* create_intake_draft, confirm_intake and the deletions exclude each      *)
(* other, and only the worker comes between their transactions.            *)
(*                                                                         *)
(* Abstractions.  One member, one queue and one development team, so that  *)
(* permissions never refuse; a private message brings one image, a request *)
(* at most one upload; the case of a draft is known by its source          *)
(* issue-intake:{draft}, which is unique.  Requests that are answered from *)
(* what they read change nothing and are no steps.  WeCom does not repeat  *)
(* a callback after the two hours of its handoff.                          *)
(* A definition named Mutant... is a slip that the one after it avoids.    *)
(***************************************************************************)
EXTENDS Naturals, FiniteSets

CONSTANTS
    Messages,     \* private messages, by msgid
    Requests,     \* submissions of the form for a new issue, in their order
    Drafts,       \* bound: ids of drafts
    Images,       \* bound: ids of stored images
    Workbench,    \* where a draft without a private message comes from
    MaxCallbacks, \* bound: callbacks of private messages
    MaxFaults     \* bound: crashes, failing requests, failing file removals
                  \* and deletions

ASSUME IntakeDraftConstants ==
    /\ Workbench \notin Messages
    /\ Requests \in Nat
    /\ {MaxCallbacks, MaxFaults} \subseteq Nat

(***************************************************************************)
(*   handoff[m]  the row of a private message: NONE before and GONE after  *)
(*               it exists; consumed_at; whether expires_at has come; its  *)
(*               images                                                    *)
(*   draft[d]    the same of a draft, with its origin and whether          *)
(*               confirmed_issue_id is set                                 *)
(*   issue[d]    the case created from d, with the images of its entries   *)
(*               and whether a deletion of it, or of d, has failed         *)
(*               (history)                                                 *)
(*   team        the team exists                                           *)
(*   rows        stored_media;  files: the object store;  taken: ids used  *)
(*   req[r]      a request: where it is, its origin and its images         *)
(*   web         the handler that holds the event loop of the web process  *)
(*   sweep[p]    cleanup_expired_drafts in process p: what it has read, or *)
(*               the files it still has to remove                          *)
(***************************************************************************)
VARIABLES handoff, draft, issue, team, rows, files, taken, req, web,
          sweep, callbacks, faults

media == <<rows, files, taken>>
tables == <<handoff, draft, issue, team>>
bounds == <<callbacks, faults>>
vars == <<tables, media, req, web, sweep, bounds>>

Origins == Messages \cup {Workbench}
NoHandoff == [st |-> "NONE", consumed |-> FALSE, old |-> FALSE, images |-> {}]
NoDraft == [st |-> "NONE", confirmed |-> FALSE, old |-> FALSE, images |-> {},
            origin |-> Workbench]
NoIssue == [st |-> "NONE", images |-> {}, spoilt |-> FALSE]
NotStarted == [at |-> "idle", origin |-> Workbench, images |-> {}]
WebIdle == [job |-> "idle", req |-> 0, inTime |-> FALSE,
            drafts |-> {}, issues |-> {}, images |-> {}, whole |-> FALSE]
Asleep == [st |-> "idle", drafts |-> {}, handoffs |-> {}, images |-> {}]

HandoffRow == [st : {"NONE", "STORED", "GONE"}, consumed : BOOLEAN, old : BOOLEAN,
               images : SUBSET Images]
DraftRow == [st : {"NONE", "STORED", "GONE"}, confirmed : BOOLEAN, old : BOOLEAN,
             images : SUBSET Images, origin : Origins]
IssueRow == [st : {"NONE", "OPEN", "CLOSED", "DELETED"}, images : SUBSET Images,
             spoilt : BOOLEAN]
Request == [at : {"idle", "agent", "over"}, origin : Origins, images : SUBSET Images]
Handler == [job : {"idle", "draft", "insert", "create", "mark", "delete"},
            req : 0..Requests, inTime : BOOLEAN,
            drafts : SUBSET Drafts, issues : SUBSET Drafts,
            images : SUBSET Images, whole : BOOLEAN]
Cleanup == [st : {"idle", "read", "files"}, drafts : SUBSET Drafts,
            handoffs : SUBSET Messages, images : SUBSET Images]

TypeOK ==
    /\ handoff \in [Messages -> HandoffRow]
    /\ draft \in [Drafts -> DraftRow]
    /\ \A d \in Drafts : draft[d].st = "NONE" => draft[d] = NoDraft
    /\ issue \in [Drafts -> IssueRow]
    /\ team \in BOOLEAN
    /\ rows \cup files \subseteq taken /\ taken \subseteq Images
    /\ req \in [1..Requests -> Request]
    /\ web \in Handler
    /\ sweep \in [{"web", "worker"} -> Cleanup]

Init ==
    /\ handoff = [m \in Messages |-> NoHandoff]
    /\ draft = [d \in Drafts |-> NoDraft]
    /\ issue = [d \in Drafts |-> NoIssue]
    /\ team = TRUE
    /\ rows = {} /\ files = {} /\ taken = {}
    /\ req = [r \in 1..Requests |-> NotStarted]
    /\ web = WebIdle
    /\ sweep = [p \in {"web", "worker"} |-> Asleep]
    /\ callbacks = 0 /\ faults = 0

Stored(table) == {x \in DOMAIN table : table[x].st = "STORED"}
ImagesOf(table, ids) == UNION {table[x].images : x \in ids}
Existing == {d \in Drafts : issue[d].st \in {"OPEN", "CLOSED"}}
WebFree == web.job = "idle"

\* The file first and then the row, under a new id.  A file whose row, or whose
\* handoff or draft, is never written is known to nobody and left out.
Ingest(i) ==
    /\ taken # Images
    /\ i = CHOOSE j \in Images : j \notin taken
    /\ taken' = taken \cup {i}
    /\ files' = files \cup {i}
    /\ rows' = rows \cup {i}

-----------------------------------------------------------------------------
(* The inbound loop of the worker.                                         *)

\* create_private_intake_handoff: a repeated callback gets the token there is.
CreateHandoff(m, images) ==
    handoff' = IF handoff[m].st = "STORED" THEN handoff
               ELSE [handoff EXCEPT ![m] = [NoHandoff EXCEPT !.st = "STORED",
                                                             !.images = images]]

\* _handle_private_inbound: the image is stored anew when a callback is
\* repeated.  Between that and create_private_intake_handoff the loop can be
\* overtaken, but nobody knows the image yet.
ReceivePrivate(m) ==
    /\ callbacks < MaxCallbacks
    /\ handoff[m].st = "NONE" \/ (handoff[m].st = "STORED" /\ ~handoff[m].old)
    /\ \E i \in Images :
          /\ Ingest(i)
          /\ CreateHandoff(m, {i})
    /\ callbacks' = callbacks + 1
    /\ UNCHANGED <<draft, issue, team, req, web, sweep, faults>>

-----------------------------------------------------------------------------
(* cleanup_expired_drafts: reads and deletes in one transaction, and       *)
(* removes the files after it.                                             *)

ExpiredDrafts == {d \in Stored(draft) : draft[d].old /\ ~draft[d].confirmed}
ExpiredHandoffs == {m \in Stored(handoff) : handoff[m].old}

\* Images an entry, a draft that stays or a handoff that stays refers to.
Protected ==
    ImagesOf(issue, Existing)
      \cup ImagesOf(draft, Stored(draft) \ ExpiredDrafts)
      \cup ImagesOf(handoff, Stored(handoff) \ ExpiredHandoffs)

Removable ==
    (ImagesOf(draft, ExpiredDrafts) \cup ImagesOf(handoff, ExpiredHandoffs))
      \ Protected

\* A slip in Expired: handoffs that became drafts are kept.
MutantExpired == [st |-> "read", drafts |-> ExpiredDrafts,
                  handoffs |-> {m \in ExpiredHandoffs : ~handoff[m].consumed},
                  images |-> Removable \cap rows]

Expired == [st |-> "read", drafts |-> ExpiredDrafts,
            handoffs |-> ExpiredHandoffs, images |-> Removable \cap rows]

\* The selects.
SweepRead(p) ==
    /\ sweep[p].st = "idle"
    /\ Expired.drafts \cup Expired.handoffs # {}
    /\ sweep' = [sweep EXCEPT ![p] = Expired]

\* The foreign key of an entry's parts refuses an image that a case has got
\* since; the whole transaction is rolled back then.
Refused(p) == sweep[p].images \cap ImagesOf(issue, Existing) # {}

\* A slip in Remove: the id is free again.
MutantRemove(table, ids) ==
    [x \in DOMAIN table |->
       IF x \in ids /\ table[x].st = "STORED"
       THEN [table[x] EXCEPT !.st = "NONE"] ELSE table[x]]

Remove(table, ids) ==
    [x \in DOMAIN table |->
       IF x \in ids /\ table[x].st = "STORED"
       THEN [table[x] EXCEPT !.st = "GONE"] ELSE table[x]]

\* A slip in SweepCommit: the files go before the commit, as in _delete_cases.
MutantSweepCommit(p) ==
    /\ sweep[p].st = "read"
    /\ files' = files \ sweep[p].images
    /\ IF Refused(p)
       THEN /\ sweep' = [sweep EXCEPT ![p] = Asleep]
            /\ UNCHANGED <<handoff, draft, rows>>
       ELSE /\ handoff' = Remove(handoff, sweep[p].handoffs)
            /\ draft' = Remove(draft, sweep[p].drafts)
            /\ rows' = rows \ sweep[p].images
            /\ sweep' = [sweep EXCEPT ![p] = [Asleep EXCEPT !.st = "files"]]
    /\ UNCHANGED <<issue, team, taken>>

\* The deletes and the commit.
SweepCommit(p) ==
    /\ sweep[p].st = "read"
    /\ IF Refused(p)
       THEN /\ sweep' = [sweep EXCEPT ![p] = Asleep]
            /\ UNCHANGED <<handoff, draft, rows>>
       ELSE /\ handoff' = Remove(handoff, sweep[p].handoffs)
            /\ draft' = Remove(draft, sweep[p].drafts)
            /\ rows' = rows \ sweep[p].images
            /\ sweep' = [sweep EXCEPT ![p] =
                            [Asleep EXCEPT !.st = "files",
                                           !.images = sweep[p].images]]
    /\ UNCHANGED <<issue, team, files, taken>>

\* delete_prefix; a failure is logged.
SweepFiles(p) ==
    /\ sweep[p].st = "files"
    /\ \/ files' = files \ sweep[p].images /\ UNCHANGED faults
       \/ /\ faults < MaxFaults /\ sweep[p].images # {}
          /\ faults' = faults + 1
          /\ UNCHANGED files
    /\ sweep' = [sweep EXCEPT ![p] = Asleep]
    /\ UNCHANGED <<tables, rows, taken>>

\* _issue_intake_cleanup_loop.
WorkerSweep ==
    \/ SweepRead("worker")
       /\ UNCHANGED <<tables, media, req, web, bounds>>
    \/ SweepCommit("worker") /\ UNCHANGED <<req, web, bounds>>
    \/ SweepFiles("worker")
       /\ UNCHANGED <<req, web, callbacks>>

-----------------------------------------------------------------------------
(* A request for a draft.                                                  *)

\* private_intake_handoff: one that is already a draft is answered with that
\* draft, one that has expired with an error.
Usable(o) ==
    o \in Messages => o \in Stored(handoff) /\ ~handoff[o].consumed
                                            /\ ~handoff[o].old

\* create_issue_draft up to the Agent.
BeginDraft(r, origin) ==
    /\ WebFree /\ team
    /\ req[r].at = "idle" /\ \A q \in 1..r - 1 : req[q].at # "idle"
    /\ Usable(origin)
    /\ req' = [req EXCEPT ![r] =
                 [at |-> "agent", origin |-> origin,
                  images |-> IF origin = Workbench THEN {}
                             ELSE handoff[origin].images]]
    /\ UNCHANGED <<tables, media, web, sweep, bounds>>

\* The Agent, an upload or a check of the fields fails.
DraftFails(r) ==
    /\ WebFree
    /\ req[r].at = "agent"
    /\ faults < MaxFaults
    /\ faults' = faults + 1
    /\ req' = [req EXCEPT ![r] = [NotStarted EXCEPT !.at = "over"]]
    /\ UNCHANGED <<tables, media, web, sweep, callbacks>>

Over(r) == req' = [req EXCEPT ![r] = [NotStarted EXCEPT !.at = "over"]]

\* now = utc_now(), after the cleanup.
TakeTime(job) ==
    LET o == req[job.req].origin
    IN [job EXCEPT !.job = "insert",
                   !.inTime = o = Workbench \/ ~handoff[o].old]

\* The Agent has answered, the uploads are stored, and create_intake_draft
\* begins with a cleanup.
CreateDraft(r, job) ==
    /\ IF Expired.drafts \cup Expired.handoffs = {}
       THEN web' = TakeTime(job) /\ UNCHANGED sweep
       ELSE web' = job /\ sweep' = [sweep EXCEPT !["web"] = Expired]
    /\ UNCHANGED <<tables, req, bounds>>

AgentAnswers(r) ==
    /\ WebFree
    /\ req[r].at = "agent"
    /\ LET job == [WebIdle EXCEPT !.job = "draft", !.req = r,
                                  !.images = req[r].images]
       IN \/ CreateDraft(r, job) /\ UNCHANGED media
          \/ \E i \in Images :
                Ingest(i) /\ CreateDraft(r, [job EXCEPT !.images = @ \cup {i}])

\* The cleanup of a request is never refused, since cases come from drafts in
\* this process only.  The page of the form runs the same cleanup, with nothing
\* after it.
WebSweep ==
    \/ SweepCommit("web") /\ UNCHANGED <<req, web, bounds>>
    \/ /\ SweepFiles("web")
       /\ web' = TakeTime(web)
       /\ UNCHANGED <<req, callbacks>>

\* Whether the transaction of create_intake_draft makes a draft: not if the
\* handoff is gone, already consumed, or had expired when it took the time.
MakesDraft(o) ==
    /\ team
    /\ o \in Messages => o \in Stored(handoff) /\ ~handoff[o].consumed /\ web.inTime

\* A fresh id; the ids of Drafts are a bound, too.
Insert(o, images) ==
    \E d \in Drafts :
       /\ d = CHOOSE e \in Drafts : draft[e].st = "NONE"
       /\ draft[d].st = "NONE"
       /\ draft' = [draft EXCEPT ![d] = [NoDraft EXCEPT !.st = "STORED",
                                                        !.origin = o,
                                                        !.images = images]]

\* A slip in InsertDraft: the handler does not pass private_handoff_token on.
MutantInsertDraft ==
    /\ web.job = "insert"
    /\ LET r == web.req
       IN /\ IF team THEN Insert(req[r].origin, web.images)
             ELSE UNCHANGED draft
          /\ Over(r)
    /\ web' = WebIdle
    /\ UNCHANGED <<handoff, issue, team, media, sweep, bounds>>

\* The transaction of create_intake_draft, under the lock of the handoff.
InsertDraft ==
    /\ web.job = "insert"
    /\ LET r == web.req
           o == req[r].origin
       IN /\ IF MakesDraft(o)
             THEN /\ Insert(o, web.images)
                  /\ handoff' = IF o = Workbench THEN handoff
                                ELSE [handoff EXCEPT ![o].consumed = TRUE]
             ELSE UNCHANGED <<draft, handoff>>
          /\ Over(r)
    /\ web' = WebIdle
    /\ UNCHANGED <<issue, team, media, sweep, bounds>>

-----------------------------------------------------------------------------
(* confirm_intake, in three transactions.  A draft that is confirmed is     *)
(* answered with its issue.                                                *)

\* _owned_draft.
Confirmable(d) ==
    draft[d].st = "STORED" /\ ~draft[d].old /\ ~draft[d].confirmed

ConfirmRead(d) ==
    /\ WebFree
    /\ Confirmable(d)
    /\ web' = [WebIdle EXCEPT !.job = "create", !.drafts = {d},
                              !.images = draft[d].images]
    /\ UNCHANGED <<tables, media, req, sweep, bounds>>

\* CreateCase with the source of the draft; it can be refused for other reasons
\* too (a deadline that has passed), which the second disjunct stands for.
CreateCase ==
    /\ web.job = "create"
    /\ \E d \in web.drafts :
          \/ /\ d \in Existing \/ (team /\ web.images \subseteq rows)
             /\ issue' = IF d \in Existing THEN issue
                         ELSE [issue EXCEPT ![d] = [@ EXCEPT
                                                    !.st = "OPEN",
                                                    !.images = web.images]]
             /\ web' = [web EXCEPT !.job = "mark", !.images = {}]
          \/ /\ d \notin Existing
             /\ web' = WebIdle
             /\ UNCHANGED issue
    /\ UNCHANGED <<handoff, draft, team, media, req, sweep, bounds>>

\* The draft is marked even if it has expired, unless it is gone.
MarkConfirmed ==
    /\ web.job = "mark"
    /\ draft' = [d \in Drafts |->
                   IF d \in web.drafts /\ draft[d].st = "STORED"
                   THEN [draft[d] EXCEPT !.confirmed = TRUE] ELSE draft[d]]
    /\ web' = WebIdle
    /\ UNCHANGED <<handoff, issue, team, media, req, sweep, bounds>>

-----------------------------------------------------------------------------
(* Closing and deleting.                                                   *)

\* SetCaseStatus with CLOSED.
CloseCase(d) ==
    /\ WebFree
    /\ issue[d].st = "OPEN"
    /\ issue' = [issue EXCEPT ![d].st = "CLOSED"]
    /\ UNCHANGED <<handoff, draft, team, media, req, web, sweep, bounds>>

\* _delete_cases: the images nothing that stays refers to; handoffs are not
\* looked at.
Unretained(issues, drafts) ==
    (ImagesOf(issue, issues) \cup ImagesOf(draft, drafts))
      \ (ImagesOf(issue, Existing \ issues)
           \cup ImagesOf(draft, Stored(draft) \ drafts))

StartDeletion(issues, drafts, whole) ==
    /\ web' = [WebIdle EXCEPT !.job = "delete", !.issues = issues,
                              !.drafts = drafts, !.whole = whole,
                              !.images = Unretained(issues, drafts) \cap rows]
    /\ UNCHANGED <<tables, media, req, sweep, bounds>>

ConfirmedFor(issues) == {d \in Stored(draft) : draft[d].confirmed /\ d \in issues}

\* delete_closed_issue, in its transaction.
DeleteClosedIssue(d) ==
    /\ WebFree
    /\ issue[d].st = "CLOSED"
    /\ StartDeletion({d}, ConfirmedFor({d}), FALSE)

\* delete_team, in its transaction: all issues of the team must be closed, and
\* the drafts that name it go too.
DeleteTeam ==
    /\ WebFree /\ team
    /\ \A d \in Existing : issue[d].st = "CLOSED"
    /\ StartDeletion(Existing,
                     ConfirmedFor(Existing)
                       \cup {d \in Stored(draft) : ~draft[d].confirmed},
                     TRUE)

\* A slip in CommitDeletion: the confirmed drafts are left.
MutantCommitDeletion ==
    /\ web.job = "delete"
    /\ issue' = [d \in Drafts |-> IF d \in web.issues
                   THEN [issue[d] EXCEPT !.st = "DELETED"] ELSE issue[d]]
    /\ team' = (team /\ ~web.whole)
    /\ rows' = rows \ web.images
    /\ files' = files \ web.images
    /\ web' = WebIdle
    /\ UNCHANGED <<handoff, draft, taken, req, sweep, bounds>>

\* The files go one by one, then the transaction commits.
CommitDeletion ==
    /\ web.job = "delete"
    /\ issue' = [d \in Drafts |-> IF d \in web.issues
                   THEN [issue[d] EXCEPT !.st = "DELETED"] ELSE issue[d]]
    /\ draft' = Remove(draft, web.drafts)
    /\ team' = (team /\ ~web.whole)
    /\ rows' = rows \ web.images
    /\ files' = files \ web.images
    /\ web' = WebIdle
    /\ UNCHANGED <<handoff, taken, req, sweep, bounds>>

\* The object store or the database fails, or the process dies: the transaction
\* is rolled back, and the files removed so far are gone.
DeletionFails ==
    /\ web.job = "delete"
    /\ faults < MaxFaults
    /\ faults' = faults + 1
    /\ \E gone \in SUBSET web.images :
          /\ files' = files \ gone
          /\ issue' = [d \in Drafts |->
                         IF d \in web.issues \cup web.drafts /\ gone # {}
                         THEN [issue[d] EXCEPT !.spoilt = TRUE] ELSE issue[d]]
    /\ web' = WebIdle
    /\ UNCHANGED <<handoff, draft, team, rows, taken, req, sweep, callbacks>>

-----------------------------------------------------------------------------
(* Time and crashes.                                                       *)

ExpireHandoff(m) ==
    /\ handoff[m].st = "STORED" /\ ~handoff[m].old
    /\ handoff' = [handoff EXCEPT ![m].old = TRUE]
    /\ UNCHANGED <<draft, issue, team, media, req, web, sweep, bounds>>

\* Two hours after the draft, and so after its handoff; of no consequence once
\* the draft is confirmed.
ExpireDraft(d) ==
    /\ draft[d].st = "STORED" /\ ~draft[d].old /\ ~draft[d].confirmed
    /\ \A m \in Stored(handoff) : draft[d].origin = m => handoff[m].old
    /\ draft' = [draft EXCEPT ![d].old = TRUE]
    /\ UNCHANGED <<handoff, issue, team, media, req, web, sweep, bounds>>

WorkerCrash ==
    /\ faults < MaxFaults
    /\ faults' = faults + 1
    /\ sweep' = [sweep EXCEPT !["worker"] = Asleep]
    /\ UNCHANGED <<tables, media, req, web, callbacks>>

\* In the middle of a deletion this is DeletionFails.
WebCrash ==
    /\ faults < MaxFaults
    /\ web.job # "delete"
    /\ faults' = faults + 1
    /\ web' = WebIdle
    /\ sweep' = [sweep EXCEPT !["web"] = Asleep]
    /\ req' = [r \in 1..Requests |->
                 IF req[r].at = "idle" THEN req[r]
                 ELSE [NotStarted EXCEPT !.at = "over"]]
    /\ UNCHANGED <<tables, media, callbacks>>

Next ==
    \/ \E m \in Messages : ReceivePrivate(m) \/ ExpireHandoff(m)
    \/ WorkerSweep
    \/ \E r \in 1..Requests :
          \/ \E o \in Origins : BeginDraft(r, o)
          \/ AgentAnswers(r) \/ DraftFails(r)
    \/ WebSweep \/ InsertDraft
    \/ \E d \in Drafts : \/ ConfirmRead(d) \/ CloseCase(d)
                         \/ DeleteClosedIssue(d) \/ ExpireDraft(d)
    \/ CreateCase \/ MarkConfirmed
    \/ DeleteTeam \/ CommitDeletion \/ DeletionFails
    \/ WorkerCrash \/ WebCrash

\* The cleanup loop of the worker goes on whatever a round of it raises.
Spec == Init /\ [][Next]_vars /\ WF_vars(WorkerSweep)

-----------------------------------------------------------------------------
(* Properties.                                                             *)

\* A private message is one issue at most at a time, however often its link is
\* opened, submitted and confirmed (the lock and consumed_at in
\* create_intake_draft, the source in confirm_intake).
OneIssuePerMessage ==
    \A m \in Messages :
        Cardinality({d \in Drafts : draft[d].origin = m /\ issue[d].st # "NONE"}) <= 1

\* No cleanup and no deletion of something else takes an image from an issue:
\* what was read as unused may be in an issue when the cleanup commits
\* (cleanup_expired_drafts, _delete_cases).  Only a deletion of that issue or of
\* its draft which fails after it has removed files, "atomically" as it is
\* called, leaves an issue without them.
IssueKeepsImages ==
    \A d \in Existing :
        /\ issue[d].images \subseteq rows
        /\ issue[d].images \subseteq files \/ issue[d].spoilt

\* A confirmed draft leads to its issue, so that confirming it again can be
\* answered, and no deletion of the issue leaves such a draft behind.
ConfirmedLeadsToIssue ==
    \A d \in Stored(draft) : draft[d].confirmed => d \in Existing

\* What has expired without being confirmed is removed in the end, whatever
\* crashes or is refused on the way (_issue_intake_cleanup_loop).
ExpiredGoes ==
    /\ \A d \in Drafts :
          (d \in ExpiredDrafts) ~> (draft[d].st = "GONE" \/ draft[d].confirmed)
    /\ \A m \in Messages : (m \in ExpiredHandoffs) ~> (handoff[m].st = "GONE")
=============================================================================
