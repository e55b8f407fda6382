-------------------------- MODULE IntakeDraftProofs --------------------------
(***************************************************************************)
(* A private message is one issue at most, no cleanup and no deletion      *)
(* takes an image from an issue that stays, and a confirmed draft leads to *)
(* its issue, for any number of messages, submissions, drafts, images,     *)
(* callbacks and failures.                                                 *)
(***************************************************************************)
EXTENDS IntakeDraft, TLAPS, FiniteSetTheorems

-----------------------------------------------------------------------------
(* The inductive invariant.                                                *)

Disjoint(S, T) == S \cap T = {}

\* What is referred to has an id that is not given away again.
Taken ==
    /\ \A m \in Messages : handoff[m].images \subseteq taken
    /\ \A d \in Drafts : draft[d].images \subseteq taken
    /\ web.images \subseteq taken
    /\ \A p \in {"web", "worker"} : sweep[p].images \subseteq taken

\* An image belongs to one message, to one draft, or to a draft and the message
\* it comes from.
Apart ==
    /\ \A m, n \in Messages : m # n => Disjoint(handoff[m].images, handoff[n].images)
    /\ \A d, e \in Drafts : d # e => Disjoint(draft[d].images, draft[e].images)
    /\ \A d \in Drafts, m \in Messages :
          draft[d].origin # m => Disjoint(draft[d].images, handoff[m].images)

\* A message that can still become a draft.
Pending(m) == handoff[m].st = "STORED" /\ ~handoff[m].consumed

\* A message becomes one draft and is consumed by it.
OneDraftPerMessage ==
    /\ \A d \in Drafts : draft[d].origin \in Messages =>
          handoff[draft[d].origin].st # "NONE" /\ ~Pending(draft[d].origin)
    /\ \A d, e \in Drafts :
          d # e /\ draft[d].origin \in Messages => draft[d].origin # draft[e].origin

IssuesOfDrafts ==
    \A d \in Drafts : issue[d].st # "NONE" =>
        draft[d].st # "NONE" /\ issue[d].images = draft[d].images

\* Where there is a row there is the file.
Backed(images) == images \cap rows \subseteq files

FilesBehindRows ==
    /\ \A m \in Messages : Pending(m) => Backed(handoff[m].images)
    /\ \A d \in Drafts : Backed(draft[d].images) \/ issue[d].spoilt
    /\ \A p \in {"web", "worker"} :
          sweep[p].st = "files" => Disjoint(sweep[p].images, rows)

HandoffImages(o) == IF o = Workbench THEN {} ELSE handoff[o].images

\* A request carries the images of its message.
Carried ==
    \A r \in 1..Requests : req[r].at = "agent" =>
        /\ req[r].images = HandoffImages(req[r].origin)
        /\ req[r].origin \in Messages => handoff[req[r].origin].st # "NONE"

\* The draft about to be made: beside the images of its message only new ones.
Submitting ==
    web.job \in {"draft", "insert"} =>
        /\ web.req \in 1..Requests /\ req[web.req].at = "agent"
        /\ \A m \in Messages : m # req[web.req].origin =>
              Disjoint(web.images, handoff[m].images)
        /\ \A d \in Drafts :
              web.images \cap draft[d].images \subseteq HandoffImages(req[web.req].origin)
        /\ Backed(web.images \ HandoffImages(req[web.req].origin))

\* The draft about to be confirmed.
Confirming ==
    web.job \in {"create", "mark"} =>
        \E d \in Drafts :
           /\ web.drafts = {d} /\ draft[d].st # "NONE"
           /\ web.job = "create" => web.images = draft[d].images
           /\ web.job = "mark" => d \in Existing

\* What is about to be deleted is nobody else's.
Deleting ==
    web.job = "delete" =>
        /\ \A d \in web.issues : issue[d].st # "NONE"
        /\ \A d \in Existing \ web.issues : Disjoint(web.images, issue[d].images)
        /\ \A d \in Drafts \ (web.issues \cup web.drafts) :
              Disjoint(web.images, draft[d].images)
        /\ \A m \in Messages : Pending(m) => Disjoint(web.images, handoff[m].images)
        /\ ConfirmedFor(web.issues) \subseteq web.drafts

\* The cleanup a request waits for.
Cleaning ==
    /\ web.job = "draft" <=> sweep["web"].st # "idle"
    /\ sweep["web"].st = "read" => ~Refused("web")

Sound ==
    /\ Taken /\ Apart /\ OneDraftPerMessage /\ IssuesOfDrafts /\ FilesBehindRows
    /\ Carried /\ Submitting /\ Confirming /\ Deleting /\ Cleaning
    /\ IssueKeepsImages /\ ConfirmedLeadsToIssue

IInv == TypeOK /\ Sound

-----------------------------------------------------------------------------
(* Types.                                                                  *)

LEMMA InitIInv == Init => IInv
<1> SUFFICES ASSUME Init PROVE IInv
  OBVIOUS
<1>1. TypeOK
  <2>1. /\ NoHandoff \in HandoffRow /\ NoDraft \in DraftRow /\ NoIssue \in IssueRow
        /\ NotStarted \in Request /\ WebIdle \in Handler /\ Asleep \in Cleanup
    BY IntakeDraftConstants
       DEF Origins, NoHandoff, NoDraft, NoIssue, NotStarted, WebIdle, Asleep,
           HandoffRow, DraftRow, IssueRow, Request, Handler, Cleanup
  <2> QED
    BY <2>1 DEF Init, TypeOK
<1>2. Taken /\ Apart /\ OneDraftPerMessage /\ IssuesOfDrafts /\ FilesBehindRows
  BY IntakeDraftConstants
     DEF Init, Taken, Apart, OneDraftPerMessage, IssuesOfDrafts, FilesBehindRows,
         Disjoint, Pending, Backed, NoHandoff, NoDraft, NoIssue, WebIdle, Asleep
<1>3. Carried /\ Submitting /\ Confirming /\ Deleting /\ Cleaning
  BY DEF Init, Carried, Submitting, Confirming, Deleting, Cleaning, NotStarted,
         WebIdle, Asleep
<1>4. IssueKeepsImages /\ ConfirmedLeadsToIssue
  BY DEF Init, IssueKeepsImages, ConfirmedLeadsToIssue, Existing, Stored, NoIssue,
         NoDraft
<1> QED
  BY <1>1, <1>2, <1>3, <1>4 DEF IInv, Sound

\* A stored image gets an id that nothing refers to.
LEMMA Fresh ==
    ASSUME TypeOK, NEW i, Ingest(i)
    PROVE  /\ i \in Images /\ i \notin taken
           /\ taken' = taken \cup {i} /\ rows' = rows \cup {i}
           /\ files' = files \cup {i}
BY DEF Ingest, TypeOK

LEMMA ReceiveType ==
    ASSUME TypeOK, NEW m \in Messages, ReceivePrivate(m)
    PROVE  TypeOK'
<1>1. PICK i \in Images : Ingest(i) /\ CreateHandoff(m, {i})
  BY DEF ReceivePrivate
<1>2. /\ i \in Images /\ i \notin taken
      /\ taken' = taken \cup {i} /\ rows' = rows \cup {i}
      /\ files' = files \cup {i}
  BY <1>1, Fresh
<1>3. [NoHandoff EXCEPT !.st = "STORED", !.images = {i}] \in HandoffRow
  BY DEF NoHandoff, HandoffRow
<1>4. handoff' \in [Messages -> HandoffRow]
  BY <1>1, <1>3 DEF CreateHandoff, TypeOK
<1> QED
  BY <1>2, <1>4 DEF TypeOK, ReceivePrivate

LEMMA ExpireType ==
    ASSUME TypeOK,
           \/ \E m \in Messages : ExpireHandoff(m)
           \/ \E d \in Drafts : ExpireDraft(d) \/ CloseCase(d)
    PROVE  TypeOK'
<1>1. ASSUME NEW m \in Messages, ExpireHandoff(m) PROVE TypeOK'
  <2>1. [handoff[m] EXCEPT !.old = TRUE] \in HandoffRow
    BY DEF HandoffRow, TypeOK
  <2> QED
    BY <1>1, <2>1 DEF TypeOK, ExpireHandoff, media
<1>2. ASSUME NEW d \in Drafts, ExpireDraft(d) PROVE TypeOK'
  <2>1. [draft[d] EXCEPT !.old = TRUE] \in DraftRow
        /\ [draft[d] EXCEPT !.old = TRUE].st = "STORED"
    BY <1>2 DEF DraftRow, TypeOK, ExpireDraft
  <2> QED
    BY <1>2, <2>1 DEF TypeOK, ExpireDraft, media
<1>3. ASSUME NEW d \in Drafts, CloseCase(d) PROVE TypeOK'
  <2>1. [issue[d] EXCEPT !.st = "CLOSED"] \in IssueRow
    BY DEF IssueRow, TypeOK
  <2> QED
    BY <1>3, <2>1 DEF TypeOK, CloseCase, media
<1> QED
  BY <1>1, <1>2, <1>3

LEMMA ExpiredType ==
    ASSUME TypeOK
    PROVE  Expired \in Cleanup
<1>1. /\ ExpiredDrafts \subseteq Drafts /\ ExpiredHandoffs \subseteq Messages
      /\ Removable \cap rows \subseteq Images
  BY DEF TypeOK, ExpiredDrafts, ExpiredHandoffs, Stored
<1> QED
  BY <1>1 DEF Cleanup, Expired

LEMMA RemoveType ==
    ASSUME TypeOK, NEW ids
    PROVE  /\ Remove(handoff, ids) \in [Messages -> HandoffRow]
           /\ Remove(draft, ids) \in [Drafts -> DraftRow]
           /\ \A d \in Drafts :
                 Remove(draft, ids)[d].st = "NONE" => Remove(draft, ids)[d] = NoDraft
<1>1. /\ \A r \in HandoffRow : [r EXCEPT !.st = "GONE"] \in HandoffRow
      /\ \A r \in DraftRow : /\ [r EXCEPT !.st = "GONE"] \in DraftRow
                             /\ [r EXCEPT !.st = "GONE"].st # "NONE"
  BY DEF HandoffRow, DraftRow
<1> QED
  BY <1>1 DEF TypeOK, Remove

LEMMA SweepType ==
    ASSUME TypeOK, NEW p \in {"web", "worker"},
           \/ SweepRead(p) /\ UNCHANGED <<tables, media>>
           \/ SweepCommit(p)
           \/ SweepFiles(p),
           UNCHANGED req,
           web' = web \/ web' = TakeTime(web)
    PROVE  TypeOK'
<1>1. /\ handoff' \in [Messages -> HandoffRow]
      /\ draft' \in [Drafts -> DraftRow]
      /\ \A d \in Drafts : draft'[d].st = "NONE" => draft'[d] = NoDraft
  BY RemoveType DEF TypeOK, SweepRead, SweepCommit, SweepFiles, tables
<1>2. Asleep \in Cleanup /\ sweep[p] \in Cleanup
  BY DEF Asleep, Cleanup, TypeOK
<1>3. /\ [Asleep EXCEPT !.st = "files", !.images = sweep[p].images] \in Cleanup
      /\ sweep[p].images \subseteq Images
  BY <1>2 DEF Asleep, Cleanup
<1>4. sweep' \in [{"web", "worker"} -> Cleanup]
  BY <1>2, <1>3, ExpiredType DEF TypeOK, SweepRead, SweepCommit, SweepFiles
<1>5. web' \in Handler
  BY DEF TypeOK, TakeTime, Handler
<1>6. rows' \cup files' \subseteq taken' /\ taken' = taken
      /\ issue' = issue /\ team' = team
  BY DEF TypeOK, SweepRead, SweepCommit, SweepFiles, tables, media
<1> QED
  BY <1>1, <1>4, <1>5, <1>6 DEF TypeOK

LEMMA RequestType ==
    ASSUME TypeOK, NEW r \in 1..Requests,
           \/ \E o \in Origins : BeginDraft(r, o)
           \/ DraftFails(r)
    PROVE  TypeOK'
<1>1. [NotStarted EXCEPT !.at = "over"] \in Request
  BY DEF NotStarted, Request, Origins
<1>2. \A m \in Messages : handoff[m].images \subseteq Images
  BY DEF TypeOK, HandoffRow
<1>3. \A o \in Origins :
         [at |-> "agent", origin |-> o,
          images |-> IF o = Workbench THEN {} ELSE handoff[o].images] \in Request
  BY <1>2 DEF Request, Origins
<1>4. req' \in [1..Requests -> Request]
  BY <1>1, <1>3 DEF TypeOK, BeginDraft, DraftFails
<1> QED
  BY <1>4 DEF TypeOK, BeginDraft, DraftFails, tables, media

LEMMA AnswerType ==
    ASSUME TypeOK, NEW r \in 1..Requests, AgentAnswers(r)
    PROVE  TypeOK'
<1> DEFINE job == [WebIdle EXCEPT !.job = "draft", !.req = r,
                                  !.images = req[r].images]
<1>1. req[r].images \subseteq Images /\ r \in 0..Requests
  BY IntakeDraftConstants DEF TypeOK, Request
<1>2. job \in Handler /\ \A i \in Images : [job EXCEPT !.images = @ \cup {i}] \in Handler
  BY <1>1 DEF WebIdle, Handler
<1>3. \A j \in Handler : TakeTime(j) \in Handler
  BY DEF TakeTime, Handler
<1>4. ASSUME NEW j \in Handler, CreateDraft(r, j)
      PROVE  web' \in Handler /\ sweep' \in [{"web", "worker"} -> Cleanup]
             /\ UNCHANGED <<handoff, draft, issue, team, req>>
  BY <1>3, <1>4, ExpiredType DEF CreateDraft, TypeOK, tables
<1> HIDE DEF job
<1>5. /\ web' \in Handler /\ sweep' \in [{"web", "worker"} -> Cleanup]
      /\ UNCHANGED <<handoff, draft, issue, team, req>>
  BY <1>2, <1>4 DEF AgentAnswers, job
<1>6. rows' \cup files' \subseteq taken' /\ taken' \subseteq Images
  <2>1. CASE UNCHANGED media
    BY <2>1 DEF media, TypeOK
  <2>2. ASSUME NEW i, Ingest(i)
        PROVE  rows' \cup files' \subseteq taken' /\ taken' \subseteq Images
    BY <2>2, Fresh DEF TypeOK
  <2> QED
    BY <2>1, <2>2 DEF AgentAnswers
<1> QED
  BY <1>5, <1>6 DEF TypeOK

LEMMA InsertType ==
    ASSUME TypeOK, InsertDraft, web.req \in 1..Requests
    PROVE  TypeOK'
<1> DEFINE o == req[web.req].origin
<1>1. o \in Origins /\ web.images \subseteq Images
  BY DEF TypeOK, Request, Handler
<1>2. [NotStarted EXCEPT !.at = "over"] \in Request
  BY DEF NotStarted, Request, Origins
<1>3. req' \in [1..Requests -> Request]
  BY <1>2 DEF TypeOK, InsertDraft, Over
<1> HIDE DEF o
<1>4. [NoDraft EXCEPT !.st = "STORED", !.origin = o, !.images = web.images] \in DraftRow
      /\ [NoDraft EXCEPT !.st = "STORED", !.origin = o, !.images = web.images].st # "NONE"
  BY <1>1 DEF NoDraft, DraftRow
<1>5. ASSUME Insert(o, web.images)
      PROVE  /\ draft' \in [Drafts -> DraftRow]
             /\ \A d \in Drafts : draft'[d].st = "NONE" => draft'[d] = NoDraft
  BY <1>4, <1>5 DEF Insert, TypeOK
<1>6. \A r \in HandoffRow : [r EXCEPT !.consumed = TRUE] \in HandoffRow
  BY DEF HandoffRow
<1>7. /\ draft' \in [Drafts -> DraftRow]
      /\ \A d \in Drafts : draft'[d].st = "NONE" => draft'[d] = NoDraft
      /\ handoff' \in [Messages -> HandoffRow]
  BY <1>1, <1>5, <1>6 DEF InsertDraft, TypeOK, o, Origins
<1>8. WebIdle \in Handler
  BY IntakeDraftConstants DEF WebIdle, Handler
<1> QED
  BY <1>3, <1>7, <1>8 DEF TypeOK, InsertDraft, media

LEMMA ConfirmType ==
    ASSUME TypeOK,
           (\E d \in Drafts : ConfirmRead(d)) \/ CreateCase \/ MarkConfirmed
    PROVE  TypeOK'
<1>1. WebIdle \in Handler
  BY IntakeDraftConstants DEF WebIdle, Handler
<1>2. /\ \A d \in Drafts : [WebIdle EXCEPT !.job = "create", !.drafts = {d},
                                           !.images = draft[d].images] \in Handler
      /\ [web EXCEPT !.job = "mark", !.images = {}] \in Handler
  BY <1>1 DEF WebIdle, Handler, TypeOK, DraftRow
<1>3. web' \in Handler
  BY <1>1, <1>2 DEF ConfirmRead, CreateCase, MarkConfirmed
<1>4. ASSUME NEW d \in Drafts
      PROVE  /\ [issue[d] EXCEPT !.st = "OPEN", !.images = web.images] \in IssueRow
             /\ [draft[d] EXCEPT !.confirmed = TRUE] \in DraftRow
             /\ [draft[d] EXCEPT !.confirmed = TRUE].st = draft[d].st
  <2>1. issue[d] \in IssueRow /\ draft[d] \in DraftRow /\ web.images \in SUBSET Images
    BY DEF TypeOK, Handler
  <2> QED
    BY <2>1 DEF IssueRow, DraftRow
<1>5. issue' \in [Drafts -> IssueRow]
  <2>1. CASE CreateCase
    <3>1. PICK d \in web.drafts :
             issue' = issue \/
             issue' = [issue EXCEPT ![d] = [@ EXCEPT !.st = "OPEN", !.images = web.images]]
      BY <2>1 DEF CreateCase
    <3>2. d \in Drafts
      BY DEF TypeOK, Handler
    <3> QED
      BY <1>4, <3>1, <3>2 DEF TypeOK
  <2> QED
    BY <2>1 DEF TypeOK, ConfirmRead, MarkConfirmed, tables
<1>6. /\ draft' \in [Drafts -> DraftRow]
      /\ \A d \in Drafts : draft'[d].st = "NONE" => draft'[d] = NoDraft
  <2>1. CASE MarkConfirmed
    <3>1. draft' = [d \in Drafts |->
                     IF d \in web.drafts /\ draft[d].st = "STORED"
                     THEN [draft[d] EXCEPT !.confirmed = TRUE] ELSE draft[d]]
      BY <2>1 DEF MarkConfirmed
    <3> QED
      BY <1>4, <3>1 DEF TypeOK
  <2> QED
    BY <2>1 DEF TypeOK, ConfirmRead, CreateCase, tables
<1> QED
  BY <1>3, <1>5, <1>6
     DEF TypeOK, ConfirmRead, CreateCase, MarkConfirmed, tables, media

LEMMA DeleteType ==
    ASSUME TypeOK,
           \/ \E d \in Drafts : DeleteClosedIssue(d)
           \/ DeleteTeam \/ CommitDeletion \/ DeletionFails
    PROVE  TypeOK'
<1>1. WebIdle \in Handler
  BY IntakeDraftConstants DEF WebIdle, Handler
<1>2. ASSUME NEW issues \in SUBSET Drafts, NEW drafts \in SUBSET Drafts,
             NEW whole \in BOOLEAN, StartDeletion(issues, drafts, whole)
      PROVE  TypeOK'
  <2>1. Unretained(issues, drafts) \cap rows \subseteq Images
    BY DEF TypeOK
  <2> HIDE DEF Unretained
  <2>2. [WebIdle EXCEPT !.job = "delete", !.issues = issues, !.drafts = drafts,
                        !.whole = whole,
                        !.images = Unretained(issues, drafts) \cap rows] \in Handler
    BY <1>1, <2>1 DEF WebIdle, Handler
  <2> QED
    BY <1>2, <2>2 DEF StartDeletion, TypeOK, tables, media
<1>3. ASSUME CommitDeletion PROVE TypeOK'
  <2>1. \A r \in IssueRow : [r EXCEPT !.st = "DELETED"] \in IssueRow
    BY DEF IssueRow
  <2> QED
    BY <1>1, <1>3, <2>1, RemoveType DEF CommitDeletion, TypeOK
<1>4. ASSUME DeletionFails PROVE TypeOK'
  <2>1. \A r \in IssueRow : [r EXCEPT !.spoilt = TRUE] \in IssueRow
    BY DEF IssueRow
  <2>2. issue' \in [Drafts -> IssueRow] /\ files' \subseteq files
    BY <1>4, <2>1 DEF DeletionFails, TypeOK
  <2> QED
    BY <1>1, <1>4, <2>2 DEF DeletionFails, TypeOK
<1>5. /\ Existing \in SUBSET Drafts
      /\ \A S : ConfirmedFor(S) \in SUBSET Drafts
      /\ {d \in Stored(draft) : ~draft[d].confirmed} \in SUBSET Drafts
  BY DEF Existing, ConfirmedFor, Stored, TypeOK
<1> QED
  BY <1>2, <1>3, <1>4, <1>5 DEF DeleteClosedIssue, DeleteTeam

LEMMA CrashType ==
    ASSUME TypeOK, WorkerCrash \/ WebCrash
    PROVE  TypeOK'
<1>1. /\ WebIdle \in Handler /\ Asleep \in Cleanup
      /\ [NotStarted EXCEPT !.at = "over"] \in Request
  BY IntakeDraftConstants
     DEF WebIdle, Handler, Asleep, Cleanup, NotStarted, Request, Origins
<1>2. req' \in [1..Requests -> Request] /\ sweep' \in [{"web", "worker"} -> Cleanup]
  BY <1>1 DEF TypeOK, WorkerCrash, WebCrash
<1> QED
  BY <1>1, <1>2 DEF TypeOK, WorkerCrash, WebCrash, tables, media

LEMMA StepType ==
    ASSUME IInv, Next
    PROVE  TypeOK'
<1>1. CASE \E m \in Messages : ReceivePrivate(m) \/ ExpireHandoff(m)
  BY <1>1, ReceiveType, ExpireType DEF IInv
<1>2. CASE WorkerSweep \/ WebSweep
  BY <1>2, SweepType DEF WorkerSweep, WebSweep, IInv
<1>3. CASE \E r \in 1..Requests :
              \/ \E o \in Origins : BeginDraft(r, o)
              \/ AgentAnswers(r) \/ DraftFails(r)
  BY <1>3, RequestType, AnswerType DEF IInv
<1>4. CASE InsertDraft
  BY <1>4, InsertType DEF InsertDraft, IInv, Sound, Submitting
<1>5. CASE (\E d \in Drafts : ConfirmRead(d)) \/ CreateCase \/ MarkConfirmed
  BY <1>5, ConfirmType DEF IInv
<1>6. CASE \/ \E d \in Drafts : DeleteClosedIssue(d)
           \/ DeleteTeam \/ CommitDeletion \/ DeletionFails
  BY <1>6, DeleteType DEF IInv
<1>7. CASE \E d \in Drafts : CloseCase(d) \/ ExpireDraft(d)
  BY <1>7, ExpireType DEF IInv
<1>8. CASE WorkerCrash \/ WebCrash
  BY <1>8, CrashType DEF IInv
<1> QED
  BY <1>1, <1>2, <1>3, <1>4, <1>5, <1>6, <1>7, <1>8 DEF Next

-----------------------------------------------------------------------------
(* What a step leaves as it was.                                           *)

\* A row keeps its images and its origin, and at most goes.
HandoffsAge ==
    \A m \in Messages :
        /\ handoff'[m].images = handoff[m].images
        /\ handoff'[m].consumed = handoff[m].consumed
        /\ \/ handoff'[m].st = handoff[m].st
           \/ handoff[m].st = "STORED" /\ handoff'[m].st = "GONE"

DraftsAge ==
    \A d \in Drafts :
        /\ draft'[d].images = draft[d].images /\ draft'[d].origin = draft[d].origin
        /\ \/ draft'[d].st = draft[d].st
           \/ draft[d].st = "STORED" /\ draft'[d].st = "GONE"

LEMMA Aging ==
    ASSUME IInv, HandoffsAge, DraftsAge
    PROVE  /\ Apart' /\ OneDraftPerMessage' /\ (issue' = issue => IssuesOfDrafts')
           /\ \A m \in Messages : Pending(m)' => Pending(m)
           /\ \A o \in Origins : HandoffImages(o)' = HandoffImages(o)
<1>1. Apart'
  BY DEF IInv, Sound, HandoffsAge, DraftsAge, Apart
<1>2. \A m \in Messages : Pending(m)' => Pending(m)
  BY DEF HandoffsAge, Pending
<1>3. \A m \in Messages : handoff[m].st # "NONE" => handoff'[m].st # "NONE"
  BY DEF HandoffsAge
<1>4. OneDraftPerMessage'
  BY <1>2, <1>3 DEF IInv, Sound, DraftsAge, OneDraftPerMessage
<1>5. issue' = issue => IssuesOfDrafts'
  BY DEF IInv, Sound, DraftsAge, IssuesOfDrafts
<1>6. \A o \in Origins : HandoffImages(o)' = HandoffImages(o)
  BY DEF HandoffsAge, HandoffImages, Origins
<1> QED
  BY <1>1, <1>2, <1>4, <1>5, <1>6

LEMMA SameTables ==
    ASSUME UNCHANGED <<handoff, draft>>
    PROVE  HandoffsAge /\ DraftsAge
BY DEF HandoffsAge, DraftsAge

\* No row of an issue changes, and rows and files do not change.
LEMMA SameIssues ==
    ASSUME IInv, UNCHANGED <<tables, media>>
    PROVE  /\ Apart' /\ OneDraftPerMessage' /\ IssuesOfDrafts'
           /\ IssueKeepsImages' /\ ConfirmedLeadsToIssue'
BY SameTables, Aging
   DEF IInv, Sound, tables, media, IssueKeepsImages, ConfirmedLeadsToIssue, Existing, Stored

\* Nothing that is asked for or carried changes.
LEMMA SameRequests ==
    ASSUME IInv, HandoffsAge, DraftsAge, UNCHANGED req
    PROVE  Carried'
<1>1. \A r \in 1..Requests : req[r].origin \in Origins
  BY DEF IInv, Sound, TypeOK, Request
<1>2. \A m \in Messages : handoff[m].st # "NONE" => handoff'[m].st # "NONE"
  BY DEF HandoffsAge
<1> QED
  BY <1>1, <1>2, Aging DEF IInv, Sound, Carried

LEMMA SameSubmission ==
    ASSUME IInv, HandoffsAge, DraftsAge, UNCHANGED req,
           web.job \in {"draft", "insert"},
           web'.req = web.req /\ web'.images = web.images,
           rows' \subseteq rows, rows' \cap files \subseteq files'
    PROVE  Submitting'
<1> DEFINE o == req[web.req].origin
<1>1. web.req \in 1..Requests /\ req[web.req].at = "agent" /\ o \in Origins
  BY DEF IInv, Sound, Submitting, TypeOK, Request
<1>2. HandoffImages(o)' = HandoffImages(o)
  BY <1>1, Aging
<1>3. /\ \A m \in Messages : m # o => Disjoint(web.images, handoff[m].images)'
      /\ \A d \in Drafts : (web.images \cap draft[d].images \subseteq HandoffImages(o))'
  BY <1>1, <1>2 DEF IInv, Sound, Submitting, Disjoint, HandoffsAge, DraftsAge
<1>4. Backed(web.images \ HandoffImages(o))'
  BY <1>1, <1>2 DEF IInv, Sound, Submitting, Backed
<1> QED
  BY <1>1, <1>3, <1>4 DEF Submitting

-----------------------------------------------------------------------------
(* The steps of a cleanup.                                                 *)

LEMMA RemoveAges ==
    ASSUME IInv, NEW S, NEW T,
           handoff' = Remove(handoff, S), draft' = Remove(draft, T)
    PROVE  HandoffsAge /\ DraftsAge
BY DEF IInv, Sound, TypeOK, Remove, HandoffsAge, DraftsAge, HandoffRow, DraftRow

LEMMA SweepReadKeeps ==
    ASSUME IInv, NEW p \in {"web", "worker"}, SweepRead(p) \/ sweep' = [sweep EXCEPT ![p] = Asleep],
           UNCHANGED <<tables, media>>
    PROVE  /\ FilesBehindRows'
           /\ \A q \in {"web", "worker"} : sweep'[q].images \subseteq taken'
<1>1. Expired.st = "read" /\ Expired.images \subseteq taken
  BY DEF Expired, IInv, TypeOK
<1>2. \A q \in {"web", "worker"} :
         sweep'[q] \in {sweep[q], Expired, Asleep}
  BY DEF SweepRead, IInv, TypeOK
<1> HIDE DEF Expired
<1>3. \A q \in {"web", "worker"} :
         /\ sweep'[q].images \subseteq taken
         /\ sweep'[q].st = "files" => Disjoint(sweep'[q].images, rows)
  BY <1>1, <1>2 DEF Asleep, IInv, Sound, Taken, FilesBehindRows
<1> QED
  BY <1>3 DEF tables, media, IInv, Sound, FilesBehindRows, Pending, Backed, Disjoint

\* Reading, and a cleanup that is refused or stops in a crash.
LEMMA SweepIdleSound ==
    ASSUME IInv,
           SweepRead("worker") \/ sweep' = [sweep EXCEPT !["worker"] = Asleep],
           UNCHANGED <<tables, media, req, web>>
    PROVE  Sound'
<1>1. HandoffsAge /\ DraftsAge /\ UNCHANGED <<handoff, draft, issue, rows, files, taken>>
  BY SameTables DEF tables, media
<1>2. Apart' /\ OneDraftPerMessage' /\ IssuesOfDrafts' /\ IssueKeepsImages' /\ ConfirmedLeadsToIssue'
  BY SameIssues
<1>3. FilesBehindRows' /\ Taken'
  BY <1>1, SweepReadKeeps DEF IInv, Sound, Taken
<1>4. Carried'
  BY <1>1, SameRequests
<1>5. Submitting'
  BY <1>1, SameSubmission DEF IInv, TypeOK, Submitting
<1>6. Confirming' /\ Deleting'
  BY <1>1 DEF IInv, Sound, Confirming, Deleting, Existing, Pending, ConfirmedFor,
              Stored, Disjoint
<1>7. sweep'["web"] = sweep["web"]
  BY DEF SweepRead, IInv, TypeOK
<1>8. Cleaning'
  BY <1>1, <1>7 DEF IInv, Sound, Cleaning, Refused, Existing, ImagesOf
<1> QED
  BY <1>2, <1>3, <1>4, <1>5, <1>6, <1>8 DEF Sound

LEMMA SweepCommitSound ==
    ASSUME IInv, NEW p \in {"web", "worker"}, SweepCommit(p), ~Refused(p),
           UNCHANGED <<req, web>>
    PROVE  Sound'
<1>1. /\ handoff' = Remove(handoff, sweep[p].handoffs)
      /\ draft' = Remove(draft, sweep[p].drafts)
      /\ rows' = rows \ sweep[p].images
      /\ UNCHANGED <<issue, team, files, taken>>
  BY DEF SweepCommit
<1>2. HandoffsAge /\ DraftsAge
  BY <1>1, RemoveAges
<1>3. /\ \A q \in {"web", "worker"} : sweep'[q].images = sweep[q].images
      /\ sweep'[p].st = "files" /\ \A q \in {"web", "worker"} \ {p} : sweep'[q] = sweep[q]
  <2> DEFINE done == [Asleep EXCEPT !.st = "files", !.images = sweep[p].images]
  <2>1. done.st = "files" /\ done.images = sweep[p].images
    BY DEF Asleep
  <2>2. sweep' = [sweep EXCEPT ![p] = done]
    BY DEF SweepCommit
  <2> HIDE DEF done
  <2> QED
    BY <2>1, <2>2 DEF IInv, TypeOK
<1>4. Apart' /\ OneDraftPerMessage' /\ IssuesOfDrafts'
  BY <1>1, <1>2, Aging
<1>5. Taken'
  BY <1>1, <1>2, <1>3 DEF IInv, Sound, Taken, HandoffsAge, DraftsAge
<1>6. FilesBehindRows'
  <2>1. \A m \in Messages : Pending(m)' => Backed(handoff[m].images)'
    BY <1>1, <1>2, Aging DEF HandoffsAge, IInv, Sound, FilesBehindRows, Backed
  <2>2. \A d \in Drafts : (Backed(draft[d].images) \/ issue[d].spoilt)'
    BY <1>1, <1>2 DEF DraftsAge, IInv, Sound, FilesBehindRows, Backed
  <2>3. \A q \in {"web", "worker"} :
           sweep'[q].st = "files" => Disjoint(sweep[q].images, rows')
    BY <1>1, <1>3 DEF IInv, Sound, FilesBehindRows, Disjoint
  <2> QED
    BY <1>3, <2>1, <2>2, <2>3 DEF FilesBehindRows
<1>7. Carried'
  BY <1>2, SameRequests
<1>8. Submitting'
  BY <1>1, <1>2, SameSubmission DEF IInv, TypeOK, Submitting
<1>9. Confirming'
  BY <1>1, <1>2 DEF IInv, Sound, Confirming, Existing, DraftsAge
<1>10. \A d \in Stored(draft)' : d \in Stored(draft) /\ draft'[d].confirmed = draft[d].confirmed
  BY <1>1 DEF Stored, Remove, IInv, TypeOK, DraftRow
<1>11. Deleting'
  <2>1. ConfirmedFor(web.issues)' \subseteq ConfirmedFor(web.issues)
    BY <1>10 DEF ConfirmedFor
  <2> QED
    BY <1>1, <1>2, <2>1, Aging
       DEF IInv, Sound, Deleting, Existing, Disjoint, HandoffsAge, DraftsAge
<1>12. Cleaning'
  BY <1>1, <1>3 DEF IInv, Sound, Cleaning, Refused, Existing, ImagesOf, SweepCommit
<1>13. IssueKeepsImages'
  <2>1. \A d \in Existing : Disjoint(issue[d].images, sweep[p].images)
    BY DEF Refused, ImagesOf, Disjoint
  <2> QED
    BY <1>1, <2>1 DEF IInv, Sound, IssueKeepsImages, Existing, Disjoint
<1>14. ConfirmedLeadsToIssue'
  BY <1>1, <1>10 DEF IInv, Sound, ConfirmedLeadsToIssue, Existing
<1> QED
  BY <1>4, <1>5, <1>6, <1>7, <1>8, <1>9, <1>11, <1>12, <1>13, <1>14 DEF Sound

LEMMA SweepFilesSound ==
    ASSUME IInv, NEW p \in {"web", "worker"}, SweepFiles(p), UNCHANGED req,
           \/ p = "worker" /\ web' = web
           \/ p = "web" /\ web' = TakeTime(web)
    PROVE  Sound'
<1>1. /\ UNCHANGED <<handoff, draft, issue, rows, taken>>
      /\ rows \cap files \subseteq files' /\ files' \subseteq files
  BY DEF SweepFiles, tables, IInv, Sound, FilesBehindRows, Disjoint
<1>2. HandoffsAge /\ DraftsAge
  BY <1>1, SameTables
<1>3. Apart' /\ OneDraftPerMessage' /\ IssuesOfDrafts' /\ Carried'
  BY <1>1, <1>2, Aging, SameRequests
<1>4. /\ sweep'[p] = Asleep
      /\ \A q \in {"web", "worker"} \ {p} : sweep'[q] = sweep[q]
  BY DEF SweepFiles, IInv, TypeOK
<1>5. /\ web.job = "draft" <=> sweep["web"].st # "idle"
      /\ p = "web" => web.job = "draft" /\ web'.job = "insert"
      /\ web'.images = web.images /\ web'.req = web.req
  BY DEF IInv, Sound, Cleaning, TakeTime, TypeOK, Handler, SweepFiles
<1>6. Taken'
  BY <1>1, <1>4, <1>5 DEF IInv, Sound, Taken, Asleep
<1>7. FilesBehindRows'
  <2>1. \A S : Backed(S) => Backed(S)'
    BY <1>1 DEF Backed
  <2>2. /\ \A m \in Messages : Pending(m)' => Backed(handoff[m].images)'
        /\ \A d \in Drafts : (Backed(draft[d].images) \/ issue[d].spoilt)'
    BY <1>1 DEF IInv, Sound, FilesBehindRows, Pending, Backed
  <2>3. \A q \in {"web", "worker"} :
           sweep'[q].st = "files" => Disjoint(sweep'[q].images, rows')
    BY <1>1, <1>4 DEF IInv, Sound, FilesBehindRows, Disjoint, Asleep
  <2> QED
    BY <2>2, <2>3 DEF FilesBehindRows
<1>8. Submitting'
  BY <1>1, <1>2, <1>5, SameSubmission DEF Submitting
<1>9. Confirming' /\ Deleting'
  BY <1>1, <1>5 DEF IInv, Sound, Confirming, Deleting, Existing, Pending, ConfirmedFor,
              Stored, Disjoint
<1>10. Cleaning'
  BY <1>1, <1>4, <1>5 DEF IInv, Sound, Cleaning, Refused, Existing, ImagesOf, Asleep
<1>11. IssueKeepsImages' /\ ConfirmedLeadsToIssue'
  BY <1>1 DEF IInv, Sound, IssueKeepsImages, ConfirmedLeadsToIssue, Existing, Stored
<1> QED
  BY <1>3, <1>6, <1>7, <1>8, <1>9, <1>10, <1>11 DEF Sound

LEMMA CleanupSound ==
    ASSUME IInv, WorkerSweep \/ WebSweep
    PROVE  Sound'
<1>1. CASE SweepRead("worker") /\ UNCHANGED <<tables, media, req, web, bounds>>
  BY <1>1, SweepIdleSound
<1>2. ASSUME NEW p \in {"web", "worker"}, SweepCommit(p), UNCHANGED <<req, web>>
      PROVE  Sound'
  <2>1. CASE Refused(p)
    <3>1. p = "worker"
      BY <1>2, <2>1 DEF SweepCommit, IInv, Sound, Cleaning
    <3>2. sweep' = [sweep EXCEPT !["worker"] = Asleep] /\ UNCHANGED <<tables, media>>
      BY <1>2, <2>1, <3>1 DEF SweepCommit, tables, media
    <3> QED
      BY <1>2, <3>2, SweepIdleSound
  <2> QED
    BY <1>2, <2>1, SweepCommitSound
<1> QED
  BY <1>1, <1>2, SweepFilesSound DEF WorkerSweep, WebSweep

-----------------------------------------------------------------------------
(* Messages and the making of drafts.                                      *)

LEMMA ReceiveSound ==
    ASSUME IInv, NEW m \in Messages, ReceivePrivate(m)
    PROVE  Sound'
<1>1. PICK i : Ingest(i) /\ CreateHandoff(m, {i})
  BY DEF ReceivePrivate
<1>2. /\ i \notin taken /\ taken' = taken \cup {i}
      /\ rows' = rows \cup {i} /\ files' = files \cup {i}
      /\ UNCHANGED <<draft, issue, req, web, sweep>>
  BY <1>1, Fresh DEF IInv, ReceivePrivate
<1>3. /\ \A n \in Messages \ {m} : handoff'[n] = handoff[n]
      /\ \/ handoff'[m] = handoff[m]
         \/ /\ handoff[m].st = "NONE" /\ handoff'[m].st = "STORED"
            /\ handoff'[m].images = {i} /\ ~handoff'[m].consumed
  <2> DEFINE new == [NoHandoff EXCEPT !.st = "STORED", !.images = {i}]
  <2>1. new.st = "STORED" /\ new.images = {i} /\ ~new.consumed
    BY DEF NoHandoff
  <2> HIDE DEF new
  <2>2. handoff' = IF handoff[m].st = "STORED" THEN handoff
                   ELSE [handoff EXCEPT ![m] = new]
    BY <1>1 DEF CreateHandoff, new
  <2> QED
    BY <2>1, <2>2 DEF ReceivePrivate, IInv, TypeOK
<1>4. \A S \in SUBSET taken : /\ Disjoint(S, {i})
                              /\ Backed(S) => Backed(S)'
                              /\ Disjoint(S, rows) => Disjoint(S, rows')
  BY <1>2 DEF Disjoint, Backed
<1>5. Taken'
  BY <1>2, <1>3 DEF IInv, Sound, Taken
<1>6. Apart'
  <2>1. \A n \in Messages : \/ handoff'[n].images = handoff[n].images
                            \/ n = m /\ handoff'[n].images = {i}
    BY <1>3
  <2> QED
    BY <1>2, <2>1 DEF Disjoint, IInv, Sound, Apart, Taken
<1>7. /\ \A n \in Messages : handoff[n].st # "NONE" => handoff'[n] = handoff[n]
      /\ \A n \in Messages : Pending(n)' => \/ handoff'[n] = handoff[n] /\ Pending(n)
                                            \/ handoff'[n].images = {i}
  BY <1>3 DEF Pending
<1>8. OneDraftPerMessage' /\ IssuesOfDrafts'
  BY <1>2, <1>7 DEF IInv, Sound, OneDraftPerMessage, IssuesOfDrafts, Pending
<1>9. FilesBehindRows'
  <2>1. \A n \in Messages : Pending(n)' => Backed(handoff[n].images)'
    BY <1>2, <1>4, <1>7 DEF IInv, Sound, FilesBehindRows, Taken, Backed
  <2>2. \A d \in Drafts : (Backed(draft[d].images) \/ issue[d].spoilt)'
    BY <1>2, <1>4 DEF IInv, Sound, FilesBehindRows, Taken, Backed
  <2>3. \A p \in {"web", "worker"} :
           sweep'[p].st = "files" => Disjoint(sweep'[p].images, rows')
    BY <1>2, <1>4 DEF IInv, Sound, FilesBehindRows, Taken
  <2> QED
    BY <2>1, <2>2, <2>3 DEF FilesBehindRows
<1>10. \A r \in 1..Requests : req[r].at = "agent" =>
          HandoffImages(req[r].origin)' = HandoffImages(req[r].origin)
  BY <1>2, <1>7 DEF IInv, Sound, Carried, HandoffImages, TypeOK, Request, Origins
<1>11. Carried'
  BY <1>2, <1>7, <1>10 DEF IInv, Sound, Carried
<1>12. ASSUME web.job \in {"draft", "insert"} PROVE Submitting'
  <2> DEFINE o == req[web.req].origin
  <2>1. web.req \in 1..Requests /\ req[web.req].at = "agent"
        /\ HandoffImages(o)' = HandoffImages(o)
    BY <1>2, <1>12, <1>10 DEF IInv, Sound, Submitting
  <2>2. \A n \in Messages : n # o => Disjoint(web.images, handoff'[n].images)
    BY <1>3, <1>4, <1>12 DEF IInv, Sound, Submitting, Taken
  <2>3. Backed(web.images \ HandoffImages(o))'
    BY <1>2, <1>4, <1>12, <2>1 DEF IInv, Sound, Submitting, Taken, Backed
  <2>4. \A d \in Drafts : web.images \cap draft[d].images \subseteq HandoffImages(o)
    BY <1>12 DEF IInv, Sound, Submitting
  <2> QED
    BY <1>2, <2>1, <2>2, <2>3, <2>4 DEF Submitting, Disjoint
<1>13. Submitting'
  BY <1>2, <1>12 DEF Submitting
<1>14. Confirming' /\ Deleting'
  BY <1>2, <1>4, <1>7
     DEF IInv, Sound, Confirming, Deleting, Existing, ConfirmedFor, Stored, Disjoint, Taken
<1>15. Cleaning'
  BY <1>2 DEF IInv, Sound, Cleaning, Refused, Existing, ImagesOf
<1>16. IssueKeepsImages' /\ ConfirmedLeadsToIssue'
  BY <1>2 DEF IInv, Sound, IssueKeepsImages, ConfirmedLeadsToIssue, Existing, Stored
<1> QED
  BY <1>5, <1>6, <1>8, <1>9, <1>11, <1>13, <1>14, <1>15, <1>16 DEF Sound

\* A step of the web process that leaves the tables and the media alone.
LEMMA WebStepSound ==
    ASSUME IInv, UNCHANGED <<tables, media, sweep>>,
           Carried', Submitting', Confirming', Deleting', Cleaning',
           web'.images \subseteq taken
    PROVE  Sound'
<1>1. UNCHANGED <<handoff, draft, issue, rows, files, taken>>
  BY DEF tables, media
<1>2. Taken' /\ FilesBehindRows'
  BY <1>1 DEF IInv, Sound, Taken, FilesBehindRows, Pending, Backed
<1> QED
  BY <1>2, SameIssues DEF Sound

LEMMA RequestSound ==
    ASSUME IInv, NEW r \in 1..Requests,
           \/ \E o \in Origins : BeginDraft(r, o)
           \/ DraftFails(r)
    PROVE  Sound'
<1>1. web.job = "idle" /\ web' = web /\ UNCHANGED <<tables, media, sweep>>
  BY DEF BeginDraft, DraftFails, WebFree
<1>2. UNCHANGED <<handoff, draft, issue, rows, files, taken>>
  BY <1>1 DEF tables, media
<1>3. Carried'
  <2>1. ASSUME NEW o \in Origins, BeginDraft(r, o) PROVE Carried'
    <3>1. o \in Messages => handoff[o].st # "NONE"
      BY <2>1 DEF BeginDraft, Usable, Stored
    <3>2. /\ req'[r].origin = o /\ req'[r].images = HandoffImages(o)
          /\ \A q \in 1..Requests \ {r} : req'[q] = req[q]
      BY <2>1 DEF BeginDraft, IInv, TypeOK, HandoffImages
    <3> QED
      BY <1>2, <3>1, <3>2 DEF IInv, Sound, Carried, HandoffImages
  <2>2. CASE DraftFails(r)
    <3>1. /\ req'[r].at = "over"
          /\ \A q \in 1..Requests \ {r} : req'[q] = req[q]
      BY <2>2 DEF DraftFails, IInv, TypeOK, NotStarted
    <3> QED
      BY <1>2, <3>1 DEF IInv, Sound, Carried, HandoffImages
  <2> QED
    BY <2>1, <2>2
<1>4. Submitting' /\ Confirming' /\ Deleting'
  BY <1>1 DEF Submitting, Confirming, Deleting
<1>5. Cleaning'
  BY <1>1, <1>2 DEF IInv, Sound, Cleaning, Refused, Existing, ImagesOf
<1> QED
  BY <1>1, <1>3, <1>4, <1>5, WebStepSound DEF IInv, Sound, Taken

LEMMA AnswerSound ==
    ASSUME IInv, NEW r \in 1..Requests, AgentAnswers(r)
    PROVE  Sound'
<1> DEFINE o == req[r].origin
           job == [WebIdle EXCEPT !.job = "draft", !.req = r, !.images = req[r].images]
<1>1. /\ web.job = "idle" /\ req[r].at = "agent" /\ o \in Origins
      /\ req[r].images = HandoffImages(o)
  BY DEF AgentAnswers, WebFree, IInv, Sound, Carried, TypeOK, Request
<1>2. sweep["web"].st = "idle"
  BY <1>1 DEF IInv, Sound, Cleaning, TypeOK, Cleanup
<1>3. PICK new : /\ \/ new = {} /\ UNCHANGED media
                    \/ \E i \in Images : new = {i} /\ Ingest(i)
                 /\ CreateDraft(r, [job EXCEPT !.images = req[r].images \cup new])
  <2>1. [job EXCEPT !.images = req[r].images \cup {}] = job
    BY DEF WebIdle
  <2>2. \A i : [job EXCEPT !.images = @ \cup {i}] = [job EXCEPT !.images = req[r].images \cup {i}]
    BY DEF WebIdle
  <2> HIDE DEF job
  <2>3. CASE CreateDraft(r, job) /\ UNCHANGED media
    BY <2>1, <2>3
  <2>4. ASSUME NEW i \in Images, Ingest(i), CreateDraft(r, [job EXCEPT !.images = @ \cup {i}])
        PROVE  CreateDraft(r, [job EXCEPT !.images = req[r].images \cup {i}])
    BY <2>2, <2>4
  <2> QED
    BY <2>3, <2>4 DEF AgentAnswers, job
<1>4. /\ Disjoint(new, taken) /\ taken' = taken \cup new
      /\ rows' = rows \cup new /\ files' = files \cup new
  <2>1. CASE new = {} /\ UNCHANGED media
    BY <2>1 DEF media, Disjoint
  <2>2. ASSUME NEW i, new = {i}, Ingest(i)
        PROVE  /\ Disjoint(new, taken) /\ taken' = taken \cup new
               /\ rows' = rows \cup new /\ files' = files \cup new
    BY <2>2, Fresh DEF IInv, Disjoint
  <2> QED
    BY <1>3, <2>1, <2>2
<1>5. UNCHANGED <<handoff, draft, issue, req>>
  BY <1>3 DEF CreateDraft, tables
<1>6. /\ web'.job \in {"draft", "insert"} /\ web'.req = r
      /\ web'.images = req[r].images \cup new
      /\ \/ web'.job = "draft" /\ sweep' = [sweep EXCEPT !["web"] = Expired]
         \/ web'.job = "insert" /\ sweep' = sweep
  BY <1>3 DEF CreateDraft, TakeTime, WebIdle
<1>7. HandoffsAge /\ DraftsAge
  BY <1>5, SameTables
<1>8. Apart' /\ OneDraftPerMessage' /\ IssuesOfDrafts' /\ Carried'
  BY <1>5, <1>7, Aging, SameRequests
<1>9. /\ HandoffImages(o) \subseteq taken
      /\ \A m \in Messages : m # o => Disjoint(HandoffImages(o), handoff[m].images)
  BY <1>1 DEF IInv, Sound, Taken, Apart, HandoffImages, Origins, Disjoint
<1>10. /\ Expired.st = "read" /\ Expired.images \subseteq taken
       /\ Disjoint(Expired.images, ImagesOf(issue, Existing))
  BY DEF Expired, Removable, Protected, Disjoint, IInv, TypeOK
<1> HIDE DEF Expired
<1>11. \A p \in {"web", "worker"} : sweep'[p] = sweep[p] \/ sweep'[p] = Expired
  BY <1>6 DEF IInv, TypeOK
<1>12. Taken'
  BY <1>1, <1>4, <1>5, <1>6, <1>9, <1>10, <1>11 DEF IInv, Sound, Taken
<1>13. \A S \in SUBSET taken : /\ Disjoint(S, new)
                               /\ Backed(S) => Backed(S)'
                               /\ Disjoint(S, rows) => Disjoint(S, rows')
  BY <1>4 DEF Disjoint, Backed
<1>14. FilesBehindRows'
  <2>1. \A n \in Messages : Pending(n)' => Backed(handoff[n].images)'
    BY <1>5, <1>13 DEF IInv, Sound, FilesBehindRows, Taken, Backed, Pending
  <2>2. \A d \in Drafts : (Backed(draft[d].images) \/ issue[d].spoilt)'
    BY <1>5, <1>13 DEF IInv, Sound, FilesBehindRows, Taken, Backed
  <2>3. \A p \in {"web", "worker"} :
           sweep'[p].st = "files" => Disjoint(sweep'[p].images, rows')
    BY <1>10, <1>11, <1>13 DEF IInv, Sound, FilesBehindRows, Taken
  <2> QED
    BY <2>1, <2>2, <2>3 DEF FilesBehindRows
<1>15. Submitting'
  <2>1. \A m \in Messages : m # o => Disjoint(web'.images, handoff[m].images)
    BY <1>1, <1>4, <1>6, <1>9 DEF Disjoint, IInv, Sound, Taken
  <2>2. \A d \in Drafts : web'.images \cap draft[d].images \subseteq HandoffImages(o)
    BY <1>1, <1>4, <1>6 DEF Disjoint, IInv, Sound, Taken
  <2>3. (web'.images \ HandoffImages(o)) \cap rows' \subseteq files'
    BY <1>1, <1>4, <1>6
  <2>4. HandoffImages(o)' = HandoffImages(o)
    BY <1>5 DEF HandoffImages
  <2> QED
    BY <1>1, <1>5, <1>6, <2>1, <2>2, <2>3, <2>4 DEF Submitting, Backed, Disjoint, HandoffImages
<1>16. Confirming' /\ Deleting'
  BY <1>6 DEF Confirming, Deleting
<1>17. Cleaning'
  <2>1. CASE web'.job = "draft" /\ sweep' = [sweep EXCEPT !["web"] = Expired]
    <3>1. sweep'["web"] = Expired
      BY <2>1 DEF IInv, TypeOK
    <3> QED
      BY <1>5, <1>10, <2>1, <3>1 DEF Cleaning, Refused, Existing, ImagesOf, Disjoint
  <2>2. CASE web'.job = "insert" /\ sweep' = sweep
    BY <1>2, <2>2 DEF Cleaning
  <2> QED
    BY <1>6, <2>1, <2>2
<1>18. IssueKeepsImages' /\ ConfirmedLeadsToIssue'
  BY <1>4, <1>5 DEF IInv, Sound, IssueKeepsImages, ConfirmedLeadsToIssue, Existing, Stored
<1> QED
  BY <1>8, <1>12, <1>14, <1>15, <1>16, <1>17, <1>18 DEF Sound

LEMMA InsertSound ==
    ASSUME IInv, InsertDraft
    PROVE  Sound'
<1> DEFINE o == req[web.req].origin
<1>1. /\ web.req \in 1..Requests /\ o \in Origins /\ web'.job = "idle" /\ web'.images = {}
      /\ UNCHANGED <<issue, rows, files, taken, sweep>>
  BY DEF InsertDraft, IInv, Sound, Submitting, TypeOK, Request, WebIdle, media
<1>2. Submitting' /\ Confirming' /\ Deleting'
  BY <1>1 DEF Submitting, Confirming, Deleting
<1>3. Cleaning'
  BY <1>1 DEF InsertDraft, IInv, Sound, Cleaning, Refused, Existing, ImagesOf
<1>4. \A r \in 1..Requests : req'[r].at = "agent" => req'[r] = req[r]
  BY DEF InsertDraft, Over, IInv, TypeOK, NotStarted
<1>5. CASE ~MakesDraft(o)
  <2>1. UNCHANGED <<handoff, draft>>
    BY <1>5 DEF InsertDraft
  <2>2. HandoffsAge /\ DraftsAge
    BY <2>1, SameTables
  <2>3. Apart' /\ OneDraftPerMessage' /\ IssuesOfDrafts'
    BY <1>1, <2>2, Aging
  <2>4. Taken' /\ FilesBehindRows' /\ Carried'
    BY <1>1, <1>4, <2>1
       DEF IInv, Sound, Taken, FilesBehindRows, Pending, Backed, Carried, HandoffImages
  <2>5. IssueKeepsImages' /\ ConfirmedLeadsToIssue'
    BY <1>1, <2>1
       DEF IInv, Sound, IssueKeepsImages, ConfirmedLeadsToIssue, Existing, Stored
  <2> QED
    BY <1>2, <1>3, <2>3, <2>4, <2>5 DEF Sound
<1>6. CASE MakesDraft(o)
  <2>1. PICK d \in Drafts :
           /\ draft[d].st = "NONE"
           /\ draft' = [draft EXCEPT ![d] = [NoDraft EXCEPT !.st = "STORED", !.origin = o,
                                                            !.images = web.images]]
    BY <1>6 DEF InsertDraft, Insert
  <2>2. /\ \A e \in Drafts \ {d} : draft'[e] = draft[e]
        /\ draft'[d].st = "STORED" /\ draft'[d].origin = o
        /\ draft'[d].images = web.images /\ ~draft'[d].confirmed
    BY <2>1 DEF IInv, TypeOK, NoDraft
  <2>3. o \in Messages => Pending(o)
    BY <1>6 DEF MakesDraft, Pending, Stored
  <2>4. /\ \A m \in Messages \ {o} : handoff'[m] = handoff[m]
        /\ \A m \in Messages : /\ handoff'[m].images = handoff[m].images
                               /\ handoff'[m].st = handoff[m].st
        /\ o \in Messages => handoff'[o].consumed
    <3>1. handoff' = IF o = Workbench THEN handoff
                     ELSE [handoff EXCEPT ![o].consumed = TRUE]
      BY <1>6 DEF InsertDraft
    <3>2. handoff \in [Messages -> HandoffRow]
      BY DEF IInv, TypeOK
    <3> QED
      BY <1>1, <3>1, <3>2, IntakeDraftConstants DEF HandoffRow, Origins
  <2>5. \A m \in Messages : Pending(m)' => Pending(m) /\ m # o
    BY <2>4 DEF Pending
  <2>6. Taken'
    BY <1>1, <2>2, <2>4 DEF IInv, Sound, Taken
  <2>7. /\ \A m \in Messages : m # o => Disjoint(web.images, handoff[m].images)
        /\ \A e \in Drafts : web.images \cap draft[e].images \subseteq HandoffImages(o)
        /\ Backed(web.images \ HandoffImages(o))
    BY DEF IInv, Sound, Submitting, InsertDraft
  <2>8. \A e \in Drafts : o \in Messages => draft[e].origin # o
    BY <2>3 DEF IInv, Sound, OneDraftPerMessage
  <2>9. \A e \in Drafts : Disjoint(web.images, draft[e].images)
    BY <1>1, <2>7, <2>8 DEF IInv, Sound, Apart, HandoffImages, Disjoint, Origins
  <2>10. Apart'
    <3>1. \A e \in Drafts : e # d => Disjoint(draft'[d].images, draft'[e].images)
      BY <2>2, <2>9
    <3>2. \A e, f \in Drafts : e # d /\ f # d /\ e # f => Disjoint(draft'[e].images, draft'[f].images)
      BY <2>2 DEF IInv, Sound, Apart
    <3>3. \A e \in Drafts, m \in Messages : draft'[e].origin # m =>
             Disjoint(draft'[e].images, handoff'[m].images)
      BY <2>2, <2>4, <2>7 DEF IInv, Sound, Apart
    <3>4. \A m, n \in Messages : m # n => Disjoint(handoff'[m].images, handoff'[n].images)
      BY <2>4 DEF IInv, Sound, Apart
    <3> QED
      BY <3>1, <3>2, <3>3, <3>4 DEF Apart, Disjoint
  <2>11. OneDraftPerMessage'
    <3>1. \A e \in Drafts : draft'[e].origin \in Messages =>
             handoff'[draft'[e].origin].st # "NONE" /\ ~Pending(draft[e].origin)'
      BY <2>2, <2>3, <2>4, <2>5 DEF IInv, Sound, OneDraftPerMessage, Pending
    <3>2. \A e, f \in Drafts : e # f /\ draft'[e].origin \in Messages =>
             draft'[e].origin # draft'[f].origin
      BY <2>2, <2>8 DEF IInv, Sound, OneDraftPerMessage
    <3> QED
      BY <3>1, <3>2 DEF OneDraftPerMessage
  <2>12. IssuesOfDrafts'
    BY <1>1, <2>1, <2>2 DEF IInv, Sound, IssuesOfDrafts
  <2>13. FilesBehindRows'
    <3>1. Backed(web.images)
      BY <1>1, <2>3, <2>7 DEF HandoffImages, Backed, IInv, Sound, FilesBehindRows, Origins
    <3>2. \A e \in Drafts : Backed(draft'[e].images) \/ issue[e].spoilt
      BY <2>2, <3>1 DEF IInv, Sound, FilesBehindRows
    <3>3. \A m \in Messages : Pending(m)' => Backed(handoff'[m].images)
      BY <2>4, <2>5 DEF IInv, Sound, FilesBehindRows
    <3> QED
      BY <1>1, <3>2, <3>3 DEF IInv, Sound, FilesBehindRows, Backed
  <2>14. Carried'
    BY <1>4, <2>4 DEF IInv, Sound, Carried, HandoffImages, TypeOK, Request, Origins
  <2>15. IssueKeepsImages' /\ ConfirmedLeadsToIssue'
    BY <1>1, <2>1, <2>2
       DEF IInv, Sound, IssueKeepsImages, ConfirmedLeadsToIssue, Existing, Stored
  <2> QED
    BY <1>2, <1>3, <2>6, <2>10, <2>11, <2>12, <2>13, <2>14, <2>15 DEF Sound
<1> QED
  BY <1>5, <1>6

-----------------------------------------------------------------------------
(* Confirming, time and crashes.                                           *)

LEMMA ExpireSound ==
    ASSUME IInv,
           \/ \E m \in Messages : ExpireHandoff(m)
           \/ \E d \in Drafts : ExpireDraft(d)
    PROVE  Sound'
<1>1. UNCHANGED <<issue, rows, files, taken, req, web, sweep>>
  BY DEF ExpireHandoff, ExpireDraft, media
<1>3. /\ \A m \in Messages : /\ handoff'[m].st = handoff[m].st
                             /\ handoff'[m].images = handoff[m].images
                             /\ handoff'[m].consumed = handoff[m].consumed
      /\ \A d \in Drafts : /\ draft'[d].st = draft[d].st
                           /\ draft'[d].images = draft[d].images
                           /\ draft'[d].origin = draft[d].origin
                           /\ draft'[d].confirmed = draft[d].confirmed
  <2>1. /\ handoff \in [Messages -> HandoffRow]
        /\ draft \in [Drafts -> DraftRow]
    BY DEF IInv, TypeOK
  <2>2. CASE draft' = draft /\ \E m \in Messages : handoff' = [handoff EXCEPT ![m].old = TRUE]
    BY <2>1, <2>2 DEF HandoffRow
  <2>3. CASE handoff' = handoff /\ \E d \in Drafts : draft' = [draft EXCEPT ![d].old = TRUE]
    BY <2>1, <2>3 DEF DraftRow
  <2> QED
    BY <2>2, <2>3 DEF ExpireHandoff, ExpireDraft
<1>4. HandoffsAge /\ DraftsAge
  BY <1>3 DEF HandoffsAge, DraftsAge
<1>5. Apart' /\ OneDraftPerMessage' /\ IssuesOfDrafts' /\ Carried'
  BY <1>1, <1>4, Aging, SameRequests
<1>6. Submitting'
  BY <1>1, <1>4, SameSubmission DEF IInv, TypeOK, Submitting
<1>7. Taken' /\ FilesBehindRows'
  BY <1>1, <1>3 DEF IInv, Sound, Taken, FilesBehindRows, Pending, Backed
<1>8. ConfirmedFor(web.issues)' = ConfirmedFor(web.issues)
  BY <1>1, <1>3 DEF ConfirmedFor, Stored, IInv, TypeOK, ExpireHandoff, ExpireDraft
<1>9. Confirming' /\ Deleting'
  BY <1>1, <1>3, <1>8 DEF IInv, Sound, Confirming, Deleting, Existing, Pending, Disjoint
<1>10. Cleaning'
  BY <1>1 DEF IInv, Sound, Cleaning, Refused, Existing, ImagesOf
<1>11. IssueKeepsImages' /\ ConfirmedLeadsToIssue'
  BY <1>1, <1>3 DEF IInv, Sound, IssueKeepsImages, ConfirmedLeadsToIssue, Existing, Stored,
                    TypeOK, ExpireHandoff, ExpireDraft
<1> QED
  BY <1>5, <1>6, <1>7, <1>9, <1>10, <1>11 DEF Sound

LEMMA ConfirmReadSound ==
    ASSUME IInv, NEW d \in Drafts, ConfirmRead(d)
    PROVE  Sound'
<1>1. /\ web.job = "idle" /\ UNCHANGED <<tables, media, req, sweep>>
      /\ draft[d].st = "STORED"
      /\ web'.job = "create" /\ web'.drafts = {d} /\ web'.images = draft[d].images
  BY DEF ConfirmRead, WebFree, WebIdle, Confirmable
<1>2. UNCHANGED <<handoff, draft, issue>>
  BY <1>1 DEF tables
<1>3. Carried'
  BY <1>1, <1>2, SameTables, SameRequests
<1>4. Submitting' /\ Confirming' /\ Deleting'
  BY <1>1, <1>2 DEF Submitting, Confirming, Deleting
<1>5. Cleaning'
  BY <1>1, <1>2 DEF IInv, Sound, Cleaning, Refused, Existing, ImagesOf
<1> QED
  BY <1>1, <1>3, <1>4, <1>5, WebStepSound DEF IInv, Sound, Taken

LEMMA CreateCaseSound ==
    ASSUME IInv, CreateCase
    PROVE  Sound'
<1>1. PICK d \in Drafts :
         /\ web.drafts = {d} /\ draft[d].st # "NONE" /\ web.images = draft[d].images
  BY DEF CreateCase, IInv, Sound, Confirming
<1>2. /\ web.job = "create"
      /\ UNCHANGED <<handoff, draft, rows, files, taken, req, sweep>>
  BY DEF CreateCase, media
<1>3. \/ /\ d \in Existing \/ web.images \subseteq rows
         /\ issue' = IF d \in Existing THEN issue
                     ELSE [issue EXCEPT ![d] = [@ EXCEPT !.st = "OPEN", !.images = web.images]]
         /\ web'.job = "mark" /\ web'.drafts = {d} /\ web'.images = {}
      \/ issue' = issue /\ web'.job = "idle" /\ web'.images = {}
  <2>1. web.drafts = {d}
    BY <1>1
  <2>2. web \in Handler
    BY DEF IInv, TypeOK
  <2>3. /\ [web EXCEPT !.job = "mark", !.images = {}].job = "mark"
        /\ [web EXCEPT !.job = "mark", !.images = {}].drafts = {d}
        /\ [web EXCEPT !.job = "mark", !.images = {}].images = {}
    BY <2>1, <2>2 DEF Handler
  <2>4. WebIdle.job = "idle" /\ WebIdle.images = {}
    BY DEF WebIdle
  <2>5. \/ /\ d \in Existing \/ web.images \subseteq rows
           /\ issue' = IF d \in Existing THEN issue
                       ELSE [issue EXCEPT ![d] = [@ EXCEPT !.st = "OPEN",
                                                           !.images = web.images]]
           /\ web' = [web EXCEPT !.job = "mark", !.images = {}]
        \/ issue' = issue /\ web' = WebIdle
    BY <2>1 DEF CreateCase
  <2> QED
    BY <2>3, <2>4, <2>5
<1>4. /\ \A e \in Drafts \ {d} : issue'[e] = issue[e]
      /\ issue'[d].spoilt = issue[d].spoilt
      /\ \/ issue'[d] = issue[d]
         \/ /\ d \notin Existing /\ web.images \subseteq rows
            /\ issue'[d].st = "OPEN" /\ issue'[d].images = web.images
      /\ web'.job = "mark" => issue'[d].st \in {"OPEN", "CLOSED"}
  <2> DEFINE new == [issue[d] EXCEPT !.st = "OPEN", !.images = web.images]
  <2>1. issue \in [Drafts -> IssueRow]
    BY DEF IInv, TypeOK
  <2>2. new.st = "OPEN" /\ new.images = web.images /\ new.spoilt = issue[d].spoilt
    BY <2>1 DEF IssueRow
  <2>3. \/ /\ d \in Existing \/ web.images \subseteq rows
           /\ issue' = IF d \in Existing THEN issue ELSE [issue EXCEPT ![d] = new]
        \/ issue' = issue /\ web'.job = "idle"
    BY <1>3
  <2> HIDE DEF new
  <2> QED
    BY <2>1, <2>2, <2>3 DEF Existing
<1>5. Apart' /\ OneDraftPerMessage'
  BY <1>2, SameTables, Aging
<1>6. Carried'
  BY <1>2, SameTables, SameRequests
<1>7. Taken'
  BY <1>2, <1>3 DEF IInv, Sound, Taken
<1>8. IssuesOfDrafts'
  BY <1>1, <1>2, <1>4 DEF IInv, Sound, IssuesOfDrafts
<1>9. FilesBehindRows'
  <2>1. \A e \in Drafts : issue'[e].spoilt = issue[e].spoilt
    BY <1>4
  <2> QED
    BY <1>2, <2>1 DEF IInv, Sound, FilesBehindRows, Pending, Backed
<1>10. Submitting' /\ Deleting'
  BY <1>3 DEF Submitting, Deleting
<1>11. Confirming'
  BY <1>1, <1>2, <1>3, <1>4 DEF Confirming, Existing
<1>12. Cleaning'
  BY <1>2, <1>3 DEF IInv, Sound, Cleaning, TypeOK, Cleanup
<1>13. IssueKeepsImages'
  <2>1. \A e \in Drafts \ {d} : issue'[e].st \in {"OPEN", "CLOSED"} => e \in Existing
    BY <1>4 DEF Existing
  <2>2. ASSUME d \notin Existing, web.images \subseteq rows
        PROVE  web.images \subseteq files \/ issue[d].spoilt
    BY <1>1, <2>2 DEF IInv, Sound, FilesBehindRows, Backed
  <2>3. issue'[d] = issue[d] /\ issue'[d].st \in {"OPEN", "CLOSED"} => d \in Existing
    BY DEF Existing
  <2> QED
    BY <1>2, <1>4, <2>1, <2>2, <2>3 DEF IInv, Sound, IssueKeepsImages, Existing
<1>14. ConfirmedLeadsToIssue'
  <2>1. \A e \in Existing : e \in Existing'
    BY <1>4 DEF Existing
  <2> QED
    BY <1>2, <2>1 DEF IInv, Sound, ConfirmedLeadsToIssue, Stored
<1> QED
  BY <1>5, <1>6, <1>7, <1>8, <1>9, <1>10, <1>11, <1>12, <1>13, <1>14 DEF Sound

LEMMA MarkSound ==
    ASSUME IInv, MarkConfirmed
    PROVE  Sound'
<1>1. /\ web.job = "mark" /\ web'.job = "idle" /\ web'.images = {}
      /\ UNCHANGED <<handoff, issue, rows, files, taken, req, sweep>>
  BY DEF MarkConfirmed, media, WebIdle
<1>2. \A d \in Drafts : /\ draft'[d].st = draft[d].st
                        /\ draft'[d].images = draft[d].images
                        /\ draft'[d].origin = draft[d].origin
                        /\ draft'[d].confirmed => draft[d].confirmed \/ d \in web.drafts
  BY DEF MarkConfirmed, IInv, TypeOK, DraftRow
<1>3. HandoffsAge /\ DraftsAge
  BY <1>1, <1>2 DEF HandoffsAge, DraftsAge
<1>4. Apart' /\ OneDraftPerMessage' /\ IssuesOfDrafts' /\ Carried'
  BY <1>1, <1>3, Aging, SameRequests
<1>5. Taken' /\ FilesBehindRows'
  BY <1>1, <1>2 DEF IInv, Sound, Taken, FilesBehindRows, Pending, Backed
<1>6. Submitting' /\ Confirming' /\ Deleting'
  BY <1>1 DEF Submitting, Confirming, Deleting
<1>7. Cleaning'
  BY <1>1 DEF IInv, Sound, Cleaning, TypeOK, Cleanup
<1>8. IssueKeepsImages'
  BY <1>1 DEF IInv, Sound, IssueKeepsImages, Existing
<1>9. ConfirmedLeadsToIssue'
  <2>1. web.drafts \subseteq Existing
    BY <1>1 DEF IInv, Sound, Confirming
  <2>2. Stored(draft)' = Stored(draft)
    BY <1>2 DEF Stored, MarkConfirmed, IInv, TypeOK
  <2>3. Stored(draft) \subseteq Drafts
    BY DEF Stored, IInv, TypeOK
  <2> QED
    BY <1>1, <1>2, <2>1, <2>2, <2>3 DEF IInv, Sound, ConfirmedLeadsToIssue, Existing
<1> QED
  BY <1>4, <1>5, <1>6, <1>7, <1>8, <1>9 DEF Sound

LEMMA CloseSound ==
    ASSUME IInv, NEW d \in Drafts, CloseCase(d)
    PROVE  Sound'
<1>1. /\ web.job = "idle"
      /\ UNCHANGED <<handoff, draft, rows, files, taken, req, web, sweep>>
  BY DEF CloseCase, media, WebFree
<1>2. /\ \A e \in Drafts : /\ issue'[e].images = issue[e].images
                           /\ issue'[e].spoilt = issue[e].spoilt
                           /\ issue'[e].st = "NONE" <=> issue[e].st = "NONE"
      /\ Existing' = Existing
  BY DEF CloseCase, IInv, TypeOK, IssueRow, Existing
<1>3. Apart' /\ OneDraftPerMessage' /\ Carried'
  BY <1>1, SameTables, Aging, SameRequests
<1>4. Taken' /\ FilesBehindRows' /\ IssuesOfDrafts'
  BY <1>1, <1>2 DEF IInv, Sound, Taken, FilesBehindRows, Pending, Backed, IssuesOfDrafts
<1>5. Submitting' /\ Confirming' /\ Deleting'
  BY <1>1 DEF Submitting, Confirming, Deleting
<1>6. Cleaning'
  BY <1>1 DEF IInv, Sound, Cleaning, TypeOK, Cleanup
<1>7. IssueKeepsImages' /\ ConfirmedLeadsToIssue'
  BY <1>1, <1>2 DEF IInv, Sound, IssueKeepsImages, ConfirmedLeadsToIssue, Stored, Existing
<1> QED
  BY <1>3, <1>4, <1>5, <1>6, <1>7 DEF Sound

LEMMA WebCrashSound ==
    ASSUME IInv, WebCrash
    PROVE  Sound'
<1>1. /\ web'.job = "idle" /\ web'.images = {}
      /\ UNCHANGED <<handoff, draft, issue, rows, files, taken, tables, media>>
  BY DEF WebCrash, WebIdle, tables, media
<1>2. /\ sweep'["web"] = Asleep /\ sweep' = [sweep EXCEPT !["web"] = Asleep]
      /\ \A r \in 1..Requests : req'[r].at # "agent"
  BY DEF WebCrash, IInv, TypeOK, NotStarted
<1>3. Apart' /\ OneDraftPerMessage' /\ IssuesOfDrafts' /\ IssueKeepsImages' /\ ConfirmedLeadsToIssue'
  BY <1>1, SameIssues
<1>4. FilesBehindRows' /\ Taken'
  BY <1>1, <1>2, SweepReadKeeps DEF IInv, Sound, Taken
<1>5. Carried' /\ Submitting' /\ Confirming' /\ Deleting' /\ Cleaning'
  BY <1>1, <1>2 DEF Carried, Submitting, Confirming, Deleting, Cleaning, Asleep
<1> QED
  BY <1>3, <1>4, <1>5 DEF Sound

-----------------------------------------------------------------------------
(* Deleting.                                                               *)

LEMMA StartDeletionSound ==
    ASSUME IInv, WebFree, NEW issues, NEW drafts, NEW whole,
           issues \subseteq Existing, drafts \subseteq Drafts,
           \A d \in drafts : draft[d].st # "NONE",
           ConfirmedFor(issues) \subseteq drafts,
           StartDeletion(issues, drafts, whole)
    PROVE  Sound'
<1> DEFINE U == Unretained(issues, drafts) \cap rows
<1>1. /\ web.job = "idle" /\ UNCHANGED <<tables, media, req, sweep>>
      /\ web'.job = "delete" /\ web'.issues = issues /\ web'.drafts = drafts
      /\ web'.images = U
  BY DEF StartDeletion, WebFree, WebIdle
<1>2. UNCHANGED <<handoff, draft, issue, rows, files, taken>>
  BY <1>1 DEF tables, media
<1>3. \A i \in U : \E d \in issues \cup drafts : d \in Drafts /\ i \in draft[d].images
  BY DEF Unretained, ImagesOf, IInv, Sound, IssuesOfDrafts, Existing
<1>4. \A d \in Drafts : d \notin issues \cup drafts => Disjoint(U, draft[d].images)
  BY <1>3 DEF IInv, Sound, Apart, Disjoint
<1>5. \A d \in Existing \ issues : Disjoint(U, issue[d].images)
  BY DEF Unretained, ImagesOf, Disjoint
<1>6. \A m \in Messages : Pending(m) => Disjoint(U, handoff[m].images)
  BY <1>3 DEF IInv, Sound, Apart, OneDraftPerMessage, Disjoint, Existing
<1> HIDE DEF U
<1>7. Deleting'
  BY <1>1, <1>2, <1>4, <1>5, <1>6
     DEF Deleting, Existing, Pending, ConfirmedFor, Stored, Disjoint
<1>8. Carried'
  BY <1>1, <1>2, SameTables, SameRequests
<1>9. Submitting' /\ Confirming'
  BY <1>1 DEF Submitting, Confirming
<1>10. Cleaning'
  BY <1>1 DEF IInv, Sound, Cleaning, TypeOK, Cleanup
<1>11. U \subseteq taken
  BY DEF U, IInv, TypeOK
<1> QED
  BY <1>1, <1>7, <1>8, <1>9, <1>10, <1>11, WebStepSound

LEMMA BeginDeletionSound ==
    ASSUME IInv, (\E d \in Drafts : DeleteClosedIssue(d)) \/ DeleteTeam
    PROVE  Sound'
<1>1. \A S : ConfirmedFor(S) \subseteq Drafts /\ \A d \in ConfirmedFor(S) : draft[d].st # "NONE"
  BY DEF ConfirmedFor, Stored, IInv, TypeOK
<1>2. ASSUME NEW d \in Drafts, DeleteClosedIssue(d) PROVE Sound'
  <2>1. d \in Existing
    BY <1>2 DEF DeleteClosedIssue, Existing
  <2> QED
    BY <1>1, <1>2, <2>1, StartDeletionSound DEF DeleteClosedIssue
<1>3. ASSUME DeleteTeam PROVE Sound'
  <2> DEFINE T == ConfirmedFor(Existing) \cup {d \in Stored(draft) : ~draft[d].confirmed}
  <2>1. T \subseteq Drafts /\ \A d \in T : draft[d].st # "NONE"
    BY <1>1 DEF Stored, IInv, TypeOK
  <2> QED
    BY <1>3, <2>1, StartDeletionSound DEF DeleteTeam
<1> QED
  BY <1>2, <1>3

LEMMA CommitDeletionSound ==
    ASSUME IInv, CommitDeletion
    PROVE  Sound'
<1>1. /\ web.job = "delete" /\ web'.job = "idle" /\ web'.images = {}
      /\ rows' = rows \ web.images /\ files' = files \ web.images
      /\ draft' = Remove(draft, web.drafts)
      /\ UNCHANGED <<handoff, taken, req, sweep>>
  BY DEF CommitDeletion, WebIdle
<1>2. handoff' = Remove(handoff, {})
  BY <1>1 DEF Remove, IInv, TypeOK
<1>3. HandoffsAge /\ DraftsAge
  BY <1>1, <1>2, RemoveAges
<1>4. Apart' /\ OneDraftPerMessage' /\ Carried'
  BY <1>1, <1>3, Aging, SameRequests
<1>5. \A d \in Drafts : /\ issue'[d].images = issue[d].images
                        /\ issue'[d].spoilt = issue[d].spoilt
                        /\ d \notin web.issues => issue'[d] = issue[d]
                        /\ d \in web.issues => issue'[d].st = "DELETED"
  BY DEF CommitDeletion, IInv, TypeOK, IssueRow
<1>6. Existing' = Existing \ web.issues
  BY <1>5 DEF Existing
<1>7. IssuesOfDrafts'
  BY <1>1, <1>3, <1>5 DEF IInv, Sound, IssuesOfDrafts, DraftsAge, Deleting
<1>8. Taken'
  BY <1>1, <1>3 DEF IInv, Sound, Taken, DraftsAge
<1>9. FilesBehindRows'
  <2>1. \A d \in Drafts : (Backed(draft[d].images) \/ issue[d].spoilt)'
    BY <1>1, <1>3, <1>5 DEF IInv, Sound, FilesBehindRows, DraftsAge, Backed
  <2>2. \A m \in Messages : Pending(m)' => Backed(handoff[m].images)'
    BY <1>1 DEF IInv, Sound, FilesBehindRows, Pending, Backed
  <2>3. \A p \in {"web", "worker"} :
           sweep'[p].st = "files" => Disjoint(sweep'[p].images, rows')
    BY <1>1 DEF IInv, Sound, FilesBehindRows, Disjoint
  <2> QED
    BY <2>1, <2>2, <2>3 DEF FilesBehindRows
<1>10. Submitting' /\ Confirming' /\ Deleting'
  BY <1>1 DEF Submitting, Confirming, Deleting
<1>11. Cleaning'
  BY <1>1 DEF IInv, Sound, Cleaning, TypeOK, Cleanup
<1>12. IssueKeepsImages'
  BY <1>1, <1>5, <1>6 DEF IInv, Sound, IssueKeepsImages, Deleting, Disjoint, Existing
<1>13. ConfirmedLeadsToIssue'
  <2>1. \A d \in Stored(draft)' : d \in Stored(draft) /\ d \notin web.drafts
                                  /\ draft'[d].confirmed = draft[d].confirmed
    BY <1>1 DEF Stored, Remove, IInv, TypeOK, DraftRow
  <2> QED
    BY <1>1, <1>6, <2>1 DEF IInv, Sound, ConfirmedLeadsToIssue, Deleting, ConfirmedFor
<1> QED
  BY <1>4, <1>7, <1>8, <1>9, <1>10, <1>11, <1>12, <1>13 DEF Sound

LEMMA DeletionFailsSound ==
    ASSUME IInv, DeletionFails
    PROVE  Sound'
<1>1. PICK gone \in SUBSET web.images :
         /\ files' = files \ gone
         /\ issue' = [d \in Drafts |->
                         IF d \in web.issues \cup web.drafts /\ gone # {}
                         THEN [issue[d] EXCEPT !.spoilt = TRUE] ELSE issue[d]]
  BY DEF DeletionFails
<1>2. /\ web.job = "delete" /\ web'.job = "idle" /\ web'.images = {}
      /\ UNCHANGED <<handoff, draft, rows, taken, req, sweep>>
  BY DEF DeletionFails, WebIdle
<1>3. \A d \in Drafts : /\ issue'[d].images = issue[d].images
                        /\ issue'[d].st = issue[d].st
                        /\ issue[d].spoilt => issue'[d].spoilt
                        /\ d \in web.issues \cup web.drafts /\ gone # {} => issue'[d].spoilt
  BY <1>1 DEF IInv, TypeOK, IssueRow
<1>4. Apart' /\ OneDraftPerMessage' /\ Carried'
  BY <1>2, SameTables, Aging, SameRequests
<1>5. Taken' /\ IssuesOfDrafts'
  BY <1>2, <1>3 DEF IInv, Sound, Taken, IssuesOfDrafts
<1>6. FilesBehindRows'
  <2>1. ASSUME NEW d \in Drafts PROVE Backed(draft[d].images)' \/ issue'[d].spoilt
    <3>1. CASE d \in web.issues \cup web.drafts
      BY <1>1, <1>2, <1>3, <3>1 DEF IInv, Sound, FilesBehindRows, Backed
    <3>2. CASE d \notin web.issues \cup web.drafts
      <4>1. Disjoint(gone, draft[d].images)
        BY <1>2, <3>2 DEF IInv, Sound, Deleting, Disjoint
      <4> QED
        BY <1>1, <1>2, <1>3, <4>1 DEF IInv, Sound, FilesBehindRows, Backed, Disjoint
    <3> QED
      BY <3>1, <3>2
  <2>2. ASSUME NEW m \in Messages, Pending(m) PROVE Backed(handoff[m].images)'
    <3>1. Disjoint(gone, handoff[m].images)
      BY <1>2, <2>2 DEF IInv, Sound, Deleting, Disjoint
    <3> QED
      BY <1>1, <1>2, <2>2, <3>1 DEF IInv, Sound, FilesBehindRows, Backed, Disjoint
  <2> QED
    BY <1>2, <2>1, <2>2 DEF IInv, Sound, FilesBehindRows, Pending, Disjoint
<1>7. Submitting' /\ Confirming' /\ Deleting'
  BY <1>2 DEF Submitting, Confirming, Deleting
<1>8. Cleaning'
  BY <1>2 DEF IInv, Sound, Cleaning, TypeOK, Cleanup
<1>9. Existing' = Existing
  BY <1>3 DEF Existing
<1>10. IssueKeepsImages'
  BY <1>2, <1>3, <1>5, <1>6, <1>9
     DEF IInv, Sound, IssueKeepsImages, IssuesOfDrafts, FilesBehindRows, Backed, Existing
<1>11. ConfirmedLeadsToIssue'
  BY <1>2, <1>9 DEF IInv, Sound, ConfirmedLeadsToIssue, Stored
<1> QED
  BY <1>4, <1>5, <1>6, <1>7, <1>8, <1>10, <1>11 DEF Sound

-----------------------------------------------------------------------------
(* The theorems.                                                           *)

LEMMA StepIInv == IInv /\ [Next]_vars => IInv'
<1> SUFFICES ASSUME IInv, [Next]_vars PROVE IInv'
  OBVIOUS
<1>1. CASE UNCHANGED vars
  <2>1. UNCHANGED <<handoff, draft, issue, team, rows, files, taken, req, web, sweep>>
    BY <1>1 DEF vars, tables, media
  <2>2. TypeOK'
    BY <2>1 DEF IInv, TypeOK
  <2>3. FilesBehindRows' /\ Taken'
    BY <2>1 DEF IInv, Sound, FilesBehindRows, Taken, Backed, Pending
  <2>4. Carried' /\ Submitting' /\ Confirming' /\ Deleting' /\ Cleaning'
    BY <2>1 DEF IInv, Sound, Carried, Submitting, Confirming, Deleting, Cleaning,
                HandoffImages, Backed, Existing, Pending, ConfirmedFor, Stored,
                Refused, ImagesOf, Disjoint
  <2> QED
    BY <2>1, <2>2, <2>3, <2>4, SameIssues DEF IInv, Sound, tables, media
<1>2. CASE Next
  <2>1. TypeOK'
    BY <1>2, StepType
  <2>2. Sound'
    <3>1. CASE \E m \in Messages : ReceivePrivate(m) \/ ExpireHandoff(m)
      BY <3>1, ReceiveSound, ExpireSound
    <3>2. CASE WorkerSweep \/ WebSweep
      BY <3>2, CleanupSound
    <3>3. CASE \E r \in 1..Requests :
                  \/ \E o \in Origins : BeginDraft(r, o)
                  \/ AgentAnswers(r) \/ DraftFails(r)
      BY <3>3, RequestSound, AnswerSound
    <3>4. CASE InsertDraft
      BY <3>4, InsertSound
    <3>5. CASE \E d \in Drafts : ConfirmRead(d) \/ CloseCase(d) \/ ExpireDraft(d)
      BY <3>5, ConfirmReadSound, CloseSound, ExpireSound
    <3>6. CASE CreateCase \/ MarkConfirmed
      BY <3>6, CreateCaseSound, MarkSound
    <3>7. CASE (\E d \in Drafts : DeleteClosedIssue(d)) \/ DeleteTeam
      BY <3>7, BeginDeletionSound
    <3>8. CASE CommitDeletion \/ DeletionFails
      BY <3>8, CommitDeletionSound, DeletionFailsSound
    <3>9. CASE WorkerCrash \/ WebCrash
      BY <3>9, SweepIdleSound, WebCrashSound DEF WorkerCrash
    <3> QED
      BY <1>2, <3>1, <3>2, <3>3, <3>4, <3>5, <3>6, <3>7, <3>8, <3>9 DEF Next
  <2> QED
    BY <2>1, <2>2 DEF IInv
<1> QED
  BY <1>1, <1>2

\* The inductive invariant holds throughout.
THEOREM IntakeDraftInvariant == Spec => []IInv
<1> QED
  BY InitIInv, StepIInv, PTL DEF Spec

\* The types, and that an id of a draft is not given away again.
THEOREM IntakeDraftTypeCorrect == Spec => []TypeOK
<1>1. IInv => TypeOK
  BY DEF IInv
<1> QED
  BY <1>1, IntakeDraftInvariant, PTL

\* No private message becomes a second issue, whoever submits and confirms its
\* link, and whatever crashes in between (create_intake_draft, confirm_intake).
THEOREM OneIssueForAMessage == Spec => []OneIssuePerMessage
<1>1. IInv => OneIssuePerMessage
  <2> SUFFICES ASSUME IInv, NEW m \in Messages
               PROVE  Cardinality({d \in Drafts :
                          draft[d].origin = m /\ issue[d].st # "NONE"}) <= 1
    BY DEF OneIssuePerMessage
  <2> DEFINE D == {d \in Drafts : draft[d].origin = m /\ issue[d].st # "NONE"}
  <2>1. \A d, e \in D : d = e
    BY DEF IInv, Sound, OneDraftPerMessage
  <2>2. D = {} \/ \E d : D = {d}
    BY <2>1
  <2> HIDE DEF D
  <2>3. Cardinality(D) \in {0, 1}
    BY <2>2, FS_EmptySet, FS_Singleton
  <2> QED
    BY <2>3 DEF D
<1> QED
  BY <1>1, IntakeDraftInvariant, PTL

\* An issue keeps its images through every cleanup and every deletion of
\* something else: a cleanup that has read an image as unused is refused if an
\* issue has it since, and what a deletion takes belongs to nothing that stays
\* (cleanup_expired_drafts, _delete_cases).
THEOREM ImagesStay == Spec => []IssueKeepsImages
<1>1. IInv => IssueKeepsImages
  BY DEF IInv, Sound
<1> QED
  BY <1>1, IntakeDraftInvariant, PTL

\* A confirmed draft has its issue as long as it is stored (confirm_intake,
\* delete_closed_issue, delete_team).
THEOREM ConfirmedDraftsLead == Spec => []ConfirmedLeadsToIssue
<1>1. IInv => ConfirmedLeadsToIssue
  BY DEF IInv, Sound
<1> QED
  BY <1>1, IntakeDraftInvariant, PTL

\* The cleanup at the beginning of a request for a draft always commits: no case
\* comes between its reads and its deletes, for cases come from drafts in the
\* same process only (create_intake_draft).
THEOREM RequestCleanupCommits == Spec => [](sweep["web"].st = "read" => ~Refused("web"))
<1>1. IInv => (sweep["web"].st = "read" => ~Refused("web"))
  BY DEF IInv, Sound, Cleaning
<1> QED
  BY <1>1, IntakeDraftInvariant, PTL

=============================================================================
