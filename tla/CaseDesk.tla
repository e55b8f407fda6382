------------------------------ MODULE CaseDesk ------------------------------
(***************************************************************************)
(* The case desk: the commands of case_desk/service.py on a case row, its  *)
(* timeline and the deliveries they leave in the queue, interleaved with   *)
(* the results of those deliveries.                                        *)
(*                                                                         *)
(* Every command is one transaction that locks the case row, so it is one  *)
(* action.  People in the web application act on a page they opened some   *)
(* time ago: it carries the version it was read at, and a command from an  *)
(* outdated page raises Conflict.  Messages from the chat groups carry no  *)
(* version.  A delivery is decided some time later, in any order: module   *)
(* DeliveryQueue is where that happens, and Outbox what it promises.       *)
(*                                                                         *)
(* Abstractions.  There is one consult queue, and every team has its       *)
(* group.  A command that raises leaves no trace, and is not a step.  Of a *)
(* delivery the address and the transition it carries are kept; of the     *)
(* metadata of a case only that the version counts its changes.            *)
(* A definition named Mutant... is a slip that the one after it avoids.    *)
(***************************************************************************)
EXTENDS Integers, Sequences, FiniteSets

CONSTANTS
    Cases,
    Teams,         \* the development teams
    Queue,         \* the consult queue
    Users,         \* people with an account in the web application
    MemberOf,      \* MemberOf[u]: the teams, and perhaps the queue, u is in
    QueueAdmins,   \* the administrators of the queue
    NoUser,        \* no current consultant
    NoTeam,        \* the team of a case that does not exist yet
    Pages,         \* open pages of the web application
    NoCase,        \* what a page shows before it is opened
    MaxEntries,    \* bound: timeline entries of a case
    MaxPending     \* bound: deliveries waiting for a result

ASSUME CaseDeskConstants ==
    /\ MemberOf \in [Users -> SUBSET (Teams \cup {Queue})]
    /\ QueueAdmins \subseteq Users
    /\ Queue \notin Teams
    /\ NoUser \notin Users
    /\ NoCase \notin Cases
    /\ MaxEntries \in Nat
    /\ MaxPending \in Nat

Sides == {"CONSULT", "DEV"}
Waiting == Sides \cup {"NONE"}
Intents == {"HANDOFF", "SYNC"}
Statuses == {"PENDING_CONFIRMATION", "IN_PROGRESS", "WAITING_CUSTOMER",
             "SUSPENDED", "CLOSED"}

Row == [lifecycle : {"ABSENT", "OPEN", "CLOSED"},
        status : Statuses,
        waiting_on : Waiting,
        team : Teams \cup {NoTeam},
        consultant : Users \cup {NoUser},
        version : Nat,
        sequence : Nat]        \* last_entry_sequence

Absent == [lifecycle |-> "ABSENT", status |-> "PENDING_CONFIRMATION",
           waiting_on |-> "NONE", team |-> NoTeam, consultant |-> NoUser,
           version |-> 0, sequence |-> 0]

Entry == [kind : {"FORMAL_MESSAGE", "CORRECTION", "STATUS_CHANGED", "TRANSFERRED",
                  "CLOSED", "REOPENED", "METADATA_UPDATED"},
          side : Sides \cup {"SYSTEM"},
          intent : Intents \cup {"NONE"},
          waiting_on : Waiting]        \* the choice recorded by REOPENED

Delivery == [case : Cases, entry : Nat, to : Teams \cup {Queue} \cup Users,
             after : Waiting,          \* waiting_on_after_delivery
             mode : {"push", "deferred"}]

(***************************************************************************)
(* row[c], timeline[c]   the case row and its entries                      *)
(* outbox                the deliveries without a result: PENDING, or      *)
(*                       marked SENT as the placeholder of a passive reply *)
(* page[p]               the case and the row a page was rendered from     *)
(* misled                some command was accepted from a page that no     *)
(*                       longer showed its case as it was (history)        *)
(***************************************************************************)
VARIABLES row, timeline, outbox, page, misled

vars == <<row, timeline, outbox, page, misled>>

TypeOK ==
    /\ row \in [Cases -> Row]
    /\ timeline \in [Cases -> Seq(Entry)]
    /\ outbox \subseteq Delivery
    /\ page \in [Pages -> [case : Cases \cup {NoCase}, row : Row]]
    /\ misled \in BOOLEAN

Init ==
    /\ row = [c \in Cases |-> Absent]
    /\ timeline = [c \in Cases |-> <<>>]
    /\ outbox = {}
    /\ page = [p \in Pages |-> [case |-> NoCase, row |-> Absent]]
    /\ misled = FALSE

-----------------------------------------------------------------------------
(* Who may do what (routing/directory.py).                                 *)

SidesOf(u, c) ==
    {s \in Sides : \/ s = "CONSULT" /\ Queue \in MemberOf[u]
                   \/ s = "DEV" /\ row[c].team \in MemberOf[u]}

\* assert_case_visible
Sees(u, c) == SidesOf(u, c) # {}

\* assert_consult_manager
Manages(u, c) ==
    /\ Queue \in MemberOf[u]
    /\ u = row[c].consultant \/ u \in QueueAdmins

\* assert_case_transfer_authorized, with no development team administrators
MayTransfer(u, c) == Manages(u, c)

MayTransferTeam(u, c) == row[c].team \in MemberOf[u] \/ MayTransfer(u, c)

-----------------------------------------------------------------------------
(* The parts every command is made of.                                     *)

Exists(c) == row[c].lifecycle # "ABSENT"
IsOpen(c) == row[c].lifecycle = "OPEN"

Opposite(side) == IF side = "CONSULT" THEN "DEV" ELSE "CONSULT"

\* waiting_on_after_delivery of a formal message
WaitAfter(side, intent) == IF intent = "HANDOFF" THEN Opposite(side) ELSE "NONE"

\* _destination_for_side: the group of the other side, as it is now.
Destination(c, side) == IF side = "CONSULT" THEN row[c].team ELSE Queue

Message(kind, side, intent) ==
    [kind |-> kind, side |-> side, intent |-> intent, waiting_on |-> "NONE"]
Note(kind) == Message(kind, "SYSTEM", "NONE")

\* Delivery of entry number n of case c, by the ordinary queue.
To(c, n, to, after) ==
    [case |-> c, entry |-> n, to |-> to, after |-> after, mode |-> "push"]
Notice(c, n, to) == To(c, n, to, "NONE")

\* The number _append_entry gives the next entry.
NextEntry(c) == row[c].sequence + 1

\* r with n more entries: every append increments last_entry_sequence.
Appended(r, n) == [r EXCEPT !.sequence = @ + n]

\* A command writes its fields, its entries and its deliveries, and counts
\* one version, whatever it did.
Write(c, fields, entries, deliveries) ==
    /\ row[c].sequence + Len(entries) <= MaxEntries
    /\ Cardinality(outbox \cup deliveries) <= MaxPending
    /\ row' = [row EXCEPT ![c] =
            Appended([fields EXCEPT !.version = @ + 1], Len(entries))]
    /\ timeline' = [timeline EXCEPT ![c] = @ \o entries]
    /\ outbox' = outbox \cup deliveries

\* _assert_expected_version, for the version the page carries.
MutantExpectedVersion(p, c) == page[p].case = c
ExpectedVersion(p, c) == page[p].case = c /\ page[p].row.version = row[c].version

\* The command comes from page p; the history notes what the page showed.
FromPage(p, c) ==
    /\ Exists(c)
    /\ ExpectedVersion(p, c)
    /\ misled' = (misled \/ page[p].row # row[c])
    /\ UNCHANGED page

Unversioned(c) == Exists(c) /\ UNCHANGED <<page, misled>>

-----------------------------------------------------------------------------
(* Reading, creating and talking.                                          *)

\* get_case
OpenPage(p, u, c) ==
    /\ Exists(c)
    /\ Sees(u, c)
    /\ page' = [page EXCEPT ![p] = [case |-> c, row |-> row[c]]]
    /\ UNCHANGED <<row, timeline, outbox, misled>>

\* _create_case, by a consultant or, with no user, by the consult group.
CreateCase(c, u, t) ==
    /\ ~Exists(c)
    /\ u # NoUser => Queue \in MemberOf[u]
    /\ Write(c,
             [Absent EXCEPT !.lifecycle = "OPEN", !.waiting_on = "CONSULT",
                            !.team = t, !.consultant = u],
             <<Message("FORMAL_MESSAGE", "CONSULT", "HANDOFF")>>,
             {To(c, 1, t, "DEV")})
    /\ UNCHANGED <<page, misled>>

\* A message to the other side's group, and to the consultant as well when it
\* comes from the developers.
MutantFormalDeliveries(c, side, intent, mode) ==
    {[To(c, NextEntry(c), Destination(c, side), WaitAfter(side, intent))
        EXCEPT !.mode = mode]} \cup
    (IF side = "DEV" THEN {Notice(c, NextEntry(c), row[c].consultant)} ELSE {})
FormalDeliveries(c, side, intent, mode) ==
    {[To(c, NextEntry(c), Destination(c, side), WaitAfter(side, intent))
        EXCEPT !.mode = mode]} \cup
    (IF side = "DEV" /\ row[c].consultant # NoUser
     THEN {Notice(c, NextEntry(c), row[c].consultant)} ELSE {})

\* A message from the developers' group takes the case up.
TakesUp(c, side) ==
    /\ side = "DEV"
    /\ row[c].status \in {"PENDING_CONFIRMATION", "WAITING_CUSTOMER", "SUSPENDED"}

PostFromWeb(p, u, c, side, intent) ==
    /\ FromPage(p, c)
    /\ side \in SidesOf(u, c)
    /\ IsOpen(c)
    /\ Write(c, row[c], <<Message("FORMAL_MESSAGE", side, intent)>>,
             FormalDeliveries(c, side, intent, "push"))

\* A private reply to the robot: the sender must be on one side only.
PostInPrivate(u, c, intent) ==
    /\ Unversioned(c)
    /\ IsOpen(c)
    /\ \E side \in Sides :
        /\ SidesOf(u, c) = {side}
        /\ Write(c, row[c], <<Message("FORMAL_MESSAGE", side, intent)>>,
                 FormalDeliveries(c, side, intent, "push"))

\* A quoted message in a bound group, from anybody there; its delivery may
\* be held back for a passive reply (suppress_delivery).
PostFromGroup(c, side, intent, mode) ==
    /\ Unversioned(c)
    /\ IsOpen(c)
    /\ IF TakesUp(c, side)
       THEN Write(c, [row[c] EXCEPT !.status = "IN_PROGRESS"],
                  <<Message("FORMAL_MESSAGE", side, intent), Note("STATUS_CHANGED")>>,
                  FormalDeliveries(c, side, intent, mode))
       ELSE Write(c, row[c],
                  <<Message("FORMAL_MESSAGE", side, intent)>>,
                  FormalDeliveries(c, side, intent, mode))

-----------------------------------------------------------------------------
(* Handing a case over, closing it, reopening it.                          *)

TransferConsultant(p, u, c, v) ==
    /\ FromPage(p, c)
    /\ MayTransfer(u, c)
    /\ Queue \in MemberOf[v]
    /\ v # row[c].consultant
    /\ Write(c, [row[c] EXCEPT !.consultant = v], <<Note("TRANSFERRED")>>,
             {Notice(c, NextEntry(c), Queue), Notice(c, NextEntry(c), v)})

TransferDevTeam(p, u, c, t) ==
    /\ FromPage(p, c)
    /\ MayTransferTeam(u, c)
    /\ t # row[c].team
    /\ Write(c, [row[c] EXCEPT !.team = t], <<Note("TRANSFERRED")>>,
             {Notice(c, NextEntry(c), row[c].team), Notice(c, NextEntry(c), t)})

CloseCase(p, u, c) ==
    /\ FromPage(p, c)
    /\ Manages(u, c)
    /\ IsOpen(c)
    /\ Write(c,
             [row[c] EXCEPT !.lifecycle = "CLOSED", !.status = "CLOSED",
                            !.waiting_on = "NONE"],
             <<Note("CLOSED")>>,
             {Notice(c, NextEntry(c), row[c].team)})

\* _set_case_status; setting the present status again changes nothing.
SetCaseStatus(p, u, c, s) ==
    /\ FromPage(p, c)
    /\ Sees(u, c)
    /\ IsOpen(c)
    /\ s = "WAITING_CUSTOMER" => Manages(u, c)
    /\ \/ /\ s = "IN_PROGRESS"
          /\ row[c].status \in {"PENDING_CONFIRMATION", "WAITING_CUSTOMER", "SUSPENDED"}
          /\ row[c].status = "PENDING_CONFIRMATION" => row[c].team \in MemberOf[u]
       \/ /\ s \in {"WAITING_CUSTOMER", "SUSPENDED"}
          /\ row[c].status = "IN_PROGRESS"
    /\ Write(c, [row[c] EXCEPT !.status = s], <<Note("STATUS_CHANGED")>>, {})

ReopenCase(p, u, c, side) ==
    /\ FromPage(p, c)
    /\ Manages(u, c)
    /\ row[c].lifecycle = "CLOSED"
    /\ Write(c,
             [row[c] EXCEPT !.lifecycle = "OPEN", !.status = "IN_PROGRESS",
                            !.waiting_on = side],
             <<[Note("REOPENED") EXCEPT !.waiting_on = side]>>,
             IF side = "DEV" THEN {Notice(c, NextEntry(c), row[c].team)} ELSE {})

\* _correct_entry: formal message n of case c belonged to case t; the mistake
\* is noted on c, and the message copied to t and delivered there.
CorrectEntry(p, q, u, c, t, n) ==
    LET original == timeline[c][n]
    IN  /\ c # t
        /\ Exists(c) /\ ExpectedVersion(p, c)
        /\ ExpectedVersion(q, t)
        /\ Manages(u, c) /\ Sees(u, t)
        /\ IsOpen(t)
        /\ original.kind = "FORMAL_MESSAGE"
        /\ \A e \in {c, t} : row[e].sequence < MaxEntries
        /\ row' = [e \in Cases |->
                IF e \in {c, t} THEN Appended([row[e] EXCEPT !.version = @ + 1], 1)
                ELSE row[e]]
        /\ timeline' = [timeline EXCEPT
                ![c] = Append(@, Note("CORRECTION")),
                ![t] = Append(@, Message("CORRECTION", original.side, original.intent))]
        /\ outbox' = outbox \cup
                {Notice(c, NextEntry(c), Destination(c, original.side)),
                 To(t, NextEntry(t), Destination(t, original.side),
                    WaitAfter(original.side, original.intent))}
        /\ Cardinality(outbox') <= MaxPending
        /\ misled' = (misled \/ page[p].row # row[c] \/ page[q].row # row[t])
        /\ UNCHANGED page

-----------------------------------------------------------------------------
(* Changes that neither move the turn nor send anything.                   *)

\* _update_case_metadata and _set_issue_current_status, with a new value
UpdateCaseMetadata(p, u, c) ==
    /\ FromPage(p, c)
    /\ Manages(u, c)
    /\ Write(c, row[c], <<Note("METADATA_UPDATED")>>, {})

\* _adjust_case_deadline, _set_case_deadline, _set_case_approaching_window
SetDeadline(p, u, c) ==
    /\ FromPage(p, c)
    /\ IsOpen(c)
    /\ Queue \in MemberOf[u]
    /\ Write(c, row[c], <<Note("METADATA_UPDATED")>>, {})

\* complete_issue_status_update with a new value: a formal message was posted
\* some time ago, and the status agent has judged it (module StatusJobs).
StatusJudged(c) ==
    /\ Unversioned(c)
    /\ \E n \in 2..Len(timeline[c]) : timeline[c][n].kind = "FORMAL_MESSAGE"
    /\ Write(c, row[c], <<Note("METADATA_UPDATED")>>, {})

-----------------------------------------------------------------------------
(* The results of deliveries.                                              *)

IsHandoff(e) == e.kind \in {"FORMAL_MESSAGE", "CORRECTION"} /\ e.intent = "HANDOFF"

MutantLaterHandoff(c, n) == FALSE
LaterHandoff(c, n) == \E m \in n + 1..Len(timeline[c]) : IsHandoff(timeline[c][m])

\* _may_apply_delivery_transition
MutantMayApply(d) ==
    /\ d.after # "NONE"
    /\ ~LaterHandoff(d.case, d.entry)
MayApply(d) ==
    /\ d.after # "NONE"
    /\ IsOpen(d.case)
    /\ ~LaterHandoff(d.case, d.entry)

\* The delivery has reached its address.
Arrived(d) ==
    /\ outbox' = outbox \ {d}
    /\ row' = IF MayApply(d)
              THEN [row EXCEPT ![d.case].waiting_on = d.after,
                               ![d.case].version = @ + 1]
              ELSE row
    /\ UNCHANGED <<timeline, page, misled>>

\* _delivery_item_succeeded for its last item
DeliverySent(d) == d.mode = "push" /\ Arrived(d)

\* _delivery_item_failed for the last time
DeliveryFailed(d) ==
    /\ d.mode = "push"
    /\ outbox' = outbox \ {d}
    /\ UNCHANGED <<row, timeline, page, misled>>

\* complete_deferred_deliveries
CompleteDeferred(d) == d.mode = "deferred" /\ Arrived(d)

\* restore_deferred_deliveries, recover_deferred_deliveries
RestoreDeferred(d) ==
    /\ d.mode = "deferred"
    /\ outbox' = (outbox \ {d}) \cup {[d EXCEPT !.mode = "push"]}
    /\ UNCHANGED <<row, timeline, page, misled>>

-----------------------------------------------------------------------------

WebCommand(p, u, c) ==
    \/ OpenPage(p, u, c)
    \/ \E side \in Sides, intent \in Intents : PostFromWeb(p, u, c, side, intent)
    \/ \E v \in Users : TransferConsultant(p, u, c, v)
    \/ \E t \in Teams : TransferDevTeam(p, u, c, t)
    \/ CloseCase(p, u, c)
    \/ \E s \in Statuses : SetCaseStatus(p, u, c, s)
    \/ \E side \in Sides : ReopenCase(p, u, c, side)
    \/ \E q \in Pages, t \in Cases : \E n \in 1..Len(timeline[c]) :
            CorrectEntry(p, q, u, c, t, n)
    \/ UpdateCaseMetadata(p, u, c)
    \/ SetDeadline(p, u, c)

ChatMessage(c) ==
    \/ \E u \in Users, intent \in Intents : PostInPrivate(u, c, intent)
    \/ \E side \in Sides, intent \in Intents, mode \in {"push", "deferred"} :
            PostFromGroup(c, side, intent, mode)

DeliveryResult(d) ==
    DeliverySent(d) \/ DeliveryFailed(d) \/ CompleteDeferred(d) \/ RestoreDeferred(d)

Next ==
    \/ \E c \in Cases :
        \/ \E u \in Users \cup {NoUser}, t \in Teams : CreateCase(c, u, t)
        \/ \E p \in Pages, u \in Users : WebCommand(p, u, c)
        \/ ChatMessage(c)
        \/ StatusJudged(c)
    \/ \E d \in outbox : DeliveryResult(d)

Spec == Init /\ [][Next]_vars

-----------------------------------------------------------------------------
(* Properties.                                                             *)

\* A closed case waits for nobody and an open one for one of the two sides
\* (the check constraint of the cases table), and the status says the same:
\* no late delivery result moves a case that was closed meanwhile.
ClosedWaitsForNobody ==
    \A c \in Cases :
        /\ row[c].lifecycle = "OPEN" <=> row[c].waiting_on \in Sides
        /\ row[c].lifecycle = "CLOSED" <=> row[c].status = "CLOSED"

\* The optimistic version check does what it is for: no command from the web
\* was ever accepted on a page that showed the case other than it was, with
\* chat messages and delivery results changing it in between.
NobodyMisled == ~misled

\* What NobodyMisled rests on: versions only grow, and a version number names
\* one state of the row.
PageAgrees ==
    \A p \in Pages : page[p].case # NoCase =>
        /\ page[p].row.version <= row[page[p].case].version
        /\ page[p].row.version = row[page[p].case].version =>
               page[p].row = row[page[p].case]

\* A case that does not exist has no version yet; one that does has a team.
RowsSound ==
    \A c \in Cases : IF Exists(c) THEN row[c].team \in Teams ELSE row[c] = Absent

\* The last entry has the number last_entry_sequence.
Numbered == \A c \in Cases : row[c].sequence = Len(timeline[c])

IInv ==
    /\ TypeOK
    /\ RowsSound
    /\ Numbered
    /\ ClosedWaitsForNobody
    /\ PageAgrees
    /\ NobodyMisled

\* The turn is passed by the latest handoff alone, however many deliveries of
\* earlier ones are still under way and in whatever order they are decided.
Handoffs(c) == {n \in 1..Len(timeline[c]) : IsHandoff(timeline[c][n])}
LatestHandoff(c) == {n \in Handoffs(c) : \A m \in Handoffs(c) : m <= n}
Passing(c) == {d \in outbox : d.case = c /\ d.after # "NONE" /\ d.entry \in LatestHandoff(c)}

Contract == INSTANCE Turn WITH
    waiting <- [c \in Cases |-> row[c].waiting_on],
    passing <- [c \in Cases |->
                  IF Passing(c) = {} THEN "NONE" ELSE (CHOOSE d \in Passing(c) : TRUE).after]
LatestHandoffPasses == Contract!Spec

\* IMPLEMENTATION_BASELINE.md:70 has the team a case was transferred away from
\* receive no further pushes: a message is pushed to the group of the team that
\* is responsible when it is pushed.
PushedToResponsibleTeam ==
    [][\A d \in outbox :
          (/\ DeliverySent(d)
           /\ d.to \in Teams
           /\ timeline[d.case][d.entry].side # "SYSTEM") =>
              d.to = row[d.case].team]_vars

=============================================================================
