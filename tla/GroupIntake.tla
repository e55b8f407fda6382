----------------------------- MODULE GroupIntake -----------------------------
(***************************************************************************)
(* A conversation in the group of a consult queue that ends in an issue    *)
(* (issues/group_intake.py), together with the inbound loop that runs it   *)
(* and the cleanup loop that runs beside it.                               *)
(*                                                                         *)
(* The first message opens a session.  Every message that quotes the bot's *)
(* proposal is a turn: the Agent drafts the fields anew from the whole     *)
(* conversation, and a turn with the phrase of confirmation dispatches the *)
(* proposal when nothing is missing.  Every step is a transaction of its   *)
(* own, so a turn can be cut short between any two of them; the marker of  *)
(* the session in the issue's first entry tells whether a dispatch that    *)
(* was cut short had created the issue.                                    *)
(*                                                                         *)
(* Abstractions.  One session, with a token nobody else has.  Of its       *)
(* fields two things are kept: the turns the Agent had before it, and      *)
(* whether all that is mandatory is there.  The proposal names one         *)
(* development team, routable or not.  A reply is what it says of the      *)
(* dispatch.  The callback that opened the session is not repeated after   *)
(* two hours.                                                              *)
(* A definition named Mutant... is a slip that the one after it avoids.    *)
(***************************************************************************)
EXTENDS Naturals, Sequences, FiniteSets, Functions

CONSTANTS
    Messages,      \* the callbacks, by msgid
    Initial,       \* the one without a quote
    Confirming,    \* those that contain CONFIRM_PHRASE
    WithText,      \* those that contain anything else
    Nothing,       \* no message
    MaxCrashes,    \* bound: crashes of the worker
    MaxFaults,     \* bound: transactions that raise
    MaxFailures,   \* bound: calls of the Agent that raise
    MaxRebinds,    \* bound: changes of the channels
    MaxRepeats     \* bound: callbacks that WeCom delivers again

ASSUME GroupIntakeConstants ==
    /\ Initial \in Messages \cap WithText
    /\ Confirming \cup WithText = Messages
    /\ WithText \subseteq Messages
    /\ Nothing \notin Messages
    /\ {MaxCrashes, MaxFaults, MaxFailures, MaxRebinds, MaxRepeats} \subseteq Nat

(***************************************************************************)
(*   session   the row: its state and the fields of the proposal           *)
(*   turn[m]   the row of m's turn: NONE, OPEN without a reply, or what    *)
(*             its reply says                                              *)
(*   order     the turns by created_at                                     *)
(*   issues    the issues created from the session: the marker in the      *)
(*             first entry, the turns the fields came from, and the turn   *)
(*             that dispatched them                                        *)
(*   image     the session's image: none, STORED, its row alone            *)
(*             (FILELESS), or GONE                                         *)
(*   expired   expires_at has come                                         *)
(*   group     the team the chat is bound to: this queue, an other, none   *)
(*   routable  the development team has a bound channel                    *)
(*   loop      the inbound loop: its message, the step it is at, the       *)
(*             context it read (fields, and whether there was a team to    *)
(*             choose), and the reply to be sent                           *)
(*   cleaner   the cleanup loop, between its check and its commit          *)
(*   shown     a proposal has been shown, so that it can be quoted         *)
(*   received  the messages delivered so far                               *)
(*   crashes ... repeats   how often the environment interfered            *)
(***************************************************************************)
VARIABLES session, turn, order, issues, image, expired, group, routable,
          loop, cleaner, shown, received,
          crashes, faults, failures, rebinds, repeats

rows == <<session, turn, order, issues, image>>
world == <<expired, group, routable, cleaner, shown, received>>
bounds == <<crashes, faults, failures, rebinds, repeats>>
vars == <<rows, world, loop, bounds>>

Fields == [seen : SUBSET Messages, whole : BOOLEAN]
Blank == [seen |-> {}, whole |-> FALSE]

States == {"NONE", "ACTIVE", "DISPATCHING", "COMPLETED", "GONE"}

\* Replies that say that nothing was dispatched, after a look at the session;
\* "sorry" is said without one, "stopped" only refuses the message.
Denials == {"proposal", "failed", "expired", "refused"}
Replies == Denials \cup {"sorry", "stopped", "dispatched", "pending"}

Steps == {"idle", "received", "context", "again", "reopen", "agent", "propose",
          "save", "begin", "reset", "create", "mark", "report", "recover",
          "reply", "answer"}

Issue == [marker : {Initial} \cup Messages, by : Messages, seen : SUBSET Messages]
Loop == [msg : Messages \cup {Nothing}, at : Steps, fields : Fields,
         teams : BOOLEAN, reply : Replies]

Idle == [msg |-> Nothing, at |-> "idle", fields |-> Blank, teams |-> FALSE,
         reply |-> "pending"]

Turned == Range(order)
Exists == session.state \notin {"NONE", "GONE"}

TypeOK ==
    /\ session \in [state : States, fields : Fields]
    /\ turn \in [Messages -> Replies \cup {"NONE", "OPEN"}]
    /\ Turned = {m \in Messages : turn[m] # "NONE"}
    /\ Turned # {} <=> Exists
    /\ issues \subseteq Issue
    /\ image \in {"NONE", "STORED", "FILELESS", "GONE"}
    /\ group \in {"queue", "other", "none"}
    /\ loop \in Loop
    /\ cleaner \in {"idle", "deleting", "keeping"}
    /\ {expired, routable, shown} \subseteq BOOLEAN
    /\ received \subseteq Messages

Init ==
    /\ session = [state |-> "NONE", fields |-> Blank]
    /\ turn = [m \in Messages |-> "NONE"]
    /\ order = <<>>
    /\ issues = {}
    /\ image = "NONE"
    /\ expired = FALSE
    /\ group = "queue"
    /\ routable = TRUE
    /\ loop = Idle
    /\ cleaner = "idle"
    /\ shown = FALSE
    /\ received = {}
    /\ crashes = 0 /\ faults = 0 /\ failures = 0 /\ rebinds = 0 /\ repeats = 0

-----------------------------------------------------------------------------
(* Receiving a message.                                                    *)

m0 == loop.msg
At(step) == loop.at = step
Go(step) == loop' = [loop EXCEPT !.at = step]
Say(step, reply) == loop' = [loop EXCEPT !.at = step, !.reply = reply]

\* A follow-up quotes a proposal that somebody has seen.
Receive(m) ==
    /\ At("idle")
    /\ m = Initial \/ shown
    /\ m \in received => repeats < MaxRepeats /\ (m = Initial => ~expired)
    /\ loop' = [Idle EXCEPT !.msg = m, !.at = "received"]
    /\ received' = received \cup {m}
    /\ repeats' = IF m \in received THEN repeats + 1 ELSE repeats
    /\ UNCHANGED <<rows, expired, group, routable, cleaner, shown,
                   crashes, faults, failures, rebinds>>

\* What a turn that exists already is answered with.
SavedReply(m) ==
    IF session.state = "COMPLETED" THEN "dispatched"
    ELSE IF turn[m] = "OPEN" THEN "pending" ELSE turn[m]

\* _create_initial_session, _saved_or_pending_reply.
Open ==
    /\ At("received") /\ m0 = Initial
    /\ \/ /\ group # "queue"
          /\ Say("answer", "stopped")
          /\ UNCHANGED rows
       \/ /\ group = "queue" /\ Exists
          /\ Say("answer", SavedReply(m0))
          /\ UNCHANGED rows
       \/ /\ group = "queue" /\ ~Exists
          /\ session' = [state |-> "ACTIVE", fields |-> Blank]
          /\ turn' = [turn EXCEPT ![m0] = "OPEN"]
          /\ order' = <<m0>>
          /\ image' \in {"NONE", "STORED"}
          /\ Go("context")
          /\ UNCHANGED issues
    /\ UNCHANGED <<world, bounds>>

\* _create_followup_turn, and what _handle_followup makes of its result.
FollowUp ==
    /\ At("received") /\ m0 # Initial
    /\ IF ~Exists \/ expired \/ group # "queue"
       THEN Say("answer", "stopped") /\ UNCHANGED rows
       ELSE IF m0 \in Turned
       THEN Say("answer", SavedReply(m0)) /\ UNCHANGED rows
       ELSE /\ turn' = [turn EXCEPT ![m0] = "OPEN"]
            /\ order' = Append(order, m0)
            /\ IF session.state = "COMPLETED"
               THEN Say("reply", "dispatched")
               ELSE Go("context")
            /\ UNCHANGED <<session, issues, image>>
    /\ UNCHANGED <<world, bounds>>

-----------------------------------------------------------------------------
(* A turn.                                                                 *)

\* Fields as they are read: a team that is not routable is struck out.
Read == [session.fields EXCEPT !.whole = @ /\ routable]

\* The turn before this one was answered with a failure of the Agent.
MutantRetry == FALSE
Retry == Len(order) > 1 /\ turn[order[Len(order) - 1]] \in {"failed", "sorry"}

NeedsAgent == m0 \in WithText \/ Retry

\* With the fields drafted: dispatch them, or show them as a proposal.
Judged(fields, teams) ==
    IF m0 \in Confirming /\ fields.whole
    THEN [loop EXCEPT !.at = "propose", !.fields = fields, !.teams = teams]
    ELSE [loop EXCEPT !.at = "save", !.fields = fields, !.teams = teams,
                      !.reply = "proposal"]

\* _processing_context and the decisions of _process_turn that follow it; it
\* is read again after a dispatch that was cut short has been taken back.
Context ==
    /\ At("context") \/ At("again")
    /\ IF ~Exists THEN Say("answer", "pending")
       ELSE IF expired THEN Say("reply", "expired")
       ELSE IF group # "queue" THEN Say("reply", "stopped")
       ELSE IF session.state = "COMPLETED" THEN Say("reply", "dispatched")
       ELSE IF session.state = "DISPATCHING" /\ At("context")
       THEN Go(IF m0 \in WithText THEN "reopen" ELSE "begin")
       ELSE loop' = IF NeedsAgent
                    THEN [loop EXCEPT !.at = "agent", !.fields = Read, !.teams = routable]
                    ELSE Judged(Read, routable)
    /\ UNCHANGED <<rows, world, bounds>>

\* Agent.draft_group_issue: it has the whole conversation before it.
AgentDrafts ==
    /\ At("agent")
    /\ \E whole \in {FALSE, loop.teams} :
          loop' = Judged([seen |-> Turned, whole |-> whole], loop.teams)
    /\ UNCHANGED <<rows, world, bounds>>

AgentFails ==
    /\ At("agent") /\ failures < MaxFailures
    /\ failures' = failures + 1
    /\ Say("save", "failed")
    /\ UNCHANGED <<rows, world, crashes, faults, rebinds, repeats>>

\* The reply of this turn; the turn may have been cleaned up meanwhile.
MutantAnswered(reply) == [turn EXCEPT ![m0] = reply]
Answered(reply) == IF m0 \in Turned THEN [turn EXCEPT ![m0] = reply] ELSE turn

Proposed(fields) == IF Exists THEN [session EXCEPT !.fields = fields] ELSE session

\* _save_proposal_and_reply.
Save ==
    /\ At("save")
    /\ session' = Proposed(loop.fields)
    /\ turn' = Answered(loop.reply)
    /\ Go("answer")
    /\ UNCHANGED <<order, issues, image, world, bounds>>

\* _save_proposal, before a dispatch.
Propose ==
    /\ At("propose")
    /\ session' = Proposed(loop.fields)
    /\ Go("begin")
    /\ UNCHANGED <<turn, order, issues, image, world, bounds>>

\* _save_turn_reply.
Reply ==
    /\ At("reply") \/ At("report")
    /\ turn' = Answered(loop.reply)
    /\ Go("answer")
    /\ UNCHANGED <<session, order, issues, image, world, bounds>>

\* transport.reply, which may raise.
Answer ==
    /\ At("answer")
    /\ loop' = Idle
    /\ shown' \in IF loop.reply \in {"proposal", "failed"} THEN {shown, TRUE} ELSE {shown}
    /\ UNCHANGED <<rows, expired, group, routable, cleaner, received, bounds>>

-----------------------------------------------------------------------------
(* The dispatch.                                                           *)

MutantMarker == m0
Marker == Initial

\* The issue whose first entry has the session's marker.
MutantCreated == FALSE
Created == \E i \in issues : i.marker = Marker

Become(state) == session' = [session EXCEPT !.state = state]

\* _begin_dispatch; its CaseDeskError is that of an unbound group.
Begin ==
    /\ At("begin")
    /\ \/ /\ ~Exists
          /\ Say("reply", "refused")
          /\ UNCHANGED session
       \/ /\ Exists /\ expired
          /\ Say("reply", "expired")
          /\ UNCHANGED session
       \/ /\ Exists /\ ~expired
          /\ session.state = "COMPLETED" \/ Created
          /\ Say("reply", "dispatched")
          /\ Become("COMPLETED")
       \/ /\ Exists /\ ~expired /\ session.state # "COMPLETED" /\ ~Created
          /\ CASE group = "none" ->
                    Go("reset") /\ UNCHANGED session
               [] group = "other" ->
                    Say("reply", "refused") /\ Become("ACTIVE")
               [] group = "queue" /\ ~Read.whole ->
                    Say("reply", "proposal") /\ Become("ACTIVE")
               [] OTHER ->
                    /\ loop' = [loop EXCEPT !.at = "create", !.fields = session.fields]
                    /\ Become("DISPATCHING")
    /\ UNCHANGED <<turn, order, issues, image, world, bounds>>

\* _reset_active.
Reset ==
    /\ At("reset")
    /\ IF session.state = "DISPATCHING" THEN Become("ACTIVE") ELSE UNCHANGED session
    /\ Say("reply", "refused")
    /\ UNCHANGED <<turn, order, issues, image, world, bounds>>

\* IssueManagement.execute(CreateCase): refused, or done; and done or not,
\* the transaction may seem to have failed.
Create ==
    /\ At("create")
    /\ \/ /\ group # "queue" \/ ~routable \/ image = "GONE"
          /\ Go("recover")
          /\ UNCHANGED <<issues, faults>>
       \/ /\ group = "queue" /\ routable /\ image # "GONE"
          /\ issues' = IF Created THEN issues
                       ELSE issues \cup {[marker |-> Marker, by |-> m0,
                                          seen |-> loop.fields.seen]}
          /\ \/ Go("mark") /\ UNCHANGED faults
             \/ faults < MaxFaults /\ faults' = faults + 1 /\ Go("recover")
    /\ UNCHANGED <<session, turn, order, image, world, crashes, failures, rebinds, repeats>>

\* _mark_completed.
Mark ==
    /\ At("mark")
    /\ IF Exists THEN Become("COMPLETED") ELSE UNCHANGED session
    /\ Say("report", "dispatched")
    /\ UNCHANGED <<turn, order, issues, image, world, bounds>>

\* _recover_or_reopen_dispatch, after a dispatch that raised and before a
\* turn that changes a proposal under dispatch.
MutantRecovered == "ACTIVE"
Recovered == IF Created THEN "COMPLETED" ELSE "ACTIVE"

Recover ==
    /\ At("recover") \/ At("reopen")
    /\ IF Exists THEN Become(Recovered) ELSE UNCHANGED session
    /\ IF Exists /\ Recovered = "COMPLETED" THEN Say("reply", "dispatched")
       ELSE IF At("reopen") THEN Go("again") ELSE Say("reply", "refused")
    /\ UNCHANGED <<turn, order, issues, image, world, bounds>>

-----------------------------------------------------------------------------
(* What can go wrong on the way.                                           *)

\* A transaction raises.  Where nothing catches it, the inbound loop answers
\* that the message failed for the moment, and goes on.
Fault ==
    /\ loop.at \notin {"idle", "agent", "answer"}
    /\ faults < MaxFaults
    /\ faults' = faults + 1
    /\ loop' = CASE loop.at \in {"create", "mark", "report"} ->
                      [loop EXCEPT !.at = "recover"]
                 [] loop.at \in {"context", "propose"} ->
                      [loop EXCEPT !.at = "reply", !.reply = "sorry"]
                 [] OTHER -> Idle
    /\ UNCHANGED <<rows, world, crashes, failures, rebinds, repeats>>

Crash ==
    /\ crashes < MaxCrashes
    /\ ~At("idle") \/ cleaner # "idle"
    /\ crashes' = crashes + 1
    /\ loop' = Idle
    /\ cleaner' = "idle"
    /\ UNCHANGED <<rows, expired, group, routable, shown, received,
                   faults, failures, rebinds, repeats>>

\* Somebody binds the chat or the team's channel, or takes it away.
Rebind ==
    /\ rebinds < MaxRebinds
    /\ rebinds' = rebinds + 1
    /\ \/ group' \in {"queue", "other", "none"} \ {group} /\ UNCHANGED routable
       \/ routable' = ~routable /\ UNCHANGED group
    /\ UNCHANGED <<rows, expired, cleaner, shown, received, loop,
                   crashes, faults, failures, repeats>>

\* Two hours have passed (not just while the first callback is repeated).
Expire ==
    /\ Exists /\ ~expired
    /\ ~(At("received") /\ m0 = Initial)
    /\ expired' = TRUE
    /\ UNCHANGED <<rows, group, routable, cleaner, shown, received, loop, bounds>>

-----------------------------------------------------------------------------
(* The cleanup loop: _cleanup_expired, for this session.                   *)

MutantIsExpired == expired /\ session.state = "ACTIVE"
IsExpired == expired /\ Exists

\* The check that no issue uses the image, and the deletion of its file,
\* which no rollback brings back.
CleanFile ==
    /\ cleaner = "idle" /\ IsExpired
    /\ IF image \in {"STORED", "FILELESS"} /\ issues = {}
       THEN image' = "FILELESS" /\ cleaner' = "deleting"
       ELSE cleaner' = "keeping" /\ UNCHANGED image
    /\ UNCHANGED <<session, turn, order, issues, expired, group, routable, shown,
                   received, loop, bounds>>

\* The rest, in the same transaction; the foreign key of an issue that came
\* to use the image rolls it back.
CleanRows ==
    /\ cleaner # "idle"
    /\ cleaner' = "idle"
    /\ IF cleaner = "deleting" /\ issues # {}
       THEN UNCHANGED <<session, turn, order, image>>
       ELSE /\ Become("GONE")
            /\ turn' = [m \in Messages |-> "NONE"]
            /\ order' = <<>>
            /\ image' = IF cleaner = "deleting" THEN "GONE" ELSE image
    /\ UNCHANGED <<issues, expired, group, routable, shown, received, loop, bounds>>

-----------------------------------------------------------------------------
LoopStep ==
    \/ Open \/ FollowUp \/ Context \/ AgentDrafts \/ AgentFails
    \/ Save \/ Propose \/ Reply \/ Answer
    \/ Begin \/ Reset \/ Create \/ Mark \/ Recover

Clean == CleanFile \/ CleanRows

Next ==
    \/ \E m \in Messages : Receive(m)
    \/ LoopStep \/ Clean
    \/ Fault \/ Crash \/ Rebind \/ Expire

\* The cleanup loop runs for ever; nothing else is needed.
Fairness == WF_vars(Clean)

Spec == Init /\ [][Next]_vars /\ Fairness

-----------------------------------------------------------------------------
(* Properties.                                                             *)

\* A proposal becomes at most one issue, however often its dispatch is cut
\* short, raises or is confirmed again (the marker of _begin_dispatch).
OneIssue == Cardinality(issues) <= 1

\* The state of a session tells whether its issue exists: a session open to
\* changes has none, a completed one has (_recover_or_reopen_dispatch and
\* _reset_active against _mark_completed).
StateTellsTruth ==
    /\ session.state = "ACTIVE" => issues = {}
    /\ session.state = "COMPLETED" => issues # {}

\* The issue says all that its conversation said: what was written together
\* with the confirmation, in every turn that was answered with a proposal,
\* and in a turn on which the Agent failed just before the confirmation
\* (_process_turn, retry_after_agent_failure).
Before(m) == {order[n - 1] : n \in {k \in 2..Len(order) : order[k] = m}}

IssueSaysAll ==
    \A i \in issues :
        \A m \in WithText \cap Turned :
            \/ m = i.by
            \/ turn[m] = "proposal"
            \/ turn[m] = "failed" /\ m \in Before(i.by)
            => m \in i.seen

\* Once the issue exists, no turn is answered with a denial, as long as the
\* session has not expired and could be read (_process_turn,
\* _begin_dispatch, _recover_or_reopen_dispatch).
NeverDenied ==
    [][\A m \in Messages :
          turn'[m] # turn[m] /\ turn'[m] \in Denials => issues = {} \/ expired]_vars

\* Every session is removed in the end, whatever state its dispatch was left
\* in and however its cleanup was cut short (_cleanup_expired).
CleanedUp == expired ~> session.state = "GONE"

\* "Remove expired sessions and their images when no issue uses them"
\* (cleanup_expired): an issue with an image has its file.
IssueKeepsImage == issues # {} => image \in {"NONE", "STORED"}

=============================================================================
