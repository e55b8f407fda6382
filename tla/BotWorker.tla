------------------------------ MODULE BotWorker ------------------------------
(***************************************************************************)
(* The worker process and its long connection to WeCom (worker.py,         *)
(* wecom/transport.py, wecom/aibot_client.py), the queue of standalone     *)
(* messages it sends (messages/push.py), and its supervisor                *)
(* (docker-compose.yml, deploy/systemd).                                   *)
(*                                                                         *)
(* WeCom serves one connection of a bot.  A worker started by mistake on   *)
(* another machine takes the connection over; the one before gets a notice *)
(* and is to stop.  Messages can be claimed by both while they overlap.    *)
(*                                                                         *)
(* Abstractions.  What frames say is left out, except that some cannot be  *)
(* decoded; what their handlers do is in the modules DeferredReply,        *)
(* GroupIntake and IntakeDraft.  The messages of a batch are sent in any   *)
(* order.  Nothing but a crash comes to a worker between the comparison of *)
(* a token and the commit, as nothing is awaited there; the other workers  *)
(* go on.                                                                  *)
(* A definition named Mutant... is a slip that the one after it avoids.    *)
(***************************************************************************)
EXTENDS Naturals, Sequences, FiniteSets

CONSTANTS
    Workers,   \* processes with the same Bot ID
    None,      \* no worker, no message, no frame
    Frames,    \* callbacks of WeCom
    Broken,    \* those among them that cannot be decoded
    Msgs,      \* rows of message_outbox
    Retries,   \* len(_RETRY_SECONDS)
    MaxFaults  \* bound: crashes, drops, timeouts, failing and slow sends

ASSUME BotWorkerConstants ==
    /\ None \notin Workers \cup Msgs \cup Frames
    /\ Broken \subseteq Frames
    /\ {Retries, MaxFaults} \subseteq Nat
    /\ IsFiniteSet(Workers)

(***************************************************************************)
(*   proc[w]     OFF until it is first started, STARTING until start()     *)
(*               returns, UP, FAILED (to be restarted), or OVER            *)
(*   displaced   the workers whose _displaced is set                       *)
(*   conn[w]     its socket: NONE, OPEN, or DROPPED (the SDK reconnects)   *)
(*   served      the worker whose connection WeCom serves, or None         *)
(*   notice      the workers a notice of displacement is on its way to     *)
(*   frame[f]    where a frame is, and at which worker                     *)
(*   events[w]   _events, the frames normalised                            *)
(*   busy[w]     the frame the inbound loop is handling, or None           *)
(*   msg[m]      the row: status, attempts, its lock_token (here the       *)
(*               number of the attempt that took it, or 0), whether        *)
(*               locked_until has passed and next_attempt_at come          *)
(*   arrived     the messages that have reached WeCom                      *)
(*   batch[w]    the messages claimed and not yet sent, with their tokens  *)
(*   sending[w]  the message being sent, its token, what came of it, and   *)
(*               whether the token was compared with the row's             *)
(*   contested   history: the messages claimed by a worker when another    *)
(*               had compared its token and not yet written the result     *)
(***************************************************************************)
VARIABLES proc, displaced, conn, served, notice, frame, events, busy, msg,
          arrived, batch, sending, contested, faults

connection == <<displaced, conn, served, notice>>
inbound == <<frame, events, busy>>
push == <<msg, arrived, batch, sending, contested>>
vars == <<proc, connection, inbound, push, faults>>

\* _normalize_frame: it raises for a frame that lacks something, is of another
\* type, or whose image cannot be downloaded.
Decodes(f) == f \notin Broken

NoBatch == [m \in Msgs |-> 0]
NotSending == [msg |-> None, token |-> 0, result |-> "NONE", checked |-> FALSE]
MaxAttempts == Retries + 1 + MaxFaults + Cardinality(Workers)

Place == [at : {"NEW", "NORMALISING", "QUEUED", "HANDLING", "HANDLED", "LOST"},
          by : Workers \cup {None}]
Row == [status : {"PENDING", "SENT", "FAILED"}, attempts : 0..MaxAttempts,
        token : 0..MaxAttempts, lapsed : BOOLEAN, due : BOOLEAN]
Request == [msg : Msgs \cup {None}, token : 0..MaxAttempts,
            result : {"NONE", "ACCEPTED", "RAISED"}, checked : BOOLEAN]

TypeOK ==
    /\ proc \in [Workers -> {"OFF", "STARTING", "UP", "FAILED", "OVER"}]
    /\ displaced \cup notice \subseteq {w \in Workers : proc[w] \in {"STARTING", "UP"}}
    /\ conn \in [Workers -> {"NONE", "OPEN", "DROPPED"}]
    /\ served \in {w \in Workers : conn[w] = "OPEN"} \cup {None}
    /\ \A w \in notice : conn[w] = "OPEN" /\ served # w
    /\ frame \in [Frames -> Place]
    /\ events \in [Workers -> Seq([frame : Frames, error : BOOLEAN])]
    /\ \A w \in Workers : \A i \in DOMAIN events[w] :
          events[w][i].error <=> ~Decodes(events[w][i].frame)
    /\ busy \in [Workers -> Frames \cup {None}]
    /\ msg \in [Msgs -> Row]
    /\ arrived \subseteq Msgs
    /\ batch \in [Workers -> [Msgs -> 0..MaxAttempts]]
    /\ sending \in [Workers -> Request]
    /\ contested \subseteq Msgs
    /\ faults \in 0..MaxFaults

Init ==
    /\ proc = [w \in Workers |-> "OFF"]
    /\ displaced = {} /\ notice = {} /\ served = None
    /\ conn = [w \in Workers |-> "NONE"]
    /\ frame = [f \in Frames |-> [at |-> "NEW", by |-> None]]
    /\ events = [w \in Workers |-> <<>>]
    /\ busy = [w \in Workers |-> None]
    /\ msg = [m \in Msgs |-> [status |-> "PENDING", attempts |-> 0, token |-> 0,
                              lapsed |-> FALSE, due |-> TRUE]]
    /\ arrived = {}
    /\ batch = [w \in Workers |-> NoBatch]
    /\ sending = [w \in Workers |-> NotSending]
    /\ contested = {}
    /\ faults = 0

Fault == faults < MaxFaults /\ faults' = faults + 1

-----------------------------------------------------------------------------
(* The process.                                                            *)

Begin(w) ==
    /\ proc[w] \in {"OFF", "FAILED"}
    /\ proc' = [proc EXCEPT ![w] = "STARTING"]
    /\ UNCHANGED <<connection, inbound, push, faults>>

\* A slip in Leave: the connection is left open.
MutantLeave(w, st) ==
    /\ proc' = [proc EXCEPT ![w] = st]
    /\ displaced' = displaced \ {w}
    /\ notice' = notice \ {w}
    /\ conn' = [conn EXCEPT ![w] = "NONE"]
    /\ UNCHANGED served
    /\ frame' = [f \in Frames |-> IF frame[f].by = w /\ frame[f].at # "HANDLED"
                                  THEN [at |-> "LOST", by |-> None] ELSE frame[f]]
    /\ events' = [events EXCEPT ![w] = <<>>]
    /\ busy' = [busy EXCEPT ![w] = None]
    /\ batch' = [batch EXCEPT ![w] = NoBatch]
    /\ sending' = [sending EXCEPT ![w] = NotSending]
    /\ UNCHANGED <<msg, arrived, contested>>

\* The process ends, and close() with it: what it has not handled is lost, what
\* it has claimed stays claimed.
Leave(w, st) ==
    /\ proc' = [proc EXCEPT ![w] = st]
    /\ displaced' = displaced \ {w}
    /\ notice' = notice \ {w}
    /\ conn' = [conn EXCEPT ![w] = "NONE"]
    /\ served' = IF served = w THEN None ELSE served
    /\ frame' = [f \in Frames |-> IF frame[f].by = w /\ frame[f].at # "HANDLED"
                                  THEN [at |-> "LOST", by |-> None] ELSE frame[f]]
    /\ events' = [events EXCEPT ![w] = <<>>]
    /\ busy' = [busy EXCEPT ![w] = None]
    /\ batch' = [batch EXCEPT ![w] = NoBatch]
    /\ sending' = [sending EXCEPT ![w] = NotSending]
    /\ UNCHANGED <<msg, arrived, contested>>

\* The process is killed, or a loop raises something else.
Crash(w) ==
    /\ proc[w] \in {"STARTING", "UP"}
    /\ Leave(w, "FAILED")
    /\ Fault

\* start() gives up: not authenticated in time.
StartTimesOut(w) ==
    /\ proc[w] = "STARTING" /\ conn[w] # "OPEN" /\ w \notin displaced
    /\ Leave(w, "FAILED")
    /\ Fault

\* start() returns.
Started(w) ==
    /\ proc[w] = "STARTING" /\ conn[w] = "OPEN"
    /\ proc' = [proc EXCEPT ![w] = "UP"]
    /\ UNCHANGED <<connection, inbound, push, faults>>

\* A worker that was displaced ends normally, and so for good: in start(), or in
\* events() once the inbound loop asks for the next frame; the other loops
\* go on until then.
Stop(w) ==
    /\ w \in displaced /\ busy[w] = None /\ ~sending[w].checked
    /\ Leave(w, "OVER")
    /\ UNCHANGED faults

-----------------------------------------------------------------------------
(* The connection.                                                         *)

\* Authenticated, by connect() of start() or when the SDK reconnects: the
\* connection there is gets a notice.
Connect(w) ==
    /\ \/ proc[w] = "STARTING" /\ conn[w] = "NONE"
       \/ conn[w] = "DROPPED"
    /\ w \notin displaced
    /\ conn' = [conn EXCEPT ![w] = "OPEN"]
    /\ served' = w
    /\ notice' = IF served = None THEN notice ELSE notice \cup {served}
    /\ UNCHANGED <<proc, displaced, inbound, push, faults>>

\* A network failure; a notice on its way is lost.
Drop(w) ==
    /\ conn[w] = "OPEN"
    /\ conn' = [conn EXCEPT ![w] = "DROPPED"]
    /\ served' = IF served = w THEN None ELSE served
    /\ notice' = notice \ {w}
    /\ Fault
    /\ UNCHANGED <<proc, displaced, inbound, push>>

\* A slip in Displaced: the SDK is left to reconnect when WeCom closes the old
\* socket.
MutantDisplaced(w) ==
    /\ w \in notice
    /\ notice' = notice \ {w}
    /\ conn' = [conn EXCEPT ![w] = "DROPPED"]
    /\ UNCHANGED <<proc, displaced, served, inbound, push, faults>>

\* _on_displaced_by_new_connection, which keeps the SDK from reconnecting.
Displaced(w) ==
    /\ w \in notice
    /\ notice' = notice \ {w}
    /\ displaced' = displaced \cup {w}
    /\ conn' = [conn EXCEPT ![w] = "NONE"]
    /\ UNCHANGED <<proc, served, inbound, push, faults>>

-----------------------------------------------------------------------------
(* Frames.                                                                 *)

\* _on_raw_message starts a task for each frame.
OnRawMessage(f) ==
    /\ served # None
    /\ frame[f].at = "NEW"
    /\ frame' = [frame EXCEPT ![f] = [at |-> "NORMALISING", by |-> served]]
    /\ UNCHANGED <<proc, connection, events, busy, push, faults>>

\* The event of a frame, or the one that says what is wrong with it.
Event(f) == [frame |-> f, error |-> ~Decodes(f)]

\* A slip in NormalizeAndQueue: a frame that cannot be decoded ends its task.
MutantNormalizeAndQueue(f) ==
    /\ frame[f].at = "NORMALISING"
    /\ Decodes(f)
    /\ frame' = [frame EXCEPT ![f].at = "QUEUED"]
    /\ events' = [events EXCEPT ![frame[f].by] = Append(@, Event(f))]
    /\ UNCHANGED <<proc, connection, busy, push, faults>>

\* The task of a frame ends; images may have been downloaded for it.
NormalizeAndQueue(f) ==
    /\ frame[f].at = "NORMALISING"
    /\ frame' = [frame EXCEPT ![f].at = "QUEUED"]
    /\ events' = [events EXCEPT ![frame[f].by] = Append(@, Event(f))]
    /\ UNCHANGED <<proc, connection, busy, push, faults>>

\* events() looks at _displaced first.
Receive(w) ==
    /\ proc[w] = "UP" /\ w \notin displaced
    /\ busy[w] = None /\ events[w] # <<>>
    /\ busy' = [busy EXCEPT ![w] = Head(events[w]).frame]
    /\ events' = [events EXCEPT ![w] = Tail(@)]
    /\ frame' = [frame EXCEPT ![Head(events[w]).frame].at = "HANDLING"]
    /\ UNCHANGED <<proc, connection, push, faults>>

\* The handler ends, whether its reply reached WeCom or not.
Handled(w) ==
    /\ busy[w] # None
    /\ frame' = [frame EXCEPT ![busy[w]].at = "HANDLED"]
    /\ busy' = [busy EXCEPT ![w] = None]
    /\ UNCHANGED <<proc, connection, events, push, faults>>

-----------------------------------------------------------------------------
(* Standalone messages.                                                    *)

Claimable == {m \in Msgs : /\ msg[m].status = "PENDING" /\ msg[m].due
                           /\ msg[m].token = 0 \/ msg[m].lapsed}

InHand(w, m) == batch[w][m] # 0 \/ sending[w].msg = m

\* _claim, when deliver_pending has nothing left in hand.
Claim(w) ==
    /\ proc[w] = "UP"
    /\ \A m \in Msgs : ~InHand(w, m)
    /\ Claimable # {}
    /\ msg' = [m \in Msgs |-> IF m \in Claimable
                 THEN [msg[m] EXCEPT !.attempts = @ + 1,
                                     !.token = msg[m].attempts + 1,
                                     !.lapsed = FALSE]
                 ELSE msg[m]]
    /\ batch' = [batch EXCEPT ![w] = [m \in Msgs |->
                    IF m \in Claimable THEN msg[m].attempts + 1 ELSE 0]]
    /\ contested' = contested \cup
          {m \in Claimable : \E o \in Workers : sending[o].msg = m /\ sending[o].checked}
    /\ UNCHANGED <<proc, connection, inbound, arrived, sending, faults>>

\* send(): raises if the worker was displaced or is not connected.
CanSend(w) == served = w

\* The request of the SDK: WeCom may have the message although it raises.
Requested(w) ==
    IF CanSend(w)
    THEN {<<"ACCEPTED", TRUE>>, <<"RAISED", TRUE>>, <<"RAISED", FALSE>>}
    ELSE {<<"RAISED", FALSE>>}

Send(w) ==
    /\ sending[w].msg = None
    /\ \E m \in Msgs :
          /\ batch[w][m] # 0
          /\ batch' = [batch EXCEPT ![w][m] = 0]
          /\ \E o \in Requested(w) :
                /\ sending' = [sending EXCEPT ![w] =
                      [msg |-> m, token |-> batch[w][m], result |-> o[1],
                       checked |-> FALSE]]
                /\ arrived' = IF o[2] THEN arrived \cup {m} ELSE arrived
                /\ IF CanSend(w) /\ o[1] = "RAISED" THEN Fault
                   ELSE UNCHANGED faults
    /\ UNCHANGED <<proc, connection, inbound, msg, contested>>

\* A slip in Compare: the token is not compared.
MutantCompare(w) ==
    /\ sending[w].msg # None /\ ~sending[w].checked
    /\ sending' = [sending EXCEPT ![w].checked = TRUE]
    /\ UNCHANGED <<proc, connection, inbound, msg, arrived, batch, contested, faults>>

\* _succeeded and _failed read the row, without locking it, and return if it has
\* another token.
Compare(w) ==
    /\ sending[w].msg # None /\ ~sending[w].checked
    /\ sending' = [sending EXCEPT ![w] =
          IF msg[@.msg].token = @.token THEN [@ EXCEPT !.checked = TRUE]
          ELSE NotSending]
    /\ UNCHANGED <<proc, connection, inbound, msg, arrived, batch, contested, faults>>

Free(m) == [msg[m] EXCEPT !.token = 0, !.lapsed = FALSE]

\* A slip in Written: every column is written as it was read, changed or not.
MutantWritten(m, token, result) ==
    IF result = "ACCEPTED" THEN [Free(m) EXCEPT !.status = "SENT"]
    ELSE IF token > Retries THEN [Free(m) EXCEPT !.status = "FAILED"]
    ELSE [Free(m) EXCEPT !.due = FALSE, !.status = "PENDING"]

\* The columns that change are written over whatever is there now; a failure
\* that is to be retried leaves the status alone.
Written(m, token, result) ==
    IF result = "ACCEPTED" THEN [Free(m) EXCEPT !.status = "SENT"]
    ELSE IF token > Retries THEN [Free(m) EXCEPT !.status = "FAILED"]
    ELSE [Free(m) EXCEPT !.due = FALSE]

\* The commit.
Write(w) ==
    /\ sending[w].checked
    /\ LET s == sending[w]
       IN msg' = [msg EXCEPT ![s.msg] = Written(s.msg, s.token, s.result)]
    /\ sending' = [sending EXCEPT ![w] = NotSending]
    /\ UNCHANGED <<proc, connection, inbound, arrived, batch, contested, faults>>

\* locked_until passes: after its worker is gone, or while it is slow.
Lapse(m) ==
    /\ msg[m].token # 0 /\ ~msg[m].lapsed
    /\ IF \E w \in Workers : InHand(w, m) THEN Fault ELSE UNCHANGED faults
    /\ msg' = [msg EXCEPT ![m].lapsed = TRUE]
    /\ UNCHANGED <<proc, connection, inbound, arrived, batch, sending, contested>>

\* next_attempt_at comes.
Due(m) ==
    /\ msg[m].status = "PENDING" /\ ~msg[m].due
    /\ msg' = [msg EXCEPT ![m].due = TRUE]
    /\ UNCHANGED <<proc, connection, inbound, arrived, batch, sending, contested, faults>>

-----------------------------------------------------------------------------
Next ==
    \/ \E w \in Workers :
          \/ Begin(w) \/ Crash(w) \/ StartTimesOut(w) \/ Started(w) \/ Stop(w)
          \/ Connect(w) \/ Drop(w) \/ Displaced(w)
          \/ Receive(w) \/ Handled(w)
          \/ Claim(w) \/ Send(w) \/ Compare(w) \/ Write(w)
    \/ \E f \in Frames : OnRawMessage(f) \/ NormalizeAndQueue(f)
    \/ \E m \in Msgs : Lapse(m) \/ Due(m)

\* The supervisor restarts what has failed; somebody starts a worker at all
\* only if they do.  Sockets, handlers and sends come to an end.
Fairness ==
    /\ \A w \in Workers :
          /\ WF_vars(proc[w] = "FAILED" /\ Begin(w))
          /\ WF_vars(Started(w)) /\ WF_vars(Stop(w))
          /\ WF_vars(Connect(w)) /\ WF_vars(Displaced(w))
          /\ WF_vars(Receive(w)) /\ WF_vars(Handled(w))
          /\ WF_vars(Claim(w)) /\ WF_vars(Send(w))
          /\ WF_vars(Compare(w)) /\ WF_vars(Write(w))
    /\ \A f \in Frames : WF_vars(NormalizeAndQueue(f))
    /\ \A m \in Msgs : WF_vars(Lapse(m)) /\ WF_vars(Due(m))

Spec == Init /\ [][Next]_vars /\ Fairness

-----------------------------------------------------------------------------
(* Properties.                                                             *)

Running(w) == proc[w] \in {"STARTING", "UP"}

\* Workers that displace each other stop contesting the connection, and one of
\* them keeps it: the others end for good and nobody restarts them, but never
\* all of them end (_on_displaced_by_new_connection, run, restart: on-failure).
ConnectionSettles ==
    <>[](\/ \A w \in Workers : proc[w] = "OFF"
         \/ /\ served # None /\ proc[served] = "UP" /\ served \notin displaced
            /\ \A w \in Workers \ {served} : proc[w] \in {"OFF", "OVER"})

\* A frame a worker was given is handled, even if it cannot be decoded, unless
\* the worker ends; a broken connection alone loses nothing
\* (_normalize_and_queue, events).
FrameEnds ==
    \A f \in Frames : (frame[f].at # "NEW") ~> (frame[f].at \in {"HANDLED", "LOST"})

\* The standalone messages keep the promise of the delivery queue, with one item
\* each, once a worker runs: SENT only if the message arrived, decided once,
\* and always decided, even by workers that take the connection and the
\* claims from each other (deliver_pending, _claim, _succeeded, _failed).  The
\* exception are contested messages: no lock keeps two results of one from being
\* written over each other, so that they are decided, but perhaps not once.
Promise == INSTANCE Outbox WITH
    Deliveries <- Msgs,
    Items <- [m \in Msgs |-> 1],
    outcome <- [m \in Msgs |-> IF m \in contested THEN "PENDING" ELSE msg[m].status],
    arrived <- [m \in Msgs |-> IF m \in arrived THEN {1} ELSE {}]

KeepsPromise ==
    /\ Promise!Safety
    /\ \A m \in Msgs : (\E w \in Workers : Running(w)) ~> (msg[m].status # "PENDING")

\* A decided message is never tried again, contested ones included: whatever is
\* written over a decision is a decision too, SENT only if the message arrived,
\* and a failure to be retried that comes late does not reopen it (_claim,
\* _succeeded, _failed).
DecisionStands ==
    [][\A m \in Msgs : msg[m].status # "PENDING" =>
          /\ msg'[m].status \in {"SENT", "FAILED"}
          /\ msg'[m].attempts = msg[m].attempts
          /\ msg'[m].status = "SENT" => m \in arrived]_vars
=============================================================================
