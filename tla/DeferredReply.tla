---------------------------- MODULE DeferredReply ----------------------------
(***************************************************************************)
(* The inbound loop of worker.py with deferred passive replies switched    *)
(* on: Relay.handle (relay/handler.py), the store of callbacks waiting for *)
(* an answer (wecom/deferred_reply.py), and the deliveries the case desk   *)
(* marks as SENT while a passive reply takes their place.                  *)
(*                                                                         *)
(* A message in a group that mentions the robot arrives as a callback.     *)
(* Once recorded, its callback is kept, and the next message of the other  *)
(* side is not pushed into the group but sent as the reply to it.  Such a  *)
(* message is recorded with its delivery already SENT, a placeholder; when *)
(* the reply does not come about the placeholder becomes PENDING again for *)
(* the delivery queue.  Each step is a transaction of its own, and between *)
(* two of them the process may die, an exception may be swallowed, a       *)
(* callback may expire.                                                    *)
(*                                                                         *)
(* Abstractions.  One case, one worker process (USER_GUIDE.md:204), every  *)
(* callback with its req_id.  A pushed delivery gets there (DeliveryQueue  *)
(* and Outbox say how).  A callback row expires, and a claim on it lapses, *)
(* at any time.                                                            *)
(* A definition named Mutant... is a slip that the one after it avoids.    *)
(***************************************************************************)
EXTENDS Naturals, Sequences

CONSTANTS
    Messages,      \* the callbacks, by msgid
    Side,          \* Side[m]: the group m was written in
    Quoting,       \* those that quote a message of the case
    WithImage,     \* those with an image among their parts
    Nothing,       \* no message, no callback
    MaxCrashes,    \* bound: crashes of the worker
    MaxRepeats,    \* bound: callbacks that WeCom delivers again
    MaxFaults      \* bound: transactions that raise

ASSUME DeferredReplyConstants ==
    /\ Side \in [Messages -> {"CONSULT", "DEV"}]
    /\ Quoting \subseteq Messages
    /\ WithImage \subseteq Messages
    /\ Nothing \notin Messages
    /\ {MaxCrashes, MaxRepeats, MaxFaults} \subseteq Nat

(***************************************************************************)
(*   delivery[m]   the delivery of m into the other side's group, NONE     *)
(*                 before the case desk has recorded m                     *)
(*   decided       the messages whose decision is remembered               *)
(*   store         the callbacks kept, oldest first                        *)
(*   up, loop      the worker; what its inbound loop is doing, for which   *)
(*                 message, whether its delivery was suppressed, and the   *)
(*                 callback it has taken                                   *)
(*   arrived[m]    the ways in which m has reached the other group         *)
(*   replies[m]    passive replies attempted for m                         *)
(*   pushes[m]     active pushes of m                                      *)
(*   received      messages WeCom has delivered at least once              *)
(*   stranded      placeholders an exception was swallowed for, until the  *)
(*                 next start                                              *)
(*   unfinalised   those whose reply had been sent when it happened        *)
(***************************************************************************)
VARIABLES delivery, decided, store, up, loop, arrived, replies, pushes,
          received, stranded, unfinalised, crashes, repeats, faults

desk == <<delivery, decided, store>>
history == <<arrived, replies, pushes, stranded, unfinalised>>
bounds == <<received, crashes, repeats, faults>>
vars == <<delivery, decided, store, up, loop, arrived, replies, pushes,
          received, stranded, unfinalised, crashes, repeats, faults>>

Row == [msg : Messages, claim : {"free", "held", "lapsed"}]
Steps == {"idle", "received", "posted", "repeated", "remembered", "saved",
          "unmatched", "taken", "replied", "raised", "settled"}
Loop == [at : Steps, msg : Messages \cup {Nothing}, suppress : BOOLEAN,
         callback : Messages \cup {Nothing}]

Idle == [at |-> "idle", msg |-> Nothing, suppress |-> FALSE, callback |-> Nothing]
At(step) == up /\ loop.at = step
Go(step) == loop' = [loop EXCEPT !.at = step]

TypeOK ==
    /\ delivery \in [Messages -> {"NONE", "PENDING", "PLACEHOLDER", "REPLIED", "PUSHED"}]
    /\ decided \subseteq Messages
    /\ store \in Seq(Row)
    /\ up \in BOOLEAN
    /\ loop \in Loop
    /\ loop.at = "idle" => loop = Idle
    /\ arrived \in [Messages -> SUBSET {"active", "passive"}]
    /\ replies \in [Messages -> Nat]
    /\ pushes \in [Messages -> Nat]
    /\ \A m \in Messages : delivery[m] = "REPLIED" => replies[m] > 0
    /\ received \subseteq Messages
    /\ unfinalised \subseteq Messages
    /\ stranded \subseteq Messages
    /\ crashes \in 0..MaxCrashes
    /\ repeats \in 0..MaxRepeats
    /\ faults \in 0..MaxFaults

Init ==
    /\ delivery = [m \in Messages |-> "NONE"]
    /\ decided = {}
    /\ store = <<>>
    /\ up = TRUE
    /\ loop = Idle
    /\ arrived = [m \in Messages |-> {}]
    /\ replies = [m \in Messages |-> 0]
    /\ pushes = [m \in Messages |-> 0]
    /\ received = {}
    /\ stranded = {}
    /\ unfinalised = {}
    /\ crashes = 0
    /\ repeats = 0
    /\ faults = 0

-----------------------------------------------------------------------------
(* The store.                                                              *)

\* The rows of the store that may answer a message of the other side.
Eligible(m) ==
    {i \in DOMAIN store : /\ store[i].claim # "held"
                          /\ Side[store[i].msg] # Side[m]}

Keyed(m) == {i \in Eligible(m) : store[i].msg \in Quoting}
Unkeyed(m) == Eligible(m) \ Keyed(m)

\* The oldest callback of the case, or else the one callback without a case.
Chosen(m) ==
    {i \in Keyed(m) : \A j \in Keyed(m) : i <= j}
    \cup {i \in Unkeyed(m) : Keyed(m) = {} /\ Unkeyed(m) = {i}}

\* _deferred_delivery_suppression
Suppressed(m) == m \in Quoting /\ m \notin WithImage /\ Chosen(m) # {}

-----------------------------------------------------------------------------
(* One callback, from its arrival to its end.                              *)

Receive(m) ==
    /\ At("idle")
    /\ IF m \in received
       THEN repeats < MaxRepeats /\ repeats' = repeats + 1
       ELSE UNCHANGED repeats
    /\ received' = received \cup {m}
    /\ loop' = [at |-> "received", msg |-> m, suppress |-> Suppressed(m),
                callback |-> Nothing]
    /\ UNCHANGED <<desk, history, up, crashes, faults>>

\* A message the case desk has already recorded (source_msgid).
MutantKnown(m) == FALSE
Known(m) == delivery[m] # "NONE"

\* What a new message's delivery is recorded as.  A placeholder is SENT, and
\* marked as deferred_passive_reply_pending.
MutantRecorded == IF loop.suppress THEN "REPLIED" ELSE "PENDING"
Recorded == IF loop.suppress THEN "PLACEHOLDER" ELSE "PENDING"

\* Relay.handle up to the case desk's transaction.
Handle ==
    /\ At("received")
    /\ LET m == loop.msg IN
        \/ /\ m \in decided
           /\ loop' = Idle
           /\ UNCHANGED delivery
        \/ /\ m \notin decided /\ m \notin Quoting
           /\ Go("posted")
           /\ UNCHANGED delivery
        \/ /\ m \notin decided /\ m \in Quoting /\ Known(m)
           /\ Go("repeated")
           /\ UNCHANGED delivery
        \/ /\ m \notin decided /\ m \in Quoting /\ ~Known(m)
           /\ delivery' = [delivery EXCEPT ![m] = Recorded]
           /\ Go("posted")
    /\ UNCHANGED <<decided, store, history, up, bounds>>

Remember ==
    /\ At("posted") \/ At("repeated")
    /\ decided' = decided \cup {loop.msg}
    /\ IF loop.at = "repeated" THEN loop' = Idle ELSE Go("remembered")
    /\ UNCHANGED <<delivery, store, history, up, bounds>>

\* The exception is logged as relay_failed, and the loop goes on.
RememberFails ==
    /\ faults < MaxFaults
    /\ At("posted") \/ At("repeated")
    /\ faults' = faults + 1
    /\ stranded' = stranded \cup {m \in {loop.msg} : delivery[m] = "PLACEHOLDER"}
    /\ loop' = Idle
    /\ UNCHANGED <<desk, arrived, replies, pushes, unfinalised, up, received, crashes, repeats>>

Save ==
    /\ At("remembered")
    /\ store' = Append(store, [msg |-> loop.msg, claim |-> "free"])
    /\ Go("saved")
    /\ UNCHANGED <<delivery, decided, history, up, bounds>>

\* The row the loop takes is its own until it is acknowledged or lapses.
Claimed(i) == [store EXCEPT ![i].claim = "held"]

Take ==
    /\ At("saved")
    /\ \/ /\ loop.msg \in Quoting
          /\ \E i \in Chosen(loop.msg) :
              /\ store' = Claimed(i)
              /\ loop' = [loop EXCEPT !.at = "taken", !.callback = store[i].msg]
       \/ /\ loop.msg \in Quoting
          /\ Chosen(loop.msg) = {}
          /\ IF loop.suppress THEN Go("unmatched") ELSE loop' = Idle
          /\ UNCHANGED store
       \/ /\ loop.msg \notin Quoting
          /\ loop' = Idle
          /\ UNCHANGED store
    /\ UNCHANGED <<delivery, decided, history, up, bounds>>

\* transport.reply: one that raises may have been sent all the same.
Reply ==
    /\ At("taken")
    /\ replies' = [replies EXCEPT ![loop.msg] = @ + 1]
    /\ \/ /\ Go("replied")
          /\ arrived' = [arrived EXCEPT ![loop.msg] = @ \cup {"passive"}]
       \/ /\ Go("raised")
          /\ arrived' \in {arrived, [arrived EXCEPT ![loop.msg] = @ \cup {"passive"}]}
    /\ UNCHANGED <<desk, pushes, stranded, unfinalised, up, bounds>>

-----------------------------------------------------------------------------
(* Putting the placeholder right.                                          *)

IsPlaceholder(m) == delivery[m] = "PLACEHOLDER"

Finish ==
    /\ At("replied")
    /\ delivery' = [delivery EXCEPT ![loop.msg] =
            IF loop.suppress /\ IsPlaceholder(loop.msg) THEN "REPLIED" ELSE @]
    /\ Go("settled")
    /\ UNCHANGED <<decided, store, history, up, bounds>>

\* The delivery a placeholder becomes when there is no reply.
MutantRestored(m) == delivery[m]
Restored(m) == IF IsPlaceholder(m) THEN "PENDING" ELSE delivery[m]

\* After a failed reply the callback is dropped, and there is none to drop
\* when none was found.
Restore ==
    /\ At("raised") \/ At("unmatched")
    /\ delivery' = [delivery EXCEPT ![loop.msg] =
            IF loop.suppress THEN Restored(loop.msg) ELSE @]
    /\ IF loop.at = "raised" THEN Go("settled") ELSE loop' = Idle
    /\ UNCHANGED <<decided, store, history, up, bounds>>

\* complete_ or restore_deferred_deliveries raises; the exception is logged.
BookkeepingFails ==
    /\ faults < MaxFaults
    /\ At("replied") \/ At("raised") \/ At("unmatched")
    /\ loop.suppress
    /\ faults' = faults + 1
    /\ stranded' = stranded \cup {loop.msg}
    /\ unfinalised' = unfinalised \cup {m \in {loop.msg} : loop.at = "replied"}
    /\ IF loop.at = "unmatched" THEN loop' = Idle ELSE Go("settled")
    /\ UNCHANGED <<desk, arrived, replies, pushes, up, received, crashes, repeats>>

WithoutRow(i) ==
    [j \in 1..(Len(store) - 1) |-> store[IF j < i THEN j ELSE j + 1]]

\* The row the loop took, if it has not expired.
Acknowledge ==
    /\ At("settled")
    /\ LET taken == {i \in DOMAIN store : store[i].msg = loop.callback}
       IN store' \in IF taken = {} THEN {store} ELSE {WithoutRow(i) : i \in taken}
    /\ loop' = Idle
    /\ UNCHANGED <<delivery, decided, history, up, bounds>>

AcknowledgeFails ==
    /\ faults < MaxFaults
    /\ At("settled")
    /\ faults' = faults + 1
    /\ loop' = Idle
    /\ UNCHANGED <<desk, history, up, received, crashes, repeats>>

-----------------------------------------------------------------------------
(* The delivery queue, the clock, and the process.                         *)

Push(m) ==
    /\ up
    /\ delivery[m] = "PENDING"
    /\ delivery' = [delivery EXCEPT ![m] = "PUSHED"]
    /\ arrived' = [arrived EXCEPT ![m] = @ \cup {"active"}]
    /\ pushes' = [pushes EXCEPT ![m] = @ + 1]
    /\ UNCHANGED <<decided, store, replies, stranded, unfinalised, up, loop, bounds>>

CallbackExpires(i) ==
    /\ i \in DOMAIN store
    /\ store' = WithoutRow(i)
    /\ UNCHANGED <<delivery, decided, history, up, loop, bounds>>

ClaimLapses(i) ==
    /\ i \in DOMAIN store
    /\ store[i].claim = "held"
    /\ store' = [store EXCEPT ![i].claim = "lapsed"]
    /\ UNCHANGED <<delivery, decided, history, up, loop, bounds>>

Crash ==
    /\ up
    /\ crashes < MaxCrashes
    /\ crashes' = crashes + 1
    /\ up' = FALSE
    /\ loop' = Idle
    /\ UNCHANGED <<desk, history, received, repeats, faults>>

\* run(): recover_deferred_deliveries before anything else.
MutantRecovered == delivery
Recovered == [m \in Messages |-> IF IsPlaceholder(m) THEN "PENDING" ELSE delivery[m]]

Start ==
    /\ ~up
    /\ up' = TRUE
    /\ delivery' = Recovered
    /\ stranded' = {}
    /\ UNCHANGED <<decided, store, arrived, replies, pushes, unfinalised, loop, bounds>>

-----------------------------------------------------------------------------

LoopStep ==
    Handle \/ Remember \/ Save \/ Take \/ Reply \/ Finish \/ Restore \/ Acknowledge

Fault == RememberFails \/ BookkeepingFails \/ AcknowledgeFails

Next ==
    \/ \E m \in Messages : Receive(m) \/ Push(m)
    \/ LoopStep
    \/ Fault
    \/ \E i \in DOMAIN store : CallbackExpires(i) \/ ClaimLapses(i)
    \/ Crash
    \/ Start

(***************************************************************************)
(* The loop goes on to the end of the callback it is at, the queue pushes, *)
(* and a worker that died is started again by its supervisor.              *)
(***************************************************************************)
Fairness ==
    /\ WF_vars(LoopStep)
    /\ \A m \in Messages : WF_vars(Push(m))
    /\ WF_vars(Start)

Spec == Init /\ [][Next]_vars /\ Fairness

-----------------------------------------------------------------------------
(* Properties.                                                             *)

\* A placeholder claims that its message was sent.  It is never left to
\* itself: the inbound loop still has the message in hand, or the worker is
\* down and the next start will find it, or a swallowed exception stranded
\* it (_release_deferred_callback, recover_deferred_deliveries).
InHand ==
    \A m \in Messages : IsPlaceholder(m) =>
        \/ ~up
        \/ loop.msg = m /\ loop.suppress
        \/ m \in stranded

\* However often WeCom delivers a callback, and wherever a crash fell in
\* its first handling, its message is sent as a reply at most once and
\* pushed at most once, and its callback is kept at most once
\* (_previous_decision, source_msgid).
ActsOnce ==
    \A m \in Messages :
        /\ replies[m] <= 1
        /\ pushes[m] <= 1
        /\ \A i, j \in DOMAIN store : store[i].msg = m /\ store[j].msg = m => i = j

\* A message the case desk has recorded reaches the other group in the end,
\* one way or the other, unless it is stranded: an expired callback, a
\* failed reply or a crash never loses it.
Reaches ==
    \A m \in Messages :
        delivery[m] # "NONE" ~> arrived[m] # {} \/ m \in stranded

\* What the comment in _release_deferred_callback (worker.py:649) says:
\* after a reply that was sent and could not be booked, the message does
\* not go out a second time as an active push.
NoSecondActive == \A m \in unfinalised : "active" \notin arrived[m]

=============================================================================
