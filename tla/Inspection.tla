----------------------------- MODULE Inspection -----------------------------
(***************************************************************************)
(* The summaries of open issues sent to the groups of the teams: at the    *)
(* minutes of a schedule by a loop of the worker, and at once for an       *)
(* administrator (inspection/service.py and schedule.py, _inspection_loop  *)
(* of worker.py), resolved to a group by messages/recipients.py and put    *)
(* into the queue of standalone messages by MessagePush.enqueue, while the *)
(* organisation changes (module Organisation).                             *)
(*                                                                         *)
(* A round reads the teams in one transaction.  Then, for one team after   *)
(* the other, it looks up the group, and queues the message in another     *)
(* transaction; both run in a thread, so that everything else goes on.     *)
(*                                                                         *)
(* Abstractions.  What a summary lists is left out; teams come in any      *)
(* order.  A minute is a configured time of one day.  The clock does not   *)
(* go back.  At most one round of an administrator is under way, and       *)
(* messages of such rounds are not told apart by their random keys.        *)
(* A definition named Mutant... is a slip that the one after it avoids.    *)
(***************************************************************************)
EXTENDS Organisation

CONSTANTS
    LastMinute,   \* bound: the minutes are 1..LastMinute
    MaxEvents     \* bound: crashes of the worker, failing transactions and
                  \* inspections by hand

ASSUME InspectionConstants ==
    /\ LastMinute \in Nat \ {0}
    /\ MaxEvents \in Nat

(***************************************************************************)
(*   now        the minute;  schedule: the configured ones                 *)
(*   up         the worker runs                                            *)
(*   done       completed_slot of its loop, or 0                           *)
(*   round[p]   the round of process p: where it is, its minute (0 if it   *)
(*              was asked for), the teams to come, the address looked up   *)
(*   queue      the messages, with their idempotency keys <<slot, team>>   *)
(*   steady[m]  history: the teams that could be reached ever since minute *)
(*              m began, until m was completed                             *)
(***************************************************************************)
VARIABLES now, schedule, up, done, round, queue, steady, events

inspVars == <<now, schedule, up, done, round, queue, events>>
vars == <<orgVars, inspVars, steady>>

Minutes == 1..LastMinute
NoRound == [at |-> "idle", slot |-> 0, left |-> {}, team |-> None,
            chat |-> None]
Rounders == {"loop", "web"}
Rounds == [at : {"idle", "looked", "sending", "resolved"}, slot : 0..LastMinute,
           left : SUBSET Teams, team : Teams \cup {None},
           chat : Chats \cup {None}]
Messages == [slot : 0..LastMinute, team : Teams, chat : Chats]

TypeOK ==
    /\ OrgTypeOK
    /\ now \in Minutes
    /\ schedule \subseteq Minutes
    /\ up \in BOOLEAN
    /\ done \in 0..LastMinute
    /\ round \in [Rounders -> Rounds]
    /\ queue \subseteq Messages

\* One active binding, and so one address: the teams _send_summary takes, and
\* those RecipientResolver.resolve still finds.
Reachable(t) == team[t] = "ACTIVE" /\ Cardinality(ActiveChats(t)) = 1
Effective == {t \in Teams : Reachable(t)}

Put(p, r) == round' = [round EXCEPT ![p] = r]

\* A round that has no team left is over; the loop then takes the minute as
\* completed.
Continue(p, r) ==
    /\ Put(p, IF r.left = {} THEN NoRound ELSE r)
    /\ done' = IF p = "loop" /\ r.left = {} THEN r.slot ELSE done

-----------------------------------------------------------------------------
(* The loop of the worker.                                                 *)

ScheduledSlot(m) == IF m \in schedule THEN m ELSE 0

\* daily_times, and whether there is a slot to do.
Look ==
    /\ up /\ round["loop"].at = "idle"
    /\ ScheduledSlot(now) \notin {0, done}
    /\ Put("loop", [NoRound EXCEPT !.at = "looked", !.slot = now])
    /\ UNCHANGED <<done, queue>>

\* A slip in InspectScheduled: a round for nobody does not count.
MutantInspectScheduled ==
    /\ round["loop"].at = "looked"
    /\ LET r == round["loop"]
           left == IF ScheduledSlot(r.slot) # 0 THEN Effective ELSE {}
       IN Put("loop", IF left = {} THEN NoRound
                      ELSE [r EXCEPT !.at = "sending", !.left = left])
    /\ UNCHANGED <<done, queue>>

\* inspect_scheduled looks at the schedule again; without a slot it returns, and
\* the loop takes the minute as completed all the same.
InspectScheduled ==
    /\ round["loop"].at = "looked"
    /\ LET r == round["loop"]
           left == IF ScheduledSlot(r.slot) # 0 THEN Effective ELSE {}
       IN Continue("loop", [r EXCEPT !.at = "sending", !.left = left])
    /\ UNCHANGED queue

-----------------------------------------------------------------------------
(* _send_to_recipient.                                                     *)

\* resolve; a team that cannot be reached any more is counted and left out.
Resolve(p) ==
    /\ round[p].at = "sending"
    /\ \E t \in round[p].left :
          IF Reachable(t)
          THEN /\ \E c \in ActiveChats(t) :
                     Put(p, [round[p] EXCEPT !.at = "resolved", !.team = t,
                                             !.chat = c])
               /\ UNCHANGED done
          ELSE Continue(p, [round[p] EXCEPT !.left = @ \ {t}])
    /\ UNCHANGED queue

Queued(slot, t) == \E q \in queue : q.slot = slot /\ q.team = t /\ slot # 0

\* A slip in Enqueue: every round has keys of its own.
MutantEnqueue(p) ==
    /\ round[p].at = "resolved"
    /\ LET r == round[p]
       IN /\ queue' = queue \cup {[slot |-> r.slot, team |-> r.team, chat |-> r.chat]}
          /\ Continue(p, [r EXCEPT !.at = "sending", !.left = @ \ {r.team},
                                   !.team = None, !.chat = None])

\* receive_inspection and MessagePush.enqueue: nothing new under a key that is
\* there.
Enqueue(p) ==
    /\ round[p].at = "resolved"
    /\ LET r == round[p]
       IN /\ queue' = IF Queued(r.slot, r.team) THEN queue
                      ELSE queue \cup {[slot |-> r.slot, team |-> r.team,
                                        chat |-> r.chat]}
          /\ Continue(p, [r EXCEPT !.at = "sending", !.left = @ \ {r.team},
                                   !.team = None, !.chat = None])

\* A transaction raises: the loop logs it and looks again after a second, a
\* request ends with an error.
RoundFails(p) ==
    /\ round[p].at # "idle"
    /\ events < MaxEvents
    /\ events' = events + 1
    /\ Put(p, NoRound)
    /\ UNCHANGED <<now, schedule, up, done, queue>>

LoopStep ==
    /\ Look \/ InspectScheduled \/ Resolve("loop") \/ Enqueue("loop")
    /\ UNCHANGED <<now, schedule, up, events>>

-----------------------------------------------------------------------------
(* An inspection by hand.                                                  *)

\* access_for_actor and the choice of kinds: a global administrator selects the
\* teams by their kinds, a team's administrator gets the teams he administers.
Scopes(u) ==
    IF user[u] # "ACTIVE" THEN {}
    ELSE IF u \in admins
    THEN {{t \in Teams : KindOf[t] \in kinds} :
            kinds \in SUBSET {"DEV", "CONSULT_QUEUE"} \ {{}}}
    ELSE {{t \in Teams : team[t] = "ACTIVE" /\ member[t][u] = "ADMIN"}} \ {{}}

\* inspect up to the reading of the teams.
Inspect(u) ==
    /\ WebFree
    /\ round["web"].at = "idle"
    /\ events < MaxEvents
    /\ events' = events + 1
    /\ \E scope \in Scopes(u) :
          Continue("web", [NoRound EXCEPT !.at = "sending",
                                          !.left = scope \cap Effective])
    /\ UNCHANGED <<now, schedule, up, queue>>

WebRound ==
    /\ Resolve("web") \/ Enqueue("web")
    /\ UNCHANGED <<now, schedule, up, events>>

-----------------------------------------------------------------------------
(* The schedule, the clock and the processes.                              *)

UpdateSchedule(m) ==
    /\ ByAdmin
    /\ Edit
    /\ \/ m \in schedule /\ schedule # {m} /\ schedule' = schedule \ {m}
       \/ m \notin schedule /\ schedule' = schedule \cup {m}
    /\ UNCHANGED <<people, team, member, chat, binding>>
    /\ UNCHANGED <<now, up, done, round, queue, events>>

Tick ==
    /\ now < LastMinute
    /\ now' = now + 1
    /\ UNCHANGED <<schedule, up, done, round, queue, events>>

CrashWorker ==
    /\ up
    /\ events < MaxEvents
    /\ events' = events + 1
    /\ up' = FALSE
    /\ done' = 0
    /\ Put("loop", NoRound)
    /\ bind' = [bind EXCEPT !["worker"] = NoBinding]
    /\ UNCHANGED <<people, team, member, chat, torn, counts>>
    /\ UNCHANGED <<now, schedule, queue>>

StartWorker ==
    /\ ~up
    /\ up' = TRUE
    /\ UNCHANGED <<now, schedule, done, round, queue, events>>

Init ==
    /\ OrgIdle
    /\ \/ FreshOrganisation
       \/ ConfiguredOrganisation
    /\ now = 1 /\ schedule = {1}
    /\ up = TRUE /\ done = 0
    /\ round = [p \in Rounders |-> NoRound]
    /\ queue = {}
    /\ events = 0
    /\ steady = [m \in Minutes |-> Teams]

\* The history: a team leaves it once it cannot be reached, or all once the
\* minute is taken from the schedule.
Watch ==
    steady' = [m \in Minutes |->
                 IF m > now' \/ done = m THEN steady[m]
                 ELSE IF m \notin schedule' THEN {}
                 ELSE steady[m] \cap Effective']

\* Only a worker that runs binds a group.
Organise ==
    /\ OrgNext
    /\ bind'["worker"].on => up
    /\ UNCHANGED inspVars
    /\ Watch

Restart ==
    /\ RestartWeb
    /\ Put("web", NoRound)
    /\ UNCHANGED <<now, schedule, up, done, queue, events>>
    /\ Watch

Loop == LoopStep /\ UNCHANGED orgVars /\ Watch
Start == StartWorker /\ UNCHANGED orgVars /\ Watch

Next ==
    \/ Organise \/ Restart \/ Loop \/ Start
    \/ WebRound /\ UNCHANGED orgVars /\ Watch
    \/ \E u \in Users : Inspect(u) /\ UNCHANGED orgVars /\ Watch
    \/ \E p \in Rounders : RoundFails(p) /\ UNCHANGED orgVars /\ Watch
    \/ \E m \in Minutes : UpdateSchedule(m) /\ Watch
    \/ Tick /\ UNCHANGED orgVars /\ Watch
    \/ CrashWorker /\ Watch

\* The loop survives what a round raises, and the worker is started again.
Spec == Init /\ [][Next]_vars /\ WF_vars(Loop) /\ WF_vars(Start)

-----------------------------------------------------------------------------
(* Properties.                                                             *)

\* Once the loop has taken a minute as completed, every team that could be
\* reached throughout has its summary; and no team ever has two of one minute,
\* although failures and crashes make the loop repeat rounds that had queued
\* some of theirs (_inspection_loop, the keys of inspect_scheduled).
ToldOnce ==
    \A m \in Minutes, t \in Teams :
        LET told == Cardinality({q \in queue : q.slot = m /\ q.team = t})
        IN told <= 1 /\ (done = m /\ t \in steady[m] => told = 1)

\* A queued summary lies with the group of another team only if its own team
\* was deleted: the group is looked up before the message is queued, and
\* rebinding it, before that or after, never gives it away.  A deletion does,
\* and the queue does not follow it (resolve, bind_team_chat, delete_team).
OwnGroup ==
    \A q \in queue :
        team[q.team] # "GONE" => chat[q.chat].team = q.team

\* A minute of the schedule in which the worker runs is completed, whatever
\* failed on the way, unless it is over or taken from the schedule before
\* (_inspection_loop tries again after a second).
Served ==
    \A m \in Minutes :
        (now = m /\ m \in schedule) ~> (done = m \/ now # m \/ m \notin schedule)
=============================================================================
