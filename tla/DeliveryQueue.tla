---------------------------- MODULE DeliveryQueue ----------------------------
(***************************************************************************)
(* The leased delivery queue: claim_pending_deliveries and the two result  *)
(* commands of case_desk/service.py, driven by relay/delivery.py's         *)
(* DeliveryWorker in one or more bot-worker processes.                     *)
(*                                                                         *)
(* A worker claims a batch of bundles in one transaction (token and a 60   *)
(* second lease on each row), then sends their items one at a time over    *)
(* the WeCom connection, recording each result in a transaction of its     *)
(* own.  The lease is never renewed, so a slow batch outlives it; a result *)
(* whose token is no longer the row's raises Conflict, which nothing       *)
(* catches, and the process dies and is restarted by its supervisor.       *)
(*                                                                         *)
(* Abstractions.  A claim's token (uuid4) is the claiming worker: a worker *)
(* holds one batch at a time and claims again only when it is empty, so a  *)
(* token names one live batch.  Of the clock only two facts per row are    *)
(* kept: whether next_attempt_at has come (due) and whether locked_until   *)
(* is still ahead (locked).  A batch's bundles are taken in any order.     *)
(* A definition named Mutant... is a slip that the one after it avoids.    *)
(***************************************************************************)
EXTENDS Naturals, FiniteSets

CONSTANTS
    Deliveries,    \* the bundles in the queue
    Items,         \* Items[d]: the number of items of bundle d
    Workers,       \* the bot-worker processes
    NoWorker,      \* the null lock_token
    NoDelivery,    \* no bundle in hand
    MaxAttempts,   \* len(RETRY_DELAYS)
    BatchLimit,    \* the limit of deliver_pending
    MaxCrashes,    \* bound: crashes of worker processes
    MaxOverruns    \* bound: leases that run out under a worker still sending

ASSUME DeliveryQueueConstants ==
    /\ Items \in [Deliveries -> Nat \ {0}]
    /\ NoWorker \notin Workers
    /\ NoDelivery \notin Deliveries
    /\ MaxAttempts \in Nat \ {0}
    /\ BatchLimit \in Nat \ {0}
    /\ MaxCrashes \in Nat
    /\ MaxOverruns \in Nat

(***************************************************************************)
(* The rows:                                                               *)
(*   status[d], attempts[d]       the delivery's outcome, failed attempts  *)
(*   due[d]                       next_attempt_at <= now                   *)
(*   token[d], locked[d]          lock_token; locked_until still ahead     *)
(*   itemSent[d], itemFailed[d]   positions whose item is SENT or FAILED   *)
(* A worker process, lost when it dies:                                    *)
(*   todo[w][d]                   positions of its claim on d still to do  *)
(*   cur[w], pc[w]                the bundle in hand and what its send did *)
(* The world:                                                              *)
(*   arrived[d]                   positions that reached the address       *)
(*   crashes, overruns            how often the environment has interfered *)
(***************************************************************************)
VARIABLES status, attempts, due, token, locked, itemSent, itemFailed,
          todo, cur, pc, arrived, crashes, overruns

lease == <<due, token, locked>>
result == <<status, attempts, itemSent, itemFailed>>
process == <<todo, cur, pc>>
bounds == <<crashes, overruns>>
vars == <<status, attempts, due, token, locked, itemSent, itemFailed,
          todo, cur, pc, arrived, crashes, overruns>>

Positions(d) == 1..Items[d]
NothingToDo == [d \in Deliveries |-> {}]
Holds(w, d) == todo[w][d] # {}

TypeOK ==
    /\ status \in [Deliveries -> {"PENDING", "SENT", "FAILED"}]
    /\ attempts \in [Deliveries -> 0..MaxAttempts]
    /\ due \in [Deliveries -> BOOLEAN]
    /\ token \in [Deliveries -> Workers \cup {NoWorker}]
    /\ locked \in [Deliveries -> BOOLEAN]
    /\ itemSent \in [Deliveries -> SUBSET Nat]
    /\ itemFailed \in [Deliveries -> SUBSET Nat]
    /\ todo \in [Workers -> [Deliveries -> SUBSET Nat]]
    /\ cur \in [Workers -> Deliveries \cup {NoDelivery}]
    /\ pc \in [Workers -> {"ready", "accepted", "raised"}]
    /\ arrived \in [Deliveries -> SUBSET Nat]
    /\ crashes \in 0..MaxCrashes
    /\ overruns \in 0..MaxOverruns

\* Every bundle has just been created, as after an outage of the workers.
Init ==
    /\ status = [d \in Deliveries |-> "PENDING"]
    /\ attempts = [d \in Deliveries |-> 0]
    /\ due = [d \in Deliveries |-> TRUE]
    /\ token = [d \in Deliveries |-> NoWorker]
    /\ locked = [d \in Deliveries |-> FALSE]
    /\ itemSent = [d \in Deliveries |-> {}]
    /\ itemFailed = [d \in Deliveries |-> {}]
    /\ todo = [w \in Workers |-> NothingToDo]
    /\ cur = [w \in Workers |-> NoDelivery]
    /\ pc = [w \in Workers |-> "ready"]
    /\ arrived = [d \in Deliveries |-> {}]
    /\ crashes = 0
    /\ overruns = 0

-----------------------------------------------------------------------------
(* Claiming: one transaction over the selected rows.                       *)

Claimable == {d \in Deliveries : status[d] = "PENDING" /\ due[d] /\ ~locked[d]}

\* The items a claim takes along: those still PENDING, by position.
MutantPendingItems(d) == Positions(d)
PendingItems(d) == Positions(d) \ (itemSent[d] \cup itemFailed[d])

\* S is as much of the claimable rows as the batch limit allows.
Batch(S) ==
    /\ S # {}
    /\ \/ S = Claimable /\ Cardinality(S) <= BatchLimit
       \/ Cardinality(S) = BatchLimit

Claim(w) ==
    /\ pc[w] = "ready"
    /\ todo[w] = NothingToDo
    /\ \E S \in SUBSET Claimable :
        /\ Batch(S)
        /\ token' = [d \in Deliveries |-> IF d \in S THEN w ELSE token[d]]
        /\ locked' = [d \in Deliveries |-> d \in S \/ locked[d]]
        /\ todo' = [todo EXCEPT ![w] =
                [d \in Deliveries |-> IF d \in S THEN PendingItems(d) ELSE {}]]
    /\ UNCHANGED <<result, due, cur, pc, arrived, bounds>>

-----------------------------------------------------------------------------
(* Sending the items of one bundle, in order.                              *)

\* Item i of bundle d is the worker's next: it finishes the bundle in hand
\* before another, and takes its items by position.
IsNext(w, d, i) ==
    /\ cur[w] \in {d, NoDelivery}
    /\ i \in todo[w][d]
    /\ \A j \in todo[w][d] : i <= j

\* The send returns, or raises; when it raises (no acknowledgement in time,
\* a dropped connection) the message may have arrived all the same.
Send(w, d, i) ==
    /\ pc[w] = "ready"
    /\ IsNext(w, d, i)
    /\ cur' = [cur EXCEPT ![w] = d]
    /\ \/ /\ pc' = [pc EXCEPT ![w] = "accepted"]
          /\ arrived' = [arrived EXCEPT ![d] = @ \cup {i}]
       \/ /\ pc' = [pc EXCEPT ![w] = "raised"]
          /\ arrived' \in {arrived, [arrived EXCEPT ![d] = @ \cup {i}]}
    /\ UNCHANGED <<lease, result, todo, bounds>>

-----------------------------------------------------------------------------
(* Recording the result.                                                   *)

\* _assert_delivery_lease: a SENT delivery accepts any late result.
LeaseLost(w, d) == status[d] # "SENT" /\ token[d] # w

\* The result commands return early on an item that is already SENT.
MutantNeverSent(d, i) == FALSE
AlreadySent(d, i) == i \in itemSent[d]

\* A result that raises Conflict: a lost lease, or a success reported for a
\* bundle that has failed for good.
Conflicts(w, d, i) ==
    \/ LeaseLost(w, d)
    \/ /\ pc[w] = "accepted"
       /\ ~AlreadySent(d, i)
       /\ i \in itemFailed[d] \/ status[d] = "FAILED"

\* The bundle is exhausted once its failures reach the number of delays.
MutantExhausted(n) == n > MaxAttempts
Exhausted(n) == n >= MaxAttempts

\* Nothing is left to send once item i is.
MutantIsLast(d, i) == TRUE
IsLast(d, i) == Positions(d) \subseteq itemSent[d] \cup {i}

\* Dropping item i leaves the worker in its bundle, or done with it.
Advance(w, d, i) ==
    /\ todo' = [todo EXCEPT ![w][d] = @ \ {i}]
    /\ cur' = [cur EXCEPT ![w] = IF todo[w][d] = {i} THEN NoDelivery ELSE d]
    /\ pc' = [pc EXCEPT ![w] = "ready"]

\* A failed item ends the bundle for this worker.
GiveUpBundle(w, d) ==
    /\ todo' = [todo EXCEPT ![w][d] = {}]
    /\ cur' = [cur EXCEPT ![w] = NoDelivery]
    /\ pc' = [pc EXCEPT ![w] = "ready"]

\* The process dies with its claims; the rows keep their token and lease.
Die(w) ==
    /\ todo' = [todo EXCEPT ![w] = NothingToDo]
    /\ cur' = [cur EXCEPT ![w] = NoDelivery]
    /\ pc' = [pc EXCEPT ![w] = "ready"]

WriteSent(d, i) ==
    /\ itemSent' = [itemSent EXCEPT ![d] = @ \cup {i}]
    /\ IF IsLast(d, i)
       THEN /\ status' = [status EXCEPT ![d] = "SENT"]
            /\ token' = [token EXCEPT ![d] = NoWorker]
            /\ locked' = [locked EXCEPT ![d] = FALSE]
       ELSE UNCHANGED <<status, token, locked>>
    /\ UNCHANGED <<attempts, due, itemFailed>>

WriteFailed(d, i) ==
    /\ attempts' = [attempts EXCEPT ![d] = @ + 1]
    /\ token' = [token EXCEPT ![d] = NoWorker]
    /\ locked' = [locked EXCEPT ![d] = FALSE]
    /\ IF Exhausted(attempts[d] + 1)
       THEN /\ status' = [status EXCEPT ![d] = "FAILED"]
            /\ itemFailed' = [itemFailed EXCEPT ![d] = @ \cup {i}]
            /\ UNCHANGED due
       ELSE /\ due' = [due EXCEPT ![d] = FALSE]
            /\ UNCHANGED <<status, itemFailed>>
    /\ UNCHANGED itemSent

RecordSuccess(w, d, i) ==
    /\ pc[w] = "accepted"
    /\ IsNext(w, d, i)
    /\ cur[w] = d
    /\ ~Conflicts(w, d, i)
    /\ IF AlreadySent(d, i)
       THEN UNCHANGED <<lease, result>>
       ELSE WriteSent(d, i)
    /\ Advance(w, d, i)
    /\ UNCHANGED <<arrived, bounds>>

RecordFailure(w, d, i) ==
    /\ pc[w] = "raised"
    /\ IsNext(w, d, i)
    /\ cur[w] = d
    /\ ~Conflicts(w, d, i)
    /\ IF AlreadySent(d, i) \/ status[d] = "FAILED"
       THEN UNCHANGED <<lease, result>>
       ELSE WriteFailed(d, i)
    /\ GiveUpBundle(w, d)
    /\ UNCHANGED <<arrived, bounds>>

\* Conflict: the result is not written and the process goes down.
RecordRefused(w, d, i) ==
    /\ pc[w] \in {"accepted", "raised"}
    /\ IsNext(w, d, i)
    /\ cur[w] = d
    /\ Conflicts(w, d, i)
    /\ Die(w)
    /\ UNCHANGED <<lease, result, arrived, bounds>>

-----------------------------------------------------------------------------
(* The environment.                                                        *)

Crash(w) ==
    /\ crashes < MaxCrashes
    /\ ~(pc[w] = "ready" /\ todo[w] = NothingToDo)
    /\ crashes' = crashes + 1
    /\ Die(w)
    /\ UNCHANGED <<lease, result, arrived, overruns>>

\* The lease of a bundle nobody is working on any more runs out.
LeaseExpires(d) ==
    /\ locked[d]
    /\ \A w \in Workers : token[d] = w => ~Holds(w, d)
    /\ locked' = [locked EXCEPT ![d] = FALSE]
    /\ UNCHANGED <<due, token, result, process, arrived, bounds>>

\* The lease runs out while its holder is still on the batch.
LeaseOverrun(d) ==
    /\ overruns < MaxOverruns
    /\ locked[d]
    /\ \E w \in Workers : token[d] = w /\ Holds(w, d)
    /\ locked' = [locked EXCEPT ![d] = FALSE]
    /\ overruns' = overruns + 1
    /\ UNCHANGED <<due, token, result, process, arrived, crashes>>

RetryDue(d) ==
    /\ ~due[d]
    /\ due' = [due EXCEPT ![d] = TRUE]
    /\ UNCHANGED <<token, locked, result, process, arrived, bounds>>

-----------------------------------------------------------------------------

WorkerStep(w) ==
    \/ Claim(w)
    \/ \E d \in Deliveries : \E i \in Positions(d) :
        \/ Send(w, d, i)
        \/ RecordSuccess(w, d, i)
        \/ RecordFailure(w, d, i)
        \/ RecordRefused(w, d, i)

Next ==
    \/ \E w \in Workers : WorkerStep(w) \/ Crash(w)
    \/ \E d \in Deliveries : LeaseExpires(d) \/ LeaseOverrun(d) \/ RetryDue(d)

Safety == Init /\ [][Next]_vars

(***************************************************************************)
(* The loops run for ever and are restarted when they die, and the clock   *)
(* goes on: each worker's own steps and the passing of leases and delays   *)
(* are weakly fair.  Crashes and overruns are not, and are bounded.        *)
(***************************************************************************)
Fairness ==
    /\ \A w \in Workers : WF_vars(WorkerStep(w))
    /\ \A d \in Deliveries : WF_vars(LeaseExpires(d)) /\ WF_vars(RetryDue(d))

Spec == Safety /\ Fairness

-----------------------------------------------------------------------------
(* Properties.                                                             *)

\* A bundle given up for good (relay/delivery.py stops at the first failed
\* item, and the third failed attempt is final) was sent exactly up to the
\* item that failed: there is one such item, and every item before it is
\* SENT and none after it, whatever stale workers did meanwhile.
FailedAtTheGap ==
    \A d \in Deliveries : status[d] = "FAILED" =>
        \E i \in Positions(d) : itemFailed[d] = {i} /\ itemSent[d] = 1..(i - 1)

\* A worker whose lease still stands never has an item on its list that is
\* already recorded as SENT: a retry resumes after the recorded items, and
\* only a worker that lost its lease can repeat one of them.
HolderResendsNothing ==
    \A w \in Workers, d \in Deliveries :
        token[d] = w /\ status[d] = "PENDING" =>
            todo[w][d] \cap itemSent[d] = {}

(***************************************************************************)
(* What FailedAtTheGap and the promise rest on, step by step: the rows     *)
(* agree with each other (RowsAgree), what is recorded has arrived, and in *)
(* order (RecordsArrived), and a worker's list is always the tail of its   *)
(* bundle, everything before it being recorded (ListIsTail), with the item *)
(* a worker is about to record already at the address (AcceptedArrived).   *)
(***************************************************************************)
RowsAgree ==
    \A d \in Deliveries :
        /\ status[d] = "SENT" <=> Positions(d) \subseteq itemSent[d]
        /\ status[d] # "FAILED" => itemFailed[d] = {} /\ attempts[d] < MaxAttempts
        /\ status[d] = "FAILED" => token[d] = NoWorker

RecordsArrived ==
    \A d \in Deliveries :
        /\ arrived[d] \subseteq Positions(d)
        /\ itemSent[d] \subseteq arrived[d]
        /\ \A i, j \in Positions(d) : j < i =>
              /\ i \in itemSent[d] => j \in itemSent[d]
              /\ i \in arrived[d] => j \in arrived[d]

ListIsTail ==
    \A w \in Workers, d \in Deliveries :
        /\ todo[w][d] \subseteq Positions(d)
        /\ \A i \in todo[w][d], j \in Positions(d) :
              /\ j \notin todo[w][d] => j \in itemSent[d]
              /\ i < j => j \in todo[w][d]

AcceptedArrived ==
    \A w \in Workers, d \in Deliveries : \A i \in todo[w][d] :
        pc[w] = "accepted" /\ cur[w] = d /\ IsNext(w, d, i) => i \in arrived[d]

IInv ==
    /\ TypeOK
    /\ RowsAgree
    /\ RecordsArrived
    /\ ListIsTail
    /\ AcceptedArrived
    /\ HolderResendsNothing
    /\ FailedAtTheGap

\* The queue keeps the promise of module Outbox: in order, at least once,
\* decided once, and always decided.
Promised == INSTANCE Outbox WITH outcome <- status
KeepsPromise == Promised!Spec

=============================================================================
