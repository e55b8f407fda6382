------------------------ MODULE DeliveryQueueProofs ------------------------
(***************************************************************************)
(* IInv is an inductive invariant of the delivery queue, for any number of *)
(* bundles, items, workers and attempts; the safety part of the promise of *)
(* module Outbox follows from it.                                          *)
(***************************************************************************)
EXTENDS DeliveryQueue, TLAPS

LEMMA InitIInv == Init => IInv
BY DeliveryQueueConstants
   DEF Init, IInv, TypeOK, RowsAgree, RecordsArrived, ListIsTail, AcceptedArrived,
       HolderResendsNothing, FailedAtTheGap, Positions, NothingToDo

\* A step that writes no outcome and moves no list keeps everything but the
\* types, whatever it does to the clock.
LEMMA ClockStep ==
    ASSUME IInv, UNCHANGED <<result, token, process, arrived>>, TypeOK'
    PROVE  IInv'
BY DEF IInv, RowsAgree, RecordsArrived, ListIsTail, AcceptedArrived, IsNext,
       HolderResendsNothing, FailedAtTheGap, result, process

LEMMA ClaimStep ==
    ASSUME IInv, NEW w \in Workers, Claim(w)
    PROVE  IInv'
<1>1. PICK S \in SUBSET Claimable :
        /\ token' = [d \in Deliveries |-> IF d \in S THEN w ELSE token[d]]
        /\ locked' = [d \in Deliveries |-> d \in S \/ locked[d]]
        /\ todo' = [todo EXCEPT ![w] =
                [d \in Deliveries |-> IF d \in S THEN PendingItems(d) ELSE {}]]
  BY DEF Claim
<1>2. UNCHANGED <<status, attempts, itemSent, itemFailed, due, cur, pc, arrived,
                  crashes, overruns>>
  BY DEF Claim, result, bounds
<1>3. pc[w] = "ready"
  BY DEF Claim
<1>4. TypeOK'
  BY <1>1, <1>2, DeliveryQueueConstants
     DEF IInv, TypeOK, PendingItems, Positions, Claimable
<1>5. \A d \in S : status[d] = "PENDING" /\ itemFailed[d] = {}
  BY <1>1 DEF IInv, RowsAgree, Claimable
<1>6. RowsAgree'
  BY <1>1, <1>2, <1>5 DEF IInv, RowsAgree, TypeOK, Positions
<1>7. RecordsArrived'
  BY <1>2 DEF IInv, RecordsArrived, Positions
<1>8. \A v \in Workers, d \in Deliveries :
        todo'[v][d] = IF v # w THEN todo[v][d]
                      ELSE IF d \in S THEN Positions(d) \ itemSent[d] ELSE {}
  BY <1>1, <1>5 DEF IInv, TypeOK, PendingItems
<1>9. ListIsTail'
  <2> SUFFICES ASSUME NEW v \in Workers, NEW d \in Deliveries
               PROVE  /\ todo'[v][d] \subseteq Positions(d)
                      /\ \A i \in todo'[v][d], j \in Positions(d) :
                            /\ j \notin todo'[v][d] => j \in itemSent[d]
                            /\ i < j => j \in todo'[v][d]
    BY <1>2 DEF ListIsTail, Positions
  <2>1. CASE v # w
    BY <2>1, <1>8 DEF IInv, ListIsTail
  <2>2. CASE v = w
    <3>1. \A i, j \in Positions(d) : j < i /\ i \in itemSent[d] => j \in itemSent[d]
      BY DEF IInv, RecordsArrived
    <3> QED
      BY <2>2, <3>1, <1>8
  <2> QED BY <2>1, <2>2
<1>10. AcceptedArrived'
  BY <1>1, <1>2, <1>3, <1>8 DEF IInv, AcceptedArrived, IsNext
<1>11. HolderResendsNothing'
  BY <1>1, <1>2, <1>8 DEF IInv, HolderResendsNothing, TypeOK
<1>12. FailedAtTheGap'
  BY <1>2 DEF IInv, FailedAtTheGap, Positions
<1> QED
  BY <1>4, <1>6, <1>7, <1>9, <1>10, <1>11, <1>12 DEF IInv

\* Everything before the item in hand has been recorded, and so has arrived.
LEMMA BeforeNext ==
    ASSUME IInv, NEW w \in Workers, NEW d \in Deliveries, NEW i \in Positions(d),
           IsNext(w, d, i)
    PROVE  \A j \in Positions(d) : j < i => j \in itemSent[d] /\ j \in arrived[d]
<1>1. \A j \in Positions(d) : j < i => j \notin todo[w][d]
  BY DEF IsNext, Positions
<1>2. \A j \in Positions(d) : j < i => j \in itemSent[d]
  BY <1>1 DEF IInv, ListIsTail, IsNext
<1> QED
  BY <1>2 DEF IInv, RecordsArrived

LEMMA SendStep ==
    ASSUME IInv, NEW w \in Workers, NEW d \in Deliveries, NEW i \in Positions(d),
           Send(w, d, i)
    PROVE  IInv'
<1>1. /\ UNCHANGED <<status, attempts, itemSent, itemFailed, due, token, locked,
                     todo, crashes, overruns>>
      /\ IsNext(w, d, i)
      /\ cur' = [cur EXCEPT ![w] = d]
      /\ \/ /\ pc' = [pc EXCEPT ![w] = "accepted"]
            /\ arrived' = [arrived EXCEPT ![d] = @ \cup {i}]
         \/ /\ pc' = [pc EXCEPT ![w] = "raised"]
            /\ arrived' \in {arrived, [arrived EXCEPT ![d] = @ \cup {i}]}
  BY DEF Send, lease, result, bounds
<1>2. /\ cur' \in [Workers -> Deliveries \cup {NoDelivery}]
      /\ pc' \in [Workers -> {"ready", "accepted", "raised"}]
      /\ arrived' \in [Deliveries -> SUBSET Nat]
      /\ \A e \in Deliveries : arrived[e] \subseteq arrived'[e]
      /\ \A e \in Deliveries : arrived'[e] \subseteq
            IF e = d THEN arrived[e] \cup {i} ELSE arrived[e]
  <2>1. i \in Nat
    BY DeliveryQueueConstants DEF Positions
  <2>2. /\ cur \in [Workers -> Deliveries \cup {NoDelivery}]
        /\ pc \in [Workers -> {"ready", "accepted", "raised"}]
        /\ arrived \in [Deliveries -> SUBSET Nat]
    BY DEF IInv, TypeOK
  <2>3. \/ arrived' = arrived
        \/ arrived' = [arrived EXCEPT ![d] = @ \cup {i}]
    BY <1>1
  <2>4. /\ cur' \in [Workers -> Deliveries \cup {NoDelivery}]
        /\ pc' \in [Workers -> {"ready", "accepted", "raised"}]
    BY <1>1, <2>2
  <2>5. CASE arrived' = arrived
    BY <2>2, <2>4, <2>5
  <2>6. CASE arrived' = [arrived EXCEPT ![d] = @ \cup {i}]
    BY <2>1, <2>2, <2>4, <2>6
  <2> QED
    BY <2>3, <2>5, <2>6
<1>3. TypeOK'
  BY <1>1, <1>2 DEF IInv, TypeOK
<1>4. RowsAgree' /\ ListIsTail' /\ HolderResendsNothing' /\ FailedAtTheGap'
  BY <1>1 DEF IInv, RowsAgree, ListIsTail, HolderResendsNothing, FailedAtTheGap,
              Positions
<1>5. RecordsArrived'
  <2>1. \A j \in Positions(d) : j < i => j \in arrived[d]
    BY <1>1, BeforeNext
  <2>2. \A e \in Deliveries : \A k, j \in Positions(e) :
          j < k /\ k \in arrived'[e] => j \in arrived'[e]
    BY <2>1, <1>2 DEF IInv, RecordsArrived
  <2> QED
    BY <1>1, <1>2, <2>2 DEF IInv, RecordsArrived, Positions
<1>6. AcceptedArrived'
  <2> SUFFICES ASSUME NEW v \in Workers, NEW e \in Deliveries,
                      NEW k \in todo[v][e],
                      pc'[v] = "accepted", cur'[v] = e, IsNext(v, e, k)'
               PROVE  k \in arrived'[e]
    BY <1>1 DEF AcceptedArrived
  <2>1. CASE v = w
    <3>1. e = d /\ i \in arrived'[d]
      BY <2>1, <1>1 DEF IInv, TypeOK
    <3>2. k = i
      BY <2>1, <3>1, <1>1 DEF IsNext, IInv, ListIsTail, Positions
    <3> QED BY <3>1, <3>2
  <2>2. CASE v # w
    <3>1. pc[v] = "accepted" /\ cur[v] = e /\ IsNext(v, e, k)
      BY <2>2, <1>1 DEF IInv, TypeOK, IsNext
    <3> QED
      BY <3>1, <1>2 DEF IInv, AcceptedArrived
  <2> QED BY <2>1, <2>2
<1> QED
  BY <1>3, <1>4, <1>5, <1>6 DEF IInv

\* A worker's list loses its first item, or empties, and the worker is ready
\* for the next: what is left is still a tail of recorded bundles.
LEMMA ListShrinks ==
    ASSUME IInv, NEW w \in Workers,
           todo' \in [Workers -> [Deliveries -> SUBSET Nat]],
           \A v \in Workers, e \in Deliveries : v # w => todo'[v][e] = todo[v][e],
           \A e \in Deliveries :
               \/ todo'[w][e] \in {{}, todo[w][e]}
               \/ \E i \in Positions(e) : /\ IsNext(w, e, i)
                                          /\ todo'[w][e] = todo[w][e] \ {i}
                                          /\ i \in itemSent'[e],
           \A e \in Deliveries : itemSent[e] \subseteq itemSent'[e]
    PROVE  ListIsTail'
<1> SUFFICES ASSUME NEW v \in Workers, NEW e \in Deliveries
             PROVE  /\ todo'[v][e] \subseteq Positions(e)
                    /\ \A i \in todo'[v][e], j \in Positions(e) :
                          /\ j \notin todo'[v][e] => j \in itemSent'[e]
                          /\ i < j => j \in todo'[v][e]
  BY DEF ListIsTail, Positions
<1>1. /\ todo[v][e] \subseteq Positions(e)
      /\ \A i \in todo[v][e], j \in Positions(e) :
            /\ j \notin todo[v][e] => j \in itemSent'[e]
            /\ i < j => j \in todo[v][e]
  BY DEF IInv, ListIsTail
<1>2. CASE todo'[v][e] \in {{}, todo[v][e]}
  BY <1>1, <1>2
<1>3. CASE \E i \in Positions(e) : /\ IsNext(v, e, i)
                                   /\ todo'[v][e] = todo[v][e] \ {i}
                                   /\ i \in itemSent'[e]
  <2> PICK i \in Positions(e) : /\ IsNext(v, e, i)
                                /\ todo'[v][e] = todo[v][e] \ {i}
                                /\ i \in itemSent'[e]
    BY <1>3
  <2>1. \A k \in todo'[v][e] : i < k /\ k \in todo[v][e]
    BY <1>1 DEF IsNext, Positions
  <2> QED
    BY <1>1, <2>1 DEF Positions
<1> QED
  BY <1>2, <1>3

LEMMA DieStep ==
    ASSUME IInv, NEW w \in Workers, Die(w), UNCHANGED <<lease, result, arrived>>,
           crashes' \in 0..MaxCrashes, UNCHANGED overruns
    PROVE  IInv'
<1>1. /\ UNCHANGED <<status, attempts, itemSent, itemFailed, due, token, locked, arrived>>
      /\ todo' = [todo EXCEPT ![w] = NothingToDo]
      /\ cur' = [cur EXCEPT ![w] = NoDelivery]
      /\ pc' = [pc EXCEPT ![w] = "ready"]
  BY DEF Die, lease, result
<1>2. TypeOK'
  BY <1>1 DEF IInv, TypeOK, NothingToDo
<1>3. /\ \A e \in Deliveries : todo'[w][e] = {}
      /\ \A v \in Workers : v # w => todo'[v] = todo[v] /\ cur'[v] = cur[v] /\ pc'[v] = pc[v]
  BY <1>1 DEF IInv, TypeOK, NothingToDo
<1>4. RowsAgree' /\ RecordsArrived' /\ FailedAtTheGap'
  BY <1>1 DEF IInv, RowsAgree, RecordsArrived, FailedAtTheGap, Positions
<1>5. ListIsTail'
  BY <1>1, <1>2, <1>3, ListShrinks DEF TypeOK
<1>6. AcceptedArrived'
  BY <1>1, <1>3 DEF IInv, AcceptedArrived, IsNext
<1>7. HolderResendsNothing'
  BY <1>1, <1>3 DEF IInv, HolderResendsNothing
<1> QED
  BY <1>2, <1>4, <1>5, <1>6, <1>7 DEF IInv

\* What the holder of a standing lease records is still PENDING.
LEMMA HolderRecordsPending ==
    ASSUME IInv, NEW w \in Workers, NEW d \in Deliveries, NEW i \in Positions(d),
           IsNext(w, d, i), ~LeaseLost(w, d), ~AlreadySent(d, i)
    PROVE  status[d] = "PENDING" /\ token[d] = w
<1>1. status[d] # "SENT"
  BY DEF IInv, RowsAgree, AlreadySent
<1>2. token[d] = w
  BY <1>1 DEF LeaseLost
<1>3. status[d] # "FAILED"
  BY <1>2, DeliveryQueueConstants DEF IInv, RowsAgree
<1> QED
  BY <1>1, <1>2, <1>3 DEF IInv, TypeOK

LEMMA RecordSuccessStep ==
    ASSUME IInv, NEW w \in Workers, NEW d \in Deliveries, NEW i \in Positions(d),
           RecordSuccess(w, d, i)
    PROVE  IInv'
<1>1. /\ UNCHANGED <<attempts, due, itemFailed, arrived, crashes, overruns>>
      /\ pc[w] = "accepted" /\ cur[w] = d /\ IsNext(w, d, i) /\ ~LeaseLost(w, d)
      /\ todo' = [todo EXCEPT ![w][d] = @ \ {i}]
      /\ cur' = [cur EXCEPT ![w] = IF todo[w][d] = {i} THEN NoDelivery ELSE d]
      /\ pc' = [pc EXCEPT ![w] = "ready"]
  BY DEF RecordSuccess, WriteSent, Advance, Conflicts, lease, result, bounds
<1>2. \/ /\ AlreadySent(d, i)
         /\ UNCHANGED <<status, itemSent, token, locked>>
      \/ /\ ~AlreadySent(d, i)
         /\ itemSent' = [itemSent EXCEPT ![d] = @ \cup {i}]
         /\ \/ /\ IsLast(d, i)
               /\ status' = [status EXCEPT ![d] = "SENT"]
               /\ token' = [token EXCEPT ![d] = NoWorker]
               /\ locked' = [locked EXCEPT ![d] = FALSE]
            \/ /\ ~IsLast(d, i)
               /\ UNCHANGED <<status, token, locked>>
  BY DEF RecordSuccess, WriteSent, lease, result
<1>3. /\ i \in Nat /\ i \in arrived[d] /\ i \in todo[w][d]
      /\ \A j \in Positions(d) : j < i => j \in itemSent[d]
  BY <1>1, BeforeNext, DeliveryQueueConstants DEF IInv, AcceptedArrived, IsNext, Positions
<1>4. /\ itemSent \in [Deliveries -> SUBSET Nat]
      /\ todo \in [Workers -> [Deliveries -> SUBSET Nat]]
  BY DEF IInv, TypeOK
<1>5. /\ itemSent' \in [Deliveries -> SUBSET Nat]
      /\ todo' \in [Workers -> [Deliveries -> SUBSET Nat]]
      /\ itemSent'[d] = itemSent[d] \cup {i}
      /\ \A e \in Deliveries : e # d => itemSent'[e] = itemSent[e]
      /\ todo'[w][d] = todo[w][d] \ {i}
      /\ \A v \in Workers, e \in Deliveries : v # w \/ e # d => todo'[v][e] = todo[v][e]
  <2>1. itemSent' = [itemSent EXCEPT ![d] = @ \cup {i}]
    BY <1>2, <1>4 DEF AlreadySent
  <2> QED
    BY <2>1, <1>1, <1>3, <1>4
<1>6. TypeOK'
  BY <1>1, <1>2, <1>5 DEF IInv, TypeOK
<1>7. ListIsTail'
  <2>1. \A v \in Workers, e \in Deliveries : v # w => todo'[v][e] = todo[v][e]
    BY <1>5
  <2>2. \A e \in Deliveries :
          \/ todo'[w][e] \in {{}, todo[w][e]}
          \/ \E k \in Positions(e) : /\ IsNext(w, e, k)
                                     /\ todo'[w][e] = todo[w][e] \ {k}
                                     /\ k \in itemSent'[e]
    <3> SUFFICES ASSUME NEW e \in Deliveries
                 PROVE  \/ todo'[w][e] \in {{}, todo[w][e]}
                        \/ \E k \in Positions(e) : /\ IsNext(w, e, k)
                                                   /\ todo'[w][e] = todo[w][e] \ {k}
                                                   /\ k \in itemSent'[e]
      OBVIOUS
    <3>1. CASE e = d
      BY <3>1, <1>1, <1>5
    <3>2. CASE e # d
      BY <3>2, <1>5
    <3> QED BY <3>1, <3>2
  <2>3. \A e \in Deliveries : itemSent[e] \subseteq itemSent'[e]
    BY <1>5
  <2> QED
    BY <1>5, <2>1, <2>2, <2>3, ListShrinks
<1>8. RecordsArrived'
  BY <1>1, <1>3, <1>5 DEF IInv, RecordsArrived, Positions
<1>9. /\ status'[d] = "SENT" <=> Positions(d) \subseteq itemSent'[d]
      /\ \A e \in Deliveries : e # d => status'[e] = status[e]
      /\ status'[d] # "SENT" => status'[d] = status[d]
      /\ status'[d] = "SENT" => status[d] # "FAILED"
      /\ \A e \in Deliveries : token'[e] = token[e] \/ (e = d /\ token'[e] = NoWorker)
  <2>1. status[d] = "SENT" <=> Positions(d) \subseteq itemSent[d]
    BY DEF IInv, RowsAgree
  <2>2. CASE AlreadySent(d, i)
    <3>1. itemSent'[d] = itemSent[d] /\ UNCHANGED <<status, token>>
      BY <1>2, <1>5, <2>2
    <3>2. status[d] = "SENT" => status[d] # "FAILED"
      OBVIOUS
    <3> QED
      BY <2>1, <3>1, <3>2
  <2>3. CASE ~AlreadySent(d, i)
    <3>1. status[d] = "PENDING"
      BY <1>1, <2>3, HolderRecordsPending
    <3>2. CASE IsLast(d, i)
      <4>1. /\ status' = [status EXCEPT ![d] = "SENT"]
            /\ token' = [token EXCEPT ![d] = NoWorker]
        BY <1>2, <2>3, <3>2
      <4>2. Positions(d) \subseteq itemSent'[d]
        BY <1>5, <3>2 DEF IsLast
      <4> QED
        BY <3>1, <4>1, <4>2 DEF IInv, TypeOK
    <3>3. CASE ~IsLast(d, i)
      <4>1. UNCHANGED <<status, token>>
        BY <1>2, <2>3, <3>3
      <4>2. ~(Positions(d) \subseteq itemSent'[d])
        BY <1>5, <3>3 DEF IsLast
      <4> QED
        BY <3>1, <4>1, <4>2
    <3> QED BY <3>2, <3>3
  <2> QED BY <2>2, <2>3
<1>10. RowsAgree'
  BY <1>1, <1>5, <1>9 DEF IInv, RowsAgree, Positions
<1>11. AcceptedArrived'
  <2> SUFFICES ASSUME NEW v \in Workers, NEW e \in Deliveries, NEW k \in todo'[v][e],
                      pc'[v] = "accepted", cur'[v] = e, IsNext(v, e, k)'
               PROVE  k \in arrived[e]
    BY <1>1 DEF AcceptedArrived
  <2>1. v # w /\ pc[v] = "accepted" /\ cur[v] = e
    BY <1>1 DEF IInv, TypeOK
  <2>2. k \in todo[v][e] /\ IsNext(v, e, k)
    BY <1>5, <2>1 DEF IsNext
  <2> QED
    BY <2>1, <2>2 DEF IInv, AcceptedArrived
<1>12. HolderResendsNothing'
  <2> SUFFICES ASSUME NEW v \in Workers, NEW e \in Deliveries,
                      token'[e] = v, status'[e] = "PENDING"
               PROVE  todo'[v][e] \cap itemSent'[e] = {}
    BY DEF HolderResendsNothing
  <2>1. token[e] = v /\ status[e] = "PENDING"
    BY <1>9, DeliveryQueueConstants
  <2>2. todo[v][e] \cap itemSent[e] = {}
    BY <2>1 DEF IInv, HolderResendsNothing
  <2>3. CASE e # d
    BY <1>5, <2>2, <2>3
  <2>4. CASE e = d
    <3>1. v = w
      BY <2>1, <2>4, <1>1 DEF LeaseLost
    <3> QED
      BY <2>2, <2>4, <3>1, <1>5
  <2> QED BY <2>3, <2>4
<1>13. FailedAtTheGap'
  <2>1. \A e \in Deliveries : status'[e] = "FAILED" => e # d /\ status[e] = "FAILED"
    <3>1. CASE AlreadySent(d, i)
      <4> SUFFICES ASSUME status[d] = "FAILED" PROVE FALSE
        BY <1>2, <3>1, <1>9
      <4>1. token[d] = NoWorker /\ NoWorker # w
        BY DeliveryQueueConstants DEF IInv, RowsAgree
      <4> QED
        BY <4>1, <1>1 DEF LeaseLost
    <3>2. CASE ~AlreadySent(d, i)
      <4>1. status[d] = "PENDING"
        BY <1>1, <3>2, HolderRecordsPending
      <4> QED
        BY <4>1, <1>9
    <3> QED BY <3>1, <3>2
  <2> QED
    BY <2>1, <1>1, <1>5 DEF IInv, FailedAtTheGap, Positions
<1> QED
  BY <1>6, <1>7, <1>8, <1>10, <1>11, <1>12, <1>13 DEF IInv

LEMMA RecordFailureStep ==
    ASSUME IInv, NEW w \in Workers, NEW d \in Deliveries, NEW i \in Positions(d),
           RecordFailure(w, d, i)
    PROVE  IInv'
<1>1. /\ UNCHANGED <<itemSent, arrived, crashes, overruns>>
      /\ IsNext(w, d, i) /\ ~LeaseLost(w, d)
      /\ todo' = [todo EXCEPT ![w][d] = {}]
      /\ cur' = [cur EXCEPT ![w] = NoDelivery]
      /\ pc' = [pc EXCEPT ![w] = "ready"]
  BY DEF RecordFailure, WriteFailed, GiveUpBundle, Conflicts, lease, result, bounds
<1>2. \/ UNCHANGED <<status, attempts, itemFailed, due, token, locked>>
      \/ /\ ~AlreadySent(d, i)
         /\ attempts' = [attempts EXCEPT ![d] = @ + 1]
         /\ token' = [token EXCEPT ![d] = NoWorker]
         /\ locked' = [locked EXCEPT ![d] = FALSE]
         /\ \/ /\ Exhausted(attempts[d] + 1)
               /\ status' = [status EXCEPT ![d] = "FAILED"]
               /\ itemFailed' = [itemFailed EXCEPT ![d] = @ \cup {i}]
               /\ UNCHANGED due
            \/ /\ ~Exhausted(attempts[d] + 1)
               /\ due' = [due EXCEPT ![d] = FALSE]
               /\ UNCHANGED <<status, itemFailed>>
  BY DEF RecordFailure, WriteFailed, lease, result
<1>3. /\ i \in Nat
      /\ \A j \in Positions(d) : j < i => j \in itemSent[d]
  BY <1>1, BeforeNext, DeliveryQueueConstants DEF Positions
<1>4. /\ todo' \in [Workers -> [Deliveries -> SUBSET Nat]]
      /\ todo'[w][d] = {}
      /\ \A v \in Workers, e \in Deliveries : v # w \/ e # d => todo'[v][e] = todo[v][e]
  BY <1>1 DEF IInv, TypeOK
<1>5. ListIsTail'
  <2>1. \A v \in Workers, e \in Deliveries : v # w => todo'[v][e] = todo[v][e]
    BY <1>4
  <2>2. \A e \in Deliveries : todo'[w][e] \in {{}, todo[w][e]}
    BY <1>4
  <2>3. \A e \in Deliveries : itemSent[e] \subseteq itemSent'[e]
    BY <1>1
  <2> QED
    BY <1>4, <2>1, <2>2, <2>3, ListShrinks
<1>6. AcceptedArrived'
  <2> SUFFICES ASSUME NEW v \in Workers, NEW e \in Deliveries, NEW k \in todo'[v][e],
                      pc'[v] = "accepted", cur'[v] = e, IsNext(v, e, k)'
               PROVE  k \in arrived[e]
    BY <1>1 DEF AcceptedArrived
  <2>1. v # w /\ pc[v] = "accepted" /\ cur[v] = e
    BY <1>1 DEF IInv, TypeOK
  <2>2. k \in todo[v][e] /\ IsNext(v, e, k)
    BY <1>4, <2>1 DEF IsNext
  <2> QED
    BY <2>1, <2>2 DEF IInv, AcceptedArrived
<1>7. RecordsArrived'
  BY <1>1 DEF IInv, RecordsArrived, Positions
<1>8. HolderResendsNothing'
  <2> SUFFICES ASSUME NEW v \in Workers, NEW e \in Deliveries,
                      token'[e] = v, status'[e] = "PENDING"
               PROVE  todo'[v][e] \cap itemSent[e] = {}
    BY <1>1 DEF HolderResendsNothing
  <2>1. token[e] = v /\ status[e] = "PENDING"
    BY <1>2, DeliveryQueueConstants DEF IInv, TypeOK
  <2> QED
    BY <2>1, <1>4 DEF IInv, HolderResendsNothing
<1>9. CASE UNCHANGED <<status, attempts, itemFailed, due, token, locked>>
  <2>1. TypeOK'
    BY <1>1, <1>4, <1>9 DEF IInv, TypeOK
  <2>2. RowsAgree' /\ FailedAtTheGap'
    BY <1>1, <1>9 DEF IInv, RowsAgree, FailedAtTheGap, Positions
  <2> QED
    BY <1>5, <1>6, <1>7, <1>8, <2>1, <2>2 DEF IInv
<1>10. CASE ~UNCHANGED <<status, attempts, itemFailed, due, token, locked>>
  <2>1. status[d] = "PENDING" /\ i \notin itemSent[d] /\ itemFailed[d] = {}
    <3>1. ~AlreadySent(d, i)
      BY <1>2, <1>10
    <3>2. status[d] = "PENDING"
      BY <3>1, <1>1, HolderRecordsPending
    <3> QED
      BY <3>1, <3>2 DEF AlreadySent, IInv, RowsAgree
  <2>2. attempts[d] \in Nat /\ attempts[d] < MaxAttempts
    BY <2>1, DeliveryQueueConstants DEF IInv, TypeOK, RowsAgree
  <2>3. /\ attempts' = [attempts EXCEPT ![d] = @ + 1]
        /\ token' = [token EXCEPT ![d] = NoWorker]
        /\ locked' = [locked EXCEPT ![d] = FALSE]
    BY <1>2, <1>10
  <2>4. \/ /\ status' = [status EXCEPT ![d] = "FAILED"]
           /\ itemFailed' = [itemFailed EXCEPT ![d] = {i}]
           /\ UNCHANGED due
        \/ /\ attempts[d] + 1 < MaxAttempts
           /\ due' = [due EXCEPT ![d] = FALSE]
           /\ UNCHANGED <<status, itemFailed>>
    <3>1. CASE Exhausted(attempts[d] + 1)
      <4>1. /\ status' = [status EXCEPT ![d] = "FAILED"]
            /\ itemFailed' = [itemFailed EXCEPT ![d] = @ \cup {i}]
            /\ UNCHANGED due
        BY <1>2, <1>10, <3>1
      <4>2. itemFailed[d] \cup {i} = {i}
        BY <2>1
      <4> QED
        BY <4>1, <4>2 DEF IInv, TypeOK
    <3>2. CASE ~Exhausted(attempts[d] + 1)
      BY <1>2, <1>10, <2>2, <3>2, DeliveryQueueConstants DEF Exhausted
    <3> QED BY <3>1, <3>2
  <2>5. itemFailed' \in [Deliveries -> SUBSET Nat]
    BY <1>3, <2>4 DEF IInv, TypeOK
  <2>6. TypeOK'
    <3>1. attempts' \in [Deliveries -> 0..MaxAttempts]
      BY <2>2, <2>3, DeliveryQueueConstants DEF IInv, TypeOK
    <3>2. status' \in [Deliveries -> {"PENDING", "SENT", "FAILED"}]
      BY <2>4 DEF IInv, TypeOK
    <3>3. due' \in [Deliveries -> BOOLEAN]
      BY <2>4 DEF IInv, TypeOK
    <3> QED
      BY <1>1, <1>4, <2>3, <2>5, <3>1, <3>2, <3>3 DEF IInv, TypeOK
  <2>7. RowsAgree'
    <3> SUFFICES ASSUME NEW e \in Deliveries
                 PROVE  /\ status'[e] = "SENT" <=> Positions(e) \subseteq itemSent[e]
                        /\ status'[e] # "FAILED" => /\ itemFailed'[e] = {}
                                                    /\ attempts'[e] < MaxAttempts
                        /\ status'[e] = "FAILED" => token'[e] = NoWorker
      BY <1>1 DEF RowsAgree, Positions
    <3>1. CASE e # d
      BY <3>1, <2>3, <2>4 DEF IInv, TypeOK, RowsAgree
    <3>2. CASE e = d
      <4>1. ~(Positions(d) \subseteq itemSent[d])
        BY <2>1
      <4>2. status'[d] # "SENT" /\ token'[d] = NoWorker
        BY <2>1, <2>3, <2>4 DEF IInv, TypeOK
      <4>3. status'[d] # "FAILED" => itemFailed'[d] = {} /\ attempts'[d] < MaxAttempts
        BY <2>1, <2>2, <2>3, <2>4 DEF IInv, TypeOK
      <4> QED
        BY <3>2, <4>1, <4>2, <4>3
    <3> QED BY <3>1, <3>2
  <2>8. FailedAtTheGap'
    <3> SUFFICES ASSUME NEW e \in Deliveries, status'[e] = "FAILED"
                 PROVE  \E k \in Positions(e) : itemFailed'[e] = {k} /\ itemSent[e] = 1..(k - 1)
      BY <1>1 DEF FailedAtTheGap, Positions
    <3>1. CASE e # d
      BY <3>1, <2>4 DEF IInv, TypeOK, FailedAtTheGap
    <3>2. CASE e = d
      <4>1. itemFailed'[d] = {i}
        BY <2>1, <2>4, <3>2 DEF IInv, TypeOK
      <4>2. itemSent[d] \subseteq Positions(d)
        BY DEF IInv, RecordsArrived
      <4>3. \A j \in itemSent[d] : j < i
        BY <1>3, <2>1, <4>2, DeliveryQueueConstants DEF IInv, RecordsArrived, Positions
      <4>4. \A j \in itemSent[d] : j \in 1..(i - 1)
        BY <1>3, <4>2, <4>3, DeliveryQueueConstants DEF Positions
      <4>5. \A j \in 1..(i - 1) : j \in itemSent[d]
        BY <1>3, DeliveryQueueConstants DEF Positions
      <4>6. itemSent[d] = 1..(i - 1)
        BY <4>4, <4>5
      <4> QED
        BY <3>2, <4>1, <4>6
    <3> QED BY <3>1, <3>2
  <2> QED
    BY <1>5, <1>6, <1>7, <1>8, <2>6, <2>7, <2>8 DEF IInv
<1> QED
  BY <1>9, <1>10

LEMMA EnvironmentStep ==
    ASSUME IInv, NEW d \in Deliveries,
           LeaseExpires(d) \/ LeaseOverrun(d) \/ RetryDue(d)
    PROVE  IInv'
<1>1. UNCHANGED <<result, token, process, arrived>>
  BY DEF LeaseExpires, LeaseOverrun, RetryDue
<1>2. TypeOK'
  <2>1. CASE LeaseExpires(d)
    BY <2>1 DEF LeaseExpires, IInv, TypeOK, result, process, bounds
  <2>2. CASE LeaseOverrun(d)
    BY <2>2, DeliveryQueueConstants
       DEF LeaseOverrun, IInv, TypeOK, result, process
  <2>3. CASE RetryDue(d)
    BY <2>3 DEF RetryDue, IInv, TypeOK, result, process, bounds
  <2> QED BY <2>1, <2>2, <2>3
<1> QED
  BY <1>1, <1>2, ClockStep

LEMMA DeathStep ==
    ASSUME IInv, NEW w \in Workers,
           \/ Crash(w)
           \/ \E d \in Deliveries : \E i \in Positions(d) : RecordRefused(w, d, i)
    PROVE  IInv'
<1>1. Die(w) /\ UNCHANGED <<lease, result, arrived, overruns>>
  BY DEF Crash, RecordRefused, bounds
<1>2. crashes' \in 0..MaxCrashes
  BY DeliveryQueueConstants DEF Crash, RecordRefused, bounds, IInv, TypeOK
<1> QED
  BY <1>1, <1>2, DieStep

LEMMA NextIInv == IInv /\ [Next]_vars => IInv'
<1> SUFFICES ASSUME IInv, [Next]_vars PROVE IInv'
  OBVIOUS
<1>1. CASE UNCHANGED vars
  BY <1>1 DEF vars, IInv, TypeOK, RowsAgree, RecordsArrived, ListIsTail,
              AcceptedArrived, IsNext, HolderResendsNothing, FailedAtTheGap, Positions
<1>2. CASE \E d \in Deliveries : LeaseExpires(d) \/ LeaseOverrun(d) \/ RetryDue(d)
  BY <1>2, EnvironmentStep
<1>3. ASSUME NEW w \in Workers, Crash(w) PROVE IInv'
  BY <1>3, DeathStep
<1>4. ASSUME NEW w \in Workers, WorkerStep(w) PROVE IInv'
  <2>1. CASE Claim(w)
    BY <2>1, ClaimStep
  <2>2. ASSUME NEW d \in Deliveries, NEW i \in Positions(d), Send(w, d, i)
        PROVE  IInv'
    BY <2>2, SendStep
  <2>3. ASSUME NEW d \in Deliveries, NEW i \in Positions(d), RecordSuccess(w, d, i)
        PROVE  IInv'
    BY <2>3, RecordSuccessStep
  <2>4. ASSUME NEW d \in Deliveries, NEW i \in Positions(d), RecordFailure(w, d, i)
        PROVE  IInv'
    BY <2>4, RecordFailureStep
  <2>5. ASSUME NEW d \in Deliveries, NEW i \in Positions(d), RecordRefused(w, d, i)
        PROVE  IInv'
    BY <2>5, DeathStep
  <2> QED
    BY <1>4, <2>1, <2>2, <2>3, <2>4, <2>5 DEF WorkerStep
<1> QED
  BY <1>1, <1>2, <1>3, <1>4 DEF Next

\* The queue's invariant, whatever the bundles, the workers and the bounds:
\* the rows, the workers' lists and what has arrived always agree.
THEOREM QueueInvariant == Safety => []IInv
<1>1. Init => IInv
  BY InitIInv
<1>2. IInv /\ [Next]_vars => IInv'
  BY NextIInv
<1> QED
  BY <1>1, <1>2, PTL DEF Safety

\* Every row and every process keeps its type; the attempts of a delivery
\* never pass the number of retry delays.
THEOREM TypeCorrect == Safety => []TypeOK
<1>1. IInv => TypeOK
  BY DEF IInv
<1> QED
  BY <1>1, QueueInvariant, PTL

\* A delivery that has failed for good was sent exactly up to the item that
\* failed, however many stale workers reported late (service.py,
\* _delivery_item_succeeded and _delivery_item_failed).
THEOREM FailureIsAtTheGap == Safety => []FailedAtTheGap
<1>1. IInv => FailedAtTheGap
  BY DEF IInv
<1> QED
  BY <1>1, QueueInvariant, PTL

\* The holder of a standing lease never repeats an item recorded as SENT.
THEOREM NothingIsResent == Safety => []HolderResendsNothing
<1>1. IInv => HolderResendsNothing
  BY DEF IInv
<1> QED
  BY <1>1, QueueInvariant, PTL

-----------------------------------------------------------------------------
(* The queue implements the safety part of the promise.                    *)

LEMMA InitPromised == Init => Promised!Init
BY DEF Init, Promised!Init

LEMMA StepPromised ==
    ASSUME IInv, [Next]_vars
    PROVE  [Promised!Next]_(Promised!vars)
<1> USE DEF Promised!vars
<1>1. CASE UNCHANGED <<status, arrived>>
  BY <1>1
<1>2. ASSUME NEW w \in Workers, NEW d \in Deliveries, NEW i \in Positions(d),
             Send(w, d, i)
      PROVE  [Promised!Next]_(Promised!vars)
  <2>1. \A j \in 1..(i - 1) : j \in arrived[d]
    <3>1. \A j \in 1..(i - 1) : j \in Positions(d) /\ j < i
      BY DeliveryQueueConstants DEF Positions
    <3>2. IsNext(w, d, i)
      BY <1>2 DEF Send
    <3> QED
      BY <3>1, <3>2, BeforeNext
  <2>2. UNCHANGED status
    BY <1>2 DEF Send, result
  <2>3. arrived' = arrived \/ arrived' = [arrived EXCEPT ![d] = @ \cup {i}]
    BY <1>2 DEF Send
  <2>4. CASE arrived' = arrived
    BY <2>2, <2>4
  <2>5. CASE arrived' = [arrived EXCEPT ![d] = @ \cup {i}]
    <3>1. Promised!Arrive(d, i)
      BY <2>1, <2>2, <2>5 DEF Promised!Arrive, Promised!Positions, Positions
    <3> QED
      BY <3>1 DEF Promised!Next, Promised!Positions, Positions
  <2> QED
    BY <2>3, <2>4, <2>5
<1>3. ASSUME NEW w \in Workers, NEW d \in Deliveries, NEW i \in Positions(d),
             RecordSuccess(w, d, i)
      PROVE  [Promised!Next]_(Promised!vars)
  <2>1. UNCHANGED arrived /\ IsNext(w, d, i) /\ ~LeaseLost(w, d)
    BY <1>3 DEF RecordSuccess, Conflicts
  <2>2. CASE AlreadySent(d, i) \/ ~IsLast(d, i)
    BY <1>3, <2>1, <2>2 DEF RecordSuccess, WriteSent, result
  <2>3. CASE ~AlreadySent(d, i) /\ IsLast(d, i)
    <3>1. status' = [status EXCEPT ![d] = "SENT"]
      BY <1>3, <2>3 DEF RecordSuccess, WriteSent
    <3>2. status[d] = "PENDING"
      BY <2>1, <2>3, HolderRecordsPending
    <3>3. i \in arrived[d]
      BY <1>3, <2>1 DEF RecordSuccess, IsNext, IInv, AcceptedArrived
    <3>4. Positions(d) \subseteq arrived[d]
      BY <2>3, <3>3 DEF IsLast, IInv, RecordsArrived
    <3>5. Promised!Decide(d)
      BY <2>1, <3>1, <3>2, <3>4 DEF Promised!Decide, Promised!Positions, Positions
    <3> QED
      BY <3>5 DEF Promised!Next
  <2> QED BY <2>2, <2>3
<1>4. ASSUME NEW w \in Workers, NEW d \in Deliveries, NEW i \in Positions(d),
             RecordFailure(w, d, i)
      PROVE  [Promised!Next]_(Promised!vars)
  <2>1. UNCHANGED arrived /\ IsNext(w, d, i) /\ ~LeaseLost(w, d)
    BY <1>4 DEF RecordFailure, Conflicts
  <2>2. CASE UNCHANGED status
    BY <2>1, <2>2
  <2>3. CASE ~UNCHANGED status
    <3>1. ~AlreadySent(d, i) /\ status' = [status EXCEPT ![d] = "FAILED"]
      BY <1>4, <2>3 DEF RecordFailure, WriteFailed, result
    <3>2. status[d] = "PENDING"
      BY <2>1, <3>1, HolderRecordsPending
    <3>3. Promised!Decide(d)
      BY <2>1, <3>1, <3>2 DEF Promised!Decide
    <3> QED
      BY <3>3 DEF Promised!Next
  <2> QED BY <2>2, <2>3
<1>5. CASE \E w \in Workers : Claim(w) \/ Crash(w)
  BY <1>1, <1>5 DEF Claim, Crash, result
<1>6. ASSUME NEW w \in Workers, NEW d \in Deliveries, NEW i \in Positions(d),
             RecordRefused(w, d, i)
      PROVE  [Promised!Next]_(Promised!vars)
  BY <1>1, <1>6 DEF RecordRefused, result
<1>7. CASE \E d \in Deliveries : LeaseExpires(d) \/ LeaseOverrun(d) \/ RetryDue(d)
  BY <1>1, <1>7 DEF LeaseExpires, LeaseOverrun, RetryDue, result
<1>8. CASE UNCHANGED vars
  BY <1>1, <1>8 DEF vars
<1> QED
  BY <1>2, <1>3, <1>4, <1>5, <1>6, <1>7, <1>8 DEF Next, WorkerStep

\* The queue of case_desk/service.py, driven by relay/delivery.py, keeps the
\* safety part of what the rest of the system relies on: items arrive in
\* order, a bundle is decided once, and it is SENT only when all has arrived.
THEOREM QueueImplementsOutbox == Safety => Promised!Safety
<1>1. Init => Promised!Init
  BY InitPromised
<1>2. IInv /\ [Next]_vars => [Promised!Next]_(Promised!vars)
  BY StepPromised
<1> QED
  BY <1>1, <1>2, QueueInvariant, PTL DEF Safety, Promised!Safety

=============================================================================
