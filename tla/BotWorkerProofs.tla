---------------------------- MODULE BotWorkerProofs ----------------------------
(***************************************************************************)
(* Workers that take the connection and the claims from each other keep    *)
(* the safety part of the promise of the delivery queue, take no decision  *)
(* back, and try a message no oftener than its retries and what went wrong *)
(* account for, with any number of workers, frames, messages, retries and  *)
(* faults.                                                                 *)
(***************************************************************************)
EXTENDS BotWorker, TLAPS, FiniteSetTheorems

-----------------------------------------------------------------------------
(* The inductive invariant, by the groups of variables.                    *)

\* A worker that does not run has no socket.
ConnectionInv ==
    /\ proc \in [Workers -> {"OFF", "STARTING", "UP", "FAILED", "OVER"}]
    /\ displaced \cup notice \subseteq {w \in Workers : Running(w)}
    /\ conn \in [Workers -> {"NONE", "OPEN", "DROPPED"}]
    /\ served \in {w \in Workers : conn[w] = "OPEN"} \cup {None}
    /\ \A w \in notice : conn[w] = "OPEN" /\ served # w
    /\ \A w \in Workers : conn[w] # "NONE" => Running(w)

Events == [frame : Frames, error : BOOLEAN]
Told(e) == e.error <=> ~Decodes(e.frame)

InboundInv ==
    /\ frame \in [Frames -> Place]
    /\ events \in [Workers -> Seq(Events)]
    /\ \A w \in Workers : \A i \in DOMAIN events[w] : Told(events[w][i])
    /\ busy \in [Workers -> Frames \cup {None}]

\* What has gone wrong, and the workers that ended for good: each of them can
\* leave a claim behind.
Over == {w \in Workers : proc[w] = "OVER"}
Slack == faults + Cardinality(Over)

\* The token by which a worker has a message in hand, or 0.
TokenOf(w, m) == IF sending[w].msg = m THEN sending[w].token ELSE batch[w][m]

Holds(w, m) == TokenOf(w, m) # 0 /\ TokenOf(w, m) = msg[m].token

Compared(w, m) == sending[w].msg = m /\ sending[w].checked

\* Nobody who has the message will be asked first what came of it.
Left(m) == msg[m].lapsed \/ \A w \in Workers : ~Holds(w, m)

\* A worker with an early claim that can still free the claim of another, or
\* that can be overtaken between its comparison and its write, since its lease
\* has run out.  The fault by which it did is left for the attempt it spoils.
Late(w, m) ==
    /\ TokenOf(w, m) \in 1..Retries
    /\ IF TokenOf(w, m) = msg[m].token THEN msg[m].lapsed
       ELSE Compared(w, m) /\ sending[w].result # "ACCEPTED"

Lates(m) == {w \in Workers : Late(w, m)}

\* Every attempt beyond the retries is accounted for, before it is made.
Room(m) ==
    LET late == Cardinality(Lates(m))
    IN /\ late <= Slack
       /\ msg[m].attempts + late <= Retries + 1 + Slack
       /\ Left(m) => msg[m].attempts + late <= Retries + Slack

Counted(m) ==
    /\ msg[m].token \in {0, msg[m].attempts}
    /\ msg[m].status # "PENDING" => msg[m].token = 0
    /\ msg[m].attempts <= Retries + 1 + Slack
    /\ msg[m].status = "PENDING" => Room(m)

\* No two workers have a message by one claim.
Sole(m) ==
    /\ \A w \in Workers : TokenOf(w, m) \in 0..msg[m].attempts
    /\ \A w \in Workers : sending[w].msg = m => batch[w][m] = 0
    /\ \A v, w \in Workers :
          v # w /\ TokenOf(v, m) # 0 => TokenOf(v, m) # TokenOf(w, m)

\* The row of an uncontested message is still the one that was compared.
Current(m) ==
    m \notin contested =>
        \A w \in Workers : Compared(w, m) => TokenOf(w, m) = msg[m].token

Attested(m) == msg[m].status = "SENT" => m \in arrived

\* A message is sent by a claim, and accepted only if it arrived.
Honest(s) ==
    /\ s.msg # None => s.token # 0
    /\ s.msg # None /\ s.result = "ACCEPTED" => s.msg \in arrived
    /\ s.checked => s.msg # None

PushTypes ==
    /\ msg \in [Msgs -> Row]
    /\ arrived \subseteq Msgs
    /\ batch \in [Workers -> [Msgs -> 0..MaxAttempts]]
    /\ sending \in [Workers -> Request]
    /\ contested \subseteq Msgs

PushInv ==
    /\ PushTypes
    /\ \A m \in Msgs : Counted(m) /\ Sole(m) /\ Current(m) /\ Attested(m)
    /\ \A w \in Workers : Honest(sending[w])

IInv == ConnectionInv /\ InboundInv /\ PushInv /\ faults \in 0..MaxFaults

-----------------------------------------------------------------------------
(* The connection.                                                         *)

LEMMA LeaveConnection ==
    ASSUME ConnectionInv, NEW w \in Workers, NEW st \in {"FAILED", "OVER"}, Leave(w, st)
    PROVE  ConnectionInv'
BY BotWorkerConstants DEF ConnectionInv, Leave, Running

LEMMA ConnectionStep ==
    ASSUME IInv, Next
    PROVE  ConnectionInv'
<1> USE BotWorkerConstants DEF IInv
<1>1. ASSUME NEW w \in Workers, Crash(w) \/ StartTimesOut(w) \/ Stop(w)
      PROVE  ConnectionInv'
  BY <1>1, LeaveConnection DEF Crash, StartTimesOut, Stop
<1>2. ASSUME NEW w \in Workers, Begin(w) \/ Started(w)
      PROVE  ConnectionInv'
  BY <1>2 DEF Begin, Started, ConnectionInv, Running, connection
<1>3. ASSUME NEW w \in Workers, Connect(w)
      PROVE  ConnectionInv'
  <2>1. conn[w] # "OPEN" /\ Running(w) /\ w \notin displaced
    BY <1>3 DEF Connect, ConnectionInv, Running
  <2>2. /\ conn' = [conn EXCEPT ![w] = "OPEN"] /\ served' = w /\ UNCHANGED <<proc, displaced>>
        /\ notice' = IF served = None THEN notice ELSE notice \cup {served}
    BY <1>3 DEF Connect
  <2>3. served # None => served \in Workers /\ conn[served] = "OPEN" /\ Running(served)
    BY DEF ConnectionInv
  <2>4. \A v \in notice : v \in Workers /\ conn[v] = "OPEN" /\ v # w
    BY <2>1 DEF ConnectionInv
  <2> QED
    BY <2>1, <2>2, <2>3, <2>4 DEF ConnectionInv, Running
<1>4. ASSUME NEW w \in Workers, Drop(w) \/ Displaced(w)
      PROVE  ConnectionInv'
  BY <1>4 DEF Drop, Displaced, ConnectionInv, Running
<1>5. CASE \/ \E w \in Workers : \/ Receive(w) \/ Handled(w) \/ Claim(w) \/ Send(w)
                                 \/ Compare(w) \/ Write(w)
           \/ \E f \in Frames : OnRawMessage(f) \/ NormalizeAndQueue(f)
           \/ \E m \in Msgs : Lapse(m) \/ Due(m)
  <2>1. UNCHANGED <<proc, displaced, conn, served, notice>>
    BY <1>5 DEF Receive, Handled, Claim, Send, Compare, Write, OnRawMessage,
                NormalizeAndQueue, Lapse, Due, connection
  <2> QED
    BY <2>1 DEF ConnectionInv, Running
<1> QED
  BY <1>1, <1>2, <1>3, <1>4, <1>5 DEF Next

-----------------------------------------------------------------------------
(* Frames.                                                                 *)

LEMMA LeaveInbound ==
    ASSUME InboundInv, NEW w \in Workers, NEW st, Leave(w, st)
    PROVE  InboundInv'
<1>1. [at |-> "LOST", by |-> None] \in Place
  BY DEF Place
<1>2. frame' \in [Frames -> Place]
  BY <1>1 DEF InboundInv, Leave
<1>3. events' \in [Workers -> Seq(Events)] /\ events'[w] = <<>>
      /\ \A v \in Workers \ {w} : events'[v] = events[v]
  BY DEF InboundInv, Leave
<1>4. ASSUME NEW v \in Workers, NEW i \in DOMAIN events'[v]
      PROVE  Told(events'[v][i])
  <2>1. v # w
    BY <1>3
  <2> QED
    BY <1>3, <2>1 DEF InboundInv
<1>5. busy' \in [Workers -> Frames \cup {None}]
  BY DEF InboundInv, Leave
<1> QED
  BY <1>2, <1>3, <1>4, <1>5 DEF InboundInv, Told, Decodes

LEMMA QueuedInbound ==
    ASSUME InboundInv, NEW f \in Frames, NormalizeAndQueue(f)
    PROVE  InboundInv'
<1> DEFINE by == frame[f].by
<1>1. Event(f) \in Events /\ Told(Event(f))
  BY DEF Event, Events, Told, Decodes
<1>2. frame' \in [Frames -> Place] /\ UNCHANGED busy
  BY DEF InboundInv, NormalizeAndQueue, Place
<1>3. events' = [events EXCEPT ![by] = Append(events[by], Event(f))]
  BY DEF NormalizeAndQueue
<1> HIDE DEF by
<1>4. ASSUME NEW v \in Workers
      PROVE  events'[v] \in Seq(Events) /\ \A i \in DOMAIN events'[v] : Told(events'[v][i])
  <2>1. events[v] \in Seq(Events) /\ \A i \in DOMAIN events[v] : Told(events[v][i])
    BY DEF InboundInv
  <2>2. CASE v # by
    BY <1>3, <2>1, <2>2 DEF InboundInv
  <2>3. CASE v = by
    <3>1. events'[v] = Append(events[v], Event(f))
      BY <1>3, <2>3 DEF InboundInv
    <3> QED
      BY <1>1, <2>1, <3>1
  <2> QED
    BY <2>2, <2>3
<1>5. events' \in [Workers -> Seq(Events)]
  BY <1>3, <1>4 DEF InboundInv
<1> QED
  BY <1>2, <1>4, <1>5 DEF InboundInv, Told, Decodes

LEMMA ReceivedInbound ==
    ASSUME InboundInv, NEW w \in Workers, Receive(w)
    PROVE  InboundInv'
<1>1. events[w] \in Seq(Events) /\ events[w] # <<>>
  BY DEF InboundInv, Receive
<1>2. Head(events[w]).frame \in Frames
  <2>1. Head(events[w]) \in Events
    BY <1>1
  <2> QED
    BY <2>1 DEF Events
<1>3. frame' \in [Frames -> Place]
  BY <1>2 DEF InboundInv, Receive, Place
<1>4. busy' \in [Workers -> Frames \cup {None}]
  BY <1>2 DEF InboundInv, Receive
<1>5. /\ events' \in [Workers -> Seq(Events)]
      /\ events'[w] = Tail(events[w])
      /\ \A v \in Workers \ {w} : events'[v] = events[v]
  BY <1>1 DEF InboundInv, Receive
<1>6. ASSUME NEW v \in Workers, NEW i \in DOMAIN events'[v]
      PROVE  Told(events'[v][i])
  <2>1. ASSUME NEW j \in DOMAIN Tail(events[w])
        PROVE  Tail(events[w])[j] = events[w][j + 1] /\ j + 1 \in DOMAIN events[w]
    BY <1>1
  <2>2. CASE v = w
    BY <1>5, <2>1, <2>2 DEF InboundInv
  <2>3. CASE v # w
    BY <1>5, <2>3 DEF InboundInv
  <2> QED
    BY <2>2, <2>3
<1> QED
  BY <1>3, <1>4, <1>5, <1>6 DEF InboundInv, Told, Decodes

LEMMA InboundStep ==
    ASSUME IInv, Next
    PROVE  InboundInv'
<1> USE DEF IInv
<1>1. ASSUME NEW w \in Workers, Crash(w) \/ StartTimesOut(w) \/ Stop(w)
      PROVE  InboundInv'
  BY <1>1, LeaveInbound DEF Crash, StartTimesOut, Stop
<1>2. ASSUME NEW f \in Frames, OnRawMessage(f)
      PROVE  InboundInv'
  <2>1. [at |-> "NORMALISING", by |-> served] \in Place
    BY DEF ConnectionInv, Place
  <2> QED
    BY <1>2, <2>1 DEF OnRawMessage, InboundInv, Told, Decodes
<1>3. ASSUME NEW w \in Workers, Handled(w)
      PROVE  InboundInv'
  <2>1. frame' \in [Frames -> Place]
    BY <1>3 DEF Handled, InboundInv, Place
  <2> QED
    BY <1>3, <2>1 DEF Handled, InboundInv, Told, Decodes
<1>4. CASE \/ \E w \in Workers : \/ Begin(w) \/ Started(w) \/ Connect(w) \/ Drop(w)
                                 \/ Displaced(w) \/ Claim(w) \/ Send(w)
                                 \/ Compare(w) \/ Write(w)
           \/ \E m \in Msgs : Lapse(m) \/ Due(m)
  <2>1. UNCHANGED <<frame, events, busy>>
    BY <1>4 DEF Begin, Started, Connect, Drop, Displaced, Claim, Send, Compare, Write,
                Lapse, Due, inbound
  <2> QED
    BY <2>1 DEF InboundInv, Told, Decodes
<1> QED
  BY <1>1, <1>2, <1>3, <1>4, QueuedInbound, ReceivedInbound DEF Next

-----------------------------------------------------------------------------
(* What has gone wrong is counted.                                         *)

LEMMA Slacks ==
    ASSUME proc \in [Workers -> {"OFF", "STARTING", "UP", "FAILED", "OVER"}],
           faults \in 0..MaxFaults
    PROVE  /\ IsFiniteSet(Over) /\ Cardinality(Over) \in Nat /\ Slack \in Nat
           /\ Cardinality(Workers) \in Nat /\ MaxAttempts \in Nat
           /\ Retries + 1 + Slack <= MaxAttempts
<1>1. Over \in SUBSET Workers
  BY DEF Over
<1>2. IsFiniteSet(Over) /\ Cardinality(Over) <= Cardinality(Workers)
  BY <1>1, BotWorkerConstants, FS_Subset
<1>3. Cardinality(Over) \in Nat /\ Cardinality(Workers) \in Nat
  BY <1>2, BotWorkerConstants, FS_CardinalityType
<1> QED
  BY <1>2, <1>3, BotWorkerConstants DEF Slack, MaxAttempts

LEMMA SameSlack ==
    ASSUME IInv, faults' \in {faults, faults + 1}, Over' = Over
    PROVE  /\ Slack' \in Nat /\ Slack \in Nat
           /\ Slack' = Slack + (faults' - faults)
<1>1. faults \in Nat /\ Cardinality(Over) \in Nat /\ Slack \in Nat
  BY Slacks, BotWorkerConstants DEF IInv, ConnectionInv
<1> QED
  BY <1>1 DEF Slack

\* A worker that leaves makes room for one more attempt.
LEMMA LeavingCounts ==
    ASSUME IInv, NEW w \in Workers, Crash(w) \/ StartTimesOut(w) \/ Stop(w)
    PROVE  /\ Slack' = Slack + 1 /\ Slack \in Nat
           /\ \E st \in {"FAILED", "OVER"} : Leave(w, st)
           /\ faults' \in 0..MaxFaults
<1>1. faults \in Nat /\ Cardinality(Over) \in Nat /\ Slack \in Nat /\ IsFiniteSet(Over)
  BY Slacks, BotWorkerConstants DEF IInv, ConnectionInv
<1>2. Running(w)
  BY DEF Crash, StartTimesOut, Stop, IInv, ConnectionInv, Running
<1>3. CASE Crash(w) \/ StartTimesOut(w)
  <2>1. Over' = Over
    BY <1>2, <1>3 DEF Crash, StartTimesOut, Leave, Over, IInv, ConnectionInv, Running
  <2>2. faults' = faults + 1 /\ faults < MaxFaults /\ Leave(w, "FAILED")
    BY <1>3 DEF Crash, StartTimesOut, Fault
  <2> QED
    BY <1>1, <2>1, <2>2, BotWorkerConstants DEF Slack, IInv
<1>4. CASE Stop(w)
  <2>1. Over' = Over \cup {w} /\ w \notin Over
    BY <1>2, <1>4 DEF Stop, Leave, Over, IInv, ConnectionInv, Running
  <2>2. Cardinality(Over') = Cardinality(Over) + 1
    BY <1>1, <2>1, FS_AddElement
  <2> QED
    BY <1>1, <1>4, <2>2 DEF Stop, Slack, IInv
<1> QED
  BY <1>3, <1>4

\* The rows in numbers.
LEMMA RowTypes ==
    ASSUME IInv, NEW m \in Msgs
    PROVE  /\ msg[m] \in Row
           /\ msg[m].attempts \in Nat /\ msg[m].token \in Nat
           /\ msg[m].status \in {"PENDING", "SENT", "FAILED"}
           /\ msg[m].lapsed \in BOOLEAN /\ msg[m].due \in BOOLEAN
           /\ Slack \in Nat /\ Retries \in Nat /\ MaxAttempts \in Nat
           /\ Retries + 1 + Slack <= MaxAttempts
           /\ Counted(m) /\ Sole(m) /\ Current(m) /\ Attested(m)
<1>1. msg[m] \in Row /\ Counted(m) /\ Sole(m) /\ Current(m) /\ Attested(m)
  BY DEF IInv, PushInv, PushTypes
<1>2. Slack \in Nat /\ MaxAttempts \in Nat /\ Retries + 1 + Slack <= MaxAttempts
  BY Slacks DEF IInv, ConnectionInv
<1> QED
  BY <1>1, <1>2, BotWorkerConstants DEF Row

-----------------------------------------------------------------------------
(* How many workers are late.                                              *)

\* Sets of workers that differ by one who leaves and one who joins.
LEMMA Sizes ==
    ASSUME NEW S, NEW T, S \subseteq Workers, T \subseteq Workers
    PROVE  /\ Cardinality(S) \in Nat /\ Cardinality(T) \in Nat
           /\ T \subseteq S => Cardinality(T) <= Cardinality(S)
           /\ \A v : T \subseteq S \cup {v} => Cardinality(T) <= Cardinality(S) + 1
           /\ \A w \in S : T \subseteq S \ {w} => Cardinality(T) + 1 <= Cardinality(S)
           /\ \A w \in S : \A v : T \subseteq (S \ {w}) \cup {v} =>
                                    Cardinality(T) <= Cardinality(S)
<1>1. IsFiniteSet(S) /\ IsFiniteSet(T)
  BY BotWorkerConstants, FS_Subset
<1>2. Cardinality(S) \in Nat /\ Cardinality(T) \in Nat
  BY <1>1, FS_CardinalityType
<1>3. ASSUME NEW R, IsFiniteSet(R), T \subseteq R PROVE Cardinality(T) <= Cardinality(R)
  BY <1>3, FS_Subset
<1>4. ASSUME NEW R, IsFiniteSet(R), NEW v
      PROVE  /\ IsFiniteSet(R \cup {v}) /\ Cardinality(R) \in Nat
             /\ Cardinality(R \cup {v}) \in Nat
             /\ Cardinality(R \cup {v}) <= Cardinality(R) + 1
  <2>1. /\ IsFiniteSet(R \cup {v}) /\ Cardinality(R) \in Nat
        /\ Cardinality(R \cup {v}) = IF v \in R THEN Cardinality(R) ELSE Cardinality(R) + 1
    BY <1>4, FS_AddElement, FS_CardinalityType
  <2> QED
    BY <2>1
<1>5. ASSUME NEW w \in S
      PROVE  IsFiniteSet(S \ {w}) /\ Cardinality(S \ {w}) = Cardinality(S) - 1
  BY <1>1, FS_RemoveElement
<1>6. ASSUME NEW v, T \subseteq S \cup {v} PROVE Cardinality(T) <= Cardinality(S) + 1
  <2>1. /\ IsFiniteSet(S \cup {v}) /\ Cardinality(S \cup {v}) \in Nat
        /\ Cardinality(S \cup {v}) <= Cardinality(S) + 1
    BY <1>1, <1>4
  <2>2. Cardinality(T) <= Cardinality(S \cup {v})
    BY <1>3, <1>6, <2>1
  <2> QED
    BY <1>2, <2>1, <2>2
<1>7. ASSUME NEW w \in S, T \subseteq S \ {w}
      PROVE  Cardinality(T) + 1 <= Cardinality(S)
  <2> DEFINE R == S \ {w}
  <2>1. IsFiniteSet(R) /\ Cardinality(R) = Cardinality(S) - 1 /\ T \subseteq R
    BY <1>5, <1>7
  <2> HIDE DEF R
  <2>2. Cardinality(T) <= Cardinality(R)
    BY <1>3, <2>1
  <2> QED
    BY <1>2, <2>1, <2>2
<1>8. ASSUME NEW w \in S, NEW v, T \subseteq (S \ {w}) \cup {v}
      PROVE  Cardinality(T) <= Cardinality(S)
  <2> DEFINE R == S \ {w}
  <2>1. IsFiniteSet(R) /\ Cardinality(R) = Cardinality(S) - 1
    BY <1>5
  <2>2. T \subseteq R \cup {v}
    BY <1>8
  <2> HIDE DEF R
  <2>3. /\ IsFiniteSet(R \cup {v}) /\ Cardinality(R) \in Nat
        /\ Cardinality(R \cup {v}) \in Nat
        /\ Cardinality(R \cup {v}) <= Cardinality(R) + 1
    BY <1>4, <2>1
  <2>4. Cardinality(T) <= Cardinality(R \cup {v})
    BY <1>3, <2>2, <2>3
  <2> QED
    BY <1>2, <2>1, <2>3, <2>4
<1> QED
  BY <1>1, <1>2, <1>3, <1>6, <1>7, <1>8

LEMMA LatesAreWorkers ==
    ASSUME NEW m PROVE Lates(m) \subseteq Workers /\ Lates(m)' \subseteq Workers
BY DEF Lates

\* A message whose row, for what is counted here, is not touched: workers may
\* lose it, at a cost or because another claim has come, and may compare its
\* token.
LEMMA MessageStays ==
    ASSUME IInv, NEW m \in Msgs, Slack' \in Nat, Slack' >= Slack,
           msg'[m].attempts = msg[m].attempts, msg'[m].token = msg[m].token,
           msg'[m].status = msg[m].status, msg'[m].lapsed = msg[m].lapsed,
           contested \subseteq contested', arrived \subseteq arrived',
           \A w \in Workers : sending'[w].msg = m => batch'[w][m] = 0,
           \A w \in Workers :
               \/ TokenOf(w, m)' = TokenOf(w, m)
               \/ TokenOf(w, m)' = 0 /\ (Slack' > Slack \/ ~Holds(w, m)),
           \A w \in Workers :
               Compared(w, m)' =>
                   \/ /\ Compared(w, m) /\ sending'[w].result = sending[w].result
                      /\ TokenOf(w, m)' = TokenOf(w, m)
                   \/ TokenOf(w, m)' = msg[m].token
    PROVE  Counted(m)' /\ Sole(m)' /\ Current(m)' /\ Attested(m)'
<1>1. /\ msg[m].attempts \in Nat /\ Slack \in Nat /\ Retries \in Nat
      /\ Counted(m) /\ Sole(m) /\ Current(m) /\ Attested(m)
  BY RowTypes
<1>2. Lates(m)' \subseteq Lates(m)
  <2> SUFFICES ASSUME NEW w \in Workers, Late(w, m)' PROVE Late(w, m)
    BY DEF Lates
  <2>1. TokenOf(w, m)' = TokenOf(w, m)
    BY DEF Late
  <2> QED
    BY <2>1 DEF Late
<1>3. /\ Cardinality(Lates(m)) \in Nat /\ Cardinality(Lates(m)') \in Nat
      /\ Cardinality(Lates(m)') <= Cardinality(Lates(m))
  BY <1>2, LatesAreWorkers, Sizes
<1>4. Left(m)' => Left(m) \/ Slack' > Slack
  BY DEF Left, Holds
<1>5. ASSUME msg[m].status = "PENDING" PROVE Room(m)'
  <2>1. Room(m)
    BY <1>1, <1>5 DEF Counted
  <2> DEFINE L == Cardinality(Lates(m))
             K == Cardinality(Lates(m)')
             a == msg[m].attempts
  <2>2. L <= Slack /\ a + L <= Retries + 1 + Slack /\ (Left(m) => a + L <= Retries + Slack)
    BY <2>1 DEF Room
  <2>3. /\ K <= Slack' /\ a + K <= Retries + 1 + Slack'
        /\ Left(m)' => a + K <= Retries + Slack'
    <3> HIDE DEF L, K, a
    <3>1. L \in Nat /\ K \in Nat /\ K <= L /\ a \in Nat
      BY <1>1, <1>3 DEF L, K, a
    <3> QED
      BY <1>1, <1>4, <2>2, <3>1
  <2> QED
    BY <2>3 DEF Room
<1>6. Counted(m)'
  <2>1. msg'[m].attempts <= Retries + 1 + Slack'
    BY <1>1 DEF Counted
  <2> QED
    BY <1>1, <1>5, <2>1 DEF Counted
<1>7. Sole(m)'
  <2>1. \A w \in Workers : TokenOf(w, m)' \in 0..msg'[m].attempts
    BY <1>1 DEF Sole
  <2> QED
    BY <1>1, <2>1 DEF Sole
<1>8. Current(m)'
  <2> SUFFICES ASSUME m \notin contested', NEW w \in Workers, Compared(w, m)'
               PROVE  TokenOf(w, m)' = msg'[m].token
    BY DEF Current
  <2> QED
    BY <1>1 DEF Current
<1>9. Attested(m)'
  BY <1>1 DEF Attested
<1> QED
  BY <1>6, <1>7, <1>8, <1>9

-----------------------------------------------------------------------------
(* Standalone messages.                                                    *)

\* A worker that leaves leaves its claims behind: there is room for them.
LEMMA LeavePush ==
    ASSUME IInv, NEW w \in Workers, NEW st \in {"FAILED", "OVER"}, Leave(w, st),
           Slack' = Slack + 1
    PROVE  PushInv'
<1>1. /\ UNCHANGED <<msg, arrived, contested>>
      /\ batch' = [batch EXCEPT ![w] = NoBatch]
      /\ sending' = [sending EXCEPT ![w] = NotSending]
  BY DEF Leave
<1>2. PushTypes /\ Slack \in Nat /\ MaxAttempts \in Nat
  BY Slacks DEF IInv, PushInv, ConnectionInv
<1>3. NoBatch \in [Msgs -> 0..MaxAttempts] /\ NotSending \in Request
  BY <1>2 DEF NoBatch, NotSending, Request
<1>4. PushTypes'
  BY <1>1, <1>2, <1>3 DEF PushTypes
<1>5. ASSUME NEW m \in Msgs
      PROVE  Counted(m)' /\ Sole(m)' /\ Current(m)' /\ Attested(m)'
  <2>1. \A v \in Workers \ {w} : /\ TokenOf(v, m)' = TokenOf(v, m)
                                 /\ Compared(v, m)' <=> Compared(v, m)
                                 /\ sending'[v] = sending[v] /\ batch'[v] = batch[v]
    BY <1>1, <1>2 DEF PushTypes, TokenOf, Compared
  <2>2. TokenOf(w, m)' = 0 /\ ~Compared(w, m)' /\ batch'[w][m] = 0
    BY <1>1, <1>2, BotWorkerConstants
       DEF PushTypes, TokenOf, Compared, NoBatch, NotSending
  <2>3. \A v \in Workers : sending'[v].msg = m => batch'[v][m] = 0
    BY <2>1, <2>2, RowTypes DEF Sole
  <2> QED
    BY <1>1, <1>2, <2>1, <2>2, <2>3, MessageStays
<1>6. \A v \in Workers : Honest(sending[v])'
  BY <1>1, <1>2 DEF IInv, PushInv, PushTypes, Honest, NotSending
<1> QED
  BY <1>4, <1>5, <1>6 DEF PushInv

\* What leaves the messages alone, but for when they are due.
LEMMA SamePush ==
    ASSUME IInv, UNCHANGED <<arrived, batch, sending, contested>>, Slack' \in Nat,
           Slack' >= Slack, msg' \in [Msgs -> Row],
           \A m \in Msgs :
              /\ msg'[m].attempts = msg[m].attempts /\ msg'[m].token = msg[m].token
              /\ msg'[m].status = msg[m].status /\ msg'[m].lapsed = msg[m].lapsed
    PROVE  PushInv'
<1>1. PushTypes'
  BY DEF IInv, PushInv, PushTypes
<1>2. ASSUME NEW m \in Msgs
      PROVE  Counted(m)' /\ Sole(m)' /\ Current(m)' /\ Attested(m)'
  <2>1. \A v \in Workers : /\ TokenOf(v, m)' = TokenOf(v, m)
                           /\ Compared(v, m)' <=> Compared(v, m)
                           /\ sending'[v].msg = m => batch'[v][m] = 0
    BY RowTypes DEF TokenOf, Compared, Sole
  <2> QED
    BY <2>1, MessageStays
<1>3. \A v \in Workers : Honest(sending[v])'
  BY DEF IInv, PushInv, Honest
<1> QED
  BY <1>1, <1>2, <1>3 DEF PushInv

LEMMA DuePush ==
    ASSUME IInv, NEW m \in Msgs, Due(m)
    PROVE  PushInv'
<1>1. /\ msg' = [msg EXCEPT ![m].due = TRUE]
      /\ UNCHANGED <<proc, arrived, batch, sending, contested, faults>>
  BY DEF Due
<1>2. msg \in [Msgs -> Row] /\ Slack' = Slack /\ Slack \in Nat
  BY <1>1, RowTypes DEF IInv, PushInv, PushTypes, Slack, Over
<1>3. ASSUME NEW n \in Msgs
      PROVE  /\ msg'[n] \in Row
             /\ msg'[n].attempts = msg[n].attempts /\ msg'[n].token = msg[n].token
             /\ msg'[n].status = msg[n].status /\ msg'[n].lapsed = msg[n].lapsed
  <2>1. CASE n = m
    BY <1>1, <1>2, <2>1 DEF Row
  <2>2. CASE n # m
    BY <1>1, <1>2, <2>2
  <2> QED
    BY <2>1, <2>2
<1>4. msg' \in [Msgs -> Row]
  <2>1. msg' = [n \in Msgs |-> msg'[n]]
    BY <1>1, <1>2
  <2> QED
    BY <1>3, <2>1
<1> QED
  BY <1>1, <1>2, <1>3, <1>4, SamePush

LEMMA ClaimedRow ==
    ASSUME NEW r \in Row, NEW t \in 0..MaxAttempts
    PROVE  LET new == [r EXCEPT !.attempts = t, !.token = t, !.lapsed = FALSE]
           IN  /\ new \in Row /\ new.attempts = t /\ new.token = t /\ new.lapsed = FALSE
               /\ new.status = r.status
BY DEF Row

LEMMA ClaimPush ==
    ASSUME IInv, NEW w \in Workers, Claim(w)
    PROVE  PushInv'
<1>1. UNCHANGED <<proc, faults, arrived, sending>> /\ contested \subseteq contested'
      /\ contested' \subseteq contested \cup Msgs
  BY DEF Claim, Claimable
<1>2. Slack' = Slack
  BY <1>1 DEF Slack, Over
<1>3. PushTypes
  BY DEF IInv, PushInv
<1>4. ASSUME NEW m \in Claimable
      PROVE  /\ m \in Msgs /\ msg'[m] \in Row /\ batch'[w][m] = msg'[m].attempts
             /\ msg'[m].attempts = msg[m].attempts + 1 /\ msg'[m].token = msg'[m].attempts
             /\ msg[m].status = "PENDING" /\ msg'[m].status = "PENDING" /\ ~msg'[m].lapsed
             /\ Left(m) /\ msg'[m].attempts <= Retries + 1 + Slack
             /\ batch'[w][m] \in 0..MaxAttempts
  <2>1. m \in Msgs /\ msg[m].status = "PENDING" /\ Left(m)
    BY DEF Claimable, Left, Holds
  <2>2. msg[m].attempts \in Nat /\ msg[m].attempts <= Retries + Slack
        /\ msg[m].attempts + 1 \in 0..MaxAttempts
    <3>1. Cardinality(Lates(m)) \in Nat
      BY LatesAreWorkers, Sizes
    <3>2. msg[m].attempts + Cardinality(Lates(m)) <= Retries + Slack
      BY <2>1, RowTypes DEF Counted, Room
    <3> QED
      BY <2>1, <3>1, <3>2, RowTypes
  <2> DEFINE t == msg[m].attempts + 1
             new == [msg[m] EXCEPT !.attempts = t, !.token = t, !.lapsed = FALSE]
  <2>3. msg'[m] = new /\ batch'[w][m] = t
    BY <1>3, <2>1 DEF Claim, PushTypes
  <2>4. msg[m] \in Row /\ t \in 0..MaxAttempts
    BY <2>1, <2>2, RowTypes
  <2> HIDE DEF t
  <2>5. /\ new \in Row /\ new.attempts = t /\ new.token = t /\ new.lapsed = FALSE
        /\ new.status = msg[m].status
    BY <2>4, ClaimedRow
  <2> HIDE DEF new
  <2>6. t = msg[m].attempts + 1
    BY DEF t
  <2> QED
    BY <2>1, <2>2, <2>3, <2>4, <2>5, <2>6, RowTypes
<1>5. ASSUME NEW m \in Msgs \ Claimable
      PROVE  msg'[m] = msg[m] /\ batch'[w][m] = 0
  BY <1>3 DEF Claim, PushTypes
<1>6. msg' \in [Msgs -> Row]
  <2>1. \A m \in Msgs : msg'[m] \in Row
    BY <1>3, <1>4, <1>5 DEF PushTypes
  <2>2. msg' = [m \in Msgs |-> msg'[m]]
    BY DEF Claim
  <2> QED
    BY <2>1, <2>2
<1>7. /\ batch' \in [Workers -> [Msgs -> 0..MaxAttempts]]
      /\ \A v \in Workers \ {w} : batch'[v] = batch[v]
  <2> DEFINE got == [m \in Msgs |-> IF m \in Claimable THEN msg[m].attempts + 1 ELSE 0]
  <2>1. batch' = [batch EXCEPT ![w] = got] /\ batch'[w] = got
    BY <1>3 DEF Claim, PushTypes
  <2>2. ASSUME NEW m \in Msgs PROVE got[m] \in 0..MaxAttempts
    <3>1. MaxAttempts \in Nat
      BY RowTypes
    <3> QED
      BY <1>4, <1>5, <2>1, <3>1
  <2>3. got \in [Msgs -> 0..MaxAttempts]
    BY <2>2
  <2> HIDE DEF got
  <2> QED
    BY <1>3, <2>1, <2>3 DEF PushTypes
<1>8. ASSUME NEW m \in Msgs
      PROVE  /\ TokenOf(w, m) = 0 /\ sending[w].msg # m
             /\ TokenOf(w, m)' = batch'[w][m]
             /\ \A v \in Workers \ {w} : TokenOf(v, m)' = TokenOf(v, m)
             /\ \A v \in Workers : Compared(v, m)' <=> Compared(v, m)
  <2>1. batch[w][m] = 0 /\ sending[w].msg # m
    BY DEF Claim, InHand
  <2> QED
    BY <1>1, <1>7, <2>1 DEF TokenOf, Compared
<1>9. ASSUME NEW m \in Msgs
      PROVE  Counted(m)' /\ Sole(m)' /\ Current(m)' /\ Attested(m)'
  <2>1. CASE m \in Claimable
    <3> DEFINE a == msg[m].attempts
    <3>1. /\ a \in Nat /\ Slack \in Nat /\ Retries \in Nat /\ msg[m].token \in {0, a}
          /\ Counted(m) /\ Sole(m) /\ Current(m) /\ Room(m)
      BY <1>4, <2>1, RowTypes DEF Counted
    <3>2. TokenOf(w, m)' = a + 1 /\ msg'[m].token = a + 1 /\ msg'[m].attempts = a + 1
      BY <1>4, <1>8, <2>1
    <3>3. \A v \in Workers \ {w} : TokenOf(v, m)' = TokenOf(v, m) /\ TokenOf(v, m) \in 0..a
      BY <1>8, <3>1 DEF Sole
    <3>4. Sole(m)'
      <4>1. \A v \in Workers : TokenOf(v, m)' \in 0..msg'[m].attempts
        BY <3>1, <3>2, <3>3
      <4>2. \A v \in Workers : sending'[v].msg = m => batch'[v][m] = 0
        BY <1>1, <1>7, <1>8, <3>1 DEF Sole
      <4>3. ASSUME NEW u \in Workers, NEW v \in Workers, u # v, TokenOf(u, m)' # 0
            PROVE  TokenOf(u, m)' # TokenOf(v, m)'
        BY <3>1, <3>2, <3>3, <4>3 DEF Sole
      <4> QED
        BY <4>1, <4>2, <4>3 DEF Sole
    <3>5. Lates(m)' \subseteq Lates(m)
      <4> SUFFICES ASSUME NEW v \in Workers, Late(v, m)' PROVE Late(v, m)
        BY DEF Lates
      <4>1. v # w
        BY <1>4, <2>1, <3>2 DEF Late
      <4>2. TokenOf(v, m)' = TokenOf(v, m) /\ TokenOf(v, m) # msg'[m].token
        BY <3>1, <3>2, <3>3, <4>1
      <4>3. Compared(v, m) /\ sending[v].result # "ACCEPTED" /\ TokenOf(v, m) \in 1..Retries
        BY <1>1, <1>8, <4>2 DEF Late
      <4>4. TokenOf(v, m) = msg[m].token => msg[m].lapsed
        BY <1>4, <2>1, <3>1, <4>3 DEF Left, Holds
      <4> QED
        BY <4>3, <4>4 DEF Late
    <3>6. Room(m)'
      <4>1. ~Left(m)'
        BY <1>4, <2>1, <3>1, <3>2 DEF Left, Holds
      <4> DEFINE L == Cardinality(Lates(m))
                 K == Cardinality(Lates(m)')
      <4>2. L \in Nat /\ K \in Nat /\ K <= L
        BY <3>5, LatesAreWorkers, Sizes
      <4>3. L <= Slack /\ a + L <= Retries + Slack
        BY <1>4, <2>1, <3>1 DEF Room
      <4>4. K <= Slack /\ a + 1 + K <= Retries + 1 + Slack
        <5> HIDE DEF L, K, a
        <5> QED
          BY <3>1, <4>2, <4>3
      <4> QED
        BY <1>2, <3>2, <4>1, <4>4 DEF Room
    <3>7. Counted(m)'
      BY <1>2, <1>4, <2>1, <3>2, <3>6 DEF Counted
    <3>8. Current(m)'
      <4> SUFFICES ASSUME m \notin contested', NEW v \in Workers, Compared(v, m)'
                   PROVE  FALSE
        BY DEF Current
      <4>1. sending[v].msg = m /\ sending[v].checked
        BY <1>8 DEF Compared
      <4> QED
        BY <2>1, <4>1 DEF Claim
    <3>9. Attested(m)'
      BY <1>4, <2>1 DEF Attested
    <3> QED
      BY <3>4, <3>7, <3>8, <3>9
  <2>2. CASE m \notin Claimable
    <3>1. \A v \in Workers : TokenOf(v, m)' = TokenOf(v, m)
      BY <1>5, <1>8, <2>2
    <3>2. \A v \in Workers : sending'[v].msg = m => batch'[v][m] = 0
      BY <1>1, <1>7, <1>8, RowTypes DEF Sole
    <3>3. Slack' \in Nat /\ Slack' >= Slack
      BY <1>2, RowTypes
    <3> QED
      BY <1>1, <1>5, <1>8, <2>2, <3>1, <3>2, <3>3, MessageStays
  <2> QED
    BY <2>1, <2>2
<1>10. \A v \in Workers : Honest(sending[v])'
  BY <1>1 DEF IInv, PushInv, Honest
<1> QED
  BY <1>1, <1>3, <1>6, <1>7, <1>9, <1>10 DEF PushInv, PushTypes

LEMMA SendPush ==
    ASSUME IInv, NEW w \in Workers, Send(w)
    PROVE  PushInv' /\ faults' \in 0..MaxFaults
<1>1. PICK m \in Msgs, o \in Requested(w) :
        /\ sending[w].msg = None /\ batch[w][m] # 0
        /\ batch' = [batch EXCEPT ![w][m] = 0]
        /\ sending' = [sending EXCEPT ![w] =
              [msg |-> m, token |-> batch[w][m], result |-> o[1], checked |-> FALSE]]
        /\ arrived' = IF o[2] THEN arrived \cup {m} ELSE arrived
        /\ IF CanSend(w) /\ o[1] = "RAISED" THEN Fault ELSE UNCHANGED faults
        /\ UNCHANGED <<proc, msg, contested>>
  BY DEF Send
<1>2. o[1] \in {"ACCEPTED", "RAISED"} /\ (o[1] = "ACCEPTED" => o[2] = TRUE)
  <2>1. o \in {<<"ACCEPTED", TRUE>>, <<"RAISED", TRUE>>, <<"RAISED", FALSE>>}
    BY DEF Requested
  <2>2. CASE o = <<"ACCEPTED", TRUE>>
    BY <2>2
  <2>3. CASE o = <<"RAISED", TRUE>>
    BY <2>3
  <2>4. CASE o = <<"RAISED", FALSE>>
    BY <2>4
  <2> QED
    BY <2>1, <2>2, <2>3, <2>4
<1>3. PushTypes
  BY DEF IInv, PushInv
<1>4. faults' \in {faults, faults + 1} /\ faults' \in 0..MaxFaults /\ Over' = Over
  BY <1>1, BotWorkerConstants DEF Fault, IInv, Over
<1>5. Slack' \in Nat /\ Slack' >= Slack
  BY <1>4, SameSlack, BotWorkerConstants DEF IInv
<1> DEFINE new == [msg |-> m, token |-> batch[w][m], result |-> o[1], checked |-> FALSE]
<1>6. /\ new \in Request /\ new.msg = m /\ new.token = batch[w][m] /\ new.result = o[1]
      /\ new.checked = FALSE
  BY <1>2, <1>3 DEF PushTypes, Request
<1>7. sending' = [sending EXCEPT ![w] = new]
  BY <1>1
<1> HIDE DEF new
<1>8. PushTypes'
  <2>1. arrived' \subseteq Msgs
    BY <1>1, <1>3 DEF PushTypes
  <2>2. batch' \in [Workers -> [Msgs -> 0..MaxAttempts]]
    <3>1. MaxAttempts \in Nat
      BY RowTypes
    <3> QED
      BY <1>1, <1>3, <3>1 DEF PushTypes
  <2>3. sending' \in [Workers -> Request]
    BY <1>3, <1>6, <1>7 DEF PushTypes
  <2> QED
    BY <1>1, <1>3, <2>1, <2>2, <2>3 DEF PushTypes
<1>9. sending'[w] = new /\ \A v \in Workers \ {w} : sending'[v] = sending[v]
  BY <1>3, <1>7 DEF PushTypes
<1>10. /\ batch'[w][m] = 0 /\ \A n \in Msgs \ {m} : batch'[w][n] = batch[w][n]
       /\ \A v \in Workers \ {w} : batch'[v] = batch[v]
  BY <1>1, <1>3 DEF PushTypes
<1>11. ASSUME NEW n \in Msgs
       PROVE  Counted(n)' /\ Sole(n)' /\ Current(n)' /\ Attested(n)'
  <2>1. \A v \in Workers : TokenOf(v, n)' = TokenOf(v, n)
    BY <1>1, <1>6, <1>9, <1>10, BotWorkerConstants DEF TokenOf
  <2>2. \A v \in Workers : Compared(v, n)' =>
             Compared(v, n) /\ sending'[v].result = sending[v].result
    BY <1>6, <1>9 DEF Compared
  <2>3. \A v \in Workers : sending'[v].msg = n => batch'[v][n] = 0
    BY <1>6, <1>9, <1>10, RowTypes DEF Sole
  <2>4. arrived \subseteq arrived'
    BY <1>1
  <2> QED
    BY <1>1, <1>5, <2>1, <2>2, <2>3, <2>4, MessageStays
<1>12. ASSUME NEW v \in Workers PROVE Honest(sending[v])'
  <2>1. CASE v # w
    BY <1>1, <1>9, <2>1 DEF IInv, PushInv, Honest
  <2>2. CASE v = w
    BY <1>1, <1>2, <1>6, <1>9, <2>2 DEF Honest
  <2> QED
    BY <2>1, <2>2
<1> QED
  BY <1>4, <1>8, <1>11, <1>12 DEF PushInv

\* A request of which it is known what came of it.
LEMMA Answered ==
    ASSUME IInv, NEW w \in Workers, sending[w].msg # None
    PROVE  /\ sending[w] \in Request /\ sending[w].msg \in Msgs
           /\ TokenOf(w, sending[w].msg) = sending[w].token
           /\ sending[w].token \in Nat \ {0}
           /\ batch[w][sending[w].msg] = 0
           /\ \A m \in Msgs \ {sending[w].msg} : TokenOf(w, m) = batch[w][m]
<1>1. sending[w] \in Request /\ Honest(sending[w])
  BY DEF IInv, PushInv, PushTypes
<1>2. sending[w].msg \in Msgs
  BY <1>1 DEF Request
<1>3. MaxAttempts \in Nat
  BY Slacks DEF IInv, ConnectionInv
<1> QED
  BY <1>1, <1>2, <1>3, RowTypes DEF Request, Honest, TokenOf, Sole

LEMMA ComparePush ==
    ASSUME IInv, NEW w \in Workers, Compare(w)
    PROVE  PushInv'
<1>1. PICK c \in Msgs : c = sending[w].msg
  BY Answered DEF Compare
<1> DEFINE s == sending[w]
           new == IF msg[c].token = s.token THEN [s EXCEPT !.checked = TRUE]
                  ELSE NotSending
<1>2. /\ sending' = [sending EXCEPT ![w] = new] /\ s.msg # None
      /\ UNCHANGED <<proc, msg, arrived, batch, contested, faults>>
  BY <1>1 DEF Compare
<1>3. PushTypes /\ MaxAttempts \in Nat /\ Slack' = Slack /\ Slack \in Nat
  BY <1>2, Slacks DEF IInv, PushInv, ConnectionInv, Slack, Over
<1>4. /\ s \in Request /\ s.msg = c /\ TokenOf(w, c) = s.token /\ batch[w][c] = 0
      /\ s.token \in Nat \ {0} /\ \A m \in Msgs \ {c} : TokenOf(w, m) = batch[w][m]
  BY <1>1, <1>2, Answered
<1>5. /\ new \in Request
      /\ \/ /\ msg[c].token = s.token /\ new.checked = TRUE
            /\ new.msg = c /\ new.token = s.token /\ new.result = s.result
         \/ msg[c].token # s.token /\ new = NotSending
  <2> DEFINE asked == [s EXCEPT !.checked = TRUE]
  <2>1. /\ asked \in Request /\ asked.checked = TRUE
        /\ asked.msg = c /\ asked.token = s.token /\ asked.result = s.result
    BY <1>4 DEF Request
  <2>2. NotSending \in Request
    BY <1>3 DEF Request, NotSending
  <2>3. new = IF msg[c].token = s.token THEN asked ELSE NotSending
    OBVIOUS
  <2> HIDE DEF new, asked, s
  <2> QED
    BY <2>1, <2>2, <2>3
<1>6. sending'[w] = new /\ \A v \in Workers \ {w} : sending'[v] = sending[v]
  BY <1>2, <1>3 DEF PushTypes
<1>7. Honest(s)
  BY DEF IInv, PushInv
<1> HIDE DEF new
<1>8. PushTypes'
  BY <1>2, <1>3, <1>5 DEF PushTypes
<1>9. ASSUME NEW m \in Msgs
      PROVE  Counted(m)' /\ Sole(m)' /\ Current(m)' /\ Attested(m)'
  <2>1. ASSUME NEW v \in Workers
        PROVE  /\ \/ TokenOf(v, m)' = TokenOf(v, m)
                  \/ TokenOf(v, m)' = 0 /\ ~Holds(v, m)
               /\ Compared(v, m)' =>
                    \/ /\ Compared(v, m) /\ sending'[v].result = sending[v].result
                       /\ TokenOf(v, m)' = TokenOf(v, m)
                    \/ TokenOf(v, m)' = msg[m].token
               /\ sending'[v].msg = m => batch'[v][m] = 0
    <3>1. CASE v # w
      BY <1>2, <1>6, <3>1, RowTypes DEF TokenOf, Compared, Sole
    <3>2. CASE v = w /\ msg[c].token = s.token
      BY <1>2, <1>4, <1>5, <1>6, <3>2, BotWorkerConstants DEF TokenOf, Compared
    <3>3. CASE v = w /\ msg[c].token # s.token
      <4>1. sending'[w].msg = None /\ None # m /\ batch'[w] = batch[w]
        BY <1>2, <1>5, <1>6, <3>3, BotWorkerConstants DEF NotSending
      <4>2. TokenOf(w, m)' = batch[w][m] /\ ~Compared(w, m)'
        BY <4>1 DEF TokenOf, Compared
      <4> QED
        BY <1>4, <3>3, <4>1, <4>2 DEF Holds
    <3> QED
      BY <3>1, <3>2, <3>3
  <2> QED
    BY <1>2, <1>3, <2>1, MessageStays
<1>10. ASSUME NEW v \in Workers PROVE Honest(sending[v])'
  <2>1. CASE v # w
    BY <1>2, <1>6, <2>1 DEF IInv, PushInv, Honest
  <2>2. CASE v = w
    BY <1>2, <1>4, <1>5, <1>6, <1>7, <2>2 DEF Honest, NotSending
  <2> QED
    BY <2>1, <2>2
<1> QED
  BY <1>8, <1>9, <1>10 DEF PushInv

\* What is written over the row of a message.
LEMMA WrittenRow ==
    ASSUME IInv, NEW m \in Msgs, NEW token \in Nat, NEW result
    PROVE  LET row == Written(m, token, result)
           IN /\ row \in Row /\ row.attempts = msg[m].attempts /\ row.token = 0
              /\ row.lapsed = FALSE
              /\ \/ row.status = "SENT" /\ result = "ACCEPTED"
                 \/ row.status = "FAILED"
                 \/ /\ row.status = msg[m].status /\ result # "ACCEPTED"
                    /\ token <= Retries
<1> DEFINE r == Free(m)
           row == Written(m, token, result)
<1>1. msg[m] \in Row /\ 0 \in 0..MaxAttempts /\ Retries \in Nat
  BY RowTypes
<1>2. /\ r \in Row /\ r.attempts = msg[m].attempts /\ r.token = 0 /\ r.lapsed = FALSE
      /\ r.status = msg[m].status
  BY <1>1 DEF Free, Row
<1>3. row = IF result = "ACCEPTED" THEN [r EXCEPT !.status = "SENT"]
            ELSE IF token > Retries THEN [r EXCEPT !.status = "FAILED"]
            ELSE [r EXCEPT !.due = FALSE]
  BY DEF Written
<1> HIDE DEF r, row
<1>4. CASE result = "ACCEPTED"
  <2>1. row = [r EXCEPT !.status = "SENT"]
    BY <1>3, <1>4
  <2>2. /\ row \in Row /\ row.attempts = r.attempts /\ row.token = r.token
        /\ row.lapsed = r.lapsed /\ row.status = "SENT"
    BY <1>2, <2>1 DEF Row
  <2> QED
    BY <1>2, <1>4, <2>2 DEF row
<1>5. CASE result # "ACCEPTED" /\ token > Retries
  <2>1. row = [r EXCEPT !.status = "FAILED"]
    BY <1>3, <1>5
  <2>2. /\ row \in Row /\ row.attempts = r.attempts /\ row.token = r.token
        /\ row.lapsed = r.lapsed /\ row.status = "FAILED"
    BY <1>2, <2>1 DEF Row
  <2> QED
    BY <1>2, <2>2 DEF row
<1>6. CASE result # "ACCEPTED" /\ ~(token > Retries)
  <2>1. row = [r EXCEPT !.due = FALSE] /\ token <= Retries
    BY <1>1, <1>3, <1>6
  <2>2. /\ row \in Row /\ row.attempts = r.attempts /\ row.token = r.token
        /\ row.lapsed = r.lapsed /\ row.status = r.status
    BY <1>2, <2>1 DEF Row
  <2> QED
    BY <1>2, <1>6, <2>1, <2>2 DEF row
<1> QED
  BY <1>4, <1>5, <1>6

\* A worker that writes late frees a claim, or decides, at a cost that was set
\* aside for it when its lease ran out.
LEMMA WriteRoom ==
    ASSUME IInv, NEW w \in Workers, NEW m \in Msgs, Compared(w, m),
           sending[w].result # "ACCEPTED", TokenOf(w, m) \in 1..Retries,
           Room(m), UNCHANGED Slack, TokenOf(w, m)' = 0,
           msg'[m].token = 0, msg'[m].attempts = msg[m].attempts,
           \A v \in Workers \ {w} : /\ TokenOf(v, m)' = TokenOf(v, m)
                                    /\ Compared(v, m)' <=> Compared(v, m)
                                    /\ sending'[v] = sending[v]
    PROVE  Room(m)'
<1> DEFINE a == msg[m].attempts
           L == Cardinality(Lates(m))
           K == Cardinality(Lates(m)')
<1>1. /\ a \in Nat /\ Slack \in Nat /\ Retries \in Nat /\ msg[m].token \in {0, a}
      /\ Sole(m)
  BY RowTypes DEF Counted
<1>2. L \in Nat /\ K \in Nat
  BY LatesAreWorkers, Sizes
<1>3. L <= Slack /\ a + L <= Retries + 1 + Slack
  BY DEF Room
<1>4. ASSUME NEW v \in Workers, Late(v, m)'
      PROVE  /\ v # w /\ TokenOf(v, m) \in 1..Retries
             /\ TokenOf(v, m) = msg[m].token \/ Late(v, m)
  <2>1. v # w /\ TokenOf(v, m)' \in 1..Retries
    BY <1>1, <1>4 DEF Late
  <2>2. TokenOf(v, m)' = TokenOf(v, m) /\ TokenOf(v, m) # 0
    BY <1>1, <2>1
  <2>3. Compared(v, m) /\ sending[v].result # "ACCEPTED"
    BY <1>4, <2>1, <2>2 DEF Late
  <2> QED
    BY <2>1, <2>2, <2>3 DEF Late
<1>5. \A u, v \in Workers : u # v /\ TokenOf(u, m) # 0 => TokenOf(u, m) # TokenOf(v, m)
  BY <1>1 DEF Sole
<1>6. K <= Slack /\ a + K <= Retries + Slack
  <2>1. CASE TokenOf(w, m) = msg[m].token
    <3>1. a <= Retries
      BY <1>1, <2>1
    <3>2. Lates(m)' \subseteq Lates(m)
      <4> SUFFICES ASSUME NEW v \in Workers, Late(v, m)' PROVE Late(v, m)
        BY DEF Lates
      <4> QED
        BY <1>1, <1>4, <1>5, <2>1
    <3>3. K <= L
      BY <3>2, LatesAreWorkers, Sizes
    <3> HIDE DEF a, K, L
    <3> QED
      BY <1>1, <1>2, <1>3, <3>1, <3>3
  <2>2. ASSUME TokenOf(w, m) # msg[m].token,
               NEW v \in Workers, Late(v, m)', ~Late(v, m)
        PROVE  K <= Slack /\ a + K <= Retries + Slack
    <3>1. TokenOf(v, m) = msg[m].token /\ TokenOf(v, m) \in 1..Retries
      BY <1>4, <2>2
    <3>2. a <= Retries
      BY <1>1, <3>1
    <3>3. w \in Lates(m)
      BY <2>2 DEF Lates, Late
    <3>4. Lates(m)' \subseteq (Lates(m) \ {w}) \cup {v}
      <4> SUFFICES ASSUME NEW u \in Workers, Late(u, m)', u # v
                   PROVE  u # w /\ Late(u, m)
        BY DEF Lates
      <4>1. TokenOf(v, m) # TokenOf(u, m)
        BY <1>1, <1>5, <3>1
      <4> QED
        BY <1>4, <3>1, <4>1
    <3>5. K <= L
      BY <3>3, <3>4, LatesAreWorkers, Sizes
    <3> HIDE DEF a, K, L
    <3> QED
      BY <1>1, <1>2, <1>3, <3>2, <3>5
  <2>3. CASE TokenOf(w, m) # msg[m].token /\ \A v \in Workers : Late(v, m)' => Late(v, m)
    <3>1. w \in Lates(m)
      BY <2>3 DEF Lates, Late
    <3>2. Lates(m)' \subseteq Lates(m) \ {w}
      BY <1>4, <2>3 DEF Lates
    <3>3. K + 1 <= L
      BY <3>1, <3>2, LatesAreWorkers, Sizes
    <3> HIDE DEF a, K, L
    <3> QED
      BY <1>1, <1>2, <1>3, <3>3
  <2> QED
    BY <2>1, <2>2, <2>3
<1>7. a + K <= Retries + 1 + Slack
  <2> HIDE DEF a, K
  <2> QED
    BY <1>1, <1>2, <1>6
<1> QED
  BY <1>6, <1>7 DEF Room

LEMMA WritePush ==
    ASSUME IInv, NEW w \in Workers, Write(w)
    PROVE  PushInv'
<1>1. PushTypes /\ MaxAttempts \in Nat /\ Slack \in Nat /\ Retries \in Nat
  BY Slacks, BotWorkerConstants DEF IInv, PushInv, ConnectionInv
<1>2. sending[w].msg # None /\ sending[w].checked /\ Honest(sending[w])
  BY DEF IInv, PushInv, Write, Honest
<1>3. PICK m \in Msgs : m = sending[w].msg
  BY <1>2, Answered
<1> DEFINE token == sending[w].token
           result == sending[w].result
           row == Written(m, token, result)
<1>4. /\ msg' = [msg EXCEPT ![m] = row] /\ sending' = [sending EXCEPT ![w] = NotSending]
      /\ UNCHANGED <<proc, arrived, batch, contested, faults>>
  BY <1>3 DEF Write
<1>5. /\ TokenOf(w, m) = token /\ token \in Nat \ {0} /\ batch[w][m] = 0
      /\ \A n \in Msgs \ {m} : TokenOf(w, n) = batch[w][n]
      /\ Compared(w, m)
  BY <1>2, <1>3, Answered DEF Compared
<1>6. /\ row \in Row /\ row.attempts = msg[m].attempts /\ row.token = 0
      /\ \/ row.status = "SENT" /\ result = "ACCEPTED"
         \/ row.status = "FAILED"
         \/ row.status = msg[m].status /\ result # "ACCEPTED" /\ token <= Retries
  <2>1. token \in Nat
    BY <1>5
  <2> HIDE DEF token, result
  <2> QED
    BY <2>1, WrittenRow
<1>7. Slack' = Slack
  BY <1>4 DEF Slack, Over
<1>8. NotSending \in Request /\ NotSending.msg = None /\ ~NotSending.checked
  BY <1>1 DEF NotSending, Request
<1>9. msg'[m] = row /\ \A n \in Msgs \ {m} : msg'[n] = msg[n]
  BY <1>1, <1>4 DEF PushTypes
<1>10. sending'[w] = NotSending /\ \A v \in Workers \ {w} : sending'[v] = sending[v]
  BY <1>1, <1>4 DEF PushTypes
<1> HIDE DEF row
<1>11. PushTypes'
  BY <1>1, <1>4, <1>6, <1>8 DEF PushTypes
<1>12. ASSUME NEW n \in Msgs
       PROVE  /\ \A v \in Workers \ {w} : /\ TokenOf(v, n)' = TokenOf(v, n)
                                          /\ Compared(v, n)' <=> Compared(v, n)
              /\ TokenOf(w, n)' = batch[w][n] /\ ~Compared(w, n)'
              /\ \A v \in Workers : sending'[v].msg = n => batch'[v][n] = 0
  <2>1. sending'[w].msg = None /\ None # n
    BY <1>8, <1>10, BotWorkerConstants
  <2> QED
    BY <1>4, <1>10, <2>1, RowTypes DEF TokenOf, Compared, Sole
<1>13. Counted(m)' /\ Sole(m)' /\ Current(m)' /\ Attested(m)'
  <2>1. /\ Counted(m) /\ Sole(m) /\ Current(m) /\ Attested(m)
        /\ msg[m].attempts \in Nat
    BY RowTypes
  <2>2. \A v \in Workers \ {w} : TokenOf(v, m)' = TokenOf(v, m)
    BY <1>12
  <2>3. TokenOf(w, m)' = 0
    BY <1>5, <1>12
  <2>4. Sole(m)'
    <3>1. \A v \in Workers : TokenOf(v, m)' \in 0..msg'[m].attempts
      BY <1>6, <1>9, <2>1, <2>2, <2>3 DEF Sole
    <3>2. \A v \in Workers : sending'[v].msg = m => batch'[v][m] = 0
      BY <1>12
    <3>3. ASSUME NEW u \in Workers, NEW v \in Workers, u # v, TokenOf(u, m)' # 0
          PROVE  TokenOf(u, m)' # TokenOf(v, m)'
      BY <2>1, <2>2, <2>3, <3>3 DEF Sole
    <3> QED
      BY <3>1, <3>2, <3>3 DEF Sole
  <2>5. Current(m)'
    <3> SUFFICES ASSUME m \notin contested, NEW v \in Workers, Compared(v, m)'
                 PROVE  FALSE
      BY <1>4 DEF Current
    <3>1. v # w /\ Compared(v, m)
      BY <1>12
    <3>2. TokenOf(v, m) = TokenOf(w, m)
      BY <1>5, <2>1, <3>1 DEF Current
    <3> QED
      BY <1>5, <2>1, <3>1, <3>2 DEF Sole
  <2>6. Attested(m)'
    BY <1>2, <1>3, <1>4, <1>6, <1>9, <2>1 DEF Attested, Honest
  <2>7. Counted(m)'
    <3>1. ASSUME row.status = "PENDING"
          PROVE  Room(m)'
      <4>1. msg[m].status = "PENDING" /\ result # "ACCEPTED" /\ token \in 1..Retries
        BY <1>1, <1>5, <1>6, <3>1
      <4>2. Room(m)
        BY <2>1, <4>1 DEF Counted
      <4> QED
        BY <1>5, <1>6, <1>7, <1>9, <1>10, <1>12, <2>2, <2>3, <4>1, <4>2, WriteRoom
    <3> QED
      BY <1>6, <1>7, <1>9, <2>1, <3>1 DEF Counted
  <2> QED
    BY <2>4, <2>5, <2>6, <2>7
<1>14. ASSUME NEW n \in Msgs \ {m}
       PROVE  Counted(n)' /\ Sole(n)' /\ Current(n)' /\ Attested(n)'
  <2>1. \A v \in Workers : TokenOf(v, n)' = TokenOf(v, n)
    BY <1>5, <1>12
  <2>2. \A v \in Workers : Compared(v, n)' =>
             Compared(v, n) /\ sending'[v].result = sending[v].result
    BY <1>10, <1>12
  <2> QED
    BY <1>1, <1>4, <1>7, <1>9, <1>12, <2>1, <2>2, MessageStays
<1>15. ASSUME NEW v \in Workers PROVE Honest(sending[v])'
  <2>1. CASE v # w
    BY <1>4, <1>10, <2>1 DEF IInv, PushInv, Honest
  <2>2. CASE v = w
    BY <1>8, <1>10, <2>2 DEF Honest
  <2> QED
    BY <2>1, <2>2
<1> QED
  BY <1>11, <1>13, <1>14, <1>15 DEF PushInv

LEMMA LapsePush ==
    ASSUME IInv, NEW m \in Msgs, Lapse(m)
    PROVE  PushInv' /\ faults' \in 0..MaxFaults
<1>1. /\ msg' = [msg EXCEPT ![m].lapsed = TRUE] /\ msg[m].token # 0
      /\ UNCHANGED <<proc, arrived, batch, sending, contested>>
  BY DEF Lapse
<1>2. PushTypes /\ faults \in 0..MaxFaults
  BY DEF IInv, PushInv
<1>3. faults' \in {faults, faults + 1} /\ faults' \in 0..MaxFaults /\ Over' = Over
  BY <1>1, <1>2, BotWorkerConstants DEF Lapse, Fault, Over
<1>4. Slack' \in Nat /\ Slack \in Nat /\ Slack' >= Slack
  BY <1>3, SameSlack, BotWorkerConstants DEF IInv
<1>5. (\E w \in Workers : InHand(w, m)) => Slack' = Slack + 1
  BY <1>2, <1>3, SameSlack, BotWorkerConstants DEF Lapse, Fault, IInv
<1>6. /\ msg'[m] \in Row /\ msg'[m].lapsed = TRUE
      /\ msg'[m].attempts = msg[m].attempts /\ msg'[m].token = msg[m].token
      /\ msg'[m].status = msg[m].status
      /\ \A n \in Msgs \ {m} : msg'[n] = msg[n]
  BY <1>1, <1>2 DEF PushTypes, Row
<1>7. PushTypes'
  BY <1>1, <1>2, <1>6 DEF PushTypes
<1>8. ASSUME NEW n \in Msgs
      PROVE  \A w \in Workers : /\ TokenOf(w, n)' = TokenOf(w, n)
                                /\ Compared(w, n)' <=> Compared(w, n)
  BY <1>1 DEF TokenOf, Compared
<1>9. ASSUME NEW n \in Msgs \ {m}
      PROVE  Counted(n)' /\ Sole(n)' /\ Current(n)' /\ Attested(n)'
  <2>1. \A v \in Workers : sending'[v].msg = n => batch'[v][n] = 0
    BY <1>1, RowTypes DEF Sole
  <2> QED
    BY <1>1, <1>4, <1>6, <1>8, <2>1, MessageStays
<1>10. Sole(m)' /\ Current(m)' /\ Attested(m)'
  <2>1. Sole(m) /\ Current(m) /\ Attested(m)
    BY RowTypes
  <2>2. Sole(m)'
    BY <1>1, <1>6, <1>8, <2>1 DEF Sole
  <2>3. Current(m)'
    BY <1>1, <1>6, <1>8, <2>1 DEF Current
  <2>4. Attested(m)'
    BY <1>1, <1>6, <2>1 DEF Attested
  <2> QED
    BY <2>2, <2>3, <2>4
<1>11. Counted(m)'
  <2> DEFINE a == msg[m].attempts
             L == Cardinality(Lates(m))
             K == Cardinality(Lates(m)')
  <2>1. /\ a \in Nat /\ Retries \in Nat /\ msg[m].token = a /\ Counted(m) /\ Sole(m)
        /\ msg[m].status = "PENDING" /\ Room(m)
    BY <1>1, RowTypes DEF Counted
  <2>2. L \in Nat /\ K \in Nat
    BY LatesAreWorkers, Sizes
  <2>3. L <= Slack /\ a + L <= Retries + 1 + Slack /\ (Left(m) => a + L <= Retries + Slack)
    BY <2>1 DEF Room
  <2>4. ASSUME NEW v \in Workers, Late(v, m)'
        PROVE  TokenOf(v, m) \in 1..Retries /\ (Holds(v, m) \/ Late(v, m))
    <3>1. TokenOf(v, m) \in 1..Retries
      BY <1>8, <2>4 DEF Late
    <3>2. CASE TokenOf(v, m) = msg[m].token
      BY <2>1, <3>1, <3>2 DEF Holds
    <3>3. CASE TokenOf(v, m) # msg[m].token
      BY <1>1, <1>6, <1>8, <2>4, <3>1, <3>3 DEF Late
    <3> QED
      BY <3>1, <3>2, <3>3
  <2>5. K <= Slack' /\ a + K <= Retries + Slack'
    <3>1. ASSUME NEW w \in Workers, Holds(w, m), a <= Retries
          PROVE  K <= Slack' /\ a + K <= Retries + Slack'
      <4>1. Lates(m)' \subseteq Lates(m) \cup {w}
        <5> SUFFICES ASSUME NEW v \in Workers, Late(v, m)', v # w PROVE Late(v, m)
          BY DEF Lates
        <5>1. ~Holds(v, m)
          BY <2>1, <3>1 DEF Sole, Holds
        <5> QED
          BY <2>4, <5>1
      <4>2. K <= L + 1
        BY <4>1, LatesAreWorkers, Sizes
      <4>3. Slack' = Slack + 1
        BY <1>5, <3>1 DEF Holds, TokenOf, InHand
      <4> HIDE DEF a, K, L
      <4> QED
        BY <1>4, <2>1, <2>2, <2>3, <3>1, <4>2, <4>3
    <3>2. ASSUME ~(a <= Retries /\ \E w \in Workers : Holds(w, m))
          PROVE  K <= Slack' /\ a + K <= Retries + Slack'
      <4>1. Lates(m)' \subseteq Lates(m)
        <5> SUFFICES ASSUME NEW v \in Workers, Late(v, m)' PROVE Late(v, m)
          BY DEF Lates
        <5>1. Holds(v, m) => a \in 1..Retries
          BY <2>1, <2>4 DEF Holds
        <5> QED
          BY <2>1, <2>4, <3>2, <5>1
      <4>2. K <= L
        BY <4>1, LatesAreWorkers, Sizes
      <4>3. Slack' = Slack + 1 \/ Left(m)
        BY <1>5 DEF Left, Holds, TokenOf, InHand
      <4>4. a + L <= Retries + Slack' /\ L <= Slack'
        BY <1>4, <2>1, <2>2, <2>3, <4>3
      <4>5. a \in Nat /\ L \in Nat /\ K \in Nat /\ Retries \in Nat
        BY <2>1, <2>2
      <4> QED
        BY <1>4, <4>2, <4>4, <4>5
    <3> QED
      BY <3>1, <3>2
  <2>6. a <= Retries + 1 + Slack' /\ a + K <= Retries + 1 + Slack'
    <3>1. a <= Retries + 1 + Slack
      BY <2>1 DEF Counted
    <3>2. a \in Nat /\ K \in Nat /\ Retries \in Nat /\ a + K <= Retries + Slack'
      BY <2>1, <2>2, <2>5
    <3> QED
      BY <1>4, <3>1, <3>2
  <2>7. Room(m)'
    BY <1>6, <2>5, <2>6 DEF Room
  <2> QED
    BY <1>6, <2>1, <2>6, <2>7 DEF Counted
<1>12. \A v \in Workers : Honest(sending[v])'
  BY <1>1 DEF IInv, PushInv, Honest
<1> QED
  BY <1>3, <1>7, <1>9, <1>10, <1>11, <1>12 DEF PushInv

LEMMA PushStep ==
    ASSUME IInv, Next
    PROVE  PushInv' /\ faults' \in 0..MaxFaults
<1> USE DEF IInv
<1>1. ASSUME NEW w \in Workers, Crash(w) \/ StartTimesOut(w) \/ Stop(w)
      PROVE  PushInv' /\ faults' \in 0..MaxFaults
  BY <1>1, LeavingCounts, LeavePush
<1>2. CASE \/ \E w \in Workers : \/ Begin(w) \/ Started(w) \/ Connect(w) \/ Drop(w)
                                 \/ Displaced(w) \/ Receive(w) \/ Handled(w)
           \/ \E f \in Frames : OnRawMessage(f) \/ NormalizeAndQueue(f)
  <2>1. UNCHANGED <<msg, arrived, batch, sending, contested>>
    BY <1>2 DEF Begin, Started, Connect, Drop, Displaced, Receive, Handled, OnRawMessage,
                NormalizeAndQueue, push
  <2>2. Over' = Over
    <3>1. CASE UNCHANGED proc
      BY <3>1 DEF Over
    <3>2. CASE \E w \in Workers : Begin(w) \/ Started(w)
      BY <3>2 DEF Begin, Started, Over, ConnectionInv
    <3> QED
      BY <1>2, <3>1, <3>2 DEF Connect, Drop, Displaced, Receive, Handled, OnRawMessage,
                              NormalizeAndQueue
  <2>3. faults' \in {faults, faults + 1} /\ faults' \in 0..MaxFaults
    <3>1. UNCHANGED faults \/ Fault
      BY <1>2 DEF Begin, Started, Connect, Drop, Displaced, Receive, Handled, OnRawMessage,
                  NormalizeAndQueue
    <3> QED
      BY <3>1, BotWorkerConstants DEF Fault
  <2>4. Slack' \in Nat /\ Slack' >= Slack
    BY <2>2, <2>3, SameSlack, BotWorkerConstants
  <2> QED
    BY <2>1, <2>3, <2>4, SamePush DEF PushInv, PushTypes
<1>3. ASSUME NEW w \in Workers, Claim(w) \/ Compare(w) \/ Write(w)
      PROVE  PushInv' /\ faults' \in 0..MaxFaults
  BY <1>3, ClaimPush, ComparePush, WritePush DEF Claim, Compare, Write
<1>4. ASSUME NEW m \in Msgs, Due(m)
      PROVE  PushInv' /\ faults' \in 0..MaxFaults
  BY <1>4, DuePush DEF Due
<1> QED
  BY <1>1, <1>2, <1>3, <1>4, SendPush, LapsePush DEF Next

-----------------------------------------------------------------------------
(* The theorems.                                                           *)

LEMMA InitIInv == Init => IInv
<1> SUFFICES ASSUME Init PROVE IInv
  OBVIOUS
<1>1. MaxAttempts \in Nat
  BY BotWorkerConstants, FS_CardinalityType DEF MaxAttempts
<1>2. ConnectionInv
  BY DEF Init, ConnectionInv, Running
<1>3. InboundInv
  <2>1. [at |-> "NEW", by |-> None] \in Place
    BY DEF Place
  <2> QED
    BY <2>1 DEF Init, InboundInv
<1>4. PushTypes
  <2>1. /\ [status |-> "PENDING", attempts |-> 0, token |-> 0, lapsed |-> FALSE, due |-> TRUE]
             \in Row
        /\ NoBatch \in [Msgs -> 0..MaxAttempts] /\ NotSending \in Request
    BY <1>1 DEF Row, NoBatch, NotSending, Request
  <2> QED
    BY <2>1 DEF Init, PushTypes
<1>5. faults \in 0..MaxFaults
  BY BotWorkerConstants DEF Init
<1>6. Slack \in Nat
  BY <1>2, <1>5, Slacks DEF ConnectionInv
<1>7. ASSUME NEW m \in Msgs PROVE Counted(m) /\ Sole(m) /\ Current(m) /\ Attested(m)
  <2>1. /\ msg[m].attempts = 0 /\ msg[m].token = 0 /\ msg[m].status = "PENDING"
        /\ \A w \in Workers : sending[w] = NotSending /\ batch[w][m] = 0
    BY DEF Init, NoBatch
  <2>2. \A w \in Workers : TokenOf(w, m) = 0 /\ ~Compared(w, m)
    BY <2>1, BotWorkerConstants DEF TokenOf, Compared, NotSending
  <2>3. Lates(m) = {}
    BY <2>2, BotWorkerConstants DEF Lates, Late
  <2>4. Cardinality(Lates(m)) = 0
    BY <2>3, FS_EmptySet
  <2>5. Room(m)
    BY <1>6, <2>1, <2>4, BotWorkerConstants DEF Room
  <2> QED
    BY <1>6, <2>1, <2>2, <2>5, BotWorkerConstants DEF Counted, Sole, Current, Attested
<1>8. \A w \in Workers : Honest(sending[w])
  BY DEF Init, Honest, NotSending
<1> QED
  BY <1>2, <1>3, <1>4, <1>5, <1>7, <1>8 DEF IInv, PushInv

LEMMA StutterIInv ==
    ASSUME IInv, UNCHANGED vars
    PROVE  IInv'
<1>1. UNCHANGED <<proc, displaced, conn, served, notice, frame, events, busy, msg, arrived,
                  batch, sending, contested, faults>>
  BY DEF vars, connection, inbound, push
<1>2. ConnectionInv' /\ InboundInv' /\ faults' \in 0..MaxFaults
  BY <1>1 DEF IInv, ConnectionInv, InboundInv, Running, Told, Decodes
<1>3. Over' = Over /\ Slack \in Nat
  BY <1>1, Slacks DEF Over, IInv, ConnectionInv
<1>4. Slack' = Slack
  BY <1>1, <1>3 DEF Slack
<1> QED
  BY <1>1, <1>2, <1>3, <1>4, SamePush DEF IInv, PushInv, PushTypes

\* The inductive invariant holds throughout.
THEOREM WorkersInvariant == Spec => []IInv
<1>1. IInv /\ [Next]_vars => IInv'
  BY ConnectionStep, InboundStep, PushStep, StutterIInv DEF IInv
<1> QED
  BY <1>1, InitIInv, PTL DEF Spec

\* Every variable keeps its type.  A message is tried no oftener than its
\* retries, what went wrong and the workers that ended account for, and WeCom
\* serves a connection that is open, of a worker no notice is on its way to.
THEOREM WorkersTypeCorrect == Spec => []TypeOK
<1>1. IInv => TypeOK
  BY DEF IInv, ConnectionInv, InboundInv, PushInv, PushTypes, TypeOK, Running, Events, Told
<1> QED
  BY <1>1, WorkersInvariant, PTL

\* Only a claim and the write of a result touch what was decided about a message.
LEMMA Undecided ==
    ASSUME IInv, NEW m \in Msgs, [Next]_vars, \A w \in Workers : ~Write(w)
    PROVE  /\ msg'[m].status = msg[m].status
           /\ msg'[m].attempts # msg[m].attempts => msg[m].status = "PENDING"
           /\ (m \in contested') # (m \in contested) => msg[m].status = "PENDING"
<1>1. msg \in [Msgs -> Row] /\ msg[m] \in Row
  BY DEF IInv, PushInv, PushTypes
<1>2. CASE \E w \in Workers : Claim(w)
  <2>1. PICK w \in Workers : Claim(w)
    BY <1>2
  <2>2. CASE m \in Claimable
    <3>1. msg[m].status = "PENDING"
      BY <2>2 DEF Claimable
    <3>2. msg'[m] = [msg[m] EXCEPT !.attempts = @ + 1, !.token = msg[m].attempts + 1,
                                   !.lapsed = FALSE]
      BY <2>1, <2>2 DEF Claim
    <3> QED
      BY <1>1, <3>1, <3>2 DEF Row
  <2>3. CASE m \notin Claimable
    <3>1. msg'[m] = msg[m] /\ (m \in contested' <=> m \in contested)
      BY <2>1, <2>3 DEF Claim
    <3> QED
      BY <3>1
  <2> QED
    BY <2>2, <2>3
<1>3. CASE \E n \in Msgs : Lapse(n) \/ Due(n)
  <2>1. /\ UNCHANGED contested
        /\ \/ msg'[m] = msg[m]
           \/ msg'[m] = [msg[m] EXCEPT !.lapsed = TRUE]
           \/ msg'[m] = [msg[m] EXCEPT !.due = TRUE]
    BY <1>1, <1>3 DEF Lapse, Due
  <2> QED
    BY <1>1, <2>1 DEF Row
<1>4. CASE UNCHANGED <<msg, contested>>
  BY <1>4
<1>5. CASE \/ UNCHANGED vars
           \/ \E w \in Workers : \/ Begin(w) \/ Crash(w) \/ StartTimesOut(w) \/ Started(w)
                                 \/ Stop(w) \/ Connect(w) \/ Drop(w) \/ Displaced(w)
                                 \/ Receive(w) \/ Handled(w) \/ Send(w) \/ Compare(w)
           \/ \E f \in Frames : OnRawMessage(f) \/ NormalizeAndQueue(f)
  <2>1. UNCHANGED <<msg, contested>>
    BY <1>5 DEF Begin, Crash, StartTimesOut, Started, Stop, Leave, Connect, Drop, Displaced,
                Receive, Handled, Send, Compare, OnRawMessage, NormalizeAndQueue, push, vars
  <2> QED
    BY <1>4, <2>1
<1> QED
  BY <1>2, <1>3, <1>5 DEF Next

\* What a worker writes, wherever the row has got to since it compared its token.
LEMMA WriteDecides ==
    ASSUME IInv, NEW w \in Workers, Write(w)
    PROVE  \E m \in Msgs, row \in Row :
              /\ msg' = [msg EXCEPT ![m] = row] /\ UNCHANGED <<arrived, contested>>
              /\ Compared(w, m)
              /\ row.attempts = msg[m].attempts
              /\ \/ row.status = "SENT" /\ m \in arrived
                 \/ row.status = "FAILED"
                 \/ row.status = msg[m].status
<1>1. sending[w].msg # None /\ Honest(sending[w]) /\ sending[w].checked
  BY DEF IInv, PushInv, Write, Honest
<1>2. PICK m \in Msgs : m = sending[w].msg
  BY <1>1, Answered
<1>3. PICK token \in Nat : token = sending[w].token
  BY <1>1, Answered
<1>4. PICK result : result = sending[w].result
  OBVIOUS
<1> DEFINE row == Written(m, token, result)
<1>5. msg' = [msg EXCEPT ![m] = row] /\ UNCHANGED <<arrived, contested>>
  BY <1>2, <1>3, <1>4 DEF Write
<1>6. /\ row \in Row /\ row.attempts = msg[m].attempts
      /\ \/ row.status = "SENT" /\ result = "ACCEPTED"
         \/ row.status = "FAILED"
         \/ row.status = msg[m].status
  BY WrittenRow
<1> HIDE DEF row
<1>7. Compared(w, m) /\ (result = "ACCEPTED" => m \in arrived)
  BY <1>1, <1>2, <1>4 DEF Compared, Honest
<1> QED
  BY <1>5, <1>6, <1>7

\* No decision is taken back, whoever writes a result over it: a message is not
\* tried again once it is SENT or FAILED, and is SENT only if it reached WeCom.
THEOREM DecisionsStand == Spec => DecisionStands
<1> DEFINE Stands == \A m \in Msgs : msg[m].status # "PENDING" =>
                        /\ msg'[m].status \in {"SENT", "FAILED"}
                        /\ msg'[m].attempts = msg[m].attempts
                        /\ msg'[m].status = "SENT" => m \in arrived
<1>1. ASSUME IInv, [Next]_vars PROVE Stands
  <2> SUFFICES ASSUME NEW m \in Msgs, msg[m].status # "PENDING"
               PROVE  /\ msg'[m].status \in {"SENT", "FAILED"}
                      /\ msg'[m].attempts = msg[m].attempts
                      /\ msg'[m].status = "SENT" => m \in arrived
    OBVIOUS
  <2>1. /\ msg[m].status \in {"SENT", "FAILED"} /\ (msg[m].status = "SENT" => m \in arrived)
        /\ msg \in [Msgs -> Row]
    BY <1>1, RowTypes DEF Attested, IInv, PushInv, PushTypes
  <2>2. CASE \A w \in Workers : ~Write(w)
    BY <1>1, <2>1, <2>2, Undecided
  <2>3. CASE \E w \in Workers : Write(w)
    <3>1. PICK c \in Msgs, row \in Row :
            /\ msg' = [msg EXCEPT ![c] = row] /\ UNCHANGED arrived
            /\ row.attempts = msg[c].attempts
            /\ \/ row.status = "SENT" /\ c \in arrived
               \/ row.status = "FAILED"
               \/ row.status = msg[c].status
      BY <1>1, <2>3, WriteDecides
    <3> QED
      BY <2>1, <3>1
  <2> QED
    BY <2>2, <2>3
<1>2. IInv /\ [Next]_vars => [Stands]_vars
  BY <1>1
<1>3. Spec => [][Stands]_vars
  BY <1>2, WorkersInvariant, PTL DEF Spec
<1> QED
  BY <1>3 DEF DecisionStands

LEMMA StepPromise ==
    ASSUME IInv, [Next]_vars
    PROVE  [Promise!Next]_(Promise!vars)
<1> DEFINE outcome == [m \in Msgs |-> IF m \in contested THEN "PENDING" ELSE msg[m].status]
           came == [m \in Msgs |-> IF m \in arrived THEN {1} ELSE {}]
<1> USE DEF Promise!vars
<1>1. CASE \E w \in Workers : Send(w)
  <2>1. PICK m \in Msgs : /\ arrived' \in {arrived, arrived \cup {m}}
                          /\ UNCHANGED <<msg, contested>>
    BY <1>1 DEF Send
  <2>2. CASE arrived' = arrived
    BY <2>1, <2>2
  <2>3. CASE arrived' = arrived \cup {m}
    <3>1. came' = [came EXCEPT ![m] = @ \cup {1}] /\ outcome' = outcome
      BY <2>1, <2>3
    <3>2. Promise!Arrive(m, 1)
      BY <3>1 DEF Promise!Arrive, Promise!Positions
    <3> QED
      BY <3>2 DEF Promise!Next, Promise!Positions
  <2> QED
    BY <2>1, <2>2, <2>3
<1>2. CASE \E w \in Workers : Write(w)
  <2>1. PICK w \in Workers, c \in Msgs, row \in Row :
          /\ msg' = [msg EXCEPT ![c] = row] /\ UNCHANGED <<arrived, contested>>
          /\ Compared(w, c)
          /\ \/ row.status = "SENT" /\ c \in arrived
             \/ row.status = "FAILED"
             \/ row.status = msg[c].status
    BY <1>2, WriteDecides
  <2>2. msg \in [Msgs -> Row]
    BY DEF IInv, PushInv, PushTypes
  <2>3. msg'[c] = row /\ \A n \in Msgs \ {c} : msg'[n] = msg[n]
    BY <2>1, <2>2
  <2>4. came' = came
    BY <2>1
  <2>5. CASE row.status = msg[c].status \/ c \in contested
    <3>1. outcome' = outcome
      BY <2>1, <2>3, <2>5
    <3> QED
      BY <2>4, <3>1
  <2>6. CASE row.status # msg[c].status /\ c \notin contested
    <3>1. msg[c].status = "PENDING"
      <4>1. TokenOf(w, c) = msg[c].token
        BY <2>1, <2>6, RowTypes DEF Current
      <4>2. TokenOf(w, c) # 0
        BY <2>1, Answered, BotWorkerConstants DEF Compared
      <4> QED
        BY <4>1, <4>2, RowTypes DEF Counted
    <3>2. outcome' = [outcome EXCEPT ![c] = row.status]
      <4>1. \A n \in Msgs : msg'[n].status = IF n = c THEN row.status ELSE msg[n].status
        BY <2>3
      <4> QED
        BY <2>1, <2>6, <4>1
    <3>3. outcome[c] = "PENDING" /\ row.status \in {"SENT", "FAILED"}
          /\ (row.status = "SENT" => came[c] = {1})
      BY <2>1, <2>6, <3>1
    <3>4. Promise!Positions(c) = {1}
      BY DEF Promise!Positions
    <3>5. Promise!Decide(c)
      <4>1. CASE row.status = "SENT"
        BY <2>4, <3>2, <3>3, <3>4, <4>1 DEF Promise!Decide
      <4>2. CASE row.status = "FAILED"
        BY <2>4, <3>2, <3>3, <4>2 DEF Promise!Decide
      <4> QED
        BY <3>3, <4>1, <4>2
    <3> QED
      BY <3>5 DEF Promise!Next
  <2> QED
    BY <2>5, <2>6
<1>3. CASE \A w \in Workers : ~Write(w) /\ ~Send(w)
  <2>1. ASSUME NEW m \in Msgs
        PROVE  (IF m \in contested' THEN "PENDING" ELSE msg'[m].status)
                  = IF m \in contested THEN "PENDING" ELSE msg[m].status
    BY <1>3, Undecided
  <2>2. outcome' = outcome
    BY <2>1
  <2>3. UNCHANGED arrived
    BY <1>3 DEF Next, Begin, Crash, StartTimesOut, Started, Stop, Leave, Connect, Drop,
                Displaced, Receive, Handled, Claim, Compare, OnRawMessage, NormalizeAndQueue,
                Lapse, Due, push, vars
  <2> QED
    BY <2>2, <2>3
<1> QED
  BY <1>1, <1>2, <1>3

\* The safety part of the promise: a standalone message is SENT only if it
\* reached WeCom, and decided once, even by workers that take the connection and
\* the claims from each other.  Decided once is not said of a contested message,
\* which one worker claimed when another had compared its token and not yet
\* written the result.
THEOREM WorkersImplementOutbox == Spec => Promise!Safety
<1>1. Init => Promise!Init
  BY DEF Init, Promise!Init
<1>2. IInv /\ [Next]_vars => [Promise!Next]_(Promise!vars)
  BY StepPromise
<1> QED
  BY <1>1, <1>2, WorkersInvariant, PTL DEF Spec, Promise!Safety
=============================================================================
