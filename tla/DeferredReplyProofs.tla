------------------------ MODULE DeferredReplyProofs -------------------------
(***************************************************************************)
(* A placeholder is always in somebody's hands, and every message is sent, *)
(* pushed and kept at most once, for any messages, crashes, repetitions    *)
(* and faults.                                                             *)
(***************************************************************************)
EXTENDS DeferredReply, TLAPS

\* The steps at which the loop has a placeholder that it has not yet booked or
\* given back.
InWork == {"posted", "remembered", "saved", "unmatched", "taken", "replied", "raised"}

\* The part of the types that the first proof needs: what the store holds is of
\* no consequence to it.
Shape ==
    /\ delivery \in [Messages -> {"NONE", "PENDING", "PLACEHOLDER", "REPLIED", "PUSHED"}]
    /\ up \in BOOLEAN
    /\ loop.at \in Steps
    /\ loop = [at |-> loop.at, msg |-> loop.msg, suppress |-> loop.suppress,
               callback |-> loop.callback]
    /\ loop.at # "idle" => loop.msg \in Messages

\* Only a message that quotes a case is suppressed, since only it can have
\* suppressed its push.
OnlyQuoting == loop.suppress => loop.msg \in Quoting

\* Who has a placeholder: the next start, a swallowed exception, or the loop in
\* one of the steps of InWork.  A repeated callback finds it with an exception.
Holder ==
    \A m \in Messages : IsPlaceholder(m) =>
        \/ ~up
        \/ m \in stranded
        \/ loop.msg = m /\ loop.suppress /\ loop.at \in InWork

IInv == Shape /\ OnlyQuoting /\ Holder

LEMMA InitIInv == Init => IInv
BY DEF Init, IInv, Shape, OnlyQuoting, Holder, Idle, IsPlaceholder, Steps

LEMMA IdleIsShaped ==
    /\ Idle.at = "idle" /\ Idle.at \in Steps /\ ~Idle.suppress
    /\ Idle = [at |-> Idle.at, msg |-> Idle.msg, suppress |-> Idle.suppress,
               callback |-> Idle.callback]
BY DEF Idle, Steps

\* The loop goes on with the same message.
LEMMA GoKeeps ==
    ASSUME Shape, NEW step \in Steps, Go(step)
    PROVE  /\ loop'.at = step /\ loop'.msg = loop.msg
           /\ loop'.suppress = loop.suppress
           /\ loop' = [at |-> loop'.at, msg |-> loop'.msg, suppress |-> loop'.suppress,
                       callback |-> loop'.callback]
BY DEF Shape, Go

-----------------------------------------------------------------------------
(* One step each.                                                          *)

LEMMA ReceiveKeeps == ASSUME IInv, NEW m \in Messages, Receive(m) PROVE IInv'
<1>1. /\ loop' = [at |-> "received", msg |-> m, suppress |-> Suppressed(m),
                  callback |-> Nothing]
      /\ loop.at = "idle" /\ UNCHANGED <<delivery, stranded, up>>
  BY DEF Receive, At, desk, history
<1>2. Shape'
  BY <1>1 DEF IInv, Shape, Steps
<1>3. OnlyQuoting'
  BY <1>1 DEF OnlyQuoting, Suppressed
<1>4. Holder'
  BY <1>1 DEF IInv, Holder, InWork, IsPlaceholder
<1> QED
  BY <1>2, <1>3, <1>4 DEF IInv

\* A step after which the loop has nothing in hand.
LEMMA Rested ==
    ASSUME IInv, loop' = Idle,
           delivery' \in [Messages -> {"NONE", "PENDING", "PLACEHOLDER", "REPLIED", "PUSHED"}],
           up' \in BOOLEAN,
           \A m \in Messages : IsPlaceholder(m)' => ~up' \/ m \in stranded'
    PROVE  IInv'
BY IdleIsShaped DEF IInv, Shape, OnlyQuoting, Holder

\* A step with which the loop goes on.
LEMMA WentOn ==
    ASSUME IInv, NEW step \in Steps, Go(step), loop.at # "idle",
           delivery' \in [Messages -> {"NONE", "PENDING", "PLACEHOLDER", "REPLIED", "PUSHED"}],
           up' = up,
           \A m \in Messages : IsPlaceholder(m)' =>
               \/ ~up \/ m \in stranded'
               \/ loop.msg = m /\ loop.suppress /\ step \in InWork
    PROVE  IInv'
<1>1. Shape'
  BY GoKeeps DEF IInv, Shape
<1>2. OnlyQuoting'
  BY GoKeeps DEF IInv, OnlyQuoting
<1>3. Holder'
  BY GoKeeps DEF IInv, Holder
<1> QED
  BY <1>1, <1>2, <1>3 DEF IInv

LEMMA HandleKeeps == ASSUME IInv, Handle PROVE IInv'
<1>1. /\ up /\ loop.at = "received" /\ loop.msg \in Messages
      /\ UNCHANGED <<stranded, up>>
  BY DEF Handle, At, history, IInv, Shape
<1>2. \A m \in Messages : IsPlaceholder(m) => m \in stranded
  BY <1>1 DEF IInv, Holder, InWork
<1>3. CASE loop' = Idle /\ UNCHANGED delivery
  BY <1>1, <1>2, <1>3, Rested DEF IInv, Shape, IsPlaceholder
<1>4. CASE (Go("posted") \/ Go("repeated")) /\ UNCHANGED delivery
  <2>1. PICK step \in {"posted", "repeated"} : Go(step) /\ step \in Steps
    BY <1>4 DEF Steps
  <2> QED
    BY <1>1, <1>2, <1>4, <2>1, WentOn DEF IInv, Shape, IsPlaceholder
<1>5. CASE Go("posted") /\ delivery' = [delivery EXCEPT ![loop.msg] = Recorded]
  <2>1. delivery' \in [Messages -> {"NONE", "PENDING", "PLACEHOLDER", "REPLIED", "PUSHED"}]
    BY <1>1, <1>5 DEF IInv, Shape, Recorded
  <2>2. ASSUME NEW m \in Messages, IsPlaceholder(m)'
        PROVE  m \in stranded' \/ (loop.msg = m /\ loop.suppress /\ "posted" \in InWork)
    <3>1. CASE m = loop.msg
      BY <1>1, <1>5, <2>2, <3>1 DEF IInv, Shape, Recorded, IsPlaceholder, InWork
    <3>2. CASE m # loop.msg
      BY <1>1, <1>2, <1>5, <2>2, <3>2 DEF IInv, Shape, IsPlaceholder
    <3> QED
      BY <3>1, <3>2
  <2>3. "posted" \in Steps
    BY DEF Steps
  <2> QED
    BY <1>1, <1>5, <2>1, <2>2, <2>3, WentOn
<1> QED
  BY <1>3, <1>4, <1>5 DEF Handle

LEMMA RememberKeeps == ASSUME IInv, Remember \/ RememberFails PROVE IInv'
<1>1. /\ up /\ loop.at \in {"posted", "repeated"} /\ loop.msg \in Messages
      /\ UNCHANGED <<up, delivery>>
  BY DEF Remember, RememberFails, At, desk, IInv, Shape
<1>2. CASE Remember /\ loop.at = "repeated"
  <2>1. UNCHANGED stranded /\ loop' = Idle
    BY <1>2 DEF Remember, history
  <2>2. \A m \in Messages : IsPlaceholder(m)' => m \in stranded'
    BY <1>1, <1>2, <2>1 DEF IInv, Holder, InWork, IsPlaceholder
  <2> QED
    BY <1>1, <2>1, <2>2, Rested DEF IInv, Shape
<1>3. CASE Remember /\ loop.at = "posted"
  <2>1. UNCHANGED stranded /\ Go("remembered") /\ "remembered" \in Steps
    BY <1>3 DEF Remember, history, Steps
  <2>2. \A m \in Messages : IsPlaceholder(m)' =>
            m \in stranded' \/ (loop.msg = m /\ loop.suppress /\ "remembered" \in InWork)
    BY <1>1, <2>1 DEF IInv, Holder, InWork, IsPlaceholder
  <2> QED
    BY <1>1, <2>1, <2>2, WentOn DEF IInv, Shape
<1>4. CASE RememberFails
  <2>1. loop' = Idle /\ stranded' = stranded \cup {m \in {loop.msg} : delivery[m] = "PLACEHOLDER"}
    BY <1>4 DEF RememberFails
  <2>2. \A m \in Messages : IsPlaceholder(m)' => m \in stranded'
    BY <1>1, <2>1 DEF IInv, Holder, IsPlaceholder
  <2> QED
    BY <1>1, <2>1, <2>2, Rested DEF IInv, Shape
<1> QED
  BY <1>1, <1>2, <1>3, <1>4

LEMMA SaveKeeps == ASSUME IInv, Save PROVE IInv'
<1>1. /\ up /\ loop.at = "remembered" /\ Go("saved") /\ "saved" \in Steps
      /\ UNCHANGED <<up, delivery, stranded>>
  BY DEF Save, At, history, Steps
<1>2. \A m \in Messages : IsPlaceholder(m)' =>
          m \in stranded' \/ (loop.msg = m /\ loop.suppress /\ "saved" \in InWork)
  BY <1>1 DEF IInv, Holder, InWork, IsPlaceholder
<1> QED
  BY <1>1, <1>2, WentOn DEF IInv, Shape

LEMMA TakeKeeps == ASSUME IInv, Take PROVE IInv'
<1>1. up /\ loop.at = "saved" /\ UNCHANGED <<up, delivery, stranded>>
  BY DEF Take, At, history
<1>2. \A m \in Messages : IsPlaceholder(m)' => m \in stranded' \/ (loop.msg = m /\ loop.suppress)
  BY <1>1 DEF IInv, Holder, IsPlaceholder
<1>3. ASSUME NEW i, loop' = [loop EXCEPT !.at = "taken", !.callback = store[i].msg]
      PROVE  IInv'
  <2>1. /\ loop'.at = "taken" /\ loop'.msg = loop.msg /\ loop'.suppress = loop.suppress
        /\ loop' = [at |-> loop'.at, msg |-> loop'.msg, suppress |-> loop'.suppress,
                    callback |-> loop'.callback]
    BY <1>3 DEF IInv, Shape
  <2> QED
    BY <1>1, <1>2, <2>1 DEF IInv, Shape, OnlyQuoting, Holder, InWork, Steps
<1>4. CASE Go("unmatched")
  <2>1. "unmatched" \in Steps \cap InWork
    BY DEF Steps, InWork
  <2> QED
    BY <1>1, <1>2, <1>4, <2>1, WentOn DEF IInv, Shape
<1>5. CASE loop' = Idle /\ ~loop.suppress
  BY <1>1, <1>2, <1>5, Rested DEF IInv, Shape
<1> QED
  BY <1>3, <1>4, <1>5 DEF Take, IInv, OnlyQuoting

LEMMA ReplyKeeps == ASSUME IInv, Reply PROVE IInv'
<1>1. up /\ loop.at = "taken" /\ UNCHANGED <<up, delivery, stranded>>
  BY DEF Reply, At, desk
<1>2. PICK step \in {"replied", "raised"} : Go(step) /\ step \in Steps /\ step \in InWork
  BY DEF Reply, Steps, InWork
<1>3. \A m \in Messages : IsPlaceholder(m)' =>
          m \in stranded' \/ (loop.msg = m /\ loop.suppress /\ step \in InWork)
  BY <1>1, <1>2 DEF IInv, Holder, IsPlaceholder
<1> QED
  BY <1>1, <1>2, <1>3, WentOn DEF IInv, Shape

\* The placeholder is booked or given back: if the loop had it, it is none any
\* more.
LEMMA SettleKeeps == ASSUME IInv, Finish \/ Restore PROVE IInv'
<1>1. /\ up /\ loop.at \in {"replied", "raised", "unmatched"} /\ loop.msg \in Messages
      /\ UNCHANGED <<up, stranded>>
  BY DEF Finish, Restore, At, history, IInv, Shape
<1>2. PICK becomes \in {"REPLIED", "PENDING"} :
          delivery' = [delivery EXCEPT ![loop.msg] =
              IF loop.suppress /\ IsPlaceholder(loop.msg) THEN becomes ELSE @]
  BY <1>1 DEF Finish, Restore, Restored, IInv, Shape
<1>3. delivery' \in [Messages -> {"NONE", "PENDING", "PLACEHOLDER", "REPLIED", "PUSHED"}]
  BY <1>1, <1>2 DEF IInv, Shape
<1>4. ASSUME NEW m \in Messages, IsPlaceholder(m)' PROVE m \in stranded'
  <2>1. IsPlaceholder(m) /\ ~(m = loop.msg /\ loop.suppress)
    BY <1>1, <1>2, <1>4 DEF IInv, Shape, IsPlaceholder
  <2> QED
    BY <1>1, <2>1 DEF IInv, Holder
<1>5. CASE loop' = Idle
  BY <1>1, <1>3, <1>4, <1>5, Rested DEF IInv, Shape
<1>6. CASE Go("settled")
  <2>1. "settled" \in Steps
    BY DEF Steps
  <2> QED
    BY <1>1, <1>3, <1>4, <1>6, <2>1, WentOn
<1> QED
  BY <1>5, <1>6 DEF Finish, Restore

LEMMA BookkeepingFailsKeeps == ASSUME IInv, BookkeepingFails PROVE IInv'
<1>1. /\ up /\ loop.at # "idle" /\ UNCHANGED <<up, delivery>>
      /\ stranded' = stranded \cup {loop.msg}
  BY DEF BookkeepingFails, At, desk
<1>2. \A m \in Messages : IsPlaceholder(m)' => m \in stranded'
  BY <1>1 DEF IInv, Holder, IsPlaceholder
<1>3. CASE loop' = Idle
  BY <1>1, <1>2, <1>3, Rested DEF IInv, Shape
<1>4. CASE Go("settled")
  <2>1. "settled" \in Steps
    BY DEF Steps
  <2> QED
    BY <1>1, <1>2, <1>4, <2>1, WentOn DEF IInv, Shape
<1> QED
  BY <1>3, <1>4 DEF BookkeepingFails

LEMMA AcknowledgeKeeps == ASSUME IInv, Acknowledge \/ AcknowledgeFails PROVE IInv'
<1>1. up /\ loop.at = "settled" /\ loop' = Idle /\ UNCHANGED <<up, delivery, stranded>>
  BY DEF Acknowledge, AcknowledgeFails, At, desk, history
<1>2. \A m \in Messages : IsPlaceholder(m)' => m \in stranded'
  BY <1>1 DEF IInv, Holder, InWork, IsPlaceholder
<1> QED
  BY <1>1, <1>2, Rested DEF IInv, Shape

LEMMA PushKeeps == ASSUME IInv, NEW m \in Messages, Push(m) PROVE IInv'
<1>1. delivery' = [delivery EXCEPT ![m] = "PUSHED"] /\ UNCHANGED <<loop, up, stranded>>
  BY DEF Push
<1>2. Shape' /\ OnlyQuoting'
  BY <1>1 DEF IInv, Shape, OnlyQuoting
<1>3. Holder'
  BY <1>1 DEF IInv, Shape, Holder, IsPlaceholder
<1> QED
  BY <1>2, <1>3 DEF IInv

LEMMA CrashKeeps == ASSUME IInv, Crash PROVE IInv'
<1>1. loop' = Idle /\ up' = FALSE /\ UNCHANGED delivery
  BY DEF Crash, desk
<1> QED
  BY <1>1, Rested DEF IInv, Shape

\* The start gives back whatever is still a placeholder.
LEMMA StartKeeps == ASSUME IInv, Start PROVE IInv'
<1>1. delivery' = Recovered /\ up' = TRUE /\ UNCHANGED loop
  BY DEF Start
<1>2. /\ delivery' \in [Messages -> {"NONE", "PENDING", "PLACEHOLDER", "REPLIED", "PUSHED"}]
      /\ \A m \in Messages : ~IsPlaceholder(m)'
  BY <1>1 DEF IInv, Shape, Recovered, IsPlaceholder
<1> QED
  BY <1>1, <1>2 DEF IInv, Shape, OnlyQuoting, Holder

\* Nothing of what the invariant looks at changes.
LEMMA QuietKeeps ==
    ASSUME IInv, UNCHANGED <<delivery, up, loop, stranded>> PROVE IInv'
BY DEF IInv, Shape, OnlyQuoting, Holder, IsPlaceholder

LEMMA NextKeeps == ASSUME IInv, [Next]_vars PROVE IInv'
<1>1. ASSUME NEW i, CallbackExpires(i) \/ ClaimLapses(i) PROVE IInv'
  BY <1>1, QuietKeeps DEF CallbackExpires, ClaimLapses, history
<1>2. CASE UNCHANGED vars
  BY <1>2, QuietKeeps DEF vars
<1>3. CASE LoopStep
  BY <1>3, HandleKeeps, RememberKeeps, SaveKeeps, TakeKeeps, ReplyKeeps, SettleKeeps,
     AcknowledgeKeeps
  DEF LoopStep
<1>4. CASE Fault
  BY <1>4, RememberKeeps, BookkeepingFailsKeeps, AcknowledgeKeeps DEF Fault
<1> QED
  BY <1>1, <1>2, <1>3, <1>4, ReceiveKeeps, PushKeeps, CrashKeeps, StartKeeps DEF Next

\* A placeholder, which claims that its message was sent, is in the hands of
\* the loop, of the next start or of an exception that was logged.
THEOREM PlaceholderInHand == Spec => []InHand
<1>1. IInv /\ [Next]_vars => IInv'
  BY NextKeeps
<1>2. IInv => InHand
  BY DEF IInv, Holder, InHand
<1> QED
  BY InitIInv, <1>1, <1>2, PTL DEF Spec

-----------------------------------------------------------------------------
(* Every message is acted on once.  The decision about a message is        *)
(* remembered before its callback is kept and before it can be sent, and a *)
(* message whose decision is remembered is not handled again: so the loop  *)
(* is always at the first sending of the message it has in hand.           *)

\* The steps between the remembered decision and the reply.
BeforeReply == {"remembered", "saved", "taken", "unmatched"}

Counts ==
    /\ decided \subseteq Messages
    /\ arrived \in [Messages -> SUBSET {"active", "passive"}]
    /\ received \subseteq Messages
    /\ unfinalised \subseteq Messages
    /\ stranded \subseteq Messages
    /\ crashes \in 0..MaxCrashes
    /\ repeats \in 0..MaxRepeats
    /\ faults \in 0..MaxFaults

LoopTyped ==
    /\ loop \in Loop
    /\ loop.at = "idle" => loop = Idle

\* A reply is to a message that is decided, the one reply the loop has sent
\* among them; a message the loop has still to decide, or to reply to, has none.
Replies ==
    /\ replies \in [Messages -> {0, 1}]
    /\ \A m \in Messages : replies[m] = 1 => m \in decided
    /\ \A m \in Messages : delivery[m] = "REPLIED" => replies[m] = 1
    /\ loop.at = "posted" => loop.msg \notin decided
    /\ loop.at \in BeforeReply => loop.msg \in decided /\ replies[loop.msg] = 0
    /\ loop.at = "replied" => replies[loop.msg] = 1

\* Only a delivery that is pushed has been, and it stays so.
Pushes ==
    pushes = [m \in Messages |-> IF delivery[m] = "PUSHED" THEN 1 ELSE 0]

\* The store has the callbacks of decided messages, each once; the callback that
\* is to be kept next is not there.
Rows(s, known) ==
    /\ s \in Seq(Row)
    /\ \A i \in DOMAIN s : s[i].msg \in known
    /\ \A i, j \in DOMAIN s : s[i].msg = s[j].msg => i = j

Stored ==
    /\ Rows(store, decided)
    /\ loop.at = "remembered" => \A i \in DOMAIN store : store[i].msg # loop.msg

AInv == Counts /\ LoopTyped /\ Replies /\ Pushes /\ Stored

LEMMA InitAInv == Init => AInv
<1> SUFFICES ASSUME Init PROVE AInv
  OBVIOUS
<1>1. Counts
  BY DeferredReplyConstants DEF Init, Counts
<1>2. LoopTyped
  BY DEF Init, LoopTyped, Loop, Idle, Steps
<1>3. Replies
  BY DEF Init, Replies, Idle, BeforeReply
<1>4. Pushes
  BY DEF Init, Pushes
<1>5. store = <<>> /\ loop.at = "idle"
  BY DEF Init, Idle
<1>6. Stored
  BY <1>5 DEF Stored, Rows
<1> QED
  BY <1>1, <1>2, <1>3, <1>4, <1>6 DEF AInv

\* The loop goes on with the same message and callback.
LEMMA GoTyped ==
    ASSUME LoopTyped, NEW step \in Steps \ {"idle"}, Go(step)
    PROVE  /\ LoopTyped'
           /\ loop'.at = step /\ loop'.msg = loop.msg
BY DEF LoopTyped, Loop, Go

LEMMA IdleTyped == ASSUME loop' = Idle PROVE LoopTyped' /\ loop'.at = "idle"
BY DEF LoopTyped, Loop, Idle, Steps

\* A row less, a row claimed, a row more.
LEMMA RowLeaves ==
    ASSUME NEW known, Rows(store, known), NEW i \in DOMAIN store
    PROVE  /\ Rows(WithoutRow(i), known)
           /\ \A j \in DOMAIN WithoutRow(i) :
                 \E k \in DOMAIN store : WithoutRow(i)[j].msg = store[k].msg
<1> DEFINE n == Len(store)
           at(j) == IF j < i THEN j ELSE j + 1
           new == WithoutRow(i)
<1>1. store \in Seq(Row) /\ DOMAIN store = 1..n /\ n \in Nat /\ i \in 1..n
  BY DEF Rows
<1>2. DOMAIN new = 1..(n - 1) /\ n - 1 \in Nat
  BY <1>1 DEF WithoutRow
<1>3. \A j \in 1..(n - 1) : at(j) \in 1..n /\ new[j] = store[at(j)]
  BY <1>1 DEF WithoutRow
<1>4. \A j, k \in 1..(n - 1) : at(j) = at(k) => j = k
  BY <1>1
<1>5. \A j \in 1..n : store[j] \in Row
  BY <1>1
<1>6. new \in [1..(n - 1) -> Row]
  BY <1>1, <1>3, <1>5 DEF WithoutRow
<1>7. new \in Seq(Row)
  BY <1>2, <1>6
<1> HIDE DEF at, new
<1> QED
  BY <1>1, <1>2, <1>3, <1>4, <1>7 DEF Rows, new

LEMMA ClaimChanges ==
    ASSUME NEW known, Rows(store, known), NEW i \in DOMAIN store,
           NEW claim \in {"free", "held", "lapsed"},
           NEW s, s = [store EXCEPT ![i].claim = claim]
    PROVE  /\ Rows(s, known)
           /\ DOMAIN s = DOMAIN store
           /\ \A j \in DOMAIN store : s[j].msg = store[j].msg
<1>1. store \in Seq(Row) /\ DOMAIN store = 1..Len(store)
  BY DEF Rows
<1>2. \A j \in DOMAIN store : store[j] \in Row
  BY <1>1
<1>3. DOMAIN s = DOMAIN store
  OBVIOUS
<1>4. \A j \in DOMAIN store : s[j] \in Row /\ s[j].msg = store[j].msg
  BY <1>2 DEF Row
<1>5. s \in [1..Len(store) -> Row]
  BY <1>1, <1>4
<1>6. s \in Seq(Row)
  BY <1>1, <1>5
<1> QED
  BY <1>3, <1>4, <1>6 DEF Rows

LEMMA RowJoins ==
    ASSUME NEW known, Rows(store, known), NEW r \in Row, r.msg \in known,
           \A i \in DOMAIN store : store[i].msg # r.msg
    PROVE  Rows(Append(store, r), known)
<1>1. store \in Seq(Row) /\ DOMAIN store = 1..Len(store) /\ Len(store) \in Nat
  BY DEF Rows
<1> PICK s : s = Append(store, r)
  OBVIOUS
<1>2. s \in Seq(Row) /\ DOMAIN s = 1..(Len(store) + 1)
  BY <1>1
<1>3. \A i \in 1..(Len(store) + 1) :
          s[i] = IF i \in 1..Len(store) THEN store[i] ELSE r
  BY <1>1
<1>4. \A i \in DOMAIN s : s[i].msg \in known
  BY <1>1, <1>2, <1>3 DEF Rows
<1>5. \A i, j \in DOMAIN s : s[i].msg = s[j].msg => i = j
  <2> SUFFICES ASSUME NEW i \in DOMAIN s, NEW j \in DOMAIN s, s[i].msg = s[j].msg
               PROVE  i = j
    OBVIOUS
  <2>1. CASE i \in 1..Len(store) /\ j \in 1..Len(store)
    BY <1>1, <1>2, <1>3, <2>1 DEF Rows
  <2>2. CASE i \notin 1..Len(store) \/ j \notin 1..Len(store)
    BY <1>1, <1>2, <1>3, <2>2
  <2> QED
    BY <2>1, <2>2
<1> QED
  BY <1>2, <1>4, <1>5 DEF Rows

\* The loop is done with its message, and the deliveries are as they were.
LEMMA EndsQuietly ==
    ASSUME AInv, loop' = Idle, UNCHANGED <<delivery, store, replies, pushes>>,
           decided \subseteq decided', Counts'
    PROVE  AInv'
<1>1. LoopTyped' /\ loop'.at = "idle"
  BY IdleTyped
<1>2. Replies'
  BY <1>1 DEF AInv, Replies, BeforeReply
<1>3. Pushes'
  BY DEF AInv, Pushes
<1>4. Stored'
  BY <1>1 DEF AInv, Stored, Rows
<1> QED
  BY <1>1, <1>2, <1>3, <1>4 DEF AInv

\* The loop goes on to a step at which the invariant asks nothing new of it.
LEMMA GoesOnQuietly ==
    ASSUME AInv, NEW step \in {"repeated", "raised", "settled", "received"},
           Go(step), UNCHANGED <<delivery, decided, store, replies, pushes>>, Counts'
    PROVE  AInv'
<1>1. LoopTyped' /\ loop'.at = step /\ loop'.msg = loop.msg
  BY GoTyped DEF AInv, Steps
<1>2. Replies'
  BY <1>1 DEF AInv, Replies, BeforeReply
<1>3. Pushes' /\ Stored'
  BY <1>1 DEF AInv, Pushes, Stored, Rows
<1> QED
  BY <1>1, <1>2, <1>3 DEF AInv

LEMMA ReceiveActs == ASSUME IInv, AInv, NEW m \in Messages, Receive(m) PROVE AInv'
<1>1. /\ loop' = [at |-> "received", msg |-> m, suppress |-> Suppressed(m),
                  callback |-> Nothing]
      /\ UNCHANGED <<delivery, decided, store, replies, pushes>>
  BY DEF Receive, desk, history
<1>2. Counts'
  <2>1. repeats' \in 0..MaxRepeats
    BY DeferredReplyConstants DEF Receive, AInv, Counts
  <2> QED
    BY <2>1 DEF Receive, AInv, Counts, desk, history
<1>3. Suppressed(m) \in BOOLEAN
  BY DEF Suppressed
<1>4. LoopTyped'
  BY <1>1, <1>3 DEF LoopTyped, Loop, Steps
<1>5. Replies'
  BY <1>1 DEF AInv, Replies, BeforeReply
<1>6. Pushes' /\ Stored'
  BY <1>1 DEF AInv, Pushes, Stored, Rows
<1> QED
  BY <1>2, <1>4, <1>5, <1>6 DEF AInv

LEMMA HandleActs == ASSUME IInv, AInv, Handle PROVE AInv'
<1>1. /\ loop.at = "received" /\ loop.msg \in Messages
      /\ UNCHANGED <<decided, store, replies, pushes>>
      /\ delivery \in [Messages -> {"NONE", "PENDING", "PLACEHOLDER", "REPLIED", "PUSHED"}]
  BY DEF Handle, At, history, IInv, Shape
<1>2. Counts'
  BY DEF Handle, AInv, Counts, history, bounds
<1>3. CASE loop' = Idle /\ UNCHANGED delivery
  BY <1>1, <1>2, <1>3, EndsQuietly
<1>4. CASE Go("repeated") /\ UNCHANGED delivery
  BY <1>1, <1>2, <1>4, GoesOnQuietly
<1>5. CASE /\ Go("posted") /\ loop.msg \notin decided
           /\ \/ UNCHANGED delivery
              \/ ~Known(loop.msg) /\ delivery' = [delivery EXCEPT ![loop.msg] = Recorded]
  <2>1. LoopTyped' /\ loop'.at = "posted" /\ loop'.msg = loop.msg
    BY <1>5, GoTyped DEF AInv, Steps
  <2>2. \A m \in Messages : /\ delivery'[m] = "REPLIED" => delivery[m] = "REPLIED"
                            /\ delivery'[m] = "PUSHED" <=> delivery[m] = "PUSHED"
    BY <1>1, <1>5 DEF Recorded, Known
  <2>3. Replies'
    BY <1>1, <1>5, <2>1, <2>2 DEF AInv, Replies, BeforeReply
  <2>4. Pushes'
    BY <1>1, <2>2 DEF AInv, Pushes
  <2>5. Stored'
    BY <1>1, <2>1 DEF AInv, Stored, Rows
  <2> QED
    BY <1>2, <2>1, <2>3, <2>4, <2>5 DEF AInv
<1> QED
  BY <1>3, <1>4, <1>5 DEF Handle

LEMMA RememberActs == ASSUME IInv, AInv, Remember PROVE AInv'
<1>1. /\ loop.at \in {"posted", "repeated"} /\ loop.msg \in Messages
      /\ decided' = decided \cup {loop.msg}
      /\ UNCHANGED <<delivery, store, replies, pushes>>
  BY DEF Remember, At, history, IInv, Shape
<1>2. Counts'
  BY <1>1 DEF Remember, AInv, Counts, history, bounds
<1>3. CASE loop' = Idle
  BY <1>1, <1>2, <1>3, EndsQuietly
<1>4. CASE loop.at = "posted" /\ Go("remembered")
  <2>1. LoopTyped' /\ loop'.at = "remembered" /\ loop'.msg = loop.msg
    BY <1>4, GoTyped DEF AInv, Steps
  <2>2. replies[loop.msg] = 0 /\ loop.msg \notin decided
    BY <1>1, <1>4 DEF AInv, Replies
  <2>3. Replies'
    BY <1>1, <2>1, <2>2 DEF AInv, Replies, BeforeReply
  <2>4. Pushes'
    BY <1>1 DEF AInv, Pushes
  <2>5. \A i \in DOMAIN store : store[i].msg # loop.msg /\ store[i].msg \in decided
    BY <2>2 DEF AInv, Stored, Rows
  <2>6. Stored'
    BY <1>1, <2>1, <2>5 DEF AInv, Stored, Rows
  <2> QED
    BY <1>2, <2>1, <2>3, <2>4, <2>6 DEF AInv
<1> QED
  BY <1>1, <1>3, <1>4 DEF Remember

LEMMA FaultActs == ASSUME IInv, AInv, Fault PROVE AInv'
<1>1. /\ UNCHANGED <<delivery, decided, store, replies, pushes>>
      /\ loop.at # "idle" /\ loop.msg \in Messages
  BY DEF Fault, RememberFails, BookkeepingFails, AcknowledgeFails, desk, history, At,
         IInv, Shape
<1>2. /\ UNCHANGED <<decided, arrived, received, crashes, repeats>>
      /\ faults < MaxFaults /\ faults' = faults + 1
      /\ stranded' \subseteq stranded \cup {loop.msg}
      /\ unfinalised' \subseteq unfinalised \cup {loop.msg}
  BY DEF Fault, RememberFails, BookkeepingFails, AcknowledgeFails, desk, history
<1>3. faults' \in 0..MaxFaults
  BY <1>2, DeferredReplyConstants DEF AInv, Counts
<1>4. Counts'
  BY <1>1, <1>2, <1>3 DEF AInv, Counts
<1>5. loop' = Idle \/ Go("settled")
  BY DEF Fault, RememberFails, BookkeepingFails, AcknowledgeFails
<1> QED
  BY <1>1, <1>4, <1>5, EndsQuietly, GoesOnQuietly

LEMMA SaveActs == ASSUME IInv, AInv, Save PROVE AInv'
<1> PICK r : r = [msg |-> loop.msg, claim |-> "free"]
  OBVIOUS
<1>1. /\ loop.at = "remembered" /\ Go("saved") /\ loop.msg \in Messages
      /\ UNCHANGED <<delivery, decided, replies, pushes>>
      /\ store' = Append(store, r)
  BY DEF Save, At, history, IInv, Shape
<1>2. LoopTyped' /\ loop'.at = "saved" /\ loop'.msg = loop.msg
  BY <1>1, GoTyped DEF AInv, Steps
<1>3. Counts'
  BY DEF Save, AInv, Counts, history, bounds
<1>4. Replies'
  BY <1>1, <1>2 DEF AInv, Replies, BeforeReply
<1>5. Pushes'
  BY <1>1 DEF AInv, Pushes
<1>6. r \in Row /\ r.msg \in decided /\ \A i \in DOMAIN store : store[i].msg # r.msg
  BY <1>1 DEF Row, AInv, Stored, Replies, BeforeReply
<1>7. Rows(store, decided)
  BY DEF AInv, Stored
<1>8. Rows(store', decided)
  BY <1>1, <1>6, <1>7, RowJoins
<1>9. Stored'
  BY <1>1, <1>2, <1>8 DEF Stored
<1> QED
  BY <1>2, <1>3, <1>4, <1>5, <1>9 DEF AInv

LEMMA TakeActs == ASSUME IInv, AInv, Take PROVE AInv'
<1>1. /\ loop.at = "saved" /\ loop.msg \in Messages
      /\ UNCHANGED <<delivery, decided, replies, pushes>>
  BY DEF Take, At, history, IInv, Shape
<1>2. Counts'
  BY DEF Take, AInv, Counts, history, bounds
<1>3. Pushes' /\ Rows(store, decided)
  BY <1>1 DEF AInv, Pushes, Stored
<1>4. ASSUME NEW i \in Chosen(loop.msg), store' = Claimed(i),
             loop' = [loop EXCEPT !.at = "taken", !.callback = store[i].msg]
      PROVE  AInv'
  <2>1. i \in DOMAIN store
    BY DEF Chosen, Keyed, Unkeyed, Eligible
  <2>2. store[i].msg \in Messages
    <3>1. store \in Seq(Row)
      BY <1>3 DEF Rows
    <3>2. store[i] \in Row
      BY <2>1, <3>1
    <3> QED
      BY <3>2 DEF Row
  <2>3. LoopTyped' /\ loop'.at = "taken" /\ loop'.msg = loop.msg
    BY <1>4, <2>2 DEF AInv, LoopTyped, Loop, Steps
  <2>4. Rows(store', decided)
    BY <1>3, <1>4, <2>1, ClaimChanges DEF Claimed
  <2>5. Replies' /\ Stored'
    BY <1>1, <2>3, <2>4 DEF AInv, Replies, BeforeReply, Stored
  <2> QED
    BY <1>2, <1>3, <2>3, <2>5 DEF AInv
<1>5. CASE Go("unmatched") /\ UNCHANGED store
  <2>1. LoopTyped' /\ loop'.at = "unmatched" /\ loop'.msg = loop.msg
    BY <1>5, GoTyped DEF AInv, Steps
  <2>2. Replies' /\ Stored'
    BY <1>1, <1>3, <1>5, <2>1 DEF AInv, Replies, BeforeReply, Stored
  <2> QED
    BY <1>2, <1>3, <2>1, <2>2 DEF AInv
<1>6. CASE loop' = Idle /\ UNCHANGED store
  BY <1>1, <1>2, <1>6, EndsQuietly
<1> QED
  BY <1>4, <1>5, <1>6 DEF Take

\* The one reply to its message: there is none before it.
LEMMA ReplyActs == ASSUME IInv, AInv, Reply PROVE AInv'
<1>1. /\ loop.at = "taken" /\ loop.msg \in Messages
      /\ UNCHANGED <<delivery, decided, store, pushes>>
      /\ replies' = [replies EXCEPT ![loop.msg] = @ + 1]
  BY DEF Reply, At, desk, IInv, Shape
<1>2. Counts'
  BY <1>1 DEF Reply, AInv, Counts, desk, bounds
<1>3. PICK step \in {"replied", "raised"} : Go(step)
  BY DEF Reply
<1>4. LoopTyped' /\ loop'.at = step /\ loop'.msg = loop.msg
  BY <1>3, GoTyped DEF AInv, Steps
<1>5. replies[loop.msg] = 0 /\ loop.msg \in decided
  BY <1>1 DEF AInv, Replies, BeforeReply
<1>6. replies' = [replies EXCEPT ![loop.msg] = 1]
  BY <1>1, <1>5
<1>7. Replies'
  BY <1>1, <1>4, <1>5, <1>6 DEF AInv, Replies, BeforeReply
<1>8. Pushes' /\ Stored'
  BY <1>1, <1>4 DEF AInv, Pushes, Stored, Rows
<1> QED
  BY <1>2, <1>4, <1>7, <1>8 DEF AInv

\* A placeholder is booked after its reply, or given back to the queue.
LEMMA SettleActs == ASSUME IInv, AInv, Finish \/ Restore PROVE AInv'
<1>1. /\ loop.at \in {"replied", "raised", "unmatched"} /\ loop.msg \in Messages
      /\ UNCHANGED <<decided, store, replies, pushes>>
      /\ delivery \in [Messages -> {"NONE", "PENDING", "PLACEHOLDER", "REPLIED", "PUSHED"}]
  BY DEF Finish, Restore, At, history, IInv, Shape
<1>2. Counts'
  BY DEF Finish, Restore, AInv, Counts, history, bounds
<1>3. \A m \in Messages : /\ delivery'[m] = "PUSHED" <=> delivery[m] = "PUSHED"
                          /\ delivery'[m] = "REPLIED" =>
                                \/ delivery[m] = "REPLIED"
                                \/ m = loop.msg /\ loop.at = "replied"
  BY <1>1 DEF Finish, Restore, Restored, IsPlaceholder, At
<1>4. loop' = Idle \/ Go("settled")
  BY DEF Finish, Restore
<1>5. LoopTyped' /\ loop'.at \in {"idle", "settled"}
  BY <1>4, GoTyped, IdleTyped DEF AInv, Steps
<1>6. Replies'
  BY <1>1, <1>3, <1>5 DEF AInv, Replies, BeforeReply
<1>7. Pushes' /\ Stored'
  BY <1>1, <1>3, <1>5 DEF AInv, Pushes, Stored, Rows
<1> QED
  BY <1>2, <1>5, <1>6, <1>7 DEF AInv

\* A row leaves the store, or its claim lapses, or it is acknowledged.
LEMMA StoreActs ==
    ASSUME AInv, UNCHANGED <<delivery, decided, replies, pushes>>, Counts',
           loop' = loop \/ loop' = Idle,
           NEW i \in DOMAIN store,
           \/ store' = WithoutRow(i)
           \/ store' = [store EXCEPT ![i].claim = "lapsed"]
    PROVE  AInv'
<1>1. Rows(store, decided)
  BY DEF AInv, Stored
<1>2. /\ Rows(store', decided)
      /\ \A j \in DOMAIN store' : \E k \in DOMAIN store : store'[j].msg = store[k].msg
  BY <1>1, RowLeaves, ClaimChanges
<1>3. LoopTyped' /\ (loop' = loop \/ loop'.at = "idle")
  BY IdleTyped DEF AInv, LoopTyped
<1>4. Replies'
  BY <1>3 DEF AInv, Replies, BeforeReply
<1>5. Pushes' /\ Stored'
  BY <1>2, <1>3 DEF AInv, Pushes, Stored
<1> QED
  BY <1>3, <1>4, <1>5 DEF AInv

LEMMA AcknowledgeActs == ASSUME AInv, Acknowledge PROVE AInv'
<1>1. loop' = Idle /\ UNCHANGED <<delivery, decided, replies, pushes>>
  BY DEF Acknowledge, history
<1>2. Counts'
  BY DEF Acknowledge, AInv, Counts, history, bounds
<1>3. store' = store \/ \E i \in DOMAIN store : store' = WithoutRow(i)
  BY DEF Acknowledge
<1> QED
  BY <1>1, <1>2, <1>3, StoreActs, EndsQuietly

LEMMA RowActs ==
    ASSUME AInv, NEW i \in DOMAIN store, CallbackExpires(i) \/ ClaimLapses(i)
    PROVE  AInv'
<1>1. Counts' /\ loop' = loop /\ UNCHANGED <<delivery, decided, replies, pushes>>
  BY DEF CallbackExpires, ClaimLapses, AInv, Counts, history, bounds
<1> QED
  BY <1>1, StoreActs DEF CallbackExpires, ClaimLapses

LEMMA PushActs == ASSUME IInv, AInv, NEW m \in Messages, Push(m) PROVE AInv'
<1>1. /\ delivery[m] = "PENDING" /\ delivery' = [delivery EXCEPT ![m] = "PUSHED"]
      /\ pushes' = [pushes EXCEPT ![m] = @ + 1]
      /\ UNCHANGED <<decided, store, replies, loop>>
      /\ delivery \in [Messages -> {"NONE", "PENDING", "PLACEHOLDER", "REPLIED", "PUSHED"}]
  BY DEF Push, IInv, Shape
<1>2. Counts'
  BY DEF Push, AInv, Counts, bounds
<1>3. Pushes'
  BY <1>1 DEF AInv, Pushes
<1>4. LoopTyped' /\ Replies' /\ Stored'
  BY <1>1 DEF AInv, LoopTyped, Replies, Stored, Rows
<1> QED
  BY <1>2, <1>3, <1>4 DEF AInv

LEMMA CrashActs == ASSUME AInv, Crash PROVE AInv'
<1>1. loop' = Idle /\ UNCHANGED <<delivery, decided, store, replies, pushes>>
  BY DEF Crash, desk, history
<1>2. crashes' \in 0..MaxCrashes
  BY DeferredReplyConstants DEF Crash, AInv, Counts
<1>3. Counts'
  BY <1>1, <1>2 DEF Crash, AInv, Counts, history
<1> QED
  BY <1>1, <1>3, EndsQuietly

LEMMA StartActs == ASSUME IInv, AInv, Start PROVE AInv'
<1>1. delivery' = Recovered /\ UNCHANGED <<decided, store, replies, pushes, loop>>
  BY DEF Start
<1>2. Counts'
  BY DEF Start, AInv, Counts, bounds
<1>3. \A m \in Messages : /\ delivery'[m] = "REPLIED" => delivery[m] = "REPLIED"
                          /\ delivery'[m] = "PUSHED" <=> delivery[m] = "PUSHED"
  BY <1>1 DEF Recovered, IsPlaceholder
<1>4. LoopTyped' /\ Replies' /\ Pushes' /\ Stored'
  BY <1>1, <1>3 DEF AInv, LoopTyped, Replies, Pushes, Stored, Rows
<1> QED
  BY <1>2, <1>4 DEF AInv

LEMMA NextActs == ASSUME IInv, AInv, [Next]_vars PROVE AInv'
<1>1. CASE UNCHANGED vars
  BY <1>1 DEF vars, AInv, Counts, LoopTyped, Replies, Pushes, Stored, Rows
<1>2. CASE LoopStep
  BY <1>2, HandleActs, RememberActs, SaveActs, TakeActs, ReplyActs, SettleActs,
     AcknowledgeActs
  DEF LoopStep
<1> QED
  BY <1>1, <1>2, ReceiveActs, PushActs, FaultActs, RowActs, CrashActs, StartActs
  DEF Next

\* Both invariants together.
THEOREM RepliesInvariant == Spec => [](IInv /\ AInv)
<1>1. IInv /\ AInv /\ [Next]_vars => (IInv /\ AInv)'
  BY NextKeeps, NextActs
<1> QED
  BY InitIInv, InitAInv, <1>1, PTL DEF Spec

\* All the state of the loop, of the store and of the deliveries keeps its type;
\* a delivery booked as replied to has had its reply.
THEOREM RepliesTyped == Spec => []TypeOK
<1>1. ASSUME IInv, AInv PROVE TypeOK
  <2>1. /\ replies \in [Messages -> Nat]
        /\ \A m \in Messages : delivery[m] = "REPLIED" => replies[m] > 0
    BY <1>1 DEF AInv, Replies
  <2>2. pushes \in [Messages -> Nat]
    BY <1>1 DEF AInv, Pushes
  <2>3. loop \in Loop /\ (loop.at = "idle" => loop = Idle)
    BY <1>1 DEF AInv, LoopTyped
  <2>4. store \in Seq(Row)
    BY <1>1 DEF AInv, Stored, Rows
  <2> QED
    BY <1>1, <2>1, <2>2, <2>3, <2>4 DEF IInv, Shape, AInv, Counts, TypeOK
<1> QED
  BY <1>1, RepliesInvariant, PTL

\* However often a callback is delivered, and wherever the worker dies, its
\* message is replied to at most once, pushed at most once, and kept at most
\* once.
THEOREM EveryMessageOnce == Spec => []ActsOnce
<1>1. ASSUME AInv PROVE ActsOnce
  <2> SUFFICES ASSUME NEW m \in Messages
               PROVE  /\ replies[m] <= 1 /\ pushes[m] <= 1
                      /\ \A i, j \in DOMAIN store :
                            store[i].msg = m /\ store[j].msg = m => i = j
    BY DEF ActsOnce
  <2>1. replies[m] \in {0, 1}
    BY <1>1 DEF AInv, Replies
  <2>2. pushes[m] \in {0, 1}
    BY <1>1 DEF AInv, Pushes
  <2> QED
    BY <1>1, <2>1, <2>2 DEF AInv, Stored, Rows
<1> QED
  BY <1>1, RepliesInvariant, PTL

=============================================================================
