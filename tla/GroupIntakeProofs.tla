-------------------------- MODULE GroupIntakeProofs --------------------------
(***************************************************************************)
(* A conversation becomes one issue at most, the state of its session      *)
(* tells whether it did, the issue says all that the conversation said,    *)
(* and no turn denies it, for any number of messages, crashes, faults,     *)
(* failures, rebindings and repetitions.                                   *)
(***************************************************************************)
EXTENDS GroupIntake, TLAPS, FiniteSetTheorems

-----------------------------------------------------------------------------
(* The inductive invariant.                                                *)

Gone == session.state = "GONE"

\* The loop has a turn in hand, which has no answer yet.
Working == loop.at \notin {"idle", "received", "answer"}

\* A turn is processed once, when it is created: it is the last one then.
Turns ==
    /\ order \in Seq(Messages)
    /\ \A j, k \in 1..Len(order) : order[j] = order[k] => j = k
    /\ Exists => Initial \in Turned
    /\ Working /\ Exists =>
          Len(order) > 0 /\ order[Len(order)] = m0 /\ turn[m0] = "OPEN"

\* A session is opened once, and what expires does not come back.
Lifetime ==
    /\ session.state = "NONE" => ~Working /\ issues = {} /\ ~expired
    /\ session.state # "NONE" => Initial \in received
    /\ Gone \/ cleaner # "idle" => expired
    /\ At("received") /\ m0 = Initial => ~expired
    /\ ~At("idle") => m0 \in received

\* Where the loop is tells what has been dispatched.
NotDone == issues = {} \/ Gone

Dispatched ==
    /\ At("create") => session.state = "DISPATCHING" \/ Gone
    /\ At("mark") => issues # {}
    /\ At("reset") => issues = {}
    /\ loop.at \in {"again", "agent", "propose", "save"} =>
          NotDone /\ session.state # "DISPATCHING"
    /\ loop.at \in {"reply", "report"} =>
          /\ loop.reply # "failed"
          /\ loop.reply \in Denials => issues = {} \/ expired
          /\ loop.reply = "proposal" => NotDone
    /\ At("save") => loop.reply \in {"proposal", "failed"}

\* There is one marker, and one issue with it.
Marked == \A i, j \in issues : i.marker = Marker /\ i = j

\* The turns whose text the fields have, and those they must have when the
\* proposal in hand is dispatched.
Proposals == {m \in WithText \cap Turned : turn[m] = "proposal"}
Said ==
    {m \in WithText \cap Turned :
        \/ m = m0 \/ turn[m] = "proposal"
        \/ turn[m] = "failed" /\ m \in Before(m0)}

Heard ==
    Exists =>
        /\ Proposals \subseteq session.fields.seen
        /\ loop.at \in {"agent", "save"} => Proposals \subseteq loop.fields.seen
        /\ At("save") /\ loop.reply = "proposal" /\ m0 \in WithText =>
              m0 \in loop.fields.seen
        /\ loop.at \in {"propose", "create"} => Said \subseteq loop.fields.seen
        /\ At("begin") => Said \subseteq session.fields.seen
        /\ loop.at \in {"reply", "report"} /\ loop.reply = "proposal" /\ m0 \in WithText =>
              m0 \in session.fields.seen

\* No turn since the one that began a dispatch was answered with a failure.
NoFailureSince ==
    session.state = "DISPATCHING" =>
        /\ turn[order[Len(order)]] # "failed"
        /\ At("context") /\ Len(order) > 1 => turn[order[Len(order) - 1]] # "failed"

\* The turn that dispatched the issue stays among the turns.
Dispatchers == \A i \in issues : i.by \in Turned \/ Gone

Sound ==
    /\ Turns /\ Lifetime /\ Dispatched /\ Marked /\ StateTellsTruth
    /\ Heard /\ NoFailureSince /\ Dispatchers /\ IssueSaysAll

IInv == TypeOK /\ Sound

-----------------------------------------------------------------------------
(* Types and the loop.                                                     *)

LEMMA Moves ==
    ASSUME TypeOK, NEW step \in Steps, NEW reply \in Replies
    PROVE  /\ Go(step) => /\ loop' \in Loop /\ loop'.at = step /\ loop'.msg = m0
                          /\ loop'.fields = loop.fields /\ loop'.reply = loop.reply
                          /\ loop'.teams = loop.teams
           /\ Say(step, reply) => /\ loop' \in Loop /\ loop'.at = step /\ loop'.msg = m0
                                  /\ loop'.fields = loop.fields /\ loop'.reply = reply
BY DEF TypeOK, Loop, Go, Say, m0

LEMMA IdleIsLoop == Idle \in Loop /\ Idle.at = "idle"
BY DEF Idle, Loop, Steps, Replies, Blank, Fields

LEMMA Judges ==
    ASSUME TypeOK, NEW fields \in Fields, NEW teams \in BOOLEAN,
           loop' = Judged(fields, teams)
    PROVE  /\ loop' \in Loop /\ loop'.msg = m0 /\ loop'.fields = fields
           /\ \/ loop'.at = "propose"
              \/ loop'.at = "save" /\ loop'.reply = "proposal"
BY DEF TypeOK, Judged, Loop, Steps, Replies, Denials, m0

LEMMA ReadIsFields == TypeOK => Read \in Fields /\ Read.seen = session.fields.seen
BY DEF TypeOK, Read, Fields

LEMMA TurnedIsMessages == TypeOK => Turned \in SUBSET Messages
BY DEF TypeOK

LEMMA InHand == IInv /\ ~At("idle") => m0 \in Messages /\ m0 \in received
BY DEF IInv, Sound, Lifetime, TypeOK, At

LEMMA Becomes ==
    ASSUME TypeOK, NEW state \in States, Become(state)
    PROVE  session' \in [state : States, fields : Fields]
           /\ session'.state = state /\ session'.fields = session.fields
BY DEF TypeOK, Become

LEMMA AnsweredType ==
    ASSUME TypeOK, NEW reply \in Replies, turn' = Answered(reply), UNCHANGED order
    PROVE  /\ turn' \in [Messages -> Replies \cup {"NONE", "OPEN"}]
           /\ Turned' = Turned /\ Turned = {m \in Messages : turn'[m] # "NONE"}
<1>1. Turned' = Turned /\ Turned = {m \in Messages : turn[m] # "NONE"}
  BY DEF TypeOK, Turned, Range
<1>2. reply # "NONE"
  BY DEF Replies, Denials
<1> HIDE DEF Replies
<1> QED
  BY <1>1, <1>2 DEF Answered, TypeOK

\* A step of the loop that leaves the rows as they are.
LEMMA LoopType ==
    ASSUME TypeOK, UNCHANGED rows, loop' \in Loop,
           expired' \in BOOLEAN, routable' \in BOOLEAN, shown' \in BOOLEAN,
           group' \in {"queue", "other", "none"},
           cleaner' \in {"idle", "deleting", "keeping"}, received' \subseteq Messages
    PROVE  TypeOK'
<1>1. Turned' = Turned
  BY DEF rows, Turned, Range
<1> QED
  BY <1>1 DEF TypeOK, rows, Exists

\* A step that changes the state or the fields of the session.
LEMMA SessionType ==
    ASSUME TypeOK, UNCHANGED <<order, image, world>>, loop' \in Loop,
           issues' \subseteq Issue,
           session' \in [state : States, fields : Fields], Exists' = Exists,
           \/ turn' = turn
           \/ \E reply \in Replies : turn' = Answered(reply)
    PROVE  TypeOK'
<1>1. Turned' = Turned
  BY DEF Turned, Range
<1>2. /\ turn' \in [Messages -> Replies \cup {"NONE", "OPEN"}]
      /\ Turned = {m \in Messages : turn'[m] # "NONE"}
  BY AnsweredType DEF TypeOK
<1> QED
  BY <1>1, <1>2 DEF TypeOK, world

LEMMA SavedReplies ==
    ASSUME IInv, m0 \in Turned
    PROVE  SavedReply(m0) \in Replies
BY DEF IInv, TypeOK, SavedReply, Replies, Denials

LEMMA InitIInv == Init => IInv
<1> SUFFICES ASSUME Init PROVE IInv
  OBVIOUS
<1>1. Turned = {} /\ order \in Seq(Messages) /\ Len(order) = 0
  BY DEF Init, Turned, Range
<1>2. TypeOK
  BY <1>1, IdleIsLoop DEF Init, TypeOK, Exists, States, Fields, Blank
<1>3. Sound
  BY <1>1, IdleIsLoop
     DEF Init, Sound, Turns, Lifetime, Dispatched, Marked, StateTellsTruth, Heard,
         NoFailureSince, Dispatchers, IssueSaysAll, Working, Exists, Gone, At, NotDone
<1> QED
  BY <1>2, <1>3 DEF IInv

LEMMA ReceiveType ==
    ASSUME IInv, NEW m \in Messages, Receive(m)
    PROVE  TypeOK'
<1>1. [Idle EXCEPT !.msg = m, !.at = "received"] \in Loop
  BY IdleIsLoop DEF Loop, Steps
<1> QED
  BY <1>1, LoopType DEF IInv, TypeOK, Receive

LEMMA OpenType ==
    ASSUME IInv, Open
    PROVE  TypeOK'
<1>1. m0 = Initial /\ m0 \in Messages
  BY GroupIntakeConstants DEF Open
<1>2. CASE UNCHANGED rows
  <2>1. loop' \in Loop
    <3>1. CASE Exists
      BY <1>2, <3>1, <1>1, SavedReplies, Moves
         DEF Open, IInv, Sound, Turns, Steps, Replies
    <3>2. CASE ~Exists
      BY <1>2, <3>2, Moves DEF Open, IInv, Steps, Replies, rows, Exists
    <3> QED
      BY <3>1, <3>2
  <2> QED
    BY <1>2, <2>1, LoopType DEF Open, world, IInv, TypeOK
<1>3. CASE ~UNCHANGED rows
  <2>1. /\ ~Exists
        /\ session' = [state |-> "ACTIVE", fields |-> Blank]
        /\ turn' = [turn EXCEPT ![m0] = "OPEN"]
        /\ order' = <<m0>>
        /\ image' \in {"NONE", "STORED"}
        /\ Go("context")
        /\ UNCHANGED issues
    BY <1>3 DEF Open
  <2>2. Turned = {} /\ Turned' = {m0}
    BY <2>1 DEF IInv, TypeOK, Turned, Range
  <2>3. Exists' /\ session' \in [state : States, fields : Fields]
    BY <2>1 DEF Exists, States, Fields, Blank
  <2>4. loop' \in Loop
    BY <2>1, Moves DEF IInv, Steps, Replies
  <2>5. /\ turn' \in [Messages -> Replies \cup {"NONE", "OPEN"}]
        /\ Turned' = {m \in Messages : turn'[m] # "NONE"}
    BY <1>1, <2>1, <2>2 DEF IInv, TypeOK
  <2> QED
    BY <2>1, <2>2, <2>3, <2>4, <2>5 DEF IInv, TypeOK, Open, world
<1> QED
  BY <1>2, <1>3

LEMMA AppendTurned ==
    ASSUME NEW s \in Seq(Messages), NEW m \in Messages
    PROVE  /\ Range(Append(s, m)) = Range(s) \cup {m}
           /\ Append(s, m) \in Seq(Messages) /\ Len(Append(s, m)) = Len(s) + 1
           /\ \A k \in 1..Len(s) : Append(s, m)[k] = s[k]
           /\ Append(s, m)[Len(s) + 1] = m
<1>1. /\ Append(s, m) \in Seq(Messages) /\ Len(Append(s, m)) = Len(s) + 1
      /\ \A k \in 1..Len(s) : Append(s, m)[k] = s[k]
      /\ Append(s, m)[Len(s) + 1] = m
      /\ Len(s) \in Nat
  OBVIOUS
<1>2. Range(Append(s, m)) \subseteq Range(s) \cup {m}
  BY <1>1 DEF Range
<1>3. Range(s) \subseteq Range(Append(s, m))
  BY <1>1 DEF Range
<1>4. m \in Range(Append(s, m))
  <2>1. Len(s) + 1 \in DOMAIN Append(s, m)
    BY <1>1
  <2> QED
    BY <1>1, <2>1 DEF Range
<1> QED
  BY <1>1, <1>2, <1>3, <1>4

LEMMA FollowUpType ==
    ASSUME IInv, FollowUp
    PROVE  TypeOK'
<1>1. m0 \in Messages
  BY InHand DEF FollowUp, At
<1>2. loop' \in Loop
  BY SavedReplies, Moves DEF FollowUp, IInv, Steps, Replies
<1>3. CASE UNCHANGED rows
  BY <1>2, <1>3, LoopType DEF FollowUp, world, IInv, TypeOK
<1>4. CASE ~UNCHANGED rows
  <2>1. /\ Exists /\ m0 \notin Turned
        /\ turn' = [turn EXCEPT ![m0] = "OPEN"]
        /\ order' = Append(order, m0)
        /\ UNCHANGED <<session, issues, image>>
    BY <1>4 DEF FollowUp
  <2>2. Turned' = Turned \cup {m0}
    BY <1>1, <2>1, AppendTurned DEF IInv, Sound, Turns, Turned
  <2>3. /\ turn' \in [Messages -> Replies \cup {"NONE", "OPEN"}]
        /\ Turned' = {m \in Messages : turn'[m] # "NONE"}
    BY <1>1, <2>1, <2>2 DEF IInv, TypeOK
  <2> QED
    BY <1>2, <2>1, <2>2, <2>3 DEF IInv, TypeOK, FollowUp, world, Exists
<1> QED
  BY <1>3, <1>4

LEMMA ThinkType ==
    ASSUME IInv, Context \/ AgentDrafts \/ AgentFails
    PROVE  TypeOK'
<1>1. loop' \in Loop
  <2>1. CASE Context
    <3>1. [loop EXCEPT !.at = "agent", !.fields = Read, !.teams = routable] \in Loop
      BY ReadIsFields DEF IInv, TypeOK, Loop, Steps
    <3>2. /\ {"expired", "stopped", "dispatched", "pending"} \subseteq Replies
          /\ {"reply", "answer", "reopen", "begin"} \subseteq Steps
      BY DEF Replies, Denials, Steps
    <3>3. routable \in BOOLEAN
      BY DEF IInv, TypeOK
    <3> HIDE DEF Replies, Steps
    <3> QED
      BY <2>1, <3>1, <3>2, <3>3, ReadIsFields, Moves, Judges DEF Context, IInv
  <2>2. CASE AgentDrafts
    <3>1. PICK whole \in {FALSE, loop.teams} :
             loop' = Judged([seen |-> Turned, whole |-> whole], loop.teams)
      BY <2>2 DEF AgentDrafts
    <3>2. loop.teams \in BOOLEAN
      BY DEF IInv, TypeOK, Loop
    <3>3. [seen |-> Turned, whole |-> whole] \in Fields
      BY <3>2, TurnedIsMessages DEF IInv, Fields
    <3> QED
      BY <3>1, <3>2, <3>3, Judges DEF IInv
  <2>3. CASE AgentFails
    BY <2>3, Moves DEF AgentFails, IInv, Steps, Replies, Denials
  <2> QED
    BY <2>1, <2>2, <2>3
<1> QED
  BY <1>1, LoopType DEF Context, AgentDrafts, AgentFails, world, IInv, TypeOK

LEMMA SaveType ==
    ASSUME IInv, Save \/ Propose \/ Reply
    PROVE  TypeOK'
<1>1. loop' \in Loop /\ loop.reply \in Replies /\ loop.fields \in Fields
  BY Moves DEF IInv, TypeOK, Loop, Save, Propose, Reply, Steps, Replies
<1>2. session' \in [state : States, fields : Fields] /\ Exists' = Exists
  BY <1>1 DEF IInv, TypeOK, Save, Propose, Reply, Proposed, Exists
<1> HIDE DEF Exists
<1> QED
  BY <1>1, <1>2, SessionType DEF Save, Propose, Reply, IInv, TypeOK

LEMMA DispatchType ==
    ASSUME IInv, Begin \/ Reset \/ Mark \/ Recover
    PROVE  TypeOK'
<1>1. /\ {"refused", "expired", "dispatched", "proposal"} \subseteq Replies
      /\ {"reply", "report", "reset", "again"} \subseteq Steps
      /\ {"ACTIVE", "COMPLETED", "DISPATCHING"} \subseteq States
  BY DEF Replies, Denials, Steps, States
<1>2. loop' \in Loop
  <2>1. [loop EXCEPT !.at = "create", !.fields = session.fields] \in Loop
    BY DEF IInv, TypeOK, Loop, Steps
  <2> HIDE DEF Replies, Steps
  <2>2. CASE Begin
    BY <1>1, <2>1, <2>2, Moves DEF Begin, IInv
  <2> QED
    BY <1>1, <2>2, Moves DEF Reset, Mark, Recover, IInv
<1>3. \/ UNCHANGED session
      \/ Exists /\ \E state \in {"ACTIVE", "COMPLETED", "DISPATCHING"} : Become(state)
  BY DEF Begin, Reset, Mark, Recover, Recovered, Exists
<1>4. session' \in [state : States, fields : Fields] /\ Exists' = Exists
  BY <1>1, <1>3, Becomes DEF IInv, TypeOK, Exists
<1> HIDE DEF Exists
<1> QED
  BY <1>2, <1>4, SessionType DEF Begin, Reset, Mark, Recover, IInv, TypeOK

LEMMA CreateType ==
    ASSUME IInv, Create
    PROVE  TypeOK'
<1>1. loop' \in Loop
  BY Moves DEF Create, IInv, Steps, Replies
<1>2. issues' \subseteq Issue
  <2>1. m0 \in Messages
    BY InHand DEF Create, At
  <2>2. [marker |-> Marker, by |-> m0, seen |-> loop.fields.seen] \in Issue
    BY <2>1 DEF Issue, Marker, IInv, TypeOK, Loop, Fields
  <2> QED
    BY <2>2 DEF Create, IInv, TypeOK
<1> QED
  BY <1>1, <1>2, SessionType DEF Create, IInv, TypeOK, Exists

LEMMA WorldType ==
    ASSUME IInv, Answer \/ Fault \/ Crash \/ Rebind \/ Expire
    PROVE  TypeOK'
<1>1. loop' \in Loop
  <2>1. CASE Fault
    <3>1. /\ [loop EXCEPT !.at = "recover"] \in Loop
          /\ [loop EXCEPT !.at = "reply", !.reply = "sorry"] \in Loop
      BY DEF IInv, TypeOK, Loop, Steps, Replies
    <3> QED
      BY <2>1, <3>1, IdleIsLoop DEF Fault
  <2> QED
    BY <2>1, IdleIsLoop DEF Answer, Crash, Rebind, Expire, IInv, TypeOK
<1> QED
  BY <1>1, LoopType DEF Answer, Fault, Crash, Rebind, Expire, world, IInv, TypeOK

LEMMA CleanType ==
    ASSUME IInv, Clean
    PROVE  TypeOK'
<1>1. CASE CleanFile
  <2>1. Turned' = Turned
    BY <1>1 DEF CleanFile, Turned, Range
  <2> QED
    BY <1>1, <2>1 DEF CleanFile, IInv, TypeOK, Exists
<1>2. CASE CleanRows /\ cleaner = "deleting" /\ issues # {}
  <2>1. Turned' = Turned
    BY <1>2 DEF CleanRows, Turned, Range
  <2> QED
    BY <1>2, <2>1 DEF CleanRows, IInv, TypeOK, Exists
<1>3. CASE CleanRows /\ ~(cleaner = "deleting" /\ issues # {})
  <2>1. Turned' = {}
    BY <1>3 DEF CleanRows, Turned, Range
  <2>2. session' \in [state : States, fields : Fields] /\ session'.state = "GONE"
    BY <1>3, Becomes DEF CleanRows, IInv, States
  <2> QED
    BY <1>3, <2>1, <2>2 DEF CleanRows, IInv, TypeOK, Exists
<1> QED
  BY <1>1, <1>2, <1>3 DEF Clean

LEMMA StepType == IInv /\ Next => TypeOK'
BY ReceiveType, OpenType, FollowUpType, ThinkType, SaveType, DispatchType, CreateType,
   WorldType, CleanType DEF Next, LoopStep

-----------------------------------------------------------------------------
(* What a step leaves as it was.                                           *)

LEMMA SameOrder ==
    ASSUME UNCHANGED order
    PROVE  Turned' = Turned /\ \A m : Before(m)' = Before(m)
BY DEF Turned, Range, Before

LEMMA SameSaid ==
    ASSUME UNCHANGED <<order, turn>>
    PROVE  /\ Proposals' = Proposals
           /\ loop'.msg = loop.msg => Said' = Said
BY SameOrder DEF Proposals, Said, m0

LEMMA SameIssues ==
    ASSUME IInv, UNCHANGED <<order, turn, issues>>, Gone => Gone'
    PROVE  Marked' /\ Dispatchers' /\ IssueSaysAll'
BY SameOrder DEF IInv, Sound, Marked, Dispatchers, IssueSaysAll, Marker

LEMMA SameRows ==
    ASSUME IInv, UNCHANGED rows
    PROVE  Marked' /\ Dispatchers' /\ IssueSaysAll' /\ StateTellsTruth'
BY SameIssues DEF IInv, Sound, rows, StateTellsTruth, Gone

LEMMA SameTurns ==
    ASSUME IInv, UNCHANGED order, Exists' => Exists,
           Working' => Working /\ loop'.msg = m0 /\ turn'[m0] = turn[m0]
    PROVE  Turns'
BY SameOrder DEF IInv, Sound, Turns, m0

\* The turn in hand is the last, and the one before it alone comes before it.
LEMMA LastTurn ==
    ASSUME IInv, Working, Exists
    PROVE  /\ m0 \in Turned /\ turn[m0] = "OPEN" /\ order[Len(order)] = m0
           /\ Before(m0) = IF Len(order) > 1 THEN {order[Len(order) - 1]} ELSE {}
<1>1. /\ Len(order) \in Nat /\ Len(order) > 0 /\ order[Len(order)] = m0
      /\ turn[m0] = "OPEN" /\ DOMAIN order = 1..Len(order)
      /\ \A j, k \in 1..Len(order) : order[j] = order[k] => j = k
  BY DEF IInv, Sound, Turns
<1>2. m0 \in Turned
  BY <1>1 DEF Turned, Range
<1>3. ASSUME NEW k \in 2..Len(order) PROVE order[k] = m0 <=> k = Len(order)
  <2>1. k \in 1..Len(order) /\ Len(order) \in 1..Len(order)
    BY <1>1
  <2>2. order[k] = order[Len(order)] => k = Len(order)
    BY <1>1, <2>1
  <2> QED
    BY <1>1, <2>2
<1>4. CASE Len(order) > 1
  <2>1. Len(order) \in 2..Len(order)
    BY <1>1, <1>4
  <2>2. {k \in 2..Len(order) : order[k] = m0} = {Len(order)}
    BY <1>3, <2>1
  <2> QED
    BY <1>1, <1>2, <1>4, <2>2 DEF Before
<1>5. CASE ~(Len(order) > 1)
  <2>1. {k \in 2..Len(order) : order[k] = m0} = {}
    BY <1>1, <1>5
  <2> QED
    BY <1>1, <1>2, <1>5, <2>1 DEF Before
<1> QED
  BY <1>4, <1>5

LEMMA GoneIsEmpty == IInv /\ ~Exists => Turned = {} /\ (Gone \/ session.state = "NONE")
BY DEF IInv, TypeOK, Exists, Gone, States

LEMMA WorkingIsOpen == IInv /\ Working => Exists \/ Gone
BY DEF IInv, Sound, Lifetime, TypeOK, Exists, Gone, States

-----------------------------------------------------------------------------
(* The loop, and what goes wrong on the way.                               *)

LEMMA ReceiveSound ==
    ASSUME IInv, NEW m \in Messages, Receive(m)
    PROVE  Sound'
<1>1. loop'.at = "received" /\ loop'.msg = m /\ received' = received \cup {m}
      /\ UNCHANGED <<rows, session, turn, order, issues, expired, cleaner>>
  BY DEF Receive, rows, Idle
<1>2. Marked' /\ Dispatchers' /\ IssueSaysAll' /\ StateTellsTruth'
  BY <1>1, SameRows
<1>3. Turns'
  BY <1>1, SameTurns DEF Working, Exists
<1>4. m = Initial => ~expired
  <2>1. CASE m \in received
    BY <2>1 DEF Receive
  <2>2. CASE Initial \notin received
    BY <2>2 DEF IInv, Sound, Lifetime
  <2> QED
    BY <2>1, <2>2
<1>5. Lifetime'
  BY <1>1, <1>4 DEF IInv, Sound, Lifetime, Working, At, Gone, m0
<1>6. Dispatched' /\ Heard' /\ NoFailureSince'
  BY <1>1, SameSaid DEF IInv, Sound, Dispatched, Heard, NoFailureSince, At, Exists
<1> QED
  BY <1>2, <1>3, <1>5, <1>6 DEF Sound

LEMMA StopSound ==
    ASSUME IInv, UNCHANGED <<rows, expired, received>>, loop'.at = "idle",
           cleaner' \in {cleaner, "idle"}
    PROVE  Sound'
<1>1. UNCHANGED <<session, turn, order, issues>>
  BY DEF rows
<1>2. Marked' /\ Dispatchers' /\ IssueSaysAll' /\ StateTellsTruth'
  BY SameRows
<1>3. Turns'
  BY <1>1, SameTurns DEF Working, Exists
<1>4. Lifetime'
  BY <1>1 DEF IInv, Sound, Lifetime, Working, At, Gone
<1>5. Dispatched' /\ Heard' /\ NoFailureSince'
  BY <1>1, SameSaid DEF IInv, Sound, Dispatched, Heard, NoFailureSince, At, Exists
<1> QED
  BY <1>2, <1>3, <1>4, <1>5 DEF Sound

LEMMA FaultSound ==
    ASSUME IInv, Fault
    PROVE  Sound'
<1>1. UNCHANGED <<session, turn, order, issues, rows, expired, cleaner, received>>
  BY DEF Fault, rows, world
<1>2. CASE loop.at \in {"create", "mark", "report"}
  <2>1. loop'.at = "recover" /\ loop'.msg = m0
    BY <1>2 DEF Fault, IInv, TypeOK, Loop, m0
  <2>2. Turns' /\ Lifetime'
    BY <1>1, <1>2, <2>1, SameTurns
       DEF Working, Exists, IInv, Sound, Lifetime, At, Gone, m0
  <2>3. Dispatched' /\ Heard' /\ NoFailureSince'
    BY <1>1, <2>1, SameSaid DEF IInv, Sound, Dispatched, Heard, NoFailureSince, At, Exists
  <2> QED
    BY <1>1, <2>2, <2>3, SameRows DEF Sound
<1>3. CASE loop.at \in {"context", "propose"}
  <2>1. loop'.at = "reply" /\ loop'.reply = "sorry" /\ loop'.msg = m0
    BY <1>3 DEF Fault, IInv, TypeOK, Loop, m0
  <2>2. Turns' /\ Lifetime'
    BY <1>1, <1>3, <2>1, SameTurns
       DEF Working, Exists, IInv, Sound, Lifetime, At, Gone, m0
  <2>3. Dispatched' /\ Heard' /\ NoFailureSince'
    BY <1>1, <2>1, SameSaid
       DEF IInv, Sound, Dispatched, Heard, NoFailureSince, At, Exists, Denials
  <2> QED
    BY <1>1, <2>2, <2>3, SameRows DEF Sound
<1>4. CASE loop.at \notin {"create", "mark", "report", "context", "propose"}
  <2>1. loop' = Idle
    BY <1>4 DEF Fault
  <2> QED
    BY <1>1, <2>1, StopSound, IdleIsLoop
<1> QED
  BY <1>2, <1>3, <1>4

LEMMA WorldSound ==
    ASSUME IInv, Answer \/ Crash \/ Rebind \/ Expire
    PROVE  Sound'
<1>1. CASE Answer \/ Crash
  BY <1>1, StopSound, IdleIsLoop DEF Answer, Crash
<1>2. CASE Rebind \/ Expire
  <2>1. UNCHANGED <<session, turn, order, issues, rows, cleaner, received, loop>>
    BY <1>2 DEF Rebind, Expire, rows
  <2>2. \/ expired' = expired
        \/ expired' = TRUE /\ Exists /\ ~(At("received") /\ m0 = Initial)
    BY <1>2 DEF Rebind, Expire
  <2>3. Turns' /\ Lifetime'
    BY <2>1, <2>2, SameTurns
       DEF Working, Exists, IInv, Sound, Lifetime, At, Gone, m0
  <2>4. Dispatched' /\ Heard' /\ NoFailureSince'
    BY <2>1, <2>2, SameSaid
       DEF IInv, Sound, Dispatched, Heard, NoFailureSince, At, Exists, NotDone, Gone, m0
  <2> QED
    BY <2>1, <2>3, <2>4, SameRows DEF Sound
<1> QED
  BY <1>1, <1>2

-----------------------------------------------------------------------------
(* A turn.                                                                 *)

\* A step of a turn that leaves the rows as they are.
LEMMA TurnSound ==
    ASSUME IInv, UNCHANGED <<rows, world>>, Working, loop'.msg = m0,
           loop'.at \notin {"idle", "received", "context"}, Dispatched', Heard'
    PROVE  Sound'
<1>1. UNCHANGED <<session, turn, order, issues, expired, cleaner, received>>
  BY DEF rows, world
<1>2. Turns' /\ Lifetime'
  BY <1>1, SameTurns DEF Working, Exists, IInv, Sound, Lifetime, At, Gone, m0
<1>3. NoFailureSince'
  BY <1>1 DEF IInv, Sound, NoFailureSince, At
<1> QED
  BY <1>2, <1>3, SameRows DEF Sound

LEMMA ContextSound ==
    ASSUME IInv, Context
    PROVE  Sound'
<1>1. /\ UNCHANGED <<rows, world, session, turn, order, issues, expired>>
      /\ Working /\ loop.at \in {"context", "again"}
  BY DEF Context, rows, world, Working, At
<1>2. Proposals \subseteq Said
  BY DEF Proposals, Said
<1>3. ASSUME NEW reply \in {"expired", "stopped", "dispatched", "pending"},
             NEW step \in {"reply", "answer"},
             Say(step, reply), reply = "expired" => expired
      PROVE  Sound'
  <2>1. loop'.at = step /\ loop'.reply = reply /\ loop'.msg = m0
    BY <1>3, Moves DEF IInv, Steps, Replies, Denials
  <2>2. Dispatched' /\ Heard'
    BY <1>1, <1>3, <2>1, SameSaid DEF IInv, Sound, Dispatched, Heard, At, Exists, Denials
  <2> QED
    BY <1>1, <2>1, <2>2, TurnSound
<1>4. ASSUME Exists, session.state = "DISPATCHING", At("context"),
             Go(IF m0 \in WithText THEN "reopen" ELSE "begin")
      PROVE  Sound'
  <2>1. loop'.at = (IF m0 \in WithText THEN "reopen" ELSE "begin") /\ loop'.msg = m0
    BY <1>4 DEF Go, IInv, TypeOK, Loop, m0
  <2>2. m0 \notin WithText => Said \subseteq session.fields.seen
    <3>1. \A m \in Before(m0) : turn[m] # "failed"
      BY <1>1, <1>4, LastTurn DEF IInv, Sound, NoFailureSince
    <3> QED
      BY <1>4, <3>1 DEF IInv, Sound, Heard, Said, Proposals
  <2>3. \/ loop'.at = "reopen"
        \/ loop'.at = "begin" /\ Said \subseteq session.fields.seen
    BY <2>1, <2>2
  <2>4. Dispatched'
    BY <1>1, <2>3 DEF IInv, Sound, Dispatched, At
  <2>5. Heard'
    <3>1. Proposals' = Proposals /\ Said' = Said /\ session' = session /\ Exists
      BY <1>1, <1>4, <2>1, SameSaid DEF m0
    <3>2. Proposals \subseteq session.fields.seen
      BY <1>4 DEF IInv, Sound, Heard
    <3> QED
      BY <2>3, <3>1, <3>2 DEF Heard, At
  <2> QED
    BY <1>1, <2>1, <2>3, <2>4, <2>5, TurnSound
<1>5. ASSUME Exists, session.state # "COMPLETED",
             ~(session.state = "DISPATCHING" /\ At("context"))
      PROVE  session.state = "ACTIVE" /\ issues = {}
  BY <1>1, <1>5 DEF IInv, Sound, Dispatched, StateTellsTruth, TypeOK, States, Exists, At
<1>6. ASSUME Exists, session.state = "ACTIVE", issues = {},
             loop' = [loop EXCEPT !.at = "agent", !.fields = Read, !.teams = routable]
      PROVE  Sound'
  <2>1. loop'.at = "agent" /\ loop'.msg = m0 /\ loop'.fields.seen = session.fields.seen
    BY <1>6, ReadIsFields DEF IInv, TypeOK, Loop, m0
  <2>2. Dispatched' /\ Heard'
    BY <1>1, <1>6, <2>1, SameSaid
       DEF IInv, Sound, Dispatched, Heard, At, Exists, NotDone, Gone
  <2> QED
    BY <1>1, <2>1, <2>2, TurnSound
<1>7. ASSUME Exists, session.state = "ACTIVE", issues = {}, ~NeedsAgent,
             loop' = Judged(Read, routable)
      PROVE  Sound'
  <2>1. /\ loop'.msg = m0 /\ loop'.fields.seen = session.fields.seen
        /\ \/ loop'.at = "propose"
           \/ loop'.at = "save" /\ loop'.reply = "proposal"
    BY <1>7, Judges, ReadIsFields DEF IInv, TypeOK
  <2>2. Said \subseteq session.fields.seen
    BY <1>1, <1>7, LastTurn DEF NeedsAgent, Retry, IInv, Sound, Heard, Said, Proposals
  <2>3. Dispatched' /\ Heard'
    BY <1>1, <1>2, <1>7, <2>1, <2>2, SameSaid
       DEF IInv, Sound, Dispatched, Heard, At, Exists, NotDone, Gone, NeedsAgent, m0
  <2> QED
    BY <1>1, <2>1, <2>3, TurnSound
<1> QED
  BY <1>3, <1>4, <1>5, <1>6, <1>7 DEF Context

LEMMA AgentSound ==
    ASSUME IInv, AgentDrafts \/ AgentFails
    PROVE  Sound'
<1>1. /\ UNCHANGED <<rows, world, session, turn, order, issues, expired>>
      /\ Working /\ loop.at = "agent"
  BY DEF AgentDrafts, AgentFails, rows, world, Working, At
<1>2. NotDone /\ session.state # "DISPATCHING"
  BY <1>1 DEF IInv, Sound, Dispatched, At
<1>3. Proposals \subseteq Said /\ Said \subseteq Turned
  BY DEF Proposals, Said
<1>4. CASE AgentDrafts
  <2>1. PICK whole \in {FALSE, loop.teams} :
           loop' = Judged([seen |-> Turned, whole |-> whole], loop.teams)
    BY <1>4 DEF AgentDrafts
  <2>2. loop.teams \in BOOLEAN /\ [seen |-> Turned, whole |-> whole] \in Fields
    BY TurnedIsMessages DEF IInv, TypeOK, Loop, Fields
  <2>3. /\ loop'.msg = m0 /\ loop'.fields.seen = Turned
        /\ \/ loop'.at = "propose"
           \/ loop'.at = "save" /\ loop'.reply = "proposal"
    BY <2>1, <2>2, Judges DEF IInv
  <2>4. Exists => m0 \in Turned
    BY <1>1, LastTurn
  <2>5. Dispatched' /\ Heard'
    BY <1>1, <1>2, <1>3, <2>3, <2>4, SameSaid
       DEF IInv, Sound, Dispatched, Heard, At, Exists, NotDone, Gone, m0
  <2> QED
    BY <1>1, <2>3, <2>5, TurnSound
<1>5. CASE AgentFails
  <2>1. loop'.at = "save" /\ loop'.reply = "failed" /\ loop'.msg = m0
        /\ loop'.fields = loop.fields
    BY <1>5 DEF AgentFails, Say, IInv, TypeOK, Loop, m0
  <2>2. Dispatched' /\ Heard'
    BY <1>1, <1>2, <2>1, SameSaid
       DEF IInv, Sound, Dispatched, Heard, At, Exists, NotDone, Gone
  <2> QED
    BY <1>1, <2>1, <2>2, TurnSound
<1> QED
  BY <1>4, <1>5

-----------------------------------------------------------------------------
(* The steps of a turn and of a dispatch that write.                       *)

\* The loop goes on in the same turn; what it writes is the session, or nothing.
LEMMA SessionSound ==
    ASSUME IInv, UNCHANGED <<order, turn, issues, world>>, Working, loop'.msg = m0,
           loop'.at \notin {"idle", "received", "context"},
           \/ session'.state = session.state
           \/ Exists /\ session'.state \in {"ACTIVE", "COMPLETED", "DISPATCHING"},
           session'.state = "DISPATCHING" =>
              session.state = "DISPATCHING" \/ turn[m0] = "OPEN",
           StateTellsTruth', Dispatched', Heard'
    PROVE  Sound'
<1>1. /\ Exists' <=> Exists
      /\ Gone' <=> Gone
      /\ session'.state = "NONE" <=> session.state = "NONE"
  BY DEF Exists, Gone
<1>2. Marked' /\ Dispatchers' /\ IssueSaysAll'
  BY <1>1, SameIssues
<1>3. Turns'
  BY <1>1, SameTurns DEF Working
<1>4. Lifetime'
  BY <1>1 DEF IInv, Sound, Lifetime, Working, At, m0, world
<1>5. NoFailureSince'
  <2>1. turn[m0] = "OPEN" /\ Exists => turn[order[Len(order)]] # "failed"
    BY LastTurn
  <2> QED
    BY <2>1 DEF IInv, Sound, NoFailureSince, At, Exists
<1> QED
  BY <1>2, <1>3, <1>4, <1>5 DEF Sound

\* The turn in hand gets its answer.
LEMMA AnsweredSound ==
    ASSUME IInv, Working, UNCHANGED <<order, issues, world>>, loop'.at = "answer",
           loop'.msg = m0, NEW reply \in Replies, turn' = Answered(reply),
           session'.state = session.state,
           Exists /\ reply \in {"proposal", "failed"} => NotDone,
           reply = "failed" => session.state # "DISPATCHING",
           Exists => /\ Proposals \subseteq session'.fields.seen
                     /\ reply = "proposal" /\ m0 \in WithText => m0 \in session'.fields.seen
    PROVE  Sound'
<1>1. /\ Exists' <=> Exists
      /\ Gone' <=> Gone
      /\ UNCHANGED <<expired, cleaner, received>>
      /\ Turned' = Turned
  BY SameOrder DEF Exists, Gone, world
<1>2. \A m \in Messages : turn'[m] = turn[m] \/ (m = m0 /\ turn'[m] = reply /\ Exists)
  BY GoneIsEmpty DEF Answered, IInv, TypeOK
<1>3. Marked' /\ Dispatchers'
  BY <1>1 DEF IInv, Sound, Marked, Dispatchers, Marker
<1>4. IssueSaysAll'
  <2>1. CASE issues = {} \/ ~Exists
    BY <1>1, <2>1, GoneIsEmpty DEF IssueSaysAll
  <2>2. CASE issues # {} /\ Exists
    <3>1. reply \notin {"proposal", "failed"}
      BY <2>2 DEF NotDone, Gone, Exists
    <3>2. \A m \in Messages : turn'[m] \in {"proposal", "failed"} => turn'[m] = turn[m]
      BY <1>2, <3>1
    <3>3. \A m : Before(m)' = Before(m)
      BY SameOrder
    <3> QED
      BY <1>1, <3>2, <3>3, TurnedIsMessages DEF IInv, Sound, IssueSaysAll
  <2> QED
    BY <2>1, <2>2
<1>5. Turns'
  BY <1>1, SameTurns DEF Working
<1>6. Lifetime'
  BY <1>1 DEF IInv, Sound, Lifetime, Working, At, m0, Gone
<1>7. Dispatched' /\ StateTellsTruth'
  BY <1>1 DEF IInv, Sound, Dispatched, At, StateTellsTruth
<1>8. Heard'
  <2>1. ASSUME Exists, NEW m \in Proposals' PROVE m \in session'.fields.seen
    <3>1. m \in WithText \cap Turned /\ turn'[m] = "proposal" /\ m \in Messages
      BY <1>1, GroupIntakeConstants DEF Proposals
    <3>2. CASE turn'[m] = turn[m]
      BY <2>1, <3>1, <3>2 DEF Proposals
    <3>3. CASE m = m0 /\ reply = "proposal"
      BY <2>1, <3>1, <3>3
    <3> QED
      BY <1>2, <3>1, <3>2, <3>3
  <2> QED
    BY <1>1, <2>1 DEF Heard, At
<1>9. NoFailureSince'
  <2>1. CASE session.state = "DISPATCHING"
    <3>1. turn'[order[Len(order)]] # "failed"
      <4>1. order[Len(order)] = m0 /\ m0 \in Messages
        BY <2>1, LastTurn, InHand DEF Exists, Working, At
      <4> QED
        BY <1>2, <2>1, <4>1 DEF IInv, Sound, NoFailureSince
    <3> QED
      BY <3>1 DEF NoFailureSince, At
  <2> QED
    BY <2>1 DEF NoFailureSince
<1> QED
  BY <1>3, <1>4, <1>5, <1>6, <1>7, <1>8, <1>9 DEF Sound

LEMMA SaveSound ==
    ASSUME IInv, Save
    PROVE  Sound'
<1>1. /\ loop.at = "save" /\ Working /\ turn' = Answered(loop.reply) /\ loop'.at = "answer"
      /\ loop'.msg = m0 /\ UNCHANGED <<order, issues, world>>
      /\ loop.reply \in Replies
  BY Moves DEF Save, At, Working, Go, IInv, TypeOK, Loop, m0
<1>2. /\ session'.state = session.state
      /\ Exists => session'.fields = loop.fields
  BY DEF Save, Proposed, IInv, TypeOK
<1> QED
  BY <1>1, <1>2, AnsweredSound DEF IInv, Sound, Dispatched, Heard, At

LEMMA ReplySound ==
    ASSUME IInv, Reply
    PROVE  Sound'
<1>1. /\ loop.at \in {"reply", "report"} /\ Working /\ turn' = Answered(loop.reply)
      /\ loop'.at = "answer" /\ loop'.msg = m0
      /\ UNCHANGED <<session, order, issues, world>> /\ loop.reply \in Replies
  BY Moves DEF Reply, At, Working, Go, IInv, TypeOK, Loop, m0
<1> QED
  BY <1>1, AnsweredSound DEF IInv, Sound, Dispatched, Heard, At

LEMMA ProposeSound ==
    ASSUME IInv, Propose
    PROVE  Sound'
<1>1. /\ loop.at = "propose" /\ Working /\ loop'.at = "begin" /\ loop'.msg = m0
      /\ UNCHANGED <<turn, order, issues, world>>
  BY Moves DEF Propose, At, Working, Go, IInv, TypeOK, Loop, m0
<1>2. /\ session'.state = session.state
      /\ Exists => session'.fields = loop.fields
  BY DEF Propose, Proposed, IInv, TypeOK
<1>3. Proposals \subseteq Said /\ Proposals' = Proposals /\ Said' = Said
  BY <1>1, SameSaid DEF Proposals, Said, m0
<1>4. Heard'
  BY <1>1, <1>2, <1>3 DEF IInv, Sound, Heard, At, Exists
<1>5. Dispatched' /\ StateTellsTruth'
  BY <1>1, <1>2 DEF IInv, Sound, Dispatched, StateTellsTruth, At
<1> QED
  BY <1>1, <1>2, <1>4, <1>5, SessionSound

LEMMA MarkerTells == IInv => (Created <=> issues # {})
BY DEF IInv, Sound, Marked, Created

LEMMA BeginSound ==
    ASSUME IInv, Begin
    PROVE  Sound'
<1>1. /\ loop.at = "begin" /\ Working
      /\ UNCHANGED <<turn, order, issues, world, expired>>
  BY DEF Begin, At, Working, world
<1>2. Proposals' = Proposals /\ (loop'.msg = m0 => Said' = Said)
  BY <1>1, SameSaid DEF m0
<1>3. Exists => turn[m0] = "OPEN" /\ m0 \in Turned /\ (m0 \in WithText => m0 \in Said)
  BY <1>1, LastTurn DEF Said
<1>4. Exists => Proposals \subseteq session.fields.seen /\ Said \subseteq session.fields.seen
  BY <1>1 DEF IInv, Sound, Heard, At
<1>5. ASSUME NEW reply \in {"refused", "expired", "dispatched", "proposal"},
             Say("reply", reply),
             \/ session' = session
             \/ Exists /\ (Become("ACTIVE") \/ Become("COMPLETED")),
             reply \in Denials => issues = {} \/ expired,
             reply = "proposal" => issues = {} /\ Exists,
             StateTellsTruth'
      PROVE  Sound'
  <2>1. loop'.at = "reply" /\ loop'.reply = reply /\ loop'.msg = m0
    BY <1>5 DEF Say, IInv, TypeOK, Loop, m0
  <2>2. /\ session'.fields = session.fields
        /\ \/ session'.state = session.state
           \/ Exists /\ session'.state \in {"ACTIVE", "COMPLETED"}
    BY <1>5, Becomes DEF IInv, States
  <2>3. Dispatched'
    BY <1>1, <1>5, <2>1 DEF Dispatched, At, NotDone, Denials
  <2>4. Heard'
    BY <1>2, <1>3, <1>4, <1>5, <2>1, <2>2 DEF Heard, At, Exists, m0
  <2> QED
    BY <1>1, <1>5, <2>1, <2>2, <2>3, <2>4, SessionSound
<1>6. CASE ~Exists
  <2>1. Say("reply", "refused") /\ session' = session
    BY <1>6 DEF Begin
  <2>2. expired
    BY <1>1, <1>6, WorkingIsOpen DEF IInv, Sound, Lifetime
  <2> QED
    BY <1>1, <1>5, <2>1, <2>2 DEF IInv, Sound, StateTellsTruth
<1>7. CASE Exists /\ expired
  <2>1. Say("reply", "expired") /\ session' = session
    BY <1>7 DEF Begin
  <2> QED
    BY <1>1, <1>5, <1>7, <2>1 DEF IInv, Sound, StateTellsTruth
<1>8. CASE Exists /\ ~expired /\ (session.state = "COMPLETED" \/ Created)
  <2>1. Say("reply", "dispatched") /\ Become("COMPLETED")
    BY <1>8 DEF Begin
  <2>2. issues # {}
    BY <1>8, MarkerTells DEF IInv, Sound, StateTellsTruth
  <2>3. StateTellsTruth'
    BY <1>1, <2>1, <2>2 DEF StateTellsTruth, Become, IInv, TypeOK
  <2> QED
    BY <1>5, <1>8, <2>1, <2>3 DEF Denials
<1>9. CASE Exists /\ ~expired /\ session.state # "COMPLETED" /\ ~Created
  <2>1. issues = {}
    BY <1>9, MarkerTells
  <2>2. CASE Go("reset") /\ UNCHANGED session
    <3>1. loop'.at = "reset" /\ loop'.msg = m0
      BY <2>2 DEF Go, IInv, TypeOK, Loop, m0
    <3>2. Dispatched' /\ StateTellsTruth'
      BY <1>1, <2>1, <2>2, <3>1 DEF Dispatched, At, IInv, Sound, StateTellsTruth
    <3>3. Heard'
      BY <1>2, <1>4, <2>2, <3>1 DEF Heard, At, Exists
    <3> QED
      BY <1>1, <2>2, <3>1, <3>2, <3>3, SessionSound
  <2>3. CASE \E reply \in {"refused", "proposal"} : Say("reply", reply) /\ Become("ACTIVE")
    <3>1. StateTellsTruth'
      BY <1>1, <2>1, <2>3 DEF StateTellsTruth, Become, IInv, TypeOK
    <3> QED
      BY <1>5, <1>9, <2>1, <2>3, <3>1
  <2>4. CASE /\ loop' = [loop EXCEPT !.at = "create", !.fields = session.fields]
             /\ Become("DISPATCHING")
    <3>1. loop'.at = "create" /\ loop'.msg = m0 /\ loop'.fields = session.fields
      BY <2>4 DEF IInv, TypeOK, Loop, m0
    <3>2. session'.state = "DISPATCHING" /\ session'.fields = session.fields
      BY <2>4 DEF Become, IInv, TypeOK
    <3>3. Dispatched' /\ StateTellsTruth'
      BY <3>1, <3>2 DEF Dispatched, StateTellsTruth, At
    <3>4. Heard'
      BY <1>2, <1>4, <1>9, <3>1, <3>2 DEF Heard, At
    <3> QED
      BY <1>1, <1>3, <1>9, <3>1, <3>2, <3>3, <3>4, SessionSound
  <2> QED
    BY <1>9, <2>2, <2>3, <2>4 DEF Begin
<1> QED
  BY <1>6, <1>7, <1>8, <1>9

\* The steps after a dispatch: the session becomes what the issues say.
LEMMA SettleSound ==
    ASSUME IInv, Working, UNCHANGED <<turn, order, issues, world>>, loop'.msg = m0,
           loop'.at \in {"reply", "report", "again"},
           loop'.at # "again" => loop'.reply \in {"dispatched", "refused"},
           loop'.at # "again" /\ loop'.reply = "refused" => issues = {} \/ expired,
           loop'.at = "again" => ~Exists \/ (issues = {} /\ session'.state = "ACTIVE"),
           \/ session' = session
           \/ Exists /\ issues = {} /\ Become("ACTIVE")
           \/ Exists /\ issues # {} /\ Become("COMPLETED")
    PROVE  Sound'
<1>1. /\ session'.fields = session.fields
      /\ \/ session'.state = session.state
         \/ Exists /\ issues = {} /\ session'.state = "ACTIVE"
         \/ Exists /\ issues # {} /\ session'.state = "COMPLETED"
  BY DEF Become, IInv, TypeOK
<1>2. StateTellsTruth'
  BY <1>1 DEF IInv, Sound, StateTellsTruth
<1>3. ~Exists => session'.state = "GONE"
  BY <1>1, WorkingIsOpen DEF Gone
<1>4. Dispatched'
  BY <1>1, <1>3 DEF Dispatched, At, NotDone, Gone, Denials, world
<1>5. Heard'
  BY <1>1, SameSaid DEF IInv, Sound, Heard, At, Exists
<1> QED
  BY <1>1, <1>2, <1>4, <1>5, SessionSound

LEMMA DispatchSound ==
    ASSUME IInv, Reset \/ Mark \/ Recover
    PROVE  Sound'
<1>1. CASE Reset
  <2>1. Working /\ issues = {} /\ loop'.at = "reply" /\ loop'.msg = m0 /\ loop'.reply = "refused"
    BY <1>1 DEF Reset, At, Working, Say, IInv, Sound, Dispatched, TypeOK, Loop, m0
  <2> QED
    BY <1>1, <2>1, SettleSound DEF Reset, Exists
<1>2. CASE Mark
  <2>1. Working /\ issues # {} /\ loop'.at = "report" /\ loop'.msg = m0
        /\ loop'.reply = "dispatched"
    BY <1>2 DEF Mark, At, Working, Say, IInv, Sound, Dispatched, TypeOK, Loop, m0
  <2> QED
    BY <1>2, <2>1, SettleSound DEF Mark
<1>3. CASE Recover
  <2>1. /\ Working /\ loop'.msg = m0
        /\ \/ loop'.at = "reply" /\ loop'.reply \in {"dispatched", "refused"}
              /\ (loop'.reply = "refused" => ~Exists \/ Recovered # "COMPLETED")
           \/ loop'.at = "again" /\ (~Exists \/ Recovered # "COMPLETED")
    BY <1>3 DEF Recover, At, Working, Say, Go, IInv, TypeOK, Loop, m0
  <2>2. \/ Recovered = "COMPLETED" /\ issues # {}
        \/ Recovered = "ACTIVE" /\ issues = {}
    BY MarkerTells DEF Recovered
  <2>3. ~Exists => expired
    BY <2>1, WorkingIsOpen DEF IInv, Sound, Lifetime
  <2>4. Become("ACTIVE") => session'.state = "ACTIVE"
    BY DEF Become, IInv, TypeOK
  <2> QED
    BY <1>3, <2>1, <2>2, <2>3, <2>4, SettleSound DEF Recover
<1> QED
  BY <1>1, <1>2, <1>3

-----------------------------------------------------------------------------
(* Opening a session and adding a turn.                                    *)

LEMMA OpenSound ==
    ASSUME IInv, Open
    PROVE  Sound'
<1>1. /\ m0 = Initial /\ m0 \in received /\ loop.at = "received" /\ ~expired
      /\ UNCHANGED <<world, expired, cleaner, received>>
  BY DEF Open, At, world, IInv, Sound, Lifetime
<1>2. CASE UNCHANGED rows
  <2>1. loop'.at = "answer" /\ loop'.msg = m0
    <3>1. PICK reply \in {"stopped", SavedReply(m0)} : Say("answer", reply)
      <4>1. ~(~Exists /\ session' = [state |-> "ACTIVE", fields |-> Blank])
        BY <1>2 DEF rows, Exists
      <4> QED
        BY <4>1 DEF Open
    <3> QED
      BY <3>1 DEF Say, IInv, TypeOK, Loop, m0
  <2>2. UNCHANGED <<session, turn, order, issues>>
    BY <1>2 DEF rows
  <2>3. Turns' /\ Lifetime'
    BY <1>1, <2>1, <2>2, SameTurns
       DEF Working, Exists, IInv, Sound, Lifetime, At, Gone, m0
  <2>4. Dispatched' /\ Heard' /\ NoFailureSince'
    BY <2>1, <2>2, SameSaid DEF IInv, Sound, Dispatched, Heard, NoFailureSince, At, Exists
  <2> QED
    BY <1>2, <2>3, <2>4, SameRows DEF Sound
<1>3. CASE /\ ~Exists /\ session' = [state |-> "ACTIVE", fields |-> Blank]
           /\ turn' = [turn EXCEPT ![m0] = "OPEN"] /\ order' = <<m0>>
           /\ Go("context") /\ UNCHANGED issues
  <2>1. loop'.at = "context" /\ loop'.msg = m0
    BY <1>3 DEF Go, IInv, TypeOK, Loop, m0
  <2>2. session.state = "NONE" /\ issues = {}
    BY <1>1, <1>3, GoneIsEmpty DEF IInv, Sound, Lifetime
  <2>3. m0 \in Messages /\ turn'[m0] = "OPEN"
    BY <1>1, <1>3, GroupIntakeConstants DEF IInv, TypeOK
  <2>4. Len(order') = 1 /\ order'[1] = m0 /\ DOMAIN order' = 1..1 /\ order' \in Seq(Messages)
    BY <1>3, <2>3
  <2>5. Turned' = {m0}
    BY <2>4 DEF Turned, Range
  <2>6. Turns'
    BY <1>1, <2>1, <2>3, <2>4, <2>5 DEF Turns, m0
  <2>7. Lifetime' /\ Dispatched' /\ Marked' /\ StateTellsTruth' /\ NoFailureSince'
    BY <1>1, <1>3, <2>1, <2>2
       DEF IInv, Sound, Lifetime, Dispatched, Marked, StateTellsTruth, NoFailureSince,
           At, Gone, Working, m0
  <2>8. Heard' /\ Dispatchers' /\ IssueSaysAll'
    <3>1. Proposals' = {}
      BY <2>3, <2>5 DEF Proposals
    <3> QED
      BY <1>3, <2>1, <2>2, <3>1 DEF Heard, Dispatchers, IssueSaysAll, At
  <2> QED
    BY <2>6, <2>7, <2>8 DEF Sound
<1> QED
  BY <1>2, <1>3 DEF Open

\* A new turn comes after those there are.
LEMMA NewTurn ==
    ASSUME IInv, NEW m \in Messages, m \notin Turned, order' = Append(order, m)
    PROVE  /\ Turned' = Turned \cup {m} /\ order' \in Seq(Messages)
           /\ Len(order) \in Nat /\ Len(order') = Len(order) + 1
           /\ order'[Len(order')] = m
           /\ \A k \in 1..Len(order) : order'[k] = order[k] /\ order[k] \in Turned
           /\ \A c \in Turned : Before(c)' = Before(c)
<1>1. order \in Seq(Messages) /\ Len(order) \in Nat /\ DOMAIN order = 1..Len(order)
  BY DEF IInv, Sound, Turns
<1>2. /\ order' \in Seq(Messages) /\ Len(order') = Len(order) + 1
      /\ order'[Len(order) + 1] = m /\ \A k \in 1..Len(order) : order'[k] = order[k]
      /\ Range(order') = Range(order) \cup {m}
  BY <1>1, AppendTurned
<1>3. Turned' = Turned \cup {m}
  BY <1>2 DEF Turned
<1>4. \A k \in 1..Len(order) : order[k] \in Turned
  BY <1>1 DEF Turned, Range
<1>5. ASSUME NEW c \in Turned PROVE Before(c)' = Before(c)
  <2>1. {k \in 2..Len(order') : order'[k] = c} = {k \in 2..Len(order) : order[k] = c}
    <3>1. ASSUME NEW k \in 2..Len(order)
          PROVE  k \in 2..Len(order') /\ k \in 1..Len(order)
      BY <1>1, <1>2
    <3>2. ASSUME NEW k \in 2..Len(order'), k \notin 2..Len(order)
          PROVE  k = Len(order) + 1
      BY <1>1, <1>2, <3>2
    <3>3. order'[Len(order) + 1] # c
      BY <1>2
    <3> QED
      BY <1>2, <3>1, <3>2, <3>3
  <2>2. \A n \in 2..Len(order) : order'[n - 1] = order[n - 1]
    BY <1>1, <1>2
  <2> QED
    BY <2>1, <2>2 DEF Before
<1> QED
  BY <1>1, <1>2, <1>3, <1>4, <1>5

LEMMA FollowUpSound ==
    ASSUME IInv, FollowUp
    PROVE  Sound'
<1>1. /\ m0 # Initial /\ m0 \in received /\ m0 \in Messages /\ loop.at = "received"
      /\ UNCHANGED <<world, expired, cleaner, received>>
  BY InHand DEF FollowUp, At, world
<1>2. CASE UNCHANGED rows
  <2>1. loop'.at = "answer" /\ loop'.msg = m0
    <3>1. PICK reply \in {"stopped", SavedReply(m0)} : Say("answer", reply)
      <4>1. ~(turn' = [turn EXCEPT ![m0] = "OPEN"] /\ m0 \notin Turned)
        BY <1>1, <1>2 DEF rows, IInv, TypeOK
      <4> QED
        BY <4>1 DEF FollowUp
    <3> QED
      BY <3>1 DEF Say, IInv, TypeOK, Loop, m0
  <2>2. UNCHANGED <<session, turn, order, issues>>
    BY <1>2 DEF rows
  <2>3. Turns' /\ Lifetime'
    BY <1>1, <2>1, <2>2, SameTurns
       DEF Working, Exists, IInv, Sound, Lifetime, At, Gone, m0
  <2>4. Dispatched' /\ Heard' /\ NoFailureSince'
    BY <2>1, <2>2, SameSaid DEF IInv, Sound, Dispatched, Heard, NoFailureSince, At, Exists
  <2> QED
    BY <1>2, <2>3, <2>4, SameRows DEF Sound
<1>3. CASE /\ Exists /\ m0 \notin Turned
           /\ turn' = [turn EXCEPT ![m0] = "OPEN"] /\ order' = Append(order, m0)
           /\ UNCHANGED <<session, issues>>
           /\ IF session.state = "COMPLETED" THEN Say("reply", "dispatched") ELSE Go("context")
  <2>1. /\ loop'.msg = m0
        /\ \/ loop'.at = "context"
           \/ loop'.at = "reply" /\ loop'.reply = "dispatched"
    BY <1>3 DEF Go, Say, IInv, TypeOK, Loop, m0
  <2>2. /\ Turned' = Turned \cup {m0} /\ order' \in Seq(Messages)
        /\ Len(order) \in Nat /\ Len(order') = Len(order) + 1
        /\ order'[Len(order')] = m0
        /\ \A k \in 1..Len(order) : order'[k] = order[k] /\ order[k] \in Turned
        /\ \A c \in Turned : Before(c)' = Before(c)
    BY <1>1, <1>3, NewTurn
  <2>3. turn'[m0] = "OPEN" /\ \A c \in Turned : turn'[c] = turn[c]
    BY <1>1, <1>3 DEF IInv, TypeOK
  <2>4. Turns'
    <3>1. ASSUME NEW j \in 1..Len(order'), NEW k \in 1..Len(order'), order'[j] = order'[k]
          PROVE  j = k
      <4>1. \A i \in 1..Len(order') : i \in 1..Len(order) \/ i = Len(order')
        BY <2>2
      <4>2. \A i \in 1..Len(order) : order'[i] # m0
        BY <1>3, <2>2
      <4> QED
        BY <2>2, <3>1, <4>1, <4>2 DEF IInv, Sound, Turns
    <3>2. Initial \in Turned'
      BY <1>3, <2>2 DEF IInv, Sound, Turns
    <3>3. Len(order') > 0 /\ order'[Len(order')] = loop'.msg /\ turn'[loop'.msg] = "OPEN"
      BY <2>1, <2>2, <2>3
    <3> QED
      BY <2>2, <3>1, <3>2, <3>3 DEF Turns, m0
  <2>5. Lifetime' /\ Dispatched'
    BY <1>1, <1>3, <2>1
       DEF IInv, Sound, Lifetime, Dispatched, At, Gone, Working, Exists, m0, Denials
  <2>6. Marked' /\ StateTellsTruth'
    BY <1>3 DEF IInv, Sound, Marked, StateTellsTruth, Marker
  <2>7. Heard'
    <3>1. Proposals' = Proposals
      BY <2>2, <2>3 DEF Proposals
    <3> QED
      BY <1>3, <2>1, <3>1 DEF IInv, Sound, Heard, At, Exists
  <2>8. NoFailureSince'
    <3>1. CASE session.state = "DISPATCHING"
      <4>1. Len(order) > 0
        BY <1>3, <2>2 DEF IInv, TypeOK, Turned, Range, Sound, Turns
      <4>2. Len(order') - 1 = Len(order) /\ Len(order) \in 1..Len(order)
        BY <2>2, <4>1
      <4>3. turn[order[Len(order)]] # "failed"
        BY <3>1 DEF IInv, Sound, NoFailureSince
      <4> QED
        BY <2>2, <2>3, <4>2, <4>3 DEF NoFailureSince
    <3> QED
      BY <1>3, <3>1 DEF NoFailureSince
  <2>9. Dispatchers' /\ IssueSaysAll'
    <3>1. \A i \in issues : i.by \in Turned
      BY <1>3 DEF IInv, Sound, Dispatchers, Gone, Exists
    <3>2. ASSUME NEW i \in issues, NEW c \in WithText \cap Turned,
                 \/ c = i.by
                 \/ turn'[c] = "proposal"
                 \/ turn'[c] = "failed" /\ c \in Before(i.by)'
          PROVE  c \in i.seen
      BY <2>2, <2>3, <3>1, <3>2 DEF IInv, Sound, IssueSaysAll
    <3> QED
      BY <1>3, <2>2, <2>3, <3>1, <3>2 DEF Dispatchers, IssueSaysAll
  <2> QED
    BY <2>4, <2>5, <2>6, <2>7, <2>8, <2>9 DEF Sound
<1> QED
  BY <1>2, <1>3 DEF FollowUp

-----------------------------------------------------------------------------
(* The issue is created.                                                   *)

LEMMA CreateSound ==
    ASSUME IInv, Create
    PROVE  Sound'
<1>1. /\ loop.at = "create" /\ Working /\ m0 \in Messages
      /\ UNCHANGED <<session, turn, order, world, expired, cleaner, received>>
  BY InHand DEF Create, At, Working, world
<1>2. /\ loop'.msg = m0
      /\ \/ loop'.at = "recover"
         \/ loop'.at = "mark" /\ issues' # {}
  BY DEF Create, Go, Created, IInv, TypeOK, Loop, m0
<1>3. session.state = "DISPATCHING" \/ Gone
  BY <1>1 DEF IInv, Sound, Dispatched, At
<1>4. Turns'
  BY <1>1, <1>2, SameTurns DEF Working, Exists
<1>5. Lifetime' /\ StateTellsTruth'
  BY <1>1, <1>2, <1>3
     DEF IInv, Sound, Lifetime, StateTellsTruth, At, Working, Gone, m0
<1>6. Dispatched' /\ NoFailureSince'
  BY <1>1, <1>2 DEF IInv, Sound, Dispatched, NoFailureSince, At
<1>7. Heard'
  BY <1>1, <1>2, SameSaid DEF IInv, Sound, Heard, At, Exists
<1>8. Marked' /\ Dispatchers' /\ IssueSaysAll'
  <2>1. CASE issues' = issues
    BY <1>1, <2>1, SameIssues DEF Gone
  <2>2. CASE issues' # issues
    <3> DEFINE new == [marker |-> Marker, by |-> m0, seen |-> loop.fields.seen]
    <3>1. issues = {} /\ issues' = {new}
      BY <2>2, MarkerTells DEF Create
    <3>2. new.marker = Marker /\ new.by = m0 /\ new.seen = loop.fields.seen
      OBVIOUS
    <3> HIDE DEF new
    <3>3. Exists => m0 \in Turned /\ Said \subseteq loop.fields.seen
      BY <1>1, LastTurn DEF IInv, Sound, Heard
    <3>4. Gone => Turned = {}
      BY GoneIsEmpty DEF Gone, Exists
    <3>5. Exists \/ Gone
      BY <1>3 DEF Exists
    <3>6. Turned' = Turned /\ \A m : Before(m)' = Before(m)
      BY <1>1, SameOrder
    <3>7. Marked'
      BY <3>1, <3>2 DEF Marked, Marker
    <3>8. Dispatchers'
      BY <1>1, <3>1, <3>2, <3>3, <3>5, <3>6 DEF Dispatchers, Gone
    <3>9. IssueSaysAll'
      <4>1. \A m \in WithText \cap Turned :
               \/ m = m0
               \/ turn[m] = "proposal"
               \/ turn[m] = "failed" /\ m \in Before(m0)
               => m \in loop.fields.seen
        BY <3>3, <3>4, <3>5 DEF Said
      <4> QED
        BY <1>1, <3>1, <3>2, <3>6, <4>1 DEF IssueSaysAll
    <3> QED
      BY <3>7, <3>8, <3>9
  <2> QED
    BY <2>1, <2>2
<1> QED
  BY <1>4, <1>5, <1>6, <1>7, <1>8 DEF Sound

-----------------------------------------------------------------------------
(* The session is removed.                                                 *)

LEMMA CleanSound ==
    ASSUME IInv, Clean
    PROVE  Sound'
<1>1. UNCHANGED <<issues, expired, received, loop>> /\ expired
  BY DEF Clean, CleanFile, CleanRows, IsExpired, IInv, Sound, Lifetime
<1>2. CASE UNCHANGED <<session, turn, order>>
  <2>1. Turns'
    BY <1>1, <1>2, SameTurns DEF Working, Exists, m0
  <2>2. Marked' /\ Dispatchers' /\ IssueSaysAll'
    BY <1>1, <1>2, SameIssues DEF Gone
  <2>3. Lifetime' /\ Dispatched' /\ NoFailureSince' /\ StateTellsTruth'
    BY <1>1, <1>2
       DEF IInv, Sound, Lifetime, Dispatched, NoFailureSince, StateTellsTruth, NotDone,
           At, Gone, Working, m0
  <2>4. Heard'
    BY <1>1, <1>2, SameSaid DEF IInv, Sound, Heard, At, Exists, m0
  <2> QED
    BY <2>1, <2>2, <2>3, <2>4 DEF Sound
<1>3. CASE Become("GONE") /\ order' = <<>>
  <2>1. session'.state = "GONE"
    BY <1>3, Becomes DEF IInv, States
  <2>2. Turned' = {}
    BY <1>3 DEF Turned, Range
  <2>3. session.state # "NONE"
    BY <1>1 DEF IInv, Sound, Lifetime
  <2>4. order' \in Seq(Messages) /\ Len(order') = 0
    BY <1>3
  <2>5. Turns' /\ Dispatchers' /\ IssueSaysAll' /\ Heard' /\ NoFailureSince'
    BY <2>1, <2>2, <2>4
       DEF Turns, Dispatchers, IssueSaysAll, Heard, NoFailureSince, Exists, Gone
  <2>6. Marked' /\ StateTellsTruth'
    BY <1>1, <2>1 DEF IInv, Sound, Marked, StateTellsTruth, Marker
  <2>7. Lifetime' /\ Dispatched'
    BY <1>1, <2>1, <2>3 DEF IInv, Sound, Lifetime, Dispatched, NotDone, At, Gone, m0
  <2> QED
    BY <2>5, <2>6, <2>7 DEF Sound
<1> QED
  BY <1>2, <1>3 DEF Clean, CleanFile, CleanRows

LEMMA StepIInv ==
    ASSUME IInv, Next
    PROVE  IInv'
<1>1. TypeOK'
  BY StepType
<1>2. Sound'
  BY ReceiveSound, OpenSound, FollowUpSound, ContextSound, AgentSound, SaveSound,
     ProposeSound, ReplySound, BeginSound, CreateSound, DispatchSound, FaultSound,
     WorldSound, CleanSound DEF Next, LoopStep
<1> QED
  BY <1>1, <1>2 DEF IInv

LEMMA StutterIInv ==
    ASSUME IInv, UNCHANGED vars
    PROVE  IInv'
<1>1. UNCHANGED <<rows, session, turn, order, issues, image, expired, group, routable,
                  loop, cleaner, shown, received>>
  BY DEF vars, rows, world
<1>2. TypeOK'
  BY <1>1, LoopType DEF IInv, TypeOK
<1>3. Turns' /\ Lifetime'
  BY <1>1, SameTurns DEF Working, Exists, IInv, Sound, Lifetime, At, Gone, m0
<1>4. Dispatched' /\ Heard' /\ NoFailureSince'
  BY <1>1, SameSaid
     DEF IInv, Sound, Dispatched, Heard, NoFailureSince, At, Exists, NotDone, Gone, m0
<1> QED
  BY <1>1, <1>2, <1>3, <1>4, SameRows DEF IInv, Sound

-----------------------------------------------------------------------------
(* The theorems.                                                           *)

\* The inductive invariant holds throughout.
THEOREM GroupIntakeInvariant == Spec => []IInv
BY InitIInv, StepIInv, StutterIInv, PTL DEF Spec

\* Every variable keeps its type; the turns with an entry are the rows there are.
THEOREM GroupIntakeTypeCorrect == Spec => []TypeOK
<1>1. IInv => TypeOK
  BY DEF IInv
<1> QED
  BY <1>1, GroupIntakeInvariant, PTL

LEMMA OneAtMost == IInv => OneIssue
<1> SUFFICES ASSUME IInv PROVE OneIssue
  OBVIOUS
<1>1. CASE issues = {}
  BY <1>1, FS_EmptySet DEF OneIssue
<1>2. CASE issues # {}
  <2>1. PICK i \in issues : TRUE
    BY <1>2
  <2>2. issues = {i}
    BY <2>1 DEF IInv, Sound, Marked
  <2>3. Cardinality(issues) = 1
    BY <2>2, FS_Singleton
  <2> QED
    BY <2>3 DEF OneIssue
<1> QED
  BY <1>1, <1>2

\* A proposal becomes one issue at most, wherever its dispatches are cut short
\* and however often they are confirmed again.
THEOREM OneIssueForAProposal == Spec => []OneIssue
BY GroupIntakeInvariant, OneAtMost, PTL

\* A session open to changes has no issue, and a completed one has.
THEOREM SessionTellsTruth == Spec => []StateTellsTruth
<1>1. IInv => StateTellsTruth
  BY DEF IInv, Sound
<1> QED
  BY <1>1, GroupIntakeInvariant, PTL

\* The issue says what was written with the confirmation and in every turn
\* before it that counts.
THEOREM IssueTellsAll == Spec => []IssueSaysAll
<1>1. IInv => IssueSaysAll
  BY DEF IInv, Sound
<1> QED
  BY <1>1, GroupIntakeInvariant, PTL

LEMMA NotDenied ==
    ASSUME IInv, Next, NEW m \in Messages, turn'[m] # turn[m], turn'[m] \in Denials
    PROVE  issues = {} \/ expired
<1>1. CASE Save \/ Reply
  <2>1. turn' = Answered(loop.reply)
    BY <1>1 DEF Save, Reply
  <2>2. Turned # {} /\ turn'[m] = loop.reply
    BY <2>1 DEF Answered, IInv, TypeOK
  <2>3. ~Gone
    BY <2>2 DEF IInv, TypeOK, Gone, Exists
  <2> QED
    BY <1>1, <2>2, <2>3 DEF Save, Reply, IInv, Sound, Dispatched, NotDone, At
<1>2. CASE ~(Save \/ Reply)
  <2>1. ~(turn' = turn)
    OBVIOUS
  <2>2. turn' = [turn EXCEPT ![m0] = "OPEN"] \/ turn' = [c \in Messages |-> "NONE"]
    BY <1>2, <2>1
       DEF Next, LoopStep, Receive, Open, FollowUp, Context, AgentDrafts, AgentFails, Propose,
           Answer, Begin, Reset, Create, Mark, Recover, Clean, CleanFile, CleanRows, Fault,
           Crash, Rebind, Expire, rows
  <2>3. turn'[m] \in {turn[m], "OPEN", "NONE"}
    BY <2>2 DEF IInv, TypeOK
  <2> QED
    BY <2>3 DEF Denials
<1> QED
  BY <1>1, <1>2

\* Once the issue exists, no turn is answered that it was not dispatched.
THEOREM NeverDeniesTheIssue == Spec => NeverDenied
<1>1. IInv /\ [Next]_vars =>
        [\A m \in Messages :
            turn'[m] # turn[m] /\ turn'[m] \in Denials => issues = {} \/ expired]_vars
  BY NotDenied
<1> QED
  BY <1>1, GroupIntakeInvariant, PTL DEF Spec, NeverDenied
=============================================================================
