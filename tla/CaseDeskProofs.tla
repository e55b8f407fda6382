--------------------------- MODULE CaseDeskProofs ---------------------------
(***************************************************************************)
(* The optimistic version check of the case desk, and the consistency of   *)
(* a case row with its timeline, and that CaseDesk implements Turn, for    *)
(* any number of cases, people, pages and entries.                         *)
(***************************************************************************)
EXTENDS CaseDesk, TLAPS

\* What a command does to its case, as far as the invariant looks.
Lives(r) ==
    /\ r.lifecycle \in {"OPEN", "CLOSED"}
    /\ r.team \in Teams
    /\ r.lifecycle = "OPEN" <=> r.waiting_on \in Sides
    /\ r.lifecycle = "CLOSED" <=> r.status = "CLOSED"

LEMMA AbsentIsRow == Absent \in Row
BY DEF Absent, Row, Waiting, Statuses, Sides

LEMMA InitIInv == Init => IInv
<1> SUFFICES ASSUME Init PROVE IInv
  OBVIOUS
<1>1. TypeOK
  <2>1. row \in [Cases -> Row]
    BY AbsentIsRow DEF Init
  <2>2. timeline \in [Cases -> Seq(Entry)]
    <3>1. << >> \in Seq(Entry)
      OBVIOUS
    <3> QED
      BY <3>1 DEF Init
  <2>3. page \in [Pages -> [case : Cases \cup {NoCase}, row : Row]]
    <3>1. [case |-> NoCase, row |-> Absent] \in [case : Cases \cup {NoCase}, row : Row]
      BY AbsentIsRow
    <3> QED
      BY <3>1, Zenon DEF Init
  <2> QED
    BY <2>1, <2>2, <2>3 DEF Init, TypeOK
<1>2. RowsSound
  BY DEF Init, RowsSound, Exists, Absent
<1>3. Numbered
  BY DEF Init, Numbered, Absent
<1>4. ClosedWaitsForNobody
  BY DEF Init, ClosedWaitsForNobody, Absent, Sides
<1>5. PageAgrees /\ NobodyMisled
  BY DEF Init, PageAgrees, NobodyMisled
<1> QED
  BY <1>1, <1>2, <1>3, <1>4, <1>5 DEF IInv

\* Pages that were not touched stay sound when versions only grow.
LEMMA PagesStay ==
    ASSUME IInv, row' \in [Cases -> Row],
           \A c \in Cases : row'[c] = row[c] \/ row'[c].version = row[c].version + 1,
           page' = page
    PROVE  PageAgrees'
<1> SUFFICES ASSUME NEW p \in Pages, page[p].case # NoCase
             PROVE  /\ page[p].row.version <= row'[page[p].case].version
                    /\ page[p].row.version = row'[page[p].case].version =>
                           page[p].row = row'[page[p].case]
  BY DEF PageAgrees
<1>1. page[p].case \in Cases /\ page[p].row \in Row
  BY DEF IInv, TypeOK
<1>2. page[p].row.version \in Nat /\ row[page[p].case].version \in Nat
  BY <1>1 DEF IInv, TypeOK, Row
<1>3. /\ page[p].row.version <= row[page[p].case].version
      /\ page[p].row.version = row[page[p].case].version =>
             page[p].row = row[page[p].case]
  BY DEF IInv, PageAgrees
<1>4. \/ row'[page[p].case] = row[page[p].case]
      \/ row'[page[p].case].version = row[page[p].case].version + 1
  BY <1>1
<1> QED
  BY <1>2, <1>3, <1>4

\* A command from a page finds the case as the page showed it.
LEMMA PageIsInformed ==
    ASSUME IInv, NEW p \in Pages, NEW c \in Cases, ExpectedVersion(p, c)
    PROVE  page[p].row = row[c]
BY CaseDeskConstants DEF IInv, PageAgrees, ExpectedVersion

LEMMA FromPageStep ==
    ASSUME IInv, NEW p \in Pages, NEW c \in Cases, FromPage(p, c)
    PROVE  Exists(c) /\ page' = page /\ misled' = FALSE
BY PageIsInformed DEF FromPage, IInv, NobodyMisled, TypeOK

LEMMA LivingRow ==
    ASSUME IInv, NEW c \in Cases, Exists(c)
    PROVE  row[c] \in Row /\ Lives(row[c])
BY DEF IInv, TypeOK, Row, RowsSound, ClosedWaitsForNobody, Exists, Lives

LEMMA EntryIsTyped ==
    ASSUME NEW k \in {"FORMAL_MESSAGE", "CORRECTION", "STATUS_CHANGED", "TRANSFERRED",
                      "CLOSED", "REOPENED", "METADATA_UPDATED"},
           NEW s \in Sides \cup {"SYSTEM"}, NEW i \in Intents \cup {"NONE"}
    PROVE  Message(k, s, i) \in Entry
BY DEF Message, Entry, Waiting

LEMMA NoteIsTyped ==
    ASSUME NEW k \in {"FORMAL_MESSAGE", "CORRECTION", "STATUS_CHANGED", "TRANSFERRED",
                      "CLOSED", "REOPENED", "METADATA_UPDATED"}
    PROVE  Note(k) \in Entry
BY EntryIsTyped DEF Note

LEMMA DeliveryIsTyped ==
    ASSUME NEW c \in Cases, NEW n \in Nat, NEW to \in Teams \cup {Queue} \cup Users,
           NEW after \in Waiting
    PROVE  To(c, n, to, after) \in Delivery
BY DEF To, Delivery

LEMMA NoticeIsTyped ==
    ASSUME NEW c \in Cases, NEW n \in Nat, NEW to \in Teams \cup {Queue} \cup Users
    PROVE  Notice(c, n, to) \in Delivery
BY DeliveryIsTyped DEF Notice, Waiting

\* A row that lives goes on living when only its counters grow.
LEMMA BumpedRow ==
    ASSUME NEW r \in Row, Lives(r), NEW n \in Nat
    PROVE  /\ Appended([r EXCEPT !.version = @ + 1], n) \in Row
           /\ Lives(Appended([r EXCEPT !.version = @ + 1], n))
           /\ Appended([r EXCEPT !.version = @ + 1], n).version = r.version + 1
           /\ Appended([r EXCEPT !.version = @ + 1], n).sequence = r.sequence + n
<1> DEFINE b == [r EXCEPT !.version = @ + 1]
<1>1. r.version + 1 \in Nat /\ r.sequence \in Nat
  BY DEF Row
<1>2. b \in Row /\ Lives(b) /\ b.version = r.version + 1 /\ b.sequence = r.sequence
  BY <1>1 DEF Row, Lives
<1>3. b.sequence + n \in Nat
  BY <1>1, <1>2
<1> HIDE DEF b
<1>4. [b EXCEPT !.sequence = @ + n] \in Row
  BY <1>2, <1>3 DEF Row
<1>5. /\ Lives([b EXCEPT !.sequence = @ + n])
      /\ [b EXCEPT !.sequence = @ + n].version = b.version
      /\ [b EXCEPT !.sequence = @ + n].sequence = b.sequence + n
  BY <1>2 DEF Row, Lives
<1> QED
  BY <1>2, <1>4, <1>5 DEF Appended, b

\* A command that writes a living row keeps the invariant.
LEMMA WriteStep ==
    ASSUME IInv, NEW c \in Cases, NEW fields \in Row, NEW entries \in Seq(Entry),
           NEW deliveries \in SUBSET Delivery,
           fields.version = row[c].version, fields.sequence = row[c].sequence,
           Lives(fields),
           Write(c, fields, entries, deliveries), page' = page, misled' = FALSE
    PROVE  IInv'
<1> DEFINE r == row'[c]
<1>1. /\ row' = [row EXCEPT ![c] =
             Appended([fields EXCEPT !.version = @ + 1], Len(entries))]
      /\ timeline' = [timeline EXCEPT ![c] = @ \o entries]
      /\ outbox' = outbox \cup deliveries
  BY DEF Write
<1>2. /\ row \in [Cases -> Row]
      /\ timeline \in [Cases -> Seq(Entry)]
      /\ Len(entries) \in Nat
  BY DEF IInv, TypeOK
<1>3. r = Appended([fields EXCEPT !.version = @ + 1], Len(entries))
  BY <1>1, <1>2
<1>4. /\ r \in Row
      /\ r.version = row[c].version + 1
      /\ r.sequence = row[c].sequence + Len(entries)
      /\ Lives(r)
  BY <1>2, <1>3, BumpedRow
<1>5. \A e \in Cases : e # c => row'[e] = row[e] /\ timeline'[e] = timeline[e]
  BY <1>1, <1>2
<1>6. timeline'[c] = timeline[c] \o entries
  BY <1>1, <1>2
<1>7. row' \in [Cases -> Row]
  BY <1>1, <1>2, <1>4
<1>8. TypeOK'
  <2>1. timeline[c] \o entries \in Seq(Entry)
    BY <1>2
  <2>2. timeline' \in [Cases -> Seq(Entry)]
    BY <1>1, <1>2, <2>1
  <2> QED
    BY <1>1, <1>7, <2>2 DEF IInv, TypeOK
<1>9. RowsSound'
  BY <1>4, <1>5 DEF IInv, RowsSound, Exists, Lives
<1>10. Numbered'
  <2>1. row[c].sequence = Len(timeline[c])
    BY DEF IInv, Numbered
  <2>2. Len(timeline'[c]) = Len(timeline[c]) + Len(entries)
    BY <1>2, <1>6
  <2>3. r.sequence = Len(timeline'[c])
    BY <1>4, <2>1, <2>2
  <2> QED
    BY <1>5, <2>3 DEF IInv, Numbered
<1>11. ClosedWaitsForNobody'
  BY <1>4, <1>5 DEF IInv, ClosedWaitsForNobody, Lives
<1>12. PageAgrees'
  BY <1>4, <1>5, <1>7, PagesStay
<1> QED
  BY <1>8, <1>9, <1>10, <1>11, <1>12 DEF IInv, NobodyMisled

LEMMA DestinationIsTyped ==
    ASSUME IInv, NEW c \in Cases, Exists(c), NEW side
    PROVE  Destination(c, side) \in Teams \cup {Queue} \cup Users /\ NextEntry(c) \in Nat
BY LivingRow DEF Destination, NextEntry, Lives, Row

LEMMA WaitAfterIsTyped ==
    ASSUME NEW side, NEW intent
    PROVE  WaitAfter(side, intent) \in Waiting
BY DEF WaitAfter, Opposite, Waiting, Sides

LEMMA FormalDeliveriesAreTyped ==
    ASSUME IInv, NEW c \in Cases, Exists(c), NEW side \in Sides, NEW intent \in Intents,
           NEW mode \in {"push", "deferred"}
    PROVE  FormalDeliveries(c, side, intent, mode) \in SUBSET Delivery
<1>1. /\ Destination(c, side) \in Teams \cup {Queue} \cup Users
      /\ NextEntry(c) \in Nat
      /\ WaitAfter(side, intent) \in Waiting
  BY DestinationIsTyped, WaitAfterIsTyped
<1>2. To(c, NextEntry(c), Destination(c, side), WaitAfter(side, intent)) \in Delivery
  BY <1>1, DeliveryIsTyped
<1>3. [To(c, NextEntry(c), Destination(c, side), WaitAfter(side, intent))
          EXCEPT !.mode = mode] \in Delivery
  BY <1>1 DEF To, Delivery
<1>4. row[c].consultant # NoUser =>
        Notice(c, NextEntry(c), row[c].consultant) \in Delivery
  <2>1. row[c].consultant # NoUser => row[c].consultant \in Users
    BY LivingRow DEF Row
  <2> QED
    BY <1>1, <2>1, NoticeIsTyped
<1> QED
  BY <1>3, <1>4 DEF FormalDeliveries

LEMMA FormalMessageIsTyped ==
    ASSUME NEW side \in Sides, NEW intent \in Intents
    PROVE  Message("FORMAL_MESSAGE", side, intent) \in Entry
BY EntryIsTyped

LEMMA CreateStep ==
    ASSUME IInv, NEW c \in Cases, NEW u \in Users \cup {NoUser}, NEW t \in Teams,
           CreateCase(c, u, t)
    PROVE  IInv'
<1> DEFINE fields == [Absent EXCEPT !.lifecycle = "OPEN", !.waiting_on = "CONSULT",
                                    !.team = t, !.consultant = u]
<1>1. row[c] = Absent
  BY DEF CreateCase, IInv, RowsSound
<1>2. fields \in Row /\ Lives(fields)
  BY DEF Row, Absent, Lives, Statuses, Waiting, Sides
<1>3. fields.version = row[c].version /\ fields.sequence = row[c].sequence
  BY <1>1 DEF Absent
<1>4. <<Message("FORMAL_MESSAGE", "CONSULT", "HANDOFF")>> \in Seq(Entry)
  BY FormalMessageIsTyped DEF Sides, Intents
<1>5. {To(c, 1, t, "DEV")} \in SUBSET Delivery
  BY DeliveryIsTyped DEF Waiting, Sides
<1>6. /\ Write(c, fields, <<Message("FORMAL_MESSAGE", "CONSULT", "HANDOFF")>>,
               {To(c, 1, t, "DEV")})
      /\ page' = page /\ misled' = FALSE
  BY DEF CreateCase, IInv, NobodyMisled, TypeOK
<1> HIDE DEF fields
<1> QED
  BY <1>2, <1>3, <1>4, <1>5, <1>6, WriteStep

LEMMA UnversionedStep ==
    ASSUME IInv, NEW c \in Cases, Unversioned(c)
    PROVE  Exists(c) /\ page' = page /\ misled' = FALSE
BY DEF Unversioned, IInv, NobodyMisled, TypeOK

\* A message leaves the row alone, but for the group message that takes the
\* case up.
LEMMA PostStep ==
    ASSUME IInv, NEW c \in Cases, Exists(c), page' = page, misled' = FALSE,
           NEW side \in Sides, NEW intent \in Intents, NEW mode \in {"push", "deferred"},
           \/ Write(c, row[c], <<Message("FORMAL_MESSAGE", side, intent)>>,
                    FormalDeliveries(c, side, intent, mode))
           \/ /\ IsOpen(c)
              /\ Write(c, [row[c] EXCEPT !.status = "IN_PROGRESS"],
                       <<Message("FORMAL_MESSAGE", side, intent), Note("STATUS_CHANGED")>>,
                       FormalDeliveries(c, side, intent, mode))
    PROVE  IInv'
<1>1. row[c] \in Row /\ Lives(row[c])
  BY LivingRow
<1>2. FormalDeliveries(c, side, intent, mode) \in SUBSET Delivery
  BY FormalDeliveriesAreTyped
<1>3. Message("FORMAL_MESSAGE", side, intent) \in Entry /\ Note("STATUS_CHANGED") \in Entry
  BY FormalMessageIsTyped, NoteIsTyped
<1>4. CASE Write(c, row[c], <<Message("FORMAL_MESSAGE", side, intent)>>,
                 FormalDeliveries(c, side, intent, mode))
  <2>1. <<Message("FORMAL_MESSAGE", side, intent)>> \in Seq(Entry)
    BY <1>3
  <2> QED
    BY <1>1, <1>2, <1>4, <2>1, WriteStep
<1>5. CASE /\ IsOpen(c)
           /\ Write(c, [row[c] EXCEPT !.status = "IN_PROGRESS"],
                    <<Message("FORMAL_MESSAGE", side, intent), Note("STATUS_CHANGED")>>,
                    FormalDeliveries(c, side, intent, mode))
  <2> DEFINE fields == [row[c] EXCEPT !.status = "IN_PROGRESS"]
  <2>1. <<Message("FORMAL_MESSAGE", side, intent), Note("STATUS_CHANGED")>> \in Seq(Entry)
    BY <1>3
  <2>2. /\ fields \in Row /\ Lives(fields)
        /\ fields.version = row[c].version /\ fields.sequence = row[c].sequence
    BY <1>1, <1>5 DEF Row, Lives, IsOpen, Statuses
  <2>3. Write(c, fields,
              <<Message("FORMAL_MESSAGE", side, intent), Note("STATUS_CHANGED")>>,
              FormalDeliveries(c, side, intent, mode))
    BY <1>5
  <2> HIDE DEF fields
  <2> QED
    BY <1>2, <2>1, <2>2, <2>3, WriteStep
<1> QED
  BY <1>4, <1>5

\* Any other command writes one entry, and keeps the row living.
LEMMA NoteStep ==
    ASSUME IInv, NEW c \in Cases, Exists(c), page' = page, misled' = FALSE,
           NEW fields \in Row, Lives(fields),
           fields.version = row[c].version, fields.sequence = row[c].sequence,
           NEW e \in Entry, NEW deliveries \in SUBSET Delivery,
           Write(c, fields, <<e>>, deliveries)
    PROVE  IInv'
<1>1. <<e>> \in Seq(Entry)
  OBVIOUS
<1> QED
  BY <1>1, WriteStep

LEMMA HandoverStep ==
    ASSUME IInv, NEW p \in Pages, NEW u \in Users, NEW c \in Cases,
           \/ \E v \in Users : TransferConsultant(p, u, c, v)
           \/ \E t \in Teams : TransferDevTeam(p, u, c, t)
    PROVE  IInv'
<1>1. FromPage(p, c)
  BY DEF TransferConsultant, TransferDevTeam
<1>2. Exists(c) /\ page' = page /\ misled' = FALSE
  BY <1>1, FromPageStep
<1>3. row[c] \in Row /\ Lives(row[c]) /\ NextEntry(c) \in Nat
  BY <1>2, LivingRow, DestinationIsTyped
<1>4. Note("TRANSFERRED") \in Entry
  BY NoteIsTyped
<1>5. ASSUME NEW v \in Users, TransferConsultant(p, u, c, v)
      PROVE  IInv'
  <2> DEFINE fields == [row[c] EXCEPT !.consultant = v]
  <2> DEFINE notices == {Notice(c, NextEntry(c), Queue), Notice(c, NextEntry(c), v)}
  <2>1. /\ fields \in Row /\ Lives(fields)
        /\ fields.version = row[c].version /\ fields.sequence = row[c].sequence
    BY <1>3 DEF Row, Lives
  <2>2. notices \in SUBSET Delivery
    BY <1>3, NoticeIsTyped
  <2>3. Write(c, fields, <<Note("TRANSFERRED")>>, notices)
    BY <1>5 DEF TransferConsultant
  <2> HIDE DEF fields, notices
  <2> QED
    BY <1>2, <1>4, <2>1, <2>2, <2>3, NoteStep
<1>6. ASSUME NEW t \in Teams, TransferDevTeam(p, u, c, t)
      PROVE  IInv'
  <2> DEFINE fields == [row[c] EXCEPT !.team = t]
  <2> DEFINE notices == {Notice(c, NextEntry(c), row[c].team), Notice(c, NextEntry(c), t)}
  <2>1. /\ fields \in Row /\ Lives(fields)
        /\ fields.version = row[c].version /\ fields.sequence = row[c].sequence
    BY <1>3 DEF Row, Lives
  <2>2. notices \in SUBSET Delivery
    BY <1>3, NoticeIsTyped DEF Lives
  <2>3. Write(c, fields, <<Note("TRANSFERRED")>>, notices)
    BY <1>6 DEF TransferDevTeam
  <2> HIDE DEF fields, notices
  <2> QED
    BY <1>2, <1>4, <2>1, <2>2, <2>3, NoteStep
<1> QED
  BY <1>5, <1>6

LEMMA LifecycleStep ==
    ASSUME IInv, NEW p \in Pages, NEW u \in Users, NEW c \in Cases,
           \/ CloseCase(p, u, c)
           \/ \E side \in Sides : ReopenCase(p, u, c, side)
    PROVE  IInv'
<1>1. FromPage(p, c)
  BY DEF CloseCase, ReopenCase
<1>2. Exists(c) /\ page' = page /\ misled' = FALSE
  BY <1>1, FromPageStep
<1>3. row[c] \in Row /\ Lives(row[c]) /\ NextEntry(c) \in Nat
  BY <1>2, LivingRow, DestinationIsTyped
<1>4. Notice(c, NextEntry(c), row[c].team) \in Delivery
  BY <1>3, NoticeIsTyped DEF Lives
<1>5. CASE CloseCase(p, u, c)
  <2> DEFINE fields == [row[c] EXCEPT !.lifecycle = "CLOSED", !.status = "CLOSED",
                                      !.waiting_on = "NONE"]
  <2>1. /\ fields \in Row /\ Lives(fields)
        /\ fields.version = row[c].version /\ fields.sequence = row[c].sequence
    BY <1>3 DEF Row, Lives, Statuses, Waiting, Sides
  <2>2. Note("CLOSED") \in Entry
    BY NoteIsTyped
  <2>3. Write(c, fields, <<Note("CLOSED")>>, {Notice(c, NextEntry(c), row[c].team)})
    BY <1>5 DEF CloseCase
  <2> HIDE DEF fields
  <2> QED
    BY <1>2, <1>4, <2>1, <2>2, <2>3, NoteStep
<1>6. ASSUME NEW side \in Sides, ReopenCase(p, u, c, side)
      PROVE  IInv'
  <2> DEFINE fields == [row[c] EXCEPT !.lifecycle = "OPEN", !.status = "IN_PROGRESS",
                                      !.waiting_on = side]
  <2> DEFINE entry == [Note("REOPENED") EXCEPT !.waiting_on = side]
  <2> DEFINE notices == IF side = "DEV" THEN {Notice(c, NextEntry(c), row[c].team)} ELSE {}
  <2>1. /\ fields \in Row /\ Lives(fields)
        /\ fields.version = row[c].version /\ fields.sequence = row[c].sequence
    BY <1>3 DEF Row, Lives, Statuses, Waiting, Sides
  <2>2. entry \in Entry
    BY DEF Note, Message, Entry, Waiting, Sides
  <2>3. notices \in SUBSET Delivery
    BY <1>4
  <2>4. Write(c, fields, <<entry>>, notices)
    BY <1>6 DEF ReopenCase
  <2> HIDE DEF fields, entry, notices
  <2> QED
    BY <1>2, <2>1, <2>2, <2>3, <2>4, NoteStep
<1> QED
  BY <1>5, <1>6

LEMMA StatusStep ==
    ASSUME IInv, NEW p \in Pages, NEW u \in Users, NEW c \in Cases, NEW s \in Statuses,
           SetCaseStatus(p, u, c, s)
    PROVE  IInv'
<1>1. /\ FromPage(p, c) /\ IsOpen(c)
      /\ s \in {"IN_PROGRESS", "WAITING_CUSTOMER", "SUSPENDED"}
      /\ Write(c, [row[c] EXCEPT !.status = s], <<Note("STATUS_CHANGED")>>, {})
  BY DEF SetCaseStatus
<1>2. Exists(c) /\ page' = page /\ misled' = FALSE
  BY <1>1, FromPageStep
<1> DEFINE fields == [row[c] EXCEPT !.status = s]
<1>3. /\ fields \in Row /\ Lives(fields)
      /\ fields.version = row[c].version /\ fields.sequence = row[c].sequence
  <2>1. row[c] \in Row /\ Lives(row[c])
    BY <1>2, LivingRow
  <2> QED
    BY <1>1, <2>1 DEF Row, Lives, IsOpen
<1>4. Note("STATUS_CHANGED") \in Entry
  BY NoteIsTyped
<1>5. Write(c, fields, <<Note("STATUS_CHANGED")>>, {})
  BY <1>1
<1>6. {} \in SUBSET Delivery
  OBVIOUS
<1> HIDE DEF fields
<1> QED
  BY <1>2, <1>3, <1>4, <1>5, <1>6, NoteStep

LEMMA MetadataStep ==
    ASSUME IInv, NEW c \in Cases,
           \/ \E p \in Pages, u \in Users : UpdateCaseMetadata(p, u, c) \/ SetDeadline(p, u, c)
           \/ StatusJudged(c)
    PROVE  IInv'
<1>1. Write(c, row[c], <<Note("METADATA_UPDATED")>>, {})
  BY DEF UpdateCaseMetadata, SetDeadline, StatusJudged
<1>2. Exists(c) /\ page' = page /\ misled' = FALSE
  BY FromPageStep, UnversionedStep DEF UpdateCaseMetadata, SetDeadline, StatusJudged
<1>3. row[c] \in Row /\ Lives(row[c])
  BY <1>2, LivingRow
<1>4. Note("METADATA_UPDATED") \in Entry
  BY NoteIsTyped
<1>5. {} \in SUBSET Delivery
  OBVIOUS
<1> QED
  BY <1>1, <1>2, <1>3, <1>4, <1>5, NoteStep

LEMMA MessageStep ==
    ASSUME IInv, NEW c \in Cases, NEW intent \in Intents,
           \/ \E p \in Pages, u \in Users, side \in Sides : PostFromWeb(p, u, c, side, intent)
           \/ \E u \in Users : PostInPrivate(u, c, intent)
           \/ \E side \in Sides, mode \in {"push", "deferred"} :
                   PostFromGroup(c, side, intent, mode)
    PROVE  IInv'
<1>1. ASSUME NEW p \in Pages, NEW u \in Users, NEW side \in Sides,
             PostFromWeb(p, u, c, side, intent)
      PROVE  IInv'
  <2>1. Exists(c) /\ page' = page /\ misled' = FALSE
    BY <1>1, FromPageStep DEF PostFromWeb
  <2> QED
    BY <1>1, <2>1, PostStep DEF PostFromWeb
<1>2. ASSUME NEW u \in Users, PostInPrivate(u, c, intent)
      PROVE  IInv'
  <2>1. Exists(c) /\ page' = page /\ misled' = FALSE
    BY <1>2, UnversionedStep DEF PostInPrivate
  <2> QED
    BY <1>2, <2>1, PostStep DEF PostInPrivate
<1>3. ASSUME NEW side \in Sides, NEW mode \in {"push", "deferred"},
             PostFromGroup(c, side, intent, mode)
      PROVE  IInv'
  <2>1. Exists(c) /\ page' = page /\ misled' = FALSE
    BY <1>3, UnversionedStep DEF PostFromGroup
  <2> QED
    BY <1>3, <2>1, PostStep DEF PostFromGroup
<1> QED
  BY <1>1, <1>2, <1>3

LEMMA CorrectStep ==
    ASSUME IInv, NEW p \in Pages, NEW q \in Pages, NEW u \in Users, NEW c \in Cases,
           NEW t \in Cases, NEW n \in 1..Len(timeline[c]),
           CorrectEntry(p, q, u, c, t, n)
    PROVE  IInv'
<1> DEFINE original == timeline[c][n]
<1>1. /\ c # t /\ Exists(c) /\ IsOpen(t)
      /\ ExpectedVersion(p, c) /\ ExpectedVersion(q, t)
      /\ row' = [e \in Cases |->
              IF e \in {c, t} THEN Appended([row[e] EXCEPT !.version = @ + 1], 1)
              ELSE row[e]]
      /\ timeline' = [timeline EXCEPT
              ![c] = Append(@, Note("CORRECTION")),
              ![t] = Append(@, Message("CORRECTION", original.side, original.intent))]
      /\ outbox' = outbox \cup
              {Notice(c, NextEntry(c), Destination(c, original.side)),
               To(t, NextEntry(t), Destination(t, original.side),
                  WaitAfter(original.side, original.intent))}
      /\ misled' = (misled \/ page[p].row # row[c] \/ page[q].row # row[t])
      /\ page' = page
  BY DEF CorrectEntry
<1>2. Exists(t)
  BY <1>1 DEF IsOpen, Exists
<1>3. misled' = FALSE
  <2>1. page[p].row = row[c] /\ page[q].row = row[t]
    BY <1>1, PageIsInformed
  <2> QED
    BY <1>1, <2>1 DEF IInv, NobodyMisled
<1>4. /\ row \in [Cases -> Row]
      /\ timeline \in [Cases -> Seq(Entry)]
  BY DEF IInv, TypeOK
<1>5. \A e \in {c, t} : /\ row'[e] \in Row /\ Lives(row'[e])
                        /\ row'[e].version = row[e].version + 1
                        /\ row'[e].sequence = row[e].sequence + 1
  <2> SUFFICES ASSUME NEW e \in {c, t}
               PROVE  /\ row'[e] \in Row /\ Lives(row'[e])
                      /\ row'[e].version = row[e].version + 1
                      /\ row'[e].sequence = row[e].sequence + 1
    OBVIOUS
  <2>1. row[e] \in Row /\ Lives(row[e])
    BY <1>1, <1>2, LivingRow
  <2>2. row'[e] = Appended([row[e] EXCEPT !.version = @ + 1], 1)
    BY <1>1
  <2> QED
    BY <2>1, <2>2, BumpedRow
<1>6. \A e \in Cases : e \notin {c, t} => row'[e] = row[e] /\ timeline'[e] = timeline[e]
  BY <1>1, <1>4
<1>7. row' \in [Cases -> Row]
  BY <1>1, <1>4, <1>5, <1>6
<1>8. original \in Entry
  BY <1>4
<1>9. /\ Note("CORRECTION") \in Entry
      /\ Message("CORRECTION", original.side, original.intent) \in Entry
  BY <1>8, NoteIsTyped, EntryIsTyped DEF Entry
<1>10. /\ timeline' \in [Cases -> Seq(Entry)]
       /\ \A e \in {c, t} : Len(timeline'[e]) = Len(timeline[e]) + 1
  <2>1. /\ Append(timeline[c], Note("CORRECTION")) \in Seq(Entry)
        /\ Append(timeline[t], Message("CORRECTION", original.side, original.intent))
              \in Seq(Entry)
    BY <1>4, <1>9
  <2>2. /\ timeline'[c] = Append(timeline[c], Note("CORRECTION"))
        /\ timeline'[t] = Append(timeline[t],
                                 Message("CORRECTION", original.side, original.intent))
    BY <1>1, <1>4
  <2>3. timeline' \in [Cases -> Seq(Entry)]
    BY <1>1, <1>4, <2>1
  <2>4. /\ Len(timeline'[c]) = Len(timeline[c]) + 1
        /\ Len(timeline'[t]) = Len(timeline[t]) + 1
    BY <1>4, <1>9, <2>2
  <2> QED
    BY <2>3, <2>4
<1>11. outbox' \subseteq Delivery
  <2>1. /\ Destination(c, original.side) \in Teams \cup {Queue} \cup Users
        /\ Destination(t, original.side) \in Teams \cup {Queue} \cup Users
        /\ NextEntry(c) \in Nat /\ NextEntry(t) \in Nat
    BY <1>1, <1>2, DestinationIsTyped
  <2>2. /\ Notice(c, NextEntry(c), Destination(c, original.side)) \in Delivery
        /\ To(t, NextEntry(t), Destination(t, original.side),
              WaitAfter(original.side, original.intent)) \in Delivery
    BY <2>1, NoticeIsTyped, DeliveryIsTyped, WaitAfterIsTyped
  <2> QED
    BY <1>1, <2>2 DEF IInv, TypeOK
<1>12. TypeOK'
  BY <1>1, <1>3, <1>7, <1>10, <1>11 DEF IInv, TypeOK
<1>13. RowsSound' /\ ClosedWaitsForNobody'
  BY <1>5, <1>6 DEF IInv, RowsSound, ClosedWaitsForNobody, Exists, Lives
<1>14. Numbered'
  BY <1>5, <1>6, <1>10 DEF IInv, Numbered
<1>15. PageAgrees'
  BY <1>1, <1>5, <1>6, <1>7, PagesStay
<1> QED
  BY <1>3, <1>12, <1>13, <1>14, <1>15 DEF IInv, NobodyMisled

LEMMA OpenPageStep ==
    ASSUME IInv, NEW p \in Pages, NEW u \in Users, NEW c \in Cases, OpenPage(p, u, c)
    PROVE  IInv'
<1>1. /\ page' = [page EXCEPT ![p] = [case |-> c, row |-> row[c]]]
      /\ UNCHANGED <<row, timeline, outbox, misled>>
  BY DEF OpenPage
<1>2. /\ row[c] \in Row
      /\ page \in [Pages -> [case : Cases \cup {NoCase}, row : Row]]
  BY DEF IInv, TypeOK
<1>3. page' \in [Pages -> [case : Cases \cup {NoCase}, row : Row]]
  BY <1>1, <1>2
<1>4. TypeOK'
  BY <1>1, <1>3 DEF IInv, TypeOK
<1>5. PageAgrees'
  <2> SUFFICES ASSUME NEW q \in Pages, page'[q].case # NoCase
               PROVE  /\ page'[q].row.version <= row[page'[q].case].version
                      /\ page'[q].row.version = row[page'[q].case].version =>
                             page'[q].row = row[page'[q].case]
    BY <1>1 DEF PageAgrees
  <2>1. CASE q = p
    <3>1. page'[q].case = c /\ page'[q].row = row[c]
      BY <1>1, <1>2, <2>1
    <3>2. row[c].version \in Nat
      BY <1>2 DEF Row
    <3> QED
      BY <3>1, <3>2
  <2>2. CASE q # p
    BY <1>1, <1>2, <2>2 DEF IInv, PageAgrees
  <2> QED
    BY <2>1, <2>2
<1> QED
  BY <1>1, <1>4, <1>5 DEF IInv, RowsSound, Numbered, ClosedWaitsForNobody,
                          NobodyMisled, Exists

LEMMA ResultStep ==
    ASSUME IInv, NEW d \in outbox, DeliveryResult(d)
    PROVE  IInv'
<1>1. /\ d \in Delivery /\ row \in [Cases -> Row]
      /\ UNCHANGED <<timeline, page, misled>>
      /\ outbox' \in {outbox \ {d}, (outbox \ {d}) \cup {[d EXCEPT !.mode = "push"]}}
  BY DEF IInv, TypeOK, DeliveryResult, DeliverySent, DeliveryFailed, CompleteDeferred,
         RestoreDeferred, Arrived
<1>2. outbox' \subseteq Delivery
  <2>1. [d EXCEPT !.mode = "push"] \in Delivery
    BY <1>1 DEF Delivery
  <2> QED
    BY <1>1, <2>1 DEF IInv, TypeOK
<1> DEFINE c == d.case
<1>3. \/ row' = row
      \/ /\ MayApply(d)
         /\ row' = [row EXCEPT ![c].waiting_on = d.after, ![c].version = @ + 1]
  BY DEF DeliveryResult, DeliverySent, DeliveryFailed, CompleteDeferred, RestoreDeferred,
         Arrived
<1>4. CASE row' = row
  BY <1>1, <1>2, <1>4 DEF IInv, TypeOK, RowsSound, Numbered,
                         ClosedWaitsForNobody, PageAgrees, NobodyMisled, Exists
<1>5. CASE MayApply(d) /\ row' = [row EXCEPT ![c].waiting_on = d.after,
                                            ![c].version = @ + 1]
  <2>1. c \in Cases /\ d.after \in Sides /\ IsOpen(c) /\ row[c] \in Row
    BY <1>1, <1>5 DEF MayApply, Delivery, Waiting
  <2>2. Lives(row[c])
    BY <2>1, LivingRow DEF IsOpen, Exists
  <2>3. /\ row'[c] = [row[c] EXCEPT !.waiting_on = d.after, !.version = @ + 1]
        /\ \A e \in Cases : e # c => row'[e] = row[e]
    BY <1>1, <1>5, <2>1
  <2>4. row[c].version + 1 \in Nat /\ d.after \in Waiting
    BY <2>1 DEF Row, Waiting
  <2>5. /\ row'[c] \in Row
        /\ row'[c].version = row[c].version + 1
        /\ row'[c].sequence = row[c].sequence
        /\ Lives(row'[c])
    BY <2>1, <2>2, <2>3, <2>4 DEF Row, Lives, IsOpen
  <2>6. row' \in [Cases -> Row]
    BY <1>1, <1>5, <2>1, <2>3, <2>5
  <2>7. TypeOK'
    BY <1>1, <1>2, <2>6 DEF IInv, TypeOK
  <2>8. RowsSound'
    BY <2>3, <2>5 DEF IInv, RowsSound, Exists, Lives
  <2>11. ClosedWaitsForNobody'
    <3> SUFFICES ASSUME NEW e \in Cases
                 PROVE  /\ row'[e].lifecycle = "OPEN" <=> row'[e].waiting_on \in Sides
                        /\ row'[e].lifecycle = "CLOSED" <=> row'[e].status = "CLOSED"
      BY DEF ClosedWaitsForNobody
    <3>1. CASE e = c
      BY <2>5, <3>1 DEF Lives
    <3>2. CASE e # c
      BY <2>3, <3>2 DEF IInv, ClosedWaitsForNobody
    <3> QED
      BY <3>1, <3>2
  <2>9. Numbered'
    BY <1>1, <2>3, <2>5 DEF IInv, Numbered
  <2>10. PageAgrees'
    BY <1>1, <2>3, <2>5, <2>6, PagesStay
  <2> QED
    BY <1>1, <2>7, <2>8, <2>9, <2>10, <2>11 DEF IInv, NobodyMisled
<1> QED
  BY <1>3, <1>4, <1>5

LEMMA NextIInv == IInv /\ [Next]_vars => IInv'
<1> SUFFICES ASSUME IInv, [Next]_vars PROVE IInv'
  OBVIOUS
<1>1. CASE UNCHANGED vars
  BY <1>1 DEF vars, IInv, TypeOK, RowsSound, Numbered, ClosedWaitsForNobody,
              PageAgrees, NobodyMisled, Exists
<1>2. ASSUME NEW c \in Cases, NEW u \in Users \cup {NoUser}, NEW t \in Teams,
             CreateCase(c, u, t)
      PROVE  IInv'
  BY <1>2, CreateStep
<1>3. ASSUME NEW c \in Cases, NEW p \in Pages, NEW u \in Users, WebCommand(p, u, c)
      PROVE  IInv'
  <2>1. CASE OpenPage(p, u, c)
    BY <2>1, OpenPageStep
  <2>2. CASE \E side \in Sides, intent \in Intents : PostFromWeb(p, u, c, side, intent)
    BY <2>2, MessageStep
  <2>3. CASE \/ \E v \in Users : TransferConsultant(p, u, c, v)
             \/ \E t \in Teams : TransferDevTeam(p, u, c, t)
    BY <2>3, HandoverStep
  <2>4. CASE CloseCase(p, u, c) \/ \E side \in Sides : ReopenCase(p, u, c, side)
    BY <2>4, LifecycleStep
  <2>5. CASE \E s \in Statuses : SetCaseStatus(p, u, c, s)
    BY <2>5, StatusStep
  <2>6. ASSUME NEW q \in Pages, NEW t \in Cases, NEW n \in 1..Len(timeline[c]),
               CorrectEntry(p, q, u, c, t, n)
        PROVE  IInv'
    BY <2>6, CorrectStep
  <2>7. CASE UpdateCaseMetadata(p, u, c) \/ SetDeadline(p, u, c)
    BY <2>7, MetadataStep
  <2> QED
    BY <1>3, <2>1, <2>2, <2>3, <2>4, <2>5, <2>6, <2>7 DEF WebCommand
<1>4. ASSUME NEW c \in Cases, ChatMessage(c)
      PROVE  IInv'
  BY <1>4, MessageStep DEF ChatMessage
<1>5. ASSUME NEW c \in Cases, StatusJudged(c)
      PROVE  IInv'
  BY <1>5, MetadataStep
<1>6. ASSUME NEW d \in outbox, DeliveryResult(d)
      PROVE  IInv'
  BY <1>6, ResultStep
<1> QED
  BY <1>1, <1>2, <1>3, <1>4, <1>5, <1>6 DEF Next

LEMMA CaseDeskInvariant == Spec => []IInv
<1>1. Init => IInv
  BY InitIInv
<1>2. IInv /\ [Next]_vars => IInv'
  BY NextIInv
<1> QED
  BY <1>1, <1>2, PTL DEF Spec

\* Rows, entries and deliveries keep their types: in particular no delivery is
\* ever addressed to a missing consultant or a missing team.
THEOREM CaseDeskTypes == Spec => []TypeOK
<1>1. IInv => TypeOK
  BY DEF IInv
<1> QED
  BY <1>1, CaseDeskInvariant, PTL

\* No command of the web application is ever accepted on an outdated picture
\* of its case (_assert_expected_version), however chat messages, delivery
\* results, status judgements and other pages interleave with it.
THEOREM OptimisticCheckIsSound == Spec => []NobodyMisled
<1>1. IInv => NobodyMisled
  BY DEF IInv
<1> QED
  BY <1>1, CaseDeskInvariant, PTL

\* A closed case waits for nobody, and no late delivery result changes that:
\* the check constraint of the cases table is never what stops a transaction.
THEOREM ClosedStaysSettled == Spec => []ClosedWaitsForNobody
<1>1. IInv => ClosedWaitsForNobody
  BY DEF IInv
<1> QED
  BY <1>1, CaseDeskInvariant, PTL

-----------------------------------------------------------------------------
(* CaseDesk implements Turn.                                               *)

\* The deliveries of a case that pass the turn when they arrive.
Movers(c) == {d \in outbox : d.case = c /\ d.after # "NONE"}

\* Each of them is the one delivery of a handoff: no message that is not a
\* handoff passes the turn, and the notice to the consultant never does.
OneMoverEach ==
    \A c \in Cases :
        /\ \A d \in Movers(c) : d.entry \in Handoffs(c)
        /\ \A d, e \in Movers(c) : d.entry = e.entry => d = e

\* The refinement mapping.
Passes(c) == IF Passing(c) = {} THEN "NONE" ELSE (CHOOSE d \in Passing(c) : TRUE).after
Mapped == [c \in Cases |-> Passes(c)]

LEMMA PassingMovers ==
    ASSUME NEW c
    PROVE  Passing(c) = {d \in Movers(c) : d.entry \in LatestHandoff(c)}
BY DEF Passing, Movers

LEMMA OneLatest ==
    ASSUME NEW c, NEW m \in LatestHandoff(c), NEW n \in LatestHandoff(c)
    PROVE  m = n
BY DEF LatestHandoff, Handoffs

LEMMA PassesIs ==
    ASSUME OneMoverEach, NEW c \in Cases, NEW d \in Passing(c)
    PROVE  Passing(c) = {d} /\ Passes(c) = d.after
<1>1. \A e \in Passing(c) : e = d
  BY PassingMovers, OneLatest DEF OneMoverEach
<1>2. Passing(c) = {d}
  BY <1>1
<1> QED
  BY <1>2 DEF Passes

LEMMA InitOneMover == Init => OneMoverEach
BY DEF Init, OneMoverEach, Movers

\* The timeline of a case grows.
Grows(c) ==
    /\ Len(timeline[c]) <= Len(timeline'[c])
    /\ \A n \in 1..Len(timeline[c]) : timeline'[c][n] = timeline[c][n]

\* It grows by entries none of which is a handoff, those numbered from k.
Quiet(c, k) == \A n \in k..Len(timeline'[c]) : ~IsHandoff(timeline'[c][n])

LEMMA Lengths ==
    ASSUME IInv, IInv', NEW c \in Cases
    PROVE  Len(timeline[c]) \in Nat /\ Len(timeline'[c]) \in Nat
BY DEF IInv, TypeOK

\* A case in which nothing is handed over.
LEMMA QuietCase ==
    ASSUME IInv, IInv', OneMoverEach, NEW c \in Cases, Grows(c),
           Quiet(c, Len(timeline[c]) + 1), Movers(c)' = Movers(c)
    PROVE  /\ Passes(c)' = Passes(c)
           /\ \A d \in Movers(c)' : d.entry \in Handoffs(c)'
           /\ \A d, e \in Movers(c)' : d.entry = e.entry => d = e
<1>1. Handoffs(c)' = Handoffs(c)
  BY Lengths DEF Grows, Quiet, Handoffs
<1>2. Passing(c)' = Passing(c)
  BY <1>1 DEF LatestHandoff, Passing, Movers
<1> QED
  BY <1>1, <1>2 DEF Passes, OneMoverEach

\* A case in which entry number n, a new one, is handed over to side s.
LEMMA HandingCase ==
    ASSUME IInv, IInv', OneMoverEach, NEW c \in Cases, Grows(c),
           NEW n, n = Len(timeline[c]) + 1, n <= Len(timeline'[c]),
           IsHandoff(timeline'[c][n]), Quiet(c, n + 1),
           NEW d, d.entry = n, d.after # "NONE", Movers(c)' = Movers(c) \cup {d}
    PROVE  /\ Passes(c)' = d.after
           /\ \A e \in Movers(c)' : e.entry \in Handoffs(c)'
           /\ \A e, f \in Movers(c)' : e.entry = f.entry => e = f
<1>1. Handoffs(c)' = Handoffs(c) \cup {n}
  BY Lengths DEF Grows, Quiet, Handoffs
<1>2. \A m \in Handoffs(c) : m < n
  BY Lengths DEF Handoffs
<1>3. LatestHandoff(c)' = {n}
  BY <1>1, <1>2, Lengths DEF LatestHandoff, Handoffs
<1>4. \A e \in Movers(c) : e.entry \in Handoffs(c) /\ e.entry # n
  BY <1>2, Lengths DEF OneMoverEach, Handoffs
<1>5. Passing(c)' = {d}
  BY <1>3, <1>4 DEF Passing, Movers
<1>6. Passes(c)' = d.after
  BY <1>5 DEF Passes
<1>7. \A e, f \in Movers(c)' : e.entry = f.entry => e = f
  BY <1>4 DEF OneMoverEach
<1> QED
  BY <1>1, <1>4, <1>6, <1>7

\* A case nothing happens to.
LEMMA IdleCase ==
    ASSUME IInv, IInv', OneMoverEach, NEW c \in Cases, timeline'[c] = timeline[c],
           Movers(c)' = Movers(c)
    PROVE  /\ Passes(c)' = Passes(c)
           /\ \A d \in Movers(c)' : d.entry \in Handoffs(c)'
           /\ \A d, e \in Movers(c)' : d.entry = e.entry => d = e
BY Lengths, QuietCase DEF Grows, Quiet

\* What a step does to each case determines what it does to all of them.
LEMMA Together ==
    ASSUME \A c \in Cases : /\ \A d \in Movers(c)' : d.entry \in Handoffs(c)'
                            /\ \A d, e \in Movers(c)' : d.entry = e.entry => d = e
    PROVE  OneMoverEach'
BY DEF OneMoverEach

\* The actions of the contract, under the refinement mapping.
LEMMA ContractStutters ==
    ASSUME \A c \in Cases : row'[c].waiting_on = row[c].waiting_on /\ Passes(c)' = Passes(c)
    PROVE  [Contract!Next]_(Contract!vars)
BY DEF Contract!vars, Passes

LEMMA ContractHandsOff ==
    ASSUME NEW c \in Cases, NEW s \in Sides, row[c].waiting_on # "NONE", Passes(c)' = s,
           \A e \in Cases : row'[e].waiting_on = row[e].waiting_on,
           \A e \in Cases \ {c} : Passes(e)' = Passes(e)
    PROVE  Contract!Next
<1>1. Mapped' = [Mapped EXCEPT ![c] = s]
  BY DEF Mapped
<1>2. Contract!HandOff(c, s)
  BY <1>1 DEF Contract!HandOff, Contract!NoSide, Mapped, Passes
<1> QED
  BY <1>2 DEF Contract!Next

LEMMA ContractOpens ==
    ASSUME NEW c \in Cases, NEW s \in Sides, row[c].waiting_on = "NONE",
           row'[c].waiting_on = s,
           Passes(c)' \in {Passes(c), CHOOSE t \in Sides : t # s},
           \A e \in Cases \ {c} : row'[e].waiting_on = row[e].waiting_on
                                 /\ Passes(e)' = Passes(e)
    PROVE  Contract!Next
<1>1. Mapped' \in {Mapped, [Mapped EXCEPT ![c] = CHOOSE t \in Sides : t # s]}
  BY DEF Mapped
<1>2. [e \in Cases |-> row[e].waiting_on]' = [[e \in Cases |-> row[e].waiting_on] EXCEPT ![c] = s]
  OBVIOUS
<1>3. Contract!Open(c, s)
  BY <1>1, <1>2 DEF Contract!Open, Contract!NoSide, Mapped, Passes
<1> QED
  BY <1>3 DEF Contract!Next

LEMMA ContractCloses ==
    ASSUME NEW c \in Cases, row[c].waiting_on # "NONE", row'[c].waiting_on = "NONE",
           \A e \in Cases : Passes(e)' = Passes(e),
           \A e \in Cases \ {c} : row'[e].waiting_on = row[e].waiting_on
    PROVE  Contract!Next
<1>1. Contract!Close(c)
  BY DEF Contract!Close, Contract!NoSide, Passes
<1> QED
  BY <1>1 DEF Contract!Next

LEMMA ContractSettles ==
    ASSUME NEW c \in Cases, Passes(c) # "NONE", Passes(c)' = "NONE",
           row'[c].waiting_on = row[c].waiting_on
               \/ (row[c].waiting_on # "NONE" /\ row'[c].waiting_on = Passes(c)),
           \A e \in Cases \ {c} : row'[e].waiting_on = row[e].waiting_on
                                 /\ Passes(e)' = Passes(e)
    PROVE  Contract!Next
<1>1. Contract!Settle(c)
  BY DEF Contract!Settle, Contract!NoSide, Passes
<1> QED
  BY <1>1 DEF Contract!Next

-----------------------------------------------------------------------------
(* The commands.                                                           *)

\* What a command that writes case c does to the timelines and to whose turn it
\* is.
LEMMA WriteGrows ==
    ASSUME IInv, NEW c \in Cases, NEW fields \in Row, NEW entries \in Seq(Entry),
           NEW deliveries, Write(c, fields, entries, deliveries)
    PROVE  /\ Grows(c)
           /\ Len(timeline'[c]) = Len(timeline[c]) + Len(entries)
           /\ \A n \in 1..Len(entries) :
                 timeline'[c][Len(timeline[c]) + n] = entries[n]
           /\ outbox' = outbox \cup deliveries
           /\ row'[c].waiting_on = fields.waiting_on
           /\ \A e \in Cases \ {c} : timeline'[e] = timeline[e] /\ row'[e] = row[e]
<1>1. /\ timeline \in [Cases -> Seq(Entry)] /\ row \in [Cases -> Row]
      /\ timeline[c] \in Seq(Entry)
  BY DEF IInv, TypeOK
<1>2. timeline'[c] = timeline[c] \o entries
  BY <1>1 DEF Write
<1>3. row'[c] = Appended([fields EXCEPT !.version = @ + 1], Len(entries))
  BY <1>1 DEF Write
<1>4. row'[c].waiting_on = fields.waiting_on
  BY <1>3 DEF Appended, Row
<1> QED
  BY <1>1, <1>2, <1>4 DEF Write, Grows

\* Deliveries that pass no turn.
Still(c, deliveries) == \A d \in deliveries : d.case = c /\ d.after = "NONE"

\* A command that hands nothing over.
LEMMA QuietWrite ==
    ASSUME IInv, IInv', OneMoverEach, NEW c \in Cases, NEW fields \in Row,
           NEW entries \in Seq(Entry), NEW deliveries, Still(c, deliveries),
           Write(c, fields, entries, deliveries),
           \A n \in 1..Len(entries) : ~IsHandoff(entries[n])
    PROVE  /\ OneMoverEach'
           /\ row'[c].waiting_on = fields.waiting_on
           /\ \A e \in Cases : Passes(e)' = Passes(e)
           /\ \A e \in Cases \ {c} : row'[e] = row[e]
<1> DEFINE old == Len(timeline[c])
<1>1. /\ Grows(c)
      /\ Len(timeline'[c]) = old + Len(entries)
      /\ \A n \in 1..Len(entries) : timeline'[c][old + n] = entries[n]
      /\ outbox' = outbox \cup deliveries
      /\ row'[c].waiting_on = fields.waiting_on
      /\ \A e \in Cases \ {c} : timeline'[e] = timeline[e] /\ row'[e] = row[e]
  BY WriteGrows
<1>2. \A e \in Cases : Movers(e)' = Movers(e)
  BY <1>1 DEF Movers, Still
<1>3. Quiet(c, old + 1)
  <2>1. \A m \in old + 1..Len(timeline'[c]) :
            m - old \in 1..Len(entries) /\ m = old + (m - old)
    BY <1>1, Lengths
  <2> QED
    BY <1>1, <2>1 DEF Quiet
<1>4. \A e \in Cases :
          /\ Passes(e)' = Passes(e)
          /\ \A d \in Movers(e)' : d.entry \in Handoffs(e)'
          /\ \A d, f \in Movers(e)' : d.entry = f.entry => d = f
  BY <1>1, <1>2, <1>3, QuietCase, IdleCase
<1> QED
  BY <1>1, <1>4, Together

\* A command whose first entry is a handoff, which d delivers.
LEMMA HandingWrite ==
    ASSUME IInv, IInv', OneMoverEach, NEW c \in Cases, NEW fields \in Row,
           NEW entries \in Seq(Entry), Len(entries) >= 1, IsHandoff(entries[1]),
           \A n \in 2..Len(entries) : ~IsHandoff(entries[n]),
           NEW d, d.case = c, d.entry = NextEntry(c), d.after # "NONE",
           NEW rest, Still(c, rest),
           Write(c, fields, entries, {d} \cup rest)
    PROVE  /\ OneMoverEach'
           /\ row'[c].waiting_on = fields.waiting_on
           /\ Passes(c)' = d.after
           /\ \A e \in Cases \ {c} : row'[e] = row[e] /\ Passes(e)' = Passes(e)
<1> DEFINE old == Len(timeline[c])
<1>1. /\ Grows(c)
      /\ Len(timeline'[c]) = old + Len(entries)
      /\ \A n \in 1..Len(entries) : timeline'[c][old + n] = entries[n]
      /\ outbox' = outbox \cup ({d} \cup rest)
      /\ row'[c].waiting_on = fields.waiting_on
      /\ \A e \in Cases \ {c} : timeline'[e] = timeline[e] /\ row'[e] = row[e]
  BY WriteGrows
<1>2. d.entry = old + 1
  BY DEF NextEntry, IInv, Numbered
<1>3. /\ Movers(c)' = Movers(c) \cup {d}
      /\ \A e \in Cases \ {c} : Movers(e)' = Movers(e)
  BY <1>1 DEF Movers, Still
<1>4. IsHandoff(timeline'[c][old + 1]) /\ old + 1 <= Len(timeline'[c])
  BY <1>1, Lengths
<1>5. Quiet(c, (old + 1) + 1)
  <2>1. \A k \in 2..Len(entries) : ~IsHandoff(timeline'[c][old + k])
    BY <1>1
  <2>2. \A m \in ((old + 1) + 1)..Len(timeline'[c]) :
            m - old \in 2..Len(entries) /\ m = old + (m - old)
    BY <1>1, Lengths
  <2> QED
    BY <2>1, <2>2 DEF Quiet
<1>6. /\ Passes(c)' = d.after
      /\ \A e \in Movers(c)' : e.entry \in Handoffs(c)'
      /\ \A e, f \in Movers(c)' : e.entry = f.entry => e = f
  BY <1>1, <1>2, <1>3, <1>4, <1>5, HandingCase
<1>7. \A e \in Cases \ {c} :
          /\ Passes(e)' = Passes(e)
          /\ \A g \in Movers(e)' : g.entry \in Handoffs(e)'
          /\ \A g, f \in Movers(e)' : g.entry = f.entry => g = f
  BY <1>1, <1>3, IdleCase
<1> QED
  BY <1>1, <1>6, <1>7, Together

LEMMA CreateTurn ==
    ASSUME IInv, IInv', OneMoverEach, NEW c \in Cases, NEW u \in Users \cup {NoUser},
           NEW t \in Teams, CreateCase(c, u, t)
    PROVE  OneMoverEach' /\ Contract!Next
<1> DEFINE fields == [Absent EXCEPT !.lifecycle = "OPEN", !.waiting_on = "CONSULT",
                                    !.team = t, !.consultant = u]
<1> DEFINE entries == <<Message("FORMAL_MESSAGE", "CONSULT", "HANDOFF")>>
<1> DEFINE d == To(c, 1, t, "DEV")
<1>1. row[c] = Absent
  BY DEF CreateCase, IInv, RowsSound
<1>2. fields \in Row /\ fields.waiting_on = "CONSULT"
  BY DEF Row, Absent, Statuses, Waiting, Sides
<1>3. entries \in Seq(Entry) /\ Len(entries) = 1 /\ IsHandoff(entries[1])
  BY FormalMessageIsTyped DEF Sides, Intents, IsHandoff, Message
<1>4. d.case = c /\ d.entry = NextEntry(c) /\ d.after = "DEV"
  BY <1>1 DEF To, NextEntry, Absent
<1>5. Write(c, fields, entries, {d} \cup {})
  BY DEF CreateCase
<1>6. Still(c, {}) /\ \A n \in 2..Len(entries) : ~IsHandoff(entries[n])
  BY <1>3 DEF Still
<1> HIDE DEF fields, entries, d
<1>7. /\ OneMoverEach'
      /\ row'[c].waiting_on = "CONSULT"
      /\ Passes(c)' = "DEV"
      /\ \A e \in Cases \ {c} : row'[e] = row[e] /\ Passes(e)' = Passes(e)
  BY <1>2, <1>3, <1>4, <1>5, <1>6, HandingWrite
<1>8. "CONSULT" \in Sides /\ (CHOOSE s \in Sides : s # "CONSULT") = "DEV"
  BY DEF Sides
<1>9. row[c].waiting_on = "NONE"
  BY <1>1 DEF Absent
<1> QED
  BY <1>7, <1>8, <1>9, ContractOpens

\* A formal message hands the case over or leaves the turn alone.
LEMMA PostTurn ==
    ASSUME IInv, IInv', OneMoverEach, NEW c \in Cases, IsOpen(c),
           NEW side \in Sides, NEW intent \in Intents, NEW mode \in {"push", "deferred"},
           NEW fields \in Row, fields.waiting_on = row[c].waiting_on,
           NEW entries \in Seq(Entry),
           entries \in {<<Message("FORMAL_MESSAGE", side, intent)>>,
                        <<Message("FORMAL_MESSAGE", side, intent), Note("STATUS_CHANGED")>>},
           Write(c, fields, entries, FormalDeliveries(c, side, intent, mode))
    PROVE  OneMoverEach' /\ [Contract!Next]_(Contract!vars)
<1> DEFINE d == [To(c, NextEntry(c), Destination(c, side), WaitAfter(side, intent))
                    EXCEPT !.mode = mode]
<1> DEFINE rest == IF side = "DEV" /\ row[c].consultant # NoUser
                   THEN {Notice(c, NextEntry(c), row[c].consultant)} ELSE {}
<1>1. d.case = c /\ d.entry = NextEntry(c) /\ d.after = WaitAfter(side, intent)
  BY DEF To
<1>2. Still(c, rest)
  BY DEF Still, Notice, To
<1>3. Write(c, fields, entries, {d} \cup rest)
  BY DEF FormalDeliveries
<1>4. /\ Len(entries) >= 1
      /\ IsHandoff(entries[1]) <=> intent = "HANDOFF"
      /\ \A n \in 2..Len(entries) : ~IsHandoff(entries[n])
      /\ \A n \in 1..Len(entries) : n = 1 \/ n \in 2..Len(entries)
  BY DEF IsHandoff, Message, Note
<1>5. row[c].waiting_on # "NONE"
  BY DEF IInv, ClosedWaitsForNobody, IsOpen, Sides
<1> HIDE DEF d, rest
<1>6. CASE intent = "HANDOFF"
  <2>1. d.after \in Sides /\ d.after # "NONE"
    BY <1>1, <1>6 DEF WaitAfter, Opposite, Sides
  <2>2. /\ OneMoverEach'
        /\ row'[c].waiting_on = row[c].waiting_on
        /\ Passes(c)' = d.after
        /\ \A e \in Cases \ {c} : row'[e] = row[e] /\ Passes(e)' = Passes(e)
    BY <1>1, <1>2, <1>3, <1>4, <1>6, <2>1, HandingWrite
  <2> QED
    BY <1>5, <2>1, <2>2, ContractHandsOff
<1>7. CASE intent # "HANDOFF"
  <2>1. d.after = "NONE"
    BY <1>1, <1>7 DEF WaitAfter
  <2>2. Still(c, {d} \cup rest)
    BY <1>1, <1>2, <2>1 DEF Still
  <2>3. \A n \in 1..Len(entries) : ~IsHandoff(entries[n])
    BY <1>4, <1>7
  <2>4. /\ OneMoverEach'
        /\ row'[c].waiting_on = row[c].waiting_on
        /\ \A e \in Cases : Passes(e)' = Passes(e)
        /\ \A e \in Cases \ {c} : row'[e] = row[e]
    BY <1>3, <2>2, <2>3, QuietWrite
  <2> QED
    BY <2>4, ContractStutters
<1> QED
  BY <1>6, <1>7

LEMMA MessageTurn ==
    ASSUME IInv, IInv', OneMoverEach, NEW c \in Cases, NEW intent \in Intents,
           \/ \E p \in Pages, u \in Users, side \in Sides : PostFromWeb(p, u, c, side, intent)
           \/ \E u \in Users : PostInPrivate(u, c, intent)
           \/ \E side \in Sides, mode \in {"push", "deferred"} :
                   PostFromGroup(c, side, intent, mode)
    PROVE  OneMoverEach' /\ [Contract!Next]_(Contract!vars)
<1>1. IsOpen(c) /\ row[c] \in Row
  BY DEF PostFromWeb, PostInPrivate, PostFromGroup, IInv, TypeOK
<1>2. PICK side \in Sides, mode \in {"push", "deferred"} :
        \/ Write(c, row[c], <<Message("FORMAL_MESSAGE", side, intent)>>,
                 FormalDeliveries(c, side, intent, mode))
        \/ Write(c, [row[c] EXCEPT !.status = "IN_PROGRESS"],
                 <<Message("FORMAL_MESSAGE", side, intent), Note("STATUS_CHANGED")>>,
                 FormalDeliveries(c, side, intent, mode))
  BY DEF PostFromWeb, PostInPrivate, PostFromGroup
<1>3. /\ Message("FORMAL_MESSAGE", side, intent) \in Entry
      /\ Note("STATUS_CHANGED") \in Entry
  BY FormalMessageIsTyped, NoteIsTyped
<1>4. /\ [row[c] EXCEPT !.status = "IN_PROGRESS"] \in Row
      /\ [row[c] EXCEPT !.status = "IN_PROGRESS"].waiting_on = row[c].waiting_on
  BY <1>1 DEF Row, Statuses
<1>5. /\ <<Message("FORMAL_MESSAGE", side, intent)>> \in Seq(Entry)
      /\ <<Message("FORMAL_MESSAGE", side, intent), Note("STATUS_CHANGED")>> \in Seq(Entry)
  BY <1>3
<1> QED
  BY <1>1, <1>2, <1>4, <1>5, PostTurn

\* A command that writes one entry, not a message, and passes no turn.
LEMMA NoteTurn ==
    ASSUME IInv, IInv', OneMoverEach, NEW c \in Cases, NEW fields \in Row,
           NEW e \in Entry, ~IsHandoff(e), NEW deliveries, Still(c, deliveries),
           Write(c, fields, <<e>>, deliveries)
    PROVE  /\ OneMoverEach'
           /\ row'[c].waiting_on = fields.waiting_on
           /\ \A b \in Cases : Passes(b)' = Passes(b)
           /\ \A b \in Cases \ {c} : row'[b] = row[b]
<1>1. <<e>> \in Seq(Entry) /\ \A n \in 1..Len(<<e>>) : ~IsHandoff(<<e>>[n])
  OBVIOUS
<1> QED
  BY <1>1, QuietWrite

LEMMA NoHandoff ==
    ASSUME NEW k, k \notin {"FORMAL_MESSAGE", "CORRECTION"}, NEW side
    PROVE  /\ ~IsHandoff(Note(k))
           /\ ~IsHandoff([Note(k) EXCEPT !.waiting_on = side])
BY DEF IsHandoff, Note, Message

LEMMA HandoverTurn ==
    ASSUME IInv, IInv', OneMoverEach, NEW p \in Pages, NEW u \in Users, NEW c \in Cases,
           \/ \E v \in Users : TransferConsultant(p, u, c, v)
           \/ \E t \in Teams : TransferDevTeam(p, u, c, t)
    PROVE  OneMoverEach' /\ [Contract!Next]_(Contract!vars)
<1>1. row[c] \in Row /\ Note("TRANSFERRED") \in Entry /\ ~IsHandoff(Note("TRANSFERRED"))
  BY NoteIsTyped, NoHandoff DEF IInv, TypeOK
<1>2. PICK fields \in Row : \E deliveries :
          /\ fields.waiting_on = row[c].waiting_on
          /\ Still(c, deliveries)
          /\ Write(c, fields, <<Note("TRANSFERRED")>>, deliveries)
  <2>1. ASSUME NEW v \in Users, TransferConsultant(p, u, c, v)
        PROVE  /\ [row[c] EXCEPT !.consultant = v] \in Row
               /\ [row[c] EXCEPT !.consultant = v].waiting_on = row[c].waiting_on
               /\ Still(c, {Notice(c, NextEntry(c), Queue), Notice(c, NextEntry(c), v)})
               /\ Write(c, [row[c] EXCEPT !.consultant = v], <<Note("TRANSFERRED")>>,
                        {Notice(c, NextEntry(c), Queue), Notice(c, NextEntry(c), v)})
    BY <1>1, <2>1 DEF TransferConsultant, Row, Still, Notice, To
  <2>2. ASSUME NEW t \in Teams, TransferDevTeam(p, u, c, t)
        PROVE  /\ [row[c] EXCEPT !.team = t] \in Row
               /\ [row[c] EXCEPT !.team = t].waiting_on = row[c].waiting_on
               /\ Still(c, {Notice(c, NextEntry(c), row[c].team), Notice(c, NextEntry(c), t)})
               /\ Write(c, [row[c] EXCEPT !.team = t], <<Note("TRANSFERRED")>>,
                        {Notice(c, NextEntry(c), row[c].team), Notice(c, NextEntry(c), t)})
    BY <1>1, <2>2 DEF TransferDevTeam, Row, Still, Notice, To
  <2> QED
    BY <2>1, <2>2
<1>3. /\ OneMoverEach'
      /\ row'[c].waiting_on = row[c].waiting_on
      /\ \A e \in Cases : Passes(e)' = Passes(e)
      /\ \A e \in Cases \ {c} : row'[e] = row[e]
  BY <1>1, <1>2, NoteTurn
<1> QED
  BY <1>3, ContractStutters

LEMMA LifecycleTurn ==
    ASSUME IInv, IInv', OneMoverEach, NEW p \in Pages, NEW u \in Users, NEW c \in Cases,
           \/ CloseCase(p, u, c)
           \/ \E side \in Sides : ReopenCase(p, u, c, side)
    PROVE  OneMoverEach' /\ Contract!Next
<1>1. row[c] \in Row /\ Note("CLOSED") \in Entry /\ Note("REOPENED") \in Entry
  BY NoteIsTyped DEF IInv, TypeOK
<1>2. CASE CloseCase(p, u, c)
  <2> DEFINE fields == [row[c] EXCEPT !.lifecycle = "CLOSED", !.status = "CLOSED",
                                      !.waiting_on = "NONE"]
  <2>1. fields \in Row /\ fields.waiting_on = "NONE"
    BY <1>1 DEF Row, Statuses, Waiting, Sides
  <2>2. Still(c, {Notice(c, NextEntry(c), row[c].team)})
    BY DEF Still, Notice, To
  <2>3. Write(c, fields, <<Note("CLOSED")>>, {Notice(c, NextEntry(c), row[c].team)})
    BY <1>2 DEF CloseCase
  <2> HIDE DEF fields
  <2>4. /\ OneMoverEach'
        /\ row'[c].waiting_on = "NONE"
        /\ \A e \in Cases : Passes(e)' = Passes(e)
        /\ \A e \in Cases \ {c} : row'[e] = row[e]
    BY <1>1, <2>1, <2>2, <2>3, NoteTurn, NoHandoff
  <2>5. row[c].waiting_on # "NONE"
    BY <1>2 DEF CloseCase, IsOpen, IInv, ClosedWaitsForNobody, Sides
  <2> QED
    BY <2>4, <2>5, ContractCloses
<1>3. ASSUME NEW side \in Sides, ReopenCase(p, u, c, side)
      PROVE  OneMoverEach' /\ Contract!Next
  <2> DEFINE fields == [row[c] EXCEPT !.lifecycle = "OPEN", !.status = "IN_PROGRESS",
                                      !.waiting_on = side]
  <2> DEFINE entry == [Note("REOPENED") EXCEPT !.waiting_on = side]
  <2> DEFINE notices == IF side = "DEV" THEN {Notice(c, NextEntry(c), row[c].team)} ELSE {}
  <2>1. fields \in Row /\ fields.waiting_on = side
    BY <1>1 DEF Row, Statuses, Waiting, Sides
  <2>2. entry \in Entry /\ ~IsHandoff(entry)
    <3>1. entry \in Entry
      BY DEF Note, Message, Entry, Waiting, Sides
    <3> QED
      BY <3>1, NoHandoff
  <2>3. Still(c, notices)
    BY DEF Still, Notice, To
  <2>4. Write(c, fields, <<entry>>, notices)
    BY <1>3 DEF ReopenCase
  <2> HIDE DEF fields, entry, notices
  <2>5. /\ OneMoverEach'
        /\ row'[c].waiting_on = side
        /\ \A e \in Cases : Passes(e)' = Passes(e)
        /\ \A e \in Cases \ {c} : row'[e] = row[e]
    BY <2>1, <2>2, <2>3, <2>4, NoteTurn
  <2>6. row[c].waiting_on = "NONE"
    BY <1>1, <1>3 DEF ReopenCase, IInv, ClosedWaitsForNobody, Row, Waiting
  <2> QED
    BY <2>5, <2>6, ContractOpens
<1> QED
  BY <1>2, <1>3

\* Status, metadata, deadlines.
LEMMA RecordTurn ==
    ASSUME IInv, IInv', OneMoverEach, NEW c \in Cases,
           \/ \E p \in Pages, u \in Users, s \in Statuses : SetCaseStatus(p, u, c, s)
           \/ \E p \in Pages, u \in Users : UpdateCaseMetadata(p, u, c) \/ SetDeadline(p, u, c)
           \/ StatusJudged(c)
    PROVE  OneMoverEach' /\ [Contract!Next]_(Contract!vars)
<1>1. row[c] \in Row
  BY DEF IInv, TypeOK
<1>2. ASSUME NEW fields \in Row, fields.waiting_on = row[c].waiting_on,
             NEW k \in {"STATUS_CHANGED", "METADATA_UPDATED"},
             Write(c, fields, <<Note(k)>>, {})
      PROVE  OneMoverEach' /\ [Contract!Next]_(Contract!vars)
  <2>1. Note(k) \in Entry /\ ~IsHandoff(Note(k)) /\ Still(c, {})
    BY NoteIsTyped, NoHandoff DEF Still
  <2>2. /\ OneMoverEach'
        /\ row'[c].waiting_on = row[c].waiting_on
        /\ \A e \in Cases : Passes(e)' = Passes(e)
        /\ \A e \in Cases \ {c} : row'[e] = row[e]
    BY <1>2, <2>1, NoteTurn
  <2> QED
    BY <2>2, ContractStutters
<1>3. ASSUME NEW s \in Statuses, Write(c, [row[c] EXCEPT !.status = s],
                                       <<Note("STATUS_CHANGED")>>, {})
      PROVE  OneMoverEach' /\ [Contract!Next]_(Contract!vars)
  <2>1. /\ [row[c] EXCEPT !.status = s] \in Row
        /\ [row[c] EXCEPT !.status = s].waiting_on = row[c].waiting_on
    BY <1>1 DEF Row
  <2> QED
    BY <1>2, <1>3, <2>1
<1>4. CASE Write(c, row[c], <<Note("METADATA_UPDATED")>>, {})
  BY <1>1, <1>2, <1>4
<1> QED
  BY <1>3, <1>4 DEF SetCaseStatus, UpdateCaseMetadata, SetDeadline, StatusJudged

LEMMA CorrectTurn ==
    ASSUME IInv, IInv', OneMoverEach, NEW p \in Pages, NEW q \in Pages, NEW u \in Users,
           NEW c \in Cases, NEW t \in Cases, NEW n \in 1..Len(timeline[c]),
           CorrectEntry(p, q, u, c, t, n)
    PROVE  OneMoverEach' /\ [Contract!Next]_(Contract!vars)
<1> DEFINE original == timeline[c][n]
<1> DEFINE copy == Message("CORRECTION", original.side, original.intent)
<1> DEFINE d == To(t, NextEntry(t), Destination(t, original.side),
                   WaitAfter(original.side, original.intent))
<1> DEFINE old == Len(timeline[t])
<1>1. /\ c # t /\ IsOpen(t)
      /\ row' = [e \in Cases |->
              IF e \in {c, t} THEN Appended([row[e] EXCEPT !.version = @ + 1], 1)
              ELSE row[e]]
      /\ timeline' = [timeline EXCEPT ![c] = Append(@, Note("CORRECTION")),
                                      ![t] = Append(@, copy)]
      /\ outbox' = outbox \cup {Notice(c, NextEntry(c), Destination(c, original.side)), d}
  BY DEF CorrectEntry
<1>2. /\ timeline \in [Cases -> Seq(Entry)] /\ row \in [Cases -> Row]
      /\ timeline[c] \in Seq(Entry) /\ timeline[t] \in Seq(Entry)
  BY DEF IInv, TypeOK
<1>3. \A e \in Cases : row'[e].waiting_on = row[e].waiting_on
  BY <1>1, <1>2 DEF Appended, Row
<1>4. /\ timeline'[c] = Append(timeline[c], Note("CORRECTION"))
      /\ timeline'[t] = Append(timeline[t], copy)
      /\ \A e \in Cases \ {c, t} : timeline'[e] = timeline[e]
  BY <1>1, <1>2
<1>5. /\ d.case = t /\ d.entry = old + 1
      /\ d.after = WaitAfter(original.side, original.intent)
  BY DEF To, NextEntry, IInv, Numbered
<1>6. /\ \A e \in Cases \ {t} : Movers(e)' = Movers(e)
      /\ Movers(t)' = IF d.after = "NONE" THEN Movers(t) ELSE Movers(t) \cup {d}
  BY <1>1, <1>5 DEF Movers, Notice, To
<1>7. ~IsHandoff(Note("CORRECTION"))
  BY DEF IsHandoff, Note, Message
<1>8. IsHandoff(copy) <=> original.intent = "HANDOFF"
  BY DEF IsHandoff, Message
<1> HIDE DEF d, copy, original
<1>9. /\ Passes(c)' = Passes(c)
      /\ \A e \in Movers(c)' : e.entry \in Handoffs(c)'
      /\ \A e, f \in Movers(c)' : e.entry = f.entry => e = f
  <2>1. Grows(c) /\ Quiet(c, Len(timeline[c]) + 1)
    BY <1>2, <1>4, <1>7 DEF Grows, Quiet
  <2> QED
    BY <1>1, <1>6, <2>1, QuietCase
<1>10. \A e \in Cases \ {c, t} :
          /\ Passes(e)' = Passes(e)
          /\ \A g \in Movers(e)' : g.entry \in Handoffs(e)'
          /\ \A g, f \in Movers(e)' : g.entry = f.entry => g = f
  BY <1>4, <1>6, IdleCase
<1>11. /\ Grows(t) /\ Len(timeline'[t]) = old + 1
       /\ timeline'[t][old + 1] = copy
  BY <1>2, <1>4 DEF Grows
<1>12. CASE original.intent = "HANDOFF"
  <2>1. d.after \in Sides /\ d.after # "NONE"
    BY <1>5, <1>12 DEF WaitAfter, Opposite, Sides
  <2>2. Quiet(t, (old + 1) + 1)
    BY <1>2, <1>11 DEF Quiet
  <2>3. /\ Passes(t)' = d.after
        /\ \A e \in Movers(t)' : e.entry \in Handoffs(t)'
        /\ \A e, f \in Movers(t)' : e.entry = f.entry => e = f
    <3>1. IsHandoff(timeline'[t][old + 1]) /\ Movers(t)' = Movers(t) \cup {d}
      BY <1>6, <1>8, <1>11, <1>12, <2>1
    <3>2. old + 1 <= Len(timeline'[t])
      BY <1>2, <1>11
    <3> QED
      BY <1>5, <1>11, <2>1, <2>2, <3>1, <3>2, HandingCase
  <2>4. OneMoverEach'
    BY <1>9, <1>10, <2>3, Together
  <2>5. row[t].waiting_on # "NONE"
    BY <1>1 DEF IInv, ClosedWaitsForNobody, IsOpen, Sides
  <2>6. \A e \in Cases \ {t} : Passes(e)' = Passes(e)
    BY <1>9, <1>10
  <2> QED
    BY <1>3, <2>1, <2>3, <2>4, <2>5, <2>6, ContractHandsOff
<1>13. CASE original.intent # "HANDOFF"
  <2>1. Movers(t)' = Movers(t)
    BY <1>5, <1>6, <1>13 DEF WaitAfter
  <2>2. Quiet(t, old + 1)
    BY <1>2, <1>8, <1>11, <1>13 DEF Quiet
  <2>3. /\ Passes(t)' = Passes(t)
        /\ \A e \in Movers(t)' : e.entry \in Handoffs(t)'
        /\ \A e, f \in Movers(t)' : e.entry = f.entry => e = f
    BY <1>11, <2>1, <2>2, QuietCase
  <2> QED
    BY <1>3, <1>9, <1>10, <2>3, Together, ContractStutters
<1> QED
  BY <1>12, <1>13

-----------------------------------------------------------------------------
(* The results of deliveries, and the theorem.                             *)

\* A delivery with a result is gone: the handoff under way has settled if it was
\* the one that carried it, and nothing has happened to the turn otherwise.
LEMMA GoneTurn ==
    ASSUME IInv, OneMoverEach, NEW d \in outbox, d.case \in Cases,
           outbox' = outbox \ {d}, timeline' = timeline,
           \/ \A c \in Cases : row'[c].waiting_on = row[c].waiting_on
           \/ /\ MayApply(d)
              /\ row'[d.case].waiting_on = d.after
              /\ \A c \in Cases \ {d.case} : row'[c].waiting_on = row[c].waiting_on
    PROVE  OneMoverEach' /\ [Contract!Next]_(Contract!vars)
<1> DEFINE c == d.case
<1>1. /\ \A e \in Cases : Movers(e)' = Movers(e) \ {d} /\ Passing(e)' = Passing(e) \ {d}
      /\ \A e \in Cases : Handoffs(e)' = Handoffs(e)
  BY DEF Movers, Passing, LatestHandoff, Handoffs
<1>2. OneMoverEach'
  BY <1>1, Together DEF OneMoverEach
<1>3. ASSUME NEW e \in Cases, d \notin Passing(e)
      PROVE  Passing(e)' = Passing(e) /\ Passes(e)' = Passes(e)
  <2>1. Passing(e)' = Passing(e)
    BY <1>1, <1>3
  <2> QED
    BY <2>1 DEF Passes
<1>4. \A e \in Cases \ {c} : Passing(e)' = Passing(e) /\ Passes(e)' = Passes(e)
  <2>1. \A e \in Cases \ {c} : d \notin Passing(e)
    BY DEF Passing
  <2> QED
    BY <1>3, <2>1
<1>5. MayApply(d) => d \in Passing(c) /\ row[c].waiting_on # "NONE"
  <2> SUFFICES ASSUME MayApply(d) PROVE d \in Passing(c) /\ row[c].waiting_on # "NONE"
    OBVIOUS
  <2>1. d.after # "NONE" /\ IsOpen(c) /\ ~LaterHandoff(c, d.entry)
    BY DEF MayApply
  <2>2. d \in Movers(c) /\ d.entry \in Handoffs(c)
    BY <2>1 DEF Movers, OneMoverEach
  <2>3. Len(timeline[c]) \in Nat
    BY DEF IInv, TypeOK
  <2>4. d.entry \in LatestHandoff(c)
    BY <2>1, <2>2, <2>3 DEF LaterHandoff, LatestHandoff, Handoffs
  <2>5. row[c].waiting_on # "NONE"
    BY <2>1 DEF IInv, ClosedWaitsForNobody, IsOpen, Sides
  <2> QED
    BY <2>1, <2>4, <2>5 DEF Passing
<1>6. CASE d \in Passing(c)
  <2>1. Passing(c) = {d} /\ Passes(c) = d.after
    BY <1>6, PassesIs
  <2>2. Passes(c) # "NONE"
    BY <1>6, <2>1 DEF Passing
  <2>3. Passes(c)' = "NONE"
    BY <1>1, <2>1 DEF Passes
  <2> QED
    BY <1>2, <1>4, <1>5, <2>1, <2>2, <2>3, ContractSettles
<1>7. CASE d \notin Passing(c)
  <2>2. \A e \in Cases : Passes(e)' = Passes(e)
    BY <1>3, <1>4, <1>7
  <2> QED
    BY <1>2, <1>5, <1>7, <2>2, ContractStutters
<1> QED
  BY <1>6, <1>7

\* A placeholder that becomes a push is the same handoff.
LEMMA RestoreTurn ==
    ASSUME IInv, IInv', OneMoverEach, NEW d \in outbox, RestoreDeferred(d)
    PROVE  OneMoverEach' /\ [Contract!Next]_(Contract!vars)
<1> DEFINE r == [d EXCEPT !.mode = "push"]
<1>1. /\ d \in Delivery /\ r.case = d.case /\ r.entry = d.entry /\ r.after = d.after
      /\ outbox' = (outbox \ {d}) \cup {r}
      /\ UNCHANGED <<row, timeline>>
  BY DEF RestoreDeferred, IInv, TypeOK, Delivery
<1> HIDE DEF r
<1>2. \A e \in Cases : Movers(e)' = IF d \in Movers(e) THEN (Movers(e) \ {d}) \cup {r}
                                    ELSE Movers(e)
  BY <1>1 DEF Movers
<1>3. \A e \in Cases : Handoffs(e)' = Handoffs(e) /\ LatestHandoff(e)' = LatestHandoff(e)
  BY <1>1 DEF Handoffs, LatestHandoff
<1>4. OneMoverEach'
  BY <1>1, <1>2, <1>3, Together DEF OneMoverEach
<1>5. ASSUME NEW e \in Cases PROVE Passes(e)' = Passes(e)
  <2>1. CASE d \in Passing(e)
    <3>1. Passing(e) = {d} /\ Passes(e) = d.after
      BY <2>1, PassesIs
    <3>2. Passing(e)' = {r}
      BY <1>1, <1>3, <3>1 DEF Passing
    <3> QED
      BY <1>1, <3>1, <3>2 DEF Passes
  <2>2. CASE d \notin Passing(e)
    <3>1. Passing(e)' = Passing(e)
      BY <1>1, <1>3, <2>2 DEF Passing
    <3> QED
      BY <3>1 DEF Passes
  <2> QED
    BY <2>1, <2>2
<1> QED
  BY <1>1, <1>4, <1>5, ContractStutters

LEMMA ResultTurn ==
    ASSUME IInv, IInv', OneMoverEach, NEW d \in outbox, DeliveryResult(d)
    PROVE  OneMoverEach' /\ [Contract!Next]_(Contract!vars)
<1>1. d.case \in Cases /\ row \in [Cases -> Row] /\ row[d.case] \in Row
  BY DEF IInv, TypeOK, Delivery
<1>2. CASE Arrived(d)
  <2>1. outbox' = outbox \ {d} /\ timeline' = timeline
    BY <1>2 DEF Arrived
  <2>2. \/ row' = row
        \/ /\ MayApply(d)
           /\ row'[d.case].waiting_on = d.after
           /\ \A c \in Cases \ {d.case} : row'[c] = row[c]
    BY <1>1, <1>2 DEF Arrived, Row
  <2> QED
    BY <1>1, <2>1, <2>2, GoneTurn
<1>3. CASE DeliveryFailed(d)
  BY <1>1, <1>3, GoneTurn DEF DeliveryFailed
<1> QED
  BY <1>2, <1>3, RestoreTurn DEF DeliveryResult, DeliverySent, CompleteDeferred

LEMMA StepTurn ==
    ASSUME IInv, IInv', OneMoverEach, [Next]_vars
    PROVE  OneMoverEach' /\ [Contract!Next]_(Contract!vars)
<1>1. ASSUME UNCHANGED <<row, timeline, outbox>>
      PROVE  OneMoverEach' /\ [Contract!Next]_(Contract!vars)
  <2>1. \A c \in Cases : Movers(c)' = Movers(c)
    BY <1>1 DEF Movers
  <2> QED
    BY <1>1, <2>1, IdleCase, Together, ContractStutters
<1>2. ASSUME NEW c \in Cases, NEW p \in Pages, NEW u \in Users, WebCommand(p, u, c)
      PROVE  OneMoverEach' /\ [Contract!Next]_(Contract!vars)
  <2>1. CASE OpenPage(p, u, c)
    BY <1>1, <2>1 DEF OpenPage
  <2>2. CASE \E side \in Sides, intent \in Intents : PostFromWeb(p, u, c, side, intent)
    BY <2>2, MessageTurn
  <2>3. CASE \/ \E v \in Users : TransferConsultant(p, u, c, v)
             \/ \E t \in Teams : TransferDevTeam(p, u, c, t)
    BY <2>3, HandoverTurn
  <2>4. CASE CloseCase(p, u, c) \/ \E side \in Sides : ReopenCase(p, u, c, side)
    BY <2>4, LifecycleTurn
  <2>5. CASE \/ \E s \in Statuses : SetCaseStatus(p, u, c, s)
             \/ UpdateCaseMetadata(p, u, c) \/ SetDeadline(p, u, c)
    BY <2>5, RecordTurn
  <2>6. ASSUME NEW q \in Pages, NEW t \in Cases, NEW n \in 1..Len(timeline[c]),
               CorrectEntry(p, q, u, c, t, n)
        PROVE  OneMoverEach' /\ [Contract!Next]_(Contract!vars)
    BY <2>6, CorrectTurn
  <2> QED
    BY <1>2, <2>1, <2>2, <2>3, <2>4, <2>5, <2>6 DEF WebCommand
<1>3. ASSUME NEW c \in Cases, ChatMessage(c)
      PROVE  OneMoverEach' /\ [Contract!Next]_(Contract!vars)
  BY <1>3, MessageTurn DEF ChatMessage
<1>4. CASE UNCHANGED vars
  BY <1>1, <1>4 DEF vars
<1>5. ASSUME NEW c \in Cases, NEW u \in Users \cup {NoUser}, NEW t \in Teams,
             CreateCase(c, u, t)
      PROVE  OneMoverEach' /\ [Contract!Next]_(Contract!vars)
  BY <1>5, CreateTurn
<1>6. ASSUME NEW c \in Cases, StatusJudged(c)
      PROVE  OneMoverEach' /\ [Contract!Next]_(Contract!vars)
  BY <1>6, RecordTurn
<1> QED
  BY <1>2, <1>3, <1>4, <1>5, <1>6, ResultTurn DEF Next

\* Whose turn it is follows the contract of Turn: however many deliveries of
\* earlier handoffs are under way, and in whatever order they are decided, fail or
\* come back from a passive reply, only the latest handoff passes the turn
\* (_may_apply_delivery_transition).
THEOREM CaseDeskImplementsTurn == Spec => LatestHandoffPasses
<1>1. Init => OneMoverEach /\ Contract!Init
  <2>1. ASSUME Init PROVE Contract!Init
    <3>1. \A c \in Cases : Passing(c) = {} /\ row[c].waiting_on = "NONE"
      BY <2>1 DEF Init, Passing, Absent
    <3> QED
      BY <3>1 DEF Contract!Init, Contract!NoSide
  <2> QED
    BY <2>1, InitOneMover
<1>2. IInv /\ IInv' /\ OneMoverEach /\ [Next]_vars =>
          OneMoverEach' /\ [Contract!Next]_(Contract!vars)
  BY StepTurn
<1> QED
  BY <1>1, <1>2, CaseDeskInvariant, PTL DEF Spec, LatestHandoffPasses, Contract!Spec

=============================================================================
