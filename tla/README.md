# Verification of the message router

The message router (`src/src/kefu`) lets consultants and developers talk about
customers' problems through two kinds of WeCom group chats, a private chat with
a bot, and a web application (H5). A *case* has a timeline, a version number, a
responsible consultant and development team, and a column `waiting_on` that says
whose turn it is. A message is first recorded in the timeline and then
delivered, by another process, to the other side's group.

This directory holds TLA+ models of the parts of the program that decide
whether messages are lost, repeated or applied out of order, the TLC
configurations that check them, and TLAPS proofs.

## 1. Inventory

Two operating system processes share one SQL database: the web application and
the bot worker. Inside the worker, `worker.py:run` starts one asyncio task per
loop: inbound messages, deliveries, standalone messages, draft cleanup, status
evaluation, inspection. The first exception that a loop does not catch cancels
all of them, and the process supervisor starts the worker again.

| Component | State it keeps | Operations | What is hard | What must hold |
|---|---|---|---|---|
| Case desk (`case_desk/service.py`) | cases, issues, timeline entries, deliveries, status jobs | one transaction per command: create, formal message, transfer (consultant, team), close, status, reopen, correct, metadata, deadline, delivery results | commands arrive from stale pages, from chats that carry no version, and from the delivery worker, in any order | the version detects every stale page; the turn passes by the latest handoff alone; a closed case waits for nobody |
| Delivery queue (`case_desk/service.py`, `relay/delivery.py`, `worker.py:_delivery_loop`) | deliveries and their items: status, attempts, `lock_token`, `locked_until`, `next_attempt_at` | claim a batch, send item by item, record success or failure | leases that run out under a slow worker, a crash between sending and recording, sends that raise after they arrived | at least once, in order, decided once, decided in the end |
| Status evaluation (`agent/status_worker.py`, claim/complete/fail in `case_desk/service.py`) | one job per formal message, `issue_current_status` | claim all the jobs of an issue, ask the Agent, record the verdict or the failure | the answer comes after the lease or after a manager's decision | no verdict replaces a better informed decision; every message is judged or overruled |
| Relay and deferred replies (`relay/handler.py`, `wecom/deferred_reply.py`, `worker.py:_inbound_loop`) | inbound receipts, stored callbacks, placeholders | record a message, answer an earlier callback of the other group with it, book the answer | four transactions per message with a swallowed exception between any two; redelivered callbacks | a placeholder is never forgotten; a message acts once; it reaches the other group |
| Routing directory (`routing/directory.py`) | memberships, teams, channels | who is on which side, may see, manage, transfer; bind a channel | three processes bind without locking what they read; addresses are looked up early | a bound team has one active group; permissions follow membership |
| Group intake (`issues/group_intake.py`) | sessions, turns, proposals | converse, propose, confirm, dispatch, revoke | the Agent is called between two transactions; dispatch and completion are two more | one confirmed proposal, one case |
| Intake drafts, private handoffs (`issues/service.py`, `web/app.py`, `media/storage.py`) | drafts, handoffs, stored images and their files | receive, draft, confirm, expire, clean up, delete | the Agent works for minutes on a form that may be submitted twice; confirmation races expiry and the cleanup of two processes; files are outside the transactions | a message becomes one issue at most; no cleanup robs an issue of its images; what has expired is removed |
| Standalone messages (`messages/push.py`), inspection (`inspection/service.py`) | a second outbox; the schedule; `completed_slot` | enqueue by key, claim, send; scheduled and requested summaries | a round is many transactions and may be repeated; the organisation and the schedule change under it | each reachable team told once per slot, in its own group while it has one; every message decided, and no decision reopened |
| WeCom transport (`wecom/transport.py`, `worker.py:run`) | connection, `_displaced`, queue of events | start, authenticate, reconnect, be displaced, normalise a frame, send | a displacement while starting or handling; frames that cannot be decoded | two workers do not contest the connection for ever, and one keeps it; every frame ends |
| Administration (`admin/service.py`, `bootstrap.py`) | users, administrators, teams | set up, create, disable, delete | the loader and a restart write the same rows; files are deleted before the commit | an active administrator remains, unless the loader takes the last one away; nothing that stays loses its images |
| Web application (`web/`), tool endpoints (`tools/http.py`) | sessions | render pages, submit commands | a page is a stale copy of a case | see case desk |
| Agent client, media, formatting, numbering, configuration, migrations | files, counters | HTTP calls, file I/O, text | | |

The web application is one event loop that calls synchronous services: a handler
can be overtaken by another where it awaits (a body, an upload, the Agent), and
nowhere else. The worker runs its services in threads and comes between any two
transactions of the web application.

Interaction. The inbound loop and the web application issue case desk commands;
a command appends entries, creates deliveries and status jobs. The delivery loop
claims deliveries and reports each item back to the case desk, which then moves
`waiting_on`. The inbound loop may turn the delivery it has just created into
a *placeholder* (SENT already, marked `deferred_passive_reply_pending`) and send
its content as the passive reply to an earlier callback of the other group. The
status loop works on the jobs the same commands left. A private message becomes a
handoff; the web application turns it into a draft and, on confirmation, into a
case by the same case desk command. The inspection loop puts messages into the
standalone outbox, under the groups the administration has bound. All senders
share the one long connection of the worker.

The full list of hazards, each with its line and the properties that cover it,
is in `PROJECT.json`.

## 2. Modules

| Module | Models | Size of the instance |
|---|---|---|
| `Outbox` | abstract: what the delivery queue promises | |
| `DeliveryQueue` | the queue, its workers and its leases; implements `Outbox` | `MCDeliveryQueue` |
| `DeliveryQueueProofs` | theorems about it | |
| `Turn` | abstract: how the turn may pass | |
| `CaseDesk` | every command on a case, delivery results included; implements `Turn` | `MCCaseDesk`, `MCCaseDeskTwo` |
| `CaseDeskProofs` | theorems about it | |
| `StatusJobs` | the job queue of the status evaluation | `MCStatusJobs` |
| `StatusJobsProofs` | theorems about it | |
| `DeferredReply` | the inbound loop for a group's messages, placeholders, recovery | `MCDeferredReply` |
| `DeferredReplyProofs` | theorems about it | |
| `GroupIntake` | the conversation in a consult group that ends in an issue, and its cleanup | `MCGroupIntake` |
| `GroupIntakeProofs` | theorems about it | |
| `IntakeDraft` | private messages and forms, drafts, issues, their images, cleanup and deletion | `MCIntakeDraft` |
| `IntakeDraftProofs` | theorems about it | |
| `Organisation` | users, administrators, teams, memberships, bound groups | (in `Inspection`) |
| `Inspection` | summaries for the teams; extends `Organisation` | `MCInspection` |
| `InspectionProofs` | theorems about both | |
| `BotWorker` | worker process, long connection, frames, standalone messages; implements `Outbox` | `MCBotWorker` |
| `BotWorkerProofs` | theorems about it | |

A definition named `Mutant...` stands before the definition it is a slip of. No
specification uses it; it documents what the properties would notice.

### DeliveryQueue and Outbox

`status[d]`, `attempts[d]`, `token[d]` (the worker that claimed the bundle),
`locked[d]` (`locked_until` is ahead) and `due[d]` (`next_attempt_at` has come)
are a row of `deliveries`; `itemSent[d]` and `itemFailed[d]` are the positions of
its items with that status, and `arrived[d]` is what the group has seen. A
worker `w` holds the items it still has to send (`todo[w][d]`), the bundle in hand
(`cur[w]`) and what it is about to record (`pc[w]`): `Claim` is `claim_pending_deliveries`, `Send` the platform call,
`RecordSuccess`/`RecordFailure` the result commands, `RecordRefused` their
`Conflict`, which nothing catches, so the process stops. `Crash` may happen
between any two of these. A send that fails may have arrived or not.

`Outbox` keeps what a case sees: the outcome of a bundle and what has arrived.
It allows repetitions, and arrivals after a bundle was given up, because the
code allows them; it does not allow a gap, SENT without arrival, or a second
decision.

### CaseDesk and Turn

One action per command of `case_desk/service.py`; each is a whole transaction.
The row keeps `version`, `last_entry_sequence`, `status`, `waiting_on`, the
consultant and the team. A `page` is what the browser of a user was served: the
case, its version, and the row as it was then (the copy is history: the
code sends only the version back). `PostFromWeb`, the transfers, `CloseCase` and
the others carry the page's version and are refused on a stale one; chat
messages, delivery results and the agent's judgement carry none and are
accepted at any version. A command the code refuses is no step. A delivery keeps
the entry it belongs to, its destination, and `after`, the
`waiting_on` it sets when it succeeds.

`Turn` says how `waiting_on` may move: opened by whoever opens, handed off,
settled by the latest handoff alone or lost, closed. `Contract` is the instance
with `passing[c]` read off the pending deliveries of the last handoff entry.

Left out: a second queue, unbound channels (a delivery is then not created),
administrators of development teams and global administrators (their rights are
unions of those modelled), inactive users, the idempotent answer to a repeated
`source_msgid` (it is in `DeferredReply`), and the listing operations. The
window `timeline[-50:]` of a page limits what is displayed and does not matter here.

### StatusJobs

One issue: nothing of the jobs of one issue depends on another's. A worker's
`work` is its claim (which jobs), the number of entries and the status in the
snapshot it was given. `basis` is history: how much of the timeline the last
decision had before it. `Lose` is a crash or an exception that leaves the jobs
PROCESSING.

### DeferredReply

One case with both groups bound. `loop.at` walks the transactions of
one message: `Receive` (the callback, and whether an earlier callback of the
other group suppresses the push), `Handle` (the case desk's transaction),
`Remember` (the receipt), `Save` and `Take` (the callback store), `Reply`,
`Finish` or `Restore` (the placeholder), `Acknowledge`. Every one of these that
the code wraps in `except Exception` has a companion that fails and goes on.
`Crash` may come anywhere, `Start` runs `recover_deferred_deliveries`. The
delivery worker is reduced to `Push`, which is what `DeliveryQueue` promises.
There is one worker, as `USER_GUIDE.md:204` demands. Callbacks may expire and claims
lapse at any time, in place of the 300 s and 60 s of the code.

### GroupIntake

One session. The loop's `at` walks the transactions of one turn: `Open` or
`FollowUp` (the turn is reserved), `Context` (what `_process_turn` reads and
decides), `AgentDrafts`, `Save` (proposal and reply), or `Propose`, `Begin`,
`Create`, `Mark` and the reply (the dispatch), `Recover` where the dispatch
raised, `Recover` and `Context` again where a turn changes a proposal whose dispatch was
cut short. `Fault` is a transaction that raises, wherever the code does
with it what it does: back to the inbound loop, to `Recover`, or an apology.
`Create` may also raise after it committed. `CleanFile` and `CleanRows` are one
transaction of the cleanup loop, in two steps because a deleted file does
not come back. Fields are reduced to the turns the Agent had before it and
whether all that is mandatory is there.
Left out: the wording, the order of text and images, author snapshots, the
ingestion of the first message's images, and follow-ups of other sessions.

### IntakeDraft

`handoff[m]`, `draft[d]` and `issue[d]` are the rows of a private message, a
draft and the case created from it, each with the images it refers to; `rows` and
`files` are `stored_media` and the object store. `old` says that `expires_at` has
come. `web` is the handler that holds the event loop of the web process between
two transactions (`CreateDraft` to `InsertDraft`; `ConfirmRead`, `CreateCase`,
`MarkConfirmed`; `StartDeletion`, `CommitDeletion`); a request in `req` that waits
for the Agent does not hold it. `sweep[p]` is `cleanup_expired_drafts` in process
`p`: the selects, then the deletes and the commit, which a foreign key may refuse,
then the files. `DeletionFails` is `delete_closed_issue` or `delete_team` rolled
back after some of its files have gone; `spoilt` is history and records that.
Left out: the fields and their validation, who may see a draft (there is one
member), images of group sessions (in `GroupIntake`), deliveries of a deleted
issue, and orphan files that no row knows.

### Organisation and Inspection

An operation of the administration is one step, since the web process answers
one request at a time between two awaits; `POST /setup`, which awaits its body
after it has looked for an administrator, is `CheckSetup` and `FinishSetup`. A
binding is `BindRead` and `BindCommit` in each of three processes: rows are read
without locks and only what changed is written, as SQLAlchemy does
(`Bound`); `torn` is history: the teams whose last binding overlapped another of
the same team. `RestartWeb` promotes the configured administrator again. The loader
is `LoadUser`, `LoadTeam` and `LoadMembership`, one row of its file each (the code commits
the file at once), and `BindRead` and `BindCommit` for its groups: a user's activity and
rights, a team's activity and a member's role become what the file says. `loads` is
history: how often the loader wrote a user.

`round["loop"]` and `round["web"]` are the rounds of the worker's loop and of a
request: `Look` and `InspectScheduled` read the schedule twice, `Resolve` looks up
the group of one team, `Enqueue` queues its message under its key. `RoundFails` and
`CrashWorker` may come between any two. `steady` is history: the teams that
could be reached since the minute began.
Left out: what a summary says, the rules that select a team's issues, names.
Every effective team is told, also when it has no open issue.

### BotWorker

`proc[w]` is the process under its supervisor (`restart: on-failure`), `conn[w]` and
`served` the two ends of the connection, `notice` the displacement event on its
way. `Leave` is `close()` and the end of the process, `Stop` the normal exit of a
displaced worker, which comes only when the inbound loop asks for the next
frame. `frame[f]` is where a callback is: normalised in a task of its own,
queued, handled, lost with its worker. `Claim`, `Send`, `Compare` and `Write` are
`MessagePushWorker.deliver_pending`; the token of a message is the number of the attempt.
`_succeeded` and `_failed` read the row without locking it: `Compare` reads and compares
the token, `Write` is the commit, which changes the columns the code assigns, whatever
the row has become. `contested` is history: the messages another worker claimed between
the two. `Promise` is the instance of `Outbox` in which a message is a bundle of one
item; a contested message counts as undecided there.
Left out: what frames say, and everything the handlers do with them.


## 3. Runs

All runs set `CHECK_DEADLOCK FALSE`: the loops poll for ever when there is
nothing to do, which the models leave out, and within the bounds a state without
further work is a normal end.

| Run | States | Shows |
|---|---|---|
| `delivery_queue` | 362 711 | The queue implements `Outbox` (`KeepsPromise`, with liveness): in order, no gap, decided once and always. A failed bundle stopped at exactly one item (`FailedAtTheGap`). A worker whose lease stands repeats nothing that is recorded (`HolderResendsNothing`). |
| `case_desk` | 464 245 | Under every command from a page, from the groups and from the private chat, and delivery results in any order: no accepted page is stale (`NobodyMisled`), the turn moves as `Turn` says (`LatestHandoffPasses`), a closed case waits for nobody. |
| `case_desk_two` | 58 504 | The turn of two cases under two pages, for a correction that moves a message from one case to the other and checks both versions (`LatestHandoffPasses`). |
| `status_jobs` | 19 227 | A standing claim was made from the present status (`JudgedFromTheTruth`); no decision is replaced by one that saw less (`NeverBackwards`); no message is dropped unjudged (`EverythingConsidered`); in the end all are settled (`Settles`). |
| `deferred_reply` | 61 087 | A placeholder is always in somebody's hands (`InHand`); a callback delivered twice acts once (`ActsOnce`); every recorded message reaches the other group unless a swallowed exception stranded it before the last start (`Reaches`). |
| `group_intake` | 316 075 | A session yields one issue at most (`OneIssue`); its state tells whether it exists (`StateTellsTruth`); the issue says what its conversation said (`IssueSaysAll`); nobody is told that nothing was dispatched when it was (`NeverDenied`); every session is removed in the end (`CleanedUp`). |
| `intake_draft` | 679 623 | A private message is one issue at most at a time, however often its link is submitted (`OneIssuePerMessage`); no cleanup, and no deletion of something else, takes an image from an issue (`IssueKeepsImages`); a confirmed draft leads to its issue (`ConfirmedLeadsToIssue`); what has expired is removed, whatever is refused or crashes (`ExpiredGoes`). |
| `inspection` | 366 040 | Only the loader takes the last active administrator away (`LastAdminStays`); a team has exactly one active group unless its last binding overlapped another (`OneGroup`); every team that stays reachable is told exactly once when a slot is completed (`ToldOnce`); a summary is addressed to a group of its own team as long as the team exists, however groups are rebound (`OwnGroup`); every slot is completed unless its minute ends first (`Served`). |
| `bot_worker` | 142 068 | Workers that displace each other settle on one connection (`ConnectionSettles`); a frame is handled or lost with its worker, never forgotten (`FrameEnds`); the standalone messages implement `Outbox`, contested ones excepted, and all are decided once a worker runs (`KeepsPromise`); a decided message is never tried again, and SENT only if it arrived, even if late results are written over the decision (`DecisionStands`). |
| `group_intake_image` | violation | see findings |
| `case_desk_transferred` | violation | see findings |
| `deferred_reply_second_push` | violation | see findings |

### Bounds

- `delivery_queue`: two workers, a bundle of two items and one of one, a batch of
  two, three attempts as in the code, one crash, two overrun leases. Two items are
  enough for a gap, two overruns let each worker lose a lease to the other and come back.
- `case_desk`: four entries, three pending deliveries, two teams, one page. Four
  entries allow create, handoff, close, reopen, and a late delivery of the first;
  three pending deliveries are what one group message creates at most plus an older one.
- `case_desk_two`: two entries per case; symmetric in cases and in pages (the
  properties of this run are safety).
- `status_jobs`: two workers, four entries, two values of the status, one
  failing call, one lost evaluation, two overruns.
- `deferred_reply`: three callbacks (one from each side that quotes the case, the
  developers' with an image, and a developer's without a quote), one crash, one redelivery, one fault.

- `group_intake`: three messages (the first one, a bare confirmation, a
  confirmation with text), an image or none, and one each of crash, failing
  transaction, failing call of the Agent, rebound channel, repeated callback.
  Three turns are enough for a failure, a confirmation and a second one.

- `intake_draft`: one private message, two requests (each with the message or a
  pasted text), two ids of drafts, two images, one fault, one repeated callback. Two requests are
  enough for two submissions of one link, and for an issue that shares an image
  with a handoff that is cleaned up.
- `inspection`: a queue and a development team, three groups, two users, two
  changes of the organisation, two minutes, one crash, failure or request; a
  fresh instance and a configured one. Two changes let two bindings overlap,
  three groups let a team move to a free one.
- `bot_worker`: two workers, one frame that cannot be decoded, one message, the
  three retries shortened to two, two faults. Two faults let a lease run out under a
  worker that is sending, and a send or a worker fail besides: each of SENT and FAILED
  is then written over the other. With two messages and no frame, and with two frames
  and one fault, the same properties hold (673 454 and 231 810 states).

Environment bounds (`MaxCrashes`, `MaxOverruns`, `MaxLosses`, `MaxFailures`,
`MaxFaults`, `MaxRepeats`, `MaxRebinds`) only limit how often the environment interferes. They
are not fair: it need not interfere at all.

### Fairness

Weak fairness is assumed of what the code repeats for ever: a worker's next step
(`worker.py` runs its loops in `while True`, the supervisor restarts the
process: `Start`), the passing of time (`LeaseExpires`, `RetryDue`), and the
push of a pending delivery (which `delivery_queue` establishes). `IntakeDraft`
assumes it of the worker's cleanup loop alone, `Inspection` of the inspection loop
and the restart of the worker. `BotWorker` assumes it of a restart after failure
(not of the first start), of authentication (the SDK reconnects for ever), of the
delivery of a displacement notice, and of handlers, sends and normalisation, each
of which is bounded by a timeout of the SDK or of HTTP. Nothing is
assumed of crashes, failures, the platform, people, or a lease that runs out
under a worker. `CaseDesk` has safety properties only and states no fairness.

## 4. Proofs

The eight modules `...Proofs` state the safety properties of the runs, and three
others, as theorems. They hold for every number of workers, bundles, items,
cases, messages, forms, images, frames, users, teams, groups, pages, minutes and
every value of the bounds, under the named assumption on the constants in each
model:

| Assumption | What it asks |
|---|---|
| `DeliveryQueueConstants`, `CaseDeskConstants`, `StatusJobsConstants` | sentinels are distinct from what they stand in for, numbers are natural, a bundle has an item, there is at least one attempt, members are users, the queue is no team |
| `DeferredReplyConstants` | a group is of one of two sides |
| `GroupIntakeConstants` | the first message has text, and every message has text or confirms |
| `IntakeDraftConstants` | the workbench is no message, numbers are natural |
| `OrganisationConstants`, `InspectionConstants` | the users are finitely many and some, there is a group for each team, there is a minute |
| `BotWorkerConstants` | a frame that cannot be decoded is a frame, the workers are finitely many |

Each proof has the same shape: an inductive invariant `IInv` that TLC has checked
on the instance of the run, a lemma per action that shows that it is kept, and
theorems that read the properties off it.

*Delivery queue.* `FailedAtTheGap` and `HolderResendsNothing` are not
inductive: whether a result command leaves them true depends on which items the
worker has in hand. `IInv` adds: the rows of a bundle agree with each other
(`RowsAgree`: SENT exactly when all its items are recorded as sent; unless it is
FAILED, no item failed and attempts are left; a FAILED one has no token), what is recorded arrived (`RecordsArrived`), a worker's list is the
tail of the bundle from the first unrecorded item (`ListIsTail`), and a result
about to be recorded as a success arrived (`AcceptedArrived`). Each
action is shown to preserve each conjunct; `QueueInvariant` is the result and
`TypeCorrect`, `FailureIsAtTheGap`, `NothingIsResent` follow.
`QueueImplementsOutbox` shows from the same invariant that every step is a step
of `Outbox` or a stutter (the safety part; its fairness is checked by TLC).

*Case desk.* `NobodyMisled` says that the page behind an accepted version is
the present row. Inductive only together with the fact that a version names one
state of the row (`PageAgrees`: a page is no newer than its case, and equal versions mean
equal rows), which rests on every action that changes the row counting the
version. `IInv` is that with `RowsSound` (the row of a case that does not exist is
`Absent`, one that exists has a team), `Numbered` (the last entry has the number
`last_entry_sequence`) and `ClosedWaitsForNobody`.
`CaseDeskImplementsTurn` is the refinement. The variable `passing[c]` of `Turn` is
read off the pending deliveries of the last handoff, so that the mapping makes
sense only if there is at most one of them that moves the turn: `OneMoverEach`,
which holds because a message that is no handoff, and the notice to the
consultant, carry no transition. It is inductive with `IInv`. The step that records a
delivery result then splits on whether its entry is still the last handoff.

*Status evaluation.* `JudgedFromTheTruth` and `EverythingConsidered` are
inductive only with `OneClaimant`: a claim takes all jobs of the issue that are
not done, those of a lapsed claim too, so that the jobs being processed carry
one token and at most one evaluation stands, the latest (`OneStands`). `Bounded`
adds that a claim's jobs are of entries in its snapshot, and that nothing is
decided on entries that are not there. A verdict is then recorded by the
evaluation that stands, which saw at least what the last decision had before it:
`NeverBackwards`.

*Deferred replies.* `InHand` does not say at which step the loop has a
placeholder in hand, so that it does not exclude that the loop drops one on its way to
a step that books nothing. `Holder` names the steps (`InWork`): a repeated
callback never has one in hand, and whoever ends without a booking has left it
stranded. `ActsOnce` rests on the order of the transactions (`AInv`): a decision is
remembered before the callback is kept and before it can be replied to
(`BeforeReply`), and a message whose decision is remembered goes no further than
`Handle`; so the message in hand has no row in the store and no reply yet. That it is
pushed once is a different argument: PUSHED is final (`Pushes`).

*Group intake.* None of the properties is inductive, since each speaks of the
session or of the issue and the loop is between them for several transactions.
`Dispatched` says for each step of the loop what has been dispatched when it is
there; `Marked` that issues of a session carry its marker, which is why a second
`Create` finds the first; `Turns` that the turn in hand is the last one and has no
answer; `Heard` which turns the fields have at each step, from where the Agent read
them to the dispatch; `NoFailureSince` that no turn since the one that began a
dispatch was answered with a failure, whose text the issue would have to say too.
`Lifetime` separates a session that expired. `NeverDeniesTheIssue` is an action
property: it needs from the same invariant that what the loop is about to answer
(`loop.reply`) fits what has been dispatched.

*Intake drafts.* The heart is that an image belongs to one message, one draft, or a
draft and the message it comes from (`Apart`), which ids that are never given away
twice (`Taken`) keep true. The handler of the web process and the two cleanups
carry images they read earlier: `Carried`, `Submitting`, `Confirming`, `Deleting`
and `Cleaning` say what of that is still true when they use it. `FilesBehindRows`
connects rows and files: a cleanup deletes the files only of rows it has deleted.
`IssueKeepsImages` follows as the foreign keys refuse a cleanup whose images
an issue has got since, and because the images of a deletion are nobody
else's. `OneIssuePerMessage` follows from `OneDraftPerMessage`: a message is
consumed in the transaction that inserts its draft. `RequestCleanupCommits` says
that one of the refusals in the model cannot happen: nothing that would refer to
what it deletes comes between the reads and the deletes of the cleanup at the
beginning of a request.

*Workers.* The bound on `attempts` in `TypeOK` is the interesting part of the types: a
claim counts an attempt before it is made, so that a message may be tried more
often than its retries say, and a result that is written late frees the claim of
another worker, which may be its last. `Counted` accounts for every attempt beyond the
retries, by a fault or by a worker that ended with the message in hand (`Slack`). The
faults by which leases ran out are set aside (`Room`) for the workers that can still
free another's claim, or be overtaken before they write (`Lates`); a message that
nobody holds by a claim that stands (`Left`) has one attempt less to its account. That a
worker writes at most once for what was set aside rests on `Sole`, no two workers have a
message by the same claim, and on the cardinalities of sets of workers (`Sizes`).
`Current` says that the row of an uncontested message is still the one its worker
compared: a claim in between is the only thing that could have changed it.
`Honest` says that a result about to be recorded as accepted arrived.
`WorkersImplementOutbox` shows that every step is a step of `Outbox` or a stutter
(the safety conjunct of `KeepsPromise`), and `DecisionsStand` that no write reopens a
decision: it says SENT, FAILED, or leaves the status as it is, and never counts an
attempt.

*Organisation and inspection.* `LastAdminStays` is a property of steps: every command
but the loader's is given by an active administrator or makes one, and the guard of
`UpdateUser` leaves another (`AnotherAdmin`, a fact about cardinality). `OneGroup` needs what a binding under
way has read (`BindingsSound`): as long as its team is there, the rows it read are
the team's, and if no other binding of the team began since, they are exactly the
active ones, so that the commit leaves its own group alone. The
instance allows two changes; the proof covers a third binding that mends what two
overlapping ones left. `OwnGroup` needs that an address looked up
and not yet queued belongs to its team too (`Addressed`), and that no
step gives a group of a team that exists to another (`OwnedStays`). Of a deleted team
it says nothing, as the code does not hold back what is queued for it.
`ToldOnce` has an invariant of its own, `Told`: messages of the schedule have
different keys (`Keyed`), which bounds them by one however often a round is
repeated; and while the loop is at a minute, every team that could be reached since it
began is still to come or is queued (`Underway`), because a team is left out of
a round only when it cannot be reached at that moment. The minute the
loop is at is not the completed one (`AtMinute`), so that nothing is
claimed of a round that a crash or a failure interrupts.

*Only model-checked.* Liveness, for the prover has no fairness and no ENABLED:
`Settles`, `Reaches`, `CleanedUp`, `ExpiredGoes`, `Served`, `ConnectionSettles`,
`FrameEnds`, and the liveness part of `KeepsPromise` in both implementations of
`Outbox`. All other properties of the passing runs are theorems. The properties of the
runs that find a violation are refuted and so not stated. No proof rests on an
induction over data: a row leaves the store of `DeferredReply` by its position,
not by a filter of the sequence, and no module declares a RECURSIVE operator.

## 5. Findings

- After a transfer to another team, messages still queued are pushed to the old
  team's group (`case_desk_transferred`; `case_desk/service.py:1639`, against
  `IMPLEMENTATION_BASELINE.md:70`).
- An image can be lost when its session expires during the dispatch
  (`group_intake_image`; `issues/group_intake.py:849`, against its docstring at
  line 122).
- A passive reply that was sent but could not be booked is pushed again after
  the next start (`deferred_reply_second_push`; `worker.py:645`, against the
  comment at `worker.py:649`).

Noted while modelling, without a run of their own:

- The loader deactivates or degrades the last active administrator without looking
  for another (`bootstrap.py:72`, against `USER_GUIDE.md:174`); `/setup` stays closed
  then, as an administrator is still there. `LastAdminStays` excepts its steps, and
  `AdminRemains` as an invariant of `MCInspection` shows it.
- A handoff delivery left over from before a case was closed moves the turn over
  the side chosen on reopening (`case_desk/service.py:2421`, against
  `PRODUCT_FUNCTION_DESCRIPTION.md:261`). `Turn` says what the code does.
- The images of a draft that is still valid can be removed with its handoff, when
  that expires while `create_intake_draft` is under way (`issues/service.py:115`,
  against `IMPLEMENTATION_PLAN.md:59`).
- `delete_closed_issue` is called atomic, but its files go before its commit
  (`admin/service.py:882`); `IssueKeepsImages` excepts issues such a failure has
  touched.
- Two overlapping bindings of a team leave it with two active groups, and two
  overlapping changes back with none (`routing/directory.py:319` locks nothing, against the
  "unique" group of `CONTEXT.md:20`). Routing then fails closed until the next binding;
  `OneGroup` says where this ends.
- A summary that is queued when its team is deleted still goes to the team's group,
  which another team may have bound since (`admin/service.py:661`). `OwnGroup` excepts
  the messages of deleted teams, and only those.
- A standalone message that one worker recorded as SENT can be overwritten as FAILED by
  another, whose lease ran out between its comparison of the token and its write, and
  the other way round (`messages/push.py:171`). `contested` names these messages.
- `README.md:21` says that a development team without open issues gets no
  message; `_send_summary` sends one to every effective team.

## 6. Not modelled

SQL isolation below whole transactions, except where a transaction reads without a
lock what it then writes and another process may come between (bindings, results of
standalone messages): otherwise a command is atomic, its row locks are
taken to work as in PostgreSQL (SQLite ignores `FOR UPDATE`, and serialises
writers instead), and the deadlock between `_locked_delivery_context` and
`_correct_entry` is only listed as a hazard. Text, formatting, HTML, the Agent's
prompts, HTTP, file storage, logging, configuration and migrations are not
modelled; the Agent and the platform are environments that answer anything, late
or never. Components marked `not_modelled` in `PROJECT.json` are either of that
kind or in the plan below.

## 7. Plan

Order of the work, most important behaviour first. Steps 1 to 8 are done.

1. `Outbox`, `DeliveryQueue`, its proofs.
2. `Turn`, `CaseDesk`, its proofs.
3. `StatusJobs`.
4. `DeferredReply`.
5. `GroupIntake`.
6. `IntakeDraft`.
7. `Organisation`, `Inspection`.
8. `BotWorker`.
9. Row locks of `_locked_delivery_context`, `_correct_entry` and the status jobs,
   for the deadlock.
10. Composition of `DeliveryQueue` with the deletion of issues.

Proofs to come: what the hazards without a property ask for, once steps 9 and 10 model
it; and the step properties on which the liveness arguments rest (a measure
that every fair step of `IntakeDraft`'s cleanup and of the inspection loop reduces).
