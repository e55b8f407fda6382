----------------------------- MODULE StatusJobs -----------------------------
(***************************************************************************)
(* The evaluation of an issue's status by the Agent: the job queue of      *)
(* case_desk/service.py (claim, complete and fail_issue_status_update),    *)
(* the worker of agent/status_worker.py that drives it, and the manager    *)
(* who sets the status by hand.                                            *)
(*                                                                         *)
(* Every formal message leaves a job.  A worker claims all the jobs of an  *)
(* issue at once, with a 90 second lease and a snapshot of the issue, asks *)
(* the Agent, and records the answer in a transaction of its own.  By then *)
(* the lease may have passed to another worker, or a manager may have      *)
(* settled the matter and cancelled the jobs.                              *)
(*                                                                         *)
(* Abstractions.  One issue, open throughout: nothing of one issue's jobs  *)
(* depends on another's, and the batch limit only delays a claim.  A       *)
(* claim's tokens (one uuid4 per job) are the claiming worker, which takes *)
(* an issue again only when it is done with it.  Of the clock two facts    *)
(* per job are kept: next_attempt_at has come (due), locked_until is still *)
(* ahead (locked).  The manager's page is up to date, or the command is    *)
(* refused: that check is CaseDesk's.                                      *)
(* A definition named Mutant... is a slip that the one after it avoids.    *)
(***************************************************************************)
EXTENDS Naturals

CONSTANTS
    Workers,       \* the bot-worker processes
    NoWorker,      \* the null lock_token
    Statuses,      \* the values of issue_current_status
    Unanswered,    \* the one a new issue has
    MaxEntries,    \* bound: entries of the issue's timeline
    MaxFailures,   \* bound: calls of the Agent that raise
    MaxLosses,     \* bound: evaluations lost with their worker
    MaxOverruns    \* bound: leases that run out under a waiting worker

ASSUME StatusJobsConstants ==
    /\ NoWorker \notin Workers
    /\ Unanswered \in Statuses
    /\ {MaxEntries, MaxFailures, MaxLosses, MaxOverruns} \subseteq Nat

(***************************************************************************)
(*   last          last_entry_sequence; entry n is timeline entry number n *)
(*   status        issue_current_status                                    *)
(*   job[n]        the job of entry n, if n is a formal message            *)
(*   work[w]       the evaluation w is waiting for: the jobs it claimed,   *)
(*                 and the entries and the status in its snapshot          *)
(*   basis         how much of the timeline whoever last decided on the    *)
(*                 status had before him (history)                         *)
(*   failures, losses, overruns   how often the environment interfered     *)
(***************************************************************************)
VARIABLES last, status, job, work, basis, failures, losses, overruns

bounds == <<failures, losses, overruns>>
vars == <<last, status, job, work, basis, failures, losses, overruns>>

Entries == 1..MaxEntries

Unclaimed == {"NONE", "PENDING", "COMPLETED", "CANCELLED"}
Job == [state : {"PROCESSING"}, due : BOOLEAN, token : Workers, locked : BOOLEAN]
       \cup [state : Unclaimed, due : BOOLEAN, token : {NoWorker}, locked : {FALSE}]
Work == [claims : SUBSET Entries, seen : Nat, from : Statuses]

NoJob == [state |-> "NONE", due |-> TRUE, token |-> NoWorker, locked |-> FALSE]
NoWork == [claims |-> {}, seen |-> 0, from |-> Unanswered]
Busy(w) == work[w].claims # {}

TypeOK ==
    /\ last \in 0..MaxEntries
    /\ status \in Statuses
    /\ job \in [Entries -> Job]
    /\ work \in [Workers -> Work]
    /\ basis \in 0..MaxEntries
    /\ failures \in 0..MaxFailures
    /\ losses \in 0..MaxLosses
    /\ overruns \in 0..MaxOverruns

Init ==
    /\ last = 0
    /\ status = Unanswered
    /\ job = [n \in Entries |-> NoJob]
    /\ work = [w \in Workers |-> NoWork]
    /\ basis = 0
    /\ failures = 0
    /\ losses = 0
    /\ overruns = 0

-----------------------------------------------------------------------------
(* The commands of people.                                                 *)

Active == {n \in Entries : job[n].state \in {"PENDING", "PROCESSING"}}

\* A job that is no longer claimed by anyone.
MutantReleased(n, state) == [job[n] EXCEPT !.state = state]
Released(n, state) ==
    [job[n] EXCEPT !.state = state, !.token = NoWorker, !.locked = FALSE]

Post ==
    /\ last < MaxEntries
    /\ last' = last + 1
    /\ job' = [job EXCEPT ![last + 1].state = "PENDING"]
    /\ UNCHANGED <<status, work, basis, bounds>>

\* The jobs a manual decision cancels.
MutantCancelled == {n \in Active : job[n].state = "PENDING"}
Cancelled == Active

SetStatus(s) ==
    /\ last < MaxEntries
    /\ s # status
    /\ status' = s
    /\ last' = last + 1
    /\ basis' = last + 1
    /\ job' = [n \in Entries |->
            IF n \in Cancelled THEN Released(n, "CANCELLED") ELSE job[n]]
    /\ UNCHANGED <<work, bounds>>

-----------------------------------------------------------------------------
(* The worker.                                                             *)

\* A job a claim may start from; one whose worker disappeared is taken over.
MutantReady(n) == job[n].state = "PENDING" /\ job[n].due
Ready(n) ==
    /\ \/ job[n].state = "PENDING" /\ job[n].due
       \/ job[n].state = "PROCESSING"
    /\ ~job[n].locked

IsHead(n) == \A m \in Active : n <= m

LeaseStands == \E n \in Active : job[n].state = "PROCESSING" /\ job[n].locked

Claim(w) ==
    /\ ~Busy(w)
    /\ \E n \in Active : Ready(n) /\ IsHead(n)
    /\ ~LeaseStands
    /\ job' = [n \in Entries |->
            IF n \in Active
            THEN [job[n] EXCEPT !.state = "PROCESSING", !.token = w, !.locked = TRUE]
            ELSE job[n]]
    /\ work' = [work EXCEPT ![w] = [claims |-> Active, seen |-> last, from |-> status]]
    /\ UNCHANGED <<last, status, basis, bounds>>

\* Every job of the evaluation is still claimed by w.
MutantStanding(w) == TRUE
Standing(w) ==
    \A n \in work[w].claims : job[n].state = "PROCESSING" /\ job[n].token = w

\* The Agent answers s.
Complete(w, s) ==
    /\ Busy(w)
    /\ Standing(w)
    /\ status' = s
    /\ IF s = status
       THEN UNCHANGED last
       ELSE last < MaxEntries /\ last' = last + 1
    /\ basis' = work[w].seen
    /\ job' = [n \in Entries |->
            IF n \in work[w].claims THEN Released(n, "COMPLETED") ELSE job[n]]
    /\ work' = [work EXCEPT ![w] = NoWork]
    /\ UNCHANGED bounds

\* A failed evaluation waits for its next attempt; there is no last one.
MutantRetried(n) == Released(n, "CANCELLED")
Retried(n) == [Released(n, "PENDING") EXCEPT !.due = FALSE]

Fail(w) ==
    /\ failures < MaxFailures
    /\ Busy(w)
    /\ Standing(w)
    /\ failures' = failures + 1
    /\ job' = [n \in Entries |-> IF n \in work[w].claims THEN Retried(n) ELSE job[n]]
    /\ work' = [work EXCEPT ![w] = NoWork]
    /\ UNCHANGED <<last, status, basis, losses, overruns>>

\* The answer, or the failure, finds a claim that is no longer w's.
TooLate(w) ==
    /\ Busy(w)
    /\ ~Standing(w)
    /\ work' = [work EXCEPT ![w] = NoWork]
    /\ UNCHANGED <<last, status, job, basis, bounds>>

\* The process dies, or cannot record the failure: the rows stay leased.
Lose(w) ==
    /\ losses < MaxLosses
    /\ Busy(w)
    /\ losses' = losses + 1
    /\ work' = [work EXCEPT ![w] = NoWork]
    /\ UNCHANGED <<last, status, job, basis, failures, overruns>>

-----------------------------------------------------------------------------
(* The clock.  The jobs of one claim have one lease, and one next attempt. *)

Unlocked(w) ==
    job' = [n \in Entries |->
        IF job[n].token = w THEN [job[n] EXCEPT !.locked = FALSE] ELSE job[n]]

Leased(w) == \E n \in Entries : job[n].token = w /\ job[n].locked

LeaseExpires(w) ==
    /\ Leased(w)
    /\ ~(Busy(w) /\ Standing(w))
    /\ Unlocked(w)
    /\ UNCHANGED <<last, status, work, basis, bounds>>

LeaseOverrun(w) ==
    /\ overruns < MaxOverruns
    /\ Leased(w)
    /\ Busy(w) /\ Standing(w)
    /\ overruns' = overruns + 1
    /\ Unlocked(w)
    /\ UNCHANGED <<last, status, work, basis, failures, losses>>

RetryDue ==
    /\ \E n \in Entries : ~job[n].due
    /\ job' = [n \in Entries |-> [job[n] EXCEPT !.due = TRUE]]
    /\ UNCHANGED <<last, status, work, basis, bounds>>

-----------------------------------------------------------------------------

Answer(w) == (\E s \in Statuses : Complete(w, s)) \/ TooLate(w)

Next ==
    \/ Post
    \/ \E s \in Statuses : SetStatus(s)
    \/ \E w \in Workers :
        \/ Claim(w)
        \/ Answer(w)
        \/ Fail(w)
        \/ Lose(w)
        \/ LeaseExpires(w)
        \/ LeaseOverrun(w)
    \/ RetryDue

(***************************************************************************)
(* The loop goes round every second whatever it raised, and the Agent      *)
(* answers in the end; leases and delays pass.  Failures, losses and       *)
(* overruns are not fair, and are bounded.                                 *)
(***************************************************************************)
Fairness ==
    /\ \A w \in Workers :
        WF_vars(Claim(w)) /\ WF_vars(Answer(w)) /\ WF_vars(LeaseExpires(w))
    /\ WF_vars(RetryDue)

Spec == Init /\ [][Next]_vars /\ Fairness

-----------------------------------------------------------------------------
(* Properties.                                                             *)

\* An evaluation whose claims stand was made from the status the issue has
\* now: nobody, neither another worker nor a manager, has decided on it
\* since the snapshot (claim_pending_issue_status_updates to
\* complete_issue_status_update).
JudgedFromTheTruth ==
    \A w \in Workers : Busy(w) /\ Standing(w) =>
        work[w].from = status /\ basis <= work[w].seen

\* A job that is over, completed or cancelled, stands for a message that
\* whoever decided on the present status had before him: no message is
\* passed over by the evaluations, however often they fail or are lost.
EverythingConsidered ==
    \A n \in Entries :
        job[n].state \in {"COMPLETED", "CANCELLED"} => n <= basis

\* The status never goes back to a decision that knew less: the late answer
\* of a worker that lost its lease, or of one overtaken by a manager's
\* decision, has no effect.
NeverBackwards == [][basis' >= basis]_vars

\* Every job is over in the end: one whose worker died is taken over, and
\* one whose evaluation failed is tried again.
Settles ==
    \A n \in Entries :
        job[n].state = "PENDING" ~> job[n].state \in {"COMPLETED", "CANCELLED"}

=============================================================================
