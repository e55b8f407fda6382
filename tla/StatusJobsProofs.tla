-------------------------- MODULE StatusJobsProofs --------------------------
(***************************************************************************)
(* The judgements of the Agent are never older than the decisions they     *)
(* replace, and pass over no message, for any number of workers, entries,  *)
(* statuses, failures, losses and overruns.                                *)
(***************************************************************************)
EXTENDS StatusJobs, TLAPS

\* A job belongs to an entry there is, a claim to the entries of its snapshot.
Bounded ==
    /\ basis <= last
    /\ \A n \in Entries : n > last => job[n].state = "NONE"
    /\ \A w \in Workers :
          /\ work[w].seen <= last
          /\ \A n \in work[w].claims : n <= work[w].seen

\* A claim takes all the jobs there are, so that those being processed have one
\* token, the one of the last claim.
OneClaimant ==
    \A m, n \in Entries :
        job[m].state = "PROCESSING" /\ job[n].state = "PROCESSING" =>
            job[m].token = job[n].token

IInv ==
    /\ TypeOK
    /\ Bounded
    /\ OneClaimant
    /\ JudgedFromTheTruth
    /\ EverythingConsidered

-----------------------------------------------------------------------------
(* The rows.                                                               *)

LEMMA NoJobIsTyped == NoJob \in Job
BY DEF NoJob, Job, Unclaimed

LEMMA NoWorkIsTyped == NoWork \in Work
BY StatusJobsConstants DEF NoWork, Work

LEMMA InitIInv == Init => IInv
<1> SUFFICES ASSUME Init PROVE IInv
  OBVIOUS
<1>1. TypeOK
  BY NoJobIsTyped, NoWorkIsTyped, StatusJobsConstants DEF Init, TypeOK
<1>2. Bounded
  BY StatusJobsConstants DEF Init, Bounded, NoJob, NoWork
<1>3. OneClaimant /\ EverythingConsidered
  BY DEF Init, OneClaimant, EverythingConsidered, NoJob
<1>4. JudgedFromTheTruth
  BY DEF Init, JudgedFromTheTruth, Busy, NoWork
<1> QED
  BY <1>1, <1>2, <1>3, <1>4 DEF IInv

LEMMA RowIsTyped ==
    ASSUME TypeOK, NEW n \in Entries
    PROVE  /\ job[n] \in Job
           /\ job[n].state \in Unclaimed \cup {"PROCESSING"}
           /\ job[n].due \in BOOLEAN /\ job[n].locked \in BOOLEAN
           /\ job[n].state = "PROCESSING" => job[n].token \in Workers
           /\ job[n].state # "PROCESSING" => job[n].token = NoWorker /\ ~job[n].locked
BY DEF TypeOK, Job, Unclaimed

LEMMA ReleasedIsTyped ==
    ASSUME TypeOK, NEW n \in Entries, NEW state \in Unclaimed
    PROVE  /\ Released(n, state) \in Job
           /\ Released(n, state).state = state
<1>1. job[n] \in Job /\ job[n].due \in BOOLEAN
  BY RowIsTyped
<1> QED
  BY <1>1 DEF Released, Job, Unclaimed

LEMMA WorkIsTyped ==
    ASSUME TypeOK, NEW w \in Workers
    PROVE  /\ work[w] \in Work /\ work[w].claims \subseteq Entries
           /\ work[w].seen \in Nat /\ work[w].from \in Statuses
BY DEF TypeOK, Work

\* Two evaluations do not stand at the same time.
LEMMA OneStands ==
    ASSUME IInv, NEW v \in Workers, NEW w \in Workers,
           Busy(v), Standing(v), Busy(w), Standing(w)
    PROVE  v = w
<1>1. PICK m \in work[v].claims : TRUE
  BY DEF Busy
<1>2. PICK n \in work[w].claims : TRUE
  BY DEF Busy
<1>3. m \in Entries /\ n \in Entries
  BY <1>1, <1>2, WorkIsTyped DEF IInv
<1>4. /\ job[m].state = "PROCESSING" /\ job[m].token = v
      /\ job[n].state = "PROCESSING" /\ job[n].token = w
  BY <1>1, <1>2 DEF Standing
<1> QED
  BY <1>3, <1>4 DEF IInv, OneClaimant

\* A step that leaves the decision and the other evaluations alone, and gives
\* no job to a worker, keeps what stands true.
LEMMA StandingStays ==
    ASSUME IInv, NEW v \in Workers, work'[v] = work[v],
           status' = status, basis' = basis,
           \A n \in Entries : n <= last /\ job'[n].state = "PROCESSING" =>
                   job[n].state = "PROCESSING" /\ job'[n].token = job[n].token,
           Busy(v)', Standing(v)'
    PROVE  work[v].from = status /\ basis <= work[v].seen
<1>1. \A n \in work[v].claims : n \in Entries /\ n <= last
  <2>1. \A n \in work[v].claims : n \in Entries /\ n <= work[v].seen
    BY WorkIsTyped DEF IInv, Bounded
  <2>2. work[v].seen <= last /\ work[v].seen \in Nat /\ last \in Nat
    BY WorkIsTyped DEF IInv, Bounded, TypeOK
  <2> QED
    BY <2>1, <2>2 DEF Entries
<1>2. Busy(v) /\ Standing(v)
  BY <1>1 DEF Busy, Standing
<1> QED
  BY <1>2 DEF IInv, JudgedFromTheTruth

-----------------------------------------------------------------------------
(* The commands of people.                                                 *)

LEMMA PostKeeps == ASSUME IInv, Post PROVE IInv'
<1> DEFINE k == last + 1
<1>1. k \in Entries /\ job[k].state = "NONE" /\ last' = k /\ last \in Nat
  BY StatusJobsConstants DEF IInv, TypeOK, Bounded, Post, Entries
<1>2. UNCHANGED <<status, work, basis, failures, losses, overruns>>
  BY DEF Post, bounds
<1>3. job'[k] \in Job /\ job'[k].state = "PENDING"
  <2>1. job[k].token = NoWorker /\ ~job[k].locked /\ job[k].due \in BOOLEAN
    BY <1>1, RowIsTyped DEF IInv
  <2>2. job'[k] = [job[k] EXCEPT !.state = "PENDING"]
    BY <1>1 DEF Post, IInv, TypeOK
  <2>3. job[k] \in [state : Unclaimed, due : BOOLEAN, token : {NoWorker}, locked : {FALSE}]
    BY <1>1, <2>1, RowIsTyped DEF IInv, Job
  <2> QED
    BY <2>2, <2>3 DEF Job, Unclaimed
<1>4. \A n \in Entries \ {k} : job'[n] = job[n]
  BY DEF Post, IInv, TypeOK
<1>5. TypeOK'
  <2>1. job' \in [Entries -> Job]
    BY <1>1, <1>3, <1>4 DEF Post, IInv, TypeOK
  <2>2. last' \in 0..MaxEntries
    BY <1>1, StatusJobsConstants DEF Entries
  <2> QED
    BY <1>2, <2>1, <2>2 DEF IInv, TypeOK
<1>6. Bounded'
  <2>1. basis' <= last' /\ \A w \in Workers : work'[w].seen <= last'
    BY <1>1, <1>2, WorkIsTyped DEF IInv, Bounded, TypeOK
  <2>2. \A n \in Entries : n > last' => job'[n].state = "NONE"
    BY <1>1, <1>4 DEF IInv, Bounded, Entries
  <2> QED
    BY <1>2, <2>1, <2>2 DEF IInv, Bounded
<1>7. OneClaimant' /\ EverythingConsidered'
  BY <1>2, <1>3, <1>4 DEF IInv, OneClaimant, EverythingConsidered
<1>8. JudgedFromTheTruth'
  <2>1. \A n \in Entries : n <= last /\ job'[n].state = "PROCESSING" =>
            job[n].state = "PROCESSING" /\ job'[n].token = job[n].token
    BY <1>3, <1>4
  <2> QED
    BY <1>2, <2>1, StandingStays DEF JudgedFromTheTruth
<1> QED
  BY <1>5, <1>6, <1>7, <1>8 DEF IInv

LEMMA SetStatusKeeps ==
    ASSUME IInv, NEW s \in Statuses, SetStatus(s) PROVE IInv'
<1>1. /\ last' = last + 1 /\ basis' = last + 1 /\ status' = s
      /\ UNCHANGED <<work, failures, losses, overruns>>
      /\ last \in Nat /\ last + 1 \in 0..MaxEntries
  BY StatusJobsConstants DEF SetStatus, bounds, IInv, TypeOK
<1>2. job' \in [Entries -> Job] /\ \A n \in Entries :
          IF n \in Active THEN job'[n].state = "CANCELLED" ELSE job'[n] = job[n]
  <2>1. \A n \in Entries : job[n] \in Job /\ Released(n, "CANCELLED") \in Job
                           /\ Released(n, "CANCELLED").state = "CANCELLED"
    BY ReleasedIsTyped DEF IInv, TypeOK, Unclaimed
  <2> QED
    BY <2>1 DEF SetStatus, Cancelled
<1>3. \A n \in Entries : job'[n].state # "PROCESSING"
  BY <1>2 DEF Active
<1>4. TypeOK'
  BY <1>1, <1>2 DEF IInv, TypeOK
<1>5. Bounded'
  <2>1. \A w \in Workers : work'[w].seen <= last'
    BY <1>1, WorkIsTyped DEF IInv, Bounded
  <2>2. \A n \in Entries : n > last' => job'[n].state = "NONE"
    BY <1>1, <1>2 DEF IInv, Bounded, Active, Entries
  <2> QED
    BY <1>1, <2>1, <2>2 DEF IInv, Bounded
<1>6. OneClaimant'
  BY <1>3 DEF OneClaimant
<1>7. EverythingConsidered'
  <2>1. \A n \in Entries : n > last => job[n].state = "NONE"
    BY DEF IInv, Bounded
  <2> QED
    BY <1>1, <1>2, <2>1 DEF EverythingConsidered, Active, Entries
<1>8. JudgedFromTheTruth'
  <2>1. \A w \in Workers : Busy(w)' => ~Standing(w)'
    BY <1>1, <1>3, WorkIsTyped DEF IInv, Busy, Standing
  <2> QED
    BY <2>1 DEF JudgedFromTheTruth
<1> QED
  BY <1>4, <1>5, <1>6, <1>7, <1>8 DEF IInv

-----------------------------------------------------------------------------
(* The worker.                                                             *)

LEMMA ClaimKeeps == ASSUME IInv, NEW w \in Workers, Claim(w) PROVE IInv'
<1>1. UNCHANGED <<last, status, basis, failures, losses, overruns>>
  BY DEF Claim, bounds
<1>2. job' \in [Entries -> Job] /\ \A n \in Entries :
          IF n \in Active THEN job'[n].state = "PROCESSING" /\ job'[n].token = w
          ELSE job'[n] = job[n]
  <2>1. ASSUME NEW n \in Entries
        PROVE  LET j == [job[n] EXCEPT !.state = "PROCESSING", !.token = w, !.locked = TRUE]
               IN j \in Job /\ j.state = "PROCESSING" /\ j.token = w
    <3>1. job[n] \in Job /\ job[n].due \in BOOLEAN
      BY RowIsTyped DEF IInv
    <3> QED
      BY <3>1 DEF Job
  <2>2. job \in [Entries -> Job]
    BY DEF IInv, TypeOK
  <2> QED
    BY <2>1, <2>2 DEF Claim
<1>3. \A n \in Entries : job'[n].state = "PROCESSING" => n \in Active /\ job'[n].token = w
  BY <1>2 DEF Active
<1>4. Active \subseteq Entries /\ \A n \in Active : n <= last
  BY DEF Active, IInv, Bounded, TypeOK, Entries
<1>5. /\ work' \in [Workers -> Work]
      /\ work'[w] = [claims |-> Active, seen |-> last, from |-> status]
      /\ \A v \in Workers \ {w} : work'[v] = work[v]
  <2>1. [claims |-> Active, seen |-> last, from |-> status] \in Work
    BY <1>4 DEF IInv, TypeOK, Work
  <2>2. work' = [work EXCEPT ![w] = [claims |-> Active, seen |-> last, from |-> status]]
    BY DEF Claim
  <2> QED
    BY <2>1, <2>2 DEF IInv, TypeOK
<1>6. TypeOK'
  BY <1>1, <1>2, <1>5 DEF IInv, TypeOK
<1>7. Bounded'
  <2>1. \A v \in Workers : work'[v].seen <= last' /\ \A n \in work'[v].claims : n <= work'[v].seen
    <3> SUFFICES ASSUME NEW v \in Workers
                 PROVE  work'[v].seen <= last' /\ \A n \in work'[v].claims : n <= work'[v].seen
      OBVIOUS
    <3>1. CASE v = w
      BY <1>1, <1>4, <1>5, <3>1 DEF IInv, TypeOK
    <3>2. CASE v # w
      BY <1>1, <1>5, <3>2 DEF IInv, Bounded
    <3> QED
      BY <3>1, <3>2
  <2>2. \A n \in Entries : n > last' => job'[n].state = "NONE"
    BY <1>1, <1>2 DEF IInv, Bounded, Active
  <2> QED
    BY <1>1, <2>1, <2>2 DEF IInv, Bounded
<1>8. OneClaimant'
  BY <1>3 DEF OneClaimant
<1>9. EverythingConsidered'
  BY <1>1, <1>2 DEF IInv, EverythingConsidered
<1>10. JudgedFromTheTruth'
  <2> SUFFICES ASSUME NEW v \in Workers, Busy(v)', Standing(v)'
               PROVE  work'[v].from = status' /\ basis' <= work'[v].seen
    BY DEF JudgedFromTheTruth
  <2>1. CASE v = w
    BY <1>1, <1>5, <2>1 DEF IInv, Bounded
  <2>2. CASE v # w
    <3>1. PICK n \in work[v].claims : job'[n].state = "PROCESSING" /\ job'[n].token = v
      BY <1>5, <2>2 DEF Busy, Standing
    <3>2. n \in Entries
      BY <3>1, WorkIsTyped DEF IInv
    <3> QED
      BY <1>3, <2>2, <3>1, <3>2
  <2> QED
    BY <2>1, <2>2
<1> QED
  BY <1>6, <1>7, <1>8, <1>9, <1>10 DEF IInv

\* The end of an evaluation, whatever becomes of its rows.
LEMMA WorkDone ==
    ASSUME IInv, NEW w \in Workers, work' = [work EXCEPT ![w] = NoWork]
    PROVE  /\ work' \in [Workers -> Work]
           /\ ~Busy(w)' /\ work'[w] = NoWork
           /\ \A v \in Workers \ {w} : work'[v] = work[v]
BY NoWorkIsTyped DEF IInv, TypeOK, Busy, NoWork

LEMMA BoundedStays ==
    ASSUME IInv, NEW w \in Workers, work'[w] = NoWork \/ work'[w] = work[w],
           \A v \in Workers \ {w} : work'[v] = work[v],
           last' \in {last, last + 1}, basis' <= last,
           basis' \in Nat,
           \A n \in Entries : job[n].state = "NONE" => job'[n].state = "NONE"
    PROVE  Bounded'
<1>1. last \in Nat /\ last <= last'
  BY DEF IInv, TypeOK
<1>2. ASSUME NEW v \in Workers
      PROVE  work'[v].seen <= last' /\ \A n \in work'[v].claims : n <= work'[v].seen
  <2>1. work[v].seen \in Nat /\ work[v].seen <= last
    BY WorkIsTyped DEF IInv, Bounded
  <2>2. CASE work'[v] = work[v]
    BY <1>1, <2>1, <2>2 DEF IInv, Bounded
  <2>3. CASE work'[v] = NoWork
    BY <1>1, <2>3 DEF NoWork
  <2> QED
    BY <2>2, <2>3
<1>3. \A n \in Entries : n > last' => job'[n].state = "NONE"
  BY <1>1 DEF IInv, Bounded, Entries
<1> QED
  BY <1>1, <1>2, <1>3 DEF Bounded

LEMMA CompleteKeeps ==
    ASSUME IInv, NEW w \in Workers, NEW s \in Statuses, Complete(w, s)
    PROVE  IInv' /\ basis' >= basis
<1>1. /\ status' = s /\ basis' = work[w].seen
      /\ last' \in {last, last + 1} /\ last' \in 0..MaxEntries
      /\ UNCHANGED <<failures, losses, overruns>>
  BY StatusJobsConstants DEF Complete, bounds, IInv, TypeOK
<1>2. basis <= basis' /\ basis' <= last /\ basis' \in Nat
  BY <1>1, WorkIsTyped DEF Complete, IInv, JudgedFromTheTruth, Bounded
<1>3. job' \in [Entries -> Job] /\ \A n \in Entries :
          IF n \in work[w].claims THEN job'[n].state = "COMPLETED" ELSE job'[n] = job[n]
  <2>1. \A n \in Entries : job[n] \in Job /\ Released(n, "COMPLETED") \in Job
                           /\ Released(n, "COMPLETED").state = "COMPLETED"
    BY ReleasedIsTyped DEF IInv, TypeOK, Unclaimed
  <2> QED
    BY <2>1 DEF Complete
<1>4. /\ work' \in [Workers -> Work] /\ ~Busy(w)' /\ work'[w] = NoWork
      /\ \A v \in Workers \ {w} : work'[v] = work[v]
  BY WorkDone DEF Complete
<1>5. TypeOK'
  <2>1. basis' \in 0..MaxEntries
    BY <1>2, StatusJobsConstants DEF IInv, TypeOK
  <2> QED
    BY <1>1, <1>3, <1>4, <2>1 DEF IInv, TypeOK
<1>6. \A n \in work[w].claims : n \in Entries /\ n <= basis' /\ job[n].state = "PROCESSING"
  BY <1>1, WorkIsTyped DEF IInv, Bounded, Complete, Standing
<1>7. Bounded'
  <2>1. \A n \in Entries : job[n].state = "NONE" => job'[n].state = "NONE"
    BY <1>3, <1>6
  <2> QED
    BY <1>1, <1>2, <1>4, <2>1, BoundedStays
<1>8. OneClaimant'
  BY <1>3 DEF IInv, OneClaimant
<1>9. EverythingConsidered'
  <2> SUFFICES ASSUME NEW n \in Entries, job'[n].state \in {"COMPLETED", "CANCELLED"}
               PROVE  n <= basis'
    BY DEF EverythingConsidered
  <2>1. CASE n \in work[w].claims
    BY <1>6, <2>1
  <2>2. CASE n \notin work[w].claims
    <3>1. n <= basis
      BY <1>3, <2>2 DEF IInv, EverythingConsidered
    <3> QED
      BY <1>2, <3>1 DEF IInv, TypeOK, Entries
  <2> QED
    BY <2>1, <2>2
<1>10. JudgedFromTheTruth'
  <2> SUFFICES ASSUME NEW v \in Workers, Busy(v)', Standing(v)' PROVE FALSE
    BY DEF JudgedFromTheTruth
  <2>1. v # w /\ work'[v] = work[v]
    BY <1>4
  <2>2. \A n \in work[v].claims : n \in Entries
    BY WorkIsTyped DEF IInv
  <2>3. Busy(v) /\ Standing(v)
    BY <1>3, <2>1, <2>2 DEF Busy, Standing
  <2> QED
    BY <2>1, <2>3, OneStands DEF Complete
<1> QED
  BY <1>2, <1>5, <1>7, <1>8, <1>9, <1>10 DEF IInv, TypeOK

\* A row that keeps its state and its token, or is given back.
Kept(n) ==
    /\ \/ job'[n].state = job[n].state
       \/ job[n].state = "PROCESSING" /\ job'[n].state = "PENDING"
    /\ job'[n].state = "PROCESSING" => job'[n].token = job[n].token

\* A step that decides nothing, ends the evaluation of w at most, and gives no
\* job to anybody.
LEMMA NothingDecided ==
    ASSUME IInv, NEW w \in Workers,
           UNCHANGED <<last, status, basis>>,
           work' = [work EXCEPT ![w] = NoWork] \/ work' = work,
           job' \in [Entries -> Job],
           \A n \in Entries : Kept(n),
           failures' \in 0..MaxFailures, losses' \in 0..MaxLosses,
           overruns' \in 0..MaxOverruns
    PROVE  IInv'
<1>1. /\ work' \in [Workers -> Work]
      /\ \A v \in Workers : work'[v] = work[v] \/ work'[v] = NoWork
      /\ \A v \in Workers \ {w} : work'[v] = work[v]
  BY WorkDone DEF IInv, TypeOK
<1>2. TypeOK'
  BY <1>1 DEF IInv, TypeOK
<1>3. Bounded'
  <2>1. basis \in Nat /\ basis <= last
    BY DEF IInv, TypeOK, Bounded
  <2> QED
    BY <1>1, <2>1, BoundedStays DEF Kept
<1>4. OneClaimant' /\ EverythingConsidered'
  BY DEF IInv, OneClaimant, EverythingConsidered, Kept
<1>5. JudgedFromTheTruth'
  <2> SUFFICES ASSUME NEW v \in Workers, Busy(v)', Standing(v)'
               PROVE  work'[v].from = status' /\ basis' <= work'[v].seen
    BY DEF JudgedFromTheTruth
  <2>1. work'[v] = work[v]
    BY <1>1 DEF Busy, NoWork
  <2>2. \A n \in Entries : job'[n].state = "PROCESSING" =>
            job[n].state = "PROCESSING" /\ job'[n].token = job[n].token
    BY DEF Kept
  <2> QED
    BY <2>1, <2>2, StandingStays
<1> QED
  BY <1>2, <1>3, <1>4, <1>5 DEF IInv

LEMMA FailKeeps == ASSUME IInv, NEW w \in Workers, Fail(w) PROVE IInv'
<1>1. job' \in [Entries -> Job] /\ \A n \in Entries :
          IF n \in work[w].claims THEN job'[n].state = "PENDING" ELSE job'[n] = job[n]
  <2>1. ASSUME NEW n \in Entries
        PROVE  job[n] \in Job /\ Retried(n) \in Job /\ Retried(n).state = "PENDING"
    <3>1. job[n] \in Job /\ job[n].due \in BOOLEAN
      BY RowIsTyped DEF IInv
    <3> QED
      BY <3>1 DEF Retried, Released, Job, Unclaimed
  <2> QED
    BY <2>1 DEF Fail
<1>2. \A n \in Entries : Kept(n)
  BY <1>1 DEF Fail, Standing, Kept
<1>3. UNCHANGED <<last, status, basis>> /\ work' = [work EXCEPT ![w] = NoWork]
  BY DEF Fail
<1>4. failures' \in 0..MaxFailures /\ losses' \in 0..MaxLosses /\ overruns' \in 0..MaxOverruns
  BY StatusJobsConstants DEF Fail, IInv, TypeOK
<1> QED
  BY <1>1, <1>2, <1>3, <1>4, NothingDecided

LEMMA TooLateKeeps == ASSUME IInv, NEW w \in Workers, TooLate(w) PROVE IInv'
<1>1. /\ UNCHANGED <<last, status, job, basis, failures, losses, overruns>>
      /\ work' = [work EXCEPT ![w] = NoWork]
  BY DEF TooLate, bounds
<1>2. job' \in [Entries -> Job] /\ \A n \in Entries : Kept(n)
  BY <1>1 DEF IInv, TypeOK, Kept
<1>3. failures' \in 0..MaxFailures /\ losses' \in 0..MaxLosses /\ overruns' \in 0..MaxOverruns
  BY <1>1 DEF IInv, TypeOK
<1> QED
  BY <1>1, <1>2, <1>3, NothingDecided

LEMMA LoseKeeps == ASSUME IInv, NEW w \in Workers, Lose(w) PROVE IInv'
<1>1. /\ UNCHANGED <<last, status, job, basis, failures, overruns>>
      /\ work' = [work EXCEPT ![w] = NoWork]
  BY DEF Lose
<1>2. job' \in [Entries -> Job] /\ \A n \in Entries : Kept(n)
  BY <1>1 DEF IInv, TypeOK, Kept
<1>3. failures' \in 0..MaxFailures /\ losses' \in 0..MaxLosses /\ overruns' \in 0..MaxOverruns
  BY <1>1, StatusJobsConstants DEF Lose, IInv, TypeOK
<1> QED
  BY <1>1, <1>2, <1>3, NothingDecided

-----------------------------------------------------------------------------
(* The clock.                                                              *)

LEMMA UnlockedRows ==
    ASSUME IInv, NEW w, Unlocked(w)
    PROVE  job' \in [Entries -> Job] /\ \A n \in Entries : Kept(n)
<1>1. ASSUME NEW n \in Entries
      PROVE  LET j == [job[n] EXCEPT !.locked = FALSE]
             IN j \in Job /\ j.state = job[n].state /\ j.token = job[n].token
  <2>1. job[n] \in Job
    BY RowIsTyped DEF IInv
  <2> QED
    BY <2>1 DEF Job
<1>2. \A n \in Entries : job[n] \in Job
  BY RowIsTyped DEF IInv
<1>3. job' \in [Entries -> Job] /\ \A n \in Entries :
          job'[n].state = job[n].state /\ job'[n].token = job[n].token
  BY <1>1, <1>2 DEF Unlocked
<1> QED
  BY <1>3 DEF Kept

LEMMA LeaseExpiresKeeps == ASSUME IInv, NEW w \in Workers, LeaseExpires(w) PROVE IInv'
<1>1. UNCHANGED <<last, status, work, basis, failures, losses, overruns>> /\ Unlocked(w)
  BY DEF LeaseExpires, bounds
<1>2. failures' \in 0..MaxFailures /\ losses' \in 0..MaxLosses /\ overruns' \in 0..MaxOverruns
  BY <1>1 DEF IInv, TypeOK
<1> QED
  BY <1>1, <1>2, UnlockedRows, NothingDecided

LEMMA LeaseOverrunKeeps == ASSUME IInv, NEW w \in Workers, LeaseOverrun(w) PROVE IInv'
<1>1. UNCHANGED <<last, status, work, basis, failures, losses>> /\ Unlocked(w)
  BY DEF LeaseOverrun
<1>2. failures' \in 0..MaxFailures /\ losses' \in 0..MaxLosses /\ overruns' \in 0..MaxOverruns
  BY <1>1, StatusJobsConstants DEF LeaseOverrun, IInv, TypeOK
<1> QED
  BY <1>1, <1>2, UnlockedRows, NothingDecided

LEMMA RetryDueKeeps == ASSUME IInv, RetryDue PROVE IInv'
<1>1. ASSUME NEW n \in Entries
      PROVE  LET j == [job[n] EXCEPT !.due = TRUE]
             IN j \in Job /\ j.state = job[n].state /\ j.token = job[n].token
  <2>1. job[n] \in Job
    BY RowIsTyped DEF IInv
  <2> QED
    BY <2>1 DEF Job
<1>2. job' \in [Entries -> Job] /\ \A n \in Entries :
          job'[n].state = job[n].state /\ job'[n].token = job[n].token
  BY <1>1 DEF RetryDue
<1>3. UNCHANGED <<last, status, work, basis, failures, losses, overruns>>
  BY DEF RetryDue, bounds
<1>4. TypeOK'
  BY <1>2, <1>3 DEF IInv, TypeOK
<1>5. Bounded' /\ OneClaimant' /\ EverythingConsidered'
  BY <1>2, <1>3 DEF IInv, Bounded, OneClaimant, EverythingConsidered
<1>6. JudgedFromTheTruth'
  BY <1>2, <1>3, StandingStays DEF JudgedFromTheTruth
<1> QED
  BY <1>4, <1>5, <1>6 DEF IInv

-----------------------------------------------------------------------------
(* The theorems.                                                           *)

LEMMA NextKeeps == ASSUME IInv, [Next]_vars PROVE IInv' /\ basis' >= basis
<1>1. basis \in Nat /\ basis <= last /\ last \in Nat
  BY DEF IInv, TypeOK, Bounded
<1>2. CASE UNCHANGED vars
  <2>1. UNCHANGED <<last, status, job, work, basis, failures, losses, overruns>>
    BY <1>2 DEF vars
  <2>2. TypeOK' /\ Bounded' /\ OneClaimant' /\ EverythingConsidered'
    BY <2>1 DEF IInv, TypeOK, Bounded, OneClaimant, EverythingConsidered
  <2>3. JudgedFromTheTruth'
    BY <2>1 DEF IInv, JudgedFromTheTruth, Busy, Standing
  <2> QED
    BY <1>1, <2>1, <2>2, <2>3 DEF IInv
<1>3. CASE Post
  BY <1>1, <1>3, PostKeeps DEF Post
<1>4. ASSUME NEW s \in Statuses, SetStatus(s) PROVE IInv' /\ basis' >= basis
  BY <1>1, <1>4, SetStatusKeeps DEF SetStatus
<1>5. CASE RetryDue
  BY <1>1, <1>5, RetryDueKeeps DEF RetryDue
<1>6. ASSUME NEW w \in Workers, Claim(w) PROVE IInv' /\ basis' >= basis
  <2>1. basis' = basis
    BY <1>6 DEF Claim
  <2> QED
    BY <1>1, <1>6, <2>1, ClaimKeeps
<1>7. ASSUME NEW w \in Workers, Answer(w) PROVE IInv' /\ basis' >= basis
  BY <1>1, <1>7, CompleteKeeps, TooLateKeeps DEF Answer, TooLate
<1>8. ASSUME NEW w \in Workers, Fail(w) \/ Lose(w) PROVE IInv' /\ basis' >= basis
  BY <1>1, <1>8, FailKeeps, LoseKeeps DEF Fail, Lose
<1>9. ASSUME NEW w \in Workers, LeaseExpires(w) \/ LeaseOverrun(w)
      PROVE  IInv' /\ basis' >= basis
  BY <1>1, <1>9, LeaseExpiresKeeps, LeaseOverrunKeeps DEF LeaseExpires, LeaseOverrun
<1> QED
  BY <1>2, <1>3, <1>4, <1>5, <1>6, <1>7, <1>8, <1>9 DEF Next

THEOREM JobsInvariant == Spec => []IInv
<1>1. IInv /\ [Next]_vars => IInv'
  BY NextKeeps
<1> QED
  BY InitIInv, <1>1, PTL DEF Spec

\* Every variable keeps its type: only a claimed job has a token, and only one
\* that has is leased.
THEOREM JobsTyped == Spec => []TypeOK
<1>1. IInv => TypeOK
  BY DEF IInv
<1> QED
  BY <1>1, JobsInvariant, PTL

\* An evaluation whose claims stand was made from the present status.
THEOREM StandingIsCurrent == Spec => []JudgedFromTheTruth
<1>1. IInv => JudgedFromTheTruth
  BY DEF IInv
<1> QED
  BY <1>1, JobsInvariant, PTL

\* A job that is over was known to whoever decided on the present status.
THEOREM NoMessagePassedOver == Spec => []EverythingConsidered
<1>1. IInv => EverythingConsidered
  BY DEF IInv
<1> QED
  BY <1>1, JobsInvariant, PTL

\* No decision on the status is replaced by one that knew less.
THEOREM DecisionsGrow == Spec => NeverBackwards
<1>1. IInv /\ [Next]_vars => [basis' >= basis]_vars
  BY NextKeeps
<1> QED
  BY <1>1, JobsInvariant, PTL DEF Spec, NeverBackwards

=============================================================================
