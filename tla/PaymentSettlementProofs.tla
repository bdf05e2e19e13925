----------------------- MODULE PaymentSettlementProofs -----------------------
(* Proofs, for any number of workers, grants, amounts and failures, of the   *)
(* safety properties of PaymentSettlement.  Core is the inductive invariant  *)
(* of the whole handler protocol: what a job in the middle of a handler may  *)
(* rely on, although it read the attempt earlier and others have written     *)
(* since.                                                                    *)
EXTENDS PaymentSettlement, SumTheorems

JobType == [at : Steps, task : Tasks, seen : Statuses,
            buckets : SUBSET Buckets, recovered : Nat]

Fulfilling == {"claim", "grant", "roles"}
Recovering == {"revoke", "debt", "recover", "overrule"}

(* The attempt has been Succeeded: only then may a purchase be fulfilled.    *)
Opened == status = "Succeeded" \/ recoveries > 0

SharedTyped ==
    /\ strategy \in Strategies
    /\ session \in {"open", "settling", "paid", "bounced", "expired"}
    /\ sent \subseteq Events /\ processed \subseteq sent
    /\ status \in Statuses
    /\ runs \in Nat /\ debt \in Nat
    /\ used \in [Grants -> Nat] /\ revoked \in [Grants -> Nat]
    /\ \A g \in Grants : Remaining(g) >= 0
    /\ roles \in BOOLEAN /\ overtaken \in BOOLEAN
    /\ faults \in 0..MaxFaults /\ recoveries \in 0..2
    /\ DOMAIN job = Actors

(* What a job j of actor a has secured, whatever the others do meanwhile.    *)
JobGood(a, j) ==
    \/ j = Idle
    \/ /\ j \in JobType
       /\ j.at # "update" => j.task \in Events
       /\ j.task \in Events => j.task \in sent /\ a \in Workers
       /\ j.at = "update" => CanTransition(j.seen, Target(j.task))
       /\ j.at \in Fulfilling => j.task \in Successes /\ Opened
       /\ j.at \in Recovering => j.task = "async_failed" /\ recoveries > 0
       /\ j.at = "overrule" => j.seen = "Succeeded"
       /\ j.at = "check" => j.recovered = 0
       /\ j.task = "completed_unpaid" /\ strategy = "conservative" => j.at \in {"strategy", "mark"}

JobsGood == \A a \in Actors : JobGood(a, job[a])

(* Which events exist tells what became of the session.                      *)
EventsTruthful ==
    /\ sent \cap {"completed_paid", "intent_succeeded", "async_succeeded"} # {} => session = "paid"
    /\ "async_failed" \in sent => session = "bounced"

NothingUnopened ==
    /\ ~Opened => runs = 0 /\ ~roles
    /\ recoveries > 0 => status \in {"Succeeded", "Failed"}

(* The event row keeps every other worker out while one grants.              *)
OneGrants ==
    /\ runs <= 1
    /\ \A a \in Actors : job[a].at = "grant" =>
         runs = 0 /\ \A b \in Actors : job[b].at = "grant" => b = a

Core == SharedTyped /\ JobsGood /\ EventsTruthful /\ NothingUnopened /\ OneGrants

(* A recovery empties one row of each bucket.                                *)
Emptied(b) == \E h \in Grants : Bucket[h] = b /\ Remaining(h) = 0
TakenBack == ~roles /\ \A g \in Grants : Emptied(Bucket[g])

(* How far the recovery of each worker has come, unless a fulfilment wrote   *)
(* beside it.                                                                *)
RecoverySound ==
    ~overtaken =>
      /\ \A w \in Actors :
           /\ job[w].at = "revoke" =>
                \A g \in Grants : Bucket[g] \notin job[w].buckets => Emptied(Bucket[g])
           /\ job[w].at \in {"debt", "recover", "overrule"} => TakenBack
      /\ status = "Failed" => TakenBack

FirstRecovery ==
    /\ recoveries = 0 => debt = 0 /\ \A g \in Grants : revoked[g] = 0
    /\ recoveries = 1 => \A w \in Actors : job[w].at \in Recovering =>
         /\ \A v \in Actors : job[v].at \in Recovering => v = w
         /\ job[w].at \in {"revoke", "debt"} =>
              debt = 0 /\ job[w].recovered = SumOf(revoked, Grants)
    /\ recoveries <= 1 => debt + SumOf(revoked, Grants) <= SumOf(Granted, Grants)

-----------------------------------------------------------------------------
(* The operators of the model *)

\* What mark_payment_succeeded, mark_payment_failed, the cancel and the expiry
\* job ask for.
LEMMA Targets ==
    /\ \A t \in Successes : Target(t) = "Succeeded" /\ AfterUpdate(t) = Job("claim", t)
    /\ \A t \in Failures : Target(t) = "Failed" /\ AfterUpdate(t) = Job("mark", t)
    /\ Target("cancel") = "Cancelled" /\ AfterUpdate("cancel") = Idle
    /\ Target("expiry") = "Expired" /\ AfterUpdate("expiry") = Idle
BY DEF Target, AfterUpdate, Successes, Failures

\* A handler begins by reading the strategy, checking the attempt or finding it.
LEMMA FirstSteps ==
    \A e \in Events : /\ FirstStep(e) \in {"strategy", "check", "find"}
                      /\ e = "completed_unpaid" => FirstStep(e) = "strategy"
BY DEF FirstStep, Events, Successes, Failures

\* The number of recoveries is counted up to two.
LEMMA RecoveryCounted ==
    ASSUME NEW n \in 0..2
    PROVE  Min({n + 1, 2}) = IF n = 0 THEN 1 ELSE 2
<1> DEFINE m == Min({n + 1, 2})
<1>1. \E x \in {n + 1, 2} : \A y \in {n + 1, 2} : x <= y
  <2>1. CASE n = 0 BY <2>1
  <2>2. CASE n # 0
    <3>1. 2 <= n + 1
      BY <2>2
    <3> QED BY <3>1
  <2> QED BY <2>1, <2>2
<1>2. m \in {n + 1, 2} /\ m <= n + 1 /\ m <= 2
  BY <1>1 DEF Min
<1>3. m = IF n = 0 THEN 1 ELSE 2
  <2> HIDE DEF m
  <2> QED BY <1>2
<1> QED BY <1>3

\* A job that goes on to another step keeps what it holds.
LEMMA AtStep ==
    ASSUME NEW j \in JobType, NEW s \in Steps
    PROVE  LET k == [j EXCEPT !.at = s] IN
           /\ k \in JobType /\ k.at = s /\ k.task = j.task /\ k.seen = j.seen
           /\ k.buckets = j.buckets /\ k.recovered = j.recovered
BY DEF JobType

\* A job that begins a step afresh.
LEMMA FreshJob ==
    ASSUME NEW s \in Steps, NEW t \in Tasks
    PROVE  /\ Job(s, t) \in JobType /\ Job(s, t).at = s /\ Job(s, t).task = t
           /\ Job(s, t).seen = "Pending" /\ Job(s, t).recovered = 0
BY DEF JobType, Job, Statuses

\* An idle actor is at no step.
LEMMA IdleAt ==
    /\ Idle.at = "idle"
    /\ \A s \in Steps : s # "idle"
BY DEF Idle, Steps

-----------------------------------------------------------------------------
(* What a step may do to the jobs of the others *)

\* No step takes back what a waiting job relies on.
Later ==
    /\ strategy' = strategy
    /\ sent \subseteq sent'
    /\ recoveries > 0 => recoveries' > 0
    /\ Opened => Opened'

LEMMA JobMoves ==
    ASSUME JobsGood, Later, DOMAIN job = Actors, NEW w \in Actors, NEW k,
           job' = [job EXCEPT ![w] = k], JobGood(w, k)'
    PROVE  JobsGood' /\ DOMAIN job' = Actors
<1>1. ASSUME NEW a \in Actors PROVE JobGood(a, job[a])'
  <2>1. CASE a = w
    <3>1. job'[a] = k
      BY <2>1
    <3> QED BY <2>1, <3>1 DEF JobGood
  <2>2. CASE a # w
    <3>1. job'[a] = job[a]
      BY <2>2
    <3>2. JobGood(a, job[a])
      BY DEF JobsGood
    <3> QED BY <3>1, <3>2 DEF JobGood, Later
  <2> QED BY <2>1, <2>2
<1>2. DOMAIN job' = Actors
  OBVIOUS
<1> QED BY <1>1, <1>2 DEF JobsGood

LEMMA JobsStay ==
    ASSUME JobsGood, Later, job' = job
    PROVE  JobsGood'
BY DEF JobsGood, JobGood, Later

LEMMA GrantMoves ==
    ASSUME OneGrants, DOMAIN job = Actors, NEW w \in Actors, NEW k,
           job' = [job EXCEPT ![w] = k], runs' = runs,
           k.at = "grant" => runs = 0 /\ \A b \in Actors \ {w} : job[b].at # "grant"
    PROVE  OneGrants'
<1>1. job'[w] = k /\ \A a \in Actors \ {w} : job'[a] = job[a]
  OBVIOUS
<1> QED BY <1>1 DEF OneGrants

\* A step that only moves a job.
LEMMA QuietMove ==
    ASSUME Core, NEW w \in Actors, NEW k, job' = [job EXCEPT ![w] = k],
           UNCHANGED <<Provider, Attempt>>, processed' \subseteq sent,
           faults' \in 0..MaxFaults, JobGood(w, k),
           k.at = "grant" => runs = 0 /\ \A b \in Actors \ {w} : job[b].at # "grant"
    PROVE  Core'
<1>1. DOMAIN job = Actors
  BY DEF Core, SharedTyped
<1>2. Later
  BY DEF Later, Provider, Attempt, Opened
<1>3. JobGood(w, k)'
  BY DEF JobGood, Provider, Attempt, Opened
<1>4. JobsGood' /\ DOMAIN job' = Actors
  BY <1>1, <1>2, <1>3, JobMoves DEF Core
<1>5. SharedTyped'
  BY <1>4 DEF Core, SharedTyped, Provider, Attempt, Remaining
<1>6. EventsTruthful' /\ NothingUnopened'
  BY DEF Core, EventsTruthful, NothingUnopened, Provider, Attempt, Opened
<1>7. OneGrants'
  BY <1>1, GrantMoves DEF Core, Attempt
<1> QED BY <1>4, <1>5, <1>6, <1>7 DEF Core

\* The job of a worker that is at some step of a handler.
LEMMA JobAt ==
    ASSUME Core, NEW a \in Actors, NEW s \in Steps, job[a].at = s
    PROVE  /\ job[a] \in JobType /\ job[a] # Idle
           /\ s # "update" => job[a].task \in Events
           /\ job[a].task \in Events => job[a].task \in sent /\ a \in Workers
           /\ s = "update" => CanTransition(job[a].seen, Target(job[a].task))
           /\ s \in Fulfilling => job[a].task \in Successes /\ Opened
           /\ s \in Recovering => job[a].task = "async_failed" /\ recoveries > 0
           /\ s = "overrule" => job[a].seen = "Succeeded"
           /\ s = "check" => job[a].recovered = 0
           /\ job[a].task = "completed_unpaid" /\ strategy = "conservative" => s \in {"strategy", "mark"}
<1>1. JobGood(a, job[a])
  BY DEF Core, JobsGood
<1>2. job[a] # Idle
  BY IdleAt
<1> QED BY <1>1, <1>2 DEF JobGood

-----------------------------------------------------------------------------
(* Core is kept by every action: the steps that only move a job *)

LEMMA CoreFindAttempt ==
    ASSUME Core, NEW w \in Workers, FindAttempt(w)
    PROVE  Core'
<1> w \in Actors /\ "find" \in Steps
  BY DEF Actors, Steps
<1> PICK k : k = IF CanTransition(status, Target(job[w].task))
                   THEN [job[w] EXCEPT !.at = "update", !.seen = status] ELSE Idle
  OBVIOUS
<1>1. job' = [job EXCEPT ![w] = k] /\ UNCHANGED <<Provider, Attempt>> /\ processed' = processed /\ faults' = faults
  BY DEF FindAttempt
<1>2. /\ job[w] \in JobType /\ job[w].task \in Events /\ job[w].task \in sent
      /\ job[w].task = "completed_unpaid" => strategy # "conservative"
  BY JobAt DEF FindAttempt, Fulfilling, Recovering
<1>3. JobGood(w, k)
  <2>1. CASE CanTransition(status, Target(job[w].task))
    <3>1. status \in Statuses
      BY DEF Core, SharedTyped
    <3>2. k \in JobType /\ k.at = "update" /\ k.seen = status /\ k.task = job[w].task
      BY <2>1, <1>2, <3>1 DEF JobType, Steps
    <3> QED BY <1>2, <2>1, <3>2 DEF JobGood, Fulfilling, Recovering
  <2>2. CASE ~CanTransition(status, Target(job[w].task))
    BY <2>2 DEF JobGood
  <2> QED BY <2>1, <2>2
<1>4. k.at # "grant"
  BY <1>2 DEF Idle, JobType
<1> QED BY <1>1, <1>3, <1>4, QuietMove DEF Core, SharedTyped

LEMMA CoreFindForRecovery ==
    ASSUME Core, NEW w \in Workers, FindForRecovery(w)
    PROVE  Core'
<1> w \in Actors /\ "recover" \in Steps
  BY DEF Actors, Steps
<1> PICK k : k = IF status = "Succeeded"
                   THEN [job[w] EXCEPT !.at = "overrule", !.seen = status] ELSE Idle
  OBVIOUS
<1>1. job' = [job EXCEPT ![w] = k] /\ UNCHANGED <<Provider, Attempt>> /\ processed' = processed /\ faults' = faults
  BY DEF FindForRecovery
<1>2. /\ job[w] \in JobType /\ job[w].task \in sent
      /\ job[w].task = "async_failed" /\ recoveries > 0
  BY JobAt DEF FindForRecovery, Recovering, Events, Failures
<1>3. JobGood(w, k)
  <2>1. CASE status = "Succeeded"
    <3>1. k \in JobType /\ k.at = "overrule" /\ k.seen = "Succeeded" /\ k.task = job[w].task
      BY <2>1, <1>2 DEF JobType, Steps, Statuses, Terminal
    <3> QED BY <1>2, <3>1 DEF JobGood, Fulfilling, Recovering, Events, Failures
  <2>2. CASE status # "Succeeded"
    BY <2>2 DEF JobGood
  <2> QED BY <2>1, <2>2
<1>4. k.at # "grant"
  BY <1>2 DEF Idle, JobType
<1> QED BY <1>1, <1>3, <1>4, QuietMove DEF Core, SharedTyped

LEMMA CoreDeliver ==
    ASSUME Core, NEW w \in Workers, NEW e \in Events, Deliver(w, e)
    PROVE  Core'
<1> w \in Actors
  BY DEF Actors
<1> PICK k : k = Job(FirstStep(e), e)
  OBVIOUS
<1>1. job' = [job EXCEPT ![w] = k] /\ UNCHANGED <<Provider, Attempt>> /\ processed' = processed /\ faults' = faults
  BY DEF Deliver
<1>2. /\ FirstStep(e) \in {"strategy", "check", "find"}
      /\ e = "completed_unpaid" => FirstStep(e) = "strategy"
  BY FirstSteps
<1>3. k \in JobType /\ k.at = FirstStep(e) /\ k.task = e /\ k.recovered = 0
  BY <1>2, FreshJob DEF Steps, Tasks
<1>4. JobGood(w, k)
  BY <1>2, <1>3 DEF JobGood, Fulfilling, Recovering, Deliver
<1> QED BY <1>1, <1>2, <1>3, <1>4, QuietMove DEF Core, SharedTyped

LEMMA CoreReadStrategy ==
    ASSUME Core, NEW w \in Workers, ReadStrategy(w)
    PROVE  Core'
<1> w \in Actors /\ {"strategy", "find", "mark"} \subseteq Steps
  BY DEF Actors, Steps
<1> PICK k : k = [job[w] EXCEPT !.at = IF strategy = "eager" THEN "find" ELSE "mark"]
  OBVIOUS
<1>1. /\ job' = [job EXCEPT ![w] = k] /\ UNCHANGED <<Provider, Attempt>> /\ processed' = processed
      /\ faults' = faults
  BY DEF ReadStrategy
<1>2. job[w] \in JobType /\ job[w].task \in Events /\ job[w].task \in sent
  BY JobAt DEF ReadStrategy
<1>3. /\ k \in JobType /\ k.at \in {"find", "mark"} /\ k.task = job[w].task
      /\ strategy # "eager" => k.at = "mark"
  BY <1>2, AtStep
<1>4. JobGood(w, k)
  BY <1>2, <1>3 DEF JobGood, Fulfilling, Recovering
<1> QED BY <1>1, <1>3, <1>4, QuietMove DEF Core, SharedTyped

LEMMA CoreStrategyUnreadable ==
    ASSUME Core, NEW w \in Workers, StrategyUnreadable(w)
    PROVE  Core'
<1> w \in Actors /\ {"strategy", "mark"} \subseteq Steps
  BY DEF Actors, Steps
<1> PICK k : k = [job[w] EXCEPT !.at = "mark"]
  OBVIOUS
<1>1. /\ job' = [job EXCEPT ![w] = k] /\ UNCHANGED <<Provider, Attempt>> /\ processed' = processed
      /\ faults' \in 0..MaxFaults
  BY PaymentBoundsAssumption DEF StrategyUnreadable, Core, SharedTyped
<1>2. job[w] \in JobType /\ job[w].task \in Events /\ job[w].task \in sent
  BY JobAt DEF StrategyUnreadable
<1>3. k \in JobType /\ k.at = "mark" /\ k.task = job[w].task
  BY <1>2, AtStep
<1>4. JobGood(w, k)
  BY <1>2, <1>3 DEF JobGood, Fulfilling, Recovering
<1> QED BY <1>1, <1>3, <1>4, QuietMove DEF Core, SharedTyped

LEMMA CoreCheckSucceeded ==
    ASSUME Core, NEW w \in Workers, CheckSucceeded(w)
    PROVE  Core'
<1> w \in Actors /\ {"check", "find", "mark"} \subseteq Steps
  BY DEF Actors, Steps
<1> PICK k : k = [job[w] EXCEPT !.at = IF status \in Terminal THEN "mark" ELSE "find"]
  OBVIOUS
<1>1. /\ job' = [job EXCEPT ![w] = k] /\ UNCHANGED <<Provider, Attempt>> /\ processed' = processed
      /\ faults' = faults
  BY DEF CheckSucceeded
<1>2. job[w] \in JobType /\ job[w].task = "async_succeeded" /\ job[w].task \in Events /\ job[w].task \in sent
  BY JobAt DEF CheckSucceeded
<1>3. k \in JobType /\ k.at \in {"find", "mark"} /\ k.task = job[w].task
  BY <1>2, AtStep
<1>4. JobGood(w, k)
  BY <1>2, <1>3 DEF JobGood, Fulfilling, Recovering
<1> QED BY <1>1, <1>3, <1>4, QuietMove DEF Core, SharedTyped

\* The event row admits a worker only when nobody else is granting.
LEMMA CoreClaimEvent ==
    ASSUME Core, NEW w \in Workers, ClaimEvent(w)
    PROVE  Core'
<1> w \in Actors /\ {"claim", "grant", "roles"} \subseteq Steps
  BY DEF Actors, Steps
<1> PICK k : k = [job[w] EXCEPT !.at = IF runs > 0 THEN "roles" ELSE "grant"]
  OBVIOUS
<1>1. /\ job' = [job EXCEPT ![w] = k] /\ UNCHANGED <<Provider, Attempt>> /\ processed' = processed
      /\ faults' = faults
  BY DEF ClaimEvent
<1>2. /\ job[w] \in JobType /\ job[w].task \in Events /\ job[w].task \in sent
      /\ job[w].task \in Successes /\ Opened
      /\ job[w].task = "completed_unpaid" => strategy # "conservative"
  BY JobAt DEF ClaimEvent, Fulfilling
<1>3. k \in JobType /\ k.at = (IF runs > 0 THEN "roles" ELSE "grant") /\ k.task = job[w].task
  BY <1>2, AtStep
<1>4. JobGood(w, k)
  BY <1>2, <1>3 DEF JobGood, Fulfilling, Recovering
<1>5. ASSUME NEW b \in Actors \ {w} PROVE job[b].at # "grant"
  <2>1. CASE b \in Workers
    BY <2>1 DEF ClaimEvent
  <2>2. CASE b \notin Workers
    BY <2>2, JobAt
  <2> QED BY <2>1, <2>2
<1>6. k.at = "grant" => runs = 0
  BY <1>3 DEF Core, SharedTyped
<1> QED BY <1>1, <1>4, <1>5, <1>6, QuietMove DEF Core, SharedTyped

\* The end of a handler, and its failure anywhere.
LEMMA CoreHandlerEnds ==
    ASSUME Core, NEW w \in Workers, MarkProcessed(w) \/ HandlerFails(w)
    PROVE  Core'
<1> w \in Actors /\ "mark" \in Steps
  BY DEF Actors, Steps
<1>1. job' = [job EXCEPT ![w] = Idle] /\ UNCHANGED <<Provider, Attempt>> /\ faults' \in 0..MaxFaults
  BY PaymentBoundsAssumption DEF MarkProcessed, HandlerFails, Core, SharedTyped
<1>2. processed' \subseteq sent
  <2>1. CASE MarkProcessed(w)
    <3>1. job[w].task \in sent
      BY <2>1, JobAt DEF MarkProcessed
    <3> QED BY <2>1, <3>1 DEF MarkProcessed, Core, SharedTyped
  <2>2. CASE HandlerFails(w)
    BY <2>2 DEF HandlerFails, Core, SharedTyped
  <2> QED BY <2>1, <2>2
<1>3. JobGood(w, Idle) /\ Idle.at # "grant"
  BY IdleAt DEF JobGood
<1> QED BY <1>1, <1>2, <1>3, QuietMove

LEMMA CoreRequestCancel ==
    ASSUME Core, RequestCancel
    PROVE  Core'
<1> "user" \in Actors
  BY DEF Actors
<1> PICK k : k = [Job("update", "cancel") EXCEPT !.seen = status]
  OBVIOUS
<1>1. /\ job' = [job EXCEPT !["user"] = k] /\ UNCHANGED <<Provider, Attempt>> /\ processed' = processed
      /\ faults' = faults
  BY DEF RequestCancel
<1>2. status \in Statuses /\ CanTransition(status, "Cancelled")
  BY DEF RequestCancel, Core, SharedTyped
<1>3. k = [at |-> "update", task |-> "cancel", seen |-> status, buckets |-> {}, recovered |-> 0]
  BY DEF Job
<1>4. k \in JobType /\ CanTransition(k.seen, Target(k.task))
  BY <1>2, <1>3, Targets DEF JobType, Steps, Tasks
<1>5. JobGood("user", k)
  BY <1>3, <1>4 DEF JobGood, Fulfilling, Recovering, Events, Successes, Failures
<1> QED BY <1>1, <1>3, <1>5, QuietMove DEF Core, SharedTyped

LEMMA CoreListExpired ==
    ASSUME Core, ListExpired
    PROVE  Core'
<1> "janitor" \in Actors
  BY DEF Actors
<1> DEFINE k == Job("update", "expiry")
<1>1. /\ job' = [job EXCEPT !["janitor"] = k] /\ UNCHANGED <<Provider, Attempt>> /\ processed' = processed
      /\ faults' = faults
  BY DEF ListExpired
<1>2. k.at = "update" /\ k.task = "expiry" /\ k.seen = "Pending" /\ k \in JobType
  BY FreshJob DEF Steps, Tasks
<1>3. CanTransition(k.seen, Target(k.task))
  BY <1>2, Targets DEF CanTransition
<1>4. JobGood("janitor", k)
  BY <1>2, <1>3 DEF JobGood, Fulfilling, Recovering, Events, Successes, Failures
<1> HIDE DEF k
<1> QED BY <1>1, <1>2, <1>4, QuietMove DEF Core, SharedTyped

-----------------------------------------------------------------------------
(* Core is kept by every action: the steps that write *)

\* update_payment_attempt_with_status_guard: the status is only moved from what
\* the actor read, so whatever it read, the attempt stays opened.
LEMMA CoreGuardedUpdate ==
    ASSUME Core, NEW a \in Actors, GuardedUpdate(a)
    PROVE  Core'
<1> DEFINE j == job[a]
           t == j.task
<1>1. j.at \in {"update", "overrule"} /\ {"update", "overrule"} \subseteq Steps
  BY DEF GuardedUpdate, Steps
<1>2. /\ j \in JobType /\ t \in Tasks /\ j.seen \in Statuses
      /\ t \in Events => t \in sent /\ a \in Workers
      /\ j.at = "update" => CanTransition(j.seen, Target(t))
      /\ j.at = "overrule" => t = "async_failed" /\ recoveries > 0 /\ j.seen = "Succeeded"
      /\ t = "completed_unpaid" => strategy # "conservative"
  BY <1>1, JobAt DEF JobType, Recovering
<1>3. t \in Successes \/ t \in Failures \/ t = "cancel" \/ t = "expiry"
  BY <1>2 DEF Tasks, Events
<1>4. /\ status' = IF status = j.seen THEN Target(t) ELSE status
      /\ UNCHANGED <<Provider, processed, runs, used, revoked, roles, debt, recoveries, overtaken, faults>>
  BY DEF GuardedUpdate
<1>5. Target(t) \in Terminal
  BY <1>3, Targets DEF Terminal
<1> PICK k : k = IF status \in {j.seen, Target(t)} THEN AfterUpdate(t) ELSE Idle
  OBVIOUS
<1>6. job' = [job EXCEPT ![a] = k]
  BY DEF GuardedUpdate
<1>7. /\ status \in Statuses /\ DOMAIN job = Actors /\ recoveries \in 0..2
      /\ recoveries > 0 => status \in {"Succeeded", "Failed"}
      /\ ~Opened => runs = 0 /\ ~roles
  BY DEF Core, SharedTyped, NothingUnopened
<1>8. recoveries > 0 => status' \in {"Succeeded", "Failed"}
  <2>1. CASE j.at = "overrule"
    <3>1. Target(t) = "Failed"
      BY <2>1, <1>2, Targets DEF Failures
    <3> QED BY <1>4, <1>7, <3>1
  <2>2. CASE j.at = "update"
    BY <2>2, <1>2, <1>4, <1>7 DEF CanTransition
  <2> QED BY <1>1, <2>1, <2>2
<1>9. Opened => Opened'
  <2>1. CASE j.at = "overrule"
    BY <2>1, <1>2, <1>4 DEF Opened
  <2>2. CASE j.at = "update"
    BY <2>2, <1>2, <1>4 DEF CanTransition, Opened
  <2> QED BY <1>1, <2>1, <2>2
<1>10. Later
  BY <1>4, <1>9 DEF Later, Provider
<1>11. JobGood(a, k)' /\ k.at # "grant"
  <2>1. CASE k = Idle
    BY <2>1, IdleAt DEF JobGood
  <2>2. CASE t \in Successes /\ k # Idle
    <3>1. /\ Job("claim", t) \in JobType /\ Job("claim", t).at = "claim" /\ Job("claim", t).task = t
      BY <1>2, FreshJob DEF Steps
    <3>2. k = Job("claim", t) /\ status' = "Succeeded"
      BY <2>2, <1>4, Targets
    <3>3. k \in JobType /\ k.at = "claim" /\ k.task = t
      BY <3>1, <3>2
    <3>4. t \in Events
      BY <2>2 DEF Events
    <3> QED BY <2>2, <3>2, <3>3, <3>4, <1>2, <1>4 DEF JobGood, Fulfilling, Recovering, Provider, Opened
  <2>3. CASE t \in Failures /\ k # Idle
    <3>1. /\ Job("mark", t) \in JobType /\ Job("mark", t).at = "mark" /\ Job("mark", t).task = t
      BY <1>2, FreshJob DEF Steps
    <3>2. k \in JobType /\ k.at = "mark" /\ k.task = t
      BY <2>3, <3>1, Targets
    <3>3. t \in Events
      BY <2>3 DEF Events
    <3> QED BY <2>3, <3>2, <3>3, <1>2, <1>4 DEF JobGood, Fulfilling, Recovering, Provider
  <2>4. CASE t = "cancel" \/ t = "expiry"
    BY <2>4, Targets, IdleAt DEF JobGood
  <2> QED BY <1>3, <2>1, <2>2, <2>3, <2>4
<1>12. JobsGood' /\ DOMAIN job' = Actors
  BY <1>6, <1>7, <1>10, <1>11, JobMoves DEF Core
<1>13. OneGrants'
  BY <1>4, <1>6, <1>7, <1>11, GrantMoves DEF Core
<1>14. SharedTyped'
  BY <1>4, <1>5, <1>7, <1>12 DEF Core, SharedTyped, Provider, Remaining, Statuses
<1>15. EventsTruthful' /\ NothingUnopened'
  BY <1>4, <1>7, <1>8, <1>9 DEF Core, EventsTruthful, NothingUnopened, Provider, Opened
<1> QED BY <1>12, <1>13, <1>14, <1>15 DEF Core

LEMMA CoreCheckFailed ==
    ASSUME Core, NEW w \in Workers, CheckFailed(w)
    PROVE  Core'
<1> w \in Actors /\ {"check", "revoke", "find"} \subseteq Steps
  BY DEF Actors, Steps
<1> PICK k : k = IF status = "Succeeded" THEN [job[w] EXCEPT !.at = "revoke", !.buckets = Buckets]
                   ELSE [job[w] EXCEPT !.at = "find"]
  OBVIOUS
<1>1. /\ job' = [job EXCEPT ![w] = k]
      /\ UNCHANGED <<Provider, processed, status, runs, used, revoked, roles, debt, overtaken, faults>>
      /\ recoveries' = IF status = "Succeeded" THEN Min({recoveries + 1, 2}) ELSE recoveries
  BY DEF CheckFailed
<1>2. job[w] \in JobType /\ job[w].task = "async_failed" /\ job[w].task \in Events /\ job[w].task \in sent
  BY JobAt DEF CheckFailed
<1>3. /\ k \in JobType /\ k.task = job[w].task
      /\ k.at = IF status = "Succeeded" THEN "revoke" ELSE "find"
  BY <1>2 DEF JobType
<1>4. recoveries \in 0..2 /\ DOMAIN job = Actors
  BY DEF Core, SharedTyped
<1>5. /\ recoveries' \in 0..2 /\ recoveries' >= recoveries
      /\ status = "Succeeded" => recoveries' > 0
      /\ status # "Succeeded" => recoveries' = recoveries
  BY <1>1, <1>4, RecoveryCounted
<1>6. Later
  BY <1>1, <1>4, <1>5 DEF Later, Provider, Opened
<1>7. JobGood(w, k)'
  BY <1>1, <1>2, <1>3, <1>5 DEF JobGood, Fulfilling, Recovering, Provider
<1>8. JobsGood' /\ DOMAIN job' = Actors
  BY <1>1, <1>4, <1>6, <1>7, JobMoves DEF Core
<1>9. OneGrants'
  <2>1. OneGrants /\ runs' = runs /\ k.at # "grant"
    BY <1>1, <1>3 DEF Core
  <2> QED BY <1>1, <1>4, <2>1, GrantMoves
<1>10. SharedTyped'
  BY <1>1, <1>5, <1>8 DEF Core, SharedTyped, Provider, Remaining
<1>11. EventsTruthful' /\ NothingUnopened'
  BY <1>1, <1>4, <1>5 DEF Core, EventsTruthful, NothingUnopened, Provider, Opened
<1> QED BY <1>8, <1>9, <1>10, <1>11 DEF Core

\* The worker that grants is the only one, and it is the first to grant.
LEMMA CoreGrantPoints ==
    ASSUME Core, NEW w \in Workers, GrantPoints(w)
    PROVE  Core'
<1> w \in Actors /\ {"grant", "roles"} \subseteq Steps
  BY DEF Actors, Steps
<1> PICK k : k = [job[w] EXCEPT !.at = "roles"]
  OBVIOUS
<1>1. /\ job' = [job EXCEPT ![w] = k] /\ runs' = runs + 1
      /\ overtaken' = (overtaken \/ recoveries > 0)
      /\ UNCHANGED <<Provider, processed, status, used, revoked, roles, debt, recoveries, faults>>
  BY DEF GrantPoints
<1>2. /\ job[w] \in JobType /\ job[w].at = "grant" /\ job[w].task \in Events /\ job[w].task \in sent
      /\ job[w].task \in Successes /\ Opened
      /\ job[w].task = "completed_unpaid" => strategy # "conservative"
  BY JobAt DEF GrantPoints, Fulfilling
<1>3. k \in JobType /\ k.task = job[w].task /\ k.at = "roles"
  BY <1>2, AtStep
<1>4. Later /\ DOMAIN job = Actors
  BY <1>1 DEF Later, Provider, Opened, Core, SharedTyped
<1>5. JobGood(w, k)'
  BY <1>1, <1>2, <1>3 DEF JobGood, Fulfilling, Recovering, Provider, Opened
<1>6. JobsGood' /\ DOMAIN job' = Actors
  BY <1>1, <1>4, <1>5, JobMoves DEF Core
<1>7. runs = 0 /\ runs' = 1 /\ \A b \in Actors : job[b].at = "grant" => b = w
  BY <1>1, <1>2 DEF Core, OneGrants
<1>8. OneGrants'
  <2>1. \A b \in Actors : job'[b].at # "grant"
    BY <1>1, <1>3, <1>4, <1>7
  <2> QED BY <1>7, <2>1 DEF OneGrants
<1>9. SharedTyped'
  <2>1. ASSUME NEW g \in Grants PROVE Remaining(g)' >= 0
    <3>1. Granted[g] \in Nat /\ used[g] \in Nat /\ revoked[g] \in Nat
      BY GrantedAssumption DEF Core, SharedTyped
    <3>2. 0 * Granted[g] - used[g] - revoked[g] >= 0
      BY <1>7 DEF Core, SharedTyped, Remaining
    <3>3. used[g] = 0 /\ revoked[g] = 0
      BY <3>1, <3>2
    <3>4. 1 * Granted[g] - used[g] - revoked[g] >= 0
      BY <3>1, <3>3
    <3> QED BY <1>1, <1>7, <3>4 DEF Remaining
  <2> QED BY <1>1, <1>6, <1>7, <2>1 DEF Core, SharedTyped, Provider
<1>10. EventsTruthful' /\ NothingUnopened'
  BY <1>1, <1>2 DEF Core, EventsTruthful, NothingUnopened, Provider, Opened
<1> QED BY <1>6, <1>8, <1>9, <1>10 DEF Core

LEMMA CoreGrantRoles ==
    ASSUME Core, NEW w \in Workers, GrantRoles(w)
    PROVE  Core'
<1> w \in Actors /\ {"roles", "mark"} \subseteq Steps
  BY DEF Actors, Steps
<1> PICK k : k = [job[w] EXCEPT !.at = "mark"]
  OBVIOUS
<1>1. /\ job' = [job EXCEPT ![w] = k] /\ roles' = TRUE
      /\ overtaken' = (overtaken \/ recoveries > 0)
      /\ UNCHANGED <<Provider, processed, status, runs, used, revoked, debt, recoveries, faults>>
  BY DEF GrantRoles
<1>2. job[w] \in JobType /\ job[w].task \in Events /\ job[w].task \in sent /\ Opened
  BY JobAt DEF GrantRoles, Fulfilling
<1>3. k \in JobType /\ k.task = job[w].task /\ k.at = "mark"
  BY <1>2, AtStep
<1>4. Later /\ DOMAIN job = Actors
  BY <1>1 DEF Later, Provider, Opened, Core, SharedTyped
<1>5. JobGood(w, k)'
  BY <1>1, <1>2, <1>3 DEF JobGood, Fulfilling, Recovering, Provider
<1>6. JobsGood' /\ DOMAIN job' = Actors
  BY <1>1, <1>4, <1>5, JobMoves DEF Core
<1>7. OneGrants'
  BY <1>1, <1>3, <1>4, GrantMoves DEF Core
<1>8. SharedTyped'
  BY <1>1, <1>6 DEF Core, SharedTyped, Provider, Remaining
<1>9. EventsTruthful' /\ NothingUnopened'
  BY <1>1, <1>2 DEF Core, EventsTruthful, NothingUnopened, Provider, Opened
<1> QED BY <1>6, <1>7, <1>8, <1>9 DEF Core

\* A row is revoked of what it has left, so it is never overdrawn.
LEMMA CoreRevokeBucket ==
    ASSUME Core, NEW w \in Workers, RevokeBucket(w)
    PROVE  Core'
<1> w \in Actors /\ "revoke" \in Steps
  BY DEF Actors, Steps
<1>1. /\ job[w] \in JobType /\ job[w].at = "revoke" /\ job[w].task \in Events /\ job[w].task \in sent
      /\ job[w].task = "async_failed" /\ recoveries > 0
  BY JobAt DEF RevokeBucket, Recovering
<1>2. /\ used \in [Grants -> Nat] /\ revoked \in [Grants -> Nat] /\ runs \in Nat
      /\ \A g \in Grants : Remaining(g) \in Nat
  <2>1. \A g \in Grants : runs * Granted[g] \in Nat
    BY GrantedAssumption DEF Core, SharedTyped
  <2> QED BY <2>1 DEF Core, SharedTyped, Remaining
<1>3. PICK k : /\ job' = [job EXCEPT ![w] = k]
               /\ k \in JobType /\ k.at = "revoke" /\ k.task = job[w].task
  <2>1. PICK b \in job[w].buckets :
          LET rows == {g \in Grants : Bucket[g] = b /\ Remaining(g) > 0}
              rest == [job[w] EXCEPT !.buckets = @ \ {b}]
          IN \/ job' = [job EXCEPT ![w] = rest]
             \/ \E g \in rows :
                  job' = [job EXCEPT ![w] = [rest EXCEPT !.recovered = @ + Remaining(g)]]
    BY DEF RevokeBucket
  <2> PICK rest : rest = [job[w] EXCEPT !.buckets = @ \ {b}]
    OBVIOUS
  <2>2. /\ rest \in JobType /\ rest.at = "revoke" /\ rest.task = job[w].task
    BY <1>1 DEF JobType
  <2>3. CASE job' = [job EXCEPT ![w] = rest]
    BY <2>2, <2>3
  <2>4. ASSUME NEW g \in Grants, job' = [job EXCEPT ![w] = [rest EXCEPT !.recovered = @ + Remaining(g)]]
        PROVE  \E k : /\ job' = [job EXCEPT ![w] = k]
                      /\ k \in JobType /\ k.at = "revoke" /\ k.task = job[w].task
    <3> PICK k : k = [rest EXCEPT !.recovered = @ + Remaining(g)]
      OBVIOUS
    <3>1. rest.recovered + Remaining(g) \in Nat
      BY <1>2, <2>2 DEF JobType
    <3>2. k \in JobType /\ k.at = "revoke" /\ k.task = job[w].task
      BY <2>2, <3>1 DEF JobType
    <3> QED BY <2>4, <3>2
  <2> QED BY <2>1, <2>3, <2>4
<1>4. UNCHANGED <<Provider, processed, status, runs, used, roles, debt, recoveries, overtaken, faults>>
  BY DEF RevokeBucket
<1>5. revoked' \in [Grants -> Nat] /\ \A g \in Grants : Remaining(g)' >= 0
  <2>1. CASE revoked' = revoked
    BY <1>2, <1>4, <2>1 DEF Remaining
  <2>2. ASSUME NEW g \in Grants, revoked' = [revoked EXCEPT ![g] = @ + Remaining(g)]
        PROVE  revoked' \in [Grants -> Nat] /\ \A h \in Grants : Remaining(h)' >= 0
    <3>1. revoked' \in [Grants -> Nat]
      BY <1>2, <2>2
    <3>2. ASSUME NEW h \in Grants PROVE Remaining(h)' >= 0
      <4>1. Granted[h] \in Nat /\ runs * Granted[h] \in Nat
        BY <1>2, GrantedAssumption
      <4>2. CASE h = g
        BY <1>2, <1>4, <2>2, <4>1, <4>2 DEF Remaining
      <4>3. CASE h # g
        BY <1>2, <1>4, <2>2, <4>3 DEF Remaining
      <4> QED BY <4>2, <4>3
    <3> QED BY <3>1, <3>2
  <2> QED BY <2>1, <2>2 DEF RevokeBucket
<1>6. Later /\ DOMAIN job = Actors
  BY <1>4 DEF Later, Provider, Opened, Core, SharedTyped
<1>7. JobGood(w, k)'
  BY <1>1, <1>3, <1>4 DEF JobGood, Fulfilling, Recovering, Provider
<1>8. JobsGood' /\ DOMAIN job' = Actors
  BY <1>3, <1>6, <1>7, JobMoves DEF Core
<1>9. OneGrants'
  BY <1>3, <1>4, <1>6, GrantMoves DEF Core
<1>10. SharedTyped'
  BY <1>4, <1>5, <1>8 DEF Core, SharedTyped, Provider
<1>11. EventsTruthful' /\ NothingUnopened'
  BY <1>4 DEF Core, EventsTruthful, NothingUnopened, Provider, Opened
<1> QED BY <1>8, <1>9, <1>10, <1>11 DEF Core

LEMMA CoreRevokeRoles ==
    ASSUME Core, NEW w \in Workers, RevokeRoles(w)
    PROVE  Core'
<1> w \in Actors /\ {"revoke", "debt"} \subseteq Steps
  BY DEF Actors, Steps
<1> PICK k : k = [job[w] EXCEPT !.at = "debt"]
  OBVIOUS
<1>1. /\ job' = [job EXCEPT ![w] = k] /\ roles' = FALSE
      /\ UNCHANGED <<Provider, processed, status, runs, used, revoked, debt, recoveries, overtaken, faults>>
  BY DEF RevokeRoles
<1>2. /\ job[w] \in JobType /\ job[w].task \in Events /\ job[w].task \in sent
      /\ job[w].task = "async_failed" /\ recoveries > 0
  BY JobAt DEF RevokeRoles, Recovering
<1>3. k \in JobType /\ k.task = job[w].task /\ k.at = "debt"
  BY <1>2, AtStep
<1>4. Later /\ DOMAIN job = Actors
  BY <1>1 DEF Later, Provider, Opened, Core, SharedTyped
<1>5. JobGood(w, k)'
  BY <1>1, <1>2, <1>3 DEF JobGood, Fulfilling, Recovering, Provider
<1>6. JobsGood' /\ DOMAIN job' = Actors
  BY <1>1, <1>4, <1>5, JobMoves DEF Core
<1>7. OneGrants'
  BY <1>1, <1>3, <1>4, GrantMoves DEF Core
<1>8. SharedTyped'
  BY <1>1, <1>6 DEF Core, SharedTyped, Provider, Remaining
<1>9. EventsTruthful' /\ NothingUnopened'
  BY <1>1, <1>2 DEF Core, EventsTruthful, NothingUnopened, Provider, Opened
<1> QED BY <1>6, <1>7, <1>8, <1>9 DEF Core

LEMMA CoreRecordDebt ==
    ASSUME Core, NEW w \in Workers, RecordDebt(w)
    PROVE  Core'
<1> w \in Actors /\ {"debt", "recover"} \subseteq Steps
  BY DEF Actors, Steps
<1> PICK k : k = Job("recover", job[w].task)
  OBVIOUS
<1>1. /\ job' = [job EXCEPT ![w] = k]
      /\ UNCHANGED <<Provider, processed, status, runs, used, revoked, roles, recoveries, overtaken, faults>>
  BY DEF RecordDebt
<1>2. /\ job[w] \in JobType /\ job[w].task \in Events /\ job[w].task \in sent
      /\ job[w].task = "async_failed" /\ recoveries > 0
  BY JobAt DEF RecordDebt, Recovering
<1>3. k \in JobType /\ k.task = job[w].task /\ k.at = "recover"
  BY <1>2, FreshJob DEF JobType
<1>4. Later /\ DOMAIN job = Actors
  BY <1>1 DEF Later, Provider, Opened, Core, SharedTyped
<1>5. JobGood(w, k)'
  BY <1>1, <1>2, <1>3 DEF JobGood, Fulfilling, Recovering, Provider
<1>6. JobsGood' /\ DOMAIN job' = Actors
  BY <1>1, <1>4, <1>5, JobMoves DEF Core
<1>7. OneGrants'
  BY <1>1, <1>3, <1>4, GrantMoves DEF Core
<1>8. debt' \in Nat
  <2>1. PICK g \in Grants : debt' = IF runs > 0 /\ job[w].recovered < Granted[g]
                                      THEN debt + Granted[g] - job[w].recovered ELSE debt
    BY DEF RecordDebt
  <2>2. debt \in Nat /\ Granted[g] \in Nat /\ job[w].recovered \in Nat
    BY <1>2, GrantedAssumption DEF Core, SharedTyped, JobType
  <2> QED BY <2>1, <2>2
<1>9. SharedTyped'
  BY <1>1, <1>6, <1>8 DEF Core, SharedTyped, Provider, Remaining
<1>10. EventsTruthful' /\ NothingUnopened'
  BY <1>1 DEF Core, EventsTruthful, NothingUnopened, Provider, Opened
<1> QED BY <1>6, <1>7, <1>9, <1>10 DEF Core

LEMMA CoreSpend ==
    ASSUME Core, NEW g \in Grants, Spend(g)
    PROVE  Core'
<1>1. /\ used' = [used EXCEPT ![g] = @ + 1] /\ Remaining(g) > 0
      /\ UNCHANGED <<Provider, processed, status, runs, revoked, roles, debt, job,
                     recoveries, overtaken, faults>>
  BY DEF Spend
<1>2. used \in [Grants -> Nat] /\ revoked \in [Grants -> Nat] /\ runs \in Nat
  BY DEF Core, SharedTyped
<1>3. ASSUME NEW h \in Grants PROVE Remaining(h)' >= 0
  <2>1. runs * Granted[h] \in Nat /\ Remaining(h) >= 0
    BY <1>2, GrantedAssumption DEF Core, SharedTyped
  <2>2. CASE h = g
    BY <1>1, <1>2, <2>1, <2>2 DEF Remaining
  <2>3. CASE h # g
    BY <1>1, <1>2, <2>1, <2>3 DEF Remaining
  <2> QED BY <2>2, <2>3
<1>4. SharedTyped'
  BY <1>1, <1>2, <1>3 DEF Core, SharedTyped, Provider
<1>5. Later
  BY <1>1 DEF Later, Provider, Opened
<1>6. JobsGood'
  BY <1>1, <1>5, JobsStay DEF Core
<1>7. EventsTruthful' /\ NothingUnopened' /\ OneGrants'
  BY <1>1 DEF Core, EventsTruthful, NothingUnopened, OneGrants, Provider, Opened
<1> QED BY <1>4, <1>6, <1>7 DEF Core

\* Stripe creates the events that fit what became of the session.
LEMMA CoreStripe ==
    ASSUME Core, Stripe
    PROVE  Core'
<1>1. UNCHANGED <<strategy, processed, Attempt, job, faults>> /\ sent \subseteq sent'
  BY DEF Stripe, Pay, PayLater, Settle, Bounce, SessionExpires, Decline, Report
<1>2. /\ session' \in {"open", "settling", "paid", "bounced", "expired"} /\ sent' \subseteq Events
  BY DEF Stripe, Pay, PayLater, Settle, Bounce, SessionExpires, Decline, Report,
         Core, SharedTyped, Events, Successes, Failures
<1>3. EventsTruthful'
  BY DEF Stripe, Pay, PayLater, Settle, Bounce, SessionExpires, Decline, Report,
         Core, EventsTruthful
<1>4. SharedTyped'
  BY <1>1, <1>2 DEF Core, SharedTyped, Attempt, Remaining
<1>5. Later
  BY <1>1 DEF Later, Attempt, Opened
<1>6. JobsGood'
  BY <1>1, <1>5, JobsStay DEF Core
<1>7. NothingUnopened' /\ OneGrants'
  BY <1>1 DEF Core, NothingUnopened, OneGrants, Attempt, Opened
<1> QED BY <1>3, <1>4, <1>6, <1>7 DEF Core

-----------------------------------------------------------------------------
LEMMA CoreInit == Init => Core
<1> SUFFICES ASSUME Init PROVE Core
  OBVIOUS
<1>1. SharedTyped
  <2>1. \A g \in Grants : Remaining(g) = 0
    <3> SUFFICES ASSUME NEW g \in Grants PROVE Remaining(g) = 0
      OBVIOUS
    <3>1. Granted[g] \in Nat
      BY GrantedAssumption
    <3>2. 0 * Granted[g] = 0
      BY <3>1
    <3> QED BY <3>2 DEF Init, Remaining
  <2>2. roles \in BOOLEAN /\ overtaken \in BOOLEAN
    BY DEF Init
  <2>3. used \in [Grants -> Nat] /\ revoked \in [Grants -> Nat] /\ DOMAIN job = Actors
    BY DEF Init
  <2>4. /\ sent \subseteq Events /\ processed \subseteq sent /\ status \in Statuses
        /\ runs \in Nat /\ debt \in Nat /\ faults \in 0..MaxFaults /\ recoveries \in 0..2
    BY PaymentBoundsAssumption DEF Init, Statuses
  <2> QED BY <2>1, <2>2, <2>3, <2>4 DEF Init, SharedTyped
<1>2. JobsGood
  BY DEF Init, JobsGood, JobGood
<1>3. OneGrants
  BY IdleAt DEF Init, OneGrants
<1>4. EventsTruthful /\ NothingUnopened
  BY DEF Init, EventsTruthful, NothingUnopened, Opened
<1> QED BY <1>1, <1>2, <1>3, <1>4 DEF Core

LEMMA CoreNext == Core /\ [Next]_vars => Core'
<1> SUFFICES ASSUME Core, [Next]_vars PROVE Core'
  OBVIOUS
<1>1. CASE UNCHANGED vars
  BY <1>1 DEF vars, Core, SharedTyped, JobsGood, JobGood, EventsTruthful, NothingUnopened,
              OneGrants, Opened, Remaining
<1>2. ASSUME NEW w \in Workers, HandlerStep(w) \/ StrategyUnreadable(w) \/ HandlerFails(w)
      PROVE  Core'
  <2>1. w \in Actors
    BY DEF Actors
  <2> QED BY <1>2, <2>1, CoreFindAttempt, CoreFindForRecovery, CoreReadStrategy, CoreStrategyUnreadable,
             CoreCheckSucceeded, CoreCheckFailed, CoreGuardedUpdate, CoreClaimEvent, CoreGrantPoints,
             CoreGrantRoles, CoreRevokeBucket, CoreRevokeRoles, CoreRecordDebt, CoreHandlerEnds
          DEF HandlerStep
<1>3. ASSUME NEW w \in Workers, NEW e \in Events, Deliver(w, e) PROVE Core'
  BY <1>3, CoreDeliver
<1>4. CASE RequestCancel \/ ListExpired
  BY <1>4, CoreRequestCancel, CoreListExpired
<1>5. ASSUME NEW a \in {"user", "janitor"}, GuardedUpdate(a) PROVE Core'
  BY <1>5, CoreGuardedUpdate DEF Actors
<1>6. ASSUME NEW g \in Grants, Spend(g) PROVE Core'
  BY <1>6, CoreSpend
<1>7. CASE Stripe
  BY <1>7, CoreStripe
<1> QED BY <1>1, <1>2, <1>3, <1>4, <1>5, <1>6, <1>7 DEF Next

\* The inductive invariant of the handler protocol.
THEOREM CoreInvariant == Spec => []Core
<1> QED BY CoreInit, CoreNext, PTL DEF Spec

\* Every column keeps its range: no row of the ledger is overdrawn by spending
\* and revoking it, whatever handlers run at once.
THEOREM PaymentTyped == Spec => []TypeOK
<1>1. Core => TypeOK
  BY DEF Core, SharedTyped, JobsGood, JobGood, JobType, TypeOK
<1> QED BY <1>1, CoreInvariant, PTL

\* An attempt that lost the race against a cancel or the expiry job is never
\* fulfilled.
THEOREM RewardOnlyAfterSuccess == Spec => []RewardNeedsSuccess
<1>1. Core => RewardNeedsSuccess
  BY DEF Core, SharedTyped, NothingUnopened, Opened, RewardNeedsSuccess
<1> QED BY <1>1, CoreInvariant, PTL

\* The captured rules grant their rows once, however many success events are
\* fulfilled at the same time.
THEOREM PurchaseGrantedOnce == Spec => []GrantedOnce
<1>1. Core => GrantedOnce
  BY DEF Core, OneGrants, GrantedOnce
<1> QED BY <1>1, CoreInvariant, PTL

-----------------------------------------------------------------------------
(* The status *)

\* Only the guarded update writes the status.
LEMMA StatusWriter ==
    ASSUME Next, status' # status
    PROVE  \E a \in Actors : GuardedUpdate(a)
<1>1. ASSUME NEW w \in Workers, HandlerStep(w) \/ StrategyUnreadable(w) \/ HandlerFails(w)
      PROVE  GuardedUpdate(w)
  BY <1>1 DEF HandlerStep, ReadStrategy, CheckSucceeded, CheckFailed, FindAttempt, FindForRecovery,
              ClaimEvent, GrantPoints, GrantRoles, RevokeBucket, RevokeRoles, RecordDebt,
              MarkProcessed, StrategyUnreadable, HandlerFails, Attempt
<1>2. ~ \E w \in Workers, e \in Events : Deliver(w, e)
  BY DEF Deliver, Attempt
<1>3. ~ (RequestCancel \/ ListExpired) /\ ~ \E g \in Grants : Spend(g)
  BY DEF RequestCancel, ListExpired, Spend, Attempt
<1>4. ~ Stripe
  BY DEF Stripe, Pay, PayLater, Settle, Bounce, SessionExpires, Decline, Report, Attempt
<1> QED BY <1>1, <1>2, <1>3, <1>4 DEF Next, Actors

\* A terminal status is final but for a recovery, whatever a late writer has
\* read before.
THEOREM TerminalFinal == Spec => TerminalIsFinal
<1>1. ASSUME Core, [Next]_vars
      PROVE  [(status \in Terminal /\ status' # status) =>
                (status = "Succeeded" /\ status' = "Failed" /\ recoveries > 0)]_vars
  <2> SUFFICES ASSUME status \in Terminal, status' # status
               PROVE  status = "Succeeded" /\ status' = "Failed" /\ recoveries > 0
    OBVIOUS
  <2>1. Next
    BY <1>1 DEF vars
  <2>2. PICK a \in Actors : GuardedUpdate(a)
    BY <2>1, StatusWriter
  <2>3. job[a].at \in {"update", "overrule"} /\ {"update", "overrule"} \subseteq Steps
    BY <2>2 DEF GuardedUpdate, Steps
  <2>4. status = job[a].seen /\ status' = Target(job[a].task)
    BY <2>2 DEF GuardedUpdate
  <2>5. CASE job[a].at = "update"
    <3>1. CanTransition(job[a].seen, Target(job[a].task))
      BY <1>1, <2>3, <2>5, JobAt
    <3> QED BY <2>4, <3>1 DEF CanTransition, Terminal
  <2>6. CASE job[a].at = "overrule"
    <3>1. job[a].task = "async_failed" /\ recoveries > 0 /\ job[a].seen = "Succeeded"
      BY <1>1, <2>3, <2>6, JobAt DEF Recovering
    <3>2. Target("async_failed") = "Failed"
      BY Targets DEF Failures
    <3> QED BY <2>4, <3>1, <3>2
  <2> QED BY <2>3, <2>5, <2>6
<1> QED BY <1>1, CoreInvariant, PTL DEF Spec, TerminalIsFinal

-----------------------------------------------------------------------------
(* Who is paid for *)

\* Only a fulfilment adds to what the user holds.
LEMMA RewardWriters ==
    ASSUME Next
    PROVE  \/ \E w \in Workers : GrantPoints(w) \/ GrantRoles(w)
           \/ runs' = runs /\ (roles' => roles) /\ overtaken' = overtaken
<1>1. ASSUME NEW w \in Workers, HandlerStep(w) \/ StrategyUnreadable(w) \/ HandlerFails(w)
      PROVE  \/ GrantPoints(w) \/ GrantRoles(w)
             \/ runs' = runs /\ (roles' => roles) /\ overtaken' = overtaken
  BY <1>1 DEF HandlerStep, ReadStrategy, CheckSucceeded, CheckFailed, FindAttempt, FindForRecovery,
              ClaimEvent, GuardedUpdate, RevokeBucket, RevokeRoles, RecordDebt,
              MarkProcessed, StrategyUnreadable, HandlerFails, Attempt
<1>2. ASSUME NEW w \in Workers, NEW e \in Events, Deliver(w, e)
      PROVE  runs' = runs /\ (roles' => roles) /\ overtaken' = overtaken
  BY <1>2 DEF Deliver, Attempt
<1>3. ASSUME RequestCancel \/ ListExpired \/ \E g \in Grants : Spend(g)
      PROVE  runs' = runs /\ (roles' => roles) /\ overtaken' = overtaken
  BY <1>3 DEF RequestCancel, ListExpired, Spend, Attempt
<1>4. ASSUME Stripe
      PROVE  runs' = runs /\ (roles' => roles) /\ overtaken' = overtaken
  BY <1>4 DEF Stripe, Pay, PayLater, Settle, Bounce, SessionExpires, Decline, Report, Attempt
<1>5. ASSUME NEW a \in {"user", "janitor"}, GuardedUpdate(a)
      PROVE  runs' = runs /\ (roles' => roles) /\ overtaken' = overtaken
  BY <1>5 DEF GuardedUpdate
<1> QED BY <1>1, <1>2, <1>3, <1>4, <1>5 DEF Next

\* The strategy stays, and so does a payment.
LEMMA PaymentStays ==
    ASSUME Next
    PROVE  strategy' = strategy /\ (session = "paid" => session' = "paid")
<1>1. ASSUME NEW w \in Workers, HandlerStep(w) \/ StrategyUnreadable(w) \/ HandlerFails(w)
      PROVE  UNCHANGED <<strategy, session>>
  BY <1>1 DEF HandlerStep, ReadStrategy, CheckSucceeded, CheckFailed, FindAttempt, FindForRecovery,
              ClaimEvent, GrantPoints, GrantRoles, GuardedUpdate, RevokeBucket, RevokeRoles, RecordDebt,
              MarkProcessed, StrategyUnreadable, HandlerFails, Provider
<1>2. ASSUME NEW w \in Workers, NEW e \in Events, Deliver(w, e)
      PROVE  UNCHANGED <<strategy, session>>
  BY <1>2 DEF Deliver, Provider
<1>3. ASSUME RequestCancel \/ ListExpired \/ \E g \in Grants : Spend(g)
      PROVE  UNCHANGED <<strategy, session>>
  BY <1>3 DEF RequestCancel, ListExpired, Spend, Provider
<1>4. ASSUME NEW a \in {"user", "janitor"}, GuardedUpdate(a)
      PROVE  UNCHANGED <<strategy, session>>
  BY <1>4 DEF GuardedUpdate, Provider
<1>5. ASSUME Stripe
      PROVE  strategy' = strategy /\ (session = "paid" => session' = "paid")
  BY <1>5 DEF Stripe, Pay, PayLater, Settle, Bounce, SessionExpires, Decline, Report
<1> QED BY <1>1, <1>2, <1>3, <1>4, <1>5 DEF Next

\* Under the conservative strategy only a paid purchase is fulfilled, although
\* the event of an unpaid checkout is a success event as well.
THEOREM ConservativeOnlyPaid == Spec => []ConservativeGrantsPaid
<1>1. Init => ConservativeGrantsPaid
  BY DEF Init, ConservativeGrantsPaid
<1>2. ASSUME Core, ConservativeGrantsPaid, [Next]_vars
      PROVE  ConservativeGrantsPaid'
  <2>1. CASE UNCHANGED vars
    BY <1>2, <2>1 DEF vars, ConservativeGrantsPaid
  <2>2. CASE Next
    <3>1. strategy' = strategy /\ (session = "paid" => session' = "paid")
      BY <2>2, PaymentStays
    <3>2. ASSUME NEW w \in Workers, GrantPoints(w) \/ GrantRoles(w), strategy = "conservative"
          PROVE  session = "paid"
      <4>1. job[w].at \in {"grant", "roles"} /\ w \in Actors /\ {"grant", "roles"} \subseteq Steps
        BY <3>2 DEF GrantPoints, GrantRoles, Actors, Steps
      <4>2. job[w].task \in Successes \ {"completed_unpaid"} /\ job[w].task \in sent
        BY <1>2, <3>2, <4>1, JobAt DEF Fulfilling
      <4> QED BY <1>2, <4>2 DEF Core, EventsTruthful, Successes
    <3>3. CASE \E w \in Workers : GrantPoints(w) \/ GrantRoles(w)
      BY <3>1, <3>2, <3>3 DEF ConservativeGrantsPaid
    <3>4. CASE runs' = runs /\ (roles' => roles)
      BY <1>2, <3>1, <3>4 DEF ConservativeGrantsPaid
    <3> QED BY <2>2, <3>3, <3>4, RewardWriters
  <2> QED BY <1>2, <2>1, <2>2
<1> QED BY <1>1, <1>2, CoreInvariant, PTL DEF Spec

-----------------------------------------------------------------------------
(* Taking a purchase back.  The code revokes one row per bucket and run, so  *)
(* these results are about purchases whose rows lie in buckets of their own. *)

\* A step of a handler that is no recovery, of the user or of Stripe.
Bystander ==
    /\ \A a \in Actors : job'[a] = job[a] \/ job'[a].at \notin Recovering
    /\ UNCHANGED <<revoked, debt, recoveries>>

\* A step of a recovery.
RecoveryStep(w) ==
    \/ CheckFailed(w) \/ FindForRecovery(w) \/ RevokeBucket(w) \/ RevokeRoles(w) \/ RecordDebt(w)

\* A job that moves to a step that belongs to no recovery.
LEMMA MovesAside ==
    ASSUME DOMAIN job = Actors, NEW w \in Actors, NEW k, job' = [job EXCEPT ![w] = k],
           k.at \notin Recovering
    PROVE  \A a \in Actors : job'[a] = job[a] \/ job'[a].at \notin Recovering
OBVIOUS

\* Every step is one of a recovery or a bystander's.
LEMMA StepKinds ==
    ASSUME Core, Next
    PROVE  Bystander \/ \E w \in Workers : RecoveryStep(w)
<1>1. DOMAIN job = Actors /\ Workers \subseteq Actors /\ {"user", "janitor"} \subseteq Actors
  BY DEF Core, SharedTyped, Actors
<1>2. ASSUME NEW w \in Workers, FindAttempt(w) PROVE Bystander
  <2>1. job[w] \in JobType
    BY <1>1, <1>2, JobAt DEF FindAttempt, Steps
  <2>2. PICK k : /\ k = IF CanTransition(status, Target(job[w].task))
                          THEN [job[w] EXCEPT !.at = "update", !.seen = status] ELSE Idle
                 /\ job' = [job EXCEPT ![w] = k]
    BY <1>2 DEF FindAttempt
  <2>3. k.at \notin Recovering
    BY <2>1, <2>2, IdleAt DEF JobType, Recovering
  <2> QED BY <1>1, <1>2, <2>2, <2>3, MovesAside DEF Bystander, FindAttempt, Attempt
<1>3. ASSUME NEW a \in Actors, GuardedUpdate(a) PROVE Bystander
  <2>1. job[a] \in JobType
    BY <1>1, <1>3, JobAt DEF GuardedUpdate, Steps
  <2>2. PICK k : /\ k = IF status \in {job[a].seen, Target(job[a].task)} THEN AfterUpdate(job[a].task) ELSE Idle
                 /\ job' = [job EXCEPT ![a] = k]
    BY <1>3 DEF GuardedUpdate
  <2>3. k = Idle \/ \E t \in Tasks : k = Job("claim", t) \/ k = Job("mark", t)
    BY <2>1, <2>2, Targets DEF JobType, Tasks, Events
  <2>4. k.at \notin Recovering
    BY <2>3, IdleAt, FreshJob DEF Recovering, Steps
  <2> QED BY <1>1, <1>3, <2>2, <2>4, MovesAside DEF Bystander, GuardedUpdate
<1>4. ASSUME NEW w \in Workers, NEW e \in Events, Deliver(w, e) PROVE Bystander
  <2>1. PICK k : k = Job(FirstStep(e), e) /\ job' = [job EXCEPT ![w] = k]
    BY <1>4 DEF Deliver
  <2>2. k.at \notin Recovering
    BY <2>1, FirstSteps, FreshJob DEF Recovering, Steps, Tasks
  <2> QED BY <1>1, <1>4, <2>1, <2>2, MovesAside DEF Bystander, Deliver, Attempt
<1>5. ASSUME NEW w \in Workers,
             ReadStrategy(w) \/ StrategyUnreadable(w) \/ CheckSucceeded(w) \/ ClaimEvent(w)
               \/ GrantPoints(w) \/ GrantRoles(w)
      PROVE  Bystander
  <2>1. job[w] \in JobType
    BY <1>1, <1>5, JobAt DEF ReadStrategy, StrategyUnreadable, CheckSucceeded, ClaimEvent,
                             GrantPoints, GrantRoles, Steps
  <2>2. PICK s \in {"find", "mark", "roles", "grant"} : job' = [job EXCEPT ![w].at = s]
    BY <1>5 DEF ReadStrategy, StrategyUnreadable, CheckSucceeded, ClaimEvent, GrantPoints, GrantRoles
  <2>3. PICK k : k = [job[w] EXCEPT !.at = s] /\ job' = [job EXCEPT ![w] = k]
    BY <2>2
  <2>4. k.at \notin Recovering
    BY <2>1, <2>3, AtStep DEF Recovering, Steps
  <2>5. UNCHANGED <<revoked, debt, recoveries>>
    BY <1>5 DEF ReadStrategy, StrategyUnreadable, CheckSucceeded, ClaimEvent, GrantPoints, GrantRoles, Attempt
  <2> QED BY <1>1, <2>3, <2>4, <2>5, MovesAside DEF Bystander
<1>6. ASSUME NEW w \in Workers, MarkProcessed(w) \/ HandlerFails(w) PROVE Bystander
  <2>1. job' = [job EXCEPT ![w] = Idle] /\ UNCHANGED <<revoked, debt, recoveries>>
    BY <1>6 DEF MarkProcessed, HandlerFails, Attempt
  <2>2. Idle.at \notin Recovering
    BY IdleAt DEF Recovering
  <2> QED BY <1>1, <2>1, <2>2, MovesAside DEF Bystander
<1>7. CASE RequestCancel
  <2>1. PICK k : k = [Job("update", "cancel") EXCEPT !.seen = status] /\ job' = [job EXCEPT !["user"] = k]
    BY <1>7 DEF RequestCancel
  <2>2. k.at \notin Recovering
    BY <2>1 DEF Job, Recovering
  <2> QED BY <1>1, <1>7, <2>1, <2>2, MovesAside DEF Bystander, RequestCancel, Attempt
<1>8. CASE ListExpired
  <2>1. PICK k : k = Job("update", "expiry") /\ job' = [job EXCEPT !["janitor"] = k]
    BY <1>8 DEF ListExpired
  <2>2. k.at \notin Recovering
    BY <2>1 DEF Job, Recovering
  <2> QED BY <1>1, <1>8, <2>1, <2>2, MovesAside DEF Bystander, ListExpired, Attempt
<1>9. ASSUME NEW g \in Grants, Spend(g) PROVE Bystander
  BY <1>9 DEF Bystander, Spend
<1>10. CASE Stripe
  BY <1>10 DEF Bystander, Stripe, Pay, PayLater, Settle, Bounce, SessionExpires, Decline, Report, Attempt
<1> QED BY <1>1, <1>2, <1>3, <1>4, <1>5, <1>6, <1>7, <1>8, <1>9, <1>10
        DEF Next, HandlerStep, RecoveryStep

\* An attempt that was never Succeeded has nothing left to take back.
LEMMA NothingGranted ==
    ASSUME Core, runs = 0
    PROVE  \A g \in Grants : Remaining(g) = 0
<1> SUFFICES ASSUME NEW g \in Grants PROVE Remaining(g) = 0
  OBVIOUS
<1>1. Granted[g] \in Nat /\ used[g] \in Nat /\ revoked[g] \in Nat
  BY GrantedAssumption DEF Core, SharedTyped
<1>2. 0 * Granted[g] - used[g] - revoked[g] >= 0
  BY DEF Core, SharedTyped, Remaining
<1>3. 0 * Granted[g] - used[g] - revoked[g] = 0
  BY <1>1, <1>2
<1> QED BY <1>3 DEF Remaining

\* Spending never brings a row back, and leaves the rows that are used up alone.
LEMMA SpendKeepsEmpty ==
    ASSUME Core, NEW g \in Grants, Spend(g), NEW h \in Grants, Remaining(h) = 0
    PROVE  Remaining(h)' = 0
<1>1. h # g
  BY DEF Spend
<1>2. used \in [Grants -> Nat] /\ used'[h] = used[h]
  BY <1>1 DEF Spend, Core, SharedTyped
<1> QED BY <1>2 DEF Spend, Remaining

\* Only the user spends.
LEMMA UsedWriter ==
    ASSUME Next
    PROVE  used' = used \/ \E g \in Grants : Spend(g)
<1>1. ASSUME NEW w \in Workers, HandlerStep(w) \/ StrategyUnreadable(w) \/ HandlerFails(w)
      PROVE  used' = used
  BY <1>1 DEF HandlerStep, ReadStrategy, CheckSucceeded, CheckFailed, FindAttempt, FindForRecovery,
              ClaimEvent, GrantPoints, GrantRoles, GuardedUpdate, RevokeBucket, RevokeRoles, RecordDebt,
              MarkProcessed, StrategyUnreadable, HandlerFails, Attempt
<1>2. ASSUME NEW w \in Workers, NEW e \in Events, Deliver(w, e)
      PROVE  used' = used
  BY <1>2 DEF Deliver, Attempt
<1>3. ASSUME RequestCancel \/ ListExpired
      PROVE  used' = used
  BY <1>3 DEF RequestCancel, ListExpired, Attempt
<1>4. ASSUME NEW a \in {"user", "janitor"}, GuardedUpdate(a)
      PROVE  used' = used
  BY <1>4 DEF GuardedUpdate
<1>5. ASSUME Stripe
      PROVE  used' = used
  BY <1>5 DEF Stripe, Pay, PayLater, Settle, Bounce, SessionExpires, Decline, Report, Attempt
<1> QED BY <1>1, <1>2, <1>3, <1>4, <1>5 DEF Next

\* What has been taken back stays taken back, unless a fulfilment is recorded to
\* have overtaken the recovery.
LEMMA StaysTakenBack ==
    ASSUME Core, Next, revoked' = revoked, ~overtaken',
           recoveries > 0 \/ status # "Succeeded"
    PROVE  /\ ~overtaken
           /\ \A g \in Grants : Emptied(Bucket[g]) => Emptied(Bucket[g])'
           /\ TakenBack => TakenBack'
<1>1. ASSUME NEW w \in Workers, GrantPoints(w) \/ GrantRoles(w) PROVE FALSE
  <2>1. job[w].at \in {"grant", "roles"} /\ w \in Actors /\ {"grant", "roles"} \subseteq Steps
    BY <1>1 DEF GrantPoints, GrantRoles, Actors, Steps
  <2>2. Opened
    BY <2>1, JobAt DEF Fulfilling
  <2>3. recoveries > 0
    BY <2>2 DEF Opened
  <2> QED BY <1>1, <2>3 DEF GrantPoints, GrantRoles
<1>2. runs' = runs /\ (roles' => roles) /\ overtaken' = overtaken
  BY <1>1, RewardWriters
<1>3. ASSUME NEW h \in Grants, Remaining(h) = 0 PROVE Remaining(h)' = 0
  <2>1. CASE used' = used
    BY <1>2, <1>3, <2>1 DEF Remaining
  <2>2. CASE \E g \in Grants : Spend(g)
    BY <1>3, <2>2, SpendKeepsEmpty
  <2> QED BY <2>1, <2>2, UsedWriter
<1>4. \A g \in Grants : Emptied(Bucket[g]) => Emptied(Bucket[g])'
  BY <1>3 DEF Emptied
<1> QED BY <1>2, <1>4 DEF TakenBack

\* A bystander leaves every recovery as far as it has come.
LEMMA RecoveryBystander ==
    ASSUME Core, RecoverySound, Next, Bystander
    PROVE  RecoverySound'
<1> SUFFICES ASSUME ~overtaken' PROVE
      /\ \A w \in Actors :
           /\ job'[w].at = "revoke" =>
                \A g \in Grants : Bucket[g] \notin job'[w].buckets => Emptied(Bucket[g])'
           /\ job'[w].at \in {"debt", "recover", "overrule"} => TakenBack'
      /\ status' = "Failed" => TakenBack'
  BY DEF RecoverySound
<1>1. revoked' = revoked
  BY DEF Bystander
<1>2. ASSUME NEW w \in Actors, job'[w].at \in Recovering
      PROVE  /\ job'[w].at = "revoke" =>
                  \A g \in Grants : Bucket[g] \notin job'[w].buckets => Emptied(Bucket[g])'
             /\ job'[w].at \in {"debt", "recover", "overrule"} => TakenBack'
  <2>1. job'[w] = job[w] /\ job[w].at \in Steps
    BY <1>2 DEF Bystander, Recovering, Steps
  <2>2. recoveries > 0
    BY <1>2, <2>1, JobAt
  <2>3. /\ ~overtaken /\ (TakenBack => TakenBack')
        /\ \A g \in Grants : Emptied(Bucket[g]) => Emptied(Bucket[g])'
    BY <1>1, <2>2, StaysTakenBack
  <2> QED BY <2>1, <2>3 DEF RecoverySound
<1>3. ASSUME status' = "Failed" PROVE TakenBack'
  <2>1. CASE status' = status
    <3>1. ~overtaken /\ (TakenBack => TakenBack')
      BY <1>1, <1>3, <2>1, StaysTakenBack
    <3> QED BY <1>3, <2>1, <3>1 DEF RecoverySound
  <2>2. CASE status' # status
    <3>1. PICK a \in Actors : GuardedUpdate(a)
      BY <2>2, StatusWriter
    <3>2. /\ job[a].at \in {"update", "overrule"} /\ {"update", "overrule"} \subseteq Steps
          /\ status = job[a].seen /\ status' = Target(job[a].task)
      BY <2>2, <3>1 DEF GuardedUpdate, Steps
    <3>3. UNCHANGED <<runs, used, revoked, roles, overtaken>>
      BY <3>1 DEF GuardedUpdate
    <3>4. TakenBack
      <4>1. CASE job[a].at = "overrule"
        BY <3>3, <4>1 DEF RecoverySound
      <4>2. CASE job[a].at = "update"
        <5>1. status = "Pending"
          BY <2>2, <3>2, <4>2, JobAt DEF CanTransition
        <5>2. ~Opened
          BY <5>1 DEF Core, NothingUnopened, Opened
        <5>3. runs = 0 /\ ~roles
          BY <5>2 DEF Core, NothingUnopened
        <5> QED BY <5>3, NothingGranted DEF TakenBack, Emptied
      <4> QED BY <3>2, <4>1, <4>2
    <3> QED BY <3>3, <3>4 DEF TakenBack, Emptied, Remaining
  <2> QED BY <2>1, <2>2
<1> QED BY <1>2, <1>3 DEF Recovering

\* A revocation leaves an emptied row in its bucket and counts what it took.
LEMMA RevokeBucketDoes ==
    ASSUME Core, NEW w \in Workers, RevokeBucket(w)
    PROVE  \E b \in job[w].buckets, n \in Nat : \E k :
             /\ job' = [job EXCEPT ![w] = k]
             /\ k.at = "revoke" /\ k.buckets = job[w].buckets \ {b}
             /\ k.recovered = job[w].recovered + n
             /\ SumOf(revoked', Grants) = SumOf(revoked, Grants) + n
             /\ \A h \in Grants : Remaining(h) = 0 => Remaining(h)' = 0
             /\ \A h \in Grants : Bucket[h] = b => Emptied(Bucket[h])'
<1>1. job[w] \in JobType /\ job[w].at = "revoke"
  BY JobAt DEF RevokeBucket, Actors, Steps
<1>2. /\ used \in [Grants -> Nat] /\ revoked \in [Grants -> Nat] /\ runs \in Nat
      /\ \A g \in Grants : runs * Granted[g] \in Nat /\ Remaining(g) \in Nat
  <2>1. \A g \in Grants : runs * Granted[g] \in Nat
    BY GrantedAssumption DEF Core, SharedTyped
  <2> QED BY <2>1 DEF Core, SharedTyped, Remaining
<1>3. UNCHANGED <<runs, used>>
  BY DEF RevokeBucket
<1>4. PICK b \in job[w].buckets :
        LET rows == {g \in Grants : Bucket[g] = b /\ Remaining(g) > 0}
            rest == [job[w] EXCEPT !.buckets = @ \ {b}]
        IN \/ /\ rows = {}
              /\ job' = [job EXCEPT ![w] = rest]
              /\ UNCHANGED revoked
           \/ \E g \in rows :
                /\ revoked' = [revoked EXCEPT ![g] = @ + Remaining(g)]
                /\ job' = [job EXCEPT ![w] = [rest EXCEPT !.recovered = @ + Remaining(g)]]
  BY DEF RevokeBucket
<1> PICK rest : rest = [job[w] EXCEPT !.buckets = @ \ {b}]
  OBVIOUS
<1>5. /\ rest \in JobType /\ rest.at = "revoke" /\ rest.buckets = job[w].buckets \ {b}
      /\ rest.recovered = job[w].recovered
  BY <1>1 DEF JobType
<1>6. SumOf(revoked, Grants) \in Nat
  BY <1>2, SumNat, GrantedAssumption
<1>7. CASE /\ {g \in Grants : Bucket[g] = b /\ Remaining(g) > 0} = {}
           /\ job' = [job EXCEPT ![w] = rest] /\ revoked' = revoked
  <2>1. \A h \in Grants : Remaining(h)' = Remaining(h)
    BY <1>3, <1>7 DEF Remaining
  <2>2. ASSUME NEW h \in Grants, Bucket[h] = b PROVE Emptied(Bucket[h])'
    <3>1. Remaining(h) = 0
      BY <1>2, <1>7, <2>2
    <3> QED BY <2>1, <3>1 DEF Emptied
  <2>3. SumOf(revoked', Grants) = SumOf(revoked, Grants) + 0
    BY <1>6, <1>7
  <2>4. rest.recovered = job[w].recovered + 0
    BY <1>1, <1>5 DEF JobType
  <2> QED BY <1>5, <1>7, <2>1, <2>2, <2>3, <2>4
<1>8. ASSUME NEW g \in Grants, Bucket[g] = b, Remaining(g) > 0,
             revoked' = [revoked EXCEPT ![g] = @ + Remaining(g)],
             job' = [job EXCEPT ![w] = [rest EXCEPT !.recovered = @ + Remaining(g)]]
      PROVE  \E n \in Nat : \E k :
               /\ job' = [job EXCEPT ![w] = k]
               /\ k.at = "revoke" /\ k.buckets = job[w].buckets \ {b}
               /\ k.recovered = job[w].recovered + n
               /\ SumOf(revoked', Grants) = SumOf(revoked, Grants) + n
               /\ \A h \in Grants : Remaining(h) = 0 => Remaining(h)' = 0
               /\ \A h \in Grants : Bucket[h] = b => Emptied(Bucket[h])'
  <2> PICK n \in Nat : n = Remaining(g)
    BY <1>2
  <2> PICK k : k = [rest EXCEPT !.recovered = @ + n]
    OBVIOUS
  <2>1. /\ job' = [job EXCEPT ![w] = k] /\ k.at = "revoke" /\ k.buckets = job[w].buckets \ {b}
        /\ k.recovered = job[w].recovered + n
    BY <1>5, <1>8 DEF JobType
  <2>2. SumOf(revoked', Grants) = SumOf(revoked, Grants) + n
    <3>1. /\ revoked'[g] = revoked[g] + n /\ \A x \in Grants \ {g} : revoked'[x] = revoked[x]
      BY <1>2, <1>8
    <3>2. \A x \in Grants : revoked[x] \in Int
      BY <1>2
    <3>3. revoked[g] + n \in Int /\ revoked[g] \in Int
      BY <3>2
    <3>4. SumOf(revoked', Grants) = SumOf(revoked, Grants) - revoked[g] + revoked'[g]
      BY <3>1, <3>2, <3>3, SumUpdate, GrantedAssumption
    <3> QED BY <1>6, <3>1, <3>3, <3>4
  <2>3. Remaining(g)' = 0
    <3>1. revoked'[g] = revoked[g] + Remaining(g)
      BY <1>2, <1>8
    <3> QED BY <1>2, <1>3, <3>1 DEF Remaining
  <2>4. ASSUME NEW h \in Grants, Remaining(h) = 0 PROVE Remaining(h)' = 0
    <3>1. CASE h = g
      BY <2>3, <3>1
    <3>2. CASE h # g
      <4>1. revoked'[h] = revoked[h]
        BY <1>2, <1>8, <3>2
      <4> QED BY <1>3, <2>4, <4>1 DEF Remaining
    <3> QED BY <3>1, <3>2
  <2>5. \A h \in Grants : Bucket[h] = b => Emptied(Bucket[h])'
    BY <1>8, <2>3 DEF Emptied
  <2> QED BY <2>1, <2>2, <2>4, <2>5
<1> QED BY <1>4, <1>7, <1>8

\* A recovery goes on: what it has handled is taken back.
LEMMA RecoveryGoesOn ==
    ASSUME Core, RecoverySound, NEW w \in Workers, RecoveryStep(w)
    PROVE  RecoverySound'
<1>1. w \in Actors /\ DOMAIN job = Actors
  BY DEF Actors, Core, SharedTyped
<1>2. CASE CheckFailed(w)
  <2>1. job[w] \in JobType
    BY <1>1, <1>2, JobAt DEF CheckFailed, Steps
  <2>2. UNCHANGED <<runs, used, revoked, roles, overtaken, status>>
    BY <1>2 DEF CheckFailed
  <2>3. PICK k : /\ k = IF status = "Succeeded" THEN [job[w] EXCEPT !.at = "revoke", !.buckets = Buckets]
                          ELSE [job[w] EXCEPT !.at = "find"]
                 /\ job' = [job EXCEPT ![w] = k]
    BY <1>2 DEF CheckFailed
  <2>4. k.at = "find" \/ (k.at = "revoke" /\ \A g \in Grants : Bucket[g] \in k.buckets)
    BY <2>1, <2>3 DEF JobType, Buckets
  <2>5. job'[w] = k /\ \A a \in Actors \ {w} : job'[a] = job[a]
    BY <1>1, <2>3
  <2> QED BY <2>2, <2>4, <2>5 DEF RecoverySound, TakenBack, Emptied, Remaining
<1>3. CASE FindForRecovery(w)
  <2>1. job[w] \in JobType /\ job[w].at = "recover"
    BY <1>1, <1>3, JobAt DEF FindForRecovery, Steps
  <2>2. UNCHANGED <<runs, used, revoked, roles, overtaken, status>>
    BY <1>3 DEF FindForRecovery, Attempt
  <2>3. PICK k : /\ k = IF status = "Succeeded" THEN [job[w] EXCEPT !.at = "overrule", !.seen = status]
                          ELSE Idle
                 /\ job' = [job EXCEPT ![w] = k]
    BY <1>3 DEF FindForRecovery
  <2>4. k.at = "idle" \/ k.at = "overrule"
    BY <2>1, <2>3 DEF JobType, Idle
  <2>5. job'[w] = k /\ \A a \in Actors \ {w} : job'[a] = job[a]
    BY <1>1, <2>3
  <2> QED BY <2>1, <2>2, <2>4, <2>5 DEF RecoverySound, TakenBack, Emptied, Remaining
<1>4. CASE RevokeBucket(w)
  <2>1. PICK b \in job[w].buckets, n \in Nat : \E k :
          /\ job' = [job EXCEPT ![w] = k]
          /\ k.at = "revoke" /\ k.buckets = job[w].buckets \ {b}
          /\ \A h \in Grants : Remaining(h) = 0 => Remaining(h)' = 0
          /\ \A h \in Grants : Bucket[h] = b => Emptied(Bucket[h])'
    BY <1>4, RevokeBucketDoes
  <2> PICK k : /\ job' = [job EXCEPT ![w] = k]
               /\ k.at = "revoke" /\ k.buckets = job[w].buckets \ {b}
    BY <2>1
  <2>2. job[w].at = "revoke" /\ UNCHANGED <<roles, overtaken, status>>
    BY <1>4 DEF RevokeBucket
  <2>3. job'[w] = k /\ \A a \in Actors \ {w} : job'[a] = job[a]
    BY <1>1
  <2>4. \A g \in Grants : Emptied(Bucket[g]) => Emptied(Bucket[g])'
    BY <2>1 DEF Emptied
  <2>5. TakenBack => TakenBack'
    BY <2>2, <2>4 DEF TakenBack
  <2>6. ASSUME ~overtaken, NEW g \in Grants, Bucket[g] \notin k.buckets PROVE Emptied(Bucket[g])'
    BY <2>1, <2>2, <2>4, <2>6, <1>1 DEF RecoverySound
  <2> QED BY <2>2, <2>3, <2>4, <2>5, <2>6 DEF RecoverySound
<1>5. CASE RevokeRoles(w)
  <2>1. job[w] \in JobType /\ job[w].at = "revoke" /\ job[w].buckets = {}
    BY <1>1, <1>5, JobAt DEF RevokeRoles, Steps
  <2>2. UNCHANGED <<runs, used, revoked, overtaken, status>> /\ ~roles'
    BY <1>5 DEF RevokeRoles
  <2>3. PICK k : k = [job[w] EXCEPT !.at = "debt"] /\ job' = [job EXCEPT ![w] = k]
    BY <1>5 DEF RevokeRoles
  <2>4. k.at = "debt"
    BY <2>1, <2>3 DEF JobType
  <2>5. job'[w] = k /\ \A a \in Actors \ {w} : job'[a] = job[a]
    BY <1>1, <2>3
  <2>6. \A g \in Grants : Emptied(Bucket[g]) => Emptied(Bucket[g])'
    BY <2>2 DEF Emptied, Remaining
  <2>7. ~overtaken => TakenBack'
    BY <1>1, <2>1, <2>2, <2>6 DEF RecoverySound, TakenBack
  <2> QED BY <2>2, <2>4, <2>5, <2>6, <2>7 DEF RecoverySound
<1>6. CASE RecordDebt(w)
  <2>1. job[w].task \in Tasks /\ job[w].at = "debt"
    BY <1>1, <1>6, JobAt DEF RecordDebt, Steps, JobType
  <2>2. UNCHANGED <<runs, used, revoked, roles, overtaken, status>>
    BY <1>6 DEF RecordDebt
  <2>3. PICK k : k = Job("recover", job[w].task) /\ job' = [job EXCEPT ![w] = k]
    BY <1>6 DEF RecordDebt
  <2>4. k.at = "recover"
    BY <2>3 DEF Job
  <2>5. job'[w] = k /\ \A a \in Actors \ {w} : job'[a] = job[a]
    BY <1>1, <2>3
  <2> QED BY <1>1, <2>1, <2>2, <2>4, <2>5 DEF RecoverySound, TakenBack, Emptied, Remaining
<1> QED BY <1>2, <1>3, <1>4, <1>5, <1>6 DEF RecoveryStep

LEMMA RecoveryInvariant == Spec => []RecoverySound
<1>1. Init => RecoverySound
  BY IdleAt DEF Init, RecoverySound
<1>2. ASSUME Core, RecoverySound, [Next]_vars PROVE RecoverySound'
  <2>1. CASE UNCHANGED vars
    BY <1>2, <2>1 DEF vars, RecoverySound, TakenBack, Emptied, Remaining
  <2>2. CASE Next
    BY <1>2, <2>2, StepKinds, RecoveryBystander, RecoveryGoesOn
  <2> QED BY <1>2, <2>1, <2>2
<1> QED BY <1>1, <1>2, CoreInvariant, PTL DEF Spec

\* A failed attempt has lost its roles and a row of every bucket it granted
\* into, unless a fulfilment was still running beside the recovery.
THEOREM FailedTakenBack == Spec => []FailedIsTakenBack
<1>1. RecoverySound => FailedIsTakenBack
  BY DEF RecoverySound, TakenBack, Emptied, FailedIsTakenBack
<1> QED BY <1>1, RecoveryInvariant, PTL

-----------------------------------------------------------------------------
(* The debt of the first recovery *)

\* The ledger's sums are naturals.
LEMMA SumsTyped ==
    ASSUME Core
    PROVE  /\ IsFiniteSet(Grants)
           /\ SumOf(used, Grants) \in Nat /\ SumOf(revoked, Grants) \in Nat
           /\ \A g \in Grants : Granted[g] <= SumOf(Granted, Grants)
           /\ SumOf(Granted, Grants) \in Nat
<1>1. /\ \A g \in Grants : used[g] \in Nat /\ revoked[g] \in Nat /\ Granted[g] \in Nat
      /\ IsFiniteSet(Grants)
  BY GrantedAssumption DEF Core, SharedTyped
<1> QED BY <1>1, SumNat

\* No more is revoked than was granted: n grants of each row cover what is
\* spent (u) and revoked (f) of it.
LEMMA RevokedWithinGranted ==
    ASSUME NEW f, NEW u, NEW n \in {0, 1},
           \A g \in Grants : f[g] \in Nat /\ u[g] \in Nat /\ n * Granted[g] - u[g] - f[g] >= 0
    PROVE  SumOf(f, Grants) \in Nat /\ SumOf(f, Grants) <= SumOf(Granted, Grants)
<1>1. ASSUME NEW g \in Grants
      PROVE  f[g] \in Int /\ Granted[g] \in Int /\ f[g] <= Granted[g]
  <2>1. f[g] \in Nat /\ u[g] \in Nat /\ Granted[g] \in Nat /\ n * Granted[g] - u[g] - f[g] >= 0
    BY GrantedAssumption
  <2>2. CASE n = 0
    BY <2>1, <2>2
  <2>3. CASE n = 1
    BY <2>1, <2>3
  <2> QED BY <2>2, <2>3
<1>2. SumOf(f, Grants) <= SumOf(Granted, Grants)
  BY <1>1, SumMonotone, GrantedAssumption
<1>3. \A g \in Grants : f[g] \in Nat
  OBVIOUS
<1> QED BY <1>2, <1>3, SumNat, GrantedAssumption

LEMMA DebtBystander ==
    ASSUME Core, FirstRecovery, Next, Bystander
    PROVE  FirstRecovery'
<1>1. UNCHANGED <<revoked, debt, recoveries>>
  BY DEF Bystander
<1>5. \A a \in Actors : job'[a].at \in Recovering => job'[a] = job[a]
  BY DEF Bystander
<1>6. recoveries' <= 1 => debt' + SumOf(revoked', Grants) <= SumOf(Granted, Grants)
  BY <1>1 DEF FirstRecovery
<1>7. recoveries' = 0 => debt' = 0 /\ \A g \in Grants : revoked'[g] = 0
  BY <1>1 DEF FirstRecovery
<1>8. ASSUME recoveries' = 1, NEW w \in Actors, job'[w].at \in Recovering
      PROVE  /\ \A v \in Actors : job'[v].at \in Recovering => v = w
             /\ job'[w].at \in {"revoke", "debt"} =>
                  debt' = 0 /\ job'[w].recovered = SumOf(revoked', Grants)
  BY <1>1, <1>5, <1>8 DEF FirstRecovery
<1> QED BY <1>6, <1>7, <1>8 DEF FirstRecovery

\* Only the first recovery is held to its debt: a second one has no job of its
\* own to speak for.
LEMMA DebtMoves ==
    ASSUME Core, FirstRecovery, NEW w \in Actors, NEW k, job' = [job EXCEPT ![w] = k],
           job[w].at \in Recovering, recoveries' = recoveries,
           recoveries = 1 => /\ k.at \in {"revoke", "debt"} =>
                                  debt' = 0 /\ k.recovered = SumOf(revoked', Grants)
                             /\ debt' + SumOf(revoked', Grants) <= SumOf(Granted, Grants)
    PROVE  FirstRecovery'
<1>1. DOMAIN job = Actors /\ recoveries \in 0..2
  BY DEF Core, SharedTyped
<1>2. recoveries > 0
  BY JobAt DEF Recovering, Steps
<1>3. job'[w] = k /\ \A a \in Actors \ {w} : job'[a] = job[a]
  BY <1>1
<1>4. ASSUME recoveries = 1, NEW v \in Actors, job'[v].at \in Recovering
      PROVE  v = w
  BY <1>3, <1>4 DEF FirstRecovery
<1>5. recoveries' # 0 /\ (recoveries' <= 1 => recoveries = 1)
  BY <1>1, <1>2
<1>6. ASSUME recoveries' = 1, NEW u \in Actors, job'[u].at \in Recovering
      PROVE  /\ \A v \in Actors : job'[v].at \in Recovering => v = u
             /\ job'[u].at \in {"revoke", "debt"} =>
                  debt' = 0 /\ job'[u].recovered = SumOf(revoked', Grants)
  <2>1. u = w
    BY <1>4, <1>6
  <2> QED BY <1>3, <1>4, <1>6, <2>1
<1> QED BY <1>5, <1>6 DEF FirstRecovery

LEMMA DebtGoesOn ==
    ASSUME Core, Core', FirstRecovery, NEW w \in Workers, RecoveryStep(w)
    PROVE  FirstRecovery'
<1>1. w \in Actors /\ DOMAIN job = Actors /\ recoveries \in 0..2
  BY DEF Actors, Core, SharedTyped
<1>2. CASE CheckFailed(w)
  <2>1. job[w] \in JobType /\ job[w].recovered = 0
    BY <1>1, <1>2, JobAt DEF CheckFailed, Steps
  <2>2. UNCHANGED <<revoked, debt>>
    BY <1>2 DEF CheckFailed
  <2>3. PICK k : /\ k = IF status = "Succeeded" THEN [job[w] EXCEPT !.at = "revoke", !.buckets = Buckets]
                          ELSE [job[w] EXCEPT !.at = "find"]
                 /\ job' = [job EXCEPT ![w] = k]
    BY <1>2 DEF CheckFailed
  <2>4. job'[w] = k /\ \A a \in Actors \ {w} : job'[a] = job[a]
    BY <1>1, <2>3
  <2>5. CASE status = "Succeeded"
    <3>1. k.at = "revoke" /\ k.recovered = 0
      BY <2>1, <2>3, <2>5 DEF JobType
    <3>2. recoveries' = IF recoveries = 0 THEN 1 ELSE 2
      BY <1>1, <1>2, <2>5, RecoveryCounted DEF CheckFailed
    <3>3. CASE recoveries = 0
      <4>1. debt = 0 /\ \A g \in Grants : revoked[g] = 0
        BY <3>3 DEF FirstRecovery
      <4>2. SumOf(revoked, Grants) = 0
        BY <4>1, SumZero, GrantedAssumption
      <4>3. \A v \in Actors : job[v].at \in Recovering => FALSE
        BY <3>3, JobAt DEF Recovering, Steps
      <4>4. 0 + 0 <= SumOf(Granted, Grants)
        BY SumsTyped
      <4>5. recoveries' = 1 /\ debt' = 0 /\ SumOf(revoked', Grants) = 0
        BY <2>2, <3>2, <3>3, <4>1, <4>2
      <4>6. \A v \in Actors : job'[v].at \in Recovering => v = w
        BY <2>4, <4>3
      <4> QED BY <2>4, <3>1, <4>4, <4>5, <4>6 DEF FirstRecovery
    <3>4. CASE recoveries # 0
      <4>1. recoveries' = 2
        BY <3>2, <3>4
      <4> QED BY <4>1 DEF FirstRecovery
    <3> QED BY <3>3, <3>4
  <2>6. CASE status # "Succeeded"
    <3>1. k.at = "find" /\ recoveries' = recoveries
      BY <1>2, <2>1, <2>3, <2>6 DEF JobType, CheckFailed
    <3>2. \A a \in Actors : job'[a].at \in Recovering => job'[a] = job[a]
      BY <2>4, <3>1 DEF Recovering
    <3> QED BY <2>2, <3>1, <3>2 DEF FirstRecovery
  <2> QED BY <2>5, <2>6
<1>3. CASE FindForRecovery(w)
  <2>1. job[w] \in JobType /\ job[w].at = "recover"
    BY <1>1, <1>3, JobAt DEF FindForRecovery, Steps
  <2>2. UNCHANGED <<revoked, debt, recoveries>>
    BY <1>3 DEF FindForRecovery, Attempt
  <2>3. PICK k : /\ k = IF status = "Succeeded" THEN [job[w] EXCEPT !.at = "overrule", !.seen = status]
                          ELSE Idle
                 /\ job' = [job EXCEPT ![w] = k]
    BY <1>3 DEF FindForRecovery
  <2>4. k.at = "idle" \/ k.at = "overrule"
    BY <2>1, <2>3 DEF JobType, Idle
  <2>5. recoveries = 1 => debt' + SumOf(revoked', Grants) <= SumOf(Granted, Grants)
    BY <2>2 DEF FirstRecovery
  <2>6. job[w].at \in Recovering
    BY <2>1 DEF Recovering
  <2> QED BY <1>1, <2>2, <2>3, <2>4, <2>5, <2>6, DebtMoves
<1>4. CASE RevokeBucket(w)
  <2>1. PICK b \in job[w].buckets, n \in Nat : \E k :
          /\ job' = [job EXCEPT ![w] = k] /\ k.at = "revoke"
          /\ k.recovered = job[w].recovered + n
          /\ SumOf(revoked', Grants) = SumOf(revoked, Grants) + n
    BY <1>4, RevokeBucketDoes
  <2> PICK k : /\ job' = [job EXCEPT ![w] = k] /\ k.at = "revoke"
               /\ k.recovered = job[w].recovered + n
    BY <2>1
  <2>2. job[w].at = "revoke" /\ UNCHANGED <<debt, recoveries>>
    BY <1>4 DEF RevokeBucket
  <2>3. job[w].at \in Recovering
    BY <2>2 DEF Recovering
  <2>4. recoveries = 1 => debt' = 0 /\ k.recovered = SumOf(revoked', Grants)
    BY <1>1, <2>1, <2>2, <2>3 DEF FirstRecovery
  <2>5. recoveries = 1 => debt' + SumOf(revoked', Grants) <= SumOf(Granted, Grants)
    <3>1. SumOf(revoked', Grants) <= SumOf(Granted, Grants) /\ SumOf(revoked', Grants) \in Nat
      <4>1. runs' \in {0, 1}
        BY DEF Core, OneGrants, SharedTyped
      <4>2. \A g \in Grants : /\ revoked'[g] \in Nat /\ used'[g] \in Nat
                              /\ runs' * Granted[g] - used'[g] - revoked'[g] >= 0
        BY DEF Core, SharedTyped, Remaining
      <4> QED BY <4>1, <4>2, RevokedWithinGranted
    <3> QED BY <2>4, <3>1
  <2> QED BY <1>1, <2>2, <2>3, <2>4, <2>5, DebtMoves
<1>5. CASE RevokeRoles(w)
  <2>1. job[w] \in JobType /\ job[w].at = "revoke"
    BY <1>1, <1>5, JobAt DEF RevokeRoles, Steps
  <2>2. UNCHANGED <<revoked, debt, recoveries>>
    BY <1>5 DEF RevokeRoles
  <2>3. PICK k : k = [job[w] EXCEPT !.at = "debt"] /\ job' = [job EXCEPT ![w] = k]
    BY <1>5 DEF RevokeRoles
  <2>4. k.recovered = job[w].recovered /\ job[w].at \in Recovering
    BY <2>1, <2>3 DEF JobType, Recovering
  <2>5. recoveries = 1 => debt' = 0 /\ k.recovered = SumOf(revoked', Grants)
    BY <1>1, <2>1, <2>2, <2>4 DEF FirstRecovery
  <2>6. recoveries = 1 => debt' + SumOf(revoked', Grants) <= SumOf(Granted, Grants)
    BY <2>2 DEF FirstRecovery
  <2> QED BY <1>1, <2>2, <2>3, <2>4, <2>5, <2>6, DebtMoves
<1>6. CASE RecordDebt(w)
  <2>1. job[w] \in JobType /\ job[w].at = "debt" /\ job[w].at \in Recovering
    BY <1>1, <1>6, JobAt DEF RecordDebt, Steps, Recovering
  <2>2. UNCHANGED <<revoked, recoveries>>
    BY <1>6 DEF RecordDebt
  <2>3. PICK k : k = Job("recover", job[w].task) /\ job' = [job EXCEPT ![w] = k]
    BY <1>6 DEF RecordDebt
  <2>4. k.at = "recover"
    BY <2>3 DEF Job
  <2>5. ASSUME recoveries = 1 PROVE debt' + SumOf(revoked', Grants) <= SumOf(Granted, Grants)
    <3>1. debt = 0 /\ job[w].recovered = SumOf(revoked, Grants)
      BY <1>1, <2>1, <2>5 DEF FirstRecovery
    <3>2. PICK g \in Grants : debt' = IF runs > 0 /\ job[w].recovered < Granted[g]
                                        THEN debt + Granted[g] - job[w].recovered ELSE debt
      BY <1>6 DEF RecordDebt
    <3>3. /\ SumOf(revoked, Grants) \in Nat /\ SumOf(revoked, Grants) <= SumOf(Granted, Grants)
          /\ Granted[g] <= SumOf(Granted, Grants) /\ Granted[g] \in Nat
          /\ SumOf(Granted, Grants) \in Nat
      <4>1. runs \in {0, 1}
        BY DEF Core, OneGrants, SharedTyped
      <4>2. \A x \in Grants : /\ revoked[x] \in Nat /\ used[x] \in Nat
                              /\ runs * Granted[x] - used[x] - revoked[x] >= 0
        BY DEF Core, SharedTyped, Remaining
      <4>3. SumOf(revoked, Grants) <= SumOf(Granted, Grants)
        BY <4>1, <4>2, RevokedWithinGranted
      <4> QED BY <4>3, SumsTyped, GrantedAssumption
    <3>4. CASE runs > 0 /\ job[w].recovered < Granted[g]
      <4>1. debt' = Granted[g] - SumOf(revoked, Grants)
        BY <3>1, <3>2, <3>3, <3>4
      <4> QED BY <2>2, <3>3, <4>1
    <3>5. CASE ~(runs > 0 /\ job[w].recovered < Granted[g])
      BY <2>2, <3>1, <3>2, <3>3, <3>5
    <3> QED BY <3>4, <3>5
  <2> QED BY <1>1, <2>1, <2>2, <2>3, <2>4, <2>5, DebtMoves
<1> QED BY <1>2, <1>3, <1>4, <1>5, <1>6 DEF RecoveryStep

\* A recovery that ran once takes back and records as a debt no more than was
\* granted.
THEOREM DebtBounded == Spec => []NothingClaimedTwice
<1>1. Init => FirstRecovery
  <2> SUFFICES ASSUME Init PROVE FirstRecovery
    OBVIOUS
  <2>1. SumOf(revoked, Grants) = 0
    BY SumZero, GrantedAssumption DEF Init
  <2>2. \A a \in Actors : job[a].at \notin Recovering
    BY IdleAt DEF Init, Recovering
  <2>3. 0 + 0 <= SumOf(Granted, Grants)
    <3>1. \A g \in Grants : Granted[g] \in Nat
      BY GrantedAssumption
    <3> QED BY <3>1, SumNat, GrantedAssumption
  <2>4. debt = 0 /\ revoked = [g \in Grants |-> 0] /\ recoveries = 0
    BY DEF Init
  <2> QED BY <2>1, <2>2, <2>3, <2>4 DEF FirstRecovery
<1>2. ASSUME Core, Core', FirstRecovery, [Next]_vars PROVE FirstRecovery'
  <2>1. CASE UNCHANGED vars
    BY <1>2, <2>1 DEF vars, FirstRecovery
  <2>2. CASE Next
    BY <1>2, <2>2, StepKinds, DebtBystander, DebtGoesOn
  <2> QED BY <1>2, <2>1, <2>2
<1>3. FirstRecovery => NothingClaimedTwice
  BY DEF FirstRecovery, NothingClaimedTwice
<1> QED BY <1>1, <1>2, <1>3, CoreInvariant, PTL DEF Spec
=============================================================================
