------------------------- MODULE PaymentSettlement -------------------------
(***************************************************************************)
(* The life of one payment attempt for a one-time purchase through Stripe  *)
(* Checkout.  Stripe reports what happens to the checkout session and to   *)
(* its payment intent as events; the webhook, the retry sweep over stored  *)
(* events and the compensation job over Stripe's event list run the        *)
(* handler of every event that is not marked processed, with no lease, in  *)
(* any order and several at once.  A handler changes the attempt with a    *)
(* read followed by a guarded UPDATE, and grants or takes back points and  *)
(* roles in transactions of their own; it may fail between any two of      *)
(* them.  Meanwhile the user may cancel the attempt, the expiry job may    *)
(* close it, and the user spends points.                                   *)
(*                                                                         *)
(* The attempt begins here as create_payment_attempt leaves it: the row is *)
(* inserted, the session created and its reference written.  That write    *)
(* puts the whole row back unguarded, but until it has answered nobody     *)
(* holds the attempt's id or a way to pay it.                              *)
(*                                                                         *)
(* Under the conservative strategy an asynchronous payment is fulfilled    *)
(* when it settles; under the eager one when the checkout is completed, to *)
(* be taken back when the payment bounces.                                 *)
(***************************************************************************)
EXTENDS Integers, FiniteSets, Sums

CONSTANTS
    Strategies,   \* subset of {"conservative", "eager"}
    Workers,      \* webhook requests and background jobs that run at once
    Grants,       \* the ledger rows the captured rules grant
    Granted,      \* granted_amount of each of them
    Bucket,       \* bucket_id of each of them
    MaxUsed,      \* bound: points of the purchase the user spends
    MaxFaults     \* bound: failures

ASSUME StrategiesAssumption == Strategies \subseteq {"conservative", "eager"} /\ Strategies # {}
ASSUME GrantedAssumption == IsFiniteSet(Grants) /\ Granted \in [Grants -> Nat \ {0}]
ASSUME BucketAssumption == DOMAIN Bucket = Grants
ASSUME PaymentBoundsAssumption == MaxUsed \in Nat /\ MaxFaults \in Nat

VARIABLES
    strategy,    \* realm config stripe/async_points_strategy
    session,     \* the checkout session and its payment, at Stripe
    sent,        \* events Stripe has created
    processed,   \* payment_event rows marked processed
    status,      \* payment_attempts.status
    runs,        \* how often the captured rules have granted their rows
    used,        \* used_amount of each row
    revoked,     \* revoked_amount of each row
    roles,       \* the user holds the roles of the purchase
    debt,        \* sum of the debt records of the attempt
    job,         \* what every actor does
    faults,      \* failures so far
    recoveries,  \* history: runs that began to take the purchase back
    overtaken    \* history: a fulfilment wrote after such a run began

vars == <<strategy, session, sent, processed, status, runs, used,
          revoked, roles, debt, job, faults, recoveries, overtaken>>

Attempt == <<status, runs, used, revoked, roles, debt, recoveries, overtaken>>
Provider == <<strategy, session, sent>>

Successes == {"completed_paid", "completed_unpaid", "intent_succeeded", "async_succeeded"}
Failures == {"declined", "intent_failed", "session_expired", "async_failed"}
Events == Successes \cup Failures

(* The user's cancel request and the expiry job, beside the workers.        *)
Actors == Workers \cup {"user", "janitor"}
Tasks == Events \cup {"cancel", "expiry"}

Terminal == {"Succeeded", "Failed", "Cancelled", "Expired"}
Statuses == {"Pending"} \cup Terminal

Steps == {"strategy", "check", "find", "update", "claim", "grant", "roles", "revoke",
          "unrole", "debt", "recover", "overrule", "mark"}
Idle == [at |-> "idle"]
Job(step, t) ==
    [at |-> step, task |-> t, seen |-> "Pending", buckets |-> {}, recovered |-> 0]

Remaining(g) == runs * Granted[g] - used[g] - revoked[g]
Buckets == {Bucket[g] : g \in Grants}

Init ==
    /\ strategy \in Strategies
    /\ session = "open"
    /\ sent = {} /\ processed = {}
    /\ status = "Pending"
    /\ runs = 0
    /\ used = [g \in Grants |-> 0]
    /\ revoked = [g \in Grants |-> 0]
    /\ roles = FALSE
    /\ debt = 0
    /\ job = [a \in Actors |-> Idle]
    /\ faults = 0
    /\ recoveries = 0
    /\ overtaken = FALSE

-----------------------------------------------------------------------------
(* The attempt *)

(* RequiresAction is a status no code sets; it is left out.                 *)
CanTransition(from, to) == from = to \/ from = "Pending"

(* The status a task's mark_* or cancel call asks for.                      *)
Target(t) ==
    CASE t \in Successes -> "Succeeded"
      [] t \in Failures -> "Failed"
      [] t = "cancel" -> "Cancelled"
      [] t = "expiry" -> "Expired"

(* What follows the change of the status.                                   *)
AfterUpdate(t) ==
    CASE t \in Successes -> Job("claim", t)
      [] t \in Failures -> Job("mark", t)
      [] OTHER -> Idle

(* mark_payment_succeeded, mark_payment_failed: the row is read and the     *)
(* transition judged.  A refused one is an error that is not retried at     *)
(* once; the event stays unprocessed.                                       *)
FindAttempt(w) ==
    /\ job[w].at = "find"
    /\ job' = [job EXCEPT ![w] =
                 IF CanTransition(status, Target(@.task))
                   THEN [@ EXCEPT !.at = "update", !.seen = status] ELSE Idle]
    /\ UNCHANGED <<Provider, processed, Attempt, faults>>

(* mark_failed_for_async_recovery reads the row again.                      *)
FindForRecovery(w) ==
    /\ job[w].at = "recover"
    /\ job' = [job EXCEPT ![w] =
                 IF status = "Succeeded"
                   THEN [@ EXCEPT !.at = "overrule", !.seen = status] ELSE Idle]
    /\ UNCHANGED <<Provider, processed, Attempt, faults>>

(* Slip: the UPDATE names the row and not the status that was read.         *)
UnguardedUpdate(a) ==
    /\ job[a].at \in {"update", "overrule"}
    /\ status' = Target(job[a].task)
    /\ job' = [job EXCEPT ![a] = AfterUpdate(job[a].task)]
    /\ UNCHANGED <<Provider, processed, runs, used, revoked, roles, debt,
                   recoveries, overtaken, faults>>

(* Slip: a lost race is taken for an idempotent repetition.                 *)
UpdateIgnoresConflict(a) ==
    /\ job[a].at \in {"update", "overrule"}
    /\ status' = IF status = job[a].seen THEN Target(job[a].task) ELSE status
    /\ job' = [job EXCEPT ![a] = AfterUpdate(job[a].task)]
    /\ UNCHANGED <<Provider, processed, runs, used, revoked, roles, debt,
                   recoveries, overtaken, faults>>

(* UPDATE ... WHERE status = the status read.  No row: the attempt is read  *)
(* once more, and a status that is the wanted one already is a success.     *)
GuardedUpdate(a) ==
    LET target == Target(job[a].task) IN
    /\ job[a].at \in {"update", "overrule"}
    /\ status' = IF status = job[a].seen THEN target ELSE status
    /\ job' = [job EXCEPT ![a] =
                 IF status \in {job[a].seen, target} THEN AfterUpdate(@.task) ELSE Idle]
    /\ UNCHANGED <<Provider, processed, runs, used, revoked, roles, debt,
                   recoveries, overtaken, faults>>

-----------------------------------------------------------------------------
(* The inbox and the event handlers *)

(* Slip: an unpaid checkout is taken for a paid one.                        *)
FirstStepPaid(e) ==
    IF e \in {"async_succeeded", "async_failed"} THEN "check" ELSE "find"

(* process_stripe_event_once: where the handler of an event begins.         *)
FirstStep(e) ==
    CASE e = "completed_unpaid" -> "strategy"
      [] e \in {"async_succeeded", "async_failed"} -> "check"
      [] OTHER -> "find"

(* The webhook, a redelivery, the retry sweep and the compensation job run  *)
(* the handler of an event as long as it is not processed, whoever else may *)
(* be running it.                                                           *)
Deliver(w, e) ==
    /\ job[w] = Idle
    /\ e \in sent \ processed
    /\ job' = [job EXCEPT ![w] = Job(FirstStep(e), e)]
    /\ UNCHANGED <<Provider, processed, Attempt, faults>>

(* handle_checkout_session_completed, payment not settled yet.              *)
ReadStrategy(w) ==
    /\ job[w].at = "strategy"
    /\ job' = [job EXCEPT ![w].at = IF strategy = "eager" THEN "find" ELSE "mark"]
    /\ UNCHANGED <<Provider, processed, Attempt, faults>>

(* A strategy that cannot be read counts as the conservative one.           *)
StrategyUnreadable(w) ==
    /\ job[w].at = "strategy"
    /\ faults < MaxFaults
    /\ faults' = faults + 1
    /\ job' = [job EXCEPT ![w].at = "mark"]
    /\ UNCHANGED <<Provider, processed, Attempt>>

(* handle_checkout_session_async_succeeded: an attempt in a terminal state  *)
(* is left as it is.                                                        *)
CheckSucceeded(w) ==
    /\ job[w].at = "check"
    /\ job[w].task = "async_succeeded"
    /\ job' = [job EXCEPT ![w].at = IF status \in Terminal THEN "mark" ELSE "find"]
    /\ UNCHANGED <<Provider, processed, Attempt, faults>>

(* Slip: the failure of a fulfilled attempt is only marked.                 *)
CheckFailedOnlyMarks(w) ==
    /\ job[w].at = "check"
    /\ job[w].task = "async_failed"
    /\ recoveries' = Min({recoveries + 1, 2})
    /\ job' = [job EXCEPT ![w].at = IF status = "Succeeded" THEN "recover" ELSE "find"]
    /\ UNCHANGED <<Provider, processed, status, runs, used, revoked, roles, debt,
                   overtaken, faults>>

(* handle_checkout_session_async_failed: an attempt that has succeeded has  *)
(* to be taken back, bucket by bucket.                                      *)
CheckFailed(w) ==
    /\ job[w].at = "check"
    /\ job[w].task = "async_failed"
    /\ IF status = "Succeeded"
         THEN /\ job' = [job EXCEPT ![w].at = "revoke", ![w].buckets = Buckets]
              /\ recoveries' = Min({recoveries + 1, 2})
         ELSE /\ job' = [job EXCEPT ![w].at = "find"]
              /\ UNCHANGED recoveries
    /\ UNCHANGED <<Provider, processed, status, runs, used, revoked, roles, debt,
                   overtaken, faults>>

(* Slip: the transaction that has found no event row does not keep a second *)
(* one from granting as well.                                               *)
ClaimByLookup(w) ==
    /\ job[w].at = "claim"
    /\ job' = [job EXCEPT ![w].at = IF runs > 0 THEN "roles" ELSE "grant"]
    /\ UNCHANGED <<Provider, processed, Attempt, faults>>

(* fulfill_one_time_purchase: the INSERT of the distribution event waits    *)
(* for an open transaction with the same key; a completed event is replayed.*)
ClaimEvent(w) ==
    /\ job[w].at = "claim"
    /\ \A v \in Workers \ {w} : job[v].at # "grant"
    /\ job' = [job EXCEPT ![w].at = IF runs > 0 THEN "roles" ELSE "grant"]
    /\ UNCHANGED <<Provider, processed, Attempt, faults>>

(* The captured rules grant their rows and the transaction commits.         *)
GrantPoints(w) ==
    /\ job[w].at = "grant"
    /\ runs' = runs + 1
    /\ overtaken' = (overtaken \/ recoveries > 0)
    /\ job' = [job EXCEPT ![w].at = "roles"]
    /\ UNCHANGED <<Provider, processed, status, used, revoked, roles, debt,
                   recoveries, faults>>

(* grant_role_by_payment inserts a role that is gone again.                 *)
GrantRoles(w) ==
    /\ job[w].at = "roles"
    /\ roles' = TRUE
    /\ overtaken' = (overtaken \/ recoveries > 0)
    /\ job' = [job EXCEPT ![w].at = "mark"]
    /\ UNCHANGED <<Provider, processed, status, runs, used, revoked, debt,
                   recoveries, faults>>

(* Slip: the whole grant is revoked, spent points included.                 *)
RevokeWholeGrant(w) ==
    /\ job[w].at = "revoke"
    /\ \E g \in {g \in Grants : Bucket[g] \in job[w].buckets} :
         /\ revoked' = [revoked EXCEPT ![g] = @ + Granted[g]]
         /\ job' = [job EXCEPT ![w].buckets = @ \ {Bucket[g]},
                              ![w].recovered = @ + Granted[g]]
    /\ UNCHANGED <<Provider, processed, status, runs, used, roles, debt,
                   recoveries, overtaken, faults>>

(* revoke_points_by_source_id_atomic: what is left of one row of the bucket *)
(* that has something left.                                                 *)
RevokeBucket(w) ==
    /\ job[w].at = "revoke"
    /\ \E b \in job[w].buckets :
         LET rows == {g \in Grants : Bucket[g] = b /\ Remaining(g) > 0}
             rest == [job[w] EXCEPT !.buckets = @ \ {b}]
         IN
         \/ /\ rows = {}
            /\ job' = [job EXCEPT ![w] = rest]
            /\ UNCHANGED revoked
         \/ \E g \in rows :
              /\ revoked' = [revoked EXCEPT ![g] = @ + Remaining(g)]
              /\ job' = [job EXCEPT ![w] = [rest EXCEPT !.recovered = @ + Remaining(g)]]
    /\ UNCHANGED <<Provider, processed, status, runs, used, roles, debt,
                   recoveries, overtaken, faults>>

(* revoke_payment_roles_for_attempt, after the last bucket.                 *)
RevokeRoles(w) ==
    /\ job[w].at = "revoke"
    /\ job[w].buckets = {}
    /\ roles' = FALSE
    /\ job' = [job EXCEPT ![w].at = "debt"]
    /\ UNCHANGED <<Provider, processed, status, runs, used, revoked, debt,
                   recoveries, overtaken, faults>>

(* Slip: the debt is what all rows granted, recovered points included.      *)
RecordFullDebt(w) ==
    /\ job[w].at = "debt"
    /\ debt' = IF runs > 0 THEN debt + SumOf(Granted, Grants) ELSE debt
    /\ job' = [job EXCEPT ![w] = Job("recover", @.task)]
    /\ UNCHANGED <<Provider, processed, status, runs, used, revoked, roles,
                   recoveries, overtaken, faults>>

(* find_ledger_by_source_id returns one row of the attempt; what was        *)
(* recovered short of it is recorded as a debt.                             *)
RecordDebt(w) ==
    /\ job[w].at = "debt"
    /\ \E g \in Grants :
         debt' = IF runs > 0 /\ job[w].recovered < Granted[g]
                   THEN debt + Granted[g] - job[w].recovered ELSE debt
    /\ job' = [job EXCEPT ![w] = Job("recover", @.task)]
    /\ UNCHANGED <<Provider, processed, status, runs, used, revoked, roles,
                   recoveries, overtaken, faults>>

MarkProcessed(w) ==
    /\ job[w].at = "mark"
    /\ processed' = processed \cup {job[w].task}
    /\ job' = [job EXCEPT ![w] = Idle]
    /\ UNCHANGED <<Provider, Attempt, faults>>

(* Slip: a failed event is marked, for the next one to repair.              *)
HandlerFailsProcessed(w) ==
    /\ job[w] # Idle
    /\ faults < MaxFaults
    /\ faults' = faults + 1
    /\ processed' = processed \cup {job[w].task}
    /\ job' = [job EXCEPT ![w] = Idle]
    /\ UNCHANGED <<Provider, Attempt>>

(* A failed call, a crash: the open transaction is rolled back, the event   *)
(* stays unprocessed.                                                       *)
HandlerFails(w) ==
    /\ job[w] # Idle
    /\ faults < MaxFaults
    /\ faults' = faults + 1
    /\ job' = [job EXCEPT ![w] = Idle]
    /\ UNCHANGED <<Provider, processed, Attempt>>

-----------------------------------------------------------------------------
(* The user and the expiry job *)

(* cancel_payment_attempt reads the row and judges the transition.          *)
RequestCancel ==
    /\ job["user"] = Idle
    /\ CanTransition(status, "Cancelled")
    /\ job' = [job EXCEPT !["user"] = [Job("update", "cancel") EXCEPT !.seen = status]]
    /\ UNCHANGED <<Provider, processed, Attempt, faults>>

(* list_expired_attempts: pending attempts past their two hours.            *)
ListExpired ==
    /\ job["janitor"] = Idle
    /\ status = "Pending"
    /\ job' = [job EXCEPT !["janitor"] = Job("update", "expiry")]
    /\ UNCHANGED <<Provider, processed, Attempt, faults>>

Spend(g) ==
    /\ Remaining(g) > 0
    /\ SumOf(used, Grants) < MaxUsed
    /\ used' = [used EXCEPT ![g] = @ + 1]
    /\ UNCHANGED <<Provider, processed, status, runs, revoked, roles, debt, job,
                   recoveries, overtaken, faults>>

-----------------------------------------------------------------------------
(* Stripe: the session ends as `to` and the events of it are created *)

Report(from, to, events) ==
    /\ session = from
    /\ session' = to
    /\ sent' = sent \cup events
    /\ UNCHANGED <<strategy, processed, Attempt, job, faults>>

Pay == Report("open", "paid", {"completed_paid", "intent_succeeded"})
PayLater == Report("open", "settling", {"completed_unpaid"})
Settle == Report("settling", "paid", {"async_succeeded", "intent_succeeded"})
Bounce == Report("settling", "bounced", {"async_failed", "intent_failed"})
SessionExpires == Report("open", "expired", {"session_expired"})

(* A card is declined and the session stays open for another one.           *)
Decline == "declined" \notin sent /\ Report("open", "open", {"declined"})

-----------------------------------------------------------------------------
HandlerStep(w) ==
    \/ ReadStrategy(w) \/ CheckSucceeded(w) \/ CheckFailed(w)
    \/ FindAttempt(w) \/ GuardedUpdate(w) \/ FindForRecovery(w)
    \/ ClaimEvent(w) \/ GrantPoints(w) \/ GrantRoles(w)
    \/ RevokeBucket(w) \/ RevokeRoles(w) \/ RecordDebt(w)
    \/ MarkProcessed(w)

Stripe == Pay \/ PayLater \/ Settle \/ Bounce \/ SessionExpires \/ Decline

Next ==
    \/ \E w \in Workers : HandlerStep(w) \/ StrategyUnreadable(w) \/ HandlerFails(w)
    \/ \E w \in Workers, e \in Events : Deliver(w, e)
    \/ RequestCancel \/ ListExpired
    \/ \E a \in {"user", "janitor"} : GuardedUpdate(a)
    \/ \E g \in Grants : Spend(g)
    \/ Stripe

Spec == Init /\ [][Next]_vars

(* A call goes on, and the sweep comes back to the success of the payment   *)
(* as long as it is not processed: a failed event backs off for the others. *)
FairSpec ==
    /\ Spec
    /\ \A w \in Workers : WF_vars(HandlerStep(w))
    /\ SF_vars(\E w \in Workers : Deliver(w, "intent_succeeded"))

-----------------------------------------------------------------------------
(* Properties *)

(* Every variable keeps the range its column allows: no row is spent or     *)
(* revoked past what it was granted, and an actor in the middle of a        *)
(* handler holds a task and a status it has read.                           *)
TypeOK ==
    /\ strategy \in Strategies
    /\ session \in {"open", "settling", "paid", "bounced", "expired"}
    /\ sent \subseteq Events /\ processed \subseteq sent
    /\ status \in Statuses
    /\ runs \in Nat /\ debt \in Nat
    /\ \A g \in Grants : used[g] \in Nat /\ revoked[g] \in Nat /\ Remaining(g) >= 0
    /\ roles \in BOOLEAN /\ overtaken \in BOOLEAN
    /\ \A a \in Actors :
         \/ job[a] = Idle
         \/ job[a] \in [at : Steps, task : Tasks, seen : Statuses,
                        buckets : SUBSET Buckets, recovered : Nat]
    /\ faults \in 0..MaxFaults /\ recoveries \in 0..2

(* A terminal status is final: neither a webhook, nor the user's cancel,    *)
(* nor the expiry job, whatever each of them has read before, moves the     *)
(* attempt out of it; only a recovery turns Succeeded into Failed (the      *)
(* status guard of update_payment_attempt_with_status_guard).               *)
TerminalIsFinal ==
    [][(status \in Terminal /\ status' # status) =>
         (status = "Succeeded" /\ status' = "Failed" /\ recoveries > 0)]_vars

(* Points and roles of the purchase exist only if the attempt has been      *)
(* marked Succeeded: an attempt that lost the race against a cancel or the  *)
(* expiry job is never fulfilled (complete_succeeded_payment_attempt).      *)
RewardNeedsSuccess ==
    status \in {"Pending", "Cancelled", "Expired"} => runs = 0 /\ ~roles

(* Under the conservative strategy nobody holds anything of a purchase that *)
(* Stripe has not been paid for (the payment_status test of                 *)
(* handle_checkout_session_completed).                                      *)
ConservativeGrantsPaid ==
    strategy = "conservative" /\ (runs > 0 \/ roles) => session = "paid"

(* The captured rules grant their rows once, although several success       *)
(* events are fulfilled at once and an event is fulfilled again after a     *)
(* failure (the event key of insert_or_load_event_in_tx).                   *)
GrantedOnce == runs <= 1

(* An eager fulfilment is taken back before the attempt turns Failed, in    *)
(* whatever order its events are handled and wherever a recovery failed     *)
(* before: the roles are gone, and a row that still holds points shares its *)
(* bucket with one that was emptied (handle_checkout_session_async_failed,  *)
(* one row per bucket), unless a fulfilment was still running beside the    *)
(* recovery.                                                                *)
FailedIsTakenBack ==
    status = "Failed" /\ ~overtaken =>
        /\ ~roles
        /\ \A g \in Grants : \E h \in Grants : Bucket[h] = Bucket[g] /\ Remaining(h) = 0

(* The first recovery does not claim a point twice: what it took back and   *)
(* what it records as a debt are together no more than was granted, even    *)
(* when a fulfilment writes beside it (the debt branch of                   *)
(* handle_checkout_session_async_failed).                                   *)
NothingClaimedTwice ==
    recoveries <= 1 => debt + SumOf(revoked, Grants) <= SumOf(Granted, Grants)

(* What the user stories say of a one-time purchase whose payment bounced:  *)
(* all it granted and the user has not spent is taken back.                 *)
FailedHoldsNothing ==
    status = "Failed" /\ ~overtaken => ~roles /\ \A g \in Grants : Remaining(g) = 0

(* What the user stories say of the debt: it is what the user had spent.    *)
DebtIsSpent ==
    status = "Failed" /\ ~overtaken => debt = SumOf(used, Grants)

(* A paid purchase is fulfilled unless the attempt was closed before: a     *)
(* handler that fails after the attempt is Succeeded is run again (the      *)
(* retry sweep and the idempotent mark_payment_succeeded).                  *)
PaidIsFulfilled ==
    session = "paid" ~>
        \/ runs > 0 /\ roles
        \/ status \in {"Failed", "Cancelled", "Expired"}

(* What the user stories say: once the checkout of an asynchronous payment  *)
(* is handled, the expiry job does not close the attempt while the payment  *)
(* is still being collected (mark_expired_attempts, two hours after the     *)
(* attempt was created).                                                    *)
WaitsForSettlement ==
    [][("completed_unpaid" \in processed /\ session = "settling" /\ status # "Expired")
         => status' # "Expired"]_vars
=============================================================================
