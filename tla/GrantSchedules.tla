--------------------------- MODULE GrantSchedules ---------------------------
(***************************************************************************)
(* Free-periodic grants of one user.  Registration creates a schedule and  *)
(* its first period for every enabled rule; later periods are granted by   *)
(* the worker job and by the read path of balance and consume, both from   *)
(* a list of due schedules read before their transactions; a paid          *)
(* subscription or the disabling of a rule stops schedules                 *)
(* (infra/src/points/postgres_repository.rs,                               *)
(* domain/src/points/services/grant_scheduler.rs, domain/src/points/       *)
(* service.rs).                                                            *)
(*                                                                         *)
(* Each distribution event runs in a transaction: the unique event key is  *)
(* claimed, rule and bucket are read, the schedule row is locked, and      *)
(* everything is written at the commit.  A schedule keeps its own bucket,  *)
(* amount and period, but the event runs the policy the rule has by then.  *)
(* Time counts periods from the registration, the base time of every  *)
(* schedule: period n begins at instant n - 1.                             *)
(***************************************************************************)
EXTENDS Integers, Sequences, FiniteSets

CONSTANTS
    Rules,          \* free-periodic rules of the realm (not those of period
                    \* "once", whose schedules are made inactive)
    Jobs,           \* workers that run process_due_schedules
    Readers,        \* requests that run reconcile_due_for_user
    Clerks,         \* requests that register, subscribe or disable a rule
    Batch,          \* DEFAULT_BATCH_SIZE of the job
    ReadLimit,      \* READ_PATH_REALIZATION_LIMIT
    MaxTime,        \* last instant
    MaxFaults,      \* transactions that fail half-way
    Edited,         \* rules an administrator edits
    Fragile,        \* rules whose bucket or wallet is switched off and on
    NoRule, NoProc

ASSUME LimitsAssumption ==
    /\ Batch \in Nat \ {0}
    /\ ReadLimit \in Nat \ {0}
    /\ MaxTime \in Nat
    /\ MaxFaults \in Nat
    /\ Edited \subseteq Rules
    /\ Fragile \subseteq Rules

Runners == Jobs \cup Readers
Procs == Runners \cup Clerks

ASSUME NamesAssumption == NoRule \notin Rules /\ NoProc \notin Procs

VARIABLES
    now,
    enabled,        \* points_distribution_rules.enabled
    policy,         \* grant_mode and trigger_sources of the rule
    bucketOn,       \* credit_buckets.enabled of the schedule's bucket
    frozen,         \* rules whose schedule's wallet is not active
    sched,          \* points_grant_schedules, one row per rule
    rows,           \* ledger rows with their grant records, in commit order
    entitled,       \* <<rule, period>> of the quota entitlements written
    done,           \* keys of completed distribution events
    lock,           \* the transaction that holds a schedule row
    proc,           \* what each process has read and claimed
    faults,
    raced           \* history: rules disabled beside a registration

config == <<enabled, policy, bucketOn, frozen>>
grants == <<sched, rows, entitled, done>>
vars == <<now, config, grants, lock, proc, faults, raced>>

\* Fixed amounts period by period; a rolling quota; and what is left of a
\* rule that has lost its free_periodic_grant trigger: a fixed amount once.
Policies == {"periodic", "quota", "single"}

RegistrationKey == <<"registration", NoRule, 1>>
SubscriptionKey == <<"subscription", NoRule, 1>>
PeriodKey(r, n) == <<"free", r, n>>
NoKey == <<"none", NoRule, 0>>

NoSchedule == [granted |-> 0, next |-> 0, active |-> FALSE]
Made(r) == sched[r].granted > 0

Idle == [at |-> "idle", todo |-> {}, seen |-> [r \in Rules |-> NoSchedule],
         rule |-> NoRule, row |-> NoSchedule, key |-> NoKey]

Init ==
    /\ now = 0
    /\ enabled = [r \in Rules |-> TRUE]
    /\ policy = [r \in Rules |-> "periodic"]
    /\ bucketOn = [r \in Rules |-> TRUE]
    /\ frozen = {}
    /\ sched = [r \in Rules |-> NoSchedule]
    /\ rows = [r \in Rules |-> <<>>]
    /\ entitled = {}
    /\ done = {}
    /\ lock = [r \in Rules |-> NoProc]
    /\ proc = [p \in Procs |-> Idle]
    /\ faults = 0
    /\ raced = {}

Step(p, change) == proc' = [proc EXCEPT ![p] = change]
Release(p) == lock' = [r \in Rules |-> IF lock[r] = p THEN NoProc ELSE lock[r]]

\* An uncommitted insert of the same key makes a second one wait.
Claimed(k) == \E p \in Procs : proc[p].key = k

-----------------------------------------------------------------------------
(***************************************************************************)
(* Registration: one event for all enabled rules.                          *)
(***************************************************************************)

\* Insert the event, load the owner's enabled rules.
Register(p) ==
    /\ proc[p].at = "idle"
    /\ RegistrationKey \notin done
    /\ ~Claimed(RegistrationKey)
    /\ Step(p, [Idle EXCEPT !.at = "register", !.key = RegistrationKey,
                            !.todo = {r \in Rules : enabled[r]}])
    /\ UNCHANGED <<now, config, grants, lock, faults, raced>>

BeingDisabled(r) == \E q \in Clerks : proc[q].rule = r

\* A disabled bucket fails the whole event.  Otherwise a periodic rule gets
\* its first period, grant record and schedule, a quota rule an entitlement.
\* The policies are those at the commit: an edit since they were loaded is
\* the same edit after it.
RegisterCommit(p) ==
    LET new == {r \in proc[p].todo : policy[r] = "periodic"}
        quota == {r \in proc[p].todo : policy[r] = "quota"}
    IN  /\ proc[p].at = "register"
        /\ IF \A r \in proc[p].todo : bucketOn[r]
           THEN /\ sched' = [r \in Rules |->
                      IF r \in new
                      THEN [granted |-> 1, next |-> now + 1, active |-> TRUE]
                      ELSE sched[r]]
                /\ rows' = [r \in Rules |->
                      IF r \in new
                      THEN Append(rows[r], [period |-> 1, from |-> now])
                      ELSE rows[r]]
                /\ entitled' = entitled \cup {<<r, 1>> : r \in quota}
                /\ done' = done \cup {RegistrationKey}
                /\ raced' = raced \cup {r \in new : ~enabled[r] \/ BeingDisabled(r)}
           ELSE UNCHANGED <<grants, raced>>
        /\ Step(p, Idle)
        /\ UNCHANGED <<now, config, lock, faults>>

-----------------------------------------------------------------------------
(***************************************************************************)
(* Due schedules: the list is read first, with the number of periods       *)
(* granted so far; one event per schedule follows.                         *)
(***************************************************************************)

\* Slip: a period is due one period early.
DueEarly == {r \in Rules : sched[r].active /\ sched[r].next <= now + 1}

\* list_due_schedules: active, next_grant_time reached.
Due == {r \in Rules : sched[r].active /\ sched[r].next <= now}

Limit(p) == IF p \in Jobs THEN Batch ELSE ReadLimit

\* ORDER BY next_grant_time LIMIT n.
FirstDue(n) ==
    {S \in SUBSET Due :
        /\ Cardinality(S) <= n
        /\ Cardinality(S) < n => S = Due
        /\ \A r \in S, q \in Due \ S : sched[r].next <= sched[q].next}

ListDue(p) ==
    /\ proc[p].at = "idle"
    /\ Due # {}
    /\ \E S \in FirstDue(Limit(p)) :
          Step(p, [Idle EXCEPT !.at = "pick", !.todo = S,
                     !.seen = [r \in Rules |->
                                 IF r \in S THEN sched[r] ELSE NoSchedule]])
    /\ UNCHANGED <<now, config, grants, lock, faults, raced>>

\* Back to the loop, or out of it, once schedule r is dealt with.
Without(p, r) ==
    IF proc[p].todo = {r} THEN Idle
    ELSE [Idle EXCEPT !.at = "pick", !.todo = proc[p].todo \ {r},
                      !.seen = [proc[p].seen EXCEPT ![r] = NoSchedule]]

\* The event key of the period the list promised.
KeyOfPeriod(p, r) == PeriodKey(r, proc[p].seen[r].granted + 1)

\* Slip: the first error ends the job's round as it ends a read.
StopRound(p, r) == Idle

\* The job counts a failure and goes on; the read path returns the error.
AfterFailure(p, r) == IF p \in Jobs THEN Without(p, r) ELSE Idle

\* insert_or_load_event_in_tx: a completed event is replayed and writes
\* nothing; a claimed key makes the insert wait.  Then rule and bucket are
\* read: the policy of the moment decides what the event does.
InsertEvent(p) ==
    /\ proc[p].at = "pick"
    /\ \E r \in proc[p].todo :
          /\ \A q \in proc[p].todo : proc[p].seen[r].next <= proc[p].seen[q].next
          /\ ~Claimed(KeyOfPeriod(p, r))
          /\ IF KeyOfPeriod(p, r) \in done
             THEN Step(p, Without(p, r))
             ELSE IF ~bucketOn[r]
             THEN Step(p, AfterFailure(p, r))
             ELSE Step(p, [proc[p] EXCEPT
                             !.at = IF policy[r] = "quota" THEN "entitle" ELSE "lock",
                             !.rule = r, !.key = KeyOfPeriod(p, r)])
    /\ UNCHANGED <<now, config, grants, lock, faults, raced>>

\* Slip: the row is read without FOR UPDATE.
ReadRow(p, r) == UNCHANGED lock

\* SELECT ... FOR UPDATE.
LockRow(p, r) == lock[r] = NoProc /\ lock' = [lock EXCEPT ![r] = p]

\* The locked read of the schedule, for a fixed policy.
LockSchedule(p) ==
    LET r == proc[p].rule
    IN  /\ proc[p].at = "lock"
        /\ \/ /\ ~sched[r].active
              /\ lock[r] = NoProc
              /\ Step(p, AfterFailure(p, r))
              /\ UNCHANGED lock
           \/ /\ sched[r].active
              /\ LockRow(p, r)
              /\ Step(p, [proc[p] EXCEPT !.at = "write", !.row = sched[r]])
        /\ UNCHANGED <<now, config, grants, faults, raced>>

\* Slip: the row starts where the schedule stands, not where the list said.
RowFromNow(p) == [period |-> proc[p].row.granted + 1, from |-> now]

\* The ledger row and grant record of execute_scheduled_fixed_in_tx.
NewRow(p) == [period |-> proc[p].row.granted + 1,
              from |-> proc[p].seen[proc[p].rule].next]

\* Ledger, record, schedule and event in one commit; a wallet that is not
\* active refuses the row, and a period already recorded violates the
\* unique index: both roll back.
GrantCommit(p) ==
    LET r == proc[p].rule
        n == proc[p].row.granted + 1
    IN  /\ proc[p].at = "write"
        /\ IF r \in frozen \/ \E i \in 1..Len(rows[r]) : rows[r][i].period = n
           THEN /\ Step(p, AfterFailure(p, r))
                /\ UNCHANGED grants
           ELSE /\ rows' = [rows EXCEPT ![r] = Append(@, NewRow(p))]
                /\ sched' = [sched EXCEPT ![r].granted = n,
                                          ![r].next = n,
                                          ![r].active = TRUE]
                /\ done' = done \cup {proc[p].key}
                /\ Step(p, Without(p, r))
                /\ UNCHANGED entitled
        /\ Release(p)
        /\ UNCHANGED <<now, config, faults, raced>>

\* A quota policy: the entitlement is written and the event completed.  The
\* schedule is neither read nor moved on.
EntitleCommit(p) ==
    /\ proc[p].at = "entitle"
    /\ entitled' = entitled \cup {<<proc[p].rule, proc[p].key[3]>>}
    /\ done' = done \cup {proc[p].key}
    /\ Step(p, Without(p, proc[p].rule))
    /\ UNCHANGED <<now, config, sched, rows, lock, faults, raced>>

\* A statement or the commit fails, and the transaction rolls back.
GrantFails(p) ==
    /\ proc[p].at \in {"lock", "write", "entitle"}
    /\ faults < MaxFaults
    /\ faults' = faults + 1
    /\ Step(p, AfterFailure(p, proc[p].rule))
    /\ Release(p)
    /\ UNCHANGED <<now, config, grants, raced>>

-----------------------------------------------------------------------------
(***************************************************************************)
(* Stopping schedules: the first run of a subscription event, for the      *)
(* rules that are free-periodic by then, or a rule edit that disables the  *)
(* rule.  Both update every active schedule they see; a row another        *)
(* transaction holds is waited for and looked at again.                    *)
(***************************************************************************)
ActiveRows(S) == {r \in S : sched[r].active}

Subscribe(p) ==
    /\ proc[p].at = "idle"
    /\ SubscriptionKey \notin done
    /\ ~Claimed(SubscriptionKey)
    /\ Step(p, [Idle EXCEPT !.at = "deactivate", !.key = SubscriptionKey,
                            !.todo = ActiveRows({r \in Rules : policy[r] # "single"})])
    /\ UNCHANGED <<now, config, grants, lock, faults, raced>>

\* upsert_rules_in_tx holds the rule row from here to its commit.
DisableRule(p, r) ==
    /\ proc[p].at = "idle"
    /\ ~BeingDisabled(r)
    /\ Step(p, [Idle EXCEPT !.at = "deactivate", !.rule = r,
                            !.todo = ActiveRows({r})])
    /\ UNCHANGED <<now, config, grants, lock, faults, raced>>

DeactivateRow(p) ==
    /\ proc[p].at = "deactivate"
    /\ \E r \in proc[p].todo :
          /\ lock[r] = NoProc
          /\ lock' = IF sched[r].active THEN [lock EXCEPT ![r] = p] ELSE lock
          /\ Step(p, [proc[p] EXCEPT !.todo = @ \ {r}])
    /\ UNCHANGED <<now, config, grants, faults, raced>>

\* Slip: disabling a rule leaves its schedules to run.
KeepSchedules(p) == sched

Deactivated(p) ==
    [r \in Rules |-> IF lock[r] = p THEN [sched[r] EXCEPT !.active = FALSE]
                                    ELSE sched[r]]

DeactivateCommit(p) ==
    /\ proc[p].at = "deactivate"
    /\ proc[p].todo = {}
    /\ sched' = Deactivated(p)
    /\ \/ /\ proc[p].rule = NoRule
          /\ done' = done \cup {SubscriptionKey}
          /\ UNCHANGED enabled
       \/ /\ proc[p].rule # NoRule
          /\ enabled' = [enabled EXCEPT ![proc[p].rule] = FALSE]
          /\ UNCHANGED done
    /\ Step(p, Idle)
    /\ Release(p)
    /\ UNCHANGED <<now, policy, bucketOn, frozen, rows, entitled, faults, raced>>

\* An edit that leaves the rule enabled, or enables it again, gives it any
\* policy and touches no schedule.  (One that disables it with another
\* policy is this edit and then DisableRule.)
EditRule(r, new) ==
    /\ ~BeingDisabled(r)
    /\ enabled' = [enabled EXCEPT ![r] = TRUE]
    /\ policy' = [policy EXCEPT ![r] = new]
    /\ UNCHANGED <<now, bucketOn, frozen, grants, lock, proc, faults, raced>>

ToggleBucket(r) ==
    /\ bucketOn' = [bucketOn EXCEPT ![r] = ~@]
    /\ UNCHANGED <<now, enabled, policy, frozen, grants, lock, proc, faults, raced>>

\* An operator changes the status of a wallet that exists.
FreezeWallet(r) ==
    /\ Made(r)
    /\ frozen' = IF r \in frozen THEN frozen \ {r} ELSE frozen \cup {r}
    /\ UNCHANGED <<now, enabled, policy, bucketOn, grants, lock, proc, faults, raced>>

Tick ==
    /\ RegistrationKey \in done
    /\ now < MaxTime
    /\ now' = now + 1
    /\ UNCHANGED <<config, grants, lock, proc, faults, raced>>

GrantStep(p) == InsertEvent(p) \/ LockSchedule(p) \/ GrantCommit(p) \/ EntitleCommit(p)
StopStep(p) == DeactivateRow(p) \/ DeactivateCommit(p)

Next ==
    \/ \E p \in Clerks :
          \/ Register(p)
          \/ RegisterCommit(p)
          \/ Subscribe(p)
          \/ \E r \in Edited : DisableRule(p, r)
          \/ StopStep(p)
    \/ \E p \in Runners : ListDue(p) \/ GrantStep(p) \/ GrantFails(p)
    \/ \E r \in Edited, new \in Policies : EditRule(r, new)
    \/ \E r \in Fragile : ToggleBucket(r) \/ FreezeWallet(r)
    \/ Tick

Spec == Init /\ [][Next]_vars

(***************************************************************************)
(* The job's timer fires again and again and its loop runs on; requests    *)
(* that have begun a transaction end it.  Who waits for an event key or a  *)
(* schedule row is served in its turn, since the database queues the       *)
(* waiters of a lock: strong fairness of the steps that wait.  Nobody is   *)
(* obliged to read a balance, register, subscribe or edit a rule.          *)
(***************************************************************************)
FairSpec ==
    /\ Spec
    /\ \A p \in Jobs : WF_vars(ListDue(p)) /\ SF_vars(GrantStep(p))
    /\ \A p \in Readers : WF_vars(GrantStep(p))
    /\ \A p \in Clerks : WF_vars(RegisterCommit(p)) /\ SF_vars(StopStep(p))

-----------------------------------------------------------------------------
Periods == 1..(MaxTime + 1)

(***************************************************************************)
(* Every column keeps its range: no schedule counts a period past the last *)
(* instant, no row is dated ahead of the clock's range, and a lock has one *)
(* holder (points_grant_schedules).                                        *)
(***************************************************************************)
TypeOK ==
    /\ now \in 0..MaxTime
    /\ enabled \in [Rules -> BOOLEAN]
    /\ policy \in [Rules -> Policies]
    /\ bucketOn \in [Rules -> BOOLEAN]
    /\ frozen \subseteq Rules
    /\ entitled \subseteq Rules \X Periods
    /\ \A r \in Rules :
          /\ sched[r].active \in BOOLEAN
          /\ sched[r].granted \in {0} \cup Periods
          /\ lock[r] \in Procs \cup {NoProc}
          /\ rows[r] \in Seq([period : Periods, from : 0..MaxTime])
    /\ \A p \in Procs : proc[p].todo \subseteq Rules
    /\ faults \in 0..MaxFaults
    /\ raced \subseteq Rules

(***************************************************************************)
(* Job, read path and a second worker together grant every period of a     *)
(* schedule once, in order, never before its time, under the number the    *)
(* schedule counts, effective from that period's own start, and never both *)
(* as points and as a quota, although each of them acts on a list read     *)
(* before its transaction and the rule may change its policy in between    *)
(* (insert_or_load_event_in_tx, execute_scheduled_fixed_in_tx).            *)
(***************************************************************************)
GrantsInStep ==
    \A r \in Rules :
        /\ Len(rows[r]) = sched[r].granted
        /\ sched[r].granted <= now + 1
        /\ \A i \in 1..Len(rows[r]) :
              /\ rows[r][i] = [period |-> i, from |-> i - 1]
              /\ <<r, i>> \notin entitled

(***************************************************************************)
(* A schedule that a subscription or a disabled rule has stopped is never  *)
(* active again and gives no points any more, although a grant may have    *)
(* read it as due before, and writes active itself at its own commit       *)
(* (the FOR UPDATE and the test of active in                               *)
(* execute_scheduled_fixed_in_tx).                                         *)
(***************************************************************************)
StoppedIsFinal ==
    [][\A r \in Rules :
          Made(r) /\ ~sched[r].active
             => ~sched'[r].active /\ rows'[r] = rows[r]]_vars

(***************************************************************************)
(* An active schedule belongs to an enabled rule, except where the         *)
(* transaction that disabled the rule overlapped the registration that     *)
(* created the schedule (upsert_rules_in_tx).                              *)
(***************************************************************************)
DisableStopsSchedules ==
    \A r \in Rules : sched[r].active /\ ~enabled[r] => r \in raced

\* Schedules that no round moves on: a disabled bucket or a frozen wallet
\* fails the event; an event completed as a quota is only replayed.
Blocked(r) == ~bucketOn[r] \/ r \in frozen
Stuck == {r \in Due : Blocked(r) \/ <<r, sched[r].granted + 1>> \in entitled}

(***************************************************************************)
(* Every due period is dealt with in the end, unless the schedule is       *)
(* stopped or its bucket disabled or its wallet frozen: it is granted, or  *)
(* given as a quota if the rule has become a quota rule.  The job alone    *)
(* catches up however late it is, beside failing transactions and beside   *)
(* schedules that are stuck, as long as these do not fill its batch, which *)
(* takes the oldest ones first (process_due_schedules).                    *)
(***************************************************************************)
CatchesUp ==
    \A r \in Rules :
        r \in Due ~> (r \notin Due \ Stuck \/ Cardinality(Stuck) >= Batch)

(***************************************************************************)
(* What the job's comment says: it executes each due schedule, which has   *)
(* its terms from the snapshot taken at registration.  So a schedule does  *)
(* not stay due for good while its bucket and wallet are in order          *)
(* (GrantScheduler::process_due_schedules).                                *)
(***************************************************************************)
DueIsExecuted == \A r \in Rules : r \in Due ~> (r \notin Due \/ Blocked(r))

(***************************************************************************)
(* What the comment on load_single_rule_in_tx says: a due schedule belongs *)
(* to an enabled rule, since the edit that disables the rule stops its     *)
(* schedules in the same transaction.                                      *)
(***************************************************************************)
DueImpliesEnabled == \A r \in Due : enabled[r]

(***************************************************************************)
(* And what it says of the exception: a schedule that was fetched as due   *)
(* just before the disable is executed like any event in flight.           *)
(***************************************************************************)
FetchedIsExecuted ==
    \A p \in Jobs, r \in Rules, n \in Periods :
        (proc[p].key = PeriodKey(r, n) /\ ~sched[r].active /\ ~enabled[r])
            ~> PeriodKey(r, n) \in done
=============================================================================
