----------------------- MODULE GrantSchedulesProofs ------------------------
(* Proofs, for any number of rules, workers, readers and clerks, of the      *)
(* safety properties of GrantSchedules.  What keeps two grants of a schedule *)
(* apart is the unique event key, not the row lock: the keys of the periods  *)
(* granted so far are exactly those from 2 up to the count, so a claimed key *)
(* that is not done names the next period.  The lock keeps a stopped         *)
(* schedule stopped.                                                         *)
EXTENDS GrantSchedules, SequenceTheorems, TLAPS

SchedType == [granted : Nat, next : Nat, active : BOOLEAN]
RowType == [period : Nat, from : Nat]
ProcType ==
    [at : {"idle", "register", "pick", "lock", "write", "entitle", "deactivate"},
     todo : SUBSET Rules, seen : [Rules -> SchedType], rule : Rules \cup {NoRule},
     row : SchedType, key : {"registration", "subscription", "free", "none"} \X (Rules \cup {NoRule}) \X Nat]

Typed ==
    /\ now \in 0..MaxTime
    /\ enabled \in [Rules -> BOOLEAN]
    /\ policy \in [Rules -> Policies]
    /\ bucketOn \in [Rules -> BOOLEAN]
    /\ frozen \subseteq Rules
    /\ entitled \subseteq Rules \X Nat
    /\ sched \in [Rules -> SchedType]
    /\ rows \in [Rules -> Seq(RowType)]
    /\ lock \in [Rules -> Procs \cup {NoProc}]
    /\ proc \in [Procs -> ProcType]
    /\ faults \in 0..MaxFaults
    /\ raced \subseteq Rules

(* A period given as a quota is ahead of the schedule, which stays behind it *)
(* because the period's event is done.                                       *)
QuotaAhead(r) ==
    \A n \in Nat : <<r, n>> \in entitled =>
        /\ sched[r].granted < n /\ n >= 1 /\ n <= now + 1
        /\ n = 1 \/ PeriodKey(r, n) \in done

(* The ledger of a rule is what its schedule counts, and the event of every  *)
(* period after the first is done.                                           *)
RuleSound(r) ==
    /\ Len(rows[r]) = sched[r].granted
    /\ sched[r].next = sched[r].granted
    /\ sched[r].granted <= now + 1
    /\ \A i \in 1..Len(rows[r]) : rows[r][i] = [period |-> i, from |-> i - 1]
    /\ \A n \in 2..sched[r].granted : PeriodKey(r, n) \in done
    /\ sched[r].active => Made(r)

(* Before the registration commits nothing has happened.                     *)
Unregistered ==
    RegistrationKey \notin done => now = 0 /\ entitled = {} /\ \A r \in Rules : sched[r].granted = 0 /\ ~sched[r].active

(* No event key is claimed twice, and none that is done.                     *)
KeysApart ==
    /\ NoKey \notin done
    /\ \A p \in Procs : proc[p].key \notin done
    /\ \A p, q \in Procs : proc[p].key = proc[q].key /\ proc[p].key # NoKey => p = q

(* A list of due schedules is never ahead of the schedules themselves.       *)
SeenSound(k) ==
    \A r \in k.todo : /\ k.seen[r].granted \in 1..sched[r].granted
                      /\ k.seen[r].next = k.seen[r].granted
                      /\ k.seen[r].next <= now

ProcSound(k) ==
    /\ k.at = "register" => k.key = RegistrationKey
    /\ k.at = "deactivate" => k.key = IF k.rule = NoRule THEN SubscriptionKey ELSE NoKey
    /\ k.at \in {"pick", "lock", "write", "entitle"} => SeenSound(k)
    /\ k.at \in {"lock", "write", "entitle"} =>
         k.rule \in k.todo /\ k.key = PeriodKey(k.rule, k.seen[k.rule].granted + 1)

(* A grant that is about to write holds the row it read.                     *)
Holding(p, k) ==
    k.at = "write" => lock[k.rule] = p /\ k.row = sched[k.rule] /\ k.row.active

Inv ==
    /\ Typed
    /\ \A r \in Rules : RuleSound(r)
    /\ \A r \in Rules : QuotaAhead(r)
    /\ Unregistered
    /\ KeysApart
    /\ \A p \in Procs : ProcSound(proc[p]) /\ Holding(p, proc[p])

(* A rule that is being disabled has its schedule in sight.                  *)
InSight(p, k) ==
    k.at = "deactivate" /\ k.rule # NoRule /\ sched[k.rule].active =>
        k.rule \in k.todo \/ lock[k.rule] = p \/ k.rule \in raced
Stopping == DisableStopsSchedules /\ \A p \in Clerks : InSight(p, proc[p])

-----------------------------------------------------------------------------
(* What the processes hold *)

\* A process between two transactions holds nothing.
LEMMA IdleSound ==
    Idle \in ProcType /\ ProcSound(Idle) /\ Idle.at = "idle" /\ Idle.key = NoKey /\ Idle.rule = NoRule
<1>1. NoSchedule \in SchedType
  BY DEF NoSchedule, SchedType
<1>2. NoKey \in {"registration", "subscription", "free", "none"} \X (Rules \cup {NoRule}) \X Nat
  BY DEF NoKey
<1>3. Idle \in ProcType
  BY <1>1, <1>2 DEF Idle, ProcType
<1> QED BY <1>3 DEF Idle, ProcSound

\* Leaving the loop, or going on in it, claims nothing.
LEMMA WithoutSound ==
    ASSUME Inv, NEW p \in Procs, proc[p].at \in {"pick", "lock", "write", "entitle"}, NEW r \in proc[p].todo
    PROVE  /\ Without(p, r) \in ProcType /\ ProcSound(Without(p, r))
           /\ Without(p, r).key = NoKey /\ Without(p, r).at \in {"idle", "pick"}
<1>0. proc[p] \in ProcType /\ SeenSound(proc[p])
  BY DEF Inv, Typed, ProcSound
<1>1. CASE proc[p].todo = {r}
  BY <1>1, IdleSound DEF Without
<1>2. CASE proc[p].todo # {r}
  <2> DEFINE k == [Idle EXCEPT !.at = "pick", !.todo = proc[p].todo \ {r},
                               !.seen = [proc[p].seen EXCEPT ![r] = NoSchedule]]
  <2>1. NoSchedule \in SchedType /\ Idle \in ProcType /\ proc[p].seen \in [Rules -> SchedType]
        /\ r \in Rules /\ proc[p].todo \subseteq Rules
    BY <1>0, IdleSound DEF NoSchedule, SchedType, ProcType
  <2>2. [proc[p].seen EXCEPT ![r] = NoSchedule] \in [Rules -> SchedType]
    BY <2>1
  <2>3. k \in ProcType
    BY <2>1, <2>2 DEF ProcType
  <2>4. k.key = NoKey /\ k.at = "pick" /\ k.todo = proc[p].todo \ {r}
        /\ k.seen = [proc[p].seen EXCEPT ![r] = NoSchedule]
    BY DEF Idle
  <2>5. SeenSound(k)
    BY <1>0, <2>1, <2>4 DEF SeenSound
  <2>6. ProcSound(k)
    BY <2>4, <2>5 DEF ProcSound
  <2> QED BY <1>2, <2>3, <2>4, <2>6 DEF Without
<1> QED BY <1>1, <1>2

\* The same after a failed transaction.
LEMMA AfterFailureSound ==
    ASSUME Inv, NEW p \in Procs, proc[p].at \in {"pick", "lock", "write", "entitle"}, NEW r \in proc[p].todo
    PROVE  /\ AfterFailure(p, r) \in ProcType /\ ProcSound(AfterFailure(p, r))
           /\ AfterFailure(p, r).key = NoKey /\ AfterFailure(p, r).at \in {"idle", "pick"}
BY WithoutSound, IdleSound DEF AfterFailure

\* The rule of an event that has been claimed is one of the list.
LEMMA RuleListed ==
    ASSUME Inv, NEW p \in Procs, proc[p].at \in {"lock", "write", "entitle"}
    PROVE  proc[p].rule \in proc[p].todo /\ proc[p].rule \in Rules
BY DEF Inv, Typed, ProcSound, ProcType

\* Neither the clock nor a schedule ever goes back.
Onward == now <= now' /\ \A r \in Rules : sched[r].granted <= sched'[r].granted

\* What a process holds stays sound while others run.
LEMMA ProcLater ==
    ASSUME Typed, Typed', Onward, NEW k \in ProcType, ProcSound(k)
    PROVE  ProcSound(k)'
<1>1. ASSUME SeenSound(k), NEW r \in k.todo
      PROVE  /\ k.seen[r].granted \in 1..sched'[r].granted
             /\ k.seen[r].next = k.seen[r].granted
             /\ k.seen[r].next <= now'
  <2>1. r \in Rules /\ k.seen[r] \in SchedType
    BY DEF ProcType
  <2>2. k.seen[r].granted \in Nat /\ k.seen[r].next \in Nat
    BY <2>1 DEF SchedType
  <2>3. sched[r].granted \in Nat /\ sched'[r].granted \in Nat
    BY <2>1 DEF Typed, SchedType
  <2>4. now \in Nat /\ now' \in Nat
    BY LimitsAssumption DEF Typed
  <2>5. sched[r].granted <= sched'[r].granted /\ now <= now'
    BY <2>1 DEF Onward
  <2> QED BY <1>1, <2>2, <2>3, <2>4, <2>5 DEF SeenSound
<1>2. SeenSound(k) => SeenSound(k)'
  BY <1>1 DEF SeenSound
<1> QED BY <1>2 DEF ProcSound

\* One process moves to a sound record.
LEMMA ProcMove ==
    ASSUME Inv, Typed', Onward, NEW p \in Procs, NEW k \in ProcType, ProcSound(k)', Step(p, k)
    PROVE  \A q \in Procs : ProcSound(proc[q])'
<1>1. proc'[p] = k /\ \A q \in Procs \ {p} : proc'[q] = proc[q]
  BY DEF Inv, Typed, Step
<1> SUFFICES ASSUME NEW q \in Procs PROVE ProcSound(proc[q])'
  OBVIOUS
<1> PICK r : r = proc'[q]
  OBVIOUS
<1>2. ProcSound(r)'
  <2>1. CASE q = p
    BY <1>1, <2>1
  <2>2. CASE q # p
    <3>1. r \in ProcType /\ ProcSound(r) /\ Typed
      BY <1>1, <2>2 DEF Inv, Typed
    <3> QED BY <3>1, ProcLater
  <2> QED BY <2>1, <2>2
<1> QED BY <1>2 DEF ProcSound, SeenSound

\* No process moves.
LEMMA ProcStay ==
    ASSUME Inv, Typed', Onward, UNCHANGED proc
    PROVE  \A q \in Procs : ProcSound(proc[q])'
<1> SUFFICES ASSUME NEW q \in Procs PROVE ProcSound(proc[q])'
  OBVIOUS
<1> PICK r : r = proc[q]
  OBVIOUS
<1>1. r \in ProcType /\ ProcSound(r) /\ Typed
  BY DEF Inv, Typed
<1>2. ProcSound(r)'
  BY <1>1, ProcLater
<1> QED BY <1>2 DEF ProcSound, SeenSound

\* A key that nobody claims, that is the process's own or that is no key at
\* all can be claimed.
LEMMA KeysMove ==
    ASSUME Inv, NEW p \in Procs, NEW k \in ProcType, Step(p, k), k.key \notin done', NoKey \notin done',
           \A q \in Procs \ {p} : proc[q].key \notin done',
           k.key = NoKey \/ k.key = proc[p].key \/ ~Claimed(k.key)
    PROVE  KeysApart'
<1>1. proc'[p] = k /\ \A q \in Procs \ {p} : proc'[q] = proc[q]
  BY DEF Inv, Typed, Step
<1>2. \A q \in Procs : proc'[q].key \notin done'
  BY <1>1
<1>3. ASSUME NEW q \in Procs, NEW s \in Procs, proc'[q].key = proc'[s].key, proc'[q].key # NoKey PROVE q = s
  BY <1>1, <1>3 DEF Inv, KeysApart, Claimed
<1> QED BY <1>2, <1>3 DEF KeysApart

-----------------------------------------------------------------------------
(* Steps that leave the schedules alone *)

\* A step of one process that writes no schedule keeps the invariant.
LEMMA QuietStep ==
    ASSUME Inv, UNCHANGED <<now, config, grants, raced>>,
           NEW p \in Procs, NEW k \in ProcType, ProcSound(k), Step(p, k),
           k.key \notin done, k.key = NoKey \/ k.key = proc[p].key \/ ~Claimed(k.key),
           lock' \in [Rules -> Procs \cup {NoProc}], faults' \in 0..MaxFaults,
           \A r \in Rules : \A q \in Procs \ {p} : lock[r] = q => lock'[r] = q,
           k.at = "write" => lock'[k.rule] = p /\ k.row = sched[k.rule] /\ k.row.active
    PROVE  Inv'
<1>u. UNCHANGED <<now, enabled, policy, bucketOn, frozen, sched, rows, entitled, done, raced>>
  BY DEF config, grants
<1>0. Typed'
  BY <1>u DEF Inv, Typed, Step
<1>1. Onward
  BY <1>u, LimitsAssumption DEF Inv, Typed, Onward, SchedType
<1>2. ProcSound(k)'
  BY <1>0, <1>1, ProcLater DEF Inv
<1>3. \A q \in Procs : ProcSound(proc[q])'
  BY <1>0, <1>1, <1>2, ProcMove
<1>4. KeysApart'
  BY <1>u, KeysMove DEF Inv, KeysApart
<1>5. \A r \in Rules : RuleSound(r)' /\ QuotaAhead(r)'
  BY <1>u DEF Inv, RuleSound, QuotaAhead, Made
<1>6. Unregistered'
  BY <1>u DEF Inv, Unregistered
<1>7. ASSUME NEW q \in Procs PROVE Holding(q, proc[q])'
  <2>1. proc'[p] = k /\ \A s \in Procs \ {p} : proc'[s] = proc[s]
    BY DEF Inv, Typed, Step
  <2>2. CASE q = p
    BY <1>u, <2>1, <2>2 DEF Holding
  <2>3. CASE q # p
    <3>1. proc'[q] = proc[q] /\ Holding(q, proc[q]) /\ ProcSound(proc[q]) /\ proc[q] \in ProcType
      BY <2>1, <2>3 DEF Inv, Typed
    <3>2. proc[q].at = "write" => proc[q].rule \in Rules
      BY <3>1 DEF ProcSound, ProcType
    <3> QED BY <1>u, <2>3, <3>1, <3>2 DEF Holding
  <2> QED BY <2>2, <2>3
<1> QED BY <1>0, <1>3, <1>4, <1>5, <1>6, <1>7 DEF Inv

\* Releasing a process's locks touches no other process's.
LEMMA ReleaseKeeps ==
    ASSUME Inv, NEW p \in Procs, Release(p)
    PROVE  /\ lock' \in [Rules -> Procs \cup {NoProc}]
           /\ \A r \in Rules : lock'[r] = IF lock[r] = p THEN NoProc ELSE lock[r]
BY DEF Inv, Typed, Release

-----------------------------------------------------------------------------
(* The actions *)

LEMMA RegisterKeeps ==
    ASSUME Inv, NEW p \in Procs, Register(p)
    PROVE  Inv'
<1> PICK k : k = [Idle EXCEPT !.at = "register", !.key = RegistrationKey, !.todo = {r \in Rules : enabled[r]}]
  OBVIOUS
<1>1. k.at = "register" /\ k.key = RegistrationKey
  BY DEF Idle
<1>2. k \in ProcType
  <2>1. RegistrationKey \in {"registration", "subscription", "free", "none"} \X (Rules \cup {NoRule}) \X Nat
    BY DEF RegistrationKey
  <2> QED BY <2>1, IdleSound DEF ProcType
<1>3. ProcSound(k)
  BY <1>1 DEF ProcSound
<1> QED BY <1>1, <1>2, <1>3, QuietStep DEF Register, Inv, Typed

LEMMA SubscribeKeeps ==
    ASSUME Inv, NEW p \in Procs, Subscribe(p)
    PROVE  Inv'
<1> PICK k : k = [Idle EXCEPT !.at = "deactivate", !.key = SubscriptionKey, !.todo = ActiveRows({r \in Rules : policy[r] # "single"})]
  OBVIOUS
<1>1. k.at = "deactivate" /\ k.key = SubscriptionKey /\ k.rule = NoRule
  BY DEF Idle
<1>2. k \in ProcType
  <2>1. SubscriptionKey \in {"registration", "subscription", "free", "none"} \X (Rules \cup {NoRule}) \X Nat
    BY DEF SubscriptionKey
  <2> QED BY <2>1, IdleSound DEF ProcType, ActiveRows
<1>3. ProcSound(k)
  BY <1>1 DEF ProcSound
<1> QED BY <1>1, <1>2, <1>3, QuietStep DEF Subscribe, Inv, Typed

LEMMA DisableRuleKeeps ==
    ASSUME Inv, NEW p \in Procs, NEW r \in Edited, DisableRule(p, r)
    PROVE  Inv'
<1> PICK k : k = [Idle EXCEPT !.at = "deactivate", !.rule = r, !.todo = ActiveRows({r})]
  OBVIOUS
<1>1. k.at = "deactivate" /\ k.key = NoKey /\ k.rule # NoRule
  BY LimitsAssumption, NamesAssumption DEF Idle
<1>2. k \in ProcType
  BY IdleSound, LimitsAssumption DEF ProcType, ActiveRows
<1>3. ProcSound(k)
  BY <1>1 DEF ProcSound
<1> QED BY <1>1, <1>2, <1>3, QuietStep DEF DisableRule, Inv, Typed, KeysApart

LEMMA ListDueKeeps ==
    ASSUME Inv, NEW p \in Procs, ListDue(p)
    PROVE  Inv'
<1>1. PICK S \in FirstDue(Limit(p)) :
         Step(p, [Idle EXCEPT !.at = "pick", !.todo = S,
                     !.seen = [r \in Rules |-> IF r \in S THEN sched[r] ELSE NoSchedule]])
  BY DEF ListDue
<1>2. S \subseteq Due /\ Due \subseteq Rules
  BY DEF FirstDue, Due
<1> PICK s : s = [r \in Rules |-> IF r \in S THEN sched[r] ELSE NoSchedule]
  OBVIOUS
<1> PICK k : k = [Idle EXCEPT !.at = "pick", !.todo = S, !.seen = s]
  OBVIOUS
<1>3. k.at = "pick" /\ k.key = NoKey /\ k.todo = S /\ k.seen = s
  BY DEF Idle
<1>4. s \in [Rules -> SchedType]
  BY DEF Inv, Typed, NoSchedule, SchedType
<1>5. k \in ProcType
  BY <1>2, <1>4, IdleSound DEF ProcType
<1>6. ASSUME NEW r \in S
      PROVE  s[r].granted \in 1..sched[r].granted /\ s[r].next = s[r].granted /\ s[r].next <= now
  <2>1. r \in Rules /\ s[r] = sched[r] /\ sched[r].active /\ sched[r].next <= now
    BY <1>2 DEF Due
  <2>2. RuleSound(r) /\ sched[r] \in SchedType
    BY <2>1 DEF Inv, Typed
  <2> QED BY <2>1, <2>2 DEF RuleSound, Made, SchedType
<1>7. SeenSound(k)
  BY <1>3, <1>6 DEF SeenSound
<1>8. ProcSound(k)
  BY <1>3, <1>7 DEF ProcSound
<1> QED BY <1>1, <1>3, <1>5, <1>8, QuietStep DEF ListDue, Inv, Typed, KeysApart

LEMMA InsertEventKeeps ==
    ASSUME Inv, NEW p \in Procs, InsertEvent(p)
    PROVE  Inv'
<1>0. UNCHANGED <<now, config, grants, raced>> /\ lock' = lock /\ faults' = faults
  BY DEF InsertEvent
<1>1. PICK r \in proc[p].todo :
          /\ ~Claimed(KeyOfPeriod(p, r))
          /\ IF KeyOfPeriod(p, r) \in done
             THEN Step(p, Without(p, r))
             ELSE \/ Step(p, AfterFailure(p, r))
                  \/ \E at \in {"lock", "entitle"} :
                       Step(p, [proc[p] EXCEPT !.at = at, !.rule = r, !.key = KeyOfPeriod(p, r)])
  BY DEF InsertEvent
<1>2. proc[p] \in ProcType /\ proc[p].at = "pick" /\ SeenSound(proc[p]) /\ r \in Rules
  BY DEF InsertEvent, Inv, Typed, ProcSound, ProcType
<1>3. CASE KeyOfPeriod(p, r) \in done
  <2> PICK k : k = Without(p, r)
    OBVIOUS
  <2>1. k \in ProcType /\ ProcSound(k) /\ k.key = NoKey /\ k.at \in {"idle", "pick"}
    BY <1>2, WithoutSound
  <2> QED BY <1>0, <1>1, <1>3, <2>1, QuietStep DEF Inv, Typed, KeysApart
<1>f. CASE Step(p, AfterFailure(p, r))
  <2> PICK k : k = AfterFailure(p, r)
    OBVIOUS
  <2>1. k \in ProcType /\ ProcSound(k) /\ k.key = NoKey /\ k.at \in {"idle", "pick"}
    BY <1>2, AfterFailureSound
  <2> QED BY <1>0, <1>f, <2>1, QuietStep DEF Inv, Typed, KeysApart
<1>4. ASSUME KeyOfPeriod(p, r) \notin done, NEW at \in {"lock", "entitle"},
             Step(p, [proc[p] EXCEPT !.at = at, !.rule = r, !.key = KeyOfPeriod(p, r)])
      PROVE  Inv'
  <2> PICK n : n = proc[p].seen[r].granted + 1
    OBVIOUS
  <2>1. n \in Nat
    BY <1>2 DEF ProcType, SchedType
  <2>2. PeriodKey(r, n) \in {"registration", "subscription", "free", "none"} \X (Rules \cup {NoRule}) \X Nat
    BY <1>2, <2>1 DEF PeriodKey
  <2> PICK k : k = [proc[p] EXCEPT !.at = at, !.rule = r, !.key = PeriodKey(r, n)]
    OBVIOUS
  <2>3. k \in ProcType
    BY <1>2, <2>2 DEF ProcType
  <2>4. k.at = at /\ k.rule = r /\ k.key = PeriodKey(r, n) /\ k.todo = proc[p].todo /\ k.seen = proc[p].seen
    BY <1>2 DEF ProcType
  <2>5. SeenSound(k)
    BY <1>2, <2>4 DEF SeenSound
  <2>6. ProcSound(k)
    BY <2>4, <2>5 DEF ProcSound
  <2>7. KeyOfPeriod(p, r) = PeriodKey(r, n)
    BY DEF KeyOfPeriod
  <2>8. Step(p, k) /\ ~Claimed(k.key) /\ k.key \notin done
    BY <1>1, <1>4, <2>4, <2>7
  <2> QED BY <1>0, <2>3, <2>4, <2>6, <2>8, QuietStep DEF Inv, Typed
<1> QED BY <1>1, <1>3, <1>f, <1>4

LEMMA LockScheduleKeeps ==
    ASSUME Inv, NEW p \in Procs, LockSchedule(p)
    PROVE  Inv'
<1>0. UNCHANGED <<now, config, grants, raced>> /\ faults' = faults
      /\ proc[p].at = "lock" /\ lock \in [Rules -> Procs \cup {NoProc}]
  BY DEF LockSchedule, Inv, Typed
<1>1. CASE Step(p, AfterFailure(p, proc[p].rule)) /\ lock' = lock
  <2> PICK k : k = AfterFailure(p, proc[p].rule)
    OBVIOUS
  <2>1. k \in ProcType /\ ProcSound(k) /\ k.key = NoKey /\ k.at \in {"idle", "pick"}
    BY <1>0, RuleListed, AfterFailureSound
  <2> QED BY <1>0, <1>1, <2>1, QuietStep DEF Inv, Typed, KeysApart
<1>2. CASE /\ sched[proc[p].rule].active /\ LockRow(p, proc[p].rule)
           /\ Step(p, [proc[p] EXCEPT !.at = "write", !.row = sched[proc[p].rule]])
  <2> PICK r : r = proc[p].rule
    OBVIOUS
  <2> PICK k : k = [proc[p] EXCEPT !.at = "write", !.row = sched[r]]
    OBVIOUS
  <2>1. proc[p] \in ProcType /\ ProcSound(proc[p]) /\ r \in proc[p].todo /\ r \in Rules
    BY <1>0 DEF Inv, Typed, ProcSound, ProcType
  <2>2. sched[r] \in SchedType
    BY <2>1 DEF Inv, Typed
  <2>3. k \in ProcType
    BY <2>1, <2>2 DEF ProcType
  <2>4. k.at = "write" /\ k.rule = r /\ k.key = proc[p].key /\ k.todo = proc[p].todo /\ k.seen = proc[p].seen
        /\ k.row = sched[r]
    BY <2>1 DEF ProcType
  <2>5. ProcSound(k)
    BY <1>0, <2>1, <2>4 DEF ProcSound, SeenSound
  <2>6. lock' = [lock EXCEPT ![r] = p] /\ lock[r] = NoProc /\ sched[r].active
    BY <1>2 DEF LockRow
  <2>7. /\ lock' \in [Rules -> Procs \cup {NoProc}] /\ lock'[r] = p
        /\ \A t \in Rules : \A q \in Procs \ {p} : lock[t] = q => lock'[t] = q
    BY <1>0, <2>1, <2>6, NamesAssumption
  <2>8. k.key \notin done
    BY <2>4 DEF Inv, KeysApart
  <2>9. faults' \in 0..MaxFaults
    BY <1>0 DEF Inv, Typed
  <2>10. Step(p, k)
    BY <1>2
  <2>11. lock'[k.rule] = p /\ k.row = sched[k.rule] /\ k.row.active
    BY <2>4, <2>6, <2>7
  <2>12. k.key = proc[p].key
    BY <2>4
  <2> QED BY <1>0, <2>3, <2>5, <2>7, <2>8, <2>9, <2>10, <2>11, <2>12, QuietStep
<1> QED BY <1>1, <1>2 DEF LockSchedule

LEMMA GrantFailsKeeps ==
    ASSUME Inv, NEW p \in Procs, GrantFails(p)
    PROVE  Inv'
<1> PICK k : k = AfterFailure(p, proc[p].rule)
  OBVIOUS
<1>1. k \in ProcType /\ ProcSound(k) /\ k.key = NoKey /\ k.at \in {"idle", "pick"}
  BY RuleListed, AfterFailureSound DEF GrantFails
<1>2. /\ lock' \in [Rules -> Procs \cup {NoProc}]
      /\ \A r \in Rules : \A q \in Procs \ {p} : lock[r] = q => lock'[r] = q
  BY ReleaseKeeps DEF GrantFails
<1>3. faults' \in 0..MaxFaults
  BY LimitsAssumption DEF GrantFails, Inv, Typed
<1>4. k.key \notin done
  BY <1>1 DEF Inv, KeysApart
<1> QED BY <1>1, <1>2, <1>3, <1>4, QuietStep DEF GrantFails

LEMMA DeactivateRowKeeps ==
    ASSUME Inv, NEW p \in Procs, DeactivateRow(p)
    PROVE  Inv'
<1>1. PICK r \in proc[p].todo :
          /\ lock[r] = NoProc
          /\ lock' = IF sched[r].active THEN [lock EXCEPT ![r] = p] ELSE lock
          /\ Step(p, [proc[p] EXCEPT !.todo = @ \ {r}])
  BY DEF DeactivateRow
<1> PICK k : k = [proc[p] EXCEPT !.todo = @ \ {r}]
  OBVIOUS
<1>2. proc[p] \in ProcType /\ ProcSound(proc[p]) /\ proc[p].at = "deactivate" /\ r \in Rules
  BY DEF Inv, Typed, DeactivateRow, ProcType
<1>3. k \in ProcType /\ k.at = "deactivate" /\ k.key = proc[p].key /\ k.rule = proc[p].rule
  BY <1>2 DEF ProcType
<1>4. ProcSound(k)
  BY <1>2, <1>3 DEF ProcSound
<1>5. lock \in [Rules -> Procs \cup {NoProc}] /\ k.key \notin done
  BY <1>3 DEF Inv, Typed, KeysApart
<1>6. /\ lock' \in [Rules -> Procs \cup {NoProc}]
      /\ \A t \in Rules : \A q \in Procs \ {p} : lock[t] = q => lock'[t] = q
  BY <1>1, <1>2, <1>5, NamesAssumption
<1> QED BY <1>1, <1>3, <1>4, <1>5, <1>6, QuietStep DEF DeactivateRow, Inv, Typed

\* The registration commits while nothing has happened: every schedule it
\* makes is new.
LEMMA RegisterCommitKeeps ==
    ASSUME Inv, NEW p \in Procs, RegisterCommit(p)
    PROVE  Inv' /\ \A r \in Rules : Made(r) => sched'[r] = sched[r] /\ rows'[r] = rows[r]
<1> PICK k : k = Idle
  OBVIOUS
<1>0. /\ k \in ProcType /\ ProcSound(k) /\ k.at = "idle" /\ k.key = NoKey
      /\ Step(p, k) /\ UNCHANGED <<now, config, lock, faults>>
  BY IdleSound DEF RegisterCommit, ProcSound, SeenSound
<1>1. CASE UNCHANGED <<grants, raced>>
  <2>1. k.key \notin done /\ lock \in [Rules -> Procs \cup {NoProc}] /\ faults \in 0..MaxFaults
    BY <1>0 DEF Inv, KeysApart, Typed
  <2> QED BY <1>0, <1>1, <2>1, QuietStep DEF grants
<1>2. CASE ~UNCHANGED <<grants, raced>>
  <2> PICK new : new = {r \in proc[p].todo : policy[r] = "periodic"}
    OBVIOUS
  <2> PICK s : s = [granted |-> 1, next |-> 1, active |-> TRUE]
    OBVIOUS
  <2> PICK w : w = [period |-> 1, from |-> 0]
    OBVIOUS
  <2>1. proc[p].key = RegistrationKey /\ RegistrationKey \notin done /\ new \subseteq Rules
    BY DEF RegisterCommit, Inv, Typed, ProcSound, KeysApart, ProcType
  <2>2. now = 0 /\ entitled = {} /\ \A r \in Rules : sched[r].granted = 0 /\ ~sched[r].active
    BY <2>1 DEF Inv, Unregistered
  <2>3. \A r \in Rules : rows[r] = <<>>
    <3> SUFFICES ASSUME NEW r \in Rules PROVE rows[r] = <<>>
      OBVIOUS
    <3>1. Len(rows[r]) = 0 /\ rows[r] \in Seq(RowType)
      BY <2>2 DEF Inv, Typed, RuleSound
    <3> QED BY <3>1, EmptySeq
  <2>4. /\ sched' = [r \in Rules |-> IF r \in new THEN s ELSE sched[r]]
        /\ rows' = [r \in Rules |-> IF r \in new THEN Append(rows[r], w) ELSE rows[r]]
        /\ entitled' = {<<r, 1>> : r \in {r \in proc[p].todo : policy[r] = "quota"}}
        /\ done' = done \cup {RegistrationKey}
        /\ raced' = raced \cup {r \in new : ~enabled[r] \/ BeingDisabled(r)}
    BY <1>2, <2>2 DEF RegisterCommit
  <2> PICK v : v = Append(<<>>, w)
    OBVIOUS
  <2>5. \A r \in Rules : r \in new => rows'[r] = v /\ sched'[r] = s
    BY <2>3, <2>4
  <2>6. \A r \in Rules : r \notin new => rows'[r] = <<>> /\ sched'[r] = sched[r]
    BY <2>3, <2>4
  <2>7. s \in SchedType /\ w \in RowType
    BY DEF SchedType, RowType
  <2>v. v \in Seq(RowType) /\ Len(v) = 1 /\ v[1] = w
    <3>1. <<>> \in Seq(RowType) /\ Len(<<>>) = 0
      OBVIOUS
    <3> QED BY <2>7, <3>1, AppendProperties
  <2>8. sched' \in [Rules -> SchedType]
    BY <2>4, <2>7 DEF Inv, Typed
  <2>9. rows' \in [Rules -> Seq(RowType)]
    <3>0. <<>> \in Seq(RowType)
      OBVIOUS
    <3>1. \A r \in Rules : rows'[r] \in Seq(RowType)
      <4> SUFFICES ASSUME NEW r \in Rules PROVE rows'[r] \in Seq(RowType)
        OBVIOUS
      <4>1. rows'[r] = v \/ rows'[r] = <<>>
        BY <2>5, <2>6
      <4> QED BY <2>v, <3>0, <4>1
    <3> QED BY <2>4, <3>1
  <2>e. entitled' \subseteq Rules \X {1} /\ \A r \in new : <<r, 1>> \notin entitled'
    BY <2>4 DEF Inv, Typed, ProcType
  <2>10. Typed'
    BY <1>0, <2>1, <2>4, <2>8, <2>9, <2>e DEF Inv, Typed, Step, config
  <2>11. Onward
    BY <1>0, <2>2, <2>5, <2>6 DEF Onward
  <2>12. \A q \in Procs : ProcSound(proc[q])'
    <3>1. ProcSound(k)'
      BY <2>10, <2>11, <1>0, ProcLater DEF Inv
    <3> QED BY <1>0, <2>10, <2>11, <3>1, ProcMove
  <2>13. KeysApart'
    <3>1. NoKey \notin done'
      BY <2>4 DEF Inv, KeysApart, NoKey, RegistrationKey
    <3>2. NoKey # RegistrationKey
      BY DEF NoKey, RegistrationKey
    <3>3. \A q \in Procs \ {p} : proc[q].key \notin done'
      BY <2>1, <2>4, <3>2 DEF Inv, KeysApart
    <3> QED BY <1>0, <3>1, <3>3, KeysMove
  <2>14. ASSUME NEW r \in Rules PROVE RuleSound(r)'
    <3>1. CASE r \in new
      <4>1. rows'[r] = v /\ sched'[r] = s /\ now' = 0
        BY <1>0, <2>2, <2>5, <3>1
      <4>2. Len(rows'[r]) = 1 /\ \A i \in 1..1 : rows'[r][i] = [period |-> i, from |-> i - 1]
        BY <2>v, <4>1
      <4> QED BY <4>1, <4>2 DEF RuleSound, Made
    <3>2. CASE r \notin new
      <4>1. rows'[r] = <<>> /\ sched'[r] = sched[r] /\ now' = 0
        BY <1>0, <2>2, <2>6, <3>2
      <4>2. sched[r].granted = 0 /\ sched[r].next = 0 /\ ~sched[r].active
        BY <2>2 DEF Inv, RuleSound
      <4> QED BY <4>1, <4>2 DEF RuleSound, Made
    <3> QED BY <3>1, <3>2
  <2>q. ASSUME NEW r \in Rules PROVE QuotaAhead(r)'
    <3> SUFFICES ASSUME NEW n \in Nat, <<r, n>> \in entitled' PROVE n = 1 /\ sched'[r].granted = 0 /\ now' = 0
      BY DEF QuotaAhead
    <3>1. n = 1 /\ r \notin new
      BY <2>e
    <3> QED BY <1>0, <2>2, <2>6, <3>1
  <2>15. Unregistered'
    BY <2>4 DEF Unregistered
  <2>16. ASSUME NEW q \in Procs PROVE Holding(q, proc[q])'
    <3>1. proc'[p] = k /\ \A t \in Procs \ {p} : proc'[t] = proc[t]
      BY <1>0 DEF Inv, Typed, Step
    <3>2. CASE q = p
      BY <1>0, <3>1, <3>2 DEF Holding
    <3>3. CASE q # p
      <4>1. proc'[q] = proc[q] /\ proc[q] \in ProcType /\ ProcSound(proc[q])
        BY <3>1, <3>3 DEF Inv, Typed
      <4>2. proc[q].at # "write"
        <5> SUFFICES ASSUME proc[q].at = "write" PROVE FALSE
          OBVIOUS
        <5>1. proc[q].rule \in Rules /\ proc[q].seen[proc[q].rule].granted \in 1..sched[proc[q].rule].granted
          BY <4>1 DEF ProcSound, SeenSound, ProcType
        <5> QED BY <2>2, <5>1
      <4> QED BY <4>1, <4>2 DEF Holding
    <3> QED BY <3>2, <3>3
  <2>17. Inv'
    BY <2>10, <2>12, <2>13, <2>14, <2>q, <2>15, <2>16 DEF Inv
  <2> QED BY <2>2, <2>17 DEF Made
<1> QED BY <1>1, <1>2 DEF grants

\* A claimed event is the next period of its schedule.
LEMMA ClaimedIsNext ==
    ASSUME Inv, NEW p \in Procs, proc[p].at \in {"lock", "write", "entitle"}
    PROVE  /\ proc[p].rule \in Rules
           /\ proc[p].seen[proc[p].rule].next = sched[proc[p].rule].granted
           /\ sched[proc[p].rule].granted \in Nat \ {0} /\ sched[proc[p].rule].granted <= now
           /\ proc[p].key = PeriodKey(proc[p].rule, sched[proc[p].rule].granted + 1)
           /\ proc[p].key \notin done
<1> PICK r : r = proc[p].rule
  OBVIOUS
<1> PICK g : g = proc[p].seen[r].granted
  OBVIOUS
<1>1. proc[p] \in ProcType /\ ProcSound(proc[p]) /\ SeenSound(proc[p])
  BY DEF Inv, Typed, ProcSound
<1>2. r \in proc[p].todo /\ r \in Rules /\ proc[p].key = PeriodKey(r, g + 1)
  BY <1>1 DEF ProcSound, ProcType
<1>4. g \in 1..sched[r].granted /\ proc[p].seen[r].next = g /\ g <= now
  BY <1>1, <1>2 DEF SeenSound
<1>5. sched[r].granted \in Nat
  BY <1>2 DEF Inv, Typed, SchedType
<1>6. PeriodKey(r, g + 1) \notin done
  BY <1>2 DEF Inv, KeysApart
<1>7. g + 1 \notin 2..sched[r].granted
  BY <1>2, <1>6 DEF Inv, RuleSound
<1>8. g = sched[r].granted
  BY <1>4, <1>5, <1>7
<1> QED BY <1>2, <1>4, <1>5, <1>6, <1>8

\* A grant that is about to write holds its schedule.
LEMMA NextPeriod ==
    ASSUME Inv, NEW p \in Procs, proc[p].at = "write"
    PROVE  proc[p].row = sched[proc[p].rule] /\ sched[proc[p].rule].active /\ lock[proc[p].rule] = p
BY DEF Inv, Holding

\* A commit of a grant adds the next period and nothing else.
LEMMA GrantCommitKeeps ==
    ASSUME Inv, NEW p \in Procs, GrantCommit(p)
    PROVE  /\ Inv'
           /\ \A r \in Rules : ~sched[r].active => sched'[r] = sched[r] /\ rows'[r] = rows[r]
           /\ \A r \in Rules : sched'[r].active <=> sched[r].active
<1> PICK r : r = proc[p].rule
  OBVIOUS
<1> PICK n : n = sched[r].granted + 1
  OBVIOUS
<1>1. /\ r \in Rules /\ proc[p].row = sched[r] /\ sched[r].active /\ lock[r] = p
      /\ proc[p].seen[r].next = sched[r].granted /\ sched[r].granted \in Nat \ {0} /\ sched[r].granted <= now
      /\ proc[p].key = PeriodKey(r, n) /\ proc[p].at = "write" /\ PeriodKey(r, n) \notin done
  BY NextPeriod, ClaimedIsNext DEF GrantCommit
<1>t. r \in proc[p].todo
  BY <1>1 DEF Inv, ProcSound
<1>2. RuleSound(r) /\ rows[r] \in Seq(RowType) /\ sched[r] \in SchedType /\ proc[p] \in ProcType /\ now \in Nat
  BY <1>1, LimitsAssumption DEF Inv, Typed
<1>3. n \in Nat /\ Len(rows[r]) = n - 1 /\ n >= 2 /\ n <= now + 1
  <2>1. Len(rows[r]) = sched[r].granted
    BY <1>2 DEF RuleSound
  <2>2. sched[r].granted \in Nat \ {0} /\ sched[r].granted <= now /\ now \in Nat /\ n = sched[r].granted + 1
    BY <1>1, <1>2
  <2> QED BY ONLY <2>1, <2>2
<1>4. ~\E i \in 1..Len(rows[r]) : rows[r][i].period = n
  <2>1. ASSUME NEW i \in 1..Len(rows[r]) PROVE rows[r][i].period = i
    <3>1. rows[r][i] = [period |-> i, from |-> i - 1]
      BY <1>2 DEF RuleSound
    <3> QED BY <3>1
  <2> QED BY <1>3, <2>1
<1>f. CASE r \in frozen
  <2> PICK k : k = AfterFailure(p, r)
    OBVIOUS
  <2>1. k \in ProcType /\ ProcSound(k) /\ k.key = NoKey /\ k.at \in {"idle", "pick"}
    BY <1>1, <1>t, AfterFailureSound
  <2>2. Step(p, k) /\ UNCHANGED <<now, config, grants, faults, raced>> /\ Release(p)
    BY <1>f DEF GrantCommit
  <2>3. /\ lock' \in [Rules -> Procs \cup {NoProc}]
        /\ \A t \in Rules : \A q \in Procs \ {p} : lock[t] = q => lock'[t] = q
    BY <2>2, ReleaseKeeps
  <2>4. k.key \notin done /\ faults' \in 0..MaxFaults
    BY <2>1, <2>2 DEF Inv, KeysApart, Typed
  <2>5. Inv'
    BY <2>1, <2>2, <2>3, <2>4, QuietStep
  <2>6. sched' = sched /\ rows' = rows
    BY <2>2 DEF grants
  <2> QED BY <2>5, <2>6
<1> SUFFICES ASSUME r \notin frozen
             PROVE  /\ Inv'
                    /\ \A t \in Rules : ~sched[t].active => sched'[t] = sched[t] /\ rows'[t] = rows[t]
                    /\ \A t \in Rules : sched'[t].active <=> sched[t].active
  BY <1>f
<1> PICK w : w = [period |-> n, from |-> n - 1]
  OBVIOUS
<1>5. NewRow(p) = w /\ w \in RowType
  BY <1>1, <1>3 DEF NewRow, RowType
<1> PICK s : s = [sched[r] EXCEPT !.granted = n, !.next = n, !.active = TRUE]
  OBVIOUS
<1>6. s \in SchedType /\ s.granted = n /\ s.next = n /\ s.active
  BY <1>2, <1>3 DEF SchedType
<1>7. /\ rows' = [rows EXCEPT ![r] = Append(@, w)]
      /\ sched' = [sched EXCEPT ![r] = s]
      /\ done' = done \cup {PeriodKey(r, n)}
      /\ Step(p, Without(p, r)) /\ Release(p)
      /\ UNCHANGED <<now, config, entitled, faults, raced>>
  <2>1. proc[p].row.granted + 1 = n
    BY <1>1
  <2>2. /\ rows' = [rows EXCEPT ![r] = Append(@, NewRow(p))]
        /\ sched' = [sched EXCEPT ![r].granted = n, ![r].next = n, ![r].active = TRUE]
        /\ done' = done \cup {proc[p].key}
        /\ Step(p, Without(p, r)) /\ Release(p)
        /\ UNCHANGED <<now, config, entitled, faults, raced>>
    BY <1>4, <2>1 DEF GrantCommit
  <2>3. sched' = [sched EXCEPT ![r] = s]
    BY <2>2
  <2> QED BY <1>1, <1>5, <2>2, <2>3
<1>8. /\ rows'[r] \in Seq(RowType) /\ Len(rows'[r]) = n /\ rows'[r][n] = w
      /\ \A i \in 1..(n - 1) : rows'[r][i] = rows[r][i]
  <2>1. rows'[r] = Append(rows[r], w)
    BY <1>1, <1>7 DEF Inv, Typed
  <2>2. /\ Append(rows[r], w) \in Seq(RowType) /\ Len(Append(rows[r], w)) = Len(rows[r]) + 1
        /\ \A i \in 1..Len(rows[r]) : Append(rows[r], w)[i] = rows[r][i]
        /\ Append(rows[r], w)[Len(rows[r]) + 1] = w
    BY <1>2, <1>5, AppendProperties
  <2>3. Len(rows[r]) + 1 = n
    BY <1>3
  <2> QED BY <1>3, <2>1, <2>2, <2>3
<1>9. /\ sched'[r] = s /\ \A q \in Rules \ {r} : sched'[q] = sched[q] /\ rows'[q] = rows[q]
  BY <1>1, <1>7 DEF Inv, Typed
<1>10. rows' \in [Rules -> Seq(RowType)] /\ sched' \in [Rules -> SchedType]
  BY <1>6, <1>7, <1>8, <1>9 DEF Inv, Typed
<1> PICK k : k = Without(p, r)
  OBVIOUS
<1>11. k \in ProcType /\ ProcSound(k) /\ k.key = NoKey /\ k.at \in {"idle", "pick"}
  BY <1>1, <1>t, WithoutSound
<1>12. Typed'
  BY <1>7, <1>10, <1>11, ReleaseKeeps DEF Inv, Typed, Step, config
<1>13. Onward
  <2>1. \A q \in Rules : sched[q].granted \in Nat
    BY DEF Inv, Typed, SchedType
  <2>2. s.granted = sched[r].granted + 1
    BY <1>6
  <2> QED BY <1>2, <1>7, <1>9, <2>1, <2>2 DEF Onward
<1>14. \A q \in Procs : ProcSound(proc[q])'
  <2>1. ProcSound(k)'
    BY <1>11, <1>12, <1>13, ProcLater DEF Inv
  <2> QED BY <1>7, <1>11, <1>12, <1>13, <2>1, ProcMove
<1>15. KeysApart'
  <2>1. NoKey \notin done'
    BY <1>7 DEF Inv, KeysApart, NoKey, PeriodKey
  <2>2. NoKey # PeriodKey(r, n)
    BY DEF NoKey, PeriodKey
  <2>3. \A q \in Procs \ {p} : proc[q].key \notin done'
    BY <1>1, <1>7, <2>2 DEF Inv, KeysApart
  <2> QED BY <1>7, <1>11, <2>1, <2>3, KeysMove
<1>16. ASSUME NEW q \in Rules PROVE RuleSound(q)'
  <2>1. CASE q = r
    <3>1. sched'[q].granted = n /\ sched'[q].next = n /\ sched'[q].active
      BY <1>6, <1>9, <2>1
    <3>2. \A i \in 1..n : rows'[q][i] = [period |-> i, from |-> i - 1]
      <4>1. \A i \in 1..(n - 1) : rows'[q][i] = [period |-> i, from |-> i - 1]
        BY <1>2, <1>3, <1>8, <2>1 DEF RuleSound
      <4>2. \A i \in 1..n : i = n \/ i \in 1..(n - 1)
        BY <1>3
      <4> QED BY <1>8, <2>1, <4>1, <4>2
    <3>3. \A m \in 2..n : PeriodKey(q, m) \in done'
      <4>1. \A m \in 2..(n - 1) : PeriodKey(q, m) \in done'
        BY <1>2, <1>3, <1>7, <2>1 DEF RuleSound
      <4>2. \A m \in 2..n : m = n \/ m \in 2..(n - 1)
        BY <1>3
      <4> QED BY <1>7, <2>1, <4>1, <4>2
    <3>4. Len(rows'[q]) = n /\ n <= now' + 1 /\ n > 0
      BY <1>3, <1>7, <1>8, <2>1
    <3> QED BY <3>1, <3>2, <3>3, <3>4 DEF RuleSound, Made
  <2>2. CASE q # r
    <3>1. RuleSound(q) /\ sched'[q] = sched[q] /\ rows'[q] = rows[q] /\ now' = now /\ done \subseteq done'
      BY <1>7, <1>9, <2>2 DEF Inv
    <3> QED BY <3>1 DEF RuleSound, Made
  <2> QED BY <2>1, <2>2
<1>q. ASSUME NEW q \in Rules PROVE QuotaAhead(q)'
  <2>1. QuotaAhead(q) /\ entitled' = entitled /\ now' = now /\ done \subseteq done'
    BY <1>7 DEF Inv
  <2>2. CASE q = r
    <3> SUFFICES ASSUME NEW m \in Nat, <<q, m>> \in entitled'
                 PROVE  sched'[q].granted < m /\ m >= 1 /\ m <= now' + 1 /\ (m = 1 \/ PeriodKey(q, m) \in done')
      BY DEF QuotaAhead
    <3>1. sched[r].granted < m /\ m >= 1 /\ m <= now + 1 /\ (m = 1 \/ PeriodKey(r, m) \in done)
      BY <2>1, <2>2 DEF QuotaAhead
    <3>2. m # n
      BY <1>1, <1>3, <3>1
    <3>3. sched'[q].granted = n
      BY <1>6, <1>9, <2>2
    <3> QED BY <1>1, <2>1, <2>2, <3>1, <3>2, <3>3
  <2>3. CASE q # r
    BY <1>9, <2>1, <2>3 DEF QuotaAhead
  <2> QED BY <2>2, <2>3
<1>17. Unregistered'
  <2>1. RegistrationKey \in done
    BY <1>1 DEF Inv, Unregistered
  <2> QED BY <1>7, <2>1 DEF Unregistered
<1>18. ASSUME NEW q \in Procs PROVE Holding(q, proc[q])'
  <2>1. proc'[p] = k /\ \A t \in Procs \ {p} : proc'[t] = proc[t]
    BY <1>7 DEF Inv, Typed, Step
  <2>2. CASE q = p
    BY <1>11, <2>1, <2>2 DEF Holding
  <2>3. CASE q # p
    <3>1. proc'[q] = proc[q] /\ proc[q] \in ProcType /\ Holding(q, proc[q]) /\ ProcSound(proc[q])
      BY <2>1, <2>3 DEF Inv, Typed
    <3>2. proc[q].at = "write" => proc[q].rule \in Rules /\ proc[q].rule # r
      BY <1>1, <2>3, <3>1 DEF Holding, ProcSound, ProcType
    <3>3. proc[q].at = "write" => lock'[proc[q].rule] = q
      BY <1>7, <2>3, <3>1, <3>2, ReleaseKeeps DEF Holding
    <3> QED BY <1>9, <3>1, <3>2, <3>3 DEF Holding
  <2> QED BY <2>2, <2>3
<1>19. Inv'
  BY <1>12, <1>14, <1>15, <1>16, <1>q, <1>17, <1>18 DEF Inv
<1>20. \A t \in Rules : ~sched[t].active => sched'[t] = sched[t] /\ rows'[t] = rows[t]
  BY <1>1, <1>9
<1>21. ASSUME NEW t \in Rules PROVE sched'[t].active <=> sched[t].active
  <2>1. CASE t = r
    <3>1. sched'[t].active = TRUE
      BY <1>6, <1>9, <2>1
    <3>2. sched[t].active
      BY <1>1, <2>1
    <3> QED BY <3>1, <3>2
  <2>2. CASE t # r
    <3>1. sched'[t] = sched[t]
      BY <1>9, <2>2
    <3> QED BY <3>1
  <2> QED BY <2>1, <2>2
<1> QED BY <1>19, <1>20, <1>21

\* An event that runs as a quota is done, and its schedule stays where it is.
LEMMA EntitleCommitKeeps ==
    ASSUME Inv, NEW p \in Procs, EntitleCommit(p)
    PROVE  Inv'
<1> PICK r : r = proc[p].rule
  OBVIOUS
<1> PICK n : n = sched[r].granted + 1
  OBVIOUS
<1>1. /\ r \in Rules /\ sched[r].granted \in Nat \ {0} /\ sched[r].granted <= now /\ r \in proc[p].todo
      /\ proc[p].key = PeriodKey(r, n) /\ proc[p].at = "entitle" /\ n \in Nat
  BY ClaimedIsNext, RuleListed DEF EntitleCommit
<1> PICK k : k = Without(p, r)
  OBVIOUS
<1>2. k \in ProcType /\ ProcSound(k) /\ k.key = NoKey /\ k.at \in {"idle", "pick"}
  BY <1>1, WithoutSound
<1>3. /\ entitled' = entitled \cup {<<r, n>>} /\ done' = done \cup {PeriodKey(r, n)} /\ Step(p, k)
      /\ UNCHANGED <<now, enabled, policy, bucketOn, frozen, sched, rows, lock, faults, raced>>
  BY <1>1 DEF EntitleCommit, config, PeriodKey
<1>4. Typed'
  BY <1>1, <1>2, <1>3 DEF Inv, Typed, Step
<1>5. Onward
  BY <1>3, LimitsAssumption DEF Inv, Typed, Onward, SchedType
<1>6. \A q \in Procs : ProcSound(proc[q])'
  <2>1. ProcSound(k)'
    BY <1>2, <1>4, <1>5, ProcLater DEF Inv
  <2> QED BY <1>2, <1>3, <1>4, <1>5, <2>1, ProcMove
<1>7. KeysApart'
  <2>1. NoKey \notin done' /\ NoKey # PeriodKey(r, n)
    BY <1>3 DEF Inv, KeysApart, NoKey, PeriodKey
  <2>2. \A q \in Procs \ {p} : proc[q].key \notin done'
    BY <1>1, <1>3, <2>1 DEF Inv, KeysApart
  <2> QED BY <1>2, <1>3, <2>1, <2>2, KeysMove
<1>8. \A q \in Rules : RuleSound(q)'
  BY <1>3 DEF Inv, RuleSound, Made
<1>9. ASSUME NEW q \in Rules, NEW m \in Nat, <<q, m>> \in entitled'
      PROVE  /\ sched[q].granted < m /\ m >= 1 /\ m <= now + 1
             /\ m = 1 \/ PeriodKey(q, m) \in done'
  <2>1. CASE <<q, m>> \in entitled
    BY <1>3, <2>1 DEF Inv, QuotaAhead
  <2>2. CASE q = r /\ m = n
    <3>1. sched[q].granted < m /\ m >= 1
      BY <1>1, <2>2
    <3>2. now \in Nat
      BY LimitsAssumption DEF Inv, Typed
    <3> QED BY <1>1, <1>3, <2>2, <3>1, <3>2
  <2> QED BY <1>3, <1>9, <2>1, <2>2
<1>10. \A q \in Rules : QuotaAhead(q)'
  BY <1>3, <1>9 DEF QuotaAhead
<1>11. Unregistered'
  BY <1>1, <1>3 DEF Inv, Unregistered
<1>12. ASSUME NEW q \in Procs PROVE Holding(q, proc[q])'
  <2>1. proc'[q] = IF q = p THEN k ELSE proc[q]
    BY <1>3 DEF Inv, Typed, Step
  <2> QED BY <1>2, <1>3, <2>1 DEF Inv, Holding
<1> QED BY <1>4, <1>6, <1>7, <1>8, <1>10, <1>11, <1>12 DEF Inv

\* A commit of a stop changes no more than active, and only of rows it holds.
LEMMA DeactivateCommitKeeps ==
    ASSUME Inv, NEW p \in Procs, DeactivateCommit(p)
    PROVE  Inv' /\ \A r \in Rules : sched'[r].active => sched[r].active /\ sched'[r] = sched[r]
<1>1. ASSUME NEW r \in Rules
      PROVE  /\ sched'[r] \in SchedType /\ sched'[r].granted = sched[r].granted /\ sched'[r].next = sched[r].next
             /\ sched'[r].active => sched'[r] = sched[r]
             /\ lock[r] # p => sched'[r] = sched[r]
  <2>1. sched[r] \in SchedType
    BY DEF Inv, Typed
  <2>2. sched'[r] = IF lock[r] = p THEN [sched[r] EXCEPT !.active = FALSE] ELSE sched[r]
    BY DEF DeactivateCommit, Deactivated
  <2> QED BY <2>1, <2>2 DEF SchedType
<1> PICK k : k = Idle
  OBVIOUS
<1>2. /\ k \in ProcType /\ ProcSound(k) /\ k.at = "idle" /\ k.key = NoKey
      /\ Step(p, k) /\ Release(p) /\ UNCHANGED <<now, policy, bucketOn, frozen, rows, entitled, faults, raced>>
  BY IdleSound DEF DeactivateCommit, ProcSound, SeenSound
<1>3. sched' \in [Rules -> SchedType]
  BY <1>1 DEF DeactivateCommit, Deactivated
<1>4. /\ done' = done \/ (done' = done \cup {SubscriptionKey} /\ proc[p].rule = NoRule)
      /\ enabled' \in [Rules -> BOOLEAN]
  BY DEF DeactivateCommit, Inv, Typed
<1>5. Typed'
  BY <1>2, <1>3, <1>4, ReleaseKeeps DEF Inv, Typed, Step
<1>6. Onward
  BY <1>1, <1>2, LimitsAssumption DEF Onward, Inv, Typed, SchedType
<1>7. \A q \in Procs : ProcSound(proc[q])'
  <2>1. ProcSound(k)'
    BY <1>2, <1>5, <1>6, ProcLater DEF Inv
  <2> QED BY <1>2, <1>5, <1>6, <2>1, ProcMove
<1>8. KeysApart'
  <2>1. NoKey \notin done'
    BY <1>4 DEF Inv, KeysApart, NoKey, SubscriptionKey
  <2>2. ASSUME NEW q \in Procs \ {p} PROVE proc[q].key \notin done'
    <3>1. CASE done' = done
      BY <3>1 DEF Inv, KeysApart
    <3>2. CASE proc[p].key = SubscriptionKey
      <4>1. SubscriptionKey # NoKey
        BY DEF SubscriptionKey, NoKey
      <4> QED BY <1>4, <3>2, <4>1 DEF Inv, KeysApart
    <3> QED BY <1>4, <3>1, <3>2 DEF Inv, ProcSound, DeactivateCommit
  <2> QED BY <1>2, <2>1, <2>2, KeysMove
<1>9. ASSUME NEW r \in Rules PROVE RuleSound(r)'
  <2>1. RuleSound(r) /\ now' = now /\ rows'[r] = rows[r] /\ done \subseteq done'
    BY <1>2, <1>4 DEF Inv
  <2>2. sched'[r].active => sched[r].active
    BY <1>1
  <2> QED BY <1>1, <2>1, <2>2 DEF RuleSound, Made
<1>q. ASSUME NEW r \in Rules PROVE QuotaAhead(r)'
  <2>1. QuotaAhead(r) /\ now' = now /\ entitled' = entitled /\ done \subseteq done'
    BY <1>2, <1>4 DEF Inv
  <2> QED BY <1>1, <2>1 DEF QuotaAhead
<1>10. Unregistered'
  <2>1. RegistrationKey # SubscriptionKey
    BY DEF RegistrationKey, SubscriptionKey
  <2>2. \A r \in Rules : sched'[r].active => sched[r].active
    BY <1>1
  <2> QED BY <1>1, <1>2, <1>4, <2>1, <2>2 DEF Inv, Unregistered
<1>11. ASSUME NEW q \in Procs PROVE Holding(q, proc[q])'
  <2>1. proc'[p] = k /\ \A t \in Procs \ {p} : proc'[t] = proc[t]
    BY <1>2 DEF Inv, Typed, Step
  <2>2. CASE q = p
    BY <1>2, <2>1, <2>2 DEF Holding
  <2>3. CASE q # p
    <3>1. proc'[q] = proc[q] /\ proc[q] \in ProcType /\ Holding(q, proc[q]) /\ ProcSound(proc[q])
      BY <2>1, <2>3 DEF Inv, Typed
    <3>2. proc[q].at = "write" => proc[q].rule \in Rules /\ lock[proc[q].rule] = q
      BY <3>1 DEF Holding, ProcSound, ProcType
    <3>3. proc[q].at = "write" => lock'[proc[q].rule] = q /\ sched'[proc[q].rule] = sched[proc[q].rule]
      BY <1>1, <1>2, <2>3, <3>2, ReleaseKeeps
    <3> QED BY <3>1, <3>3 DEF Holding
  <2> QED BY <2>2, <2>3
<1>12. Inv'
  BY <1>5, <1>7, <1>8, <1>9, <1>q, <1>10, <1>11 DEF Inv
<1> QED BY <1>1, <1>12

\* Steps that touch neither a process nor a schedule.
LEMMA OutsideKeeps ==
    ASSUME Inv, UNCHANGED <<grants, lock, proc, faults, raced>>,
           enabled' \in [Rules -> BOOLEAN], policy' \in [Rules -> Policies],
           bucketOn' \in [Rules -> BOOLEAN], frozen' \subseteq Rules,
           now' = now \/ (now' = now + 1 /\ now < MaxTime /\ RegistrationKey \in done)
    PROVE  Inv'
<1>0. now \in Nat /\ now' \in 0..MaxTime /\ now <= now'
  BY LimitsAssumption DEF Inv, Typed
<1>u. UNCHANGED <<sched, rows, entitled, done>>
  BY DEF grants
<1>1. Typed'
  BY <1>0, <1>u DEF Inv, Typed
<1>2. Onward
  BY <1>0, <1>u DEF Onward, Inv, Typed, SchedType
<1>3. \A q \in Procs : ProcSound(proc[q])'
  BY <1>1, <1>2, ProcStay
<1>4. ASSUME NEW r \in Rules PROVE RuleSound(r)'
  <2>1. RuleSound(r) /\ sched[r].granted \in Nat
    BY DEF Inv, Typed, SchedType
  <2>2. sched'[r].granted <= now' + 1
    BY <1>0, <1>u, <2>1 DEF RuleSound
  <2> QED BY <1>u, <2>1, <2>2 DEF RuleSound, Made
<1>q. ASSUME NEW r \in Rules PROVE QuotaAhead(r)'
  <2> SUFFICES ASSUME NEW n \in Nat, <<r, n>> \in entitled'
               PROVE  sched'[r].granted < n /\ n >= 1 /\ n <= now' + 1 /\ (n = 1 \/ PeriodKey(r, n) \in done')
    BY DEF QuotaAhead
  <2>1. sched[r].granted < n /\ n >= 1 /\ n <= now + 1 /\ (n = 1 \/ PeriodKey(r, n) \in done)
    BY <1>u DEF Inv, QuotaAhead
  <2>2. n <= now' + 1
    BY <1>0, <2>1
  <2>3. sched' = sched /\ done' = done
    BY <1>u
  <2> QED BY <2>1, <2>2, <2>3
<1>5. Unregistered' /\ KeysApart' /\ \A q \in Procs : Holding(q, proc[q])'
  BY <1>u DEF Inv, Unregistered, KeysApart, Holding
<1> QED BY <1>1, <1>3, <1>4, <1>q, <1>5 DEF Inv

-----------------------------------------------------------------------------
(* The invariant *)

LEMMA InvInit == Init => Inv
<1> SUFFICES ASSUME Init PROVE Inv
  OBVIOUS
<1>1. NoSchedule \in SchedType
  BY DEF NoSchedule, SchedType
<1>2. Typed
  <2>1. <<>> \in Seq(RowType) /\ 0 \in 0..MaxTime /\ 0 \in 0..MaxFaults
    BY LimitsAssumption
  <2>2. rows \in [Rules -> Seq(RowType)]
    BY <2>1 DEF Init
  <2> QED BY <1>1, <2>1, <2>2, IdleSound DEF Init, Typed, Policies
<1>3. ASSUME NEW r \in Rules PROVE RuleSound(r)
  <2>1. rows[r] = <<>> /\ sched[r].granted = 0 /\ sched[r].next = 0 /\ ~sched[r].active /\ now = 0
    BY DEF Init, NoSchedule
  <2> QED BY <2>1 DEF RuleSound
<1>q. \A r \in Rules : QuotaAhead(r)
  BY DEF Init, QuotaAhead
<1>4. Unregistered
  BY DEF Init, Unregistered, NoSchedule
<1>5. ASSUME NEW p \in Procs PROVE ProcSound(proc[p]) /\ Holding(p, proc[p]) /\ proc[p].key = NoKey
  <2>1. proc[p] = Idle
    BY DEF Init
  <2> QED BY <2>1, IdleSound DEF Holding
<1>6. KeysApart
  BY <1>5 DEF KeysApart, Init
<1> QED BY <1>2, <1>3, <1>q, <1>4, <1>5, <1>6 DEF Inv

LEMMA InvStep ==
    ASSUME Inv, [Next]_vars
    PROVE  Inv'
<1>1. ASSUME NEW p \in Procs, Register(p) \/ RegisterCommit(p) \/ Subscribe(p) \/ \E r \in Edited : DisableRule(p, r)
      PROVE  Inv'
  BY <1>1, RegisterKeeps, RegisterCommitKeeps, SubscribeKeeps, DisableRuleKeeps
<1>2. ASSUME NEW p \in Procs, StopStep(p) PROVE Inv'
  BY <1>2, DeactivateRowKeeps, DeactivateCommitKeeps DEF StopStep
<1>3. ASSUME NEW p \in Procs, ListDue(p) \/ GrantStep(p) \/ GrantFails(p) PROVE Inv'
  BY <1>3, ListDueKeeps, InsertEventKeeps, LockScheduleKeeps, GrantCommitKeeps, EntitleCommitKeeps, GrantFailsKeeps DEF GrantStep
<1>4. ASSUME NEW r \in Edited, NEW new \in Policies, EditRule(r, new) PROVE Inv'
  <2>1. /\ enabled' \in [Rules -> BOOLEAN] /\ policy' \in [Rules -> Policies]
        /\ UNCHANGED <<now, bucketOn, frozen, grants, lock, proc, faults, raced>>
    BY <1>4, LimitsAssumption DEF EditRule, Inv, Typed
  <2>2. bucketOn' \in [Rules -> BOOLEAN] /\ frozen' \subseteq Rules
    BY <2>1 DEF Inv, Typed
  <2> QED BY <2>1, <2>2, OutsideKeeps
<1>5. ASSUME NEW r \in Fragile, ToggleBucket(r) \/ FreezeWallet(r) PROVE Inv'
  <2>1. /\ bucketOn' \in [Rules -> BOOLEAN] /\ frozen' \subseteq Rules
        /\ UNCHANGED <<now, enabled, policy, grants, lock, proc, faults, raced>>
    BY <1>5, LimitsAssumption DEF ToggleBucket, FreezeWallet, Inv, Typed
  <2>2. enabled' \in [Rules -> BOOLEAN] /\ policy' \in [Rules -> Policies]
    BY <2>1 DEF Inv, Typed
  <2> QED BY <2>1, <2>2, OutsideKeeps
<1>6. ASSUME Tick \/ UNCHANGED vars PROVE Inv'
  <2>1. /\ UNCHANGED <<config, grants, lock, proc, faults, raced>>
        /\ now' = now \/ (now' = now + 1 /\ now < MaxTime /\ RegistrationKey \in done)
    BY <1>6 DEF Tick, vars
  <2>2. /\ enabled' \in [Rules -> BOOLEAN] /\ policy' \in [Rules -> Policies]
        /\ bucketOn' \in [Rules -> BOOLEAN] /\ frozen' \subseteq Rules
    BY <2>1 DEF Inv, Typed, config
  <2> QED BY <2>1, <2>2, OutsideKeeps
<1>7. Clerks \subseteq Procs /\ Runners \subseteq Procs
  BY DEF Procs
<1> QED BY <1>1, <1>2, <1>3, <1>4, <1>5, <1>6, <1>7 DEF Next

\* Ledger, schedules, event keys and locks agree in every reachable state.
THEOREM SchedulesInvariant == Spec => []Inv
<1>1. Inv /\ [Next]_vars => Inv'
  BY InvStep
<1> QED BY <1>1, InvInit, PTL DEF Spec

\* Every period of a schedule is granted once, in order, never before its
\* time and effective from its own start, whoever grants it
\* (insert_or_load_event_in_tx, execute_scheduled_fixed_in_tx).
THEOREM PeriodsGrantedInStep == Spec => []GrantsInStep
<1>1. Inv => GrantsInStep
  <2> SUFFICES ASSUME Inv, NEW r \in Rules
               PROVE  /\ Len(rows[r]) = sched[r].granted /\ sched[r].granted <= now + 1
                      /\ \A i \in 1..Len(rows[r]) : rows[r][i] = [period |-> i, from |-> i - 1] /\ <<r, i>> \notin entitled
    BY DEF GrantsInStep
  <2>1. RuleSound(r) /\ QuotaAhead(r) /\ sched[r].granted \in Nat
    BY DEF Inv, Typed, SchedType
  <2>2. ASSUME NEW i \in 1..Len(rows[r]) PROVE <<r, i>> \notin entitled
    <3>1. i \in Nat /\ ~(sched[r].granted < i)
      BY <2>1 DEF RuleSound
    <3> QED BY <2>1, <3>1 DEF QuotaAhead
  <2> QED BY <2>1, <2>2 DEF RuleSound
<1> QED BY <1>1, SchedulesInvariant, PTL

\* Every column keeps its range (points_grant_schedules).
THEOREM SchedulesTyped == Spec => []TypeOK
<1>1. Inv => TypeOK
  <2> SUFFICES ASSUME Inv PROVE TypeOK
    OBVIOUS
  <2>0. MaxTime \in Nat /\ now \in 0..MaxTime
    BY LimitsAssumption DEF Inv, Typed
  <2>1. ASSUME NEW r \in Rules
        PROVE  /\ sched[r].active \in BOOLEAN /\ sched[r].granted \in {0} \cup Periods
               /\ lock[r] \in Procs \cup {NoProc}
               /\ rows[r] \in Seq([period : Periods, from : 0..MaxTime])
    <3>1. sched[r] \in SchedType /\ lock[r] \in Procs \cup {NoProc} /\ rows[r] \in Seq(RowType) /\ RuleSound(r)
      BY DEF Inv, Typed
    <3>2. sched[r].active \in BOOLEAN /\ sched[r].granted \in Nat /\ sched[r].granted <= now + 1
      BY <3>1 DEF SchedType, RuleSound
    <3>3. sched[r].granted \in {0} \cup Periods
      BY <2>0, <3>2 DEF Periods
    <3>4. ASSUME NEW i \in 1..Len(rows[r]) PROVE rows[r][i] \in [period : Periods, from : 0..MaxTime]
      <4>1. rows[r][i] = [period |-> i, from |-> i - 1] /\ Len(rows[r]) = sched[r].granted
        BY <3>1 DEF RuleSound
      <4>2. i \in Periods /\ i - 1 \in 0..MaxTime
        BY <2>0, <3>2, <4>1 DEF Periods
      <4> QED BY <4>1, <4>2
    <3>5. rows[r] \in Seq([period : Periods, from : 0..MaxTime])
      <4>1. Len(rows[r]) \in Nat /\ rows[r] = [i \in 1..Len(rows[r]) |-> rows[r][i]]
        BY <3>1, LenProperties
      <4>2. rows[r] \in [1..Len(rows[r]) -> [period : Periods, from : 0..MaxTime]]
        BY <3>4, <4>1
      <4> QED BY <4>1, <4>2, SeqDef
    <3> QED BY <3>1, <3>2, <3>3, <3>5
  <2>2. \A p \in Procs : proc[p].todo \subseteq Rules
    BY DEF Inv, Typed, ProcType
  <2>3. entitled \subseteq Rules \X Periods
    <3> SUFFICES ASSUME NEW r \in Rules, NEW n \in Nat, <<r, n>> \in entitled PROVE n \in Periods
      BY DEF Inv, Typed
    <3>1. n >= 1 /\ n <= now + 1
      BY DEF Inv, QuotaAhead
    <3> QED BY <2>0, <3>1 DEF Periods
  <2> QED BY <2>1, <2>2, <2>3 DEF TypeOK, Inv, Typed
<1> QED BY <1>1, SchedulesInvariant, PTL

-----------------------------------------------------------------------------
(* Stopped schedules *)

\* Only the registration makes a schedule active, and only a new one.
LEMMA StoppedStep ==
    ASSUME Inv, [Next]_vars, NEW r \in Rules, Made(r), ~sched[r].active
    PROVE  ~sched'[r].active /\ rows'[r] = rows[r]
<1>1. ASSUME UNCHANGED <<sched, rows>> PROVE ~sched'[r].active /\ rows'[r] = rows[r]
  BY <1>1
<1>2. ASSUME NEW p \in Procs, RegisterCommit(p) PROVE ~sched'[r].active /\ rows'[r] = rows[r]
  BY <1>2, RegisterCommitKeeps
<1>3. ASSUME NEW p \in Procs, GrantCommit(p) PROVE ~sched'[r].active /\ rows'[r] = rows[r]
  BY <1>3, GrantCommitKeeps
<1>4. ASSUME NEW p \in Procs, DeactivateCommit(p) PROVE ~sched'[r].active /\ rows'[r] = rows[r]
  BY <1>4, DeactivateCommitKeeps DEF DeactivateCommit
<1>5. ASSUME NEW p \in Procs,
             \/ Register(p) \/ Subscribe(p) \/ \E t \in Edited : DisableRule(p, t)
             \/ DeactivateRow(p) \/ ListDue(p) \/ InsertEvent(p) \/ LockSchedule(p)
             \/ GrantFails(p) \/ EntitleCommit(p)
      PROVE  UNCHANGED <<sched, rows>>
  BY <1>5 DEF Register, Subscribe, DisableRule, DeactivateRow, ListDue, InsertEvent, LockSchedule, GrantFails,
              EntitleCommit, grants
<1>6. ASSUME \/ UNCHANGED vars \/ Tick
             \/ \E t \in Edited, new \in Policies : EditRule(t, new)
             \/ \E t \in Fragile : ToggleBucket(t) \/ FreezeWallet(t)
      PROVE  UNCHANGED <<sched, rows>>
  BY <1>6 DEF vars, Tick, EditRule, ToggleBucket, FreezeWallet, grants
<1>7. Clerks \subseteq Procs /\ Runners \subseteq Procs
  BY DEF Procs
<1> QED BY <1>1, <1>2, <1>3, <1>4, <1>5, <1>6, <1>7 DEF Next, GrantStep, StopStep

\* A stopped schedule stays stopped and grants nothing more, although a grant
\* read it as due before and writes active itself
\* (deactivate_free_periodic_results_in_tx, execute_scheduled_fixed_in_tx).
THEOREM StoppedForGood == Spec => StoppedIsFinal
<1>1. Inv /\ [Next]_vars => [\A r \in Rules : Made(r) /\ ~sched[r].active
                                => ~sched'[r].active /\ rows'[r] = rows[r]]_vars
  BY StoppedStep
<1> QED BY <1>1, SchedulesInvariant, PTL DEF Spec, StoppedIsFinal

\* One process moves; what the other clerks keep in sight stays there.
LEMMA SightMove ==
    ASSUME Inv, Stopping, NEW p \in Procs, NEW k, Step(p, k), InSight(p, k)', raced \subseteq raced',
           \A q \in Clerks \ {p} : \A r \in Rules : lock[r] = q => lock'[r] = q,
           \A q \in Clerks \ {p} : \A r \in Rules :
               proc[q].rule = r /\ sched'[r].active => sched[r].active \/ r \in raced',
           \A r \in Rules : sched'[r].active /\ ~enabled'[r] =>
                            (sched[r].active /\ ~enabled[r]) \/ r \in raced'
    PROVE  Stopping'
<1>1. DisableStopsSchedules'
  BY DEF Stopping, DisableStopsSchedules
<1>2. ASSUME NEW q \in Clerks PROVE InSight(q, proc[q])'
  <2>1. proc'[p] = k /\ \A t \in Procs \ {p} : proc'[t] = proc[t]
    BY DEF Inv, Typed, Step
  <2>2. CASE q = p
    BY <2>1, <2>2 DEF InSight
  <2>3. CASE q # p
    <3>1. proc'[q] = proc[q] /\ proc[q] \in ProcType /\ InSight(q, proc[q])
      BY <2>1, <2>3 DEF Inv, Typed, Stopping, Procs
    <3>2. proc[q].rule # NoRule => proc[q].rule \in Rules
      BY <3>1 DEF ProcType
    <3> QED BY <2>3, <3>1, <3>2 DEF InSight
  <2> QED BY <2>2, <2>3
<1> QED BY <1>1, <1>2 DEF Stopping

\* A rule that is disabled leaves no active schedule behind, but for a
\* registration beside it.
LEMMA StoppingStep ==
    ASSUME Inv, Stopping, [Next]_vars
    PROVE  Stopping'
<1>0. lock \in [Rules -> Procs \cup {NoProc}] /\ proc \in [Procs -> ProcType] /\ enabled \in [Rules -> BOOLEAN]
  BY DEF Inv, Typed
\* a step of a process that is not stopping anything and writes no schedule
<1>q. ASSUME NEW p \in Procs, NEW k, Step(p, k), InSight(p, k)', UNCHANGED <<enabled, sched, raced>>,
             \A q \in Clerks \ {p} : \A r \in Rules : lock[r] = q => lock'[r] = q
      PROVE  Stopping'
  BY <1>q, SightMove
<1>i. \A p \in Procs : InSight(p, Idle)'
  BY DEF InSight, Idle
<1>1. ASSUME NEW p \in Procs, Register(p) PROVE Stopping'
  <2> PICK k : k = [Idle EXCEPT !.at = "register", !.key = RegistrationKey, !.todo = {r \in Rules : enabled[r]}]
    OBVIOUS
  <2>1. InSight(p, k)'
    BY DEF InSight, Idle
  <2> QED BY <1>1, <1>q, <2>1 DEF Register, config, grants
<1>2. ASSUME NEW p \in Procs, RegisterCommit(p) PROVE Stopping'
  <2> PICK k : k = Idle
    OBVIOUS
  <2>1. Step(p, k) /\ UNCHANGED <<lock, enabled>> /\ InSight(p, k)'
    BY <1>2 DEF RegisterCommit, InSight, Idle, config
  <2>2. CASE UNCHANGED <<grants, raced>>
    BY <1>q, <2>1, <2>2 DEF grants
  <2>3. CASE ~UNCHANGED <<grants, raced>>
    <3> PICK new : new = {r \in proc[p].todo : policy[r] = "periodic"}
      OBVIOUS
    <3>1. /\ raced' = raced \cup {r \in new : ~enabled[r] \/ BeingDisabled(r)}
          /\ sched' = [r \in Rules |-> IF r \in new
                                       THEN [granted |-> 1, next |-> now + 1, active |-> TRUE] ELSE sched[r]]
      BY <1>2, <2>3 DEF RegisterCommit
    <3>2. \A q \in Clerks \ {p} : \A r \in Rules :
               proc[q].rule = r /\ sched'[r].active => sched[r].active \/ r \in raced'
      BY <3>1 DEF BeingDisabled
    <3>3. \A r \in Rules : sched'[r].active /\ ~enabled'[r] => (sched[r].active /\ ~enabled[r]) \/ r \in raced'
      BY <2>1, <3>1
    <3> QED BY <2>1, <3>1, <3>2, <3>3, SightMove
  <2> QED BY <2>2, <2>3
<1>3. ASSUME NEW p \in Procs, Subscribe(p) PROVE Stopping'
  <2> PICK k : k = [Idle EXCEPT !.at = "deactivate", !.key = SubscriptionKey, !.todo = ActiveRows({r \in Rules : policy[r] # "single"})]
    OBVIOUS
  <2>1. InSight(p, k)'
    BY DEF InSight, Idle
  <2> QED BY <1>3, <1>q, <2>1 DEF Subscribe, config, grants
<1>4. ASSUME NEW p \in Procs, NEW r \in Edited, DisableRule(p, r) PROVE Stopping'
  <2> PICK k : k = [Idle EXCEPT !.at = "deactivate", !.rule = r, !.todo = ActiveRows({r})]
    OBVIOUS
  <2>1. k.rule = r /\ k.todo = ActiveRows({r}) /\ sched' = sched
    BY <1>4 DEF DisableRule, Idle, grants
  <2>2. InSight(p, k)'
    BY <2>1 DEF InSight, ActiveRows
  <2> QED BY <1>4, <1>q, <2>2 DEF DisableRule, config, grants
<1>5. ASSUME NEW p \in Clerks, DeactivateRow(p) PROVE Stopping'
  <2>0. p \in Procs /\ InSight(p, proc[p]) /\ proc[p] \in ProcType
    BY <1>0 DEF Procs, Stopping
  <2>1. PICK r \in proc[p].todo :
          /\ lock[r] = NoProc
          /\ lock' = IF sched[r].active THEN [lock EXCEPT ![r] = p] ELSE lock
          /\ Step(p, [proc[p] EXCEPT !.todo = @ \ {r}])
    BY <1>5 DEF DeactivateRow
  <2> PICK k : k = [proc[p] EXCEPT !.todo = @ \ {r}]
    OBVIOUS
  <2>2. k.at = proc[p].at /\ k.rule = proc[p].rule /\ k.todo = proc[p].todo \ {r} /\ r \in Rules
    BY <2>0, <2>1 DEF ProcType
  <2>3. UNCHANGED <<enabled, sched, raced>>
    BY <1>5 DEF DeactivateRow, config, grants
  <2>4. \A q \in Procs : \A t \in Rules : lock[t] = q => lock'[t] = q
    BY <1>0, <2>1, <2>2, NamesAssumption
  <2>5. sched[r].active => lock'[r] = p
    BY <1>0, <2>1, <2>2
  <2>6. InSight(p, k)'
    <3> SUFFICES ASSUME k.rule # NoRule, sched[k.rule].active, k.at = "deactivate"
                 PROVE  k.rule \in k.todo \/ lock'[k.rule] = p \/ k.rule \in raced'
      BY <2>3 DEF InSight
    <3>1. k.rule \in Rules
      BY <2>0, <2>2 DEF ProcType
    <3>2. k.rule \in proc[p].todo \/ lock[k.rule] = p \/ k.rule \in raced
      BY <2>0, <2>2 DEF InSight
    <3> QED BY <2>0, <2>2, <2>3, <2>4, <2>5, <3>1, <3>2
  <2>7. \A q \in Clerks \ {p} : \A t \in Rules : lock[t] = q => lock'[t] = q
    BY <2>4 DEF Procs
  <2> QED BY <1>q, <2>0, <2>1, <2>3, <2>6, <2>7
<1>6. ASSUME NEW p \in Clerks, DeactivateCommit(p) PROVE Stopping'
  <2> PICK k : k = Idle
    OBVIOUS
  <2>0. p \in Procs /\ InSight(p, proc[p]) /\ proc[p] \in ProcType
    BY <1>0 DEF Procs, Stopping
  <2>1. Step(p, k) /\ Release(p) /\ UNCHANGED raced /\ proc[p].todo = {} /\ proc[p].at = "deactivate"
        /\ InSight(p, k)'
    BY <1>6 DEF DeactivateCommit, InSight, Idle
  <2>2. \A r \in Rules : sched'[r].active => sched[r].active /\ sched'[r] = sched[r]
    BY <1>6, <2>0, DeactivateCommitKeeps
  <2>3. \A r \in Rules : lock[r] = p => ~sched'[r].active
    <3> SUFFICES ASSUME NEW r \in Rules, lock[r] = p PROVE ~sched'[r].active
      OBVIOUS
    <3>1. sched'[r] = [sched[r] EXCEPT !.active = FALSE] /\ sched[r] \in SchedType
      BY <1>6 DEF DeactivateCommit, Deactivated, Inv, Typed
    <3> QED BY <3>1 DEF SchedType
  <2>4. ASSUME NEW r \in Rules, sched'[r].active, ~enabled'[r]
        PROVE  (sched[r].active /\ ~enabled[r]) \/ r \in raced'
    <3>1. CASE r = proc[p].rule
      <4>1. sched[r].active /\ lock[r] # p /\ r # NoRule
        BY <2>2, <2>3, <2>4, NamesAssumption
      <4> QED BY <2>0, <2>1, <3>1, <4>1 DEF InSight
    <3>2. CASE r # proc[p].rule
      <4>1. enabled'[r] = enabled[r]
        BY <1>0, <1>6, <3>2 DEF DeactivateCommit
      <4> QED BY <2>2, <2>4, <4>1
    <3> QED BY <3>1, <3>2
  <2>5. \A q \in Clerks \ {p} : \A r \in Rules : lock[r] = q => lock'[r] = q
    BY <2>0, <2>1, ReleaseKeeps
  <2> QED BY <2>0, <2>1, <2>2, <2>4, <2>5, SightMove
<1>7. ASSUME NEW p \in Procs, ListDue(p) PROVE Stopping'
  <2>1. PICK S \in FirstDue(Limit(p)) :
           Step(p, [Idle EXCEPT !.at = "pick", !.todo = S,
                       !.seen = [r \in Rules |-> IF r \in S THEN sched[r] ELSE NoSchedule]])
    BY <1>7 DEF ListDue
  <2> PICK k : k = [Idle EXCEPT !.at = "pick", !.todo = S,
                       !.seen = [r \in Rules |-> IF r \in S THEN sched[r] ELSE NoSchedule]]
    OBVIOUS
  <2>2. InSight(p, k)'
    BY DEF InSight, Idle
  <2> QED BY <1>7, <1>q, <2>1, <2>2 DEF ListDue, config, grants
<1>8. ASSUME NEW p \in Procs, InsertEvent(p) PROVE Stopping'
  <2>0. proc[p].at = "pick" /\ proc[p] \in ProcType /\ UNCHANGED <<enabled, sched, raced, lock>>
    BY <1>0, <1>8 DEF InsertEvent, config, grants
  <2>1. PICK r \in proc[p].todo :
             \/ Step(p, Without(p, r)) \/ Step(p, AfterFailure(p, r))
             \/ \E at \in {"lock", "entitle"} :
                  Step(p, [proc[p] EXCEPT !.at = at, !.rule = r, !.key = KeyOfPeriod(p, r)])
    BY <1>8 DEF InsertEvent
  <2>2. CASE Step(p, Without(p, r))
    <3> PICK k : k = Without(p, r)
      OBVIOUS
    <3>1. k.at # "deactivate"
      BY <2>0, WithoutSound
    <3>2. InSight(p, k)'
      BY <3>1 DEF InSight
    <3> QED BY <1>q, <2>0, <2>2, <3>2
  <2>f. CASE Step(p, AfterFailure(p, r))
    <3> PICK k : k = AfterFailure(p, r)
      OBVIOUS
    <3>1. k.at # "deactivate"
      BY <2>0, AfterFailureSound
    <3>2. InSight(p, k)'
      BY <3>1 DEF InSight
    <3> QED BY <1>q, <2>0, <2>f, <3>2
  <2>3. ASSUME NEW at \in {"lock", "entitle"},
               Step(p, [proc[p] EXCEPT !.at = at, !.rule = r, !.key = KeyOfPeriod(p, r)])
        PROVE  Stopping'
    <3> PICK k : k = [proc[p] EXCEPT !.at = at, !.rule = r, !.key = KeyOfPeriod(p, r)]
      OBVIOUS
    <3>1. k.at = at
      BY <2>0 DEF ProcType
    <3>2. InSight(p, k)'
      BY <3>1 DEF InSight
    <3> QED BY <1>q, <2>0, <2>3, <3>2
  <2> QED BY <2>1, <2>2, <2>f, <2>3
<1>9. ASSUME NEW p \in Procs, LockSchedule(p) PROVE Stopping'
  <2>0. proc[p].at = "lock" /\ proc[p] \in ProcType /\ UNCHANGED <<enabled, sched, raced>> /\ proc[p].rule \in Rules
    BY <1>0, <1>9 DEF LockSchedule, Inv, ProcSound, ProcType, config, grants
  <2>1. CASE Step(p, AfterFailure(p, proc[p].rule)) /\ UNCHANGED lock
    <3> PICK k : k = AfterFailure(p, proc[p].rule)
      OBVIOUS
    <3>1. k.at # "deactivate"
      BY <2>0, RuleListed, AfterFailureSound
    <3>2. InSight(p, k)'
      BY <3>1 DEF InSight
    <3> QED BY <1>q, <2>0, <2>1, <3>2
  <2>2. CASE LockRow(p, proc[p].rule) /\ Step(p, [proc[p] EXCEPT !.at = "write", !.row = sched[proc[p].rule]])
    <3> PICK k : k = [proc[p] EXCEPT !.at = "write", !.row = sched[proc[p].rule]]
      OBVIOUS
    <3>1. k.at = "write"
      BY <2>0 DEF ProcType
    <3>2. InSight(p, k)'
      BY <3>1 DEF InSight
    <3>3. \A q \in Clerks \ {p} : \A t \in Rules : lock[t] = q => lock'[t] = q
      BY <1>0, <2>0, <2>2, NamesAssumption DEF LockRow, Procs
    <3> QED BY <1>q, <2>0, <2>2, <3>2, <3>3
  <2> QED BY <1>9, <2>1, <2>2 DEF LockSchedule
<1>10. ASSUME NEW p \in Procs, GrantCommit(p) PROVE Stopping'
  <2>1. proc[p].at = "write" /\ Release(p) /\ UNCHANGED <<enabled, raced>>
        /\ (Step(p, AfterFailure(p, proc[p].rule)) \/ Step(p, Without(p, proc[p].rule)))
    BY <1>10 DEF GrantCommit, config
  <2>2. PICK k : k \in {AfterFailure(p, proc[p].rule), Without(p, proc[p].rule)} /\ Step(p, k)
    BY <2>1
  <2>3. k.at # "deactivate"
    <3>1. proc[p].rule \in proc[p].todo
      BY <2>1 DEF Inv, ProcSound
    <3> QED BY <2>1, <2>2, <3>1, AfterFailureSound, WithoutSound
  <2>4. InSight(p, k)'
    BY <2>3 DEF InSight
  <2>5. \A r \in Rules : sched'[r].active <=> sched[r].active
    BY <1>10, GrantCommitKeeps
  <2>6. \A q \in Clerks \ {p} : \A r \in Rules : lock[r] = q => lock'[r] = q
    BY <2>1, ReleaseKeeps
  <2> QED BY <2>1, <2>2, <2>4, <2>5, <2>6, SightMove
<1>11. ASSUME NEW p \in Procs, GrantFails(p) PROVE Stopping'
  <2> PICK k : k = AfterFailure(p, proc[p].rule)
    OBVIOUS
  <2>1. k.at # "deactivate"
    BY <1>11, RuleListed, AfterFailureSound DEF GrantFails
  <2>2. InSight(p, k)'
    BY <2>1 DEF InSight
  <2>3. \A q \in Clerks \ {p} : \A r \in Rules : lock[r] = q => lock'[r] = q
    BY <1>11, ReleaseKeeps DEF GrantFails
  <2> QED BY <1>11, <1>q, <2>2, <2>3 DEF GrantFails, config, grants
<1>e. ASSUME NEW p \in Procs, EntitleCommit(p) PROVE Stopping'
  <2> PICK k : k = Without(p, proc[p].rule)
    OBVIOUS
  <2>1. k.at # "deactivate"
    BY <1>e, RuleListed, WithoutSound DEF EntitleCommit
  <2>2. InSight(p, k)'
    BY <2>1 DEF InSight
  <2> QED BY <1>e, <1>q, <2>2 DEF EntitleCommit, config
<1>12. ASSUME NEW r \in Edited, NEW new \in Policies, EditRule(r, new) PROVE Stopping'
  <2>1. enabled' = [enabled EXCEPT ![r] = TRUE] /\ UNCHANGED <<sched, raced, lock, proc>>
    BY <1>12 DEF EditRule, grants
  <2>2. \A t \in Rules : ~enabled'[t] => ~enabled[t]
    BY <1>0, <2>1
  <2> QED BY <2>1, <2>2 DEF Stopping, DisableStopsSchedules, InSight
<1>13. ASSUME UNCHANGED <<enabled, sched, raced, lock, proc>> PROVE Stopping'
  BY <1>13 DEF Stopping, DisableStopsSchedules, InSight
<1>14. ASSUME UNCHANGED vars \/ Tick \/ \E t \in Fragile : ToggleBucket(t) \/ FreezeWallet(t)
       PROVE  UNCHANGED <<enabled, sched, raced, lock, proc>>
  BY <1>14 DEF vars, Tick, ToggleBucket, FreezeWallet, config, grants
<1>15. Clerks \subseteq Procs /\ Runners \subseteq Procs
  BY DEF Procs
<1> QED BY <1>1, <1>2, <1>3, <1>4, <1>5, <1>6, <1>7, <1>8, <1>9, <1>10, <1>11, <1>e, <1>12, <1>13, <1>14, <1>15
        DEF Next, GrantStep, StopStep

\* An active schedule belongs to an enabled rule, unless the rule was disabled
\* beside the registration that made the schedule (upsert_rules_in_tx).
THEOREM DisabledIsStopped == Spec => []DisableStopsSchedules
<1>1. Init => Stopping
  BY DEF Init, Stopping, DisableStopsSchedules, InSight, NoSchedule, Idle, Procs
<1>2. Inv /\ Stopping /\ [Next]_vars => Stopping'
  BY StoppingStep
<1>3. Stopping => DisableStopsSchedules
  BY DEF Stopping
<1> QED BY <1>1, <1>2, <1>3, SchedulesInvariant, PTL DEF Spec
=============================================================================
