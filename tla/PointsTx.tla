------------------------------ MODULE PointsTx ------------------------------
(***************************************************************************)
(* The transactions of PostgresPointsRepository on one user's points, at   *)
(* the granularity Postgres interleaves them under READ COMMITTED: every   *)
(* wallet lock, every ledger row lock, every window query and the commit   *)
(* is a step of its own.  A transaction reads the clock when it begins and *)
(* keeps that instant through every lock wait.  Its writes become visible  *)
(* at its commit; a failed one leaves nothing behind.                      *)
(***************************************************************************)
EXTENDS Integers, FiniteSets, FiniteSetsExt, Sums

CONSTANTS
    Buckets, Rows, Sources, CreditTypes, Apps, Covered,   \* as in PointsLedger
    GrantSizes, MaxPoints, MaxWindowed, MaxTime, Shares,
    Consumers, Granters, Revokers, Refunders, Expirers,   \* the transactions
    AppOf,        \* the client app of a consume
    Wants,        \* the amounts a consume may ask for
    GrantPlan,    \* per granter, its fixed rules in display order, one row each
    RevokePlan,   \* per revoker, its bucket and credit type
    RefundPlan,   \* per refunder, the payment and the <<refund, original>> share
    Batch,        \* the batch size of the expiration job
    WindowTypes,  \* the credit types quota windows exist for, in drawing order
    Entitlements, \* ids of points_quota_entitlements
    Quota,        \* per entitlement: bucket, ctype, from, until and its windows
    NoTx

Txs == Consumers \cup Granters \cup Revokers \cup Refunders \cup Expirers
Keys == Buckets \X {WindowTypes[i] : i \in DOMAIN WindowTypes}

ASSUME TxsAssumption ==
    /\ NoTx \notin Txs /\ AppOf \in [Consumers -> Apps]
    /\ Wants \subseteq 1..MaxPoints
    /\ Consumers \cap (Granters \cup Revokers \cup Refunders \cup Expirers) = {}
    /\ Granters \cap (Revokers \cup Refunders \cup Expirers) = {}
    /\ Revokers \cap (Refunders \cup Expirers) = {}
    /\ Refunders \cap Expirers = {}
ASSUME FiniteAssumption ==
    /\ IsFiniteSet(Buckets) /\ IsFiniteSet(Rows) /\ IsFiniteSet(Entitlements)
    /\ IsFiniteSet(DOMAIN WindowTypes) /\ DOMAIN WindowTypes \subseteq Nat
ASSUME LedgerAssumption ==
    /\ Buckets \subseteq Nat /\ Buckets # {} /\ Rows \subseteq Nat
    /\ CreditTypes # {} /\ Sources # {} /\ Covered \in [Apps -> SUBSET Buckets]
    /\ MaxPoints \in Nat \ {0} /\ MaxTime \in Nat /\ MaxWindowed \in Nat
    /\ GrantSizes \subseteq 1..MaxPoints
    /\ Shares \subseteq {p \in (Nat \ {0}) \X (Nat \ {0}) : p[1] <= p[2]}

\* Every rule of a distribution event inserts a row of its own.
ASSUME PlansAssumption ==
    /\ \A t \in Granters :
         /\ DOMAIN GrantPlan[t] \subseteq Nat
         /\ \A i \in DOMAIN GrantPlan[t] :
              GrantPlan[t][i] \in [row : Rows, bucket : Buckets, ctype : CreditTypes, source : Sources,
                                  amount : GrantSizes, effective : 0..MaxTime, expires : 1..(MaxTime + 1)]
    /\ \A t, u \in Granters : \A i \in DOMAIN GrantPlan[t], j \in DOMAIN GrantPlan[u] :
         GrantPlan[t][i].row = GrantPlan[u][j].row => t = u /\ i = j
    /\ \A t \in Revokers : RevokePlan[t] \in [bucket : Buckets, ctype : CreditTypes]
    /\ \A t \in Refunders : RefundPlan[t] \in [source : Sources, share : Shares]
    /\ Batch \in Nat \ {0}
ASSUME QuotaAssumption ==
    \A e \in Entitlements :
        /\ <<Quota[e].bucket, Quota[e].ctype>> \in Keys
        /\ Quota[e].from \in Nat /\ Quota[e].until \in Nat
        /\ IsFiniteSet(Quota[e].windows)
        /\ \A q \in Quota[e].windows : q.len \in Nat \ {0} /\ q.limit \in Nat

\* The ledger's bound on window consumption leaves room for every consume.
ASSUME WindowedAssumption ==
    /\ IsFiniteSet(Consumers)
    /\ Keys # {} => SumOf([t \in Consumers |-> MaxPoints], Consumers) <= MaxWindowed

VARIABLES
    rows, wallets, recharged, consumed, recorded, clock,  \* as in PointsLedger
    wlog,        \* the window consume transactions: points per key and created_at
    ents,        \* points_quota_entitlements: status, effective_until, creation
    walletLock,  \* holder of each (user, bucket) wallet row or of its insertion
    rowLock,     \* holder of each ledger row
    tx           \* the local state of every transaction

ledgerVars == <<rows, wallets, recharged, consumed, recorded, wlog, clock>>
lockVars == <<walletLock, rowLock>>
vars == <<rows, wallets, recharged, consumed, recorded, clock,
          wlog, ents, walletLock, rowLock, tx>>

Ledger == INSTANCE PointsLedger WITH
            windowed <- [b \in Buckets |-> SumOf([k \in Keys |-> SumOf(wlog[k], 0..MaxTime)],
                                                {k \in Keys : k[1] = b})]

Remaining(w) == Ledger!Remaining(w)
Finished == {"idle", "done", "failed"}

\* The loops of a transaction, by what is still to be visited: wallets, rows and
\* window keys, each in an order of its own.
IdleTx == [pc |-> "idle", now |-> 0, want |-> 0, wq |-> {}, rq |-> {},
           got |-> {}, kq |-> {}, avail |-> 0, left |-> 0, drawn |-> [k \in Keys |-> 0]]

Init ==
    /\ wlog = [k \in Keys |-> [s \in 0..MaxTime |-> 0]]
    /\ Ledger!Init
    /\ ents = [e \in Entitlements |-> [status |-> "absent", until |-> Quota[e].until, since |-> 0]]
    /\ walletLock = [b \in Buckets |-> NoTx]
    /\ rowLock = [r \in Rows |-> NoTx]
    /\ tx = [t \in Txs |-> IdleTx]

-----------------------------------------------------------------------------
(* Ending a transaction: both locks and local state go. *)

Release(t) ==
    /\ walletLock' = [b \in Buckets |-> IF walletLock[b] = t THEN NoTx ELSE walletLock[b]]
    /\ rowLock' = [r \in Rows |-> IF rowLock[r] = t THEN NoTx ELSE rowLock[r]]

\* The expiration job runs again at its next schedule; the others run once.
EndedAs(t, pc) == [tx EXCEPT ![t] = [IdleTx EXCEPT !.pc = IF t \in Expirers THEN "idle" ELSE pc]]

FailWithoutRollback(t) ==
    /\ tx' = EndedAs(t, "failed")
    /\ UNCHANGED <<ledgerVars, ents, lockVars>>

Fail(t) ==
    /\ Release(t)
    /\ tx' = EndedAs(t, "failed")
    /\ UNCHANGED <<ledgerVars, ents>>

Done(t) == Release(t) /\ tx' = EndedAs(t, "done")

-----------------------------------------------------------------------------
(* Locks *)

\* What a transaction locks wallets for first: covered buckets, the rules of a
\* distribution event, the bucket of a revocation.  A refund locks no wallet, the
\* expiration job those of its rows once it has them.
FirstWallets(t) ==
    CASE t \in Consumers -> Covered[AppOf[t]]
      [] t \in Granters -> DOMAIN GrantPlan[t]
      [] t \in Revokers -> {RevokePlan[t].bucket}
      [] OTHER -> {}

WalletOf(t, x) ==
    CASE t \in Granters -> GrantPlan[t][x].bucket
      [] t \in Expirers -> rows[x].bucket
      [] OTHER -> x

\* The ORDER BY of each row query: expiry then creation, creation, or bucket then
\* id.  An existing row keeps all of these.
Earlier(t, r, s) ==
    CASE t \in Consumers \cup Expirers -> Ledger!Before(r, s)
      [] t \in Revokers -> r < s
      [] t \in Refunders -> \/ rows[r].bucket < rows[s].bucket
                            \/ rows[r].bucket = rows[s].bucket /\ r < s

\* covered_bucket_ids in bucket_id order, rules in display order, the wallets of
\* the expiration job in the order of its rows.
NextWallet(t, x) ==
    \A y \in tx[t].wq \ {x} : IF t \in Expirers THEN Earlier(t, x, y) ELSE x < y

NextRow(t, r) == \A s \in tx[t].rq \ {r} : Earlier(t, r, s)

\* chrono::Utc::now() and the transaction's NOW() are read here, before any wait.
\* A client app that covers no bucket gets NoCoveredPointsPool.
Begin(t) ==
    /\ tx[t].pc = "idle"
    /\ \E n \in (IF t \in Consumers THEN Wants ELSE {0}) :
         tx' = [tx EXCEPT ![t] = [IdleTx EXCEPT !.now = clock, !.want = n, !.wq = FirstWallets(t),
                                    !.pc = IF t \in Refunders \cup Expirers THEN "select"
                                           ELSE IF FirstWallets(t) = {} THEN "failed"
                                           ELSE "wallets"]]
    /\ UNCHANGED <<ledgerVars, ents, lockVars>>

\* After its wallets a consume or a revocation queries its rows; a grant and the
\* expiration job have only to commit.
AfterWallets(t) == IF t \in Consumers \cup Revokers THEN "select" ELSE "commit"

\* find_wallet_by_user_bucket_for_update and, for consumes and grants,
\* ensure_wallet_in_tx: an insertion holds the unique key until the commit.
LockWallet(t) ==
    /\ tx[t].pc = "wallets"
    /\ \E x \in tx[t].wq :
         LET b == WalletOf(t, x) IN
         /\ NextWallet(t, x)
         /\ walletLock[b] \in {NoTx, t}
         /\ t \in Consumers \cup Granters => wallets[b] # "frozen"
         /\ t \in Revokers => wallets[b] # "none"
         /\ walletLock' = [walletLock EXCEPT ![b] = t]
         /\ tx' = [tx EXCEPT ![t].wq = @ \ {x},
                             ![t].pc = IF tx[t].wq = {x} THEN AfterWallets(t) ELSE @]
    /\ UNCHANGED <<ledgerVars, ents, rowLock>>

\* A frozen or closed wallet refuses consumes and grants wholesale.
RefuseWallet(t) ==
    /\ t \in Consumers \cup Granters
    /\ tx[t].pc = "wallets"
    /\ \E x \in tx[t].wq : /\ NextWallet(t, x)
                           /\ walletLock[WalletOf(t, x)] \in {NoTx, t}
                           /\ wallets[WalletOf(t, x)] = "frozen"
    /\ Fail(t)

\* A revocation for a wallet nobody committed yet revokes nothing and does not wait.
RevokeNothing(t) ==
    /\ t \in Revokers
    /\ tx[t].pc = "wallets"
    /\ wallets[RevokePlan[t].bucket] = "none"
    /\ Done(t)
    /\ UNCHANGED <<ledgerVars, ents>>

\* The WHERE clause of each transaction's row query.
Wanted(t, w) ==
    CASE t \in Consumers -> w.bucket \in Covered[AppOf[t]] /\ Ledger!Spendable(w, tx[t].now)
      [] t \in Revokers  -> /\ w.bucket = RevokePlan[t].bucket
                            /\ w.ctype = RevokePlan[t].ctype
                            /\ Ledger!Live(w)
      [] t \in Refunders -> /\ w.source = RefundPlan[t].source
                            /\ w.ctype = "topup_credit"
                            /\ Ledger!Live(w)
      [] t \in Expirers  -> Ledger!Live(w) /\ w.expires <= tx[t].now

AfterRows(t) ==
    CASE t \in Consumers -> "windows"
      [] t \in Expirers -> "wallets"
      [] OTHER -> "commit"

\* SELECT ... FOR UPDATE: the statement's snapshot fixes which rows it visits.
SelectRows(t) ==
    /\ tx[t].pc = "select"
    /\ tx' = [tx EXCEPT ![t].pc = "rows", ![t].rq = {r \in Rows : Wanted(t, rows[r])}]
    /\ UNCHANGED <<ledgerVars, ents, lockVars>>

LockRowRegardless(t) ==
    /\ tx[t].pc = "rows"
    /\ t \in Expirers => Cardinality(tx[t].got) < Batch
    /\ \E r \in tx[t].rq :
         /\ NextRow(t, r)
         /\ rowLock' = [rowLock EXCEPT ![r] = t]
         /\ tx' = [tx EXCEPT ![t].rq = @ \ {r},
                             ![t].got = IF Wanted(t, rows[r]) THEN @ \cup {r} ELSE @]
    /\ UNCHANGED <<ledgerVars, ents, walletLock>>

\* Each row is locked in its latest committed version and the WHERE clause is
\* evaluated again on it; a row that no longer matches is skipped.  The batch
\* limit counts the rows that matched.
LockRow(t) ==
    /\ tx[t].pc = "rows"
    /\ t \in Expirers => Cardinality(tx[t].got) < Batch
    /\ \E r \in tx[t].rq :
         /\ NextRow(t, r)
         /\ rowLock[r] \in {NoTx, t}
         /\ rowLock' = [rowLock EXCEPT ![r] = t]
         /\ tx' = [tx EXCEPT ![t].rq = @ \ {r},
                             ![t].got = IF Wanted(t, rows[r]) THEN @ \cup {r} ELSE @]
    /\ UNCHANGED <<ledgerVars, ents, walletLock>>

AllKeys(app) == {k \in Keys : k[1] \in Covered[app]}

\* The row query is over.  The expiration job goes on to the wallets of its rows,
\* one after the other in the order of the rows, or ends when it found none.
RowsLocked(t) ==
    /\ tx[t].pc = "rows"
    /\ tx[t].rq = {} \/ (t \in Expirers /\ Cardinality(tx[t].got) = Batch)
    /\ IF t \in Expirers /\ tx[t].got = {}
       THEN Done(t)
       ELSE /\ tx' = [tx EXCEPT ![t].pc = AfterRows(t), ![t].rq = {},
                                ![t].wq = IF t \in Expirers THEN tx[t].got ELSE @,
                                ![t].kq = IF t \in Consumers THEN AllKeys(AppOf[t]) ELSE @]
            /\ UNCHANGED lockVars
    /\ UNCHANGED <<ledgerVars, ents>>

-----------------------------------------------------------------------------
(* The window side of a consume *)

WindowSpendableForever(k, now) ==
    LET inForce == {e \in Entitlements :
                      /\ <<Quota[e].bucket, Quota[e].ctype>> = k
                      /\ ents[e].status = "active"}
        room(q) == q.limit - SumOf(wlog[k], {s \in 0..MaxTime : s >= now - q.len})
        rooms == UNION {{room(q) : q \in Quota[e].windows} : e \in inForce}
    IN IF rooms = {} THEN 0 ELSE Max({0, Min(rooms)})

WindowSpendableHalfOpen(k, now) ==
    LET inForce == {e \in Entitlements :
                      /\ <<Quota[e].bucket, Quota[e].ctype>> = k
                      /\ ents[e].status = "active"
                      /\ Quota[e].from <= now /\ ents[e].until > now}
        room(q) == q.limit - SumOf(wlog[k], {s \in 0..MaxTime : s > now - q.len})
        rooms == UNION {{room(q) : q \in Quota[e].windows} : e \in inForce}
    IN IF rooms = {} THEN 0 ELSE Max({0, Min(rooms)})

\* compute_window_spendable_in_tx: the tightest window of the entitlements in
\* force at the instant the transaction began; none means no window capacity.
WindowSpendable(k, now) ==
    LET inForce == {e \in Entitlements :
                      /\ <<Quota[e].bucket, Quota[e].ctype>> = k
                      /\ ents[e].status = "active"
                      /\ Quota[e].from <= now /\ ents[e].until > now}
        room(q) == q.limit - SumOf(wlog[k], {s \in 0..MaxTime : s >= now - q.len})
        rooms == UNION {{room(q) : q \in Quota[e].windows} : e \in inForce}
    IN IF rooms = {} THEN 0 ELSE Max({0, Min(rooms)})

\* The window loop runs in bucket_id order, a bucket's window types in their order.
Place(c) == CHOOSE i \in DOMAIN WindowTypes : WindowTypes[i] = c
NextKey(t, k) ==
    \A j \in tx[t].kq \ {k} : k[1] < j[1] \/ (k[1] = j[1] /\ Place(k[2]) < Place(j[2]))

ReadWindow(t) ==
    /\ tx[t].pc = "windows"
    /\ \E k \in tx[t].kq :
         /\ NextKey(t, k)
         /\ tx' = [tx EXCEPT ![t].kq = @ \ {k},
                             ![t].avail = @ + WindowSpendable(k, tx[t].now)]
    /\ UNCHANGED <<ledgerVars, ents, lockVars>>

PoolAvailable(t) == SumOf([r \in Rows |-> Remaining(rows[r])], tx[t].got)

\* plan_mixed_consume: refuse what windows and pool together cannot cover,
\* otherwise windows first.
PlanConsume(t) ==
    /\ tx[t].pc = "windows"
    /\ tx[t].kq = {}
    /\ IF tx[t].want > tx[t].avail + PoolAvailable(t)
       THEN Fail(t)
       ELSE /\ tx' = [tx EXCEPT ![t].pc = "commit", ![t].kq = AllKeys(AppOf[t]),
                                ![t].left = Min({tx[t].want, tx[t].avail})]
            /\ UNCHANGED <<ledgerVars, ents, lockVars>>

\* The window of the next key is computed again, and drawn as far as it goes.
DrawWindow(t) ==
    /\ tx[t].pc = "commit"
    /\ t \in Consumers
    /\ tx[t].left > 0
    /\ \E k \in tx[t].kq :
         LET part == Min({tx[t].left, WindowSpendable(k, tx[t].now)}) IN
         /\ NextKey(t, k)
         /\ tx' = [tx EXCEPT ![t].kq = @ \ {k}, ![t].left = @ - part,
                             ![t].drawn = [@ EXCEPT ![k] = part]]
    /\ UNCHANGED <<ledgerVars, ents, lockVars>>

TakeAllFromPool(t) ==
    LET pool == tx[t].want
        ahead(r) == SumOf([s \in Rows |-> Remaining(rows[s])],
                          {s \in tx[t].got : Ledger!Before(s, r)})
    IN [r \in Rows |-> IF r \in tx[t].got
                       THEN Max({0, Min({Remaining(rows[r]), pool - ahead(r)})}) ELSE 0]

\* plan_consume_allocation: the pool part, greedily in the order of the rows.
Take(t) ==
    LET pool == tx[t].want - SumOf(tx[t].drawn, Keys)
        ahead(r) == SumOf([s \in Rows |-> Remaining(rows[s])],
                          {s \in tx[t].got : Ledger!Before(s, r)})
    IN [r \in Rows |-> IF r \in tx[t].got
                       THEN Max({0, Min({Remaining(rows[r]), pool - ahead(r)})}) ELSE 0]

DrawnFrom(t, b) == SumOf(tx[t].drawn, {k \in Keys : k[1] = b})

-----------------------------------------------------------------------------
(* Commits *)

CommitConsume(t) ==
    /\ t \in Consumers
    /\ tx[t].pc = "commit"
    /\ tx[t].left = 0
    /\ rows' = [r \in Rows |-> IF Take(t)[r] = 0 THEN rows[r]
                               ELSE Ledger!Consumption(rows[r], Take(t)[r])]
    /\ wlog' = [k \in Keys |-> [wlog[k] EXCEPT ![tx[t].now] = @ + tx[t].drawn[k]]]
    /\ wallets' = [b \in Buckets |-> IF b \in Covered[AppOf[t]] THEN Ledger!Ensured(b) ELSE wallets[b]]
    /\ consumed' = [b \in Buckets |->
                      consumed[b] + DrawnFrom(t, b)
                      + SumOf(Take(t), {r \in Rows : rows[r].bucket = b})]
    /\ Done(t)
    /\ UNCHANGED <<recharged, recorded, clock, ents>>

\* "consume window allocation drift": an entitlement went between plan and draw.
WindowDrift(t) ==
    /\ t \in Consumers
    /\ tx[t].pc = "commit"
    /\ tx[t].kq = {}
    /\ tx[t].left > 0
    /\ Fail(t)

\* execute_distribution_event_atomic, grant_points_atomic, recharge_points_atomic.
CommitGrant(t) ==
    LET rules == {GrantPlan[t][i] : i \in DOMAIN GrantPlan[t]}
        S == {g.row : g \in rules}
        new == [r \in S |-> LET g == CHOOSE g \in rules : g.row = r IN
                  [bucket |-> g.bucket, ctype |-> g.ctype, source |-> g.source,
                   granted |-> g.amount, used |-> 0, revoked |-> 0,
                   effective |-> g.effective, expires |-> g.expires, status |-> "active"]]
    IN /\ t \in Granters
       /\ tx[t].pc = "commit"
       /\ rows' = [r \in Rows |-> IF r \in S THEN new[r] ELSE rows[r]]
       /\ wallets' = [b \in Buckets |-> IF walletLock[b] = t THEN Ledger!Ensured(b) ELSE wallets[b]]
       /\ recharged' = [b \in Buckets |-> recharged[b] + Ledger!RechargedBy(S, new, b)]
       /\ Done(t)
       /\ UNCHANGED <<consumed, recorded, wlog, clock, ents>>

\* What a revocation, a refund or an expiry does to each row it locked.
Loss(t, r) ==
    IF t \in Refunders
    THEN Ledger!Proportional(rows[r].granted, Remaining(rows[r]), RefundPlan[t].share)
    ELSE Remaining(rows[r])

Struck(t, r) ==
    IF t \in Expirers THEN [rows[r] EXCEPT !.status = "expired"]
    ELSE IF Loss(t, r) = 0 THEN rows[r] ELSE Ledger!Revocation(rows[r], Loss(t, r))

CommitLoss(t) ==
    /\ t \in Revokers \cup Refunders \cup Expirers
    /\ tx[t].pc = "commit"
    /\ rows' = [r \in Rows |-> IF r \in tx[t].got THEN Struck(t, r) ELSE rows[r]]
    /\ recorded' = [r \in Rows |-> recorded[r] + (IF r \in tx[t].got THEN Loss(t, r) ELSE 0)]
    /\ Done(t)
    /\ UNCHANGED <<wallets, recharged, consumed, wlog, clock, ents>>

-----------------------------------------------------------------------------
(* Postgres' deadlock detection, single-statement writers, the clock *)

\* The transaction t waits for, if any.
Blocker(t) ==
    CASE tx[t].pc = "wallets" -> walletLock[WalletOf(t, CHOOSE x \in tx[t].wq : NextWallet(t, x))]
      [] tx[t].pc = "rows" /\ tx[t].rq # {} -> rowLock[CHOOSE r \in tx[t].rq : NextRow(t, r)]
      [] OTHER -> NoTx

Waits(t) == Blocker(t) \notin {NoTx, t}

\* t is in a wait cycle: every set that holds its blocker and is closed under
\* waiting holds t.
InWaitCycle(t) ==
    /\ Waits(t)
    /\ \A S \in SUBSET Txs :
         (Blocker(t) \in S /\ \A s \in S : Waits(s) => Blocker(s) \in S) => t \in S

\* Postgres aborts one transaction of the cycle after deadlock_timeout.
DeadlockVictim(t) == InWaitCycle(t) /\ Fail(t)

\* Entitlements are written without any wallet lock.
GrantEntitlement(e) ==
    /\ ents[e].status = "absent"
    /\ ents' = [ents EXCEPT ![e].status = "active", ![e].since = clock]
    /\ UNCHANGED <<ledgerVars, lockVars, tx>>

RevokeEntitlement(e) ==
    /\ ents[e].status = "active"
    /\ ents' = [ents EXCEPT ![e].status = "revoked", ![e].until = clock]
    /\ UNCHANGED <<ledgerVars, lockVars, tx>>

ExpireEntitlement(e) ==
    /\ ents[e].status = "active"
    /\ ents[e].until <= clock
    /\ ents' = [ents EXCEPT ![e].status = "expired"]
    /\ UNCHANGED <<ledgerVars, lockVars, tx>>

\* The status update waits for the wallet row like everyone else.
UpdateWalletStatus(b, st) ==
    /\ walletLock[b] = NoTx
    /\ wallets[b] \notin {"none", st}
    /\ wallets' = [wallets EXCEPT ![b] = st]
    /\ UNCHANGED <<rows, recharged, consumed, recorded, wlog, clock, ents, lockVars, tx>>

Tick ==
    /\ clock < MaxTime
    /\ clock' = clock + 1
    /\ UNCHANGED <<rows, wallets, recharged, consumed, recorded, wlog, ents, lockVars, tx>>

Lock(t) == LockWallet(t) \/ RefuseWallet(t) \/ LockRow(t)

Step(t) ==
    \/ RevokeNothing(t)
    \/ SelectRows(t)
    \/ RowsLocked(t)
    \/ ReadWindow(t)
    \/ PlanConsume(t)
    \/ DrawWindow(t)
    \/ WindowDrift(t)
    \/ CommitConsume(t)
    \/ CommitGrant(t)
    \/ CommitLoss(t)
    \/ DeadlockVictim(t)

Next ==
    \/ \E t \in Txs : Begin(t) \/ Lock(t) \/ Step(t)
    \/ \E e \in Entitlements : GrantEntitlement(e) \/ RevokeEntitlement(e) \/ ExpireEntitlement(e)
    \/ \E b \in Buckets, st \in {"active", "frozen"} : UpdateWalletStatus(b, st)
    \/ Tick

Spec == Init /\ [][Next]_vars

\* A begun transaction keeps running, and Postgres grants locks in the order of
\* its wait queues, so one that can be taken again and again is taken.
FairSpec == Spec /\ \A t \in Txs : WF_vars(Step(t)) /\ SF_vars(Lock(t))

-----------------------------------------------------------------------------
(* Properties *)

\* Every variable stays in its domain, and a lock is held only by a transaction
\* under way: no path ends, fails or is aborted with a lock left behind.
TypeOK ==
    /\ Ledger!TypeOK
    /\ wlog \in [Keys -> [0..MaxTime -> Nat]]
    /\ \A e \in Entitlements : ents[e].status \in {"absent", "active", "revoked", "expired"}
    /\ \A t \in Txs : tx[t].left >= 0 /\ tx[t].got \subseteq Rows
    /\ \A b \in Buckets : walletLock[b] # NoTx => tx[walletLock[b]].pc \notin Finished
    /\ \A r \in Rows : rowLock[r] # NoTx => tx[rowLock[r]].pc \notin Finished

\* Under any interleaving, the committed points are those of PointsLedger: a
\* commit computed from row versions read under locks is one atomic step on the
\* rows as they are at the commit, and everything else leaves them alone.
LedgerRefined ==
    Ledger!Init /\ [][UNCHANGED Ledger!vars \/ Ledger!Next]_(Ledger!vars)

\* No sliding window is overspent, whatever consumes run concurrently and however
\* long they waited with the instant they began at: the consumes stamped within
\* any window length, both ends included, stay within the limit of every
\* entitlement that was in force before the first of them began.
WindowNeverOverspent ==
    \A e \in Entitlements : ents[e].status = "active" =>
        \A q \in Quota[e].windows, s \in 0..MaxTime :
            s > ents[e].since /\ s >= Quota[e].from =>
                SumOf(wlog[<<Quota[e].bucket, Quota[e].ctype>>],
                      {x \in s..(s + q.len) : x <= MaxTime /\ x < ents[e].until})
                    <= q.limit

\* Window points are only drawn on an entitlement: one covering the instant the
\* consume began, even when it is revoked or swept while the consume runs.
DrawWithinEntitlement ==
    \A k \in Keys, s \in 0..MaxTime :
        wlog[k][s] > 0 =>
            \E e \in Entitlements :
                /\ <<Quota[e].bucket, Quota[e].ctype>> = k
                /\ ents[e].status # "absent"
                /\ Quota[e].from <= s /\ s <= ents[e].until

\* Every transaction that begins ends, although the lock orders of consumes,
\* expiry, refunds and distribution events differ.
EveryTxEnds == \A t \in Txs : tx[t].pc \notin Finished ~> tx[t].pc \in Finished

\* consumption.mdx: wallets and their ledger rows are locked in a fixed order,
\* deadlock-free.
NoWaitCycle == \A t \in Txs : ~InWaitCycle(t)
=============================================================================
