--------------------------- MODULE PointsTxProofs ---------------------------
(* Proofs, for any number of transactions, buckets, rows and quota windows,  *)
(* of the safety properties of PointsTx.  The argument about windows rests   *)
(* on the wallet locks: between the draw of a consume and its commit nobody  *)
(* else commits a draw on the same key, and the instant a consume keeps from *)
(* its beginning is later than the grant of every entitlement it must heed.  *)
(* The second half proves that PointsTx implements PointsLedger: what a      *)
(* transaction found under its locks is still so when it commits.            *)
EXTENDS PointsTx, SumTheorems

Pcs == Finished \cup {"wallets", "select", "rows", "windows", "commit"}
Secured == {"select", "rows", "windows", "commit"}

TxType ==
    [pc : Pcs, now : 0..MaxTime, want : Nat, wq : SUBSET Nat, rq : SUBSET Rows,
     got : SUBSET Rows, kq : SUBSET Keys, avail : Nat, left : Nat, drawn : [Keys -> Nat]]
EntType == [status : {"absent", "active", "revoked", "expired"}, until : Nat, since : Nat]

KeyOf(e) == <<Quota[e].bucket, Quota[e].ctype>>
Recent(now, len) == {s \in 0..MaxTime : s >= now - len}

(* The ledger: no row has given more than it holds.                          *)
LedgerGood ==
    /\ rows \in [Rows -> Ledger!RowType]
    /\ \A r \in Rows : rows[r].used + rows[r].revoked <= rows[r].granted
    /\ wallets \in [Buckets -> Ledger!WalletStatus]
    /\ DOMAIN recharged = Buckets /\ DOMAIN consumed = Buckets
    /\ recorded \in [Rows -> Nat]
    /\ clock \in 0..MaxTime

(* Window consumes are stamped in the past, entitlements granted in it.      *)
WindowsGood ==
    /\ wlog \in [Keys -> [0..MaxTime -> Nat]]
    /\ ents \in [Entitlements -> EntType]
    /\ \A k \in Keys, s \in 0..MaxTime : wlog[k][s] > 0 => s <= clock
    /\ \A e \in Entitlements : ents[e].since <= clock

LocksGood ==
    /\ walletLock \in [Buckets -> Txs \cup {NoTx}]
    /\ rowLock \in [Rows -> Txs \cup {NoTx}]
    /\ \A b \in Buckets : walletLock[b] # NoTx => tx[walletLock[b]].pc \notin Finished
    /\ \A r \in Rows : rowLock[r] # NoTx => tx[rowLock[r]].pc \notin Finished

(* An entitlement on k covers the instant s.                                 *)
Entitled(k, s) ==
    \E e \in Entitlements : /\ KeyOf(e) = k
                            /\ ents[e].status # "absent"
                            /\ Quota[e].from <= s /\ s <= ents[e].until

(* Drawing n from k at the instant now respects every entitlement that was   *)
(* in force before.                                                          *)
Room(k, now, n) ==
    \A e \in Entitlements :
        /\ KeyOf(e) = k /\ ents[e].status = "active" /\ ents[e].since < now
        /\ Quota[e].from <= now /\ now < ents[e].until
        => \A q \in Quota[e].windows : n + SumOf(wlog[k], Recent(now, q.len)) <= q.limit

(* What transaction t in the state v has secured.                            *)
TxGood(t, v) ==
    /\ v \in TxType
    /\ v.now <= clock
    /\ t \in Consumers =>
         /\ v.pc = "wallets" => \A b \in Covered[AppOf[t]] : b \in v.wq \/ walletLock[b] = t
         /\ v.pc \in Secured => \A b \in Covered[AppOf[t]] : walletLock[b] = t
         /\ v.kq \subseteq AllKeys(AppOf[t])
    /\ \A k \in Keys : v.drawn[k] > 0 =>
         /\ t \in Consumers /\ v.pc = "commit" /\ k \in AllKeys(AppOf[t])
         /\ Room(k, v.now, v.drawn[k]) /\ Entitled(k, v.now)

TxsGood == DOMAIN tx = Txs /\ \A t \in Txs : TxGood(t, tx[t])

Inv ==
    /\ LedgerGood
    /\ WindowsGood
    /\ LocksGood
    /\ TxsGood
    /\ WindowNeverOverspent
    /\ DrawWithinEntitlement

-----------------------------------------------------------------------------
(* Windows *)

\* The image of a finite set is finite.
LEMMA ImageFinite ==
    ASSUME NEW S, IsFiniteSet(S), NEW f
    PROVE  IsFiniteSet({f[x] : x \in S})
<1> DEFINE T == {f[x] : x \in S}
           g == [x \in S |-> f[x]]
<1>1. g \in [S -> T] /\ \A y \in T : \E x \in S : g[x] = y
  OBVIOUS
<1> HIDE DEF T, g
<1>2. g \in Surjection(S, T)
  BY <1>1 DEF Surjection
<1>3. IsFiniteSet(T)
  BY <1>2, FS_Surjection
<1> QED BY <1>3 DEF T

LEMMA KeysFinite == IsFiniteSet(Keys)
<1> DEFINE W == {WindowTypes[i] : i \in DOMAIN WindowTypes}
<1>1. IsFiniteSet(W)
  BY FiniteAssumption, ImageFinite
<1> HIDE DEF W
<1>2. IsFiniteSet(Buckets \X W)
  BY <1>1, FiniteAssumption, FS_Product
<1> QED BY <1>2 DEF Keys, W

\* The instants a window looks back at.
LEMMA RecentSums ==
    ASSUME WindowsGood, NEW k \in Keys, NEW A \in SUBSET (0..MaxTime)
    PROVE  IsFiniteSet(A) /\ (\A s \in A : wlog[k][s] \in Nat) /\ SumOf(wlog[k], A) \in Nat
<1>1. IsFiniteSet(0..MaxTime)
  BY LedgerAssumption, FS_Interval
<1>2. IsFiniteSet(A)
  BY <1>1, FS_Subset
<1>3. wlog[k] \in [0..MaxTime -> Nat]
  BY DEF WindowsGood
<1>4. \A s \in A : wlog[k][s] \in Nat
  BY <1>3
<1>5. SumOf(wlog[k], A) \in Nat
  BY <1>2, <1>4, SumNat
<1> QED BY <1>2, <1>4, <1>5

\* compute_window_spendable_in_tx: what it answers is covered by an entitlement in
\* force, and within every window of all of them.
LEMMA SpendableSound ==
    ASSUME WindowsGood, NEW k \in Keys, NEW now \in 0..MaxTime
    PROVE  /\ WindowSpendable(k, now) \in Nat
           /\ \A n \in Nat : n > 0 /\ n <= WindowSpendable(k, now) => Room(k, now, n) /\ Entitled(k, now)
<1> DEFINE inForce == {e \in Entitlements : /\ KeyOf(e) = k
                                           /\ ents[e].status = "active"
                                           /\ Quota[e].from <= now /\ ents[e].until > now}
           room(q) == q.limit - SumOf(wlog[k], Recent(now, q.len))
           rooms == UNION {{room(q) : q \in Quota[e].windows} : e \in inForce}
           n0 == WindowSpendable(k, now)
<1>1. n0 = IF rooms = {} THEN 0 ELSE Max({0, Min(rooms)})
  BY DEF WindowSpendable, KeyOf, Recent
<1>2. \A len : Recent(now, len) \in SUBSET (0..MaxTime)
  BY DEF Recent
<1>3. ASSUME NEW e \in Entitlements, NEW q \in Quota[e].windows
      PROVE  room(q) \in Int /\ q.limit \in Nat
  <2>1. q.limit \in Nat
    BY QuotaAssumption
  <2>2. SumOf(wlog[k], Recent(now, q.len)) \in Nat
    BY <1>2, RecentSums
  <2> QED BY <2>1, <2>2
<1> HIDE DEF room, n0
<1>4. rooms \subseteq Int
  BY <1>3
<1>5. IsFiniteSet(rooms)
  <2> DEFINE per == [e \in Entitlements |-> {room(q) : q \in Quota[e].windows}]
             all == {per[e] : e \in inForce}
  <2>1. IsFiniteSet(inForce)
    BY FiniteAssumption, FS_Subset
  <2>2. ASSUME NEW e \in inForce PROVE IsFiniteSet(per[e])
    <3> DEFINE Q == Quota[e].windows
               f == [q \in Q |-> room(q)]
    <3>1. IsFiniteSet(Q)
      BY QuotaAssumption
    <3>2. per[e] = {f[q] : q \in Q}
      OBVIOUS
    <3> HIDE DEF Q, f, per
    <3>3. IsFiniteSet({f[q] : q \in Q})
      BY <3>1, ImageFinite
    <3> QED BY <3>2, <3>3
  <2>3. rooms = UNION all
    OBVIOUS
  <2> HIDE DEF per, inForce, rooms
  <2>4. IsFiniteSet(all)
    BY <2>1, ImageFinite
  <2>5. \A x \in all : IsFiniteSet(x)
    BY <2>2
  <2> HIDE DEF all
  <2>6. IsFiniteSet(UNION all)
    BY <2>4, <2>5, FS_UNION
  <2> QED BY <2>3, <2>6
<1>6. CASE rooms = {}
  <2>1. n0 = 0
    BY <1>1, <1>6
  <2>2. \A n \in Nat : ~(n > 0 /\ n <= n0)
    BY <2>1
  <2> QED BY <2>1, <2>2 DEF n0
<1>7. CASE rooms # {}
  <2> DEFINE m == Min(rooms)
  <2>1. m \in rooms /\ \A x \in rooms : m <= x
    <3> HIDE DEF rooms
    <3> QED BY <1>4, <1>5, <1>7, LeastOfFinite
  <2>2. n0 = Max({0, m}) /\ m \in Int
    BY <1>1, <1>4, <1>7, <2>1
  <2> HIDE DEF m
  <2>3. n0 = IF 0 >= m THEN 0 ELSE m
    BY <2>2, MaxOfTwo
  <2>4. ASSUME NEW n \in Nat, n > 0, n <= n0
        PROVE  Room(k, now, n) /\ Entitled(k, now)
    <3>1. n <= m
      BY <2>2, <2>3, <2>4
    <3>2. PICK e \in inForce : TRUE
      BY <1>7
    <3>3. Entitled(k, now)
      <4>1. ents[e].until \in Nat /\ ents[e].until > now
        BY <3>2 DEF WindowsGood, EntType
      <4> QED BY <3>2, <4>1 DEF Entitled
    <3>4. ASSUME NEW f \in Entitlements, KeyOf(f) = k, ents[f].status = "active",
                 Quota[f].from <= now, now < ents[f].until, NEW q \in Quota[f].windows
          PROVE  n + SumOf(wlog[k], Recent(now, q.len)) <= q.limit
      <4>1. ents[f].until \in Nat
        BY DEF WindowsGood, EntType
      <4>2. f \in inForce
        BY <3>4, <4>1
      <4>3. room(q) \in rooms
        BY <4>2
      <4>4. m <= room(q) /\ room(q) \in Int /\ q.limit \in Nat
        BY <1>3, <2>1, <4>3
      <4>5. SumOf(wlog[k], Recent(now, q.len)) \in Nat
        BY <1>2, RecentSums
      <4>6. room(q) = q.limit - SumOf(wlog[k], Recent(now, q.len))
        BY DEF room
      <4> QED BY <2>2, <3>1, <4>4, <4>5, <4>6
    <3>5. Room(k, now, n)
      BY <3>4 DEF Room
    <3> QED BY <3>3, <3>5
  <2>5. n0 \in Nat
    BY <2>2, <2>3
  <2> QED BY <2>4, <2>5 DEF n0
<1> QED BY <1>6, <1>7 DEF n0

-----------------------------------------------------------------------------
(* A transaction moves *)

LedgerSame == UNCHANGED <<ledgerVars, ents>>
Moves(t, v) == tx' = [tx EXCEPT ![t] = v]

\* Nobody but t gets or loses a lock.
LocksBy(t) ==
    /\ walletLock' \in [Buckets -> Txs \cup {NoTx}] /\ rowLock' \in [Rows -> Txs \cup {NoTx}]
    /\ \A b \in Buckets : walletLock'[b] = walletLock[b] \/ (walletLock[b] \in {NoTx, t} /\ walletLock'[b] \in {NoTx, t})
    /\ \A r \in Rows : rowLock'[r] = rowLock[r] \/ (rowLock[r] \in {NoTx, t} /\ rowLock'[r] \in {NoTx, t})

LEMMA LocksKept ==
    ASSUME Inv, NEW t \in Txs, NEW v, Moves(t, v), LocksBy(t),
           v.pc \in Finished => (\A b \in Buckets : walletLock'[b] # t) /\ (\A r \in Rows : rowLock'[r] # t)
    PROVE  LocksGood'
<1>1. tx'[t] = v /\ \A u \in Txs \ {t} : tx'[u] = tx[u]
  BY DEF Inv, TxsGood, Moves
<1>2. ASSUME NEW b \in Buckets, walletLock'[b] # NoTx PROVE tx'[walletLock'[b]].pc \notin Finished
  <2>1. walletLock'[b] \in Txs
    BY <1>2 DEF LocksBy
  <2>2. CASE walletLock'[b] = t
    BY <1>1, <2>2
  <2>3. CASE walletLock'[b] # t
    <3>1. walletLock'[b] = walletLock[b]
      BY <1>2, <2>3 DEF LocksBy
    <3>2. tx'[walletLock'[b]] = tx[walletLock[b]]
      BY <1>1, <2>1, <2>3, <3>1
    <3> QED BY <1>2, <3>1, <3>2 DEF Inv, LocksGood
  <2> QED BY <2>2, <2>3
<1>3. ASSUME NEW r \in Rows, rowLock'[r] # NoTx PROVE tx'[rowLock'[r]].pc \notin Finished
  <2>1. rowLock'[r] \in Txs
    BY <1>3 DEF LocksBy
  <2>2. CASE rowLock'[r] = t
    BY <1>1, <2>2
  <2>3. CASE rowLock'[r] # t
    <3>1. rowLock'[r] = rowLock[r]
      BY <1>3, <2>3 DEF LocksBy
    <3>2. tx'[rowLock'[r]] = tx[rowLock[r]]
      BY <1>1, <2>1, <2>3, <3>1
    <3> QED BY <1>3, <3>1, <3>2 DEF Inv, LocksGood
  <2> QED BY <2>2, <2>3
<1> QED BY <1>2, <1>3 DEF LocksGood, LocksBy

\* A step of t that writes nothing of the ledger or the entitlements.
LEMMA QuietMove ==
    ASSUME Inv, NEW t \in Txs, NEW v, Moves(t, v), LocksBy(t), LedgerSame, TxGood(t, v)',
           v.pc \in Finished => (\A b \in Buckets : walletLock'[b] # t) /\ (\A r \in Rows : rowLock'[r] # t)
    PROVE  Inv'
<1>1. tx'[t] = v /\ DOMAIN tx' = Txs /\ \A u \in Txs \ {t} : tx'[u] = tx[u]
  BY DEF Inv, TxsGood, Moves
<1>2. LocksGood'
  BY LocksKept
<1>3. LedgerGood' /\ WindowsGood' /\ WindowNeverOverspent' /\ DrawWithinEntitlement'
  BY DEF Inv, LedgerSame, ledgerVars, LedgerGood, WindowsGood, WindowNeverOverspent, DrawWithinEntitlement
<1>4. ASSUME NEW u \in Txs PROVE TxGood(u, tx[u])'
  <2>1. CASE u = t
    BY <1>1, <2>1 DEF TxGood
  <2>2. CASE u # t
    <3>1. TxGood(u, tx[u]) /\ tx'[u] = tx[u]
      BY <1>1, <2>2 DEF Inv, TxsGood
    <3>2. \A b \in Buckets : walletLock[b] = u => walletLock'[b] = u
      BY <2>2, TxsAssumption DEF LocksBy
    <3>3. \A a \in Apps : Covered[a] \subseteq Buckets
      BY LedgerAssumption
    <3>4. u \in Consumers => Covered[AppOf[u]] \subseteq Buckets
      BY <3>3, TxsAssumption
    <3>5. clock' = clock /\ wlog' = wlog /\ ents' = ents
      BY DEF LedgerSame, ledgerVars
    <3>6. \A k \in Keys : /\ Room(k, tx[u].now, tx[u].drawn[k]) => Room(k, tx[u].now, tx[u].drawn[k])'
                          /\ Entitled(k, tx[u].now) => Entitled(k, tx[u].now)'
      BY <3>1, <3>5 DEF Room, Entitled
    <3> QED BY <3>1, <3>2, <3>4, <3>5, <3>6 DEF TxGood
  <2> QED BY <2>1, <2>2
<1> QED BY <1>1, <1>2, <1>3, <1>4 DEF Inv, TxsGood

LEMMA NoTxApart == ASSUME NEW t \in Txs PROVE t # NoTx
BY TxsAssumption

\* The record of a transaction that is not under way.
LEMMA IdleFields ==
    /\ IdleTx \in TxType
    /\ \A p \in Pcs : /\ [IdleTx EXCEPT !.pc = p] \in TxType
                      /\ [IdleTx EXCEPT !.pc = p].pc = p
                      /\ [IdleTx EXCEPT !.pc = p].now = 0 /\ [IdleTx EXCEPT !.pc = p].kq = {}
                      /\ \A k \in Keys : [IdleTx EXCEPT !.pc = p].drawn[k] = 0
<1>1. IdleTx \in TxType /\ IdleTx.now = 0 /\ IdleTx.kq = {} /\ \A k \in Keys : IdleTx.drawn[k] = 0
  BY LedgerAssumption DEF IdleTx, TxType, Pcs, Finished
<1>2. ASSUME NEW p \in Pcs, NEW v, v = [IdleTx EXCEPT !.pc = p]
      PROVE  /\ v \in TxType /\ v.pc = p /\ v.now = 0 /\ v.kq = {}
             /\ \A k \in Keys : v.drawn[k] = 0
  BY <1>1, <1>2 DEF TxType
<1> QED BY <1>1, <1>2

\* COMMIT and ROLLBACK: the transaction is over and holds nothing.
LEMMA Ending ==
    ASSUME Inv, NEW t \in Txs, NEW p \in {"done", "failed"}, Release(t), tx' = EndedAs(t, p), clock' \in Nat
    PROVE  \E v : /\ Moves(t, v) /\ v.pc \in Finished /\ LocksBy(t) /\ TxGood(t, v)'
                  /\ (\A b \in Buckets : walletLock'[b] # t) /\ (\A r \in Rows : rowLock'[r] # t)
<1>1. PICK pp \in {"idle", "done", "failed"} : pp = IF t \in Expirers THEN "idle" ELSE p
  OBVIOUS
<1>2. PICK v : v = [IdleTx EXCEPT !.pc = pp]
  OBVIOUS
<1>3. Moves(t, v)
  BY <1>1, <1>2 DEF EndedAs, Moves
<1>4. /\ v \in TxType /\ v.pc = pp /\ v.now = 0 /\ v.kq = {}
      /\ \A k \in Keys : v.drawn[k] = 0
  BY <1>1, <1>2, IdleFields DEF Pcs, Finished
<1>5. LocksBy(t) /\ (\A b \in Buckets : walletLock'[b] # t) /\ (\A r \in Rows : rowLock'[r] # t)
  BY NoTxApart DEF Release, LocksBy, Inv, LocksGood
<1>6. TxGood(t, v)'
  BY <1>1, <1>4 DEF TxGood, Secured
<1> QED BY <1>1, <1>3, <1>4, <1>5, <1>6 DEF Finished

LEMMA FailKeeps == ASSUME Inv, NEW t \in Txs, Fail(t) PROVE Inv'
<1>1. LedgerSame /\ clock' \in Nat /\ Release(t) /\ tx' = EndedAs(t, "failed")
  BY LedgerAssumption DEF Fail, LedgerSame, ledgerVars, Inv, LedgerGood
<1>2. PICK v : /\ Moves(t, v) /\ v.pc \in Finished /\ LocksBy(t) /\ TxGood(t, v)'
               /\ (\A b \in Buckets : walletLock'[b] # t) /\ (\A r \in Rows : rowLock'[r] # t)
  BY <1>1, Ending
<1> QED BY <1>1, <1>2, QuietMove

-----------------------------------------------------------------------------
(* Steps before the commit *)

LEMMA TxFields ==
    ASSUME Inv, NEW t \in Txs
    PROVE  /\ tx[t] \in TxType /\ TxGood(t, tx[t])
           /\ tx[t].now \in 0..MaxTime /\ tx[t].now <= clock
           /\ tx[t].rq \subseteq Rows /\ tx[t].got \subseteq Rows /\ tx[t].kq \subseteq Keys
           /\ tx[t].avail \in Nat /\ tx[t].left \in Nat /\ tx[t].drawn \in [Keys -> Nat]
BY DEF Inv, TxsGood, TxGood, TxType

LEMMA AppCovers ==
    ASSUME NEW t \in Consumers PROVE Covered[AppOf[t]] \in SUBSET Buckets
<1>1. AppOf[t] \in Apps
  BY TxsAssumption
<1> QED BY <1>1, LedgerAssumption

\* A transaction that has no lock yet, or none that it gives up, goes on.
LEMMA LocksSame == ASSUME Inv, UNCHANGED lockVars, NEW t \in Txs PROVE LocksBy(t)
BY DEF lockVars, LocksBy, Inv, LocksGood

LEMMA FirstWalletsTyped ==
    ASSUME NEW t \in Txs
    PROVE  /\ FirstWallets(t) \in SUBSET Nat
           /\ t \in Consumers => FirstWallets(t) = Covered[AppOf[t]]
<1>1. CASE t \in Consumers
  <2>1. FirstWallets(t) = Covered[AppOf[t]]
    BY <1>1, TxsAssumption DEF FirstWallets
  <2>2. Covered[AppOf[t]] \in SUBSET Buckets
    BY <1>1, AppCovers
  <2> QED BY <2>1, <2>2, LedgerAssumption
<1>2. CASE t \in Granters
  BY <1>2, TxsAssumption, PlansAssumption DEF FirstWallets
<1>3. CASE t \in Revokers
  <2>1. RevokePlan[t].bucket \in Buckets
    BY <1>3, PlansAssumption
  <2>2. FirstWallets(t) = {RevokePlan[t].bucket}
    BY <1>3, TxsAssumption DEF FirstWallets
  <2> QED BY <1>3, <2>1, <2>2, TxsAssumption, LedgerAssumption
<1>4. CASE t \in Refunders \cup Expirers
  BY <1>4, TxsAssumption DEF FirstWallets
<1> QED BY <1>1, <1>2, <1>3, <1>4 DEF Txs

LEMMA BeginKeeps == ASSUME Inv, NEW t \in Txs, Begin(t) PROVE Inv'
<1>0. PICK n \in (IF t \in Consumers THEN Wants ELSE {0}) :
         tx' = [tx EXCEPT ![t] = [IdleTx EXCEPT !.now = clock, !.want = n, !.wq = FirstWallets(t),
                                    !.pc = IF t \in Refunders \cup Expirers THEN "select"
                                           ELSE IF FirstWallets(t) = {} THEN "failed"
                                           ELSE "wallets"]]
  BY DEF Begin
<1>1. PICK p : p = IF t \in Refunders \cup Expirers THEN "select"
                   ELSE IF FirstWallets(t) = {} THEN "failed" ELSE "wallets"
  OBVIOUS
<1>2. PICK v : v = [IdleTx EXCEPT !.now = clock, !.want = n, !.wq = FirstWallets(t), !.pc = p]
  OBVIOUS
<1>3. Moves(t, v)
  BY <1>0, <1>1, <1>2 DEF Moves
<1>4. n \in Nat /\ clock \in 0..MaxTime /\ p \in {"select", "failed", "wallets"}
  BY <1>1, TxsAssumption, LedgerAssumption DEF Inv, LedgerGood
<1>5. /\ v \in TxType /\ v.pc = p /\ v.now = clock /\ v.wq = FirstWallets(t) /\ v.kq = {}
      /\ \A k \in Keys : v.drawn[k] = 0
  BY <1>2, <1>4, IdleFields, FirstWalletsTyped DEF TxType, Pcs, Finished
<1>6. LedgerSame /\ UNCHANGED lockVars /\ tx[t].pc = "idle" /\ clock' = clock
  BY DEF Begin, LedgerSame, ledgerVars
<1>7. (\A b \in Buckets : walletLock[b] # t) /\ (\A r \in Rows : rowLock[r] # t)
  BY <1>6, NoTxApart DEF Inv, LocksGood, Finished
<1>8. t \in Consumers => p # "select"
  BY <1>1, TxsAssumption
<1>9. TxGood(t, v)'
  BY <1>4, <1>5, <1>6, <1>8, FirstWalletsTyped DEF TxGood, Secured
<1> QED BY <1>3, <1>6, <1>7, <1>9, LocksSame, QuietMove DEF lockVars

LEMMA LockWalletKeeps == ASSUME Inv, NEW t \in Txs, LockWallet(t) PROVE Inv'
<1>0. PICK x \in tx[t].wq :
         /\ walletLock[WalletOf(t, x)] \in {NoTx, t}
         /\ walletLock' = [walletLock EXCEPT ![WalletOf(t, x)] = t]
         /\ tx' = [tx EXCEPT ![t].wq = @ \ {x},
                             ![t].pc = IF tx[t].wq = {x} THEN AfterWallets(t) ELSE @]
  BY DEF LockWallet
<1>1. PICK p : p = IF tx[t].wq = {x} THEN AfterWallets(t) ELSE tx[t].pc
  OBVIOUS
<1>2. PICK v : v = [tx[t] EXCEPT !.wq = @ \ {x}, !.pc = p]
  OBVIOUS
<1>3. Moves(t, v)
  BY <1>0, <1>1, <1>2 DEF Moves
<1>4. /\ LedgerSame /\ rowLock' = rowLock /\ clock' = clock /\ wlog' = wlog /\ ents' = ents
      /\ tx[t].pc = "wallets" /\ p \in {"wallets", "select", "commit"}
      /\ (p # "wallets" => tx[t].wq = {x})
  BY <1>1 DEF LockWallet, LedgerSame, ledgerVars, AfterWallets
<1>5. /\ v \in TxType /\ v.pc = p /\ v.now = tx[t].now /\ v.wq = tx[t].wq \ {x} /\ v.kq = tx[t].kq
      /\ v.drawn = tx[t].drawn
  BY <1>2, <1>4, TxFields DEF TxType, Pcs
<1>6. LocksBy(t)
  BY <1>0, <1>4 DEF LocksBy, Inv, LocksGood
<1>7. \A k \in Keys : ~(v.drawn[k] > 0)
  BY <1>4, <1>5, TxFields DEF TxGood
<1>8. ASSUME t \in Consumers
      PROVE  /\ v.pc = "wallets" => \A b \in Covered[AppOf[t]] : b \in v.wq \/ walletLock'[b] = t
             /\ v.pc \in Secured => \A b \in Covered[AppOf[t]] : walletLock'[b] = t
  <2>1. WalletOf(t, x) = x
    BY <1>8, TxsAssumption DEF WalletOf
  <2>2. \A b \in Buckets : walletLock'[b] = IF b = x THEN t ELSE walletLock[b]
    BY <1>0, <2>1 DEF Inv, LocksGood
  <2>3. \A b \in Covered[AppOf[t]] : b \in tx[t].wq \/ walletLock[b] = t
    BY <1>4, <1>8, TxFields DEF TxGood
  <2> QED BY <1>4, <1>5, <1>8, <2>2, <2>3, AppCovers DEF Secured
<1>9. TxGood(t, v)'
  <2>1. v.now <= clock' /\ (t \in Consumers => v.kq \subseteq AllKeys(AppOf[t]))
    BY <1>4, <1>5, TxFields DEF TxGood
  <2> QED BY <1>5, <1>7, <1>8, <2>1 DEF TxGood
<1>10. v.pc \notin Finished
  BY <1>4, <1>5 DEF Finished
<1> QED BY <1>3, <1>4, <1>6, <1>9, <1>10, QuietMove

\* What a step of a transaction in the middle may change of its record.
LEMMA SameSecured ==
    ASSUME Inv, NEW t \in Txs, NEW v \in TxType, LedgerSame, UNCHANGED walletLock,
           tx[t].pc \in Secured, v.pc \in Secured, v.now = tx[t].now,
           t \in Consumers => v.kq \subseteq AllKeys(AppOf[t]),
           \A k \in Keys : v.drawn[k] > 0 => v.drawn[k] = tx[t].drawn[k] /\ v.pc = "commit"
    PROVE  TxGood(t, v)'
<1>1. clock' = clock /\ wlog' = wlog /\ ents' = ents /\ walletLock' = walletLock
  BY DEF LedgerSame, ledgerVars
<1>2. v.now <= clock'
  BY <1>1, TxFields
<1>3. t \in Consumers => \A b \in Covered[AppOf[t]] : walletLock'[b] = t
  BY <1>1, TxFields DEF TxGood
<1>4. ASSUME NEW k \in Keys, v.drawn[k] > 0
      PROVE  /\ t \in Consumers /\ v.pc = "commit" /\ k \in AllKeys(AppOf[t])
             /\ Room(k, v.now, v.drawn[k])' /\ Entitled(k, v.now)'
  <2>1. v.drawn[k] = tx[t].drawn[k] /\ v.pc = "commit"
    BY <1>4
  <2>2. /\ t \in Consumers /\ k \in AllKeys(AppOf[t])
        /\ Room(k, tx[t].now, tx[t].drawn[k]) /\ Entitled(k, tx[t].now)
    BY <1>4, <2>1, TxFields DEF TxGood
  <2>3. Room(k, v.now, v.drawn[k]) /\ Entitled(k, v.now)
    BY <2>1, <2>2
  <2> QED BY <1>1, <2>1, <2>2, <2>3 DEF Room, Entitled
<1>5. v.pc # "wallets"
  BY DEF Secured
<1> QED BY <1>2, <1>3, <1>4, <1>5 DEF TxGood

LEMMA SelectRowsKeeps == ASSUME Inv, NEW t \in Txs, SelectRows(t) PROVE Inv'
<1>1. PICK v : v = [tx[t] EXCEPT !.pc = "rows", !.rq = {r \in Rows : Wanted(t, rows[r])}]
  OBVIOUS
<1>2. Moves(t, v) /\ LedgerSame /\ UNCHANGED lockVars /\ tx[t].pc = "select"
  BY <1>1 DEF Moves, SelectRows, LedgerSame
<1>3. v \in TxType /\ v.pc = "rows" /\ v.now = tx[t].now /\ v.kq = tx[t].kq /\ v.drawn = tx[t].drawn
  BY <1>1, TxFields DEF TxType, Pcs
<1>4. \A k \in Keys : ~(v.drawn[k] > 0)
  BY <1>2, <1>3, TxFields DEF TxGood
<1>5. TxGood(t, v)'
  <2>1. t \in Consumers => v.kq \subseteq AllKeys(AppOf[t])
    BY <1>3, TxFields DEF TxGood
  <2> QED BY <1>2, <1>3, <1>4, <2>1, SameSecured DEF Secured, lockVars
<1>6. v.pc \notin Finished
  BY <1>3 DEF Finished
<1> QED BY <1>2, <1>5, <1>6, LocksSame, QuietMove

LEMMA LockRowKeeps == ASSUME Inv, NEW t \in Txs, LockRow(t) PROVE Inv'
<1>0. PICK r \in tx[t].rq :
        /\ rowLock[r] \in {NoTx, t}
        /\ rowLock' = [rowLock EXCEPT ![r] = t]
        /\ tx' = [tx EXCEPT ![t].rq = @ \ {r},
                            ![t].got = IF Wanted(t, rows[r]) THEN @ \cup {r} ELSE @]
  BY DEF LockRow
<1>1. PICK g : g = IF Wanted(t, rows[r]) THEN tx[t].got \cup {r} ELSE tx[t].got
  OBVIOUS
<1>2. PICK v : v = [tx[t] EXCEPT !.rq = @ \ {r}, !.got = g]
  OBVIOUS
<1>3. Moves(t, v) /\ LedgerSame /\ UNCHANGED walletLock /\ tx[t].pc = "rows"
  BY <1>0, <1>1, <1>2 DEF Moves, LockRow, LedgerSame
<1>4. g \in SUBSET Rows
  BY <1>1, TxFields
<1>5. v \in TxType /\ v.pc = "rows" /\ v.now = tx[t].now /\ v.kq = tx[t].kq /\ v.drawn = tx[t].drawn
  BY <1>2, <1>3, <1>4, TxFields DEF TxType, Pcs
<1>6. \A k \in Keys : ~(v.drawn[k] > 0)
  BY <1>3, <1>5, TxFields DEF TxGood
<1>7. TxGood(t, v)'
  <2>1. t \in Consumers => v.kq \subseteq AllKeys(AppOf[t])
    BY <1>5, TxFields DEF TxGood
  <2> QED BY <1>3, <1>5, <1>6, <2>1, SameSecured DEF Secured
<1>8. LocksBy(t)
  BY <1>0, <1>3 DEF LocksBy, Inv, LocksGood
<1>9. v.pc \notin Finished
  BY <1>5 DEF Finished
<1> QED BY <1>3, <1>7, <1>8, <1>9, QuietMove

LEMMA RowsLockedKeeps == ASSUME Inv, NEW t \in Txs, RowsLocked(t) PROVE Inv'
<1>1. CASE t \in Expirers /\ tx[t].got = {}
  <2>1. LedgerSame /\ Release(t) /\ tx' = EndedAs(t, "done") /\ clock' \in Nat
    BY <1>1, LedgerAssumption DEF RowsLocked, Done, LedgerSame, ledgerVars, Inv, LedgerGood
  <2>2. PICK v : /\ Moves(t, v) /\ v.pc \in Finished /\ LocksBy(t) /\ TxGood(t, v)'
                 /\ (\A b \in Buckets : walletLock'[b] # t) /\ (\A r \in Rows : rowLock'[r] # t)
    BY <2>1, Ending
  <2> QED BY <2>1, <2>2, QuietMove
<1>2. CASE ~(t \in Expirers /\ tx[t].got = {})
  <2>1. PICK w : w = IF t \in Expirers THEN tx[t].got ELSE tx[t].wq
    OBVIOUS
  <2>2. PICK kk : kk = IF t \in Consumers THEN AllKeys(AppOf[t]) ELSE tx[t].kq
    OBVIOUS
  <2>3. PICK v : v = [tx[t] EXCEPT !.pc = AfterRows(t), !.rq = {}, !.wq = w, !.kq = kk]
    OBVIOUS
  <2>4. Moves(t, v) /\ LedgerSame /\ UNCHANGED lockVars /\ tx[t].pc = "rows"
    BY <1>2, <2>1, <2>2, <2>3 DEF Moves, RowsLocked, LedgerSame
  <2>5. w \in SUBSET Nat /\ kk \in SUBSET Keys /\ AfterRows(t) \in {"windows", "wallets", "commit"}
        /\ (t \in Consumers => AfterRows(t) = "windows")
    BY <2>1, <2>2, TxFields, TxsAssumption, LedgerAssumption DEF TxType, AllKeys, AfterRows
  <2>6. v \in TxType /\ v.pc = AfterRows(t) /\ v.now = tx[t].now /\ v.kq = kk /\ v.drawn = tx[t].drawn
    BY <2>3, <2>5, TxFields DEF TxType, Pcs
  <2>7. \A k \in Keys : ~(v.drawn[k] > 0)
    BY <2>4, <2>6, TxFields DEF TxGood
  <2>8. TxGood(t, v)'
    <3>1. CASE t \in Consumers
      BY <2>2, <2>4, <2>5, <2>6, <2>7, <3>1, SameSecured DEF Secured, lockVars
    <3>2. CASE t \notin Consumers
      <4>1. v.now <= clock'
        BY <2>4, <2>6, TxFields DEF LedgerSame, ledgerVars
      <4> QED BY <2>6, <2>7, <3>2, <4>1 DEF TxGood
    <3> QED BY <3>1, <3>2
  <2>9. v.pc \notin Finished
    BY <2>5, <2>6 DEF Finished
  <2> QED BY <2>4, <2>8, <2>9, LocksSame, QuietMove
<1> QED BY <1>1, <1>2

LEMMA ReadWindowKeeps == ASSUME Inv, NEW t \in Txs, ReadWindow(t) PROVE Inv'
<1>0. PICK k \in tx[t].kq :
         tx' = [tx EXCEPT ![t].kq = @ \ {k}, ![t].avail = @ + WindowSpendable(k, tx[t].now)]
  BY DEF ReadWindow
<1>1. PICK n : n = tx[t].avail + WindowSpendable(k, tx[t].now)
  OBVIOUS
<1>2. PICK v : v = [tx[t] EXCEPT !.kq = @ \ {k}, !.avail = n]
  OBVIOUS
<1>3. Moves(t, v) /\ LedgerSame /\ UNCHANGED lockVars /\ tx[t].pc = "windows"
  BY <1>0, <1>1, <1>2 DEF Moves, ReadWindow, LedgerSame
<1>4. n \in Nat
  <2>1. WindowSpendable(k, tx[t].now) \in Nat
    BY TxFields, SpendableSound DEF Inv
  <2> QED BY <1>1, <2>1, TxFields
<1>5. v \in TxType /\ v.pc = "windows" /\ v.now = tx[t].now /\ v.kq \subseteq tx[t].kq /\ v.drawn = tx[t].drawn
  BY <1>2, <1>3, <1>4, TxFields DEF TxType, Pcs
<1>6. \A j \in Keys : ~(v.drawn[j] > 0)
  BY <1>3, <1>5, TxFields DEF TxGood
<1>7. TxGood(t, v)'
  <2>1. t \in Consumers => v.kq \subseteq AllKeys(AppOf[t])
    BY <1>5, TxFields DEF TxGood
  <2> QED BY <1>3, <1>5, <1>6, <2>1, SameSecured DEF Secured, lockVars
<1>8. v.pc \notin Finished
  BY <1>5 DEF Finished
<1> QED BY <1>3, <1>7, <1>8, LocksSame, QuietMove

LEMMA PlanConsumeKeeps == ASSUME Inv, NEW t \in Txs, PlanConsume(t) PROVE Inv'
<1>1. CASE tx[t].want > tx[t].avail + PoolAvailable(t)
  <2>1. Fail(t)
    BY <1>1 DEF PlanConsume
  <2> QED BY <2>1, FailKeeps
<1>2. CASE ~(tx[t].want > tx[t].avail + PoolAvailable(t))
  <2>1. PICK n : n = Min({tx[t].want, tx[t].avail})
    OBVIOUS
  <2>2. PICK v : v = [tx[t] EXCEPT !.pc = "commit", !.kq = AllKeys(AppOf[t]), !.left = n]
    OBVIOUS
  <2>3. Moves(t, v) /\ LedgerSame /\ UNCHANGED lockVars /\ tx[t].pc = "windows"
    BY <1>2, <2>1, <2>2 DEF Moves, PlanConsume, LedgerSame
  <2>4. tx[t].want \in Nat /\ tx[t].avail \in Nat
    BY TxFields DEF TxType
  <2>5. n \in Nat
    BY <2>1, <2>4, MinOfTwo
  <2>6. AllKeys(AppOf[t]) \in SUBSET Keys
    BY DEF AllKeys
  <2>7. /\ v \in TxType /\ v.pc = "commit" /\ v.now = tx[t].now
        /\ v.kq = AllKeys(AppOf[t]) /\ v.drawn = tx[t].drawn
    BY <2>2, <2>5, <2>6, TxFields DEF TxType, Pcs
  <2>8. \A k \in Keys : ~(v.drawn[k] > 0)
    BY <2>3, <2>7, TxFields DEF TxGood
  <2>9. TxGood(t, v)'
    BY <2>3, <2>7, <2>8, SameSecured DEF Secured, lockVars
  <2>10. v.pc \notin Finished
    BY <2>7 DEF Finished
  <2> QED BY <2>3, <2>9, <2>10, LocksSame, QuietMove
<1> QED BY <1>1, <1>2

LEMMA DrawWindowKeeps == ASSUME Inv, NEW t \in Txs, DrawWindow(t) PROVE Inv'
<1>0. PICK k \in tx[t].kq :
         tx' = [tx EXCEPT ![t].kq = @ \ {k},
                          ![t].left = @ - Min({tx[t].left, WindowSpendable(k, tx[t].now)}),
                          ![t].drawn = [@ EXCEPT ![k] = Min({tx[t].left, WindowSpendable(k, tx[t].now)})]]
  BY DEF DrawWindow
<1>1. PICK n : n = Min({tx[t].left, WindowSpendable(k, tx[t].now)})
  OBVIOUS
<1>8. PICK d : d = [tx[t].drawn EXCEPT ![k] = n]
  OBVIOUS
<1>9. PICK m : m = tx[t].left - n
  OBVIOUS
<1>2. PICK v : v = [tx[t] EXCEPT !.kq = @ \ {k}, !.left = m, !.drawn = d]
  OBVIOUS
<1>11. Moves(t, v)
  BY <1>0, <1>1, <1>2, <1>8, <1>9 DEF Moves
<1>3. Moves(t, v) /\ LedgerSame /\ UNCHANGED lockVars /\ tx[t].pc = "commit" /\ t \in Consumers
  BY <1>11 DEF DrawWindow, LedgerSame
<1>4. k \in Keys /\ k \in AllKeys(AppOf[t]) /\ tx[t].now \in 0..MaxTime /\ tx[t].left \in Nat
  BY <1>3, TxFields DEF TxGood
<1>5. WindowSpendable(k, tx[t].now) \in Nat
  BY <1>4, SpendableSound DEF Inv
<1>6. n \in Nat /\ n <= tx[t].left /\ n <= WindowSpendable(k, tx[t].now)
  BY <1>1, <1>4, <1>5, MinOfTwo
<1>7. n > 0 => Room(k, tx[t].now, n) /\ Entitled(k, tx[t].now)
  BY <1>4, <1>6, SpendableSound DEF Inv
<1>10. d \in [Keys -> Nat] /\ m \in Nat /\ d[k] = n /\ \A j \in Keys \ {k} : d[j] = tx[t].drawn[j]
  BY <1>4, <1>6, <1>8, <1>9, TxFields
<1>12. /\ v \in TxType /\ v.pc = "commit" /\ v.now = tx[t].now
       /\ v.kq \subseteq tx[t].kq /\ v.drawn = d
  BY <1>2, <1>3, <1>10, TxFields DEF TxType
<1>13. clock' = clock /\ wlog' = wlog /\ ents' = ents /\ walletLock' = walletLock
  BY <1>3 DEF LedgerSame, ledgerVars, lockVars
<1>14. ASSUME NEW j \in Keys, v.drawn[j] > 0
       PROVE  j \in AllKeys(AppOf[t]) /\ Room(j, v.now, v.drawn[j]) /\ Entitled(j, v.now)
  <2>1. CASE j = k
    BY <1>4, <1>7, <1>10, <1>12, <1>14, <2>1
  <2>2. CASE j # k
    <3>1. v.drawn[j] = tx[t].drawn[j]
      BY <1>10, <1>12, <2>2
    <3> QED BY <1>12, <1>14, <3>1, TxFields DEF TxGood
  <2> QED BY <2>1, <2>2
<1>15. TxGood(t, v)'
  <2>1. \A j \in Keys : v.drawn[j] > 0 => Room(j, v.now, v.drawn[j])' /\ Entitled(j, v.now)'
    BY <1>13, <1>14 DEF Room, Entitled
  <2>2. \A b \in Covered[AppOf[t]] : walletLock'[b] = t
    BY <1>3, <1>13, TxFields DEF TxGood, Secured
  <2>3. v.now <= clock' /\ v.kq \subseteq AllKeys(AppOf[t])
    BY <1>3, <1>12, <1>13, TxFields DEF TxGood
  <2> QED BY <1>3, <1>12, <1>14, <2>1, <2>2, <2>3 DEF TxGood
<1>16. v.pc \notin Finished
  BY <1>12 DEF Finished
<1> QED BY <1>3, <1>15, <1>16, LocksSame, QuietMove

-----------------------------------------------------------------------------
(* Rows *)

LEMMA RowFields ==
    ASSUME LedgerGood, NEW r \in Rows
    PROVE  /\ rows[r] \in Ledger!RowType /\ MaxPoints \in Nat
           /\ rows[r].granted \in 0..MaxPoints /\ rows[r].used \in Nat /\ rows[r].revoked \in Nat
           /\ rows[r].used + rows[r].revoked <= rows[r].granted
           /\ Remaining(rows[r]) = rows[r].granted - rows[r].used - rows[r].revoked
           /\ Remaining(rows[r]) \in Nat
<1>1. /\ rows[r] \in Ledger!RowType
      /\ rows[r].granted \in 0..MaxPoints /\ rows[r].used \in 0..MaxPoints /\ rows[r].revoked \in 0..MaxPoints
  BY DEF LedgerGood, Ledger!RowType
<1> QED BY <1>1, LedgerAssumption DEF LedgerGood, Remaining, Ledger!Remaining

\* LedgerUpdate::Consumption and ::Revocation within what a row has left.
LEMMA RowUpdated ==
    ASSUME LedgerGood, NEW r \in Rows, NEW n \in Nat, n <= Remaining(rows[r]), NEW w,
           w = Ledger!Consumption(rows[r], n) \/ w = Ledger!Revocation(rows[r], n)
    PROVE  w \in Ledger!RowType /\ w.used + w.revoked <= w.granted
<1>1. /\ rows[r] \in Ledger!RowType /\ MaxPoints \in Nat
      /\ rows[r].granted \in 0..MaxPoints /\ rows[r].used \in Nat /\ rows[r].revoked \in Nat
      /\ rows[r].used + rows[r].revoked + n <= rows[r].granted
  BY RowFields
<1>2. CASE w = Ledger!Consumption(rows[r], n)
  <2>1. PICK st : st = IF Ledger!Remaining(rows[r]) = n THEN "fully_used" ELSE rows[r].status
    OBVIOUS
  <2>2. PICK u : u = rows[r].used + n
    OBVIOUS
  <2>3. w = [rows[r] EXCEPT !.used = u, !.status = st]
    BY <1>2, <2>1, <2>2 DEF Ledger!Consumption
  <2>4. u \in 0..MaxPoints /\ st \in Ledger!Kept \cup {"absent"}
    BY <1>1, <2>1, <2>2 DEF Ledger!RowType, Ledger!Kept
  <2>5. /\ w \in Ledger!RowType
        /\ w.used = u /\ w.revoked = rows[r].revoked /\ w.granted = rows[r].granted
    BY <1>1, <2>3, <2>4 DEF Ledger!RowType
  <2> QED BY <1>1, <2>2, <2>5
<1>3. CASE w = Ledger!Revocation(rows[r], n)
  <2>1. PICK st : st = IF Ledger!Remaining(rows[r]) = n THEN "revoked" ELSE rows[r].status
    OBVIOUS
  <2>2. PICK u : u = rows[r].revoked + n
    OBVIOUS
  <2>3. w = [rows[r] EXCEPT !.revoked = u, !.status = st]
    BY <1>3, <2>1, <2>2 DEF Ledger!Revocation
  <2>4. u \in 0..MaxPoints /\ st \in Ledger!Kept \cup {"absent"}
    BY <1>1, <2>1, <2>2 DEF Ledger!RowType, Ledger!Kept
  <2>5. /\ w \in Ledger!RowType
        /\ w.used = rows[r].used /\ w.revoked = u /\ w.granted = rows[r].granted
    BY <1>1, <2>3, <2>4 DEF Ledger!RowType
  <2> QED BY <1>1, <2>2, <2>5
<1> QED BY <1>2, <1>3

\* proportional_refund_for_grant never exceeds what is left.
LEMMA ProportionalWithin ==
    ASSUME NEW base \in Nat, NEW left \in Nat, NEW share \in Shares
    PROVE  Ledger!Proportional(base, left, share) \in Nat /\ Ledger!Proportional(base, left, share) <= left
<1>1. PICK p \in Nat, q \in Nat \ {0} : p = share[1] /\ q = share[2]
  BY LedgerAssumption
<1>2. PICK x \in Nat : x = base * p + (q \div 2)
  BY <1>1
<1>3. x \div q \in Nat
  BY <1>1, <1>2
<1>4. Ledger!HalfUp(base, share) = x \div q
  BY <1>1, <1>2 DEF Ledger!HalfUp
<1> QED BY <1>3, <1>4 DEF Ledger!Proportional

\* plan_consume_allocation takes from a row at most what it has left.
LEMMA TakeWithin ==
    ASSUME Inv, NEW t \in Txs, NEW r \in Rows
    PROVE  Take(t)[r] \in Nat /\ Take(t)[r] <= Remaining(rows[r])
<1> DEFINE left == [s \in Rows |-> Remaining(rows[s])]
           before == {s \in tx[t].got : Ledger!Before(s, r)}
<1>1. LedgerGood
  BY DEF Inv
<1>2. \A s \in Rows : Remaining(rows[s]) \in Nat
  BY <1>1, RowFields
<1>3. before \in SUBSET Rows
  BY TxFields
<1>4. \A s \in before : left[s] \in Int
  BY <1>2, <1>3
<1> HIDE DEF left, before
<1>5. PICK a : a = SumOf(left, before)
  OBVIOUS
<1>6. IsFiniteSet(before)
  BY <1>3, FiniteAssumption, FS_Subset
<1>7. a \in Int
  BY <1>4, <1>5, <1>6, SumInt
<1>8. PICK p : p = tx[t].want - SumOf(tx[t].drawn, Keys)
  OBVIOUS
<1>9. p \in Int
  <2>1. tx[t].drawn \in [Keys -> Nat] /\ tx[t].want \in Int
    BY TxFields DEF TxType
  <2>2. \A k \in Keys : tx[t].drawn[k] \in Int
    BY <2>1
  <2>3. SumOf(tx[t].drawn, Keys) \in Int
    BY <2>2, KeysFinite, SumInt
  <2> QED BY <1>8, <2>1, <2>3
<1>10. Take(t)[r] = IF r \in tx[t].got THEN Max({0, Min({Remaining(rows[r]), p - a})}) ELSE 0
  BY <1>5, <1>8 DEF Take, left, before
<1>11. PICK n : n = Remaining(rows[r])
  OBVIOUS
<1>12. n \in Nat
  BY <1>2, <1>11
<1>13. PICK m : m = Min({n, p - a})
  OBVIOUS
<1>14. m \in Int /\ m <= n
  BY <1>7, <1>9, <1>12, <1>13, MinOfTwo
<1>15. Max({0, m}) \in Nat /\ Max({0, m}) <= n
  BY <1>12, <1>14, MaxOfTwo
<1> QED BY <1>10, <1>11, <1>12, <1>13, <1>15

-----------------------------------------------------------------------------
(* Commits *)

\* A commit of t disturbs no draw that another consume has yet to commit.
LEMMA CommitKeeps ==
    ASSUME Inv, NEW t \in Txs, Done(t), clock' = clock, ents' = ents,
           LedgerGood', WindowsGood', WindowNeverOverspent', DrawWithinEntitlement',
           \A u \in Txs \ {t}, k \in Keys : tx[u].drawn[k] > 0 => wlog'[k] = wlog[k]
    PROVE  Inv'
<1>1. Release(t) /\ tx' = EndedAs(t, "done") /\ clock' \in Nat
  BY LedgerAssumption DEF Done, Inv, LedgerGood
<1>2. PICK v : /\ Moves(t, v) /\ v.pc \in Finished /\ LocksBy(t) /\ TxGood(t, v)'
               /\ (\A b \in Buckets : walletLock'[b] # t) /\ (\A r \in Rows : rowLock'[r] # t)
  BY <1>1, Ending
<1>3. tx'[t] = v /\ DOMAIN tx' = Txs /\ \A u \in Txs \ {t} : tx'[u] = tx[u]
  BY <1>2 DEF Inv, TxsGood, Moves
<1>4. LocksGood'
  BY <1>2, LocksKept
<1>5. ASSUME NEW u \in Txs PROVE TxGood(u, tx[u])'
  <2>1. CASE u = t
    BY <1>2, <1>3, <2>1 DEF TxGood
  <2>2. CASE u # t
    <3>1. TxGood(u, tx[u]) /\ tx'[u] = tx[u]
      BY <1>3, <2>2 DEF Inv, TxsGood
    <3>2. \A b \in Buckets : walletLock[b] = u => walletLock'[b] = u
      BY <1>2, <2>2, TxsAssumption DEF LocksBy
    <3>3. u \in Consumers => Covered[AppOf[u]] \subseteq Buckets
      BY AppCovers
    <3>4. \A k \in Keys : tx[u].drawn[k] > 0 =>
             /\ Room(k, tx[u].now, tx[u].drawn[k]) => Room(k, tx[u].now, tx[u].drawn[k])'
             /\ Entitled(k, tx[u].now) => Entitled(k, tx[u].now)'
      BY <2>2, <3>1 DEF Room, Entitled
    <3> QED BY <3>1, <3>2, <3>3, <3>4 DEF TxGood
  <2> QED BY <2>1, <2>2
<1> QED BY <1>3, <1>4, <1>5 DEF Inv, TxsGood

\* The commit of a consume adds what it drew to the instant it began at.
LEMMA WindowsDrawn ==
    ASSUME Inv, NEW t \in Consumers, tx[t].pc = "commit", ents' = ents, clock' = clock,
           wlog' = [k \in Keys |-> [wlog[k] EXCEPT ![tx[t].now] = @ + tx[t].drawn[k]]]
    PROVE  WindowsGood' /\ WindowNeverOverspent' /\ DrawWithinEntitlement'
<1> PICK n : n = tx[t].now
  OBVIOUS
<1> PICK d : d = tx[t].drawn
  OBVIOUS
<1>1. t \in Txs
  BY DEF Txs
<1>2. n \in 0..MaxTime /\ n <= clock /\ d \in [Keys -> Nat] /\ wlog \in [Keys -> [0..MaxTime -> Nat]]
  BY <1>1, TxFields DEF Inv, WindowsGood
<1>3. \A k \in Keys : wlog'[k] = [wlog[k] EXCEPT ![n] = @ + d[k]]
  OBVIOUS
<1>4. \A k \in Keys : /\ wlog[k] \in [0..MaxTime -> Nat] /\ wlog'[k] \in [0..MaxTime -> Nat]
                      /\ wlog'[k][n] = wlog[k][n] + d[k]
                      /\ \A s \in (0..MaxTime) \ {n} : wlog'[k][s] = wlog[k][s]
  <2> SUFFICES ASSUME NEW k \in Keys, NEW f, f = wlog[k], NEW h, h = wlog'[k]
               PROVE  /\ f \in [0..MaxTime -> Nat] /\ h \in [0..MaxTime -> Nat]
                      /\ h[n] = f[n] + d[k]
                      /\ \A s \in (0..MaxTime) \ {n} : h[s] = f[s]
    OBVIOUS
  <2>1. f \in [0..MaxTime -> Nat] /\ h = [f EXCEPT ![n] = f[n] + d[k]] /\ d[k] \in Nat
    BY <1>2, <1>3
  <2> QED BY ONLY <1>2, <2>1
<1>5. wlog' \in [Keys -> [0..MaxTime -> Nat]]
  BY <1>4
<1>6. \A k \in Keys : d[k] > 0 => Room(k, n, d[k]) /\ Entitled(k, n)
  BY <1>1, TxFields DEF TxGood
<1>7. ASSUME NEW k \in Keys, NEW s \in 0..MaxTime, wlog'[k][s] > 0
      PROVE  wlog[k][s] > 0 \/ (s = n /\ d[k] > 0)
  <2>1. wlog[k][n] \in Nat /\ d[k] \in Nat
    BY <1>2, <1>4
  <2> QED BY <1>4, <1>7, <2>1
<1>8. WindowsGood'
  <2>1. \A k \in Keys, s \in 0..MaxTime : wlog'[k][s] > 0 => s <= clock'
    BY <1>2, <1>7 DEF Inv, WindowsGood
  <2> QED BY <1>5, <2>1 DEF Inv, WindowsGood
<1>9. DrawWithinEntitlement'
  <2> SUFFICES ASSUME NEW k \in Keys, NEW s \in 0..MaxTime, wlog'[k][s] > 0
               PROVE  Entitled(k, s)
    BY DEF DrawWithinEntitlement, Entitled, KeyOf
  <2>1. CASE wlog[k][s] > 0
    BY <2>1 DEF Inv, DrawWithinEntitlement, Entitled, KeyOf
  <2>2. CASE s = n /\ d[k] > 0
    BY <1>6, <2>2
  <2> QED BY <1>7, <2>1, <2>2
<1>10. WindowNeverOverspent'
  <2> SUFFICES ASSUME NEW e \in Entitlements, ents[e].status = "active",
                      NEW q \in Quota[e].windows, NEW s \in 0..MaxTime,
                      s > ents[e].since, s >= Quota[e].from
               PROVE  SumOf(wlog'[KeyOf(e)], {x \in s..(s + q.len) : x <= MaxTime /\ x < ents[e].until}) <= q.limit
    BY DEF WindowNeverOverspent, KeyOf
  <2> PICK k : k = KeyOf(e)
    OBVIOUS
  <2> DEFINE A == {x \in s..(s + q.len) : x <= MaxTime /\ x < ents[e].until}
             f == wlog[k]
             h == wlog'[k]
  <2>1. /\ k \in Keys /\ q.len \in Nat /\ q.limit \in Nat /\ Quota[e].from \in Nat
        /\ ents[e].until \in Nat /\ ents[e].since \in Nat
    BY QuotaAssumption DEF KeyOf, Inv, WindowsGood, EntType
  <2>2. A \in SUBSET (0..MaxTime)
    BY <2>1, LedgerAssumption
  <2>3. SumOf(f, A) <= q.limit
    BY DEF Inv, WindowNeverOverspent, KeyOf
  <2>4. IsFiniteSet(A) /\ (\A x \in A : f[x] \in Nat) /\ SumOf(f, A) \in Nat
    <3> HIDE DEF A
    <3> QED BY <2>1, <2>2, RecentSums DEF Inv
  <2>5. CASE n \notin A \/ d[k] = 0
    <3>1. \A x \in A : f[x] = h[x]
      BY <1>4, <2>1, <2>2, <2>5
    <3> HIDE DEF A, f, h
    <3>2. SumOf(f, A) = SumOf(h, A)
      BY <2>4, <3>1, SumSame
    <3> QED BY <2>3, <3>2 DEF A, f, h
  <2>6. CASE n \in A /\ d[k] # 0
    <3> DEFINE B == Recent(n, q.len)
    <3>1. d[k] \in Nat /\ d[k] > 0
      BY <1>2, <2>1, <2>6
    <3>2. Room(k, n, d[k])
      BY <1>6, <2>1, <3>1
    <3>3. ents[e].since < n /\ Quota[e].from <= n /\ n < ents[e].until
      BY <1>2, <2>1, <2>6
    <3>4. d[k] + SumOf(f, B) <= q.limit
      BY <3>2, <3>3 DEF Room
    <3>5. A \subseteq B /\ B \in SUBSET (0..MaxTime)
      BY <1>2, <2>1, <2>2, <2>6 DEF Recent
    <3> HIDE DEF A, B
    <3>6. IsFiniteSet(B) /\ (\A x \in B : f[x] \in Nat) /\ SumOf(f, B) \in Nat
      BY <2>1, <3>5, RecentSums DEF Inv
    <3> HIDE DEF f
    <3>7. SumOf(f, A) <= SumOf(f, B)
      BY <3>5, <3>6, SumSubset
    <3>8. /\ \A x \in A : f[x] \in Int
          /\ h[n] \in Int /\ h[n] = f[n] + d[k] /\ f[n] \in Nat
          /\ \A x \in A \ {n} : h[x] = f[x]
      BY <1>2, <1>4, <2>1, <2>2, <2>4, <3>1 DEF f
    <3> HIDE DEF h
    <3>9. SumOf(h, A) = SumOf(f, A) - f[n] + h[n]
      BY <2>4, <2>6, <3>8, SumUpdate
    <3>10. SumOf(h, A) <= q.limit
      BY <2>1, <2>4, <3>1, <3>4, <3>6, <3>7, <3>8, <3>9
    <3> QED BY <3>10 DEF A, h
  <2> QED BY <2>5, <2>6
<1> QED BY <1>8, <1>9, <1>10

LEMMA CommitConsumeKeeps == ASSUME Inv, NEW t \in Txs, CommitConsume(t) PROVE Inv'
<1>1. /\ t \in Consumers /\ tx[t].pc = "commit" /\ Done(t)
      /\ clock' = clock /\ ents' = ents /\ recorded' = recorded /\ recharged' = recharged
      /\ wlog' = [k \in Keys |-> [wlog[k] EXCEPT ![tx[t].now] = @ + tx[t].drawn[k]]]
      /\ rows' = [r \in Rows |-> IF Take(t)[r] = 0 THEN rows[r]
                                 ELSE Ledger!Consumption(rows[r], Take(t)[r])]
  BY DEF CommitConsume
<1>2. WindowsGood' /\ WindowNeverOverspent' /\ DrawWithinEntitlement'
  BY <1>1, WindowsDrawn
<1>3. LedgerGood'
  <2>1. ASSUME NEW r \in Rows
        PROVE  rows'[r] \in Ledger!RowType /\ rows'[r].used + rows'[r].revoked <= rows'[r].granted
    <3>1. PICK n : n = Take(t)[r]
      OBVIOUS
    <3>2. n \in Nat /\ n <= Remaining(rows[r])
      BY <3>1, TakeWithin
    <3>3. PICK w : w = Ledger!Consumption(rows[r], n)
      OBVIOUS
    <3>4. w \in Ledger!RowType /\ w.used + w.revoked <= w.granted
      BY <3>2, <3>3, RowUpdated DEF Inv
    <3>5. rows'[r] = IF n = 0 THEN rows[r] ELSE w
      BY <1>1, <3>1, <3>3
    <3> QED BY <3>4, <3>5 DEF Inv, LedgerGood
  <2>2. rows' \in [Rows -> Ledger!RowType]
    BY <1>1, <2>1
  <2>3. wallets' \in [Buckets -> Ledger!WalletStatus]
    BY DEF CommitConsume, Inv, LedgerGood, Ledger!Ensured, Ledger!WalletStatus
  <2>4. DOMAIN recharged' = Buckets /\ DOMAIN consumed' = Buckets
    BY DEF CommitConsume, Inv, LedgerGood
  <2> QED BY <1>1, <2>1, <2>2, <2>3, <2>4 DEF Inv, LedgerGood
<1>4. ASSUME NEW u \in Txs \ {t}, NEW k \in Keys, tx[u].drawn[k] > 0
      PROVE  wlog'[k] = wlog[k]
  <2>1. u \in Consumers /\ tx[u].pc = "commit" /\ k[1] \in Covered[AppOf[u]]
    BY <1>4, TxFields DEF TxGood, AllKeys
  <2>2. walletLock[k[1]] = u
    BY <2>1, TxFields DEF TxGood, Secured
  <2>3. ~(tx[t].drawn[k] > 0)
    <3>1. tx[t].drawn[k] > 0 => k[1] \in Covered[AppOf[t]]
      BY TxFields DEF TxGood, AllKeys
    <3>2. \A b \in Covered[AppOf[t]] : walletLock[b] = t
      BY <1>1, TxFields DEF TxGood, Secured
    <3> QED BY <2>2, <3>1, <3>2
  <2>4. tx[t].drawn[k] \in Nat /\ tx[t].now \in 0..MaxTime
    BY TxFields
  <2>5. PICK f : f = wlog[k]
    OBVIOUS
  <2>6. f \in [0..MaxTime -> Nat]
    BY <2>5 DEF Inv, WindowsGood
  <2>7. wlog'[k] = [f EXCEPT ![tx[t].now] = f[tx[t].now] + 0]
    BY <1>1, <2>3, <2>4, <2>5
  <2>8. f[tx[t].now] + 0 = f[tx[t].now]
    BY <2>4, <2>6
  <2>9. wlog'[k] = f
    BY ONLY <2>4, <2>6, <2>7, <2>8
  <2> QED BY <2>5, <2>9
<1> QED BY <1>1, <1>2, <1>3, <1>4, CommitKeeps

\* A commit that writes nothing of the windows.
LEMMA LedgerCommit ==
    ASSUME Inv, NEW t \in Txs, Done(t), UNCHANGED <<wlog, clock, ents>>, LedgerGood'
    PROVE  Inv'
<1>1. wlog' = wlog /\ clock' = clock /\ ents' = ents
  OBVIOUS
<1>2. WindowsGood' /\ WindowNeverOverspent' /\ DrawWithinEntitlement'
  BY <1>1 DEF Inv, WindowsGood, WindowNeverOverspent, DrawWithinEntitlement
<1> QED BY <1>1, <1>2, CommitKeeps

LEMMA CommitGrantKeeps == ASSUME Inv, NEW t \in Txs, CommitGrant(t) PROVE Inv'
<1> DEFINE rules == {GrantPlan[t][i] : i \in DOMAIN GrantPlan[t]}
           S == {g.row : g \in rules}
           rule(r) == CHOOSE g \in rules : g.row = r
           new == [r \in S |-> [bucket |-> rule(r).bucket, ctype |-> rule(r).ctype, source |-> rule(r).source,
                                granted |-> rule(r).amount, used |-> 0, revoked |-> 0,
                                effective |-> rule(r).effective, expires |-> rule(r).expires,
                                status |-> "active"]]
<1>1. /\ t \in Granters /\ Done(t) /\ UNCHANGED <<consumed, recorded, wlog, clock, ents>>
      /\ rows' = [r \in Rows |-> IF r \in S THEN new[r] ELSE rows[r]]
  BY DEF CommitGrant
<1>2. ASSUME NEW r \in S
      PROVE  new[r] \in Ledger!RowType /\ new[r].used + new[r].revoked <= new[r].granted
  <2>1. PICK g : g = rule(r)
    OBVIOUS
  <2>2. g \in rules
    BY <1>2, <2>1
  <2>3. PICK i \in DOMAIN GrantPlan[t] : g = GrantPlan[t][i]
    BY <2>2
  <2>4. g \in [row : Rows, bucket : Buckets, ctype : CreditTypes, source : Sources,
              amount : GrantSizes, effective : 0..MaxTime, expires : 1..(MaxTime + 1)]
    BY <1>1, <2>3, PlansAssumption
  <2>5. g.amount \in 0..MaxPoints /\ 0 \in 0..MaxPoints /\ 0 + 0 <= g.amount
    <3>1. g.amount \in GrantSizes
      BY ONLY <2>4
    <3>2. g.amount \in 1..MaxPoints /\ MaxPoints \in Nat
      BY <3>1, LedgerAssumption
    <3> QED BY ONLY <3>2
  <2>6. PICK w : w = [bucket |-> g.bucket, ctype |-> g.ctype, source |-> g.source,
                      granted |-> g.amount, used |-> 0, revoked |-> 0,
                      effective |-> g.effective, expires |-> g.expires, status |-> "active"]
    OBVIOUS
  <2>7. new[r] = w
    BY <2>1, <2>6
  <2>8. w \in Ledger!RowType
    BY <2>4, <2>5, <2>6 DEF Ledger!RowType, Ledger!Kept, Ledger!Time, Ledger!Never
  <2>9. w.used + w.revoked <= w.granted
    BY <2>5, <2>6
  <2> QED BY <2>7, <2>8, <2>9
<1> HIDE DEF new, S
<1>3. \A r \in Rows : rows'[r] \in Ledger!RowType /\ rows'[r].used + rows'[r].revoked <= rows'[r].granted
  BY <1>1, <1>2 DEF Inv, LedgerGood
<1>4. rows' \in [Rows -> Ledger!RowType]
  BY <1>1, <1>3
<1>5. wallets' \in [Buckets -> Ledger!WalletStatus]
  BY DEF CommitGrant, Inv, LedgerGood, Ledger!Ensured, Ledger!WalletStatus
<1>6. DOMAIN recharged' = Buckets /\ DOMAIN consumed' = Buckets
  BY DEF CommitGrant, Inv, LedgerGood
<1>7. LedgerGood'
  BY <1>1, <1>3, <1>4, <1>5, <1>6 DEF Inv, LedgerGood
<1> QED BY <1>1, <1>7, LedgerCommit

LEMMA CommitLossKeeps == ASSUME Inv, NEW t \in Txs, CommitLoss(t) PROVE Inv'
<1>1. /\ t \in Revokers \cup Refunders \cup Expirers /\ Done(t)
      /\ UNCHANGED <<wallets, recharged, consumed, wlog, clock, ents>>
      /\ rows' = [r \in Rows |-> IF r \in tx[t].got THEN Struck(t, r) ELSE rows[r]]
      /\ recorded' = [r \in Rows |-> recorded[r] + (IF r \in tx[t].got THEN Loss(t, r) ELSE 0)]
  BY DEF CommitLoss
<1>2. LedgerGood
  BY DEF Inv
<1>3. ASSUME NEW r \in Rows PROVE Loss(t, r) \in Nat /\ Loss(t, r) <= Remaining(rows[r])
  <2>1. rows[r].granted \in Nat /\ Remaining(rows[r]) \in Nat
    BY <1>2, RowFields
  <2>2. CASE t \in Refunders
    <3>1. RefundPlan[t].share \in Shares
      BY <2>2, PlansAssumption
    <3> QED BY <2>1, <2>2, <3>1, ProportionalWithin DEF Loss
  <2>3. CASE t \notin Refunders
    BY <2>1, <2>3 DEF Loss
  <2> QED BY <2>2, <2>3
<1>4. ASSUME NEW r \in Rows
      PROVE  Struck(t, r) \in Ledger!RowType /\ Struck(t, r).used + Struck(t, r).revoked <= Struck(t, r).granted
  <2>1. /\ rows[r] \in Ledger!RowType
        /\ rows[r].used + rows[r].revoked <= rows[r].granted
    BY <1>2, RowFields
  <2>2. CASE t \in Expirers
    <3>1. PICK w : w = [rows[r] EXCEPT !.status = "expired"]
      OBVIOUS
    <3>2. /\ w \in Ledger!RowType /\ w.used = rows[r].used /\ w.revoked = rows[r].revoked
          /\ w.granted = rows[r].granted
      BY <2>1, <3>1 DEF Ledger!RowType, Ledger!Kept
    <3>3. Struck(t, r) = w
      BY <2>2, <3>1 DEF Struck
    <3> QED BY <2>1, <3>2, <3>3
  <2>3. CASE t \notin Expirers
    <3>1. PICK n : n = Loss(t, r)
      OBVIOUS
    <3>2. PICK w : w = Ledger!Revocation(rows[r], n)
      OBVIOUS
    <3>3. w \in Ledger!RowType /\ w.used + w.revoked <= w.granted
      BY <1>2, <1>3, <3>1, <3>2, RowUpdated
    <3>4. Struck(t, r) = IF n = 0 THEN rows[r] ELSE w
      BY <2>3, <3>1, <3>2 DEF Struck
    <3> QED BY <2>1, <3>3, <3>4
  <2> QED BY <2>2, <2>3
<1>5. \A r \in Rows : rows'[r] \in Ledger!RowType /\ rows'[r].used + rows'[r].revoked <= rows'[r].granted
  BY <1>1, <1>2, <1>4 DEF LedgerGood
<1>6. rows' \in [Rows -> Ledger!RowType]
  BY <1>1, <1>5
<1>7. recorded' \in [Rows -> Nat]
  BY <1>1, <1>2, <1>3 DEF LedgerGood
<1>8. LedgerGood'
  BY <1>1, <1>2, <1>5, <1>6, <1>7 DEF LedgerGood
<1> QED BY <1>1, <1>8, LedgerCommit

LEMMA RevokeNothingKeeps == ASSUME Inv, NEW t \in Txs, RevokeNothing(t) PROVE Inv'
<1>1. Done(t) /\ UNCHANGED <<wlog, clock, ents>> /\ UNCHANGED ledgerVars
  BY DEF RevokeNothing, ledgerVars
<1>2. LedgerGood'
  BY <1>1 DEF ledgerVars, Inv, LedgerGood
<1> QED BY <1>1, <1>2, LedgerCommit

-----------------------------------------------------------------------------
(* Single statements and the clock *)

\* A transaction stays good when only entitlements or the clock change and its
\* draws keep their entitlement and their room.
LEMMA OthersKeep ==
    ASSUME Inv, UNCHANGED <<walletLock, tx>>, clock' \in Nat, clock <= clock',
           \A t \in Txs, k \in Keys : tx[t].drawn[k] > 0 =>
             /\ Room(k, tx[t].now, tx[t].drawn[k]) => Room(k, tx[t].now, tx[t].drawn[k])'
             /\ Entitled(k, tx[t].now) => Entitled(k, tx[t].now)'
    PROVE  TxsGood'
<1>1. DOMAIN tx' = Txs
  BY DEF Inv, TxsGood
<1>2. ASSUME NEW t \in Txs PROVE TxGood(t, tx[t])'
  <2>1. TxGood(t, tx[t]) /\ tx'[t] = tx[t] /\ walletLock' = walletLock
    BY DEF Inv, TxsGood
  <2>2. tx[t].now \in Nat /\ clock \in Nat /\ tx[t].now <= clock
    BY TxFields, LedgerAssumption DEF Inv, LedgerGood
  <2>3. tx[t].now <= clock'
    BY <2>2
  <2> QED BY <2>1, <2>3 DEF TxGood
<1> QED BY <1>1, <1>2 DEF TxsGood

\* A single-statement write of the entitlement e: its grant is as late as any
\* instant read so far, and every later write keeps the instants it covered.
LEMMA EntitlementWritten ==
    ASSUME Inv, NEW e \in Entitlements, NEW w \in EntType, ents' = [ents EXCEPT ![e] = w],
           UNCHANGED <<ledgerVars, lockVars, tx>>, w.since <= clock,
           w.status = "active" => w.since = clock,
           ents[e].status # "absent" => w.status # "absent" /\ (w.until = ents[e].until \/ w.until = clock)
    PROVE  Inv'
<1>1. /\ rows' = rows /\ wallets' = wallets /\ recharged' = recharged /\ consumed' = consumed
      /\ recorded' = recorded /\ wlog' = wlog /\ clock' = clock
      /\ walletLock' = walletLock /\ rowLock' = rowLock /\ tx' = tx
  BY DEF ledgerVars, lockVars
<1>2. clock \in 0..MaxTime /\ clock \in Nat /\ ents \in [Entitlements -> EntType]
  BY LedgerAssumption DEF Inv, LedgerGood, WindowsGood
<1>3. ents'[e] = w /\ \A f \in Entitlements \ {e} : ents'[f] = ents[f]
  BY <1>2
<1>4. LedgerGood' /\ LocksGood'
  BY <1>1 DEF Inv, LedgerGood, LocksGood
<1>5. WindowsGood'
  <2>1. ents' \in [Entitlements -> EntType]
    BY <1>2
  <2>2. \A f \in Entitlements : ents'[f].since <= clock'
    BY <1>1, <1>3 DEF Inv, WindowsGood
  <2> QED BY <1>1, <2>1, <2>2 DEF Inv, WindowsGood
<1>6. ASSUME NEW k \in Keys, NEW s \in 0..MaxTime, s <= clock, Entitled(k, s) PROVE Entitled(k, s)'
  <2>1. PICK f \in Entitlements : /\ KeyOf(f) = k
                                  /\ ents[f].status # "absent"
                                  /\ Quota[f].from <= s /\ s <= ents[f].until
    BY <1>6 DEF Entitled
  <2>2. ents'[f].status # "absent" /\ s <= ents'[f].until
    <3>1. CASE f = e
      BY <1>3, <1>6, <2>1, <3>1
    <3>2. CASE f # e
      BY <1>3, <2>1, <3>2
    <3> QED BY <3>1, <3>2
  <2>3. KeyOf(f)' = k
    BY <2>1 DEF KeyOf
  <2> QED BY <2>1, <2>2, <2>3 DEF Entitled
<1>7. ASSUME NEW k \in Keys, NEW s \in 0..MaxTime, s <= clock, NEW n, Room(k, s, n) PROVE Room(k, s, n)'
  <2> SUFFICES ASSUME NEW f \in Entitlements, KeyOf(f) = k, ents'[f].status = "active", ents'[f].since < s,
                      Quota[f].from <= s, s < ents'[f].until, NEW q \in Quota[f].windows
               PROVE  n + SumOf(wlog[k], Recent(s, q.len)) <= q.limit
    BY <1>1 DEF Room, KeyOf, Recent
  <2>1. f # e
    BY <1>2, <1>3, <1>7
  <2>2. ents'[f] = ents[f]
    BY <1>3, <2>1
  <2> QED BY <1>7, <2>2 DEF Room
<1>8. TxsGood'
  <2>1. ASSUME NEW t \in Txs, NEW k \in Keys
        PROVE  /\ Room(k, tx[t].now, tx[t].drawn[k]) => Room(k, tx[t].now, tx[t].drawn[k])'
               /\ Entitled(k, tx[t].now) => Entitled(k, tx[t].now)'
    <3>1. PICK s : s = tx[t].now
      OBVIOUS
    <3>2. PICK n : n = tx[t].drawn[k]
      OBVIOUS
    <3>3. s \in 0..MaxTime /\ s <= clock
      BY <3>1, TxFields
    <3>4. (Room(k, s, n) => Room(k, s, n)') /\ (Entitled(k, s) => Entitled(k, s)')
      BY <1>6, <1>7, <3>3
    <3>5. tx'[t] = tx[t]
      BY <1>1
    <3> QED BY <3>1, <3>2, <3>4, <3>5 DEF Room, Entitled
  <2>2. clock' \in Nat /\ clock <= clock'
    BY <1>1, <1>2
  <2> QED BY <1>1, <2>1, <2>2, OthersKeep
<1>9. DrawWithinEntitlement'
  <2> SUFFICES ASSUME NEW k \in Keys, NEW s \in 0..MaxTime, wlog[k][s] > 0
               PROVE  Entitled(k, s)'
    BY <1>1 DEF DrawWithinEntitlement, Entitled, KeyOf
  <2>1. s <= clock
    BY DEF Inv, WindowsGood
  <2>2. Entitled(k, s)
    BY DEF Inv, DrawWithinEntitlement, Entitled, KeyOf
  <2> QED BY <1>6, <2>1, <2>2
<1>10. WindowNeverOverspent'
  <2> SUFFICES ASSUME NEW f \in Entitlements, ents'[f].status = "active",
                      NEW q \in Quota[f].windows, NEW s \in 0..MaxTime,
                      s > ents'[f].since, s >= Quota[f].from
               PROVE  SumOf(wlog[KeyOf(f)], {x \in s..(s + q.len) : x <= MaxTime /\ x < ents'[f].until}) <= q.limit
    BY <1>1 DEF WindowNeverOverspent, KeyOf
  <2>1. CASE f = e
    <3> PICK k : k = KeyOf(e)
      OBVIOUS
    <3> PICK A : A = {x \in s..(s + q.len) : x <= MaxTime /\ x < ents'[e].until}
      OBVIOUS
    <3>1. k \in Keys /\ q.len \in Nat /\ q.limit \in Nat
      BY <2>1, QuotaAssumption DEF KeyOf
    <3>2. w.since = clock /\ s > clock
      BY <1>3, <2>1
    <3>3. A \in SUBSET (0..MaxTime) /\ \A x \in A : x > clock
      BY <1>2, <3>1, <3>2, LedgerAssumption
    <3>4. \A x \in A : wlog[k][x] = 0
      <4> TAKE x \in A
      <4>1. wlog[k][x] \in Nat /\ x \in 0..MaxTime /\ x > clock
        BY <3>1, <3>3 DEF Inv, WindowsGood
      <4>2. ~(wlog[k][x] > 0)
        BY <1>2, <3>1, <4>1 DEF Inv, WindowsGood
      <4> QED BY <4>1, <4>2
    <3>5. IsFiniteSet(A)
      BY <3>1, <3>3, RecentSums DEF Inv
    <3>6. SumOf(wlog[k], A) = 0
      BY <3>4, <3>5, SumZero
    <3> QED BY <2>1, <3>1, <3>6
  <2>2. CASE f # e
    <3>1. ents'[f] = ents[f]
      BY <1>3, <2>2
    <3> QED BY <3>1 DEF Inv, WindowNeverOverspent, KeyOf
  <2> QED BY <2>1, <2>2
<1> QED BY <1>4, <1>5, <1>8, <1>9, <1>10 DEF Inv

LEMMA EntitlementKeeps ==
    ASSUME Inv, NEW e \in Entitlements, GrantEntitlement(e) \/ RevokeEntitlement(e) \/ ExpireEntitlement(e)
    PROVE  Inv'
<1>1. clock \in Nat /\ ents \in [Entitlements -> EntType] /\ ents[e] \in EntType /\ ents[e].since <= clock
  BY LedgerAssumption DEF Inv, LedgerGood, WindowsGood
<1>2. CASE GrantEntitlement(e)
  <2>1. PICK w : w = [ents[e] EXCEPT !.status = "active", !.since = clock]
    OBVIOUS
  <2>2. w \in EntType /\ w.since = clock
    BY <1>1, <2>1 DEF EntType
  <2>3. ents' = [ents EXCEPT ![e] = w] /\ ents[e].status = "absent" /\ UNCHANGED <<ledgerVars, lockVars, tx>>
    BY <1>2, <2>1 DEF GrantEntitlement
  <2>4. w.since <= clock
    BY <1>1, <2>2
  <2> QED BY <2>2, <2>3, <2>4, EntitlementWritten
<1>3. CASE RevokeEntitlement(e)
  <2>1. PICK w : w = [ents[e] EXCEPT !.status = "revoked", !.until = clock]
    OBVIOUS
  <2>2. w \in EntType /\ w.since = ents[e].since /\ w.status = "revoked" /\ w.until = clock
    BY <1>1, <2>1 DEF EntType
  <2>3. ents' = [ents EXCEPT ![e] = w] /\ UNCHANGED <<ledgerVars, lockVars, tx>>
    BY <1>3, <2>1 DEF RevokeEntitlement
  <2> QED BY <1>1, <2>2, <2>3, EntitlementWritten
<1>4. CASE ExpireEntitlement(e)
  <2>1. PICK w : w = [ents[e] EXCEPT !.status = "expired"]
    OBVIOUS
  <2>2. w \in EntType /\ w.since = ents[e].since /\ w.status = "expired" /\ w.until = ents[e].until
    BY <1>1, <2>1 DEF EntType
  <2>3. ents' = [ents EXCEPT ![e] = w] /\ UNCHANGED <<ledgerVars, lockVars, tx>>
    BY <1>4, <2>1 DEF ExpireEntitlement
  <2> QED BY <1>1, <2>2, <2>3, EntitlementWritten
<1> QED BY <1>2, <1>3, <1>4

LEMMA StatusKeeps ==
    ASSUME Inv, NEW b \in Buckets, NEW st \in {"active", "frozen"}, UpdateWalletStatus(b, st)
    PROVE  Inv'
<1>1. /\ rows' = rows /\ recharged' = recharged /\ consumed' = consumed /\ recorded' = recorded
      /\ wlog' = wlog /\ clock' = clock /\ ents' = ents
      /\ walletLock' = walletLock /\ rowLock' = rowLock /\ tx' = tx
  BY DEF UpdateWalletStatus, lockVars
<1>2. wallets' \in [Buckets -> Ledger!WalletStatus]
  BY DEF UpdateWalletStatus, Inv, LedgerGood, Ledger!WalletStatus
<1>3. LedgerGood' /\ LocksGood' /\ WindowsGood' /\ WindowNeverOverspent' /\ DrawWithinEntitlement'
  BY <1>1, <1>2 DEF Inv, LedgerGood, LocksGood, WindowsGood, WindowNeverOverspent, DrawWithinEntitlement
<1>4. clock' \in Nat /\ clock <= clock'
  BY <1>1, LedgerAssumption DEF Inv, LedgerGood
<1>5. TxsGood'
  BY <1>1, <1>4, OthersKeep DEF Room, Entitled
<1> QED BY <1>3, <1>5 DEF Inv

LEMMA TickKeeps == ASSUME Inv, Tick PROVE Inv'
<1>1. /\ rows' = rows /\ wallets' = wallets /\ recharged' = recharged /\ consumed' = consumed
      /\ recorded' = recorded /\ wlog' = wlog /\ ents' = ents
      /\ walletLock' = walletLock /\ rowLock' = rowLock /\ tx' = tx
      /\ clock' = clock + 1 /\ clock < MaxTime
  BY DEF Tick, lockVars
<1>2. clock \in Nat /\ clock' \in 0..MaxTime /\ clock <= clock' /\ clock' \in Nat
  BY <1>1, LedgerAssumption DEF Inv, LedgerGood
<1>3. LedgerGood' /\ LocksGood' /\ WindowNeverOverspent' /\ DrawWithinEntitlement'
  BY <1>1, <1>2 DEF Inv, LedgerGood, LocksGood, WindowNeverOverspent, DrawWithinEntitlement
<1>4. WindowsGood'
  <2>1. ASSUME NEW k \in Keys, NEW s \in 0..MaxTime, wlog[k][s] > 0 PROVE s <= clock'
    <3>1. s <= clock /\ s \in Nat
      BY <2>1 DEF Inv, WindowsGood
    <3> QED BY <1>2, <3>1
  <2>2. ASSUME NEW e \in Entitlements PROVE ents[e].since <= clock'
    <3>1. ents[e].since <= clock /\ ents[e].since \in Nat
      BY DEF Inv, WindowsGood, EntType
    <3> QED BY <1>2, <3>1
  <2> QED BY <1>1, <2>1, <2>2 DEF Inv, WindowsGood
<1>5. TxsGood'
  BY <1>1, <1>2, OthersKeep DEF Room, Entitled
<1> QED BY <1>3, <1>4, <1>5 DEF Inv

-----------------------------------------------------------------------------
(* The specification *)

LEMMA InvInit == Init => Inv
<1> SUFFICES ASSUME Init PROVE Inv
  OBVIOUS
<1>1. LedgerGood
  <2>1. Ledger!Blank \in Ledger!RowType /\ Ledger!Blank.used + Ledger!Blank.revoked <= Ledger!Blank.granted
    <3>1. 0 \in 0..MaxPoints /\ 0 \in 0..MaxTime /\ (MaxTime + 1) \in 1..(MaxTime + 1)
      BY LedgerAssumption
    <3>2. PICK w : w = Ledger!Blank
      OBVIOUS
    <3>3. /\ w \in Ledger!RowType /\ w.used = 0 /\ w.revoked = 0 /\ w.granted = 0
      BY <3>1, <3>2, LedgerAssumption DEF Ledger!Blank, Ledger!RowType, Ledger!Kept, Ledger!Time, Ledger!Never
    <3> QED BY <3>2, <3>3
  <2>2. /\ rows = [r \in Rows |-> Ledger!Blank]
        /\ wallets = [b \in Buckets |-> "none"]
        /\ recharged = [b \in Buckets |-> 0] /\ consumed = [b \in Buckets |-> 0]
        /\ recorded = [r \in Rows |-> 0] /\ clock = 0
    BY DEF Init, Ledger!Init
  <2>3. rows \in [Rows -> Ledger!RowType]
    BY <2>1, <2>2
  <2>4. \A r \in Rows : rows[r].used + rows[r].revoked <= rows[r].granted
    BY <2>1, <2>2
  <2>5. wallets \in [Buckets -> Ledger!WalletStatus]
    BY <2>2 DEF Ledger!WalletStatus
  <2>6. clock \in 0..MaxTime
    BY <2>2, LedgerAssumption
  <2> QED BY <2>2, <2>3, <2>4, <2>5, <2>6 DEF LedgerGood
<1>2. /\ wlog = [k \in Keys |-> [s \in 0..MaxTime |-> 0]]
      /\ ents = [e \in Entitlements |-> [status |-> "absent", until |-> Quota[e].until, since |-> 0]]
      /\ clock = 0
  BY DEF Init, Ledger!Init
<1>3. WindowsGood
  <2>1. wlog \in [Keys -> [0..MaxTime -> Nat]] /\ \A k \in Keys, s \in 0..MaxTime : ~(wlog[k][s] > 0)
    BY <1>2
  <2>2. \A e \in Entitlements : ents[e] \in EntType /\ ents[e].since = 0 /\ ents[e].status = "absent"
    BY <1>2, QuotaAssumption DEF EntType
  <2>3. ents \in [Entitlements -> EntType]
    BY <1>2, <2>2
  <2> QED BY <1>2, <2>1, <2>2, <2>3 DEF WindowsGood
<1>4. LocksGood
  BY DEF Init, LocksGood
<1>5. TxsGood
  <2>1. tx = [t \in Txs |-> IdleTx]
    BY DEF Init
  <2>2. IdleTx \in TxType /\ IdleTx.pc = "idle" /\ IdleTx.now = 0 /\ IdleTx.kq = {} /\ \A k \in Keys : ~(IdleTx.drawn[k] > 0)
    BY IdleFields DEF IdleTx
  <2>3. ASSUME NEW t \in Txs PROVE TxGood(t, IdleTx)
    BY <1>2, <2>2 DEF TxGood, Secured
  <2> QED BY <2>1, <2>3 DEF TxsGood
<1>6. WindowNeverOverspent /\ DrawWithinEntitlement
  BY <1>2 DEF WindowNeverOverspent, DrawWithinEntitlement
<1> QED BY <1>1, <1>3, <1>4, <1>5, <1>6 DEF Inv

LEMMA InvStep == Inv /\ [Next]_vars => Inv'
<1> SUFFICES ASSUME Inv, [Next]_vars PROVE Inv'
  OBVIOUS
<1>1. CASE UNCHANGED vars
  <2>1. /\ rows' = rows /\ wallets' = wallets /\ recharged' = recharged /\ consumed' = consumed
        /\ recorded' = recorded /\ wlog' = wlog /\ clock' = clock /\ ents' = ents
        /\ walletLock' = walletLock /\ rowLock' = rowLock /\ tx' = tx
    BY <1>1 DEF vars
  <2>2. LedgerGood' /\ LocksGood' /\ WindowsGood' /\ WindowNeverOverspent' /\ DrawWithinEntitlement'
    BY <2>1 DEF Inv, LedgerGood, LocksGood, WindowsGood, WindowNeverOverspent, DrawWithinEntitlement
  <2>3. clock' \in Nat /\ clock <= clock'
    BY <2>1, LedgerAssumption DEF Inv, LedgerGood
  <2>4. TxsGood'
    BY <2>1, <2>3, OthersKeep DEF Room, Entitled
  <2> QED BY <2>2, <2>4 DEF Inv
<1>2. ASSUME NEW t \in Txs, Begin(t) PROVE Inv'
  BY <1>2, BeginKeeps
<1>3. ASSUME NEW t \in Txs, Lock(t) PROVE Inv'
  <2>1. RefuseWallet(t) => Fail(t)
    BY DEF RefuseWallet
  <2> QED BY <1>3, <2>1, LockWalletKeeps, LockRowKeeps, FailKeeps DEF Lock
<1>4. ASSUME NEW t \in Txs, Step(t) PROVE Inv'
  <2>1. (WindowDrift(t) => Fail(t)) /\ (DeadlockVictim(t) => Fail(t))
    BY DEF WindowDrift, DeadlockVictim
  <2>2. CASE RevokeNothing(t) \/ SelectRows(t) \/ RowsLocked(t) \/ ReadWindow(t)
    BY <2>2, RevokeNothingKeeps, SelectRowsKeeps, RowsLockedKeeps, ReadWindowKeeps
  <2>3. CASE PlanConsume(t) \/ DrawWindow(t) \/ WindowDrift(t) \/ DeadlockVictim(t)
    BY <2>1, <2>3, PlanConsumeKeeps, DrawWindowKeeps, FailKeeps
  <2>4. CASE CommitConsume(t) \/ CommitGrant(t) \/ CommitLoss(t)
    BY <2>4, CommitConsumeKeeps, CommitGrantKeeps, CommitLossKeeps
  <2> QED BY <1>4, <2>2, <2>3, <2>4 DEF Step
<1>5. ASSUME NEW e \in Entitlements, GrantEntitlement(e) \/ RevokeEntitlement(e) \/ ExpireEntitlement(e)
      PROVE  Inv'
  BY <1>5, EntitlementKeeps
<1>6. ASSUME NEW b \in Buckets, NEW st \in {"active", "frozen"}, UpdateWalletStatus(b, st) PROVE Inv'
  BY <1>6, StatusKeeps
<1>7. CASE Tick
  BY <1>7, TickKeeps
<1> QED BY <1>1, <1>2, <1>3, <1>4, <1>5, <1>6, <1>7 DEF Next

\* The points the ledger counts as drawn from windows are natural numbers.
LEMMA DrawnNat ==
    ASSUME WindowsGood, NEW b \in Buckets
    PROVE  SumOf([k \in Keys |-> SumOf(wlog[k], 0..MaxTime)], {k \in Keys : k[1] = b}) \in Nat
<1> DEFINE f == [k \in Keys |-> SumOf(wlog[k], 0..MaxTime)]
           A == {k \in Keys : k[1] = b}
<1>1. A \in SUBSET Keys
  OBVIOUS
<1>2. \A k \in A : f[k] \in Nat
  <2> TAKE k \in A
  <2>1. SumOf(wlog[k], 0..MaxTime) \in Nat
    BY <1>1, RecentSums
  <2> QED BY <2>1
<1> HIDE DEF f, A
<1>3. IsFiniteSet(A)
  BY <1>1, KeysFinite, FS_Subset
<1>4. SumOf(f, A) \in Nat
  BY <1>2, <1>3, SumNat
<1> QED BY <1>4 DEF f, A

LEMMA InvTyped == Inv => TypeOK
<1> SUFFICES ASSUME Inv PROVE TypeOK
  OBVIOUS
<1>1. Ledger!TypeOK
  <2>1. \A b \in Buckets : SumOf([k \in Keys |-> SumOf(wlog[k], 0..MaxTime)], {k \in Keys : k[1] = b}) \in Nat
    BY DrawnNat DEF Inv
  <2>2. [b \in Buckets |-> SumOf([k \in Keys |-> SumOf(wlog[k], 0..MaxTime)], {k \in Keys : k[1] = b})]
          \in [Buckets -> Nat]
    BY <2>1
  <2> QED BY <2>2 DEF Inv, LedgerGood, Ledger!TypeOK, Ledger!Time
<1>2. /\ wlog \in [Keys -> [0..MaxTime -> Nat]]
      /\ \A e \in Entitlements : ents[e].status \in {"absent", "active", "revoked", "expired"}
  BY DEF Inv, WindowsGood, EntType
<1>3. \A t \in Txs : tx[t].left >= 0 /\ tx[t].got \subseteq Rows
  <2> TAKE t \in Txs
  <2>1. tx[t].left \in Nat /\ tx[t].got \subseteq Rows
    BY TxFields
  <2> QED BY <2>1
<1> QED BY <1>1, <1>2, <1>3 DEF Inv, LocksGood, TypeOK

\* The inductive invariant: the ledger and the windows are well formed, locks are
\* held by transactions under way, and every draw not yet committed is covered by
\* an entitlement and has room in every window it must heed.
THEOREM TxInvariant == Spec => []Inv
BY InvInit, InvStep, PTL DEF Spec

\* Whatever transactions interleave, every variable keeps its domain and no path
\* of PostgresPointsRepository, failed and aborted ones included, ends with a
\* wallet or ledger row still locked.
THEOREM TxTyped == Spec => []TypeOK
BY TxInvariant, InvTyped, PTL

\* No interleaving of consumes, however long they waited for their locks with the
\* instant they began at, overspends a sliding window.
THEOREM WindowsRespected == Spec => []WindowNeverOverspent
<1>1. Inv => WindowNeverOverspent
  BY DEF Inv
<1> QED BY <1>1, TxInvariant, PTL

\* Window points are only drawn on an entitlement that covers the instant the
\* consume began, even when it is revoked or swept under the running consume.
THEOREM DrawsEntitled == Spec => []DrawWithinEntitlement
<1>1. Inv => DrawWithinEntitlement
  BY DEF Inv
<1> QED BY <1>1, TxInvariant, PTL

-----------------------------------------------------------------------------
(* The refinement.  What a transaction read under its locks is what it finds  *)
(* at its commit: its rows match its query (RowsHeld), its query misses none  *)
(* that matters (PoolComplete), its wallets exist and are usable.             *)

\* Wanted, with the instant read at the beginning as a parameter.
Matches(t, now, w) ==
    CASE t \in Consumers -> w.bucket \in Covered[AppOf[t]] /\ Ledger!Spendable(w, now)
      [] t \in Revokers  -> /\ w.bucket = RevokePlan[t].bucket
                            /\ w.ctype = RevokePlan[t].ctype
                            /\ Ledger!Live(w)
      [] t \in Refunders -> /\ w.source = RefundPlan[t].source
                            /\ w.ctype = "topup_credit"
                            /\ Ledger!Live(w)
      [] t \in Expirers  -> Ledger!Live(w) /\ w.expires <= now

RowsHeld(t, v) ==
    /\ t \in Granters => v.got = {}
    /\ \A r \in v.got : rowLock[r] = t /\ Matches(t, v.now, rows[r])

PoolComplete(t, v) ==
    t \in Consumers \cup Revokers /\ v.pc \in {"rows", "windows", "commit"} =>
        /\ \A r \in Rows : Matches(t, v.now, rows[r]) => r \in v.got \cup v.rq
        /\ v.pc # "rows" => v.rq = {}

WalletsUsable(t) ==
    t \in Consumers \cup Granters => \A b \in Buckets : walletLock[b] = t => wallets[b] # "frozen"

\* The lock loop of a distribution event: the wallets of its rules and no other,
\* and rows that only its commit inserts.
GrantSound(t, v) ==
    t \in Granters =>
        /\ v.pc \in Finished \cup {"wallets", "commit"}
        /\ v.pc \in {"wallets", "commit"} => DOMAIN GrantPlan[t] # {} /\ v.wq \subseteq DOMAIN GrantPlan[t]
        /\ v.pc = "commit" => v.wq = {}
        /\ v.pc \in {"wallets", "commit"} =>
             \A i \in DOMAIN GrantPlan[t] : i \in v.wq \/ walletLock[GrantPlan[t][i].bucket] = t
        /\ \A b \in Buckets : walletLock[b] = t => \E i \in DOMAIN GrantPlan[t] : GrantPlan[t][i].bucket = b
        /\ v.pc # "done" => \A i \in DOMAIN GrantPlan[t] : rows[GrantPlan[t][i].row].status = "absent"

RevokeSound(t, v) ==
    t \in Revokers =>
        /\ v.pc = "wallets" => v.wq = {RevokePlan[t].bucket}
        /\ v.pc \in Secured =>
             walletLock[RevokePlan[t].bucket] = t /\ wallets[RevokePlan[t].bucket] # "none"

ExpireSound(t, v) ==
    t \in Expirers /\ v.pc \in {"wallets", "commit"} => v.got # {}

\* Windows and pool cover the request, and what is drawn and still to be drawn is
\* the part the plan gave to the windows.
ConsumeSound(t, v) ==
    /\ v.pc = "windows" => t \in Consumers
    /\ t \in Consumers =>
         /\ v.pc \notin Finished => v.want \in 1..MaxPoints /\ Covered[AppOf[t]] # {}
         /\ v.pc = "commit" =>
              /\ v.want <= v.avail + SumOf([r \in Rows |-> Remaining(rows[r])], v.got)
              /\ SumOf(v.drawn, Keys) + v.left = (IF v.want <= v.avail THEN v.want ELSE v.avail)
              /\ \A k \in v.kq : v.drawn[k] = 0

TxSound(t, v) ==
    /\ RowsHeld(t, v) /\ PoolComplete(t, v) /\ WalletsUsable(t)
    /\ GrantSound(t, v) /\ RevokeSound(t, v) /\ ExpireSound(t, v) /\ ConsumeSound(t, v)

Sound == \A t \in Txs : TxSound(t, tx[t])

LEMMA MatchLive ==
    ASSUME NEW t \in Txs, t \notin Granters, NEW now, NEW w, Matches(t, now, w)
    PROVE  Ledger!Live(w)
<1>1. CASE t \in Consumers
  BY <1>1 DEF Matches, Ledger!Spendable
<1>2. CASE t \in Revokers
  BY <1>2, TxsAssumption DEF Matches
<1>3. CASE t \in Refunders
  BY <1>3, TxsAssumption DEF Matches
<1>4. CASE t \in Expirers
  BY <1>4, TxsAssumption DEF Matches
<1> QED BY <1>1, <1>2, <1>3, <1>4 DEF Txs

LEMMA MatchBucket ==
    ASSUME NEW t \in Txs, NEW now, NEW w, Matches(t, now, w)
    PROVE  /\ t \in Consumers => w.bucket \in Covered[AppOf[t]]
           /\ t \in Revokers => w.bucket = RevokePlan[t].bucket
<1>1. CASE t \in Consumers
  BY <1>1, TxsAssumption DEF Matches
<1>2. CASE t \in Revokers
  BY <1>2, TxsAssumption DEF Matches
<1> QED BY <1>1, <1>2

\* What the others must leave alone for u to stay sound.
LEMMA FrameSound ==
    ASSUME Inv, Sound, NEW u \in Txs, NEW v, v = tx[u],
           \A b \in Buckets : walletLock'[b] = u <=> walletLock[b] = u,
           \A r \in v.got : rowLock'[r] = rowLock[r] /\ rows'[r] = rows[r],
           u \in Consumers \cup Revokers /\ v.pc \in Secured =>
             \A r \in Rows : Matches(u, v.now, rows'[r]) => Matches(u, v.now, rows[r]),
           \A b \in Buckets : /\ walletLock[b] = u => wallets'[b] = wallets[b] \/ wallets'[b] = "active"
                              /\ wallets[b] # "none" => wallets'[b] # "none",
           u \in Granters /\ v.pc # "done" =>
             \A i \in DOMAIN GrantPlan[u] : LET r == GrantPlan[u][i].row IN
               rows[r].status = "absent" => rows'[r].status = "absent"
    PROVE  TxSound(u, v)'
<1>1. TxSound(u, v)
  BY DEF Sound
<1>2. v.got \subseteq Rows
  BY TxFields
<1>3. RowsHeld(u, v)'
  BY <1>1 DEF TxSound, RowsHeld, Matches, Ledger!Spendable, Ledger!Live, Ledger!Remaining
<1>4. PoolComplete(u, v)'
  <2> SUFFICES ASSUME u \in Consumers \cup Revokers, v.pc \in {"rows", "windows", "commit"}
               PROVE  /\ \A r \in Rows : Matches(u, v.now, rows'[r]) => r \in v.got \cup v.rq
                      /\ v.pc # "rows" => v.rq = {}
    BY DEF PoolComplete, Matches, Ledger!Spendable, Ledger!Live, Ledger!Remaining
  <2> QED BY <1>1 DEF TxSound, PoolComplete, Secured
<1>5. WalletsUsable(u)'
  BY <1>1 DEF TxSound, WalletsUsable
<1>6. GrantSound(u, v)'
  <2> SUFFICES ASSUME u \in Granters PROVE GrantSound(u, v)'
    BY DEF GrantSound
  <2>1. \A i \in DOMAIN GrantPlan[u] : GrantPlan[u][i].bucket \in Buckets
    BY PlansAssumption
  <2>2. v.pc # "done" => \A i \in DOMAIN GrantPlan[u] : rows'[GrantPlan[u][i].row].status = "absent"
    BY <1>1 DEF TxSound, GrantSound
  <2> QED BY <1>1, <2>1, <2>2 DEF TxSound, GrantSound
<1>7. RevokeSound(u, v)'
  <2> SUFFICES ASSUME u \in Revokers PROVE RevokeSound(u, v)'
    BY DEF RevokeSound
  <2>1. RevokePlan[u].bucket \in Buckets
    BY PlansAssumption
  <2> QED BY <1>1, <2>1 DEF TxSound, RevokeSound
<1>8. ExpireSound(u, v)'
  BY <1>1 DEF TxSound, ExpireSound
<1>9. ConsumeSound(u, v)'
  <2> DEFINE f == [r \in Rows |-> Remaining(rows[r])]
             h == [r \in Rows |-> Remaining(rows'[r])]
  <2>1. IsFiniteSet(v.got) /\ \A r \in v.got : f[r] = h[r]
    BY <1>2, FiniteAssumption, FS_Subset
  <2> HIDE DEF f, h
  <2>2. SumOf(f, v.got) = SumOf(h, v.got)
    BY <2>1, SumSame
  <2>3. SumOf([r \in Rows |-> Remaining(rows[r])], v.got)' = SumOf([r \in Rows |-> Remaining(rows[r])], v.got)
    BY <2>2 DEF f, h, Remaining, Ledger!Remaining
  <2> QED BY <1>1, <2>3 DEF TxSound, ConsumeSound
<1> QED BY <1>3, <1>4, <1>5, <1>6, <1>7, <1>8, <1>9 DEF TxSound

\* The others when t takes or gives up locks and writes nothing.
LEMMA QuietSound ==
    ASSUME Inv, Sound, NEW t \in Txs, NEW v, Moves(t, v), LocksBy(t), LedgerSame, TxSound(t, v)'
    PROVE  Sound'
<1>1. tx'[t] = v /\ \A u \in Txs \ {t} : tx'[u] = tx[u]
  BY DEF Inv, TxsGood, Moves
<1>2. ASSUME NEW u \in Txs PROVE TxSound(u, tx[u])'
  <2>1. CASE u = t
    BY <1>1, <2>1 DEF TxSound, RowsHeld, PoolComplete, GrantSound, RevokeSound, ExpireSound, ConsumeSound
  <2>2. CASE u # t
    <3>1. PICK w : w = tx[u]
      OBVIOUS
    <3>2. tx'[u] = w /\ w.got \subseteq Rows /\ TxSound(u, w)
      BY <1>1, <2>2, <3>1, TxFields DEF Sound
    <3>3. rows' = rows /\ wallets' = wallets
      BY DEF LedgerSame, ledgerVars
    <3>4. \A b \in Buckets : walletLock'[b] = u <=> walletLock[b] = u
      BY <2>2, NoTxApart DEF LocksBy
    <3>5. \A r \in w.got : rowLock'[r] = rowLock[r] /\ rows'[r] = rows[r]
      BY <2>2, <3>2, <3>3, NoTxApart DEF LocksBy, TxSound, RowsHeld
    <3>6. TxSound(u, w)'
      BY <3>1, <3>3, <3>4, <3>5, FrameSound
    <3> QED BY <3>2, <3>6 DEF TxSound, RowsHeld, PoolComplete, GrantSound, RevokeSound, ExpireSound, ConsumeSound
  <2> QED BY <2>1, <2>2
<1> QED BY <1>2 DEF Sound

\* A transaction that is over.
LEMMA EndSound ==
    ASSUME Inv, NEW t \in Txs, NEW p \in {"done", "failed"}, Release(t), tx' = EndedAs(t, p), NEW v, v = tx'[t],
           t \in Granters /\ p = "failed" =>
             \A i \in DOMAIN GrantPlan[t] : rows'[GrantPlan[t][i].row].status = "absent"
    PROVE  TxSound(t, v)'
<1>1. PICK pp \in {"idle", "done", "failed"} : pp = IF t \in Expirers THEN "idle" ELSE p
  OBVIOUS
<1>2. v = [IdleTx EXCEPT !.pc = pp]
  BY <1>1 DEF EndedAs, Inv, TxsGood
<1>3. v.pc = pp /\ v.got = {} /\ v.pc \in Finished
  BY <1>1, <1>2 DEF IdleTx, Finished
<1>4. \A b \in Buckets : walletLock'[b] # t
  BY NoTxApart DEF Release
<1>5. RowsHeld(t, v)' /\ PoolComplete(t, v)' /\ RevokeSound(t, v)' /\ ExpireSound(t, v)' /\ ConsumeSound(t, v)'
  BY <1>1, <1>3 DEF RowsHeld, PoolComplete, RevokeSound, ExpireSound, ConsumeSound, Secured, Finished
<1>6. WalletsUsable(t)'
  BY <1>4 DEF WalletsUsable
<1>7. GrantSound(t, v)'
  <2>1. t \in Granters => v.pc = p
    BY <1>1, <1>3, TxsAssumption
  <2> QED BY <1>1, <1>3, <1>4, <2>1 DEF GrantSound
<1> QED BY <1>5, <1>6, <1>7 DEF TxSound

LEMMA FailSound == ASSUME Inv, Sound, NEW t \in Txs, Fail(t), tx[t].pc # "done" PROVE Sound'
<1>1. LedgerSame /\ clock' \in Nat /\ Release(t) /\ tx' = EndedAs(t, "failed")
  BY LedgerAssumption DEF Fail, LedgerSame, ledgerVars, Inv, LedgerGood
<1>2. PICK v : Moves(t, v) /\ LocksBy(t)
  BY <1>1, Ending
<1>3. v = tx'[t]
  BY <1>2 DEF Moves, Inv, TxsGood
<1>4. t \in Granters => \A i \in DOMAIN GrantPlan[t] : rows'[GrantPlan[t][i].row].status = "absent"
  BY <1>1 DEF LedgerSame, ledgerVars, Sound, TxSound, GrantSound
<1>5. TxSound(t, v)'
  BY <1>1, <1>3, <1>4, EndSound
<1> QED BY <1>1, <1>2, <1>5, QuietSound

LEMMA BeginSound == ASSUME Inv, Sound, NEW t \in Txs, Begin(t) PROVE Sound'
<1>0. PICK n \in (IF t \in Consumers THEN Wants ELSE {0}) :
         tx' = [tx EXCEPT ![t] = [IdleTx EXCEPT !.now = clock, !.want = n, !.wq = FirstWallets(t),
                                    !.pc = IF t \in Refunders \cup Expirers THEN "select"
                                           ELSE IF FirstWallets(t) = {} THEN "failed"
                                           ELSE "wallets"]]
  BY DEF Begin
<1>1. PICK p : p = IF t \in Refunders \cup Expirers THEN "select"
                   ELSE IF FirstWallets(t) = {} THEN "failed" ELSE "wallets"
  OBVIOUS
<1>2. PICK v : v = [IdleTx EXCEPT !.now = clock, !.want = n, !.wq = FirstWallets(t), !.pc = p]
  OBVIOUS
<1>3. Moves(t, v)
  BY <1>0, <1>1, <1>2 DEF Moves
<1>4. v.pc = p /\ v.want = n /\ v.wq = FirstWallets(t) /\ v.got = {}
  BY <1>2 DEF IdleTx
<1>5. /\ LedgerSame /\ UNCHANGED lockVars /\ tx[t].pc = "idle"
      /\ rows' = rows /\ wallets' = wallets /\ walletLock' = walletLock
  BY DEF Begin, LedgerSame, ledgerVars, lockVars
<1>6. \A b \in Buckets : walletLock[b] # t
  BY <1>5, NoTxApart DEF Inv, LocksGood, Finished
<1>7. p \in {"select", "failed", "wallets"}
  BY <1>1
<1>8. RowsHeld(t, v)' /\ PoolComplete(t, v)' /\ WalletsUsable(t)'
  BY <1>4, <1>5, <1>6, <1>7 DEF RowsHeld, PoolComplete, WalletsUsable
<1>9. GrantSound(t, v)'
  <2> SUFFICES ASSUME t \in Granters PROVE GrantSound(t, v)'
    BY DEF GrantSound
  <2>1. FirstWallets(t) = DOMAIN GrantPlan[t]
    BY TxsAssumption DEF FirstWallets
  <2>2. p = IF FirstWallets(t) = {} THEN "failed" ELSE "wallets"
    BY <1>1, TxsAssumption
  <2>3. \A i \in DOMAIN GrantPlan[t] : rows'[GrantPlan[t][i].row].status = "absent"
    BY <1>5 DEF Sound, TxSound, GrantSound
  <2> QED BY <1>4, <1>5, <1>6, <2>1, <2>2, <2>3 DEF GrantSound, Finished
<1>10. RevokeSound(t, v)'
  <2> SUFFICES ASSUME t \in Revokers PROVE RevokeSound(t, v)'
    BY DEF RevokeSound
  <2>1. FirstWallets(t) = {RevokePlan[t].bucket}
    BY TxsAssumption DEF FirstWallets
  <2>2. p # "select"
    BY <1>1, TxsAssumption
  <2> QED BY <1>4, <1>7, <2>1, <2>2 DEF RevokeSound, Secured
<1>11. ExpireSound(t, v)'
  BY <1>1, <1>4 DEF ExpireSound
<1>12. ConsumeSound(t, v)'
  <2>1. t \in Consumers => n \in 1..MaxPoints /\ (p \notin Finished => Covered[AppOf[t]] # {})
    BY <1>1, FirstWalletsTyped, TxsAssumption DEF Finished
  <2> QED BY <1>4, <1>7, <2>1 DEF ConsumeSound
<1>13. TxSound(t, v)'
  BY <1>8, <1>9, <1>10, <1>11, <1>12 DEF TxSound
<1> QED BY <1>3, <1>5, <1>13, LocksSame, QuietSound

LEMMA LockWalletSound == ASSUME Inv, Sound, NEW t \in Txs, LockWallet(t) PROVE Sound'
<1>0. PICK x \in tx[t].wq :
         /\ walletLock[WalletOf(t, x)] \in {NoTx, t}
         /\ t \in Consumers \cup Granters => wallets[WalletOf(t, x)] # "frozen"
         /\ t \in Revokers => wallets[WalletOf(t, x)] # "none"
         /\ walletLock' = [walletLock EXCEPT ![WalletOf(t, x)] = t]
         /\ tx' = [tx EXCEPT ![t].wq = @ \ {x},
                             ![t].pc = IF tx[t].wq = {x} THEN AfterWallets(t) ELSE @]
  BY DEF LockWallet
<1> PICK bb : bb = WalletOf(t, x)
  OBVIOUS
<1>1. PICK p : p = IF tx[t].wq = {x} THEN AfterWallets(t) ELSE tx[t].pc
  OBVIOUS
<1>2. PICK v : v = [tx[t] EXCEPT !.wq = @ \ {x}, !.pc = p]
  OBVIOUS
<1>3. Moves(t, v)
  BY <1>0, <1>1, <1>2 DEF Moves
<1>4. /\ LedgerSame /\ rowLock' = rowLock /\ rows' = rows /\ wallets' = wallets
      /\ tx[t].pc = "wallets" /\ p = (IF tx[t].wq = {x} THEN AfterWallets(t) ELSE "wallets")
  BY <1>1 DEF LockWallet, LedgerSame, ledgerVars
<1>5. /\ v.pc = p /\ v.now = tx[t].now /\ v.wq = tx[t].wq \ {x}
      /\ v.want = tx[t].want /\ v.got = tx[t].got /\ v.rq = tx[t].rq
  BY <1>2, TxFields DEF TxType
<1>6. LocksBy(t)
  BY <1>0, <1>4 DEF LocksBy, Inv, LocksGood
<1>7. \A b \in Buckets : walletLock'[b] = IF b = bb THEN t ELSE walletLock[b]
  BY <1>0 DEF Inv, LocksGood
<1>8. TxSound(t, tx[t])
  BY DEF Sound
<1>9. RowsHeld(t, v)'
  BY <1>4, <1>5, <1>8 DEF TxSound, RowsHeld, Matches, Ledger!Spendable, Ledger!Live, Ledger!Remaining
<1>10. PoolComplete(t, v)'
  BY <1>4, <1>5, TxsAssumption DEF PoolComplete, AfterWallets
<1>11. WalletsUsable(t)'
  BY <1>0, <1>4, <1>7, <1>8 DEF TxSound, WalletsUsable
<1>12. GrantSound(t, v)'
  <2> SUFFICES ASSUME t \in Granters PROVE GrantSound(t, v)'
    BY DEF GrantSound
  <2>1. bb = GrantPlan[t][x].bucket /\ AfterWallets(t) = "commit"
    BY TxsAssumption DEF WalletOf, AfterWallets
  <2>2. \A i \in DOMAIN GrantPlan[t] : GrantPlan[t][i].bucket \in Buckets
    BY PlansAssumption
  <2>3. /\ DOMAIN GrantPlan[t] # {} /\ tx[t].wq \subseteq DOMAIN GrantPlan[t]
        /\ \A i \in DOMAIN GrantPlan[t] : i \in tx[t].wq \/ walletLock[GrantPlan[t][i].bucket] = t
        /\ \A b \in Buckets : walletLock[b] = t => \E i \in DOMAIN GrantPlan[t] : GrantPlan[t][i].bucket = b
        /\ \A i \in DOMAIN GrantPlan[t] : rows'[GrantPlan[t][i].row].status = "absent"
    BY <1>4, <1>8 DEF TxSound, GrantSound
  <2>4. /\ v.wq \subseteq DOMAIN GrantPlan[t] /\ v.pc \in {"wallets", "commit"}
        /\ v.pc = "commit" => v.wq = {}
    BY <1>4, <1>5, <2>1, <2>3
  <2>5. \A i \in DOMAIN GrantPlan[t] : i \in v.wq \/ walletLock'[GrantPlan[t][i].bucket] = t
    BY <1>5, <1>7, <2>1, <2>2, <2>3
  <2>6. \A b \in Buckets : walletLock'[b] = t => \E i \in DOMAIN GrantPlan[t] : GrantPlan[t][i].bucket = b
    BY <1>7, <2>1, <2>3
  <2> QED BY <2>3, <2>4, <2>5, <2>6 DEF GrantSound
<1>13. RevokeSound(t, v)'
  <2> SUFFICES ASSUME t \in Revokers PROVE RevokeSound(t, v)'
    BY DEF RevokeSound
  <2>1. bb = x /\ AfterWallets(t) = "select"
    BY TxsAssumption DEF WalletOf, AfterWallets
  <2>2. tx[t].wq = {RevokePlan[t].bucket}
    BY <1>4, <1>8 DEF TxSound, RevokeSound
  <2>3. RevokePlan[t].bucket \in Buckets
    BY PlansAssumption
  <2> QED BY <1>0, <1>4, <1>5, <1>7, <2>1, <2>2, <2>3 DEF RevokeSound
<1>14. ExpireSound(t, v)'
  BY <1>4, <1>5, <1>8 DEF TxSound, ExpireSound
<1>15. ConsumeSound(t, v)'
  BY <1>4, <1>5, <1>8, TxsAssumption DEF TxSound, ConsumeSound, AfterWallets, Finished
<1>16. TxSound(t, v)'
  BY <1>9, <1>10, <1>11, <1>12, <1>13, <1>14, <1>15 DEF TxSound
<1> QED BY <1>3, <1>4, <1>6, <1>16, QuietSound

\* A step of t between its wallets and its commit.
LEMMA MiddleSound ==
    ASSUME Inv, Sound, NEW t \in Txs, NEW v, LedgerSame, UNCHANGED walletLock,
           tx[t].pc \in Secured, t \notin Granters,
           v.pc \in Secured \/ (t \in Expirers /\ v.pc = "wallets"),
           RowsHeld(t, v)', PoolComplete(t, v)', ExpireSound(t, v)', ConsumeSound(t, v)'
    PROVE  TxSound(t, v)'
<1>1. rows' = rows /\ wallets' = wallets /\ walletLock' = walletLock
  BY DEF LedgerSame, ledgerVars
<1>2. TxSound(t, tx[t])
  BY DEF Sound
<1>3. WalletsUsable(t)' /\ GrantSound(t, v)'
  BY <1>1, <1>2 DEF TxSound, WalletsUsable, GrantSound
<1>4. RevokeSound(t, v)'
  BY <1>1, <1>2, TxsAssumption DEF TxSound, RevokeSound, Secured
<1> QED BY <1>3, <1>4 DEF TxSound

LEMMA NoGranter ==
    ASSUME Sound, NEW t \in Txs, tx[t].pc \in {"select", "rows", "windows"}
    PROVE  t \notin Granters
BY DEF Sound, TxSound, GrantSound, Finished

LEMMA SelectRowsSound == ASSUME Inv, Sound, NEW t \in Txs, SelectRows(t) PROVE Sound'
<1> PICK q : q = {r \in Rows : Wanted(t, rows[r])}
  OBVIOUS
<1>1. PICK v : v = [tx[t] EXCEPT !.pc = "rows", !.rq = q]
  OBVIOUS
<1>2. Moves(t, v) /\ LedgerSame /\ UNCHANGED lockVars /\ tx[t].pc = "select"
  BY <1>1 DEF Moves, SelectRows, LedgerSame
<1>3. v.pc = "rows" /\ v.now = tx[t].now /\ v.rq = q /\ v.got = tx[t].got /\ v.want = tx[t].want
  BY <1>1, TxFields DEF TxType
<1>4. t \notin Granters
  BY <1>2, NoGranter
<1>5. TxSound(t, tx[t]) /\ rows' = rows /\ rowLock' = rowLock /\ walletLock' = walletLock
  BY <1>2 DEF Sound, LedgerSame, ledgerVars, lockVars
<1>6. RowsHeld(t, v)'
  BY <1>3, <1>4, <1>5 DEF TxSound, RowsHeld, Matches, Ledger!Spendable, Ledger!Live, Ledger!Remaining
<1>7. PoolComplete(t, v)'
  <2>1. \A r \in Rows : Matches(t, tx[t].now, rows[r]) => r \in q
    BY DEF Matches, Wanted
  <2> QED BY <1>3, <1>5, <2>1 DEF PoolComplete, Matches, Ledger!Spendable, Ledger!Live, Ledger!Remaining
<1>8. ExpireSound(t, v)' /\ ConsumeSound(t, v)'
  BY <1>2, <1>3, <1>5 DEF TxSound, ExpireSound, ConsumeSound, Finished
<1>9. TxSound(t, v)'
  BY <1>2, <1>3, <1>4, <1>5, <1>6, <1>7, <1>8, MiddleSound DEF Secured
<1> QED BY <1>2, <1>9, LocksSame, QuietSound

LEMMA LockRowSound == ASSUME Inv, Sound, NEW t \in Txs, LockRow(t) PROVE Sound'
<1>0. PICK r \in tx[t].rq :
        /\ rowLock[r] \in {NoTx, t}
        /\ rowLock' = [rowLock EXCEPT ![r] = t]
        /\ tx' = [tx EXCEPT ![t].rq = @ \ {r},
                            ![t].got = IF Wanted(t, rows[r]) THEN @ \cup {r} ELSE @]
  BY DEF LockRow
<1>1. PICK g : g = IF Wanted(t, rows[r]) THEN tx[t].got \cup {r} ELSE tx[t].got
  OBVIOUS
<1>2. PICK v : v = [tx[t] EXCEPT !.rq = @ \ {r}, !.got = g]
  OBVIOUS
<1>3. Moves(t, v) /\ LedgerSame /\ UNCHANGED walletLock /\ tx[t].pc = "rows"
  BY <1>0, <1>1, <1>2 DEF Moves, LockRow, LedgerSame
<1>4. v.pc = "rows" /\ v.now = tx[t].now /\ v.rq = tx[t].rq \ {r} /\ v.got = g /\ v.want = tx[t].want
  BY <1>2, <1>3, TxFields DEF TxType
<1>5. t \notin Granters
  BY <1>3, NoGranter
<1>6. TxSound(t, tx[t]) /\ rows' = rows /\ tx[t].got \subseteq Rows /\ r \in Rows
  BY <1>3, TxFields DEF Sound, LedgerSame, ledgerVars
<1>7. \A s \in Rows : rowLock'[s] = IF s = r THEN t ELSE rowLock[s]
  BY <1>0 DEF Inv, LocksGood
<1>8. Wanted(t, rows[r]) <=> Matches(t, tx[t].now, rows[r])
  BY DEF Wanted, Matches
<1>9. RowsHeld(t, v)'
  <2>1. ASSUME NEW s \in g PROVE rowLock'[s] = t /\ Matches(t, v.now, rows[s])
    <3>1. CASE s \in tx[t].got
      BY <1>4, <1>6, <1>7, <3>1 DEF TxSound, RowsHeld
    <3>2. CASE s = r /\ Wanted(t, rows[r])
      BY <1>4, <1>6, <1>7, <1>8, <3>2
    <3> QED BY <1>1, <3>1, <3>2
  <2> QED BY <1>4, <1>5, <1>6, <2>1 DEF RowsHeld, Matches, Ledger!Spendable, Ledger!Live, Ledger!Remaining
<1>10. PoolComplete(t, v)'
  <2> SUFFICES ASSUME t \in Consumers \cup Revokers, NEW s \in Rows, Matches(t, v.now, rows[s])
               PROVE  s \in g \cup (tx[t].rq \ {r})
    BY <1>4, <1>6 DEF PoolComplete, Matches, Ledger!Spendable, Ledger!Live, Ledger!Remaining
  <2>1. s \in tx[t].got \cup tx[t].rq
    BY <1>3, <1>4, <1>6 DEF TxSound, PoolComplete
  <2> QED BY <1>1, <1>4, <1>8, <2>1
<1>11. ExpireSound(t, v)' /\ ConsumeSound(t, v)'
  BY <1>3, <1>4, <1>6 DEF TxSound, ExpireSound, ConsumeSound, Finished
<1>12. TxSound(t, v)'
  BY <1>3, <1>4, <1>5, <1>9, <1>10, <1>11, MiddleSound DEF Secured
<1>13. LocksBy(t)
  BY <1>0, <1>3 DEF LocksBy, Inv, LocksGood
<1> QED BY <1>3, <1>12, <1>13, QuietSound

\* A transaction that ends and wrote nothing, or did not need to.
LEMMA DoneSound ==
    ASSUME Inv, Sound, NEW t \in Txs, Done(t), LedgerSame
    PROVE  Sound'
<1>1. clock' \in Nat /\ Release(t) /\ tx' = EndedAs(t, "done")
  BY LedgerAssumption DEF Done, LedgerSame, ledgerVars, Inv, LedgerGood
<1>2. PICK v : Moves(t, v) /\ LocksBy(t)
  BY <1>1, Ending
<1>3. v = tx'[t]
  BY <1>2 DEF Moves, Inv, TxsGood
<1>4. TxSound(t, v)'
  BY <1>1, <1>3, EndSound
<1> QED BY <1>1, <1>2, <1>4, QuietSound

LEMMA RowsLockedSound == ASSUME Inv, Sound, NEW t \in Txs, RowsLocked(t) PROVE Sound'
<1>1. CASE t \in Expirers /\ tx[t].got = {}
  <2>1. LedgerSame /\ Done(t)
    BY <1>1 DEF RowsLocked, LedgerSame
  <2> QED BY <2>1, DoneSound
<1>2. CASE ~(t \in Expirers /\ tx[t].got = {})
  <2>1. PICK w : w = IF t \in Expirers THEN tx[t].got ELSE tx[t].wq
    OBVIOUS
  <2>2. PICK kk : kk = IF t \in Consumers THEN AllKeys(AppOf[t]) ELSE tx[t].kq
    OBVIOUS
  <2>3. PICK v : v = [tx[t] EXCEPT !.pc = AfterRows(t), !.rq = {}, !.wq = w, !.kq = kk]
    OBVIOUS
  <2>4. Moves(t, v) /\ LedgerSame /\ UNCHANGED lockVars /\ tx[t].pc = "rows"
    BY <1>2, <2>1, <2>2, <2>3 DEF Moves, RowsLocked, LedgerSame
  <2>5. v.pc = AfterRows(t) /\ v.now = tx[t].now /\ v.rq = {} /\ v.got = tx[t].got /\ v.want = tx[t].want
    BY <2>3, TxFields DEF TxType
  <2>6. t \notin Granters
    BY <2>4, NoGranter
  <2>7. /\ TxSound(t, tx[t]) /\ rows' = rows /\ rowLock' = rowLock /\ walletLock' = walletLock
        /\ t \in Consumers \cup Revokers => tx[t].rq = {}
    BY <1>2, <2>4, TxsAssumption DEF Sound, LedgerSame, ledgerVars, lockVars, RowsLocked
  <2>8. /\ t \in Consumers => AfterRows(t) = "windows"
        /\ t \in Expirers => AfterRows(t) = "wallets"
        /\ t \notin Consumers \cup Expirers => AfterRows(t) = "commit"
    BY TxsAssumption DEF AfterRows
  <2>9. RowsHeld(t, v)'
    BY <2>5, <2>6, <2>7 DEF TxSound, RowsHeld, Matches, Ledger!Spendable, Ledger!Live, Ledger!Remaining
  <2>10. PoolComplete(t, v)'
    <3> SUFFICES ASSUME t \in Consumers \cup Revokers, NEW s \in Rows, Matches(t, v.now, rows[s])
                 PROVE  s \in tx[t].got
      BY <2>5, <2>7 DEF PoolComplete, Matches, Ledger!Spendable, Ledger!Live, Ledger!Remaining
    <3> QED BY <2>4, <2>5, <2>7 DEF TxSound, PoolComplete
  <2>11. ExpireSound(t, v)'
    BY <1>2, <2>5 DEF ExpireSound
  <2>12. ConsumeSound(t, v)'
    BY <2>4, <2>5, <2>7, <2>8 DEF TxSound, ConsumeSound, Finished
  <2>13. v.pc \in Secured \/ (t \in Expirers /\ v.pc = "wallets")
    BY <2>5, <2>8 DEF Secured
  <2>14. TxSound(t, v)'
    BY <2>4, <2>6, <2>7, <2>9, <2>10, <2>11, <2>12, <2>13, MiddleSound DEF Secured
  <2> QED BY <2>4, <2>14, LocksSame, QuietSound
<1> QED BY <1>1, <1>2

LEMMA ReadWindowSound == ASSUME Inv, Sound, NEW t \in Txs, ReadWindow(t) PROVE Sound'
<1>0. PICK k \in tx[t].kq :
         tx' = [tx EXCEPT ![t].kq = @ \ {k}, ![t].avail = @ + WindowSpendable(k, tx[t].now)]
  BY DEF ReadWindow
<1>1. PICK n : n = tx[t].avail + WindowSpendable(k, tx[t].now)
  OBVIOUS
<1>2. PICK v : v = [tx[t] EXCEPT !.kq = @ \ {k}, !.avail = n]
  OBVIOUS
<1>3. Moves(t, v) /\ LedgerSame /\ UNCHANGED lockVars /\ tx[t].pc = "windows"
  BY <1>0, <1>1, <1>2 DEF Moves, ReadWindow, LedgerSame
<1>4. /\ v.pc = "windows" /\ v.now = tx[t].now /\ v.rq = tx[t].rq /\ v.got = tx[t].got
      /\ v.want = tx[t].want
  BY <1>2, <1>3, TxFields DEF TxType
<1>5. t \notin Granters
  BY <1>3, NoGranter
<1>6. TxSound(t, tx[t]) /\ rows' = rows /\ rowLock' = rowLock /\ walletLock' = walletLock
  BY <1>3 DEF Sound, LedgerSame, ledgerVars, lockVars
<1>7. RowsHeld(t, v)' /\ PoolComplete(t, v)'
  BY <1>3, <1>4, <1>6 DEF TxSound, RowsHeld, PoolComplete, Matches, Ledger!Spendable, Ledger!Live, Ledger!Remaining
<1>8. ExpireSound(t, v)' /\ ConsumeSound(t, v)'
  BY <1>3, <1>4, <1>6 DEF TxSound, ExpireSound, ConsumeSound, Finished
<1>9. TxSound(t, v)'
  BY <1>3, <1>4, <1>5, <1>6, <1>7, <1>8, MiddleSound DEF Secured
<1> QED BY <1>3, <1>9, LocksSame, QuietSound

LEMMA PlanConsumeSound == ASSUME Inv, Sound, NEW t \in Txs, PlanConsume(t) PROVE Sound'
<1>1. CASE tx[t].want > tx[t].avail + PoolAvailable(t)
  <2>1. Fail(t) /\ tx[t].pc = "windows"
    BY <1>1 DEF PlanConsume
  <2> QED BY <2>1, FailSound
<1>2. CASE ~(tx[t].want > tx[t].avail + PoolAvailable(t))
  <2>1. PICK n : n = Min({tx[t].want, tx[t].avail})
    OBVIOUS
  <2>2. PICK v : v = [tx[t] EXCEPT !.pc = "commit", !.kq = AllKeys(AppOf[t]), !.left = n]
    OBVIOUS
  <2>3. Moves(t, v) /\ LedgerSame /\ UNCHANGED lockVars /\ tx[t].pc = "windows"
    BY <1>2, <2>1, <2>2 DEF Moves, PlanConsume, LedgerSame
  <2>4. tx[t].want \in Nat /\ tx[t].avail \in Nat /\ tx[t].drawn \in [Keys -> Nat] /\ tx[t].got \subseteq Rows
    BY TxFields DEF TxType
  <2>5. n = IF tx[t].want <= tx[t].avail THEN tx[t].want ELSE tx[t].avail
    BY <2>1, <2>4, MinOfTwo
  <2>6. /\ v.pc = "commit" /\ v.now = tx[t].now /\ v.rq = tx[t].rq /\ v.got = tx[t].got
        /\ v.want = tx[t].want /\ v.avail = tx[t].avail /\ v.left = n /\ v.drawn = tx[t].drawn
        /\ v.kq = AllKeys(AppOf[t])
    BY <2>2, TxFields DEF TxType
  <2>7. t \in Consumers /\ t \notin Granters /\ t \notin Expirers
    BY <2>3, TxsAssumption DEF Sound, TxSound, ConsumeSound
  <2>8. TxSound(t, tx[t]) /\ rows' = rows /\ rowLock' = rowLock /\ walletLock' = walletLock
    BY <2>3 DEF Sound, LedgerSame, ledgerVars, lockVars
  <2>9. RowsHeld(t, v)' /\ PoolComplete(t, v)'
    BY <2>3, <2>6, <2>8 DEF TxSound, RowsHeld, PoolComplete, Matches, Ledger!Spendable, Ledger!Live, Ledger!Remaining
  <2>10. \A k \in Keys : tx[t].drawn[k] = 0
    <3>1. \A k \in Keys : ~(tx[t].drawn[k] > 0)
      BY <2>3, TxFields DEF TxGood
    <3> QED BY <2>4, <3>1
  <2>11. SumOf(tx[t].drawn, Keys) = 0
    BY <2>10, KeysFinite, SumZero
  <2>12. PICK s : s = PoolAvailable(t)
    OBVIOUS
  <2>13. s \in Nat
    <3> DEFINE f == [r \in Rows |-> Remaining(rows[r])]
    <3>1. IsFiniteSet(tx[t].got)
      BY <2>4, FiniteAssumption, FS_Subset
    <3>2. \A r \in tx[t].got : f[r] \in Nat
      BY <2>4, RowFields DEF Inv
    <3> HIDE DEF f
    <3>3. SumOf(f, tx[t].got) \in Nat
      BY <3>1, <3>2, SumNat
    <3> QED BY <2>12, <3>3 DEF f, PoolAvailable
  <2>14. tx[t].want <= tx[t].avail + s
    BY <1>2, <2>4, <2>12, <2>13
  <2>15. SumOf(tx[t].drawn, Keys) + n = n
    BY <2>4, <2>5, <2>11
  <2>16. AllKeys(AppOf[t]) \subseteq Keys /\ tx[t].want \in 1..MaxPoints /\ Covered[AppOf[t]] # {}
    BY <2>3, <2>7, <2>8 DEF AllKeys, TxSound, ConsumeSound, Finished
  <2>17. ConsumeSound(t, v)'
    <3>1. v.want <= v.avail + SumOf([r \in Rows |-> Remaining(rows'[r])], v.got)
      BY <2>6, <2>8, <2>12, <2>14 DEF PoolAvailable
    <3>2. SumOf(v.drawn, Keys) + v.left = IF v.want <= v.avail THEN v.want ELSE v.avail
      BY <2>5, <2>6, <2>15
    <3>3. \A k \in v.kq : v.drawn[k] = 0
      BY <2>6, <2>10, <2>16
    <3> QED BY <2>6, <2>7, <2>16, <3>1, <3>2, <3>3 DEF ConsumeSound, Remaining, Ledger!Remaining
  <2>18. ExpireSound(t, v)'
    BY <2>7 DEF ExpireSound
  <2>19. TxSound(t, v)'
    BY <2>3, <2>6, <2>7, <2>8, <2>9, <2>17, <2>18, MiddleSound DEF Secured
  <2> QED BY <2>3, <2>19, LocksSame, QuietSound
<1> QED BY <1>1, <1>2

LEMMA DrawWindowSound == ASSUME Inv, Sound, NEW t \in Txs, DrawWindow(t) PROVE Sound'
<1>0. PICK k \in tx[t].kq :
         tx' = [tx EXCEPT ![t].kq = @ \ {k},
                          ![t].left = @ - Min({tx[t].left, WindowSpendable(k, tx[t].now)}),
                          ![t].drawn = [@ EXCEPT ![k] = Min({tx[t].left, WindowSpendable(k, tx[t].now)})]]
  BY DEF DrawWindow
<1>1. PICK n : n = Min({tx[t].left, WindowSpendable(k, tx[t].now)})
  OBVIOUS
<1>2. PICK d : d = [tx[t].drawn EXCEPT ![k] = n]
  OBVIOUS
<1>3. PICK m : m = tx[t].left - n
  OBVIOUS
<1>4. PICK v : v = [tx[t] EXCEPT !.kq = @ \ {k}, !.left = m, !.drawn = d]
  OBVIOUS
<1>5. Moves(t, v)
  BY <1>0, <1>1, <1>2, <1>3, <1>4 DEF Moves
<1>6. LedgerSame /\ UNCHANGED lockVars /\ tx[t].pc = "commit" /\ t \in Consumers
  BY DEF DrawWindow, LedgerSame
<1>7. /\ k \in Keys /\ tx[t].now \in 0..MaxTime /\ tx[t].left \in Nat /\ tx[t].drawn \in [Keys -> Nat]
      /\ tx[t].kq \subseteq Keys
  BY TxFields
<1>8. WindowSpendable(k, tx[t].now) \in Nat
  BY <1>7, SpendableSound DEF Inv
<1>9. n \in Nat
  BY <1>1, <1>7, <1>8, MinOfTwo
<1>10. /\ v.pc = "commit" /\ v.now = tx[t].now /\ v.rq = tx[t].rq /\ v.got = tx[t].got
       /\ v.want = tx[t].want /\ v.avail = tx[t].avail /\ v.left = m /\ v.drawn = d
       /\ v.kq = tx[t].kq \ {k}
  BY <1>4, <1>6, TxFields DEF TxType
<1>11. t \notin Granters /\ t \notin Expirers
  BY <1>6, TxsAssumption
<1>12. TxSound(t, tx[t]) /\ rows' = rows /\ rowLock' = rowLock /\ walletLock' = walletLock
  BY <1>6 DEF Sound, LedgerSame, ledgerVars, lockVars
<1>13. RowsHeld(t, v)' /\ PoolComplete(t, v)'
  BY <1>6, <1>10, <1>12 DEF TxSound, RowsHeld, PoolComplete, Matches, Ledger!Spendable, Ledger!Live, Ledger!Remaining
<1>14. /\ tx[t].drawn[k] = 0 /\ d[k] = n /\ \A j \in Keys \ {k} : d[j] = tx[t].drawn[j]
       /\ \A j \in tx[t].kq : tx[t].drawn[j] = 0
  BY <1>2, <1>6, <1>7, <1>12 DEF TxSound, ConsumeSound
<1>15. SumOf(d, Keys) = SumOf(tx[t].drawn, Keys) + n /\ SumOf(tx[t].drawn, Keys) \in Int
  <2>1. PICK f : f = tx[t].drawn
    OBVIOUS
  <2>2. /\ \A j \in Keys : f[j] \in Int
        /\ d[k] \in Int /\ f[k] = 0 /\ \A j \in Keys \ {k} : d[j] = f[j]
    BY <1>7, <1>9, <1>14, <2>1
  <2>3. SumOf(d, Keys) = SumOf(f, Keys) - f[k] + d[k]
    BY <1>7, <2>2, KeysFinite, SumUpdate
  <2>4. SumOf(f, Keys) \in Int
    BY <2>2, KeysFinite, SumInt
  <2> QED BY <1>9, <1>14, <2>1, <2>2, <2>3, <2>4
<1>16. ConsumeSound(t, v)'
  <2>1. /\ tx[t].want <= tx[t].avail + SumOf([r \in Rows |-> Remaining(rows[r])], tx[t].got)
        /\ SumOf(tx[t].drawn, Keys) + tx[t].left
             = (IF tx[t].want <= tx[t].avail THEN tx[t].want ELSE tx[t].avail)
        /\ tx[t].want \in 1..MaxPoints /\ Covered[AppOf[t]] # {}
    BY <1>6, <1>12 DEF TxSound, ConsumeSound, Finished
  <2>2. SumOf(d, Keys) + m = SumOf(tx[t].drawn, Keys) + tx[t].left
    BY <1>3, <1>7, <1>9, <1>15
  <2>3. SumOf(v.drawn, Keys) + v.left = IF v.want <= v.avail THEN v.want ELSE v.avail
    BY <1>10, <2>1, <2>2
  <2>4. v.want <= v.avail + SumOf([r \in Rows |-> Remaining(rows'[r])], v.got)
    BY <1>10, <1>12, <2>1
  <2>5. \A j \in v.kq : v.drawn[j] = 0
    BY <1>7, <1>10, <1>14
  <2> QED BY <1>6, <1>10, <2>1, <2>3, <2>4, <2>5 DEF ConsumeSound, Remaining, Ledger!Remaining
<1>17. ExpireSound(t, v)'
  BY <1>11 DEF ExpireSound
<1>18. TxSound(t, v)'
  BY <1>6, <1>10, <1>11, <1>12, <1>13, <1>16, <1>17, MiddleSound DEF Secured
<1> QED BY <1>5, <1>6, <1>18, LocksSame, QuietSound

\* A row that lost points or its status: what found it before need not find it now.
Lessened(w, x) ==
    /\ x.bucket = w.bucket /\ x.ctype = w.ctype /\ x.source = w.source
    /\ x.expires = w.expires /\ x.effective = w.effective
    /\ Ledger!Live(x) => Ledger!Live(w)

LEMMA UpdateLessens ==
    ASSUME LedgerGood, NEW r \in Rows, NEW n \in Nat, n <= Remaining(rows[r]), NEW x,
           \/ x = Ledger!Consumption(rows[r], n)
           \/ x = Ledger!Revocation(rows[r], n)
           \/ x = [rows[r] EXCEPT !.status = "expired"]
    PROVE  Lessened(rows[r], x)
<1> PICK w : w = rows[r]
  OBVIOUS
<1>1. /\ w \in Ledger!RowType /\ w.granted \in Nat /\ w.used \in Nat /\ w.revoked \in Nat
      /\ w.used + w.revoked + n <= w.granted
  BY RowFields
<1>2. CASE x = Ledger!Consumption(w, n)
  <2>1. PICK st : st = IF Ledger!Remaining(w) = n THEN "fully_used" ELSE w.status
    OBVIOUS
  <2>2. PICK m : m = w.used + n
    OBVIOUS
  <2>3. x = [w EXCEPT !.used = m, !.status = st]
    BY <1>2, <2>1, <2>2 DEF Ledger!Consumption
  <2>4. /\ x.bucket = w.bucket /\ x.ctype = w.ctype /\ x.source = w.source
        /\ x.expires = w.expires /\ x.effective = w.effective
        /\ x.granted = w.granted /\ x.used = m /\ x.revoked = w.revoked /\ x.status = st
    BY <1>1, <2>3 DEF Ledger!RowType
  <2>5. Ledger!Live(x) => Ledger!Live(w)
    BY <1>1, <2>1, <2>2, <2>4 DEF Ledger!Live, Ledger!Remaining
  <2> QED BY <2>4, <2>5 DEF Lessened
<1>3. CASE x = Ledger!Revocation(w, n)
  <2>1. PICK st : st = IF Ledger!Remaining(w) = n THEN "revoked" ELSE w.status
    OBVIOUS
  <2>2. PICK m : m = w.revoked + n
    OBVIOUS
  <2>3. x = [w EXCEPT !.revoked = m, !.status = st]
    BY <1>3, <2>1, <2>2 DEF Ledger!Revocation
  <2>4. /\ x.bucket = w.bucket /\ x.ctype = w.ctype /\ x.source = w.source
        /\ x.expires = w.expires /\ x.effective = w.effective
        /\ x.granted = w.granted /\ x.revoked = m /\ x.used = w.used /\ x.status = st
    BY <1>1, <2>3 DEF Ledger!RowType
  <2>5. Ledger!Live(x) => Ledger!Live(w)
    BY <1>1, <2>1, <2>2, <2>4 DEF Ledger!Live, Ledger!Remaining
  <2> QED BY <2>4, <2>5 DEF Lessened
<1>4. CASE x = [w EXCEPT !.status = "expired"]
  <2>1. /\ x.bucket = w.bucket /\ x.ctype = w.ctype /\ x.source = w.source
        /\ x.expires = w.expires /\ x.effective = w.effective /\ x.status = "expired"
    BY <1>1, <1>4 DEF Ledger!RowType
  <2> QED BY <2>1 DEF Lessened, Ledger!Live
<1> QED BY <1>2, <1>3, <1>4

\* A commit of t changes only rows it locked, or inserts the rows of its rules.
LEMMA CommitSound ==
    ASSUME Inv, Sound, NEW t \in Txs, Done(t), clock' = clock, tx[t].pc = "commit",
           \A r \in Rows : \/ rows'[r] = rows[r]
                           \/ r \in tx[t].got /\ Lessened(rows[r], rows'[r])
                           \/ /\ t \in Granters /\ \E i \in DOMAIN GrantPlan[t] : GrantPlan[t][i].row = r
                              /\ walletLock[rows'[r].bucket] = t,
           \A b \in Buckets : wallets'[b] = wallets[b] \/ wallets'[b] = "active"
    PROVE  Sound'
<1>1. Release(t) /\ tx' = EndedAs(t, "done") /\ clock' \in Nat
  BY LedgerAssumption DEF Done, Inv, LedgerGood
<1>2. PICK v : Moves(t, v) /\ LocksBy(t)
  BY <1>1, Ending
<1>3. tx'[t] = v /\ \A u \in Txs \ {t} : tx'[u] = tx[u]
  BY <1>2 DEF Inv, TxsGood, Moves
<1>4. TxSound(t, v)'
  BY <1>1, <1>3, EndSound
<1>5. ASSUME NEW r \in tx[t].got PROVE r \in Rows /\ rowLock[r] = t /\ rows[r].status = "active"
  <2>1. t \notin Granters /\ rowLock[r] = t /\ Matches(t, tx[t].now, rows[r])
    BY <1>5 DEF Sound, TxSound, RowsHeld
  <2> QED BY <2>1, MatchLive, TxFields DEF Ledger!Live
<1>6. ASSUME t \in Granters, NEW i \in DOMAIN GrantPlan[t] PROVE rows[GrantPlan[t][i].row].status = "absent"
  BY <1>6 DEF Sound, TxSound, GrantSound
<1>7. ASSUME NEW u \in Txs \ {t}, NEW w, w = tx[u] PROVE TxSound(u, w)'
  <2>1. TxSound(u, w) /\ w.got \subseteq Rows
    BY <1>7, TxFields DEF Sound
  <2>2. \A b \in Buckets : walletLock'[b] = u <=> walletLock[b] = u
    BY <1>2, NoTxApart DEF LocksBy
  <2>3. ASSUME NEW r \in w.got PROVE rowLock'[r] = rowLock[r] /\ rows'[r] = rows[r]
    <3>1. u \notin Granters /\ rowLock[r] = u /\ Matches(u, w.now, rows[r]) /\ r \in Rows
      BY <2>1, <2>3 DEF TxSound, RowsHeld
    <3>2. rows[r].status = "active"
      BY <3>1, MatchLive DEF Ledger!Live
    <3>3. rowLock'[r] = rowLock[r]
      BY <1>2, <3>1, NoTxApart DEF LocksBy
    <3>4. r \notin tx[t].got
      BY <1>5, <3>1
    <3>5. ~(t \in Granters /\ \E i \in DOMAIN GrantPlan[t] : GrantPlan[t][i].row = r)
      BY <1>6, <3>2
    <3> QED BY <3>1, <3>3, <3>4, <3>5
  <2>4. ASSUME u \in Consumers \cup Revokers, w.pc \in Secured, NEW r \in Rows, Matches(u, w.now, rows'[r])
        PROVE  Matches(u, w.now, rows[r])
    <3>1. CASE rows'[r] = rows[r]
      BY <2>4, <3>1
    <3>2. CASE Lessened(rows[r], rows'[r])
      <4>1. CASE u \in Consumers
        BY <2>4, <3>2, <4>1 DEF Matches, Lessened, Ledger!Spendable
      <4>2. CASE u \in Revokers
        BY <2>4, <3>2, <4>2, TxsAssumption DEF Matches, Lessened
      <4> QED BY <2>4, <4>1, <4>2
    <3>3. CASE walletLock[rows'[r].bucket] = t
      <4>1. CASE u \in Consumers
        <5>1. rows'[r].bucket \in Covered[AppOf[u]]
          BY <2>4, <4>1, MatchBucket
        <5>2. walletLock[rows'[r].bucket] = u
          BY <1>7, <2>4, <4>1, <5>1, TxFields DEF TxGood
        <5> QED BY <3>3, <5>2
      <4>2. CASE u \in Revokers
        <5>1. rows'[r].bucket = RevokePlan[u].bucket
          BY <2>4, <4>2, MatchBucket
        <5>2. walletLock[rows'[r].bucket] = u
          BY <2>1, <2>4, <4>2, <5>1 DEF TxSound, RevokeSound
        <5> QED BY <3>3, <5>2
      <4> QED BY <2>4, <4>1, <4>2
    <3> QED BY <3>1, <3>2, <3>3
  <2>5. \A b \in Buckets : /\ walletLock[b] = u => wallets'[b] = wallets[b] \/ wallets'[b] = "active"
                           /\ wallets[b] # "none" => wallets'[b] # "none"
    OBVIOUS
  <2>6. ASSUME u \in Granters, NEW i \in DOMAIN GrantPlan[u], NEW r, r = GrantPlan[u][i].row,
               rows[r].status = "absent"
        PROVE  rows'[r].status = "absent"
    <3>1. r \in Rows
      BY <2>6, PlansAssumption
    <3>2. r \notin tx[t].got
      BY <1>5, <2>6
    <3>3. ~(t \in Granters /\ \E j \in DOMAIN GrantPlan[t] : GrantPlan[t][j].row = r)
      BY <2>6, PlansAssumption
    <3> QED BY <2>6, <3>1, <3>2, <3>3
  <2> QED BY <1>7, <2>2, <2>3, <2>4, <2>5, <2>6, FrameSound
<1>8. ASSUME NEW u \in Txs PROVE TxSound(u, tx[u])'
  <2>1. PICK w : w = tx'[u]
    OBVIOUS
  <2>2. TxSound(u, w)'
    <3>1. CASE u = t
      BY <1>3, <1>4, <2>1, <3>1
    <3>2. CASE u # t
      BY <1>3, <1>7, <2>1, <3>2
    <3> QED BY <3>1, <3>2
  <2> QED BY <2>1, <2>2 DEF TxSound, RowsHeld, PoolComplete, GrantSound, RevokeSound, ExpireSound, ConsumeSound
<1> QED BY <1>8 DEF Sound

LEMMA CommitConsumeSound == ASSUME Inv, Sound, NEW t \in Txs, CommitConsume(t) PROVE Sound'
<1>1. ASSUME NEW r \in Rows PROVE rows'[r] = rows[r] \/ (r \in tx[t].got /\ Lessened(rows[r], rows'[r]))
  <2>1. PICK n : n = Take(t)[r]
    OBVIOUS
  <2>2. n \in Nat /\ n <= Remaining(rows[r]) /\ (r \notin tx[t].got => n = 0)
    BY <2>1, TakeWithin DEF Take
  <2>3. PICK x : x = rows'[r]
    OBVIOUS
  <2>4. x = IF n = 0 THEN rows[r] ELSE Ledger!Consumption(rows[r], n)
    BY <2>1, <2>3 DEF CommitConsume
  <2>5. CASE n = 0
    BY <2>3, <2>4, <2>5
  <2>6. CASE n # 0
    <3>1. Lessened(rows[r], x)
      BY <2>2, <2>4, <2>6, UpdateLessens DEF Inv
    <3> QED BY <2>2, <2>3, <2>6, <3>1
  <2> QED BY <2>5, <2>6
<1>2. \A b \in Buckets : wallets'[b] = wallets[b] \/ wallets'[b] = "active"
  BY DEF CommitConsume, Ledger!Ensured
<1>3. Done(t) /\ clock' = clock /\ tx[t].pc = "commit"
  BY DEF CommitConsume
<1> QED BY <1>1, <1>2, <1>3, CommitSound

\* proportional_refund_for_grant and the full revocations stay within the row.
LEMMA LossWithin ==
    ASSUME Inv, NEW t \in Txs, NEW r \in Rows
    PROVE  Loss(t, r) \in Nat /\ Loss(t, r) <= Remaining(rows[r])
<1>1. rows[r].granted \in Nat /\ Remaining(rows[r]) \in Nat
  BY RowFields DEF Inv
<1>2. CASE t \in Refunders
  <2>1. RefundPlan[t].share \in Shares
    BY <1>2, PlansAssumption
  <2> QED BY <1>1, <1>2, <2>1, ProportionalWithin DEF Loss
<1>3. CASE t \notin Refunders
  BY <1>1, <1>3 DEF Loss
<1> QED BY <1>2, <1>3

LEMMA CommitLossSound == ASSUME Inv, Sound, NEW t \in Txs, CommitLoss(t) PROVE Sound'
<1>1. ASSUME NEW r \in Rows PROVE rows'[r] = rows[r] \/ (r \in tx[t].got /\ Lessened(rows[r], rows'[r]))
  <2>1. PICK n : n = Loss(t, r)
    OBVIOUS
  <2>2. n \in Nat /\ n <= Remaining(rows[r])
    BY <2>1, LossWithin
  <2>3. PICK x : x = rows'[r]
    OBVIOUS
  <2>4. x = IF r \in tx[t].got THEN Struck(t, r) ELSE rows[r]
    BY <2>3 DEF CommitLoss
  <2>5. CASE r \notin tx[t].got
    BY <2>3, <2>4, <2>5
  <2>6. CASE r \in tx[t].got
    <3>1. \/ x = rows[r]
          \/ x = Ledger!Revocation(rows[r], n)
          \/ x = [rows[r] EXCEPT !.status = "expired"]
      BY <2>1, <2>4, <2>6 DEF Struck
    <3>2. CASE x # rows[r]
      <4>1. Lessened(rows[r], x)
        BY <2>2, <3>1, <3>2, UpdateLessens DEF Inv
      <4> QED BY <2>3, <2>6, <4>1
    <3> QED BY <2>3, <3>2
  <2> QED BY <2>5, <2>6
<1>2. Done(t) /\ clock' = clock /\ tx[t].pc = "commit" /\ wallets' = wallets
  BY DEF CommitLoss
<1> QED BY <1>1, <1>2, CommitSound

\* The rows a distribution event inserts, one for each of its rules.
Rules(t) == {GrantPlan[t][i] : i \in DOMAIN GrantPlan[t]}
Inserted(t) == {g.row : g \in Rules(t)}
NewRow(g) ==
    [bucket |-> g.bucket, ctype |-> g.ctype, source |-> g.source,
     granted |-> g.amount, used |-> 0, revoked |-> 0,
     effective |-> g.effective, expires |-> g.expires, status |-> "active"]
NewRows(t) == [r \in Inserted(t) |-> NewRow(CHOOSE g \in Rules(t) : g.row = r)]

LEMMA RowsOfRules ==
    ASSUME NEW t \in Granters
    PROVE  /\ Inserted(t) \subseteq Rows
           /\ NewRows(t) \in [Inserted(t) -> Ledger!FreshRow]
           /\ \A r \in Inserted(t) : \E i \in DOMAIN GrantPlan[t] :
                GrantPlan[t][i].row = r /\ NewRows(t)[r].bucket = GrantPlan[t][i].bucket
           /\ \A i \in DOMAIN GrantPlan[t] :
                /\ GrantPlan[t][i].row \in Inserted(t)
                /\ NewRows(t)[GrantPlan[t][i].row].bucket = GrantPlan[t][i].bucket
<1>1. \A i \in DOMAIN GrantPlan[t] :
        GrantPlan[t][i] \in [row : Rows, bucket : Buckets, ctype : CreditTypes, source : Sources,
                            amount : GrantSizes, effective : 0..MaxTime, expires : 1..(MaxTime + 1)]
  BY PlansAssumption
<1>2. \A i, j \in DOMAIN GrantPlan[t] : GrantPlan[t][i].row = GrantPlan[t][j].row => i = j
  BY PlansAssumption
<1>3. ASSUME NEW i \in DOMAIN GrantPlan[t], NEW g, g = GrantPlan[t][i], NEW r, r = g.row
      PROVE  /\ r \in Rows /\ r \in Inserted(t)
             /\ NewRows(t)[r] \in Ledger!FreshRow
             /\ NewRows(t)[r].bucket = g.bucket
  <2>1. r \in Rows /\ r \in Inserted(t) /\ g \in Rules(t)
    BY <1>1, <1>3 DEF Inserted, Rules
  <2>2. \A h \in Rules(t) : h.row = r => h = g
    BY <1>2, <1>3 DEF Rules
  <2>3. (CHOOSE h \in Rules(t) : h.row = r) = g
    BY <1>3, <2>1, <2>2
  <2>4. PICK w : w = NewRow(g)
    OBVIOUS
  <2>5. NewRows(t)[r] = w
    BY <2>1, <2>3, <2>4 DEF NewRows
  <2>6. w \in Ledger!FreshRow /\ w.bucket = g.bucket
    BY <1>1, <1>3, <2>4 DEF NewRow, Ledger!FreshRow, Ledger!Time, Ledger!Never
  <2> QED BY <2>1, <2>5, <2>6
<1>4. \A r \in Inserted(t) : \E i \in DOMAIN GrantPlan[t] : GrantPlan[t][i].row = r
  BY DEF Inserted, Rules
<1>5. \A r \in Inserted(t) : \E i \in DOMAIN GrantPlan[t] :
         /\ GrantPlan[t][i].row = r /\ r \in Rows /\ NewRows(t)[r] \in Ledger!FreshRow
         /\ NewRows(t)[r].bucket = GrantPlan[t][i].bucket
  BY <1>3, <1>4
<1>6. NewRows(t) \in [Inserted(t) -> Ledger!FreshRow]
  <2>1. NewRows(t) = [r \in Inserted(t) |-> NewRows(t)[r]]
    BY DEF NewRows
  <2> QED BY <1>5, <2>1
<1> QED BY <1>3, <1>5, <1>6

LEMMA CommitGrantIs ==
    ASSUME NEW t, CommitGrant(t)
    PROVE  /\ t \in Granters /\ tx[t].pc = "commit" /\ Done(t)
           /\ rows' = [r \in Rows |-> IF r \in Inserted(t) THEN NewRows(t)[r] ELSE rows[r]]
           /\ wallets' = [b \in Buckets |-> IF walletLock[b] = t THEN Ledger!Ensured(b) ELSE wallets[b]]
           /\ recharged' = [b \in Buckets |-> recharged[b] + Ledger!RechargedBy(Inserted(t), NewRows(t), b)]
           /\ UNCHANGED <<consumed, recorded, wlog, clock, ents>>
BY DEF CommitGrant, Rules, Inserted, NewRows, NewRow

LEMMA CommitGrantSound == ASSUME Inv, Sound, NEW t \in Txs, CommitGrant(t) PROVE Sound'
<1>1. /\ t \in Granters /\ tx[t].pc = "commit" /\ Done(t) /\ clock' = clock
      /\ rows' = [r \in Rows |-> IF r \in Inserted(t) THEN NewRows(t)[r] ELSE rows[r]]
      /\ wallets' = [b \in Buckets |-> IF walletLock[b] = t THEN Ledger!Ensured(b) ELSE wallets[b]]
  BY CommitGrantIs
<1>2. \A i \in DOMAIN GrantPlan[t] : walletLock[GrantPlan[t][i].bucket] = t
  BY <1>1 DEF Sound, TxSound, GrantSound
<1>3. ASSUME NEW r \in Rows
      PROVE  \/ rows'[r] = rows[r]
             \/ /\ \E i \in DOMAIN GrantPlan[t] : GrantPlan[t][i].row = r
                /\ walletLock[rows'[r].bucket] = t
  <2>1. CASE r \in Inserted(t)
    <3>1. PICK i \in DOMAIN GrantPlan[t] : GrantPlan[t][i].row = r /\ NewRows(t)[r].bucket = GrantPlan[t][i].bucket
      BY <1>1, <2>1, RowsOfRules
    <3> QED BY <1>1, <1>2, <2>1, <3>1
  <2>2. CASE r \notin Inserted(t)
    BY <1>1, <2>2
  <2> QED BY <2>1, <2>2
<1>4. \A b \in Buckets : wallets'[b] = wallets[b] \/ wallets'[b] = "active"
  BY <1>1 DEF Ledger!Ensured
<1> QED BY <1>1, <1>3, <1>4, CommitSound

\* What is no transaction's step touches no row and no locked wallet.
LEMMA OthersSound ==
    ASSUME Inv, Sound, UNCHANGED <<rows, walletLock, rowLock, tx>>,
           \A b \in Buckets : wallets'[b] = wallets[b] \/ (walletLock[b] = NoTx /\ wallets'[b] # "none")
    PROVE  Sound'
<1>1. rows' = rows /\ walletLock' = walletLock /\ rowLock' = rowLock /\ tx' = tx
  OBVIOUS
<1>2. ASSUME NEW u \in Txs PROVE TxSound(u, tx[u])'
  <2>1. PICK v : v = tx[u]
    OBVIOUS
  <2>2. \A b \in Buckets : /\ walletLock[b] = u => wallets'[b] = wallets[b] \/ wallets'[b] = "active"
                           /\ wallets[b] # "none" => wallets'[b] # "none"
    BY NoTxApart
  <2>3. TxSound(u, v)'
    BY <1>1, <2>1, <2>2, FrameSound
  <2>4. tx'[u] = v
    BY <1>1, <2>1
  <2> QED BY <2>3, <2>4 DEF TxSound, RowsHeld, PoolComplete, GrantSound, RevokeSound, ExpireSound, ConsumeSound
<1> QED BY <1>2 DEF Sound

LEMMA SoundInit == Init => Sound
<1> SUFFICES ASSUME Init, NEW t \in Txs PROVE TxSound(t, tx[t])
  BY DEF Sound
<1>1. PICK v : v = tx[t]
  OBVIOUS
<1>2. v.pc = "idle" /\ v.got = {}
  BY <1>1 DEF Init, IdleTx
<1>3. \A b \in Buckets : walletLock[b] # t
  BY NoTxApart DEF Init
<1>4. ASSUME NEW r \in Rows PROVE rows[r].status = "absent"
  BY DEF Init, Ledger!Init, Ledger!Blank
<1>5. t \in Granters => \A i \in DOMAIN GrantPlan[t] : GrantPlan[t][i].row \in Rows
  BY PlansAssumption
<1>6. TxSound(t, v)
  BY <1>2, <1>3, <1>4, <1>5 DEF TxSound, RowsHeld, PoolComplete, WalletsUsable, GrantSound,
       RevokeSound, ExpireSound, ConsumeSound, Secured, Finished
<1> QED BY <1>1, <1>6

LEMMA WaitsUnfinished == ASSUME NEW t \in Txs, InWaitCycle(t) PROVE tx[t].pc # "done"
<1>1. Blocker(t) # NoTx
  BY DEF InWaitCycle, Waits
<1> QED BY <1>1 DEF Blocker

LEMMA SoundStep == Inv /\ Sound /\ [Next]_vars => Sound'
<1> SUFFICES ASSUME Inv, Sound, [Next]_vars PROVE Sound'
  OBVIOUS
<1>1. CASE UNCHANGED vars
  BY <1>1, OthersSound DEF vars
<1>2. ASSUME NEW t \in Txs, Begin(t) PROVE Sound'
  BY <1>2, BeginSound
<1>3. ASSUME NEW t \in Txs, Lock(t) PROVE Sound'
  <2>1. RefuseWallet(t) => Fail(t) /\ tx[t].pc # "done"
    BY DEF RefuseWallet
  <2> QED BY <1>3, <2>1, LockWalletSound, LockRowSound, FailSound DEF Lock
<1>4. ASSUME NEW t \in Txs, Step(t) PROVE Sound'
  <2>1. CASE RevokeNothing(t)
    <3>1. Done(t) /\ LedgerSame
      BY <2>1 DEF RevokeNothing, LedgerSame
    <3> QED BY <3>1, DoneSound
  <2>2. CASE SelectRows(t) \/ RowsLocked(t) \/ ReadWindow(t)
    BY <2>2, SelectRowsSound, RowsLockedSound, ReadWindowSound
  <2>3. CASE PlanConsume(t) \/ DrawWindow(t)
    BY <2>3, PlanConsumeSound, DrawWindowSound
  <2>4. CASE WindowDrift(t) \/ DeadlockVictim(t)
    <3>1. Fail(t) /\ tx[t].pc # "done"
      BY <2>4, WaitsUnfinished DEF WindowDrift, DeadlockVictim
    <3> QED BY <3>1, FailSound
  <2>5. CASE CommitConsume(t) \/ CommitGrant(t) \/ CommitLoss(t)
    BY <2>5, CommitConsumeSound, CommitGrantSound, CommitLossSound
  <2> QED BY <1>4, <2>1, <2>2, <2>3, <2>4, <2>5 DEF Step
<1>5. ASSUME NEW e \in Entitlements, GrantEntitlement(e) \/ RevokeEntitlement(e) \/ ExpireEntitlement(e)
      PROVE  Sound'
  <2>1. UNCHANGED <<ledgerVars, lockVars, tx>>
    BY <1>5 DEF GrantEntitlement, RevokeEntitlement, ExpireEntitlement
  <2> QED BY <2>1, OthersSound DEF ledgerVars, lockVars
<1>6. ASSUME NEW b \in Buckets, NEW st \in {"active", "frozen"}, UpdateWalletStatus(b, st) PROVE Sound'
  <2>1. UNCHANGED <<rows, walletLock, rowLock, tx>>
    BY <1>6 DEF UpdateWalletStatus, lockVars
  <2>2. \A c \in Buckets : wallets'[c] = wallets[c] \/ (walletLock[c] = NoTx /\ wallets'[c] # "none")
    BY <1>6 DEF UpdateWalletStatus, Inv, LedgerGood
  <2> QED BY <2>1, <2>2, OthersSound
<1>7. CASE Tick
  BY <1>7, OthersSound DEF Tick, lockVars
<1> QED BY <1>1, <1>2, <1>3, <1>4, <1>5, <1>6, <1>7 DEF Next

-----------------------------------------------------------------------------
(* Every commit is a step of PointsLedger *)

Windowed ==
    [b \in Buckets |-> SumOf([k \in Keys |-> SumOf(wlog[k], 0..MaxTime)], {k \in Keys : k[1] = b})]

\* The window consumption of a bucket stays within the bound of PointsLedger: what
\* was drawn and what the consumes still to come may draw is within it.
WindowBound == \A b \in Buckets : Windowed[b] <= MaxWindowed
ToCome == [t \in Consumers |-> IF tx[t].pc = "done" THEN 0 ELSE MaxPoints]
Budget == Keys # {} => SumOf(Windowed, Buckets) + SumOf(ToCome, Consumers) <= MaxWindowed

LEMMA SumOfSame == ASSUME NEW f, NEW A PROVE Ledger!SumOf(f, A) = SumOf(f, A)
BY DEF Ledger!SumOf, SumOf, Ledger!MapThenSumSet, MapThenSumSet, Ledger!MapThenFoldSet, MapThenFoldSet

LEMMA LedgerInit == Init => Ledger!Init
BY DEF Init

LEMMA QuietRefines == ASSUME UNCHANGED ledgerVars PROVE UNCHANGED Ledger!vars
BY DEF ledgerVars, Ledger!vars

LEMMA TickRefines == ASSUME Tick PROVE Ledger!Next
<1>1. wlog' = wlog
  BY DEF Tick
<1>2. Ledger!Tick
  BY <1>1 DEF Tick, Ledger!Tick
<1> QED BY <1>2 DEF Ledger!Next

LEMMA StatusRefines ==
    ASSUME NEW b \in Buckets, NEW st \in {"active", "frozen"}, UpdateWalletStatus(b, st)
    PROVE  Ledger!Next
<1>1. wlog' = wlog
  BY DEF UpdateWalletStatus
<1>2. Ledger!UpdateWalletStatus(b, st)
  BY <1>1 DEF UpdateWalletStatus, Ledger!UpdateWalletStatus
<1> QED BY <1>2 DEF Ledger!Next

LEMMA GrantRefines == ASSUME Inv, Sound, NEW t \in Txs, CommitGrant(t) PROVE Ledger!Next
<1>1. PICK S, new : S = Inserted(t) /\ new = NewRows(t)
  OBVIOUS
<1>2. /\ t \in Granters /\ tx[t].pc = "commit"
      /\ rows' = [r \in Rows |-> IF r \in S THEN new[r] ELSE rows[r]]
      /\ wallets' = [b \in Buckets |-> IF walletLock[b] = t THEN Ledger!Ensured(b) ELSE wallets[b]]
      /\ recharged' = [b \in Buckets |-> recharged[b] + Ledger!RechargedBy(S, new, b)]
      /\ consumed' = consumed /\ recorded' = recorded /\ wlog' = wlog /\ clock' = clock
  BY <1>1, CommitGrantIs
<1>3. /\ S \in SUBSET Rows /\ new \in [S -> Ledger!FreshRow]
      /\ \A r \in S : \E i \in DOMAIN GrantPlan[t] :
           GrantPlan[t][i].row = r /\ new[r].bucket = GrantPlan[t][i].bucket
      /\ \A i \in DOMAIN GrantPlan[t] :
           /\ GrantPlan[t][i].row \in S
           /\ new[GrantPlan[t][i].row].bucket = GrantPlan[t][i].bucket
  BY <1>1, <1>2, RowsOfRules
<1>4. /\ DOMAIN GrantPlan[t] # {}
      /\ \A i \in DOMAIN GrantPlan[t] : /\ walletLock[GrantPlan[t][i].bucket] = t
                                       /\ rows[GrantPlan[t][i].row].status = "absent"
      /\ \A b \in Buckets : walletLock[b] = t => \E i \in DOMAIN GrantPlan[t] : GrantPlan[t][i].bucket = b
      /\ \A b \in Buckets : walletLock[b] = t => wallets[b] # "frozen"
  BY <1>2 DEF Sound, TxSound, GrantSound, WalletsUsable
<1>5. S # {}
  BY <1>3, <1>4
<1>6. \A b \in Buckets : walletLock[b] = t <=> \E r \in S : new[r].bucket = b
  <2> TAKE b \in Buckets
  <2>1. ASSUME walletLock[b] = t PROVE \E r \in S : new[r].bucket = b
    BY <1>3, <1>4, <2>1
  <2>2. ASSUME NEW r \in S, new[r].bucket = b PROVE walletLock[b] = t
    BY <1>3, <1>4, <2>2
  <2> QED BY <2>1, <2>2
<1>7. \A r \in S : rows[r].status = "absent" /\ Ledger!Usable(new[r].bucket)
  <2> TAKE r \in S
  <2>1. new[r].bucket \in Buckets
    BY <1>3 DEF Ledger!FreshRow
  <2>2. walletLock[new[r].bucket] = t /\ rows[r].status = "absent"
    BY <1>3, <1>4
  <2>3. wallets[new[r].bucket] \in Ledger!WalletStatus /\ wallets[new[r].bucket] # "frozen"
    BY <1>4, <2>1, <2>2 DEF Inv, LedgerGood
  <2> QED BY <2>2, <2>3 DEF Ledger!Usable, Ledger!WalletStatus
<1>8. wallets' = [b \in Buckets |-> IF \E r \in S : new[r].bucket = b THEN Ledger!Ensured(b) ELSE wallets[b]]
  BY <1>2, <1>6
<1>9. Ledger!Grant(S, new)
  BY <1>2, <1>5, <1>7, <1>8 DEF Ledger!Grant
<1>10. Ledger!GrantSome
  BY <1>3, <1>9 DEF Ledger!GrantSome
<1> QED BY <1>10 DEF Ledger!Next

LEMMA LossRefines == ASSUME Inv, Sound, NEW t \in Txs, CommitLoss(t) PROVE Ledger!Next
<1>1. PICK G : G = tx[t].got
  OBVIOUS
<1>2. /\ t \in Revokers \cup Refunders \cup Expirers /\ tx[t].pc = "commit"
      /\ wallets' = wallets /\ recharged' = recharged /\ consumed' = consumed
      /\ wlog' = wlog /\ clock' = clock
      /\ rows' = [r \in Rows |-> IF r \in G THEN Struck(t, r) ELSE rows[r]]
      /\ recorded' = [r \in Rows |-> recorded[r] + (IF r \in G THEN Loss(t, r) ELSE 0)]
  BY <1>1 DEF CommitLoss
<1>3. G \in SUBSET Rows /\ tx[t].now <= clock /\ tx[t].now \in Nat /\ clock \in Nat
  <2>1. tx[t].got \subseteq Rows /\ tx[t].now <= clock /\ tx[t].now \in 0..MaxTime
    BY TxFields
  <2>2. clock \in 0..MaxTime /\ MaxTime \in Nat
    BY LedgerAssumption DEF Inv, LedgerGood
  <2> QED BY <1>1, <2>1, <2>2
<1>4. \A r \in G : Matches(t, tx[t].now, rows[r])
  BY <1>1 DEF Sound, TxSound, RowsHeld
<1>5. \A r \in Rows : Remaining(rows[r]) = Ledger!Remaining(rows[r]) /\ Remaining(rows[r]) \in Nat
  BY RowFields DEF Inv, Remaining
<1>6. \A r \in G : Ledger!Live(rows[r]) /\ Remaining(rows[r]) # 0
  <2> TAKE r \in G
  <2>1. Ledger!Live(rows[r])
    BY <1>2, <1>4, MatchLive, TxsAssumption
  <2> QED BY <1>3, <1>5, <2>1 DEF Ledger!Live
<1>7. CASE t \in Revokers
  <2>1. PICK b \in Buckets, c \in CreditTypes : b = RevokePlan[t].bucket /\ c = RevokePlan[t].ctype
    BY <1>7, PlansAssumption
  <2>2. wallets[b] # "none"
    BY <1>2, <1>7, <2>1 DEF Sound, TxSound, RevokeSound, Secured
  <2>3. \A r \in Rows : Matches(t, tx[t].now, rows[r])
                          <=> rows[r].bucket = b /\ rows[r].ctype = c /\ Ledger!Live(rows[r])
    BY <1>7, <2>1, TxsAssumption DEF Matches
  <2>4. \A r \in Rows : Matches(t, tx[t].now, rows[r]) => r \in G
    BY <1>1, <1>2, <1>7 DEF Sound, TxSound, PoolComplete
  <2>5. G = {r \in Rows : rows[r].bucket = b /\ rows[r].ctype = c /\ Ledger!Live(rows[r])}
    BY <1>3, <1>4, <2>3, <2>4
  <2>6. t \notin Expirers /\ t \notin Refunders
    BY <1>7, TxsAssumption
  <2>7. \A r \in Rows : Loss(t, r) = Ledger!Remaining(rows[r])
    BY <1>5, <2>6 DEF Loss
  <2>8. \A r \in G : Struck(t, r) = Ledger!Revocation(rows[r], Ledger!Remaining(rows[r]))
    BY <1>3, <1>5, <1>6, <2>6, <2>7 DEF Struck
  <2>9. Ledger!RevokeAll(G)
    BY <1>2, <2>7, <2>8 DEF Ledger!RevokeAll
  <2>10. Ledger!RevokeByCreditType(b, c)
    BY <2>2, <2>5, <2>9 DEF Ledger!RevokeByCreditType
  <2> QED BY <2>10 DEF Ledger!Next, Ledger!RevokeSome
<1>8. CASE t \in Refunders
  <2>1. PICK share \in Shares : share = RefundPlan[t].share
    BY <1>8, PlansAssumption
  <2>2. \A r \in G : rows[r].source = RefundPlan[t].source /\ rows[r].ctype = "topup_credit"
    BY <1>4, <1>8, TxsAssumption DEF Matches
  <2>3. t \notin Expirers
    BY <1>8, TxsAssumption
  <2> DEFINE due == [r \in Rows |-> IF r \in G
                       THEN Ledger!Proportional(rows[r].granted, Ledger!Remaining(rows[r]), share) ELSE 0]
  <2>4. \A r \in Rows : due[r] = IF r \in G THEN Loss(t, r) ELSE 0
    BY <1>5, <1>8, <2>1 DEF Loss
  <2>5. \A r \in G : Struck(t, r) = IF due[r] = 0 THEN rows[r] ELSE Ledger!Revocation(rows[r], due[r])
    BY <1>3, <2>3, <2>4 DEF Struck
  <2>6. rows' = [r \in Rows |-> IF due[r] = 0 THEN rows[r] ELSE Ledger!Revocation(rows[r], due[r])]
    <3>1. \A r \in Rows : rows'[r] = IF due[r] = 0 THEN rows[r] ELSE Ledger!Revocation(rows[r], due[r])
      <4> HIDE DEF due
      <4> TAKE r \in Rows
      <4>1. CASE r \in G
        BY <1>2, <2>5, <4>1
      <4>2. CASE r \notin G
        BY <1>2, <2>4, <4>2
      <4> QED BY <4>1, <4>2
    <3> HIDE DEF due
    <3> QED BY <1>2, <3>1
  <2>7. recorded' = [r \in Rows |-> recorded[r] + due[r]]
    <3> HIDE DEF due
    <3> QED BY <1>2, <2>4
  <2>8. Ledger!RefundTopup(G, share)
    BY <1>2, <1>6, <2>2, <2>6, <2>7 DEF Ledger!RefundTopup
  <2> QED BY <1>3, <2>8 DEF Ledger!Next
<1>9. CASE t \in Expirers
  <2>1. G # {}
    BY <1>1, <1>2, <1>9 DEF Sound, TxSound, ExpireSound
  <2>2. t \notin Refunders
    BY <1>9, TxsAssumption
  <2>3. \A r \in G : rows[r].expires <= clock
    <3> TAKE r \in G
    <3>1. rows[r].expires <= tx[t].now
      BY <1>4, <1>9, TxsAssumption DEF Matches
    <3>2. rows[r].expires \in 1..(MaxTime + 1) /\ MaxTime \in Nat
      BY <1>3, LedgerAssumption DEF Inv, LedgerGood, Ledger!RowType, Ledger!Never
    <3> QED BY <1>3, <3>1, <3>2
  <2>4. \A r \in Rows : Loss(t, r) = Ledger!Remaining(rows[r]) /\ Struck(t, r) = [rows[r] EXCEPT !.status = "expired"]
    BY <1>5, <1>9, <2>2 DEF Loss, Struck
  <2>5. Ledger!ExpirePoints(G)
    BY <1>2, <1>6, <2>1, <2>3, <2>4 DEF Ledger!ExpirePoints
  <2> QED BY <1>3, <2>5 DEF Ledger!Next
<1> QED BY <1>2, <1>7, <1>8, <1>9

\* What a consume takes from its rows, and draws from its windows.
LEMMA TakeIs ==
    ASSUME Inv, Sound, NEW t \in Txs, CommitConsume(t), NEW f, f = [s \in Rows |-> Remaining(rows[s])],
           NEW P, P = tx[t].want - SumOf(tx[t].drawn, Keys)
    PROVE  /\ P \in Nat /\ P <= SumOf(f, tx[t].got) /\ SumOf(tx[t].drawn, Keys) \in Nat
           /\ tx[t].want \in 1..MaxPoints
           /\ \A r \in Rows : f[r] \in Nat
           /\ \A r \in tx[t].got :
                Take(t)[r] = UpTo(f[r], P - SumOf(f, {s \in tx[t].got : Ledger!Before(s, r)}))
           /\ \A r \in Rows \ tx[t].got : Take(t)[r] = 0
<1>1. LedgerGood /\ t \in Consumers /\ tx[t].pc = "commit" /\ tx[t].left = 0
  BY DEF Inv, CommitConsume
<1>2. \A r \in Rows : f[r] = Remaining(rows[r]) /\ f[r] \in Nat
  BY <1>1, RowFields
<1>3. tx[t].got \in SUBSET Rows /\ tx[t].avail \in Nat /\ tx[t].drawn \in [Keys -> Nat]
  BY TxFields
<1>4. ASSUME NEW A \in SUBSET Rows PROVE SumOf(f, A) \in Nat
  <2>1. IsFiniteSet(A) /\ \A r \in A : f[r] \in Nat
    BY <1>2, FiniteAssumption, FS_Subset
  <2> QED BY <2>1, SumNat
<1>5. SumOf(tx[t].drawn, Keys) \in Nat
  <2>1. \A k \in Keys : tx[t].drawn[k] \in Nat
    BY <1>3
  <2> QED BY <2>1, KeysFinite, SumNat
<1>6. /\ tx[t].want \in 1..MaxPoints
      /\ tx[t].want <= tx[t].avail + SumOf(f, tx[t].got)
      /\ SumOf(tx[t].drawn, Keys) + tx[t].left = (IF tx[t].want <= tx[t].avail THEN tx[t].want ELSE tx[t].avail)
  BY <1>1 DEF Sound, TxSound, ConsumeSound, Finished
<1>7. PICK w, a, d, p : w = tx[t].want /\ a = tx[t].avail /\ d = SumOf(tx[t].drawn, Keys) /\ p = SumOf(f, tx[t].got)
  OBVIOUS
<1>8. w \in 1..MaxPoints /\ a \in Nat /\ d \in Nat /\ p \in Nat /\ MaxPoints \in Nat
  BY <1>3, <1>4, <1>5, <1>6, <1>7, LedgerAssumption
<1>9. w <= a + p /\ d + 0 = (IF w <= a THEN w ELSE a) /\ P = w - d
  BY <1>1, <1>6, <1>7
<1>10. P \in Nat /\ P <= p
  BY ONLY <1>8, <1>9
<1>11. ASSUME NEW r \in Rows, r \in tx[t].got
       PROVE  Take(t)[r] = UpTo(f[r], P - SumOf(f, {s \in tx[t].got : Ledger!Before(s, r)}))
  <2>1. PICK B : B = {s \in tx[t].got : Ledger!Before(s, r)}
    OBVIOUS
  <2>2. B \in SUBSET Rows
    BY <1>3, <2>1
  <2>3. PICK h, n, x, m : h = SumOf(f, B) /\ n = Remaining(rows[r]) /\ x = P - h /\ m = Min({n, x})
    OBVIOUS
  <2>4. h \in Nat /\ n \in Nat /\ n = f[r]
    BY <1>2, <1>4, <2>2, <2>3
  <2>5. Take(t)[r] = Max({0, m})
    BY <1>11, <2>1, <2>3 DEF Take
  <2>6. x \in Int
    BY <1>10, <2>3, <2>4
  <2>7. m = IF n <= x THEN n ELSE x
    BY <2>3, <2>4, <2>6, MinOfTwo
  <2>8. m \in Int
    BY <2>4, <2>6, <2>7
  <2>9. Max({0, m}) = IF 0 >= m THEN 0 ELSE m
    BY <2>8, MaxOfTwo
  <2>10. Max({0, m}) = UpTo(n, x)
    BY ONLY <2>4, <2>6, <2>7, <2>9 DEF UpTo
  <2> QED BY <2>1, <2>3, <2>4, <2>5, <2>10
<1>12. \A r \in Rows \ tx[t].got : Take(t)[r] = 0
  BY DEF Take
<1> QED BY <1>2, <1>3, <1>5, <1>6, <1>7, <1>10, <1>11, <1>12

\* The order of the rows a consume takes from is total.
LEMMA BeforeOrders ==
    ASSUME LedgerGood, NEW A \in SUBSET Rows
    PROVE  Ordered({p \in A \X A : Ledger!Before(p[1], p[2])}, A)
<1>1. \A r \in A : rows[r].expires \in Nat /\ r \in Nat
  <2> TAKE r \in A
  <2>1. rows[r].expires \in 1..(MaxTime + 1) /\ MaxTime \in Nat
    BY LedgerAssumption DEF LedgerGood, Ledger!RowType, Ledger!Never
  <2> QED BY <2>1, LedgerAssumption
<1>2. \A r, s \in A : Ledger!Before(r, s) <=> rows[r].expires < rows[s].expires
                                             \/ (rows[r].expires = rows[s].expires /\ r < s)
  BY DEF Ledger!Before
<1> DEFINE R == {p \in A \X A : Ledger!Before(p[1], p[2])}
<1>3. \A r, s \in A : <<r, s>> \in R <=> Ledger!Before(r, s)
  OBVIOUS
<1> HIDE DEF R
<1>4. \A r \in A : <<r, r>> \notin R
  BY <1>1, <1>2, <1>3
<1>5. \A r, s \in A : r # s => <<r, s>> \in R \/ <<s, r>> \in R
  BY <1>1, <1>2, <1>3
<1>6. \A r, s, u \in A : <<r, s>> \in R /\ <<s, u>> \in R => <<r, u>> \in R
  BY <1>1, <1>2, <1>3
<1>7. Ordered(R, A)
  BY <1>4, <1>5, <1>6 DEF Ordered
<1> QED BY <1>7 DEF R

\* The greedy loop takes exactly the part the windows left to the pool.
LEMMA PoolGivesAll ==
    ASSUME Inv, Sound, NEW t \in Txs, CommitConsume(t)
    PROVE  SumOf(Take(t), Rows) = tx[t].want - SumOf(tx[t].drawn, Keys)
<1>1. PICK f, P, G, R, g : /\ f = [s \in Rows |-> Remaining(rows[s])]
                          /\ P = tx[t].want - SumOf(tx[t].drawn, Keys)
                          /\ G = tx[t].got /\ R = {p \in G \X G : Ledger!Before(p[1], p[2])} /\ g = Take(t)
  OBVIOUS
<1>2. /\ P \in Nat /\ P <= SumOf(f, G) /\ (\A r \in Rows : f[r] \in Nat)
      /\ \A r \in G : g[r] = UpTo(f[r], P - SumOf(f, {s \in G : Ledger!Before(s, r)}))
      /\ \A r \in Rows \ G : g[r] = 0
  <2>1. /\ f = [s \in Rows |-> Remaining(rows[s])]
        /\ P = tx[t].want - SumOf(tx[t].drawn, Keys)
    BY <1>1
  <2>2. /\ P \in Nat /\ P <= SumOf(f, tx[t].got)
        /\ \A r \in Rows : f[r] \in Nat
        /\ \A r \in tx[t].got :
             Take(t)[r] = UpTo(f[r], P - SumOf(f, {s \in tx[t].got : Ledger!Before(s, r)}))
        /\ \A r \in Rows \ tx[t].got : Take(t)[r] = 0
    BY <2>1, TakeIs
  <2>3. G = tx[t].got /\ g = Take(t)
    BY <1>1
  <2> QED BY ONLY <2>2, <2>3
<1>3. G \in SUBSET Rows /\ IsFiniteSet(G)
  BY <1>1, TxFields, FiniteAssumption, FS_Subset
<1>4. Ordered(R, G)
  BY <1>1, <1>3, BeforeOrders DEF Inv
<1>5. \A r \in G : g[r] = UpTo(f[r], P - SumOf(f, {s \in G : <<s, r>> \in R}))
  <2> TAKE r \in G
  <2>1. {s \in G : <<s, r>> \in R} = {s \in G : Ledger!Before(s, r)}
    BY <1>1
  <2> QED BY <1>2, <2>1
<1>6. \A r \in G : f[r] \in Nat
  BY <1>2, <1>3
<1>7. SumOf(g, G) = UpTo(SumOf(f, G), P)
  BY <1>2, <1>3, <1>4, <1>5, <1>6, GreedySum
<1>8. SumOf(f, G) \in Nat
  BY <1>3, <1>6, SumNat
<1>9. SumOf(g, G) = P
  BY <1>2, <1>7, <1>8 DEF UpTo
<1>10. \A r \in Rows : g[r] = IF r \in G THEN g[r] ELSE 0
  BY <1>2
<1>11. \A r \in G : g[r] \in Int
  BY <1>1, <1>3, TakeWithin
<1>12. SumOf(g, Rows) = SumOf(g, G)
  BY <1>3, <1>10, <1>11, FiniteAssumption, SumOver
<1> QED BY <1>1, <1>9, <1>12

\* Nothing is taken from a row while one that expires sooner has points left.
LEMMA NearestTaken ==
    ASSUME Inv, Sound, NEW t \in Txs, CommitConsume(t)
    PROVE  Ledger!TakesNearestExpiry(AppOf[t], tx[t].now, Take(t))
<1>1. PICK f, P : /\ f = [s \in Rows |-> Remaining(rows[s])]
                  /\ P = tx[t].want - SumOf(tx[t].drawn, Keys)
  OBVIOUS
<1> DEFINE G == tx[t].got
           ahead(r) == {s \in G : Ledger!Before(s, r)}
           pool == {r \in Rows : rows[r].bucket \in Covered[AppOf[t]] /\ Ledger!Spendable(rows[r], tx[t].now)}
<1>2. /\ P \in Nat /\ (\A r \in Rows : f[r] \in Nat)
      /\ \A r \in G : Take(t)[r] = UpTo(f[r], P - SumOf(f, ahead(r)))
      /\ \A r \in Rows \ G : Take(t)[r] = 0
  BY <1>1, TakeIs
<1>3. t \in Consumers /\ tx[t].pc = "commit"
  BY DEF CommitConsume
<1>4. \A w : Matches(t, tx[t].now, w)
              <=> w.bucket \in Covered[AppOf[t]] /\ Ledger!Spendable(w, tx[t].now)
  <2> TAKE w
  <2>1. CASE w.bucket \in Covered[AppOf[t]] /\ Ledger!Spendable(w, tx[t].now)
    BY <1>3, <2>1, TxsAssumption DEF Matches
  <2>2. CASE ~(w.bucket \in Covered[AppOf[t]] /\ Ledger!Spendable(w, tx[t].now))
    BY <1>3, <2>2, TxsAssumption DEF Matches
  <2> QED BY <2>1, <2>2
<1>5. G \in SUBSET Rows /\ IsFiniteSet(G)
  BY TxFields, FiniteAssumption, FS_Subset
<1>6. G = pool
  <2>1. \A r \in G : Matches(t, tx[t].now, rows[r])
    BY DEF Sound, TxSound, RowsHeld
  <2>2. \A r \in Rows : Matches(t, tx[t].now, rows[r]) => r \in G
    BY <1>3 DEF Sound, TxSound, PoolComplete
  <2> QED BY <1>4, <1>5, <2>1, <2>2
<1>7. ASSUME NEW r \in Rows, Take(t)[r] > 0
      PROVE  r \in G /\ Take(t)[r] <= Ledger!Remaining(rows[r])
  <2>1. r \in G
    BY <1>2, <1>7
  <2> QED BY <2>1, TakeWithin DEF Remaining
<1>8. ASSUME NEW r \in Rows, Take(t)[r] > 0, NEW s \in G, Ledger!Before(s, r)
      PROVE  Take(t)[s] = Ledger!Remaining(rows[s])
  <2>1. r \in G /\ s \in Rows
    BY <1>5, <1>7, <1>8
  <2>2. PICK A, B : A = ahead(s) /\ B = ahead(r)
    OBVIOUS
  <2>3. Ordered({p \in G \X G : Ledger!Before(p[1], p[2])}, G)
    BY <1>5, BeforeOrders DEF Inv
  <2>4. \A x, y \in G : <<x, y>> \in {p \in G \X G : Ledger!Before(p[1], p[2])} <=> Ledger!Before(x, y)
    OBVIOUS
  <2>5. s \notin A /\ A \cup {s} \subseteq B
    <3>1. ~Ledger!Before(s, s)
      BY <2>3, <2>4 DEF Ordered
    <3>2. \A x \in G : Ledger!Before(x, s) => Ledger!Before(x, r)
      BY <1>8, <2>1, <2>3, <2>4 DEF Ordered
    <3> QED BY <1>8, <2>2, <3>1, <3>2
  <2>6. B \in SUBSET Rows /\ A \in SUBSET Rows /\ A \cup {s} \in SUBSET B
    BY <1>5, <2>2, <2>5
  <2>7. IsFiniteSet(A) /\ IsFiniteSet(B)
    BY <2>6, FiniteAssumption, FS_Subset
  <2>8. (\A x \in A \cup {s} : f[x] \in Int) /\ (\A x \in B : f[x] \in Nat) /\ (\A x \in A : f[x] \in Nat)
    BY <1>2, <2>1, <2>6
  <2>9. SumOf(f, A \cup {s}) = SumOf(f, A) + f[s]
    BY <2>5, <2>7, <2>8, SumAdjoin
  <2>10. SumOf(f, A \cup {s}) <= SumOf(f, B)
    BY <2>6, <2>7, <2>8, SumSubset
  <2>11. SumOf(f, A) \in Nat /\ SumOf(f, B) \in Nat /\ f[s] \in Nat /\ f[r] \in Nat
    BY <1>2, <2>1, <2>7, <2>8, SumNat
  <2>12. PICK a, b, m, n : a = SumOf(f, A) /\ b = SumOf(f, B) /\ m = f[s] /\ n = f[r]
    OBVIOUS
  <2>13. UpTo(n, P - b) > 0 /\ Take(t)[s] = UpTo(m, P - a)
    BY <1>2, <1>8, <2>1, <2>2, <2>12
  <2>14. a + m <= b /\ a \in Nat /\ b \in Nat /\ m \in Nat /\ n \in Nat
    BY <2>9, <2>10, <2>11, <2>12
  <2>15. UpTo(m, P - a) = m
    <3>1. P - b > 0
      BY <1>2, <2>13, <2>14 DEF UpTo
    <3> QED BY ONLY <1>2, <2>14, <3>1 DEF UpTo
  <2>16. m = Ledger!Remaining(rows[s])
    BY <1>1, <2>1, <2>12 DEF Remaining
  <2> QED BY <2>13, <2>15, <2>16
<1> HIDE DEF G, ahead
<1> QED BY <1>6, <1>7, <1>8 DEF Ledger!TakesNearestExpiry

\* What the window rows of a consume add to each bucket.
LEMMA WindowedAdds ==
    ASSUME Inv, NEW t \in Txs, CommitConsume(t), NEW b \in Buckets
    PROVE  /\ Windowed'[b] = Windowed[b] + DrawnFrom(t, b)
           /\ Windowed[b] \in Nat /\ DrawnFrom(t, b) \in Nat
<1> DEFINE f == [k \in Keys |-> SumOf(wlog[k], 0..MaxTime)]
           h == [k \in Keys |-> SumOf(wlog'[k], 0..MaxTime)]
           d == tx[t].drawn
           A == {k \in Keys : k[1] = b}
<1>1. /\ wlog' = [k \in Keys |-> [wlog[k] EXCEPT ![tx[t].now] = @ + tx[t].drawn[k]]]
  BY DEF CommitConsume
<1>2. tx[t].drawn \in [Keys -> Nat] /\ tx[t].now \in 0..MaxTime
  BY TxFields
<1>3. ASSUME NEW k \in Keys
      PROVE  f[k] \in Nat /\ d[k] \in Nat /\ h[k] = f[k] + d[k]
  <2>1. PICK e, g, n : e = wlog[k] /\ g = wlog'[k] /\ n = tx[t].now
    OBVIOUS
  <2>2. PICK T : T = 0..MaxTime
    OBVIOUS
  <2>3. IsFiniteSet(T) /\ n \in T
    BY <1>2, <2>1, <2>2, LedgerAssumption, FS_Interval
  <2>4. e \in [T -> Nat] /\ d[k] \in Nat
    BY <1>2, <2>1, <2>2 DEF Inv, WindowsGood
  <2>5. g = [e EXCEPT ![n] = e[n] + d[k]]
    BY <1>1, <2>1
  <2> HIDE DEF d
  <2>6. \A x \in T : e[x] \in Nat
    BY <2>4
  <2>7. g[n] = e[n] + d[k] /\ \A x \in T \ {n} : g[x] = e[x]
    BY <2>3, <2>4, <2>5
  <2>8. g[n] \in Int /\ \A x \in T : e[x] \in Int
    BY <2>3, <2>4, <2>6, <2>7
  <2>9. SumOf(g, T) = SumOf(e, T) - e[n] + g[n]
    BY <2>3, <2>7, <2>8, SumUpdate
  <2>10. SumOf(e, T) \in Nat
    BY <2>3, <2>6, SumNat
  <2>11. SumOf(g, T) = SumOf(e, T) + d[k]
    BY <2>3, <2>4, <2>6, <2>7, <2>9, <2>10
  <2>12. f[k] = SumOf(e, T) /\ h[k] = SumOf(g, T)
    BY <2>1, <2>2
  <2> QED BY <2>4, <2>10, <2>11, <2>12
<1>4. Windowed'[b] = SumOf(h, A) /\ Windowed[b] = SumOf(f, A) /\ DrawnFrom(t, b) = SumOf(d, A)
  BY DEF Windowed, DrawnFrom
<1>5. A \in SUBSET Keys /\ IsFiniteSet(A)
  BY KeysFinite, FS_Subset
<1> HIDE DEF f, h, d, A
<1>6. \A k \in A : f[k] \in Int /\ d[k] \in Int /\ h[k] = f[k] + d[k]
  BY <1>3, <1>5
<1>7. SumOf(h, A) = SumOf(f, A) + SumOf(d, A)
  BY <1>5, <1>6, SumAdd
<1>8. SumOf(f, A) \in Nat /\ SumOf(d, A) \in Nat
  <2>1. \A k \in A : f[k] \in Nat /\ d[k] \in Nat
    BY <1>3, <1>5
  <2> QED BY <1>5, <2>1, SumNat
<1> QED BY <1>4, <1>7, <1>8

LEMMA DrawnByBucket ==
    ASSUME Inv, NEW t \in Txs, NEW draw, draw = [b \in Buckets |-> DrawnFrom(t, b)]
    PROVE  SumOf(draw, Buckets) = SumOf(tx[t].drawn, Keys)
<1>1. \A k \in Keys : k[1] \in Buckets
  BY DEF Keys
<1>2. \A k \in Keys : tx[t].drawn[k] \in Int
  <2>1. tx[t].drawn \in [Keys -> Nat]
    BY TxFields
  <2> QED BY <2>1
<1>3. \A b \in Buckets : draw[b] = SumOf(tx[t].drawn, {k \in Keys : k[1] = b})
  BY DEF DrawnFrom
<1> QED BY <1>1, <1>2, <1>3, KeysFinite, FiniteAssumption, SumByFirst

LEMMA ConsumeRefines ==
    ASSUME Inv, Sound, WindowBound', NEW t \in Txs, CommitConsume(t) PROVE Ledger!Next
<1>1. PICK app, now, take, draw : /\ app = AppOf[t] /\ now = tx[t].now /\ take = Take(t)
                                  /\ draw = [b \in Buckets |-> DrawnFrom(t, b)]
  OBVIOUS
<1>2. /\ t \in Consumers /\ tx[t].pc = "commit"
      /\ rows' = [r \in Rows |-> IF take[r] = 0 THEN rows[r] ELSE Ledger!Consumption(rows[r], take[r])]
      /\ wallets' = [b \in Buckets |-> IF b \in Covered[app] THEN Ledger!Ensured(b) ELSE wallets[b]]
      /\ consumed' = [b \in Buckets |-> consumed[b] + DrawnFrom(t, b)
                                       + SumOf(take, {r \in Rows : rows[r].bucket = b})]
      /\ recharged' = recharged /\ recorded' = recorded /\ clock' = clock
  BY <1>1 DEF CommitConsume
<1>3. /\ app \in Apps /\ Covered[app] \in SUBSET Buckets /\ Covered[app] # {}
      /\ now \in 0..MaxTime /\ now <= clock
  <2>1. Covered[AppOf[t]] # {}
    BY <1>2 DEF Sound, TxSound, ConsumeSound, Finished
  <2>2. AppOf[t] \in Apps
    BY <1>2, TxsAssumption
  <2> QED BY <1>1, <1>2, <2>1, <2>2, AppCovers, TxFields
<1>4. \A b \in Covered[app] : Ledger!Usable(b)
  <2> TAKE b \in Covered[app]
  <2>1. walletLock[b] = t
    BY <1>1, <1>2, TxFields DEF TxGood, Secured
  <2>2. wallets[b] # "frozen" /\ wallets[b] \in Ledger!WalletStatus
    BY <1>2, <1>3, <2>1 DEF Sound, TxSound, WalletsUsable, Inv, LedgerGood
  <2> QED BY <2>2 DEF Ledger!Usable, Ledger!WalletStatus
<1>5. ASSUME NEW b \in Buckets
      PROVE  /\ draw[b] = DrawnFrom(t, b) /\ draw[b] \in Nat /\ Windowed[b] \in Nat
             /\ Windowed'[b] = Windowed[b] + draw[b] /\ Windowed[b] + draw[b] <= MaxWindowed
             /\ draw[b] \in 0..MaxWindowed
  <2>1. draw[b] = DrawnFrom(t, b)
    BY <1>1
  <2>2. draw[b] \in Nat /\ Windowed[b] \in Nat /\ Windowed'[b] = Windowed[b] + draw[b]
    BY <2>1, WindowedAdds
  <2>3. Windowed'[b] <= MaxWindowed /\ MaxWindowed \in Nat
    BY LedgerAssumption DEF WindowBound
  <2> QED BY <2>1, <2>2, <2>3
<1>6. ASSUME NEW b \in Buckets, draw[b] > 0 PROVE b \in Covered[app]
  <2>1. SUFFICES ASSUME b \notin Covered[app] PROVE FALSE
    OBVIOUS
  <2> DEFINE A == {k \in Keys : k[1] = b}
  <2>2. \A k \in A : tx[t].drawn[k] = 0
    <3> TAKE k \in A
    <3>1. tx[t].drawn[k] \in Nat
      BY TxFields
    <3>2. tx[t].drawn[k] > 0 => k[1] \in Covered[AppOf[t]]
      BY TxFields DEF TxGood, AllKeys
    <3> QED BY <1>1, <2>1, <3>1, <3>2
  <2>3. IsFiniteSet(A)
    BY KeysFinite, FS_Subset
  <2>4. draw[b] = SumOf(tx[t].drawn, A)
    BY <1>5 DEF DrawnFrom
  <2> HIDE DEF A
  <2>5. SumOf(tx[t].drawn, A) = 0
    BY <2>2, <2>3, SumZero
  <2> QED BY <1>6, <2>4, <2>5
<1>7. take \in [Rows -> 0..MaxPoints] /\ draw \in [Buckets -> 0..MaxWindowed]
  <2>1. ASSUME NEW r \in Rows PROVE take[r] \in 0..MaxPoints
    <3>1. take[r] \in Nat /\ take[r] <= Remaining(rows[r])
      BY <1>1, TakeWithin
    <3>2. Remaining(rows[r]) <= MaxPoints /\ Remaining(rows[r]) \in Nat /\ MaxPoints \in Nat
      BY RowFields DEF Inv
    <3> QED BY <3>1, <3>2
  <2>2. take = [r \in Rows |-> take[r]]
    BY <1>1 DEF Take
  <2>3. draw = [b \in Buckets |-> draw[b]]
    BY <1>1
  <2> QED BY <1>5, <2>1, <2>2, <2>3
<1>8. SumOf(take, Rows) + SumOf(draw, Buckets) \in 1..MaxPoints
  <2>1. SumOf(take, Rows) = tx[t].want - SumOf(tx[t].drawn, Keys)
    BY <1>1, PoolGivesAll
  <2>2. tx[t].want \in 1..MaxPoints
    BY <1>2 DEF Sound, TxSound, ConsumeSound, Finished
  <2>3. SumOf(draw, Buckets) = SumOf(tx[t].drawn, Keys)
    BY <1>1, DrawnByBucket
  <2>4. SumOf(tx[t].drawn, Keys) \in Int
    <3>1. tx[t].drawn \in [Keys -> Nat]
      BY TxFields
    <3>2. \A k \in Keys : tx[t].drawn[k] \in Int
      BY <3>1
    <3> QED BY <3>2, KeysFinite, SumInt
  <2>5. PICK w, d, x, y : /\ w = tx[t].want /\ d = SumOf(tx[t].drawn, Keys)
                          /\ x = SumOf(take, Rows) /\ y = SumOf(draw, Buckets)
    OBVIOUS
  <2>6. x = w - d /\ y = d /\ w \in 1..MaxPoints /\ d \in Int /\ MaxPoints \in Nat
    BY <2>1, <2>2, <2>3, <2>4, <2>5, LedgerAssumption
  <2>7. x + y \in 1..MaxPoints
    BY ONLY <2>6
  <2> QED BY <2>5, <2>7
<1>9. Windowed' = [b \in Buckets |-> Windowed[b] + draw[b]]
  <2>1. Windowed' = [b \in Buckets |-> Windowed'[b]]
    BY DEF Windowed
  <2> QED BY <1>5, <2>1
<1>10. consumed' = [b \in Buckets |-> Ledger!ConsumedAfter(b, take, draw)]
  <2>1. ASSUME NEW b \in Buckets
        PROVE  consumed[b] + DrawnFrom(t, b) + SumOf(take, {r \in Rows : rows[r].bucket = b})
                 = Ledger!ConsumedAfter(b, take, draw)
    BY <1>5, SumOfSame DEF Ledger!ConsumedAfter
  <2> QED BY <1>2, <2>1
<1>11. Ledger!TakesNearestExpiry(app, now, take)
  BY <1>1, NearestTaken
<1>12. \A b \in Buckets : draw[b] > 0 => b \in Covered[app] /\ Windowed[b] + draw[b] <= MaxWindowed
  BY <1>5, <1>6
<1>13. Ledger!Consume(app, now, take, draw)
  <2>1. Ledger!SumOf(take, Rows) + Ledger!SumOf(draw, Buckets) \in Ledger!Points
    BY <1>8, SumOfSame DEF Ledger!Points
  <2> QED BY <1>2, <1>3, <1>4, <1>9, <1>10, <1>11, <1>12, <2>1 DEF Ledger!Consume, Windowed
<1>14. Ledger!ConsumeSome
  BY <1>3, <1>7, <1>13 DEF Ledger!ConsumeSome, Ledger!Time
<1> QED BY <1>14 DEF Ledger!Next

-----------------------------------------------------------------------------
(* A consume commits once, so window consumption is bounded *)

LEMMA BudgetTerms ==
    ASSUME Inv
    PROVE  /\ \A b \in Buckets : Windowed[b] \in Nat
           /\ \A t \in Consumers : ToCome[t] \in Nat
           /\ SumOf(Windowed, Buckets) \in Nat /\ SumOf(ToCome, Consumers) \in Nat
           /\ \A b \in Buckets : Windowed[b] <= SumOf(Windowed, Buckets)
<1>1. \A b \in Buckets : Windowed[b] \in Nat
  <2> TAKE b \in Buckets
  <2>1. Windowed[b] = SumOf([k \in Keys |-> SumOf(wlog[k], 0..MaxTime)], {k \in Keys : k[1] = b})
    BY DEF Windowed
  <2> QED BY <2>1, DrawnNat DEF Inv
<1>2. \A t \in Consumers : ToCome[t] \in Nat
  BY LedgerAssumption DEF ToCome
<1>3. SumOf(Windowed, Buckets) \in Nat /\ \A b \in Buckets : Windowed[b] <= SumOf(Windowed, Buckets)
  BY <1>1, FiniteAssumption, SumNat
<1>4. SumOf(ToCome, Consumers) \in Nat
  BY <1>2, WindowedAssumption, SumNat
<1> QED BY <1>1, <1>2, <1>3, <1>4

LEMMA BudgetBounds == ASSUME Inv, Budget PROVE WindowBound
<1> SUFFICES ASSUME NEW b \in Buckets PROVE Windowed[b] <= MaxWindowed
  BY DEF WindowBound
<1>1. MaxWindowed \in Nat
  BY LedgerAssumption
<1>2. CASE Keys = {}
  <2>1. {k \in Keys : k[1] = b} = {}
    BY <1>2
  <2>2. Windowed[b] = SumOf([k \in Keys |-> SumOf(wlog[k], 0..MaxTime)], {})
    BY <2>1 DEF Windowed
  <2>3. Windowed[b] = 0
    BY <2>2, SumEmpty
  <2> QED BY <1>1, <2>3
<1>3. CASE Keys # {}
  <2>1. SumOf(Windowed, Buckets) + SumOf(ToCome, Consumers) <= MaxWindowed
    BY <1>3 DEF Budget
  <2> QED BY <1>1, <2>1, BudgetTerms
<1> QED BY <1>2, <1>3

LEMMA BudgetInit == Init => Budget
<1> SUFFICES ASSUME Init, Keys # {} PROVE SumOf(Windowed, Buckets) + SumOf(ToCome, Consumers) <= MaxWindowed
  BY DEF Budget
<1>1. \A b \in Buckets : Windowed[b] = 0
  BY DEF Init, Ledger!Init, Windowed
<1>2. SumOf(Windowed, Buckets) = 0
  BY <1>1, FiniteAssumption, SumZero
<1> DEFINE full == [t \in Consumers |-> MaxPoints]
<1>3. \A t \in Consumers : ToCome[t] = full[t]
  <2> TAKE t \in Consumers
  <2>1. tx[t].pc = "idle"
    BY DEF Init, IdleTx, Txs
  <2> QED BY <2>1 DEF ToCome
<1>4. SumOf(full, Consumers) <= MaxWindowed
  BY WindowedAssumption
<1> HIDE DEF full
<1>5. SumOf(ToCome, Consumers) = SumOf(full, Consumers)
  BY <1>3, WindowedAssumption, SumSame
<1>6. \A t \in Consumers : full[t] \in Int
  BY LedgerAssumption DEF full
<1>7. SumOf(full, Consumers) \in Int
  BY <1>6, WindowedAssumption, SumInt
<1> QED BY <1>2, <1>4, <1>5, <1>7, LedgerAssumption

\* A step that commits no window row.
LEMMA BudgetKept ==
    ASSUME Inv, Inv', Budget, wlog' = wlog,
           \A t \in Consumers : tx[t].pc = "done" => tx'[t].pc = "done"
    PROVE  Budget'
<1> SUFFICES ASSUME Keys # {}
             PROVE  SumOf(Windowed, Buckets)' + SumOf(ToCome, Consumers)' <= MaxWindowed
  BY DEF Budget
<1>1. Windowed' = Windowed
  BY DEF Windowed
<1>2. PICK f, g : f = ToCome /\ g = ToCome'
  OBVIOUS
<1>3. \A t \in Consumers : g[t] \in Int /\ f[t] \in Int /\ g[t] <= f[t]
  BY <1>2, LedgerAssumption DEF ToCome
<1>4. SumOf(g, Consumers) <= SumOf(f, Consumers)
  BY <1>3, WindowedAssumption, SumMonotone
<1>5. SumOf(Windowed, Buckets) + SumOf(f, Consumers) <= MaxWindowed
  BY <1>2 DEF Budget
<1>6. SumOf(g, Consumers) \in Int /\ SumOf(f, Consumers) \in Int
  BY <1>3, WindowedAssumption, SumInt
<1>7. SumOf(Windowed, Buckets) + SumOf(g, Consumers) <= MaxWindowed
  BY <1>4, <1>5, <1>6, BudgetTerms, LedgerAssumption
<1> QED BY <1>1, <1>2, <1>7

LEMMA BudgetSpent == ASSUME Inv, Sound, Budget, NEW t \in Txs, CommitConsume(t) PROVE Budget'
<1> SUFFICES ASSUME Keys # {}
             PROVE  SumOf(Windowed, Buckets)' + SumOf(ToCome, Consumers)' <= MaxWindowed
  BY DEF Budget
<1>1. PICK f, g, w, x, draw : /\ f = ToCome /\ g = ToCome' /\ w = Windowed /\ x = Windowed'
                             /\ draw = [b \in Buckets |-> DrawnFrom(t, b)]
  OBVIOUS
<1>2. t \in Consumers /\ tx[t].pc = "commit" /\ Done(t)
  BY DEF CommitConsume
<1>3. \A b \in Buckets : w[b] \in Int /\ draw[b] \in Int /\ x[b] = w[b] + draw[b]
  BY <1>1, WindowedAdds
<1>4. SumOf(x, Buckets) = SumOf(w, Buckets) + SumOf(draw, Buckets)
  BY <1>3, FiniteAssumption, SumAdd
<1>5. SumOf(draw, Buckets) = SumOf(tx[t].drawn, Keys)
  BY <1>1, DrawnByBucket
<1>6. PICK d, P, q : d = SumOf(tx[t].drawn, Keys) /\ P = tx[t].want - d /\ q = [s \in Rows |-> Remaining(rows[s])]
  OBVIOUS
<1>7. P \in Nat /\ d \in Nat /\ tx[t].want \in 1..MaxPoints
  <2>1. P = tx[t].want - SumOf(tx[t].drawn, Keys) /\ q = [s \in Rows |-> Remaining(rows[s])]
    BY <1>6
  <2>2. P \in Nat /\ SumOf(tx[t].drawn, Keys) \in Nat /\ tx[t].want \in 1..MaxPoints
    BY <2>1, TakeIs
  <2> QED BY <1>6, <2>2
<1>8. d <= MaxPoints
  <2>1. PICK n : n = tx[t].want
    OBVIOUS
  <2>2. n \in 1..MaxPoints /\ P = n - d /\ MaxPoints \in Nat
    BY <1>6, <1>7, <2>1, LedgerAssumption
  <2> QED BY ONLY <1>7, <2>2
<1>9. g[t] = 0 /\ f[t] = MaxPoints /\ \A u \in Consumers \ {t} : g[u] = f[u]
  <2>1. t \notin Expirers
    BY <1>2, TxsAssumption
  <2>2. tx' = [tx EXCEPT ![t] = [IdleTx EXCEPT !.pc = "done"]]
    BY <1>2, <2>1 DEF Done, EndedAs
  <2>3. tx'[t].pc = "done" /\ \A u \in Txs \ {t} : tx'[u] = tx[u]
    BY <2>2 DEF Inv, TxsGood, IdleTx
  <2> QED BY <1>1, <1>2, <2>3 DEF ToCome, Txs
<1>10. \A u \in Consumers : f[u] \in Int
  BY <1>1, BudgetTerms
<1>11. SumOf(g, Consumers) = SumOf(f, Consumers) - f[t] + g[t]
  BY <1>2, <1>9, <1>10, WindowedAssumption, SumUpdate
<1>12. SumOf(w, Buckets) + SumOf(f, Consumers) <= MaxWindowed
  BY <1>1 DEF Budget
<1>13. SumOf(w, Buckets) \in Nat /\ SumOf(f, Consumers) \in Nat
  BY <1>1, BudgetTerms
<1>14. SumOf(x, Buckets) + SumOf(g, Consumers) <= MaxWindowed
  <2>1. PICK a, b, c, e : a = SumOf(w, Buckets) /\ b = SumOf(f, Consumers)
                          /\ c = SumOf(x, Buckets) /\ e = SumOf(g, Consumers)
    OBVIOUS
  <2>2. /\ a \in Nat /\ b \in Nat /\ a + b <= MaxWindowed /\ c = a + d /\ e = b - MaxPoints + 0
        /\ d \in Nat /\ d <= MaxPoints /\ MaxPoints \in Nat /\ MaxWindowed \in Nat
    BY <1>4, <1>5, <1>6, <1>7, <1>8, <1>9, <1>11, <1>12, <1>13, <2>1, LedgerAssumption
  <2>3. c + e <= MaxWindowed
    BY ONLY <2>2
  <2> QED BY <2>1, <2>3
<1> QED BY <1>1, <1>14

\* A transaction that is done takes no further step.
LEMMA DoneStays ==
    ASSUME Inv, NEW u \in Txs, tx[u].pc = "done", NEW t \in Txs, Begin(t) \/ Lock(t) \/ Step(t)
    PROVE  tx'[u].pc = "done"
<1>1. tx[t].pc # "done"
  <2>1. CASE Begin(t)
    BY <2>1 DEF Begin
  <2>2. CASE Lock(t)
    BY <2>2 DEF Lock, LockWallet, RefuseWallet, LockRow
  <2>3. CASE DeadlockVictim(t)
    BY <2>3, WaitsUnfinished DEF DeadlockVictim
  <2>4. CASE Step(t) /\ ~DeadlockVictim(t)
    BY <2>4 DEF Step, RevokeNothing, SelectRows, RowsLocked, ReadWindow, PlanConsume, DrawWindow,
         WindowDrift, CommitConsume, CommitGrant, CommitLoss
  <2> QED BY <2>1, <2>2, <2>3, <2>4
<1>2. u # t /\ DOMAIN tx = Txs
  BY <1>1 DEF Inv, TxsGood
<1>3. ASSUME NEW p, tx' = EndedAs(t, p) PROVE tx'[u] = tx[u]
  BY <1>2, <1>3 DEF EndedAs
<1>4. CASE Begin(t)
  BY <1>2, <1>4 DEF Begin
<1>5. CASE Lock(t)
  <2>1. CASE LockWallet(t)
    BY <1>2, <2>1 DEF LockWallet
  <2>2. CASE RefuseWallet(t)
    BY <1>3, <2>2 DEF RefuseWallet, Fail
  <2>3. CASE LockRow(t)
    BY <1>2, <2>3 DEF LockRow
  <2> QED BY <1>5, <2>1, <2>2, <2>3 DEF Lock
<1>6. CASE Step(t)
  <2>1. CASE RevokeNothing(t)
    BY <1>3, <2>1 DEF RevokeNothing, Done
  <2>2. CASE SelectRows(t)
    BY <1>2, <2>2 DEF SelectRows
  <2>3. CASE RowsLocked(t)
    <3>1. CASE Done(t)
      BY <1>3, <3>1 DEF Done
    <3>2. CASE ~Done(t)
      BY <1>2, <2>3, <3>2 DEF RowsLocked
    <3> QED BY <3>1, <3>2
  <2>4. CASE ReadWindow(t)
    BY <1>2, <2>4 DEF ReadWindow
  <2>5. CASE PlanConsume(t)
    <3>1. CASE Fail(t)
      BY <1>3, <3>1 DEF Fail
    <3>2. CASE ~Fail(t)
      BY <1>2, <2>5, <3>2 DEF PlanConsume
    <3> QED BY <3>1, <3>2
  <2>6. CASE DrawWindow(t)
    BY <1>2, <2>6 DEF DrawWindow
  <2>7. CASE WindowDrift(t) \/ DeadlockVictim(t)
    BY <1>3, <2>7 DEF WindowDrift, DeadlockVictim, Fail
  <2>8. CASE CommitConsume(t) \/ CommitGrant(t) \/ CommitLoss(t)
    BY <1>3, <2>8 DEF CommitConsume, CommitGrant, CommitLoss, Done
  <2> QED BY <1>6, <2>1, <2>2, <2>3, <2>4, <2>5, <2>6, <2>7, <2>8 DEF Step
<1> QED BY <1>4, <1>5, <1>6

LEMMA BudgetStep == Inv /\ Sound /\ Budget /\ [Next]_vars => Budget'
<1> SUFFICES ASSUME Inv, Sound, Budget, [Next]_vars PROVE Budget'
  OBVIOUS
<1>0. Inv'
  BY InvStep
<1>1. CASE UNCHANGED <<wlog, tx>>
  BY <1>0, <1>1, BudgetKept
<1>2. ASSUME NEW t \in Txs, Begin(t) \/ Lock(t) \/ Step(t) PROVE Budget'
  <2>1. CASE CommitConsume(t)
    BY <2>1, BudgetSpent
  <2>2. CASE ~CommitConsume(t)
    <3>1. wlog' = wlog
      BY <1>2, <2>2 DEF Begin, Lock, LockWallet, RefuseWallet, LockRow, Fail, ledgerVars, Step,
           RevokeNothing, SelectRows, RowsLocked, ReadWindow, PlanConsume, DrawWindow, WindowDrift,
           DeadlockVictim, CommitGrant, CommitLoss
    <3>2. \A u \in Consumers : tx[u].pc = "done" => tx'[u].pc = "done"
      BY <1>2, DoneStays DEF Txs
    <3> QED BY <1>0, <3>1, <3>2, BudgetKept
  <2> QED BY <2>1, <2>2
<1>3. ASSUME ~ \E t \in Txs : Begin(t) \/ Lock(t) \/ Step(t) PROVE UNCHANGED <<wlog, tx>>
  BY <1>3 DEF Next, vars, GrantEntitlement, RevokeEntitlement, ExpireEntitlement, UpdateWalletStatus,
       Tick, ledgerVars
<1> QED BY <1>1, <1>2, <1>3

-----------------------------------------------------------------------------
(* The refinement *)

LEMMA StepRefines ==
    Inv /\ Sound /\ WindowBound' /\ [Next]_vars => [UNCHANGED Ledger!vars \/ Ledger!Next]_(Ledger!vars)
<1> SUFFICES ASSUME Inv, Sound, WindowBound', [Next]_vars
             PROVE  UNCHANGED Ledger!vars \/ Ledger!Next
  OBVIOUS
<1>1. CASE UNCHANGED vars
  <2>1. UNCHANGED ledgerVars
    BY <1>1 DEF vars, ledgerVars
  <2> QED BY <2>1, QuietRefines
<1>2. ASSUME NEW t \in Txs, Begin(t) \/ Lock(t) PROVE UNCHANGED Ledger!vars
  <2>1. UNCHANGED ledgerVars
    BY <1>2 DEF Begin, Lock, LockWallet, RefuseWallet, LockRow, Fail
  <2> QED BY <2>1, QuietRefines
<1>3. ASSUME NEW t \in Txs, Step(t) PROVE UNCHANGED Ledger!vars \/ Ledger!Next
  <2>1. CASE CommitConsume(t)
    BY <2>1, ConsumeRefines
  <2>2. CASE CommitGrant(t)
    BY <2>2, GrantRefines
  <2>3. CASE CommitLoss(t)
    BY <2>3, LossRefines
  <2>4. CASE ~(CommitConsume(t) \/ CommitGrant(t) \/ CommitLoss(t))
    <3>1. UNCHANGED ledgerVars
      BY <1>3, <2>4 DEF Step, RevokeNothing, SelectRows, RowsLocked, ReadWindow, PlanConsume,
           DrawWindow, WindowDrift, DeadlockVictim, Fail
    <3> QED BY <3>1, QuietRefines
  <2> QED BY <2>1, <2>2, <2>3, <2>4
<1>4. ASSUME NEW e \in Entitlements, GrantEntitlement(e) \/ RevokeEntitlement(e) \/ ExpireEntitlement(e)
      PROVE  UNCHANGED Ledger!vars
  <2>1. UNCHANGED ledgerVars
    BY <1>4 DEF GrantEntitlement, RevokeEntitlement, ExpireEntitlement
  <2> QED BY <2>1, QuietRefines
<1>5. ASSUME NEW b \in Buckets, NEW st \in {"active", "frozen"}, UpdateWalletStatus(b, st) PROVE Ledger!Next
  BY <1>5, StatusRefines
<1>6. CASE Tick
  BY <1>6, TickRefines
<1> QED BY <1>1, <1>2, <1>3, <1>4, <1>5, <1>6 DEF Next

\* What the transactions of PostgresPointsRepository know at their commit, under any
\* interleaving: the rows they read are theirs and unchanged, no row their query
\* should have found is missing, their wallets exist and are usable, and a consume's
\* plan still covers what was asked for.
THEOREM CommitsKnow == Spec => []Sound
<1>1. Init => Inv /\ Sound
  BY InvInit, SoundInit
<1>2. Inv /\ Sound /\ [Next]_vars => (Inv /\ Sound)'
  BY InvStep, SoundStep
<1> QED BY <1>1, <1>2, PTL DEF Spec

\* A consume commits its window rows at most once, so PointsLedger's bound on the
\* window consumption of a bucket never stands in the way of a commit.
THEOREM WindowsBounded == Spec => []WindowBound
<1>1. Init => Budget
  BY BudgetInit
<1>2. Inv /\ Sound /\ Budget /\ [Next]_vars => Budget'
  BY BudgetStep
<1>3. Inv /\ Budget => WindowBound
  BY BudgetBounds
<1> QED BY <1>1, <1>2, <1>3, TxInvariant, CommitsKnow, PTL DEF Spec

\* The row locks and the greedy loop implement PointsLedger: every commit is one
\* atomic grant, consume, revocation, refund or expiry on the rows as they are at
\* the commit, and no other step touches the ledger.
THEOREM LedgerImplemented == Spec => LedgerRefined
<1>1. Inv /\ Sound /\ WindowBound' /\ [Next]_vars => [UNCHANGED Ledger!vars \/ Ledger!Next]_(Ledger!vars)
  BY StepRefines
<1>2. Init => Ledger!Init
  BY LedgerInit
<1> QED BY <1>1, <1>2, TxInvariant, CommitsKnow, WindowsBounded, PTL DEF Spec, LedgerRefined
=============================================================================
