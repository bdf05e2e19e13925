------------------------- MODULE PointsLedgerProofs -------------------------
(* Proofs, for any number of buckets, rows, apps and instants, that the      *)
(* ledger stays well typed, that a row's status tells the truth about its    *)
(* balance, and that a row that left the active state never gives points     *)
(* again.  The inductive invariant is TypeOK /\ StatusAgreesWithBalance:     *)
(* neither half is inductive alone, since used_amount stays within its bound *)
(* only because used + revoked never exceeds what was granted.               *)
EXTENDS PointsLedger, SumTheorems

IInv == TypeOK /\ StatusAgreesWithBalance

\* A row before its amounts are known to stay within the largest grant.
WideRow ==
    [bucket : Buckets, ctype : CreditTypes, source : Sources,
     granted : 0..MaxPoints, used : Nat, revoked : Nat,
     effective : Time, expires : 1..Never, status : Kept \cup {"absent"}]

Sound(w, now) ==
    /\ w.used + w.revoked <= w.granted
    /\ w.status = "active" => Remaining(w) > 0
    /\ w.status = "fully_used" => Remaining(w) = 0 /\ w.used > 0
    /\ w.status = "revoked" => Remaining(w) = 0 /\ w.revoked > 0
    /\ w.status = "expired" => Remaining(w) > 0 /\ w.expires <= now
    /\ w.status = "absent" => w.granted = 0

\* update_ledger_in_tx keeps a row well typed and truthful when it consumes at
\* most what an active row has left.
LEMMA ConsumptionSound ==
    ASSUME NEW w \in RowType, NEW t \in Time, Sound(w, t),
           NEW n \in Nat \ {0}, n <= Remaining(w), w.status = "active"
    PROVE  Consumption(w, n) \in RowType /\ Sound(Consumption(w, n), t)
<1> DEFINE u == Consumption(w, n)
<1>1. /\ w.granted \in Nat /\ w.used \in Nat /\ w.revoked \in Nat /\ MaxPoints \in Nat
      /\ w.granted <= MaxPoints /\ w.used + w.revoked + n <= w.granted
  BY BoundsAssumption DEF RowType, Remaining
<1>2. u \in WideRow
  <2> DEFINE v == [w EXCEPT !.used = @ + n]
             st == IF Remaining(w) = n THEN "fully_used" ELSE w.status
  <2>1. v \in WideRow
    BY <1>1 DEF RowType, WideRow
  <2>2. st \in Kept \cup {"absent"}
    BY DEF RowType, Kept
  <2>3. u = [v EXCEPT !.status = st]
    BY DEF Consumption
  <2> HIDE DEF v, st
  <2>4. [v EXCEPT !.status = st] \in WideRow
    BY <2>1, <2>2 DEF WideRow
  <2> QED BY <2>3, <2>4
<1>3. /\ u.granted = w.granted /\ u.expires = w.expires
      /\ u.used = w.used + n /\ u.revoked = w.revoked
      /\ u.status = IF Remaining(w) = n THEN "fully_used" ELSE w.status
  BY DEF RowType, Consumption
<1>4. u.used \in 0..MaxPoints /\ u.revoked \in 0..MaxPoints
  BY <1>1, <1>3
<1>5. u \in RowType
  <2> HIDE DEF u
  <2> QED BY <1>2, <1>4 DEF RowType, WideRow
<1>6. Remaining(u) = Remaining(w) - n /\ Remaining(w) \in Int
  BY <1>1, <1>3 DEF Remaining
<1>7. Sound(u, t)
  <2> HIDE DEF u
  <2> QED BY <1>1, <1>3, <1>6 DEF Sound
<1> QED BY <1>5, <1>7

\* update_ledger_in_tx keeps a row well typed and truthful when it revokes at
\* most what a row that still has points has left.
LEMMA RevocationSound ==
    ASSUME NEW w \in RowType, NEW t \in Time, Sound(w, t),
           NEW n \in Nat \ {0}, n <= Remaining(w)
    PROVE  Revocation(w, n) \in RowType /\ Sound(Revocation(w, n), t)
<1> DEFINE u == Revocation(w, n)
<1>1. /\ w.granted \in Nat /\ w.used \in Nat /\ w.revoked \in Nat /\ MaxPoints \in Nat
      /\ w.granted <= MaxPoints /\ w.used + w.revoked + n <= w.granted
  BY BoundsAssumption DEF RowType, Remaining
<1>2. u \in WideRow
  <2> DEFINE v == [w EXCEPT !.revoked = @ + n]
             st == IF Remaining(w) = n THEN "revoked" ELSE w.status
  <2>1. v \in WideRow
    BY <1>1 DEF RowType, WideRow
  <2>2. st \in Kept \cup {"absent"}
    BY DEF RowType, Kept
  <2>3. u = [v EXCEPT !.status = st]
    BY DEF Revocation
  <2> HIDE DEF v, st
  <2>4. [v EXCEPT !.status = st] \in WideRow
    BY <2>1, <2>2 DEF WideRow
  <2> QED BY <2>3, <2>4
<1>3. /\ u.granted = w.granted /\ u.expires = w.expires
      /\ u.used = w.used /\ u.revoked = w.revoked + n
      /\ u.status = IF Remaining(w) = n THEN "revoked" ELSE w.status
  BY DEF RowType, Revocation
<1>4. u.used \in 0..MaxPoints /\ u.revoked \in 0..MaxPoints
  BY <1>1, <1>3
<1>5. u \in RowType
  <2> HIDE DEF u
  <2> QED BY <1>2, <1>4 DEF RowType, WideRow
<1>6. Remaining(u) = Remaining(w) - n /\ Remaining(w) \in Int
  BY <1>1, <1>3 DEF Remaining
<1>7. Sound(u, t)
  <2> HIDE DEF u
  <2> QED BY <1>1, <1>3, <1>6 DEF Sound
<1> QED BY <1>5, <1>7

\* The half-up share of a refund is a natural number, and capping it at what is
\* left never exceeds what is left.
LEMMA ProportionalBounded ==
    ASSUME NEW base \in Nat, NEW left \in Nat, NEW share \in Shares
    PROVE  Proportional(base, left, share) \in Nat /\ Proportional(base, left, share) <= left
<1> DEFINE p == share[1]
           q == share[2]
<1>1. p \in Nat /\ q \in Nat \ {0}
  BY SharesAssumption
<1>2. base * p \in Nat
  BY <1>1
<1>3. q \div 2 \in Nat
  BY <1>1
<1> HIDE DEF p, q
<1>4. (base * p + (q \div 2)) \div q \in Nat
  <2> DEFINE x == base * p + (q \div 2)
  <2>1. x \in Nat
    BY <1>2, <1>3
  <2> HIDE DEF x
  <2>2. x \div q \in Nat
    BY <2>1, <1>1
  <2> QED BY <2>2 DEF x
<1> QED BY <1>4 DEF Proportional, HalfUp, p, q

-----------------------------------------------------------------------------
\* The invariant, row by row.
LEMMA InvByRow ==
    IInv <=> TypeOK /\ \A r \in Rows : Sound(rows[r], clock)
BY DEF IInv, StatusAgreesWithBalance, Sound

LEMMA InvByRowPrime ==
    IInv' <=> TypeOK' /\ \A r \in Rows : Sound(rows'[r], clock')
BY DEF IInv, StatusAgreesWithBalance, Sound, Remaining

LEMMA InitInv == Init => IInv
<1> SUFFICES ASSUME Init PROVE IInv
  OBVIOUS
<1>1. Blank \in RowType
  BY BoundsAssumption, NonEmptyAssumption DEF Blank, RowType, Never, Time, Kept
<1>2. \A t \in Time : Sound(Blank, t)
  BY DEF Sound, Blank, Remaining
<1>3. TypeOK
  BY <1>1, BoundsAssumption DEF Init, TypeOK, WalletStatus, Time
<1>4. \A r \in Rows : Sound(rows[r], clock)
  BY <1>2, <1>3 DEF Init, TypeOK
<1> QED BY <1>3, <1>4, InvByRow

\* A revoked amount taken from some rows, with the log advanced by naturals.
LEMMA RevokingStep ==
    ASSUME IInv, NEW due \in [Rows -> Nat],
           \A r \in Rows : due[r] <= Remaining(rows[r]),
           NEW log \in [Rows -> Nat],
           rows' = [r \in Rows |-> IF due[r] = 0 THEN rows[r] ELSE Revocation(rows[r], due[r])],
           recorded' = [r \in Rows |-> recorded[r] + log[r]],
           UNCHANGED <<wallets, recharged, consumed, windowed, clock>>
    PROVE  IInv'
<1>1. TypeOK /\ \A r \in Rows : Sound(rows[r], clock)
  BY InvByRow
<1>2. \A r \in Rows : rows'[r] \in RowType /\ Sound(rows'[r], clock)
  <2> TAKE r \in Rows
  <2>1. CASE due[r] = 0
    BY <1>1, <2>1 DEF TypeOK
  <2>2. CASE due[r] # 0
    <3>1. rows[r] \in RowType /\ clock \in Time /\ Sound(rows[r], clock)
      BY <1>1 DEF TypeOK
    <3>2. due[r] \in Nat \ {0} /\ due[r] <= Remaining(rows[r])
      BY <2>2
    <3>3. /\ Revocation(rows[r], due[r]) \in RowType
          /\ Sound(Revocation(rows[r], due[r]), clock)
      BY <3>1, <3>2, RevocationSound
    <3> QED BY <2>2, <3>3
  <2> QED BY <2>1, <2>2
<1>3. TypeOK'
  BY <1>1, <1>2 DEF TypeOK
<1> QED BY <1>2, <1>3, InvByRowPrime

LEMMA GrantStep == ASSUME IInv, GrantSome PROVE IInv'
<1>1. TypeOK /\ \A r \in Rows : Sound(rows[r], clock)
  BY InvByRow
<1>2. PICK S \in SUBSET Rows : \E new \in [S -> FreshRow] : Grant(S, new)
  BY DEF GrantSome
<1>3. PICK new \in [S -> FreshRow] : Grant(S, new)
  BY <1>2
<1>4. \A w \in FreshRow : w \in RowType /\ Sound(w, clock)
  <2> SUFFICES ASSUME NEW w \in FreshRow PROVE w \in RowType /\ Sound(w, clock)
    OBVIOUS
  <2>1. \A n \in GrantSizes : n \in 0..MaxPoints /\ n > 0
    BY GrantSizesAssumption, BoundsAssumption
  <2>2. 0 \in 0..MaxPoints
    BY BoundsAssumption
  <2>3. w \in RowType
    BY <2>1, <2>2 DEF FreshRow, RowType, Kept
  <2>4. w.granted > 0 /\ w.granted \in Nat /\ w.used = 0 /\ w.revoked = 0 /\ w.status = "active"
    BY <2>1, BoundsAssumption DEF FreshRow
  <2>5. Sound(w, clock)
    BY <2>4 DEF Sound, Remaining
  <2> QED BY <2>3, <2>5
<1>5. rows' = [r \in Rows |-> IF r \in S THEN new[r] ELSE rows[r]]
  BY <1>3 DEF Grant
<1>6. rows' \in [Rows -> RowType] /\ \A r \in Rows : Sound(rows'[r], clock)
  BY <1>1, <1>4, <1>5 DEF TypeOK
<1>7. wallets' \in [Buckets -> WalletStatus]
  BY <1>1, <1>3 DEF Grant, TypeOK, WalletStatus, Ensured
<1>8. DOMAIN recharged' = Buckets /\ UNCHANGED <<consumed, recorded, windowed, clock>>
  BY <1>3 DEF Grant
<1>9. TypeOK'
  BY <1>1, <1>6, <1>7, <1>8 DEF TypeOK
<1> QED BY <1>6, <1>8, <1>9, InvByRowPrime

LEMMA ConsumeStep == ASSUME IInv, ConsumeSome PROVE IInv'
<1>1. TypeOK /\ \A r \in Rows : Sound(rows[r], clock)
  BY InvByRow
<1>2. PICK app \in Apps, t \in Time, take \in [Rows -> 0..MaxPoints],
           draw \in [Buckets -> 0..MaxWindowed] : Consume(app, t, take, draw)
  BY DEF ConsumeSome
<1>3. \A r \in Rows : take[r] # 0 => /\ take[r] \in Nat \ {0}
                                     /\ take[r] <= Remaining(rows[r])
                                     /\ rows[r].status = "active"
  BY <1>2, BoundsAssumption DEF Consume, TakesNearestExpiry, Spendable, Live
<1>4. \A r \in Rows : rows'[r] \in RowType /\ Sound(rows'[r], clock)
  <2> TAKE r \in Rows
  <2>1. rows'[r] = IF take[r] = 0 THEN rows[r] ELSE Consumption(rows[r], take[r])
    BY <1>2 DEF Consume
  <2>2. rows[r] \in RowType /\ clock \in Time /\ Sound(rows[r], clock)
    BY <1>1 DEF TypeOK
  <2>3. CASE take[r] = 0
    BY <2>1, <2>2, <2>3
  <2>4. CASE take[r] # 0
    <3>1. /\ Consumption(rows[r], take[r]) \in RowType
          /\ Sound(Consumption(rows[r], take[r]), clock)
      BY <1>3, <2>2, <2>4, ConsumptionSound
    <3> QED BY <2>1, <2>4, <3>1
  <2> QED BY <2>3, <2>4
<1>5. rows' \in [Rows -> RowType]
  BY <1>2, <1>4 DEF Consume
<1>6. wallets' \in [Buckets -> WalletStatus]
  BY <1>1, <1>2 DEF Consume, TypeOK, WalletStatus, Ensured
<1>7. windowed' \in [Buckets -> Nat]
  BY <1>1, <1>2, BoundsAssumption DEF Consume, TypeOK
<1>8. DOMAIN consumed' = Buckets /\ UNCHANGED <<recharged, recorded, clock>>
  BY <1>2 DEF Consume
<1>9. TypeOK'
  BY <1>1, <1>5, <1>6, <1>7, <1>8 DEF TypeOK
<1> QED BY <1>4, <1>8, <1>9, InvByRowPrime

\* Every revocation of all that is left, from any set of rows that have points.
LEMMA RevokeAllStep ==
    ASSUME IInv, NEW S \in SUBSET Rows, \A r \in S : Remaining(rows[r]) > 0, RevokeAll(S)
    PROVE  IInv'
<1>1. TypeOK /\ \A r \in Rows : Sound(rows[r], clock)
  BY InvByRow
<1>2. \A r \in Rows : Remaining(rows[r]) \in Nat
  BY <1>1 DEF TypeOK, RowType, Sound, Remaining
<1> DEFINE due == [r \in Rows |-> IF r \in S THEN Remaining(rows[r]) ELSE 0]
<1>3. due \in [Rows -> Nat] /\ \A r \in Rows : due[r] <= Remaining(rows[r])
  BY <1>2
<1>4. rows' = [r \in Rows |-> IF due[r] = 0 THEN rows[r] ELSE Revocation(rows[r], due[r])]
  BY <1>2 DEF RevokeAll
<1>5. recorded' = [r \in Rows |-> recorded[r] + due[r]]
  BY DEF RevokeAll
<1>6. UNCHANGED <<wallets, recharged, consumed, windowed, clock>>
  BY DEF RevokeAll
<1> HIDE DEF due
<1> QED BY <1>3, <1>4, <1>5, <1>6, RevokingStep

LEMMA RevokeStep == ASSUME IInv, RevokeSome PROVE IInv'
<1>1. TypeOK /\ \A r \in Rows : Sound(rows[r], clock)
  BY InvByRow
<1>2. \A r \in Rows : Remaining(rows[r]) \in Nat
  BY <1>1 DEF TypeOK, RowType, Sound, Remaining
<1>3. CASE \E b \in Buckets, c \in CreditTypes : RevokeByCreditType(b, c)
  BY <1>3, RevokeAllStep DEF RevokeByCreditType, Live
<1>4. CASE \E b \in Buckets, r \in Rows : RevokeBySourceId(b, r)
  BY <1>4, RevokeAllStep DEF RevokeBySourceId
<1>5. CASE \E s \in Sources : RevokeDistributionSource(s)
  BY <1>5, RevokeAllStep DEF RevokeDistributionSource
<1>6. CASE \E s \in Sources : ReclaimPregrant(s)
  <2>1. PICK s \in Sources : ReclaimPregrant(s)
    BY <1>6
  <2> DEFINE target == {r \in Rows : rows[r].source = s /\ Live(rows[r])}
             due == [r \in Rows |-> IF r \in target THEN Remaining(rows[r]) ELSE 0]
             log == [r \in Rows |-> IF r \in target /\ rows[r].used > 0
                                    THEN Remaining(rows[r]) ELSE 0]
  <2>2. due \in [Rows -> Nat] /\ log \in [Rows -> Nat]
        /\ \A r \in Rows : due[r] <= Remaining(rows[r])
    BY <1>2
  <2>3. \A r \in Rows : due[r] = 0 <=> r \notin target
    BY <1>2 DEF Live
  <2>4. rows' = [r \in Rows |->
                   IF r \in target THEN Revocation(rows[r], Remaining(rows[r])) ELSE rows[r]]
        /\ recorded' = [r \in Rows |-> recorded[r] + log[r]]
        /\ UNCHANGED <<wallets, recharged, consumed, windowed, clock>>
    BY <2>1 DEF ReclaimPregrant
  <2>5. rows' = [r \in Rows |-> IF due[r] = 0 THEN rows[r] ELSE Revocation(rows[r], due[r])]
    BY <2>3, <2>4
  <2> HIDE DEF target, due, log
  <2> QED BY <2>2, <2>4, <2>5, RevokingStep
<1> QED BY <1>3, <1>4, <1>5, <1>6 DEF RevokeSome

LEMMA RefundStep ==
    ASSUME IInv, NEW S \in SUBSET Rows, NEW share \in Shares, RefundTopup(S, share) PROVE IInv'
<1>1. TypeOK /\ \A r \in Rows : Sound(rows[r], clock)
  BY InvByRow
<1>2. \A r \in Rows : Remaining(rows[r]) \in Nat /\ rows[r].granted \in Nat
  BY <1>1 DEF TypeOK, RowType, Sound, Remaining
<1> DEFINE due == [r \in Rows |->
                     IF r \in S THEN Proportional(rows[r].granted, Remaining(rows[r]), share)
                     ELSE 0]
<1>3. \A r \in Rows : Proportional(rows[r].granted, Remaining(rows[r]), share) \in Nat
                      /\ Proportional(rows[r].granted, Remaining(rows[r]), share)
                           <= Remaining(rows[r])
  BY <1>2, ProportionalBounded
<1>4. due \in [Rows -> Nat] /\ \A r \in Rows : due[r] <= Remaining(rows[r])
  BY <1>2, <1>3
<1>5. /\ rows' = [r \in Rows |-> IF due[r] = 0 THEN rows[r] ELSE Revocation(rows[r], due[r])]
      /\ recorded' = [r \in Rows |-> recorded[r] + due[r]]
      /\ UNCHANGED <<wallets, recharged, consumed, windowed, clock>>
  BY DEF RefundTopup
<1> HIDE DEF due
<1> QED BY <1>4, <1>5, RevokingStep

LEMMA ExpireStep == ASSUME IInv, NEW S \in SUBSET Rows, ExpirePoints(S) PROVE IInv'
<1>1. TypeOK /\ \A r \in Rows : Sound(rows[r], clock)
  BY InvByRow
<1>2. \A r \in Rows : Remaining(rows[r]) \in Nat
  BY <1>1 DEF TypeOK, RowType, Sound, Remaining
<1>3. \A r \in Rows : rows'[r] \in RowType /\ Sound(rows'[r], clock)
  <2> TAKE r \in Rows
  <2>1. rows[r] \in RowType /\ Sound(rows[r], clock)
    BY <1>1 DEF TypeOK
  <2>2. rows'[r] = IF r \in S THEN [rows[r] EXCEPT !.status = "expired"] ELSE rows[r]
    BY DEF ExpirePoints
  <2>3. CASE r \in S
    <3> DEFINE w == rows[r]
               u == [w EXCEPT !.status = "expired"]
    <3>1. Remaining(w) > 0 /\ w.expires <= clock
      BY <2>3 DEF ExpirePoints, Live
    <3>2. w \in RowType /\ Sound(w, clock)
      BY <2>1
    <3> HIDE DEF w
    <3>3. u \in RowType
      BY <3>2 DEF RowType, Kept
    <3>4. u.granted = w.granted /\ u.used = w.used /\ u.revoked = w.revoked
          /\ u.expires = w.expires /\ u.status = "expired"
      BY <3>2 DEF RowType
    <3>5. Sound(u, clock)
      BY <3>1, <3>2, <3>4 DEF Sound, Remaining
    <3> QED BY <2>2, <2>3, <3>3, <3>5 DEF w
  <2> QED BY <2>1, <2>2, <2>3
<1>4. TypeOK' /\ clock' = clock
  BY <1>1, <1>2, <1>3 DEF ExpirePoints, TypeOK
<1> QED BY <1>3, <1>4, InvByRowPrime

LEMMA WalletStep ==
    ASSUME IInv, NEW b \in Buckets, NEW st \in {"active", "frozen"}, UpdateWalletStatus(b, st)
    PROVE  IInv'
BY InvByRow, InvByRowPrime DEF UpdateWalletStatus, TypeOK, WalletStatus

LEMMA TickStep == ASSUME IInv, Tick PROVE IInv'
<1>1. TypeOK /\ \A r \in Rows : Sound(rows[r], clock)
  BY InvByRow
<1>2. TypeOK'
  BY <1>1, BoundsAssumption DEF Tick, TypeOK, Time
<1>3. \A r \in Rows : Sound(rows'[r], clock')
  <2> TAKE r \in Rows
  <2>1. rows[r].expires \in Int /\ clock \in Int /\ Sound(rows[r], clock)
        /\ rows' = rows /\ clock' = clock + 1
    BY <1>1, BoundsAssumption DEF TypeOK, RowType, Time, Tick, Never
  <2> QED BY <2>1 DEF Sound
<1> QED BY <1>2, <1>3, InvByRowPrime

LEMMA NextInv == IInv /\ [Next]_vars => IInv'
<1> SUFFICES ASSUME IInv, [Next]_vars PROVE IInv'
  OBVIOUS
<1>1. CASE GrantSome
  BY <1>1, GrantStep
<1>2. CASE ConsumeSome
  BY <1>2, ConsumeStep
<1>3. CASE RevokeSome
  BY <1>3, RevokeStep
<1>4. CASE \E S \in SUBSET Rows, share \in Shares : RefundTopup(S, share)
  BY <1>4, RefundStep
<1>5. CASE \E S \in SUBSET Rows : ExpirePoints(S)
  BY <1>5, ExpireStep
<1>6. CASE \E b \in Buckets, st \in {"active", "frozen"} : UpdateWalletStatus(b, st)
  BY <1>6, WalletStep
<1>7. CASE Tick
  BY <1>7, TickStep
<1>8. CASE UNCHANGED vars
  BY <1>8, InvByRow, InvByRowPrime DEF vars, TypeOK
<1> QED BY <1>1, <1>2, <1>3, <1>4, <1>5, <1>6, <1>7, <1>8 DEF Next

-----------------------------------------------------------------------------
\* Every reachable ledger is well typed: no consume, refund, revocation or expiry
\* of update_ledger_in_tx ever drives a column out of its range.
THEOREM LedgerTyped == Spec => []TypeOK
<1>1. IInv => TypeOK
  BY DEF IInv
<1> QED BY <1>1, InitInv, NextInv, PTL DEF Spec

\* In every reachable ledger, whatever the order of consumes, refunds,
\* revocations and sweeps, a row's status tells the truth about its balance.
THEOREM StatusTruthful == Spec => []StatusAgreesWithBalance
<1>1. IInv => StatusAgreesWithBalance
  BY DEF IInv
<1> QED BY <1>1, InitInv, NextInv, PTL DEF Spec

-----------------------------------------------------------------------------
\* The five things a transaction can do to a row.
RowStep(w, u) ==
    \/ u = w
    \/ /\ w.status = "active"
       /\ \E n \in Nat \ {0} : n <= Remaining(w) /\ u = Consumption(w, n)
    \/ \E n \in Nat \ {0} : n <= Remaining(w) /\ u = Revocation(w, n)
    \/ w.status = "active" /\ u = [w EXCEPT !.status = "expired"]
    \/ w.status = "absent" /\ u \in FreshRow

LEMMA RowSteps == ASSUME IInv, [Next]_vars, NEW r \in Rows PROVE RowStep(rows[r], rows'[r])
<1>1. TypeOK /\ \A q \in Rows : Sound(rows[q], clock)
  BY InvByRow
<1>2. \A q \in Rows : Remaining(rows[q]) \in Nat /\ rows[q].granted \in Nat
  BY <1>1 DEF TypeOK, RowType, Sound, Remaining
<1>3. CASE GrantSome
  <2>1. PICK S \in SUBSET Rows : \E new \in [S -> FreshRow] : Grant(S, new)
    BY <1>3 DEF GrantSome
  <2>2. PICK new \in [S -> FreshRow] : Grant(S, new)
    BY <2>1
  <2> QED BY <2>2 DEF Grant, RowStep
<1>4. CASE ConsumeSome
  <2>1. PICK app \in Apps, t \in Time, take \in [Rows -> 0..MaxPoints],
             draw \in [Buckets -> 0..MaxWindowed] : Consume(app, t, take, draw)
    BY <1>4 DEF ConsumeSome
  <2>2. take[r] # 0 => /\ take[r] \in Nat \ {0}
                       /\ take[r] <= Remaining(rows[r])
                       /\ rows[r].status = "active"
    BY <2>1, BoundsAssumption DEF Consume, TakesNearestExpiry, Spendable, Live
  <2>3. rows'[r] = IF take[r] = 0 THEN rows[r] ELSE Consumption(rows[r], take[r])
    BY <2>1 DEF Consume
  <2> QED BY <2>2, <2>3 DEF RowStep
<1>5. ASSUME NEW S \in SUBSET Rows, \A q \in S : Remaining(rows[q]) > 0, RevokeAll(S)
      PROVE  RowStep(rows[r], rows'[r])
  <2>1. rows'[r] = IF r \in S THEN Revocation(rows[r], Remaining(rows[r])) ELSE rows[r]
    BY <1>5 DEF RevokeAll
  <2>2. r \in S => Remaining(rows[r]) \in Nat \ {0} /\ Remaining(rows[r]) <= Remaining(rows[r])
    BY <1>2, <1>5
  <2> QED BY <2>1, <2>2 DEF RowStep
<1>6. CASE RevokeSome
  <2>1. CASE \E b \in Buckets, c \in CreditTypes : RevokeByCreditType(b, c)
    BY <2>1, <1>5 DEF RevokeByCreditType, Live
  <2>2. CASE \E b \in Buckets, q \in Rows : RevokeBySourceId(b, q)
    BY <2>2, <1>5 DEF RevokeBySourceId
  <2>3. CASE \E s \in Sources : RevokeDistributionSource(s)
    BY <2>3, <1>5 DEF RevokeDistributionSource
  <2>4. CASE \E s \in Sources : ReclaimPregrant(s)
    <3>1. PICK s \in Sources : ReclaimPregrant(s)
      BY <2>4
    <3>2. rows'[r] = rows[r] \/ (Live(rows[r]) /\ rows'[r] = Revocation(rows[r], Remaining(rows[r])))
      BY <3>1 DEF ReclaimPregrant
    <3>3. Live(rows[r]) => Remaining(rows[r]) \in Nat \ {0} /\ Remaining(rows[r]) <= Remaining(rows[r])
      BY <1>2 DEF Live
    <3> QED BY <3>2, <3>3 DEF RowStep
  <2> QED BY <1>6, <2>1, <2>2, <2>3, <2>4 DEF RevokeSome
<1>7. CASE \E S \in SUBSET Rows, share \in Shares : RefundTopup(S, share)
  <2>1. PICK S \in SUBSET Rows, share \in Shares : RefundTopup(S, share)
    BY <1>7
  <2> DEFINE n == IF r \in S THEN Proportional(rows[r].granted, Remaining(rows[r]), share) ELSE 0
  <2>2. rows'[r] = IF n = 0 THEN rows[r] ELSE Revocation(rows[r], n)
    BY <2>1 DEF RefundTopup
  <2>3. n \in Nat /\ n <= Remaining(rows[r])
    BY <1>2, ProportionalBounded
  <2> HIDE DEF n
  <2> QED BY <2>2, <2>3 DEF RowStep
<1>8. CASE \E S \in SUBSET Rows : ExpirePoints(S)
  BY <1>8 DEF ExpirePoints, Live, RowStep
<1>9. CASE rows' = rows
  BY <1>9 DEF RowStep
<1> QED BY <1>3, <1>4, <1>6, <1>7, <1>8, <1>9 DEF Next, UpdateWalletStatus, Tick, vars

LEMMA RowStepMonotone ==
    ASSUME NEW w \in RowType, NEW t \in Time, Sound(w, t), NEW u, RowStep(w, u)
    PROVE  /\ u.used >= w.used
           /\ u.revoked >= w.revoked
           /\ w.status \in {"fully_used", "revoked"} => u = w
           /\ w.status = "expired" => u.used = w.used /\ u.status \in {"expired", "revoked"}
<1>1. w.granted \in Nat /\ w.used \in Nat /\ w.revoked \in Nat
  BY DEF RowType
<1>2. CASE u = w
  BY <1>1, <1>2
<1>3. CASE w.status = "active" /\ \E n \in Nat \ {0} : n <= Remaining(w) /\ u = Consumption(w, n)
  <2>1. PICK n \in Nat \ {0} : u = Consumption(w, n)
    BY <1>3
  <2>2. u.used = w.used + n /\ u.revoked = w.revoked
    BY <2>1 DEF Consumption, RowType
  <2> QED BY <1>1, <1>3, <2>2
<1>4. CASE \E n \in Nat \ {0} : n <= Remaining(w) /\ u = Revocation(w, n)
  <2>1. PICK n \in Nat \ {0} : n <= Remaining(w) /\ u = Revocation(w, n)
    BY <1>4
  <2>2. /\ u.used = w.used /\ u.revoked = w.revoked + n
        /\ u.status = IF Remaining(w) = n THEN "revoked" ELSE w.status
    BY <2>1 DEF Revocation, RowType
  <2>3. w.status \notin {"fully_used", "revoked"}
    BY <1>1, <2>1 DEF Sound
  <2> QED BY <1>1, <2>2, <2>3
<1>5. CASE w.status = "active" /\ u = [w EXCEPT !.status = "expired"]
  BY <1>1, <1>5 DEF RowType
<1>6. CASE w.status = "absent" /\ u \in FreshRow
  <2>1. w.used = 0 /\ w.revoked = 0
    BY <1>1, <1>6 DEF Sound
  <2>2. u.used = 0 /\ u.revoked = 0
    BY <1>6 DEF FreshRow
  <2> QED BY <1>6, <2>1, <2>2
<1> QED BY <1>2, <1>3, <1>4, <1>5, <1>6 DEF RowStep

\* No transaction takes back a use or a revocation, and a row that left the
\* active state never gives points again, whatever was read before it committed.
THEOREM RowsNeverResurrected == Spec => NoResurrection
<1>1. ASSUME IInv, [Next]_vars
      PROVE  \A r \in Rows :
               /\ rows'[r].used >= rows[r].used
               /\ rows'[r].revoked >= rows[r].revoked
               /\ rows[r].status \in {"fully_used", "revoked"} => rows'[r] = rows[r]
               /\ rows[r].status = "expired" => /\ rows'[r].used = rows[r].used
                                                /\ rows'[r].status \in {"expired", "revoked"}
  <2> TAKE r \in Rows
  <2>1. rows[r] \in RowType /\ clock \in Time /\ Sound(rows[r], clock)
    BY <1>1, InvByRow DEF TypeOK
  <2>2. RowStep(rows[r], rows'[r])
    BY <1>1, RowSteps
  <2> QED BY <2>1, <2>2, RowStepMonotone
<1> QED BY <1>1, InitInv, NextInv, PTL DEF Spec, NoResurrection

-----------------------------------------------------------------------------
\* One row and its sum of revocation records.
Audited(w, n) == w.revoked > n => w.used = 0 /\ w.status = "revoked"

LEMMA ActiveRevocationAudited ==
    ASSUME NEW w \in RowType, NEW n \in Nat, NEW d \in Nat \ {0}, Audited(w, n),
           w.status # "revoked"
    PROVE  Audited(Revocation(w, d), n + d)
<1>1. w.revoked \in Nat /\ w.revoked <= n
  BY DEF RowType, Audited
<1>2. Revocation(w, d).revoked = w.revoked + d
  BY DEF Revocation, RowType
<1> QED BY <1>1, <1>2 DEF Audited

LEMMA AuditedStep ==
    ASSUME IInv, UnrecordedOnlyIfUnspent, [Next]_vars, NEW r \in Rows
    PROVE  Audited(rows'[r], recorded'[r])
<1>1. TypeOK /\ Sound(rows[r], clock) /\ Audited(rows[r], recorded[r])
  BY InvByRow DEF UnrecordedOnlyIfUnspent, Audited
<1>2. /\ rows[r] \in RowType /\ recorded[r] \in Nat
      /\ rows[r].granted \in Nat /\ rows[r].used \in Nat /\ rows[r].revoked \in Nat
      /\ Remaining(rows[r]) \in Nat
      /\ rows[r].status = "revoked" => Remaining(rows[r]) = 0
  BY <1>1 DEF TypeOK, RowType, Sound, Remaining
<1>3. CASE GrantSome
  <2>1. PICK S \in SUBSET Rows : \E new \in [S -> FreshRow] : Grant(S, new)
    BY <1>3 DEF GrantSome
  <2>2. PICK new \in [S -> FreshRow] : Grant(S, new)
    BY <2>1
  <2>3. rows'[r] = (IF r \in S THEN new[r] ELSE rows[r]) /\ recorded'[r] = recorded[r]
    BY <2>2 DEF Grant
  <2>4. r \in S => new[r].revoked = 0
    BY <2>2 DEF FreshRow
  <2> QED BY <1>1, <1>2, <2>3, <2>4 DEF Audited
<1>4. CASE ConsumeSome
  <2>1. PICK app \in Apps, t \in Time, take \in [Rows -> 0..MaxPoints],
             draw \in [Buckets -> 0..MaxWindowed] : Consume(app, t, take, draw)
    BY <1>4 DEF ConsumeSome
  <2>2. take[r] # 0 => rows[r].status = "active"
    BY <2>1, BoundsAssumption DEF Consume, TakesNearestExpiry, Spendable, Live
  <2>3. /\ rows'[r] = IF take[r] = 0 THEN rows[r] ELSE Consumption(rows[r], take[r])
        /\ recorded'[r] = recorded[r]
    BY <2>1 DEF Consume
  <2>4. Consumption(rows[r], take[r]).revoked = rows[r].revoked
    BY <1>2 DEF Consumption, RowType
  <2> QED BY <1>1, <1>2, <2>2, <2>3, <2>4 DEF Audited
<1>5. ASSUME NEW S \in SUBSET Rows, \A q \in S : Remaining(rows[q]) > 0, RevokeAll(S)
      PROVE  Audited(rows'[r], recorded'[r])
  <2>1. CASE r \in S
    <3>1. /\ rows'[r] = Revocation(rows[r], Remaining(rows[r]))
          /\ recorded'[r] = recorded[r] + Remaining(rows[r])
      BY <1>5, <2>1 DEF RevokeAll
    <3>2. Remaining(rows[r]) \in Nat \ {0} /\ rows[r].status # "revoked"
      BY <1>2, <1>5, <2>1
    <3> QED BY <1>1, <1>2, <3>1, <3>2, ActiveRevocationAudited
  <2>2. CASE r \notin S
    BY <1>1, <1>2, <1>5, <2>2 DEF RevokeAll
  <2> QED BY <2>1, <2>2
<1>6. CASE RevokeSome
  <2>1. CASE \E b \in Buckets, c \in CreditTypes : RevokeByCreditType(b, c)
    BY <2>1, <1>5 DEF RevokeByCreditType, Live
  <2>2. CASE \E b \in Buckets, q \in Rows : RevokeBySourceId(b, q)
    BY <2>2, <1>5 DEF RevokeBySourceId
  <2>3. CASE \E s \in Sources : RevokeDistributionSource(s)
    BY <2>3, <1>5 DEF RevokeDistributionSource
  <2>4. CASE \E s \in Sources : ReclaimPregrant(s)
    <3>1. PICK s \in Sources : ReclaimPregrant(s)
      BY <2>4
    <3>2. CASE rows[r].source = s /\ Live(rows[r])
      <4>1. /\ rows'[r] = Revocation(rows[r], Remaining(rows[r]))
            /\ recorded'[r] = recorded[r] + (IF rows[r].used > 0 THEN Remaining(rows[r]) ELSE 0)
        BY <3>1, <3>2 DEF ReclaimPregrant
      <4>2. Remaining(rows[r]) \in Nat \ {0} /\ rows[r].status # "revoked"
        BY <1>2, <3>2 DEF Live
      <4>3. CASE rows[r].used > 0
        BY <1>1, <1>2, <4>1, <4>2, <4>3, ActiveRevocationAudited
      <4>4. CASE rows[r].used = 0
        <5>1. rows'[r].used = 0 /\ rows'[r].status = "revoked"
          BY <1>2, <4>1, <4>4 DEF Revocation, RowType
        <5> QED BY <5>1 DEF Audited
      <4> QED BY <1>2, <4>3, <4>4
    <3>3. CASE ~(rows[r].source = s /\ Live(rows[r]))
      <4>1. rows'[r] = rows[r] /\ recorded'[r] = recorded[r] + 0
        BY <3>1, <3>3 DEF ReclaimPregrant
      <4> QED BY <1>1, <1>2, <4>1
    <3> QED BY <3>2, <3>3
  <2> QED BY <1>6, <2>1, <2>2, <2>3, <2>4 DEF RevokeSome
<1>7. CASE \E S \in SUBSET Rows, share \in Shares : RefundTopup(S, share)
  <2>1. PICK S \in SUBSET Rows, share \in Shares : RefundTopup(S, share)
    BY <1>7
  <2> DEFINE n == IF r \in S THEN Proportional(rows[r].granted, Remaining(rows[r]), share) ELSE 0
  <2>2. /\ rows'[r] = IF n = 0 THEN rows[r] ELSE Revocation(rows[r], n)
        /\ recorded'[r] = recorded[r] + n
    BY <2>1 DEF RefundTopup
  <2>3. n \in Nat
    BY <1>2, ProportionalBounded
  <2>4. n # 0 => rows[r].status # "revoked"
    BY <2>1 DEF RefundTopup, Live
  <2> HIDE DEF n
  <2>5. CASE n = 0
    BY <1>1, <1>2, <2>2, <2>5
  <2>6. CASE n # 0
    BY <1>1, <1>2, <2>2, <2>3, <2>4, <2>6, ActiveRevocationAudited
  <2> QED BY <2>5, <2>6
<1>8. CASE \E S \in SUBSET Rows : ExpirePoints(S)
  <2>1. PICK S \in SUBSET Rows : ExpirePoints(S)
    BY <1>8
  <2>2. CASE r \in S
    <3>1. /\ rows'[r] = [rows[r] EXCEPT !.status = "expired"]
          /\ recorded'[r] = recorded[r] + Remaining(rows[r])
          /\ rows[r].status = "active"
      BY <2>1, <2>2 DEF ExpirePoints, Live
    <3>2. rows'[r].revoked = rows[r].revoked
      BY <1>2, <3>1 DEF RowType
    <3> QED BY <1>1, <1>2, <3>1, <3>2 DEF Audited
  <2>3. CASE r \notin S
    BY <1>1, <1>2, <2>1, <2>3 DEF ExpirePoints
  <2> QED BY <2>2, <2>3
<1>9. CASE UNCHANGED <<rows, recorded>>
  BY <1>1, <1>9
<1> QED BY <1>3, <1>4, <1>6, <1>7, <1>8, <1>9 DEF Next, UpdateWalletStatus, Tick, vars

\* Whatever the order of refunds, revocations, reclaims and sweeps, a row the user
\* has spent from never loses points that its revocation records do not show.
THEOREM LossesRecorded == Spec => []UnrecordedOnlyIfUnspent
<1>1. Init => UnrecordedOnlyIfUnspent
  BY DEF Init, Blank, UnrecordedOnlyIfUnspent
<1>2. IInv /\ UnrecordedOnlyIfUnspent /\ [Next]_vars => UnrecordedOnlyIfUnspent'
  <2> SUFFICES ASSUME IInv, UnrecordedOnlyIfUnspent, [Next]_vars
               PROVE  \A r \in Rows : Audited(rows'[r], recorded'[r])
    BY DEF UnrecordedOnlyIfUnspent, Audited
  <2> QED BY AuditedStep
<1> QED BY <1>1, <1>2, InitInv, NextInv, PTL DEF Spec

-----------------------------------------------------------------------------
(* The lifetime totals *)

UsedIn(R, b) == [r \in Rows |-> IF R[r].bucket = b THEN R[r].used ELSE 0]
PaidIn(R, b) ==
    [r \in Rows |-> IF R[r].bucket = b /\ R[r].ctype \in Paid THEN R[r].granted ELSE 0]

\* What the rows of a bucket gave and brought, summed over all rows.
LEMMA TotalsByRow ==
    ASSUME NEW R \in [Rows -> RowType], NEW b \in Buckets
    PROVE  LET own == {r \in Rows : R[r].bucket = b} IN
           /\ SumOf([r \in Rows |-> R[r].used], own) = SumOf(UsedIn(R, b), Rows)
           /\ SumOf([r \in Rows |-> R[r].granted], {r \in own : R[r].ctype \in Paid})
                = SumOf(PaidIn(R, b), Rows)
           /\ \A r \in Rows : UsedIn(R, b)[r] \in Int /\ PaidIn(R, b)[r] \in Int
           /\ SumOf(UsedIn(R, b), Rows) \in Int /\ SumOf(PaidIn(R, b), Rows) \in Int
<1> DEFINE own == {r \in Rows : R[r].bucket = b}
           paid == {r \in own : R[r].ctype \in Paid}
           u == [r \in Rows |-> R[r].used]
           g == [r \in Rows |-> R[r].granted]
           ui == UsedIn(R, b)
           pi == PaidIn(R, b)
<1>1. \A r \in Rows : R[r].used \in Int /\ R[r].granted \in Int
  BY DEF RowType
<1>2. /\ own \subseteq Rows /\ paid \subseteq Rows
      /\ \A r \in Rows : u[r] \in Int /\ g[r] \in Int
      /\ \A r \in Rows : ui[r] = IF r \in own THEN u[r] ELSE 0
      /\ \A r \in Rows : pi[r] = IF r \in paid THEN g[r] ELSE 0
  BY <1>1 DEF UsedIn, PaidIn
<1> HIDE DEF own, paid, u, g, ui, pi
<1>3. SumOf(ui, Rows) = SumOf(u, own) /\ SumOf(pi, Rows) = SumOf(g, paid)
  <2>1. IsFiniteSet(Rows) /\ own \in SUBSET Rows /\ paid \in SUBSET Rows
    BY <1>2, IdsAssumption
  <2>2. (\A r \in own : u[r] \in Int) /\ (\A r \in paid : g[r] \in Int)
    BY <1>2
  <2>3. SumOf(ui, Rows) = SumOf(u, own)
    BY <1>2, <2>1, <2>2, SumOver
  <2>4. SumOf(pi, Rows) = SumOf(g, paid)
    BY <1>2, <2>1, <2>2, SumOver
  <2> QED BY <2>3, <2>4
<1>4. \A r \in Rows : ui[r] \in Int /\ pi[r] \in Int
  BY <1>2
<1>5. SumOf(ui, Rows) \in Int /\ SumOf(pi, Rows) \in Int
  BY <1>4, IdsAssumption, SumInt
<1> QED BY <1>3, <1>4, <1>5 DEF own, paid, u, g, ui, pi

Totals(R, c, w, p) ==
    \A b \in Buckets : c[b] = w[b] + SumOf(UsedIn(R, b), Rows) /\ p[b] = SumOf(PaidIn(R, b), Rows)

LEMMA DriftByRow ==
    ASSUME TypeOK
    PROVE  AnalyticsDriftFree <=> Totals(rows, consumed, windowed, recharged)
BY TotalsByRow DEF TypeOK, AnalyticsDriftFree, Totals

LEMMA DriftByRowPrime ==
    ASSUME TypeOK'
    PROVE  AnalyticsDriftFree' <=> Totals(rows', consumed', windowed', recharged')
BY TotalsByRow DEF TypeOK, AnalyticsDriftFree, Totals

\* A grant adds its paid rows to the totals of their buckets, whatever bucket the
\* unused row ids were counted under before.
LEMMA TotalsGrant ==
    ASSUME IInv, IInv', AnalyticsDriftFree, GrantSome
    PROVE  AnalyticsDriftFree'
<1>1. TypeOK /\ TypeOK' /\ \A r \in Rows : Sound(rows[r], clock)
  BY InvByRow DEF IInv
<1>2. PICK S \in SUBSET Rows : \E new \in [S -> FreshRow] : Grant(S, new)
  BY DEF GrantSome
<1>3. PICK new \in [S -> FreshRow] : Grant(S, new)
  BY <1>2
<1>4. \A r \in S : /\ new[r].granted \in Int /\ new[r].used = 0
                   /\ rows[r].granted = 0 /\ rows[r].used = 0 /\ rows'[r] = new[r]
  <2> TAKE r \in S
  <2>1. new[r].granted \in Int /\ new[r].used = 0
    <3>1. new[r] \in FreshRow
      OBVIOUS
    <3>2. new[r].granted \in GrantSizes /\ new[r].used = 0
      BY <3>1 DEF FreshRow
    <3>3. \A n \in GrantSizes : n \in Int
      BY GrantSizesAssumption, BoundsAssumption
    <3> QED BY <3>2, <3>3
  <2>2. rows[r].status = "absent" /\ rows'[r] = new[r]
    BY <1>3 DEF Grant
  <2>3. rows[r].granted \in Nat /\ rows[r].used \in Nat /\ rows[r].revoked \in Nat
    BY <1>1 DEF TypeOK, RowType
  <2> QED BY <1>1, <2>1, <2>2, <2>3 DEF Sound
<1>5. \A r \in Rows \ S : rows'[r] = rows[r]
  BY <1>3 DEF Grant
<1> SUFFICES ASSUME NEW b \in Buckets
             PROVE  /\ consumed'[b] = windowed'[b] + SumOf(UsedIn(rows', b), Rows)
                    /\ recharged'[b] = SumOf(PaidIn(rows', b), Rows)
  BY <1>1, DriftByRowPrime DEF Totals
<1>6. /\ consumed[b] = windowed[b] + SumOf(UsedIn(rows, b), Rows)
      /\ recharged[b] = SumOf(PaidIn(rows, b), Rows)
  BY <1>1, DriftByRow DEF Totals
<1>7. /\ consumed' = consumed /\ windowed' = windowed
      /\ recharged'[b] = recharged[b] + RechargedBy(S, new, b)
  BY <1>3 DEF Grant
<1>8. UsedIn(rows', b) = UsedIn(rows, b)
  <2>1. \A r \in Rows : UsedIn(rows', b)[r] = UsedIn(rows, b)[r]
    BY <1>4, <1>5 DEF UsedIn
  <2> QED BY <2>1 DEF UsedIn
<1> DEFINE paid == {r \in S : new[r].bucket = b /\ new[r].ctype \in Paid}
           g == [r \in S |-> new[r].granted]
           d == [r \in Rows |-> IF r \in paid THEN g[r] ELSE 0]
           old == PaidIn(rows, b)
           now == PaidIn(rows', b)
<1>9. /\ paid \subseteq Rows /\ \A r \in paid : g[r] \in Int
      /\ \A r \in Rows : d[r] = IF r \in paid THEN g[r] ELSE 0
      /\ \A r \in Rows : d[r] \in Int
  BY <1>4
<1>10. \A r \in Rows : old[r] \in Int /\ now[r] = old[r] + d[r]
  <2>1. \A r \in Rows : old[r] \in Int
    BY <1>1, TotalsByRow DEF TypeOK
  <2>2. ASSUME NEW r \in Rows PROVE now[r] = old[r] + d[r]
    <3>1. CASE r \in S
      <4>1. old[r] = 0
        BY <1>4, <3>1 DEF PaidIn
      <4>2. now[r] = d[r]
        BY <1>4, <3>1 DEF PaidIn
      <4> QED BY <1>9, <4>1, <4>2
    <3>2. CASE r \notin S
      <4>1. now[r] = old[r] /\ d[r] = 0
        BY <1>5, <3>2 DEF PaidIn
      <4> QED BY <2>1, <4>1
    <3> QED BY <3>1, <3>2
  <2> QED BY <2>1, <2>2
<1>11. RechargedBy(S, new, b) = SumOf(g, paid)
  BY DEF RechargedBy
<1> HIDE DEF paid, g, d, old, now
<1>12. SumOf(d, Rows) = SumOf(g, paid)
  <2>1. IsFiniteSet(Rows) /\ paid \in SUBSET Rows
    BY <1>9, IdsAssumption
  <2> QED BY <1>9, <2>1, SumOver
<1>13. SumOf(now, Rows) = SumOf(old, Rows) + SumOf(d, Rows)
  <2>1. IsFiniteSet(Rows)
    BY IdsAssumption
  <2>2. \A r \in Rows : old[r] \in Int /\ d[r] \in Int /\ now[r] = old[r] + d[r]
    BY <1>9, <1>10
  <2> QED BY <2>1, <2>2, SumAdd
<1> QED BY <1>6, <1>7, <1>8, <1>11, <1>12, <1>13 DEF old, now

\* A consume over several buckets charges each with what its rows and windows gave.
LEMMA TotalsConsume ==
    ASSUME IInv, IInv', AnalyticsDriftFree, ConsumeSome
    PROVE  AnalyticsDriftFree'
<1>1. TypeOK /\ TypeOK'
  BY DEF IInv
<1>2. PICK app \in Apps, t \in Time, take \in [Rows -> 0..MaxPoints],
           draw \in [Buckets -> 0..MaxWindowed] : Consume(app, t, take, draw)
  BY DEF ConsumeSome
<1>3. \A r \in Rows : take[r] \in Int /\ rows[r].used \in Int /\ rows[r] \in RowType
  BY <1>1, BoundsAssumption DEF TypeOK, RowType
<1>4. \A r \in Rows : /\ rows'[r].used = rows[r].used + take[r]
                      /\ rows'[r].bucket = rows[r].bucket /\ rows'[r].ctype = rows[r].ctype
                      /\ rows'[r].granted = rows[r].granted
  <2> TAKE r \in Rows
  <2>1. rows'[r] = IF take[r] = 0 THEN rows[r] ELSE Consumption(rows[r], take[r])
    BY <1>2 DEF Consume
  <2>2. CASE take[r] = 0
    BY <1>3, <2>1, <2>2
  <2>3. CASE take[r] # 0
    BY <1>3, <2>1, <2>3 DEF Consumption, RowType
  <2> QED BY <2>2, <2>3
<1> SUFFICES ASSUME NEW b \in Buckets
             PROVE  /\ consumed'[b] = windowed'[b] + SumOf(UsedIn(rows', b), Rows)
                    /\ recharged'[b] = SumOf(PaidIn(rows', b), Rows)
  BY <1>1, DriftByRowPrime DEF Totals
<1>5. /\ consumed[b] = windowed[b] + SumOf(UsedIn(rows, b), Rows)
      /\ recharged[b] = SumOf(PaidIn(rows, b), Rows)
  BY <1>1, DriftByRow DEF Totals
<1> DEFINE own == {r \in Rows : rows[r].bucket = b}
           d == [r \in Rows |-> IF r \in own THEN take[r] ELSE 0]
           old == UsedIn(rows, b)
           now == UsedIn(rows', b)
<1>6. /\ consumed'[b] = consumed[b] + draw[b] + SumOf(take, own)
      /\ windowed'[b] = windowed[b] + draw[b] /\ recharged' = recharged
  BY <1>2 DEF Consume, ConsumedAfter
<1>7. PaidIn(rows', b) = PaidIn(rows, b)
  BY <1>4 DEF PaidIn
<1>8. /\ own \subseteq Rows
      /\ \A r \in Rows : d[r] = (IF r \in own THEN take[r] ELSE 0) /\ d[r] \in Int
      /\ \A r \in Rows : old[r] \in Int /\ now[r] = old[r] + d[r]
  BY <1>3, <1>4 DEF UsedIn
<1>9. windowed[b] \in Int /\ draw[b] \in Int /\ SumOf(old, Rows) \in Int
  <2>1. rows \in [Rows -> RowType] /\ windowed[b] \in Nat
    BY <1>1 DEF TypeOK
  <2>2. draw[b] \in 0..MaxWindowed
    BY <1>2
  <2>3. SumOf(UsedIn(rows, b), Rows) \in Int
    BY <2>1, TotalsByRow
  <2> QED BY <2>1, <2>2, <2>3, BoundsAssumption
<1> HIDE DEF own, d, old, now
<1>10. SumOf(d, Rows) = SumOf(take, own)
  <2>1. IsFiniteSet(Rows) /\ own \in SUBSET Rows
    BY <1>8, IdsAssumption
  <2>2. \A r \in own : take[r] \in Int
    BY <1>3, <1>8
  <2>3. \A r \in Rows : d[r] = IF r \in own THEN take[r] ELSE 0
    BY <1>8
  <2> QED BY <2>1, <2>2, <2>3, SumOver
<1>11. SumOf(now, Rows) = SumOf(old, Rows) + SumOf(d, Rows) /\ SumOf(d, Rows) \in Int
  <2>1. IsFiniteSet(Rows)
    BY IdsAssumption
  <2>2. \A r \in Rows : old[r] \in Int /\ d[r] \in Int /\ now[r] = old[r] + d[r]
    BY <1>8
  <2>3. SumOf(d, Rows) \in Int
    BY <2>1, <2>2, SumInt
  <2> QED BY <2>1, <2>2, <2>3, SumAdd
<1> QED BY <1>5, <1>6, <1>7, <1>9, <1>10, <1>11 DEF old, now

\* Revocations, refunds and sweeps leave the lifetime totals and what they count alone.
LEMMA TotalsLoss ==
    ASSUME IInv, IInv', AnalyticsDriftFree, [Next]_vars, ~GrantSome, ~ConsumeSome
    PROVE  AnalyticsDriftFree'
<1>1. TypeOK /\ TypeOK'
  BY DEF IInv
<1>2. UNCHANGED <<consumed, windowed, recharged>>
  BY DEF Next, RevokeSome, RevokeByCreditType, RevokeBySourceId, RevokeDistributionSource,
         ReclaimPregrant, RevokeAll, RefundTopup, ExpirePoints, UpdateWalletStatus, Tick, vars
<1>3. \A r \in Rows :
        /\ rows'[r].used = rows[r].used /\ rows'[r].granted = rows[r].granted
        /\ rows'[r].bucket = rows[r].bucket /\ rows'[r].ctype = rows[r].ctype
  <2> TAKE r \in Rows
  <2>1. rows[r] \in RowType
    BY <1>1 DEF TypeOK
  <2>2. \/ rows'[r] = rows[r]
        \/ \E n : rows'[r] = Revocation(rows[r], n)
        \/ rows'[r] = [rows[r] EXCEPT !.status = "expired"]
    BY DEF Next, RevokeSome, RevokeByCreditType, RevokeBySourceId, RevokeDistributionSource,
           ReclaimPregrant, RevokeAll, RefundTopup, ExpirePoints, UpdateWalletStatus, Tick, vars
  <2>3. ASSUME NEW n, rows'[r] = Revocation(rows[r], n)
        PROVE  /\ rows'[r].used = rows[r].used /\ rows'[r].granted = rows[r].granted
               /\ rows'[r].bucket = rows[r].bucket /\ rows'[r].ctype = rows[r].ctype
    BY <2>1, <2>3 DEF Revocation, RowType
  <2>4. CASE rows'[r] = [rows[r] EXCEPT !.status = "expired"]
    BY <2>1, <2>4 DEF RowType
  <2> QED BY <2>2, <2>3, <2>4
<1>4. \A b \in Buckets : UsedIn(rows', b) = UsedIn(rows, b) /\ PaidIn(rows', b) = PaidIn(rows, b)
  BY <1>3 DEF UsedIn, PaidIn
<1>5. Totals(rows, consumed, windowed, recharged)
  BY <1>1, DriftByRow
<1>6. Totals(rows', consumed', windowed', recharged')
  BY <1>2, <1>4, <1>5 DEF Totals
<1> QED BY <1>1, <1>6, DriftByRowPrime

\* The lifetime totals of every wallet (WalletDelta) are what its rows and windows
\* gave and what paid grants brought, in any ledger and after any history.
THEOREM AnalyticsNeverDrift == Spec => []AnalyticsDriftFree
<1>1. Init => AnalyticsDriftFree
  <2> SUFFICES ASSUME Init PROVE AnalyticsDriftFree
    OBVIOUS
  <2>1. TypeOK
    BY InitInv DEF IInv
  <2>2. ASSUME NEW b \in Buckets
        PROVE  /\ consumed[b] = windowed[b] + SumOf(UsedIn(rows, b), Rows)
               /\ recharged[b] = SumOf(PaidIn(rows, b), Rows)
    <3> DEFINE u == UsedIn(rows, b)
               p == PaidIn(rows, b)
    <3>1. \A r \in Rows : u[r] = 0 /\ p[r] = 0
      BY DEF Init, Blank, UsedIn, PaidIn
    <3>2. consumed[b] = 0 /\ windowed[b] = 0 /\ recharged[b] = 0
      BY DEF Init
    <3> HIDE DEF u, p
    <3>3. SumOf(u, Rows) = 0 /\ SumOf(p, Rows) = 0
      BY <3>1, IdsAssumption, SumZero
    <3> QED BY <3>2, <3>3 DEF u, p
  <2> QED BY <2>1, <2>2, DriftByRow DEF Totals
<1>2. IInv /\ IInv' /\ AnalyticsDriftFree /\ [Next]_vars => AnalyticsDriftFree'
  BY TotalsGrant, TotalsConsume, TotalsLoss
<1> QED BY <1>1, <1>2, InitInv, NextInv, PTL DEF Spec
=============================================================================
