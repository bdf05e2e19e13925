---------------------------- MODULE PointsLedger ----------------------------
(***************************************************************************)
(* What the points store of one user promises when every database          *)
(* transaction of PostgresPointsRepository is seen as one step: the rows   *)
(* of points_credit_ledger, the wallets of points_wallets and what the     *)
(* revocation log records.  A consume is specified by its contract         *)
(* (all or nothing, nearest expiry first, never more than a row holds),    *)
(* not by the greedy loop that computes it; PointsTx models that loop      *)
(* under row locks and is shown to implement this module.                  *)
(***************************************************************************)
EXTENDS Integers, FiniteSets, Sums

CONSTANTS
    Buckets,      \* credit buckets; their order is the bucket_id order
    Rows,         \* ledger row ids; their order is the creation order
    Sources,      \* payments, subscriptions or admins a grant comes from
    CreditTypes,  \* subset of the five credit types that are granted as rows
    Apps,         \* client apps that may consume
    Covered,      \* the buckets each client app covers
    GrantSizes,   \* the amounts a grant may have
    MaxPoints,    \* bound: the largest grant and the largest consume
    MaxWindowed,  \* bound: the window consumption of a bucket
    MaxTime,      \* bound: the last instant of the clock
    Shares        \* the <<refund amount, original amount>> pairs of a refund

ASSUME IdsAssumption == Buckets \subseteq Nat /\ Rows \subseteq Nat /\ IsFiniteSet(Rows)
ASSUME NonEmptyAssumption == Buckets # {} /\ CreditTypes # {} /\ Sources # {}
ASSUME CoveredAssumption == Covered \in [Apps -> SUBSET Buckets]
ASSUME BoundsAssumption == MaxPoints \in Nat \ {0} /\ MaxTime \in Nat /\ MaxWindowed \in Nat
ASSUME GrantSizesAssumption == GrantSizes \subseteq 1..MaxPoints
ASSUME SharesAssumption ==
    Shares \subseteq {p \in (Nat \ {0}) \X (Nat \ {0}) : p[1] <= p[2]}

VARIABLES
    rows,      \* points_credit_ledger
    wallets,   \* points_wallets: the status of each bucket's wallet
    recharged, \* points_wallets.total_recharged
    consumed,  \* points_wallets.total_consumed
    recorded,  \* per row, the sum of its points_revocation_records
    windowed,  \* per bucket, the points consumed from quota windows
    clock

vars == <<rows, wallets, recharged, consumed, recorded, windowed, clock>>

Time == 0..MaxTime
Never == MaxTime + 1                 \* expires_at IS NULL
Points == 1..MaxPoints
Kept == {"active", "fully_used", "revoked", "expired"}
Paid == {"topup_credit", "subscription_credit"}

RowType ==
    [bucket : Buckets, ctype : CreditTypes, source : Sources,
     granted : 0..MaxPoints, used : 0..MaxPoints, revoked : 0..MaxPoints,
     effective : Time, expires : 1..Never, status : Kept \cup {"absent"}]

WalletStatus == {"none", "active", "frozen"}

-----------------------------------------------------------------------------
(* Rows *)

\* remaining_amount is a generated column.
Remaining(w) == w.granted - w.used - w.revoked

\* LedgerUpdate::Consumption and LedgerUpdate::Revocation of update_ledger_in_tx.
Consumption(w, n) ==
    [w EXCEPT !.used = @ + n,
              !.status = IF Remaining(w) = n THEN "fully_used" ELSE @]

RevocationKeepingStatus(w, n) == [w EXCEPT !.revoked = @ + n]

Revocation(w, n) ==
    [w EXCEPT !.revoked = @ + n,
              !.status = IF Remaining(w) = n THEN "revoked" ELSE @]

Live(w) == w.status = "active" /\ Remaining(w) > 0

SpendableInAnyStatus(w, t) == Remaining(w) > 0 /\ w.expires > t /\ w.effective <= t

\* The one predicate of consumption and of the derived balance.
Spendable(w, t) == Live(w) /\ w.expires > t /\ w.effective <= t

\* ORDER BY expires_at ASC NULLS LAST, created_at ASC.
Before(r, s) ==
    \/ rows[r].expires < rows[s].expires
    \/ rows[r].expires = rows[s].expires /\ r < s

\* proportional_refund_for_grant: half-up share of a base, capped.
HalfUp(base, share) == (base * share[1] + (share[2] \div 2)) \div share[2]
Proportional(base, left, share) ==
    IF HalfUp(base, share) < left THEN HalfUp(base, share) ELSE left

-----------------------------------------------------------------------------
Blank ==
    [bucket |-> CHOOSE b \in Buckets : TRUE, ctype |-> CHOOSE c \in CreditTypes : TRUE,
     source |-> CHOOSE s \in Sources : TRUE, granted |-> 0, used |-> 0, revoked |-> 0,
     effective |-> 0, expires |-> Never, status |-> "absent"]

Init ==
    /\ rows = [r \in Rows |-> Blank]
    /\ wallets = [b \in Buckets |-> "none"]
    /\ recharged = [b \in Buckets |-> 0]
    /\ consumed = [b \in Buckets |-> 0]
    /\ recorded = [r \in Rows |-> 0]
    /\ windowed = [b \in Buckets |-> 0]
    /\ clock = 0

\* ensure_wallet_in_tx: a missing wallet is created active with zero totals.
Ensured(b) == IF wallets[b] = "none" THEN "active" ELSE wallets[b]

Usable(b) == wallets[b] \in {"none", "active"}

\* A row as create_ledger_in_tx inserts it.
FreshRow ==
    [bucket : Buckets, ctype : CreditTypes, source : Sources,
     granted : GrantSizes, used : {0}, revoked : {0},
     effective : Time, expires : 1..Never, status : {"active"}]

\* WalletDelta::grant: paid grants accrue total_recharged.
RechargedBy(S, new, b) ==
    SumOf([r \in S |-> new[r].granted],
          {r \in S : new[r].bucket = b /\ new[r].ctype \in Paid})

\* One transaction grants the rows of S, wallets and lifetime totals included: one
\* row for grant_points_atomic and recharge_points_atomic, one per fixed rule for
\* a distribution event.  effective = 0 stands for effective_at NULL or past.
Grant(S, new) ==
    /\ S # {}
    /\ \A r \in S : rows[r].status = "absent" /\ Usable(new[r].bucket)
    /\ rows' = [r \in Rows |-> IF r \in S THEN new[r] ELSE rows[r]]
    /\ wallets' = [b \in Buckets |->
                     IF \E r \in S : new[r].bucket = b THEN Ensured(b) ELSE wallets[b]]
    /\ recharged' = [b \in Buckets |-> recharged[b] + RechargedBy(S, new, b)]
    /\ UNCHANGED <<consumed, recorded, windowed, clock>>

TakesNearestExpiryUncapped(app, t, take) ==
    LET pool == {r \in Rows : rows[r].bucket \in Covered[app] /\ Spendable(rows[r], t)}
    IN \A r \in Rows :
         take[r] > 0 => /\ r \in pool
                        /\ \A s \in pool : Before(s, r) => take[s] >= Remaining(rows[s])

\* What consume_points_atomic may take from the rows for an app at instant t:
\* only spendable rows of covered buckets, no more than each holds, and nothing
\* from a row while one that expires sooner is left with points.
TakesNearestExpiry(app, t, take) ==
    LET pool == {r \in Rows : rows[r].bucket \in Covered[app] /\ Spendable(rows[r], t)}
    IN \A r \in Rows :
         take[r] > 0 => /\ r \in pool
                        /\ take[r] <= Remaining(rows[r])
                        /\ \A s \in pool : Before(s, r) => take[s] = Remaining(rows[s])

\* The wallet deltas of a consume: its window rows and its pool rows.
ConsumedForgettingWindows(b, take, draw) ==
    consumed[b] + SumOf(take, {r \in Rows : rows[r].bucket = b})

ConsumedAfter(b, take, draw) ==
    consumed[b] + draw[b] + SumOf(take, {r \in Rows : rows[r].bucket = b})

\* The transaction reads the clock when it begins (t) and commits later.  The
\* wallets of all covered buckets exist and are active afterwards.
Consume(app, t, take, draw) ==
    /\ Covered[app] # {}
    /\ t <= clock
    /\ \A b \in Covered[app] : Usable(b)
    /\ \A b \in Buckets : draw[b] > 0 => b \in Covered[app] /\ windowed[b] + draw[b] <= MaxWindowed
    /\ TakesNearestExpiry(app, t, take)
    /\ SumOf(take, Rows) + SumOf(draw, Buckets) \in Points
    /\ rows' = [r \in Rows |->
                  IF take[r] = 0 THEN rows[r] ELSE Consumption(rows[r], take[r])]
    /\ windowed' = [b \in Buckets |-> windowed[b] + draw[b]]
    /\ wallets' = [b \in Buckets |-> IF b \in Covered[app] THEN Ensured(b) ELSE wallets[b]]
    /\ consumed' = [b \in Buckets |-> ConsumedAfter(b, take, draw)]
    /\ UNCHANGED <<recharged, recorded, clock>>

\* revoke_ledger_list_in_tx: the rows of S lose all they have left, each with a record.
RevokeAll(S) ==
    /\ rows' = [r \in Rows |->
                  IF r \in S THEN Revocation(rows[r], Remaining(rows[r])) ELSE rows[r]]
    /\ recorded' = [r \in Rows |->
                      recorded[r] + (IF r \in S THEN Remaining(rows[r]) ELSE 0)]
    /\ UNCHANGED <<wallets, recharged, consumed, windowed, clock>>

\* revoke_points_by_credit_type_atomic, called with a wallet that exists.
RevokeByCreditType(b, c) ==
    /\ wallets[b] # "none"
    /\ RevokeAll({r \in Rows : rows[r].bucket = b /\ rows[r].ctype = c /\ Live(rows[r])})

\* revoke_points_by_source_id_atomic: one row of the source, whatever its status.
RevokeBySourceId(b, r) ==
    /\ wallets[b] # "none"
    /\ rows[r].bucket = b
    /\ Remaining(rows[r]) > 0
    /\ RevokeAll({r})

\* revoke_distribution_source_in_tx: every row of the source, whatever its status.
RevokeDistributionSource(s) ==
    RevokeAll({r \in Rows : rows[r].source = s /\ Remaining(rows[r]) > 0})

ReclaimPregrantUnrecorded(s) ==
    LET target == {r \in Rows : rows[r].source = s /\ Live(rows[r])}
    IN /\ rows' = [r \in Rows |->
                     IF r \in target THEN Revocation(rows[r], Remaining(rows[r])) ELSE rows[r]]
       /\ UNCHANGED <<wallets, recharged, consumed, recorded, windowed, clock>>

\* revoke_pregrant_ledger_row_atomic: a record only where points were already used.
ReclaimPregrant(s) ==
    LET target == {r \in Rows : rows[r].source = s /\ Live(rows[r])}
    IN /\ rows' = [r \in Rows |->
                     IF r \in target THEN Revocation(rows[r], Remaining(rows[r])) ELSE rows[r]]
       /\ recorded' = [r \in Rows |->
                         recorded[r] + (IF r \in target /\ rows[r].used > 0
                                        THEN Remaining(rows[r]) ELSE 0)]
       /\ UNCHANGED <<wallets, recharged, consumed, windowed, clock>>

\* revoke_topup_refund_atomic: the live top-up rows of a payment that its query
\* found each lose their share.
RefundTopup(S, share) ==
    LET due == [r \in Rows |->
                  IF r \in S THEN Proportional(rows[r].granted, Remaining(rows[r]), share) ELSE 0]
    IN /\ \A r \in S : rows[r].ctype = "topup_credit" /\ Live(rows[r])
       /\ \A r, q \in S : rows[r].source = rows[q].source
       /\ rows' = [r \in Rows |->
                     IF due[r] = 0 THEN rows[r] ELSE Revocation(rows[r], due[r])]
       /\ recorded' = [r \in Rows |-> recorded[r] + due[r]]
       /\ UNCHANGED <<wallets, recharged, consumed, windowed, clock>>

\* scan_and_expire_points_atomic: a batch of live rows past their expiry.  The
\* points stay in the row; only the status and the log say that they are gone.
ExpirePoints(S) ==
    /\ S # {}
    /\ \A r \in S : Live(rows[r]) /\ rows[r].expires <= clock
    /\ rows' = [r \in Rows |->
                  IF r \in S THEN [rows[r] EXCEPT !.status = "expired"] ELSE rows[r]]
    /\ recorded' = [r \in Rows |->
                      recorded[r] + (IF r \in S THEN Remaining(rows[r]) ELSE 0)]
    /\ UNCHANGED <<wallets, recharged, consumed, windowed, clock>>

\* The administrator's wallet-status endpoint writes whatever status it is given;
\* "frozen" stands for frozen and closed, which every path treats alike.
UpdateWalletStatus(b, st) ==
    /\ wallets[b] # "none"
    /\ wallets' = [wallets EXCEPT ![b] = st]
    /\ UNCHANGED <<rows, recharged, consumed, recorded, windowed, clock>>

Tick ==
    /\ clock < MaxTime
    /\ clock' = clock + 1
    /\ UNCHANGED <<rows, wallets, recharged, consumed, recorded, windowed>>

GrantSome == \E S \in SUBSET Rows : \E new \in [S -> FreshRow] : Grant(S, new)

ConsumeSome ==
    \E app \in Apps, t \in Time, take \in [Rows -> 0..MaxPoints],
       draw \in [Buckets -> 0..MaxWindowed] : Consume(app, t, take, draw)

RevokeSome ==
    \/ \E b \in Buckets, c \in CreditTypes : RevokeByCreditType(b, c)
    \/ \E b \in Buckets, r \in Rows : RevokeBySourceId(b, r)
    \/ \E s \in Sources : RevokeDistributionSource(s) \/ ReclaimPregrant(s)

Next ==
    \/ ConsumeSome
    \/ RevokeSome
    \/ \E S \in SUBSET Rows, share \in Shares : RefundTopup(S, share)
    \/ \E S \in SUBSET Rows : ExpirePoints(S)
    \/ \E b \in Buckets, st \in {"active", "frozen"} : UpdateWalletStatus(b, st)
    \/ Tick
    \/ GrantSome

Spec == Init /\ [][Next]_vars

-----------------------------------------------------------------------------
(* Properties *)

\* Every variable stays in its domain, and no row is ever drawn below zero.
TypeOK ==
    /\ rows \in [Rows -> RowType]
    /\ wallets \in [Buckets -> WalletStatus]
    /\ DOMAIN recharged = Buckets /\ DOMAIN consumed = Buckets
    /\ recorded \in [Rows -> Nat]
    /\ windowed \in [Buckets -> Nat]
    /\ clock \in Time

\* The status of a row, which every query filters on, tells the truth about the
\* generated remaining_amount after any mix of consumes, partial refunds,
\* revocations and expiries: active rows have points left, fully_used and
\* revoked rows have none, and an expired row kept points past its expiry.
StatusAgreesWithBalance ==
    \A r \in Rows :
        LET w == rows[r] IN
        /\ w.used + w.revoked <= w.granted
        /\ w.status = "active" => Remaining(w) > 0
        /\ w.status = "fully_used" => Remaining(w) = 0 /\ w.used > 0
        /\ w.status = "revoked" => Remaining(w) = 0 /\ w.revoked > 0
        /\ w.status = "expired" => Remaining(w) > 0 /\ w.expires <= clock
        /\ w.status = "absent" => w.granted = 0

\* The lifetime analytics columns never drift from the ledger: a wallet's
\* total_consumed is what its rows and windows gave, its total_recharged what
\* paid grants brought, across consumes that span several buckets.
AnalyticsDriftFree ==
    \A b \in Buckets :
        LET own == {r \in Rows : rows[r].bucket = b} IN
        /\ consumed[b] = windowed[b] + SumOf([r \in Rows |-> rows[r].used], own)
        /\ recharged[b] =
             SumOf([r \in Rows |-> rows[r].granted], {r \in own : rows[r].ctype \in Paid})

\* A row that left the active state never gives points again: what was used up,
\* clawed back or swept stays so, and no step takes back a use or a revocation.
NoResurrection ==
    [][\A r \in Rows :
         /\ rows'[r].used >= rows[r].used
         /\ rows'[r].revoked >= rows[r].revoked
         /\ rows[r].status \in {"fully_used", "revoked"} => rows'[r] = rows[r]
         /\ rows[r].status = "expired" => /\ rows'[r].used = rows[r].used
                                          /\ rows'[r].status \in {"expired", "revoked"}]_vars

\* The revocation log accounts for every loss of a row the user has spent from:
\* the one loss it may miss is the reclaim of a pre-granted row nobody used.
UnrecordedOnlyIfUnspent ==
    \A r \in Rows :
        rows[r].revoked > recorded[r] => rows[r].used = 0 /\ rows[r].status = "revoked"
=============================================================================
