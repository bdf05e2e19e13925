----------------------------- MODULE MCPointsTx -----------------------------
(* Scripts for the transactions.  The distribution event grants a permanent  *)
(* top-up row in the second bucket first and then an expiring one in the     *)
(* first bucket, so the orders of wallets, of ids and of expiry all differ.  *)
EXTENDS PointsTx, TLC

MCCovered == [a \in Apps |-> Buckets]
MCAppOf == [t \in Consumers |-> CHOOSE a \in Apps : TRUE]
MCShares == {<<1, 2>>}

MCGrantPlan ==
    [t \in Granters |->
       <<[row |-> 1, bucket |-> 2, ctype |-> "topup_credit", source |-> "pay",
          amount |-> 2, effective |-> 0, expires |-> 1],
         [row |-> 2, bucket |-> 1, ctype |-> "topup_credit", source |-> "pay",
          amount |-> 2, effective |-> 0, expires |-> MaxTime + 1]>>]

\* The same two rows granted in bucket_id order, the order a consume locks wallets in.
AscendingPlan ==
    [t \in Granters |->
       <<[row |-> 1, bucket |-> 1, ctype |-> "topup_credit", source |-> "pay",
          amount |-> 2, effective |-> 0, expires |-> MaxTime + 1],
         [row |-> 2, bucket |-> 2, ctype |-> "topup_credit", source |-> "pay",
          amount |-> 2, effective |-> 0, expires |-> MaxTime]>>]
PermanentRow ==
    [t \in Granters |->
       <<[row |-> 1, bucket |-> 1, ctype |-> "topup_credit", source |-> "pay",
          amount |-> 1, effective |-> 0, expires |-> MaxTime + 1]>>]
MCRevokePlan == [t \in Revokers |-> [bucket |-> 2, ctype |-> "topup_credit"]]
MCRefundPlan == [t \in Refunders |-> [source |-> "pay", share |-> <<1, 2>>]]

\* Two consumes of the same app are interchangeable.
Interchangeable == Permutations(Consumers)

NoWindows == <<>>
BothWindows == <<"subscription_credit", "free_periodic_credit">>

\* A plan with a tight short window and a looser long one, and a free quota that
\* ends at instant 1.
MCQuota ==
    [e \in Entitlements |->
       IF e = "plan"
       THEN [bucket |-> 1, ctype |-> "subscription_credit", from |-> 0, until |-> MaxTime + 1,
             windows |-> {[len |-> 1, limit |-> 2], [len |-> 2, limit |-> 3]}]
       ELSE [bucket |-> 1, ctype |-> "free_periodic_credit", from |-> 0, until |-> 1,
             windows |-> {[len |-> 1, limit |-> 1]}]]
=============================================================================
