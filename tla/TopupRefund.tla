---------------------------- MODULE TopupRefund ----------------------------
(***************************************************************************)
(* The refunds of one one-time purchase.  A payment provider (Stripe or    *)
(* Creem) refunds the payment attempt in one or several parts and reports  *)
(* each part as an event; webhook requests and the retry sweep run the     *)
(* refund handler of every event that is not marked processed, with no     *)
(* lease, so the same event may be in the hands of two workers and events  *)
(* are handled in any order.  The handler records the refund and takes     *)
(* back the points in one transaction, then removes the roles the payment  *)
(* granted in a second one, then marks the event; it may fail anywhere.    *)
(* A Creem event that lacks a field the handler reads is marked processed  *)
(* with no effect at all.                                                  *)
(* Meanwhile the user spends points, and the fulfilment of the same        *)
(* purchase (points, then roles) may itself still be retried.              *)
(*                                                                         *)
(* The rows of the purchase are locked, updated and committed in one step: *)
(* the locks keep every other writer of those rows out until the commit,   *)
(* and PointsTx models the locking itself.                                 *)
(***************************************************************************)
EXTENDS Integers, FiniteSets, Sums

CONSTANTS
    Providers,  \* subset of {"stripe", "creem"}
    Workers,    \* webhook requests and retry sweeps that run at once
    Refunds,    \* refund ids at the provider
    Amounts,    \* the ways the provider may split what it returns
    Unreadable, \* the sets of refunds whose events may lack a field
    Original,   \* payment_attempts.amount
    Grants,     \* the ledger rows the purchase's rules grant
    Granted,    \* granted_amount of each of them
    MaxUsed,    \* bound: points of the purchase the user spends
    MaxFaults   \* bound: failures and repeated pushes

ASSUME ProvidersAssumption == Providers \subseteq {"stripe", "creem"} /\ Providers # {}
ASSUME OriginalAssumption == Original \in Nat \ {0}
ASSUME AmountsAssumption ==
    IsFiniteSet(Refunds) /\ Amounts \subseteq [Refunds -> 1..Original] /\ Amounts # {}
ASSUME UnreadableAssumption == {} \in Unreadable /\ Unreadable \subseteq SUBSET Refunds
ASSUME GrantedAssumption == IsFiniteSet(Grants) /\ Granted \in [Grants -> Nat \ {0}]
ASSUME RefundBoundsAssumption == MaxUsed \in Nat /\ MaxFaults \in Nat

VARIABLES
    provider,    \* payment_attempts.payment_provider
    amount,      \* what each refund returns
    missing,     \* refunds whose Creem event lacks a payment, amount or user
    told,        \* per refund, the cumulative figure of its event; 0: none yet
    recorded,    \* payment_refunds.cumulative_refunded_after; 0: no row
    clawed,      \* points_revocation_records per refund and row
    used,        \* used_amount of each row
    granted,     \* the fulfilment's points transaction has committed
    roles,       \* the user holds the roles of the purchase
    processed,   \* refund events marked processed
    job,         \* per worker, the handler call it runs
    fulfilment,  \* what the fulfilment does next
    faults,      \* failures and repeated pushes so far
    overtaken    \* history: the fulfilment wrote after a refund was issued

vars == <<provider, amount, missing, told, recorded, clawed, used, granted, roles, processed,
          job, fulfilment, faults, overtaken>>

Idle == [at |-> "idle"]
Job(step, r, n) == [at |-> step, refund |-> r, after |-> n]
InTransaction == {"record", "clawback", "duplicate"}
Steps == InTransaction \cup {"begin", "roles", "mark"}

Issued == {r \in Refunds : told[r] > 0}
Recorded == {r \in Refunds : recorded[r] > 0}
Revoked(g) == SumOf([r \in Refunds |-> clawed[r][g]], Refunds)
Remaining(g) == IF granted THEN Granted[g] - used[g] - Revoked(g) ELSE 0

Init ==
    /\ provider \in Providers
    /\ amount \in Amounts
    /\ missing \in Unreadable /\ (missing # {} => provider = "creem")
    /\ told = [r \in Refunds |-> 0]
    /\ recorded = [r \in Refunds |-> 0]
    /\ clawed = [r \in Refunds |-> [g \in Grants |-> 0]]
    /\ used = [g \in Grants |-> 0]
    /\ granted = FALSE
    /\ roles = FALSE
    /\ processed = {}
    /\ job = [w \in Workers |-> Idle]
    /\ fulfilment = "points"
    /\ faults = 0
    /\ overtaken = FALSE

-----------------------------------------------------------------------------
(* The refund handler *)

(* Slip: the share is not capped at what the row still holds.               *)
ProportionalUncapped(g, n) ==
    (Granted[g] * n + Original \div 2) \div Original

(* The share of a grant that a refund of `n` takes back, rounded half  *)
(* up and capped at what the row still holds.                               *)
Proportional(g, n) ==
    Min({(Granted[g] * n + Original \div 2) \div Original, Remaining(g)})

(* Slip: an event whose refund is recorded is not handled again.            *)
DeliverUnrecorded(w, r) ==
    /\ job[w] = Idle
    /\ r \in ((Issued \ processed) \ missing) \ Recorded
    /\ job' = [job EXCEPT ![w] = Job("begin", r, 0)]
    /\ UNCHANGED <<provider, amount, missing, told, recorded, clawed, used, granted, roles,
                   processed, fulfilment, faults, overtaken>>

(* The event is found unprocessed, its payload parsed and the attempt       *)
(* resolved.  A webhook request turns an event that does not parse away and *)
(* leaves it as it is.                                                      *)
Deliver(w, r) ==
    /\ job[w] = Idle
    /\ r \in (Issued \ processed) \ missing
    /\ job' = [job EXCEPT ![w] = Job("begin", r, 0)]
    /\ UNCHANGED <<provider, amount, missing, told, recorded, clawed, used, granted, roles,
                   processed, fulfilment, faults, overtaken>>

(* The provider pushes a refund again under another event id: the inbox     *)
(* knows events by that id, so the handler runs although the first event is *)
(* processed.                                                               *)
Repush(w, r) ==
    /\ job[w] = Idle
    /\ r \in processed \ missing
    /\ faults < MaxFaults
    /\ faults' = faults + 1
    /\ job' = [job EXCEPT ![w] = Job("begin", r, 0)]
    /\ UNCHANGED <<provider, amount, missing, told, recorded, clawed, used, granted, roles,
                   processed, fulfilment, overtaken>>

(* Slip: no advisory lock on the path that sums the recorded refunds.       *)
SerialiseNothing(w) ==
    /\ job[w].at = "begin"
    /\ job' = [job EXCEPT ![w].at = "record"]
    /\ UNCHANGED <<provider, amount, missing, told, recorded, clawed, used, granted, roles,
                   processed, fulfilment, faults, overtaken>>

(* BEGIN and, for Creem, the advisory lock of the attempt.                  *)
Serialise(w) ==
    /\ job[w].at = "begin"
    /\ provider = "creem" =>
         \A v \in Workers \ {w} : job[v].at \notin InTransaction
    /\ job' = [job EXCEPT ![w].at = "record"]
    /\ UNCHANGED <<provider, amount, missing, told, recorded, clawed, used, granted, roles,
                   processed, fulfilment, faults, overtaken>>

(* The cumulative figure: Stripe's event carries it, Creem's is summed over *)
(* the committed rows of the attempt.                                       *)
CumulativeAfter(r) ==
    IF provider = "stripe" THEN told[r] ELSE SumOf(amount, Recorded) + amount[r]

(* INSERT ... ON CONFLICT DO NOTHING: it waits for a transaction that has   *)
(* inserted the same refund id and not yet ended.                           *)
RecordRefund(w) ==
    LET r == job[w].refund IN
    /\ job[w].at = "record"
    /\ \A v \in Workers \ {w} : ~(job[v].at = "clawback" /\ job[v].refund = r)
    /\ job' = [job EXCEPT ![w] =
                 IF r \in Recorded THEN Job("duplicate", r, 0)
                                   ELSE Job("clawback", r, CumulativeAfter(r))]
    /\ UNCHANGED <<provider, amount, missing, told, recorded, clawed, used, granted, roles,
                   processed, fulfilment, faults, overtaken>>

(* Slip: any refund leads to the roles.                                     *)
AfterAnyRefund(r, cumulative) == Job("roles", r, 0)

(* Only the full-refund gate leads to the roles.                            *)
AfterGate(r, cumulative) ==
    IF cumulative >= Original THEN Job("roles", r, 0) ELSE Job("mark", r, 0)

(* A refund already recorded reports the gate of its own row.               *)
Duplicate(w) ==
    LET r == job[w].refund IN
    /\ job[w].at = "duplicate"
    /\ job' = [job EXCEPT ![w] = AfterGate(r, recorded[r])]
    /\ UNCHANGED <<provider, amount, missing, told, recorded, clawed, used, granted, roles,
                   processed, fulfilment, faults, overtaken>>

(* Slips: the cumulative figure taken for the refund's own amount, and no   *)
(* sweep at the gate.                                                       *)
EffectiveCumulative(r, cumulative) == cumulative
EffectiveIncrement(r, cumulative) == amount[r]

EffectiveAmount(r, cumulative) ==
    IF cumulative >= Original THEN Original ELSE amount[r]

(* The rows of the purchase lose the refund's share, and the refund row,    *)
(* the rows and the revocation records commit together.                     *)
Clawback(w) ==
    LET r == job[w].refund
        n == job[w].after
    IN
    /\ job[w].at = "clawback"
    /\ recorded' = [recorded EXCEPT ![r] = n]
    /\ clawed' = [clawed EXCEPT ![r] =
                    [g \in Grants |-> @[g] + Proportional(g, EffectiveAmount(r, n))]]
    /\ job' = [job EXCEPT ![w] = AfterGate(r, n)]
    /\ UNCHANGED <<provider, amount, missing, told, used, granted, roles, processed,
                   fulfilment, faults, overtaken>>

(* revoke_payment_roles_for_source: a DELETE of its own.                    *)
RevokeRoles(w) ==
    /\ job[w].at = "roles"
    /\ roles' = FALSE
    /\ job' = [job EXCEPT ![w].at = "mark"]
    /\ UNCHANGED <<provider, amount, missing, told, recorded, clawed, used, granted, processed,
                   fulfilment, faults, overtaken>>

MarkProcessed(w) ==
    /\ job[w].at = "mark"
    /\ processed' = processed \cup {job[w].refund}
    /\ job' = [job EXCEPT ![w] = Idle]
    /\ UNCHANGED <<provider, amount, missing, told, recorded, clawed, used, granted, roles,
                   fulfilment, faults, overtaken>>

(* reprocess_creem_event, called by the retry sweep and the compensation    *)
(* job: an event that lacks a field is marked processed and nothing else    *)
(* happens.  What the compensation job derives from the provider's list of  *)
(* transactions for a refund whose webhook was lost is always of this kind. *)
Tombstone(r) ==
    /\ r \in (Issued \ processed) \cap missing
    /\ processed' = processed \cup {r}
    /\ UNCHANGED <<provider, amount, missing, told, recorded, clawed, used, granted, roles,
                   job, fulfilment, faults, overtaken>>

(* Slip: a failed role revocation is logged and the event marked.           *)
HandlerFailsQuietly(w) ==
    /\ job[w] # Idle
    /\ faults < MaxFaults
    /\ faults' = faults + 1
    /\ job' = [job EXCEPT ![w] = IF job[w].at = "roles"
                                   THEN Job("mark", job[w].refund, 0) ELSE Idle]
    /\ UNCHANGED <<provider, amount, missing, told, recorded, clawed, used, granted, roles,
                   processed, fulfilment, overtaken>>

(* An error, a crash or a lost connection: an open transaction is rolled    *)
(* back and the event stays unprocessed.                                    *)
HandlerFails(w) ==
    /\ job[w] # Idle
    /\ faults < MaxFaults
    /\ faults' = faults + 1
    /\ job' = [job EXCEPT ![w] = Idle]
    /\ UNCHANGED <<provider, amount, missing, told, recorded, clawed, used, granted, roles,
                   processed, fulfilment, overtaken>>

(* The Stripe webhook reruns the failed handler at once.                    *)
HandlerReruns(w) ==
    /\ provider = "stripe"
    /\ job[w] # Idle /\ job[w].at # "mark"
    /\ faults < MaxFaults
    /\ faults' = faults + 1
    /\ job' = [job EXCEPT ![w] = Job("begin", job[w].refund, 0)]
    /\ UNCHANGED <<provider, amount, missing, told, recorded, clawed, used, granted, roles,
                   processed, fulfilment, overtaken>>

-----------------------------------------------------------------------------
(* The fulfilment of the purchase, once the attempt is marked succeeded *)

(* The points transaction, idempotent on the event key of the attempt.      *)
GrantPoints ==
    /\ fulfilment = "points"
    /\ granted' = TRUE
    /\ overtaken' = (overtaken \/ (~granted /\ Issued # {}))
    /\ fulfilment' = "roles"
    /\ UNCHANGED <<provider, amount, missing, told, recorded, clawed, used, roles, processed,
                   job, faults>>

(* grant_role_by_payment: a row deleted by a refund is inserted again.      *)
GrantRoles ==
    /\ fulfilment = "roles"
    /\ roles' = TRUE
    /\ overtaken' = (overtaken \/ Issued # {})
    /\ fulfilment' = "close"
    /\ UNCHANGED <<provider, amount, missing, told, recorded, clawed, used, granted, processed,
                   job, faults>>

(* The purchase event is marked processed.                                  *)
CloseFulfilment ==
    /\ fulfilment = "close"
    /\ fulfilment' = "done"
    /\ UNCHANGED <<provider, amount, missing, told, recorded, clawed, used, granted, roles,
                   processed, job, faults, overtaken>>

(* The fulfilment fails before it is marked and is run again from the start.*)
FulfilmentFails ==
    /\ fulfilment \in {"roles", "close"}
    /\ faults < MaxFaults
    /\ faults' = faults + 1
    /\ fulfilment' = "points"
    /\ UNCHANGED <<provider, amount, missing, told, recorded, clawed, used, granted, roles,
                   processed, job, overtaken>>

-----------------------------------------------------------------------------
(* The provider and the user *)

(* A provider never returns more than was paid; its event is fixed here.    *)
Issue(r) ==
    /\ r \notin Issued
    /\ SumOf(amount, Issued) + amount[r] <= Original
    /\ told' = [told EXCEPT ![r] = SumOf(amount, Issued) + amount[r]]
    /\ UNCHANGED <<provider, amount, missing, recorded, clawed, used, granted, roles, processed,
                   job, fulfilment, faults, overtaken>>

Spend(g) ==
    /\ Remaining(g) > 0
    /\ SumOf(used, Grants) < MaxUsed
    /\ used' = [used EXCEPT ![g] = @ + 1]
    /\ UNCHANGED <<provider, amount, missing, told, recorded, clawed, granted, roles, processed,
                   job, fulfilment, faults, overtaken>>

-----------------------------------------------------------------------------
HandlerStep(w) ==
    \/ Serialise(w)
    \/ RecordRefund(w)
    \/ Duplicate(w)
    \/ Clawback(w)
    \/ RevokeRoles(w)
    \/ MarkProcessed(w)

FulfilmentStep == GrantPoints \/ GrantRoles \/ CloseFulfilment

Next ==
    \/ \E w \in Workers : HandlerStep(w) \/ HandlerFails(w) \/ HandlerReruns(w)
    \/ \E w \in Workers, r \in Refunds : Deliver(w, r) \/ Repush(w, r)
    \/ FulfilmentStep
    \/ FulfilmentFails
    \/ \E r \in Refunds : Issue(r) \/ Tombstone(r)
    \/ \E g \in Grants : Spend(g)

Spec == Init /\ [][Next]_vars

(* The retry sweep comes back to every unprocessed event, and a call that   *)
(* does not fail goes on.                                                   *)
FairSpec ==
    /\ Spec
    /\ \A w \in Workers : WF_vars(HandlerStep(w))
    /\ \A r \in Refunds : WF_vars(\E w \in Workers : Deliver(w, r))
    /\ WF_vars(FulfilmentStep)

-----------------------------------------------------------------------------
(* Properties *)

(* Every figure the refund path stores has the range its column and its    *)
(* place in the handler allow; a worker in the clawback holds the          *)
(* cumulative it computed.                                                 *)
TypeOK ==
    /\ provider \in Providers /\ amount \in Amounts /\ missing \in Unreadable
    /\ told \in [Refunds -> 0..Original]
    /\ recorded \in [Refunds -> 0..Original]
    /\ \A r \in Refunds, g \in Grants : clawed[r][g] \in 0..Granted[g]
    /\ \A g \in Grants : used[g] \in 0..Granted[g] /\ Remaining(g) >= 0
    /\ granted \in BOOLEAN /\ roles \in BOOLEAN /\ overtaken \in BOOLEAN
    /\ processed \subseteq Issued
    /\ \A w \in Workers : \/ job[w] = Idle
                          \/ job[w] \in [at : Steps, refund : Issued, after : 0..Original]
    /\ fulfilment \in {"points", "roles", "close", "done"}
    /\ faults \in 0..MaxFaults

(* A refund that is not the one that completes the payment takes back at   *)
(* most its own share of each grant, however often it is pushed, retried   *)
(* or handled by two workers at once (revoke_topup_refund_atomic dedups on *)
(* the refund id in the transaction of the revocation).                    *)
PartialTakesItsShare ==
    \A r \in Refunds, g \in Grants :
        recorded[r] < Original =>
            2 * Original * clawed[r][g] <= 2 * Granted[g] * amount[r] + Original

(* When the recorded refunds of the attempt add up to the payment, one of  *)
(* them has opened the full-refund gate, whatever the order and the        *)
(* overlap of their transactions (the advisory lock of the Creem path).    *)
GateOpensAtFull ==
    SumOf(amount, Recorded) = Original => \E r \in Recorded : recorded[r] >= Original

(* Once the gate is open the purchase holds no point any more, rounding    *)
(* residue and points granted in several rows included, unless the         *)
(* fulfilment was still running when the first refund was issued           *)
(* (effective_refund_amount of revoke_topup_refund_atomic).                *)
FullRefundSweepsSource ==
    (\E r \in Recorded : recorded[r] >= Original) /\ ~overtaken =>
        \A g \in Grants : Remaining(g) = 0

(* The roles of a completed purchase are only gone when the provider has   *)
(* returned the whole payment: partial refunds, in any number, and their   *)
(* redeliveries keep them (the fully_refunded gate of both handlers).      *)
RolesKeptOnPartial ==
    fulfilment = "done" /\ ~roles => SumOf(amount, Issued) = Original

(* An event that parses and is marked processed has had its whole effect:  *)
(* its refund is recorded and, if it opened the gate, the roles are gone   *)
(* (errors of the role revocation propagate, so the event is not marked).  *)
(* Events that do not parse are the ones reprocess_creem_event tombstones; *)
(* CompensatedIsCorrect is about those.                                    *)
ProcessedIsSettled ==
    \A r \in processed \ missing :
        /\ r \in Recorded
        /\ recorded[r] >= Original /\ ~overtaken => ~roles

(* A payment returned in full, by events that parse, ends with its points  *)
(* and its roles taken back, although the handler may fail between the two *)
(* transactions (duplicate branch of revoke_topup_refund_atomic, retry     *)
(* sweep).                                                                 *)
FullRefundSettles ==
    SumOf(amount, Issued) = Original /\ Issued \cap missing = {} ~>
        \/ overtaken
        \/ ~roles /\ \A g \in Grants : Remaining(g) = 0

(* What the retry sweep's comment and the refund rules promise: with the   *)
(* purchase event and every refund event processed and the payment         *)
(* returned in full, the user keeps neither points nor roles of it.        *)
NoMissedRevoke ==
    /\ fulfilment = "done"
    /\ processed = Refunds
    /\ SumOf(amount, Refunds) = Original
    => ~roles /\ \A g \in Grants : Remaining(g) = 0

(* What the compensation story promises of a Creem event whose webhook was *)
(* lost: once it is compensated the points are right.  Here the purchase   *)
(* was fulfilled before the refund, the refund returns the whole payment   *)
(* and no event is left open.                                              *)
CompensatedIsCorrect ==
    /\ fulfilment = "done" /\ ~overtaken
    /\ processed = Refunds
    /\ SumOf(amount, Refunds) = Original
    => ~roles /\ \A g \in Grants : Remaining(g) = 0
=============================================================================
