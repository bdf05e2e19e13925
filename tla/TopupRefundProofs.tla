--------------------------- MODULE TopupRefundProofs ---------------------------
(* Proofs, for either provider and any number of workers, refunds, grants,   *)
(* amounts and failures, of the safety properties of TopupRefund.  Inv is    *)
(* the inductive invariant of the refund handler: what a worker holds in the *)
(* middle of it, although it works without a lease and others handle the     *)
(* same refund, or other refunds of the same payment, meanwhile.             *)
EXTENDS TopupRefund, SumTheorems

JobType == [at : Steps, refund : Refunds, after : Nat]

Shapes ==
    /\ provider \in Providers /\ amount \in Amounts /\ missing \in Unreadable
    /\ told \in [Refunds -> Nat] /\ recorded \in [Refunds -> Nat]
    /\ clawed \in [Refunds -> [Grants -> Nat]] /\ used \in [Grants -> Nat]
    /\ granted \in BOOLEAN /\ roles \in BOOLEAN /\ overtaken \in BOOLEAN
    /\ job \in [Workers -> JobType \cup {Idle}]
    /\ fulfilment \in {"points", "roles", "close", "done"}
    /\ faults \in 0..MaxFaults

Returned == SumOf(amount, Issued)

(* What the provider has reported, and what of it is on record.              *)
ProviderSound ==
    /\ Returned <= Original
    /\ \A r \in Issued : told[r] <= Returned
    /\ Issued # {} => \E r \in Issued : told[r] = Returned

RecordsSound ==
    /\ processed \subseteq Issued /\ processed \ missing \subseteq Recorded
    /\ Recorded \subseteq Issued
    /\ \A r \in Recorded : recorded[r] <= Returned /\ (provider = "stripe" => recorded[r] = told[r])

(* The rows never give back more than they hold, and nothing before they     *)
(* exist; a refund without a row has taken nothing.                          *)
LedgerSound ==
    /\ \A g \in Grants : used[g] + Revoked(g) <= Granted[g]
    /\ ~granted => \A g \in Grants : used[g] = 0 /\ Revoked(g) = 0
    /\ \A r \in Refunds \ Recorded, g \in Grants : clawed[r][g] = 0

(* What a worker with the job j has secured.                                 *)
JobSound(j) ==
    j # Idle =>
      /\ j.refund \in Issued /\ j.after <= Original
      /\ j.at = "clawback" =>
           /\ j.refund \notin Recorded
           /\ j.after > 0 /\ j.after <= Returned
           /\ j.after = CumulativeAfter(j.refund)
      /\ j.at \in {"duplicate", "roles", "mark"} => j.refund \in Recorded
      /\ j.at = "roles" => Returned = Original
      /\ j.at = "mark" /\ recorded[j.refund] >= Original /\ ~overtaken => ~roles

JobsSound == \A w \in Workers : JobSound(job[w])

(* Two workers never have the same refund in an open transaction, and on the *)
(* Creem path no two have one at all.                                        *)
Apart ==
    \A v, w \in Workers : v # w =>
      /\ ~(job[v].at = "clawback" /\ job[w].at = "clawback" /\ job[v].refund = job[w].refund)
      /\ provider = "creem" => ~(job[v].at \in InTransaction /\ job[w].at \in InTransaction)

RolesSound == fulfilment \in {"close", "done"} /\ ~roles => Returned = Original

Base == Shapes /\ ProviderSound /\ RecordsSound /\ LedgerSound /\ JobsSound /\ Apart

Inv ==
    /\ Base
    /\ RolesSound
    /\ PartialTakesItsShare
    /\ GateOpensAtFull
    /\ FullRefundSweepsSource
    /\ ProcessedIsSettled

-----------------------------------------------------------------------------
(* Arithmetic of the shares *)

\* A quotient rounded half up exceeds the exact one by at most a half.
LEMMA RoundedHalfUp ==
    ASSUME NEW x \in Nat, NEW o \in Nat \ {0}
    PROVE  LET q == (x + o \div 2) \div o IN
           q \in Nat /\ 2 * (o * q) <= 2 * x + o /\ 2 * x < 2 * (o * q) + o + 1
<1>1. PICK h \in Nat : h = o \div 2
  OBVIOUS
<1>2. 2 * h <= o /\ o <= 2 * h + 1
  BY <1>1
<1>3. PICK y \in Nat : y = x + h
  OBVIOUS
<1>4. PICK q \in Int : q = y \div o
  OBVIOUS
<1>5. y = o * q + (y % o) /\ y % o \in 0..(o - 1)
  BY <1>4
<1>6. PICK p \in Int : p = o * q
  OBVIOUS
<1>7. q >= 0
  BY <1>4, <1>3
<1>8. p <= y /\ y < p + o
  BY <1>5, <1>6
<1>9. 2 * p <= 2 * x + o /\ 2 * x < 2 * p + o + 1
  BY <1>8, <1>3, <1>2
<1> QED BY <1>9, <1>7, <1>6, <1>4, <1>3, <1>1

\* A whole share is taken back whole: the sweep at the gate is not short of a point.
LEMMA WholeShare ==
    ASSUME NEW a \in Nat, NEW o \in Nat \ {0}
    PROVE  (a * o + o \div 2) \div o = a
<1>1. PICK x \in Nat : x = a * o
  OBVIOUS
<1>2. PICK q : q = (x + o \div 2) \div o
  OBVIOUS
<1>3. q \in Nat /\ 2 * (o * q) <= 2 * x + o /\ 2 * x < 2 * (o * q) + o + 1
  BY <1>2, RoundedHalfUp
<1>4. CASE q >= a + 1
  <2>1. o * q >= o * (a + 1)
    BY <1>3, <1>4
  <2>2. x + o \div 2 >= o * q
    BY <1>2, <1>1, <1>3
  <2>3. o * (a + 1) = x + o
    BY <1>1
  <2>4. o \div 2 < o
    OBVIOUS
  <2> QED BY <2>1, <2>2, <2>3, <2>4, <1>3
<1>5. CASE q <= a - 1
  <2>1. o * q <= o * (a - 1)
    BY <1>3, <1>5
  <2>2. o * (a - 1) = x - o
    BY <1>1
  <2> QED BY <2>1, <2>2, <1>3
<1> QED BY <1>4, <1>5, <1>3, <1>2, <1>1

-----------------------------------------------------------------------------
(* The operators of the model *)

\* The amounts of the refunds, and what they come to, are numbers.
LEMMA Returns ==
    ASSUME Shapes
    PROVE  /\ Original \in Nat \ {0}
           /\ \A r \in Refunds : amount[r] \in 1..Original
           /\ IsFiniteSet(Issued) /\ IsFiniteSet(Recorded)
           /\ Returned \in Nat /\ SumOf(amount, Recorded) \in Nat
<1>1. Original \in Nat \ {0} /\ amount \in [Refunds -> 1..Original]
  BY OriginalAssumption, AmountsAssumption DEF Shapes
<1>2. IsFiniteSet(Issued) /\ IsFiniteSet(Recorded)
  BY AmountsAssumption, FS_Subset DEF Issued, Recorded
<1>3. Issued \subseteq Refunds /\ Recorded \subseteq Refunds
  BY DEF Issued, Recorded
<1>4. \A r \in Refunds : amount[r] \in Nat
  BY <1>1
<1> QED BY <1>1, <1>2, <1>3, <1>4, SumNat DEF Returned

\* What the refunds have taken from a row is a number no smaller than each of them.
LEMMA RowTaken ==
    ASSUME Shapes, NEW g \in Grants
    PROVE  Revoked(g) \in Nat /\ \A r \in Refunds : clawed[r][g] <= Revoked(g)
<1> DEFINE f == [r \in Refunds |-> clawed[r][g]]
<1>1. \A r \in Refunds : f[r] \in Nat /\ f[r] = clawed[r][g]
  BY DEF Shapes
<1>2. SumOf(f, Refunds) \in Nat /\ \A r \in Refunds : f[r] <= SumOf(f, Refunds)
  <2> HIDE DEF f
  <2> QED BY <1>1, AmountsAssumption, SumNat
<1> QED BY <1>1, <1>2 DEF Revoked

\* What a row holds.
LEMMA RowHolds ==
    ASSUME Shapes, LedgerSound, NEW g \in Grants
    PROVE  /\ Remaining(g) \in 0..Granted[g] /\ Granted[g] \in Nat \ {0}
           /\ granted => Remaining(g) = Granted[g] - used[g] - Revoked(g)
           /\ ~granted => Remaining(g) = 0
<1>1. Granted[g] \in Nat \ {0} /\ used[g] \in Nat /\ Revoked(g) \in Nat
  BY GrantedAssumption, RowTaken DEF Shapes
<1> QED BY <1>1 DEF LedgerSound, Remaining, Shapes

\* A share never exceeds what the row holds; the share of a part does not exceed
\* the part's by more than half a point, that of the whole payment is everything.
LEMMA Shares ==
    ASSUME Shapes, LedgerSound, NEW g \in Grants, NEW n \in 1..Original
    PROVE  /\ Proportional(g, n) \in 0..Remaining(g)
           /\ 2 * Original * Proportional(g, n) <= 2 * Granted[g] * n + Original
           /\ n = Original => Proportional(g, n) = Remaining(g)
<1>1. Remaining(g) \in 0..Granted[g] /\ Granted[g] \in Nat \ {0} /\ Original \in Nat \ {0}
  BY RowHolds, OriginalAssumption
<1>2. PICK x \in Nat : x = Granted[g] * n
  BY <1>1
<1>3. PICK q : q = (x + Original \div 2) \div Original
  OBVIOUS
<1>4. q \in Nat /\ 2 * (Original * q) <= 2 * x + Original
  BY <1>1, <1>2, <1>3, RoundedHalfUp
<1>5. Proportional(g, n) = IF q <= Remaining(g) THEN q ELSE Remaining(g)
  BY <1>1, <1>2, <1>3, <1>4, MinOfTwo DEF Proportional
<1>6. PICK p \in Nat : p = Proportional(g, n)
  BY <1>1, <1>4, <1>5
<1>7. p <= q /\ p <= Remaining(g)
  BY <1>1, <1>4, <1>5, <1>6
<1>8. 2 * Original * p <= 2 * Granted[g] * n + Original
  <2>1. Original * p <= Original * q
    BY <1>1, <1>4, <1>7
  <2>2. 2 * Original * p = 2 * (Original * p) /\ 2 * Granted[g] * n = 2 * x
    BY <1>1, <1>2
  <2>3. Original * p \in Nat /\ Original * q \in Nat
    BY <1>1, <1>4
  <2> QED BY <2>1, <2>2, <2>3, <1>1, <1>2, <1>4
<1>9. n = Original => p = Remaining(g)
  <2> HAVE n = Original
  <2>1. q = Granted[g]
    BY <1>1, <1>2, <1>3, WholeShare
  <2> QED BY <2>1, <1>1, <1>5, <1>6
<1> QED BY <1>1, <1>6, <1>7, <1>8, <1>9

\* An idle worker is at no step.
LEMMA IdleAt ==
    /\ Idle.at = "idle"
    /\ \A s \in Steps \cup InTransaction : s # "idle"
    /\ \A j \in JobType : j # Idle
BY DEF Idle, Steps, InTransaction, JobType

\* A fresh job.
LEMMA FreshJob ==
    ASSUME NEW s \in Steps, NEW r \in Refunds, NEW n \in Nat
    PROVE  /\ Job(s, r, n) \in JobType
           /\ Job(s, r, n).at = s /\ Job(s, r, n).refund = r /\ Job(s, r, n).after = n
BY DEF JobType, Job

\* A worker is idle or at a step with a refund in hand.
LEMMA JobCases ==
    ASSUME Shapes, NEW w \in Workers
    PROVE  /\ job[w] = Idle \/ job[w] \in JobType
           /\ job[w] # Idle => job[w] \in JobType
           /\ job[w].at \in Steps \cup {"idle"}
           /\ job[w].at # "idle" => job[w] # Idle
BY IdleAt DEF Shapes, JobType

\* The gate leads to the roles, everything else to the mark.
LEMMA Gates ==
    ASSUME NEW r \in Refunds, NEW n \in Nat
    PROVE  /\ AfterGate(r, n) \in JobType
           /\ AfterGate(r, n).at = (IF n >= Original THEN "roles" ELSE "mark")
           /\ AfterGate(r, n).refund = r /\ AfterGate(r, n).after = 0
<1>1. \A s \in {"roles", "mark"} :
        /\ Job(s, r, 0) \in JobType
        /\ Job(s, r, 0).at = s /\ Job(s, r, 0).refund = r /\ Job(s, r, 0).after = 0
  BY FreshJob DEF Steps
<1>2. CASE n >= Original BY <1>1, <1>2 DEF AfterGate
<1>3. CASE ~(n >= Original) BY <1>1, <1>3 DEF AfterGate
<1> QED BY <1>2, <1>3

-----------------------------------------------------------------------------
(* Steps that only move a worker on *)

Elsewhere == <<provider, amount, missing, told, recorded, clawed, used, granted, roles,
               processed, fulfilment, overtaken>>

\* What k may be, for worker w to take it as its job.
MayTake(w, k) ==
    /\ k \in JobType \cup {Idle} /\ JobSound(k)
    /\ k.at = "clawback" => \A v \in Workers \ {w} :
         ~(job[v].at = "clawback" /\ job[v].refund = k.refund)
    /\ provider = "creem" /\ k.at \in InTransaction =>
         \A v \in Workers \ {w} : job[v].at \notin InTransaction

\* A worker that moves on to a job it may take disturbs nothing else.
LEMMA JobMoves ==
    ASSUME Inv, NEW w \in Workers, NEW k, MayTake(w, k),
           job' = [job EXCEPT ![w] = k], UNCHANGED Elsewhere, faults' \in 0..MaxFaults
    PROVE  Inv'
<1> USE DEF Inv, Base
<1>1. job' \in [Workers -> JobType \cup {Idle}] /\ job'[w] = k
      /\ \A v \in Workers \ {w} : job'[v] = job[v]
  BY DEF MayTake, Shapes
<1>2. Issued' = Issued /\ Recorded' = Recorded /\ Returned' = Returned
      /\ \A g \in Grants : Revoked(g)' = Revoked(g) /\ Remaining(g)' = Remaining(g)
  BY DEF Elsewhere, Issued, Recorded, Returned, Revoked, Remaining
<1>3. Shapes'
  BY <1>1 DEF Shapes, Elsewhere
<1>4. ProviderSound' /\ RecordsSound' /\ LedgerSound'
  BY <1>2 DEF ProviderSound, RecordsSound, LedgerSound, Elsewhere
<1>5. JobsSound'
  <2> SUFFICES ASSUME NEW v \in Workers PROVE JobSound(job[v])'
    BY DEF JobsSound
  <2>1. PICK j : j = job'[v] /\ JobSound(j)
    BY <1>1 DEF MayTake, JobsSound
  <2> QED BY <2>1, <1>2 DEF JobSound, CumulativeAfter, Elsewhere
<1>6. Apart'
  BY <1>1 DEF Apart, MayTake, Elsewhere
<1>7. RolesSound' /\ PartialTakesItsShare' /\ GateOpensAtFull' /\ FullRefundSweepsSource'
      /\ ProcessedIsSettled'
  BY <1>2 DEF RolesSound, PartialTakesItsShare, GateOpensAtFull, FullRefundSweepsSource,
              ProcessedIsSettled, Elsewhere
<1> QED BY <1>3, <1>4, <1>5, <1>6, <1>7

\* A worker may always give up, or begin with an event that was issued.
LEMMA MayBegin ==
    ASSUME Inv, NEW w \in Workers
    PROVE  /\ MayTake(w, Idle)
           /\ \A r \in Issued : MayTake(w, Job("begin", r, 0))
<1>1. MayTake(w, Idle)
  BY IdleAt DEF MayTake, JobSound, InTransaction
<1>2. ASSUME NEW r \in Issued PROVE MayTake(w, Job("begin", r, 0))
  <2>1. PICK k : k = Job("begin", r, 0)
    OBVIOUS
  <2>2. k \in JobType /\ k.at = "begin" /\ k.refund = r /\ k.after = 0
    BY <2>1, FreshJob DEF Issued, Steps
  <2>3. MayTake(w, k)
    BY <2>2, OriginalAssumption DEF MayTake, JobSound, InTransaction
  <2> QED BY <2>1, <2>3
<1> QED BY <1>1, <1>2

\* The event is handed to a worker, by the provider or by the retry sweep.
LEMMA DeliverKeeps ==
    ASSUME Inv, NEW w \in Workers, NEW r \in Refunds, Deliver(w, r) \/ Repush(w, r)
    PROVE  Inv'
<1>1. r \in Issued
  BY DEF Deliver, Repush, Inv, Base, RecordsSound
<1>2. faults \in 0..MaxFaults /\ MaxFaults \in Nat
  BY RefundBoundsAssumption DEF Inv, Base, Shapes
<1>3. faults' \in 0..MaxFaults /\ UNCHANGED Elsewhere
      /\ job' = [job EXCEPT ![w] = Job("begin", r, 0)]
  BY <1>2 DEF Deliver, Repush, Elsewhere
<1> QED BY <1>1, <1>3, MayBegin, JobMoves

LEMMA SerialiseKeeps ==
    ASSUME Inv, NEW w \in Workers, Serialise(w)
    PROVE  Inv'
<1>1. job[w] \in JobType /\ JobSound(job[w]) /\ job[w].at = "begin"
  BY JobCases DEF Serialise, Inv, Base, JobsSound
<1>2. PICK k : k = [job[w] EXCEPT !.at = "record"]
  OBVIOUS
<1>3. k \in JobType /\ k.at = "record" /\ k.refund = job[w].refund /\ k.after = job[w].after
  BY <1>1, <1>2 DEF JobType, Steps, InTransaction
<1>4. JobSound(k)
  BY <1>1, <1>3, IdleAt DEF JobSound
<1>5. MayTake(w, k)
  BY <1>3, <1>4 DEF MayTake, Serialise
<1>6. job' = [job EXCEPT ![w] = k] /\ UNCHANGED Elsewhere /\ faults' \in 0..MaxFaults
  BY <1>2 DEF Serialise, Elsewhere, Inv, Base, Shapes
<1> QED BY <1>5, <1>6, JobMoves

\* The cumulative figure a handler computes is within what the provider returned,
\* although the sum of the Creem path counts the recorded refunds only.
LEMMA CumulativeWithin ==
    ASSUME Base, NEW r \in Issued \ Recorded
    PROVE  CumulativeAfter(r) \in 1..Returned /\ Returned \in 0..Original
<1> USE DEF Base
<1>1. /\ Original \in Nat \ {0} /\ r \in Refunds /\ amount[r] \in 1..Original
      /\ IsFiniteSet(Issued) /\ IsFiniteSet(Recorded)
      /\ Returned \in Nat /\ SumOf(amount, Recorded) \in Nat /\ Returned <= Original
  BY Returns DEF Issued, ProviderSound
<1>2. CASE provider = "stripe"
  BY <1>1, <1>2 DEF CumulativeAfter, ProviderSound, Issued, Shapes
<1>3. CASE provider # "stripe"
  <2>1. \A x \in Refunds : amount[x] \in Nat
    BY Returns
  <2>2. Recorded \cup {r} \subseteq Issued /\ Issued \subseteq Refunds
    BY DEF RecordsSound, Issued
  <2>3. SumOf(amount, Recorded \cup {r}) = SumOf(amount, Recorded) + amount[r]
    BY <1>1, <2>1, <2>2, SumAdjoin
  <2>4. SumOf(amount, Recorded \cup {r}) <= Returned
    BY <1>1, <2>1, <2>2, SumSubset DEF Returned
  <2> QED BY <1>1, <1>3, <2>3, <2>4 DEF CumulativeAfter
<1> QED BY <1>1, <1>2, <1>3

LEMMA RecordRefundKeeps ==
    ASSUME Inv, NEW w \in Workers, RecordRefund(w)
    PROVE  Inv'
<1> USE DEF Inv, Base
<1>1. job[w] \in JobType /\ JobSound(job[w]) /\ job[w].at = "record" /\ job[w] # Idle
  BY JobCases, IdleAt DEF RecordRefund, JobsSound
<1>2. PICK r : r = job[w].refund
  OBVIOUS
<1>3. r \in Refunds /\ r \in Issued
  BY <1>1, <1>2 DEF JobSound, JobType
<1>4. UNCHANGED Elsewhere /\ faults' \in 0..MaxFaults
  BY DEF RecordRefund, Elsewhere, Shapes
<1>5. provider = "creem" => \A v \in Workers \ {w} : job[v].at \notin InTransaction
  BY <1>1 DEF Apart, InTransaction
<1>6. CASE r \in Recorded
  <2>1. PICK k : k = Job("duplicate", r, 0)
    OBVIOUS
  <2>2. k \in JobType /\ k.at = "duplicate" /\ k.refund = r /\ k.after = 0
    BY <1>3, <2>1, FreshJob DEF Steps, InTransaction
  <2>3. JobSound(k)
    BY <1>3, <1>6, <2>2, OriginalAssumption DEF JobSound
  <2>4. MayTake(w, k)
    BY <1>5, <2>2, <2>3 DEF MayTake
  <2>5. job' = [job EXCEPT ![w] = k]
    BY <1>2, <1>6, <2>1 DEF RecordRefund
  <2> QED BY <1>4, <2>4, <2>5, JobMoves
<1>7. CASE r \notin Recorded
  <2>1. PICK k : k = Job("clawback", r, CumulativeAfter(r))
    OBVIOUS
  <2>2. CumulativeAfter(r) \in 1..Returned /\ Returned \in 0..Original
    BY <1>3, <1>7, CumulativeWithin
  <2>3. k \in JobType /\ k.at = "clawback" /\ k.refund = r /\ k.after = CumulativeAfter(r)
    BY <1>3, <2>1, <2>2, FreshJob, OriginalAssumption DEF Steps, InTransaction
  <2>4. JobSound(k)
    BY <1>3, <1>7, <2>2, <2>3, OriginalAssumption DEF JobSound
  <2>5. MayTake(w, k)
    BY <1>2, <1>5, <2>3, <2>4 DEF MayTake, RecordRefund
  <2>6. job' = [job EXCEPT ![w] = k]
    BY <1>2, <1>7, <2>1 DEF RecordRefund
  <2> QED BY <1>4, <2>5, <2>6, JobMoves
<1> QED BY <1>6, <1>7

LEMMA DuplicateKeeps ==
    ASSUME Inv, NEW w \in Workers, Duplicate(w)
    PROVE  Inv'
<1> USE DEF Inv, Base
<1>1. job[w] \in JobType /\ JobSound(job[w]) /\ job[w].at = "duplicate" /\ job[w] # Idle
  BY JobCases, IdleAt DEF Duplicate, JobsSound
<1>2. PICK r : r = job[w].refund
  OBVIOUS
<1>3. r \in Refunds /\ r \in Recorded /\ r \in Issued
  BY <1>1, <1>2 DEF JobSound, JobType
<1>4. recorded[r] \in Nat /\ recorded[r] <= Returned /\ Returned <= Original
      /\ Returned \in Nat /\ Original \in Nat
  BY <1>3, Returns DEF Shapes, RecordsSound, ProviderSound
<1>5. PICK k : k = AfterGate(r, recorded[r])
  OBVIOUS
<1>6. /\ k \in JobType /\ k.refund = r /\ k.after = 0
      /\ k.at = (IF recorded[r] >= Original THEN "roles" ELSE "mark")
  BY <1>3, <1>4, <1>5, Gates
<1>7. JobSound(k)
  BY <1>3, <1>4, <1>6 DEF JobSound
<1>8. MayTake(w, k)
  BY <1>6, <1>7 DEF MayTake, InTransaction
<1>9. job' = [job EXCEPT ![w] = k] /\ UNCHANGED Elsewhere /\ faults' \in 0..MaxFaults
  BY <1>2, <1>5 DEF Duplicate, Elsewhere, Shapes
<1> QED BY <1>8, <1>9, JobMoves

LEMMA HandlerFailsKeeps ==
    ASSUME Inv, NEW w \in Workers, HandlerFails(w) \/ HandlerReruns(w)
    PROVE  Inv'
<1>1. job[w] \in JobType /\ job[w].refund \in Issued
  BY JobCases DEF HandlerFails, HandlerReruns, JobsSound, JobSound, Inv, Base
<1>2. faults \in 0..MaxFaults /\ MaxFaults \in Nat
  BY RefundBoundsAssumption DEF Inv, Base, Shapes
<1>3. faults' \in 0..MaxFaults /\ UNCHANGED Elsewhere
  BY <1>2 DEF HandlerFails, HandlerReruns, Elsewhere
<1>4. CASE job' = [job EXCEPT ![w] = Idle]
  BY <1>3, <1>4, MayBegin, JobMoves
<1>5. CASE job' = [job EXCEPT ![w] = Job("begin", job[w].refund, 0)]
  BY <1>1, <1>3, <1>5, MayBegin, JobMoves
<1> QED BY <1>4, <1>5 DEF HandlerFails, HandlerReruns

-----------------------------------------------------------------------------
(* The clawback *)

\* What a clawback finds: it holds a refund nobody has recorded.
LEMMA ClawbackHolds ==
    ASSUME Inv, NEW w \in Workers, Clawback(w)
    PROVE  LET r == job[w].refund
               n == job[w].after
           IN /\ job[w] \in JobType /\ job[w] # Idle /\ JobSound(job[w])
              /\ r \in Refunds /\ r \in Issued /\ r \notin Recorded /\ recorded[r] = 0
              /\ n \in 1..Returned /\ Returned \in 0..Original /\ n = CumulativeAfter(r)
              /\ EffectiveAmount(r, n) \in 1..Original
              /\ n < Original => EffectiveAmount(r, n) = amount[r]
              /\ n = Original => EffectiveAmount(r, n) = Original
<1> USE DEF Inv, Base
<1>1. job[w] \in JobType /\ JobSound(job[w]) /\ job[w].at = "clawback" /\ job[w] # Idle
  BY JobCases, IdleAt DEF Clawback, JobsSound
<1>2. PICK r : r = job[w].refund
  OBVIOUS
<1>3. PICK n : n = job[w].after
  OBVIOUS
<1>4. r \in Refunds /\ r \in Issued /\ r \notin Recorded /\ n = CumulativeAfter(r)
  BY <1>1, <1>2, <1>3 DEF JobSound, JobType
<1>5. n \in 1..Returned /\ Returned \in 0..Original
  BY <1>4, CumulativeWithin
<1>6. recorded[r] = 0
  BY <1>4 DEF Recorded, Shapes
<1>7. Original \in Nat \ {0} /\ amount[r] \in 1..Original
  BY <1>4, Returns
<1>8. /\ EffectiveAmount(r, n) \in 1..Original
      /\ n < Original => EffectiveAmount(r, n) = amount[r]
      /\ n = Original => EffectiveAmount(r, n) = Original
  BY <1>5, <1>7 DEF EffectiveAmount
<1> QED BY <1>1, <1>2, <1>3, <1>4, <1>5, <1>6, <1>8

\* Its transaction: the refund gets its row, and every grant loses its share.
LEMMA ClawbackWrites ==
    ASSUME Inv, NEW w \in Workers, Clawback(w)
    PROVE  LET r == job[w].refund
               n == job[w].after
               p(g) == Proportional(g, EffectiveAmount(r, n))
           IN /\ Shapes'
              /\ Recorded' = Recorded \cup {r} /\ recorded'[r] = n
              /\ \A x \in Refunds \ {r} : recorded'[x] = recorded[x] /\ clawed'[x] = clawed[x]
              /\ SumOf(amount, Recorded)' = SumOf(amount, Recorded) + amount[r]
              /\ \A g \in Grants :
                   /\ clawed'[r][g] = p(g) /\ Revoked(g)' = Revoked(g) + p(g)
                   /\ Remaining(g)' = Remaining(g) - p(g)
<1> USE DEF Inv, Base
<1>1. PICK r : r = job[w].refund
  OBVIOUS
<1>2. PICK n : n = job[w].after
  OBVIOUS
<1>3. PICK e : e = EffectiveAmount(r, n)
  OBVIOUS
<1>4. /\ r \in Refunds /\ r \in Issued /\ r \notin Recorded /\ recorded[r] = 0
      /\ n \in 1..Returned /\ Returned \in 0..Original /\ e \in 1..Original
  BY <1>1, <1>2, <1>3, ClawbackHolds
<1>5. Original \in Nat \ {0} /\ n \in Nat \ {0}
  BY <1>4, OriginalAssumption
<1>6. \A g \in Grants : Proportional(g, e) \in 0..Remaining(g) /\ Remaining(g) \in 0..Granted[g]
                        /\ Granted[g] \in Nat
  BY <1>4, Shares, RowHolds
<1>7. \A g \in Grants : clawed[r][g] = 0
  BY <1>4 DEF LedgerSound
<1>8. /\ recorded' = [recorded EXCEPT ![r] = n]
      /\ clawed' = [clawed EXCEPT ![r] = [g \in Grants |-> @[g] + Proportional(g, e)]]
      /\ job' = [job EXCEPT ![w] = AfterGate(r, n)]
      /\ UNCHANGED <<provider, amount, missing, told, used, granted, roles, processed,
                     fulfilment, faults, overtaken>>
  BY <1>1, <1>2, <1>3 DEF Clawback
<1>9. /\ \A g \in Grants : clawed'[r][g] = Proportional(g, e) /\ Proportional(g, e) \in Nat
      /\ \A x \in Refunds \ {r} : clawed'[x] = clawed[x]
      /\ clawed' \in [Refunds -> [Grants -> Nat]]
  <2>1. \A g \in Grants : Proportional(g, e) \in Nat
    BY <1>6
  <2>2. PICK c : c = [g \in Grants |-> clawed[r][g] + Proportional(g, e)]
    OBVIOUS
  <2>3. c \in [Grants -> Nat] /\ \A g \in Grants : c[g] = Proportional(g, e)
    BY <1>7, <2>1, <2>2
  <2>4. clawed' = [clawed EXCEPT ![r] = c]
    BY <1>8, <1>4, <2>2 DEF Shapes
  <2> HIDE DEF Inv, Base
  <2> QED BY <1>4, <2>1, <2>3, <2>4 DEF Inv, Base, Shapes
<1>10. recorded' \in [Refunds -> Nat] /\ recorded'[r] = n
       /\ \A x \in Refunds \ {r} : recorded'[x] = recorded[x]
  BY <1>4, <1>5, <1>8 DEF Shapes
<1>11. Shapes'
  <2>1. AfterGate(r, n) \in JobType
    BY <1>4, <1>5, Gates
  <2>2. job' \in [Workers -> JobType \cup {Idle}]
    BY <1>8, <2>1 DEF Shapes
  <2> QED BY <1>8, <1>9, <1>10, <2>2 DEF Shapes
<1>12. Recorded' = Recorded \cup {r}
  BY <1>4, <1>5, <1>10 DEF Recorded
<1>13. SumOf(amount, Recorded)' = SumOf(amount, Recorded) + amount[r]
  <2>1. SumOf(amount, Recorded)' = SumOf(amount, Recorded \cup {r})
    BY <1>8, <1>12
  <2>2. IsFiniteSet(Recorded) /\ \A x \in Recorded \cup {r} : amount[x] \in Int
    BY <1>4, Returns DEF Recorded
  <2> QED BY <1>4, <2>1, <2>2, SumAdjoin
<1>14. ASSUME NEW g \in Grants
       PROVE  Revoked(g)' = Revoked(g) + Proportional(g, e)
  <2> DEFINE f == [x \in Refunds |-> clawed[x][g]]
             h == [x \in Refunds |-> clawed'[x][g]]
  <2>1. /\ \A x \in Refunds : f[x] \in Int
        /\ h[r] = Proportional(g, e) /\ h[r] \in Int /\ f[r] = 0
        /\ \A x \in Refunds \ {r} : h[x] = f[x]
    BY <1>4, <1>7, <1>9 DEF Shapes
  <2>2. Revoked(g) = SumOf(f, Refunds) /\ Revoked(g)' = SumOf(h, Refunds)
    BY DEF Revoked
  <2> HIDE DEF f, h
  <2>3. SumOf(h, Refunds) = SumOf(f, Refunds) - f[r] + h[r]
    BY <1>4, <2>1, AmountsAssumption, SumUpdate
  <2>4. Revoked(g) \in Nat
    BY RowTaken
  <2> QED BY <2>1, <2>2, <2>3, <2>4
<1>15. ASSUME NEW g \in Grants
       PROVE  Remaining(g)' = Remaining(g) - Proportional(g, e)
  <2>1. CASE granted
    <3>1. Granted[g] \in Nat /\ used[g] \in Nat /\ Revoked(g) \in Nat /\ Proportional(g, e) \in Nat
      BY <1>6, <1>9, RowTaken DEF Shapes
    <3> QED BY <1>8, <1>14, <2>1, <3>1 DEF Remaining
  <2>2. CASE ~granted
    <3>1. Remaining(g) = 0 /\ Proportional(g, e) \in 0..Remaining(g)
      BY <1>6, <2>2 DEF Remaining
    <3> QED BY <1>8, <2>2, <3>1 DEF Remaining
  <2> QED BY <2>1, <2>2
<1> HIDE DEF Inv, Base
<1> QED BY <1>1, <1>2, <1>3, <1>9, <1>10, <1>11, <1>12, <1>13, <1>14, <1>15

LEMMA ClawbackKeeps ==
    ASSUME Inv, NEW w \in Workers, Clawback(w)
    PROVE  Inv'
<1>1. PICK r : r = job[w].refund
  OBVIOUS
<1>2. PICK n : n = job[w].after
  OBVIOUS
<1>3. PICK e : e = EffectiveAmount(r, n)
  OBVIOUS
<1>4. /\ job[w] \in JobType /\ job[w] # Idle /\ job[w].at = "clawback"
      /\ r \in Refunds /\ r \in Issued /\ r \notin Recorded
      /\ n \in 1..Returned /\ Returned \in 0..Original /\ n = CumulativeAfter(r)
      /\ e \in 1..Original /\ (n < Original => e = amount[r]) /\ (n = Original => e = Original)
  BY <1>1, <1>2, <1>3, ClawbackHolds DEF Clawback
<1>5. /\ Shapes'
      /\ Recorded' = Recorded \cup {r} /\ recorded'[r] = n
      /\ \A x \in Refunds \ {r} : recorded'[x] = recorded[x] /\ clawed'[x] = clawed[x]
      /\ SumOf(amount, Recorded)' = SumOf(amount, Recorded) + amount[r]
      /\ \A g \in Grants :
           /\ clawed'[r][g] = Proportional(g, e) /\ Revoked(g)' = Revoked(g) + Proportional(g, e)
           /\ Remaining(g)' = Remaining(g) - Proportional(g, e)
  BY <1>1, <1>2, <1>3, ClawbackWrites
<1>6. \A g \in Grants :
        /\ Proportional(g, e) \in 0..Remaining(g) /\ Remaining(g) \in 0..Granted[g]
        /\ Granted[g] \in Nat /\ used[g] \in Nat /\ Revoked(g) \in Nat
        /\ 2 * Original * Proportional(g, e) <= 2 * Granted[g] * e + Original
        /\ e = Original => Proportional(g, e) = Remaining(g)
        /\ granted => Remaining(g) = Granted[g] - used[g] - Revoked(g)
        /\ ~granted => Remaining(g) = 0
  BY <1>4, Shares, RowHolds, RowTaken DEF Inv, Base, Shapes
<1>7. Original \in Nat \ {0} /\ Returned \in Nat /\ n \in Nat \ {0}
      /\ SumOf(amount, Recorded) \in Nat /\ amount[r] \in 1..Original
  BY <1>4, Returns DEF Inv, Base
<1>8. /\ job' = [job EXCEPT ![w] = AfterGate(r, n)]
      /\ UNCHANGED <<provider, amount, missing, told, used, granted, roles, processed,
                     fulfilment, faults, overtaken>>
  BY <1>1, <1>2 DEF Clawback
<1>9. Issued' = Issued /\ Returned' = Returned /\ Recorded \subseteq Issued /\ Issued \subseteq Refunds
  BY <1>8 DEF Issued, Returned, Inv, Base, RecordsSound
<1>10. ProviderSound'
  BY <1>8, <1>9 DEF Inv, Base, ProviderSound
<1>11. RecordsSound'
  <2>1. /\ processed' \subseteq Issued' /\ processed' \ missing' \subseteq Recorded'
        /\ Recorded' \subseteq Issued'
    BY <1>4, <1>5, <1>8, <1>9 DEF Inv, Base, RecordsSound
  <2>2. provider = "stripe" => n = told[r]
    BY <1>4 DEF CumulativeAfter
  <2>3. ASSUME NEW x \in Recorded'
        PROVE  recorded'[x] <= Returned' /\ (provider' = "stripe" => recorded'[x] = told'[x])
    <3>1. CASE x = r
      BY <3>1, <2>2, <1>4, <1>5, <1>8, <1>9
    <3>2. CASE x # r
      BY <3>2, <1>5, <1>8, <1>9 DEF Inv, Base, RecordsSound
    <3> QED BY <3>1, <3>2
  <2> QED BY <2>1, <2>3 DEF RecordsSound
<1>12. LedgerSound'
  <2>1. ASSUME NEW g \in Grants PROVE used'[g] + Revoked(g)' <= Granted[g]
    <3>1. CASE granted
      BY <3>1, <1>5, <1>6, <1>8
    <3>2. CASE ~granted
      <4>1. used[g] = 0 /\ Revoked(g) = 0
        BY <3>2 DEF Inv, Base, LedgerSound
      <4>2. Proportional(g, e) = 0
        BY <3>2, <1>6
      <4> QED BY <4>1, <4>2, <1>5, <1>6, <1>8
    <3> QED BY <3>1, <3>2
  <2>2. ASSUME ~granted', NEW g \in Grants PROVE used'[g] = 0 /\ Revoked(g)' = 0
    BY <2>2, <1>5, <1>6, <1>8 DEF Inv, Base, LedgerSound
  <2>3. ASSUME NEW x \in Refunds \ Recorded', NEW g \in Grants PROVE clawed'[x][g] = 0
    BY <1>5 DEF Inv, Base, LedgerSound
  <2> QED BY <2>1, <2>2, <2>3 DEF LedgerSound
<1>13. PICK k : k = AfterGate(r, n)
  OBVIOUS
<1>14. /\ k \in JobType /\ k.refund = r /\ k.after = 0 /\ k # Idle
       /\ k.at = (IF n >= Original THEN "roles" ELSE "mark")
  BY <1>4, <1>7, <1>13, Gates, IdleAt
<1>15. job'[w] = k /\ \A v \in Workers \ {w} : job'[v] = job[v]
  BY <1>8, <1>13 DEF Inv, Base, Shapes
<1>16. JobsSound'
  <2> SUFFICES ASSUME NEW v \in Workers PROVE JobSound(job[v])'
    BY DEF JobsSound
  <2>1. PICK j : j = job'[v]
    OBVIOUS
  <2>2. CASE v = w
    <3>1. j = k
      BY <2>1, <2>2, <1>15
    <3>2. n >= Original => Returned = Original
      BY <1>4, <1>7
    <3>3. JobSound(j)'
      BY <3>1, <3>2, <1>4, <1>5, <1>7, <1>9, <1>14 DEF JobSound
    <3> QED BY <2>1, <3>3
  <2>3. CASE v # w
    <3>1. j = job[v] /\ JobSound(j) /\ (j = Idle \/ j \in JobType)
      BY <2>1, <2>3, <1>15, JobCases DEF Inv, Base, JobsSound
    <3>2. j # Idle /\ j.at = "clawback" => j.refund # r /\ provider # "creem"
      BY <3>1, <2>3, <1>1, <1>4 DEF Inv, Base, Apart, InTransaction
    <3>3. provider = "stripe" \/ provider = "creem"
      BY ProvidersAssumption DEF Inv, Base, Shapes
    <3>4. CASE j = Idle
      BY <2>1, <3>4 DEF JobSound
    <3>5. CASE j # Idle
      <4>1. j.refund \in Refunds /\ j.refund \in Issued /\ j.after <= Original
        BY <3>1, <3>5 DEF JobSound, JobType
      <4>2. ASSUME j.at = "clawback"
            PROVE  /\ j.refund \notin Recorded' /\ j.after > 0 /\ j.after <= Returned
                   /\ j.after = CumulativeAfter(j.refund)'
        <5>1. provider = "stripe" /\ provider' = "stripe" /\ j.refund # r
          BY <4>2, <3>2, <3>3, <3>5, <1>8
        <5>2. j.after = told[j.refund] /\ j.refund \notin Recorded /\ j.after > 0 /\ j.after <= Returned
          BY <4>2, <5>1, <3>1, <3>5 DEF JobSound, CumulativeAfter
        <5> QED BY <5>1, <5>2, <1>5, <1>8 DEF CumulativeAfter
      <4>3. ASSUME j.at \in {"duplicate", "roles", "mark"}
            PROVE  j.refund \in Recorded /\ j.refund \in Recorded' /\ recorded'[j.refund] = recorded[j.refund]
        <5>1. j.refund \in Recorded /\ j.refund # r
          BY <4>3, <3>1, <3>5, <1>4 DEF JobSound
        <5> QED BY <5>1, <4>1, <1>5
      <4>4. JobSound(j)'
        BY <4>1, <4>2, <4>3, <3>1, <3>5, <1>8, <1>9 DEF JobSound
      <4> QED BY <4>4, <2>1
    <3> QED BY <3>4, <3>5
  <2> QED BY <2>2, <2>3
<1>17. Apart'
  BY <1>8, <1>14, <1>15 DEF Inv, Base, Apart, InTransaction
<1>18. RolesSound'
  BY <1>8, <1>9 DEF Inv, RolesSound
<1>19. PartialTakesItsShare'
  <2> SUFFICES ASSUME NEW x \in Refunds, NEW g \in Grants, recorded'[x] < Original
               PROVE  2 * Original * clawed'[x][g] <= 2 * Granted[g] * amount'[x] + Original
    BY DEF PartialTakesItsShare
  <2>1. CASE x = r
    BY <2>1, <1>4, <1>5, <1>6, <1>8
  <2>2. CASE x # r
    BY <2>2, <1>5, <1>8 DEF Inv, PartialTakesItsShare
  <2> QED BY <2>1, <2>2
<1>20. GateOpensAtFull'
  <2> SUFFICES ASSUME SumOf(amount, Recorded)' = Original
               PROVE  \E x \in Recorded' : recorded'[x] >= Original
    BY DEF GateOpensAtFull
  <2>1. CASE provider = "stripe"
    <3>1. Recorded' \subseteq Issued /\ IsFiniteSet(Issued)
      BY <1>11, <1>9, Returns DEF RecordsSound, Inv, Base
    <3>2. SumOf(amount, Recorded') = Original
      BY <1>8
    <3>3. \A x \in Issued : amount[x] \in Nat \ {0}
      BY <1>9, Returns DEF Inv, Base
    <3>4. SumOf(amount, Recorded') <= Returned
      BY <3>1, <3>3, SumSubset DEF Returned
    <3>5. Returned = Original
      BY <3>2, <3>4, <1>4, <1>7
    <3>6. Recorded' = Issued
      BY <3>1, <3>2, <3>3, <3>5, SumPartWhole DEF Returned
    <3>7. PICK x \in Issued : told[x] = Returned
      BY <1>4 DEF Inv, Base, ProviderSound
    <3>8. recorded'[x] = told[x]
      BY <2>1, <3>6, <1>8, <1>11 DEF RecordsSound
    <3> QED BY <3>5, <3>6, <3>7, <3>8, <1>7
  <2>2. CASE provider # "stripe"
    <3>1. n = Original
      BY <2>2, <1>4, <1>5 DEF CumulativeAfter
    <3> QED BY <3>1, <1>5, <1>7
  <2> QED BY <2>1, <2>2
<1>21. FullRefundSweepsSource'
  <2> SUFFICES ASSUME NEW x \in Recorded', recorded'[x] >= Original, ~overtaken', NEW g \in Grants
               PROVE  Remaining(g)' = 0
    BY DEF FullRefundSweepsSource
  <2>1. CASE x = r
    <3>1. e = Original
      BY <2>1, <1>4, <1>5, <1>7
    <3> QED BY <3>1, <1>5, <1>6
  <2>2. CASE x # r
    <3>1. x \in Recorded /\ recorded[x] >= Original
      BY <2>2, <1>5 DEF Recorded
    <3>2. Remaining(g) = 0
      BY <3>1, <1>8 DEF Inv, FullRefundSweepsSource
    <3> QED BY <3>2, <1>5, <1>6
  <2> QED BY <2>1, <2>2
<1>22. ProcessedIsSettled'
  <2>1. \A x \in processed \ missing : x \in Recorded /\ x # r /\ x \in Refunds
    BY <1>4 DEF Inv, Base, RecordsSound, Recorded
  <2> QED BY <2>1, <1>5, <1>8 DEF Inv, ProcessedIsSettled
<1> QED BY <1>5, <1>10, <1>11, <1>12, <1>16, <1>17, <1>18, <1>19, <1>20, <1>21, <1>22
        DEF Inv, Base

-----------------------------------------------------------------------------
(* The handler's last steps *)

LEMMA RevokeRolesKeeps ==
    ASSUME Inv, NEW w \in Workers, RevokeRoles(w)
    PROVE  Inv'
<1>1. job[w] \in JobType /\ JobSound(job[w]) /\ job[w].at = "roles" /\ job[w] # Idle
  BY JobCases, IdleAt DEF RevokeRoles, Inv, Base, JobsSound
<1>2. Returned = Original
  BY <1>1 DEF JobSound
<1>3. PICK k : k = [job[w] EXCEPT !.at = "mark"]
  OBVIOUS
<1>4. k \in JobType /\ k.at = "mark" /\ k.refund = job[w].refund /\ k.after = job[w].after
  BY <1>1, <1>3 DEF JobType, Steps
<1>5. /\ roles' = FALSE /\ job' = [job EXCEPT ![w] = k]
      /\ UNCHANGED <<provider, amount, missing, told, recorded, clawed, used, granted, processed,
                     fulfilment, faults, overtaken>>
  BY <1>3 DEF RevokeRoles
<1>6. Issued' = Issued /\ Recorded' = Recorded /\ Returned' = Returned
      /\ \A g \in Grants : Revoked(g)' = Revoked(g) /\ Remaining(g)' = Remaining(g)
  BY <1>5 DEF Issued, Recorded, Returned, Revoked, Remaining
<1>7. job' \in [Workers -> JobType \cup {Idle}] /\ job'[w] = k
      /\ \A v \in Workers \ {w} : job'[v] = job[v]
  BY <1>4, <1>5 DEF Inv, Base, Shapes
<1>8. Shapes'
  BY <1>5, <1>7 DEF Inv, Base, Shapes
<1>9. ProviderSound' /\ RecordsSound' /\ LedgerSound'
  BY <1>5, <1>6 DEF Inv, Base, ProviderSound, RecordsSound, LedgerSound
<1>10. JobsSound'
  <2> SUFFICES ASSUME NEW v \in Workers PROVE JobSound(job[v])'
    BY DEF JobsSound
  <2>1. PICK j : j = job'[v]
    OBVIOUS
  <2>2. CASE v = w
    <3>1. j = k /\ k # Idle
      BY <2>1, <2>2, <1>4, <1>7, IdleAt
    <3>2. k.refund \in Issued /\ k.after <= Original /\ k.refund \in Recorded
      BY <1>1, <1>4 DEF JobSound
    <3>3. JobSound(j)'
      BY <3>1, <3>2, <1>4, <1>5, <1>6 DEF JobSound
    <3> QED BY <3>3, <2>1
  <2>3. CASE v # w
    <3>1. JobSound(j)
      BY <2>1, <2>3, <1>7 DEF Inv, Base, JobsSound
    <3> QED BY <2>1, <3>1, <1>5, <1>6 DEF JobSound, CumulativeAfter
  <2> QED BY <2>2, <2>3
<1>11. Apart'
  BY <1>4, <1>5, <1>7 DEF Inv, Base, Apart, InTransaction
<1>12. RolesSound'
  BY <1>2, <1>5, <1>6 DEF RolesSound
<1>13. PartialTakesItsShare' /\ GateOpensAtFull' /\ FullRefundSweepsSource' /\ ProcessedIsSettled'
  BY <1>5, <1>6 DEF Inv, PartialTakesItsShare, GateOpensAtFull, FullRefundSweepsSource, ProcessedIsSettled
<1> QED BY <1>8, <1>9, <1>10, <1>11, <1>12, <1>13 DEF Inv, Base

LEMMA MarkProcessedKeeps ==
    ASSUME Inv, NEW w \in Workers, MarkProcessed(w)
    PROVE  Inv'
<1>1. job[w] \in JobType /\ JobSound(job[w]) /\ job[w].at = "mark" /\ job[w] # Idle
  BY JobCases, IdleAt DEF MarkProcessed, Inv, Base, JobsSound
<1>2. PICK r : r = job[w].refund
  OBVIOUS
<1>3. r \in Recorded /\ (recorded[r] >= Original /\ ~overtaken => ~roles)
  BY <1>1, <1>2 DEF JobSound
<1>4. /\ processed' = processed \cup {r} /\ job' = [job EXCEPT ![w] = Idle]
      /\ UNCHANGED <<provider, amount, missing, told, recorded, clawed, used, granted, roles,
                     fulfilment, faults, overtaken>>
  BY <1>2 DEF MarkProcessed
<1>5. Issued' = Issued /\ Recorded' = Recorded /\ Returned' = Returned
      /\ \A g \in Grants : Revoked(g)' = Revoked(g) /\ Remaining(g)' = Remaining(g)
  BY <1>4 DEF Issued, Recorded, Returned, Revoked, Remaining
<1>6. job' \in [Workers -> JobType \cup {Idle}] /\ job'[w] = Idle
      /\ \A v \in Workers \ {w} : job'[v] = job[v]
  BY <1>4 DEF Inv, Base, Shapes
<1>7. Shapes'
  BY <1>4, <1>6 DEF Inv, Base, Shapes
<1>8. ProviderSound' /\ RecordsSound' /\ LedgerSound'
  BY <1>3, <1>4, <1>5 DEF Inv, Base, ProviderSound, RecordsSound, LedgerSound
<1>9. JobsSound'
  <2> SUFFICES ASSUME NEW v \in Workers PROVE JobSound(job[v])'
    BY DEF JobsSound
  <2>1. PICK j : j = job'[v]
    OBVIOUS
  <2>2. JobSound(j)
    BY <2>1, <1>6 DEF Inv, Base, JobsSound, JobSound
  <2> QED BY <2>1, <2>2, <1>4, <1>5 DEF JobSound, CumulativeAfter
<1>10. Apart'
  BY <1>4, <1>6, IdleAt DEF Inv, Base, Apart, InTransaction
<1>11. RolesSound' /\ PartialTakesItsShare' /\ GateOpensAtFull' /\ FullRefundSweepsSource'
  BY <1>4, <1>5 DEF Inv, RolesSound, PartialTakesItsShare, GateOpensAtFull, FullRefundSweepsSource
<1>12. ProcessedIsSettled'
  BY <1>3, <1>4, <1>5 DEF Inv, ProcessedIsSettled
<1> QED BY <1>7, <1>8, <1>9, <1>10, <1>11, <1>12 DEF Inv, Base

\* An event that does not parse is closed, and nothing else of the purchase moves.
LEMMA TombstoneKeeps ==
    ASSUME Inv, NEW r \in Refunds, Tombstone(r)
    PROVE  Inv'
<1>1. /\ r \in Issued /\ r \in missing /\ processed' = processed \cup {r}
      /\ UNCHANGED <<provider, amount, missing, told, recorded, clawed, used, granted, roles,
                     job, fulfilment, faults, overtaken>>
  BY DEF Tombstone
<1>2. Issued' = Issued /\ Recorded' = Recorded /\ Returned' = Returned
      /\ \A g \in Grants : Revoked(g)' = Revoked(g) /\ Remaining(g)' = Remaining(g)
  BY <1>1 DEF Issued, Recorded, Returned, Revoked, Remaining
<1>3. Shapes' /\ ProviderSound' /\ LedgerSound' /\ Apart'
  BY <1>1, <1>2 DEF Inv, Base, Shapes, ProviderSound, LedgerSound, Apart
<1>4. RecordsSound'
  BY <1>1, <1>2 DEF Inv, Base, RecordsSound
<1>5. JobsSound'
  <2> SUFFICES ASSUME NEW w \in Workers PROVE JobSound(job[w])'
    BY DEF JobsSound
  <2>1. PICK j : j = job'[w] /\ JobSound(j)
    BY <1>1 DEF Inv, Base, JobsSound
  <2> QED BY <2>1, <1>1, <1>2 DEF JobSound, CumulativeAfter
<1>6. RolesSound' /\ PartialTakesItsShare' /\ GateOpensAtFull' /\ FullRefundSweepsSource'
  BY <1>1, <1>2 DEF Inv, RolesSound, PartialTakesItsShare, GateOpensAtFull, FullRefundSweepsSource
<1>7. ProcessedIsSettled'
  BY <1>1, <1>2 DEF Inv, ProcessedIsSettled
<1> QED BY <1>3, <1>4, <1>5, <1>6, <1>7 DEF Inv, Base

-----------------------------------------------------------------------------
(* The fulfilment, the provider and the user *)

\* With nothing issued there is no refund on record and no worker at work.
LEMMA NothingIssued ==
    ASSUME Inv, Issued = {}
    PROVE  Recorded = {} /\ processed = {} /\ \A w \in Workers : job[w] = Idle
BY DEF Inv, Base, RecordsSound, JobsSound, JobSound

\* The fulfilment touches the points once and the roles; what it writes after a
\* refund was issued is remembered.
LEMMA FulfilmentKeeps ==
    ASSUME Inv, FulfilmentStep \/ FulfilmentFails
    PROVE  Inv'
<1>1. UNCHANGED <<provider, amount, missing, told, recorded, clawed, used, processed, job>>
  BY DEF FulfilmentStep, GrantPoints, GrantRoles, CloseFulfilment, FulfilmentFails
<1>2. /\ granted' \in BOOLEAN /\ roles' \in BOOLEAN /\ overtaken' \in BOOLEAN
      /\ overtaken => overtaken'
      /\ granted => granted'
      /\ granted' # granted /\ Issued # {} => overtaken'
      /\ roles' # roles => roles'
      /\ roles' # roles /\ Issued # {} => overtaken'
      /\ fulfilment' \in {"points", "roles", "close", "done"}
      /\ fulfilment' \in {"close", "done"} => roles' \/ (fulfilment \in {"close", "done"} /\ roles' = roles)
  BY DEF FulfilmentStep, GrantPoints, GrantRoles, CloseFulfilment, FulfilmentFails, Inv, Base, Shapes
<1>3. faults' \in 0..MaxFaults
  <2>1. faults \in 0..MaxFaults /\ MaxFaults \in Nat
    BY RefundBoundsAssumption DEF Inv, Base, Shapes
  <2> QED BY <2>1 DEF FulfilmentStep, GrantPoints, GrantRoles, CloseFulfilment, FulfilmentFails
<1>4. Issued' = Issued /\ Recorded' = Recorded /\ Returned' = Returned
      /\ \A g \in Grants : Revoked(g)' = Revoked(g)
  BY <1>1 DEF Issued, Recorded, Returned, Revoked
<1>5. Shapes'
  BY <1>1, <1>2, <1>3 DEF Inv, Base, Shapes
<1>6. ProviderSound' /\ RecordsSound'
  BY <1>1, <1>4 DEF Inv, Base, ProviderSound, RecordsSound
<1>7. LedgerSound'
  BY <1>1, <1>2, <1>4 DEF Inv, Base, LedgerSound
<1>8. JobsSound'
  <2> SUFFICES ASSUME NEW w \in Workers PROVE JobSound(job[w])'
    BY DEF JobsSound
  <2>1. PICK j : j = job'[w] /\ JobSound(j) /\ (j # Idle => Issued # {})
    BY <1>1, NothingIssued DEF Inv, Base, JobsSound
  <2>2. JobSound(j)'
    BY <2>1, <1>1, <1>2, <1>4 DEF JobSound, CumulativeAfter
  <2> QED BY <2>1, <2>2
<1>9. Apart' /\ RolesSound' /\ PartialTakesItsShare' /\ GateOpensAtFull'
  BY <1>1, <1>2, <1>4 DEF Inv, Base, Apart, RolesSound, PartialTakesItsShare, GateOpensAtFull
<1>10. FullRefundSweepsSource'
  <2> SUFFICES ASSUME NEW r \in Recorded, recorded[r] >= Original, ~overtaken', NEW g \in Grants
               PROVE  Remaining(g)' = 0
    BY <1>1, <1>4 DEF FullRefundSweepsSource
  <2>1. Issued # {}
    BY NothingIssued
  <2>2. granted' = granted /\ ~overtaken
    BY <2>1, <1>2
  <2>3. Remaining(g)' = Remaining(g)
    BY <2>2, <1>1, <1>4 DEF Remaining
  <2> QED BY <2>2, <2>3 DEF Inv, FullRefundSweepsSource
<1>11. ProcessedIsSettled'
  <2> SUFFICES ASSUME NEW r \in processed \ missing
               PROVE  r \in Recorded /\ (recorded[r] >= Original /\ ~overtaken' => ~roles')
    BY <1>1, <1>4 DEF ProcessedIsSettled
  <2>1. Issued # {}
    BY NothingIssued
  <2> QED BY <2>1, <1>2 DEF Inv, ProcessedIsSettled
<1> QED BY <1>5, <1>6, <1>7, <1>8, <1>9, <1>10, <1>11 DEF Inv, Base

LEMMA IssueKeeps ==
    ASSUME Inv, NEW r \in Refunds, Issue(r)
    PROVE  Inv'
<1>1. /\ Original \in Nat \ {0} /\ Returned \in Nat /\ Returned <= Original
      /\ IsFiniteSet(Issued) /\ amount[r] \in 1..Original
      /\ \A x \in Refunds : amount[x] \in Nat \ {0}
  BY Returns DEF Inv, Base, ProviderSound
<1>2. PICK t \in Nat : t = Returned + amount[r]
  BY <1>1
<1>3. /\ r \notin Issued /\ t <= Original /\ told' = [told EXCEPT ![r] = t]
      /\ UNCHANGED <<provider, amount, missing, recorded, clawed, used, granted, roles, processed,
                     job, fulfilment, faults, overtaken>>
  BY <1>2 DEF Issue, Returned
<1>4. told' \in [Refunds -> Nat] /\ told'[r] = t /\ t > 0 /\ t >= Returned
      /\ \A x \in Refunds \ {r} : told'[x] = told[x]
  BY <1>1, <1>2, <1>3 DEF Inv, Base, Shapes
<1>5. Issued' = Issued \cup {r}
  BY <1>4 DEF Issued
<1>6. Returned' = t
  <2>1. SumOf(amount, Issued \cup {r}) = SumOf(amount, Issued) + amount[r]
    <3>1. \A x \in Issued \cup {r} : amount[x] \in Int
      BY <1>1 DEF Issued
    <3> QED BY <3>1, <1>1, <1>3, SumAdjoin
  <2> QED BY <2>1, <1>2, <1>3, <1>5 DEF Returned
<1>7. Recorded' = Recorded /\ \A g \in Grants : Revoked(g)' = Revoked(g) /\ Remaining(g)' = Remaining(g)
  BY <1>3 DEF Recorded, Revoked, Remaining
<1>8. Shapes'
  BY <1>3, <1>4 DEF Inv, Base, Shapes
<1>9. ProviderSound'
  <2>1. \A x \in Issued' : told'[x] <= t
    <3> SUFFICES ASSUME NEW x \in Issued' PROVE told'[x] <= t
      OBVIOUS
    <3>1. CASE x = r BY <3>1, <1>4
    <3>2. CASE x # r
      <4>1. x \in Issued /\ x \in Refunds /\ told'[x] = told[x] /\ told[x] \in Nat
        BY <3>2, <1>4, <1>5 DEF Issued, Inv, Base, Shapes
      <4>2. told[x] <= Returned
        BY <4>1 DEF Inv, Base, ProviderSound
      <4> QED BY <4>1, <4>2, <1>1, <1>4
    <3> QED BY <3>1, <3>2
  <2> QED BY <2>1, <1>3, <1>4, <1>5, <1>6 DEF ProviderSound
<1>10. RecordsSound'
  <2>1. /\ processed' \subseteq Issued' /\ processed' \ missing' \subseteq Recorded'
        /\ Recorded' \subseteq Issued' /\ Recorded \subseteq Refunds
    BY <1>3, <1>5, <1>7 DEF Inv, Base, RecordsSound, Recorded
  <2>2. ASSUME NEW x \in Recorded
        PROVE  recorded[x] <= t /\ (provider = "stripe" => recorded[x] = told'[x])
    <3>1. x \in Issued /\ recorded[x] <= Returned /\ (provider = "stripe" => recorded[x] = told[x])
      BY DEF Inv, Base, RecordsSound
    <3>2. recorded[x] \in Nat /\ told'[x] = told[x]
      BY <3>1, <2>1, <1>3, <1>4 DEF Inv, Base, Shapes
    <3> QED BY <3>1, <3>2, <1>1, <1>4
  <2> QED BY <2>1, <2>2, <1>3, <1>6, <1>7 DEF RecordsSound
<1>11. LedgerSound'
  BY <1>3, <1>7 DEF Inv, Base, LedgerSound
<1>12. JobsSound'
  <2> SUFFICES ASSUME NEW w \in Workers PROVE JobSound(job[w])'
    BY DEF JobsSound
  <2>1. PICK j : j = job'[w] /\ JobSound(j) /\ (j = Idle \/ j \in JobType)
    BY <1>3, JobCases DEF Inv, Base, JobsSound
  <2>2. CASE j = Idle BY <2>1, <2>2 DEF JobSound
  <2>3. CASE j # Idle
    <3>1. j.refund \in Issued /\ j.refund \in Issued' /\ told'[j.refund] = told[j.refund] /\ j.after \in Nat
      BY <2>1, <2>3, <1>3, <1>4, <1>5 DEF JobSound, JobType
    <3>2. CumulativeAfter(j.refund)' = CumulativeAfter(j.refund)
      BY <3>1, <1>3, <1>7 DEF CumulativeAfter
    <3>3. Returned = Original => Returned' = Original
      BY <1>1, <1>2, <1>3, <1>6
    <3>4. j.after <= Returned => j.after <= Returned'
      BY <3>1, <1>1, <1>4, <1>6
    <3>5. JobSound(j)'
      BY <2>1, <2>3, <3>1, <3>2, <3>3, <3>4, <1>3, <1>7 DEF JobSound
    <3> QED BY <3>5, <2>1
  <2> QED BY <2>2, <2>3
<1>13. Apart' /\ PartialTakesItsShare' /\ GateOpensAtFull' /\ FullRefundSweepsSource' /\ ProcessedIsSettled'
  BY <1>3, <1>7 DEF Inv, Base, Apart, PartialTakesItsShare, GateOpensAtFull, FullRefundSweepsSource,
                    ProcessedIsSettled
<1>14. RolesSound'
  BY <1>1, <1>2, <1>3, <1>6 DEF Inv, RolesSound
<1> QED BY <1>8, <1>9, <1>10, <1>11, <1>12, <1>13, <1>14 DEF Inv, Base

LEMMA SpendKeeps ==
    ASSUME Inv, NEW g \in Grants, Spend(g)
    PROVE  Inv'
<1>1. /\ used' = [used EXCEPT ![g] = @ + 1] /\ Remaining(g) > 0
      /\ UNCHANGED <<provider, amount, missing, told, recorded, clawed, granted, roles, processed,
                     job, fulfilment, faults, overtaken>>
  BY DEF Spend
<1>2. granted /\ Granted[g] - used[g] - Revoked(g) > 0
  BY <1>1 DEF Remaining
<1>3. used' \in [Grants -> Nat] /\ used'[g] = used[g] + 1
      /\ \A h \in Grants \ {g} : used'[h] = used[h]
  BY <1>1 DEF Inv, Base, Shapes
<1>4. Issued' = Issued /\ Recorded' = Recorded /\ Returned' = Returned
      /\ \A h \in Grants : Revoked(h)' = Revoked(h)
  BY <1>1 DEF Issued, Recorded, Returned, Revoked
<1>5. Shapes'
  BY <1>1, <1>3 DEF Inv, Base, Shapes
<1>6. ProviderSound' /\ RecordsSound'
  BY <1>1, <1>4 DEF Inv, Base, ProviderSound, RecordsSound
<1>7. LedgerSound'
  <2>1. Granted[g] \in Nat /\ used[g] \in Nat /\ Revoked(g) \in Nat
    BY GrantedAssumption, RowTaken DEF Inv, Base, Shapes
  <2>2. used'[g] + Revoked(g) <= Granted[g]
    BY <2>1, <1>2, <1>3
  <2> QED BY <2>2, <1>1, <1>2, <1>3, <1>4 DEF Inv, Base, LedgerSound
<1>8. JobsSound'
  <2> SUFFICES ASSUME NEW w \in Workers PROVE JobSound(job[w])'
    BY DEF JobsSound
  <2>1. PICK j : j = job'[w] /\ JobSound(j)
    BY <1>1 DEF Inv, Base, JobsSound
  <2>2. JobSound(j)'
    BY <2>1, <1>1, <1>4 DEF JobSound, CumulativeAfter
  <2> QED BY <2>1, <2>2
<1>9. Apart' /\ RolesSound' /\ PartialTakesItsShare' /\ GateOpensAtFull' /\ ProcessedIsSettled'
  BY <1>1, <1>4 DEF Inv, Base, Apart, RolesSound, PartialTakesItsShare, GateOpensAtFull, ProcessedIsSettled
<1>10. FullRefundSweepsSource'
  <2>1. ~((\E r \in Recorded : recorded[r] >= Original) /\ ~overtaken)
    BY <1>1 DEF Inv, FullRefundSweepsSource
  <2> QED BY <2>1, <1>1, <1>4 DEF FullRefundSweepsSource
<1> QED BY <1>5, <1>6, <1>7, <1>8, <1>9, <1>10 DEF Inv, Base

-----------------------------------------------------------------------------
(* The theorems *)

LEMMA InvInit == Init => Inv
<1> SUFFICES ASSUME Init PROVE Inv
  OBVIOUS
<1>1. Issued = {} /\ Recorded = {}
  BY DEF Init, Issued, Recorded
<1>2. Returned = 0 /\ SumOf(amount, Recorded) = 0 /\ Original \in Nat \ {0}
  BY <1>1, SumEmpty, OriginalAssumption DEF Returned
<1>3. ASSUME NEW g \in Grants PROVE Revoked(g) = 0
  <2> DEFINE f == [r \in Refunds |-> clawed[r][g]]
  <2>1. \A r \in Refunds : f[r] = 0
    BY DEF Init
  <2> HIDE DEF f
  <2>2. SumOf(f, Refunds) = 0
    BY <2>1, AmountsAssumption, SumZero
  <2> QED BY <2>2 DEF Revoked, f
<1>4. Shapes
  <2>1. faults \in 0..MaxFaults
    BY RefundBoundsAssumption DEF Init
  <2>2. told \in [Refunds -> Nat] /\ recorded \in [Refunds -> Nat] /\ used \in [Grants -> Nat]
        /\ job \in [Workers -> JobType \cup {Idle}]
    BY DEF Init
  <2>3. clawed \in [Refunds -> [Grants -> Nat]]
    <3>1. [g \in Grants |-> 0] \in [Grants -> Nat]
      OBVIOUS
    <3> QED BY <3>1 DEF Init
  <2>4. granted \in BOOLEAN /\ roles \in BOOLEAN /\ overtaken \in BOOLEAN
    BY DEF Init
  <2> QED BY <2>1, <2>2, <2>3, <2>4 DEF Init, Shapes
<1>5. ProviderSound /\ RecordsSound
  BY <1>1, <1>2 DEF Init, ProviderSound, RecordsSound
<1>6. LedgerSound
  BY <1>3, GrantedAssumption DEF Init, LedgerSound
<1>7. JobsSound /\ Apart
  BY IdleAt DEF Init, JobsSound, JobSound, Apart, InTransaction
<1>8. RolesSound /\ FullRefundSweepsSource /\ ProcessedIsSettled
  BY <1>1 DEF Init, RolesSound, FullRefundSweepsSource, ProcessedIsSettled
<1>9. GateOpensAtFull
  BY <1>2 DEF GateOpensAtFull
<1>10. PartialTakesItsShare
  <2> SUFFICES ASSUME NEW r \in Refunds, NEW g \in Grants
               PROVE  2 * Original * clawed[r][g] <= 2 * Granted[g] * amount[r] + Original
    BY DEF PartialTakesItsShare
  <2>1. clawed[r][g] = 0 /\ Granted[g] \in Nat /\ amount[r] \in Nat
    BY GrantedAssumption, <1>4, Returns DEF Init
  <2>2. Granted[g] * amount[r] \in Nat /\ 2 * Granted[g] * amount[r] = 2 * (Granted[g] * amount[r])
    BY <2>1
  <2> QED BY <2>1, <2>2, <1>2
<1> QED BY <1>4, <1>5, <1>6, <1>7, <1>8, <1>9, <1>10 DEF Inv, Base

LEMMA InvStep == Inv /\ [Next]_vars => Inv'
<1> SUFFICES ASSUME Inv, [Next]_vars PROVE Inv'
  OBVIOUS
<1>1. ASSUME NEW w \in Workers, HandlerStep(w) \/ HandlerFails(w) \/ HandlerReruns(w) PROVE Inv'
  BY <1>1, SerialiseKeeps, RecordRefundKeeps, DuplicateKeeps, ClawbackKeeps, RevokeRolesKeeps,
     MarkProcessedKeeps, HandlerFailsKeeps DEF HandlerStep
<1>2. ASSUME NEW w \in Workers, NEW r \in Refunds, Deliver(w, r) \/ Repush(w, r) PROVE Inv'
  BY <1>2, DeliverKeeps
<1>3. CASE FulfilmentStep \/ FulfilmentFails
  BY <1>3, FulfilmentKeeps
<1>4. ASSUME NEW r \in Refunds, Issue(r) \/ Tombstone(r) PROVE Inv'
  BY <1>4, IssueKeeps, TombstoneKeeps
<1>5. ASSUME NEW g \in Grants, Spend(g) PROVE Inv'
  BY <1>5, SpendKeeps
<1>6. CASE UNCHANGED vars
  <2>1. UNCHANGED Elsewhere /\ job' = job /\ faults' = faults
    BY <1>6 DEF vars, Elsewhere
  <2>2. Issued' = Issued /\ Recorded' = Recorded /\ Returned' = Returned
        /\ \A g \in Grants : Revoked(g)' = Revoked(g) /\ Remaining(g)' = Remaining(g)
    BY <2>1 DEF Elsewhere, Issued, Recorded, Returned, Revoked, Remaining
  <2>3. Shapes' /\ ProviderSound' /\ RecordsSound' /\ LedgerSound' /\ Apart'
    BY <2>1, <2>2 DEF Inv, Base, Shapes, ProviderSound, RecordsSound, LedgerSound, Apart, Elsewhere
  <2>4. JobsSound'
    <3> SUFFICES ASSUME NEW w \in Workers PROVE JobSound(job[w])'
      BY DEF JobsSound
    <3>1. PICK j : j = job'[w] /\ JobSound(j)
      BY <2>1 DEF Inv, Base, JobsSound
    <3> QED BY <3>1, <2>1, <2>2 DEF JobSound, CumulativeAfter, Elsewhere
  <2>5. RolesSound' /\ PartialTakesItsShare' /\ GateOpensAtFull' /\ FullRefundSweepsSource'
        /\ ProcessedIsSettled'
    BY <2>1, <2>2 DEF Inv, RolesSound, PartialTakesItsShare, GateOpensAtFull, FullRefundSweepsSource,
                      ProcessedIsSettled, Elsewhere
  <2> QED BY <2>3, <2>4, <2>5 DEF Inv, Base
<1> QED BY <1>1, <1>2, <1>3, <1>4, <1>5, <1>6 DEF Next

\* The inductive invariant of the refund handler: what every worker holds in the
\* middle of revoke_topup_refund_atomic, with no lease on the event.
THEOREM RefundInvariant == Spec => []Inv
BY InvInit, InvStep, PTL DEF Spec

\* Every figure the refund path stores stays in the range of its column, no row
\* gives back more than it holds, and a cumulative figure never exceeds the payment,
\* whether Stripe reports it or revoke_topup_refund_atomic sums it up.
THEOREM RefundTyped == Spec => []TypeOK
<1>1. Inv => TypeOK
  <2> SUFFICES ASSUME Inv PROVE TypeOK
    OBVIOUS
  <2>1. Original \in Nat \ {0} /\ Returned \in Nat /\ Returned <= Original
    BY Returns DEF Inv, Base, ProviderSound
  <2>2. told \in [Refunds -> 0..Original]
    <3> SUFFICES ASSUME NEW r \in Refunds PROVE told[r] \in 0..Original
      BY DEF Inv, Base, Shapes
    <3>1. told[r] \in Nat /\ (told[r] > 0 => told[r] <= Returned)
      BY DEF Inv, Base, Shapes, ProviderSound, Issued
    <3> QED BY <2>1, <3>1
  <2>3. recorded \in [Refunds -> 0..Original]
    <3> SUFFICES ASSUME NEW r \in Refunds PROVE recorded[r] \in 0..Original
      BY DEF Inv, Base, Shapes
    <3>1. recorded[r] \in Nat /\ (recorded[r] > 0 => recorded[r] <= Returned)
      BY DEF Inv, Base, Shapes, RecordsSound, Recorded
    <3> QED BY <2>1, <3>1
  <2>4. ASSUME NEW g \in Grants
        PROVE  /\ used[g] \in 0..Granted[g] /\ Remaining(g) >= 0
               /\ \A r \in Refunds : clawed[r][g] \in 0..Granted[g]
    <3>1. Granted[g] \in Nat /\ used[g] \in Nat /\ Revoked(g) \in Nat /\ used[g] + Revoked(g) <= Granted[g]
      BY GrantedAssumption, RowTaken DEF Inv, Base, Shapes, LedgerSound
    <3>2. \A r \in Refunds : clawed[r][g] \in Nat /\ clawed[r][g] <= Revoked(g)
      BY RowTaken DEF Inv, Base, Shapes
    <3>3. Remaining(g) >= 0
      BY RowHolds DEF Inv, Base
    <3> QED BY <3>1, <3>2, <3>3
  <2>5. processed \subseteq Issued
    BY DEF Inv, Base, RecordsSound
  <2>6. ASSUME NEW w \in Workers
        PROVE  job[w] = Idle \/ job[w] \in [at : Steps, refund : Issued, after : 0..Original]
    <3>1. CASE job[w] # Idle
      <4>1. job[w] \in JobType /\ job[w].refund \in Issued /\ job[w].after <= Original
        BY <3>1, JobCases DEF Inv, Base, JobsSound, JobSound
      <4> QED BY <4>1, <2>1 DEF JobType
    <3> QED BY <3>1
  <2> QED BY <2>2, <2>3, <2>4, <2>5, <2>6 DEF TypeOK, Inv, Base, Shapes
<1> QED BY <1>1, RefundInvariant, PTL

\* A refund that does not complete the payment takes at most its own share of each
\* grant, however often it is pushed, retried or handled at once.
THEOREM PartialShareBounded == Spec => []PartialTakesItsShare
<1>1. Inv => PartialTakesItsShare
  BY DEF Inv
<1> QED BY <1>1, RefundInvariant, PTL

\* When the recorded refunds add up to the payment, one of them opened the gate, with
\* Stripe's cumulative figures as with the sum under Creem's advisory lock.
THEOREM GateOpens == Spec => []GateOpensAtFull
<1>1. Inv => GateOpensAtFull
  BY DEF Inv
<1> QED BY <1>1, RefundInvariant, PTL

\* An open gate leaves no point of the purchase, rounding residue included.
THEOREM FullRefundSweeps == Spec => []FullRefundSweepsSource
<1>1. Inv => FullRefundSweepsSource
  BY DEF Inv
<1> QED BY <1>1, RefundInvariant, PTL

\* Partial refunds, in any number and with any redelivery, keep the roles.
THEOREM PartialKeepsRoles == Spec => []RolesKeptOnPartial
<1>1. Inv => RolesKeptOnPartial
  BY DEF Inv, RolesSound, RolesKeptOnPartial, Returned
<1> QED BY <1>1, RefundInvariant, PTL

\* A refund event that parses is marked processed only with its whole effect done;
\* the others are the ones reprocess_creem_event tombstones.
THEOREM ProcessedSettled == Spec => []ProcessedIsSettled
<1>1. Inv => ProcessedIsSettled
  BY DEF Inv
<1> QED BY <1>1, RefundInvariant, PTL
=============================================================================
