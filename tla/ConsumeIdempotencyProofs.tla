----------------------- MODULE ConsumeIdempotencyProofs -----------------------
(* Proofs, for any number of deliveries, payloads, Redis failures and times   *)
(* to live, of the safety properties of ConsumeIdempotency.  OneExecutor and  *)
(* DeductedOnce hold under two conditions: the answer to a COMMIT is not lost *)
(* (the run that allows it shows a second deduction), and the clock stays     *)
(* within the 24 h life of a record, after which its key is a new one.        *)
EXTENDS ConsumeIdempotency, FiniteSetTheorems, TLAPS

(* The commit is answered.                                                    *)
Acknowledged == ~AckMayBeLost

(* Everything happens within the life of a record.                            *)
WithinTTL == MaxTime < MainTTL

Pcs == Ended \cup {"new", "seed", "probe", "unseed", "compare", "lookup", "lock", "status",
                   "claim", "validate", "consume", "mark", "save", "complete"}
Executing == {"validate", "consume", "mark"}
Saving == {"save", "complete"}
Busy == Executing \cup Saving

ReqType == [pc : Pcs, age : Nat, tries : Nat, got : Requests \cup {"none"}]

Shapes ==
    /\ fp \in [val : {Payload[r] : r \in Requests} \cup {"absent"}, ttl : Nat]
    /\ main \in [val : Requests \cup {"request", "absent"}, ttl : Nat]
    /\ status \in [val : {"processing", "failed", "completed", "absent"}, ttl : Nat]
    /\ req \in [Requests -> ReqType]
    /\ landed \subseteq Requests
    /\ degraded \in BOOLEAN
    /\ clock \in 0..MaxTime

(* A record that exists outlives the horizon of the clock.                    *)
RecordLives == Get(main) # "absent" => main.ttl + clock >= MainTTL

(* What holds as long as no lock creation failed open: one delivery at a time *)
(* is busy; until it has committed nothing is deducted and the marker is not  *)
(* `failed`; a marker that says `failed` means nobody is busy and nothing is  *)
(* deducted.                                                                  *)
Exclusive ==
    /\ \A r, s \in Requests : req[r].pc \in Busy /\ req[s].pc \in Busy => r = s
    /\ \A r \in Requests : req[r].pc \in Executing =>
         landed = {} /\ Get(status) \in {"processing", "absent"}
    /\ \A r \in Requests : req[r].pc \in Saving => landed = {r} /\ Get(status) # "failed"
    /\ Get(status) = "failed" => landed = {} /\ \A r \in Requests : req[r].pc \notin Busy
    /\ Get(main) = "absent" =>
         landed = {} /\ Get(status) # "failed" /\ \A r \in Requests : req[r].pc \notin Busy
    /\ \A r, s \in landed : r = s

Inv == Shapes /\ RecordLives /\ (~degraded => Exclusive)

-----------------------------------------------------------------------------
(* Keys, requests and their types *)

\* A key just written, and an absent one.
LEMMA Keys ==
    /\ \A v, t : Stored(v, t).val = v /\ Stored(v, t).ttl = t
    /\ Nothing.val = "absent" /\ Nothing.ttl = 0
    /\ \A V, v, t : v \in V /\ t \in Nat => Stored(v, t) \in [val : V, ttl : Nat]
    /\ \A V : "absent" \in V => Nothing \in [val : V, ttl : Nat]
    /\ {MainTTL, LockTTL, FpTTL, Lifetime, MaxFaults, MaxTime} \subseteq Nat
BY TTLAssumption DEF Stored, Nothing

\* A key that ages keeps its value until its time is up.
LEMMA Ageing ==
    ASSUME NEW V, "absent" \in V, NEW k \in [val : V, ttl : Nat]
    PROVE  /\ Aged(k) \in [val : V, ttl : Nat]
           /\ Aged(k).val = k.val \/ Aged(k).val = "absent"
           /\ k.ttl > 1 => Aged(k).val = k.val /\ Aged(k).ttl = k.ttl - 1
<1>1. CASE k.ttl > 1
  <2>1. PICK a : a = [k EXCEPT !.ttl = k.ttl - 1]
    OBVIOUS
  <2>2. a \in [val : V, ttl : Nat] /\ a.val = k.val /\ a.ttl = k.ttl - 1
    BY <1>1, <2>1
  <2> QED BY <1>1, <2>1, <2>2 DEF Aged
<1>2. CASE ~(k.ttl > 1)
  BY <1>2, Keys DEF Aged
<1> QED BY <1>1, <1>2

\* Only request r moves, to p.
Moves(r, p) ==
    /\ req' \in [Requests -> ReqType]
    /\ req'[r].pc = p
    /\ \A s \in Requests \ {r} : req'[s] = req[s]

LEMMA GotoMoves ==
    ASSUME Shapes, NEW r \in Requests, NEW p \in Pcs, Goto(r, p)
    PROVE  Moves(r, p)
<1>1. req[r] \in ReqType
  BY DEF Shapes
<1>2. PICK k : k = IF p \in Ended THEN [req[r] EXCEPT !.pc = p, !.age = 0, !.tries = 0]
                                  ELSE [req[r] EXCEPT !.pc = p]
  OBVIOUS
<1>3. k \in ReqType /\ k.pc = p
  BY <1>1, <1>2 DEF ReqType
<1>4. req' = [req EXCEPT ![r] = k]
  BY <1>2 DEF Goto, Shapes
<1> QED BY <1>3, <1>4 DEF Moves, Shapes

\* The pcs that the steps name.
LEMMA PcsNamed ==
    /\ {"new", "seed", "probe", "unseed", "compare", "lookup", "lock", "status", "claim",
        "validate", "consume", "mark", "save", "complete", "ok", "replayed", "conflict",
        "refused", "invalid", "error", "cut"} \subseteq Pcs
    /\ Ended \cap Busy = {}
BY DEF Pcs, Ended, Busy, Executing, Saving

\* What a failed call leads to.
LEMMA FaultsLead ==
    ASSUME NEW p \in DOMAIN AfterFault
    PROVE  /\ AfterFault[p] \in Pcs
           /\ p # "lock" => AfterFault[p] \notin Busy
           /\ p \notin {"validate", "consume"}
<1>1. DOMAIN AfterFault = {"seed", "probe", "unseed", "compare", "lookup", "lock", "status",
                           "claim", "save", "complete", "mark"}
  BY DEF AfterFault
<1> QED BY <1>1, PcsNamed DEF AfterFault, Busy, Executing, Saving

-----------------------------------------------------------------------------
(* Types *)

\* What a step of one request does to the keys: each stays, is written or deleted.
Writes(r) ==
    /\ fp' \in {fp, Nothing, Stored(Payload[r], FpTTL)}
    /\ main' \in {main, Stored("request", MainTTL), Stored(r, MainTTL)}
    /\ status' \in {status, Stored("processing", LockTTL), Stored("completed", MainTTL),
                    Stored("failed", MainTTL)}
    /\ landed' \in {landed, landed \cup {r}}
    /\ degraded' \in BOOLEAN /\ (degraded => degraded')
    /\ clock' = clock

\* Every step of one request moves it and writes like that.
LEMMA RequestSteps ==
    ASSUME Shapes, NEW r \in Requests, Handle(r) \/ RedisFails(r) \/ CutOff(r)
    PROVE  Writes(r) /\ \E p \in Pcs : Moves(r, p)
<1> USE PcsNamed
<1> degraded \in BOOLEAN
  BY DEF Shapes
<1>1. CASE Arrive(r)
  BY <1>1, GotoMoves DEF Arrive, Writes
<1>2. CASE SeedFingerprint(r)
  <2>1. Goto(r, "probe") \/ Goto(r, "compare")
    BY <1>2 DEF SeedFingerprint
  <2> QED BY <1>2, <2>1, GotoMoves DEF SeedFingerprint, Writes
<1>3. CASE ProbeRecord(r)
  BY <1>3, GotoMoves DEF ProbeRecord, Writes
<1>4. CASE UnseedFingerprint(r)
  BY <1>4, GotoMoves DEF UnseedFingerprint, Writes
<1>5. CASE CompareFingerprint(r)
  <2>1. UNCHANGED <<fp, main, status, landed, degraded, faults, clock>>
    BY <1>5 DEF CompareFingerprint
  <2>2. \/ Goto(r, "lookup") \/ Goto(r, "error") \/ Goto(r, "conflict")
        \/ req' = [req EXCEPT ![r].pc = "seed", ![r].tries = 1]
    BY <1>5 DEF CompareFingerprint
  <2>3. CASE req' = [req EXCEPT ![r].pc = "seed", ![r].tries = 1]
    <3>1. PICK k : k = [[req[r] EXCEPT !.pc = "seed"] EXCEPT !.tries = 1]
      OBVIOUS
    <3>2. req[r] \in ReqType
      BY DEF Shapes
    <3>3. k \in ReqType /\ k.pc = "seed"
      BY <3>1, <3>2 DEF ReqType
    <3>4. req' = [req EXCEPT ![r] = k]
      BY <2>3, <3>1, <3>2 DEF Shapes, ReqType
    <3> QED BY <2>1, <3>3, <3>4 DEF Moves, Shapes, Writes
  <2> QED BY <2>1, <2>2, <2>3, GotoMoves DEF Writes
<1>6. CASE LookUpResult(r)
  <2>1. UNCHANGED <<fp, main, status, landed, degraded, faults, clock>>
    BY <1>6 DEF LookUpResult
  <2>2. CASE Get(main) \in Requests
    <3>1. PICK k : k = [pc |-> "replayed", age |-> 0, tries |-> 0, got |-> Get(main)]
      OBVIOUS
    <3>2. k \in ReqType /\ k.pc = "replayed"
      BY <2>2, <3>1 DEF ReqType
    <3>3. req' = [req EXCEPT ![r] = k]
      BY <1>6, <2>2, <3>1 DEF LookUpResult
    <3> QED BY <2>1, <3>2, <3>3 DEF Moves, Shapes, Writes
  <2>3. CASE Get(main) \notin Requests
    BY <1>6, <2>1, <2>3, GotoMoves DEF LookUpResult, Writes
  <2> QED BY <2>2, <2>3
<1>7. CASE TryCreateLock(r)
  <2>1. Goto(r, "validate") \/ Goto(r, "status")
    BY <1>7 DEF TryCreateLock
  <2> QED BY <1>7, <2>1, GotoMoves DEF TryCreateLock, Writes
<1>8. CASE ReadStatus(r)
  BY <1>8, GotoMoves DEF ReadStatus, Writes
<1>9. CASE ClaimFailedForRetry(r)
  <2>1. Goto(r, "validate") \/ Goto(r, "conflict")
    BY <1>9 DEF ClaimFailedForRetry
  <2> QED BY <1>9, <2>1, GotoMoves DEF ClaimFailedForRetry, Writes
<1>10. CASE Validate(r)
  BY <1>10, GotoMoves DEF Validate, Writes
<1>11. CASE ConsumeCommits(r)
  <2>1. Goto(r, "save") \/ Goto(r, "mark")
    BY <1>11 DEF ConsumeCommits
  <2> QED BY <1>11, <2>1, GotoMoves DEF ConsumeCommits, Writes
<1>12. CASE ConsumeRefused(r)
  BY <1>12, GotoMoves DEF ConsumeRefused, Writes
<1>13. CASE SaveResult(r)
  BY <1>13, GotoMoves DEF SaveResult, Writes
<1>14. CASE SaveCompleted(r)
  BY <1>14, GotoMoves DEF SaveCompleted, Writes
<1>15. CASE MarkFailed(r)
  BY <1>15, GotoMoves DEF MarkFailed, Writes
<1>16. CASE RedisFails(r)
  <2>1. \E p \in Pcs : Moves(r, p)
    <3>1. AfterFault[req[r].pc] \in Pcs /\ Goto(r, AfterFault[req[r].pc])
      BY <1>16, FaultsLead DEF RedisFails
    <3> QED BY <3>1, GotoMoves
  <2>2. /\ degraded' = (degraded \/ At(r, "lock")) /\ landed' = landed /\ clock' = clock
        /\ \E k \in {<<fp, main, status>>, WrittenUnseen(r)} :
             fp' = k[1] /\ main' = k[2] /\ status' = k[3]
    BY <1>16 DEF RedisFails
  <2>3. \A k \in {<<fp, main, status>>, WrittenUnseen(r)} :
          /\ k[1] \in {fp, Nothing, Stored(Payload[r], FpTTL)}
          /\ k[2] \in {main, Stored("request", MainTTL), Stored(r, MainTTL)}
          /\ k[3] \in {status, Stored("processing", LockTTL), Stored("completed", MainTTL),
                       Stored("failed", MainTTL)}
    BY DEF WrittenUnseen
  <2>4. degraded' \in BOOLEAN /\ (degraded => degraded')
    BY <2>2 DEF Shapes
  <2> QED BY <2>1, <2>2, <2>3, <2>4 DEF Writes
<1>17. CASE CutOff(r)
  BY <1>17, GotoMoves DEF CutOff, Writes
<1> QED BY <1>1, <1>2, <1>3, <1>4, <1>5, <1>6, <1>7, <1>8, <1>9, <1>10, <1>11, <1>12, <1>13,
           <1>14, <1>15, <1>16, <1>17 DEF Handle

\* Such writes keep every variable in its domain.
LEMMA WritesTyped ==
    ASSUME Shapes, NEW r \in Requests, Writes(r), req' \in [Requests -> ReqType]
    PROVE  Shapes'
<1>1. fp' \in [val : {Payload[s] : s \in Requests} \cup {"absent"}, ttl : Nat]
  <2>1. Payload[r] \in {Payload[s] : s \in Requests} \cup {"absent"}
    OBVIOUS
  <2>2. PICK V : V = {Payload[s] : s \in Requests} \cup {"absent"}
    OBVIOUS
  <2>3. Payload[r] \in V /\ "absent" \in V /\ fp \in [val : V, ttl : Nat] /\ FpTTL \in Nat
    BY <2>1, <2>2, Keys DEF Shapes
  <2>4. Nothing \in [val : V, ttl : Nat] /\ Stored(Payload[r], FpTTL) \in [val : V, ttl : Nat]
    BY <2>3, Keys
  <2>5. fp' \in [val : V, ttl : Nat]
    BY <2>3, <2>4 DEF Writes
  <2> QED BY <2>2, <2>5
<1>2. main' \in [val : Requests \cup {"request", "absent"}, ttl : Nat]
  <2>1. PICK V : V = Requests \cup {"request", "absent"}
    OBVIOUS
  <2>2. "request" \in V /\ r \in V /\ main \in [val : V, ttl : Nat] /\ MainTTL \in Nat /\ LockTTL \in Nat
    BY <2>1, Keys DEF Shapes
  <2>3. /\ Stored("request", MainTTL) \in [val : V, ttl : Nat]
        /\ Stored(r, MainTTL) \in [val : V, ttl : Nat]
    BY <2>2, Keys
  <2>4. main' \in [val : V, ttl : Nat]
    BY <2>2, <2>3 DEF Writes
  <2> QED BY <2>1, <2>4
<1>3. status' \in [val : {"processing", "failed", "completed", "absent"}, ttl : Nat]
  <2>1. PICK V : V = {"processing", "failed", "completed", "absent"}
    OBVIOUS
  <2>2. "processing" \in V /\ "failed" \in V /\ "completed" \in V /\ status \in [val : V, ttl : Nat] /\ MainTTL \in Nat /\ LockTTL \in Nat
    BY <2>1, Keys DEF Shapes
  <2>3. /\ Stored("processing", LockTTL) \in [val : V, ttl : Nat]
        /\ Stored("completed", MainTTL) \in [val : V, ttl : Nat]
        /\ Stored("failed", MainTTL) \in [val : V, ttl : Nat]
    BY <2>2, Keys
  <2>4. status' \in [val : V, ttl : Nat]
    BY <2>2, <2>3 DEF Writes
  <2> QED BY <2>1, <2>4
<1>4. landed' \subseteq Requests /\ degraded' \in BOOLEAN /\ clock' \in 0..MaxTime
  BY DEF Shapes, Writes
<1> QED BY <1>1, <1>2, <1>3, <1>4 DEF Shapes

LEMMA TickTyped ==
    ASSUME Shapes, Tick
    PROVE  /\ Shapes'
           /\ \A r \in Requests : req'[r].pc = req[r].pc
<1>1. \A r \in Requests : req'[r] \in ReqType /\ req'[r].pc = req[r].pc
  <2> SUFFICES ASSUME NEW r \in Requests PROVE req'[r] \in ReqType /\ req'[r].pc = req[r].pc
    OBVIOUS
  <2>1. req[r] \in ReqType /\ req[r].age \in Nat
    BY DEF Shapes, ReqType
  <2>2. PICK k : k = [req[r] EXCEPT !.age = req[r].age + 1]
    OBVIOUS
  <2>3. k \in ReqType /\ k.pc = req[r].pc
    BY <2>1, <2>2 DEF ReqType
  <2>4. req'[r] = IF Running(r) THEN k ELSE req[r]
    BY <2>2 DEF Tick
  <2> QED BY <2>1, <2>3, <2>4
<1>2. req' \in [Requests -> ReqType]
  BY <1>1 DEF Tick
<1>3. fp' \in [val : {Payload[s] : s \in Requests} \cup {"absent"}, ttl : Nat]
  <2>1. PICK V : V = {Payload[s] : s \in Requests} \cup {"absent"}
    OBVIOUS
  <2>2. "absent" \in V /\ fp \in [val : V, ttl : Nat]
    BY <2>1 DEF Shapes
  <2>3. Aged(fp) \in [val : V, ttl : Nat]
    BY <2>2, Ageing
  <2> QED BY <2>1, <2>3 DEF Tick
<1>4. main' \in [val : Requests \cup {"request", "absent"}, ttl : Nat]
  BY Ageing DEF Shapes, Tick
<1>5. status' \in [val : {"processing", "failed", "completed", "absent"}, ttl : Nat]
  BY Ageing DEF Shapes, Tick
<1>6. landed' \subseteq Requests /\ degraded' \in BOOLEAN /\ clock' \in 0..MaxTime
  <2>1. MaxTime \in Nat
    BY Keys
  <2> QED BY <2>1 DEF Shapes, Tick
<1> QED BY <1>1, <1>2, <1>3, <1>4, <1>5, <1>6 DEF Shapes

-----------------------------------------------------------------------------
(* One delivery at a time *)

\* The record outlives the horizon, whoever writes it.
LEMMA RecordLivesOn ==
    ASSUME Inv, NEW r \in Requests, Writes(r)
    PROVE  RecordLives'
<1>1. clock \in Nat /\ MainTTL \in Nat /\ clock' = clock
  BY Keys DEF Inv, Shapes, Writes
<1>2. CASE main' = main
  BY <1>1, <1>2 DEF Inv, RecordLives
<1>3. CASE main' # main
  <2>1. main'.ttl = MainTTL
    BY <1>3, Keys DEF Writes
  <2> QED BY <1>1, <2>1 DEF RecordLives
<1> QED BY <1>2, <1>3

\* A request that is not busy and does not become busy, and that leaves the record,
\* the marker and the ledger alone, or one that is busy and gives up.
LEMMA StandsAside ==
    ASSUME Shapes, Exclusive, NEW r \in Requests, NEW p, p \notin Busy, Moves(r, p),
           UNCHANGED <<main, status, landed>>
    PROVE  Exclusive'
BY DEF Exclusive, Moves, Busy, Executing, Saving, Get

\* A request takes the record: nobody is busy and nothing is deducted.
LEMMA TakesOver ==
    ASSUME Shapes, Exclusive, NEW r \in Requests, Moves(r, "validate"), landed = {},
           \A s \in Requests : req[s].pc \notin Busy,
           Get(status') = "processing", Get(main') # "absent", landed' = landed
    PROVE  Exclusive'
BY DEF Exclusive, Moves, Busy, Executing, Saving, Get

\* The busy request goes on.
LEMMA GoesOn ==
    ASSUME Shapes, Exclusive, NEW r \in Requests, NEW p \in Executing, req[r].pc \in Executing,
           Moves(r, p), UNCHANGED <<main, status, landed>>
    PROVE  Exclusive'
BY DEF Exclusive, Moves, Busy, Executing, Saving, Get

\* The busy request commits.
LEMMA Commits ==
    ASSUME Shapes, Exclusive, NEW r \in Requests, req[r].pc \in Executing,
           Moves(r, "save"), UNCHANGED <<main, status>>, landed' = landed \cup {r}
    PROVE  Exclusive'
<1>1. landed = {} /\ landed' = {r} /\ Get(status) # "failed" /\ Get(main) # "absent"
  BY DEF Exclusive, Busy
<1>2. \A s \in Requests \ {r} : req[s].pc \notin Busy
  BY DEF Exclusive, Busy
<1> QED BY <1>1, <1>2 DEF Exclusive, Moves, Busy, Executing, Saving, Get

\* The request that committed writes the result or the marker.
LEMMA Saves ==
    ASSUME Shapes, Exclusive, NEW r \in Requests, req[r].pc \in Saving, NEW p, p \notin Executing,
           Moves(r, p), Get(main') # "absent", Get(status') # "failed", landed' = landed
    PROVE  Exclusive'
<1>1. landed = {r} /\ \A s \in Requests \ {r} : req[s].pc \notin Busy
  BY DEF Exclusive, Busy
<1> QED BY <1>1 DEF Exclusive, Moves, Busy, Executing, Saving, Get

\* The busy request was refused and leaves the marker `failed`.
LEMMA LeavesFailed ==
    ASSUME Shapes, Exclusive, NEW r \in Requests, req[r].pc \in Executing, NEW p, p \notin Busy,
           Moves(r, p), main' = main, landed' = landed
    PROVE  Exclusive'
<1>1. landed = {} /\ \A s \in Requests \ {r} : req[s].pc \notin Busy
  BY DEF Exclusive, Busy
<1>2. Get(main) # "absent"
  BY DEF Exclusive, Busy
<1>3. \A s \in Requests : req'[s].pc \notin Busy
  BY <1>1 DEF Moves
<1> QED BY <1>1, <1>2, <1>3 DEF Exclusive, Busy, Get

\* Every step of a request keeps the others out.
LEMMA RequestKeeps ==
    ASSUME Acknowledged, Inv, NEW r \in Requests, Handle(r) \/ RedisFails(r) \/ CutOff(r)
    PROVE  Inv'
<1>1. Writes(r) /\ \E p \in Pcs : Moves(r, p)
  BY RequestSteps DEF Inv
<1>2. Shapes' /\ RecordLives' /\ Shapes
  BY <1>1, WritesTyped, RecordLivesOn DEF Moves, Inv
<1>3. SUFFICES ASSUME ~degraded' PROVE Exclusive'
  BY <1>2 DEF Inv
<1>4. ~degraded /\ Exclusive
  BY <1>1, <1>3 DEF Writes, Inv
<1> USE PcsNamed
<1>5. CASE Arrive(r) \/ SeedFingerprint(r) \/ ProbeRecord(r) \/ UnseedFingerprint(r)
           \/ CompareFingerprint(r) \/ LookUpResult(r) \/ ReadStatus(r) \/ CutOff(r)
  <2>1. UNCHANGED <<main, status, landed>>
    BY <1>5 DEF Arrive, SeedFingerprint, ProbeRecord, UnseedFingerprint, CompareFingerprint,
                LookUpResult, ReadStatus, CutOff
  <2>2. \E p : p \notin Busy /\ Moves(r, p)
    <3>1. ASSUME NEW p \in {"seed", "probe", "compare", "lookup", "unseed", "conflict", "error",
                            "lock", "claim", "cut"}, Goto(r, p)
          PROVE  p \notin Busy /\ Moves(r, p)
      BY <3>1, <1>2, GotoMoves DEF Busy, Executing, Saving
    <3>2. CASE Arrive(r) \/ SeedFingerprint(r) \/ UnseedFingerprint(r) \/ CutOff(r)
      BY <3>1, <3>2 DEF Arrive, SeedFingerprint, UnseedFingerprint, CutOff
    <3>3. CASE ProbeRecord(r) \/ ReadStatus(r)
      BY <3>1, <3>3 DEF ProbeRecord, ReadStatus
    <3>4. CASE CompareFingerprint(r) \/ LookUpResult(r)
      <4>1. \/ \E p \in {"lookup", "conflict", "error", "lock"} : Goto(r, p)
            \/ req' = [req EXCEPT ![r].pc = "seed", ![r].tries = 1]
            \/ req' = [req EXCEPT ![r] = [pc |-> "replayed", age |-> 0, tries |-> 0, got |-> Get(main)]]
        BY <3>4 DEF CompareFingerprint, LookUpResult
      <4>2. CASE \E p \in {"lookup", "conflict", "error", "lock"} : Goto(r, p)
        BY <3>1, <4>2
      <4>3. PICK p \in Pcs : Moves(r, p)
        BY <1>1
      <4>4. ASSUME req'[r].pc \in {"seed", "replayed"} PROVE p \notin Busy
        BY <4>3, <4>4 DEF Moves, Busy, Executing, Saving
      <4>5. CASE req' = [req EXCEPT ![r].pc = "seed", ![r].tries = 1]
        <5>1. req'[r].pc = "seed"
          BY <4>5, <1>2 DEF Shapes, ReqType
        <5> QED BY <4>3, <4>4, <5>1
      <4>6. CASE req' = [req EXCEPT ![r] = [pc |-> "replayed", age |-> 0, tries |-> 0, got |-> Get(main)]]
        <5>1. req'[r].pc = "replayed"
          BY <4>6, <1>2 DEF Shapes
        <5> QED BY <4>3, <4>4, <5>1
      <4> QED BY <4>1, <4>2, <4>5, <4>6
    <3> QED BY <1>5, <3>2, <3>3, <3>4
  <2> QED BY <1>2, <1>4, <2>1, <2>2, StandsAside
<1>6. CASE TryCreateLock(r)
  <2>1. CASE Get(main) = "absent"
    <3>1. Moves(r, "validate")
      BY <1>2, <1>6, <2>1, GotoMoves DEF TryCreateLock
    <3>2. landed = {} /\ \A s \in Requests : req[s].pc \notin Busy
      BY <1>4, <2>1 DEF Exclusive
    <3>3. Get(status') = "processing" /\ Get(main') # "absent" /\ landed' = landed
      BY <1>6, <2>1, Keys DEF TryCreateLock, Get
    <3> QED BY <1>2, <1>4, <3>1, <3>2, <3>3, TakesOver
  <2>2. CASE Get(main) # "absent"
    <3>1. Moves(r, "status") /\ "status" \notin Busy /\ UNCHANGED <<main, status, landed>>
      BY <1>2, <1>6, <2>2, GotoMoves DEF TryCreateLock, Busy, Executing, Saving
    <3> QED BY <1>2, <1>4, <3>1, StandsAside
  <2> QED BY <2>1, <2>2
<1>7. CASE ClaimFailedForRetry(r)
  <2>1. CASE Get(status) = "failed"
    <3>1. Moves(r, "validate")
      BY <1>2, <1>7, <2>1, GotoMoves DEF ClaimFailedForRetry
    <3>2. landed = {} /\ Get(main) # "absent" /\ \A s \in Requests : req[s].pc \notin Busy
      BY <1>4, <2>1 DEF Exclusive
    <3>3. Get(status') = "processing" /\ main' = main /\ landed' = landed
      BY <1>7, <2>1, Keys DEF ClaimFailedForRetry, Get
    <3>4. Get(main') # "absent"
      BY <3>2, <3>3
    <3> QED BY <1>2, <1>4, <3>1, <3>2, <3>3, <3>4, TakesOver
  <2>2. CASE Get(status) # "failed"
    <3>1. Moves(r, "conflict") /\ "conflict" \notin Busy /\ UNCHANGED <<main, status, landed>>
      BY <1>2, <1>7, <2>2, GotoMoves DEF ClaimFailedForRetry, Busy, Executing, Saving
    <3> QED BY <1>2, <1>4, <3>1, StandsAside
  <2> QED BY <2>1, <2>2
<1>8. CASE Validate(r) \/ ConsumeRefused(r)
  <2>1. UNCHANGED <<main, status, landed>> /\ req[r].pc \in Executing
    BY <1>8 DEF Validate, ConsumeRefused, At, Executing
  <2>2. Goto(r, "invalid") \/ Goto(r, "consume") \/ Goto(r, "mark")
    BY <1>8 DEF Validate, ConsumeRefused
  <2>3. Moves(r, "invalid") \/ Moves(r, "consume") \/ Moves(r, "mark")
    BY <1>2, <2>2, GotoMoves
  <2>4. "invalid" \notin Busy /\ "consume" \in Executing /\ "mark" \in Executing
    BY DEF Busy, Executing, Saving
  <2> QED BY <1>2, <1>4, <2>1, <2>3, <2>4, StandsAside, GoesOn
<1>9. CASE ConsumeCommits(r)
  <2>1. req[r].pc \in Executing /\ UNCHANGED <<main, status>> /\ landed' = landed \cup {r}
    BY <1>9 DEF ConsumeCommits, At, Executing
  <2>2. Moves(r, "save")
    BY <1>2, <1>9, GotoMoves DEF ConsumeCommits, Acknowledged
  <2> QED BY <1>2, <1>4, <2>1, <2>2, Commits
<1>10. CASE SaveResult(r) \/ SaveCompleted(r)
  <2>1. req[r].pc \in Saving /\ landed' = landed
    BY <1>10 DEF SaveResult, SaveCompleted, At, Saving
  <2>2. Get(main) # "absent" /\ Get(status) # "failed" /\ r # "absent"
    BY <1>4, <2>1, NamesAssumption DEF Exclusive, Busy
  <2>3. CASE SaveResult(r)
    <3>1. Moves(r, "complete") /\ "complete" \notin Executing
      BY <1>2, <2>3, GotoMoves DEF SaveResult, Executing
    <3>2. Get(main') # "absent" /\ Get(status') # "failed"
      BY <2>2, <2>3, Keys DEF SaveResult, Get
    <3> QED BY <1>2, <1>4, <2>1, <3>1, <3>2, Saves
  <2>4. CASE SaveCompleted(r)
    <3>1. Moves(r, "ok") /\ "ok" \notin Executing
      BY <1>2, <2>4, GotoMoves DEF SaveCompleted, Executing
    <3>2. Get(main') # "absent" /\ Get(status') # "failed"
      BY <2>2, <2>4, Keys DEF SaveCompleted, Get
    <3> QED BY <1>2, <1>4, <2>1, <3>1, <3>2, Saves
  <2> QED BY <1>10, <2>3, <2>4
<1>11. CASE MarkFailed(r)
  <2>1. req[r].pc \in Executing /\ main' = main /\ landed' = landed
    BY <1>11 DEF MarkFailed, At, Executing
  <2>2. Moves(r, "refused") /\ "refused" \notin Busy
    BY <1>2, <1>11, GotoMoves DEF MarkFailed, Busy, Executing, Saving
  <2> QED BY <1>2, <1>4, <2>1, <2>2, LeavesFailed
<1>12. CASE RedisFails(r)
  <2>1. PICK p : p = AfterFault[req[r].pc]
    OBVIOUS
  <2>2. p \in Pcs /\ req[r].pc \in DOMAIN AfterFault /\ Goto(r, p) /\ landed' = landed
        /\ req[r].pc # "lock"
    BY <1>3, <1>12, <2>1, FaultsLead DEF RedisFails, At
  <2>3. Moves(r, p) /\ p \notin Busy
    BY <1>2, <2>1, <2>2, GotoMoves, FaultsLead
  <2>4. \/ UNCHANGED <<main, status>>
        \/ At(r, "claim") /\ Get(status) = "failed" /\ main' = main /\ status' = Stored("processing", LockTTL)
        \/ At(r, "save") /\ main' = Stored(r, MainTTL) /\ status' = status
        \/ At(r, "complete") /\ main' = main /\ status' = Stored("completed", MainTTL)
        \/ At(r, "mark") /\ main' = main
    <3>1. PICK k \in {<<fp, main, status>>, WrittenUnseen(r)} : main' = k[2] /\ status' = k[3]
      BY <1>12 DEF RedisFails
    <3>2. CASE k = <<fp, main, status>>
      BY <3>1, <3>2
    <3>3. CASE k = WrittenUnseen(r)
      BY <2>2, <3>1, <3>3 DEF WrittenUnseen, At
    <3> QED BY <3>1, <3>2, <3>3
  <2>5. CASE UNCHANGED <<main, status>>
    BY <1>2, <1>4, <2>2, <2>3, <2>5, StandsAside
  <2>6. CASE At(r, "claim") /\ Get(status) = "failed" /\ main' = main /\ status' = Stored("processing", LockTTL)
    <3>1. landed' = {} /\ \A s \in Requests : req'[s].pc \notin Busy
      BY <1>4, <2>2, <2>3, <2>6 DEF Exclusive, Moves
    <3>2. Get(status)' = "processing"
      BY <2>6, Keys DEF Get
    <3> QED BY <3>1, <3>2 DEF Exclusive, Busy
  <2>7. CASE \/ At(r, "save") /\ main' = Stored(r, MainTTL) /\ status' = status
             \/ At(r, "complete") /\ main' = main /\ status' = Stored("completed", MainTTL)
    <3>1. req[r].pc \in Saving /\ p \notin Executing
      BY <2>3, <2>7 DEF At, Saving, Busy
    <3>2. Get(main) # "absent" /\ Get(status) # "failed" /\ r # "absent"
      BY <1>4, <3>1, NamesAssumption DEF Exclusive, Busy
    <3>3. Get(main') # "absent" /\ Get(status') # "failed"
      BY <2>7, <3>2, Keys DEF Get
    <3> QED BY <1>2, <1>4, <2>2, <2>3, <3>1, <3>3, Saves
  <2>8. CASE At(r, "mark") /\ main' = main
    <3>1. req[r].pc \in Executing
      BY <2>8 DEF At, Executing
    <3> QED BY <1>2, <1>4, <2>2, <2>3, <2>8, <3>1, LeavesFailed
  <2> QED BY <2>4, <2>5, <2>6, <2>7, <2>8
<1> QED BY <1>5, <1>6, <1>7, <1>8, <1>9, <1>10, <1>11, <1>12 DEF Handle

\* Time takes the marker away, never the record.
LEMMA TickKeeps ==
    ASSUME WithinTTL, Inv, Tick
    PROVE  Inv'
<1>1. Shapes' /\ \A r \in Requests : req'[r].pc = req[r].pc
  BY TickTyped DEF Inv
<1>2. clock \in Nat /\ clock < MaxTime /\ clock' = clock + 1 /\ MaxTime \in Nat /\ MainTTL \in Nat
  BY Keys DEF Inv, Shapes, Tick
<1>3. main \in [val : Requests \cup {"request", "absent"}, ttl : Nat] /\ main' = Aged(main)
  BY DEF Inv, Shapes, Tick
<1>4. Get(main)' = Get(main) /\ RecordLives'
  <2>1. CASE Get(main) = "absent"
    <3>1. Aged(main).val = "absent"
      BY <1>3, <2>1, Ageing DEF Get
    <3> QED BY <1>3, <2>1, <3>1 DEF Get, RecordLives
  <2>2. CASE Get(main) # "absent"
    <3>1. main.ttl + clock >= MainTTL /\ main.ttl \in Nat
      BY <1>3, <2>2 DEF Inv, RecordLives
    <3>2. main.ttl > 1
      BY <1>2, <3>1 DEF WithinTTL
    <3>3. main'.val = main.val /\ main'.ttl = main.ttl - 1
      BY <1>3, <3>2, Ageing
    <3> QED BY <1>2, <3>1, <3>3 DEF Get, RecordLives
  <2> QED BY <2>1, <2>2
<1>5. Get(status)' \in {Get(status), "absent"}
  <2>1. Aged(status).val \in {status.val, "absent"}
    BY Ageing DEF Inv, Shapes
  <2> QED BY <2>1 DEF Get, Tick
<1>6. landed' = landed /\ degraded' = degraded
  BY DEF Tick
<1>7. ASSUME Exclusive PROVE Exclusive'
  BY <1>1, <1>4, <1>5, <1>6, <1>7 DEF Exclusive
<1> QED BY <1>1, <1>4, <1>6, <1>7 DEF Inv

-----------------------------------------------------------------------------
(* The theorems *)

LEMMA ShapesInit == Init => Shapes
<1> SUFFICES ASSUME Init PROVE Shapes
  OBVIOUS
<1>1. fp \in [val : {Payload[r] : r \in Requests} \cup {"absent"}, ttl : Nat]
  BY Keys DEF Init
<1>2. main \in [val : Requests \cup {"request", "absent"}, ttl : Nat]
  BY Keys DEF Init
<1>3. status \in [val : {"processing", "failed", "completed", "absent"}, ttl : Nat]
  BY Keys DEF Init
<1>4. req \in [Requests -> ReqType]
  <2>1. [pc |-> "new", age |-> 0, tries |-> 0, got |-> "none"] \in ReqType
    BY PcsNamed DEF ReqType
  <2> QED BY <2>1 DEF Init
<1>5. clock \in 0..MaxTime
  BY Keys DEF Init
<1> QED BY <1>1, <1>2, <1>3, <1>4, <1>5 DEF Init, Shapes

LEMMA ShapesStep == Shapes /\ [Next]_vars => Shapes'
<1> SUFFICES ASSUME Shapes, [Next]_vars PROVE Shapes'
  OBVIOUS
<1>1. ASSUME NEW r \in Requests, Handle(r) \/ RedisFails(r) \/ CutOff(r) PROVE Shapes'
  BY <1>1, RequestSteps, WritesTyped DEF Moves
<1>2. CASE Tick
  BY <1>2, TickTyped
<1>3. CASE UNCHANGED vars
  BY <1>3 DEF vars, Shapes
<1> QED BY <1>1, <1>2, <1>3 DEF Next

\* Every key, request and counter of the idempotency protocol stays in its domain,
\* with lost answers and past the life of a record too.
THEOREM IdempotencyTyped == Spec => []TypeOK
<1>1. Shapes => TypeOK
  <2> SUFFICES ASSUME Shapes PROVE TypeOK
    OBVIOUS
  <2>1. Get(fp) \in {Payload[r] : r \in Requests} \cup {"absent"}
    BY DEF Shapes, Get
  <2>2. Get(main) \in Requests \cup {"request", "absent"}
        /\ Get(status) \in {"processing", "failed", "completed", "absent"}
    BY DEF Shapes, Get
  <2>3. \A r \in Requests : req[r].got \in Requests \cup {"none"}
    BY DEF Shapes, ReqType
  <2> QED BY <2>1, <2>2, <2>3 DEF Shapes, TypeOK
<1> QED BY <1>1, ShapesInit, ShapesStep, PTL DEF Spec

LEMMA InvInit == Init => Inv
<1> SUFFICES ASSUME Init PROVE Inv
  OBVIOUS
<1>1. Get(main) = "absent" /\ Get(status) = "absent" /\ landed = {}
  BY Keys DEF Init, Get
<1>2. \A r \in Requests : req[r].pc = "new"
  BY DEF Init
<1>3. RecordLives
  BY <1>1 DEF RecordLives
<1>4. Exclusive
  BY <1>1, <1>2 DEF Exclusive, Busy, Executing, Saving
<1> QED BY <1>3, <1>4, ShapesInit DEF Inv

LEMMA InvStep ==
    ASSUME Acknowledged, WithinTTL
    PROVE  Inv /\ [Next]_vars => Inv'
<1> SUFFICES ASSUME Inv, [Next]_vars PROVE Inv'
  OBVIOUS
<1>1. ASSUME NEW r \in Requests, Handle(r) \/ RedisFails(r) \/ CutOff(r) PROVE Inv'
  BY <1>1, RequestKeeps
<1>2. CASE Tick
  BY <1>2, TickKeeps
<1>3. CASE UNCHANGED vars
  BY <1>3 DEF vars, Inv, Shapes, RecordLives, Exclusive, Get
<1> QED BY <1>1, <1>2, <1>3 DEF Next

\* The inductive invariant of the idempotency protocol.
THEOREM IdempotencyInvariant ==
    ASSUME Acknowledged, WithinTTL
    PROVE  Spec => []Inv
BY InvInit, InvStep, PTL DEF Spec

\* Neither the failed-retry claim nor the expiry of the 60 s marker lets a second
\* delivery into the consume while the first is in it, unless try_create_lock failed
\* open.
THEOREM OneExecutorAtATime ==
    ASSUME Acknowledged, WithinTTL
    PROVE  Spec => []OneExecutor
<1>1. Inv => OneExecutor
  <2> SUFFICES ASSUME Inv, ~degraded
               PROVE  Cardinality({r \in Requests : req[r].pc \in {"validate", "consume", "mark"}}) <= 1
    BY DEF OneExecutor
  <2>1. PICK S : S = {r \in Requests : req[r].pc \in {"validate", "consume", "mark"}}
    OBVIOUS
  <2>2. \A r, s \in S : r = s
    BY <2>1 DEF Inv, Exclusive, Busy, Executing
  <2>3. S = {} \/ \E r \in S : S = {r}
    BY <2>2
  <2>4. Cardinality(S) <= 1
    BY <2>3, FS_EmptySet, FS_Singleton
  <2> QED BY <2>1, <2>4
<1> QED BY <1>1, IdempotencyInvariant, PTL

\* The points of one idempotency key are deducted once, however its deliveries
\* interleave, are cut off or find Redis failing; the one way out is the lock
\* creation that fails open (IdempotencyService::check_or_create).
THEOREM KeyDeductsOnce ==
    ASSUME Acknowledged, WithinTTL
    PROVE  Spec => []DeductedOnce
<1>1. Inv => DeductedOnce
  <2> SUFFICES ASSUME Inv, ~degraded PROVE ~(Cardinality(landed) > 1)
    BY DEF DeductedOnce, Inv, Shapes
  <2>1. \A r, s \in landed : r = s
    BY DEF Inv, Exclusive
  <2>2. landed = {} \/ \E r \in landed : landed = {r}
    BY <2>1
  <2>3. Cardinality(landed) = 0 \/ Cardinality(landed) = 1
    BY <2>2, FS_EmptySet, FS_Singleton
  <2> QED BY <2>3
<1> QED BY <1>1, IdempotencyInvariant, PTL
=============================================================================
