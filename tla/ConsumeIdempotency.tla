------------------------- MODULE ConsumeIdempotency -------------------------
(***************************************************************************)
(* POST /api/ext/points/{realmId}/consume with an idempotency key: the     *)
(* handler consume_points_ext, its request fingerprint, the                *)
(* IdempotencyService and its Redis store, for one key of one caller.      *)
(* Every Redis command or Redis Function call is one step, and so is the   *)
(* database transaction.  A request can be cut off between any two steps   *)
(* (60 s route timeout, client disconnect, process crash).                 *)
(***************************************************************************)
EXTENDS Integers, FiniteSets

CONSTANTS
    Requests,    \* deliveries that carry the same idempotency key
    Payload,     \* the request body of each
    Invalid,     \* the bodies whose amount or user id is refused
    MainTTL,     \* IDEMPOTENCY_TTL, 24 h
    LockTTL,     \* LOCK_TTL, 60 s, the life of the processing marker
    FpTTL,       \* FINGERPRINT_TTL_SECS, 25 h
    Lifetime,    \* the route's TimeoutLayer
    MaxTime,     \* bound: the last instant of the clock
    MaxFaults,   \* bound: the number of Redis calls that fail
    AckMayBeLost \* whether a commit may land although the handler sees an error

ASSUME TTLAssumption ==
    /\ {MainTTL, LockTTL, FpTTL, Lifetime, MaxFaults, MaxTime} \subseteq Nat
    /\ 0 < LockTTL /\ Lifetime <= LockTTL /\ LockTTL <= MainTTL /\ MainTTL + Lifetime <= FpTTL
ASSUME NamesAssumption == {"absent", "request", "none"} \cap Requests = {}

VARIABLES
    fp,       \* idempotency:reqfp:{scope}:{key}
    main,     \* idempotency:{scope}:{key}: the raw request, later the transaction
    status,   \* its :status marker
    req,      \* the local state of every request
    landed,   \* the requests whose deduction is committed
    degraded, \* whether a request was let through because Redis was down
    faults,
    clock

vars == <<fp, main, status, req, landed, degraded, faults, clock>>

\* A Redis key and the time it has left to live; an expired key is absent.
Nothing == [val |-> "absent", ttl |-> 0]
Stored(v, ttl) == [val |-> v, ttl |-> ttl]
Get(key) == key.val
Aged(key) == IF key.ttl > 1 THEN [key EXCEPT !.ttl = @ - 1] ELSE Nothing

Ended == {"ok", "replayed", "conflict", "refused", "invalid", "error", "cut"}
Running(r) == req[r].pc \notin Ended \cup {"new"}

Init ==
    /\ fp = Nothing
    /\ main = Nothing
    /\ status = Nothing
    /\ req = [r \in Requests |-> [pc |-> "new", age |-> 0, tries |-> 0, got |-> "none"]]
    /\ landed = {}
    /\ degraded = FALSE
    /\ faults = 0
    /\ clock = 0

Goto(r, pc) ==
    req' = [req EXCEPT ![r] = IF pc \in Ended THEN [@ EXCEPT !.pc = pc, !.age = 0, !.tries = 0]
                              ELSE [@ EXCEPT !.pc = pc]]
At(r, pc) == req[r].pc = pc

Arrive(r) ==
    /\ At(r, "new")
    /\ Goto(r, "seed")
    /\ UNCHANGED <<fp, main, status, landed, degraded, faults, clock>>

-----------------------------------------------------------------------------
(* ensure_idempotency_fingerprint *)

\* SET NX: the first writer probes for a record without a fingerprint, the
\* others compare.
SeedFingerprint(r) ==
    /\ At(r, "seed")
    /\ IF Get(fp) = "absent"
       THEN fp' = Stored(Payload[r], FpTTL) /\ Goto(r, "probe")
       ELSE UNCHANGED fp /\ Goto(r, "compare")
    /\ UNCHANGED <<main, status, landed, degraded, faults, clock>>

\* EXISTS: a record older than the fingerprint cannot be vouched for.
ProbeRecord(r) ==
    /\ At(r, "probe")
    /\ Goto(r, IF Get(main) = "absent" THEN "lookup" ELSE "unseed")
    /\ UNCHANGED <<fp, main, status, landed, degraded, faults, clock>>

\* DEL of the fingerprint just seeded.
UnseedFingerprint(r) ==
    /\ At(r, "unseed")
    /\ fp' = Nothing
    /\ Goto(r, "conflict")
    /\ UNCHANGED <<main, status, landed, degraded, faults, clock>>

\* GET: equal goes on, different is a conflict; a key that vanished since the
\* SET NX is seeded once more.
CompareFingerprint(r) ==
    /\ At(r, "compare")
    /\ CASE Get(fp) = Payload[r] -> Goto(r, "lookup")
         [] Get(fp) = "absent" ->
              IF req[r].tries = 0
              THEN req' = [req EXCEPT ![r].pc = "seed", ![r].tries = 1]
              ELSE Goto(r, "error")
         [] OTHER -> Goto(r, "conflict")
    /\ UNCHANGED <<fp, main, status, landed, degraded, faults, clock>>

-----------------------------------------------------------------------------
(* IdempotencyService::check_or_create *)

\* get_from_cache: only a saved transaction parses; a raw request does not.
LookUpResult(r) ==
    /\ At(r, "lookup")
    /\ IF Get(main) \in Requests
       THEN req' = [req EXCEPT ![r] = [pc |-> "replayed", age |-> 0, tries |-> 0, got |-> Get(main)]]
       ELSE Goto(r, "lock")
    /\ UNCHANGED <<fp, main, status, landed, degraded, faults, clock>>

\* idempotency_acquire_lock: both keys in one Redis Function call.
TryCreateLock(r) ==
    /\ At(r, "lock")
    /\ IF Get(main) = "absent"
       THEN /\ main' = Stored("request", MainTTL)
            /\ status' = Stored("processing", LockTTL)
            /\ Goto(r, "validate")
       ELSE UNCHANGED <<main, status>> /\ Goto(r, "status")
    /\ UNCHANGED <<fp, landed, degraded, faults, clock>>

ReadStatusFailOpen(r) ==
    /\ At(r, "status")
    /\ Goto(r, CASE Get(status) = "failed" -> "claim"
                 [] Get(status) = "absent" -> "validate"
                 [] OTHER -> "conflict")
    /\ UNCHANGED <<fp, main, status, landed, degraded, faults, clock>>

\* Only a marker that says failed is a licence to run again; a missing one is not.
ReadStatus(r) ==
    /\ At(r, "status")
    /\ Goto(r, IF Get(status) = "failed" THEN "claim" ELSE "conflict")
    /\ UNCHANGED <<fp, main, status, landed, degraded, faults, clock>>

ClaimWithoutComparing(r) ==
    /\ At(r, "claim")
    /\ status' = Stored("processing", LockTTL)
    /\ Goto(r, "validate")
    /\ UNCHANGED <<fp, main, landed, degraded, faults, clock>>

\* idempotency_claim_failed_retry: compare and set in one call.  The loser reads
\* the marker again, and every answer to that is a conflict.
ClaimFailedForRetry(r) ==
    /\ At(r, "claim")
    /\ IF Get(status) = "failed"
       THEN status' = Stored("processing", LockTTL) /\ Goto(r, "validate")
       ELSE UNCHANGED status /\ Goto(r, "conflict")
    /\ UNCHANGED <<fp, main, landed, degraded, faults, clock>>

-----------------------------------------------------------------------------
(* The consume and what is remembered of it *)

\* The amount and the user id are checked only now; the record stays as it is.
Validate(r) ==
    /\ At(r, "validate")
    /\ Goto(r, IF Payload[r] \in Invalid THEN "invalid" ELSE "consume")
    /\ UNCHANGED <<fp, main, status, landed, degraded, faults, clock>>

\* consume_points commits, or reports an error with nothing committed (not
\* enough points, a frozen wallet, a deadlock victim), or loses the answer to
\* its COMMIT.
ConsumeCommits(r) ==
    /\ At(r, "consume")
    /\ landed' = landed \cup {r}
    /\ Goto(r, "save") \/ (AckMayBeLost /\ Goto(r, "mark"))
    /\ UNCHANGED <<fp, main, status, degraded, faults, clock>>

ConsumeRefused(r) ==
    /\ At(r, "consume")
    /\ Goto(r, "mark")
    /\ UNCHANGED <<fp, main, status, landed, degraded, faults, clock>>

\* save_result is two SETEX.
SaveResult(r) ==
    /\ At(r, "save")
    /\ main' = Stored(r, MainTTL)
    /\ Goto(r, "complete")
    /\ UNCHANGED <<fp, status, landed, degraded, faults, clock>>

SaveCompleted(r) ==
    /\ At(r, "complete")
    /\ status' = Stored("completed", MainTTL)
    /\ Goto(r, "ok")
    /\ UNCHANGED <<fp, main, landed, degraded, faults, clock>>

MarkUnparsable(r) ==
    /\ At(r, "mark")
    /\ status' = Stored("refused", MainTTL)
    /\ Goto(r, "refused")
    /\ UNCHANGED <<fp, main, landed, degraded, faults, clock>>

MarkFailed(r) ==
    /\ At(r, "mark")
    /\ status' = Stored("failed", MainTTL)
    /\ Goto(r, "refused")
    /\ UNCHANGED <<fp, main, landed, degraded, faults, clock>>

-----------------------------------------------------------------------------
(* Redis failures, cut-off requests, time *)

\* What the handler does when the Redis call it is at fails: the fingerprint
\* guard answers 500, a failed lookup or status read counts as absent, a failed
\* claim refuses, a failed save or mark is only logged, and a failed lock
\* creation lets the request through.
AfterFault ==
    [seed |-> "error", probe |-> "error", unseed |-> "error", compare |-> "error",
     lookup |-> "lock", lock |-> "validate", status |-> "conflict", claim |-> "conflict",
     save |-> "ok", complete |-> "ok", mark |-> "refused"]

\* What the call writes, for one that takes effect although its reply is lost.
WrittenUnseen(r) ==
    CASE At(r, "seed") /\ Get(fp) = "absent" -> <<Stored(Payload[r], FpTTL), main, status>>
      [] At(r, "unseed") -> <<Nothing, main, status>>
      [] At(r, "lock") /\ Get(main) = "absent" ->
           <<fp, Stored("request", MainTTL), Stored("processing", LockTTL)>>
      [] At(r, "claim") /\ Get(status) = "failed" -> <<fp, main, Stored("processing", LockTTL)>>
      [] At(r, "save") -> <<fp, Stored(r, MainTTL), status>>
      [] At(r, "complete") -> <<fp, main, Stored("completed", MainTTL)>>
      [] At(r, "mark") -> <<fp, main, Stored("failed", MainTTL)>>
      [] OTHER -> <<fp, main, status>>

RedisFails(r) ==
    /\ faults < MaxFaults
    /\ req[r].pc \in DOMAIN AfterFault
    /\ faults' = faults + 1
    /\ degraded' = (degraded \/ At(r, "lock"))
    /\ \E k \in {<<fp, main, status>>, WrittenUnseen(r)} :
         fp' = k[1] /\ main' = k[2] /\ status' = k[3]
    /\ Goto(r, AfterFault[req[r].pc])
    /\ UNCHANGED <<landed, clock>>

\* The future is dropped between two awaits.
CutOff(r) ==
    /\ Running(r)
    /\ Goto(r, "cut")
    /\ UNCHANGED <<fp, main, status, landed, degraded, faults, clock>>

\* No request outlives the route's timeout.
Tick ==
    /\ clock < MaxTime
    /\ \A r \in Requests : Running(r) => req[r].age < Lifetime
    /\ clock' = clock + 1
    /\ fp' = Aged(fp) /\ main' = Aged(main) /\ status' = Aged(status)
    /\ req' = [r \in Requests |-> IF Running(r) THEN [req[r] EXCEPT !.age = @ + 1] ELSE req[r]]
    /\ UNCHANGED <<landed, degraded, faults>>

Handle(r) ==
    \/ Arrive(r)
    \/ SeedFingerprint(r) \/ ProbeRecord(r) \/ UnseedFingerprint(r) \/ CompareFingerprint(r)
    \/ LookUpResult(r) \/ TryCreateLock(r) \/ ReadStatus(r) \/ ClaimFailedForRetry(r)
    \/ Validate(r) \/ ConsumeCommits(r) \/ ConsumeRefused(r)
    \/ SaveResult(r) \/ SaveCompleted(r) \/ MarkFailed(r)

Next ==
    \/ \E r \in Requests : Handle(r) \/ RedisFails(r) \/ CutOff(r)
    \/ Tick

Spec == Init /\ [][Next]_vars

-----------------------------------------------------------------------------
(* Properties *)

\* Every variable stays in its domain.
TypeOK ==
    /\ Get(fp) \in {Payload[r] : r \in Requests} \cup {"absent"}
    /\ Get(main) \in Requests \cup {"request", "absent"}
    /\ Get(status) \in {"processing", "failed", "completed", "absent"}
    /\ landed \subseteq Requests
    /\ \A r \in Requests : req[r].got \in Requests \cup {"none"}
    /\ clock \in 0..MaxTime

\* However deliveries of one key interleave, are cut off between the commit and
\* save_result, outlive the processing marker or find Redis failing, the points
\* are deducted once.  The one way out is a lock creation that failed open.
DeductedOnce == Cardinality(landed) > 1 => degraded

\* While a record lives, one delivery at a time works on its consume: neither the
\* failed-retry claim nor the expiry of the 60 s marker lets a second one in.
OneExecutor ==
    ~degraded => Cardinality({r \in Requests : req[r].pc \in {"validate", "consume", "mark"}}) <= 1

\* points.rs: "an idempotency key must answer only replays of the SAME request".
ReplayOnlySameRequest ==
    \A r \in Requests : req[r].got # "none" => Payload[req[r].got] = Payload[r]
=============================================================================
