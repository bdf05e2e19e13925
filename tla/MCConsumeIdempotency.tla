------------------------ MODULE MCConsumeIdempotency ------------------------
(* Deliveries of one request, of another one and of a malformed one, all     *)
(* under the same key.  Deliveries of the same request are interchangeable.  *)
EXTENDS ConsumeIdempotency, TLC

CONSTANTS First, Second   \* the deliveries of the two well-formed requests

MCPayload == [r \in Requests |-> CASE r \in First -> "p"
                                   [] r \in Second -> "q"
                                   [] OTHER -> "bad"]

Interchangeable == Permutations(First) \cup Permutations(Second)
=============================================================================
