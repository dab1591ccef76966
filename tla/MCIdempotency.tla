--------------------------- MODULE MCIdempotency ---------------------------
(***************************************************************************)
(* A small instance of Idempotency: two deliveries with the same body and  *)
(* one whose body differs, and one delivery without the header.            *)
(***************************************************************************)
EXTENDS Idempotency, TLC

CONSTANTS r1, r2, r3, u1, bodyA, bodyB

MCRequests == {r1, r2, r3}
MCUnkeyed == {u1}
MCPayloads == {bodyA, bodyB}
MCPayload == (r1 :> bodyA) @@ (r2 :> bodyA) @@ (r3 :> bodyB)

\* Two deliveries with different bodies, for the run without assumptions.
MCPair == {r1, r3}
MCPayloadPair == (r1 :> bodyA) @@ (r3 :> bodyB)

\* In that run the handler of the second body may roll back and go on; in the others
\* none does.
MCResuming == {bodyB}
MCNoneResumes == {}
============================================================================
