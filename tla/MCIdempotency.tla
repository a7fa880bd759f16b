---------------------------- MODULE MCIdempotency ----------------------------
(* Two clients at once under one key; either may reuse it with another payload. *)
EXTENDS Idempotency

CONSTANTS r1, r2, h1, h2

MCRequests == {r1, r2}
MCHashes == {h1, h2}
=============================================================================
