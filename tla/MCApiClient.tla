---------------------------- MODULE MCApiClient ----------------------------
(* ApiClient for TLC: three calls that share one client.  The first brings    *)
(* two retries and a timeout longer than the client's, so that the agent must *)
(* be raised and not lowered again; the second takes the client's options (no *)
(* retry, a short timeout); the third has a timeout that is not valid.        *)
EXTENDS ApiClient, TLC

CONSTANTS r1, r2, r3

MCRequests == {r1, r2, r3}
MCMaxRetries == (r1 :> 2 @@ r2 :> Default @@ r3 :> 0)
MCTimeout == (r1 :> 2 @@ r2 :> Default @@ r3 :> Invalid)

Reply(status, should, ms, after) ==
  [kind |-> "response", status |-> status, shouldRetry |-> should,
   retryAfterMs |-> ms, retryAfter |-> after]

(* Success; rate limits that ask for nothing, for a usable delay, *)
(* for one that is too long, for a zero; and headers that overrule a status. *)
MCResponses ==
  { Reply(200, "absent", NoHint, NoHint),
    Reply(429, "absent", NoHint, 2),
    Reply(503, "absent", 0, 5),
    Reply(500, "false", NoHint, NoHint),
    Reply(404, "true", 1, 2) }
===========================================================================
