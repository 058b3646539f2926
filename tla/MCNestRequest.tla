---------------------------- MODULE MCNestRequest ----------------------------
(***************************************************************************)
(* Values for TLC: entry 1 arrives in every way and has two calls behind   *)
(* it, entry 2 comes over HTTP and may wait for a call of entry 1.          *)
(***************************************************************************)
EXTENDS NestRequest

MCDepth == <<2, 0>>

MCArrivals ==
    << {a \in Arrival : /\ a.given => a.data
                        /\ a.kind = "ws" /\ a.given => a.shaken
                        /\ a.kind # "ws" => a.data /\ ~a.shaken},
       [kind: {"http"}, data: {TRUE}, given: {FALSE}, shaken: {FALSE}] >>

=============================================================================
