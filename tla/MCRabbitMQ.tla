----------------------------- MODULE MCRabbitMQ -----------------------------
(* RabbitMQ for TLC: a stable and a canary pod, a message from outside whose  *)
(* handler publishes one that is compressed and makes its own handler throw,  *)
(* and a note that a pod cannot publish, being too long even compressed.      *)
EXTENDS RabbitMQ, TLC

CONSTANTS stable, canary, order, mail, note

MCPods == {stable, canary}
MCMessages == {order, mail, note}
MCFollows == (order :> None @@ mail :> order @@ note :> None)
MCSize == (order :> 1 @@ mail :> 3 @@ note :> 4)
MCDeflatedSize == (order :> 1 @@ mail :> 2 @@ note :> 3)
=============================================================================
