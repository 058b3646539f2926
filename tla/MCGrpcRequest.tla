--------------------------- MODULE MCGrpcRequest ---------------------------
(* GrpcRequest for TLC: a unary call with two retries and a server stream of *)
(* two values with one retry.                                                *)
EXTENDS GrpcRequest, TLC

CONSTANTS unary, stream

MCCalls == {unary, stream}
MCRetryCount == (unary :> 2 @@ stream :> 1)
MCStreamLength == (unary :> 1 @@ stream :> 2)
===========================================================================
