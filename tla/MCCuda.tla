------------------------------- MODULE MCCuda -------------------------------
(***************************************************************************)
(* CudaDriver for TLC: a command of two bytes answered by two, and one of  *)
(* three answered by seven (the reply to CUDA_GET_TIME).                   *)
(***************************************************************************)
EXTENDS CudaDriver, TLC

CONSTANTS c1, c2

MCCommandLen == (c1 :> 2) @@ (c2 :> 3)
MCReplyLen == (c1 :> 2) @@ (c2 :> 7)
=============================================================================
