---------------------------- MODULE MCSupervisor ----------------------------
(* One worker; a first call with one function and a second with two. *)
EXTENDS Supervisor, TLC

CONSTANTS a, k1, w1

MCPartitionOf == k1 :> w1
MCBatch == <<1, 2>>
=============================================================================
