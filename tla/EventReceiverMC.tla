--------------------------- MODULE EventReceiverMC ---------------------------
(* EventReceiver on a small instance. *)
EXTENDS EventReceiver, TLC

CallSymmetry == Permutations(Calls)
=============================================================================
