--------------------------- MODULE RunLifecycleMC ---------------------------
(* RunLifecycle on small instances, with the promise it keeps.               *)
EXTENDS RunPromise, TLC
=============================================================================
