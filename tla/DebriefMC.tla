------------------------------ MODULE DebriefMC ------------------------------
(* Debrief for a run that writes one path on two branches and one of them twice. *)
EXTENDS Debrief

FileValue == << <<"a", "x">>, <<"a", "y">>, <<"b", "x">>, <<"a", "x">> >>
=============================================================================
