-------------------------- MODULE MCStreamSession --------------------------
(* StreamSession for TLC: the values of its constants are in the cfg files. *)
EXTENDS StreamSession

=============================================================================
