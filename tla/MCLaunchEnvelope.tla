-------------------------- MODULE MCLaunchEnvelope --------------------------
(* LaunchEnvelope with two launchers and a stage of a few seconds. *)
EXTENDS LaunchEnvelope, TLC

CONSTANTS l1, l2

Either == Permutations(Launchers)
=============================================================================
