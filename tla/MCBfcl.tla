-------------------------------- MODULE MCBfcl --------------------------------
(* BfclRun on two prompts, with no checkpoint, one, and the same one twice. *)
EXTENDS BfclRun

Checkpoints == {<<>>, <<"dpo-50">>, <<"dpo-50", "dpo-50">>}
=============================================================================
