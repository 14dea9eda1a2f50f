---------------------------- MODULE MCMsgSendHook ----------------------------
(* Small instances of MsgSendHook.                                         *)
EXTENDS MsgSendHookProps, TLC

Symmetry == Permutations(Callers)
=============================================================================
