---------------------------- MODULE MCHookRelay ----------------------------
(* Instances of HookRelay for TLC. *)
EXTENDS HookRelay

=============================================================================
