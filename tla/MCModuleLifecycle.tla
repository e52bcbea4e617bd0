-------------------------- MODULE MCModuleLifecycle --------------------------
(* Small instances of ModuleLifecycle for TLC. *)
EXTENDS ModuleLifecycle, TLC

MCSymmetry == Permutations(Commands) \cup Permutations(Others)
=============================================================================
