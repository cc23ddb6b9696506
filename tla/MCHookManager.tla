--------------------------- MODULE MCHookManager ---------------------------
(* Instances of HookManager for TLC.                                       *)
EXTENDS HookManager, TLC

CONSTANTS h1, h2, h3, m1, m2, v

MCHooks    == {h1, h2, h3}
MCMethods  == {m1, m2}
MCPhases   == {"pre", "post", "both"}
MCValues   == {v}
MCNone     == {}
\* Which hook_ref is drawn and which method is hooked does not matter.
MCSymmetry == Permutations(MCHooks) \cup Permutations(MCMethods)
=============================================================================
