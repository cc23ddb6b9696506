------------------------- MODULE MCHookObservation -------------------------
(* Instances of HookObservation for TLC.                                   *)
EXTENDS HookObservation

CONSTANTS h1, m1, v, o1, a, b

MCOneHook   == {h1}
MCMethods   == {m1}
MCPhases    == {"both"}
MCOneValue  == {v}
MCObjects   == {o1}
MCCallers   == {a, b}
=============================================================================
