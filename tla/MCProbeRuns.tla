---------------------------- MODULE MCProbeRuns ----------------------------
(* Constants for checking ProbeRuns with TLC: two addresses, so that one is *)
(* reused while another state is alive.                                     *)
EXTENDS ProbeRuns, TLC

CONSTANTS a1, a2
MCAddresses == {a1, a2}
=============================================================================
