----------------------------- MODULE MCExportJobs -----------------------------
(* Instances of ExportJobs for TLC.                                          *)
EXTENDS ExportJobs

CONSTANTS e1, h1, rd

MCExports   == {e1}
MCHostJobs  == {h1}
MCReaders   == {rd}
MCNone      == {}

\* The default of run_generate_sdk, and a caller who imports without activating.
MCIndexAndActivate == [index |-> TRUE, activate |-> TRUE]
MCIndexOnly        == [index |-> TRUE, activate |-> FALSE]
MCExportOnly       == [index |-> FALSE, activate |-> FALSE]
MCWishes  == {MCIndexAndActivate, MCIndexOnly}
MCDefault == {MCIndexAndActivate}
\* The default, and a caller who wants the files alone.
MCWithOrWithoutIndex == {MCIndexAndActivate, MCExportOnly}
=============================================================================
