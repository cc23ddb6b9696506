--------------------------- MODULE MCExportService ---------------------------
(* Instances of ExportService for TLC: two jobs, and a dump that passes      *)
(* through the first and the last stage.                                     *)
EXTENDS ExportService

CONSTANTS j1, j2

MCJobs == {j1, j2}
MCOneMode == {"sdk_and_json"}
MCModes == {"json_only", "sdk_and_json"}
MCDumpStages == {0, 9}
MCNoneStage == -1
=============================================================================
