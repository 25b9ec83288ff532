---------------------------- MODULE MCExportPanel ----------------------------
(* Small instances of ExportPanel for TLC.                                 *)
EXTENDS ExportPanel

CONSTANTS a, b
=============================================================================
