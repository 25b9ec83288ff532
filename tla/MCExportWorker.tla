--------------------------- MODULE MCExportWorker ---------------------------
(* Small instances of ExportWorker for TLC.                                *)
EXTENDS ExportWorker

CONSTANTS p1, p2, this, other
=============================================================================
