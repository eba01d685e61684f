------------------------------ MODULE MCAudit -------------------------------
(* The traffic of MCExporter for the instances of Audit.                   *)
EXTENDS MCExporter, Audit
=============================================================================
