--------------------------- MODULE MCCaptureAudit ---------------------------
(***************************************************************************)
(* A small instance of CaptureAudit for TLC: every file size up to 64      *)
(* bytes (a header and up to two small records, or up to five blocks) and  *)
(* length fields on both sides of every limit the audit compares with; for *)
(* the disagreement, the lengths of blocks in files people have.           *)
(***************************************************************************)
EXTENDS CaptureAudit

MCSizes == 0 .. 64
MCLengths == {0, 4, 8, 10, 12, 16, 20, 28, 32}
MCUsualLengths == {28, 32}
=============================================================================
