----------------------------- MODULE MCUploader -----------------------------
(***************************************************************************)
(* Small instance of Uploader for TLC: its constants are numbers, given in *)
(* the configuration.                                                      *)
(***************************************************************************)
EXTENDS Uploader
=============================================================================
