---------------------------- MODULE MCSastServer ----------------------------
(* SastServer for TLC.                                                       *)
EXTENDS SastServer
=============================================================================
