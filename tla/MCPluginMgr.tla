---------------------------- MODULE MCPluginMgr ----------------------------
(* A table of three rows, two of them of one library. *)
EXTENDS PluginMgr

CONSTANTS xfpga, other

ThreeRows == <<xfpga, other, xfpga>>
=============================================================================
