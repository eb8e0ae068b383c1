---------------------------- MODULE MCBlockMonitor ----------------------------
(***************************************************************************)
(* An instance of BlockMonitor for TLC: one drive with one block.          *)
(***************************************************************************)
EXTENDS BlockMonitor

CONSTANTS sda, sda1

OneDrive == {sda}
OneBlock == {sda1}
OneOnSda == [b \in OneBlock |-> sda]
=============================================================================
