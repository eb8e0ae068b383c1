---------------------------- MODULE MCBlockDevice ----------------------------
(***************************************************************************)
(* An instance of BlockDevice for TLC: a disc in an optical drive and an   *)
(* encrypted loop device.                                                  *)
(***************************************************************************)
EXTENDS BlockDevice

DiscAndLoop == {[fs |-> TRUE, encrypted |-> FALSE, drive |-> TRUE, ejectable |-> TRUE],
                [fs |-> FALSE, encrypted |-> TRUE, drive |-> FALSE, ejectable |-> FALSE]}
=============================================================================
