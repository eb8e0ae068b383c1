--------------------------- MODULE MCProtocolMounts ---------------------------
(***************************************************************************)
(* An instance of ProtocolMounts for TLC: a phone, whose device is looked  *)
(* at, a share and the share of another user.                              *)
(***************************************************************************)
EXTENDS ProtocolMounts

CONSTANTS phone, share, others

AllRoots == {phone, share, others}
OnePhone == {phone}
OthersShare == {others}
=============================================================================
