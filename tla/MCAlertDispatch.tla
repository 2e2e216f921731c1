-------------------------- MODULE MCAlertDispatch --------------------------
(***************************************************************************)
(* Small instances of AlertDispatch for TLC.                               *)
(***************************************************************************)
EXTENDS AlertDispatch, TLC

CONSTANTS alert, w1, w2, ann
=============================================================================
