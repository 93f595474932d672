--------------------------- MODULE MCResourceQueue ---------------------------
(***************************************************************************)
(* The instance of ResourceQueue for TLC; its constants are in the cfg.    *)
(***************************************************************************)
EXTENDS ResourceQueue
=============================================================================
