-------------------------------- MODULE MCSync --------------------------------
(* Instances of Sync for TLC.                                                  *)
EXTENDS Sync

CONSTANTS a, b, c

=============================================================================
