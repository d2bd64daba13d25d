----------------------------- MODULE MCPublisher -----------------------------
(* Publisher on a ring smaller than its window, for TLC.                     *)
EXTENDS Publisher

MCOversized == {7}
==============================================================================
