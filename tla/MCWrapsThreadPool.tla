------------------------- MODULE MCWrapsThreadPool --------------------------
(* WrapsThreadPool as TLC runs it: the model values are in the cfg.        *)
EXTENDS WrapsThreadPool
=============================================================================
