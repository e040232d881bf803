---------------------------- MODULE MCThreadPool ----------------------------
(* ThreadPool as TLC runs it: the model values are in the cfg.             *)
EXTENDS ThreadPool
=============================================================================
