---------------------------- MODULE MCThreadPool ----------------------------
(* ThreadPool for TLC: the constants are model values given in the cfg.     *)
EXTENDS ThreadPool
=============================================================================
