---------------------------- MODULE MCFtpClient -----------------------------
(* FtpClient for TLC: the bound is given in the cfg.                        *)
EXTENDS FtpClient
=============================================================================
