---------------------------- MODULE MCFtpServer -----------------------------
(* FtpServer for TLC: the constants are given in the cfg files.             *)
EXTENDS FtpServer
=============================================================================
