-------------------------- MODULE MCTCPReassembler --------------------------
(* Instance of TCPReassembler for TLC: the constants are in the cfg.          *)
EXTENDS TCPReassembler
=============================================================================
