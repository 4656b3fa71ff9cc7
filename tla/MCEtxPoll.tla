------------------------------ MODULE MCEtxPoll ------------------------------
(* A small instance of EtxPoll.                                              *)
EXTENDS EtxPoll

CONSTANTS s1, s2, a1, a2
=============================================================================
