-------------------------- MODULE MCKpmIndication --------------------------
(* Three addresses: two UEs and a cell, or three UEs of which two are equal. *)
EXTENDS KpmIndication

MCAddress == 1..3
MCCounts == 0..2
=============================================================================
