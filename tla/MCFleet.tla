------------------------------ MODULE MCFleet ------------------------------
(* A small instance of Fleet for TLC.                                      *)
EXTENDS Fleet
=============================================================================
