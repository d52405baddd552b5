------------------------------ MODULE MCScript ------------------------------
(***************************************************************************)
(* A small instance of Script, whose counters wrap at once.                *)
(***************************************************************************)
EXTENDS Script

Largest == {Modulus - 1}
=============================================================================
