---------------------------- MODULE MCRingBuffer ----------------------------
(***************************************************************************)
(* Small instances of RingBuffer.  Every index a short ring can have is    *)
(* also what an uninitialised headNew may hold; an index beyond the ring   *)
(* (undefined behaviour of another kind) is left out.                      *)
(***************************************************************************)
EXTENDS RingBuffer

MCGarbage == 0 .. Size - 1
Unwritten == {NULL, Junk}
=============================================================================
