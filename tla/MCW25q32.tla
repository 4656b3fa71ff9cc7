-------------------------------- MODULE MCW25q32 --------------------------------
(* Small instances of W25q32.                                                  *)
EXTENDS W25q32

\* Backwards, and to the last byte or beyond it.
MCOffsets == {-3, 9}
=============================================================================
