------------------------------ MODULE MCBuffers ------------------------------
(***************************************************************************)
(* Blocks of up to eight bytes of two bits, offsets of five bits.          *)
(***************************************************************************)
EXTENDS Buffers

SmallContents == {<<>>, <<2, 1, 1, 2, 3, 2, 1>>}
SmallTexts == {<<>>, <<1, 2>>, <<2, 2, 1>>}
=============================================================================
