------------------------------ MODULE MCFrameCodec ------------------------------
(* The right magic and ones that are wrong in one byte; an empty payload,  *)
(* one of exactly the default limit, which looks like the start of a       *)
(* frame, and one above it.                                                *)
EXTENDS FrameCodec

MCMagics == {MagicBytes, <<5, 8>>, <<6, 7>>}
MCPayloads == {<<>>, <<5, 7>>, <<1, 1, 1>>}
================================================================================
