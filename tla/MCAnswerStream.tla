--------------------------- MODULE MCAnswerStream ---------------------------
(***************************************************************************)
(* Instances of AnswerStream.                                              *)
(***************************************************************************)
EXTENDS AnswerStream
=============================================================================
