------------------------------ MODULE MCFakeFmq ------------------------------
(* The ring of a surface with three buffers, the most the code makes. *)
EXTENDS FakeFmq

MCIds == <<11, 12, 13>>
=============================================================================
