---------------------------- MODULE MCBufferQueue ----------------------------
(* A surface of four buffers (the code makes two or three) and one foreign key. *)
EXTENDS BufferQueue

CONSTANTS k1, k2, k3, k4, stranger

MCIds == <<k1, k2, k3, k4>>
MCForeign == {stranger}

(* Without is std::list::remove on every list without duplicates. *)
ShortLists == UNION {{s \in [1 .. n -> BufferKeys] : IsInjective(s)} : n \in 1 .. 4}
ASSUME WithoutIsListRemove ==
  \A s \in ShortLists : \A k \in Range(s) :
    Without(s, k) = SelectSeq(s, LAMBDA x : x # k)
=============================================================================
