----------------------------- MODULE MCScanner -----------------------------
EXTENDS Scanner

(* The bytes that some reader treats in a way of its own, and the ends of  *)
(* a literal length, a partial and a section in one piece.                 *)
MCChunks ==
  {<<b>> : b \in {"1", "\"", CR, LF}}
    \cup {<<"*", " ">>, <<"<", "1">>, <<"{", "1">>, <<"a", "]">>, <<"\\", "\"">>}
    \cup {<<".", "1", ">">>, <<"}", CR, LF>>}
=============================================================================
