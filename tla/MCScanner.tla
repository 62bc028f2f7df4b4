----------------------------- MODULE MCScanner -----------------------------
(***************************************************************************)
(* Scanner on short streams: every stream of three pieces of the list, where *)
(* packets whole and broken, acknowledgements, noise, newlines and NULs    *)
(* meet, and a few longer ones that make the buffer grow or the error      *)
(* buffer fill.                                                            *)
(***************************************************************************)
EXTENDS Scanner, SequencesExt

MCMorceaux ==
  {<<>>, <<Dollar>>, <<Diese>>, <<Hexa>>, <<Plus>>, <<Moins>>, <<Ligne>>, <<NUL>>, <<1>>,
   <<Dollar, Diese, Hexa, Hexa>>,      \* an empty packet
   <<Dollar, Plus, Diese>>}            \* a packet that never gets its checksum

MCLongs ==
  {<<Dollar, Ligne, NUL, Moins, Diese, Hexa, Hexa, Plus>>,
   <<Plus, Dollar, 1, Dollar, Diese, Hexa, Hexa, Moins>>,
   <<1, Ligne, Hexa, NUL, 1, Diese, Plus>>,
   <<Dollar, 1, 1, 1, 1, 1, 1, Moins, Diese, Hexa>>}

MCFlots == {a \o b \o c : a, b, c \in MCMorceaux} \union MCLongs
=============================================================================
