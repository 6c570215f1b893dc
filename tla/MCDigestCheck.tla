--------------------------- MODULE MCDigestCheck ---------------------------
(***************************************************************************)
(* Digests of two bytes.  One byte is written with the ends of the three   *)
(* ranges of digits and their neighbours, or is the two bytes of a         *)
(* character that is not ASCII; the other in a few ways.  Shorter and      *)
(* longer texts besides.  Documents: digests, what is shorter or longer,   *)
(* and elements that do not fit a byte, in a slot and past the last one.   *)
(***************************************************************************)
EXTENDS DigestCheck

Characters == {47, 48, 57, 58, 64, 65, 70, 71, 96, 97, 102, 103}

Pairs == {<<c, d>> : c, d \in Characters} \cup {<<195, 169>>}

Written == {<<48, 102>>, <<65, 57>>, <<103, 48>>}

MCTexts ==
    {p \o w : p \in Pairs, w \in Written}
        \cup {w \o p : p \in Pairs, w \in Written}
        \cup {<<>>, <<48, 102, 48>>, <<48, 102, 48, 102, 48>>}

MCDigests == {<<15, 169>>, <<169, 15>>, <<15, 15>>, <<15, 175>>, <<0, 15>>}

MCDocuments ==
    MCDigests \cup {<<>>, <<15>>, <<15, 169, 0>>, <<15, 256>>, <<256, 169>>, <<0, 15, 256>>, <<15, 0>>, <<0>>}

SomeBytes == {{}, {0}, {7}, 0..7}

MCSlices == UNION {[1..n -> SomeBytes] : n \in 0..1} \cup {<<{}, {0}>>, <<{0}, {}>>, <<{7}, {7}>>}
=============================================================================
