---------------------------- MODULE MCReferences ----------------------------
(* Hashes of two characters, and what they are replaced by.                *)
EXTENDS References

\* The hashes overlap; a replacement has a character of the other hash.
TwoHashes == {<<1, 2>>, <<2, 2>>}
TwoRewrites == << << <<1, 2>>, <<0, 0>> >>, << <<2, 2>>, <<1, 0>> >> >>
=============================================================================
