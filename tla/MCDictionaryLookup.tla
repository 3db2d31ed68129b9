------------------------- MODULE MCDictionaryLookup -------------------------
(* Instances of DictionaryLookup for TLC.                                  *)
EXTENDS DictionaryLookup
=============================================================================
