------------------------- MODULE MCNumberSequences -------------------------
(* NumberSequences with symmetric documents and requests, and prefixes of   *)
(* no digit or one, for TLC.                                                *)
EXTENDS NumberSequences, TLC

OnePrefix == {NoDigits}

TwoPrefixes == {NoDigits, [length |-> 1, digits |-> 1]}

Symmetry == Permutations(Documents) \cup Permutations(Requests)
=============================================================================
