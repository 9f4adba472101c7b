-------------------------------- MODULE MCLoaf --------------------------------
EXTENDS Loaf

MCLiterals == 12 :> <<1, NUL>> @@ 13 :> <<1, 1, NUL>>
MCAddresses == [block |-> {1, 2}, chars |-> {3, 4}]
Symmetry == Permutations(Loaves)
=============================================================================
