----------------------------- MODULE MCCatalog -----------------------------
(* Backends whose names with the separator begin one another's: "a", "a_"   *)
(* and "a__b". The tools are x, _x and b__x.                                *)
EXTENDS Catalog

MCPrefix ==
    [b \in Backends |-> CASE b = "a" -> <<"a">>
                        [] b = "a_" -> <<"a", "_">>
                        [] b = "a__b" -> <<"a", "_", "_", "b">>]
MCTools ==
    [b \in Backends |-> CASE b = "a" -> {<<"_", "x">>, <<"b", "_", "_", "x">>}
                        [] b = "a_" -> {<<"x">>}
                        [] b = "a__b" -> {<<"x">>}]
=============================================================================
