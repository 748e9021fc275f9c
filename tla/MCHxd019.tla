------------------------------ MODULE MCHxd019 ------------------------------
(* A task that sets states and one that sends other frames; an index of two brands
   and a table of one entry; a match reply in one read, with a header byte for its
   low byte.                                                                     *)
EXTENDS Hxd019

MCBrands == {[name |-> "gree", type |-> "AC", groups |-> <<830>>],
             [name |-> "gree", type |-> "TV", groups |-> <<64>>]}
MCTable == <<[fmt |-> 1, key |-> <<15, 240>>, com |-> <<1, 254, 0, 0>>]>>
MCSettings == {[key |-> 9, field |-> "auxHeat", value |-> 1]}
MCChunks == {<<4, 48>>}
MCBuilds == {[keys |-> 7, minus16 |-> FALSE], [keys |-> 11, minus16 |-> TRUE]}
=============================================================================
