--------------------------- MODULE MCConfigManager ---------------------------
(***************************************************************************)
(* Instances of ConfigManager for TLC: fields f and g; raw is a value that *)
(* validation turns into one, bad one that it refuses.                     *)
(***************************************************************************)
EXTENDS ConfigManager, TLC

CONSTANTS f, g, one, two, raw, bad

MCCoerce == [x \in Values |-> IF x = raw THEN one ELSE x]

Symmetry == Permutations(Fields)
=============================================================================
