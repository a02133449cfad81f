-------------------------------- MODULE MCAuth --------------------------------
(***************************************************************************)
(* An instance of Auth for TLC: two clients behind one address; in each    *)
(* behaviour the tokens meet the passwords or the provider, or two pairs   *)
(* meet in a cache that holds two entries.                                 *)
(***************************************************************************)
EXTENDS Auth

CONSTANTS c1, c2, ip

OneAddress == [c \in {c1, c2} |-> ip]
MCMenus == {
  [kinds |-> {"password", "tokens"}, issued |-> 0, pairs |-> 1, faults |-> 0],
  [kinds |-> {"tokens", "oidc"}, issued |-> 0, pairs |-> 1, faults |-> 0],
  [kinds |-> {"password"}, issued |-> 0, pairs |-> 1, faults |-> 1],
  [kinds |-> {"oidc"}, issued |-> 0, pairs |-> 1, faults |-> 1],
  [kinds |-> {"tokens"}, issued |-> 1, pairs |-> 1, faults |-> 1],
  [kinds |-> {"tokens"}, issued |-> 2, pairs |-> 2, faults |-> 0]}
=============================================================================
