----------------------------- MODULE MCBridges -----------------------------
(* Small instances of Bridges for TLC: the targets are a bridge of its own  *)
(* and a composite with a member in each tier (the apply of all of them is  *)
(* an action of its own); a bridge is still to be declared at startup.      *)
EXTENDS Bridges, TLC

CONSTANTS w1, a, b, web, other, cli

MCTargets == {{a}, {w1, b}}
MCFiles == {{w1, a}, {w1, a, b}}
MCSome == {w1, a}
MCAll == {w1, a, b}

(* Two web handlers are the same. *)
MCSymmetry == Permutations({web, other})
=============================================================================
