---------------------------- MODULE MCPortproxy ----------------------------
(* Two bridges on one port.  The declarations differ in family and target, *)
(* and listen on the adapter or a fixed address: apart or on one endpoint, *)
(* as the address of the adapter has it.                                   *)
EXTENDS Portproxy, TLC

CONSTANTS b1, b2, ip1, ip2, t1, t2

On(addr, target, fam) ==
    [listen |-> [addr |-> addr, port |-> 1], connect |-> target, family |-> fam]

MCOrder == <<b1, b2>>
MCDeclared ==
    { (b1 :> On(Sentinel, t1, "auto") @@ b2 :> On(ip1, t1, "v6")),
      (b1 :> On(Sentinel, t2, "v6") @@ b2 :> On(ip2, t1, "v4")),
      (b1 :> On(ip2, t1, "v4") @@ b2 :> On(ip1, t2, "auto")) }
=============================================================================
