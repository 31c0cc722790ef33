-------------------------- MODULE MCEntityListing --------------------------
(* Four entities of two kinds, in an order that makes a filter move some.  *)
EXTENDS EntityListing

CONSTANTS skill, hook

MCStored == << [id |-> 1, kind |-> hook], [id |-> 2, kind |-> skill],
               [id |-> 3, kind |-> hook], [id |-> 4, kind |-> skill] >>
=============================================================================
