---------------------------- MODULE MCProviderLate ----------------------------
(* An empty zone, one wanted record and a create that is committed late. *)
EXTENDS ProviderLate

CONSTANTS a, h1

Attr == [type |-> 1, ttl |-> 600]
OneAttr == {Attr}
OwnNames == [p \in Owned |-> 1]
EmptyZone == {{}}
OneWant == {[targets |-> {}, val |-> 5, attr |-> Attr], [targets |-> {1}, val |-> 5, attr |-> Attr]}
===============================================================================
