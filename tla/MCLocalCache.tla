---------------------------- MODULE MCLocalCache ----------------------------
(* Instances of the local cache for TLC: entity "1", and "1:2" beside it. *)
EXTENDS LocalCache

Item(kind, entity, resource) == [kind |-> kind, entity |-> entity, resource |-> resource]

SomeSegments == Kinds \cup {"1", "2", "projects"}

SomeItems == {Item("overrides", <<"1">>, None), Item("count", <<"1", "2">>, "projects")}
=============================================================================
