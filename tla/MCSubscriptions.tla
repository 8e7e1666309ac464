-------------------------- MODULE MCSubscriptions --------------------------
(***************************************************************************)
(* A kernel with a subscriber and a publisher, and another kernel with     *)
(* both.  "base" has the child "derived".                                  *)
(***************************************************************************)
EXTENDS Subscriptions

Pub(group) == [name |-> "pub", group |-> group]

MCClients == <<"near", "sub", "far", "sub2">>
MCLocal == {"sub", "far"}
MCNameOf ==
  [c \in {"near", "sub", "far", "sub2"} |->
     CASE c = "near" -> Pub(<<"a">>)
       [] c = "far" -> Pub(<<"a", "b">>)
       [] c = "sub" -> [name |-> "sub", group |-> <<>>]
       [] c = "sub2" -> [name |-> "sub", group |-> <<"a", "c">>]]
MCMessages == <<"base", "derived">>
MCChildren ==
  [m \in {"base", "derived"} |->
     IF m = "base" THEN [c \in {"derived"} |-> 0] ELSE [c \in {} |-> 0]]

Demand(handler, what, from) ==
  [handler |-> handler, what |-> what, from |-> from, nearest |-> FALSE,
   invert |-> FALSE, registrator |-> FALSE]

MCWishes ==
  [c \in {"near", "sub", "far", "sub2"} |->
     CASE c = "sub" ->
            {[Demand(1, "derived", Pub(<<"a">>)) EXCEPT !.nearest = TRUE],
             [Demand(2, "base", [name |-> "", group |-> <<"a">>])
                EXCEPT !.registrator = TRUE],
             [Demand(3, "derived", Pub(<<"a", "b", "c">>)) EXCEPT !.invert = TRUE]}
       [] c = "sub2" ->
            {[Demand(1, "base", Pub(<<"a">>)) EXCEPT !.nearest = TRUE]}
       [] OTHER -> {}]
MCKinships == {{"sub"}, {"far"}, {"near"}, {"near", "sub2"}}
=============================================================================
