----------------------------- MODULE MCAddresses -----------------------------
(* The texts TLC types: every arrangement of a few sections and separators.   *)
EXTENDS Addresses

Quad == <<1, Dot, 2, Dot, 3, Dot, 4>>
Ffff == <<15, 15, 15, 15>>

MCClasses == {"address_v4", "address_v6", "port", "socket_v4_info", "socket_v6_info"}

MCOddTokens ==
    [k \in MCClasses |->
        CASE k = "address_v6" -> {<<Colon, Colon>>, Quad, <<15, 15, 15, 15, 15>>, <<Colon, Colon, Colon>>}
          [] OTHER -> {<<Other>>, <<0, 1>>}]

MCTokens ==
    [k \in MCClasses |-> MCOddTokens[k] \cup
        CASE k = "address_v4" -> {<<Dot>>, <<0>>, <<7>>, <<2, 5, 5>>, <<2, 5, 6>>}
          [] k = "address_v6" -> {<<Colon>>, <<0>>, Ffff}
          [] k = "port" -> {<<0>>, <<8, 0>>, <<6, 5, 5, 3, 5>>, <<6, 5, 5, 3, 6>>}
          [] k = "socket_v4_info" -> {Quad, <<Colon>>, <<Slash>>, <<8, 0>>, <<6, 5, 5, 3, 5>>}
          [] k = "socket_v6_info" ->
               {<<Open>>, <<Close>>, <<Colon>>, <<Slash>>, <<Hash>>, <<Colon, Colon, 1>>,
                <<Colon, Colon>> \o Quad, <<8, 0>>, <<6, 5, 5, 3, 5>>}]

\* Nine groups and the colons between them when no token is odd.
MCMaxTokens ==
    [k \in MCClasses |->
        CASE k = "address_v6" -> <<17, 16, 11>>
          [] k = "address_v4" -> <<9, 7>>
          [] OTHER -> <<5, 5>>]

Letters == {"r", "f", "z", "m", "n", "u"}
MCSpecs == {<< >>} \cup [1 .. 1 -> Letters] \cup [1 .. 2 -> Letters]
           \cup {<<"f", "z", "m">>, <<"r", "n", "u">>}
=============================================================================
