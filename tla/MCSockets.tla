------------------------------ MODULE MCSockets ------------------------------
(* A server's address and two for its clients; in the unix domain a path that *)
(* fills the structure and one that does not.                                  *)
EXTENDS Sockets

MCNames == IF Domain = "ipv4" THEN {<<"a">>, <<"b">>, <<"c">>} ELSE {<<"a">>, <<"a", "b", "c">>}
MCBound == IF Domain = "ipv4" THEN {<<"a">>} ELSE MCNames
MCPrograms == {{"accept"}, {"multishot"}, {"names"}, {"options"}}
MCOptionValues == IF OptionKind = "string" THEN {"", "eth0"} ELSE {TRUE, FALSE}
=============================================================================
