--------------------------- MODULE MCRealtimeEdge ---------------------------
\* Three clients and two rooms; the third client is authorised for a resource that
\* leads to another room, and everyone's headers claim the room of someone else.
EXTENDS RealtimeEdge, TLC

MCClients == {"a", "b", "c"}
MCRooms == {"r1", "r2"}
MCIdentities == {"ann", "bob"}
MCResources == {"x", "y"}
At2(room, identity) == [room |-> room, identity |-> identity]
MCAuthorized == (<<"a", "x">> :> At2("r1", "ann")) @@ (<<"b", "x">> :> At2("r1", "bob"))
             @@ (<<"c", "x">> :> At2("r1", "ann")) @@ (<<"c", "y">> :> At2("r2", "ann"))
MCClaims == ("a" :> At2("r2", "bob")) @@ ("b" :> At2("r2", "ann")) @@ ("c" :> At2("r1", "bob"))
MCMaxMessages == ("a" :> 2) @@ ("b" :> 1) @@ ("c" :> 0)

Do(kind) == [kind |-> kind, to |-> ""]
MCActions == {<<>>,
              <<[kind |-> "direct", to |-> "a"], Do("broadcast")>>,
              <<Do("disconnect"), Do("broadcast_except_sender")>>,
              <<Do("broadcast_except_sender"), Do("bad_disconnect"), Do("broadcast")>>}
=============================================================================
