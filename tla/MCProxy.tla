------------------------------ MODULE MCProxy -------------------------------
(***************************************************************************)
(* An instance of Proxy for TLC: two clients, one of which may write the   *)
(* other's or a proxy's address into the headers it sends.                 *)
(***************************************************************************)
EXTENDS Proxy

MCClients == {"c1", "c2"}
MCProxies == {"p1", "p2"}
MCXFF ==
    {<<>>, << <<Addr("c2")>> >>, << <<Addr("c2"), Addr("p1")>> >>,
     << <<Addr("c2")>>, <<Garbage>> >>, << <<Addr("c2"), Blank>> >>}
MCProto == {<<>>, << <<"https">> >>, << <<"", "http">> >>, << <<"ftp">> >>}
=============================================================================
