----------------------------- MODULE MCGateway ------------------------------
(***************************************************************************)
(* An instance of Gateway for TLC.                                         *)
(***************************************************************************)
EXTENDS Gateway

\* An unknown operation and the document beside the operations.
MCApiPaths == {"/nope", "/openapi.yaml"}
MCSitePaths == (DOMAIN SiteRoutes \ {"spec"}) \cup {"page"}
MCMethods == {"GET", "POST", "PUT", "PATCH", "DELETE", "HEAD"}

MCHuge == 9
MCDelayArgs == {-1, 0, 1, 3, 4, MCHuge}
MCStatusArgs == {99, 100, 101, 200, 204, 304, 503, 599, 600}
=============================================================================
