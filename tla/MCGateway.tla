------------------------------ MODULE MCGateway ------------------------------
(***************************************************************************)
(* Two configurations.  The first one has nested prefixes and two equally  *)
(* long ones; the second one has a root, and base paths, one of them "/".  *)
(***************************************************************************)
EXTENDS Gateway

API == <<"/", "api">>
V1 == <<"/", "api", "/", "v1">>
WEB == <<"/", "web">>
SVC == <<"/", "svc">>

MCConfigurations ==
  {[p \in {API, V1, WEB} |-> <<>>],
   [p \in {Root, API, V1} |-> CASE p = V1 -> SVC [] p = API -> Root [] OTHER -> <<>>]}

MCPaths ==
  {Root, API, V1, API \o Root, V1 \o WEB, API \o API, API \o <<"ary">>, WEB, HEALTH}
=============================================================================
