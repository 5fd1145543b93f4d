---------------------------- MODULE MCRouteHistory ----------------------------
(* Three places, two of them 25 m apart, and an edit of the configuration that  *)
(* drops a zone.                                                                *)
EXTENDS RouteHistory, TLC

MCDestinations == {0, 4, 5}
MCClosest == {<<"home", 0>>, <<"home", 4>>, <<"home", 5>>, <<"work", 5>>}
MCConfigs == {"home" :> "h1" @@ "work" :> "w1", "work" :> "w1"}
MCOutOfRange == {<<"w1", 5>>}
MCPauseAfter == 1 :> 1
===============================================================================
