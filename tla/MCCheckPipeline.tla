--------------------------- MODULE MCCheckPipeline ---------------------------
(* Small instances of CheckPipeline: a plain config, one that lists user     *)
(* agents, and two routes.                                                   *)
EXTENDS CheckPipeline, TLC

CONSTANTS c1, c2, headers, ipSecurity, userAgent, rateLimit, plain, listed,
          r1, r2

\* The order of the specs in buildChecks.
MCBefore == (headers :> {}) @@ (ipSecurity :> {headers})
            @@ (userAgent :> {headers, ipSecurity})
            @@ (rateLimit :> {headers, ipSecurity, userAgent})
MCAppliesOne == (plain :> {ipSecurity})
MCSizeOfOne  == (plain :> 0)
MCAppliesLists == (plain :> {ipSecurity}) @@ (listed :> {ipSecurity, userAgent})
MCSizeOfLists  == (plain :> 0) @@ (listed :> 1)
MCRouteApplies == (r1 :> {headers})
MCRouteAppliesTwo == (r1 :> {headers}) @@ (r2 :> {userAgent})
MCNoRoutes     == <<>>
=============================================================================
