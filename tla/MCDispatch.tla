---------------------------- MODULE MCDispatch ----------------------------
(* A scan under three rules: two of the first pass, of different priority,  *)
(* that share a module, and one of the second, which ends with the          *)
(* DISPOSITIONER.                                                           *)
EXTENDS Dispatch, TLC

CONSTANTS early, after, last, explode, meta, disp, missing

MCModules == {explode, meta, disp, missing}
MCExploders == {explode}
MCBroken == {missing}
MCFirstRules == {early, after}
MCSecondRules == {last}
MCScanModules ==
  (early :> <<explode, meta>>) @@ (after :> <<missing, meta>>) @@ (last :> <<explode, disp>>)
MCPriority == (early :> 1) @@ (after :> 2) @@ (last :> 10)
MCRuleFlags == (early :> {}) @@ (after :> {"rule"}) @@ (last :> {})
MCParentFlags == (early :> {"inner"}) @@ (after :> {}) @@ (last :> {})
MCRequests == {<<>>, <<explode>>}
===========================================================================
