----------------------------- MODULE MCRateLimit -----------------------------
(***************************************************************************)
(* One message group with a message that does not parse ahead of one for a *)
(* configured region, and another with one for a region without a client.  *)
(***************************************************************************)
EXTENDS RateLimit, TLC

CONSTANTS good, stray, bad, east, west

MCMessages == {good, stray, bad}
MCMalformed == {bad}
MCRegions == {east, west}
MCRegionOf == good :> east @@ stray :> west @@ bad :> east
MCGroupOf == good :> "assume-role" @@ bad :> "assume-role" @@ stray :> "web-identity"
MCArrival == bad :> 1 @@ good :> 2 @@ stray :> 3
MCConfigured == {east}
=============================================================================
