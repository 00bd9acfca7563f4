------------------------------ MODULE MCLogSetup ------------------------------
(***************************************************************************)
(* A function and the extension of its environment, and two regions.  Only *)
(* the function sees the name of the environment's log stream.             *)
(***************************************************************************)
EXTENDS LogSetup

CONSTANTS function, extension, east, west

MCProcs == {function, extension}
MCExtensions == {extension}
MCHasEnv == {function}
MCRegionList == <<east, west>>
=============================================================================
