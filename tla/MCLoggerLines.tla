---------------------------- MODULE MCLoggerLines ----------------------------
(***************************************************************************)
(* Two workers of the resource-quota function: one calculates NAUs and     *)
(* logs the total of a VPC, the job of the other fails.                    *)
(***************************************************************************)
EXTENDS LoggerLines, TLC

CONSTANTS nau, failing

MCGoroutines == {nau, failing}
MCCalls == (nau :> <<DEBUG, INFO>>) @@ (failing :> <<ERROR>>)
MCInitCalls == <<INFO, DEBUG>>
=============================================================================
