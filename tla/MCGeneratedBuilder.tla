------------------------- MODULE MCGeneratedBuilder -------------------------
(***************************************************************************)
(* An outer builder and one for its sub message, as Config and             *)
(* Config_Fallback of validation.md: `name` is a field of the outer        *)
(* message, `address` one of the sub message with a predicate. The value   *)
(* `bad` fails Validate, `odd` fails the predicate only.                   *)
(***************************************************************************)
EXTENDS GeneratedBuilder, TLC

CONSTANTS outer, inner, name, address, good, bad, odd

MCFields == outer :> {name, address} @@ inner :> {address}

\* With and without each of the status, build and validator machineries.
MCOption == {{}, {"use_status"}, {"use_build"}, {"use_validator"},
             {"use_status", "use_validator"}}
=============================================================================
