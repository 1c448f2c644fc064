------------------------------- MODULE MCRepl -------------------------------
(***************************************************************************)
(* Values for the constants of Repl that a configuration cannot write.     *)
(***************************************************************************)
EXTENDS Repl

BuiltinCalls == [builtin : {TRUE}, final : BOOLEAN]
AnyCalls == Call
ContinuingCalls == [builtin : BOOLEAN, final : {FALSE}]
=============================================================================
