------------------------------- MODULE MCServer -------------------------------
(***************************************************************************)
(* Server with a playing service that is restarted, in both data modes,    *)
(* and one call of close() besides serve_forever's own.                    *)
(***************************************************************************)
EXTENDS Server
=============================================================================
