----------------------------- MODULE MCPlugin -----------------------------
(* The restart of a server with transfers in progress, on small instances. *)
EXTENDS Plugin
=============================================================================
