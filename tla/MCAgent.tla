-------------------------------- MODULE MCAgent --------------------------------
(* A small instance of Agent. *)
EXTENDS Agent

(* Each tool but write_file, which Asked adds, and each form of arguments     *)
(* with a tool for which it makes a difference.                               *)
MCAsks == {<<"none", "other">>, <<"search", "garbled">>, <<"read", "object">>, <<"read", "other">>,
           <<"search", "object">>, <<"run", "object">>, <<"tests", "other">>}
=============================================================================
