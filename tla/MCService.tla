----------------------------- MODULE MCService ------------------------------
(***************************************************************************)
(* Small instances of Service: two or three files on the command line, one *)
(* of them named twice, a wait of two ticks and a clock that wraps.        *)
(***************************************************************************)
EXTENDS Service

MCThreeFiles == <<"a", "b", "a">>
MCTwoFiles   == <<"a", "b">>
=============================================================================
