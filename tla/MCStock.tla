------------------------------ MODULE MCStock ------------------------------
(***************************************************************************)
(* Stock for TLC.                                                          *)
(***************************************************************************)
EXTENDS Stock

\* Two tables, the second with a shorter text and so a shorter dump.
LongThenShort == <<<<"a1", "a2">>, <<"b1">>>>
=============================================================================
