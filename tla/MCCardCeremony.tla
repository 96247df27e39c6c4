---------------------------- MODULE MCCardCeremony ----------------------------
(***************************************************************************)
(* Four seats and four cards for TLC.                                      *)
(***************************************************************************)
EXTENDS CardCeremony

FourSeats == {<<"civilian", "don", "sheriff", "civilian">>}
=============================================================================
