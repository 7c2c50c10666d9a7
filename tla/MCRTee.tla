------------------------------- MODULE MCRTee -------------------------------
(* A command that writes up to two pipes full.                              *)
EXTENDS RTee

SomeCodes == {0, 3, 256}
=============================================================================
