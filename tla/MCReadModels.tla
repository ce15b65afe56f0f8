---------------------------- MODULE MCReadModels ----------------------------
(***************************************************************************)
(* Instances of ReadModels for TLC.                                        *)
(***************************************************************************)
EXTENDS ReadModels

CONSTANTS o1, o2, b1

AllModes == [durable : BOOLEAN, broker : BOOLEAN]

FullMode == [durable : {TRUE}, broker : {TRUE}]
=============================================================================
