----------------------------- MODULE MCExporter -----------------------------
(***************************************************************************)
(* Three collectors, one switched off, one with an ambiguous address list;  *)
(* room for one request more than can be in flight.                         *)
(***************************************************************************)
EXTENDS Exporter

CONSTANTS validators, base, bnb, r1, r2, r3

MCCollectors == {validators, base, bnb}
MCEnabled    == {validators, base}
MCAmbiguous  == {base}
MCRequests   == {r1, r2, r3}
=============================================================================
