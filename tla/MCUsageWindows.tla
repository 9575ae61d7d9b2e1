-------------------------- MODULE MCUsageWindows ---------------------------
(***************************************************************************)
(* Two tools and room for one row; two days of two ticks to a month, and    *)
(* time for a month and the first day of the next.                          *)
(***************************************************************************)
EXTENDS UsageWindows

CONSTANTS search, mail

MCTools == {search, mail}
=============================================================================
