------------------------- MODULE CollectorContract -------------------------
(***************************************************************************)
(* What a collector promises Gather, which runs it once for each request    *)
(* and waits for it: a Collect sends samples only until it returns, never   *)
(* takes one back, lasts no longer than the context it creates, and always  *)
(* returns.  The collectors' modules implement this one; Exporter relies on *)
(* nothing else about them.                                                 *)
(***************************************************************************)
EXTENDS Integers

CONSTANT Timeout  \* Cfg.Timeout, the time each collector's context lasts

VARIABLES
  phase,  \* "idle" | "busy"
  now,    \* time since Collect was called, 0 between two calls
  sent    \* the samples sent by the current call, or by the last

vars == <<phase, now, sent>>

Init == phase = "idle" /\ now = 0 /\ sent = {}

Begin ==
  /\ phase = "idle" /\ phase' = "busy"
  /\ now' = 0 /\ sent' = {}

(* Time passes only as long as the context lasts. *)
Wait ==
  /\ phase = "busy" /\ now < Timeout /\ now' = now + 1
  /\ UNCHANGED <<phase, sent>>

Send ==
  /\ phase = "busy" /\ sent \subseteq sent'
  /\ UNCHANGED <<phase, now>>

(* The last samples may be sent on the way out. *)
Return ==
  /\ phase = "busy" /\ phase' = "idle"
  /\ now' = 0 /\ sent \subseteq sent'

Next == Begin \/ Wait \/ Send \/ Return

Spec == Init /\ [][Next]_vars

(* Every call of Collect comes to its end. *)
Returns == phase = "busy" ~> phase = "idle"

FairSpec == Spec /\ Returns
=============================================================================
