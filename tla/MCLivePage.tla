----------------------------- MODULE MCLivePage -----------------------------
(* One monitor with two probes at a time, whose events overtake a channel   *)
(* of one; two requests.                                                    *)
EXTENDS LivePage
MCSlots == 1..2
=============================================================================
