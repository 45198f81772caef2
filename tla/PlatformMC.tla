----------------------------- MODULE PlatformMC -----------------------------
(***************************************************************************)
(* Platform with its clocks and periods scaled down: LWipTime of 32 values *)
(* that advances by 3, so that it wraps to a different remainder each      *)
(* time, with a short, a long and a middle period.                         *)
(***************************************************************************)
EXTENDS Platform

MCPeriod == <<6, 15, 12>>

MCInterval == [h \in {"reass", "arp", "tcp"} |->
                 CASE h = "reass" -> 2 [] h = "arp" -> 5 [] h = "tcp" -> 1]
=============================================================================
