--------------------------- MODULE MCPodLifecycle ---------------------------
(***************************************************************************)
(* Instances of PodLifecycle for TLC.                                      *)
(***************************************************************************)
EXTENDS PodLifecycle

MCLevels == {"low", "high"}
MCThreeLevels == {"low", "mid", "high"}

\* Either the cooldown or the window is the longer one.
MCCooldown == [p \in Policies |-> IF p = "calm" THEN 2 ELSE 1]
MCWindow == [p \in Policies |-> IF p = "calm" THEN 1 ELSE 2]

=============================================================================
