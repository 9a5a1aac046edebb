----------------------------- MODULE MCSchedule -----------------------------
(* Schedule for TLC: three talks, two of which overlap.                       *)
EXTENDS Schedule, TLC

MCStart == "t1" :> 0 @@ "t2" :> 1 @@ "t3" :> 3
MCEnd == "t1" :> 2 @@ "t2" :> 3 @@ "t3" :> 4
=============================================================================
