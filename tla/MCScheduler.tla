---------------------------- MODULE MCScheduler -----------------------------
(***************************************************************************)
(* The bounded instances of Scheduler: a minute has six ticks of ten       *)
(* seconds.                                                                *)
(***************************************************************************)
EXTENDS Scheduler

Rule(m, p, t) == [minute |-> m, preset |-> p, target |-> t]

Lengths == [p \in {"evening", "morning"} |-> IF p = "evening" THEN 2 ELSE 1]

(***************************************************************************)
(* Two presets in one minute, one of them again in the next, a rule whose  *)
(* target and one whose preset is unknown, two rules that say the same and *)
(* one whose target may not answer at all.                                 *)
(***************************************************************************)
DayRules == << Rule(0, "evening", "simulator"), Rule(1, "evening", "simulator"),
               Rule(1, "morning", "samsung"), Rule(1, "evening", "simulator"),
               Rule(2, "morning", "typo"), Rule(2, "forgotten", "simulator") >>

=============================================================================
