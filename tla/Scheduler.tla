----------------------------- MODULE Scheduler ------------------------------
(***************************************************************************)
(* The scheduler that applies presets at times of day                      *)
(* (test_simulator/scheduler.py: run_scheduler, run_due_rules,             *)
(* apply_preset, send_button_with_retry).                                  *)
(*                                                                         *)
(* One process wakes every CheckInterval, goes through the rules that are  *)
(* due in the minute it woke in, and sends the buttons of their presets    *)
(* one after the other.  Time passes while it sleeps and while it sends: a *)
(* send takes what the adapter takes and the delay of the button.  An      *)
(* adapter that sets no timeout (samsung_tv.py:69 and 83, lg_tv.py:63 and  *)
(* 77, cec_adapter.py:84-86) may not come back from a send at all.  What   *)
(* else the process does takes less than a tick.                           *)
(***************************************************************************)
EXTENDS Integers, Sequences

CONSTANTS Rules,            (* time_rules with an apply_preset action, the  *)
                            (* time as a minute: a sequence of records      *)
          PresetLength,     (* the buttons of each preset                   *)
          Targets,          (* the targets get_adapter knows                *)
          Untimed,          (* those whose adapter sets no timeout          *)
          TicksPerMinute,   (* the resolution of the clock                  *)
          CheckInterval,    (* check_interval_sec in ticks                  *)
          MaxSendTicks,     (* the longest a send takes that ends           *)
          MaxClock          (* bounds the time                              *)

TimeRule == [minute : Nat, preset : STRING, target : STRING]

ASSUME SchedulerAssumption ==
  /\ Rules \in Seq(TimeRule)
  /\ Untimed \subseteq Targets
  /\ PresetLength \in [DOMAIN PresetLength -> Nat]
  /\ TicksPerMinute \in Nat \ {0}
  /\ CheckInterval \in Nat \ {0}
  /\ 2 * CheckInterval <= TicksPerMinute      \* MAX_CHECK_INTERVAL_SEC = 30
  /\ MaxSendTicks \in Nat
  /\ MaxClock \in Nat

Preset == DOMAIN PresetLength
Minute(t) == t \div TicksPerMinute
Key(r) == <<r.minute, r.preset>>
Keys == { Key(Rules[i]) : i \in DOMAIN Rules }

(***************************************************************************)
(* SEND_RETRIES.                                                           *)
(***************************************************************************)
SendRetries == 2

VARIABLES
  clock,          (* the time in ticks                                      *)
  pc,             (* where the loop is                                      *)
  now,            (* the minute of the pass                                 *)
  began,          (* when the pass began                                    *)
  rule,           (* the rule the pass is at                                *)
  left,           (* the buttons of the preset still to send                *)
  attempt,        (* the attempts for the button so far                     *)
  lastTriggered,  (* last_triggered                                         *)
  stopping,       (* shutdown_requested                                     *)
  started,        (* history: how often each preset was started in a minute *)
  overran         (* history: whether a pass left no time for the sleep     *)

vars == <<clock, pc, now, began, rule, left, attempt, lastTriggered, stopping,
          started, overran>>
history == <<started, overran>>

Init ==
  /\ clock \in 0..TicksPerMinute-1
  /\ pc = "wake"
  /\ now = 0
  /\ began = clock
  /\ rule = 1
  /\ left = 0
  /\ attempt = 0
  /\ lastTriggered = {}
  /\ stopping = FALSE
  /\ started = [k \in Keys |-> 0]
  /\ overran = FALSE

-----------------------------------------------------------------------------
(***************************************************************************)
(* The head of the loop, and the first line of run_due_rules.              *)
(***************************************************************************)
Wake ==
  /\ pc = "wake"
  /\ ~stopping
  /\ clock <= MaxClock
  /\ pc' = "rule"
  /\ now' = Minute(clock)
  /\ began' = clock
  /\ rule' = 1
  /\ UNCHANGED <<clock, left, attempt, lastTriggered, stopping, history>>

Stop ==
  /\ pc = "wake"
  /\ stopping
  /\ pc' = "done"
  /\ UNCHANGED <<clock, now, began, rule, left, attempt, lastTriggered, stopping, history>>

Due(r) == r.minute = now /\ Key(r) \notin lastTriggered

(***************************************************************************)
(* An unknown target raises, an unknown preset has no buttons: either way  *)
(* the next rule follows.                                                  *)
(***************************************************************************)
ToSend(r) == IF r.target \in Targets /\ r.preset \in Preset THEN PresetLength[r.preset] ELSE 0

SkipRule ==
  /\ pc = "rule"
  /\ rule \in DOMAIN Rules
  /\ ~Due(Rules[rule])
  /\ rule' = rule + 1
  /\ UNCHANGED <<clock, pc, now, began, left, attempt, lastTriggered, stopping, history>>

Trigger ==
  /\ pc = "rule"
  /\ rule \in DOMAIN Rules
  /\ LET r == Rules[rule]
     IN  /\ Due(r)
         /\ lastTriggered' = lastTriggered \cup {Key(r)}
         /\ started' = [started EXCEPT ![Key(r)] = @ + 1]
         /\ left' = ToSend(r)
  /\ attempt' = 0
  /\ pc' = IF left' = 0 THEN "rule" ELSE "send"
  /\ rule' = IF left' = 0 THEN rule + 1 ELSE rule
  /\ UNCHANGED <<clock, now, began, stopping, overran>>

Settled(sent) == sent \/ attempt = SendRetries - 1

(***************************************************************************)
(* One attempt of send_button_with_retry, which takes `d` ticks.  A button *)
(* is given up after the last attempt; the others follow all the same.     *)
(***************************************************************************)
(* Mutant: the attempts are not counted. *)
SendForever(d, sent) ==
  /\ pc = "send"
  /\ clock <= MaxClock
  /\ clock' = clock + d
  /\ IF sent
     THEN /\ left' = left - 1
          /\ attempt' = 0
          /\ pc' = IF left = 1 THEN "rule" ELSE "send"
          /\ rule' = IF left = 1 THEN rule + 1 ELSE rule
     ELSE UNCHANGED <<left, attempt, pc, rule>>
  /\ UNCHANGED <<now, began, lastTriggered, stopping, history>>

Send(d, sent) ==
  /\ pc = "send"
  /\ clock' = clock + d
  /\ left' = IF Settled(sent) THEN left - 1 ELSE left
  /\ attempt' = IF Settled(sent) THEN 0 ELSE attempt + 1
  /\ pc' = IF left' = 0 THEN "rule" ELSE "send"
  /\ rule' = IF left' = 0 THEN rule + 1 ELSE rule
  /\ UNCHANGED <<now, began, lastTriggered, stopping, history>>

(***************************************************************************)
(* A send to a target whose adapter sets no timeout, and that never ends.  *)
(***************************************************************************)
Hang ==
  /\ pc = "send"
  /\ Rules[rule].target \in Untimed
  /\ pc' = "hung"
  /\ UNCHANGED <<clock, now, began, rule, left, attempt, lastTriggered, stopping, history>>

(***************************************************************************)
(* The end of a pass forgets the entries of other minutes.                 *)
(***************************************************************************)
(* Mutant: it forgets all of them. *)
ForgetAll == {}

Remembered == { k \in lastTriggered : k[1] = now }

EndPass ==
  /\ pc = "rule"
  /\ rule \notin DOMAIN Rules
  /\ pc' = "sleep"
  /\ lastTriggered' = Remembered
  /\ overran' = (overran \/ clock - began + CheckInterval >= TicksPerMinute)
  /\ UNCHANGED <<clock, now, began, rule, left, attempt, stopping, started>>

(* Mutant: check_interval_sec is taken as it is configured. *)
SleepLong ==
  /\ pc = "sleep"
  /\ pc' = "wake"
  /\ clock' = clock + 3 * CheckInterval
  /\ UNCHANGED <<now, began, rule, left, attempt, lastTriggered, stopping, history>>

Sleep ==
  /\ pc = "sleep"
  /\ pc' = "wake"
  /\ clock' = clock + CheckInterval
  /\ UNCHANGED <<now, began, rule, left, attempt, lastTriggered, stopping, history>>

(***************************************************************************)
(* SIGTERM or SIGINT.                                                      *)
(***************************************************************************)
Signal ==
  /\ ~stopping
  /\ stopping' = TRUE
  /\ UNCHANGED <<clock, pc, now, began, rule, left, attempt, lastTriggered, history>>

Sends == \E d \in 0..MaxSendTicks, sent \in BOOLEAN : Send(d, sent)
Step == Wake \/ Stop \/ SkipRule \/ Trigger \/ Sends \/ EndPass \/ Sleep

Next == Step \/ Hang \/ Signal

(***************************************************************************)
(* The process runs, and a send that does not hang ends.                   *)
(***************************************************************************)
Spec == Init /\ [][Next]_vars /\ WF_vars(Step)

-----------------------------------------------------------------------------
TypeInv ==
  /\ clock \in Nat
  /\ pc \in {"wake", "rule", "send", "hung", "sleep", "done"}
  /\ now \in Nat
  /\ began \in Nat /\ began <= clock
  /\ rule \in 1..Len(Rules)+1
  /\ left \in Nat /\ (pc = "send" => left > 0 /\ rule \in DOMAIN Rules)
  /\ attempt \in 0..SendRetries-1
  /\ lastTriggered \subseteq Keys
  /\ stopping \in BOOLEAN
  /\ started \in [Keys -> Nat]
  /\ overran \in BOOLEAN

(***************************************************************************)
(* A preset is started at most once in a minute, over all the passes that  *)
(* fall into it and although each pass forgets what it may.                *)
(***************************************************************************)
OncePerMinute == \A k \in Keys : started[k] <= 1

(***************************************************************************)
(* No minute is skipped: while a pass and the sleep after it take less     *)
(* than a minute, every rule whose minute has gone by had its preset started,     *)
(* wherever in the minute the scheduler began.                             *)
(***************************************************************************)
MissedOnlyIfSlow ==
  ~overran => \A i \in DOMAIN Rules : Rules[i].minute < now => started[Key(Rules[i])] > 0

(***************************************************************************)
(* A signal stops the scheduler, however many sends fail and wherever in a *)
(* pass it comes.  Only a send that never ends keeps it: the flag is read  *)
(* between two passes and nowhere else, so that a hanging adapter leaves   *)
(* the process running, whatever the signal.                               *)
(***************************************************************************)
StopsWhenAsked == stopping ~> pc \in {"done", "hung"}

=============================================================================
