---------------------------- MODULE MqttRecovery ----------------------------
(***************************************************************************)
(* The recovery file of the operational MQTT connection                    *)
(* (runtime/operational_mqtt_recovery_store.py): how many restarts of the  *)
(* backend were requested since the trouble began.  Its methods load,      *)
(* change and save the file, so each is an operator on its content.        *)
(***************************************************************************)
EXTENDS Naturals

CONSTANT MaxAttempts     \* operational_mqtt_restart_max_attempts (3 by default)

ASSUME RecoveryAssumption == MaxAttempts \in Nat \ {0}

\* What snapshot() returns; a restart is counted up to the limit only.
Recoveries == [active : BOOLEAN, attempts : 0..MaxAttempts, exhausted : BOOLEAN]

\* _default_state, which is also what is read once clear() deleted the file
NoTrouble == [active |-> FALSE, attempts |-> 0, exhausted |-> FALSE]

NoteUnhealthy(r) == [r EXCEPT !.active = TRUE, !.exhausted = FALSE]

RecordRestart(r) ==
  LET counted == IF r.attempts < MaxAttempts THEN r.attempts + 1 ELSE MaxAttempts
  IN  [NoteUnhealthy(r) EXCEPT !.attempts = counted,
                               !.exhausted = counted >= MaxAttempts]

\* Fault: exhaustion is one attempt more.
MarkExhausted_CountsOn(r) == [NoteUnhealthy(r) EXCEPT !.attempts = @ + 1,
                                                      !.exhausted = TRUE]

MarkExhausted(r) == [NoteUnhealthy(r) EXCEPT !.attempts = MaxAttempts,
                                             !.exhausted = TRUE]
=============================================================================
