-------------------------- MODULE MemoryParameters --------------------------
(* The thresholds of pkg/memcontrol/controller.go, from the configuration. *)
(* Nothing orders them.                                                    *)
EXTENDS Integers

CONSTANTS MaxUsage,         \* bound: the largest use that is told apart
          WarningAt, CriticalAt, EmergencyAt,   \* where each level begins
          GCTriggerAt,      \* a collection at the level Warning needs this use
          GCInterval        \* ticks between two of those (5 s)

ASSUME UsageAssumption ==
  /\ MaxUsage \in Nat /\ WarningAt \in Nat /\ CriticalAt \in Nat
  /\ EmergencyAt \in Nat /\ GCTriggerAt \in Nat
ASSUME GCIntervalAssumption == GCInterval \in Nat
=============================================================================
