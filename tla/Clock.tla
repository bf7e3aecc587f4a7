------------------------------- MODULE Clock -------------------------------
(***************************************************************************)
(* The time the modules of packages/shared are handed by their callers     *)
(* (the parameters now, votedAt, occurredAt ...): it never goes back.      *)
(***************************************************************************)
EXTENDS Naturals

CONSTANT LastTime   (* bound: the clock *)

ASSUME ClockConstants == LastTime \in Nat

VARIABLE now

Tick == now < LastTime /\ now' = now + 1

=============================================================================
