------------------------------- MODULE Backoff -------------------------------
(***************************************************************************)
(* Backoff of br-util-nats-fabric (consumer/backoff.rs), the schedule the  *)
(* managed consumer and both supervised watches sleep by.  A delay is a    *)
(* number; saturating_mul is out of reach below the cap.                   *)
(***************************************************************************)
EXTENDS Naturals

CONSTANTS
  InitialDelay,  \* Backoff's INITIAL
  CapDelay       \* Backoff's CAP

ASSUME DelayAssumption == InitialDelay \in Nat /\ CapDelay \in Nat

\* Backoff::next_delay, the delay it leaves for the next sleep.
NextDelay(d) == IF 2 * d > CapDelay THEN CapDelay ELSE 2 * d

\* What the schedule promises (the test of backoff.rs): doubled n times, up to the cap.
Doubled[n \in Nat] == IF n = 0 THEN InitialDelay ELSE 2 * Doubled[n - 1]
KeepsPace(d, n) == d = CapDelay \/ d >= Doubled[n]
=============================================================================
