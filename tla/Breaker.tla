------------------------------- MODULE Breaker -------------------------------
(***************************************************************************)
(* The per-target circuit breaker of internal/router/breaker.go, as        *)
(* operators on one breaker state.  Every method of Breakers takes the     *)
(* registry's mutex for its whole body, so a method is one atomic          *)
(* state-to-state function; the modules that call it apply it in one step. *)
(* Time is a natural number and 0 is Go's zero time.Time ("never opened"). *)
(***************************************************************************)
EXTENDS Naturals

CONSTANTS Threshold,  \* failures that trip a closed breaker (breakers.threshold)
          Cooldown    \* how long a trip keeps it open (breakers.cooldown)

ASSUME BreakerAssumption ==
  /\ Threshold \in Nat \ {0}
  /\ Cooldown \in Nat \ {0}

BreakerState == [failures : Nat, openUntil : Nat, probing : BOOLEAN]

\* The zero breakerState, which get() installs and Success restores.
ClosedBreaker == [failures |-> 0, openUntil |-> 0, probing |-> FALSE]

\* Breakers.open: tripped, and not yet (or no longer) eligible for a probe.
IsOpen(s, now) == s.openUntil # 0 /\ (now < s.openUntil \/ s.probing)

\* Breakers.Allow: the answer, and whether the caller is let in as the probe of
\* a half-open breaker.
Allows(s, now) == s.openUntil = 0 \/ ~(now < s.openUntil \/ s.probing)

AdmitsProbe(s, now) == s.openUntil # 0 /\ ~(now < s.openUntil \/ s.probing)

\* Mutant of AfterAllow: the end of the cooldown closes the breaker.
AfterAllowCloses(s, now) == IF AdmitsProbe(s, now) THEN ClosedBreaker ELSE s

\* Breakers.Allow: the state it leaves behind.
AfterAllow(s, now) ==
  IF AdmitsProbe(s, now) THEN [s EXCEPT !.probing = TRUE] ELSE s

\* Mutant of AfterFailure: one failure more than Threshold is needed.
AfterFailureLate(s, now) ==
  LET failures == s.failures + 1
  IN  IF s.probing \/ failures > Threshold
      THEN [failures |-> failures, openUntil |-> now + Cooldown, probing |-> FALSE]
      ELSE [s EXCEPT !.failures = failures]

\* Breakers.Failure.
AfterFailure(s, now) ==
  LET failures == s.failures + 1
  IN  IF s.probing \/ failures >= Threshold
      THEN [failures |-> failures, openUntil |-> now + Cooldown, probing |-> FALSE]
      ELSE [s EXCEPT !.failures = failures]

\* Mutant of AfterOpenFor: Retry-Afters add up.
AfterOpenForSummed(s, now, d) ==
  IF d > 0 THEN [s EXCEPT !.openUntil = (IF @ > now THEN @ ELSE now) + d, !.probing = FALSE]
  ELSE s

\* Breakers.OpenFor.
AfterOpenFor(s, now, d) ==
  IF d > 0 /\ now + d > s.openUntil
  THEN [failures |-> s.failures, openUntil |-> now + d, probing |-> FALSE]
  ELSE s

=============================================================================
