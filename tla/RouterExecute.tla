---------------------------- MODULE RouterExecute ----------------------------
(***************************************************************************)
(* Concurrent requests of one replica running router.Execute over the      *)
(* shared circuit breakers (internal/router/execute.go, breaker.go and     *)
(* Router.Order in route.go).                                              *)
(*                                                                         *)
(* A request orders its base plan by breaker and health state, then walks  *)
(* it: it asks the breaker of each target for admission, calls the         *)
(* provider up to MaxAttempts times with a jittered sleep in between, and  *)
(* reports what happened back to the breaker.  Each breaker method is one  *)
(* critical section, so everything between two of them can interleave with *)
(* the other requests, with the clock and with the end of the request's    *)
(* context.                                                                *)
(***************************************************************************)
EXTENDS Breaker, Sequences

CONSTANTS Requests,     \* concurrent calls of Execute
          Targets,      \* upstream provider/model pairs
          Plans,        \* base plans Router.Plan hands to Order: sequences of targets
          MaxAttempts,  \* max(rp.MaxAttempts, 1)
          RetryAfters,  \* Retry-After delays a provider error may carry; 0 is none
          MaxTime       \* bound on the clock

ASSUME ExecuteAssumption ==
  /\ Plans \subseteq Seq(Targets)
  /\ \A p \in Plans : p # << >>
  /\ MaxAttempts \in Nat \ {0}
  /\ RetryAfters \subseteq Nat
  /\ 0 \in RetryAfters
  /\ MaxTime \in Nat

VARIABLES now,       \* wall clock of the replica
          breaker,   \* Breakers.m
          pc,        \* where each request is in Execute
          base,      \* the targets Order still has to classify
          tiers,     \* the three tiers Order is filling
          plan,      \* the ordered plan
          ti,        \* index of the current target in the plan
          n,         \* retries already made on the current target
          attempts,  \* res.Attempts
          ctxDone,   \* the request's context has expired or was cancelled
          lastErr,   \* the kind of the last failed attempt's error
          result     \* what Execute returned

breakerVars == <<now, breaker>>
planVars    == <<base, tiers, plan>>
loopVars    == <<ti, n, attempts>>
errVars     == <<lastErr, result>>
vars == <<breakerVars, pc, planVars, loopVars, ctxDone, errVars>>

----------------------------------------------------------------------------
\* What an attempt can fail with, as classify tells errors apart: a 429; a 401 or
\* 403; "retryable", a retryable provider error or one of unknown type; "fatal",
\* any other provider error or the gateway's own validation error.  An error of
\* any of these kinds may come without a Retry-After.
ErrorKinds == {"rate", "auth", "retryable", "fatal"}

\* classify: the next move, and whether the failure counts against the breaker.
Decision(k) ==
  CASE k = "fatal"            -> "done"
    [] k \in {"rate", "auth"} -> "nextTarget"
    [] k = "retryable"        -> "retrySame"

BreakerFailure(k) == k \in {"auth", "retryable"}

NoTiers == [healthy |-> << >>, slow |-> << >>, open |-> << >>]

Current(r) == plan[r][ti[r]]
IsLast(r)  == ti[r] = Len(plan[r])

----------------------------------------------------------------------------
Init ==
  /\ now = 1
  /\ breaker = [t \in Targets |-> ClosedBreaker]
  /\ pc = [r \in Requests |-> "idle"]
  /\ base = [r \in Requests |-> << >>]
  /\ tiers = [r \in Requests |-> NoTiers]
  /\ plan = [r \in Requests |-> << >>]
  /\ ti = [r \in Requests |-> 0]
  /\ n = [r \in Requests |-> 0]
  /\ attempts = [r \in Requests |-> 0]
  /\ ctxDone = [r \in Requests |-> FALSE]
  /\ lastErr = [r \in Requests |-> "none"]
  /\ result = [r \in Requests |-> "none"]

\* A request arrives with one of the base plans of Router.Plan.
Start(r) ==
  /\ pc[r] = "idle"
  /\ \E p \in Plans : base' = [base EXCEPT ![r] = p]
  /\ pc' = [pc EXCEPT ![r] = "order"]
  /\ UNCHANGED <<breakerVars, tiers, plan, loopVars, ctxDone, errVars>>

\* One iteration of Router.Order: the next target goes to the tier that its
\* breaker, and then the health tracker (any answer), put it in.
OrderTarget(r) ==
  /\ pc[r] = "order"
  /\ base[r] # << >>
  /\ LET t == Head(base[r])
     IN  \E tier \in IF IsOpen(breaker[t], now) THEN {"open"} ELSE {"healthy", "slow"} :
           tiers' = [tiers EXCEPT ![r][tier] = Append(@, t)]
  /\ base' = [base EXCEPT ![r] = Tail(@)]
  /\ UNCHANGED <<breakerVars, pc, plan, loopVars, ctxDone, errVars>>

\* The tiers are joined and Execute starts on the first target.
OrderDone(r) ==
  /\ pc[r] = "order"
  /\ base[r] = << >>
  /\ plan' = [plan EXCEPT ![r] = tiers[r].healthy \o tiers[r].slow \o tiers[r].open]
  /\ tiers' = [tiers EXCEPT ![r] = NoTiers]
  /\ ti' = [ti EXCEPT ![r] = 1]
  /\ pc' = [pc EXCEPT ![r] = "visit"]
  /\ UNCHANGED <<breakerVars, base, n, attempts, ctxDone, errVars>>

----------------------------------------------------------------------------
\* Execute returns.  (The shortest Retry-After of all attempts, which it copies
\* into the error for the client, is not modelled.)
Return(r, res, err) ==
  /\ pc' = [pc EXCEPT ![r] = "returned"]
  /\ result' = [result EXCEPT ![r] = res]
  /\ lastErr' = [lastErr EXCEPT ![r] = err]
  /\ n' = [n EXCEPT ![r] = 0]

\* checkCtx found the context finished: 504 on a deadline, its error otherwise.
ReturnContext(r) == ctxDone[r] /\ Return(r, "context", "none")

\* Mutant of LeaveTarget: the failed target ends the request.
LeaveTargetWithoutFailover(r) ==
  Return(r, "error", lastErr[r]) /\ UNCHANGED ti

\* Move on to the next target of the plan, or out of the loop with the last error.
LeaveTarget(r) ==
  IF IsLast(r)
  THEN Return(r, "error", lastErr[r]) /\ UNCHANGED ti
  ELSE /\ ti' = [ti EXCEPT ![r] = @ + 1]
       /\ n' = [n EXCEPT ![r] = 0]
       /\ pc' = [pc EXCEPT ![r] = "visit"]
       /\ UNCHANGED errVars

\* Mutant of Admitted: no last resort.
AdmittedByBreaker(r) == Allows(breaker[Current(r)], now)

\* The breaker's answer counts except for the last target, tried as a last resort.
Admitted(r) == Allows(breaker[Current(r)], now) \/ IsLast(r)

\* The head of the target loop: Allow is asked even for the last target, and a
\* target that is not admitted is skipped.  The check of the context that opens
\* the first attempt is part of the step.
Visit(r) ==
  /\ pc[r] = "visit"
  /\ breaker' = [breaker EXCEPT ![Current(r)] = AfterAllow(@, now)]
  /\ \/ ~Admitted(r) /\ LeaveTarget(r) /\ UNCHANGED attempts
     \/ Admitted(r) /\ ReturnContext(r) /\ UNCHANGED <<ti, attempts>>
     \/ /\ Admitted(r)
        /\ ~ctxDone[r]
        /\ n' = [n EXCEPT ![r] = 0]
        /\ attempts' = [attempts EXCEPT ![r] = @ + 1]
        /\ pc' = [pc EXCEPT ![r] = "call"]
        /\ UNCHANGED <<ti, errVars>>
  /\ UNCHANGED <<now, planVars, ctxDone>>

\* fn returned nil: the breaker is closed and the request is served.
CallSucceeds(r) ==
  /\ pc[r] = "call"
  /\ breaker' = [breaker EXCEPT ![Current(r)] = ClosedBreaker]
  /\ Return(r, "ok", "none")
  /\ UNCHANGED <<now, planVars, ti, attempts, ctxDone>>

\* fn returned an error: a Retry-After opens the breaker for its duration.
CallFails(r) ==
  /\ pc[r] = "call"
  /\ \E k \in ErrorKinds, d \in RetryAfters :
       /\ lastErr' = [lastErr EXCEPT ![r] = k]
       /\ breaker' = [breaker EXCEPT ![Current(r)] = AfterOpenFor(@, now, d)]
  /\ pc' = [pc EXCEPT ![r] = "failed"]
  /\ UNCHANGED <<now, planVars, ti, n, attempts, ctxDone, result>>

\* The rest of the iteration: a finished context returns before the breaker
\* hears of the failure; otherwise classify decides.
Classify(r) ==
  /\ pc[r] = "failed"
  /\ \/ ReturnContext(r) /\ UNCHANGED <<breaker, ti>>
     \/ /\ ~ctxDone[r]
        /\ breaker' = [breaker EXCEPT ![Current(r)] =
                         IF BreakerFailure(lastErr[r]) THEN AfterFailure(@, now) ELSE @]
        /\ LET d == Decision(lastErr[r])
           IN  \/ d = "done" /\ Return(r, "error", lastErr[r]) /\ UNCHANGED ti
               \/ d = "nextTarget" /\ LeaveTarget(r)
               \/ d = "retrySame" /\ n[r] >= MaxAttempts - 1 /\ LeaveTarget(r)
               \/ /\ d = "retrySame" /\ n[r] < MaxAttempts - 1
                  /\ pc' = [pc EXCEPT ![r] = "sleep"]
                  /\ UNCHANGED <<ti, n, errVars>>
  /\ UNCHANGED <<now, planVars, attempts, ctxDone>>

\* The backoff ends: with the context, or with its timer and the next attempt.
Wake(r) ==
  /\ pc[r] = "sleep"
  /\ \/ ReturnContext(r) /\ UNCHANGED attempts
     \/ /\ ~ctxDone[r]
        /\ n' = [n EXCEPT ![r] = @ + 1]
        /\ attempts' = [attempts EXCEPT ![r] = @ + 1]
        /\ pc' = [pc EXCEPT ![r] = "call"]
        /\ UNCHANGED errVars
  /\ UNCHANGED <<breakerVars, planVars, ti, ctxDone>>

\* The plan deadline passes, or the client goes away.
ContextEnds(r) ==
  /\ pc[r] \notin {"idle", "returned"}
  /\ ~ctxDone[r]
  /\ ctxDone' = [ctxDone EXCEPT ![r] = TRUE]
  /\ UNCHANGED <<breakerVars, pc, planVars, loopVars, errVars>>

Tick ==
  /\ now < MaxTime
  /\ now' = now + 1
  /\ UNCHANGED <<breaker, pc, planVars, loopVars, ctxDone, errVars>>

\* The steps a request takes by itself once it has started.
Progress(r) ==
  \/ OrderTarget(r) \/ OrderDone(r) \/ Visit(r)
  \/ CallSucceeds(r) \/ CallFails(r) \/ Classify(r) \/ Wake(r)

Next ==
  \/ \E r \in Requests : Start(r) \/ Progress(r) \/ ContextEnds(r)
  \/ Tick

Spec == Init /\ [][Next]_vars

----------------------------------------------------------------------------
Working == {"call", "failed", "sleep"}

\* The types of the variables; the clock never reads as the zero time.
TypeOK ==
  /\ now \in Nat \ {0}
  /\ breaker \in [Targets -> BreakerState]
  /\ pc \in [Requests -> {"idle", "order", "visit", "returned"} \cup Working]
  /\ base \in [Requests -> Seq(Targets)]
  /\ tiers \in [Requests -> [healthy : Seq(Targets), slow : Seq(Targets), open : Seq(Targets)]]
  /\ plan \in [Requests -> Seq(Targets)]
  /\ ti \in [Requests -> Nat]
  /\ n \in [Requests -> Nat]
  /\ attempts \in [Requests -> Nat]
  /\ ctxDone \in [Requests -> BOOLEAN]
  /\ lastErr \in [Requests -> ErrorKinds \cup {"none"}]
  /\ result \in [Requests -> {"none", "ok", "error", "context"}]

\* Breaker.Failure: a target with Threshold failures since its last success has
\* been opened, whatever interleaving of successes, Retry-Afters and failures of
\* concurrent requests led there.
FailuresTripBreaker ==
  \A t \in Targets : breaker[t].failures >= Threshold => breaker[t].openUntil # 0

\* Breaker.Failure and OpenFor: however failures and Retry-Afters pile up, a
\* breaker is never open for longer than one cooldown or one Retry-After from now,
\* and a probe is only ever outstanding on a breaker that has been opened.
OpenWindowBounded ==
  \A t \in Targets :
    /\ \/ breaker[t].openUntil <= now + Cooldown
       \/ \E d \in RetryAfters : breaker[t].openUntil <= now + d
    /\ breaker[t].probing => breaker[t].openUntil # 0

\* Execute: the last target is a last resort, so a request with a context still
\* alive is never refused without one provider call, even if every breaker is open.
EveryRequestIsTried ==
  \A r \in Requests :
    (pc[r] = "returned" /\ attempts[r] = 0) => result[r] = "context"

\* Execute: an error that allows failover reaches the client only after the last
\* target of the plan was tried; an earlier target never ends the request with it.
FailoverIsExhausted ==
  \A r \in Requests :
    (pc[r] = "returned" /\ result[r] = "error" /\ Decision(lastErr[r]) # "done")
      => IsLast(r)

\* Execute: no interleaving makes a request call upstream more than MaxAttempts
\* times per target it has come to, skipped targets included.
AttemptsBounded ==
  \A r \in Requests : attempts[r] <= ti[r] * MaxAttempts

\* Breaker: time alone never closes a tripped breaker, and neither does another
\* target's success; only a served call of the same target does.
OnlySuccessCloses ==
  [][\A t \in Targets :
       (breaker[t].openUntil # 0 /\ breaker'[t].openUntil = 0) =>
         \E r \in Requests :
           pc[r] = "call" /\ Current(r) = t /\ pc'[r] = "returned" /\ result'[r] = "ok"]_vars

----------------------------------------------------------------------------
\* breaker.go, Allow: "Subsequent checks return false until the probe resolves."
\* While the breaker refuses because of a probe, some request is still working on
\* that target.
ProbeResolves ==
  \A t \in Targets :
    breaker[t].probing => \E r \in Requests : pc[r] \in Working /\ Current(r) = t

\* breaker.go, OpenFor: the breaker is opened "for a specific duration", "to
\* respect HTTP 429 Retry-After headers": unless the target answers, its opening
\* is never cut short.
RetryAfterHonoured ==
  [][\A t \in Targets :
       breaker'[t].openUntil >= breaker[t].openUntil \/ breaker'[t].openUntil = 0]_vars

=============================================================================
