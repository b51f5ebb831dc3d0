---------------------------- MODULE RouterProofs ----------------------------
(***************************************************************************)
(* Proofs about RouterExecute, for any number of requests, targets, plans, *)
(* attempts and Retry-Afters, and about HedgedExecute over it: the hedge   *)
(* budget keeps its share for any window, any share and any interleaving   *)
(* of the routes' requests; a race leaves no stream behind, and failover   *)
(* goes on where it ended.                                                 *)
(***************************************************************************)
EXTENDS HedgedExecute, Integers, TLAPS

(***************************************************************************)
(* RouterExecute                                                           *)
(***************************************************************************)

\* What every breaker satisfies at every moment.
SoundBreaker(s, time) ==
  /\ s.failures >= Threshold => s.openUntil # 0
  /\ \/ s.openUntil <= time + Cooldown
     \/ \E d \in RetryAfters : s.openUntil <= time + d
  /\ s.probing => s.openUntil # 0

BreakersSound == \A t \in Targets : SoundBreaker(breaker[t], now)

\* Where a request is in its plan, and how many calls it can have made there.
InPlan(r) ==
  /\ pc[r] \in {"idle", "order"} => ti[r] = 0 /\ attempts[r] = 0
  /\ pc[r] = "order" =>
       \/ base[r] # << >>
       \/ tiers[r].healthy # << >> \/ tiers[r].slow # << >> \/ tiers[r].open # << >>
  /\ pc[r] \in Working \cup {"visit"} => ti[r] \in 1 .. Len(plan[r])
  /\ pc[r] = "visit" => attempts[r] <= (ti[r] - 1) * MaxAttempts
  /\ pc[r] \in Working =>
       /\ n[r] < MaxAttempts
       /\ attempts[r] \in 1 .. (ti[r] - 1) * MaxAttempts + n[r] + 1
  /\ pc[r] = "sleep" => n[r] < MaxAttempts - 1
  /\ pc[r] \in {"failed", "sleep"} => lastErr[r] \in ErrorKinds
  /\ pc[r] = "returned" => attempts[r] <= ti[r] * MaxAttempts

PlansFollowed == \A r \in Requests : InPlan(r)

\* A request at a target is at one of its plan.
OnTarget == \A r \in Requests : pc[r] \in Working \cup {"visit"} => ti[r] \in 1 .. Len(plan[r])

\* What the types and the breakers need, whoever runs Execute.
Grounded == TypeOK /\ BreakersSound /\ OnTarget

\* The inductive invariant.
IInv == TypeOK /\ BreakersSound /\ PlansFollowed /\ EveryRequestIsTried /\ FailoverIsExhausted

----------------------------------------------------------------------------
\* Breaker.go: each method takes a sound breaker to a sound breaker.
LEMMA BreakerMethods ==
  ASSUME NEW s \in BreakerState, NEW time \in Nat \ {0}, SoundBreaker(s, time)
  PROVE  /\ AfterAllow(s, time) \in BreakerState
         /\ SoundBreaker(AfterAllow(s, time), time)
         /\ AfterFailure(s, time) \in BreakerState
         /\ SoundBreaker(AfterFailure(s, time), time)
         /\ \A d \in RetryAfters : /\ AfterOpenFor(s, time, d) \in BreakerState
                                   /\ SoundBreaker(AfterOpenFor(s, time, d), time)
         /\ ClosedBreaker \in BreakerState
         /\ SoundBreaker(ClosedBreaker, time)
<1> USE BreakerAssumption, ExecuteAssumption DEF BreakerState, SoundBreaker
<1>1. AfterAllow(s, time) \in BreakerState /\ SoundBreaker(AfterAllow(s, time), time)
  BY DEF AfterAllow, AdmitsProbe
<1>2. AfterFailure(s, time) \in BreakerState /\ SoundBreaker(AfterFailure(s, time), time)
  BY DEF AfterFailure
<1>3. ASSUME NEW d \in RetryAfters
      PROVE  /\ AfterOpenFor(s, time, d) \in BreakerState
             /\ SoundBreaker(AfterOpenFor(s, time, d), time)
  <2>1. d \in Nat
    OBVIOUS
  <2>2. CASE d > 0 /\ time + d > s.openUntil
    <3>1. AfterOpenFor(s, time, d) =
            [failures |-> s.failures, openUntil |-> time + d, probing |-> FALSE]
      BY <2>2 DEF AfterOpenFor
    <3> QED BY <2>1, <2>2, <3>1
  <2>3. CASE ~(d > 0 /\ time + d > s.openUntil)
    BY <2>3 DEF AfterOpenFor
  <2> QED BY <2>2, <2>3
<1>4. ClosedBreaker \in BreakerState /\ SoundBreaker(ClosedBreaker, time)
  BY DEF ClosedBreaker
<1> QED BY <1>1, <1>2, <1>3, <1>4

\* Only Success leaves an opened breaker closed.
LEMMA BreakerStaysOpen ==
  ASSUME NEW s \in BreakerState, NEW time \in Nat \ {0}, s.openUntil # 0
  PROVE  /\ AfterAllow(s, time).openUntil # 0
         /\ AfterFailure(s, time).openUntil # 0
         /\ \A d \in RetryAfters : AfterOpenFor(s, time, d).openUntil # 0
BY BreakerAssumption, ExecuteAssumption
   DEF BreakerState, AfterAllow, AdmitsProbe, AfterFailure, AfterOpenFor

LEMMA InitInv == Init => IInv
<1> SUFFICES ASSUME Init PROVE IInv
  OBVIOUS
<1> USE BreakerAssumption, ExecuteAssumption DEF Init
<1>1. TypeOK
  BY DEF TypeOK, ClosedBreaker, BreakerState, NoTiers, Working
<1>2. BreakersSound
  BY DEF BreakersSound, SoundBreaker, ClosedBreaker
<1>3. PlansFollowed
  BY DEF PlansFollowed, InPlan, Working
<1>4. EveryRequestIsTried /\ FailoverIsExhausted
  BY DEF EveryRequestIsTried, FailoverIsExhausted
<1> QED BY <1>1, <1>2, <1>3, <1>4 DEF IInv

----------------------------------------------------------------------------
\* A request at work, or about to visit a target, has a current target.
LEMMA CurrentTarget ==
  ASSUME TypeOK, OnTarget, NEW r \in Requests, pc[r] \in Working \cup {"visit"}
  PROVE  Current(r) \in Targets
BY DEF TypeOK, OnTarget, Current

LEMMA IsGrounded == IInv => Grounded
BY DEF IInv, Grounded, PlansFollowed, InPlan, OnTarget

\* The types of what Return and LeaveTarget assign.
LoopOK ==
  /\ pc \in [Requests -> {"idle", "order", "visit", "returned"} \cup Working]
  /\ ti \in [Requests -> Nat]
  /\ n \in [Requests -> Nat]
  /\ lastErr \in [Requests -> ErrorKinds \cup {"none"}]
  /\ result \in [Requests -> {"none", "ok", "error", "context"}]

LEMMA ReturnType ==
  ASSUME TypeOK, NEW r \in Requests, NEW res \in {"none", "ok", "error", "context"},
         NEW err \in ErrorKinds \cup {"none"},
         Return(r, res, err), UNCHANGED ti
  PROVE  LoopOK'
BY DEF Return, TypeOK, LoopOK

LEMMA LeaveTargetType ==
  ASSUME TypeOK, NEW r \in Requests, LeaveTarget(r)
  PROVE  LoopOK'
<1>1. CASE IsLast(r)
  <2>1. lastErr[r] \in ErrorKinds \cup {"none"}
    BY DEF TypeOK
  <2>2. Return(r, "error", lastErr[r]) /\ UNCHANGED ti
    BY <1>1 DEF LeaveTarget
  <2> QED BY <2>1, <2>2, ReturnType
<1>2. CASE ~IsLast(r)
  <2>1. /\ ti' = [ti EXCEPT ![r] = @ + 1]
        /\ n' = [n EXCEPT ![r] = 0]
        /\ pc' = [pc EXCEPT ![r] = "visit"]
        /\ UNCHANGED <<lastErr, result>>
    BY <1>2 DEF LeaveTarget, errVars
  <2> QED BY <2>1 DEF TypeOK, LoopOK
<1> QED BY <1>1, <1>2

\* Execute and Order keep every variable in its type.
LEMMA NextType == Grounded /\ [Next]_vars => TypeOK'
<1> SUFFICES ASSUME Grounded, [Next]_vars PROVE TypeOK'
  OBVIOUS
<1> USE BreakerAssumption, ExecuteAssumption
<1>a. TypeOK /\ BreakersSound /\ OnTarget
  BY DEF Grounded
<1> USE <1>a
<1>b. ASSUME NEW t \in Targets
      PROVE  /\ AfterAllow(breaker[t], now) \in BreakerState
             /\ AfterFailure(breaker[t], now) \in BreakerState
             /\ \A d \in RetryAfters : AfterOpenFor(breaker[t], now, d) \in BreakerState
             /\ ClosedBreaker \in BreakerState
  BY BreakerMethods DEF BreakersSound, TypeOK
<1>1. ASSUME NEW r \in Requests, Start(r) PROVE TypeOK'
  BY <1>1 DEF Start, TypeOK, breakerVars, loopVars, errVars
<1>2. ASSUME NEW r \in Requests, OrderTarget(r) PROVE TypeOK'
  <2>1. PICK tier \in {"healthy", "slow", "open"} :
          tiers' = [tiers EXCEPT ![r][tier] = Append(@, Head(base[r]))]
    BY <1>2 DEF OrderTarget
  <2>2. Head(base[r]) \in Targets /\ Tail(base[r]) \in Seq(Targets)
    BY <1>2 DEF OrderTarget, TypeOK
  <2>3. Append(tiers[r][tier], Head(base[r])) \in Seq(Targets)
    BY <2>2 DEF TypeOK
  <2>4. tiers' \in [Requests -> [healthy : Seq(Targets), slow : Seq(Targets), open : Seq(Targets)]]
    BY <2>1, <2>3 DEF TypeOK
  <2> QED BY <1>2, <2>2, <2>4 DEF OrderTarget, TypeOK, breakerVars, loopVars, errVars
<1>3. ASSUME NEW r \in Requests, OrderDone(r) PROVE TypeOK'
  BY <1>3 DEF OrderDone, TypeOK, breakerVars, errVars, NoTiers
<1>4. ASSUME NEW r \in Requests, Visit(r) PROVE TypeOK'
  <2>1. breaker' \in [Targets -> BreakerState]
    BY <1>4, <1>b, CurrentTarget DEF Visit, TypeOK
  <2>3. LoopOK' /\ attempts' \in [Requests -> Nat]
    <3>1. CASE ~Admitted(r) /\ LeaveTarget(r) /\ UNCHANGED attempts
      BY <3>1, LeaveTargetType DEF TypeOK
    <3>2. CASE Admitted(r) /\ ReturnContext(r) /\ UNCHANGED <<ti, attempts>>
      BY <3>2, ReturnType DEF ReturnContext, TypeOK
    <3>3. CASE /\ n' = [n EXCEPT ![r] = 0]
               /\ attempts' = [attempts EXCEPT ![r] = @ + 1]
               /\ pc' = [pc EXCEPT ![r] = "call"]
               /\ UNCHANGED <<ti, errVars>>
      BY <3>3 DEF LoopOK, TypeOK, errVars, Working
    <3> QED BY <1>4, <3>1, <3>2, <3>3 DEF Visit
  <2> QED BY <1>4, <2>1, <2>3 DEF Visit, LoopOK, TypeOK, planVars
<1>5. ASSUME NEW r \in Requests, CallSucceeds(r) PROVE TypeOK'
  BY <1>5, <1>b DEF CallSucceeds, TypeOK, Return, planVars, Working
<1>6. ASSUME NEW r \in Requests, CallFails(r) PROVE TypeOK'
  <2>1. breaker' \in [Targets -> BreakerState]
    BY <1>6, <1>b, CurrentTarget DEF CallFails, TypeOK, Working
  <2>2. lastErr' \in [Requests -> ErrorKinds \cup {"none"}]
    BY <1>6 DEF CallFails, TypeOK
  <2> QED BY <1>6, <2>1, <2>2 DEF CallFails, TypeOK, planVars, Working
<1>7. ASSUME NEW r \in Requests, Classify(r) PROVE TypeOK'
  <2>1. breaker' \in [Targets -> BreakerState]
    <3>1. Current(r) \in Targets
      BY <1>7, CurrentTarget DEF Classify, Working
    <3>2. \/ breaker' = breaker
          \/ breaker' = [breaker EXCEPT ![Current(r)] =
                           IF BreakerFailure(lastErr[r]) THEN AfterFailure(@, now) ELSE @]
      BY <1>7 DEF Classify
    <3> QED BY <3>1, <3>2, <1>b DEF TypeOK
  <2>2. LoopOK'
    <3>1. lastErr[r] \in ErrorKinds \cup {"none"}
      BY DEF TypeOK
    <3>2. CASE ReturnContext(r) /\ UNCHANGED ti
      BY <3>2, ReturnType DEF ReturnContext
    <3>3. CASE Return(r, "error", lastErr[r]) /\ UNCHANGED ti
      BY <3>1, <3>3, ReturnType
    <3>4. CASE LeaveTarget(r)
      BY <3>4, LeaveTargetType
    <3>5. CASE pc' = [pc EXCEPT ![r] = "sleep"] /\ UNCHANGED <<ti, n, errVars>>
      BY <3>5 DEF LoopOK, TypeOK, errVars, Working
    <3> QED BY <1>7, <3>2, <3>3, <3>4, <3>5 DEF Classify
  <2> QED BY <1>7, <2>1, <2>2 DEF Classify, LoopOK, TypeOK, planVars
<1>8. ASSUME NEW r \in Requests, Wake(r) PROVE TypeOK'
  <2>1. LoopOK' /\ attempts' \in [Requests -> Nat]
    <3>1. CASE ReturnContext(r) /\ UNCHANGED attempts
      BY <1>8, <3>1, ReturnType DEF Wake, ReturnContext, TypeOK
    <3>2. CASE /\ n' = [n EXCEPT ![r] = @ + 1]
               /\ attempts' = [attempts EXCEPT ![r] = @ + 1]
               /\ pc' = [pc EXCEPT ![r] = "call"]
               /\ UNCHANGED errVars
      BY <1>8, <3>2 DEF Wake, LoopOK, TypeOK, errVars, Working
    <3> QED BY <1>8, <3>1, <3>2 DEF Wake
  <2> QED BY <1>8, <2>1 DEF Wake, LoopOK, TypeOK, breakerVars, planVars
<1>9. ASSUME NEW r \in Requests, ContextEnds(r) PROVE TypeOK'
  BY <1>9 DEF ContextEnds, TypeOK, breakerVars, planVars, loopVars, errVars
<1>10. CASE Tick
  BY <1>10 DEF Tick, TypeOK, planVars, loopVars, errVars
<1>11. CASE UNCHANGED vars
  BY <1>11 DEF vars, TypeOK, breakerVars, planVars, loopVars, errVars
<1> QED BY <1>1, <1>2, <1>3, <1>4, <1>5, <1>6, <1>7, <1>8, <1>9, <1>10, <1>11
           DEF Next, Progress

----------------------------------------------------------------------------
\* What any step can do to the breakers: time passes, or one of them goes through
\* one method, Success only from a call that is served.
LEMMA BreakerSteps ==
  ASSUME Grounded, [Next]_vars
  PROVE  \/ breaker' = breaker /\ now' \in {now, now + 1}
         \/ /\ now' = now
            /\ \E t \in Targets :
                 \/ breaker' = [breaker EXCEPT ![t] = AfterAllow(@, now)]
                 \/ breaker' = [breaker EXCEPT ![t] = AfterFailure(@, now)]
                 \/ \E d \in RetryAfters : breaker' = [breaker EXCEPT ![t] = AfterOpenFor(@, now, d)]
                 \/ /\ breaker' = [breaker EXCEPT ![t] = ClosedBreaker]
                    /\ \E r \in Requests : CallSucceeds(r) /\ Current(r) = t
<1> USE DEF Grounded
<1>1. ASSUME NEW r \in Requests, Visit(r)
      PROVE  /\ now' = now
             /\ \E t \in Targets : breaker' = [breaker EXCEPT ![t] = AfterAllow(@, now)]
  BY <1>1, CurrentTarget DEF Visit
<1>2. ASSUME NEW r \in Requests, CallSucceeds(r)
      PROVE  /\ now' = now /\ Current(r) \in Targets
             /\ breaker' = [breaker EXCEPT ![Current(r)] = ClosedBreaker]
  BY <1>2, CurrentTarget DEF CallSucceeds, Working
<1>3. ASSUME NEW r \in Requests, CallFails(r)
      PROVE  /\ now' = now
             /\ \E t \in Targets, d \in RetryAfters :
                  breaker' = [breaker EXCEPT ![t] = AfterOpenFor(@, now, d)]
  BY <1>3, CurrentTarget DEF CallFails, Working
<1>4. ASSUME NEW r \in Requests, Classify(r)
      PROVE  /\ now' = now
             /\ \/ breaker' = breaker
                \/ \E t \in Targets : breaker' = [breaker EXCEPT ![t] = AfterFailure(@, now)]
  <2>1. Current(r) \in Targets
    BY <1>4, CurrentTarget DEF Classify, Working
  <2>2. CASE breaker' = [breaker EXCEPT ![Current(r)] =
                 IF BreakerFailure(lastErr[r]) THEN AfterFailure(@, now) ELSE @]
    <3>1. CASE BreakerFailure(lastErr[r])
      BY <1>4, <2>1, <2>2, <3>1 DEF Classify
    <3>2. CASE ~BreakerFailure(lastErr[r])
      BY <1>4, <2>1, <2>2, <3>2 DEF Classify, TypeOK
    <3> QED BY <3>1, <3>2
  <2> QED BY <1>4, <2>2 DEF Classify
<1>5. ASSUME NEW r \in Requests,
             Start(r) \/ OrderTarget(r) \/ OrderDone(r) \/ Wake(r) \/ ContextEnds(r)
      PROVE  breaker' = breaker /\ now' = now
  BY <1>5 DEF Start, OrderTarget, OrderDone, Wake, ContextEnds, breakerVars
<1>6. CASE Tick
  BY <1>6 DEF Tick
<1>7. CASE UNCHANGED vars
  BY <1>7 DEF vars, breakerVars
<1> QED BY <1>1, <1>2, <1>3, <1>4, <1>5, <1>6, <1>7 DEF Next, Progress

\* Each breaker stays sound, under any interleaving of the requests.
LEMMA NextBreakers == Grounded /\ [Next]_vars => BreakersSound'
<1> SUFFICES ASSUME Grounded, [Next]_vars, NEW u \in Targets
             PROVE  SoundBreaker(breaker[u], now)'
  BY DEF BreakersSound
<1>a. /\ breaker \in [Targets -> BreakerState] /\ now \in Nat \ {0}
      /\ SoundBreaker(breaker[u], now)
  BY DEF Grounded, TypeOK, BreakersSound
<1>1. CASE breaker' = breaker /\ now' \in {now, now + 1}
  <2>1. SoundBreaker(breaker[u], now')
    BY <1>1, <1>a, BreakerAssumption, ExecuteAssumption DEF SoundBreaker, BreakerState
  <2> QED BY <1>1, <2>1 DEF SoundBreaker
<1>2. CASE now' = now /\ \E t \in Targets : \E s \in BreakerState :
             SoundBreaker(s, now) /\ breaker' = [breaker EXCEPT ![t] = s]
  <2>1. SoundBreaker(breaker'[u], now)
    BY <1>2, <1>a
  <2> QED BY <1>2, <2>1 DEF SoundBreaker
<1>b. ASSUME NEW t \in Targets
      PROVE  /\ AfterAllow(breaker[t], now) \in BreakerState
             /\ SoundBreaker(AfterAllow(breaker[t], now), now)
             /\ AfterFailure(breaker[t], now) \in BreakerState
             /\ SoundBreaker(AfterFailure(breaker[t], now), now)
             /\ \A d \in RetryAfters :
                  /\ AfterOpenFor(breaker[t], now, d) \in BreakerState
                  /\ SoundBreaker(AfterOpenFor(breaker[t], now, d), now)
             /\ ClosedBreaker \in BreakerState /\ SoundBreaker(ClosedBreaker, now)
  <2>1. breaker[t] \in BreakerState /\ SoundBreaker(breaker[t], now)
    BY <1>a DEF Grounded, BreakersSound
  <2> QED BY <1>a, <2>1, BreakerMethods
<1> QED BY <1>1, <1>2, <1>b, BreakerSteps

----------------------------------------------------------------------------
\* Everything the invariant says of one request.
Tried(r) == (pc[r] = "returned" /\ attempts[r] = 0) => result[r] = "context"

Exhausted(r) ==
  (pc[r] = "returned" /\ result[r] = "error" /\ Decision(lastErr[r]) # "done") => IsLast(r)

Good(r) == InPlan(r) /\ Tried(r) /\ Exhausted(r)

\* A step leaves the local state of a request alone.
SameRequest(q) ==
  /\ pc'[q] = pc[q] /\ base'[q] = base[q] /\ tiers'[q] = tiers[q] /\ plan'[q] = plan[q]
  /\ ti'[q] = ti[q] /\ n'[q] = n[q] /\ attempts'[q] = attempts[q]
  /\ lastErr'[q] = lastErr[q] /\ result'[q] = result[q]

LEMMA SameIsGood ==
  ASSUME NEW q \in Requests, Good(q), SameRequest(q) PROVE Good(q)'
BY DEF Good, InPlan, Tried, Exhausted, IsLast, SameRequest

\* A request only writes its own local state.
LEMMA Frame ==
  ASSUME TypeOK, NEW r \in Requests, NEW q \in Requests, q # r,
         Start(r) \/ Progress(r) \/ ContextEnds(r)
  PROVE  SameRequest(q)
<1> USE DEF SameRequest, TypeOK
<1>0. ASSUME LeaveTarget(r)
      PROVE  /\ pc'[q] = pc[q] /\ ti'[q] = ti[q] /\ n'[q] = n[q]
             /\ lastErr'[q] = lastErr[q] /\ result'[q] = result[q]
  BY <1>0 DEF LeaveTarget, Return, errVars
<1>1. CASE Start(r)
  BY <1>1 DEF Start, loopVars, errVars
<1>2. CASE OrderTarget(r)
  BY <1>2 DEF OrderTarget, loopVars, errVars
<1>3. CASE OrderDone(r)
  BY <1>3 DEF OrderDone, errVars
<1>4. CASE Visit(r)
  BY <1>4, <1>0 DEF Visit, ReturnContext, Return, planVars, errVars
<1>5. CASE CallSucceeds(r)
  BY <1>5 DEF CallSucceeds, Return, planVars
<1>6. CASE CallFails(r)
  BY <1>6 DEF CallFails, planVars
<1>7. CASE Classify(r)
  BY <1>7, <1>0 DEF Classify, ReturnContext, Return, planVars, errVars
<1>8. CASE Wake(r)
  BY <1>8 DEF Wake, ReturnContext, Return, planVars, errVars
<1>9. CASE ContextEnds(r)
  BY <1>9 DEF ContextEnds, planVars, loopVars, errVars
<1> QED BY <1>1, <1>2, <1>3, <1>4, <1>5, <1>6, <1>7, <1>8, <1>9 DEF Progress

\* Arithmetic of the bound on the attempts.
LEMMA OneMoreTarget ==
  ASSUME NEW k \in Nat \ {0}, NEW m \in Nat
  PROVE  /\ (k - 1) * m \in Nat /\ k * m = (k - 1) * m + m /\ (k + 1 - 1) * m = k * m
OBVIOUS

\* Leaving a target keeps the request in its plan, or ends it after its last target.
LEMMA LeaveIsGood ==
  ASSUME TypeOK, NEW r \in Requests, LeaveTarget(r), ti[r] \in 1 .. Len(plan[r]),
         attempts[r] <= ti[r] * MaxAttempts, attempts[r] > 0 \/ ~IsLast(r),
         UNCHANGED <<plan, attempts>>
  PROVE  Good(r)'
<1>0. ti[r] \in Nat \ {0} /\ Len(plan[r]) \in Nat /\ attempts[r] \in Nat
  BY DEF TypeOK
<1>1. CASE IsLast(r)
  <2>1. /\ pc'[r] = "returned" /\ result'[r] = "error" /\ ti'[r] = ti[r]
        /\ attempts'[r] = attempts[r] /\ plan'[r] = plan[r]
    BY <1>1 DEF LeaveTarget, Return, TypeOK
  <2>2. InPlan(r)'
    BY <2>1 DEF InPlan, Working
  <2> QED BY <1>0, <1>1, <2>1, <2>2 DEF Good, Tried, Exhausted, IsLast
<1>2. CASE ~IsLast(r)
  <2>1. /\ pc'[r] = "visit" /\ ti'[r] = ti[r] + 1
        /\ attempts'[r] = attempts[r] /\ plan'[r] = plan[r]
    BY <1>2 DEF LeaveTarget, TypeOK
  <2>2. ti'[r] \in 1 .. Len(plan'[r])
    BY <1>0, <1>2, <2>1 DEF IsLast
  <2>3. attempts'[r] <= (ti'[r] - 1) * MaxAttempts
    BY <1>0, <2>1, ExecuteAssumption, OneMoreTarget
  <2> QED BY <2>1, <2>2, <2>3 DEF Good, InPlan, Tried, Exhausted, Working
<1> QED BY <1>1, <1>2

\* A request that ends otherwise has made its calls, or has lost its context.
LEMMA ReturnIsGood ==
  ASSUME TypeOK, NEW r \in Requests, NEW res, NEW err,
         Return(r, res, err), UNCHANGED <<plan, ti, attempts>>,
         attempts[r] <= ti[r] * MaxAttempts, attempts[r] > 0 \/ res = "context",
         res = "error" => Decision(err) = "done"
  PROVE  Good(r)'
<1>1. /\ pc'[r] = "returned" /\ result'[r] = res /\ lastErr'[r] = err
      /\ ti'[r] = ti[r] /\ attempts'[r] = attempts[r] /\ attempts[r] \in Nat
  BY DEF Return, TypeOK
<1>2. InPlan(r)'
  BY <1>1 DEF InPlan, Working
<1> QED BY <1>1, <1>2 DEF Good, Tried, Exhausted

\* A request's own step keeps what the invariant says of it.
LEMMA OwnStep ==
  ASSUME TypeOK, NEW r \in Requests, Good(r),
         Start(r) \/ Progress(r) \/ ContextEnds(r)
  PROVE  Good(r)'
<1> USE ExecuteAssumption
<1>0. /\ ti[r] \in Nat /\ n[r] \in Nat /\ attempts[r] \in Nat /\ Len(plan[r]) \in Nat
      /\ InPlan(r)
  BY DEF TypeOK, Good
<1>1. CASE Start(r)
  BY <1>0, <1>1 DEF Start, Good, InPlan, Tried, Exhausted, TypeOK, loopVars, Working
<1>2. CASE OrderTarget(r)
  <2>1. PICK tier \in {"healthy", "slow", "open"} :
          tiers' = [tiers EXCEPT ![r][tier] = Append(@, Head(base[r]))]
    BY <1>2 DEF OrderTarget
  <2>2. tiers[r][tier] \in Seq(Targets) /\ Head(base[r]) \in Targets
    BY <1>2 DEF OrderTarget, TypeOK
  <2>3. tiers'[r][tier] = Append(tiers[r][tier], Head(base[r]))
    BY <2>1 DEF TypeOK
  <2>4. tiers'[r][tier] # << >>
    BY <2>2, <2>3
  <2>5. tiers'[r].healthy # << >> \/ tiers'[r].slow # << >> \/ tiers'[r].open # << >>
    BY <2>4
  <2>6. pc'[r] = "order" /\ pc[r] = "order" /\ ti'[r] = ti[r] /\ attempts'[r] = attempts[r]
    BY <1>2 DEF OrderTarget, loopVars
  <2> QED BY <1>0, <2>5, <2>6 DEF Good, InPlan, Tried, Exhausted, Working
<1>3. CASE OrderDone(r)
  <2>1. /\ pc'[r] = "visit" /\ ti'[r] = 1 /\ attempts'[r] = attempts[r] /\ attempts[r] = 0
        /\ plan'[r] = tiers[r].healthy \o tiers[r].slow \o tiers[r].open
    BY <1>0, <1>3 DEF OrderDone, TypeOK, InPlan
  <2>2. tiers[r].healthy # << >> \/ tiers[r].slow # << >> \/ tiers[r].open # << >>
    BY <1>0, <1>3 DEF OrderDone, InPlan
  <2>3. /\ tiers[r].healthy \in Seq(Targets) /\ tiers[r].slow \in Seq(Targets)
        /\ tiers[r].open \in Seq(Targets)
    BY DEF TypeOK
  <2>4. 1 \in 1 .. Len(plan'[r])
    <3> DEFINE h == tiers[r].healthy
               s == tiers[r].slow
               o == tiers[r].open
    <3> HIDE DEF h, s, o
    <3>1. h \in Seq(Targets) /\ s \in Seq(Targets) /\ o \in Seq(Targets)
      BY <2>3 DEF h, s, o
    <3>2. Len(h \o s \o o) = Len(h) + Len(s) + Len(o)
      BY <3>1
    <3>3. h # << >> \/ s # << >> \/ o # << >>
      BY <2>2 DEF h, s, o
    <3>4. Len(h) > 0 \/ Len(s) > 0 \/ Len(o) > 0
      BY <3>1, <3>3
    <3>5. Len(h) \in Nat /\ Len(s) \in Nat /\ Len(o) \in Nat
      BY <3>1
    <3>6. plan'[r] = h \o s \o o
      BY <2>1 DEF h, s, o
    <3>7. Len(h) + Len(s) + Len(o) \in Nat /\ Len(h) + Len(s) + Len(o) >= 1
      BY <3>4, <3>5
    <3> QED BY <3>2, <3>6, <3>7
  <2>5. attempts'[r] <= (ti'[r] - 1) * MaxAttempts
    BY <2>1
  <2> QED BY <2>1, <2>4, <2>5 DEF Good, InPlan, Tried, Exhausted, Working
<1>4. CASE Visit(r)
  <2>1. /\ pc[r] = "visit" /\ ti[r] \in 1 .. Len(plan[r]) /\ plan' = plan
        /\ attempts[r] <= (ti[r] - 1) * MaxAttempts
    BY <1>0, <1>4 DEF Visit, InPlan, planVars
  <2>2. attempts[r] <= ti[r] * MaxAttempts /\ (ti[r] - 1) * MaxAttempts \in Nat
    <3>1. ti[r] \in Nat \ {0} /\ MaxAttempts \in Nat /\ attempts[r] \in Nat
      BY <1>0, <2>1
    <3>2. (ti[r] - 1) * MaxAttempts \in Nat /\ ti[r] * MaxAttempts = (ti[r] - 1) * MaxAttempts + MaxAttempts
      BY <3>1, OneMoreTarget
    <3>3. \A x, y, z \in Nat, m \in Nat : x <= y /\ z = y + m => x <= z
      OBVIOUS
    <3> QED BY <2>1, <3>1, <3>2, <3>3
  <2>3. CASE ~Admitted(r) /\ LeaveTarget(r) /\ UNCHANGED attempts
    <3>1. ~IsLast(r)
      BY <2>3 DEF Admitted
    <3> QED BY <2>1, <2>2, <2>3, <3>1, LeaveIsGood
  <2>4. CASE Admitted(r) /\ ReturnContext(r) /\ UNCHANGED <<ti, attempts>>
    BY <2>1, <2>2, <2>4, ReturnIsGood DEF ReturnContext
  <2>5. CASE /\ n' = [n EXCEPT ![r] = 0]
             /\ attempts' = [attempts EXCEPT ![r] = @ + 1]
             /\ pc' = [pc EXCEPT ![r] = "call"]
             /\ UNCHANGED <<ti, errVars>>
    <3>1. /\ pc'[r] = "call" /\ n'[r] = 0 /\ ti'[r] = ti[r] /\ plan'[r] = plan[r]
          /\ attempts'[r] = attempts[r] + 1
      BY <2>1, <2>5 DEF TypeOK
    <3>2. attempts'[r] \in 1 .. (ti'[r] - 1) * MaxAttempts + n'[r] + 1
      BY <1>0, <2>1, <2>2, <3>1
    <3> QED BY <2>1, <3>1, <3>2 DEF Good, InPlan, Tried, Exhausted, Working
  <2> QED BY <1>4, <2>3, <2>4, <2>5 DEF Visit
<1>a. ASSUME pc[r] \in Working
      PROVE  /\ ti[r] \in 1 .. Len(plan[r]) /\ attempts[r] > 0 /\ n[r] < MaxAttempts
             /\ attempts[r] <= ti[r] * MaxAttempts
             /\ (ti[r] - 1) * MaxAttempts \in Nat
             /\ attempts[r] <= (ti[r] - 1) * MaxAttempts + n[r] + 1
  <2>1. /\ ti[r] \in 1 .. Len(plan[r]) /\ n[r] < MaxAttempts
        /\ attempts[r] \in 1 .. (ti[r] - 1) * MaxAttempts + n[r] + 1
    BY <1>0, <1>a DEF InPlan
  <2>2. (ti[r] - 1) * MaxAttempts \in Nat /\ ti[r] * MaxAttempts = (ti[r] - 1) * MaxAttempts + MaxAttempts
    <3>1. ti[r] \in Nat \ {0} /\ MaxAttempts \in Nat
      BY <1>0, <2>1
    <3> QED BY <3>1, OneMoreTarget
  <2> QED BY <1>0, <2>1, <2>2
<1>5. CASE CallSucceeds(r)
  BY <1>5, <1>a, ReturnIsGood DEF CallSucceeds, planVars, Working
<1>6. CASE CallFails(r)
  <2>1. /\ pc[r] = "call" /\ pc'[r] = "failed" /\ lastErr'[r] \in ErrorKinds
        /\ ti'[r] = ti[r] /\ n'[r] = n[r] /\ attempts'[r] = attempts[r] /\ plan'[r] = plan[r]
    BY <1>6 DEF CallFails, TypeOK, planVars
  <2> QED BY <1>0, <2>1 DEF Good, InPlan, Tried, Exhausted, Working
<1>7. CASE Classify(r)
  <2>1. /\ pc[r] \in Working /\ UNCHANGED <<plan, attempts>> /\ lastErr[r] \in ErrorKinds
    BY <1>0, <1>7 DEF Classify, planVars, Working, InPlan
  <2>2. CASE ReturnContext(r) /\ UNCHANGED ti
    BY <1>a, <2>1, <2>2, ReturnIsGood DEF ReturnContext
  <2>3. CASE Decision(lastErr[r]) = "done" /\ Return(r, "error", lastErr[r]) /\ UNCHANGED ti
    BY <1>a, <2>1, <2>3, ReturnIsGood
  <2>4. CASE LeaveTarget(r)
    BY <1>a, <2>1, <2>4, LeaveIsGood
  <2>5. CASE /\ n[r] < MaxAttempts - 1
             /\ pc' = [pc EXCEPT ![r] = "sleep"] /\ UNCHANGED <<ti, n, errVars>>
    <3>1. /\ pc'[r] = "sleep" /\ ti'[r] = ti[r] /\ n'[r] = n[r] /\ lastErr'[r] = lastErr[r]
          /\ attempts'[r] = attempts[r] /\ plan'[r] = plan[r]
      BY <2>1, <2>5 DEF TypeOK, errVars
    <3> QED BY <1>0, <2>1, <2>5, <3>1 DEF Good, InPlan, Tried, Exhausted, Working
  <2> QED BY <1>7, <2>2, <2>3, <2>4, <2>5 DEF Classify
<1>8. CASE Wake(r)
  <2>1. pc[r] = "sleep" /\ UNCHANGED <<plan, ti>>
    BY <1>8 DEF Wake, planVars
  <2>2. CASE ReturnContext(r) /\ UNCHANGED attempts
    BY <1>a, <2>1, <2>2, ReturnIsGood DEF ReturnContext, Working
  <2>3. CASE /\ n' = [n EXCEPT ![r] = @ + 1]
             /\ attempts' = [attempts EXCEPT ![r] = @ + 1]
             /\ pc' = [pc EXCEPT ![r] = "call"]
    <3>1. /\ pc'[r] = "call" /\ n'[r] = n[r] + 1 /\ ti'[r] = ti[r] /\ plan'[r] = plan[r]
          /\ attempts'[r] = attempts[r] + 1
      BY <2>1, <2>3 DEF TypeOK
    <3>2. n'[r] < MaxAttempts
      BY <1>0, <2>1, <3>1 DEF InPlan
    <3>3. attempts'[r] \in 1 .. (ti'[r] - 1) * MaxAttempts + n'[r] + 1
      <4> DEFINE before == (ti[r] - 1) * MaxAttempts
      <4> HIDE DEF before
      <4>1. before \in Nat /\ attempts[r] <= before + n[r] + 1
        BY <1>a, <2>1 DEF before, Working
      <4>2. attempts[r] + 1 \in 1 .. before + (n[r] + 1) + 1
        BY <1>0, <4>1
      <4> QED BY <3>1, <4>2 DEF before
    <3> QED BY <1>a, <2>1, <3>1, <3>2, <3>3 DEF Good, InPlan, Tried, Exhausted, Working
  <2> QED BY <1>8, <2>2, <2>3 DEF Wake
<1>9. CASE ContextEnds(r)
  BY <1>9, SameIsGood DEF ContextEnds, SameRequest, planVars, loopVars, errVars
<1> QED BY <1>1, <1>2, <1>3, <1>4, <1>5, <1>6, <1>7, <1>8, <1>9 DEF Progress

----------------------------------------------------------------------------
\* Every request keeps to its plan, whatever the others do.
LEMMA NextPlans ==
  IInv /\ [Next]_vars => PlansFollowed' /\ EveryRequestIsTried' /\ FailoverIsExhausted'
<1> SUFFICES ASSUME IInv, [Next]_vars, NEW q \in Requests PROVE Good(q)'
  BY DEF Good, Tried, Exhausted, PlansFollowed, EveryRequestIsTried, FailoverIsExhausted
<1>1. TypeOK /\ Good(q)
  BY DEF IInv, Good, Tried, Exhausted, PlansFollowed, EveryRequestIsTried, FailoverIsExhausted
<1>2. CASE Tick \/ UNCHANGED vars
  <2>1. SameRequest(q)
    BY <1>2 DEF Tick, vars, SameRequest, planVars, loopVars, errVars
  <2> QED BY <1>1, <2>1, SameIsGood
<1>3. ASSUME NEW r \in Requests, Start(r) \/ Progress(r) \/ ContextEnds(r) PROVE Good(q)'
  <2>1. CASE q = r
    BY <1>1, <1>3, <2>1, OwnStep
  <2>2. CASE q # r
    BY <1>1, <1>3, <2>2, Frame, SameIsGood
  <2> QED BY <2>1, <2>2
<1> QED BY <1>2, <1>3 DEF Next

\* Execute, Order and the breakers: the inductive invariant holds throughout.
THEOREM Invariance == Spec => []IInv
<1>1. Init => IInv
  BY InitInv
<1>2. IInv /\ [Next]_vars => IInv'
  BY IsGrounded, NextType, NextBreakers, NextPlans DEF IInv
<1> QED BY <1>1, <1>2, PTL DEF Spec

\* Every variable of every request and breaker keeps its type.
THEOREM TypeCorrect == Spec => []TypeOK
BY Invariance, PTL DEF IInv

\* Breaker.Failure: Threshold failures without a success in between always trip.
THEOREM FailuresTrip == Spec => []FailuresTripBreaker
<1>1. IInv => FailuresTripBreaker
  BY DEF IInv, BreakersSound, SoundBreaker, FailuresTripBreaker
<1> QED BY <1>1, Invariance, PTL

\* Breaker.OpenFor and Failure: an open window never outgrows its cause.
THEOREM WindowBounded == Spec => []OpenWindowBounded
<1>1. IInv => OpenWindowBounded
  BY DEF IInv, BreakersSound, SoundBreaker, OpenWindowBounded
<1> QED BY <1>1, Invariance, PTL

\* Execute: no request with a live context is turned away untried.
THEOREM RequestsAreTried == Spec => []EveryRequestIsTried
BY Invariance, PTL DEF IInv

\* Execute: an error that allows failover is returned only for the last target.
THEOREM FailoverExhausted == Spec => []FailoverIsExhausted
BY Invariance, PTL DEF IInv

\* Execute: at most MaxAttempts upstream calls per target of the plan.
THEOREM BoundedAttempts == Spec => []AttemptsBounded
<1>1. IInv => AttemptsBounded
  <2> SUFFICES ASSUME IInv, NEW r \in Requests PROVE attempts[r] <= ti[r] * MaxAttempts
    BY DEF AttemptsBounded
  <2>1. /\ ti[r] \in Nat /\ n[r] \in Nat /\ attempts[r] \in Nat /\ InPlan(r)
        /\ MaxAttempts \in Nat \ {0}
        /\ pc[r] \in {"idle", "order", "visit", "returned"} \cup Working
    BY ExecuteAssumption DEF IInv, TypeOK, PlansFollowed
  <2>2. CASE pc[r] \in {"idle", "order"}
    BY <2>1, <2>2 DEF InPlan
  <2>3. CASE pc[r] \in Working \cup {"visit"}
    <3>1. ti[r] \in Nat \ {0}
      BY <2>1, <2>3 DEF InPlan
    <3>2. (ti[r] - 1) * MaxAttempts \in Nat /\ ti[r] * MaxAttempts = (ti[r] - 1) * MaxAttempts + MaxAttempts
      BY <2>1, <3>1, OneMoreTarget
    <3>3. attempts[r] <= (ti[r] - 1) * MaxAttempts + MaxAttempts
      <4> DEFINE before == (ti[r] - 1) * MaxAttempts
      <4>1. attempts[r] <= before \/ (attempts[r] <= before + n[r] + 1 /\ n[r] < MaxAttempts)
        BY <2>1, <2>3 DEF InPlan
      <4>2. before \in Nat
        BY <3>2
      <4> HIDE DEF before
      <4>3. attempts[r] <= before + MaxAttempts
        BY <2>1, <4>1, <4>2
      <4> QED BY <4>3 DEF before
    <3> QED BY <3>2, <3>3
  <2>4. CASE pc[r] = "returned"
    BY <2>1, <2>4 DEF InPlan
  <2> QED BY <2>1, <2>2, <2>3, <2>4
<1> QED BY <1>1, Invariance, PTL

\* Breaker: a tripped breaker is closed by nothing but a served call of its target.
THEOREM ClosedBySuccess == Spec => OnlySuccessCloses
<1>1. ASSUME IInv, [Next]_vars, NEW t \in Targets,
             breaker[t].openUntil # 0, breaker'[t].openUntil = 0
      PROVE  \E r \in Requests :
               pc[r] = "call" /\ Current(r) = t /\ pc'[r] = "returned" /\ result'[r] = "ok"
  <2>1. breaker \in [Targets -> BreakerState] /\ now \in Nat \ {0}
    BY <1>1 DEF IInv, TypeOK
  <2>2. breaker[t] \in BreakerState
    BY <2>1
  <2>3. /\ AfterAllow(breaker[t], now).openUntil # 0
        /\ AfterFailure(breaker[t], now).openUntil # 0
        /\ \A d \in RetryAfters : AfterOpenFor(breaker[t], now, d).openUntil # 0
    BY <1>1, <2>1, <2>2, BreakerStaysOpen
  <2>4. \E r \in Requests : CallSucceeds(r) /\ Current(r) = t
    BY <1>1, <2>1, <2>3, IsGrounded, BreakerSteps
  <2> QED BY <1>1, <2>4 DEF CallSucceeds, Return, IInv, TypeOK
<1>2. IInv /\ [Next]_vars =>
        [\A t \in Targets :
           (breaker[t].openUntil # 0 /\ breaker'[t].openUntil = 0) =>
             \E r \in Requests :
               pc[r] = "call" /\ Current(r) = t /\ pc'[r] = "returned" /\ result'[r] = "ok"]_vars
  BY <1>1
<1> QED BY <1>2, Invariance, PTL DEF Spec, OnlySuccessCloses

-----------------------------------------------------------------------------
(***************************************************************************)
(* HedgedExecute                                                           *)
(***************************************************************************)

\* What a budget satisfies once hedgesEver of requestsEver requests were hedged: the
\* hedges in the window are within the share of the requests in it, and so are those
\* that decay has taken out of the window.
SoundBudget(bg, requestsEver, hedgesEver) ==
  /\ bg \in Budget /\ requestsEver \in Nat /\ hedgesEver \in Nat
  /\ bg.requests <= requestsEver
  /\ bg.hedges * ShareDen <= ShareNum * bg.requests * bg.unit
  /\ (hedgesEver * bg.unit - bg.hedges) * ShareDen
       <= ShareNum * (requestsEver - bg.requests) * bg.unit

\* The inductive invariant.
BudgetInv == SoundBudget(budget, total, launched)

----------------------------------------------------------------------------
\* Multiplication by a natural number keeps an inequality.
LEMMA TimesMonotonic ==
  ASSUME NEW x \in Int, NEW y \in Int, NEW k \in Nat, x <= y
  PROVE  k * x <= k * y
<1>1. PICK z \in Nat : y = x + z
  <2>1. y - x \in Nat /\ y = x + (y - x)
    OBVIOUS
  <2> QED BY <2>1
<1>2. k * z \in Nat
  OBVIOUS
<1>3. k * y = k * x + k * z
  BY <1>1
<1> QED BY <1>2, <1>3

\* A common positive factor can be dropped.
LEMMA DropFactor ==
  ASSUME NEW x \in Int, NEW y \in Int, NEW k \in Nat \ {0}, k * x <= k * y
  PROVE  x <= y
<1>1. ASSUME y + 1 <= x PROVE FALSE
  <2>1. k * (y + 1) <= k * x
    BY <1>1, TimesMonotonic
  <2>2. k * (y + 1) = k * y + k
    OBVIOUS
  <2> QED BY <2>1, <2>2
<1> QED BY <1>1

\* A sound budget stays within the share of all requests.
LEMMA SoundMeansShare ==
  ASSUME NEW bg, NEW q \in Nat, NEW h \in Nat, SoundBudget(bg, q, h)
  PROVE  h * ShareDen <= ShareNum * q
<1> DEFINE u == bg.unit
<1>1. u \in Nat \ {0} /\ bg.hedges \in Nat /\ bg.requests \in Nat
      /\ ShareNum \in Nat /\ ShareDen \in Nat
  BY HedgeBudgetAssumption DEF SoundBudget, Budget
<1>2. bg.hedges * ShareDen + (h * u - bg.hedges) * ShareDen
        <= ShareNum * bg.requests * u + ShareNum * (q - bg.requests) * u
  BY <1>1 DEF SoundBudget
<1>3. bg.hedges * ShareDen + (h * u - bg.hedges) * ShareDen = u * (h * ShareDen)
  BY <1>1
<1>4. ShareNum * bg.requests * u + ShareNum * (q - bg.requests) * u = u * (ShareNum * q)
  BY <1>1
<1> DEFINE x == h * ShareDen
           y == ShareNum * q
<1>5. x \in Int /\ y \in Int
  BY <1>1
<1>6. u * x <= u * y
  BY <1>2, <1>3, <1>4
<1> HIDE DEF u, x, y
<1>7. x <= y
  BY <1>1, <1>5, <1>6, DropFactor
<1> QED BY <1>7 DEF x, y

\* HedgeBudget.Request, without the decay.
LEMMA CountedIsSound ==
  ASSUME NEW bg, NEW q \in Nat, NEW h \in Nat, SoundBudget(bg, q, h)
  PROVE  SoundBudget([bg EXCEPT !.requests = @ + 1], q + 1, h)
<1> DEFINE c == [bg EXCEPT !.requests = @ + 1]
<1>1. bg \in Budget
  BY DEF SoundBudget
<1>2. c \in Budget /\ c.requests = bg.requests + 1 /\ c.hedges = bg.hedges /\ c.unit = bg.unit
  BY <1>1 DEF Budget
<1>3. bg.requests \in Nat /\ bg.unit \in Nat /\ bg.hedges \in Nat
      /\ ShareNum \in Nat /\ ShareDen \in Nat
  BY <1>1, HedgeBudgetAssumption DEF Budget
<1>4. ShareNum * c.requests * c.unit = ShareNum * bg.requests * bg.unit + ShareNum * bg.unit
  BY <1>2, <1>3
<1>5. ShareNum * bg.unit \in Nat
  BY <1>3
<1>6. c.hedges * ShareDen <= ShareNum * c.requests * c.unit
  BY <1>2, <1>3, <1>4, <1>5 DEF SoundBudget
<1>7. (q + 1) - c.requests = q - bg.requests
  BY <1>2, <1>3
<1> QED BY <1>2, <1>3, <1>6, <1>7 DEF SoundBudget

\* HedgeBudget.decay: what leaves the window was within the share too.
LEMMA DecayedIsSound ==
  ASSUME NEW bg, NEW q \in Nat, NEW h \in Nat, SoundBudget(bg, q, h)
  PROVE  SoundBudget(Decayed(bg), q, h)
<1>1. CASE ~(bg.requests > HedgeWindow)
  BY <1>1 DEF Decayed
<1>2. CASE bg.requests > HedgeWindow
  <2> DEFINE R == bg.requests
             W == HedgeWindow
             H == bg.hedges
             u == bg.unit
             N == ShareNum
             D == ShareDen
             d == Decayed(bg)
  <2>1. /\ R \in Nat \ {0} /\ W \in Nat \ {0} /\ H \in Nat /\ u \in Nat \ {0}
        /\ N \in Nat /\ D \in Nat /\ R - W \in Nat /\ W < R
    BY <1>2, HedgeBudgetAssumption DEF SoundBudget, Budget
  <2>2. d = [requests |-> W, hedges |-> H * W, unit |-> u * R]
    BY <1>2 DEF Decayed
  <2>3. H * D <= N * R * u /\ (h * u - H) * D <= N * (q - R) * u /\ R <= q
    BY DEF SoundBudget
  <2>4. u * R \in Nat \ {0} /\ H * W \in Nat
    BY <2>1
  <2>5. d \in Budget /\ d.requests = W /\ d.hedges = H * W /\ d.unit = u * R
    BY <2>1, <2>2, <2>4 DEF Budget
  <2> HIDE DEF R, W, H, u, N, D, d
  <2>6. (H * W) * D <= N * W * (u * R)
    <3>1. W * (H * D) <= W * (N * R * u)
      BY <2>1, <2>3, TimesMonotonic
    <3> QED BY <2>1, <3>1
  <2>7. (h * (u * R) - H * W) * D <= N * (q - W) * (u * R)
    <3>1. R * ((h * u - H) * D) <= R * (N * (q - R) * u)
      BY <2>1, <2>3, TimesMonotonic
    <3>2. (R - W) * (H * D) <= (R - W) * (N * R * u)
      BY <2>1, <2>3, TimesMonotonic
    <3>3. (h * (u * R) - H * W) * D = R * ((h * u - H) * D) + (R - W) * (H * D)
      BY <2>1
    <3>4. N * (q - W) * (u * R) = R * (N * (q - R) * u) + (R - W) * (N * R * u)
      BY <2>1
    <3> QED BY <2>1, <3>1, <3>2, <3>3, <3>4
  <2>8. W <= q
    BY <2>1, <2>3
  <2> QED BY <2>5, <2>6, <2>7, <2>8 DEF SoundBudget, N, D, d
<1> QED BY <1>1, <1>2

LEMMA RequestIsSound ==
  ASSUME BudgetInv, budget' = AfterRequest(budget), total' = total + 1, UNCHANGED launched
  PROVE  BudgetInv'
BY CountedIsSound, DecayedIsSound DEF BudgetInv, AfterRequest, SoundBudget

\* HedgeBudget.Allow.
LEMMA HedgeIsSound ==
  ASSUME BudgetInv, AllowsHedge(budget), budget' = AfterHedge(budget),
         launched' = launched + 1, UNCHANGED total
  PROVE  BudgetInv'
<1>1. /\ budget.requests \in Nat /\ budget.hedges \in Nat /\ budget.unit \in Nat \ {0}
      /\ launched \in Nat /\ total \in Nat /\ ShareNum \in Nat /\ ShareDen \in Nat
  BY HedgeBudgetAssumption DEF BudgetInv, SoundBudget, Budget
<1>2. /\ budget' \in Budget
      /\ budget'.requests = budget.requests /\ budget'.unit = budget.unit
      /\ budget'.hedges = budget.hedges + budget.unit
  BY <1>1 DEF BudgetInv, SoundBudget, Budget, AfterHedge
<1>3. launched' * budget'.unit - budget'.hedges = launched * budget.unit - budget.hedges
  BY <1>1, <1>2
<1> QED BY <1>1, <1>2, <1>3 DEF BudgetInv, SoundBudget, AllowsHedge

LEMMA BudgetStep ==
  ASSUME BudgetInv, [HedgedNext]_hedgedVars
  PROVE  BudgetInv'
<1>1. CASE UNCHANGED budgetVars
  BY <1>1 DEF BudgetInv, budgetVars
<1>2. ASSUME NEW r \in Requests, StartRace(r) PROVE BudgetInv'
  BY <1>2, RequestIsSound DEF StartRace
<1>3. ASSUME NEW r \in Requests, TimerFires(r) PROVE BudgetInv'
  <2>1. CASE AllowsHedge(budget)
    BY <1>3, <2>1, HedgeIsSound DEF TimerFires
  <2>2. CASE ~AllowsHedge(budget)
    BY <1>1, <1>3, <2>2 DEF TimerFires, budgetVars
  <2> QED BY <2>1, <2>2
<1>4. CASE OthersRequest
  BY <1>4, RequestIsSound DEF OthersRequest
<1>5. CASE OthersHedge
  BY <1>5, HedgeIsSound DEF OthersHedge
<1>6. ASSUME NEW r \in Requests, Main(r) PROVE BudgetInv'
  <2>1. CASE ReceiveSuccess(r) \/ ReceiveFailure(r) \/ RaceContext(r)
    BY <1>1, <2>1 DEF ReceiveSuccess, ReceiveFailure, RaceContext
  <2>2. CASE ExecuteStep(r)
    BY <1>1, <2>2 DEF ExecuteStep, ExecuteServes
  <2> QED BY <1>1, <1>2, <1>3, <1>6, <2>1, <2>2 DEF Main
<1>7. ASSUME NEW r \in Requests, NEW i \in Slots,
             Discard(r) \/ AttemptReturns(r, i) \/ Watch(r, i)
      PROVE  BudgetInv'
  BY <1>1, <1>7 DEF Discard, AttemptReturns, Watch
<1>8. CASE UNCHANGED hedgedVars
  BY <1>1, <1>8 DEF hedgedVars
<1> QED BY <1>1, <1>4, <1>5, <1>6, <1>7, <1>8 DEF HedgedNext, Slots

\* The budget's counters stay sound along every behaviour.
THEOREM BudgetInvariance == HedgedSpec => []BudgetInv
<1>1. HedgedInit => BudgetInv
  BY HedgeBudgetAssumption DEF HedgedInit, BudgetInv, SoundBudget, Budget, NewBudget
<1>2. BudgetInv /\ [HedgedNext]_hedgedVars => BudgetInv'
  BY BudgetStep
<1> QED BY <1>1, <1>2, PTL DEF HedgedSpec

\* The promise of max_extra: over the life of a route no more than that share of its
\* requests is hedged, although the window forgets requests and hedges as it decays.
THEOREM ShareKept == HedgedSpec => []HedgesWithinShare
<1>1. BudgetInv => HedgesWithinShare
  BY SoundMeansShare DEF BudgetInv, HedgesWithinShare, SoundBudget
<1> QED BY <1>1, BudgetInvariance, PTL

----------------------------------------------------------------------------
\* The sequence lists nothing twice; two sequences share nothing.
Distinct(s) == \A i, j \in 1 .. Len(s) : s[i] = s[j] => i = j
Apart(s, t) == \A i \in 1 .. Len(s), j \in 1 .. Len(t) : s[i] # t[j]

\* Base plans list each target once, unless the configuration repeats one.
DistinctPlans == \A p \in Plans : Distinct(p)

Outcome == [slot : Slots, err : ErrorKinds \cup {"none"}]

\* The channel s holds an outcome of i, a success of i, and of nobody two.
Has(s, i) == \E k \in 1 .. Len(s) : s[k].slot = i
HasSuccess(s, i) == \E k \in 1 .. Len(s) : s[k].slot = i /\ s[k].err = "none"
Once(s) == \A j, k \in 1 .. Len(s) : s[j].slot = s[k].slot => j = k

\* An outcome of the attempt is still to be received.
Due(r, i) == att[r][i].st = "calling" \/ Has(results[r], i)

DueCount(r) == (IF Due(r, "primary") THEN 1 ELSE 0) + (IF Due(r, "hedge") THEN 1 ELSE 0)

\* The channel holds one outcome at most of each racer that has returned.
ChannelOK(r) ==
  /\ Once(results[r])
  /\ \A i \in Slots : Has(results[r], i) => i \in Racers /\ att[r][i].st = "sent"
  /\ att[r]["rest"].st # "calling"

\* An open stream is the winner's, or is on its way through the channel.
StreamsOK(r) ==
  \A i \in Slots : att[r][i].stream = "open" =>
    streaming[r] /\ (i = race[r].winner \/ HasSuccess(results[r], i))

\* What ExecuteHedged knows of its race.
RaceOK(r) ==
  /\ race[r].st = "none" => drain[r] = 0 /\ \A i \in Racers : att[r][i].st = "none"
  /\ race[r].st = "racing" =>
       /\ pc[r] = "visit" /\ Len(plan[r]) >= 2 /\ drain[r] = 0 /\ race[r].pending = DueCount(r)
       /\ (race[r].timer => ~race[r].hedged) /\ (~race[r].hedged => att[r]["hedge"].st = "none")
       /\ raced[r] = {plan[r][1]} \cup (IF race[r].hedged THEN {plan[r][2]} ELSE {})
  /\ race[r].st = "won" =>
       /\ pc[r] = "returned" /\ race[r].winner \in Racers /\ ~Due(r, race[r].winner)
       /\ drain[r] = IF streaming[r] /\ Due(r, Other(race[r].winner)) THEN 1 ELSE 0
  /\ race[r].st = "lost" => pc[r] = "returned" /\ result[r] # "ok" /\ drain[r] = 0
  /\ race[r].st = "rest" =>
       /\ pc[r] \in Working \cup {"visit", "returned"} /\ drain[r] = 0
       /\ \A i \in Racers : ~Due(r, i)
       /\ DistinctPlans => \A k \in 1 .. Len(plan[r]) : plan[r][k] \notin raced[r]
  /\ pc[r] # "returned" => race[r].winner = "none" /\ result[r] = "none"

\* Order only rearranges.
OrderOK(r) ==
  /\ pc[r] = "idle" => tiers[r] = NoTiers
  /\ DistinctPlans =>
       /\ pc[r] = "order" =>
            /\ Distinct(base[r]) /\ Distinct(tiers[r].healthy) /\ Distinct(tiers[r].slow)
            /\ Distinct(tiers[r].open)
            /\ Apart(base[r], tiers[r].healthy) /\ Apart(base[r], tiers[r].slow)
            /\ Apart(base[r], tiers[r].open) /\ Apart(tiers[r].healthy, tiers[r].slow)
            /\ Apart(tiers[r].healthy, tiers[r].open) /\ Apart(tiers[r].slow, tiers[r].open)
       /\ pc[r] \notin {"idle", "order"} => Distinct(plan[r])

\* Order has something to arrange.
SomeTarget(r) ==
  pc[r] = "order" =>
    \/ base[r] # << >>
    \/ tiers[r].healthy # << >> \/ tiers[r].slow # << >> \/ tiers[r].open # << >>

RaceExhausted(r) ==
  (result[r] = "error" /\ Decision(lastErr[r]) # "done") =>
    IF race[r].st = "lost" THEN \A k \in 1 .. Len(plan[r]) : plan[r][k] \in raced[r] ELSE IsLast(r)

\* Everything the invariant says of one request.
SoundRace(r) ==
  /\ ChannelOK(r) /\ StreamsOK(r) /\ RaceOK(r) /\ OrderOK(r) /\ SomeTarget(r) /\ RaceExhausted(r)

\* The inductive invariant.
RaceInv == HedgedTypeOK /\ BreakersSound /\ OnTarget /\ \A r \in Requests : SoundRace(r)

----------------------------------------------------------------------------
\* Sequences without repetition.
LEMMA DistinctTail ==
  ASSUME NEW S, NEW s \in Seq(S), s # << >>, Distinct(s)
  PROVE  /\ Distinct(Tail(s)) /\ Apart(Tail(s), <<Head(s)>>)
         /\ \A t \in Seq(S) : Apart(s, t) => Apart(Tail(s), t) /\ Apart(<<Head(s)>>, t)
BY DEF Distinct, Apart

LEMMA DistinctAppend ==
  ASSUME NEW S, NEW s \in Seq(S), NEW x \in S
  PROVE  /\ Distinct(s) /\ Apart(<<x>>, s) => Distinct(Append(s, x))
         /\ \A t \in Seq(S) : Apart(t, s) /\ Apart(t, <<x>>) => Apart(t, Append(s, x))
         /\ \A t \in Seq(S) : Apart(s, t) /\ Apart(<<x>>, t) => Apart(Append(s, x), t)
BY DEF Distinct, Apart

LEMMA DistinctJoin ==
  ASSUME NEW S, NEW s \in Seq(S), NEW t \in Seq(S), Distinct(s), Distinct(t), Apart(s, t)
  PROVE  /\ Distinct(s \o t)
         /\ \A u \in Seq(S) : Apart(s, u) /\ Apart(t, u) => Apart(s \o t, u)
BY DEF Distinct, Apart

LEMMA DistinctRest ==
  ASSUME NEW S, NEW s \in Seq(S), Distinct(s), NEW m \in 2 .. 3, Len(s) >= 2
  PROVE  /\ SubSeq(s, m, Len(s)) \in Seq(S) /\ Distinct(SubSeq(s, m, Len(s)))
         /\ \A k \in 1 .. Len(SubSeq(s, m, Len(s))) :
              SubSeq(s, m, Len(s))[k] # s[1] /\ (m = 3 => SubSeq(s, m, Len(s))[k] # s[2])
BY DEF Distinct

\* Receiving from the channel, and sending to it.
LEMMA Received ==
  ASSUME NEW s \in Seq(Outcome), s # << >>, Once(s)
  PROVE  /\ Tail(s) \in Seq(Outcome) /\ Head(s) \in Outcome /\ Once(Tail(s))
         /\ Has(s, Head(s).slot) /\ (HasSuccess(s, Head(s).slot) => Head(s).err = "none")
         /\ \A i : Has(Tail(s), i) <=> Has(s, i) /\ i # Head(s).slot
         /\ \A i : HasSuccess(Tail(s), i) <=> HasSuccess(s, i) /\ i # Head(s).slot
<1>1. /\ Len(s) \in Nat /\ Len(s) >= 1 /\ Len(Tail(s)) = Len(s) - 1 /\ Head(s) = s[1]
      /\ Tail(s) \in Seq(Outcome) /\ Head(s) \in Outcome
      /\ \A k \in 1 .. Len(Tail(s)) : Tail(s)[k] = s[k + 1] /\ k + 1 \in 1 .. Len(s) /\ k + 1 # 1
      /\ \A k \in 1 .. Len(s) : k # 1 => k - 1 \in 1 .. Len(Tail(s)) /\ s[k] = Tail(s)[k - 1]
      /\ 1 \in 1 .. Len(s)
  OBVIOUS
<1>2. Once(Tail(s))
  BY <1>1 DEF Once
<1>3. Has(s, Head(s).slot) /\ (HasSuccess(s, Head(s).slot) => Head(s).err = "none")
  BY <1>1 DEF Has, HasSuccess, Once
<1>4. \A i : Has(Tail(s), i) <=> Has(s, i) /\ i # Head(s).slot
  BY <1>1 DEF Has, Once
<1>5. \A i : HasSuccess(Tail(s), i) <=> HasSuccess(s, i) /\ i # Head(s).slot
  BY <1>1 DEF HasSuccess, Once
<1> QED BY <1>1, <1>2, <1>3, <1>4, <1>5

LEMMA Sent ==
  ASSUME NEW s \in Seq(Outcome), NEW o \in Outcome, Once(s), ~Has(s, o.slot)
  PROVE  /\ Append(s, o) \in Seq(Outcome) /\ Once(Append(s, o))
         /\ \A i : Has(Append(s, o), i) <=> Has(s, i) \/ i = o.slot
         /\ \A i : HasSuccess(Append(s, o), i) <=> HasSuccess(s, i) \/ (i = o.slot /\ o.err = "none")
<1>1. /\ Append(s, o) \in Seq(Outcome) /\ Len(Append(s, o)) = Len(s) + 1 /\ Len(s) \in Nat
      /\ \A k \in 1 .. Len(s) : Append(s, o)[k] = s[k] /\ k \in 1 .. Len(Append(s, o))
      /\ Append(s, o)[Len(s) + 1] = o /\ Len(s) + 1 \in 1 .. Len(Append(s, o))
      /\ \A k \in 1 .. Len(Append(s, o)) : k \in 1 .. Len(s) \/ k = Len(s) + 1
  OBVIOUS
<1>2. Once(Append(s, o))
  BY <1>1 DEF Once, Has
<1>3. \A i : Has(Append(s, o), i) <=> Has(s, i) \/ i = o.slot
  BY <1>1 DEF Has
<1>4. \A i : HasSuccess(Append(s, o), i) <=> HasSuccess(s, i) \/ (i = o.slot /\ o.err = "none")
  BY <1>1 DEF HasSuccess
<1> QED BY <1>1, <1>2, <1>3, <1>4

----------------------------------------------------------------------------
RaceRec == [st : {"none", "racing", "won", "lost", "rest"}, hedged : BOOLEAN,
            pending : 0 .. 2, timer : BOOLEAN, winner : Slots \cup {"none"}]
AttRec == [st : {"none", "calling", "sent"}, cancelled : BOOLEAN,
           watch : {"new", "waiting", "off"}, stream : {"none", "open", "cut"}]

\* The types of what ExecuteHedged and its goroutines write.
RaceTypes ==
  /\ streaming \in [Requests -> BOOLEAN]
  /\ race \in [Requests -> RaceRec]
  /\ att \in [Requests -> [Slots -> AttRec]]
  /\ results \in [Requests -> Seq(Outcome)]
  /\ drain \in [Requests -> 0 .. 1]
  /\ raced \in [Requests -> SUBSET Targets]

LEMMA HedgedTypes ==
  /\ HedgedTypeOK <=> TypeOK /\ budget \in Budget /\ total \in Nat /\ launched \in Nat /\ RaceTypes
  /\ HedgedTypeOK' <=>
       TypeOK' /\ budget' \in Budget /\ total' \in Nat /\ launched' \in Nat /\ RaceTypes'
BY DEF HedgedTypeOK, RaceTypes, RaceRec, AttRec, Outcome

\* Nothing of the request's race changes.
SameRace(q) ==
  /\ streaming'[q] = streaming[q] /\ race'[q] = race[q] /\ att'[q] = att[q]
  /\ results'[q] = results[q] /\ drain'[q] = drain[q] /\ raced'[q] = raced[q]

LEMMA SameIsSound ==
  ASSUME NEW q \in Requests, SoundRace(q), SameRequest(q), SameRace(q)
  PROVE  SoundRace(q)'
<1> USE DEF SameRequest, SameRace
<1>1. \A i : Due(q, i)' <=> Due(q, i)
  BY DEF Due
<1>2. DueCount(q)' = DueCount(q)
  BY <1>1 DEF DueCount
<1>3. ChannelOK(q)' /\ StreamsOK(q)'
  BY DEF SoundRace, ChannelOK, StreamsOK
<1>4. RaceOK(q)'
  BY <1>1, <1>2 DEF SoundRace, RaceOK
<1>5. OrderOK(q)' /\ SomeTarget(q)' /\ RaceExhausted(q)'
  BY DEF SoundRace, OrderOK, SomeTarget, RaceExhausted, IsLast
<1> QED BY <1>3, <1>4, <1>5 DEF SoundRace

\* What the invariant says, taken apart.
LEMMA RaceFacts ==
  ASSUME RaceInv
  PROVE  TypeOK /\ RaceTypes /\ BreakersSound /\ OnTarget /\ Grounded
BY HedgedTypes DEF RaceInv, Grounded

\* A step of one request: the others keep what they have.
LEMMA OneRequest ==
  ASSUME RaceInv, NEW r \in Requests, SoundRace(r)', TypeOK', RaceTypes', BreakersSound', OnTarget',
         budget' \in Budget, total' \in Nat, launched' \in Nat,
         \A q \in Requests \ {r} : SameRequest(q) /\ SameRace(q)
  PROVE  RaceInv'
<1>1. \A q \in Requests : SoundRace(q)'
  BY SameIsSound DEF RaceInv
<1> QED BY <1>1, HedgedTypes DEF RaceInv

\* The budget's steps keep its type.
LEMMA BudgetTypes ==
  ASSUME budget \in Budget, total \in Nat, launched \in Nat
  PROVE  /\ AfterRequest(budget) \in Budget /\ AfterHedge(budget) \in Budget
         /\ total + 1 \in Nat /\ launched + 1 \in Nat
<1>1. [budget EXCEPT !.requests = @ + 1] \in Budget
  BY DEF Budget
<1>2. \A b \in Budget : Decayed(b) \in Budget
  <2> SUFFICES ASSUME NEW b \in Budget PROVE Decayed(b) \in Budget
    OBVIOUS
  <2>1. CASE b.requests > HedgeWindow
    <3>1. /\ b.requests \in Nat \ {0} /\ b.hedges \in Nat /\ b.unit \in Nat \ {0}
          /\ HedgeWindow \in Nat
      BY <2>1, HedgeBudgetAssumption DEF Budget
    <3>2. b.hedges * HedgeWindow \in Nat /\ b.unit * b.requests \in Nat \ {0}
      BY <3>1
    <3> QED BY <2>1, <3>1, <3>2 DEF Decayed, Budget
  <2> QED BY <2>1 DEF Decayed
<1> QED BY <1>1, <1>2 DEF AfterRequest, AfterHedge, Budget

\* A step that no request takes.
LEMMA QuietStep ==
  ASSUME RaceInv, UNCHANGED <<pc, base, tiers, plan, ti, n, attempts, lastErr, result>>,
         UNCHANGED raceVars, TypeOK', BreakersSound',
         budget' \in Budget, total' \in Nat, launched' \in Nat
  PROVE  RaceInv'
<1>1. \A q \in Requests : SameRequest(q) /\ SameRace(q)
  BY DEF SameRequest, SameRace, raceVars
<1>2. \A q \in Requests : SoundRace(q)'
  BY <1>1, SameIsSound DEF RaceInv
<1>3. RaceTypes'
  BY RaceFacts DEF RaceTypes, raceVars
<1>4. OnTarget'
  BY RaceFacts DEF OnTarget
<1> QED BY <1>2, <1>3, <1>4, HedgedTypes DEF RaceInv

----------------------------------------------------------------------------
\* A request at a target is at one of its plan.
AtTarget(r) == pc[r] \in Working \cup {"visit"} => ti[r] \in 1 .. Len(plan[r])

\* Where a request is, and the race it can be in there.
LEMMA RaceAt ==
  ASSUME RaceInv, NEW r \in Requests
  PROVE  /\ pc[r] \in {"idle", "order"} => race[r].st = "none"
         /\ pc[r] \in Working => race[r].st \in {"none", "rest"}
         /\ pc[r] = "visit" => race[r].st \in {"none", "rest", "racing"}
         /\ race[r].st = "racing" => Len(plan[r]) >= 2
         /\ SoundRace(r)
         /\ pc[r] # "returned" => result[r] = "none" /\ race[r].winner = "none"
         /\ pc[r] \in {"idle", "order", "visit", "returned"} \cup Working
         /\ Len(plan[r]) \in Nat
<1>1. SoundRace(r) /\ RaceOK(r)
  BY DEF RaceInv, SoundRace
<1>2. race[r] \in RaceRec /\ Len(plan[r]) \in Nat
  BY RaceFacts DEF RaceTypes, TypeOK
<1>3. race[r].st \in {"none", "racing", "won", "lost", "rest"}
  BY <1>2 DEF RaceRec
<1>4. pc[r] \in {"idle", "order", "visit", "returned"} \cup Working
  BY RaceFacts DEF TypeOK
<1> QED BY <1>1, <1>2, <1>3, <1>4 DEF RaceOK, Working

\* A step of Order or Execute keeps the race sound.
LEMMA MoveSound ==
  ASSUME RaceInv, NEW r \in Requests, SameRace(r), pc[r] # "returned",
         race[r].st \in {"none", "rest"},
         race[r].st = "rest" => pc'[r] \in Working \cup {"visit", "returned"} /\ plan'[r] = plan[r],
         pc'[r] # "returned" => result'[r] = "none",
         (result'[r] = "error" /\ Decision(lastErr'[r]) # "done") => IsLast(r)',
         OrderOK(r)', SomeTarget(r)'
  PROVE  SoundRace(r)'
<1> USE DEF SameRace
<1>1. SoundRace(r) /\ race[r].winner = "none"
  BY RaceAt
<1>2. \A i : Due(r, i)' <=> Due(r, i)
  BY DEF Due
<1>3. ChannelOK(r)' /\ StreamsOK(r)'
  BY <1>1 DEF SoundRace, ChannelOK, StreamsOK
<1>4. RaceOK(r)'
  BY <1>1, <1>2 DEF SoundRace, RaceOK
<1>5. RaceExhausted(r)'
  BY DEF RaceExhausted
<1> QED BY <1>3, <1>4, <1>5 DEF SoundRace

\* A step of Order or Execute, as a step of the whole.
LEMMA MoveStep ==
  ASSUME RaceInv, NEW r \in Requests, Start(r) \/ Progress(r) \/ ContextEnds(r),
         UNCHANGED budgetVars, SoundRace(r)', AtTarget(r)', RaceTypes',
         \A q \in Requests \ {r} : SameRace(q)
  PROVE  RaceInv'
<1>1. Next
  BY DEF Next
<1>2. TypeOK' /\ BreakersSound'
  BY <1>1, RaceFacts, NextType, NextBreakers
<1>3. \A q \in Requests \ {r} : SameRequest(q)
  BY RaceFacts, Frame
<1>4. OnTarget'
  <2>1. OnTarget
    BY RaceFacts
  <2> QED BY <1>3, <2>1 DEF OnTarget, AtTarget, SameRequest
<1>5. budget' \in Budget /\ total' \in Nat /\ launched' \in Nat
  BY HedgedTypes DEF RaceInv, budgetVars
<1> QED BY <1>2, <1>3, <1>4, <1>5, OneRequest

LEMMA SameRaces ==
  ASSUME RaceInv, UNCHANGED raceVars
  PROVE  RaceTypes' /\ \A q \in Requests : SameRace(q)
BY RaceFacts DEF RaceTypes, SameRace, raceVars

LEMMA StartStep ==
  ASSUME RaceInv, NEW r \in Requests, Start(r), UNCHANGED <<budgetVars, raceVars>>
  PROVE  RaceInv'
<1>1. PICK p \in Plans : base' = [base EXCEPT ![r] = p]
  BY DEF Start
<1>2. /\ pc[r] = "idle" /\ pc'[r] = "order" /\ base'[r] = p /\ tiers'[r] = tiers[r]
      /\ plan'[r] = plan[r] /\ result'[r] = result[r] /\ lastErr'[r] = lastErr[r]
  BY <1>1, RaceFacts DEF Start, TypeOK, errVars, loopVars
<1>3. race[r].st = "none" /\ result[r] = "none" /\ SoundRace(r)
  BY <1>2, RaceAt
<1>4. tiers[r] = NoTiers
  BY <1>2, <1>3 DEF SoundRace, OrderOK
<1>5. p # << >> /\ (DistinctPlans => Distinct(p))
  BY ExecuteAssumption DEF DistinctPlans
<1>6. SomeTarget(r)'
  BY <1>2, <1>5 DEF SomeTarget
<1>7. OrderOK(r)'
  BY <1>2, <1>4, <1>5 DEF OrderOK, NoTiers, Distinct, Apart
<1>8. SoundRace(r)'
  BY <1>2, <1>3, <1>6, <1>7, SameRaces, MoveSound
<1>9. AtTarget(r)'
  BY <1>2 DEF AtTarget, Working
<1> QED BY <1>8, <1>9, SameRaces, MoveStep

LEMMA OrderTargetStep ==
  ASSUME RaceInv, NEW r \in Requests, OrderTarget(r), UNCHANGED <<budgetVars, raceVars>>
  PROVE  RaceInv'
<1>1. PICK tier \in {"healthy", "slow", "open"} :
        tiers' = [tiers EXCEPT ![r][tier] = Append(@, Head(base[r]))]
  BY DEF OrderTarget
<1>2. /\ pc[r] = "order" /\ pc'[r] = "order" /\ base[r] # << >> /\ base'[r] = Tail(base[r])
      /\ plan'[r] = plan[r] /\ result'[r] = result[r] /\ lastErr'[r] = lastErr[r]
      /\ base[r] \in Seq(Targets) /\ Head(base[r]) \in Targets
  BY RaceFacts DEF OrderTarget, TypeOK, errVars, loopVars
<1>3. /\ tiers[r] \in [healthy : Seq(Targets), slow : Seq(Targets), open : Seq(Targets)]
      /\ tiers'[r] = [tiers[r] EXCEPT ![tier] = Append(tiers[r][tier], Head(base[r]))]
  BY <1>1, RaceFacts DEF TypeOK
<1>4. race[r].st = "none" /\ result[r] = "none" /\ OrderOK(r)
  BY <1>2, RaceAt DEF SoundRace
<1>5. \A i \in {"healthy", "slow", "open"} :
        /\ tiers[r][i] \in Seq(Targets)
        /\ tiers'[r][i] = IF i = tier THEN Append(tiers[r][i], Head(base[r])) ELSE tiers[r][i]
  BY <1>3
<1>6. SomeTarget(r)'
  <2>1. Append(tiers[r][tier], Head(base[r])) # << >>
    BY <1>2, <1>5
  <2>2. tiers'[r][tier] # << >>
    BY <1>5, <2>1
  <2> QED BY <2>2 DEF SomeTarget
<1>7. ASSUME DistinctPlans
      PROVE  /\ Distinct(base'[r])
             /\ \A i \in {"healthy", "slow", "open"} : Distinct(tiers'[r][i]) /\ Apart(base'[r], tiers'[r][i])
             /\ Apart(tiers'[r].healthy, tiers'[r].slow)
             /\ Apart(tiers'[r].healthy, tiers'[r].open) /\ Apart(tiers'[r].slow, tiers'[r].open)
  <2> DEFINE x == Head(base[r])
  <2>1. /\ Distinct(base[r])
        /\ \A i \in {"healthy", "slow", "open"} : Distinct(tiers[r][i]) /\ Apart(base[r], tiers[r][i])
        /\ Apart(tiers[r].healthy, tiers[r].slow)
        /\ Apart(tiers[r].healthy, tiers[r].open) /\ Apart(tiers[r].slow, tiers[r].open)
    BY <1>2, <1>4, <1>7 DEF OrderOK
  <2>2. /\ Distinct(Tail(base[r])) /\ Apart(Tail(base[r]), <<x>>) /\ Tail(base[r]) \in Seq(Targets)
        /\ \A i \in {"healthy", "slow", "open"} :
             Apart(Tail(base[r]), tiers[r][i]) /\ Apart(<<x>>, tiers[r][i]) /\ Apart(tiers[r][i], <<x>>)
    <3>1. Distinct(Tail(base[r])) /\ Apart(Tail(base[r]), <<x>>) /\ Tail(base[r]) \in Seq(Targets)
      BY <1>2, <2>1, DistinctTail
    <3>2. ASSUME NEW i \in {"healthy", "slow", "open"}
          PROVE  Apart(Tail(base[r]), tiers[r][i]) /\ Apart(<<x>>, tiers[r][i])
      BY <1>2, <1>5, <2>1, DistinctTail
    <3>3. ASSUME NEW i \in {"healthy", "slow", "open"} PROVE Apart(tiers[r][i], <<x>>)
      BY <1>5, <3>2 DEF Apart
    <3> QED BY <3>1, <3>2, <3>3
  <2> HIDE DEF x
  <2>3. \A i \in {"healthy", "slow", "open"} :
          tiers'[r][i] = IF i = tier THEN Append(tiers[r][i], x) ELSE tiers[r][i]
    BY <1>5 DEF x
  <2>4. x \in Targets
    BY <1>2 DEF x
  <2>5. \A i \in {"healthy", "slow", "open"} : Distinct(tiers'[r][i]) /\ Apart(base'[r], tiers'[r][i])
    <3> SUFFICES ASSUME NEW i \in {"healthy", "slow", "open"}
                 PROVE  Distinct(tiers'[r][i]) /\ Apart(base'[r], tiers'[r][i])
      OBVIOUS
    <3>1. CASE i = tier
      <4>1. tiers'[r][i] = Append(tiers[r][i], x) /\ tiers[r][i] \in Seq(Targets)
        BY <1>5, <2>3, <3>1
      <4>2. /\ Distinct(tiers[r][i]) /\ Apart(<<x>>, tiers[r][i])
            /\ Apart(Tail(base[r]), tiers[r][i]) /\ Apart(Tail(base[r]), <<x>>)
            /\ Tail(base[r]) \in Seq(Targets)
        BY <2>1, <2>2
      <4> QED BY <1>2, <2>4, <4>1, <4>2, DistinctAppend
    <3>2. CASE i # tier
      BY <1>2, <2>1, <2>2, <2>3, <3>2
    <3> QED BY <3>1, <3>2
  <2>6. ASSUME NEW i \in {"healthy", "slow", "open"}, NEW j \in {"healthy", "slow", "open"},
               i # j, Apart(tiers[r][i], tiers[r][j])
        PROVE  Apart(tiers'[r][i], tiers'[r][j])
    <3>1. CASE i = tier
      BY <1>5, <2>2, <2>3, <2>4, <2>6, <3>1, DistinctAppend
    <3>2. CASE j = tier
      BY <1>5, <2>2, <2>3, <2>4, <2>6, <3>2, DistinctAppend
    <3> QED BY <2>3, <2>6, <3>1, <3>2
  <2> QED BY <1>2, <2>1, <2>2, <2>5, <2>6
<1>8. OrderOK(r)'
  BY <1>2, <1>7 DEF OrderOK
<1>9. SoundRace(r)'
  BY <1>2, <1>4, <1>6, <1>8, SameRaces, MoveSound
<1>10. AtTarget(r)'
  BY <1>2 DEF AtTarget, Working
<1> QED BY <1>9, <1>10, SameRaces, MoveStep DEF Progress

LEMMA OrderDoneStep ==
  ASSUME RaceInv, NEW r \in Requests, OrderDone(r), UNCHANGED <<budgetVars, raceVars>>
  PROVE  RaceInv'
<1> DEFINE h == tiers[r].healthy
           s == tiers[r].slow
           o == tiers[r].open
<1>1. /\ pc[r] = "order" /\ pc'[r] = "visit" /\ base[r] = << >> /\ plan'[r] = h \o s \o o
      /\ result'[r] = result[r] /\ lastErr'[r] = lastErr[r] /\ ti'[r] = 1
      /\ h \in Seq(Targets) /\ s \in Seq(Targets) /\ o \in Seq(Targets)
  BY RaceFacts DEF OrderDone, TypeOK, errVars, loopVars
<1>2. race[r].st = "none" /\ result[r] = "none" /\ OrderOK(r) /\ SomeTarget(r)
  BY <1>1, RaceAt DEF SoundRace
<1>3. h # << >> \/ s # << >> \/ o # << >>
  BY <1>1, <1>2 DEF SomeTarget
<1>4. DistinctPlans => /\ Distinct(h) /\ Distinct(s) /\ Distinct(o)
                       /\ Apart(h, s) /\ Apart(h, o) /\ Apart(s, o)
  BY <1>1, <1>2 DEF OrderOK
<1> HIDE DEF h, s, o
<1>5. DistinctPlans => Distinct(h \o s \o o)
  <2> SUFFICES ASSUME DistinctPlans PROVE Distinct((h \o s) \o o)
    OBVIOUS
  <2>1. h \o s \in Seq(Targets) /\ Distinct(h \o s) /\ Apart(h \o s, o)
    BY <1>1, <1>4, DistinctJoin
  <2> QED BY <1>1, <1>4, <2>1, DistinctJoin
<1>6. 1 \in 1 .. Len(h \o s \o o)
  BY <1>1, <1>3
<1>7. OrderOK(r)' /\ SomeTarget(r)'
  BY <1>1, <1>5 DEF OrderOK, SomeTarget
<1>8. SoundRace(r)'
  BY <1>1, <1>2, <1>7, SameRaces, MoveSound
<1>9. AtTarget(r)'
  BY <1>1, <1>6 DEF AtTarget
<1> QED BY <1>8, <1>9, SameRaces, MoveStep DEF Progress

----------------------------------------------------------------------------
\* Leaving a target: for the next one of the plan, or for good after the last.
LEMMA LeaveMoves ==
  ASSUME TypeOK, NEW r \in Requests, LeaveTarget(r), ti[r] \in 1 .. Len(plan[r]), UNCHANGED plan
  PROVE  \/ pc'[r] = "returned" /\ result'[r] = "error" /\ lastErr'[r] = lastErr[r] /\ IsLast(r)'
         \/ pc'[r] = "visit" /\ result'[r] = result[r] /\ ti'[r] \in 1 .. Len(plan'[r])
<1>1. CASE IsLast(r)
  BY <1>1 DEF LeaveTarget, Return, IsLast, TypeOK
<1>2. CASE ~IsLast(r)
  <2>1. /\ pc'[r] = "visit" /\ result'[r] = result[r] /\ ti'[r] = ti[r] + 1 /\ plan'[r] = plan[r]
    BY <1>2 DEF LeaveTarget, TypeOK, errVars
  <2>2. ti[r] # Len(plan[r]) /\ Len(plan[r]) \in Nat
    BY <1>2 DEF IsLast, TypeOK
  <2> QED BY <2>1, <2>2
<1> QED BY <1>1, <1>2

\* What a step of Execute's loop does to its request.
Moved(r) ==
  /\ plan'[r] = plan[r] /\ base'[r] = base[r] /\ tiers'[r] = tiers[r]
  /\ pc'[r] \in Working \cup {"visit", "returned"}
  /\ AtTarget(r)'
  /\ pc'[r] # "returned" => result'[r] = "none"
  /\ (result'[r] = "error" /\ Decision(lastErr'[r]) # "done") => IsLast(r)'

LEMMA ExecuteMoves ==
  ASSUME TypeOK, NEW r \in Requests, AtTarget(r), result[r] = "none",
         Visit(r) \/ CallSucceeds(r) \/ CallFails(r) \/ Classify(r) \/ Wake(r)
  PROVE  Moved(r)
<1>0. pc[r] \in Working \cup {"visit"}
  BY DEF Visit, CallSucceeds, CallFails, Classify, Wake, Working
<1>1. ti[r] \in 1 .. Len(plan[r])
  BY <1>0 DEF AtTarget
<1>2. UNCHANGED planVars
  BY DEF Visit, CallSucceeds, CallFails, Classify, Wake
<1>3. plan'[r] = plan[r] /\ base'[r] = base[r] /\ tiers'[r] = tiers[r] /\ UNCHANGED plan
  BY <1>2 DEF planVars
<1>4. ASSUME LeaveTarget(r) PROVE Moved(r)
  <2>1. \/ pc'[r] = "returned" /\ IsLast(r)'
        \/ pc'[r] = "visit" /\ result'[r] = result[r] /\ ti'[r] \in 1 .. Len(plan'[r])
    BY <1>1, <1>3, <1>4, LeaveMoves
  <2> QED BY <1>3, <2>1 DEF Moved, AtTarget, Working
<1>5. ASSUME NEW res, NEW err, Return(r, res, err), res = "error" => Decision(err) = "done"
      PROVE  Moved(r)
  <2>1. pc'[r] = "returned" /\ result'[r] = res /\ lastErr'[r] = err
    BY <1>5 DEF Return, TypeOK
  <2> QED BY <1>3, <1>5, <2>1 DEF Moved, AtTarget, Working
<1>6. ASSUME pc'[r] \in Working \cup {"visit"}, result'[r] = "none", ti'[r] = ti[r] PROVE Moved(r)
  BY <1>1, <1>3, <1>6 DEF Moved, AtTarget, Working
<1>7. ASSUME ReturnContext(r) PROVE Moved(r)
  BY <1>5, <1>7 DEF ReturnContext
<1>8. CASE Visit(r)
  <2>1. CASE LeaveTarget(r) \/ ReturnContext(r)
    BY <1>4, <1>7, <2>1
  <2>2. CASE pc' = [pc EXCEPT ![r] = "call"] /\ UNCHANGED <<ti, errVars>>
    <3>1. pc'[r] = "call" /\ result'[r] = result[r] /\ ti'[r] = ti[r]
      BY <2>2 DEF TypeOK, errVars
    <3> QED BY <1>6, <3>1 DEF Working
  <2> QED BY <1>8, <2>1, <2>2 DEF Visit
<1>9. CASE CallSucceeds(r)
  BY <1>5, <1>9 DEF CallSucceeds
<1>10. CASE CallFails(r)
  <2>1. pc'[r] = "failed" /\ result'[r] = result[r] /\ ti'[r] = ti[r]
    BY <1>10 DEF CallFails, TypeOK
  <2> QED BY <1>6, <2>1 DEF Working
<1>11. CASE Classify(r)
  <2>1. CASE LeaveTarget(r) \/ ReturnContext(r)
    BY <1>4, <1>7, <2>1
  <2>2. CASE Decision(lastErr[r]) = "done" /\ Return(r, "error", lastErr[r])
    BY <1>5, <2>2
  <2>3. CASE pc' = [pc EXCEPT ![r] = "sleep"] /\ UNCHANGED <<ti, n, errVars>>
    <3>1. pc'[r] = "sleep" /\ result'[r] = result[r] /\ ti'[r] = ti[r]
      BY <2>3 DEF TypeOK, errVars
    <3> QED BY <1>6, <3>1 DEF Working
  <2> QED BY <1>11, <2>1, <2>2, <2>3 DEF Classify
<1>12. CASE Wake(r)
  <2>1. CASE ReturnContext(r)
    BY <1>7, <2>1
  <2>2. CASE pc' = [pc EXCEPT ![r] = "call"] /\ UNCHANGED errVars
    <3>1. pc'[r] = "call" /\ result'[r] = result[r] /\ ti'[r] = ti[r]
      BY <1>12, <2>2 DEF Wake, TypeOK, errVars
    <3> QED BY <1>6, <3>1 DEF Working
  <2> QED BY <1>12, <2>1, <2>2 DEF Wake
<1> QED BY <1>8, <1>9, <1>10, <1>11, <1>12

\* Execute works on a request whose race is over, or that had none.
LEMMA ExecuteAt ==
  ASSUME RaceInv, NEW r \in Requests, Executing(r),
         Visit(r) \/ CallSucceeds(r) \/ CallFails(r) \/ Classify(r) \/ Wake(r)
  PROVE  /\ race[r].st \in {"none", "rest"} /\ pc[r] \in Working \cup {"visit"}
         /\ Moved(r) /\ OrderOK(r)' /\ SomeTarget(r)' /\ SoundRace(r)
<1>1. pc[r] \in Working \cup {"visit"}
  BY DEF Visit, CallSucceeds, CallFails, Classify, Wake, Working
<1>2. race[r].st \in {"none", "rest"} /\ result[r] = "none" /\ SoundRace(r)
  BY <1>1, RaceAt DEF Executing, Working
<1>3. AtTarget(r)
  BY RaceFacts DEF AtTarget, OnTarget
<1>4. Moved(r)
  BY <1>2, <1>3, RaceFacts, ExecuteMoves
<1>5. OrderOK(r)'
  BY <1>1, <1>2, <1>4 DEF SoundRace, OrderOK, Moved, Working
<1>6. SomeTarget(r)'
  BY <1>4 DEF SomeTarget, Moved, Working
<1> QED BY <1>1, <1>2, <1>4, <1>5, <1>6

LEMMA ExecuteLoopStep ==
  ASSUME RaceInv, NEW r \in Requests, Executing(r),
         Visit(r) \/ CallFails(r) \/ Classify(r) \/ Wake(r), UNCHANGED <<budgetVars, raceVars>>
  PROVE  RaceInv'
<1>1. /\ race[r].st \in {"none", "rest"} /\ pc[r] \in Working \cup {"visit"}
      /\ Moved(r) /\ OrderOK(r)' /\ SomeTarget(r)'
  BY ExecuteAt
<1>2. SoundRace(r)'
  BY <1>1, SameRaces, MoveSound DEF Moved, Working
<1>3. AtTarget(r)'
  BY <1>1 DEF Moved
<1> QED BY <1>2, <1>3, SameRaces, MoveStep DEF Progress

LEMMA ContextStep ==
  ASSUME RaceInv, NEW r \in Requests, ContextEnds(r), UNCHANGED <<budgetVars, raceVars>>
  PROVE  RaceInv'
<1>1. SameRequest(r)
  BY DEF ContextEnds, SameRequest, planVars, loopVars, errVars
<1>2. SoundRace(r)'
  BY <1>1, SameRaces, SameIsSound DEF RaceInv
<1>3. AtTarget(r)'
  <2>1. AtTarget(r)
    BY RaceFacts DEF AtTarget, OnTarget
  <2> QED BY <1>1, <2>1 DEF AtTarget, SameRequest
<1> QED BY <1>2, <1>3, SameRaces, MoveStep

----------------------------------------------------------------------------
\* The types of one request's race, and what the invariant says of it.
LEMMA Parts ==
  ASSUME RaceInv, NEW r \in Requests
  PROVE  /\ race[r] \in RaceRec /\ att[r] \in [Slots -> AttRec] /\ results[r] \in Seq(Outcome)
         /\ drain[r] \in 0 .. 1 /\ raced[r] \in SUBSET Targets /\ streaming[r] \in BOOLEAN
         /\ ChannelOK(r) /\ StreamsOK(r) /\ RaceOK(r)
         /\ OrderOK(r) /\ SomeTarget(r) /\ RaceExhausted(r)
         /\ Racers \subseteq Slots /\ "rest" \in Slots \ Racers /\ "none" \notin Slots
<1>1. SoundRace(r) /\ RaceTypes
  BY RaceFacts DEF RaceInv
<1>2. Racers \subseteq Slots /\ "rest" \in Slots \ Racers /\ "none" \notin Slots
  BY DEF Racers, Slots
<1> QED BY <1>1, <1>2 DEF SoundRace, RaceTypes

\* A step that writes the race of r only.
Wrote(r) ==
  /\ UNCHANGED streaming /\ race' = [race EXCEPT ![r] = race'[r]] /\ att' = [att EXCEPT ![r] = att'[r]]
  /\ results' = [results EXCEPT ![r] = results'[r]] /\ drain' = [drain EXCEPT ![r] = drain'[r]]
  /\ raced' = [raced EXCEPT ![r] = raced'[r]]

LEMMA OneRace ==
  ASSUME RaceTypes, NEW r \in Requests, Wrote(r), race'[r] \in RaceRec, att'[r] \in [Slots -> AttRec],
         results'[r] \in Seq(Outcome), drain'[r] \in 0 .. 1, raced'[r] \in SUBSET Targets
  PROVE  RaceTypes' /\ \A q \in Requests \ {r} : SameRace(q)
BY DEF RaceTypes, SameRace, Wrote

\* A step of a race that leaves Execute's variables alone.
LEMMA RaceStep ==
  ASSUME RaceInv, NEW r \in Requests, UNCHANGED vars,
         budget' \in Budget, total' \in Nat, launched' \in Nat, RaceTypes',
         \A q \in Requests \ {r} : SameRace(q),
         ChannelOK(r)', StreamsOK(r)', RaceOK(r)', RaceExhausted(r)'
  PROVE  RaceInv'
<1>1. [Next]_vars
  OBVIOUS
<1>2. TypeOK' /\ BreakersSound'
  BY <1>1, RaceFacts, NextType, NextBreakers
<1>3. \A q \in Requests : SameRequest(q)
  BY DEF vars, SameRequest, planVars, loopVars, errVars
<1>4. OnTarget'
  BY <1>3, RaceFacts DEF OnTarget, SameRequest
<1>5. OrderOK(r)' /\ SomeTarget(r)'
  BY <1>3, Parts DEF OrderOK, SomeTarget, SameRequest
<1>6. SoundRace(r)'
  BY <1>5 DEF SoundRace
<1> QED BY <1>2, <1>3, <1>4, <1>6, OneRequest

LEMMA StartRaceStep ==
  ASSUME RaceInv, NEW r \in Requests, StartRace(r)
  PROVE  RaceInv'
<1> DEFINE c == [NoRace EXCEPT !.st = "racing", !.pending = 1, !.timer = TRUE]
           a == [att[r] EXCEPT !["primary"] = Launched(r)]
<1>0. /\ pc[r] = "visit" /\ race[r].st = "none" /\ Len(plan[r]) >= 2 /\ UNCHANGED vars
      /\ pc'[r] = pc[r] /\ plan'[r] = plan[r] /\ result'[r] = result[r] /\ streaming'[r] = streaming[r]
  BY DEF StartRace, vars, planVars, errVars
<1>1. RaceTypes /\ result[r] = "none" /\ race[r].winner = "none" /\ TypeOK
  BY <1>0, RaceFacts, RaceAt
<1>2. Launched(r) \in AttRec /\ Launched(r).st = "calling" /\ Launched(r).stream = "none"
  BY DEF Launched, NoAttempt, AttRec
<1>3. /\ a \in [Slots -> AttRec] /\ a["primary"] = Launched(r)
      /\ \A i \in Slots : i # "primary" => a[i] = att[r][i]
  BY <1>2, Parts DEF Racers
<1>4. /\ c \in RaceRec /\ c.st = "racing" /\ c.pending = 1 /\ c.winner = "none" /\ ~c.hedged
  <2>1. 0 \in 0 .. 2 /\ 1 \in 0 .. 2
    OBVIOUS
  <2>2. NoRace \in RaceRec /\ NoRace.winner = "none" /\ ~NoRace.hedged
    BY <2>1 DEF NoRace, RaceRec
  <2> QED BY <2>1, <2>2 DEF RaceRec
<1>5. plan[r][1] \in Targets
  BY <1>0, <1>1 DEF TypeOK
<1>6. /\ RaceTypes' /\ \A q \in Requests \ {r} : SameRace(q)
      /\ race'[r] = c /\ att'[r] = a /\ results'[r] = results[r] /\ drain'[r] = drain[r]
      /\ raced'[r] = {plan[r][1]}
  <2>1. /\ Wrote(r) /\ race'[r] = c /\ att'[r] = a /\ results'[r] = results[r]
        /\ drain'[r] = drain[r] /\ raced'[r] = {plan[r][1]}
    BY <1>1 DEF StartRace, RacedTarget, RaceTypes, Wrote
  <2> HIDE DEF a, c
  <2> QED BY <1>1, <1>3, <1>4, <1>5, <2>1, Parts, OneRace
<1> HIDE DEF a, c
<1>7. \A i \in Racers : att[r][i].st = "none" /\ ~Has(results[r], i)
  BY <1>0, Parts DEF RaceOK, ChannelOK
<1>8. ChannelOK(r)'
  BY <1>2, <1>3, <1>6, <1>7, Parts DEF ChannelOK, Racers
<1>9. StreamsOK(r)'
  BY <1>0, <1>1, <1>2, <1>3, <1>4, <1>6, Parts DEF StreamsOK
<1>10. DueCount(r)' = 1
  <2>1. Due(r, "primary")'
    BY <1>2, <1>3, <1>6 DEF Due
  <2>2. ~Due(r, "hedge")'
    BY <1>3, <1>6, <1>7 DEF Due, Racers, Slots
  <2> QED BY <2>1, <2>2 DEF DueCount
<1>11. RaceOK(r)'
  <2>1. att'[r]["hedge"].st = "none"
    BY <1>3, <1>6, <1>7 DEF Racers, Slots
  <2>2. drain[r] = 0
    BY <1>0, Parts DEF RaceOK
  <2> QED BY <1>0, <1>1, <1>4, <1>6, <1>10, <2>1, <2>2 DEF RaceOK
<1>12. RaceExhausted(r)'
  BY <1>0, <1>1 DEF RaceExhausted
<1>13. budget' \in Budget /\ total' \in Nat /\ launched' \in Nat
  BY BudgetTypes, HedgedTypes DEF RaceInv, StartRace
<1> QED BY <1>0, <1>6, <1>8, <1>9, <1>11, <1>12, <1>13, RaceStep

LEMMA TimerStep ==
  ASSUME RaceInv, NEW r \in Requests, TimerFires(r)
  PROVE  RaceInv'
<1>0. /\ race[r].st = "racing" /\ race[r].timer /\ UNCHANGED vars
      /\ pc'[r] = pc[r] /\ plan'[r] = plan[r] /\ result'[r] = result[r] /\ streaming'[r] = streaming[r]
  BY DEF TimerFires, Racing, vars, planVars, errVars
<1>1. /\ pc[r] = "visit" /\ Len(plan[r]) >= 2 /\ drain[r] = 0 /\ race[r].pending = DueCount(r)
      /\ ~race[r].hedged /\ att[r]["hedge"].st = "none" /\ raced[r] = {plan[r][1]}
  BY <1>0, Parts DEF RaceOK
<1>2. RaceTypes /\ result[r] = "none" /\ race[r].winner = "none" /\ TypeOK
  BY <1>1, RaceFacts, RaceAt
<1>3. RaceExhausted(r)'
  BY <1>0, <1>2 DEF RaceExhausted
<1>4. budget' \in Budget /\ total' \in Nat /\ launched' \in Nat
  BY BudgetTypes, HedgedTypes DEF RaceInv, TimerFires
<1>5. CASE AllowsHedge(budget)
  <2> DEFINE c == [race[r] EXCEPT !.timer = FALSE, !.hedged = TRUE, !.pending = @ + 1]
             a == [att[r] EXCEPT !["hedge"] = Launched(r)]
  <2>1. Launched(r) \in AttRec /\ Launched(r).st = "calling" /\ Launched(r).stream = "none"
    BY DEF Launched, NoAttempt, AttRec
  <2>2. /\ a \in [Slots -> AttRec] /\ a["hedge"] = Launched(r)
        /\ \A i \in Slots : i # "hedge" => a[i] = att[r][i]
    BY <2>1, Parts DEF Racers
  <2>3. ~Has(results[r], "hedge")
    BY <1>1, Parts DEF ChannelOK, Racers
  <2>4. ~Due(r, "hedge") /\ race[r].pending \in 0 .. 1
    <3>1. ~Due(r, "hedge")
      BY <1>1, <2>3 DEF Due
    <3> QED BY <1>1, <3>1 DEF DueCount
  <2>5. /\ c \in RaceRec /\ c.st = "racing" /\ c.pending = race[r].pending + 1 /\ c.winner = "none"
        /\ c.hedged /\ ~c.timer
    <3>1. race[r].pending + 1 \in 0 .. 2
      BY <2>4
    <3> QED BY <1>0, <1>2, <3>1, Parts DEF RaceRec
  <2>6. plan[r][1] \in Targets /\ plan[r][2] \in Targets
    BY <1>1, <1>2 DEF TypeOK
  <2>7. /\ RaceTypes' /\ \A q \in Requests \ {r} : SameRace(q)
        /\ race'[r] = c /\ att'[r] = a /\ results'[r] = results[r] /\ drain'[r] = drain[r]
        /\ raced'[r] = {plan[r][1]} \cup {plan[r][2]}
    <3>1. /\ Wrote(r) /\ race'[r] = c /\ att'[r] = a /\ results'[r] = results[r]
          /\ drain'[r] = drain[r] /\ raced'[r] = {plan[r][1]} \cup {plan[r][2]}
      BY <1>1, <1>2, <1>5 DEF TimerFires, RacedTarget, RaceTypes, Wrote
    <3> HIDE DEF a, c
    <3> QED BY <1>2, <2>2, <2>5, <2>6, <3>1, Parts, OneRace
  <2> HIDE DEF a, c
  <2>8. ChannelOK(r)'
    BY <2>1, <2>2, <2>3, <2>7, Parts DEF ChannelOK, Racers
  <2>9. StreamsOK(r)'
    BY <1>0, <1>2, <2>1, <2>2, <2>5, <2>7, Parts DEF StreamsOK
  <2>10. DueCount(r)' = DueCount(r) + 1
    <3>1. Due(r, "primary")' <=> Due(r, "primary")
      BY <2>2, <2>7 DEF Due, Slots, Racers
    <3>2. Due(r, "hedge")'
      BY <2>1, <2>2, <2>7 DEF Due
    <3> QED BY <2>4, <3>1, <3>2 DEF DueCount
  <2>11. RaceOK(r)'
    BY <1>0, <1>1, <1>2, <2>5, <2>7, <2>10 DEF RaceOK
  <2> QED BY <1>0, <1>3, <1>4, <2>7, <2>8, <2>9, <2>11, RaceStep
<1>6. CASE ~AllowsHedge(budget)
  <2> DEFINE c == [race[r] EXCEPT !.timer = FALSE]
  <2>1. /\ c \in RaceRec /\ c.st = "racing" /\ c.pending = race[r].pending /\ c.winner = "none"
        /\ ~c.hedged /\ ~c.timer
    BY <1>0, <1>1, <1>2, Parts DEF RaceRec
  <2>2. /\ RaceTypes' /\ \A q \in Requests \ {r} : SameRace(q)
        /\ race'[r] = c /\ att'[r] = att[r] /\ results'[r] = results[r] /\ drain'[r] = drain[r]
        /\ raced'[r] = raced[r]
    <3>1. /\ Wrote(r) /\ race'[r] = c /\ att'[r] = att[r] /\ results'[r] = results[r]
          /\ drain'[r] = drain[r] /\ raced'[r] = raced[r]
      BY <1>2, <1>6 DEF TimerFires, RaceTypes, Wrote
    <3> HIDE DEF c
    <3> QED BY <1>2, <2>1, <3>1, Parts, OneRace
  <2> HIDE DEF c
  <2>3. ChannelOK(r)' /\ StreamsOK(r)'
    BY <1>0, <1>2, <2>1, <2>2, Parts DEF ChannelOK, StreamsOK
  <2>4. DueCount(r)' = DueCount(r)
    BY <2>2 DEF DueCount, Due
  <2>5. RaceOK(r)'
    BY <1>0, <1>1, <1>2, <2>1, <2>2, <2>4 DEF RaceOK
  <2> QED BY <1>0, <1>3, <1>4, <2>2, <2>3, <2>5, RaceStep
<1> QED BY <1>5, <1>6

LEMMA AttemptStep ==
  ASSUME RaceInv, NEW r \in Requests, NEW i \in Slots, AttemptReturns(r, i)
  PROVE  RaceInv'
<1>0. /\ att[r][i].st = "calling" /\ UNCHANGED <<vars, budgetVars>> /\ race'[r] = race[r]
      /\ pc'[r] = pc[r] /\ plan'[r] = plan[r] /\ result'[r] = result[r] /\ lastErr'[r] = lastErr[r]
      /\ ti'[r] = ti[r] /\ drain'[r] = drain[r] /\ raced'[r] = raced[r] /\ streaming'[r] = streaming[r]
  BY DEF AttemptReturns, vars, planVars, errVars, loopVars
<1>1. RaceTypes
  BY RaceFacts
<1>2. PICK err \in ErrorKinds \cup {"none"}, opened \in Opened(r) :
        /\ results' = [results EXCEPT ![r] = Append(@, [slot |-> i, err |-> err])]
        /\ att' = [att EXCEPT
             ![r][i].st = "sent",
             ![r][i].watch = IF @ = "waiting" /\ ~AttemptDone(r, i) THEN "off" ELSE @,
             ![r][i].stream = IF ~streaming[r] THEN "none"
                              ELSE IF err = "none" /\ @ = "none" THEN opened ELSE "cut"]
  BY DEF AttemptReturns
<1> DEFINE o == [slot |-> i, err |-> err]
           a == att'[r][i]
<1>3. o \in Outcome /\ o.slot = i /\ o.err = err
  BY DEF Outcome
<1>4. att[r][i] \in AttRec /\ opened \in {"none", "open", "cut"}
  BY Parts DEF Opened
<1>5. /\ Wrote(r) /\ results'[r] = Append(results[r], o)
      /\ att'[r] = [att[r] EXCEPT ![i] = a] /\ a \in AttRec /\ a.st = "sent"
      /\ a.stream = "open" => streaming[r] /\ err = "none"
  <2>1. results'[r] = Append(results[r], o) /\ Wrote(r)
    <3>1. results'[r] = Append(results[r], o) /\ results' = [results EXCEPT ![r] = results'[r]]
      BY <1>1, <1>2 DEF RaceTypes
    <3>2. att' = [att EXCEPT ![r] = att'[r]]
      BY <1>1, <1>2 DEF RaceTypes
    <3>3. UNCHANGED <<streaming, race, drain, raced>>
      BY DEF AttemptReturns
    <3> QED BY <1>1, <3>1, <3>2, <3>3 DEF RaceTypes, Wrote
  <2>2. att'[r] = [att[r] EXCEPT
             ![i].st = "sent",
             ![i].watch = IF @ = "waiting" /\ ~AttemptDone(r, i) THEN "off" ELSE @,
             ![i].stream = IF ~streaming[r] THEN "none"
                           ELSE IF err = "none" /\ @ = "none" THEN opened ELSE "cut"]
    BY <1>1, <1>2 DEF RaceTypes
  <2>3. a = [att[r][i] EXCEPT
             !.st = "sent",
             !.watch = IF @ = "waiting" /\ ~AttemptDone(r, i) THEN "off" ELSE @,
             !.stream = IF ~streaming[r] THEN "none"
                        ELSE IF err = "none" /\ @ = "none" THEN opened ELSE "cut"]
        /\ att'[r] = [att[r] EXCEPT ![i] = a]
    BY <2>2, Parts
  <2>4. a \in AttRec /\ a.st = "sent" /\ (a.stream = "open" => streaming[r] /\ err = "none")
    BY <1>4, <2>3 DEF AttRec
  <2> QED BY <2>1, <2>3, <2>4
<1> HIDE DEF o, a
<1>6. /\ att'[r] \in [Slots -> AttRec] /\ att'[r][i] = a
      /\ \A j \in Slots : j # i => att'[r][j] = att[r][j]
  BY <1>5, Parts
<1>7. i \in Racers /\ ~Has(results[r], i)
  BY <1>0, Parts DEF ChannelOK, Slots
<1>8. /\ results'[r] \in Seq(Outcome) /\ Once(results'[r])
      /\ \A j : Has(results'[r], j) <=> Has(results[r], j) \/ j = i
      /\ \A j : HasSuccess(results'[r], j) <=> HasSuccess(results[r], j) \/ (j = i /\ err = "none")
  BY <1>3, <1>5, <1>7, Parts, Sent DEF ChannelOK
<1>9. RaceTypes' /\ \A q \in Requests \ {r} : SameRace(q)
  BY <1>0, <1>1, <1>5, <1>6, <1>8, Parts, OneRace
<1>10. ChannelOK(r)'
  BY <1>5, <1>6, <1>7, <1>8, Parts DEF ChannelOK
<1>11. StreamsOK(r)'
  BY <1>0, <1>5, <1>6, <1>8, Parts DEF StreamsOK
<1>12. \A j \in Slots : Due(r, j)' <=> Due(r, j)
  BY <1>0, <1>5, <1>6, <1>8 DEF Due
<1>13. DueCount(r)' = DueCount(r)
  BY <1>12 DEF DueCount, Slots, Racers
<1>14. RaceOK(r)'
  <2>1. race[r].st # "none" /\ RaceOK(r)
    BY <1>0, <1>7, Parts DEF RaceOK
  <2>2. ~race[r].hedged /\ race[r].st = "racing" => att'[r]["hedge"].st = "none"
    BY <1>0, <1>6, <2>1 DEF RaceOK, Slots, Racers
  <2>3. race[r].winner \in Racers => Other(race[r].winner) \in Slots /\ race[r].winner \in Slots
    BY DEF Other, Slots, Racers
  <2> QED BY <1>0, <1>12, <1>13, <2>1, <2>2, <2>3, Parts DEF RaceOK
<1>15. RaceExhausted(r)'
  BY <1>0, Parts DEF RaceExhausted, IsLast
<1>16. budget' \in Budget /\ total' \in Nat /\ launched' \in Nat
  BY <1>0, HedgedTypes DEF RaceInv, budgetVars
<1> QED BY <1>0, <1>9, <1>10, <1>11, <1>14, <1>15, <1>16, RaceStep

LEMMA WatchStep ==
  ASSUME RaceInv, NEW r \in Requests, NEW i \in Slots, Watch(r, i)
  PROVE  RaceInv'
<1>0. /\ UNCHANGED <<vars, budgetVars>> /\ race'[r] = race[r] /\ results'[r] = results[r]
      /\ pc'[r] = pc[r] /\ plan'[r] = plan[r] /\ result'[r] = result[r] /\ lastErr'[r] = lastErr[r]
      /\ ti'[r] = ti[r] /\ drain'[r] = drain[r] /\ raced'[r] = raced[r] /\ streaming'[r] = streaming[r]
  BY DEF Watch, vars, planVars, errVars, loopVars
<1>1. RaceTypes /\ att[r][i] \in AttRec
  BY RaceFacts, Parts
<1>2. \/ att' = [att EXCEPT ![r][i].watch = "off", ![r][i].stream = "cut"]
      \/ \E w \in {"off", "waiting"} : att' = [att EXCEPT ![r][i].watch = w]
  BY DEF Watch
<1> DEFINE Kept == \A j \in Slots : /\ att'[r][j].st = att[r][j].st
                                    /\ att'[r][j].stream = "open" => att[r][j].stream = "open"
<1>3. Wrote(r) /\ att'[r] \in [Slots -> AttRec] /\ Kept
  <2>1. CASE att' = [att EXCEPT ![r][i].watch = "off", ![r][i].stream = "cut"]
    <3>1. att'[r] = [att[r] EXCEPT ![i] = [att[r][i] EXCEPT !.watch = "off", !.stream = "cut"]]
      BY <1>1, <2>1, Parts DEF RaceTypes
    <3>2. Wrote(r)
      BY <1>1, <2>1 DEF Watch, RaceTypes, Wrote
    <3>3. [att[r][i] EXCEPT !.watch = "off", !.stream = "cut"] \in AttRec
      BY <1>1 DEF AttRec
    <3> QED BY <1>1, <3>1, <3>2, <3>3, Parts DEF AttRec
  <2>2. ASSUME NEW w \in {"off", "waiting"}, att' = [att EXCEPT ![r][i].watch = w]
        PROVE  Wrote(r) /\ att'[r] \in [Slots -> AttRec] /\ Kept
    <3>1. att'[r] = [att[r] EXCEPT ![i] = [att[r][i] EXCEPT !.watch = w]]
      BY <1>1, <2>2, Parts DEF RaceTypes
    <3>2. Wrote(r)
      BY <1>1, <2>2 DEF Watch, RaceTypes, Wrote
    <3>3. [att[r][i] EXCEPT !.watch = w] \in AttRec
      BY <1>1 DEF AttRec
    <3> QED BY <1>1, <3>1, <3>2, <3>3, Parts DEF AttRec
  <2> QED BY <1>2, <2>1, <2>2
<1>4. RaceTypes' /\ \A q \in Requests \ {r} : SameRace(q)
  BY <1>0, <1>1, <1>3, Parts, OneRace
<1>5. ChannelOK(r)' /\ StreamsOK(r)'
  BY <1>0, <1>3, Parts DEF ChannelOK, StreamsOK
<1>6. \A j \in Slots : Due(r, j)' <=> Due(r, j)
  BY <1>0, <1>3 DEF Due
<1>7. DueCount(r)' = DueCount(r)
  BY <1>6 DEF DueCount, Slots, Racers
<1>8. RaceOK(r)'
  <2>1. race[r].winner \in Racers => Other(race[r].winner) \in Slots /\ race[r].winner \in Slots
    BY DEF Other, Slots, Racers
  <2>2. "hedge" \in Slots
    BY DEF Slots, Racers
  <2> QED BY <1>0, <1>3, <1>6, <1>7, <2>1, <2>2, Parts DEF RaceOK
<1>9. RaceExhausted(r)'
  BY <1>0, Parts DEF RaceExhausted, IsLast
<1>10. budget' \in Budget /\ total' \in Nat /\ launched' \in Nat
  BY <1>0, HedgedTypes DEF RaceInv, budgetVars
<1> QED BY <1>0, <1>4, <1>5, <1>8, <1>9, <1>10, RaceStep

\* The oldest outcome of the channel: of a racer that has returned.
LEMMA Oldest ==
  ASSUME RaceInv, NEW r \in Requests, results[r] # << >>
  PROVE  /\ Tail(results[r]) \in Seq(Outcome) /\ Once(Tail(results[r]))
         /\ Head(results[r]).slot \in Racers /\ Head(results[r]).err \in ErrorKinds \cup {"none"}
         /\ att[r][Head(results[r]).slot].st = "sent" /\ Due(r, Head(results[r]).slot)
         /\ HasSuccess(results[r], Head(results[r]).slot) => Head(results[r]).err = "none"
         /\ \A i : Has(Tail(results[r]), i) <=> Has(results[r], i) /\ i # Head(results[r]).slot
         /\ \A i : HasSuccess(Tail(results[r]), i) <=>
                     HasSuccess(results[r], i) /\ i # Head(results[r]).slot
<1>1. results[r] \in Seq(Outcome) /\ Once(results[r])
  BY Parts DEF ChannelOK
<1>2. /\ Tail(results[r]) \in Seq(Outcome) /\ Head(results[r]) \in Outcome /\ Once(Tail(results[r]))
      /\ Has(results[r], Head(results[r]).slot)
      /\ (HasSuccess(results[r], Head(results[r]).slot) => Head(results[r]).err = "none")
      /\ \A i : Has(Tail(results[r]), i) <=> Has(results[r], i) /\ i # Head(results[r]).slot
      /\ \A i : HasSuccess(Tail(results[r]), i) <=>
                  HasSuccess(results[r], i) /\ i # Head(results[r]).slot
  BY <1>1, Received
<1>3. Head(results[r]).slot \in Slots /\ Head(results[r]).err \in ErrorKinds \cup {"none"}
  BY <1>2 DEF Outcome
<1>4. Head(results[r]).slot \in Racers /\ att[r][Head(results[r]).slot].st = "sent"
  BY <1>2, <1>3, Parts DEF ChannelOK
<1> QED BY <1>2, <1>3, <1>4 DEF Due

LEMMA DiscardStep ==
  ASSUME RaceInv, NEW r \in Requests, Discard(r)
  PROVE  RaceInv'
<1> DEFINE o == Head(results[r])
           j == o.slot
<1>0. /\ UNCHANGED <<vars, budgetVars>> /\ race'[r] = race[r] /\ results[r] # << >> /\ drain[r] > 0
      /\ pc'[r] = pc[r] /\ plan'[r] = plan[r] /\ result'[r] = result[r] /\ lastErr'[r] = lastErr[r]
      /\ ti'[r] = ti[r] /\ raced'[r] = raced[r] /\ streaming'[r] = streaming[r]
  BY DEF Discard, vars, planVars, errVars, loopVars
<1>1. RaceTypes /\ drain[r] = 1
  <2>1. drain[r] \in 0 .. 1
    BY Parts
  <2> QED BY <1>0, <2>1, RaceFacts
<1>2. /\ Wrote(r) /\ results'[r] = Tail(results[r]) /\ drain'[r] = 0
      /\ att'[r] = IF o.err = "none" THEN [att[r] EXCEPT ![j].stream = "cut"] ELSE att[r]
  <2>1. results'[r] = Tail(results[r]) /\ drain'[r] = 0
    BY <1>1 DEF Discard, RaceTypes
  <2>2. CASE o.err = "none"
    BY <1>1, <2>1, <2>2 DEF Discard, RaceTypes, Wrote
  <2>3. CASE o.err # "none"
    BY <1>1, <2>1, <2>3 DEF Discard, RaceTypes, Wrote
  <2> QED BY <2>1, <2>2, <2>3
<1>3. /\ Tail(results[r]) \in Seq(Outcome) /\ Once(Tail(results[r]))
      /\ j \in Racers /\ j \in Slots /\ att[r][j].st = "sent" /\ Due(r, j)
      /\ HasSuccess(results[r], j) => o.err = "none"
      /\ \A i : Has(Tail(results[r]), i) <=> Has(results[r], i) /\ i # j
      /\ \A i : HasSuccess(Tail(results[r]), i) <=> HasSuccess(results[r], i) /\ i # j
  BY <1>0, Oldest DEF Slots
<1> HIDE DEF o, j
<1>4. /\ att'[r] \in [Slots -> AttRec] /\ (att'[r][j].stream = "open" => o.err # "none")
      /\ \A i \in Slots : /\ att'[r][i].st = att[r][i].st
                          /\ att'[r][i].stream = "open" => att[r][i].stream = "open"
  <2>1. CASE o.err = "none"
    <3>1. att'[r] = [att[r] EXCEPT ![j] = [att[r][j] EXCEPT !.stream = "cut"]]
      BY <1>2, <2>1
    <3>2. /\ [att[r][j] EXCEPT !.stream = "cut"] \in AttRec
          /\ [att[r][j] EXCEPT !.stream = "cut"].st = att[r][j].st
          /\ [att[r][j] EXCEPT !.stream = "cut"].stream = "cut"
      BY <1>3, Parts DEF AttRec
    <3> QED BY <1>3, <2>1, <3>1, <3>2, Parts
  <2>2. CASE o.err # "none"
    BY <1>2, <2>2, Parts
  <2> QED BY <2>1, <2>2
<1>5. /\ race[r].st = "won" /\ race[r].winner \in Racers /\ ~Due(r, race[r].winner)
      /\ race[r].winner # "none"
  <2>1. race[r].st \in {"none", "racing", "won", "lost", "rest"}
    BY Parts DEF RaceRec
  <2> QED BY <1>1, <2>1, Parts DEF RaceOK, Racers
<1>6. j = Other(race[r].winner) /\ j # race[r].winner
  BY <1>3, <1>5 DEF Other, Racers
<1>7. RaceTypes' /\ \A q \in Requests \ {r} : SameRace(q)
  <2>1. results'[r] \in Seq(Outcome) /\ drain'[r] \in 0 .. 1
    BY <1>2, <1>3
  <2> QED BY <1>0, <1>1, <1>2, <1>4, <2>1, Parts, OneRace
<1>8. ChannelOK(r)'
  BY <1>2, <1>3, <1>4, Parts DEF ChannelOK
<1>9. StreamsOK(r)'
  BY <1>0, <1>2, <1>3, <1>4, <1>6, Parts DEF StreamsOK
<1>10. \A i \in Slots : Due(r, i)' <=> Due(r, i) /\ i # j
  BY <1>2, <1>3, <1>4 DEF Due
<1>11. RaceOK(r)'
  <2>1. race[r].winner \in Slots /\ Other(race[r].winner) \in Slots
    BY <1>5 DEF Slots, Other, Racers
  <2> QED BY <1>0, <1>2, <1>5, <1>6, <1>10, <2>1, Parts DEF RaceOK
<1>12. RaceExhausted(r)'
  BY <1>0, Parts DEF RaceExhausted, IsLast
<1>13. budget' \in Budget /\ total' \in Nat /\ launched' \in Nat
  BY <1>0, HedgedTypes DEF RaceInv, budgetVars
<1> QED BY <1>0, <1>7, <1>8, <1>9, <1>11, <1>12, <1>13, RaceStep

----------------------------------------------------------------------------
LEMMA ExecuteServesStep ==
  ASSUME RaceInv, NEW r \in Requests, Executing(r), ExecuteServes(r)
  PROVE  RaceInv'
<1>0. /\ CallSucceeds(r) /\ UNCHANGED budgetVars /\ results'[r] = results[r] /\ drain'[r] = drain[r]
      /\ raced'[r] = raced[r] /\ streaming'[r] = streaming[r]
  BY DEF ExecuteServes
<1>1. /\ race[r].st \in {"none", "rest"} /\ pc[r] \in Working \cup {"visit"}
      /\ Moved(r) /\ OrderOK(r)' /\ SomeTarget(r)' /\ RaceTypes /\ race[r].winner = "none"
  BY <1>0, ExecuteAt, RaceFacts, RaceAt DEF Working
<1>2. pc'[r] = "returned" /\ result'[r] = "ok" /\ plan'[r] = plan[r]
  BY <1>0, <1>1, RaceFacts DEF CallSucceeds, Return, TypeOK, Moved
<1>3. PICK w \in {"new", "off"}, opened \in Opened(r) :
        att' = [att EXCEPT ![r]["rest"] = [NoAttempt EXCEPT !.st = "sent", !.watch = w, !.stream = opened]]
  BY DEF ExecuteServes
<1> DEFINE a == [NoAttempt EXCEPT !.st = "sent", !.watch = w, !.stream = opened]
           c == [race[r] EXCEPT !.winner = "rest"]
<1>4. a \in AttRec /\ a.st = "sent" /\ (a.stream = "open" => streaming[r])
  BY DEF AttRec, NoAttempt, Opened
<1>5. c \in RaceRec /\ c.st = race[r].st /\ c.winner = "rest"
  BY Parts DEF RaceRec
<1>6. Wrote(r) /\ race'[r] = c /\ att'[r] = [att[r] EXCEPT !["rest"] = a]
  BY <1>1, <1>3 DEF ExecuteServes, Wrote, RaceTypes
<1> HIDE DEF a, c
<1>7. /\ att'[r] \in [Slots -> AttRec] /\ att'[r]["rest"] = a
      /\ \A i \in Slots : i # "rest" => att'[r][i] = att[r][i]
  BY <1>4, <1>6, Parts
<1>8. RaceTypes' /\ \A q \in Requests \ {r} : SameRace(q)
  BY <1>0, <1>1, <1>5, <1>6, <1>7, Parts, OneRace
<1>9. ChannelOK(r)'
  BY <1>0, <1>4, <1>7, Parts DEF ChannelOK
<1>10. StreamsOK(r)'
  BY <1>0, <1>1, <1>4, <1>5, <1>6, <1>7, Parts DEF StreamsOK
<1>11. RaceOK(r)'
  <2>1. \A i \in Racers : att'[r][i] = att[r][i] /\ (Due(r, i)' <=> Due(r, i))
    BY <1>0, <1>7, Parts DEF Due
  <2> QED BY <1>0, <1>1, <1>2, <1>5, <1>6, <2>1, Parts DEF RaceOK
<1>12. RaceExhausted(r)'
  BY <1>2 DEF RaceExhausted
<1>13. SoundRace(r)' /\ AtTarget(r)'
  BY <1>1, <1>9, <1>10, <1>11, <1>12 DEF SoundRace, Moved
<1> QED BY <1>0, <1>8, <1>13, MoveStep DEF Progress

----------------------------------------------------------------------------
\* A report to the breaker of a target.
LEMMA Reported ==
  ASSUME RaceInv, NEW t \in Targets, now' = now, NEW s \in BreakerState, SoundBreaker(s, now),
         breaker' = [breaker EXCEPT ![t] = s]
  PROVE  breaker' \in [Targets -> BreakerState] /\ BreakersSound'
<1>1. TypeOK /\ BreakersSound
  BY RaceFacts
<1>2. breaker' \in [Targets -> BreakerState]
  BY <1>1 DEF TypeOK
<1>3. ASSUME NEW u \in Targets PROVE SoundBreaker(breaker'[u], now)
  BY <1>1 DEF BreakersSound, TypeOK
<1>4. ASSUME NEW u \in Targets PROVE SoundBreaker(breaker[u], now)'
  BY <1>3 DEF SoundBreaker
<1> QED BY <1>2, <1>4 DEF BreakersSound

\* A step of ExecuteHedged that writes its request.
LEMMA HedgedStep ==
  ASSUME RaceInv, NEW r \in Requests,
         now' = now, breaker' \in [Targets -> BreakerState], BreakersSound', LoopOK',
         UNCHANGED <<base, tiers, ctxDone>>, plan' \in [Requests -> Seq(Targets)],
         attempts' \in [Requests -> Nat],
         AtTarget(r)', UNCHANGED budgetVars, RaceTypes', SoundRace(r)',
         \A q \in Requests \ {r} : SameRequest(q) /\ SameRace(q)
  PROVE  RaceInv'
<1>1. TypeOK /\ OnTarget
  BY RaceFacts
<1>2. TypeOK'
  BY <1>1 DEF TypeOK, LoopOK
<1>3. OnTarget'
  BY <1>1 DEF OnTarget, AtTarget, SameRequest
<1>4. budget' \in Budget /\ total' \in Nat /\ launched' \in Nat
  BY HedgedTypes DEF RaceInv, budgetVars
<1> QED BY <1>2, <1>3, <1>4, OneRequest

\* The targets of the race.
LEMMA RacedTargets ==
  ASSUME RaceInv, NEW r \in Requests, Racing(r), NEW i \in Racers
  PROVE  RacedTarget(r, i) \in Targets
<1>1. plan[r] \in Seq(Targets) /\ Len(plan[r]) >= 2
  BY RaceFacts, RaceAt DEF TypeOK, Racing
<1> QED BY <1>1 DEF RacedTarget, Racers

\* What cancelling every attempt leaves alone.
LEMMA Cancelled ==
  ASSUME RaceInv, NEW r \in Requests, att' = CancelAll(r)
  PROVE  /\ att' = [att EXCEPT ![r] = att'[r]] /\ att'[r] \in [Slots -> AttRec]
         /\ \A i \in Slots : att'[r][i].st = att[r][i].st /\ att'[r][i].stream = att[r][i].stream
<1> DEFINE a == [i \in Slots |-> [att[r][i] EXCEPT !.cancelled = TRUE]]
<1>1. att' = [att EXCEPT ![r] = a]
  BY DEF CancelAll
<1>2. ASSUME NEW i \in Slots
      PROVE  /\ a[i] \in AttRec /\ a[i].st = att[r][i].st /\ a[i].stream = att[r][i].stream
  <2>1. att[r][i] \in AttRec
    BY Parts
  <2>2. a[i] = [att[r][i] EXCEPT !.cancelled = TRUE]
    OBVIOUS
  <2> HIDE DEF a
  <2> QED BY <2>1, <2>2 DEF AttRec
<1>3. a \in [Slots -> AttRec]
  BY <1>2
<1> HIDE DEF a
<1>4. att'[r] = a /\ att' = [att EXCEPT ![r] = att'[r]]
  BY <1>1, RaceFacts DEF RaceTypes
<1> QED BY <1>2, <1>3, <1>4

LEMMA SuccessStep ==
  ASSUME RaceInv, NEW r \in Requests, ReceiveSuccess(r)
  PROVE  RaceInv'
<1> DEFINE i == Head(results[r]).slot
           c == [race[r] EXCEPT !.st = "won", !.winner = i]
           a == [att[r] EXCEPT ![Other(i)].cancelled = TRUE]
<1>0. /\ race[r].st = "racing" /\ results[r] # << >> /\ now' = now /\ UNCHANGED budgetVars
      /\ Return(r, "ok", "none") /\ UNCHANGED <<base, tiers, plan, ti, ctxDone>>
      /\ streaming'[r] = streaming[r] /\ raced'[r] = raced[r]
      /\ attempts' = [attempts EXCEPT ![r] = IF race[r].hedged THEN 2 ELSE 1]
      /\ breaker' = [breaker EXCEPT ![RacedTarget(r, i)] = ClosedBreaker] /\ Finish(r, i)
      /\ results' = [results EXCEPT ![r] = Tail(@)] /\ UNCHANGED <<streaming, raced>>
  BY DEF ReceiveSuccess, Racing, planVars
<1>1. TypeOK /\ RaceTypes
  BY RaceFacts
<1>2. /\ pc[r] = "visit" /\ drain[r] = 0 /\ race[r].pending = DueCount(r)
      /\ race[r].winner = "none" /\ OrderOK(r)
  BY <1>0, Parts DEF RaceOK
<1>3. /\ pc'[r] = "returned" /\ result'[r] = "ok" /\ plan'[r] = plan[r]
  BY <1>0, <1>1 DEF Return, TypeOK
<1>4. /\ Tail(results[r]) \in Seq(Outcome) /\ Once(Tail(results[r]))
      /\ i \in Racers /\ i \in Slots /\ att[r][i].st = "sent" /\ Due(r, i)
      /\ \A j : Has(Tail(results[r]), j) <=> Has(results[r], j) /\ j # i
      /\ \A j : HasSuccess(Tail(results[r]), j) <=> HasSuccess(results[r], j) /\ j # i
  BY <1>0, Oldest DEF Slots
<1>5. /\ Wrote(r) /\ race'[r] = c /\ att'[r] = a /\ results'[r] = Tail(results[r])
      /\ drain'[r] = IF streaming[r] THEN race[r].pending - 1 ELSE 0
  BY <1>0, <1>1 DEF Finish, RaceTypes, Wrote
<1>6. RacedTarget(r, i) \in Targets
  BY <1>0, <1>4, RacedTargets DEF Racing
<1>7. breaker' \in [Targets -> BreakerState] /\ BreakersSound'
  <2>1. breaker[RacedTarget(r, i)] \in BreakerState /\ SoundBreaker(breaker[RacedTarget(r, i)], now)
        /\ now \in Nat \ {0}
    BY <1>1, <1>6, RaceFacts DEF TypeOK, BreakersSound
  <2>2. ClosedBreaker \in BreakerState /\ SoundBreaker(ClosedBreaker, now)
    BY <2>1, BreakerMethods
  <2> HIDE DEF i
  <2> QED BY <1>0, <1>6, <2>2, Reported
<1>8. c \in RaceRec /\ c.st = "won" /\ c.winner = i
  <2>1. race[r] \in RaceRec /\ i \in Slots \cup {"none"}
    BY <1>4, Parts
  <2> HIDE DEF i
  <2> QED BY <2>1 DEF RaceRec
<1>9. Other(i) \in Slots /\ Other(i) # i /\ Racers = {i, Other(i)}
  BY <1>4 DEF Other, Slots, Racers
<1>10. /\ a \in [Slots -> AttRec]
       /\ \A j \in Slots : a[j].st = att[r][j].st /\ a[j].stream = att[r][j].stream
  <2>1. att[r][Other(i)] \in AttRec
    BY <1>9, Parts
  <2>2. /\ [att[r][Other(i)] EXCEPT !.cancelled = TRUE] \in AttRec
        /\ [att[r][Other(i)] EXCEPT !.cancelled = TRUE].st = att[r][Other(i)].st
        /\ [att[r][Other(i)] EXCEPT !.cancelled = TRUE].stream = att[r][Other(i)].stream
    BY <2>1 DEF AttRec
  <2> QED BY <1>9, <2>2, Parts
<1>11. race[r].pending = IF Due(r, Other(i)) THEN 2 ELSE 1
  <2>1. CASE i = "primary"
    BY <1>2, <1>4, <2>1 DEF DueCount, Other
  <2>2. CASE i = "hedge"
    BY <1>2, <1>4, <2>2 DEF DueCount, Other
  <2> QED BY <1>4, <2>1, <2>2 DEF Racers
<1> HIDE DEF i, c, a
<1>12. RaceTypes' /\ \A q \in Requests \ {r} : SameRace(q)
  <2>1. drain'[r] \in 0 .. 1
    BY <1>5, <1>11
  <2> QED BY <1>0, <1>1, <1>4, <1>5, <1>8, <1>10, <2>1, Parts, OneRace
<1>13. ChannelOK(r)'
  BY <1>4, <1>5, <1>10, Parts DEF ChannelOK
<1>14. StreamsOK(r)'
  BY <1>0, <1>2, <1>4, <1>5, <1>8, <1>10, Parts DEF StreamsOK
<1>15. \A j \in Slots : Due(r, j)' <=> Due(r, j) /\ j # i
  BY <1>4, <1>5, <1>10 DEF Due
<1>16. RaceOK(r)'
  <2>1. drain'[r] = IF streaming[r] /\ Due(r, Other(i)) THEN 1 ELSE 0
    BY <1>5, <1>11
  <2> QED BY <1>0, <1>3, <1>4, <1>5, <1>8, <1>9, <1>15, <2>1 DEF RaceOK
<1>17. OrderOK(r)' /\ SomeTarget(r)' /\ RaceExhausted(r)' /\ AtTarget(r)'
  BY <1>2, <1>3 DEF OrderOK, SomeTarget, RaceExhausted, AtTarget, Working
<1>18. SoundRace(r)'
  BY <1>13, <1>14, <1>16, <1>17 DEF SoundRace
<1>19. LoopOK' /\ plan' \in [Requests -> Seq(Targets)] /\ attempts' \in [Requests -> Nat]
  <2>1. LoopOK'
    BY <1>0, <1>1, ReturnType
  <2> QED BY <1>0, <1>1, <2>1 DEF TypeOK
<1>20. \A q \in Requests \ {r} : SameRequest(q)
  BY <1>0, <1>1 DEF SameRequest, Return, TypeOK
<1> QED BY <1>0, <1>7, <1>12, <1>17, <1>18, <1>19, <1>20, HedgedStep

LEMMA RaceContextStep ==
  ASSUME RaceInv, NEW r \in Requests, RaceContext(r)
  PROVE  RaceInv'
<1> DEFINE c == [race[r] EXCEPT !.st = "lost"]
<1>0. /\ race[r].st = "racing" /\ UNCHANGED <<now, breaker, budgetVars>>
      /\ Return(r, "context", "none") /\ UNCHANGED <<base, tiers, plan, ti, attempts, ctxDone>>
      /\ UNCHANGED <<streaming, results, drain, raced>> /\ att' = CancelAll(r)
      /\ race' = [race EXCEPT ![r] = c]
  BY RaceFacts DEF RaceContext, ReturnContext, Racing, planVars, breakerVars, RaceTypes
<1>1. TypeOK /\ RaceTypes /\ BreakersSound
  BY RaceFacts
<1>2. pc[r] = "visit" /\ drain[r] = 0 /\ race[r].winner = "none" /\ OrderOK(r)
  BY <1>0, Parts DEF RaceOK
<1>3. pc'[r] = "returned" /\ result'[r] = "context" /\ plan'[r] = plan[r]
  BY <1>0, <1>1 DEF Return, TypeOK
<1>4. c \in RaceRec /\ c.st = "lost" /\ c.winner = "none"
  BY <1>2, Parts DEF RaceRec
<1> HIDE DEF c
<1>5. /\ att' = [att EXCEPT ![r] = att'[r]] /\ att'[r] \in [Slots -> AttRec]
      /\ \A i \in Slots : att'[r][i].st = att[r][i].st /\ att'[r][i].stream = att[r][i].stream
  BY <1>0, Cancelled
<1>6. Wrote(r) /\ race'[r] = c
  BY <1>0, <1>1, <1>5 DEF RaceTypes, Wrote
<1>7. RaceTypes' /\ \A q \in Requests \ {r} : SameRace(q)
  BY <1>0, <1>1, <1>4, <1>5, <1>6, Parts, OneRace
<1>8. ChannelOK(r)' /\ StreamsOK(r)'
  BY <1>0, <1>2, <1>4, <1>5, <1>6, Parts DEF ChannelOK, StreamsOK
<1>9. RaceOK(r)'
  BY <1>0, <1>2, <1>3, <1>4, <1>6 DEF RaceOK
<1>10. OrderOK(r)' /\ SomeTarget(r)' /\ RaceExhausted(r)' /\ AtTarget(r)'
  BY <1>2, <1>3 DEF OrderOK, SomeTarget, RaceExhausted, AtTarget, Working
<1>11. SoundRace(r)'
  BY <1>8, <1>9, <1>10 DEF SoundRace
<1>12. /\ LoopOK' /\ plan' \in [Requests -> Seq(Targets)] /\ attempts' \in [Requests -> Nat]
       /\ breaker' \in [Targets -> BreakerState]
  <2>1. LoopOK'
    BY <1>0, <1>1, ReturnType
  <2> QED BY <1>0, <1>1, <2>1 DEF TypeOK
<1>13. BreakersSound'
  BY <1>0, <1>1 DEF BreakersSound, SoundBreaker
<1>14. \A q \in Requests \ {r} : SameRequest(q)
  BY <1>0, <1>1 DEF SameRequest, Return, TypeOK
<1> QED BY <1>0, <1>7, <1>10, <1>11, <1>12, <1>13, <1>14, HedgedStep

LEMMA NothingLeft ==
  ASSUME NEW l \in Nat, l >= 2, NEW m \in 2 .. 3, (l - m) + 1 = 0
  PROVE  m = 3 /\ l = 2
OBVIOUS

\* What is left of the plan: if nothing is, the race has called every target.
LEMMA RestOfPlan ==
  ASSUME RaceInv, NEW r \in Requests, Racing(r)
  PROVE  /\ Rest(r) \in Seq(Targets)
         /\ Rest(r) = << >> => \A k \in 1 .. Len(plan[r]) : plan[r][k] \in raced[r]
         /\ DistinctPlans => /\ Distinct(Rest(r))
                             /\ \A k \in 1 .. Len(Rest(r)) : Rest(r)[k] \notin raced[r]
<1>1. /\ plan[r] \in Seq(Targets) /\ Len(plan[r]) >= 2
      /\ raced[r] = {plan[r][1]} \cup (IF race[r].hedged THEN {plan[r][2]} ELSE {})
      /\ DistinctPlans => Distinct(plan[r])
  BY RaceFacts, Parts DEF TypeOK, Racing, RaceOK, OrderOK
<1> DEFINE m == IF race[r].hedged THEN 3 ELSE 2
           p == plan[r]
<1>2. m \in 2 .. 3 /\ Rest(r) = SubSeq(p, m, Len(p)) /\ (race[r].hedged <=> m = 3)
  BY DEF Rest
<1> HIDE DEF m, p
<1>3. p \in Seq(Targets) /\ Len(p) >= 2 /\ Len(p) \in Nat
  BY <1>1 DEF p
<1>4. SubSeq(p, m, Len(p)) \in Seq(Targets)
  BY <1>2, <1>3
<1>5. SubSeq(p, m, Len(p)) = << >> => m = 3 /\ Len(p) = 2
  <2>1. Len(SubSeq(p, m, Len(p))) = (Len(p) - m) + 1
    BY <1>2, <1>3
  <2>2. m \in 2 .. 3 /\ Len(p) \in Nat /\ Len(p) >= 2
    BY <1>2, <1>3
  <2>3. (Len(p) - m) + 1 = 0 => m = 3 /\ Len(p) = 2
    BY <2>2, NothingLeft
  <2> QED BY <2>1, <2>3
<1>6. Rest(r) = << >> => \A k \in 1 .. Len(plan[r]) : plan[r][k] \in raced[r]
  <2> SUFFICES ASSUME Rest(r) = << >>, NEW k \in 1 .. Len(plan[r]) PROVE plan[r][k] \in raced[r]
    OBVIOUS
  <2>1. k \in 1 .. 2 /\ race[r].hedged
    BY <1>2, <1>5 DEF p
  <2> QED BY <1>1, <2>1
<1>7. ASSUME DistinctPlans
      PROVE  Distinct(Rest(r)) /\ \A k \in 1 .. Len(Rest(r)) : Rest(r)[k] \notin raced[r]
  <2>1. /\ Distinct(SubSeq(p, m, Len(p)))
        /\ \A k \in 1 .. Len(SubSeq(p, m, Len(p))) :
             SubSeq(p, m, Len(p))[k] # p[1] /\ (m = 3 => SubSeq(p, m, Len(p))[k] # p[2])
    BY <1>1, <1>2, <1>3, <1>7, DistinctRest DEF p
  <2> QED BY <1>1, <1>2, <2>1 DEF p
<1> QED BY <1>2, <1>4, <1>6, <1>7

LEMMA FailureStep ==
  ASSUME RaceInv, NEW r \in Requests, ReceiveFailure(r)
  PROVE  RaceInv'
<1> DEFINE o == Head(results[r])
           i == o.slot
           t == RacedTarget(r, i)
<1>0. /\ race[r].st = "racing" /\ results[r] # << >> /\ now' = now /\ UNCHANGED budgetVars
      /\ UNCHANGED <<base, tiers, ctxDone, streaming, drain, raced>> /\ o.err # "none"
      /\ results' = [results EXCEPT ![r] = Tail(@)]
  BY DEF ReceiveFailure, Racing
<1>1. TypeOK /\ RaceTypes /\ Racing(r)
  BY <1>0, RaceFacts DEF Racing
<1>2. /\ pc[r] = "visit" /\ drain[r] = 0 /\ race[r].pending = DueCount(r) /\ result[r] = "none"
      /\ race[r].winner = "none" /\ Len(plan[r]) >= 2 /\ (race[r].timer => ~race[r].hedged)
      /\ (~race[r].hedged => att[r]["hedge"].st = "none")
      /\ raced[r] = {plan[r][1]} \cup (IF race[r].hedged THEN {plan[r][2]} ELSE {})
  BY <1>0, Parts DEF RaceOK
<1>3. /\ Tail(results[r]) \in Seq(Outcome) /\ Once(Tail(results[r]))
      /\ i \in Racers /\ i \in Slots /\ att[r][i].st = "sent" /\ Due(r, i)
      /\ ~HasSuccess(results[r], i) /\ o.err \in ErrorKinds
      /\ \A j : Has(Tail(results[r]), j) <=> Has(results[r], j) /\ j # i
      /\ \A j : HasSuccess(Tail(results[r]), j) <=> HasSuccess(results[r], j) /\ j # i
  BY <1>0, Oldest DEF Slots
<1>4. t \in Targets
  BY <1>1, <1>3, RacedTargets
<1>5. breaker' \in [Targets -> BreakerState] /\ BreakersSound'
  <2>1. breaker[t] \in BreakerState /\ SoundBreaker(breaker[t], now) /\ now \in Nat \ {0}
    BY <1>1, <1>4, RaceFacts DEF TypeOK, BreakersSound
  <2>2. AfterFailure(breaker[t], now) \in BreakerState /\ SoundBreaker(AfterFailure(breaker[t], now), now)
    BY <2>1, BreakerMethods
  <2>3. breaker' = [breaker EXCEPT ![t] = IF BreakerFailure(o.err) THEN AfterFailure(breaker[t], now) ELSE breaker[t]]
    BY <1>1, <1>4 DEF ReceiveFailure, TypeOK
  <2> HIDE DEF t, o
  <2> QED BY <1>0, <1>4, <2>1, <2>2, <2>3, Reported
<1>6. /\ results'[r] = Tail(results[r]) /\ drain'[r] = 0 /\ raced'[r] = raced[r]
      /\ streaming'[r] = streaming[r]
  BY <1>0, <1>1, <1>2 DEF RaceTypes
<1>7. \/ race[r].pending = 1 /\ RaceLost(r, o.err)
      \/ /\ race[r].pending > 1 /\ race' = [race EXCEPT ![r].pending = @ - 1]
         /\ UNCHANGED <<pc, plan, loopVars, errVars, att>>
  BY DEF ReceiveFailure
<1>8. /\ race[r].pending = (IF Due(r, Other(i)) THEN 2 ELSE 1) /\ Racers = {i, Other(i)}
      /\ Other(i) # i /\ Other(i) \in Slots
  <2>1. CASE i = "primary"
    BY <1>2, <1>3, <2>1 DEF DueCount, Other, Racers, Slots
  <2>2. CASE i = "hedge"
    BY <1>2, <1>3, <2>2 DEF DueCount, Other, Racers, Slots
  <2> QED BY <1>3, <2>1, <2>2 DEF Racers
<1> HIDE DEF o, i, t
\* Receiving leaves the channel and the streams in order, whatever becomes of the race.
<1>9. ASSUME att'[r] \in [Slots -> AttRec], att' = [att EXCEPT ![r] = att'[r]],
             race'[r] \in RaceRec, race' = [race EXCEPT ![r] = race'[r]], race'[r].winner = "none",
             \A j \in Slots : att'[r][j].st = att[r][j].st /\ att'[r][j].stream = att[r][j].stream
      PROVE  /\ RaceTypes' /\ \A q \in Requests \ {r} : SameRace(q)
             /\ ChannelOK(r)' /\ StreamsOK(r)'
             /\ \A j \in Slots : Due(r, j)' <=> Due(r, j) /\ j # i
  <2>1. Wrote(r)
    BY <1>0, <1>1, <1>9 DEF RaceTypes, Wrote
  <2>2. results'[r] \in Seq(Outcome) /\ drain'[r] \in 0 .. 1
    BY <1>3, <1>6
  <2>3. RaceTypes' /\ \A q \in Requests \ {r} : SameRace(q)
    BY <1>1, <1>6, <1>9, <2>1, <2>2, Parts, OneRace
  <2>4. ChannelOK(r)'
    BY <1>3, <1>6, <1>9, Parts DEF ChannelOK
  <2>5. StreamsOK(r)'
    BY <1>2, <1>3, <1>6, <1>9, Parts DEF StreamsOK
  <2>6. \A j \in Slots : Due(r, j)' <=> Due(r, j) /\ j # i
    BY <1>3, <1>6, <1>9 DEF Due
  <2> QED BY <2>3, <2>4, <2>5, <2>6
<1>10. CASE /\ race[r].pending > 1 /\ race' = [race EXCEPT ![r].pending = @ - 1]
            /\ UNCHANGED <<pc, plan, loopVars, errVars, att>>
  <2> DEFINE c == [race[r] EXCEPT !.pending = race[r].pending - 1]
  <2>1. race'[r] = c /\ race' = [race EXCEPT ![r] = race'[r]] /\ att' = [att EXCEPT ![r] = att'[r]]
    BY <1>1, <1>10 DEF RaceTypes
  <2>2. race[r].pending - 1 \in 0 .. 2 /\ race[r].pending - 1 = 1
    BY <1>8, <1>10
  <2>3. /\ c \in RaceRec /\ c.st = "racing" /\ c.winner = "none" /\ c.hedged = race[r].hedged
        /\ c.timer = race[r].timer /\ c.pending = race[r].pending - 1
    BY <1>0, <1>2, <2>2, Parts DEF RaceRec
  <2> HIDE DEF c
  <2>4. /\ RaceTypes' /\ \A q \in Requests \ {r} : SameRace(q)
        /\ ChannelOK(r)' /\ StreamsOK(r)'
        /\ \A j \in Slots : Due(r, j)' <=> Due(r, j) /\ j # i
    BY <1>9, <1>10, <2>1, <2>3, Parts
  <2>5. DueCount(r)' = 1
    <3>1. Due(r, Other(i)) /\ (i = "primary" \/ i = "hedge")
      BY <1>3, <1>8, <1>10 DEF Racers
    <3>2. CASE i = "primary"
      BY <1>8, <2>4, <3>1, <3>2 DEF DueCount, Other, Slots, Racers
    <3>3. CASE i = "hedge"
      BY <1>8, <2>4, <3>1, <3>3 DEF DueCount, Other, Slots, Racers
    <3> QED BY <3>1, <3>2, <3>3
  <2>6. /\ pc'[r] = "visit" /\ plan'[r] = plan[r] /\ result'[r] = "none" /\ att'[r] = att[r]
    BY <1>2, <1>10 DEF errVars
  <2>7. RaceOK(r)'
    BY <1>2, <1>6, <2>1, <2>2, <2>3, <2>5, <2>6 DEF RaceOK
  <2>8. \A q \in Requests : SameRequest(q)
    BY <1>0, <1>10 DEF SameRequest, loopVars, errVars
  <2>9. OrderOK(r)' /\ SomeTarget(r)' /\ RaceExhausted(r)' /\ AtTarget(r)'
    BY <1>2, <2>6, <2>8, Parts, RaceFacts
       DEF OrderOK, SomeTarget, RaceExhausted, AtTarget, OnTarget, Working, SameRequest
  <2>10. SoundRace(r)'
    BY <2>4, <2>7, <2>9 DEF SoundRace
  <2>11. LoopOK' /\ plan' \in [Requests -> Seq(Targets)] /\ attempts' \in [Requests -> Nat]
    BY <1>1, <1>10 DEF LoopOK, TypeOK, loopVars, errVars
  <2> QED BY <1>0, <1>5, <2>4, <2>8, <2>9, <2>10, <2>11, HedgedStep
<1>11. CASE race[r].pending = 1 /\ RaceLost(r, o.err)
  <2>1. /\ att' = [att EXCEPT ![r] = att'[r]] /\ att'[r] \in [Slots -> AttRec]
        /\ \A j \in Slots : att'[r][j].st = att[r][j].st /\ att'[r][j].stream = att[r][j].stream
    BY <1>11, Cancelled DEF RaceLost
  <2>2. ~Due(r, Other(i))
    BY <1>8, <1>11
  <2>3. CASE /\ Rest(r) = << >> \/ Decision(o.err) = "done"
             /\ Return(r, "error", o.err) /\ UNCHANGED <<plan, ti>>
             /\ attempts' = [attempts EXCEPT ![r] = IF Rest(r) = << >> THEN 2 ELSE 0]
             /\ race' = [race EXCEPT ![r].st = "lost", ![r].pending = 0]
    <3> DEFINE c == [race[r] EXCEPT !.st = "lost", !.pending = 0]
    <3>1. race'[r] = c /\ race' = [race EXCEPT ![r] = race'[r]]
      BY <1>1, <2>3 DEF RaceTypes
    <3>2. c \in RaceRec /\ c.st = "lost" /\ c.winner = "none"
      <4>1. race[r] \in RaceRec /\ race[r].winner = "none" /\ 0 \in 0 .. 2
        BY <1>2, Parts
      <4> QED BY <4>1 DEF RaceRec
    <3> HIDE DEF c
    <3>3. /\ RaceTypes' /\ \A q \in Requests \ {r} : SameRace(q)
          /\ ChannelOK(r)' /\ StreamsOK(r)'
      BY <1>9, <2>1, <3>1, <3>2
    <3>4. pc'[r] = "returned" /\ result'[r] = "error" /\ lastErr'[r] = o.err /\ plan'[r] = plan[r]
      BY <1>1, <2>3 DEF Return, TypeOK
    <3>5. RaceOK(r)'
      BY <1>6, <3>1, <3>2, <3>4 DEF RaceOK
    <3>6. OrderOK(r)' /\ SomeTarget(r)' /\ AtTarget(r)'
      BY <1>2, <3>4, Parts DEF OrderOK, SomeTarget, AtTarget, Working
    <3>7. RaceExhausted(r)'
      BY <1>1, <1>6, <2>3, <3>1, <3>2, <3>4, RestOfPlan DEF RaceExhausted
    <3>8. SoundRace(r)'
      BY <3>3, <3>5, <3>6, <3>7 DEF SoundRace
    <3>9. LoopOK' /\ plan' \in [Requests -> Seq(Targets)] /\ attempts' \in [Requests -> Nat]
      <4>1. LoopOK'
        BY <1>1, <1>3, <2>3, ReturnType
      <4> QED BY <1>1, <2>3, <4>1 DEF TypeOK
    <3>10. \A q \in Requests \ {r} : SameRequest(q)
      BY <1>0, <1>1, <2>3 DEF SameRequest, Return, TypeOK
    <3> QED BY <1>0, <1>5, <3>3, <3>6, <3>8, <3>9, <3>10, HedgedStep
  <2>4. CASE /\ Rest(r) # << >> /\ Decision(o.err) # "done"
             /\ plan' = [plan EXCEPT ![r] = Rest(r)] /\ ti' = [ti EXCEPT ![r] = 1]
             /\ attempts' = [attempts EXCEPT ![r] = IF race[r].hedged THEN 2 ELSE 1]
             /\ race' = [race EXCEPT ![r].st = "rest", ![r].pending = 0]
             /\ UNCHANGED <<pc, n, errVars>>
    <3> DEFINE c == [race[r] EXCEPT !.st = "rest", !.pending = 0]
    <3>1. race'[r] = c /\ race' = [race EXCEPT ![r] = race'[r]]
      BY <1>1, <2>4 DEF RaceTypes
    <3>2. c \in RaceRec /\ c.st = "rest" /\ c.winner = "none"
      <4>1. race[r] \in RaceRec /\ race[r].winner = "none" /\ 0 \in 0 .. 2
        BY <1>2, Parts
      <4> QED BY <4>1 DEF RaceRec
    <3> HIDE DEF c
    <3>3. /\ RaceTypes' /\ \A q \in Requests \ {r} : SameRace(q)
          /\ ChannelOK(r)' /\ StreamsOK(r)'
          /\ \A j \in Slots : Due(r, j)' <=> Due(r, j) /\ j # i
      BY <1>9, <2>1, <3>1, <3>2
    <3>4. /\ pc'[r] = "visit" /\ result'[r] = "none" /\ plan'[r] = Rest(r) /\ ti'[r] = 1
          /\ base'[r] = base[r] /\ tiers'[r] = tiers[r]
      BY <1>0, <1>1, <1>2, <2>4 DEF TypeOK, errVars
    <3>5. \A j \in Racers : ~Due(r, j)'
      BY <1>8, <2>2, <3>3, Parts
    <3>6. /\ Rest(r) \in Seq(Targets)
          /\ DistinctPlans => /\ Distinct(Rest(r))
                              /\ \A k \in 1 .. Len(Rest(r)) : Rest(r)[k] \notin raced[r]
      BY <1>1, RestOfPlan
    <3>7. RaceOK(r)'
      BY <1>6, <3>1, <3>2, <3>4, <3>5, <3>6 DEF RaceOK
    <3>8. 1 \in 1 .. Len(Rest(r))
      BY <2>4, <3>6
    <3>9. OrderOK(r)' /\ SomeTarget(r)' /\ RaceExhausted(r)' /\ AtTarget(r)'
      BY <3>4, <3>6, <3>8 DEF OrderOK, SomeTarget, RaceExhausted, AtTarget
    <3>10. SoundRace(r)'
      BY <3>3, <3>7, <3>9 DEF SoundRace
    <3>11. LoopOK' /\ plan' \in [Requests -> Seq(Targets)] /\ attempts' \in [Requests -> Nat]
      BY <1>1, <2>4, <3>6 DEF LoopOK, TypeOK, errVars
    <3>12. \A q \in Requests \ {r} : SameRequest(q)
      BY <1>0, <1>1, <2>4 DEF SameRequest, TypeOK, errVars
    <3> QED BY <1>0, <1>5, <3>3, <3>9, <3>10, <3>11, <3>12, HedgedStep
  <2> QED BY <1>11, <2>3, <2>4 DEF RaceLost
<1> QED BY <1>7, <1>10, <1>11

----------------------------------------------------------------------------
\* The steps of the request's goroutine.
LEMMA MainStep ==
  ASSUME RaceInv, NEW r \in Requests, Main(r)
  PROVE  RaceInv'
<1>1. CASE (OrderTarget(r) \/ OrderDone(r)) /\ UNCHANGED <<budgetVars, raceVars>>
  BY <1>1, OrderTargetStep, OrderDoneStep
<1>2. CASE StartRace(r) \/ TimerFires(r)
  BY <1>2, StartRaceStep, TimerStep
<1>3. CASE ReceiveSuccess(r) \/ ReceiveFailure(r) \/ RaceContext(r)
  BY <1>3, SuccessStep, FailureStep, RaceContextStep
<1>4. CASE ExecuteStep(r)
  BY <1>4, ExecuteServesStep, ExecuteLoopStep DEF ExecuteStep
<1> QED BY <1>1, <1>2, <1>3, <1>4 DEF Main

LEMMA RaceNext ==
  ASSUME RaceInv, [HedgedNext]_hedgedVars
  PROVE  RaceInv'
<1>0. budget \in Budget /\ total \in Nat /\ launched \in Nat
  BY HedgedTypes DEF RaceInv
<1>1. ASSUME NEW r \in Requests, (Start(r) \/ ContextEnds(r)) /\ UNCHANGED <<budgetVars, raceVars>>
      PROVE  RaceInv'
  BY <1>1, StartStep, ContextStep
<1>2. ASSUME NEW r \in Requests, Main(r) \/ Discard(r) PROVE RaceInv'
  BY <1>2, MainStep, DiscardStep
<1>3. ASSUME NEW r \in Requests, NEW i \in Slots, AttemptReturns(r, i) \/ Watch(r, i)
      PROVE  RaceInv'
  BY <1>3, AttemptStep, WatchStep
<1>4. CASE Tick /\ UNCHANGED <<budgetVars, raceVars>>
  <2>1. TypeOK' /\ BreakersSound'
    BY <1>4, RaceFacts, NextType, NextBreakers DEF Next
  <2>2. UNCHANGED <<pc, base, tiers, plan, ti, n, attempts, lastErr, result>>
    BY <1>4 DEF Tick, planVars, loopVars, errVars
  <2> QED BY <1>0, <1>4, <2>1, <2>2, QuietStep DEF budgetVars
<1>5. CASE UNCHANGED <<vars, raceVars>> /\ budget' \in Budget /\ total' \in Nat /\ launched' \in Nat
  <2>1. TypeOK' /\ BreakersSound'
    BY <1>5, RaceFacts, NextType, NextBreakers
  <2>2. UNCHANGED <<pc, base, tiers, plan, ti, n, attempts, lastErr, result>>
    BY <1>5 DEF vars, planVars, loopVars, errVars
  <2> QED BY <1>5, <2>1, <2>2, QuietStep
<1>6. CASE OthersRequest \/ OthersHedge
  BY <1>0, <1>5, <1>6, BudgetTypes DEF OthersRequest, OthersHedge
<1>7. CASE UNCHANGED hedgedVars
  BY <1>0, <1>5, <1>7 DEF hedgedVars, budgetVars
<1> QED BY <1>1, <1>2, <1>3, <1>4, <1>6, <1>7 DEF HedgedNext

LEMMA RaceInit == HedgedInit => RaceInv
<1> SUFFICES ASSUME HedgedInit PROVE RaceInv
  OBVIOUS
<1>1. TypeOK /\ BreakersSound /\ OnTarget
  BY InitInv, IsGrounded DEF HedgedInit, Grounded
<1>2. NoAttempt \in AttRec /\ NoRace \in RaceRec
  BY DEF NoAttempt, AttRec, NoRace, RaceRec
<1>3. RaceTypes
  <2>1. << >> \in Seq(Outcome) /\ 0 \in 0 .. 1
    OBVIOUS
  <2>2. streaming \in [Requests -> BOOLEAN]
    BY HedgedAssumption DEF HedgedInit
  <2> QED BY <1>2, <2>1, <2>2 DEF HedgedInit, RaceTypes
<1>4. budget \in Budget /\ total \in Nat /\ launched \in Nat
  BY HedgeBudgetAssumption DEF HedgedInit, Budget, NewBudget
<1>5. ASSUME NEW r \in Requests PROVE SoundRace(r)
  <2>1. /\ pc[r] = "idle" /\ tiers[r] = NoTiers /\ result[r] = "none" /\ race[r] = NoRace
        /\ results[r] = << >> /\ drain[r] = 0 /\ \A i \in Slots : att[r][i] = NoAttempt
    BY DEF HedgedInit, Init
  <2>2. ChannelOK(r) /\ StreamsOK(r)
    BY <2>1 DEF ChannelOK, StreamsOK, NoAttempt, Once, Has, Slots
  <2>3. RaceOK(r)
    BY <2>1 DEF RaceOK, NoRace, NoAttempt, Slots
  <2>4. OrderOK(r) /\ SomeTarget(r) /\ RaceExhausted(r)
    BY <2>1 DEF OrderOK, SomeTarget, RaceExhausted
  <2> QED BY <2>2, <2>3, <2>4 DEF SoundRace
<1> QED BY <1>1, <1>3, <1>4, <1>5, HedgedTypes DEF RaceInv

\* ExecuteHedged and its goroutines keep their race sound along every behaviour.
THEOREM RaceInvariance == HedgedSpec => []RaceInv
<1>1. RaceInv /\ [HedgedNext]_hedgedVars => RaceInv'
  BY RaceNext
<1> QED BY <1>1, RaceInit, PTL DEF HedgedSpec

\* ExecuteHedged and discard: whoever finished when, an answered request whose
\* goroutines have ended has left no stream open but the winner's.
THEOREM LosersAreReleased == HedgedSpec => []LosersReleased
<1>1. ASSUME RaceInv, NEW r \in Requests, result[r] = "ok", Quiet(r),
             NEW i \in Slots, i # race[r].winner, att[r][i].stream = "open"
      PROVE  FALSE
  <2>1. streaming[r] /\ HasSuccess(results[r], i)
    BY <1>1, Parts DEF StreamsOK
  <2>2. Has(results[r], i)
    BY <2>1 DEF Has, HasSuccess
  <2>3. i \in Racers /\ att[r][i].st = "sent" /\ Due(r, i)
    BY <1>1, <2>2, Parts DEF ChannelOK, Due
  <2>4. race[r].st \in {"none", "racing", "won", "lost", "rest"} /\ RaceOK(r)
    BY <1>1, Parts DEF RaceRec
  <2>5. race[r].st = "won"
    BY <1>1, <2>3, <2>4 DEF RaceOK
  <2>6. race[r].winner \in Racers /\ i = Other(race[r].winner)
    BY <1>1, <2>3, <2>4, <2>5 DEF RaceOK, Other, Racers
  <2>7. drain[r] = 1
    BY <2>1, <2>3, <2>4, <2>5, <2>6 DEF RaceOK
  <2> QED BY <1>1, <2>7 DEF Quiet
<1>2. RaceInv => LosersReleased
  BY <1>1 DEF LosersReleased, RaceInv
<1> QED BY <1>2, RaceInvariance, PTL

\* ExecuteHedged: failover goes on exactly where the race ended, on every route that
\* lists each of its targets once.
THEOREM FailoverFollowsRace ==
  ASSUME DistinctPlans
  PROVE  HedgedSpec => []FailoverAfterRace
<1>1. ASSUME RaceInv, NEW r \in Requests, race[r].st = "rest", pc[r] \in Working
      PROVE  Current(r) \notin raced[r]
  <2>1. ti[r] \in 1 .. Len(plan[r])
    BY <1>1, RaceFacts DEF OnTarget
  <2>2. \A k \in 1 .. Len(plan[r]) : plan[r][k] \notin raced[r]
    BY <1>1, Parts DEF RaceOK
  <2> QED BY <2>1, <2>2 DEF Current
<1>2. ASSUME RaceInv, NEW r \in Requests PROVE RaceExhausted(r) /\ DOMAIN plan[r] = 1 .. Len(plan[r])
  BY <1>2, Parts, RaceFacts DEF TypeOK
<1>3. RaceInv => FailoverAfterRace
  BY <1>1, <1>2 DEF FailoverAfterRace, RacedNotRetried, HedgedFailoverIsExhausted, RaceExhausted
<1> QED BY <1>3, RaceInvariance, PTL

=============================================================================
