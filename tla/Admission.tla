------------------------------ MODULE Admission ------------------------------
(***************************************************************************)
(* One tenant's calls going through the stages of the request pipeline     *)
(* that keep shared state in Redis: agentrun, ratelimit and budget         *)
(* (internal/agentrun, internal/ratelimit, internal/budget), in the order  *)
(* of internal/app/pipeline.go, with the short circuit and the LIFO After  *)
(* hooks of internal/pipeline/pipeline.go.                                 *)
(*                                                                         *)
(* Every Redis script or transaction is atomic and is one step; between    *)
(* them calls of any replica interleave, a replica may die, Redis may      *)
(* fail before or after it ran the script, keys may expire, the month may  *)
(* turn and the tenant's counters may be purged.                           *)
(***************************************************************************)
EXTENDS TokenBucket, Sequences, FiniteSets

CONSTANTS Calls,        \* the tenant's calls
          Fingerprints, \* normalised steps of the agent run the calls belong to
          ReqCap, ReqRate, \* request bucket: RPM and its refill per tick
          TokCap, TokRate, \* token bucket: TPM and its refill per tick
          BucketTTL,    \* life of an untouched bucket key: 120 s, two refills
          TokEsts,      \* token estimates of the ratelimit stage
          RunEst,       \* token estimate of the agentrun stage
          CostEsts,     \* EstimateMaxMicros of the route; 0 without a price that is not required
          Limit,        \* the tenant's monthly budget
          Usages,       \* tokens, cost and hedge cost a call may end up with
          MaxSteps, MaxTokens, MaxCost, LoopRepeats, LoopWindow, RunTTL, \* the key's RunPolicy
          Policies,     \* fail-closed tenant, budget reservation on, fuzzy loop check on
          MonthTicks,   \* ticks of a month
          MaxTime, MaxFaults  \* bounds on the clock and on the faults

ASSUME AdmissionAssumption ==
  /\ ReqCap \in Nat \ {0} /\ ReqRate \in Nat
  /\ TokCap \in Nat \ {0} /\ TokRate \in Nat
  /\ BucketTTL \in Nat /\ BucketTTL * TokRate = 2 * TokCap
  /\ TokEsts \subseteq Nat \ {0}
  /\ RunEst \in Nat \ {0} /\ CostEsts \subseteq Nat /\ Limit \in Nat \ {0}
  /\ Usages \subseteq [tokens : Nat, cost : Nat, hedge : Nat]
  /\ MaxSteps \in Nat \ {0} /\ MaxTokens \in Nat \ {0} /\ MaxCost \in Nat \ {0}
  /\ LoopRepeats \in Nat \ {0, 1} /\ LoopWindow \in Nat \ {0} /\ RunTTL \in Nat \ {0}
  /\ Policies \subseteq [strict : BOOLEAN, reserve : BOOLEAN, fuzzy : BOOLEAN]
  /\ MonthTicks \in Nat \ {0} /\ MaxTime \in Nat /\ MaxFaults \in Nat

VARIABLES policy,  \* the policy of the tenant, its key and the deployment
          now,
          req, tok,  \* the two rate-limit buckets
          spent,     \* the ledger: micros per month
          run,       \* the run hash: steps, tokens, cost, and when it was last touched
          fps,       \* the run's fingerprints, newest first, and the time of the last
          pc,        \* where each call is
          call,      \* each call's Values, usage and fingerprint
          faults,    \* Redis errors, crashes and purges so far
          bill,      \* what the calls really cost, per month
          over,      \* by how much they outran their reservations, per month
          stranded,  \* estimates that were booked but whose reply was lost, per month
          drawn,     \* tokens taken from the token bucket, refunds deducted
          deepDebt,  \* the token bucket was once more than a bucket in debt
          ledgerOff, \* the ledger lost or repeated an After's write, or was purged
          runOff     \* so did the run's keys, or they expired

redisVars == <<req, tok, spent, run, fps>>
ghostVars == <<bill, over, stranded, drawn, deepDebt, ledgerOff, runOff>>
vars == <<policy, now, redisVars, pc, call, faults, ghostVars>>

\* budget.Month of the clock.
month == 1 + now \div MonthTicks

Months == 1 .. 1 + MaxTime \div MonthTicks

NoRun == [steps |-> 0, tokens |-> 0, cost |-> 0, ts |-> 0]
NoSteps == [list |-> << >>, ts |-> 0]

NoCall == [fp |-> "none", est |-> 0, charged |-> 0, reserved |-> 0, month |-> 0,
           inRun |-> FALSE, tokens |-> 0, cost |-> 0, hedge |-> 0]

----------------------------------------------------------------------------
Init ==
  /\ policy \in Policies
  /\ now = 0
  /\ req = NoBucket /\ tok = NoBucket
  /\ spent = [m \in Months |-> 0]
  /\ run = NoRun /\ fps = NoSteps
  /\ pc = [c \in Calls |-> "idle"]
  /\ call = [c \in Calls |-> NoCall]
  /\ faults = 0
  /\ bill = [m \in Months |-> 0]
  /\ over = [m \in Months |-> 0]
  /\ stranded = [m \in Months |-> 0]
  /\ drawn = 0 /\ deepDebt = FALSE
  /\ ledgerOff = FALSE /\ runOff = FALSE

Goto(c, label) == pc' = [pc EXCEPT ![c] = label]

\* Something goes wrong; how often is bounded.
Fault == faults < MaxFaults /\ faults' = faults + 1

\* The outcome of a Redis round trip.
RedisFails == Fault
RedisAnswers == faults' = faults

\* A stage whose Redis failed refuses the call of a strict tenant, and lets the
\* call of any other tenant through unaccounted.
FailOpenOr503(c, onward, back) == Goto(c, IF policy.strict THEN back ELSE onward)

\* A script ran but its reply is lost: the Redis client repeats it, or gives up.  (A
\* repeated try may meet another month or estimate here, which only adds behaviours.)
RepeatOrFail(c, onward, back) == Goto(c, pc[c]) \/ FailOpenOr503(c, onward, back)

Arrive(c) ==
  /\ pc[c] = "idle"
  /\ \E f \in Fingerprints, e \in TokEsts :
       call' = [call EXCEPT ![c] = [NoCall EXCEPT !.fp = f, !.est = e]]
  /\ Goto(c, "run")
  /\ UNCHANGED <<policy, now, redisVars, faults, ghostVars>>

----------------------------------------------------------------------------
\* Mutant of Repeats: the step at hand is not counted.
EarlierRepeats(f) == Cardinality({i \in DOMAIN fps.list : fps.list[i] = f})

\* stepScript: how often the step would occur in the window, itself included.
Repeats(f) == 1 + Cardinality({i \in DOMAIN fps.list : fps.list[i] = f})

StepRefused(f) ==
  \/ run.steps >= MaxSteps \/ run.tokens >= MaxTokens \/ run.cost >= MaxCost
  \/ Repeats(f) >= LoopRepeats

CountStep(c) ==
  /\ run' = [steps |-> run.steps + 1, tokens |-> run.tokens + RunEst,
             cost |-> run.cost, ts |-> now]
  /\ LET pushed == <<call[c].fp>> \o fps.list
     IN  fps' = [list |-> SubSeq(pushed, 1, AtMost(LoopWindow, Len(pushed))), ts |-> now]

\* agentrun Before: the step is refused and nothing is counted, or it is counted
\* with its token estimate.
RunBefore(c) ==
  /\ pc[c] = "run"
  /\ \/ /\ RedisFails
        /\ FailOpenOr503(c, "limit", "runAfter")
        /\ UNCHANGED <<run, fps>>
     \/ /\ RedisFails
        /\ ~StepRefused(call[c].fp)
        /\ CountStep(c)
        /\ RepeatOrFail(c, "limit", "runAfter")
     \/ /\ RedisAnswers
        /\ StepRefused(call[c].fp)
        /\ Goto(c, "runAfter")
        /\ UNCHANGED <<run, fps>>
     \/ /\ RedisAnswers
        /\ ~StepRefused(call[c].fp)
        /\ CountStep(c)
        /\ Goto(c, "fuzzy")
  /\ UNCHANGED <<policy, now, req, tok, spent, call, ghostVars>>

\* takeScript over both buckets: all or nothing.
Admits(cost) ==
  /\ 1 <= Level(req, ReqCap, ReqRate, now)
  /\ cost <= Level(tok, TokCap, TokRate, now)

Charge(cost) ==
  /\ req' = AfterTake(req, ReqCap, ReqRate, now, 1)
  /\ tok' = AfterTake(tok, TokCap, TokRate, now, cost)
  /\ drawn' = drawn + cost

\* agentrun Before, the fuzzy check: it first takes a request of its own from the
\* rate limit, and is skipped if that is refused.  A semantic loop (any answer)
\* refuses the call, before the call has noted that it is in the run.
FuzzyBefore(c) ==
  /\ pc[c] = "fuzzy"
  /\ \/ /\ ~policy.fuzzy
        /\ RedisAnswers /\ UNCHANGED <<req, tok, drawn>>
     \/ /\ policy.fuzzy
        /\ \/ RedisAnswers /\ Admits(0) /\ Charge(0)
           \/ RedisAnswers /\ ~Admits(0) /\ UNCHANGED <<req, tok, drawn>>
           \/ RedisFails /\ UNCHANGED <<req, tok, drawn>>
           \/ RedisFails /\ Admits(0) /\ Charge(0)
  /\ \/ /\ call' = [call EXCEPT ![c].inRun = TRUE]
        /\ Goto(c, "limit")
     \/ /\ policy.fuzzy /\ (Admits(0) \/ faults' # faults)
        /\ Goto(c, "runAfter")
        /\ UNCHANGED call
     \/ /\ faults' # faults /\ req' # req   \* repeated
        /\ Goto(c, "fuzzy")
        /\ UNCHANGED call
  /\ UNCHANGED <<policy, now, spent, run, fps, bill, over, stranded, deepDebt, ledgerOff, runOff>>

\* ratelimit Before.
LimitBefore(c) ==
  /\ pc[c] = "limit"
  /\ \/ /\ RedisFails
        /\ FailOpenOr503(c, "budget", "limitAfter")
        /\ UNCHANGED <<req, tok, call, drawn>>
     \/ /\ RedisFails
        /\ Admits(call[c].est)
        /\ Charge(call[c].est)
        /\ RepeatOrFail(c, "budget", "limitAfter")
        /\ UNCHANGED call
     \/ /\ RedisAnswers
        /\ ~Admits(call[c].est)   \* rate limited, or larger than the bucket
        /\ Goto(c, "limitAfter")
        /\ UNCHANGED <<req, tok, call, drawn>>
     \/ /\ RedisAnswers
        /\ Admits(call[c].est)
        /\ Charge(call[c].est)
        /\ call' = [call EXCEPT ![c].charged = call[c].est]
        /\ Goto(c, "budget")
  /\ UNCHANGED <<policy, now, spent, run, fps, bill, over, stranded, deepDebt, ledgerOff, runOff>>

\* Mutant of Reservable: the estimate itself is not checked.
ReservableIfLeft(est) == spent[month] < Limit

\* reserveScript.
Reservable(est) == spent[month] + est <= Limit

\* budget Before: with reservations, the estimate is booked on the current month or
\* the call is refused (also for want of a price); without them, the ledger is only
\* read.
BudgetBefore(c) ==
  /\ pc[c] = "budget"
  /\ \/ /\ RedisFails
        /\ FailOpenOr503(c, "upstream", "budgetAfter")
        /\ call' = [call EXCEPT ![c].month = IF policy.reserve THEN 0 ELSE month]
        /\ UNCHANGED <<spent, stranded>>
     \/ /\ RedisFails
        /\ policy.reserve
        /\ \E est \in CostEsts :
             /\ Reservable(est)
             /\ spent' = [spent EXCEPT ![month] = @ + est]
             /\ stranded' = [stranded EXCEPT ![month] = @ + est]
        /\ RepeatOrFail(c, "upstream", "budgetAfter")
        /\ UNCHANGED call
     \/ /\ RedisAnswers
        /\ policy.reserve
        /\ \E est \in CostEsts :
             /\ Reservable(est)
             /\ spent' = [spent EXCEPT ![month] = @ + est]
             /\ call' = [call EXCEPT ![c].reserved = est, ![c].month = month]
        /\ Goto(c, "upstream")
        /\ UNCHANGED stranded
     \/ /\ RedisAnswers
        /\ policy.reserve   \* over the limit, or without a price that is required
        /\ Goto(c, "budgetAfter")
        /\ UNCHANGED <<spent, stranded, call>>
     \/ /\ RedisAnswers
        /\ ~policy.reserve
        /\ call' = [call EXCEPT ![c].month = month]
        /\ Goto(c, IF spent[month] >= Limit THEN "budgetAfter" ELSE "upstream")
        /\ UNCHANGED <<spent, stranded>>
  /\ UNCHANGED <<policy, now, req, tok, run, fps, bill, over, drawn, deepDebt, ledgerOff, runOff>>

\* The guard and the cache stages, the upstream call or the stream, whatever their
\* outcome: the tokens, the cost and the estimated cost of a lost hedge.
Upstream(c) ==
  /\ pc[c] = "upstream"
  /\ \E u \in Usages :
       call' = [call EXCEPT ![c].tokens = u.tokens, ![c].cost = u.cost, ![c].hedge = u.hedge]
  /\ Goto(c, "budgetAfter")
  /\ UNCHANGED <<policy, now, redisVars, faults, ghostVars>>

----------------------------------------------------------------------------
\* Mutant of BookingMonth: the month of the After.
CurrentMonth(c) == month

\* The month an After books on: the one its Before noted, or else the current one.
BookingMonth(c) == IF call[c].month = 0 THEN month ELSE call[c].month

\* addScript: the sum never drops below zero.
AfterAdd(s, delta) == IF s + delta < 0 THEN 0 ELSE s + delta

\* budget After: the reservation is replaced by the cost.  The write may be lost, or
\* repeated where only its reply was.
BudgetAfter(c) ==
  /\ pc[c] = "budgetAfter"
  /\ LET m     == BookingMonth(c)
         cost  == call[c].cost + call[c].hedge
         delta == cost - call[c].reserved
         booked == [spent EXCEPT ![m] = AfterAdd(@, delta)]
     IN  /\ over' = [over EXCEPT ![m] = @ + (IF delta > 0 THEN delta ELSE 0)]
         /\ \/ /\ RedisAnswers \/ RedisFails
               /\ spent' = booked
               /\ bill' = [bill EXCEPT ![m] = @ + cost]
               /\ call' = [call EXCEPT ![c].reserved = 0]
               /\ Goto(c, "limitAfter")
               /\ UNCHANGED ledgerOff
            \/ /\ RedisFails /\ delta # 0
               /\ bill' = [bill EXCEPT ![m] = @ + cost]
               /\ call' = [call EXCEPT ![c].reserved = 0]
               /\ Goto(c, "limitAfter")
               /\ ledgerOff' = TRUE
               /\ UNCHANGED spent
            \/ /\ RedisFails /\ delta # 0
               /\ spent' = booked
               /\ Goto(c, pc[c])
               /\ ledgerOff' = TRUE
               /\ UNCHANGED <<bill, call>>
  /\ UNCHANGED <<policy, now, req, tok, run, fps, stranded, drawn, deepDebt, runOff>>

\* ratelimit After: the charged estimate is replaced by the usage.
LimitAfter(c) ==
  /\ pc[c] = "limitAfter"
  /\ LET delta == call[c].charged - call[c].tokens
     IN  \/ /\ call[c].charged = 0 \/ delta = 0
            /\ RedisAnswers
            /\ Goto(c, "runAfter")
            /\ UNCHANGED <<tok, drawn, deepDebt>>
         \/ /\ call[c].charged # 0 /\ delta # 0
            /\ \/ (RedisAnswers \/ RedisFails) /\ Goto(c, "runAfter")
               \/ RedisFails /\ Goto(c, pc[c])
            /\ tok' = AfterAdjust(tok, TokCap, TokRate, now, delta)
            /\ drawn' = drawn - delta
            /\ deepDebt' = (deepDebt \/ tok'.t < -TokCap)
         \/ /\ call[c].charged # 0 /\ delta # 0
            /\ RedisFails
            /\ Goto(c, "runAfter")
            /\ UNCHANGED <<tok, drawn, deepDebt>>
  /\ UNCHANGED <<policy, now, req, spent, run, fps, call, bill, over, stranded, ledgerOff, runOff>>

\* Mutant of RunAfter: settles calls that were never counted.
RunAfterUnguarded(c) ==
  /\ pc[c] = "runAfter"
  /\ RedisAnswers
  /\ run' = [run EXCEPT !.tokens = @ + call[c].tokens - RunEst, !.ts = now]
  /\ Goto(c, "done")
  /\ UNCHANGED <<policy, now, req, tok, spent, fps, call, ghostVars>>

\* agentrun After: the reserved tokens are replaced by the usage.
RunAfter(c) ==
  /\ pc[c] = "runAfter"
  /\ LET settled == [run EXCEPT !.tokens = @ + call[c].tokens - RunEst,
                                !.cost = @ + call[c].cost, !.ts = now]
     IN  \/ /\ ~call[c].inRun
            /\ RedisAnswers
            /\ Goto(c, "done")
            /\ UNCHANGED <<run, runOff>>
         \/ /\ call[c].inRun
            /\ RedisAnswers \/ RedisFails
            /\ run' = settled
            /\ Goto(c, "done")
            /\ UNCHANGED runOff
         \/ /\ call[c].inRun
            /\ RedisFails
            /\ \/ run' = run /\ Goto(c, "done")
               \/ run' = settled /\ Goto(c, pc[c])
            /\ runOff' = TRUE
  /\ UNCHANGED <<policy, now, req, tok, spent, fps, call, bill, over, stranded, drawn, deepDebt, ledgerOff>>

----------------------------------------------------------------------------
InFlight == {c \in Calls : pc[c] \notin {"idle", "done", "lost"}}

\* The replica of a call dies (or its handler panics before pipe.After).
Crash(c) ==
  /\ c \in InFlight
  /\ Fault
  /\ Goto(c, "lost")
  /\ UNCHANGED <<policy, now, redisVars, call, ghostVars>>

\* Time passes and Redis drops the keys whose time has come.
Tick ==
  /\ now < MaxTime
  /\ now' = now + 1
  /\ req' = AfterExpiry(req, now', BucketTTL)
  /\ tok' = AfterExpiry(tok, now', BucketTTL)
  /\ LET runGone == run # NoRun /\ now' >= run.ts + RunTTL
         fpsGone == fps # NoSteps /\ now' >= fps.ts + RunTTL
     IN  /\ run' = IF runGone THEN NoRun ELSE run
         /\ fps' = IF fpsGone THEN NoSteps ELSE fps
         /\ runOff' = (runOff \/ runGone \/ fpsGone)
  /\ UNCHANGED <<policy, spent, pc, call, faults, bill, over, stranded, drawn, deepDebt, ledgerOff>>

\* The tenant is erased: RedisLedger.PurgeTenant and RedisStore.PurgeTenant.
PurgeLedger ==
  /\ Fault
  /\ spent' = [m \in Months |-> 0]
  /\ ledgerOff' = TRUE
  /\ UNCHANGED <<policy, now, req, tok, run, fps, pc, call, bill, over, stranded, drawn, deepDebt, runOff>>

\* The second scan may fail.
PurgeRuns ==
  /\ Fault
  /\ run' = NoRun /\ fps' \in {NoSteps, fps}
  /\ runOff' = TRUE
  /\ UNCHANGED <<policy, now, req, tok, spent, pc, call, bill, over, stranded, drawn, deepDebt, ledgerOff>>

CallStep(c) ==
  \/ Arrive(c) \/ RunBefore(c) \/ FuzzyBefore(c) \/ LimitBefore(c) \/ BudgetBefore(c)
  \/ Upstream(c) \/ BudgetAfter(c) \/ LimitAfter(c) \/ RunAfter(c) \/ Crash(c)

Next == (\E c \in Calls : CallStep(c)) \/ Tick \/ PurgeLedger \/ PurgeRuns

Spec == Init /\ [][Next]_vars

----------------------------------------------------------------------------
Labels == {"idle", "run", "fuzzy", "limit", "budget", "upstream",
           "budgetAfter", "limitAfter", "runAfter", "done", "lost"}

RunHash == [steps : Nat, tokens : Int, cost : Nat, ts : Nat]
RunSteps == [list : Seq(Fingerprints \cup {"none"}), ts : Nat]

CallValues ==
  [fp : Fingerprints \cup {"none"}, est : Nat, charged : Nat, reserved : Nat,
   month : Months \cup {0}, inRun : BOOLEAN, tokens : Nat, cost : Nat, hedge : Nat]

\* The types of the variables.
TypeOK ==
  /\ policy \in Policies
  /\ now \in 0 .. MaxTime
  /\ req \in Bucket /\ tok \in Bucket
  /\ spent \in [Months -> Nat]
  /\ run \in RunHash
  /\ fps \in RunSteps
  /\ pc \in [Calls -> Labels]
  /\ call \in [Calls -> CallValues]
  /\ faults \in Nat
  /\ bill \in [Months -> Nat] /\ over \in [Months -> Nat] /\ stranded \in [Months -> Nat]
  /\ drawn \in Int /\ deepDebt \in BOOLEAN
  /\ ledgerOff \in BOOLEAN /\ runOff \in BOOLEAN

\* The drawn tokens are covered by a full bucket and the refill since the start.
Paced == drawn + Refilled(tok, TokCap, TokRate, now) <= TokCap + now * TokRate

\* The sum of w over the calls, as the number of the units it adds up.
Units(w) == UNION {{c} \X (1 .. w[c]) : c \in Calls}
SumOver(w) == Cardinality(Units(w))

\* What the calls hold reserved on a month, those that died with a replica included.
HeldBy(m) == [c \in Calls |-> IF call[c].month = m THEN call[c].reserved ELSE 0]
Held(m) == SumOver(HeldBy(m))

\* budget Before and After: as long as every write of an After reaches the ledger once,
\* the ledger is the real cost of the settled calls plus the open reservations and the
\* estimates that were booked without the call learning of it, month by month, whatever
\* calls overlap, fail open, outrun their estimate or end in a later month.
LedgerBalances ==
  ~ledgerOff => \A m \in Months : spent[m] = bill[m] + stranded[m] + Held(m)

\* budget Before: no interleaving of reservations takes a month's ledger over the
\* limit; only what is booked beyond the reservations does, and by that much.
SpentWithinLimit == \A m \in Months : spent[m] <= Limit + over[m]

\* ratelimit Before and After: as long as the token bucket was never written more than
\* a full bucket in debt, all tokens drawn so far, less refunds, are covered by one full
\* bucket and the refill since the start: no key expiry, refund or overlap of calls
\* forgives usage.
TokensPaced == ~deepDebt => Paced

\* adjustScript: "may go below zero, which delays the tenant's next requests instead
\* of letting overuse go unpaid": the same without the proviso.
OveruseIsPaid == Paced

\* agentrun: while the run's keys live, its token count is never below the usage of
\* its finished calls plus the estimates of those under way.
RunCountsAll ==
  ~runOff => run.tokens >= SumOver([c \in Calls |->
    IF ~call[c].inRun THEN 0 ELSE IF pc[c] = "done" THEN call[c].tokens ELSE RunEst])

\* stepScript: however calls overlap, fewer than LoopRepeats calls with the same
\* fingerprint get into a run while its keys live and its window holds its steps.
LoopsStopped ==
  (~runOff /\ run.steps <= LoopWindow) =>
    \A f \in Fingerprints :
      Cardinality({c \in Calls : call[c].inRun /\ call[c].fp = f}) < LoopRepeats

\* README.md: "Reserved tokens and budget amounts are reconciled with actual usage."
\* Once every call is done, and nothing failed on the way, the run's token count is
\* what its calls used.
RunReconciled ==
  (~runOff /\ faults = 0 /\ \A c \in Calls : pc[c] \in {"idle", "done"}) =>
    run.tokens = SumOver([c \in Calls |-> call[c].tokens])

=============================================================================
