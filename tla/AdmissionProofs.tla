--------------------------- MODULE AdmissionProofs ---------------------------
(***************************************************************************)
(* Proofs about Admission for any number of calls, any estimates, usages,  *)
(* limits and faults: the types, the monthly limit, the pacing of the      *)
(* token bucket, the exact ledger, the run's token count and its loop      *)
(* check.                                                                  *)
(***************************************************************************)
EXTENDS Admission, FiniteSetTheorems, SequenceTheorems, TLAPS

\* What the token bucket satisfies: it is never overfull, its time stamp is not in
\* the future, and it is not in debt by more than a bucket unless that was noted.
TokSound ==
  tok.live => /\ tok.t <= TokCap
              /\ tok.ts <= now
              /\ ~deepDebt => tok.t >= -TokCap

\* The inductive invariant.
IInv == TypeOK /\ SpentWithinLimit /\ TokSound /\ TokensPaced

----------------------------------------------------------------------------
\* Integer division is monotonic.
LEMMA DivMonotonic ==
  ASSUME NEW k \in Nat \ {0}, NEW a \in Nat, NEW b \in Nat, a <= b
  PROVE  a \div k \in Nat /\ a \div k <= b \div k
<1> DEFINE q == a \div k
           p == b \div k
<1>1. q \in Nat /\ p \in Nat
  OBVIOUS
<1>2. k * q <= a /\ b < k * (p + 1)
  OBVIOUS
<1> HIDE DEF q, p
<1>3. ASSUME p + 1 <= q PROVE FALSE
  <2>1. k * (p + 1) <= k * q
    BY <1>1, <1>3
  <2> QED BY <1>1, <1>2, <2>1
<1>4. q <= p
  BY <1>1, <1>3
<1> QED BY <1>1, <1>4 DEF q, p

\* The clock is always in one of the months.
LEMMA MonthOfClock == TypeOK => month \in Months
<1> SUFFICES ASSUME TypeOK PROVE month \in Months
  OBVIOUS
<1>1. now \in Nat /\ now <= MaxTime /\ MaxTime \in Nat /\ MonthTicks \in Nat \ {0}
  BY AdmissionAssumption DEF TypeOK
<1>2. now \div MonthTicks \in Nat /\ now \div MonthTicks <= MaxTime \div MonthTicks
  BY <1>1, DivMonotonic
<1>3. MaxTime \div MonthTicks \in Nat
  BY <1>1
<1> QED BY <1>2, <1>3 DEF month, Months

\* BookingMonth is a month.
LEMMA BookingMonthType == ASSUME TypeOK, NEW c \in Calls PROVE BookingMonth(c) \in Months
<1>1. call[c].month \in Months \cup {0}
  BY DEF TypeOK, CallValues
<1> QED BY <1>1, MonthOfClock DEF BookingMonth

\* What TokenBucket's operators say of the token bucket, with the products of the
\* refill made explicit.
LEMMA RefillFacts ==
  ASSUME TypeOK, TokSound
  PROVE  /\ now * TokRate \in Nat
         /\ (now + 1) * TokRate = now * TokRate + TokRate
         /\ tok.live => /\ tok.ts \in Nat /\ tok.ts <= now
                        /\ (now - tok.ts) * TokRate \in Nat
                        /\ (now + 1 - tok.ts) * TokRate = (now - tok.ts) * TokRate + TokRate
<1>1. now \in Nat /\ TokRate \in Nat /\ tok.ts \in Nat
  BY AdmissionAssumption DEF TypeOK, Bucket
<1>2. tok.live => now - tok.ts \in Nat
  BY <1>1 DEF TokSound
<1>3. \A x \in Nat : x * TokRate \in Nat /\ (x + 1) * TokRate = x * TokRate + TokRate
  BY <1>1
<1>4. tok.live => (now + 1 - tok.ts) = (now - tok.ts) + 1
  BY <1>1
<1> QED BY <1>1, <1>2, <1>3, <1>4 DEF TokSound

LEMMA InitInv == Init => IInv
<1> SUFFICES ASSUME Init PROVE IInv
  OBVIOUS
<1> USE AdmissionAssumption DEF Init, NoBucket, Bucket, NoRun, NoSteps, NoCall
<1>1. TypeOK
  <2>1. pc \in [Calls -> Labels]
    BY DEF Labels
  <2>2. fps \in RunSteps /\ run \in RunHash
    BY DEF RunSteps, RunHash
  <2>3. call \in [Calls -> CallValues]
    BY DEF CallValues
  <2>4. spent \in [Months -> Nat] /\ bill \in [Months -> Nat] /\ over \in [Months -> Nat] /\ stranded \in [Months -> Nat]
    OBVIOUS
  <2>5. req \in Bucket /\ tok \in Bucket
    OBVIOUS
  <2>6. policy \in Policies /\ now \in 0 .. MaxTime /\ faults \in Nat /\ drawn \in Int
    OBVIOUS
  <2>7. deepDebt \in BOOLEAN /\ ledgerOff \in BOOLEAN /\ runOff \in BOOLEAN
    OBVIOUS
  <2> QED BY <2>1, <2>2, <2>3, <2>4, <2>5, <2>6, <2>7 DEF TypeOK
<1>2. SpentWithinLimit
  BY DEF SpentWithinLimit
<1>3. TokSound
  BY DEF TokSound
<1>4. TokensPaced
  <2>1. 0 * TokRate = 0
    OBVIOUS
  <2> QED BY <2>1 DEF TokensPaced, Paced, Refilled
<1> QED BY <1>1, <1>2, <1>3, <1>4 DEF IInv

----------------------------------------------------------------------------
\* Steps that leave the ledger, its ghosts, the clock and the token bucket alone keep
\* everything but the types.
LEMMA QuietStep ==
  ASSUME IInv, TypeOK', UNCHANGED <<now, spent, over, tok, drawn, deepDebt>>
  PROVE  IInv'
BY DEF IInv, SpentWithinLimit, TokSound, TokensPaced, Paced, Refilled

\* The same for the ledger alone and for the token bucket alone.
LEMMA LedgerAlone ==
  ASSUME IInv, UNCHANGED <<spent, over>>
  PROVE  SpentWithinLimit'
BY DEF IInv, SpentWithinLimit

LEMMA BucketAlone ==
  ASSUME IInv, UNCHANGED <<now, tok, drawn, deepDebt>>
  PROVE  TokSound' /\ TokensPaced'
BY DEF IInv, TokSound, TokensPaced, Paced, Refilled

\* takeScript's charge keeps the buckets' types and the pacing.
LEMMA ChargeKeeps ==
  ASSUME IInv, NEW cost \in Nat, Admits(cost), Charge(cost), UNCHANGED <<now, deepDebt>>
  PROVE  req' \in Bucket /\ tok' \in Bucket /\ drawn' \in Int /\ TokSound' /\ TokensPaced'
<1>1. /\ TokCap \in Nat /\ TokRate \in Nat /\ ReqCap \in Nat /\ ReqRate \in Nat
      /\ now \in Nat /\ tok \in Bucket /\ req \in Bucket /\ drawn \in Int
  BY AdmissionAssumption DEF IInv, TypeOK
<1>2. /\ now * TokRate \in Nat
      /\ tok.live => (now - tok.ts) * TokRate \in Nat
  BY RefillFacts DEF IInv
<1>3. Refilled(tok, TokCap, TokRate, now) \in Int
  BY <1>1, <1>2 DEF Refilled, Bucket
<1>4. Level(req, ReqCap, ReqRate, now) \in Int
  <2>1. req.ts \in Nat /\ req.t \in Int
    BY <1>1 DEF Bucket
  <2>2. (now - req.ts) * ReqRate \in Int
    BY <1>1, <2>1
  <2> QED BY <1>1, <2>1, <2>2 DEF Level, AtMost, Refilled
<1> DEFINE level == Level(tok, TokCap, TokRate, now)
<1>5. /\ level \in Int /\ level <= TokCap /\ cost <= level
      /\ level <= Refilled(tok, TokCap, TokRate, now)
  BY <1>1, <1>3 DEF Level, AtMost, Admits
<1>6. tok' = [live |-> TRUE, t |-> level - cost, ts |-> now]
  BY DEF Charge, AfterTake
<1>7. req' \in Bucket
  BY <1>1, <1>4 DEF Charge, AfterTake, Bucket
<1>8. tok' \in Bucket /\ drawn' \in Int
  BY <1>1, <1>5, <1>6 DEF Bucket, Charge
<1>9. TokSound'
  BY <1>1, <1>5, <1>6 DEF TokSound
<1>10. TokensPaced'
  <2>1. Refilled(tok', TokCap, TokRate, now') = level - cost
    <3>1. (now - now) * TokRate = 0
      BY <1>1
    <3> QED BY <1>1, <1>5, <1>6, <3>1 DEF Refilled
  <2>2. drawn' = drawn + cost
    BY DEF Charge
  <2>3. ASSUME Paced PROVE Paced'
    BY <1>1, <1>2, <1>3, <1>5, <2>1, <2>2, <2>3 DEF Paced
  <2> QED BY <2>3 DEF IInv, TokensPaced
<1> QED BY <1>7, <1>8, <1>9, <1>10

\* adjustScript keeps the bucket's type and the pacing.
LEMMA AdjustKeeps ==
  ASSUME IInv, NEW delta \in Int,
         tok' = AfterAdjust(tok, TokCap, TokRate, now, delta),
         drawn' = drawn - delta,
         deepDebt' = (deepDebt \/ tok'.t < -TokCap),
         UNCHANGED now
  PROVE  tok' \in Bucket /\ drawn' \in Int /\ deepDebt' \in BOOLEAN /\ TokSound' /\ TokensPaced'
<1>1. /\ TokCap \in Nat /\ TokRate \in Nat
      /\ now \in Nat /\ tok \in Bucket /\ drawn \in Int /\ deepDebt \in BOOLEAN
  BY AdmissionAssumption DEF IInv, TypeOK
<1>2. /\ now * TokRate \in Nat
      /\ tok.live => (now - tok.ts) * TokRate \in Nat
  BY RefillFacts DEF IInv
<1>3. Refilled(tok, TokCap, TokRate, now) \in Int
  BY <1>1, <1>2 DEF Refilled, Bucket
<1> DEFINE level == AtMost(TokCap, Refilled(tok, TokCap, TokRate, now) + delta)
<1>4. level \in Int /\ level <= TokCap /\ level <= Refilled(tok, TokCap, TokRate, now) + delta
  BY <1>1, <1>3 DEF AtMost
<1>5. tok' = [live |-> TRUE, t |-> level, ts |-> now]
  BY DEF AfterAdjust
<1> HIDE DEF level
<1>6. tok' \in Bucket /\ drawn' \in Int /\ deepDebt' \in BOOLEAN
  <2>1. tok' \in Bucket
    BY <1>1, <1>4, <1>5 DEF Bucket
  <2>2. drawn' \in Int
    BY <1>1
  <2>3. deepDebt' \in BOOLEAN
    OBVIOUS
  <2> QED BY <2>1, <2>2, <2>3
<1>7. TokSound'
  <2>1. ~deepDebt' => ~(tok'.t < -TokCap)
    OBVIOUS
  <2>2. tok'.t = level /\ tok'.ts = now
    BY <1>5
  <2>3. ~deepDebt' => tok'.t >= -TokCap
    BY <1>1, <1>4, <2>1, <2>2
  <2> QED BY <1>1, <1>4, <2>2, <2>3 DEF TokSound
<1>8. TokensPaced'
  <2>1. Refilled(tok', TokCap, TokRate, now') = level
    <3>1. (now - now) * TokRate = 0
      BY <1>1
    <3> QED BY <1>1, <1>4, <1>5, <3>1 DEF Refilled
  <2>2. ASSUME Paced PROVE Paced'
    BY <1>1, <1>2, <1>3, <1>4, <2>1, <2>2 DEF Paced
  <2>3. ~deepDebt' => ~deepDebt
    OBVIOUS
  <2> QED BY <2>2, <2>3 DEF IInv, TokensPaced
<1> QED BY <1>6, <1>7, <1>8

\* The clock and the expiry of the bucket keep the pacing: an untouched bucket that is
\* at most a bucket in debt is full again when its key goes.
LEMMA TickKeeps ==
  ASSUME IInv, now' = now + 1, UNCHANGED <<drawn, deepDebt>>,
         tok' = AfterExpiry(tok, now', BucketTTL)
  PROVE  tok' \in Bucket /\ TokSound' /\ TokensPaced'
<1>1. /\ TokCap \in Nat /\ TokRate \in Nat /\ BucketTTL \in Nat
      /\ BucketTTL * TokRate = 2 * TokCap
      /\ now \in Nat /\ tok \in Bucket /\ drawn \in Int
  BY AdmissionAssumption DEF IInv, TypeOK
<1>2. /\ now * TokRate \in Nat
      /\ (now + 1) * TokRate = now * TokRate + TokRate
      /\ tok.live => /\ tok.ts \in Nat /\ tok.ts <= now
                     /\ (now - tok.ts) * TokRate \in Nat
                     /\ (now + 1 - tok.ts) * TokRate = (now - tok.ts) * TokRate + TokRate
  BY RefillFacts DEF IInv
<1>3. tok' \in Bucket
  BY <1>1 DEF AfterExpiry, NoBucket, Bucket
<1>4. TokSound'
  BY <1>1, <1>2 DEF IInv, TokSound, AfterExpiry, NoBucket, Bucket
<1>5. ASSUME ~deepDebt PROVE Paced'
  <2>1. drawn + Refilled(tok, TokCap, TokRate, now) <= TokCap + now * TokRate
    BY <1>5 DEF IInv, TokensPaced, Paced
  <2>2. Refilled(tok', TokCap, TokRate, now + 1)
          <= Refilled(tok, TokCap, TokRate, now) + TokRate
    <3>1. CASE ~tok.live
      BY <1>1, <3>1 DEF AfterExpiry, Refilled
    <3>2. CASE tok.live /\ now + 1 < tok.ts + BucketTTL
      <4>1. tok' = tok
        BY <1>1, <1>2, <3>2 DEF AfterExpiry
      <4> QED BY <1>1, <1>2, <3>2, <4>1 DEF Refilled, Bucket
    <3>3. CASE tok.live /\ now + 1 >= tok.ts + BucketTTL
      <4>1. tok' = NoBucket
        BY <1>1, <1>2, <3>3 DEF AfterExpiry
      <4>2. tok.t \in Int /\ tok.t >= -TokCap
        BY <1>1, <1>5, <3>3 DEF IInv, TokSound, Bucket
      <4>3. (now + 1 - tok.ts) * TokRate >= BucketTTL * TokRate
        <5>1. \A x, y, z \in Nat : x <= y => x * z <= y * z
          OBVIOUS
        <5>2. now + 1 - tok.ts \in Nat /\ BucketTTL <= now + 1 - tok.ts
          BY <1>1, <1>2, <3>3
        <5> QED BY <1>1, <5>1, <5>2
      <4> QED BY <1>1, <1>2, <3>3, <4>1, <4>2, <4>3 DEF Refilled, NoBucket
    <3> QED BY <1>1, <1>2, <3>1, <3>2, <3>3
  <2>3. Refilled(tok, TokCap, TokRate, now) \in Int
    BY <1>1, <1>2 DEF Refilled, Bucket
  <2>4. Refilled(tok', TokCap, TokRate, now + 1) \in Int
    BY <1>1, <1>2, <1>3 DEF Refilled, Bucket, AfterExpiry, NoBucket
  <2> QED BY <1>1, <1>2, <2>1, <2>2, <2>3, <2>4 DEF Paced
<1> QED BY <1>3, <1>4, <1>5 DEF TokensPaced

----------------------------------------------------------------------------
\* A step of a call keeps the types of the control.
LEMMA GotoType ==
  ASSUME TypeOK, NEW c \in Calls, NEW label \in Labels, Goto(c, label)
  PROVE  pc' \in [Calls -> Labels]
BY DEF TypeOK, Goto

\* A call whose script ran without an answer stays or leaves for one of the two labels.
LEMMA RepeatTyped ==
  ASSUME TypeOK, NEW c \in Calls, NEW onward \in Labels, NEW back \in Labels,
         RepeatOrFail(c, onward, back) \/ FailOpenOr503(c, onward, back)
  PROVE  pc' \in [Calls -> Labels]
<1>1. pc[c] \in Labels
  BY DEF TypeOK
<1> QED BY <1>1, GotoType DEF RepeatOrFail, FailOpenOr503

LEMMA FaultType ==
  ASSUME TypeOK, RedisFails \/ RedisAnswers \/ UNCHANGED faults
  PROVE  faults' \in Nat
BY DEF TypeOK, RedisFails, RedisAnswers, Fault

LEMMA ArriveKeeps == ASSUME IInv, NEW c \in Calls, Arrive(c) PROVE IInv'
<1> USE DEF Arrive, redisVars, ghostVars
<1>1. TypeOK
  BY DEF IInv
<1>2. PICK f \in Fingerprints, e \in TokEsts :
        call' = [call EXCEPT ![c] = [NoCall EXCEPT !.fp = f, !.est = e]]
  OBVIOUS
<1>3. [NoCall EXCEPT !.fp = f, !.est = e] \in CallValues
  BY AdmissionAssumption DEF NoCall, CallValues
<1>4. call' \in [Calls -> CallValues]
  BY <1>1, <1>2, <1>3 DEF TypeOK
<1>5. pc' \in [Calls -> Labels]
  BY <1>1, GotoType DEF Labels
<1>6. TypeOK'
  BY <1>1, <1>4, <1>5 DEF TypeOK
<1> QED BY <1>6, QuietStep

LEMMA RunBeforeKeeps == ASSUME IInv, NEW c \in Calls, RunBefore(c) PROVE IInv'
<1> USE DEF RunBefore, redisVars, ghostVars
<1>1. TypeOK
  BY DEF IInv
<1>2. faults' \in Nat
  BY <1>1, FaultType
<1>3. pc' \in [Calls -> Labels]
  BY <1>1, GotoType, RepeatTyped DEF Labels
<1>4. run' \in RunHash
  BY <1>1, AdmissionAssumption DEF TypeOK, RunHash, CountStep
<1>5. fps' \in RunSteps
  <2>1. CASE UNCHANGED fps
    BY <1>1, <2>1 DEF TypeOK
  <2>2. CASE ~UNCHANGED fps
    <3> DEFINE pushed == <<call[c].fp>> \o fps.list
    <3>1. fps' = [list |-> SubSeq(pushed, 1, AtMost(LoopWindow, Len(pushed))), ts |-> now]
      BY <2>2 DEF CountStep
    <3>2. pushed \in Seq(Fingerprints \cup {"none"})
      BY <1>1 DEF TypeOK, RunSteps, CallValues
    <3>3. Len(pushed) \in Nat /\ LoopWindow \in Nat /\ now \in Nat
      <4>1. Len(pushed) \in Nat
        BY <3>2
      <4>2. LoopWindow \in Nat /\ now \in Nat
        BY <1>1, AdmissionAssumption DEF TypeOK
      <4> QED BY <4>1, <4>2
    <3>4. AtMost(LoopWindow, Len(pushed)) \in 0 .. Len(pushed)
      BY <3>3 DEF AtMost
    <3> HIDE DEF pushed
    <3>5. SubSeq(pushed, 1, AtMost(LoopWindow, Len(pushed))) \in Seq(Fingerprints \cup {"none"})
      BY <3>2, <3>3, <3>4
    <3> QED BY <3>1, <3>3, <3>5 DEF RunSteps
  <2> QED BY <2>1, <2>2
<1>6. TypeOK'
  BY <1>1, <1>2, <1>3, <1>4, <1>5 DEF TypeOK
<1> QED BY <1>6, QuietStep

LEMMA FuzzyBeforeKeeps == ASSUME IInv, NEW c \in Calls, FuzzyBefore(c) PROVE IInv'
<1> USE DEF FuzzyBefore
<1>1. TypeOK
  BY DEF IInv
<1>2. faults' \in Nat
  BY <1>1, FaultType
<1>3. pc' \in [Calls -> Labels]
  BY <1>1, GotoType DEF Labels
<1>4. call' \in [Calls -> CallValues]
  <2>1. CASE UNCHANGED call
    BY <1>1, <2>1 DEF TypeOK
  <2>2. CASE call' = [call EXCEPT ![c].inRun = TRUE]
    <3>1. [call[c] EXCEPT !.inRun = TRUE] \in CallValues
      BY <1>1 DEF TypeOK, CallValues
    <3>2. call' = [call EXCEPT ![c] = [call[c] EXCEPT !.inRun = TRUE]]
      BY <2>2
    <3> QED BY <1>1, <3>1, <3>2 DEF TypeOK
  <2> QED BY <2>1, <2>2
<1>5. SpentWithinLimit'
  BY LedgerAlone
<1>6. req' \in Bucket /\ tok' \in Bucket /\ drawn' \in Int /\ TokSound' /\ TokensPaced'
  <2>1. CASE UNCHANGED <<req, tok, drawn>>
    <3>1. req' \in Bucket /\ tok' \in Bucket /\ drawn' \in Int
      BY <1>1, <2>1 DEF TypeOK
    <3> QED BY <2>1, <3>1, BucketAlone
  <2>2. CASE Admits(0) /\ Charge(0)
    BY <2>2, ChargeKeeps
  <2> QED BY <2>1, <2>2
<1>7. TypeOK'
  BY <1>1, <1>2, <1>3, <1>4, <1>6 DEF TypeOK
<1> QED BY <1>5, <1>6, <1>7 DEF IInv

LEMMA LimitBeforeKeeps == ASSUME IInv, NEW c \in Calls, LimitBefore(c) PROVE IInv'
<1> USE DEF LimitBefore
<1>1. TypeOK /\ call[c].est \in Nat
  BY DEF IInv, TypeOK, CallValues
<1>2. faults' \in Nat
  BY <1>1, FaultType
<1>3. pc' \in [Calls -> Labels]
  BY <1>1, GotoType, RepeatTyped DEF Labels
<1>4. call' \in [Calls -> CallValues]
  BY <1>1 DEF TypeOK, CallValues
<1>5. SpentWithinLimit'
  BY LedgerAlone
<1>6. req' \in Bucket /\ tok' \in Bucket /\ drawn' \in Int /\ TokSound' /\ TokensPaced'
  <2>1. CASE UNCHANGED <<req, tok, drawn>>
    <3>1. req' \in Bucket /\ tok' \in Bucket /\ drawn' \in Int
      BY <1>1, <2>1 DEF TypeOK
    <3> QED BY <2>1, <3>1, BucketAlone
  <2>2. CASE Admits(call[c].est) /\ Charge(call[c].est)
    BY <1>1, <2>2, ChargeKeeps
  <2> QED BY <2>1, <2>2
<1>7. TypeOK'
  BY <1>1, <1>2, <1>3, <1>4, <1>6 DEF TypeOK
<1> QED BY <1>5, <1>6, <1>7 DEF IInv

\* A booked reservation keeps the types of the ledger and of the call.
LEMMA ReservationTyped ==
  ASSUME TypeOK, NEW c \in Calls, NEW est \in Nat, NEW m \in Months,
         spent' = [spent EXCEPT ![m] = @ + est],
         call' = [call EXCEPT ![c].reserved = est, ![c].month = m]
  PROVE  spent' \in [Months -> Nat] /\ call' \in [Calls -> CallValues]
<1>1. spent \in [Months -> Nat] /\ call[c] \in CallValues /\ call \in [Calls -> CallValues]
  BY DEF TypeOK
<1>2. spent' \in [Months -> Nat]
  BY <1>1
<1>3. [[call[c] EXCEPT !.reserved = est] EXCEPT !.month = m] \in CallValues
  BY <1>1 DEF CallValues
<1>4. call' = [call EXCEPT ![c] = [[@ EXCEPT !.reserved = est] EXCEPT !.month = m]]
  BY <1>1
<1> QED BY <1>1, <1>2, <1>3, <1>4

LEMMA BudgetBeforeKeeps == ASSUME IInv, NEW c \in Calls, BudgetBefore(c) PROVE IInv'
<1> USE DEF BudgetBefore, ghostVars
<1>1. TypeOK /\ month \in Months
  BY MonthOfClock DEF IInv
<1>2. faults' \in Nat
  BY <1>1, FaultType
<1>3. pc' \in [Calls -> Labels]
  BY <1>1, GotoType, RepeatTyped DEF Labels
<1>4. \A est \in CostEsts : est \in Nat
  BY AdmissionAssumption
<1>5. spent' \in [Months -> Nat] /\ call' \in [Calls -> CallValues]
  <2>1. spent \in [Months -> Nat] /\ call \in [Calls -> CallValues]
    BY <1>1 DEF TypeOK
  <2>2. CASE UNCHANGED spent /\ (UNCHANGED call \/ \E m \in Months \cup {0} :
                                                  call' = [call EXCEPT ![c].month = m])
    BY <2>1, <2>2 DEF CallValues
  <2>4. CASE UNCHANGED call /\ \E est \in CostEsts : spent' = [spent EXCEPT ![month] = @ + est]
    BY <1>1, <1>4, <2>1, <2>4
  <2>3. CASE \E est \in CostEsts :
               /\ spent' = [spent EXCEPT ![month] = @ + est]
               /\ call' = [call EXCEPT ![c].reserved = est, ![c].month = month]
    BY <1>1, <1>4, <2>3, ReservationTyped
  <2> QED BY <1>1, <2>2, <2>3, <2>4
<1>9. stranded' \in [Months -> Nat]
  <2>1. stranded \in [Months -> Nat]
    BY <1>1 DEF TypeOK
  <2>2. CASE \E est \in CostEsts : stranded' = [stranded EXCEPT ![month] = @ + est]
    BY <1>1, <1>4, <2>1, <2>2
  <2> QED BY <2>1, <2>2
<1>6. SpentWithinLimit'
  <2>1. CASE UNCHANGED spent
    BY <2>1, LedgerAlone
  <2>2. CASE \E est \in CostEsts :
               Reservable(est) /\ spent' = [spent EXCEPT ![month] = @ + est]
    <3> PICK est \in CostEsts : Reservable(est) /\ spent' = [spent EXCEPT ![month] = @ + est]
      BY <2>2
    <3>1. \A m \in Months : spent[m] \in Nat /\ over[m] \in Nat /\ over'[m] = over[m]
      BY <1>1 DEF TypeOK
    <3>2. spent'[month] <= Limit
      BY <1>1 DEF Reservable, TypeOK
    <3>3. \A m \in Months : m # month => spent'[m] = spent[m]
      BY <1>1 DEF TypeOK
    <3>4. \A m \in Months : spent'[m] <= Limit + over[m]
      BY <1>1, <1>5, <3>1, <3>2, <3>3, AdmissionAssumption DEF IInv, SpentWithinLimit
    <3> QED BY <3>1, <3>4 DEF SpentWithinLimit
  <2> QED BY <2>1, <2>2
<1>7. TokSound' /\ TokensPaced'
  BY BucketAlone
<1>8. TypeOK'
  BY <1>1, <1>2, <1>3, <1>5, <1>9 DEF TypeOK
<1> QED BY <1>6, <1>7, <1>8 DEF IInv

LEMMA UpstreamKeeps == ASSUME IInv, NEW c \in Calls, Upstream(c) PROVE IInv'
<1> USE DEF Upstream, redisVars, ghostVars
<1>1. TypeOK
  BY DEF IInv
<1>2. pc' \in [Calls -> Labels]
  BY <1>1, GotoType DEF Labels
<1>3. call' \in [Calls -> CallValues]
  <2>1. PICK u \in Usages : call' = [call EXCEPT ![c].tokens = u.tokens, ![c].cost = u.cost,
                                               ![c].hedge = u.hedge]
    OBVIOUS
  <2>2. u.tokens \in Nat /\ u.cost \in Nat /\ u.hedge \in Nat
    BY AdmissionAssumption
  <2> DEFINE v == [call[c] EXCEPT !.tokens = u.tokens, !.cost = u.cost, !.hedge = u.hedge]
  <2>3. v \in CallValues
    <3>1. call[c] \in CallValues
      BY <1>1 DEF TypeOK
    <3> DEFINE v1 == [call[c] EXCEPT !.tokens = u.tokens]
               v2 == [v1 EXCEPT !.cost = u.cost]
    <3>2. v1 \in CallValues
      BY <2>2, <3>1 DEF CallValues
    <3>3. v2 \in CallValues
      <4> HIDE DEF v1
      <4> QED BY <2>2, <3>2 DEF CallValues
    <3>4. v = [v2 EXCEPT !.hedge = u.hedge]
      OBVIOUS
    <3> HIDE DEF v, v2
    <3> QED BY <2>2, <3>3, <3>4 DEF CallValues
  <2>4. call' = [call EXCEPT ![c] = v]
    BY <1>1, <2>1 DEF TypeOK
  <2> HIDE DEF v
  <2> QED BY <1>1, <2>3, <2>4 DEF TypeOK
<1>4. TypeOK'
  BY <1>1, <1>2, <1>3 DEF TypeOK
<1> QED BY <1>4, QuietStep

\* addScript keeps the month within the limit and what the calls outran.
LEMMA BudgetAfterKeeps == ASSUME IInv, NEW c \in Calls, BudgetAfter(c) PROVE IInv'
<1> DEFINE m == BookingMonth(c)
           cost == call[c].cost + call[c].hedge
           delta == cost - call[c].reserved
           excess == IF delta > 0 THEN delta ELSE 0
<1>1. TypeOK /\ m \in Months
  BY BookingMonthType DEF IInv
<1>2. cost \in Nat /\ delta \in Int /\ excess \in Nat
  <2>1. call[c].cost \in Nat /\ call[c].hedge \in Nat /\ call[c].reserved \in Nat
    BY <1>1 DEF TypeOK, CallValues
  <2> QED BY <2>1
<1>3. /\ bill' = [bill EXCEPT ![m] = @ + cost] \/ UNCHANGED bill
      /\ over' = [over EXCEPT ![m] = @ + excess]
      /\ UNCHANGED spent \/ spent' = [spent EXCEPT ![m] = AfterAdd(@, delta)]
      /\ UNCHANGED ledgerOff \/ ledgerOff' = TRUE
      /\ UNCHANGED call \/ call' = [call EXCEPT ![c].reserved = 0]
      /\ Goto(c, "limitAfter") \/ Goto(c, pc[c])
      /\ RedisFails \/ RedisAnswers
      /\ UNCHANGED <<policy, now, req, tok, run, fps, stranded, drawn, deepDebt, runOff>>
  BY DEF BudgetAfter
<1> HIDE DEF m, cost, delta
<1>4. \A k \in Months : spent[k] \in Nat /\ over[k] \in Nat /\ spent[k] <= Limit + over[k]
  BY DEF IInv, SpentWithinLimit, TypeOK
<1>5. /\ bill' \in [Months -> Nat] /\ over' \in [Months -> Nat]
      /\ \A k \in Months : over'[k] = IF k = m THEN over[k] + excess ELSE over[k]
  BY <1>1, <1>2, <1>3 DEF TypeOK
<1>6. AfterAdd(spent[m], delta) \in Nat /\ AfterAdd(spent[m], delta) <= Limit + over[m] + excess
  BY <1>1, <1>2, <1>4, AdmissionAssumption DEF AfterAdd
<1>7. spent' \in [Months -> Nat]
  BY <1>1, <1>3, <1>6 DEF TypeOK
<1>8. SpentWithinLimit'
  <2>1. \A k \in Months : k # m => spent'[k] = spent[k]
    BY <1>1, <1>3 DEF TypeOK
  <2>2. spent'[m] = spent[m] \/ spent'[m] = AfterAdd(spent[m], delta)
    BY <1>1, <1>3 DEF TypeOK
  <2>3. ASSUME NEW k \in Months PROVE spent'[k] <= Limit + over'[k]
    <3>1. CASE k = m
      BY <1>1, <1>2, <1>4, <1>5, <1>6, <2>2, <3>1, AdmissionAssumption
    <3>2. CASE k # m
      BY <1>4, <1>5, <2>1, <3>2
    <3> QED BY <3>1, <3>2
  <2> QED BY <2>3 DEF SpentWithinLimit
<1>9. TokSound' /\ TokensPaced'
  BY <1>3, BucketAlone
<1>10. TypeOK'
  <2>1. faults' \in Nat
    BY <1>1, <1>3, FaultType
  <2>2. pc' \in [Calls -> Labels]
    <3>1. pc[c] \in Labels
      BY <1>1 DEF TypeOK
    <3> QED BY <1>1, <1>3, <3>1, GotoType DEF Labels
  <2>3. call' \in [Calls -> CallValues]
    BY <1>1, <1>3 DEF TypeOK, CallValues
  <2>4. ledgerOff' \in BOOLEAN
    BY <1>1, <1>3 DEF TypeOK
  <2> QED BY <1>1, <1>3, <1>5, <1>7, <2>1, <2>2, <2>3, <2>4 DEF TypeOK
<1> QED BY <1>8, <1>9, <1>10 DEF IInv

LEMMA LimitAfterKeeps == ASSUME IInv, NEW c \in Calls, LimitAfter(c) PROVE IInv'
<1> DEFINE delta == call[c].charged - call[c].tokens
<1>1. TypeOK /\ delta \in Int
  BY DEF IInv, TypeOK, CallValues
<1>2. /\ \/ UNCHANGED <<tok, drawn, deepDebt>>
         \/ /\ tok' = AfterAdjust(tok, TokCap, TokRate, now, delta)
            /\ drawn' = drawn - delta
            /\ deepDebt' = (deepDebt \/ tok'.t < -TokCap)
      /\ RedisFails \/ RedisAnswers
      /\ Goto(c, "runAfter") \/ Goto(c, pc[c])
      /\ UNCHANGED <<policy, now, req, spent, run, fps, call, bill, over, stranded, ledgerOff, runOff>>
  BY DEF LimitAfter
<1> HIDE DEF delta
<1>3. tok' \in Bucket /\ drawn' \in Int /\ deepDebt' \in BOOLEAN /\ TokSound' /\ TokensPaced'
  <2>1. CASE UNCHANGED <<tok, drawn, deepDebt>>
    <3>1. tok' \in Bucket /\ drawn' \in Int /\ deepDebt' \in BOOLEAN
      BY <1>1, <2>1 DEF TypeOK
    <3>2. TokSound' /\ TokensPaced'
      BY <1>2, <2>1, BucketAlone
    <3> QED BY <3>1, <3>2
  <2>2. CASE /\ tok' = AfterAdjust(tok, TokCap, TokRate, now, delta)
             /\ drawn' = drawn - delta
             /\ deepDebt' = (deepDebt \/ tok'.t < -TokCap)
    BY <1>1, <1>2, <2>2, AdjustKeeps
  <2> QED BY <1>2, <2>1, <2>2
<1>4. SpentWithinLimit'
  BY <1>2, LedgerAlone
<1>5. TypeOK'
  <2>1. faults' \in Nat
    BY <1>1, <1>2, FaultType
  <2>2. pc' \in [Calls -> Labels]
    <3>1. pc[c] \in Labels
      BY <1>1 DEF TypeOK
    <3> QED BY <1>1, <1>2, <3>1, GotoType DEF Labels
  <2> QED BY <1>1, <1>2, <1>3, <2>1, <2>2 DEF TypeOK
<1> QED BY <1>3, <1>4, <1>5 DEF IInv

LEMMA RunAfterKeeps == ASSUME IInv, NEW c \in Calls, RunAfter(c) PROVE IInv'
<1> USE DEF RunAfter
<1>1. TypeOK
  BY DEF IInv
<1>2. faults' \in Nat
  BY <1>1, FaultType
<1>3. pc' \in [Calls -> Labels]
  <2>1. pc[c] \in Labels
    BY <1>1 DEF TypeOK
  <2> QED BY <1>1, <2>1, GotoType DEF Labels
<1>4. run' \in RunHash
  <2>1. call[c].tokens \in Nat /\ call[c].cost \in Nat /\ RunEst \in Nat /\ now \in Nat
    BY <1>1, AdmissionAssumption DEF TypeOK, CallValues
  <2>2. run \in RunHash
    BY <1>1 DEF TypeOK
  <2>3. CASE UNCHANGED run
    BY <2>2, <2>3
  <2>4. CASE run' = [run EXCEPT !.tokens = @ + call[c].tokens - RunEst,
                                !.cost = @ + call[c].cost, !.ts = now]
    <3>1. run' = [steps |-> run.steps, tokens |-> run.tokens + call[c].tokens - RunEst,
                  cost |-> run.cost + call[c].cost, ts |-> now]
      BY <2>2, <2>4 DEF RunHash
    <3>2. run.steps \in Nat /\ run.tokens \in Int /\ run.cost \in Nat
      BY <2>2 DEF RunHash
    <3>3. /\ run.tokens + call[c].tokens - RunEst \in Int
          /\ run.cost + call[c].cost \in Nat
      BY <2>1, <3>2
    <3> QED BY <2>1, <3>1, <3>2, <3>3 DEF RunHash
  <2> QED BY <2>3, <2>4
<1>5. runOff' \in BOOLEAN
  BY <1>1 DEF TypeOK
<1>6. TypeOK'
  BY <1>1, <1>2, <1>3, <1>4, <1>5 DEF TypeOK
<1> QED BY <1>6, QuietStep

LEMMA CrashKeeps == ASSUME IInv, NEW c \in Calls, Crash(c) PROVE IInv'
<1> USE DEF Crash, redisVars, ghostVars
<1>1. TypeOK
  BY DEF IInv
<1>2. faults' \in Nat
  BY <1>1, FaultType DEF RedisFails
<1>3. pc' \in [Calls -> Labels]
  BY <1>1, GotoType DEF Labels
<1>4. TypeOK'
  BY <1>1, <1>2, <1>3 DEF TypeOK
<1> QED BY <1>4, QuietStep

LEMMA TickStepKeeps == ASSUME IInv, Tick PROVE IInv'
<1> USE DEF Tick
<1>1. TypeOK
  BY DEF IInv
<1>2. now' \in 0 .. MaxTime
  BY <1>1, AdmissionAssumption DEF TypeOK
<1>3. req' \in Bucket
  BY <1>1 DEF TypeOK, AfterExpiry, NoBucket, Bucket
<1>4. run' \in RunHash /\ fps' \in RunSteps
  BY <1>1 DEF TypeOK, NoRun, NoSteps, RunHash, RunSteps
<1>5. runOff' \in BOOLEAN
  OBVIOUS
<1>6. tok' \in Bucket /\ TokSound' /\ TokensPaced'
  BY TickKeeps
<1>7. SpentWithinLimit'
  BY LedgerAlone
<1>8. TypeOK'
  BY <1>1, <1>2, <1>3, <1>4, <1>5, <1>6 DEF TypeOK
<1> QED BY <1>6, <1>7, <1>8 DEF IInv

LEMMA PurgesKeep == ASSUME IInv, PurgeLedger \/ PurgeRuns PROVE IInv'
<1>1. TypeOK
  BY DEF IInv
<1>2. faults' \in Nat
  BY <1>1, FaultType DEF RedisFails, PurgeLedger, PurgeRuns
<1>3. CASE PurgeLedger
  <2>1. TypeOK'
    BY <1>1, <1>2, <1>3 DEF TypeOK, PurgeLedger
  <2>2. SpentWithinLimit'
    BY <1>1, <1>3, AdmissionAssumption DEF SpentWithinLimit, PurgeLedger, TypeOK
  <2>3. TokSound' /\ TokensPaced'
    BY <1>3, BucketAlone DEF PurgeLedger
  <2> QED BY <2>1, <2>2, <2>3 DEF IInv
<1>4. CASE PurgeRuns
  <2>1. run' \in RunHash /\ fps' \in RunSteps
    <3>1. NoRun \in RunHash /\ NoSteps \in RunSteps
      BY DEF NoRun, NoSteps, RunHash, RunSteps
    <3> QED BY <1>1, <1>4, <3>1 DEF PurgeRuns, TypeOK
  <2>2. TypeOK'
    BY <1>1, <1>2, <1>4, <2>1 DEF TypeOK, PurgeRuns
  <2> QED BY <1>4, <2>2, QuietStep DEF PurgeRuns
<1> QED BY <1>3, <1>4

----------------------------------------------------------------------------
\* Every step of every call, replica and clock keeps the inductive invariant.
LEMMA StepInv == IInv /\ [Next]_vars => IInv'
<1> SUFFICES ASSUME IInv, [Next]_vars PROVE IInv'
  OBVIOUS
<1>1. CASE UNCHANGED vars
  <2>1. TypeOK'
    BY <1>1 DEF IInv, TypeOK, vars, redisVars, ghostVars
  <2> QED BY <1>1, <2>1, QuietStep DEF vars, redisVars, ghostVars
<1>2. ASSUME NEW c \in Calls, CallStep(c) PROVE IInv'
  BY <1>2, ArriveKeeps, RunBeforeKeeps, FuzzyBeforeKeeps, LimitBeforeKeeps, BudgetBeforeKeeps,
     UpstreamKeeps, BudgetAfterKeeps, LimitAfterKeeps, RunAfterKeeps, CrashKeeps DEF CallStep
<1>3. CASE Tick
  BY <1>3, TickStepKeeps
<1>4. CASE PurgeLedger \/ PurgeRuns
  BY <1>4, PurgesKeep
<1> QED BY <1>1, <1>2, <1>3, <1>4 DEF Next

\* The inductive invariant holds in every state of every behaviour of the pipeline.
THEOREM Invariance == Spec => []IInv
BY InitInv, StepInv, PTL DEF Spec

\* The types: in particular no refund, month's turn or purge takes the ledger of a
\* month below zero (addScript's clamp), for all calls and usages.
THEOREM TypeCorrect == Spec => []TypeOK
<1>1. IInv => TypeOK
  BY DEF IInv
<1> QED BY <1>1, Invariance, PTL

\* The budget stage's promise, for any number of overlapping calls: a month's ledger
\* exceeds the tenant's limit only by what calls outran their reservations.
THEOREM LimitRespected == Spec => []SpentWithinLimit
<1>1. IInv => SpentWithinLimit
  BY DEF IInv
<1> QED BY <1>1, Invariance, PTL

\* The rate limiter's promise, for any estimates, usages and expiry of the bucket's
\* key: no token is used for free unless the bucket was a whole bucket in debt.
THEOREM BucketPaced == Spec => []TokensPaced
<1>1. IInv => TokensPaced
  BY DEF IInv
<1> QED BY <1>1, Invariance, PTL

----------------------------------------------------------------------------
\* The units of one call.
Share(w, c) == {c} \X (1 .. w[c])

LEMMA ShareSize ==
  ASSUME NEW w, NEW c, w[c] \in Nat
  PROVE  IsFiniteSet(Share(w, c)) /\ Cardinality(Share(w, c)) = w[c]
<1>1. IsFiniteSet(1 .. w[c]) /\ Cardinality(1 .. w[c]) = w[c]
  BY FS_Interval
<1>2. IsFiniteSet({c}) /\ Cardinality({c}) = 1
  BY FS_Singleton
<1>3. /\ IsFiniteSet({c} \X (1 .. w[c]))
      /\ Cardinality({c} \X (1 .. w[c])) = Cardinality({c}) * Cardinality(1 .. w[c])
  BY <1>1, <1>2, FS_Product
<1> QED BY <1>1, <1>2, <1>3 DEF Share

\* The units of the calls but one, and with them the units of all.
LEMMA UnitsApart ==
  ASSUME NEW w \in [Calls -> Nat], NEW c \in Calls
  PROVE  /\ Units(w) = {p \in Units(w) : p[1] # c} \cup Share(w, c)
         /\ {p \in Units(w) : p[1] # c} \cap Share(w, c) = {}
         /\ Share(w, c) \subseteq Units(w)
<1>1. \A d \in Calls : \A p \in {d} \X (1 .. w[d]) : p[1] = d
  OBVIOUS
<1>2. Share(w, c) \subseteq Units(w)
  BY DEF Units, Share
<1>3. ASSUME NEW p \in Units(w), p[1] = c PROVE p \in Share(w, c)
  BY <1>1, <1>3 DEF Units, Share
<1>4. \A p \in Share(w, c) : p[1] = c
  BY <1>1 DEF Share
<1> QED BY <1>2, <1>3, <1>4

LEMMA SumOfShares ==
  ASSUME NEW w \in [Calls -> Nat], NEW c \in Calls, IsFiniteSet(Units(w))
  PROVE  /\ IsFiniteSet({p \in Units(w) : p[1] # c})
         /\ Cardinality({p \in Units(w) : p[1] # c}) \in Nat
         /\ SumOver(w) = Cardinality({p \in Units(w) : p[1] # c}) + w[c]
<1> DEFINE T == {p \in Units(w) : p[1] # c}
<1>1. Units(w) = T \cup Share(w, c) /\ T \cap Share(w, c) = {} /\ T \in SUBSET Units(w)
  BY UnitsApart
<1>2. IsFiniteSet(Share(w, c)) /\ Cardinality(Share(w, c)) = w[c]
  BY ShareSize
<1> HIDE DEF T
<1>3. IsFiniteSet(T) /\ Cardinality(T) \in Nat
  BY <1>1, FS_Subset, FS_CardinalityType
<1>4. Cardinality(T \cup Share(w, c)) =
        Cardinality(T) + Cardinality(Share(w, c)) - Cardinality(T \cap Share(w, c))
  BY <1>2, <1>3, FS_Union
<1>5. Cardinality(T \cap Share(w, c)) = 0
  BY <1>1, FS_EmptySet
<1>6. SumOver(w) = Cardinality(T) + w[c]
  BY <1>1, <1>2, <1>3, <1>4, <1>5 DEF SumOver
<1> QED BY <1>3, <1>6 DEF T

\* When one call's share changes, the sum changes by as much.
LEMMA SumMoves ==
  ASSUME NEW w \in [Calls -> Nat], NEW v \in [Calls -> Nat], NEW c \in Calls,
         \A d \in Calls \ {c} : v[d] = w[d], IsFiniteSet(Units(w))
  PROVE  /\ IsFiniteSet(Units(v)) /\ SumOver(w) \in Nat /\ SumOver(v) \in Nat
         /\ w[c] <= SumOver(w) /\ SumOver(v) = (SumOver(w) - w[c]) + v[c]
<1>1. {p \in Units(w) : p[1] # c} = {p \in Units(v) : p[1] # c}
  <2>1. ASSUME NEW x \in [Calls -> Nat], NEW y \in [Calls -> Nat],
               \A d \in Calls \ {c} : x[d] = y[d], NEW p \in Units(x), p[1] # c
        PROVE  p \in Units(y)
    <3>1. PICK d \in Calls : p \in {d} \X (1 .. x[d])
      BY <2>1 DEF Units
    <3>2. d # c
      BY <2>1, <3>1
    <3>3. p \in {d} \X (1 .. y[d])
      BY <2>1, <3>1, <3>2
    <3> QED BY <3>3 DEF Units
  <2> QED BY <2>1
<1> DEFINE T == {p \in Units(w) : p[1] # c}
<1>2. IsFiniteSet(T) /\ Cardinality(T) \in Nat /\ SumOver(w) = Cardinality(T) + w[c]
  BY SumOfShares
<1>3. Units(v) = T \cup Share(v, c)
  BY <1>1, UnitsApart
<1>4. IsFiniteSet(Share(v, c))
  BY ShareSize
<1>5. IsFiniteSet(Units(v))
  <2> HIDE DEF T
  <2> QED BY <1>2, <1>3, <1>4, FS_Union
<1>6. SumOver(v) = Cardinality(T) + v[c]
  BY <1>1, <1>5, SumOfShares
<1> HIDE DEF T
<1>7. w[c] \in Nat /\ v[c] \in Nat
  OBVIOUS
<1> QED BY <1>2, <1>5, <1>6, <1>7

\* A sum of smaller shares is smaller.
LEMMA SumMonotonic ==
  ASSUME NEW w \in [Calls -> Nat], NEW v \in [Calls -> Nat],
         \A d \in Calls : v[d] <= w[d], IsFiniteSet(Units(w))
  PROVE  /\ IsFiniteSet(Units(v)) /\ SumOver(v) <= SumOver(w)
         /\ SumOver(v) \in Nat /\ SumOver(w) \in Nat
<1>1. ASSUME NEW p \in Units(v) PROVE p \in Units(w)
  <2>1. PICK d \in Calls : p \in {d} \X (1 .. v[d])
    BY DEF Units
  <2>2. 1 .. v[d] \subseteq 1 .. w[d]
    OBVIOUS
  <2> QED BY <2>1, <2>2 DEF Units
<1>2. Units(v) \in SUBSET Units(w)
  BY <1>1
<1> QED BY <1>2, FS_Subset, FS_CardinalityType DEF SumOver

\* A sum of nothing.
LEMMA SumOfNothing ==
  ASSUME NEW w, \A d \in Calls : w[d] = 0
  PROVE  IsFiniteSet(Units(w)) /\ SumOver(w) = 0
<1>1. \A d \in Calls : 1 .. w[d] = {}
  OBVIOUS
<1>2. Units(w) = {}
  BY <1>1 DEF Units
<1> QED BY <1>2, FS_EmptySet DEF SumOver

----------------------------------------------------------------------------
\* The call's step was counted in the run, with the tokens that its count stands for.
Entered(c) == call[c].inRun \/ pc[c] = "fuzzy"

Weight(c) ==
  IF call[c].inRun THEN (IF pc[c] = "done" THEN call[c].tokens ELSE RunEst)
  ELSE IF pc[c] = "fuzzy" THEN RunEst ELSE 0

CountedBy == [c \in Calls |-> Weight(c)]

\* The calls with the fingerprint that entered the run, and its places in the window.
Repeaters(f) == {c \in Calls : Entered(c) /\ call[c].fp = f}
Places(f) == {i \in DOMAIN fps.list : fps.list[i] = f}

\* A call reserves when it comes to the budget stage, and enters the run before.
CallOK(c) ==
  /\ pc[c] \in {"idle", "run", "fuzzy", "limit", "budget"} => call[c].reserved = 0
  /\ pc[c] \in {"idle", "run", "fuzzy"} => ~call[c].inRun
  /\ call[c].reserved # 0 => call[c].month # 0

\* What the ledger books for no open call.
Booked(m) == bill[m] + stranded[m]

LedgerOK ==
  \A m \in Months : /\ IsFiniteSet(Units(HeldBy(m)))
                    /\ ~ledgerOff => spent[m] = Booked(m) + Held(m)

CountOK == IsFiniteSet(Units(CountedBy)) /\ (~runOff => run.tokens >= SumOver(CountedBy))

\* While the window holds all steps of the run, it holds one of every call that entered.
WindowOK ==
  \A f \in Fingerprints :
    /\ IsFiniteSet(Repeaters(f))
    /\ (~runOff /\ run.steps <= LoopWindow) =>
         /\ Len(fps.list) = run.steps
         /\ Cardinality(Repeaters(f)) <= Cardinality(Places(f))
         /\ Cardinality(Places(f)) < LoopRepeats

\* The inductive invariant of the accounts.
AccountInv == (\A c \in Calls : CallOK(c)) /\ LedgerOK /\ CountOK /\ WindowOK

\* The fields of a call.
LEMMA CallFields ==
  ASSUME TypeOK, NEW c \in Calls
  PROVE  /\ call[c].reserved \in Nat /\ call[c].tokens \in Nat /\ call[c].cost \in Nat
         /\ call[c].hedge \in Nat /\ call[c].month \in Months \cup {0} /\ call[c].inRun \in BOOLEAN
         /\ call[c] \in CallValues
BY DEF TypeOK, CallValues

WeightsTyped ==
  /\ CountedBy \in [Calls -> Nat] /\ \A c \in Calls : CountedBy[c] = Weight(c) /\ Weight(c) \in Nat
  /\ \A m : /\ HeldBy(m) \in [Calls -> Nat]
            /\ \A c \in Calls : HeldBy(m)[c] = IF call[c].month = m THEN call[c].reserved ELSE 0

LEMMA WeightType == (TypeOK => WeightsTyped) /\ (TypeOK' => WeightsTyped')
<1>0. RunEst \in Nat
  BY AdmissionAssumption
<1>1. ASSUME TypeOK PROVE WeightsTyped
  <2>1. ASSUME NEW c \in Calls PROVE call[c].tokens \in Nat /\ call[c].reserved \in Nat
    BY <1>1 DEF TypeOK, CallValues
  <2> QED BY <1>0, <2>1 DEF WeightsTyped, CountedBy, HeldBy, Weight
<1>2. ASSUME TypeOK' PROVE WeightsTyped'
  <2>1. ASSUME NEW c \in Calls PROVE call'[c].tokens \in Nat /\ call'[c].reserved \in Nat
    BY <1>2 DEF TypeOK, CallValues
  <2> QED BY <1>0, <2>1 DEF WeightsTyped, CountedBy, HeldBy, Weight
<1> QED BY <1>1, <1>2

\* Only the call at hand is written.
Alone(c) == \A d \in Calls \ {c} : pc'[d] = pc[d] /\ call'[d] = call[d]

LEMMA StepAlone ==
  ASSUME TypeOK, NEW c \in Calls, CallStep(c)
  PROVE  Alone(c)
<1>1. \A d \in Calls \ {c} : pc'[d] = pc[d]
  BY DEF CallStep, TypeOK, Goto, FailOpenOr503, RepeatOrFail, Arrive, RunBefore, FuzzyBefore, LimitBefore,
         BudgetBefore, Upstream, BudgetAfter, LimitAfter, RunAfter, Crash
<1>2. \A d \in Calls \ {c} : call'[d] = call[d]
  BY DEF CallStep, TypeOK, Arrive, RunBefore, FuzzyBefore, LimitBefore,
         BudgetBefore, Upstream, BudgetAfter, LimitAfter, RunAfter, Crash
<1> QED BY <1>1, <1>2 DEF Alone

LEMMA OtherCalls ==
  ASSUME AccountInv, NEW c \in Calls, Alone(c), CallOK(c)'
  PROVE  \A d \in Calls : CallOK(d)'
BY DEF AccountInv, Alone, CallOK

\* The ledger, when the call's reservation and what was booked change by as much.
LEMMA LedgerMoves ==
  ASSUME TypeOK, TypeOK', LedgerOK, NEW c \in Calls, Alone(c),
         ledgerOff' \/ /\ ledgerOff' = ledgerOff
                       /\ \A m \in Months : spent'[m] + HeldBy(m)[c] + Booked(m)
                                              = spent[m] + HeldBy(m)'[c] + Booked(m)'
  PROVE  LedgerOK'
<1> SUFFICES ASSUME NEW m \in Months
             PROVE  /\ IsFiniteSet(Units(HeldBy(m)'))
                    /\ ~ledgerOff' => spent'[m] = Booked(m)' + SumOver(HeldBy(m)')
  BY DEF LedgerOK, Held
<1> DEFINE w == HeldBy(m)
           v == HeldBy(m)'
<1>1. /\ w \in [Calls -> Nat] /\ v \in [Calls -> Nat] /\ w[c] \in Nat /\ v[c] \in Nat
      /\ \A d \in Calls \ {c} : v[d] = w[d]
  <2>1. w \in [Calls -> Nat] /\ v \in [Calls -> Nat]
    BY WeightType DEF WeightsTyped
  <2>2. ASSUME NEW d \in Calls \ {c} PROVE v[d] = w[d]
    BY DEF HeldBy, Alone
  <2> QED BY <2>1, <2>2
<1>2. IsFiniteSet(Units(w)) /\ (~ledgerOff => spent[m] = Booked(m) + SumOver(w))
  BY DEF LedgerOK, Held
<1>3. spent[m] \in Nat /\ spent'[m] \in Nat /\ Booked(m) \in Nat /\ Booked(m)' \in Nat
  BY DEF TypeOK, Booked
<1>4. ledgerOff' \/ (ledgerOff' = ledgerOff /\ spent'[m] + w[c] + Booked(m) = spent[m] + v[c] + Booked(m)')
  OBVIOUS
<1> HIDE DEF w, v
<1>5. /\ IsFiniteSet(Units(v)) /\ SumOver(w) \in Nat /\ SumOver(v) \in Nat
      /\ SumOver(v) = (SumOver(w) - w[c]) + v[c]
  BY <1>1, <1>2, SumMoves
<1>6. ASSUME ~ledgerOff' PROVE spent'[m] = Booked(m)' + SumOver(v)
  <2>1. spent[m] = Booked(m) + SumOver(w) /\ spent'[m] + w[c] + Booked(m) = spent[m] + v[c] + Booked(m)'
    BY <1>2, <1>4, <1>6
  <2> QED BY <1>1, <1>3, <1>5, <2>1
<1> QED BY <1>5, <1>6 DEF v

\* The same when the call keeps its reservation or has none.
LEMMA LedgerKept ==
  ASSUME TypeOK, TypeOK', LedgerOK, NEW c \in Calls, Alone(c), UNCHANGED <<spent, bill, stranded, ledgerOff>>,
         call'[c].reserved = call[c].reserved,
         call'[c].month = call[c].month \/ call[c].reserved = 0
  PROVE  LedgerOK'
<1>1. ASSUME NEW m \in Months PROVE HeldBy(m)'[c] = HeldBy(m)[c]
  BY DEF HeldBy
<1>2. \A m \in Months : spent'[m] + HeldBy(m)[c] + Booked(m) = spent[m] + HeldBy(m)'[c] + Booked(m)'
  BY <1>1 DEF Booked
<1> QED BY <1>2, LedgerMoves

\* What a call holds is booked.
LEMMA HeldIsBooked ==
  ASSUME TypeOK, LedgerOK, ~ledgerOff, NEW c \in Calls, NEW m \in Months
  PROVE  Booked(m) + HeldBy(m)[c] <= spent[m]
<1> DEFINE w == HeldBy(m)
<1>1. w \in [Calls -> Nat] /\ IsFiniteSet(Units(w)) /\ spent[m] = Booked(m) + SumOver(w)
  BY WeightType DEF WeightsTyped, LedgerOK, Held
<1> HIDE DEF w
<1>2. w[c] \in Nat /\ w[c] <= SumOver(w) /\ SumOver(w) \in Nat
  BY <1>1, SumMoves
<1>3. Booked(m) \in Nat
  BY DEF TypeOK, Booked
<1>4. Booked(m) + w[c] <= spent[m]
  BY <1>1, <1>2, <1>3
<1> QED BY <1>4 DEF w

\* The run's count, when the call's weight grows by no more than the count.
LEMMA CountMoves ==
  ASSUME TypeOK, TypeOK', CountOK, NEW c \in Calls, Alone(c),
         runOff' \/ (runOff' = runOff /\ run'.tokens + Weight(c) >= run.tokens + Weight(c)')
  PROVE  CountOK'
<1> DEFINE w == CountedBy
           v == CountedBy'
<1>1. /\ w \in [Calls -> Nat] /\ v \in [Calls -> Nat] /\ \A d \in Calls \ {c} : v[d] = w[d]
      /\ w[c] = Weight(c) /\ v[c] = Weight(c)'
  <2>1. /\ w \in [Calls -> Nat] /\ v \in [Calls -> Nat]
        /\ \A d \in Calls : w[d] = Weight(d) /\ v[d] = Weight(d)'
    BY WeightType DEF WeightsTyped
  <2>2. ASSUME NEW d \in Calls \ {c} PROVE Weight(d)' = Weight(d)
    BY DEF Alone, Weight
  <2> QED BY <2>1, <2>2
<1>2. IsFiniteSet(Units(w)) /\ (~runOff => run.tokens >= SumOver(w))
  BY DEF CountOK
<1> HIDE DEF w, v
<1>3. /\ IsFiniteSet(Units(v)) /\ SumOver(w) \in Nat /\ SumOver(v) \in Nat
      /\ SumOver(v) = (SumOver(w) - w[c]) + v[c] /\ w[c] \in Nat /\ v[c] \in Nat
  BY <1>1, <1>2, SumMoves
<1>4. run.tokens \in Int /\ run'.tokens \in Int
  BY DEF TypeOK, RunHash
<1>5. ASSUME ~runOff' PROVE run'.tokens >= SumOver(v)
  <2>1. run.tokens >= SumOver(w) /\ run'.tokens + w[c] >= run.tokens + v[c]
    BY <1>1, <1>2, <1>5
  <2> QED BY <1>3, <1>4, <2>1
<1> QED BY <1>3, <1>5 DEF CountOK, v

LEMMA PlacesFinite ==
  ASSUME TypeOK, NEW f
  PROVE  IsFiniteSet(Places(f)) /\ Cardinality(Places(f)) \in Nat
<1>1. fps.list \in Seq(Fingerprints \cup {"none"})
  BY DEF TypeOK, RunSteps
<1>2. DOMAIN fps.list = 1 .. Len(fps.list) /\ Len(fps.list) \in Nat
  BY <1>1
<1>3. IsFiniteSet(1 .. Len(fps.list))
  BY <1>2, FS_Interval
<1>4. Places(f) \in SUBSET (1 .. Len(fps.list))
  BY <1>2 DEF Places
<1> QED BY <1>3, <1>4, FS_Subset, FS_CardinalityType

\* The window, when the call does not enter the run.
LEMMA WindowKept ==
  ASSUME TypeOK, WindowOK, NEW c \in Calls, Alone(c),
         Entered(c)' => Entered(c) /\ call'[c].fp = call[c].fp,
         (run'.steps = run.steps /\ fps' = fps /\ runOff' = runOff) \/ runOff'
  PROVE  WindowOK'
<1> SUFFICES ASSUME NEW f \in Fingerprints
             PROVE  /\ IsFiniteSet(Repeaters(f)')
                    /\ (~runOff' /\ run'.steps <= LoopWindow) =>
                         /\ Len(fps'.list) = run'.steps
                         /\ Cardinality(Repeaters(f)') <= Cardinality(Places(f)')
                         /\ Cardinality(Places(f)') < LoopRepeats
  BY DEF WindowOK
<1>1. Repeaters(f)' \in SUBSET Repeaters(f)
  BY DEF Alone, Repeaters, Entered
<1>2. IsFiniteSet(Repeaters(f)) /\ Cardinality(Repeaters(f)) \in Nat
  BY FS_CardinalityType DEF WindowOK
<1>3. /\ IsFiniteSet(Repeaters(f)') /\ Cardinality(Repeaters(f)') <= Cardinality(Repeaters(f))
      /\ Cardinality(Repeaters(f)') \in Nat
  BY <1>1, <1>2, FS_Subset, FS_CardinalityType
<1>4. ASSUME ~runOff', run'.steps <= LoopWindow
      PROVE  /\ Len(fps'.list) = run'.steps
             /\ Cardinality(Repeaters(f)') <= Cardinality(Places(f)')
             /\ Cardinality(Places(f)') < LoopRepeats
  <2>1. Places(f)' = Places(f) /\ run'.steps = run.steps /\ fps' = fps /\ ~runOff
    BY <1>4 DEF Places
  <2>2. /\ Len(fps.list) = run.steps
        /\ Cardinality(Repeaters(f)) <= Cardinality(Places(f))
        /\ Cardinality(Places(f)) < LoopRepeats
    BY <1>4, <2>1 DEF WindowOK
  <2>3. Cardinality(Places(f)) \in Nat
    BY PlacesFinite
  <2> QED BY <1>2, <1>3, <2>1, <2>2, <2>3
<1> QED BY <1>3, <1>4

\* A step of one call that does not enter the run.
LEMMA CallKeeps ==
  ASSUME TypeOK, TypeOK', AccountInv, NEW c \in Calls, CallStep(c), CallOK(c)', LedgerOK',
         runOff' \/ (runOff' = runOff /\ run'.tokens + Weight(c) >= run.tokens + Weight(c)'),
         Entered(c)' => Entered(c) /\ call'[c].fp = call[c].fp,
         (run'.steps = run.steps /\ fps' = fps /\ runOff' = runOff) \/ runOff'
  PROVE  AccountInv'
<1>1. Alone(c) /\ CountOK /\ WindowOK
  BY StepAlone DEF AccountInv
<1>2. CountOK' /\ WindowOK'
  BY <1>1, CountMoves, WindowKept
<1> QED BY <1>1, <1>2, OtherCalls DEF AccountInv

\* The same for a step that also leaves the ledger and the run alone, and the weight.
LEMMA QuietCall ==
  ASSUME TypeOK, TypeOK', AccountInv, NEW c \in Calls, CallStep(c), CallOK(c)',
         UNCHANGED <<spent, bill, stranded, ledgerOff, run, fps, runOff>>,
         call'[c].reserved = call[c].reserved,
         call'[c].month = call[c].month \/ call[c].reserved = 0,
         Weight(c)' = Weight(c) \/ Weight(c)' = 0,
         Entered(c)' => Entered(c) /\ call'[c].fp = call[c].fp
  PROVE  AccountInv'
<1>1. LedgerOK'
  BY StepAlone, LedgerKept DEF AccountInv
<1>2. Weight(c) \in Nat /\ Weight(c)' \in Nat
  BY WeightType DEF WeightsTyped
<1>3. run.tokens \in Int
  BY DEF TypeOK, RunHash
<1>4. run'.tokens + Weight(c) >= run.tokens + Weight(c)'
  BY <1>2, <1>3
<1> QED BY <1>1, <1>4, CallKeeps

\* Nothing of the calls changes.
LEMMA NoCallMoves ==
  ASSUME AccountInv, UNCHANGED <<pc, call>>,
         UNCHANGED <<spent, bill, stranded, ledgerOff>> \/ ledgerOff',
         UNCHANGED <<run, fps, runOff>> \/ runOff'
  PROVE  AccountInv'
<1>1. CountedBy' = CountedBy /\ \A m \in Months : HeldBy(m)' = HeldBy(m)
  BY DEF CountedBy, Weight, HeldBy
<1>2. \A f \in Fingerprints : Repeaters(f)' = Repeaters(f)
  BY DEF Repeaters, Entered
<1>3. LedgerOK'
  BY <1>1 DEF AccountInv, LedgerOK, Held, Booked
<1>4. CountOK'
  BY <1>1 DEF AccountInv, CountOK
<1>5. WindowOK'
  <2>1. CASE runOff'
    BY <1>2, <2>1 DEF AccountInv, WindowOK
  <2>2. CASE UNCHANGED <<run, fps, runOff>>
    BY <1>2, <2>2 DEF AccountInv, WindowOK, Places
  <2> QED BY <2>1, <2>2
<1>6. \A c \in Calls : CallOK(c)'
  BY DEF AccountInv, CallOK
<1> QED BY <1>3, <1>4, <1>5, <1>6 DEF AccountInv

----------------------------------------------------------------------------
\* The steps of a call that write neither the ledger nor the run.
LEMMA ArriveAccounts ==
  ASSUME TypeOK, TypeOK', AccountInv, NEW c \in Calls, Arrive(c) PROVE AccountInv'
<1>1. CallStep(c) /\ UNCHANGED <<spent, bill, stranded, ledgerOff, run, fps, runOff>>
  BY DEF CallStep, Arrive, redisVars, ghostVars
<1>2. PICK f \in Fingerprints, e \in TokEsts :
        call' = [call EXCEPT ![c] = [NoCall EXCEPT !.fp = f, !.est = e]]
  BY DEF Arrive
<1>3. call'[c] = [NoCall EXCEPT !.fp = f, !.est = e] /\ pc[c] = "idle" /\ pc'[c] = "run"
  BY <1>2 DEF TypeOK, Arrive, Goto
<1>4. call'[c].reserved = 0 /\ ~call'[c].inRun
  BY <1>3 DEF NoCall
<1>5. call[c].reserved = 0
  BY <1>3 DEF AccountInv, CallOK
<1>6. CallOK(c)' /\ Weight(c)' = 0 /\ ~Entered(c)'
  BY <1>3, <1>4 DEF CallOK, Weight, Entered
<1> QED BY <1>1, <1>4, <1>5, <1>6, QuietCall

LEMMA FuzzyBeforeAccounts ==
  ASSUME TypeOK, TypeOK', AccountInv, NEW c \in Calls, FuzzyBefore(c) PROVE AccountInv'
<1>1. CallStep(c) /\ UNCHANGED <<spent, bill, stranded, ledgerOff, run, fps, runOff>>
  BY DEF CallStep, FuzzyBefore
<1>2. /\ pc[c] = "fuzzy"
      /\ \/ call'[c] = [call[c] EXCEPT !.inRun = TRUE] /\ pc'[c] = "limit"
         \/ call'[c] = call[c] /\ pc'[c] \in {"fuzzy", "runAfter"}
  BY DEF FuzzyBefore, TypeOK, Goto
<1>3. call[c].reserved = 0 /\ ~call[c].inRun
  BY <1>2 DEF AccountInv, CallOK
<1>4. call'[c].reserved = 0 /\ call'[c].month = call[c].month /\ call'[c].fp = call[c].fp
  BY <1>2, <1>3, CallFields DEF CallValues
<1>5. \/ call'[c].inRun /\ pc'[c] = "limit"
      \/ ~call'[c].inRun /\ pc'[c] \in {"fuzzy", "runAfter"}
  BY <1>2, <1>3, CallFields DEF CallValues
<1>6. CallOK(c)' /\ (Weight(c)' = Weight(c) \/ Weight(c)' = 0) /\ Entered(c)
  BY <1>2, <1>3, <1>4, <1>5 DEF CallOK, Weight, Entered
<1> QED BY <1>1, <1>3, <1>4, <1>6, QuietCall

LEMMA LimitBeforeAccounts ==
  ASSUME TypeOK, TypeOK', AccountInv, NEW c \in Calls, LimitBefore(c) PROVE AccountInv'
<1>1. CallStep(c) /\ UNCHANGED <<spent, bill, stranded, ledgerOff, run, fps, runOff>>
  BY DEF CallStep, LimitBefore
<1>2. /\ pc[c] = "limit" /\ pc'[c] \in {"limit", "budget", "limitAfter"}
      /\ call'[c] = call[c] \/ call'[c] = [call[c] EXCEPT !.charged = call[c].est]
  BY DEF LimitBefore, TypeOK, Goto, FailOpenOr503, RepeatOrFail
<1>3. call[c].reserved = 0
  BY <1>2 DEF AccountInv, CallOK
<1>4. /\ call'[c].reserved = call[c].reserved /\ call'[c].month = call[c].month
      /\ call'[c].fp = call[c].fp /\ call'[c].inRun = call[c].inRun
  BY <1>2, CallFields DEF CallValues
<1>5. CallOK(c)' /\ Weight(c)' = Weight(c) /\ (Entered(c)' => Entered(c))
  BY <1>2, <1>3, <1>4 DEF CallOK, Weight, Entered
<1> QED BY <1>1, <1>4, <1>5, QuietCall

LEMMA UpstreamAccounts ==
  ASSUME TypeOK, TypeOK', AccountInv, NEW c \in Calls, Upstream(c) PROVE AccountInv'
<1>1. CallStep(c) /\ UNCHANGED <<spent, bill, stranded, ledgerOff, run, fps, runOff>>
  BY DEF CallStep, Upstream, redisVars, ghostVars
<1>2. PICK u \in Usages :
        call' = [call EXCEPT ![c].tokens = u.tokens, ![c].cost = u.cost, ![c].hedge = u.hedge]
  BY DEF Upstream
<1>3. pc[c] = "upstream" /\ pc'[c] = "budgetAfter"
  BY DEF Upstream, TypeOK, Goto
<1>4. call'[c] = [call[c] EXCEPT !.tokens = u.tokens, !.cost = u.cost, !.hedge = u.hedge]
  BY <1>2 DEF TypeOK
<1>5. /\ call'[c].reserved = call[c].reserved /\ call'[c].month = call[c].month
      /\ call'[c].fp = call[c].fp /\ call'[c].inRun = call[c].inRun
  BY <1>4, CallFields DEF CallValues
<1>6. CallOK(c)
  BY DEF AccountInv
<1>7. CallOK(c)' /\ Weight(c)' = Weight(c) /\ (Entered(c)' => Entered(c))
  BY <1>3, <1>5, <1>6 DEF CallOK, Weight, Entered
<1> QED BY <1>1, <1>5, <1>7, QuietCall

LEMMA LimitAfterAccounts ==
  ASSUME TypeOK, TypeOK', AccountInv, NEW c \in Calls, LimitAfter(c) PROVE AccountInv'
<1>1. CallStep(c) /\ UNCHANGED <<spent, bill, stranded, ledgerOff, run, fps, runOff>>
  BY DEF CallStep, LimitAfter
<1>2. pc[c] = "limitAfter" /\ pc'[c] \in {"limitAfter", "runAfter"} /\ call'[c] = call[c]
  BY DEF LimitAfter, TypeOK, Goto
<1>3. CallOK(c)
  BY DEF AccountInv
<1>4. CallOK(c)' /\ Weight(c)' = Weight(c) /\ (Entered(c)' => Entered(c))
  BY <1>2, <1>3 DEF CallOK, Weight, Entered
<1> QED BY <1>1, <1>2, <1>4, QuietCall

LEMMA CrashAccounts ==
  ASSUME TypeOK, TypeOK', AccountInv, NEW c \in Calls, Crash(c) PROVE AccountInv'
<1>1. CallStep(c) /\ UNCHANGED <<spent, bill, stranded, ledgerOff, run, fps, runOff>>
  BY DEF CallStep, Crash, redisVars, ghostVars
<1>2. pc[c] # "done" /\ pc'[c] = "lost" /\ call'[c] = call[c]
  BY DEF Crash, InFlight, TypeOK, Goto
<1>3. CallOK(c)
  BY DEF AccountInv
<1>4. CallOK(c)' /\ (Weight(c)' = Weight(c) \/ Weight(c)' = 0) /\ (Entered(c)' => Entered(c))
  BY <1>2, <1>3 DEF CallOK, Weight, Entered
<1> QED BY <1>1, <1>2, <1>4, QuietCall

----------------------------------------------------------------------------
\* agentrun After: the call's weight and the run's count change by as much.
LEMMA RunAfterAccounts ==
  ASSUME TypeOK, TypeOK', AccountInv, NEW c \in Calls, RunAfter(c) PROVE AccountInv'
<1>1. CallStep(c) /\ UNCHANGED <<spent, bill, stranded, ledgerOff, fps>>
  BY DEF CallStep, RunAfter
<1>2. pc[c] = "runAfter" /\ pc'[c] \in {"runAfter", "done"} /\ call'[c] = call[c]
  BY DEF RunAfter, TypeOK, Goto
<1>3. CallOK(c)
  BY DEF AccountInv
<1>4. CallOK(c)' /\ (Entered(c)' => Entered(c))
  BY <1>2, <1>3 DEF CallOK, Entered
<1>5. LedgerOK'
  BY <1>1, <1>2, StepAlone, LedgerKept DEF AccountInv
<1>6. CASE ~call[c].inRun /\ UNCHANGED <<run, runOff>>
  <2>1. Weight(c)' = 0
    BY <1>2, <1>6 DEF Weight
  <2> QED BY <1>1, <1>2, <1>4, <1>6, <2>1, QuietCall
<1>7. CASE /\ call[c].inRun /\ UNCHANGED runOff /\ pc'[c] = "done"
           /\ run' = [run EXCEPT !.tokens = @ + call[c].tokens - RunEst,
                                 !.cost = @ + call[c].cost, !.ts = now]
  <2>1. Weight(c) = RunEst /\ Weight(c)' = call[c].tokens
    BY <1>2, <1>7 DEF Weight
  <2>2. /\ run \in RunHash /\ run.tokens \in Int /\ RunEst \in Nat /\ call[c].tokens \in Nat
    BY CallFields, AdmissionAssumption DEF TypeOK, RunHash
  <2>3. run'.steps = run.steps /\ run'.tokens = run.tokens + call[c].tokens - RunEst
    BY <1>7, <2>2 DEF RunHash
  <2>4. run'.tokens + Weight(c) >= run.tokens + Weight(c)'
    BY <2>1, <2>2, <2>3
  <2> QED BY <1>1, <1>2, <1>4, <1>5, <1>7, <2>3, <2>4, CallKeeps
<1>8. CASE runOff'
  BY <1>1, <1>2, <1>4, <1>5, <1>8, CallKeeps
<1>9. ~runOff' /\ call[c].inRun => pc'[c] = "done"
  BY DEF RunAfter, TypeOK, Goto
<1> QED BY <1>6, <1>7, <1>8, <1>9 DEF RunAfter

\* budget Before: a reservation is booked and held, or nothing is.
LEMMA BudgetBeforeAccounts ==
  ASSUME TypeOK, TypeOK', AccountInv, NEW c \in Calls, BudgetBefore(c) PROVE AccountInv'
<1>1. CallStep(c) /\ UNCHANGED <<run, fps, bill, ledgerOff, runOff>>
  BY DEF CallStep, BudgetBefore, ghostVars
<1>2. pc[c] = "budget" /\ pc'[c] \in {"budget", "upstream", "budgetAfter"}
  BY DEF BudgetBefore, TypeOK, Goto, FailOpenOr503, RepeatOrFail
<1>3. CallOK(c) /\ call[c].reserved = 0
  BY <1>2 DEF AccountInv, CallOK
<1>6. ASSUME NEW est \in CostEsts, UNCHANGED call, pc'[c] \in {"budget", "upstream", "budgetAfter"},
             spent' = [spent EXCEPT ![month] = @ + est],
             stranded' = [stranded EXCEPT ![month] = @ + est]
      PROVE  AccountInv'
  <2>1. month \in Months /\ est \in Nat
    BY MonthOfClock, AdmissionAssumption
  <2>2. CallOK(c)' /\ Weight(c)' = Weight(c) /\ (Entered(c)' => Entered(c))
    BY <1>2, <1>3, <1>6 DEF CallOK, Weight, Entered
  <2>3. ASSUME NEW m \in Months
        PROVE  spent'[m] + HeldBy(m)[c] + Booked(m) = spent[m] + HeldBy(m)'[c] + Booked(m)'
    <3>1. spent[m] \in Nat /\ bill[m] \in Nat /\ stranded[m] \in Nat /\ bill'[m] = bill[m]
      BY <1>1 DEF TypeOK
    <3>2. HeldBy(m)'[c] = HeldBy(m)[c] /\ HeldBy(m)[c] = 0
      BY <1>3, <1>6 DEF HeldBy
    <3>3. /\ spent'[m] = IF m = month THEN spent[m] + est ELSE spent[m]
          /\ stranded'[m] = IF m = month THEN stranded[m] + est ELSE stranded[m]
      BY <1>6 DEF TypeOK
    <3>4. /\ Booked(m) = bill[m] + stranded[m]
          /\ Booked(m)' = bill[m] + (IF m = month THEN stranded[m] + est ELSE stranded[m])
      BY <3>1, <3>3 DEF Booked
    <3> QED BY <2>1, <3>1, <3>2, <3>3, <3>4
  <2>4. LedgerOK'
    BY <1>1, <2>3, StepAlone, LedgerMoves DEF AccountInv
  <2>5. Weight(c) \in Nat /\ run.tokens \in Int
    BY WeightType DEF WeightsTyped, TypeOK, RunHash
  <2>6. run'.tokens + Weight(c) >= run.tokens + Weight(c)'
    BY <1>1, <2>2, <2>5
  <2> QED BY <1>1, <1>6, <2>2, <2>4, <2>6, CallKeeps
<1>4. CASE /\ UNCHANGED <<spent, stranded>>
           /\ \/ call' = call
              \/ \E n : call' = [call EXCEPT ![c].month = n]
  <2>1. /\ call'[c].reserved = 0 /\ call'[c].fp = call[c].fp
        /\ call'[c].inRun = call[c].inRun
    BY <1>3, <1>4, CallFields DEF TypeOK, CallValues
  <2>2. CallOK(c)' /\ Weight(c)' = Weight(c) /\ (Entered(c)' => Entered(c))
    BY <1>2, <1>3, <2>1 DEF CallOK, Weight, Entered
  <2> QED BY <1>1, <1>3, <1>4, <2>1, <2>2, QuietCall
<1>5. ASSUME NEW est \in CostEsts,
             spent' = [spent EXCEPT ![month] = @ + est],
             call' = [call EXCEPT ![c].reserved = est, ![c].month = month], UNCHANGED stranded,
             pc'[c] = "upstream"
      PROVE  AccountInv'
  <2>1. call'[c] = [call[c] EXCEPT !.reserved = est, !.month = month]
    BY <1>5 DEF TypeOK
  <2>2. /\ call'[c].reserved = est /\ call'[c].month = month /\ call'[c].fp = call[c].fp
        /\ call'[c].inRun = call[c].inRun
    BY <2>1, CallFields DEF CallValues
  <2>3. month \in Months /\ est \in Nat /\ month # 0
    BY MonthOfClock, AdmissionAssumption DEF Months
  <2>4. CallOK(c)' /\ Weight(c)' = Weight(c) /\ (Entered(c)' => Entered(c))
    BY <1>2, <1>3, <1>5, <2>2, <2>3 DEF CallOK, Weight, Entered
  <2>5. ASSUME NEW m \in Months
        PROVE  spent'[m] + HeldBy(m)[c] + Booked(m) = spent[m] + HeldBy(m)'[c] + Booked(m)'
    <3>1. spent[m] \in Nat /\ Booked(m) \in Nat /\ Booked(m)' = Booked(m)
      BY <1>1, <1>5 DEF TypeOK, Booked
    <3>2. HeldBy(m)[c] = 0 /\ HeldBy(m)'[c] = IF m = month THEN est ELSE 0
      BY <1>3, <2>2 DEF HeldBy
    <3>3. spent'[m] = IF m = month THEN spent[m] + est ELSE spent[m]
      BY <1>5 DEF TypeOK
    <3> QED BY <2>3, <3>1, <3>2, <3>3
  <2>6. LedgerOK'
    BY <1>1, <2>5, StepAlone, LedgerMoves DEF AccountInv
  <2>7. Weight(c) \in Nat /\ run.tokens \in Int
    BY WeightType DEF WeightsTyped, TypeOK, RunHash
  <2>8. run'.tokens + Weight(c) >= run.tokens + Weight(c)'
    BY <1>1, <2>4, <2>7
  <2> QED BY <1>1, <2>2, <2>4, <2>6, <2>8, CallKeeps
<1>7. \A label : Goto(c, label) => pc'[c] = label
  BY DEF TypeOK, Goto
<1> QED BY <1>2, <1>4, <1>5, <1>6, <1>7 DEF BudgetBefore

\* budget After: the reservation goes, the cost is booked, and the floor of addScript
\* is never met, since what the call holds is booked.
LEMMA BudgetAfterAccounts ==
  ASSUME TypeOK, TypeOK', AccountInv, NEW c \in Calls, BudgetAfter(c) PROVE AccountInv'
<1> DEFINE b     == BookingMonth(c)
           cost  == call[c].cost + call[c].hedge
           delta == cost - call[c].reserved
<1>1. CallStep(c) /\ UNCHANGED <<run, fps, runOff>>
  BY DEF CallStep, BudgetAfter
<1>2. /\ pc[c] = "budgetAfter" /\ pc'[c] \in {"budgetAfter", "limitAfter"}
      /\ call'[c] = call[c] \/ call'[c] = [call[c] EXCEPT !.reserved = 0]
  BY DEF BudgetAfter, TypeOK, Goto
<1>3. /\ call'[c].reserved \in {0, call[c].reserved}
      /\ call'[c].month = call[c].month /\ call'[c].fp = call[c].fp
      /\ call'[c].inRun = call[c].inRun
  BY <1>2, CallFields DEF CallValues
<1>4. CallOK(c)' /\ Weight(c)' = Weight(c) /\ (Entered(c)' => Entered(c))
  <2>1. CallOK(c)
    BY DEF AccountInv
  <2> QED BY <1>2, <1>3, <2>1 DEF CallOK, Weight, Entered
<1>5. b \in Months /\ (call[c].reserved # 0 => call[c].month = b)
  BY BookingMonthType DEF AccountInv, CallOK, BookingMonth
<1>6. cost \in Nat /\ call[c].reserved \in Nat /\ delta \in Int
  BY CallFields
<1>7. \/ /\ spent' = [spent EXCEPT ![b] = AfterAdd(@, delta)]
         /\ bill' = [bill EXCEPT ![b] = @ + cost]
         /\ call' = [call EXCEPT ![c].reserved = 0]
         /\ UNCHANGED <<stranded, ledgerOff>>
      \/ ledgerOff'
  BY DEF BudgetAfter
<1> HIDE DEF b, cost
<1>8. ASSUME ~ledgerOff, ~ledgerOff', spent' = [spent EXCEPT ![b] = AfterAdd(@, delta)], NEW m \in Months
      PROVE  spent'[m] + HeldBy(m)[c] + Booked(m) = spent[m] + HeldBy(m)'[c] + Booked(m)'
  <2>1. /\ spent[m] \in Nat /\ Booked(m) \in Nat
        /\ Booked(m)' = IF m = b THEN Booked(m) + cost ELSE Booked(m)
    <3>1. spent[m] \in Nat /\ bill[m] \in Nat /\ stranded[m] \in Nat /\ stranded'[m] = stranded[m]
      BY <1>7, <1>8 DEF TypeOK
    <3>2. bill'[m] = IF m = b THEN bill[m] + cost ELSE bill[m]
      BY <1>7, <1>8 DEF TypeOK
    <3> QED BY <1>6, <3>1, <3>2 DEF Booked
  <2>2. HeldBy(m)'[c] = 0 /\ HeldBy(m)[c] = IF m = b THEN call[c].reserved ELSE 0
    <3>1. call'[c].reserved = 0
      BY <1>7, <1>8, CallFields DEF TypeOK, CallValues
    <3> QED BY <1>3, <1>5, <3>1 DEF HeldBy
  <2>3. Booked(m) + HeldBy(m)[c] <= spent[m]
    BY <1>8, HeldIsBooked DEF AccountInv
  <2>4. spent'[m] = IF m = b THEN AfterAdd(spent[m], delta) ELSE spent[m]
    BY <1>8 DEF TypeOK
  <2>5. CASE m = b
    <3>1. call[c].reserved <= spent[m]
      BY <1>6, <2>1, <2>2, <2>3, <2>5
    <3>2. spent'[m] = spent[m] + cost - call[c].reserved
      BY <1>6, <2>1, <2>4, <2>5, <3>1 DEF AfterAdd
    <3> QED BY <1>6, <2>1, <2>2, <2>5, <3>2
  <2>6. CASE m # b
    BY <2>1, <2>2, <2>4, <2>6
  <2> QED BY <2>5, <2>6
<1>9. LedgerOK'
  <2>1. CASE ledgerOff'
    BY <1>1, <2>1, StepAlone, LedgerMoves DEF AccountInv
  <2>2. CASE ~ledgerOff'
    <3>1. ledgerOff' = ledgerOff /\ ~ledgerOff /\ spent' = [spent EXCEPT ![b] = AfterAdd(@, delta)]
      BY <1>7, <2>2
    <3>2. \A m \in Months : spent'[m] + HeldBy(m)[c] + Booked(m) = spent[m] + HeldBy(m)'[c] + Booked(m)'
      BY <1>8, <2>2, <3>1
    <3> QED BY <1>1, <3>1, <3>2, StepAlone, LedgerMoves DEF AccountInv
  <2> QED BY <2>1, <2>2
<1>10. Weight(c) \in Nat /\ run.tokens \in Int
  BY WeightType DEF WeightsTyped, TypeOK, RunHash
<1>11. run'.tokens + Weight(c) >= run.tokens + Weight(c)'
  BY <1>1, <1>4, <1>10
<1> QED BY <1>1, <1>3, <1>4, <1>9, <1>11, CallKeeps

----------------------------------------------------------------------------
\* The places of a fingerprint in a list of steps.
PlacesIn(s, f) == {i \in DOMAIN s : s[i] = f}

\* A pushed step takes the first place of the window and moves the others up by one.
LEMMA PushPlaces ==
  ASSUME NEW S, NEW s \in Seq(S), NEW e \in S, NEW f, IsFiniteSet(PlacesIn(s, f))
  PROVE  Cardinality(PlacesIn(<<e>> \o s, f)) = Cardinality(PlacesIn(s, f)) + (IF f = e THEN 1 ELSE 0)
<1> DEFINE n == Len(s)
           t == <<e>> \o s
<1>1. n \in Nat /\ DOMAIN s = 1 .. n /\ DOMAIN t = 1 .. n + 1
  <2>1. n \in Nat /\ DOMAIN s = 1 .. n /\ t \in Seq(S) /\ Len(t) = n + 1
    OBVIOUS
  <2> HIDE DEF t
  <2> QED BY <2>1
<1>2. t[1] = e /\ \A i \in 1 .. n : t[i + 1] = s[i]
  OBVIOUS
<1> HIDE DEF n, t
<1> DEFINE P == {i \in DOMAIN s : s[i] = f}
           Q == {i \in DOMAIN t : t[i] = f}
           M == {j \in 2 .. n + 1 : t[j] = f}
           g == [i \in P |-> i + 1]
<1>3. g \in Bijection(P, M)
  <2>1. \A i \in P : i + 1 \in M
    BY <1>1, <1>2
  <2>2. g \in Injection(P, M)
    BY <1>1, <2>1 DEF Injection, IsInjective
  <2>3. \A j \in M : j - 1 \in P /\ g[j - 1] = j
    <3> SUFFICES ASSUME NEW j \in 2 .. n + 1, t[j] = f PROVE j - 1 \in P /\ g[j - 1] = j
      OBVIOUS
    <3>1. j - 1 \in 1 .. n /\ (j - 1) + 1 = j
      BY <1>1
    <3>2. t[(j - 1) + 1] = s[j - 1]
      BY <1>2, <3>1
    <3> QED BY <1>1, <3>1, <3>2
  <2>4. g \in Surjection(P, M)
    BY <2>1, <2>3 DEF Surjection
  <2> QED BY <2>2, <2>4 DEF Bijection
<1>4. IsFiniteSet(M) /\ Cardinality(M) = Cardinality(P) /\ Cardinality(P) \in Nat
  <2>1. IsFiniteSet(P) /\ ExistsBijection(P, M)
    BY <1>3 DEF ExistsBijection, PlacesIn
  <2> HIDE DEF P, M
  <2> QED BY <2>1, FS_Bijection, FS_CardinalityType
<1>5. Q = IF f = e THEN M \cup {1} ELSE M
  BY <1>1, <1>2
<1>6. 1 \notin M
  BY <1>1
<1> HIDE DEF P, Q, M
<1>7. Cardinality(M \cup {1}) = Cardinality(M) + 1
  BY <1>4, <1>6, FS_AddElement
<1>8. Cardinality(Q) = Cardinality(P) + (IF f = e THEN 1 ELSE 0)
  BY <1>4, <1>5, <1>7
<1> QED BY <1>8 DEF P, Q, t, PlacesIn

\* stepScript: the step is counted with its estimate, and pushed on a window in which
\* its fingerprint was rare enough.
LEMMA StepEnters ==
  ASSUME TypeOK, TypeOK', AccountInv, NEW c \in Calls, CallStep(c), pc[c] = "run",
         pc'[c] \in {"run", "fuzzy", "limit", "runAfter"},
         UNCHANGED <<call, spent, bill, stranded, ledgerOff, runOff>>, ~StepRefused(call[c].fp),
         run'.steps = run.steps + 1, run'.tokens = run.tokens + RunEst,
         fps'.list = SubSeq(<<call[c].fp>> \o fps.list, 1,
                            AtMost(LoopWindow, Len(<<call[c].fp>> \o fps.list)))
  PROVE  AccountInv'
<1>1. Alone(c) /\ CallOK(c) /\ ~call[c].inRun /\ call'[c] = call[c]
  BY StepAlone DEF AccountInv, CallOK
<1>2. \A d \in Calls : CallOK(d)'
  <2>1. CallOK(c)'
    BY <1>1 DEF CallOK
  <2> QED BY <1>1, <2>1, OtherCalls
<1>3. LedgerOK'
  BY <1>1, LedgerKept DEF AccountInv
<1>4. CountOK'
  <2>1. Weight(c) = 0 /\ Weight(c)' \in {0, RunEst}
    BY <1>1 DEF Weight
  <2>2. run.tokens \in Int /\ RunEst \in Nat
    BY AdmissionAssumption DEF TypeOK, RunHash
  <2>3. run'.tokens + Weight(c) >= run.tokens + Weight(c)'
    BY <2>1, <2>2
  <2> QED BY <1>1, <2>3, CountMoves DEF AccountInv
<1>5. ASSUME NEW f \in Fingerprints
      PROVE  /\ IsFiniteSet(Repeaters(f)')
             /\ Cardinality(Repeaters(f)')
                  <= Cardinality(Repeaters(f)) + (IF f = call[c].fp THEN 1 ELSE 0)
             /\ Cardinality(Repeaters(f)) \in Nat /\ Cardinality(Repeaters(f)') \in Nat
  <2>1. IsFiniteSet(Repeaters(f)) /\ Cardinality(Repeaters(f)) \in Nat
    BY FS_CardinalityType DEF AccountInv, WindowOK
  <2>2. c \notin Repeaters(f)
    BY <1>1 DEF Repeaters, Entered
  <2>3. \/ Repeaters(f)' = Repeaters(f)
        \/ f = call[c].fp /\ Repeaters(f)' = Repeaters(f) \cup {c}
    <3>1. \A d \in Calls \ {c} : (Entered(d)' <=> Entered(d)) /\ call'[d] = call[d]
      BY <1>1 DEF Alone, Entered
    <3> QED BY <1>1, <2>2, <3>1 DEF Repeaters
  <2>4. /\ IsFiniteSet(Repeaters(f) \cup {c})
        /\ Cardinality(Repeaters(f) \cup {c}) = Cardinality(Repeaters(f)) + 1
    BY <2>1, <2>2, FS_AddElement
  <2> DEFINE R == Repeaters(f)
             S == Repeaters(f)'
  <2>5. CASE S = R
    <3>1. Cardinality(R) <= Cardinality(R) + (IF f = call[c].fp THEN 1 ELSE 0)
      BY <2>1
    <3> QED BY <2>1, <2>5, <3>1
  <2>6. CASE f = call[c].fp /\ S = R \cup {c}
    <3>1. Cardinality(R) + 1 \in Nat
      BY <2>1
    <3>2. Cardinality(S) = Cardinality(R) + 1 /\ IsFiniteSet(S)
      BY <2>4, <2>6
    <3>3. Cardinality(S) <= Cardinality(R) + 1 /\ Cardinality(S) \in Nat
      BY <2>1, <3>1, <3>2
    <3> QED BY <2>1, <2>6, <3>2, <3>3
  <2> QED BY <2>3, <2>5, <2>6
<1>6. ASSUME ~runOff', run'.steps <= LoopWindow, NEW f \in Fingerprints
      PROVE  /\ Len(fps'.list) = run'.steps
             /\ Cardinality(Places(f)') = Cardinality(Places(f)) + (IF f = call[c].fp THEN 1 ELSE 0)
  <2> DEFINE fp == call[c].fp
             old == fps.list
             n == Len(old)
             pushed == <<fp>> \o old
             S == Fingerprints \cup {"none"}
  <2>1. run.steps \in Nat /\ LoopWindow \in Nat /\ old \in Seq(S) /\ fp \in S
    BY AdmissionAssumption DEF TypeOK, RunHash, RunSteps, CallValues
  <2>2. n = run.steps /\ n \in Nat /\ n + 1 <= LoopWindow
    <3>1. run.steps <= LoopWindow /\ ~runOff
      BY <1>6, <2>1
    <3>2. n = run.steps
      BY <3>1 DEF AccountInv, WindowOK
    <3> QED BY <1>6, <2>1, <3>2
  <2> HIDE DEF fp, old
  <2>3. pushed \in Seq(S) /\ Len(pushed) = n + 1
    BY <2>1
  <2>4. fps'.list = pushed
    <3>1. AtMost(LoopWindow, Len(pushed)) = Len(pushed)
      BY <2>1, <2>2, <2>3 DEF AtMost
    <3>2. SubSeq(pushed, 1, Len(pushed)) = pushed
      <4> HIDE DEF pushed
      <4> QED BY <2>3, SubSeqFull
    <3> QED BY <3>1, <3>2 DEF fp, old
  <2>5. IsFiniteSet(PlacesIn(old, f))
    BY PlacesFinite DEF Places, PlacesIn, old
  <2>6. Cardinality(PlacesIn(pushed, f)) = Cardinality(PlacesIn(old, f)) + (IF f = fp THEN 1 ELSE 0)
    <3> HIDE DEF S
    <3> QED BY <2>1, <2>5, PushPlaces
  <2>7. Places(f)' = PlacesIn(pushed, f) /\ Places(f) = PlacesIn(old, f)
    <3> HIDE DEF pushed
    <3> QED BY <2>4 DEF Places, PlacesIn, old
  <2> HIDE DEF pushed
  <2> QED BY <2>2, <2>3, <2>4, <2>6, <2>7 DEF fp
<1>7. WindowOK'
  <2> SUFFICES ASSUME NEW f \in Fingerprints
               PROVE  /\ IsFiniteSet(Repeaters(f)')
                      /\ (~runOff' /\ run'.steps <= LoopWindow) =>
                           /\ Len(fps'.list) = run'.steps
                           /\ Cardinality(Repeaters(f)') <= Cardinality(Places(f)')
                           /\ Cardinality(Places(f)') < LoopRepeats
    BY DEF WindowOK
  <2>1. ASSUME ~runOff', run'.steps <= LoopWindow
        PROVE  /\ Len(fps'.list) = run'.steps
               /\ Cardinality(Repeaters(f)') <= Cardinality(Places(f)')
               /\ Cardinality(Places(f)') < LoopRepeats
    <3>1. run.steps \in Nat /\ LoopWindow \in Nat /\ LoopRepeats \in Nat
      BY AdmissionAssumption DEF TypeOK, RunHash
    <3>2. ~runOff /\ run.steps <= LoopWindow
      BY <2>1, <3>1
    <3>3. /\ Cardinality(Repeaters(f)) <= Cardinality(Places(f))
          /\ Cardinality(Places(f)) < LoopRepeats
      BY <3>2 DEF AccountInv, WindowOK
    <3>4. Cardinality(Places(f)) \in Nat
      BY PlacesFinite
    <3>5. f = call[c].fp => 1 + Cardinality(Places(f)) < LoopRepeats
      <4>1. ~(Repeats(call[c].fp) >= LoopRepeats)
        BY DEF StepRefused
      <4>2. f = call[c].fp => Repeats(call[c].fp) = 1 + Cardinality(Places(f))
        BY DEF Repeats, Places
      <4> QED BY <3>1, <3>4, <4>1, <4>2
    <3>6. /\ Len(fps'.list) = run'.steps
          /\ Cardinality(Places(f)') = Cardinality(Places(f)) + (IF f = call[c].fp THEN 1 ELSE 0)
      BY <1>6, <2>1
    <3>7. /\ Cardinality(Repeaters(f)')
               <= Cardinality(Repeaters(f)) + (IF f = call[c].fp THEN 1 ELSE 0)
          /\ Cardinality(Repeaters(f)) \in Nat /\ Cardinality(Repeaters(f)') \in Nat
      BY <1>5
    <3>8. CASE f = call[c].fp
      <4>1. /\ Cardinality(Places(f)') = Cardinality(Places(f)) + 1
            /\ Cardinality(Repeaters(f)') <= Cardinality(Repeaters(f)) + 1
        BY <3>6, <3>7, <3>8
      <4>2. /\ Cardinality(Repeaters(f)) + 1 <= Cardinality(Places(f)) + 1
            /\ Cardinality(Places(f)) + 1 < LoopRepeats
        BY <3>1, <3>3, <3>4, <3>5, <3>7, <3>8
      <4> DEFINE r == Cardinality(Repeaters(f)')
                 p == Cardinality(Places(f)')
                 q == Cardinality(Repeaters(f))
                 o == Cardinality(Places(f))
      <4>3. /\ r \in Nat /\ q \in Nat /\ o \in Nat /\ p = o + 1 /\ r <= q + 1 /\ q + 1 <= o + 1
            /\ o + 1 < LoopRepeats
        BY <3>4, <3>7, <4>1, <4>2
      <4> HIDE DEF r, p, q, o
      <4>4. r <= p /\ p < LoopRepeats
        BY <4>3
      <4> QED BY <3>6, <4>4 DEF r, p
    <3>9. CASE f # call[c].fp
      <4>1. /\ Cardinality(Places(f)') = Cardinality(Places(f))
            /\ Cardinality(Repeaters(f)') <= Cardinality(Repeaters(f))
        BY <3>4, <3>6, <3>7, <3>9
      <4> DEFINE r == Cardinality(Repeaters(f)')
                 p == Cardinality(Places(f)')
                 q == Cardinality(Repeaters(f))
                 o == Cardinality(Places(f))
      <4>2. r \in Nat /\ q \in Nat /\ o \in Nat /\ p = o /\ r <= q /\ q <= o /\ o < LoopRepeats
        BY <3>3, <3>4, <3>7, <4>1
      <4> HIDE DEF r, p, q, o
      <4>3. r <= p /\ p < LoopRepeats
        BY <4>2
      <4> QED BY <3>6, <4>3 DEF r, p
    <3> QED BY <3>8, <3>9
  <2> QED BY <1>5, <2>1
<1> QED BY <1>2, <1>3, <1>4, <1>7 DEF AccountInv

LEMMA RunBeforeAccounts ==
  ASSUME TypeOK, TypeOK', AccountInv, NEW c \in Calls, RunBefore(c) PROVE AccountInv'
<1>1. CallStep(c) /\ UNCHANGED <<call, spent, bill, stranded, ledgerOff, runOff>> /\ pc[c] = "run"
  BY DEF CallStep, RunBefore, ghostVars
<1>2. CASE UNCHANGED <<run, fps>> /\ pc'[c] \in {"limit", "runAfter"}
  <2>1. CallOK(c) /\ ~call[c].inRun /\ call'[c] = call[c] /\ call[c].reserved = 0
    BY <1>1 DEF AccountInv, CallOK
  <2>2. CallOK(c)' /\ Weight(c)' = 0 /\ ~Entered(c)'
    BY <1>1, <1>2, <2>1 DEF CallOK, Weight, Entered
  <2> QED BY <1>1, <1>2, <2>1, <2>2, QuietCall
<1>3. CASE /\ ~StepRefused(call[c].fp) /\ pc'[c] \in {"run", "fuzzy", "limit", "runAfter"}
           /\ run'.steps = run.steps + 1 /\ run'.tokens = run.tokens + RunEst
           /\ fps'.list = SubSeq(<<call[c].fp>> \o fps.list, 1,
                                 AtMost(LoopWindow, Len(<<call[c].fp>> \o fps.list)))
  BY <1>1, <1>3, StepEnters
<1>4. \/ UNCHANGED <<run, fps>> /\ pc'[c] \in {"limit", "runAfter"}
      \/ /\ ~StepRefused(call[c].fp) /\ pc'[c] \in {"run", "fuzzy", "limit", "runAfter"}
         /\ run'.steps = run.steps + 1 /\ run'.tokens = run.tokens + RunEst
         /\ fps'.list = SubSeq(<<call[c].fp>> \o fps.list, 1,
                               AtMost(LoopWindow, Len(<<call[c].fp>> \o fps.list)))
  <2>1. \A label : Goto(c, label) => pc'[c] = label
    BY DEF TypeOK, Goto
  <2>2. CASE UNCHANGED <<run, fps>> /\ (FailOpenOr503(c, "limit", "runAfter") \/ Goto(c, "runAfter"))
    BY <2>1, <2>2 DEF FailOpenOr503
  <2>3. CASE /\ ~StepRefused(call[c].fp) /\ CountStep(c)
             /\ Goto(c, "fuzzy") \/ RepeatOrFail(c, "limit", "runAfter")
    <3>1. run'.steps = run.steps + 1 /\ run'.tokens = run.tokens + RunEst
      BY <2>3 DEF CountStep
    <3>3. pc'[c] \in {"run", "fuzzy", "limit", "runAfter"}
      BY <1>1, <2>1, <2>3 DEF RepeatOrFail, FailOpenOr503
    <3>2. fps'.list = SubSeq(<<call[c].fp>> \o fps.list, 1,
                             AtMost(LoopWindow, Len(<<call[c].fp>> \o fps.list)))
      BY <2>3, Zenon DEF CountStep
    <3> QED BY <2>3, <3>1, <3>2, <3>3
  <2> QED BY <2>2, <2>3, Zenon DEF RunBefore
<1> QED BY <1>2, <1>3, <1>4

----------------------------------------------------------------------------
LEMMA AccountsInit == Init => AccountInv
<1> SUFFICES ASSUME Init PROVE AccountInv
  OBVIOUS
<1>1. \A c \in Calls : pc[c] = "idle" /\ call[c] = NoCall
  BY DEF Init
<1>2. ASSUME NEW c \in Calls PROVE /\ call[c].reserved = 0 /\ ~call[c].inRun /\ ~Entered(c)
                                   /\ Weight(c) = 0
  BY <1>1 DEF NoCall, Entered, Weight
<1>3. \A c \in Calls : CallOK(c)
  BY <1>2 DEF CallOK
<1>4. LedgerOK
  <2> SUFFICES ASSUME NEW m \in Months
               PROVE  IsFiniteSet(Units(HeldBy(m))) /\ spent[m] = Booked(m) + SumOver(HeldBy(m))
    BY DEF LedgerOK, Held
  <2>1. \A d \in Calls : HeldBy(m)[d] = 0
    BY <1>2 DEF HeldBy
  <2>2. IsFiniteSet(Units(HeldBy(m))) /\ SumOver(HeldBy(m)) = 0
    BY <2>1, SumOfNothing
  <2> QED BY <2>2 DEF Init, Booked
<1>5. CountOK
  <2>1. \A d \in Calls : CountedBy[d] = 0
    BY <1>2 DEF CountedBy
  <2>2. IsFiniteSet(Units(CountedBy)) /\ SumOver(CountedBy) = 0
    BY <2>1, SumOfNothing
  <2> QED BY <2>2 DEF CountOK, Init, NoRun
<1>6. WindowOK
  <2> SUFFICES ASSUME NEW f \in Fingerprints
               PROVE  /\ IsFiniteSet(Repeaters(f)) /\ Len(fps.list) = run.steps
                      /\ Cardinality(Repeaters(f)) <= Cardinality(Places(f))
                      /\ Cardinality(Places(f)) < LoopRepeats
    BY DEF WindowOK
  <2>1. Repeaters(f) = {}
    BY <1>2 DEF Repeaters
  <2>2. fps.list = << >> /\ run.steps = 0
    BY DEF Init, NoSteps, NoRun
  <2>3. Places(f) = {}
    BY <2>2 DEF Places
  <2>4. LoopRepeats \in Nat \ {0}
    BY AdmissionAssumption
  <2> QED BY <2>1, <2>2, <2>3, <2>4, FS_EmptySet
<1> QED BY <1>3, <1>4, <1>5, <1>6 DEF AccountInv

LEMMA AccountsStep == TypeOK /\ TypeOK' /\ AccountInv /\ [Next]_vars => AccountInv'
<1> SUFFICES ASSUME TypeOK, TypeOK', AccountInv, [Next]_vars PROVE AccountInv'
  OBVIOUS
<1>1. CASE UNCHANGED vars
  BY <1>1, NoCallMoves DEF vars, redisVars, ghostVars
<1>2. ASSUME NEW c \in Calls, CallStep(c) PROVE AccountInv'
  BY <1>2, ArriveAccounts, RunBeforeAccounts, FuzzyBeforeAccounts, LimitBeforeAccounts,
     BudgetBeforeAccounts, UpstreamAccounts, BudgetAfterAccounts, LimitAfterAccounts,
     RunAfterAccounts, CrashAccounts DEF CallStep
<1>3. CASE Tick
  <2>1. UNCHANGED <<run, fps, runOff>> \/ runOff'
    BY <1>3 DEF Tick, TypeOK
  <2> QED BY <1>3, <2>1, NoCallMoves DEF Tick
<1>4. CASE PurgeLedger
  BY <1>4, NoCallMoves DEF PurgeLedger
<1>5. CASE PurgeRuns
  BY <1>5, NoCallMoves DEF PurgeRuns
<1> QED BY <1>1, <1>2, <1>3, <1>4, <1>5 DEF Next

\* The accounts of the ledger and of the run hold in every state, whatever calls
\* overlap, fail, crash or are purged.
THEOREM AccountsKept == Spec => []AccountInv
<1>1. IInv => TypeOK
  BY DEF IInv
<1> QED BY <1>1, Invariance, AccountsInit, AccountsStep, PTL DEF Spec

\* The budget ledger is accounted for, for any number of calls: while every write of an
\* After lands once, it is the cost of the settled calls plus the open reservations and
\* the estimates whose reply was lost, so addScript's floor never hides an amount.
THEOREM LedgerIsAccounted == Spec => []LedgerBalances
<1>1. AccountInv => LedgerBalances
  BY DEF AccountInv, LedgerOK, LedgerBalances, Booked
<1> QED BY <1>1, AccountsKept, PTL

\* The run's token count covers its calls, for any number of them.
THEOREM RunCounted == Spec => []RunCountsAll
<1>1. TypeOK /\ AccountInv => RunCountsAll
  <2> SUFFICES ASSUME TypeOK, AccountInv, ~runOff PROVE RunCountsAll
    BY DEF RunCountsAll
  <2> DEFINE v == [c \in Calls |->
        IF ~call[c].inRun THEN 0 ELSE IF pc[c] = "done" THEN call[c].tokens ELSE RunEst]
  <2>1. CountedBy \in [Calls -> Nat] /\ \A c \in Calls : CountedBy[c] = Weight(c) /\ Weight(c) \in Nat
    BY WeightType DEF WeightsTyped
  <2>2. RunEst \in Nat
    BY AdmissionAssumption
  <2>3. ASSUME NEW c \in Calls PROVE v[c] \in Nat /\ v[c] <= CountedBy[c]
    <3>1. v[c] = Weight(c) \/ v[c] = 0
      BY DEF Weight
    <3> QED BY <2>1, <3>1
  <2>4. v \in [Calls -> Nat] /\ IsFiniteSet(Units(CountedBy)) /\ run.tokens >= SumOver(CountedBy)
    BY <2>3 DEF AccountInv, CountOK
  <2>5. run.tokens >= SumOver(v)
    <3>1. run.tokens \in Int
      BY DEF TypeOK, RunHash
    <3> HIDE DEF v
    <3>2. SumOver(v) <= SumOver(CountedBy) /\ SumOver(v) \in Nat /\ SumOver(CountedBy) \in Nat
      BY <2>1, <2>3, <2>4, SumMonotonic
    <3> QED BY <2>4, <3>1, <3>2
  <2> QED BY <2>5 DEF RunCountsAll
<1>2. IInv => TypeOK
  BY DEF IInv
<1> QED BY <1>1, <1>2, Invariance, AccountsKept, PTL

\* The loop check stops a repeated step, however many calls race for it.
THEOREM LoopsAreStopped == Spec => []LoopsStopped
<1>1. TypeOK /\ AccountInv => LoopsStopped
  <2> SUFFICES ASSUME TypeOK, AccountInv, ~runOff, run.steps <= LoopWindow, NEW f \in Fingerprints
               PROVE  Cardinality({c \in Calls : call[c].inRun /\ call[c].fp = f}) < LoopRepeats
    BY DEF LoopsStopped
  <2> DEFINE R == {c \in Calls : call[c].inRun /\ call[c].fp = f}
  <2>1. R \in SUBSET Repeaters(f)
    BY DEF Repeaters, Entered
  <2>2. /\ IsFiniteSet(Repeaters(f)) /\ Cardinality(Repeaters(f)) <= Cardinality(Places(f))
        /\ Cardinality(Places(f)) < LoopRepeats
    BY DEF AccountInv, WindowOK
  <2> HIDE DEF R
  <2>3. /\ Cardinality(R) <= Cardinality(Repeaters(f)) /\ Cardinality(R) \in Nat
        /\ Cardinality(Repeaters(f)) \in Nat /\ Cardinality(Places(f)) \in Nat
    BY <2>1, <2>2, PlacesFinite, FS_Subset, FS_CardinalityType
  <2>4. LoopRepeats \in Nat
    BY AdmissionAssumption
  <2>5. Cardinality(R) < LoopRepeats
    BY <2>2, <2>3, <2>4
  <2> QED BY <2>5 DEF R
<1>2. IInv => TypeOK
  BY DEF IInv
<1> QED BY <1>1, <1>2, Invariance, AccountsKept, PTL

=============================================================================
