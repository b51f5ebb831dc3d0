---------------------------- MODULE HedgedExecute ----------------------------
(***************************************************************************)
(* Routes with hedging: router.ExecuteHedged (internal/router/hedge.go)    *)
(* races the first two targets of a plan and leaves the rest of the plan   *)
(* to router.Execute, which is the module RouterExecute.  For a streamed   *)
(* request, the goroutines and contexts around each attempt of openStream  *)
(* (internal/server/stream.go) are modelled too.                           *)
(*                                                                         *)
(* The request's goroutine, the two attempts, the watcher of each attempt  *)
(* and the one that discards a late loser run concurrently; they meet in   *)
(* the results channel, in the contexts and in the breakers.               *)
(***************************************************************************)
EXTENDS RouterExecute, HedgeBudget

CONSTANTS Streaming,        \* whether a request may be streamed: a set of Booleans
          MaxHedgeRequests  \* bound on the requests of the route

ASSUME HedgedAssumption == Streaming \subseteq BOOLEAN /\ MaxHedgeRequests \in Nat

VARIABLES budget,    \* the route's HedgeBudget
          streaming, \* req.Stream of each request
          race,      \* ExecuteHedged's locals
          att,       \* the attempts: call, context, watcher and stream
          results,   \* the results channel
          drain,     \* outcomes the discarding goroutine still waits for
          raced,     \* targets the race has called
          total, launched  \* requests and hedges of the route, ever

budgetVars == <<budget, total, launched>>
raceVars == <<streaming, race, att, results, drain, raced>>
hedgedVars == <<vars, budgetVars, raceVars>>

Racers == {"primary", "hedge"}
Slots == Racers \cup {"rest"}   \* "rest": the call that Execute made last

NoRace == [st |-> "none", hedged |-> FALSE, pending |-> 0, timer |-> FALSE, winner |-> "none"]

\* An attempt: its fn is under way or has sent its outcome, its context has been
\* cancelled, its watcher is new, waits or is off, and its stream is open or cut off.
NoAttempt == [st |-> "none", cancelled |-> FALSE, watch |-> "off", stream |-> "none"]

Launched(r) == [NoAttempt EXCEPT !.st = "calling", !.watch = IF streaming[r] THEN "new" ELSE "off"]

RacedTarget(r, i) == IF i = "primary" THEN plan[r][1] ELSE plan[r][2]

Other(i) == IF i = "primary" THEN "hedge" ELSE "primary"

\* Mutant of ChanCap: room for one outcome.
ChanCapOne == 1

\* The capacity of the results channel.
ChanCap == 2

HedgedInit ==
  /\ Init
  /\ budget = NewBudget /\ total = 0 /\ launched = 0
  /\ streaming \in [Requests -> Streaming]
  /\ race = [r \in Requests |-> NoRace]
  /\ att = [r \in Requests |-> [i \in Slots |-> NoAttempt]]
  /\ results = [r \in Requests |-> << >>]
  /\ drain = [r \in Requests |-> 0]
  /\ raced = [r \in Requests |-> {}]

----------------------------------------------------------------------------
Racing(r) == race[r].st = "racing"

\* A plan of two targets or more is raced: the route's budget hears of the request,
\* and the primary is launched, without asking its breaker.
StartRace(r) ==
  /\ pc[r] = "visit" /\ race[r].st = "none" /\ Len(plan[r]) >= 2
  /\ budget' = AfterRequest(budget) /\ total' = total + 1
  /\ race' = [race EXCEPT ![r] = [NoRace EXCEPT !.st = "racing", !.pending = 1, !.timer = TRUE]]
  /\ att' = [att EXCEPT ![r]["primary"] = Launched(r)]
  /\ raced' = [raced EXCEPT ![r] = {RacedTarget(r, "primary")}]
  /\ UNCHANGED <<vars, launched, streaming, results, drain>>

\* The delay has passed: the hedge is launched if the budget allows it.
TimerFires(r) ==
  /\ Racing(r) /\ race[r].timer
  /\ \/ /\ AllowsHedge(budget)
        /\ budget' = AfterHedge(budget) /\ launched' = launched + 1
        /\ race' = [race EXCEPT ![r].timer = FALSE, ![r].hedged = TRUE, ![r].pending = @ + 1]
        /\ att' = [att EXCEPT ![r]["hedge"] = Launched(r)]
        /\ raced' = [raced EXCEPT ![r] = @ \cup {RacedTarget(r, "hedge")}]
     \/ /\ ~AllowsHedge(budget)
        /\ race' = [race EXCEPT ![r].timer = FALSE]
        /\ UNCHANGED <<budget, launched, att, raced>>
  /\ UNCHANGED <<vars, total, streaming, results, drain>>

\* The context of an attempt has ended: cancelled by the race, or with the plan's,
\* which ends with the request and when ExecuteHedged or Execute returns.
AttemptDone(r, i) == att[r][i].cancelled \/ ctxDone[r] \/ pc[r] = "returned"

\* The state of a stream whose first token has arrived: the first-token timer may have
\* cut it off before fn stops the timer, and fn returns it all the same.
Opened(r) == IF streaming[r] THEN {"open", "cut"} ELSE {"none"}

\* fn returns and its outcome is sent.  A watcher that waits is woken and ends, unless
\* the context woke it before.  A stream that fails to open is cut off; one that opened
\* although its watcher had cut it off stays so.
AttemptReturns(r, i) ==
  /\ att[r][i].st = "calling"
  /\ Len(results[r]) < ChanCap
  /\ \E err \in ErrorKinds \cup {"none"}, opened \in Opened(r) :
       /\ results' = [results EXCEPT ![r] = Append(@, [slot |-> i, err |-> err])]
       /\ att' = [att EXCEPT
            ![r][i].st = "sent",
            ![r][i].watch = IF @ = "waiting" /\ ~AttemptDone(r, i) THEN "off" ELSE @,
            ![r][i].stream = IF ~streaming[r] THEN "none"
                             ELSE IF err = "none" /\ @ = "none" THEN opened ELSE "cut"]
  /\ UNCHANGED <<vars, budgetVars, streaming, race, drain, raced>>

\* The watcher's select: the end of the context cuts the stream off, the return of fn
\* ends the watch; a watcher that only starts when both have happened may choose either.
Watch(r, i) ==
  /\ \/ /\ att[r][i].watch # "off" /\ AttemptDone(r, i)
        /\ att' = [att EXCEPT ![r][i].watch = "off", ![r][i].stream = "cut"]
     \/ /\ att[r][i].watch = "new" /\ att[r][i].st # "calling"
        /\ att' = [att EXCEPT ![r][i].watch = "off"]
     \/ /\ att[r][i].watch = "new" /\ att[r][i].st = "calling" /\ ~AttemptDone(r, i)
        /\ att' = [att EXCEPT ![r][i].watch = "waiting"]
  /\ UNCHANGED <<vars, budgetVars, streaming, race, results, drain, raced>>

CancelAll(r) ==
  [att EXCEPT ![r] = [i \in Slots |-> [att[r][i] EXCEPT !.cancelled = TRUE]]]

\* Mutant of Finish: the late loser is nobody's.
FinishWithoutDiscard(r, i) ==
  /\ race' = [race EXCEPT ![r].st = "won", ![r].winner = i]
  /\ att' = [att EXCEPT ![r][Other(i)].cancelled = TRUE]
  /\ drain' = drain

\* finish: the loser is cancelled and, if it was launched, its stream discarded when
\* it comes; the winner's own context is left alone.
Finish(r, i) ==
  /\ race' = [race EXCEPT ![r].st = "won", ![r].winner = i]
  /\ att' = [att EXCEPT ![r][Other(i)].cancelled = TRUE]
  /\ drain' = [drain EXCEPT ![r] = IF streaming[r] THEN race[r].pending - 1 ELSE 0]

ReceiveSuccess(r) ==
  /\ Racing(r) /\ results[r] # << >> /\ Head(results[r]).err = "none"
  /\ LET i == Head(results[r]).slot
     IN  /\ Finish(r, i)
         /\ breaker' = [breaker EXCEPT ![RacedTarget(r, i)] = ClosedBreaker]
  /\ Return(r, "ok", "none")
  /\ attempts' = [attempts EXCEPT ![r] = IF race[r].hedged THEN 2 ELSE 1]
  /\ results' = [results EXCEPT ![r] = Tail(@)]
  /\ UNCHANGED <<now, planVars, ti, ctxDone, budgetVars, streaming, raced>>

\* What is left of the plan after the race.
Rest(r) == SubSeq(plan[r], IF race[r].hedged THEN 3 ELSE 2, Len(plan[r]))

\* Mutant of RaceLost: a lost race ends the request.
RaceLostWithoutRest(r, err) ==
  /\ att' = CancelAll(r)
  /\ Return(r, "error", err)
  /\ attempts' = [attempts EXCEPT ![r] = 2]
  /\ race' = [race EXCEPT ![r].st = "lost", ![r].pending = 0]
  /\ UNCHANGED <<plan, ti>>

\* The last attempt of the race has failed with err.
RaceLost(r, err) ==
  /\ att' = CancelAll(r)
  /\ \/ /\ Rest(r) = << >> \/ Decision(err) = "done"
        /\ Return(r, "error", err)
        /\ attempts' = [attempts EXCEPT ![r] = IF Rest(r) = << >> THEN 2 ELSE 0]
        /\ race' = [race EXCEPT ![r].st = "lost", ![r].pending = 0]
        /\ UNCHANGED <<plan, ti>>
     \/ /\ Rest(r) # << >> /\ Decision(err) # "done"
        /\ plan' = [plan EXCEPT ![r] = Rest(r)]
        /\ ti' = [ti EXCEPT ![r] = 1]
        /\ attempts' = [attempts EXCEPT ![r] = IF race[r].hedged THEN 2 ELSE 1]
        /\ race' = [race EXCEPT ![r].st = "rest", ![r].pending = 0]
        /\ UNCHANGED <<pc, n, errVars>>

ReceiveFailure(r) ==
  /\ Racing(r) /\ results[r] # << >> /\ Head(results[r]).err # "none"
  /\ LET o == Head(results[r])
     IN  /\ breaker' = [breaker EXCEPT ![RacedTarget(r, o.slot)] =
                          IF BreakerFailure(o.err) THEN AfterFailure(@, now) ELSE @]
         /\ \/ race[r].pending = 1 /\ RaceLost(r, o.err)
            \/ /\ race[r].pending > 1
               /\ race' = [race EXCEPT ![r].pending = @ - 1]
               /\ UNCHANGED <<pc, plan, loopVars, errVars, att>>
  /\ results' = [results EXCEPT ![r] = Tail(@)]
  /\ UNCHANGED <<now, base, tiers, ctxDone, budgetVars, streaming, drain, raced>>

\* The context ends the race; what the attempts still send stays in the channel.
RaceContext(r) ==
  /\ Racing(r)
  /\ ReturnContext(r)
  /\ att' = CancelAll(r)
  /\ race' = [race EXCEPT ![r].st = "lost"]
  /\ UNCHANGED <<breakerVars, planVars, ti, attempts, ctxDone, budgetVars, streaming, results, drain, raced>>

\* The goroutine of finish takes the loser's outcome and discards its stream.
Discard(r) ==
  /\ drain[r] > 0 /\ results[r] # << >>
  /\ LET o == Head(results[r])
     IN  att' = IF o.err = "none" THEN [att EXCEPT ![r][o.slot].stream = "cut"] ELSE att
  /\ results' = [results EXCEPT ![r] = Tail(@)]
  /\ drain' = [drain EXCEPT ![r] = @ - 1]
  /\ UNCHANGED <<vars, budgetVars, streaming, race, raced>>

----------------------------------------------------------------------------
\* Execute runs a plan too short to be raced, and the rest of a lost race.
Executing(r) == race[r].st = "rest" \/ Len(plan[r]) < 2

\* A call of Execute that opens a stream leaves it behind, and maybe a watcher that
\* has not started yet.
ExecuteServes(r) ==
  /\ CallSucceeds(r)
  /\ \E w \in IF streaming[r] THEN {"new", "off"} ELSE {"off"}, opened \in Opened(r) :
       att' = [att EXCEPT ![r]["rest"] =
                 [NoAttempt EXCEPT !.st = "sent", !.watch = w, !.stream = opened]]
  /\ race' = [race EXCEPT ![r].winner = "rest"]
  /\ UNCHANGED <<budgetVars, streaming, results, drain, raced>>

ExecuteStep(r) ==
  /\ Executing(r)
  /\ \/ ExecuteServes(r)
     \/ (Visit(r) \/ CallFails(r) \/ Classify(r) \/ Wake(r)) /\ UNCHANGED <<budgetVars, raceVars>>

\* The other requests of the route use the same budget.
OthersRequest ==
  /\ total < MaxHedgeRequests
  /\ budget' = AfterRequest(budget) /\ total' = total + 1
  /\ UNCHANGED <<vars, launched, raceVars>>

OthersHedge ==
  /\ AllowsHedge(budget)
  /\ budget' = AfterHedge(budget) /\ launched' = launched + 1
  /\ UNCHANGED <<vars, total, raceVars>>

\* The steps of the request's goroutine.
Main(r) ==
  \/ (OrderTarget(r) \/ OrderDone(r)) /\ UNCHANGED <<budgetVars, raceVars>>
  \/ StartRace(r) \/ TimerFires(r) \/ ReceiveSuccess(r) \/ ReceiveFailure(r) \/ RaceContext(r)
  \/ ExecuteStep(r)

HedgedNext ==
  \/ \E r \in Requests :
       \/ (Start(r) \/ ContextEnds(r)) /\ UNCHANGED <<budgetVars, raceVars>>
       \/ Main(r) \/ Discard(r)
       \/ \E i \in Slots : AttemptReturns(r, i) \/ Watch(r, i)
  \/ Tick /\ UNCHANGED <<budgetVars, raceVars>>
  \/ OthersRequest \/ OthersHedge

\* Goroutines are scheduled fairly, timers fire, and a provider call ends because
\* the HTTP client and the plan's deadline bound it.
HedgedSpec ==
  /\ HedgedInit /\ [][HedgedNext]_hedgedVars
  /\ \A r \in Requests :
       /\ WF_hedgedVars(Main(r)) /\ WF_hedgedVars(Discard(r))
       /\ \A i \in Slots : WF_hedgedVars(AttemptReturns(r, i)) /\ WF_hedgedVars(Watch(r, i))

----------------------------------------------------------------------------
\* All goroutines of the race have ended.
Quiet(r) ==
  drain[r] = 0 /\ \A i \in Slots : att[r][i].st # "calling" /\ att[r][i].watch = "off"

\* The types of the variables: at most two attempts of a race are pending, and at most
\* one outcome is left to discard.
HedgedTypeOK ==
  /\ TypeOK
  /\ budget \in Budget /\ total \in Nat /\ launched \in Nat
  /\ streaming \in [Requests -> BOOLEAN]
  /\ race \in [Requests -> [st : {"none", "racing", "won", "lost", "rest"}, hedged : BOOLEAN,
                            pending : 0 .. 2, timer : BOOLEAN, winner : Slots \cup {"none"}]]
  /\ att \in [Requests -> [Slots -> [st : {"none", "calling", "sent"}, cancelled : BOOLEAN,
                                     watch : {"new", "waiting", "off"}, stream : {"none", "open", "cut"}]]]
  /\ results \in [Requests -> Seq([slot : Slots, err : ErrorKinds \cup {"none"}])]
  /\ drain \in [Requests -> 0 .. 1]
  /\ raced \in [Requests -> SUBSET Targets]

\* HedgeBudget (docs/configuration.md, max_extra: "Maximum fraction of total route
\* traffic permitted to be hedged"): over the life of the route, however requests and
\* hedges interleave and however often the window decays, no more than that fraction of
\* all requests were hedged.
HedgesWithinShare == launched * ShareDen <= ShareNum * total

\* ExecuteHedged and discard: once a raced request has been answered and its goroutines
\* have ended, no stream but the winner's is left open, whoever finished when.
LosersReleased ==
  HedgedTypeOK /\ \A r \in Requests :
    (result[r] = "ok" /\ Quiet(r)) =>
      \A i \in Slots \ {race[r].winner} : att[r][i].stream # "open"

\* ExecuteHedged: the failover after a lost race never calls a target that the race
\* has already called, on a route that lists each of its targets once (the configuration
\* may repeat one).
RacedNotRetried ==
  \A r \in Requests :
    (race[r].st = "rest" /\ pc[r] \in Working) => Current(r) \notin raced[r]

\* ExecuteHedged and Execute: an error that allows failover reaches the client only
\* after every target of the plan was raced, or the rest was followed to its end.
HedgedFailoverIsExhausted ==
  \A r \in Requests :
    (result[r] = "error" /\ Decision(lastErr[r]) # "done") =>
      IF race[r].st = "lost" THEN \A k \in DOMAIN plan[r] : plan[r][k] \in raced[r] ELSE IsLast(r)

\* ExecuteHedged: failover goes on exactly where the race ended, on a route that lists
\* each of its targets once.
FailoverAfterRace == RacedNotRetried /\ HedgedFailoverIsExhausted

\* Execute and ExecuteHedged: retries, sleeps, races and failover end, every request
\* returns, and no goroutine of its race is left behind waiting for the channel, whoever
\* stopped reading it.
RacesEnd ==
  \A r \in Requests :
    (pc[r] = "order" \/ Racing(r)) ~> (pc[r] = "returned" /\ Quiet(r))

\* hedge.go: "The first to return successfully is returned to the client, and the loser
\* is eagerly cancelled": once the winner's stream has been handed to a client whose
\* context lives, none of the race's goroutines cuts it off.
WinnerKept ==
  [][\A r \in Requests :
       (race[r].st = "won" /\ ~ctxDone[r] /\ att[r][race[r].winner].stream = "open")
         => att'[r][race[r].winner].stream = "open"]_hedgedVars

=============================================================================
