---------------------------- MODULE ProofLeader ----------------------------
(***************************************************************************)
(* The proof loop's background work over Redis and ClickHouse: the leader  *)
(* lock (internal/proof/leader.go), the daily shadow-spend guard           *)
(* (spend.go), the cache label worker (labeler.go), the routing shadow     *)
(* evaluations that a sampled request starts (routing_shadow.go) and the   *)
(* judge both of them ask (judge.go).                                      *)
(*                                                                         *)
(* A process takes a fresh instance id when it starts, so a restarted one  *)
(* is another member of Instances.  A call to Redis takes effect and is    *)
(* answered in two steps: the lease may lapse in between.  Spend is        *)
(* counted in judge estimates (1000 micro-dollars each).                   *)
(***************************************************************************)
EXTENDS Naturals, FiniteSets

CONSTANTS
    Instances,  \* gateway processes (uuid per start)
    Nobody,     \* the lock key does not exist
    Evals,      \* routing shadow evaluations
    EvalOwner,  \* [Evals -> Instances], the process that runs the evaluation
    Records,    \* cache shadow records waiting for a judge label
    TTL,        \* life of the lock key, in clock ticks (30 s in main.go)
    Limit,      \* daily spend limit, in estimates
    MaxErrors,  \* bound: Redis and ClickHouse calls that fail
    MaxNights   \* bound: how often the UTC day changes

ASSUME LeaderAssumption ==
    /\ TTL \in Nat \ {0}
    /\ Limit \in Nat
    /\ MaxErrors \in Nat
    /\ MaxNights \in Nat
    /\ EvalOwner \in [Evals -> Instances]
    /\ Nobody \notin Instances
    /\ IsFiniteSet(Instances) /\ IsFiniteSet(Evals)

Answers == {"cheap", "strong"}

VARIABLES
    lock,       \* the value of proofgate:leader:monitor, or Nobody
    lease,      \* ticks until that key expires
    up,         \* processes that are running
    lpc,        \* leader goroutine: "idle", "acquire", "lost" (a reply
                \* is on its way), "release" or "quit"
    leading,    \* l.isLeader
    spent,      \* today's proof:spend counter
    run,        \* label worker: [pc, left: records of its snapshot, rec,
                \* cut: history, the lease was not its own at some point of the run]
    labels,     \* how often a judge label of a record reached ClickHouse
    overlapped, \* history: two label runs were in progress at once
    eval,       \* routing shadow: [pc, truth: the better answer, res: the score's]
    errors, nights

leaderVars == <<lock, lease, up, lpc, leading>>
workVars == <<spent, run, labels, eval>>
vars == <<leaderVars, workVars, overlapped, errors, nights>>

IdleRun == [pc |-> "idle", left |-> {}, rec |-> Nobody, cut |-> FALSE]
IdleEval == [pc |-> "idle", truth |-> "cheap", res |-> "none"]

Init ==
    /\ lock = Nobody /\ lease = 0
    /\ up = Instances
    /\ lpc = [i \in Instances |-> "idle"]
    /\ leading = [i \in Instances |-> FALSE]
    /\ spent = 0
    /\ run = [i \in Instances |-> IdleRun]
    /\ labels = [r \in Records |-> 0]
    /\ overlapped = FALSE
    /\ eval = [e \in Evals |-> IdleEval]
    /\ errors = 0 /\ nights = 0

Running(i) == run[i].pc # "idle"
Serving == {i \in up : lpc[i] \notin {"release", "quit"}}

(* The lock leaves i: remember it for the label run i has in progress.     *)
Cut(h) == run' = [run EXCEPT ![h].cut = @ \/ Running(h)]

Fails == errors < MaxErrors /\ errors' = errors + 1
Works == errors' = errors

-----------------------------------------------------------------------------
(* Leader lock                                                              *)

\* Mutant of StepAcquire: SET in place of SETNX.
StepTake(i) ==
    /\ i \in up /\ lpc[i] = "idle" /\ ~leading[i] /\ Works
    /\ lock' = i /\ lease' = TTL
    /\ lpc' = [lpc EXCEPT ![i] = "acquire"]
    /\ UNCHANGED <<up, leading, workVars, overlapped, nights>>

(* Step, not leading: SetNX with the TTL.  A client error can hide a key   *)
(* that was set.                                                           *)
StepAcquire(i) ==
    /\ i \in up /\ lpc[i] = "idle" /\ ~leading[i]
    /\ \/ /\ lock = Nobody
          /\ lock' = i /\ lease' = TTL
          /\ \/ Works /\ lpc' = [lpc EXCEPT ![i] = "acquire"]
             \/ Fails /\ lpc' = lpc
       \/ /\ lock # Nobody \/ Fails
          /\ lock # Nobody => Works
          /\ UNCHANGED <<lock, lease, lpc>>
    /\ UNCHANGED <<up, leading, workVars, overlapped, nights>>

(* Step, leading: renewScript extends the key only for its owner; an error *)
(* or a zero ends the leadership.                                          *)
StepRenew(i) ==
    /\ i \in up /\ lpc[i] = "idle" /\ leading[i]
    /\ \/ /\ Works
          /\ lease' = IF lock = i THEN TTL ELSE lease
          /\ lpc' = [lpc EXCEPT ![i] = IF lock = i THEN "idle" ELSE "lost"]
       \/ /\ Fails
          /\ lease' \in {lease, IF lock = i THEN TTL ELSE lease}
          /\ lpc' = [lpc EXCEPT ![i] = "lost"]
    /\ UNCHANGED <<lock, up, leading, workVars, overlapped, nights>>

(* The reply of Redis reaches Step, which sets isLeader.                   *)
StepReply(i) ==
    /\ i \in up /\ lpc[i] \in {"acquire", "lost"}
    /\ leading' = [leading EXCEPT ![i] = lpc[i] # "lost"]
    /\ lpc' = [lpc EXCEPT ![i] = "idle"]
    /\ UNCHANGED <<lock, lease, up, workVars, overlapped, errors, nights>>

Step(i) == StepAcquire(i) \/ StepRenew(i) \/ StepReply(i)

\* Mutant of Release: the key is deleted whoever owns it.
ReleaseAnyone(i) ==
    /\ i \in up /\ lpc[i] = "idle" /\ leading[i] /\ lock # Nobody /\ Works
    /\ Serving \ {i} # {}
    /\ lpc' = [lpc EXCEPT ![i] = "release"]
    /\ lock' = Nobody /\ lease' = 0
    /\ UNCHANGED <<up, leading, workVars, overlapped, nights>>

(* ctx.Done or Stop: release deletes the key for its owner only and then   *)
(* clears isLeader; an error of the script is ignored.                     *)
Release(i) ==
    /\ i \in up /\ lpc[i] = "idle"
    /\ Serving \ {i} # {}
    /\ lpc' = [lpc EXCEPT ![i] = "release"]
    /\ \/ /\ leading[i] /\ lock = i /\ Works
          /\ lock' = Nobody /\ lease' = 0 /\ Cut(i)
       \/ /\ ~(leading[i] /\ lock = i) /\ Works
          /\ UNCHANGED <<lock, lease, run>>
       \/ /\ leading[i] /\ Fails
          /\ UNCHANGED <<lock, lease, run>>
    /\ UNCHANGED <<up, leading, spent, labels, eval, overlapped, nights>>

Released(i) ==
    /\ i \in up /\ lpc[i] = "release"
    /\ lpc' = [lpc EXCEPT ![i] = "quit"]
    /\ leading' = [leading EXCEPT ![i] = FALSE]
    /\ UNCHANGED <<lock, lease, up, workVars, overlapped, errors, nights>>

(* The process ends, after its release or by a crash at any point.  One    *)
(* process keeps serving, so that somebody is left to lead.                *)
Exit(i) ==
    /\ i \in up /\ Serving \ {i} # {}
    /\ up' = up \ {i}
    /\ lpc' = [lpc EXCEPT ![i] = "quit"]
    /\ leading' = [leading EXCEPT ![i] = FALSE]
    /\ run' = [run EXCEPT ![i] = IdleRun]
    /\ eval' = [e \in Evals |-> IF EvalOwner[e] = i THEN IdleEval ELSE eval[e]]
    /\ UNCHANGED <<lock, lease, spent, labels, overlapped, errors, nights>>

\* Mutant of Tick: the key was set without a TTL.
TickNoExpiry ==
    /\ lock # Nobody /\ lease > 1
    /\ lease' = lease - 1
    /\ UNCHANGED <<lock, up, lpc, leading, workVars, overlapped, errors, nights>>

(* Time passes; Redis deletes the key when its TTL has run out.            *)
Tick ==
    /\ lock # Nobody
    /\ lease' = lease - 1
    /\ lock' = IF lease = 1 THEN Nobody ELSE lock
    /\ IF lease = 1 THEN Cut(lock) ELSE UNCHANGED run
    /\ UNCHANGED <<up, lpc, leading, spent, labels, eval, overlapped, errors, nights>>

-----------------------------------------------------------------------------
(* Spend guard                                                              *)

\* Mutant of CanSpend: the estimate is left out.
CanSpendSoFar == spent <= Limit

\* CanSpend: what is booked today and the estimate stay within the limit.
CanSpend == spent + 1 <= Limit

(* AddSpend books on the key of the day it runs, not the day of CanSpend;  *)
(* its callers ignore its error.                                           *)
AddSpend ==
    \/ Works /\ spent' = spent + 1
    \/ Fails /\ spent' = spent

Midnight ==
    /\ nights < MaxNights
    /\ nights' = nights + 1
    /\ spent' = 0
    /\ UNCHANGED <<leaderVars, run, labels, eval, overlapped, errors>>

-----------------------------------------------------------------------------
(* Cache label worker                                                       *)

(* RunOnce asks IsLeader once, at its start.                               *)
LabelStart(i) ==
    /\ i \in up /\ ~Running(i) /\ leading[i]
    /\ run' = [run EXCEPT ![i] = [IdleRun EXCEPT !.pc = "fetch", !.cut = lock # i]]
    /\ overlapped' = (overlapped \/ \E j \in Instances \ {i} : Running(j))
    /\ UNCHANGED <<leaderVars, spent, labels, eval, errors, nights>>

\* Mutant of UnlabeledShadow: labelled records come back.
AnyShadow == Records

\* Records without a judge label.
UnlabeledShadow == {r \in Records : labels[r] = 0}

(* Per bucket: CanSpend, then the snapshot of the records to label.        *)
LabelFetch(i) ==
    /\ i \in up /\ run[i].pc = "fetch"
    /\ \/ /\ CanSpend /\ Works
          /\ run' = [run EXCEPT ![i].pc = "next", ![i].left = UnlabeledShadow]
       \/ /\ ~CanSpend \/ Fails
          /\ ~CanSpend => Works
          /\ run' = [run EXCEPT ![i] = IdleRun]
    /\ UNCHANGED <<leaderVars, spent, labels, eval, overlapped, nights>>

(* Per record: CanSpend again, then the judge.  EvaluateCache answers even *)
(* when two attempts failed (the answer is then "not acceptable"); only a  *)
(* lack of entropy makes it fail, and the record is skipped.               *)
LabelJudge(i) ==
    /\ i \in up /\ run[i].pc = "next"
    /\ \/ /\ run[i].left # {} /\ CanSpend /\ Works
          /\ \E r \in run[i].left :
                run' = [run EXCEPT ![i].pc = "insert", ![i].left = @ \ {r}, ![i].rec = r]
       \/ /\ (run[i].left # {} /\ ~CanSpend) \/ run[i].left = {}
          /\ Works
          /\ run' = [run EXCEPT ![i] = IdleRun]
       \/ /\ run[i].left # {} /\ Fails
          /\ run' = [run EXCEPT ![i] = IdleRun]
    /\ UNCHANGED <<leaderVars, spent, labels, eval, overlapped, nights>>

(* InsertLabels: an error ends the run with the judge's call unbooked; the *)
(* row may have landed all the same.                                       *)
LabelInsert(i) ==
    /\ i \in up /\ run[i].pc = "insert"
    /\ LET landed == [labels EXCEPT ![run[i].rec] = @ + 1] IN
       \/ /\ Works
          /\ labels' = landed
          /\ run' = [run EXCEPT ![i].pc = "book"]
       \/ /\ Fails
          /\ labels' \in {labels, landed}
          /\ run' = [run EXCEPT ![i] = IdleRun]
    /\ UNCHANGED <<leaderVars, spent, eval, overlapped, nights>>

LabelBook(i) ==
    /\ i \in up /\ run[i].pc = "book"
    /\ AddSpend
    /\ run' = [run EXCEPT ![i].pc = "next", ![i].rec = Nobody]
    /\ UNCHANGED <<leaderVars, labels, eval, overlapped, nights>>

-----------------------------------------------------------------------------
(* Routing shadow evaluation                                                *)

(* EvaluateRouting shows the two answers in a random order, reads the      *)
(* scores of "A" and "B" and turns them back; two unreadable replies are a *)
(* tie.                                                                    *)
Swap(a) == IF a = "cheap" THEN "strong" ELSE "cheap"

\* Mutant of Scored: the shown order is stored.
ScoredAsShown(swapped, shownBetter) == shownBetter

\* The winner among the shown answers, as cheap or strong.
Scored(swapped, shownBetter) == IF swapped THEN Swap(shownBetter) ELSE shownBetter

EvaluateRouting(truth, swapped) ==
    {Scored(swapped, IF swapped THEN Swap(truth) ELSE truth), "tie"}

(* A sampled request's goroutine has the counterfactual answer: IsLeader,  *)
(* CanSpend, then the judge.                                               *)
EvalStart(e) ==
    LET i == EvalOwner[e] IN
    /\ i \in up /\ eval[e].pc = "idle" /\ leading[i]
    /\ CanSpend
    /\ \E truth \in Answers, swapped \in BOOLEAN : \E res \in EvaluateRouting(truth, swapped) :
          eval' = [eval EXCEPT ![e] = [pc |-> "insert", truth |-> truth, res |-> res]]
    /\ UNCHANGED <<leaderVars, spent, run, labels, overlapped, errors, nights>>

(* InsertRoutingShadow; only a stored row is booked.                       *)
EvalInsert(e) ==
    /\ EvalOwner[e] \in up /\ eval[e].pc = "insert"
    /\ \/ Works /\ eval' = [eval EXCEPT ![e].pc = "book"]
       \/ Fails /\ eval' = [eval EXCEPT ![e] = IdleEval]
    /\ UNCHANGED <<leaderVars, spent, run, labels, overlapped, nights>>

EvalBook(e) ==
    /\ EvalOwner[e] \in up /\ eval[e].pc = "book"
    /\ AddSpend
    /\ eval' = [eval EXCEPT ![e] = IdleEval]
    /\ UNCHANGED <<leaderVars, run, labels, overlapped, nights>>

-----------------------------------------------------------------------------
LabelRun(i) == LabelFetch(i) \/ LabelJudge(i) \/ LabelInsert(i) \/ LabelBook(i)
EvalRun(e) == EvalInsert(e) \/ EvalBook(e)

Next ==
    \/ \E i \in Instances : Step(i) \/ Release(i) \/ Released(i) \/ Exit(i)
    \/ \E i \in Instances : LabelStart(i) \/ LabelRun(i)
    \/ \E e \in Evals : EvalStart(e) \/ EvalRun(e)
    \/ Tick \/ Midnight

(* The leader goroutine runs its ticker and the clock advances.            *)
Fairness ==
    /\ \A i \in Instances : WF_vars(Step(i))
    /\ WF_vars(Tick)

Spec == Init /\ [][Next]_vars /\ Fairness

-----------------------------------------------------------------------------
Min1(n) == IF n = 0 THEN 0 ELSE n - 1

TypeOK ==
    /\ lock \in Instances \cup {Nobody} /\ lease \in 0..TTL
    /\ (lock = Nobody) <=> (lease = 0)
    /\ up \subseteq Instances
    /\ lpc \in [Instances -> {"idle", "acquire", "lost", "release", "quit"}]
    /\ leading \in [Instances -> BOOLEAN]
    /\ spent \in Nat
    /\ run \in [Instances -> [pc : {"idle", "fetch", "next", "insert", "book"},
                              left : SUBSET Records, rec : Records \cup {Nobody}, cut : BOOLEAN]]
    /\ labels \in [Records -> Nat]
    /\ eval \in [Evals -> [pc : {"idle", "insert", "book"}, truth : Answers,
                           res : Answers \cup {"tie", "none"}]]
    /\ overlapped \in BOOLEAN
    /\ errors \in 0..MaxErrors /\ nights \in 0..MaxNights

(* The check of the limit and the booking are apart, and every worker of   *)
(* every process shares the counter: a day's booked spend passes the limit *)
(* by at most one estimate for each further worker, never more             *)
(* (ShadowSpendGuard.CanSpend before the judge, AddSpend after the row).   *)
SpendBounded == spent <= Limit + Min1(Cardinality(Instances) + Cardinality(Evals))

(* RunOnce asks IsLeader only at its start, so two processes may label at  *)
(* once; they do so only when the lease was lost under one of them.        *)
RunsOverlapOnlyAfterLapse ==
    \A i, j \in Instances : i # j /\ Running(i) /\ Running(j) => run[i].cut \/ run[j].cut

(* A shadow record gets a second judge label only when two runs were in    *)
(* progress at once: a run labels what UnlabeledShadow had not seen        *)
(* labelled, also after an insert that failed or seemed to.                *)
LabelledOnce == TypeOK /\ (~overlapped => \A r \in Records : labels[r] <= 1)

(* A stored routing score is the judge's opinion of the right answer,      *)
(* whichever was shown first, or a tie.                                    *)
ScoreOfRightAnswer ==
    \A e \in Evals : eval[e].pc = "insert" => eval[e].res \in {eval[e].truth, "tie"}

(* The Redis key with its two scripts implements the lease of LeaderLease: *)
(* a process extends and deletes the key only while the key is its own,    *)
(* and starts to lead only after its own SETNX succeeded.                  *)
Lease == INSTANCE LeaderLease WITH
    Term <- TTL, holder <- lock, term <- lease,
    granted <- {i \in up : lpc[i] = "acquire"},
    believers <- {i \in up : leading[i]}

LeaseImplemented == Lease!LeaseSpec

(* Somebody leads again and again, whatever crashed holding the lock: the  *)
(* key expires and the next Step of a live process takes it.               *)
SomebodyLeads == []<>(\E i \in up : leading[i])
=============================================================================
