------------------------- MODULE ProofLeaderProofs --------------------------
(***************************************************************************)
(* The leader lock, the label worker and the spend guard for any number of *)
(* processes, records and evaluations, any lease and any limit.            *)
(***************************************************************************)
EXTENDS ProofLeader, FiniteSetTheorems, TLAPS

RunRec == [pc : {"idle", "fetch", "next", "insert", "book"},
           left : SUBSET Records, rec : Records \cup {Nobody}, cut : BOOLEAN]

EvalRec == [pc : {"idle", "insert", "book"}, truth : Answers,
            res : Answers \cup {"tie", "none"}]

\* A label run that was never cut off has the lock.
UncutHolds == \A i \in Instances : Running(i) /\ ~run[i].cut => lock = i

\* Without an overlap one run is in progress at most, and what it still has to label has
\* no label.
RunAlone == ~overlapped => \A i, j \in Instances : Running(i) /\ Running(j) => i = j

LeftUnlabelled(i) ==
  /\ ~Running(i) => run[i].left = {}
  /\ \A r \in run[i].left : labels[r] = 0
  /\ run[i].pc = "insert" => /\ run[i].rec \in Records \ run[i].left
                             /\ labels[run[i].rec] = 0

LabelSound ==
  ~overlapped => /\ \A r \in Records : labels[r] <= 1
                 /\ \A i \in Instances : LeftUnlabelled(i)

\* Workers between CanSpend and AddSpend.
PendingRuns == {i \in Instances : run[i].pc \in {"insert", "book"}}
PendingEvals == {e \in Evals : eval[e].pc # "idle"}

\* What is booked and what is still to be booked.
SpendSound ==
  spent + Cardinality(PendingRuns) + Cardinality(PendingEvals)
    <= Limit + Min1(Cardinality(Instances) + Cardinality(Evals))

\* The inductive invariant.
IInv ==
  /\ TypeOK
  /\ UncutHolds
  /\ RunAlone /\ LabelSound
  /\ SpendSound
  /\ ScoreOfRightAnswer

-----------------------------------------------------------------------------
\* A step changes the record of one label run only.
LEMMA RunUpdate ==
  ASSUME TypeOK, NEW i \in Instances, NEW x \in RunRec, run' = [run EXCEPT ![i] = x]
  PROVE  /\ run' \in [Instances -> RunRec]
         /\ run'[i] = x
         /\ \A j \in Instances \ {i} : run'[j] = run[j]
  BY DEF TypeOK, RunRec

\* The same for an evaluation.
LEMMA EvalUpdate ==
  ASSUME TypeOK, NEW e \in Evals, NEW x \in EvalRec, eval' = [eval EXCEPT ![e] = x]
  PROVE  /\ eval' \in [Evals -> EvalRec]
         /\ eval'[e] = x
         /\ \A d \in Evals \ {e} : eval'[d] = eval[d]
  BY DEF TypeOK, EvalRec

\* The idle records are records.
LEMMA IdleTyped == IdleRun \in RunRec /\ IdleEval \in EvalRec
  BY DEF IdleRun, IdleEval, RunRec, EvalRec, Answers

\* Cutting a run off changes nothing else of it.
LEMMA CutRun ==
  ASSUME TypeOK, NEW h \in Instances, Cut(h)
  PROVE  /\ run' \in [Instances -> RunRec]
         /\ \A j \in Instances : /\ run'[j].pc = run[j].pc
                                 /\ run'[j].left = run[j].left
                                 /\ run'[j].rec = run[j].rec
                                 /\ j # h => run'[j].cut = run[j].cut
         /\ Running(h) => run'[h].cut
<1> DEFINE x == [run[h] EXCEPT !.cut = @ \/ Running(h)]
<1>1. run[h] \in RunRec
  BY DEF TypeOK, RunRec
<1>2. /\ x \in RunRec /\ x.pc = run[h].pc /\ x.left = run[h].left /\ x.rec = run[h].rec
      /\ Running(h) => x.cut
  BY <1>1 DEF RunRec, Running
<1>3. run' = [run EXCEPT ![h] = x]
  BY DEF Cut
<1> HIDE DEF x
<1> QED BY <1>2, <1>3, RunUpdate

\* What a step of a label run does to its record.
LEMMA RunFields ==
  ASSUME TypeOK, NEW i \in Instances
  PROVE  /\ \A S \in SUBSET Records :
              /\ [run[i] EXCEPT !.pc = "next", !.left = S] \in RunRec
              /\ [run EXCEPT ![i].pc = "next", ![i].left = S]
                   = [run EXCEPT ![i] = [run[i] EXCEPT !.pc = "next", !.left = S]]
         /\ \A r \in Records :
              /\ [run[i] EXCEPT !.pc = "insert", !.left = @ \ {r}, !.rec = r] \in RunRec
              /\ [run EXCEPT ![i].pc = "insert", ![i].left = @ \ {r}, ![i].rec = r]
                   = [run EXCEPT ![i] = [run[i] EXCEPT !.pc = "insert", !.left = @ \ {r}, !.rec = r]]
         /\ [run[i] EXCEPT !.pc = "book"] \in RunRec
         /\ [run EXCEPT ![i].pc = "book"] = [run EXCEPT ![i] = [run[i] EXCEPT !.pc = "book"]]
         /\ [run[i] EXCEPT !.pc = "next", !.rec = Nobody] \in RunRec
         /\ [run EXCEPT ![i].pc = "next", ![i].rec = Nobody]
              = [run EXCEPT ![i] = [run[i] EXCEPT !.pc = "next", !.rec = Nobody]]
<1>1. run[i] \in RunRec /\ i \in DOMAIN run
  BY DEF TypeOK, RunRec
<1>2. ASSUME NEW S \in SUBSET Records
      PROVE  /\ [run[i] EXCEPT !.pc = "next", !.left = S] \in RunRec
             /\ [run EXCEPT ![i].pc = "next", ![i].left = S]
                  = [run EXCEPT ![i] = [run[i] EXCEPT !.pc = "next", !.left = S]]
  BY <1>1 DEF RunRec
<1>3. ASSUME NEW r \in Records
      PROVE  /\ [run[i] EXCEPT !.pc = "insert", !.left = @ \ {r}, !.rec = r] \in RunRec
             /\ [run EXCEPT ![i].pc = "insert", ![i].left = @ \ {r}, ![i].rec = r]
                  = [run EXCEPT ![i] = [run[i] EXCEPT !.pc = "insert", !.left = @ \ {r}, !.rec = r]]
  BY <1>1 DEF RunRec
<1>4. /\ [run[i] EXCEPT !.pc = "book"] \in RunRec
      /\ [run EXCEPT ![i].pc = "book"] = [run EXCEPT ![i] = [run[i] EXCEPT !.pc = "book"]]
  BY <1>1 DEF RunRec
<1>5. /\ [run[i] EXCEPT !.pc = "next", !.rec = Nobody] \in RunRec
      /\ [run EXCEPT ![i].pc = "next", ![i].rec = Nobody]
           = [run EXCEPT ![i] = [run[i] EXCEPT !.pc = "next", !.rec = Nobody]]
  BY <1>1 DEF RunRec
<1> QED BY <1>2, <1>3, <1>4, <1>5

-----------------------------------------------------------------------------
\* The sizes of the pending workers.
LEMMA PendingSizes ==
  ASSUME NEW R \in SUBSET Instances, NEW E \in SUBSET Evals
  PROVE  /\ IsFiniteSet(R) /\ IsFiniteSet(E)
         /\ Cardinality(R) \in Nat /\ Cardinality(E) \in Nat
         /\ Cardinality(Instances) \in Nat /\ Cardinality(Evals) \in Nat
         /\ Cardinality(R) <= Cardinality(Instances) /\ Cardinality(E) <= Cardinality(Evals)
         /\ \A S \in SUBSET R : Cardinality(S) \in Nat /\ Cardinality(S) <= Cardinality(R)
         /\ \A S \in SUBSET E : Cardinality(S) \in Nat /\ Cardinality(S) <= Cardinality(E)
         /\ \A i \in R : Cardinality(R \ {i}) = Cardinality(R) - 1
         /\ \A e \in E : Cardinality(E \ {e}) = Cardinality(E) - 1
<1>1. IsFiniteSet(Instances) /\ IsFiniteSet(Evals)
  BY LeaderAssumption
<1>2. IsFiniteSet(R) /\ IsFiniteSet(E)
  BY <1>1, FS_Subset
<1>3. /\ Cardinality(R) \in Nat /\ Cardinality(E) \in Nat
      /\ Cardinality(Instances) \in Nat /\ Cardinality(Evals) \in Nat
  BY <1>1, <1>2, FS_CardinalityType
<1>4. Cardinality(R) <= Cardinality(Instances) /\ Cardinality(E) <= Cardinality(Evals)
  BY <1>1, FS_Subset
<1>5. \A S \in SUBSET R : Cardinality(S) \in Nat /\ Cardinality(S) <= Cardinality(R)
  BY <1>2, FS_Subset, FS_CardinalityType
<1>6. \A S \in SUBSET E : Cardinality(S) \in Nat /\ Cardinality(S) <= Cardinality(E)
  BY <1>2, FS_Subset, FS_CardinalityType
<1>7. \A i \in R : Cardinality(R \ {i}) = Cardinality(R) - 1
  BY <1>2, FS_RemoveElement
<1>8. \A e \in E : Cardinality(E \ {e}) = Cardinality(E) - 1
  BY <1>2, FS_RemoveElement
<1> QED BY <1>2, <1>3, <1>4, <1>5, <1>6, <1>7, <1>8

\* The limit with what the further workers may add is a number.
LEMMA CeilingType ==
  Limit + Min1(Cardinality(Instances) + Cardinality(Evals)) \in Nat
<1>1. Cardinality(Instances) \in Nat /\ Cardinality(Evals) \in Nat
  BY LeaderAssumption, FS_CardinalityType
<1> QED BY <1>1, LeaderAssumption DEF Min1

\* No worker gets past CanSpend and nothing more is booked.
LEMMA SpendShrinks ==
  ASSUME SpendSound, spent \in Nat, spent' \in Nat, spent' <= spent,
         PendingRuns' \in SUBSET PendingRuns, PendingEvals' \in SUBSET PendingEvals
  PROVE  SpendSound'
<1>1. PendingRuns \in SUBSET Instances /\ PendingEvals \in SUBSET Evals
  BY DEF PendingRuns, PendingEvals
<1>2. /\ Cardinality(PendingRuns) \in Nat /\ Cardinality(PendingRuns') \in Nat
      /\ Cardinality(PendingEvals) \in Nat /\ Cardinality(PendingEvals') \in Nat
      /\ Cardinality(PendingRuns') <= Cardinality(PendingRuns)
      /\ Cardinality(PendingEvals') <= Cardinality(PendingEvals)
  BY <1>1, PendingSizes
<1> QED BY <1>2, CeilingType DEF SpendSound

\* A worker that gets past CanSpend leaves room for its own estimate, and every other
\* worker has one under way at most.
LEMMA SpendStarts ==
  ASSUME CanSpend, spent \in Nat, spent' = spent, Instances # {},
         PendingRuns' \in SUBSET Instances, PendingEvals' \in SUBSET Evals
  PROVE  SpendSound'
<1>1. /\ Cardinality(PendingRuns') \in Nat /\ Cardinality(PendingEvals') \in Nat
      /\ Cardinality(Instances) \in Nat /\ Cardinality(Evals) \in Nat
      /\ Cardinality(PendingRuns') <= Cardinality(Instances)
      /\ Cardinality(PendingEvals') <= Cardinality(Evals)
  BY PendingSizes
<1>2. Cardinality(Instances) # 0
  BY LeaderAssumption, FS_EmptySet
<1> QED BY <1>1, <1>2, LeaderAssumption DEF SpendSound, Min1, CanSpend

\* A booking of a label run takes the place of what it had pending.
LEMMA RunBooked ==
  ASSUME SpendSound, spent \in Nat, spent' \in {spent, spent + 1}, NEW i \in PendingRuns,
         PendingRuns' = PendingRuns \ {i}, PendingEvals' = PendingEvals
  PROVE  SpendSound'
<1>1. PendingRuns \in SUBSET Instances /\ PendingEvals \in SUBSET Evals
  BY DEF PendingRuns, PendingEvals
<1>2. /\ Cardinality(PendingRuns) \in Nat /\ Cardinality(PendingEvals) \in Nat
      /\ Cardinality(PendingRuns') = Cardinality(PendingRuns) - 1
      /\ Cardinality(PendingEvals') = Cardinality(PendingEvals)
  BY <1>1, PendingSizes
<1> QED BY <1>2, CeilingType DEF SpendSound

\* The same for an evaluation.
LEMMA EvalBooked ==
  ASSUME SpendSound, spent \in Nat, spent' \in {spent, spent + 1}, NEW e \in PendingEvals,
         PendingRuns' = PendingRuns, PendingEvals' = PendingEvals \ {e}
  PROVE  SpendSound'
<1>1. PendingRuns \in SUBSET Instances /\ PendingEvals \in SUBSET Evals
  BY DEF PendingRuns, PendingEvals
<1>2. /\ Cardinality(PendingRuns) \in Nat /\ Cardinality(PendingEvals) \in Nat
      /\ Cardinality(PendingRuns') = Cardinality(PendingRuns)
      /\ Cardinality(PendingEvals') = Cardinality(PendingEvals) - 1
  BY <1>1, PendingSizes
<1> QED BY <1>2, CeilingType DEF SpendSound

-----------------------------------------------------------------------------
\* The initial state satisfies the invariant.
LEMMA InitSound == Init => IInv
<1> SUFFICES ASSUME Init PROVE IInv
  OBVIOUS
<1>1. TypeOK
  <2>1. run \in [Instances -> RunRec] /\ eval \in [Evals -> EvalRec]
    BY IdleTyped DEF Init
  <2>2. /\ lpc \in [Instances -> {"idle", "acquire", "lost", "release", "quit"}]
        /\ leading \in [Instances -> BOOLEAN] /\ labels \in [Records -> Nat]
    BY DEF Init
  <2>3. /\ lock = Nobody /\ lease \in 0 .. TTL /\ lease = 0 /\ up = Instances /\ spent \in Nat
        /\ errors \in 0 .. MaxErrors /\ nights \in 0 .. MaxNights
    BY LeaderAssumption DEF Init
  <2>4. overlapped \in BOOLEAN
    BY DEF Init
  <2> QED BY <2>1, <2>2, <2>3, <2>4 DEF TypeOK, RunRec, EvalRec
<1>2. UncutHolds /\ RunAlone /\ LabelSound
  BY DEF Init, UncutHolds, RunAlone, LabelSound, LeftUnlabelled, Running, IdleRun
<1>3. SpendSound
  <2>1. PendingRuns = {} /\ PendingEvals = {}
    BY DEF Init, PendingRuns, PendingEvals, IdleRun, IdleEval
  <2>2. Cardinality(PendingRuns) = 0 /\ Cardinality(PendingEvals) = 0
    BY <2>1, FS_EmptySet
  <2> QED BY <2>2, CeilingType DEF SpendSound, Init
<1>4. ScoreOfRightAnswer
  BY DEF Init, ScoreOfRightAnswer, IdleEval
<1> QED BY <1>1, <1>2, <1>3, <1>4 DEF IInv

\* The work is as it was: at most a run was cut off.
LEMMA WorkKept ==
  ASSUME IInv, TypeOK', UncutHolds', UNCHANGED <<spent, labels, eval, overlapped>>,
         \A j \in Instances : /\ run'[j].pc = run[j].pc
                              /\ run'[j].left = run[j].left
                              /\ run'[j].rec = run[j].rec
  PROVE  IInv'
<1>1. \A j \in Instances : Running(j)' <=> Running(j)
  BY DEF Running
<1>2. RunAlone' /\ LabelSound'
  BY <1>1 DEF IInv, RunAlone, LabelSound, LeftUnlabelled, Running
<1>3. SpendSound'
  <2>1. PendingRuns' = PendingRuns /\ PendingEvals' = PendingEvals
    BY DEF PendingRuns, PendingEvals
  <2> QED BY <2>1, SpendShrinks DEF IInv, TypeOK
<1>4. ScoreOfRightAnswer'
  BY DEF IInv, ScoreOfRightAnswer
<1> QED BY <1>2, <1>3, <1>4 DEF IInv

\* A call that works or fails keeps the count of failures within its bound.
LEMMA ErrorsBounded ==
  ASSUME TypeOK, Works \/ Fails
  PROVE  errors' \in 0 .. MaxErrors
  BY LeaderAssumption DEF TypeOK, Works, Fails

\* The lock, Redis's answers and the end of a leadership.
LEMMA LeaderStep ==
  ASSUME IInv, NEW i \in Instances, Step(i) \/ Released(i)
  PROVE  IInv'
<1>1. TypeOK /\ UncutHolds
  BY DEF IInv
<1>2. UNCHANGED <<spent, run, labels, eval, overlapped, nights, up>>
  BY DEF Step, StepAcquire, StepRenew, StepReply, Released, workVars
<1>3. errors' \in 0 .. MaxErrors
  BY <1>1, ErrorsBounded
     DEF Step, StepAcquire, StepRenew, StepReply, Released, Works, Fails, TypeOK
<1>4. leading' \in [Instances -> BOOLEAN]
  BY <1>1 DEF Step, StepAcquire, StepRenew, StepReply, Released, TypeOK
<1>5. lpc' \in [Instances -> {"idle", "acquire", "lost", "release", "quit"}]
  <2>1. CASE StepAcquire(i)
    BY <1>1, <2>1 DEF StepAcquire, TypeOK
  <2>2. CASE StepRenew(i)
    BY <1>1, <2>2 DEF StepRenew, TypeOK
  <2>3. CASE StepReply(i) \/ Released(i)
    BY <1>1, <2>3 DEF StepReply, Released, TypeOK
  <2> QED BY <2>1, <2>2, <2>3 DEF Step
<1>6. /\ lock' \in Instances \cup {Nobody} /\ lease' \in 0 .. TTL
      /\ (lock' = Nobody) <=> (lease' = 0)
      /\ lock' = lock \/ lock = Nobody
  <2>1. TTL \in Nat /\ TTL # 0 /\ i # Nobody
    BY LeaderAssumption
  <2>2. CASE StepAcquire(i)
    BY <1>1, <2>1, <2>2 DEF StepAcquire, TypeOK
  <2>3. CASE StepRenew(i)
    BY <1>1, <2>1, <2>3 DEF StepRenew, TypeOK
  <2>4. CASE StepReply(i) \/ Released(i)
    BY <1>1, <2>4 DEF StepReply, Released, TypeOK
  <2> QED BY <2>2, <2>3, <2>4 DEF Step
<1>7. TypeOK'
  BY <1>1, <1>2, <1>3, <1>4, <1>5, <1>6 DEF TypeOK
<1>8. UncutHolds'
  <2>1. \A j \in Instances : j # Nobody
    BY LeaderAssumption
  <2> QED BY <1>1, <1>2, <1>6, <2>1 DEF UncutHolds, Running
<1> QED BY <1>2, <1>7, <1>8, WorkKept

\* A released or an expired key cuts the run of its owner off.
LEMMA LapseStep ==
  ASSUME IInv, (\E i \in Instances : Release(i)) \/ Tick
  PROVE  IInv'
<1>1. TypeOK /\ UncutHolds
  BY DEF IInv
<1>2. UNCHANGED <<spent, labels, eval, overlapped, nights, up, leading>>
  BY DEF Release, Tick
<1>3. errors' \in 0 .. MaxErrors
  BY <1>1, ErrorsBounded DEF Release, Tick, Works, TypeOK
<1>4. lpc' \in [Instances -> {"idle", "acquire", "lost", "release", "quit"}]
  BY <1>1 DEF Release, Tick, TypeOK
<1>5. \/ /\ run' = run /\ lock' = lock /\ lease' \in 0 .. TTL
         /\ (lock' = Nobody) <=> (lease' = 0)
      \/ lock \in Instances /\ Cut(lock) /\ lock' = Nobody /\ lease' = 0
  <2>1. TTL \in Nat /\ \A j \in Instances : j # Nobody
    BY LeaderAssumption
  <2>2. CASE Tick
    <3>1. lock \in Instances /\ lease \in 1 .. TTL
      BY <1>1, <2>1, <2>2 DEF Tick, TypeOK
    <3> QED BY <2>1, <2>2, <3>1 DEF Tick
  <2>3. ASSUME NEW i \in Instances, Release(i)
        PROVE  \/ UNCHANGED <<run, lock, lease>>
               \/ lock = i /\ Cut(lock) /\ lock' = Nobody /\ lease' = 0
    BY <2>3 DEF Release
  <2> QED BY <1>1, <2>2, <2>3 DEF TypeOK
<1>6. /\ run' \in [Instances -> RunRec]
      /\ \A j \in Instances : /\ run'[j].pc = run[j].pc
                              /\ run'[j].left = run[j].left
                              /\ run'[j].rec = run[j].rec
  BY <1>1, <1>5, CutRun DEF TypeOK, RunRec
<1>7. TypeOK'
  <2>1. /\ lock' \in Instances \cup {Nobody} /\ lease' \in 0 .. TTL
        /\ (lock' = Nobody) <=> (lease' = 0)
    BY <1>1, <1>5, LeaderAssumption DEF TypeOK
  <2> QED BY <1>1, <1>2, <1>3, <1>4, <1>6, <2>1 DEF TypeOK, RunRec
<1>8. UncutHolds'
  <2> SUFFICES ASSUME NEW j \in Instances, Running(j)', ~run'[j].cut
               PROVE  lock' = j
    BY DEF UncutHolds
  <2>1. Running(j)
    BY <1>6 DEF Running
  <2>2. CASE lock \in Instances /\ Cut(lock) /\ lock' = Nobody
    <3>1. j # lock
      BY <1>1, <2>1, <2>2, CutRun
    <3>2. run'[j].cut = run[j].cut
      BY <1>1, <2>2, <3>1, CutRun
    <3> QED BY <1>1, <2>1, <3>1, <3>2 DEF UncutHolds
  <2>3. CASE run' = run /\ lock' = lock
    BY <1>1, <2>1, <2>3 DEF UncutHolds
  <2> QED BY <1>5, <2>2, <2>3
<1> QED BY <1>2, <1>6, <1>7, <1>8, WorkKept

-----------------------------------------------------------------------------
\* A step of one label run.
LEMMA RunStep ==
  ASSUME IInv, NEW i \in Instances, NEW x \in RunRec, run' = [run EXCEPT ![i] = x],
         UNCHANGED <<leaderVars, eval, nights>>, errors' \in 0 .. MaxErrors, spent' \in Nat,
         labels' \in [Records -> Nat], overlapped' \in BOOLEAN,
         x.pc # "idle" /\ ~x.cut => lock = i,
         RunAlone', LabelSound', SpendSound'
  PROVE  IInv'
<1>1. TypeOK /\ UncutHolds /\ ScoreOfRightAnswer
  BY DEF IInv
<1>2. /\ run' \in [Instances -> RunRec] /\ run'[i] = x
      /\ \A j \in Instances \ {i} : run'[j] = run[j]
  BY <1>1, RunUpdate
<1>3. TypeOK'
  BY <1>1, <1>2 DEF TypeOK, RunRec, leaderVars
<1>4. UncutHolds'
  <2> SUFFICES ASSUME NEW j \in Instances, Running(j)', ~run'[j].cut
               PROVE  lock' = j
    BY DEF UncutHolds
  <2>1. CASE j = i
    BY <1>2, <2>1 DEF Running, leaderVars
  <2>2. CASE j # i
    BY <1>1, <1>2, <2>2 DEF Running, UncutHolds, leaderVars
  <2> QED BY <2>1, <2>2
<1>5. ScoreOfRightAnswer'
  BY <1>1 DEF ScoreOfRightAnswer
<1> QED BY <1>3, <1>4, <1>5 DEF IInv

\* Without an overlap the other runs are idle, so only the run itself counts.
LEMMA RunLabels ==
  ASSUME IInv, NEW i \in Instances, NEW x \in RunRec, run' = [run EXCEPT ![i] = x],
         Running(i), overlapped' = overlapped,
         ~overlapped => LeftUnlabelled(i)' /\ \A r \in Records : labels'[r] <= 1
  PROVE  RunAlone' /\ LabelSound'
<1>1. TypeOK /\ RunAlone /\ LabelSound
  BY DEF IInv
<1>2. run'[i] = x /\ \A j \in Instances \ {i} : run'[j] = run[j]
  BY <1>1, RunUpdate
<1>3. ASSUME ~overlapped, NEW j \in Instances \ {i}
      PROVE  ~Running(j) /\ ~Running(j)' /\ LeftUnlabelled(j)'
  <2>1. ~Running(j) /\ run'[j] = run[j]
    BY <1>1, <1>2, <1>3 DEF RunAlone
  <2>2. run[j].left = {} /\ run[j].pc = "idle"
    BY <1>1, <1>3, <2>1 DEF LabelSound, LeftUnlabelled, Running
  <2> QED BY <2>1, <2>2 DEF Running, LeftUnlabelled
<1> QED BY <1>3 DEF RunAlone, LabelSound

\* A run that is between two records has nothing pending.
LEMMA RunPending ==
  ASSUME TypeOK, NEW i \in Instances, NEW x \in RunRec, run' = [run EXCEPT ![i] = x],
         eval' = eval
  PROVE  /\ PendingEvals' = PendingEvals
         /\ PendingRuns' \in SUBSET Instances /\ PendingEvals' \in SUBSET Evals
         /\ x.pc \notin {"insert", "book"} => PendingRuns' = PendingRuns \ {i}
         /\ i \in PendingRuns => PendingRuns' \in SUBSET PendingRuns
<1>1. run'[i] = x /\ \A j \in Instances \ {i} : run'[j] = run[j]
  BY RunUpdate
<1> QED BY <1>1 DEF PendingRuns, PendingEvals

\* A new run: the lock is its own, or it begins cut off.
LEMMA StartStep ==
  ASSUME IInv, NEW i \in Instances, LabelStart(i)
  PROVE  IInv'
<1> DEFINE x == [IdleRun EXCEPT !.pc = "fetch", !.cut = lock # i]
<1>1. TypeOK /\ RunAlone /\ LabelSound /\ SpendSound
  BY DEF IInv
<1>2. /\ x \in RunRec /\ x.pc = "fetch" /\ x.left = {} /\ (~x.cut => lock = i)
  BY IdleTyped DEF RunRec, IdleRun
<1>3. run' = [run EXCEPT ![i] = x]
  BY DEF LabelStart
<1> HIDE DEF x
<1>4. /\ run'[i] = x
      /\ \A j \in Instances \ {i} : run'[j] = run[j]
  BY <1>1, <1>2, <1>3, RunUpdate
<1>5. RunAlone'
  <2> SUFFICES ASSUME ~overlapped', NEW j \in Instances \ {i}
               PROVE  ~Running(j)'
    BY DEF RunAlone
  <2>1. ~Running(j)
    BY DEF LabelStart
  <2> QED BY <1>4, <2>1 DEF Running
<1>6. LabelSound'
  <2>1. overlapped' \/ ~overlapped
    BY DEF LabelStart
  <2>2. labels' = labels
    BY DEF LabelStart
  <2> QED BY <1>1, <1>2, <1>4, <2>1, <2>2 DEF LabelSound, LeftUnlabelled, Running
<1>7. SpendSound'
  <2>1. PendingRuns' \in SUBSET PendingRuns /\ PendingEvals' \in SUBSET PendingEvals
    BY <1>1, <1>2, <1>3, RunPending DEF LabelStart
  <2> QED BY <1>1, <2>1, SpendShrinks DEF LabelStart, TypeOK
<1>8. overlapped' \in BOOLEAN
  BY DEF LabelStart
<1>9. UNCHANGED <<leaderVars, eval, nights, errors, spent, labels>>
  BY DEF LabelStart
<1>10. errors' \in 0 .. MaxErrors /\ spent' \in Nat /\ labels' \in [Records -> Nat]
  BY <1>1, <1>9 DEF TypeOK
<1> QED BY <1>2, <1>3, <1>5, <1>6, <1>7, <1>8, <1>9, <1>10, RunStep

\* A run that ends leaves nothing behind.
LEMMA RunEnds ==
  ASSUME IInv, NEW i \in Instances, Running(i), run' = [run EXCEPT ![i] = IdleRun],
         UNCHANGED <<leaderVars, eval, nights, spent, overlapped>>, Works \/ Fails,
         labels' \in [Records -> Nat], ~overlapped => \A r \in Records : labels'[r] <= 1
  PROVE  IInv'
<1>1. TypeOK /\ SpendSound /\ IdleRun \in RunRec /\ IdleRun.pc = "idle" /\ IdleRun.left = {}
  BY IdleTyped DEF IInv, IdleRun
<1>2. run'[i] = IdleRun
  BY <1>1, RunUpdate
<1>3. LeftUnlabelled(i)'
  BY <1>1, <1>2 DEF LeftUnlabelled
<1>4. RunAlone' /\ LabelSound'
  BY <1>1, <1>3, RunLabels
<1>5. SpendSound'
  <2>1. PendingRuns' \in SUBSET PendingRuns /\ PendingEvals' \in SUBSET PendingEvals
    BY <1>1, RunPending
  <2> QED BY <1>1, <2>1, SpendShrinks DEF TypeOK
<1>6. errors' \in 0 .. MaxErrors
  BY <1>1, ErrorsBounded
<1>7. spent' \in Nat /\ overlapped' \in BOOLEAN
  BY <1>1 DEF TypeOK
<1> QED BY <1>1, <1>4, <1>5, <1>6, <1>7, RunStep

\* A run goes on without spending: nothing is labelled, nothing gets pending.
LEMMA RunGoesOn ==
  ASSUME IInv, NEW i \in Instances, NEW x \in RunRec, run' = [run EXCEPT ![i] = x],
         Running(i), UNCHANGED <<leaderVars, eval, nights, overlapped, labels>>,
         x.cut = run[i].cut, Works \/ Fails, ~overlapped => LeftUnlabelled(i)', SpendSound',
         spent' \in Nat
  PROVE  IInv'
<1>1. TypeOK /\ UncutHolds /\ LabelSound
  BY DEF IInv
<1>2. RunAlone' /\ LabelSound'
  BY <1>1, RunLabels DEF LabelSound
<1>3. ~x.cut => lock = i
  BY <1>1 DEF UncutHolds
<1>4. errors' \in 0 .. MaxErrors
  BY <1>1, ErrorsBounded
<1>5. labels' \in [Records -> Nat] /\ overlapped' \in BOOLEAN
  BY <1>1 DEF TypeOK
<1> QED BY <1>2, <1>3, <1>4, <1>5, RunStep

\* The snapshot holds the records without a label.
LEMMA FetchStep ==
  ASSUME IInv, NEW i \in Instances, LabelFetch(i)
  PROVE  IInv'
<1>1. TypeOK /\ UncutHolds /\ LabelSound /\ SpendSound /\ Running(i)
  BY DEF IInv, LabelFetch, Running
<1>2. UNCHANGED <<leaderVars, eval, nights, overlapped, labels, spent>> /\ (Works \/ Fails)
  BY DEF LabelFetch
<1>3. CASE run' = [run EXCEPT ![i] = IdleRun]
  <2>1. /\ labels' \in [Records -> Nat]
        /\ ~overlapped => \A r \in Records : labels'[r] <= 1
    BY <1>1, <1>2 DEF TypeOK, LabelSound
  <2> QED BY <1>1, <1>2, <1>3, <2>1, RunEnds
<1>4. CASE run' = [run EXCEPT ![i].pc = "next", ![i].left = UnlabeledShadow]
  <2> DEFINE x == [run[i] EXCEPT !.pc = "next", !.left = UnlabeledShadow]
  <2>1. UnlabeledShadow \in SUBSET Records
    BY DEF UnlabeledShadow
  <2>2. x \in RunRec /\ run' = [run EXCEPT ![i] = x]
    BY <1>1, <1>4, <2>1, RunFields
  <2>3. x.pc = "next" /\ x.left = UnlabeledShadow /\ x.cut = run[i].cut
    BY <1>1 DEF TypeOK
  <2> HIDE DEF x
  <2>4. run'[i] = x
    BY <1>1, <2>2, RunUpdate
  <2>5. LeftUnlabelled(i)'
    BY <1>2, <2>3, <2>4 DEF LeftUnlabelled, UnlabeledShadow, Running
  <2>6. SpendSound'
    <3>1. PendingRuns' \in SUBSET PendingRuns /\ PendingEvals' \in SUBSET PendingEvals
      BY <1>1, <1>2, <2>2, <2>3, RunPending
    <3> QED BY <1>1, <1>2, <3>1, SpendShrinks DEF TypeOK
  <2>7. spent' \in Nat
    BY <1>1, <1>2 DEF TypeOK
  <2> QED BY <1>1, <1>2, <2>2, <2>3, <2>5, <2>6, <2>7, RunGoesOn
<1> QED BY <1>3, <1>4 DEF LabelFetch

\* The judge is asked for one record of the snapshot, within the limit.
LEMMA JudgeStep ==
  ASSUME IInv, NEW i \in Instances, LabelJudge(i)
  PROVE  IInv'
<1>1. TypeOK /\ UncutHolds /\ LabelSound /\ SpendSound /\ Running(i)
  BY DEF IInv, LabelJudge, Running
<1>2. UNCHANGED <<leaderVars, eval, nights, overlapped, labels, spent>> /\ (Works \/ Fails)
  BY DEF LabelJudge
<1>3. CASE run' = [run EXCEPT ![i] = IdleRun]
  <2>1. /\ labels' \in [Records -> Nat]
        /\ ~overlapped => \A r \in Records : labels'[r] <= 1
    BY <1>1, <1>2 DEF TypeOK, LabelSound
  <2> QED BY <1>1, <1>2, <1>3, <2>1, RunEnds
<1>4. CASE run' # [run EXCEPT ![i] = IdleRun]
  <2>1. PICK r \in run[i].left :
          run' = [run EXCEPT ![i].pc = "insert", ![i].left = @ \ {r}, ![i].rec = r]
    BY <1>4 DEF LabelJudge
  <2>2. CanSpend /\ r \in Records /\ run[i].left \in SUBSET Records
    BY <1>1, <1>4 DEF LabelJudge, TypeOK
  <2> DEFINE x == [run[i] EXCEPT !.pc = "insert", !.left = @ \ {r}, !.rec = r]
  <2>3. x \in RunRec /\ run' = [run EXCEPT ![i] = x]
    BY <1>1, <2>1, <2>2, RunFields
  <2>4. x.pc = "insert" /\ x.left = run[i].left \ {r} /\ x.rec = r /\ x.cut = run[i].cut
    BY <1>1 DEF TypeOK
  <2> HIDE DEF x
  <2>5. run'[i] = x
    BY <1>1, <2>3, RunUpdate
  <2>6. ASSUME ~overlapped PROVE LeftUnlabelled(i)'
    <3>1. \A q \in run[i].left : labels[q] = 0
      BY <1>1, <2>6 DEF LabelSound, LeftUnlabelled
    <3> QED BY <1>2, <2>2, <2>4, <2>5, <3>1 DEF LeftUnlabelled, Running
  <2>7. SpendSound'
    <3>1. PendingRuns' \in SUBSET Instances /\ PendingEvals' \in SUBSET Evals
      BY DEF PendingRuns, PendingEvals
    <3> QED BY <1>1, <1>2, <2>2, <3>1, SpendStarts DEF TypeOK
  <2>8. spent' \in Nat
    BY <1>1, <1>2 DEF TypeOK
  <2> QED BY <1>1, <1>2, <2>3, <2>4, <2>6, <2>7, <2>8, RunGoesOn
<1> QED BY <1>3, <1>4

\* The row reaches the store, or seems to have failed.
LEMMA InsertStep ==
  ASSUME IInv, NEW i \in Instances, LabelInsert(i)
  PROVE  IInv'
<1> DEFINE landed == [labels EXCEPT ![run[i].rec] = @ + 1]
<1>1. TypeOK /\ UncutHolds /\ LabelSound /\ SpendSound /\ Running(i) /\ run[i].pc = "insert"
  BY DEF IInv, LabelInsert, Running
<1>2. UNCHANGED <<leaderVars, eval, nights, overlapped, spent>> /\ (Works \/ Fails)
  BY DEF LabelInsert
<1>3. /\ landed \in [Records -> Nat]
      /\ \A r \in Records : landed[r] = IF r = run[i].rec THEN labels[r] + 1 ELSE labels[r]
  <2>1. labels \in [Records -> Nat]
    BY <1>1 DEF TypeOK
  <2> DEFINE k == run[i].rec
  <2> HIDE DEF k
  <2>2. landed = [labels EXCEPT ![k] = labels[k] + 1]
    BY DEF k
  <2>3. CASE k \in Records
    <3>1. labels[k] + 1 \in Nat
      BY <2>1, <2>3
    <3> QED BY <2>1, <2>2, <2>3, <3>1 DEF k
  <2>4. CASE k \notin Records
    <3>1. landed = labels
      BY <2>1, <2>2, <2>4, Zenon
    <3> QED BY <2>1, <2>4, <3>1 DEF k
  <2> QED BY <2>3, <2>4
<1>4. labels' \in {labels, landed}
  BY DEF LabelInsert
<1> HIDE DEF landed
<1>5. labels' \in [Records -> Nat]
  BY <1>1, <1>3, <1>4 DEF TypeOK
<1>6. ASSUME ~overlapped
      PROVE  /\ \A r \in Records : labels'[r] <= 1
             /\ \A r \in run[i].left : labels'[r] = 0
  <2>1. /\ \A r \in Records : labels[r] <= 1
        /\ \A r \in run[i].left : labels[r] = 0
        /\ run[i].rec \in Records \ run[i].left /\ labels[run[i].rec] = 0
    BY <1>1, <1>6 DEF LabelSound, LeftUnlabelled
  <2>2. run[i].left \in SUBSET Records
    BY <1>1 DEF TypeOK
  <2> QED BY <1>3, <1>4, <2>1, <2>2
<1>7. CASE run' = [run EXCEPT ![i] = IdleRun]
  BY <1>1, <1>2, <1>5, <1>6, <1>7, RunEnds
<1>8. CASE run' = [run EXCEPT ![i].pc = "book"]
  <2> DEFINE x == [run[i] EXCEPT !.pc = "book"]
  <2>1. x \in RunRec /\ run' = [run EXCEPT ![i] = x]
    BY <1>1, <1>8, RunFields
  <2>2. x.pc = "book" /\ x.left = run[i].left /\ x.cut = run[i].cut
    BY <1>1 DEF TypeOK
  <2> HIDE DEF x
  <2>3. run'[i] = x
    BY <1>1, <2>1, RunUpdate
  <2>4. RunAlone' /\ LabelSound'
    <3>1. ASSUME ~overlapped PROVE LeftUnlabelled(i)'
      BY <1>6, <2>2, <2>3, <3>1 DEF LeftUnlabelled, Running
    <3> QED BY <1>1, <1>2, <1>6, <2>1, <3>1, RunLabels
  <2>5. SpendSound'
    <3>1. i \in PendingRuns
      BY <1>1 DEF PendingRuns
    <3>2. PendingRuns' \in SUBSET PendingRuns /\ PendingEvals' \in SUBSET PendingEvals
      BY <1>1, <1>2, <2>1, <3>1, RunPending
    <3> QED BY <1>1, <1>2, <3>2, SpendShrinks DEF TypeOK
  <2>6. ~x.cut => lock = i
    BY <1>1, <2>2 DEF UncutHolds
  <2>7. errors' \in 0 .. MaxErrors /\ spent' \in Nat
    BY <1>1, <1>2, ErrorsBounded DEF TypeOK
  <2>8. overlapped' \in BOOLEAN
    BY <1>1, <1>2 DEF TypeOK
  <2> QED BY <1>2, <1>5, <2>1, <2>4, <2>5, <2>6, <2>7, <2>8, RunStep
<1> QED BY <1>7, <1>8 DEF LabelInsert

\* The judge's call is booked, or the booking fails unnoticed.
LEMMA BookStep ==
  ASSUME IInv, NEW i \in Instances, LabelBook(i)
  PROVE  IInv'
<1> DEFINE x == [run[i] EXCEPT !.pc = "next", !.rec = Nobody]
<1>1. TypeOK /\ LabelSound /\ SpendSound /\ Running(i) /\ i \in PendingRuns
  BY DEF IInv, LabelBook, Running, PendingRuns
<1>2. UNCHANGED <<leaderVars, eval, nights, overlapped, labels>> /\ (Works \/ Fails)
  BY DEF LabelBook, AddSpend
<1>3. spent \in Nat /\ spent' \in {spent, spent + 1}
  BY <1>1 DEF LabelBook, AddSpend, TypeOK
<1>4. x \in RunRec /\ run' = [run EXCEPT ![i] = x]
  BY <1>1, RunFields DEF LabelBook
<1>5. x.pc = "next" /\ x.left = run[i].left /\ x.cut = run[i].cut
  BY <1>1 DEF TypeOK
<1> HIDE DEF x
<1>6. run'[i] = x
  BY <1>1, <1>4, RunUpdate
<1>7. ASSUME ~overlapped PROVE LeftUnlabelled(i)'
  BY <1>1, <1>2, <1>5, <1>6, <1>7 DEF LabelSound, LeftUnlabelled, Running
<1>8. SpendSound'
  <2>1. PendingRuns' = PendingRuns \ {i} /\ PendingEvals' = PendingEvals
    BY <1>1, <1>2, <1>4, <1>5, RunPending
  <2> QED BY <1>1, <1>3, <2>1, RunBooked
<1>9. spent' \in Nat
  BY <1>3
<1> QED BY <1>1, <1>2, <1>4, <1>5, <1>7, <1>8, <1>9, RunGoesOn

-----------------------------------------------------------------------------
\* A process that ends takes its run and its evaluations with it; what they had spent is
\* never booked, and the key stays until it expires.
LEMMA ExitStep ==
  ASSUME IInv, NEW i \in Instances, Exit(i)
  PROVE  IInv'
<1>1. /\ TypeOK /\ UncutHolds /\ RunAlone /\ LabelSound /\ SpendSound /\ ScoreOfRightAnswer
      /\ IdleRun \in RunRec /\ IdleEval \in EvalRec
  BY IdleTyped DEF IInv
<1>2. run' = [run EXCEPT ![i] = IdleRun] /\ run' \in [Instances -> RunRec]
      /\ run'[i] = IdleRun /\ \A j \in Instances \ {i} : run'[j] = run[j]
  BY <1>1, RunUpdate DEF Exit
<1>3. /\ eval' \in [Evals -> EvalRec]
      /\ \A e \in Evals : eval'[e] = IdleEval \/ eval'[e] = eval[e]
  <2>1. eval \in [Evals -> EvalRec]
    BY <1>1 DEF TypeOK, EvalRec
  <2> QED BY <1>1, <2>1 DEF Exit
<1>4. UNCHANGED <<lock, lease, spent, labels, overlapped, errors, nights>>
  BY DEF Exit
<1>5. TypeOK'
  <2>1. up' \subseteq Instances /\ leading' \in [Instances -> BOOLEAN]
        /\ lpc' \in [Instances -> {"idle", "acquire", "lost", "release", "quit"}]
    BY <1>1 DEF TypeOK, Exit
  <2> QED BY <1>1, <1>2, <1>3, <1>4, <2>1 DEF TypeOK, RunRec, EvalRec
<1>6. UncutHolds'
  BY <1>1, <1>2, <1>4 DEF UncutHolds, Running, IdleRun
<1>7. RunAlone' /\ LabelSound'
  <2>1. \A j \in Instances : Running(j)' => Running(j) /\ run'[j] = run[j]
    BY <1>2 DEF Running, IdleRun
  <2>2. RunAlone'
    BY <1>1, <1>4, <2>1 DEF RunAlone
  <2>3. ASSUME ~overlapped, NEW j \in Instances PROVE LeftUnlabelled(j)'
    <3>1. LeftUnlabelled(j)
      BY <1>1, <2>3 DEF LabelSound
    <3>2. CASE j = i
      BY <1>2, <3>2 DEF LeftUnlabelled, IdleRun
    <3>3. CASE j # i
      BY <1>2, <1>4, <3>1, <3>3 DEF LeftUnlabelled, Running
    <3> QED BY <3>2, <3>3
  <2> QED BY <1>1, <1>4, <2>2, <2>3 DEF LabelSound
<1>8. SpendSound'
  <2>1. PendingRuns' \in SUBSET PendingRuns /\ PendingEvals' \in SUBSET PendingEvals
    BY <1>2, <1>3 DEF PendingRuns, PendingEvals, IdleRun, IdleEval
  <2> QED BY <1>1, <1>4, <2>1, SpendShrinks DEF TypeOK
<1>9. ScoreOfRightAnswer'
  BY <1>1, <1>3 DEF ScoreOfRightAnswer, IdleEval
<1> QED BY <1>5, <1>6, <1>7, <1>8, <1>9 DEF IInv

\* A step of one evaluation.
LEMMA EvalStep ==
  ASSUME IInv, NEW e \in Evals, NEW x \in EvalRec, eval' = [eval EXCEPT ![e] = x],
         UNCHANGED <<leaderVars, run, labels, overlapped, nights>>, Works \/ Fails,
         spent' \in Nat, SpendSound', x.pc = "insert" => x.res \in {x.truth, "tie"}
  PROVE  IInv'
<1>1. TypeOK /\ UncutHolds /\ RunAlone /\ LabelSound /\ ScoreOfRightAnswer
  BY DEF IInv
<1>2. /\ eval' \in [Evals -> EvalRec] /\ eval'[e] = x
      /\ \A d \in Evals \ {e} : eval'[d] = eval[d]
  BY <1>1, EvalUpdate
<1>3. errors' \in 0 .. MaxErrors
  BY <1>1, ErrorsBounded
<1>4. TypeOK'
  BY <1>1, <1>2, <1>3 DEF TypeOK, EvalRec, leaderVars
<1>5. UncutHolds' /\ RunAlone' /\ LabelSound'
  BY <1>1 DEF UncutHolds, RunAlone, LabelSound, LeftUnlabelled, Running, leaderVars
<1>6. ScoreOfRightAnswer'
  BY <1>1, <1>2 DEF ScoreOfRightAnswer
<1> QED BY <1>4, <1>5, <1>6 DEF IInv

\* The judge's answer, turned back, is about the answers as they are.
LEMMA JudgedRight ==
  ASSUME NEW truth \in Answers, NEW swapped \in BOOLEAN, NEW res \in EvaluateRouting(truth, swapped)
  PROVE  res \in {truth, "tie"}
<1>1. CASE swapped
  BY <1>1 DEF EvaluateRouting, Scored, Swap, Answers
<1>2. CASE ~swapped
  BY <1>2 DEF EvaluateRouting, Scored
<1> QED BY <1>1, <1>2

\* The steps of an evaluation: within the limit at its start, booked at its end.
LEMMA EvalSteps ==
  ASSUME IInv, NEW e \in Evals, EvalStart(e) \/ EvalInsert(e) \/ EvalBook(e)
  PROVE  IInv'
<1>1. TypeOK /\ SpendSound /\ IdleEval \in EvalRec /\ IdleEval.pc = "idle"
  BY IdleTyped DEF IInv, IdleEval
<1>2. spent \in Nat /\ eval[e] \in EvalRec /\ PendingRuns \in SUBSET Instances
  BY <1>1 DEF TypeOK, EvalRec, PendingRuns
<1>3. CASE EvalStart(e)
  <2>0. PICK truth \in Answers, swapped \in BOOLEAN :
          \E res \in EvaluateRouting(truth, swapped) :
            eval' = [eval EXCEPT ![e] = [pc |-> "insert", truth |-> truth, res |-> res]]
    BY <1>3 DEF EvalStart
  <2>1. PICK res \in EvaluateRouting(truth, swapped) :
          eval' = [eval EXCEPT ![e] = [pc |-> "insert", truth |-> truth, res |-> res]]
    BY <2>0
  <2> DEFINE x == [pc |-> "insert", truth |-> truth, res |-> res]
  <2>2. x \in EvalRec /\ x.res \in {x.truth, "tie"}
    BY JudgedRight DEF EvalRec
  <2> HIDE DEF x
  <2>3. UNCHANGED <<leaderVars, run, labels, overlapped, nights, spent>> /\ Works
    BY <1>3 DEF EvalStart, Works
  <2>4. SpendSound'
    <3>1. Instances # {}
      BY LeaderAssumption
    <3>2. PendingRuns' \in SUBSET Instances /\ PendingEvals' \in SUBSET Evals
      BY DEF PendingRuns, PendingEvals
    <3> QED BY <1>2, <1>3, <2>3, <3>1, <3>2, SpendStarts DEF EvalStart
  <2> QED BY <1>2, <2>1, <2>2, <2>3, <2>4, EvalStep DEF x
<1>4. CASE EvalInsert(e)
  <2> DEFINE x == [eval[e] EXCEPT !.pc = "book"]
  <2>1. x \in EvalRec /\ x.pc = "book"
    BY <1>2 DEF EvalRec
  <2>2. eval' = [eval EXCEPT ![e] = x] \/ eval' = [eval EXCEPT ![e] = IdleEval]
    BY <1>4 DEF EvalInsert
  <2> HIDE DEF x
  <2>3. UNCHANGED <<leaderVars, run, labels, overlapped, nights, spent>> /\ (Works \/ Fails)
    BY <1>4 DEF EvalInsert
  <2>4. SpendSound'
    <3>1. e \in PendingEvals /\ \A d \in Evals \ {e} : eval'[d] = eval[d]
      BY <1>1, <1>4, <2>1, <2>2, EvalUpdate DEF EvalInsert, PendingEvals
    <3>2. PendingRuns' \in SUBSET PendingRuns /\ PendingEvals' \in SUBSET PendingEvals
      BY <2>3, <3>1 DEF PendingRuns, PendingEvals
    <3> QED BY <1>1, <1>2, <2>3, <3>2, SpendShrinks
  <2> QED BY <1>1, <1>2, <2>1, <2>2, <2>3, <2>4, EvalStep
<1>5. CASE EvalBook(e)
  <2>1. UNCHANGED <<leaderVars, run, labels, overlapped, nights>> /\ (Works \/ Fails)
        /\ spent' \in {spent, spent + 1} /\ eval' = [eval EXCEPT ![e] = IdleEval]
    BY <1>5 DEF EvalBook, AddSpend
  <2>2. SpendSound'
    <3>1. e \in PendingEvals /\ eval'[e] = IdleEval /\ \A d \in Evals \ {e} : eval'[d] = eval[d]
      BY <1>1, <1>5, <2>1, EvalUpdate DEF EvalBook, PendingEvals
    <3>2. PendingRuns' = PendingRuns /\ PendingEvals' = PendingEvals \ {e}
      BY <1>1, <2>1, <3>1 DEF PendingRuns, PendingEvals
    <3> QED BY <1>1, <1>2, <2>1, <3>1, <3>2, EvalBooked
  <2>3. spent' \in Nat
    BY <1>2, <2>1
  <2> QED BY <1>1, <2>1, <2>2, <2>3, EvalStep
<1> QED BY <1>3, <1>4, <1>5

\* The counter of a new day begins at zero, whatever is pending.
LEMMA MidnightStep ==
  ASSUME IInv, Midnight
  PROVE  IInv'
<1>1. TypeOK /\ UncutHolds /\ RunAlone /\ LabelSound /\ SpendSound /\ ScoreOfRightAnswer
  BY DEF IInv
<1>2. UNCHANGED <<leaderVars, run, labels, eval, overlapped, errors>> /\ spent' = 0
  BY DEF Midnight
<1>3. TypeOK'
  <2>1. nights' \in 0 .. MaxNights /\ spent' \in Nat
    BY <1>1, LeaderAssumption DEF Midnight, TypeOK
  <2> QED BY <1>1, <1>2, <2>1 DEF TypeOK, leaderVars
<1>4. UncutHolds' /\ RunAlone' /\ LabelSound'
  BY <1>1, <1>2 DEF UncutHolds, RunAlone, LabelSound, LeftUnlabelled, Running, leaderVars
<1>5. SpendSound'
  <2>1. PendingRuns' = PendingRuns /\ PendingEvals' = PendingEvals
    BY <1>2 DEF PendingRuns, PendingEvals
  <2> QED BY <1>1, <1>2, <2>1, SpendShrinks DEF TypeOK
<1>6. ScoreOfRightAnswer'
  BY <1>1, <1>2 DEF ScoreOfRightAnswer
<1> QED BY <1>3, <1>4, <1>5, <1>6 DEF IInv

-----------------------------------------------------------------------------
\* Every step keeps the invariant.
LEMMA NextStep ==
  ASSUME IInv, [Next]_vars
  PROVE  IInv'
<1>1. CASE UNCHANGED vars
  <2>1. UNCHANGED <<leaderVars, workVars, overlapped, errors, nights>>
    BY <1>1 DEF vars
  <2>2. /\ TypeOK' /\ UncutHolds'
        /\ UNCHANGED <<spent, labels, eval, overlapped, run>>
    BY <2>1 DEF IInv, TypeOK, UncutHolds, Running, leaderVars, workVars
  <2> QED BY <2>2, WorkKept
<1>2. ASSUME NEW i \in Instances, Step(i) \/ Release(i) \/ Released(i) \/ Exit(i)
      PROVE  IInv'
  BY <1>2, LeaderStep, LapseStep, ExitStep
<1>3. ASSUME NEW i \in Instances, LabelStart(i) \/ LabelRun(i)
      PROVE  IInv'
  BY <1>3, StartStep, FetchStep, JudgeStep, InsertStep, BookStep DEF LabelRun
<1>4. ASSUME NEW e \in Evals, EvalStart(e) \/ EvalRun(e)
      PROVE  IInv'
  BY <1>4, EvalSteps DEF EvalRun
<1>5. CASE Tick
  BY <1>5, LapseStep
<1>6. CASE Midnight
  BY <1>6, MidnightStep
<1> QED BY <1>1, <1>2, <1>3, <1>4, <1>5, <1>6 DEF Next

\* The invariant holds in every reachable state.
THEOREM Inductive == Spec => []IInv
  BY InitSound, NextStep, PTL DEF Spec

\* A day's booked spend passes the limit by at most one estimate for each further worker
\* of all processes: CanSpend and AddSpend share only the counter.
THEOREM SpendStaysBounded == Spec => []SpendBounded
<1>1. ASSUME IInv PROVE SpendBounded
  <2>1. PendingRuns \in SUBSET Instances /\ PendingEvals \in SUBSET Evals
    BY DEF PendingRuns, PendingEvals
  <2>2. Cardinality(PendingRuns) \in Nat /\ Cardinality(PendingEvals) \in Nat
    BY <2>1, PendingSizes
  <2> QED BY <1>1, <2>2, CeilingType DEF IInv, TypeOK, SpendSound, SpendBounded
<1> QED BY <1>1, Inductive, PTL

\* Two processes label at once only when the lease was lost under one of them: RunOnce
\* asks IsLeader at its start and never again.
THEOREM OverlapNeedsLapse == Spec => []RunsOverlapOnlyAfterLapse
<1>1. ASSUME IInv PROVE RunsOverlapOnlyAfterLapse
  BY <1>1 DEF IInv, UncutHolds, RunsOverlapOnlyAfterLapse
<1> QED BY <1>1, Inductive, PTL

\* Without overlapping runs no shadow record gets a second judge label, also when an
\* insert failed or seemed to.
THEOREM RecordsLabelledOnce == Spec => []LabelledOnce
<1>1. ASSUME IInv PROVE LabelledOnce
  BY <1>1 DEF IInv, LabelSound, LabelledOnce
<1> QED BY <1>1, Inductive, PTL

\* What EvaluateRouting stores is the judge's opinion of the right answer, or a tie.
THEOREM ScoresTurnedBack == Spec => []ScoreOfRightAnswer
<1>1. ASSUME IInv PROVE ScoreOfRightAnswer
  BY <1>1 DEF IInv
<1> QED BY <1>1, Inductive, PTL

-----------------------------------------------------------------------------
\* A step on the Redis key is a step of the lease: SETNX grants it, the renew script
\* extends it for its holder, the release script gives it back for its holder.
LEMMA LeaseStep ==
  ASSUME TypeOK, NEW i \in Instances, Step(i) \/ Release(i) \/ Released(i) \/ Exit(i)
  PROVE  [Lease!LeaseNext]_(Lease!leaseVars)
<1> DEFINE granted == {j \in up : lpc[j] = "acquire"}
           believers == {j \in up : leading[j]}
<1>1. /\ up \subseteq Instances /\ lpc \in [Instances -> {"idle", "acquire", "lost", "release", "quit"}]
      /\ leading \in [Instances -> BOOLEAN]
  BY DEF TypeOK
<1>2. CASE StepAcquire(i)
  <2>1. CASE lock = Nobody /\ lock' = i /\ lease' = TTL
    <3>1. believers' = believers
      BY <1>2 DEF StepAcquire
    <3>2. granted' \in {granted, granted \cup {i}}
      BY <1>1, <1>2 DEF StepAcquire
    <3>3. Lease!Grant(i)
      BY <2>1, <3>1, <3>2 DEF Lease!Grant
    <3> QED BY <3>3 DEF Lease!LeaseNext
  <2>2. CASE UNCHANGED <<lock, lease, lpc>>
    BY <1>2, <2>2 DEF StepAcquire, Lease!leaseVars
  <2> QED BY <1>2, <2>1, <2>2 DEF StepAcquire
<1>3. CASE StepRenew(i)
  <2>1. granted' = granted /\ believers' = believers /\ lock' = lock
    BY <1>1, <1>3 DEF StepRenew
  <2>2. CASE lock = i /\ lease' = TTL
    <3>1. Lease!Extend(i)
      BY <2>1, <2>2 DEF Lease!Extend
    <3> QED BY <3>1 DEF Lease!LeaseNext
  <2>3. CASE lease' = lease
    BY <2>1, <2>3 DEF Lease!leaseVars
  <2> QED BY <1>3, <2>2, <2>3 DEF StepRenew
<1>4. CASE StepReply(i)
  <2>1. UNCHANGED <<lock, lease, up>>
    BY <1>4 DEF StepReply
  <2>2. CASE lpc[i] = "acquire"
    <3>1. i \in granted /\ granted' = granted \ {i} /\ believers' = believers \cup {i}
      BY <1>1, <1>4, <2>2 DEF StepReply
    <3>2. Lease!Believe(i)
      BY <2>1, <3>1 DEF Lease!Believe
    <3> QED BY <3>2 DEF Lease!LeaseNext
  <2>3. CASE lpc[i] = "lost"
    <3>1. granted' = granted \ {i} /\ believers' = believers \ {i}
      BY <1>1, <1>4, <2>3 DEF StepReply
    <3>2. Lease!Quit(i)
      BY <2>1, <3>1 DEF Lease!Quit
    <3> QED BY <3>2 DEF Lease!LeaseNext
  <2> QED BY <1>4, <2>2, <2>3 DEF StepReply
<1>5. CASE Release(i)
  <2>1. granted' = granted /\ believers' = believers
    BY <1>1, <1>5 DEF Release
  <2>2. CASE leading[i] /\ lock = i /\ lock' = Nobody /\ lease' = 0
    <3>1. i \in believers
      BY <1>5, <2>2 DEF Release
    <3>2. Lease!GiveBack(i)
      BY <2>1, <2>2, <3>1 DEF Lease!GiveBack
    <3> QED BY <3>2 DEF Lease!LeaseNext
  <2>3. CASE UNCHANGED <<lock, lease>>
    BY <2>1, <2>3 DEF Lease!leaseVars
  <2> QED BY <1>5, <2>2, <2>3 DEF Release
<1>6. CASE Released(i) \/ Exit(i)
  <2>1. UNCHANGED <<lock, lease>> /\ granted' = granted \ {i} /\ believers' = believers \ {i}
    BY <1>1, <1>6 DEF Released, Exit
  <2>2. Lease!Quit(i)
    BY <2>1 DEF Lease!Quit
  <2> QED BY <2>2 DEF Lease!LeaseNext
<1> QED BY <1>2, <1>3, <1>4, <1>5, <1>6 DEF Step

\* The Redis key with its TTL and its two scripts implements the lease: one holder, passed
\* on only through "free", given up early only by its holder, and a belief in leading that
\* only an own SETNX starts.
THEOREM ImplementsLease == Spec => LeaseImplemented
<1>1. Init => Lease!LeaseInit
  BY DEF Init, Lease!LeaseInit
<1>2. ASSUME TypeOK, [Next]_vars PROVE [Lease!LeaseNext]_(Lease!leaseVars)
  <2>1. CASE Tick
    <3>1. UNCHANGED <<up, lpc, leading>>
      BY <2>1 DEF Tick
    <3>2. Lease!Age
      BY <2>1, <3>1 DEF Tick, Lease!Age
    <3> QED BY <3>2 DEF Lease!LeaseNext
  <2>2. CASE UNCHANGED leaderVars
    BY <2>2 DEF leaderVars, Lease!leaseVars
  <2>3. ASSUME NEW i \in Instances, LabelStart(i) \/ LabelRun(i) PROVE UNCHANGED leaderVars
    BY <2>3 DEF LabelStart, LabelRun, LabelFetch, LabelJudge, LabelInsert, LabelBook
  <2>4. ASSUME NEW e \in Evals, EvalStart(e) \/ EvalRun(e) PROVE UNCHANGED leaderVars
    BY <2>4 DEF EvalStart, EvalRun, EvalInsert, EvalBook
  <2>5. CASE Midnight \/ UNCHANGED vars
    BY <2>2, <2>5 DEF Midnight, vars
  <2> QED BY <1>2, <2>1, <2>2, <2>3, <2>4, <2>5, LeaseStep DEF Next
<1>3. IInv => TypeOK
  BY DEF IInv
<1> QED BY <1>1, <1>2, <1>3, Inductive, PTL DEF Spec, LeaseImplemented, Lease!LeaseSpec
=============================================================================
