---------------------------- MODULE ControlLoop ----------------------------
(***************************************************************************)
(* How a configuration and its overrides become the runtime that requests  *)
(* are served with, in every gateway process: start-up and the rebuild     *)
(* closure of cmd/proofgate/main.go, the file watcher (config/watch.go),   *)
(* the override poller (server/overrides.go), the override table           *)
(* (store/overrides.go), the quality monitors that write rollbacks into it *)
(* (proof/monitor.go, cache_monitor.go, runner.go) and the operator's      *)
(* CacheApply (server/proof_admin.go).                                     *)
(*                                                                         *)
(* Which process leads is ProofLeader's matter; here any running process   *)
(* may find itself leading when its monitor ticks.  The monitors'          *)
(* statistics are abstracted to the verdict they reach on the stored rows. *)
(***************************************************************************)
EXTENDS Config

CONSTANTS
    Instances,   \* gateway processes
    Files,       \* what the YAML file may be replaced by
    Content,     \* [Files -> [known_fields, config]]
    Env,         \* the processes' environment
    Leftovers,   \* sets of rows the override table may hold at the start
    Applied,     \* thresholds an operator applies
    MaxEdits, MaxApplies, MaxErrors, MaxRestarts   \* bounds

\* The table's primary key.
OneRowPerKey(rows) == \A o, p \in rows : o.route = p.route /\ o.key = p.key => o = p
Rows(rows) == OneRowPerKey(rows) /\ \A o \in rows : o.route \in Text

ASSUME ControlAssumption ==
    /\ Content \in [Files -> [known_fields : BOOLEAN, config : ConfigFile]]
    /\ \A rows \in Leftovers : Rows(rows)
    /\ {MaxEdits, MaxApplies, MaxErrors, MaxRestarts} \subseteq Nat

VARIABLES
    file,        \* the YAML file on disk
    ovs,         \* route_overrides: set of [route, key, value]
    phase,       \* "down", "loaded" (before the watcher exists) or "up"
    fileCfg,     \* the file whose configuration rebuild starts from
    lastSum,     \* the watcher's hash: the file it last looked at
    lastOvs,     \* the overrides rebuild lays over it
    runtime,     \* what the runtime in server.State was built from: [file, ovs]
    wpc,         \* watcher and reload, one at a time: "idle" or "rebuild"
    poll,        \* poller: [pc, seen]
    mon,         \* monitor: <<route, key>> still to be judged in this tick
    apply,       \* CacheApply: {} or the row still to be written
    edits, applies, errors, restarts

procVars == <<phase, fileCfg, lastSum, lastOvs, runtime, wpc, poll, mon>>
counters == <<edits, applies, errors, restarts>>
vars == <<file, ovs, procVars, apply, counters>>

IdlePoll == [pc |-> "idle", seen |-> {}]
Row(r, k, v) == [route |-> r, key |-> k, value |-> v]

\* SetOverride: one row per route and key.
Upsert(rows, o) == {p \in rows : <<p.route, p.key>> # <<o.route, o.key>>} \cup {o}
RouteNames == UNION {{Content[f].config.routes[k].name : k \in DOMAIN Content[f].config.routes} : f \in Files}

Works == errors' = errors
Fails == errors < MaxErrors /\ errors' = errors + 1

Good == {f \in Files : Parses(Content[f], Env)}
Cfg == [f \in Good |-> Parsed(Content[f], Env)]
Startable == {f \in Good : ~LintErrors(Cfg[f]) /\ Registers(Cfg[f])}

BuiltFrom(f, rows) == [file |-> f, ovs |-> rows]
RuntimeConfig(i) == ApplyOverrides(Cfg[runtime[i].file], runtime[i].ovs)

Init ==
    /\ file \in Startable
    /\ ovs \in Leftovers
    /\ phase = [i \in Instances |-> "down"]
    /\ fileCfg = [i \in Instances |-> file]
    /\ lastSum = [i \in Instances |-> file]
    /\ lastOvs = [i \in Instances |-> {}]
    /\ runtime = [i \in Instances |-> BuiltFrom(file, {})]
    /\ wpc = [i \in Instances |-> "idle"]
    /\ poll = [i \in Instances |-> IdlePoll]
    /\ mon = [i \in Instances |-> {}]
    /\ apply = {}
    /\ edits = 0 /\ applies = 0 /\ errors = 0 /\ restarts = 0

-----------------------------------------------------------------------------
(* Start-up: Load, Lint, BuildRuntime without overrides.                   *)
Load(i) ==
    /\ phase[i] = "down"
    /\ file \in Startable
    /\ phase' = [phase EXCEPT ![i] = "loaded"]
    /\ fileCfg' = [fileCfg EXCEPT ![i] = file]
    /\ runtime' = [runtime EXCEPT ![i] = BuiltFrom(file, {})]
    /\ lastOvs' = [lastOvs EXCEPT ![i] = {}]
    /\ UNCHANGED <<file, ovs, lastSum, wpc, poll, mon, apply, counters>>

(* NewWatcher hashes the file, which it reads anew; then the listeners     *)
(* start, whether or not the first poll is through.                        *)
NewWatcher(i) ==
    /\ phase[i] = "loaded"
    /\ phase' = [phase EXCEPT ![i] = "up"]
    /\ lastSum' = [lastSum EXCEPT ![i] = file]
    /\ UNCHANGED <<file, ovs, fileCfg, lastOvs, runtime, wpc, poll, mon, apply, counters>>

Exit(i) ==
    /\ phase[i] = "up" /\ restarts < MaxRestarts
    /\ restarts' = restarts + 1
    /\ phase' = [phase EXCEPT ![i] = "down"]
    /\ wpc' = [wpc EXCEPT ![i] = "idle"]
    /\ poll' = [poll EXCEPT ![i] = IdlePoll]
    /\ mon' = [mon EXCEPT ![i] = {}]
    /\ UNCHANGED <<file, ovs, fileCfg, lastSum, lastOvs, runtime, apply, edits, applies, errors>>

-----------------------------------------------------------------------------
(* rebuild, under rtMu: overlay, BuildRuntime, swap.  A configuration that *)
(* does not build leaves the runtime as it was.                            *)
\* Mutant of Rebuilt: a reload forgets the overrides.
RebuiltFromFile(i) == [runtime EXCEPT ![i] = BuiltFrom(fileCfg[i], {})]

Rebuilt(i) ==
    IF Registers(ApplyOverrides(Cfg[fileCfg[i]], lastOvs[i]))
      THEN [runtime EXCEPT ![i] = BuiltFrom(fileCfg[i], lastOvs[i])]
      ELSE runtime

(* check: a bad file is remembered, so that it is reported once, and the   *)
(* configuration stays.  The hash lock is held through onChange.           *)
Check(i) ==
    /\ phase[i] = "up" /\ wpc[i] = "idle"
    /\ lastSum' = [lastSum EXCEPT ![i] = file]
    /\ IF file \in Good
         THEN /\ fileCfg' = [fileCfg EXCEPT ![i] = file]
              /\ wpc' = [wpc EXCEPT ![i] = "rebuild"]
         ELSE UNCHANGED <<fileCfg, wpc>>
    /\ UNCHANGED <<file, ovs, phase, lastOvs, runtime, poll, mon, apply, counters>>

Watch(i) == file # lastSum[i] /\ Check(i)

(* POST /admin/reload, here or on another process through the control bus. *)
Reload(i) == Check(i)

WatchRebuild(i) ==
    /\ wpc[i] = "rebuild"
    /\ runtime' = Rebuilt(i)
    /\ wpc' = [wpc EXCEPT ![i] = "idle"]
    /\ UNCHANGED <<file, ovs, phase, fileCfg, lastSum, lastOvs, poll, mon, apply, counters>>

-----------------------------------------------------------------------------
(* PollOverrides: an error keeps the current overrides.                    *)
PollRead(i) ==
    /\ phase[i] = "up" /\ poll[i].pc = "idle"
    /\ \/ Works /\ poll' = [poll EXCEPT ![i] = [pc |-> "apply", seen |-> ovs]]
       \/ Fails /\ poll' = poll
    /\ UNCHANGED <<file, ovs, phase, fileCfg, lastSum, lastOvs, runtime, wpc, mon, apply,
                   edits, applies, restarts>>

\* Mutant of PollApply: compared after the assignment.
PollApplyCompared(i) ==
    /\ poll[i].pc = "apply"
    /\ lastOvs' = [lastOvs EXCEPT ![i] = poll[i].seen]
    /\ poll' = [poll EXCEPT ![i] = IdlePoll]
    /\ UNCHANGED <<file, ovs, phase, fileCfg, lastSum, runtime, wpc, mon, apply, counters>>

(* The poller's callback: compare and keep under rtMu, rebuild on a change. *)
PollApply(i) ==
    /\ poll[i].pc = "apply"
    /\ lastOvs' = [lastOvs EXCEPT ![i] = poll[i].seen]
    /\ poll' = [poll EXCEPT ![i] = IF poll[i].seen = lastOvs[i] THEN IdlePoll
                                                                ELSE [pc |-> "rebuild", seen |-> {}]]
    /\ UNCHANGED <<file, ovs, phase, fileCfg, lastSum, runtime, wpc, mon, apply, counters>>

PollRebuild(i) ==
    /\ poll[i].pc = "rebuild"
    /\ runtime' = Rebuilt(i)
    /\ poll' = [poll EXCEPT ![i] = IdlePoll]
    /\ UNCHANGED <<file, ovs, phase, fileCfg, lastSum, lastOvs, wpc, mon, apply, counters>>

-----------------------------------------------------------------------------
(* MonitorAllRoutes walks the routes of the runtime it loaded and judges   *)
(* what is switched on there.                                              *)
SwitchedOn(c) ==
    {<<c.routes[k].name, "smart_route.mode">> : k \in {j \in DOMAIN c.routes : c.routes[j].smart = "on"}}
    \cup {<<c.routes[k].name, "cache.mode">> : k \in {j \in DOMAIN c.routes : c.routes[j].cache.mode = "on"}}

MonitorTick(i) ==
    /\ phase[i] = "up" /\ mon[i] = {}
    /\ SwitchedOn(RuntimeConfig(i)) # {}
    /\ mon' = [mon EXCEPT ![i] = SwitchedOn(RuntimeConfig(i))]
    /\ UNCHANGED <<file, ovs, phase, fileCfg, lastSum, lastOvs, runtime, wpc, poll, apply, counters>>

(* The mode a regression is answered with.                                 *)
RolledBack(m) == Row(m[1], m[2], IF m[2] = "cache.mode" THEN "shadow" ELSE "off")

(* MonitorQuality and MonitorCacheQuality: too few rows, a bound within    *)
(* the threshold or an error leave the table; otherwise the rollback is    *)
(* written.  An error goes on to the next check.                           *)
MonitorCheck(i) ==
    /\ phase[i] = "up"
    /\ \E m \in mon[i] :
          /\ mon' = [mon EXCEPT ![i] = @ \ {m}]
          /\ ovs' \in {ovs, Upsert(ovs, RolledBack(m))}
    /\ UNCHANGED <<file, phase, fileCfg, lastSum, lastOvs, runtime, wpc, poll, apply, counters>>

-----------------------------------------------------------------------------
(* The file is replaced.                                                   *)
Edit ==
    /\ edits < MaxEdits /\ edits' = edits + 1
    /\ file' \in Files \ {file}
    /\ UNCHANGED <<ovs, procVars, apply, applies, errors, restarts>>

(* CacheApply writes the mode and then, in a transaction of its own, the   *)
(* threshold.                                                              *)
CacheApplyMode ==
    /\ apply = {} /\ applies < MaxApplies /\ applies' = applies + 1
    /\ \E r \in RouteNames, t \in Applied :
          \/ /\ Works
             /\ ovs' = Upsert(ovs, Row(r, "cache.mode", "on"))
             /\ apply' = {Row(r, "cache.threshold", t)}
          \/ Fails /\ UNCHANGED <<ovs, apply>>
    /\ UNCHANGED <<file, procVars, edits, restarts>>

CacheApplyThreshold ==
    /\ \E o \in apply :
          \/ Works /\ ovs' = Upsert(ovs, o)
          \/ Fails /\ ovs' = ovs
    /\ apply' = {}
    /\ UNCHANGED <<file, procVars, edits, applies, restarts>>

Next ==
    \/ \E i \in Instances :
          \/ Load(i) \/ NewWatcher(i) \/ Exit(i)
          \/ Watch(i) \/ Reload(i) \/ WatchRebuild(i)
          \/ PollRead(i) \/ PollApply(i) \/ PollRebuild(i)
          \/ MonitorTick(i) \/ MonitorCheck(i)
    \/ Edit \/ CacheApplyMode \/ CacheApplyThreshold

(* The tickers and the goroutines they drive run; a process that can start *)
(* is started.                                                             *)
Fairness ==
    \A i \in Instances :
       /\ WF_vars(Load(i)) /\ WF_vars(NewWatcher(i))
       /\ WF_vars(Watch(i)) /\ WF_vars(WatchRebuild(i))
       /\ WF_vars(PollRead(i)) /\ WF_vars(PollApply(i)) /\ WF_vars(PollRebuild(i))

Spec == Init /\ [][Next]_vars /\ Fairness

-----------------------------------------------------------------------------
Settled(i) == phase[i] # "down" /\ wpc[i] = "idle" /\ poll[i].pc # "rebuild"

TypeOK ==
    /\ file \in Files
    /\ Rows(ovs)
    /\ phase \in [Instances -> {"down", "loaded", "up"}]
    /\ wpc \in [Instances -> {"idle", "rebuild"}]
    /\ \A i \in Instances : poll[i].pc \in {"idle", "apply", "rebuild"}

(* Two goroutines set the file and the overrides and rebuild, each under   *)
(* the lock but not in one piece: when neither has a rebuild to do, the    *)
(* runtime is the newest file with the newest overrides over it, never one *)
(* with the other's predecessor (main.go's rebuild closure).               *)
RuntimeCurrent ==
    \A i \in Instances : Settled(i) => runtime[i] = BuiltFrom(fileCfg[i], lastOvs[i])

(* Whatever was edited, rejected, overridden or left in the table, the     *)
(* configuration in use passes validation, starts its tickers and sends no *)
(* call to a provider that its registry lacks, but for a target of         *)
(* smart_route while it is on: those are not validated (config.Parse,      *)
(* ApplyOverrides, BuildRuntime, planFor).                                 *)
RuntimeSound ==
    TypeOK /\ \A i \in Instances : phase[i] # "down" =>
       LET c == RuntimeConfig(i) IN validate(c) /\ Starts(c) /\ Registers(c) /\ Routable(c)

(* A rollback a monitor wrote reaches every process: while the row stands, *)
(* none goes on serving with the mode on.                                  *)
ModeOf(c, m) ==
    {IF m[2] = "cache.mode" THEN c.routes[k].cache.mode ELSE c.routes[k].smart :
        k \in {j \in DOMAIN c.routes : c.routes[j].name = m[1]}}

RollbackReaches ==
    \A m \in RouteNames \X {"cache.mode", "smart_route.mode"} : \A i \in Instances :
       <>[](RolledBack(m) \in ovs) => <>[](phase[i] = "up" => "on" \notin ModeOf(RuntimeConfig(i), m))

(* "Watcher polls the config file and calls onChange with each new valid   *)
(* config": a valid file the watcher takes for known is the one loaded.    *)
EveryEditLoaded ==
    \A i \in Instances : phase[i] = "up" /\ lastSum[i] \in Good => fileCfg[i] = lastSum[i]
=============================================================================
