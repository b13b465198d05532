------------------------------- MODULE Logging -------------------------------
(***************************************************************************)
(* internal/log/logHelpers.go and logProxy.go: the log lines of a request, *)
(* each printed locally and pushed to Loki by Emit.  The first push of the *)
(* process reads the level toggles and the Loki URL from the configuration *)
(* file under a sync.Once, while other goroutines are printing: the        *)
(* toggles are plain variables, and a goroutine that has not been through  *)
(* the Once reads them as they are.  A push waits for Loki, 200 ms at most.*)
(***************************************************************************)
EXTENDS Config

CONSTANT Goroutines   \* goroutines that serve a request each, and log

VARIABLES
  toggles,   \* toggles[level]: infoEnabled, debugEnabled, errorEnabled
  lokiURL,   \* "" until the Once is done, or if Loki is not configured
  once,      \* the Once: 0 unused, 1..3 before the toggle of that rank, 4 done
  runner,    \* the goroutine inside the Once, {} if none
  lines,     \* lines[g]: levels of the lines g still has to emit
  emit,      \* emit[g]: "idle", "print", "once", "push" or "done"
  through,   \* history: goroutines that have been through the Once
  strays,    \* history: who printed a line of a level configured off, and
             \* whether before or after going through the Once
  pushed     \* history: level and URL of every push

logVars == <<toggles, lokiURL, once, runner, lines, emit, through, strays, pushed>>

Levels == <<"info", "debug", "error">>     \* in the order of the assignments

\* Is the level on, once the configuration is read?
ConfiguredOn(level) ==
  doc.logFile = "ok" => Given(doc.levels[level], TRUE, BOOLEAN)

\* loki_url with the push path appended unless it is there.
Normalized(url) == IF url = "http://loki" THEN "http://loki/push" ELSE url
ConfiguredURL == IF doc.logFile = "ok" THEN Normalized(doc.lokiURL) ELSE Blank

\* The package variables, and goroutines that have not logged yet.
FreshLog ==
  [toggles |-> [level \in Range(Levels) |-> TRUE], lokiURL |-> Blank, once |-> 0,
   runner |-> {}, lines |-> [g \in Goroutines |-> <<>>],
   emit |-> [g \in Goroutines |-> "idle"],
   through |-> {}, strays |-> {}, pushed |-> {}]

LogInit ==
  /\ toggles = FreshLog.toggles /\ lokiURL = FreshLog.lokiURL
  /\ once = FreshLog.once /\ runner = FreshLog.runner
  /\ lines = FreshLog.lines /\ emit = FreshLog.emit
  /\ through = FreshLog.through /\ strays = FreshLog.strays
  /\ pushed = FreshLog.pushed

\* A new process starts with them again.
LogReset ==
  /\ toggles' = FreshLog.toggles /\ lokiURL' = FreshLog.lokiURL
  /\ once' = FreshLog.once /\ runner' = FreshLog.runner
  /\ lines' = FreshLog.lines /\ emit' = FreshLog.emit
  /\ through' = FreshLog.through /\ strays' = FreshLog.strays
  /\ pushed' = FreshLog.pushed

-----------------------------------------------------------------------------
(* The lines of a request.                                                 *)

LogProxyRequest == <<"info", "debug">>
LogProxyRequestCacheHit == <<"info", "debug">>
LogProxyError == <<"error">>

\* A response of status 400 or more is logged as an error too.
LogProxyResponseCacheHit(failed) ==
  <<"info", "debug">> \o (IF failed THEN <<"error">> ELSE <<>>)

\* What one request logs: a hit, an answer relayed, a request that the queue
\* turns away, one that finds no target and one whose round trip fails.
RequestLines ==
  {LogProxyRequestCacheHit \o LogProxyResponseCacheHit(FALSE),
   LogProxyRequest \o LogProxyResponseCacheHit(TRUE),
   LogProxyRequest,
   LogProxyError,
   LogProxyRequest \o LogProxyError}

StartLogging(g) ==
  /\ emit[g] = "idle"
  /\ lines' \in {[lines EXCEPT ![g] = l] : l \in RequestLines}
  /\ emit' = [emit EXCEPT ![g] = "print"]
  /\ UNCHANGED <<toggles, lokiURL, once, runner, through, strays, pushed>>

-----------------------------------------------------------------------------
(* Emit.                                                                   *)

Level(g) == Head(lines[g])

\* levelEnabled, read without synchronisation.
PrintLocally(g) ==
  /\ emit[g] = "print"
  /\ strays' = IF toggles[Level(g)] /\ ~ConfiguredOn(Level(g))
                 THEN strays \cup {<<g, IF g \in through THEN "after" ELSE "before">>}
                 ELSE strays
  /\ emit' = [emit EXCEPT ![g] = "once"]
  /\ UNCHANGED <<toggles, lokiURL, once, runner, lines, through, pushed>>

\* Mutant: initLoki reports an unusable file through Emit, inside the Once.
BeginInitReports(g) ==
  /\ emit[g] = "once" /\ once = 0
  /\ once' = 1
  /\ runner' = IF doc.logFile = "ok" THEN {g} ELSE {}
  /\ UNCHANGED <<toggles, lokiURL, lines, emit, through, strays, pushed>>

\* lokiOnce.Do(initLoki), first caller: nothing to do without a readable file.
BeginInit(g) ==
  /\ emit[g] = "once" /\ once = 0
  /\ once' = IF doc.logFile = "ok" THEN 1 ELSE 4
  /\ runner' = IF doc.logFile = "ok" THEN {g} ELSE {}
  /\ UNCHANGED <<toggles, lokiURL, lines, emit, through, strays, pushed>>

\* Mutant: the URL is taken as it is.
InitLokiRaw(g) ==
  /\ runner = {g} /\ once \in 1..3
  /\ toggles' = [toggles EXCEPT ![Levels[once]] = Given(doc.levels[Levels[once]], @, BOOLEAN)]
  /\ lokiURL' = IF once = 3 THEN doc.lokiURL ELSE lokiURL
  /\ runner' = IF once = 3 THEN {} ELSE {g}
  /\ once' = once + 1
  /\ UNCHANGED <<lines, emit, through, strays, pushed>>

\* The rest of initLoki: the toggles, then the URL, which nobody reads before.
InitLoki(g) ==
  /\ runner = {g} /\ once \in 1..3
  /\ toggles' = [toggles EXCEPT ![Levels[once]] = Given(doc.levels[Levels[once]], @, BOOLEAN)]
  /\ lokiURL' = IF once = 3 THEN Normalized(doc.lokiURL) ELSE lokiURL
  /\ runner' = IF once = 3 THEN {} ELSE {g}
  /\ once' = once + 1
  /\ UNCHANGED <<lines, emit, through, strays, pushed>>

\* Do returns, in every caller, when initLoki has.
PassOnce(g) ==
  /\ emit[g] = "once" /\ once = 4
  /\ emit' = [emit EXCEPT ![g] = "push"]
  /\ through' = through \cup {g}
  /\ UNCHANGED <<toggles, lokiURL, once, runner, lines, strays, pushed>>

\* The push, if there is one, is answered, fails or times out: Emit returns.
Push(g) ==
  /\ emit[g] = "push"
  /\ pushed' = IF lokiURL # Blank /\ toggles[Level(g)]
                 THEN pushed \cup {<<Level(g), lokiURL>>} ELSE pushed
  /\ lines' = [lines EXCEPT ![g] = Tail(@)]
  /\ emit' = [emit EXCEPT ![g] = IF Len(lines[g]) > 1 THEN "print" ELSE "done"]
  /\ UNCHANGED <<toggles, lokiURL, once, runner, through, strays>>

Emit(g) == PrintLocally(g) \/ BeginInit(g) \/ InitLoki(g) \/ PassOnce(g) \/ Push(g)

-----------------------------------------------------------------------------
(* Properties.                                                             *)

\* Loki gets lines of the levels that are configured on only, at the push
\* path, whichever goroutine came first; and a goroutine that has been through
\* the Once prints no line of a level that is configured off.
LogsAsConfigured ==
  /\ \A p \in pushed : ConfiguredOn(p[1]) /\ p[2] = ConfiguredURL
  /\ \A g \in Goroutines : <<g, "after">> \notin strays

-----------------------------------------------------------------------------
(* What the documentation says and the code does not do.                   *)

\* "Toggle emission for each log level to both local output and Loki"
\* (config.yaml:90) and "prints locally (if enabled and level allowed)"
\* (logHelpers.go:69): no line of a level that is configured off is printed.
OffLevelsAreSilent == strays = {}
=============================================================================
