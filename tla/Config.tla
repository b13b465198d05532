------------------------------- MODULE Config -------------------------------
(***************************************************************************)
(* internal/config/config.go: Load turns configs/config.yaml and the       *)
(* defaults into settings, and cmd/server/main.go builds the proxy from    *)
(* them.                                                                   *)
(*                                                                         *)
(* A document is a record with a field for each option, <<>> where the     *)
(* option is omitted and <<v>> where it has the value v, and a field       *)
(* "file" that says how far reading it gets.  Durations are strings, as in *)
(* the document.                                                           *)
(***************************************************************************)
EXTENDS Integers, Sequences, Functions

CONSTANT Documents     \* the documents the program may find

VARIABLE doc           \* the one it finds

\* An option is omitted or has one value, of the type YAML decodes it to.
IsOption(option, type) ==
  option = <<>> \/ (option = <<option[1]>> /\ option[1] \in type)

ASSUME DocumentsAssumption ==
  \A d \in Documents :
    /\ IsOption(d.strategy, STRING)
    /\ \A option \in {d.healthCheck, d.cacheEnabled, d.tls} : IsOption(option, BOOLEAN)
    /\ \A option \in {d.maxEntries, d.maxQueue, d.maxConcurrent} : IsOption(option, Int)
    /\ \A option \in {d.ttl, d.enqueueTimeout} : IsOption(option, STRING)

-----------------------------------------------------------------------------
(* Values.                                                                 *)

\* time.ParseDuration, in seconds, for the strings it accepts.
Duration == [d \in {"0s", "5s", "-5s"} |->
               CASE d = "0s" -> 0 [] d = "5s" -> 5 [] d = "-5s" -> -5]

Blank == ""
Unparsable(d) == d # Blank /\ d \notin DOMAIN Duration

\* url.Parse gives the target a scheme and a host.
ValidTarget(t) == t # "no scheme"

NonBlank == STRING \ {Blank}
Positive == Nat \ {0}
PositiveDuration(d) == d \in DOMAIN Duration /\ Duration[d] > 0

\* The option's value, or the default if it is omitted or unusable.
Given(option, default, usable) ==
  IF option # <<>> /\ option[1] \in usable THEN option[1] ELSE default

\* strings.ToUpper of a trimmed method name.
UpperCase == [m \in {"GET", "get", "PUT", Blank} |-> IF m = "get" THEN "GET" ELSE m]

\* Unique upper-case names without the blank ones; their order is not used.
parseMethods(raw) == {UpperCase[m] : m \in Range(raw)} \ {Blank}

DefaultMethods == {"GET", "HEAD", "POST", "PUT", "PATCH", "DELETE"}

-----------------------------------------------------------------------------
(* Load.                                                                   *)

\* Load returns an error, and main exits.
LoadFails(d) ==
  \/ d.file \in {"missing", "unreadable", "malformed", "no proxy section"}
  \/ d.targets = <<>>
  \/ \E n \in DOMAIN d.targets : ~ValidTarget(d.targets[n])
  \/ \E option \in {d.ttl, d.enqueueTimeout} : option # <<>> /\ Unparsable(option[1])

\* The settings Load returns otherwise.  A limit must be positive to count; a
\* parsed enqueue_timeout always does.
Settings(d) ==
  [listen |-> Given(d.listen, ":8080", NonBlank),
   targets |-> d.targets,
   strategy |-> Given(d.strategy, "rr", NonBlank),
   healthCheck |-> Given(d.healthCheck, TRUE, BOOLEAN),
   methods |-> IF d.methods = <<>> THEN DefaultMethods ELSE parseMethods(d.methods),
   cacheEnabled |-> Given(d.cacheEnabled, TRUE, BOOLEAN),
   maxEntries |-> Given(d.maxEntries, 2048, Positive),
   ttl |-> IF d.ttl # <<>> /\ PositiveDuration(d.ttl[1]) THEN Duration[d.ttl[1]] ELSE 60,
   maxQueue |-> Given(d.maxQueue, 1000, Positive),
   maxConcurrent |-> Given(d.maxConcurrent, 100, Positive),
   enqueueTimeout |-> IF d.enqueueTimeout \in {<<>>, <<Blank>>} THEN 2
                      ELSE Duration[d.enqueueTimeout[1]],
   queueWaitHeader |-> Given(d.queueWaitHeader, TRUE, BOOLEAN),
   tls |-> Given(d.tls, FALSE, BOOLEAN)]

-----------------------------------------------------------------------------
(* The proxy main builds: a constructor and setters applied in turn.       *)

LeastConnectionsNames == {"least_conn", "lc", "least-connections", "least_connections"}

newBalancer(strategy, checks) ==
  [type |-> IF strategy \in LeastConnectionsNames
              THEN "least_connections" ELSE "round_robin",
   checks |-> checks]

\* NewReverseProxy, NewReverseProxyMulti and NewLRUCache.
NewReverseProxy(s) ==
  [targets |-> s.targets, cacheOn |-> s.cacheEnabled,
   capacity |-> IF s.maxEntries <= 0 THEN 1024 ELSE s.maxEntries,
   lbStrategy |-> "rr", healthChecksEnabled |-> TRUE,
   balancer |-> newBalancer("rr", TRUE)]

ConfigureBalancer(p, strategy) ==
  [p EXCEPT !.lbStrategy = strategy,
            !.balancer = newBalancer(strategy, p.healthChecksEnabled)]

\* Mutant: the replacement forgets the strategy.
SetHealthCheckForgets(p, enabled) ==
  [p EXCEPT !.healthChecksEnabled = enabled, !.balancer = newBalancer("rr", enabled)]

SetHealthCheckEnabled(p, enabled) ==
  [p EXCEPT !.healthChecksEnabled = enabled,
            !.balancer = newBalancer(p.lbStrategy, enabled)]

\* SetAllowedMethods: an empty list allows every method, here {}.
AllowedMethods(s) == s.methods

\* WithQueue's own defaults.
QueueLimits(s) ==
  [maxQueue |-> IF s.maxQueue <= 0 THEN 1024 ELSE s.maxQueue,
   maxConcurrent |-> IF s.maxConcurrent <= 0 THEN 128 ELSE s.maxConcurrent,
   enqueueTimeout |-> IF s.enqueueTimeout <= 0 THEN 2 ELSE s.enqueueTimeout,
   waitHeader |-> s.queueWaitHeader]

\* main, up to startServer.
Build(s) ==
  LET p == SetHealthCheckEnabled(ConfigureBalancer(NewReverseProxy(s), s.strategy),
                                 s.healthCheck)
  IN [proxy |-> p, allowed |-> AllowedMethods(s), queue |-> QueueLimits(s),
      defaultTTL |-> s.ttl, listen |-> s.listen]
=============================================================================
