------------------------------- MODULE Server -------------------------------
(***************************************************************************)
(* cmd/server: main loads the configuration (module Config), builds the    *)
(* proxy and listens, with TLS from certificate files that tls.go makes if *)
(* one is missing.  The process may crash at any moment and may be started *)
(* again; the files stay.  While it serves, requests log (module Logging). *)
(***************************************************************************)
EXTENDS Logging

CONSTANT MaxStarts    \* bound on the number of starts

Absent == 0           \* no such file
Partial == -1         \* a file without a complete PEM block
UsersPair == 1        \* a certificate the user put there, and its key
UsersOther == -2      \* the key of another certificate, put there by the user
Malformed == -3       \* a file the user put there that is no PEM file

VARIABLES
  pc,        \* where main stands
  starts,    \* number of starts so far; start n generates pair n + 1
  running,   \* what main built, <<>> before
  cert,      \* contents of the certificate file: the pair it belongs to
  key,       \* contents of the key file
  failed,    \* generateSelfSigned returned an error in this process
  spoiled    \* history: a generation was cut short once, by an error or a crash

fileVars == <<cert, key>>
serverVars == <<doc, pc, starts, running, fileVars, failed, spoiled>>
vars == <<serverVars, logVars>>

\* The user may have provided both files, one of them or none, and they need
\* not belong together: nobody looks into them before they are used.  Without
\* TLS nobody looks at them at all.
Init ==
  /\ doc \in Documents
  /\ pc = "loading"
  /\ starts = 1
  /\ running = <<>>
  /\ cert \in {Absent, UsersPair, Malformed}
  /\ key \in {Absent, UsersPair, UsersOther, Malformed}
  /\ doc.tls # <<TRUE>> => cert = Absent /\ key = Absent
  /\ failed = FALSE
  /\ spoiled = FALSE
  /\ LogInit

Goto(from, to) == pc = from /\ pc' = to

-----------------------------------------------------------------------------
(* main and startServer.                                                   *)

\* config.Load fails: log.Fatal.
LoadFatal ==
  /\ LoadFails(doc)
  /\ Goto("loading", "dead")
  /\ UNCHANGED <<doc, starts, running, fileVars, failed, spoiled, logVars>>

Wire ==
  /\ ~LoadFails(doc)
  /\ Goto("loading", IF Settings(doc).tls THEN "ensure" ELSE "bindHTTP")
  /\ running' = <<Build(Settings(doc))>>
  /\ UNCHANGED <<doc, starts, fileVars, failed, spoiled, logVars>>

BothExist == cert # Absent /\ key # Absent

\* tls.LoadX509KeyPair accepts the two files.
Usable == cert = key /\ cert \notin {Absent, Partial, Malformed}

\* ensureSelfSignedIfMissing finds both files.
UseFiles ==
  /\ BothExist
  /\ Goto("ensure", "bindHTTPS")
  /\ UNCHANGED <<doc, starts, running, fileVars, failed, spoiled, logVars>>

\* ListenAndServe and ListenAndServeTLS, when the address is free.
ServeHTTP ==
  /\ Goto("bindHTTP", "http")
  /\ UNCHANGED <<doc, starts, running, fileVars, failed, spoiled, logVars>>

ServeHTTPS ==
  /\ Usable
  /\ Goto("bindHTTPS", "https")
  /\ UNCHANGED <<doc, starts, running, fileVars, failed, spoiled, logVars>>

\* When it is not, or the files are no pair: log.Fatal.
ListenFatal ==
  /\ pc \in {"bindHTTP", "bindHTTPS"}
  /\ pc' = "dead"
  /\ UNCHANGED <<doc, starts, running, fileVars, failed, spoiled, logVars>>

-----------------------------------------------------------------------------
(* generateSelfSigned, up to each point where it can fail.                 *)

\* Mutant: the certificate is made whenever the key is a file.
GenerateAlways ==
  /\ Goto("ensure", "creatingCert")
  /\ UNCHANGED <<doc, starts, running, fileVars, failed, spoiled, logVars>>

\* Directories, key and certificate are made in memory.
Generate ==
  /\ ~BothExist
  /\ Goto("ensure", "creatingCert")
  /\ UNCHANGED <<doc, starts, running, fileVars, failed, spoiled, logVars>>

CreateCert ==
  /\ Goto("creatingCert", "writingCert")
  /\ cert' = Partial
  /\ UNCHANGED <<doc, starts, running, key, failed, spoiled, logVars>>

WriteCert ==
  /\ Goto("writingCert", "creatingKey")
  /\ cert' = starts + 1
  /\ UNCHANGED <<doc, starts, running, key, failed, spoiled, logVars>>

CreateKey ==
  /\ Goto("creatingKey", "writingKey")
  /\ key' = Partial
  /\ UNCHANGED <<doc, starts, running, cert, failed, spoiled, logVars>>

\* Mutant: the key of another pair is written.
WriteOtherKey ==
  /\ Goto("writingKey", "bindHTTPS")
  /\ key' = starts
  /\ UNCHANGED <<doc, starts, running, cert, failed, spoiled, logVars>>

WriteKey ==
  /\ Goto("writingKey", "bindHTTPS")
  /\ key' = starts + 1
  /\ UNCHANGED <<doc, starts, running, cert, failed, spoiled, logVars>>

Generating == pc \in {"creatingCert", "writingCert", "creatingKey", "writingKey"}

\* Mutant: a failed generation is tried again, and again.
GenerateRetries ==
  /\ Generating
  /\ pc' = "ensure"
  /\ failed' = TRUE
  /\ spoiled' = TRUE
  /\ UNCHANGED <<doc, starts, running, fileVars, logVars>>

\* Any of these fails, and startServer falls back to HTTP.
GenerateFails ==
  /\ Generating
  /\ pc' = "bindHTTP"
  /\ failed' = TRUE
  /\ spoiled' = TRUE
  /\ UNCHANGED <<doc, starts, running, fileVars, logVars>>

-----------------------------------------------------------------------------
(* Requests log; the process ends and starts again.                        *)

Serving == pc \in {"http", "https"}

Log(g) ==
  /\ Serving
  /\ StartLogging(g) \/ Emit(g)
  /\ UNCHANGED serverVars

Crash ==
  /\ pc # "dead"
  /\ pc' = "dead"
  /\ spoiled' = (spoiled \/ Generating)
  /\ UNCHANGED <<doc, starts, running, fileVars, failed, logVars>>

Restart ==
  /\ pc = "dead" /\ starts < MaxStarts
  /\ pc' = "loading"
  /\ starts' = starts + 1
  /\ running' = <<>>
  /\ failed' = FALSE
  /\ LogReset
  /\ UNCHANGED <<doc, fileVars, spoiled>>

Main ==
  \/ LoadFatal \/ Wire \/ UseFiles
  \/ Generate \/ CreateCert \/ WriteCert \/ CreateKey \/ WriteKey
  \/ ServeHTTP \/ ServeHTTPS \/ ListenFatal

Stopped == pc = "dead" /\ starts = MaxStarts /\ UNCHANGED vars

Next ==
  \/ Main \/ GenerateFails
  \/ \E g \in Goroutines : Log(g)
  \/ Crash \/ Restart \/ Stopped

Spec == Init /\ [][Next]_vars

\* main and the goroutines run; Loki's client times out.
FairSpec ==
  /\ Spec
  /\ WF_vars(Main)
  /\ \A g \in Goroutines : WF_vars(Serving /\ Emit(g) /\ UNCHANGED serverVars)

-----------------------------------------------------------------------------
(* Properties.                                                             *)

\* The option as a reader of the document understands it.
Option(option, default) == IF option = <<>> THEN default ELSE option[1]

\* Whatever the document says, a proxy that serves has limits it can work
\* with, and what the document says explicitly survives Load, the order of
\* main's setters and the second defaults of WithQueue and NewLRUCache: both
\* settings of the balancer, the cache switch, and every positive limit.
ServesAsConfigured ==
  Serving =>
    LET p == running[1].proxy
        q == running[1].queue
        honours(limit, option) == limit > 0 /\ (Option(option, 0) > 0 => limit = option[1])
    IN /\ p.targets = doc.targets /\ p.targets # <<>>
       /\ p.balancer.checks = Option(doc.healthCheck, TRUE)
       /\ p.balancer.type = (IF Option(doc.strategy, "rr") \in LeastConnectionsNames
                               THEN "least_connections" ELSE "round_robin")
       /\ p.cacheOn = Option(doc.cacheEnabled, TRUE)
       /\ honours(p.capacity, doc.maxEntries)
       /\ honours(q.maxQueue, doc.maxQueue)
       /\ honours(q.maxConcurrent, doc.maxConcurrent)
       /\ q.enqueueTimeout > 0 /\ running[1].defaultTTL > 0

\* Both files are as the user provided them.
UsersFiles ==
  /\ cert \in {UsersPair, Malformed}
  /\ key \in {UsersPair, UsersOther, Malformed}

\* A proxy configured for TLS serves plain HTTP only if it failed to make a
\* certificate in this very start, and has files to serve HTTPS with
\* (tls.go:59, "should not happen").  A pair of files it cannot use is either
\* the user's own, as it was provided, or the remains of a generation that was
\* cut short: a generation that ends leaves a usable pair.
NoSilentDowngrade ==
  /\ pc = "http" /\ Option(doc.tls, FALSE) => failed
  /\ pc = "bindHTTPS" => BothExist
  /\ (pc = "bindHTTPS" /\ ~Usable) => spoiled \/ UsersFiles

\* A certificate and key that belong together are never overwritten, the
\* user's least of all, by any start, crash and restart.
PairIsKept == [][Usable => UNCHANGED fileVars]_vars

\* Every start comes to an end: the proxy serves, or the process has died.
StartSettles == pc = "loading" ~> Serving \/ pc = "dead"

\* Logging holds no request up for good: whoever starts to emit gets through
\* all its lines although Loki may hang and all wait for one Once, unless the
\* process dies first.
EmitReturns ==
  \A g \in Goroutines : emit[g] = "print" ~> emit[g] = "done" \/ pc = "dead"
=============================================================================
