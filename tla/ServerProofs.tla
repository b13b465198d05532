---------------------------- MODULE ServerProofs ----------------------------
(***************************************************************************)
(* What holds of the process that serves, for every set of documents, any  *)
(* number of goroutines and any number of starts: it serves as configured, *)
(* never falls back to HTTP silently, never overwrites a usable            *)
(* certificate pair, and logs what the configuration asks for although the *)
(* first lines race with its reading.                                      *)
(***************************************************************************)
EXTENDS Server, TLAPS

-----------------------------------------------------------------------------
(* Logging.                                                                *)

LevelNames == {"info", "debug", "error"}
EmitStates == {"idle", "print", "once", "push", "done"}

LogTypeOK ==
  /\ toggles \in [LevelNames -> BOOLEAN]
  /\ once \in 0..4
  /\ emit \in [Goroutines -> EmitStates]
  /\ through \subseteq Goroutines
  /\ lines \in [Goroutines -> Seq(LevelNames)]

\* A goroutine that emits has a line to emit.
HasLine == \A g \in Goroutines : emit[g] \in {"print", "once", "push"} => lines[g] # <<>>

\* A toggle has its default until initLoki has passed it, and the configured
\* value from then on; the URL is there when initLoki is done.
TogglesRead ==
  /\ once \in 1..3 => doc.logFile = "ok"
  /\ \A n \in 1..3 : toggles[Levels[n]] <=> (n < once => ConfiguredOn(Levels[n]))
  /\ lokiURL = IF once = 4 THEN ConfiguredURL ELSE Blank

\* Whoever pushes, or has been through the Once, has waited for its end.
ThroughOnce ==
  \A g \in Goroutines :
    emit[g] = "push" \/ g \in through => once = 4

LogInv == LogTypeOK /\ HasLine /\ TogglesRead /\ ThroughOnce /\ LogsAsConfigured

LEMMA LevelsByRank ==
  /\ Levels[1] = "info" /\ Levels[2] = "debug" /\ Levels[3] = "error"
  /\ DOMAIN Levels = 1..3
  /\ Range(Levels) = LevelNames
  /\ \A n \in 1..3 : Levels[n] \in LevelNames
  /\ \A level \in LevelNames : \E n \in 1..3 : Levels[n] = level
  /\ \A m, n \in 1..3 : Levels[m] = Levels[n] => m = n
<1>1. Levels[1] = "info" /\ Levels[2] = "debug" /\ Levels[3] = "error"
  BY DEF Levels
<1>2. DOMAIN Levels = 1..3
  BY DEF Levels
<1>3. \A n \in 1..3 : n = 1 \/ n = 2 \/ n = 3
  OBVIOUS
<1>4. /\ \A n \in 1..3 : Levels[n] \in LevelNames
      /\ \A level \in LevelNames : \E n \in 1..3 : Levels[n] = level
      /\ \A m, n \in 1..3 : Levels[m] = Levels[n] => m = n
  BY <1>1, <1>3 DEF LevelNames
<1>5. Range(Levels) = LevelNames
  BY <1>2, <1>4 DEF Range
<1>6. QED
  BY <1>1, <1>2, <1>4, <1>5

LEMMA RequestsHaveLines == \A l \in RequestLines : l \in Seq(LevelNames) /\ l # <<>>
<1>1. /\ <<"info", "debug">> \in Seq(LevelNames) /\ <<"info", "debug">> # <<>>
      /\ <<"error">> \in Seq(LevelNames) /\ <<"error">> # <<>>
      /\ <<>> \in Seq(LevelNames)
  BY DEF LevelNames
<1>2. \A s, t \in Seq(LevelNames) :
        s \o t \in Seq(LevelNames) /\ (s # <<>> => s \o t # <<>>)
  OBVIOUS
<1>3. \A b \in BOOLEAN : LogProxyResponseCacheHit(b) \in Seq(LevelNames)
  BY <1>1, <1>2 DEF LogProxyResponseCacheHit
<1>4. QED
  BY <1>1, <1>2, <1>3
     DEF RequestLines, LogProxyRequestCacheHit, LogProxyRequest, LogProxyError

\* A process that starts satisfies it, whatever the document.
LEMMA FreshLogIsFine == LogInit => LogInv
<1> SUFFICES ASSUME LogInit PROVE LogInv
  OBVIOUS
<1>1. /\ toggles = [level \in LevelNames |-> TRUE] /\ lokiURL = Blank /\ once = 0
      /\ lines = [g \in Goroutines |-> <<>>] /\ emit = [g \in Goroutines |-> "idle"]
      /\ through = {} /\ strays = {} /\ pushed = {}
  BY LevelsByRank DEF LogInit, FreshLog
<1>2. LogTypeOK
  BY <1>1 DEF LogTypeOK, EmitStates
<1>3. HasLine
  BY <1>1 DEF HasLine
<1>4. TogglesRead
  BY <1>1, LevelsByRank DEF TogglesRead
<1>5. ThroughOnce /\ LogsAsConfigured
  BY <1>1 DEF ThroughOnce, LogsAsConfigured
<1>6. QED
  BY <1>2, <1>3, <1>4, <1>5 DEF LogInv

LEMMA ResetIsFine == LogReset /\ UNCHANGED doc => LogInv'
<1> SUFFICES ASSUME LogReset, doc' = doc PROVE LogInv'
  OBVIOUS
<1>1. /\ toggles' = [level \in LevelNames |-> TRUE] /\ lokiURL' = Blank /\ once' = 0
      /\ lines' = [g \in Goroutines |-> <<>>] /\ emit' = [g \in Goroutines |-> "idle"]
      /\ through' = {} /\ strays' = {} /\ pushed' = {}
  BY LevelsByRank DEF LogReset, FreshLog
<1>2. LogTypeOK'
  BY <1>1 DEF LogTypeOK, EmitStates
<1>3. HasLine'
  BY <1>1 DEF HasLine
<1>4. TogglesRead'
  BY <1>1, LevelsByRank DEF TogglesRead
<1>5. ThroughOnce' /\ LogsAsConfigured'
  BY <1>1 DEF ThroughOnce, LogsAsConfigured
<1>6. QED
  BY <1>2, <1>3, <1>4, <1>5 DEF LogInv

\* With everything read, a toggle is what is configured.
LEMMA ReadWhenDone ==
  ASSUME LogInv, once = 4, NEW level \in LevelNames
  PROVE  toggles[level] <=> ConfiguredOn(level)
<1>1. PICK n \in 1..3 : Levels[n] = level
  BY LevelsByRank
<1>2. n < once
  OBVIOUS
<1>3. QED
  BY <1>1, <1>2 DEF LogInv, TogglesRead

LEMMA StartLoggingStep ==
  ASSUME LogInv, NEW g \in Goroutines, StartLogging(g), doc' = doc
  PROVE  LogInv'
<1>1. PICK l \in RequestLines : lines' = [lines EXCEPT ![g] = l]
  BY DEF StartLogging
<1>2. l \in Seq(LevelNames) /\ l # <<>>
  BY RequestsHaveLines
<1>3. LogTypeOK' /\ HasLine'
  BY <1>1, <1>2 DEF StartLogging, LogInv, LogTypeOK, HasLine, EmitStates
<1>4. TogglesRead'
  BY DEF StartLogging, LogInv, TogglesRead, ConfiguredOn, ConfiguredURL
<1>5. ThroughOnce'
  BY DEF StartLogging, LogInv, LogTypeOK, ThroughOnce
<1>6. LogsAsConfigured'
  BY DEF StartLogging, LogInv, LogsAsConfigured, ConfiguredOn, ConfiguredURL
<1>7. QED
  BY <1>3, <1>4, <1>5, <1>6 DEF LogInv

\* A line of a level configured off is printed only before the Once.
LEMMA PrintLocallyStep ==
  ASSUME LogInv, NEW g \in Goroutines, PrintLocally(g), doc' = doc
  PROVE  LogInv'
<1>1. Level(g) \in LevelNames
  BY DEF PrintLocally, LogInv, LogTypeOK, HasLine, Level
<1>2. \A h \in Goroutines : <<h, "after">> \notin strays'
  <2>1. \A h \in Goroutines : <<h, "after">> \notin strays
    BY DEF LogInv, LogsAsConfigured
  <2>2. CASE g \in through
    <3>1. once = 4
      BY <2>2 DEF LogInv, ThroughOnce
    <3>2. strays' = strays
      BY <1>1, <3>1, ReadWhenDone DEF PrintLocally
    <3>3. QED
      BY <2>1, <3>2
  <2>3. CASE g \notin through
    <3>1. strays' \subseteq strays \cup {<<g, "before">>}
      BY <2>3 DEF PrintLocally
    <3>2. \A h \in Goroutines : <<h, "after">> # <<g, "before">>
      OBVIOUS
    <3>3. QED
      BY <2>1, <3>1, <3>2
  <2>4. QED
    BY <2>2, <2>3
<1>3. \A h \in Goroutines : h # g => emit'[h] = emit[h]
  BY DEF PrintLocally, LogInv, LogTypeOK
<1>4. /\ emit'[g] = "once" /\ emit[g] = "print"
      /\ emit' \in [Goroutines -> EmitStates]
  BY DEF PrintLocally, LogInv, LogTypeOK, EmitStates
<1>5. LogTypeOK'
  BY <1>4 DEF PrintLocally, LogInv, LogTypeOK
<1>6. HasLine'
  BY <1>3, <1>4 DEF PrintLocally, LogInv, HasLine
<1>7. TogglesRead'
  BY DEF PrintLocally, LogInv, TogglesRead, ConfiguredOn, ConfiguredURL
<1>8. ThroughOnce'
  BY <1>3, <1>4 DEF PrintLocally, LogInv, ThroughOnce
<1>9. LogsAsConfigured'
  BY <1>2 DEF PrintLocally, LogInv, LogsAsConfigured, ConfiguredOn, ConfiguredURL
<1>10. QED
  BY <1>5, <1>6, <1>7, <1>8, <1>9 DEF LogInv

LEMMA BeginInitStep ==
  ASSUME LogInv, NEW g \in Goroutines, BeginInit(g), doc' = doc
  PROVE  LogInv'
<1>1. /\ once = 0 /\ once' = IF doc.logFile = "ok" THEN 1 ELSE 4
      /\ UNCHANGED <<toggles, lokiURL, lines, emit, through, strays, pushed>>
  BY DEF BeginInit
<1>2. LogTypeOK' /\ HasLine'
  BY <1>1 DEF LogInv, LogTypeOK, HasLine
<1>3. \A n \in 1..3 : toggles[Levels[n]] = TRUE
  <2> TAKE n \in 1..3
  <2>1. ~(n < 0) /\ toggles[Levels[n]] \in BOOLEAN
    BY LevelsByRank DEF LogInv, LogTypeOK
  <2>2. QED
    BY <1>1, <2>1 DEF LogInv, TogglesRead
<1>4. ~(doc.logFile = "ok") => ConfiguredURL = Blank /\ \A n \in 1..3 : ConfiguredOn(Levels[n])
  BY DEF ConfiguredURL, ConfiguredOn
<1>5. lokiURL = Blank
  BY <1>1 DEF LogInv, TogglesRead
<1>6. TogglesRead'
  <2>1. ConfiguredURL' = ConfiguredURL /\ \A n \in 1..3 : ConfiguredOn(Levels[n])' <=> ConfiguredOn(Levels[n])
    BY DEF ConfiguredURL, ConfiguredOn
  <2>2. CASE doc.logFile = "ok"
    <3>1. \A n \in 1..3 : ~(n < 1)
      OBVIOUS
    <3>2. QED
      BY <1>1, <1>3, <1>5, <2>2, <3>1 DEF TogglesRead
  <2>3. CASE ~(doc.logFile = "ok")
    BY <1>1, <1>3, <1>4, <1>5, <2>1, <2>3 DEF TogglesRead
  <2>4. QED
    BY <2>2, <2>3
<1>7. ThroughOnce'
  BY <1>1 DEF LogInv, ThroughOnce
<1>8. LogsAsConfigured'
  BY <1>1 DEF LogInv, LogsAsConfigured, ConfiguredOn, ConfiguredURL
<1>9. QED
  BY <1>2, <1>6, <1>7, <1>8 DEF LogInv

\* initLoki assigns the toggle of the next rank, and after the last one the URL.
LEMMA InitLokiStep ==
  ASSUME LogInv, NEW g \in Goroutines, InitLoki(g), doc' = doc
  PROVE  LogInv'
<1> DEFINE level == Levels[once]
<1>1. /\ once \in 1..3 /\ once' = once + 1 /\ doc.logFile = "ok"
      /\ toggles' = [toggles EXCEPT ![level] = Given(doc.levels[level], toggles[level], BOOLEAN)]
      /\ lokiURL' = IF once = 3 THEN Normalized(doc.lokiURL) ELSE lokiURL
      /\ UNCHANGED <<lines, emit, through, strays, pushed>>
  BY DEF InitLoki, LogInv, TogglesRead
<1>2. level \in LevelNames /\ toggles \in [LevelNames -> BOOLEAN]
  BY <1>1, LevelsByRank DEF LogInv, LogTypeOK
<1>3. toggles[level] = TRUE
  <2>1. ~(once < once)
    BY <1>1
  <2>2. QED
    BY <1>1, <1>2, <2>1 DEF LogInv, TogglesRead
<1> DEFINE new == Given(doc.levels[level], TRUE, BOOLEAN)
<1>4. new \in BOOLEAN /\ (new <=> ConfiguredOn(level))
  BY <1>1 DEF Given, ConfiguredOn
<1> HIDE DEF new
<1>5. toggles' = [toggles EXCEPT ![level] = new]
  BY <1>1, <1>3 DEF new
<1>6. LogTypeOK' /\ HasLine'
  BY <1>1, <1>2, <1>4, <1>5 DEF LogInv, LogTypeOK, HasLine
<1>7. \A n \in 1..3 : toggles'[Levels[n]] <=> (n < once' => ConfiguredOn(Levels[n]))
  <2> SUFFICES ASSUME NEW n \in 1..3
               PROVE  toggles'[Levels[n]] <=> (n < once + 1 => ConfiguredOn(Levels[n]))
    BY <1>1
  <2>1. Levels[n] \in LevelNames
    BY LevelsByRank
  <2>2. CASE n = once
    <3>1. toggles'[Levels[n]] = new
      BY <1>2, <1>5, <2>2
    <3>2. n < once + 1
      BY <2>2
    <3>3. QED
      BY <1>4, <2>2, <3>1, <3>2
  <2>3. CASE n # once
    <3>1. Levels[n] # level
      BY <1>1, <2>3, LevelsByRank
    <3>2. toggles'[Levels[n]] = toggles[Levels[n]]
      BY <1>2, <1>5, <2>1, <3>1
    <3>3. n < once + 1 <=> n < once
      BY <1>1, <2>3
    <3>4. QED
      BY <3>2, <3>3 DEF LogInv, TogglesRead
  <2>4. QED
    BY <2>2, <2>3
<1>8. \A n \in 1..3 : ConfiguredOn(Levels[n])' <=> ConfiguredOn(Levels[n])
  BY DEF ConfiguredOn
<1>9. lokiURL' = IF once' = 4 THEN ConfiguredURL' ELSE Blank
  BY <1>1 DEF ConfiguredURL, LogInv, TogglesRead
<1>10. TogglesRead'
  BY <1>1, <1>7, <1>8, <1>9 DEF TogglesRead
<1>11. ThroughOnce'
  BY <1>1 DEF LogInv, ThroughOnce
<1>12. LogsAsConfigured'
  BY <1>1 DEF LogInv, LogsAsConfigured, ConfiguredOn, ConfiguredURL
<1>13. QED
  BY <1>6, <1>10, <1>11, <1>12 DEF LogInv

LEMMA PassOnceStep ==
  ASSUME LogInv, NEW g \in Goroutines, PassOnce(g), doc' = doc
  PROVE  LogInv'
<1>1. LogTypeOK' /\ HasLine' /\ ThroughOnce'
  BY DEF PassOnce, LogInv, LogTypeOK, HasLine, ThroughOnce, EmitStates
<1>2. TogglesRead'
  BY DEF PassOnce, LogInv, TogglesRead, ConfiguredOn, ConfiguredURL
<1>3. LogsAsConfigured'
  BY DEF PassOnce, LogInv, LogsAsConfigured, ConfiguredOn, ConfiguredURL
<1>4. QED
  BY <1>1, <1>2, <1>3 DEF LogInv

\* A push reads what the Once has left, and sends what is configured.
LEMMA PushStep ==
  ASSUME LogInv, NEW g \in Goroutines, Push(g), doc' = doc
  PROVE  LogInv'
<1>1. once = 4 /\ once' = 4 /\ toggles' = toggles /\ lokiURL' = lokiURL
  BY DEF Push, LogInv, ThroughOnce
<1>2. lines[g] # <<>> /\ lines[g] \in Seq(LevelNames)
  BY DEF Push, LogInv, LogTypeOK, HasLine
<1>3. Level(g) \in LevelNames /\ Tail(lines[g]) \in Seq(LevelNames)
  BY <1>2 DEF Level
<1>4. Len(lines[g]) > 1 => Tail(lines[g]) # <<>>
  <2> DEFINE n == Len(lines[g])
             m == Len(Tail(lines[g]))
  <2>1. n \in Nat /\ m = n - 1
    BY <1>2
  <2>2. Tail(lines[g]) = <<>> => m = 0
    <3>1. Len(<<>>) = 0
      OBVIOUS
    <3>2. QED
      BY <3>1, Zenon
  <2> HIDE DEF n, m
  <2>3. n > 1 => m # 0
    BY <2>1
  <2>4. QED
    BY <2>2, <2>3 DEF n
<1>5. LogTypeOK'
  BY <1>3 DEF Push, LogInv, LogTypeOK, EmitStates
<1>6. HasLine'
  BY <1>4 DEF Push, LogInv, LogTypeOK, HasLine
<1>7. TogglesRead'
  BY DEF Push, LogInv, TogglesRead, ConfiguredOn, ConfiguredURL
<1>8. ThroughOnce'
  BY <1>1 DEF Push, LogInv, LogTypeOK, ThroughOnce
<1>9. LogsAsConfigured'
  <2>1. lokiURL = ConfiguredURL
    BY <1>1 DEF LogInv, TogglesRead
  <2>2. \A p \in pushed' : p \in pushed \/ (p = <<Level(g), lokiURL>> /\ toggles[Level(g)])
    BY DEF Push
  <2>3. toggles[Level(g)] => ConfiguredOn(Level(g))
    BY <1>1, <1>3, ReadWhenDone
  <2>4. \A p \in pushed' : ConfiguredOn(p[1]) /\ p[2] = ConfiguredURL
    BY <2>1, <2>2, <2>3 DEF LogInv, LogsAsConfigured
  <2>5. ConfiguredURL' = ConfiguredURL /\ strays' = strays
    BY DEF Push, ConfiguredURL
  <2>6. \A p \in pushed' : ConfiguredOn(p[1])'
    BY <2>4 DEF ConfiguredOn
  <2>7. QED
    BY <2>4, <2>5, <2>6 DEF LogInv, LogsAsConfigured
<1>10. QED
  BY <1>5, <1>6, <1>7, <1>8, <1>9 DEF LogInv

LEMMA LogUnchanged == LogInv /\ UNCHANGED <<doc, logVars>> => LogInv'
<1> SUFFICES ASSUME LogInv, UNCHANGED <<doc, logVars>> PROVE LogInv'
  OBVIOUS
<1>1. LogTypeOK' /\ HasLine' /\ ThroughOnce'
  BY DEF logVars, LogInv, LogTypeOK, HasLine, ThroughOnce
<1>2. TogglesRead'
  BY DEF logVars, LogInv, TogglesRead, ConfiguredOn, ConfiguredURL
<1>3. LogsAsConfigured'
  BY DEF logVars, LogInv, LogsAsConfigured, ConfiguredOn, ConfiguredURL
<1>4. QED
  BY <1>1, <1>2, <1>3 DEF LogInv

LEMMA LogStep == LogInv /\ [Next]_vars => LogInv'
<1> SUFFICES ASSUME LogInv, [Next]_vars PROVE LogInv'
  OBVIOUS
<1>1. ASSUME NEW g \in Goroutines, Log(g)
      PROVE  LogInv'
  <2>1. doc' = doc /\ (StartLogging(g) \/ Emit(g))
    BY <1>1 DEF Log, serverVars
  <2>2. QED
    BY <2>1, StartLoggingStep, PrintLocallyStep, BeginInitStep, InitLokiStep,
       PassOnceStep, PushStep DEF Emit
<1>2. CASE Restart
  BY <1>2, ResetIsFine DEF Restart
<1>3. CASE Main
  <2>1. UNCHANGED <<doc, logVars>>
    BY <1>3 DEF Main, LoadFatal, Wire, UseFiles, Generate, CreateCert, WriteCert,
                CreateKey, WriteKey, ServeHTTP, ServeHTTPS, ListenFatal
  <2>2. QED
    BY <2>1, LogUnchanged
<1>4. CASE GenerateFails \/ Crash \/ Stopped \/ UNCHANGED vars
  BY <1>4, LogUnchanged DEF GenerateFails, Crash, Stopped, vars, serverVars
<1>5. QED
  BY <1>1, <1>2, <1>3, <1>4 DEF Next

\* The invariant the logging theorem rests on.
THEOREM LogInvariance == Spec => []LogInv
<1>1. Init => LogInv
  BY FreshLogIsFine DEF Init
<1>2. QED
  BY <1>1, LogStep, PTL DEF Spec

\* Loki gets lines of the levels configured on only, at the configured push
\* path, and a goroutine that has been through the Once prints no line of a
\* level configured off, however many goroutines race for the first line.
THEOREM LogsWhatIsConfigured == Spec => []LogsAsConfigured
<1>1. LogInv => LogsAsConfigured
  BY DEF LogInv
<1>2. QED
  BY <1>1, LogInvariance, PTL

-----------------------------------------------------------------------------
(* The certificate files.                                                  *)

States == {"loading", "ensure", "creatingCert", "writingCert", "creatingKey",
           "writingKey", "bindHTTP", "bindHTTPS", "http", "https", "dead"}

TypeOK ==
  /\ pc \in States
  /\ starts \in Nat \ {0}
  /\ cert \in Int /\ key \in Int

\* No file belongs to a pair that no start has generated yet.
NotYetGenerated ==
  /\ cert <= starts + 1 /\ key <= starts + 1
  /\ pc \in {"loading", "ensure", "creatingCert", "writingCert"} =>
       cert <= starts /\ key <= starts
  /\ pc = "creatingKey" => key <= starts

\* How far a generation has come.
HalfWay ==
  /\ pc = "creatingCert" => ~BothExist
  /\ pc = "writingCert" => cert = Partial
  /\ pc \in {"creatingKey", "writingKey"} => cert = starts + 1
  /\ pc = "writingKey" => key = Partial

\* Two files that are no pair are the user's, as provided, or the remains of a
\* generation cut short.
UnusableExplained ==
  (~Generating /\ BothExist /\ ~Usable) => spoiled \/ UsersFiles

\* Plain HTTP is what the document asks for, or the fallback.
PlainOnlyIf == pc \in {"bindHTTP", "http"} => failed \/ ~Settings(doc).tls

FilesInv ==
  /\ TypeOK /\ doc \in Documents
  /\ NotYetGenerated /\ HalfWay /\ UnusableExplained /\ PlainOnlyIf
  /\ pc = "bindHTTPS" => BothExist

LEMMA FilesInitially == Init => FilesInv
BY DEF Init, FilesInv, TypeOK, States, NotYetGenerated, HalfWay, UnusableExplained,
       PlainOnlyIf, BothExist, Generating, Usable, UsersFiles, Absent, Partial,
       UsersPair, UsersOther, Malformed

LEMMA FilesStep == FilesInv /\ [Next]_vars => FilesInv'
<1> SUFFICES ASSUME FilesInv, [Next]_vars PROVE FilesInv'
  OBVIOUS
<1>1. CASE CreateCert
  <2>1. /\ pc = "creatingCert" /\ pc' = "writingCert" /\ cert' = -1
        /\ UNCHANGED <<starts, key>>
    BY <1>1 DEF CreateCert, Goto, Partial
  <2>2. UNCHANGED <<doc, failed, spoiled>>
    BY <1>1 DEF CreateCert
  <2>3. TypeOK' /\ NotYetGenerated'
    BY <2>1 DEF FilesInv, TypeOK, States, NotYetGenerated
  <2>4. HalfWay'
    BY <2>1 DEF FilesInv, TypeOK, HalfWay, BothExist, Absent, Partial
  <2>5. UnusableExplained'
    BY <2>1 DEF FilesInv, TypeOK, HalfWay, UnusableExplained, Generating, Usable,
                   Absent, Partial, Malformed
  <2>6. (pc = "bindHTTPS" => BothExist)'
    BY <2>1 DEF FilesInv, TypeOK, HalfWay, BothExist, Absent
  <2>7. QED
    BY <2>1, <2>2, <2>3, <2>4, <2>5, <2>6 DEF FilesInv, PlainOnlyIf
<1>2. CASE WriteCert
  <2>1. /\ pc = "writingCert" /\ pc' = "creatingKey" /\ cert' = starts + 1
        /\ UNCHANGED <<starts, key>>
    BY <1>2 DEF WriteCert, Goto, Partial
  <2>2. UNCHANGED <<doc, failed, spoiled>>
    BY <1>2 DEF WriteCert
  <2>3. TypeOK' /\ NotYetGenerated'
    BY <2>1 DEF FilesInv, TypeOK, States, NotYetGenerated
  <2>4. HalfWay'
    BY <2>1 DEF FilesInv, TypeOK, HalfWay, BothExist, Absent, Partial
  <2>5. UnusableExplained'
    BY <2>1 DEF FilesInv, TypeOK, HalfWay, UnusableExplained, Generating, Usable,
                   Absent, Partial, Malformed
  <2>6. (pc = "bindHTTPS" => BothExist)'
    BY <2>1 DEF FilesInv, TypeOK, HalfWay, BothExist, Absent
  <2>7. QED
    BY <2>1, <2>2, <2>3, <2>4, <2>5, <2>6 DEF FilesInv, PlainOnlyIf
<1>3. CASE CreateKey
  <2>1. /\ pc = "creatingKey" /\ pc' = "writingKey" /\ key' = -1
        /\ UNCHANGED <<starts, cert>>
    BY <1>3 DEF CreateKey, Goto, Partial
  <2>2. UNCHANGED <<doc, failed, spoiled>>
    BY <1>3 DEF CreateKey
  <2>3. TypeOK' /\ NotYetGenerated'
    BY <2>1 DEF FilesInv, TypeOK, States, NotYetGenerated
  <2>4. HalfWay'
    BY <2>1 DEF FilesInv, TypeOK, HalfWay, BothExist, Absent, Partial
  <2>5. UnusableExplained'
    BY <2>1 DEF FilesInv, TypeOK, HalfWay, UnusableExplained, Generating, Usable,
                   Absent, Partial, Malformed
  <2>6. (pc = "bindHTTPS" => BothExist)'
    BY <2>1 DEF FilesInv, TypeOK, HalfWay, BothExist, Absent
  <2>7. QED
    BY <2>1, <2>2, <2>3, <2>4, <2>5, <2>6 DEF FilesInv, PlainOnlyIf
<1>4. CASE WriteKey
  <2>1. /\ pc = "writingKey" /\ pc' = "bindHTTPS" /\ key' = starts + 1
        /\ UNCHANGED <<starts, cert>>
    BY <1>4 DEF WriteKey, Goto, Partial
  <2>2. UNCHANGED <<doc, failed, spoiled>>
    BY <1>4 DEF WriteKey
  <2>3. TypeOK' /\ NotYetGenerated'
    BY <2>1 DEF FilesInv, TypeOK, States, NotYetGenerated
  <2>4. HalfWay'
    BY <2>1 DEF FilesInv, TypeOK, HalfWay, BothExist, Absent, Partial
  <2>5. UnusableExplained'
    BY <2>1 DEF FilesInv, TypeOK, HalfWay, UnusableExplained, Generating, Usable,
                   Absent, Partial, Malformed
  <2>6. (pc = "bindHTTPS" => BothExist)'
    BY <2>1 DEF FilesInv, TypeOK, HalfWay, BothExist, Absent
  <2>7. QED
    BY <2>1, <2>2, <2>3, <2>4, <2>5, <2>6 DEF FilesInv, PlainOnlyIf
<1> USE DEF FilesInv, TypeOK, States, NotYetGenerated, HalfWay, UnusableExplained,
            PlainOnlyIf, BothExist, Generating, Usable, UsersFiles, Absent,
            Partial, Malformed, fileVars, Goto
<1>5. CASE LoadFatal
  BY <1>5 DEF LoadFatal
<1>6. CASE Wire
  BY <1>6 DEF Wire
<1>7. CASE UseFiles
  BY <1>7 DEF UseFiles
<1>8. CASE Generate
  BY <1>8 DEF Generate
<1>9. CASE ServeHTTP
  BY <1>9 DEF ServeHTTP
<1>10. CASE ServeHTTPS
  BY <1>10 DEF ServeHTTPS
<1>11. CASE ListenFatal
  BY <1>11 DEF ListenFatal
<1>12. CASE GenerateFails
  BY <1>12 DEF GenerateFails
<1>13. CASE Crash
  BY <1>13 DEF Crash
<1>14. CASE Restart
  BY <1>14 DEF Restart
<1>15. CASE UNCHANGED serverVars
  BY <1>15 DEF serverVars
<1>16. QED
  BY <1>1, <1>2, <1>3, <1>4, <1>5, <1>6, <1>7, <1>8, <1>9, <1>10, <1>11, <1>12,
     <1>13, <1>14, <1>15 DEF Next, Main, Log, Stopped, vars

\* The invariant the theorems about the files rest on.
THEOREM FilesInvariance == Spec => []FilesInv
BY FilesInitially, FilesStep, PTL DEF Spec

\* The tls option as the document gives it is the one Load returns.
LEMMA TLSAsGiven ==
  ASSUME NEW d \in Documents
  PROVE  Settings(d).tls <=> Option(d.tls, FALSE)
<1>1. d.tls = <<>> \/ (d.tls = <<d.tls[1]>> /\ d.tls[1] \in BOOLEAN)
  BY DocumentsAssumption DEF IsOption
<1>2. Settings(d).tls = Given(d.tls, FALSE, BOOLEAN)
  BY DEF Settings
<1>3. QED
  BY <1>1, <1>2 DEF Given, Option

\* A proxy configured for TLS serves plain HTTP only after a generation failed
\* in the same start, listens with TLS only when both files exist, and finds
\* them unusable only if the user provided them so or a generation was cut short.
THEOREM DowngradeIsNotSilent == Spec => []NoSilentDowngrade
<1>1. FilesInv => NoSilentDowngrade
  <2> SUFFICES ASSUME FilesInv PROVE NoSilentDowngrade
    OBVIOUS
  <2>1. pc = "http" /\ Option(doc.tls, FALSE) => failed
    BY TLSAsGiven DEF FilesInv, PlainOnlyIf
  <2>2. pc = "bindHTTPS" => BothExist
    BY DEF FilesInv
  <2>3. (pc = "bindHTTPS" /\ ~Usable) => spoiled \/ UsersFiles
    BY DEF FilesInv, UnusableExplained, Generating
  <2>4. QED
    BY <2>1, <2>2, <2>3 DEF NoSilentDowngrade
<1>2. QED
  BY <1>1, FilesInvariance, PTL

\* No step of any start, crash or restart overwrites a certificate and key that
\* belong together.
THEOREM PairsAreKept == Spec => PairIsKept
<1> DEFINE Kept == Usable => UNCHANGED fileVars
<1>1. FilesInv /\ [Next]_vars => [Kept]_vars
  <2> SUFFICES ASSUME FilesInv, Next, Usable
               PROVE  UNCHANGED fileVars
    OBVIOUS
  <2>1. pc \notin {"creatingCert", "writingCert", "creatingKey", "writingKey"}
    BY DEF FilesInv, TypeOK, HalfWay, NotYetGenerated, BothExist, Usable, Absent, Partial
  <2>2. ASSUME NEW g \in Goroutines, Log(g)
        PROVE  UNCHANGED fileVars
    BY <2>2 DEF Log, serverVars
  <2>3. CASE Main
    BY <2>1, <2>3
       DEF Main, LoadFatal, Wire, UseFiles, Generate, CreateCert, WriteCert,
           CreateKey, WriteKey, ServeHTTP, ServeHTTPS, ListenFatal, Goto
  <2>4. QED
    BY <2>2, <2>3 DEF Next, GenerateFails, Crash, Restart, Stopped, vars, serverVars
<1>2. QED
  BY <1>1, FilesInvariance, PTL DEF Spec, PairIsKept

-----------------------------------------------------------------------------
(* The configuration.                                                      *)

\* What serves was built from the document, and the document was accepted.
BuiltFrom ==
  pc \notin {"loading", "dead"} =>
    running = <<Build(Settings(doc))>> /\ ~LoadFails(doc)

LEMMA BuiltInitially == Init => BuiltFrom
BY DEF Init, BuiltFrom

LEMMA BuiltStep == BuiltFrom /\ [Next]_vars => BuiltFrom'
<1> SUFFICES ASSUME BuiltFrom, [Next]_vars PROVE BuiltFrom'
  OBVIOUS
<1> DEFINE B(d) == Build(Settings(d))
           F(d) == LoadFails(d)
<1>1. BuiltFrom <=> (pc \notin {"loading", "dead"} => running = <<B(doc)>> /\ ~F(doc))
  BY DEF BuiltFrom
<1>2. BuiltFrom' <=> (pc' \notin {"loading", "dead"} => running' = <<B(doc')>> /\ ~F(doc'))
  BY DEF BuiltFrom
<1>3. CASE Wire
  BY <1>3 DEF Wire, BuiltFrom
<1> HIDE DEF B, F
<1>4. ASSUME NEW g \in Goroutines, Log(g)
      PROVE  BuiltFrom'
  BY <1>1, <1>2, <1>4 DEF Log, serverVars
<1>5. CASE Main /\ ~Wire
  BY <1>1, <1>2, <1>5
     DEF Main, LoadFatal, UseFiles, Generate, CreateCert, WriteCert, CreateKey,
         WriteKey, ServeHTTP, ServeHTTPS, ListenFatal, Goto
<1>6. CASE GenerateFails \/ Crash \/ Restart \/ Stopped \/ UNCHANGED vars
  BY <1>1, <1>2, <1>6 DEF GenerateFails, Generating, Crash, Restart, Stopped, vars, serverVars
<1>7. QED
  BY <1>3, <1>4, <1>5, <1>6 DEF Next

\* time.ParseDuration gives a number for what it accepts.
LEMMA DurationIsNumber == \A d \in DOMAIN Duration : Duration[d] \in Int
BY DEF Duration

\* Load's settings are what an option says, its default if it says nothing.
LEMMA GivenOption ==
  ASSUME NEW option, NEW type, NEW default \in type, IsOption(option, type)
  PROVE  Given(option, default, type) = Option(option, default)
BY DEF Given, Option, IsOption

\* A positive limit is kept; any other gives way to the default.
LEMMA GivenLimit ==
  ASSUME NEW option, NEW default \in Positive, IsOption(option, Int)
  PROVE  /\ Given(option, default, Positive) \in Positive
         /\ Option(option, 0) > 0 => Given(option, default, Positive) = option[1]
BY DEF Given, Option, IsOption, Positive

\* What main builds from an accepted document, field by field.
LEMMA BuiltAsConfigured ==
  ASSUME NEW d \in Documents, ~LoadFails(d)
  PROVE  LET b == Build(Settings(d))
             p == b.proxy
             q == b.queue
             honours(limit, option) == limit > 0 /\ (Option(option, 0) > 0 => limit = option[1])
         IN /\ p.targets = d.targets /\ p.targets # <<>>
            /\ p.balancer.checks = Option(d.healthCheck, TRUE)
            /\ p.balancer.type = (IF Option(d.strategy, "rr") \in LeastConnectionsNames
                                    THEN "least_connections" ELSE "round_robin")
            /\ p.cacheOn = Option(d.cacheEnabled, TRUE)
            /\ honours(p.capacity, d.maxEntries)
            /\ honours(q.maxQueue, d.maxQueue)
            /\ honours(q.maxConcurrent, d.maxConcurrent)
            /\ q.enqueueTimeout > 0 /\ b.defaultTTL > 0
<1> DEFINE s == Settings(d)
           b == Build(s)
<1>1. /\ b.proxy.targets = s.targets
      /\ b.proxy.cacheOn = s.cacheEnabled
      /\ b.proxy.capacity = IF s.maxEntries <= 0 THEN 1024 ELSE s.maxEntries
      /\ b.proxy.balancer = newBalancer(s.strategy, s.healthCheck)
      /\ b.queue = QueueLimits(s)
      /\ b.defaultTTL = s.ttl
  <2> HIDE DEF s
  <2> QED
    BY DEF Build, NewReverseProxy, ConfigureBalancer, SetHealthCheckEnabled
<1>2. /\ s.targets = d.targets
      /\ s.strategy = Given(d.strategy, "rr", NonBlank)
      /\ s.healthCheck = Given(d.healthCheck, TRUE, BOOLEAN)
      /\ s.cacheEnabled = Given(d.cacheEnabled, TRUE, BOOLEAN)
      /\ s.maxEntries = Given(d.maxEntries, 2048, Positive)
      /\ s.maxQueue = Given(d.maxQueue, 1000, Positive)
      /\ s.maxConcurrent = Given(d.maxConcurrent, 100, Positive)
      /\ s.ttl = IF d.ttl # <<>> /\ PositiveDuration(d.ttl[1]) THEN Duration[d.ttl[1]] ELSE 60
      /\ s.enqueueTimeout = IF d.enqueueTimeout \in {<<>>, <<Blank>>} THEN 2
                            ELSE Duration[d.enqueueTimeout[1]]
  BY DEF Settings
<1> HIDE DEF s, b
<1>3. /\ IsOption(d.strategy, STRING)
      /\ IsOption(d.healthCheck, BOOLEAN) /\ IsOption(d.cacheEnabled, BOOLEAN)
      /\ IsOption(d.maxEntries, Int) /\ IsOption(d.maxQueue, Int)
      /\ IsOption(d.maxConcurrent, Int)
      /\ IsOption(d.ttl, STRING) /\ IsOption(d.enqueueTimeout, STRING)
  BY DocumentsAssumption
<1>4. b.proxy.targets = d.targets /\ d.targets # <<>>
  <2>1. d.targets # <<>>
    BY Zenon DEF LoadFails
  <2>2. QED
    BY <1>1, <1>2, <2>1
<1>5. /\ b.proxy.balancer.checks = Option(d.healthCheck, TRUE)
      /\ b.proxy.cacheOn = Option(d.cacheEnabled, TRUE)
  <2>1. /\ s.healthCheck = Option(d.healthCheck, TRUE)
        /\ s.cacheEnabled = Option(d.cacheEnabled, TRUE)
    <3>1. /\ Given(d.healthCheck, TRUE, BOOLEAN) = Option(d.healthCheck, TRUE)
          /\ Given(d.cacheEnabled, TRUE, BOOLEAN) = Option(d.cacheEnabled, TRUE)
      BY <1>3, GivenOption
    <3>2. /\ s.healthCheck = Given(d.healthCheck, TRUE, BOOLEAN)
          /\ s.cacheEnabled = Given(d.cacheEnabled, TRUE, BOOLEAN)
      BY <1>2
    <3>3. QED
      BY <3>1, <3>2, Zenon
  <2>2. b.proxy.balancer.checks = s.healthCheck
    BY <1>1 DEF newBalancer
  <2>3. QED
    BY <1>1, <2>1, <2>2
<1>6. b.proxy.balancer.type = (IF Option(d.strategy, "rr") \in LeastConnectionsNames
                                 THEN "least_connections" ELSE "round_robin")
  <2>1. Given(d.strategy, "rr", NonBlank) \in LeastConnectionsNames
          <=> Option(d.strategy, "rr") \in LeastConnectionsNames
    BY <1>3 DEF Given, Option, IsOption, NonBlank, Blank, LeastConnectionsNames
  <2>2. QED
    BY <1>1, <1>2, <2>1 DEF newBalancer
<1> DEFINE honours(limit, option) == limit > 0 /\ (Option(option, 0) > 0 => limit = option[1])
<1>7. 2048 \in Positive /\ 1000 \in Positive /\ 100 \in Positive
  BY DEF Positive
<1>8. \A n \in Positive : n \in Int /\ n > 0 /\ ~(n <= 0)
  BY DEF Positive
<1>9. honours(b.proxy.capacity, d.maxEntries)
  <2>1. s.maxEntries \in Positive /\ (Option(d.maxEntries, 0) > 0 => s.maxEntries = d.maxEntries[1])
    BY <1>2, <1>3, <1>7, GivenLimit
  <2>2. QED
    BY <1>1, <1>8, <2>1
<1>10. honours(b.queue.maxQueue, d.maxQueue)
  <2>1. s.maxQueue \in Positive /\ (Option(d.maxQueue, 0) > 0 => s.maxQueue = d.maxQueue[1])
    BY <1>2, <1>3, <1>7, GivenLimit
  <2>2. b.queue.maxQueue = s.maxQueue
    BY <1>1, <1>8, <2>1 DEF QueueLimits
  <2>3. QED
    BY <1>8, <2>1, <2>2
<1>11. honours(b.queue.maxConcurrent, d.maxConcurrent)
  <2>1. s.maxConcurrent \in Positive /\ (Option(d.maxConcurrent, 0) > 0 => s.maxConcurrent = d.maxConcurrent[1])
    BY <1>2, <1>3, <1>7, GivenLimit
  <2>2. b.queue.maxConcurrent = s.maxConcurrent
    BY <1>1, <1>8, <2>1 DEF QueueLimits
  <2>3. QED
    BY <1>8, <2>1, <2>2
<1>12. b.queue.enqueueTimeout > 0
  <2>1. s.enqueueTimeout \in Int
    <3>1. CASE d.enqueueTimeout \in {<<>>, <<Blank>>}
      BY <1>2, <3>1
    <3>2. CASE d.enqueueTimeout \notin {<<>>, <<Blank>>}
      <4>1. d.enqueueTimeout # <<>> /\ d.enqueueTimeout[1] # Blank
        BY <1>3, <3>2 DEF IsOption
      <4>2. d.enqueueTimeout[1] \in DOMAIN Duration
        BY <4>1 DEF LoadFails, Unparsable
      <4>3. QED
        BY <1>2, <3>2, <4>2, DurationIsNumber
    <3>3. QED
      BY <3>1, <3>2
  <2>2. b.queue.enqueueTimeout = IF s.enqueueTimeout <= 0 THEN 2 ELSE s.enqueueTimeout
    BY <1>1 DEF QueueLimits
  <2>3. QED
    BY <2>1, <2>2
<1>13. b.defaultTTL > 0
  BY <1>1, <1>2 DEF PositiveDuration
<1>14. QED
  BY <1>4, <1>5, <1>6, <1>9, <1>10, <1>11, <1>12, <1>13 DEF b, s

\* Whatever the document, a proxy that serves has the settings the document
\* gives, and limits it can work with where it gives none.
THEOREM ServesWhatIsConfigured == Spec => []ServesAsConfigured
<1>1. doc \in Documents /\ BuiltFrom => ServesAsConfigured
  <2> SUFFICES ASSUME doc \in Documents, BuiltFrom, Serving PROVE ServesAsConfigured
    BY DEF ServesAsConfigured
  <2>1. running[1] = Build(Settings(doc)) /\ ~LoadFails(doc)
    BY DEF BuiltFrom, Serving
  <2>2. QED
    BY <2>1, BuiltAsConfigured DEF ServesAsConfigured
<1>2. FilesInv => doc \in Documents
  BY DEF FilesInv
<1>3. QED
  BY <1>1, <1>2, FilesInvariance, BuiltInitially, BuiltStep, PTL DEF Spec
=============================================================================
