------------------------------ MODULE MCServer ------------------------------
(* Values for the constants of Server.                                     *)
EXTENDS Server, TLC

\* A document that gives the targets and nothing else.
Plain ==
  [file |-> "ok", listen |-> <<>>, targets |-> <<"a", "b">>, strategy |-> <<>>,
   healthCheck |-> <<>>, methods |-> <<>>, cacheEnabled |-> <<>>,
   maxEntries |-> <<>>, ttl |-> <<>>, maxQueue |-> <<>>, maxConcurrent |-> <<>>,
   enqueueTimeout |-> <<>>, queueWaitHeader |-> <<>>, tls |-> <<>>,
   logFile |-> "ok", levels |-> [l \in Range(Levels) |-> <<>>], lokiURL |-> Blank]

\* Variations of it, one section at a time.
MCDocuments ==
  {[Plain EXCEPT !.file = f] : f \in {"missing", "no proxy section"}}
  \cup {[Plain EXCEPT !.targets = t] : t \in {<<>>, <<"a">>, <<"a", "no scheme">>}}
  \cup {[Plain EXCEPT !.strategy = s, !.healthCheck = h] :
          s \in {<<Blank>>, <<"lc">>, <<"least_conn">>}, h \in {<<>>, <<TRUE>>, <<FALSE>>}}
  \cup {[Plain EXCEPT !.methods = <<Blank, "get", "GET", "PUT">>, !.listen = <<Blank>>]}
  \cup {[Plain EXCEPT !.cacheEnabled = <<m = 5>>, !.maxEntries = <<m>>, !.ttl = <<t>>] :
          m \in {0, 5}, t \in {"0s", "5s", "soon"}}
  \cup {[Plain EXCEPT !.maxQueue = <<q>>, !.maxConcurrent = <<5 - q>>,
                      !.enqueueTimeout = <<t>>] :
          q \in {0, 5}, t \in {Blank, "-5s", "5s", "soon"}}
  \cup {[Plain EXCEPT !.tls = <<TRUE>>, !.logFile = "unusable"]}
  \cup {[Plain EXCEPT !.levels = l, !.lokiURL = u] :
          l \in {[info |-> <<>>, debug |-> <<FALSE>>, error |-> <<TRUE>>],
                 [info |-> <<FALSE>>, debug |-> <<FALSE>>, error |-> <<FALSE>>]},
          u \in {"http://loki", "http://loki/push"}}
=============================================================================
