---------------------------- MODULE CachePolicy ----------------------------
(***************************************************************************)
(* internal/proxy/cache.go: which requests and responses the cache takes   *)
(* part in, and for how long a response stays fresh.                       *)
(*                                                                         *)
(* A Cache-Control header is a sequence of lines, and a line the sequence  *)
(* of its comma-separated segments, each a directive name (trimmed and in  *)
(* lower case) and a value (unquoted, "" if it has none).  The decisions   *)
(* are functions of one request and one response; the specification takes  *)
(* every pair of a bounded set of them.                                    *)
(***************************************************************************)
EXTENDS CacheLifetime, Sequences, SequencesExt

CONSTANTS RequestNames,    \* directive names clients send
          ResponseNames,   \* directive names upstreams send
          Values,          \* directive values upstreams send
          MaxSegments      \* bound on the length of a header line

ASSUME PolicyAssumption == MaxSegments \in Nat

VARIABLES request, response, verdict

policyVars == <<request, response, verdict>>

-----------------------------------------------------------------------------
(* Headers.                                                                *)

Segments(names, values) ==
  UNION {[1..n -> [name : names, value : values]] : n \in 0..MaxSegments}

\* A second line, as some intermediaries append one of their own.
NoStoreLine == <<[name |-> "no-store", value |-> ""]>>

\* Headers of one line or of two; an absent header counts as an empty line,
\* for which Header.Get returns "" too.
Headers(names, values) ==
  LET first == Segments(names, values)
  IN {<<h>> : h \in first} \cup {<<h, NoStoreLine>> : h \in first}

\* Header.Get returns the first of the lines with this name and no other.
Get(lines) == lines[1]

Names(header) == {header[n].name : n \in DOMAIN header}

\* Mutant: only the first segment is read.
parseFirstSegment(header) ==
  [name \in {header[n].name : n \in DOMAIN header \cap {1}} |-> header[1].value]

\* Mutant: an earlier segment wins over a later one of its name.
parseFirstWins(header) ==
  [name \in Names(header) |->
     LET first == CHOOSE n \in DOMAIN header :
                    /\ header[n].name = name
                    /\ \A m \in DOMAIN header : header[m].name = name => m >= n
     IN header[first].value]

\* parseCacheControl: a later segment replaces an earlier one of its name.
parseCacheControl(header) ==
  [name \in Names(header) |->
     LET last == CHOOSE n \in DOMAIN header :
                   /\ header[n].name = name
                   /\ \A m \in DOMAIN header : header[m].name = name => m <= n
     IN header[last].value]

\* time.ParseDuration(v + "s"), in seconds, for the values it accepts.
Seconds == [v \in {"0", "2", "5", "-1"} |->
              CASE v = "0" -> 0 [] v = "2" -> 2 [] v = "5" -> 5 [] v = "-1" -> -1]

Parses(v) == v \in DOMAIN Seconds

-----------------------------------------------------------------------------
(* Requests.                                                               *)

isCacheableRequest(req) ==
  LET directives == Names(Get(req.cacheControl))
  IN /\ "no-store" \notin directives
     /\ "no-cache" \notin directives
     /\ req.authorization => "public" \in directives

clientNoCache(req) ==
  \/ Names(Get(req.cacheControl)) \cap {"no-cache", "no-store"} # {}
  \/ req.pragmaNoCache

\* isRequestEligibleForCache, with the cache switched on.
Eligible(req) == isCacheableRequest(req) /\ ~clientNoCache(req)

-----------------------------------------------------------------------------
(* Responses.                                                              *)

CacheableStatus == {200, 203, 204, 300, 301, 404, 410}

\* Expires: absent or unparsable (0), already past (-1), or seconds ahead.
isCacheableResponse(resp) ==
  LET cc == parseCacheControl(Get(resp.cacheControl))
      usable(name) == name \in DOMAIN cc /\ Parses(cc[name])
  IN IF resp.status \notin CacheableStatus \/ "no-store" \in DOMAIN cc
       THEN [ok |-> FALSE, ttl |-> 0]
       ELSE [ok |-> TRUE,
             ttl |-> CASE usable("s-maxage") -> Seconds[cc["s-maxage"]]
                       [] ~usable("s-maxage") /\ usable("max-age") ->
                            Seconds[cc["max-age"]]
                       [] OTHER -> IF resp.expires > 0 THEN resp.expires
                                   ELSE DefaultCacheTTL]

\* X-Cache, and the lifetime with which the response is stored: 0 if it is not.
Decision(req, resp) ==
  LET r == isCacheableResponse(resp)
      store == Eligible(req) /\ r.ok
  IN [xCache |-> IF store THEN "MISS" ELSE "BYPASS",
      lifetime |-> IF store THEN SetTTL(r.ttl) ELSE 0]

-----------------------------------------------------------------------------
Undecided == [xCache |-> "none", lifetime |-> 0]

PolicyInit ==
  /\ request \in [cacheControl : Headers(RequestNames, {""}),
                  authorization : BOOLEAN, pragmaNoCache : BOOLEAN]
  /\ response \in [cacheControl : Headers(ResponseNames, Values),
                   status : {200, 500}, expires : {-1, 0, 5}]
  /\ verdict = Undecided

\* serveUpstream relays the response and caches it or not.
Decide ==
  /\ verdict = Undecided
  /\ verdict' = Decision(request, response)
  /\ UNCHANGED <<request, response>>

Decided == verdict # Undecided /\ UNCHANGED policyVars

PolicyNext == Decide \/ Decided

PolicySpec == PolicyInit /\ [][PolicyNext]_policyVars

-----------------------------------------------------------------------------
(* Properties.                                                             *)

\* The order of the segments does not matter as long as no directive is
\* repeated: s-maxage is preferred to max-age in either order.
OrderIrrelevant ==
  LET line == Get(response.cacheControl)
  IN (verdict # Undecided /\
        \A m, n \in DOMAIN line : line[m].name = line[n].name => m = n)
     => verdict = Decision(request,
                           [response EXCEPT !.cacheControl = <<Reverse(line)>>])

\* Somebody forbids storing in the line that is read, wherever in it and
\* whatever else it says; credentials forbid it unless the client says "public".
Vetoed ==
  LET asked == Names(Get(request.cacheControl))
  IN \/ asked \cap {"no-store", "no-cache"} # {}
     \/ request.pragmaNoCache
     \/ request.authorization /\ "public" \notin asked
     \/ "no-store" \in Names(Get(response.cacheControl))

\* The upstream grants v seconds: with the last word of the line, s-maxage
\* before max-age, or with Expires when the line is empty.
Grants(v) ==
  LET line == Get(response.cacheControl)
  IN \/ /\ line # <<>>
        /\ Parses(Last(line).value) /\ v = Seconds[Last(line).value]
        /\ \/ Last(line).name = "s-maxage"
           \/ Last(line).name = "max-age" /\ "s-maxage" \notin Names(line)
     \/ line = <<>> /\ v = response.expires

\* What is stored was vetoed by neither side in the lines the proxy reads, and
\* a positive lifetime granted by the upstream is the one it is stored with.
StoredAsAllowed ==
  verdict.xCache = "MISS" =>
    /\ ~Vetoed
    /\ \A v \in {2, 5} : Grants(v) => verdict.lifetime = v

-----------------------------------------------------------------------------
(* What the documentation says and the code does not do.                   *)

\* "ttl: TTL used when upstream responses don't specify cache directives"
\* (config.yaml:45) and "Fallback to configured default TTL when no upstream
\* directives exist" (cache.go:278): a response that names its lifetime in
\* seconds is not stored with the default one.
DefaultOnlyWithoutDirectives ==
  /\ verdict.xCache = "MISS"
  /\ Get(response.cacheControl) # <<>>
  /\ \E v \in {-1, 0, 2} : Grants(v)
  => verdict.lifetime # DefaultCacheTTL
=============================================================================
