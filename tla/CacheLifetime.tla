--------------------------- MODULE CacheLifetime ---------------------------
(***************************************************************************)
(* internal/proxy/cache.go: the lifetime Set gives a response.             *)
(***************************************************************************)
EXTENDS Integers

CONSTANT DefaultTTL   \* SetDefaultCacheTTL's argument

ASSUME LifetimeAssumption == DefaultTTL \in Int

\* SetDefaultCacheTTL and getDefaultCacheTTL
DefaultCacheTTL == IF DefaultTTL <= 0 THEN 60 ELSE DefaultTTL

\* The default that Set applies to a ttl <= 0.
SetTTL(ttl) == IF ttl <= 0 THEN DefaultCacheTTL ELSE ttl
=============================================================================
