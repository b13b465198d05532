--------------------------- MODULE MCReverseProxy ---------------------------
(* Values for the constants of ReverseProxy.                               *)
EXTENDS ReverseProxy, TLC

CONSTANTS r1, r2, t1, t2

Url(site, raw, path) == [site |-> site, raw |-> raw, path |-> path, suffix |-> <<>>]

\* Two ways to write one decoded path; a path that is the same text behind the
\* base path of t2; and a request for another host.
plain == Url("GET a.test", "/a/b", <<"a", "b">>)
escaped == Url("GET a.test", "/a%2Fb", <<"a", "b">>)
short == Url("GET a.test", "/b", <<"b">>)
other == Url("GET b.test", "/b", <<"b">>)

MCUrls == {plain, escaped, short, other}
MCShape == (t1 :> [scheme |-> "http", base |-> <<>>]) @@
           (t2 :> [scheme |-> "http", base |-> <<"a">>])

Request(kind, url, body, named) ==
  [kind |-> kind, url |-> url, body |-> body, named |-> named]

\* Two requests whose keys agree or not as their previews go; two that agree if
\* a body cannot be read; two that never agree and evict each other; one that
\* the cache has no part in; and two that go nowhere.
MCArrivals ==
  {(r1 :> both[1]) @@ (r2 :> both[2]) :
   both \in {<<Request("cacheable", plain, NoBody, FALSE),
               Request("cacheable", short, NoBody, TRUE)>>,
             <<Request("cacheable", plain, NoBody, FALSE),
               Request("cacheable", escaped, "b1", TRUE)>>,
             <<Request("cacheable", short, NoBody, FALSE),
               Request("cacheable", other, NoBody, FALSE)>>,
             <<Request("cacheable", plain, NoBody, TRUE),
               Request("uncacheable", plain, "b1", FALSE)>>,
             <<Request("healthz", plain, NoBody, TRUE),
               Request("badMethod", plain, NoBody, FALSE)>>}}
=============================================================================
