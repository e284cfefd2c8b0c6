--------------------------- MODULE MCStandalone ---------------------------
(***************************************************************************)
(* Small instances of the components of Standalone for TLC.                *)
(***************************************************************************)
EXTENDS Standalone

\* Two series whose keys agree: name a with label b, and name a|b without one.
SeriesWithOneKey == {<< <<"a">>, <<"b">> >>, << <<"a", "|", "b">>, <<>> >>}

\* Defaults and extremes: no attempts, no backoff, no ceiling, one near the widest.
SomeConfigs == [max : {0, 3, 4}, initial : {0, 4}, ceiling : {0, 5, 19}, multiplier : {1, 3}, jitter : BOOLEAN]

\* A request of each kind that a handler knows, and some that none does.
Good(method, route) == [method |-> method, route |-> route, input |-> "good", asks |-> {}]
SomeCalls ==
    {Good("POST", "urls"), Good("DELETE", "url"), Good("GET", "code"), Good("POST", "code"),
     Good("GET", "health"), Good("HEAD", "ready"), Good("GET", "stats"), Good("OPTIONS", "url")}
    \cup {[Good("POST", "urls") EXCEPT !.input = i] : i \in {"large", "invalid"}}
    \cup {[Good("PATCH", "url") EXCEPT !.asks = a] : a \in {{"disabled"}, {"disabled", "remarked"}}}
=============================================================================
