----------------------------- MODULE Pipeline -----------------------------
(***************************************************************************)
(* What a request meets on its way: the middleware of cmd/server/main.go,  *)
(* the routes, the handler and its answer, beside other requests for the   *)
(* same link and beside a shutdown whose timeout has passed.               *)
(*                                                                         *)
(* From the outside in, the middleware is TrimLastSlash, Recovery,         *)
(* RequestID, Logging, BodyLimit, CORS and the rate limit.  Recovery is    *)
(* outside of Logging: after a panic the log has the status that the       *)
(* handler wrote, the client the one that Recovery adds.                   *)
(*                                                                         *)
(* A call of the store is one step; what happens inside it is in Links and *)
(* URLStore, whether a bucket has tokens in RateLimiter, what a report     *)
(* counts in Statistics.  Storage.FlushOnWrite is on; when it is off, no   *)
(* write of the file fails under a handler.                                *)
(***************************************************************************)
EXTENDS Naturals

CONSTANTS
    Clients,     \* connections, which send one request after the other
    Calls,       \* the requests they send
    MaxSent,     \* bound: requests
    MaxBreaks    \* bound: panics and failed writes of the file

\* The routes, and the methods their handlers take.
Methods == {"GET", "HEAD", "POST", "PUT", "PATCH", "DELETE", "OPTIONS"}
Allowed ==
    [urls |-> {"POST"}, url |-> {"GET", "DELETE", "PATCH"}, stats |-> {"GET"},
     code |-> {"GET", "HEAD"}, health |-> {"GET", "HEAD"}, ready |-> {"GET", "HEAD"},
     adminHealth |-> {"GET"}, flush |-> {"POST", "PUT"}, runtime |-> {"GET"},
     gc |-> {"POST"}, reset |-> {"POST"}, metrics |-> {"GET", "HEAD"},
     page |-> Methods, reserved |-> Methods]

\* A body or code that does not parse, one that is too long, and fields that
\* only the service looks at.  A PATCH asks for what is in asks.
Inputs == {"good", "malformed", "large", "invalid"}
ASSUME CallsOK ==
    /\ Calls \subseteq [method : Methods, route : DOMAIN Allowed, input : Inputs,
                        asks : SUBSET {"disabled", "remarked"}]
    /\ MaxSent \in Nat /\ MaxBreaks \in Nat

VARIABLES
    call,      \* the request of each client
    row,       \* the link all of them are about
    up,        \* the stores that are ready
    removals,  \* history: deletions so far
    sent,      \* requests sent so far
    breaks     \* panics and failed writes so far

pipeVars == <<call, row, up, removals, sent, breaks>>

NoLink == [there |-> FALSE, disabled |-> FALSE]
NoCall == [method |-> "GET", route |-> "page", input |-> "good", asks |-> {},
           stage |-> "ended", todo |-> {}, saw |-> {}, did |-> {}, since |-> 0,
           answer |-> 200, noted |-> 200, broke |-> FALSE]

PipeInit ==
    /\ call = [p \in Clients |-> NoCall]
    /\ row = NoLink /\ up = {"url", "log"}
    /\ removals = 0 /\ sent = 0 /\ breaks = 0

At(p, stage) == call[p].stage = stage
Turns(p, r) == call' = [call EXCEPT ![p] = r]
To(r, stage) == [r EXCEPT !.stage = stage]

\* The first WriteHeader: it goes through the recorder of Logging.
Reply(r, status) == [r EXCEPT !.answer = status, !.noted = status, !.stage = "body"]

\* The errors a service may return, and what Map makes of them.
Mapped == [notFound |-> 404, conflict |-> 409, gone |-> 410, noCode |-> 500,
           tooMany |-> 413, canceled |-> 499, notReady |-> 500, other |-> 500]

-----------------------------------------------------------------------------
(* Middleware *)

\* Up to CORS, which answers a preflight itself.
Send(p, c) ==
    /\ At(p, "ended") /\ sent < MaxSent
    /\ LET r == [NoCall EXCEPT !.method = c.method, !.route = c.route, !.input = c.input,
                 !.asks = c.asks, !.todo = c.asks, !.stage = "route",
                 !.answer = 0, !.noted = 0]
       IN Turns(p, IF c.method = "OPTIONS" THEN Reply(r, 204) ELSE r)
    /\ sent' = sent + 1
    /\ UNCHANGED <<row, up, removals, breaks>>

\* The body is written and the request logged.
EndBody(p) ==
    /\ At(p, "body")
    /\ Turns(p, To(call[p], "ended"))
    /\ UNCHANGED <<row, up, removals, sent, breaks>>

\* A panic in the handler, before or after it has written a status.  The
\* recorder is left as it is.
Recovered(p) ==
    /\ call[p].stage # "ended" /\ breaks < MaxBreaks
    /\ Turns(p, [call[p] EXCEPT !.stage = "ended", !.broke = TRUE,
                                  !.answer = IF @ = 0 THEN 500 ELSE @])
    /\ breaks' = breaks + 1
    /\ UNCHANGED <<row, up, removals, sent>>

-----------------------------------------------------------------------------
(* The rate limit and the routes *)

\* A code that is not one, or a body that DecodeJSON refuses: one that is longer
\* than the limit too.
BadRequest(r) == r.input \in {"malformed", "large"}

Handler(r) ==
    CASE r.route = "urls" -> "create"
      [] r.route = "url" /\ r.method = "DELETE" -> "delete"
      [] r.route = "url" /\ r.method = "PATCH" -> "patch"
      [] r.route = "code" -> "redirect"
      [] r.route \in {"health", "ready"} -> "probe"
      [] OTHER -> "look"

\* The rate limit refuses the request, or the mux finds its handler.
Dispatch(p) ==
    LET r == call[p] IN
    /\ At(p, "route")
    /\ \/ Turns(p, Reply(r, 429))
       \/ Turns(p, IF r.method \notin Allowed[r.route] THEN Reply(r, 405)
                   ELSE IF BadRequest(r) THEN Reply(r, 400) ELSE To(r, Handler(r)))
    /\ UNCHANGED <<row, up, removals, sent, breaks>>

-----------------------------------------------------------------------------
(* Handlers that change the link *)

\* What Get, Exists, Delete and Save say of the link: "none" is no error.
Missing == IF "url" \notin up THEN "notReady" ELSE IF row.there THEN "none" ELSE "notFound"
Taken == IF "url" \notin up THEN "notReady" ELSE IF row.there THEN "conflict" ELSE "none"

\* The request r has had an effect.
Did(r, effect) == [r EXCEPT !.did = @ \cup {effect}, !.since = removals']

\* The store changes, and a write of the file that follows at once may fail: the
\* change stays in the map, and the caller gets the error.
Change(p, r, to) ==
    /\ row' = to
    /\ \/ Turns(p, r) /\ UNCHANGED breaks
       \/ /\ breaks < MaxBreaks
          /\ breaks' = breaks + 1
          /\ Turns(p, [Reply(r, Mapped["other"]) EXCEPT !.broke = TRUE])
    /\ UNCHANGED <<up, sent>>

\* Nothing changes but the request.
Only(p, r) == Turns(p, r) /\ UNCHANGED <<row, up, removals, sent, breaks>>

\* A URL or a code that the service refuses is an error that Map does not know;
\* generated codes may all be taken.
Create(p) ==
    LET r == call[p] IN
    /\ At(p, "create")
    /\ \/ /\ r.input = "good" /\ Taken = "none"
          /\ UNCHANGED removals
          /\ Change(p, Reply(Did(r, "created"), 201), [NoLink EXCEPT !.there = TRUE])
       \/ r.input = "invalid" /\ Only(p, Reply(r, Mapped["other"]))
       \/ r.input = "good" /\ Taken # "none" /\ Only(p, Reply(r, Mapped[Taken]))
       \/ r.input = "good" /\ Taken = "conflict" /\ Only(p, Reply(r, Mapped["noCode"]))

Delete(p) ==
    LET r == call[p] IN
    /\ At(p, "delete")
    /\ \/ /\ Missing = "none"
          /\ removals' = removals + 1
          /\ Change(p, Reply(Did(r, "deleted"), 200), NoLink)
       \/ Missing # "none" /\ Only(p, Reply(r, Mapped[Missing]))

\* Mutant: after an error the handler goes on.
GoesOn(r, error) == [r EXCEPT !.todo = {}]
PatchFails(r, error) == Reply(r, Mapped[error])

\* What Patch does next: Disable, then UpdateRemark, then Get for the answer.
Patch(p) ==
    LET r == call[p]
        half == IF "disabled" \in r.todo THEN "disabled" ELSE "remarked"
    IN
    /\ At(p, "patch")
    /\ \/ /\ Missing # "none" /\ Only(p, PatchFails(r, Missing))
       \/ /\ Missing = "none" /\ r.todo = {} /\ Only(p, Reply(r, 200))
       \/ /\ Missing = "none" /\ r.todo # {}
          /\ UNCHANGED removals
          /\ Change(p, [Did(r, half) EXCEPT !.todo = @ \ {half}],
                    [row EXCEPT !.disabled = @ \/ half = "disabled"])

\* HandleRedirect up to the visit: a link that is missing, disabled or, at any
\* time, expired is a result and not an error.
Redirect(p) ==
    LET r == call[p] IN
    /\ At(p, "redirect")
    /\ \/ Missing # "none" /\ Only(p, Reply(r, Mapped[Missing]))
       \/ Missing = "none" /\ Only(p, Reply(r, 410))
       \/ Missing = "none" /\ ~row.disabled /\ Only(p, To(r, "visit"))

\* IncrementVisits, which may reach the limit.
CountVisit(p) ==
    LET r == call[p] IN
    /\ At(p, "visit")
    /\ UNCHANGED removals
    /\ \/ Missing # "none" /\ Only(p, Reply(r, Mapped[Missing]))
       \/ Missing = "none" /\ \E status \in {302, 410} : Only(p, Reply(Did(r, "visited"), status))

-----------------------------------------------------------------------------
(* Handlers that look *)

\* Check and Ready ask the URL store, then the log.
Probe(p) ==
    /\ At(p, "probe")
    /\ Turns(p, [To(call[p], "probeLog") EXCEPT !.saw = up \cap {"url"}])
    /\ UNCHANGED <<row, up, removals, sent, breaks>>

Health(saw) == IF saw = {} THEN 503 ELSE 200
Ready(saw) == IF saw = {"url", "log"} THEN 200 ELSE 503

ProbeLog(p) ==
    LET r == call[p]
        saw == r.saw \cup (up \cap {"log"})
    IN
    /\ At(p, "probeLog")
    /\ Turns(p, Reply(r, IF r.route = "health" THEN Health(saw) ELSE Ready(saw)))
    /\ UNCHANGED <<row, up, removals, sent, breaks>>

\* What the handlers answer that leave the link alone.
Found == IF Missing = "none" THEN 200 ELSE Mapped[Missing]

\* A report may come from the cache when the link is gone.
StatsAnswers == {200, Found, Mapped["tooMany"], Mapped["canceled"], Mapped["other"]}

\* The flush that adminHealth and flush do may fail.
AdminAnswers ==
    [adminHealth |-> {200, 503}, flush |-> {200, 500}, runtime |-> {200}, gc |-> {200}]

\* The text, or the JSON, which always fails.
MetricsAnswers == {200, 500}

\* A path that begins like another route is no code, whatever the store holds.
NotACode == {404}

\* The page, and the rest of what no other route takes.
RootAnswers == [page |-> {200}, reserved |-> NotACode]

Answers(r) ==
    CASE r.route = "url" -> {Found}
      [] r.route = "stats" -> StatsAnswers
      [] r.route = "metrics" -> MetricsAnswers
      [] r.route = "reset" -> {200}
      [] r.route \in DOMAIN AdminAnswers -> AdminAnswers[r.route]
      [] r.route \in DOMAIN RootAnswers -> RootAnswers[r.route]

Look(p) ==
    /\ At(p, "look")
    /\ \E status \in Answers(call[p]) : Turns(p, Reply(call[p], status))
    /\ UNCHANGED <<row, up, removals, sent, breaks>>

-----------------------------------------------------------------------------
(* CloseAll, beside handlers that Shutdown has not waited for: last the store *)
(* that was registered first.                                                *)

CloseLog == up = {"url", "log"} /\ up' = {"url"}
CloseStore == up = {"url"} /\ up' = {}

PipeNext ==
    \/ \E p \in Clients :
        \/ \E c \in Calls : Send(p, c)
        \/ Dispatch(p) \/ EndBody(p) \/ Recovered(p)
        \/ Create(p) \/ Delete(p) \/ Patch(p) \/ Redirect(p) \/ CountVisit(p)
        \/ Probe(p) \/ ProbeLog(p) \/ Look(p)
    \/ (CloseLog \/ CloseStore) /\ UNCHANGED <<call, row, removals, sent, breaks>>

-----------------------------------------------------------------------------
(* Properties *)

\* Every variable has a value of its kind.
PipeTypeOK ==
    /\ \A p \in Clients :
        /\ call[p].stage \in {"route", "create", "delete", "patch", "redirect", "visit",
                              "probe", "probeLog", "look", "body", "ended"}
        /\ call[p].answer \in Nat /\ call[p].noted \in Nat
        /\ call[p].did \subseteq {"created", "deleted", "disabled", "remarked", "visited"}
    /\ row \in [there : BOOLEAN, disabled : BOOLEAN]
    /\ up \subseteq {"url", "log"}
    /\ removals \in 0..MaxSent /\ sent \in 0..MaxSent /\ breaks \in 0..MaxBreaks

\* What the answer of a request says it has done.
Promised(r) ==
    CASE r.answer = 201 -> {"created"}
      [] r.answer = 302 -> {"visited"}
      [] r.answer = 200 /\ r.route = "url" /\ r.method = "DELETE" -> {"deleted"}
      [] r.answer = 200 /\ r.route = "url" /\ r.method = "PATCH" -> r.asks
      [] OTHER -> {}

\* An error after an effect: the visit that reaches the limit; a PATCH between
\* whose halves the link was deleted or the store closed.
Excused(r) ==
    \/ r.did = {"visited"} /\ r.answer = 410
    \/ r.method = "PATCH" /\ (removals > r.since \/ "url" \notin up)

\* However requests for one link, deletions, failing writes, panics and the end
\* of the process interleave: a request that was answered by success has done what
\* it was asked for, all of it and nothing else; one that was answered by an error,
\* refused by the limiter or the method, or stopped at CORS has changed nothing,
\* but for the cases that Excused spells out and for panics and writes that
\* failed; the log has the status that the client got, except after a panic before
\* the first byte; and /health calls the server down only when both stores are.
AnswersHonest ==
    \A p \in Clients :
        LET r == call[p] IN
        r.stage = "ended" =>
            /\ r.did = Promised(r) \/ (r.answer >= 400 /\ (r.broke \/ Excused(r)))
            /\ r.noted = r.answer \/ (r.broke /\ r.noted = 0 /\ r.answer = 500)
            /\ r.route = "health" /\ r.answer = 503 => up = {}
=============================================================================
