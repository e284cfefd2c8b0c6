----------------------------- MODULE FakeClock -----------------------------
(***************************************************************************)
(* Fake of pkg/clock/clock.go: a clock that its user turns, with timers    *)
(* and tickers that Advance fires.                                         *)
(*                                                                         *)
(* Channels hold one value and drop what does not fit.  Set turns the      *)
(* clock and fires nothing.  The Stop of a timer goes through a sync.Once, *)
(* so after a Reset it has no effect any more.                             *)
(***************************************************************************)
EXTENDS Integers

CONSTANTS
    Timers, Tickers,  \* timers and tickers that are made
    Waits,            \* durations they are given
    Steps,            \* durations the clock is advanced by
    ClockMax,         \* bound: the time
    MaxCalls          \* bound: calls of Stop, Reset and Set

ASSUME ClockConstantsOK ==
    /\ Waits \subseteq Nat \ {0} /\ Steps \subseteq Nat \ {0}
    /\ ClockMax \in Nat /\ MaxCalls \in Nat

VARIABLES
    time,      \* now
    timer,     \* each timer
    listed,    \* the list of timers
    ticker,    \* each ticker
    calls,     \* calls of Stop, Reset and Set so far
    turned     \* history: Set has been called since the last Advance

clockVars == <<time, timer, listed, ticker, calls, turned>>

Nothing == -1

\* stops: the Once has run.  due, quiet and broken are history: the deadline the
\* value in the channel was sent for, whether the timer has been stopped in
\* earnest since its last Reset, and whether it fired nevertheless.
NoTimer == [made |-> FALSE, dead |-> 0, fired |-> FALSE, stopped |-> FALSE, once |-> FALSE,
            ch |-> Nothing, due |-> 0, quiet |-> FALSE, broken |-> FALSE]
\* from is history: when the ticker was made or reset.
NoTicker == [made |-> FALSE, next |-> 0, d |-> 1, stopped |-> FALSE, ch |-> Nothing, from |-> 0]

ClockInit ==
    /\ time = 0 /\ timer = [t \in Timers |-> NoTimer] /\ listed = {}
    /\ ticker = [k \in Tickers |-> NoTicker]
    /\ calls = 0 /\ turned = FALSE

Armed(t) == timer[t].made /\ ~timer[t].fired /\ ~timer[t].stopped

-----------------------------------------------------------------------------
(* Timers *)

NewTimer(t, d) ==
    /\ ~timer[t].made
    /\ timer' = [timer EXCEPT ![t] = [NoTimer EXCEPT !.made = TRUE, !.dead = time + d]]
    /\ listed' = listed \cup {t}
    /\ UNCHANGED <<time, ticker, calls, turned>>

\* The timer stays in the list until the next Advance.
StopTimer(t) ==
    /\ timer[t].made /\ calls < MaxCalls
    /\ timer' = [timer EXCEPT ![t].once = TRUE,
                              ![t].stopped = @ \/ ~timer[t].once,
                              ![t].quiet = @ \/ (~timer[t].once /\ ~timer[t].fired)]
    /\ calls' = calls + 1
    /\ UNCHANGED <<time, listed, ticker, turned>>

\* Mutant: the timer is taken to be in the list still.
AsListed(t) == listed
Relisted(t) == listed \cup {t}

\* A value that nobody has read stays in the channel.
ResetTimer(t, d) ==
    /\ timer[t].made /\ calls < MaxCalls
    /\ timer' = [timer EXCEPT ![t].dead = time + d, ![t].fired = FALSE, ![t].stopped = FALSE, ![t].quiet = FALSE]
    /\ listed' = Relisted(t)
    /\ calls' = calls + 1
    /\ UNCHANGED <<time, ticker, turned>>

ReadTimer(t) ==
    /\ timer[t].ch # Nothing
    /\ timer' = [timer EXCEPT ![t].ch = Nothing]
    /\ UNCHANGED <<time, listed, ticker, calls, turned>>

-----------------------------------------------------------------------------
(* Tickers *)

NewTicker(k, d) ==
    /\ ~ticker[k].made
    /\ ticker' = [ticker EXCEPT ![k] = [NoTicker EXCEPT !.made = TRUE, !.next = time + d, !.d = d, !.from = time]]
    /\ UNCHANGED <<time, timer, listed, calls, turned>>

StopTicker(k) ==
    /\ ticker[k].made /\ calls < MaxCalls
    /\ ticker' = [ticker EXCEPT ![k].stopped = TRUE]
    /\ calls' = calls + 1
    /\ UNCHANGED <<time, timer, listed, turned>>

ResetTicker(k, d) ==
    /\ ticker[k].made /\ calls < MaxCalls
    /\ ticker' = [ticker EXCEPT ![k].d = d, ![k].next = time + d, ![k].stopped = FALSE, ![k].from = time]
    /\ calls' = calls + 1
    /\ UNCHANGED <<time, timer, listed, turned>>

ReadTicker(k) ==
    /\ ticker[k].ch # Nothing
    /\ ticker' = [ticker EXCEPT ![k].ch = Nothing]
    /\ UNCHANGED <<time, timer, listed, calls, turned>>

-----------------------------------------------------------------------------
(* The clock *)

Due(t, now) == t \in listed /\ ~timer[t].stopped /\ timer[t].dead <= now

Fired(t, now) ==
    [timer[t] EXCEPT !.fired = TRUE, !.broken = @ \/ timer[t].quiet,
                     !.ch = IF @ = Nothing THEN now ELSE @,
                     !.due = IF timer[t].ch = Nothing THEN timer[t].dead ELSE @]

\* The first tick after now.
NextTick(k, now) == ticker[k].next + ((now - ticker[k].next) \div ticker[k].d + 1) * ticker[k].d

\* Each tick that is due is sent; all but the first that fits are dropped.
Ticked(k, now) ==
    IF ~ticker[k].made \/ ticker[k].stopped \/ ticker[k].next > now THEN ticker[k]
    ELSE [ticker[k] EXCEPT !.ch = IF @ = Nothing THEN ticker[k].next ELSE @, !.next = NextTick(k, now)]

AdvanceClock(d) ==
    LET now == time + d IN
    /\ now <= ClockMax
    /\ time' = now /\ turned' = FALSE
    /\ timer' = [t \in Timers |-> IF Due(t, now) THEN Fired(t, now) ELSE timer[t]]
    /\ listed' = {t \in listed : ~timer[t].stopped /\ ~Due(t, now)}
    /\ ticker' = [k \in Tickers |-> Ticked(k, now)]
    /\ UNCHANGED calls

SetClock(now) ==
    /\ calls < MaxCalls /\ calls' = calls + 1
    /\ time' = now /\ turned' = TRUE
    /\ UNCHANGED <<timer, listed, ticker>>

ClockNext ==
    \/ \E d \in Steps : AdvanceClock(d)
    \/ \E now \in 0..ClockMax : SetClock(now)
    \/ \E t \in Timers : StopTimer(t) \/ ReadTimer(t) \/ \E d \in Waits : NewTimer(t, d) \/ ResetTimer(t, d)
    \/ \E k \in Tickers : StopTicker(k) \/ ReadTicker(k) \/ \E d \in Waits : NewTicker(k, d) \/ ResetTicker(k, d)

-----------------------------------------------------------------------------

ClockTypeOK ==
    /\ time \in 0..ClockMax /\ turned \in BOOLEAN /\ calls \in 0..MaxCalls
    /\ listed \subseteq {t \in Timers : timer[t].made}
    /\ \A t \in Timers : timer[t].ch \in {Nothing} \cup 0..ClockMax
    /\ \A k \in Tickers : ticker[k].ch \in {Nothing} \cup Nat

\* Stop, Reset, Set and Advance in any order, with readers that lag: a timer that
\* waits is in the list, and Advance leaves none behind that is due; it is not
\* fired early, and not between a first Stop and the next Reset; a ticker keeps to
\* the multiples of its period since it was made or reset, and Advance leaves no
\* tick behind that was due.
TimersKeepTime ==
    /\ \A t \in Timers :
        /\ Armed(t) => t \in listed /\ (timer[t].dead > time \/ turned)
        /\ timer[t].ch # Nothing => timer[t].ch >= timer[t].due
        /\ ~timer[t].broken
    /\ \A k \in Tickers : ticker[k].made =>
        /\ (ticker[k].next - ticker[k].from) % ticker[k].d = 0
        /\ ticker[k].next > time \/ ticker[k].stopped \/ turned
=============================================================================
