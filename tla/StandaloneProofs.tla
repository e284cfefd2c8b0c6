-------------------------- MODULE StandaloneProofs --------------------------
(***************************************************************************)
(* What the components of Standalone guarantee for every number of         *)
(* goroutines, timers, keys and requests.  Each of them has an inductive   *)
(* invariant of its own, whose name says which component it belongs to.    *)
(***************************************************************************)
EXTENDS AccessLogProofs, WellFoundedInduction

-----------------------------------------------------------------------------
(* A behaviour of Standalone is, for each component, a behaviour of it *)

LEMMA ClockBehaves == Spec => ClockInit /\ [][ClockNext]_clockVars
<1>1. Init => ClockInit
  BY DEF Init
<1>2. [Next]_standaloneVars => [ClockNext]_clockVars
  BY DEF Next, standaloneVars
<1> QED BY <1>1, <1>2, PTL DEF Spec

LEMMA StopBehaves == Spec => StopInit /\ [][StopNext]_stopVars
<1>1. Init => StopInit
  BY DEF Init
<1>2. [Next]_standaloneVars => [StopNext]_stopVars
  BY DEF Next, standaloneVars
<1> QED BY <1>1, <1>2, PTL DEF Spec

LEMMA SetBehaves == Spec => SetInit /\ [][SetNext]_setVars
<1>1. Init => SetInit
  BY DEF Init
<1>2. [Next]_standaloneVars => [SetNext]_setVars
  BY DEF Next, standaloneVars
<1> QED BY <1>1, <1>2, PTL DEF Spec

LEMMA FlightBehaves == Spec => FlightInit /\ [][FlightNext]_flightVars
<1>1. Init => FlightInit
  BY DEF Init
<1>2. [Next]_standaloneVars => [FlightNext]_flightVars
  BY DEF Next, standaloneVars
<1> QED BY <1>1, <1>2, PTL DEF Spec

LEMMA PipeBehaves == Spec => PipeInit /\ [][PipeNext]_pipeVars
<1>1. Init => PipeInit
  BY DEF Init
<1>2. [Next]_standaloneVars => [PipeNext]_pipeVars
  BY DEF Next, standaloneVars
<1> QED BY <1>1, <1>2, PTL DEF Spec

-----------------------------------------------------------------------------
(* Fake clock *)

TimerRecord ==
    [made : BOOLEAN, dead : Nat, fired : BOOLEAN, stopped : BOOLEAN, once : BOOLEAN,
     ch : {Nothing} \cup 0..ClockMax, due : Nat, quiet : BOOLEAN, broken : BOOLEAN]
TickerRecord ==
    [made : BOOLEAN, next : Nat, d : Nat \ {0}, stopped : BOOLEAN, ch : {Nothing} \cup Nat, from : Nat]

ClockTypes ==
    /\ time \in 0..ClockMax /\ turned \in BOOLEAN /\ calls \in 0..MaxCalls
    /\ timer \in [Timers -> TimerRecord] /\ ticker \in [Tickers -> TickerRecord]
    /\ listed \subseteq Timers

\* A timer that was stopped in earnest has its flag still.
TimersOK ==
    \A t \in Timers :
        /\ t \in listed => timer[t].made
        /\ Armed(t) => t \in listed /\ (timer[t].dead > time \/ turned)
        /\ timer[t].ch # Nothing => timer[t].ch >= timer[t].due
        /\ timer[t].quiet => timer[t].stopped
        /\ ~timer[t].broken

\* The next tick is a number of periods after the ticker was made or reset.
TickersOK ==
    \A k \in Tickers : ticker[k].made =>
        /\ \E q \in Nat : ticker[k].next = ticker[k].from + q * ticker[k].d
        /\ ticker[k].next > time \/ ticker[k].stopped \/ turned

ClockInv == ClockTypes /\ TimersOK /\ TickersOK

LEMMA NoTimerIs ==
    /\ NoTimer \in TimerRecord /\ NoTimer.made = FALSE /\ NoTimer.quiet = FALSE
    /\ NoTimer.broken = FALSE /\ NoTimer.ch = Nothing
BY DEF NoTimer, TimerRecord, Nothing

LEMMA ClockInitially == ClockInit => ClockInv
<1> SUFFICES ASSUME ClockInit PROVE ClockInv
  OBVIOUS
<1>1. /\ time = 0 /\ timer = [t \in Timers |-> NoTimer] /\ listed = {}
      /\ ticker = [k \in Tickers |-> NoTicker] /\ calls = 0 /\ turned = FALSE
  BY DEF ClockInit
<1>2. /\ NoTimer \in TimerRecord /\ NoTimer.made = FALSE /\ NoTimer.quiet = FALSE
      /\ NoTimer.broken = FALSE /\ NoTimer.ch = Nothing
  BY NoTimerIs
<1>3. NoTicker \in TickerRecord /\ NoTicker.made = FALSE
  BY DEF NoTicker, TickerRecord, Nothing
<1>4. ClockTypes
  <2>1. timer \in [Timers -> TimerRecord] /\ ticker \in [Tickers -> TickerRecord]
    BY <1>1, <1>2, <1>3
  <2>2. 0 \in 0..ClockMax /\ 0 \in 0..MaxCalls
    BY ClockConstantsOK
  <2> QED BY <1>1, <2>1, <2>2 DEF ClockTypes
<1>5. TimersOK
  BY <1>1, <1>2 DEF TimersOK, Armed
<1>6. TickersOK
  BY <1>1, <1>3 DEF TickersOK
<1> QED BY <1>4, <1>5, <1>6 DEF ClockInv

\* NewTimer, StopTimer, ResetTimer and ReadTimer change one timer.
LEMMA OneTimer ==
    ASSUME ClockInv, NEW t \in Timers, NEW r \in TimerRecord,
           timer' = [timer EXCEPT ![t] = r],
           listed' = listed \/ listed' = listed \cup {t},
           calls' \in 0..MaxCalls, UNCHANGED <<time, ticker, turned>>,
           t \in listed' => r.made,
           r.made /\ ~r.fired /\ ~r.stopped => t \in listed' /\ (r.dead > time \/ turned),
           r.ch # Nothing => r.ch >= r.due,
           r.quiet => r.stopped, ~r.broken
    PROVE  ClockInv'
<1>1. timer'[t] = r /\ \A u \in Timers : u # t => timer'[u] = timer[u]
  BY DEF ClockInv, ClockTypes
<1>2. ClockTypes'
  BY DEF ClockInv, ClockTypes
<1>3. TimersOK'
  <2> SUFFICES ASSUME NEW u \in Timers
               PROVE  /\ u \in listed' => timer'[u].made
                      /\ Armed(u)' => u \in listed' /\ (timer'[u].dead > time \/ turned)
                      /\ timer'[u].ch # Nothing => timer'[u].ch >= timer'[u].due
                      /\ timer'[u].quiet => timer'[u].stopped
                      /\ ~timer'[u].broken
    BY DEF TimersOK, Armed
  <2>1. CASE u = t
    BY <1>1, <2>1 DEF Armed
  <2>2. CASE u # t
    BY <1>1, <2>2 DEF ClockInv, TimersOK, Armed
  <2> QED BY <2>1, <2>2
<1>4. TickersOK'
  BY DEF ClockInv, TickersOK
<1> QED BY <1>2, <1>3, <1>4 DEF ClockInv

LEMMA NewTimerInv ==
    ASSUME ClockInv, NEW t \in Timers, NEW d \in Waits, NewTimer(t, d)
    PROVE  ClockInv'
<1> DEFINE r == [NoTimer EXCEPT !.made = TRUE, !.dead = time + d]
<1>1. time \in Nat /\ d \in Nat \ {0} /\ calls \in 0..MaxCalls
  BY ClockConstantsOK DEF ClockInv, ClockTypes
<1>2. /\ r \in TimerRecord /\ r.made = TRUE /\ r.quiet = FALSE /\ r.broken = FALSE
      /\ r.ch = Nothing /\ r.dead > time
  <2>1. time + d \in Nat /\ time + d > time
    BY <1>1
  <2>2. /\ NoTimer \in TimerRecord /\ NoTimer.quiet = FALSE
        /\ NoTimer.broken = FALSE /\ NoTimer.ch = Nothing
    BY NoTimerIs
  <2> QED BY <2>1, <2>2 DEF TimerRecord
<1>3. /\ timer' = [timer EXCEPT ![t] = r] /\ listed' = listed \cup {t}
      /\ UNCHANGED <<time, ticker, calls, turned>>
  BY DEF NewTimer
<1> HIDE DEF r
<1> QED BY <1>1, <1>2, <1>3, OneTimer

LEMMA StopTimerInv ==
    ASSUME ClockInv, NEW t \in Timers, StopTimer(t)
    PROVE  ClockInv'
<1> DEFINE r == [timer[t] EXCEPT !.once = TRUE, !.stopped = @ \/ ~timer[t].once,
                                 !.quiet = @ \/ (~timer[t].once /\ ~timer[t].fired)]
<1>1. timer[t] \in TimerRecord /\ calls \in 0..MaxCalls /\ MaxCalls \in Nat
  BY ClockConstantsOK DEF ClockInv, ClockTypes
<1>2. timer[t].made /\ calls' \in 0..MaxCalls /\ UNCHANGED <<time, listed, ticker, turned>>
  BY <1>1 DEF StopTimer
<1>3. timer' = [timer EXCEPT ![t] = r]
  BY DEF StopTimer, ClockInv, ClockTypes
<1>4. /\ r \in TimerRecord /\ r.made = timer[t].made /\ r.fired = timer[t].fired
      /\ r.ch = timer[t].ch /\ r.due = timer[t].due /\ r.broken = timer[t].broken
      /\ r.dead = timer[t].dead
      /\ r.stopped = (timer[t].stopped \/ ~timer[t].once)
      /\ r.quiet = (timer[t].quiet \/ (~timer[t].once /\ ~timer[t].fired))
  BY <1>1 DEF TimerRecord
<1> HIDE DEF r
<1>5. /\ Armed(t) => t \in listed /\ (timer[t].dead > time \/ turned)
      /\ timer[t].ch # Nothing => timer[t].ch >= timer[t].due
      /\ timer[t].quiet => timer[t].stopped
      /\ ~timer[t].broken
  BY DEF ClockInv, TimersOK
<1>6. r.made /\ ~r.fired /\ ~r.stopped => t \in listed' /\ (r.dead > time \/ turned)
  BY <1>2, <1>4, <1>5 DEF Armed
<1> QED BY <1>2, <1>3, <1>4, <1>5, <1>6, OneTimer

LEMMA ResetTimerInv ==
    ASSUME ClockInv, NEW t \in Timers, NEW d \in Waits, ResetTimer(t, d)
    PROVE  ClockInv'
<1> DEFINE r == [timer[t] EXCEPT !.dead = time + d, !.fired = FALSE, !.stopped = FALSE, !.quiet = FALSE]
<1>1. /\ timer[t] \in TimerRecord /\ calls \in 0..MaxCalls /\ MaxCalls \in Nat
      /\ time \in Nat /\ d \in Nat \ {0}
  BY ClockConstantsOK DEF ClockInv, ClockTypes
<1>2. /\ timer[t].made /\ calls' \in 0..MaxCalls /\ listed' = listed \cup {t}
      /\ UNCHANGED <<time, ticker, turned>>
  BY <1>1 DEF ResetTimer, Relisted
<1>3. timer' = [timer EXCEPT ![t] = r]
  BY DEF ResetTimer, ClockInv, ClockTypes
<1>4. /\ r \in TimerRecord /\ r.made = timer[t].made /\ r.ch = timer[t].ch /\ r.due = timer[t].due
      /\ r.broken = timer[t].broken /\ r.quiet = FALSE /\ r.dead > time
  <2>1. time + d \in Nat /\ time + d > time
    BY <1>1
  <2> QED BY <1>1, <2>1 DEF TimerRecord
<1> HIDE DEF r
<1>5. (timer[t].ch # Nothing => timer[t].ch >= timer[t].due) /\ ~timer[t].broken
  BY DEF ClockInv, TimersOK
<1> QED BY <1>2, <1>3, <1>4, <1>5, OneTimer

LEMMA ReadTimerInv ==
    ASSUME ClockInv, NEW t \in Timers, ReadTimer(t)
    PROVE  ClockInv'
<1> DEFINE r == [timer[t] EXCEPT !.ch = Nothing]
<1>1. timer[t] \in TimerRecord /\ calls \in 0..MaxCalls
  BY DEF ClockInv, ClockTypes
<1>2. UNCHANGED <<time, listed, ticker, calls, turned>> /\ timer' = [timer EXCEPT ![t] = r]
  BY DEF ReadTimer, ClockInv, ClockTypes
<1>3. /\ r \in TimerRecord /\ r.made = timer[t].made /\ r.fired = timer[t].fired
      /\ r.ch = Nothing /\ r.broken = timer[t].broken /\ r.dead = timer[t].dead
      /\ r.stopped = timer[t].stopped /\ r.quiet = timer[t].quiet
  BY <1>1 DEF TimerRecord
<1> HIDE DEF r
<1>4. /\ t \in listed => timer[t].made
      /\ Armed(t) => t \in listed /\ (timer[t].dead > time \/ turned)
      /\ timer[t].quiet => timer[t].stopped
      /\ ~timer[t].broken
  BY DEF ClockInv, TimersOK
<1> QED BY <1>1, <1>2, <1>3, <1>4, OneTimer DEF Armed

\* NewTicker, StopTicker, ResetTicker and ReadTicker change one ticker.
LEMMA OneTicker ==
    ASSUME ClockInv, NEW k \in Tickers, NEW r \in TickerRecord,
           ticker' = [ticker EXCEPT ![k] = r],
           calls' \in 0..MaxCalls, UNCHANGED <<time, timer, listed, turned>>,
           r.made => \E q \in Nat : r.next = r.from + q * r.d,
           r.made => r.next > time \/ r.stopped \/ turned
    PROVE  ClockInv'
<1>1. ticker'[k] = r /\ \A u \in Tickers : u # k => ticker'[u] = ticker[u]
  BY DEF ClockInv, ClockTypes
<1>2. ClockTypes'
  BY DEF ClockInv, ClockTypes
<1>3. TickersOK'
  <2> SUFFICES ASSUME NEW u \in Tickers, ticker'[u].made
               PROVE  /\ \E q \in Nat : ticker'[u].next = ticker'[u].from + q * ticker'[u].d
                      /\ ticker'[u].next > time \/ ticker'[u].stopped \/ turned
    BY DEF TickersOK
  <2>1. CASE u = k
    BY <1>1, <2>1
  <2>2. CASE u # k
    BY <1>1, <2>2 DEF ClockInv, TickersOK
  <2> QED BY <2>1, <2>2
<1>4. TimersOK'
  BY DEF ClockInv, TimersOK, Armed
<1> QED BY <1>2, <1>3, <1>4 DEF ClockInv

LEMMA NoTickerIs == NoTicker \in TickerRecord /\ NoTicker.made = FALSE
BY DEF NoTicker, TickerRecord, Nothing

LEMMA NewTickerInv ==
    ASSUME ClockInv, NEW k \in Tickers, NEW d \in Waits, NewTicker(k, d)
    PROVE  ClockInv'
<1> DEFINE r == [NoTicker EXCEPT !.made = TRUE, !.next = time + d, !.d = d, !.from = time]
<1>1. time \in Nat /\ d \in Nat \ {0} /\ calls \in 0..MaxCalls /\ time + d \in Nat /\ time + d > time
  BY ClockConstantsOK DEF ClockInv, ClockTypes
<1>2. r \in TickerRecord /\ r.next = time + d /\ r.from = time /\ r.d = d
  BY <1>1, NoTickerIs DEF TickerRecord
<1>3. ticker' = [ticker EXCEPT ![k] = r] /\ UNCHANGED <<time, timer, listed, calls, turned>>
  BY DEF NewTicker
<1> HIDE DEF r
<1>4. r.next = r.from + 1 * r.d /\ 1 \in Nat
  BY <1>1, <1>2
<1>5. \E q \in Nat : r.next = r.from + q * r.d
  BY <1>4
<1> QED BY <1>1, <1>2, <1>3, <1>5, OneTicker

LEMMA StopTickerInv ==
    ASSUME ClockInv, NEW k \in Tickers, StopTicker(k)
    PROVE  ClockInv'
<1> DEFINE r == [ticker[k] EXCEPT !.stopped = TRUE]
<1>1. ticker[k] \in TickerRecord /\ calls \in 0..MaxCalls /\ MaxCalls \in Nat
  BY ClockConstantsOK DEF ClockInv, ClockTypes
<1>2. /\ r \in TickerRecord /\ r.next = ticker[k].next /\ r.from = ticker[k].from
      /\ r.d = ticker[k].d /\ r.stopped = TRUE
  BY <1>1 DEF TickerRecord
<1>3. /\ ticker[k].made /\ calls' \in 0..MaxCalls /\ ticker' = [ticker EXCEPT ![k] = r]
      /\ UNCHANGED <<time, timer, listed, turned>>
  BY <1>1 DEF StopTicker, ClockInv, ClockTypes
<1> HIDE DEF r
<1>4. \E q \in Nat : r.next = r.from + q * r.d
  BY <1>2, <1>3 DEF ClockInv, TickersOK
<1> QED BY <1>2, <1>3, <1>4, OneTicker

LEMMA ResetTickerInv ==
    ASSUME ClockInv, NEW k \in Tickers, NEW d \in Waits, ResetTicker(k, d)
    PROVE  ClockInv'
<1> DEFINE r == [ticker[k] EXCEPT !.d = d, !.next = time + d, !.stopped = FALSE, !.from = time]
<1>1. /\ time \in Nat /\ d \in Nat \ {0} /\ time + d \in Nat /\ time + d > time
      /\ ticker[k] \in TickerRecord /\ calls \in 0..MaxCalls /\ MaxCalls \in Nat
  BY ClockConstantsOK DEF ClockInv, ClockTypes
<1>2. r \in TickerRecord /\ r.next = time + d /\ r.from = time /\ r.d = d
  BY <1>1 DEF TickerRecord
<1>3. /\ ticker' = [ticker EXCEPT ![k] = r] /\ calls' \in 0..MaxCalls
      /\ UNCHANGED <<time, timer, listed, turned>>
  <2>1. ticker' = [ticker EXCEPT ![k] = r]
    BY DEF ResetTicker, ClockInv, ClockTypes
  <2>2. calls' \in 0..MaxCalls /\ UNCHANGED <<time, timer, listed, turned>>
    BY <1>1 DEF ResetTicker
  <2> QED BY <2>1, <2>2
<1> HIDE DEF r
<1>4. r.next = r.from + 1 * r.d /\ 1 \in Nat
  BY <1>1, <1>2
<1>5. \E q \in Nat : r.next = r.from + q * r.d
  BY <1>4
<1> QED BY <1>1, <1>2, <1>3, <1>5, OneTicker

LEMMA ReadTickerInv ==
    ASSUME ClockInv, NEW k \in Tickers, ReadTicker(k)
    PROVE  ClockInv'
<1> DEFINE r == [ticker[k] EXCEPT !.ch = Nothing]
<1>1. ticker[k] \in TickerRecord /\ calls \in 0..MaxCalls
  BY DEF ClockInv, ClockTypes
<1>2. /\ r \in TickerRecord /\ r.next = ticker[k].next /\ r.from = ticker[k].from
      /\ r.d = ticker[k].d /\ r.stopped = ticker[k].stopped /\ r.made = ticker[k].made
  BY <1>1 DEF TickerRecord
<1>3. ticker' = [ticker EXCEPT ![k] = r] /\ UNCHANGED <<time, timer, listed, calls, turned>>
  BY DEF ReadTicker, ClockInv, ClockTypes
<1> HIDE DEF r
<1>4. r.made => /\ \E q \in Nat : r.next = r.from + q * r.d
                /\ r.next > time \/ r.stopped \/ turned
  BY <1>2 DEF ClockInv, TickersOK
<1> QED BY <1>1, <1>2, <1>3, <1>4, OneTicker

\* NextTick is after now, and a number of periods later than the tick it follows.
LEMMA NextTickIs ==
    ASSUME NEW next \in Nat, NEW d \in Nat \ {0}, NEW now \in Nat, next <= now
    PROVE  \E m \in Nat : /\ (now - next) \div d + 1 = m
                          /\ next + m * d > now /\ next + m * d \in Nat
<1> DEFINE e == now - next
           q == e \div d
<1>1. e \in Nat /\ now = next + e
  OBVIOUS
<1>2. q \in Nat /\ e < q * d + d
  BY <1>1
<1> HIDE DEF q, e
<1>3. (q + 1) * d = q * d + d /\ q * d \in Nat
  BY <1>2
<1>4. q + 1 \in Nat /\ next + (q + 1) * d > now /\ next + (q + 1) * d \in Nat
  BY <1>1, <1>2, <1>3
<1> QED BY <1>4 DEF q, e

LEMMA TickedIs ==
    ASSUME NEW k \in Tickers, ticker[k] \in TickerRecord, NEW now \in Nat,
           ticker[k].made => \E q \in Nat : ticker[k].next = ticker[k].from + q * ticker[k].d
    PROVE  /\ Ticked(k, now) \in TickerRecord
           /\ Ticked(k, now).made =>
                 /\ \E q \in Nat : Ticked(k, now).next = Ticked(k, now).from + q * Ticked(k, now).d
                 /\ Ticked(k, now).next > now \/ Ticked(k, now).stopped
<1> DEFINE old == ticker[k]
           r == [old EXCEPT !.ch = IF @ = Nothing THEN ticker[k].next ELSE @, !.next = NextTick(k, now)]
<1>1. CASE ~old.made \/ old.stopped \/ old.next > now
  BY <1>1 DEF Ticked
<1>2. CASE ~(~old.made \/ old.stopped \/ old.next > now)
  <2>1. old.next \in Nat /\ old.d \in Nat \ {0} /\ old.from \in Nat /\ old.ch \in {Nothing} \cup Nat
    BY DEF TickerRecord
  <2>2. PICK m \in Nat : /\ (now - old.next) \div old.d + 1 = m
                         /\ old.next + m * old.d > now /\ old.next + m * old.d \in Nat
    <3> DEFINE a == old.next
               b == old.d
    <3>1. a \in Nat /\ b \in Nat \ {0} /\ a <= now
      BY <1>2, <2>1
    <3> HIDE DEF a, b
    <3>2. \E m \in Nat : (now - a) \div b + 1 = m /\ a + m * b > now /\ a + m * b \in Nat
      BY <3>1, NextTickIs
    <3> QED BY <3>2 DEF a, b
  <2>3. NextTick(k, now) = old.next + m * old.d
    BY <2>2, Zenon DEF NextTick
  <2>4. Ticked(k, now) = r
    BY <1>2 DEF Ticked
  <2>5. /\ r \in TickerRecord /\ r.next = old.next + m * old.d /\ r.from = old.from /\ r.d = old.d
    BY <2>1, <2>2, <2>3 DEF TickerRecord
  <2> HIDE DEF r
  <2>6. PICK q \in Nat : old.next = old.from + q * old.d
    BY <1>2
  <2>7. (q + m) * old.d = q * old.d + m * old.d /\ q * old.d \in Nat /\ m * old.d \in Nat
    BY <2>1
  <2>8. r.next = r.from + (q + m) * r.d /\ q + m \in Nat
    BY <2>1, <2>5, <2>6, <2>7
  <2>9. \E i \in Nat : r.next = r.from + i * r.d
    BY <2>8
  <2> QED BY <2>2, <2>4, <2>5, <2>9
<1> QED BY <1>1, <1>2

LEMMA AdvanceInv ==
    ASSUME ClockInv, NEW d \in Steps, AdvanceClock(d)
    PROVE  ClockInv'
<1> DEFINE now == time + d
<1>1. now \in Nat /\ now \in 0..ClockMax /\ now > time
  BY ClockConstantsOK DEF AdvanceClock, ClockInv, ClockTypes
<1>2. /\ time' = now /\ turned' = FALSE /\ calls' = calls
      /\ timer' = [t \in Timers |-> IF Due(t, now) THEN Fired(t, now) ELSE timer[t]]
      /\ listed' = {t \in listed : ~timer[t].stopped /\ ~Due(t, now)}
      /\ ticker' = [k \in Tickers |-> Ticked(k, now)]
  BY DEF AdvanceClock
<1> HIDE DEF now
<1>3. ASSUME NEW k \in Tickers
      PROVE  /\ ticker'[k] \in TickerRecord
             /\ ticker'[k].made =>
                   /\ \E q \in Nat : ticker'[k].next = ticker'[k].from + q * ticker'[k].d
                   /\ ticker'[k].next > now \/ ticker'[k].stopped
  <2>1. ticker[k] \in TickerRecord
    BY DEF ClockInv, ClockTypes
  <2>2. ticker[k].made => \E q \in Nat : ticker[k].next = ticker[k].from + q * ticker[k].d
    BY DEF ClockInv, TickersOK
  <2>3. ticker'[k] = Ticked(k, now)
    BY <1>2
  <2> QED BY <1>1, <2>1, <2>2, <2>3, TickedIs
<1>4. TickersOK'
  BY <1>2, <1>3 DEF TickersOK
<1>5. ASSUME NEW t \in Timers, Due(t, now)
      PROVE  /\ timer'[t] \in TimerRecord /\ timer'[t].made = timer[t].made
             /\ timer'[t].fired = TRUE /\ timer'[t].broken = FALSE /\ timer'[t].quiet = FALSE
             /\ timer'[t].ch # Nothing => timer'[t].ch >= timer'[t].due
  <2>1. timer[t] \in TimerRecord
    BY DEF ClockInv, ClockTypes
  <2>2. /\ timer[t].dead <= now /\ timer[t].quiet = FALSE /\ timer[t].broken = FALSE
        /\ timer[t].ch # Nothing => timer[t].ch >= timer[t].due
    <3>1. ~timer[t].quiet /\ ~timer[t].broken
      BY <1>5 DEF ClockInv, TimersOK, Due
    <3>2. timer[t].quiet \in BOOLEAN /\ timer[t].broken \in BOOLEAN
      BY <2>1 DEF TimerRecord
    <3>3. timer[t].quiet = FALSE /\ timer[t].broken = FALSE
      BY <3>1, <3>2
    <3> QED BY <1>5, <3>3 DEF ClockInv, TimersOK, Due
  <2>3. timer'[t] = Fired(t, now)
    BY <1>2, <1>5
  <2> DEFINE r == Fired(t, now)
             ch == IF timer[t].ch = Nothing THEN now ELSE timer[t].ch
             due == IF timer[t].ch = Nothing THEN timer[t].dead ELSE timer[t].due
  <2>4. ch \in {Nothing} \cup 0..ClockMax /\ due \in Nat /\ (ch # Nothing => ch >= due)
    BY <1>1, <2>1, <2>2 DEF TimerRecord
  <2>5. /\ r.fired = TRUE /\ r.ch = ch /\ r.due = due
        /\ r.broken = (timer[t].broken \/ timer[t].quiet)
    BY <2>1 DEF Fired, TimerRecord
  <2>6. /\ r.made = timer[t].made /\ r.dead = timer[t].dead /\ r.stopped = timer[t].stopped
        /\ r.once = timer[t].once /\ r.quiet = timer[t].quiet
    BY <2>1 DEF Fired, TimerRecord
  <2>7. r \in TimerRecord
    BY <2>1, <2>2, <2>4, <2>5 DEF Fired, TimerRecord
  <2> QED BY <2>2, <2>3, <2>4, <2>5, <2>6, <2>7
<1>6. ASSUME NEW t \in Timers, ~Due(t, now)
      PROVE  timer'[t] = timer[t] /\ timer[t] \in TimerRecord
  BY <1>2, <1>6 DEF ClockInv, ClockTypes
<1>7. timer' \in [Timers -> TimerRecord]
  BY <1>2, <1>5, <1>6
<1>8. ticker' \in [Tickers -> TickerRecord]
  BY <1>2, <1>3
<1>9. ClockTypes'
  BY <1>1, <1>2, <1>7, <1>8 DEF ClockTypes, ClockInv
<1>10. TimersOK'
  <2> SUFFICES ASSUME NEW t \in Timers
               PROVE  /\ t \in listed' => timer'[t].made
                      /\ Armed(t)' => t \in listed' /\ timer'[t].dead > now
                      /\ timer'[t].ch # Nothing => timer'[t].ch >= timer'[t].due
                      /\ timer'[t].quiet => timer'[t].stopped
                      /\ ~timer'[t].broken
    BY <1>2 DEF TimersOK
  <2>1. CASE Due(t, now)
    BY <1>2, <1>5, <2>1 DEF Armed
  <2>2. CASE ~Due(t, now)
    <3>1. /\ t \in listed => timer[t].made
          /\ Armed(t) => t \in listed
          /\ timer[t].ch # Nothing => timer[t].ch >= timer[t].due
          /\ timer[t].quiet => timer[t].stopped
          /\ ~timer[t].broken
      BY DEF ClockInv, TimersOK
    <3>2. timer[t].dead \in Nat
      BY <1>6, <2>2 DEF TimerRecord
    <3> QED BY <1>1, <1>2, <1>6, <2>2, <3>1, <3>2 DEF Armed, Due
  <2> QED BY <2>1, <2>2
<1> QED BY <1>4, <1>9, <1>10 DEF ClockInv

LEMMA SetClockInv ==
    ASSUME ClockInv, NEW now \in 0..ClockMax, SetClock(now)
    PROVE  ClockInv'
<1>1. time' = now /\ turned' = TRUE /\ calls' \in 0..MaxCalls /\ UNCHANGED <<timer, listed, ticker>>
  BY ClockConstantsOK DEF SetClock, ClockInv, ClockTypes
<1> QED BY <1>1 DEF ClockInv, ClockTypes, TimersOK, TickersOK, Armed

\* The parts of the inductive invariant, of the clock.
LEMMA ClockInductive == Spec => []ClockInv
<1>1. ClockInv /\ [ClockNext]_clockVars => ClockInv'
  <2> SUFFICES ASSUME ClockInv, [ClockNext]_clockVars PROVE ClockInv'
    OBVIOUS
  <2>1. CASE UNCHANGED clockVars
    BY <2>1 DEF clockVars, ClockInv, ClockTypes, TimersOK, TickersOK, Armed
  <2>2. CASE \E t \in Timers : StopTimer(t) \/ ReadTimer(t) \/ \E d \in Waits : NewTimer(t, d) \/ ResetTimer(t, d)
    BY <2>2, StopTimerInv, ReadTimerInv, NewTimerInv, ResetTimerInv
  <2>3. CASE \E k \in Tickers : StopTicker(k) \/ ReadTicker(k) \/ \E d \in Waits : NewTicker(k, d) \/ ResetTicker(k, d)
    BY <2>3, StopTickerInv, ReadTickerInv, NewTickerInv, ResetTickerInv
  <2>4. CASE (\E d \in Steps : AdvanceClock(d)) \/ (\E now \in 0..ClockMax : SetClock(now))
    BY <2>4, AdvanceInv, SetClockInv
  <2> QED BY <2>1, <2>2, <2>3, <2>4 DEF ClockNext
<1> QED BY <1>1, ClockInitially, ClockBehaves, PTL

LEMMA Multiple ==
    ASSUME NEW q \in Nat, NEW d \in Nat \ {0}
    PROVE  (q * d) % d = 0
OBVIOUS

\* Stop, Reset, Set and Advance in any order: a timer that waits is in the list of
\* the fake clock and not due, it fires neither early nor while it is stopped, and a
\* ticker keeps to the multiples of its period (clock.go Advance, fakeTimer.Stop).
THEOREM FakeClockKeepsTime == Spec => []TimersKeepTime
<1>1. ClockInv => TimersKeepTime
  <2> SUFFICES ASSUME ClockInv PROVE TimersKeepTime
    OBVIOUS
  <2>1. ASSUME NEW k \in Tickers, ticker[k].made
        PROVE  (ticker[k].next - ticker[k].from) % ticker[k].d = 0
    <3>1. ticker[k].from \in Nat /\ ticker[k].d \in Nat \ {0}
      BY DEF ClockInv, ClockTypes, TickerRecord
    <3>2. PICK q \in Nat : ticker[k].next = ticker[k].from + q * ticker[k].d
      BY <2>1 DEF ClockInv, TickersOK
    <3>3. ticker[k].next - ticker[k].from = q * ticker[k].d
      BY <3>1, <3>2
    <3> QED BY <3>1, <3>3, Multiple
  <2> QED BY <2>1 DEF ClockInv, TimersOK, TickersOK, TimersKeepTime
<1> QED BY <1>1, ClockInductive, PTL

-----------------------------------------------------------------------------
(* Stop group *)

Alive(c) == part[c] \in {"runs", "ending"}
PartsAlive == {c \in Parts : Alive(c)}
StopLabels == {"new", "hooks", "waits", "nil", "panics"}

StopTypes ==
    /\ canceled \in BOOLEAN
    /\ part \in [Parts -> {"new", "tested", "runs", "ending", "ended"}]
    /\ counter = Cardinality(PartsAlive)
    /\ errs \subseteq Parts \cup Hooks \cup Stoppers
    /\ stop \in [Stoppers -> StopLabels] /\ counted \in [Stoppers -> BOOLEAN]

\* A Stop has run some of the first hooks, from the last of them on, and has still to
\* run those before.
HooksOK ==
    /\ hooks \in Seq(Hooks) /\ todo \in [Stoppers -> Seq(Hooks)] /\ ran \in [Stoppers -> Seq(Hooks)]
    /\ \A s \in Stoppers :
        /\ Len(ran[s]) + Len(todo[s]) <= Len(hooks)
        /\ \A i \in 1..Len(ran[s]) : ran[s][i] = hooks[Len(ran[s]) + Len(todo[s]) + 1 - i]
        /\ \A i \in 1..Len(todo[s]) : todo[s][i] = hooks[Len(todo[s]) + 1 - i]
        /\ stop[s] = "new" => ran[s] = <<>>
        /\ stop[s] \in {"waits", "nil", "panics"} => todo[s] = <<>>

\* When a Stop has seen the WaitGroup at zero, only components that Add let in too
\* late can be left.
WaitsOK ==
    /\ \A s \in Stoppers :
        /\ stop[s] # "new" => canceled
        /\ counted[s] => stop[s] \in {"waits", "nil", "panics"} /\ \A c \in Parts \ late : ~Alive(c)
        /\ stop[s] \in {"nil", "panics"} => counted[s] \/ s \in timedOut
    /\ (failed # {} \/ timedOut # {}) => errs # {}

NilOK ==
    \A s \in Stoppers : stop[s] = "nil" =>
        /\ counted[s] /\ s \notin timedOut
        /\ \A h \in Hooks : <<s, h>> \notin failed
        /\ \A c \in Parts \ late : c \notin failed

StopInv == StopTypes /\ HooksOK /\ WaitsOK /\ NilOK

LEMMA ReverseIs ==
    ASSUME NEW S, NEW s \in Seq(S)
    PROVE  /\ Reverse(s) \in Seq(S) /\ Len(Reverse(s)) = Len(s)
           /\ \A i \in 1..Len(s) : Reverse(s)[i] = s[Len(s) + 1 - i]
<1>1. Len(s) \in Nat /\ \A i \in 1..Len(s) : s[i] \in S
  BY ElementOfSeq, LenProperties
<1>2. Reverse(s) = [i \in 1..Len(s) |-> s[(Len(s) - i) + 1]]
  BY DEF Reverse
<1>3. \A i \in 1..Len(s) : (Len(s) - i) + 1 \in 1..Len(s) /\ (Len(s) - i) + 1 = Len(s) + 1 - i
  BY <1>1
<1>4. [i \in 1..Len(s) |-> s[(Len(s) - i) + 1]] \in [1..Len(s) -> S]
  BY <1>1, <1>3
<1>5. Reverse(s) \in Seq(S)
  BY <1>1, <1>2, <1>4, SeqDef
<1>6. DOMAIN Reverse(s) = 1..Len(s)
  BY <1>2
<1>7. Len(Reverse(s)) = Len(s)
  BY <1>1, <1>5, <1>6, LenProperties
<1> QED BY <1>2, <1>3, <1>5, <1>7

LEMMA PartsAliveFinite == IsFiniteSet(PartsAlive) /\ Cardinality(PartsAlive) \in Nat
<1>1. PartsAlive \subseteq Parts
  BY DEF PartsAlive
<1> QED BY <1>1, StopConstantsOK, FS_Subset, FS_CardinalityType

LEMMA StopInitially == StopInit => StopInv
<1> SUFFICES ASSUME StopInit PROVE StopInv
  OBVIOUS
<1>1. /\ canceled = FALSE /\ part = [c \in Parts |-> "new"] /\ counter = 0
      /\ hooks = <<>> /\ errs = {}
      /\ stop = [s \in Stoppers |-> "new"] /\ todo = [s \in Stoppers |-> <<>>]
      /\ counted = [s \in Stoppers |-> FALSE] /\ timedOut = {}
      /\ late = {} /\ failed = {} /\ ran = [s \in Stoppers |-> <<>>]
  BY DEF StopInit
<1>2. PartsAlive = {}
  BY <1>1 DEF PartsAlive, Alive
<1>3. StopTypes
  <2>1. Cardinality(PartsAlive) = 0
    BY <1>2, FS_EmptySet
  <2> QED BY <1>1, <2>1 DEF StopTypes, StopLabels
<1>4. HooksOK
  <2>1. <<>> \in Seq(Hooks) /\ Len(<<>>) = 0 /\ 0 + 0 <= 0 /\ 1..0 = {}
    OBVIOUS
  <2>2. hooks \in Seq(Hooks) /\ todo \in [Stoppers -> Seq(Hooks)] /\ ran \in [Stoppers -> Seq(Hooks)]
    BY <1>1, <2>1
  <2>3. \A s \in Stoppers : ran[s] = <<>> /\ todo[s] = <<>> /\ stop[s] = "new"
    BY <1>1
  <2> QED BY <1>1, <2>1, <2>2, <2>3 DEF HooksOK
<1>5. WaitsOK /\ NilOK
  BY <1>1 DEF WaitsOK, NilOK
<1> QED BY <1>3, <1>4, <1>5 DEF StopInv

\* The steps that leave the hooks and what has been run alone.
LEMMA HooksRest ==
    ASSUME HooksOK, UNCHANGED <<hooks, todo, ran>>,
           \A s \in Stoppers : stop'[s] = "new" => stop[s] = "new",
           \A s \in Stoppers : stop'[s] \in {"waits", "nil", "panics"} =>
                stop[s] \in {"waits", "nil", "panics"} \/ todo[s] = <<>>
    PROVE  HooksOK'
BY DEF HooksOK

\* TestContext, Join, Return and Done move one component.
LEMMA PartMoves ==
    ASSUME StopTypes, NEW c \in Parts, NEW to \in {"tested", "runs", "ending", "ended"},
           part' = [part EXCEPT ![c] = to]
    PROVE  /\ part' \in [Parts -> {"new", "tested", "runs", "ending", "ended"}]
           /\ \A d \in Parts : part'[d] = IF d = c THEN to ELSE part[d]
           /\ Cardinality(PartsAlive') =
                 IF Alive(c) /\ to \notin {"runs", "ending"} THEN Cardinality(PartsAlive) - 1
                 ELSE IF ~Alive(c) /\ to \in {"runs", "ending"} THEN Cardinality(PartsAlive) + 1
                 ELSE Cardinality(PartsAlive)
<1>1. /\ part' \in [Parts -> {"new", "tested", "runs", "ending", "ended"}]
      /\ \A d \in Parts : part'[d] = IF d = c THEN to ELSE part[d]
  BY DEF StopTypes
<1>2. PartsAlive' = IF to \in {"runs", "ending"} THEN PartsAlive \cup {c} ELSE PartsAlive \ {c}
  BY <1>1 DEF PartsAlive, Alive
<1>3. c \in PartsAlive <=> Alive(c)
  BY DEF PartsAlive
<1>4. CASE to \in {"runs", "ending"}
  BY <1>1, <1>2, <1>3, <1>4, PartsAliveFinite, FS_AddElement
<1>5. CASE to \notin {"runs", "ending"}
  BY <1>1, <1>2, <1>3, <1>5, PartsAliveFinite, FS_RemoveElement
<1> QED BY <1>1, <1>4, <1>5

LEMMA PartInv ==
    ASSUME StopInv, NEW c \in Parts, TestContext(c) \/ Join(c) \/ Done(c) \/ \E fails \in BOOLEAN : Return(c, fails)
    PROVE  StopInv'
<1>1. /\ UNCHANGED <<canceled, hooks, stop, todo, counted, timedOut, ran>>
      /\ late \subseteq late' /\ errs \subseteq errs' /\ errs' \subseteq errs \cup {c}
      /\ failed \subseteq failed' /\ failed' \subseteq failed \cup {c}
      /\ failed' # failed => errs' # {} /\ Alive(c)
  BY DEF TestContext, Join, Done, Return, Alive
<1>2. PICK to \in {"tested", "runs", "ending", "ended"} :
         /\ part' = [part EXCEPT ![c] = to]
         /\ to \in {"runs", "ending"} => Alive(c) \/ (part[c] = "tested" /\ (canceled => c \in late'))
         /\ counter' = IF Alive(c) /\ to \notin {"runs", "ending"} THEN counter - 1
                       ELSE IF ~Alive(c) /\ to \in {"runs", "ending"} THEN counter + 1
                       ELSE counter
  <2>1. CASE TestContext(c)
    BY <2>1 DEF TestContext, Alive
  <2>2. CASE Join(c)
    BY <2>2 DEF Join, Alive
  <2>3. CASE Done(c)
    BY <2>3 DEF Done, Recorded, Alive
  <2>4. CASE \E fails \in BOOLEAN : Return(c, fails)
    BY <2>4 DEF Return, Alive
  <2> QED BY <2>1, <2>2, <2>3, <2>4
<1>3. /\ part' \in [Parts -> {"new", "tested", "runs", "ending", "ended"}]
      /\ \A d \in Parts : part'[d] = IF d = c THEN to ELSE part[d]
      /\ counter' = Cardinality(PartsAlive')
  BY <1>2, PartMoves DEF StopInv, StopTypes
<1>4. StopTypes'
  BY <1>1, <1>3 DEF StopInv, StopTypes
<1>5. HooksOK'
  BY <1>1 DEF StopInv, HooksOK
<1>6. WaitsOK'
  <2>1. ASSUME NEW s \in Stoppers, counted[s], NEW d \in Parts \ late' PROVE ~Alive(d)'
    <3>1. ~Alive(d) /\ canceled
      BY <1>1, <2>1 DEF StopInv, WaitsOK
    <3> QED BY <1>2, <1>3, <2>1, <3>1 DEF Alive
  <2> QED BY <1>1, <2>1 DEF StopInv, WaitsOK
<1>7. NilOK'
  <2> SUFFICES ASSUME NEW s \in Stoppers, stop[s] = "nil"
               PROVE  /\ \A h \in Hooks : <<s, h>> \notin failed'
                      /\ \A d \in Parts \ late' : d \notin failed'
    BY <1>1 DEF StopInv, NilOK
  <2>1. /\ counted[s] /\ \A h \in Hooks : <<s, h>> \notin failed
        /\ \A d \in Parts \ late : d \notin failed /\ ~Alive(d)
    BY DEF StopInv, NilOK, WaitsOK
  <2>2. \A h \in Hooks : <<s, h>> # c
    BY StopConstantsOK
  <2> QED BY <1>1, <2>1, <2>2
<1> QED BY <1>4, <1>5, <1>6, <1>7 DEF StopInv

LEMMA ParentInv ==
    ASSUME StopInv, ParentEnds
    PROVE  StopInv'
BY DEF ParentEnds, StopInv, StopTypes, PartsAlive, Alive, HooksOK, WaitsOK, NilOK

LEMMA OnStopInv ==
    ASSUME StopInv, NEW h \in Hooks, OnStop(h)
    PROVE  StopInv'
<1>1. /\ hooks' = Append(hooks, h)
      /\ UNCHANGED <<canceled, part, counter, errs, stop, todo, counted, timedOut, late, failed, ran>>
  BY DEF OnStop
<1>2. StopTypes' /\ WaitsOK' /\ NilOK'
  BY <1>1 DEF StopInv, StopTypes, PartsAlive, Alive, WaitsOK, NilOK
<1>3. HooksOK'
  <2>1. hooks \in Seq(Hooks) /\ Len(hooks) \in Nat
    BY LenProperties DEF StopInv, HooksOK
  <2>2. /\ hooks' \in Seq(Hooks) /\ Len(hooks') = Len(hooks) + 1
        /\ \A i \in 1..Len(hooks) : hooks'[i] = hooks[i]
    BY <1>1, <2>1, AppendProperties
  <2>3. ASSUME NEW s \in Stoppers
        PROVE  /\ Len(ran[s]) + Len(todo[s]) <= Len(hooks')
               /\ \A i \in 1..Len(ran[s]) : ran[s][i] = hooks'[Len(ran[s]) + Len(todo[s]) + 1 - i]
               /\ \A i \in 1..Len(todo[s]) : todo[s][i] = hooks'[Len(todo[s]) + 1 - i]
    <3>1. PICK a, b, m \in Nat : a = Len(ran[s]) /\ b = Len(todo[s]) /\ m = Len(hooks)
      BY <2>1, LenProperties DEF StopInv, HooksOK
    <3>2. /\ a + b <= m
          /\ \A i \in 1..a : ran[s][i] = hooks[a + b + 1 - i]
          /\ \A i \in 1..b : todo[s][i] = hooks[b + 1 - i]
      BY <3>1 DEF StopInv, HooksOK
    <3>3. /\ \A i \in 1..a : a + b + 1 - i \in 1..m
          /\ \A i \in 1..b : b + 1 - i \in 1..m
      BY <3>2
    <3>4. \A j \in 1..m : hooks'[j] = hooks[j]
      BY <2>2, <3>1
    <3> HIDE <3>1
    <3>5. /\ a + b <= m + 1
          /\ \A i \in 1..a : ran[s][i] = hooks'[a + b + 1 - i]
          /\ \A i \in 1..b : todo[s][i] = hooks'[b + 1 - i]
      BY <3>2, <3>3, <3>4
    <3> QED BY <2>2, <3>1, <3>5
  <2> QED BY <1>1, <2>2, <2>3 DEF StopInv, HooksOK
<1> QED BY <1>2, <1>3 DEF StopInv

LEMMA StopBeginsInv ==
    ASSUME StopInv, NEW s \in Stoppers, StopBegins(s)
    PROVE  StopInv'
<1>1. /\ stop[s] = "new" /\ canceled' = TRUE
      /\ stop' = [stop EXCEPT ![s] = "hooks"] /\ todo' = [todo EXCEPT ![s] = Reverse(hooks)]
      /\ UNCHANGED <<part, counter, hooks, errs, counted, timedOut, late, failed, ran>>
  BY DEF StopBegins, LastFirst
<1>2. \A u \in Stoppers : stop'[u] = IF u = s THEN "hooks" ELSE stop[u]
  BY <1>1 DEF StopInv, StopTypes
<1>3. StopTypes'
  BY <1>1 DEF StopInv, StopTypes, StopLabels, PartsAlive, Alive
<1>4. HooksOK'
  <2>1. /\ hooks \in Seq(Hooks) /\ todo \in [Stoppers -> Seq(Hooks)] /\ ran \in [Stoppers -> Seq(Hooks)]
        /\ ran[s] = <<>> /\ Len(ran[s]) = 0 /\ Len(hooks) \in Nat
    BY <1>1, LenProperties DEF StopInv, HooksOK
  <2>2. /\ Reverse(hooks) \in Seq(Hooks) /\ Len(Reverse(hooks)) = Len(hooks)
        /\ \A i \in 1..Len(hooks) : Reverse(hooks)[i] = hooks[Len(hooks) + 1 - i]
    BY <2>1, ReverseIs
  <2>3. /\ todo' \in [Stoppers -> Seq(Hooks)] /\ todo'[s] = Reverse(hooks)
        /\ \A u \in Stoppers : u # s => todo'[u] = todo[u]
    BY <1>1, <2>1, <2>2
  <2>4. /\ Len(ran'[s]) + Len(todo'[s]) <= Len(hooks')
        /\ \A i \in 1..Len(ran'[s]) : ran'[s][i] = hooks'[Len(ran'[s]) + Len(todo'[s]) + 1 - i]
        /\ \A i \in 1..Len(todo'[s]) : todo'[s][i] = hooks'[Len(todo'[s]) + 1 - i]
        /\ stop'[s] = "new" => ran'[s] = <<>>
        /\ stop'[s] \in {"waits", "nil", "panics"} => todo'[s] = <<>>
    BY <1>1, <1>2, <2>1, <2>2, <2>3
  <2>5. ASSUME NEW u \in Stoppers, u # s
        PROVE  /\ Len(ran'[u]) + Len(todo'[u]) <= Len(hooks')
               /\ \A i \in 1..Len(ran'[u]) : ran'[u][i] = hooks'[Len(ran'[u]) + Len(todo'[u]) + 1 - i]
               /\ \A i \in 1..Len(todo'[u]) : todo'[u][i] = hooks'[Len(todo'[u]) + 1 - i]
               /\ stop'[u] = "new" => ran'[u] = <<>>
               /\ stop'[u] \in {"waits", "nil", "panics"} => todo'[u] = <<>>
    <3>1. todo'[u] = todo[u] /\ ran'[u] = ran[u] /\ stop'[u] = stop[u] /\ hooks' = hooks
      BY <1>1, <1>2, <2>3, <2>5
    <3> QED BY <3>1 DEF StopInv, HooksOK
  <2>6. hooks' \in Seq(Hooks) /\ todo' \in [Stoppers -> Seq(Hooks)] /\ ran' \in [Stoppers -> Seq(Hooks)]
    BY <1>1, <2>1, <2>3
  <2> QED BY <2>4, <2>5, <2>6, SMTT(30) DEF HooksOK
<1>5. WaitsOK' /\ NilOK'
  BY <1>1, <1>2 DEF StopInv, WaitsOK, NilOK, Alive
<1> QED BY <1>3, <1>4, <1>5 DEF StopInv

LEMMA RunHookInv ==
    ASSUME StopInv, NEW s \in Stoppers, NEW fails \in BOOLEAN, RunHook(s, fails)
    PROVE  StopInv'
<1> DEFINE h == Head(todo[s])
<1>1. /\ stop[s] = "hooks" /\ todo[s] # <<>>
      /\ todo' = [todo EXCEPT ![s] = Tail(todo[s])] /\ ran' = [ran EXCEPT ![s] = Append(ran[s], h)]
      /\ UNCHANGED <<canceled, part, counter, hooks, stop, counted, timedOut, late>>
  BY DEF RunHook, StopInv, HooksOK
<1>2. /\ errs' = IF fails THEN errs \cup {h} ELSE errs
      /\ failed' = IF fails THEN failed \cup {<<s, h>>} ELSE failed
  BY DEF RunHook
<1>3. hooks \in Seq(Hooks) /\ todo[s] \in Seq(Hooks) /\ ran[s] \in Seq(Hooks)
  BY DEF StopInv, HooksOK
<1>4. /\ h \in Hooks /\ h = todo[s][1]
      /\ Tail(todo[s]) \in Seq(Hooks) /\ Len(Tail(todo[s])) = Len(todo[s]) - 1
      /\ \A i \in 1..Len(Tail(todo[s])) : Tail(todo[s])[i] = todo[s][i + 1]
      /\ Len(todo[s]) \in Nat \ {0}
  BY <1>1, <1>3, HeadTailProperties, LenProperties, EmptySeq
<1> HIDE DEF h
<1>5. StopTypes'
  BY <1>1, <1>2, <1>4 DEF StopInv, StopTypes, PartsAlive, Alive
<1>6. HooksOK'
  <2>1. /\ Append(ran[s], h) \in Seq(Hooks) /\ Len(Append(ran[s], h)) = Len(ran[s]) + 1
        /\ \A i \in 1..Len(ran[s]) : Append(ran[s], h)[i] = ran[s][i]
        /\ Append(ran[s], h)[Len(ran[s]) + 1] = h /\ Len(ran[s]) \in Nat
    BY <1>3, <1>4, AppendProperties, LenProperties
  <2>2. /\ todo' \in [Stoppers -> Seq(Hooks)] /\ ran' \in [Stoppers -> Seq(Hooks)]
        /\ todo'[s] = Tail(todo[s]) /\ ran'[s] = Append(ran[s], h)
        /\ \A u \in Stoppers : u # s => todo'[u] = todo[u] /\ ran'[u] = ran[u]
    BY <1>1, <1>4, <2>1 DEF StopInv, HooksOK
  <2>3. /\ Len(ran'[s]) + Len(todo'[s]) <= Len(hooks')
        /\ \A i \in 1..Len(ran'[s]) : ran'[s][i] = hooks'[Len(ran'[s]) + Len(todo'[s]) + 1 - i]
        /\ \A i \in 1..Len(todo'[s]) : todo'[s][i] = hooks'[Len(todo'[s]) + 1 - i]
    <3>1. PICK a, b, m \in Nat : a = Len(ran[s]) /\ b + 1 = Len(todo[s]) /\ m = Len(hooks)
      <4>1. Len(todo[s]) - 1 \in Nat /\ (Len(todo[s]) - 1) + 1 = Len(todo[s]) /\ Len(hooks) \in Nat
        BY <1>3, <1>4, LenProperties
      <4> QED BY <2>1, <4>1
    <3>2. /\ a + (b + 1) <= m
          /\ \A i \in 1..a : ran[s][i] = hooks[a + (b + 1) + 1 - i]
          /\ \A i \in 1..(b + 1) : todo[s][i] = hooks[(b + 1) + 1 - i]
      <4>1. /\ Len(ran[s]) + Len(todo[s]) <= Len(hooks)
            /\ \A i \in 1..Len(ran[s]) : ran[s][i] = hooks[Len(ran[s]) + Len(todo[s]) + 1 - i]
            /\ \A i \in 1..Len(todo[s]) : todo[s][i] = hooks[Len(todo[s]) + 1 - i]
        BY DEF StopInv, HooksOK
      <4> QED BY <3>1, <4>1
    <3>3. /\ Len(ran'[s]) = a + 1 /\ Len(todo'[s]) = b
          /\ \A i \in 1..a : ran'[s][i] = ran[s][i]
          /\ ran'[s][a + 1] = todo[s][1]
          /\ \A i \in 1..b : todo'[s][i] = todo[s][i + 1]
      BY <1>4, <2>1, <2>2, <3>1
    <3> HIDE <3>1
    <3>4. \A i \in 1..(a + 1) : ran'[s][i] = hooks[(a + 1) + b + 1 - i]
      <4> TAKE i \in 1..(a + 1)
      <4>1. CASE i = a + 1
        <5>1. todo[s][1] = hooks[(b + 1) + 1 - 1] /\ (b + 1) + 1 - 1 = (a + 1) + b + 1 - (a + 1)
          BY <3>2
        <5> QED BY <3>3, <4>1, <5>1
      <4>2. CASE i # a + 1
        <5>1. i \in 1..a /\ a + (b + 1) + 1 - i = (a + 1) + b + 1 - i
          BY <4>2
        <5> QED BY <3>2, <3>3, <5>1
      <4> QED BY <4>1, <4>2
    <3>5. \A i \in 1..b : todo'[s][i] = hooks[b + 1 - i]
      <4> TAKE i \in 1..b
      <4>1. i + 1 \in 1..(b + 1) /\ (b + 1) + 1 - (i + 1) = b + 1 - i
        OBVIOUS
      <4> QED BY <3>2, <3>3, <4>1
    <3>6. (a + 1) + b <= m
      BY <3>2
    <3> QED BY <1>1, <3>1, <3>3, <3>4, <3>5, <3>6, ZenonT(40)
  <2> QED BY <1>1, <2>2, <2>3, SMTT(30) DEF StopInv, HooksOK
<1>7. WaitsOK'
  BY <1>1, <1>2 DEF StopInv, WaitsOK, Alive
<1>8. NilOK'
  <2> SUFFICES ASSUME NEW u \in Stoppers, stop[u] = "nil"
               PROVE  /\ \A g \in Hooks : <<u, g>> \notin failed'
                      /\ \A d \in Parts \ late : d \notin failed'
    BY <1>1 DEF StopInv, NilOK
  <2>1. u # s /\ (\A g \in Hooks : <<u, g>> \notin failed) /\ (\A d \in Parts \ late : d \notin failed)
    BY <1>1 DEF StopInv, NilOK
  <2>2. \A d \in Parts : d # <<s, h>>
    BY <1>4, StopConstantsOK
  <2> QED BY <1>2, <2>1, <2>2
<1> QED BY <1>5, <1>6, <1>7, <1>8 DEF StopInv

LEMMA HooksDoneInv ==
    ASSUME StopInv, NEW s \in Stoppers, HooksDone(s)
    PROVE  StopInv'
<1>1. /\ stop[s] = "hooks" /\ todo[s] = <<>>
      /\ stop' = [stop EXCEPT ![s] = "waits"]
      /\ UNCHANGED <<canceled, part, counter, hooks, errs, todo, counted, timedOut, late, failed, ran>>
  BY DEF HooksDone
<1>2. \A u \in Stoppers : stop'[u] = IF u = s THEN "waits" ELSE stop[u]
  BY <1>1 DEF StopInv, StopTypes
<1>3. StopTypes'
  BY <1>1 DEF StopInv, StopTypes, StopLabels, PartsAlive, Alive
<1>4. HooksOK'
  <2>1. /\ \A u \in Stoppers : stop'[u] = "new" => stop[u] = "new"
        /\ \A u \in Stoppers : stop'[u] \in {"waits", "nil", "panics"} =>
                stop[u] \in {"waits", "nil", "panics"} \/ todo[u] = <<>>
    BY <1>1, <1>2
  <2> QED BY <1>1, <2>1, HooksRest DEF StopInv
<1>5. WaitsOK' /\ NilOK'
  BY <1>1, <1>2 DEF StopInv, WaitsOK, NilOK, Alive
<1> QED BY <1>3, <1>4, <1>5 DEF StopInv

\* The WaitGroup is at zero: nobody runs.
LEMMA CountedInv ==
    ASSUME StopInv, NEW s \in Stoppers, Counted(s)
    PROVE  StopInv'
<1>1. /\ stop[s] = "waits" /\ counter = 0 /\ counted' = [counted EXCEPT ![s] = TRUE]
      /\ UNCHANGED <<canceled, part, counter, hooks, errs, stop, todo, timedOut, late, failed, ran>>
  BY DEF Counted, NobodyLeft
<1>2. /\ \A u \in Stoppers : counted'[u] = IF u = s THEN TRUE ELSE counted[u]
      /\ counted' \in [Stoppers -> BOOLEAN]
  BY <1>1 DEF StopInv, StopTypes
<1>3. \A c \in Parts : ~Alive(c)
  <2>1. PartsAlive = {}
    BY <1>1, PartsAliveFinite, FS_EmptySet DEF StopInv, StopTypes
  <2> QED BY <2>1 DEF PartsAlive
<1>4. StopTypes'
  BY <1>1, <1>2 DEF StopInv, StopTypes, PartsAlive, Alive
<1>5. HooksOK'
  BY <1>1, HooksRest DEF StopInv
<1>6. WaitsOK'
  BY <1>1, <1>2, <1>3 DEF StopInv, WaitsOK, Alive
<1>7. NilOK'
  BY <1>1, <1>2 DEF StopInv, NilOK
<1> QED BY <1>4, <1>5, <1>6, <1>7 DEF StopInv

LEMMA TimesOutInv ==
    ASSUME StopInv, NEW s \in Stoppers, TimesOut(s)
    PROVE  StopInv'
<1>1. /\ stop[s] = "waits" /\ timedOut' = timedOut \cup {s} /\ errs' = errs \cup {s}
      /\ UNCHANGED <<canceled, part, counter, hooks, stop, todo, counted, late, failed, ran>>
  BY DEF TimesOut
<1>2. StopTypes'
  BY <1>1 DEF StopInv, StopTypes, PartsAlive, Alive
<1>3. HooksOK'
  BY <1>1, HooksRest DEF StopInv
<1>4. WaitsOK' /\ NilOK'
  BY <1>1 DEF StopInv, WaitsOK, NilOK, Alive
<1> QED BY <1>2, <1>3, <1>4 DEF StopInv

\* A failure and a timeout leave an error behind them, and so no nil.
LEMMA StopReturnsInv ==
    ASSUME StopInv, NEW s \in Stoppers, StopReturns(s)
    PROVE  StopInv'
<1>1. /\ stop[s] = "waits" /\ (counted[s] \/ s \in timedOut)
      /\ stop' = [stop EXCEPT ![s] = IF errs = {} THEN "nil" ELSE "panics"]
      /\ UNCHANGED <<canceled, part, counter, hooks, errs, todo, counted, timedOut, late, failed, ran>>
  BY DEF StopReturns
<1>2. /\ \A u \in Stoppers : u # s => stop'[u] = stop[u]
      /\ stop'[s] = IF errs = {} THEN "nil" ELSE "panics"
  BY <1>1 DEF StopInv, StopTypes
<1>3. StopTypes'
  BY <1>1 DEF StopInv, StopTypes, StopLabels, PartsAlive, Alive
<1>4. HooksOK'
  <2>1. /\ \A u \in Stoppers : stop'[u] = "new" => stop[u] = "new"
        /\ \A u \in Stoppers : stop'[u] \in {"waits", "nil", "panics"} =>
                stop[u] \in {"waits", "nil", "panics"} \/ todo[u] = <<>>
    BY <1>1, <1>2
  <2> QED BY <1>1, <2>1, HooksRest DEF StopInv
<1>5. WaitsOK'
  BY <1>1, <1>2 DEF StopInv, WaitsOK, Alive
<1>6. NilOK'
  <2> SUFFICES ASSUME NEW u \in Stoppers, stop'[u] = "nil"
               PROVE  /\ counted[u] /\ u \notin timedOut
                      /\ \A h \in Hooks : <<u, h>> \notin failed
                      /\ \A c \in Parts \ late : c \notin failed
    BY <1>1 DEF NilOK
  <2>1. CASE u = s
    BY <1>1, <1>2, <2>1 DEF StopInv, WaitsOK
  <2>2. CASE u # s
    BY <1>2, <2>2 DEF StopInv, NilOK
  <2> QED BY <2>1, <2>2
<1> QED BY <1>3, <1>4, <1>5, <1>6 DEF StopInv

LEMMA StopInductive == Spec => []StopInv
<1>1. StopInv /\ [StopNext]_stopVars => StopInv'
  <2> SUFFICES ASSUME StopInv, [StopNext]_stopVars PROVE StopInv'
    OBVIOUS
  <2>1. CASE UNCHANGED stopVars
    BY <2>1 DEF stopVars, StopInv, StopTypes, PartsAlive, Alive, HooksOK, WaitsOK, NilOK
  <2>2. CASE StopNext
    BY <2>2, PartInv, ParentInv, OnStopInv, StopBeginsInv, RunHookInv, HooksDoneInv,
       CountedInv, TimesOutInv, StopReturnsInv DEF StopNext
  <2> QED BY <2>1, <2>2
<1> QED BY <1>1, StopInitially, StopBehaves, PTL

\* However components, hooks and Stops interleave, a Stop that returns in time leaves
\* no component but those whose Add raced it, and nil means that its hooks ran in
\* reverse order and that nothing it waited for has failed (group.go Stop, Go, Add).
THEOREM StopHasWaited == Spec => []StopWaitsForAll
<1>1. StopInv => StopWaitsForAll
  <2> SUFFICES ASSUME StopInv, NEW s \in Stoppers
               PROVE  /\ stop[s] \in {"nil", "panics"} /\ s \notin timedOut =>
                            \A c \in Parts \ late : part[c] \notin {"runs", "ending"}
                      /\ stop[s] = "nil" =>
                            /\ todo[s] = <<>> /\ s \notin timedOut
                            /\ ran[s] = Reverse(SubSeq(hooks, 1, Len(ran[s])))
                            /\ \A h \in Hooks : <<s, h>> \notin failed
                            /\ \A c \in Parts \ late : c \notin failed
    BY DEF StopWaitsForAll
  <2>1. ASSUME stop[s] = "nil" PROVE ran[s] = Reverse(SubSeq(hooks, 1, Len(ran[s])))
    <3>1. /\ hooks \in Seq(Hooks) /\ ran[s] \in Seq(Hooks) /\ todo[s] = <<>>
          /\ Len(ran[s]) + Len(todo[s]) <= Len(hooks)
          /\ \A i \in 1..Len(ran[s]) : ran[s][i] = hooks[Len(ran[s]) + Len(todo[s]) + 1 - i]
      BY <2>1 DEF StopInv, HooksOK
    <3>2. PICK a \in Nat : a = Len(ran[s])
      BY <3>1, LenProperties
    <3>3. Len(hooks) \in Nat /\ Len(todo[s]) = 0
      BY <3>1, LenProperties
    <3>4. /\ a <= Len(hooks)
          /\ \A i \in 1..a : ran[s][i] = hooks[a + 1 - i]
      BY <3>1, <3>2, <3>3
    <3> DEFINE p == SubSeq(hooks, 1, a)
    <3>5. p \in Seq(Hooks) /\ Len(p) = a /\ \A i \in 1..a : p[i] = hooks[i]
      BY <3>1, <3>3, <3>4, SubSeqProperties
    <3> HIDE DEF p
    <3>6. /\ Reverse(p) \in Seq(Hooks) /\ Len(Reverse(p)) = a
          /\ \A i \in 1..a : Reverse(p)[i] = p[a + 1 - i]
      BY <3>5, ReverseIs
    <3>7. \A i \in 1..a : ran[s][i] = Reverse(p)[i]
      <4> TAKE i \in 1..a
      <4>1. a + 1 - i \in 1..a
        OBVIOUS
      <4> QED BY <3>4, <3>5, <3>6, <4>1
    <3>8. ran[s] = Reverse(p)
      BY <3>1, <3>2, <3>6, <3>7, SeqEqual
    <3> QED BY <3>2, <3>8 DEF p
  <2> QED BY <2>1 DEF StopInv, WaitsOK, HooksOK, NilOK, Alive
<1> QED BY <1>1, StopInductive, PTL

-----------------------------------------------------------------------------
(* Single flight *)

FlightRecord ==
    [key : FlightKeys, state : {"runs", "ended", "done"}, val : Nat, err : Nat,
     how : {"none", "value", "error", "panic"}, forgotten : BOOLEAN]
FlyerRecord == [does : {"nothing", "waits", "calls"}, call : Nat]
LandedRecord == [val : Nat, err : Nat, shared : BOOLEAN, call : Nat]

FlightTypes ==
    /\ flight \in Seq(FlightRecord) /\ Len(flight) <= MaxFlights
    /\ flying \in [FlightKeys -> Nat] /\ forgotUpTo \in [FlightKeys -> Nat]
    /\ flyer \in [Flyers -> FlyerRecord] /\ askedAt \in [Flyers -> Nat]
    /\ landed \in [Flyers -> LandedRecord]

\* A key leads to its call while that is neither done nor forgotten.
Leads(i) == flying[flight[i].key] = i <=> flight[i].state # "done" /\ ~flight[i].forgotten

\* What a call has returned is named by its number.
Returned(i) ==
    /\ flight[i].state = "runs" <=> flight[i].how = "none"
    /\ flight[i].how = "value" => flight[i].val = i /\ flight[i].err = 0
    /\ flight[i].how = "error" => flight[i].val = 0 /\ flight[i].err = i
    /\ flight[i].how = "panic" => flight[i].val = MaxFlights + 1 /\ flight[i].err = 0

FlightsOK == \A i \in 1..Len(flight) : Leads(i) /\ Returned(i)

\* A key leads to a call of its own, made after the last Forget.
KeysOK ==
    \A k \in FlightKeys :
        /\ forgotUpTo[k] <= Len(flight)
        /\ flying[k] # 0 => /\ flying[k] \in 1..Len(flight) /\ flight[flying[k]].key = k
                            /\ flying[k] > forgotUpTo[k]

FlyersOK ==
    \A p \in Flyers :
        /\ flyer[p].does = "nothing" <=> flyer[p].call = 0
        /\ flyer[p].call # 0 => flyer[p].call \in 1..Len(flight) /\ flyer[p].call > askedAt[p]

LandedOK ==
    \A p \in Flyers : landed[p].call # 0 =>
        /\ landed[p].call \in 1..Len(flight) /\ flight[landed[p].call].state = "done"
        /\ landed[p].val = flight[landed[p].call].val /\ landed[p].err = flight[landed[p].call].err

FlightInv == FlightTypes /\ FlightsOK /\ KeysOK /\ FlyersOK /\ LandedOK

LEMMA NoFlyerIs ==
    /\ Nowhere \in FlyerRecord /\ Nowhere.does = "nothing" /\ Nowhere.call = 0
    /\ NoResult \in LandedRecord /\ NoResult.call = 0
BY DEF Nowhere, FlyerRecord, NoResult, LandedRecord, NoValue

LEMMA FlightInitially == FlightInit => FlightInv
<1> SUFFICES ASSUME FlightInit PROVE FlightInv
  OBVIOUS
<1>1. /\ flight = <<>> /\ flying = [k \in FlightKeys |-> 0]
      /\ flyer = [p \in Flyers |-> Nowhere] /\ landed = [p \in Flyers |-> NoResult]
      /\ forgotUpTo = [k \in FlightKeys |-> 0] /\ askedAt = [p \in Flyers |-> 0]
  BY DEF FlightInit
<1>2. flight \in Seq(FlightRecord) /\ Len(flight) = 0
  BY <1>1, EmptySeq
<1>3. FlightTypes
  BY <1>1, <1>2, NoFlyerIs, FlightConstantsOK DEF FlightTypes
<1>4. FlightsOK /\ KeysOK /\ FlyersOK /\ LandedOK
  BY <1>1, <1>2, NoFlyerIs DEF FlightsOK, KeysOK, FlyersOK, LandedOK
<1> QED BY <1>3, <1>4 DEF FlightInv

LEMMA FlightAt ==
    ASSUME FlightTypes, NEW i \in 1..Len(flight)
    PROVE  flight[i] \in FlightRecord /\ Len(flight) \in Nat /\ i \in Nat \ {0} /\ i <= MaxFlights
BY ElementOfSeq, LenProperties, FlightConstantsOK DEF FlightTypes

\* FunctionEnds, Land and ForgetKey change one call.
LEMMA OneFlight ==
    ASSUME FlightTypes, NEW i \in 1..Len(flight), NEW r \in FlightRecord,
           flight' = [flight EXCEPT ![i] = r]
    PROVE  /\ flight' \in Seq(FlightRecord) /\ Len(flight') = Len(flight)
           /\ \A j \in 1..Len(flight) : flight'[j] = IF j = i THEN r ELSE flight[j]
BY ExceptSeq DEF FlightTypes

LEMMA JoinFlightInv ==
    ASSUME FlightInv, NEW p \in Flyers, NEW k \in FlightKeys, JoinFlight(p, k)
    PROVE  FlightInv'
<1> DEFINE r == [does |-> "waits", call |-> flying[k]]
<1>1. /\ flying[k] # 0 /\ flyer' = [flyer EXCEPT ![p] = r]
      /\ askedAt' = [askedAt EXCEPT ![p] = forgotUpTo[k]]
      /\ landed' = [landed EXCEPT ![p] = NoResult] /\ UNCHANGED <<flight, flying, forgotUpTo>>
  BY DEF JoinFlight
<1>2. flying[k] \in Nat /\ forgotUpTo[k] \in Nat
  BY DEF FlightInv, FlightTypes
<1>3. r \in FlyerRecord /\ r.does = "waits" /\ r.call = flying[k]
  BY <1>2 DEF FlyerRecord
<1> HIDE DEF r
<1>4. flying[k] \in 1..Len(flight) /\ flying[k] > forgotUpTo[k]
  BY <1>1 DEF FlightInv, KeysOK
<1>5. FlightTypes'
  BY <1>1, <1>2, <1>3, NoFlyerIs DEF FlightInv, FlightTypes
<1>6. /\ flyer'[p] = r /\ askedAt'[p] = forgotUpTo[k] /\ landed'[p] = NoResult
      /\ \A q \in Flyers : q # p => flyer'[q] = flyer[q] /\ askedAt'[q] = askedAt[q] /\ landed'[q] = landed[q]
  BY <1>1 DEF FlightInv, FlightTypes
<1>7. FlyersOK'
  BY <1>1, <1>3, <1>4, <1>6 DEF FlightInv, FlyersOK
<1>8. LandedOK'
  BY <1>1, <1>6, NoFlyerIs DEF FlightInv, LandedOK
<1>9. FlightsOK' /\ KeysOK'
  BY <1>1 DEF FlightInv, FlightsOK, KeysOK, Leads, Returned
<1> QED BY <1>5, <1>7, <1>8, <1>9 DEF FlightInv

LEMMA TakeOffInv ==
    ASSUME FlightInv, NEW p \in Flyers, NEW k \in FlightKeys, TakeOff(p, k)
    PROVE  FlightInv'
<1> DEFINE f == [key |-> k, state |-> "runs", val |-> NoValue, err |-> NoValue,
                 how |-> "none", forgotten |-> FALSE]
           r == [does |-> "calls", call |-> Len(flight')]
<1>1. /\ flying[k] = 0 /\ Len(flight) < MaxFlights /\ flight' = Append(flight, f)
      /\ flying' = [flying EXCEPT ![k] = Len(flight')] /\ flyer' = [flyer EXCEPT ![p] = r]
      /\ askedAt' = [askedAt EXCEPT ![p] = forgotUpTo[k]]
      /\ landed' = [landed EXCEPT ![p] = NoResult] /\ UNCHANGED forgotUpTo
  BY DEF TakeOff
<1>2. f \in FlightRecord /\ f.key = k /\ f.state = "runs" /\ f.how = "none" /\ f.forgotten = FALSE
  BY DEF FlightRecord, NoValue
<1> HIDE DEF f
<1>3. /\ flight' \in Seq(FlightRecord) /\ Len(flight') = Len(flight) + 1 /\ Len(flight) \in Nat
      /\ \A i \in 1..Len(flight) : flight'[i] = flight[i]
      /\ flight'[Len(flight) + 1] = f
  BY <1>1, <1>2, AppendProperties, LenProperties DEF FlightInv, FlightTypes
<1> DEFINE size == Len(flight)
<1>4. size \in Nat /\ Len(flight') = size + 1 /\ size < MaxFlights
  BY <1>1, <1>3
<1>5. r \in FlyerRecord /\ r.does = "calls" /\ r.call = size + 1
  BY <1>4 DEF FlyerRecord
<1> HIDE DEF r
<1>6. /\ flying'[k] = size + 1 /\ \A l \in FlightKeys : l # k => flying'[l] = flying[l]
      /\ flying \in [FlightKeys -> Nat] /\ forgotUpTo \in [FlightKeys -> Nat]
  BY <1>1, <1>4 DEF FlightInv, FlightTypes
<1>7. /\ flyer'[p] = r /\ askedAt'[p] = forgotUpTo[k] /\ landed'[p] = NoResult
      /\ \A q \in Flyers : q # p => flyer'[q] = flyer[q] /\ askedAt'[q] = askedAt[q] /\ landed'[q] = landed[q]
  BY <1>1 DEF FlightInv, FlightTypes
<1>8. FlightTypes'
  BY <1>1, <1>3, <1>4, <1>5, <1>6, NoFlyerIs, FlightConstantsOK DEF FlightInv, FlightTypes
<1>9. FlightsOK'
  <2> SUFFICES ASSUME NEW i \in 1..(size + 1) PROVE Leads(i)' /\ Returned(i)'
    BY <1>4 DEF FlightsOK
  <2>1. CASE i = size + 1
    BY <1>2, <1>3, <1>6, <2>1 DEF Leads, Returned
  <2>2. CASE i # size + 1
    <3>1. i \in 1..size /\ i # 0
      BY <1>4, <2>2
    <3>2. flight'[i] = flight[i] /\ Leads(i) /\ Returned(i) /\ flight[i] \in FlightRecord
      BY <1>3, <3>1, FlightAt DEF FlightInv, FlightsOK
    <3>3. flying'[flight[i].key] = i <=> flying[flight[i].key] = i
      <4>1. flight[i].key \in FlightKeys
        BY <3>2 DEF FlightRecord
      <4> QED BY <1>1, <1>6, <2>2, <3>1, <4>1
    <3> QED BY <3>2, <3>3 DEF Leads, Returned
  <2> QED BY <2>1, <2>2
<1>10. KeysOK'
  <2> SUFFICES ASSUME NEW l \in FlightKeys
               PROVE  /\ forgotUpTo[l] <= size + 1
                      /\ flying'[l] # 0 => /\ flying'[l] \in 1..(size + 1) /\ flight'[flying'[l]].key = l
                                           /\ flying'[l] > forgotUpTo[l]
    BY <1>1, <1>4 DEF KeysOK
  <2>1. forgotUpTo[l] <= size /\ forgotUpTo[l] \in Nat
    BY <1>6 DEF FlightInv, KeysOK
  <2>2. CASE l = k
    BY <1>2, <1>3, <1>4, <1>6, <2>1, <2>2
  <2>3. CASE l # k
    BY <1>3, <1>4, <1>6, <2>1, <2>3 DEF FlightInv, KeysOK
  <2> QED BY <2>2, <2>3
<1>11. FlyersOK'
  <2> SUFFICES ASSUME NEW q \in Flyers
               PROVE  /\ flyer'[q].does = "nothing" <=> flyer'[q].call = 0
                      /\ flyer'[q].call # 0 => flyer'[q].call \in 1..(size + 1) /\ flyer'[q].call > askedAt'[q]
    BY <1>4 DEF FlyersOK
  <2>1. forgotUpTo[k] <= size /\ forgotUpTo[k] \in Nat
    BY <1>6 DEF FlightInv, KeysOK
  <2>2. CASE q = p
    BY <1>4, <1>5, <1>7, <2>1, <2>2
  <2>3. CASE q # p
    BY <1>4, <1>7, <2>3 DEF FlightInv, FlyersOK
  <2> QED BY <2>2, <2>3
<1>12. LandedOK'
  <2> SUFFICES ASSUME NEW q \in Flyers, landed'[q].call # 0
               PROVE  /\ landed'[q].call \in 1..(size + 1) /\ flight'[landed'[q].call].state = "done"
                      /\ landed'[q].val = flight'[landed'[q].call].val
                      /\ landed'[q].err = flight'[landed'[q].call].err
    BY <1>4 DEF LandedOK
  <2>1. q # p
    BY <1>7, NoFlyerIs
  <2> QED BY <1>3, <1>4, <1>7, <2>1 DEF FlightInv, LandedOK
<1> QED BY <1>8, <1>9, <1>10, <1>11, <1>12 DEF FlightInv

LEMMA FunctionEndsInv ==
    ASSUME FlightInv, NEW p \in Flyers, NEW how \in {"value", "error", "panic"}, FunctionEnds(p, how)
    PROVE  FlightInv'
<1> DEFINE i == flyer[p].call
           v == CASE how = "value" -> i [] how = "error" -> NoValue [] how = "panic" -> Panicked
           e == IF how = "error" THEN i ELSE NoValue
           r == [flight[i] EXCEPT !.state = "ended", !.how = how, !.val = v, !.err = e]
<1>1. flyer[p].does = "calls" /\ flight[i].state = "runs" /\ UNCHANGED <<flying, flyer, landed, forgotUpTo, askedAt>>
  BY DEF FunctionEnds
<1>2. i \in 1..Len(flight)
  BY <1>1 DEF FlightInv, FlyersOK
<1>3. flight[i] \in FlightRecord /\ i \in Nat \ {0} /\ i <= MaxFlights
  BY <1>2, FlightAt, SMTT(30) DEF FlightInv
<1>4. flight' = [flight EXCEPT ![i] = r]
  BY DEF FunctionEnds
<1>5. /\ how = "value" => v = i /\ e = 0
      /\ how = "error" => v = 0 /\ e = i
      /\ how = "panic" => v = MaxFlights + 1 /\ e = 0
      /\ v \in Nat /\ e \in Nat
  BY <1>3, FlightConstantsOK DEF NoValue, Panicked
<1> HIDE DEF v, e
<1>6. /\ r \in FlightRecord /\ r.state = "ended" /\ r.how = how /\ r.val = v /\ r.err = e
      /\ r.key = flight[i].key /\ r.forgotten = flight[i].forgotten
  BY <1>3, <1>5 DEF FlightRecord
<1> HIDE DEF r, i
<1>7. /\ flight' \in Seq(FlightRecord) /\ Len(flight') = Len(flight)
      /\ \A j \in 1..Len(flight) : flight'[j] = IF j = i THEN r ELSE flight[j]
  BY <1>2, <1>4, <1>6, OneFlight DEF FlightInv
<1>8. FlightTypes'
  BY <1>1, <1>7 DEF FlightInv, FlightTypes
<1>9. FlightsOK'
  <2> SUFFICES ASSUME NEW j \in 1..Len(flight) PROVE Leads(j)' /\ Returned(j)'
    BY <1>7 DEF FlightsOK
  <2>1. Leads(j) /\ Returned(j)
    BY DEF FlightInv, FlightsOK
  <2>2. CASE j = i
    <3>1. Leads(j)'
      BY <1>1, <1>6, <1>7, <2>1, <2>2 DEF Leads
    <3>2. Returned(j)'
      BY <1>5, <1>6, <1>7, <2>2 DEF Returned
    <3> QED BY <3>1, <3>2
  <2>3. CASE j # i
    BY <1>1, <1>7, <2>1, <2>3 DEF Leads, Returned
  <2> QED BY <2>2, <2>3
<1>10. KeysOK'
  BY <1>1, <1>6, <1>7 DEF FlightInv, KeysOK
<1>11. FlyersOK'
  BY <1>1, <1>7 DEF FlightInv, FlyersOK
<1>12. LandedOK'
  BY <1>1, <1>7 DEF FlightInv, LandedOK
<1> QED BY <1>8, <1>9, <1>10, <1>11, <1>12 DEF FlightInv

\* A call that has not been forgotten is the one its key leads to: deleting the key
\* only then deletes no later call.
LEMMA LandInv ==
    ASSUME FlightInv, NEW p \in Flyers, Land(p)
    PROVE  FlightInv'
<1> DEFINE i == flyer[p].call
           k == flight[i].key
           r == [flight[i] EXCEPT !.state = "done"]
<1>1. /\ flyer[p].does = "calls" /\ flight[i].state = "ended" /\ flight' = [flight EXCEPT ![i] = r]
      /\ UNCHANGED <<flyer, landed, forgotUpTo, askedAt>>
  BY DEF Land
<1>2. flying' = IF ~flight[i].forgotten /\ flying[k] = i THEN [flying EXCEPT ![k] = 0] ELSE flying
  BY DEF Land, StillThere
<1>3. i \in 1..Len(flight)
  BY <1>1 DEF FlightInv, FlyersOK
<1>4. flight[i] \in FlightRecord /\ i \in Nat \ {0} /\ k \in FlightKeys
  BY <1>3, FlightAt DEF FlightInv, FlightRecord
<1>5. /\ r \in FlightRecord /\ r.state = "done" /\ r.how = flight[i].how /\ r.val = flight[i].val
      /\ r.err = flight[i].err /\ r.key = k /\ r.forgotten = flight[i].forgotten
  BY <1>4 DEF FlightRecord
<1> HIDE DEF r, i, k
<1>6. /\ flight' \in Seq(FlightRecord) /\ Len(flight') = Len(flight)
      /\ \A j \in 1..Len(flight) : flight'[j] = IF j = i THEN r ELSE flight[j]
  BY <1>1, <1>3, <1>5, OneFlight DEF FlightInv
<1>7. Leads(i) /\ Returned(i)
  BY <1>3 DEF FlightInv, FlightsOK
<1>8. flying \in [FlightKeys -> Nat]
  BY DEF FlightInv, FlightTypes
<1>9. flying'[k] # i /\ \A l \in FlightKeys : flying'[l] = flying[l] \/ (l = k /\ flying[l] = i /\ flying'[l] = 0)
  <2>1. CASE ~flight[i].forgotten /\ flying[k] = i
    BY <1>2, <1>4, <1>8, <2>1
  <2>2. CASE ~(~flight[i].forgotten /\ flying[k] = i)
    <3>1. flying' = flying
      BY <1>2, <2>2
    <3>2. flying[k] # i
      <4>1. flying[k] = i => flight[i].state # "done" /\ ~flight[i].forgotten
        BY <1>7 DEF Leads, k
      <4> QED BY <2>2, <4>1
    <3> QED BY <3>1, <3>2
  <2> QED BY <2>1, <2>2
<1>10. FlightTypes'
  <2>1. flying' \in [FlightKeys -> Nat]
    BY <1>2, <1>8
  <2> QED BY <1>1, <1>6, <2>1 DEF FlightInv, FlightTypes
<1>11. FlightsOK'
  <2> SUFFICES ASSUME NEW j \in 1..Len(flight) PROVE Leads(j)' /\ Returned(j)'
    BY <1>6 DEF FlightsOK
  <2>1. Leads(j) /\ Returned(j) /\ flight[j] \in FlightRecord /\ j # 0
    BY FlightAt DEF FlightInv, FlightsOK
  <2>2. CASE j = i
    BY <1>1, <1>5, <1>6, <1>7, <1>9, <2>2 DEF Leads, Returned
  <2>3. CASE j # i
    <3>1. flight'[j] = flight[j] /\ flight[j].key \in FlightKeys
      BY <1>6, <2>1, <2>3 DEF FlightRecord
    <3>2. flying'[flight[j].key] = j <=> flying[flight[j].key] = j
      BY <1>9, <2>1, <2>3, <3>1
    <3> QED BY <2>1, <3>1, <3>2 DEF Leads, Returned
  <2> QED BY <2>2, <2>3
<1>12. KeysOK'
  <2> SUFFICES ASSUME NEW l \in FlightKeys
               PROVE  /\ forgotUpTo[l] <= Len(flight)
                      /\ flying'[l] # 0 => /\ flying'[l] \in 1..Len(flight) /\ flight'[flying'[l]].key = l
                                           /\ flying'[l] > forgotUpTo[l]
    BY <1>1, <1>6 DEF KeysOK
  <2>1. /\ forgotUpTo[l] <= Len(flight)
        /\ flying[l] # 0 => /\ flying[l] \in 1..Len(flight) /\ flight[flying[l]].key = l
                            /\ flying[l] > forgotUpTo[l]
    BY DEF FlightInv, KeysOK
  <2>2. ASSUME flying'[l] # 0 PROVE flying'[l] = flying[l]
    BY <1>9, <2>2
  <2>3. \A j \in 1..Len(flight) : flight'[j].key = flight[j].key
    BY <1>5, <1>6 DEF k
  <2> QED BY <2>1, <2>2, <2>3
<1>13. FlyersOK'
  BY <1>1, <1>6 DEF FlightInv, FlyersOK
<1>14. LandedOK'
  BY <1>1, <1>6 DEF FlightInv, LandedOK
<1> QED BY <1>10, <1>11, <1>12, <1>13, <1>14 DEF FlightInv

LEMMA GetResultInv ==
    ASSUME FlightInv, NEW p \in Flyers, GetResult(p)
    PROVE  FlightInv'
<1> DEFINE i == flyer[p].call
           r == [val |-> flight[i].val, err |-> flight[i].err, shared |-> flyer[p].does = "waits", call |-> i]
<1>1. /\ i # 0 /\ flight[i].state = "done" /\ landed' = [landed EXCEPT ![p] = r]
      /\ flyer' = [flyer EXCEPT ![p] = Nowhere] /\ askedAt' = [askedAt EXCEPT ![p] = 0]
      /\ UNCHANGED <<flight, flying, forgotUpTo>>
  BY DEF GetResult
<1>2. i \in 1..Len(flight)
  BY <1>1 DEF FlightInv, FlyersOK
<1>3. flight[i] \in FlightRecord /\ i \in Nat
  BY <1>2, FlightAt DEF FlightInv
<1>4. r \in LandedRecord /\ r.val = flight[i].val /\ r.err = flight[i].err /\ r.call = i
  BY <1>3 DEF FlightRecord, LandedRecord
<1> HIDE DEF r, i
<1>5. FlightTypes'
  BY <1>1, <1>4, NoFlyerIs DEF FlightInv, FlightTypes
<1>6. /\ flyer'[p] = Nowhere /\ landed'[p] = r
      /\ \A q \in Flyers : q # p => flyer'[q] = flyer[q] /\ askedAt'[q] = askedAt[q] /\ landed'[q] = landed[q]
  BY <1>1 DEF FlightInv, FlightTypes
<1>7. FlyersOK'
  BY <1>1, <1>6, NoFlyerIs DEF FlightInv, FlyersOK
<1>8. LandedOK'
  BY <1>1, <1>2, <1>4, <1>6 DEF FlightInv, LandedOK
<1>9. FlightsOK' /\ KeysOK'
  BY <1>1 DEF FlightInv, FlightsOK, KeysOK, Leads, Returned
<1> QED BY <1>5, <1>7, <1>8, <1>9 DEF FlightInv

LEMMA ForgetKeyInv ==
    ASSUME FlightInv, NEW k \in FlightKeys, ForgetKey(k)
    PROVE  FlightInv'
<1> DEFINE i == flying[k]
           r == [flight[i] EXCEPT !.forgotten = TRUE]
<1>1. /\ i # 0 /\ flight' = [flight EXCEPT ![i] = r] /\ flying' = [flying EXCEPT ![k] = 0]
      /\ forgotUpTo' = [forgotUpTo EXCEPT ![k] = Len(flight)] /\ UNCHANGED <<flyer, landed, askedAt>>
  BY DEF ForgetKey
<1>2. i \in 1..Len(flight) /\ flight[i].key = k
  BY <1>1 DEF FlightInv, KeysOK
<1>3. flight[i] \in FlightRecord /\ Len(flight) \in Nat /\ i \in Nat \ {0}
  BY <1>2, FlightAt DEF FlightInv
<1>4. /\ r \in FlightRecord /\ r.forgotten = TRUE /\ r.state = flight[i].state /\ r.how = flight[i].how
      /\ r.val = flight[i].val /\ r.err = flight[i].err /\ r.key = k
  BY <1>2, <1>3 DEF FlightRecord
<1>5. /\ flying'[k] = 0 /\ \A l \in FlightKeys : l # k => flying'[l] = flying[l] /\ forgotUpTo'[l] = forgotUpTo[l]
      /\ forgotUpTo'[k] = Len(flight)
      /\ flying' \in [FlightKeys -> Nat] /\ forgotUpTo' \in [FlightKeys -> Nat]
  BY <1>1, <1>3 DEF FlightInv, FlightTypes
<1> HIDE DEF r
<1>6. /\ flight' \in Seq(FlightRecord) /\ Len(flight') = Len(flight)
      /\ \A j \in 1..Len(flight) : flight'[j] = IF j = i THEN r ELSE flight[j]
  BY <1>1, <1>2, <1>4, OneFlight DEF FlightInv
<1>7. FlightTypes'
  BY <1>1, <1>5, <1>6 DEF FlightInv, FlightTypes
<1>8. FlightsOK'
  <2> SUFFICES ASSUME NEW j \in 1..Len(flight) PROVE Leads(j)' /\ Returned(j)'
    BY <1>6 DEF FlightsOK
  <2>1. Leads(j) /\ Returned(j) /\ flight[j] \in FlightRecord /\ j # 0
    BY FlightAt DEF FlightInv, FlightsOK
  <2>2. CASE j = i
    BY <1>4, <1>5, <1>6, <2>1, <2>2 DEF Leads, Returned
  <2>3. CASE j # i
    <3>1. flight'[j] = flight[j] /\ flight[j].key \in FlightKeys
      BY <1>6, <2>1, <2>3 DEF FlightRecord
    <3>2. flying'[flight[j].key] = j <=> flying[flight[j].key] = j
      BY <1>5, <2>1, <2>3, <3>1
    <3> QED BY <2>1, <3>1, <3>2 DEF Leads, Returned
  <2> QED BY <2>2, <2>3
<1>9. KeysOK'
  <2> SUFFICES ASSUME NEW l \in FlightKeys
               PROVE  /\ forgotUpTo'[l] <= Len(flight)
                      /\ flying'[l] # 0 => /\ flying'[l] \in 1..Len(flight) /\ flight'[flying'[l]].key = l
                                           /\ flying'[l] > forgotUpTo'[l]
    BY <1>6 DEF KeysOK
  <2>1. CASE l = k
    BY <1>3, <1>5, <2>1
  <2>2. CASE l # k
    <3>1. \A j \in 1..Len(flight) : flight'[j].key = flight[j].key
      BY <1>2, <1>4, <1>6
    <3> QED BY <1>5, <2>2, <3>1 DEF FlightInv, KeysOK
  <2> QED BY <2>1, <2>2
<1>10. FlyersOK'
  BY <1>1, <1>6 DEF FlightInv, FlyersOK
<1>11. LandedOK'
  BY <1>1, <1>4, <1>6 DEF FlightInv, LandedOK
<1> QED BY <1>7, <1>8, <1>9, <1>10, <1>11 DEF FlightInv

LEMMA FlightInductive == Spec => []FlightInv
<1>1. FlightInv /\ [FlightNext]_flightVars => FlightInv'
  <2> SUFFICES ASSUME FlightInv, [FlightNext]_flightVars PROVE FlightInv'
    OBVIOUS
  <2>1. CASE UNCHANGED flightVars
    BY <2>1 DEF flightVars, FlightInv, FlightTypes, FlightsOK, Leads, Returned, KeysOK, FlyersOK, LandedOK
  <2>2. CASE FlightNext
    BY <2>2, JoinFlightInv, TakeOffInv, FunctionEndsInv, LandInv, GetResultInv, ForgetKeyInv DEF FlightNext
  <2> QED BY <2>1, <2>2
<1> QED BY <1>1, FlightInitially, FlightBehaves, PTL

\* However joins, Forgets, panics and overlapping calls interleave, one call of a key is
\* under way that has not been forgotten, everyone gets what its own call returned, and
\* nobody the result of a call made before a Forget that came before its question
\* (singleflight.go Do, doCall, Forget).
THEOREM FlightsStayApart == Spec => []FlightsApart
<1>1. FlightInv => FlightsApart
  <2> SUFFICES ASSUME FlightInv PROVE FlightsApart
    OBVIOUS
  <2>1. DOMAIN flight = 1..Len(flight)
    BY LenProperties DEF FlightInv, FlightTypes
  <2>2. \A i \in DOMAIN flight : Leads(i)
    BY <2>1 DEF FlightInv, FlightsOK
  <2>3. \A i, j \in DOMAIN flight :
            flight[i].key = flight[j].key /\ flight[i].state # "done" /\ flight[j].state # "done"
                /\ ~flight[i].forgotten /\ ~flight[j].forgotten => i = j
    BY <2>2 DEF Leads
  <2>4. ASSUME NEW p \in Flyers, landed[p].call # 0
        PROVE  /\ flight[landed[p].call].how = "error" <=> landed[p].err = landed[p].call
               /\ flight[landed[p].call].how = "value" <=> landed[p].val = landed[p].call
               /\ flight[landed[p].call].how = "panic" <=> landed[p].val = Panicked /\ landed[p].err = NoValue
    <3>1. PICK i \in 1..Len(flight) :
            /\ i = landed[p].call /\ flight[i].state = "done"
            /\ landed[p].val = flight[i].val /\ landed[p].err = flight[i].err
      BY <2>4 DEF FlightInv, LandedOK
    <3>2. Returned(i) /\ flight[i] \in FlightRecord /\ i \in Nat \ {0} /\ i <= MaxFlights
      BY FlightAt DEF FlightInv, FlightsOK
    <3>3. flight[i].how \in {"value", "error", "panic"}
      BY <3>1, <3>2 DEF Returned, FlightRecord
    <3> QED BY <3>1, <3>2, <3>3, FlightConstantsOK DEF Returned, Panicked, NoValue
  <2>5. \A p \in Flyers : flyer[p].call # 0 => flyer[p].call > askedAt[p]
    BY DEF FlightInv, FlyersOK
  <2> QED BY <2>2, <2>3, <2>4, <2>5 DEF FlightsApart, Leads
<1> QED BY <1>1, FlightInductive, PTL

-----------------------------------------------------------------------------
(* Requests *)

Routes ==
    {"urls", "url", "stats", "code", "health", "ready", "adminHealth", "flush", "runtime",
     "gc", "reset", "metrics", "page", "reserved"}
Stages ==
    {"route", "create", "delete", "patch", "redirect", "visit", "probe", "probeLog", "look",
     "body", "ended"}
CallRecord ==
    [method : Methods, route : Routes, input : Inputs, asks : SUBSET {"disabled", "remarked"},
     stage : Stages, todo : SUBSET {"disabled", "remarked"}, saw : SUBSET {"url", "log"},
     did : SUBSET {"created", "deleted", "disabled", "remarked", "visited"}, since : Nat,
     answer : Nat, noted : Nat, broke : BOOLEAN]
Rows == [there : BOOLEAN, disabled : BOOLEAN]

PipeTypes ==
    /\ call \in [Clients -> CallRecord] /\ row \in Rows
    /\ up \in {{}, {"url"}, {"url", "log"}} /\ removals \in Nat

\* AnswersHonest of one request, after so many removals and with those stores open.
Honest(r, count, stores) ==
    /\ \/ r.did = Promised(r)
       \/ /\ r.answer >= 400
          /\ \/ r.broke
             \/ r.did = {"visited"} /\ r.answer = 410
             \/ r.method = "PATCH" /\ (count > r.since \/ "url" \notin stores)
    /\ r.noted = r.answer \/ (r.broke /\ r.noted = 0 /\ r.answer = 500)
    /\ r.route = "health" /\ r.answer = 503 => stores = {}

\* A request has no answer, and but for a PATCH no effect, until its handler is done; a
\* PATCH that has done a half has found the link, and it is there unless one was deleted.
OnItsWay(r, there, count, stores) ==
    /\ r.stage \notin {"body", "ended"} => r.answer = 0 /\ r.noted = 0 /\ r.broke = FALSE
    /\ r.stage \notin {"patch", "body", "ended"} => r.did = {}
    /\ r.stage = "route" => r.todo = r.asks
    /\ r.stage = "create" => r.route = "urls"
    /\ r.stage = "delete" => r.route = "url" /\ r.method = "DELETE"
    /\ r.stage = "patch" =>
        /\ r.route = "url" /\ r.method = "PATCH" /\ r.did \cup r.todo = r.asks
        /\ r.did # {} => r.since <= count /\ (there \/ count > r.since)
    /\ r.stage \in {"redirect", "visit"} => r.route = "code"
    /\ r.stage \in {"probe", "probeLog"} => r.route \in {"health", "ready"}
    /\ r.stage = "probeLog" /\ "url" \notin r.saw => stores = {}
    /\ r.stage = "look" => /\ r.route \notin {"urls", "code", "health", "ready"}
                           /\ r.route = "url" => r.method = "GET"
    /\ r.stage = "body" => r.answer # 0
    /\ r.stage \in {"body", "ended"} => Honest(r, count, stores)

PipeInv == PipeTypes /\ \A p \in Clients : OnItsWay(call[p], row.there, removals, up)

LEMMA RoutesAre == DOMAIN Allowed = Routes
BY DEF Allowed, Routes

LEMMA NoCallIs ==
    /\ NoCall \in CallRecord /\ NoCall.stage = "ended" /\ NoCall.did = {} /\ NoCall.answer = 200
    /\ NoCall.noted = 200 /\ NoCall.broke = FALSE /\ NoCall.route = "page"
BY DEF NoCall, CallRecord, Methods, Routes, Inputs, Stages

LEMMA ReplyIs ==
    ASSUME NEW r \in CallRecord, NEW status \in Nat
    PROVE  /\ Reply(r, status) \in CallRecord
           /\ Reply(r, status).stage = "body" /\ Reply(r, status).answer = status
           /\ Reply(r, status).noted = status /\ Reply(r, status).broke = r.broke
           /\ Reply(r, status).did = r.did /\ Reply(r, status).since = r.since
           /\ Reply(r, status).route = r.route /\ Reply(r, status).method = r.method
           /\ Reply(r, status).asks = r.asks
BY DEF Reply, CallRecord, Stages

LEMMA ToIs ==
    ASSUME NEW r \in CallRecord, NEW stage \in Stages
    PROVE  /\ To(r, stage) \in CallRecord /\ To(r, stage).stage = stage
           /\ To(r, stage).answer = r.answer /\ To(r, stage).noted = r.noted
           /\ To(r, stage).broke = r.broke /\ To(r, stage).did = r.did
           /\ To(r, stage).since = r.since /\ To(r, stage).route = r.route
           /\ To(r, stage).method = r.method /\ To(r, stage).asks = r.asks
           /\ To(r, stage).todo = r.todo /\ To(r, stage).saw = r.saw
BY DEF To, CallRecord, Stages

LEMMA DidIs ==
    ASSUME NEW r \in CallRecord, removals' \in Nat,
           NEW effect \in {"created", "deleted", "disabled", "remarked", "visited"}
    PROVE  /\ Did(r, effect) \in CallRecord
           /\ Did(r, effect).did = r.did \cup {effect} /\ Did(r, effect).since = removals'
           /\ Did(r, effect).answer = r.answer /\ Did(r, effect).noted = r.noted
           /\ Did(r, effect).broke = r.broke /\ Did(r, effect).stage = r.stage
           /\ Did(r, effect).route = r.route /\ Did(r, effect).method = r.method
           /\ Did(r, effect).asks = r.asks /\ Did(r, effect).todo = r.todo
BY DEF Did, CallRecord

\* A reply is honest when its status says what the request has done.
LEMMA Replied ==
    ASSUME NEW r \in CallRecord, NEW status \in Nat \ {0}, NEW there, NEW count, NEW stores,
           \/ status \notin {200, 201, 302} /\ r.did = {}
           \/ status = 201 /\ r.did = {"created"}
           \/ status = 302 /\ r.did = {"visited"}
           \/ status = 200 /\ r.route # "url" /\ r.did = {}
           \/ status = 200 /\ r.route = "url" /\ r.method \notin {"DELETE", "PATCH"} /\ r.did = {}
           \/ status = 200 /\ r.route = "url" /\ r.method = "DELETE" /\ r.did = {"deleted"}
           \/ status = 200 /\ r.route = "url" /\ r.method = "PATCH" /\ r.did = r.asks
           \/ status = 410 /\ r.did = {"visited"}
           \/ status >= 400 /\ r.method = "PATCH" /\ (count > r.since \/ "url" \notin stores),
           r.route = "health" /\ status = 503 => stores = {}
    PROVE  OnItsWay(Reply(r, status), there, count, stores)
<1> DEFINE s == Reply(r, status)
<1>1. /\ s.stage = "body" /\ s.answer = status /\ s.noted = status /\ s.did = r.did
      /\ s.since = r.since /\ s.route = r.route /\ s.method = r.method /\ s.asks = r.asks
  BY ReplyIs
<1> HIDE DEF s
<1>2. Honest(s, count, stores)
  BY <1>1 DEF Honest, Promised
<1>3. OnItsWay(s, there, count, stores)
  BY <1>1, <1>2 DEF OnItsWay
<1> QED BY <1>3 DEF s

\* The other clients see a deletion counted and stores closed.
LEMMA Elsewhere ==
    ASSUME NEW r \in CallRecord, NEW there \in BOOLEAN, NEW count \in Nat, NEW stores,
           NEW there2 \in BOOLEAN, NEW count2 \in Nat, NEW stores2,
           OnItsWay(r, there, count, stores),
           count <= count2, stores2 \subseteq stores, there2 \/ there2 = there \/ count2 > count
    PROVE  OnItsWay(r, there2, count2, stores2)
<1>1. r.since \in Nat
  BY DEF CallRecord
<1>2. Honest(r, count, stores) => Honest(r, count2, stores2)
  BY <1>1 DEF Honest
<1> QED BY <1>1, <1>2 DEF OnItsWay

\* A step of one client.
LEMMA OneCall ==
    ASSUME PipeInv, NEW p \in Clients, NEW r \in CallRecord, call' = [call EXCEPT ![p] = r],
           row' \in Rows, removals' \in Nat, removals <= removals', up' = up,
           row'.there \/ row'.there = row.there \/ removals' > removals,
           OnItsWay(r, row'.there, removals', up)
    PROVE  PipeInv'
<1>1. PipeTypes'
  BY DEF PipeInv, PipeTypes
<1>2. row.there \in BOOLEAN /\ row'.there \in BOOLEAN /\ removals \in Nat
  BY DEF PipeInv, PipeTypes, Rows
<1>3. ASSUME NEW q \in Clients PROVE OnItsWay(call'[q], row'.there, removals', up')
  <2>1. CASE q = p
    BY <2>1 DEF PipeInv, PipeTypes
  <2>2. CASE q # p
    <3>1. call'[q] = call[q] /\ call[q] \in CallRecord
      BY <2>2 DEF PipeInv, PipeTypes
    <3>2. OnItsWay(call[q], row.there, removals, up)
      BY DEF PipeInv
    <3>3. up' \subseteq up
      OBVIOUS
    <3>4. OnItsWay(call[q], row'.there, removals', up')
      BY <1>2, <3>1, <3>2, <3>3, Elsewhere
    <3> QED BY <3>1, <3>4
  <2> QED BY <2>1, <2>2
<1> QED BY <1>1, <1>3 DEF PipeInv

\* A step that changes no more than the request.
LEMMA OnlyCall ==
    ASSUME PipeInv, NEW p \in Clients, NEW r \in CallRecord, call' = [call EXCEPT ![p] = r],
           UNCHANGED <<row, removals, up>>, OnItsWay(r, row.there, removals, up)
    PROVE  PipeInv'
<1>1. removals \in Nat /\ row \in Rows /\ removals <= removals
  BY DEF PipeInv, PipeTypes
<1> QED BY <1>1, OneCall

LEMMA PipeInitially == PipeInit => PipeInv
<1> SUFFICES ASSUME PipeInit PROVE PipeInv
  OBVIOUS
<1>1. call = [p \in Clients |-> NoCall] /\ row = NoLink /\ up = {"url", "log"} /\ removals = 0
  BY DEF PipeInit
<1>2. PipeTypes
  BY <1>1, NoCallIs DEF PipeTypes, NoLink, Rows
<1>3. Honest(NoCall, 0, {"url", "log"})
  BY NoCallIs DEF Honest, Promised
<1>4. OnItsWay(NoCall, row.there, 0, {"url", "log"})
  BY <1>3, NoCallIs DEF OnItsWay
<1> QED BY <1>1, <1>2, <1>4 DEF PipeInv

LEMMA CallAt ==
    ASSUME PipeInv, NEW p \in Clients
    PROVE  call[p] \in CallRecord /\ OnItsWay(call[p], row.there, removals, up)
BY DEF PipeInv, PipeTypes

LEMMA SendInv ==
    ASSUME PipeInv, NEW p \in Clients, NEW c \in Calls, Send(p, c)
    PROVE  PipeInv'
<1> DEFINE r == [NoCall EXCEPT !.method = c.method, !.route = c.route, !.input = c.input,
                 !.asks = c.asks, !.todo = c.asks, !.stage = "route",
                 !.answer = 0, !.noted = 0]
<1>1. /\ c.method \in Methods /\ c.route \in Routes /\ c.input \in Inputs
      /\ c.asks \in SUBSET {"disabled", "remarked"}
  BY CallsOK, RoutesAre
<1>2. /\ r \in CallRecord /\ r.stage = "route" /\ r.answer = 0 /\ r.noted = 0 /\ r.did = {}
      /\ r.broke = FALSE /\ r.todo = r.asks
  <2>1. NoCall \in CallRecord /\ NoCall.did = {} /\ NoCall.broke = FALSE
    BY NoCallIs
  <2> QED BY <1>1, <2>1 DEF CallRecord, Stages
<1>3. /\ call' = [call EXCEPT ![p] = IF c.method = "OPTIONS" THEN Reply(r, 204) ELSE r]
      /\ UNCHANGED <<row, up, removals>>
  BY DEF Send, Turns
<1> HIDE DEF r
<1>4. CASE c.method = "OPTIONS"
  <2>1. Reply(r, 204) \in CallRecord
    BY <1>2, ReplyIs
  <2>2. OnItsWay(Reply(r, 204), row.there, removals, up)
    BY <1>2, Replied
  <2> QED BY <1>3, <1>4, <2>1, <2>2, OnlyCall
<1>5. CASE c.method # "OPTIONS"
  <2>1. OnItsWay(r, row.there, removals, up)
    BY <1>2 DEF OnItsWay
  <2> QED BY <1>2, <1>3, <1>5, <2>1, OnlyCall
<1> QED BY <1>4, <1>5

LEMMA EndBodyInv ==
    ASSUME PipeInv, NEW p \in Clients, EndBody(p)
    PROVE  PipeInv'
<1> DEFINE r == call[p]
           s == To(r, "ended")
<1>1. r.stage = "body" /\ call' = [call EXCEPT ![p] = s] /\ UNCHANGED <<row, up, removals>>
  BY DEF EndBody, At, Turns
<1>2. r \in CallRecord /\ OnItsWay(r, row.there, removals, up)
  BY CallAt
<1> HIDE DEF r
<1>3. /\ s \in CallRecord /\ s.stage = "ended" /\ s.answer = r.answer /\ s.noted = r.noted
      /\ s.broke = r.broke /\ s.did = r.did /\ s.since = r.since /\ s.route = r.route
      /\ s.method = r.method /\ s.asks = r.asks
  BY <1>2, ToIs DEF Stages
<1> HIDE DEF s
<1>4. Honest(s, removals, up)
  BY <1>1, <1>2, <1>3 DEF OnItsWay, Honest, Promised
<1>5. OnItsWay(s, row.there, removals, up)
  BY <1>3, <1>4 DEF OnItsWay
<1> QED BY <1>1, <1>3, <1>5, OnlyCall

\* After a panic the answer is the one that was begun, or 500.
LEMMA RecoveredInv ==
    ASSUME PipeInv, NEW p \in Clients, Recovered(p)
    PROVE  PipeInv'
<1> DEFINE r == call[p]
           s == [r EXCEPT !.stage = "ended", !.broke = TRUE, !.answer = IF r.answer = 0 THEN 500 ELSE r.answer]
<1>1. /\ r.stage # "ended" /\ call' = [call EXCEPT ![p] = s] /\ UNCHANGED <<row, up, removals>>
  BY DEF Recovered, Turns
<1>2. r \in CallRecord /\ OnItsWay(r, row.there, removals, up)
  BY CallAt
<1> HIDE DEF r
<1>3. /\ s \in CallRecord /\ s.stage = "ended" /\ s.answer = (IF r.answer = 0 THEN 500 ELSE r.answer)
      /\ s.noted = r.noted /\ s.broke = TRUE /\ s.did = r.did /\ s.since = r.since
      /\ s.route = r.route /\ s.method = r.method /\ s.asks = r.asks
  <2> DEFINE a == IF r.answer = 0 THEN 500 ELSE r.answer
  <2>1. a \in Nat
    BY <1>2 DEF CallRecord
  <2> HIDE DEF a
  <2>2. s = [r EXCEPT !.stage = "ended", !.broke = TRUE, !.answer = a]
    BY DEF a
  <2>3. /\ s \in CallRecord /\ s.stage = "ended" /\ s.answer = a
        /\ s.noted = r.noted /\ s.broke = TRUE /\ s.did = r.did /\ s.since = r.since
        /\ s.route = r.route /\ s.method = r.method /\ s.asks = r.asks
    <3> HIDE DEF s
    <3> QED BY <1>2, <2>1, <2>2 DEF CallRecord, Stages
  <2> HIDE DEF s
  <2> QED BY <2>3 DEF a
<1> HIDE DEF s
<1>4. Honest(s, removals, up)
  <2>1. CASE r.stage = "body"
    BY <1>2, <1>3, <2>1 DEF OnItsWay, Honest, Promised
  <2>2. CASE r.stage # "body"
    <3>1. s.answer = 500 /\ s.noted = 0 /\ s.broke = TRUE
      BY <1>1, <1>2, <1>3, <2>2 DEF OnItsWay
    <3> QED BY <3>1 DEF Honest
  <2> QED BY <2>1, <2>2
<1>5. OnItsWay(s, row.there, removals, up)
  BY <1>3, <1>4 DEF OnItsWay
<1> QED BY <1>1, <1>3, <1>5, OnlyCall

LEMMA DispatchInv ==
    ASSUME PipeInv, NEW p \in Clients, Dispatch(p)
    PROVE  PipeInv'
<1> DEFINE r == call[p]
<1>1. r.stage = "route" /\ UNCHANGED <<row, up, removals>>
  BY DEF Dispatch, At
<1>2. \/ \E status \in {429, 405, 400} : call' = [call EXCEPT ![p] = Reply(r, status)]
      \/ r.method \in Allowed[r.route] /\ call' = [call EXCEPT ![p] = To(r, Handler(r))]
  BY DEF Dispatch, Turns
<1>3. r \in CallRecord /\ OnItsWay(r, row.there, removals, up)
  BY CallAt
<1> HIDE DEF r
<1>4. /\ r.did = {} /\ r.answer = 0 /\ r.noted = 0 /\ r.broke = FALSE /\ r.todo = r.asks
      /\ r.route \in Routes /\ r.method \in Methods
  BY <1>1, <1>3 DEF OnItsWay, CallRecord
<1>5. ASSUME NEW status \in {429, 405, 400}, call' = [call EXCEPT ![p] = Reply(r, status)]
      PROVE  PipeInv'
  <2>1. Reply(r, status) \in CallRecord
    BY <1>3, ReplyIs
  <2>2. OnItsWay(Reply(r, status), row.there, removals, up)
    BY <1>3, <1>4, Replied
  <2> QED BY <1>1, <1>5, <2>1, <2>2, OnlyCall
<1>6. ASSUME r.method \in Allowed[r.route], call' = [call EXCEPT ![p] = To(r, Handler(r))]
      PROVE  PipeInv'
  <2> DEFINE h == Handler(r)
  <2>1. /\ h \in {"create", "delete", "patch", "redirect", "probe", "look"}
        /\ h = "create" => r.route = "urls"
        /\ h = "delete" => r.route = "url" /\ r.method = "DELETE"
        /\ h = "patch" => r.route = "url" /\ r.method = "PATCH"
        /\ h = "redirect" => r.route = "code"
        /\ h = "probe" => r.route \in {"health", "ready"}
        /\ h = "look" => /\ r.route \notin {"urls", "code", "health", "ready"}
                         /\ r.route = "url" => r.method \notin {"DELETE", "PATCH"}
    BY DEF Handler
  <2>2. r.route = "url" => r.method \in {"GET", "DELETE", "PATCH"}
    BY <1>6 DEF Allowed
  <2> HIDE DEF h
  <2> DEFINE s == To(r, h)
  <2>3. /\ s \in CallRecord /\ s.stage = h /\ s.answer = 0 /\ s.noted = 0 /\ s.broke = FALSE
        /\ s.did = {} /\ s.route = r.route /\ s.method = r.method /\ s.asks = r.asks /\ s.todo = r.asks
    BY <1>3, <1>4, <2>1, ToIs DEF Stages
  <2>4. call' = [call EXCEPT ![p] = s]
    BY <1>6 DEF h
  <2> HIDE DEF s
  <2>5. OnItsWay(s, row.there, removals, up)
    BY <2>1, <2>2, <2>3 DEF OnItsWay
  <2> QED BY <1>1, <2>3, <2>4, <2>5, OnlyCall
<1> QED BY <1>2, <1>5, <1>6

\* The store changes; when the write of the file fails the answer is 500.
LEMMA ChangeInv ==
    ASSUME PipeInv, NEW p \in Clients, NEW r \in CallRecord, NEW to \in Rows, Change(p, r, to),
           removals' \in Nat, removals <= removals',
           to.there \/ to.there = row.there \/ removals' > removals,
           OnItsWay(r, to.there, removals', up)
    PROVE  PipeInv'
<1> DEFINE s == [Reply(r, Mapped["other"]) EXCEPT !.broke = TRUE]
<1>1. row' = to /\ up' = up /\ (call' = [call EXCEPT ![p] = r] \/ call' = [call EXCEPT ![p] = s])
  BY DEF Change, Turns
<1>2. CASE call' = [call EXCEPT ![p] = r]
  BY <1>1, <1>2, OneCall
<1>3. CASE call' = [call EXCEPT ![p] = s]
  <2>1. Mapped["other"] = 500
    BY DEF Mapped
  <2> DEFINE b == Reply(r, Mapped["other"])
  <2>2. b \in CallRecord /\ b.stage = "body" /\ b.answer = 500 /\ b.noted = 500
    BY <2>1, ReplyIs
  <2> HIDE DEF b
  <2>3. s \in CallRecord /\ s.stage = "body" /\ s.answer = 500 /\ s.noted = 500 /\ s.broke = TRUE
    <3>1. s = [b EXCEPT !.broke = TRUE]
      BY DEF b
    <3> HIDE DEF s
    <3> QED BY <2>2, <3>1, ZenonT(40) DEF CallRecord
  <2> HIDE DEF s
  <2>4. Honest(s, removals', up)
    BY <2>3 DEF Honest
  <2>5. OnItsWay(s, to.there, removals', up)
    BY <2>3, <2>4 DEF OnItsWay
  <2> QED BY <1>1, <1>3, <2>3, <2>5, OneCall, ZenonT(40)
<1> QED BY <1>1, <1>2, <1>3

LEMMA MappedIs ==
    /\ Mapped["notFound"] = 404 /\ Mapped["conflict"] = 409 /\ Mapped["noCode"] = 500
    /\ Mapped["tooMany"] = 413 /\ Mapped["canceled"] = 499 /\ Mapped["notReady"] = 500
    /\ Mapped["other"] = 500
BY DEF Mapped

LEMMA MissingIs ==
    /\ Missing = "none" => row.there
    /\ Missing # "none" => Mapped[Missing] \in {404, 500} /\ ("url" \notin up \/ ~row.there)
    /\ Taken # "none" => Mapped[Taken] \in {409, 500}
BY MappedIs DEF Missing, Taken

\* An error before there was any effect.
LEMMA RefusedInv ==
    ASSUME PipeInv, NEW p \in Clients, At(p, "create") \/ At(p, "delete") \/ At(p, "redirect") \/ At(p, "visit"),
           NEW status \in {404, 409, 410, 413, 499, 500}, Only(p, Reply(call[p], status))
    PROVE  PipeInv'
<1> DEFINE r == call[p]
<1>1. call' = [call EXCEPT ![p] = Reply(r, status)] /\ UNCHANGED <<row, removals, up>>
  BY DEF Only, Turns
<1>2. r \in CallRecord /\ r.did = {}
  <2>1. r.stage \in {"create", "delete", "redirect", "visit"}
    BY DEF At
  <2>2. r \in CallRecord /\ OnItsWay(r, row.there, removals, up)
    BY CallAt, SMTT(30)
  <2> HIDE DEF r
  <2> QED BY <2>1, <2>2 DEF OnItsWay
<1> HIDE DEF r
<1>3. Reply(r, status) \in CallRecord
  BY <1>2, ReplyIs
<1>4. OnItsWay(Reply(r, status), row.there, removals, up)
  BY <1>2, Replied
<1> QED BY <1>1, <1>3, <1>4, OnlyCall, ZenonT(40)

LEMMA CreateInv ==
    ASSUME PipeInv, NEW p \in Clients, Create(p)
    PROVE  PipeInv'
<1> DEFINE r == call[p]
           d == Did(r, "created")
<1>1. r.stage = "create" /\ r \in CallRecord /\ r.did = {} /\ r.route = "urls" /\ r.broke = FALSE
  BY CallAt DEF Create, At, OnItsWay
<1>2. CASE /\ UNCHANGED removals
           /\ Change(p, Reply(d, 201), [NoLink EXCEPT !.there = TRUE])
  <2>1. removals' \in Nat /\ removals <= removals'
    BY <1>2 DEF PipeInv, PipeTypes
  <2>2. d \in CallRecord /\ d.did = {"created"} /\ d.route = "urls"
    BY <1>1, <2>1, DidIs
  <2> HIDE DEF d
  <2>3. Reply(d, 201) \in CallRecord
    BY <2>2, ReplyIs
  <2> DEFINE to == [NoLink EXCEPT !.there = TRUE]
  <2>4. to \in Rows /\ to.there
    BY DEF NoLink, Rows
  <2> HIDE DEF to
  <2>5. OnItsWay(Reply(d, 201), to.there, removals', up)
    BY <2>2, Replied
  <2>6. Change(p, Reply(d, 201), to)
    BY <1>2 DEF to
  <2> QED BY <2>1, <2>3, <2>4, <2>5, <2>6, ChangeInv
<1>3. ASSUME NEW status \in {409, 500}, Only(p, Reply(r, status)) PROVE PipeInv'
  <2>1. At(p, "create")
    BY <1>1 DEF At
  <2> QED BY <1>3, <2>1, RefusedInv
<1> QED BY <1>2, <1>3, MappedIs, MissingIs DEF Create

LEMMA DeleteInv ==
    ASSUME PipeInv, NEW p \in Clients, Delete(p)
    PROVE  PipeInv'
<1> DEFINE r == call[p]
           d == Did(r, "deleted")
<1>1. /\ r.stage = "delete" /\ r \in CallRecord /\ r.did = {} /\ r.route = "url" /\ r.method = "DELETE"
      /\ r.broke = FALSE
  BY CallAt DEF Delete, At, OnItsWay
<1>2. CASE removals' = removals + 1 /\ Change(p, Reply(d, 200), NoLink)
  <2>1. removals \in Nat /\ removals' \in Nat /\ removals <= removals' /\ removals' > removals
    BY <1>2 DEF PipeInv, PipeTypes
  <2>2. d \in CallRecord /\ d.did = {"deleted"} /\ d.route = "url" /\ d.method = "DELETE"
    BY <1>1, <2>1, DidIs
  <2> HIDE DEF d
  <2>3. Reply(d, 200) \in CallRecord
    BY <2>2, ReplyIs
  <2>4. NoLink \in Rows
    BY DEF NoLink, Rows
  <2>5. OnItsWay(Reply(d, 200), NoLink.there, removals', up)
    BY <2>2, Replied
  <2> QED BY <1>2, <2>1, <2>3, <2>4, <2>5, ChangeInv
<1>3. ASSUME NEW status \in {404, 500}, Only(p, Reply(r, status)) PROVE PipeInv'
  <2>1. At(p, "delete")
    BY <1>1 DEF At
  <2> QED BY <1>3, <2>1, RefusedInv
<1> QED BY <1>2, <1>3, MissingIs DEF Delete

\* Half of a PATCH is done when the link was there, so that an error that follows comes
\* of a deletion or of the end of the store.
LEMMA PatchInv ==
    ASSUME PipeInv, NEW p \in Clients, Patch(p)
    PROVE  PipeInv'
<1> DEFINE r == call[p]
           half == IF "disabled" \in r.todo THEN "disabled" ELSE "remarked"
           d == Did(r, half)
           s == [d EXCEPT !.todo = r.todo \ {half}]
           to == [row EXCEPT !.disabled = row.disabled \/ half = "disabled"]
<1>1. /\ r.stage = "patch" /\ r \in CallRecord /\ r.route = "url" /\ r.method = "PATCH"
      /\ r.broke = FALSE /\ r.answer = 0 /\ r.noted = 0 /\ r.did \cup r.todo = r.asks
      /\ r.did # {} => r.since <= removals /\ (row.there \/ removals > r.since)
  BY CallAt DEF Patch, At, OnItsWay
<1>2. \/ Missing # "none" /\ Only(p, Reply(r, Mapped[Missing]))
      \/ Missing = "none" /\ r.todo = {} /\ Only(p, Reply(r, 200))
      \/ Missing = "none" /\ r.todo # {} /\ UNCHANGED removals /\ Change(p, [d EXCEPT !.todo = @ \ {half}], to)
  BY DEF Patch, PatchFails
<1>3. removals \in Nat /\ row \in Rows
  BY DEF PipeInv, PipeTypes
<1> HIDE DEF r
<1>4. ASSUME NEW status \in {200, 404, 500}, Only(p, Reply(r, status)),
             status = 200 => r.todo = {},
             status # 200 => "url" \notin up \/ ~row.there
      PROVE  PipeInv'
  <2>1. Reply(r, status) \in CallRecord /\ call' = [call EXCEPT ![p] = Reply(r, status)]
        /\ UNCHANGED <<row, removals, up>>
    BY <1>1, <1>4, ReplyIs DEF Only, Turns
  <2>2. \/ status = 200 /\ r.did = r.asks
        \/ status \notin {200, 201, 302} /\ r.did = {}
        \/ status >= 400 /\ (removals > r.since \/ "url" \notin up)
    BY <1>1, <1>4
  <2>3. OnItsWay(Reply(r, status), row.there, removals, up)
    BY <1>1, <2>2, Replied
  <2> QED BY <2>1, <2>3, OnlyCall
<1>5. ASSUME Missing = "none", r.todo # {}, UNCHANGED removals, Change(p, [d EXCEPT !.todo = @ \ {half}], to)
      PROVE  PipeInv'
  <2>1. half \in r.todo /\ half \in {"disabled", "remarked"}
    BY <1>1, <1>5 DEF CallRecord
  <2> HIDE DEF half
  <2>2. removals' \in Nat
    BY <1>3, <1>5
  <2>3. half \in {"created", "deleted", "disabled", "remarked", "visited"}
    BY <2>1
  <2>4. /\ d \in CallRecord /\ d.did = r.did \cup {half} /\ d.since = removals' /\ d.answer = 0
        /\ d.noted = 0 /\ d.broke = FALSE /\ d.stage = "patch" /\ d.route = "url" /\ d.method = "PATCH"
        /\ d.asks = r.asks /\ d.todo = r.todo
    BY <1>1, <2>2, <2>3, DidIs
  <2> HIDE DEF d
  <2>5. /\ s \in CallRecord /\ s.did = r.did \cup {half} /\ s.since = removals' /\ s.answer = 0
        /\ s.noted = 0 /\ s.broke = FALSE /\ s.stage = "patch" /\ s.route = "url" /\ s.method = "PATCH"
        /\ s.asks = r.asks /\ s.todo = r.todo \ {half}
    <3>1. r.todo \ {half} \in SUBSET {"disabled", "remarked"}
      BY <1>1 DEF CallRecord
    <3> QED BY <2>4, <3>1 DEF CallRecord
  <2>6. Change(p, s, to)
    BY <1>5, <2>4
  <2> HIDE DEF s
  <2>7. to \in Rows /\ to.there = row.there
    BY <1>3 DEF Rows
  <2>8. row.there
    BY <1>5, MissingIs
  <2> HIDE DEF to
  <2>9. s.did \cup s.todo = s.asks
    BY <1>1, <2>1, <2>5
  <2>10. OnItsWay(s, to.there, removals', up)
    BY <1>3, <1>5, <2>5, <2>7, <2>8, <2>9 DEF OnItsWay
  <2> QED BY <1>3, <1>5, <2>2, <2>5, <2>6, <2>7, <2>10, ChangeInv
<1> QED BY <1>2, <1>4, <1>5, MissingIs

LEMMA RedirectInv ==
    ASSUME PipeInv, NEW p \in Clients, Redirect(p)
    PROVE  PipeInv'
<1> DEFINE r == call[p]
           s == To(r, "visit")
<1>1. /\ At(p, "redirect") /\ r.stage = "redirect" /\ r \in CallRecord /\ r.did = {} /\ r.route = "code"
      /\ r.broke = FALSE /\ r.answer = 0 /\ r.noted = 0
  BY CallAt DEF Redirect, At, OnItsWay
<1>2. ASSUME NEW status \in {404, 410, 500}, Only(p, Reply(r, status)) PROVE PipeInv'
  BY <1>1, <1>2, RefusedInv
<1>3. CASE Only(p, To(r, "visit"))
  <2>1. call' = [call EXCEPT ![p] = s] /\ UNCHANGED <<row, removals, up>>
    BY <1>3 DEF Only, Turns
  <2> HIDE DEF r
  <2>2. /\ s \in CallRecord /\ s.stage = "visit" /\ s.did = {} /\ s.route = "code" /\ s.broke = FALSE
        /\ s.answer = 0 /\ s.noted = 0
    BY <1>1, ToIs DEF Stages
  <2> HIDE DEF s
  <2>3. OnItsWay(s, row.there, removals, up)
    BY <2>2 DEF OnItsWay
  <2> QED BY <2>1, <2>2, <2>3, OnlyCall
<1> QED BY <1>2, <1>3, MissingIs DEF Redirect

LEMMA CountVisitInv ==
    ASSUME PipeInv, NEW p \in Clients, CountVisit(p)
    PROVE  PipeInv'
<1> DEFINE r == call[p]
           d == Did(r, "visited")
<1>1. At(p, "visit") /\ r.stage = "visit" /\ r \in CallRecord /\ r.did = {} /\ r.route = "code"
  BY CallAt, ZenonT(40) DEF CountVisit, At, OnItsWay
<1>2. ASSUME NEW status \in {404, 500}, Only(p, Reply(r, status)) PROVE PipeInv'
  BY <1>1, <1>2, RefusedInv
<1>3. ASSUME NEW status \in {302, 410}, Only(p, Reply(d, status)) PROVE PipeInv'
  <2>1. call' = [call EXCEPT ![p] = Reply(d, status)] /\ UNCHANGED <<row, removals, up>>
    BY <1>3 DEF Only, Turns
  <2>2. removals' \in Nat
    BY <2>1 DEF PipeInv, PipeTypes
  <2> HIDE DEF r
  <2>3. d \in CallRecord /\ d.did = {"visited"} /\ d.route = "code"
    BY <1>1, <2>2, DidIs
  <2> HIDE DEF d
  <2>4. Reply(d, status) \in CallRecord
    BY <2>3, ReplyIs
  <2>5. OnItsWay(Reply(d, status), row.there, removals, up)
    BY <2>3, Replied
  <2> QED BY <2>1, <2>4, <2>5, OnlyCall
<1> QED BY <1>2, <1>3, MissingIs DEF CountVisit

LEMMA ProbeInv ==
    ASSUME PipeInv, NEW p \in Clients, Probe(p)
    PROVE  PipeInv'
<1> DEFINE r == call[p]
           t == To(r, "probeLog")
           s == [t EXCEPT !.saw = up \cap {"url"}]
<1>1. /\ r.stage = "probe" /\ r \in CallRecord /\ r.did = {} /\ r.route \in {"health", "ready"}
      /\ r.broke = FALSE /\ r.answer = 0 /\ r.noted = 0
  BY CallAt DEF Probe, At, OnItsWay
<1>2. call' = [call EXCEPT ![p] = s] /\ UNCHANGED <<row, removals, up>>
  BY DEF Probe, Turns
<1> HIDE DEF r
<1>3. /\ t \in CallRecord /\ t.stage = "probeLog" /\ t.did = {} /\ t.route = r.route
      /\ t.broke = FALSE /\ t.answer = 0 /\ t.noted = 0
  BY <1>1, ToIs DEF Stages
<1> HIDE DEF t
<1>4. /\ s \in CallRecord /\ s.stage = "probeLog" /\ s.did = {} /\ s.route = r.route
      /\ s.broke = FALSE /\ s.answer = 0 /\ s.noted = 0 /\ s.saw = up \cap {"url"}
  BY <1>3 DEF CallRecord
<1> HIDE DEF s
<1>5. "url" \notin up => up = {}
  BY DEF PipeInv, PipeTypes
<1>6. OnItsWay(s, row.there, removals, up)
  BY <1>1, <1>4, <1>5 DEF OnItsWay
<1> QED BY <1>2, <1>4, <1>6, OnlyCall

LEMMA ProbeLogInv ==
    ASSUME PipeInv, NEW p \in Clients, ProbeLog(p)
    PROVE  PipeInv'
<1> DEFINE r == call[p]
           saw == r.saw \cup (up \cap {"log"})
           status == IF r.route = "health" THEN Health(saw) ELSE Ready(saw)
<1>1. /\ r.stage = "probeLog" /\ r \in CallRecord /\ r.did = {} /\ r.route \in {"health", "ready"}
      /\ "url" \notin r.saw => up = {}
  BY CallAt DEF ProbeLog, At, OnItsWay
<1>2. call' = [call EXCEPT ![p] = Reply(r, status)] /\ UNCHANGED <<row, removals, up>>
  BY DEF ProbeLog, Turns
<1> HIDE DEF r
<1>3. status \in {200, 503} /\ (r.route = "health" /\ status = 503 => up = {})
  BY <1>1 DEF Health, Ready
<1> HIDE DEF status
<1>4. Reply(r, status) \in CallRecord
  BY <1>1, <1>3, ReplyIs
<1>5. OnItsWay(Reply(r, status), row.there, removals, up)
  BY <1>1, <1>3, Replied
<1> QED BY <1>2, <1>4, <1>5, OnlyCall

LEMMA LookInv ==
    ASSUME PipeInv, NEW p \in Clients, Look(p)
    PROVE  PipeInv'
<1> DEFINE r == call[p]
<1>1. /\ r.stage = "look" /\ r \in CallRecord /\ r.did = {}
      /\ r.route \notin {"urls", "code", "health", "ready"} /\ (r.route = "url" => r.method = "GET")
  BY CallAt DEF Look, At, OnItsWay
<1>2. PICK status \in Answers(r) : call' = [call EXCEPT ![p] = Reply(r, status)]
  BY DEF Look, Turns
<1>3. UNCHANGED <<row, removals, up>>
  BY DEF Look
<1> HIDE DEF r
<1>4. r.route \in Routes
  BY <1>1 DEF CallRecord
<1>5. status \in {200, 404, 413, 499, 500, 503}
  <2>1. Found \in {200, 404, 500}
    BY MissingIs DEF Found
  <2>2. StatsAnswers \subseteq {200, 404, 413, 499, 500}
    BY <2>1, MappedIs DEF StatsAnswers
  <2>3. /\ DOMAIN AdminAnswers = {"adminHealth", "flush", "runtime", "gc"}
        /\ DOMAIN RootAnswers = {"page", "reserved"}
        /\ \A x \in DOMAIN AdminAnswers : AdminAnswers[x] \subseteq {200, 500, 503}
        /\ \A x \in DOMAIN RootAnswers : RootAnswers[x] \subseteq {200, 404}
    BY DEF AdminAnswers, RootAnswers, NotACode
  <2>4. /\ r.route = "url" => Answers(r) = {Found}
        /\ r.route = "stats" => Answers(r) = StatsAnswers
        /\ r.route = "metrics" => Answers(r) = {200, 500}
        /\ r.route = "reset" => Answers(r) = {200}
        /\ r.route \in DOMAIN AdminAnswers => Answers(r) = AdminAnswers[r.route]
        /\ r.route \in DOMAIN RootAnswers => Answers(r) = RootAnswers[r.route]
    BY <2>3 DEF Answers, MetricsAnswers
  <2>5. \/ r.route \in {"url", "stats", "metrics", "reset"}
        \/ r.route \in DOMAIN AdminAnswers \/ r.route \in DOMAIN RootAnswers
    BY <1>1, <1>4, <2>3 DEF Routes
  <2> DEFINE all == Answers(r)
  <2>6. all \subseteq {200, 404, 413, 499, 500, 503}
    <3> HIDE DEF all
    <3>1. r.route = "url" => all = {Found}
      BY <2>4 DEF all
    <3>2. r.route = "stats" => all = StatsAnswers
      BY <2>4 DEF all
    <3>3. r.route = "metrics" \/ r.route = "reset" => all \subseteq {200, 500}
      BY <2>4 DEF all
    <3>4. r.route \in DOMAIN AdminAnswers => all \subseteq {200, 500, 503}
      BY <2>3, <2>4 DEF all
    <3>5. r.route \in DOMAIN RootAnswers => all \subseteq {200, 404}
      BY <2>3, <2>4 DEF all
    <3>6. CASE r.route \in {"url", "stats", "metrics", "reset"}
      <4>1. CASE r.route = "url"
        BY <2>1, <3>1, <4>1
      <4>2. CASE r.route = "stats"
        <5>1. all = StatsAnswers
          BY <3>2, <4>2
        <5> QED BY <2>2, <5>1
      <4>3. CASE r.route = "metrics" \/ r.route = "reset"
        BY <3>3, <4>3
      <4> QED BY <3>6, <4>1, <4>2, <4>3
    <3>7. CASE r.route \in DOMAIN AdminAnswers
      BY <3>4, <3>7
    <3>8. CASE r.route \in DOMAIN RootAnswers
      BY <3>5, <3>8
    <3> QED BY <2>5, <3>6, <3>7, <3>8
  <2> QED BY <1>2, <2>6
<1>6. Reply(r, status) \in CallRecord
  BY <1>1, <1>5, ReplyIs, SMTT(30)
<1>7. OnItsWay(Reply(r, status), row.there, removals, up)
  BY <1>1, <1>5, Replied
<1> QED BY <1>2, <1>3, <1>6, <1>7, OnlyCall

LEMMA ClosesInv ==
    ASSUME PipeInv, CloseLog \/ CloseStore, UNCHANGED <<call, row, removals>>
    PROVE  PipeInv'
<1>1. up' \subseteq up /\ up' \in {{}, {"url"}, {"url", "log"}}
  BY DEF CloseLog, CloseStore
<1>2. PipeTypes'
  BY <1>1 DEF PipeInv, PipeTypes
<1>3. ASSUME NEW p \in Clients PROVE OnItsWay(call'[p], row'.there, removals', up')
  <2>1. call[p] \in CallRecord /\ row.there \in BOOLEAN /\ removals \in Nat /\ removals <= removals
    BY DEF PipeInv, PipeTypes, Rows
  <2>2. OnItsWay(call[p], row.there, removals, up)
    BY DEF PipeInv
  <2>3. OnItsWay(call[p], row.there, removals, up')
    BY <1>1, <2>1, <2>2, Elsewhere
  <2> QED BY <2>3
<1> QED BY <1>2, <1>3 DEF PipeInv

LEMMA PipeInductive == Spec => []PipeInv
<1>1. PipeInv /\ [PipeNext]_pipeVars => PipeInv'
  <2> SUFFICES ASSUME PipeInv, [PipeNext]_pipeVars PROVE PipeInv'
    OBVIOUS
  <2>1. CASE UNCHANGED pipeVars
    BY <2>1 DEF pipeVars, PipeInv, PipeTypes, OnItsWay, Honest
  <2>2. CASE PipeNext
    BY <2>2, SendInv, EndBodyInv, RecoveredInv, DispatchInv, CreateInv, DeleteInv, PatchInv,
       RedirectInv, CountVisitInv, ProbeInv, ProbeLogInv, LookInv, ClosesInv DEF PipeNext
  <2> QED BY <2>1, <2>2
<1> QED BY <1>1, PipeInitially, PipeBehaves, PTL

\* Whatever requests are sent, and however they interleave with deletions, failing
\* writes, panics and the end of the process: what an answer says has been done was
\* done and nothing else, but for the cases AnswersHonest names (the middleware of
\* main.go, the handlers, httputil.Map).
THEOREM AnswersAreHonest == Spec => []AnswersHonest
<1>1. PipeInv => AnswersHonest
  <2> SUFFICES ASSUME PipeInv, NEW p \in Clients, call[p].stage = "ended"
               PROVE  LET r == call[p] IN
                        /\ r.did = Promised(r) \/ (r.answer >= 400 /\ (r.broke \/ Excused(r)))
                        /\ r.noted = r.answer \/ (r.broke /\ r.noted = 0 /\ r.answer = 500)
                        /\ r.route = "health" /\ r.answer = 503 => up = {}
    BY DEF AnswersHonest
  <2>1. Honest(call[p], removals, up)
    BY DEF PipeInv, OnItsWay
  <2> QED BY <2>1 DEF Honest, Excused
<1> QED BY <1>1, PipeInductive, PTL

-----------------------------------------------------------------------------
(* String set *)

SetTypes ==
    /\ object \in [Names -> {0} \cup Refs] /\ mapOf \in [Refs -> {0} \cup Refs]
    /\ content \in [Refs -> SUBSET Strings]
    /\ meant \in [Names -> SUBSET Strings]

MapFor(v) == IF object[v] = 0 THEN 0 ELSE mapOf[object[v]]

\* Two variables have a Set or a map in common.
Touch(u, v) ==
    /\ object[u] # 0 /\ object[v] # 0
    /\ object[u] = object[v] \/ (MapFor(u) # 0 /\ MapFor(u) = MapFor(v))

SharesOK == \A u, v \in Names : u # v /\ Touch(u, v) => u \in spoilt /\ v \in spoilt
MeantOK == \A v \in Names \ spoilt : Holds(v) = meant[v]

SetInv == SetTypes /\ SharesOK /\ MeantOK

LEMMA ZeroIsNoRef == 0 \notin Refs /\ Cardinality(Names) \in Nat /\ Refs \subseteq Nat
BY SetConstantsOK, FS_CardinalityType DEF Refs

\* There are more Sets, and more maps, than variables.
LEMMA OneIsFree ==
    ASSUME NEW f
    PROVE  \E o \in Refs : \A v \in Names : f[v] # o
<1>1. SUFFICES ASSUME \A o \in Refs : \E v \in Names : f[v] = o PROVE FALSE
  OBVIOUS
<1>2. IsFiniteSet(Names) /\ Cardinality(Names) \in Nat
  BY SetConstantsOK, FS_CardinalityType
<1>3. IsFiniteSet(Refs) /\ Cardinality(Names) < Cardinality(Refs)
  BY <1>2, FS_Interval DEF Refs
<1> DEFINE g == [o \in Refs |-> CHOOSE v \in Names : f[v] = o]
<1>4. g \in [Refs -> Names] /\ \A o \in Refs : f[g[o]] = o
  BY <1>1
<1> HIDE DEF g
<1>5. PICK x, y \in Refs : x # y /\ g[x] = g[y]
  BY <1>2, <1>3, <1>4, FS_PigeonHole
<1> QED BY <1>4, <1>5

LEMMA FreshIs ==
    /\ FreshObject \in Refs /\ \A v \in Names : object[v] # FreshObject
    /\ FreshMap \in Refs /\ \A v \in Names : MapFor(v) # FreshMap
<1>1. \E o \in Refs : \A v \in Names : object[v] # o
  BY OneIsFree
<1>2. \E m \in Refs : \A v \in Names : object[v] = 0 \/ mapOf[object[v]] # m
  <2> DEFINE f == [v \in Names |-> MapFor(v)]
  <2>1. PICK m \in Refs : \A v \in Names : f[v] # m
    BY OneIsFree
  <2> QED BY <2>1 DEF MapFor
<1>3. FreshObject \in Refs /\ \A v \in Names : object[v] # FreshObject
  BY <1>1 DEF FreshObject
<1>4. FreshMap \in Refs /\ \A v \in Names : object[v] = 0 \/ mapOf[object[v]] # FreshMap
  BY <1>2 DEF FreshMap
<1>5. \A v \in Names : MapFor(v) # FreshMap
  BY <1>4, ZeroIsNoRef DEF MapFor
<1> QED BY <1>3, <1>4, <1>5

LEMMA HoldsIs ==
    \A v \in Names : Holds(v) = IF MapFor(v) = 0 THEN {} ELSE content[MapFor(v)]
BY DEF Holds, In, MapFor

LEMMA MapForIs ==
    ASSUME SetTypes, NEW v \in Names
    PROVE  MapFor(v) \in {0} \cup Refs /\ object[v] \in {0} \cup Refs /\ Holds(v) \in SUBSET Strings
BY HoldsIs DEF SetTypes, MapFor

\* v leaves what it had to others and has a new Set, with a map that is new, none, or
\* another's.
LEMMA NewObject ==
    ASSUME SetTypes, NEW v \in Names, NEW m \in {0} \cup Refs, NEW strings \in SUBSET Strings,
           object' = [object EXCEPT ![v] = FreshObject],
           mapOf' = [mapOf EXCEPT ![FreshObject] = m],
           \/ content' = [content EXCEPT ![FreshMap] = strings] /\ m = FreshMap
           \/ content' = content /\ strings = IF m = 0 THEN {} ELSE content[m]
    PROVE  /\ object' \in [Names -> {0} \cup Refs] /\ mapOf' \in [Refs -> {0} \cup Refs]
           /\ content' \in [Refs -> SUBSET Strings]
           /\ object'[v] = FreshObject /\ MapFor(v)' = m /\ Holds(v)' = strings
           /\ \A u \in Names \ {v} : /\ object'[u] = object[u] /\ object'[u] # FreshObject
                                     /\ MapFor(u)' = MapFor(u) /\ Holds(u)' = Holds(u)
<1>1. /\ FreshObject \in Refs /\ \A u \in Names : object[u] # FreshObject
      /\ FreshMap \in Refs /\ \A u \in Names : MapFor(u) # FreshMap
  BY FreshIs
<1>2. /\ object' \in [Names -> {0} \cup Refs] /\ mapOf' \in [Refs -> {0} \cup Refs]
      /\ content' \in [Refs -> SUBSET Strings]
  BY <1>1 DEF SetTypes
<1>3. object'[v] = FreshObject /\ mapOf'[FreshObject] = m
  BY <1>1 DEF SetTypes
<1>4. MapFor(v)' = m
  BY <1>1, <1>3, ZeroIsNoRef DEF MapFor
<1>5. content'[m] = strings \/ (m = 0 /\ strings = {})
  BY <1>1 DEF SetTypes
<1>6. Holds(v)' = strings
  <2>1. Holds(v)' = IF MapFor(v)' = 0 THEN {} ELSE content'[MapFor(v)']
    BY DEF Holds, In, MapFor
  <2> QED BY <1>1, <1>4, <1>5, <2>1, ZeroIsNoRef
<1>7. ASSUME NEW u \in Names \ {v}
      PROVE  /\ object'[u] = object[u] /\ object'[u] # FreshObject
             /\ MapFor(u)' = MapFor(u) /\ Holds(u)' = Holds(u)
  <2>1. object'[u] = object[u] /\ object[u] # FreshObject /\ object[u] \in {0} \cup Refs
    BY <1>1 DEF SetTypes
  <2>2. MapFor(u)' = MapFor(u)
    BY <1>1, <2>1 DEF MapFor, SetTypes
  <2>3. MapFor(u) \in {0} \cup Refs /\ MapFor(u) # FreshMap
    BY <1>1, MapForIs
  <2>4. Holds(u)' = IF MapFor(u)' = 0 THEN {} ELSE content'[MapFor(u)']
    BY DEF Holds, In, MapFor
  <2>5. MapFor(u) # 0 => content'[MapFor(u)] = content[MapFor(u)]
    BY <2>3 DEF SetTypes
  <2> QED BY <2>1, <2>2, <2>4, <2>5, HoldsIs
<1> QED BY <1>2, <1>3, <1>4, <1>6, <1>7

\* A new Set that shares no map.
LEMMA OwnSet ==
    ASSUME SetInv, NEW v \in Names, NEW m \in {0, FreshMap}, NEW strings \in SUBSET Strings,
           NEW value \in SUBSET Strings,
           object' = [object EXCEPT ![v] = FreshObject],
           mapOf' = [mapOf EXCEPT ![FreshObject] = m],
           \/ content' = [content EXCEPT ![FreshMap] = strings] /\ m = FreshMap
           \/ content' = content /\ m = 0 /\ strings = {},
           meant' = [meant EXCEPT ![v] = value],
           spoilt' = spoilt \cup {v} \/ (spoilt' = spoilt \ {v} /\ strings = value)
    PROVE  SetInv'
<1>1. m \in {0} \cup Refs /\ \A u \in Names : MapFor(u) # FreshMap
  BY FreshIs
<1>2. /\ object' \in [Names -> {0} \cup Refs] /\ mapOf' \in [Refs -> {0} \cup Refs]
      /\ content' \in [Refs -> SUBSET Strings]
      /\ object'[v] = FreshObject /\ MapFor(v)' = m /\ Holds(v)' = strings
      /\ \A u \in Names \ {v} : /\ object'[u] = object[u] /\ object'[u] # FreshObject
                                /\ MapFor(u)' = MapFor(u) /\ Holds(u)' = Holds(u)
  BY <1>1, NewObject DEF SetInv
<1>3. SetTypes'
  BY <1>2 DEF SetInv, SetTypes
<1>4. SharesOK'
  <2> SUFFICES ASSUME NEW u \in Names, NEW w \in Names, u # w, Touch(u, w)'
               PROVE  u \in spoilt' /\ w \in spoilt'
    BY DEF SharesOK
  <2>1. u # v /\ w # v
    BY <1>1, <1>2 DEF Touch
  <2>2. Touch(u, w)
    BY <1>2, <2>1 DEF Touch
  <2> QED BY <2>1, <2>2 DEF SetInv, SharesOK
<1>5. MeantOK'
  BY <1>2 DEF SetInv, SetTypes, MeantOK
<1> QED BY <1>3, <1>4, <1>5 DEF SetInv

LEMMA NewSetInv ==
    ASSUME SetInv, NEW v \in Names, NEW strings \in SUBSET Strings, NEW value \in SUBSET Strings,
           NewSet(v, strings), Mean(v, value),
           spoilt' = spoilt \cup {v} \/ (spoilt' = spoilt \ {v} /\ strings = value)
    PROVE  SetInv'
BY OwnSet DEF NewSet, Mean

LEMMA NewNilInv ==
    ASSUME SetInv, NEW v \in Names, NEW value \in SUBSET Strings, NewNil(v), Mean(v, value),
           spoilt' = spoilt \cup {v}
    PROVE  SetInv'
<1>1. {} \in SUBSET Strings /\ 0 \in {0, FreshMap}
  OBVIOUS
<1> QED BY <1>1, OwnSet DEF NewNil, Mean

\* The strings of one Set change, in its map or in a new one.
LEMMA Changed ==
    ASSUME SetInv, NEW v \in Names, object[v] # 0, NEW m \in Refs,
           NEW strings \in SUBSET Strings, NEW value \in SUBSET Strings,
           m = FreshMap \/ m = MapFor(v),
           object' = object, mapOf' = [mapOf EXCEPT ![object[v]] = m],
           content' = [content EXCEPT ![m] = strings],
           meant' = [meant EXCEPT ![v] = value], spoilt' = spoilt,
           v \notin spoilt => strings = value
    PROVE  SetInv'
<1>1. FreshMap \in Refs /\ \A u \in Names : MapFor(u) # FreshMap
  BY FreshIs
<1>2. object[v] \in Refs /\ 0 \notin Refs
  BY ZeroIsNoRef DEF SetInv, SetTypes
<1>3. SetTypes'
  BY <1>2 DEF SetInv, SetTypes
<1>4. \A u \in Names : MapFor(u)' = IF object[u] = object[v] THEN m ELSE MapFor(u)
  BY <1>2 DEF SetInv, SetTypes, MapFor
<1>5. SharesOK'
  <2> SUFFICES ASSUME NEW u \in Names, NEW w \in Names, u # w, Touch(u, w)'
               PROVE  u \in spoilt /\ w \in spoilt
    BY DEF SharesOK
  <2>1. object[u] # 0 /\ object[w] # 0 /\ (object[u] = object[w] \/ (MapFor(u)' # 0 /\ MapFor(u)' = MapFor(w)'))
    BY DEF Touch
  <2>2. CASE Touch(u, w)
    BY <2>2 DEF SetInv, SharesOK
  <2>3. CASE ~Touch(u, w)
    <3>1. object[u] # object[w] /\ MapFor(u)' # 0 /\ MapFor(u)' = MapFor(w)' /\ (MapFor(u) = 0 \/ MapFor(u) # MapFor(w))
      BY <2>1, <2>3 DEF Touch
    <3>2. \/ object[u] = object[v] /\ object[w] # object[v] /\ MapFor(w) = m
          \/ object[w] = object[v] /\ object[u] # object[v] /\ MapFor(u) = m
      BY <1>4, <3>1
    <3>3. m = MapFor(v) /\ m # 0
      BY <1>1, <1>2, <3>2
    <3>4. CASE object[u] = object[v]
      BY <2>3, <3>1, <3>2, <3>3, <3>4 DEF MapFor
    <3>5. CASE object[w] = object[v]
      BY <2>3, <3>1, <3>2, <3>3, <3>5 DEF MapFor
    <3> QED BY <3>2, <3>4, <3>5
  <2> QED BY <2>2, <2>3
<1>6. MeantOK'
  <2> SUFFICES ASSUME NEW u \in Names \ spoilt PROVE Holds(u)' = meant'[u]
    BY DEF MeantOK
  <2>1. Holds(u)' = IF MapFor(u)' = 0 THEN {} ELSE content'[MapFor(u)']
    BY DEF Holds, In, MapFor
  <2>2. CASE u = v
    <3>1. MapFor(u)' = m /\ m # 0
      BY <1>2, <1>4, <2>2
    <3> QED BY <2>1, <2>2, <3>1 DEF SetInv, SetTypes
  <2>3. CASE u # v
    <3>1. ~Touch(u, v)
      BY <2>3 DEF SetInv, SharesOK
    <3>2. (MapFor(u)' = MapFor(u) /\ MapFor(u) # m) \/ (MapFor(u)' = 0 /\ MapFor(u) = 0)
      <4>1. object[u] # object[v]
        BY <1>2, <3>1 DEF Touch
      <4>2. object[u] # 0 => MapFor(u) = 0 \/ MapFor(u) # MapFor(v)
        BY <3>1 DEF Touch
      <4>3. object[u] = 0 => MapFor(u) = 0
        BY DEF MapFor
      <4> QED BY <1>1, <1>2, <1>4, <4>1, <4>2, <4>3
    <3>3. MapFor(u) \in {0} \cup Refs
      BY MapForIs DEF SetInv
    <3>4. Holds(u)' = Holds(u)
      BY <2>1, <3>2, <3>3, HoldsIs DEF SetInv, SetTypes
    <3> QED BY <2>3, <3>4 DEF SetInv, SetTypes, MeantOK
  <2> QED BY <2>2, <2>3
<1> QED BY <1>3, <1>5, <1>6 DEF SetInv

LEMMA PutInv ==
    ASSUME SetInv, NEW v \in Names, ~Nil(v), NEW strings \in SUBSET Strings, NEW value \in SUBSET Strings,
           Put(v, strings), Mean(v, value), UNCHANGED spoilt, v \notin spoilt => strings = value
    PROVE  SetInv'
<1> DEFINE m == IF mapOf[object[v]] = 0 THEN FreshMap ELSE mapOf[object[v]]
<1>1. object[v] # 0 /\ object[v] \in Refs /\ MapFor(v) = mapOf[object[v]]
  BY DEF SetInv, SetTypes, MapFor, Nil
<1>2. m \in Refs /\ (m = FreshMap \/ m = MapFor(v))
  BY <1>1, FreshIs DEF SetInv, SetTypes
<1>3. object' = object /\ mapOf' = [mapOf EXCEPT ![object[v]] = m] /\ content' = [content EXCEPT ![m] = strings]
  BY DEF Put
<1> HIDE DEF m
<1> QED BY <1>1, <1>2, <1>3, Changed DEF Mean

LEMMA FromSliceInv ==
    ASSUME SetInv, NEW v \in Names, NEW strings \in SUBSET Strings, NEW first, FromSlice(v, strings, first)
    PROVE  SetInv'
<1>1. CASE first = Blank
  BY <1>1, NewNilInv DEF FromSlice
<1>2. CASE first # Blank
  BY <1>2, NewSetInv DEF FromSlice
<1> QED BY <1>1, <1>2

LEMMA SnapshotInv ==
    ASSUME SetInv, NEW v \in Names, NEW u \in Names, Snapshot(v, u)
    PROVE  SetInv'
<1>1. Holds(u) \in SUBSET Strings /\ meant[u] \in SUBSET Strings
  BY MapForIs DEF SetInv, SetTypes
<1>2. u \notin spoilt => Holds(u) = meant[u]
  BY DEF SetInv, MeantOK
<1>3. Mean(v, meant[u]) /\ \E first :
        /\ IF first = Blank THEN NewNil(v) ELSE NewSet(v, Holds(u))
        /\ spoilt' = IF first = Blank \/ u \in spoilt THEN spoilt \cup {v} ELSE spoilt \ {v}
  BY DEF Snapshot
<1> QED BY <1>1, <1>2, <1>3, NewNilInv, NewSetInv

LEMMA ChangesInv ==
    ASSUME SetInv, NEW v \in Names, NEW x \in Strings, NEW strings \in SUBSET Strings,
           Add(v, x) \/ AddAll(v, strings) \/ RemoveOne(v, x)
    PROVE  SetInv'
<1>1. Holds(v) \in SUBSET Strings /\ meant[v] \in SUBSET Strings
  BY MapForIs DEF SetInv, SetTypes
<1>2. v \notin spoilt => Holds(v) = meant[v]
  BY DEF SetInv, MeantOK
<1>3. PICK now \in SUBSET Strings, value \in SUBSET Strings :
        ~Nil(v) /\ Put(v, now) /\ Mean(v, value) /\ UNCHANGED spoilt /\ (v \notin spoilt => now = value)
  <2>1. CASE Add(v, x)
    BY <1>1, <1>2, <2>1 DEF Add
  <2>2. CASE AddAll(v, strings)
    BY <1>1, <1>2, <2>2 DEF AddAll
  <2>3. CASE RemoveOne(v, x)
    BY <1>1, <1>2, <2>3 DEF RemoveOne
  <2> QED BY <2>1, <2>2, <2>3
<1> QED BY <1>3, PutInv

LEMMA ClearInv ==
    ASSUME SetInv, NEW v \in Names, Clear(v)
    PROVE  SetInv'
<1>1. {} \in SUBSET Strings /\ FreshMap \in Refs
  BY FreshIs
<1> QED BY <1>1, Changed DEF Clear, Mean, Nil

\* v gets the Set of u, or a new Set with its map.
LEMMA UnionInv ==
    ASSUME SetInv, NEW v \in Names, NEW a \in Names, NEW b \in Names, Union(v, a, b)
    PROVE  SetInv'
<1>1. /\ Holds(a) \in SUBSET Strings /\ Holds(b) \in SUBSET Strings
      /\ meant[a] \in SUBSET Strings /\ meant[b] \in SUBSET Strings
  BY MapForIs DEF SetInv, SetTypes
<1>2. CASE ~(Nil(a) \/ Nil(b))
  <2>1. /\ a \notin spoilt => Holds(a) = meant[a]
        /\ b \notin spoilt => Holds(b) = meant[b]
    BY DEF SetInv, MeantOK
  <2>2. Holds(a) \cup Holds(b) \in SUBSET Strings /\ meant[a] \cup meant[b] \in SUBSET Strings
    BY <1>1
  <2> QED BY <1>2, <2>1, <2>2, NewSetInv DEF Union
<1>3. CASE Nil(a) \/ Nil(b)
  <2> DEFINE u == IF Nil(a) THEN b ELSE a
  <2>1. /\ object' = [object EXCEPT ![v] = object[u]] /\ UNCHANGED <<mapOf, content>>
        /\ spoilt' = spoilt \cup {v, u} /\ meant' = [meant EXCEPT ![v] = meant[a] \cup meant[b]]
    BY <1>3 DEF Union, Shares, Mean
  <2>2. u \in Names
    OBVIOUS
  <2> HIDE DEF u
  <2>3. object[u] \in {0} \cup Refs /\ object'[v] = object[u] /\ \A w \in Names : w # v => object'[w] = object[w]
    BY <2>1, <2>2 DEF SetInv, SetTypes
  <2>4. SetTypes'
    BY <1>1, <2>1, <2>3 DEF SetInv, SetTypes
  <2>5. MapFor(v)' = MapFor(u) /\ \A w \in Names : w # v => MapFor(w)' = MapFor(w)
    BY <2>1, <2>3 DEF MapFor
  <2>6. SharesOK'
    <3> SUFFICES ASSUME NEW w \in Names, NEW x \in Names, w # x, Touch(w, x)', w \notin spoilt'
                 PROVE  FALSE
      BY DEF SharesOK, Touch
    <3>1. w # v /\ w # u /\ w \notin spoilt
      BY <2>1
    <3>2. CASE x = v
      <4>1. Touch(w, u)
        BY <2>3, <2>5, <3>1, <3>2 DEF Touch
      <4> QED BY <2>2, <3>1, <4>1 DEF SetInv, SharesOK
    <3>3. CASE x # v
      <4>1. Touch(w, x)
        BY <2>3, <2>5, <3>1, <3>3 DEF Touch
      <4> QED BY <3>1, <4>1 DEF SetInv, SharesOK
    <3> QED BY <3>2, <3>3
  <2>7. MeantOK'
    <3> SUFFICES ASSUME NEW w \in Names \ spoilt' PROVE Holds(w)' = meant'[w]
      BY DEF MeantOK
    <3>1. w # v /\ w \in Names \ spoilt
      BY <2>1
    <3>2. Holds(w)' = Holds(w)
      BY <2>1, <2>3, <3>1 DEF Holds, In
    <3> QED BY <2>1, <3>1, <3>2 DEF SetInv, SetTypes, MeantOK
  <2> QED BY <2>4, <2>6, <2>7 DEF SetInv
<1> QED BY <1>2, <1>3

LEMMA CommonIs == \A x, y : Common(x, y) = x \cap y
BY DEF Common

LEMMA IntersectInv ==
    ASSUME SetInv, NEW v \in Names, NEW a \in Names, NEW b \in Names, Intersect(v, a, b)
    PROVE  SetInv'
<1> DEFINE now == IF Nil(a) \/ Nil(b) THEN {} ELSE Common(Holds(a), Holds(b))
<1>1. /\ Holds(a) \in SUBSET Strings /\ Holds(b) \in SUBSET Strings
      /\ meant[a] \in SUBSET Strings /\ meant[b] \in SUBSET Strings
  BY MapForIs DEF SetInv, SetTypes
<1>2. /\ a \notin spoilt => Holds(a) = meant[a]
      /\ b \notin spoilt => Holds(b) = meant[b]
  BY DEF SetInv, MeantOK
<1>3. (Nil(a) => Holds(a) = {}) /\ (Nil(b) => Holds(b) = {})
  BY DEF Nil, Holds, In
<1>4. now = Holds(a) \cap Holds(b) /\ now \in SUBSET Strings
  BY <1>1, <1>3, CommonIs
<1>5. /\ NewSet(v, now) /\ Mean(v, meant[a] \cap meant[b])
      /\ spoilt' = IF {a, b} \cap spoilt # {} THEN spoilt \cup {v} ELSE spoilt \ {v}
  BY DEF Intersect
<1> HIDE DEF now
<1>6. meant[a] \cap meant[b] \in SUBSET Strings /\ ({a, b} \cap spoilt = {} => now = meant[a] \cap meant[b])
  BY <1>1, <1>2, <1>4
<1> QED BY <1>4, <1>5, <1>6, NewSetInv

LEMMA DiffInv ==
    ASSUME SetInv, NEW v \in Names, NEW a \in Names, NEW b \in Names, Diff(v, a, b)
    PROVE  SetInv'
<1>1. /\ Holds(a) \in SUBSET Strings /\ Holds(b) \in SUBSET Strings
      /\ meant[a] \in SUBSET Strings /\ meant[b] \in SUBSET Strings
  BY MapForIs DEF SetInv, SetTypes
<1>2. CASE ~(~Nil(a) /\ Nil(b))
  <2> DEFINE now == IF Nil(a) THEN {} ELSE {k \in Holds(a) : k \notin Holds(b)}
  <2>1. /\ a \notin spoilt => Holds(a) = meant[a]
        /\ b \notin spoilt => Holds(b) = meant[b]
    BY DEF SetInv, MeantOK
  <2>2. Nil(a) => Holds(a) = {}
    BY DEF Nil, Holds, In
  <2>3. /\ NewSet(v, now) /\ Mean(v, meant[a] \ meant[b])
        /\ spoilt' = IF {a, b} \cap spoilt # {} THEN spoilt \cup {v} ELSE spoilt \ {v}
    BY <1>2 DEF Diff, Subtracted
  <2>4. now = Holds(a) \ Holds(b) /\ now \in SUBSET Strings
    BY <1>1, <2>2
  <2> HIDE DEF now
  <2>5. meant[a] \ meant[b] \in SUBSET Strings /\ ({a, b} \cap spoilt = {} => now = meant[a] \ meant[b])
    BY <1>1, <2>1, <2>4
  <2> QED BY <2>3, <2>4, <2>5, NewSetInv
<1>3. CASE ~Nil(a) /\ Nil(b)
  <2>1. /\ object' = [object EXCEPT ![v] = FreshObject] /\ mapOf' = [mapOf EXCEPT ![FreshObject] = mapOf[object[a]]]
        /\ content' = content /\ spoilt' = spoilt \cup {v, a}
        /\ meant' = [meant EXCEPT ![v] = meant[a] \ meant[b]]
    BY <1>3 DEF Diff, Shares, Mean
  <2> DEFINE m == MapFor(a)
             strings == IF m = 0 THEN {} ELSE content[m]
  <2>2. m = mapOf[object[a]] /\ m \in {0} \cup Refs /\ object[a] # 0
    BY <1>3, MapForIs DEF SetInv, MapFor, Nil
  <2>3. strings \in SUBSET Strings
    BY <2>2 DEF SetInv, SetTypes
  <2>4. /\ object' \in [Names -> {0} \cup Refs] /\ mapOf' \in [Refs -> {0} \cup Refs]
        /\ content' \in [Refs -> SUBSET Strings]
        /\ object'[v] = FreshObject /\ MapFor(v)' = m /\ Holds(v)' = strings
        /\ \A u \in Names \ {v} : /\ object'[u] = object[u] /\ object'[u] # FreshObject
                                  /\ MapFor(u)' = MapFor(u) /\ Holds(u)' = Holds(u)
    <3> HIDE DEF m
    <3> QED BY <2>1, <2>2, <2>3, NewObject DEF SetInv
  <2> HIDE DEF strings
  <2>5. SetTypes'
    BY <1>1, <2>1, <2>4 DEF SetInv, SetTypes
  <2>6. SharesOK'
    <3> SUFFICES ASSUME NEW w \in Names, NEW x \in Names, w # x, Touch(w, x)', w \notin spoilt'
                 PROVE  FALSE
      BY DEF SharesOK, Touch
    <3>1. w # v /\ w # a /\ w \notin spoilt
      BY <2>1
    <3>2. CASE x = v
      <4>1. object[w] # 0 /\ MapFor(w) # 0 /\ MapFor(w) = m
        BY <2>4, <3>1, <3>2 DEF Touch
      <4>2. Touch(w, a)
        BY <2>2, <4>1 DEF Touch
      <4> QED BY <3>1, <4>2 DEF SetInv, SharesOK
    <3>3. CASE x # v
      <4>1. Touch(w, x)
        BY <2>4, <3>1, <3>3 DEF Touch
      <4> QED BY <3>1, <4>1 DEF SetInv, SharesOK
    <3> QED BY <3>2, <3>3
  <2>7. MeantOK'
    <3> SUFFICES ASSUME NEW w \in Names \ spoilt' PROVE Holds(w)' = meant'[w]
      BY DEF MeantOK
    <3>1. w # v /\ w \in Names \ spoilt
      BY <2>1
    <3> QED BY <2>1, <2>4, <3>1 DEF SetInv, SetTypes, MeantOK
  <2> QED BY <2>5, <2>6, <2>7 DEF SetInv
<1> QED BY <1>2, <1>3

LEMMA SetInitially == SetInit => SetInv
<1> SUFFICES ASSUME SetInit PROVE SetInv
  OBVIOUS
<1>1. /\ object = [v \in Names |-> 0] /\ mapOf = [o \in Refs |-> 0] /\ content = [m \in Refs |-> {}]
      /\ meant = [v \in Names |-> {}] /\ spoilt = {}
  BY DEF SetInit
<1> QED BY <1>1 DEF SetInv, SetTypes, SharesOK, Touch, MeantOK, Holds, In

LEMMA SetInductive == Spec => []SetInv
<1>1. SetInv /\ [SetNext]_setVars => SetInv'
  <2> SUFFICES ASSUME SetInv, [SetNext]_setVars PROVE SetInv'
    OBVIOUS
  <2>1. CASE UNCHANGED setVars
    BY <2>1 DEF setVars, SetInv, SetTypes, SharesOK, Touch, MapFor, MeantOK, Holds, In
  <2>2. CASE SetNext
    <3>1. Blank \in Strings /\ {} \in SUBSET Strings
      BY SetConstantsOK
    <3>2. PICK v \in Names :
            \/ \E strings \in SUBSET Strings :
                \/ \E first : FromSlice(v, strings, first)
                \/ AddAll(v, strings)
            \/ \E x \in Strings : Add(v, x) \/ RemoveOne(v, x)
            \/ Clear(v)
            \/ \E u \in Names : Snapshot(v, u)
            \/ \E a, b \in Names : Union(v, a, b) \/ Intersect(v, a, b) \/ Diff(v, a, b)
      BY <2>2 DEF SetNext
    <3> QED BY <3>1, <3>2, FromSliceInv, ChangesInv, ClearInv, SnapshotInv, UnionInv, IntersectInv, DiffInv
  <2> QED BY <2>1, <2>2
<1> QED BY <1>1, SetInitially, SetBehaves, PTL

\* After any calls a variable holds what it would if sets were values, unless it has
\* shared a Set or a map, or came of a slice whose first string is empty; Equal and
\* IsSubset compare what is held (stringset.go Union, Diff, Equal, NewFromSlice).
THEOREM SetsStayApart == Spec => []SetsAgree
<1>1. SetInv => SetsAgree
  <2> SUFFICES ASSUME SetInv PROVE SetsAgree
    OBVIOUS
  <2>1. ASSUME NEW a \in Names, NEW b \in Names
        PROVE  /\ Equal(a, b) = (Holds(a) = Holds(b))
               /\ IsSubset(a, b) = (Holds(a) \subseteq Holds(b))
    <3>1. /\ IsFiniteSet(Holds(a)) /\ IsFiniteSet(Holds(b))
      BY MapForIs, SetConstantsOK, FS_Subset DEF SetInv
    <3>2. (Nil(a) => Holds(a) = {}) /\ (Nil(b) => Holds(b) = {})
      BY DEF Nil, Holds, In
    <3>3. IsSubset(a, b) = (Holds(a) \subseteq Holds(b))
      BY <3>2 DEF IsSubset
    <3>4. Cardinality(Holds(a)) = Cardinality(Holds(b)) /\ Holds(a) \subseteq Holds(b) <=> Holds(a) = Holds(b)
      BY <3>1, FS_Subset
    <3>5. Equal(a, b) = (Holds(a) = Holds(b))
      BY <3>2, <3>3, <3>4 DEF Equal
    <3> QED BY <3>3, <3>5
  <2> QED BY <2>1 DEF SetInv, MeantOK, SetsAgree
<1> QED BY <1>1, SetInductive, PTL

-----------------------------------------------------------------------------
(* Sums over finite sets                                                   *)
(*                                                                         *)
(* MapThenSumSet is a CHOOSE of a recursive function.  What it is equal to *)
(* is shown with the least number for which it would not be so: that number *)
(* is the cardinality of a set whose subsets are all smaller.              *)

\* Every set of numbers has a least one.
LEMMA LeastNat ==
    ASSUME NEW T, T \subseteq Nat, T # {}
    PROVE  \E k \in T : \A j \in T : k <= j
<1>1. PICK k \in T : \A j \in T : ~(<<j, k>> \in OpToRel(<, Nat))
  BY NatLessThanWellFounded, WFMin
<1>2. ASSUME NEW j \in T PROVE k <= j
  <2>1. j \in Nat /\ k \in Nat
    OBVIOUS
  <2>2. ~(j < k)
    BY <1>1, <2>1 DEF OpToRel
  <2> QED BY <2>1, <2>2
<1> QED BY <1>2

\* What is summed, the element that the recursion takes next, and the recursion.
Total(f, S) == MapThenSumSet(LAMBDA p : f[p], S)
Some(s) == CHOOSE x \in s : TRUE
IsTotal(it, f, D) == it = [s \in D |-> IF s = {} THEN 0 ELSE f[Some(s)] + it[s \ {Some(s)}]]

LEMMA SomeIs == \A s : s # {} => Some(s) \in s
BY DEF Some

LEMMA TotalIs == ASSUME NEW f, NEW S PROVE Total(f, S) = (CHOOSE it : IsTotal(it, f, SUBSET S))[S]
BY DEF Total, MapThenSumSet, MapThenFoldSet, IsTotal, Some

\* A finite set has one element more than what is left of it.
LEMMA Smaller ==
    ASSUME NEW s, IsFiniteSet(s), s # {}
    PROVE  /\ IsFiniteSet(s \ {Some(s)}) /\ Cardinality(s) \in Nat
           /\ Cardinality(s \ {Some(s)}) \in Nat
           /\ Cardinality(s \ {Some(s)}) = Cardinality(s) - 1
BY SomeIs, FS_RemoveElement, FS_CardinalityType

LEMMA OneLess ==
    ASSUME NEW s, IsFiniteSet(s), NEW x \in s
    PROVE  /\ IsFiniteSet(s \ {x}) /\ Cardinality(s) \in Nat
           /\ Cardinality(s \ {x}) \in Nat
           /\ Cardinality(s \ {x}) = Cardinality(s) - 1
BY FS_RemoveElement, FS_CardinalityType

\* There is a function that does the recursion.
LEMMA TotalExists ==
    ASSUME NEW f, NEW S, IsFiniteSet(S)
    PROVE  \E it : IsTotal(it, f, SUBSET S)
<1> DEFINE Sub(k) == {s \in SUBSET S : Cardinality(s) <= k}
           Bad == {k \in Nat : ~\E it : IsTotal(it, f, Sub(k))}
<1>1. \A s \in SUBSET S : IsFiniteSet(s) /\ Cardinality(s) \in Nat /\ Cardinality(s) <= Cardinality(S)
  BY FS_Subset, FS_CardinalityType
<1>2. SUFFICES ASSUME Bad # {} PROVE FALSE
  <2>1. Cardinality(S) \in Nat /\ Cardinality(S) \notin Bad
    BY <1>1, <1>2, FS_CardinalityType
  <2>2. Sub(Cardinality(S)) = SUBSET S
    BY <1>1
  <2> QED BY <2>1, <2>2
<1>3. PICK k \in Bad : \A j \in Bad : k <= j
  BY <1>2, LeastNat
<1>4. CASE k = 0
  <2> DEFINE it == [s \in Sub(0) |-> 0]
  <2>1. \A s \in Sub(0) : s = {}
    BY <1>1, FS_EmptySet
  <2>2. IsTotal(it, f, Sub(0))
    BY <2>1 DEF IsTotal
  <2> QED BY <1>3, <1>4, <2>2
<1>5. CASE k # 0
  <2>1. k - 1 \in Nat /\ k - 1 \notin Bad
    BY <1>3, <1>5, SMTT(30)
  <2>2. PICK it : IsTotal(it, f, Sub(k - 1))
    BY <2>1
  <2> DEFINE new == [s \in Sub(k) |-> IF s = {} THEN 0 ELSE f[Some(s)] + it[s \ {Some(s)}]]
  <2>3. ASSUME NEW s \in Sub(k), s # {}
        PROVE  s \ {Some(s)} \in Sub(k - 1) /\ s \ {Some(s)} \in Sub(k)
    <3>1. Cardinality(s \ {Some(s)}) = Cardinality(s) - 1 /\ Cardinality(s) <= k /\ Cardinality(s) \in Nat
      BY <1>1, <2>3, Smaller
    <3> QED BY <1>3, <2>3, <3>1
  <2>4. \A s \in Sub(k - 1) : new[s] = it[s] /\ s \in Sub(k)
    <3> TAKE s \in Sub(k - 1)
    <3>1. s \in Sub(k)
      BY <1>1, <1>3
    <3>2. it[s] = IF s = {} THEN 0 ELSE f[Some(s)] + it[s \ {Some(s)}]
      BY <2>2 DEF IsTotal
    <3> QED BY <3>1, <3>2
  <2>5. IsTotal(new, f, Sub(k))
    <3>1. ASSUME NEW s \in Sub(k)
          PROVE  new[s] = IF s = {} THEN 0 ELSE f[Some(s)] + new[s \ {Some(s)}]
      BY <2>3, <2>4
    <3> HIDE DEF Sub
    <3>2. new = [s \in Sub(k) |-> new[s]]
      OBVIOUS
    <3> HIDE DEF new
    <3> QED BY <3>1, <3>2 DEF IsTotal
  <2> QED BY <1>3, <2>5
<1> QED BY <1>4, <1>5

Total1(f, S) == CHOOSE it : IsTotal(it, f, SUBSET S)

LEMMA Total1Is ==
    ASSUME NEW f, NEW S, IsFiniteSet(S), NEW s \in SUBSET S
    PROVE  Total1(f, S)[s] = IF s = {} THEN 0 ELSE f[Some(s)] + Total1(f, S)[s \ {Some(s)}]
<1>1. IsTotal(Total1(f, S), f, SUBSET S)
  BY TotalExists DEF Total1
<1> DEFINE it == Total1(f, S)
<1> HIDE DEF it
<1>2. it = [r \in SUBSET S |-> IF r = {} THEN 0 ELSE f[Some(r)] + it[r \ {Some(r)}]]
  BY <1>1 DEF IsTotal, it
<1>3. it[s] = IF s = {} THEN 0 ELSE f[Some(s)] + it[s \ {Some(s)}]
  BY <1>2
<1> QED BY <1>3 DEF it

\* What is summed over a set does not depend on the set the recursion is made for.
LEMMA TotalWithin ==
    ASSUME NEW f, NEW S, IsFiniteSet(S), NEW s \in SUBSET S
    PROVE  Total1(f, S)[s] = Total1(f, s)[s]
<1> DEFINE Bad == {m \in Nat : \E r \in SUBSET s : Cardinality(r) = m /\ Total1(f, S)[r] # Total1(f, s)[r]}
<1>1. IsFiniteSet(s) /\ \A r \in SUBSET s : r \in SUBSET S /\ IsFiniteSet(r) /\ Cardinality(r) \in Nat
  BY FS_Subset, FS_CardinalityType
<1>2. SUFFICES ASSUME Bad # {} PROVE FALSE
  BY <1>1
<1>3. PICK m \in Bad : \A j \in Bad : m <= j
  BY <1>2, LeastNat
<1>4. PICK r \in SUBSET s : Cardinality(r) = m /\ Total1(f, S)[r] # Total1(f, s)[r]
  BY <1>3
<1> DEFINE t == r \ {Some(r)}
<1> HIDE DEF t
<1>5. r # {}
  BY <1>1, <1>4, Total1Is, ZenonT(60)
<1>6. t \in SUBSET s /\ Cardinality(t) \in Nat /\ Cardinality(t) = m - 1
  BY <1>1, <1>4, <1>5, Smaller DEF t
<1>7. Cardinality(t) \notin Bad
  BY <1>3, <1>6
<1>8. Total1(f, S)[t] = Total1(f, s)[t]
  BY <1>6, <1>7
<1> HIDE DEF Bad
<1>9. Total1(f, S)[r] = f[Some(r)] + Total1(f, S)[t] /\ Total1(f, s)[r] = f[Some(r)] + Total1(f, s)[t]
  <2>1. r \in SUBSET S /\ IsFiniteSet(s)
    BY <1>1
  <2>2. Total1(f, S)[r] = IF r = {} THEN 0 ELSE f[Some(r)] + Total1(f, S)[r \ {Some(r)}]
    BY <2>1, Total1Is
  <2>3. Total1(f, s)[r] = IF r = {} THEN 0 ELSE f[Some(r)] + Total1(f, s)[r \ {Some(r)}]
    BY <2>1, Total1Is
  <2> QED BY <1>5, <2>2, <2>3 DEF t
<1> QED BY <1>4, <1>8, <1>9

\* The first step of the recursion.
LEMMA TotalStep ==
    ASSUME NEW f, NEW S, IsFiniteSet(S)
    PROVE  /\ S = {} => Total(f, S) = 0
           /\ S # {} => Total(f, S) = f[Some(S)] + Total(f, S \ {Some(S)})
<1>1. Total(f, S) = Total1(f, S)[S]
  BY TotalIs DEF Total1
<1>2. Total1(f, S)[S] = IF S = {} THEN 0 ELSE f[Some(S)] + Total1(f, S)[S \ {Some(S)}]
  BY Total1Is
<1>3. Total1(f, S)[S \ {Some(S)}] = Total1(f, S \ {Some(S)})[S \ {Some(S)}]
  BY TotalWithin
<1>4. Total(f, S \ {Some(S)}) = Total1(f, S \ {Some(S)})[S \ {Some(S)}]
  BY TotalIs DEF Total1
<1> QED BY <1>1, <1>2, <1>3, <1>4

\* The sum is a number, and any element can be taken out of it first.
LEMMA TotalSplit ==
    ASSUME NEW f, NEW S, IsFiniteSet(S), \A x \in S : f[x] \in Nat
    PROVE  /\ Total(f, S) \in Nat
           /\ \A x \in S : Total(f, S) = f[x] + Total(f, S \ {x})
<1> DEFINE Fine(s) == Total(f, s) \in Nat /\ \A x \in s : Total(f, s) = f[x] + Total(f, s \ {x})
           Bad == {m \in Nat : \E s \in SUBSET S : Cardinality(s) = m /\ ~Fine(s)}
<1>1. \A s \in SUBSET S : IsFiniteSet(s) /\ Cardinality(s) \in Nat
  BY FS_Subset, FS_CardinalityType
<1>2. SUFFICES ASSUME Bad # {} PROVE FALSE
  BY <1>1
<1>3. PICK m \in Bad : \A j \in Bad : m <= j
  BY <1>2, LeastNat
<1>4. PICK s \in SUBSET S : Cardinality(s) = m /\ ~Fine(s)
  BY <1>3
<1>5. ASSUME NEW x \in s
      PROVE  s \ {x} \in SUBSET S /\ Fine(s \ {x})
  <2> DEFINE r == s \ {x}
  <2>1. Cardinality(r) = m - 1 /\ Cardinality(r) \in Nat
    BY <1>1, <1>4, OneLess
  <2>2. r \in SUBSET S
    OBVIOUS
  <2> HIDE DEF r, Fine
  <2>3. Cardinality(r) \notin Bad
    BY <1>3, <2>1
  <2>4. Fine(r)
    BY <2>1, <2>2, <2>3
  <2> QED BY <2>2, <2>4 DEF r
<1>6. s # {}
  <2>1. IsFiniteSet({}) /\ Total(f, {}) = 0
    BY FS_EmptySet, TotalStep
  <2>2. Fine({})
    BY <2>1
  <2> HIDE DEF Fine, Bad
  <2> QED BY <1>4, <2>2
<1> DEFINE c == Some(s)
<1>7. c \in s
  BY <1>6, SomeIs
<1>8. Total(f, s) = f[c] + Total(f, s \ {c})
  BY <1>1, <1>6, TotalStep
<1> HIDE DEF c
<1>9. Total(f, s \ {c}) \in Nat /\ f[c] \in Nat
  BY <1>5, <1>7
<1>10. ASSUME NEW x \in s PROVE Total(f, s) = f[x] + Total(f, s \ {x})
  <2>1. CASE x = c
    BY <1>8, <2>1
  <2>2. CASE x # c
    <3>1. x \in s \ {c} /\ c \in s \ {x} /\ (s \ {c}) \ {x} = (s \ {x}) \ {c}
      BY <1>7, <2>2
    <3>2. Total(f, s \ {c}) = f[x] + Total(f, (s \ {c}) \ {x})
      BY <1>5, <1>7, <3>1
    <3>3. Total(f, s \ {x}) = f[c] + Total(f, (s \ {x}) \ {c})
      BY <1>5, <3>1
    <3>4. f[x] \in Nat /\ Total(f, s \ {x}) \in Nat
      BY <1>5
    <3>5. Total(f, (s \ {c}) \ {x}) \in Nat
      <4>1. (s \ {c}) \ {x} \in SUBSET S /\ IsFiniteSet((s \ {c}) \ {x})
        BY <1>1
      <4>2. Cardinality((s \ {c}) \ {x}) \in Nat /\ Cardinality((s \ {c}) \ {x}) < m
        <5>1. IsFiniteSet(s \ {c}) /\ Cardinality(s \ {c}) = m - 1 /\ m \in Nat
          BY <1>1, <1>4, <1>7, OneLess
        <5>2. Cardinality((s \ {c}) \ {x}) = (m - 1) - 1 /\ Cardinality((s \ {c}) \ {x}) \in Nat
          BY <3>1, <5>1, OneLess
        <5> QED BY <5>1, <5>2
      <4> QED BY <1>3, <4>1, <4>2
    <3> DEFINE u == Total(f, (s \ {c}) \ {x})
    <3>6. u \in Nat /\ Total(f, s \ {c}) = f[x] + u /\ Total(f, s \ {x}) = f[c] + u
      BY <3>1, <3>2, <3>3, <3>5
    <3> HIDE DEF u, Bad
    <3> QED BY <1>8, <1>9, <3>4, <3>6
  <2> QED BY <2>1, <2>2
<1> QED BY <1>4, <1>8, <1>9, <1>10

\* The sum depends on the values of the elements alone.
LEMMA TotalSame ==
    ASSUME NEW f, NEW g, NEW S, IsFiniteSet(S), \A x \in S : f[x] = g[x]
    PROVE  Total(f, S) = Total(g, S)
<1> DEFINE Bad == {m \in Nat : \E s \in SUBSET S : Cardinality(s) = m /\ Total(f, s) # Total(g, s)}
<1>1. \A s \in SUBSET S : IsFiniteSet(s) /\ Cardinality(s) \in Nat
  BY FS_Subset, FS_CardinalityType
<1>2. SUFFICES ASSUME Bad # {} PROVE FALSE
  BY <1>1
<1>3. PICK m \in Bad : \A j \in Bad : m <= j
  BY <1>2, LeastNat
<1>4. PICK s \in SUBSET S : Cardinality(s) = m /\ Total(f, s) # Total(g, s)
  BY <1>3
<1>5. s # {}
  BY <1>1, <1>4, TotalStep
<1> DEFINE r == s \ {Some(s)}
<1>6. Some(s) \in s
  BY <1>5, SomeIs
<1>7. Total(f, s) = f[Some(s)] + Total(f, r) /\ Total(g, s) = g[Some(s)] + Total(g, r)
  BY <1>1, <1>5, TotalStep
<1>8. r \in SUBSET S /\ Cardinality(r) \in Nat /\ Cardinality(r) = m - 1
  BY <1>1, <1>4, <1>6, OneLess
<1> HIDE DEF r
<1>9. Cardinality(r) \notin Bad
  BY <1>3, <1>8
<1>10. Total(f, r) = Total(g, r)
  BY <1>8, <1>9
<1> HIDE DEF Bad
<1> QED BY <1>4, <1>6, <1>7, <1>10

\* One element more, and the union of two sets that have none in common.
LEMMA TotalAdd ==
    ASSUME NEW f, NEW S, IsFiniteSet(S), NEW e, e \notin S, f[e] \in Nat, \A x \in S : f[x] \in Nat
    PROVE  Total(f, S \cup {e}) = Total(f, S) + f[e] /\ Total(f, S) \in Nat
<1> DEFINE all == S \cup {e}
<1>1. IsFiniteSet(all) /\ e \in all /\ all \ {e} = S /\ \A x \in all : f[x] \in Nat
  BY FS_AddElement
<1> HIDE DEF all
<1>2. Total(f, all) = f[e] + Total(f, all \ {e})
  BY <1>1, TotalSplit
<1>3. Total(f, S) \in Nat
  BY TotalSplit
<1> QED BY <1>1, <1>2, <1>3 DEF all

LEMMA TotalUnion ==
    ASSUME NEW f, NEW A, NEW B, IsFiniteSet(A), IsFiniteSet(B), A \cap B = {},
           \A x \in A \cup B : f[x] \in Nat
    PROVE  Total(f, A \cup B) = Total(f, A) + Total(f, B)
<1> DEFINE Bad == {m \in Nat : \E s \in SUBSET B : Cardinality(s) = m /\ Total(f, A \cup s) # Total(f, A) + Total(f, s)}
<1>1. \A s \in SUBSET B : IsFiniteSet(s) /\ Cardinality(s) \in Nat
  BY FS_Subset, FS_CardinalityType
<1>2. SUFFICES ASSUME Bad # {} PROVE FALSE
  BY <1>1
<1>3. PICK m \in Bad : \A j \in Bad : m <= j
  BY <1>2, LeastNat
<1>4. PICK s \in SUBSET B : Cardinality(s) = m /\ Total(f, A \cup s) # Total(f, A) + Total(f, s)
  BY <1>3
<1>5. Total(f, A) \in Nat
  BY TotalSplit
<1>6. s # {}
  <2>1. Total(f, {}) = 0 /\ A \cup {} = A
    BY FS_EmptySet, TotalStep
  <2>2. Total(f, A \cup {}) = Total(f, A) + Total(f, {})
    BY <1>5, <2>1
  <2> HIDE DEF Bad
  <2> QED BY <1>4, <2>2
<1>7. PICK e \in s : TRUE
  BY <1>6
<1> DEFINE r == s \ {e}
<1>8. r \in SUBSET B /\ Cardinality(r) \in Nat /\ Cardinality(r) = m - 1
  BY <1>1, <1>4, OneLess
<1>9. r \cup {e} = s /\ e \notin r /\ e \notin A \cup r /\ (A \cup r) \cup {e} = A \cup s /\ IsFiniteSet(A \cup r) /\ IsFiniteSet(r)
  <2>1. IsFiniteSet(r)
    BY <1>1
  <2>2. IsFiniteSet(A \cup r)
    BY <2>1, FS_Union
  <2> QED BY <2>1, <2>2
<1>10. f[e] \in Nat /\ (\A x \in A \cup r : f[x] \in Nat) /\ \A x \in r : f[x] \in Nat
  OBVIOUS
<1> HIDE DEF r
<1>11. Cardinality(r) \notin Bad
  BY <1>3, <1>8
<1>12. Total(f, A \cup r) = Total(f, A) + Total(f, r)
  BY <1>8, <1>11
<1> HIDE DEF Bad
<1>13. Total(f, s) = Total(f, r) + f[e] /\ Total(f, r) \in Nat
  BY <1>9, <1>10, TotalAdd
<1>14. Total(f, A \cup s) = Total(f, A \cup r) + f[e]
  BY <1>9, <1>10, TotalAdd
<1> QED BY <1>4, <1>5, <1>10, <1>12, <1>13, <1>14

\* Max is the largest element.
LEMMA MaxIs ==
    ASSUME NEW T, NEW m \in Nat, T \subseteq 0..m, T # {}
    PROVE  Max(T) \in T /\ \A y \in T : y <= Max(T)
<1> DEFINE U == {m - y : y \in T}
<1>1. U \subseteq Nat /\ U # {}
  OBVIOUS
<1>2. PICK u \in U : \A v \in U : u <= v
  BY <1>1, LeastNat
<1>3. PICK t \in T : u = m - t
  BY <1>2
<1>4. \A y \in T : t >= y
  <2> TAKE y \in T
  <2>1. m - y \in U
    OBVIOUS
  <2>2. m - t <= m - y
    BY <1>2, <1>3, <2>1
  <2>3. y \in Nat /\ t \in Nat
    OBVIOUS
  <2> QED BY <2>2, <2>3
<1>5. Max(T) \in T /\ \A y \in T : Max(T) >= y
  BY <1>4 DEF Max
<1>6. \A y \in T : y \in Nat
  OBVIOUS
<1> QED BY <1>5, <1>6

-----------------------------------------------------------------------------
(* Weighted semaphore *)

\* Who has weight: it holds it, or has been granted it and did not notice yet.
Owners == {p \in Callers : pc[p] = "holds" \/ signal[p]}

SemTypes ==
    /\ cur \in 0..Capacity /\ leaked \in Nat /\ missed \in BOOLEAN
    /\ waiters \in Seq(Callers) /\ n \in [Callers -> 1..Capacity]
    /\ pc \in [Callers -> {"idle", "waits", "holds"}]
    /\ signal \in [Callers -> BOOLEAN]
    /\ \A p \in Callers : signal[p] => pc[p] = "waits"

\* The queue has each caller that waits without a grant, once.
QueueOK ==
    /\ \A i, j \in 1..Len(waiters) : waiters[i] = waiters[j] => i = j
    /\ \A p \in Callers : (pc[p] = "waits" /\ ~signal[p]) <=> \E i \in 1..Len(waiters) : waiters[i] = p

\* What is taken is what the owners asked for, and what was lost.
SumOK == cur = Total(n, Owners) + leaked

\* The first of the queue does not fit.
HeadOK == ~missed => \A i \in 1..Len(waiters) : i = 1 => cur + n[waiters[i]] > Capacity

SemInv == SemTypes /\ QueueOK /\ SumOK /\ HeadOK

LEMMA SemBehaves == Spec => SemInit /\ [][SemNext]_semVars
<1>1. Init => SemInit
  BY DEF Init
<1>2. [Next]_standaloneVars => [SemNext]_semVars
  BY DEF Next, standaloneVars
<1> QED BY <1>1, <1>2, PTL DEF Spec

LEMMA OwnersFinite ==
    ASSUME SemTypes
    PROVE  /\ IsFiniteSet(Owners) /\ \A p \in Owners : n[p] \in Nat
           /\ \A p \in Callers : n[p] \in Nat /\ n[p] >= 1 /\ n[p] <= Capacity
           /\ Capacity \in Nat /\ cur \in Nat /\ leaked \in Nat
           /\ Total(n, Owners) \in Nat
<1>1. Capacity \in Nat /\ IsFiniteSet(Callers)
  BY SizesOK
<1>2. Owners \subseteq Callers
  BY DEF Owners
<1>3. IsFiniteSet(Owners)
  BY <1>1, <1>2, FS_Subset
<1>4. \A p \in Callers : n[p] \in Nat /\ n[p] >= 1 /\ n[p] <= Capacity
  BY <1>1 DEF SemTypes
<1>5. Total(n, Owners) \in Nat
  BY <1>2, <1>3, <1>4, TotalSplit
<1> QED BY <1>1, <1>2, <1>3, <1>4, <1>5 DEF SemTypes

LEMMA QueueAt ==
    ASSUME SemTypes
    PROVE  Len(waiters) \in Nat /\ DOMAIN waiters = 1..Len(waiters) /\ \A i \in 1..Len(waiters) : waiters[i] \in Callers
BY ElementOfSeq, LenProperties DEF SemTypes

LEMMA SemInitially == SemInit => SemInv
<1> SUFFICES ASSUME SemInit PROVE SemInv
  OBVIOUS
<1>1. SemTypes
  <2>1. <<>> \in Seq(Callers) /\ Capacity \in 1..Capacity /\ 0 \in 0..Capacity
    BY EmptySeq, SizesOK
  <2> QED BY <2>1 DEF SemInit, SemTypes
<1>2. Len(waiters) = 0 /\ 1..0 = {}
  BY EmptySeq DEF SemInit
<1>3. QueueOK /\ HeadOK
  BY <1>2 DEF SemInit, QueueOK, HeadOK
<1>4. Owners = {}
  BY DEF SemInit, Owners
<1>5. Total(n, {}) = 0
  BY FS_EmptySet, TotalStep
<1>6. SumOK
  BY <1>4, <1>5 DEF SemInit, SumOK
<1> QED BY <1>1, <1>3, <1>6 DEF SemInv

\* The weight asked for by one who owns nothing is not in the sum.
LEMMA AsksElsewhere ==
    ASSUME SemTypes, NEW p \in Callers, p \notin Owners, NEW w \in Weights, n' = [n EXCEPT ![p] = w]
    PROVE  /\ n' \in [Callers -> 1..Capacity] /\ n'[p] = w /\ \A q \in Callers : q # p => n'[q] = n[q]
           /\ Total(n', Owners) = Total(n, Owners)
           /\ Total(n', Owners \cup {p}) = Total(n, Owners) + w
<1>1. w \in 1..Capacity /\ Capacity \in Nat
  BY SizesOK
<1>2. n' \in [Callers -> 1..Capacity] /\ n'[p] = w /\ \A q \in Callers : q # p => n'[q] = n[q]
  BY <1>1 DEF SemTypes
<1>3. IsFiniteSet(Owners) /\ \A q \in Owners : q \in Callers /\ q # p
  BY OwnersFinite DEF Owners
<1>4. \A q \in Owners : n'[q] = n[q] /\ n'[q] \in Nat
  BY <1>2, <1>3, OwnersFinite
<1>5. Total(n', Owners) = Total(n, Owners)
  <2>1. IsFiniteSet(Owners)
    BY <1>3
  <2>2. \A q \in Owners : n'[q] = n[q]
    BY <1>4
  <2> QED BY <2>1, <2>2, TotalSame, ZenonT(60)
<1>6. n'[p] \in Nat
  BY <1>1, <1>2
<1>7. Total(n', Owners \cup {p}) = Total(n', Owners) + n'[p]
  BY <1>3, <1>4, <1>6, TotalAdd
<1> QED BY <1>2, <1>5, <1>7

LEMMA TakeInv ==
    ASSUME SemInv, NEW p \in Callers, NEW w \in Weights, Take(p, w)
    PROVE  SemInv'
<1>1. SemTypes /\ QueueOK /\ SumOK /\ HeadOK
  BY DEF SemInv
<1>2. /\ pc[p] = "idle" /\ cur + w <= Capacity /\ cur' = cur + w
      /\ n' = [n EXCEPT ![p] = w] /\ pc' = [pc EXCEPT ![p] = "holds"]
      /\ UNCHANGED <<waiters, signal, leaked, missed>>
  BY DEF Take, Goto, Fits
<1>3. p \notin Owners /\ ~signal[p]
  BY <1>1, <1>2 DEF Owners, SemTypes
<1>4. /\ n' \in [Callers -> 1..Capacity] /\ n'[p] = w /\ \A q \in Callers : q # p => n'[q] = n[q]
      /\ Total(n', Owners \cup {p}) = Total(n, Owners) + w
  BY <1>1, <1>2, <1>3, AsksElsewhere
<1>5. pc'[p] = "holds" /\ \A q \in Callers : q # p => pc'[q] = pc[q]
  BY <1>1, <1>2 DEF SemTypes
<1>6. Owners' = Owners \cup {p}
  BY <1>2, <1>5 DEF Owners
<1>7. w \in Nat /\ cur \in Nat /\ Capacity \in Nat /\ leaked \in Nat /\ Total(n, Owners) \in Nat
      /\ \A q \in Callers : n[q] \in Nat
  BY <1>1, OwnersFinite, SizesOK
<1>8. SemTypes'
  <2>1. cur' \in 0..Capacity
    BY <1>2, <1>7
  <2> QED BY <1>1, <1>2, <1>3, <1>4, <1>5, <2>1 DEF SemTypes
<1>9. \A i \in 1..Len(waiters) : waiters[i] \in Callers /\ waiters[i] # p
  BY <1>1, <1>2, QueueAt DEF QueueOK
<1>10. QueueOK'
  BY <1>1, <1>2, <1>3, <1>5, <1>9 DEF QueueOK
<1>11. SumOK'
  BY <1>1, <1>2, <1>4, <1>6, <1>7 DEF SumOK
<1>12. HeadOK'
  <2> SUFFICES ASSUME ~missed, NEW i \in 1..Len(waiters), i = 1 PROVE cur' + n'[waiters[i]] > Capacity
    BY <1>2 DEF HeadOK
  <2>1. cur + n[waiters[i]] > Capacity
    BY <1>1 DEF HeadOK
  <2>2. waiters[i] \in Callers /\ n'[waiters[i]] = n[waiters[i]] /\ n[waiters[i]] \in Nat
    BY <1>4, <1>7, <1>9
  <2> QED BY <1>2, <1>7, <2>1, <2>2
<1> QED BY <1>8, <1>10, <1>11, <1>12 DEF SemInv

LEMMA WaitInv ==
    ASSUME SemInv, NEW p \in Callers, NEW w \in Weights, Wait(p, w)
    PROVE  SemInv'
<1>1. SemTypes /\ QueueOK /\ SumOK /\ HeadOK
  BY DEF SemInv
<1>2. /\ pc[p] = "idle" /\ ~(cur + w <= Capacity) /\ waiters' = Append(waiters, p)
      /\ n' = [n EXCEPT ![p] = w] /\ pc' = [pc EXCEPT ![p] = "waits"]
      /\ UNCHANGED <<cur, signal, leaked, missed>>
  BY DEF Wait, Goto, Fits
<1>3. p \notin Owners /\ ~signal[p]
  BY <1>1, <1>2 DEF Owners, SemTypes
<1>4. /\ n' \in [Callers -> 1..Capacity] /\ n'[p] = w /\ \A q \in Callers : q # p => n'[q] = n[q]
      /\ Total(n', Owners) = Total(n, Owners)
  BY <1>1, <1>2, <1>3, AsksElsewhere
<1>5. pc'[p] = "waits" /\ \A q \in Callers : q # p => pc'[q] = pc[q]
  BY <1>1, <1>2 DEF SemTypes
<1>6. Owners' = Owners
  BY <1>2, <1>5 DEF Owners
<1>7. w \in Nat /\ cur \in Nat /\ Capacity \in Nat /\ leaked \in Nat /\ Total(n, Owners) \in Nat
      /\ \A q \in Callers : n[q] \in Nat
  BY <1>1, OwnersFinite, SizesOK
<1>8. PICK m \in Nat : m = Len(waiters)
  BY <1>1, QueueAt
<1>9. /\ waiters' \in Seq(Callers) /\ Len(waiters') = m + 1 /\ waiters'[m + 1] = p
      /\ \A i \in 1..m : waiters'[i] = waiters[i]
  BY <1>1, <1>2, <1>8, AppendProperties DEF SemTypes
<1>10. \A i \in 1..m : waiters[i] \in Callers /\ waiters[i] # p
  BY <1>1, <1>2, <1>8, QueueAt DEF QueueOK
<1>11. SemTypes'
  BY <1>1, <1>2, <1>3, <1>4, <1>5, <1>9 DEF SemTypes
<1>12. QueueOK'
  <2>1. ASSUME NEW i \in 1..Len(waiters'), NEW j \in 1..Len(waiters'), waiters'[i] = waiters'[j]
        PROVE  i = j
    <3>1. (i \in 1..m \/ i = m + 1) /\ (j \in 1..m \/ j = m + 1)
      BY <1>8, <1>9
    <3> QED BY <1>1, <1>8, <1>9, <1>10, <2>1, <3>1 DEF QueueOK
  <2>2. ASSUME NEW q \in Callers
        PROVE  (pc'[q] = "waits" /\ ~signal'[q]) <=> \E i \in 1..Len(waiters') : waiters'[i] = q
    <3>1. CASE q = p
      <4>1. m + 1 \in 1..Len(waiters')
        BY <1>8, <1>9
      <4> QED BY <1>2, <1>3, <1>5, <1>9, <3>1, <4>1
    <3>2. CASE q # p
      <4>1. (pc'[q] = "waits" /\ ~signal'[q]) <=> \E i \in 1..m : waiters[i] = q
        BY <1>1, <1>2, <1>5, <1>8, <3>2 DEF QueueOK
      <4>2. (\E i \in 1..m + 1 : waiters'[i] = q) <=> \E i \in 1..m : waiters[i] = q
        <5>1. \A i \in 1..m + 1 : i \in 1..m \/ i = m + 1
          BY <1>8
        <5>2. \A i \in 1..m : i \in 1..m + 1
          BY <1>8
        <5> QED BY <1>9, <3>2, <5>1, <5>2
      <4> QED BY <1>9, <4>1, <4>2
    <3> QED BY <3>1, <3>2
  <2> QED BY <2>1, <2>2 DEF QueueOK
<1>13. SumOK'
  BY <1>1, <1>2, <1>4, <1>6 DEF SumOK
<1>14. HeadOK'
  <2> SUFFICES ASSUME ~missed, NEW i \in 1..m + 1, i = 1 PROVE cur + n'[waiters'[i]] > Capacity
    BY <1>2, <1>9 DEF HeadOK
  <2>1. CASE i \in 1..m
    <3>1. cur + n[waiters[i]] > Capacity
      BY <1>1, <1>8, <2>1 DEF HeadOK
    <3> QED BY <1>4, <1>9, <1>10, <2>1, <3>1
  <2>2. CASE i = m + 1
    BY <1>2, <1>4, <1>7, <1>9, <2>2
  <2> QED BY <1>8, <2>1, <2>2
<1> QED BY <1>11, <1>12, <1>13, <1>14 DEF SemInv

LEMMA GrantedInv ==
    ASSUME SemInv, NEW p \in Callers, Granted(p) \/ Cancel(p)
    PROVE  SemInv'
<1>1. SemTypes /\ QueueOK /\ SumOK /\ HeadOK
  BY DEF SemInv
<1>2. CASE Cancel(p)
  <2>1. UNCHANGED <<cur, waiters, pc, n, signal, leaked, missed>>
    BY <1>2 DEF Cancel
  <2> QED BY <1>1, <2>1 DEF SemInv, SemTypes, QueueOK, SumOK, HeadOK, Owners
<1>3. CASE Granted(p)
  <2>1. /\ pc[p] = "waits" /\ signal[p] /\ signal' = [signal EXCEPT ![p] = FALSE]
        /\ pc' = [pc EXCEPT ![p] = "holds"] /\ UNCHANGED <<cur, waiters, n, leaked, missed>>
    BY <1>3 DEF Granted, Goto
  <2>2. /\ pc'[p] = "holds" /\ ~signal'[p]
        /\ \A q \in Callers : q # p => pc'[q] = pc[q] /\ signal'[q] = signal[q]
    BY <1>1, <2>1 DEF SemTypes
  <2>3. SemTypes'
    BY <1>1, <2>1, <2>2 DEF SemTypes
  <2>4. QueueOK'
    BY <1>1, <2>1, <2>2 DEF QueueOK
  <2>5. Owners' = Owners
    BY <2>1, <2>2 DEF Owners
  <2>6. SumOK' /\ HeadOK'
    BY <1>1, <2>1, <2>5 DEF SumOK, HeadOK
  <2> QED BY <2>3, <2>4, <2>6 DEF SemInv
<1> QED BY <1>2, <1>3

\* The queue without its i-th caller.
LEMMA RemovedIs ==
    ASSUME SemTypes, QueueOK, NEW i \in 1..Len(waiters)
    PROVE  /\ Removed(waiters[i]) \in Seq(Callers) /\ Len(Removed(waiters[i])) = Len(waiters) - 1
           /\ \A j \in 1..(Len(waiters) - 1) : Removed(waiters[i])[j] = IF j < i THEN waiters[j] ELSE waiters[j + 1]
<1>1. PICK m \in Nat : m = Len(waiters)
  BY QueueAt
<1>2. DOMAIN waiters = 1..m /\ \A j \in 1..m : waiters[j] \in Callers
  BY <1>1, QueueAt
<1>3. i \in Nat /\ 1 <= i /\ i <= m
  BY <1>1
<1> DEFINE a == SubSeq(waiters, 1, i - 1)
           b == SubSeq(waiters, i + 1, m)
           s == a \o b
<1>4. Removed(waiters[i]) = s
  <2>1. waiters[i] \in Range(waiters)
    BY <1>1, <1>2 DEF Range
  <2>2. \A j \in DOMAIN waiters : waiters[j] = waiters[i] <=> j = i
    BY <1>1, <1>2 DEF QueueOK
  <2>3. (CHOOSE j \in DOMAIN waiters : waiters[j] = waiters[i]) = i
    BY <1>1, <1>2, <2>2
  <2> QED BY <1>1, <2>1, <2>3 DEF Removed, RemoveAt
<1>5. a \in Seq(Callers) /\ Len(a) = i - 1 /\ \A j \in 1..(i - 1) : a[j] = waiters[j]
  <2>1. i - 1 \in Int /\ \A j \in 1..(i - 1) : waiters[j] \in Callers
    BY <1>2, <1>3
  <2>2. /\ SubSeq(waiters, 1, i - 1) \in Seq(Callers)
        /\ Len(SubSeq(waiters, 1, i - 1)) = (IF 1 <= i - 1 THEN i - 1 - 1 + 1 ELSE 0)
        /\ \A j \in 1..(i - 1 - 1 + 1) : SubSeq(waiters, 1, i - 1)[j] = waiters[1 + j - 1]
    BY <2>1, SubSeqProperties
  <2> HIDE DEF a
  <2>3. a = SubSeq(waiters, 1, i - 1)
    BY DEF a
  <2>4. Len(a) = i - 1
    BY <1>3, <2>2, <2>3
  <2>5. ASSUME NEW j \in 1..(i - 1) PROVE a[j] = waiters[j]
    <3>1. j \in 1..(i - 1 - 1 + 1) /\ 1 + j - 1 = j
      BY <1>3
    <3> QED BY <2>2, <2>3, <3>1
  <2> QED BY <2>2, <2>3, <2>4, <2>5
<1>6. b \in Seq(Callers) /\ Len(b) = m - i /\ \A j \in 1..(m - i) : b[j] = waiters[i + j]
  <2>1. i + 1 \in Int /\ m \in Int /\ \A j \in (i + 1)..m : waiters[j] \in Callers
    BY <1>2, <1>3
  <2>2. /\ SubSeq(waiters, i + 1, m) \in Seq(Callers)
        /\ Len(SubSeq(waiters, i + 1, m)) = (IF i + 1 <= m THEN m - (i + 1) + 1 ELSE 0)
        /\ \A j \in 1..(m - (i + 1) + 1) : SubSeq(waiters, i + 1, m)[j] = waiters[i + 1 + j - 1]
    BY <2>1, SubSeqProperties
  <2> HIDE DEF b
  <2>3. b = SubSeq(waiters, i + 1, m)
    BY DEF b
  <2>4. Len(b) = m - i
    <3>1. (IF i + 1 <= m THEN m - (i + 1) + 1 ELSE 0) = m - i
      BY <1>1, <1>3
    <3> QED BY <2>2, <2>3, <3>1
  <2>5. ASSUME NEW j \in 1..(m - i) PROVE b[j] = waiters[i + j]
    <3>1. m \in Nat /\ j \in Nat /\ 1 <= j /\ j <= m - i
      BY <1>1, <1>3
    <3>2. j \in 1..(m - (i + 1) + 1)
      BY <1>3, <3>1
    <3>3. i + 1 + j - 1 = i + j
      BY <1>3, <3>1
    <3> QED BY <2>2, <2>3, <3>2, <3>3
  <2> QED BY <2>2, <2>3, <2>4, <2>5
<1> HIDE DEF a, b
<1>7. a \in Seq(Callers) /\ b \in Seq(Callers)
  BY <1>5, <1>6
<1>8. /\ s \in Seq(Callers) /\ Len(s) = Len(a) + Len(b)
      /\ \A j \in 1..(Len(a) + Len(b)) : s[j] = IF j <= Len(a) THEN a[j] ELSE b[j - Len(a)]
  BY <1>7, ConcatProperties
<1> HIDE DEF s
<1>9. Len(a) = i - 1 /\ Len(b) = m - i /\ Len(a) + Len(b) = m - 1
  BY <1>1, <1>3, <1>5, <1>6
<1>10. ASSUME NEW j \in 1..(m - 1)
       PROVE  s[j] = IF j < i THEN waiters[j] ELSE waiters[j + 1]
  <2>1. s[j] = IF j <= i - 1 THEN a[j] ELSE b[j - (i - 1)]
    BY <1>8, <1>9
  <2>2. m \in Nat /\ j \in Nat /\ 1 <= j /\ j <= m - 1
    BY <1>1
  <2>3. CASE j < i
    <3>1. j \in 1..(i - 1) /\ j <= i - 1
      BY <1>3, <2>2, <2>3
    <3> QED BY <1>5, <2>1, <2>3, <3>1
  <2>4. CASE ~(j < i)
    <3>1. j - (i - 1) \in 1..(m - i) /\ ~(j <= i - 1) /\ i + (j - (i - 1)) = j + 1
      BY <1>3, <2>2, <2>4
    <3> QED BY <1>6, <2>1, <2>4, <3>1
  <2> QED BY <2>3, <2>4
<1> QED BY <1>1, <1>4, <1>8, <1>9, <1>10, SMTT(30)

LEMMA GiveUpInv ==
    ASSUME SemInv, NEW p \in Callers, GiveUp(p)
    PROVE  SemInv'
<1>1. SemTypes /\ QueueOK /\ SumOK /\ HeadOK
  BY DEF SemInv
<1>2. /\ pc[p] = "waits" /\ waiters' = Removed(p)
      /\ leaked' = (IF signal[p] THEN leaked + n[p] ELSE leaked)
      /\ missed' = (missed \/ (waiters # <<>> /\ Head(waiters) = p))
      /\ signal' = [signal EXCEPT ![p] = FALSE] /\ pc' = [pc EXCEPT ![p] = "idle"]
      /\ UNCHANGED <<cur, n>>
  BY DEF GiveUp, Goto
<1>3. /\ pc'[p] = "idle" /\ ~signal'[p]
      /\ \A q \in Callers : q # p => pc'[q] = pc[q] /\ signal'[q] = signal[q]
  BY <1>1, <1>2 DEF SemTypes
<1>4. /\ IsFiniteSet(Owners) /\ \A q \in Callers : n[q] \in Nat
      /\ leaked \in Nat /\ cur \in Nat /\ Total(n, Owners) \in Nat
  BY <1>1, OwnersFinite
<1>5. leaked' \in Nat /\ missed' \in BOOLEAN
  BY <1>1, <1>2, <1>4 DEF SemTypes
<1>6. Owners' = Owners \ {p}
  BY <1>2, <1>3 DEF Owners
<1>7. SumOK'
  <2>1. CASE signal[p]
    <3>1. p \in Owners /\ \A q \in Owners : n[q] \in Nat
      BY <1>4, <2>1 DEF Owners
    <3>2. Total(n, Owners) = n[p] + Total(n, Owners \ {p})
      BY <1>4, <3>1, TotalSplit
    <3>3. IsFiniteSet(Owners \ {p}) /\ \A q \in Owners \ {p} : n[q] \in Nat
      BY <1>4, <3>1, FS_RemoveElement
    <3>4. Total(n, Owners \ {p}) \in Nat
      BY <3>3, TotalSplit
    <3> QED BY <1>1, <1>2, <1>4, <1>6, <2>1, <3>2, <3>4 DEF SumOK
  <2>2. CASE ~signal[p]
    <3>1. Owners \ {p} = Owners
      BY <1>2, <2>2 DEF Owners
    <3> QED BY <1>1, <1>2, <1>6, <2>2, <3>1 DEF SumOK
  <2> QED BY <2>1, <2>2
<1>8. PICK m \in Nat : m = Len(waiters)
  BY <1>1, QueueAt
<1>9. DOMAIN waiters = 1..m /\ \A i \in 1..m : waiters[i] \in Callers
  BY <1>1, <1>8, QueueAt
<1>10. CASE signal[p]
  <2>1. \A i \in 1..m : waiters[i] # p
    BY <1>1, <1>8, <1>10 DEF QueueOK
  <2>2. waiters' = waiters
    BY <1>2, <1>9, <2>1 DEF Removed, Range
  <2>3. SemTypes'
    BY <1>1, <1>2, <1>3, <1>5, <2>2 DEF SemTypes
  <2>4. QueueOK'
    <3>1. ASSUME NEW q \in Callers
          PROVE  (pc'[q] = "waits" /\ ~signal'[q]) <=> \E i \in 1..Len(waiters) : waiters[i] = q
      <4>1. CASE q = p
        BY <1>3, <1>8, <2>1, <4>1
      <4>2. CASE q # p
        BY <1>1, <1>3, <4>2 DEF QueueOK
      <4> QED BY <4>1, <4>2
    <3> QED BY <1>1, <2>2, <3>1 DEF QueueOK
  <2>5. HeadOK'
    BY <1>1, <1>2, <2>2 DEF HeadOK
  <2> QED BY <1>7, <2>3, <2>4, <2>5 DEF SemInv
<1>11. CASE ~signal[p]
  <2>1. PICK i \in 1..m : waiters[i] = p
    BY <1>1, <1>2, <1>8, <1>11 DEF QueueOK
  <2>2. i \in Nat /\ 1 <= i /\ i <= m
    OBVIOUS
  <2>3. /\ waiters' \in Seq(Callers) /\ Len(waiters') = m - 1
        /\ \A j \in 1..(m - 1) : waiters'[j] = IF j < i THEN waiters[j] ELSE waiters[j + 1]
    <3>1. /\ Removed(waiters[i]) \in Seq(Callers) /\ Len(Removed(waiters[i])) = m - 1
          /\ \A j \in 1..(m - 1) : Removed(waiters[i])[j] = IF j < i THEN waiters[j] ELSE waiters[j + 1]
      BY <1>1, <1>8, RemovedIs
    <3> QED BY <1>2, <2>1, <3>1, Zenon
  <2>4. SemTypes'
    BY <1>1, <1>2, <1>3, <1>5, <2>3 DEF SemTypes
  <2>5. \A j, l \in 1..m : waiters[j] = waiters[l] => j = l
    BY <1>1, <1>8 DEF QueueOK
  <2>6. ASSUME NEW j \in 1..(m - 1)
        PROVE  /\ j \in 1..m /\ j + 1 \in 1..m /\ j # j + 1
               /\ j < i => waiters'[j] = waiters[j] /\ j # i
               /\ ~(j < i) => waiters'[j] = waiters[j + 1] /\ j + 1 # i
               /\ waiters'[j] # p
    <3>1. j \in 1..m /\ j + 1 \in 1..m /\ j # j + 1
      BY <1>8
    <3>2. j < i => waiters'[j] = waiters[j] /\ j # i
      BY <2>2, <2>3
    <3>3. ~(j < i) => waiters'[j] = waiters[j + 1] /\ j + 1 # i
      BY <2>2, <2>3
    <3> QED BY <2>1, <2>5, <3>1, <3>2, <3>3
  <2>7. QueueOK'
    <3>1. ASSUME NEW j \in 1..(m - 1), NEW l \in 1..(m - 1), waiters'[j] = waiters'[l]
          PROVE  j = l
      <4>1. CASE j < i /\ l < i
        BY <2>5, <2>6, <3>1, <4>1
      <4>2. CASE j < i /\ ~(l < i)
        <5>1. j = l + 1
          BY <2>5, <2>6, <3>1, <4>2
        <5> QED BY <2>2, <4>2, <5>1
      <4>3. CASE ~(j < i) /\ l < i
        <5>1. j + 1 = l
          BY <2>5, <2>6, <3>1, <4>3
        <5> QED BY <2>2, <4>3, <5>1
      <4>4. CASE ~(j < i) /\ ~(l < i)
        <5>1. j + 1 = l + 1
          BY <2>5, <2>6, <3>1, <4>4
        <5> QED BY <5>1
      <4> QED BY <4>1, <4>2, <4>3, <4>4
    <3>2. ASSUME NEW q \in Callers
          PROVE  (pc'[q] = "waits" /\ ~signal'[q]) <=> \E j \in 1..(m - 1) : waiters'[j] = q
      <4>1. CASE q = p
        BY <1>3, <2>6, <4>1
      <4>2. CASE q # p
        <5>1. (pc'[q] = "waits" /\ ~signal'[q]) <=> \E l \in 1..m : waiters[l] = q
          BY <1>1, <1>3, <1>8, <4>2 DEF QueueOK
        <5>2. ASSUME NEW l \in 1..m, waiters[l] = q PROVE \E j \in 1..(m - 1) : waiters'[j] = q
          <6>1. l # i /\ l \in Nat /\ 1 <= l /\ l <= m
            BY <2>1, <4>2, <5>2
          <6>2. CASE l < i
            <7>1. l \in 1..(m - 1)
              BY <1>8, <2>2, <6>1, <6>2
            <7> QED BY <2>6, <5>2, <6>2, <7>1
          <6>3. CASE l > i
            <7>1. l - 1 \in 1..(m - 1) /\ ~(l - 1 < i) /\ (l - 1) + 1 = l
              BY <1>8, <2>2, <6>1, <6>3
            <7> QED BY <2>6, <5>2, <7>1
          <6> QED BY <2>2, <6>1, <6>2, <6>3
        <5>3. ASSUME NEW j \in 1..(m - 1), waiters'[j] = q PROVE \E l \in 1..m : waiters[l] = q
          BY <2>6, <5>3
        <5> QED BY <5>1, <5>2, <5>3
      <4> QED BY <4>1, <4>2
    <3> QED BY <2>3, <3>1, <3>2 DEF QueueOK
  <2>8. HeadOK'
    <3> SUFFICES ASSUME ~missed', NEW j \in 1..(m - 1), j = 1 PROVE cur + n[waiters'[j]] > Capacity
      BY <1>2, <2>3 DEF HeadOK
    <3>1. Head(waiters) = waiters[1] /\ waiters # <<>> /\ 1 \in 1..m
      <4>1. waiters \in Seq(Callers) /\ 1 \in 1..m /\ m # 0
        BY <1>1, <1>8 DEF SemTypes
      <4>2. waiters # <<>>
        BY <1>8, <4>1, EmptySeq
      <4> QED BY <4>1, <4>2
    <3>2. i # 1 /\ ~missed
      BY <1>2, <2>1, <3>1
    <3>3. j < i
      BY <2>2, <3>2
    <3> QED BY <1>1, <1>8, <2>6, <3>1, <3>2, <3>3 DEF HeadOK
  <2> QED BY <1>7, <2>4, <2>7, <2>8 DEF SemInv
<1> QED BY <1>10, <1>11

LEMMA WeightIs == \A S : Weight(S) = Total(n, S)
BY DEF Weight, Total

LEMMA ReleaseInv ==
    ASSUME SemInv, NEW p \in Callers, Release(p)
    PROVE  SemInv'
<1>1. SemTypes /\ QueueOK /\ SumOK /\ HeadOK
  BY DEF SemInv
<1>2. pc[p] = "holds" /\ pc' = [pc EXCEPT ![p] = "idle"] /\ UNCHANGED <<n, leaked>>
  BY DEF Release, Goto
<1>3. pc'[p] = "idle" /\ ~signal[p] /\ \A q \in Callers : q # p => pc'[q] = pc[q]
  BY <1>1, <1>2 DEF SemTypes
<1>4. /\ IsFiniteSet(Owners) /\ \A q \in Callers : n[q] \in Nat
      /\ leaked \in Nat /\ cur \in Nat /\ Capacity \in Nat /\ cur <= Capacity
  BY <1>1, OwnersFinite DEF SemTypes
<1>5. p \in Owners /\ \A q \in Owners : q \in Callers /\ n[q] \in Nat
  BY <1>2, <1>4 DEF Owners
<1> DEFINE rem == Owners \ {p}
           base == cur - n[p]
<1>6. IsFiniteSet(rem) /\ \A q \in rem : n[q] \in Nat
  BY <1>4, <1>5, FS_RemoveElement
<1>7. Total(n, rem) \in Nat /\ Total(n, Owners) = n[p] + Total(n, rem)
  BY <1>4, <1>5, <1>6, TotalSplit
<1>8. base = Total(n, rem) + leaked /\ base \in Nat /\ base <= Capacity
  BY <1>1, <1>4, <1>5, <1>7 DEF SumOK
<1>9. PICK m \in Nat : m = Len(waiters)
  BY <1>1, QueueAt
<1>10. /\ DOMAIN waiters = 1..m
       /\ \A i \in 1..m : waiters[i] \in Callers /\ pc[waiters[i]] = "waits" /\ ~signal[waiters[i]]
  BY <1>1, <1>9, QueueAt DEF QueueOK
<1>11. CASE OutOfRange(p)
  <2>1. cur' = base /\ missed' = TRUE /\ UNCHANGED <<waiters, signal>>
    BY <1>11 DEF Release
  <2>2. Owners' = rem
    BY <1>3, <2>1 DEF Owners
  <2> HIDE DEF rem, base
  <2>3. SemTypes'
    <3>1. cur' \in 0..Capacity
      BY <1>4, <1>8, <2>1
    <3> QED BY <1>1, <1>2, <1>3, <2>1, <3>1 DEF SemTypes
  <2>4. QueueOK'
    BY <1>1, <1>2, <1>3, <2>1 DEF QueueOK
  <2>5. SumOK' /\ HeadOK'
    BY <1>2, <1>8, <2>1, <2>2 DEF SumOK, HeadOK
  <2> QED BY <2>3, <2>4, <2>5 DEF SemInv
<1>12. CASE ~OutOfRange(p)
  <2> DEFINE free == Capacity - base
             fitting == {j \in 0..m : WeightOf(j) <= free}
             k == Admitted(free)
             new == Oldest(k)
  <2>1. /\ cur' = base + WeightOf(k) /\ waiters' = SubSeq(waiters, k + 1, Len(waiters))
        /\ signal' = [q \in Callers |-> signal[q] \/ q \in new] /\ missed' = FALSE
    BY <1>12 DEF Release
  <2>2. free \in Nat /\ base + free = Capacity
    BY <1>4, <1>8
  <2>3. k = Max(fitting)
    BY <1>9 DEF Admitted
  <2>4. 0 \in fitting
    <3>1. Oldest(0) = {} /\ 0 \in 0..m
      BY <1>9 DEF Oldest
    <3>2. WeightOf(0) = 0
      BY <3>1, WeightIs, FS_EmptySet, TotalStep DEF WeightOf
    <3> QED BY <2>2, <3>1, <3>2
  <2> HIDE DEF base
  <2>5. k \in fitting /\ \A j \in fitting : j <= k
    <3>1. fitting \subseteq 0..m /\ fitting # {}
      BY <2>4
    <3> HIDE DEF fitting, k
    <3> QED BY <1>9, <2>3, <3>1, MaxIs
  <2> HIDE DEF free, k
  <2>6. k \in Nat /\ k <= m /\ WeightOf(k) <= free /\ (k + 1 <= m => ~(WeightOf(k + 1) <= free))
    <3>1. k \in 0..m /\ WeightOf(k) <= free
      BY <2>5
    <3>2. k + 1 <= m => k + 1 \in 0..m /\ ~(k + 1 <= k)
      BY <1>9, <3>1
    <3>3. k + 1 <= m => k + 1 \notin fitting
      BY <2>5, <3>2
    <3> QED BY <1>9, <3>1, <3>2, <3>3
  <2> HIDE DEF fitting
  <2>7. IsFiniteSet(new) /\ \A q \in new : q \in Callers /\ n[q] \in Nat /\ pc[q] = "waits" /\ ~signal[q] /\ q # p
    <3>1. \A q \in new : \E i \in 1..m : q = waiters[i]
      BY <1>9, <2>6 DEF Oldest
    <3>2. new \subseteq Callers
      BY <1>10, <3>1
    <3>3. IsFiniteSet(new)
      BY <3>2, SizesOK, FS_Subset
    <3> HIDE DEF new
    <3> QED BY <1>2, <1>4, <1>10, <3>1, <3>2, <3>3
  <2>8. WeightOf(k) = Total(n, new)
    BY WeightIs DEF WeightOf
  <2>9. \A i \in 1..m : waiters[i] \in new <=> i <= k
    BY <1>1, <1>9, <2>6 DEF Oldest, QueueOK
  <2>10. k + 1 <= m => Oldest(k + 1) = new \cup {waiters[k + 1]} /\ k + 1 \in 1..m /\ waiters[k + 1] \notin new
    <3> SUFFICES ASSUME k + 1 <= m
                 PROVE  Oldest(k + 1) = new \cup {waiters[k + 1]} /\ k + 1 \in 1..m /\ waiters[k + 1] \notin new
      OBVIOUS
    <3>1. k + 1 \in 1..m /\ ~(k + 1 <= k)
      BY <1>9, <2>6
    <3>2. \A i : i \in 1..(k + 1) <=> i \in 1..k \/ i = k + 1
      BY <2>6
    <3>3. Oldest(k + 1) = new \cup {waiters[k + 1]}
      BY <3>2 DEF Oldest
    <3> QED BY <2>9, <3>1, <3>3
  <2> HIDE DEF new
  <2>11. Total(n, new) \in Nat
    BY <2>7, TotalSplit
  <2>12. Owners' = rem \cup new
    BY <1>3, <2>1, <2>7 DEF Owners
  <2>13. Total(n, rem \cup new) = Total(n, rem) + Total(n, new)
    <3>1. rem \cap new = {}
      BY <2>7 DEF Owners
    <3>2. \A q \in rem \cup new : n[q] \in Nat
      BY <1>6, <2>7
    <3> HIDE DEF rem
    <3> QED BY <1>6, <2>7, <3>1, <3>2, TotalUnion
  <2> HIDE DEF rem
  <2>14. SumOK'
    BY <1>2, <1>4, <1>7, <1>8, <2>1, <2>8, <2>11, <2>12, <2>13 DEF SumOK
  <2>15. cur' \in 0..Capacity
    BY <1>4, <1>8, <2>1, <2>2, <2>6, <2>8, <2>11
  <2>16. /\ waiters' \in Seq(Callers) /\ Len(waiters') = m - k
         /\ \A j \in 1..(m - k) : waiters'[j] = waiters[k + j] /\ k + j \in 1..m
    <3>1. k + 1 \in Int /\ m \in Int /\ \A i \in (k + 1)..m : waiters[i] \in Callers
      BY <1>9, <1>10, <2>6
    <3>2. /\ SubSeq(waiters, k + 1, m) \in Seq(Callers)
          /\ Len(SubSeq(waiters, k + 1, m)) = (IF k + 1 <= m THEN m - (k + 1) + 1 ELSE 0)
          /\ \A j \in 1..(m - (k + 1) + 1) : SubSeq(waiters, k + 1, m)[j] = waiters[k + 1 + j - 1]
      BY <3>1, SubSeqProperties
    <3>3. waiters' = SubSeq(waiters, k + 1, m)
      BY <1>9, <2>1
    <3>4. (IF k + 1 <= m THEN m - (k + 1) + 1 ELSE 0) = m - k
      BY <1>9, <2>6
    <3>5. waiters' \in Seq(Callers) /\ Len(waiters') = m - k
      BY <3>2, <3>3, <3>4, Zenon
    <3>6. ASSUME NEW j \in 1..(m - k) PROVE waiters'[j] = waiters[k + j] /\ k + j \in 1..m
      <4>1. m \in Nat /\ j \in Nat /\ 1 <= j /\ j <= m - k
        BY <1>9, <2>6
      <4>2. j \in 1..(m - (k + 1) + 1)
        BY <2>6, <4>1
      <4>3. k + 1 + j - 1 = k + j /\ k + j \in 1..m
        BY <2>6, <4>1
      <4>4. SubSeq(waiters, k + 1, m)[j] = waiters[k + 1 + j - 1]
        BY <3>2, <4>2
      <4> QED BY <3>3, <4>3, <4>4
    <3> QED BY <3>5, <3>6
  <2>17. SemTypes'
    <3>1. signal' \in [Callers -> BOOLEAN]
      BY <2>1
    <3>2. \A q \in Callers : signal'[q] => pc'[q] = "waits"
      BY <1>1, <1>3, <2>1, <2>7 DEF SemTypes
    <3> QED BY <1>1, <1>2, <2>1, <2>15, <2>16, <3>1, <3>2 DEF SemTypes
  <2>18. QueueOK'
    <3>1. ASSUME NEW i \in 1..(m - k), NEW j \in 1..(m - k), waiters'[i] = waiters'[j]
          PROVE  i = j
      <4>1. k + i = k + j
        BY <1>1, <1>9, <2>16, <3>1 DEF QueueOK
      <4> QED BY <2>6, <4>1
    <3>2. ASSUME NEW q \in Callers
          PROVE  (pc'[q] = "waits" /\ ~signal'[q]) <=> \E j \in 1..(m - k) : waiters'[j] = q
      <4>1. (pc'[q] = "waits" /\ ~signal'[q]) <=> (pc[q] = "waits" /\ ~signal[q]) /\ q \notin new
        BY <1>2, <1>3, <2>1
      <4>2. (pc[q] = "waits" /\ ~signal[q]) <=> \E i \in 1..m : waiters[i] = q
        BY <1>1, <1>9 DEF QueueOK
      <4>3. ASSUME NEW i \in 1..m, waiters[i] = q, q \notin new PROVE \E j \in 1..(m - k) : waiters'[j] = q
        <5>1. ~(i <= k)
          BY <2>9, <4>3
        <5>2. i - k \in 1..(m - k) /\ k + (i - k) = i
          BY <1>9, <2>6, <5>1
        <5> QED BY <2>16, <4>3, <5>2
      <4>4. ASSUME NEW j \in 1..(m - k), waiters'[j] = q PROVE q \notin new /\ \E i \in 1..m : waiters[i] = q
        <5>1. waiters[k + j] = q /\ k + j \in 1..m
          BY <2>16, <4>4
        <5>2. ~(k + j <= k)
          BY <2>6
        <5> QED BY <2>9, <5>1, <5>2
      <4> QED BY <4>1, <4>2, <4>3, <4>4
    <3> QED BY <2>16, <3>1, <3>2 DEF QueueOK
  <2>19. HeadOK'
    <3> SUFFICES ASSUME NEW j \in 1..(m - k), j = 1 PROVE cur' + n[waiters'[j]] > Capacity
      BY <1>2, <2>16 DEF HeadOK
    <3>1. k + 1 <= m /\ waiters'[j] = waiters[k + 1]
      BY <1>9, <2>6, <2>16
    <3>2. waiters[k + 1] \in Callers /\ n[waiters[k + 1]] \in Nat
      BY <1>4, <1>10, <2>10, <3>1
    <3>3. WeightOf(k + 1) = Total(n, new \cup {waiters[k + 1]})
      BY <2>10, <3>1, WeightIs DEF WeightOf
    <3>4. Total(n, new \cup {waiters[k + 1]}) = Total(n, new) + n[waiters[k + 1]]
      BY <2>7, <2>10, <3>1, <3>2, TotalAdd
    <3>5. ~(Total(n, new) + n[waiters[k + 1]] <= free)
      BY <2>6, <3>1, <3>3, <3>4
    <3>6. n[waiters'[j]] = n[waiters[k + 1]]
      BY <3>1
    <3>7. cur' = base + Total(n, new)
      BY <2>1, <2>8
    <3>8. base + (Total(n, new) + n[waiters[k + 1]]) > Capacity
      BY <1>4, <1>8, <2>2, <2>11, <3>2, <3>5
    <3>9. cur' + n[waiters'[j]] = base + (Total(n, new) + n[waiters[k + 1]])
      BY <1>8, <2>11, <3>2, <3>6, <3>7
    <3> QED BY <3>8, <3>9
  <2> QED BY <2>14, <2>17, <2>18, <2>19 DEF SemInv
<1> QED BY <1>11, <1>12

LEMMA SemInductive == Spec => []SemInv
<1>1. SemInv /\ [SemNext]_semVars => SemInv'
  <2> SUFFICES ASSUME SemInv, [SemNext]_semVars PROVE SemInv'
    OBVIOUS
  <2>1. CASE SemNext
    <3>1. PICK p \in Callers :
             \/ \E w \in Weights : Take(p, w) \/ Wait(p, w)
             \/ Granted(p) \/ Cancel(p) \/ GiveUp(p) \/ Release(p)
      BY <2>1 DEF SemNext
    <3>2. CASE \E w \in Weights : Take(p, w) \/ Wait(p, w)
      BY <3>2, TakeInv, WaitInv, ZenonT(40)
    <3>3. CASE Granted(p) \/ Cancel(p)
      BY <3>3, GrantedInv
    <3>4. CASE GiveUp(p)
      BY <3>4, GiveUpInv
    <3>5. CASE Release(p)
      BY <3>5, ReleaseInv
    <3> QED BY <3>1, <3>2, <3>3, <3>4, <3>5
  <2>2. CASE UNCHANGED semVars
    BY <2>2 DEF semVars, SemInv, SemTypes, QueueOK, SumOK, HeadOK, Owners
  <2> QED BY <2>1, <2>2
<1> QED BY <1>1, SemInitially, SemBehaves, PTL

\* However acquires, cancellations and releases interleave, a caller is in the queue
\* once and as long as it waits without a grant, and the weight taken is what callers
\* hold or were granted, plus what was granted to those that gave up in that moment
\* (semaphore.go Acquire, Release).
THEOREM WeightIsAccounted == Spec => []PermitsAccounted
<1>1. SemInv => PermitsAccounted
  <2> SUFFICES ASSUME SemInv PROVE PermitsAccounted
    OBVIOUS
  <2>1. SemTypes /\ QueueOK /\ SumOK
    BY DEF SemInv
  <2>2. DOMAIN waiters = 1..Len(waiters) /\ \A i \in 1..Len(waiters) : waiters[i] \in Callers
    BY <2>1, QueueAt
  <2>3. IsInjective(waiters)
    BY <2>1, <2>2 DEF QueueOK, IsInjective
  <2>4. Range(waiters) = {p \in Callers : pc[p] = "waits" /\ ~signal[p]}
    BY <2>1, <2>2 DEF QueueOK, Range
  <2>5. cur = Weight({p \in Callers : pc[p] = "holds" \/ signal[p]}) + leaked
    BY <2>1, WeightIs DEF SumOK, Owners
  <2> QED BY <2>3, <2>4, <2>5 DEF PermitsAccounted, QueueExact
<1> QED BY <1>1, SemInductive, PTL

\* The oldest waiter does not wait for weight that is free, unless the one before it
\* gave up or Release panicked since the queue was last served (semaphore.go Release).
THEOREM OldestIsServed == Spec => []NoLostWakeup
<1>1. SemInv => NoLostWakeup
  <2> SUFFICES ASSUME SemInv, ~missed, waiters # <<>> PROVE ~Fits(n[Head(waiters)])
    BY DEF NoLostWakeup
  <2>1. SemTypes /\ HeadOK
    BY DEF SemInv
  <2>2. Len(waiters) \in Nat /\ waiters \in Seq(Callers)
    BY <2>1, QueueAt DEF SemTypes
  <2>3. 1 \in 1..Len(waiters) /\ Head(waiters) = waiters[1]
    BY <2>2, EmptySeq
  <2>4. cur + n[waiters[1]] > Capacity
    BY <2>1, <2>3 DEF HeadOK
  <2>5. waiters[1] \in Callers /\ n[waiters[1]] \in Nat /\ cur \in Nat /\ Capacity \in Nat
    BY <2>1, <2>3, QueueAt, OwnersFinite
  <2> QED BY <2>3, <2>4, <2>5 DEF Fits
<1> QED BY <1>1, SemInductive, PTL

-----------------------------------------------------------------------------
(* Quotients and remainders *)

LEMMA Division ==
    ASSUME NEW a \in Int, NEW m \in Nat, m > 0
    PROVE  a = m * (a \div m) + (a % m) /\ a \div m \in Int /\ a % m \in 0..(m - 1)
<1>1. a = m * (a \div m) + (a % m)
  OBVIOUS
<1>2. a \div m \in Int
  OBVIOUS
<1>3. a % m \in 0..(m - 1)
  OBVIOUS
<1> QED BY <1>1, <1>2, <1>3

LEMMA DivisionUnique ==
    ASSUME NEW m \in Nat, m > 0, NEW p \in Int, NEW q \in Int, NEW r \in 0..(m - 1), NEW s \in 0..(m - 1),
           m * p + r = m * q + s
    PROVE  p = q /\ r = s
<1>1. m * (p - q) = s - r
  OBVIOUS
<1>2. CASE p - q >= 1
  <2>1. m * (p - q) >= m
    BY <1>2
  <2> QED BY <1>1, <2>1
<1>3. CASE p - q <= -1
  <2>1. m * (p - q) <= -m
    BY <1>3
  <2> QED BY <1>1, <2>1
<1>4. CASE p = q
  BY <1>1, <1>4
<1> QED BY <1>2, <1>3, <1>4

\* Numbers that are a multiple of m apart have the same remainder.
LEMMA SameRemainder ==
    ASSUME NEW m \in Nat, m > 0, NEW a \in Int, NEW b \in Int, NEW k \in Int, a = b + m * k
    PROVE  a % m = b % m
<1>1. a = m * (a \div m) + (a % m) /\ a \div m \in Int /\ a % m \in 0..(m - 1)
  BY Division
<1>2. b = m * (b \div m) + (b % m) /\ b \div m \in Int /\ b % m \in 0..(m - 1)
  BY Division
<1> DEFINE p == a \div m
           q == b \div m
           r == a % m
           s == b % m
<1> HIDE DEF p, q, r, s
<1>3. /\ p \in Int /\ q \in Int /\ r \in 0..(m - 1) /\ s \in 0..(m - 1)
      /\ a = m * p + r /\ b = m * q + s
  BY <1>1, <1>2 DEF p, q, r, s
<1> DEFINE u == q + k
<1>4. u \in Int /\ m * u = m * q + m * k
  BY <1>3
<1> HIDE DEF u
<1>5. m * p + r = m * u + s
  BY <1>3, <1>4
<1>6. p = u /\ r = s
  BY <1>3, <1>4, <1>5, DivisionUnique
<1> QED BY <1>6 DEF r, s

\* And conversely.
LEMMA RemainderApart ==
    ASSUME NEW m \in Nat, m > 0, NEW a \in Int, NEW b \in Int, a % m = b % m
    PROVE  \E k \in Int : a - b = m * k
<1>1. a = m * (a \div m) + (a % m) /\ a \div m \in Int /\ a % m \in 0..(m - 1)
  BY Division
<1>2. b = m * (b \div m) + (b % m) /\ b \div m \in Int /\ b % m \in 0..(m - 1)
  BY Division
<1> DEFINE p == a \div m
           q == b \div m
           r == a % m
<1> HIDE DEF p, q, r
<1>3. /\ p \in Int /\ q \in Int /\ r \in 0..(m - 1)
      /\ a = m * p + r /\ b = m * q + r
  BY <1>1, <1>2 DEF p, q, r
<1>4. p - q \in Int /\ m * (p - q) = m * p - m * q
  BY <1>3
<1> QED BY <1>3, <1>4

\* A number below d multiples of m has a quotient below d.
LEMMA QuotientBounds ==
    ASSUME NEW m \in Nat, m > 0, NEW a \in Int, NEW d \in Int
    PROVE  /\ a \div m \in Int
           /\ a < m * d => a \div m < d
           /\ (m * d + a) \div m = d + (a \div m)
<1>1. a = m * (a \div m) + (a % m) /\ a \div m \in Int /\ a % m \in 0..(m - 1)
  BY Division
<1> DEFINE q == a \div m
           r == a % m
           b == m * d + a
           p == b \div m
           s == b % m
<1>2. b \in Int
  OBVIOUS
<1> HIDE DEF b
<1>3. b = m * (b \div m) + (b % m) /\ b \div m \in Int /\ b % m \in 0..(m - 1)
  BY <1>2, Division
<1> HIDE DEF q, r, p, s
<1>4. /\ a = m * q + r /\ q \in Int /\ r \in 0..(m - 1)
      /\ b = m * p + s /\ p \in Int /\ s \in 0..(m - 1)
  BY <1>1, <1>3 DEF q, r, p, s
<1>5. a < m * d => q < d
  <2> SUFFICES ASSUME a < m * d, ~(q < d) PROVE FALSE
    BY <1>4
  <2>1. m * (q - d) >= 0
    BY <1>4
  <2>2. m * (q - d) = m * q - m * d
    BY <1>4
  <2> QED BY <1>4, <2>1, <2>2
<1>6. d + q \in Int /\ m * (d + q) = m * d + m * q
  BY <1>4
<1>7. m * p + s = m * (d + q) + r
  BY <1>4, <1>6 DEF b
<1>8. p = d + q
  BY <1>4, <1>6, <1>7, DivisionUnique
<1> QED BY <1>4, <1>5, <1>8 DEF p, q, b

-----------------------------------------------------------------------------
(* Rolling window *)

LEMMA WindowBehaves == Spec => WindowInit /\ [][WindowNext]_windowVars
<1>1. Init => WindowInit
  BY DEF Init
<1>2. [Next]_standaloneVars => [WindowNext]_windowVars
  BY DEF Next, standaloneVars
<1> QED BY <1>1, <1>2, PTL DEF Spec

RingPlaces == 0..(Buckets - 1)

WindowTypes ==
    /\ ring \in [RingPlaces -> SUBSET Nat] /\ head \in RingPlaces
    /\ samples \in Nat /\ winNow \in Nat /\ lastTs \in Int /\ origin \in Nat
    /\ stamp \in [Adders -> Int] /\ \A a \in Adders : stamp[a] = -1 \/ stamp[a] \in Nat
    /\ slotOf \in [DOMAIN slotOf -> Nat] /\ DOMAIN slotOf \subseteq 1..samples

\* The newest sample is of slot t, and slots have not drifted.
NewestIs(t) ==
    /\ lastTs = origin + Dur * t
    /\ \A s \in DOMAIN slotOf : slotOf[s] <= t
    /\ \E s \in DOMAIN slotOf : slotOf[s] = t

\* A sample of the last Buckets slots is in the bucket of its slot, and there only;
\* older ones are nowhere.
RingHas(t) ==
    \A i \in RingPlaces : \A s \in Nat :
        s \in ring[i] <=> /\ s \in DOMAIN slotOf /\ slotOf[s] > t - Buckets
                          /\ i = (head - (t - slotOf[s])) % Buckets

NothingYet == lastTs = -1 /\ DOMAIN slotOf = {} /\ \A i \in RingPlaces : ring[i] = {}

WindowInv ==
    /\ WindowTypes
    /\ NothingYet \/ (lastTs # -1 /\ \E t \in Nat : NewestIs(t) /\ RingHas(t))

LEMMA WindowConstants == Buckets \in Nat /\ Buckets > 0 /\ Dur \in Nat /\ Dur > 0
BY WindowConstantsOK

LEMMA EmptyRingIs == EmptyRing \in [RingPlaces -> SUBSET Nat] /\ \A i \in RingPlaces : EmptyRing[i] = {}
BY DEF EmptyRing, RingPlaces

LEMMA WindowInitially == WindowInit => WindowInv
<1> SUFFICES ASSUME WindowInit PROVE WindowInv
  OBVIOUS
<1>1. /\ winNow = 0 /\ stamp = [a \in Adders |-> -1] /\ ring = EmptyRing /\ head = 0 /\ lastTs = -1
      /\ samples = 0 /\ origin = 0 /\ slotOf = [s \in {} |-> 0]
  BY DEF WindowInit
<1>2. DOMAIN slotOf = {} /\ slotOf \in [DOMAIN slotOf -> Nat]
  BY <1>1
<1>3. 0 \in RingPlaces
  BY WindowConstants DEF RingPlaces
<1>4. WindowTypes
  BY <1>1, <1>2, <1>3, EmptyRingIs DEF WindowTypes
<1>5. NothingYet
  BY <1>1, <1>2, EmptyRingIs DEF NothingYet
<1> QED BY <1>4, <1>5 DEF WindowInv

\* The places that are passed over on the way from head to p places on.
LEMMA Passing ==
    ASSUME NEW h \in Int, NEW d \in 0..(Buckets - 1), NEW p \in 0..Buckets
    PROVE  (h - d) % Buckets \in {(h + i) % Buckets : i \in 1..p} <=> Buckets - d <= p
<1>1. Buckets \in Nat /\ Buckets > 0
  BY WindowConstants
<1>2. ASSUME NEW i \in 1..p, (h - d) % Buckets = (h + i) % Buckets
      PROVE  Buckets - d <= p
  <2>1. PICK k \in Int : (h + i) - (h - d) = Buckets * k
    <3>1. h + i \in Int /\ h - d \in Int
      OBVIOUS
    <3> QED BY <1>1, <1>2, <3>1, RemainderApart
  <2>2. i + d = Buckets * k /\ i + d >= 1
    <3>1. (h + i) - (h - d) = i + d /\ i + d >= 1
      BY <1>1
    <3> QED BY <2>1, <3>1, Zenon
  <2>3. CASE k <= 0
    <3>1. Buckets * k <= 0
      BY <1>1, <2>3
    <3> QED BY <1>1, <2>2, <3>1
  <2>4. CASE k >= 1
    <3>1. Buckets * k >= Buckets
      BY <1>1, <2>4
    <3> QED BY <1>1, <2>2, <3>1
  <2> QED BY <2>3, <2>4
<1>3. ASSUME Buckets - d <= p
      PROVE  (h - d) % Buckets \in {(h + i) % Buckets : i \in 1..p}
  <2>1. Buckets - d \in 1..p
    BY <1>1, <1>3
  <2> DEFINE one == 1
  <2>2. one \in Int /\ h + (Buckets - d) = (h - d) + Buckets * one
    BY <1>1
  <2> HIDE DEF one
  <2>3. h - d \in Int /\ h + (Buckets - d) \in Int
    BY <1>1
  <2>4. (h + (Buckets - d)) % Buckets = (h - d) % Buckets
    BY <1>1, <2>2, <2>3, SameRemainder
  <2> QED BY <2>1, <2>4
<1> QED BY <1>2, <1>3

\* Places are counted from the head, wherever the counting starts.
LEMMA FromThere ==
    ASSUME NEW h \in Int, NEW d \in Int, NEW e \in Int
    PROVE  (((h + e) % Buckets) - (e + d)) % Buckets = (h - d) % Buckets
<1>1. Buckets \in Nat /\ Buckets > 0
  BY WindowConstants
<1> DEFINE q == (h + e) \div Buckets
           r == (h + e) % Buckets
<1>2. h + e \in Int
  OBVIOUS
<1>3. h + e = Buckets * q + r /\ q \in Int /\ r \in 0..(Buckets - 1)
  BY <1>1, <1>2, Division
<1> HIDE DEF q, r
<1> DEFINE k == -q
<1>4. k \in Int /\ Buckets * k = -(Buckets * q)
  BY <1>1, <1>3
<1> HIDE DEF k
<1>5. r - (e + d) = (h - d) + Buckets * k
  BY <1>1, <1>3, <1>4
<1>6. r - (e + d) \in Int /\ h - d \in Int
  BY <1>1, <1>3
<1>7. (r - (e + d)) % Buckets = (h - d) % Buckets
  BY <1>1, <1>4, <1>5, <1>6, SameRemainder
<1> QED BY <1>7 DEF r

LEMMA NewestSlot ==
    ASSUME WindowTypes, NEW t \in Nat, NewestIs(t)
    PROVE  Newest = t
<1> DEFINE T == {slotOf[s] : s \in DOMAIN slotOf}
<1>1. T \subseteq 0..t /\ T # {} /\ t \in T
  BY DEF WindowTypes, NewestIs
<1> HIDE DEF T
<1>2. Max(T) \in T /\ \A y \in T : y <= Max(T)
  BY <1>1, MaxIs
<1>3. Max(T) \in 0..t /\ t <= Max(T)
  BY <1>1, <1>2
<1>4. Max(T) = t
  BY <1>3
<1> QED BY <1>4 DEF Newest, T

\* Late samples count for the newest slot, others for the slot of their time.
LEMMA SlotOfSample ==
    ASSUME WindowTypes, NEW t \in Nat, NewestIs(t), NEW at \in Nat
    PROVE  /\ Elapsed(at) \in Nat
           /\ Max({Newest, (at - origin) \div Dur}) = t + Elapsed(at)
           /\ (IF Elapsed(at) > 0 THEN Moved(at) ELSE lastTs) = origin + Dur * (t + Elapsed(at))
<1>1. Dur \in Nat /\ Dur > 0
  BY WindowConstants
<1>2. origin \in Int /\ lastTs \in Int /\ lastTs = origin + Dur * t
  BY DEF WindowTypes, NewestIs
<1> DEFINE e == Elapsed(at)
           q == (at - origin) \div Dur
           gap == at - lastTs
<1>3. at - origin \in Int /\ gap \in Int
  BY <1>2
<1>4. Newest = t
  BY NewestSlot
<1>5. /\ e \in Nat /\ q \in Int
      /\ (e = 0 /\ q <= t) \/ q = t + e
  <2>1. CASE at >= lastTs
    <3>1. e = gap \div Dur
      BY <2>1 DEF Elapsed
    <3> HIDE DEF e
    <3>2. at - origin = Dur * t + gap
      BY <1>1, <1>2
    <3> HIDE DEF gap
    <3>3. (Dur * t + gap) \div Dur = t + (gap \div Dur) /\ gap \div Dur \in Int
      BY <1>1, <1>3, QuotientBounds
    <3>4. q = t + e /\ e \in Int
      BY <3>1, <3>2, <3>3
    <3>5. e >= 0
      <4>1. gap = Dur * e + (gap % Dur) /\ gap % Dur \in 0..(Dur - 1)
        BY <1>1, <1>3, <3>1, Division
      <4>2. gap >= 0
        BY <1>2, <2>1 DEF gap
      <4>3. CASE e <= -1
        <5>1. Dur * e <= -Dur
          BY <1>1, <3>4, <4>3
        <5> QED BY <1>1, <1>3, <3>4, <4>1, <4>2, <5>1
      <4> QED BY <3>4, <4>3
    <3> QED BY <3>4, <3>5
  <2>2. CASE ~(at >= lastTs)
    <3>1. e = 0
      BY <2>2 DEF Elapsed
    <3>2. at - origin < Dur * t
      BY <1>1, <1>2, <2>2
    <3>3. q \in Int /\ q < t
      BY <1>1, <1>3, <3>2, QuotientBounds
    <3> QED BY <3>1, <3>3
  <2> QED BY <2>1, <2>2
<1> HIDE DEF e, q
<1>6. Max({t, q}) = t + e
  <2>1. t + e \in {t, q} /\ \A y \in {t, q} : t + e >= y
    BY <1>5
  <2>2. \A x \in {t, q} : (\A y \in {t, q} : x >= y) => x = t + e
    BY <1>5
  <2> QED BY <2>1, <2>2 DEF Max
<1>7. (IF e > 0 THEN lastTs + e * Dur ELSE lastTs) = origin + Dur * (t + e)
  <2>1. Dur * (t + e) = Dur * t + e * Dur
    BY <1>1, <1>5
  <2> QED BY <1>1, <1>2, <1>5, <2>1
<1> QED BY <1>4, <1>5, <1>6, <1>7 DEF e, q, Moved

LEMMA PassedIs ==
    ASSUME NEW at, Elapsed(at) \in Nat
    PROVE  Passed(at) = IF Elapsed(at) <= Buckets THEN Elapsed(at) ELSE Buckets
<1> DEFINE e == Elapsed(at)
<1>1. Buckets \in Nat
  BY WindowConstants
<1> HIDE DEF e
<1>2. e \in Nat
  BY DEF e
<1>3. Min({e, Buckets}) = IF e <= Buckets THEN e ELSE Buckets
  BY <1>1, <1>2 DEF Min
<1> QED BY <1>3 DEF Passed, e

\* What is in a bucket after a later sample.
LEMMA RingAfter ==
    ASSUME WindowTypes, NEW t \in Nat, NewestIs(t), RingHas(t), NEW a \in Adders, AddLater(a)
    PROVE  /\ ring' \in [RingPlaces -> SUBSET Nat] /\ head' \in RingPlaces
           /\ \E u \in Nat : NewestIs(u)' /\ RingHas(u)'
           /\ samples' = samples + 1 /\ lastTs' # -1
           /\ slotOf' \in [DOMAIN slotOf' -> Nat] /\ DOMAIN slotOf' = DOMAIN slotOf \cup {samples + 1}
<1> DEFINE at == stamp[a]
           e == Elapsed(at)
           p == Passed(at)
           passed == {(head + i) % Buckets : i \in 1..p}
           new == (head + p) % Buckets
           x == samples + 1
<1>1. /\ at # -1 /\ lastTs # -1
      /\ ring' = [i \in DOMAIN ring |-> (IF i \in passed THEN {} ELSE ring[i]) \cup (IF i = new THEN {x} ELSE {})]
      /\ head' = new /\ lastTs' = IF e > 0 THEN Moved(at) ELSE lastTs
      /\ slotOf' = [s \in DOMAIN slotOf \cup {x} |->
                       IF s = x THEN Max({Newest, (at - origin) \div Dur}) ELSE slotOf[s]]
      /\ origin' = origin
  BY DEF AddLater, Record
<1>2. /\ Buckets \in Nat /\ Buckets > 0 /\ at \in Nat /\ head \in Int /\ head \in RingPlaces
      /\ DOMAIN ring = RingPlaces /\ samples \in Nat /\ x \in Nat /\ x \notin DOMAIN slotOf
      /\ \A s \in DOMAIN slotOf : slotOf[s] \in Nat
  BY <1>1, WindowConstants DEF WindowTypes, RingPlaces
<1>3. /\ e \in Nat /\ Max({Newest, (at - origin) \div Dur}) = t + e
      /\ lastTs' = origin + Dur * (t + e)
  BY <1>1, <1>2, SlotOfSample
<1>4. p = (IF e <= Buckets THEN e ELSE Buckets) /\ p \in 0..Buckets
  <2>1. p = IF e <= Buckets THEN e ELSE Buckets
    BY <1>3, PassedIs
  <2> HIDE DEF p
  <2> QED BY <1>2, <1>3, <2>1
<1> HIDE DEF e, p
<1>5. new \in RingPlaces
  BY <1>2, <1>4, Division DEF RingPlaces
<1>6. ring' \in [RingPlaces -> SUBSET Nat]
  BY <1>1, <1>2 DEF WindowTypes
<1>7. /\ DOMAIN slotOf' = DOMAIN slotOf \cup {x} /\ slotOf'[x] = t + e
      /\ \A s \in DOMAIN slotOf : slotOf'[s] = slotOf[s]
  BY <1>1, <1>2, <1>3
<1>0. PICK u \in Nat : u = t + e
  BY <1>3
<1>8. NewestIs(u)'
  <2>1. \A s \in DOMAIN slotOf : slotOf[s] <= u
    BY <1>2, <1>3, <1>0 DEF NewestIs
  <2>2. \A s \in DOMAIN slotOf' : slotOf'[s] <= u
    BY <1>3, <1>7, <1>0, <2>1
  <2>3. lastTs' = origin' + Dur * u
    BY <1>1, <1>3, <1>0
  <2>4. \E s \in DOMAIN slotOf' : slotOf'[s] = u
    BY <1>7, <1>0
  <2> QED BY <2>2, <2>3, <2>4 DEF NewestIs
<1>9. ASSUME NEW i \in RingPlaces PROVE ring'[i] = (IF i \in passed THEN {} ELSE ring[i]) \cup (IF i = new THEN {x} ELSE {})
  BY <1>1, <1>2
<1> HIDE DEF passed, new, x
\* The bucket of the new sample, and of an older one.
<1>10. ASSUME NEW i \in RingPlaces
       PROVE  x \in ring'[i] <=> /\ x \in DOMAIN slotOf' /\ slotOf'[x] > u - Buckets
                                /\ i = (head' - (u - slotOf'[x])) % Buckets
  <2>1. x \notin ring[i]
    BY <1>2 DEF RingHas
  <2>2. x \in ring'[i] <=> i = new
    BY <1>9, <2>1
  <2>3. x \in DOMAIN slotOf' /\ slotOf'[x] = u /\ u > u - Buckets
    BY <1>2, <1>7, <1>0
  <2>4. (head' - (u - slotOf'[x])) % Buckets = new
    <3>1. new - (u - u) = new /\ head' = new /\ new \in 0..(Buckets - 1)
      BY <1>1, <1>5 DEF RingPlaces
    <3>2. new % Buckets = new
      BY <1>2, <3>1
    <3> QED BY <2>3, <3>1, <3>2
  <2> QED BY <2>2, <2>3, <2>4
<1>11. ASSUME NEW i \in RingPlaces, NEW s \in DOMAIN slotOf
       PROVE  s \in ring'[i] <=> /\ s \in DOMAIN slotOf' /\ slotOf'[s] > u - Buckets
                                /\ i = (head' - (u - slotOf'[s])) % Buckets
  <2> DEFINE d == t - slotOf[s]
  <2>1. s \in DOMAIN slotOf' /\ slotOf'[s] = slotOf[s] /\ s # x /\ s \in Nat
    BY <1>2, <1>7 DEF WindowTypes
  <2>2. d \in Nat /\ slotOf[s] = t - d
    BY <1>2 DEF NewestIs
  <2>3. s \in ring'[i] <=> s \in ring[i] /\ i \notin passed
    BY <1>9, <2>1
  <2>4. s \in ring[i] <=> d < Buckets /\ i = (head - d) % Buckets
    <3>1. s \in ring[i] <=> slotOf[s] > t - Buckets /\ i = (head - d) % Buckets
      BY <2>1 DEF RingHas
    <3>2. slotOf[s] > t - Buckets <=> d < Buckets
      BY <1>2, <2>2
    <3> QED BY <3>1, <3>2
  <2> HIDE DEF d
  <2>5. u - slotOf'[s] = e + d /\ (slotOf'[s] > u - Buckets <=> e + d < Buckets)
    BY <1>2, <1>3, <1>0, <2>1, <2>2
  <2>6. CASE d < Buckets
    <3>1. (head - d) % Buckets \in passed <=> Buckets - d <= p
      <4>1. d \in 0..(Buckets - 1)
        BY <1>2, <2>2, <2>6
      <4> QED BY <1>2, <1>4, <4>1, Passing DEF passed
    <3>2. Buckets - d <= p <=> ~(e + d < Buckets)
      BY <1>2, <1>3, <1>4, <2>2
    <3>3. CASE e + d < Buckets
      <4>1. p = e /\ new = (head + e) % Buckets
        BY <1>2, <1>3, <1>4, <2>2, <3>3 DEF new
      <4>2. (head' - (u - slotOf'[s])) % Buckets = (head - d) % Buckets
        <5>1. (((head + e) % Buckets) - (e + d)) % Buckets = (head - d) % Buckets
          <6>1. head \in Int /\ d \in Int /\ e \in Int
            BY <1>2, <1>3, <2>2
          <6> QED BY <6>1, FromThere
        <5>2. head' = (head + e) % Buckets /\ u - slotOf'[s] = e + d
          BY <1>1, <2>5, <4>1
        <5> QED BY <5>1, <5>2, Zenon
      <4> QED BY <2>1, <2>3, <2>4, <2>5, <2>6, <3>1, <3>2, <3>3, <4>2
    <3>4. CASE ~(e + d < Buckets)
      BY <2>3, <2>4, <2>5, <3>1, <3>2, <3>4
    <3> QED BY <3>3, <3>4
  <2>7. CASE ~(d < Buckets)
    <3>1. ~(e + d < Buckets)
      BY <1>2, <1>3, <2>2, <2>7
    <3> QED BY <2>3, <2>4, <2>5, <2>7, <3>1
  <2> QED BY <2>6, <2>7
<1>12. ASSUME NEW i \in RingPlaces, NEW s, s \notin DOMAIN slotOf, s # x
       PROVE  s \notin ring'[i] /\ s \notin DOMAIN slotOf'
  <2>1. s \notin DOMAIN slotOf'
    BY <1>7, <1>12
  <2>2. ring[i] \subseteq Nat
    BY DEF WindowTypes
  <2>3. s \notin ring[i]
    BY <1>12, <2>2 DEF RingHas
  <2> QED BY <1>9, <1>12, <2>1, <2>3
<1>13. RingHas(u)'
  <2> SUFFICES ASSUME NEW i \in RingPlaces, NEW s \in Nat
               PROVE  s \in ring'[i] <=> /\ s \in DOMAIN slotOf' /\ slotOf'[s] > u - Buckets
                                        /\ i = (head' - (u - slotOf'[s])) % Buckets
    BY DEF RingHas, RingPlaces
  <2>1. CASE s = x
    BY <1>10, <2>1
  <2>2. CASE s \in DOMAIN slotOf
    BY <1>11, <2>2
  <2>3. CASE s # x /\ s \notin DOMAIN slotOf
    BY <1>12, <2>3
  <2> QED BY <2>1, <2>2, <2>3
<1>14. samples' = samples + 1 /\ lastTs' # -1
  <2>1. samples' = samples + 1 /\ origin' = origin
    BY DEF AddLater
  <2>2. lastTs' # -1
    <3>1. Dur * u \in Nat /\ origin \in Nat /\ lastTs' = origin + Dur * u
      BY <1>3, <1>0, WindowConstants DEF WindowTypes
    <3> QED BY <3>1
  <2> QED BY <2>1, <2>2
<1>15. slotOf' \in [DOMAIN slotOf' -> Nat] /\ DOMAIN slotOf' = DOMAIN slotOf \cup {samples + 1}
  BY <1>1, <1>2, <1>3, <1>7 DEF x
<1> QED BY <1>1, <1>5, <1>6, <1>8, <1>13, <1>14, <1>15

LEMMA AddFirstInv ==
    ASSUME WindowInv, NEW a \in Adders, AddFirst(a)
    PROVE  WindowInv'
<1> DEFINE x == samples + 1
<1>1. /\ stamp[a] # -1 /\ lastTs = -1 /\ ring' = [ring EXCEPT ![0] = {x}]
      /\ head' = 0 /\ lastTs' = stamp[a] /\ samples' = x /\ origin' = stamp[a]
      /\ slotOf' = [s \in DOMAIN slotOf \cup {x} |-> IF s = x THEN 0 ELSE slotOf[s]]
      /\ stamp' = [stamp EXCEPT ![a] = -1] /\ winNow' = winNow
  BY DEF AddFirst, Record
<1>2. /\ WindowTypes /\ NothingYet /\ samples \in Nat /\ x \in Nat /\ stamp[a] \in Nat
      /\ 0 \in RingPlaces /\ Buckets \in Nat /\ Buckets > 0
  BY <1>1, WindowConstants DEF WindowInv, WindowTypes, RingPlaces
<1>3. /\ DOMAIN slotOf' = {x} /\ slotOf'[x] = 0 /\ slotOf' \in [DOMAIN slotOf' -> Nat]
      /\ DOMAIN slotOf' \subseteq 1..samples'
  BY <1>1, <1>2 DEF NothingYet
<1>4. /\ ring' \in [RingPlaces -> SUBSET Nat]
      /\ \A i \in RingPlaces : ring'[i] = IF i = 0 THEN {x} ELSE {}
  BY <1>1, <1>2 DEF WindowTypes, NothingYet
<1> HIDE DEF x
<1>5. WindowTypes'
  <2>1. stamp' \in [Adders -> Int] /\ \A b \in Adders : stamp'[b] = -1 \/ stamp'[b] \in Nat
    BY <1>1, <1>2 DEF WindowTypes
  <2>2. origin' \in Nat /\ lastTs' \in Int /\ samples' \in Nat /\ head' \in RingPlaces /\ winNow' \in Nat
    BY <1>1, <1>2 DEF WindowTypes
  <2> QED BY <1>3, <1>4, <2>1, <2>2 DEF WindowTypes, RingPlaces
<1>6. NewestIs(0)'
  <2>1. Dur * 0 = 0
    BY WindowConstants
  <2> QED BY <1>1, <1>2, <1>3, <2>1, SMTT(30) DEF NewestIs
<1>7. RingHas(0)'
  <2>1. (0 - (0 - 0)) % Buckets = 0
    BY <1>2
  <2>2. 0 > 0 - Buckets
    BY <1>2
  <2> SUFFICES ASSUME NEW i \in RingPlaces, NEW s \in Nat
               PROVE  s \in ring'[i] <=> /\ s \in DOMAIN slotOf' /\ slotOf'[s] > 0 - Buckets
                                        /\ i = (head' - (0 - slotOf'[s])) % Buckets
    BY DEF RingHas, RingPlaces
  <2>3. CASE s = x
    <3>1. s \in ring'[i] <=> i = 0
      BY <1>4, <2>3
    <3>2. s \in DOMAIN slotOf' /\ slotOf'[s] = 0 /\ head' = 0
      BY <1>1, <1>3, <2>3
    <3> QED BY <2>1, <2>2, <3>1, <3>2
  <2>4. CASE s # x
    BY <1>3, <1>4, <2>4
  <2> QED BY <2>3, <2>4
<1>8. lastTs' # -1
  BY <1>1
<1> QED BY <1>5, <1>6, <1>7, <1>8 DEF WindowInv

LEMMA AddLaterInv ==
    ASSUME WindowInv, NEW a \in Adders, AddLater(a)
    PROVE  WindowInv'
<1>1. WindowTypes /\ lastTs # -1 /\ \E t \in Nat : NewestIs(t) /\ RingHas(t)
  BY DEF WindowInv, AddLater, NothingYet
<1>2. PICK t \in Nat : NewestIs(t) /\ RingHas(t)
  BY <1>1
<1>3. /\ ring' \in [RingPlaces -> SUBSET Nat] /\ head' \in RingPlaces
      /\ \E u \in Nat : NewestIs(u)' /\ RingHas(u)'
      /\ samples' = samples + 1 /\ lastTs' # -1
      /\ slotOf' \in [DOMAIN slotOf' -> Nat] /\ DOMAIN slotOf' = DOMAIN slotOf \cup {samples + 1}
  BY <1>1, <1>2, RingAfter
<1>4. stamp' = [stamp EXCEPT ![a] = -1] /\ UNCHANGED <<winNow, origin>>
  BY DEF AddLater
<1>5. PICK u \in Nat : NewestIs(u)' /\ RingHas(u)'
  BY <1>3
<1>6. stamp' \in [Adders -> Int] /\ \A b \in Adders : stamp'[b] = -1 \/ stamp'[b] \in Nat
  BY <1>1, <1>4 DEF WindowTypes
<1>7. lastTs' \in Int
  <2>1. lastTs' = origin + Dur * u
    BY <1>4, <1>5 DEF NewestIs
  <2> QED BY <1>1, <2>1, WindowConstants DEF WindowTypes
<1>8. samples' \in Nat /\ DOMAIN slotOf' \subseteq 1..samples' /\ origin' \in Nat /\ winNow' \in Nat
  BY <1>1, <1>3, <1>4 DEF WindowTypes
<1>9. WindowTypes'
  BY <1>3, <1>6, <1>7, <1>8 DEF WindowTypes, RingPlaces
<1> QED BY <1>3, <1>9 DEF WindowInv

LEMMA OtherWindowInv ==
    ASSUME WindowInv, (\E a \in Adders : Stamp(a)) \/ WindowTick \/ ResetWindow \/ UNCHANGED windowVars
    PROVE  WindowInv'
<1>1. CASE ResetWindow
  <2>1. /\ ring' = EmptyRing /\ head' = 0 /\ lastTs' = -1 /\ slotOf' = [s \in {} |-> 0]
        /\ UNCHANGED <<winNow, stamp, samples, origin>>
    BY <1>1 DEF ResetWindow
  <2>2. /\ ring' \in [RingPlaces -> SUBSET Nat] /\ \A i \in RingPlaces : ring'[i] = {}
        /\ 0 \in RingPlaces
    BY <2>1, EmptyRingIs, WindowConstants DEF RingPlaces
  <2>3. DOMAIN slotOf' = {} /\ slotOf' \in [DOMAIN slotOf' -> Nat] /\ DOMAIN slotOf' \subseteq 1..samples'
    BY <2>1
  <2>4. WindowTypes'
    BY <2>1, <2>2, <2>3 DEF WindowInv, WindowTypes, RingPlaces
  <2> QED BY <2>1, <2>2, <2>3, <2>4 DEF WindowInv, NothingYet, RingPlaces
<1>2. CASE UNCHANGED <<ring, head, lastTs, samples, origin, slotOf>>
           /\ winNow' \in Nat /\ stamp' \in [Adders -> Int]
           /\ \A b \in Adders : stamp'[b] = -1 \/ stamp'[b] \in Nat
  <2>1. WindowTypes'
    BY <1>2 DEF WindowInv, WindowTypes, RingPlaces
  <2>2. NothingYet => NothingYet'
    BY <1>2 DEF NothingYet, RingPlaces
  <2>3. \A t \in Nat : NewestIs(t) /\ RingHas(t) => NewestIs(t)' /\ RingHas(t)'
    BY <1>2 DEF NewestIs, RingHas, RingPlaces
  <2> QED BY <1>2, <2>1, <2>2, <2>3 DEF WindowInv
<1>3. CASE \E a \in Adders : Stamp(a)
  <2>1. PICK a \in Adders : Stamp(a)
    BY <1>3
  <2>2. stamp' = [stamp EXCEPT ![a] = winNow] /\ UNCHANGED <<winNow, ring, head, lastTs, samples, origin, slotOf>>
    BY <2>1 DEF Stamp
  <2>3. /\ winNow' \in Nat /\ stamp' \in [Adders -> Int]
        /\ \A b \in Adders : stamp'[b] = -1 \/ stamp'[b] \in Nat
    BY <2>2 DEF WindowInv, WindowTypes
  <2> QED BY <1>2, <2>2, <2>3
<1>4. CASE WindowTick
  <2>1. winNow' = winNow + 1 /\ UNCHANGED <<stamp, ring, head, lastTs, samples, origin, slotOf>>
    BY <1>4 DEF WindowTick
  <2>2. /\ winNow' \in Nat /\ stamp' \in [Adders -> Int]
        /\ \A b \in Adders : stamp'[b] = -1 \/ stamp'[b] \in Nat
    BY <2>1 DEF WindowInv, WindowTypes
  <2> QED BY <1>2, <2>1, <2>2
<1>5. CASE UNCHANGED windowVars
  BY <1>2, <1>5 DEF windowVars, WindowInv, WindowTypes
<1> QED BY <1>1, <1>3, <1>4, <1>5

LEMMA WindowInductive == Spec => []WindowInv
<1>1. WindowInv /\ [WindowNext]_windowVars => WindowInv'
  BY AddFirstInv, AddLaterInv, OtherWindowInv DEF WindowNext
<1> QED BY <1>1, WindowInitially, WindowBehaves, PTL

\* Whatever goroutines add in whatever order, and however long nothing is added, the
\* ring holds the samples of the last Buckets slots up to the newest and no others,
\* each in the bucket of its slot (rolling.go addAt).
THEOREM RingIsWindow == Spec => []WindowExact
<1>1. WindowInv => WindowExact
  <2> SUFFICES ASSUME WindowInv PROVE WindowExact
    OBVIOUS
  <2>1. WindowTypes /\ DOMAIN ring = RingPlaces
    BY DEF WindowInv, WindowTypes
  <2>2. CASE NothingYet
    <3>1. InWindow = {}
      BY <2>1, <2>2 DEF InWindow, NothingYet
    <3>2. \A i, j \in DOMAIN ring : i # j => ring[i] \cap ring[j] = {}
      BY <2>1, <2>2 DEF NothingYet
    <3> QED BY <2>2, <3>1, <3>2 DEF WindowExact, NothingYet
  <2>3. ASSUME NEW t \in Nat, NewestIs(t), RingHas(t)
        PROVE  WindowExact
    <3>1. Newest = t
      BY <2>1, <2>3, NewestSlot
    <3>2. \A i \in RingPlaces : ring[i] \subseteq Nat
      BY <2>1 DEF WindowTypes
    <3>3. ASSUME NEW s \in DOMAIN slotOf, slotOf[s] > t - Buckets
          PROVE  (head - (t - slotOf[s])) % Buckets \in RingPlaces /\ s \in ring[(head - (t - slotOf[s])) % Buckets]
      <4>1. slotOf[s] \in Nat /\ head \in Int /\ s \in Nat /\ head - (t - slotOf[s]) \in Int
        BY <2>1 DEF WindowTypes, RingPlaces
      <4>2. (head - (t - slotOf[s])) % Buckets \in RingPlaces
        BY <4>1, WindowConstants, Division DEF RingPlaces
      <4> QED BY <2>3, <3>3, <4>1, <4>2 DEF RingHas
    <3>4. ASSUME NEW i \in RingPlaces, NEW s \in ring[i]
          PROVE  s \in DOMAIN slotOf /\ slotOf[s] > t - Buckets /\ i = (head - (t - slotOf[s])) % Buckets
      BY <2>3, <3>2 DEF RingHas
    <3>5. InWindow = {s \in DOMAIN slotOf : slotOf[s] > t - Buckets}
      BY <2>1, <3>3, <3>4 DEF InWindow
    <3>6. \A i, j \in DOMAIN ring : i # j => ring[i] \cap ring[j] = {}
      BY <2>1, <3>4
    <3>7. \A s \in InWindow : s \in ring[(head - (t - slotOf[s])) % Buckets]
      BY <3>3, <3>5
    <3> QED BY <3>1, <3>5, <3>6, <3>7 DEF WindowExact
  <2> QED BY <2>2, <2>3 DEF WindowInv
<1> QED BY <1>1, WindowInductive, PTL

-----------------------------------------------------------------------------
(* Retry *)

LEMMA RetryBehaves == Spec => RetryInit /\ [][RetryNext]_retryVars
<1>1. Init => RetryInit
  BY DEF Init
<1>2. [Next]_standaloneVars => [RetryNext]_retryVars
  BY DEF Next, standaloneVars
<1> QED BY <1>1, <1>2, PTL DEF Spec

\* The backoff after one more failure, and a function that is the backoff up to k.
Grown(d) == Ceiling(d * Multiplier)
BackoffTo(it, k) == it = [j \in 0..k |-> IF j <= 1 THEN InitialBackoff ELSE Grown(it[j - 1])]

LEMMA BackoffToAt ==
    ASSUME NEW k \in Nat, NEW it, BackoffTo(it, k), NEW j \in 0..k
    PROVE  it[j] = IF j <= 1 THEN InitialBackoff ELSE Grown(it[j - 1])
<1> DEFINE g(i) == IF i <= 1 THEN InitialBackoff ELSE Grown(it[i - 1])
<1>1. it = [i \in 0..k |-> g(i)]
  BY DEF BackoffTo
<1> HIDE DEF g
<1>2. it[j] = g(j)
  BY <1>1
<1> QED BY <1>2 DEF g

LEMMA BackoffToExists ==
    ASSUME NEW top \in Nat
    PROVE  \E it : BackoffTo(it, top)
<1> DEFINE Bad == {k \in Nat : ~\E it : BackoffTo(it, k)}
<1>1. SUFFICES ASSUME Bad # {} PROVE FALSE
  OBVIOUS
<1>2. PICK k \in Bad : \A j \in Bad : k <= j
  BY <1>1, LeastNat
<1>3. k \in Nat /\ ~\E it : BackoffTo(it, k)
  OBVIOUS
<1>4. CASE k = 0
  <2> DEFINE it == [j \in 0..0 |-> InitialBackoff]
  <2>1. BackoffTo(it, 0)
    BY DEF BackoffTo
  <2> QED BY <1>3, <1>4, <2>1
<1>5. CASE k # 0
  <2>1. k - 1 \in Nat /\ k - 1 \notin Bad
    BY <1>2, <1>3, <1>5
  <2>2. PICK it : BackoffTo(it, k - 1)
    BY <2>1
  <2> DEFINE new == [j \in 0..k |-> IF j <= 1 THEN InitialBackoff ELSE Grown(it[j - 1])]
  <2>3. ASSUME NEW j \in 0..k, ~(j <= 1) PROVE new[j - 1] = it[j - 1]
    <3>1. j - 1 \in 0..(k - 1) /\ j - 1 \in 0..k
      BY <1>3, <2>3
    <3>2. it[j - 1] = IF j - 1 <= 1 THEN InitialBackoff ELSE Grown(it[j - 1 - 1])
      BY <2>1, <2>2, <3>1, BackoffToAt
    <3> QED BY <3>1, <3>2
  <2>4. BackoffTo(new, k)
    <3> DEFINE a(j) == IF j <= 1 THEN InitialBackoff ELSE Grown(it[j - 1])
               b(j) == IF j <= 1 THEN InitialBackoff ELSE Grown(new[j - 1])
    <3>1. \A j \in 0..k : a(j) = b(j)
      BY <2>3
    <3>2. new = [j \in 0..k |-> a(j)]
      OBVIOUS
    <3> HIDE DEF a, new
    <3>3. new = [j \in 0..k |-> b(j)]
      <4> HIDE DEF b
      <4> QED BY <3>1, <3>2
    <3> QED BY <3>3 DEF BackoffTo
  <2> QED BY <1>3, <2>4
<1> QED BY <1>4, <1>5

LEMMA BackoffToUnique ==
    ASSUME NEW k \in Nat, NEW m \in Nat, NEW f, BackoffTo(f, k), NEW g, BackoffTo(g, m), k <= m
    PROVE  f[k] = g[k]
<1> DEFINE Bad == {j \in Nat : j <= k /\ f[j] # g[j]}
<1>1. SUFFICES ASSUME Bad # {} PROVE FALSE
  OBVIOUS
<1>2. PICK j \in Bad : \A i \in Bad : j <= i
  BY <1>1, LeastNat
<1>3. j \in Nat /\ j <= k /\ f[j] # g[j] /\ j \in 0..k /\ j \in 0..m
  BY <1>2
<1>4. f[j] = IF j <= 1 THEN InitialBackoff ELSE Grown(f[j - 1])
  BY <1>3, BackoffToAt
<1>5. g[j] = IF j <= 1 THEN InitialBackoff ELSE Grown(g[j - 1])
  BY <1>3, BackoffToAt
<1>6. ~(j <= 1) /\ f[j - 1] # g[j - 1]
  BY <1>3, <1>4, <1>5
<1>7. j - 1 \in Bad /\ ~(j <= j - 1)
  BY <1>3, <1>6
<1> QED BY <1>2, <1>7

\* The recursion of Backoff.
LEMMA BackoffIs ==
    ASSUME NEW k \in Nat
    PROVE  Backoff[k] = IF k <= 1 THEN InitialBackoff ELSE Grown(Backoff[k - 1])
<1> DEFINE upTo(j) == CHOOSE it : BackoffTo(it, j)
           all == [j \in Nat |-> upTo(j)[j]]
           a(j) == IF j <= 1 THEN InitialBackoff ELSE Grown(all[j - 1])
<1>1. \A j \in Nat : BackoffTo(upTo(j), j)
  BY BackoffToExists
<1>2. ASSUME NEW j \in Nat PROVE all[j] = a(j)
  <2> HIDE DEF upTo
  <2>1. upTo(j)[j] = IF j <= 1 THEN InitialBackoff ELSE Grown(upTo(j)[j - 1])
    BY <1>1, BackoffToAt
  <2>2. CASE ~(j <= 1)
    <3>1. j - 1 \in Nat /\ j - 1 <= j /\ j - 1 \in 0..(j - 1)
      BY <2>2
    <3>2. upTo(j - 1)[j - 1] = upTo(j)[j - 1]
      BY <1>1, <3>1, BackoffToUnique
    <3> QED BY <2>1, <2>2, <3>1, <3>2
  <2> QED BY <2>1, <2>2
<1>3. all = [j \in Nat |-> all[j]]
  OBVIOUS
<1> HIDE DEF all
<1>4. all = [j \in Nat |-> a(j)]
  <2> HIDE DEF a
  <2> QED BY <1>2, <1>3
<1>5. \E it : it = [j \in Nat |-> IF j <= 1 THEN InitialBackoff ELSE Ceiling(it[j - 1] * Multiplier)]
  BY <1>4 DEF Grown
<1>6. Backoff = [j \in Nat |-> IF j <= 1 THEN InitialBackoff ELSE Ceiling(Backoff[j - 1] * Multiplier)]
  BY <1>5 DEF Backoff
<1> DEFINE b(j) == IF j <= 1 THEN InitialBackoff ELSE Ceiling(Backoff[j - 1] * Multiplier)
<1>7. Backoff = [j \in Nat |-> b(j)]
  BY <1>6
<1> HIDE DEF b
<1>8. Backoff[k] = b(k)
  BY <1>7
<1> QED BY <1>8 DEF b, Grown

LEMMA RetryConstants ==
    ASSUME config \in Configs
    PROVE  /\ Widest \in Nat /\ Widest > 0 /\ Initial \in 1..Widest
           /\ config.max \in Int /\ config.initial \in Int /\ config.initial <= Widest
           /\ config.ceiling \in Int /\ config.ceiling <= Widest
           /\ config.multiplier \in Nat /\ config.jitter \in BOOLEAN
           /\ InitialBackoff \in 1..Widest /\ Multiplier \in Nat /\ Multiplier >= 1
           /\ MaxAttempts \in Nat /\ MaxAttempts >= 1
<1>1. Widest \in Nat /\ Widest > 0 /\ Initial \in 1..Widest
  BY RetryConstantsOK
<1>2. /\ config.max \in Int /\ config.initial \in Durations /\ config.ceiling \in Durations
      /\ config.multiplier \in Nat /\ config.jitter \in BOOLEAN
  BY RetryConstantsOK
<1>3. /\ config.initial \in Int /\ config.initial <= Widest
      /\ config.ceiling \in Int /\ config.ceiling <= Widest
  BY <1>1, <1>2 DEF Durations
<1>4. InitialBackoff \in 1..Widest
  BY <1>1, <1>3 DEF InitialBackoff
<1>5. Multiplier \in Nat /\ Multiplier >= 1
  BY <1>2 DEF Multiplier
<1>6. MaxAttempts \in Nat /\ MaxAttempts >= 1
  BY <1>2 DEF MaxAttempts
<1> QED BY <1>1, <1>2, <1>3, <1>4, <1>5, <1>6

\* A backoff is not below the first one unless the ceiling is, and a ceiling
\* keeps it representable.
Bounded(d) ==
    /\ d \in Nat /\ d >= 1
    /\ d >= InitialBackoff \/ (config.ceiling > 0 /\ d >= config.ceiling)
    /\ config.ceiling > 0 => d <= Widest

LEMMA Product ==
    ASSUME NEW a \in Nat, NEW b \in Nat, b >= 1
    PROVE  a * b \in Nat /\ a * b >= a
<1>1. a * (b - 1) \in Nat /\ a * b = a * (b - 1) + a
  <2>1. b - 1 \in Nat
    OBVIOUS
  <2> QED BY <2>1
<1> QED BY <1>1

LEMMA GrownBounded ==
    ASSUME config \in Configs, NEW d, Bounded(d)
    PROVE  Bounded(Grown(d))
<1> DEFINE e == d * Multiplier
<1>1. d \in Nat /\ e \in Nat /\ e >= d
  BY RetryConstants, Product DEF Bounded
<1> HIDE DEF e
<1>2. Grown(d) = IF config.ceiling > 0 /\ e > config.ceiling THEN config.ceiling ELSE e
  BY DEF Grown, Ceiling, e
<1>3. config.ceiling \in Int /\ config.ceiling <= Widest /\ Widest \in Nat /\ InitialBackoff \in Nat
  BY RetryConstants
<1>4. CASE config.ceiling > 0 /\ e > config.ceiling
  BY <1>1, <1>2, <1>3, <1>4 DEF Bounded
<1>5. CASE ~(config.ceiling > 0 /\ e > config.ceiling)
  BY <1>1, <1>2, <1>3, <1>5 DEF Bounded
<1> QED BY <1>4, <1>5

LEMMA BackoffBounded ==
    ASSUME config \in Configs, NEW top \in Nat
    PROVE  Bounded(Backoff[top])
<1> DEFINE Bad == {k \in Nat : ~Bounded(Backoff[k])}
<1>1. SUFFICES ASSUME Bad # {} PROVE FALSE
  OBVIOUS
<1>2. PICK k \in Bad : \A j \in Bad : k <= j
  BY <1>1, LeastNat
<1>3. k \in Nat /\ ~Bounded(Backoff[k])
  OBVIOUS
<1>4. Backoff[k] = IF k <= 1 THEN InitialBackoff ELSE Grown(Backoff[k - 1])
  BY <1>3, BackoffIs
<1>5. Bounded(InitialBackoff)
  BY RetryConstants DEF Bounded
<1>6. ~(k <= 1)
  BY <1>3, <1>4, <1>5
<1>7. k - 1 \in Nat /\ ~(k <= k - 1)
  BY <1>3, <1>6
<1>8. Bounded(Backoff[k - 1])
  BY <1>2, <1>7
<1> QED BY <1>3, <1>4, <1>6, <1>8, GrownBounded

\* What RetryHonest says of a wait.
WaitOK(d) ==
    /\ d \in 0..Widest
    /\ config.ceiling > 0 => d <= config.ceiling + config.ceiling \div 2
    /\ d # 0 => d >= InitialBackoff \/ config.ceiling \in 1..d
    /\ d = 0 => config.ceiling <= 0 \/ config.ceiling + config.ceiling \div 2 > Widest

LEMMA NextBackoffOK ==
    ASSUME config \in Configs, NEW k \in Nat, NEW w \in NextBackoff(k)
    PROVE  WaitOK(w)
<1>a. PICK c \in Converted(Backoff[k]) :
         \E i \in IF config.jitter THEN Jitters(Ceiling(c)) ELSE {0} :
            w = IF Ceiling(c) + i < 0 \/ Ceiling(c) + i > Widest THEN 0 ELSE Ceiling(c) + i
  BY DEF NextBackoff
<1>1. PICK j \in IF config.jitter THEN Jitters(Ceiling(c)) ELSE {0} :
         w = IF Ceiling(c) + j < 0 \/ Ceiling(c) + j > Widest THEN 0 ELSE Ceiling(c) + j
  BY <1>a
<1> DEFINE b == Ceiling(c)
           h == config.ceiling \div 2
<1>2. Bounded(Backoff[k])
  BY BackoffBounded
<1>3. /\ Widest \in Nat /\ Widest > 0 /\ config.ceiling \in Int /\ config.ceiling <= Widest
      /\ InitialBackoff \in Nat /\ InitialBackoff >= 1 /\ InitialBackoff <= Widest
  BY RetryConstants
<1>4. \/ c = Backoff[k] /\ c <= Widest
      \/ (c = -Widest - 1 \/ c = Widest) /\ config.ceiling <= 0
  BY <1>2, <1>3 DEF Converted, Bounded
<1>5. b = IF config.ceiling > 0 /\ c > config.ceiling THEN config.ceiling ELSE c
  BY DEF Ceiling
<1>6. /\ b \in Int /\ b <= Widest
      /\ config.ceiling > 0 => b >= 1 /\ b <= config.ceiling
      /\ b >= InitialBackoff \/ (config.ceiling > 0 /\ b >= config.ceiling) \/ (b < 0 /\ config.ceiling <= 0)
  <2>1. CASE c = Backoff[k] /\ c <= Widest
    BY <1>2, <1>3, <1>5, <2>1 DEF Bounded
  <2>2. CASE (c = -Widest - 1 \/ c = Widest) /\ config.ceiling <= 0
    BY <1>3, <1>5, <2>2
  <2> QED BY <1>4, <2>1, <2>2
<1>7. j \in Jitters(b) \/ j = 0
  BY <1>1
<1>8. w = IF b + j < 0 \/ b + j > Widest THEN 0 ELSE b + j
  BY <1>1
<1> HIDE DEF b
<1>9. j \in Nat /\ (j = 0 \/ (b > 0 /\ j <= b \div 2 - 1))
  BY <1>6, <1>7 DEF Jitters
<1>10. config.ceiling > 0 => b + j <= config.ceiling + h
  BY <1>3, <1>6, <1>9
<1>11. config.ceiling > 0 => b + j >= 1
  BY <1>6, <1>9
<1>12. w \in 0..Widest
  BY <1>3, <1>6, <1>8, <1>9
<1>13. config.ceiling > 0 => w <= config.ceiling + h
  BY <1>3, <1>8, <1>10
<1>14. w # 0 => w = b + j /\ b + j >= 0
  BY <1>6, <1>8, <1>9
<1>15. w # 0 => w >= InitialBackoff \/ config.ceiling \in 1..w
  <2> SUFFICES ASSUME w # 0 PROVE w >= InitialBackoff \/ config.ceiling \in 1..w
    OBVIOUS
  <2>1. b + j >= InitialBackoff \/ (config.ceiling > 0 /\ b + j >= config.ceiling) \/ (b + j < 0)
    BY <1>3, <1>6, <1>9
  <2> QED BY <1>3, <1>6, <1>9, <1>14, <2>1
<1>16. w = 0 => config.ceiling <= 0 \/ config.ceiling + h > Widest
  <2> SUFFICES ASSUME w = 0, config.ceiling > 0 PROVE config.ceiling + h > Widest
    BY <1>3
  <2>1. b + j > Widest
    BY <1>3, <1>6, <1>8, <1>9, <1>11
  <2> QED BY <1>3, <1>6, <1>9, <1>10, <2>1
<1> QED BY <1>12, <1>13, <1>15, <1>16 DEF WaitOK

\* How far the loop is, and what it remembers: the error of the last failure, or
\* nothing after an even number of them.
RetryTypes ==
    /\ config \in Configs /\ ctxErr \in BOOLEAN
    /\ attempt \in Nat /\ attempt >= 1 /\ attempt <= MaxAttempts
    /\ doing \in {"loops", "calls", "waits", "returned"}
    /\ doing = "waits" => attempt < MaxAttempts

Failures == IF doing = "waits" THEN attempt ELSE attempt - 1
LastErrOK == doing # "returned" => lastErr = IF Failures % 2 = 1 THEN Failures ELSE 0

ReturnOK ==
    IF doing = "returned"
    THEN /\ result = {} <=> outcome = "ok"
         /\ \A e \in result : e \in Int /\ (e > 0 => e = attempt \/ (ContextError \in result /\ e = attempt - 1))
         /\ NoAttempt \in result => outcome = "again" /\ attempt = MaxAttempts /\ attempt % 2 = 0
         /\ ContextError \in result => ctxErr
    ELSE outcome # "ok"

CallOK == ctxErr /\ doing = "calls" => attempt = endedAt
WaitsAsAsked == doing = "waits" => WaitOK(wait)

RetryInv == RetryTypes /\ LastErrOK /\ ReturnOK /\ CallOK /\ WaitsAsAsked

LEMMA RetryInitially == RetryInit => RetryInv
<1> SUFFICES ASSUME RetryInit PROVE RetryInv
  OBVIOUS
<1>1. /\ config \in Configs /\ ctxErr = FALSE /\ attempt = 1 /\ doing = "loops" /\ lastErr = 0
      /\ outcome = "none"
  BY DEF RetryInit
<1>2. RetryTypes
  <2>1. ctxErr \in BOOLEAN
    BY <1>1
  <2>2. attempt \in Nat /\ attempt >= 1 /\ attempt <= MaxAttempts
    BY <1>1, RetryConstants
  <2> QED BY <1>1, <2>1, <2>2 DEF RetryTypes
<1>3. LastErrOK
  <2>1. Failures = 0
    BY <1>1 DEF Failures
  <2>2. lastErr = (IF Failures % 2 = 1 THEN Failures ELSE 0)
    BY <1>1, <2>1
  <2> QED BY <2>2 DEF LastErrOK
<1> QED BY <1>1, <1>2, <1>3 DEF RetryInv, ReturnOK, CallOK, WaitsAsAsked

\* After a failure.
LEMMA RememberedIs ==
    ASSUME RetryTypes, LastErrOK, doing = "calls"
    PROVE  /\ Remembered = IF attempt % 2 = 1 THEN attempt ELSE 0
           /\ lastErr = 0 \/ lastErr = attempt - 1
<1>1. attempt \in Nat /\ attempt >= 1
  BY DEF RetryTypes
<1>2. lastErr = IF (attempt - 1) % 2 = 1 THEN attempt - 1 ELSE 0
  BY DEF LastErrOK, Failures
<1>3. (attempt - 1) % 2 = 1 <=> ~(attempt % 2 = 1)
  BY <1>1
<1> QED BY <1>1, <1>2, <1>3 DEF Remembered

\* Do returns because the context ended.
LEMMA CutShort ==
    ASSUME RetryInv, doing \in {"loops", "waits"}, ctxErr, Finish(Known \cup {ContextError}),
           UNCHANGED <<config, ctxErr, attempt, lastErr, wait, outcome, endedAt>>
    PROVE  RetryInv'
<1>1. /\ doing' = "returned" /\ result' = Known \cup {ContextError}
      /\ config' = config /\ ctxErr' = ctxErr /\ attempt' = attempt /\ outcome' = outcome
  BY DEF Finish
<1>2. attempt \in Nat /\ attempt >= 1 /\ outcome # "ok" /\ ContextError = 0 /\ NoAttempt = -1
  BY DEF RetryInv, RetryTypes, ReturnOK, ContextError, NoAttempt
<1>3. lastErr = 0 \/ lastErr = attempt \/ lastErr = attempt - 1
  BY DEF RetryInv, LastErrOK, Failures
<1>4. Known \subseteq {attempt, attempt - 1}
  BY <1>3 DEF Known
<1>5. ReturnOK'
  BY <1>1, <1>2, <1>4 DEF ReturnOK
<1>6. RetryTypes'
  BY <1>1 DEF RetryInv, RetryTypes, MaxAttempts
<1> QED BY <1>1, <1>5, <1>6 DEF RetryInv, LastErrOK, CallOK, WaitsAsAsked

\* The context ends, a call begins or a wait is over.
LEMMA OnwardInv ==
    ASSUME RetryInv, EndContext \/ (Attempt /\ ~ctxErr) \/ WaitEnds
    PROVE  RetryInv'
<1>1. /\ RetryTypes /\ LastErrOK /\ ReturnOK /\ CallOK /\ WaitsAsAsked
      /\ attempt \in Nat /\ attempt >= 1 /\ MaxAttempts \in Nat
  BY RetryConstants DEF RetryInv, RetryTypes
<1>2. CASE EndContext
  BY <1>1, <1>2 DEF EndContext, RetryInv, RetryTypes, LastErrOK, ReturnOK, CallOK, WaitsAsAsked, WaitOK,
                    Failures, MaxAttempts, InitialBackoff
<1>3. CASE Attempt /\ ~ctxErr
  <2>1. doing = "loops" /\ doing' = "calls" /\ UNCHANGED <<config, ctxErr, attempt, lastErr, wait, outcome, endedAt, result>>
    BY <1>3 DEF Attempt
  <2> QED BY <1>1, <1>3, <2>1 DEF RetryInv, RetryTypes, LastErrOK, ReturnOK, CallOK, WaitsAsAsked, Failures, MaxAttempts
<1>4. CASE WaitEnds
  <2>1. /\ doing = "waits" /\ doing' = "loops" /\ attempt' = attempt + 1
        /\ UNCHANGED <<config, ctxErr, lastErr, wait, result, outcome, endedAt>>
    BY <1>4 DEF WaitEnds
  <2>2. attempt < MaxAttempts
    BY <1>1, <2>1 DEF RetryTypes
  <2> QED BY <1>1, <2>1, <2>2 DEF RetryInv, RetryTypes, LastErrOK, ReturnOK, CallOK, WaitsAsAsked, Failures, MaxAttempts
<1> QED BY <1>2, <1>3, <1>4

\* The call returns.
LEMMA CallInv ==
    ASSUME RetryInv, Succeed \/ FailForGood \/ Fail
    PROVE  RetryInv'
<1>1. /\ RetryTypes /\ LastErrOK /\ ReturnOK /\ CallOK
      /\ attempt \in Nat /\ attempt >= 1 /\ MaxAttempts \in Nat /\ attempt <= MaxAttempts
      /\ ContextError = 0 /\ NoAttempt = -1
  BY RetryConstants DEF RetryInv, RetryTypes, ContextError, NoAttempt
<1>2. doing = "calls" /\ UNCHANGED <<config, ctxErr, attempt, endedAt>>
  BY DEF Succeed, FailForGood, Fail
<1>3. MaxAttempts' = MaxAttempts
  BY <1>2 DEF MaxAttempts
<1>4. ASSUME NEW errors, Finish(errors), ReturnOK'
      PROVE  RetryInv'
  <2>1. doing' = "returned"
    BY <1>4 DEF Finish
  <2>2. RetryTypes'
    BY <1>1, <1>2, <1>3, <2>1 DEF RetryTypes
  <2> QED BY <1>4, <2>1, <2>2 DEF RetryInv, LastErrOK, CallOK, WaitsAsAsked
<1>5. CASE Succeed
  <2>1. ReturnOK'
    BY <1>5 DEF Succeed, Finish, ReturnOK
  <2> QED BY <1>4, <1>5, <2>1 DEF Succeed
<1>6. CASE FailForGood
  <2>1. doing' = "returned" /\ result' = {attempt} /\ outcome' = "never"
    BY <1>6 DEF FailForGood, Finish
  <2>2. ReturnOK'
    BY <1>1, <1>2, <2>1 DEF ReturnOK
  <2> QED BY <1>4, <1>6, <2>2 DEF FailForGood
<1>7. CASE Fail
  <2>1. outcome' = "again" /\ lastErr' = Remembered
    BY <1>7 DEF Fail
  <2>2. Remembered = IF attempt % 2 = 1 THEN attempt ELSE 0
    BY <1>1, <1>2, RememberedIs
  <2>3. CASE attempt >= MaxAttempts
    <3> DEFINE errors == IF Remembered = 0 THEN {NoAttempt} ELSE {Remembered}
    <3>1. Finish(errors)
      BY <1>7, <2>3 DEF Fail
    <3>2. doing' = "returned" /\ result' = errors
      BY <3>1 DEF Finish
    <3>3. attempt % 2 \in {0, 1}
      BY <1>1
    <3>4. \/ attempt % 2 = 0 /\ errors = {-1}
          \/ attempt % 2 = 1 /\ errors = {attempt}
      BY <1>1, <2>2, <3>3
    <3> HIDE DEF errors
    <3>5. CASE attempt % 2 = 0 /\ errors = {-1}
      <4>1. attempt = MaxAttempts
        BY <1>1, <2>3
      <4>2. result' = {-1} /\ -1 \in Int
        BY <3>2, <3>5
      <4>3. \A e \in result' : e = -1 /\ e \in Int /\ ~(e > 0) /\ e # 0
        BY <4>2
      <4>4. ContextError \notin result' /\ result' # {}
        BY <4>2 DEF ContextError
      <4>5. outcome' = "again" /\ attempt' = MaxAttempts' /\ attempt' % 2 = 0
        BY <1>2, <1>3, <2>1, <3>5, <4>1
      <4>6. doing' = "returned" /\ outcome' # "ok"
        BY <2>1, <3>2
      <4>7. \A e \in result' : e \in Int /\ ~(e > 0)
        BY <4>3
      <4>8. result' = {} <=> outcome' = "ok"
        BY <4>4, <4>6
      <4>9. \A e \in result' :
               e \in Int /\ (e > 0 => e = attempt' \/ (ContextError \in result' /\ e = attempt' - 1))
        BY <4>7, Zenon
      <4>10. ReturnOK'
        BY <4>4, <4>5, <4>6, <4>8, <4>9 DEF ReturnOK
      <4> QED BY <1>4, <3>1, <4>10
    <3>6. CASE attempt % 2 = 1 /\ errors = {attempt}
      <4>1. result' = {attempt}
        BY <3>2, <3>6
      <4>2. ContextError \notin result' /\ NoAttempt \notin result' /\ result' # {}
        BY <1>1, <4>1 DEF ContextError, NoAttempt
      <4> QED BY <1>1, <1>2, <1>4, <2>1, <3>1, <3>2, <4>1, <4>2 DEF ReturnOK
    <3> QED BY <3>1, <3>4, <3>5, <3>6, <1>4
  <2>4. CASE ~(attempt >= MaxAttempts)
    <3>1. doing' = "waits" /\ wait' \in NextBackoff(attempt) /\ UNCHANGED result
      BY <1>7, <2>4 DEF Fail
    <3>2. WaitOK(wait')
      BY <1>1, <3>1, NextBackoffOK DEF RetryTypes
    <3>3. RetryTypes'
      BY <1>1, <1>2, <1>3, <2>4, <3>1 DEF RetryTypes
    <3>4. LastErrOK'
      BY <1>2, <2>1, <2>2, <3>1 DEF LastErrOK, Failures
    <3>5. ReturnOK' /\ CallOK'
      BY <2>1, <3>1 DEF ReturnOK, CallOK
    <3>6. WaitsAsAsked'
      BY <1>2, <3>2 DEF WaitsAsAsked, WaitOK, InitialBackoff
    <3> QED BY <3>3, <3>4, <3>5, <3>6 DEF RetryInv
  <2> QED BY <2>3, <2>4
<1> QED BY <1>5, <1>6, <1>7

LEMMA RetryInductive == Spec => []RetryInv
<1>1. RetryInv /\ [RetryNext]_retryVars => RetryInv'
  <2> SUFFICES ASSUME RetryInv, [RetryNext]_retryVars PROVE RetryInv'
    OBVIOUS
  <2>1. CASE EndContext \/ (Attempt /\ ~ctxErr) \/ WaitEnds
    BY <2>1, OnwardInv
  <2>2. CASE Attempt /\ ctxErr
    <3>1. /\ doing = "loops" /\ Finish(Known \cup {ContextError})
          /\ UNCHANGED <<config, ctxErr, attempt, lastErr, wait, outcome, endedAt>>
      BY <2>2 DEF Attempt
    <3> QED BY <2>2, <3>1, CutShort
  <2>3. CASE WaitCut
    BY <2>3, CutShort DEF WaitCut
  <2>4. CASE Succeed \/ FailForGood \/ Fail
    BY <2>4, CallInv
  <2>5. CASE UNCHANGED retryVars
    BY <2>5 DEF retryVars, RetryInv, RetryTypes, LastErrOK, ReturnOK, CallOK, WaitsAsAsked, WaitOK,
                Failures, MaxAttempts, InitialBackoff
  <2> QED BY <2>1, <2>2, <2>3, <2>4, <2>5 DEF RetryNext
<1> QED BY <1>1, RetryInitially, RetryBehaves, PTL

\* Do returns nil after a success only, an error of a call that it returns is that of
\* the last one, no call begins after the context has ended, and no wait is outside
\* the bounds of the configuration, whatever it is (retry.go Do, nextBackoff).
THEOREM ResultIsHonest == Spec => []RetryHonest
<1>1. RetryInv => RetryHonest
  <2> SUFFICES ASSUME RetryInv PROVE RetryHonest
    OBVIOUS
  <2>1. doing = "returned" =>
          /\ result = {} <=> outcome = "ok"
          /\ \A e \in result : e > 0 => e = attempt \/ (ContextError \in result /\ e = attempt - 1)
          /\ NoAttempt \in result => outcome = "again" /\ attempt = MaxAttempts /\ attempt % 2 = 0
          /\ ContextError \in result => ctxErr
    BY DEF RetryInv, ReturnOK
  <2>2. ctxErr /\ doing = "calls" => attempt = endedAt
    BY DEF RetryInv, CallOK
  <2>3. doing = "waits" =>
          /\ config.ceiling > 0 => wait <= config.ceiling + config.ceiling \div 2
          /\ wait # 0 => wait >= InitialBackoff \/ config.ceiling \in 1..wait
          /\ wait = 0 => config.ceiling <= 0 \/ config.ceiling + config.ceiling \div 2 > Widest
    BY DEF RetryInv, WaitsAsAsked, WaitOK
  <2> QED BY <2>1, <2>2, <2>3 DEF RetryHonest
<1> QED BY <1>1, RetryInductive, PTL

-----------------------------------------------------------------------------
(* Metrics *)

UserLabels == {"nothing", "missed", "has", "observed", "snapshot", "quantiles", "reset", "forget"}
MetricRecord == [kind : {"counter", "histogram"}, total : Nat, sum : Nat, counts : [Places -> Nat], recent : Seq(Values)]
ReadRecord == [total : Nat, counts : [Places -> Nat], quantiles : Seq(Nat)]
UserRecord == [does : UserLabels, key : Keys \cup {<<>>}, of : Nat, ms : Nat]

MetricTypes ==
    /\ metric \in Seq(MetricRecord)
    /\ registry \in [DOMAIN registry -> 1..Len(metric)] /\ DOMAIN registry \subseteq Keys
    /\ user \in [Users -> UserRecord] /\ visiting \in [Users -> SUBSET DOMAIN registry]
    /\ DOMAIN report = Users
    /\ DOMAIN answer = Users /\ credit \in [Keys -> [Amounts -> Nat]]
    /\ lastN \in Nat /\ observed \in 0..MaxObserved /\ visits \in 0..MaxVisits

\* A metric for each key, of its kind, and no two keys with one.
RegistryOK ==
    /\ IsFiniteSet(DOMAIN registry) /\ Cardinality(DOMAIN registry) = Len(metric)
    /\ \A k, l \in DOMAIN registry : registry[k] = registry[l] => k = l
    /\ \A k \in DOMAIN registry : metric[registry[k]].kind = k[1]

\* What a goroutine has in its hands.
HandOK(u) ==
    /\ user[u].does = "missed" => user[u].key \in Keys
    /\ user[u].does = "has" => user[u].key \in DOMAIN registry /\ user[u].of = registry[user[u].key]
    /\ user[u].does \in {"observed", "forget"} =>
        user[u].of \in 1..Len(metric) /\ metric[user[u].of].kind = "histogram"
    /\ user[u].does = "observed" => user[u].ms \in Values
    /\ user[u].does = "quantiles" => user[u].key \in DOMAIN report[u] /\ user[u].of \in 1..Len(metric)

\* A metric holds what was added, in total and up to each bound.
Sums(h, added) ==
    /\ h.total = UpTo(added, Inf)
    /\ h.kind = "histogram" =>
        /\ h.sum = UpTo([ms \in Amounts |-> ms * added[ms]], Inf)
        /\ \A b \in Places : UpTo(h.counts, b) = UpTo(added, b)

CreditOK(k) ==
    IF k \in DOMAIN registry THEN Sums(metric[registry[k]], credit[k]) ELSE credit[k] = NoCredit

\* The recent samples are those counted but for the ones on their way, up to the
\* capacity; between the halves of a reset nothing has been counted.
RecentOK(i) ==
    /\ Len(metric[i].recent) <= RecentCap
    /\ metric[i].kind = "histogram" /\ i \notin raced =>
        IF Between("forget", i) = {}
        THEN LET due == metric[i].total - Cardinality(Between("observed", i)) IN
             due >= 0 /\ Len(metric[i].recent) = IF due < RecentCap THEN due ELSE RecentCap
        ELSE metric[i].total = 0 /\ Between("observed", i) = {}

Ordered(q) == q[1] <= q[2] /\ q[2] <= q[3]

\* What was read of a histogram is of one moment, and its quantiles follow.
ReadOK(u) ==
    /\ report[u] \in [DOMAIN report[u] -> ReadRecord] /\ DOMAIN report[u] \subseteq DOMAIN registry
    /\ \A k \in DOMAIN report[u] : k[1] = "histogram" =>
            /\ UpTo(report[u][k].counts, Inf) = report[u][k].total
            /\ (user[u].does = "quantiles" /\ user[u].key = k) \/ Ordered(report[u][k].quantiles)

AnswerOK(u) ==
    \A k \in DOMAIN answer[u] :
        LET h == answer[u][k] IN
        k[1] = "histogram" =>
            /\ h.counts[Inf] = h.total /\ \A b, c \in Places : b <= c => h.counts[b] <= h.counts[c]
            /\ Ordered(h.quantiles)

MetricsInv ==
    /\ MetricTypes /\ RegistryOK
    /\ \A u \in Users : HandOK(u) /\ ReadOK(u) /\ AnswerOK(u)
    /\ \A k \in Keys : CreditOK(k)
    /\ \A i \in 1..Len(metric) : RecentOK(i)

-----------------------------------------------------------------------------
(* Sums, least elements and order statistics *)

LEMMA MinIs ==
    ASSUME NEW T, T \subseteq Nat, T # {}
    PROVE  Min(T) \in T /\ Min(T) \in Nat /\ \A y \in T : Min(T) <= y
<1>1. PICK t \in T : \A y \in T : t <= y
  BY LeastNat
<1>2. Min(T) \in T /\ \A y \in T : Min(T) <= y
  BY <1>1 DEF Min
<1> QED BY <1>2

LEMMA InfIs ==
    /\ Inf \in Nat /\ Inf \in Places /\ \A b \in Places : b \in Nat /\ b <= Inf
    /\ \A v \in Amounts : v \in Nat /\ v < Inf
    /\ RecentCap \in Nat /\ RecentCap > 0
<1>1. Inf \in Nat /\ \A x \in Bounds \cup Values \cup {1} : x < Inf
  BY MetricsConstantsOK
<1>2. Values \subseteq Nat /\ Bounds \subseteq Int /\ RecentCap \in Nat \ {0}
  BY MetricsConstantsOK
<1>3. \A b \in Places : b \in Nat /\ b <= Inf
  BY <1>1, <1>2 DEF Places
<1> QED BY <1>1, <1>2, <1>3 DEF Places, Amounts

LEMMA PlacesFinite == IsFiniteSet(Places) /\ IsFiniteSet(Amounts)
<1>1. Places \subseteq 0..Inf /\ Amounts \subseteq 0..Inf
  BY InfIs
<1>2. IsFiniteSet(0..Inf)
  BY InfIs, FS_Interval
<1> QED BY <1>1, <1>2, FS_Subset

LEMMA UpToIs == \A f, b : UpTo(f, b) = Total(f, {x \in DOMAIN f : x <= b})
BY DEF UpTo, Total

LEMMA UpToNat ==
    ASSUME NEW D, IsFiniteSet(D), NEW f \in [D -> Nat], NEW b
    PROVE  UpTo(f, b) \in Nat
<1> DEFINE S == {x \in D : x <= b}
<1>1. IsFiniteSet(S) /\ \A x \in S : f[x] \in Nat
  BY FS_Subset
<1> HIDE DEF S
<1>2. Total(f, S) \in Nat
  BY <1>1, TotalSplit
<1> QED BY <1>2, UpToIs DEF S

\* What is added at one place e counts from e on.
ChangedAt(e, f, g, D) ==
    e \in D /\ f \in [D -> Nat] /\ g \in [D -> Nat] /\ \A x \in D \ {e} : g[x] = f[x]

LEMMA UpToAdd ==
    ASSUME NEW D, IsFiniteSet(D), NEW f, NEW g, NEW e, ChangedAt(e, f, g, D), NEW b
    PROVE  /\ UpTo(f, b) \in Nat /\ UpTo(g, b) \in Nat
           /\ e <= b => UpTo(g, b) + f[e] = UpTo(f, b) + g[e]
           /\ ~(e <= b) => UpTo(g, b) = UpTo(f, b)
<1> DEFINE S == {x \in D : x <= b}
           R == S \ {e}
<1>0. e \in D /\ f \in [D -> Nat] /\ g \in [D -> Nat] /\ \A x \in D \ {e} : g[x] = f[x]
  BY DEF ChangedAt
<1>1. IsFiniteSet(S) /\ IsFiniteSet(R) /\ \A x \in S : f[x] \in Nat /\ g[x] \in Nat
  BY <1>0, FS_Subset
<1>2. \A x \in R : f[x] = g[x]
  BY <1>0
<1>3. e \in S <=> e <= b
  BY <1>0
<1>4. e \notin S => R = S
  OBVIOUS
<1>5. UpTo(f, b) = Total(f, S) /\ UpTo(g, b) = Total(g, S)
  BY <1>0, UpToIs
<1>6. f[e] \in Nat /\ g[e] \in Nat
  BY <1>0
<1> HIDE DEF S, R
<1>7. Total(f, R) = Total(g, R)
  BY <1>1, <1>2, TotalSame
<1>8. Total(f, S) \in Nat /\ Total(g, S) \in Nat
  BY <1>1, TotalSplit
<1>9. CASE e \in S
  <2>1. Total(f, S) = f[e] + Total(f, R)
    BY <1>1, <1>9, TotalSplit DEF R
  <2>2. Total(g, S) = g[e] + Total(g, R)
    BY <1>1, <1>9, TotalSplit DEF R
  <2>3. R \subseteq S
    BY DEF R
  <2>4. Total(f, R) \in Nat
    BY <1>1, <2>3, TotalSplit
  <2> QED BY <1>3, <1>5, <1>6, <1>7, <1>9, <2>1, <2>2, <2>4
<1>10. CASE e \notin S
  BY <1>3, <1>4, <1>5, <1>7, <1>8, <1>10
<1> QED BY <1>9, <1>10

LEMMA TotalZero ==
    ASSUME NEW f, NEW S, IsFiniteSet(S), \A x \in S : f[x] = 0
    PROVE  Total(f, S) = 0
<1> DEFINE Bad == {m \in Nat : \E s \in SUBSET S : Cardinality(s) = m /\ Total(f, s) # 0}
<1>1. \A s \in SUBSET S : IsFiniteSet(s) /\ Cardinality(s) \in Nat
  BY FS_Subset, FS_CardinalityType
<1>2. SUFFICES ASSUME Bad # {} PROVE FALSE
  BY <1>1
<1>3. PICK m \in Bad : \A j \in Bad : m <= j
  BY <1>2, LeastNat
<1>4. PICK s \in SUBSET S : Cardinality(s) = m /\ Total(f, s) # 0
  BY <1>3
<1>5. s # {}
  BY <1>1, <1>4, TotalStep
<1> DEFINE r == s \ {Some(s)}
<1>6. Some(s) \in s
  BY <1>5, SomeIs
<1>7. Total(f, s) = f[Some(s)] + Total(f, r)
  BY <1>1, <1>5, TotalStep
<1>8. r \in SUBSET S /\ Cardinality(r) \in Nat /\ Cardinality(r) = m - 1
  BY <1>1, <1>4, <1>6, OneLess
<1> HIDE DEF r
<1>9. Cardinality(r) \notin Bad
  BY <1>3, <1>8
<1>10. Total(f, r) = 0
  BY <1>8, <1>9
<1> HIDE DEF Bad
<1> QED BY <1>4, <1>6, <1>7, <1>10

LEMMA UpToZero ==
    ASSUME NEW D, IsFiniteSet(D), NEW f, DOMAIN f = D, \A x \in D : f[x] = 0, NEW b
    PROVE  UpTo(f, b) = 0
<1> DEFINE S == {x \in D : x <= b}
<1>1. IsFiniteSet(S) /\ \A x \in S : f[x] = 0
  BY FS_Subset
<1> HIDE DEF S
<1>2. Total(f, S) = 0
  BY <1>1, TotalZero
<1> QED BY <1>2, UpToIs DEF S

LEMMA UpToGrows ==
    ASSUME NEW D, IsFiniteSet(D), D \subseteq Nat, NEW f \in [D -> Nat], NEW b \in Nat, NEW c \in Nat, b <= c
    PROVE  UpTo(f, b) <= UpTo(f, c)
<1> DEFINE A == {x \in D : x <= b}
           B == {x \in D : b < x /\ x <= c}
           S == {x \in D : x <= c}
<1>1. IsFiniteSet(A) /\ IsFiniteSet(B) /\ \A x \in A \cup B : f[x] \in Nat
  BY FS_Subset
<1>2. A \cap B = {} /\ A \cup B = S
  <2>1. \A x \in D : x \in Nat /\ (b < x <=> ~(x <= b)) /\ (x <= b => x <= c)
    OBVIOUS
  <2> QED BY <2>1
<1>3. UpTo(f, b) = Total(f, A) /\ UpTo(f, c) = Total(f, S)
  BY UpToIs
<1> HIDE DEF A, B, S
<1>4. Total(f, A \cup B) = Total(f, A) + Total(f, B)
  BY <1>1, <1>2, TotalUnion
<1>5. Total(f, A) \in Nat /\ Total(f, B) \in Nat
  BY <1>1, TotalSplit
<1> QED BY <1>2, <1>3, <1>4, <1>5

\* A sequence of numbers has a number that none of them exceeds.
LEMMA TopExists ==
    ASSUME NEW s \in Seq(Nat)
    PROVE  \E b \in Nat : \A i \in 1..Len(s) : s[i] <= b
<1> DEFINE Topped(m) == \E b \in Nat : \A i \in 1..m : s[i] <= b
           Bad == {m \in Nat : m <= Len(s) /\ ~Topped(m)}
<1>1. Len(s) \in Nat /\ \A i \in 1..Len(s) : s[i] \in Nat
  OBVIOUS
<1>2. SUFFICES ASSUME ~Topped(Len(s)) PROVE FALSE
  OBVIOUS
<1> HIDE DEF Topped
<1>3. Len(s) \in Bad /\ Bad \subseteq Nat
  BY <1>1, <1>2
<1>4. PICK m \in Bad : \A j \in Bad : m <= j
  BY <1>3, LeastNat
<1>5. m \in Nat /\ m <= Len(s) /\ ~Topped(m)
  BY <1>4
<1>6. m # 0
  <2>1. \A i \in 1..0 : s[i] <= 0
    OBVIOUS
  <2> QED BY <1>5, <2>1 DEF Topped
<1>7. m - 1 \in Nat /\ m - 1 <= Len(s) /\ m \in 1..Len(s) /\ ~(m <= m - 1)
  BY <1>1, <1>5, <1>6
<1>8. Topped(m - 1)
  <2>1. m - 1 \notin Bad
    BY <1>4, <1>7
  <2> QED BY <1>7, <2>1
<1>9. PICK b \in Nat : \A i \in 1..(m - 1) : s[i] <= b
  BY <1>8 DEF Topped
<1>10. s[m] \in Nat
  BY <1>1, <1>7
<1>11. PICK c \in Nat : b <= c /\ s[m] <= c
  <2>1. CASE s[m] <= b
    BY <1>10, <2>1
  <2>2. CASE ~(s[m] <= b)
    BY <1>10, <2>2
  <2> QED BY <2>1, <2>2
<1>12. ASSUME NEW i \in 1..m PROVE s[i] <= c
  <2>1. CASE i = m
    BY <1>11, <2>1
  <2>2. CASE i # m
    <3>1. i \in 1..(m - 1) /\ s[i] \in Nat
      BY <1>1, <1>5, <1>7, <2>2
    <3>2. s[i] <= b /\ b <= c
      BY <1>9, <1>11, <3>1
    <3> HIDE DEF Bad
    <3> QED BY <3>1, <3>2
  <2> QED BY <2>1, <2>2
<1> QED BY <1>5, <1>12 DEF Topped

\* The n-th in order of a sequence is one of its elements, and grows with n.
LEMMA NthIs ==
    ASSUME NEW s \in Seq(Nat), NEW k \in 1..Len(s)
    PROVE  /\ Nth(s, k) \in Nat
           /\ \A l \in 1..k : Nth(s, l) <= Nth(s, k)
<1> DEFINE Reach(m) == {v \in Range(s) : NotAbove(s, v) >= m}
<1>1. Len(s) \in Nat /\ DOMAIN s = 1..Len(s) /\ \A i \in 1..Len(s) : s[i] \in Nat
  OBVIOUS
<1>2. Range(s) \subseteq Nat
  BY <1>1 DEF Range
<1>3. \A v : NotAbove(s, v) \in Nat
  <2> TAKE v
  <2> DEFINE S == {i \in 1..Len(s) : s[i] <= v}
  <2>1. S \subseteq 1..Len(s) /\ IsFiniteSet(1..Len(s))
    BY <1>1, FS_Interval
  <2>2. NotAbove(s, v) = Cardinality(S)
    BY <1>1 DEF NotAbove
  <2> HIDE DEF S
  <2>3. IsFiniteSet(S)
    BY <2>1, FS_Subset
  <2> QED BY <2>2, <2>3, FS_CardinalityType
<1>4. \E top \in Range(s) : \A i \in 1..Len(s) : s[i] <= top
  <2> DEFINE Above == {b \in Nat : \A i \in 1..Len(s) : s[i] <= b}
  <2>1. SUFFICES ASSUME \A t \in Range(s) : \E i \in 1..Len(s) : ~(s[i] <= t)
                 PROVE  FALSE
    OBVIOUS
  <2>2. Above # {}
    BY TopExists
  <2>3. PICK b \in Above : \A c \in Above : b <= c
    BY <2>2, LeastNat
  <2>4. b \notin Range(s) /\ b \in Nat
    BY <2>1, <2>3
  <2>5. \A i \in 1..Len(s) : s[i] \in Nat /\ s[i] <= b /\ s[i] # b
    BY <1>1, <2>3, <2>4 DEF Range
  <2>6. s[1] \in Nat /\ s[1] < b /\ b - 1 \in Nat
    BY <1>1, <2>4, <2>5
  <2>7. b - 1 \in Above
    BY <2>5, <2>6
  <2> QED BY <2>3, <2>4, <2>7
<1>5. \A m \in 1..Len(s) : Reach(m) # {}
  <2>1. PICK top \in Range(s) : \A i \in 1..Len(s) : s[i] <= top
    BY <1>4
  <2>2. {i \in 1..Len(s) : s[i] <= top} = 1..Len(s)
    BY <2>1
  <2>3. NotAbove(s, top) = Cardinality(1..Len(s))
    BY <1>1, <2>2 DEF NotAbove
  <2>4. NotAbove(s, top) = Len(s)
    <3> DEFINE size == Len(s)
    <3>1. size \in Nat
      BY <1>1
    <3> HIDE DEF size
    <3>2. Cardinality(1..size) = IF 1 > size THEN 0 ELSE size - 1 + 1
      BY <3>1, FS_Interval
    <3>3. Cardinality(1..size) = size
      BY <3>1, <3>2
    <3> QED BY <2>3, <3>3 DEF size
  <2>5. ASSUME NEW m \in 1..Len(s) PROVE top \in Reach(m)
    <3>1. Len(s) >= m
      BY <1>1
    <3> QED BY <2>1, <2>4, <3>1
  <2> HIDE DEF Reach
  <2> QED BY <2>5
<1>6. \A m \in 1..Len(s) : Nth(s, m) \in Reach(m) /\ Nth(s, m) \in Nat /\ \A y \in Reach(m) : Nth(s, m) <= y
  <2> TAKE m \in 1..Len(s)
  <2>1. Reach(m) \subseteq Nat /\ Reach(m) # {} /\ Nth(s, m) = Min(Reach(m))
    BY <1>2, <1>5 DEF Nth
  <2> HIDE DEF Reach
  <2> QED BY <2>1, MinIs
<1>7. ASSUME NEW l \in 1..k PROVE Nth(s, l) <= Nth(s, k)
  <2>1. l \in 1..Len(s) /\ Nth(s, k) \in Reach(k)
    BY <1>1, <1>6
  <2>2. Nth(s, k) \in Reach(l)
    BY <1>3, <2>1
  <2> QED BY <1>6, <2>1, <2>2
<1> QED BY <1>6, <1>7

LEMMA QuantilesOrdered ==
    ASSUME NEW s \in Seq(Nat)
    PROVE  Quantiles(s) \in Seq(Nat) /\ Ordered(Quantiles(s))
<1>1. CASE s = <<>>
  <2>1. Quantiles(s) = <<0, 0, 0>>
    BY <1>1 DEF Quantiles
  <2> QED BY <2>1 DEF Ordered
<1>2. CASE s # <<>>
  <2> DEFINE last == Len(s) - 1
             Rank(p) == (2 * p * last + 100) \div 200
  <2>1. last \in Nat /\ Len(s) = last + 1
    BY <1>2
  <2> HIDE DEF last
  <2>2. Rank(50) \in 0..Rank(90) /\ Rank(90) \in 0..Rank(99) /\ Rank(99) \in 0..last
    BY <2>1
  <2> HIDE DEF Rank
  <2>3. /\ Rank(50) + 1 \in 1..(Rank(90) + 1) /\ Rank(90) + 1 \in 1..(Rank(99) + 1)
        /\ Rank(90) + 1 \in 1..Len(s) /\ Rank(99) + 1 \in 1..Len(s) /\ Rank(50) + 1 \in 1..Len(s)
    <3> DEFINE a == Rank(50)
               b == Rank(90)
               c == Rank(99)
    <3>1. a \in 0..b /\ b \in 0..c /\ c \in 0..last
      BY <2>2
    <3> HIDE DEF a, b, c
    <3>2. c \in Nat
      BY <2>1, <3>1
    <3>3. a \in Nat /\ b \in Nat /\ a <= b /\ b <= c /\ c <= last
      BY <2>1, <3>1, <3>2
    <3>4. /\ a + 1 \in 1..(b + 1) /\ b + 1 \in 1..(c + 1)
          /\ b + 1 \in 1..Len(s) /\ c + 1 \in 1..Len(s) /\ a + 1 \in 1..Len(s)
      BY <2>1, <3>2, <3>3
    <3> QED BY <3>4 DEF a, b, c
  <2>4. Quantiles(s) = <<Nth(s, Rank(50) + 1), Nth(s, Rank(90) + 1), Nth(s, Rank(99) + 1)>>
    BY <1>2 DEF Quantiles, Quantile, Rank, last
  <2>5. Nth(s, Rank(50) + 1) <= Nth(s, Rank(90) + 1) /\ Nth(s, Rank(90) + 1) <= Nth(s, Rank(99) + 1)
    BY <2>3, NthIs
  <2>6. Nth(s, Rank(50) + 1) \in Nat /\ Nth(s, Rank(90) + 1) \in Nat /\ Nth(s, Rank(99) + 1) \in Nat
    BY <2>3, NthIs
  <2> QED BY <2>4, <2>5, <2>6 DEF Ordered
<1> QED BY <1>1, <1>2

-----------------------------------------------------------------------------
(* Metrics: what actions have in common *)

LEMMA MetricAt ==
    ASSUME MetricTypes, NEW i \in 1..Len(metric)
    PROVE  metric[i] \in MetricRecord
BY DEF MetricTypes

\* A step that changes one metric, and of it not the kind.
LEMMA OneMetric ==
    ASSUME MetricTypes, NEW i \in 1..Len(metric), NEW h \in MetricRecord,
           metric' = [metric EXCEPT ![i] = h]
    PROVE  /\ metric' \in Seq(MetricRecord) /\ Len(metric') = Len(metric) /\ metric'[i] = h
           /\ \A j \in (1..Len(metric)) \ {i} : metric'[j] = metric[j]
<1>1. metric \in Seq(MetricRecord) /\ Len(metric) \in Nat /\ DOMAIN metric = 1..Len(metric)
  BY DEF MetricTypes
<1>2. metric' = [j \in 1..Len(metric) |-> IF j = i THEN h ELSE metric[j]]
  BY <1>1
<1>3. \A j \in 1..Len(metric) : metric'[j] \in MetricRecord
  BY <1>1, <1>2
<1>4. metric' \in Seq(MetricRecord) /\ Len(metric') = Len(metric)
  BY <1>1, <1>2, <1>3
<1> QED BY <1>2, <1>4

LEMMA NewMetricIs ==
    ASSUME NEW kind \in {"counter", "histogram"}
    PROVE  /\ NewMetric(kind) \in MetricRecord /\ NewMetric(kind).kind = kind
           /\ NewMetric(kind).total = 0 /\ NewMetric(kind).recent = <<>>
           /\ Sums(NewMetric(kind), NoCredit)
<1> DEFINE h == NewMetric(kind)
<1>1. /\ h \in MetricRecord /\ h.kind = kind /\ h.total = 0 /\ h.sum = 0 /\ h.recent = <<>>
      /\ h.counts = [b \in Places |-> 0]
  BY DEF NewMetric, MetricRecord
<1> HIDE DEF h
<1>2. \A b : UpTo(NoCredit, b) = 0
  BY PlacesFinite, UpToZero DEF NoCredit
<1>3. \A b : UpTo(h.counts, b) = 0
  BY <1>1, PlacesFinite, UpToZero
<1>4. UpTo([ms \in Amounts |-> ms * NoCredit[ms]], Inf) = 0
  <2> DEFINE g == [ms \in Amounts |-> ms * NoCredit[ms]]
  <2>1. \A ms \in Amounts : g[ms] = 0
    BY InfIs DEF NoCredit
  <2> HIDE DEF g
  <2>2. DOMAIN g = Amounts
    BY DEF g
  <2>3. UpTo(g, Inf) = 0
    BY <2>1, <2>2, PlacesFinite, UpToZero
  <2> QED BY <2>3 DEF g
<1>5. Sums(h, NoCredit)
  BY <1>1, <1>2, <1>3, <1>4 DEF Sums
<1> QED BY <1>1, <1>5 DEF h

LEMMA BucketIs ==
    ASSUME NEW ms \in Amounts
    PROVE  /\ BucketOf(ms) \in Places /\ ms <= BucketOf(ms)
           /\ \A b \in Places : ms <= b => BucketOf(ms) <= b
<1> DEFINE T == {b \in Places : ms <= b}
<1>1. T \subseteq Nat /\ T # {}
  <2>1. Inf \in T
    <3>1. ms \in Nat /\ ms < Inf /\ Inf \in Places /\ Inf \in Nat
      BY InfIs
    <3> QED BY <3>1
  <2> QED BY <2>1, InfIs
<1>2. BucketOf(ms) = Min(T)
  BY DEF BucketOf
<1> HIDE DEF T
<1>3. Min(T) \in T /\ \A y \in T : Min(T) <= y
  BY <1>1, MinIs
<1> QED BY <1>2, <1>3 DEF T

\* An amount counted in the metric and in its credit.
LEMMA SumsAdd ==
    ASSUME NEW h \in MetricRecord, NEW g \in MetricRecord, NEW added \in [Amounts -> Nat], NEW ms \in Amounts,
           Sums(h, added), g.kind = h.kind, g.total = h.total + 1,
           h.kind = "histogram" =>
            g.sum = h.sum + ms /\ g.counts = [h.counts EXCEPT ![BucketOf(ms)] = @ + 1]
    PROVE  Sums(g, [added EXCEPT ![ms] = @ + 1])
<1> DEFINE now1 == [added EXCEPT ![ms] = @ + 1]
<1>1. now1 \in [Amounts -> Nat] /\ now1[ms] = added[ms] + 1 /\ \A x \in Amounts \ {ms} : now1[x] = added[x]
  OBVIOUS
<1>2. added[ms] \in Nat /\ ms \in Nat /\ ms <= Inf
  BY InfIs
<1> HIDE DEF now1
<1>3. \A b : UpTo(now1, b) = UpTo(added, b) + IF ms <= b THEN 1 ELSE 0
  <2> TAKE b
  <2>1. /\ UpTo(now1, b) \in Nat /\ UpTo(added, b) \in Nat
        /\ ms <= b => UpTo(now1, b) + added[ms] = UpTo(added, b) + now1[ms]
        /\ ~(ms <= b) => UpTo(now1, b) = UpTo(added, b)
    <3>1. ChangedAt(ms, added, now1, Amounts)
      BY <1>1 DEF ChangedAt
    <3> QED BY <3>1, PlacesFinite, UpToAdd
  <2> QED BY <1>1, <1>2, <2>1
<1>4. g.total = UpTo(now1, Inf)
  BY <1>2, <1>3 DEF Sums
<1>5. ASSUME h.kind = "histogram"
      PROVE  /\ g.sum = UpTo([v \in Amounts |-> v * now1[v]], Inf)
             /\ \A b \in Places : UpTo(g.counts, b) = UpTo(now1, b)
  <2> DEFINE p == [v \in Amounts |-> v * added[v]]
             q == [v \in Amounts |-> v * now1[v]]
  <2>1. p \in [Amounts -> Nat] /\ q \in [Amounts -> Nat]
    BY <1>1, InfIs
  <2>2. q[ms] = p[ms] + ms
    <3>1. ms * (added[ms] + 1) = ms * added[ms] + ms
      BY <1>2
    <3> QED BY <1>1, <3>1
  <2>3. \A x \in Amounts \ {ms} : q[x] = p[x]
    BY <1>1
  <2>4. h.sum = UpTo(p, Inf)
    BY <1>5 DEF Sums
  <2> HIDE DEF p, q
  <2>5. UpTo(q, Inf) = UpTo(p, Inf) + ms
    <3>1. ms \in Nat /\ IsFiniteSet(Amounts)
      BY <1>2, PlacesFinite
    <3>2. UpTo(q, Inf) + p[ms] = UpTo(p, Inf) + q[ms] /\ UpTo(q, Inf) \in Nat /\ UpTo(p, Inf) \in Nat
      <4>1. ChangedAt(ms, p, q, Amounts)
        BY <2>1, <2>3 DEF ChangedAt
      <4> QED BY <1>2, <3>1, <4>1, UpToAdd
    <3>3. p[ms] \in Nat
      BY <2>1
    <3> QED BY <2>2, <3>1, <3>2, <3>3
  <2>6. g.sum = UpTo(q, Inf)
    BY <1>5, <2>4, <2>5
  <2>7. /\ BucketOf(ms) \in Places /\ ms <= BucketOf(ms)
        /\ \A b \in Places : ms <= b => BucketOf(ms) <= b
    BY BucketIs
  <2> DEFINE c == BucketOf(ms)
  <2>8. h.counts \in [Places -> Nat] /\ g.counts \in [Places -> Nat]
    BY DEF MetricRecord
  <2>9. g.counts[c] = h.counts[c] + 1 /\ \A x \in Places \ {c} : g.counts[x] = h.counts[x]
    BY <1>5, <2>7, <2>8
  <2>10. c \in Places /\ c \in Nat
    BY <2>7, InfIs
  <2> HIDE DEF c
  <2>11. ASSUME NEW b \in Places PROVE UpTo(g.counts, b) = UpTo(now1, b)
    <3>1. UpTo(g.counts, b) = UpTo(h.counts, b) + IF c <= b THEN 1 ELSE 0
      <4> DEFINE hc == h.counts
                 gc == g.counts
      <4>1. hc \in [Places -> Nat] /\ gc \in [Places -> Nat] /\ gc[c] = hc[c] + 1 /\ hc[c] \in Nat
        BY <2>8, <2>9, <2>10
      <4>2. \A x \in Places \ {c} : gc[x] = hc[x]
        BY <2>9
      <4> HIDE DEF hc, gc
      <4>3. /\ UpTo(gc, b) \in Nat /\ UpTo(hc, b) \in Nat
            /\ c <= b => UpTo(gc, b) + hc[c] = UpTo(hc, b) + gc[c]
            /\ ~(c <= b) => UpTo(gc, b) = UpTo(hc, b)
        <5>1. ChangedAt(c, hc, gc, Places)
          BY <2>10, <4>1, <4>2 DEF ChangedAt
        <5> QED BY <5>1, PlacesFinite, UpToAdd
      <4>4. UpTo(gc, b) = UpTo(hc, b) + IF c <= b THEN 1 ELSE 0
        BY <4>1, <4>3
      <4> QED BY <4>4 DEF hc, gc
    <3>2. c <= b <=> ms <= b
      <4>1. b \in Nat /\ ms <= c
        BY <2>7, InfIs DEF c
      <4>2. ms <= b => c <= b
        BY <2>7 DEF c
      <4> QED BY <1>2, <2>10, <4>1, <4>2
    <3>3. UpTo(h.counts, b) = UpTo(added, b)
      BY <1>5 DEF Sums
    <3>4. UpTo(now1, b) = UpTo(added, b) + IF ms <= b THEN 1 ELSE 0
      BY <1>3
    <3> QED BY <3>1, <3>2, <3>3, <3>4
  <2> QED BY <2>6, <2>11 DEF q
<1>6. Sums(g, now1)
  BY <1>4, <1>5 DEF Sums
<1> QED BY <1>6 DEF now1

\* Who is between two steps, after one of u.
LEMMA BetweenIs ==
    ASSUME MetricTypes, NEW u \in Users, NEW f \in UserRecord, user' = [user EXCEPT ![u] = f]
    PROVE  /\ \A does, i : IsFiniteSet(Between(does, i)) /\ Cardinality(Between(does, i)) \in Nat
           /\ \A does, i : Between(does, i)' =
                (Between(does, i) \ {u}) \cup (IF f.does = does /\ f.of = i THEN {u} ELSE {})
<1>1. user \in [Users -> UserRecord]
  BY DEF MetricTypes
<1>2. user'[u] = f /\ \A v \in Users \ {u} : user'[v] = user[v]
  BY <1>1
<1>3. \A does, i : IsFiniteSet(Between(does, i))
  BY MetricsConstantsOK, FS_Subset DEF Between
<1>4. \A does, i : Cardinality(Between(does, i)) \in Nat
  BY <1>3, FS_CardinalityType
<1>5. ASSUME NEW does, NEW i
      PROVE  Between(does, i)' = (Between(does, i) \ {u}) \cup (IF f.does = does /\ f.of = i THEN {u} ELSE {})
  BY <1>2 DEF Between
<1> QED BY <1>3, <1>4, <1>5

Calm == {"nothing", "missed", "has", "snapshot", "quantiles", "reset"}

\* A step that leaves the metrics as they are.
LEMMA ReadingInv ==
    ASSUME MetricsInv, NEW u \in Users, NEW f \in UserRecord, user' = [user EXCEPT ![u] = f],
           user[u].does \in Calm, f.does \in Calm,
           UNCHANGED <<metric, registry, credit, raced>>,
           visiting' \in [Users -> SUBSET DOMAIN registry],
           DOMAIN report' = Users, DOMAIN answer' = Users,
           lastN' \in Nat, observed' \in 0..MaxObserved, visits' \in 0..MaxVisits,
           HandOK(u)', ReadOK(u)', AnswerOK(u)',
           \A v \in Users \ {u} : report'[v] = report[v] /\ answer'[v] = answer[v]
    PROVE  MetricsInv'
<1>1. MetricTypes /\ user'[u] = f /\ \A v \in Users \ {u} : user'[v] = user[v]
  BY DEF MetricsInv, MetricTypes
<1>2. MetricTypes'
  BY DEF MetricsInv, MetricTypes
<1>3. RegistryOK' /\ \A k \in Keys : CreditOK(k)'
  BY DEF MetricsInv, RegistryOK, CreditOK, Sums
<1>4. ASSUME NEW v \in Users PROVE HandOK(v)' /\ ReadOK(v)' /\ AnswerOK(v)'
  <2>1. CASE v = u
    BY <2>1
  <2>2. CASE v # u
    <3>1. user'[v] = user[v] /\ report'[v] = report[v] /\ answer'[v] = answer[v]
      BY <1>1, <2>2
    <3>2. HandOK(v) /\ ReadOK(v) /\ AnswerOK(v)
      BY DEF MetricsInv
    <3> QED BY <3>1, <3>2 DEF HandOK, ReadOK, AnswerOK
  <2> QED BY <2>1, <2>2
<1>5. ASSUME NEW i \in 1..Len(metric) PROVE RecentOK(i)'
  <2>1. \A does \in {"observed", "forget"} : Between(does, i)' = Between(does, i)
    BY <1>1 DEF Between, Calm
  <2>2. RecentOK(i)
    BY DEF MetricsInv
  <2> QED BY <2>1, <2>2 DEF RecentOK
<1> QED BY <1>2, <1>3, <1>4, <1>5 DEF MetricsInv

\* A step that changes one metric.
LEMMA WritingInv ==
    ASSUME MetricsInv, NEW u \in Users, NEW f \in UserRecord, user' = [user EXCEPT ![u] = f],
           user[u].does # "quantiles",
           NEW i \in 1..Len(metric), NEW h \in MetricRecord, h.kind = metric[i].kind,
           metric' = [metric EXCEPT ![i] = h], raced' \ {i} = raced \ {i},
           \A does \in {"observed", "forget"}, j \in 1..Len(metric) : j # i => Between(does, j)' = Between(does, j),
           UNCHANGED <<registry, report, lastN, answer>>,
           visiting' \in [Users -> SUBSET DOMAIN registry],
           observed' \in 0..MaxObserved, visits' \in 0..MaxVisits,
           credit' \in [Keys -> [Amounts -> Nat]],
           HandOK(u)', RecentOK(i)', \A k \in Keys : CreditOK(k)'
    PROVE  MetricsInv'
<1>1. MetricTypes /\ user'[u] = f /\ \A v \in Users \ {u} : user'[v] = user[v]
  BY DEF MetricsInv, MetricTypes
<1>2. /\ metric' \in Seq(MetricRecord) /\ Len(metric') = Len(metric) /\ metric'[i] = h
      /\ \A j \in (1..Len(metric)) \ {i} : metric'[j] = metric[j]
  BY <1>1, OneMetric
<1>3. \A j \in 1..Len(metric) : metric'[j].kind = metric[j].kind
  BY <1>2
<1>4. MetricTypes'
  BY <1>1, <1>2 DEF MetricTypes
<1>5. RegistryOK'
  <2>1. \A k \in DOMAIN registry : registry[k] \in 1..Len(metric)
    BY <1>1 DEF MetricTypes
  <2>2. RegistryOK
    BY DEF MetricsInv
  <2> QED BY <1>2, <1>3, <2>1, <2>2 DEF RegistryOK
<1>6. ASSUME NEW v \in Users PROVE HandOK(v)' /\ ReadOK(v)' /\ AnswerOK(v)'
  <2>1. HandOK(v) /\ ReadOK(v) /\ AnswerOK(v)
    BY DEF MetricsInv
  <2>2. AnswerOK(v)'
    BY <2>1 DEF AnswerOK
  <2>3. HandOK(v)'
    <3>1. CASE v = u
      BY <3>1
    <3>2. CASE v # u
      BY <1>1, <1>2, <1>3, <2>1, <3>2 DEF HandOK
    <3> QED BY <3>1, <3>2
  <2>4. ReadOK(v)'
    <3>1. (user'[v].does = "quantiles" /\ user'[v].key = user[v].key) \/ user[v].does # "quantiles"
      BY <1>1
    <3> QED BY <2>1, <3>1 DEF ReadOK
  <2> QED BY <2>2, <2>3, <2>4
<1>7. ASSUME NEW j \in 1..Len(metric') PROVE RecentOK(j)'
  <2>1. CASE j = i
    BY <2>1
  <2>2. CASE j # i
    <3>1. /\ metric'[j] = metric[j] /\ j \in 1..Len(metric) /\ (j \in raced' <=> j \in raced)
          /\ \A does \in {"observed", "forget"} : Between(does, j)' = Between(does, j)
      BY <1>2, <2>2
    <3>2. RecentOK(j)
      BY <3>1 DEF MetricsInv
    <3> QED BY <3>1, <3>2 DEF RecentOK
  <2> QED BY <2>1, <2>2
<1> QED BY <1>4, <1>5, <1>6, <1>7 DEF MetricsInv

\* Keys have metrics of their own: the others keep what they hold.
LEMMA OtherCredit ==
    ASSUME MetricsInv, NEW key \in DOMAIN registry, NEW h \in MetricRecord,
           metric' = [metric EXCEPT ![registry[key]] = h], registry' = registry,
           NEW added \in [Amounts -> Nat], credit' = [credit EXCEPT ![key] = added], Sums(h, added)
    PROVE  credit' \in [Keys -> [Amounts -> Nat]] /\ \A k \in Keys : CreditOK(k)'
<1>1. MetricTypes /\ RegistryOK
  BY DEF MetricsInv
<1>2. registry[key] \in 1..Len(metric) /\ key \in Keys /\ \A k \in DOMAIN registry : registry[k] \in 1..Len(metric)
  BY <1>1 DEF MetricTypes
<1>3. metric'[registry[key]] = h /\ \A j \in (1..Len(metric)) \ {registry[key]} : metric'[j] = metric[j]
  BY <1>1, <1>2, OneMetric
<1>4. credit \in [Keys -> [Amounts -> Nat]]
  BY <1>1 DEF MetricTypes
<1>5. credit' \in [Keys -> [Amounts -> Nat]] /\ credit'[key] = added /\ \A k \in Keys \ {key} : credit'[k] = credit[k]
  BY <1>2, <1>4
<1>6. ASSUME NEW k \in Keys PROVE CreditOK(k)'
  <2>1. CASE k = key
    BY <1>3, <1>5, <2>1 DEF CreditOK
  <2>2. CASE k # key
    <3>1. CreditOK(k) /\ credit'[k] = credit[k]
      BY <1>5, <2>2 DEF MetricsInv
    <3>2. k \in DOMAIN registry => metric'[registry[k]] = metric[registry[k]]
      BY <1>1, <1>2, <1>3, <2>2 DEF RegistryOK
    <3> QED BY <3>1, <3>2 DEF CreditOK
  <2> QED BY <2>1, <2>2
<1> QED BY <1>5, <1>6

-----------------------------------------------------------------------------
(* Metrics: the actions *)

LEMMA UserAt ==
    ASSUME MetricsInv, NEW u \in Users
    PROVE  /\ user[u] \in UserRecord /\ HandOK(u) /\ ReadOK(u) /\ AnswerOK(u)
           /\ MetricTypes /\ RegistryOK /\ visiting[u] \subseteq DOMAIN registry
           /\ \A k \in DOMAIN registry : registry[k] \in 1..Len(metric) /\ metric[registry[k]] \in MetricRecord
                                         /\ k \in Keys /\ metric[registry[k]].kind = k[1]
           /\ \A i \in 1..Len(metric) : metric[i] \in MetricRecord /\ RecentOK(i)
<1>1. MetricTypes /\ RegistryOK
  BY DEF MetricsInv
<1>2. \A i \in 1..Len(metric) : metric[i] \in MetricRecord
  BY <1>1, MetricAt
<1>3. \A k \in DOMAIN registry : registry[k] \in 1..Len(metric) /\ k \in Keys
  BY <1>1 DEF MetricTypes
<1>4. user[u] \in UserRecord /\ visiting[u] \subseteq DOMAIN registry
  BY <1>1 DEF MetricTypes
<1> QED BY <1>1, <1>2, <1>3, <1>4 DEF MetricsInv, RegistryOK

LEMMA IdleIs == Idle \in UserRecord /\ Idle.does = "nothing"
BY DEF Idle, UserRecord, UserLabels

LEMMA FindInv ==
    ASSUME MetricsInv, NEW u \in Users, NEW key \in Keys, Find(u, key)
    PROVE  MetricsInv'
<1> DEFINE f == IF key \in DOMAIN registry
                THEN [Idle EXCEPT !.does = "has", !.key = key, !.of = registry[key]]
                ELSE [Idle EXCEPT !.does = "missed", !.key = key]
<1>1. user' = [user EXCEPT ![u] = f] /\ user[u].does = "nothing"
  BY DEF Find, Becomes
<1>2. UNCHANGED <<metric, registry, visiting, report, lastN, answer, observed, visits, credit, raced>>
  BY DEF Find
<1>3. /\ f \in UserRecord /\ f.does \in {"has", "missed"} /\ f.key = key
      /\ f.does = "has" => key \in DOMAIN registry /\ f.of = registry[key]
  <2>1. CASE key \in DOMAIN registry
    <3>1. registry[key] \in Nat
      BY <2>1, UserAt
    <3>2. f = [does |-> "has", key |-> key, of |-> registry[key], ms |-> 0]
      BY <2>1 DEF Idle
    <3> HIDE DEF f
    <3> QED BY <2>1, <3>1, <3>2 DEF UserRecord, UserLabels
  <2>2. CASE key \notin DOMAIN registry
    <3>1. f = [does |-> "missed", key |-> key, of |-> 0, ms |-> 0]
      BY <2>2 DEF Idle
    <3> HIDE DEF f
    <3> QED BY <3>1 DEF UserRecord, UserLabels
  <2> QED BY <2>1, <2>2
<1> HIDE DEF f
<1>4. user[u].does \in Calm /\ f.does \in Calm
  BY <1>1, <1>3 DEF Calm
<1>5. user'[u] = f
  BY <1>1, UserAt DEF MetricTypes
<1>6. HandOK(u)' /\ ReadOK(u)' /\ AnswerOK(u)'
  BY <1>1, <1>2, <1>3, <1>5, UserAt DEF HandOK, ReadOK, AnswerOK
<1>7. MetricTypes
  BY DEF MetricsInv
<1> QED BY <1>1, <1>2, <1>3, <1>4, <1>6, <1>7, ReadingInv DEF MetricTypes

LEMMA CreateMetricInv ==
    ASSUME MetricsInv, NEW u \in Users, CreateMetric(u)
    PROVE  MetricsInv'
<1> DEFINE key == user[u].key
<1>1. /\ user[u].does = "missed" /\ key \in Keys
      /\ UNCHANGED <<visiting, report, lastN, answer, observed, visits, credit, raced>>
  BY UserAt DEF CreateMetric, HandOK
<1>2. MetricTypes /\ user[u] \in UserRecord
  BY UserAt
<1>3. CASE key \in DOMAIN registry
  <2> DEFINE f == [user[u] EXCEPT !.does = "has", !.of = registry[key]]
  <2>1. user' = [user EXCEPT ![u] = f] /\ UNCHANGED <<metric, registry>>
    BY <1>3 DEF CreateMetric, Becomes, SecondLook
  <2>2. registry[key] \in Nat
    BY <1>3, UserAt
  <2>3. f \in UserRecord /\ f.does = "has" /\ f.key = key /\ f.of = registry[key]
    BY <1>2, <2>2 DEF UserRecord, UserLabels
  <2> HIDE DEF f
  <2>4. user[u].does \in Calm /\ f.does \in Calm
    BY <1>1, <2>3 DEF Calm
  <2>5. user'[u] = f
    BY <1>2, <2>1 DEF MetricTypes
  <2>6. HandOK(u)' /\ ReadOK(u)' /\ AnswerOK(u)'
    BY <1>1, <1>3, <2>1, <2>3, <2>5, UserAt DEF HandOK, ReadOK, AnswerOK
  <2> QED BY <1>1, <1>2, <2>1, <2>3, <2>4, <2>6, ReadingInv DEF MetricTypes
<1>4. CASE key \notin DOMAIN registry
  <2> DEFINE new == NewMetric(key[1])
             f == [user[u] EXCEPT !.does = "has", !.of = Len(metric')]
  <2>1. /\ user' = [user EXCEPT ![u] = f] /\ metric' = Append(metric, new)
        /\ registry' = [k \in DOMAIN registry \cup {key} |-> IF k = key THEN Len(metric') ELSE registry[k]]
    BY <1>4 DEF CreateMetric, Becomes, SecondLook
  <2>2. key[1] \in {"counter", "histogram"}
    BY <1>1, MetricsConstantsOK DEF Keys
  <2>3. /\ new \in MetricRecord /\ new.kind = key[1] /\ new.total = 0 /\ new.recent = <<>> /\ Sums(new, NoCredit)
    BY <2>2, NewMetricIs
  <2> HIDE DEF new
  <2>4. metric \in Seq(MetricRecord) /\ Len(metric) \in Nat
    BY <1>2 DEF MetricTypes
  <2>5. /\ metric' \in Seq(MetricRecord) /\ Len(metric') = Len(metric) + 1 /\ metric'[Len(metric')] = new
        /\ \A j \in 1..Len(metric) : metric'[j] = metric[j]
    BY <2>1, <2>3, <2>4
  <2>6. f \in UserRecord /\ f.does = "has" /\ f.key = key /\ f.of = Len(metric')
    <3>1. Len(metric') \in Nat
      BY <2>4, <2>5
    <3> QED BY <1>2, <3>1 DEF UserRecord, UserLabels
  <2> HIDE DEF f
  <2>7. user'[u] = f /\ user' \in [Users -> UserRecord] /\ \A v \in Users \ {u} : user'[v] = user[v]
    BY <1>2, <2>1, <2>6 DEF MetricTypes
  <2>8. /\ DOMAIN registry' = DOMAIN registry \cup {key} /\ registry'[key] = Len(metric')
        /\ \A k \in DOMAIN registry : registry'[k] = registry[k] /\ registry[k] \in 1..Len(metric)
                                      /\ metric[registry[k]].kind = k[1] /\ k \in Keys
    BY <1>4, <2>1, UserAt
  <2>9. MetricTypes'
    <3>1. registry' \in [DOMAIN registry' -> 1..Len(metric')] /\ DOMAIN registry' \subseteq Keys
      <4>1. \A k \in DOMAIN registry' : registry'[k] \in 1..Len(metric')
        BY <2>4, <2>5, <2>8
      <4>2. registry' = [k \in DOMAIN registry' |-> registry'[k]]
        BY <2>1, <2>8
      <4> QED BY <1>1, <2>8, <4>1, <4>2
    <3>2. visiting' \in [Users -> SUBSET DOMAIN registry']
      <4>1. visiting \in [Users -> SUBSET DOMAIN registry]
        BY <1>2 DEF MetricTypes
      <4>2. SUBSET DOMAIN registry \subseteq SUBSET DOMAIN registry'
        BY <2>8
      <4> QED BY <1>1, <4>1, <4>2
    <3> QED BY <1>1, <1>2, <2>5, <2>7, <3>1, <3>2 DEF MetricTypes
  <2>10. RegistryOK'
    <3>1. RegistryOK
      BY UserAt
    <3>2. IsFiniteSet(DOMAIN registry') /\ Cardinality(DOMAIN registry') = Len(metric) + 1
      BY <1>4, <2>8, <3>1, FS_AddElement DEF RegistryOK
    <3>3. \A k \in DOMAIN registry' : metric'[registry'[k]].kind = k[1]
      BY <2>3, <2>5, <2>8
    <3>4. \A k, l \in DOMAIN registry' : registry'[k] = registry'[l] => k = l
      <4>1. \A k \in DOMAIN registry : registry'[k] # Len(metric')
        BY <2>4, <2>5, <2>8
      <4> QED BY <2>8, <3>1, <4>1 DEF RegistryOK
    <3> QED BY <2>5, <3>2, <3>3, <3>4 DEF RegistryOK
  <2>11. ASSUME NEW v \in Users PROVE HandOK(v)' /\ ReadOK(v)' /\ AnswerOK(v)'
    <3>1. HandOK(v) /\ ReadOK(v) /\ AnswerOK(v)
      BY UserAt
    <3>2. AnswerOK(v)'
      BY <1>1, <3>1 DEF AnswerOK
    <3>3. (user'[v].does = "quantiles" /\ user'[v].key = user[v].key) \/ user[v].does # "quantiles"
      BY <1>1, <2>7
    <3>4. ReadOK(v)'
      BY <1>1, <2>8, <3>1, <3>3 DEF ReadOK
    <3>5. HandOK(v)'
      <4>1. CASE v = u
        BY <2>6, <2>7, <2>8, <4>1 DEF HandOK
      <4>2. CASE v # u
        <5>1. user'[v] = user[v] /\ \A j \in 1..Len(metric) : j \in 1..Len(metric') /\ metric'[j] = metric[j]
          BY <2>4, <2>5, <2>7, <4>2
        <5> QED BY <1>1, <2>8, <3>1, <5>1 DEF HandOK
      <4> QED BY <4>1, <4>2
    <3> QED BY <3>2, <3>4, <3>5
  <2>12. ASSUME NEW k \in Keys PROVE CreditOK(k)'
    <3>1. CreditOK(k)
      BY DEF MetricsInv
    <3>2. CASE k = key
      BY <1>1, <1>4, <2>3, <2>5, <2>8, <3>1, <3>2 DEF CreditOK
    <3>3. CASE k # key
      <4>1. k \in DOMAIN registry' <=> k \in DOMAIN registry
        BY <2>8, <3>3
      <4>2. k \in DOMAIN registry => metric'[registry'[k]] = metric[registry[k]]
        BY <2>5, <2>8
      <4> QED BY <1>1, <3>1, <4>1, <4>2 DEF CreditOK
    <3> QED BY <3>2, <3>3
  <2>13. \A does \in {"observed", "forget"} : \A j : Between(does, j)' = Between(does, j)
    BY <1>1, <2>6, <2>7 DEF Between
  <2>14. ASSUME NEW j \in 1..Len(metric') PROVE RecentOK(j)'
    <3>1. CASE j \in 1..Len(metric)
      <4>1. RecentOK(j) /\ metric'[j] = metric[j]
        BY <2>5, <3>1, UserAt
      <4> QED BY <1>1, <2>13, <4>1 DEF RecentOK
    <3>2. CASE j \notin 1..Len(metric)
      <4>1. j = Len(metric') /\ metric'[j] = new
        BY <2>4, <2>5, <3>2
      <4>2. Between("observed", j) = {} /\ Between("forget", j) = {}
        <5>1. ASSUME NEW v \in Users, user[v].does \in {"observed", "forget"} PROVE user[v].of # j
          BY <3>2, <5>1, UserAt DEF HandOK
        <5> QED BY <5>1 DEF Between
      <4>3. Between("observed", j)' = {} /\ Between("forget", j)' = {} /\ Cardinality({}) = 0
        BY <2>13, <4>2, FS_EmptySet
      <4>4. Len(metric'[j].recent) = 0 /\ metric'[j].total = 0 /\ RecentCap \in Nat /\ 0 < RecentCap
        BY <2>3, <4>1, InfIs
      <4>5. Cardinality(Between("observed", j)') = 0
        BY <4>3, Zenon
      <4>6. metric'[j].total - Cardinality(Between("observed", j)') = 0
        BY <4>4, <4>5
      <4> QED BY <4>3, <4>4, <4>6 DEF RecentOK
    <3> QED BY <3>1, <3>2
  <2> QED BY <2>9, <2>10, <2>11, <2>12, <2>14 DEF MetricsInv
<1> QED BY <1>3, <1>4

\* What an increment or an observation has in its hands.
LEMMA InHand ==
    ASSUME MetricsInv, NEW u \in Users, user[u].does = "has"
    PROVE  \E i \in 1..Len(metric), key \in Keys, m \in MetricRecord, was \in [Amounts -> Nat] :
            /\ i = user[u].of /\ key = user[u].key /\ m = metric[i] /\ was = credit[key]
            /\ key \in DOMAIN registry /\ registry[key] = i
<1>1. user[u].key \in DOMAIN registry /\ user[u].of = registry[user[u].key]
  BY UserAt DEF HandOK
<1>2. user[u].of \in 1..Len(metric) /\ user[u].key \in Keys /\ metric[user[u].of] \in MetricRecord
  BY <1>1, UserAt
<1>3. credit[user[u].key] \in [Amounts -> Nat]
  BY <1>2 DEF MetricsInv, MetricTypes
<1> QED BY <1>1, <1>2, <1>3

LEMMA IncInv ==
    ASSUME MetricsInv, NEW u \in Users, Inc(u)
    PROVE  MetricsInv'
<1>1. PICK i \in 1..Len(metric), key \in Keys, m \in MetricRecord, was \in [Amounts -> Nat] :
        /\ i = user[u].of /\ key = user[u].key /\ m = metric[i] /\ was = credit[key]
        /\ key \in DOMAIN registry /\ registry[key] = i
  BY InHand DEF Inc
<1> DEFINE h == [m EXCEPT !.total = @ + 1]
           added == [was EXCEPT ![1] = @ + 1]
<1>2. /\ user[u].does = "has" /\ m.kind = "counter" /\ observed < MaxObserved
      /\ metric' = [metric EXCEPT ![i] = h] /\ credit' = [credit EXCEPT ![key] = added]
      /\ user' = [user EXCEPT ![u] = Idle] /\ observed' = observed + 1
      /\ UNCHANGED <<registry, visiting, report, lastN, answer, visits, raced>>
  BY <1>1 DEF Inc, KindOf, Credited, Becomes
<1>3. MetricTypes /\ RecentOK(i)
  BY UserAt
<1>4. Sums(m, was)
  BY <1>1 DEF MetricsInv, CreditOK
<1>5. h \in MetricRecord /\ h.kind = "counter" /\ h.total = m.total + 1 /\ h.recent = m.recent
  <2>1. m.total + 1 \in Nat
    BY DEF MetricRecord
  <2> QED BY <1>2, <2>1 DEF MetricRecord
<1>6. 1 \in Amounts /\ 1 \in Nat
  BY DEF Amounts
<1>7. added \in [Amounts -> Nat]
  BY <1>6
<1> HIDE DEF h
<1>8. Sums(h, added)
  BY <1>2, <1>4, <1>5, <1>6, SumsAdd
<1> HIDE DEF added
<1>9. credit' \in [Keys -> [Amounts -> Nat]] /\ \A k \in Keys : CreditOK(k)'
  BY <1>1, <1>2, <1>5, <1>7, <1>8, OtherCredit
<1>10. metric'[i] = h /\ user'[u] = Idle
  BY <1>2, <1>3, <1>5, OneMetric DEF MetricTypes
<1>11. RecentOK(i)'
  BY <1>1, <1>3, <1>5, <1>10 DEF RecentOK
<1>12. \A does \in {"observed", "forget"}, j \in 1..Len(metric) : Between(does, j)' = Between(does, j)
  BY <1>2, <1>3, IdleIs DEF Between, MetricTypes
<1>13. HandOK(u)'
  BY <1>10, IdleIs DEF HandOK
<1>14. observed' \in 0..MaxObserved /\ visits' \in 0..MaxVisits /\ visiting' \in [Users -> SUBSET DOMAIN registry]
  BY <1>2, <1>3, MetricsConstantsOK DEF MetricTypes
<1>15. h.kind = metric[i].kind /\ raced' \ {i} = raced \ {i} /\ user[u].does # "quantiles"
  BY <1>1, <1>2, <1>5
<1> QED BY <1>2, <1>5, <1>9, <1>11, <1>12, <1>13, <1>14, <1>15, IdleIs, WritingInv

LEMMA ObserveInv ==
    ASSUME MetricsInv, NEW u \in Users, NEW ms \in Values, Observe(u, ms)
    PROVE  MetricsInv'
<1>0. PICK i \in 1..Len(metric), key \in Keys, m \in MetricRecord, was \in [Amounts -> Nat] :
        /\ i = user[u].of /\ key = user[u].key /\ m = metric[i] /\ was = credit[key]
        /\ key \in DOMAIN registry /\ registry[key] = i
  BY InHand DEF Observe
<1> DEFINE f == [user[u] EXCEPT !.does = "observed", !.ms = ms]
<1>2. f \in UserRecord /\ f.does = "observed" /\ f.of = i /\ f.ms = ms
  BY <1>0, UserAt, MetricsConstantsOK DEF UserRecord, UserLabels
<1> DEFINE counts == [m.counts EXCEPT ![BucketOf(ms)] = @ + 1]
           h == [m EXCEPT !.total = @ + 1, !.sum = @ + ms, !.counts = counts]
           added == [was EXCEPT ![ms] = @ + 1]
<1>1. /\ user[u].does = "has" /\ m.kind = "histogram" /\ observed < MaxObserved
      /\ credit' = [credit EXCEPT ![key] = added]
      /\ user' = [user EXCEPT ![u] = f] /\ observed' = observed + 1
      /\ UNCHANGED <<registry, visiting, report, lastN, answer, visits>>
      /\ raced' = IF Between("forget", i) # {} THEN raced \cup {i} ELSE raced
  BY <1>0 DEF Observe, KindOf, Credited, Becomes, Between
<1>3. MetricTypes /\ RecentOK(i)
  BY UserAt
<1>4. Sums(m, was)
  BY <1>0 DEF MetricsInv, CreditOK
<1>5. ms \in Amounts /\ ms \in Nat
  BY InfIs DEF Amounts
<1>6. metric' = [metric EXCEPT ![i] = h]
  BY <1>0 DEF Observe
<1>7. counts \in [Places -> Nat]
  <2>1. m.counts \in [Places -> Nat] /\ BucketOf(ms) \in Places
    BY <1>5, BucketIs DEF MetricRecord
  <2>2. m.counts[BucketOf(ms)] + 1 \in Nat
    BY <2>1
  <2> QED BY <2>1, <2>2
<1>8. /\ h \in MetricRecord /\ h.kind = "histogram" /\ h.total = m.total + 1
      /\ h.recent = m.recent /\ h.sum = m.sum + ms /\ h.counts = counts
  <2>1. m.total + 1 \in Nat /\ m.sum + ms \in Nat
    BY <1>5 DEF MetricRecord
  <2> HIDE DEF counts
  <2> QED BY <1>1, <1>7, <2>1 DEF MetricRecord
<1> HIDE DEF h, f
<1>9. added \in [Amounts -> Nat]
  BY <1>5
<1>10. Sums(h, added)
  BY <1>1, <1>4, <1>5, <1>8, SumsAdd
<1> HIDE DEF added, counts
<1>11. credit' \in [Keys -> [Amounts -> Nat]] /\ \A k \in Keys : CreditOK(k)'
  BY <1>0, <1>1, <1>6, <1>8, <1>9, <1>10, OtherCredit
<1>12. metric'[i] = h /\ user'[u] = f /\ Len(metric') = Len(metric)
  BY <1>1, <1>3, <1>6, <1>8, OneMetric DEF MetricTypes
<1>13. /\ \A does, j : Between(does, j)' = (Between(does, j) \ {u}) \cup (IF f.does = does /\ f.of = j THEN {u} ELSE {})
       /\ \A does, j : IsFiniteSet(Between(does, j)) /\ Cardinality(Between(does, j)) \in Nat
       /\ \A does \in {"observed", "forget"} : \A j : u \notin Between(does, j)
  <2>1. \A does \in {"observed", "forget"} : \A j : u \notin Between(does, j)
    BY <1>1 DEF Between
  <2>2. /\ \A does, j : Between(does, j)' = (Between(does, j) \ {u}) \cup (IF f.does = does /\ f.of = j THEN {u} ELSE {})
        /\ \A does, j : IsFiniteSet(Between(does, j)) /\ Cardinality(Between(does, j)) \in Nat
    BY <1>1, <1>2, <1>3, BetweenIs
  <2> QED BY <2>1, <2>2
<1>14. RecentOK(i)'
  <2>1. RecentOK(i) /\ m = metric[i]
    BY <1>0, <1>3
  <2>2. Between("forget", i)' = Between("forget", i) /\ Between("observed", i)' = Between("observed", i) \cup {u}
    BY <1>2, <1>13
  <2>3. Cardinality(Between("observed", i)') = Cardinality(Between("observed", i)) + 1
    BY <1>13, <2>2, FS_AddElement
  <2>4. CASE Between("forget", i) # {}
    <3>1. i \in raced' /\ metric'[i].recent = metric[i].recent
      BY <1>1, <1>8, <1>12, <2>1, <2>4
    <3> QED BY <2>1, <3>1 DEF RecentOK
  <2>5. CASE Between("forget", i) = {}
    <3>1. raced' = raced /\ Between("forget", i)' = {}
      BY <1>1, <2>2, <2>5
    <3>2. metric'[i].total - Cardinality(Between("observed", i)') = metric[i].total - Cardinality(Between("observed", i))
      <4>1. metric[i].total \in Nat /\ metric'[i].total = metric[i].total + 1
        BY <1>8, <1>12, <2>1 DEF MetricRecord
      <4> QED BY <1>13, <2>3, <4>1
    <3>3. metric'[i].recent = metric[i].recent /\ metric'[i].kind = metric[i].kind
      BY <1>1, <1>8, <1>12, <2>1
    <3> QED BY <2>1, <2>5, <3>1, <3>2, <3>3 DEF RecentOK
  <2> QED BY <2>4, <2>5
<1>15. \A does \in {"observed", "forget"}, j \in 1..Len(metric) : j # i => Between(does, j)' = Between(does, j)
  BY <1>2, <1>13
<1>16. HandOK(u)'
  BY <1>2, <1>8, <1>12 DEF HandOK
<1>17. observed' \in 0..MaxObserved /\ visits' \in 0..MaxVisits /\ visiting' \in [Users -> SUBSET DOMAIN registry]
  BY <1>1, <1>3, MetricsConstantsOK DEF MetricTypes
<1>18. raced' \ {i} = raced \ {i} /\ h.kind = metric[i].kind /\ user[u].does # "quantiles"
  BY <1>0, <1>1, <1>8
<1> QED BY <1>1, <1>2, <1>6, <1>8, <1>11, <1>14, <1>15, <1>16, <1>17, <1>18, WritingInv

LEMMA RecallInv ==
    ASSUME MetricsInv, NEW u \in Users, Recall(u)
    PROVE  MetricsInv'
<1>0. PICK i \in 1..Len(metric), m \in MetricRecord :
        /\ i = user[u].of /\ m = metric[i] /\ m.kind = "histogram" /\ user[u].ms \in Values
        /\ user[u].does = "observed"
  BY UserAt DEF Recall, HandOK
<1> DEFINE old == m.recent
           new == Append(IF Len(old) < RecentCap THEN old ELSE Tail(old), user[u].ms)
           h == [m EXCEPT !.recent = new]
<1>1. /\ metric' = [metric EXCEPT ![i] = h] /\ user' = [user EXCEPT ![u] = Idle]
      /\ UNCHANGED <<registry, visiting, report, lastN, answer, observed, visits, credit, raced>>
  BY <1>0 DEF Recall, Becomes
<1>2. MetricTypes /\ RecentOK(i)
  BY UserAt
<1>3. old \in Seq(Values) /\ Len(old) \in Nat /\ Len(old) <= RecentCap
  BY <1>0, <1>2 DEF MetricRecord, RecentOK
<1> HIDE DEF old
<1>4. new \in Seq(Values) /\ Len(new) = IF Len(old) < RecentCap THEN Len(old) + 1 ELSE RecentCap
  <2>1. CASE Len(old) < RecentCap
    BY <1>0, <1>3, <2>1
  <2>2. CASE ~(Len(old) < RecentCap)
    <3>1. Len(old) = RecentCap /\ old # <<>>
      BY <1>3, <2>2, InfIs
    <3>2. Tail(old) \in Seq(Values) /\ Len(Tail(old)) = Len(old) - 1
      BY <1>3, <3>1
    <3> QED BY <1>0, <2>2, <3>1, <3>2, InfIs
  <2> QED BY <2>1, <2>2
<1> HIDE DEF new
<1>5. /\ h \in MetricRecord /\ h.kind = "histogram" /\ h.total = m.total /\ h.recent = new
      /\ h.sum = m.sum /\ h.counts = m.counts
  BY <1>0, <1>4 DEF MetricRecord
<1> HIDE DEF h
<1>6. metric'[i] = h /\ Len(metric') = Len(metric) /\ user'[u] = Idle /\ \A j \in (1..Len(metric)) \ {i} : metric'[j] = metric[j]
  BY <1>1, <1>2, <1>5, OneMetric DEF MetricTypes
<1>7. /\ \A does, j : Between(does, j)' = Between(does, j) \ {u} \/ does = "nothing"
      /\ \A does, j : IsFiniteSet(Between(does, j)) /\ Cardinality(Between(does, j)) \in Nat
      /\ u \in Between("observed", i) /\ (\A j : j # i => u \notin Between("observed", j)) /\ \A j : u \notin Between("forget", j)
  <2>1. u \in Between("observed", i) /\ (\A j : j # i => u \notin Between("observed", j)) /\ \A j : u \notin Between("forget", j)
    BY <1>0 DEF Between
  <2>2. /\ \A does, j : Between(does, j)' = (Between(does, j) \ {u}) \cup (IF Idle.does = does /\ Idle.of = j THEN {u} ELSE {})
        /\ \A does, j : IsFiniteSet(Between(does, j)) /\ Cardinality(Between(does, j)) \in Nat
    BY <1>1, <1>2, IdleIs, BetweenIs
  <2> QED BY <2>1, <2>2, IdleIs
<1>8. RecentOK(i)'
  <2>1. Len(metric'[i].recent) <= RecentCap /\ metric'[i].total = m.total /\ m.total \in Nat
    BY <1>3, <1>4, <1>5, <1>6, InfIs DEF MetricRecord
  <2>2. Cardinality(Between("observed", i)') = Cardinality(Between("observed", i)) - 1
    <3>1. Between("observed", i)' = Between("observed", i) \ {u}
      BY <1>7
    <3> QED BY <1>7, <3>1, FS_RemoveElement
  <2>3. CASE i \in raced
    BY <1>1, <2>1, <2>3 DEF RecentOK
  <2>4. CASE i \notin raced
    <3> DEFINE due == m.total - Cardinality(Between("observed", i))
    <3>1. Between("forget", i) = {} /\ due >= 0 /\ Len(old) = IF due < RecentCap THEN due ELSE RecentCap
      BY <1>0, <1>2, <1>7, <2>4 DEF RecentOK, old
    <3>2. Between("forget", i)' = {}
      BY <1>7, <3>1
    <3>3. metric'[i].total - Cardinality(Between("observed", i)') = due + 1 /\ due \in Nat
      BY <1>7, <2>1, <2>2, <3>1
    <3> HIDE DEF due
    <3>4. Len(metric'[i].recent) = IF due + 1 < RecentCap THEN due + 1 ELSE RecentCap
      BY <1>4, <1>5, <1>6, <3>1, <3>3, InfIs
    <3> QED BY <2>1, <3>2, <3>3, <3>4 DEF RecentOK
  <2> QED BY <2>3, <2>4
<1>9. \A k \in Keys : CreditOK(k)'
  <2> TAKE k \in Keys
  <2>1. CreditOK(k)
    BY DEF MetricsInv
  <2>2. CASE k \in DOMAIN registry /\ registry[k] = i
    BY <1>0, <1>1, <1>5, <1>6, <2>1, <2>2 DEF CreditOK, Sums
  <2>3. CASE ~(k \in DOMAIN registry /\ registry[k] = i)
    <3>1. k \in DOMAIN registry => registry[k] \in (1..Len(metric)) \ {i}
      BY <2>3, UserAt
    <3> QED BY <1>1, <1>6, <2>1, <3>1 DEF CreditOK
  <2> QED BY <2>2, <2>3
<1>10. \A does \in {"observed", "forget"}, j \in 1..Len(metric) : j # i => Between(does, j)' = Between(does, j)
  <2> TAKE does \in {"observed", "forget"}, j \in 1..Len(metric)
  <2> HAVE j # i
  <2>1. Between(does, j)' = Between(does, j) \ {u} /\ u \notin Between(does, j)
    BY <1>7
  <2> QED BY <2>1
<1>11. HandOK(u)'
  BY <1>6, IdleIs DEF HandOK
<1>12. /\ observed' \in 0..MaxObserved /\ visits' \in 0..MaxVisits /\ visiting' \in [Users -> SUBSET DOMAIN registry]
       /\ credit' \in [Keys -> [Amounts -> Nat]]
  BY <1>1, <1>2 DEF MetricTypes
<1>13. h.kind = metric[i].kind /\ raced' \ {i} = raced \ {i} /\ user[u].does # "quantiles"
  BY <1>0, <1>1, <1>5
<1> QED BY <1>1, <1>5, <1>8, <1>9, <1>10, <1>11, <1>12, <1>13, IdleIs, WritingInv

LEMMA VisitInv ==
    ASSUME MetricsInv, NEW u \in Users, NEW purpose \in {"snapshot", "reset"}, Visit(u, purpose)
    PROVE  MetricsInv'
<1> DEFINE f == [Idle EXCEPT !.does = purpose]
<1>1. /\ user[u].does = "nothing" /\ visits < MaxVisits /\ user' = [user EXCEPT ![u] = f] /\ visits' = visits + 1
      /\ visiting' = [visiting EXCEPT ![u] = DOMAIN registry] /\ report' = [report EXCEPT ![u] = NoMetrics]
      /\ UNCHANGED <<metric, registry, lastN, answer, observed, credit, raced>>
  BY DEF Visit, Becomes
<1>2. f \in UserRecord /\ f.does \in Calm /\ user[u].does \in Calm /\ f.does \in {"snapshot", "reset"}
  BY <1>1 DEF Idle, UserRecord, UserLabels, Calm
<1> HIDE DEF f
<1>3. MetricTypes /\ AnswerOK(u)
  BY UserAt
<1>4. user'[u] = f /\ report'[u] = NoMetrics /\ DOMAIN report' = Users /\ \A v \in Users \ {u} : report'[v] = report[v]
  BY <1>1, <1>3 DEF MetricTypes
<1>5. HandOK(u)' /\ AnswerOK(u)'
  BY <1>1, <1>2, <1>3, <1>4 DEF HandOK, AnswerOK
<1>6. ReadOK(u)'
  <2>1. DOMAIN NoMetrics = {} /\ NoMetrics \in [{} -> ReadRecord]
    BY DEF NoMetrics
  <2> QED BY <1>4, <2>1 DEF ReadOK
<1>7. visiting' \in [Users -> SUBSET DOMAIN registry] /\ visits' \in 0..MaxVisits
  BY <1>1, <1>3, MetricsConstantsOK DEF MetricTypes
<1> QED BY <1>1, <1>2, <1>3, <1>4, <1>5, <1>6, <1>7, ReadingInv DEF MetricTypes

\* What Noted does to a report.
LEMMA NotedIs ==
    ASSUME MetricsInv, NEW u \in Users, NEW key \in DOMAIN registry, NEW value \in ReadRecord, Noted(u, key, value)
    PROVE  /\ DOMAIN report' = Users /\ \A v \in Users \ {u} : report'[v] = report[v]
           /\ DOMAIN report'[u] = DOMAIN report[u] \cup {key} /\ report'[u][key] = value
           /\ \A k \in DOMAIN report[u] \ {key} : report'[u][k] = report[u][k]
           /\ report'[u] \in [DOMAIN report'[u] -> ReadRecord] /\ DOMAIN report'[u] \subseteq DOMAIN registry
<1> DEFINE new == [k \in DOMAIN report[u] \cup {key} |-> IF k = key THEN value ELSE report[u][k]]
<1>1. report' = [report EXCEPT ![u] = new] /\ DOMAIN report = Users
  BY UserAt DEF Noted, MetricTypes
<1>2. report[u] \in [DOMAIN report[u] -> ReadRecord] /\ DOMAIN report[u] \subseteq DOMAIN registry
  BY UserAt DEF ReadOK
<1>3. /\ DOMAIN new = DOMAIN report[u] \cup {key} /\ new[key] = value /\ new \in [DOMAIN new -> ReadRecord]
      /\ \A k \in DOMAIN report[u] \ {key} : new[k] = report[u][k]
  BY <1>2
<1> HIDE DEF new
<1>4. report'[u] = new /\ DOMAIN report' = Users /\ \A v \in Users \ {u} : report'[v] = report[v]
  BY <1>1
<1> QED BY <1>2, <1>3, <1>4

LEMMA ReadMetricInv ==
    ASSUME MetricsInv, NEW u \in Users, NEW key \in visiting[u], ReadMetric(u, key)
    PROVE  MetricsInv'
<1>1. PICK i \in 1..Len(metric), m \in MetricRecord : i = registry[key] /\ m = metric[i] /\ key \in DOMAIN registry /\ m.kind = key[1]
  BY UserAt
<1> DEFINE value == [total |-> m.total, counts |-> m.counts, quantiles |-> <<>>]
           f == IF m.kind = "counter" THEN user[u] ELSE [user[u] EXCEPT !.does = "quantiles", !.key = key, !.of = i]
<1>2. MetricTypes /\ user[u] \in UserRecord /\ AnswerOK(u) /\ ReadOK(u) /\ key \in Keys
  BY <1>1, UserAt
<1>3. /\ user[u].does = "snapshot" /\ Noted(u, key, value) /\ visiting' = [visiting EXCEPT ![u] = @ \ {key}]
      /\ UNCHANGED <<metric, registry, lastN, answer, observed, visits, credit, raced>>
  BY <1>1 DEF ReadMetric, Visited
<1>4. user' = [user EXCEPT ![u] = f]
  <2>1. CASE m.kind = "counter"
    <3>1. user' = user
      BY <1>1, <2>1 DEF ReadMetric, KindOf
    <3> QED BY <1>2, <2>1, <3>1 DEF MetricTypes
  <2>2. CASE m.kind # "counter"
    <3>1. user' = [user EXCEPT ![u].does = "quantiles", ![u].key = key, ![u].of = i]
      BY <1>1, <2>2 DEF ReadMetric, KindOf
    <3> QED BY <1>2, <2>2, <3>1 DEF MetricTypes
  <2> QED BY <2>1, <2>2
<1>5. value \in ReadRecord /\ value.total = m.total /\ value.counts = m.counts
  <2>1. <<>> \in Seq(Nat)
    OBVIOUS
  <2> QED BY <2>1 DEF ReadRecord, MetricRecord
<1>6. /\ f \in UserRecord /\ f.does \in Calm /\ user[u].does \in Calm /\ f.does \in {"snapshot", "quantiles"}
      /\ (f.does = "quantiles" => f.key = key /\ f.of = i) /\ (m.kind = "histogram" => f.does = "quantiles")
  <2>1. CASE m.kind = "counter"
    BY <1>2, <1>3, <2>1 DEF Calm
  <2>2. CASE m.kind # "counter"
    <3>1. i \in Nat
      OBVIOUS
    <3> QED BY <1>2, <1>3, <2>2, <3>1 DEF UserRecord, UserLabels, Calm
  <2> QED BY <2>1, <2>2
<1> HIDE DEF f, value
<1>7. /\ DOMAIN report' = Users /\ (\A v \in Users \ {u} : report'[v] = report[v])
      /\ DOMAIN report'[u] = DOMAIN report[u] \cup {key} /\ report'[u][key] = value
      /\ (\A k \in DOMAIN report[u] \ {key} : report'[u][k] = report[u][k])
      /\ report'[u] \in [DOMAIN report'[u] -> ReadRecord] /\ DOMAIN report'[u] \subseteq DOMAIN registry
  BY <1>1, <1>3, <1>5, NotedIs
<1>8. user'[u] = f
  BY <1>2, <1>4 DEF MetricTypes
<1>9. HandOK(u)' /\ AnswerOK(u)'
  BY <1>2, <1>3, <1>6, <1>7, <1>8 DEF HandOK, AnswerOK
<1>10. ReadOK(u)'
  <2>1. ASSUME m.kind = "histogram" PROVE UpTo(value.counts, Inf) = value.total
    <3>1. Sums(m, credit[key])
      BY <1>1, <1>2 DEF MetricsInv, CreditOK
    <3> QED BY <1>5, <2>1, <3>1, InfIs DEF Sums
  <2>2. ASSUME NEW k \in DOMAIN report'[u], k[1] = "histogram"
        PROVE  /\ UpTo(report'[u][k].counts, Inf) = report'[u][k].total
               /\ (user'[u].does = "quantiles" /\ user'[u].key = k) \/ Ordered(report'[u][k].quantiles)
    <3>1. CASE k = key
      BY <1>1, <1>6, <1>7, <1>8, <2>1, <2>2, <3>1
    <3>2. CASE k # key
      <4>1. k \in DOMAIN report[u] /\ report'[u][k] = report[u][k]
        BY <1>7, <3>2
      <4>2. UpTo(report[u][k].counts, Inf) = report[u][k].total /\ Ordered(report[u][k].quantiles)
        BY <1>2, <1>3, <2>2, <4>1 DEF ReadOK
      <4> QED BY <4>1, <4>2
    <3> QED BY <3>1, <3>2
  <2> QED BY <1>3, <1>7, <2>2 DEF ReadOK
<1>11. visiting' \in [Users -> SUBSET DOMAIN registry]
  BY <1>2, <1>3 DEF MetricTypes
<1> QED BY <1>2, <1>3, <1>4, <1>6, <1>7, <1>9, <1>10, <1>11, ReadingInv DEF MetricTypes

LEMMA ReadQuantilesInv ==
    ASSUME MetricsInv, NEW u \in Users, ReadQuantiles(u)
    PROVE  MetricsInv'
<1>1. PICK key \in DOMAIN registry, i \in 1..Len(metric) :
        i = user[u].of /\ key = user[u].key /\ key \in DOMAIN report[u] /\ user[u].does = "quantiles"
  BY UserAt DEF ReadQuantiles, HandOK, ReadOK
<1> DEFINE q == Quantiles(metric[i].recent)
           old == report[u][key]
           value == [old EXCEPT !.quantiles = q]
           f == [Idle EXCEPT !.does = "snapshot"]
<1>2. MetricTypes /\ AnswerOK(u) /\ ReadOK(u) /\ metric[i] \in MetricRecord
  BY UserAt
<1>3. /\ Noted(u, key, value) /\ user' = [user EXCEPT ![u] = f]
      /\ UNCHANGED <<metric, registry, visiting, lastN, answer, observed, visits, credit, raced>>
  BY <1>1 DEF ReadQuantiles, Becomes
<1>4. q \in Seq(Nat) /\ Ordered(q)
  <2>1. metric[i].recent \in Seq(Nat)
    <3> DEFINE r == metric[i].recent
    <3>1. r \in Seq(Values) /\ Values \subseteq Nat
      BY <1>2, MetricsConstantsOK DEF MetricRecord
    <3> HIDE DEF r
    <3>2. Len(r) \in Nat /\ \A j \in 1..Len(r) : r[j] \in Values
      BY <3>1
    <3>5. \A j \in 1..Len(r) : r[j] \in Nat
      BY <3>1, <3>2
    <3>3. r = [j \in 1..Len(r) |-> r[j]]
      BY <3>1
    <3>4. r \in Seq(Nat)
      BY <3>2, <3>3, <3>5, SeqDef
    <3> QED BY <3>4 DEF r
  <2> QED BY <2>1, QuantilesOrdered
<1>5. old \in ReadRecord
  BY <1>1, <1>2 DEF ReadOK
<1> HIDE DEF q
<1>6. value \in ReadRecord /\ value.total = old.total /\ value.counts = old.counts /\ value.quantiles = q
  <2> HIDE DEF old
  <2> QED BY <1>4, <1>5 DEF ReadRecord
<1>7. f \in UserRecord /\ f.does = "snapshot" /\ f.does \in Calm /\ user[u].does \in Calm
  BY <1>1 DEF Idle, UserRecord, UserLabels, Calm
<1> HIDE DEF value, f
<1>8. /\ DOMAIN report' = Users /\ (\A v \in Users \ {u} : report'[v] = report[v])
      /\ DOMAIN report'[u] = DOMAIN report[u] \cup {key} /\ report'[u][key] = value
      /\ (\A k \in DOMAIN report[u] \ {key} : report'[u][k] = report[u][k])
      /\ report'[u] \in [DOMAIN report'[u] -> ReadRecord] /\ DOMAIN report'[u] \subseteq DOMAIN registry
  BY <1>3, <1>6, NotedIs
<1>9. user'[u] = f
  BY <1>2, <1>3 DEF MetricTypes
<1>10. HandOK(u)' /\ AnswerOK(u)'
  BY <1>2, <1>3, <1>7, <1>9 DEF HandOK, AnswerOK
<1>11. ReadOK(u)'
  <2>1. ASSUME NEW k \in DOMAIN report'[u], k[1] = "histogram"
        PROVE  /\ UpTo(report'[u][k].counts, Inf) = report'[u][k].total
               /\ Ordered(report'[u][k].quantiles)
    <3>1. CASE k = key
      <4>1. UpTo(old.counts, Inf) = old.total
        BY <1>1, <1>2, <2>1, <3>1 DEF ReadOK
      <4> HIDE DEF old
      <4> QED BY <1>4, <1>6, <1>8, <3>1, <4>1
    <3>2. CASE k # key
      <4>1. k \in DOMAIN report[u] /\ report'[u][k] = report[u][k]
        BY <1>8, <3>2
      <4>2. UpTo(report[u][k].counts, Inf) = report[u][k].total /\ Ordered(report[u][k].quantiles)
        BY <1>1, <1>2, <2>1, <3>2, <4>1 DEF ReadOK
      <4> QED BY <4>1, <4>2
    <3> QED BY <3>1, <3>2
  <2> QED BY <1>3, <1>8, <2>1 DEF ReadOK
<1> QED BY <1>2, <1>3, <1>7, <1>8, <1>10, <1>11, ReadingInv DEF MetricTypes

\* A change of a histogram's recent samples is none of what it holds.
LEMMA SameCredit ==
    ASSUME MetricsInv, NEW i \in 1..Len(metric), NEW h \in MetricRecord, metric' = [metric EXCEPT ![i] = h],
           h.kind = metric[i].kind, h.total = metric[i].total, h.sum = metric[i].sum, h.counts = metric[i].counts,
           UNCHANGED <<registry, credit>>
    PROVE  \A k \in Keys : CreditOK(k)'
<1>1. MetricTypes /\ \A k \in DOMAIN registry : registry[k] \in 1..Len(metric)
  BY DEF MetricsInv, MetricTypes
<1>2. metric'[i] = h /\ \A j \in (1..Len(metric)) \ {i} : metric'[j] = metric[j]
  BY <1>1, OneMetric
<1> TAKE k \in Keys
<1>3. CreditOK(k)
  BY DEF MetricsInv
<1>4. CASE k \in DOMAIN registry /\ registry[k] = i
  BY <1>2, <1>3, <1>4 DEF CreditOK, Sums
<1>5. CASE ~(k \in DOMAIN registry /\ registry[k] = i)
  <2>1. k \in DOMAIN registry => registry[k] \in (1..Len(metric)) \ {i}
    BY <1>1, <1>5
  <2> QED BY <1>2, <1>3, <2>1 DEF CreditOK
<1> QED BY <1>4, <1>5

LEMMA ResetMetricInv ==
    ASSUME MetricsInv, NEW u \in Users, NEW key \in visiting[u], ResetMetric(u, key)
    PROVE  MetricsInv'
<1>1. PICK i \in 1..Len(metric), m \in MetricRecord : i = registry[key] /\ m = metric[i] /\ key \in DOMAIN registry
  BY UserAt
<1> DEFINE h == [NewMetric(m.kind) EXCEPT !.recent = m.recent]
           f == IF m.kind = "counter" THEN user[u] ELSE [user[u] EXCEPT !.does = "forget", !.of = i]
<1>2. MetricTypes /\ user[u] \in UserRecord /\ HandOK(u) /\ RecentOK(i)
  BY UserAt
<1>3. /\ user[u].does = "reset" /\ visiting' = [visiting EXCEPT ![u] = @ \ {key}]
      /\ metric' = [metric EXCEPT ![i] = h] /\ credit' = [credit EXCEPT ![key] = NoCredit]
      /\ raced' = IF Between("observed", i) # {} THEN raced \cup {i} ELSE raced
      /\ UNCHANGED <<registry, report, lastN, answer, observed, visits>>
  BY <1>1 DEF ResetMetric, Visited, Between
<1>4. user' = [user EXCEPT ![u] = f]
  <2>1. CASE m.kind = "counter"
    <3>1. user' = user
      BY <1>1, <2>1 DEF ResetMetric, KindOf
    <3> QED BY <1>2, <2>1, <3>1 DEF MetricTypes
  <2>2. CASE m.kind # "counter"
    <3>1. user' = [user EXCEPT ![u].does = "forget", ![u].of = i]
      BY <1>1, <2>2 DEF ResetMetric, KindOf
    <3> QED BY <1>2, <2>2, <3>1 DEF MetricTypes
  <2> QED BY <2>1, <2>2
<1>5. /\ f \in UserRecord /\ f.does \in {"reset", "forget"}
      /\ f.does = "forget" => f.of = i /\ m.kind # "counter"
      /\ m.kind # "counter" => f.does = "forget" /\ f.of = i
  <2>1. CASE m.kind = "counter"
    BY <1>2, <1>3, <2>1
  <2>2. CASE m.kind # "counter"
    <3>1. i \in Nat
      OBVIOUS
    <3> QED BY <1>2, <1>3, <2>2, <3>1 DEF UserRecord, UserLabels
  <2> QED BY <2>1, <2>2
<1> HIDE DEF f
<1>6. /\ h \in MetricRecord /\ h.kind = m.kind /\ h.total = 0 /\ h.recent = m.recent /\ Sums(h, NoCredit)
  <2> DEFINE new == NewMetric(m.kind)
  <2>1. m.kind \in {"counter", "histogram"} /\ m.recent \in Seq(Values)
    BY DEF MetricRecord
  <2>2. new \in MetricRecord /\ new.kind = m.kind /\ new.total = 0 /\ Sums(new, NoCredit)
    BY <2>1, NewMetricIs
  <2> HIDE DEF new
  <2> DEFINE g == [new EXCEPT !.recent = m.recent]
  <2>3. /\ g \in MetricRecord /\ g.kind = new.kind /\ g.total = new.total /\ g.sum = new.sum
        /\ g.counts = new.counts /\ g.recent = m.recent
    BY <2>1, <2>2 DEF MetricRecord
  <2> HIDE DEF g
  <2>4. Sums(g, NoCredit)
    BY <2>2, <2>3 DEF Sums
  <2> QED BY <2>2, <2>3, <2>4 DEF g, new
<1> HIDE DEF h
<1>7. NoCredit \in [Amounts -> Nat]
  BY DEF NoCredit
<1>8. credit' \in [Keys -> [Amounts -> Nat]] /\ \A k \in Keys : CreditOK(k)'
  BY <1>1, <1>3, <1>6, <1>7, OtherCredit
<1>9. metric'[i] = h /\ user'[u] = f /\ Len(metric') = Len(metric)
  BY <1>2, <1>3, <1>4, <1>6, OneMetric DEF MetricTypes
<1>10. \A does, j : Between(does, j)' = (Between(does, j) \ {u}) \cup (IF f.does = does /\ f.of = j THEN {u} ELSE {})
  BY <1>2, <1>4, <1>5, BetweenIs
<1>11. \A does \in {"observed", "forget"} : \A j : u \notin Between(does, j)
  BY <1>3 DEF Between
<1>12. RecentOK(i)'
  <2>1. Len(metric'[i].recent) <= RecentCap /\ metric'[i].total = 0 /\ metric'[i].kind = m.kind
    BY <1>1, <1>2, <1>6, <1>9 DEF RecentOK
  <2>2. CASE m.kind = "counter"
    BY <2>1, <2>2 DEF RecentOK
  <2>3. CASE Between("observed", i) # {}
    BY <1>3, <2>1, <2>3 DEF RecentOK
  <2>4. CASE m.kind # "counter" /\ Between("observed", i) = {}
    <3>1. Between("observed", i)' = {}
      BY <1>5, <1>10, <2>4
    <3>2. Between("forget", i)' # {}
      BY <1>5, <1>10, <2>4
    <3> QED BY <2>1, <3>1, <3>2 DEF RecentOK
  <2> QED BY <2>2, <2>3, <2>4
<1>13. \A does \in {"observed", "forget"}, j \in 1..Len(metric) : j # i => Between(does, j)' = Between(does, j)
  <2> TAKE does \in {"observed", "forget"}, j \in 1..Len(metric)
  <2> HAVE j # i
  <2>1. ~(f.does = does /\ f.of = j)
    BY <1>5
  <2>2. Between(does, j)' = Between(does, j) \ {u} /\ u \notin Between(does, j)
    BY <1>10, <1>11, <2>1
  <2> QED BY <2>2
<1>14. HandOK(u)'
  <2>1. m.kind \in {"counter", "histogram"}
    BY DEF MetricRecord
  <2> QED BY <1>5, <1>6, <1>9, <2>1 DEF HandOK
<1>15. /\ observed' \in 0..MaxObserved /\ visits' \in 0..MaxVisits /\ visiting' \in [Users -> SUBSET DOMAIN registry]
  BY <1>2, <1>3 DEF MetricTypes
<1>16. h.kind = metric[i].kind /\ raced' \ {i} = raced \ {i} /\ user[u].does # "quantiles"
  BY <1>1, <1>3, <1>6
<1> QED BY <1>3, <1>4, <1>5, <1>6, <1>8, <1>12, <1>13, <1>14, <1>15, <1>16, WritingInv

LEMMA ForgetInv ==
    ASSUME MetricsInv, NEW u \in Users, Forget(u)
    PROVE  MetricsInv'
<1>1. PICK i \in 1..Len(metric), m \in MetricRecord :
        i = user[u].of /\ m = metric[i] /\ m.kind = "histogram" /\ user[u].does = "forget"
  BY UserAt DEF Forget, HandOK
<1> DEFINE h == [m EXCEPT !.recent = <<>>]
           f == [Idle EXCEPT !.does = "reset"]
<1>2. MetricTypes /\ RecentOK(i)
  BY UserAt
<1>3. /\ metric' = [metric EXCEPT ![i] = h] /\ user' = [user EXCEPT ![u] = f]
      /\ UNCHANGED <<registry, visiting, report, lastN, answer, observed, visits, credit, raced>>
  BY <1>1 DEF Forget, Becomes
<1>4. f \in UserRecord /\ f.does = "reset"
  BY DEF Idle, UserRecord, UserLabels
<1>5. /\ h \in MetricRecord /\ h.kind = "histogram" /\ h.total = m.total /\ h.recent = <<>>
      /\ h.sum = m.sum /\ h.counts = m.counts
  <2>1. <<>> \in Seq(Values)
    OBVIOUS
  <2> QED BY <1>1, <2>1 DEF MetricRecord
<1> HIDE DEF h, f
<1>6. metric'[i] = h /\ user'[u] = f
  BY <1>2, <1>3, <1>5, OneMetric DEF MetricTypes
<1>7. \A k \in Keys : CreditOK(k)'
  BY <1>1, <1>3, <1>5, SameCredit
<1>8. \A does, j : Between(does, j)' = (Between(does, j) \ {u}) \cup (IF f.does = does /\ f.of = j THEN {u} ELSE {})
  BY <1>2, <1>3, <1>4, BetweenIs
<1>9. /\ u \in Between("forget", i) /\ (\A j : j # i => u \notin Between("forget", j))
      /\ \A j : u \notin Between("observed", j)
  BY <1>1 DEF Between
<1>10. \A does \in {"observed", "forget"} : \A j : Between(does, j)' = Between(does, j) \ {u}
  BY <1>4, <1>8
<1>11. RecentOK(i)'
  <2>1. Len(metric'[i].recent) = 0 /\ RecentCap \in Nat /\ 0 < RecentCap /\ metric'[i].total = m.total
    BY <1>5, <1>6, InfIs
  <2>2. CASE i \in raced
    BY <1>3, <2>1, <2>2 DEF RecentOK
  <2>3. CASE i \notin raced
    <3>1. m.total = 0 /\ Between("observed", i) = {}
      BY <1>1, <1>2, <1>9, <2>3 DEF RecentOK
    <3>2. Between("observed", i)' = {}
      BY <1>10, <3>1
    <3>3. Cardinality(Between("observed", i)') = 0
      BY <3>2, FS_EmptySet, Zenon
    <3>4. metric'[i].total - Cardinality(Between("observed", i)') = 0
      BY <2>1, <3>1, <3>3
    <3> QED BY <2>1, <3>1, <3>2, <3>4 DEF RecentOK
  <2> QED BY <2>2, <2>3
<1>12. \A does \in {"observed", "forget"}, j \in 1..Len(metric) : j # i => Between(does, j)' = Between(does, j)
  <2> TAKE does \in {"observed", "forget"}, j \in 1..Len(metric)
  <2> HAVE j # i
  <2>1. Between(does, j)' = Between(does, j) \ {u} /\ u \notin Between(does, j)
    BY <1>9, <1>10
  <2> QED BY <2>1
<1>13. HandOK(u)'
  BY <1>4, <1>6 DEF HandOK
<1>14. /\ observed' \in 0..MaxObserved /\ visits' \in 0..MaxVisits /\ visiting' \in [Users -> SUBSET DOMAIN registry]
       /\ credit' \in [Keys -> [Amounts -> Nat]]
  BY <1>2, <1>3 DEF MetricTypes
<1>15. h.kind = metric[i].kind /\ raced' \ {i} = raced \ {i} /\ user[u].does # "quantiles"
  BY <1>1, <1>3, <1>5
<1> QED BY <1>3, <1>4, <1>5, <1>7, <1>11, <1>12, <1>13, <1>14, <1>15, WritingInv

LEMMA ResetEndsInv ==
    ASSUME MetricsInv, NEW u \in Users, ResetEnds(u)
    PROVE  MetricsInv'
<1>1. /\ user[u].does = "reset" /\ user' = [user EXCEPT ![u] = Idle]
      /\ UNCHANGED <<metric, registry, visiting, report, lastN, answer, observed, visits, credit, raced>>
  BY DEF ResetEnds, Becomes
<1>2. MetricTypes /\ AnswerOK(u) /\ ReadOK(u)
  BY UserAt
<1>3. user'[u] = Idle /\ Idle \in UserRecord /\ Idle.does = "nothing" /\ Idle.does \in Calm /\ user[u].does \in Calm
  BY <1>1, <1>2, IdleIs DEF MetricTypes, Calm
<1>4. HandOK(u)' /\ AnswerOK(u)' /\ ReadOK(u)'
  BY <1>1, <1>2, <1>3 DEF HandOK, AnswerOK, ReadOK
<1> QED BY <1>1, <1>2, <1>3, <1>4, ReadingInv DEF MetricTypes

LEMMA AnswerTextInv ==
    ASSUME MetricsInv, NEW u \in Users, AnswerText(u)
    PROVE  MetricsInv'
<1> DEFINE new == [k \in DOMAIN report[u] |-> [report[u][k] EXCEPT !.counts = Cumulative(@)]]
<1>1. /\ user[u].does = "snapshot" /\ user' = [user EXCEPT ![u] = Idle] /\ answer' = [answer EXCEPT ![u] = new]
      /\ UNCHANGED <<metric, registry, visiting, report, lastN, observed, visits, credit, raced>>
  BY DEF AnswerText, Becomes
<1>2. MetricTypes /\ ReadOK(u)
  BY UserAt
<1>3. user'[u] = Idle /\ Idle \in UserRecord /\ Idle.does = "nothing" /\ Idle.does \in Calm /\ user[u].does \in Calm
  BY <1>1, <1>2, IdleIs DEF MetricTypes, Calm
<1>4. HandOK(u)' /\ ReadOK(u)'
  BY <1>1, <1>2, <1>3 DEF HandOK, ReadOK
<1>5. ASSUME NEW k \in DOMAIN new, k[1] = "histogram"
      PROVE  /\ new[k].counts[Inf] = new[k].total
             /\ \A b, c \in Places : b <= c => new[k].counts[b] <= new[k].counts[c]
             /\ Ordered(new[k].quantiles)
  <2> DEFINE r == report[u][k]
  <2>1. r \in ReadRecord /\ UpTo(r.counts, Inf) = r.total /\ Ordered(r.quantiles)
    BY <1>1, <1>2, <1>5 DEF ReadOK
  <2>2. new[k] = [r EXCEPT !.counts = Cumulative(r.counts)]
    BY <1>5
  <2> HIDE DEF r, new
  <2>3. new[k].total = r.total /\ new[k].quantiles = r.quantiles /\ new[k].counts = Cumulative(r.counts) /\ r.counts \in [Places -> Nat]
    BY <2>1, <2>2 DEF ReadRecord
  <2>4. \A b \in Places : new[k].counts[b] = UpTo(r.counts, b)
    BY <2>3 DEF Cumulative
  <2>5. ASSUME NEW b \in Places, NEW c \in Places, b <= c PROVE UpTo(r.counts, b) <= UpTo(r.counts, c)
    <3>1. b \in Nat /\ c \in Nat /\ Places \subseteq Nat /\ IsFiniteSet(Places)
      BY InfIs, PlacesFinite
    <3> QED BY <2>3, <2>5, <3>1, UpToGrows
  <2> QED BY <2>1, <2>3, <2>4, <2>5, InfIs
<1> HIDE DEF new
<1>6. answer'[u] = new /\ DOMAIN answer' = Users /\ \A v \in Users \ {u} : answer'[v] = answer[v]
  BY <1>1, <1>2 DEF MetricTypes
<1>7. AnswerOK(u)'
  BY <1>5, <1>6 DEF AnswerOK
<1> QED BY <1>1, <1>2, <1>3, <1>4, <1>6, <1>7, ReadingInv DEF MetricTypes

LEMMA AnswerJSONInv ==
    ASSUME MetricsInv, NEW u \in Users, AnswerJSON(u)
    PROVE  MetricsInv'
<1>1. /\ user[u].does = "snapshot" /\ user' = [user EXCEPT ![u] = Idle] /\ answer' = [answer EXCEPT ![u] = NoMetrics]
      /\ lastN' = Cardinality(DOMAIN report[u])
      /\ UNCHANGED <<metric, registry, visiting, report, observed, visits, credit, raced>>
  BY DEF AnswerJSON, Becomes
<1>2. MetricTypes /\ ReadOK(u) /\ RegistryOK
  BY UserAt
<1>3. user'[u] = Idle /\ Idle \in UserRecord /\ Idle.does = "nothing" /\ Idle.does \in Calm /\ user[u].does \in Calm
  BY <1>1, <1>2, IdleIs DEF MetricTypes, Calm
<1>4. HandOK(u)' /\ ReadOK(u)'
  BY <1>1, <1>2, <1>3 DEF HandOK, ReadOK
<1>5. answer'[u] = NoMetrics /\ DOMAIN answer' = Users /\ \A v \in Users \ {u} : answer'[v] = answer[v]
  BY <1>1, <1>2 DEF MetricTypes
<1>6. AnswerOK(u)'
  BY <1>5 DEF AnswerOK, NoMetrics
<1>7. lastN' \in Nat
  <2>1. IsFiniteSet(DOMAIN report[u])
    BY <1>2, FS_Subset DEF ReadOK, RegistryOK
  <2> QED BY <1>1, <2>1, FS_CardinalityType
<1> QED BY <1>1, <1>2, <1>3, <1>4, <1>5, <1>6, <1>7, ReadingInv DEF MetricTypes

LEMMA MetricsInitially == MetricsInit => MetricsInv
<1> SUFFICES ASSUME MetricsInit PROVE MetricsInv
  OBVIOUS
<1>1. metric = <<>> /\ registry = NoMetrics /\ Len(metric) = 0
  BY DEF MetricsInit
<1>2. DOMAIN registry = {} /\ registry \in [DOMAIN registry -> 1..Len(metric)]
  BY <1>1 DEF NoMetrics
<1>3. \A u \in Users : user[u] = Idle /\ visiting[u] = {} /\ report[u] = NoMetrics /\ answer[u] = NoMetrics
  BY DEF MetricsInit
<1>4. MetricTypes
  <2>1. metric \in Seq(MetricRecord)
    BY <1>1
  <2>2. user \in [Users -> UserRecord]
    BY IdleIs DEF MetricsInit
  <2>3. NoCredit \in [Amounts -> Nat]
    BY DEF NoCredit
  <2>4. credit \in [Keys -> [Amounts -> Nat]]
    BY <2>3 DEF MetricsInit
  <2>5. visiting \in [Users -> SUBSET DOMAIN registry] /\ DOMAIN report = Users /\ DOMAIN answer = Users
    BY DEF MetricsInit
  <2>6. lastN \in Nat /\ observed \in 0..MaxObserved /\ visits \in 0..MaxVisits
    BY MetricsConstantsOK DEF MetricsInit
  <2> QED BY <1>2, <2>1, <2>2, <2>4, <2>5, <2>6 DEF MetricTypes
<1>5. RegistryOK
  <2>1. IsFiniteSet(DOMAIN registry) /\ Cardinality(DOMAIN registry) = 0
    BY <1>2, FS_EmptySet
  <2> QED BY <1>1, <1>2, <2>1 DEF RegistryOK
<1>6. ASSUME NEW u \in Users PROVE HandOK(u) /\ ReadOK(u) /\ AnswerOK(u)
  <2>1. DOMAIN report[u] = {} /\ DOMAIN answer[u] = {} /\ report[u] \in [DOMAIN report[u] -> ReadRecord]
    BY <1>3 DEF NoMetrics
  <2>2. HandOK(u)
    BY <1>3, IdleIs DEF HandOK
  <2>3. ReadOK(u) /\ AnswerOK(u)
    BY <2>1 DEF ReadOK, AnswerOK
  <2> QED BY <2>2, <2>3
<1>7. \A k \in Keys : CreditOK(k)
  BY <1>2 DEF CreditOK, MetricsInit
<1>8. \A i \in 1..Len(metric) : RecentOK(i)
  BY <1>1
<1> QED BY <1>4, <1>5, <1>6, <1>7, <1>8 DEF MetricsInv

LEMMA MetricsBehaves == Spec => MetricsInit /\ [][MetricsNext]_metricsVars
<1>1. Init => MetricsInit
  BY DEF Init
<1>2. [Next]_standaloneVars => [MetricsNext]_metricsVars
  BY DEF Next, standaloneVars
<1> QED BY <1>1, <1>2, PTL DEF Spec

\* The parts of the inductive invariant, of the metrics.
LEMMA MetricsInductive == Spec => []MetricsInv
<1>1. MetricsInv /\ [MetricsNext]_metricsVars => MetricsInv'
  <2> SUFFICES ASSUME MetricsInv, [MetricsNext]_metricsVars PROVE MetricsInv'
    OBVIOUS
  <2>1. CASE UNCHANGED metricsVars
    <3>1. \A i : Between("observed", i)' = Between("observed", i) /\ Between("forget", i)' = Between("forget", i)
      BY <2>1 DEF metricsVars, Between
    <3>2. \A i \in 1..Len(metric) : RecentOK(i)'
      BY <2>1, <3>1 DEF metricsVars, MetricsInv, RecentOK
    <3>3. MetricTypes' /\ RegistryOK' /\ \A k \in Keys : CreditOK(k)'
      BY <2>1 DEF metricsVars, MetricsInv, MetricTypes, RegistryOK, CreditOK, Sums
    <3>4. \A u \in Users : HandOK(u)' /\ ReadOK(u)' /\ AnswerOK(u)'
      BY <2>1 DEF metricsVars, MetricsInv, HandOK, ReadOK, AnswerOK, Ordered
    <3> QED BY <2>1, <3>2, <3>3, <3>4 DEF metricsVars, MetricsInv
  <2>2. ASSUME NEW u \in Users,
               \/ \E key \in Keys : Find(u, key)
               \/ CreateMetric(u) \/ Inc(u) \/ Recall(u)
               \/ \E ms \in Values : Observe(u, ms)
        PROVE  MetricsInv'
    BY <2>2, FindInv, CreateMetricInv, IncInv, RecallInv, ObserveInv
  <2>3. ASSUME NEW u \in Users,
               \/ \E purpose \in {"snapshot", "reset"} : Visit(u, purpose)
               \/ \E key \in visiting[u] : ReadMetric(u, key) \/ ResetMetric(u, key)
        PROVE  MetricsInv'
    BY <2>3, VisitInv, ReadMetricInv, ResetMetricInv
  <2>4. ASSUME NEW u \in Users, ReadQuantiles(u) \/ Forget(u) \/ ResetEnds(u) \/ AnswerText(u) \/ AnswerJSON(u)
        PROVE  MetricsInv'
    BY <2>4, ReadQuantilesInv, ForgetInv, ResetEndsInv, AnswerTextInv, AnswerJSONInv
  <2> QED BY <2>1, <2>2, <2>3, <2>4 DEF MetricsNext
<1> QED BY <1>1, MetricsInitially, MetricsBehaves, PTL

\* Goroutines that find, create, add, reset and read at once: no key has two metrics,
\* a metric holds all that was added under its key since the reset, in total, in its
\* sum and in its buckets; a histogram keeps its recent samples unless a reset ran
\* beside an observation; and the buckets of an answer grow to its count
\* (registry.go getOrCreateHistogram, ObserveMs, Snapshot, ResetAll).
THEOREM MetricsAreExact == Spec => []MetricsAddUp
<1>1. MetricsInv => MetricsAddUp
  <2> SUFFICES ASSUME MetricsInv PROVE MetricsAddUp
    OBVIOUS
  <2>1. MetricTypes /\ RegistryOK
    BY DEF MetricsInv
  <2>2. Len(metric) = Cardinality(DOMAIN registry)
    BY <2>1 DEF RegistryOK
  <2>3. ASSUME NEW k \in DOMAIN registry
        PROVE  LET h == metric[registry[k]] added == credit[k] IN
               /\ h.total = UpTo(added, Inf)
               /\ KindOf(registry[k]) = "histogram" =>
                   /\ h.sum = UpTo([ms \in Amounts |-> ms * added[ms]], Inf)
                   /\ \A b \in Places : UpTo(h.counts, b) = UpTo(added, b)
    <3>1. k \in Keys /\ CreditOK(k)
      BY <2>1 DEF MetricTypes, MetricsInv
    <3>2. Sums(metric[registry[k]], credit[k])
      BY <3>1 DEF CreditOK
    <3> QED BY <3>2 DEF Sums, KindOf
  <2>4. ASSUME NEW k \in DOMAIN registry, KindOf(registry[k]) = "histogram", registry[k] \notin raced,
               Between("forget", registry[k]) = {}
        PROVE  LET h == metric[registry[k]] IN
               Len(h.recent) = Min({RecentCap, h.total - Cardinality(Between("observed", registry[k]))})
    <3> DEFINE i == registry[k]
               due == metric[i].total - Cardinality(Between("observed", i))
    <3>1. i \in 1..Len(metric) /\ RecentOK(i)
      BY <2>1 DEF MetricTypes, MetricsInv
    <3>2. due >= 0 /\ Len(metric[i].recent) = IF due < RecentCap THEN due ELSE RecentCap
      BY <2>4, <3>1 DEF RecentOK, KindOf
    <3>3. due \in Nat
      <4>1. metric[i].total \in Nat
        BY <2>1, <3>1, MetricAt DEF MetricRecord
      <4>2. IsFiniteSet(Between("observed", i))
        BY MetricsConstantsOK, FS_Subset DEF Between
      <4>3. Cardinality(Between("observed", i)) \in Nat
        BY <4>2, FS_CardinalityType
      <4> QED BY <3>2, <4>1, <4>3
    <3> HIDE DEF due
    <3>4. Min({RecentCap, due}) = IF due < RecentCap THEN due ELSE RecentCap
      <4>1. Min({RecentCap, due}) \in {RecentCap, due} /\ \A y \in {RecentCap, due} : Min({RecentCap, due}) <= y
        BY <3>3, InfIs, MinIs
      <4>2. RecentCap \in Nat
        BY InfIs
      <4> QED BY <3>3, <4>1, <4>2
    <3> QED BY <3>2, <3>4 DEF due
  <2>5. \A u \in Users : AnswerOK(u)
    BY DEF MetricsInv
  <2> QED BY <2>2, <2>3, <2>4, <2>5 DEF MetricsAddUp, AnswerOK, Ordered
<1> QED BY <1>1, MetricsInductive, PTL

-----------------------------------------------------------------------------
(* Kinds and bounds *)

\* Weight that nobody holds is no more than the capacity; what SemInv leaves open.
SemBounds == done \in [Callers -> BOOLEAN] /\ cancels \in 0..MaxCancels

LEMMA SemTyped == Spec => []SemTypeOK
<1>1. SemInit => SemBounds
  BY SizesOK DEF SemInit, SemBounds
<1>2. SemBounds /\ [SemNext]_semVars => SemBounds'
  <2> SUFFICES ASSUME SemBounds, [SemNext]_semVars PROVE SemBounds'
    OBVIOUS
  <2>1. done' = done \/ \E p \in Callers : \E b \in BOOLEAN : done' = [done EXCEPT ![p] = b]
    BY DEF SemNext, semVars, Take, Wait, Granted, Cancel, GiveUp, Release
  <2>2. cancels' = cancels \/ (cancels' = cancels + 1 /\ cancels < MaxCancels)
    BY DEF SemNext, semVars, Take, Wait, Granted, Cancel, GiveUp, Release
  <2>3. MaxCancels \in Nat
    BY SizesOK
  <2> QED BY <2>1, <2>2, <2>3 DEF SemBounds
<1>3. SemInv /\ SemBounds => SemTypeOK
  <2> SUFFICES ASSUME SemInv, SemBounds PROVE SemTypeOK
    OBVIOUS
  <2>1. SemTypes /\ cur = Total(n, Owners) + leaked
    BY DEF SemInv, SumOK
  <2>2. IsFiniteSet(Owners) /\ \A p \in Owners : n[p] \in Nat
    BY <2>1, SizesOK, FS_Subset DEF Owners, SemTypes
  <2>3. Total(n, Owners) \in Nat
    BY <2>2, TotalSplit
  <2>4. leaked \in 0..Capacity
    BY <2>1, <2>3, SizesOK DEF SemTypes
  <2> QED BY <2>1, <2>4 DEF SemTypes, SemBounds, SemTypeOK
<1> QED BY <1>1, <1>2, <1>3, SemInductive, SemBehaves, PTL

\* Samples, with those whose time has been taken, and the times.
Stamped == {a \in Adders : stamp[a] # -1}
WindowBounds ==
    /\ winNow <= WinTime /\ lastTs >= -1 /\ lastTs <= winNow /\ origin <= winNow
    /\ \A a \in Adders : stamp[a] <= winNow
    /\ IsFiniteSet(Stamped) /\ samples + Cardinality(Stamped) <= MaxSamples

LEMMA AddBounds ==
    ASSUME WindowInv, WindowBounds, NEW a \in Adders, AddFirst(a) \/ AddLater(a)
    PROVE  WindowBounds'
<1>1. /\ stamp \in [Adders -> Int] /\ stamp[a] \in Nat /\ stamp[a] <= winNow /\ winNow \in Nat
      /\ lastTs \in Int /\ lastTs <= winNow /\ lastTs >= -1 /\ origin \in Nat /\ samples \in Nat
      /\ Dur \in Nat /\ Dur > 0 /\ MaxSamples \in Nat
  BY WindowConstantsOK DEF WindowInv, WindowTypes, WindowBounds, AddFirst, AddLater
<1>2. winNow' = winNow /\ samples' = samples + 1 /\ stamp' = [stamp EXCEPT ![a] = -1]
  BY DEF AddFirst, AddLater
<1>3. origin' <= winNow
  BY <1>1 DEF AddFirst, AddLater, WindowBounds
<1>4. lastTs' >= -1 /\ lastTs' <= winNow
  <2>1. CASE AddFirst(a)
    BY <1>1, <2>1 DEF AddFirst
  <2>2. CASE AddLater(a)
    <3> DEFINE at == stamp[a]
               e == (at - lastTs) \div Dur
    <3>1. at - lastTs \in Int
      BY <1>1
    <3>2. /\ at - lastTs = Dur * e + ((at - lastTs) % Dur) /\ e \in Int
          /\ (at - lastTs) % Dur \in 0..(Dur - 1)
      BY <1>1, <3>1, Division
    <3>3. Elapsed(at) = (IF at >= lastTs THEN e ELSE 0)
      BY DEF Elapsed
    <3>4. lastTs' = IF Elapsed(at) > 0 THEN lastTs + Elapsed(at) * Dur ELSE lastTs
      BY <2>2 DEF AddLater, Moved
    <3> HIDE DEF e, at
    <3>5. CASE Elapsed(at) > 0
      <4>1. at >= lastTs /\ Elapsed(at) = e /\ e > 0
        BY <3>3, <3>5
      <4>2. Dur * e = e * Dur /\ Dur * e \in Int /\ Dur * e >= 0
        BY <1>1, <3>2, <4>1
      <4>3. lastTs + Dur * e <= at
        <5>1. at \in Nat /\ (at - lastTs) % Dur >= 0 /\ (at - lastTs) % Dur \in Int
          BY <1>1, <3>2 DEF at
        <5> QED BY <1>1, <3>2, <4>2, <5>1
      <4>4. at <= winNow
        BY <1>1 DEF at
      <4> QED BY <1>1, <3>4, <3>5, <4>1, <4>2, <4>3, <4>4 DEF at
    <3>6. CASE ~(Elapsed(at) > 0)
      BY <1>1, <3>4, <3>6
    <3> QED BY <3>5, <3>6
  <2> QED BY <2>1, <2>2
<1>5. \A b \in Adders : stamp'[b] <= winNow
  BY <1>1, <1>2 DEF WindowBounds
<1>6. a \in Stamped /\ Stamped' = Stamped \ {a}
  BY <1>1, <1>2 DEF Stamped
<1>7. IsFiniteSet(Stamped \ {a}) /\ Cardinality(Stamped \ {a}) = Cardinality(Stamped) - 1 /\ Cardinality(Stamped) \in Nat
  BY <1>6, FS_RemoveElement, FS_CardinalityType DEF WindowBounds
<1>8. IsFiniteSet(Stamped') /\ Cardinality(Stamped') = Cardinality(Stamped) - 1
  BY <1>6, <1>7
<1>9. samples' + Cardinality(Stamped') <= MaxSamples
  BY <1>1, <1>2, <1>7, <1>8 DEF WindowBounds
<1> QED BY <1>2, <1>3, <1>4, <1>5, <1>8, <1>9 DEF WindowBounds

LEMMA StampBounds ==
    ASSUME WindowInv, WindowBounds, NEW a \in Adders, Stamp(a)
    PROVE  WindowBounds'
<1>1. /\ stamp \in [Adders -> Int] /\ winNow \in Nat /\ samples \in Nat /\ MaxSamples \in Nat
      /\ winNow # -1
  BY WindowConstantsOK DEF WindowInv, WindowTypes
<1>2. /\ stamp[a] = -1 /\ stamp' = [stamp EXCEPT ![a] = winNow]
      /\ samples + Cardinality(Stamped) < MaxSamples
      /\ UNCHANGED <<winNow, lastTs, samples, origin>>
  BY DEF Stamp, Stamped
<1>3. a \notin Stamped /\ Stamped' = Stamped \cup {a}
  BY <1>1, <1>2 DEF Stamped
<1>4. IsFiniteSet(Stamped \cup {a}) /\ Cardinality(Stamped \cup {a}) = Cardinality(Stamped) + 1 /\ Cardinality(Stamped) \in Nat
  BY <1>3, FS_AddElement, FS_CardinalityType DEF WindowBounds
<1>5. IsFiniteSet(Stamped') /\ Cardinality(Stamped') = Cardinality(Stamped) + 1
  BY <1>3, <1>4
<1>6. samples' + Cardinality(Stamped') <= MaxSamples
  BY <1>1, <1>2, <1>4, <1>5
<1>7. \A b \in Adders : stamp'[b] <= winNow
  BY <1>1, <1>2 DEF WindowBounds
<1> QED BY <1>2, <1>5, <1>6, <1>7 DEF WindowBounds

LEMMA WindowTyped == Spec => []WindowTypeOK
<1>1. WindowInit => WindowBounds
  <2> SUFFICES ASSUME WindowInit PROVE WindowBounds
    OBVIOUS
  <2>1. /\ winNow = 0 /\ lastTs = -1 /\ samples = 0 /\ origin = 0 /\ \A a \in Adders : stamp[a] = -1
        /\ WinTime \in Nat /\ MaxSamples \in Nat
    BY WindowConstantsOK DEF WindowInit
  <2>2. Stamped = {}
    BY <2>1 DEF Stamped
  <2>3. IsFiniteSet(Stamped) /\ Cardinality(Stamped) = 0
    BY <2>2, FS_EmptySet
  <2> QED BY <2>1, <2>3 DEF WindowBounds
<1>2. WindowInv /\ WindowBounds /\ [WindowNext]_windowVars => WindowBounds'
  <2> SUFFICES ASSUME WindowInv, WindowBounds, [WindowNext]_windowVars PROVE WindowBounds'
    OBVIOUS
  <2>1. /\ winNow \in Nat /\ WinTime \in Nat /\ lastTs \in Int /\ origin \in Nat
        /\ stamp \in [Adders -> Int]
    BY WindowConstantsOK DEF WindowInv, WindowTypes
  <2>2. CASE ResetWindow \/ WindowTick \/ UNCHANGED windowVars
    <3>1. /\ UNCHANGED <<stamp, samples, origin>> /\ winNow' \in Nat /\ winNow <= winNow' /\ winNow' <= WinTime
          /\ lastTs' = lastTs \/ lastTs' = -1
      BY <2>1, <2>2 DEF ResetWindow, WindowTick, windowVars, WindowBounds
    <3>2. Stamped' = Stamped
      BY <3>1 DEF Stamped
    <3>3. \A a \in Adders : stamp'[a] <= winNow'
      BY <2>1, <3>1 DEF WindowBounds
    <3>4. lastTs' >= -1 /\ lastTs' <= winNow' /\ origin' <= winNow'
      BY <2>1, <3>1 DEF WindowBounds
    <3> QED BY <3>1, <3>2, <3>3, <3>4 DEF WindowBounds
  <2> QED BY <2>2, AddBounds, StampBounds DEF WindowNext
<1>3. WindowInv /\ WindowBounds => WindowTypeOK
  <2> SUFFICES ASSUME WindowInv, WindowBounds PROVE WindowTypeOK
    OBVIOUS
  <2>1. WindowTypes /\ WinTime \in Nat /\ MaxSamples \in Nat /\ Cardinality(Stamped) \in Nat
    BY WindowConstantsOK, FS_CardinalityType DEF WindowInv, WindowBounds
  <2>2. samples \in 0..MaxSamples /\ winNow \in 0..WinTime /\ lastTs \in -1..WinTime /\ origin \in 0..WinTime
    BY <2>1 DEF WindowTypes, WindowBounds
  <2>3. stamp \in [Adders -> -1..WinTime]
    <3>1. \A a \in Adders : stamp[a] \in -1..WinTime
      BY <2>1, <2>2 DEF WindowTypes, WindowBounds
    <3> QED BY <2>1, <3>1 DEF WindowTypes
  <2>4. \A i \in RingPlaces : ring[i] \subseteq 1..samples
    <3>1. \A i \in RingPlaces : ring[i] \subseteq DOMAIN slotOf
      BY <2>1 DEF WindowInv, NothingYet, RingHas, WindowTypes
    <3> QED BY <2>1, <3>1 DEF WindowTypes
  <2>5. 1..samples \subseteq 1..MaxSamples
    BY <2>1, <2>2
  <2>6. ring \in [0..(Buckets - 1) -> SUBSET (1..MaxSamples)]
    BY <2>1, <2>4, <2>5 DEF WindowTypes, RingPlaces
  <2>7. head \in 0..(Buckets - 1)
    BY <2>1 DEF WindowTypes, RingPlaces
  <2> QED BY <2>2, <2>3, <2>6, <2>7 DEF WindowTypeOK
<1> QED BY <1>1, <1>2, <1>3, WindowInductive, WindowBehaves, PTL

LEMMA SetTyped == Spec => []SetTypeOK
<1> DEFINE Few == ops \in 0..MaxOps
<1>1. SetInit => Few
  BY SetConstantsOK DEF SetInit
<1>2. Few /\ [SetNext]_setVars => Few'
  <2> SUFFICES ASSUME Few, [SetNext]_setVars PROVE Few'
    OBVIOUS
  <2>1. Called \/ ops' = ops
    BY DEF SetNext, setVars, FromSlice, AddAll, Add, RemoveOne, Clear, Snapshot, Union, Intersect, Diff
  <2> QED BY <2>1, SetConstantsOK DEF Called
<1>3. SetInv /\ Few => SetTypeOK
  BY DEF SetInv, SetTypes, SetTypeOK
<1> QED BY <1>1, <1>2, <1>3, SetInductive, SetBehaves, PTL

\* What Do remembers, waits for and returns.
RetryBounds ==
    /\ lastErr \in 0..attempt /\ wait \in 0..Widest
    /\ result \subseteq {NoAttempt, ContextError} \cup 1..attempt

LEMMA RetryTyped == Spec => []RetryTypeOK
<1>1. RetryInit => RetryBounds
  BY RetryConstantsOK DEF RetryInit, RetryBounds
<1>2. RetryInv /\ RetryBounds /\ [RetryNext]_retryVars => RetryBounds'
  <2> SUFFICES ASSUME RetryInv, RetryBounds, [RetryNext]_retryVars PROVE RetryBounds'
    OBVIOUS
  <2>1. /\ attempt \in Nat /\ attempt >= 1 /\ lastErr \in 0..attempt /\ Widest \in Nat /\ config \in Configs
        /\ Known \subseteq 1..attempt /\ Remembered \in 0..attempt
    BY RetryConstantsOK DEF RetryInv, RetryTypes, RetryBounds, Known, Remembered
  <2>2. CASE UNCHANGED retryVars
    BY <2>2 DEF retryVars, RetryBounds
  <2>3. CASE EndContext \/ Attempt \/ WaitCut
    BY <2>1, <2>3 DEF EndContext, Attempt, WaitCut, Finish, RetryBounds
  <2>4. CASE WaitEnds
    BY <2>1, <2>4 DEF WaitEnds, RetryBounds
  <2>5. CASE Succeed \/ FailForGood
    BY <2>1, <2>5 DEF Succeed, FailForGood, Finish, RetryBounds
  <2>6. CASE Fail
    <3>1. lastErr' = Remembered /\ attempt' = attempt
      BY <2>6 DEF Fail
    <3>2. CASE attempt >= MaxAttempts
      BY <2>1, <2>6, <3>1, <3>2 DEF Fail, Finish, RetryBounds
    <3>3. CASE ~(attempt >= MaxAttempts)
      <4>1. wait' \in NextBackoff(attempt) /\ result' = result
        BY <2>6, <3>3 DEF Fail
      <4>2. WaitOK(wait')
        BY <2>1, <4>1, NextBackoffOK
      <4>3. wait' \in 0..Widest
        BY <2>1, <4>2 DEF WaitOK
      <4> QED BY <2>1, <3>1, <4>1, <4>3 DEF RetryBounds
    <3> QED BY <3>2, <3>3
  <2> QED BY <2>2, <2>3, <2>4, <2>5, <2>6 DEF RetryNext
<1>3. RetryInv /\ RetryBounds => RetryTypeOK
  <2> SUFFICES ASSUME RetryInv, RetryBounds PROVE RetryTypeOK
    OBVIOUS
  <2>1. attempt \in 1..MaxAttempts
    BY RetryConstants DEF RetryInv, RetryTypes
  <2> QED BY <2>1 DEF RetryInv, RetryTypes, RetryBounds, RetryTypeOK
<1> QED BY <1>1, <1>2, <1>3, RetryInductive, RetryBehaves, PTL

\* No export has more metrics than there are.
LEMMA MetricsTyped == Spec => []MetricsTypeOK
<1> DEFINE Few == lastN <= Len(metric)
<1>1. MetricsInit => Few
  BY DEF MetricsInit
<1>2. MetricsInv /\ MetricsInv' /\ Few /\ [MetricsNext]_metricsVars => Few'
  <2> SUFFICES ASSUME MetricsInv, MetricsInv', Few, [MetricsNext]_metricsVars PROVE Few'
    OBVIOUS
  <2>1. MetricTypes /\ RegistryOK /\ Len(metric) \in Nat /\ Len(metric') \in Nat /\ lastN \in Nat
    BY DEF MetricsInv, MetricTypes
  <2>2. CASE UNCHANGED metricsVars
    BY <2>2 DEF metricsVars
  <2>3. ASSUME NEW u \in Users, CreateMetric(u) PROVE Few'
    <3>1. lastN' = lastN /\ (metric' = metric \/ \E m : metric' = Append(metric, m))
      BY <2>3 DEF CreateMetric
    <3> QED BY <2>1, <3>1 DEF MetricTypes
  <2>4. ASSUME NEW u \in Users, (\E key \in Keys : Find(u, key)) \/ Inc(u) \/ Recall(u) \/ Forget(u)
                    \/ (\E ms \in Values : Observe(u, ms)) \/ (\E key \in visiting[u] : ResetMetric(u, key))
        PROVE  Few'
    <3>1. lastN' = lastN /\ (metric' = metric \/ \E i, m : metric' = [metric EXCEPT ![i] = m])
      BY <2>4 DEF Find, Inc, Recall, Forget, Observe, ResetMetric
    <3>2. metric \in Seq(MetricRecord)
      BY <2>1 DEF MetricTypes
    <3>3. Len(metric') = Len(metric)
      BY <3>1, <3>2
    <3> QED BY <3>1, <3>3
  <2>5. ASSUME NEW u \in Users, (\E purpose \in {"snapshot", "reset"} : Visit(u, purpose)) \/ ReadQuantiles(u)
                    \/ (\E key \in visiting[u] : ReadMetric(u, key)) \/ ResetEnds(u) \/ AnswerText(u)
        PROVE  Few'
    BY <2>5 DEF Visit, ReadQuantiles, ReadMetric, ResetEnds, AnswerText
  <2>6. ASSUME NEW u \in Users, AnswerJSON(u) PROVE Few'
    <3>1. lastN' = Cardinality(DOMAIN report[u]) /\ metric' = metric
      BY <2>6 DEF AnswerJSON
    <3>2. DOMAIN report[u] \subseteq DOMAIN registry
      BY DEF MetricsInv, ReadOK
    <3>3. Cardinality(DOMAIN report[u]) <= Cardinality(DOMAIN registry)
      BY <2>1, <3>2, FS_Subset DEF RegistryOK
    <3> QED BY <2>1, <3>1, <3>3 DEF RegistryOK
  <2> QED BY <2>2, <2>3, <2>4, <2>5, <2>6 DEF MetricsNext
<1>3. MetricsInv /\ Few => MetricsTypeOK
  <2> SUFFICES ASSUME MetricsInv, Few PROVE MetricsTypeOK
    OBVIOUS
  <2>1. MetricTypes /\ RegistryOK /\ Len(metric) \in Nat /\ DOMAIN metric = 1..Len(metric)
    BY DEF MetricsInv, MetricTypes
  <2>2. IsInjective(registry)
    BY <2>1 DEF RegistryOK, IsInjective
  <2>3. \A k \in DOMAIN registry : registry[k] \in DOMAIN metric /\ KindOf(registry[k]) = k[1]
    BY <2>1 DEF MetricTypes, RegistryOK, KindOf
  <2>4. \A i \in DOMAIN metric : Len(metric[i].recent) <= RecentCap
    BY <2>1 DEF MetricsInv, RecentOK
  <2>5. \A u \in Users : visiting[u] \cup DOMAIN report[u] \subseteq DOMAIN registry
    BY <2>1 DEF MetricsInv, MetricTypes, ReadOK
  <2>6. lastN \in 0..Len(metric)
    BY <2>1 DEF MetricTypes
  <2> QED BY <2>1, <2>2, <2>3, <2>4, <2>5, <2>6 DEF MetricTypes, MetricsTypeOK
<1> QED BY <1>1, <1>2, <1>3, MetricsInductive, MetricsBehaves, PTL

LEMMA OthersTyped == Spec => [](StopTypeOK /\ ClockTypeOK /\ FlightTypeOK)
<1>1. StopInv => StopTypeOK
  BY DEF StopInv, StopTypes, HooksOK, StopLabels, PartsAlive, Alive, StopTypeOK
<1>2. ClockInv => ClockTypeOK
  BY DEF ClockInv, ClockTypes, TimersOK, TimerRecord, TickerRecord, ClockTypeOK
<1>3. FlightInv => FlightTypeOK
  <2> SUFFICES ASSUME FlightInv PROVE FlightTypeOK
    OBVIOUS
  <2>1. Len(flight) \in Nat /\ Len(flight) <= MaxFlights
    BY DEF FlightInv, FlightTypes
  <2>2. flying \in [FlightKeys -> 0..Len(flight)]
    BY <2>1 DEF FlightInv, FlightTypes, KeysOK
  <2>3. \A k \in FlightKeys : forgotUpTo[k] \in 0..Len(flight)
    BY <2>1 DEF FlightInv, FlightTypes, KeysOK
  <2>4. \A p \in Flyers : flyer[p].call \in 0..Len(flight)
    BY <2>1 DEF FlightInv, FlightTypes, FlyersOK, FlyerRecord
  <2> QED BY <2>1, <2>2, <2>3, <2>4 DEF FlightTypeOK
<1> QED BY <1>1, <1>2, <1>3, StopInductive, ClockInductive, FlightInductive, PTL

\* Requests that may still delete the link: each of them was sent.
Asking == {p \in Clients : call[p].stage \in {"route", "delete"}}
PipeBounds ==
    /\ sent \in 0..MaxSent /\ breaks \in 0..MaxBreaks
    /\ IsFiniteSet(Asking) /\ removals + Cardinality(Asking) <= sent

\* A step after which no other request is asking.
LEMMA AskingIs ==
    ASSUME PipeInv, PipeBounds, NEW p \in Clients, NEW r, call' = [call EXCEPT ![p] = r]
    PROVE  /\ Cardinality(Asking) \in Nat /\ Cardinality(Asking') \in Nat /\ IsFiniteSet(Asking')
           /\ Cardinality(Asking') <= Cardinality(Asking) + 1
           /\ r.stage \notin {"route", "delete"} \/ p \in Asking => Cardinality(Asking') <= Cardinality(Asking)
           /\ r.stage \notin {"route", "delete"} /\ p \in Asking => Cardinality(Asking') + 1 <= Cardinality(Asking)
<1>1. call \in [Clients -> CallRecord] /\ IsFiniteSet(Asking) /\ Cardinality(Asking) \in Nat
  BY FS_CardinalityType DEF PipeInv, PipeTypes, PipeBounds
<1>2. call'[p] = r /\ \A q \in Clients \ {p} : call'[q] = call[q]
  BY <1>1
<1> DEFINE A == Asking
           B == Asking'
<1>3. B \subseteq A \cup {p}
  BY <1>2 DEF Asking
<1>4. r.stage \notin {"route", "delete"} \/ p \in A => B \subseteq A
  BY <1>2 DEF Asking
<1>5. r.stage \notin {"route", "delete"} => B \subseteq A \ {p}
  BY <1>2 DEF Asking
<1>6. IsFiniteSet(A) /\ Cardinality(A) \in Nat
  BY <1>1
<1> HIDE DEF A, B
<1>7. IsFiniteSet(A \cup {p}) /\ Cardinality(A \cup {p}) \in Nat /\ Cardinality(A \cup {p}) <= Cardinality(A) + 1
  <2>1. IsFiniteSet(A \cup {p}) /\ Cardinality(A \cup {p}) = IF p \in A THEN Cardinality(A) ELSE Cardinality(A) + 1
    BY <1>6, FS_AddElement
  <2>2. CASE p \in A
    BY <1>6, <2>1, <2>2
  <2>3. CASE p \notin A
    BY <1>6, <2>1, <2>3
  <2> QED BY <2>2, <2>3
<1>8. IsFiniteSet(B) /\ Cardinality(B) \in Nat /\ Cardinality(B) <= Cardinality(A \cup {p})
  BY <1>3, <1>7, FS_Subset, FS_CardinalityType
<1>9. B \subseteq A => Cardinality(B) <= Cardinality(A)
  BY <1>6, FS_Subset
<1>10. IsFiniteSet(A \ {p}) /\ (p \in A => Cardinality(A \ {p}) = Cardinality(A) - 1)
  BY <1>6, FS_RemoveElement
<1>11. B \subseteq A \ {p} => Cardinality(B) <= Cardinality(A \ {p})
  BY <1>10, FS_Subset
<1>12. Cardinality(B) <= Cardinality(A) + 1
  BY <1>6, <1>7, <1>8
<1>13. r.stage \notin {"route", "delete"} /\ p \in A => Cardinality(B) + 1 <= Cardinality(A)
  BY <1>5, <1>6, <1>8, <1>10, <1>11
<1> QED BY <1>4, <1>6, <1>8, <1>9, <1>12, <1>13 DEF A, B

LEMMA BreaksAre ==
    ASSUME PipeBounds, UNCHANGED breaks \/ (breaks < MaxBreaks /\ breaks' = breaks + 1)
    PROVE  breaks' \in 0..MaxBreaks
BY CallsOK DEF PipeBounds

\* A request that goes on, and deletes nothing.
LEMMA GoesOnBounds ==
    ASSUME PipeInv, PipeBounds, NEW p \in Clients, NEW r, call' = [call EXCEPT ![p] = r],
           r.stage \notin {"route", "delete"} \/ p \in Asking,
           UNCHANGED <<removals, sent>>, breaks' \in 0..MaxBreaks
    PROVE  PipeBounds'
<1>1. /\ Cardinality(Asking) \in Nat /\ Cardinality(Asking') \in Nat /\ IsFiniteSet(Asking')
      /\ Cardinality(Asking') <= Cardinality(Asking)
  BY AskingIs
<1>2. removals \in Nat /\ sent \in Nat /\ removals + Cardinality(Asking) <= sent
  BY CallsOK DEF PipeInv, PipeTypes, PipeBounds
<1>3. removals' + Cardinality(Asking') <= sent'
  BY <1>1, <1>2
<1> QED BY <1>1, <1>3 DEF PipeBounds

LEMMA StageIs ==
    ASSUME NEW r \in CallRecord
    PROVE  /\ \A status : Reply(r, status).stage = "body" /\ [Reply(r, status) EXCEPT !.broke = TRUE].stage = "body"
           /\ \A effect, status, code :
                /\ Reply(Did(r, effect), status).stage = "body"
                /\ [Reply(Reply(Did(r, effect), status), code) EXCEPT !.broke = TRUE].stage = "body"
           /\ \A stage : To(r, stage).stage = stage
BY DEF Reply, Did, To, CallRecord

LEMMA PipeStepBounds ==
    ASSUME PipeInv, PipeBounds, NEW p \in Clients,
           \/ Dispatch(p) \/ EndBody(p) \/ Recovered(p)
           \/ Create(p) \/ Patch(p) \/ Redirect(p) \/ CountVisit(p)
           \/ Probe(p) \/ ProbeLog(p) \/ Look(p)
    PROVE  PipeBounds'
<1> DEFINE Fine(r) == r.stage \notin {"route", "delete"} \/ p \in Asking
<1>1. call[p] \in CallRecord
  BY DEF PipeInv, PipeTypes
<1>2. UNCHANGED <<removals, sent>>
  BY DEF Dispatch, EndBody, Recovered, Create, Patch, Redirect, CountVisit, Probe, ProbeLog, Look, Change, Only
<1>3. UNCHANGED breaks \/ (breaks < MaxBreaks /\ breaks' = breaks + 1)
  BY DEF Dispatch, EndBody, Recovered, Create, Patch, Redirect, CountVisit, Probe, ProbeLog, Look, Change, Only
<1>4. \E r : call' = [call EXCEPT ![p] = r] /\ Fine(r)
  <2>0. ASSUME NEW r, call' = [call EXCEPT ![p] = r], r.stage = "body"
        PROVE  \E q : call' = [call EXCEPT ![p] = q] /\ Fine(q)
    BY <2>0
  <2>9. ASSUME NEW status, call' = [call EXCEPT ![p] = Reply(call[p], status)]
        PROVE  \E q : call' = [call EXCEPT ![p] = q] /\ Fine(q)
    BY <1>1, <2>0, <2>9, StageIs
  <2>1. CASE Dispatch(p)
    <3>1. p \in Asking
      BY <2>1 DEF Dispatch, At, Asking
    <3>2. \E r : call' = [call EXCEPT ![p] = r]
      BY <2>1 DEF Dispatch, Turns
    <3> QED BY <3>1, <3>2
  <2>2. CASE EndBody(p)
    <3>1. call' = [call EXCEPT ![p] = To(call[p], "ended")] /\ To(call[p], "ended").stage = "ended"
      BY <1>1, <2>2, StageIs DEF EndBody, Turns
    <3> QED BY <3>1
  <2>3. CASE Recovered(p)
    <3> DEFINE f == [call[p] EXCEPT !.stage = "ended", !.broke = TRUE, !.answer = IF @ = 0 THEN 500 ELSE @]
    <3>1. call' = [call EXCEPT ![p] = f] /\ f.stage = "ended"
      BY <1>1, <2>3 DEF Recovered, Turns, CallRecord
    <3> QED BY <3>1
  <2>4. CASE Create(p)
    <3> DEFINE done1 == Reply(Did(call[p], "created"), 201)
               failed1 == [Reply(done1, Mapped["other"]) EXCEPT !.broke = TRUE]
    <3>1. \/ \E status : call' = [call EXCEPT ![p] = Reply(call[p], status)]
          \/ call' = [call EXCEPT ![p] = done1]
          \/ call' = [call EXCEPT ![p] = failed1]
      BY <2>4 DEF Create, Change, Only, Turns
    <3>2. done1.stage = "body" /\ failed1.stage = "body"
      BY <1>1, StageIs
    <3> HIDE DEF done1, failed1
    <3> QED BY <2>0, <2>9, <3>1, <3>2
  <2>5. CASE Patch(p)
    <3> DEFINE half == IF "disabled" \in call[p].todo THEN "disabled" ELSE "remarked"
               done1 == [Did(call[p], half) EXCEPT !.todo = @ \ {half}]
               failed1 == [Reply(done1, Mapped["other"]) EXCEPT !.broke = TRUE]
    <3>1. \/ \E status : call' = [call EXCEPT ![p] = Reply(call[p], status)]
          \/ call' = [call EXCEPT ![p] = done1]
          \/ call' = [call EXCEPT ![p] = failed1]
      BY <2>5 DEF Patch, Change, Only, Turns, PatchFails
    <3>2. done1.stage = "patch" /\ failed1.stage = "body"
      <4>1. call[p].stage = "patch"
        BY <2>5 DEF Patch, At
      <4> HIDE DEF half
      <4>2. done1.stage = "patch"
        BY <1>1, <4>1 DEF Did, CallRecord
      <4>3. failed1.stage = "body"
        BY <1>1 DEF Reply, Did, CallRecord
      <4> QED BY <4>2, <4>3
    <3> HIDE DEF done1, failed1
    <3> QED BY <2>0, <2>9, <3>1, <3>2
  <2>6. CASE Redirect(p) \/ CountVisit(p)
    <3>1. \/ \E status : call' = [call EXCEPT ![p] = Reply(call[p], status)]
          \/ call' = [call EXCEPT ![p] = To(call[p], "visit")]
          \/ \E status : call' = [call EXCEPT ![p] = Reply(Did(call[p], "visited"), status)]
      BY <2>6 DEF Redirect, CountVisit, Only, Turns
    <3>2. To(call[p], "visit").stage = "visit" /\ \A status : Reply(Did(call[p], "visited"), status).stage = "body"
      BY <1>1, StageIs
    <3>3. ASSUME NEW status, call' = [call EXCEPT ![p] = Reply(Did(call[p], "visited"), status)]
          PROVE  \E q : call' = [call EXCEPT ![p] = q] /\ Fine(q)
      BY <2>0, <3>2, <3>3
    <3>4. CASE call' = [call EXCEPT ![p] = To(call[p], "visit")]
      BY <3>2, <3>4
    <3> QED BY <2>9, <3>1, <3>3, <3>4
  <2>7. CASE Probe(p)
    <3> DEFINE f == [To(call[p], "probeLog") EXCEPT !.saw = up \cap {"url"}]
    <3>1. call' = [call EXCEPT ![p] = f] /\ f.stage = "probeLog"
      BY <1>1, <2>7 DEF Probe, Turns, To, CallRecord
    <3> QED BY <3>1
  <2>8. CASE ProbeLog(p) \/ Look(p)
    <3>1. \E status : call' = [call EXCEPT ![p] = Reply(call[p], status)]
      BY <2>8 DEF ProbeLog, Look, Turns
    <3> QED BY <2>9, <3>1
  <2> QED BY <2>1, <2>2, <2>3, <2>4, <2>5, <2>6, <2>7, <2>8
<1>5. breaks' \in 0..MaxBreaks
  BY <1>3, BreaksAre
<1> QED BY <1>2, <1>4, <1>5, GoesOnBounds

LEMMA SendBounds ==
    ASSUME PipeInv, PipeBounds, NEW p \in Clients, NEW c \in Calls, Send(p, c)
    PROVE  PipeBounds'
<1>1. /\ sent' = sent + 1 /\ sent < MaxSent /\ UNCHANGED <<removals, breaks>>
      /\ \E r : call' = [call EXCEPT ![p] = r]
  BY DEF Send, Turns
<1>2. /\ Cardinality(Asking) \in Nat /\ Cardinality(Asking') \in Nat /\ IsFiniteSet(Asking')
      /\ Cardinality(Asking') <= Cardinality(Asking) + 1
  BY <1>1, AskingIs
<1>3. removals \in Nat /\ sent \in Nat /\ MaxSent \in Nat /\ removals + Cardinality(Asking) <= sent
  BY CallsOK DEF PipeInv, PipeTypes, PipeBounds
<1>4. removals' + Cardinality(Asking') <= sent' /\ sent' \in 0..MaxSent
  BY <1>1, <1>2, <1>3
<1> QED BY <1>1, <1>2, <1>4 DEF PipeBounds

LEMMA DeleteBounds ==
    ASSUME PipeInv, PipeBounds, NEW p \in Clients, Delete(p)
    PROVE  PipeBounds'
<1>1. call[p] \in CallRecord /\ p \in Asking
  BY DEF PipeInv, PipeTypes, Delete, At, Asking
<1>2. UNCHANGED breaks \/ (breaks < MaxBreaks /\ breaks' = breaks + 1)
  BY DEF Delete, Change, Only
<1>3. /\ sent' = sent /\ (removals' = removals \/ removals' = removals + 1)
      /\ \E r : call' = [call EXCEPT ![p] = r] /\ r.stage = "body"
  <2> DEFINE done1 == Reply(Did(call[p], "deleted"), 200)
             failed1 == [Reply(done1, Mapped["other"]) EXCEPT !.broke = TRUE]
  <2>1. \/ \E status : call' = [call EXCEPT ![p] = Reply(call[p], status)]
        \/ call' = [call EXCEPT ![p] = done1]
        \/ call' = [call EXCEPT ![p] = failed1]
    BY DEF Delete, Change, Only, Turns
  <2>2. done1.stage = "body" /\ failed1.stage = "body" /\ \A status : Reply(call[p], status).stage = "body"
    BY <1>1, StageIs
  <2> HIDE DEF done1, failed1
  <2>5. ASSUME NEW status, call' = [call EXCEPT ![p] = Reply(call[p], status)]
        PROVE  \E r : call' = [call EXCEPT ![p] = r] /\ r.stage = "body"
    BY <2>2, <2>5
  <2>3. \E r : call' = [call EXCEPT ![p] = r] /\ r.stage = "body"
    BY <2>1, <2>2, <2>5
  <2>4. sent' = sent /\ (removals' = removals \/ removals' = removals + 1)
    BY DEF Delete, Change, Only
  <2> QED BY <2>3, <2>4
<1>4. /\ Cardinality(Asking) \in Nat /\ Cardinality(Asking') \in Nat /\ IsFiniteSet(Asking')
      /\ Cardinality(Asking') + 1 <= Cardinality(Asking)
  <2>1. PICK r : call' = [call EXCEPT ![p] = r] /\ r.stage = "body"
    BY <1>3
  <2>2. r.stage \notin {"route", "delete"}
    BY <2>1
  <2> QED BY <1>1, <2>1, <2>2, AskingIs
<1>5. removals \in Nat /\ sent \in Nat /\ removals + Cardinality(Asking) <= sent
  BY CallsOK DEF PipeInv, PipeTypes, PipeBounds
<1>6. removals' + Cardinality(Asking') <= sent'
  BY <1>3, <1>4, <1>5
<1>7. breaks' \in 0..MaxBreaks
  BY <1>2, BreaksAre
<1> QED BY <1>3, <1>4, <1>6, <1>7 DEF PipeBounds

LEMMA PipeTyped == Spec => []PipeTypeOK
<1>1. PipeInit => PipeBounds
  <2> SUFFICES ASSUME PipeInit PROVE PipeBounds
    OBVIOUS
  <2>1. \A p \in Clients : call[p].stage = "ended"
    BY NoCallIs DEF PipeInit
  <2>2. Asking = {}
    BY <2>1 DEF Asking
  <2>3. IsFiniteSet(Asking) /\ Cardinality(Asking) = 0
    BY <2>2, FS_EmptySet
  <2>4. removals = 0 /\ sent = 0 /\ breaks = 0 /\ MaxSent \in Nat /\ MaxBreaks \in Nat
    BY CallsOK DEF PipeInit
  <2> QED BY <2>3, <2>4 DEF PipeBounds
<1>2. PipeInv /\ PipeBounds /\ [PipeNext]_pipeVars => PipeBounds'
  <2> SUFFICES ASSUME PipeInv, PipeBounds, [PipeNext]_pipeVars PROVE PipeBounds'
    OBVIOUS
  <2>1. CASE UNCHANGED <<call, removals, sent, breaks>>
    BY <2>1 DEF PipeBounds, Asking
  <2>2. ASSUME NEW p \in Clients,
               \/ Dispatch(p) \/ EndBody(p) \/ Recovered(p)
               \/ Create(p) \/ Patch(p) \/ Redirect(p) \/ CountVisit(p)
               \/ Probe(p) \/ ProbeLog(p) \/ Look(p)
        PROVE  PipeBounds'
    BY <2>2, PipeStepBounds
  <2>3. ASSUME NEW p \in Clients, Delete(p) \/ \E c \in Calls : Send(p, c)
        PROVE  PipeBounds'
    BY <2>3, DeleteBounds, SendBounds
  <2> QED BY <2>1, <2>2, <2>3 DEF PipeNext, pipeVars
<1>3. PipeInv /\ PipeBounds => PipeTypeOK
  <2> SUFFICES ASSUME PipeInv, PipeBounds PROVE PipeTypeOK
    OBVIOUS
  <2>1. /\ call \in [Clients -> CallRecord] /\ row \in Rows /\ removals \in Nat
        /\ Cardinality(Asking) \in Nat /\ sent \in 0..MaxSent /\ MaxSent \in Nat
        /\ up \in {{}, {"url"}, {"url", "log"}}
    BY CallsOK, FS_CardinalityType DEF PipeInv, PipeTypes, PipeBounds
  <2>2. removals \in 0..MaxSent
    BY <2>1 DEF PipeBounds
  <2>3. up \subseteq {"url", "log"}
    BY <2>1
  <2>4. ASSUME NEW p \in Clients
        PROVE  /\ call[p].stage \in Stages /\ call[p].answer \in Nat /\ call[p].noted \in Nat
               /\ call[p].did \subseteq {"created", "deleted", "disabled", "remarked", "visited"}
    BY <2>1 DEF CallRecord
  <2> QED BY <2>1, <2>2, <2>3, <2>4 DEF PipeTypeOK, PipeBounds, Rows, Stages
<1> QED BY <1>1, <1>2, <1>3, PipeInductive, PipeBehaves, PTL

\* Every component keeps its variables of their kinds and within the bounds that its
\* module names: no permits beyond the capacity, no sample in a bucket that was not
\* added, no timer in the list that was not made, no deletion that was not asked for.
THEOREM StandaloneTyped == Spec => []TypeOK
BY LogTyped, MetricsTyped, SemTyped, WindowTyped, SetTyped, RetryTyped, PipeTyped, OthersTyped, PTL DEF TypeOK
=============================================================================
