---------------------------- MODULE Standalone ----------------------------
(***************************************************************************)
(* The components that keep state of their own and share none with another:*)
(* the access log, the metrics, the packages of pkg/ that the server links *)
(* beside them, and the way of a request through the middleware.  A        *)
(* behaviour is that of one of them, while the others rest in their        *)
(* initial state.                                                          *)
(***************************************************************************)
EXTENDS AccessLog, Metrics, WeightedSemaphore, StopGroup, RollingWindow,
        FakeClock, StringSet, Retry, SingleFlight, Pipeline

VARIABLE subject   \* the component that moves

standaloneVars == <<subject, logVars, metricsVars, semVars, stopVars, windowVars,
                    clockVars, setVars, retryVars, flightVars, pipeVars>>

Init ==
    /\ subject \in {"log", "metrics", "semaphore", "stop", "window", "clock", "set", "retry", "flight", "pipe"}
    /\ LogInit /\ MetricsInit /\ SemInit /\ StopInit /\ WindowInit /\ ClockInit /\ SetInit
    /\ FlightInit /\ PipeInit
    /\ IF subject = "retry" THEN RetryInit ELSE RetryInit /\ config = CHOOSE c \in Configs : TRUE

Next ==
    \/ /\ subject = "log" /\ LogNext
       /\ UNCHANGED <<subject, metricsVars, semVars, stopVars, windowVars, clockVars, setVars, retryVars, flightVars, pipeVars>>
    \/ /\ subject = "metrics" /\ MetricsNext
       /\ UNCHANGED <<subject, logVars, semVars, stopVars, windowVars, clockVars, setVars, retryVars, flightVars, pipeVars>>
    \/ /\ subject = "semaphore" /\ SemNext
       /\ UNCHANGED <<subject, logVars, metricsVars, stopVars, windowVars, clockVars, setVars, retryVars, flightVars, pipeVars>>
    \/ /\ subject = "stop" /\ StopNext
       /\ UNCHANGED <<subject, logVars, metricsVars, semVars, windowVars, clockVars, setVars, retryVars, flightVars, pipeVars>>
    \/ /\ subject = "window" /\ WindowNext
       /\ UNCHANGED <<subject, logVars, metricsVars, semVars, stopVars, clockVars, setVars, retryVars, flightVars, pipeVars>>
    \/ /\ subject = "clock" /\ ClockNext
       /\ UNCHANGED <<subject, logVars, metricsVars, semVars, stopVars, windowVars, setVars, retryVars, flightVars, pipeVars>>
    \/ /\ subject = "set" /\ SetNext
       /\ UNCHANGED <<subject, logVars, metricsVars, semVars, stopVars, windowVars, clockVars, retryVars, flightVars, pipeVars>>
    \/ /\ subject = "retry" /\ RetryNext
       /\ UNCHANGED <<subject, logVars, metricsVars, semVars, stopVars, windowVars, clockVars, setVars, flightVars, pipeVars>>
    \/ /\ subject = "flight" /\ FlightNext
       /\ UNCHANGED <<subject, logVars, metricsVars, semVars, stopVars, windowVars, clockVars, setVars, retryVars, pipeVars>>
    \/ /\ subject = "pipe" /\ PipeNext
       /\ UNCHANGED <<subject, logVars, metricsVars, semVars, stopVars, windowVars, clockVars, setVars, retryVars, flightVars>>

Spec == Init /\ [][Next]_standaloneVars

\* Every component's variables have values of their kinds, and keep the bounds
\* each module names for its own.
TypeOK ==
    /\ LogTypeOK /\ MetricsTypeOK /\ SemTypeOK /\ StopTypeOK
    /\ WindowTypeOK /\ ClockTypeOK /\ SetTypeOK /\ RetryTypeOK
    /\ FlightTypeOK /\ PipeTypeOK
=============================================================================
