------------------------------- MODULE Retry -------------------------------
(***************************************************************************)
(* Config.Do of pkg/retry/retry.go: a function is called until it succeeds,*)
(* with a wait that grows between two calls, under a context that may end. *)
(*                                                                         *)
(* An error is the number of the call that returned it.  A duration is a   *)
(* number of nanoseconds, Widest the largest int64: what a float above it  *)
(* converts to depends on the machine (the smallest int64 on amd64, the    *)
(* largest on arm64), and a sum above it is negative.                      *)
(***************************************************************************)
EXTENDS Integers, FiniteSets

CONSTANTS
    Configs,   \* the configurations it is called with
    Widest,    \* the largest duration
    Initial    \* the backoff in place of one that is not positive: 10 ms

Durations == (-Widest - 1)..Widest

ASSUME RetryConstantsOK ==
    /\ Widest \in Nat \ {0} /\ Initial \in 1..Widest
    /\ Configs \subseteq [max : Int, initial : Durations, ceiling : Durations, multiplier : Nat, jitter : BOOLEAN]

VARIABLES
    config,    \* c, as the caller gave it
    ctxErr,    \* the context has ended
    attempt,   \* the number of the call
    doing,     \* "loops", "calls", "waits", "returned"
    lastErr,   \* lastErr; 0: nil
    wait,      \* the wait
    result,    \* the errors in what Do returns; empty: nil
    outcome,   \* history: what the last call returned: "ok", "again", "never", or "none"
    endedAt    \* history: the calls made when the context ended

retryVars == <<config, ctxErr, attempt, doing, lastErr, wait, result, outcome, endedAt>>

\* The errors that are not those of a call.
ContextError == 0
NoAttempt == -1

RetryInit ==
    /\ config \in Configs
    /\ ctxErr = FALSE /\ attempt = 1 /\ doing = "loops" /\ lastErr = 0
    /\ wait = 0 /\ result = {} /\ outcome = "none" /\ endedAt = -1

\* fillDefaults
MaxAttempts == IF config.max <= 0 THEN 1 ELSE config.max
InitialBackoff == IF config.initial <= 0 THEN Initial ELSE config.initial
Multiplier == IF config.multiplier <= 1 THEN 2 ELSE config.multiplier

-----------------------------------------------------------------------------
(* nextBackoff and randomDurationUpTo *)

Ceiling(d) == IF config.ceiling > 0 /\ d > config.ceiling THEN config.ceiling ELSE d

\* The backoff after k failures, as a float: the ceiling bounds each factor but
\* not the first.
Backoff[k \in Nat] == IF k <= 1 THEN InitialBackoff ELSE Ceiling(Backoff[k - 1] * Multiplier)

\* Converted to an int64.
Converted(d) == IF d <= Widest THEN {d} ELSE {-Widest - 1, Widest}

\* randomDurationUpTo half of the wait; when the random source fails, half of that.
Jitters(d) == IF d \div 2 <= 0 THEN {0} ELSE 0..(d \div 2 - 1)

\* What nextBackoff may return: a sum that is negative, or wraps, is no wait at all.
NextBackoff(k) ==
    {IF d < 0 \/ d > Widest THEN 0 ELSE d :
        d \in UNION {{b + j : j \in IF config.jitter THEN Jitters(b) ELSE {0}} :
                        b \in {Ceiling(c) : c \in Converted(Backoff[k])}}}

-----------------------------------------------------------------------------
(* Do *)

Finish(errors) == doing' = "returned" /\ result' = errors
Known == IF lastErr = 0 THEN {} ELSE {lastErr}

\* The context ends, at any moment.
EndContext ==
    /\ ~ctxErr /\ doing # "returned"
    /\ ctxErr' = TRUE /\ endedAt' = IF doing = "loops" THEN attempt - 1 ELSE attempt
    /\ UNCHANGED <<config, attempt, doing, lastErr, wait, result, outcome>>

\* The head of the loop, and the call of the function if there is one.
Attempt ==
    /\ doing = "loops"
    /\ IF ctxErr THEN Finish(Known \cup {ContextError}) ELSE doing' = "calls" /\ UNCHANGED result
    /\ UNCHANGED <<config, ctxErr, attempt, lastErr, wait, outcome, endedAt>>

Succeed ==
    /\ doing = "calls"
    /\ outcome' = "ok" /\ Finish({})
    /\ UNCHANGED <<config, ctxErr, attempt, lastErr, wait, endedAt>>

\* Mutant: the first error is kept.
FirstError == IF lastErr # 0 THEN lastErr ELSE attempt
\* Every second error empties lastErr.
Remembered == IF lastErr # 0 THEN 0 ELSE attempt

\* IsRetryable says no: the error of this call is returned.
FailForGood ==
    /\ doing = "calls"
    /\ outcome' = "never" /\ lastErr' = Remembered /\ Finish({attempt})
    /\ UNCHANGED <<config, ctxErr, attempt, wait, endedAt>>

\* After the last call the loop is left, before it a wait begins.
Fail ==
    /\ doing = "calls"
    /\ outcome' = "again" /\ lastErr' = Remembered
    /\ IF attempt >= MaxAttempts
       THEN Finish(IF Remembered = 0 THEN {NoAttempt} ELSE {Remembered}) /\ UNCHANGED wait
       ELSE doing' = "waits" /\ wait' \in NextBackoff(attempt) /\ UNCHANGED result
    /\ UNCHANGED <<config, ctxErr, attempt, endedAt>>

\* The timer and the context, of which select takes either when both are ready.
WaitEnds ==
    /\ doing = "waits"
    /\ doing' = "loops" /\ attempt' = attempt + 1
    /\ UNCHANGED <<config, ctxErr, lastErr, wait, result, outcome, endedAt>>

WaitCut ==
    /\ doing = "waits" /\ ctxErr
    /\ Finish(Known \cup {ContextError})
    /\ UNCHANGED <<config, ctxErr, attempt, lastErr, wait, outcome, endedAt>>

RetryNext == EndContext \/ Attempt \/ Succeed \/ FailForGood \/ Fail \/ WaitEnds \/ WaitCut

-----------------------------------------------------------------------------

RetryTypeOK ==
    /\ config \in Configs /\ ctxErr \in BOOLEAN
    /\ attempt \in 1..MaxAttempts
    /\ doing \in {"loops", "calls", "waits", "returned"}
    /\ lastErr \in 0..attempt /\ wait \in 0..Widest
    /\ result \subseteq {NoAttempt, ContextError} \cup 1..attempt

\* Failures, a context that ends anywhere, extreme settings: Do returns nil only
\* after a call that succeeded; an error of a call that it returns is that of the
\* last call, and the error that says nothing was attempted stands for an even
\* number of failures; no call begins after the context has ended; a wait is never
\* longer than the ceiling and half of it, nor shorter than the first backoff or
\* the ceiling, and is dropped only without a ceiling or with one so high that half
\* of it more does not fit.
RetryHonest ==
    /\ doing = "returned" =>
        /\ result = {} <=> outcome = "ok"
        /\ \A e \in result : e > 0 => e = attempt \/ (ContextError \in result /\ e = attempt - 1)
        /\ NoAttempt \in result => outcome = "again" /\ attempt = MaxAttempts /\ attempt % 2 = 0
        /\ ContextError \in result => ctxErr
    /\ ctxErr /\ doing = "calls" => attempt = endedAt
    /\ doing = "waits" =>
        /\ config.ceiling > 0 => wait <= config.ceiling + config.ceiling \div 2
        /\ wait # 0 => wait >= InitialBackoff \/ config.ceiling \in 1..wait
        /\ wait = 0 => config.ceiling <= 0 \/ config.ceiling + config.ceiling \div 2 > Widest
=============================================================================
