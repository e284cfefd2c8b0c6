---------------------------- MODULE SingleFlight ----------------------------
(***************************************************************************)
(* Group of pkg/singleflight/singleflight.go: of the goroutines that ask   *)
(* for one key at a time, the first calls the function and the others take *)
(* its result, unless Forget sends them to a new call.                     *)
(*                                                                         *)
(* Do and DoChan differ only in who waits: here a goroutine of DoChan is a *)
(* caller like the others.  The result of a function is the number of its  *)
(* call, as a value or as an error.                                        *)
(***************************************************************************)
EXTENDS Naturals, Sequences

CONSTANTS
    Flyers,      \* goroutines that call Do or DoChan
    FlightKeys,  \* keys
    MaxFlights   \* bound: calls of the function

ASSUME FlightConstantsOK == MaxFlights \in Nat

VARIABLES
    flight,     \* the calls, in the order in which they were made
    flying,     \* g.m: the call of each key; 0: none
    flyer,      \* what each goroutine does, and with which call
    landed,     \* what it got last, until it asks again
    forgotUpTo, \* history: the calls made when Forget was last called for a key
    askedAt     \* history: forgotUpTo of its key when each goroutine asked, until it is answered

flightVars == <<flight, flying, flyer, landed, forgotUpTo, askedAt>>

NoValue == 0
Panicked == MaxFlights + 1
Nowhere == [does |-> "nothing", call |-> 0]
NoResult == [val |-> NoValue, err |-> NoValue, shared |-> FALSE, call |-> 0]

FlightInit ==
    /\ flight = <<>> /\ flying = [k \in FlightKeys |-> 0]
    /\ flyer = [p \in Flyers |-> Nowhere]
    /\ landed = [p \in Flyers |-> NoResult]
    /\ forgotUpTo = [k \in FlightKeys |-> 0] /\ askedAt = [p \in Flyers |-> 0]

\* The call of the key is joined, ...
JoinFlight(p, k) ==
    /\ flyer[p].does = "nothing" /\ flying[k] # 0
    /\ flyer' = [flyer EXCEPT ![p] = [does |-> "waits", call |-> flying[k]]]
    /\ askedAt' = [askedAt EXCEPT ![p] = forgotUpTo[k]]
    /\ landed' = [landed EXCEPT ![p] = NoResult]
    /\ UNCHANGED <<flight, flying, forgotUpTo>>

\* ... or made.
TakeOff(p, k) ==
    /\ flyer[p].does = "nothing" /\ flying[k] = 0 /\ Len(flight) < MaxFlights
    /\ flight' = Append(flight, [key |-> k, state |-> "runs", val |-> NoValue, err |-> NoValue,
                                 how |-> "none", forgotten |-> FALSE])
    /\ flying' = [flying EXCEPT ![k] = Len(flight')]
    /\ flyer' = [flyer EXCEPT ![p] = [does |-> "calls", call |-> Len(flight')]]
    /\ askedAt' = [askedAt EXCEPT ![p] = forgotUpTo[k]]
    /\ landed' = [landed EXCEPT ![p] = NoResult]
    /\ UNCHANGED forgotUpTo

\* The function returns a value or an error.  After a panic the waiters get the
\* text of the panic as a value, and no error.
FunctionEnds(p, how) ==
    LET i == flyer[p].call IN
    /\ flyer[p].does = "calls" /\ flight[i].state = "runs"
    /\ flight' = [flight EXCEPT ![i].state = "ended", ![i].how = how,
                    ![i].val = CASE how = "value" -> i [] how = "error" -> NoValue [] how = "panic" -> Panicked,
                    ![i].err = IF how = "error" THEN i ELSE NoValue]
    /\ UNCHANGED <<flying, flyer, landed, forgotUpTo, askedAt>>

\* Mutant: the key is deleted whoever has it.
Anyway(i) == TRUE
StillThere(i) == ~flight[i].forgotten /\ flying[flight[i].key] = i

\* Under the mutex the key is deleted, if it still leads here; then all are let go.
Land(p) ==
    LET i == flyer[p].call k == flight[i].key IN
    /\ flyer[p].does = "calls" /\ flight[i].state = "ended"
    /\ flight' = [flight EXCEPT ![i].state = "done"]
    /\ flying' = IF StillThere(i) THEN [flying EXCEPT ![k] = 0] ELSE flying
    /\ UNCHANGED <<flyer, landed, forgotUpTo, askedAt>>

GetResult(p) ==
    LET i == flyer[p].call IN
    /\ i # 0 /\ flight[i].state = "done"
    /\ landed' = [landed EXCEPT ![p] = [val |-> flight[i].val, err |-> flight[i].err,
                                          shared |-> flyer[p].does = "waits", call |-> i]]
    /\ flyer' = [flyer EXCEPT ![p] = Nowhere]
    /\ askedAt' = [askedAt EXCEPT ![p] = 0]
    /\ UNCHANGED <<flight, flying, forgotUpTo>>

ForgetKey(k) ==
    /\ flying[k] # 0
    /\ flight' = [flight EXCEPT ![flying[k]].forgotten = TRUE]
    /\ flying' = [flying EXCEPT ![k] = 0]
    /\ forgotUpTo' = [forgotUpTo EXCEPT ![k] = Len(flight)]
    /\ UNCHANGED <<flyer, landed, askedAt>>

FlightNext ==
    \/ \E p \in Flyers :
        \/ \E k \in FlightKeys : JoinFlight(p, k) \/ TakeOff(p, k)
        \/ \E how \in {"value", "error", "panic"} : FunctionEnds(p, how)
        \/ Land(p) \/ GetResult(p)
    \/ \E k \in FlightKeys : ForgetKey(k)

-----------------------------------------------------------------------------

FlightTypeOK ==
    /\ Len(flight) <= MaxFlights /\ flying \in [FlightKeys -> 0..Len(flight)]
    /\ \A p \in Flyers : flyer[p].call \in 0..Len(flight)
    /\ \A k \in FlightKeys : forgotUpTo[k] \in 0..Len(flight)

\* Joins, Forgets, panics and calls that overlap: of the calls of one key that
\* are under way only one has not been forgotten, and the key leads to it until
\* it is done; a goroutine gets what its call returned, a panic as a value with
\* no error, and never the result of a call made before a Forget that came
\* before its question.
FlightsApart ==
    /\ \A i, j \in DOMAIN flight :
        flight[i].key = flight[j].key /\ flight[i].state # "done" /\ flight[j].state # "done"
            /\ ~flight[i].forgotten /\ ~flight[j].forgotten => i = j
    /\ \A i \in DOMAIN flight :
        (flying[flight[i].key] = i) <=> (flight[i].state # "done" /\ ~flight[i].forgotten)
    /\ \A p \in Flyers :
        LET r == landed[p] call == flight[r.call] IN
        r.call # 0 =>
            /\ call.how = "error" <=> r.err = r.call
            /\ call.how = "value" <=> r.val = r.call
            /\ call.how = "panic" <=> r.val = Panicked /\ r.err = NoValue
    /\ \A p \in Flyers : flyer[p].call # 0 => flyer[p].call > askedAt[p]
=============================================================================
