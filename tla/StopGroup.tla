----------------------------- MODULE StopGroup -----------------------------
(***************************************************************************)
(* Group of pkg/stopctrl/group.go: components that are added and report    *)
(* their end, hooks, and a Stop that cancels the context, runs the hooks   *)
(* from the last to the first and waits for the components.                *)
(*                                                                         *)
(* Add tests the context and adds in two steps, and Stop may be called by  *)
(* several goroutines.  A Stop that has errors to report panics (its index *)
(* is past the end of them), so its result is nil or a panic.              *)
(***************************************************************************)
EXTENDS Naturals, Sequences, SequencesExt, FiniteSets

CONSTANTS
    Parts,     \* components started by Go
    Hooks,     \* functions given to OnStop
    Stoppers   \* goroutines that call Stop

ASSUME StopConstantsOK == IsFiniteSet(Parts) /\ Parts \cap (Stoppers \X Hooks) = {}

VARIABLES
    canceled,  \* the context is done
    part,      \* Go of each component: "new", "tested", "runs", "ending", "ended"
    counter,   \* the WaitGroup
    hooks,     \* registered hooks
    errs,      \* who has reported an error
    stop,      \* Stop of each stopper: "new", "hooks", "waits", "nil", "panics"
    todo,      \* the hooks it has yet to run
    counted,   \* its goroutine has seen the WaitGroup at zero
    timedOut,  \* it has not waited to the end
    late,      \* history: components added when the context was done
    failed,    \* history: components, and hooks with who ran them, that have failed
    ran        \* history: the hooks each stopper has run, in order

stopVars == <<canceled, part, counter, hooks, errs, stop, todo, counted, timedOut, late, failed, ran>>

StopInit ==
    /\ canceled = FALSE /\ part = [c \in Parts |-> "new"] /\ counter = 0
    /\ hooks = <<>> /\ errs = {}
    /\ stop = [s \in Stoppers |-> "new"] /\ todo = [s \in Stoppers |-> <<>>]
    /\ counted = [s \in Stoppers |-> FALSE] /\ timedOut = {}
    /\ late = {} /\ failed = {} /\ ran = [s \in Stoppers |-> <<>>]

-----------------------------------------------------------------------------
(* Add, Go and OnStop *)

\* The parent context is cancelled, with no Stop.
ParentEnds ==
    /\ ~canceled /\ canceled' = TRUE
    /\ UNCHANGED <<part, counter, hooks, errs, stop, todo, counted, timedOut, late, failed, ran>>

\* Add: the context is tested (an error, and nothing is started, when it is done), ...
TestContext(c) ==
    /\ part[c] = "new" /\ ~canceled
    /\ part' = [part EXCEPT ![c] = "tested"]
    /\ UNCHANGED <<canceled, counter, hooks, errs, stop, todo, counted, timedOut, late, failed, ran>>

\* ... and then the component is added.
Join(c) ==
    /\ part[c] = "tested"
    /\ part' = [part EXCEPT ![c] = "runs"] /\ counter' = counter + 1
    /\ late' = IF canceled THEN late \cup {c} ELSE late
    /\ UNCHANGED <<canceled, hooks, errs, stop, todo, counted, timedOut, failed, ran>>

\* The function returns; an error or a panic is recorded, ...
Return(c, fails) ==
    /\ part[c] = "runs"
    /\ part' = [part EXCEPT ![c] = "ending"]
    /\ errs' = IF fails THEN errs \cup {c} ELSE errs
    /\ failed' = IF fails THEN failed \cup {c} ELSE failed
    /\ UNCHANGED <<canceled, counter, hooks, stop, todo, counted, timedOut, late, ran>>

Recorded(c) == part[c] = "ending"

\* ... and Done runs, deferred first and so executed last.
Done(c) ==
    /\ Recorded(c)
    /\ part' = [part EXCEPT ![c] = "ended"] /\ counter' = counter - 1
    /\ UNCHANGED <<canceled, hooks, errs, stop, todo, counted, timedOut, late, failed, ran>>

OnStop(h) ==
    /\ h \notin ToSet(hooks)
    /\ hooks' = Append(hooks, h)
    /\ UNCHANGED <<canceled, part, counter, errs, stop, todo, counted, timedOut, late, failed, ran>>

-----------------------------------------------------------------------------
(* Stop *)

LastFirst == Reverse(hooks)

\* cancel, once, and a copy of the hooks: a second Stop runs them again.
StopBegins(s) ==
    /\ stop[s] = "new"
    /\ canceled' = TRUE
    /\ stop' = [stop EXCEPT ![s] = "hooks"] /\ todo' = [todo EXCEPT ![s] = LastFirst]
    /\ UNCHANGED <<part, counter, hooks, errs, counted, timedOut, late, failed, ran>>

RunHook(s, fails) ==
    /\ stop[s] = "hooks" /\ todo[s] # <<>>
    /\ todo' = [todo EXCEPT ![s] = Tail(@)] /\ ran' = [ran EXCEPT ![s] = Append(@, Head(todo[s]))]
    /\ errs' = IF fails THEN errs \cup {Head(todo[s])} ELSE errs
    /\ failed' = IF fails THEN failed \cup {<<s, Head(todo[s])>>} ELSE failed
    /\ UNCHANGED <<canceled, part, counter, hooks, stop, counted, timedOut, late>>

HooksDone(s) ==
    /\ stop[s] = "hooks" /\ todo[s] = <<>>
    /\ stop' = [stop EXCEPT ![s] = "waits"]
    /\ UNCHANGED <<canceled, part, counter, hooks, errs, todo, counted, timedOut, late, failed, ran>>

\* Mutant: nobody is waited for.
DoNotWait == TRUE
NobodyLeft == counter = 0

\* wg.Wait() of the goroutine that closes the channel.
Counted(s) ==
    /\ stop[s] = "waits" /\ ~counted[s] /\ NobodyLeft
    /\ counted' = [counted EXCEPT ![s] = TRUE]
    /\ UNCHANGED <<canceled, part, counter, hooks, errs, stop, todo, timedOut, late, failed, ran>>

\* The timeout, which select may prefer; it is an error like the others.
TimesOut(s) ==
    /\ stop[s] = "waits" /\ s \notin timedOut
    /\ timedOut' = timedOut \cup {s} /\ errs' = errs \cup {s}
    /\ UNCHANGED <<canceled, part, counter, hooks, stop, todo, counted, late, failed, ran>>

StopReturns(s) ==
    /\ stop[s] = "waits" /\ (counted[s] \/ s \in timedOut)
    /\ stop' = [stop EXCEPT ![s] = IF errs = {} THEN "nil" ELSE "panics"]
    /\ UNCHANGED <<canceled, part, counter, hooks, errs, todo, counted, timedOut, late, failed, ran>>

StopNext ==
    \/ ParentEnds
    \/ \E c \in Parts : TestContext(c) \/ Join(c) \/ Done(c) \/ \E fails \in BOOLEAN : Return(c, fails)
    \/ \E h \in Hooks : OnStop(h)
    \/ \E s \in Stoppers :
        \/ StopBegins(s) \/ HooksDone(s) \/ Counted(s) \/ TimesOut(s) \/ StopReturns(s)
        \/ \E fails \in BOOLEAN : RunHook(s, fails)

-----------------------------------------------------------------------------

StopTypeOK ==
    /\ canceled \in BOOLEAN
    /\ part \in [Parts -> {"new", "tested", "runs", "ending", "ended"}]
    /\ counter = Cardinality({c \in Parts : part[c] \in {"runs", "ending"}})
    /\ hooks \in Seq(Hooks) /\ \A s \in Stoppers : todo[s] \in Seq(Hooks)
    /\ errs \subseteq Parts \cup Hooks \cup Stoppers
    /\ stop \in [Stoppers -> {"new", "hooks", "waits", "nil", "panics"}]

\* Components that come and end, hooks that fail, a second Stop and the end of
\* the parent context: when a Stop that has not timed out returns, no component
\* is left but those whose Add was between its test and its addition when the
\* context ended; a Stop that returns nil has run its hooks, the ones that were
\* registered first, each after those registered later, and none of these hooks or of the components it waited
\* for has failed.
StopWaitsForAll ==
    \A s \in Stoppers :
        /\ stop[s] \in {"nil", "panics"} /\ s \notin timedOut =>
            \A c \in Parts \ late : part[c] \notin {"runs", "ending"}
        /\ stop[s] = "nil" =>
            /\ todo[s] = <<>> /\ s \notin timedOut
            /\ ran[s] = Reverse(SubSeq(hooks, 1, Len(ran[s])))
            /\ \A h \in Hooks : <<s, h>> \notin failed
            /\ \A c \in Parts \ late : c \notin failed
=============================================================================
