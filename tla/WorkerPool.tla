----------------------------- MODULE WorkerPool -----------------------------
(***************************************************************************)
(* Pool of pkg/workerpool/pool.go: a buffered channel of tasks, workers    *)
(* that receive from it until it is closed or the context ends, callers of *)
(* Submit and SubmitWait, and callers of Stop.                             *)
(*                                                                         *)
(* Submit looks at stopped under the mutex and sends after it has released *)
(* it; Start sets running before it adds its workers to the WaitGroup.     *)
(* Stop may come in between in both cases.                                 *)
(***************************************************************************)
EXTENDS Naturals, Sequences, FiniteSets, Functions

CONSTANTS
    Workers,     \* the goroutines of Start
    Submitters,  \* goroutines that call Submit and SubmitWait
    Stoppers,    \* goroutines that call Stop
    NTasks,      \* bound: tasks that are submitted
    BufSize      \* the buffer of the channel

\* WithBuffer(0), an unbuffered channel, is left out.
ASSUME PoolOK == BufSize \in Nat \ {0} /\ NTasks \in Nat

\* In the order they are submitted.
Tasks == 1..NTasks

VARIABLES
    running,    \* the atomic flag
    stopped,    \* the flag under the mutex; the channel is closed with it
    cancelled,  \* the context given to Start has ended
    started,    \* "no", "adding" while Start is in its loop, "yes"
    wg,         \* the WaitGroup
    queue,      \* the channel
    worker,     \* where each worker is
    task,       \* the task it runs, 0 when there is none
    caller,     \* what each submitter does
    offer,      \* the task it submits
    stopper,    \* where each caller of Stop is
    errs,       \* tasks whose error was recorded, in order
    next,       \* the next task
    accepted,   \* history: tasks whose Submit has returned nil
    finished,   \* history: tasks whose function has returned
    failed,     \* history: tasks that returned an error or panicked
    panicked,   \* history: some Submit has sent on the closed channel
    rushed      \* history: Stop has passed wg.Wait while Start was still adding

flags == <<running, stopped, cancelled, started, wg>>
history == <<accepted, finished, failed, panicked, rushed>>
vars == <<running, stopped, cancelled, started, wg, queue, worker, task, caller, offer,
          stopper, errs, next, accepted, finished, failed, panicked, rushed>>

Init ==
    /\ running = FALSE /\ stopped = FALSE /\ cancelled = FALSE
    /\ started = "no" /\ wg = 0
    /\ queue = <<>>
    /\ worker = [w \in Workers |-> "none"] /\ task = [w \in Workers |-> 0]
    /\ caller = [s \in Submitters |-> "idle"] /\ offer = [s \in Submitters |-> 0]
    /\ stopper = [t \in Stoppers |-> "idle"]
    /\ errs = <<>> /\ next = 1
    /\ accepted = {} /\ finished = {} /\ failed = {} /\ panicked = FALSE /\ rushed = FALSE

-----------------------------------------------------------------------------
(* Start *)

Start ==
    /\ ~running /\ started = "no"
    /\ running' = TRUE /\ started' = "adding"
    /\ UNCHANGED <<stopped, cancelled, wg, queue, worker, task, caller, offer, stopper, errs, next,
                   history>>

\* One turn of the loop: wg.Add, go.
AddWorker(w) ==
    /\ started = "adding" /\ worker[w] = "none"
    /\ wg' = wg + 1
    /\ worker' = [worker EXCEPT ![w] = "ready"]
    /\ started' = IF \A v \in Workers \ {w} : worker[v] # "none" THEN "yes" ELSE "adding"
    /\ UNCHANGED <<running, stopped, cancelled, queue, task, caller, offer, stopper, errs, next,
                   history>>

CancelContext ==
    /\ started # "no" /\ ~cancelled
    /\ cancelled' = TRUE
    /\ UNCHANGED <<running, stopped, started, wg, queue, worker, task, caller, offer, stopper, errs,
                   next, history>>

-----------------------------------------------------------------------------
(* Workers *)

\* Mutant: a task is run and left in the channel.
NotReceived(q) == q
Received(q) == Tail(q)

Receive(w) ==
    /\ worker[w] = "ready" /\ queue # <<>>
    /\ worker' = [worker EXCEPT ![w] = "busy"] /\ task' = [task EXCEPT ![w] = Head(queue)]
    /\ queue' = Received(queue)
    /\ UNCHANGED <<flags, caller, offer, stopper, errs, next, history>>

\* A closed and empty channel, or the context, ends the worker.  select chooses
\* freely when a task is there too.
\* Mutant: a closed channel ends the worker before it is empty.
ClosedIsEnough == stopped
\* Mutant: Stop does not close the channel.
NotClosed == FALSE
NothingLeft == stopped /\ queue = <<>>

\* Mutant: the worker ends without wg.Done.
NotCounted == wg
Counted == wg - 1

Quit(w) ==
    /\ worker[w] = "ready"
    /\ cancelled \/ NothingLeft
    /\ worker' = [worker EXCEPT ![w] = "gone"]
    /\ wg' = Counted
    /\ UNCHANGED <<running, stopped, cancelled, started, queue, task, caller, offer, stopper, errs,
                   next, history>>

Recorded(t, how) == IF how \in {"error", "panic"} THEN Append(errs, t) ELSE errs

\* The function returns nil, an error, or an error of an ended context, which is
\* not recorded, or it panics and is recovered (ignorePanics, the default).
Outcomes == {"ok", "error", "canceled", "panic"}

\* execTask
Execute(w, how) ==
    /\ worker[w] = "busy"
    /\ errs' = Recorded(task[w], how)
    /\ finished' = finished \cup {task[w]}
    /\ failed' = IF how \in {"error", "panic"} THEN failed \cup {task[w]} ELSE failed
    /\ worker' = [worker EXCEPT ![w] = "ready"] /\ task' = [task EXCEPT ![w] = 0]
    /\ UNCHANGED <<flags, queue, caller, offer, stopper, next, accepted, panicked, rushed>>

-----------------------------------------------------------------------------
(* Submit and SubmitWait *)

\* Mutant: stopped is not looked at.
AlwaysOpen == TRUE
Accepting == ~stopped

\* running, then stopped under the mutex; the caller goes on only if it may send.
Check(s) ==
    /\ caller[s] = "idle" /\ next \in Tasks
    /\ running /\ Accepting
    /\ caller' = [caller EXCEPT ![s] = "send"]
    /\ offer' = [offer EXCEPT ![s] = next]
    /\ next' = next + 1
    /\ UNCHANGED <<flags, queue, worker, task, stopper, errs, history>>

Send(s) ==
    /\ caller[s] = "send" /\ ~stopped /\ Len(queue) < BufSize
    /\ queue' = Append(queue, offer[s])
    /\ accepted' = accepted \cup {offer[s]}
    /\ caller' = [caller EXCEPT ![s] = "idle"]
    /\ UNCHANGED <<flags, worker, task, offer, stopper, errs, next, finished, failed, panicked,
                   rushed>>

\* "task queue full" of Submit, or the context of SubmitWait.
Refuse(s) ==
    /\ caller[s] = "send" /\ ~stopped
    /\ caller' = [caller EXCEPT ![s] = "idle"]
    /\ UNCHANGED <<flags, queue, worker, task, offer, stopper, errs, next, history>>

\* Stop has closed the channel since the check: the send panics.
SendOnClosed(s) ==
    /\ caller[s] = "send" /\ stopped
    /\ caller' = [caller EXCEPT ![s] = "idle"]
    /\ panicked' = TRUE
    /\ UNCHANGED <<flags, queue, worker, task, offer, stopper, errs, next, accepted, finished, failed,
                   rushed>>

-----------------------------------------------------------------------------
(* Stop *)

\* The first caller closes the channel; every caller waits.
Close(t) ==
    /\ stopper[t] = "idle"
    /\ stopped' = TRUE
    /\ stopper' = [stopper EXCEPT ![t] = "wait"]
    /\ UNCHANGED <<running, cancelled, started, wg, queue, worker, task, caller, offer, errs, next,
                   history>>

\* Mutant: Stop does not wait for the workers.
NoWait == TRUE
AllDone == wg = 0

\* wg.Wait returns, running is cleared, the errors are read and returned.
Return(t) ==
    /\ stopper[t] = "wait" /\ AllDone
    /\ running' = FALSE
    /\ rushed' = (rushed \/ started = "adding")
    /\ stopper' = [stopper EXCEPT ![t] = "returned"]
    /\ UNCHANGED <<stopped, cancelled, started, wg, queue, worker, task, caller, offer, errs, next,
                   accepted, finished, failed, panicked>>

Next ==
    \/ Start \/ CancelContext
    \/ \E w \in Workers :
        \/ AddWorker(w) \/ Receive(w) \/ Quit(w)
        \/ \E how \in Outcomes : Execute(w, how)
    \/ \E s \in Submitters : Check(s) \/ Send(s) \/ Refuse(s) \/ SendOnClosed(s)
    \/ \E t \in Stoppers : Close(t) \/ Return(t)

Spec == Init /\ [][Next]_vars

\* The loop of Start, the workers and the callers of Stop are scheduled, and the
\* functions of the tasks return.
Fairness ==
    /\ \A w \in Workers :
        /\ WF_vars(AddWorker(w))
        /\ WF_vars(Receive(w) \/ Quit(w))
        /\ WF_vars(\E how \in Outcomes : Execute(w, how))
    /\ \A t \in Stoppers : WF_vars(Return(t))

FairSpec == Spec /\ Fairness

-----------------------------------------------------------------------------
(* Properties *)

\* Every variable has a value of its kind; in particular the WaitGroup counts
\* exactly the workers that live (a count below zero would panic).
TypeOK ==
    /\ running \in BOOLEAN /\ stopped \in BOOLEAN /\ cancelled \in BOOLEAN
    /\ started \in {"no", "adding", "yes"}
    /\ wg = Cardinality({w \in Workers : worker[w] \notin {"none", "gone"}})
    /\ queue \in Seq(Tasks) /\ Len(queue) <= BufSize
    /\ worker \in [Workers -> {"none", "ready", "busy", "gone"}]
    /\ task \in [Workers -> Tasks \cup {0}]
    /\ caller \in [Submitters -> {"idle", "send"}]
    /\ offer \in [Submitters -> Tasks \cup {0}]
    /\ stopper \in [Stoppers -> {"idle", "wait", "returned"}]
    /\ errs \in Seq(Tasks) /\ next \in Nat
    /\ accepted \subseteq Tasks /\ finished \subseteq Tasks /\ failed \subseteq Tasks
    /\ panicked \in BOOLEAN /\ rushed \in BOOLEAN

Queued == Range(queue)
Underway == {task[w] : w \in {v \in Workers : worker[v] = "busy"}}

\* A task that Submit has accepted is in one place: in the channel, with one
\* worker, or done; none is lost, and none is run twice, whatever Stop and the
\* context do meanwhile.
ExactlyOnce ==
    /\ accepted = Queued \cup Underway \cup finished
    /\ Queued \cap Underway = {} /\ (Queued \cup Underway) \cap finished = {}
    /\ IsInjective(queue)
    /\ \A v, w \in Workers : v # w /\ worker[v] = "busy" => task[v] # task[w]

\* When Stop has returned, every accepted task has been run to its end, unless
\* the context was cancelled (the rest of the channel is then dropped) or Stop
\* overtook Start; and at any moment the errors it would return are those of all
\* tasks that have failed, each once, and those of no other.
StopWaits ==
    /\ (\E t \in Stoppers : stopper[t] = "returned") /\ ~cancelled /\ ~rushed
        => accepted = finished
    /\ IsInjective(errs) /\ Range(errs) = failed

\* Stop returns, whatever is queued and however many callers it has.
StopReturns == \A t \in Stoppers : stopper[t] = "wait" ~> stopper[t] = "returned"
=============================================================================
