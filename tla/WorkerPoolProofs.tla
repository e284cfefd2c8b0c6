-------------------------- MODULE WorkerPoolProofs --------------------------
(***************************************************************************)
(* What WorkerPool guarantees for every number of workers, submitters,     *)
(* callers of Stop and tasks, and every buffer: type correctness, with the *)
(* WaitGroup counting exactly the workers that live; that no accepted task *)
(* is lost or run twice; and what Stop has waited for when it returns.     *)
(***************************************************************************)
EXTENDS WorkerPool, FiniteSetTheorems, TLAPS

-----------------------------------------------------------------------------
(* The inductive invariant *)

Living == {w \in Workers : worker[w] \notin {"none", "gone"}}

Types ==
    /\ running \in BOOLEAN /\ stopped \in BOOLEAN /\ cancelled \in BOOLEAN
    /\ started \in {"no", "adding", "yes"}
    /\ queue \in Seq(Tasks) /\ Len(queue) <= BufSize
    /\ worker \in [Workers -> {"none", "ready", "busy", "gone"}]
    /\ task \in [Workers -> Tasks \cup {0}]
    /\ caller \in [Submitters -> {"idle", "send"}]
    /\ offer \in [Submitters -> Tasks \cup {0}]
    /\ stopper \in [Stoppers -> {"idle", "wait", "returned"}]
    /\ errs \in Seq(Tasks) /\ next \in Nat
    /\ accepted \subseteq Tasks /\ finished \subseteq Tasks /\ failed \subseteq Tasks
    /\ panicked \in BOOLEAN /\ rushed \in BOOLEAN

\* The workers that run have a task, and no others; a submitter that may send has
\* one to offer.
HandsFull ==
    /\ \A w \in Workers : IF worker[w] = "busy" THEN task[w] \in Tasks ELSE task[w] = 0
    /\ \A s \in Submitters : caller[s] = "send" => offer[s] \in Tasks

\* The WaitGroup.
CountOK == IsFiniteSet(Living) /\ wg = Cardinality(Living)

\* What is offered is new, and offered once.
OffersOK ==
    /\ \A t \in accepted : t < next
    /\ \A s \in Submitters : caller[s] = "send" => offer[s] < next /\ offer[s] \notin accepted
    /\ \A r, s \in Submitters :
        r # s /\ caller[r] = "send" /\ caller[s] = "send" => offer[r] # offer[s]

\* The errors are those of the tasks that have failed, and these have finished.
ErrorsOK == IsInjective(errs) /\ Range(errs) = failed /\ failed \subseteq finished

\* What Start and Stop have brought about.
PhasesOK ==
    /\ started = "no" =>
        /\ ~running /\ queue = <<>>
        /\ \A w \in Workers : worker[w] = "none"
        /\ \A s \in Submitters : caller[s] = "idle"
    /\ started = "yes" => Workers # {} /\ \A w \in Workers : worker[w] # "none"
    /\ (\E t \in Stoppers : stopper[t] # "idle") => stopped
    /\ (\E w \in Workers : worker[w] = "gone") /\ ~cancelled => stopped /\ queue = <<>>

\* When Stop has returned, nothing is left to do.
DoneOK ==
    (\E t \in Stoppers : stopper[t] = "returned") /\ ~cancelled /\ ~rushed =>
        queue = <<>> /\ \A w \in Workers : worker[w] # "busy"

IInv == /\ Types /\ HandsFull /\ CountOK /\ OffersOK /\ ExactlyOnce /\ ErrorsOK
        /\ PhasesOK /\ DoneOK

-----------------------------------------------------------------------------
(* Lemmas about the channel and the list of errors *)

\* What Append does to the set of elements and to their distinctness.
LEMMA Appended ==
    ASSUME NEW S, NEW q \in Seq(S), NEW x \in S
    PROVE  /\ Append(q, x) \in Seq(S) /\ Len(Append(q, x)) = Len(q) + 1
           /\ Range(Append(q, x)) = Range(q) \cup {x}
           /\ IsInjective(q) /\ x \notin Range(q) => IsInjective(Append(q, x))
<1> DEFINE r == Append(q, x)
<1>1. /\ r \in Seq(S) /\ Len(r) = Len(q) + 1 /\ Len(q) \in Nat
      /\ DOMAIN r = 1..Len(q) + 1 /\ DOMAIN q = 1..Len(q)
      /\ \A i \in 1..Len(q) : r[i] = q[i]
      /\ r[Len(q) + 1] = x
  OBVIOUS
<1> HIDE DEF r
<1>2. DOMAIN r = DOMAIN q \cup {Len(q) + 1}
  BY <1>1
<1>3. Range(r) = Range(q) \cup {x}
  BY <1>1, <1>2 DEF Range
<1>4. ASSUME IsInjective(q), x \notin Range(q) PROVE IsInjective(r)
  <2> SUFFICES ASSUME NEW i \in DOMAIN r, NEW j \in DOMAIN r, r[i] = r[j] PROVE i = j
    BY DEF IsInjective
  <2>1. \A k \in DOMAIN q : q[k] # x
    BY <1>4 DEF Range
  <2> QED BY <1>1, <1>2, <1>4, <2>1 DEF IsInjective
<1>5. /\ r \in Seq(S) /\ Len(r) = Len(q) + 1 /\ Range(r) = Range(q) \cup {x}
      /\ IsInjective(q) /\ x \notin Range(q) => IsInjective(r)
  BY <1>1, <1>3, <1>4
<1> QED BY <1>5, Zenon DEF r

\* What receiving from a channel that is not empty does.
LEMMA Taken ==
    ASSUME NEW S, NEW q \in Seq(S), q # <<>>
    PROVE  /\ Head(q) \in S /\ Tail(q) \in Seq(S) /\ Len(Tail(q)) = Len(q) - 1
           /\ Len(q) \in Nat \ {0}
           /\ Range(q) = Range(Tail(q)) \cup {Head(q)}
           /\ IsInjective(q) => IsInjective(Tail(q)) /\ Head(q) \notin Range(Tail(q))
<1> DEFINE r == Tail(q)
           h == Head(q)
<1>1. /\ h \in S /\ r \in Seq(S) /\ Len(r) = Len(q) - 1 /\ Len(q) \in Nat \ {0}
      /\ DOMAIN r = 1..Len(q) - 1 /\ DOMAIN q = 1..Len(q)
      /\ \A i \in 1..Len(q) - 1 : r[i] = q[i + 1]
      /\ h = q[1]
  OBVIOUS
<1> HIDE DEF r, h
<1>2. Range(q) = Range(r) \cup {h}
  <2>1. \A i \in DOMAIN q : i = 1 \/ (i - 1 \in DOMAIN r /\ q[i] = r[i - 1])
    BY <1>1
  <2>2. \A i \in DOMAIN r : i + 1 \in DOMAIN q /\ r[i] = q[i + 1]
    BY <1>1
  <2>3. 1 \in DOMAIN q
    BY <1>1
  <2>4. Range(q) \subseteq Range(r) \cup {h}
    <3> SUFFICES ASSUME NEW i \in DOMAIN q, q[i] # h PROVE q[i] \in Range(r)
      BY DEF Range
    <3>1. i - 1 \in DOMAIN r /\ q[i] = r[i - 1]
      BY <1>1, <2>1
    <3> QED BY <3>1 DEF Range
  <2>5. Range(r) \cup {h} \subseteq Range(q)
    BY <1>1, <2>2, <2>3 DEF Range
  <2> QED BY <2>4, <2>5
<1>3. ASSUME IsInjective(q) PROVE IsInjective(r) /\ h \notin Range(r)
  <2>1. \A i, j \in DOMAIN q : q[i] = q[j] => i = j
    BY <1>3 DEF IsInjective
  <2>2. ASSUME NEW i \in DOMAIN r, NEW j \in DOMAIN r, r[i] = r[j] PROVE i = j
    BY <1>1, <2>1, <2>2, SMTT(30)
  <2>3. ASSUME NEW i \in DOMAIN r PROVE r[i] # h
    BY <1>1, <2>1
  <2> QED BY <2>2, <2>3 DEF IsInjective, Range
<1> QED BY <1>1, <1>2, <1>3 DEF r, h

LEMMA EmptyQueue ==
    /\ \A S : <<>> \in Seq(S)
    /\ Len(<<>>) = 0 /\ Range(<<>>) = {} /\ IsInjective(<<>>)
BY DEF Range, IsInjective

-----------------------------------------------------------------------------
(* Type correctness *)

LEMMA TypesStep == IInv /\ [Next]_vars => Types' /\ HandsFull'
<1> SUFFICES ASSUME IInv, [Next]_vars PROVE Types' /\ HandsFull'
  OBVIOUS
<1>0. Types /\ HandsFull
  BY DEF IInv
<1> USE <1>0, PoolOK DEF Types, HandsFull
<1>1. CASE Start
  BY <1>1 DEF Start, history
<1>2. CASE CancelContext
  BY <1>2 DEF CancelContext, history
<1>3. ASSUME NEW w \in Workers, AddWorker(w) PROVE Types' /\ HandsFull'
  BY <1>3 DEF AddWorker, history
<1>4. ASSUME NEW w \in Workers, Receive(w) PROVE Types' /\ HandsFull'
  <2>1. /\ queue' \in Seq(Tasks) /\ Len(queue') <= BufSize
        /\ Head(queue) \in Tasks
    BY <1>4, Taken DEF Receive, Received
  <2> QED BY <1>4, <2>1 DEF Receive, flags, history
<1>5. ASSUME NEW w \in Workers, Quit(w) PROVE Types' /\ HandsFull'
  BY <1>5 DEF Quit, history
<1>6. ASSUME NEW w \in Workers, NEW how \in Outcomes, Execute(w, how)
      PROVE  Types' /\ HandsFull'
  <2>1. task[w] \in Tasks
    BY <1>6 DEF Execute
  <2>2. errs' \in Seq(Tasks)
    BY <1>6, <2>1, Appended DEF Execute, Recorded
  <2> QED BY <1>6, <2>1, <2>2 DEF Execute, flags
<1>7. ASSUME NEW s \in Submitters, Check(s) PROVE Types' /\ HandsFull'
  BY <1>7 DEF Check, flags, history
<1>8. ASSUME NEW s \in Submitters, Send(s) PROVE Types' /\ HandsFull'
  <2>1. /\ offer[s] \in Tasks
        /\ queue' \in Seq(Tasks) /\ Len(queue') = Len(queue) + 1 /\ Len(queue) < BufSize
    BY <1>8, Appended DEF Send
  <2>2. Len(queue) \in Nat
    OBVIOUS
  <2>3. Len(queue') <= BufSize
    BY <2>1, <2>2
  <2> QED BY <1>8, <2>1, <2>3 DEF Send, flags
<1>9. ASSUME NEW s \in Submitters, Refuse(s) PROVE Types' /\ HandsFull'
  BY <1>9 DEF Refuse, flags, history
<1>10. ASSUME NEW s \in Submitters, SendOnClosed(s) PROVE Types' /\ HandsFull'
  BY <1>10 DEF SendOnClosed, flags
<1>11. ASSUME NEW t \in Stoppers, Close(t) PROVE Types' /\ HandsFull'
  BY <1>11 DEF Close, history
<1>12. ASSUME NEW t \in Stoppers, Return(t) PROVE Types' /\ HandsFull'
  BY <1>12 DEF Return
<1>13. CASE UNCHANGED vars
  BY <1>13 DEF vars
<1> QED BY <1>1, <1>2, <1>3, <1>4, <1>5, <1>6, <1>7, <1>8, <1>9, <1>10, <1>11, <1>12,
           <1>13 DEF Next

\* Only AddWorker and Quit count, and each counts one worker.
LEMMA CountStep == IInv /\ [Next]_vars => CountOK'
<1> SUFFICES ASSUME IInv, [Next]_vars PROVE CountOK'
  OBVIOUS
<1>0. Types /\ CountOK
  BY DEF IInv
<1> USE <1>0 DEF CountOK
<1>a. ASSUME wg' = wg, Living' = Living PROVE CountOK'
  BY <1>a
<1>1. ASSUME NEW w \in Workers, AddWorker(w) PROVE CountOK'
  <2>1. Living' = Living \cup {w} /\ w \notin Living
    BY <1>1 DEF AddWorker, Living, Types
  <2> QED BY <1>1, <2>1, FS_AddElement DEF AddWorker
<1>2. ASSUME NEW w \in Workers, Quit(w) PROVE CountOK'
  <2>1. Living' = Living \ {w} /\ w \in Living
    BY <1>2 DEF Quit, Living, Types
  <2> QED BY <1>2, <2>1, FS_RemoveElement DEF Quit, Counted
<1>3. ASSUME NEW w \in Workers, Receive(w) PROVE CountOK'
  <2>1. Living' = Living
    BY <1>3 DEF Receive, Living, Types
  <2> QED BY <1>3, <1>a, <2>1 DEF Receive, flags
<1>4. ASSUME NEW w \in Workers, NEW how \in Outcomes, Execute(w, how) PROVE CountOK'
  <2>1. Living' = Living
    BY <1>4 DEF Execute, Living, Types
  <2> QED BY <1>4, <1>a, <2>1 DEF Execute, flags
<1>5. ASSUME Start \/ CancelContext \/ UNCHANGED vars
             \/ (\E s \in Submitters : Check(s) \/ Send(s) \/ Refuse(s) \/ SendOnClosed(s))
             \/ (\E t \in Stoppers : Close(t) \/ Return(t))
      PROVE  CountOK'
  BY <1>5, <1>a DEF Start, CancelContext, vars, Check, Send, Refuse, SendOnClosed, Close,
                    Return, flags, Living
<1> QED BY <1>1, <1>2, <1>3, <1>4, <1>5 DEF Next

\* A task is offered once, by one submitter.
LEMMA OffersStep == IInv /\ [Next]_vars => OffersOK'
<1> SUFFICES ASSUME IInv, [Next]_vars PROVE OffersOK'
  OBVIOUS
<1>0. Types /\ OffersOK
  BY DEF IInv
<1> USE <1>0 DEF OffersOK
<1>1. ASSUME NEW s \in Submitters, Check(s) PROVE OffersOK'
  <2>1. /\ caller' = [caller EXCEPT ![s] = "send"] /\ offer' = [offer EXCEPT ![s] = next]
        /\ next' = next + 1 /\ accepted' = accepted /\ next \in Nat
    BY <1>1 DEF Check, history, Types
  <2>2. \A t \in accepted : t \in Nat /\ t < next
    BY DEF Types, Tasks
  <2>3. \A r \in Submitters : r # s /\ caller[r] = "send" =>
            offer[r] \in Nat /\ offer[r] < next /\ offer[r] \notin accepted
    BY DEF Types, Tasks
  <2>4. \A r \in Submitters : r # s => caller'[r] = caller[r] /\ offer'[r] = offer[r]
    BY <2>1 DEF Types
  <2>5. offer'[s] = next
    BY <2>1 DEF Types
  <2> QED BY <2>1, <2>2, <2>3, <2>4, <2>5
<1>2. ASSUME NEW s \in Submitters, Send(s) PROVE OffersOK'
  BY <1>2 DEF Send, Types
<1>3. ASSUME NEW s \in Submitters, Refuse(s) \/ SendOnClosed(s) PROVE OffersOK'
  BY <1>3, ZenonT(40) DEF Refuse, SendOnClosed, history, Types
<1>4. ASSUME Start \/ CancelContext \/ UNCHANGED vars
             \/ (\E w \in Workers : AddWorker(w) \/ Receive(w) \/ Quit(w)
                                    \/ \E how \in Outcomes : Execute(w, how))
             \/ (\E t \in Stoppers : Close(t) \/ Return(t))
      PROVE  OffersOK'
  BY <1>4 DEF Start, CancelContext, vars, AddWorker, Receive, Quit, Execute, Close, Return,
              history
<1> QED BY <1>1, <1>2, <1>3, <1>4 DEF Next

-----------------------------------------------------------------------------
(* ExactlyOnce *)

LEMMA OnceStep == IInv /\ [Next]_vars => ExactlyOnce'
<1> SUFFICES ASSUME IInv, [Next]_vars PROVE ExactlyOnce'
  OBVIOUS
<1>0. Types /\ HandsFull /\ OffersOK /\ ExactlyOnce
  BY DEF IInv
<1> USE <1>0
\* A step that moves no task.
<1>a. ASSUME queue' = queue, Underway' = Underway, UNCHANGED <<accepted, finished>>,
             task' = task, \A w \in Workers : worker'[w] = "busy" <=> worker[w] = "busy"
      PROVE  ExactlyOnce'
  BY <1>a DEF ExactlyOnce, Queued
\* From the channel to a worker.
<1>1. ASSUME NEW w \in Workers, Receive(w) PROVE ExactlyOnce'
  <2> DEFINE h == Head(queue)
  <2>1. /\ queue # <<>> /\ queue' = Tail(queue) /\ worker[w] = "ready"
        /\ worker' = [worker EXCEPT ![w] = "busy"] /\ task' = [task EXCEPT ![w] = h]
        /\ UNCHANGED <<accepted, finished>>
    BY <1>1 DEF Receive, Received, history
  <2>2. /\ Queued = Queued' \cup {h} /\ h \notin Queued' /\ IsInjective(queue')
    BY <2>1, Taken DEF Queued, ExactlyOnce, Types
  <2> HIDE DEF h
  <2>3. \A v \in Workers : /\ worker'[v] = (IF v = w THEN "busy" ELSE worker[v])
                           /\ task'[v] = (IF v = w THEN h ELSE task[v])
    BY <2>1 DEF Types
  <2>4. Underway' = Underway \cup {h}
    BY <2>1, <2>3 DEF Underway
  <2>5. \A v \in Workers : worker[v] = "busy" => task[v] \in Underway
    BY DEF Underway
  <2>6. \A v \in Workers : task[v] # h
    BY <1>1, <2>2, <2>5, Taken DEF ExactlyOnce, HandsFull, Types, Tasks, h, Receive
  <2>7. \A u, v \in Workers : u # v /\ worker'[u] = "busy" => task'[u] # task'[v]
    BY <2>3, <2>6 DEF ExactlyOnce
  <2> QED BY <2>1, <2>2, <2>4, <2>7 DEF ExactlyOnce
\* From a worker to the finished ones.
<1>2. ASSUME NEW w \in Workers, NEW how \in Outcomes, Execute(w, how) PROVE ExactlyOnce'
  <2>1. /\ worker[w] = "busy" /\ finished' = finished \cup {task[w]}
        /\ worker' = [worker EXCEPT ![w] = "ready"] /\ task' = [task EXCEPT ![w] = 0]
        /\ UNCHANGED <<queue, accepted>>
    BY <1>2 DEF Execute
  <2>2. \A v \in Workers : /\ worker'[v] = (IF v = w THEN "ready" ELSE worker[v])
                           /\ task'[v] = (IF v = w THEN 0 ELSE task[v])
    BY <2>1 DEF Types
  <2>3. task[w] \in Underway /\ task[w] \in Tasks
    BY <2>1 DEF Underway, HandsFull
  <2>4. Underway' = Underway \ {task[w]}
    BY <2>1, <2>2 DEF Underway, ExactlyOnce
  <2>5. \A u, v \in Workers : u # v /\ worker'[u] = "busy" => task'[u] # task'[v]
    BY <2>1, <2>2, <2>3 DEF ExactlyOnce, HandsFull, Tasks
  <2> QED BY <2>1, <2>3, <2>4, <2>5 DEF ExactlyOnce, Queued
\* Into the channel.
<1>3. ASSUME NEW s \in Submitters, Send(s) PROVE ExactlyOnce'
  <2>1. /\ queue' = Append(queue, offer[s]) /\ accepted' = accepted \cup {offer[s]}
        /\ UNCHANGED <<worker, task, finished>> /\ caller[s] = "send"
    BY <1>3 DEF Send
  <2>2. offer[s] \in Tasks /\ offer[s] \notin accepted
    BY <2>1 DEF HandsFull, OffersOK
  <2>3. Queued' = Queued \cup {offer[s]} /\ offer[s] \notin Queued /\ IsInjective(queue')
    BY <2>1, <2>2, Appended DEF Queued, ExactlyOnce, Types
  <2>4. Underway' = Underway
    BY <2>1 DEF Underway
  <2> QED BY <2>1, <2>2, <2>3, <2>4 DEF ExactlyOnce
<1>4. ASSUME NEW w \in Workers, AddWorker(w) \/ Quit(w) PROVE ExactlyOnce'
  <2>1. /\ task' = task /\ UNCHANGED <<queue, accepted, finished>>
        /\ \A v \in Workers : worker'[v] = "busy" <=> worker[v] = "busy"
    BY <1>4 DEF AddWorker, Quit, history, Types
  <2>2. Underway' = Underway
    BY <2>1 DEF Underway
  <2> QED BY <1>a, <2>1, <2>2
<1>5. ASSUME Start \/ CancelContext \/ UNCHANGED vars
             \/ (\E s \in Submitters : Check(s) \/ Refuse(s) \/ SendOnClosed(s))
             \/ (\E t \in Stoppers : Close(t) \/ Return(t))
      PROVE  ExactlyOnce'
  <2>1. UNCHANGED <<queue, worker, task, accepted, finished>>
    BY <1>5 DEF Start, CancelContext, vars, Check, Refuse, SendOnClosed, Close, Return,
                flags, history
  <2> QED BY <1>a, <2>1 DEF Underway
<1> QED BY <1>1, <1>2, <1>3, <1>4, <1>5 DEF Next

LEMMA ErrorsStep == IInv /\ [Next]_vars => ErrorsOK'
<1> SUFFICES ASSUME IInv, [Next]_vars PROVE ErrorsOK'
  OBVIOUS
<1>0. Types /\ HandsFull /\ ExactlyOnce /\ ErrorsOK
  BY DEF IInv
<1> USE <1>0
<1>1. ASSUME NEW w \in Workers, NEW how \in Outcomes, Execute(w, how) PROVE ErrorsOK'
  <2>1. /\ worker[w] = "busy" /\ finished' = finished \cup {task[w]}
        /\ errs' = Recorded(task[w], how)
        /\ failed' = IF how \in {"error", "panic"} THEN failed \cup {task[w]} ELSE failed
    BY <1>1 DEF Execute
  <2>2. task[w] \in Tasks /\ task[w] \notin failed
    BY <2>1 DEF HandsFull, ExactlyOnce, Underway, ErrorsOK
  <2>3. CASE how \in {"error", "panic"}
    <3>1. errs' = Append(errs, task[w])
      BY <2>1, <2>3 DEF Recorded
    <3>2. Range(errs') = failed' /\ IsInjective(errs')
      BY <2>1, <2>2, <2>3, <3>1, Appended DEF ErrorsOK, Types
    <3> QED BY <2>1, <3>2 DEF ErrorsOK
  <2>4. CASE how \notin {"error", "panic"}
    BY <2>1, <2>4 DEF ErrorsOK, Recorded
  <2> QED BY <2>3, <2>4
<1>2. ASSUME Start \/ CancelContext \/ UNCHANGED vars
             \/ (\E w \in Workers : AddWorker(w) \/ Receive(w) \/ Quit(w))
             \/ (\E s \in Submitters : Check(s) \/ Send(s) \/ Refuse(s) \/ SendOnClosed(s))
             \/ (\E t \in Stoppers : Close(t) \/ Return(t))
      PROVE  ErrorsOK'
  <2>1. UNCHANGED <<errs, failed, finished>>
    BY <1>2 DEF Start, CancelContext, vars, AddWorker, Receive, Quit, Check, Send, Refuse,
                SendOnClosed, Close, Return, history
  <2> QED BY <2>1 DEF ErrorsOK
<1> QED BY <1>1, <1>2 DEF Next

-----------------------------------------------------------------------------
(* PhasesOK and DoneOK *)

LEMMA PhasesStep == IInv /\ [Next]_vars => PhasesOK'
<1> SUFFICES ASSUME IInv, [Next]_vars PROVE PhasesOK'
  OBVIOUS
<1>0. Types /\ PhasesOK
  BY DEF IInv
<1> USE <1>0 DEF PhasesOK
<1>1. CASE Start
  BY <1>1 DEF Start
<1>2. CASE CancelContext
  BY <1>2 DEF CancelContext
<1>3. ASSUME NEW w \in Workers, AddWorker(w) PROVE PhasesOK'
  BY <1>3 DEF AddWorker, Types
<1>4. ASSUME NEW w \in Workers, Receive(w) PROVE PhasesOK'
  BY <1>4 DEF Receive, flags, Types
<1>5. ASSUME NEW w \in Workers, Quit(w) PROVE PhasesOK'
  BY <1>5 DEF Quit, NothingLeft, Types
<1>6. ASSUME NEW w \in Workers, NEW how \in Outcomes, Execute(w, how) PROVE PhasesOK'
  BY <1>6 DEF Execute, flags, Types
<1>7. ASSUME NEW s \in Submitters, Check(s) PROVE PhasesOK'
  BY <1>7 DEF Check, flags, Types
<1>8. ASSUME NEW s \in Submitters, Send(s) PROVE PhasesOK'
  BY <1>8 DEF Send, flags, Types
<1>9. ASSUME NEW s \in Submitters, Refuse(s) \/ SendOnClosed(s) PROVE PhasesOK'
  BY <1>9 DEF Refuse, SendOnClosed, flags, Types
<1>10. ASSUME NEW t \in Stoppers, Close(t) PROVE PhasesOK'
  BY <1>10 DEF Close, Types
<1>11. ASSUME NEW t \in Stoppers, Return(t) PROVE PhasesOK'
  BY <1>11 DEF Return, Types
<1>12. CASE UNCHANGED vars
  BY <1>12 DEF vars
<1> QED BY <1>1, <1>2, <1>3, <1>4, <1>5, <1>6, <1>7, <1>8, <1>9, <1>10, <1>11, <1>12 DEF Next

\* The Return that Stop makes with no worker alive finds the channel empty: either
\* no worker was ever started, or the last one has found it so.
LEMMA DoneStep == IInv /\ [Next]_vars => DoneOK'
<1> SUFFICES ASSUME IInv, [Next]_vars PROVE DoneOK'
  OBVIOUS
<1>0. Types /\ CountOK /\ PhasesOK /\ DoneOK
  BY DEF IInv
<1> USE <1>0 DEF DoneOK
<1>1. ASSUME NEW t \in Stoppers, Return(t) PROVE DoneOK'
  <2>1. /\ wg = 0 /\ stopper[t] = "wait" /\ rushed' = (rushed \/ started = "adding")
        /\ UNCHANGED <<cancelled, started, queue, worker>>
    BY <1>1 DEF Return, AllDone
  <2>2. \A w \in Workers : worker[w] \in {"none", "gone"}
    <3>1. Living = {}
      BY <2>1, FS_EmptySet DEF CountOK
    <3> QED BY <3>1 DEF Living
  <2>3. ASSUME ~cancelled, ~rushed' PROVE queue = <<>>
    <3>1. CASE started = "no"
      BY <3>1 DEF PhasesOK
    <3>2. CASE started = "yes"
      BY <2>2, <2>3, <3>2 DEF PhasesOK
    <3> QED BY <2>1, <2>3, <3>1, <3>2 DEF Types
  <2> QED BY <2>1, <2>2, <2>3
<1>2. ASSUME NEW w \in Workers, AddWorker(w) PROVE DoneOK'
  BY <1>2 DEF AddWorker, history, Types
<1>3. ASSUME NEW w \in Workers, Receive(w) PROVE DoneOK'
  BY <1>3 DEF Receive, flags, history, Types
<1>4. ASSUME NEW w \in Workers, Quit(w) PROVE DoneOK'
  BY <1>4 DEF Quit, history, Types
<1>5. ASSUME NEW w \in Workers, NEW how \in Outcomes, Execute(w, how) PROVE DoneOK'
  BY <1>5 DEF Execute, flags, Types
<1>6. ASSUME NEW s \in Submitters, Send(s) PROVE DoneOK'
  BY <1>6 DEF Send, flags, PhasesOK
<1>7. ASSUME NEW t \in Stoppers, Close(t) PROVE DoneOK'
  BY <1>7 DEF Close, history, Types
<1>8. ASSUME Start \/ CancelContext \/ UNCHANGED vars
             \/ \E s \in Submitters : Check(s) \/ Refuse(s) \/ SendOnClosed(s)
      PROVE  DoneOK'
  BY <1>8 DEF Start, CancelContext, vars, Check, Refuse, SendOnClosed, flags, history
<1> QED BY <1>1, <1>2, <1>3, <1>4, <1>5, <1>6, <1>7, <1>8 DEF Next

-----------------------------------------------------------------------------
(* Theorems *)

LEMMA InitIInv == Init => IInv
<1> SUFFICES ASSUME Init PROVE IInv
  OBVIOUS
<1> USE PoolOK DEF Init
<1>1. HandsFull /\ OffersOK /\ PhasesOK /\ DoneOK
  BY DEF HandsFull, OffersOK, PhasesOK, DoneOK
<1>2. Types
  <2>1. queue \in Seq(Tasks) /\ errs \in Seq(Tasks) /\ Len(queue) <= BufSize
    BY EmptyQueue
  <2> QED BY <2>1 DEF Types
<1>3. Living = {}
  BY DEF Living
<1>4. Underway = {} /\ Queued = {} /\ IsInjective(queue)
  BY EmptyQueue DEF Underway, Queued
<1>5. ExactlyOnce
  BY <1>4 DEF ExactlyOnce
<1>6. ErrorsOK
  BY EmptyQueue DEF ErrorsOK
<1> QED BY <1>1, <1>2, <1>3, <1>5, <1>6, FS_EmptySet DEF IInv, CountOK

LEMMA Invariant == Spec => []IInv
<1>1. IInv /\ [Next]_vars => IInv'
  BY TypesStep, CountStep, OffersStep, OnceStep, ErrorsStep, PhasesStep, DoneStep DEF IInv
<1> QED BY <1>1, InitIInv, PTL DEF Spec

\* The WaitGroup counts exactly the workers that live, so wg.Done never takes it
\* below zero, and no queue exceeds its buffer (pool.go Start, worker).
THEOREM PoolTyped == Spec => []TypeOK
<1>1. IInv => TypeOK
  BY DEF IInv, Types, CountOK, Living, TypeOK
<1> QED BY <1>1, Invariant, PTL

\* A task that Submit accepted is in the channel, with one worker, or done, and in
\* one of these only, whatever Stop and the context do meanwhile (pool.go Submit,
\* SubmitWait, worker, Stop).
THEOREM NoTaskLostOrRepeated == Spec => []ExactlyOnce
BY Invariant, PTL DEF IInv

\* When Stop returns, every accepted task has run to its end, unless the context
\* was cancelled or Stop overtook the loop of Start; and the errors are those of the
\* tasks that have failed, each once (pool.go Stop, execTask).
THEOREM StopHasWaited == Spec => []StopWaits
<1>1. IInv => StopWaits
  <2> SUFFICES ASSUME IInv PROVE StopWaits
    OBVIOUS
  <2>1. IsInjective(errs) /\ Range(errs) = failed
    BY DEF IInv, ErrorsOK
  <2>2. ASSUME NEW t \in Stoppers, stopper[t] = "returned", ~cancelled, ~rushed
        PROVE  accepted = finished
    <3>1. queue = <<>> /\ \A w \in Workers : worker[w] # "busy"
      BY <2>2 DEF IInv, DoneOK
    <3>2. Queued = {} /\ Underway = {}
      BY <3>1, EmptyQueue DEF Queued, Underway
    <3> QED BY <3>2 DEF IInv, ExactlyOnce
  <2> QED BY <2>1, <2>2 DEF StopWaits
<1> QED BY <1>1, Invariant, PTL
=============================================================================
