--------------------------- MODULE CallbackQueue ---------------------------
(***************************************************************************)
(* The server's callback queue (server/utils/callbackqueue.go): a bounded   *)
(* Go channel served by a fixed pool of goroutines.  Every websocket        *)
(* broadcast, webhook and notification of the app layer goes through one    *)
(* instance of it (App.blockChangeNotifier).                                *)
(*                                                                          *)
(* The channel is modelled by the log of everything ever sent on it and a   *)
(* read cursor.  The first QueueSize unread entries are the buffer; the     *)
(* entries behind them belong to senders that are blocked, in the FIFO      *)
(* order in which the Go runtime releases them.                             *)
(***************************************************************************)
EXTENDS Naturals, Sequences

CONSTANTS
  Callbacks,  \* the callbacks, one per call of Enqueue
  Workers,    \* the pool threads, NewCallbackQueue's poolSize of them
  Stoppers,   \* the callers of Shutdown
  QueueSize,  \* capacity of the channel
  Spawns,     \* the callback that the execution of a callback enqueues, or NoCallback
  NoCallback

ASSUME QueueSizeAssumption == QueueSize \in Nat \ {0}
ASSUME NoCallbackAssumption == NoCallback \notin Callbacks \cup Stoppers
ASSUME ThreadsAssumption == Workers # {} /\ Workers \cap Stoppers = {}
ASSUME SpawnsAssumption == Spawns \in [Callbacks -> Callbacks \cup {NoCallback}]

Threads == Workers \cup Stoppers

VARIABLES
  enq,       \* where the Enqueue call of each callback is
  sent,      \* everything sent on the queue channel, in order
  taken,     \* how many entries of sent have been received
  running,   \* the callback each thread executes, or NoCallback
  finished,  \* the callbacks whose execution ended, in that order
  closer,    \* the Shutdown call that set idone, NoCallback while idone is 0
  done,      \* has the done channel been closed?
  exited,    \* the pool threads that left their loop and sent on alive
  joined,    \* those whose message on alive Shutdown has received
  phase,     \* where each call of Shutdown is; "true" and "false" are results
  accepted   \* history: what had been sent when idone was set

quVars == <<enq, sent, taken, running, finished, closer, done, exited, joined,
          phase, accepted>>

Idone == closer # NoCallback
Sent == {f \in Callbacks : enq[f] = "sent"}
Finished == {finished[i] : i \in DOMAIN finished}

\* The sender of f is blocked: the buffer is full of earlier entries.
Blocked(f) == \E i \in DOMAIN sent : i > taken + QueueSize /\ sent[i] = f

\* Thread t is inside the Enqueue call made by the callback it executes.
InNestedEnqueue(t) ==
  /\ running[t] # NoCallback
  /\ LET f == Spawns[running[t]]
     IN f # NoCallback /\ (enq[f] = "admitted" \/ Blocked(f))

QuTypeOK ==
  /\ enq \in [Callbacks -> {"new", "skipped", "admitted", "sent"}]
  /\ sent \in Seq(Callbacks)
  /\ taken \in 0..Len(sent)
  /\ running \in [Threads -> Callbacks \cup {NoCallback}]
  /\ finished \in Seq(Callbacks)
  /\ closer \in Stoppers \cup {NoCallback}
  /\ done \in BOOLEAN
  /\ exited \in SUBSET Workers
  /\ joined \in SUBSET exited
  /\ phase \in [Stoppers -> {"idle", "closing", "joining", "draining", "true", "false"}]
  /\ accepted \in SUBSET Callbacks

QuInit ==
  /\ enq = [f \in Callbacks |-> "new"]
  /\ sent = <<>>
  /\ taken = 0
  /\ running = [t \in Threads |-> NoCallback]
  /\ finished = <<>>
  /\ closer = NoCallback
  /\ done = FALSE
  /\ exited = {}
  /\ joined = {}
  /\ phase = [s \in Stoppers |-> "idle"]
  /\ accepted = {}

----------------------------------------------------------------------------
(***************************************************************************)
(* Enqueue: the test of idone and the send are two steps.                   *)
(***************************************************************************)

\* A callback that another one enqueues is new only while that one executes.
Callable(f) ==
  (\E g \in Callbacks : Spawns[g] = f) =>
    \E t \in Threads : running[t] # NoCallback /\ Spawns[running[t]] = f

EnqueueCheck(f) ==
  /\ enq[f] = "new"
  /\ Callable(f)
  /\ enq' = [enq EXCEPT ![f] = IF Idone THEN "skipped" ELSE "admitted"]
  /\ UNCHANGED <<sent, taken, running, finished, closer, done, exited, joined, phase, accepted>>

EnqueueSend(f) ==
  /\ enq[f] = "admitted"
  /\ enq' = [enq EXCEPT ![f] = "sent"]
  /\ sent' = Append(sent, f)
  /\ UNCHANGED <<taken, running, finished, closer, done, exited, joined, phase, accepted>>

----------------------------------------------------------------------------
(***************************************************************************)
(* The pool threads.  With both channels ready, select picks either.        *)
(***************************************************************************)

\* Mutant of Receive: the entry is read but stays on the channel.
ReceivePeeks(t) ==
  /\ running[t] = NoCallback
  /\ taken < Len(sent)
  /\ running' = [running EXCEPT ![t] = sent[taken + 1]]
  /\ UNCHANGED <<enq, sent, taken, finished, closer, done, exited, joined, phase, accepted>>

\* Receive the oldest entry; exec starts.
Receive(t) ==
  /\ running[t] = NoCallback
  /\ taken < Len(sent)
  /\ running' = [running EXCEPT ![t] = sent[taken + 1]]
  /\ taken' = taken + 1
  /\ UNCHANGED <<enq, sent, finished, closer, done, exited, joined, phase, accepted>>

WorkerReceive(w) == w \notin exited /\ Receive(w)

\* Mutant of Finish: exec does not recover, so a panic ends the thread.
FinishNoRecover(t) ==
  /\ running[t] # NoCallback
  /\ ~InNestedEnqueue(t)
  /\ finished' = Append(finished, running[t])
  /\ running' = [running EXCEPT ![t] = NoCallback]
  /\ exited' \in {exited, exited \cup ({t} \cap Workers)}
  /\ UNCHANGED <<enq, sent, taken, closer, done, joined, phase, accepted>>

\* exec returns, normally, with an error or after recovering from a panic;
\* in the last two cases a nested Enqueue may not have been called.
Finish(t) ==
  /\ running[t] # NoCallback
  /\ ~InNestedEnqueue(t)
  /\ finished' = Append(finished, running[t])
  /\ running' = [running EXCEPT ![t] = NoCallback]
  /\ UNCHANGED <<enq, sent, taken, closer, done, exited, joined, phase, accepted>>

\* The thread sees done closed, leaves its loop and sends on alive (which has
\* room for every thread).
WorkerExit(w) ==
  /\ w \notin exited
  /\ running[w] = NoCallback
  /\ done
  /\ exited' = exited \cup {w}
  /\ UNCHANGED <<enq, sent, taken, running, finished, closer, done, joined, phase, accepted>>

----------------------------------------------------------------------------
(***************************************************************************)
(* Shutdown.  Its context may expire at any time.                           *)
(***************************************************************************)

\* The compare-and-swap of idone, and the early return of a later call.
ShutdownBegin(s) ==
  /\ phase[s] = "idle"
  /\ \/ /\ Idone
        /\ phase' = [phase EXCEPT ![s] = "true"]
        /\ UNCHANGED <<closer, accepted>>
     \/ /\ ~Idone
        /\ phase' = [phase EXCEPT ![s] = "closing"]
        /\ closer' = s
        /\ accepted' = Sent
  /\ UNCHANGED <<enq, sent, taken, running, finished, done, exited, joined>>

\* Let the threads go, then wait for them.
ShutdownClose(s) ==
  /\ phase[s] = "closing"
  /\ done' = TRUE
  /\ phase' = [phase EXCEPT ![s] = "joining"]
  /\ UNCHANGED <<enq, sent, taken, running, finished, closer, exited, joined, accepted>>

\* Mutant of ShutdownJoin: the first thread that exits is enough.
ShutdownJoinFirst(s) ==
  /\ phase[s] = "joining"
  /\ \E w \in exited \ joined :
       /\ joined' = joined \cup {w}
       /\ phase' = [phase EXCEPT ![s] = "draining"]
  /\ UNCHANGED <<enq, sent, taken, running, finished, closer, done, exited, accepted>>

\* Receive one message of alive; count reaches poolSize with the last one.
ShutdownJoin(s) ==
  /\ phase[s] = "joining"
  /\ \E w \in exited \ joined :
       /\ joined' = joined \cup {w}
       /\ phase' = [phase EXCEPT ![s] = IF joined' = Workers THEN "draining" ELSE "joining"]
  /\ UNCHANGED <<enq, sent, taken, running, finished, closer, done, exited, accepted>>

ShutdownDrain(s) == phase[s] = "draining" /\ Receive(s)

\* Mutant of ShutdownDrained: returns without emptying the channel.
ShutdownNoDrain(s) ==
  /\ phase[s] = "draining"
  /\ running[s] = NoCallback
  /\ phase' = [phase EXCEPT ![s] = "true"]
  /\ UNCHANGED <<enq, sent, taken, running, finished, closer, done, exited, joined, accepted>>

ShutdownDrained(s) ==
  /\ phase[s] = "draining"
  /\ running[s] = NoCallback
  /\ taken = Len(sent)
  /\ phase' = [phase EXCEPT ![s] = "true"]
  /\ UNCHANGED <<enq, sent, taken, running, finished, closer, done, exited, joined, accepted>>

ShutdownTimeout(s) ==
  /\ phase[s] \in {"joining", "draining"}
  /\ running[s] = NoCallback
  /\ phase' = [phase EXCEPT ![s] = "false"]
  /\ UNCHANGED <<enq, sent, taken, running, finished, closer, done, exited, joined, accepted>>

----------------------------------------------------------------------------
Worker(w) == WorkerReceive(w) \/ WorkerExit(w)

Stopper(s) == \/ ShutdownClose(s) \/ ShutdownJoin(s)
              \/ ShutdownDrain(s) \/ ShutdownDrained(s)

QuNext ==
  \/ \E f \in Callbacks : EnqueueCheck(f) \/ EnqueueSend(f)
  \/ \E w \in Workers : WorkerReceive(w) \/ WorkerExit(w)
  \/ \E t \in Threads : Finish(t)
  \/ \E s \in Stoppers :
       \/ ShutdownBegin(s) \/ ShutdownClose(s) \/ ShutdownJoin(s)
       \/ ShutdownDrain(s) \/ ShutdownDrained(s) \/ ShutdownTimeout(s)

(***************************************************************************)
(* The Go scheduler runs every goroutine that can proceed, and callbacks    *)
(* return.  Whether anybody calls Enqueue or Shutdown, and whether a        *)
(* context expires, is up to the environment.                               *)
(***************************************************************************)
Fairness ==
  /\ \A f \in Callbacks : WF_quVars(EnqueueSend(f))
  /\ \A w \in Workers : WF_quVars(Worker(w))
  /\ \A t \in Threads : WF_quVars(Finish(t))
  /\ \A s \in Stoppers : WF_quVars(Stopper(s))

QuSpec == QuInit /\ [][QuNext]_quVars /\ Fairness

----------------------------------------------------------------------------
(***************************************************************************)
(* What the queue promises.                                                 *)
(***************************************************************************)

\* The Shutdown call that does the work has returned true.
ShutDown == Idone /\ phase[closer] = "true"

\* Callbacks execute at most once and none that was received disappears: the
\* received ones are those that are executing, on one thread each, and those
\* that have finished, once each (Enqueue, loop, exec, drain loop).
ExecutedOnce ==
  /\ \A i, j \in DOMAIN finished : finished[i] = finished[j] => i = j
  /\ \A t \in Threads :
       running[t] # NoCallback =>
         /\ running[t] \notin Finished
         /\ \A u \in Threads : running[u] = running[t] => u = t
  /\ {sent[i] : i \in 1..taken} =
       Finished \cup ({running[t] : t \in Threads} \ {NoCallback})

\* "Returns true if the pool exited": when the call that shuts the queue down
\* returns true no pool thread is left, and nothing executes any more.
PoolExited ==
  ShutDown => exited = Workers /\ \A t \in Threads : running[t] = NoCallback

\* The same call has had every callback executed that had been sent before it
\* began, whichever of the pool threads and the drain loop received it (the
\* test counts all its callbacks after Shutdown returns true).
NothingDropped == ShutDown => accepted \subseteq Finished

\* "... no guarantees regarding the order in which they finish (unless
\* poolSize == 1)": with one thread callbacks finish in the order in which
\* they were enqueued, those left to the drain loop of Shutdown included.
FinishInOrder ==
  \A i \in DOMAIN finished : i <= Len(sent) /\ finished[i] = sent[i]

\* Every callback that was sent executes, unless the queue is shut down or
\* every thread is blocked enqueuing into the full channel it should empty.
Stalled == \A w \in Workers : InNestedEnqueue(w)

EventuallyExecuted ==
  \A f \in Callbacks : enq[f] = "sent" ~> (f \in Finished \/ Idone \/ Stalled)

\* Once done is closed every pool thread leaves, or is blocked for want of a
\* receiver in the Enqueue of the callback it executes.
ThreadsExit ==
  done ~> \A w \in Workers : w \in exited \/ InNestedEnqueue(w)

\* Types are kept, and no callback executes twice or is lost once received.
QueueInv == QuTypeOK /\ ExecutedOnce

\* Every callback that was sent executes in the end, and after a shutdown every
\* thread of the pool leaves.
Progress == EventuallyExecuted /\ ThreadsExit
=============================================================================
