---------------------------- MODULE ServerProofs ----------------------------
(***************************************************************************)
(* Safety of the server's callback queue, for every number of callbacks,    *)
(* threads and Shutdown calls and every capacity, and what overlapping      *)
(* membership requests cannot do, for every number of users and requests.   *)
(* The two models share no variable: each has its own specification.        *)
(***************************************************************************)
EXTENDS CallbackQueue, BoardMembers, TLAPS

(***************************************************************************)
(* The callback queue.                                                      *)
(***************************************************************************)

Received == {sent[i] : i \in 1..taken}

\* The log holds the callbacks whose Enqueue got to the send, once each.
LogInv ==
  /\ \A f \in Callbacks : enq[f] = "sent" <=> \E i \in DOMAIN sent : sent[i] = f
  /\ \A i, j \in DOMAIN sent : sent[i] = sent[j] => i = j

\* Who can be where while the queue shuts down.
PhaseInv ==
  /\ \A s \in Stoppers : phase[s] \notin {"idle", "true"} => s = closer
  /\ Idone => phase[closer] # "idle"
  /\ ~Idone => \A s \in Stoppers : phase[s] = "idle"
  /\ Idone /\ phase[closer] \in {"draining", "true"} => joined = Workers
  /\ \A w \in exited : running[w] = NoCallback
  /\ \A s \in Stoppers : running[s] # NoCallback => s = closer /\ phase[s] = "draining"

\* What was sent before the shutdown has been received when it succeeds.
DrainInv ==
  /\ accepted \subseteq Sent
  /\ ShutDown => accepted \subseteq Received

QuInv == QuTypeOK /\ LogInv /\ ExecutedOnce /\ PhaseInv /\ DrainInv

----------------------------------------------------------------------------
LEMMA InitTypeOK ==
  ASSUME QuInit
  PROVE  QuTypeOK
<1>1. sent \in Seq(Callbacks) /\ finished \in Seq(Callbacks) /\ Len(sent) = 0
  BY DEF QuInit
<1>2. taken \in 0..Len(sent)
  BY <1>1 DEF QuInit
<1>3. QED
  BY <1>1, <1>2 DEF QuInit, QuTypeOK

\* Every variable of CallbackQueue keeps its type (the whole of
\* callbackqueue.go).
THEOREM QueueTyped == QuSpec => []QuTypeOK
<1>1. QuInit => QuTypeOK
  BY InitTypeOK
<1>2. QuTypeOK /\ [QuNext]_quVars => QuTypeOK'
  <2> SUFFICES ASSUME QuTypeOK, [QuNext]_quVars PROVE QuTypeOK'
    OBVIOUS
  <2> USE DEF QuTypeOK
  <2>1. ASSUME NEW f \in Callbacks, EnqueueCheck(f) PROVE QuTypeOK'
    BY <2>1 DEF EnqueueCheck
  <2>2. ASSUME NEW f \in Callbacks, EnqueueSend(f) PROVE QuTypeOK'
    BY <2>2 DEF EnqueueSend
  <2>3. ASSUME NEW t \in Threads, Receive(t) PROVE QuTypeOK'
    BY <2>3 DEF Receive
  <2>4. ASSUME NEW t \in Threads, Finish(t) PROVE QuTypeOK'
    BY <2>4 DEF Finish
  <2>5. ASSUME NEW w \in Workers, WorkerExit(w) PROVE QuTypeOK'
    BY <2>5 DEF WorkerExit
  <2>6. ASSUME NEW s \in Stoppers, ShutdownBegin(s) PROVE QuTypeOK'
    BY <2>6 DEF ShutdownBegin, Sent
  <2>7. ASSUME NEW s \in Stoppers, ShutdownClose(s) PROVE QuTypeOK'
    BY <2>7 DEF ShutdownClose
  <2>8. ASSUME NEW s \in Stoppers, ShutdownJoin(s) PROVE QuTypeOK'
    BY <2>8 DEF ShutdownJoin
  <2>9. ASSUME NEW s \in Stoppers, ShutdownDrained(s) PROVE QuTypeOK'
    BY <2>9 DEF ShutdownDrained
  <2>10. ASSUME NEW s \in Stoppers, ShutdownTimeout(s) PROVE QuTypeOK'
    BY <2>10 DEF ShutdownTimeout
  <2>11. CASE UNCHANGED quVars
    BY <2>11 DEF quVars
  <2>12. QED
    BY <2>1, <2>2, <2>3, <2>4, <2>5, <2>6, <2>7, <2>8, <2>9, <2>10, <2>11
    DEF QuNext, WorkerReceive, ShutdownDrain, Threads
<1>3. QED
  BY <1>1, <1>2, PTL DEF QuSpec

----------------------------------------------------------------------------
\* ExecutedOnce is about the received callbacks and the threads alone.
LEMMA ExecutedOnceFrame ==
  ASSUME ExecutedOnce, UNCHANGED <<running, finished>>, Received' = Received
  PROVE  ExecutedOnce'
<1>1. Finished' = Finished
  BY DEF Finished
<1>2. Received = Finished \cup ({running[t] : t \in Threads} \ {NoCallback})
  BY DEF ExecutedOnce, Received
<1>3. Received' = Finished' \cup ({running'[t] : t \in Threads} \ {NoCallback})
  BY <1>1, <1>2
<1>4. \A i, j \in DOMAIN finished' : finished'[i] = finished'[j] => i = j
  BY DEF ExecutedOnce
<1>5. \A t \in Threads :
        running'[t] # NoCallback =>
          /\ running'[t] \notin Finished'
          /\ \A u \in Threads : running'[u] = running'[t] => u = t
  BY <1>1 DEF ExecutedOnce
<1>6. QED
  BY <1>3, <1>4, <1>5 DEF ExecutedOnce, Received

\* A step of Enqueue concerns neither the threads nor the shutdown.
LEMMA EnqueueSafe ==
  ASSUME QuInv, NEW f \in Callbacks, EnqueueCheck(f) \/ EnqueueSend(f), QuTypeOK'
  PROVE  QuInv'
<1> USE DEF QuInv, QuTypeOK
<1>1. CASE EnqueueCheck(f)
  <2>1. LogInv'
    BY <1>1 DEF EnqueueCheck, LogInv
  <2>2. ExecutedOnce'
    BY <1>1, ExecutedOnceFrame DEF EnqueueCheck, Received
  <2>3. PhaseInv'
    BY <1>1 DEF EnqueueCheck, PhaseInv, Idone
  <2>4. DrainInv'
    <3>1. Sent' = Sent
      BY <1>1 DEF EnqueueCheck, Sent
    <3>2. QED
      BY <1>1, <3>1 DEF EnqueueCheck, DrainInv, Received, ShutDown, Idone
  <2>5. QED
    BY <2>1, <2>2, <2>3, <2>4
<1>2. CASE EnqueueSend(f)
  <2>1. \A i \in DOMAIN sent : sent'[i] = sent[i]
    BY <1>2 DEF EnqueueSend
  <2>2. /\ Len(sent') = Len(sent) + 1
        /\ sent'[Len(sent) + 1] = f
        /\ \A i \in 1..taken : i \in DOMAIN sent
    BY <1>2 DEF EnqueueSend
  <2>3. Received' = Received
    BY <1>2, <2>1, <2>2 DEF EnqueueSend, Received
  <2>4. LogInv'
    <3>1. \A i \in DOMAIN sent : sent[i] # f
      BY <1>2 DEF EnqueueSend, LogInv
    <3>2. \A i, j \in DOMAIN sent' : sent'[i] = sent'[j] => i = j
      BY <1>2, <2>1, <2>2, <3>1 DEF EnqueueSend, LogInv
    <3>3. ASSUME NEW g \in Callbacks
          PROVE  enq'[g] = "sent" <=> \E i \in DOMAIN sent' : sent'[i] = g
      <4>1. enq'[g] = "sent" <=> g = f \/ enq[g] = "sent"
        BY <1>2 DEF EnqueueSend
      <4>2. DOMAIN sent' = DOMAIN sent \cup {Len(sent) + 1}
        BY <1>2 DEF EnqueueSend
      <4>3. QED
        BY <2>1, <2>2, <4>1, <4>2 DEF LogInv
    <3>4. QED
      BY <3>2, <3>3 DEF LogInv
  <2>5. ExecutedOnce'
    BY <1>2, <2>3, ExecutedOnceFrame DEF EnqueueSend
  <2>6. PhaseInv'
    <3>1. UNCHANGED <<running, closer, exited, joined, phase>>
      BY <1>2 DEF EnqueueSend
    <3>2. QED
      BY <3>1 DEF PhaseInv, Idone
  <2>7. DrainInv'
    <3>1. Sent \subseteq Sent'
      BY <1>2 DEF EnqueueSend, Sent
    <3>2. QED
      BY <1>2, <2>3, <3>1 DEF EnqueueSend, DrainInv, ShutDown, Idone
  <2>8. QED
    BY <2>4, <2>5, <2>6, <2>7
<1>3. QED
  BY <1>1, <1>2

\* What a thread receives was never received before.
LEMMA ReceiveSafe ==
  ASSUME QuInv, NEW t \in Threads, Receive(t), QuTypeOK',
         t \notin exited, t \in Stoppers => phase[t] = "draining"
  PROVE  QuInv'
<1> DEFINE f == sent[taken + 1]
<1> USE DEF QuInv, QuTypeOK, Receive
<1>1. taken + 1 \in DOMAIN sent /\ f \in Callbacks /\ f # NoCallback
  BY NoCallbackAssumption
<1>2. f \notin Received
  BY <1>1 DEF LogInv, Received
<1>3. Received' = Received \cup {f}
  BY <1>1 DEF Received
<1>4. f \notin Finished /\ \A u \in Threads : running[u] # f
  BY <1>1, <1>2 DEF ExecutedOnce, Received
<1>5. running'[t] = f /\ \A u \in Threads : u # t => running'[u] = running[u]
  OBVIOUS
<1>6. LogInv'
  BY DEF LogInv
<1>7. ExecutedOnce'
  <2>1. {running'[u] : u \in Threads} \ {NoCallback} = ({running[u] : u \in Threads} \ {NoCallback}) \cup {f}
    BY <1>1, <1>5
  <2>2. Received' = Finished' \cup ({running'[u] : u \in Threads} \ {NoCallback})
    <3>1. Received = Finished \cup ({running[u] : u \in Threads} \ {NoCallback})
      BY DEF ExecutedOnce, Received
    <3>2. Finished' = Finished
      BY DEF Finished
    <3>3. QED
      BY <1>3, <2>1, <3>1, <3>2
  <2>3. \A u, v \in Threads : running'[u] # NoCallback /\ running'[v] = running'[u] => v = u
    BY <1>4, <1>5 DEF ExecutedOnce
  <2>4. \A u \in Threads : running'[u] # NoCallback => running'[u] \notin Finished'
    BY <1>4, <1>5 DEF ExecutedOnce, Finished
  <2>5. QED
    BY <2>2, <2>3, <2>4 DEF ExecutedOnce, Received
<1>8. PhaseInv'
  BY <1>5, ThreadsAssumption DEF PhaseInv, Idone, Threads
<1>9. DrainInv'
  BY <1>3 DEF DrainInv, Sent, ShutDown, Idone
<1>10. QED
  BY <1>6, <1>7, <1>8, <1>9

\* A callback that ends moves from its thread to the finished ones.
LEMMA FinishSafe ==
  ASSUME QuInv, NEW t \in Threads, Finish(t), QuTypeOK'
  PROVE  QuInv'
<1> DEFINE f == running[t]
<1> USE DEF QuInv, QuTypeOK, Finish
<1>1. f \in Callbacks /\ f # NoCallback
  OBVIOUS
<1>2. /\ \A i \in DOMAIN finished : finished'[i] = finished[i]
      /\ Len(finished') = Len(finished) + 1
      /\ finished'[Len(finished) + 1] = f
      /\ DOMAIN finished' = DOMAIN finished \cup {Len(finished) + 1}
  BY <1>1
<1>3. Finished' = Finished \cup {f}
  BY <1>2 DEF Finished
<1>4. f \notin Finished /\ \A u \in Threads : u # t => running[u] # f
  BY <1>1 DEF ExecutedOnce
<1>5. running'[t] = NoCallback /\ \A u \in Threads : u # t => running'[u] = running[u]
  OBVIOUS
<1>6. LogInv'
  BY DEF LogInv
<1>7. ExecutedOnce'
  <2>1. \A i, j \in DOMAIN finished' : finished'[i] = finished'[j] => i = j
    <3>1. \A i \in DOMAIN finished : finished[i] # f
      BY <1>4 DEF Finished
    <3>2. \A i, j \in DOMAIN finished : finished[i] = finished[j] => i = j
      BY DEF ExecutedOnce
    <3>3. QED
      BY <1>2, <3>1, <3>2
  <2>2. \A u \in Threads : running'[u] # NoCallback => running'[u] \notin Finished'
    BY <1>3, <1>4, <1>5 DEF ExecutedOnce
  <2>3. \A u, v \in Threads : running'[u] # NoCallback /\ running'[v] = running'[u] => v = u
    BY <1>5 DEF ExecutedOnce
  <2>4. Received' = Finished' \cup ({running'[u] : u \in Threads} \ {NoCallback})
    <3>1. {running[u] : u \in Threads} \ {NoCallback} = ({running'[u] : u \in Threads} \ {NoCallback}) \cup {f}
      BY <1>1, <1>5
    <3>2. Received = Finished \cup ({running[u] : u \in Threads} \ {NoCallback})
      BY DEF ExecutedOnce, Received
    <3>3. Received' = Received
      BY DEF Received
    <3>4. QED
      BY <1>3, <3>1, <3>2, <3>3
  <2>5. QED
    BY <2>1, <2>2, <2>3, <2>4 DEF ExecutedOnce, Received
<1>8. PhaseInv'
  BY <1>5 DEF PhaseInv, Idone
<1>9. DrainInv'
  BY DEF DrainInv, Sent, ShutDown, Idone, Received
<1>10. QED
  BY <1>6, <1>7, <1>8, <1>9

\* The steps that only move the shutdown along leave the log and the
\* executions alone.
LEMMA ControlSafe ==
  ASSUME QuInv, UNCHANGED <<enq, sent, taken, running, finished>>, PhaseInv', DrainInv', QuTypeOK'
  PROVE  QuInv'
<1>1. LogInv'
  BY DEF QuInv, LogInv
<1>2. ExecutedOnce'
  BY ExecutedOnceFrame DEF QuInv, Received
<1>3. QED
  BY <1>1, <1>2 DEF QuInv

LEMMA WorkerExitSafe ==
  ASSUME QuInv, NEW w \in Workers, WorkerExit(w), QuTypeOK'
  PROVE  QuInv'
<1> USE DEF QuInv, QuTypeOK, WorkerExit
<1>1. PhaseInv'
  BY DEF PhaseInv, Idone
<1>2. DrainInv'
  BY DEF DrainInv, Sent, ShutDown, Idone, Received
<1>3. QED
  BY <1>1, <1>2, ControlSafe

LEMMA ShutdownBeginSafe ==
  ASSUME QuInv, NEW s \in Stoppers, ShutdownBegin(s), QuTypeOK'
  PROVE  QuInv'
<1> USE NoCallbackAssumption DEF QuInv, QuTypeOK, ShutdownBegin
<1>1. PhaseInv'
  BY DEF PhaseInv, Idone
<1>2. DrainInv'
  <2>1. Sent' = Sent
    BY DEF Sent
  <2>2. QED
    BY <2>1 DEF DrainInv, PhaseInv, ShutDown, Idone, Received
<1>3. QED
  BY <1>1, <1>2, ControlSafe

LEMMA ShutdownCloseSafe ==
  ASSUME QuInv, NEW s \in Stoppers, ShutdownClose(s), QuTypeOK'
  PROVE  QuInv'
<1> USE DEF QuInv, QuTypeOK, ShutdownClose
<1>1. PhaseInv'
  BY DEF PhaseInv, Idone
<1>2. DrainInv'
  BY DEF DrainInv, Sent, ShutDown, Idone, Received
<1>3. QED
  BY <1>1, <1>2, ControlSafe

LEMMA ShutdownJoinSafe ==
  ASSUME QuInv, NEW s \in Stoppers, ShutdownJoin(s), QuTypeOK'
  PROVE  QuInv'
<1> USE DEF QuInv, QuTypeOK, ShutdownJoin
<1>1. PhaseInv'
  BY DEF PhaseInv, Idone
<1>2. DrainInv'
  BY DEF DrainInv, Sent, ShutDown, Idone, Received
<1>3. QED
  BY <1>1, <1>2, ControlSafe

\* The channel is found empty: all that was sent has been received.
LEMMA ShutdownDrainedSafe ==
  ASSUME QuInv, NEW s \in Stoppers, ShutdownDrained(s), QuTypeOK'
  PROVE  QuInv'
<1> USE DEF QuInv, QuTypeOK, ShutdownDrained
<1>1. PhaseInv'
  BY DEF PhaseInv, Idone
<1>2. Sent \subseteq Received
  BY DEF Sent, Received, LogInv
<1>3. DrainInv'
  BY <1>2 DEF DrainInv, Sent, Received
<1>4. QED
  BY <1>1, <1>3, ControlSafe

LEMMA ShutdownTimeoutSafe ==
  ASSUME QuInv, NEW s \in Stoppers, ShutdownTimeout(s), QuTypeOK'
  PROVE  QuInv'
<1> USE DEF QuInv, QuTypeOK, ShutdownTimeout
<1>1. PhaseInv'
  BY DEF PhaseInv, Idone
<1>2. DrainInv'
  BY DEF DrainInv, Sent, ShutDown, Idone, Received
<1>3. QED
  BY <1>1, <1>2, ControlSafe

----------------------------------------------------------------------------
\* IInv is inductive.
THEOREM QueueInvariance == QuSpec => []QuInv
<1>1. QuInit => QuInv
  <2> SUFFICES ASSUME QuInit PROVE QuInv
    OBVIOUS
  <2> USE DEF QuInit
  <2>1. QuTypeOK
    BY InitTypeOK
  <2>2. LogInv
    BY DEF LogInv
  <2>3. ExecutedOnce
    BY DEF ExecutedOnce, Finished
  <2>4. PhaseInv
    BY DEF PhaseInv, Idone, Threads
  <2>5. DrainInv
    BY DEF DrainInv, Sent, ShutDown, Idone
  <2>6. QED
    BY <2>1, <2>2, <2>3, <2>4, <2>5 DEF QuInv
<1>2. QuInv /\ QuTypeOK' /\ [QuNext]_quVars => QuInv'
  <2> SUFFICES ASSUME QuInv, QuTypeOK', [QuNext]_quVars PROVE QuInv'
    OBVIOUS
  <2>1. ASSUME NEW f \in Callbacks, EnqueueCheck(f) \/ EnqueueSend(f) PROVE QuInv'
    BY <2>1, EnqueueSafe
  <2>2. ASSUME NEW w \in Workers, WorkerReceive(w) PROVE QuInv'
    BY <2>2, ReceiveSafe, ThreadsAssumption DEF WorkerReceive, Threads
  <2>3. ASSUME NEW w \in Workers, WorkerExit(w) PROVE QuInv'
    BY <2>3, WorkerExitSafe
  <2>4. ASSUME NEW t \in Threads, Finish(t) PROVE QuInv'
    BY <2>4, FinishSafe
  <2>5. ASSUME NEW s \in Stoppers, ShutdownDrain(s) PROVE QuInv'
    BY <2>5, ReceiveSafe, ThreadsAssumption DEF ShutdownDrain, Threads, QuInv, QuTypeOK
  <2>6. ASSUME NEW s \in Stoppers, ShutdownBegin(s) PROVE QuInv'
    BY <2>6, ShutdownBeginSafe
  <2>7. ASSUME NEW s \in Stoppers, ShutdownClose(s) \/ ShutdownJoin(s) PROVE QuInv'
    BY <2>7, ShutdownCloseSafe, ShutdownJoinSafe
  <2>8. ASSUME NEW s \in Stoppers, ShutdownDrained(s) \/ ShutdownTimeout(s) PROVE QuInv'
    BY <2>8, ShutdownDrainedSafe, ShutdownTimeoutSafe
  <2>9. CASE UNCHANGED quVars
    <3>1. PhaseInv'
      BY <2>9 DEF quVars, QuInv, PhaseInv, Idone
    <3>2. DrainInv'
      BY <2>9 DEF quVars, QuInv, DrainInv, Sent, ShutDown, Idone, Received
    <3>3. QED
      BY <2>9, <3>1, <3>2, ControlSafe DEF quVars
  <2>10. QED
    BY <2>1, <2>2, <2>3, <2>4, <2>5, <2>6, <2>7, <2>8, <2>9 DEF QuNext
<1>3. QED
  BY <1>1, <1>2, QueueTyped, PTL DEF QuSpec

\* Each callback executes at most once, and none that was received is lost
\* (loop, exec and the drain loop of Shutdown).
THEOREM Once == QuSpec => []ExecutedOnce
<1>1. QuInv => ExecutedOnce
  BY DEF QuInv
<1>2. QED
  BY <1>1, QueueInvariance, PTL

\* The Shutdown call that returns true after doing the work has seen every
\* pool thread exit, and leaves nothing executing.
THEOREM TrueAfterExit == QuSpec => []PoolExited
<1>1. QuInv => PoolExited
  BY ThreadsAssumption DEF QuInv, QuTypeOK, PhaseInv, PoolExited, ShutDown, Threads
<1>2. QED
  BY <1>1, QueueInvariance, PTL

\* ... and everything sent before it began has been executed.
THEOREM NoneDropped == QuSpec => []NothingDropped
<1>1. QuInv => NothingDropped
  <2> SUFFICES ASSUME QuInv, ShutDown PROVE accepted \subseteq Finished
    BY DEF NothingDropped
  <2>1. \A t \in Threads : running[t] = NoCallback
    BY ThreadsAssumption DEF QuInv, QuTypeOK, PhaseInv, ShutDown, Threads
  <2>2. Received = Finished \cup ({running[t] : t \in Threads} \ {NoCallback})
    BY DEF QuInv, ExecutedOnce, Received
  <2>3. QED
    BY <2>1, <2>2 DEF QuInv, DrainInv
<1>2. QED
  BY <1>1, QueueInvariance, PTL

----------------------------------------------------------------------------
(***************************************************************************)
(* A pool of one thread.                                                    *)
(***************************************************************************)

QueueQuiet == \A t \in Threads : running[t] = NoCallback

\* finished follows the received part of the log, one entry behind it while
\* the thread, or the drain loop after it, executes.
OrderInv ==
  /\ Len(finished) = IF QueueQuiet THEN taken ELSE taken - 1
  /\ \A i \in DOMAIN finished : finished[i] = sent[i]
  /\ \A t \in Threads : running[t] # NoCallback => taken > 0 /\ running[t] = sent[taken]

\* Only a thread of a quiet pool receives: the drain loop starts after the
\* single pool thread has left.
LEMMA ReceiverAlone ==
  ASSUME QuInv, NEW w0, Workers = {w0}, NEW t \in Threads, Receive(t),
         t \notin exited, t \in Stoppers => phase[t] = "draining"
  PROVE  QueueQuiet
<1> SUFFICES ASSUME NEW u \in Threads, running[u] # NoCallback PROVE FALSE
  BY DEF QueueQuiet
<1>1. running[t] = NoCallback
  BY DEF Receive
<1>2. CASE t \in Workers
  BY <1>1, <1>2, ThreadsAssumption DEF QuInv, QuTypeOK, PhaseInv, Threads, Idone
<1>3. CASE t \in Stoppers
  BY <1>1, <1>3, NoCallbackAssumption DEF QuInv, QuTypeOK, PhaseInv, Threads, Idone
<1>4. QED
  BY <1>2, <1>3 DEF Threads

LEMMA ReceiveInOrder ==
  ASSUME QuTypeOK, QuTypeOK', OrderInv, QueueQuiet, NEW t \in Threads, Receive(t)
  PROVE  OrderInv'
<1> USE DEF QuTypeOK, Receive
<1>1. running'[t] = sent[taken + 1] /\ running'[t] # NoCallback
  BY NoCallbackAssumption
<1>2. ~QueueQuiet'
  BY <1>1 DEF QueueQuiet
<1>3. \A u \in Threads : running'[u] # NoCallback => u = t
  BY DEF QueueQuiet
<1>4. QED
  BY <1>1, <1>2, <1>3 DEF OrderInv

LEMMA FinishKeepsOrder ==
  ASSUME QuInv, OrderInv, NEW t \in Threads, Finish(t), QuTypeOK'
  PROVE  OrderInv'
<1> USE DEF QuInv, QuTypeOK, Finish
<1>1. ~QueueQuiet /\ taken > 0 /\ running[t] = sent[taken] /\ Len(finished) = taken - 1
  BY DEF QueueQuiet, OrderInv
<1>2. \A u \in Threads : running[u] # NoCallback => u = t
  BY <1>1 DEF OrderInv, ExecutedOnce
<1>3. QueueQuiet'
  BY <1>2 DEF QueueQuiet
<1>4. /\ Len(finished') = Len(finished) + 1
      /\ finished'[Len(finished) + 1] = running[t]
      /\ \A i \in DOMAIN finished : finished'[i] = finished[i]
      /\ DOMAIN finished' = DOMAIN finished \cup {Len(finished) + 1}
  OBVIOUS
<1>5. QED
  BY <1>1, <1>3, <1>4 DEF OrderInv, QueueQuiet

\* What only appends to the log, or touches neither log nor executions.
LEMMA OrderFrame ==
  ASSUME QuTypeOK, QuTypeOK', OrderInv, UNCHANGED <<taken, running, finished>>,
         Len(sent) <= Len(sent'), \A i \in DOMAIN sent : sent'[i] = sent[i]
  PROVE  OrderInv'
<1>1. QueueQuiet' = QueueQuiet
  BY DEF QueueQuiet
<1>2. \A i \in DOMAIN finished : i \in DOMAIN sent
  BY DEF OrderInv, QuTypeOK
<1>3. taken > 0 => taken \in DOMAIN sent
  BY DEF QuTypeOK
<1>4. QED
  BY <1>1, <1>2, <1>3 DEF OrderInv

\* With one pool thread callbacks finish in the order in which they were
\* enqueued, across a shutdown too (the comment of CallbackQueue).
THEOREM OneThreadOrder ==
  ASSUME NEW w0, Workers = {w0}
  PROVE  QuSpec => []FinishInOrder
<1>1. QuInit => OrderInv
  BY DEF QuInit, OrderInv, QueueQuiet
<1>2. QuInv /\ OrderInv /\ QuTypeOK' /\ [QuNext]_quVars => OrderInv'
  <2> SUFFICES ASSUME QuInv, OrderInv, QuTypeOK', [QuNext]_quVars PROVE OrderInv'
    OBVIOUS
  <2> USE DEF QuInv
  <2>1. ASSUME NEW f \in Callbacks, EnqueueSend(f) PROVE OrderInv'
    <3>1. Len(sent) <= Len(sent') /\ \A i \in DOMAIN sent : sent'[i] = sent[i]
      BY <2>1 DEF EnqueueSend, QuTypeOK
    <3>2. QED
      BY <2>1, <3>1, OrderFrame DEF EnqueueSend
  <2>2. ASSUME NEW t \in Threads, Receive(t), t \notin exited,
               t \in Stoppers => phase[t] = "draining"
        PROVE  OrderInv'
    BY <2>2, ReceiverAlone, ReceiveInOrder
  <2>3. ASSUME NEW t \in Threads, Finish(t) PROVE OrderInv'
    BY <2>3, FinishKeepsOrder
  <2>4. CASE UNCHANGED <<sent, taken, running, finished>>
    <3>1. Len(sent) <= Len(sent') /\ \A i \in DOMAIN sent : sent'[i] = sent[i]
      BY <2>4 DEF QuTypeOK
    <3>2. QED
      BY <2>4, <3>1, OrderFrame
  <2>5. ASSUME NEW w \in Workers, WorkerReceive(w) PROVE OrderInv'
    BY <2>2, <2>5, ThreadsAssumption DEF WorkerReceive, Threads
  <2>6. ASSUME NEW s \in Stoppers, ShutdownDrain(s) PROVE OrderInv'
    BY <2>2, <2>6, ThreadsAssumption DEF ShutdownDrain, Threads, QuTypeOK
  <2>7. QED
    BY <2>1, <2>3, <2>4, <2>5, <2>6
    DEF QuNext, quVars, EnqueueCheck, WorkerExit, ShutdownBegin, ShutdownClose,
        ShutdownJoin, ShutdownDrained, ShutdownTimeout
<1>3. QuTypeOK /\ OrderInv => FinishInOrder
  BY DEF QuTypeOK, OrderInv, FinishInOrder
<1>4. QuInv => QuTypeOK
  BY DEF QuInv
<1>5. QED
  BY <1>1, <1>2, <1>3, <1>4, QueueInvariance, QueueTyped, PTL DEF QuSpec

\* Types are kept, and no callback executes twice or is lost once received.
THEOREM QueueSafe == QuSpec => []QueueInv
<1>1. QuTypeOK /\ ExecutedOnce => QueueInv
  BY DEF QueueInv
<1> QED BY <1>1, QueueTyped, Once, PTL

----------------------------------------------------------------------------
(***************************************************************************)
(* Board membership.                                                        *)
(***************************************************************************)

\* What a request that nothing overtook still knows when it writes.
Knows(r) ==
  LET u == call[r].user
  IN /\ pc[r] \in {"save", "upsert"} /\ rows[u] = "admin" =>
          call[r].role = "admin" \/ Admins \ {u} # {}
     /\ pc[r] \in {"save", "upsert"} /\ call[r].op = "add" => rows[u] = None
     /\ pc[r] = "drop" /\ rows[u] = "admin" => Admins \ {u} # {}
     /\ pc[r] = "admins" => call[r].op # "add"

KnowsInv == \A r \in Requests \ stale : Knows(r)

IInv == TypeOK /\ KnowsInv

----------------------------------------------------------------------------
LEMMA CallFields ==
  ASSUME NEW c \in Call
  PROVE  c.op \in MemberOps \cup BoardOps /\ c.user \in Users /\ c.role \in Roles
BY DEF Call

\* Every variable of BoardMembers keeps its type.
THEOREM TypeCorrect == Spec => []TypeOK
<1>1. Init => TypeOK
  <2> SUFFICES ASSUME Init PROVE TypeOK
    OBVIOUS
  <2>1. rows \in [Users -> Roles \cup {None}] /\ history \in [Users -> {"none", "created", "deleted"}]
    BY DEF Init, Roles
  <2>2. view \in [Users -> Roles \cup {None}]
    BY <2>1 DEF Init, MemberOf, Roles
  <2>3. QED
    BY <2>1, <2>2 DEF Init, TypeOK, Steps
<1>2. TypeOK /\ [Next]_vars => TypeOK'
  <2> SUFFICES ASSUME TypeOK, [Next]_vars PROVE TypeOK'
    OBVIOUS
  <2> USE UsersAssumption DEF TypeOK, Steps, store, clients, Goto
  <2>1. Synthetic \subseteq Users /\ Members \subseteq Users
    BY DEF Synthetic, Members
  <2>2. \A u \in Users : MemberOf(u) \in Roles \cup {None}
    BY DEF MemberOf, Roles
  <2>3. ASSUME NEW r \in Requests, NEW c \in Call, Begin(r, c) PROVE TypeOK'
    <3>1. UNION {Shared(c, call[q]) : q \in Active} \subseteq Users
      BY CallFields DEF Shared, Active
    <3>2. QED
      BY <2>1, <2>3, <3>1 DEF Begin
  <2>4. ASSUME NEW r \in Requests, Handler(r) PROVE TypeOK'
    <3>1. ASSUME pc[r] # "idle" PROVE call[r].user \in Users /\ call[r].role \in Roles
      BY <3>1, CallFields
    <3>2. CASE ReadMember(r)
      BY <3>2 DEF ReadMember
    <3>3. CASE CheckAdmins(r)
      BY <3>3 DEF CheckAdmins
    <3>4. CASE SaveRead(r)
      BY <3>4 DEF SaveRead
    <3>5. CASE SaveUpsert(r)
      BY <3>1, <3>5 DEF SaveUpsert, WriteRow, Active
    <3>6. CASE SaveRecord(r)
      BY <3>1, <3>6 DEF SaveRecord
    <3>7. CASE DropRow(r)
      BY <3>1, <3>7 DEF DropRow, WriteRow, Active
    <3>8. CASE DropRecord(r)
      BY <3>1, <3>8 DEF DropRecord, At
    <3>9. CASE AddToCategory(r)
      BY <3>9 DEF AddToCategory
    <3>10. CASE PatchLink(r)
      BY <3>10 DEF PatchLink
    <3>11. CASE DeleteBoard(r)
      BY <2>1, <3>11 DEF DeleteBoard, At
    <3>12. CASE UndeleteBoard(r)
      BY <3>12 DEF UndeleteBoard, At
    <3>13. QED
      BY <2>4, <3>2, <3>3, <3>4, <3>5, <3>6, <3>7, <3>8, <3>9, <3>10, <3>11, <3>12 DEF Handler
  <2>5. ASSUME NEW r \in Requests, FailAfterWrite(r) PROVE TypeOK'
    BY <2>5, CallFields DEF FailAfterWrite
  <2>6. ASSUME NEW r \in Requests, Tell(r) PROVE TypeOK'
    <3>1. ASSUME pc[r] # "idle" PROVE call[r].user \in Users /\ call[r].role \in Roles
      BY <3>1, CallFields
    <3>2. CASE TellChange(r)
      BY <3>1, <3>2 DEF TellChange, Told
    <3>3. CASE TellRemoval(r)
      BY <2>2, <3>1, <3>3 DEF TellRemoval, Told
    <3>4. CASE TellLink(r)
      BY <3>4 DEF TellLink, Told, Roles
    <3>5. CASE TellUnlink(r)
      BY <3>5 DEF TellUnlink, Told
    <3>6. CASE TellDeletion(r)
      BY <3>6 DEF TellDeletion, Told
    <3>7. CASE TellUndeletion(r)
      BY <3>7 DEF TellUndeletion, Told
    <3>8. QED
      BY <2>6, <3>2, <3>3, <3>4, <3>5, <3>6, <3>7 DEF Tell
  <2>7. CASE UNCHANGED vars
    BY <2>7 DEF vars
  <2>8. QED
    BY <2>3, <2>4, <2>5, <2>6, <2>7 DEF Next
<1>3. QED
  BY <1>1, <1>2, PTL DEF Spec

----------------------------------------------------------------------------
\* A step of r that leaves the rows alone leaves what the others know alone.
LEMMA OthersKnow ==
  ASSUME NEW r \in Requests, KnowsInv, rows' = rows, stale' = stale, Knows(r)',
         \A q \in Requests \ {r} : pc'[q] = pc[q] /\ call'[q] = call[q]
  PROVE  KnowsInv'
<1> SUFFICES ASSUME NEW q \in Requests \ stale PROVE Knows(q)'
  BY DEF KnowsInv
<1>1. CASE q = r
  BY <1>1
<1>2. CASE q # r
  <2>1. Knows(q)
    BY DEF KnowsInv
  <2>2. pc'[q] = pc[q] /\ call'[q] = call[q] /\ Admins' = Admins
    BY <1>2 DEF Admins
  <2>3. QED
    BY <2>1, <2>2 DEF Knows
<1>3. QED
  BY <1>1, <1>2

\* A request that writes a row knows nothing any more, and the others that are
\* under way know nothing either if the row changed.
LEMMA WritesKnow ==
  ASSUME TypeOK, KnowsInv, NEW r \in Requests, NEW u, NEW role, WriteRow(r, u, role),
         call' = call, NEW step \in {"record", "category", "queued"}, Goto(r, step)
  PROVE  KnowsInv'
<1> USE DEF Goto
<1>1. pc' = [pc EXCEPT ![r] = step] /\ pc \in [Requests -> Steps]
  BY DEF TypeOK
<1> SUFFICES ASSUME NEW q \in Requests \ stale' PROVE Knows(q)'
  BY DEF KnowsInv
<1>2. CASE q = r
  BY <1>1, <1>2 DEF Knows
<1>3. CASE q # r /\ rows' = rows
  <2>1. q \notin stale /\ pc'[q] = pc[q] /\ call'[q] = call[q] /\ Admins' = Admins
    BY <1>1, <1>3 DEF WriteRow, Admins
  <2>2. QED
    BY <1>3, <2>1 DEF Knows, KnowsInv
<1>4. CASE q # r /\ rows' # rows
  <2>1. q \notin Active
    BY <1>4 DEF WriteRow
  <2>2. pc'[q] \in {"idle", "done"}
    BY <1>1, <1>4, <2>1 DEF Active
  <2>3. QED
    BY <2>2 DEF Knows
<1>5. QED
  BY <1>2, <1>3, <1>4

\* A request that nothing overtook still knows what it read.
THEOREM Invariance == Spec => []IInv
<1>1. Init => KnowsInv
  BY DEF Init, KnowsInv, Knows
<1>2. TypeOK /\ KnowsInv /\ [Next]_vars => KnowsInv'
  <2> SUFFICES ASSUME TypeOK, KnowsInv, [Next]_vars PROVE KnowsInv'
    OBVIOUS
  <2>0. pc \in [Requests -> Steps]
    BY DEF TypeOK
  <2> USE DEF store, clients, Goto
  <2>1. ASSUME NEW r \in Requests, NEW c \in Call, Begin(r, c) PROVE KnowsInv'
    <3>1. pc'[r] \in {"done", "member", "patch"}
      BY <2>0, <2>1 DEF Begin
    <3>2. Knows(r)'
      BY <3>1 DEF Knows
    <3>3. \A q \in Requests \ {r} : pc'[q] = pc[q] /\ call'[q] = call[q]
      BY <2>0, <2>1 DEF Begin, TypeOK
    <3>4. QED
      BY <2>1, <3>2, <3>3, OthersKnow DEF Begin
  <2>2. ASSUME NEW r \in Requests, ReadMember(r) PROVE KnowsInv'
    <3> DEFINE u == call[r].user
    <3>1. rows' = rows /\ call' = call /\ stale' = stale /\ Admins' = Admins
      BY <2>2 DEF ReadMember, Admins
    <3>2. u \in Users /\ call[r].op \in MemberOps \cup BoardOps
      BY <2>2, CallFields DEF ReadMember, TypeOK
    <3>3. rows[u] = "admin" => MemberOf(u) = "admin"
      BY <3>2, RolesAssumption DEF MemberOf, Synthetic, Roles
    <3>4. pc'[r] = "admins" => call[r].op # "add"
      BY <2>0, <2>2 DEF ReadMember
    <3>5. pc'[r] # "upsert" /\ (pc'[r] = "drop" => rows[u] # "admin")
      BY <2>0, <2>2, <3>3 DEF ReadMember
    <3>6. pc'[r] = "save" /\ call[r].op = "add" => rows[u] = None
      BY <2>0, <2>2 DEF ReadMember
    <3>7. pc'[r] = "save" /\ rows[u] = "admin" => call[r].role = "admin"
      BY <2>0, <2>2, <3>3, RolesAssumption DEF ReadMember, Roles
    <3>8. Knows(r)'
      BY <3>1, <3>4, <3>5, <3>6, <3>7 DEF Knows
    <3>9. \A q \in Requests \ {r} : pc'[q] = pc[q] /\ call'[q] = call[q]
      BY <2>0, <2>2 DEF ReadMember
    <3>10. QED
      BY <3>1, <3>8, <3>9, OthersKnow
  <2>3. ASSUME NEW r \in Requests, CheckAdmins(r) PROVE KnowsInv'
    <3>1. rows' = rows /\ call' = call /\ stale' = stale /\ Admins' = Admins
      BY <2>3 DEF CheckAdmins, Admins
    <3>2. CASE r \in stale
      BY <2>0, <2>3, <3>1, <3>2 DEF KnowsInv, Knows, CheckAdmins
    <3>3. CASE r \notin stale
      <4>1. call[r].op # "add"
        BY <2>3, <3>3 DEF KnowsInv, Knows, CheckAdmins
      <4>2. pc'[r] = "done" \/ (pc'[r] \in {"save", "drop"} /\ Admins \ {call[r].user} # {})
        BY <2>0, <2>3 DEF CheckAdmins, IsLastAdmin
      <4>3. Knows(r)'
        BY <3>1, <4>1, <4>2 DEF Knows
      <4>4. \A q \in Requests \ {r} : pc'[q] = pc[q] /\ call'[q] = call[q]
        BY <2>0, <2>3 DEF CheckAdmins
      <4>5. QED
        BY <3>1, <4>3, <4>4, OthersKnow
    <3>4. QED
      BY <3>2, <3>3
  <2>4. ASSUME NEW r \in Requests, SaveRead(r) PROVE KnowsInv'
    <3>1. rows' = rows /\ call' = call /\ stale' = stale /\ Admins' = Admins
      BY <2>4 DEF SaveRead, Admins
    <3>2. pc[r] = "save" /\ pc' = [pc EXCEPT ![r] = "upsert"]
      BY <2>4 DEF SaveRead
    <3>3. ASSUME NEW q \in Requests \ stale PROVE Knows(q)'
      <4>1. Knows(q)
        BY DEF KnowsInv
      <4>2. CASE q = r
        BY <2>0, <3>1, <3>2, <4>1, <4>2 DEF Knows
      <4>3. CASE q # r
        BY <2>0, <3>1, <3>2, <4>1, <4>3 DEF Knows
      <4>4. QED
        BY <4>2, <4>3
    <3>4. QED
      BY <3>1, <3>3 DEF KnowsInv
  <2>5. ASSUME NEW r \in Requests, SaveUpsert(r) \/ DropRow(r) PROVE KnowsInv'
    BY <2>5, WritesKnow DEF SaveUpsert, DropRow
  <2>6. ASSUME NEW r \in Requests, rows' = rows, call' = call, stale' = stale,
               NEW step \in {"done", "queued", "category"}, Goto(r, step)
        PROVE  KnowsInv'
    <3>1. pc'[r] = step /\ \A q \in Requests \ {r} : pc'[q] = pc[q]
      BY <2>0, <2>6
    <3>2. Knows(r)'
      BY <3>1 DEF Knows
    <3>3. QED
      BY <2>6, <3>1, <3>2, OthersKnow
  <2>7. ASSUME NEW r \in Requests,
               SaveRecord(r) \/ DropRecord(r) \/ AddToCategory(r) \/ FailAfterWrite(r)
        PROVE  KnowsInv'
    BY <2>6, <2>7 DEF SaveRecord, DropRecord, AddToCategory, FailAfterWrite
  <2>8. ASSUME NEW r \in Requests, PatchLink(r) \/ DeleteBoard(r) \/ UndeleteBoard(r)
        PROVE  KnowsInv'
    BY <2>6, <2>8 DEF PatchLink, DeleteBoard, UndeleteBoard
  <2>9. ASSUME NEW r \in Requests, Tell(r) PROVE KnowsInv'
    BY <2>6, <2>9 DEF Tell, TellChange, TellRemoval, TellLink, TellUnlink, TellDeletion,
                      TellUndeletion, Told
  <2>10. CASE UNCHANGED vars
    BY <2>10 DEF vars, KnowsInv, Knows, Admins
  <2>11. QED
    BY <2>1, <2>2, <2>3, <2>4, <2>5, <2>7, <2>8, <2>9, <2>10 DEF Next, Handler
<1>3. QED
  BY <1>1, <1>2, TypeCorrect, PTL DEF Spec, IInv

----------------------------------------------------------------------------
\* Only the two writes of board_members change a row.
LEMMA OnlyWritesChangeRows ==
  ASSUME [Next]_vars, rows' # rows
  PROVE  \E r \in Requests : SaveUpsert(r) \/ DropRow(r)
BY DEF Next, Handler, Tell, vars, store, clients, Begin, ReadMember, CheckAdmins,
       SaveRead, SaveRecord, DropRecord, AddToCategory, FailAfterWrite, PatchLink,
       DeleteBoard, UndeleteBoard, TellChange, TellRemoval, TellLink, TellUnlink,
       TellDeletion, TellUndeletion, Told

\* UpdateBoardMember, DeleteBoardMember and AddMemberToBoard never take the last
\* admin away between a first read and a write that nothing overtook.
THEOREM LastAdmin == Spec => LastAdminKept
<1>1. ASSUME IInv, [Next]_vars, Admins # {}, Admins' = {}
      PROVE  \E r \in stale : pc[r] \in {"upsert", "drop"} /\ pc'[r] # pc[r]
  <2>1. rows' # rows
    BY <1>1 DEF Admins
  <2>2. PICK r \in Requests : SaveUpsert(r) \/ DropRow(r)
    BY <1>1, <2>1, OnlyWritesChangeRows
  <2> DEFINE u == call[r].user
  <2>3. pc \in [Requests -> Steps] /\ rows \in [Users -> Roles \cup {None}] /\ u \in Users
    BY <1>1, <2>2, CallFields DEF IInv, TypeOK, SaveUpsert, DropRow
  <2>4. pc[r] \in {"upsert", "drop"} /\ pc'[r] # pc[r]
    BY <2>2, <2>3 DEF SaveUpsert, DropRow, Goto
  <2>5. Admins \ {u} = {}
    <3>1. \A v \in Users \ {u} : rows'[v] = rows[v]
      BY <2>2, <2>3 DEF SaveUpsert, DropRow, WriteRow
    <3>2. QED
      BY <1>1, <3>1 DEF Admins
  <2>6. rows[u] = "admin"
    BY <1>1, <2>5 DEF Admins
  <2>7. pc[r] = "upsert" => call[r].role # "admin"
    <3>1. pc[r] = "upsert" => rows' = [rows EXCEPT ![u] = call[r].role]
      BY <2>2 DEF SaveUpsert, DropRow, WriteRow
    <3>2. QED
      BY <1>1, <2>3, <3>1 DEF Admins
  <2>8. ~Knows(r)
    BY <2>4, <2>5, <2>6, <2>7 DEF Knows
  <2>9. QED
    BY <1>1, <2>4, <2>8, <2>2 DEF IInv, KnowsInv, TypeOK
<1>2. IInv /\ [Next]_vars =>
        [Admins # {} /\ Admins' = {} =>
           \E r \in stale : pc[r] \in {"upsert", "drop"} /\ pc'[r] # pc[r]]_vars
  BY <1>1
<1>3. QED
  BY <1>2, Invariance, PTL DEF Spec, LastAdminKept

\* AddMemberToBoard never writes over an explicit member it had not seen.
THEOREM NoDemotion == Spec => AddNeverDemotes
<1>1. ASSUME IInv
      PROVE  \A r \in Requests \ stale :
               At(r, "upsert", "add") /\ pc'[r] # "upsert" => rows[call[r].user] = None
  BY <1>1 DEF IInv, KnowsInv, Knows, At
<1>2. QED
  BY <1>1, Invariance, PTL DEF AddNeverDemotes

----------------------------------------------------------------------------
(***************************************************************************)
(* When all has settled.  A user that no overlapping or failing requests    *)
(* concern is concerned by one request at most, and this one knows what it  *)
(* has changed and not told yet.                                            *)
(***************************************************************************)

Concerns(q, u) == q \in Active /\ (call[q].op \in BoardOps \/ call[q].user = u)

Apart == \A q, r \in Active : q # r => Shared(call[q], call[r]) \subseteq unsettled

HistoryOK(u) == history[u] = "created" => rows[u] # None
\* The client agrees with the tables; of a board that is deleted, unless it may come
\* back without its channel.
Agrees(u) ==
  /\ live => view[u] = MemberOf(u)
  /\ ~live /\ (~linked \/ u \notin ChannelUsers) => view[u] = rows[u]
Calm(u) == Agrees(u) /\ HistoryOK(u) /\ (~live /\ u \in unaware => rows[u] = None)

\* Before it writes, a request has changed nothing ...
Before(q, u) ==
  pc[q] \in {"member", "admins", "save", "upsert", "drop", "patch"} =>
    /\ Calm(u)
    /\ ~live => call[q].op \in {"delete", "undelete"}
    /\ pc[q] = "patch" => call[q].op \in BoardOps
    /\ pc[q] # "patch" => call[q].op \in MemberOps
    /\ pc[q] = "admins" => call[q].op # "add"
    /\ pc[q] \in {"save", "upsert"} => call[q].op # "remove"
    /\ pc[q] = "drop" => call[q].op = "remove"
    /\ call[q].op = "unlink" => (u \in olds[q] <=> u \in Synthetic)
\* ... and after it has written, the client lacks just what it is going to be told.
AfterMember(q, u) ==
  pc[q] \in {"record", "category", "queued"} /\ call[q].op \in MemberOps =>
    /\ live
    /\ call[q].op # "remove" => rows[u] = call[q].role
    /\ call[q].op = "remove" => rows[u] = None /\ pc[q] # "category" /\ (pc[q] = "queued" => HistoryOK(u))
AfterBoard(q, u) ==
  pc[q] \in {"record", "category", "queued"} /\ call[q].op \in BoardOps =>
    /\ pc[q] = "queued" /\ HistoryOK(u)
    /\ call[q].op = "link" => live /\ (u \in Synthetic \/ view[u] = MemberOf(u))
    /\ call[q].op = "unlink" =>
         live /\ ~linked /\ (u \in olds[q] => rows[u] = None) /\ (u \notin olds[q] => view[u] = rows[u])
    /\ call[q].op = "delete" => ~live /\ Agrees(u)
    /\ call[q].op = "undelete" => Calm(u) /\ live

Local(u) ==
  /\ (\A q \in Requests : ~Concerns(q, u)) => Calm(u)
  /\ \A q \in Requests : Concerns(q, u) => Before(q, u) /\ AfterMember(q, u) /\ AfterBoard(q, u)

SettleInv == Apart /\ \A u \in Users \ unsettled : Local(u)

\* At first nothing is under way, and every client agrees.
LEMMA SettleInit == Init => SettleInv
<1> SUFFICES ASSUME Init PROVE SettleInv
  OBVIOUS
<1>1. Active = {} /\ live /\ unaware = {}
  BY DEF Init, Active
<1>2. ASSUME NEW u \in Users PROVE Calm(u)
  <2>1. view[u] = MemberOf(u)
    BY DEF Init
  <2>2. HistoryOK(u)
    BY RolesAssumption DEF Init, HistoryOK, Roles
  <2> QED BY <1>1, <2>1, <2>2 DEF Calm, Agrees
<1> QED BY <1>1, <1>2 DEF SettleInv, Apart, Local, Concerns

\* A request begins apart from the others, or what they share is unsettled.
LEMMA ApartStep == TypeOK /\ Apart /\ [Next]_vars => Apart'
<1> SUFFICES ASSUME TypeOK, Apart, [Next]_vars PROVE Apart'
  OBVIOUS
<1>0. pc \in [Requests -> Steps] /\ call \in [Requests -> Call \cup {None}]
  BY DEF TypeOK
<1> USE DEF store, clients, Goto
<1>1. ASSUME call' = call, Active' \subseteq Active, unsettled \subseteq unsettled' PROVE Apart'
  BY <1>1 DEF Apart, Shared
<1>2. ASSUME NEW r \in Requests, NEW c \in Call, Begin(r, c) PROVE Apart'
  <2>1. call'[r] = c /\ \A q \in Requests : q # r => call'[q] = call[q] /\ pc'[q] = pc[q]
    BY <1>0, <1>2 DEF Begin
  <2>2. unsettled' = unsettled \cup UNION {Shared(c, call[q]) : q \in Active} /\ pc[r] = "idle"
    BY <1>2 DEF Begin
  <2>3. Active' \subseteq Active \cup {r} /\ r \notin Active
    BY <2>1, <2>2 DEF Active
  <2>4. \A q \in Active : Shared(c, call[q]) \subseteq unsettled'
    BY <2>2
  <2>5. \A p, q : Shared(p, q) = Shared(q, p)
    BY DEF Shared
  <2>6. ASSUME NEW p \in Active', NEW q \in Active', p # q PROVE Shared(call'[p], call'[q]) \subseteq unsettled'
    <3>1. CASE p = r
      <4>1. q \in Active /\ call'[q] = call[q] /\ call'[p] = c
        BY <3>1, <2>6, <2>1, <2>3 DEF Active
      <4> QED BY <4>1, <2>4
    <3>2. CASE q = r
      <4>1. p \in Active /\ call'[p] = call[p] /\ call'[q] = c
        BY <3>2, <2>6, <2>1, <2>3 DEF Active
      <4> QED BY <4>1, <2>4, <2>5
    <3>3. CASE p # r /\ q # r
      <4>1. p \in Active /\ q \in Active /\ call'[p] = call[p] /\ call'[q] = call[q]
        BY <3>3, <2>6, <2>1, <2>3 DEF Active
      <4> QED BY <4>1, <2>2, <2>6 DEF Apart
    <3> QED BY <3>1, <3>2, <3>3
  <2> QED BY <2>6 DEF Apart, Shared
<1>3. ASSUME NEW r \in Requests, pc[r] \notin {"idle", "done"}, NEW step, pc' = [pc EXCEPT ![r] = step]
      PROVE  Active' \subseteq Active
  BY <1>0, <1>3 DEF Active
<1>4. ASSUME NEW r \in Requests, Handler(r) \/ FailAfterWrite(r) \/ Tell(r) PROVE Apart'
  <2>1. call' = call /\ unsettled \subseteq unsettled'
    BY <1>4 DEF Handler, Tell, ReadMember, CheckAdmins, SaveRead, SaveUpsert, SaveRecord, DropRow, DropRecord,
                AddToCategory, PatchLink, DeleteBoard, UndeleteBoard, FailAfterWrite, TellChange, TellRemoval,
                TellLink, TellUnlink, TellDeletion, TellUndeletion, Told
  <2>2. pc[r] \notin {"idle", "done"} /\ \E step : pc' = [pc EXCEPT ![r] = step]
    BY <1>4 DEF Handler, Tell, ReadMember, CheckAdmins, SaveRead, SaveUpsert, SaveRecord, DropRow, DropRecord, At,
                AddToCategory, PatchLink, DeleteBoard, UndeleteBoard, FailAfterWrite, TellChange, TellRemoval,
                TellLink, TellUnlink, TellDeletion, TellUndeletion, Told
  <2> QED BY <2>1, <2>2, <1>1, <1>3
<1>5. CASE UNCHANGED vars
  BY <1>5, <1>1 DEF vars, Active
<1> QED BY <1>2, <1>4, <1>5 DEF Next

\* Whether a user is a member through the channel depends on that user's row only.
LEMMA SyntheticIs ==
  ASSUME NEW u \in Users
  PROVE  u \in Synthetic <=> live /\ linked /\ u \in ChannelUsers /\ u \notin Guests /\ rows[u] = None
BY UsersAssumption DEF Synthetic

\* What a request does not concern, it leaves.
LEMMA Elsewhere ==
  ASSUME NEW r \in Requests, NEW u \in Users, Local(u), ~Concerns(r, u), ~Concerns(r, u)',
         \A q \in Requests \ {r} : pc'[q] = pc[q] /\ call'[q] = call[q] /\ olds'[q] = olds[q],
         live' = live, linked' = linked, rows'[u] = rows[u], history'[u] = history[u],
         view'[u] = view[u], u \in unaware' <=> u \in unaware
  PROVE  Local(u)'
<1>1. u \in Synthetic' <=> u \in Synthetic
  BY UsersAssumption DEF Synthetic
<1>2. MemberOf(u)' = MemberOf(u)
  BY <1>1 DEF MemberOf
<1>3. Calm(u)' <=> Calm(u)
  BY <1>2 DEF Calm, Agrees, HistoryOK
<1>4. \A q \in Requests : Concerns(q, u)' <=> Concerns(q, u)
  BY DEF Concerns, Active
<1>5. ASSUME NEW q \in Requests, Concerns(q, u)' PROVE Before(q, u)' /\ AfterMember(q, u)' /\ AfterBoard(q, u)'
  <2>1. q # r /\ Concerns(q, u)
    BY <1>4, <1>5
  <2>2. pc'[q] = pc[q] /\ call'[q] = call[q] /\ olds'[q] = olds[q]
    BY <2>1
  <2>3. Before(q, u) /\ AfterMember(q, u) /\ AfterBoard(q, u)
    BY <2>1 DEF Local
  <2>4. Before(q, u)'
    BY <1>1, <1>3, <2>2, <2>3 DEF Before
  <2>5. AfterMember(q, u)'
    BY <2>2, <2>3 DEF AfterMember, HistoryOK
  <2>6. AfterBoard(q, u)'
    BY <1>1, <1>2, <1>3, <2>2, <2>3 DEF AfterBoard, HistoryOK, Agrees
  <2> QED BY <2>4, <2>5, <2>6
<1> QED BY <1>3, <1>4, <1>5 DEF Local

\* The request that concerns a user is alone: what it does next decides.
LEMMA Here ==
  ASSUME NEW r \in Requests, NEW u \in Users, \A q \in Requests \ {r} : ~Concerns(q, u)',
         ~Concerns(r, u)' => Calm(u)',
         Concerns(r, u)' => Before(r, u)' /\ AfterMember(r, u)' /\ AfterBoard(r, u)'
  PROVE  Local(u)'
BY DEF Local

\* One request of a member, one step further.
LEMMA MemberStep ==
  ASSUME TypeOK, NEW r \in Requests, NEW u \in Users, Concerns(r, u),
         Before(r, u), AfterMember(r, u), AfterBoard(r, u), u \notin unsettled',
         \/ ReadMember(r) \/ CheckAdmins(r) \/ SaveRead(r) \/ SaveUpsert(r) \/ SaveRecord(r) \/ DropRow(r)
         \/ DropRecord(r) \/ AddToCategory(r) \/ FailAfterWrite(r) \/ TellChange(r) \/ TellRemoval(r)
  PROVE  /\ ~Concerns(r, u)' => Calm(u)'
         /\ Concerns(r, u)' => Before(r, u)' /\ AfterMember(r, u)' /\ AfterBoard(r, u)'
<1> USE DEF store, clients, Goto
<1>0. /\ pc \in [Requests -> Steps] /\ call[r] \in Call /\ rows \in [Users -> Roles \cup {None}]
      /\ history \in [Users -> {"none", "created", "deleted"}] /\ view \in [Users -> Roles \cup {None}]
  BY DEF TypeOK, Concerns, Active
<1>a. call[r].op \in MemberOps \cup BoardOps /\ call[r].user \in Users /\ call[r].role \in Roles
      /\ call[r].role # None
  BY <1>0, CallFields, RolesAssumption
<1>b. MemberOps \cap BoardOps = {}
  BY DEF MemberOps, BoardOps
\* A step that only reads.
<1>c. ASSUME UNCHANGED <<store, clients, call, olds>> PROVE Calm(u)' <=> Calm(u)
  BY <1>c DEF Calm, Agrees, HistoryOK, MemberOf, Synthetic
<1>d. ASSUME UNCHANGED <<store, clients, call, olds>> PROVE u \in Synthetic' <=> u \in Synthetic
  BY <1>d DEF Synthetic
<1>e. ASSUME UNCHANGED <<store, clients, call, olds>>,
             pc[r] \in {"member", "admins", "save", "upsert", "drop"},
             pc'[r] \in {"admins", "save", "upsert", "drop", "done"},
             pc'[r] = "admins" => call[r].op # "add",
             pc'[r] \in {"save", "upsert"} => call[r].op # "remove",
             pc'[r] = "drop" => call[r].op = "remove"
      PROVE  /\ ~Concerns(r, u)' => Calm(u)'
             /\ Concerns(r, u)' => Before(r, u)' /\ AfterMember(r, u)' /\ AfterBoard(r, u)'
  BY <1>c, <1>d, <1>e DEF Before, AfterMember, AfterBoard
<1>1. CASE ReadMember(r)
  <2>1. pc[r] = "member" /\ call[r].op \in MemberOps
    BY <1>1 DEF ReadMember, Before
  <2>2. /\ pc'[r] \in {"admins", "save", "drop", "done"}
        /\ pc'[r] = "admins" => call[r].op # "add"
        /\ pc'[r] = "save" => call[r].op # "remove"
        /\ pc'[r] = "drop" => call[r].op = "remove"
    BY <1>0, <1>1, <2>1 DEF ReadMember, MemberOps
  <2> QED BY <1>1, <2>1, <2>2, <1>e DEF ReadMember
<1>2. CASE CheckAdmins(r)
  <2>1. pc[r] = "admins" /\ call[r].op \in MemberOps /\ call[r].op # "add"
    BY <1>2 DEF CheckAdmins, Before
  <2>2. CASE call[r].op = "update"
    <3>1. pc'[r] \in {"save", "done"} /\ (pc'[r] = "save" => call[r].op = "update")
      BY <1>0, <1>2, <2>2 DEF CheckAdmins
    <3> QED BY <1>2, <2>1, <2>2, <3>1, <1>e DEF CheckAdmins
  <2>3. CASE call[r].op = "remove"
    <3>1. pc'[r] \in {"drop", "done"}
      BY <1>0, <1>2, <2>3 DEF CheckAdmins
    <3> QED BY <1>2, <2>1, <2>3, <3>1, <1>e DEF CheckAdmins
  <2> QED BY <2>1, <2>2, <2>3 DEF MemberOps
<1>3. CASE SaveRead(r)
  <2>1. pc[r] = "save" /\ pc'[r] = "upsert" /\ call[r].op # "remove"
    BY <1>0, <1>3 DEF SaveRead, Before
  <2> QED BY <1>3, <2>1, <1>e DEF SaveRead
<1>4. CASE SaveUpsert(r)
  <2>1. pc[r] = "upsert" /\ call[r].op \in MemberOps /\ call[r].op # "remove" /\ live
    BY <1>4, <1>a DEF SaveUpsert, Before, MemberOps
  <2>2. u = call[r].user
    BY <2>1, <1>b DEF Concerns
  <2>3. rows'[u] = call[r].role /\ UNCHANGED <<live, linked, history, view, unaware, call, olds>>
    BY <1>0, <1>4, <2>2 DEF SaveUpsert, WriteRow
  <2>4. pc'[r] \in {"record", "category", "queued"}
    BY <1>0, <1>4 DEF SaveUpsert
  <2>5. Concerns(r, u)'
    BY <2>2, <2>3, <2>4 DEF Concerns, Active
  <2> QED BY <2>1, <2>3, <2>4, <2>5, <1>b DEF Before, AfterMember, AfterBoard
<1>5. CASE SaveRecord(r)
  <2>1. pc[r] = "record" /\ call[r].op # "remove" /\ pc'[r] \in {"category", "queued"}
    BY <1>0, <1>5 DEF SaveRecord
  <2>2. call[r].op \in MemberOps
    BY <2>1, <1>a DEF AfterBoard
  <2>3. live /\ rows[u] = call[r].role
    BY <2>1, <2>2 DEF AfterMember
  <2>4. UNCHANGED <<live, linked, rows, view, unaware, call, olds>>
    BY <1>5 DEF SaveRecord
  <2>5. Concerns(r, u)'
    BY <2>1, <2>4 DEF Concerns, Active
  <2> QED BY <2>1, <2>2, <2>3, <2>4, <2>5, <1>b DEF Before, AfterMember, AfterBoard
<1>6. CASE DropRow(r)
  <2>1. pc[r] = "drop" /\ call[r].op = "remove" /\ call[r].op \in MemberOps /\ live
    BY <1>6 DEF DropRow, Before, MemberOps
  <2>2. u = call[r].user /\ HistoryOK(u)
    BY <2>1, <1>b DEF Concerns, Before, Calm
  <2>3. rows'[u] = None /\ UNCHANGED <<live, linked, history, view, unaware, call, olds>>
    BY <1>0, <1>6, <2>2 DEF DropRow, WriteRow
  <2>4. pc'[r] = "record" \/ (pc'[r] = "queued" /\ rows[u] = None)
    BY <1>0, <1>6, <2>2 DEF DropRow
  <2>5. Concerns(r, u)'
    BY <2>2, <2>3, <2>4 DEF Concerns, Active
  <2> QED BY <2>1, <2>2, <2>3, <2>4, <2>5, <1>b DEF Before, AfterMember, AfterBoard, HistoryOK
<1>7. CASE DropRecord(r)
  <2>1. pc[r] = "record" /\ call[r].op = "remove" /\ call[r].op \in MemberOps /\ pc'[r] = "queued"
    BY <1>0, <1>7 DEF DropRecord, At, MemberOps
  <2>2. live /\ rows[u] = None /\ u = call[r].user
    BY <2>1, <1>b DEF AfterMember, Concerns
  <2>3. UNCHANGED <<live, linked, rows, view, unaware, call, olds>> /\ history'[u] = "deleted"
    BY <1>0, <1>7, <2>2 DEF DropRecord
  <2>4. Concerns(r, u)'
    BY <2>1, <2>2, <2>3 DEF Concerns, Active
  <2> QED BY <2>1, <2>2, <2>3, <2>4, <1>b DEF Before, AfterMember, AfterBoard, HistoryOK
<1>8. CASE AddToCategory(r)
  <2>1. pc[r] = "category" /\ pc'[r] = "queued" /\ call[r].op \in MemberOps
    BY <1>0, <1>8, <1>a DEF AddToCategory, AfterBoard
  <2>2. call[r].op # "remove" /\ live /\ rows[u] = call[r].role
    BY <2>1 DEF AfterMember
  <2>3. UNCHANGED <<live, linked, rows, view, unaware, history, call, olds>>
    BY <1>8 DEF AddToCategory
  <2>4. Concerns(r, u)'
    BY <2>1, <2>3 DEF Concerns, Active
  <2> QED BY <2>1, <2>2, <2>3, <2>4, <1>b DEF Before, AfterMember, AfterBoard
<1>9. CASE FailAfterWrite(r)
  <2>1. pc[r] \in {"record", "category"} /\ call[r].user \in unsettled'
    BY <1>9 DEF FailAfterWrite
  <2>2. call[r].op \notin BoardOps
    BY <2>1 DEF AfterBoard
  <2> QED BY <2>1, <2>2 DEF Concerns
<1>10. CASE TellChange(r) \/ TellRemoval(r)
  <2>1. pc[r] = "queued" /\ call[r].op \in MemberOps /\ pc'[r] = "done"
    BY <1>0, <1>10 DEF TellChange, TellRemoval, Told, MemberOps
  <2>2. u = call[r].user /\ live
    BY <2>1, <1>b DEF Concerns, AfterMember
  <2>3. UNCHANGED <<live, linked, rows, history, unaware, call, olds>>
    BY <1>10 DEF TellChange, TellRemoval, Told
  <2>4. view'[u] = MemberOf(u) /\ HistoryOK(u)
    <3>1. CASE TellChange(r)
      <4>1. view'[u] = call[r].role /\ rows[u] = call[r].role
        BY <1>0, <2>1, <2>2, <3>1 DEF TellChange, Told, AfterMember
      <4> QED BY <4>1, <1>a, SyntheticIs DEF MemberOf, HistoryOK
    <3>2. CASE TellRemoval(r)
      BY <1>0, <2>1, <2>2, <3>2 DEF TellRemoval, Told, AfterMember
    <3> QED BY <1>10, <3>1, <3>2
  <2>5. MemberOf(u)' = MemberOf(u)
    BY <2>3 DEF MemberOf, Synthetic
  <2>6. ~Concerns(r, u)'
    BY <2>1 DEF Concerns, Active
  <2> QED BY <2>2, <2>3, <2>4, <2>5, <2>6 DEF Calm, Agrees, HistoryOK
<1> QED
  BY <1>1, <1>2, <1>3, <1>4, <1>5, <1>6, <1>7, <1>8, <1>9, <1>10

\* One request of the board, one step further: it concerns every user.
LEMMA BoardStep ==
  ASSUME TypeOK, NEW r \in Requests, NEW u \in Users, Concerns(r, u),
         Before(r, u), AfterMember(r, u), AfterBoard(r, u), u \notin unsettled',
         \/ PatchLink(r) \/ DeleteBoard(r) \/ UndeleteBoard(r)
         \/ TellLink(r) \/ TellUnlink(r) \/ TellDeletion(r) \/ TellUndeletion(r)
  PROVE  /\ ~Concerns(r, u)' => Calm(u)'
         /\ Concerns(r, u)' => Before(r, u)' /\ AfterMember(r, u)' /\ AfterBoard(r, u)'
<1> USE DEF store, clients, Goto
<1>0. pc \in [Requests -> Steps] /\ view \in [Users -> Roles \cup {None}]
  BY DEF TypeOK
<1>b. MemberOps \cap BoardOps = {} /\ {"link", "unlink", "delete", "undelete"} = BoardOps
  BY DEF MemberOps, BoardOps
<1>1. CASE PatchLink(r)
  <2>1. pc[r] = "patch" /\ call[r].op \in {"link", "unlink"} /\ live /\ Calm(u)
    BY <1>1 DEF PatchLink, Before
  <2>2. pc'[r] = "queued" /\ linked' = (call[r].op = "link")
        /\ UNCHANGED <<live, rows, history, view, unaware, call, olds>>
    BY <1>0, <1>1, <2>1 DEF PatchLink
  <2>3. Concerns(r, u)'
    BY <1>b, <2>1, <2>2 DEF Concerns, Active
  <2>4. CASE call[r].op = "link"
    <3>1. u \notin Synthetic' => u \notin Synthetic /\ MemberOf(u)' = rows[u]
      BY <2>1, <2>2, <2>4, SyntheticIs DEF MemberOf, Synthetic
    <3>2. view[u] = MemberOf(u)
      BY <2>1 DEF Calm, Agrees
    <3>3. u \in Synthetic' \/ view'[u] = MemberOf(u)'
      BY <2>2, <3>1, <3>2 DEF MemberOf
    <3> QED BY <1>b, <2>1, <2>2, <2>3, <2>4, <3>3 DEF Before, AfterMember, AfterBoard, HistoryOK, Calm
  <2>5. CASE call[r].op = "unlink"
    <3>1. u \in olds[r] <=> u \in Synthetic
      BY <2>1, <2>5 DEF Before
    <3>2. u \in olds[r] => rows[u] = None
      BY <3>1, SyntheticIs
    <3>3. u \notin olds[r] => view[u] = rows[u]
      BY <2>1, <3>1 DEF Calm, Agrees, MemberOf
    <3> QED BY <1>b, <2>1, <2>2, <2>3, <2>5, <3>2, <3>3 DEF Before, AfterMember, AfterBoard, HistoryOK, Calm
  <2> QED BY <2>1, <2>4, <2>5
<1>2. CASE DeleteBoard(r)
  <2>1. pc[r] = "patch" /\ call[r].op = "delete" /\ Calm(u)
    BY <1>2 DEF DeleteBoard, At, Before
  <2>2. ~live' /\ UNCHANGED <<linked, rows, history, view, call, olds>>
    BY <1>2 DEF DeleteBoard
  <2>3. CASE live
    <3>1. pc'[r] = "queued"
      BY <1>0, <1>2, <2>3 DEF DeleteBoard
    <3>2. view[u] = MemberOf(u)
      BY <2>1, <2>3 DEF Calm, Agrees
    <3>3. ~linked \/ u \notin ChannelUsers => view[u] = rows[u]
      BY <3>2, SyntheticIs DEF MemberOf
    <3>4. Agrees(u)'
      BY <2>2, <3>3 DEF Agrees
    <3>5. Concerns(r, u)'
      BY <1>b, <2>1, <2>2, <3>1 DEF Concerns, Active
    <3> QED BY <1>b, <2>1, <2>2, <3>1, <3>4, <3>5 DEF Before, AfterMember, AfterBoard, HistoryOK, Calm
  <2>4. CASE ~live
    <3>1. pc'[r] = "done" /\ UNCHANGED unaware
      BY <1>0, <1>2, <2>4 DEF DeleteBoard
    <3>2. ~Concerns(r, u)'
      BY <3>1 DEF Concerns, Active
    <3>3. Calm(u)'
      BY <2>1, <2>2, <2>4, <3>1 DEF Calm, Agrees, HistoryOK
    <3> QED BY <3>2, <3>3
  <2> QED BY <2>3, <2>4
<1>3. CASE UndeleteBoard(r)
  <2>1. pc[r] = "patch" /\ call[r].op = "undelete" /\ Calm(u)
    BY <1>3 DEF UndeleteBoard, At, Before
  <2>2. live' /\ linked' = (live /\ linked) /\ pc'[r] = "queued" /\ UNCHANGED <<rows, history, view, call, olds>>
    BY <1>0, <1>3 DEF UndeleteBoard
  <2>3. view[u] = MemberOf(u)'
    <3>1. CASE live
      <4>1. MemberOf(u)' = MemberOf(u)
        BY <2>2, <3>1 DEF MemberOf, Synthetic
      <4> QED BY <2>1, <3>1, <4>1 DEF Calm, Agrees
    <3>2. CASE ~live
      <4>1. ~linked \/ u \notin ChannelUsers
        BY <1>3, <3>2 DEF UndeleteBoard
      <4>2. MemberOf(u)' = rows[u]
        BY <2>2, <3>2 DEF MemberOf, Synthetic
      <4> QED BY <2>1, <3>2, <4>1, <4>2 DEF Calm, Agrees
    <3> QED BY <3>1, <3>2
  <2>4. Calm(u)'
    BY <2>1, <2>2, <2>3 DEF Calm, Agrees, HistoryOK
  <2>5. Concerns(r, u)'
    BY <1>b, <2>1, <2>2 DEF Concerns, Active
  <2> QED BY <1>b, <2>1, <2>2, <2>4, <2>5 DEF Before, AfterMember, AfterBoard, HistoryOK, Calm
<1>4. CASE TellLink(r) \/ TellUnlink(r) \/ TellDeletion(r) \/ TellUndeletion(r)
  <2>1. pc[r] = "queued" /\ call[r].op \in BoardOps /\ pc'[r] = "done"
    BY <1>0, <1>4 DEF TellLink, TellUnlink, TellDeletion, TellUndeletion, Told, BoardOps
  <2>2. UNCHANGED <<live, linked, rows, history, call, olds>>
    BY <1>4 DEF TellLink, TellUnlink, TellDeletion, TellUndeletion, Told
  <2>3. ~Concerns(r, u)' /\ HistoryOK(u)'
    BY <2>1, <2>2 DEF Concerns, Active, AfterBoard, HistoryOK
  <2>4. MemberOf(u)' = MemberOf(u)
    BY <2>2 DEF MemberOf, Synthetic
  <2>5. CASE TellLink(r)
    <3>1. live /\ (u \in Synthetic \/ view[u] = MemberOf(u))
      BY <2>1, <2>5 DEF TellLink, Told, AfterBoard
    <3>2. view'[u] = IF u \in Synthetic THEN "editor" ELSE view[u]
      BY <2>5 DEF TellLink, Told
    <3>3. view'[u] = MemberOf(u)
      BY <3>1, <3>2 DEF MemberOf
    <3> QED BY <2>2, <2>3, <2>4, <3>1, <3>3 DEF Calm, Agrees
  <2>6. CASE TellUnlink(r)
    <3>1. live /\ ~linked /\ (u \in olds[r] => rows[u] = None) /\ (u \notin olds[r] => view[u] = rows[u])
      BY <2>1, <2>6 DEF TellUnlink, Told, AfterBoard
    <3>2. view'[u] = rows[u]
      BY <2>6, <3>1 DEF TellUnlink, Told
    <3>3. MemberOf(u) = rows[u]
      BY <3>1, SyntheticIs DEF MemberOf
    <3> QED BY <2>2, <2>3, <2>4, <3>1, <3>2, <3>3 DEF Calm, Agrees
  <2>7. CASE TellDeletion(r)
    <3>1. ~live /\ Agrees(u)
      BY <2>1, <2>7 DEF TellDeletion, Told, AfterBoard
    <3>2. view' = view /\ unaware' = unaware \ Members
      BY <2>7 DEF TellDeletion, Told
    <3>3. u \in unaware' => rows[u] = None
      BY <3>1, <3>2, SyntheticIs DEF Members, MemberOf
    <3> QED BY <2>2, <2>3, <3>1, <3>2, <3>3 DEF Calm, Agrees
  <2>8. CASE TellUndeletion(r)
    <3>1. Calm(u) /\ live
      BY <2>1, <2>8 DEF TellUndeletion, Told, AfterBoard
    <3>2. UNCHANGED <<view, unaware>>
      BY <2>8 DEF TellUndeletion, Told
    <3> QED BY <2>2, <2>3, <2>4, <3>1, <3>2 DEF Calm, Agrees
  <2> QED BY <1>4, <2>5, <2>6, <2>7, <2>8
<1> QED BY <1>1, <1>2, <1>3, <1>4

\* Every step keeps users settled that it does not unsettle.
LEMMA SettleStep == TypeOK /\ SettleInv /\ [Next]_vars => SettleInv'
<1> SUFFICES ASSUME TypeOK, SettleInv, [Next]_vars PROVE SettleInv'
  OBVIOUS
<1>0. pc \in [Requests -> Steps] /\ call \in [Requests -> Call \cup {None}] /\ olds \in [Requests -> SUBSET Users]
  BY DEF TypeOK
<1>1. Apart /\ Apart'
  BY ApartStep DEF SettleInv
<1> USE DEF store, clients, Goto
<1>2. unsettled \subseteq unsettled'
  BY DEF Next, vars, Begin, Handler, Tell, ReadMember, CheckAdmins, SaveRead, SaveUpsert, SaveRecord, DropRow,
         DropRecord, AddToCategory, PatchLink, DeleteBoard, UndeleteBoard, FailAfterWrite, TellChange, TellRemoval,
         TellLink, TellUnlink, TellDeletion, TellUndeletion, Told
<1> SUFFICES ASSUME NEW u \in Users \ unsettled' PROVE Local(u)'
  BY <1>1 DEF SettleInv
<1>3. Local(u)
  BY <1>2 DEF SettleInv
\* Whoever concerns this user is alone.
<1>4. ASSUME NEW q \in Requests, NEW r \in Requests, Concerns(q, u)', Concerns(r, u)' PROVE q = r
  BY <1>1, <1>4 DEF Apart, Concerns, Shared
<1>5. ASSUME NEW q \in Requests, NEW r \in Requests, Concerns(q, u), Concerns(r, u) PROVE q = r
  BY <1>1, <1>2, <1>5 DEF Apart, Concerns, Shared
<1>6. ASSUME NEW r \in Requests, NEW c \in Call, Begin(r, c) PROVE Local(u)'
  <2>1. pc[r] = "idle" /\ UNCHANGED <<live, linked, rows, history, view, unaware>> /\ ~Concerns(r, u)
    BY <1>6 DEF Begin, Concerns, Active
  <2>2. \A q \in Requests \ {r} : pc'[q] = pc[q] /\ call'[q] = call[q] /\ olds'[q] = olds[q]
    BY <1>0, <1>6 DEF Begin
  <2>3. CASE ~Concerns(r, u)'
    BY <2>1, <2>2, <2>3, <1>3, Elsewhere
  <2>4. CASE Concerns(r, u)'
    <3>1. \A q \in Requests \ {r} : ~Concerns(q, u)' /\ ~Concerns(q, u)
      BY <1>4, <2>2, <2>4 DEF Concerns, Active
    <3>2. Calm(u) /\ Calm(u)'
      <4>1. Calm(u)
        BY <2>1, <3>1, <1>3 DEF Local
      <4> QED BY <4>1, <2>1 DEF Calm, Agrees, HistoryOK, MemberOf, Synthetic
    <3>3. call'[r] = c /\ olds'[r] = IF c.op = "unlink" THEN Synthetic ELSE {}
      BY <1>0, <1>6 DEF Begin
    <3>4. pc'[r] = IF ~live /\ c.op # "undelete" THEN "done" ELSE IF c.op \in MemberOps THEN "member" ELSE "patch"
      BY <1>0, <1>6 DEF Begin
    <3>5. c.op \in MemberOps \cup BoardOps
      BY CallFields
    <3>6. u \in Synthetic' <=> u \in Synthetic
      BY <2>1 DEF Synthetic
    <3>7. pc'[r] # "done"
      BY <2>4 DEF Concerns, Active
    <3>8. Before(r, u)'
      BY <2>1, <3>2, <3>3, <3>4, <3>5, <3>6, <3>7 DEF Before
    <3>9. AfterMember(r, u)' /\ AfterBoard(r, u)'
      BY <3>4, <3>7 DEF AfterMember, AfterBoard
    <3> QED BY <2>4, <3>1, <3>8, <3>9, Here
  <2> QED BY <2>3, <2>4
<1>7. ASSUME NEW r \in Requests, Handler(r) \/ FailAfterWrite(r) \/ Tell(r) PROVE Local(u)'
  <2>1. /\ \A q \in Requests \ {r} : pc'[q] = pc[q] /\ call'[q] = call[q] /\ olds'[q] = olds[q]
        /\ call'[r] = call[r] /\ r \in Active
    <3>1. UNCHANGED <<call, olds>> /\ pc[r] \notin {"idle", "done"} /\ \E step : pc' = [pc EXCEPT ![r] = step]
      BY <1>7 DEF Handler, Tell, ReadMember, CheckAdmins, SaveRead, SaveUpsert, SaveRecord, DropRow, DropRecord, At,
                  AddToCategory, PatchLink, DeleteBoard, UndeleteBoard, FailAfterWrite, TellChange, TellRemoval,
                  TellLink, TellUnlink, TellDeletion, TellUndeletion, Told
    <3> QED BY <1>0, <3>1 DEF Active
  <2>2. CASE Concerns(r, u)
    <3>1. \A q \in Requests \ {r} : ~Concerns(q, u)'
      BY <1>5, <2>1, <2>2 DEF Concerns, Active
    <3>2. Before(r, u) /\ AfterMember(r, u) /\ AfterBoard(r, u)
      BY <1>3, <2>2 DEF Local
    <3>3. /\ ~Concerns(r, u)' => Calm(u)'
          /\ Concerns(r, u)' => Before(r, u)' /\ AfterMember(r, u)' /\ AfterBoard(r, u)'
      BY <1>7, <2>2, <3>2, MemberStep, BoardStep DEF Handler, Tell
    <3> QED BY <3>1, <3>3, Here
  <2>3. CASE ~Concerns(r, u)
    <3>1. call[r].op \notin BoardOps /\ call[r].user # u /\ ~Concerns(r, u)'
      BY <2>1, <2>3 DEF Concerns
    <3>2. /\ live' = live /\ linked' = linked /\ rows'[u] = rows[u] /\ history'[u] = history[u]
          /\ view'[u] = view[u] /\ unaware' = unaware
      <4>1. rows \in [Users -> Roles \cup {None}] /\ history \in [Users -> {"none", "created", "deleted"}]
            /\ view \in [Users -> Roles \cup {None}]
        BY DEF TypeOK
      <4>2. CASE SaveUpsert(r) \/ DropRow(r)
        BY <3>1, <4>1, <4>2 DEF SaveUpsert, DropRow, WriteRow
      <4>3. CASE SaveRecord(r) \/ DropRecord(r)
        BY <3>1, <4>1, <4>3 DEF SaveRecord, DropRecord
      <4>4. CASE TellChange(r) \/ TellRemoval(r)
        BY <3>1, <4>1, <4>4 DEF TellChange, TellRemoval, Told
      <4>5. CASE ReadMember(r) \/ CheckAdmins(r) \/ SaveRead(r) \/ AddToCategory(r) \/ FailAfterWrite(r)
        BY <4>5 DEF ReadMember, CheckAdmins, SaveRead, AddToCategory, FailAfterWrite
      <4>6. ~(PatchLink(r) \/ DeleteBoard(r) \/ UndeleteBoard(r) \/ TellLink(r) \/ TellUnlink(r)
              \/ TellDeletion(r) \/ TellUndeletion(r))
        BY <3>1 DEF PatchLink, DeleteBoard, UndeleteBoard, TellLink, TellUnlink, TellDeletion, TellUndeletion, Told,
                    At, BoardOps
      <4> QED BY <1>7, <4>2, <4>3, <4>4, <4>5, <4>6 DEF Handler, Tell
    <3> QED BY <2>1, <2>3, <3>1, <3>2, <1>3, Elsewhere
  <2> QED BY <2>2, <2>3
<1>8. CASE UNCHANGED vars
  <2>1. Local(u)' <=> Local(u)
    BY <1>8 DEF vars, Local, Concerns, Active, Before, AfterMember, AfterBoard, Calm, Agrees, HistoryOK, MemberOf, Synthetic
  <2> QED BY <2>1, <1>3
<1> QED BY <1>6, <1>7, <1>8 DEF Next

\* A user that no request concerns is settled, but for overlaps and failures.
LEMMA QuietIsCalm ==
  ASSUME SettleInv, Quiet, NEW u \in Users \ unsettled
  PROVE  Calm(u)
BY DEF SettleInv, Local, Concerns, Quiet

\* Every reachable state satisfies the invariant of the settled users.
LEMMA Settling == Spec => [](TypeOK /\ SettleInv)
BY SettleInit, SettleStep, TypeCorrect, PTL DEF Spec

\* When all requests and callbacks are done, what a user's client was told of the
\* user's own membership agrees with the tables, but for overlaps and failures.
THEOREM ViewsAgree == Spec => []ViewsSettle
<1>1. SettleInv => ViewsSettle
  BY QuietIsCalm DEF ViewsSettle, Calm, Agrees
<1> QED BY <1>1, Settling, PTL

\* When all requests and callbacks are done, the history of memberships calls no
\* user a member who has no row, but for overlaps and failures.
THEOREM HistoryTrue == Spec => []HistoryMatches
<1>1. SettleInv => HistoryMatches
  BY QuietIsCalm DEF HistoryMatches, Calm, HistoryOK
<1> QED BY <1>1, Settling, PTL

\* When a deletion is done and its callback has run, nobody who still has a row is
\* left unaware of it, but for overlaps and failures.
THEOREM DeletionTold == Spec => []DeletionReachesMembers
<1>1. TypeOK /\ SettleInv => DeletionReachesMembers
  BY QuietIsCalm DEF DeletionReachesMembers, Calm, TypeOK
<1> QED BY <1>1, Settling, PTL

\* Types are kept; when all is quiet, the clients and the history agree with the
\* tables, but for overlaps and failures.
THEOREM MembersAgree == Spec => []MembersInv
<1>1. TypeOK /\ ViewsSettle /\ HistoryMatches => MembersInv
  BY DEF MembersInv
<1> QED BY <1>1, TypeCorrect, ViewsAgree, HistoryTrue, PTL
=============================================================================
