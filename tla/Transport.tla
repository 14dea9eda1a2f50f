------------------------------ MODULE Transport ------------------------------
(***************************************************************************)
(* src/src/libobjsee/transport/transport.c: the threads of the traced      *)
(* program that call transport_send, the transport thread that drains the  *)
(* queue to a file descriptor, and the thread that runs transport_init.    *)
(*                                                                         *)
(* One step is what a thread does between two points where another thread  *)
(* can interfere: a lock acquisition, a condition wait, an unlocked access *)
(* to ctx->running, a system call.  Time is abstract: a timed wait may     *)
(* expire at any moment.  Bytes are abstract: a message is BodyLen bytes,  *)
(* the last of which is a newline or is not.                               *)
(***************************************************************************)
EXTENDS Naturals, Sequences

CONSTANTS
  Senders,      \* threads of the traced program that record events
  Capacity,     \* ctx->queue.capacity, 10000 in the code
  MaxSends,     \* bound: calls of transport_send each sender makes
  BodyLen,      \* bytes of a message as it is queued
  MaxRetries,   \* MAX_RETRIES, 3 in the code
  Patience,     \* consecutive refusals the send loop forgives, 3 in the code
  Types,        \* transport types explored
  None          \* no thread, no message

Thread == "transport_thread"

Message == [from: Senders, seq: 1..MaxSends, nl: BOOLEAN]

ASSUME SendersAssumption == /\ Thread \notin Senders
                            /\ None \notin Senders \cup {Thread} \cup Message
ASSUME BoundsAssumption  == /\ Capacity \in Nat \ {0} /\ BodyLen \in Nat \ {0}
                            /\ MaxRetries \in Nat \ {0}
                            /\ Patience \in Nat /\ MaxSends \in Nat
ASSUME TypesAssumption   == Types \subseteq {"SOCKET", "FILE", "STDOUT", "CUSTOM"}

VARIABLES
  type,       \* ctx->type
  ipc,        \* where transport_init is
  tries,      \* connection attempts made
  running,    \* ctx->running
  queue,      \* ctx->queue.messages[0 .. count-1]
  qlock,      \* holder of ctx->queue.lock
  wlock,      \* holder of ctx->write_lock
  pc,         \* where each sender is in transport_send
  msg,        \* the message each sender is sending
  sent,       \* calls of transport_send each sender has made
  tpc,        \* where transport_thread is
  hand,       \* the message transport_thread has taken off the queue
  total,      \* total_sent
  length,     \* send_length
  blocked,    \* consecutive_wouldblock
  retries,    \* retry_count
  wire,       \* history: bytes the socket took, as <<message, index>>
  delivered,  \* history: messages taken whole, in order
  torn        \* history: messages whose newline never followed them

initVars == <<type, ipc, tries, running>>
callVars == <<wlock, msg, sent>>
loopVars == <<hand, total, length, blocked, retries>>
outVars  == <<wire, delivered, torn>>
vars == <<initVars, callVars, loopVars, outVars, pc, tpc, queue, qlock>>

Init ==
  /\ type \in Types /\ ipc = "create" /\ tries = 0 /\ running = FALSE
  /\ queue = <<>> /\ qlock = None /\ wlock = None
  /\ pc = [s \in Senders |-> "idle"]
  /\ msg = [s \in Senders |-> None]
  /\ sent = [s \in Senders |-> 0]
  /\ tpc = "none" /\ hand = None
  /\ total = 0 /\ length = 0 /\ blocked = 0 /\ retries = 0
  /\ wire = <<>> /\ delivered = <<>> /\ torn = {}
-----------------------------------------------------------------------------
(* transport_init.  tracer_start installs the hook only after it returned, *)
(* so senders appear once ipc is "up".                                     *)

InitGoto(from, to) ==
  /\ ipc = from
  /\ ipc' = to
  /\ UNCHANGED <<type, callVars, loopVars, outVars, pc, queue, qlock>>

\* calloc, a mutex, a condition variable or pthread_create fails.
SpawnFails == InitGoto("create", "failed") /\ UNCHANGED <<tries, running, tpc>>

\* ctx->running is set before the thread exists, the descriptor after it does.
Spawn ==
  /\ InitGoto("create", "setup")
  /\ running' = TRUE
  /\ tpc' = "outer"
  /\ UNCHANGED tries

\* The descriptor is connected or opened, or there is nothing to open.
SetupSucceeds == InitGoto("setup", "up") /\ UNCHANGED <<tries, running, tpc>>

\* Mutant: the attempts are counted one too late.
ConnectFails_OneMore ==
  /\ type = "SOCKET"
  /\ tries' = tries + 1
  /\ InitGoto("setup", IF tries = MaxRetries THEN "stop" ELSE "setup")
  /\ UNCHANGED <<running, tpc>>

\* One of MAX_RETRIES connection attempts fails.
ConnectFails ==
  /\ type = "SOCKET"
  /\ tries' = tries + 1
  /\ InitGoto("setup", IF tries' = MaxRetries THEN "stop" ELSE "setup")
  /\ UNCHANGED <<running, tpc>>

\* No host or port, a bad address, or a file that cannot be opened.
SetupFails ==
  /\ type \in {"SOCKET", "FILE"}
  /\ InitGoto("setup", "stop")
  /\ UNCHANGED <<tries, running, tpc>>

\* ctx->running = false, without the queue lock.
StopThread == InitGoto("stop", "signal") /\ running' = FALSE /\ UNCHANGED <<tries, tpc>>

WakeThread == tpc' = IF tpc = "waiting" THEN "woken" ELSE tpc

SignalThread == InitGoto("signal", "join") /\ WakeThread /\ UNCHANGED <<tries, running>>

\* pthread_join, then the queue, the locks and the context are freed.
Join ==
  /\ tpc \in {"done", "dead"}
  /\ InitGoto("join", "failed")
  /\ UNCHANGED <<tries, running, tpc>>

InitStep == \/ SpawnFails \/ Spawn \/ SetupSucceeds \/ ConnectFails \/ SetupFails
            \/ StopThread \/ SignalThread \/ Join
-----------------------------------------------------------------------------
(* transport_send. *)

Goto(s, from, to) == pc[s] = from /\ pc' = [pc EXCEPT ![s] = to]

\* A step that neither begins nor ends a call, nor touches the queue.
Moves(s, from, to) ==
  /\ Goto(s, from, to)
  /\ UNCHANGED <<initVars, callVars, loopVars, outVars, tpc, queue, qlock>>

\* The event handler calls transport_send with a non-empty message.
Call(s) ==
  /\ ipc = "up" /\ sent[s] < MaxSends
  /\ Goto(s, "idle", "wlock")
  /\ sent' = [sent EXCEPT ![s] = @ + 1]
  /\ \E nl \in BOOLEAN :
       msg' = [msg EXCEPT ![s] = [from |-> s, seq |-> sent[s] + 1, nl |-> nl]]
  /\ UNCHANGED <<initVars, loopVars, outVars, tpc, queue, qlock, wlock>>

Queued == type \in {"SOCKET", "FILE"}

AcquireWrite(s) ==
  /\ wlock = None
  /\ wlock' = s
  /\ Goto(s, "wlock", IF Queued THEN "copy" ELSE "direct")
  /\ UNCHANGED <<initVars, loopVars, outVars, tpc, queue, qlock, msg, sent>>

\* malloc of the copy fails: TRACER_ERROR_MEMORY.
CopyFails(s) == Moves(s, "copy", "unlock")
Copy(s)      == Moves(s, "copy", "qlock")

AcquireQueue(s) ==
  /\ qlock = None
  /\ qlock' = s
  /\ Goto(s, "qlock", "check") \/ Goto(s, "woken", "check")
  /\ UNCHANGED <<initVars, callVars, loopVars, outVars, tpc, queue>>

Full == Len(queue) >= Capacity

\* Mutant: the newest message goes to the front.
Enqueue_Front(s) ==
  /\ ~ Full
  /\ Goto(s, "check", "unlock")
  /\ queue' = <<msg[s]>> \o queue
  /\ WakeThread
  /\ qlock' = None
  /\ UNCHANGED <<initVars, callVars, loopVars, outVars>>

\* Append, signal not_empty, release the queue lock: TRACER_SUCCESS.
Enqueue(s) ==
  /\ ~ Full
  /\ Goto(s, "check", "unlock")
  /\ queue' = Append(queue, msg[s])
  /\ WakeThread
  /\ qlock' = None
  /\ UNCHANGED <<initVars, callVars, loopVars, outVars>>

\* pthread_cond_timedwait(not_full) releases the queue lock, not write_lock.
WaitForRoom(s) ==
  /\ Full
  /\ Goto(s, "check", "waiting")
  /\ qlock' = None
  /\ UNCHANGED <<initVars, callVars, loopVars, outVars, tpc, queue>>

\* The absolute two-second deadline passes; or the wait ends for no reason,
\* as POSIX allows, and the loop tests again.
WaitExpires(s)    == Moves(s, "waiting", "timedout")
WakeForNothing(s) == Moves(s, "waiting", "woken")

\* ETIMEDOUT: the wait takes the queue lock back, the error path releases it
\* without testing the queue again: TRACER_ERROR_TIMEOUT.
GiveUp(s) == qlock = None /\ Moves(s, "timedout", "unlock")

\* write(2) to standard output, or the custom handler, under write_lock.
Direct(s) ==
  /\ Goto(s, "direct", "unlock")
  /\ delivered' = Append(delivered, msg[s])
  /\ UNCHANGED <<initVars, callVars, loopVars, wire, torn, tpc, queue, qlock>>

\* Mutant: a return forgets write_lock.
ReleaseWrite_Forgotten(s) == Moves(s, "unlock", "idle")

ReleaseWrite(s) ==
  /\ Goto(s, "unlock", "idle")
  /\ wlock' = None
  /\ UNCHANGED <<initVars, loopVars, outVars, tpc, queue, qlock, msg, sent>>

SenderRuns(s)  == \/ CopyFails(s) \/ Copy(s) \/ Enqueue(s) \/ WaitForRoom(s)
                  \/ Direct(s) \/ ReleaseWrite(s)
SenderLocks(s) == AcquireWrite(s) \/ AcquireQueue(s) \/ GiveUp(s)
SenderStep(s)  == \/ Call(s) \/ SenderRuns(s) \/ SenderLocks(s)
                  \/ WaitExpires(s) \/ WakeForNothing(s)
-----------------------------------------------------------------------------
(* transport_thread. *)

ThreadGoto(from, to) ==
  /\ tpc = from
  /\ tpc' = to
  /\ UNCHANGED <<initVars, callVars>>

\* A step that leaves the queue, its lock and the send loop alone.
ThreadMoves(from, to) ==
  ThreadGoto(from, to) /\ UNCHANGED <<loopVars, outVars, pc, queue, qlock>>

\* while (ctx->running), read without a lock.
ReadRunning == ThreadMoves("outer", IF running THEN "lock" ELSE "done")

\* Entering the loop body, or coming back from the wait: a wait that was
\* signalled tests the condition again, one that timed out leaves the loop.
LockQueue ==
  /\ qlock = None
  /\ qlock' = Thread
  /\ \/ ThreadGoto("lock", "test")
     \/ ThreadGoto("woken", "test")
     \/ ThreadGoto("timedout", "tested")
  /\ UNCHANGED <<loopVars, outVars, pc, queue>>

\* while (count == 0 && running): running may change before the wait begins.
TestQueue ==
  ThreadMoves("test", IF queue = <<>> /\ running THEN "towait" ELSE "tested")

Unlocks(from, to) ==
  /\ ThreadGoto(from, to)
  /\ qlock' = None
  /\ UNCHANGED <<loopVars, outVars, pc, queue>>

WaitForMessage == Unlocks("towait", "waiting")

\* Mutant: the wait has no deadline.
ThreadWaitExpires_Never == tpc = "dead" /\ UNCHANGED vars

\* The one-second deadline passes; or a spurious wake-up.
ThreadWaitExpires     == ThreadMoves("waiting", "timedout")
ThreadWakesForNothing == ThreadMoves("waiting", "woken")

Exit          == ~ running /\ Unlocks("tested", "done")
NothingQueued == running /\ queue = <<>> /\ Unlocks("tested", "outer")

SignalRoom ==
  \/ \E s \in Senders : Goto(s, "waiting", "woken")
  \/ (\A s \in Senders : pc[s] # "waiting") /\ UNCHANGED pc

\* A message that does not end in a newline gets one, in a copy that is left
\* out if it cannot be allocated.
Take ==
  /\ running /\ queue # <<>>
  /\ ThreadGoto("tested", "send")
  /\ hand' = Head(queue)
  /\ queue' = Tail(queue)
  /\ SignalRoom
  /\ qlock' = None
  /\ \E allocated \in BOOLEAN :
       length' = IF ~ hand'.nl /\ allocated THEN BodyLen + 1 ELSE BodyLen
  /\ UNCHANGED <<total, blocked, retries, outVars>>

EndsLine(m, i) == (m.nl /\ i = BodyLen) \/ i = BodyLen + 1

\* The send loop is over: the buffers are freed and the locals go.
EndSend(to) ==
  /\ ThreadGoto("send", to)
  /\ hand' = None /\ total' = 0 /\ length' = 0 /\ blocked' = 0 /\ retries' = 0
  /\ UNCHANGED <<pc, queue, qlock>>

StaySending == ThreadGoto("send", "send") /\ UNCHANGED <<hand, length, pc, queue, qlock>>

\* A socket's buffer accepts some of what is left.
SendSome ==
  /\ type = "SOCKET"
  /\ \E n \in 1..(length - total) :
       /\ wire' = wire \o [i \in 1..n |-> <<hand, total + i>>]
       /\ \/ /\ total + n < length
             /\ total' = total + n
             /\ blocked' = 0
             /\ StaySending
             /\ UNCHANGED <<retries, delivered, torn>>
          \/ /\ total + n = length
             /\ delivered' = Append(delivered, hand)
             /\ torn' = IF EndsLine(hand, length) THEN torn ELSE torn \cup {hand}
             /\ EndSend("outer")

\* The rest of the message is dropped.
Abandon(to) ==
  /\ torn' = IF total > 0 THEN torn \cup {hand} ELSE torn
  /\ EndSend(to)
  /\ UNCHANGED <<wire, delivered>>

\* Mutant: a refused send sends the message again from its first byte.
SendRefused_Restarts ==
  /\ type = "SOCKET"
  /\ StaySending
  /\ total' = 0
  /\ blocked' = 1
  /\ UNCHANGED <<retries, outVars>>

\* Mutant: running out of patience resets the count instead of counting a retry.
SendRefused_Forever ==
  /\ type = "SOCKET"
  /\ StaySending
  /\ blocked' = IF blocked = Patience THEN 0 ELSE blocked + 1
  /\ UNCHANGED <<total, retries, outVars>>

\* EAGAIN.  After Patience refusals in a row each one more is a retry; with
\* MAX_RETRIES retries the message is given up.
SendRefused ==
  /\ type = "SOCKET"
  /\ LET b == blocked + 1
         r == IF b > Patience THEN retries + 1 ELSE retries
     IN  \/ r >= MaxRetries /\ Abandon("outer")
         \/ /\ r < MaxRetries
            /\ StaySending
            /\ blocked' = b
            /\ retries' = r
            /\ UNCHANGED <<total, outVars>>

\* Any other error ends the thread; send on a file descriptor that is not a
\* socket always fails so (ENOTSOCK).  Nothing records that the thread ended.
SendFails == Abandon("dead")

ThreadRuns == \/ ReadRunning \/ TestQueue \/ WaitForMessage \/ Exit \/ NothingQueued
              \/ Take \/ SendSome \/ SendRefused \/ SendFails
ThreadStep == ThreadRuns \/ LockQueue \/ ThreadWaitExpires \/ ThreadWakesForNothing
-----------------------------------------------------------------------------
Next == InitStep \/ (\E s \in Senders : SenderStep(s)) \/ ThreadStep

Spec == Init /\ [][Next]_vars

(* Threads that can run do (weak fairness), a mutex somebody waits for and *)
(* that keeps being released is granted (strong fairness).  A deadline is  *)
(* absolute: a loop of waits comes to the one it ends (strong fairness).   *)
(* Nothing is assumed of spurious wake-ups, of the peer, or of callers.    *)
Fairness ==
  /\ WF_vars(InitStep) /\ WF_vars(ThreadRuns)
  /\ SF_vars(LockQueue) /\ SF_vars(ThreadWaitExpires)
  /\ \A s \in Senders : /\ WF_vars(SenderRuns(s))
                        /\ SF_vars(SenderLocks(s))
                        /\ SF_vars(WaitExpires(s))

FairSpec == Spec /\ Fairness
=============================================================================
