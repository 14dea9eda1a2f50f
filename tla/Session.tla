-------------------------------- MODULE Session --------------------------------
(***************************************************************************)
(* A session of objsee-cli without -T: main of main.m gets a process with  *)
(* the library in it (app_launching.m, sim_launching.m), and               *)
(* run_trace_server of trace_server.c receives its events and prints them. *)
(* The other actors are the system that launches and reports applications, *)
(* the transport in the traced process, and the user's interrupt.          *)
(***************************************************************************)
EXTENDS Naturals, Sequences

CONSTANTS
  Old,         \* the process that was there before
  New,         \* the process that is launched
  Nobody,      \* the pid 0
  Size,        \* size of the receive buffer, 8192 in the code
  MaxRetries,  \* connection attempts of the transport, 3 in the code
  MaxBytes     \* bound: bytes that are sent in a session

ASSUME SessionAssumption ==
  /\ Old # New /\ Nobody \notin {Old, New}
  /\ Size \in Nat /\ Size > 1 /\ MaxRetries \in Nat \ {0} /\ MaxBytes \in Nat

Processes == {Old, New}
Routes == {"launch", "attach", "simulator", "server"}

VARIABLES
  route,     \* what the arguments ask for
  cli,       \* where main or run_trace_server is, or how it ended
  pid,       \* options.pid, then traced_pid
  running,   \* of trace_server.c: not interrupted
  alive,     \* the processes that are alive
  asked,     \* the system has been asked to launch the application
  survived,  \* history: the old process was still alive when it should have ended
  ran,       \* processes that ran since the monitor has its handler
  seenPids,  \* those the handler has reported
  sem,       \* the semaphore main waits on
  host,      \* the process with the library, or Nobody
  client,    \* its transport: not started, trying, connected, or refused for good
  tries,     \* its connection attempts that failed
  sent,      \* the number of bytes it has written
  newlines,  \* those that are newlines
  base,      \* the buffer holds the bytes base + 1 .. base + buffer_pos
  buffer_pos,
  json_start,  \* the last byte before what is still to be split
  printed      \* history: the lines printed, each as the bytes it lies between

launchVars == <<asked, survived, ran, seenPids, sem>>
clientVars == <<host, client, tries>>
streamVars == <<sent, newlines>>
bufferVars == <<base, buffer_pos, json_start, printed>>
vars == <<route, cli, pid, running, alive, launchVars, clientVars, streamVars, bufferVars>>

Ended == {"failed", "disconnected", "stopped"}
Listening == cli \in {"accept", "blocked", "head", "recv", "split"}
Connected == client = "connected"

Init ==
  /\ route \in Routes
  /\ cli = [launch |-> "terminate", attach |-> "inject",
            simulator |-> "open", server |-> "setup"][route]
  /\ alive \in SUBSET {Old}
  /\ pid = IF route \in {"attach", "server"} THEN Old ELSE Nobody
  /\ host \in IF route = "server" THEN {Nobody} \cup alive ELSE {Nobody}
  /\ client = IF host = Nobody THEN "none" ELSE "trying"
  /\ running = TRUE /\ asked = FALSE /\ survived = FALSE /\ ran = {} /\ seenPids = {} /\ sem = 0
  /\ tries = 0 /\ sent = 0 /\ newlines = {}
  /\ base = 0 /\ buffer_pos = 0 /\ json_start = 0 /\ printed = << >>

Goto(from, to) == cli = from /\ cli' = to

-----------------------------------------------------------------------------
(* main: a process with the library *)

\* The application is to be launched anew; whether its running instance could
\* be terminated in time is not looked at.
Terminate ==
  /\ Goto("terminate", "monitor")
  /\ alive' \in {alive, alive \ {Old}} /\ survived' = (Old \in alive')
  /\ UNCHANGED <<route, pid, running, asked, ran, seenPids, sem,
                 clientVars, streamVars, bufferVars>>

\* Mutant: a report that the application has terminated counts as well.
OnProcessLaunch_AnyState ==
  /\ \/ Goto("monitor", "open") /\ route = "launch"
     \/ Goto("monitor", "wait") /\ route = "simulator"
  /\ ran' = alive \cup {Old}
  /\ UNCHANGED <<route, pid, running, alive, asked, survived, seenPids, sem,
                 clientVars, streamVars, bufferVars>>

\* on_process_launch: the handler is set, in the simulator after the launch.
OnProcessLaunch ==
  /\ \/ Goto("monitor", "open") /\ route = "launch"
     \/ Goto("monitor", "wait") /\ route = "simulator"
  /\ ran' = alive
  /\ UNCHANGED <<route, pid, running, alive, asked, survived, seenPids, sem,
                 clientVars, streamVars, bufferVars>>

\* The launch is asked for; a result that does not come in time is a success.
Open ==
  /\ cli = "open" /\ asked' = TRUE
  /\ cli' = IF route = "launch" THEN "opened" ELSE "monitor"
  /\ UNCHANGED <<route, pid, running, alive, survived, ran, seenPids, sem,
                 clientVars, streamVars, bufferVars>>

Opened ==
  /\ Goto("opened", "wait")
  /\ UNCHANGED <<route, pid, running, alive, launchVars, clientVars, streamVars, bufferVars>>

OpenFails ==
  /\ cli \in {"open", "opened"} /\ route = "launch" /\ cli' = "failed"
  /\ UNCHANGED <<route, pid, running, alive, launchVars, clientVars, streamVars, bufferVars>>

\* The handler has signalled.
Reported ==
  /\ Goto("wait", "check") /\ sem > 0 /\ sem' = sem - 1
  /\ UNCHANGED <<route, pid, running, alive, asked, survived, ran, seenPids,
                 clientVars, streamVars, bufferVars>>

\* Five seconds have passed; for the simulator the wait has no end.
WaitExpires ==
  /\ Goto("wait", "check") /\ route = "launch"
  /\ UNCHANGED <<route, pid, running, alive, launchVars, clientVars, streamVars, bufferVars>>

\* Without a pid the launch has failed; the simulator's is not asked for one.
Check ==
  /\ cli = "check"
  /\ cli' = IF route = "launch" /\ pid = Nobody THEN "failed" ELSE "setup"
  /\ UNCHANGED <<route, pid, running, alive, launchVars, clientVars, streamVars, bufferVars>>

\* The library is injected into a running process, and its entry point called.
Inject ==
  /\ Goto("inject", "setup") /\ Old \in alive
  /\ host' = Old /\ client' = "trying"
  /\ UNCHANGED <<route, pid, running, alive, launchVars, tries, streamVars, bufferVars>>

InjectFails ==
  /\ Goto("inject", "failed")
  /\ UNCHANGED <<route, pid, running, alive, launchVars, clientVars, streamVars, bufferVars>>

-----------------------------------------------------------------------------
(* The system, and the transport in the traced process *)

\* The application starts with the library.
Spawn ==
  /\ asked /\ Old \notin alive /\ asked' = FALSE
  /\ alive' = alive \cup {New} /\ host' = New /\ client' = "trying"
  /\ ran' = IF cli = "monitor" THEN ran ELSE ran \cup {New}
  /\ UNCHANGED <<route, cli, pid, running, survived, seenPids, sem, tries, streamVars, bufferVars>>

\* Its old instance is still there and only comes to the front.
Activate ==
  /\ asked /\ Old \in alive /\ asked' = FALSE
  /\ UNCHANGED <<route, cli, pid, running, alive, survived, ran, seenPids, sem,
                 clientVars, streamVars, bufferVars>>

\* The handler's report of a running process, once for each. Only the launch of
\* main.m keeps its pid, and the server works with a copy of it.
Report(p) ==
  /\ p \in ran \ seenPids
  /\ seenPids' = seenPids \cup {p} /\ sem' = sem + 1
  /\ pid' = IF route = "launch" /\ cli \in {"open", "opened", "wait", "check"} THEN p ELSE pid
  /\ UNCHANGED <<route, cli, running, alive, asked, survived, ran, clientVars, streamVars, bufferVars>>

Die(p) ==
  /\ p \in alive /\ alive' = alive \ {p}
  /\ UNCHANGED <<route, cli, pid, running, launchVars, clientVars, streamVars, bufferVars>>

Connect ==
  /\ client = "trying" /\ host \in alive
  /\ IF Listening THEN client' = "connected" /\ UNCHANGED tries
     ELSE /\ tries' = tries + 1
          /\ client' = IF tries' = MaxRetries THEN "refused" ELSE "trying"
  /\ UNCHANGED <<route, cli, pid, running, alive, launchVars, host, streamVars, bufferVars>>

\* A byte goes out, a newline or not.
Send ==
  /\ Connected /\ host \in alive /\ Listening /\ sent < MaxBytes
  /\ sent' = sent + 1
  /\ newlines' \in {newlines, newlines \cup {sent'}}
  /\ UNCHANGED <<route, cli, pid, running, alive, launchVars, clientVars, bufferVars>>

\* handle_signal: it makes a blocked accept fail, and is lost before it.
Interrupt ==
  /\ running /\ Listening /\ running' = FALSE
  /\ cli' = IF cli = "blocked" THEN "failed" ELSE cli
  /\ UNCHANGED <<route, pid, alive, launchVars, clientVars, streamVars, bufferVars>>

-----------------------------------------------------------------------------
(* run_trace_server *)

SetupSocket ==
  /\ Goto("setup", "accept")
  /\ UNCHANGED <<route, pid, running, alive, launchVars, clientVars, streamVars, bufferVars>>

SetupFails ==
  /\ Goto("setup", "failed")
  /\ UNCHANGED <<route, pid, running, alive, launchVars, clientVars, streamVars, bufferVars>>

\* The socket blocks, so the time is looked at when none has passed, and the
\* target once.
Accept ==
  /\ cli = "accept"
  /\ cli' = IF pid \in alive THEN "blocked" ELSE "failed"
  /\ UNCHANGED <<route, pid, running, alive, launchVars, clientVars, streamVars, bufferVars>>

Accepted ==
  /\ Goto("blocked", "head") /\ Connected
  /\ UNCHANGED <<route, pid, running, alive, launchVars, clientVars, streamVars, bufferVars>>

\* Mutant: an interrupt does not end the loop.
Loop_GoesOn ==
  /\ cli = "head"
  /\ cli' = IF pid \in alive THEN "recv" ELSE "stopped"
  /\ UNCHANGED <<route, pid, running, alive, launchVars, clientVars, streamVars, bufferVars>>

Loop ==
  /\ cli = "head"
  /\ cli' = IF running /\ pid \in alive THEN "recv" ELSE "stopped"
  /\ UNCHANGED <<route, pid, running, alive, launchVars, clientVars, streamVars, bufferVars>>

\* Mutant: the final NUL is forgotten.
Room_NoNul == Size - buffer_pos

Room == Size - buffer_pos - 1
Unread == sent - (base + buffer_pos)

Receive ==
  /\ Goto("recv", "split")
  /\ \E k \in 1..Room : k <= Unread /\ buffer_pos' = buffer_pos + k
  /\ json_start' = base
  /\ UNCHANGED <<route, pid, running, alive, launchVars, clientVars, streamVars, base, printed>>

\* Mutant: nothing to read is taken for the end of the connection.
ReceiveNothing_Yet ==
  /\ Goto("recv", "disconnected") /\ (Room = 0 \/ Unread = 0)
  /\ UNCHANGED <<route, pid, running, alive, launchVars, clientVars, streamVars, bufferVars>>

\* recv returns 0: the peer has closed, or there is no room.
ReceiveNothing ==
  /\ Goto("recv", "disconnected") /\ (Room = 0 \/ (Unread = 0 /\ host \notin alive))
  /\ UNCHANGED <<route, pid, running, alive, launchVars, clientVars, streamVars, bufferVars>>

\* recv returns EAGAIN
WouldBlock ==
  /\ Goto("recv", "head") /\ Room > 0 /\ (Unread > 0 \/ host \in alive)
  /\ UNCHANGED <<route, pid, running, alive, launchVars, clientVars, streamVars, bufferVars>>

\* Any other error, of accept or recv.
Fails ==
  /\ cli \in {"blocked", "recv"} /\ cli' = "failed"
  /\ UNCHANGED <<route, pid, running, alive, launchVars, clientVars, streamVars, bufferVars>>

\* The newlines in the buffer behind json_start.
Ahead == {n \in newlines : json_start < n /\ n <= base + buffer_pos}

\* The next line is printed, unless it is empty.
Line ==
  /\ cli = "split"
  /\ \E n \in Ahead :
       /\ \A k \in Ahead : n <= k
       /\ printed' = IF n > json_start + 1 THEN Append(printed, [after |-> json_start, last |-> n])
                     ELSE printed
       /\ json_start' = n
  /\ UNCHANGED <<route, cli, pid, running, alive, launchVars, clientVars, streamVars, base, buffer_pos>>

\* Mutant: the beginning of the next line is thrown away.
Compact_Empties ==
  /\ Goto("split", "head") /\ Ahead = {}
  /\ base' = base + buffer_pos /\ buffer_pos' = 0 /\ json_start' = base + buffer_pos
  /\ UNCHANGED <<route, pid, running, alive, launchVars, clientVars, streamVars, printed>>

\* What is left moves to the front of the buffer.
Compact ==
  /\ Goto("split", "head") /\ Ahead = {}
  /\ base' = json_start /\ buffer_pos' = base + buffer_pos - json_start
  /\ UNCHANGED <<route, pid, running, alive, launchVars, clientVars, streamVars, json_start, printed>>

-----------------------------------------------------------------------------
Cli ==
  \/ Terminate \/ OnProcessLaunch \/ Open \/ Opened \/ OpenFails
  \/ Reported \/ WaitExpires \/ Check \/ Inject \/ InjectFails
  \/ SetupSocket \/ SetupFails \/ Accept \/ Accepted \/ Loop
  \/ Receive \/ ReceiveNothing \/ WouldBlock \/ Fails \/ Line \/ Compact

Environment ==
  \/ Spawn \/ Activate \/ Connect \/ Send \/ Interrupt
  \/ \E p \in Processes : Report(p) \/ Die(p)

Next == Cli \/ Environment

Spec == Init /\ [][Next]_vars

\* The command runs whenever it can.
FairSpec == Spec /\ WF_vars(Cli)
=============================================================================
