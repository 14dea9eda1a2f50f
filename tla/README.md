# objsee: specifications in TLA+

objsee traces Objective-C messages. `libobjsee` is loaded into a process,
rebinds `objc_msgSend`, and for each message that its filters accept it builds
an event and hands it to a transport (a socket, standard output, a file, or a
callback). `objsee-cli` launches or injects a process with the library in it,
listens for its events, and prints them or shows them in a terminal interface.

The modules here describe the parts of that program whose correctness depends on
the order of events: threads, locks, retries, failures half way, a stack kept
beside the machine's stack. Paths are relative to the repository root; line
numbers are those of the commit the specifications were written from.

## 1. Inventory

| Component | State it keeps | Operations | Talks to | What is hard | What makes it correct |
|---|---|---|---|---|---|
| Event transport, `src/libobjsee/transport/transport.c` | `transport_context_t`: descriptor, queue with its lock and two condition variables, `write_lock`, `running` | `transport_init`, `transport_send`, `transport_thread` | event handler (calls it), lifecycle (creates and frees it), the peer | three kinds of thread, lock order, timed waits, unlocked `running`, partial and refused sends, a thread that dies silently | mutual exclusion, bounded queue, order, whole lines, no use after free, every call returns |
| Message interception, `interception/msgSend_hook.c`, `tracing/tracer_internal.h` | per thread: `stack_depth`, `trace_depth`, `frames[256]`, last-class and last-selector caches, `capture_arguments` | `pre_objc_msgSend_callback`, `post_objc_msgSend_callback`, `get_thread_context` | every message of the program; filters, argument capture, event handler | recursion through argument capture, unsigned wrap-around, the end of the frame array, uninitialised caches | a message returns to its caller; depths mean what they say; caches are true |
| Tracer lifecycle, `tracing/tracer.c`, `tracer_core.c`, `injection/loader.m` | `tracer_t` flags, filter count, `g_tracer_ctx`, the rebound symbol | create, add filter, start, stop, cleanup, the loader's three attempts | all of the library | partial failure and retry, several tracers, cleanup under running threads | success means tracing; nothing in use is freed |
| Event handler, `transport/event_handler.c` | the process-wide buffer pool | `tracer_handle_event`, get and return a buffer, cleanup | hook, formatter, transport | lazy creation without a lock, exhaustion, truncation, memory given back on every path | a buffer has one user; an event leaves nothing behind |
| Signal guard, `tracing/signal_guard.h` | thread-local flag, depth and jump buffer; the process's dispositions | enter, install, fault, restore, leave | hook, argument capture, event handler | process state used thread-locally, early return, a chain that always fails | a fault stays inside; the program gets its handlers back |
| Filters, `tracer_core.c:110-275` | the array of filters | `match_wildcard`, `tracer_should_trace`, `add_filter_pattern` | hook, lifecycle | two passes, adding while reading, a search that goes back | verdicts follow the list; a pattern matches what it says |
| Argument capture, `interception/arguments/` | set of seen classes, description cache | `capture_arguments`, `record_class_encounter`, cached descriptions | hook, type decoding | re-entrancy, stale addresses, an inverted test, allocations that fail half way | what an event says its object has said, or the cache has; it leaves no memory behind |
| Deny list, `interception/selector_deny_list.c` | sorted hashes | binary search | hook | unsigned indices, collisions | found exactly when listed |
| Rebinding, `interception/rebind.c` | none | walks symbol tables | lifecycle | foreign data | |
| Configuration, `config/` | none | encode, decode | CLI to loader | base64, fields left out | what is encoded is decoded |
| Formatting, `formatting/` | none | text and JSON of an event | event handler | text | |
| Type decoding, `type_decoding/` | none | size, offset and text of an encoded type | argument capture | recursion on strings | the C ABI's sizes |
| Trace server, `objsee-cli/trace_server.c` | receive buffer, `running` | accept, receive, split lines, compact | transport's peer, signals, the traced process's life | stream cut anywhere, full buffer, blocking accept | each line once; a disconnect is one; the session ends |
| TUI server, `objsee-cli/tui/` | table of threads, lines, selection | read, add, expire, draw | transport's peer | limits of the table, a stream cut anywhere, redrawing put off, positions in a buffer that moves | indices stay valid; views show their thread's last lines and what their reader looks at |
| CLI and launching, `objsee-cli/*.m`, `injector/`, `simulator/` | `options.pid`, the pids the launch monitor has reported, a semaphore | terminate, watch, launch, wait, inject, listen | SpringBoard, the loader | two waits that expire, late reports, an old process that does not end | the server follows the process with the library |
| Crash handling, `exception_handling/` | none | Mach exception server | kernel | | |

An event takes this way: a program thread sends a message; the rebound
`objc_msgSend` calls `pre_objc_msgSend_callback`, which pushes a frame, asks the
deny list and the filters, captures arguments under the signal guard (which may
send messages of its own, through the hook again) and calls
`tracer_handle_event`; that formats the event into a pool buffer and calls
`transport_send`, which appends it to the queue; `transport_thread` takes it off
and sends it. After the method, `post_objc_msgSend_callback` pops the frame and
supplies the return address. All shared state is reached through `g_tracer_ctx`,
set once by `init_message_interception`.

## 2. The modules

| Module | Role |
|---|---|
| `EventChannel` | abstract specification: a bounded, lossy FIFO channel whose consumer may die |
| `Transport` | `transport.c`: `transport_init`, any number of senders, the transport thread |
| `TransportProps` | its properties, and the refinement mapping to `EventChannel` |
| `TransportProofs` | theorems |
| `MsgSendHook`, `MsgSendHookProps`, `MsgSendHookProofs` | the shadow stack of one thread, its properties, theorems |
| `TracerLifecycle`, `TracerLifecycleProps`, `TracerLifecycleProofs` | `tracer.c`, the loader, and threads in the hook |
| `SignalGuard`, `SignalGuardProps`, `SignalGuardProofs` | `signal_guard.h` |
| `Filters`, `FiltersProps`, `FiltersProofs` | the filter list, added to while threads scan it |
| `Arguments` | `capture_arguments` on several threads: descriptions, their cache, the memory of an event |
| `EventHandler`, `EventProps`, `EventProofs` | extends `Arguments` by `tracer_handle_event` and its pool of buffers; properties and theorems of the whole path |
| `Patterns` | `match_wildcard` as a step machine, and the glob it should decide |
| `DenyList` | `selector_is_denylisted`: the binary search |
| `Encodings` | the parser that finds the size of an encoded type, and the layout of the platform |
| `Tui` | the terminal interface, `tui_trace_server.c` |
| `Sequential`, `SequentialProofs` | these four parts side by side, each a behaviour of its own; theorems about each and about all |
| `Session`, `SessionProps`, `SessionProofs` | `objsee-cli`: getting a process with the library, then receiving and printing its events |
| `MC...` | instances for TLC; `MCEvents` has the path of an event |

Each component module holds the state, `Init`, one action for each step of the
code and `Next`. Definitions named `X_Something`, introduced by the comment
"Mutant", are variants of the definition `X` with a bug in it that nothing in
the specification uses: substituted for `X` they make a property fail, which
shows that the property depends on the code being as it is.

### Transport

A step is what a thread does between two points at which another thread can
interfere: acquiring a lock, waiting on a condition variable, an unlocked access
to `running`, a system call. `pc[s]` is where sender `s` is in `transport_send`,
`tpc` where `transport_thread` is, `ipc` where `transport_init` is. A condition
variable is the program counter value `waiting`; a signal moves one waiter to
`woken`, a deadline to `timedout`, and both must take the lock back. POSIX's
spurious wake-ups are there. The socket takes any number of the bytes that are
left, refuses, or fails. `wire`, `delivered` and `torn` are histories. The
message body is a number of bytes, the last of them a newline or not.

`transport_context` stays allocated once it is up; that it can be freed under
its users by `tracer_cleanup` is `TracerLifecycle`'s subject.

### MsgSendHook

`calls` is the machine's stack: what was really called and not yet returned
from. `frames`, `stack_depth` and `trace_depth` are the context the code keeps.
One thread is modelled because contexts are thread-local. A message whose
arguments are captured is `pending` between the building of its event
(`msgSend_hook.c:182`) and the increment of `trace_depth` (217); other messages
may be sent and returned in between, as `-description` does. A frame past the
last, 256 in the code, overlays the name in the selector cache and the capture
flag (`tracer_internal.h:59-76`); further frames lie behind the context, in memory of
the heap that may belong to somebody else, who may write to it at any time
(`Foreign`). A message whose return address was lost so goes `astray`, and nothing
is said of what its thread does then.
`real_depth` is the depth of the shadow stack, so it counts filtered messages;
README.md:229 calls it the "Depth after filtering is applied", which is what
`trace_depth` is (`msgSend_hook.c:188-189`).

### TracerLifecycle

The driver is the loader (one tracer, three attempts) or a program (any legal
calls, sequentially, on several tracers). `ctl` is the call it is in;
`tracer_start` and `tracer_cleanup` take several steps, between which workers,
the program's threads inside the hook, move. `at[w]` is where a worker is: at
the tracer, holding a buffer, in the transport, returning the buffer, or making
the pool. The pointer to the pool is published before the pool is made. A worker
that meets it in between (`PoolNotReady`) locks nothing, and drops its event while
the pool has no capacity, takes a buffer when the arrays are there, or else writes
through NULL, which ends the process (`Crashed`). Memory that is freed under a
worker is not an error of the model: it is what `LoaderKeepsTheHookFed` excludes for
the loader, and what does happen when a program follows the README's
stop-and-cleanup; no property is stated for that. The detached thread of a
transport is not a worker: a loader whose last attempt fails to rebind
`objc_msgSend` frees the transport under it (`EndsWhole` says when it can be left).
That a configuration has no more than 32 filters is seen to by the command
(`cli_args.m:90`), so `Create` begins with at most `MaxFilters`; the decoder in the
loader does not count them.

### SignalGuard

`handler` is the process's disposition of each signal, `ignoring`, `depth` and
`saved` are per thread. `Install` is one `sigaction` of the chain. A refused
`sigaction` makes `install_signal_handlers` return false, which the macro's
`== 0` reads as success: that is why the guarded code runs at all.

### Filters

`asked` is the list the adding thread has made; `count` and `slots` are what the
scanning threads see of it. A filter added under `filter_lock` is seen whole. One
added without it (`add_filter_pattern`, `tracer_include_image`) is a set of
`pending` stores, each of which becomes visible at any later time, in any order:
the compiler and the processor promise no more (`tracer.c:83-86` against
`tracer_core.c:159-161`). The text of a pattern is taken to be visible with the
pointer to it. `seen`, `during` and `firm` are histories that the properties
speak of.

A pattern is the set of the names it matches; what `match_wildcard` computes is
the subject of `Patterns`, and `strstr` is the C library's. A custom filter is the
set of the messages it accepts, and sends no messages itself (if it adds a filter
it waits for itself, since it is called under the lock). The image of a class is a function of
the class, so when it is looked up makes no difference.

An iteration of the loops reads its filter in one step. That loses nothing. In
the first pass it refuses only if `exclude` and a matching pattern were both
read, and both are visible at the last of its reads; otherwise it passes over,
as it would at the first of them, where less is visible. In the second pass it
accepts only if `exclude` was not seen and each pattern seen matches, which is
so too at the first read, where fewer are visible; and it rejects for a pattern
that does not match, at whose read the filter is rejected or, if it has become
an excluding one, skipped, which is the same when nothing was accepted yet.

One thread adds at a time, as a program that sets up a tracer does; two at once
could take the same slot.

### Arguments and EventHandler

A thread takes a message from `Begin` (it is traced) to `FreeEvent` (its event
goes out of scope, `free_event_arguments` having been called). Each copy that
`capture_arguments` makes is a pointer of the event: `none` is NULL, `runtime` a
string of the runtime's, `live` a block that belongs to the event, `freed` a
block that was given back while the event goes on pointing to it. Every
allocation may be refused, and then the step takes the code's way out. That an
event is left with a `freed` pointer is what the code does on some of these ways
(section 5), and no property is about it; `NothingLeaks` is about the memory that is
the event's own.

`object` is what is at an address. It changes at any time (`Become`): in its text
while a message holds the address, and in its class too when none does, which is
how an address comes to be used by another object. `own` is the history of all that
the object that is there has said. The cache of descriptions is looked up (`Hit`, `Miss`),
its lock is let go while `-description` runs, and it is looked up again before
the insertion (`Known`, `Insert`), as in `objc_arg_description.c`. `Encounter` does
what the code does: see the divergences in section 5.

The pool is the array of buffers up to `size` with their `in_use` flags. What is
done under the pool's lock is one step. The text of a buffer is the thread whose
event it holds. How the pool is created without a lock and destroyed under its
users is in `TracerLifecycle`.

### Patterns, DenyList, Encodings

The two searches are step machines with one action per branch of the loop, so
that what is proved is about the code's indices and not about a summary of it.
`Patterns` counts the characters consumed; `pat_star` is 0 as long as no star was
met, the NULL of the code, since a star that was met is behind at least one
character. A `Glob` is a cutting of the name along the pattern. `DenyList` keeps
`left` and `right` of the code, which are unsigned, so `GoLeft` needs its guard.

`Encodings` reads the text of a type as a sequence of tokens, each a character that
the parser tells from others, with the name of a struct and its `=` in the opening.
`parse_type_and_advance` and `parse_struct_fields` call each other, for a pointer
and for each member; `stack` has the calls that have begun, with `offset` and the
alignments so far, and `parsing` says what comes next: a type, the characters
skipped behind an object (`"rest"`), the head of the loop over the members, or the
caller with the value returned. The search for the closing delimiter is what the
code does first and has an effect only after a member of unknown size, when the
cursor is put behind the struct: `PassOver` and `PassInto` go there. Beside each
size that the parser computes stands the one the platform uses, `layout`, in which a
union is as large as its largest member and a nested struct has its own alignment.
`skipped` counts the objects behind an object that the parser passes over with it
and the platform lays out as members of their own (section 5).

### Tui

`at` is where the loop is: keys, receive, lines. An event is its thread, the
number of its bytes and whether it has a formatted text; bytes are counted, not
kept, since nothing depends on which they are. `views[i].buffer` holds the
numbers of the events whose lines it keeps, `scroll` the first line in the
window, `staged` how many of the lines the window had when it was last redrawn.
`redraw_thread_window` ends in `wnoutrefresh`, so that what it draws is staged only;
`screen` is what the terminal was last given, by the `doupdate` in
`redraw_all_windows` and `resize_all_windows` or by a `wrefresh`, which contains one
(the header's, when the target is gone). `getch` refreshes the standard screen only
if that was touched, which nothing in the loop does. `Shown` is the end of
`process_trace`: a view is redrawn at once while it is new, which stages its first
`Early` lines, and later only with all the others after `Threshold` events, when the
terminal is updated. A key redraws all windows and updates nothing. The arrival of
bytes in `recv` is cut at any place; a full buffer without a newline leaves no
room, and `recv` then returns 0 for ever, which the code ignores.

Left out are colours and layout, the header that says "[Detached]", failed
allocations, and `cleanup_inactive_threads`, which returns at once unless there
are more than `MAX_COLUMNS` views (`tui_trace_server.c:241`), more than
`get_or_create_thread_view` ever makes (288). When a read fills the buffer, the
final NUL is stored one byte behind it (711); that byte is not modelled. A signal
before `accept` blocks is noticed only when a client has come, as in `Session`.

### Session

`cli` is where `objsee-cli` is, from the choice of a route in `main` (launch on
the device, attach, simulator, or server only) through the two waits of a launch
to `run_trace_server`'s loop, and in the end how it ended. The other actors are
the system (`Spawn`, `Activate`, `Die`), the thread on which the application
monitor reports (`Report`), the transport in the traced process (`Connect`,
`Send`, of `transport.c`), and the user (`Interrupt`).

There are two processes of the application, the one that may have run before and
the one that a launch starts. What the model knows of the system is what the code
relies on: the monitor reports running processes of the application only, the
handler lets each through once (`app_launching.m:117-131`), and a process that
was there when the handler was set may be reported late. A launch of an
application whose old instance is still there brings that to the front, without
the library. The waits end whenever they like, except the simulator's, which has
no deadline. That the simulator refuses to launch at all is left out.

The buffer is described by the bytes of the stream it holds, `base + 1` to
`base + buffer_pos`, because the code appends at `buffer + buffer_pos` and moves
what is left to the front; `json_start` is a position in the stream too. Of a
byte only whether it is a newline is kept, and `printed` holds lines as the
positions they lie between. `recv` returns 0 at the end of the connection, and
also when it is given no room, which is when 8191 bytes without a newline are in
the buffer. A server that was interrupted before it blocks in `accept` goes on to
block: the flag is not looked at there. `accept` blocks, so the 20 seconds of
`ACCEPT_TIMEOUT_SECONDS` (`trace_server.c:13`, 133) are only looked at before it.

## 3. The runs

| Run | Instance | What it shows |
|---|---|---|
| `transport` | 2 senders with 2 messages each, capacity 2, all transport types | `SenderOrder`, `LinesWhole`, and the refinement of `EventChannel` |
| `transport_live` | smaller, with fairness | `InitReturns`, `SendReturns`, `QueueDrains` |
| `transport_file` | type FILE | **violated**: a message queued for a file never arrives, since `send` fails on a file (`transport.c:73`, 99-103); README.md:322-323 |
| `hook` | 3 selectors, 2 return addresses, 5 nested messages, limit 3 | `ReturnsHome`, `DriftExplained`, `CacheSpoiltOnlyPastLimit` |
| `lifecycle` | 2 tracers, 2 threads, 2 filters, 3 attempts | `LoaderKeepsTheHookFed`, `FirstAttemptDelivers`, `LoaderEnds` |
| `lifecycle_started` | the same | **violated**: a start that succeeded need not trace (README.md:136) |
| `guard` | 2 threads, SEGV, BUS, KILL, ILL | `LoneGuardCatches`, `DispositionsComeBack` |
| `filters` | one scan at a time, two classes, two methods, an image, 3 filters | `VerdictOfSomeMoment`, `FirmFiltersDecide` |
| `filters_methods` | the same with the class pattern `*`, 1 filter | **violated**: `tracer_exclude_method` excludes every method (README.md:339-341) |
| `session` | a buffer of 4 bytes, 5 bytes sent, 2 attempts to connect, all four routes | `EachLineOnce`, `DisconnectIsTheEnd`, `FollowsTheLaunched`, `ReceivingEnds` |
| `events` | 2 threads, 2 events, 2 addresses, a pool of 1 buffer, every allocation refused or not | `OneEntryPerAddress`, `TextOfSomeMoment`, `CacheLearnsWhatIsSaid`, `NothingLeaks`, `BuffersHaveOneOwner` |
| `sequential` | 4 parts, each by itself | `match_wildcard` decides globs; the deny list finds what is listed; sizes cover the layout where no objects adjoin; the terminal interface keeps up and keeps its reader's place; all of them end |

Bounds, and why they are enough. *Senders, threads = 2*: the code treats all
alike and no step involves more than two; the proofs lift it. *Capacity*: full,
empty and in between all occur; the proof is for any capacity. *Patience and
MaxRetries* are kept small but distinct so that both counters are exhausted.
*BodyLen 1*: a message
is then one byte and its newline, two in all, the least that can be cut. *Limit 3, MaxCalls 5*:
two calls past the last frame, the overlaying one and one behind the context.
*CaptureDepth 1*: captured and uncaptured depths both occur. *Width 8* is larger
than MaxCalls, as 2^32 is. *Attempts 3* is the code's number. *Signals*: two
before SIGKILL and one after; SIGFPE behaves as SIGILL does.
*MaxFilters 3*: a filter in place and two being added, the least at which the
condition of `VerdictOfSomeMoment` matters: with two it is false. One scanning thread
is enough for `filters`, as a scan writes nothing that others read except that
it keeps writers out; the proof is for any number.
*Size 4*: three bytes and the final NUL, so empty lines, lines that come in
pieces, several at once, and a line that fills the buffer all occur; *MaxBytes 5*
lets the buffer be compacted and filled again. *MaxRetries 2* in `session`, for the
code's 3: a first failure and the last one.

For `events`: *two threads and two events* are what it takes for one to insert a
description while the other builds it, and for both to want a buffer; with
*PoolSize 1* the second finds the pool exhausted, and the array is both grown and
used again. *MaxArgs 2*, an object and a value, give the step from one argument
to the next and the argument list that ends early. With two addresses a
cache of two always has room; what the code does when it is full is what it does
when there is no memory for the copy, which happens here, and the proof is for
any size. For `sequential`: *patterns* of up to 3 of
two letters and the star, and longer ones with two stars or with a star before
a repeated letter, so that the search goes back several times; *names* of up to
4. The *deny list* has five hashes with gaps, and every hash in and around them is
looked for. *Types* are nested once, with every kind of member next to every other, and
twice behind pointers, with members of unknown size: a struct nested twice is the
same two cases again, since of the inner one only its size is used. The proof is for
any text. For the interface: *three threads for two views*, so one has none;
*Capacity 4* for 5 lines, so lines are dropped; *Rows 2*, so a window is smaller
than its buffer and can be scrolled; *Early 2* and *Threshold 2*, so the first lines are
only staged, and drawing is put off and made up for; *Size 2* with lines of 1, 2 and 3 bytes, so lines come in
pieces, several come together, and one is longer than the buffer.

`CHECK_DEADLOCK FALSE` in `MCTracerLifecycle*.cfg`: the loader ends after it has
cleaned up, with nothing hooked, and a program may have used all its tracers. In
`MCTransport*.cfg`: the system stops when the senders have sent `MaxSends`
messages and the transport thread waits for more or has ended.
In `MCMsgSendHook.cfg`: a thread that went astray is not followed. In
`MCSession.cfg`: a session ends. In `MCEvents.cfg`: the `MaxEvents` messages
have been traced. In `MCSequential.cfg`: each part ends.
`SYMMETRY` is used in safety runs only, over threads, and in `events` over the
descriptions of objects, that `Init` and `Next` treat alike.

### Fairness

`Transport!Fairness`: a thread that can run does (weak); a mutex that keeps
being released is granted in the end (strong); a wait with an absolute deadline
(`transport.c:26-29`, 329-331) ends by it (strong, since a wait may be left and
re-entered with the same deadline). Nothing is assumed of the peer, of spurious
wake-ups or of callers. `TracerLifecycle!FairSpec` is fair to the loader only:
it runs on the main queue to its end, as long as there is a process; that `transport_init` itself returns is
`InitReturns`. `Session!FairSpec` is fair to the command only (weakly: what it can
do, it does at last). Nothing is assumed of the system that launches, of the
monitor, of the traced process or the user; `ReceivingEnds` asks of the server that it comes
back to the head of its loop however many bytes keep coming. `Sequential!Spec` is
fair to the two searches, the parser and the interface's loop (weakly: a thread that is in a
loop goes on); `LinesArrive` assumes nothing of the target, and of the user only
what the loop itself does with keys.

## 4. Proofs

The eight `...Proofs` modules prove, for all values of the constants under the
assumptions named in the modules, every safety property of the passing runs.
For `sequential` they are proved of the specification of each part (`MatchSpec`,
`DenySpec`, `ParseSpec`, `TuiSpec`), and then of `Spec`, in which the parts stand side
by side as in the run (`AllTyped`, `AllRight`: a part either rests or keeps its invariant).
Some theorems state what no run checks any more, because it follows from the
shape of the guards once the invariant is there, and the invariant needs it:
`SendersExclude`, `QueueBounded`, `NoUseAfterFree`, `IndentBounded`, `ServedOnce`,
`NoStackMemory`.

*Transport.* The invariant is the conjunction of the type invariant, who holds
which lock at which point, what each sender's counter says of its messages that
are still in the pipeline (delivered, in hand, queued), and the order of that
pipeline. The order of messages is not inductive by itself: a sender's next
message must be known to be newer than all of its messages in the pipeline,
which needs the numbering, which needs that a sender in `check` has not yet
queued the message it carries. The refinement proof maps `pending` to the
message in hand followed by the queue, so that taking a message off the queue
is a stuttering step, and completes it, gives it up, or dies. `LinesWhole` has an
invariant of its own, `WireInv`: what is on the wire ends with the bytes sent so
far of the message in hand, or with the end of a line, or with a message that is
known to be torn. Without that the next byte could not be told to begin a message
or to go on with one.

*Hook.* The invariant says that `stack_depth` is the depth of the machine's
stack, that frame i holds the return address of message i as far as the context
reaches, and that a message went astray only from behind it (`EveryCallReturns` is
about all others; of those it cannot be said), and relates
`trace_depth` to the number of reported messages on the stack, with equality
until the history variable `drifted` is set. The cardinality facts are from
FiniteSetTheorems.

*Lifecycle.* `LoaderKeepsTheHookFed` speaks of what threads hold, and a thread
can take hold at any time once the hook is in. The invariant therefore says what
must be there *before*: nobody is in the hook until it is installed (`Hooks`);
the loader's hook goes in only at the last step that can fail, with the tracer
of the call allocated (`Loads`), so the cleanup of a failed attempt finds no one;
what a thread holds exists (`Holds`); and how far the first attempt has come,
which `FirstAttemptDelivers` needs because only later attempts skip the pool and the
transport (`Firsts`: no thread meets a pool that is not ready).

*Guard.* While no two guards have overlapped and none was left by a `return`
(`~ spoilt`), each disposition of the chain is the guard's or the program's
according to where the one thread inside is (`Expected`), and what it saved is
the program's. Junk is excluded without that condition: signals before the
refused one are saved before they are restored. The assumption that the chain
holds a signal that `sigaction` refuses is the code's own (SIGKILL,
`signal_guard.h:87`): were none refused, `install_signal_handlers` would return
true, the guarded code would be skipped and nothing restored.

*Filters.* What is not in memory yet is pending, and nothing else is (`Mem`), so a
filter that is not pending is the one that was asked for. Each filter is firm,
being added during the scan, or was not there yet when the scan would have met
it (`Sorted`). For the filters behind the index the invariant keeps what the
scan found (`Found`); the moment at which the list agrees with the verdict is
that at which the scan passed the filter being added, or at which it ended
without meeting it (`Moments`). With two filters being added there is no such
moment: the scan may pass the first before it appears and meet the second after.

*Session.* The invariant has two halves that few steps share. For the launch it
says by which route a place is reached (`Flow`), that nothing is reported before
the handler is set and the semaphore counts at most the reports (`Reports`), that
the launched process has the library from its start and the client in it attempts
left while it tries (`Library`), and that the pid kept is one that was reported
(`Follows`); with the old process gone, only the new one can be. For the stream it
says that `base` and `json_start` are line ends, that a whole line is in the
buffer between receipt and splitting only, and that what was printed ends before
`json_start` (`Buffer`). `DisconnectIsTheEnd` must survive every later step of the
others: nobody gets the library after it was lost (`StaysClosed`).

*Events.* `EventInv` has a part for each piece of state: what objects have said
(`HeapOK`), the cache (`CacheOK`: there is one entry for an address, for which the
second lookup under the lock is needed), where a thread is (`WhereOK`: from `class` to `copy` it has an object in
hand), the signature and the list (`BlockOK`), the parts of the event (`PartsOK`),
the description in hand (`TextOK`: what is to be inserted, the object in hand has
said, since nothing else comes to its address before the message ends; this is why
`CacheIsTold` holds), and the pool (`PoolOK`: a thread has a buffer
exactly between getting and returning it, and it is one of those allocated).
`NothingLeaks` is proved as `lost = FALSE` in `SmallOK`: an event without a list has
a signature that is not a live block.

*Searches.* For `match_wildcard`, `Sound` says that the characters of the pattern up
to each place the search keeps can be cut along the name up to the place beside it
(`Reach`). `Complete` is the reason that one place to go back to is enough: any
cutting of the whole name puts the last star met no earlier than where the search
has it, since cutting at the earliest place loses no match. A failed comparison
then excludes that place, and a search without a star excludes all cuttings. For
the deny list the hash looked for is between the two indices, if it is listed
(`Narrowed`); that the list ascends is an assumption, `DenyListAssumption`, which
TLC checks of the instance's list.

*Sizes.* `ParseInv` says the same of the value returned last and of each call on the
stack: that the parser's numbers cover the platform's, size by size and alignment by
alignment (`ValueCovers`, `FrameCovers`). That needs more than sizes. A nested
struct is given an alignment guessed from its size, and the guess is coarse enough
only because no type is aligned more coarsely than it is large (`Guesses`); the
members of a union are laid out behind each other, and their sum covers the largest.
Rounding the greater number up to the coarser alignment keeps it the greater
(`RoundsLess`), which is where powers of two are needed. All this is for texts in which
no objects adjoin (`Apart`): there the parser, once behind an object, meets only the
marks of blocks (`AfterObject`), so nothing is skipped. The induction over a type
is over the steps of the parser, with the stack in the invariant, and not over data.

*Interface.* `TuiInv` says of each view that its window begins within its lines
(`Fits`), which `Record` keeps because it drops a line only when it adds one.
For `ViewsKeepUp`, `HeldInv` says of each view that the lines missing from its buffer
are older than the first one there and that the buffer is then full
(`HoldsLatest`). What the terminal shows is a second invariant beside it (`ScreenInv`):
the lines of a view that the terminal was not given are no more than its first `Early`
and the events counted since it was last updated; past its first lines a view counts
each of its lines, which `Threshold` bounds. A view that is opened has no
lines, so its thread must not have had any before: that is why the invariant keeps,
as long as the interface runs, that a thread without a view was turned away by a full
screen (`FullFor`), and views are never closed. `KeepsPlace` is about one step and
needs that a buffer is no longer than the count of its thread's lines.

*Ends.* Liveness itself (`InitReturns`, `SendReturns`, `QueueDrains`, `LoaderEnds`,
`ReceivingEnds`, `SearchesEnd`, `LinesArrive`) is only model-checked, since fairness
and ENABLED are outside what the prover handles. What can be proved is its other half,
that whoever goes on gets somewhere. A search cannot go on for ever, because each step
lowers a lexicographic measure: for the deny list the width, which halves (`DenyHalves`);
for the wildcard the last star met, then the place in the name it is tried at, then the
place in the pattern (`MatchGetsOn`: going back increases the second); for the parser
what is left of the text, then the open calls, then where it is (`ParserGetsOn`). The
loader and `transport_init` go through their places in order, but for attempts that
are counted (`LoaderGetsOn`, `InitEnds`), and the loader ends with a running tracer or with
nothing left behind but, where the last attempt failed to rebind, the transport's detached
thread (`LoaderEndsWhole`, with `Way`, what is gone at each place of its cleanup). The send loop is bounded by the length and its two counters (`SendLoopEnds`).
A wait for a condition variable has a reason: senders wait only while the queue is full, the thread
only while it is empty, although one signal wakes one sender (`NoWakeupLost`). And once
the target of a session is dead or the user has interrupted, nothing takes that back, since
a session with a client is past its launch, and at most the lines in the buffer
are before the end (`ReceivingWindsDown`). Fairness has only to add that a step that can
be taken is; that one can, TLC shows.

## 5. Where code and comments part

Three such places are runs that TLC must find violated (`transport_file`,
`lifecycle_started`, `filters_methods`). The models follow the code in the others
too:

- `signal_guard.h:36` says that signals "will never hit the original signal
  handler". The chain of `sigaction` calls stops at SIGKILL (87), which is refused;
  SIGILL and SIGFPE stay with the program (`SignalGuard!Install`).
- The pid that the simulator reports is printed and dropped (`sim_launching.m:66`).
  The server works with 0, which `pid_exists` refuses, so it ends before it accepts
  anyone (`Session`).
- `arg_capture.c:156` says "Record the encounter so that it's captured on the next
  occurrence". `has_seen_class` returns `KERN_SUCCESS`, zero, for a class that is
  known, and 157 compares that with `false`: a class that is not known is described
  at once and never recorded, so none ever is known (`Arguments!Encounter`).
- `README.md:229` calls `real_depth` the depth after filtering; it counts filtered
  messages too (`MsgSendHook`).
- Two adjoining objects in a struct, `{S=@@}`, count once
  (`encoding_size.c:163-165`: what follows the first is skipped until a letter or
  an opening character, and `@` is neither). `encoding_size.h:18`
  promises "The size of the type". `CoversLayout` is about all other types.
- The frames are 256 (`msgSend_hook.c:116`), and a message nested deeper is not
  traced but stored nevertheless (122-124): over the rest of the context at first,
  then behind it, where another owner of the memory may overwrite it, though "LR is the
  minimal info needed" to return (123). `ReturnsHome` is about the frames in the context.
- README.md:183 has the "full -description of the argument" captured. Descriptions are
  cached by address and never forgotten (`objc_arg_description.c:123`), so that an object
  at an address that is used again is described with what another one said.
  `TextOfSomeMoment` says no more than that.
- A string is leaked with each event that is sent as text: the copy in
  `formatted_output` (`event_handler.c:135`) is not freed, nor is the output when the pool is exhausted
  (154-158) or a description that found no room in the cache. `NothingLeaks` is
  about the memory of the arguments.
- An event of 4096 bytes or more is cut in its buffer and sent with its full length
  (`event_handler.c:161-171`). The models do not count the bytes of an event.
- When memory is refused, or the offsets of a signature are not known, the event
  goes on pointing to what was given back (`arg_capture.c:50-66`, 173-201), which
  formatting then reads. So it does when a value cannot be read.
- The first 25 lines of a view and the windows that a key redraws are staged and
  not brought to the terminal (`tui_trace_server.c:497-499`, 701-705, 454): there may
  be nothing to be seen of them until a later line of some view, with 20 events
  counted, has all redrawn, or a further view is opened (`Tui!Shown`, `AfterKeys`).
- `get_buffer_pool` publishes the pool before it is made (`event_handler.c:26-43`). It
  is made before the hook is installed unless `init_event_handler` failed and a retry
  skipped it (`TracerLifecycle!PoolNotReady`).

## 6. Not modelled, and why

- *Symbol rebinding* (`rebind.c`) walks the load commands of the images in the
  process, once, in order; what it decides depends on data that is not in this
  repository.
- *Configuration coding* (`config/`) writes and reads a JSON object field by field
  through json-c. Its faults would be a field that one side forgets, and what a side
  does not check: the decoder takes as many filters as it is given, where the array has
  32, which only the command sees to (`cli_args.m:90`). No order of steps brings them
  about.
- *Event formatting*, the drawing of the interface and the wording of descriptions
  (`format.c`, `color_utils.c`, `arg_description.c`, `blocks.c`,
  `encoding_description.c`) are text. No property is about it.
- *Offsets of arguments* of a whole signature, beside the sizes in `Encodings`.
- *Crash handling* is generated code and a report.
- *The injector's remote calls*, the overlay file system and argument parsing are
  input and output around the steps that `Session` has.
- *Exceptions* that unwind through the hook would leave the shadow stack too deep;
  the code has no handling to model.
- *Setters* of options assign a field each.
- json-c, ncurses, capstone and the other vendored headers, the larger part of the
  repository by lines, are outside.

## 7. What could follow

1. `Session`'s client replaced by `TracerLifecycle`'s loader with its own attempts,
   and `spawn_process`.
2. `Transport` composed with `EventHandler`, whose `Send` would be a call of
   `transport_send`, so that how long a buffer is held is what the transport makes it.
3. The offsets of a signature in `Encodings`, and `Arguments` reading the stack
   through them.
