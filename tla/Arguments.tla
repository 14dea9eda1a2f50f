------------------------------ MODULE Arguments ------------------------------
(***************************************************************************)
(* capture_arguments of arg_capture.c with what it calls: the encountered  *)
(* classes, the descriptions of objects and their cache.  A thread copies  *)
(* each part of an argument into memory of its own.                        *)
(***************************************************************************)
EXTENDS Naturals, Sequences

CONSTANTS
  Threads,
  Addresses,   \* of objects
  Value,       \* an argument that is no object
  Objects,     \* what may be at an address: a class and what -description says
  NoText,      \* no description: the argument is named by its class
  Signatures,  \* the argument lists of the messages
  MaxArgs,     \* bound of the model on their length
  CacheSize,   \* descriptions in the cache, 511 in the code
  MaxEvents    \* bound of the model: events

ASSUME ArgumentsAssumption ==
  /\ {MaxArgs, CacheSize, MaxEvents} \subseteq Nat /\ Value \notin Addresses
  /\ Signatures \subseteq {s \in Seq(Addresses \cup {Value}) : Len(s) \in 1..MaxArgs}
  /\ Objects # {} /\ \A o \in Objects : o = [class |-> o.class, text |-> o.text]

Classes == {o.class : o \in Objects}
Texts == {o.text : o \in Objects}

\* A pointer of an event: NULL, to what the runtime owns, to a block of the
\* event, or to a block that has been given back.
Pointer == {"none", "runtime", "live", "freed"}
Part == [type : Pointer, class : Pointer, text : Pointer, says : Texts \cup {NoText}]
Blank == [type |-> "none", class |-> "none", text |-> "none", says |-> NoText]
Unused == [k \in 1..MaxArgs |-> Blank]

VARIABLES
  object,     \* address: the object there
  own,        \* history, address: what the object there has said
  seen,       \* seen_classes
  cache,      \* g_description_cache
  events,     \* messages that were traced
  at,         \* thread: where it is
  asked,      \* thread: the arguments of its message
  signature,  \* thread: event->method_signature
  count,      \* thread: event->argument_count
  list,       \* thread: event->arguments
  parts,      \* thread: what they point to
  i,          \* thread: the argument in hand
  text        \* thread: the description in hand

heapVars == <<object, own>>
sharedVars == <<seen, cache>>
blockVars == <<signature, count, list, parts>>
captureVars == <<heapVars, sharedVars, events, at, asked, blockVars, i, text>>

CaptureInit ==
  /\ object \in [Addresses -> Objects]
  /\ own = [a \in Addresses |-> {object[a].text}]
  /\ seen = {} /\ cache = <<>> /\ events = 0
  /\ at = [t \in Threads |-> "out"] /\ asked = [t \in Threads |-> <<>>]
  /\ signature = [t \in Threads |-> "none"] /\ count = [t \in Threads |-> 0]
  /\ list = [t \in Threads |-> "none"]
  /\ parts = [t \in Threads |-> Unused]
  /\ i = [t \in Threads |-> 1] /\ text = [t \in Threads |-> NoText]

At(t, here, there) == at[t] = here /\ at' = [at EXCEPT ![t] = there]

\* The program: an object says something else, or another one takes the address
\* of one that no message being traced has.
InUse(a) == \E t \in Threads : at[t] # "out" /\ \E k \in DOMAIN asked[t] : asked[t][k] = a

Become(a) ==
  /\ \E o \in Objects, another \in BOOLEAN :
       /\ IF another THEN ~ InUse(a) ELSE o.class = object[a].class
       /\ object' = [object EXCEPT ![a] = o]
       /\ own' = [own EXCEPT ![a] = IF another THEN {o.text} ELSE @ \cup {o.text}]
  /\ UNCHANGED <<sharedVars, events, at, asked, blockVars, i, text>>

-----------------------------------------------------------------------------
\* A message is traced, and its arguments may be captured.
Begin(t) ==
  /\ events < MaxEvents /\ events' = events + 1
  /\ \E next \in {"capture", "handle"} : At(t, "out", next)
  /\ \E s \in Signatures : asked' = [asked EXCEPT ![t] = s]
  /\ UNCHANGED <<heapVars, sharedVars, blockVars, i, text>>

\* The copy of the signature, then the list of arguments.
Prepare(t, next, sig, n, args) ==
  /\ At(t, "capture", next)
  /\ signature' = [signature EXCEPT ![t] = sig] /\ count' = [count EXCEPT ![t] = n]
  /\ list' = [list EXCEPT ![t] = args]
  /\ UNCHANGED <<heapVars, sharedVars, events, asked, parts, i, text>>

\* The copy of the signature is given back when its offsets are not known or the
\* list is refused; the event goes on pointing to it.
SignatureRefused(t) == Prepare(t, "handle", "runtime", 0, "none")
OffsetsUnknown(t) == Prepare(t, "handle", "freed", 0, "none")
ListRefused(t) == Prepare(t, "handle", "freed", Len(asked[t]), "none")
ListReady(t) == Prepare(t, "argument", "live", Len(asked[t]), "live")

-----------------------------------------------------------------------------
\* The loop over the arguments.
Argument(t) == asked[t][i[t]]
InHand(t, here) == at[t] = here /\ i[t] <= Len(asked[t])

Step(t, here, there, part) ==
  /\ InHand(t, here)
  /\ at' = [at EXCEPT ![t] = there]
  /\ parts' = [parts EXCEPT ![t][i[t]] = part]
  /\ i' = [i EXCEPT ![t] = IF there = "argument" THEN @ + 1 ELSE @]
  /\ UNCHANGED <<heapVars, cache, events, asked, signature, count, list>>

Mine(t) == parts[t][i[t]]
Typed(t) == [Mine(t) EXCEPT !.type = "live"]
Quiet == UNCHANGED <<seen, text>>

EndArguments(t) ==
  /\ i[t] > Len(asked[t]) /\ At(t, "argument", "handle")
  /\ UNCHANGED <<heapVars, sharedVars, events, asked, blockVars, i, text>>

\* Beyond the stack copy, or no memory for the type.
Skip(t) == Step(t, "argument", "argument", Mine(t)) /\ Quiet

\* The size of the type is not known, nil, no memory of the allocator's, or no
\* memory for the name; a value that cannot be described.
OnlyTyped(t) == Step(t, "argument", "argument", Typed(t)) /\ Quiet

\* What is there is no object: the arguments that follow are left out.
NoObject(t) ==
  InHand(t, "argument") /\ Argument(t) # Value /\ Step(t, "argument", "handle", Typed(t)) /\ Quiet

Named(t) ==
  /\ InHand(t, "argument") /\ Argument(t) # Value
  /\ Step(t, "argument", "class", [Typed(t) EXCEPT !.class = "live"]) /\ Quiet

\* has_seen_class answers KERN_SUCCESS, 0, for a class that it knows; the caller
\* compares that with false and takes the class for new.
Encounter(t) ==
  LET c == object[Argument(t)].class IN
  /\ InHand(t, "class")
  /\ Step(t, "class", IF c \in seen THEN "argument" ELSE "look", Mine(t))
  /\ seen' = IF c \in seen THEN seen \cup {c} ELSE seen
  /\ UNCHANGED text

\* Mutant: given back when it cannot be described, like where memory is refused.
Value_GivenBack(t) ==
  /\ InHand(t, "argument") /\ Argument(t) = Value
  /\ \E p \in {[Typed(t) EXCEPT !.text = "live"], [Mine(t) EXCEPT !.type = "freed"]} :
       Step(t, "argument", "argument", p)
  /\ Quiet

DescribeValue(t) ==
  /\ InHand(t, "argument") /\ Argument(t) = Value
  /\ Step(t, "argument", "argument", [Typed(t) EXCEPT !.text = "live"]) /\ Quiet

\* No memory for the value, or it cannot be read: the type is given back, and
\* the event goes on pointing to it.
ValueRefused(t) ==
  /\ InHand(t, "argument") /\ Argument(t) = Value
  /\ Step(t, "argument", "argument", [Mine(t) EXCEPT !.type = "freed"]) /\ Quiet

-----------------------------------------------------------------------------
\* lookup_description_for_address, whose lock is let go while -description runs.
Entries(a) == {k \in DOMAIN cache : cache[k].address = a}

Look(t, here, there, says) ==
  /\ At(t, here, there) /\ text' = [text EXCEPT ![t] = says]
  /\ UNCHANGED <<heapVars, seen, events, asked, blockVars, i>>

\* Mutant: the entry of any address will do.
Hit_Any(t) ==
  InHand(t, "look") /\ \E k \in DOMAIN cache : Look(t, "look", "copy", cache[k].text) /\ UNCHANGED cache

Hit(t) ==
  /\ InHand(t, "look") /\ UNCHANGED cache
  /\ \E k \in Entries(Argument(t)) : Look(t, "look", "copy", cache[k].text)

Miss(t) ==
  /\ InHand(t, "look") /\ Entries(Argument(t)) = {}
  /\ Look(t, "look", "build", NoText) /\ UNCHANGED cache

\* The object says nothing, or only its class is asked for.
SaysNothing(t) == Look(t, "build", "copy", NoText) /\ UNCHANGED cache
ClassOnly(t) == Look(t, "look", "copy", NoText) /\ UNCHANGED cache

\* Mutant: the threads share the buffer of the description.
Describe_Shared(t) ==
  InHand(t, "build") /\ \E a \in Addresses : Look(t, "build", "insert", object[a].text) /\ UNCHANGED cache

Describe(t) == InHand(t, "build") /\ Look(t, "build", "insert", object[Argument(t)].text) /\ UNCHANGED cache

\* Another thread was faster: its description is taken.
Known(t) ==
  /\ InHand(t, "insert") /\ UNCHANGED cache
  /\ \E k \in Entries(Argument(t)) : Look(t, "insert", "copy", cache[k].text)

\* Mutant: what was found before is relied on.
Insert_Unasked(t) ==
  /\ InHand(t, "insert") /\ Len(cache) < CacheSize
  /\ cache' = Append(cache, [address |-> Argument(t), text |-> text[t]])
  /\ Look(t, "insert", "copy", text[t])

Insert(t) ==
  /\ InHand(t, "insert") /\ Entries(Argument(t)) = {} /\ Len(cache) < CacheSize
  /\ cache' = Append(cache, [address |-> Argument(t), text |-> text[t]])
  /\ Look(t, "insert", "copy", text[t])

\* The cache is full, or there is no memory for the copy.
Uncached(t) ==
  /\ InHand(t, "insert") /\ Entries(Argument(t)) = {}
  /\ Look(t, "insert", "copy", text[t]) /\ UNCHANGED cache

\* The description is copied into the event, if it is not too long.
CopyText(t) ==
  Step(t, "copy", "argument", [Mine(t) EXCEPT !.text = "live", !.says = text[t]]) /\ Quiet
LeaveText(t) == Step(t, "copy", "argument", Mine(t)) /\ Quiet

Capture(t) ==
  \/ Begin(t) \/ SignatureRefused(t) \/ OffsetsUnknown(t) \/ ListRefused(t) \/ ListReady(t)
  \/ EndArguments(t) \/ Skip(t) \/ OnlyTyped(t) \/ NoObject(t) \/ Named(t)
  \/ Encounter(t) \/ DescribeValue(t) \/ ValueRefused(t)
  \/ Hit(t) \/ Miss(t) \/ SaysNothing(t) \/ ClassOnly(t) \/ Describe(t) \/ Known(t) \/ Insert(t) \/ Uncached(t)
  \/ CopyText(t) \/ LeaveText(t)
=============================================================================
