----------------------------- MODULE EventProps -----------------------------
(* What the path of an event promises.                                      *)
EXTENDS EventHandler

Places == {"out", "capture", "argument", "class", "look", "build", "insert", "copy",
           "handle", "get", "fill", "send", "return", "free"}

\* Every variable has its type; the cache and the pool do not outgrow their arrays.
TypeOK ==
  /\ object \in [Addresses -> Objects]
  /\ own \in [Addresses -> SUBSET Texts]
  /\ seen \in SUBSET Classes
  /\ cache \in Seq([address : Addresses, text : Texts]) /\ Len(cache) <= CacheSize
  /\ events \in 0..MaxEvents
  /\ at \in [Threads -> Places] /\ asked \in [Threads -> Signatures \cup {<<>>}]
  /\ signature \in [Threads -> Pointer] /\ list \in [Threads -> Pointer]
  /\ count \in [Threads -> 0..MaxArgs] /\ parts \in [Threads -> [1..MaxArgs -> Part]]
  /\ i \in [Threads -> 1..(MaxArgs + 1)] /\ text \in [Threads -> Texts \cup {NoText}]
  /\ {custom, lost} \subseteq BOOLEAN
  /\ size \in 0..PoolSize /\ in_use \in [1..PoolSize -> BOOLEAN]
  /\ holds \in [Threads -> 1..PoolSize \cup {Nobody}]
  /\ written \in [1..PoolSize -> Threads \cup {Nobody}]

\* An address has one description in the cache, though two threads may look it
\* up, find none and ask the object at the same time.
OneEntryPerAddress ==
  \A k, l \in DOMAIN cache : cache[k].address = cache[l].address => k = l

\* What an event says of its k-th argument, and what it may have that from.
Says(t, k) == parts[t][k].says
Heard(told, entries, a) ==
  told[a] \cup {entries[l].text : l \in {m \in DOMAIN entries : entries[m].address = a}}

\* What an event says of an object, the object itself has said, or else the cache
\* has it for the object's address, where an object that is gone may have said it.
\* It is never what an object somewhere else said, and may be long out of date.
TextOfSomeMoment ==
  \A t \in Threads : \A k \in DOMAIN asked[t] :
    Says(t, k) # NoText => Says(t, k) \in Heard(own, cache, asked[t][k])

\* What the cache takes in for an address, the object that is there has said, though
\* the lock was let go since it was asked; and what the cache has, it keeps.
LearnsWhatIsSaid ==
  /\ \A l \in DOMAIN cache : l \in DOMAIN cache' /\ cache'[l] = cache[l]
  /\ \A l \in DOMAIN cache' \ DOMAIN cache : cache'[l].text \in own[cache'[l].address]
CacheLearnsWhatIsSaid == [][LearnsWhatIsSaid]_eventVars

\* Whichever of its steps fails, an event leaves none of the memory behind that
\* its arguments were copied into: it is freed as far as the event counts them.
NothingLeaks == ~ lost

\* A buffer is in use while one thread holds it, and what that thread hands to
\* the transport is its own event.
BuffersHaveOneOwner ==
  /\ \A s, t \in Threads : holds[s] = holds[t] /\ holds[s] # Nobody => s = t
  /\ \A b \in 1..PoolSize : in_use[b] <=> \E t \in Threads : holds[t] = b
  /\ \A t \in Threads : at[t] \in {"send", "return"} => written[holds[t]] = t
=============================================================================
