----------------------------- MODULE EventProofs -----------------------------
(***************************************************************************)
(* The invariant of the path of an event, one part per piece of state, and *)
(* what it implies, for any threads, messages, objects and sizes.          *)
(***************************************************************************)
EXTENDS EventProps, TLAPS

\* Where a thread has an object in hand, and where it has a buffer.
Amid == {"class", "look", "build", "insert", "copy"}
Holding == {"fill", "send", "return"}
Cached == [address : Addresses, text : Texts]

HeapOK ==
  /\ object \in [Addresses -> Objects] /\ own \in [Addresses -> SUBSET Texts]
  /\ \A a \in Addresses : object[a].text \in own[a]

CacheOK ==
  /\ cache \in Seq(Cached) /\ Len(cache) <= CacheSize
  /\ OneEntryPerAddress

SmallOK == seen \in SUBSET Classes /\ events \in 0..MaxEvents /\ custom \in BOOLEAN /\ lost = FALSE

WhereOK ==
  /\ at \in [Threads -> Places] /\ asked \in [Threads -> Signatures \cup {<<>>}]
  /\ i \in [Threads -> 1..(MaxArgs + 1)]
  /\ \A t \in Threads :
       /\ at[t] # "out" => asked[t] \in Signatures
       /\ at[t] \in Amid => i[t] <= Len(asked[t]) /\ asked[t][i[t]] \in Addresses

BlockOK ==
  /\ signature \in [Threads -> Pointer] /\ list \in [Threads -> Pointer]
  /\ count \in [Threads -> 0..MaxArgs]
  /\ \A t \in Threads :
       /\ at[t] \in {"out", "capture"} => list[t] = "none"
       /\ list[t] = "none" => signature[t] # "live"
       /\ list[t] # "none" => count[t] = Len(asked[t])

\* What is known of part p of thread t's event, which is its k-th.
InList(t, k, p) == p = Blank \/ k <= Len(asked[t])
Said(t, k, p) ==
  k \in DOMAIN asked[t] /\ p.says # NoText =>
    asked[t][k] \in Addresses /\ p.says \in Heard(own, cache, asked[t][k])

PartsOK ==
  /\ parts \in [Threads -> [1..MaxArgs -> Part]]
  /\ \A t \in Threads : at[t] \in {"out", "capture"} => parts[t] = Unused
  /\ \A t \in Threads : \A k \in 1..MaxArgs : InList(t, k, parts[t][k]) /\ Said(t, k, parts[t][k])

\* What is known of the description s in the hand of thread t.
Told(t, s) == s = NoText \/ s \in Heard(own, cache, asked[t][i[t]])

TextOK ==
  /\ text \in [Threads -> Texts \cup {NoText}]
  /\ \A t \in Threads :
       /\ at[t] = "copy" => Told(t, text[t])
       /\ at[t] = "insert" => text[t] \in Texts /\ text[t] \in own[asked[t][i[t]]]

PoolOK ==
  /\ size \in 0..PoolSize /\ in_use \in [1..PoolSize -> BOOLEAN]
  /\ holds \in [Threads -> 1..PoolSize \cup {Nobody}]
  /\ written \in [1..PoolSize -> Threads \cup {Nobody}]
  /\ \A t \in Threads : at[t] \in Holding <=> holds[t] # Nobody
  /\ \A t \in Threads : holds[t] # Nobody => holds[t] \in 1..size
  /\ BuffersHaveOneOwner

EventInv ==
  HeapOK /\ CacheOK /\ SmallOK /\ WhereOK /\ BlockOK /\ PartsOK /\ TextOK /\ PoolOK

-----------------------------------------------------------------------------
LEMMA Numbers == MaxArgs \in Nat /\ CacheSize \in Nat /\ MaxEvents \in Nat /\ PoolSize \in Nat
  BY ArgumentsAssumption, EventHandlerAssumption

LEMMA SignatureFacts ==
  ASSUME NEW s \in Signatures
  PROVE  /\ Len(s) \in 1..MaxArgs /\ DOMAIN s = 1..Len(s)
         /\ \A k \in DOMAIN s : s[k] # Value => s[k] \in Addresses
  <1>1. s \in Seq(Addresses \cup {Value}) /\ Len(s) \in 1..MaxArgs
    BY ArgumentsAssumption
  <1> QED BY <1>1

LEMMA ObjectFacts ==
  ASSUME NEW o \in Objects
  PROVE  o.class \in Classes /\ o.text \in Texts
  BY DEF Classes, Texts

LEMMA CacheFacts ==
  ASSUME CacheOK, NEW k \in DOMAIN cache
  PROVE  cache[k] \in Cached /\ cache[k].address \in Addresses /\ cache[k].text \in Texts
  <1>1. cache[k] \in Cached
    BY DEF CacheOK
  <1> QED BY <1>1 DEF Cached

LEMMA BlankFacts ==
  /\ Blank \in Part /\ Unused \in [1..MaxArgs -> Part]
  /\ Blank.says = NoText /\ "live" \notin {Blank.type, Blank.class, Blank.text}
  BY DEF Blank, Part, Pointer, Unused

LEMMA EventStart == EventInit => EventInv
  <1> SUFFICES ASSUME EventInit PROVE EventInv
    OBVIOUS
  <1> USE DEF EventInit, CaptureInit
  <1>1. HeapOK
    BY ObjectFacts DEF HeapOK
  <1>2. CacheOK
    BY Numbers DEF CacheOK, OneEntryPerAddress
  <1>3. SmallOK /\ WhereOK /\ BlockOK
    BY Numbers DEF SmallOK, WhereOK, BlockOK, Places, Amid, Pointer
  <1>4. PartsOK
    BY BlankFacts DEF PartsOK, InList, Said, Unused
  <1>5. TextOK
    BY DEF TextOK
  <1>6. PoolOK
    BY Numbers, EventHandlerAssumption DEF PoolOK, Holding, BuffersHaveOneOwner
  <1> QED BY <1>1, <1>2, <1>3, <1>4, <1>5, <1>6 DEF EventInv

-----------------------------------------------------------------------------
LEMMA BecomeStep ==
  ASSUME EventInv, NEW a \in Addresses, Become(a), UNCHANGED <<custom, poolVars, lost>>
  PROVE  EventInv'
  <1> USE DEF EventInv
  <1>1. PICK o \in Objects, another \in BOOLEAN :
          /\ another => ~ InUse(a)
          /\ object' = [object EXCEPT ![a] = o]
          /\ own' = [own EXCEPT ![a] = IF another THEN {o.text} ELSE @ \cup {o.text}]
    BY DEF Become
  <1>2. UNCHANGED <<seen, cache, events, at, asked, signature, count, list, parts, i, text,
                    custom, size, in_use, holds, written, lost>>
    BY DEF Become, sharedVars, blockVars, poolVars
  <1>3. own' \in [Addresses -> SUBSET Texts]
        /\ \A b \in Addresses : InUse(b) => own[b] \subseteq own'[b]
    BY <1>1, ObjectFacts DEF HeapOK
  <1>4. HeapOK'
    BY <1>1, <1>3 DEF HeapOK
  <1>5. (CacheOK /\ SmallOK /\ WhereOK /\ BlockOK)'
    BY <1>2 DEF CacheOK, OneEntryPerAddress, SmallOK, WhereOK, BlockOK
  <1>6. ASSUME NEW t \in Threads, at[t] # "out", NEW k \in DOMAIN asked[t], asked[t][k] \in Addresses
        PROVE  /\ own[asked[t][k]] \subseteq own'[asked[t][k]]
               /\ Heard(own, cache, asked[t][k]) \subseteq Heard(own', cache', asked[t][k])
    <2>1. InUse(asked[t][k])
      BY <1>6 DEF InUse
    <2>2. own[asked[t][k]] \subseteq own'[asked[t][k]]
      BY <1>3, <1>6, <2>1
    <2> QED BY <1>2, <2>2 DEF Heard, Entries
  <1>7. PartsOK'
    <2>1. ASSUME NEW t \in Threads, NEW k \in 1..MaxArgs PROVE Said(t, k, parts[t][k])'
      <3>1. CASE at[t] = "out"
        BY <1>2, <3>1, BlankFacts DEF PartsOK, Said, Unused
      <3>2. CASE at[t] # "out"
        BY <1>2, <1>6, <3>2 DEF PartsOK, Said
      <3> QED BY <3>1, <3>2
    <2> QED BY <1>2, <2>1 DEF PartsOK, InList
  <1>8. TextOK'
    <2>1. ASSUME NEW t \in Threads, at[t] \in Amid
          PROVE  /\ own[asked[t][i[t]]] \subseteq own'[asked[t][i[t]]]
                 /\ Heard(own, cache, asked[t][i[t]]) \subseteq Heard(own', cache', asked[t][i[t]])
      <3>1. asked[t] \in Signatures /\ i[t] \in 1..Len(asked[t]) /\ asked[t][i[t]] \in Addresses
            /\ at[t] # "out"
        BY <2>1, Numbers DEF WhereOK, Amid
      <3>2. i[t] \in DOMAIN asked[t]
        BY <3>1, SignatureFacts
      <3> QED BY <1>6, <3>1, <3>2
    <2> QED BY <1>2, <2>1 DEF TextOK, Told, Amid
  <1>9. PoolOK'
    BY <1>2 DEF PoolOK, BuffersHaveOneOwner
  <1> QED BY <1>4, <1>5, <1>6, <1>7, <1>8, <1>9

-----------------------------------------------------------------------------
LEMMA BeginStep ==
  ASSUME EventInv, NEW t \in Threads, Begin(t), UNCHANGED <<custom, poolVars, lost>>
  PROVE  EventInv'
  <1> USE DEF EventInv
  <1>1. PICK next \in {"capture", "handle"}, s \in Signatures :
          at[t] = "out" /\ at' = [at EXCEPT ![t] = next] /\ asked' = [asked EXCEPT ![t] = s]
    BY DEF Begin, At
  <1>2. events < MaxEvents /\ events' = events + 1
        /\ UNCHANGED <<object, own, seen, cache, signature, count, list, parts, i, text,
                       custom, size, in_use, holds, written, lost>>
    BY DEF Begin, heapVars, sharedVars, blockVars, poolVars
  <1>3. (HeapOK /\ CacheOK)'
    BY <1>2 DEF HeapOK, CacheOK, OneEntryPerAddress
  <1>9. BlockOK'
    BY <1>1, <1>2 DEF BlockOK, WhereOK
  <1>4. SmallOK'
    BY <1>2, Numbers DEF SmallOK
  <1>5. WhereOK'
    BY <1>1, <1>2 DEF WhereOK, Places, Amid
  <1>6. PartsOK'
    <2>1. parts[t] = Unused
      BY <1>1 DEF PartsOK
    <2>2. ASSUME NEW k \in 1..MaxArgs PROVE Said(t, k, parts[t][k])'
      BY <1>2, <2>1, BlankFacts DEF Said, Unused
    <2>3. ASSUME NEW u \in Threads, u # t, NEW k \in 1..MaxArgs PROVE Said(u, k, parts[u][k])'
      BY <1>1, <1>2, <2>3 DEF PartsOK, Said, WhereOK
    <2>4. ASSUME NEW u \in Threads, NEW k \in 1..MaxArgs PROVE InList(u, k, parts[u][k])'
      BY <1>1, <1>2, <2>1 DEF PartsOK, InList, Unused, WhereOK
    <2>5. ASSUME NEW u \in Threads, NEW k \in 1..MaxArgs PROVE Said(u, k, parts[u][k])'
      BY <2>2, <2>3
    <2> QED BY <1>1, <1>2, <2>4, <2>5 DEF PartsOK, WhereOK
  <1>7. TextOK'
    BY <1>1, <1>2 DEF TextOK, Told, WhereOK
  <1>8. PoolOK'
    BY <1>1, <1>2 DEF PoolOK, BuffersHaveOneOwner, Holding, WhereOK
  <1> QED BY <1>3, <1>4, <1>5, <1>6, <1>7, <1>8, <1>9

LEMMA PrepareStep ==
  ASSUME EventInv, NEW t \in Threads, UNCHANGED <<custom, poolVars, lost>>,
         NEW next \in {"argument", "handle"}, NEW sig \in Pointer, NEW n \in 0..MaxArgs,
         NEW args \in Pointer, Prepare(t, next, sig, n, args),
         args = "none" => sig # "live", args # "none" => n = Len(asked[t])
  PROVE  EventInv'
  <1> USE DEF EventInv
  <1>1. /\ at[t] = "capture" /\ at' = [at EXCEPT ![t] = next]
        /\ signature' = [signature EXCEPT ![t] = sig] /\ count' = [count EXCEPT ![t] = n]
        /\ list' = [list EXCEPT ![t] = args]
        /\ UNCHANGED <<object, own, seen, cache, events, asked, parts, i, text,
                       custom, size, in_use, holds, written, lost>>
    BY DEF Prepare, At, heapVars, sharedVars, poolVars
  <1>2. (HeapOK /\ CacheOK /\ SmallOK)'
    BY <1>1 DEF HeapOK, CacheOK, OneEntryPerAddress, SmallOK
  <1>3. WhereOK'
    BY <1>1 DEF WhereOK, Places, Amid
  <1>4. BlockOK'
    BY <1>1 DEF BlockOK, WhereOK
  <1>5. PartsOK'
    BY <1>1 DEF PartsOK, InList, Said, WhereOK
  <1>6. TextOK'
    BY <1>1 DEF TextOK, Told, WhereOK
  <1>7. PoolOK'
    BY <1>1 DEF PoolOK, BuffersHaveOneOwner, Holding, WhereOK
  <1> QED BY <1>2, <1>3, <1>4, <1>5, <1>6, <1>7

LEMMA PreparedStep ==
  ASSUME EventInv, NEW t \in Threads, UNCHANGED <<custom, poolVars, lost>>,
         SignatureRefused(t) \/ OffsetsUnknown(t) \/ ListRefused(t) \/ ListReady(t)
  PROVE  EventInv'
  <1>0. 0 \in 0..MaxArgs /\ {"runtime", "freed", "none"} \subseteq Pointer
    BY Numbers DEF Pointer
  <1>1. CASE SignatureRefused(t)
    BY <1>0, <1>1, PrepareStep DEF SignatureRefused
  <1>2. CASE OffsetsUnknown(t)
    BY <1>0, <1>2, PrepareStep DEF OffsetsUnknown
  <1>3. ASSUME at[t] = "capture" PROVE Len(asked[t]) \in 0..MaxArgs
    BY <1>3, SignatureFacts, Numbers DEF EventInv, WhereOK
  <1>4. CASE ListRefused(t)
    BY <1>3, <1>4, PrepareStep DEF ListRefused, Pointer, Prepare, At
  <1>5. CASE ListReady(t)
    BY <1>3, <1>5, PrepareStep DEF ListReady, Pointer, Prepare, At
  <1> QED BY <1>1, <1>2, <1>4, <1>5

LEMMA EndStep ==
  ASSUME EventInv, NEW t \in Threads, EndArguments(t), UNCHANGED <<custom, poolVars, lost>>
  PROVE  EventInv'
  <1> USE DEF EventInv
  <1>1. /\ at[t] = "argument" /\ at' = [at EXCEPT ![t] = "handle"]
        /\ UNCHANGED <<object, own, seen, cache, events, asked, signature, count, list, parts,
                       i, text, custom, size, in_use, holds, written, lost>>
    BY DEF EndArguments, At, heapVars, sharedVars, blockVars, poolVars
  <1>2. (HeapOK /\ CacheOK /\ SmallOK /\ BlockOK)'
    BY <1>1 DEF HeapOK, CacheOK, OneEntryPerAddress, SmallOK, BlockOK
  <1>3. WhereOK'
    BY <1>1 DEF WhereOK, Places, Amid
  <1>4. PartsOK'
    BY <1>1 DEF PartsOK, InList, Said, WhereOK
  <1>5. TextOK'
    BY <1>1 DEF TextOK, Told, WhereOK
  <1>6. PoolOK'
    BY <1>1 DEF PoolOK, BuffersHaveOneOwner, Holding, WhereOK
  <1> QED BY <1>2, <1>3, <1>4, <1>5, <1>6

-----------------------------------------------------------------------------
\* A step of the loop over the arguments, which changes the part in hand.
LEMMA LoopStep ==
  ASSUME EventInv, NEW t \in Threads, UNCHANGED <<custom, poolVars, lost>>, UNCHANGED text,
         NEW here \in {"argument", "class", "copy"},
         NEW there \in {"argument", "class", "look", "handle"},
         NEW part, Step(t, here, there, part),
         seen' \in SUBSET Classes,
         there \in {"class", "look"} => Argument(t) \in Addresses,
         part \in Part,
         part.says # NoText => Argument(t) \in Addresses /\ part.says \in Heard(own, cache, Argument(t))
  PROVE  EventInv'
  <1> USE DEF EventInv
  <1>1. /\ at[t] = here /\ i[t] <= Len(asked[t]) /\ at' = [at EXCEPT ![t] = there]
        /\ parts' = [parts EXCEPT ![t][i[t]] = part]
        /\ i' = [i EXCEPT ![t] = IF there = "argument" THEN @ + 1 ELSE @]
        /\ UNCHANGED <<object, own, cache, events, asked, signature, count, list, text,
                       custom, size, in_use, holds, written, lost>>
    BY DEF Step, InHand, heapVars, poolVars
  <1>2. /\ asked[t] \in Signatures /\ i[t] \in 1..Len(asked[t]) /\ i[t] \in 1..MaxArgs
        /\ Len(asked[t]) \in 1..MaxArgs
    BY <1>1, SignatureFacts, Numbers DEF WhereOK
  <1>3. (HeapOK /\ CacheOK /\ SmallOK)'
    BY <1>1 DEF HeapOK, CacheOK, OneEntryPerAddress, SmallOK
  <1>4. WhereOK'
    <2>1. i' \in [Threads -> 1..(MaxArgs + 1)]
      BY <1>1, <1>2, Numbers DEF WhereOK
    <2>2. there \in Places /\ (there \in Amid => there \in {"class", "look"})
      BY DEF Places, Amid
    <2>3. there \in Amid => i'[t] = i[t]
      BY <1>1, <2>2 DEF WhereOK
    <2> QED BY <1>1, <1>2, <2>1, <2>2, <2>3 DEF WhereOK, Argument
  <1>5. BlockOK'
    BY <1>1 DEF BlockOK, WhereOK
  <1>6. PartsOK'
    <2>1. /\ parts' \in [Threads -> [1..MaxArgs -> Part]] /\ parts'[t][i[t]] = part
          /\ \A k \in 1..MaxArgs : k # i[t] => parts'[t][k] = parts[t][k]
          /\ \A u \in Threads : u # t => parts'[u] = parts[u]
      BY <1>1, <1>2 DEF PartsOK
    <2>2. \A u \in Threads : at'[u] \in {"out", "capture"} => u # t /\ at[u] = at'[u]
      BY <1>1 DEF WhereOK
    <2>3. ASSUME NEW k \in 1..MaxArgs PROVE InList(t, k, parts[t][k])' /\ Said(t, k, parts[t][k])'
      <3>1. CASE k = i[t]
        BY <1>1, <1>2, <2>1, <3>1 DEF InList, Said, Argument
      <3>2. CASE k # i[t]
        BY <1>1, <2>1, <3>2 DEF InList, Said, PartsOK
      <3> QED BY <3>1, <3>2
    <2>4. ASSUME NEW u \in Threads, u # t, NEW k \in 1..MaxArgs
          PROVE InList(u, k, parts[u][k])' /\ Said(u, k, parts[u][k])'
      BY <1>1, <2>1, <2>4 DEF InList, Said, PartsOK
    <2>5. \A u \in Threads : at'[u] \in {"out", "capture"} => parts'[u] = Unused
      BY <2>1, <2>2 DEF PartsOK
    <2>6. \A u \in Threads : \A k \in 1..MaxArgs :
            InList(u, k, parts[u][k])' /\ Said(u, k, parts[u][k])'
      <3> SUFFICES ASSUME NEW u \in Threads, NEW k \in 1..MaxArgs
                   PROVE  InList(u, k, parts[u][k])' /\ Said(u, k, parts[u][k])'
        OBVIOUS
      <3>1. CASE u = t
        BY <2>3, <3>1 DEF InList, Said
      <3>2. CASE u # t
        BY <2>4, <3>2
      <3> QED BY <3>1, <3>2
    <2> QED BY <2>1, <2>5, <2>6 DEF PartsOK
  <1>7. TextOK'
    <2>1. \A u \in Threads : at'[u] \in {"copy", "insert"} => u # t /\ at[u] = at'[u] /\ i'[u] = i[u]
      BY <1>1 DEF WhereOK
    <2> QED BY <1>1, <2>1 DEF TextOK, Told
  <1>8. PoolOK'
    BY <1>1 DEF PoolOK, BuffersHaveOneOwner, Holding, WhereOK
  <1> QED BY <1>3, <1>4, <1>5, <1>6, <1>7, <1>8

\* The part in hand, with its type copied.
LEMMA InHandFacts ==
  ASSUME EventInv, NEW t \in Threads, NEW here, InHand(t, here), here # "out"
  PROVE  /\ asked[t] \in Signatures /\ i[t] \in DOMAIN asked[t] /\ i[t] \in 1..MaxArgs
         /\ Mine(t) \in Part /\ Said(t, i[t], Mine(t))
         /\ Argument(t) # Value => Argument(t) \in Addresses
  <1>1. asked[t] \in Signatures /\ i[t] \in 1..Len(asked[t])
    BY SignatureFacts, Numbers DEF EventInv, WhereOK, InHand
  <1>2. i[t] \in DOMAIN asked[t] /\ i[t] \in 1..MaxArgs
        /\ (Argument(t) # Value => Argument(t) \in Addresses)
    BY <1>1, SignatureFacts, Numbers DEF Argument
  <1> QED BY <1>1, <1>2 DEF EventInv, PartsOK, Mine

LEMMA PartFacts ==
  ASSUME NEW p \in Part
  PROVE  /\ \A q \in Pointer :
              /\ [p EXCEPT !.type = q] \in Part /\ [p EXCEPT !.type = q].says = p.says
              /\ [p EXCEPT !.type = q].type = q /\ [p EXCEPT !.type = q].class = p.class
              /\ [p EXCEPT !.type = q].text = p.text
              /\ [p EXCEPT !.class = q] \in Part /\ [p EXCEPT !.class = q].says = p.says
              /\ [p EXCEPT !.class = q].class = q /\ [p EXCEPT !.class = q].type = p.type
              /\ [p EXCEPT !.class = q].text = p.text
              /\ [p EXCEPT !.text = q] \in Part /\ [p EXCEPT !.text = q].says = p.says
              /\ [p EXCEPT !.text = q].text = q /\ [p EXCEPT !.text = q].type = p.type
              /\ [p EXCEPT !.text = q].class = p.class
         /\ \A s \in Texts \cup {NoText} :
              /\ [p EXCEPT !.says = s] \in Part /\ [p EXCEPT !.says = s].says = s
              /\ [p EXCEPT !.says = s].type = p.type /\ [p EXCEPT !.says = s].class = p.class
              /\ [p EXCEPT !.says = s].text = p.text
  BY DEF Part

LEMMA TypedFacts ==
  ASSUME EventInv, NEW t \in Threads, NEW here, InHand(t, here), here # "out"
  PROVE  /\ Typed(t) \in Part /\ Typed(t).says = Mine(t).says
         /\ [Typed(t) EXCEPT !.class = "live"] \in Part
         /\ [Typed(t) EXCEPT !.class = "live"].says = Mine(t).says
         /\ [Typed(t) EXCEPT !.text = "live"] \in Part
         /\ [Typed(t) EXCEPT !.text = "live"].says = Mine(t).says
         /\ [Mine(t) EXCEPT !.type = "freed"] \in Part
         /\ [Mine(t) EXCEPT !.type = "freed"].says = Mine(t).says
  <1>1. Mine(t) \in Part /\ {"live", "freed"} \subseteq Pointer
    BY InHandFacts DEF Pointer
  <1>2. Typed(t) \in Part /\ Typed(t).says = Mine(t).says
    BY <1>1, PartFacts DEF Typed
  <1>3. ASSUME NEW p \in Part
        PROVE  /\ [p EXCEPT !.class = "live"] \in Part /\ [p EXCEPT !.class = "live"].says = p.says
               /\ [p EXCEPT !.text = "live"] \in Part /\ [p EXCEPT !.text = "live"].says = p.says
    BY <1>1, <1>3, PartFacts
  <1> QED BY <1>1, <1>2, <1>3, PartFacts

LEMMA ArgumentStep ==
  ASSUME EventInv, NEW t \in Threads, UNCHANGED <<custom, poolVars, lost>>,
         \/ Skip(t) \/ OnlyTyped(t) \/ NoObject(t) \/ Named(t) \/ Encounter(t)
         \/ DescribeValue(t) \/ ValueRefused(t) \/ CopyText(t) \/ LeaveText(t)
  PROVE  EventInv'
  <1>0. /\ seen \in SUBSET Classes
        /\ text \in [Threads -> Texts \cup {NoText}] /\ at \in [Threads -> Places]
    BY DEF EventInv, BlockOK, SmallOK, TextOK, WhereOK
  <1>1. ASSUME NEW here \in {"argument", "class", "copy"},
               NEW there \in {"argument", "class", "look", "handle"},
               NEW part \in Part, Step(t, here, there, part), Quiet,
               there \in {"class", "look"} => Argument(t) \in Addresses,
               part.says = Mine(t).says
        PROVE  EventInv'
    <2>1. InHand(t, here)
      BY <1>1 DEF Step
    <2>2. part.says # NoText => Argument(t) \in Addresses /\ part.says \in Heard(own, cache, Argument(t))
      BY <1>1, <2>1, InHandFacts DEF Said, Argument
    <2> QED BY <1>0, <1>1, <2>2, LoopStep DEF Quiet
  <1>2. CASE Skip(t)
    <2>1. InHand(t, "argument") /\ Mine(t) \in Part
      BY <1>2, InHandFacts DEF Skip, Step
    <2> QED BY <1>1, <1>2, <2>1 DEF Skip
  <1>3. CASE OnlyTyped(t)
    <2>1. InHand(t, "argument")
      BY <1>3 DEF OnlyTyped, Step
    <2> QED BY <1>1, <1>3, <2>1, TypedFacts DEF OnlyTyped
  <1>4. CASE NoObject(t)
    BY <1>1, <1>4, TypedFacts DEF NoObject
  <1>5. CASE Named(t)
    BY <1>1, <1>5, TypedFacts, InHandFacts DEF Named
  <1>6. CASE Encounter(t)
    <2>1. InHand(t, "class") /\ Mine(t) \in Part /\ Argument(t) \in Addresses
      BY <1>6, InHandFacts DEF Encounter, EventInv, WhereOK, InHand, Amid, Argument
    <2>2. PICK there \in {"argument", "look"} : Step(t, "class", there, Mine(t))
      BY <1>6 DEF Encounter
    <2>3. seen' = seen /\ UNCHANGED text
      BY <1>6 DEF Encounter
    <2> QED BY <1>1, <2>1, <2>2, <2>3 DEF Quiet
  <1>7. CASE DescribeValue(t)
    BY <1>1, <1>7, TypedFacts DEF DescribeValue
  <1>8. CASE ValueRefused(t)
    <2> DEFINE p == [Mine(t) EXCEPT !.type = "freed"]
    <2>1. InHand(t, "argument") /\ Step(t, "argument", "argument", p)
          /\ Quiet
      BY <1>8 DEF ValueRefused
    <2>2. p \in Part /\ p.says = Mine(t).says
      BY <2>1, TypedFacts
    <2> HIDE DEF p
    <2> QED BY <1>1, <2>1, <2>2
  <1>9. CASE CopyText(t)
    <2> DEFINE p == [Mine(t) EXCEPT !.text = "live", !.says = text[t]]
    <2>1. InHand(t, "copy") /\ Step(t, "copy", "argument", p) /\ Quiet
      BY <1>9 DEF CopyText, Step
    <2>2. Mine(t) \in Part /\ "live" \in Pointer
      BY <2>1, InHandFacts DEF Pointer
    <2>3. p \in Part /\ p.says = text[t] /\ p.type = Mine(t).type /\ p.class = Mine(t).class
          /\ p.text = "live"
      BY <1>0, <2>2 DEF Part
    <2>4. p.says # NoText => Argument(t) \in Addresses /\ p.says \in Heard(own, cache, Argument(t))
      BY <2>1, <2>3 DEF InHand, EventInv, TextOK, Told, WhereOK, Amid, Argument
    <2> HIDE DEF p
    <2> QED BY <1>0, <2>1, <2>3, <2>4, LoopStep DEF Quiet
  <1>10. CASE LeaveText(t)
    <2>1. InHand(t, "copy") /\ Mine(t) \in Part
      BY <1>10, InHandFacts DEF LeaveText, Step
    <2> QED BY <1>1, <1>10, <2>1 DEF LeaveText
  <1> QED BY <1>2, <1>3, <1>4, <1>5, <1>6, <1>7, <1>8, <1>9, <1>10

-----------------------------------------------------------------------------
\* A step of the lookup, which has a description in hand.
LEMMA LookStep ==
  ASSUME EventInv, NEW t \in Threads, UNCHANGED <<custom, poolVars, lost>>,
         NEW here \in {"look", "build", "insert"}, NEW there \in {"build", "insert", "copy"},
         NEW says \in Texts \cup {NoText}, Look(t, here, there, says), CacheOK',
         \A a : Entries(a) \subseteq Entries(a)' /\ Heard(own, cache, a) \subseteq Heard(own', cache', a),
         there = "copy" => says = NoText \/ says \in Heard(own', cache', Argument(t)),
         there = "insert" => says \in Texts /\ says \in own[Argument(t)]
  PROVE  EventInv'
  <1> USE DEF EventInv
  <1>1. /\ at[t] = here /\ at' = [at EXCEPT ![t] = there] /\ text' = [text EXCEPT ![t] = says]
        /\ UNCHANGED <<object, own, seen, events, asked, signature, count, list, parts, i,
                       custom, size, in_use, holds, written, lost>>
    BY DEF Look, At, heapVars, blockVars, poolVars
  <1>2. (HeapOK /\ SmallOK /\ BlockOK)'
    BY <1>1 DEF HeapOK, SmallOK, BlockOK, WhereOK
  <1>3. WhereOK'
    BY <1>1 DEF WhereOK, Places, Amid
  <1>4. PartsOK'
    BY <1>1 DEF PartsOK, InList, Said, WhereOK
  <1>5. TextOK'
    BY <1>1 DEF TextOK, Told, WhereOK, Argument
  <1>6. PoolOK'
    BY <1>1 DEF PoolOK, BuffersHaveOneOwner, Holding, WhereOK
  <1> QED BY <1>2, <1>3, <1>4, <1>5, <1>6

LEMMA LookupStep ==
  ASSUME EventInv, NEW t \in Threads, UNCHANGED <<custom, poolVars, lost>>,
         \/ Hit(t) \/ Miss(t) \/ SaysNothing(t) \/ ClassOnly(t) \/ Describe(t)
         \/ Known(t) \/ Insert(t) \/ Uncached(t)
  PROVE  EventInv'
  <1>0. CacheOK /\ HeapOK /\ text[t] \in Texts \cup {NoText}
    BY DEF EventInv, TextOK
  <1>1. ASSUME UNCHANGED <<cache, own>>
        PROVE  CacheOK' /\ \A a : Entries(a)' = Entries(a) /\ Heard(own', cache', a) = Heard(own, cache, a)
    BY <1>0, <1>1 DEF CacheOK, OneEntryPerAddress, Heard, Entries
  <1>2. ASSUME NEW here, NEW there, NEW says, Look(t, here, there, says)
        PROVE  UNCHANGED <<own, asked, i>> /\ at[t] = here
    BY <1>2 DEF Look, At, heapVars
  <1>3. Told(t, NoText)
    BY DEF Told
  <1>4. ASSUME NEW k \in Entries(Argument(t))
        PROVE  cache[k].text \in Texts /\ cache[k].text \in Heard(own, cache, Argument(t))
    BY <1>0, <1>4, CacheFacts DEF Entries, CacheOK, Heard
  <1>5. at[t] = "insert" => text[t] \in Texts /\ text[t] \in own[Argument(t)]
                           /\ text[t] \in Heard(own, cache, Argument(t))
    BY DEF EventInv, TextOK, Heard, Argument
  <1>6. at[t] \in Amid => Argument(t) \in Addresses
    BY DEF EventInv, WhereOK, Argument
  <1>7. CASE Hit(t)
    <2>1. PICK k \in Entries(Argument(t)) : Look(t, "look", "copy", cache[k].text)
      BY <1>7 DEF Hit
    <2>2. UNCHANGED <<cache, own>> /\ cache[k].text \in Texts
          /\ cache[k].text \in Heard(own, cache, Argument(t))
      BY <1>2, <1>4, <1>7, <2>1 DEF Hit
    <2> QED BY <1>1, <2>1, <2>2, LookStep
  <1>8. CASE Miss(t)
    BY <1>1, <1>2, <1>8, LookStep DEF Miss
  <1>9. CASE SaysNothing(t)
    BY <1>1, <1>2, <1>3, <1>9, LookStep DEF SaysNothing
  <1>10. CASE ClassOnly(t)
    BY <1>1, <1>2, <1>3, <1>10, LookStep DEF ClassOnly
  <1>11. CASE Describe(t)
    <2>1. Argument(t) \in Addresses
      BY <1>6, <1>11 DEF Describe, InHand, Amid
    <2>2. object[Argument(t)].text \in Texts /\ object[Argument(t)].text \in own[Argument(t)]
      BY <1>0, <2>1, ObjectFacts DEF HeapOK
    <2> QED BY <1>1, <1>2, <1>11, <2>2, LookStep DEF Describe
  <1>12. CASE Known(t)
    <2>1. PICK k \in Entries(Argument(t)) : Look(t, "insert", "copy", cache[k].text)
      BY <1>12 DEF Known
    <2>2. UNCHANGED <<cache, own>> /\ cache[k].text \in Texts
          /\ cache[k].text \in Heard(own, cache, Argument(t))
      BY <1>2, <1>4, <1>12, <2>1 DEF Known
    <2> QED BY <1>1, <2>1, <2>2, LookStep
  <1>13. CASE Insert(t)
    <2> DEFINE e == [address |-> Argument(t), text |-> text[t]]
    <2>1. /\ Entries(Argument(t)) = {} /\ Len(cache) < CacheSize /\ cache' = Append(cache, e)
          /\ Look(t, "insert", "copy", text[t]) /\ at[t] = "insert" /\ UNCHANGED own
      BY <1>2, <1>13 DEF Insert
    <2>2. Argument(t) \in Addresses /\ text[t] \in Texts /\ text[t] \in own[Argument(t)]
      BY <1>5, <1>6, <2>1 DEF Amid
    <2>3. e \in Cached /\ e.address = Argument(t) /\ e.text = text[t]
      BY <2>2 DEF Cached
    <2> HIDE DEF e
    <2>4. /\ cache' \in Seq(Cached) /\ Len(cache') = Len(cache) + 1 /\ cache'[Len(cache) + 1] = e
          /\ Len(cache) \in Nat /\ DOMAIN cache = 1..Len(cache) /\ DOMAIN cache' = 1..(Len(cache) + 1)
          /\ \A k \in DOMAIN cache : cache'[k] = cache[k]
      BY <1>0, <2>1, <2>3 DEF CacheOK
    <2>5. \A k \in DOMAIN cache : cache[k].address # Argument(t)
      BY <2>1 DEF Entries
    <2>6. \A a : Entries(a) \subseteq Entries(a)' /\ Heard(own, cache, a) \subseteq Heard(own', cache', a)
      BY <2>1, <2>4 DEF Entries, Heard
    <2>7. OneEntryPerAddress'
      BY <1>0, <2>3, <2>4, <2>5 DEF CacheOK, OneEntryPerAddress
    <2>8. CacheOK'
      BY <2>1, <2>4, <2>7, Numbers DEF CacheOK
    <2>9. text[t] \in Heard(own', cache', Argument(t))
      BY <1>2, <2>1, <2>2, <2>6 DEF Heard
    <2> QED BY <1>5, <2>1, <2>2, <2>6, <2>8, <2>9, LookStep
  <1>14. CASE Uncached(t)
    <2>1. Look(t, "insert", "copy", text[t]) /\ UNCHANGED <<cache, own>> /\ at[t] = "insert"
      BY <1>2, <1>14 DEF Uncached
    <2> QED BY <1>0, <1>1, <1>5, <2>1, LookStep
  <1> QED BY <1>7, <1>8, <1>9, <1>10, <1>11, <1>12, <1>13, <1>14

-----------------------------------------------------------------------------
\* A thread goes on with its event, whatever becomes of the pool.
LEMMA GoStep ==
  ASSUME EventInv, NEW t \in Threads,
         NEW here \in {"handle", "get", "fill", "send", "return"},
         NEW there \in {"get", "fill", "send", "return", "free"},
         Go(t, here, there), PoolOK'
  PROVE  EventInv'
  <1> USE DEF EventInv
  <1>1. /\ at[t] = here /\ at' = [at EXCEPT ![t] = there]
        /\ UNCHANGED <<object, own, seen, cache, events, asked, signature, count, list, parts,
                       i, text, custom, lost>>
    BY DEF Go, At, heapVars, sharedVars, blockVars
  <1>2. (HeapOK /\ CacheOK /\ SmallOK /\ BlockOK)'
    BY <1>1 DEF HeapOK, CacheOK, OneEntryPerAddress, SmallOK, BlockOK
  <1>3. WhereOK'
    BY <1>1 DEF WhereOK, Places, Amid
  <1>4. PartsOK'
    BY <1>1 DEF PartsOK, InList, Said, WhereOK
  <1>5. TextOK'
    BY <1>1 DEF TextOK, Told, WhereOK
  <1> QED BY <1>2, <1>3, <1>4, <1>5

LEMMA TakeStep ==
  ASSUME EventInv, NEW t \in Threads, NEW b \in 1..PoolSize, Take(t, b), ~ in_use[b],
         size' \in 0..PoolSize, size <= size', b <= size', in_use' = [in_use EXCEPT ![b] = TRUE]
  PROVE  EventInv'
  <1>1. /\ Go(t, "get", "fill") /\ at[t] = "get" /\ at' = [at EXCEPT ![t] = "fill"]
        /\ holds' = [holds EXCEPT ![t] = b] /\ written' = written
    BY DEF Take, Go, At
  <1>2. at \in [Threads -> Places] /\ PoolOK
    BY DEF EventInv, WhereOK
  <1>3. \A u \in Threads : holds[u] # b
    BY <1>2 DEF PoolOK, BuffersHaveOneOwner
  <1>4. b # Nobody /\ size \in 0..PoolSize
    BY <1>2, EventHandlerAssumption DEF PoolOK
  <1>5. /\ holds' \in [Threads -> 1..PoolSize \cup {Nobody}] /\ in_use' \in [1..PoolSize -> BOOLEAN]
        /\ holds'[t] = b /\ \A u \in Threads : u # t => holds'[u] = holds[u]
    BY <1>1, <1>2 DEF PoolOK
  <1>6. \A u \in Threads : holds'[u] # Nobody => holds'[u] \in 1..size'
    BY <1>2, <1>4, <1>5 DEF PoolOK
  <1>7. \A u \in Threads : at'[u] \in Holding <=> holds'[u] # Nobody
    BY <1>1, <1>2, <1>4, <1>5 DEF PoolOK, Holding
  <1>8. BuffersHaveOneOwner'
    <2>1. \A u, v \in Threads : holds'[u] = holds'[v] /\ holds'[u] # Nobody => u = v
      BY <1>2, <1>3, <1>5 DEF PoolOK, BuffersHaveOneOwner
    <2>2. \A c \in 1..PoolSize : in_use'[c] <=> \E u \in Threads : holds'[u] = c
      <3> SUFFICES ASSUME NEW c \in 1..PoolSize
                   PROVE  in_use'[c] <=> \E u \in Threads : holds'[u] = c
        OBVIOUS
      <3>1. CASE c = b
        BY <1>2, <1>5, <3>1 DEF PoolOK
      <3>2. CASE c # b
        <4>1. in_use'[c] = in_use[c]
          BY <1>2, <3>2 DEF PoolOK
        <4>2. (\E u \in Threads : holds'[u] = c) <=> \E u \in Threads : holds[u] = c
          <5>1. holds[t] = Nobody
            BY <1>1, <1>2 DEF PoolOK, Holding
          <5>2. c # Nobody
            BY EventHandlerAssumption
          <5> QED BY <1>5, <3>2, <5>1, <5>2
        <4> QED BY <1>2, <4>1, <4>2 DEF PoolOK, BuffersHaveOneOwner
      <3> QED BY <3>1, <3>2
    <2>3. \A u \in Threads : at'[u] \in {"send", "return"} => written'[holds'[u]] = u
      BY <1>1, <1>2, <1>5 DEF PoolOK, BuffersHaveOneOwner
    <2> QED BY <2>1, <2>2, <2>3 DEF BuffersHaveOneOwner
  <1>9. PoolOK'
    BY <1>1, <1>2, <1>5, <1>6, <1>7, <1>8 DEF PoolOK
  <1> QED BY <1>1, <1>9, GoStep

LEMMA HandleStep ==
  ASSUME EventInv, NEW t \in Threads,
         \/ HandOver(t) \/ Format(t) \/ FormatFails(t) \/ Reuse(t) \/ Grow(t) \/ Exhausted(t)
         \/ Fill(t) \/ Send(t) \/ Return(t)
  PROVE  EventInv'
  <1>0. at \in [Threads -> Places] /\ PoolOK /\ size \in 0..PoolSize /\ PoolSize \in Nat
    BY Numbers DEF EventInv, WhereOK, PoolOK
  <1>1. ASSUME NEW here, NEW there, Go(t, here, there), UNCHANGED poolVars,
               here \in Holding <=> there \in Holding, there \in {"send", "return"} => here \in {"send", "return"}
        PROVE  PoolOK'
    BY <1>0, <1>1 DEF PoolOK, Go, At, poolVars, Holding, BuffersHaveOneOwner
  <1>2. CASE HandOver(t)
    BY <1>1, <1>2, GoStep DEF HandOver, Holding
  <1>3. CASE Format(t)
    BY <1>1, <1>3, GoStep DEF Format, Holding
  <1>4. CASE FormatFails(t)
    BY <1>1, <1>4, GoStep DEF FormatFails, Holding
  <1>5. CASE Exhausted(t)
    BY <1>1, <1>5, GoStep DEF Exhausted, Holding
  <1>6. CASE Send(t)
    BY <1>1, <1>6, GoStep DEF Send, Holding
  <1>7. CASE Reuse(t)
    <2>1. PICK b \in 1..size : ~ in_use[b] /\ Take(t, b) /\ in_use' = [in_use EXCEPT ![b] = TRUE]
      BY <1>7 DEF Reuse, Free
    <2>2. size' = size
      BY <1>7 DEF Reuse
    <2>3. b \in 1..PoolSize /\ size' \in 0..PoolSize /\ size <= size' /\ b <= size'
      BY <1>0, <2>2
    <2> QED BY <2>1, <2>3, TakeStep
  <1>8. CASE Grow(t)
    <2>1. size < PoolSize /\ size' = size + 1 /\ Take(t, size + 1)
          /\ in_use' = [in_use EXCEPT ![size + 1] = TRUE]
      BY <1>8 DEF Grow
    <2>2. size + 1 \in 1..PoolSize /\ size' \in 0..PoolSize /\ size <= size' /\ size + 1 <= size'
      BY <1>0, <2>1
    <2>3. size + 1 \notin 1..size /\ size + 1 # Nobody
      BY <1>0, EventHandlerAssumption
    <2>4. ~ in_use[size + 1]
      BY <1>0, <2>2, <2>3 DEF PoolOK, BuffersHaveOneOwner
    <2> QED BY <2>1, <2>2, <2>4, TakeStep
  <1>9. CASE Fill(t)
    <2>1. /\ Go(t, "fill", "send") /\ at[t] = "fill" /\ at' = [at EXCEPT ![t] = "send"]
          /\ written' = [written EXCEPT ![holds[t]] = t] /\ UNCHANGED <<size, in_use, holds>>
      BY <1>9 DEF Fill, Go, At
    <2>2. holds[t] \in 1..PoolSize
      BY <1>0, <2>1 DEF PoolOK, Holding
    <2>3. /\ written' \in [1..PoolSize -> Threads \cup {Nobody}] /\ written'[holds[t]] = t
          /\ \A b \in 1..PoolSize : b # holds[t] => written'[b] = written[b]
      BY <1>0, <2>1, <2>2 DEF PoolOK
    <2>4. \A u \in Threads : at'[u] \in Holding <=> at[u] \in Holding
      BY <1>0, <2>1 DEF Holding
    <2>5. ASSUME NEW u \in Threads, at'[u] \in {"send", "return"} PROVE written'[holds[u]] = u
      <3>1. CASE u = t
        BY <2>3, <3>1
      <3>2. CASE u # t
        <4>1. at[u] \in {"send", "return"} /\ at[u] \in Holding
          BY <1>0, <2>1, <2>5, <3>2 DEF Holding
        <4>2. holds[u] # Nobody /\ holds[u] # holds[t] /\ written[holds[u]] = u
              /\ holds[u] \in 1..PoolSize
          BY <1>0, <3>2, <4>1 DEF PoolOK, BuffersHaveOneOwner
        <4> QED BY <2>3, <4>2
      <3> QED BY <3>1, <3>2
    <2>6. PoolOK'
      BY <1>0, <2>1, <2>3, <2>4, <2>5 DEF PoolOK, BuffersHaveOneOwner
    <2> QED BY <2>1, <2>6, GoStep
  <1>10. CASE Return(t)
    <2>1. /\ Go(t, "return", "free") /\ at[t] = "return" /\ at' = [at EXCEPT ![t] = "free"]
          /\ holds' = [holds EXCEPT ![t] = Nobody] /\ in_use' = [in_use EXCEPT ![holds[t]] = FALSE]
          /\ UNCHANGED <<size, written>>
      BY <1>10 DEF Return, Go, At
    <2>2. holds[t] \in 1..PoolSize /\ holds[t] # Nobody
      BY <1>0, <2>1 DEF PoolOK, Holding
    <2>3. /\ holds' \in [Threads -> 1..PoolSize \cup {Nobody}] /\ in_use' \in [1..PoolSize -> BOOLEAN]
          /\ holds'[t] = Nobody /\ \A u \in Threads : u # t => holds'[u] = holds[u]
      BY <1>0, <2>1 DEF PoolOK
    <2>4. \A u \in Threads : at'[u] \in Holding <=> holds'[u] # Nobody
      BY <1>0, <2>1, <2>3 DEF PoolOK, Holding
    <2>5. \A c \in 1..PoolSize : in_use'[c] <=> \E u \in Threads : holds'[u] = c
      <3> SUFFICES ASSUME NEW c \in 1..PoolSize
                   PROVE  in_use'[c] <=> \E u \in Threads : holds'[u] = c
        OBVIOUS
      <3>0. c # Nobody
        BY EventHandlerAssumption
      <3>1. CASE c = holds[t]
        <4>1. ~ in_use'[c]
          BY <1>0, <2>1, <2>2, <3>1 DEF PoolOK
        <4>2. \A u \in Threads : holds'[u] # c
          BY <1>0, <2>2, <2>3, <3>0, <3>1 DEF PoolOK, BuffersHaveOneOwner
        <4> QED BY <4>1, <4>2
      <3>2. CASE c # holds[t]
        <4>1. in_use'[c] = in_use[c]
          BY <1>0, <2>1, <3>2 DEF PoolOK
        <4>2. (\E u \in Threads : holds'[u] = c) <=> \E u \in Threads : holds[u] = c
          BY <2>3, <3>0, <3>2
        <4> QED BY <1>0, <4>1, <4>2 DEF PoolOK, BuffersHaveOneOwner
      <3> QED BY <3>1, <3>2
    <2>6. \A u, v \in Threads : holds'[u] = holds'[v] /\ holds'[u] # Nobody => u = v
      BY <1>0, <2>3 DEF PoolOK, BuffersHaveOneOwner
    <2>7. \A u \in Threads : at'[u] \in {"send", "return"} => written'[holds'[u]] = u
      BY <1>0, <2>1, <2>3 DEF PoolOK, BuffersHaveOneOwner
    <2>8. \A u \in Threads : holds'[u] # Nobody => holds'[u] \in 1..size'
      BY <1>0, <2>1, <2>3 DEF PoolOK
    <2>9. PoolOK'
      BY <1>0, <2>1, <2>3, <2>4, <2>5, <2>6, <2>7, <2>8 DEF PoolOK, BuffersHaveOneOwner
    <2> QED BY <2>1, <2>9, GoStep
  <1> QED BY <1>2, <1>3, <1>4, <1>5, <1>6, <1>7, <1>8, <1>9, <1>10

LEMMA FreeStep ==
  ASSUME EventInv, NEW t \in Threads, FreeEvent(t)
  PROVE  EventInv'
  <1> USE DEF EventInv
  <1>1. /\ at[t] = "free" /\ at' = [at EXCEPT ![t] = "out"]
        /\ asked' = [asked EXCEPT ![t] = <<>>] /\ signature' = [signature EXCEPT ![t] = "none"]
        /\ count' = [count EXCEPT ![t] = 0] /\ list' = [list EXCEPT ![t] = "none"]
        /\ parts' = [parts EXCEPT ![t] = Unused]
        /\ i' = [i EXCEPT ![t] = 1] /\ text' = [text EXCEPT ![t] = NoText]
        /\ UNCHANGED <<object, own, seen, cache, events, custom, size, in_use, holds, written>>
    BY DEF FreeEvent, At, heapVars, sharedVars, poolVars
  <1>2. lost' = FALSE
    <2>1. CASE list[t] = "none"
      BY <2>1 DEF FreeEvent, Left, BlockOK, SmallOK
    <2>2. CASE list[t] # "none"
      <3>1. \A p : Drop(p) # "live"
        BY DEF Drop
      <3>2. ASSUME NEW k \in 1..MaxArgs, NEW p,
                   p = IF k <= count[t] THEN Dropped(parts[t][k]) ELSE parts[t][k]
            PROVE  "live" \notin {p.type, p.class, p.text}
        <4>1. parts[t][k] \in Part /\ (parts[t][k] = Blank \/ k <= count[t])
          BY <2>2 DEF PartsOK, InList, BlockOK
        <4>2. CASE k <= count[t]
          BY <3>1, <3>2, <4>1, <4>2 DEF Dropped, Part
        <4>3. CASE ~ (k <= count[t])
          BY <3>2, <4>1, <4>3, BlankFacts
        <4> QED BY <4>2, <4>3
      <3>3. "live" \notin Left(t)
        BY <2>2, <3>1, <3>2 DEF Left
      <3> QED BY <3>3 DEF FreeEvent, SmallOK
    <2> QED BY <2>1, <2>2
  <1>3. (HeapOK /\ CacheOK /\ SmallOK)'
    BY <1>1, <1>2 DEF HeapOK, CacheOK, OneEntryPerAddress, SmallOK
  <1>4. WhereOK'
    BY <1>1, Numbers DEF WhereOK, Places, Amid
  <1>5. BlockOK'
    BY <1>1, Numbers DEF BlockOK, Pointer
  <1>6. PartsOK'
    <2>1. /\ parts' \in [Threads -> [1..MaxArgs -> Part]] /\ parts'[t] = Unused
          /\ \A u \in Threads : u # t => parts'[u] = parts[u]
      BY <1>1, BlankFacts DEF PartsOK
    <2>2. ASSUME NEW k \in 1..MaxArgs PROVE InList(t, k, parts[t][k])' /\ Said(t, k, parts[t][k])'
      BY <2>1, BlankFacts DEF InList, Said, Unused
    <2>3. ASSUME NEW u \in Threads, u # t, NEW k \in 1..MaxArgs
          PROVE InList(u, k, parts[u][k])' /\ Said(u, k, parts[u][k])'
      BY <1>1, <2>1, <2>3 DEF InList, Said, PartsOK, WhereOK
    <2>4. \A u \in Threads : at'[u] \in {"out", "capture"} => parts'[u] = Unused
      BY <1>1, <2>1 DEF PartsOK, WhereOK
    <2>5. \A u \in Threads : \A k \in 1..MaxArgs :
            InList(u, k, parts[u][k])' /\ Said(u, k, parts[u][k])'
      <3> SUFFICES ASSUME NEW u \in Threads, NEW k \in 1..MaxArgs
                   PROVE  InList(u, k, parts[u][k])' /\ Said(u, k, parts[u][k])'
        OBVIOUS
      <3>1. CASE u = t
        BY <2>2, <3>1 DEF InList, Said
      <3>2. CASE u # t
        BY <2>3, <3>2
      <3> QED BY <3>1, <3>2
    <2> QED BY <2>1, <2>4, <2>5 DEF PartsOK
  <1>7. TextOK'
    BY <1>1 DEF TextOK, Told, WhereOK
  <1>8. PoolOK'
    BY <1>1 DEF PoolOK, BuffersHaveOneOwner, Holding, WhereOK
  <1> QED BY <1>3, <1>4, <1>5, <1>6, <1>7, <1>8

-----------------------------------------------------------------------------
LEMMA EventStep == EventInv /\ [EventNext]_eventVars => EventInv'
  <1> SUFFICES ASSUME EventInv, [EventNext]_eventVars PROVE EventInv'
    OBVIOUS
  <1>1. CASE \E a \in Addresses : Become(a) /\ UNCHANGED <<custom, poolVars, lost>>
    BY <1>1, BecomeStep
  <1>2. ASSUME NEW t \in Threads, Capture(t), UNCHANGED <<custom, poolVars, lost>> PROVE EventInv'
    BY <1>2, BeginStep, PreparedStep, EndStep, ArgumentStep, LookupStep DEF Capture
  <1>3. ASSUME NEW t \in Threads, Handle(t) PROVE EventInv'
    BY <1>3, HandleStep, FreeStep DEF Handle
  <1>4. CASE UNCHANGED eventVars
    BY <1>4 DEF eventVars, captureVars, heapVars, sharedVars, blockVars, poolVars,
                EventInv, HeapOK, CacheOK, OneEntryPerAddress, SmallOK, WhereOK, BlockOK,
                PartsOK, InList, Said, TextOK, Told, PoolOK, BuffersHaveOneOwner
  <1> QED BY <1>1, <1>2, <1>3, <1>4 DEF EventNext

LEMMA EventAlways == EventSpec => []EventInv
  BY EventStart, EventStep, PTL DEF EventSpec

\* Every variable keeps to its type, whatever fails; neither the cache of
\* descriptions nor the pool of buffers outgrows its array.
THEOREM EventTypes == EventSpec => []TypeOK
  <1>1. EventInv => TypeOK
    BY DEF EventInv, HeapOK, CacheOK, SmallOK, WhereOK, BlockOK, PartsOK, TextOK, PoolOK, TypeOK, Cached
  <1> QED BY <1>1, EventAlways, PTL

\* lookup_description_for_address asks again after its lock was let go: an address
\* never has two descriptions, however many threads describe it at once.
THEOREM CacheHasNoDoubles == EventSpec => []OneEntryPerAddress
  <1>1. EventInv => OneEntryPerAddress
    BY DEF EventInv, CacheOK
  <1> QED BY <1>1, EventAlways, PTL

\* A description is one that the object has given, or the one that the cache has
\* for its address.
THEOREM DescriptionsWereTrue == EventSpec => []TextOfSomeMoment
  <1>1. EventInv => TextOfSomeMoment
    <2> SUFFICES ASSUME EventInv, NEW t \in Threads, NEW k \in DOMAIN asked[t],
                        parts[t][k].says # NoText
                 PROVE  parts[t][k].says \in Heard(own, cache, asked[t][k])
      BY DEF TextOfSomeMoment, Says
    <2>1. asked[t] \in Signatures
      <3>1. asked[t] # <<>>
        OBVIOUS
      <3> QED BY <3>1 DEF EventInv, WhereOK
    <2>2. k \in 1..MaxArgs
      BY <2>1, SignatureFacts, Numbers
    <2> QED BY <2>2 DEF EventInv, PartsOK, Said
  <1> QED BY <1>1, EventAlways, PTL

\* The lock is let go while an object is asked for its description; what the
\* cache takes in is nevertheless what the object that is there has said.
THEOREM CacheIsTold == EventSpec => CacheLearnsWhatIsSaid
  <1>1. EventInv /\ [EventNext]_eventVars => [LearnsWhatIsSaid]_eventVars
    <2> SUFFICES ASSUME EventInv, EventNext PROVE LearnsWhatIsSaid
      OBVIOUS
    <2> USE DEF EventInv
    <2>1. CASE UNCHANGED cache
      BY <2>1 DEF LearnsWhatIsSaid
    <2>2. ASSUME NEW t \in Threads, Insert(t) PROVE LearnsWhatIsSaid
      <3> DEFINE e == [address |-> Argument(t), text |-> text[t]]
      <3>1. cache' = Append(cache, e) /\ at[t] = "insert" /\ cache \in Seq(Cached)
        BY <2>2 DEF Insert, InHand, CacheOK
      <3>2. e.text \in own[e.address]
        BY <3>1 DEF TextOK, Argument
      <3> HIDE DEF e
      <3>3. /\ DOMAIN cache = 1..Len(cache) /\ DOMAIN cache' = 1..(Len(cache) + 1) /\ Len(cache) \in Nat
            /\ cache'[Len(cache) + 1] = e /\ \A k \in DOMAIN cache : cache'[k] = cache[k]
        BY <3>1
      <3> QED BY <3>2, <3>3 DEF LearnsWhatIsSaid
    <2>3. ASSUME NEW t \in Threads, Capture(t), ~ Insert(t) PROVE UNCHANGED cache
      BY <2>3 DEF Capture, Begin, SignatureRefused, OffsetsUnknown, ListRefused, ListReady, Prepare,
                  EndArguments, Skip, OnlyTyped, NoObject, Named, Encounter, DescribeValue, ValueRefused,
                  Hit, Miss, SaysNothing, ClassOnly, Describe, Known, Uncached, CopyText, LeaveText,
                  Step, sharedVars
    <2>4. ASSUME NEW t \in Threads, Handle(t) PROVE UNCHANGED cache
      BY <2>4 DEF Handle, HandOver, Format, FormatFails, Reuse, Grow, Exhausted, Fill, Send, Return,
                  FreeEvent, Take, Go, sharedVars
    <2>5. ASSUME NEW a \in Addresses, Become(a) PROVE UNCHANGED cache
      BY <2>5 DEF Become, sharedVars
    <2> QED BY <2>1, <2>2, <2>3, <2>4, <2>5 DEF EventNext
  <1> QED BY <1>1, EventAlways, PTL DEF EventSpec, CacheLearnsWhatIsSaid

\* What the arguments of an event were copied into is given back, whatever failed.
THEOREM ArgumentsAreFreed == EventSpec => []NothingLeaks
  <1>1. EventInv => NothingLeaks
    BY DEF EventInv, SmallOK, NothingLeaks
  <1> QED BY <1>1, EventAlways, PTL

\* A buffer of the pool has one owner, whose event it holds when it is sent.
THEOREM BuffersAreOwned == EventSpec => []BuffersHaveOneOwner
  <1>1. EventInv => BuffersHaveOneOwner
    BY DEF EventInv, PoolOK
  <1> QED BY <1>1, EventAlways, PTL
=============================================================================
