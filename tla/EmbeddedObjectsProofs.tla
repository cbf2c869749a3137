----------------------- MODULE EmbeddedObjectsProofs -----------------------
(***************************************************************************)
(* Embedded addresses are right as long as their objects live, for every   *)
(* heap, any number of runs at a time, and a collector that runs at any    *)
(* moment.                                                                 *)
(***************************************************************************)
EXTENDS EmbeddedObjects, TLAPS

\* a is the address of o, if o is alive.
Frozen(o, a) == Alive(o) => heap[a] = o

\* An object is in one place.
Placed ==
    /\ \A a \in Addresses : heap[a] \in used \cup {None}
    /\ \A a, b \in Addresses : heap[a] = heap[b] /\ heap[a] # None => a = b

\* The addresses in bytecodes, functions and runs.
AddressesFrozen ==
    /\ \A b \in bytecodes : b.wrapped => Frozen(b.literal, b.addr)
    /\ \A m \in methods : Frozen(m.literal, m.addr)
    /\ \A r \in Activations : run[r] # Idle => Frozen(run[r].literal, run[r].addr)

\* A run of a literal that stands in its bytecode keeps it.
Rooted == \A r \in Activations : run[r].by = "call" => run[r].root = run[r].literal

MarkedAlive == \A o \in Marked : o # None => Alive(o)

\* The inductive invariant.
Sound ==
    /\ TypeOK /\ Placed /\ AddressesFrozen /\ Rooted /\ MarkedAlive
    /\ PushedStays /\ CallPushesLiteral

LEMMA IdleFields ==
    /\ Idle.phase = "idle" /\ Idle.by = "nobody" /\ Idle.root = None
    /\ Idle.literal = None /\ Idle.pushed = None
  BY DEF Idle

LEMMA RunningFields ==
    ASSUME NEW by, NEW root, NEW m
    PROVE  /\ Running(by, root, m).phase = "running" /\ Running(by, root, m).by = by
           /\ Running(by, root, m).root = root /\ Running(by, root, m).pushed = None
           /\ Running(by, root, m).literal = m.literal /\ Running(by, root, m).addr = m.addr
  BY DEF Running

LEMMA InitSound == Init => Sound
  BY NoneAssumption, IdleFields
  DEF Init, Sound, TypeOK, Placed, AddressesFrozen, Rooted, MarkedAlive, PushedStays, CallPushesLiteral,
      Marked, Alive, Frozen, Kept

\* The collector leaves every marked object, and every object it leaves, in
\* its place.
LEMMA GcSound == Sound /\ gc => Sound'
<1> SUFFICES ASSUME Sound, gc PROVE Sound'
  OBVIOUS
<1>1. PICK freed \in SUBSET { a \in Addresses : heap[a] \notin Marked } :
          heap' = [ a \in Addresses |-> IF a \in freed THEN None ELSE heap[a] ]
  BY DEF gc
<1>2. \A a \in Addresses : heap'[a] = heap[a] \/ (heap'[a] = None /\ heap[a] \notin Marked)
  BY <1>1
<1>3. UNCHANGED <<used, held, bytecodes, methods, run>>
  BY DEF gc
<1>4. \A o : o # None /\ Alive(o)' => Alive(o)
  BY <1>2 DEF Alive
<1>5. \A o \in Marked : o # None /\ Alive(o) => Alive(o)'
  BY <1>2 DEF Alive
<1>6. \A a \in Addresses, o \in used : Frozen(o, a) => Frozen(o, a)'
  <2> SUFFICES ASSUME NEW a \in Addresses, NEW o \in used, Frozen(o, a), Alive(o)' PROVE heap'[a] = o
    BY DEF Frozen
  <2>1. o # None
    BY NoneAssumption DEF Sound, TypeOK
  <2>2. PICK b \in Addresses : heap'[b] = o
    BY DEF Alive
  <2>3. heap[b] = o /\ heap[a] = o
    BY <1>2, <2>1, <2>2 DEF Frozen, Alive
  <2> QED  BY <2>1, <2>2, <2>3 DEF Sound, Placed
<1>7. TypeOK'
  BY <1>1, <1>3 DEF Sound, TypeOK
<1>8. Placed'
  BY <1>2, <1>3 DEF Sound, Placed
<1>9. AddressesFrozen'
  BY <1>3, <1>6 DEF Sound, TypeOK, AddressesFrozen
<1>10. Rooted' /\ CallPushesLiteral'
  BY <1>3 DEF Sound, Rooted, CallPushesLiteral
<1>11. \A r \in Activations : run[r].phase = "pushed" =>
           heap'[run[r].addr] = heap[run[r].addr]
  BY <1>2, IdleFields DEF Sound, TypeOK, Marked
<1>12. PushedStays'
  BY <1>3, <1>11 DEF Sound, PushedStays
<1>13. Marked' = Marked
  BY <1>3, <1>11 DEF Marked
<1>14. MarkedAlive'
  BY <1>5, <1>13 DEF Sound, MarkedAlive
<1> QED  BY <1>7, <1>8, <1>9, <1>10, <1>12, <1>14 DEF Sound

\* A new object comes to a free place, and nothing marked was there.
LEMMA AllocateSound == ASSUME Sound, NEW o \in Objects, allocate(o) PROVE Sound'
<1>1. PICK a \in Addresses : heap[a] = None /\ heap' = [heap EXCEPT ![a] = o]
  BY DEF allocate
<1>2. /\ o \notin used /\ used' = used \cup {o} /\ held' = held \cup {o}
      /\ UNCHANGED <<bytecodes, methods, run>>
  BY DEF allocate
<1>3. heap \in [Addresses -> Objects \cup {None}] /\ o # None
  BY NoneAssumption DEF Sound, TypeOK
<1>4. \A b \in Addresses : heap'[b] = IF b = a THEN o ELSE heap[b]
  BY <1>1, <1>3
<1>5. \A b \in Addresses : heap[b] # o
  BY <1>2, <1>3 DEF Sound, Placed
<1>6. \A x : x # None => (Alive(x)' <=> x = o \/ Alive(x))
  BY <1>1, <1>4 DEF Alive
<1>7. \A b \in Addresses, x \in used : Frozen(x, b) => Frozen(x, b)'
  <2> SUFFICES ASSUME NEW b \in Addresses, NEW x \in used, Frozen(x, b), Alive(x)' PROVE heap'[b] = x
    BY DEF Frozen
  <2>1. x # o /\ x # None
    BY <1>2, NoneAssumption DEF Sound, TypeOK
  <2>2. heap[b] = x
    BY <1>6, <2>1 DEF Frozen
  <2> QED  BY <1>1, <1>4, <2>1, <2>2
<1>8. TypeOK'
  <2>1. heap' \in [Addresses -> Objects \cup {None}]
    BY <1>1, <1>3
  <2>2. used' \subseteq Objects /\ held' \subseteq used'
    BY <1>2 DEF Sound, TypeOK
  <2>3. /\ bytecodes' \subseteq [literal : used', wrapped : BOOLEAN, addr : Addresses \cup {None}]
        /\ methods' \subseteq [literal : used', addr : Addresses]
    BY <1>2 DEF Sound, TypeOK
  <2>4. run' \in [Activations -> {Idle} \cup
                    [ phase : {"running", "pushed"}, by : {"call", "callImmediate", "send"},
                      root : used' \cup {None}, literal : used', addr : Addresses,
                      pushed : used' \cup {None} ]]
    BY <1>2 DEF Sound, TypeOK
  <2> QED  BY <1>2, <2>1, <2>2, <2>3, <2>4 DEF Sound, TypeOK
<1>9. Placed'
  BY <1>2, <1>4, <1>5 DEF Sound, Placed
<1>10. AddressesFrozen'
  BY <1>2, <1>7 DEF Sound, TypeOK, AddressesFrozen
<1>11. Rooted' /\ CallPushesLiteral'
  BY <1>2 DEF Sound, Rooted, CallPushesLiteral
<1>12. PushedStays'
  BY <1>1, <1>2, <1>4, IdleFields DEF Sound, TypeOK, PushedStays
<1>13. \A r \in Activations : run[r].phase = "pushed" => run[r].addr \in Addresses
  BY IdleFields DEF Sound, TypeOK
<1>14. \A x \in Marked' : x \in Marked \cup {o}
  BY <1>2, <1>4, <1>13 DEF Marked
<1>15. MarkedAlive'
  BY <1>6, <1>14 DEF Sound, MarkedAlive
<1> QED  BY <1>8, <1>9, <1>10, <1>11, <1>12, <1>15 DEF Sound

\* What the client does with what it has: the heap stays.
LEMMA ClientSound ==
    ASSUME Sound,
           \/ \E o \in held : drop(o)
           \/ \E o \in held, wrapped \in BOOLEAN : write(o, wrapped)
           \/ \E b \in bytecodes : discard(b)
    PROVE  Sound'
<1>1. UNCHANGED <<heap, used, methods, run>>
  BY DEF drop, write, discard
<1>2. \A o : Alive(o)' <=> Alive(o)
  BY <1>1 DEF Alive
<1>3. \A o \in held : Alive(o) /\ o \in used /\ AddressOf(o) \in Addresses /\ heap[AddressOf(o)] = o
  BY NoneAssumption DEF Sound, TypeOK, MarkedAlive, Marked, Alive, AddressOf
<1>4. held' \subseteq held
  BY DEF drop, write, discard
<1>5. \A b \in bytecodes' :
          \/ b \in bytecodes
          \/ \E o \in held : b = Bytecode(o, TRUE, AddressOf(o)) \/ b = Bytecode(o, FALSE, None)
  BY DEF drop, write, discard
<1>6. \A b \in bytecodes' :
          /\ b \in [literal : used, wrapped : BOOLEAN, addr : Addresses \cup {None}]
          /\ b.wrapped => b.addr \in Addresses /\ Frozen(b.literal, b.addr)
          /\ b \in bytecodes \/ Kept(b) \in held \cup {None}
  <2> SUFFICES ASSUME NEW b \in bytecodes'
               PROVE  /\ b \in [literal : used, wrapped : BOOLEAN, addr : Addresses \cup {None}]
                      /\ b.wrapped => b.addr \in Addresses /\ Frozen(b.literal, b.addr)
                      /\ b \in bytecodes \/ Kept(b) \in held \cup {None}
    OBVIOUS
  <2>1. CASE b \in bytecodes
    BY <2>1 DEF Sound, TypeOK, AddressesFrozen
  <2>2. CASE \E o \in held : b = Bytecode(o, TRUE, AddressOf(o))
    <3>1. PICK o \in held : b = Bytecode(o, TRUE, AddressOf(o))
      BY <2>2
    <3>2. b.literal = o /\ b.wrapped = TRUE /\ b.addr = AddressOf(o)
      BY <3>1 DEF Bytecode
    <3>3. b \in [literal : used, wrapped : BOOLEAN, addr : Addresses \cup {None}]
      BY <3>1, <1>3 DEF Bytecode
    <3> QED  BY <3>2, <3>3, <1>3 DEF Frozen, Kept
  <2>3. CASE \E o \in held : b = Bytecode(o, FALSE, None)
    <3>1. PICK o \in held : b = Bytecode(o, FALSE, None)
      BY <2>3
    <3>2. b.literal = o /\ b.wrapped = FALSE
      BY <3>1 DEF Bytecode
    <3>3. b \in [literal : used, wrapped : BOOLEAN, addr : Addresses \cup {None}]
      BY <3>1, <1>3 DEF Bytecode
    <3> QED  BY <3>1, <3>2, <3>3 DEF Kept
  <2> QED  BY <1>5, <2>1, <2>2, <2>3
<1>7. TypeOK' /\ Placed' /\ Rooted' /\ PushedStays' /\ CallPushesLiteral'
  BY <1>1, <1>4, <1>6 DEF Sound, TypeOK, Placed, Rooted, PushedStays, CallPushesLiteral
<1>8. AddressesFrozen'
  BY <1>1, <1>2, <1>6 DEF Sound, AddressesFrozen, Frozen
<1>9. Marked' \subseteq Marked \cup {None}
  BY <1>1, <1>4, <1>6 DEF Marked
<1>10. MarkedAlive'
  BY <1>2, <1>9 DEF Sound, MarkedAlive
<1> QED  BY <1>7, <1>8, <1>10 DEF Sound

\* The address that compile_bytecode embeds is that of the literal.
LEMMA Embedded ==
    ASSUME Sound, NEW b \in bytecodes
    PROVE  /\ putobject(b) \in [literal : used, addr : Addresses]
           /\ putobject(b).literal = b.literal
           /\ Frozen(putobject(b).literal, putobject(b).addr)
<1>1. b \in [literal : used, wrapped : BOOLEAN, addr : Addresses \cup {None}]
  BY DEF Sound, TypeOK
<1>2. CASE b.wrapped
  BY <1>1, <1>2 DEF Sound, TypeOK, AddressesFrozen, putobject, Method, Frozen
<1>3. CASE ~b.wrapped
  <2>1. b.literal \in Marked /\ b.literal # None
    BY <1>1, <1>3, NoneAssumption DEF Sound, TypeOK, Marked, Kept
  <2>2. AddressOf(b.literal) \in Addresses /\ heap[AddressOf(b.literal)] = b.literal
    BY <2>1 DEF Sound, MarkedAlive, Alive, AddressOf
  <2> QED  BY <1>1, <1>3, <2>2 DEF putobject, Method, Frozen
<1> QED  BY <1>2, <1>3

LEMMA CompileSound == ASSUME Sound, NEW b \in bytecodes, compile_bytecode(b) PROVE Sound'
<1>1. UNCHANGED <<heap, used, held, bytecodes, run>> /\ methods' = methods \cup {putobject(b)}
  BY DEF compile_bytecode
<1>2. \A o : Alive(o)' <=> Alive(o)
  BY <1>1 DEF Alive
<1>3. TypeOK' /\ Placed' /\ Rooted' /\ PushedStays' /\ CallPushesLiteral'
  BY <1>1, Embedded DEF Sound, TypeOK, Placed, Rooted, PushedStays, CallPushesLiteral
<1>4. AddressesFrozen'
  BY <1>1, <1>2, Embedded DEF Sound, AddressesFrozen, Frozen
<1>5. MarkedAlive'
  BY <1>1, <1>2 DEF Sound, MarkedAlive, Marked
<1> QED  BY <1>3, <1>4, <1>5 DEF Sound

\* A run that starts with a right address, and with a root that is alive.
LEMMA StartSound ==
    ASSUME Sound, NEW r \in Activations, run[r] = Idle,
           NEW by \in {"call", "callImmediate", "send"}, NEW root \in used \cup {None},
           NEW m \in [literal : used, addr : Addresses], Frozen(m.literal, m.addr),
           root # None => Alive(root), by = "call" => root = m.literal,
           run' = [run EXCEPT ![r] = Running(by, root, m)],
           methods' = methods \cup {m}, UNCHANGED <<heap, used, held, bytecodes>>
    PROVE  Sound'
<1>1. \A o : Alive(o)' <=> Alive(o)
  BY DEF Alive
<1>2. \A q \in Activations : run'[q] = IF q = r THEN Running(by, root, m) ELSE run[q]
  BY DEF Sound, TypeOK
<1>3. Running(by, root, m) \in
          [ phase : {"running", "pushed"}, by : {"call", "callImmediate", "send"},
            root : used \cup {None}, literal : used, addr : Addresses, pushed : used \cup {None} ]
  BY DEF Running
<1>4. TypeOK'
  BY <1>2, <1>3 DEF Sound, TypeOK
<1>5. Placed' /\ Rooted' /\ PushedStays' /\ CallPushesLiteral'
  BY <1>2, RunningFields DEF Sound, Placed, Rooted, PushedStays, CallPushesLiteral
<1>6. AddressesFrozen'
  BY <1>1, <1>2, RunningFields DEF Sound, AddressesFrozen, Frozen
<1>7. \A o \in Marked' : o \in Marked \cup {root}
  BY <1>2, RunningFields DEF Marked
<1>8. MarkedAlive'
  BY <1>1, <1>7 DEF Sound, MarkedAlive
<1> QED  BY <1>4, <1>5, <1>6, <1>8 DEF Sound

LEMMA CallSound ==
    ASSUME Sound, NEW r \in Activations, NEW b \in bytecodes, call_bytecode(r, b) PROVE Sound'
<1>1. Kept(b) \in used \cup {None} /\ (Kept(b) # None => Alive(Kept(b)))
  BY DEF Sound, TypeOK, Kept, MarkedAlive, Marked
<1>2. Caller(b) = "call" => Kept(b) = putobject(b).literal
  BY Embedded DEF Caller, Kept
<1> QED  BY <1>1, <1>2, Embedded, StartSound DEF call_bytecode, Caller

LEMMA SendSound ==
    ASSUME Sound, NEW r \in Activations, NEW m \in methods, method_send(r, m) PROVE Sound'
<1>1. m \in [literal : used, addr : Addresses] /\ Frozen(m.literal, m.addr)
  BY DEF Sound, TypeOK, AddressesFrozen
<1>2. methods' = methods \cup {m}
  BY DEF method_send
<1> QED  BY <1>1, <1>2, StartSound DEF method_send

\* What is pushed is what is at the address: the literal, if that is alive.
LEMMA PushSound == ASSUME Sound, NEW r \in Activations, push(r) PROVE Sound'
<1> DEFINE new == [run[r] EXCEPT !.phase = "pushed", !.pushed = heap[run[r].addr]]
<1>1. UNCHANGED <<heap, used, held, bytecodes, methods>>
  BY DEF push
<1>2. run[r].phase = "running" /\ run[r] # Idle
  BY IdleFields DEF push
<1>3. run[r] \in [ phase : {"running", "pushed"}, by : {"call", "callImmediate", "send"},
                   root : used \cup {None}, literal : used, addr : Addresses, pushed : used \cup {None} ]
  BY <1>2 DEF Sound, TypeOK
<1>4. \A q \in Activations : run'[q] = IF q = r THEN new ELSE run[q]
  BY DEF push, Sound, TypeOK
<1>5. heap[run[r].addr] \in used \cup {None}
  BY <1>3 DEF Sound, Placed
<1>6. /\ new.phase = "pushed" /\ new.pushed = heap[run[r].addr] /\ new.by = run[r].by
      /\ new.root = run[r].root /\ new.literal = run[r].literal /\ new.addr = run[r].addr
      /\ new \in [ phase : {"running", "pushed"}, by : {"call", "callImmediate", "send"},
                   root : used \cup {None}, literal : used, addr : Addresses, pushed : used \cup {None} ]
  BY <1>3, <1>5
<1> HIDE DEF new
<1>7. \A o : Alive(o)' <=> Alive(o)
  BY <1>1 DEF Alive
<1>8. TypeOK'
  <2>1. run' \in [Activations -> {Idle} \cup
                    [ phase : {"running", "pushed"}, by : {"call", "callImmediate", "send"},
                      root : used \cup {None}, literal : used, addr : Addresses,
                      pushed : used \cup {None} ]]
    BY <1>4, <1>6 DEF push, Sound, TypeOK
  <2> QED  BY <1>1, <2>1 DEF Sound, TypeOK
<1>9. Placed' /\ Rooted' /\ PushedStays'
  BY <1>1, <1>4, <1>6 DEF Sound, Placed, Rooted, PushedStays
<1>10. AddressesFrozen'
  BY <1>1, <1>2, <1>4, <1>6, <1>7 DEF Sound, AddressesFrozen, Frozen
<1>11. run[r].by = "call" => heap[run[r].addr] = run[r].literal
  <2> SUFFICES ASSUME run[r].by = "call" PROVE heap[run[r].addr] = run[r].literal
    OBVIOUS
  <2>1. run[r].literal \in Marked /\ run[r].literal # None
    BY <1>3, NoneAssumption DEF Sound, TypeOK, Rooted, Marked
  <2> QED  BY <1>2, <2>1 DEF Sound, MarkedAlive, AddressesFrozen, Frozen
<1>12. CallPushesLiteral'
  BY <1>4, <1>6, <1>11 DEF Sound, CallPushesLiteral
<1>13. \A o \in Marked' : o \in Marked \cup {heap[run[r].addr]}
  BY <1>1, <1>4, <1>6 DEF Marked
<1>14. MarkedAlive'
  BY <1>3, <1>7, <1>13 DEF Sound, MarkedAlive, Alive
<1> QED  BY <1>8, <1>9, <1>10, <1>12, <1>14 DEF Sound

LEMMA ReturnSound == ASSUME Sound, NEW r \in Activations, return(r) PROVE Sound'
<1>1. /\ UNCHANGED <<heap, used, bytecodes, methods>> /\ run[r].phase = "pushed"
      /\ held' = held \cup ({heap[run[r].addr]} \ {None})
  BY DEF return
<1>2. \A q \in Activations : run'[q] = IF q = r THEN Idle ELSE run[q]
  BY DEF return, Sound, TypeOK
<1>3. \A o : Alive(o)' <=> Alive(o)
  BY <1>1 DEF Alive
<1>4. run[r].addr \in Addresses
  BY <1>1, IdleFields DEF Sound, TypeOK
<1>5. heap[run[r].addr] \in Marked /\ heap[run[r].addr] \in used \cup {None}
  BY <1>1, <1>4 DEF Sound, Marked, Placed
<1>6. TypeOK'
  BY <1>1, <1>2, <1>5 DEF return, Sound, TypeOK
<1>7. Placed' /\ Rooted' /\ PushedStays' /\ CallPushesLiteral'
  BY <1>1, <1>2, IdleFields DEF Sound, Placed, Rooted, PushedStays, CallPushesLiteral
<1>8. AddressesFrozen'
  BY <1>1, <1>2, <1>3 DEF Sound, AddressesFrozen, Frozen
<1>9. \A o \in Marked' : o \in Marked \cup {None}
  BY <1>1, <1>2, <1>5, IdleFields DEF Marked
<1>10. MarkedAlive'
  BY <1>3, <1>9 DEF Sound, MarkedAlive
<1> QED  BY <1>6, <1>7, <1>8, <1>10 DEF Sound

LEMMA SoundInductive == Spec => []Sound
<1>1. Sound /\ [Next]_vars => Sound'
  <2> SUFFICES ASSUME Sound, [Next]_vars PROVE Sound'
    OBVIOUS
  <2>1. CASE UNCHANGED vars
    BY <2>1 DEF vars, Sound, TypeOK, Placed, AddressesFrozen, Rooted, MarkedAlive, PushedStays,
       CallPushesLiteral, Frozen, Alive, Marked
  <2>2. CASE Next
    BY <2>2, GcSound, AllocateSound, ClientSound, CompileSound, CallSound, SendSound, PushSound,
       ReturnSound DEF Next
  <2> QED  BY <2>1, <2>2
<1> QED  BY <1>1, InitSound, PTL DEF Spec

-----------------------------------------------------------------------------
\* For every heap and any number of runs, the state stays well-typed.
THEOREM ObjectsTyped == Spec => []TypeOK
<1>1. Sound => TypeOK
  BY DEF Sound
<1> QED  BY <1>1, SoundInductive, PTL

\* call_bytecode of a bytecode that has its literal pushes that literal.
THEOREM CallSafe == Spec => []CallPushesLiteral
<1>1. Sound => CallPushesLiteral
  BY DEF Sound
<1> QED  BY <1>1, SoundInductive, PTL

\* What has been pushed is not collected before the run returns.
THEOREM StackSafe == Spec => []PushedStays
<1>1. Sound => PushedStays
  BY DEF Sound
<1> QED  BY <1>1, SoundInductive, PTL

\* A method pushes its literal whenever the literal is still reachable: the
\* address in the code belongs to no other object as long as that lives.
THEOREM ReachableRight == Spec => ReachableIsPushed
<1>1. ASSUME Sound, NEW r \in Activations, push(r), run[r].literal \in Marked
      PROVE  run'[r].pushed = run[r].literal
  <2>1. run[r] # Idle /\ run[r].literal # None
    BY <1>1, IdleFields, NoneAssumption DEF push, Sound, TypeOK
  <2>2. heap[run[r].addr] = run[r].literal
    BY <1>1, <2>1 DEF Sound, MarkedAlive, AddressesFrozen, Frozen
  <2>3. run'[r].pushed = heap[run[r].addr]
    BY <1>1, <2>1 DEF push, Sound, TypeOK
  <2> QED  BY <2>2, <2>3
<1>2. Sound => [ \A r \in Activations :
                   push(r) /\ run[r].literal \in Marked => run'[r].pushed = run[r].literal ]_vars
  BY <1>1
<1> QED  BY <1>2, SoundInductive, PTL DEF ReachableIsPushed
=============================================================================
