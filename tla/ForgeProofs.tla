----------------------------- MODULE ForgeProofs -----------------------------
(***************************************************************************)
(* The properties of Forge, for every value of its constants.  A machine   *)
(* whose part it is not stands still, so that every invariant holds of     *)
(* every part, and whatever bounds the parts have.                         *)
(***************************************************************************)
EXTENDS Forge, Sequences, FiniteSetTheorems, SequenceTheorems, TLAPS

--------------------------------------------------------------------------
(* ForgePool: no two callers hold one connection, and what they hold is in *)
(* use and, until the shutdown, connected.  A waiter may look at an array  *)
(* the sweep replaced: what is free in it was in use when the sweep came,  *)
(* or the sweep would have come before the waiter's next look.             *)

PoolEntry == [inUse : BOOLEAN, idle : BOOLEAN, connected : BOOLEAN]
Borrower ==
  [pc : {"idle", "creating", "waiting", "holding"}, array : Nat, client : Clients \cup {None}]

PoolTyped ==
  /\ down \in BOOLEAN
  /\ \E n \in 1..(MaxSweeps + 2) :
       arrays \in [1..n -> SUBSET Clients] /\ (~down => n <= MaxSweeps + 1)
  /\ entry \in [Clients -> PoolEntry]
  /\ borrower \in [Callers -> Borrower]

PoolHeld ==
  /\ \A c \in Callers :
       /\ borrower[c].pc = "holding" <=> borrower[c].client # None
       /\ borrower[c].client # None => entry[borrower[c].client].inUse
       /\ borrower[c].pc \in {"creating", "waiting"} => borrower[c].array \in DOMAIN arrays
  /\ \A c, d \in Callers :
       c # d /\ borrower[c].client # None => borrower[c].client # borrower[d].client
  /\ \A x \in Clients : entry[x].inUse => ~entry[x].idle

PoolConnected ==
  ~down => /\ \A x \in arrays[Pool!Current] : entry[x].connected
           /\ \A c \in Callers : borrower[c].client # None => entry[borrower[c].client].connected
           /\ \A c \in Callers : borrower[c].pc = "waiting" =>
                \A x \in arrays[borrower[c].array] :
                  ~entry[x].inUse => entry[x].connected /\ ~entry[x].idle

PoolInv == PoolTyped /\ PoolHeld /\ PoolConnected

\* The current array is the last one.
LEMMA LastArray ==
  ASSUME NEW n \in Nat, arrays \in [1..n -> SUBSET Clients]
  PROVE  Pool!Current = n
<1>1. DOMAIN arrays = 1..n
  OBVIOUS
<1>2. Pool!Current = Cardinality(1..n)
  BY <1>1, Zenon DEF Pool!Current, Pool!Cardinality, Cardinality
<1>3. Cardinality(1..n) = n
  BY FS_Interval
<1>4. QED BY <1>2, <1>3

LEMMA PoolInitial == Init => PoolInv
<1> SUFFICES ASSUME Init PROVE PoolInv
  OBVIOUS
<1>1. /\ arrays = [i \in {1} |-> {}] /\ entry = [x \in Clients |-> Pool!NoEntry]
      /\ borrower = [c \in Callers |-> Pool!Idle] /\ down = FALSE
  BY DEF Init, Pool!Init
<1>2. arrays \in [1..1 -> SUBSET Clients] /\ MaxSweeps \in Nat
  BY <1>1, ForgeAssumption DEF Pool!PoolAssumption
<1>3. Pool!Current = 1
  BY <1>2, LastArray
<1>4. PoolTyped
  <2>1. down \in BOOLEAN
    BY <1>1
  <2>2. 1 \in 1..(MaxSweeps + 2) /\ 1 <= MaxSweeps + 1
    BY <1>2
  <2>3. entry \in [Clients -> PoolEntry] /\ borrower \in [Callers -> Borrower]
    BY <1>1 DEF Pool!NoEntry, Pool!Idle, PoolEntry, Borrower
  <2>4. QED BY <1>2, <2>1, <2>2, <2>3 DEF PoolTyped
<1>5. PoolHeld
  BY <1>1 DEF PoolHeld, Pool!NoEntry, Pool!Idle
<1>6. PoolConnected
  BY <1>1, <1>3 DEF PoolConnected, Pool!NoEntry, Pool!Idle
<1>7. QED BY <1>4, <1>5, <1>6 DEF PoolInv

\* A caller gets hold of an entry that is free, of the current array or of the
\* one it waits at.
LEMMA TakesFree ==
  ASSUME PoolInv, NEW c \in Callers, borrower[c].client = None,
         NEW x \in Clients, ~entry[x].inUse, ~down => entry[x].connected,
         entry' = Pool!Used(x),
         borrower' = [borrower EXCEPT ![c] = [pc |-> "holding", array |-> 0, client |-> x]],
         UNCHANGED <<arrays, down>>
  PROVE  PoolInv'
<1>0. None \notin Clients
  BY ForgeAssumption DEF Pool!PoolAssumption
<1>1. /\ entry' \in [Clients -> PoolEntry] /\ entry'[x].inUse = TRUE /\ entry'[x].idle = FALSE
      /\ entry'[x].connected = entry[x].connected
      /\ \A y \in Clients : y # x => entry'[y] = entry[y]
  BY DEF PoolInv, PoolTyped, PoolEntry, Pool!Used
<1>2. /\ borrower' \in [Callers -> Borrower]
      /\ borrower'[c] = [pc |-> "holding", array |-> 0, client |-> x]
      /\ \A d \in Callers : d # c => borrower'[d] = borrower[d]
  BY DEF PoolInv, PoolTyped, Borrower
<1>3. \A d \in Callers : borrower[d].client # x
  BY <1>0 DEF PoolInv, PoolHeld
<1>4. PoolTyped'
  BY <1>1, <1>2 DEF PoolInv, PoolTyped
<1>5. \A d \in Callers : borrower[d].client \in Clients \cup {None}
  BY DEF PoolInv, PoolTyped, Borrower
<1>6. PoolHeld'
  BY <1>0, <1>1, <1>2, <1>3, <1>5 DEF PoolInv, PoolHeld
<1>7. PoolConnected'
  <2>1. Pool!Current' = Pool!Current
    BY DEF Pool!Current
  <2>2. \A i \in DOMAIN arrays : arrays[i] \subseteq Clients
    BY DEF PoolInv, PoolTyped
  <2>3. PICK n \in 1..(MaxSweeps + 2) : arrays \in [1..n -> SUBSET Clients]
    BY DEF PoolInv, PoolTyped
  <2>4. Pool!Current \in DOMAIN arrays
    BY <2>3, LastArray
  <2>5. QED BY <1>1, <1>2, <1>3, <1>5, <2>1, <2>2, <2>4 DEF PoolInv, PoolHeld, PoolConnected
<1>8. QED BY <1>4, <1>6, <1>7 DEF PoolInv

\* A caller that creates, waits or has nothing: only it changes.
LEMMA CallerMoves ==
  ASSUME PoolInv, NEW c \in Callers, NEW pc \in {"idle", "creating", "waiting"},
         NEW i \in Nat, pc # "idle" => i \in DOMAIN arrays,
         pc = "waiting" => Pool!Free(i) = {},
         borrower' = [borrower EXCEPT ![c] = [pc |-> pc, array |-> i, client |-> None]],
         UNCHANGED <<arrays, entry, down>>
  PROVE  PoolInv'
<1>1. /\ borrower' \in [Callers -> Borrower]
      /\ borrower'[c] = [pc |-> pc, array |-> i, client |-> None]
      /\ \A d \in Callers : d # c => borrower'[d] = borrower[d]
  BY DEF PoolInv, PoolTyped, Borrower
<1>2. PoolTyped'
  BY <1>1 DEF PoolInv, PoolTyped
<1>3. PoolHeld'
  BY <1>1 DEF PoolInv, PoolHeld
<1>4. Pool!Current' = Pool!Current
  BY DEF Pool!Current
<1>5. PoolConnected'
  BY <1>1, <1>4 DEF PoolInv, PoolConnected, Pool!Free
<1>6. QED BY <1>2, <1>3, <1>5 DEF PoolInv

\* The array in use is one of the arrays.
LEMMA CurrentArray ==
  ASSUME PoolInv
  PROVE  /\ Pool!Current \in DOMAIN arrays /\ Pool!Current \in Nat
         /\ DOMAIN arrays = 1..Pool!Current
         /\ Pool!Current \in 1..(MaxSweeps + 2) /\ (~down => Pool!Current <= MaxSweeps + 1)
         /\ arrays \in [1..Pool!Current -> SUBSET Clients]
         /\ MaxSweeps \in Nat
<1>1. MaxSweeps \in Nat
  BY ForgeAssumption DEF Pool!PoolAssumption
<1>2. PICK n \in 1..(MaxSweeps + 2) :
         arrays \in [1..n -> SUBSET Clients] /\ (~down => n <= MaxSweeps + 1)
  BY DEF PoolInv, PoolTyped
<1>3. Pool!Current = n
  BY <1>1, <1>2, LastArray
<1>4. QED BY <1>1, <1>2, <1>3

LEMMA AcquireKeeps ==
  ASSUME PoolInv, NEW c \in Callers, Pool!Acquire(c) PROVE PoolInv'
<1>1. borrower[c].client = None /\ UNCHANGED <<arrays, down>>
  BY DEF Pool!Acquire, Pool!Idle
<1>2. CASE Pool!Free(Pool!Current) # {}
  <2>1. PICK x \in Pool!Free(Pool!Current) :
          /\ entry' = Pool!Used(x)
          /\ borrower' = [borrower EXCEPT ![c] = [pc |-> "holding", array |-> 0, client |-> x]]
    BY <1>2 DEF Pool!Acquire
  <2>2. x \in Clients /\ ~entry[x].inUse /\ (~down => entry[x].connected)
    BY CurrentArray DEF Pool!Free, PoolInv, PoolConnected
  <2>3. QED BY <1>1, <2>1, <2>2, TakesFree
<1>3. CASE Pool!Free(Pool!Current) = {}
  <2>1. PICK pc \in {"creating", "waiting"} :
          borrower' = [borrower EXCEPT ![c] = [pc |-> pc, array |-> Pool!Current, client |-> None]]
    BY <1>3 DEF Pool!Acquire
  <2>2. UNCHANGED entry
    BY <1>3 DEF Pool!Acquire
  <2>3. Pool!Current \in Nat /\ Pool!Current \in DOMAIN arrays
    BY CurrentArray
  <2>4. QED BY <1>1, <1>3, <2>1, <2>2, <2>3, CallerMoves
<1>4. QED BY <1>2, <1>3

LEMMA CreatedKeeps ==
  ASSUME PoolInv, NEW c \in Callers, Pool!Created(c) PROVE PoolInv'
<1>1. borrower[c].pc = "creating" /\ borrower[c].client = None /\ UNCHANGED down
  BY DEF Pool!Created, PoolInv, PoolHeld
<1>2. ASSUME NEW x \in Pool!Fresh,
             entry' = [entry EXCEPT ![x] = [inUse |-> TRUE, idle |-> FALSE, connected |-> TRUE]],
             arrays' = [arrays EXCEPT ![borrower[c].array] = @ \cup {x}],
             borrower' = [borrower EXCEPT ![c] = [pc |-> "holding", array |-> 0, client |-> x]]
      PROVE  PoolInv'
  <2>0. None \notin Clients
    BY ForgeAssumption DEF Pool!PoolAssumption
  <2>1. x \in Clients /\ ~entry[x].inUse /\ \A i \in DOMAIN arrays : x \notin arrays[i]
    BY <1>2 DEF Pool!Fresh, Pool!NoEntry
  <2>2. /\ entry' \in [Clients -> PoolEntry]
        /\ entry'[x] = [inUse |-> TRUE, idle |-> FALSE, connected |-> TRUE]
        /\ \A y \in Clients : y # x => entry'[y] = entry[y]
    BY <1>2, <2>1 DEF PoolInv, PoolTyped, PoolEntry
  <2>3. /\ borrower' \in [Callers -> Borrower]
        /\ borrower'[c] = [pc |-> "holding", array |-> 0, client |-> x]
        /\ \A d \in Callers : d # c => borrower'[d] = borrower[d]
    BY <1>2, <2>1 DEF PoolInv, PoolTyped, Borrower
  <2>4. \A d \in Callers : borrower[d].client # x /\ borrower[d].client \in Clients \cup {None}
    BY <2>0, <2>1 DEF PoolInv, PoolHeld, PoolTyped, Borrower
  <2>5. /\ arrays' \in [1..Pool!Current -> SUBSET Clients]
        /\ \A i \in 1..Pool!Current : arrays'[i] \subseteq arrays[i] \cup {x}
        /\ DOMAIN arrays' = 1..Pool!Current /\ DOMAIN arrays = 1..Pool!Current
    BY <1>2, <2>1, CurrentArray
  <2>6. Pool!Current' = Pool!Current
    BY <2>5 DEF Pool!Current
  <2>7. PoolTyped'
    <3>1. \E n \in 1..(MaxSweeps + 2) :
            arrays' \in [1..n -> SUBSET Clients] /\ (~down' => n <= MaxSweeps + 1)
      BY <1>1, <2>5, CurrentArray
    <3>2. QED BY <1>1, <2>2, <2>3, <3>1 DEF PoolInv, PoolTyped
  <2>8. PoolHeld'
    <3>1. \A d \in Callers :
            /\ borrower'[d].pc = "holding" <=> borrower'[d].client # None
            /\ borrower'[d].client # None => entry'[borrower'[d].client].inUse
            /\ borrower'[d].pc \in {"creating", "waiting"} => borrower'[d].array \in DOMAIN arrays'
      <4> SUFFICES ASSUME NEW d \in Callers
                   PROVE  /\ borrower'[d].pc = "holding" <=> borrower'[d].client # None
                          /\ borrower'[d].client # None => entry'[borrower'[d].client].inUse
                          /\ borrower'[d].pc \in {"creating", "waiting"}
                               => borrower'[d].array \in DOMAIN arrays'
        OBVIOUS
      <4>1. CASE d = c
        BY <2>0, <2>1, <2>2, <2>3, <4>1
      <4>2. CASE d # c
        BY <2>2, <2>3, <2>4, <2>5, <4>2 DEF PoolInv, PoolHeld
      <4>3. QED BY <4>1, <4>2
    <3>2. \A d, e \in Callers :
            d # e /\ borrower'[d].client # None => borrower'[d].client # borrower'[e].client
      BY <2>3, <2>4 DEF PoolInv, PoolHeld
    <3>3. \A y \in Clients : entry'[y].inUse => ~entry'[y].idle
      BY <2>2 DEF PoolInv, PoolHeld
    <3>4. QED BY <3>1, <3>2, <3>3 DEF PoolHeld
  <2>9. PoolConnected'
    <3> SUFFICES ASSUME ~down
                 PROVE  /\ \A y \in arrays'[Pool!Current] : entry'[y].connected
                        /\ \A d \in Callers : borrower'[d].client # None
                                                => entry'[borrower'[d].client].connected
                        /\ \A d \in Callers : borrower'[d].pc = "waiting" =>
                             \A y \in arrays'[borrower'[d].array] :
                               ~entry'[y].inUse => entry'[y].connected /\ ~entry'[y].idle
      BY <1>1, <2>6 DEF PoolConnected
    <3>1. \A y \in arrays'[Pool!Current] : entry'[y].connected
      BY <2>2, <2>5, CurrentArray DEF PoolInv, PoolConnected
    <3>2. \A d \in Callers : borrower'[d].client # None => entry'[borrower'[d].client].connected
      BY <2>2, <2>3, <2>4 DEF PoolInv, PoolConnected
    <3>3. ASSUME NEW d \in Callers, borrower'[d].pc = "waiting",
                 NEW y \in arrays'[borrower'[d].array], ~entry'[y].inUse
          PROVE  entry'[y].connected /\ ~entry'[y].idle
      <4>1. d # c /\ borrower[d].pc = "waiting" /\ borrower'[d].array = borrower[d].array
        BY <2>3, <3>3
      <4>2. borrower[d].array \in 1..Pool!Current
        BY <2>5, <4>1 DEF PoolInv, PoolHeld
      <4>3. y # x /\ y \in arrays[borrower[d].array] /\ y \in Clients
        BY <2>2, <2>5, <3>3, <4>1, <4>2
      <4>4. QED BY <2>2, <3>3, <4>1, <4>3 DEF PoolInv, PoolConnected
    <3>4. QED BY <3>1, <3>2, <3>3
  <2>10. QED BY <2>7, <2>8, <2>9 DEF PoolInv
<1>3. CASE borrower' = [borrower EXCEPT ![c] = Pool!Idle] /\ UNCHANGED <<entry, arrays>>
  BY <1>1, <1>3, CallerMoves DEF Pool!Idle
<1>4. QED BY <1>2, <1>3 DEF Pool!Created

LEMMA PollKeeps ==
  ASSUME PoolInv, NEW c \in Callers, Pool!Poll(c) PROVE PoolInv'
<1>1. borrower[c].pc = "waiting" /\ borrower[c].client = None /\ UNCHANGED <<arrays, down>>
  BY DEF Pool!Poll, PoolInv, PoolHeld
<1>2. PICK x \in Pool!Free(borrower[c].array) :
        /\ entry' = Pool!Used(x)
        /\ borrower' = [borrower EXCEPT ![c] = [pc |-> "holding", array |-> 0, client |-> x]]
  BY DEF Pool!Poll
<1>3. borrower[c].array \in 1..Pool!Current
  BY <1>1, CurrentArray DEF PoolInv, PoolHeld
<1>4. x \in Clients /\ ~entry[x].inUse /\ (~down => entry[x].connected)
  BY <1>1, <1>3, CurrentArray DEF Pool!Free, PoolInv, PoolConnected
<1>5. QED BY <1>1, <1>2, <1>4, TakesFree

LEMMA ReleaseKeeps ==
  ASSUME PoolInv, NEW c \in Callers, Pool!Release(c) PROVE PoolInv'
<1> DEFINE x == borrower[c].client
<1>0. None \notin Clients
  BY ForgeAssumption DEF Pool!PoolAssumption
<1>1. /\ borrower[c].pc = "holding" /\ UNCHANGED <<arrays, down>>
      /\ borrower' = [borrower EXCEPT ![c] = Pool!Idle]
      /\ entry' = IF x \in arrays[Pool!Current] THEN [entry EXCEPT ![x].inUse = FALSE] ELSE entry
  BY DEF Pool!Release
<1>2. x \in Clients /\ entry[x].inUse /\ ~entry[x].idle /\ (~down => entry[x].connected)
  BY <1>0, <1>1 DEF PoolInv, PoolTyped, PoolHeld, PoolConnected, Borrower
<1>3. /\ borrower' \in [Callers -> Borrower]
      /\ borrower'[c] = [pc |-> "idle", array |-> 0, client |-> None]
      /\ \A d \in Callers : d # c => borrower'[d] = borrower[d]
  BY <1>1 DEF PoolInv, PoolTyped, Borrower, Pool!Idle
<1>4. /\ entry' \in [Clients -> PoolEntry]
      /\ \A y \in Clients : /\ entry'[y].idle = entry[y].idle
                            /\ entry'[y].connected = entry[y].connected
                            /\ entry'[y].inUse => entry[y].inUse
                            /\ y # x => entry'[y] = entry[y]
  <2>1. CASE entry' = [entry EXCEPT ![x].inUse = FALSE]
    BY <1>2, <2>1 DEF PoolInv, PoolTyped, PoolEntry
  <2>2. CASE entry' = entry
    BY <2>2 DEF PoolInv, PoolTyped
  <2>3. QED BY <1>1, <2>1, <2>2
<1>5. \A d \in Callers : /\ borrower[d].client \in Clients \cup {None}
                         /\ d # c => borrower[d].client # x
  BY <1>0, <1>2 DEF PoolInv, PoolTyped, PoolHeld, Borrower
<1>6. PoolTyped'
  BY <1>1, <1>3, <1>4 DEF PoolInv, PoolTyped
<1>7. PoolHeld'
  BY <1>1, <1>3, <1>4, <1>5 DEF PoolInv, PoolHeld
<1>8. Pool!Current' = Pool!Current
  BY <1>1 DEF Pool!Current
<1>9. PoolConnected'
  <2> SUFFICES ASSUME ~down
               PROVE  /\ \A y \in arrays[Pool!Current] : entry'[y].connected
                      /\ \A d \in Callers : borrower'[d].client # None
                                              => entry'[borrower'[d].client].connected
                      /\ \A d \in Callers : borrower'[d].pc = "waiting" =>
                           \A y \in arrays[borrower'[d].array] :
                             ~entry'[y].inUse => entry'[y].connected /\ ~entry'[y].idle
    BY <1>1, <1>8 DEF PoolConnected
  <2>1. \A y \in arrays[Pool!Current] : entry'[y].connected
    BY <1>4, CurrentArray DEF PoolInv, PoolConnected
  <2>2. \A d \in Callers : borrower'[d].client # None => entry'[borrower'[d].client].connected
    BY <1>3, <1>4, <1>5 DEF PoolInv, PoolConnected
  <2>3. ASSUME NEW d \in Callers, borrower'[d].pc = "waiting",
               NEW y \in arrays[borrower'[d].array], ~entry'[y].inUse
        PROVE  entry'[y].connected /\ ~entry'[y].idle
    <3>1. d # c /\ borrower[d].pc = "waiting" /\ borrower'[d].array = borrower[d].array
      BY <1>3, <2>3
    <3>2. borrower[d].array \in 1..Pool!Current
      BY <3>1, CurrentArray DEF PoolInv, PoolHeld
    <3>3. y \in Clients /\ y \in arrays[borrower[d].array]
      BY <2>3, <3>1, <3>2, CurrentArray
    <3>4. CASE y = x
      BY <1>2, <1>4, <3>3, <3>4
    <3>5. CASE y # x
      BY <1>4, <2>3, <3>1, <3>3, <3>5 DEF PoolInv, PoolConnected
    <3>6. QED BY <3>4, <3>5
  <2>4. QED BY <2>1, <2>2, <2>3
<1>10. QED BY <1>6, <1>7, <1>9 DEF PoolInv

\* Time or the sweep passes over the entries: who holds one keeps it.
LEMMA EntriesAge ==
  ASSUME PoolInv, UNCHANGED borrower, down' \in BOOLEAN,
         entry' \in [Clients -> PoolEntry],
         \A x \in Clients : /\ entry'[x].inUse = entry[x].inUse
                            /\ entry'[x].inUse => ~entry'[x].idle,
         NEW n \in 1..(MaxSweeps + 2), arrays' \in [1..n -> SUBSET Clients],
         n >= Pool!Current, ~down' => n <= MaxSweeps + 1
  PROVE  PoolTyped' /\ PoolHeld'
<1>1. PoolTyped'
  BY DEF PoolInv, PoolTyped
<1>2. DOMAIN arrays \subseteq DOMAIN arrays'
  BY CurrentArray
<1>3. \A d \in Callers : borrower[d].client \in Clients \cup {None}
  BY DEF PoolInv, PoolTyped, Borrower
<1>4. PoolHeld'
  BY <1>2, <1>3 DEF PoolInv, PoolHeld
<1>5. QED BY <1>1, <1>4

LEMMA IdleTimePassesKeeps ==
  ASSUME PoolInv, Pool!IdleTimePasses PROVE PoolInv'
<1>1. /\ UNCHANGED <<arrays, borrower, down>>
      /\ \A c \in Callers : borrower[c].pc = "waiting" => Pool!Free(borrower[c].array) = {}
      /\ entry' = [x \in Clients |-> IF entry[x].connected /\ ~entry[x].inUse
                                       THEN [entry[x] EXCEPT !.idle = TRUE] ELSE entry[x]]
  BY DEF Pool!IdleTimePasses
<1>2. \A x \in Clients : /\ entry'[x] \in PoolEntry
                         /\ entry'[x].inUse = entry[x].inUse
                         /\ entry'[x].connected = entry[x].connected
                         /\ entry[x].inUse => entry'[x] = entry[x]
  BY <1>1 DEF PoolInv, PoolTyped, PoolEntry
<1>3. entry' \in [Clients -> PoolEntry]
  BY <1>1, <1>2
<1>4. \A x \in Clients : entry'[x].inUse => ~entry'[x].idle
  BY <1>2 DEF PoolInv, PoolHeld
<1>5. PoolTyped' /\ PoolHeld'
  <2>1. down' \in BOOLEAN
    BY <1>1 DEF PoolInv, PoolTyped
  <2>2. arrays' \in [1..Pool!Current -> SUBSET Clients]
    BY <1>1, CurrentArray
  <2>3. Pool!Current \in 1..(MaxSweeps + 2) /\ Pool!Current >= Pool!Current
        /\ (~down' => Pool!Current <= MaxSweeps + 1)
    BY <1>1, CurrentArray
  <2>4. QED BY <1>1, <1>2, <1>3, <1>4, <2>1, <2>2, <2>3, EntriesAge
<1>6. PoolConnected'
  <2>1. Pool!Current' = Pool!Current
    BY <1>1 DEF Pool!Current
  <2>2. \A c \in Callers : borrower[c].client \in Clients \cup {None}
    BY DEF PoolInv, PoolTyped, Borrower
  <2>3. \A c \in Callers : borrower[c].pc = "waiting" =>
          \A x \in arrays[borrower[c].array] : x \in Clients /\ entry'[x].inUse
    <3>1. \A c \in Callers : borrower[c].pc = "waiting" => borrower[c].array \in 1..Pool!Current
      BY CurrentArray DEF PoolInv, PoolHeld
    <3>2. QED BY <1>1, <1>2, <3>1, CurrentArray DEF Pool!Free
  <2>4. QED BY <1>1, <1>2, <2>1, <2>2, <2>3, CurrentArray DEF PoolInv, PoolConnected
<1>7. QED BY <1>5, <1>6 DEF PoolInv

LEMMA CleanupKeepsPool ==
  ASSUME PoolInv, Pool!Cleanup PROVE PoolInv'
<1> DEFINE n == Pool!Current
           out == {x \in arrays[n] : entry[x].idle}
<1>1. /\ n <= MaxSweeps /\ UNCHANGED <<borrower, down>>
      /\ entry' = [x \in Clients |-> IF x \in out THEN [entry[x] EXCEPT !.connected = FALSE]
                                     ELSE entry[x]]
      /\ arrays' = [i \in 1..(n + 1) |-> IF i <= n THEN arrays[i] ELSE arrays[n] \ out]
  BY DEF Pool!Cleanup
<1>2. \A x \in Clients : /\ entry'[x] \in PoolEntry
                         /\ entry'[x].inUse = entry[x].inUse
                         /\ entry'[x].idle = entry[x].idle
                         /\ x \notin out => entry'[x] = entry[x]
  BY <1>1 DEF PoolInv, PoolTyped, PoolEntry
<1>3. entry' \in [Clients -> PoolEntry]
  BY <1>1, <1>2
<1>4. n \in Nat /\ n \in 1..n /\ arrays \in [1..n -> SUBSET Clients] /\ MaxSweeps \in Nat
  BY CurrentArray
<1>5. n + 1 \in 1..(MaxSweeps + 2) /\ n + 1 <= MaxSweeps + 1 /\ n + 1 >= n
  BY <1>1, <1>4
<1>6. /\ arrays' \in [1..(n + 1) -> SUBSET Clients]
      /\ \A i \in 1..n : arrays'[i] = arrays[i]
      /\ arrays'[n + 1] = arrays[n] \ out
  <2>1. \A i \in 1..(n + 1) : (IF i <= n THEN arrays[i] ELSE arrays[n] \ out) \in SUBSET Clients
    BY <1>4
  <2>2. arrays' \in [1..(n + 1) -> SUBSET Clients]
    BY <1>1, <2>1
  <2>3. \A i \in 1..n : i \in 1..(n + 1) /\ i <= n
    BY <1>4
  <2>4. n + 1 \in 1..(n + 1) /\ ~(n + 1 <= n)
    BY <1>4
  <2>5. QED BY <1>1, <2>2, <2>3, <2>4
<1>7. PoolTyped' /\ PoolHeld'
  <2>1. down' \in BOOLEAN /\ \A x \in Clients : entry'[x].inUse => ~entry'[x].idle
    BY <1>1, <1>2 DEF PoolInv, PoolTyped, PoolHeld
  <2>2. QED
    <3> HIDE DEF n
    <3> QED BY <1>1, <1>2, <1>3, <1>5, <1>6, <2>1, EntriesAge DEF n
<1>8. PoolConnected'
  <2>1. Pool!Current' = n + 1
    <3>1. n + 1 \in Nat
      BY <1>4
    <3>2. DOMAIN arrays' = 1..(n + 1)
      BY <1>6
    <3>3. Cardinality(1..(n + 1)) = n + 1
      BY <3>1, FS_Interval
    <3>4. Pool!Current' = Cardinality(DOMAIN arrays')
      BY Zenon DEF Pool!Current, Pool!Cardinality, Cardinality
    <3>5. QED BY <3>2, <3>3, <3>4
  <2> HIDE DEF n
  <2>2. \A c \in Callers : borrower[c].client \in Clients \cup {None}
    BY DEF PoolInv, PoolTyped, Borrower
  <2>3. ASSUME ~down
        PROVE  /\ \A y \in arrays'[n + 1] : entry'[y].connected
               /\ \A d \in Callers : borrower[d].client # None => entry'[borrower[d].client].connected
               /\ \A d \in Callers : borrower[d].pc = "waiting" =>
                    \A y \in arrays'[borrower[d].array] :
                      ~entry'[y].inUse => entry'[y].connected /\ ~entry'[y].idle
    <3>1. \A y \in arrays'[n + 1] : entry'[y].connected
      BY <1>2, <1>4, <1>6, <2>3 DEF PoolInv, PoolConnected, n
    <3>2. \A d \in Callers : borrower[d].client # None => entry'[borrower[d].client].connected
      BY <1>2, <2>2, <2>3 DEF PoolInv, PoolConnected, PoolHeld
    <3>3. ASSUME NEW d \in Callers, borrower[d].pc = "waiting",
                 NEW y \in arrays'[borrower[d].array], ~entry'[y].inUse
          PROVE  entry'[y].connected /\ ~entry'[y].idle
      <4>1. borrower[d].array \in 1..n
        BY <3>3, CurrentArray DEF PoolInv, PoolHeld, n
      <4>2. y \in arrays[borrower[d].array] /\ y \in Clients
        BY <1>4, <1>6, <3>3, <4>1
      <4>3. entry[y].connected /\ ~entry[y].idle
        BY <1>2, <2>3, <3>3, <4>2 DEF PoolInv, PoolConnected
      <4>4. QED BY <1>2, <4>2, <4>3
    <3>4. QED BY <3>1, <3>2, <3>3
  <2>4. QED BY <1>1, <2>1, <2>3 DEF PoolConnected
<1>9. QED BY <1>7, <1>8 DEF PoolInv

LEMMA PoolShutdownKeeps ==
  ASSUME PoolInv, Pool!Shutdown PROVE PoolInv'
<1> DEFINE n == Pool!Current
<1>1. /\ ~down /\ down' = TRUE /\ UNCHANGED borrower
      /\ entry' = [x \in Clients |-> IF x \in arrays[n] THEN [entry[x] EXCEPT !.connected = FALSE]
                                     ELSE entry[x]]
      /\ arrays' = [i \in 1..(n + 1) |-> IF i <= n THEN arrays[i] ELSE {}]
  BY DEF Pool!Shutdown
<1>2. \A x \in Clients : /\ entry'[x] \in PoolEntry
                         /\ entry'[x].inUse = entry[x].inUse
                         /\ entry'[x].idle = entry[x].idle
  BY <1>1 DEF PoolInv, PoolTyped, PoolEntry
<1>3. entry' \in [Clients -> PoolEntry]
  BY <1>1, <1>2
<1>4. n \in Nat /\ arrays \in [1..n -> SUBSET Clients] /\ n + 1 \in 1..(MaxSweeps + 2) /\ n + 1 >= n
  BY <1>1, CurrentArray
<1>5. arrays' \in [1..(n + 1) -> SUBSET Clients]
  <2>1. \A i \in 1..(n + 1) : (IF i <= n THEN arrays[i] ELSE {}) \in SUBSET Clients
    BY <1>4
  <2>2. QED BY <1>1, <2>1
<1>6. \A x \in Clients : entry'[x].inUse => ~entry'[x].idle
  BY <1>2 DEF PoolInv, PoolHeld
<1>7. PoolTyped' /\ PoolHeld'
  <2> HIDE DEF n
  <2> QED BY <1>1, <1>2, <1>3, <1>4, <1>5, <1>6, EntriesAge DEF n
<1>8. PoolConnected'
  BY <1>1 DEF PoolConnected
<1>9. QED BY <1>7, <1>8 DEF PoolInv

LEMMA PoolInductive ==
  ASSUME PoolInv, [Next]_vars PROVE PoolInv'
<1>1. CASE UNCHANGED poolVars
  <2>1. UNCHANGED <<arrays, entry, borrower, down>>
    BY <1>1 DEF poolVars
  <2>2. Pool!Current' = Pool!Current
    BY <2>1 DEF Pool!Current
  <2>3. QED BY <2>1, <2>2 DEF PoolInv, PoolTyped, PoolHeld, PoolConnected
<1>2. CASE Pool!Next
  <2>1. ASSUME NEW c \in Callers, Pool!Acquire(c) \/ Pool!Created(c) \/ Pool!Poll(c) \/ Pool!Release(c)
        PROVE  PoolInv'
    BY <2>1, AcquireKeeps, CreatedKeeps, PollKeeps, ReleaseKeeps
  <2>2. QED BY <1>2, <2>1, IdleTimePassesKeeps, CleanupKeepsPool, PoolShutdownKeeps DEF Pool!Next
<1>3. QED
  BY <1>1, <1>2 DEF Next, HubStep, RunStep, PoolStep, ManagerStep, ApiStep, vars

LEMMA PoolKept ==
  ASSUME PoolInv PROVE Pool!TypeOK /\ Pool!ExclusiveUse /\ Pool!HeldIsConnected
<1>0. None \notin Clients /\ \A c \in Callers : borrower[c] \in Borrower
  BY ForgeAssumption DEF Pool!PoolAssumption, PoolInv, PoolTyped
<1>1. Pool!TypeOK
  BY <1>0, CurrentArray DEF Pool!TypeOK, PoolInv, PoolTyped, PoolHeld, Borrower
<1>2. Pool!ExclusiveUse
  <2> SUFFICES ASSUME NEW x \in Clients PROVE Pool!Cardinality(Pool!Holders(x)) <= 1
    BY DEF Pool!ExclusiveUse
  <2>1. \A c, d \in Pool!Holders(x) : c = d
    BY <1>0 DEF Pool!Holders, PoolInv, PoolHeld
  <2>2. Pool!Holders(x) = {} \/ \E c : Pool!Holders(x) = {c}
    BY <2>1
  <2>3. Cardinality(Pool!Holders(x)) <= 1
    <3>1. Cardinality({}) = 0 /\ \A c : Cardinality({c}) = 1
      BY FS_EmptySet, FS_Singleton
    <3>2. CASE Pool!Holders(x) = {}
      <4>1. Cardinality(Pool!Holders(x)) = 0
        BY <3>1, <3>2, Zenon
      <4>2. QED BY <4>1
    <3>3. ASSUME NEW c, Pool!Holders(x) = {c} PROVE Cardinality(Pool!Holders(x)) <= 1
      <4>1. Cardinality(Pool!Holders(x)) = 1
        BY <3>1, <3>3, Zenon
      <4>2. QED BY <4>1
    <3>4. QED BY <2>2, <3>2, <3>3
  <2>4. Pool!Cardinality(Pool!Holders(x)) = Cardinality(Pool!Holders(x))
    BY Zenon DEF Pool!Cardinality, Cardinality
  <2>5. QED BY <2>3, <2>4
<1>3. Pool!HeldIsConnected
  BY <1>0 DEF Pool!HeldIsConnected, Pool!Holders, PoolInv, PoolConnected
<1>4. QED BY <1>1, <1>2, <1>3

--------------------------------------------------------------------------
(* ForgeConnections: who has a client has one that connected, and the last *)
(* results are failures, as many as the status counts.                     *)

Status == [isHealthy : BOOLEAN, consecutiveFailures : 0..3]
Answers == BOOLEAN
Bad == FALSE
Getter == [pc : {"idle", "connecting", "has", "failed"}, got : Callers \cup {None}]

ClientsInv ==
  /\ getter \in [Callers -> Getter]
  /\ connected \subseteq Callers /\ alive \subseteq Callers
  /\ pool \in Callers \cup {None} /\ processes \in Callers \cup {None}
  /\ \A c \in Callers : getter[c].pc = "has" <=> getter[c].got # None
  /\ shutdown = "no" => /\ pool \in connected \cup {None}
                        /\ \A c \in Callers : getter[c].got \in connected \cup {None}

FailuresInv ==
  /\ status \in Status
  /\ status.isHealthy <=> status.consecutiveFailures < 3
  /\ results \in Seq(Answers) /\ Len(results) \in status.consecutiveFailures..3
  /\ \A i \in 1..Len(results) : i > Len(results) - status.consecutiveFailures => results[i] = Bad

ManagerInv == ClientsInv /\ FailuresInv

LEMMA ManagerInitial == Init => ManagerInv
<1> SUFFICES ASSUME Init PROVE ManagerInv
  OBVIOUS
<1>1. ClientsInv
  BY DEF Init, Manager!Init, ClientsInv, Getter
<1>2. FailuresInv
  BY DEF Init, Manager!Init, FailuresInv, Status, Answers
<1>3. QED BY <1>1, <1>2 DEF ManagerInv

\* The results after a check, the last of them its own.
LastThree(s, e) == LET all == Append(s, e) IN IF Len(all) > 3 THEN Tail(all) ELSE all

Follows(q, S, s, L, e) ==
  /\ q \in Seq(S)
  /\ \E m \in 1..3 :
       /\ Len(q) = m /\ q[m] = e
       /\ L < 3 => m = L + 1 /\ \A i \in 1..L : q[i] = s[i]
       /\ L = 3 => m = 3 /\ \A i \in 1..2 : q[i] = s[i + 1]

LEMMA OfLastThree ==
  ASSUME NEW S, NEW s \in Seq(S), NEW L \in 0..3, Len(s) = L, NEW e \in S
  PROVE  Follows(LastThree(s, e), S, s, L, e)
<1> DEFINE q == LastThree(s, e)
<1> DEFINE all == Append(s, e)
           N == Len(all)
<1>1. /\ all \in Seq(S) /\ all # <<>> /\ N = L + 1 /\ all[L + 1] = e
      /\ \A i \in 1..L : all[i] = s[i]
  BY AppendProperties
<1>2. q = IF N > 3 THEN Tail(all) ELSE all
  BY DEF LastThree
<1> HIDE DEF q
<1>3. Tail(all) \in Seq(S) /\ Len(Tail(all)) = L /\ \A i \in 1..L : Tail(all)[i] = all[i + 1]
  <2> HIDE DEF all
  <2>1. Len(Tail(all)) = L
    <3>1. Len(Tail(all)) = N - 1
      BY <1>1, HeadTailProperties
    <3> HIDE DEF N
    <3>2. QED BY <1>1, <3>1
  <2>2. QED BY <1>1, <2>1, HeadTailProperties
<1>4. ASSUME L < 3
      PROVE  /\ q \in Seq(S)
             /\ \E m \in 1..3 : Len(q) = m /\ q[m] = e /\ m = L + 1 /\ \A i \in 1..L : q[i] = s[i]
  <2>1. q = all
    <3> HIDE DEF all, N
    <3>1. QED BY <1>1, <1>2, <1>4
  <2>2. Len(q) = L + 1
    BY <1>1, <2>1
  <2>3. L + 1 \in 1..3
    BY <1>4
  <2> HIDE DEF all, N
  <2>4. QED BY <1>1, <1>4, <2>1, <2>2, <2>3
<1>5. ASSUME L = 3
      PROVE  /\ q \in Seq(S)
             /\ \E m \in 1..3 : Len(q) = m /\ q[m] = e /\ m = 3 /\ \A i \in 1..2 : q[i] = s[i + 1]
  <2>1. q = Tail(all)
    <3> HIDE DEF all, N
    <3>1. QED BY <1>1, <1>2, <1>5
  <2>2. Len(q) = L
    BY <1>3, <2>1
  <2>3. L \in 1..3
    BY <1>5
  <2>4. q[L] = e /\ \A i \in 1..2 : q[i] = s[i + 1]
    <3> HIDE DEF all, N
    <3>1. q[L] = e
      <4>1. L \in 1..L
        BY <1>5
      <4>2. QED BY <1>1, <1>3, <2>1, <4>1
    <3>2. ASSUME NEW i \in 1..2 PROVE q[i] = s[i + 1]
      <4>1. i \in 1..L /\ i + 1 \in 1..L
        BY <1>5
      <4>2. q[i] = all[i + 1] /\ all[i + 1] = s[i + 1]
        BY <1>1, <1>3, <2>1, <4>1
      <4>3. QED BY <4>2
    <3>3. QED BY <3>1, <3>2
  <2>5. q \in Seq(S)
    BY <1>3, <2>1
  <2> HIDE DEF all, N
  <2>6. QED BY <1>5, <2>2, <2>3, <2>4, <2>5
<1>6. /\ q \in Seq(S)
      /\ \E m \in 1..3 :
           /\ Len(q) = m /\ q[m] = e
           /\ L < 3 => m = L + 1 /\ \A i \in 1..L : q[i] = s[i]
           /\ L = 3 => m = 3 /\ \A i \in 1..2 : q[i] = s[i + 1]
  BY <1>4, <1>5
<1>7. QED BY <1>6, Zenon DEF Follows, q

\* One more failure.
More(f) == IF f < 3 THEN f + 1 ELSE 3
Failing(q, n, bad) ==
  /\ Len(q) \in n..3
  /\ \A i \in 1..Len(q) : i > Len(q) - n => q[i] = bad
  /\ n = 3 => q = <<bad, bad, bad>>

LEMMA OneMoreFailure ==
  ASSUME NEW S, NEW s \in Seq(S), NEW L \in 0..3, Len(s) = L, NEW bad \in S, NEW f \in 0..L,
         \A i \in 1..L : i > L - f => s[i] = bad,
         NEW q, Follows(q, S, s, L, bad)
  PROVE  Failing(q, More(f), bad)
<1> DEFINE n == More(f)
<1>1. PICK m \in 1..3 :
        /\ Len(q) = m /\ q[m] = bad
        /\ L < 3 => m = L + 1 /\ \A i \in 1..L : q[i] = s[i]
        /\ L = 3 => m = 3 /\ \A i \in 1..2 : q[i] = s[i + 1]
  BY DEF Follows
<1>2. q \in Seq(S)
  BY DEF Follows
<1>0. n = IF f < 3 THEN f + 1 ELSE 3
  BY DEF More
<1> HIDE DEF n
<1>3. m \in n..3
  BY <1>0, <1>1
<1>4. ASSUME NEW i \in 1..m, i > m - n PROVE q[i] = bad
  <2>1. CASE L < 3
    BY <1>0, <1>1, <1>4, <2>1
  <2>2. CASE L = 3
    BY <1>0, <1>1, <1>4, <2>2
  <2>3. QED BY <2>1, <2>2
<1>5. n = 3 => q = <<bad, bad, bad>>
  <2>1. n = 3 => m = 3
    BY <1>3
  <2>2. n = 3 => q[1] = bad /\ q[2] = bad /\ q[3] = bad
    BY <1>4, <2>1
  <2>3. QED BY <1>1, <1>2, <2>1, <2>2
<1>6. QED
  <2>1. Len(q) = m
    BY <1>1
  <2>2. QED BY <1>3, <1>4, <1>5, <2>1, Zenon DEF Failing, n

LEMMA CheckKeepsFailures ==
  ASSUME FailuresInv, NEW c \in Callers, NEW ok \in BOOLEAN, Manager!Check(c, ok)
  PROVE  FailuresInv' /\ Manager!EventFollowsResult
<1> DEFINE f == status.consecutiveFailures
<1>1. /\ f \in 0..3 /\ (status.isHealthy <=> f < 3) /\ status.isHealthy \in BOOLEAN
      /\ results \in Seq(Answers)
  BY DEF FailuresInv, Status
<1>2. PICK L \in f..3 : Len(results) = L /\ \A i \in 1..L : i > L - f => results[i] = Bad
  BY DEF FailuresInv
<1>3. results' = LastThree(results, ok)
  BY Zenon DEF Manager!Check, LastThree
<1>4. ok \in Answers /\ L \in 0..3
  BY <1>1 DEF Answers
<1>5. Follows(results', Answers, results, L, ok)
  BY <1>1, <1>2, <1>3, <1>4, OfLastThree
<1>6. /\ results' \in Seq(Answers)
      /\ \E m \in 1..3 : Len(results') = m /\ results'[m] = ok
  BY <1>5, Zenon DEF Follows
<1>7. CASE ok
  <2>1. /\ status' = [isHealthy |-> TRUE, consecutiveFailures |-> 0]
        /\ events' = IF status.isHealthy = TRUE THEN events ELSE "recovered"
    BY <1>7 DEF Manager!Check, Manager!Succeeds
  <2>2. status' \in Status /\ status'.consecutiveFailures = 0 /\ (status'.isHealthy <=> 0 < 3)
    BY <2>1 DEF Status
  <2>3. FailuresInv'
    <3>1. PICK m \in 1..3 : Len(results') = m
      BY <1>6
    <3>2. m \in 0..3 /\ \A i \in 1..m : ~(i > m - 0)
      OBVIOUS
    <3>3. QED BY <1>6, <2>2, <3>1, <3>2 DEF FailuresInv
  <2>4. results'[Len(results')] /\ (events' # events => events' = "recovered")
    BY <1>6, <1>7, <2>1, Zenon
  <2>5. Manager!EventFollowsResult
    BY <2>4, Zenon DEF Manager!EventFollowsResult
  <2>6. QED BY <2>3, <2>5
<1>8. CASE ~ok
  <2> DEFINE n == More(f)
  <2>1. ok = Bad
    BY <1>8, Zenon DEF Bad
  <2>2. /\ Len(results') \in n..3
        /\ \A i \in 1..Len(results') : i > Len(results') - n => results'[i] = Bad
        /\ n = 3 => results' = <<Bad, Bad, Bad>>
    <3>1. f \in 0..L /\ Bad \in Answers
      BY <1>1, <1>4, <2>1
    <3>2. Follows(results', Answers, results, L, Bad)
      BY <1>5, <2>1, Zenon
    <3>3. Failing(results', n, Bad)
      <4> HIDE DEF f
      <4> QED BY <1>1, <1>2, <1>4, <3>1, <3>2, OneMoreFailure
    <3>4. QED BY <3>3, Zenon DEF Failing
  <2>3. /\ status' = [isHealthy |-> status.isHealthy /\ n < 3, consecutiveFailures |-> n]
        /\ events' = IF (status.isHealthy /\ n < 3) = status.isHealthy THEN events
                     ELSE IF status.isHealthy /\ n < 3 THEN "recovered" ELSE "unhealthy"
    BY <1>8 DEF Manager!Check, Manager!Fails, More
  <2>4. n \in 0..3 /\ (status.isHealthy /\ n < 3 <=> n < 3)
    BY <1>1 DEF More
  <2>5. status' \in Status /\ status'.consecutiveFailures = n /\ (status'.isHealthy <=> n < 3)
    BY <1>1, <2>3, <2>4 DEF Status
  <2>6. FailuresInv'
    BY <1>6, <2>2, <2>5, Zenon DEF FailuresInv
  <2>7. events' # events => events' = "unhealthy" /\ n = 3
    BY <1>1, <2>3, <2>4
  <2>8. n = 3 => results' = <<FALSE, FALSE, FALSE>>
    BY <2>2, Zenon DEF Bad
  <2>9. Manager!EventFollowsResult
    BY <2>7, <2>8, Zenon DEF Manager!EventFollowsResult
  <2>10. QED BY <2>6, <2>9
<1>9. QED BY <1>7, <1>8

\* The clients: one action at a time.
LEMMA ClientsKept ==
  ASSUME ClientsInv, Manager!Next PROVE ClientsInv'
<1>0. None \notin Callers /\ \A c \in Callers : getter[c] \in Getter
  BY ForgeAssumption DEF Manager!ConnectionsAssumption, ClientsInv
<1>1. ASSUME NEW c \in Callers, Manager!GetClient(c) PROVE ClientsInv'
  <2>1. UNCHANGED <<connected, pool, shutdown>> /\ getter[c].pc = "idle"
    BY <1>1 DEF Manager!GetClient
  <2>2. CASE pool # None
    <3>1. getter' = [getter EXCEPT ![c] = [pc |-> "has", got |-> pool]] /\ UNCHANGED <<alive, processes>>
      BY <1>1, <2>2 DEF Manager!GetClient
    <3>2. getter' \in [Callers -> Getter] /\ \A d \in Callers :
            getter'[d] = IF d = c THEN [pc |-> "has", got |-> pool] ELSE getter[d]
      BY <3>1 DEF ClientsInv, Getter
    <3>3. QED BY <2>1, <2>2, <3>1, <3>2 DEF ClientsInv
  <2>3. CASE pool = None
    <3>1. getter' = [getter EXCEPT ![c].pc = "connecting"]
          /\ alive' \subseteq Callers /\ processes' \in Callers \cup {None}
      BY <1>1, <2>3 DEF Manager!GetClient, ClientsInv
    <3>2. getter' \in [Callers -> Getter] /\ \A d \in Callers :
            /\ getter'[d].got = getter[d].got
            /\ getter'[d].pc = IF d = c THEN "connecting" ELSE getter[d].pc
      BY <3>1 DEF ClientsInv, Getter
    <3>3. QED BY <2>1, <3>1, <3>2 DEF ClientsInv
  <2>4. QED BY <2>2, <2>3
<1>2. ASSUME NEW c \in Callers, Manager!Connected(c) PROVE ClientsInv'
  <2>1. /\ connected' = connected \cup {c} /\ pool' = c
        /\ getter' = [getter EXCEPT ![c] = [pc |-> "has", got |-> c]]
        /\ UNCHANGED <<alive, processes, shutdown>>
    BY <1>2 DEF Manager!Connected
  <2>2. getter' \in [Callers -> Getter] /\ \A d \in Callers :
          getter'[d] = IF d = c THEN [pc |-> "has", got |-> c] ELSE getter[d]
    BY <2>1 DEF ClientsInv, Getter
  <2>3. QED BY <1>0, <2>1, <2>2 DEF ClientsInv
<1>3. ASSUME NEW c \in Callers, Manager!ConnectFails(c) PROVE ClientsInv'
  <2>1. /\ getter[c].pc = "connecting" /\ getter' = [getter EXCEPT ![c].pc = "failed"]
        /\ UNCHANGED <<connected, alive, pool, processes, shutdown>>
    BY <1>3 DEF Manager!ConnectFails
  <2>2. getter' \in [Callers -> Getter] /\ \A d \in Callers :
          /\ getter'[d].got = getter[d].got
          /\ getter'[d].pc = IF d = c THEN "failed" ELSE getter[d].pc
    BY <2>1 DEF ClientsInv, Getter
  <2>3. QED BY <2>1, <2>2 DEF ClientsInv
<1>4. ASSUME NEW c \in Callers,
             getter' = [getter EXCEPT ![c] = [pc |-> "idle", got |-> None]],
             UNCHANGED <<connected, alive, pool, processes, shutdown>>
      PROVE  ClientsInv'
  <2>1. getter' \in [Callers -> Getter] /\ \A d \in Callers :
          getter'[d] = IF d = c THEN [pc |-> "idle", got |-> None] ELSE getter[d]
    BY <1>4 DEF ClientsInv, Getter
  <2>2. QED BY <1>4, <2>1 DEF ClientsInv
<1>5. ASSUME Manager!Shutdown PROVE ClientsInv'
  BY <1>5 DEF Manager!Shutdown, ClientsInv
<1>6. ASSUME NEW c \in Callers, Manager!ReleaseClient(c) PROVE ClientsInv'
  BY <1>4, <1>6 DEF Manager!ReleaseClient
<1>7. ASSUME NEW c \in Callers, NEW ok \in BOOLEAN, Manager!Check(c, ok) PROVE ClientsInv'
  BY <1>4, <1>7 DEF Manager!Check
<1>8. QED BY <1>1, <1>2, <1>3, <1>5, <1>6, <1>7 DEF Manager!Next

LEMMA FailuresKept ==
  ASSUME FailuresInv, Manager!Next PROVE FailuresInv' /\ Manager!EventFollowsResult
<1>1. ASSUME UNCHANGED <<status, results, events>> PROVE FailuresInv' /\ Manager!EventFollowsResult
  BY <1>1 DEF FailuresInv, Manager!EventFollowsResult
<1>2. ASSUME NEW c \in Callers,
             Manager!GetClient(c) \/ Manager!Connected(c) \/ Manager!ConnectFails(c) \/ Manager!ReleaseClient(c)
      PROVE  UNCHANGED <<status, results, events>>
  BY <1>2 DEF Manager!GetClient, Manager!Connected, Manager!ConnectFails, Manager!ReleaseClient,
              Manager!healthVars
<1>3. Manager!Shutdown => UNCHANGED <<status, results, events>>
  BY DEF Manager!Shutdown, Manager!healthVars
<1>4. QED BY <1>1, <1>2, <1>3, CheckKeepsFailures DEF Manager!Next

LEMMA ManagerInductive ==
  ASSUME ManagerInv, [Next]_vars PROVE ManagerInv' /\ Manager!EventFollowsResult
<1>1. CASE UNCHANGED managerVars
  BY <1>1 DEF managerVars, ManagerInv, ClientsInv, FailuresInv, Manager!EventFollowsResult
<1>2. CASE Manager!Next
  BY <1>2, ClientsKept, FailuresKept DEF ManagerInv
<1>3. QED
  BY <1>1, <1>2 DEF Next, HubStep, RunStep, PoolStep, ManagerStep, ApiStep, vars

LEMMA ManagerKept ==
  ASSUME ManagerInv PROVE Manager!TypeOK /\ Manager!HandedOutIsConnected
BY DEF ManagerInv, ClientsInv, FailuresInv, Manager!TypeOK, Manager!HandedOutIsConnected, Status

\* ConnectionManager.ts, ServerPool.ts: two callers never have one pooled
\* connection, what is held is connected, and who is handed a client gets one
\* that has shaken hands.
THEOREM ForgeConnectionsExclusive == Spec => []ConnectionsExclusive
<1>1. Init => PoolInv /\ ManagerInv
  BY PoolInitial, ManagerInitial
<1>2. (PoolInv /\ ManagerInv) /\ [Next]_vars => (PoolInv /\ ManagerInv)'
  BY PoolInductive, ManagerInductive
<1>3. PoolInv /\ ManagerInv => ConnectionsExclusive
  BY PoolKept, ManagerKept DEF ConnectionsExclusive
<1>4. QED BY <1>1, <1>2, <1>3, PTL DEF Spec

--------------------------------------------------------------------------
(* The logs of ForgeHub and ForgeApi: `all' is what was let through, each  *)
(* with its number and time, `log' what is remembered of it.  A window     *)
(* that one more may fall into has begun so late that all it holds is      *)
(* still in the log.                                                       *)

Logged(log, all, time, w, max) ==
  /\ IsFiniteSet(all) /\ log \subseteq all /\ Cardinality(log) <= max
  /\ \A x \in all : x \in [n : 1..Cardinality(all), at : 0..time]
  /\ \A m \in all : Cardinality({x \in all : x.at \in m.at..(m.at + w)}) <= max

RecentKnown(log, all, time, w) == \A x \in all : x.at + w >= time => x \in log

Fresh(log, time, w) == {x \in log : x.at + w >= time}

LEMMA NothingLogged ==
  ASSUME NEW time \in Nat, NEW w \in Nat, NEW max \in Nat
  PROVE  Logged({}, {}, time, w, max) /\ RecentKnown({}, {}, time, w)
<1>1. IsFiniteSet({}) /\ Cardinality({}) = 0
  BY FS_EmptySet
<1>2. QED BY <1>1 DEF Logged, RecentKnown

LEMMA LogForgets ==
  ASSUME NEW log, NEW all, NEW time \in Nat, NEW w \in Nat, NEW max \in Nat,
         Logged(log, all, time, w, max)
  PROVE  /\ Logged({}, all, time, w, max)
         /\ Logged(Fresh(log, time, w), all, time, w, max)
         /\ RecentKnown(log, all, time, w) => RecentKnown(Fresh(log, time, w), all, time, w)
<1>1. IsFiniteSet(log)
  BY FS_Subset DEF Logged
<1>2. Fresh(log, time, w) \subseteq log
  BY DEF Fresh
<1>3. Cardinality(Fresh(log, time, w)) <= Cardinality(log)
      /\ Cardinality(Fresh(log, time, w)) \in Nat /\ Cardinality(log) \in Nat
  BY <1>1, <1>2, FS_Subset, FS_CardinalityType
<1>4. Cardinality({}) = 0
  BY FS_EmptySet
<1>5. QED BY <1>2, <1>3, <1>4 DEF Logged, RecentKnown, Fresh

LEMMA LogAges ==
  ASSUME NEW log, NEW all, NEW time \in Nat, NEW later \in Nat, later >= time,
         NEW w \in Nat, NEW max \in Nat, Logged(log, all, time, w, max)
  PROVE  /\ Logged(log, all, later, w, max)
         /\ RecentKnown(log, all, time, w) => RecentKnown(log, all, later, w)
<1>1. \A x \in all : x.at \in 0..time /\ x \in [n : 1..Cardinality(all), at : 0..later]
  <2> SUFFICES ASSUME NEW x \in all
               PROVE  x.at \in 0..time /\ x \in [n : 1..Cardinality(all), at : 0..later]
    OBVIOUS
  <2>1. x \in [n : 1..Cardinality(all), at : 0..time]
    BY DEF Logged
  <2>2. QED BY <2>1
<1>2. QED BY <1>1 DEF Logged, RecentKnown

LEMMA LogGrows ==
  ASSUME NEW log, NEW all, NEW time \in Nat, NEW w \in Nat, NEW max \in Nat,
         Logged(log, all, time, w, max), RecentKnown(log, all, time, w),
         Cardinality(Fresh(log, time, w)) < max,
         NEW e, e = [n |-> Cardinality(all) + 1, at |-> time]
  PROVE  /\ Logged(Fresh(log, time, w) \cup {e}, all \cup {e}, time, w, max)
         /\ RecentKnown(Fresh(log, time, w) \cup {e}, all \cup {e}, time, w)
<1> DEFINE fresh == Fresh(log, time, w)
           more == all \cup {e}
<1>1. IsFiniteSet(all) /\ log \subseteq all /\ Cardinality(all) \in Nat
      /\ \A x \in all : x \in [n : 1..Cardinality(all), at : 0..time]
  BY FS_CardinalityType DEF Logged
<1>2. e \notin all
  BY <1>1
<1>3. IsFiniteSet(more) /\ Cardinality(more) = Cardinality(all) + 1
  BY <1>1, <1>2, FS_AddElement
<1>4. fresh \subseteq all /\ IsFiniteSet(fresh) /\ Cardinality(fresh) \in Nat
  BY <1>1, FS_Subset, FS_CardinalityType DEF Fresh
<1>5. /\ IsFiniteSet(fresh \cup {e}) /\ Cardinality(fresh \cup {e}) = Cardinality(fresh) + 1
      /\ Cardinality(fresh \cup {e}) <= max
  <2>1. e \notin fresh
    BY <1>2, <1>4
  <2>2. IsFiniteSet(fresh \cup {e}) /\ Cardinality(fresh \cup {e}) = Cardinality(fresh) + 1
    <3> HIDE DEF fresh
    <3> QED BY <1>4, <2>1, FS_AddElement
  <2>3. QED BY <1>4, <2>2
<1>6. \A x \in all : x.at \in Nat /\ x.at <= time /\ (x.at + w >= time => x \in fresh)
  BY <1>1 DEF RecentKnown, Fresh
<1>7. \A x \in more : x \in [n : 1..Cardinality(more), at : 0..time]
  <2>1. e \in [n : 1..Cardinality(more), at : 0..time]
    BY <1>1, <1>3
  <2>2. ASSUME NEW x \in all PROVE x \in [n : 1..Cardinality(more), at : 0..time]
    BY <1>1, <1>3, <2>2
  <2>3. QED BY <2>1, <2>2
<1>8. ASSUME NEW m \in more PROVE Cardinality({x \in more : x.at \in m.at..(m.at + w)}) <= max
  <2> DEFINE W == {x \in more : x.at \in m.at..(m.at + w)}
  <2>1. m.at \in Nat /\ m.at <= time /\ e.at = time
    BY <1>6
  <2>2. CASE m.at + w >= time
    <3>1. W \subseteq fresh \cup {e}
      BY <1>6, <2>1, <2>2
    <3>2. Cardinality(W) <= Cardinality(fresh \cup {e}) /\ Cardinality(W) \in Nat
      <4> HIDE DEF W, fresh
      <4> QED BY <1>5, <3>1, FS_Subset, FS_CardinalityType
    <3>3. QED BY <1>4, <1>5, <3>2
  <2>3. CASE ~(m.at + w >= time)
    <3>1. m \in all /\ W = {x \in all : x.at \in m.at..(m.at + w)}
      BY <2>1, <2>3
    <3>2. QED BY <3>1 DEF Logged
  <2>4. QED BY <2>2, <2>3
<1>9. Logged(fresh \cup {e}, more, time, w, max)
  <2>1. fresh \cup {e} \subseteq more
    BY <1>4
  <2> HIDE DEF fresh, more
  <2>2. QED BY <1>3, <1>5, <1>7, <1>8, <2>1 DEF Logged
<1>10. RecentKnown(fresh \cup {e}, more, time, w)
  BY <1>6 DEF RecentKnown
<1>11. QED BY <1>9, <1>10

--------------------------------------------------------------------------
(* ForgeHub: the connections are within their shares, a socket is open only*)
(* as one of them, and a connection only while the hub is.                 *)

Ids == {IdOf[t] : t \in HubTokens}

HubConn ==
  [ready : {"none", "open", "closing"}, mapped : BOOLEAN, token : HubTokens \cup {None},
   alive : BOOLEAN, active : Nat, subs : SUBSET Categories, queue : Nat, silent : BOOLEAN]

ConnInv(c, o) ==
  /\ c.mapped => c.token \in HubTokens /\ c.ready # "none"
  /\ c.ready = "open" => c.mapped
  /\ c.mapped => /\ \A x \in c.subs : x \in o.allowedCategories /\ Hub!CanRead(c.token, x)
                 /\ Cardinality(c.subs) <= o.maxSubscriptions

HubTyped ==
  /\ options \in {HubCases[c].options : c \in HubParts} /\ hub \in BOOLEAN /\ hubNow \in 0..HubClock
  /\ conn \in [Sockets -> HubConn]
  /\ DOMAIN messageLog = Ids /\ DOMAIN accepted = Ids

ConnsInv == \A s \in Sockets : ConnInv(conn[s], options) /\ (conn[s].mapped => hub)

Of(p) == {s \in Hub!Connections : IdOf[conn[s].token] = p}

Shares ==
  /\ Cardinality(Hub!Connections) <= options.maxConnections
  /\ \A p \in Ids : Cardinality(Of(p)) <= options.maxConnectionsPerPrincipal

MessagesLogged ==
  \A p \in Ids :
    /\ Logged(messageLog[p], accepted[p], hubNow, options.window, options.maxMessages)
    /\ hub => RecentKnown(messageLog[p], accepted[p], hubNow, options.window)

HubInv == HubTyped /\ ConnsInv /\ Shares /\ MessagesLogged

LEMMA HubFacts ==
  ASSUME HubTyped
  PROVE  /\ options \in Hub!Options /\ IsFiniteSet(Sockets) /\ IsFiniteSet(Categories)
         /\ hubNow \in Nat /\ HubClock \in Nat
         /\ \A S : Hub!Cardinality(S) = Cardinality(S)
<1>1. /\ Hub!IsFiniteSet(Sockets) /\ Hub!IsFiniteSet(Categories)
      /\ HubClock \in Nat /\ options \in Hub!Options
  BY ForgeAssumption DEF Hub!HubAssumption, HubTyped
<1>2. \A S : Hub!Cardinality(S) = Cardinality(S)
  BY Zenon DEF Hub!Cardinality, Cardinality
<1>3. IsFiniteSet(Sockets) /\ IsFiniteSet(Categories)
  BY <1>1, Zenon DEF Hub!IsFiniteSet, IsFiniteSet
<1>4. hubNow \in Nat
  BY <1>1 DEF HubTyped
<1>5. QED BY <1>1, <1>2, <1>3, <1>4

LEMMA HubInitial == Init => HubInv
<1> SUFFICES ASSUME Init PROVE HubInv
  OBVIOUS
<1>1. /\ options \in {HubCases[c].options : c \in HubParts} /\ hub = TRUE /\ hubNow = 0
      /\ conn = [s \in Sockets |-> Hub!NoConn]
      /\ messageLog = [p \in Ids |-> {}] /\ accepted = [p \in Ids |-> {}]
  BY DEF Init, Hub!Init, Hub!Ids, Ids
<1>2. HubClock \in Nat
  BY ForgeAssumption DEF Hub!HubAssumption
<1>3. HubTyped
  BY <1>1, <1>2 DEF HubTyped, HubConn, Hub!NoConn
<1>4. options \in Hub!Options
  BY <1>3, HubFacts
<1>5. ConnsInv
  BY <1>1 DEF ConnsInv, ConnInv, Hub!NoConn
<1>6. Hub!Connections = {} /\ \A p \in Ids : Of(p) = {}
  BY <1>1 DEF Hub!Connections, Of, Hub!NoConn
<1>7. Shares
  <2>1. Cardinality({}) = 0
    BY FS_EmptySet
  <2>2. options.maxConnections \in Nat /\ options.maxConnectionsPerPrincipal \in Nat
    BY <1>4 DEF Hub!Options
  <2>3. QED BY <1>6, <2>1, <2>2 DEF Shares
<1>8. MessagesLogged
  <2>1. options.window \in Nat /\ options.maxMessages \in Nat
    BY <1>4 DEF Hub!Options
  <2>2. QED BY <1>1, <2>1, NothingLogged DEF MessagesLogged
<1>9. QED BY <1>3, <1>5, <1>7, <1>8 DEF HubInv

\* A connection after a step that opens nothing and grants nothing.
Calmer(c, d) ==
  /\ d \in HubConn /\ d.token = c.token /\ d.subs = c.subs
  /\ d.mapped => c.mapped /\ d.ready # "none"
  /\ d.ready = "open" => c.ready = "open" /\ (c.mapped => d.mapped)

LEMMA CalmerKeeps ==
  ASSUME NEW c, NEW d, NEW o, ConnInv(c, o), Calmer(c, d) \/ d = Hub!NoConn
  PROVE  ConnInv(d, o) /\ (d.mapped => c.mapped /\ d.token = c.token)
<1>1. CASE Calmer(c, d)
  BY <1>1 DEF ConnInv, Calmer
<1>2. CASE d = Hub!NoConn
  BY <1>2 DEF ConnInv, Hub!NoConn
<1>3. QED BY <1>1, <1>2

\* Fewer connections take fewer shares.
LEMMA SharesShrink ==
  ASSUME HubTyped, Shares, UNCHANGED options,
         \A s \in Sockets : conn'[s].mapped => conn[s].mapped /\ conn'[s].token = conn[s].token
  PROVE  Shares'
<1>1. options \in Hub!Options /\ IsFiniteSet(Sockets)
  BY HubFacts
<1>2. Hub!Connections' \subseteq Hub!Connections /\ \A p \in Ids : Of(p)' \subseteq Of(p)
  BY DEF Hub!Connections, Of
<1>3. \A T \in SUBSET Sockets : \A S \in SUBSET T :
        Cardinality(S) \in Nat /\ Cardinality(T) \in Nat /\ Cardinality(S) <= Cardinality(T)
  BY <1>1, FS_Subset, FS_CardinalityType
<1>4. Hub!Connections \in SUBSET Sockets /\ \A p \in Ids : Of(p) \in SUBSET Sockets
  BY DEF Hub!Connections, Of
<1>5. Cardinality(Hub!Connections') <= Cardinality(Hub!Connections)
      /\ \A p \in Ids : Cardinality(Of(p)') <= Cardinality(Of(p))
  BY <1>2, <1>3, <1>4
<1>6. /\ Cardinality(Hub!Connections) \in Nat /\ Cardinality(Hub!Connections') \in Nat
      /\ \A p \in Ids : Cardinality(Of(p)) \in Nat /\ Cardinality(Of(p)') \in Nat
  BY <1>2, <1>3, <1>4
<1>7. options.maxConnections \in Nat /\ options.maxConnectionsPerPrincipal \in Nat
  BY <1>1 DEF Hub!Options
<1>8. QED BY <1>5, <1>6, <1>7 DEF Shares

\* A step under which every connection stays, calms down or goes.
LEMMA CalmStep ==
  ASSUME HubInv, UNCHANGED <<options, hub>>, conn' \in [Sockets -> HubConn],
         \A s \in Sockets : Calmer(conn[s], conn'[s]) \/ conn'[s] = Hub!NoConn
  PROVE  ConnsInv' /\ Shares'
<1>1. ASSUME NEW s \in Sockets
      PROVE  /\ ConnInv(conn'[s], options)
             /\ conn'[s].mapped => conn[s].mapped /\ conn'[s].token = conn[s].token
  BY CalmerKeeps DEF HubInv, ConnsInv
<1>2. ConnsInv'
  BY <1>1 DEF HubInv, ConnsInv
<1>3. Shares'
  BY <1>1, SharesShrink DEF HubInv
<1>4. QED BY <1>2, <1>3

LEMMA LogsStand ==
  ASSUME HubInv, UNCHANGED <<options, hub, hubNow, messageLog, accepted>>,
         conn' \in [Sockets -> HubConn]
  PROVE  HubTyped' /\ MessagesLogged'
<1>1. HubTyped'
  BY DEF HubInv, HubTyped
<1>2. MessagesLogged'
  BY DEF HubInv, MessagesLogged, Logged, RecentKnown
<1>3. QED BY <1>1, <1>2

\* What a send, a close and a check do to a connection.
LEMMA SendsAreCalm ==
  ASSUME NEW c \in HubConn, c.mapped => c.ready # "none"
  PROVE  Calmer(c, Hub!Sent(c)) /\ Calmer(c, Hub!Closing(c)) /\ Calmer(c, Hub!Checked(c))
<1>1. Calmer(c, c)
  BY DEF Calmer
<1>2. Calmer(c, [c EXCEPT !.ready = "closing"]) /\ Calmer(c, [c EXCEPT !.queue = @ + 1])
      /\ Calmer(c, [c EXCEPT !.alive = FALSE])
  <2>1. Calmer(c, [c EXCEPT !.ready = "closing"])
    BY DEF Calmer, HubConn
  <2>2. Calmer(c, [c EXCEPT !.queue = @ + 1])
    <3>1. c.queue + 1 \in Nat
      BY DEF HubConn
    <3>2. QED BY <3>1 DEF Calmer, HubConn
  <2>3. Calmer(c, [c EXCEPT !.alive = FALSE])
    BY DEF Calmer, HubConn
  <2>4. QED BY <2>1, <2>2, <2>3
<1>3. Hub!Closing(c) \in {c, [c EXCEPT !.ready = "closing"]}
  BY DEF Hub!Closing
<1>4. Hub!Sent(c) \in {c, [c EXCEPT !.ready = "closing"], [c EXCEPT !.queue = @ + 1]}
  BY DEF Hub!Sent
<1>5. Hub!Checked(c) \in {c, Hub!Closing(c), [c EXCEPT !.alive = FALSE]}
  BY DEF Hub!Checked
<1>6. QED BY <1>1, <1>2, <1>3, <1>4, <1>5

\* The steps that touch one connection.
LEMMA OneConn ==
  ASSUME HubInv, UNCHANGED <<options, hub>>, NEW s \in Sockets, NEW d \in HubConn,
         conn' = [conn EXCEPT ![s] = d], ConnInv(d, options),
         d.mapped => conn[s].mapped /\ d.token = conn[s].token
  PROVE  conn' \in [Sockets -> HubConn] /\ ConnsInv' /\ Shares'
<1>1. conn' \in [Sockets -> HubConn] /\ conn'[s] = d
      /\ \A x \in Sockets : x # s => conn'[x] = conn[x]
  BY DEF HubInv, HubTyped
<1>2. ConnsInv'
  BY <1>1 DEF HubInv, ConnsInv
<1>3. Shares'
  BY <1>1, SharesShrink DEF HubInv
<1>4. QED BY <1>1, <1>2, <1>3

LEMMA OneCalm ==
  ASSUME HubInv, UNCHANGED <<options, hub, hubNow, messageLog, accepted>>, NEW s \in Sockets,
         NEW d \in HubConn, conn' = [conn EXCEPT ![s] = d],
         Calmer(conn[s], d) \/ d = Hub!NoConn
  PROVE  HubInv'
<1>1. ConnInv(conn[s], options)
  BY DEF HubInv, ConnsInv
<1>2. ConnInv(d, options) /\ (d.mapped => conn[s].mapped /\ d.token = conn[s].token)
  BY <1>1, CalmerKeeps
<1>3. conn' \in [Sockets -> HubConn] /\ ConnsInv' /\ Shares'
  BY <1>2, OneConn
<1>4. QED BY <1>3, LogsStand DEF HubInv

LEMMA QuietSteps ==
  ASSUME HubInv, NEW s \in Sockets,
         \/ Hub!SocketError(s) \/ Hub!PeerLeaves(s) \/ Hub!Closed(s)
         \/ Hub!Drain(s) \/ Hub!Pong(s) \/ Hub!FallsSilent(s)
  PROVE  HubInv'
<1> DEFINE c == conn[s]
<1>1. c \in HubConn /\ ConnInv(c, options)
  BY DEF HubInv, HubTyped, ConnsInv
<1>2. UNCHANGED <<options, hub, hubNow, messageLog, accepted>>
  BY DEF Hub!SocketError, Hub!PeerLeaves, Hub!Closed, Hub!Drain, Hub!Pong, Hub!FallsSilent
<1>3. \E d \in HubConn : conn' = [conn EXCEPT ![s] = d] /\ (Calmer(c, d) \/ d = Hub!NoConn)
  <2>1. CASE Hub!SocketError(s)
    <3>1. conn' = [conn EXCEPT ![s] = [c EXCEPT !.ready = "closing", !.mapped = FALSE]]
      BY <2>1 DEF Hub!SocketError, HubInv, HubTyped
    <3>2. Calmer(c, [c EXCEPT !.ready = "closing", !.mapped = FALSE])
      BY <1>1 DEF Calmer, HubConn
    <3>3. QED BY <3>1, <3>2 DEF Calmer
  <2>2. CASE Hub!PeerLeaves(s)
    <3>1. conn' = [conn EXCEPT ![s] = Hub!Closing(c)]
      BY <2>2 DEF Hub!PeerLeaves
    <3>2. Calmer(c, Hub!Closing(c))
      BY <1>1, SendsAreCalm DEF ConnInv
    <3>3. QED BY <3>1, <3>2 DEF Calmer
  <2>3. CASE Hub!Closed(s)
    BY <2>3 DEF Hub!Closed, Hub!NoConn, HubConn
  <2>4. CASE Hub!Drain(s)
    <3>1. \/ conn' = [conn EXCEPT ![s] = [c EXCEPT !.queue = @ - 1]]
          \/ conn' = [conn EXCEPT ![s] = [c EXCEPT !.ready = "closing"]]
      BY <2>4 DEF Hub!Drain, HubInv, HubTyped
    <3>2. c.queue \in Nat /\ c.queue > 0
      BY <1>1, <2>4 DEF Hub!Drain, HubConn
    <3>3. c.queue - 1 \in Nat
      BY <3>2
    <3>4. Calmer(c, [c EXCEPT !.queue = @ - 1]) /\ Calmer(c, [c EXCEPT !.ready = "closing"])
      BY <1>1, <3>3 DEF Calmer, HubConn, ConnInv
    <3>5. QED BY <3>1, <3>4 DEF Calmer
  <2>5. CASE Hub!Pong(s)
    <3>1. conn' = [conn EXCEPT ![s] = [c EXCEPT !.alive = TRUE]]
      BY <2>5 DEF Hub!Pong, HubInv, HubTyped
    <3>2. Calmer(c, [c EXCEPT !.alive = TRUE])
      BY <1>1 DEF Calmer, HubConn, ConnInv
    <3>3. QED BY <3>1, <3>2 DEF Calmer
  <2>6. CASE Hub!FallsSilent(s)
    <3>1. conn' = [conn EXCEPT ![s] = [c EXCEPT !.silent = TRUE]]
      BY <2>6 DEF Hub!FallsSilent, HubInv, HubTyped
    <3>2. Calmer(c, [c EXCEPT !.silent = TRUE])
      BY <1>1 DEF Calmer, HubConn, ConnInv
    <3>3. QED BY <3>1, <3>2 DEF Calmer
  <2>7. QED BY <2>1, <2>2, <2>3, <2>4, <2>5, <2>6
<1>4. QED BY <1>2, <1>3, OneCalm

LEMMA BroadcastKeeps ==
  ASSUME HubInv, NEW category, Hub!BroadcastEvent(category) \/ Hub!CheckLiveness
  PROVE  HubInv'
<1>1. UNCHANGED <<options, hub, hubNow, messageLog, accepted>>
  BY DEF Hub!BroadcastEvent, Hub!CheckLiveness
<1>2. ASSUME NEW s \in Sockets
      PROVE  /\ Calmer(conn[s], conn[s]) /\ Calmer(conn[s], Hub!Sent(conn[s]))
             /\ Calmer(conn[s], Hub!Checked(conn[s]))
  BY SendsAreCalm DEF HubInv, HubTyped, ConnsInv, ConnInv, Calmer
<1>3. CASE Hub!BroadcastEvent(category)
  <2>1. conn' = [s \in Sockets |->
                   IF conn[s].mapped /\ category \in conn[s].subs
                      /\ Hub!CanRead(conn[s].token, category)
                     THEN Hub!Sent(conn[s]) ELSE conn[s]]
    BY <1>3 DEF Hub!BroadcastEvent
  <2>2. \A s \in Sockets : Calmer(conn[s], conn'[s])
    BY <1>2, <2>1
  <2>3. conn' \in [Sockets -> HubConn]
    BY <2>1, <2>2 DEF Calmer
  <2>4. QED BY <1>1, <2>2, <2>3, CalmStep, LogsStand DEF HubInv
<1>4. CASE Hub!CheckLiveness
  <2>1. conn' = [s \in Sockets |-> IF conn[s].mapped THEN Hub!Checked(conn[s]) ELSE conn[s]]
    BY <1>4 DEF Hub!CheckLiveness
  <2>2. \A s \in Sockets : Calmer(conn[s], conn'[s])
    BY <1>2, <2>1
  <2>3. conn' \in [Sockets -> HubConn]
    BY <2>1, <2>2 DEF Calmer
  <2>4. QED BY <1>1, <2>2, <2>3, CalmStep, LogsStand DEF HubInv
<1>5. QED BY <1>3, <1>4

\* The logs after a pruning.
LEMMA PrunedLogs ==
  ASSUME HubInv
  PROVE  /\ DOMAIN Hub!Pruned = Ids
         /\ \A p \in Ids :
              /\ Hub!Pruned[p] = Fresh(messageLog[p], hubNow, options.window)
              /\ Logged(Hub!Pruned[p], accepted[p], hubNow, options.window, options.maxMessages)
              /\ hub => RecentKnown(Hub!Pruned[p], accepted[p], hubNow, options.window)
<1>1. options.window \in Nat /\ options.maxMessages \in Nat /\ hubNow \in Nat
  BY HubFacts DEF HubInv, Hub!Options
<1>2. DOMAIN Hub!Pruned = Ids /\ \A p \in Ids :
        Hub!Pruned[p] = Fresh(messageLog[p], hubNow, options.window)
  BY DEF Hub!Pruned, Hub!Ids, Ids, Hub!Recent, Fresh
<1>3. QED BY <1>1, <1>2, LogForgets DEF HubInv, MessagesLogged

LEMMA CloseKeeps == ASSUME HubInv, Hub!Close PROVE HubInv'
<1>1. /\ hub' = FALSE /\ UNCHANGED <<options, hubNow, accepted>>
      /\ messageLog' = [p \in Ids |-> {}]
      /\ conn' = [s \in Sockets |-> IF conn[s].mapped THEN [Hub!Closing(conn[s]) EXCEPT !.mapped = FALSE]
                                    ELSE conn[s]]
  BY DEF Hub!Close, Hub!Ids, Ids
<1>2. ASSUME NEW s \in Sockets
      PROVE  conn'[s] \in HubConn /\ ConnInv(conn'[s], options) /\ ~conn'[s].mapped
  <2>1. conn[s] \in HubConn /\ ConnInv(conn[s], options)
    BY DEF HubInv, HubTyped, ConnsInv
  <2>2. CASE conn[s].mapped
    <3>1. Hub!Closing(conn[s]) \in HubConn /\ Hub!Closing(conn[s]).ready # "open"
      BY <2>1 DEF Hub!Closing, HubConn
    <3>2. conn'[s] = [Hub!Closing(conn[s]) EXCEPT !.mapped = FALSE]
      BY <1>1, <2>2
    <3>3. QED BY <3>1, <3>2 DEF HubConn, ConnInv
  <2>3. CASE ~conn[s].mapped
    BY <1>1, <2>1, <2>3
  <2>4. QED BY <2>2, <2>3 DEF HubConn, HubInv, HubTyped
<1>3. conn' \in [Sockets -> HubConn]
  BY <1>1, <1>2
<1>4. HubTyped'
  BY <1>1, <1>3 DEF HubInv, HubTyped
<1>5. ConnsInv'
  BY <1>1, <1>2 DEF ConnsInv
<1>6. Shares'
  BY <1>1, <1>2, SharesShrink DEF HubInv
<1>7. MessagesLogged'
  <2>1. options.window \in Nat /\ options.maxMessages \in Nat /\ hubNow \in Nat
    BY HubFacts DEF HubInv, Hub!Options
  <2>2. QED BY <1>1, <2>1, LogForgets DEF HubInv, MessagesLogged
<1>8. QED BY <1>4, <1>5, <1>6, <1>7 DEF HubInv

LEMMA HubTickKeeps == ASSUME HubInv, Hub!Tick PROVE HubInv'
<1>1. hubNow < HubClock /\ hubNow' = hubNow + 1 /\ UNCHANGED <<options, hub, conn, messageLog, accepted>>
  BY DEF Hub!Tick
<1>2. hubNow \in Nat /\ HubClock \in Nat /\ options.window \in Nat /\ options.maxMessages \in Nat
  BY HubFacts DEF HubInv, Hub!Options
<1>3. hubNow' \in Nat /\ hubNow' >= hubNow /\ hubNow' \in 0..HubClock
  BY <1>1, <1>2
<1>4. MessagesLogged'
  BY <1>1, <1>2, <1>3, LogAges DEF HubInv, MessagesLogged
<1>5. ConnsInv' /\ Shares'
  BY <1>1 DEF HubInv, ConnsInv, ConnInv, Shares, Of, Hub!Connections
<1>6. HubTyped'
  BY <1>1, <1>3 DEF HubInv, HubTyped
<1>7. QED BY <1>4, <1>5, <1>6 DEF HubInv

\* A request for subscriptions is granted up to the limit, and no further.
LEMMA GrantedWithinScope ==
  ASSUME HubTyped, NEW c \in HubConn, c.mapped, ConnInv(c, options),
         NEW requested \in SUBSET Categories, NEW g \in Hub!Granted(c, requested)
  PROVE  /\ g \in SUBSET Categories
         /\ \A x \in g : x \in options.allowedCategories /\ Hub!CanRead(c.token, x)
         /\ Cardinality(g) <= options.maxSubscriptions
<1> DEFINE readable == {x \in (requested \cap options.allowedCategories) \ c.subs :
                          Hub!CanRead(c.token, x)}
           room == options.maxSubscriptions - Cardinality(c.subs)
<1>1. /\ c.subs \in SUBSET Categories /\ IsFiniteSet(Categories)
      /\ options.maxSubscriptions \in Nat /\ \A S : Hub!Cardinality(S) = Cardinality(S)
      /\ Cardinality(c.subs) <= options.maxSubscriptions
  BY HubFacts DEF HubConn, Hub!Options, ConnInv
<1>2. PICK x \in SUBSET readable :
        /\ g = c.subs \cup x
        /\ Cardinality(x) = IF Cardinality(readable) < room THEN Cardinality(readable) ELSE room
  BY <1>1 DEF Hub!Granted
<1>3. IsFiniteSet(c.subs) /\ IsFiniteSet(readable) /\ IsFiniteSet(x)
  <2>1. readable \in SUBSET Categories /\ x \in SUBSET Categories
    BY <1>2
  <2> HIDE DEF readable
  <2>2. QED BY <1>1, <2>1, FS_Subset
<1>4. Cardinality(c.subs) \in Nat /\ Cardinality(readable) \in Nat /\ Cardinality(x) \in Nat
  BY <1>3, FS_CardinalityType
<1>5. Cardinality(g) = Cardinality(c.subs) + Cardinality(x)
  <2>1. c.subs \cap x = {} /\ Cardinality({}) = 0
    BY <1>2, FS_EmptySet
  <2>2. Cardinality(c.subs \cup x) = Cardinality(c.subs) + Cardinality(x) - Cardinality(c.subs \cap x)
    BY <1>3, FS_Union
  <2>3. Cardinality(c.subs \cap x) = 0 /\ Cardinality(g) = Cardinality(c.subs \cup x)
    BY <1>2, <2>1
  <2> HIDE DEF readable
  <2>4. QED BY <1>4, <2>2, <2>3
<1>6. Cardinality(x) <= room
  BY <1>1, <1>2, <1>4
<1>7. Cardinality(g) <= options.maxSubscriptions
  BY <1>1, <1>4, <1>5, <1>6
<1>8. g \in SUBSET Categories
        /\ \A y \in g : y \in options.allowedCategories /\ Hub!CanRead(c.token, y)
  BY <1>1, <1>2 DEF ConnInv
<1>9. QED BY <1>7, <1>8

LEMMA HandledWithinScope ==
  ASSUME HubTyped, NEW c \in HubConn, c.mapped, ConnInv(c, options),
         NEW m \in Hub!ClientMessages, NEW d \in Hub!Handled(c, m)
  PROVE  d \in HubConn /\ ConnInv(d, options) /\ d.token = c.token /\ c.mapped
<1>0. c.ready # "none" /\ c.token \in HubTokens
  BY DEF ConnInv
<1>1. ASSUME NEW x \in HubConn, x.mapped, x.token = c.token, x.ready = c.ready, ConnInv(x, options)
      PROVE  /\ Hub!Sent(x) \in HubConn /\ ConnInv(Hub!Sent(x), options) /\ Hub!Sent(x).token = c.token
             /\ Hub!Closing(x) \in HubConn /\ ConnInv(Hub!Closing(x), options)
             /\ Hub!Closing(x).token = c.token
  <2>1. Calmer(x, Hub!Sent(x)) /\ Calmer(x, Hub!Closing(x))
    BY <1>0, <1>1, SendsAreCalm
  <2>2. QED BY <1>1, <2>1, CalmerKeeps DEF Calmer
<1>2. CASE m.type = "ping"
  BY <1>1, <1>2 DEF Hub!Handled
<1>3. CASE m.type = "subscribe"
  <2>1. m.categories \in SUBSET Categories
    BY <1>3 DEF Hub!ClientMessages
  <2>2. PICK g \in Hub!Granted(c, m.categories) : d = Hub!Sent([c EXCEPT !.subs = g])
    BY <1>3 DEF Hub!Handled
  <2>3. /\ g \in SUBSET Categories
        /\ \A x \in g : x \in options.allowedCategories /\ Hub!CanRead(c.token, x)
        /\ Cardinality(g) <= options.maxSubscriptions
    BY <2>1, GrantedWithinScope
  <2>4. [c EXCEPT !.subs = g] \in HubConn /\ ConnInv([c EXCEPT !.subs = g], options)
    BY <2>3 DEF HubConn, ConnInv
  <2>5. [c EXCEPT !.subs = g].mapped /\ [c EXCEPT !.subs = g].token = c.token
        /\ [c EXCEPT !.subs = g].ready = c.ready
    BY DEF HubConn
  <2>6. QED BY <1>1, <2>2, <2>4, <2>5
<1>4. CASE m.type = "unsubscribe"
  <2> DEFINE g == c.subs \ (m.categories \cap options.allowedCategories)
  <2>1. d = Hub!Sent([c EXCEPT !.subs = g])
    BY <1>4 DEF Hub!Handled
  <2>2. g \subseteq c.subs /\ c.subs \in SUBSET Categories /\ IsFiniteSet(c.subs)
    BY HubFacts, FS_Subset DEF HubConn
  <2>3. Cardinality(g) <= Cardinality(c.subs) /\ Cardinality(g) \in Nat /\ Cardinality(c.subs) \in Nat
    <3> HIDE DEF g
    <3> QED BY <2>2, FS_Subset, FS_CardinalityType
  <2>4. options.maxSubscriptions \in Nat
    BY HubFacts DEF Hub!Options
  <2>5. [c EXCEPT !.subs = g] \in HubConn /\ ConnInv([c EXCEPT !.subs = g], options)
    <3> HIDE DEF g
    <3> QED BY <2>2, <2>3, <2>4 DEF HubConn, ConnInv
  <2>6. [c EXCEPT !.subs = g].mapped /\ [c EXCEPT !.subs = g].token = c.token
        /\ [c EXCEPT !.subs = g].ready = c.ready
    BY DEF HubConn
  <2> HIDE DEF g
  <2>7. QED BY <1>1, <2>1, <2>5, <2>6
<1>5. CASE m.type = "bad"
  BY <1>1, <1>5 DEF Hub!Handled
<1>6. m.type \in {"ping", "bad", "subscribe", "unsubscribe"}
  BY DEF Hub!ClientMessages
<1>7. QED BY <1>2, <1>3, <1>4, <1>5, <1>6

LEMMA HandleMessageKeeps ==
  ASSUME HubInv, NEW s \in Sockets, Hub!HandleMessage(s)
  PROVE  HubInv'
<1> DEFINE heard == [conn[s] EXCEPT !.active = hubNow, !.alive = TRUE]
           id == IdOf[conn[s].token]
<1>1. /\ conn[s].mapped /\ UNCHANGED <<options, hub, hubNow>>
      /\ IF Hub!Cardinality(Hub!Pruned[id]) >= options.maxMessages
           THEN /\ conn' = [conn EXCEPT ![s] = Hub!Closing(heard)]
                /\ messageLog' = Hub!Pruned
                /\ UNCHANGED accepted
           ELSE /\ messageLog' = [Hub!Pruned EXCEPT ![id] = @ \cup {Hub!Stamp(id)}]
                /\ accepted' = [accepted EXCEPT ![id] = @ \cup {Hub!Stamp(id)}]
                /\ \E m \in Hub!ClientMessages : \E d \in Hub!Handled(heard, m) :
                     conn' = [conn EXCEPT ![s] = d]
  BY DEF Hub!HandleMessage
<1>2. /\ conn[s] \in HubConn /\ ConnInv(conn[s], options) /\ hub /\ hubNow \in Nat
      /\ conn[s].token \in HubTokens
      /\ options.window \in Nat /\ options.maxMessages \in Nat
      /\ \A S : Hub!Cardinality(S) = Cardinality(S)
  BY <1>1, HubFacts DEF HubInv, HubTyped, ConnsInv, ConnInv, Hub!Options
<1>3. /\ heard \in HubConn /\ heard.mapped /\ heard.token = conn[s].token
      /\ heard.ready = conn[s].ready /\ heard.subs = conn[s].subs /\ ConnInv(heard, options)
  BY <1>1, <1>2 DEF HubConn, ConnInv
<1>4. id \in Ids
  BY <1>2 DEF Ids
<1>5. \E d \in HubConn : /\ conn' = [conn EXCEPT ![s] = d] /\ ConnInv(d, options)
                         /\ d.token = conn[s].token
  <2> HIDE DEF heard, id
  <2>1. CASE conn' = [conn EXCEPT ![s] = Hub!Closing(heard)]
    <3>1. Calmer(heard, Hub!Closing(heard))
      BY <1>2, <1>3, SendsAreCalm DEF ConnInv
    <3>2. ConnInv(Hub!Closing(heard), options) /\ Hub!Closing(heard) \in HubConn
          /\ Hub!Closing(heard).token = conn[s].token
      BY <1>3, <3>1, CalmerKeeps DEF Calmer
    <3>3. QED BY <2>1, <3>2
  <2>2. ASSUME NEW m \in Hub!ClientMessages, NEW d \in Hub!Handled(heard, m),
               conn' = [conn EXCEPT ![s] = d]
        PROVE  d \in HubConn /\ ConnInv(d, options) /\ d.token = conn[s].token
    BY <1>3, <2>2, HandledWithinScope DEF HubInv
  <2>3. QED BY <1>1, <2>1, <2>2
<1>6. conn' \in [Sockets -> HubConn] /\ ConnsInv' /\ Shares'
  BY <1>1, <1>5, OneConn
<1>7. DOMAIN messageLog' = Ids /\ DOMAIN accepted' = Ids /\ MessagesLogged'
  <2> HIDE DEF heard, id
  <2>1. CASE Cardinality(Hub!Pruned[id]) >= options.maxMessages
    <3>1. messageLog' = Hub!Pruned /\ accepted' = accepted
      BY <1>1, <1>2, <2>1
    <3>2. QED BY <1>1, <3>1, PrunedLogs DEF HubInv, HubTyped, MessagesLogged
  <2>2. CASE ~(Cardinality(Hub!Pruned[id]) >= options.maxMessages)
    <3> DEFINE e == Hub!Stamp(id)
    <3>1. e = [n |-> Cardinality(accepted[id]) + 1, at |-> hubNow]
      BY <1>2 DEF Hub!Stamp
    <3>2. messageLog' = [Hub!Pruned EXCEPT ![id] = @ \cup {e}]
          /\ accepted' = [accepted EXCEPT ![id] = @ \cup {e}]
      BY <1>1, <1>2, <2>2
    <3> HIDE DEF e
    <3>3. DOMAIN messageLog' = Ids /\ DOMAIN accepted' = Ids
      BY <3>2, PrunedLogs DEF HubInv, HubTyped
    <3>4. messageLog'[id] = Hub!Pruned[id] \cup {e} /\ accepted'[id] = accepted[id] \cup {e}
          /\ \A p \in Ids : p # id => messageLog'[p] = Hub!Pruned[p] /\ accepted'[p] = accepted[p]
      BY <1>4, <3>2, PrunedLogs DEF HubInv, HubTyped
    <3>5. Cardinality(Hub!Pruned[id]) < options.maxMessages
      <4>1. IsFiniteSet(Hub!Pruned[id])
        BY <1>4, PrunedLogs, FS_Subset DEF Logged
      <4>2. Cardinality(Hub!Pruned[id]) \in Nat
        BY <4>1, FS_CardinalityType
      <4>3. QED BY <1>2, <2>2, <4>2
    <3>6. Logged(messageLog'[id], accepted'[id], hubNow, options.window, options.maxMessages)
          /\ RecentKnown(messageLog'[id], accepted'[id], hubNow, options.window)
      <4>1. /\ Hub!Pruned[id] = Fresh(messageLog[id], hubNow, options.window)
            /\ Logged(messageLog[id], accepted[id], hubNow, options.window, options.maxMessages)
            /\ RecentKnown(messageLog[id], accepted[id], hubNow, options.window)
        BY <1>2, <1>4, PrunedLogs DEF HubInv, MessagesLogged
      <4> DEFINE fresh == Fresh(messageLog[id], hubNow, options.window)
      <4>2. Cardinality(fresh) < options.maxMessages
        BY <3>5, <4>1
      <4>3. Logged(fresh \cup {e}, accepted[id] \cup {e}, hubNow, options.window, options.maxMessages)
            /\ RecentKnown(fresh \cup {e}, accepted[id] \cup {e}, hubNow, options.window)
        BY <1>2, <3>1, <4>1, <4>2, LogGrows
      <4>4. messageLog'[id] = fresh \cup {e} /\ accepted'[id] = accepted[id] \cup {e}
        BY <3>4, <4>1
      <4> HIDE DEF fresh
      <4>5. QED BY <4>3, <4>4
    <3>7. QED BY <1>1, <1>2, <3>3, <3>4, <3>6, PrunedLogs DEF MessagesLogged
  <2>3. QED BY <2>1, <2>2
<1>8. HubTyped'
  BY <1>1, <1>6, <1>7 DEF HubInv, HubTyped
<1>9. QED BY <1>6, <1>7, <1>8 DEF HubInv

LEMMA UpgradeKeeps ==
  ASSUME HubInv, NEW s \in Sockets, NEW t \in HubTokens, Hub!Upgrade(s, t)
  PROVE  HubInv'
<1> DEFINE opened == [Hub!NoConn EXCEPT !.ready = "open", !.mapped = TRUE, !.token = t,
                                        !.alive = TRUE, !.active = hubNow]
<1>1. /\ hub /\ conn[s] = Hub!NoConn /\ messageLog' = Hub!Pruned
      /\ UNCHANGED <<options, hub, hubNow, accepted>>
  BY DEF Hub!Upgrade
<1>2. /\ options \in Hub!Options /\ hubNow \in Nat /\ IsFiniteSet(Sockets)
      /\ \A S : Hub!Cardinality(S) = Cardinality(S)
  BY HubFacts DEF HubInv
<1>3. MessagesLogged' /\ DOMAIN messageLog' = Ids
  BY <1>1, PrunedLogs DEF MessagesLogged
<1>4. CASE UNCHANGED conn
  <2>1. HubTyped' /\ ConnsInv' /\ Shares'
    BY <1>1, <1>3, <1>4 DEF HubInv, HubTyped, ConnsInv, ConnInv, Shares, Of, Hub!Connections
  <2>2. QED BY <1>3, <2>1 DEF HubInv
<1>5. ASSUME Cardinality(Hub!Connections) < options.maxConnections,
             Cardinality(Of(IdOf[t])) < options.maxConnectionsPerPrincipal,
             conn' = [conn EXCEPT ![s] = Hub!Sent(opened)]
      PROVE  HubInv'
  <2> DEFINE d == Hub!Sent(opened)
  <2>1. /\ opened \in HubConn /\ opened.mapped /\ opened.token = t /\ opened.subs = {}
        /\ opened.ready = "open"
    BY <1>2 DEF Hub!NoConn, HubConn
  <2>2. Calmer(opened, d)
    <3> HIDE DEF opened
    <3> QED BY <2>1, SendsAreCalm
  <2>3. ConnInv(opened, options)
    <3>1. Cardinality({}) = 0 /\ options.maxSubscriptions \in Nat
      BY <1>2, FS_EmptySet DEF Hub!Options
    <3> HIDE DEF opened
    <3>2. QED BY <2>1, <3>1 DEF ConnInv
  <2>4. d \in HubConn /\ d.token = t /\ ConnInv(d, options)
    <3> HIDE DEF opened
    <3> QED BY <2>1, <2>2, <2>3, CalmerKeeps DEF Calmer
  <2> HIDE DEF d, opened
  <2>5. /\ conn' \in [Sockets -> HubConn] /\ conn'[s] = d
        /\ \A x \in Sockets : x # s => conn'[x] = conn[x]
    BY <1>5, <2>4 DEF HubInv, HubTyped, d
  <2>6. HubTyped' /\ ConnsInv'
    BY <1>1, <1>3, <2>4, <2>5 DEF HubInv, HubTyped, ConnsInv
  <2>7. Hub!Connections' \subseteq Hub!Connections \cup {s}
        /\ Of(IdOf[t])' \subseteq Of(IdOf[t]) \cup {s}
        /\ \A p \in Ids : p # IdOf[t] => Of(p)' \subseteq Of(p)
    BY <2>4, <2>5 DEF Hub!Connections, Of
  <2>8. \A T \in SUBSET Sockets :
          /\ Cardinality(T) \in Nat
          /\ \A S \in SUBSET (T \cup {s}) : Cardinality(S) <= Cardinality(T) + 1
          /\ \A S \in SUBSET T : Cardinality(S) \in Nat /\ Cardinality(S) <= Cardinality(T)
    <3> SUFFICES ASSUME NEW T \in SUBSET Sockets
                 PROVE  /\ Cardinality(T) \in Nat
                        /\ \A S \in SUBSET (T \cup {s}) : Cardinality(S) <= Cardinality(T) + 1
                        /\ \A S \in SUBSET T : Cardinality(S) \in Nat /\ Cardinality(S) <= Cardinality(T)
      OBVIOUS
    <3>1. IsFiniteSet(T) /\ Cardinality(T) \in Nat
      BY <1>2, FS_Subset, FS_CardinalityType
    <3>2. \A S \in SUBSET T : Cardinality(S) \in Nat /\ Cardinality(S) <= Cardinality(T)
      BY <3>1, FS_Subset, FS_CardinalityType
    <3>3. IsFiniteSet(T \cup {s}) /\ Cardinality(T \cup {s}) \in Nat
          /\ Cardinality(T \cup {s}) <= Cardinality(T) + 1
      <4>1. CASE s \in T
        <5>1. T \cup {s} = T
          BY <4>1
        <5>2. IsFiniteSet(T \cup {s}) /\ Cardinality(T \cup {s}) = Cardinality(T)
          BY <3>1, <5>1, Zenon
        <5>3. QED BY <3>1, <5>2
      <4>2. CASE s \notin T
        <5>1. IsFiniteSet(T \cup {s}) /\ Cardinality(T \cup {s}) = Cardinality(T) + 1
          BY <3>1, <4>2, FS_AddElement
        <5>2. QED BY <3>1, <5>1
      <4>3. QED BY <4>1, <4>2
    <3>4. \A S \in SUBSET (T \cup {s}) :
            Cardinality(S) \in Nat /\ Cardinality(S) <= Cardinality(T \cup {s})
      BY <3>3, FS_Subset, FS_CardinalityType
    <3>5. QED BY <3>1, <3>2, <3>3, <3>4
  <2>9. Hub!Connections \in SUBSET Sockets /\ \A p : Of(p) \in SUBSET Sockets
    BY DEF Hub!Connections, Of
  <2>10. Hub!Connections' \in SUBSET Sockets /\ \A p : Of(p)' \in SUBSET Sockets
    BY DEF Hub!Connections, Of
  <2>11. options.maxConnections \in Nat /\ options.maxConnectionsPerPrincipal \in Nat
    BY <1>2 DEF Hub!Options
  <2>12. Cardinality(Hub!Connections') <= options.maxConnections
    <3>1. Cardinality(Hub!Connections') <= Cardinality(Hub!Connections) + 1
          /\ Cardinality(Hub!Connections') \in Nat /\ Cardinality(Hub!Connections) \in Nat
      BY <2>7, <2>8, <2>9, <2>10
    <3>2. QED BY <1>5, <2>11, <3>1
  <2>13. ASSUME NEW p \in Ids PROVE Cardinality(Of(p)') <= options.maxConnectionsPerPrincipal
    <3>1. Cardinality(Of(p)') \in Nat /\ Cardinality(Of(p)) \in Nat
      BY <2>8, <2>9, <2>10
    <3>2. CASE p = IdOf[t]
      <4>1. Of(p)' \subseteq Of(p) \cup {s}
        BY <2>7, <3>2
      <4>2. Cardinality(Of(p)') <= Cardinality(Of(p)) + 1
        BY <2>8, <2>9, <4>1
      <4>3. Cardinality(Of(p)) < options.maxConnectionsPerPrincipal
        BY <1>5, <3>2
      <4>4. QED BY <2>11, <3>1, <4>2, <4>3
    <3>3. CASE p # IdOf[t]
      <4>1. Cardinality(Of(p)') <= Cardinality(Of(p))
        BY <2>7, <2>8, <2>9, <3>3
      <4>2. Cardinality(Of(p)) <= options.maxConnectionsPerPrincipal
        BY DEF HubInv, Shares
      <4>3. QED BY <2>11, <3>1, <4>1, <4>2
    <3>4. QED BY <3>2, <3>3
  <2>14. Shares'
    BY <1>1, <2>12, <2>13 DEF Shares
  <2>15. QED BY <1>3, <2>6, <2>14 DEF HubInv
<1>6. QED
  <2>1. Hub!ConnectionCountFor(t) = Cardinality(Of(IdOf[t]))
    BY <1>2 DEF Hub!ConnectionCountFor, Of
  <2>2. \/ UNCHANGED conn
        \/ /\ Cardinality(Hub!Connections) < options.maxConnections
           /\ Cardinality(Of(IdOf[t])) < options.maxConnectionsPerPrincipal
           /\ conn' = [conn EXCEPT ![s] = Hub!Sent(opened)]
    <3> HIDE DEF opened
    <3> QED BY <1>2, <2>1 DEF Hub!Upgrade, opened
  <2>3. QED BY <1>4, <1>5, <2>2

LEMMA HubInductive ==
  ASSUME HubInv, [Next]_vars PROVE HubInv'
<1>1. CASE UNCHANGED hubVars
  BY <1>1 DEF hubVars, HubInv, HubTyped, ConnsInv, ConnInv, Shares, Of, Hub!Connections,
              MessagesLogged, Logged, RecentKnown
<1>2. CASE Hub!Next
  <2>1. ASSUME NEW s \in Sockets, NEW t \in HubTokens, Hub!Upgrade(s, t) PROVE HubInv'
    BY <2>1, UpgradeKeeps
  <2>2. ASSUME NEW s \in Sockets,
               \/ Hub!SocketError(s) \/ Hub!PeerLeaves(s) \/ Hub!Closed(s)
               \/ Hub!Drain(s) \/ Hub!Pong(s) \/ Hub!FallsSilent(s)
        PROVE  HubInv'
    BY <2>2, QuietSteps
  <2>3. ASSUME NEW s \in Sockets, Hub!HandleMessage(s) PROVE HubInv'
    BY <2>3, HandleMessageKeeps
  <2>4. ASSUME NEW c \in Categories, Hub!BroadcastEvent(c) PROVE HubInv'
    BY <2>4, BroadcastKeeps
  <2>5. ASSUME Hub!CheckLiveness PROVE HubInv'
    BY <2>5, BroadcastKeeps
  <2>6. QED BY <1>2, <2>1, <2>2, <2>3, <2>4, <2>5, CloseKeeps, HubTickKeeps DEF Hub!Next
<1>3. QED
  BY <1>1, <1>2 DEF Next, HubStep, RunStep, PoolStep, ManagerStep, ApiStep, vars

LEMMA HubKept ==
  ASSUME HubInv
  PROVE  /\ Hub!TypeOK /\ Hub!ConnectionsBounded /\ Hub!SubscriptionsWithinScope
         /\ Hub!MessagesBounded /\ Hub!NothingOutlivesTheHub
<1>1. /\ options \in Hub!Options /\ IsFiniteSet(Sockets)
      /\ \A S : Hub!Cardinality(S) = Cardinality(S)
      /\ \A s \in Sockets : conn[s] \in HubConn /\ ConnInv(conn[s], options)
                            /\ (conn[s].mapped => hub)
  BY HubFacts DEF HubInv, HubTyped, ConnsInv
<1>2. Hub!Ids = Ids
  BY DEF Hub!Ids, Ids
<1>3. Hub!TypeOK
  <2>1. \A s \in Sockets :
          /\ conn[s].ready \in {"none", "open", "closing"}
          /\ conn[s].ready = "open" /\ hub => conn[s].mapped
          /\ conn[s].mapped => conn[s].token \in HubTokens /\ conn[s].ready # "none"
          /\ conn[s].subs \subseteq Categories
    BY <1>1 DEF HubConn, ConnInv
  <2>2. \A p \in Ids : Cardinality(messageLog[p]) <= options.maxMessages
    BY DEF HubInv, MessagesLogged, Logged
  <2>3. QED BY <1>1, <1>2, <2>1, <2>2 DEF Hub!TypeOK, HubInv, HubTyped
<1>4. Hub!ConnectionsBounded
  <2> DEFINE open(T) == {s \in Sockets : conn[s].ready = "open" /\ conn[s].token \in T}
  <2>1. open(HubTokens) \subseteq Hub!Connections
        /\ \A p \in Ids : open({t \in HubTokens : IdOf[t] = p}) \subseteq Of(p)
    BY <1>1 DEF ConnInv, Hub!Connections, Of
  <2>2. \A T \in SUBSET Sockets : \A S \in SUBSET T :
          Cardinality(S) \in Nat /\ Cardinality(T) \in Nat /\ Cardinality(S) <= Cardinality(T)
    BY <1>1, FS_Subset, FS_CardinalityType
  <2>3. Hub!Connections \in SUBSET Sockets /\ \A p : Of(p) \in SUBSET Sockets
    BY DEF Hub!Connections, Of
  <2>4. options.maxConnections \in Nat /\ options.maxConnectionsPerPrincipal \in Nat
    BY <1>1 DEF Hub!Options
  <2>5. Cardinality(open(HubTokens)) <= options.maxConnections
    <3>1. /\ Cardinality(open(HubTokens)) \in Nat /\ Cardinality(Hub!Connections) \in Nat
          /\ Cardinality(open(HubTokens)) <= Cardinality(Hub!Connections)
          /\ Cardinality(Hub!Connections) <= options.maxConnections
      <4> HIDE DEF open
      <4> QED BY <2>1, <2>2, <2>3 DEF HubInv, Shares
    <3> HIDE DEF open
    <3>2. QED BY <2>4, <3>1
  <2>6. ASSUME NEW p \in Ids
        PROVE  Cardinality(open({t \in HubTokens : IdOf[t] = p})) <= options.maxConnectionsPerPrincipal
    <3> DEFINE S == open({t \in HubTokens : IdOf[t] = p})
    <3>1. S \subseteq Of(p)
      BY <2>1
    <3> HIDE DEF S
    <3>2. /\ Cardinality(S) \in Nat /\ Cardinality(Of(p)) \in Nat
          /\ Cardinality(S) <= Cardinality(Of(p))
          /\ Cardinality(Of(p)) <= options.maxConnectionsPerPrincipal
      BY <2>2, <2>3, <3>1 DEF HubInv, Shares
    <3>3. Cardinality(S) <= options.maxConnectionsPerPrincipal
      BY <2>4, <3>2
    <3>4. QED BY <3>3 DEF S
  <2>7. QED BY <1>1, <1>2, <2>5, <2>6 DEF Hub!ConnectionsBounded
<1>5. Hub!SubscriptionsWithinScope
  BY <1>1 DEF Hub!SubscriptionsWithinScope, Hub!Connections, ConnInv
<1>6. Hub!MessagesBounded
  BY <1>1, <1>2 DEF Hub!MessagesBounded, HubInv, MessagesLogged, Logged
<1>7. Hub!NothingOutlivesTheHub
  BY <1>1 DEF Hub!NothingOutlivesTheHub, ConnInv
<1>8. QED BY <1>3, <1>4, <1>5, <1>6, <1>7

--------------------------------------------------------------------------
(* ForgeApi: only those who are judged fit to pass come to the log.        *)

ApiTyped ==
  /\ apiNow \in 0..ApiClock
  /\ saved \subseteq Pipelines /\ running \cup answered \subseteq runs /\ listed \subseteq runs
  /\ DOMAIN requestLog = Api!Keys /\ DOMAIN admitted = Api!Keys

RequestsLogged ==
  \A k \in Api!Keys :
    /\ Logged(requestLog[k], admitted[k], apiNow, ApiWindow, MaxRequests)
    /\ RecentKnown(requestLog[k], admitted[k], apiNow, ApiWindow)
    /\ requestLog[k] # {} => k[2] \in ApiTokens

ApiInv == ApiTyped /\ RequestsLogged

LEMMA ApiFacts ==
  /\ MaxRequests \in Nat /\ ApiWindow \in Nat /\ ApiClock \in Nat
  /\ \A S : Api!Cardinality(S) = Cardinality(S)
<1>1. \A S : Api!Cardinality(S) = Cardinality(S)
  BY Zenon DEF Api!Cardinality, Cardinality
<1>2. QED BY <1>1, ForgeAssumption DEF Api!ApiAssumption

LEMMA ApiInitial == Init => ApiInv
<1> SUFFICES ASSUME Init PROVE ApiInv
  OBVIOUS
<1>1. /\ apiNow = 0 /\ saved = {} /\ runs = {} /\ listed = {} /\ running = {} /\ answered = {}
      /\ requestLog = [k \in Api!Keys |-> {}] /\ admitted = [k \in Api!Keys |-> {}]
  BY DEF Init, Api!Init
<1>2. ApiTyped
  BY <1>1, ApiFacts DEF ApiTyped
<1>3. RequestsLogged
  BY <1>1, ApiFacts, NothingLogged DEF RequestsLogged
<1>4. QED BY <1>2, <1>3 DEF ApiInv

\* Whoever is served is known to the policy and within the budget.
LEMMA ServedIsKnown ==
  ASSUME NEW q \in Api!Requests, Api!Judged(q) = 200
  PROVE  /\ q.key \in Api!Keys /\ q.key[2] \in ApiTokens
         /\ ~(Cardinality(Fresh(requestLog[q.key], apiNow, ApiWindow)) >= MaxRequests)
<1>1. q.key \in Api!Keys
  BY DEF Api!Requests
<1>2. Api!ResolveBearer(q.key[2])
  BY DEF Api!Judged
<1>3. ~(Api!Cardinality(Api!Recent(requestLog[q.key])) >= MaxRequests)
  BY DEF Api!Judged
<1>4. Api!Recent(requestLog[q.key]) = Fresh(requestLog[q.key], apiNow, ApiWindow)
  BY DEF Api!Recent, Fresh
<1>5. QED BY <1>1, <1>2, <1>3, <1>4, ApiFacts DEF Api!ResolveBearer

LEMMA PrunedRequests ==
  ASSUME ApiInv
  PROVE  /\ DOMAIN Api!Pruned = Api!Keys
         /\ \A k \in Api!Keys :
              /\ Api!Pruned[k] = Fresh(requestLog[k], apiNow, ApiWindow)
              /\ Logged(Api!Pruned[k], admitted[k], apiNow, ApiWindow, MaxRequests)
              /\ RecentKnown(Api!Pruned[k], admitted[k], apiNow, ApiWindow)
              /\ Api!Pruned[k] # {} => k[2] \in ApiTokens
<1>1. apiNow \in Nat
  BY ApiFacts DEF ApiInv, ApiTyped
<1>2. DOMAIN Api!Pruned = Api!Keys /\ \A k \in Api!Keys :
        Api!Pruned[k] = Fresh(requestLog[k], apiNow, ApiWindow)
  BY DEF Api!Pruned, Api!Recent, Fresh
<1>3. \A k \in Api!Keys : Fresh(requestLog[k], apiNow, ApiWindow) # {} => requestLog[k] # {}
  BY DEF Fresh
<1>4. QED BY <1>1, <1>2, <1>3, ApiFacts, LogForgets DEF ApiInv, RequestsLogged

LEMMA BudgetKeeps ==
  ASSUME ApiInv, NEW q \in Api!Requests, Api!Judged(q) = 200, Api!Budget(q), UNCHANGED apiNow
  PROVE  DOMAIN requestLog' = Api!Keys /\ DOMAIN admitted' = Api!Keys /\ RequestsLogged'
<1> DEFINE k == q.key
           e == Api!Stamp(k)
           fresh == Fresh(requestLog[k], apiNow, ApiWindow)
<1>1. k \in Api!Keys /\ k[2] \in ApiTokens /\ apiNow \in Nat
  BY ServedIsKnown, ApiFacts DEF ApiInv, ApiTyped
<1>2. e = [n |-> Cardinality(admitted[k]) + 1, at |-> apiNow]
  BY ApiFacts DEF Api!Stamp
<1>3. /\ requestLog' = [Api!Pruned EXCEPT ![k] = @ \cup {e}]
      /\ admitted' = [admitted EXCEPT ![k] = @ \cup {e}]
  BY DEF Api!Budget
<1>4. /\ Logged(requestLog[k], admitted[k], apiNow, ApiWindow, MaxRequests)
      /\ RecentKnown(requestLog[k], admitted[k], apiNow, ApiWindow)
  BY <1>1 DEF ApiInv, RequestsLogged
<1>5. Cardinality(fresh) < MaxRequests
  <2>1. IsFiniteSet(fresh)
    <3>1. fresh \in SUBSET admitted[k] /\ IsFiniteSet(admitted[k])
      BY <1>4 DEF Logged, Fresh
    <3> HIDE DEF fresh
    <3>2. QED BY <3>1, FS_Subset
  <2>2. Cardinality(fresh) \in Nat
    BY <2>1, FS_CardinalityType
  <2>3. ~(Cardinality(fresh) >= MaxRequests)
    BY ServedIsKnown
  <2> HIDE DEF fresh
  <2>4. QED BY <2>2, <2>3, ApiFacts
<1>6. /\ Logged(fresh \cup {e}, admitted[k] \cup {e}, apiNow, ApiWindow, MaxRequests)
      /\ RecentKnown(fresh \cup {e}, admitted[k] \cup {e}, apiNow, ApiWindow)
  <2> HIDE DEF e, k
  <2> QED BY <1>1, <1>2, <1>4, <1>5, ApiFacts, LogGrows
<1> HIDE DEF e, fresh
<1>7. DOMAIN requestLog' = Api!Keys /\ DOMAIN admitted' = Api!Keys
  BY <1>3, PrunedRequests DEF ApiInv, ApiTyped
<1>8. /\ requestLog'[k] = fresh \cup {e} /\ admitted'[k] = admitted[k] \cup {e}
      /\ \A j \in Api!Keys : j # k => requestLog'[j] = Api!Pruned[j] /\ admitted'[j] = admitted[j]
  BY <1>1, <1>3, PrunedRequests DEF ApiInv, ApiTyped, fresh
<1> HIDE DEF k
<1>9. RequestsLogged'
  <2>1. ASSUME NEW j \in Api!Keys
        PROVE  /\ Logged(requestLog'[j], admitted'[j], apiNow, ApiWindow, MaxRequests)
               /\ RecentKnown(requestLog'[j], admitted'[j], apiNow, ApiWindow)
               /\ requestLog'[j] # {} => j[2] \in ApiTokens
    <3>1. CASE j = k
      BY <1>1, <1>6, <1>8, <3>1
    <3>2. CASE j # k
      BY <1>8, <3>2, PrunedRequests
    <3>3. QED BY <3>1, <3>2
  <2>2. Api!Keys' = Api!Keys
    BY DEF Api!Keys
  <2>3. QED BY <2>1, <2>2 DEF RequestsLogged
<1>10. QED BY <1>7, <1>9

LEMMA ApiInductive ==
  ASSUME ApiInv, [Next]_vars PROVE ApiInv'
<1>1. CASE UNCHANGED apiVars
  BY <1>1 DEF apiVars, ApiInv, ApiTyped, RequestsLogged, Logged, RecentKnown, Api!Keys
<1>2. ASSUME UNCHANGED apiNow, DOMAIN requestLog' = Api!Keys, DOMAIN admitted' = Api!Keys,
             RequestsLogged',
             \/ UNCHANGED <<saved, runs, listed, running, answered>>
             \/ \E p \in Pipelines :
                  saved' = saved \cup {p} /\ UNCHANGED <<runs, listed, running, answered>>
             \/ \E r : /\ runs' = runs \cup {r} /\ running' = running \cup {r}
                       /\ listed' \subseteq listed \cup {r} /\ UNCHANGED <<saved, answered>>
             \/ \E r \in running : /\ running' = running \ {r} /\ answered' = answered \cup {r}
                                   /\ UNCHANGED <<saved, runs, listed>>
      PROVE  ApiInv'
  <2>1. ApiTyped'
    BY <1>2 DEF ApiInv, ApiTyped
  <2>2. QED BY <1>2, <2>1 DEF ApiInv
<1>3. ASSUME NEW method, Api!Admit(method), UNCHANGED apiNow
      PROVE  DOMAIN requestLog' = Api!Keys /\ DOMAIN admitted' = Api!Keys /\ RequestsLogged'
  BY <1>3, BudgetKeeps DEF Api!Admit
<1>4. ASSUME UNCHANGED <<apiNow, requestLog, admitted>>
      PROVE  DOMAIN requestLog' = Api!Keys /\ DOMAIN admitted' = Api!Keys /\ RequestsLogged'
  BY <1>4 DEF ApiInv, ApiTyped, RequestsLogged, Logged, RecentKnown
<1>5. ASSUME Api!Refuse PROVE ApiInv'
  <2>1. PICK q \in Api!Requests : requestLog' = Api!LogOfRefused(q)
    BY <1>5 DEF Api!Refuse
  <2>2. UNCHANGED <<apiNow, admitted, saved, runs, listed, running, answered>>
    BY <1>5 DEF Api!Refuse
  <2>3. CASE requestLog' = requestLog
    BY <1>2, <1>4, <2>2, <2>3
  <2>4. CASE requestLog' = Api!Pruned
    <3>1. DOMAIN requestLog' = Api!Keys /\ DOMAIN admitted' = Api!Keys /\ RequestsLogged'
      BY <2>2, <2>4, PrunedRequests DEF ApiInv, ApiTyped, RequestsLogged
    <3>2. QED BY <1>2, <2>2, <3>1
  <2>5. QED BY <2>1, <2>3, <2>4 DEF Api!LogOfRefused
<1>6. ASSUME Api!Read \/ Api!NoSuchPipeline PROVE ApiInv'
  BY <1>2, <1>3, <1>6 DEF Api!Read, Api!NoSuchPipeline
<1>7. ASSUME NEW p \in Pipelines, Api!SavePipeline(p) PROVE ApiInv'
  BY <1>2, <1>3, <1>7 DEF Api!SavePipeline
<1>8. ASSUME NEW p \in Pipelines, NEW r \in RunIds, Api!RunPipeline(p, r) PROVE ApiInv'
  BY <1>2, <1>3, <1>8 DEF Api!RunPipeline
<1>9. ASSUME NEW r \in RunIds, Api!Answer(r) PROVE ApiInv'
  BY <1>2, <1>4, <1>9 DEF Api!Answer
<1>10. ASSUME Api!Tick PROVE ApiInv'
  <2>1. apiNow < ApiClock /\ apiNow' = apiNow + 1
        /\ UNCHANGED <<requestLog, admitted, saved, runs, listed, running, answered>>
    BY <1>10 DEF Api!Tick
  <2>2. apiNow \in Nat /\ ApiClock \in Nat
    BY ApiFacts DEF ApiInv, ApiTyped
  <2>3. apiNow' \in Nat /\ apiNow' >= apiNow /\ apiNow' \in 0..ApiClock
    BY <2>1, <2>2
  <2>4. RequestsLogged'
    BY <2>1, <2>2, <2>3, ApiFacts, LogAges DEF ApiInv, RequestsLogged
  <2>5. QED BY <2>1, <2>3, <2>4 DEF ApiInv, ApiTyped
<1>11. CASE Api!Next
  BY <1>5, <1>6, <1>7, <1>8, <1>9, <1>10, <1>11 DEF Api!Next
<1>12. QED
  BY <1>1, <1>11 DEF Next, HubStep, RunStep, PoolStep, ManagerStep, ApiStep, vars

LEMMA ApiKept ==
  ASSUME ApiInv PROVE Api!TypeOK /\ Api!RequestsBounded /\ Api!StrangersAreNotLogged
<1>1. Api!TypeOK
  BY ApiFacts DEF ApiInv, ApiTyped, RequestsLogged, Logged, Api!TypeOK
<1>2. Api!RequestsBounded
  BY ApiFacts DEF ApiInv, RequestsLogged, Logged, Api!RequestsBounded
<1>3. Api!StrangersAreNotLogged
  BY DEF ApiInv, RequestsLogged, Api!StrangersAreNotLogged
<1>4. QED BY <1>1, <1>2, <1>3

\* WebSocketHub.ts, ApiServer.ts: connections, subscriptions, messages and
\* requests are within their limits, in every window and over every socket of
\* a principal; a closed hub has no open socket, and no stranger is logged.
THEOREM ForgeHubLimitsHold == Spec => []HubLimitsHold
<1>1. Init => HubInv /\ ApiInv
  BY HubInitial, ApiInitial
<1>2. (HubInv /\ ApiInv) /\ [Next]_vars => (HubInv /\ ApiInv)'
  BY HubInductive, ApiInductive
<1>3. HubInv /\ ApiInv => HubLimitsHold
  BY HubKept, ApiKept DEF HubLimitsHold
<1>4. QED BY <1>1, <1>2, <1>3, PTL DEF Spec

--------------------------------------------------------------------------
(* ForgeRuns: the groups up to a front are over and those after it are not *)
(* touched, so that the steps under way are of one group; what a server    *)
(* got is bounded by the call and the attempt a step is at; and between    *)
(* the calls of an iteration of a loop whose variable is its own the bus   *)
(* holds the item of the iteration.                                        *)

Steps(r) == Engine!Steps(r)
GroupSteps(r, g) == Engine!Members(Groups[r][g])
RunRec == [pc : {"idle", "next", "group", "settled", "lost"}, group : Nat, dry : BOOLEAN]
BusValues == ((UNION {Steps(r) : r \in Runs}) \cup {None}) \X Nat
Bus == [Variables -> BusValues]
TaskRec ==
  [st : {"idle", "ready", "input", "calling", "backoff", "done", "failed"}, call : Nat \ {0},
   attempts : Nat, item : BusValues, branch : Branches \cup {None}]
ExecRec == [got : Nat, running : Nat]

RunsShape ==
  /\ phase \in {"up", "stopping", "closed", "ended"}
  /\ DOMAIN rows = Runs /\ DOMAIN run = Runs
  /\ DOMAIN task = Runs /\ DOMAIN bus = Runs /\ DOMAIN exec = Runs

RunTyped(r) ==
  /\ rows[r] \in {"none", "running", "success", "failed"}
  /\ run[r] \in RunRec /\ run[r].group <= Len(Groups[r])
  /\ task[r] \in [Steps(r) -> TaskRec]
  /\ bus[r] \in Bus
  /\ exec[r] \in [Steps(r) -> ExecRec]

\* The record of a run, and where the run is.
RecordInv(r) ==
  /\ rows[r] = "none" <=> run[r].pc = "idle"
  /\ run[r].pc \in {"next", "group"} => rows[r] = "running"
  /\ run[r].pc = "settled" /\ phase # "closed" => rows[r] # "running"
  /\ phase = "ended" => run[r].pc \in {"idle", "lost"}

Over(r, g) ==
  \A s \in GroupSteps(r, g) :
    \/ task[r][s].st = "done"
    \/ run[r].dry /\ Len(Groups[r][g]) = 1 /\ task[r][s].st = "idle"
Untouched(r, g) == \A s \in GroupSteps(r, g) : task[r][s].st = "idle"

Front(r, n) ==
  /\ \A g \in DOMAIN Groups[r] : (g < n => Over(r, g)) /\ (g > n => Untouched(r, g))
  /\ run[r].pc = "idle" => n = 0
  /\ run[r].pc \in {"next", "group"} => n = run[r].group
  /\ run[r].pc = "next" /\ n \in DOMAIN Groups[r] => Over(r, n)

ProgressInv(r) ==
  run[r].pc # "lost" => /\ \E n \in 0..Len(Groups[r]) : Front(r, n)
                        /\ rows[r] = "success" => \A g \in DOMAIN Groups[r] : Over(r, g)

ItemAt(s, t) == Engine!Item(s, Engine!Iteration(t.call))

\* A step at its t.call-th call and the attempts of it that failed; `item' is
\* what the bus of its run holds under the name of its variable.
CallOK(r, s, t, got, item, lost) ==
  /\ t.attempts < MaxAttempts[s]
  /\ t.call = 1 \/ t.call <= Engine!Calls(s)
  /\ t.st \in {"input", "calling", "backoff"} => t.call <= Engine!Calls(s) /\ Kind[s] \in {"tool", "loop"}
  /\ t.st = "idle" /\ ~lost => got = 0
  /\ t.st \in {"ready", "input", "backoff"} => got <= MaxAttempts[s] * (t.call - 1) + t.attempts
  /\ t.st = "calling" => got <= MaxAttempts[s] * (t.call - 1) + t.attempts + 1
  /\ got <= MaxAttempts[s] * Engine!Calls(s)
  /\ Kind[s] = "loop" /\ Engine!OwnVariable(r, s) /\ ~lost =>
       /\ t.st \in {"input", "calling", "backoff"} => t.item = ItemAt(s, t) /\ item = ItemAt(s, t)
       /\ t.st = "ready" /\ (t.call - 1) % Children # 0 => item = ItemAt(s, t)

CallsInv(r) ==
  \A s \in Steps(r) :
    CallOK(r, s, task[r][s], exec[r][s].got, bus[r][As[s]], run[r].pc = "lost")

RunInv(r) == RunTyped(r) /\ RecordInv(r) /\ ProgressInv(r) /\ CallsInv(r)
RunsInv == RunsShape /\ \A r \in Runs : RunInv(r)

LEMMA RunsFacts ==
  ASSUME NEW r \in Runs
  PROVE  /\ Groups[r] \in Seq(Seq(Steps(r))) /\ Len(Groups[r]) \in Nat
         /\ DOMAIN Groups[r] = 1..Len(Groups[r])
         /\ \A g \in DOMAIN Groups[r] : GroupSteps(r, g) \subseteq Steps(r)
         /\ \A g, h \in DOMAIN Groups[r] : g # h => GroupSteps(r, g) \cap GroupSteps(r, h) = {}
         /\ \A s \in Steps(r) : /\ \E g \in DOMAIN Groups[r] : s \in GroupSteps(r, g)
                                /\ MaxAttempts[s] \in Nat \ {0} /\ Engine!Calls(s) \in Nat
                                /\ Kind[s] \in {"tool", "typed", "local", "condition", "loop"}
                                /\ OutputAs[s] \in Variables \cup {None}
         /\ \A s \in Steps(r) : Kind[s] = "loop" =>
              As[s] \in Variables /\ ChildOutputAs[s] \in [1..Children -> Variables \cup {None}]
         /\ Items \in Nat /\ Children \in Nat \ {0} /\ None \notin Variables
<1>1. /\ Groups[r] \in Seq(Seq(Steps(r)))
      /\ \A g, h \in DOMAIN Groups[r] : g # h => GroupSteps(r, g) \cap GroupSteps(r, h) = {}
      /\ \A s \in Steps(r) : MaxAttempts[s] \in Nat \ {0}
                             /\ Kind[s] \in {"tool", "typed", "local", "condition", "loop"}
                             /\ OutputAs[s] \in Variables \cup {None}
      /\ \A s \in Steps(r) : Kind[s] = "loop" =>
           As[s] \in Variables /\ ChildOutputAs[s] \in [1..Children -> Variables \cup {None}]
      /\ Items \in Nat /\ Children \in Nat \ {0} /\ None \notin Variables
  BY ForgeAssumption DEF Engine!RunsAssumption, Steps, GroupSteps
<1>2. Len(Groups[r]) \in Nat /\ DOMAIN Groups[r] = 1..Len(Groups[r])
  BY <1>1
<1>3. /\ \A g \in DOMAIN Groups[r] : GroupSteps(r, g) \subseteq Steps(r)
      /\ \A s \in Steps(r) : \E g \in DOMAIN Groups[r] : s \in GroupSteps(r, g)
  BY DEF Steps, Engine!Steps, GroupSteps
<1>4. \A s \in Steps(r) : Engine!Calls(s) \in Nat
  BY <1>1 DEF Engine!Calls
<1>5. QED BY <1>1, <1>2, <1>3, <1>4

LEMMA GroupNumbers ==
  ASSUME NEW r \in Runs
  PROVE  Len(Groups[r]) \in Nat /\ DOMAIN Groups[r] = 1..Len(Groups[r])
BY RunsFacts

LEMMA UnsetTyped == Engine!Unset \in BusValues /\ Engine!NoTask \in TaskRec
<1>1. Engine!Unset \in BusValues
  BY DEF Engine!Unset, BusValues
<1>2. QED BY <1>1 DEF Engine!NoTask, TaskRec

LEMMA RunsInitial == Init => RunsInv
<1> SUFFICES ASSUME Init PROVE RunsInv
  OBVIOUS
<1>1. /\ phase = "up" /\ rows = [r \in Runs |-> "none"] /\ run = [r \in Runs |-> Engine!NoRun]
      /\ task = [r \in Runs |-> [s \in Steps(r) |-> Engine!NoTask]]
      /\ bus = [r \in Runs |-> [v \in Variables |-> Engine!Unset]]
      /\ exec = [r \in Runs |-> [s \in Steps(r) |-> [got |-> 0, running |-> 0]]]
  BY DEF Init, Engine!Init, Steps
<1>2. RunsShape
  BY <1>1 DEF RunsShape
<1>3. ASSUME NEW r \in Runs PROVE RunInv(r)
  <2>1. RunTyped(r)
    <3>1. /\ run[r] = Engine!NoRun /\ task[r] = [s \in Steps(r) |-> Engine!NoTask]
          /\ bus[r] = [v \in Variables |-> Engine!Unset] /\ rows[r] = "none"
          /\ exec[r] = [s \in Steps(r) |-> [got |-> 0, running |-> 0]]
      BY <1>1, <1>3
    <3>2. Engine!NoRun \in RunRec /\ Engine!NoRun.group <= Len(Groups[r])
      BY <1>3, RunsFacts DEF Engine!NoRun, RunRec
    <3>3. bus[r] \in Bus
      BY <3>1, UnsetTyped DEF Bus
    <3>4. task[r] \in [Steps(r) -> TaskRec] /\ exec[r] \in [Steps(r) -> ExecRec]
      BY <3>1, UnsetTyped DEF ExecRec
    <3>5. QED BY <3>1, <3>2, <3>3, <3>4 DEF RunTyped
  <2>2. RecordInv(r)
    BY <1>1, <1>3 DEF RecordInv, Engine!NoRun
  <2>3. ProgressInv(r)
    <3>1. \A g \in DOMAIN Groups[r] : Untouched(r, g)
      BY <1>1, <1>3, RunsFacts DEF Untouched, Engine!NoTask
    <3>2. Front(r, 0)
      BY <1>1, <1>3, <3>1, RunsFacts DEF Front, Engine!NoRun
    <3>3. QED BY <1>1, <1>3, <3>2, RunsFacts DEF ProgressInv
  <2>4. ASSUME NEW s \in Steps(r)
        PROVE  CallOK(r, s, task[r][s], exec[r][s].got, bus[r][As[s]], run[r].pc = "lost")
    <3>1. /\ task[r][s].st = "idle" /\ task[r][s].call = 1 /\ task[r][s].attempts = 0
          /\ exec[r][s].got = 0
      BY <1>1, <1>3, <2>4 DEF Engine!NoTask
    <3>2. MaxAttempts[s] \in Nat \ {0} /\ Engine!Calls(s) \in Nat
      BY <1>3, <2>4, RunsFacts
    <3>3. 0 <= MaxAttempts[s] * Engine!Calls(s)
      BY <3>2
    <3>4. QED BY <3>1, <3>2, <3>3 DEF CallOK
  <2>5. QED BY <2>1, <2>2, <2>3, <2>4 DEF RunInv, CallsInv
<1>4. QED BY <1>2, <1>3 DEF RunsInv

LEMMA RunStands ==
  ASSUME RunsInv, NEW r \in Runs, UNCHANGED phase, rows'[r] = rows[r], run'[r] = run[r],
         task'[r] = task[r], bus'[r] = bus[r], exec'[r] = exec[r]
  PROVE  RunInv(r)'
<1>1. RunInv(r)
  BY DEF RunsInv
<1>2. RunTyped(r)' /\ RecordInv(r)' /\ CallsInv(r)'
  BY <1>1 DEF RunInv, RunTyped, RecordInv, CallsInv
<1>3. \A g : (Over(r, g) => Over(r, g)') /\ (Untouched(r, g) => Untouched(r, g)')
  BY DEF Over, Untouched
<1>4. \A n : Front(r, n) => Front(r, n)'
  BY <1>3 DEF Front
<1>5. ProgressInv(r)'
  BY <1>1, <1>3, <1>4 DEF RunInv, ProgressInv
<1>6. QED BY <1>2, <1>5 DEF RunInv

\* A step of one run leaves the others.
LEMMA OneRun ==
  ASSUME RunsInv, NEW r \in Runs, UNCHANGED phase, RunsShape', RunInv(r)',
         \A q \in Runs : q # r => /\ rows'[q] = rows[q] /\ run'[q] = run[q] /\ task'[q] = task[q]
                                  /\ bus'[q] = bus[q] /\ exec'[q] = exec[q]
  PROVE  RunsInv'
<1>1. ASSUME NEW q \in Runs, q # r PROVE RunInv(q)'
  BY <1>1, RunStands
<1>2. QED BY <1>1 DEF RunsInv

\* What changes of f is the entry of one step of one run.
Entry(f, g, r, s, S, v) ==
  /\ DOMAIN g = Runs /\ \A q \in Runs : q # r => g[q] = f[q]
  /\ g[r] \in [Steps(r) -> S] /\ g[r][s] = v
  /\ \A x \in Steps(r) : x # s => g[r][x] = f[r][x]

LEMMA EntryChanges ==
  ASSUME NEW f, DOMAIN f = Runs, NEW r \in Runs, NEW S, f[r] \in [Steps(r) -> S],
         NEW s \in Steps(r), NEW v \in S
  PROVE  Entry(f, [f EXCEPT ![r][s] = v], r, s, S, v) /\ Entry(f, f, r, s, S, f[r][s])
<1> DEFINE g == [f EXCEPT ![r][s] = v]
           h == [f[r] EXCEPT ![s] = v]
<1>1. h \in [Steps(r) -> S] /\ h[s] = v /\ \A x \in Steps(r) : x # s => h[x] = f[r][x]
  OBVIOUS
<1>2. g = [f EXCEPT ![r] = h]
  OBVIOUS
<1> HIDE DEF h
<1>3. DOMAIN g = Runs /\ g[r] = h /\ \A q \in Runs : q # r => g[q] = f[q]
  BY <1>2
<1> HIDE DEF g
<1>4. Entry(f, g, r, s, S, v)
  BY <1>1, <1>3 DEF Entry
<1>5. Entry(f, f, r, s, S, f[r][s])
  BY DEF Entry
<1>6. QED BY <1>4, <1>5 DEF g

\* What changes of the buses are variables that a step of r sets.
BusMoves(r, s) ==
  /\ DOMAIN bus' = Runs /\ \A q \in Runs : q # r => bus'[q] = bus[q]
  /\ bus'[r] \in Bus /\ \A v \in Variables \ Engine!Sets(s) : bus'[r][v] = bus[r][v]

LEMMA BusStands ==
  ASSUME RunsInv, NEW r \in Runs, NEW s, UNCHANGED bus
  PROVE  BusMoves(r, s)
BY DEF RunsInv, RunsShape, RunInv, RunTyped, BusMoves

LEMMA BusIsPut ==
  ASSUME RunsInv, NEW r \in Runs, NEW data, bus' = [bus EXCEPT ![r] = data]
  PROVE  DOMAIN bus' = Runs /\ bus'[r] = data /\ \A q \in Runs : q # r => bus'[q] = bus[q]
BY DEF RunsInv, RunsShape

LEMMA PutFacts ==
  ASSUME NEW data \in Bus, NEW name \in Variables \cup {None}, NEW value \in BusValues
  PROVE  /\ Engine!Put(data, name, value) \in Bus
         /\ \A v \in Variables \ {name} : Engine!Put(data, name, value)[v] = data[v]
         /\ name # None => Engine!Put(data, name, value)[name] = value
BY DEF Bus, Engine!Put

\* The steps of a run that are under way are of one group: a loop whose
\* variable is its own meets no other that sets it.
LEMMA VariableIsOwn ==
  ASSUME RunsInv, NEW r \in Runs, run[r].pc # "lost", NEW s \in Steps(r), NEW x \in Steps(r), x # s,
         task[r][s].st \in {"ready", "input", "calling", "backoff"},
         task[r][x].st \in {"ready", "input", "calling", "backoff"},
         Engine!OwnVariable(r, x)
  PROVE  As[x] \notin Engine!Sets(s)
<1>1. PICK n \in 0..Len(Groups[r]) : Front(r, n)
  BY DEF RunsInv, RunInv, ProgressInv
<1>2. PICK g \in DOMAIN Groups[r], h \in DOMAIN Groups[r] :
        s \in GroupSteps(r, g) /\ x \in GroupSteps(r, h)
  BY RunsFacts
<1>3. ASSUME NEW k \in DOMAIN Groups[r], NEW y \in GroupSteps(r, k),
             task[r][y].st \in {"ready", "input", "calling", "backoff"}
      PROVE  k = n
  <2>1. ~Over(r, k) /\ ~Untouched(r, k)
    BY <1>3 DEF Over, Untouched
  <2>2. ~(k < n) /\ ~(k > n)
    BY <1>1, <2>1 DEF Front
  <2>3. QED BY <2>2, GroupNumbers
<1>4. g = n /\ h = n
  BY <1>2, <1>3
<1>5. QED BY <1>2, <1>4 DEF Engine!OwnVariable, GroupSteps

\* What the end of a step does to its run.
Ends(r, s, t) ==
  \/ UNCHANGED <<run, rows>>
  \/ /\ run[r].pc = "group" /\ t.st = "done" /\ Engine!GroupDone(r, s)
     /\ run' = [run EXCEPT ![r].pc = "next"] /\ UNCHANGED rows
  \/ run[r].pc = "group" /\ Engine!Settle(r, "failed")

LEMMA EndsChangeOneRun ==
  ASSUME RunsInv, NEW r \in Runs, NEW s, NEW t, Ends(r, s, t)
  PROVE  /\ DOMAIN rows' = Runs /\ DOMAIN run' = Runs
         /\ \A q \in Runs : q # r => run'[q] = run[q] /\ rows'[q] = rows[q]
         /\ run'[r] \in RunRec /\ run'[r].dry = run[r].dry /\ run'[r].group = run[r].group
         /\ \/ run'[r].pc = run[r].pc /\ rows'[r] = rows[r]
            \/ /\ run[r].pc = "group" /\ t.st = "done" /\ Engine!GroupDone(r, s)
               /\ run'[r].pc = "next" /\ rows'[r] = rows[r]
            \/ /\ run[r].pc = "group" /\ run'[r].pc = "settled"
               /\ rows'[r] = IF phase = "closed" THEN rows[r] ELSE "failed"
<1>1. DOMAIN rows = Runs /\ DOMAIN run = Runs /\ run[r] \in RunRec
  BY DEF RunsInv, RunsShape, RunInv, RunTyped
<1>2. ASSUME NEW pc \in {"next", "settled"}, run' = [run EXCEPT ![r].pc = pc]
      PROVE  /\ DOMAIN run' = Runs /\ \A q \in Runs : q # r => run'[q] = run[q]
             /\ run'[r] \in RunRec /\ run'[r].dry = run[r].dry /\ run'[r].group = run[r].group
             /\ run'[r].pc = pc
  <2>1. run' = [run EXCEPT ![r] = [run[r] EXCEPT !.pc = pc]]
    BY <1>2
  <2>2. [run[r] EXCEPT !.pc = pc] \in RunRec
    BY <1>1 DEF RunRec
  <2>3. QED BY <1>1, <2>1, <2>2 DEF RunRec
<1>3. CASE UNCHANGED <<run, rows>>
  BY <1>1, <1>3
<1>4. CASE /\ run[r].pc = "group" /\ t.st = "done" /\ Engine!GroupDone(r, s)
           /\ run' = [run EXCEPT ![r].pc = "next"] /\ UNCHANGED rows
  <2>1. /\ DOMAIN run' = Runs /\ \A q \in Runs : q # r => run'[q] = run[q]
        /\ run'[r] \in RunRec /\ run'[r].dry = run[r].dry /\ run'[r].group = run[r].group
        /\ run'[r].pc = "next"
    BY <1>2, <1>4
  <2>2. QED BY <1>1, <1>4, <2>1
<1>5. CASE run[r].pc = "group" /\ Engine!Settle(r, "failed")
  <2>1. /\ DOMAIN run' = Runs /\ \A q \in Runs : q # r => run'[q] = run[q]
        /\ run'[r] \in RunRec /\ run'[r].dry = run[r].dry /\ run'[r].group = run[r].group
        /\ run'[r].pc = "settled"
    BY <1>2, <1>5 DEF Engine!Settle
  <2>2. rows' = IF phase = "closed" THEN rows ELSE [rows EXCEPT ![r] = "failed"]
    BY <1>5 DEF Engine!Settle, Engine!Record
  <2>3. /\ DOMAIN rows' = Runs /\ \A q \in Runs : q # r => rows'[q] = rows[q]
        /\ rows'[r] = IF phase = "closed" THEN rows[r] ELSE "failed"
    BY <1>1, <2>2
  <2>4. QED BY <1>5, <2>1, <2>3
<1>6. QED BY <1>3, <1>4, <1>5 DEF Ends

\* The groups, when a step that is under way goes on.
LEMMA StepProgress ==
  ASSUME RunsInv, NEW r \in Runs, NEW s \in Steps(r),
         task[r][s].st \in {"ready", "input", "calling", "backoff"},
         NEW t \in TaskRec, t.st # "idle", Entry(task, task', r, s, TaskRec, t), Ends(r, s, t)
  PROVE  ProgressInv(r)'
<1> SUFFICES ASSUME run'[r].pc # "lost" PROVE ProgressInv(r)'
  BY DEF ProgressInv
<1>0. /\ \A g \in DOMAIN Groups[r] : GroupSteps(r, g) \subseteq Steps(r)
      /\ \A x \in Steps(r) : x # s => task'[r][x] = task[r][x]
      /\ task'[r][s] = t /\ run'[r].dry = run[r].dry /\ run'[r].group = run[r].group
  BY RunsFacts, EndsChangeOneRun DEF Entry
<1>1. run[r].pc # "lost"
  BY EndsChangeOneRun
<1>2. PICK n \in 0..Len(Groups[r]) : Front(r, n)
  BY <1>1 DEF RunsInv, RunInv, ProgressInv
<1>3. \A g \in DOMAIN Groups[r] : Over(r, g) => Over(r, g)'
  BY <1>0 DEF Over
<1>4. \A g \in DOMAIN Groups[r] : Untouched(r, g) => Untouched(r, g)'
  BY <1>0 DEF Untouched
<1>5. CASE run'[r].pc = run[r].pc /\ rows'[r] = rows[r]
  <2>1. Front(r, n)'
    BY <1>0, <1>2, <1>3, <1>4, <1>5 DEF Front
  <2>2. rows'[r] = "success" => \A g \in DOMAIN Groups[r] : Over(r, g)'
    BY <1>1, <1>3, <1>5 DEF RunsInv, RunInv, ProgressInv
  <2>3. QED BY <2>1, <2>2 DEF ProgressInv
<1>6. CASE /\ run[r].pc = "group" /\ t.st = "done" /\ Engine!GroupDone(r, s)
           /\ run'[r].pc = "next" /\ rows'[r] = rows[r]
  <2>1. n = run[r].group /\ rows[r] = "running"
    BY <1>2, <1>6 DEF Front, RunsInv, RunInv, RecordInv
  <2>2. n \in DOMAIN Groups[r] => Over(r, n)'
    BY <1>0, <1>6, <2>1 DEF Over, Engine!GroupDone, Engine!GroupOf, GroupSteps
  <2>3. Front(r, n)'
    BY <1>0, <1>2, <1>3, <1>4, <1>6, <2>1, <2>2 DEF Front
  <2>4. QED BY <1>6, <2>1, <2>3 DEF ProgressInv
<1>7. CASE /\ run[r].pc = "group" /\ run'[r].pc = "settled"
           /\ rows'[r] = IF phase = "closed" THEN rows[r] ELSE "failed"
  <2>1. rows[r] = "running"
    BY <1>7 DEF RunsInv, RunInv, RecordInv
  <2>2. Front(r, n)'
    BY <1>2, <1>3, <1>4, <1>7 DEF Front
  <2>3. QED BY <1>7, <2>1, <2>2 DEF ProgressInv
<1>8. QED BY <1>5, <1>6, <1>7, EndsChangeOneRun

LEMMA StepKeeps ==
  ASSUME RunsInv, NEW r \in Runs, NEW s \in Steps(r), UNCHANGED phase, Engine!Alive,
         task[r][s].st \in {"ready", "input", "calling", "backoff"},
         NEW t \in TaskRec, t.st # "idle", Entry(task, task', r, s, TaskRec, t), Ends(r, s, t),
         BusMoves(r, s),
         NEW e, Entry(exec, exec', r, s, ExecRec, e),
         CallOK(r, s, t, e.got, bus'[r][As[s]], run[r].pc = "lost")
  PROVE  RunsInv' /\ Engine!RecordStays
<1>1. /\ DOMAIN rows' = Runs /\ DOMAIN run' = Runs
      /\ \A q \in Runs : q # r => run'[q] = run[q] /\ rows'[q] = rows[q]
      /\ run'[r] \in RunRec /\ run'[r].group = run[r].group
  BY EndsChangeOneRun
<1>2. /\ \/ run'[r].pc = run[r].pc /\ rows'[r] = rows[r]
         \/ run[r].pc = "group" /\ run'[r].pc = "next" /\ rows'[r] = rows[r]
         \/ /\ run[r].pc = "group" /\ run'[r].pc = "settled"
            /\ rows'[r] = IF phase = "closed" THEN rows[r] ELSE "failed"
  BY EndsChangeOneRun
<1>3. RunInv(r)
  BY DEF RunsInv
<1>4. RunsShape'
  BY <1>1 DEF RunsInv, RunsShape, Entry, BusMoves
<1>5. RunTyped(r)'
  BY <1>1, <1>2, <1>3 DEF RunInv, RunTyped, Entry, BusMoves
<1>6. RecordInv(r)'
  BY <1>2, <1>3 DEF RunInv, RecordInv, Engine!Alive
<1>7. ProgressInv(r)'
  BY StepProgress
<1>8. ASSUME NEW x \in Steps(r)
      PROVE  CallOK(r, x, task'[r][x], exec'[r][x].got, bus'[r][As[x]], run'[r].pc = "lost")
  <2>0. run[r].pc = "lost" <=> run'[r].pc = "lost"
    BY <1>2
  <2>1. CASE x = s
    <3>1. task'[r][x] = t /\ exec'[r][x] = e
      BY <2>1 DEF Entry
    <3>2. QED BY <2>0, <2>1, <3>1
  <2>2. CASE x # s
    <3>1. task'[r][x] = task[r][x] /\ exec'[r][x] = exec[r][x]
      BY <2>2 DEF Entry
    <3>2. CallOK(r, x, task[r][x], exec[r][x].got, bus[r][As[x]], run[r].pc = "lost")
      BY <1>3 DEF RunInv, CallsInv
    <3>3. CASE /\ Kind[x] = "loop" /\ Engine!OwnVariable(r, x) /\ run[r].pc # "lost"
               /\ task[r][x].st \in {"ready", "input", "calling", "backoff"}
      <4>1. As[x] \in Variables \ Engine!Sets(s)
        BY <2>2, <3>3, VariableIsOwn, RunsFacts
      <4>2. bus'[r][As[x]] = bus[r][As[x]]
        BY <4>1 DEF BusMoves
      <4>3. QED BY <2>0, <3>1, <3>2, <4>2
    <3>4. CASE ~(/\ Kind[x] = "loop" /\ Engine!OwnVariable(r, x) /\ run[r].pc # "lost"
                 /\ task[r][x].st \in {"ready", "input", "calling", "backoff"})
      BY <2>0, <3>1, <3>2, <3>4 DEF CallOK
    <3>5. QED BY <3>3, <3>4
  <2>3. QED BY <2>1, <2>2
<1>9. RunInv(r)'
  BY <1>5, <1>6, <1>7, <1>8 DEF RunInv, CallsInv
<1>10. RunsInv'
  BY <1>1, <1>4, <1>9, OneRun DEF Entry, BusMoves
<1>11. Engine!RecordStays
  <2>1. rows[r] \in {"success", "failed"} => rows'[r] = rows[r]
    BY <1>2, <1>3 DEF RunInv, RecordInv
  <2>2. QED BY <1>1, <2>1 DEF Engine!RecordStays
<1>12. QED BY <1>10, <1>11

LEMMA TimesGrows ==
  ASSUME NEW m \in Nat, NEW a \in Nat, NEW b \in Nat, a <= b
  PROVE  m * a \in Nat /\ m * b \in Nat /\ m * a <= m * b
<1>1. PICK d \in Nat : b = a + d
  <2>1. b - a \in Nat /\ b = a + (b - a)
    OBVIOUS
  <2>2. QED BY <2>1
<1>2. m * b = m * a + m * d /\ m * a \in Nat /\ m * d \in Nat
  BY <1>1
<1>3. QED BY <1>2

LEMMA TimesNext ==
  ASSUME NEW m \in Nat, NEW c \in Nat \ {0}
  PROVE  m * (c - 1) \in Nat /\ m * c \in Nat /\ m * (c - 1) + m = m * c
<1>1. PICK d \in Nat : c = d + 1
  <2>1. c - 1 \in Nat /\ c = (c - 1) + 1
    OBVIOUS
  <2>2. QED BY <2>1
<1>2. m * c = m * d + m /\ m * d \in Nat /\ c - 1 = d
  BY <1>1
<1>3. QED BY <1>2

LEMMA SameQuotient ==
  ASSUME NEW k \in Nat \ {0}, NEW n \in Nat \ {0}, n % k # 0
  PROVE  n \div k = (n - 1) \div k
<1>1. PICK q \in Nat, m \in Nat : q = n \div k /\ m = n % k
  OBVIOUS
<1>2. n = k * q + m /\ 0 < m /\ m < k
  BY <1>1
<1>3. n - 1 = k * q + (m - 1) /\ 0 <= m - 1 /\ m - 1 < k
  BY <1>2
<1>4. (n - 1) \div k = q
  BY <1>3
<1>5. QED BY <1>1, <1>4

LEMMA StepFacts ==
  ASSUME RunsInv, NEW r \in Runs, NEW s \in Steps(r)
  PROVE  /\ DOMAIN task = Runs /\ task[r] \in [Steps(r) -> TaskRec] /\ task[r][s] \in TaskRec
         /\ DOMAIN bus = Runs /\ bus[r] \in Bus
         /\ DOMAIN exec = Runs /\ exec[r] \in [Steps(r) -> ExecRec] /\ exec[r][s] \in ExecRec
         /\ MaxAttempts[s] \in Nat \ {0} /\ Engine!Calls(s) \in Nat
         /\ Items \in Nat /\ Children \in Nat \ {0}
         /\ CallOK(r, s, task[r][s], exec[r][s].got, bus[r][As[s]], run[r].pc = "lost")
<1>1. RunInv(r) /\ RunsShape
  BY DEF RunsInv
<1>2. RunTyped(r) /\ CallsInv(r)
  BY <1>1 DEF RunInv
<1>3. QED BY <1>1, <1>2, RunsFacts DEF RunsShape, RunTyped, CallsInv

\* The last step of a node: its task has ended, well or not.
LEMMA StepEnds ==
  ASSUME RunsInv, NEW r \in Runs, NEW s \in Steps(r), UNCHANGED phase, BusMoves(r, s), Engine!Alive,
         task[r][s].st \in {"ready", "input", "calling", "backoff"},
         NEW t \in TaskRec, t.st \in {"done", "failed"}, t.call = task[r][s].call,
         t.attempts = task[r][s].attempts, task' = [task EXCEPT ![r][s] = t], Ends(r, s, t),
         NEW e \in ExecRec, e.got = exec[r][s].got, Entry(exec, exec', r, s, ExecRec, e)
  PROVE  RunsInv' /\ Engine!RecordStays
<1>1. Entry(task, task', r, s, TaskRec, t)
  BY StepFacts, EntryChanges
<1>2. CallOK(r, s, t, e.got, bus'[r][As[s]], run[r].pc = "lost")
  BY StepFacts DEF CallOK
<1>3. QED BY <1>1, <1>2, StepKeeps

LEMMA SucceedsEnds ==
  ASSUME NEW r, NEW s, NEW data, Engine!Succeeds(r, s, data), NEW t, t.st = "done"
  PROVE  Ends(r, s, t)
BY DEF Ends, Engine!Succeeds

LEMMA StepFailsEnds ==
  ASSUME NEW r, NEW s, NEW t, Engine!StepFails(r, s)
  PROVE  Ends(r, s, t)
BY DEF Ends, Engine!StepFails

\* The output of a step goes to a variable it sets.
LEMMA OutputMoves ==
  ASSUME RunsInv, NEW r \in Runs, NEW s \in Steps(r), NEW data \in Bus, Engine!Succeeds(r, s, data),
         \A v \in Variables \ Engine!Sets(s) : data[v] = bus[r][v]
  PROVE  BusMoves(r, s)
<1>1. PICK d \in Engine!WithOutput(s, data) : bus' = [bus EXCEPT ![r] = d]
  BY DEF Engine!Succeeds
<1>2. OutputAs[s] \in Variables \cup {None} /\ Engine!Output(s) \in BusValues
  BY RunsFacts DEF Engine!Output, BusValues
<1>3. d = data \/ d = Engine!Put(data, OutputAs[s], Engine!Output(s))
  BY <1>1 DEF Engine!WithOutput
<1>4. d \in Bus /\ \A v \in Variables \ Engine!Sets(s) : d[v] = data[v]
  <2>1. OutputAs[s] \in Engine!Sets(s)
    BY DEF Engine!Sets
  <2>2. QED BY <1>2, <1>3, <2>1, PutFacts
<1>5. QED BY <1>1, <1>4, BusIsPut DEF BusMoves

\* StepDone and StepFails, as the end of the task.
LEMMA OutcomeKeeps ==
  ASSUME RunsInv, NEW r \in Runs, NEW s \in Steps(r), UNCHANGED phase, Engine!Alive,
         task[r][s].st \in {"ready", "input", "calling", "backoff"},
         NEW data \in Bus, \A v \in Variables \ Engine!Sets(s) : data[v] = bus[r][v],
         Engine!StepDone(r, s, data) \/ Engine!StepFails(r, s),
         NEW e \in ExecRec, e.got = exec[r][s].got, Entry(exec, exec', r, s, ExecRec, e)
  PROVE  RunsInv' /\ Engine!RecordStays
<1>1. ASSUME NEW st \in {"done", "failed"}, task' = [task EXCEPT ![r][s].st = st],
             BusMoves(r, s), \A t : t.st = st => Ends(r, s, t)
      PROVE  RunsInv' /\ Engine!RecordStays
  <2> DEFINE t == [task[r][s] EXCEPT !.st = st]
  <2>1. /\ t \in TaskRec /\ t.st = st /\ t.call = task[r][s].call
        /\ t.attempts = task[r][s].attempts
    BY <1>1, StepFacts DEF TaskRec
  <2>2. task' = [task EXCEPT ![r][s] = t]
    BY <1>1
  <2> HIDE DEF t
  <2>3. QED BY <1>1, <2>1, <2>2, StepEnds
<1>2. CASE Engine!StepDone(r, s, data)
  <2>1. task' = [task EXCEPT ![r][s].st = "done"] /\ Engine!Succeeds(r, s, data)
    BY <1>2 DEF Engine!StepDone
  <2>2. BusMoves(r, s) /\ \A t : t.st = "done" => Ends(r, s, t)
    BY <2>1, OutputMoves, SucceedsEnds
  <2>3. QED BY <1>1, <2>1, <2>2
<1>3. CASE Engine!StepFails(r, s)
  <2>1. task' = [task EXCEPT ![r][s].st = "failed"] /\ BusMoves(r, s)
    BY <1>3, BusStands DEF Engine!StepFails
  <2>2. \A t : t.st = "failed" => Ends(r, s, t)
    BY <1>3, StepFailsEnds
  <2>3. QED BY <1>1, <2>1, <2>2
<1>4. QED BY <1>2, <1>3

LEMMA LocalKeeps ==
  ASSUME RunsInv, NEW r \in Runs, NEW s \in Steps(r),
         Engine!LocalNode(r, s) \/ Engine!ConnectFails(r, s)
  PROVE  RunsInv' /\ Engine!RecordStays
<1>1. /\ Engine!Alive /\ task[r][s].st \in {"ready", "input", "calling", "backoff"}
      /\ Engine!StepDone(r, s, bus[r]) \/ Engine!StepFails(r, s)
      /\ UNCHANGED phase /\ exec' = exec
  BY DEF Engine!LocalNode, Engine!ConnectFails
<1>2. Entry(exec, exec', r, s, ExecRec, exec[r][s]) /\ exec[r][s] \in ExecRec /\ bus[r] \in Bus
  BY <1>1, StepFacts, EntryChanges
<1>3. QED BY <1>1, <1>2, OutcomeKeeps

LEMMA ConditionKeeps ==
  ASSUME RunsInv, NEW r \in Runs, NEW s \in Steps(r), Engine!ConditionNode(r, s)
  PROVE  RunsInv' /\ Engine!RecordStays
<1>1. Engine!Alive /\ task[r][s].st = "ready" /\ UNCHANGED phase /\ exec' = exec
  BY DEF Engine!ConditionNode
<1>2. Entry(exec, exec', r, s, ExecRec, exec[r][s]) /\ exec[r][s] \in ExecRec /\ bus[r] \in Bus
  BY <1>1, StepFacts, EntryChanges
<1>3. CASE Engine!StepFails(r, s)
  BY <1>1, <1>2, <1>3, OutcomeKeeps
<1>4. ASSUME NEW b \in Branches, task' = [task EXCEPT ![r][s].st = "done", ![r][s].branch = b],
             Engine!Succeeds(r, s, bus[r])
      PROVE  RunsInv' /\ Engine!RecordStays
  <2> DEFINE t == [task[r][s] EXCEPT !.st = "done", !.branch = b]
  <2>1. /\ t \in TaskRec /\ t.st = "done" /\ t.call = task[r][s].call
        /\ t.attempts = task[r][s].attempts
    BY StepFacts DEF TaskRec
  <2>2. task' = [task EXCEPT ![r][s] = t]
    BY <1>4, StepFacts
  <2> HIDE DEF t
  <2>3. Ends(r, s, t) /\ BusMoves(r, s)
    BY <1>2, <1>4, <2>1, SucceedsEnds, OutputMoves
  <2>4. QED BY <1>1, <1>2, <2>1, <2>2, <2>3, StepEnds
<1>5. QED BY <1>3, <1>4 DEF Engine!ConditionNode

\* A step that goes on: its run does not move.
LEMMA StepGoesOn ==
  ASSUME RunsInv, NEW r \in Runs, NEW s \in Steps(r), UNCHANGED <<phase, run, rows>>, Engine!Alive,
         task[r][s].st \in {"ready", "input", "calling", "backoff"},
         NEW t \in TaskRec, t.st # "idle", task' = [task EXCEPT ![r][s] = t],
         BusMoves(r, s),
         NEW e, Entry(exec, exec', r, s, ExecRec, e),
         CallOK(r, s, t, e.got, bus'[r][As[s]], run[r].pc = "lost")
  PROVE  RunsInv' /\ Engine!RecordStays
<1>1. Entry(task, task', r, s, TaskRec, t)
  BY StepFacts, EntryChanges
<1>2. Ends(r, s, t)
  BY DEF Ends
<1>3. QED BY <1>1, <1>2, StepKeeps

LEMMA ChildFacts ==
  ASSUME NEW call \in Nat \ {0}, Children \in Nat \ {0}
  PROVE  /\ Engine!ChildOf(call) \in 1..Children /\ Engine!Iteration(call) \in Nat
         /\ Engine!ChildOf(call) = 1 <=> (call - 1) % Children = 0
<1>1. call - 1 \in Nat
  OBVIOUS
<1>2. (call - 1) % Children \in 0..(Children - 1) /\ (call - 1) \div Children \in Nat
  BY <1>1
<1>3. QED BY <1>2 DEF Engine!ChildOf, Engine!Iteration

\* The output of a child goes to a variable its loop sets, and to the item's
\* only where that is not the loop's own.
LEMMA ChildMoves ==
  ASSUME NEW r \in Runs, NEW s \in Steps(r), Kind[s] = "loop", NEW call \in Nat \ {0},
         NEW data \in Bus
  PROVE  LET after == Engine!AfterChild(s, call, data)
         IN  /\ after \in Bus /\ \A v \in Variables \ Engine!Sets(s) : after[v] = data[v]
             /\ Engine!OwnVariable(r, s) => after[As[s]] = data[As[s]]
<1> DEFINE c == Engine!ChildOf(call)
<1>1. /\ c \in 1..Children /\ As[s] \in Variables
      /\ ChildOutputAs[s] \in [1..Children -> Variables \cup {None}]
  BY RunsFacts, ChildFacts
<1> HIDE DEF c
<1>2. ChildOutputAs[s][c] \in Variables \cup {None} /\ ChildOutputAs[s][c] \in Engine!Sets(s)
  BY <1>1 DEF Engine!Sets
<1>3. Engine!Output(s) \in BusValues
  BY DEF Engine!Output, BusValues
<1> DEFINE after == Engine!AfterChild(s, call, data)
<1>4. after = Engine!Put(data, ChildOutputAs[s][c], Engine!Output(s))
  BY DEF Engine!AfterChild, c
<1> HIDE DEF after
<1>5. Engine!OwnVariable(r, s) => ChildOutputAs[s][c] # As[s]
  BY <1>1 DEF Engine!OwnVariable
<1>6. after \in Bus /\ \A v \in Variables \ {ChildOutputAs[s][c]} : after[v] = data[v]
  BY <1>2, <1>3, <1>4, PutFacts
<1>7. Engine!OwnVariable(r, s) => after[As[s]] = data[As[s]]
  BY <1>1, <1>2, <1>3, <1>4, <1>5, PutFacts
<1>8. \A v \in Variables \ Engine!Sets(s) : after[v] = data[v]
  BY <1>2, <1>6
<1>9. QED BY <1>6, <1>7, <1>8 DEF after

LEMMA BeginKeeps ==
  ASSUME RunsInv, NEW r \in Runs, NEW s \in Steps(r), Engine!BeginCall(r, s)
  PROVE  RunsInv' /\ Engine!RecordStays
<1> DEFINE old == task[r][s]
<1>0. /\ Engine!Alive /\ Kind[s] \in {"tool", "loop"} /\ old.st = "ready"
      /\ UNCHANGED phase /\ exec' = exec
  BY DEF Engine!BeginCall
<1>1. Entry(exec, exec', r, s, ExecRec, exec[r][s]) /\ exec[r][s] \in ExecRec /\ bus[r] \in Bus
  BY <1>0, StepFacts, EntryChanges
<1>2. CASE Engine!Calls(s) = 0
  <2>1. Engine!StepDone(r, s, bus[r])
    BY <1>2 DEF Engine!BeginCall
  <2>2. QED BY <1>0, <1>1, <2>1, OutcomeKeeps
<1>3. CASE Engine!Calls(s) # 0
  <2>0. /\ old \in TaskRec /\ Children \in Nat \ {0} /\ DOMAIN bus = Runs
        /\ CallOK(r, s, old, exec[r][s].got, bus[r][As[s]], run[r].pc = "lost")
    BY StepFacts
  <2>1. old.call <= Engine!Calls(s) /\ old.call \in Nat \ {0} /\ Engine!Calls(s) \in Nat
    BY <1>3, <2>0, StepFacts DEF CallOK, TaskRec
  <2>2. ASSUME BusMoves(r, s), NEW i \in BusValues, UNCHANGED <<run, rows>>,
               task' = [task EXCEPT ![r][s].st = "input", ![r][s].item = i],
               Kind[s] = "loop" /\ Engine!OwnVariable(r, s) /\ run[r].pc # "lost"
                 => i = ItemAt(s, old) /\ bus'[r][As[s]] = ItemAt(s, old)
        PROVE  RunsInv' /\ Engine!RecordStays
    <3> DEFINE t == [old EXCEPT !.st = "input", !.item = i]
    <3>1. /\ t \in TaskRec /\ t.st = "input" /\ t.item = i /\ t.call = old.call
          /\ t.attempts = old.attempts
      BY <2>0 DEF TaskRec
    <3>2. task' = [task EXCEPT ![r][s] = t]
      BY <2>2, StepFacts
    <3> HIDE DEF t, old
    <3>3. ItemAt(s, t) = ItemAt(s, old)
      BY <3>1 DEF ItemAt
    <3>4. CallOK(r, s, t, exec[r][s].got, bus'[r][As[s]], run[r].pc = "lost")
      BY <1>0, <2>0, <2>1, <2>2, <3>1, <3>3 DEF CallOK
    <3>5. QED BY <1>0, <1>1, <2>2, <3>1, <3>2, <3>4, StepGoesOn DEF old
  <2>3. CASE Kind[s] = "tool"
    <3>1. UNCHANGED <<bus, run, rows>>
          /\ task' = [task EXCEPT ![r][s].st = "input", ![r][s].item = @]
      BY <1>3, <2>3 DEF Engine!BeginCall
    <3>2. old.item \in BusValues /\ task' = [task EXCEPT ![r][s].st = "input", ![r][s].item = old.item]
      BY <2>0, <3>1 DEF TaskRec
    <3>3. QED BY <2>2, <2>3, <3>1, <3>2, BusStands
  <2>4. CASE Kind[s] = "loop"
    <3> DEFINE before == IF old.call = 1 THEN bus[r]
                         ELSE Engine!AfterChild(s, old.call - 1, bus[r])
               data == Engine!SetItem(s, old.call, before)
    <3>1. /\ bus' = [bus EXCEPT ![r] = data] /\ UNCHANGED <<run, rows>>
          /\ task' = [task EXCEPT ![r][s].st = "input", ![r][s].item = bus'[r][As[s]]]
      BY <1>3, <2>0, <2>4 DEF Engine!BeginCall
    <3>2. /\ before \in Bus /\ \A v \in Variables \ Engine!Sets(s) : before[v] = bus[r][v]
          /\ Engine!OwnVariable(r, s) => before[As[s]] = bus[r][As[s]]
      <4>1. CASE old.call = 1
        BY <1>1, <4>1
      <4>2. CASE old.call # 1
        <5>1. old.call - 1 \in Nat \ {0}
          BY <2>1, <4>2
        <5>2. before = Engine!AfterChild(s, old.call - 1, bus[r])
          BY <4>2
        <5> HIDE DEF before
        <5>3. PICK call \in Nat \ {0} : before = Engine!AfterChild(s, call, bus[r])
          BY <5>1, <5>2
        <5>4. QED BY <1>1, <2>4, <5>3, ChildMoves
      <4>3. QED BY <4>1, <4>2
    <3>3. As[s] \in Variables /\ As[s] \in Engine!Sets(s) /\ None \notin Variables
      BY <2>4, RunsFacts DEF Engine!Sets
    <3>4. ItemAt(s, old) \in BusValues
      <4>1. Engine!Iteration(old.call) \in Nat
        BY <2>0, <2>1, ChildFacts
      <4>2. QED BY <4>1 DEF ItemAt, Engine!Item, BusValues
    <3> HIDE DEF before
    <3>5. data = IF Engine!ChildOf(old.call) = 1 THEN Engine!Put(before, As[s], ItemAt(s, old))
                 ELSE before
      BY DEF Engine!SetItem, ItemAt
    <3> HIDE DEF data
    <3>6. data \in Bus /\ \A v \in Variables \ Engine!Sets(s) : data[v] = bus[r][v]
      BY <3>2, <3>3, <3>4, <3>5, PutFacts
    <3>7. BusMoves(r, s) /\ bus'[r] = data
      BY <3>1, <3>6, BusIsPut DEF BusMoves
    <3>8. data[As[s]] \in BusValues
      BY <3>3, <3>6 DEF Bus
    <3>9. Engine!OwnVariable(r, s) /\ run[r].pc # "lost" => data[As[s]] = ItemAt(s, old)
      <4> SUFFICES ASSUME Engine!OwnVariable(r, s), run[r].pc # "lost"
                   PROVE  data[As[s]] = ItemAt(s, old)
        OBVIOUS
      <4>1. CASE Engine!ChildOf(old.call) = 1
        BY <3>2, <3>3, <3>4, <3>5, <4>1, PutFacts
      <4>2. CASE Engine!ChildOf(old.call) # 1
        <5>1. (old.call - 1) % Children # 0
          BY <2>0, <2>1, <4>2, ChildFacts
        <5>2. bus[r][As[s]] = ItemAt(s, old)
          BY <1>0, <2>0, <2>4, <5>1 DEF CallOK
        <5>3. QED BY <3>2, <3>5, <4>2, <5>2
      <4>3. QED BY <4>1, <4>2
    <3>10. QED BY <2>2, <3>1, <3>7, <3>8, <3>9
  <2>5. QED BY <1>0, <2>3, <2>4
<1>4. QED BY <1>2, <1>3

LEMMA InvokeKeeps ==
  ASSUME RunsInv, NEW r \in Runs, NEW s \in Steps(r), Engine!Invoke(r, s)
  PROVE  RunsInv' /\ Engine!RecordStays
<1> DEFINE old == task[r][s]
           t == [old EXCEPT !.st = "calling"]
           e == [exec[r][s] EXCEPT !.got = @ + 1, !.running = @ + 1]
<1>1. /\ Engine!Alive /\ old.st \in {"input", "backoff"}
      /\ task' = [task EXCEPT ![r][s].st = "calling"]
      /\ exec' = [exec EXCEPT ![r][s].got = @ + 1, ![r][s].running = @ + 1]
      /\ UNCHANGED <<phase, rows, run, bus>>
  BY DEF Engine!Invoke
<1>2. /\ old \in TaskRec /\ exec[r][s] \in ExecRec
      /\ CallOK(r, s, old, exec[r][s].got, bus[r][As[s]], run[r].pc = "lost")
      /\ MaxAttempts[s] \in Nat \ {0} /\ Engine!Calls(s) \in Nat
  BY StepFacts
<1>3. t \in TaskRec /\ t.st = "calling" /\ t.item = old.item /\ t.call = old.call
      /\ t.attempts = old.attempts
  BY <1>2 DEF TaskRec
<1>4. task' = [task EXCEPT ![r][s] = t]
  BY <1>1
<1>5. e \in ExecRec /\ e.got = exec[r][s].got + 1
  <2>1. exec[r][s].got + 1 \in Nat /\ exec[r][s].running + 1 \in Nat
    BY <1>2 DEF ExecRec
  <2>2. exec[r][s] \in [got : Nat, running : Nat]
    BY <1>2 DEF ExecRec
  <2>3. QED BY <2>1, <2>2 DEF ExecRec
<1>6. exec' = [exec EXCEPT ![r][s] = e]
  BY <1>1, StepFacts
<1> HIDE DEF e, t
<1>7. Entry(exec, exec', r, s, ExecRec, e)
  BY <1>5, <1>6, StepFacts, EntryChanges
<1>8. BusMoves(r, s) /\ ItemAt(s, t) = ItemAt(s, old)
  BY <1>1, <1>3, BusStands DEF ItemAt
<1>9. /\ exec[r][s].got <= MaxAttempts[s] * (old.call - 1) + old.attempts
      /\ old.attempts < MaxAttempts[s] /\ old.call <= Engine!Calls(s)
  BY <1>1, <1>2 DEF CallOK
<1>10. e.got <= MaxAttempts[s] * (old.call - 1) + old.attempts + 1
  <2>1. /\ old.call \in Nat \ {0} /\ old.attempts \in Nat /\ exec[r][s].got \in Nat
        /\ MaxAttempts[s] * (old.call - 1) \in Nat
    BY <1>2, TimesNext DEF TaskRec, ExecRec
  <2> DEFINE a == MaxAttempts[s] * (old.call - 1)
  <2>2. a \in Nat /\ exec[r][s].got <= a + old.attempts
    BY <1>9, <2>1
  <2> HIDE DEF a, old
  <2>3. e.got <= a + old.attempts + 1
    BY <1>5, <2>1, <2>2
  <2>4. QED BY <2>3 DEF a
<1>11. e.got <= MaxAttempts[s] * Engine!Calls(s)
  <2>1. old.call \in Nat \ {0} /\ old.attempts \in Nat /\ e.got \in Nat
    BY <1>2, <1>5 DEF TaskRec, ExecRec
  <2> DEFINE a == MaxAttempts[s] * (old.call - 1)
             b == MaxAttempts[s] * old.call
             c == MaxAttempts[s] * Engine!Calls(s)
  <2>2. a \in Nat /\ b \in Nat /\ c \in Nat /\ a + MaxAttempts[s] = b /\ b <= c
        /\ e.got <= a + old.attempts + 1
    BY <1>2, <1>9, <1>10, <2>1, TimesNext, TimesGrows
  <2> HIDE DEF a, b, c
  <2>3. e.got <= c
    BY <1>2, <1>9, <2>1, <2>2
  <2>4. QED BY <2>3 DEF c
<1>12. CallOK(r, s, t, e.got, bus'[r][As[s]], run[r].pc = "lost")
  BY <1>1, <1>2, <1>3, <1>8, <1>10, <1>11 DEF CallOK
<1>13. QED BY <1>1, <1>3, <1>4, <1>7, <1>8, <1>12, StepGoesOn

\* A call ends on the server.
LEMMA CallEnds ==
  ASSUME RunsInv, NEW r \in Runs, NEW s \in Steps(r), exec[r][s].running > 0,
         exec' = [exec EXCEPT ![r][s].running = @ - 1]
  PROVE  \E e \in ExecRec : e.got = exec[r][s].got /\ Entry(exec, exec', r, s, ExecRec, e)
<1> DEFINE e == [exec[r][s] EXCEPT !.running = @ - 1]
<1>1. exec[r][s] \in [got : Nat, running : Nat]
  BY StepFacts DEF ExecRec
<1>2. exec[r][s].running - 1 \in Nat
  BY <1>1
<1>3. e \in ExecRec /\ e.got = exec[r][s].got
  BY <1>1, <1>2 DEF ExecRec
<1>4. exec' = [exec EXCEPT ![r][s] = e]
  OBVIOUS
<1> HIDE DEF e
<1>5. Entry(exec, [exec EXCEPT ![r][s] = e], r, s, ExecRec, e)
  BY <1>3, StepFacts, EntryChanges
<1>6. QED BY <1>3, <1>4, <1>5

LEMMA AnswerKeeps ==
  ASSUME RunsInv, NEW r \in Runs, NEW s \in Steps(r), Engine!Answer(r, s)
  PROVE  RunsInv' /\ Engine!RecordStays
<1> DEFINE old == task[r][s]
           t == [old EXCEPT !.st = "ready", !.call = @ + 1, !.attempts = 0]
           next == task' = [task EXCEPT ![r][s].st = "ready", ![r][s].call = @ + 1,
                                        ![r][s].attempts = 0] /\ UNCHANGED <<run, rows, bus>>
           data == IF Kind[s] = "loop" THEN Engine!AfterChild(s, old.call, bus[r]) ELSE bus[r]
<1>1. /\ Engine!Alive /\ old.st = "calling" /\ exec[r][s].running > 0
      /\ exec' = [exec EXCEPT ![r][s].running = @ - 1]
      /\ UNCHANGED phase
      /\ \/ Engine!StepFails(r, s)
         \/ old.call = Engine!Calls(s) /\ Engine!StepDone(r, s, data)
         \/ old.call # Engine!Calls(s) /\ next
  BY DEF Engine!Answer
<1>2. PICK e \in ExecRec : e.got = exec[r][s].got /\ Entry(exec, exec', r, s, ExecRec, e)
  BY <1>1, CallEnds
<1>3. CASE Engine!StepFails(r, s) \/ Engine!StepDone(r, s, data)
  <2>1. bus[r] \in Bus /\ old.call \in Nat \ {0}
    BY StepFacts DEF TaskRec
  <2>2. data \in Bus /\ \A v \in Variables \ Engine!Sets(s) : data[v] = bus[r][v]
    BY <2>1, ChildMoves
  <2> HIDE DEF data
  <2>3. QED BY <1>1, <1>2, <1>3, <2>2, OutcomeKeeps
<1>4. CASE old.call # Engine!Calls(s) /\ next
  <2>1. /\ old \in TaskRec /\ exec[r][s] \in ExecRec
        /\ CallOK(r, s, old, exec[r][s].got, bus[r][As[s]], run[r].pc = "lost")
        /\ MaxAttempts[s] \in Nat \ {0} /\ Engine!Calls(s) \in Nat /\ Children \in Nat \ {0}
    BY StepFacts
  <2>2. old.call \in Nat \ {0} /\ old.attempts \in Nat /\ exec[r][s].got \in Nat
    BY <2>1 DEF TaskRec, ExecRec
  <2>3. t \in TaskRec /\ t.st = "ready" /\ t.call = old.call + 1 /\ t.attempts = 0
    <3>1. old.call + 1 \in Nat \ {0} /\ old.attempts + 1 \in Nat
      BY <2>2
    <3>2. old \in TaskRec
      BY <2>1
    <3> HIDE DEF old
    <3>3. QED BY <3>1, <3>2 DEF TaskRec
  <2>4. task' = [task EXCEPT ![r][s] = t]
    BY <1>4, StepFacts
  <2>5. BusMoves(r, s) /\ bus'[r][As[s]] = bus[r][As[s]]
    BY <1>4, BusStands
  <2>6. /\ old.call < Engine!Calls(s) /\ old.attempts < MaxAttempts[s]
        /\ exec[r][s].got <= MaxAttempts[s] * (old.call - 1) + old.attempts + 1
        /\ exec[r][s].got <= MaxAttempts[s] * Engine!Calls(s)
    <3>1. old.call <= Engine!Calls(s) /\ old.call # Engine!Calls(s)
      BY <1>1, <1>4, <2>1 DEF CallOK
    <3>2. old.call < Engine!Calls(s)
      BY <2>1, <2>2, <3>1
    <3>3. QED BY <1>1, <2>1, <3>2 DEF CallOK
  <2>7. exec[r][s].got <= MaxAttempts[s] * (t.call - 1) + t.attempts
    <3> DEFINE a == MaxAttempts[s] * (old.call - 1)
               b == MaxAttempts[s] * old.call
    <3>1. a \in Nat /\ b \in Nat /\ a + MaxAttempts[s] = b
      BY <2>1, <2>2, TimesNext
    <3>2. exec[r][s].got <= a + old.attempts + 1
      BY <2>6
    <3>3. b = MaxAttempts[s] * (t.call - 1) + t.attempts
      BY <2>1, <2>2, <2>3
    <3> HIDE DEF a, b
    <3>4. exec[r][s].got <= b
      BY <2>1, <2>2, <2>6, <3>1, <3>2
    <3>5. QED BY <3>3, <3>4
  <2>8. Kind[s] = "loop" /\ Engine!OwnVariable(r, s) /\ run[r].pc # "lost"
          /\ (t.call - 1) % Children # 0 => bus[r][As[s]] = ItemAt(s, t)
    <3> SUFFICES ASSUME Kind[s] = "loop", Engine!OwnVariable(r, s), run[r].pc # "lost",
                        (t.call - 1) % Children # 0
                 PROVE  bus[r][As[s]] = ItemAt(s, t)
      OBVIOUS
    <3>1. t.call - 1 = old.call
      BY <2>2, <2>3
    <3>2. old.call \div Children = (old.call - 1) \div Children
      BY <2>1, <2>2, <3>1, SameQuotient
    <3>3. bus[r][As[s]] = ItemAt(s, old)
      BY <1>1, <2>1 DEF CallOK
    <3>4. QED BY <3>1, <3>2, <3>3 DEF ItemAt, Engine!Iteration
  <2> HIDE DEF t
  <2>9. CallOK(r, s, t, e.got, bus'[r][As[s]], run[r].pc = "lost")
    <3>1. t.call <= Engine!Calls(s) /\ 0 < MaxAttempts[s]
      BY <2>1, <2>2, <2>3, <2>6
    <3>2. QED BY <1>2, <2>3, <2>5, <2>6, <2>7, <2>8, <3>1 DEF CallOK
  <2>10. QED BY <1>1, <1>2, <1>4, <2>3, <2>4, <2>5, <2>9, StepGoesOn
<1>5. QED BY <1>1, <1>3, <1>4

LEMMA CallRejectedKeeps ==
  ASSUME RunsInv, NEW r \in Runs, NEW s \in Steps(r), Engine!CallRejected(r, s)
  PROVE  RunsInv' /\ Engine!RecordStays
<1> DEFINE old == task[r][s]
           t == [old EXCEPT !.st = "backoff", !.attempts = @ + 1]
           next == task' = [task EXCEPT ![r][s].st = "backoff", ![r][s].attempts = @ + 1]
                   /\ UNCHANGED <<run, rows, bus>>
<1>1. /\ Engine!Alive /\ old.st \in {"input", "backoff", "calling"} /\ exec' = exec
      /\ UNCHANGED phase
      /\ Engine!StepFails(r, s) \/ (~(old.attempts + 1 >= MaxAttempts[s]) /\ next)
  BY DEF Engine!CallRejected
<1>2. Entry(exec, exec', r, s, ExecRec, exec[r][s]) /\ exec[r][s] \in ExecRec
  BY <1>1, StepFacts, EntryChanges
<1>3. CASE Engine!StepFails(r, s)
  <2>1. bus[r] \in Bus
    BY StepFacts
  <2>2. QED BY <1>1, <1>2, <1>3, <2>1, OutcomeKeeps
<1>4. CASE ~(old.attempts + 1 >= MaxAttempts[s]) /\ next
  <2>1. /\ old \in TaskRec
        /\ CallOK(r, s, old, exec[r][s].got, bus[r][As[s]], run[r].pc = "lost")
        /\ MaxAttempts[s] \in Nat \ {0} /\ Engine!Calls(s) \in Nat
    BY StepFacts
  <2>2. old.call \in Nat \ {0} /\ old.attempts \in Nat /\ exec[r][s].got \in Nat
    BY <1>2, <2>1 DEF TaskRec, ExecRec
  <2>3. /\ t \in TaskRec /\ t.st = "backoff" /\ t.call = old.call /\ t.item = old.item
        /\ t.attempts = old.attempts + 1
    <3>1. old.call + 1 \in Nat \ {0} /\ old.attempts + 1 \in Nat
      BY <2>2
    <3>2. old \in TaskRec
      BY <2>1
    <3> HIDE DEF old
    <3>3. QED BY <3>1, <3>2 DEF TaskRec
  <2>4. task' = [task EXCEPT ![r][s] = t]
    BY <1>4, StepFacts
  <2>5. BusMoves(r, s) /\ bus'[r][As[s]] = bus[r][As[s]] /\ ItemAt(s, t) = ItemAt(s, old)
    BY <1>4, <2>3, BusStands DEF ItemAt
  <2>6. exec[r][s].got <= MaxAttempts[s] * (old.call - 1) + old.attempts + 1
    <3> DEFINE a == MaxAttempts[s] * (old.call - 1)
    <3>1. a \in Nat
      BY <2>1, <2>2, TimesNext
    <3>2. exec[r][s].got <= a + old.attempts \/ exec[r][s].got <= a + old.attempts + 1
      BY <1>1, <2>1 DEF CallOK
    <3> HIDE DEF a
    <3>3. exec[r][s].got <= a + old.attempts + 1
      BY <2>2, <3>1, <3>2
    <3>4. QED BY <3>3 DEF a
  <2>7. exec[r][s].got <= MaxAttempts[s] * (old.call - 1) + (old.attempts + 1)
    <3> DEFINE a == MaxAttempts[s] * (old.call - 1)
    <3>1. a \in Nat /\ exec[r][s].got <= a + old.attempts + 1
      BY <2>1, <2>2, <2>6
    <3> HIDE DEF a
    <3>2. exec[r][s].got <= a + (old.attempts + 1)
      BY <2>2, <3>1
    <3>3. QED BY <3>2 DEF a
  <2>8. old.attempts + 1 < MaxAttempts[s]
    BY <1>4, <2>1, <2>2
  <2> HIDE DEF t
  <2>9. CallOK(r, s, t, exec[r][s].got, bus'[r][As[s]], run[r].pc = "lost")
    BY <1>1, <2>1, <2>3, <2>5, <2>7, <2>8 DEF CallOK
  <2>10. QED BY <1>1, <1>2, <1>4, <2>3, <2>4, <2>5, <2>9, StepGoesOn
<1>5. QED BY <1>1, <1>3, <1>4

LEMMA NodeKeeps ==
  ASSUME RunsInv, NEW r \in Runs, NEW s \in Steps(r), Engine!Step(r, s)
  PROVE  RunsInv' /\ Engine!RecordStays
BY LocalKeeps, ConditionKeeps, BeginKeeps, InvokeKeeps, AnswerKeeps, CallRejectedKeeps
   DEF Engine!Step

\* What changes of f is the entry of one run.
At(f, g, r, v) == DOMAIN g = Runs /\ g[r] = v /\ \A q \in Runs : q # r => g[q] = f[q]

LEMMA AtChanges ==
  ASSUME NEW f, DOMAIN f = Runs, NEW r \in Runs, NEW v
  PROVE  At(f, [f EXCEPT ![r] = v], r, v) /\ At(f, f, r, f[r])
BY DEF At

\* The record a run gets, in a store that may be closed.
LEMMA Recorded ==
  ASSUME RunsInv, NEW r \in Runs, NEW st, rows' = Engine!Record(r, st)
  PROVE  At(rows, rows', r, IF phase = "closed" THEN rows[r] ELSE st)
<1>1. DOMAIN rows = Runs
  BY DEF RunsInv, RunsShape
<1>2. rows' = IF phase = "closed" THEN rows ELSE [rows EXCEPT ![r] = st]
  BY DEF Engine!Record
<1>3. CASE phase = "closed"
  BY <1>1, <1>2, <1>3, AtChanges
<1>4. CASE phase # "closed"
  BY <1>1, <1>2, <1>4, AtChanges
<1>5. QED BY <1>3, <1>4

LEMMA RunMoves ==
  ASSUME RunsInv, NEW r \in Runs, UNCHANGED <<phase, bus, exec>>,
         NEW v \in RunRec, v.group <= Len(Groups[r]), At(run, run', r, v),
         NEW w \in {"none", "running", "success", "failed"}, At(rows, rows', r, w),
         rows[r] \in {"success", "failed"} => w = rows[r],
         NEW T \in [Steps(r) -> TaskRec], At(task, task', r, T),
         RecordInv(r)', ProgressInv(r)', CallsInv(r)'
  PROVE  RunsInv' /\ Engine!RecordStays
<1>1. RunsShape /\ RunTyped(r)
  BY DEF RunsInv, RunInv
<1>2. RunsShape'
  BY <1>1 DEF RunsShape, At
<1>3. RunTyped(r)'
  BY <1>1 DEF RunTyped, At
<1>4. RunInv(r)'
  BY <1>3 DEF RunInv
<1>5. RunsInv'
  BY <1>2, <1>4, OneRun DEF At
<1>6. Engine!RecordStays
  BY DEF At, Engine!RecordStays
<1>7. QED BY <1>5, <1>6

\* A run that moves and leaves its tasks.
LEMMA CallsStand ==
  ASSUME RunsInv, NEW r \in Runs, UNCHANGED <<bus, exec>>, task'[r] = task[r],
         run[r].pc # "lost", run'[r].pc # "lost"
  PROVE  CallsInv(r)'
<1>1. CallsInv(r)
  BY DEF RunsInv, RunInv
<1>2. ASSUME NEW s \in Steps(r)
      PROVE  CallOK(r, s, task'[r][s], exec'[r][s].got, bus'[r][As[s]], run'[r].pc = "lost")
  <2>1. CallOK(r, s, task[r][s], exec[r][s].got, bus[r][As[s]], run[r].pc = "lost")
    BY <1>1 DEF CallsInv
  <2>2. QED BY <2>1 DEF CallOK
<1>3. QED BY <1>2 DEF CallsInv

LEMMA StartKeeps ==
  ASSUME RunsInv, NEW r \in Runs, NEW dry \in BOOLEAN, Engine!StartRun(r, dry)
  PROVE  RunsInv' /\ Engine!RecordStays
<1> DEFINE v == [pc |-> "next", group |-> 0, dry |-> dry]
<1>1. /\ phase = "up" /\ rows[r] = "none" /\ rows' = Engine!Record(r, "running")
      /\ run' = [run EXCEPT ![r] = v] /\ task' = task /\ UNCHANGED <<phase, bus, exec>>
  BY DEF Engine!StartRun
<1>2. RunsShape /\ RunTyped(r) /\ RecordInv(r) /\ ProgressInv(r)
  BY DEF RunsInv, RunInv
<1>3. v \in RunRec /\ v.group = 0 /\ v.pc = "next" /\ 0 <= Len(Groups[r])
  BY RunsFacts DEF RunRec
<1> HIDE DEF v
<1>4. At(run, run', r, v) /\ At(task, task', r, task[r])
  BY <1>1, <1>2, AtChanges DEF RunsShape
<1>5. At(rows, rows', r, "running")
  BY <1>1, Recorded
<1>6. run[r].pc = "idle"
  BY <1>1, <1>2 DEF RecordInv
<1>7. RecordInv(r)'
  BY <1>1, <1>3, <1>4, <1>5 DEF RecordInv, At
<1>8. ProgressInv(r)'
  <2>1. Front(r, 0)
    BY <1>2, <1>6 DEF ProgressInv, Front
  <2>2. \A g \in DOMAIN Groups[r] : (Untouched(r, g) => Untouched(r, g)') /\ g \in Nat \ {0}
    BY <1>1, RunsFacts DEF Untouched
  <2>3. Front(r, 0)'
    BY <1>3, <1>4, <2>1, <2>2 DEF Front, At
  <2>4. QED BY <1>5, <2>3, RunsFacts DEF ProgressInv, At
<1>9. CallsInv(r)'
  BY <1>1, <1>3, <1>4, <1>6, CallsStand DEF At
<1>10. QED BY <1>1, <1>2, <1>3, <1>4, <1>5, <1>7, <1>8, <1>9, RunMoves DEF RunTyped

\* At the front between two groups, the groups behind are over.
LEMMA Between ==
  ASSUME RunsInv, NEW r \in Runs, run[r].pc = "next"
  PROVE  /\ rows[r] = "running" /\ run[r] \in RunRec
         /\ run[r].group \in Nat /\ run[r].group <= Len(Groups[r]) /\ Len(Groups[r]) \in Nat
         /\ DOMAIN Groups[r] = 1..Len(Groups[r])
         /\ \A g \in DOMAIN Groups[r] : (g <= run[r].group => Over(r, g))
                                        /\ (g > run[r].group => Untouched(r, g))
<1>1. RunTyped(r) /\ RecordInv(r) /\ ProgressInv(r)
  BY DEF RunsInv, RunInv
<1>2. PICK n \in 0..Len(Groups[r]) : Front(r, n)
  BY <1>1 DEF ProgressInv
<1>3. n = run[r].group /\ run[r] \in RunRec /\ rows[r] = "running"
  BY <1>1, <1>2 DEF Front, RunTyped, RecordInv
<1>4. QED BY <1>1, <1>2, <1>3, RunsFacts DEF Front, RunTyped, RunRec

LEMMA FinishKeeps ==
  ASSUME RunsInv, NEW r \in Runs, Engine!Finish(r)
  PROVE  RunsInv' /\ Engine!RecordStays
<1> DEFINE v == [run[r] EXCEPT !.pc = "settled"]
           w == IF phase = "closed" THEN rows[r] ELSE "success"
<1>1. /\ phase # "ended" /\ run[r].pc = "next" /\ run[r].group = Len(Groups[r])
      /\ run' = [run EXCEPT ![r].pc = "settled"] /\ rows' = Engine!Record(r, "success")
      /\ task' = task /\ UNCHANGED <<phase, bus, exec>>
  BY DEF Engine!Finish, Engine!Settle, Engine!Alive
<1>2. RunsShape /\ RunTyped(r) /\ RecordInv(r)
  BY DEF RunsInv, RunInv
<1>3. /\ v \in RunRec /\ v.group = run[r].group /\ v.pc = "settled" /\ v.dry = run[r].dry
      /\ v.group <= Len(Groups[r])
  BY <1>1, Between DEF RunRec
<1>4. run' = [run EXCEPT ![r] = v]
  BY <1>1
<1> HIDE DEF v
<1>5. At(run, run', r, v) /\ At(task, task', r, task[r])
  <2>1. DOMAIN run = Runs /\ DOMAIN task = Runs
    BY <1>2 DEF RunsShape
  <2>2. At(run, run', r, v)
    BY <1>4, <2>1, AtChanges
  <2>3. At(task, task', r, task[r])
    BY <1>1, <2>1, AtChanges
  <2>4. QED BY <2>2, <2>3
<1>6. At(rows, rows', r, w)
  BY <1>1, Recorded
<1>7. rows[r] = "running" /\ \A g \in DOMAIN Groups[r] : Over(r, g)
  BY <1>1, Between
<1>8. RecordInv(r)'
  BY <1>1, <1>3, <1>5, <1>6, <1>7 DEF RecordInv, At
<1>9. ProgressInv(r)'
  <2>1. \A g \in DOMAIN Groups[r] : Over(r, g)'
    BY <1>1, <1>3, <1>5, <1>7 DEF Over, At
  <2>2. Front(r, Len(Groups[r]))'
    BY <1>3, <1>5, <2>1, RunsFacts DEF Front, At
  <2>3. QED BY <2>1, <2>2, RunsFacts DEF ProgressInv
<1>10. CallsInv(r)'
  BY <1>1, <1>3, <1>5, CallsStand DEF At
<1>11. QED BY <1>1, <1>2, <1>3, <1>5, <1>6, <1>7, <1>8, <1>9, <1>10, RunMoves DEF RunTyped

LEMMA SkipKeeps ==
  ASSUME RunsInv, NEW r \in Runs, Engine!Skip(r)
  PROVE  RunsInv' /\ Engine!RecordStays
<1>0. PICK n : n = run[r].group
  OBVIOUS
<1> DEFINE v == [run[r] EXCEPT !.group = @ + 1]
<1>1. /\ phase # "ended" /\ run[r].pc = "next" /\ n < Len(Groups[r])
      /\ run[r].dry /\ Len(Groups[r][n + 1]) = 1
      /\ run' = [run EXCEPT ![r].group = @ + 1]
      /\ rows' = rows /\ task' = task /\ UNCHANGED <<phase, bus, exec>>
  BY <1>0 DEF Engine!Skip, Engine!Alive
<1>2. RunsShape /\ RunTyped(r) /\ RecordInv(r)
  BY DEF RunsInv, RunInv
<1>3. n \in Nat /\ n + 1 <= Len(Groups[r]) /\ n + 1 \in 1..Len(Groups[r])
  BY <1>0, <1>1, Between
<1>4. v \in RunRec /\ v.group = n + 1 /\ v.pc = "next" /\ v.dry = run[r].dry
  <2>1. run[r] \in RunRec /\ run[r].group + 1 \in Nat
    BY <1>0, <1>1, <1>3, Between
  <2>2. QED BY <1>0, <1>1, <2>1 DEF RunRec
<1>5. run' = [run EXCEPT ![r] = v]
  BY <1>1
<1> HIDE DEF v
<1>6. At(run, run', r, v) /\ At(task, task', r, task[r]) /\ At(rows, rows', r, rows[r])
  <2>1. DOMAIN run = Runs /\ DOMAIN task = Runs /\ DOMAIN rows = Runs
    BY <1>2 DEF RunsShape
  <2>2. At(run, run', r, v)
    BY <1>5, <2>1, AtChanges
  <2>3. At(task, task', r, task[r]) /\ At(rows, rows', r, rows[r])
    BY <1>1, <2>1, AtChanges
  <2>4. QED BY <2>2, <2>3
<1>7. rows[r] = "running"
  BY <1>1, Between
<1>8. RecordInv(r)'
  BY <1>1, <1>4, <1>6, <1>7 DEF RecordInv, At
<1>9. ProgressInv(r)'
  <2>1. /\ \A g \in DOMAIN Groups[r] : g <= n => Over(r, g)'
        /\ \A g \in DOMAIN Groups[r] : g > n => Untouched(r, g)'
    BY <1>0, <1>1, <1>4, <1>6, Between DEF Over, Untouched, At
  <2>2. Over(r, n + 1)'
    <3>1. Untouched(r, n + 1)
      BY <1>0, <1>1, <1>3, Between
    <3>2. QED BY <1>1, <1>4, <1>6, <3>1 DEF Over, Untouched, At
  <2>3. Front(r, n + 1)'
    BY <1>3, <1>4, <1>6, <2>1, <2>2, RunsFacts DEF Front, At
  <2>4. QED BY <1>3, <1>6, <1>7, <2>3, RunsFacts DEF ProgressInv, At
<1>10. CallsInv(r)'
  BY <1>1, <1>4, <1>6, CallsStand DEF At
<1>11. QED BY <1>1, <1>2, <1>3, <1>4, <1>6, <1>7, <1>8, <1>9, <1>10, RunMoves DEF RunTyped

\* The tasks of r once the steps in S have started.
Started(r, S, T) ==
  T = [s \in Steps(r) |-> IF s \in S THEN [Engine!NoTask EXCEPT !.st = "ready"] ELSE task[r][s]]

\* They start in a group that is not touched.
LEMMA TasksStart ==
  ASSUME RunsInv, NEW r \in Runs, run[r].pc = "next", NEW n \in DOMAIN Groups[r],
         n = run[r].group + 1, NEW S, S \subseteq GroupSteps(r, n), UNCHANGED <<bus, exec>>,
         NEW T, Started(r, S, T), task'[r] = T, run'[r].pc \in {"group", "settled"}, run'[r].dry = run[r].dry,
         run'[r].pc = "group" => run'[r].group = n,
         rows'[r] \in {"running", "failed"}
  PROVE  T \in [Steps(r) -> TaskRec] /\ ProgressInv(r)' /\ CallsInv(r)'
<1> DEFINE ready == [Engine!NoTask EXCEPT !.st = "ready"]
<1>1. /\ ready \in TaskRec /\ ready.st = "ready" /\ ready.call = 1 /\ ready.attempts = 0
  BY UnsetTyped DEF TaskRec, Engine!NoTask
<1> HIDE DEF ready
<1>2. /\ n \in Nat \ {0} /\ n <= Len(Groups[r]) /\ Len(Groups[r]) \in Nat
      /\ DOMAIN Groups[r] = 1..Len(Groups[r])
      /\ \A g \in DOMAIN Groups[r] : (g < n => Over(r, g)) /\ (g >= n => Untouched(r, g))
  BY Between
<1>3. /\ \A g \in DOMAIN Groups[r] : GroupSteps(r, g) \subseteq Steps(r)
      /\ \A g \in DOMAIN Groups[r] : g # n => GroupSteps(r, g) \cap GroupSteps(r, n) = {}
  BY RunsFacts
<1>4. /\ \A s \in S : task'[r][s] = ready /\ task[r][s].st = "idle"
      /\ \A s \in Steps(r) \ S : task'[r][s] = task[r][s]
  BY <1>2, <1>3 DEF Untouched, ready, Started
<1>5. T \in [Steps(r) -> TaskRec]
  <2>1. \A s \in Steps(r) : task[r][s] \in TaskRec
    BY StepFacts
  <2>2. QED BY <1>1, <2>1 DEF ready, Started
<1>6. ASSUME NEW g \in DOMAIN Groups[r], g # n
      PROVE  (Over(r, g) => Over(r, g)') /\ (Untouched(r, g) => Untouched(r, g)')
  <2>1. \A s \in GroupSteps(r, g) : task'[r][s] = task[r][s]
    BY <1>3, <1>4, <1>6
  <2>2. QED BY <2>1 DEF Over, Untouched
<1>7. ProgressInv(r)'
  <2>1. Front(r, n)'
    BY <1>2, <1>6 DEF Front
  <2>2. QED BY <1>2, <2>1 DEF ProgressInv
<1>8. ASSUME NEW s \in Steps(r)
      PROVE  CallOK(r, s, task'[r][s], exec'[r][s].got, bus'[r][As[s]], run'[r].pc = "lost")
  <2>1. CallOK(r, s, task[r][s], exec[r][s].got, bus[r][As[s]], run[r].pc = "lost")
    BY StepFacts
  <2>2. CASE s \in S
    <3>1. /\ exec[r][s].got = 0 /\ MaxAttempts[s] \in Nat \ {0} /\ Engine!Calls(s) \in Nat
          /\ Children \in Nat \ {0}
      BY <1>4, <2>1, <2>2, StepFacts DEF CallOK
    <3>2. MaxAttempts[s] * (ready.call - 1) + ready.attempts = 0
      BY <1>1, <3>1
    <3>3. 0 <= MaxAttempts[s] * Engine!Calls(s)
      BY <3>1
    <3>4. (ready.call - 1) % Children = 0
      <4>1. ready.call - 1 = 0
        BY <1>1
      <4>2. 0 % Children = 0
        BY <3>1
      <4>3. QED BY <4>1, <4>2
    <3>5. CallOK(r, s, ready, 0, bus[r][As[s]], run'[r].pc = "lost")
      BY <1>1, <3>1, <3>2, <3>3, <3>4 DEF CallOK
    <3>6. QED BY <1>4, <2>2, <3>1, <3>5
  <2>3. CASE s \notin S
    <3>1. task'[r][s] = task[r][s]
      BY <1>4, <2>3
    <3>2. QED BY <2>1, <3>1 DEF CallOK
  <2>4. QED BY <2>2, <2>3
<1>9. QED BY <1>5, <1>7, <1>8 DEF CallsInv

LEMMA EnterKeeps ==
  ASSUME RunsInv, NEW r \in Runs, Engine!EnterGroup(r)
  PROVE  RunsInv' /\ Engine!RecordStays
<1>0. PICK n : n = run[r].group + 1
  OBVIOUS
<1>1. PICK group : group = Groups[r][n]
  OBVIOUS
<1> DEFINE S == Engine!Startable(group)
           T == [s \in Steps(r) |->
                   IF s \in S THEN [Engine!NoTask EXCEPT !.st = "ready"] ELSE task[r][s]]
           enters == [run[r] EXCEPT !.pc = "group", !.group = @ + 1]
           fails == [run[r] EXCEPT !.pc = "settled"]
<1>2. /\ phase # "ended" /\ run[r].pc = "next" /\ run[r].group < Len(Groups[r])
      /\ task' = [task EXCEPT ![r] = T] /\ UNCHANGED <<phase, bus, exec>>
      /\ \/ run' = [run EXCEPT ![r].pc = "group", ![r].group = @ + 1] /\ UNCHANGED rows
         \/ run' = [run EXCEPT ![r].pc = "settled"] /\ rows' = Engine!Record(r, "failed")
  BY <1>0, <1>1 DEF Engine!EnterGroup, Engine!Alive, Engine!Settle, Steps
<1>3. RunsShape /\ RunTyped(r) /\ RecordInv(r)
  BY DEF RunsInv, RunInv
<1>4. n \in DOMAIN Groups[r] /\ n \in Nat /\ n <= Len(Groups[r]) /\ run[r] \in RunRec
      /\ rows[r] = "running" /\ run[r].group <= Len(Groups[r])
  BY <1>0, <1>2, Between DEF RunRec
<1>5. S \subseteq GroupSteps(r, n)
  BY <1>1 DEF Engine!Startable, GroupSteps, Engine!Members
<1>6. /\ enters \in RunRec /\ enters.pc = "group" /\ enters.group = n /\ enters.dry = run[r].dry
      /\ fails \in RunRec /\ fails.pc = "settled" /\ fails.group = run[r].group
      /\ fails.dry = run[r].dry
  <2>1. run[r] \in RunRec /\ run[r].group + 1 \in Nat
    BY <1>0, <1>4
  <2>2. QED BY <1>0, <2>1 DEF RunRec
<1>7. DOMAIN run = Runs /\ DOMAIN task = Runs /\ DOMAIN rows = Runs
  BY <1>3 DEF RunsShape
<1> HIDE DEF S, T
<1>8. At(task, task', r, T)
  BY <1>2, <1>7, AtChanges
<1>9. ASSUME NEW v \in RunRec, v.pc \in {"group", "settled"}, v.dry = run[r].dry,
             v.pc = "group" => v.group = n, v.group <= Len(Groups[r]), At(run, run', r, v),
             NEW w \in {"running", "failed"}, At(rows, rows', r, w),
             v.pc = "group" => w = "running",
             v.pc = "settled" /\ phase # "closed" => w # "running"
      PROVE  RunsInv' /\ Engine!RecordStays
  <2>1. T \in [Steps(r) -> TaskRec] /\ ProgressInv(r)' /\ CallsInv(r)'
    <3>1. task'[r] = T /\ run'[r] = v /\ rows'[r] = w
      BY <1>8, <1>9 DEF At
    <3>2. /\ run'[r].pc \in {"group", "settled"} /\ run'[r].dry = run[r].dry
          /\ run'[r].pc = "group" => run'[r].group = n
          /\ rows'[r] \in {"running", "failed"}
      BY <1>9, <3>1
    <3>3. Started(r, S, T)
      BY DEF T, Started
    <3>4. run[r].pc = "next" /\ UNCHANGED <<bus, exec>>
      BY <1>2
    <3>5. QED BY <1>0, <1>4, <1>5, <3>1, <3>2, <3>3, <3>4, TasksStart
  <2>2. RecordInv(r)'
    BY <1>2, <1>9 DEF RecordInv, At
  <2>3. QED BY <1>2, <1>4, <1>8, <1>9, <2>1, <2>2, RunMoves
<1> HIDE DEF enters, fails
<1>10. CASE run' = [run EXCEPT ![r].pc = "group", ![r].group = @ + 1] /\ UNCHANGED rows
  <2>1. run' = [run EXCEPT ![r] = enters]
    BY <1>7, <1>10 DEF enters
  <2>2. At(run, run', r, enters)
    BY <1>7, <2>1, AtChanges
  <2>3. At(rows, rows', r, "running")
    BY <1>4, <1>7, <1>10, AtChanges
  <2>4. QED BY <1>4, <1>6, <1>9, <2>2, <2>3
<1>11. CASE run' = [run EXCEPT ![r].pc = "settled"] /\ rows' = Engine!Record(r, "failed")
  <2>1. run' = [run EXCEPT ![r] = fails]
    BY <1>7, <1>11 DEF fails
  <2>2. At(run, run', r, fails)
    BY <1>7, <2>1, AtChanges
  <2>3. At(rows, rows', r, IF phase = "closed" THEN "running" ELSE "failed")
    BY <1>4, <1>11, Recorded
  <2>4. QED BY <1>4, <1>6, <1>9, <2>2, <2>3
<1>12. QED BY <1>2, <1>10, <1>11

LEMMA ServerEndsKeeps ==
  ASSUME RunsInv, NEW r \in Runs, NEW s \in Steps(r), Engine!ServerEnds(r, s)
  PROVE  RunsInv' /\ Engine!RecordStays
<1>1. /\ exec' = [exec EXCEPT ![r][s].running = @ - 1]
      /\ rows' = rows /\ run' = run /\ task' = task /\ bus' = bus /\ phase' = phase
      /\ exec[r][s].running > (IF Engine!Alive /\ task[r][s].st = "calling" THEN 1 ELSE 0)
  BY DEF Engine!ServerEnds
<1>2. exec[r][s].running \in Nat
  BY StepFacts DEF ExecRec
<1>3. exec[r][s].running > 0
  <2>1. PICK k \in {0, 1} : exec[r][s].running > k
    BY <1>1
  <2>2. QED BY <1>2, <2>1
<1>4. PICK e \in ExecRec : e.got = exec[r][s].got /\ Entry(exec, exec', r, s, ExecRec, e)
  BY <1>1, <1>3, CallEnds
<1>5. RunsShape /\ RunTyped(r) /\ RecordInv(r) /\ ProgressInv(r) /\ CallsInv(r)
  BY DEF RunsInv, RunInv
<1>6. RunsShape' /\ RunTyped(r)' /\ RecordInv(r)'
  BY <1>1, <1>4, <1>5 DEF RunsShape, RunTyped, RecordInv, Entry
<1>7. ProgressInv(r)'
  <2>1. \A g : (Over(r, g) <=> Over(r, g)') /\ (Untouched(r, g) <=> Untouched(r, g)')
    BY <1>1 DEF Over, Untouched
  <2>2. \A n : Front(r, n) => Front(r, n)'
    BY <1>1, <2>1 DEF Front
  <2>3. QED BY <1>1, <1>5, <2>1, <2>2 DEF ProgressInv
<1>8. CallsInv(r)'
  <2>1. \A x \in Steps(r) : exec'[r][x].got = exec[r][x].got
    BY <1>4 DEF Entry
  <2>2. QED BY <1>1, <1>5, <2>1 DEF CallsInv
<1>9. RunInv(r)'
  BY <1>6, <1>7, <1>8 DEF RunInv
<1>10. RunsInv'
  BY <1>1, <1>4, <1>6, <1>9, OneRun DEF Entry
<1>11. QED BY <1>1, <1>10 DEF Engine!RecordStays

\* stop() changes only the phase; a process that ends loses where its runs were.
LEMMA ProcessKeeps ==
  ASSUME RunsInv, Engine!Stop \/ Engine!ProcessEnds
  PROVE  RunsInv' /\ Engine!RecordStays
<1>1. /\ rows' = rows /\ task' = task /\ bus' = bus /\ exec' = exec
      /\ phase' \in {"stopping", "closed", "ended"}
      /\ phase' # "ended" => phase # "ended" /\ run' = run /\ (phase = "closed" => phase' = "closed")
      /\ phase' = "ended" =>
           run' = [r \in Runs |-> IF run[r].pc = "idle" THEN run[r] ELSE [run[r] EXCEPT !.pc = "lost"]]
  BY DEF Engine!Stop, Engine!ProcessEnds, Engine!Alive
<1>2. RunsShape'
  BY <1>1 DEF RunsInv, RunsShape
<1>3. ASSUME NEW r \in Runs PROVE RunInv(r)'
  <2>1. RunTyped(r) /\ RecordInv(r) /\ ProgressInv(r) /\ CallsInv(r)
    BY DEF RunsInv, RunInv
  <2>2. \/ run'[r] = run[r] /\ (phase' = "ended" => run[r].pc = "idle")
        \/ /\ run'[r] = [run[r] EXCEPT !.pc = "lost"]
           /\ phase' = "ended" /\ run[r].pc # "idle"
    BY <1>1
  <2>3. CASE run'[r] = run[r] /\ (phase' = "ended" => run[r].pc = "idle")
    <3>1. RunTyped(r)' /\ CallsInv(r)' /\ RecordInv(r)'
      BY <1>1, <2>1, <2>3 DEF RunTyped, CallsInv, RecordInv
    <3>2. \A g : (Over(r, g) <=> Over(r, g)') /\ (Untouched(r, g) <=> Untouched(r, g)')
      BY <1>1, <2>3 DEF Over, Untouched
    <3>3. \A n : Front(r, n) => Front(r, n)'
      BY <2>3, <3>2 DEF Front
    <3>4. ProgressInv(r)'
      BY <1>1, <2>1, <2>3, <3>2, <3>3 DEF ProgressInv
    <3>5. QED BY <3>1, <3>4 DEF RunInv
  <2>4. CASE /\ run'[r] = [run[r] EXCEPT !.pc = "lost"]
             /\ phase' = "ended" /\ run[r].pc # "idle"
    <3>1. run'[r] \in RunRec /\ run'[r].pc = "lost" /\ run'[r].group = run[r].group
      BY <2>1, <2>4 DEF RunTyped, RunRec
    <3>2. RunTyped(r)' /\ RecordInv(r)' /\ ProgressInv(r)'
      BY <1>1, <2>1, <2>4, <3>1 DEF RunTyped, RecordInv, ProgressInv
    <3>3. ASSUME NEW s \in Steps(r)
          PROVE  CallOK(r, s, task'[r][s], exec'[r][s].got, bus'[r][As[s]], run'[r].pc = "lost")
      <4>1. CallOK(r, s, task[r][s], exec[r][s].got, bus[r][As[s]], run[r].pc = "lost")
        BY <2>1 DEF CallsInv
      <4>2. QED BY <1>1, <3>1, <4>1 DEF CallOK
    <3>4. QED BY <3>2, <3>3 DEF RunInv, CallsInv
  <2>5. QED BY <2>2, <2>3, <2>4
<1>4. QED BY <1>1, <1>2, <1>3 DEF RunsInv, Engine!RecordStays

\* A start after a crash finds runs that never started, and lost ones.
LEMMA RestartKeeps ==
  ASSUME RunsInv, Engine!Restart
  PROVE  RunsInv' /\ Engine!RecordStays
<1>1. /\ rows' = rows /\ run' = run /\ bus' = bus /\ exec' = exec
      /\ phase = "ended" /\ phase' = "up"
      /\ task' = [r \in Runs |-> [s \in Steps(r) |-> Engine!NoTask]]
  BY DEF Engine!Restart, Steps
<1>2. RunsShape'
  BY <1>1 DEF RunsInv, RunsShape
<1>3. /\ Engine!NoTask \in TaskRec
      /\ Engine!NoTask.st = "idle" /\ Engine!NoTask.call = 1 /\ Engine!NoTask.attempts = 0
  BY UnsetTyped DEF Engine!NoTask
<1>4. ASSUME NEW r \in Runs PROVE RunInv(r)'
  <2>1. RunTyped(r) /\ RecordInv(r) /\ ProgressInv(r) /\ CallsInv(r)
    BY DEF RunsInv, RunInv
  <2>2. /\ \A s \in Steps(r) : task'[r][s] = Engine!NoTask
        /\ task'[r] \in [Steps(r) -> TaskRec]
    BY <1>1, <1>3
  <2>3. RunTyped(r)' /\ RecordInv(r)'
    BY <1>1, <2>1, <2>2 DEF RunTyped, RecordInv
  <2>4. ProgressInv(r)'
    <3>1. \A g \in DOMAIN Groups[r] : Untouched(r, g)' /\ g \in Nat \ {0}
      BY <1>3, <2>2, RunsFacts DEF Untouched
    <3>2. run[r].pc = "idle" => Front(r, 0)'
      BY <1>1, <3>1 DEF Front
    <3>3. QED BY <1>1, <2>1, <3>2, RunsFacts DEF ProgressInv, RecordInv
  <2>5. ASSUME NEW s \in Steps(r)
        PROVE  CallOK(r, s, task'[r][s], exec'[r][s].got, bus'[r][As[s]], run'[r].pc = "lost")
    <3>1. /\ CallOK(r, s, task[r][s], exec[r][s].got, bus[r][As[s]], run[r].pc = "lost")
          /\ MaxAttempts[s] \in Nat \ {0}
      BY StepFacts
    <3>2. run[r].pc # "lost" => exec[r][s].got = 0
      <4> SUFFICES ASSUME run[r].pc # "lost" PROVE exec[r][s].got = 0
        OBVIOUS
      <4>1. run[r].pc = "idle"
        BY <1>1, <2>1 DEF RecordInv
      <4>2. Front(r, 0)
        BY <2>1, <4>1 DEF ProgressInv, Front
      <4>3. PICK g \in DOMAIN Groups[r] : s \in GroupSteps(r, g)
        BY RunsFacts
      <4>4. task[r][s].st = "idle"
        <5>1. g > 0
          BY <4>3, RunsFacts
        <5>2. QED BY <4>2, <4>3, <5>1 DEF Front, Untouched
      <4>5. QED BY <3>1, <4>1, <4>4 DEF CallOK
    <3>3. QED BY <1>1, <1>3, <2>2, <3>1, <3>2 DEF CallOK
  <2>6. QED BY <2>3, <2>4, <2>5 DEF RunInv, CallsInv
<1>5. QED BY <1>1, <1>2, <1>4 DEF RunsInv, Engine!RecordStays

LEMMA RunsInductive ==
  ASSUME RunsInv, [Next]_vars
  PROVE  RunsInv' /\ Engine!RecordStays
<1>1. CASE UNCHANGED runVars
  <2>1. /\ phase' = phase /\ rows' = rows /\ run' = run /\ task' = task /\ bus' = bus
        /\ exec' = exec
    BY <1>1 DEF runVars
  <2>2. RunsShape'
    BY <2>1 DEF RunsInv, RunsShape
  <2>3. \A r \in Runs : RunInv(r)'
    BY <2>1, RunStands
  <2>4. QED BY <2>1, <2>2, <2>3 DEF RunsInv, Engine!RecordStays
<1>2. CASE Engine!Next
  <2>1. CASE Engine!Stop \/ Engine!ProcessEnds \/ Engine!Restart
    BY <2>1, ProcessKeeps, RestartKeeps
  <2>2. ASSUME NEW r \in Runs, NEW dry \in BOOLEAN, Engine!StartRun(r, dry)
        PROVE  RunsInv' /\ Engine!RecordStays
    BY <2>2, StartKeeps
  <2>3. ASSUME NEW r \in Runs, Engine!Execute(r)
        PROVE  RunsInv' /\ Engine!RecordStays
    BY <2>3, FinishKeeps, SkipKeeps, EnterKeeps DEF Engine!Execute
  <2>4. ASSUME NEW r \in Runs, NEW s \in Steps(r), Engine!Step(r, s) \/ Engine!ServerEnds(r, s)
        PROVE  RunsInv' /\ Engine!RecordStays
    BY <2>4, NodeKeeps, ServerEndsKeeps
  <2>5. QED BY <1>2, <2>1, <2>2, <2>3, <2>4 DEF Engine!Next, Steps
<1>3. QED BY <1>1, <1>2 DEF Next, HubStep, RunStep, PoolStep, ManagerStep, ApiStep, vars

LEMMA RunsKept ==
  ASSUME RunsInv
  PROVE  /\ Engine!TypeOK /\ Engine!StepsInOrder /\ Engine!EndedRunsAreRecorded
         /\ Engine!InvocationsBounded /\ Engine!ChildrenSeeTheirItem
<1>1. /\ phase \in {"up", "stopping", "closed", "ended"}
      /\ \A r \in Runs : RunTyped(r) /\ RecordInv(r) /\ ProgressInv(r)
  BY DEF RunsInv, RunsShape, RunInv
<1>2. ASSUME NEW r \in Runs, NEW s \in Steps(r)
      PROVE  /\ task[r][s].st \in Engine!Active \cup {"idle", "done", "failed"}
             /\ task[r][s].call = 1 \/ task[r][s].call <= Engine!Calls(s)
             /\ task[r][s].attempts < MaxAttempts[s]
             /\ exec[r][s].got <= MaxAttempts[s] * Engine!Calls(s)
             /\ run[r].pc # "lost" /\ Kind[s] = "loop" /\ Engine!OwnVariable(r, s)
                  /\ task[r][s].st \in {"input", "calling", "backoff"}
                  => task[r][s].item = ItemAt(s, task[r][s])
  <2>1. /\ task[r][s] \in TaskRec
        /\ CallOK(r, s, task[r][s], exec[r][s].got, bus[r][As[s]], run[r].pc = "lost")
    BY StepFacts
  <2>2. QED BY <2>1 DEF CallOK, TaskRec, Engine!Active
<1>3. Engine!TypeOK
  <2>1. ASSUME NEW r \in Runs
        PROVE  /\ rows[r] \in {"none", "running", "success", "failed"}
               /\ run[r].pc \in {"idle", "next", "group", "settled", "lost"}
               /\ run[r].group \in 0..Len(Groups[r])
    BY <1>1, RunsFacts DEF RunTyped, RunRec
  <2>2. QED BY <1>1, <1>2, <2>1 DEF Engine!TypeOK, Steps
<1>4. Engine!StepsInOrder
  <2>1. ASSUME NEW r \in Runs, run[r].pc # "lost"
        PROVE  /\ \A g \in DOMAIN Groups[r] : ~Untouched(r, g) => \A h \in 1..(g - 1) : Over(r, h)
               /\ rows[r] = "success" => \A g \in DOMAIN Groups[r] : Over(r, g)
    <3>1. PICK n \in 0..Len(Groups[r]) : Front(r, n)
      BY <1>1, <2>1 DEF ProgressInv
    <3>2. ASSUME NEW g \in DOMAIN Groups[r], ~Untouched(r, g), NEW h \in 1..(g - 1)
          PROVE  Over(r, h)
      <4>0. ~(g > n)
        BY <3>1, <3>2 DEF Front
      <4>1. g \in Nat /\ g <= Len(Groups[r]) /\ Len(Groups[r]) \in Nat /\ g <= n
        BY <4>0, GroupNumbers
      <4>2. h \in DOMAIN Groups[r] /\ h < n
        BY <3>2, <4>1, RunsFacts
      <4>3. QED BY <3>1, <4>2 DEF Front
    <3>3. QED BY <1>1, <2>1, <3>2 DEF ProgressInv
  <2>2. QED BY <2>1 DEF Engine!StepsInOrder, Over, Untouched, GroupSteps
<1>5. Engine!EndedRunsAreRecorded
  BY <1>1 DEF Engine!EndedRunsAreRecorded, RecordInv
<1>6. Engine!InvocationsBounded /\ Engine!ChildrenSeeTheirItem
  BY <1>2 DEF Engine!InvocationsBounded, Engine!ChildrenSeeTheirItem, ItemAt, Steps
<1>7. QED BY <1>3, <1>4, <1>5, <1>6

\* Executor.ts, ForgeEngine.ts, the nodes: through retries, late answers,
\* stops, crashes and restarts, steps start in order, an ended run is recorded,
\* a server is called no more often than allowed, and the child of a loop sees
\* the item of its own iteration where nothing that runs beside the loop, and
\* none of its children, sets the loop's variable.
THEOREM ForgeRunsKeepOrder == Spec => []RunsKeepOrder
<1>1. RunsInv /\ [Next]_vars => RunsInv'
  BY RunsInductive
<1>2. RunsInv => RunsKeepOrder
  BY RunsKept DEF RunsKeepOrder
<1>3. QED BY RunsInitial, <1>1, <1>2, PTL DEF Spec

\* RunStore.ts, HealthWatcher.ts: no step rewrites the record of an ended run,
\* and an event of a server's health follows the results that it tells of.
THEOREM ForgeStepsHold == Spec => ForgeSteps
<1>1. Init => RunsInv /\ ManagerInv
  BY RunsInitial, ManagerInitial
<1>2. (RunsInv /\ ManagerInv) /\ [Next]_vars => (RunsInv /\ ManagerInv)'
  BY RunsInductive, ManagerInductive
<1>3. (RunsInv /\ ManagerInv) /\ [Next]_vars =>
        [/\ part \in RunParts => Engine!RecordStays
         /\ part = "manager" => Manager!EventFollowsResult]_vars
  BY RunsInductive, ManagerInductive
<1>4. QED BY <1>1, <1>2, <1>3, PTL DEF Spec, ForgeSteps
=============================================================================
