-------------------------- MODULE CatalogSetProofs --------------------------
(***************************************************************************)
(* For any threads, names and numbers of calls: the entries that lookups    *)
(* returned stay, and a lookup misses only if the map was used while a      *)
(* thread inserted into it.                                                 *)
(***************************************************************************)
EXTENDS CatalogSet, TLAPS

\* A lookup found the name that its entry is filled for.
Filling == \A t \in Threads : pc[t] = "fill" => call[t].name \in DOMAIN entries

\* The entries of schemas are filled from the start.
SchemasFilled == ~fills => \A n \in DOMAIN entries : entries[n].filled

LoadedFor(t) ==
    \/ pc[t] \in {"find", "fill", "scan"}
    \/ pc[t] = "lock" /\ call[t].kind = "GetEntry"

\* Unless threads met in the map: what a load has not inserted yet it will
\* insert, a set with an entry is complete or has a thread that completes it,
\* and who is past the load sees all entries.
Loading(t) ==
    pc[t] = "insert" => Listed \subseteq DOMAIN entries \cup pending[t]
Partial ==
    \/ DOMAIN entries = {}
    \/ Listed \subseteq DOMAIN entries
    \/ \E t \in Threads : pc[t] = "insert"
Loaded ==
    ~overlapped =>
        /\ \A t \in Threads : Loading(t)
        /\ Partial
        /\ \A t \in Threads : LoadedFor(t) => Listed \subseteq DOMAIN entries
        /\ missed = {}

\* A scan loads the set with the lock held.
ScanHolds ==
    \A t \in Threads :
        pc[t] \in {"load", "list", "insert"} /\ call[t].kind = "Scan"
        => entry_lock = t

Inv == TypeOK /\ ScanHolds /\ Filling /\ SchemasFilled /\ ReturnedStays /\ Loaded

\* The parts of TypeOK.
MapTypes ==
    /\ fills \in BOOLEAN
    /\ DOMAIN entries \subseteq Listed
    /\ \A n \in DOMAIN entries : entries[n] \in Entry
    /\ objects \in Nat
ThreadTypes ==
    /\ call \in [Threads -> Call]
    /\ pending \in [Threads -> SUBSET Listed]
    /\ calls \in [Threads -> 0 .. MaxCalls]
GhostTypes ==
    /\ \A e \in lookedUp : e.name \in Listed /\ e.entry \in Entry
    /\ missed \subseteq Listed
    /\ overlapped \in BOOLEAN
Label == {"idle", "lock", "load", "list", "insert", "find", "fill", "scan"}
Locks ==
    /\ pc \in [Threads -> Label]
    /\ entry_lock \in Threads \cup {NoThread}
    /\ \A t \in Threads : /\ pc[t] \in {"find", "fill", "scan"}
                             => entry_lock = t
                          /\ pc[t] = "idle" => entry_lock # t

-----------------------------------------------------------------------------
(* The map *)

\* Insert adds an entry of the kind of the set, and leaves the others alone.
LEMMA InsertKeeps ==
    ASSUME NEW n
    PROVE  /\ DOMAIN Insert(n) = DOMAIN entries \cup {n}
           /\ \A m \in DOMAIN entries : Insert(n)[m] = entries[m]
           /\ n \notin DOMAIN entries =>
                  Insert(n)[n] = [object |-> objects, filled |-> ~fills]
BY DEF Insert

\* A name that is returned was found, and is in the map.
LEMMA FillTypes ==
    ASSUME TypeOK, Filling, NEW t \in Threads, FillEntry(t)
    PROVE  /\ call[t].name \in DOMAIN entries
           /\ call[t].name \in Listed
           /\ entries[call[t].name] \in Entry
           /\ entries[call[t].name].filled \in BOOLEAN
BY DEF TypeOK, Filling, FillEntry, Entry

-----------------------------------------------------------------------------
(* The types and the lock *)

\* The type invariant, with the locks that it includes, taken apart.
LEMMA TypeParts == TypeOK <=> MapTypes /\ ThreadTypes /\ GhostTypes /\ Locks
BY DEF TypeOK, MapTypes, ThreadTypes, GhostTypes, Locks, Label

\* A thread goes on without the lock or with it.
LEMMA GotoLocks ==
    ASSUME Locks, NEW t \in Threads, NEW label \in Label \ {"idle"},
           Goto(t, label), UNCHANGED entry_lock,
           label \in {"find", "fill", "scan"} => entry_lock = t
    PROVE  Locks'
BY DEF Locks, Goto

\* A thread that leaves lets go of the lock.
LEMMA LeaveLocks ==
    ASSUME Locks, NEW t \in Threads, Leave(t)
    PROVE  Locks'
BY NoThreadAssumption DEF Locks, Leave, Goto, Unlock, Label

\* A thread takes the lock.
LEMMA LockLocks ==
    ASSUME Locks, NEW t \in Threads, Lock(t)
    PROVE  Locks'
BY NoThreadAssumption DEF Locks, Lock, Goto, Label

-----------------------------------------------------------------------------
(* The initial states *)

\* An empty set that nobody uses satisfies the invariant.
LEMMA InitInv == Init => Inv
<1> SUFFICES ASSUME Init PROVE Inv
  OBVIOUS
<1>1. DOMAIN entries = {} /\ lookedUp = {} /\ missed = {}
  BY DEF Init
<1>2. MapTypes
  BY <1>1 DEF Init, MapTypes
<1>3. ThreadTypes
  <2>1. (CHOOSE n \in Names : TRUE) \in Names
    BY NamesAssumption
  <2>2. [kind |-> "Scan", name |-> CHOOSE n \in Names : TRUE] \in Call
    BY <2>1 DEF Call
  <2>3. call \in [Threads -> Call]
    BY <2>2 DEF Init
  <2> QED
    BY <2>3, CallsAssumption DEF Init, ThreadTypes
<1>4. GhostTypes
  BY <1>1 DEF Init, GhostTypes
<1>5. Locks
  BY NoThreadAssumption DEF Init, Locks, Label
<1>6. ScanHolds /\ Filling /\ \A t \in Threads : Loading(t) /\ ~LoadedFor(t)
  BY DEF Init, ScanHolds, Filling, Loading, LoadedFor
<1> QED
  BY <1>1, <1>2, <1>3, <1>4, <1>5, <1>6, TypeParts
     DEF Inv, SchemasFilled, ReturnedStays, Loaded, Partial

-----------------------------------------------------------------------------
(* Steps of one thread *)

Action(t) == StartGetEntry(t) \/ StartScan(t) \/ Step(t)

\* The steps that change the map or what is noted of it.
LEMMA MapSteps ==
    ASSUME Inv, NEW t \in Threads, Action(t)
    PROVE  MapTypes' /\ GhostTypes'
<1>1. MapTypes /\ ThreadTypes /\ GhostTypes
  BY TypeParts DEF Inv
<1>2. CASE CreateEntry(t)
  <2>1. PICK n \in pending[t] :
          entries' = Insert(n) \/ entries' = entries
    BY <1>2 DEF CreateEntry
  <2>2. n \in Listed
    BY <1>1, <2>1 DEF ThreadTypes
  <2>3. fills' = fills /\ objects' = objects + 1 /\ lookedUp' = lookedUp
        /\ missed' = missed /\ overlapped' \in BOOLEAN
    BY <1>2, <1>1 DEF CreateEntry, UseMap, Racing, GhostTypes
  <2>4. [object |-> objects, filled |-> ~fills] \in Entry
    BY <1>1 DEF MapTypes, Entry
  <2>5. DOMAIN entries' \subseteq Listed
        /\ \A m \in DOMAIN entries' : entries'[m] \in Entry
    <3>1. CASE entries' = Insert(n)
      <4>1. /\ DOMAIN entries' = DOMAIN entries \cup {n}
            /\ \A m \in DOMAIN entries : entries'[m] = entries[m]
            /\ n \notin DOMAIN entries =>
                  entries'[n] = [object |-> objects, filled |-> ~fills]
        BY <3>1, InsertKeeps
      <4> QED
        BY <4>1, <1>1, <2>2, <2>4 DEF MapTypes
    <3>2. CASE entries' = entries
      BY <3>2, <1>1 DEF MapTypes
    <3> QED
      BY <2>1, <3>1, <3>2
  <2> QED
    BY <1>1, <2>3, <2>5 DEF MapTypes, GhostTypes
<1>3. CASE FillEntry(t)
  <2> DEFINE name == call[t].name
  <2>1. name \in DOMAIN entries /\ name \in Listed /\ entries[name] \in Entry
    BY <1>3, FillTypes DEF Inv
  <2>2. [object |-> objects, filled |-> TRUE] \in Entry
    BY <1>1 DEF MapTypes, Entry
  <2>3. /\ DOMAIN entries' = DOMAIN entries
        /\ \A m \in DOMAIN entries : entries'[m] \in Entry
        /\ fills' = fills
        /\ objects' \in Nat
    BY <1>1, <1>3, <2>2 DEF FillEntry, MapTypes, mapVars
  <2>4. lookedUp' = lookedUp
        \/ lookedUp' = lookedUp \cup {[name |-> name, entry |-> entries'[name]]}
    BY <1>3 DEF FillEntry, Return
  <2>5. missed' = missed /\ overlapped' = overlapped
    BY <1>3 DEF FillEntry
  <2>6. MapTypes'
    BY <1>1, <2>3 DEF MapTypes
  <2>7. entries'[name] \in Entry
    BY <2>1, <2>3
  <2>8. \A e \in lookedUp' : e.name \in Listed /\ e.entry \in Entry
    BY <1>1, <2>1, <2>4, <2>7 DEF GhostTypes
  <2> QED
    BY <1>1, <2>5, <2>6, <2>8 DEF GhostTypes
<1>4. CASE Find(t)
  BY <1>1, <1>4 DEF Find, UseMap, Racing, mapVars, MapTypes, GhostTypes
<1>5. CASE LoadEntries(t) \/ Scan(t)
  BY <1>1, <1>5
     DEF LoadEntries, Scan, UseMap, Racing, mapVars, MapTypes, GhostTypes
<1>6. CASE StartGetEntry(t) \/ StartScan(t) \/ Lock(t) \/ List(t) \/ EndOfLoad(t)
  BY <1>1, <1>6
     DEF StartGetEntry, StartScan, Lock, List, EndOfLoad, mapVars, ghostVars,
         MapTypes, GhostTypes
<1> QED
  BY <1>2, <1>3, <1>4, <1>5, <1>6 DEF Action, Step

\* What the threads keep.
LEMMA ThreadSteps ==
    ASSUME Inv, NEW t \in Threads, Action(t)
    PROVE  ThreadTypes'
<1>1. ThreadTypes
  BY TypeParts DEF Inv
<1>2. CASE StartGetEntry(t)
  <2>1. PICK n \in Names :
          call' = [call EXCEPT ![t] = [kind |-> "GetEntry", name |-> n]]
    BY <1>2 DEF StartGetEntry
  <2>2. call' \in [Threads -> Call]
    BY <1>1, <2>1 DEF ThreadTypes, Call
  <2>3. calls' \in [Threads -> 0 .. MaxCalls]
    BY <1>1, <1>2, CallsAssumption DEF ThreadTypes, StartGetEntry
  <2> QED
    BY <1>1, <1>2, <2>2, <2>3 DEF StartGetEntry, ThreadTypes
<1>3. CASE StartScan(t)
  <2>1. call' \in [Threads -> Call]
    BY <1>1, <1>3 DEF ThreadTypes, Call, StartScan
  <2>2. calls' \in [Threads -> 0 .. MaxCalls]
    BY <1>1, <1>3, CallsAssumption DEF ThreadTypes, StartScan
  <2> QED
    BY <1>1, <1>3, <2>1, <2>2 DEF StartScan, ThreadTypes
<1>4. CASE List(t) \/ CreateEntry(t)
  <2>1. pending' \in [Threads -> SUBSET Listed]
    BY <1>1, <1>4 DEF List, CreateEntry, ThreadTypes
  <2> QED
    BY <1>1, <1>4, <2>1 DEF List, CreateEntry, ThreadTypes
<1>5. CASE Lock(t) \/ LoadEntries(t) \/ EndOfLoad(t) \/ Find(t)
           \/ FillEntry(t) \/ Scan(t)
  BY <1>1, <1>5
     DEF Lock, LoadEntries, EndOfLoad, Find, FillEntry, Scan, ThreadTypes
<1> QED
  BY <1>2, <1>3, <1>4, <1>5 DEF Action, Step

\* The lock is held by the thread that is inside it, and a scan holds it from
\* before its load to its end.
LEMMA LockSteps ==
    ASSUME Inv, NEW t \in Threads, Action(t)
    PROVE  Locks' /\ ScanHolds'
<1>1. Locks /\ ScanHolds /\ call \in [Threads -> Call]
  BY TypeParts DEF Inv, ThreadTypes
<1>2. CASE StartGetEntry(t)
  <2>1. Goto(t, "load") /\ UNCHANGED entry_lock
        /\ \E n \in Names : call' = [call EXCEPT ![t] = [kind |-> "GetEntry",
                                                        name |-> n]]
    BY <1>2 DEF StartGetEntry
  <2>2. Locks'
    BY <1>1, <2>1, GotoLocks DEF Label
  <2> QED
    BY <1>1, <2>1, <2>2 DEF ScanHolds, Goto, Locks
<1>3. CASE StartScan(t)
  <2>1. Goto(t, "lock") /\ UNCHANGED entry_lock
        /\ call' = [call EXCEPT ![t].kind = "Scan"]
    BY <1>3 DEF StartScan
  <2>2. Locks'
    BY <1>1, <2>1, GotoLocks DEF Label
  <2> QED
    BY <1>1, <2>1, <2>2 DEF ScanHolds, Goto, Locks
<1>4. CASE Lock(t)
  <2>1. Locks'
    BY <1>1, <1>4, LockLocks
  <2> QED
    BY <1>1, <1>4, <2>1, NoThreadAssumption DEF Lock, ScanHolds, Goto, Locks
<1>5. CASE LoadEntries(t)
  <2>1. PICK label \in {AfterLoad(t), "list"} : Goto(t, label)
    BY <1>5 DEF LoadEntries
  <2>2. pc[t] = "load" /\ UNCHANGED <<entry_lock, call>>
    BY <1>5 DEF LoadEntries
  <2>3. label \in Label \ {"idle"} /\ (label = "scan" => entry_lock = t)
        /\ label \notin {"find", "fill"}
    BY <1>1, <2>1, <2>2 DEF AfterLoad, Label, ScanHolds
  <2>4. Locks'
    BY <1>1, <2>1, <2>2, <2>3, GotoLocks
  <2> QED
    BY <1>1, <2>1, <2>2, <2>4 DEF ScanHolds, Goto, Locks
<1>6. CASE List(t)
  <2>1. pc[t] = "list" /\ UNCHANGED call
    BY <1>6 DEF List
  <2>2. CASE Goto(t, "insert") /\ UNCHANGED entry_lock
    <3>1. Locks'
      BY <1>1, <2>2, GotoLocks DEF Label
    <3> QED
      BY <1>1, <2>1, <2>2, <3>1 DEF ScanHolds, Goto, Locks
  <2>3. CASE Leave(t)
    <3>1. Locks'
      BY <1>1, <2>3, LeaveLocks
    <3> QED
      BY <1>1, <2>1, <2>3, <3>1 DEF ScanHolds, Leave, Unlock, Goto, Locks
  <2> QED
    BY <1>6, <2>2, <2>3 DEF List
<1>7. CASE CreateEntry(t)
  BY <1>1, <1>7 DEF CreateEntry, Locks, ScanHolds
<1>8. CASE EndOfLoad(t)
  <2>1. Goto(t, AfterLoad(t)) /\ UNCHANGED <<entry_lock, call>>
        /\ pc[t] = "insert"
    BY <1>8 DEF EndOfLoad
  <2>2. AfterLoad(t) \in Label \ {"idle", "find", "fill"}
        /\ (AfterLoad(t) = "scan" => entry_lock = t)
    BY <1>1, <2>1 DEF AfterLoad, Label, ScanHolds
  <2>3. Locks'
    BY <1>1, <2>1, <2>2, GotoLocks
  <2> QED
    BY <1>1, <2>1, <2>2, <2>3 DEF ScanHolds, Goto, Locks, AfterLoad
<1>9. CASE Find(t) \/ FillEntry(t) \/ Scan(t)
  <2>1. entry_lock = t /\ UNCHANGED call
    BY <1>1, <1>9 DEF Find, FillEntry, Scan, Locks
  <2>2. CASE Goto(t, "fill") /\ UNCHANGED entry_lock
    <3>1. Locks'
      BY <1>1, <2>1, <2>2, GotoLocks DEF Label
    <3> QED
      BY <1>1, <2>1, <2>2, <3>1 DEF ScanHolds, Goto, Locks
  <2>3. CASE Leave(t)
    <3>1. Locks'
      BY <1>1, <2>3, LeaveLocks
    <3> QED
      BY <1>1, <2>1, <2>3, <3>1 DEF ScanHolds, Leave, Unlock, Goto, Locks
  <2> QED
    BY <1>9, <2>2, <2>3 DEF Find, FillEntry, Return, Scan
<1> QED
  BY <1>2, <1>3, <1>4, <1>5, <1>6, <1>7, <1>8, <1>9 DEF Action, Step

\* A lookup that is about to fill an entry has found it, and the entries of a
\* set of schemas are filled.
LEMMA EntrySteps ==
    ASSUME Inv, NEW t \in Threads, Action(t)
    PROVE  Filling' /\ SchemasFilled' /\ ReturnedStays'
<1>1. MapTypes /\ ThreadTypes /\ GhostTypes /\ Locks
  BY TypeParts DEF Inv
<1>2. Filling /\ SchemasFilled /\ ReturnedStays
  BY DEF Inv
<1>3. CASE CreateEntry(t)
  <2>1. PICK n \in pending[t] :
          entries' = Insert(n) \/ entries' = entries
    BY <1>3 DEF CreateEntry
  <2>2. UNCHANGED <<pc, call, fills, lookedUp>>
    BY <1>3 DEF CreateEntry
  <2>3. /\ \A m \in DOMAIN entries : /\ m \in DOMAIN entries'
                                     /\ entries'[m] = entries[m]
        /\ \A m \in DOMAIN entries' :
              m \in DOMAIN entries \/ entries'[m].filled = ~fills
    <3>1. CASE entries' = Insert(n)
      <4>1. /\ DOMAIN entries' = DOMAIN entries \cup {n}
            /\ \A m \in DOMAIN entries : entries'[m] = entries[m]
            /\ n \notin DOMAIN entries =>
                  entries'[n] = [object |-> objects, filled |-> ~fills]
        BY <3>1, InsertKeeps
      <4> QED
        BY <4>1
    <3>2. CASE entries' = entries
      BY <3>2
    <3> QED
      BY <2>1, <3>1, <3>2
  <2>4. SchemasFilled'
    BY <1>2, <2>2, <2>3 DEF SchemasFilled
  <2> QED
    BY <1>2, <2>2, <2>3, <2>4 DEF Filling, ReturnedStays
<1>4. CASE FillEntry(t)
  <2> DEFINE name == call[t].name
  <2>1. name \in DOMAIN entries /\ UNCHANGED <<call, fills>>
    BY <1>4, FillTypes DEF Inv, FillEntry, mapVars
  <2>2. Leave(t)
    BY <1>4 DEF FillEntry, Return
  <2>3. DOMAIN entries' = DOMAIN entries
    BY <1>4 DEF FillEntry, mapVars
  <2>4. \A m \in DOMAIN entries : entries[m].filled => entries'[m] = entries[m]
    BY <1>4 DEF FillEntry, mapVars
  <2>5. \/ lookedUp' = lookedUp
        \/ /\ lookedUp' = lookedUp \cup {[name |-> name, entry |-> entries'[name]]}
           /\ entries'[name].filled
    BY <1>4, <2>1 DEF FillEntry, Return, mapVars
  <2>6. Filling'
    BY <1>1, <1>2, <2>1, <2>2, <2>3 DEF Filling, Leave, Goto, Locks
  <2>7. SchemasFilled'
    BY <1>2, <2>1, <2>3, <2>4 DEF SchemasFilled
  <2>8. ReturnedStays'
    BY <1>2, <2>1, <2>3, <2>4, <2>5 DEF ReturnedStays
  <2> QED
    BY <2>6, <2>7, <2>8
<1>5. CASE Find(t)
  <2>1. UNCHANGED <<mapVars, call, lookedUp>>
        /\ \/ Goto(t, "fill") /\ call[t].name \in DOMAIN entries
           \/ Goto(t, "idle")
    BY <1>5 DEF Find, Leave
  <2> QED
    BY <1>1, <1>2, <2>1
       DEF Filling, SchemasFilled, ReturnedStays, Goto, Locks, mapVars
<1>6. ASSUME UNCHANGED <<mapVars, lookedUp>>, NEW label \in Label \ {"fill"},
             Goto(t, label), \A u \in Threads \ {t} : call'[u] = call[u]
      PROVE  Filling' /\ SchemasFilled' /\ ReturnedStays'
  BY <1>1, <1>2, <1>6
     DEF Filling, SchemasFilled, ReturnedStays, Goto, Locks, mapVars
<1>7. CASE StartGetEntry(t)
  BY <1>1, <1>6, <1>7 DEF StartGetEntry, ghostVars, Label, ThreadTypes
<1>8. CASE StartScan(t)
  BY <1>1, <1>6, <1>8 DEF StartScan, ghostVars, Label, ThreadTypes
<1>9. CASE Lock(t)
  BY <1>6, <1>9 DEF Lock, ghostVars, Label
<1>10. CASE LoadEntries(t)
  BY <1>6, <1>10 DEF LoadEntries, AfterLoad, Label
<1>11. CASE List(t)
  BY <1>6, <1>11 DEF List, Leave, ghostVars, Label
<1>12. CASE EndOfLoad(t)
  BY <1>6, <1>12 DEF EndOfLoad, AfterLoad, ghostVars, Label
<1>13. CASE Scan(t)
  BY <1>6, <1>13 DEF Scan, Leave, Label
<1> QED
  BY <1>3, <1>4, <1>5, <1>7, <1>8, <1>9, <1>10, <1>11, <1>12, <1>13
     DEF Action, Step

-----------------------------------------------------------------------------
(* What a load has done, unless threads met in the map *)

\* A thread that uses the map while no other inserts into it.
LEMMA UseMapAlone ==
    ASSUME NEW t \in Threads, UseMap(t), ~overlapped'
    PROVE  ~overlapped /\ \A u \in Threads \ {t} : pc[u] # "insert"
BY DEF UseMap, Racing

\* What it takes to keep Loaded: entries are not lost, a thread that stops
\* inserting leaves all entries, and so does one that passes its load.
LEMMA LoadedKept ==
    ASSUME Locks, Loaded, NEW t \in Threads, ~overlapped => missed' = missed,
           overlapped => overlapped',
           \A u \in Threads \ {t} : /\ pc'[u] = pc[u]
                                    /\ call'[u] = call[u]
                                    /\ pending'[u] = pending[u],
           ~overlapped' =>
               /\ DOMAIN entries \subseteq DOMAIN entries'
               /\ Loading(t)'
               /\ LoadedFor(t)' => Listed \subseteq DOMAIN entries'
               /\ Partial'
    PROVE  Loaded'
<1> SUFFICES ASSUME ~overlapped' PROVE
        /\ \A u \in Threads : Loading(u)'
        /\ Partial'
        /\ \A u \in Threads : LoadedFor(u)' => Listed \subseteq DOMAIN entries'
        /\ missed' = {}
  BY DEF Loaded
<1>1. /\ \A u \in Threads : Loading(u)
      /\ \A u \in Threads : LoadedFor(u) => Listed \subseteq DOMAIN entries
      /\ missed = {}
  BY DEF Loaded
<1>2. ASSUME NEW u \in Threads, u # t
      PROVE  Loading(u)' /\ (LoadedFor(u)' => Listed \subseteq DOMAIN entries')
  <2>1. /\ pc'[u] = pc[u] /\ call'[u] = call[u] /\ pending'[u] = pending[u]
        /\ DOMAIN entries \subseteq DOMAIN entries'
    BY <1>2
  <2> QED
    BY <1>1, <2>1 DEF Loading, LoadedFor
<1> QED
  BY <1>1, <1>2

\* While no two loads overlap, a set that is loaded has every entry that was
\* listed.
LEMMA LoadSteps ==
    ASSUME Inv, NEW t \in Threads, Action(t)
    PROVE  Loaded'
<1>1. ThreadTypes /\ Locks /\ Loaded
  BY TypeParts DEF Inv
<1>2. \/ overlapped
      \/ /\ Partial
         /\ Loading(t)
         /\ LoadedFor(t) => Listed \subseteq DOMAIN entries
  BY <1>1 DEF Loaded
<1>3. CASE CreateEntry(t)
  <2>1. PICK n \in pending[t] :
          /\ pending' = [pending EXCEPT ![t] = @ \ {n}]
          /\ entries' = Insert(n) \/ (Racing(t) /\ entries' = entries)
    BY <1>3 DEF CreateEntry
  <2>2. UNCHANGED <<pc, call, missed>> /\ UseMap(t) /\ pc[t] = "insert"
    BY <1>3 DEF CreateEntry
  <2>3. ASSUME ~overlapped'
        PROVE  DOMAIN entries' = DOMAIN entries \cup {n}
    BY <2>1, <2>2, <2>3, InsertKeeps DEF UseMap
  <2>4. overlapped => overlapped'
    BY <2>2 DEF UseMap
  <2>5. ASSUME ~overlapped'
        PROVE  Loading(t)' /\ ~LoadedFor(t)' /\ Partial'
    BY <1>1, <1>2, <2>1, <2>2, <2>3, <2>4, <2>5
       DEF Loading, LoadedFor, Partial, ThreadTypes
  <2> QED
    BY <1>1, <2>1, <2>2, <2>3, <2>4, <2>5, LoadedKept DEF ThreadTypes
<1>4. CASE EndOfLoad(t)
  <2>1. /\ UNCHANGED <<entries, call, pending, missed, overlapped>>
        /\ Goto(t, AfterLoad(t)) /\ pc[t] = "insert" /\ pending[t] = {}
    BY <1>4 DEF EndOfLoad, mapVars, ghostVars
  <2>2. ASSUME ~overlapped
        PROVE  Listed \subseteq DOMAIN entries
    BY <1>2, <2>1, <2>2 DEF Loading
  <2>3. pc'[t] \in {"scan", "lock"}
    BY <1>1, <2>1 DEF Goto, AfterLoad, Locks
  <2>4. ASSUME ~overlapped
        PROVE  Loading(t)' /\ Partial'
    BY <2>1, <2>2, <2>3, <2>4 DEF Loading, Partial
  <2> QED
    BY <1>1, <2>1, <2>2, <2>4, LoadedKept DEF Goto, Locks
<1>5. CASE LoadEntries(t)
  <2>1. /\ UNCHANGED <<entries, call, pending, missed>> /\ UseMap(t)
        /\ pc[t] = "load"
        /\ Goto(t, IF DOMAIN entries # {} THEN AfterLoad(t) ELSE "list")
    BY <1>5 DEF LoadEntries, mapVars
  <2>2. overlapped => overlapped'
    BY <2>1 DEF UseMap
  <2>3. ASSUME ~overlapped', LoadedFor(t)'
        PROVE  Listed \subseteq DOMAIN entries
    <3>1. \A u \in Threads : pc[u] # "insert"
      BY <2>1, <2>3, UseMapAlone
    <3>2. DOMAIN entries # {}
      BY <1>1, <2>1, <2>3 DEF LoadedFor, Goto, Locks
    <3> QED
      BY <1>2, <2>2, <2>3, <3>1, <3>2 DEF Partial
  <2>4. pc'[t] # "insert"
    BY <1>1, <2>1 DEF Goto, AfterLoad, Locks
  <2>5. ASSUME ~overlapped' PROVE Partial'
    <3>1. DOMAIN entries = {} \/ Listed \subseteq DOMAIN entries
      BY <1>2, <2>1, <2>2, <2>5, UseMapAlone DEF Partial
    <3> QED
      BY <3>1, <2>1 DEF Partial
  <2> QED
    BY <1>1, <2>1, <2>2, <2>3, <2>4, <2>5, LoadedKept DEF Goto, Locks, Loading
<1>6. CASE List(t)
  <2>1. /\ UNCHANGED <<entries, call, missed, overlapped>> /\ pc[t] = "list"
        /\ \/ pending' = [pending EXCEPT ![t] = Listed] /\ Goto(t, "insert")
           \/ UNCHANGED pending /\ Goto(t, "idle")
    BY <1>6 DEF List, Leave, mapVars, ghostVars
  <2>2. Loading(t)' /\ ~LoadedFor(t)'
    BY <1>1, <2>1 DEF Loading, LoadedFor, Goto, Locks, ThreadTypes
  <2>3. ASSUME ~overlapped PROVE Partial'
    BY <1>1, <1>2, <2>1, <2>3 DEF Partial, Goto, Locks
  <2> QED
    BY <1>1, <2>1, <2>2, <2>3, LoadedKept DEF Goto, Locks, ThreadTypes
<1>7. CASE Find(t)
  <2> DEFINE name == call[t].name
  <2>1. /\ UNCHANGED <<entries, call, pending>> /\ UseMap(t) /\ pc[t] = "find"
        /\ \/ Goto(t, "fill") /\ UNCHANGED missed
           \/ /\ Goto(t, "idle")
              /\ name \notin DOMAIN entries \/ Racing(t)
              /\ missed' = missed \cup ({name} \cap Listed)
    BY <1>7 DEF Find, Leave, mapVars
  <2>2. overlapped => overlapped'
    BY <2>1 DEF UseMap
  <2>3. ASSUME ~overlapped' PROVE missed' = missed /\ Partial'
    <3>1. Listed \subseteq DOMAIN entries /\ ~Racing(t)
      BY <1>2, <2>1, <2>2, <2>3 DEF LoadedFor, UseMap
    <3> QED
      BY <2>1, <3>1 DEF Partial
  <2>4. Loading(t)' /\ (~overlapped' /\ LoadedFor(t)' => Listed \subseteq DOMAIN entries')
    BY <1>1, <1>2, <2>1, <2>2 DEF Loading, LoadedFor, Goto, Locks
  <2>5. CASE overlapped'
    BY <2>5 DEF Loaded
  <2>6. CASE ~overlapped'
    BY <1>1, <2>1, <2>2, <2>3, <2>4, <2>6, LoadedKept DEF Goto, Locks
  <2> QED
    BY <2>5, <2>6
<1>8. ASSUME pc[t] # "insert", NEW label \in Label \ {"insert"}, Goto(t, label),
             DOMAIN entries' = DOMAIN entries, UNCHANGED <<pending, missed>>,
             \A u \in Threads \ {t} : call'[u] = call[u],
             overlapped => overlapped',
             LoadedFor(t)' => LoadedFor(t)
      PROVE  Loaded'
  <2>1. Loading(t)'
    BY <1>1, <1>8 DEF Loading, Goto, Locks
  <2>2. ASSUME ~overlapped' PROVE Partial'
    BY <1>1, <1>2, <1>8, <2>2 DEF Partial, Goto, Locks
  <2> QED
    BY <1>1, <1>2, <1>8, <2>1, <2>2, LoadedKept DEF Goto, Locks
<1>9. CASE StartGetEntry(t)
  <2>1. Goto(t, "load") /\ pc[t] = "idle"
    BY <1>9 DEF StartGetEntry
  <2>2. ~LoadedFor(t)'
    BY <1>1, <2>1 DEF LoadedFor, Goto, Locks
  <2> QED
    BY <1>1, <1>8, <1>9, <2>1, <2>2
       DEF StartGetEntry, mapVars, ghostVars, Label, ThreadTypes
<1>10. CASE StartScan(t)
  <2>1. Goto(t, "lock") /\ pc[t] = "idle" /\ call'[t].kind = "Scan"
    BY <1>1, <1>10 DEF StartScan, ThreadTypes, Call
  <2>2. ~LoadedFor(t)'
    BY <1>1, <2>1 DEF LoadedFor, Goto, Locks
  <2> QED
    BY <1>1, <1>8, <1>10, <2>1, <2>2
       DEF StartScan, mapVars, ghostVars, Label, ThreadTypes
<1>11. CASE Lock(t)
  <2> DEFINE label == IF call[t].kind = "Scan" THEN "load" ELSE "find"
  <2>1. Goto(t, label) /\ pc[t] = "lock" /\ call' = call
    BY <1>11 DEF Lock
  <2>2. call[t].kind \in {"GetEntry", "Scan"}
    BY <1>1 DEF ThreadTypes, Call
  <2>3. LoadedFor(t)' => LoadedFor(t)
    BY <1>1, <2>1, <2>2 DEF LoadedFor, Goto, Locks
  <2> QED
    BY <1>8, <1>11, <2>1, <2>3 DEF Lock, mapVars, ghostVars, Label
<1>12. CASE FillEntry(t)
  <2>1. /\ Goto(t, "idle") /\ pc[t] = "fill"
        /\ DOMAIN entries' = DOMAIN entries
        /\ UNCHANGED <<call, pending, missed, overlapped>>
    BY <1>12 DEF FillEntry, Return, Leave, mapVars
  <2> QED
    BY <1>8, <2>1 DEF Label, LoadedFor
<1>13. CASE Scan(t)
  <2>1. /\ Goto(t, "idle") /\ pc[t] = "scan" /\ UseMap(t)
        /\ UNCHANGED <<entries, call, pending, missed>>
    BY <1>13 DEF Scan, Leave, mapVars
  <2> QED
    BY <1>8, <2>1 DEF Label, LoadedFor, UseMap
<1> QED
  BY <1>3, <1>4, <1>5, <1>6, <1>7, <1>9, <1>10, <1>11, <1>12, <1>13
     DEF Action, Step

-----------------------------------------------------------------------------
(* The theorems *)

\* No step of any thread leaves the invariant.
LEMMA NextInv == Inv /\ [Next]_vars => Inv'
<1> SUFFICES ASSUME Inv, [Next]_vars PROVE Inv'
  OBVIOUS
<1>1. ASSUME NEW t \in Threads, Action(t) PROVE Inv'
  <2>1. TypeOK'
    <3>1. (TypeOK <=> MapTypes /\ ThreadTypes /\ GhostTypes /\ Locks)'
      BY TypeParts, PTL
    <3> QED
      BY <1>1, <3>1, MapSteps, ThreadSteps, LockSteps
  <2> QED
    BY <1>1, <2>1, LockSteps, EntrySteps, LoadSteps DEF Inv
<1>2. CASE UNCHANGED vars
  BY <1>2
     DEF Inv, TypeOK, ScanHolds, Filling, SchemasFilled, ReturnedStays, Loaded,
         Loading, Partial, LoadedFor, vars, mapVars, ghostVars
<1> QED
  BY <1>1, <1>2 DEF Next, Action

\* The invariant holds in every reachable state.
THEOREM InvHolds == Spec => []Inv
BY InitInv, NextInv, PTL DEF Spec

\* The state of a catalog set is well typed, and the lock is held by the thread
\* that is inside it.
THEOREM TypeCorrect == Spec => []TypeOK
BY InvHolds, PTL DEF Inv

\* An entry that GetEntry returned is never replaced or freed (FillEntry,
\* CreateEntry), for any number of threads and calls.
THEOREM PointersStay == Spec => []ReturnedStays
BY InvHolds, PTL DEF Inv

\* A lookup misses a listed name only if threads met in the map, for any number
\* of threads and calls.
THEOREM LookupsFind == Spec => []MissesOnlyIfOverlapped
<1>1. Inv => MissesOnlyIfOverlapped
  BY DEF Inv, Loaded, MissesOnlyIfOverlapped
<1> QED
  BY <1>1, InvHolds, PTL

=============================================================================
