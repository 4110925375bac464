----------------------------- MODULE CatalogSet -----------------------------
(***************************************************************************)
(* The cached entries of a REST catalog: GetEntry and Scan of IRCCatalogSet *)
(* with LoadEntries and FillEntry of its two kinds, the tables of a schema  *)
(* and the schemas of a catalog (src/src/storage/irc_catalog_set.cpp,       *)
(* irc_table_set.cpp, irc_schema_set.cpp).  Scan loads the set with         *)
(* entry_lock held, GetEntry before it takes the lock, so a load may run    *)
(* beside other loads and beside lookups.                                   *)
(*                                                                         *)
(* An entry that a listing of tables made is empty; the first lookup        *)
(* replaces it by one filled with what the catalog says of the table.       *)
(* Callers keep pointers to entries, so each has an identity of its own.    *)
(* Accesses of the map that race are undefined: an insertion beside another *)
(* may be lost, and a lookup beside an insertion may miss.                  *)
(***************************************************************************)
EXTENDS Integers, FiniteSets

CONSTANTS
    Threads,
    NoThread,
    Listed,         \* the tables or schemas that the catalog lists
    Names,          \* the names that are looked up
    MaxCalls        \* bound: calls of each thread

ASSUME NamesAssumption == Listed \subseteq Names /\ Names # {}
ASSUME CallsAssumption == MaxCalls \in Nat
ASSUME NoThreadAssumption == NoThread \notin Threads

VARIABLES
    fills,          \* the set is one of tables, whose entries get filled
    entries,        \* the map: for each name in its domain, an entry
    entry_lock,     \* the thread that holds it
    objects,        \* how many entries were made so far
    pc,
    call,           \* the call each thread is in: GetEntry of a name, Scan
    pending,        \* what a thread's load listed and has not inserted yet
    calls,          \* how many calls each thread made
    lookedUp,       \* the entries that GetEntry returned so far
    missed,         \* listed names of which a lookup found no entry
    overlapped      \* a thread used the map while another inserted into it

mapVars == <<fills, entries, objects>>
ghostVars == <<lookedUp, missed, overlapped>>
vars == <<mapVars, entry_lock, pc, call, pending, calls, ghostVars>>

Entry == [object : Nat, filled : BOOLEAN]
Call == [kind : {"GetEntry", "Scan"}, name : Names]

TypeOK ==
    /\ fills \in BOOLEAN
    /\ DOMAIN entries \subseteq Listed
    /\ \A n \in DOMAIN entries : entries[n] \in Entry
    /\ entry_lock \in Threads \cup {NoThread}
    /\ objects \in Nat
    /\ pc \in [Threads -> {"idle", "lock", "load", "list", "insert", "find",
                           "fill", "scan"}]
    /\ call \in [Threads -> Call]
    /\ pending \in [Threads -> SUBSET Listed]
    /\ calls \in [Threads -> 0 .. MaxCalls]
    /\ \A e \in lookedUp : e.name \in Listed /\ e.entry \in Entry
    /\ missed \subseteq Listed
    /\ overlapped \in BOOLEAN
    /\ \A t \in Threads : /\ pc[t] \in {"find", "fill", "scan"}
                             => entry_lock = t
                          /\ pc[t] = "idle" => entry_lock # t

Init ==
    /\ fills \in BOOLEAN
    /\ entries = [n \in {} |-> 0]
    /\ entry_lock = NoThread
    /\ objects = 0
    /\ pc = [t \in Threads |-> "idle"]
    /\ call = [t \in Threads |-> [kind |-> "Scan",
                                name |-> CHOOSE n \in Names : TRUE]]
    /\ pending = [t \in Threads |-> {}]
    /\ calls = [t \in Threads |-> 0]
    /\ lookedUp = {}
    /\ missed = {}
    /\ overlapped = FALSE

Goto(t, label) == pc' = [pc EXCEPT ![t] = label]

\* Another thread is inserting into the map.
Racing(t) == \E u \in Threads \ {t} : pc[u] = "insert"

\* Thread t reads or writes the map.
UseMap(t) == overlapped' = (overlapped \/ Racing(t))

\* Mutant of Unlock: the mutex is set free whoever holds it.
UnlockOthers(t) == entry_lock' = NoThread

\* A call ends, by a return or an exception: the lock_guard lets go.
Unlock(t) ==
    entry_lock' = IF entry_lock = t THEN NoThread ELSE entry_lock

\* Mutant of Leave: the lock is kept.
LeaveLocked(t) == Goto(t, "idle") /\ UNCHANGED entry_lock

Leave(t) == Goto(t, "idle") /\ Unlock(t)

-----------------------------------------------------------------------------
(* The calls *)

StartGetEntry(t) ==
    /\ pc[t] = "idle"
    /\ calls[t] < MaxCalls
    /\ calls' = [calls EXCEPT ![t] = @ + 1]
    /\ \E n \in Names : call' = [call EXCEPT ![t] = [kind |-> "GetEntry",
                                                     name |-> n]]
    /\ Goto(t, "load")
    /\ UNCHANGED <<mapVars, entry_lock, pending, ghostVars>>

StartScan(t) ==
    /\ pc[t] = "idle"
    /\ calls[t] < MaxCalls
    /\ calls' = [calls EXCEPT ![t] = @ + 1]
    /\ call' = [call EXCEPT ![t].kind = "Scan"]
    /\ Goto(t, "lock")
    /\ UNCHANGED <<mapVars, entry_lock, pending, ghostVars>>

\* lock_guard<mutex> l(entry_lock)
Lock(t) ==
    /\ pc[t] = "lock"
    /\ entry_lock = NoThread
    /\ entry_lock' = t
    /\ Goto(t, IF call[t].kind = "Scan" THEN "load" ELSE "find")
    /\ UNCHANGED <<mapVars, call, pending, calls, ghostVars>>

AfterLoad(t) == IF call[t].kind = "Scan" THEN "scan" ELSE "lock"

\* LoadEntries: nothing to do for a map with entries in it.
LoadEntries(t) ==
    /\ pc[t] = "load"
    /\ Goto(t, IF DOMAIN entries # {} THEN AfterLoad(t) ELSE "list")
    /\ UseMap(t)
    /\ UNCHANGED <<mapVars, entry_lock, call, pending, calls, lookedUp, missed>>

\* Mutant of List: a request that failed listed nothing.
FailedListIsEmpty(t) ==
    /\ pc[t] = "list"
    /\ pending' \in {[pending EXCEPT ![t] = l] : l \in {{}, Listed}}
    /\ Goto(t, "insert")
    /\ UNCHANGED <<mapVars, entry_lock, call, calls, ghostVars>>

\* IRCAPI::GetTables, IRCAPI::GetSchemas: a request, which may fail.
List(t) ==
    /\ pc[t] = "list"
    /\ \/ /\ pending' = [pending EXCEPT ![t] = Listed]
          /\ Goto(t, "insert")
          /\ UNCHANGED entry_lock
       \/ /\ Leave(t)
          /\ UNCHANGED pending
    /\ UNCHANGED <<mapVars, call, calls, ghostVars>>

\* Mutant of Insert: entries[n] is assigned to.
InsertOrAssign(n) ==
    [m \in DOMAIN entries \cup {n} |->
        IF m = n THEN [object |-> objects, filled |-> ~fills] ELSE entries[m]]

\* entries.insert leaves an entry of the same name alone.
Insert(n) ==
    IF n \in DOMAIN entries
    THEN entries
    ELSE [m \in DOMAIN entries \cup {n} |->
            IF m = n THEN [object |-> objects, filled |-> ~fills]
            ELSE entries[m]]

\* CreateEntry for one of those listed.
CreateEntry(t) ==
    /\ pc[t] = "insert"
    /\ \E n \in pending[t] :
          /\ pending' = [pending EXCEPT ![t] = @ \ {n}]
          /\ \/ entries' = Insert(n)
             \/ Racing(t) /\ UNCHANGED entries
    /\ objects' = objects + 1
    /\ UseMap(t)
    /\ UNCHANGED <<fills, entry_lock, pc, call, calls, lookedUp, missed>>

EndOfLoad(t) ==
    /\ pc[t] = "insert"
    /\ pending[t] = {}
    /\ Goto(t, AfterLoad(t))
    /\ UNCHANGED <<mapVars, entry_lock, call, pending, calls, ghostVars>>

\* entries.find: without an entry GetEntry returns a null pointer.
Find(t) ==
    LET name == call[t].name
    IN  /\ pc[t] = "find"
        /\ UseMap(t)
        /\ \/ /\ name \in DOMAIN entries
              /\ Goto(t, "fill")
              /\ UNCHANGED <<entry_lock, missed>>
           \/ /\ name \notin DOMAIN entries \/ Racing(t)
              /\ Leave(t)
              /\ missed' = missed \cup ({name} \cap Listed)
        /\ UNCHANGED <<mapVars, call, pending, calls, lookedUp>>

Return(t, name) ==
    /\ lookedUp' = lookedUp \cup {[name |-> name, entry |-> entries'[name]]}
    /\ Leave(t)

\* FillEntry, and the return of the entry: a filled one stays, an empty one is
\* replaced if the request for the table succeeds.
FillEntry(t) ==
    LET name == call[t].name
    IN  /\ pc[t] = "fill"
        /\ \/ /\ entries[name].filled
              /\ UNCHANGED mapVars
              /\ Return(t, name)
           \/ /\ ~entries[name].filled
              /\ entries' = [entries EXCEPT ![name] = [object |-> objects,
                                                       filled |-> TRUE]]
              /\ objects' = objects + 1
              /\ UNCHANGED fills
              /\ Return(t, name)
           \/ /\ ~entries[name].filled
              /\ Leave(t)
              /\ UNCHANGED <<mapVars, lookedUp>>
        /\ UNCHANGED <<call, pending, calls, missed, overlapped>>

\* The loop over the entries, whose callbacks only take note of them.
Scan(t) ==
    /\ pc[t] = "scan"
    /\ UseMap(t)
    /\ Leave(t)
    /\ UNCHANGED <<mapVars, call, pending, calls, lookedUp, missed>>

Step(t) == \/ Lock(t)
           \/ LoadEntries(t)
           \/ List(t)
           \/ CreateEntry(t)
           \/ EndOfLoad(t)
           \/ Find(t)
           \/ FillEntry(t)
           \/ Scan(t)

Next == \E t \in Threads : StartGetEntry(t) \/ StartScan(t) \/ Step(t)

Spec == Init /\ [][Next]_vars

\* A call that began takes its next step; the mutex lets a waiting thread in
\* when it stays free.
FairSpec == Spec /\ \A t \in Threads : WF_vars(Step(t))

-----------------------------------------------------------------------------
(* Properties *)

\* An entry that GetEntry returned is filled and is never replaced or freed,
\* whatever other threads load, look up and scan: callers keep the pointer.
ReturnedStays ==
    \A e \in lookedUp : /\ e.entry.filled
                        /\ e.name \in DOMAIN entries
                        /\ entries[e.name] = e.entry

\* A lookup of what the catalog lists finds it, after failed requests
\* too, unless some thread has used the map while another inserted.
MissesOnlyIfOverlapped == missed # {} => overlapped

\* Every call returns or throws, after whatever failures, and leaves the lock.
CallsReturn ==
    \A t \in Threads : pc[t] # "idle" ~> pc[t] = "idle" /\ entry_lock # t

=============================================================================
