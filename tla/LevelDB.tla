------------------------------ MODULE LevelDB ------------------------------
(***************************************************************************)
(* common/db/leveldb: one leveldb used as many named ones (provider.go),   *)
(* opening and closing it, and the lock on a file that is made of one more *)
(* leveldb (leveldb.go).                                                   *)
(*                                                                         *)
(* A byte is a number and a key a sequence of bytes: the names share one   *)
(* key space, and what keeps them apart is how level keys are made.        *)
(* leveldb itself is external: a map from keys in byte order, atomic       *)
(* batches, an exclusive lock on the directory while it is open, writes    *)
(* that a crash may take back until the next synchronous one, and a        *)
(* creation that puts other files into the directory before the database is*)
(* there.                                                                  *)
(***************************************************************************)
EXTENDS Integers, Sequences, FiniteSets

CONSTANTS
    Name,        \* the names of stores, sequences of bytes
    Key,         \* the keys, sequences of bytes
    Value,
    None,        \* no value; also the nil of a deletion and of a key
    Lock,        \* the FileLocks of one path, each in a process of its own
    MaxUnsynced  \* bound: earlier contents that a crash may bring back

dbNameKeySep     == <<0>>
lastKeyIndicator == 1

(* No name contains the separator.  GetDBHandle does not check this.       *)
ASSUME NameAssumption ==
    /\ \A n \in Name : n \in Seq(Nat) /\ \A i \in DOMAIN n : n[i] # dbNameKeySep[1]
    /\ \A k \in Key : k \in Seq(Nat)
    /\ None \notin Key \cup Value \cup Lock

VARIABLES
    dir,       \* DBPath: "missing", "empty", "partial" (no database), a "db"
    data,      \* what leveldb maps a level key to
    unsynced,  \* the earlier contents that a crash may bring back
    dbState,   \* "closed", "opened"; "opening" and "creating" inside Open
    dirEmpty,  \* local variable of Open
    lockDir,   \* the directory of the file lock, as dir
    owner,     \* who holds leveldb's lock on lockDir
    lockDb,    \* FileLock.db is not nil
    lockPc,    \* where each process stands in Lock: as dbState
    lockEmpty, \* dirEmpty of each Lock
    panicked,  \* the directories ("db", "lock") in which OpenFile has failed
    cutOff     \* history: those in which a process died creating a database

dbVars   == <<dir, data, unsynced, dbState, dirEmpty>>
lockVars == <<lockDir, owner, lockDb, lockPc, lockEmpty>>
vars     == <<dbVars, lockVars, panicked, cutOff>>

-----------------------------------------------------------------------------
(* Keys.                                                                   *)

constructLevelKeyNameless(n, k) == dbNameKeySep \o k
constructLevelKey(n, k) == n \o dbNameKeySep \o k

(* What follows the first separator.                                       *)
retrieveAppKeyLast(l) ==
    LET i == CHOOSE i \in DOMAIN l : /\ l[i] = dbNameKeySep[1]
                                     /\ \A j \in (i + 1)..Len(l) : l[j] # l[i]
    IN  SubSeq(l, i + 1, Len(l))

retrieveAppKey(l) ==
    LET i == CHOOSE i \in DOMAIN l : /\ l[i] = dbNameKeySep[1]
                                     /\ \A j \in 1..(i - 1) : l[j] # l[i]
    IN  SubSeq(l, i + 1, Len(l))

(* Byte order: a is a proper prefix of b, or smaller where they first      *)
(* differ.                                                                 *)
Before(a, b) ==
    \E i \in 1..Len(b) :
        /\ \A j \in 1..(i - 1) : j \in DOMAIN a /\ a[j] = b[j]
        /\ i \in DOMAIN a => a[i] < b[i]

(* The end of the range for a nil endKey: lastKeyIndicator in the place of *)
(* the separator.                                                          *)
EndKey(n, end) ==
    IF end = None THEN n \o <<lastKeyIndicator>> ELSE constructLevelKey(n, end)

StartKey(n, start) ==
    constructLevelKey(n, IF start = None THEN <<>> ELSE start)

LevelKey == {constructLevelKey(n, k) : n \in Name, k \in Key}

(* The keys an iterator of the store of n yields.                          *)
GetIterator(n, start, end) ==
    {retrieveAppKey(l) : l \in {x \in LevelKey :
        /\ data[x] # None
        /\ ~Before(x, StartKey(n, start))
        /\ Before(x, EndKey(n, end))}}

-----------------------------------------------------------------------------
Contents == [LevelKey -> Value \cup {None}]

(* The types, and an open database and a held lock are on disk.            *)
TypeOK ==
    /\ {dir, lockDir} \subseteq {"missing", "empty", "partial", "db"}
    /\ data \in Contents
    /\ unsynced \subseteq Contents
    /\ dbState \in {"closed", "opening", "creating", "opened"}
    /\ dirEmpty \in BOOLEAN
    /\ owner \in Lock \cup {None}
    /\ lockDb \in [Lock -> BOOLEAN]
    /\ lockPc \in [Lock -> {"closed", "opening", "creating"}]
    /\ lockEmpty \in [Lock -> BOOLEAN]
    /\ panicked \cup cutOff \subseteq {"db", "lock"}
    /\ dbState = "opened" => dir = "db"
    /\ \A f \in Lock : lockDb[f] => lockDir = "db"

Init ==
    /\ dir = "missing" /\ lockDir = "missing"
    /\ data = [l \in LevelKey |-> None]
    /\ unsynced = {}
    /\ dbState = "closed"
    /\ dirEmpty = FALSE
    /\ owner = None
    /\ lockDb = [f \in Lock |-> FALSE]
    /\ lockPc = [f \in Lock |-> "closed"]
    /\ lockEmpty = [f \in Lock |-> FALSE]
    /\ panicked = {} /\ cutOff = {}

(* CreateDirIfMissing: the directory after it, and what it returns.        *)
MkdirAll(d) == IF d = "missing" THEN "empty" ELSE d
DirEmptyIfCreated(d) == d = "missing"
DirEmpty(d) == MkdirAll(d) = "empty"

(* leveldb.OpenFile, with the lock free: a database is opened; where there *)
(* is none ErrorIfMissing makes it fail, else it creates one.  Its own     *)
(* files are in the directory before that.                                 *)
OpenFails(d, errorIfMissing) == errorIfMissing /\ d # "db"
FilesMade(d) == IF d = "db" THEN "db" ELSE "partial"

OpenDirEarly ==
    /\ dbState = "closed"
    /\ dir' = MkdirAll(dir)
    /\ dbState' = "opened"
    /\ UNCHANGED <<data, unsynced, dirEmpty, lockVars, panicked, cutOff>>

(* DB.Open, under db.mux: the directory ...                                *)
OpenDir ==
    /\ dbState = "closed"
    /\ dir' = MkdirAll(dir)
    /\ dirEmpty' = DirEmpty(dir)
    /\ dbState' = "opening"
    /\ UNCHANGED <<data, unsynced, lockVars, panicked, cutOff>>

(* ... then OpenFile, which opens the database, panics, or creates it ...  *)
OpenFile ==
    /\ dbState = "opening"
    /\ dir' = FilesMade(dir)
    /\ dirEmpty' = FALSE
    /\ \/ /\ OpenFails(dir, ~dirEmpty)
          /\ panicked' = panicked \cup {"db"}
          /\ dbState' = "closed"
       \/ /\ ~OpenFails(dir, ~dirEmpty)
          /\ dbState' = IF dir = "db" THEN "opened" ELSE "creating"
          /\ UNCHANGED panicked
    /\ UNCHANGED <<data, unsynced, lockVars, cutOff>>

(* ... in a step that a crash may precede.                                 *)
CreateDB ==
    /\ dbState = "creating"
    /\ dir' = "db"
    /\ dbState' = "opened"
    /\ UNCHANGED <<data, unsynced, dirEmpty, lockVars, panicked, cutOff>>

(* DBHandle.Close closes the database that all handles share.              *)
Close ==
    /\ dbState = "opened"
    /\ dbState' = "closed"
    /\ UNCHANGED <<dir, data, unsynced, dirEmpty, lockVars, panicked, cutOff>>

(* The batches that Put and Delete can make: a value for each of some keys,*)
(* nil to delete it.                                                       *)
UpdateBatch == UNION {[D -> Value \cup {None}] : D \in SUBSET Key}

(* Write through the handle of n.  A closed database returns an error.     *)
Write(n, kvs, sync) ==
    /\ dbState = "opened"
    /\ data' = [l \in LevelKey |->
                  IF \E k \in DOMAIN kvs : l = constructLevelKey(n, k)
                  THEN kvs[CHOOSE k \in DOMAIN kvs : l = constructLevelKey(n, k)]
                  ELSE data[l]]
    /\ unsynced' = IF sync THEN {} ELSE unsynced \cup {data}
    /\ Cardinality(unsynced') <= MaxUnsynced
    /\ UNCHANGED <<dir, dbState, dirEmpty, lockVars, panicked, cutOff>>

Put(n, k, v)  == Write(n, [x \in {k} |-> v], TRUE)
Delete(n, k)  == Write(n, [x \in {k} |-> None], TRUE)

WriteBatch(n, kvs, sync) ==
    /\ DOMAIN kvs # {}
    /\ Write(n, kvs, sync)

(* The process, or its machine, dies: what was not synchronised may be     *)
(* lost from its end on.                                                   *)
Crash ==
    /\ data' \in unsynced \cup {data}
    /\ unsynced' = {}
    /\ dbState' = "closed"
    /\ dirEmpty' = FALSE
    /\ cutOff' = cutOff \cup (IF dbState = "creating" THEN {"db"} ELSE {})
    /\ UNCHANGED <<dir, lockVars, panicked>>

-----------------------------------------------------------------------------
(* FileLock.                                                               *)

(* FileLock.Lock: the directory ...                                        *)
LockDir(f) ==
    /\ lockPc[f] = "closed"
    /\ lockDir' = MkdirAll(lockDir)
    /\ lockEmpty' = [lockEmpty EXCEPT ![f] = DirEmpty(lockDir)]
    /\ lockPc' = [lockPc EXCEPT ![f] = "opening"]
    /\ UNCHANGED <<dbVars, owner, lockDb, panicked, cutOff>>

(* ... then OpenFile.  Where the lock is held, by f itself even, it returns*)
(* no database and f.db becomes nil; so it does where it panics.           *)
Locked(f, l, pc) ==
    /\ owner' = f
    /\ lockDb' = [lockDb EXCEPT ![f] = l]
    /\ lockPc' = [lockPc EXCEPT ![f] = pc]

NotLocked(f) ==
    /\ lockDb' = [lockDb EXCEPT ![f] = FALSE]
    /\ lockPc' = [lockPc EXCEPT ![f] = "closed"]
    /\ UNCHANGED owner

LockFile(f) ==
    /\ lockPc[f] = "opening"
    /\ lockEmpty' = [lockEmpty EXCEPT ![f] = FALSE]
    /\ \/ /\ owner # None
          /\ NotLocked(f)
          /\ UNCHANGED <<lockDir, panicked>>
       \/ /\ owner = None
          /\ OpenFails(lockDir, ~lockEmpty[f])
          /\ lockDir' = FilesMade(lockDir)
          /\ panicked' = panicked \cup {"lock"}
          /\ NotLocked(f)
       \/ /\ owner = None
          /\ ~OpenFails(lockDir, ~lockEmpty[f])
          /\ lockDir' = FilesMade(lockDir)
          /\ IF lockDir = "db" THEN Locked(f, TRUE, "closed") ELSE Locked(f, FALSE, "creating")
          /\ UNCHANGED panicked
    /\ UNCHANGED <<dbVars, cutOff>>

CreateLockDB(f) ==
    /\ lockPc[f] = "creating"
    /\ lockDir' = "db"
    /\ Locked(f, TRUE, "closed")
    /\ UNCHANGED <<dbVars, lockEmpty, panicked, cutOff>>

UnlockKeepsDb(f) ==
    /\ lockPc[f] = "closed"
    /\ lockDb[f]
    /\ owner' = None
    /\ UNCHANGED <<dbVars, lockDir, lockDb, lockPc, lockEmpty, panicked, cutOff>>

FUnlock(f) ==
    /\ lockPc[f] = "closed"
    /\ lockDb[f]
    /\ owner' = None
    /\ lockDb' = [lockDb EXCEPT ![f] = FALSE]
    /\ UNCHANGED <<dbVars, lockDir, lockPc, lockEmpty, panicked, cutOff>>

(* The process of f dies, and the system releases its lock.                *)
Die(f) ==
    /\ owner' = IF owner = f THEN None ELSE owner
    /\ lockDb' = [lockDb EXCEPT ![f] = FALSE]
    /\ lockPc' = [lockPc EXCEPT ![f] = "closed"]
    /\ lockEmpty' = [lockEmpty EXCEPT ![f] = FALSE]
    /\ cutOff' = cutOff \cup (IF lockPc[f] = "creating" THEN {"lock"} ELSE {})
    /\ UNCHANGED <<dbVars, lockDir, panicked>>

-----------------------------------------------------------------------------
Next ==
    \/ OpenDir \/ OpenFile \/ CreateDB \/ Close \/ Crash
    \/ \E n \in Name, k \in Key :
          \/ \E v \in Value : Put(n, k, v)
          \/ Delete(n, k)
    \/ \E n \in Name, kvs \in UpdateBatch, sync \in BOOLEAN : WriteBatch(n, kvs, sync)
    \/ \E f \in Lock :
          LockDir(f) \/ LockFile(f) \/ CreateLockDB(f) \/ FUnlock(f) \/ Die(f)

Spec == Init /\ [][Next]_vars

-----------------------------------------------------------------------------
(* Properties.                                                             *)

(* What a handle reads: Get of provider.go.                                *)
Get(c, n, k) == c[constructLevelKey(n, k)]
View(c) == [n \in Name |-> [k \in Key |-> Get(c, n, k)]]

(* Handles of different names never see each other's keys, a batch is      *)
(* written and lost as a whole, and only what was written without sync     *)
(* since the last synchronous write can be lost (provider.go).             *)
Stores == INSTANCE NamedStores WITH
    store  <- View(data),
    unsure <- {View(c) : c \in unsynced},
    open   <- dbState = "opened"

ImplementsNamedStores == Stores!Spec

(* An iterator yields the keys of its own store from startKey to before    *)
(* endKey, all of them and no others, a nil bound on either side included  *)
(* (the comment on GetIterator).                                           *)
IteratorExact ==
    \A n \in Name, start, end \in Key \cup {None} :
        GetIterator(n, start, end) =
            {k \in Key : /\ Get(data, n, k) # None
                         /\ start # None => ~Before(k, start)
                         /\ end # None => Before(k, end)}

(* Two FileLocks are never held at a time: whoever has a database open     *)
(* holds the lock of the file, whatever was tried, released or died before.*)
LockExclusive == \A f \in Lock : lockDb[f] => owner = f

(* ErrorIfMissing does not turn against its own program: Open and Lock     *)
(* panic only where a process died while leveldb was creating a database,  *)
(* never because one died, or another is at work, anywhere else in Open or *)
(* Lock.  After such a death they do, since CreateDirIfMissing finds files.*)
PanicsOnlyIfCutOff == panicked \subseteq cutOff
=============================================================================
