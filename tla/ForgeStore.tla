------------------------------ MODULE ForgeStore ------------------------------
(* The SQLite store of the forge: who may have a database file open, and how   *)
(* the in-memory state and the file stay in step.  A store is opened in steps, *)
(* between which files may be moved, linked or put in place under its name; it *)
(* takes a lock on the name and one on the file, and proves with a nonce that  *)
(* its connection writes the file it pinned.  Every write is one transaction.  *)
EXTENDS Naturals, FiniteSets

CONSTANTS
    Files,       \* database files, by device and inode
    Names,       \* canonical paths
    WalFiles,    \* the files another tool left in WAL mode
    Openers,     \* opens of a store, from one process or several
    Snapshots,   \* mutations written by persist
    Receipted,   \* mutations written by persist_with_audit
    Appended,    \* rows with a write path of their own: audit, deployments
    MaxFsMoves   \* bound on what happens to the names

NoFile == "no file"
NoOpener == "nobody"
NoMutation == "no mutation"
Original == "original"
LeftOver == "left over"

Mutations == Snapshots \union Receipted \union Appended
Owned == Snapshots \union Receipted

ASSUME ForgeStoreAssumption ==
    /\ WalFiles \subseteq Files
    /\ Snapshots \cap Receipted = {} /\ Owned \cap Appended = {}
    /\ MaxFsMoves \in Nat
    /\ NoFile \notin Files /\ NoMutation \notin Mutations
    /\ {NoOpener, Original, LeftOver} \cap Openers = {}

Shut == [step |-> "shut", name |-> "", seen |-> NoFile, pinned |-> NoFile, bound |-> NoFile,
         mem |-> {}, write |-> NoMutation, opening |-> FALSE]

VARIABLES
    names,       \* the file each name leads to
    disk,        \* per file: the mutations in it
    userVersion, \* per file: the header field the nonce goes through
    nameLock,    \* holder of the lock on <store>.lock
    fileLock,    \* holder of the flock on the database file
    store,       \* per opener: where it is, and the SqliteStore it has
    fsMoves, used

storeVars == <<names, disk, userVersion, nameLock, fileLock, store, fsMoves, used>>

Links(f) == Cardinality({n \in Names : names[n] = f})

StoreInit ==
    /\ names \in [Names -> Files \union {NoFile}]
    /\ \A n, k \in Names : n # k /\ names[n] # NoFile => names[n] # names[k]
    /\ disk = [f \in Files |-> {}]
    /\ userVersion = [f \in Files |-> Original]
    /\ nameLock = [n \in Names |-> NoOpener]
    /\ fileLock = [f \in Files |-> NoOpener]
    /\ store = [o \in Openers |-> Shut]
    /\ fsMoves = 0 /\ used = {}

-----------------------------------------------------------------------------
(* Opening                                                                     *)

\* file_identity: the name leads to one file, the expected one if there is one.
FileIdentity(n, expected) ==
    /\ names[n] # NoFile
    /\ expected \in {NoFile, names[n]}
    /\ Links(names[n]) = 1

LetGo(o) ==
    /\ nameLock' = [n \in Names |-> IF nameLock[n] = o THEN NoOpener ELSE nameLock[n]]
    /\ fileLock' = [f \in Files |-> IF fileLock[f] = o THEN NoOpener ELSE fileLock[f]]
    /\ store' = [store EXCEPT ![o] = Shut]

\* store_identity: a name that leads nowhere is a store to be created.
StoreIdentity(o, n) ==
    /\ store[o] = Shut
    /\ names[n] # NoFile => FileIdentity(n, NoFile)
    /\ store' = [store EXCEPT ![o] = [Shut EXCEPT !.step = "identified", !.name = n, !.seen = names[n]]]
    /\ UNCHANGED <<names, disk, userVersion, nameLock, fileLock, fsMoves, used>>

\* lock_store: the lock file of the name, or store_locked after two seconds.
LockStore(o) ==
    /\ store[o].step = "identified"
    /\ \/ /\ nameLock[store[o].name] = NoOpener
          /\ nameLock' = [nameLock EXCEPT ![store[o].name] = o]
          /\ store' = [store EXCEPT ![o].step = "locked"]
          /\ UNCHANGED fileLock
       \/ nameLock[store[o].name] # NoOpener /\ LetGo(o)
    /\ UNCHANGED <<names, disk, userVersion, fsMoves, used>>

\* open_pinned and refuse_wal, for a store that was there: its own descriptor on
\* the file that was seen, which is not in WAL mode.
PinBefore(o) ==
    /\ store[o].step = "locked"
    /\ IF store[o].seen = NoFile
       THEN store' = [store EXCEPT ![o].step = "pinned"] /\ UNCHANGED <<nameLock, fileLock>>
       ELSE IF FileIdentity(store[o].name, store[o].seen) /\ store[o].seen \notin WalFiles
       THEN /\ store' = [store EXCEPT ![o].step = "pinned", ![o].pinned = store[o].seen]
            /\ UNCHANGED <<nameLock, fileLock>>
       ELSE LetGo(o)
    /\ UNCHANGED <<names, disk, userVersion, fsMoves, used>>

\* Connection::open, which creates the file of a new store.
Connect(o) ==
    /\ store[o].step = "pinned"
    /\ IF names[store[o].name] # NoFile
       THEN /\ store' = [store EXCEPT ![o].step = "connected", ![o].bound = names[store[o].name]]
            /\ UNCHANGED names
       ELSE \E f \in Files \ WalFiles :
              /\ Links(f) = 0 /\ disk[f] = {} /\ \A p \in Openers : store[p].bound # f
              /\ names' = [names EXCEPT ![store[o].name] = f]
              /\ store' = [store EXCEPT ![o].step = "connected", ![o].bound = f]
    /\ UNCHANGED <<disk, userVersion, nameLock, fileLock, fsMoves, used>>

\* Mutant: the database file itself is not locked.
TakesFileLock(f) == TRUE

\* lock_database: an exclusive flock through the store's own descriptor.
TryFileLock(f) == fileLock[f] = NoOpener

\* A new store is pinned now; then the database file is locked and held.
LockDatabase(o) ==
    LET n == store[o].name
        f == IF store[o].pinned = NoFile THEN names[n] ELSE store[o].pinned IN
    /\ store[o].step = "connected"
    /\ IF store[o].pinned = NoFile /\ ~FileIdentity(n, NoFile) THEN LetGo(o)
       ELSE IF ~TryFileLock(f) THEN LetGo(o)
       ELSE /\ store' = [store EXCEPT ![o].step = "held", ![o].pinned = f]
            /\ fileLock' = [fileLock EXCEPT ![f] = o]
            /\ UNCHANGED nameLock
    /\ UNCHANGED <<names, disk, userVersion, fsMoves, used>>

\* The nonce goes into the header through the connection.  SQLite may notice
\* that its file was moved.
WriteNonce(o) ==
    /\ store[o].step = "held"
    /\ \/ /\ store[o].bound \notin WalFiles
          /\ userVersion' = [userVersion EXCEPT ![store[o].bound] = o]
          /\ store' = [store EXCEPT ![o].step = "marked"]
          /\ UNCHANGED <<nameLock, fileLock>>
       \/ /\ store[o].bound \in WalFiles \/ names[store[o].name] # store[o].bound
          /\ LetGo(o) /\ UNCHANGED userVersion
    /\ UNCHANGED <<names, disk, fsMoves, used>>

\* It is read back from the pinned file and put back; then the name is asked
\* once more, the schema migrated and the state loaded.
ProveBinding(o) ==
    /\ store[o].step = "marked"
    /\ userVersion' = [userVersion EXCEPT ![store[o].bound] = Original]
    /\ IF userVersion[store[o].pinned] = o /\ FileIdentity(store[o].name, store[o].pinned)
       THEN /\ store' = [store EXCEPT ![o].step = "open", ![o].mem = disk[store[o].bound],
                                      ![o].opening = TRUE]
            /\ UNCHANGED <<nameLock, fileLock>>
       ELSE LetGo(o)
    /\ UNCHANGED <<names, disk, fsMoves, used>>

\* Nothing had to be repaired: the open returns without a write.
OpenReturns(o) ==
    /\ store[o].step = "open" /\ store[o].opening
    /\ store' = [store EXCEPT ![o].opening = FALSE]
    /\ UNCHANGED <<names, disk, userVersion, nameLock, fileLock, fsMoves, used>>

-----------------------------------------------------------------------------
(* Writing                                                                     *)

\* connect before a transaction; the repairs of an open are one more persist.
BeginWrite(o, m) ==
    /\ store[o].step = "open" /\ store[o].write = NoMutation
    /\ m \notin used
    /\ store[o].opening => m \in Snapshots
    /\ FileIdentity(store[o].name, store[o].pinned)
    /\ store' = [store EXCEPT ![o].write = m]
    /\ used' = used \union {m}
    /\ UNCHANGED <<names, disk, userVersion, nameLock, fileLock, fsMoves>>

\* connect refuses: the caller gets the error, an open fails.
ConnectRefused(o) ==
    /\ store[o].step = "open" /\ store[o].write = NoMutation
    /\ store[o].opening /\ ~FileIdentity(store[o].name, store[o].pinned)
    /\ LetGo(o)
    /\ UNCHANGED <<names, disk, userVersion, fsMoves, used>>

\* The rows of the file once the staged state replaced what State owns; the
\* other tables are not touched.
Applied(rows, state) == (rows \cap Appended) \union (state \cap Owned)

\* tx.commit.
CommitWrite(o) ==
    LET m == store[o].write
        f == store[o].bound IN
    /\ m # NoMutation /\ m \notin disk[f]
    /\ disk' = [disk EXCEPT ![f] = IF m \in Appended THEN @ \union {m}
                                   ELSE Applied(@, store[o].mem \union {m})]
    /\ UNCHANGED <<names, userVersion, nameLock, fileLock, store, fsMoves, used>>

Acknowledged(o) ==
    /\ store[o].write # NoMutation /\ store[o].write \in disk[store[o].bound]
    /\ store' = [store EXCEPT ![o].mem = @ \union {store[o].write}, ![o].write = NoMutation,
                              ![o].opening = FALSE]
    /\ UNCHANGED <<names, disk, userVersion, nameLock, fileLock, fsMoves, used>>

\* Mutant: the mutation stays in memory when the store refused it.
KeptState(s) == s.mem \union {s.write}

\* persist_after_mutation puts the previous state back.
PreviousState(s) == s.mem

\* An error of any statement of the transaction; after a persist, of the drop of
\* its staging tables too, when the mutation is already in the file.  An open
\* that cannot write its repairs fails.
WriteRefused(o) ==
    LET s == store[o] IN
    /\ s.write # NoMutation
    /\ s.write \in Snapshots \/ s.write \notin disk[s.bound]
    /\ IF s.opening THEN LetGo(o)
       ELSE /\ store' = [store EXCEPT ![o].mem = PreviousState(s), ![o].write = NoMutation]
            /\ UNCHANGED <<nameLock, fileLock>>
    /\ UNCHANGED <<names, disk, userVersion, fsMoves, used>>

\* The last handle is dropped, or the process stops, wherever it is.  A nonce it
\* did not put back stays in the header; nonces are random and never drawn twice.
Stop(o) ==
    /\ store[o] # Shut
    /\ LetGo(o)
    /\ userVersion' = [f \in Files |-> IF userVersion[f] = o THEN LeftOver ELSE userVersion[f]]
    /\ UNCHANGED <<names, disk, fsMoves, used>>

-----------------------------------------------------------------------------
(* What happens to the names: mv, ln, and a file put in place                  *)
FsMove ==
    /\ fsMoves < MaxFsMoves /\ fsMoves' = fsMoves + 1
    /\ \/ \E n, k \in Names :
            /\ n # k /\ names[n] # NoFile
            /\ \/ names' = [names EXCEPT ![k] = names[n], ![n] = NoFile]
               \/ names' = [names EXCEPT ![k] = names[n]]
       \/ \E n \in Names, f \in Files :
            Links(f) = 0 /\ names' = [names EXCEPT ![n] = f]
    /\ UNCHANGED <<disk, userVersion, nameLock, fileLock, store, used>>

OpenStep(o) ==
    \/ \E n \in Names : StoreIdentity(o, n)
    \/ LockStore(o) \/ PinBefore(o) \/ Connect(o) \/ LockDatabase(o)
    \/ WriteNonce(o) \/ ProveBinding(o) \/ OpenReturns(o)

WriteStep(o) ==
    \/ \E m \in Mutations : BeginWrite(o, m)
    \/ ConnectRefused(o) \/ CommitWrite(o) \/ Acknowledged(o) \/ WriteRefused(o)

StoreNext == FsMove \/ \E o \in Openers : OpenStep(o) \/ WriteStep(o) \/ Stop(o)

StoreSpec == StoreInit /\ [][StoreNext]_storeVars

-----------------------------------------------------------------------------
(* Properties                                                                  *)
Holds(o, f) == store[o].step = "open" /\ store[o].bound = f

Visible(f) ==
    IF \E o \in Openers : Holds(o, f)
    THEN store[CHOOSE o \in Openers : Holds(o, f)].mem ELSE disk[f]

\* The file may hold a mutation its caller has no answer for, or was refused.
InDoubt(f) == disk[f] \ Visible(f)

Durable == INSTANCE DurableState WITH
    value <- [f \in Files |-> Visible(f)],
    doubt <- [f \in Files |-> InDoubt(f)]

\* Whatever happens to the names while stores are opened, and wherever a process
\* stops, every database file keeps what the forge acknowledged: one store
\* writes it, and a refused mutation comes back at most after a restart
\* (open_bound, lock_database, persist, persist_after_mutation).
StoreIsDurable == Durable!DSpec
=============================================================================
