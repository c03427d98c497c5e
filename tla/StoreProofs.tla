----------------------------- MODULE StoreProofs -----------------------------
(***************************************************************************)
(* The SQLite store implements DurableState: for any number of openers,    *)
(* files and names, whatever happens to the names while a store is opened  *)
(* and wherever a process stops, what the forge acknowledged of a database *)
(* file is in it.                                                          *)
(*                                                                         *)
(* The refinement mapping looks at a file through the one store that has   *)
(* it open.  That there is one rests on two facts that only hold together: *)
(* whoever holds a file has its lock, and what it writes is the file it    *)
(* has the lock of, because a nonce is in no file but the one its          *)
(* connection is bound to.                                                 *)
(*                                                                         *)
(* And the migrations every open begins with leave a whole file, however   *)
(* often an open stopped between two of their statements.                  *)
(*                                                                         *)
(* At the git edge, a push is judged by the very commands git will find in *)
(* the bytes it is given, in however many pieces they came.                *)
(*                                                                         *)
(* And the rows of the file are the state in memory: whatever is persisted *)
(* and whatever other releases write, an open reads back a state whose     *)
(* rows they are.                                                          *)
(***************************************************************************)
EXTENDS ForgeStore, SnapshotRows, Migrations, GitEdge, FiniteSetTheorems, SequenceTheorems, WellFoundedInduction, TLAPS

Steps == {"shut", "identified", "locked", "pinned", "connected", "held", "marked", "open"}
SomeFile == Files \union {NoFile}

Stores == [step : Steps, name : Names \union {""}, seen : SomeFile, pinned : SomeFile,
           bound : SomeFile, mem : SUBSET Mutations, write : Mutations \union {NoMutation},
           opening : BOOLEAN]

StoreTypeOK ==
    /\ names \in [Names -> SomeFile]
    /\ disk \in [Files -> SUBSET Mutations]
    /\ userVersion \in [Files -> Openers \union {Original, LeftOver}]
    /\ fileLock \in [Files -> Openers \union {NoOpener}]
    /\ store \in [Openers -> Stores]
    /\ used \subseteq Mutations

\* What an opener has, by where it is.
HasIt(o) ==
    /\ store[o].step # "shut" => store[o].name \in Names
    /\ store[o].step \in {"connected", "held", "marked", "open"} => store[o].bound \in Files
    /\ store[o].step \in {"held", "marked", "open"} =>
          store[o].pinned \in Files /\ fileLock[store[o].pinned] = o
    /\ store[o].step = "open" => store[o].bound = store[o].pinned

\* A nonce is only in the file that its writer's connection is bound to.
NonceIsBound ==
    \A f \in Files, o \in Openers :
        userVersion[f] = o => store[o].step = "marked" /\ store[o].bound = f

\* Memory is never ahead of the file, and a write in progress is new to it.
WritesAreNew(o) ==
    /\ store[o].step = "open" => store[o].mem \subseteq disk[store[o].bound]
    /\ store[o].write # NoMutation =>
          /\ store[o].step = "open" /\ store[o].write \in used
          /\ store[o].write \notin store[o].mem

StoreInv ==
    /\ StoreTypeOK
    /\ NonceIsBound
    /\ \A o \in Openers : HasIt(o) /\ WritesAreNew(o)
    /\ \A f \in Files : disk[f] \subseteq used

-----------------------------------------------------------------------------
(* The invariant *)

LEMMA ShutIsAStore == Shut \in Stores
  BY DEF Shut, Stores, Steps, SomeFile

LEMMA ShutHasNothing == Shut.step = "shut" /\ Shut.write = NoMutation
  BY DEF Shut

LEMMA StoreInitHolds == StoreInit => StoreInv
<1> SUFFICES ASSUME StoreInit PROVE StoreInv
  OBVIOUS
<1>1. StoreTypeOK
  BY ShutIsAStore DEF StoreInit, StoreTypeOK, SomeFile
<1>2. \A o \in Openers : HasIt(o) /\ WritesAreNew(o)
  BY ShutHasNothing DEF StoreInit, HasIt, WritesAreNew
<1>3. NonceIsBound
  BY ForgeStoreAssumption DEF StoreInit, NonceIsBound
<1> QED
  BY <1>1, <1>2, <1>3 DEF StoreInit, StoreInv

\* An opener that lets go of everything leaves the others what they have.
LEMMA LetGoKeeps ==
    ASSUME StoreInv, NEW o \in Openers, LetGo(o),
           names' = names, disk' = disk, used' = used,
           userVersion' \in [Files -> Openers \union {Original, LeftOver}],
           \A f \in Files : userVersion'[f] \in Openers => userVersion'[f] = userVersion[f],
           \A f \in Files : userVersion'[f] # o
    PROVE  StoreInv'
<1>1. StoreTypeOK'
  BY ShutIsAStore DEF StoreInv, StoreTypeOK, LetGo
<1>2. store' = [store EXCEPT ![o] = Shut]
  BY DEF LetGo
<1>3. \A p \in Openers \ {o} : store'[p] = store[p]
  BY <1>2 DEF StoreInv, StoreTypeOK
<1>4. store'[o] = Shut
  BY <1>2 DEF StoreInv, StoreTypeOK
<1>5. NonceIsBound'
  BY <1>3 DEF StoreInv, NonceIsBound
<1>6. ASSUME NEW p \in Openers PROVE (HasIt(p) /\ WritesAreNew(p))'
  <2>1. CASE p = o
    BY <2>1, <1>4, ShutHasNothing DEF HasIt, WritesAreNew
  <2>2. CASE p # o
    <3>1. \A f \in Files : fileLock[f] = p => fileLock'[f] = p
      BY <2>2 DEF LetGo
    <3> QED
      BY <2>2, <1>3, <3>1 DEF StoreInv, HasIt, WritesAreNew
  <2> QED
    BY <2>1, <2>2
<1> QED
  BY <1>1, <1>5, <1>6 DEF StoreInv

\* An opener that moved on, and what it needs where it is now.
LEMMA StepKeeps ==
    ASSUME StoreInv, NEW o \in Openers, NEW s \in Stores,
           store' = [store EXCEPT ![o] = s],
           names' \in [Names -> SomeFile], disk' = disk, used \subseteq used', used' \subseteq Mutations,
           fileLock' \in [Files -> Openers \union {NoOpener}],
           \A f \in Files : fileLock[f] \in Openers => fileLock'[f] = fileLock[f],
           userVersion' = userVersion, s.bound = store[o].bound \/ store[o].step # "marked",
           s.step = "marked" \/ store[o].step # "marked",
           HasIt(o)', WritesAreNew(o)'
    PROVE  StoreInv'
<1>1. StoreTypeOK'
  BY DEF StoreInv, StoreTypeOK
<1>2. \A p \in Openers \ {o} : store'[p] = store[p]
  BY DEF StoreInv, StoreTypeOK
<1>3. store'[o] = s
  BY DEF StoreInv, StoreTypeOK
<1>4. NonceIsBound'
  BY <1>2, <1>3 DEF StoreInv, NonceIsBound
<1>5. ASSUME NEW p \in Openers \ {o} PROVE (HasIt(p) /\ WritesAreNew(p))'
  BY <1>2 DEF StoreInv, HasIt, WritesAreNew
<1> QED
  BY <1>1, <1>4, <1>5 DEF StoreInv

\* Letting go where the header field is not touched.
LEMMA LetGoUnmarked ==
    ASSUME StoreInv, NEW o \in Openers, LetGo(o), store[o].step # "marked",
           UNCHANGED <<names, disk, userVersion, used>>
    PROVE  StoreInv'
<1>1. \A f \in Files : userVersion[f] # o
  BY DEF StoreInv, NonceIsBound
<1> QED
  BY <1>1, LetGoKeeps DEF StoreInv, StoreTypeOK

\* Every step of an opening keeps the invariant.
LEMMA OpenStepKeeps ==
    ASSUME StoreInv, NEW o \in Openers, OpenStep(o)
    PROVE  StoreInv'
<1> USE DEF StoreInv, StoreTypeOK
<1>1. store[o] \in Stores /\ HasIt(o) /\ WritesAreNew(o)
  OBVIOUS
<1>2. ASSUME NEW n \in Names, StoreIdentity(o, n) PROVE StoreInv'
  <2> DEFINE s == [Shut EXCEPT !.step = "identified", !.name = n, !.seen = names[n]]
  <2>1. s \in Stores /\ s.step = "identified" /\ s.name = n /\ s.write = NoMutation
    BY ShutIsAStore, ShutHasNothing DEF Stores, Steps
  <2>2. store' = [store EXCEPT ![o] = s] /\ store[o] = Shut
    BY <1>2 DEF StoreIdentity
  <2>3. HasIt(o)' /\ WritesAreNew(o)'
    BY <2>1, <2>2 DEF HasIt, WritesAreNew
  <2> QED
    BY <1>2, <2>1, <2>2, <2>3, ShutHasNothing, StepKeeps DEF StoreIdentity
<1>3. ASSUME LockStore(o) PROVE StoreInv'
  <2>1. CASE nameLock[store[o].name] # NoOpener /\ LetGo(o)
    BY <1>3, <2>1, LetGoUnmarked DEF LockStore
  <2>2. CASE store' = [store EXCEPT ![o].step = "locked"] /\ UNCHANGED fileLock
    <3> DEFINE s == [store[o] EXCEPT !.step = "locked"]
    <3>1. s \in Stores /\ s.step = "locked" /\ s.name = store[o].name /\ s.write = store[o].write
      BY <1>1 DEF Stores, Steps
    <3>2. store' = [store EXCEPT ![o] = s]
      BY <2>2
    <3>3. HasIt(o)' /\ WritesAreNew(o)'
      BY <1>1, <1>3, <3>1, <3>2 DEF HasIt, WritesAreNew, LockStore
    <3> QED
      BY <1>3, <2>2, <3>1, <3>2, <3>3, StepKeeps DEF LockStore
  <2> QED
    BY <1>3, <2>1, <2>2 DEF LockStore
<1>4. ASSUME PinBefore(o) PROVE StoreInv'
  <2>1. CASE LetGo(o)
    BY <1>4, <2>1, LetGoUnmarked DEF PinBefore
  <2>2. ASSUME NEW f \in SomeFile,
               store' = [store EXCEPT ![o].step = "pinned", ![o].pinned = f], UNCHANGED fileLock
        PROVE  StoreInv'
    <3> DEFINE s == [store[o] EXCEPT !.step = "pinned", !.pinned = f]
    <3>1. s \in Stores /\ s.step = "pinned" /\ s.name = store[o].name /\ s.write = store[o].write
      BY <1>1 DEF Stores, Steps
    <3>2. store' = [store EXCEPT ![o] = s]
      BY <2>2
    <3>3. HasIt(o)' /\ WritesAreNew(o)'
      BY <1>1, <1>4, <3>1, <3>2 DEF HasIt, WritesAreNew, PinBefore
    <3> QED
      BY <1>4, <2>2, <3>1, <3>2, <3>3, StepKeeps DEF PinBefore
  <2>3. CASE store' = [store EXCEPT ![o].step = "pinned"] /\ UNCHANGED fileLock
    <3>1. store' = [store EXCEPT ![o].step = "pinned", ![o].pinned = store[o].pinned]
      BY <2>3, <1>1 DEF Stores
    <3> QED
      BY <1>1, <2>2, <2>3, <3>1 DEF Stores
  <2>4. store[o].seen \in SomeFile
    BY <1>1 DEF Stores
  <2> QED
    BY <1>4, <2>1, <2>2, <2>3, <2>4 DEF PinBefore
<1>5. ASSUME Connect(o) PROVE StoreInv'
  <2>1. PICK f \in Files : /\ store' = [store EXCEPT ![o].step = "connected", ![o].bound = f]
                           /\ names' \in [Names -> SomeFile]
    <3>1. store[o].name \in Names /\ names[store[o].name] \in SomeFile
      BY <1>1, <1>5 DEF HasIt, Connect
    <3> QED
      BY <1>5, <3>1 DEF Connect, SomeFile
  <2> DEFINE s == [store[o] EXCEPT !.step = "connected", !.bound = f]
  <2>2. /\ s \in Stores /\ s.step = "connected" /\ s.bound = f
        /\ s.name = store[o].name /\ s.write = store[o].write
    BY <1>1 DEF Stores, Steps, SomeFile
  <2>3. store' = [store EXCEPT ![o] = s]
    BY <2>1
  <2>4. HasIt(o)' /\ WritesAreNew(o)'
    BY <1>1, <1>5, <2>2, <2>3 DEF HasIt, WritesAreNew, Connect
  <2> QED
    BY <1>5, <2>1, <2>2, <2>3, <2>4, StepKeeps DEF Connect
<1>6. ASSUME LockDatabase(o) PROVE StoreInv'
  <2>1. CASE LetGo(o)
    BY <1>6, <2>1, LetGoUnmarked DEF LockDatabase
  <2>2. ASSUME NEW f \in Files, fileLock[f] = NoOpener,
               store' = [store EXCEPT ![o].step = "held", ![o].pinned = f],
               fileLock' = [fileLock EXCEPT ![f] = o]
        PROVE  StoreInv'
    <3> DEFINE s == [store[o] EXCEPT !.step = "held", !.pinned = f]
    <3>1. /\ s \in Stores /\ s.step = "held" /\ s.bound = store[o].bound /\ s.pinned = f
          /\ s.name = store[o].name /\ s.write = store[o].write
      BY <1>1 DEF Stores, Steps, SomeFile
    <3>2. store' = [store EXCEPT ![o] = s]
      BY <2>2
    <3>3. HasIt(o)' /\ WritesAreNew(o)'
      BY <1>1, <1>6, <2>2, <3>1, <3>2 DEF HasIt, WritesAreNew, LockDatabase
    <3>4. \A g \in Files : fileLock[g] \in Openers => fileLock'[g] = fileLock[g]
      BY <2>2, ForgeStoreAssumption
    <3> QED
      BY <1>6, <2>2, <3>1, <3>2, <3>3, <3>4, StepKeeps DEF LockDatabase
  <2>3. store[o].pinned \in SomeFile /\ store[o].name \in Names /\ names[store[o].name] \in SomeFile
    BY <1>1, <1>6 DEF Stores, HasIt, LockDatabase
  <2> QED
    BY <1>6, <2>1, <2>2, <2>3 DEF LockDatabase, SomeFile, FileIdentity, TryFileLock
<1>7. ASSUME WriteNonce(o) PROVE StoreInv'
  <2>1. CASE LetGo(o) /\ UNCHANGED userVersion
    BY <1>7, <2>1, LetGoUnmarked DEF WriteNonce
  <2>2. CASE /\ userVersion' = [userVersion EXCEPT ![store[o].bound] = o]
             /\ store' = [store EXCEPT ![o].step = "marked"]
             /\ UNCHANGED fileLock
    <3> DEFINE s == [store[o] EXCEPT !.step = "marked"]
    <3>1. /\ s \in Stores /\ s.step = "marked" /\ s.bound = store[o].bound
          /\ s.pinned = store[o].pinned /\ s.name = store[o].name /\ s.write = store[o].write
      BY <1>1 DEF Stores, Steps
    <3>2. store' = [store EXCEPT ![o] = s]
      BY <2>2
    <3>3. \A p \in Openers \ {o} : store'[p] = store[p]
      BY <3>2
    <3>4. store'[o] = s
      BY <3>2
    <3>5. store[o].bound \in Files /\ store[o].step = "held"
      BY <1>1, <1>7 DEF HasIt, WriteNonce
    <3>6. StoreTypeOK'
      BY <1>7, <2>2, <3>1, <3>2, <3>5 DEF WriteNonce
    <3>7. NonceIsBound'
      BY <2>2, <3>1, <3>3, <3>4, <3>5 DEF NonceIsBound
    <3>8. HasIt(o)' /\ WritesAreNew(o)'
      BY <1>1, <2>2, <3>1, <3>4, <3>5 DEF HasIt, WritesAreNew
    <3>9. ASSUME NEW p \in Openers \ {o} PROVE HasIt(p)' /\ WritesAreNew(p)'
      BY <1>7, <2>2, <3>3 DEF HasIt, WritesAreNew, WriteNonce
    <3> QED
      BY <1>7, <3>6, <3>7, <3>8, <3>9 DEF WriteNonce
  <2> QED
    BY <1>7, <2>1, <2>2 DEF WriteNonce
<1>8. ASSUME ProveBinding(o) PROVE StoreInv'
  <2>1. store[o].step = "marked" /\ store[o].bound \in Files /\ store[o].pinned \in Files
    BY <1>1, <1>8 DEF HasIt, ProveBinding
  <2>2. userVersion' = [userVersion EXCEPT ![store[o].bound] = Original]
    BY <1>8 DEF ProveBinding
  <2>3. \A f \in Files : /\ userVersion'[f] # o
                         /\ userVersion'[f] \in Openers => userVersion'[f] = userVersion[f]
    BY <2>1, <2>2, ForgeStoreAssumption DEF NonceIsBound
  <2>4. CASE LetGo(o)
    <3>1. userVersion' \in [Files -> Openers \union {Original, LeftOver}]
      BY <2>1, <2>2
    <3>2. names' = names /\ disk' = disk /\ used' = used
      BY <1>8 DEF ProveBinding
    <3> HIDE DEF StoreInv
    <3> QED
      BY <2>3, <2>4, <3>1, <3>2, LetGoKeeps
  <2>5. CASE /\ userVersion[store[o].pinned] = o
             /\ store' = [store EXCEPT ![o].step = "open", ![o].mem = disk[store[o].bound],
                                       ![o].opening = TRUE]
             /\ UNCHANGED fileLock
    <3> DEFINE s == [store[o] EXCEPT !.step = "open", !.mem = disk[store[o].bound], !.opening = TRUE]
    <3>1. /\ s \in Stores /\ s.step = "open" /\ s.bound = store[o].bound /\ s.mem = disk[store[o].bound]
          /\ s.pinned = store[o].pinned /\ s.name = store[o].name /\ s.write = store[o].write
      BY <1>1, <2>1 DEF Stores, Steps
    <3>2. store' = [store EXCEPT ![o] = s]
      BY <2>5
    <3>3. \A p \in Openers \ {o} : store'[p] = store[p]
      BY <3>2
    <3>4. store'[o] = s
      BY <3>2
    <3>5. store[o].bound = store[o].pinned
      BY <2>1, <2>5 DEF NonceIsBound
    <3>6. StoreTypeOK'
      BY <1>8, <2>1, <2>2, <2>5, <3>1, <3>2 DEF ProveBinding
    <3>7. NonceIsBound'
      <4> SUFFICES ASSUME NEW f \in Files, NEW p \in Openers, userVersion'[f] = p
                   PROVE  store'[p].step = "marked" /\ store'[p].bound = f
        BY DEF NonceIsBound
      <4>1. p # o /\ userVersion[f] = p
        BY <2>3
      <4> QED
        BY <3>3, <4>1 DEF NonceIsBound
    <3>8. HasIt(o)' /\ WritesAreNew(o)'
      BY <1>1, <1>8, <2>1, <2>5, <3>1, <3>4, <3>5 DEF HasIt, WritesAreNew, ProveBinding
    <3>9. ASSUME NEW p \in Openers \ {o} PROVE HasIt(p)' /\ WritesAreNew(p)'
      BY <1>8, <2>5, <3>3 DEF HasIt, WritesAreNew, ProveBinding
    <3> QED
      BY <1>8, <3>6, <3>7, <3>8, <3>9 DEF ProveBinding
  <2> QED
    BY <1>8, <2>4, <2>5 DEF ProveBinding
<1>9. ASSUME OpenReturns(o) PROVE StoreInv'
  <2> DEFINE s == [store[o] EXCEPT !.opening = FALSE]
  <2>1. /\ s \in Stores /\ s.step = "open" /\ s.bound = store[o].bound /\ s.mem = store[o].mem
        /\ s.pinned = store[o].pinned /\ s.name = store[o].name /\ s.write = store[o].write
    BY <1>1, <1>9 DEF Stores, OpenReturns
  <2>2. store' = [store EXCEPT ![o] = s]
    BY <1>9 DEF OpenReturns
  <2>3. HasIt(o)' /\ WritesAreNew(o)'
    BY <1>1, <1>9, <2>1, <2>2 DEF HasIt, WritesAreNew, OpenReturns
  <2> QED
    BY <1>9, <2>1, <2>2, <2>3, StepKeeps DEF OpenReturns
<1> QED
  BY <1>2, <1>3, <1>4, <1>5, <1>6, <1>7, <1>8, <1>9 DEF OpenStep

\* What a commit leaves in the file: what was there of other tables, what memory
\* has, and the mutation.
LEMMA CommitLeaves ==
    ASSUME NEW rows \in SUBSET Mutations, NEW state \in SUBSET rows, NEW m \in Mutations
    PROVE  LET after == IF m \in Appended THEN rows \union {m} ELSE Applied(rows, state \union {m})
           IN  state \union {m} \subseteq after /\ after \subseteq rows \union {m}
  BY ForgeStoreAssumption DEF Applied, Mutations, Owned

\* Every step of a write keeps the invariant.
LEMMA WriteStepKeeps ==
    ASSUME StoreInv, NEW o \in Openers, WriteStep(o)
    PROVE  StoreInv'
<1> USE DEF StoreInv, StoreTypeOK
<1>1. store[o] \in Stores /\ HasIt(o) /\ WritesAreNew(o)
  OBVIOUS
<1>2. ASSUME NEW m \in Mutations, BeginWrite(o, m) PROVE StoreInv'
  <2> DEFINE s == [store[o] EXCEPT !.write = m]
  <2>1. /\ s \in Stores /\ s.step = "open" /\ s.bound = store[o].bound /\ s.mem = store[o].mem
        /\ s.pinned = store[o].pinned /\ s.name = store[o].name /\ s.write = m
    BY <1>1, <1>2 DEF Stores, BeginWrite
  <2>2. store' = [store EXCEPT ![o] = s]
    BY <1>2 DEF BeginWrite
  <2>3. m \notin store[o].mem
    BY <1>1, <1>2 DEF BeginWrite, HasIt, WritesAreNew
  <2>4. HasIt(o)' /\ WritesAreNew(o)'
    BY <1>1, <1>2, <2>1, <2>2, <2>3 DEF HasIt, WritesAreNew, BeginWrite
  <2> QED
    BY <1>2, <2>1, <2>2, <2>4, StepKeeps DEF BeginWrite
<1>3. ASSUME ConnectRefused(o) PROVE StoreInv'
  BY <1>3, LetGoUnmarked DEF ConnectRefused
<1>4. ASSUME CommitWrite(o) PROVE StoreInv'
  <2> DEFINE m == store[o].write
             f == store[o].bound
             after == IF m \in Appended THEN disk[f] \union {m}
                      ELSE Applied(disk[f], store[o].mem \union {m})
  <2>1. store[o].step = "open" /\ f \in Files /\ m \in Mutations /\ store[o].mem \subseteq disk[f]
    BY <1>1, <1>4 DEF CommitWrite, WritesAreNew, HasIt, Stores
  <2>2. store[o].mem \union {m} \subseteq after /\ after \subseteq disk[f] \union {m}
    BY <2>1, CommitLeaves
  <2>3. disk' = [disk EXCEPT ![f] = after]
    BY <1>4 DEF CommitWrite
  <2>4. StoreTypeOK'
    <3>1. after \in SUBSET Mutations
      BY <2>1, <2>2
    <3> HIDE DEF after
    <3> QED
      BY <1>4, <2>1, <2>3, <3>1 DEF CommitWrite
  <2>5. ASSUME NEW p \in Openers PROVE HasIt(p)' /\ WritesAreNew(p)'
    <3>1. store[p].step = "open" /\ store[p].bound = f => p = o
      BY <1>1, <2>1 DEF HasIt
    <3>2. store[p].step = "open" => store[p].mem \subseteq disk'[store[p].bound]
      BY <2>1, <2>2, <2>3, <3>1 DEF HasIt, WritesAreNew
    <3> QED
      BY <1>4, <3>2 DEF HasIt, WritesAreNew, CommitWrite
  <2>6. m \in used
    BY <1>1, <1>4 DEF CommitWrite, WritesAreNew
  <2>7. \A g \in Files : disk'[g] \subseteq used'
    BY <1>4, <2>2, <2>3, <2>6 DEF CommitWrite
  <2> QED
    BY <1>4, <2>4, <2>5, <2>7 DEF CommitWrite, NonceIsBound
<1>5. ASSUME Acknowledged(o) PROVE StoreInv'
  <2> DEFINE m == store[o].write
             s == [store[o] EXCEPT !.mem = @ \union {m}, !.write = NoMutation, !.opening = FALSE]
  <2>1. store[o].step = "open" /\ m \in Mutations
    BY <1>1, <1>5 DEF Acknowledged, WritesAreNew, Stores
  <2>2. /\ s \in Stores /\ s.step = "open" /\ s.bound = store[o].bound
        /\ s.mem = store[o].mem \union {m}
        /\ s.pinned = store[o].pinned /\ s.name = store[o].name /\ s.write = NoMutation
    BY <1>1, <2>1 DEF Stores
  <2>3. store' = [store EXCEPT ![o] = s]
    BY <1>5 DEF Acknowledged
  <2>4. HasIt(o)' /\ WritesAreNew(o)'
    BY <1>1, <1>5, <2>1, <2>2, <2>3 DEF HasIt, WritesAreNew, Acknowledged
  <2> QED
    BY <1>5, <2>1, <2>2, <2>3, <2>4, StepKeeps DEF Acknowledged
<1>6. ASSUME WriteRefused(o) PROVE StoreInv'
  <2>1. store[o].step = "open"
    BY <1>1, <1>6 DEF WriteRefused, WritesAreNew
  <2>2. CASE store[o].opening
    BY <1>6, <2>1, <2>2, LetGoUnmarked DEF WriteRefused
  <2>3. CASE ~store[o].opening
    <3> DEFINE s == [store[o] EXCEPT !.mem = PreviousState(store[o]), !.write = NoMutation]
    <3>1. /\ s \in Stores /\ s.step = "open" /\ s.bound = store[o].bound /\ s.mem = store[o].mem
          /\ s.pinned = store[o].pinned /\ s.name = store[o].name /\ s.write = NoMutation
      BY <1>1, <2>1 DEF Stores, PreviousState
    <3>2. store' = [store EXCEPT ![o] = s] /\ UNCHANGED fileLock
      BY <1>6, <2>3 DEF WriteRefused
    <3>3. HasIt(o)' /\ WritesAreNew(o)'
      BY <1>1, <1>6, <2>1, <3>1, <3>2 DEF HasIt, WritesAreNew, WriteRefused
    <3> QED
      BY <1>6, <2>1, <3>1, <3>2, <3>3, StepKeeps DEF WriteRefused
  <2> QED
    BY <2>2, <2>3
<1> QED
  BY <1>2, <1>3, <1>4, <1>5, <1>6 DEF WriteStep

LEMMA StopKeeps ==
    ASSUME StoreInv, NEW o \in Openers, Stop(o)
    PROVE  StoreInv'
<1>1. userVersion' \in [Files -> Openers \union {Original, LeftOver}]
  BY DEF Stop, StoreInv, StoreTypeOK
<1>2. \A f \in Files : /\ userVersion'[f] # o
                       /\ userVersion'[f] \in Openers => userVersion'[f] = userVersion[f]
  BY ForgeStoreAssumption DEF Stop
<1> QED
  BY <1>1, <1>2, LetGoKeeps DEF Stop

LEMMA FsMoveKeeps ==
    ASSUME StoreInv, FsMove
    PROVE  StoreInv'
<1>1. names' \in [Names -> SomeFile]
  BY DEF FsMove, StoreInv, StoreTypeOK, SomeFile
<1> QED
  BY <1>1 DEF FsMove, StoreInv, StoreTypeOK, NonceIsBound, HasIt, WritesAreNew

\* Whoever holds a database file holds its lock, is bound to the file it locked
\* and has nothing in memory that is not in it (open_bound, lock_database,
\* prove_connection_binding, persist).
THEOREM CustodyHolds == StoreSpec => []StoreInv
<1>1. StoreInv /\ [StoreNext]_storeVars => StoreInv'
  <2> SUFFICES ASSUME StoreInv, [StoreNext]_storeVars PROVE StoreInv'
    OBVIOUS
  <2>1. CASE UNCHANGED storeVars
    BY <2>1 DEF storeVars, StoreInv, StoreTypeOK, NonceIsBound, HasIt, WritesAreNew
  <2> QED
    BY <2>1, OpenStepKeeps, WriteStepKeeps, StopKeeps, FsMoveKeeps DEF StoreNext
<1> QED
  BY <1>1, StoreInitHolds, PTL DEF StoreSpec

-----------------------------------------------------------------------------
(* The refinement *)

\* The store that holds a file shows it; a file nobody holds shows itself.
HolderShows ==
    \A f \in Files :
        /\ \A o \in Openers : Holds(o, f) => Visible(f) = store[o].mem
        /\ (\A o \in Openers : ~Holds(o, f)) => Visible(f) = disk[f]

LEMMA OneHolder == StoreInv => HolderShows
<1> SUFFICES ASSUME StoreInv, NEW f \in Files
             PROVE  /\ \A o \in Openers : Holds(o, f) => Visible(f) = store[o].mem
                    /\ (\A o \in Openers : ~Holds(o, f)) => Visible(f) = disk[f]
  BY DEF HolderShows
<1>1. \A o, p \in Openers : Holds(o, f) /\ Holds(p, f) => o = p
  BY DEF StoreInv, HasIt, Holds
<1> QED
  BY <1>1 DEF Visible

\* A step that leaves a file and its holder alone leaves what is seen of it.
LEMMA SameView ==
    ASSUME HolderShows, HolderShows', NEW f \in Files, disk'[f] = disk[f],
           \A o \in Openers : /\ Holds(o, f)' <=> Holds(o, f)
                              /\ Holds(o, f) => store'[o].mem = store[o].mem
    PROVE  Visible(f)' = Visible(f) /\ InDoubt(f)' = InDoubt(f)
<1>1. Visible(f)' = Visible(f)
  BY DEF HolderShows
<1> QED
  BY <1>1 DEF InDoubt

DValue == [f \in Files |-> Visible(f)]
DDoubt == [f \in Files |-> InDoubt(f)]

\* When every file is left alone the abstract store stutters.
LEMMA Stutters ==
    ASSUME HolderShows, HolderShows', disk' = disk,
           \A f \in Files, o \in Openers : /\ Holds(o, f)' <=> Holds(o, f)
                                           /\ Holds(o, f) => store'[o].mem = store[o].mem
    PROVE  UNCHANGED <<DValue, DDoubt>>
  BY SameView DEF DValue, DDoubt

\* An opener that lets go restarts the file it held, if it held one.
LEMMA LettingGoRestarts ==
    ASSUME StoreInv, StoreInv', HolderShows, HolderShows', NEW o \in Openers,
           store' = [store EXCEPT ![o] = Shut], disk' = disk
    PROVE  Durable!DNext \/ UNCHANGED <<DValue, DDoubt>>
<1>1. store'[o].step = "shut" /\ \A p \in Openers \ {o} : store'[p] = store[p]
  BY ShutHasNothing DEF StoreInv, StoreTypeOK
<1>2. CASE store[o].step # "open"
  <2>1. \A f \in Files, p \in Openers : /\ Holds(p, f)' <=> Holds(p, f)
                                        /\ Holds(p, f) => store'[p].mem = store[p].mem
    BY <1>1, <1>2 DEF Holds
  <2> QED
    BY <2>1, Stutters
<1>3. CASE store[o].step = "open"
  <2>0. PICK f \in Files : f = store[o].bound
    BY <1>3 DEF StoreInv, HasIt
  <2>1. f \in Files /\ Holds(o, f) /\ store[o].mem \subseteq disk[f]
    BY <1>3, <2>0 DEF StoreInv, WritesAreNew, Holds
  <2>2. \A p \in Openers : ~Holds(p, f)'
    BY <1>1, <1>3, <2>0 DEF StoreInv, HasIt, Holds
  <2>3. /\ Visible(f) = store[o].mem /\ InDoubt(f) = disk[f] \ store[o].mem
        /\ Visible(f)' = disk[f] /\ InDoubt(f)' = {}
    BY <2>1, <2>2 DEF HolderShows, InDoubt
  <2>4. \A g \in Files \ {f} : Visible(g)' = Visible(g) /\ InDoubt(g)' = InDoubt(g)
    <3> SUFFICES ASSUME NEW g \in Files \ {f}
                 PROVE  Visible(g)' = Visible(g) /\ InDoubt(g)' = InDoubt(g)
      OBVIOUS
    <3>1. \A p \in Openers : /\ Holds(p, g)' <=> Holds(p, g)
                             /\ Holds(p, g) => store'[p].mem = store[p].mem
      BY <1>1, <1>3, <2>0 DEF Holds
    <3> QED
      BY <3>1, SameView
  <2>5. DValue' = [DValue EXCEPT ![f] = @ \union DDoubt[f]] /\ DDoubt' = [DDoubt EXCEPT ![f] = {}]
    BY <2>1, <2>3, <2>4 DEF DValue, DDoubt
  <2> QED
    BY <2>1, <2>5 DEF DValue, DDoubt, Durable!DNext, Durable!Restart
<1> QED
  BY <1>2, <1>3

\* A commit puts the mutation into the file; nobody sees it yet.
LEMMA CommitWrites ==
    ASSUME StoreInv, StoreInv', HolderShows, HolderShows', NEW o \in Openers, CommitWrite(o)
    PROVE  Durable!DNext
<1>1. PICK f \in Files, m \in Mutations : f = store[o].bound /\ m = store[o].write
  BY DEF CommitWrite, StoreInv, StoreTypeOK, WritesAreNew, HasIt, Stores
<1>2. Holds(o, f) /\ store[o].mem \subseteq disk[f] /\ m \notin disk[f] /\ m \notin store[o].mem
  BY <1>1 DEF CommitWrite, StoreInv, WritesAreNew, Holds
<1>3. store' = store /\ disk \in [Files -> SUBSET Mutations]
  BY DEF CommitWrite, StoreInv, StoreTypeOK
<1>4. \A g \in Files, p \in Openers : Holds(p, g)' <=> Holds(p, g)
  BY <1>3 DEF Holds
<1>5. PICK kept \in SUBSET (disk[f] \ store[o].mem) : disk'[f] = store[o].mem \union kept \union {m}
  <2>1. CASE m \in Appended
    <3>1. disk'[f] = store[o].mem \union (disk[f] \ store[o].mem) \union {m}
      BY <1>1, <1>2, <1>3, <2>1 DEF CommitWrite
    <3> QED
      BY <3>1
  <2>2. CASE m \notin Appended
    <3>1. disk'[f] = Applied(disk[f], store[o].mem \union {m})
      BY <1>1, <1>3, <2>2 DEF CommitWrite
    <3>2. m \in Owned /\ store[o].mem \subseteq Mutations
      BY <1>2, <1>3, <2>2 DEF Mutations, Owned
    <3>3. disk'[f] = store[o].mem \union ((disk[f] \cap Appended) \ store[o].mem) \union {m}
      BY <1>2, <3>1, <3>2 DEF Applied, Mutations, Owned
    <3> QED
      BY <3>3
  <2> QED
    BY <2>1, <2>2
<1>6. \A g \in Files \ {f} : disk'[g] = disk[g]
  BY <1>1, <1>3 DEF CommitWrite
<1>7. \A g \in Files \ {f} : Visible(g)' = Visible(g) /\ InDoubt(g)' = InDoubt(g)
  BY <1>3, <1>4, <1>6, SameView
<1>8. /\ Visible(f) = store[o].mem /\ InDoubt(f) = disk[f] \ store[o].mem
      /\ Visible(f)' = store[o].mem /\ InDoubt(f)' = kept \union {m}
  <2>1. Visible(f) = store[o].mem /\ Visible(f)' = store[o].mem
    BY <1>2, <1>3, <1>4 DEF HolderShows
  <2> QED
    BY <1>2, <1>5, <2>1 DEF InDoubt
<1>9. DValue' = DValue /\ DDoubt' = [DDoubt EXCEPT ![f] = kept \union {m}]
  BY <1>7, <1>8 DEF DValue, DDoubt
<1>10. m \notin DValue[f] /\ kept \in SUBSET DDoubt[f]
  BY <1>2, <1>8 DEF DValue, DDoubt
<1> QED
  BY <1>9, <1>10 DEF DValue, DDoubt, Durable!DNext, Durable!Write

\* The caller is told when the mutation is in the file.
LEMMA AcknowledgedIsTold ==
    ASSUME StoreInv, StoreInv', HolderShows, HolderShows', NEW o \in Openers, Acknowledged(o)
    PROVE  Durable!DNext
<1>1. PICK f \in Files, m \in Mutations : f = store[o].bound /\ m = store[o].write
  BY DEF Acknowledged, StoreInv, StoreTypeOK, WritesAreNew, HasIt, Stores
<1>2. Holds(o, f) /\ m \in disk[f] /\ m \notin store[o].mem
  BY <1>1 DEF Acknowledged, StoreInv, WritesAreNew, Holds
<1>3. /\ store'[o].step = store[o].step /\ store'[o].bound = f
      /\ store'[o].mem = store[o].mem \union {m} /\ disk' = disk
      /\ \A p \in Openers \ {o} : store'[p] = store[p]
  BY <1>1 DEF Acknowledged, StoreInv, StoreTypeOK, Stores
<1>4. \A g \in Files, p \in Openers : Holds(p, g)' <=> Holds(p, g)
  BY <1>1, <1>3 DEF Holds
<1>5. \A g \in Files \ {f}, p \in Openers : Holds(p, g) => store'[p].mem = store[p].mem
  BY <1>1, <1>3 DEF Holds
<1>6. \A g \in Files \ {f} : Visible(g)' = Visible(g) /\ InDoubt(g)' = InDoubt(g)
  BY <1>3, <1>4, <1>5, SameView
<1>7. /\ Visible(f) = store[o].mem /\ InDoubt(f) = disk[f] \ store[o].mem
      /\ Visible(f)' = store[o].mem \union {m} /\ InDoubt(f)' = (disk[f] \ store[o].mem) \ {m}
  <2>1. Visible(f) = store[o].mem /\ Visible(f)' = store[o].mem \union {m}
    BY <1>2, <1>3, <1>4 DEF HolderShows
  <2> QED
    BY <1>3, <2>1 DEF InDoubt
<1>8. DValue' = [DValue EXCEPT ![f] = @ \union {m}] /\ DDoubt' = [DDoubt EXCEPT ![f] = @ \ {m}]
  BY <1>6, <1>7 DEF DValue, DDoubt
<1>9. m \in DDoubt[f]
  BY <1>2, <1>7 DEF DDoubt
<1> QED
  BY <1>8, <1>9 DEF DValue, DDoubt, Durable!DNext, Durable!Acknowledge

\* An opener that proved its binding loads the file that nobody held.
LEMMA ProvingLoads ==
    ASSUME StoreInv, StoreInv', HolderShows, HolderShows', NEW o \in Openers, ProveBinding(o)
    PROVE  Durable!DNext \/ UNCHANGED <<DValue, DDoubt>>
<1>1. store[o].step = "marked" /\ disk' = disk
  BY DEF ProveBinding
<1>2. CASE LetGo(o)
  BY <1>1, <1>2, LettingGoRestarts DEF LetGo
<1>3. CASE ~LetGo(o)
  <2>1. PICK f \in Files : f = store[o].bound
    BY <1>1 DEF StoreInv, HasIt
  <2>2. /\ store'[o].step = "open" /\ store'[o].bound = f /\ store'[o].mem = disk[f]
        /\ \A p \in Openers \ {o} : store'[p] = store[p]
    <3> DEFINE s == [store[o] EXCEPT !.step = "open", !.mem = disk[f], !.opening = TRUE]
    <3>1. store \in [Openers -> Stores]
      BY DEF StoreInv, StoreTypeOK
    <3>2. s.step = "open" /\ s.bound = f /\ s.mem = disk[f]
      BY <2>1, <3>1 DEF Stores
    <3>3. store' = [store EXCEPT ![o] = s]
      BY <1>3, <2>1 DEF ProveBinding
    <3> QED
      BY <3>1, <3>2, <3>3
  <2>3. Holds(o, f)'
    BY <2>2 DEF Holds
  <2>4. \A p \in Openers : ~Holds(p, f)
    <3>1. \A p \in Openers : Holds(p, f)' => p = o
      BY <2>3 DEF StoreInv, HasIt, Holds
    <3>2. \A p \in Openers \ {o} : Holds(p, f) => Holds(p, f)'
      BY <2>2 DEF Holds
    <3> QED
      BY <1>1, <3>1, <3>2 DEF Holds
  <2>5. Visible(f)' = Visible(f) /\ InDoubt(f)' = InDoubt(f)
    <3>1. Visible(f) = disk[f] /\ Visible(f)' = disk[f]
      BY <2>2, <2>3, <2>4 DEF HolderShows
    <3> QED
      BY <1>1, <3>1 DEF InDoubt
  <2>6. ASSUME NEW g \in Files \ {f} PROVE Visible(g)' = Visible(g) /\ InDoubt(g)' = InDoubt(g)
    <3>1. \A p \in Openers : /\ Holds(p, g)' <=> Holds(p, g)
                             /\ Holds(p, g) => store'[p].mem = store[p].mem
      BY <1>1, <2>1, <2>2 DEF Holds
    <3> QED
      BY <1>1, <3>1, SameView
  <2> QED
    BY <2>5, <2>6 DEF DValue, DDoubt
<1> QED
  BY <1>2, <1>3

\* A step that only moves an opener between other steps, or leaves what it holds
\* and remembers, is not seen.
LEMMA UnseenStep ==
    ASSUME StoreInv, HolderShows, HolderShows', NEW o \in Openers, disk' = disk,
           \A p \in Openers \ {o} : store'[p] = store[p],
           \/ store[o].step # "open" /\ store'[o].step # "open"
           \/ /\ store'[o].step = store[o].step /\ store'[o].bound = store[o].bound
              /\ store'[o].mem = store[o].mem
    PROVE  UNCHANGED <<DValue, DDoubt>>
<1>1. \A f \in Files, p \in Openers : /\ Holds(p, f)' <=> Holds(p, f)
                                      /\ Holds(p, f) => store'[p].mem = store[p].mem
  BY DEF Holds
<1> QED
  BY <1>1, Stutters

LEMMA OpenStepRefines ==
    ASSUME StoreInv, StoreInv', HolderShows, HolderShows', NEW o \in Openers, OpenStep(o)
    PROVE  Durable!DNext \/ UNCHANGED <<DValue, DDoubt>>
<1>1. CASE LetGo(o) /\ disk' = disk
  BY <1>1, LettingGoRestarts DEF LetGo
<1>2. CASE ProveBinding(o)
  BY <1>2, ProvingLoads
<1>3. CASE ~LetGo(o) /\ ~ProveBinding(o)
  <2>1. /\ disk' = disk
        /\ \A p \in Openers \ {o} : store'[p] = store[p]
    BY <1>3 DEF OpenStep, StoreIdentity, LockStore, PinBefore, Connect, LockDatabase, WriteNonce,
         OpenReturns, StoreInv, StoreTypeOK
  <2>2. \/ store[o].step # "open" /\ store'[o].step # "open"
        \/ /\ store'[o].step = store[o].step /\ store'[o].bound = store[o].bound
           /\ store'[o].mem = store[o].mem
    <3>1. store \in [Openers -> Stores]
      BY DEF StoreInv, StoreTypeOK
    <3>2. ASSUME NEW n \in Names, StoreIdentity(o, n) PROVE store[o].step # "open" /\ store'[o].step # "open"
      <4> DEFINE s == [Shut EXCEPT !.step = "identified", !.name = n, !.seen = names[n]]
      <4>1. Shut.step = "shut" /\ s.step = "identified"
        BY DEF Shut
      <4>2. store[o] = Shut /\ store' = [store EXCEPT ![o] = s]
        BY <3>2 DEF StoreIdentity
      <4> QED
        BY <3>1, <4>1, <4>2
    <3>3. CASE LockStore(o)
      BY <1>3, <3>1, <3>3 DEF LockStore, Stores
    <3>4. CASE PinBefore(o)
      BY <1>3, <3>1, <3>4 DEF PinBefore, Stores
    <3>5. CASE Connect(o)
      BY <3>1, <3>5 DEF Connect, Stores
    <3>6. CASE LockDatabase(o)
      BY <1>3, <3>1, <3>6 DEF LockDatabase, Stores
    <3>7. CASE WriteNonce(o)
      BY <1>3, <3>1, <3>7 DEF WriteNonce, Stores
    <3>8. CASE OpenReturns(o)
      BY <3>1, <3>8 DEF OpenReturns, Stores
    <3> QED
      BY <1>3, <3>2, <3>3, <3>4, <3>5, <3>6, <3>7, <3>8 DEF OpenStep
  <2> QED
    BY <2>1, <2>2, UnseenStep
<1>4. disk' = disk
  BY DEF OpenStep, StoreIdentity, LockStore, PinBefore, Connect, LockDatabase, WriteNonce,
       ProveBinding, OpenReturns
<1> QED
  BY <1>1, <1>2, <1>3, <1>4

LEMMA WriteStepRefines ==
    ASSUME StoreInv, StoreInv', HolderShows, HolderShows', NEW o \in Openers, WriteStep(o)
    PROVE  Durable!DNext \/ UNCHANGED <<DValue, DDoubt>>
<1>0. store \in [Openers -> Stores]
  BY DEF StoreInv, StoreTypeOK
<1>1. CASE CommitWrite(o) \/ Acknowledged(o)
  BY <1>1, CommitWrites, AcknowledgedIsTold
<1>2. ASSUME NEW m \in Mutations, BeginWrite(o, m) PROVE UNCHANGED <<DValue, DDoubt>>
  <2>1. /\ \A p \in Openers \ {o} : store'[p] = store[p]
        /\ store'[o].step = store[o].step /\ store'[o].bound = store[o].bound
        /\ store'[o].mem = store[o].mem
    BY <1>0, <1>2 DEF BeginWrite, Stores
  <2> QED
    BY <1>2, <2>1, UnseenStep DEF BeginWrite
<1>3. CASE ConnectRefused(o)
  BY <1>3, LettingGoRestarts DEF ConnectRefused, LetGo
<1>4. CASE WriteRefused(o)
  <2>1. CASE store[o].opening
    BY <1>4, <2>1, LettingGoRestarts DEF WriteRefused, LetGo
  <2>2. CASE ~store[o].opening
    <3>1. /\ \A p \in Openers \ {o} : store'[p] = store[p]
          /\ store'[o].step = store[o].step /\ store'[o].bound = store[o].bound
          /\ store'[o].mem = store[o].mem
      BY <1>0, <1>4, <2>2 DEF WriteRefused, PreviousState, Stores
    <3> QED
      BY <1>4, <3>1, UnseenStep DEF WriteRefused
  <2> QED
    BY <2>1, <2>2
<1> QED
  BY <1>1, <1>2, <1>3, <1>4 DEF WriteStep

\* Whatever happens to the names while stores are opened, and wherever a process
\* stops, a database file loses nothing that was acknowledged, and shows a
\* refused mutation at most after a restart (open_bound, lock_database, persist,
\* persist_after_mutation): the store implements DurableState.
THEOREM StoreRefines == StoreSpec => StoreIsDurable
<1>1. StoreInit => Durable!DInit
  <2> SUFFICES ASSUME StoreInit PROVE Durable!DInit
    OBVIOUS
  <2>1. \A f \in Files : Visible(f) = {}
    BY ShutHasNothing DEF StoreInit, Visible, Holds
  <2> QED
    BY <2>1 DEF StoreInit, InDoubt, Durable!DInit
<1>2. /\ StoreInv /\ StoreInv' /\ HolderShows /\ HolderShows'
      /\ [StoreNext]_storeVars
      => [Durable!DNext]_(Durable!stateVars)
  <2> SUFFICES ASSUME StoreInv, StoreInv', HolderShows, HolderShows', [StoreNext]_storeVars
               PROVE  Durable!DNext \/ UNCHANGED <<DValue, DDoubt>>
    BY DEF Durable!stateVars, DValue, DDoubt
  <2>1. CASE UNCHANGED storeVars \/ FsMove
    <3>1. store' = store /\ disk' = disk
      BY <2>1 DEF storeVars, FsMove
    <3>2. \A f \in Files, o \in Openers : /\ Holds(o, f)' <=> Holds(o, f)
                                          /\ Holds(o, f) => store'[o].mem = store[o].mem
      BY <3>1 DEF Holds
    <3> QED
      BY <3>1, <3>2, Stutters
  <2>2. ASSUME NEW o \in Openers, Stop(o) PROVE Durable!DNext \/ UNCHANGED <<DValue, DDoubt>>
    BY <2>2, LettingGoRestarts DEF Stop, LetGo
  <2> QED
    BY <2>1, <2>2, OpenStepRefines, WriteStepRefines DEF StoreNext
<1> QED
  BY <1>1, <1>2, CustodyHolds, OneHolder, PTL DEF StoreSpec, StoreIsDurable, Durable!DSpec

----------------------------------------------------------------------------
(* What an open does to the tables before it: the migrations, which run on     *)
(* every open, each statement for itself.                                      *)

\* The steps whose place in the plan matters.
PlacedOps == {"backfill", "family", "seed", "prefix"}

\* A function on 1 .. n is a sequence.
LEMMA InSeq ==
    ASSUME NEW X, NEW n \in Nat, NEW f \in [1 .. n -> X]
    PROVE  f \in Seq(X)
  BY SeqDef

\* Where the elements of a concatenation come from.
LEMMA ConcatAt ==
    ASSUME NEW X, NEW s \in Seq(X), NEW t \in Seq(X)
    PROVE  /\ \A i \in 1 .. Len(s) : (s \o t)[i] = s[i]
           /\ \A i \in 1 .. Len(t) : (s \o t)[Len(s) + i] = t[i]
<1>1. \A k \in 1 .. Len(s) + Len(t) : (s \o t)[k] = IF k <= Len(s) THEN s[k] ELSE t[k - Len(s)]
  BY ConcatProperties
<1>2. Len(s) \in Nat /\ Len(t) \in Nat
  OBVIOUS
<1> QED
  BY <1>1, <1>2

\* The plan is three tuples; what matters of each is where the placed steps are.
LEMMA FirstPart ==
    /\ Len(PlanThrough0010) = 17 /\ \A X : (\A i \in 1 .. 17 : PlanThrough0010[i] \in X) => PlanThrough0010 \in Seq(X)
    /\ PlanThrough0010[3].op = "backfill" /\ PlanThrough0010[4].op = "family"
    /\ PlanThrough0010[5].op = "seed" /\ PlanThrough0010[6].op = "prefix"
    /\ \A i \in {1, 2} \union (7 .. 17) : PlanThrough0010[i].op \notin PlacedOps
<1>1. Len(PlanThrough0010) = 17 /\ PlanThrough0010 \in [1 .. 17 -> {PlanThrough0010[i] : i \in 1 .. 17}]
  BY DEF PlanThrough0010
<1>2. ASSUME NEW X, \A i \in 1 .. 17 : PlanThrough0010[i] \in X
      PROVE  PlanThrough0010 \in Seq(X)
  <2>1. PlanThrough0010 \in [1 .. 17 -> X]
    BY <1>1, <1>2
  <2> QED
    BY <2>1, InSeq
<1>3. /\ PlanThrough0010[3].op = "backfill" /\ PlanThrough0010[4].op = "family"
      /\ PlanThrough0010[5].op = "seed" /\ PlanThrough0010[6].op = "prefix"
  BY DEF PlanThrough0010, Step
<1>4. /\ PlanThrough0010[1].op = "tables" /\ PlanThrough0010[2].op = "source"
      /\ PlanThrough0010[7].op = "tables" /\ PlanThrough0010[8].op = "column"
      /\ PlanThrough0010[9].op = "column" /\ PlanThrough0010[10].op = "tables"
      /\ PlanThrough0010[11].op = "logins"
  BY DEF PlanThrough0010, Step, Tables, Column
<1>5. /\ PlanThrough0010[12].op = "column" /\ PlanThrough0010[13].op = "column"
      /\ PlanThrough0010[14].op = "column" /\ PlanThrough0010[15].op = "column"
      /\ PlanThrough0010[16].op = "column" /\ PlanThrough0010[17].op = "tables"
  BY DEF PlanThrough0010, Tables, Column
<1>6. \A i \in {1, 2, 7, 8, 9, 10, 11} : PlanThrough0010[i].op \notin PlacedOps
  BY <1>4 DEF PlacedOps
<1>7. \A i \in {12, 13, 14, 15, 16, 17} : PlanThrough0010[i].op \notin PlacedOps
  BY <1>5 DEF PlacedOps
<1>8. \A i \in {1, 2} \union (7 .. 17) : i \in {1, 2, 7, 8, 9, 10, 11} \/ i \in {12, 13, 14, 15, 16, 17}
  OBVIOUS
<1> QED
  BY <1>1, <1>2, <1>3, <1>6, <1>7, <1>8

SecondPart == <<Column("head_sha"), Tables("0012"), Column("pushed_at"), Column("opt_out"), Column("origin"),
                Column("dismissed_review_id"), Tables("0017"), Tables("0018-0020")>>

LastPart == <<Step("kind"), Step("rotation"), Step("owner_kind"), Step("diff identity"), Tables("0025"),
              Column("dismissal_authority"), Column("creation_sequence")>>

LEMMA PlanParts == PlanThrough0020 = PlanThrough0010 \o SecondPart /\ Plan = PlanThrough0020 \o LastPart
  BY DEF PlanThrough0020, Plan, SecondPart, LastPart

LEMMA OtherParts ==
    /\ Len(SecondPart) = 8 /\ \A X : (\A i \in 1 .. 8 : SecondPart[i] \in X) => SecondPart \in Seq(X)
    /\ Len(LastPart) = 7 /\ \A X : (\A i \in 1 .. 7 : LastPart[i] \in X) => LastPart \in Seq(X)
    /\ \A i \in 1 .. 8 : SecondPart[i].op \notin PlacedOps
    /\ \A i \in 1 .. 7 : LastPart[i].op \notin PlacedOps
    /\ LastPart[3].op = "owner_kind"
<1>1. Len(SecondPart) = 8 /\ SecondPart \in [1 .. 8 -> {SecondPart[i] : i \in 1 .. 8}]
  BY DEF SecondPart
<1>2. Len(LastPart) = 7 /\ LastPart \in [1 .. 7 -> {LastPart[i] : i \in 1 .. 7}]
  BY DEF LastPart
<1>3. ASSUME NEW X
      PROVE  /\ (\A i \in 1 .. 8 : SecondPart[i] \in X) => SecondPart \in Seq(X)
             /\ (\A i \in 1 .. 7 : LastPart[i] \in X) => LastPart \in Seq(X)
  <2>1. (\A i \in 1 .. 8 : SecondPart[i] \in X) => SecondPart \in [1 .. 8 -> X]
    BY <1>1
  <2>2. (\A i \in 1 .. 7 : LastPart[i] \in X) => LastPart \in [1 .. 7 -> X]
    BY <1>2
  <2> QED
    BY <2>1, <2>2, InSeq
<1>4. /\ SecondPart[1].op = "column" /\ SecondPart[2].op = "tables" /\ SecondPart[3].op = "column"
      /\ SecondPart[4].op = "column" /\ SecondPart[5].op = "column" /\ SecondPart[6].op = "column"
      /\ SecondPart[7].op = "tables" /\ SecondPart[8].op = "tables"
  BY DEF SecondPart, Tables, Column
<1>5. /\ LastPart[1].op = "kind" /\ LastPart[2].op = "rotation" /\ LastPart[3].op = "owner_kind"
      /\ LastPart[4].op = "diff identity" /\ LastPart[5].op = "tables" /\ LastPart[6].op = "column"
      /\ LastPart[7].op = "column"
  BY DEF LastPart, Step, Tables, Column
<1>6. \A i \in 1 .. 8 : SecondPart[i].op \notin PlacedOps
  <2>1. \A i \in 1 .. 8 : i \in {1, 2, 3, 4, 5, 6, 7, 8}
    OBVIOUS
  <2> QED
    BY <1>4, <2>1 DEF PlacedOps
<1>7. \A i \in 1 .. 7 : LastPart[i].op \notin PlacedOps
  <2>1. \A i \in 1 .. 7 : i \in {1, 2, 3, 4, 5, 6, 7}
    OBVIOUS
  <2> QED
    BY <1>5, <2>1 DEF PlacedOps
<1> QED
  BY <1>1, <1>2, <1>3, <1>5, <1>6, <1>7

\* The plan has 32 steps; the family's column comes fourth, its two seeds
\* follow it at once and occur nowhere else.
LEMMA PlanIs ==
    /\ Len(Plan) = 32 /\ DOMAIN Plan = 1 .. 32
    /\ Plan[3].op = "backfill" /\ Plan[4].op = "family" /\ Plan[5].op = "seed" /\ Plan[6].op = "prefix"
    /\ Plan[28].op = "owner_kind"
    /\ \A i \in {1, 2} \union (7 .. 32) : Plan[i].op \notin PlacedOps
<1> DEFINE X == {PlanThrough0010[i] : i \in 1 .. 17} \union {SecondPart[i] : i \in 1 .. 8}
                  \union {LastPart[i] : i \in 1 .. 7}
<1>1. PlanThrough0010 \in Seq(X) /\ SecondPart \in Seq(X) /\ LastPart \in Seq(X)
  BY FirstPart, OtherParts
<1> HIDE DEF X
<1>a. Len(PlanThrough0010) = 17 /\ Len(SecondPart) = 8 /\ Len(LastPart) = 7
  BY FirstPart, OtherParts
<1>2. PlanThrough0020 \in Seq(X) /\ Len(PlanThrough0020) = 25
  <2>1. /\ PlanThrough0010 \o SecondPart \in Seq(X)
        /\ Len(PlanThrough0010 \o SecondPart) = Len(PlanThrough0010) + Len(SecondPart)
    BY <1>1, ConcatProperties
  <2> QED
    BY <1>a, <2>1, PlanParts
<1>3. Plan \in Seq(X) /\ Len(Plan) = 32
  <2>1. /\ PlanThrough0020 \o LastPart \in Seq(X)
        /\ Len(PlanThrough0020 \o LastPart) = Len(PlanThrough0020) + Len(LastPart)
    BY <1>1, <1>2, ConcatProperties
  <2> QED
    BY <1>2, <1>a, <2>1, PlanParts
<1>4. ASSUME NEW i \in 1 .. 17
      PROVE  Plan[i] = PlanThrough0010[i]
  <2>1. PlanThrough0020[i] = PlanThrough0010[i]
    <3>1. \A k \in 1 .. Len(PlanThrough0010) : (PlanThrough0010 \o SecondPart)[k] = PlanThrough0010[k]
      BY <1>1, ConcatAt
    <3> QED
      BY <1>a, <3>1, PlanParts
  <2>2. Plan[i] = PlanThrough0020[i]
    BY <1>1, <1>2, PlanParts, ConcatAt
  <2> QED
    BY <2>1, <2>2
<1>5. ASSUME NEW i \in 1 .. 8
      PROVE  Plan[17 + i] = SecondPart[i]
  <2>1. PlanThrough0020[17 + i] = SecondPart[i]
    <3>1. \A k \in 1 .. Len(SecondPart) :
             (PlanThrough0010 \o SecondPart)[Len(PlanThrough0010) + k] = SecondPart[k]
      BY <1>1, ConcatAt
    <3> QED
      BY <1>a, <3>1, PlanParts
  <2>2. 17 + i \in Nat /\ 1 <= 17 + i /\ 17 + i <= 25
    OBVIOUS
  <2>3. Plan[17 + i] = PlanThrough0020[17 + i]
    BY <1>1, <1>2, <2>2, PlanParts, ConcatAt
  <2> QED
    BY <2>1, <2>3
<1>6. ASSUME NEW i \in 1 .. 7
      PROVE  Plan[25 + i] = LastPart[i]
  <2>1. PlanThrough0020 \in Seq(X) /\ LastPart \in Seq(X)
    BY <1>1, <1>2
  <2>2. \A k \in 1 .. Len(LastPart) : (PlanThrough0020 \o LastPart)[Len(PlanThrough0020) + k] = LastPart[k]
    BY <2>1, ConcatAt
  <2> QED
    BY <1>a, <1>2, <2>2, PlanParts
<1>7. ASSUME NEW i \in {1, 2} \union (7 .. 32)
      PROVE  Plan[i].op \notin PlacedOps
  <2>1. CASE i \in {1, 2} \union (7 .. 17)
    BY <1>4, <2>1, FirstPart
  <2>2. CASE i \in 18 .. 25
    <3>1. i - 17 \in 1 .. 8 /\ 17 + (i - 17) = i
      BY <2>2
    <3> QED
      BY <1>5, <3>1, OtherParts
  <2>3. CASE i \in 26 .. 32
    <3>1. i - 25 \in 1 .. 7 /\ 25 + (i - 25) = i
      BY <2>3
    <3> QED
      BY <1>6, <3>1, OtherParts
  <2> QED
    BY <2>1, <2>2, <2>3
<1>8. Plan[28] = LastPart[3]
  <2>1. 3 \in 1 .. 7 /\ 25 + 3 = 28
    OBVIOUS
  <2> QED
    BY <1>6, <2>1
<1>9. DOMAIN Plan = 1 .. 32
  BY <1>3
<1> QED
  BY <1>3, <1>4, <1>7, <1>8, <1>9, FirstPart, OtherParts

----------------------------------------------------------------------------
(* What an open has done so far is done.                                      *)

\* Steps a family's first seeds run in.
Seeding == {i \in DOMAIN Plan : Plan[i].op \in {"seed", "prefix"}}

FamilyValues == {"", "split", "prefix", "plain", "other"}
EditValues == {"untouched", "", "other"}

MigTypeOK ==
    /\ at \in 0 .. 33
    /\ family \in [FamilyRepos -> FamilyValues]
    /\ edited \in [FamilyRepos -> EditValues]

\* The steps before this one have left what they leave.
StepsBehind ==
    /\ cols \subseteq AllColumns
    /\ \A i \in DOMAIN Plan : i < at =>
          /\ AddedBy(Plan[i]) \subseteq cols
          /\ Plan[i].op = "backfill" => sourced
          /\ Plan[i].op = "owner_kind" => bots = "team"

\* Once a family was edited no open is in its seeds, nor will be.
EditsAreLater ==
    \A r \in FamilyRepos : edited[r] # "untouched" =>
        family[r] = edited[r] /\ "family" \in cols /\ at \notin Seeding

MigInv ==
    /\ MigTypeOK /\ StepsBehind /\ EditsAreLater
    /\ at # 0 => fkOn
    /\ refused => logins # "canonical"
    /\ kids = expected

\* A step of the plan that leads to the next and leaves what it should.
Onward ==
    /\ at \in DOMAIN Plan /\ at' = at + 1 /\ Plan[at].op # "family"
    /\ cols' = cols \union AddedBy(Plan[at])
    /\ (sourced \/ Plan[at].op = "backfill") => sourced'
    /\ (bots = "team" \/ Plan[at].op = "owner_kind") => bots' = "team"
    /\ edited' = edited
    /\ at \notin Seeding => family' = family

LEMMA OpenedIs == Opened = 33
  BY PlanIs DEF Opened

LEMMA SeedingIs == Seeding = {5, 6}
  BY PlanIs DEF Seeding, PlacedOps

LEMMA FamilyIs == \A i \in DOMAIN Plan : (Plan[i].op = "family" <=> i = 4) /\ (Plan[i].op = "seed" <=> i = 5)
  BY PlanIs DEF PlacedOps

LEMMA ValuesAre ==
    /\ {"", "split", "prefix", "plain", "other"} \subseteq FamilyValues
    /\ {"untouched", "", "other"} \subseteq EditValues
  BY DEF FamilyValues, EditValues

LEMMA Adds ==
    ASSUME NEW s
    PROVE  /\ s.op = "column" => AddedBy(s) = {s.of}
           /\ s.op = "source" => AddedBy(s) = {"source_repository"}
           /\ s.op = "family" => AddedBy(s) = {"family"}
           /\ s.op = "rotation" => AddedBy(s) = {"rotation_secret_version"}
           /\ s.op = "diff identity" => AddedBy(s) = {"pull patch ids", "review patch ids"}
           /\ s.op \notin {"column", "source", "family", "rotation", "diff identity"} => AddedBy(s) = {}
  BY DEF AddedBy

LEMMA AddedIsKnown == \A i \in DOMAIN Plan : AddedBy(Plan[i]) \subseteq AllColumns
  BY DEF AllColumns

\* Past the last step everything is behind.
LEMMA OpenedIsWhole ==
    ASSUME MigInv, at = Opened
    PROVE  cols = AllColumns /\ bots = "team" /\ sourced /\ "family" \in cols
<1>1. \A i \in DOMAIN Plan : i < at
  BY PlanIs DEF Opened
<1>2. \A i \in DOMAIN Plan : AddedBy(Plan[i]) \subseteq cols
  BY <1>1 DEF MigInv, StepsBehind
<1>3. AllColumns \subseteq cols
  BY <1>2 DEF AllColumns
<1>4. 3 \in DOMAIN Plan /\ 4 \in DOMAIN Plan /\ 28 \in DOMAIN Plan
  BY PlanIs
<1>5. "family" \in cols
  BY <1>2, <1>4, Adds, PlanIs
<1> QED
  BY <1>1, <1>3, <1>4, <1>5, PlanIs DEF MigInv, StepsBehind

\* What holds behind a step holds behind the next, and edits stay out of the
\* seeds, because only the family's column leads there.
LEMMA OnwardIsBehind ==
    MigInv /\ Onward => StepsBehind' /\ EditsAreLater'
<1> SUFFICES ASSUME MigInv, Onward
             PROVE  StepsBehind' /\ EditsAreLater'
  OBVIOUS
<1>1. at \in 1 .. 32 /\ at' = at + 1
  BY PlanIs DEF Onward
<1>2. cols \subseteq cols' /\ cols' \subseteq AllColumns /\ AddedBy(Plan[at]) \subseteq cols'
  BY AddedIsKnown DEF MigInv, StepsBehind, Onward
<1>3. ASSUME NEW i \in DOMAIN Plan, i < at'
      PROVE  /\ AddedBy(Plan[i]) \subseteq cols'
             /\ Plan[i].op = "backfill" => sourced'
             /\ Plan[i].op = "owner_kind" => bots' = "team"
  <2>1. i = at \/ i < at
    BY <1>1, <1>3, PlanIs
  <2>2. CASE i = at
    BY <1>2, <2>2 DEF Onward
  <2>3. CASE i < at
    BY <1>2, <2>3 DEF MigInv, StepsBehind, Onward
  <2> QED
    BY <2>1, <2>2, <2>3
<1>4. ASSUME NEW r \in FamilyRepos, edited'[r] # "untouched"
      PROVE  family'[r] = edited'[r] /\ "family" \in cols' /\ at' \notin Seeding
  <2>1. family[r] = edited[r] /\ "family" \in cols /\ at \notin Seeding
    BY <1>4 DEF MigInv, EditsAreLater, Onward
  <2>2. at # 4 /\ at # 5
    BY <2>1, SeedingIs, PlanIs DEF Onward
  <2> QED
    BY <1>1, <1>2, <2>1, <2>2, SeedingIs DEF Onward
<1>5. StepsBehind'
  BY <1>2, <1>3 DEF StepsBehind
<1>6. EditsAreLater'
  BY <1>4 DEF EditsAreLater, Seeding
<1> QED
  BY <1>5, <1>6

LEMMA MigInitInv == MigInit => MigInv
<1> SUFFICES ASSUME MigInit PROVE MigInv
  OBVIOUS
<1>1. at = 0 /\ ~refused /\ kids = expected /\ edited = [r \in FamilyRepos |-> "untouched"]
  BY DEF MigInit
<1>2. PICK i \in 1 .. Opened :
        LET done == {Plan[j] : j \in 1 .. (i - 1)} IN
        /\ cols = UNION {AddedBy(s) : s \in done}
        /\ family = [r \in FamilyRepos |->
                       IF Step("family") \notin done \/ Provenance[r] = "plain" THEN "" ELSE Provenance[r]]
  BY DEF MigInit
<1>3. 1 .. (i - 1) \subseteq DOMAIN Plan
  <2>1. \A k \in 1 .. 33 : 1 .. (k - 1) \subseteq 1 .. 32
    OBVIOUS
  <2> QED
    BY <2>1, OpenedIs, PlanIs
<1>4. cols \subseteq AllColumns
  BY <1>2, <1>3 DEF AllColumns
<1>5. StepsBehind
  BY <1>1, <1>4, PlanIs DEF StepsBehind
<1>6. MigTypeOK
  <2>1. \A r \in FamilyRepos : Provenance[r] \in FamilyValues
    BY MigrationsAssumption, ValuesAre
  <2>2. "" \in FamilyValues /\ "untouched" \in EditValues
    BY ValuesAre
  <2>3. family \in [FamilyRepos -> FamilyValues]
    BY <1>2, <2>1, <2>2
  <2>4. edited \in [FamilyRepos -> EditValues]
    BY <1>1, <2>2
  <2>5. at \in 0 .. 33
    BY <1>1
  <2> QED
    BY <2>3, <2>4, <2>5 DEF MigTypeOK
<1>7. EditsAreLater
  BY <1>1 DEF EditsAreLater
<1> QED
  BY <1>1, <1>5, <1>6, <1>7 DEF MigInv

LEMMA MigStep == MigInv /\ [MigNext]_migVars => MigInv'
<1> SUFFICES ASSUME MigInv, [MigNext]_migVars PROVE MigInv'
  OBVIOUS
<1> USE DEF Here, GoOn
<1>t. MigTypeOK /\ at \in 0 .. 33 /\ Opened = 33 /\ DOMAIN Plan = 1 .. 32
  BY PlanIs, OpenedIs DEF MigInv, MigTypeOK
<1>g. ASSUME Onward, family' \in [FamilyRepos -> FamilyValues],
             logins' = logins, kids' = kids, expected' = expected, fkOn => fkOn', refused' = refused
      PROVE  MigInv'
  <2>1. StepsBehind' /\ EditsAreLater'
    BY <1>g, OnwardIsBehind
  <2>2. MigTypeOK'
    BY <1>t, <1>g DEF MigTypeOK, Onward
  <2>3. at # 0
    BY <1>t, <1>g DEF Onward
  <2> QED
    BY <1>g, <2>1, <2>2, <2>3 DEF MigInv
<1>0. CASE UNCHANGED migVars
  BY <1>0 DEF migVars, MigInv, MigTypeOK, StepsBehind, EditsAreLater, Seeding
<1>1. CASE StartOpen
  <2>1. at' = 1 /\ 1 \notin Seeding
    BY <1>1, SeedingIs DEF StartOpen
  <2>2. StepsBehind'
    BY <1>1, <1>t DEF StartOpen, MigInv, StepsBehind
  <2>3. EditsAreLater'
    BY <1>1, <2>1 DEF StartOpen, MigInv, EditsAreLater, Seeding
  <2>4. MigTypeOK'
    BY <1>1, <1>t DEF StartOpen, MigTypeOK
  <2> QED
    BY <1>1, <2>2, <2>3, <2>4 DEF StartOpen, MigInv
<1>2. CASE StopOpen
  <2>1. at' = 0 /\ 0 \notin Seeding
    BY <1>2, SeedingIs DEF StopOpen
  <2>2. StepsBehind'
    BY <1>2, <1>t DEF StopOpen, MigInv, StepsBehind
  <2>3. EditsAreLater'
    BY <1>2, <2>1 DEF StopOpen, MigInv, EditsAreLater, Seeding
  <2>4. MigTypeOK'
    BY <1>2, <1>t DEF StopOpen, MigTypeOK
  <2> QED
    BY <1>2, <2>2, <2>3, <2>4 DEF StopOpen, MigInv
<1>u. 33 \notin Seeding
  BY SeedingIs
<1>b. (sourced => sourced') /\ (bots = "team" => bots' = "team") /\ edited' = edited /\ family' = family
        /\ at' = at + 1 /\ at \in DOMAIN Plan /\ Plan[at].op \notin {"family", "backfill", "owner_kind"}
        /\ cols' = cols \union AddedBy(Plan[at])
      => Onward
  BY DEF Onward
<1>3. CASE CreateTables
  <2>1. Onward
    BY <1>3, <1>b, Adds DEF CreateTables
  <2> QED
    BY <1>3, <1>g, <1>t, <2>1 DEF CreateTables, MigTypeOK
<1>4. CASE AddColumnIfMissing
  <2>1. Onward
    BY <1>4, <1>b, Adds DEF AddColumnIfMissing
  <2> QED
    BY <1>4, <1>g, <1>t, <2>1 DEF AddColumnIfMissing, MigTypeOK
<1>5. CASE AddSource
  <2>1. Onward
    BY <1>5, <1>b, Adds DEF AddSource
  <2> QED
    BY <1>5, <1>g, <1>t, <2>1 DEF AddSource, MigTypeOK
<1>6. CASE BackfillSource
  <2>1. Onward
    BY <1>6, Adds DEF BackfillSource, Onward
  <2> QED
    BY <1>6, <1>g, <1>t, <2>1 DEF BackfillSource, MigTypeOK
<1>7. CASE AddFamily
  <2>1. at = 4
    BY <1>7, FamilyIs DEF AddFamily
  <2>2. CASE ColumnExists("family")
    <3>1. at' = 7 /\ cols' = cols /\ 7 \notin Seeding
      BY <1>7, <2>1, <2>2, SeedingIs DEF AddFamily, AfterSeed, ColumnExists
    <3>2. ASSUME NEW i \in DOMAIN Plan, i < 7
          PROVE  /\ AddedBy(Plan[i]) \subseteq cols
                 /\ Plan[i].op = "backfill" => sourced
                 /\ Plan[i].op = "owner_kind" => bots = "team"
      <4>1. CASE i < 4
        BY <2>1, <4>1 DEF MigInv, StepsBehind
      <4>2. CASE i \in {4, 5, 6}
        BY <2>2, <4>2, Adds, PlanIs DEF ColumnExists
      <4> QED
        BY <1>t, <3>2, <4>1, <4>2
    <3>3. StepsBehind'
      BY <1>7, <3>1, <3>2 DEF AddFamily, StepsBehind, MigInv
    <3>4. EditsAreLater'
      BY <1>7, <3>1 DEF AddFamily, EditsAreLater, MigInv, Seeding
    <3>5. MigTypeOK'
      BY <1>7, <1>t, <3>1 DEF AddFamily, MigTypeOK
    <3> QED
      BY <1>7, <2>1, <3>3, <3>4, <3>5 DEF AddFamily, MigInv
  <2>3. CASE ~ColumnExists("family")
    <3>0. at' = 5 /\ cols' = cols \union {"family"}
      BY <1>7, <2>1, <2>3 DEF AddFamily
    <3>a. AddedBy(Plan[4]) = {"family"}
      BY Adds, PlanIs
    <3>1. at' = 5 /\ cols' = cols \union {"family"} /\ AddedBy(Plan[4]) = {"family"}
      BY <3>0, <3>a
    <3>2. \A r \in FamilyRepos : edited[r] = "untouched"
      BY <2>3 DEF MigInv, EditsAreLater, ColumnExists
    <3>3. ASSUME NEW i \in DOMAIN Plan, i < 5
          PROVE  /\ AddedBy(Plan[i]) \subseteq cols'
                 /\ Plan[i].op = "backfill" => sourced
                 /\ Plan[i].op = "owner_kind" => bots = "team"
      <4>1. CASE i < 4
        BY <2>1, <3>1, <4>1 DEF MigInv, StepsBehind
      <4>2. CASE i = 4
        BY <3>1, <4>2, PlanIs
      <4> QED
        BY <1>t, <3>3, <4>1, <4>2
    <3>4. cols' \subseteq AllColumns
      BY <1>t, <3>1, AddedIsKnown DEF MigInv, StepsBehind
    <3>5. StepsBehind'
      BY <1>7, <3>1, <3>3, <3>4 DEF AddFamily, StepsBehind
    <3>6. EditsAreLater'
      BY <1>7, <3>2 DEF AddFamily, EditsAreLater
    <3>7. MigTypeOK'
      BY <1>7, <1>t, <3>1 DEF AddFamily, MigTypeOK
    <3> QED
      BY <1>7, <2>1, <3>5, <3>6, <3>7 DEF AddFamily, MigInv
  <2> QED
    BY <2>2, <2>3
<1>8. CASE SeedRepositoryFamilies
  <2>1. at = 5 /\ at \in Seeding
    <3>1. at \in DOMAIN Plan /\ Plan[at].op = "seed"
      BY <1>8 DEF SeedRepositoryFamilies
    <3> QED
      BY <3>1, FamilyIs, SeedingIs
  <2>2. family' \in [FamilyRepos -> FamilyValues]
    BY <1>8, <1>t, ValuesAre DEF SeedRepositoryFamilies, MigTypeOK
  <2>3. CASE at' = at
    <3>1. \A r \in FamilyRepos : edited[r] = "untouched"
      BY <2>1 DEF MigInv, EditsAreLater
    <3>2. StepsBehind'
      BY <1>8, <2>3 DEF SeedRepositoryFamilies, MigInv, StepsBehind
    <3>3. EditsAreLater'
      BY <1>8, <3>1 DEF SeedRepositoryFamilies, EditsAreLater
    <3>4. MigTypeOK'
      BY <1>8, <1>t, <2>2, <2>3 DEF SeedRepositoryFamilies, MigTypeOK
    <3> QED
      BY <1>8, <2>3, <3>2, <3>3, <3>4 DEF SeedRepositoryFamilies, MigInv
  <2>4. CASE at' = at + 1
    <3>1. Onward
      BY <1>8, <2>1, <2>4, Adds DEF SeedRepositoryFamilies, Onward
    <3> QED
      BY <1>8, <1>g, <2>2, <3>1 DEF SeedRepositoryFamilies
  <2> QED
    BY <1>8, <2>3, <2>4 DEF SeedRepositoryFamilies
<1>9. CASE SeedPrefixes
  <2>1. at \in Seeding
    BY <1>9 DEF SeedPrefixes, Seeding
  <2>2. family' \in [FamilyRepos -> FamilyValues]
    BY <1>9, <1>t, ValuesAre DEF SeedPrefixes, MigTypeOK
  <2>3. Onward
    BY <1>9, <2>1, Adds DEF SeedPrefixes, Onward
  <2> QED
    BY <1>9, <1>g, <2>2, <2>3 DEF SeedPrefixes
<1>10. CASE ValidateLogins
  <2>1. CASE logins = "canonical"
    <3>1. Onward
      BY <1>10, <2>1, <1>b, Adds DEF ValidateLogins
    <3> QED
      BY <1>10, <2>1, <1>g, <1>t, <3>1 DEF ValidateLogins, MigTypeOK
  <2>2. CASE logins # "canonical"
    BY <1>10, <2>2 DEF ValidateLogins, MigInv, MigTypeOK, StepsBehind, EditsAreLater, Seeding
  <2> QED
    BY <2>1, <2>2
<1>11. CASE Migration0021
  <2>1. Onward
    BY <1>11, <1>b, Adds DEF Migration0021, RebuildBots
  <2> QED
    BY <1>11, <1>g, <1>t, <2>1 DEF Migration0021, RebuildBots, ForeignKeysOff, MigTypeOK
<1>12. CASE Migration0022
  <2>1. Onward
    BY <1>12, <1>b, Adds DEF Migration0022
  <2> QED
    BY <1>12, <1>g, <1>t, <2>1 DEF Migration0022, MigTypeOK
<1>13. CASE Migration0023
  <2>1. Onward
    BY <1>13, Adds DEF Migration0023, RebuildBots, Onward
  <2> QED
    BY <1>13, <1>g, <1>t, <2>1 DEF Migration0023, RebuildBots, ForeignKeysOff, MigTypeOK
<1>14. CASE Migration0024
  <2>1. Onward
    BY <1>14, <1>b, Adds DEF Migration0024
  <2> QED
    BY <1>14, <1>g, <1>t, <2>1 DEF Migration0024, MigTypeOK
<1>15. ASSUME NEW r \in FamilyRepos, NEW f \in {"", "other"}, SetFamily(r, f)
       PROVE  MigInv'
  <2>a. at = Opened
    BY <1>15 DEF SetFamily
  <2>b. "family" \in cols
    BY <2>a, OpenedIsWhole
  <2>1. "family" \in cols /\ at = 33 /\ 33 \notin Seeding
    BY <1>u, <2>a, <2>b, OpenedIs
  <2>2. MigTypeOK'
    BY <1>15, <1>t, ValuesAre DEF SetFamily, MigTypeOK
  <2>3. StepsBehind'
    BY <1>15 DEF SetFamily, MigInv, StepsBehind
  <2>4. EditsAreLater'
    BY <1>15, <1>t, <2>1 DEF SetFamily, MigInv, EditsAreLater, MigTypeOK, Seeding
  <2> QED
    BY <1>15, <2>2, <2>3, <2>4 DEF SetFamily, MigInv
<1>16. ASSUME NEW k \in Kids, ChangeKid(k)
       PROVE  MigInv'
  BY <1>16 DEF ChangeKid, MigInv, MigTypeOK, StepsBehind, EditsAreLater, Seeding
<1> QED
  BY <1>0, <1>1, <1>2, <1>3, <1>4, <1>5, <1>6, <1>7, <1>8, <1>9, <1>10, <1>11, <1>12, <1>13, <1>14, <1>15,
     <1>16 DEF MigNext

\* From a file of any release, and however many opens stopped midway, an open
\* that succeeds leaves every column, the team shape of bots, sources and
\* foreign keys on; no child row of a bot is lost on the way and no family an
\* operator set is overwritten (apply_migrations).
THEOREM OpenedFilesAreWhole == MigSpec => []OpenedFileIsWhole
<1>1. MigInit => MigInv
  BY MigInitInv
<1>2. MigInv /\ [MigNext]_migVars => MigInv'
  BY MigStep
<1>3. MigInv => OpenedFileIsWhole
  <2> SUFFICES ASSUME MigInv PROVE OpenedFileIsWhole
    OBVIOUS
  <2>1. at = Opened => cols = AllColumns /\ bots = "team" /\ sourced /\ fkOn
    <3>1. ASSUME at = Opened PROVE cols = AllColumns /\ bots = "team" /\ sourced
      BY <3>1, OpenedIsWhole
    <3>2. at = Opened => fkOn
      BY OpenedIs DEF MigInv
    <3> QED
      BY <3>1, <3>2
  <2> QED
    BY <2>1 DEF MigInv, EditsAreLater, OpenedFileIsWhole
<1> QED
  BY <1>1, <1>2, <1>3, PTL DEF MigSpec

-----------------------------------------------------------------------------
(* Lists, and how a body is read *)

\* Every inhabited set of natural numbers has a least one.
LEMMA LeastNumber ==
    ASSUME NEW T, T \subseteq Nat, T # {}
    PROVE  \E x \in T : \A y \in T : x <= y
<1> DEFINE Smaller == { ss \in Nat \X Nat : ss[1] < ss[2] }
<1>1. IsWellFoundedOn(Smaller, Nat)
  BY NatLessThanWellFounded, Zenon DEF OpToRel
<1>2. PICK x \in T : \A y \in T : ~ (<<y, x>> \in Smaller)
  BY <1>1, WFMin
<1>3. ASSUME NEW y \in T, y < x
      PROVE  FALSE
  <2>1. PICK pair : pair = <<y, x>>
    OBVIOUS
  <2>2. pair \in Nat \X Nat /\ pair[1] < pair[2]
    BY <1>3, <2>1
  <2> QED
    BY <1>2, <2>1, <2>2
<1> QED
  BY <1>3

\* What holds of zero, and of the next number after one it holds of, up to n.
LEMMA UpTo ==
    ASSUME NEW n \in Nat, NEW Good, 0 \in Good, \A m \in Nat : m < n /\ m \in Good => m + 1 \in Good
    PROVE  \A m \in Nat : m <= n => m \in Good
<1> DEFINE Missed == {m \in Nat : m <= n /\ m \notin Good}
<1>1. ASSUME Missed # {} PROVE FALSE
  <2>1. PICK x \in Missed : \A y \in Missed : x <= y
    BY <1>1, LeastNumber
  <2>2. x \in Nat /\ x # 0 /\ x <= n /\ x \notin Good
    BY <2>1
  <2>3. x - 1 \in Nat /\ x - 1 < n /\ x - 1 <= n /\ ~(x <= x - 1) /\ (x - 1) + 1 = x
    BY <2>2
  <2>4. x - 1 \in Good
    BY <2>1, <2>3
  <2> QED
    BY <2>2, <2>3, <2>4
<1> QED
  BY <1>1

\* A flattened list, part by part.
Joins(fl, seqs, n) == fl = [i \in 1 .. n |-> IF i = 1 THEN seqs[i] ELSE fl[i - 1] \o seqs[i]]

LEMMA JoinsExist ==
    ASSUME NEW n \in Nat, NEW seqs
    PROVE  \E fl : Joins(fl, seqs, n)
<1> DEFINE Good == {m \in Nat : \E fl : Joins(fl, seqs, m)}
<1>1. 0 \in Good
  <2>1. Joins([i \in 1 .. 0 |-> seqs[i]], seqs, 0)
    BY DEF Joins
  <2> QED
    BY <2>1
<1>2. ASSUME NEW m \in Nat, m \in Good PROVE m + 1 \in Good
  <2>1. PICK fl : Joins(fl, seqs, m)
    BY <1>2
  <2> DEFINE part(i) == IF i = 1 THEN seqs[i] ELSE fl[i - 1] \o seqs[i]
             more == [i \in 1 .. (m + 1) |-> part(i)]
  <2>2. \A i \in 1 .. m : fl[i] = part(i)
    BY <2>1 DEF Joins
  <2> HIDE DEF part
  <2>3. \A i \in 1 .. (m + 1) : i # 1 => i - 1 \in 1 .. m /\ i - 1 \in 1 .. (m + 1)
    OBVIOUS
  <2>4. \A i \in 1 .. (m + 1) : i # 1 => more[i - 1] = fl[i - 1]
    BY <2>2, <2>3
  <2>5. \A i \in 1 .. (m + 1) : part(i) = IF i = 1 THEN seqs[i] ELSE more[i - 1] \o seqs[i]
    <3> HIDE DEF more
    <3> QED BY <2>4 DEF part
  <2>6. Joins(more, seqs, m + 1)
    BY <2>5 DEF Joins
  <2> QED
    BY <2>6
<1>3. n \in Good
  <2> HIDE DEF Good
  <2> QED BY <1>1, <1>2, UpTo
<1> QED
  BY <1>3

LEMMA Flattened ==
    ASSUME NEW S, NEW n \in Nat, n # 0, NEW seqs \in [1 .. n -> Seq(S)]
    PROVE  \E fl : /\ FlattenSeq(seqs) = fl[n] /\ fl[1] = seqs[1]
                   /\ \A k \in 2 .. n : fl[k] = fl[k - 1] \o seqs[k]
<1>1. seqs \in Seq(Seq(S)) /\ Len(seqs) = n
  OBVIOUS
<1> DEFINE fl == CHOOSE f : Joins(f, seqs, n)
<1>2. Joins(fl, seqs, n)
  BY JoinsExist
<1>3. FlattenSeq(seqs) = fl[n]
  BY <1>1 DEF FlattenSeq, Joins
<1> HIDE DEF fl
<1>4. \A k \in 1 .. n : fl[k] = IF k = 1 THEN seqs[k] ELSE fl[k - 1] \o seqs[k]
  BY <1>2 DEF Joins
<1>5. 1 \in 1 .. n /\ \A k \in 2 .. n : k \in 1 .. n /\ k # 1
  OBVIOUS
<1>6. fl[1] = seqs[1] /\ \A k \in 2 .. n : fl[k] = fl[k - 1] \o seqs[k]
  BY <1>4, <1>5
<1> QED
  BY <1>3, <1>6

\* Where the entries of two lists are.
LEMMA Concatenated ==
    ASSUME NEW S, NEW a \in Seq(S), NEW b \in Seq(S)
    PROVE  /\ a \o b \in Seq(S) /\ Len(a) \in Nat /\ Len(b) \in Nat /\ Len(a \o b) = Len(a) + Len(b)
           /\ DOMAIN (a \o b) = 1 .. (Len(a) + Len(b))
           /\ \A i \in 1 .. Len(a) : (a \o b)[i] = a[i]
           /\ \A k \in 1 .. Len(b) : (a \o b)[Len(a) + k] = b[k]
  OBVIOUS

LEMMA Placed ==
    \A S : \A a, b \in Seq(S), n, m \in Nat :
       n = Len(a) /\ m = Len(b) =>
          /\ a \o b \in Seq(S) /\ Len(a \o b) = n + m
          /\ \A i \in 1 .. n : (a \o b)[i] = a[i]
          /\ \A k \in 1 .. m : (a \o b)[n + k] = b[k]
  BY Concatenated

\* The start of each part in the flattened list.
Parts(start, seqs, n, flat) ==
    /\ start \in [1 .. n + 1 -> Nat] /\ start[1] = 0 /\ Len(flat) = start[n + 1]
    /\ \A k \in 1 .. n : start[k + 1] = start[k] + Len(seqs[k])
    /\ \A k \in 1 .. n : start[k + 1] <= start[n + 1]
    /\ \A k \in 1 .. n : \A i \in 1 .. Len(seqs[k]) : flat[start[k] + i] = seqs[k][i]

LEMMA PartsOfFlat ==
    ASSUME NEW S, NEW n \in Nat, NEW seqs \in [1 .. n -> Seq(S)]
    PROVE  FlattenSeq(seqs) \in Seq(S) /\ \E start : Parts(start, seqs, n, FlattenSeq(seqs))
<1>1. CASE n = 0
  <2>1. seqs = <<>>
    BY <1>1
  <2>2. FlattenSeq(seqs) = <<>>
    BY <2>1 DEF FlattenSeq
  <2>3. Parts([k \in 1 .. n + 1 |-> 0], seqs, n, <<>>)
    BY <1>1 DEF Parts
  <2> QED
    BY <2>2, <2>3
<1>2. CASE n # 0
  <2>1. PICK fl : /\ FlattenSeq(seqs) = fl[n] /\ fl[1] = seqs[1]
                  /\ \A k \in 2 .. n : fl[k] = fl[k - 1] \o seqs[k]
    BY <1>2, Flattened
  \* Parts of the first m + 1 lists joined.
  <2> DEFINE Good == {m \in Nat : /\ fl[m + 1] \in Seq(S)
                                  /\ \E start : Parts(start, seqs, m + 1, fl[m + 1])}
  <2>2. 0 \in Good
    <3>1. PICK l \in Nat : l = Len(seqs[1])
      BY <1>2
    <3>2. seqs[1] \in Seq(S) /\ 1 .. (0 + 1) = {1} /\ 1 .. ((0 + 1) + 1) = {1, 2}
      BY <1>2
    <3> DEFINE start == [k \in {1, 2} |-> IF k = 1 THEN 0 ELSE l]
    <3>3. start \in [{1, 2} -> Nat] /\ start[1] = 0 /\ start[2] = l
      BY <3>1
    <3> HIDE DEF start
    <3>4. Parts(start, seqs, 0 + 1, fl[0 + 1])
      BY <2>1, <3>1, <3>2, <3>3 DEF Parts
    <3> QED
      BY <2>1, <3>2, <3>4
  <2>3. ASSUME NEW m \in Nat, m < n - 1, m \in Good PROVE m + 1 \in Good
    <3>1. PICK p \in Nat, q \in Nat : p = m + 1 /\ q = m + 2 /\ p \in 1 .. n /\ q \in 2 .. n /\ q \in 1 .. n /\ q - 1 = p
                                      /\ q = p + 1
      BY <2>3
    <3>2. fl[p] \in Seq(S) /\ seqs[q] \in Seq(S) /\ fl[q] = fl[p] \o seqs[q]
      BY <2>1, <2>3, <3>1
    <3>3. PICK start : Parts(start, seqs, p, fl[p])
      BY <2>3, <3>1
    <3>4. PICK a \in Nat, l \in Nat : a = Len(fl[p]) /\ l = Len(seqs[q])
      BY <3>2
    <3>5. /\ fl[q] \in Seq(S) /\ Len(fl[q]) = a + l
          /\ \A i \in 1 .. a : fl[q][i] = fl[p][i]
          /\ \A k \in 1 .. l : fl[q][a + k] = seqs[q][k]
      <4>1. PICK x \in Seq(S), y \in Seq(S) : x = fl[p] /\ y = seqs[q]
        BY <3>2
      <4>2. a = Len(x) /\ l = Len(y) /\ fl[q] = x \o y
        BY <3>2, <3>4, <4>1
      <4>3. /\ x \o y \in Seq(S) /\ Len(x \o y) = a + l
            /\ \A i \in 1 .. a : (x \o y)[i] = x[i]
            /\ \A k \in 1 .. l : (x \o y)[a + k] = y[k]
        BY <4>2, Placed
      <4> QED
        BY <4>1, <4>2, <4>3
    <3> DEFINE longer == [k \in 1 .. q + 1 |-> IF k = q + 1 THEN a + l ELSE start[k]]
    <3>6. /\ start \in [1 .. p + 1 -> Nat] /\ start[1] = 0 /\ start[p + 1] = a
          /\ \A k \in 1 .. p : start[k + 1] = start[k] + Len(seqs[k])
          /\ \A k \in 1 .. p : start[k + 1] <= a
          /\ \A k \in 1 .. p : \A i \in 1 .. Len(seqs[k]) : fl[p][start[k] + i] = seqs[k][i]
      BY <3>3, <3>4 DEF Parts
    <3>7. /\ longer \in [1 .. q + 1 -> Nat] /\ longer[q + 1] = a + l
          /\ \A k \in 1 .. q : longer[k] = start[k]
      BY <3>1, <3>6
    <3> HIDE DEF longer
    <3>8. longer[1] = 0 /\ longer[q] = a /\ \A k \in 1 .. p : k + 1 \in 1 .. q
      BY <3>1, <3>6, <3>7
    <3>9. \A k \in 1 .. q : k \in 1 .. p \/ k = q
      BY <3>1
    <3>10. \A k \in 1 .. q : longer[k + 1] = longer[k] + Len(seqs[k])
      <4> TAKE k \in 1 .. q
      <4>1. CASE k = q
        BY <3>4, <3>7, <3>8, <4>1
      <4>2. CASE k \in 1 .. p
        <5>1. k \in 1 .. q /\ k + 1 \in 1 .. q
          BY <3>8, <4>2
        <5>2. longer[k] = start[k] /\ longer[k + 1] = start[k + 1]
          BY <3>7, <5>1
        <5> QED BY <3>6, <4>2, <5>2
      <4> QED BY <3>9, <4>1, <4>2
    <3>11. \A k \in 1 .. q : longer[k + 1] <= longer[q + 1]
      <4> TAKE k \in 1 .. q
      <4>1. CASE k = q
        BY <3>7, <4>1
      <4>2. CASE k \in 1 .. p
        <5>1. longer[k + 1] = start[k + 1] /\ start[k + 1] <= a /\ start[k + 1] \in Nat
          BY <3>1, <3>6, <3>7, <3>8, <4>2
        <5> QED BY <3>7, <5>1
      <4> QED BY <3>9, <4>1, <4>2
    <3>12. \A k \in 1 .. q : \A i \in 1 .. Len(seqs[k]) : fl[q][longer[k] + i] = seqs[k][i]
      <4> TAKE k \in 1 .. q
      <4> TAKE i \in 1 .. Len(seqs[k])
      <4>1. CASE k = q
        BY <3>4, <3>5, <3>8, <4>1
      <4>2. CASE k \in 1 .. p
        <5>1. seqs[k] \in Seq(S) /\ i \in Nat /\ 1 <= i /\ i <= Len(seqs[k]) /\ Len(seqs[k]) \in Nat
          BY <3>1, <4>2
        <5>2. start[k] \in Nat /\ start[k] + Len(seqs[k]) <= a
          <6>1. k \in 1 .. p + 1
            BY <4>2
          <6>2. start[k] \in Nat
            BY <3>6, <6>1
          <6>3. start[k + 1] = start[k] + Len(seqs[k]) /\ start[k + 1] <= a
            BY <3>6, <4>2
          <6> QED BY <6>2, <6>3
        <5>5. \A x, y, z \in Nat : 1 <= z /\ z <= y /\ x + y <= a => x + z \in 1 .. a
          BY <3>5
        <5>3. start[k] + i \in 1 .. a
          BY <5>1, <5>2, <5>5
        <5>4. longer[k] = start[k]
          BY <3>7
        <5> QED BY <3>5, <3>6, <4>2, <5>3, <5>4
      <4> QED BY <3>9, <4>1, <4>2
    <3>13. Parts(longer, seqs, q, fl[q])
      BY <3>5, <3>7, <3>8, <3>10, <3>11, <3>12 DEF Parts
    <3> QED
      BY <3>1, <3>5, <3>13
  <2>4. n - 1 \in Good
    <3>1. PICK j \in Nat : j = n - 1
      BY <1>2
    <3> HIDE DEF Good
    <3>2. \A m \in Nat : m < j /\ m \in Good => m + 1 \in Good
      BY <2>3, <3>1
    <3>3. \A m \in Nat : m <= j => m \in Good
      BY <2>2, <3>2, UpTo
    <3> QED BY <3>1, <3>3
  <2>5. (n - 1) + 1 = n
    OBVIOUS
  <2> QED
    BY <2>1, <2>4, <2>5
<1> QED
  BY <1>1, <1>2

LEMMA WhatIsSent ==
    ASSUME NEW packets \in Preludes
    PROVE  /\ Len(packets) \in Nat /\ DOMAIN packets = 1 .. Len(packets)
           /\ packets \in Seq(ToSet(packets))
           /\ \A k \in 1 .. Len(packets) : IsSent(packets[k]) /\ packets[k].size \in {0, 1}
<1>1. packets \in Seq(ToSet(packets)) /\ \A p \in ToSet(packets) : IsSent(p)
  BY GitEdgeAssumption
<1>2. Len(packets) \in Nat /\ DOMAIN packets = 1 .. Len(packets)
  BY <1>1
<1>3. \A k \in 1 .. Len(packets) : IsSent(packets[k])
  BY <1>1, <1>2 DEF ToSet
<1>4. \A p : IsSent(p) => p.size \in {0, 1}
  <2>1. \A ref, caps : Command(ref, caps).size = 1 /\ Shallow(ref).size = 1
    BY DEF Command, Shallow, Pkt
  <2>2. Bad.size = 0 /\ Flush.size = 0 /\ Control.size = 0 /\ Reserved.size = 0
    BY DEF Bad, Flush, Control, Reserved, Pkt
  <2>3. \A p : IsSent(p) => p \in {Bad, Flush, Control, Reserved} \/ \E ref, caps : p = Command(ref, caps) \/ p = Shallow(ref)
    BY DEF IsSent
  <2> QED
    BY <2>1, <2>2, <2>3
<1> QED
  BY <1>1, <1>2, <1>3, <1>4

\* Where each packet starts in the bytes of a body.
Laid(packets, wire, start) ==
    /\ start \in [1 .. Len(packets) + 1 -> Nat] /\ start[1] = 0
    /\ \A k \in 1 .. Len(packets) : start[k + 1] = start[k] + (HeaderLen + packets[k].size)
    /\ \A k \in 1 .. Len(packets) : start[k + 1] <= start[Len(packets) + 1]
    /\ \A k \in 1 .. Len(packets) : \A i \in 1 .. (HeaderLen + packets[k].size) :
          wire[start[k] + i] = <<packets[k], i>>
    /\ start[Len(packets) + 1] <= Len(wire) /\ Len(wire) \in Nat
    /\ Flush \notin ToSet(packets) => Len(wire) = start[Len(packets) + 1]
    /\ \E S : wire \in Seq(S) /\ \A c \in S : c[1].size \in Nat

LEMMA WireIsLaid ==
    ASSUME NEW packets \in Preludes
    PROVE  \E start : Laid(packets, Wire(packets), start)
<1> DEFINE n == Len(packets)
           seqs == [i \in DOMAIN packets |-> Cells(packets[i])]
           S == {<<packets[k], i>> : k \in 1 .. n, i \in 1 .. 3} \cup {PackCell}
           flat == FlattenSeq(seqs)
           wire == Wire(packets)
<1>1. n \in Nat /\ DOMAIN packets = 1 .. n /\ \A k \in 1 .. n : packets[k].size \in {0, 1}
  BY WhatIsSent
<1>2. ASSUME NEW k \in 1 .. n
      PROVE  /\ Cells(packets[k]) \in Seq(S) /\ Len(Cells(packets[k])) = HeaderLen + packets[k].size
             /\ \A i \in 1 .. (HeaderLen + packets[k].size) : Cells(packets[k])[i] = <<packets[k], i>>
  <2> HIDE DEF n
  <2>1. PICK m \in Nat : m = HeaderLen + packets[k].size /\ \A i \in 1 .. m : i \in 1 .. 3
    BY <1>1 DEF HeaderLen
  <2>2. \A i \in 1 .. m : <<packets[k], i>> \in S
    BY <2>1
  <2>3. Cells(packets[k]) = [i \in 1 .. m |-> <<packets[k], i>>]
    BY <2>1 DEF Cells
  <2> HIDE DEF S
  <2> QED
    BY <2>1, <2>2, <2>3
<1>3. seqs \in [1 .. n -> Seq(S)] /\ \A k \in 1 .. n : seqs[k] = Cells(packets[k])
  BY <1>1, <1>2
<1>4. PackCell \in S /\ \A c \in S : c[1].size \in Nat
  <2>1. \A k \in 1 .. n : packets[k].size \in Nat
    BY <1>1
  <2>2. PackCell[1].size \in Nat
    BY DEF PackCell, Pkt
  <2> QED
    BY <2>1, <2>2
<1> HIDE DEF n, seqs, S
<1>5. PICK start : Parts(start, seqs, n, flat)
  BY <1>1, <1>3, PartsOfFlat
<1>6. flat \in Seq(S)
  BY <1>1, <1>3, PartsOfFlat
<1>7. wire = flat \o IF Flush \in ToSet(packets) THEN <<PackCell>> ELSE <<>>
  BY DEF Wire, seqs
<1> HIDE DEF flat, wire
<1>8. PICK a \in Nat : a = Len(flat)
  BY <1>6
<1>9. /\ wire \in Seq(S) /\ Len(wire) \in Nat /\ a <= Len(wire)
      /\ Flush \notin ToSet(packets) => Len(wire) = a
      /\ \A i \in 1 .. a : wire[i] = flat[i]
  <2>1. CASE Flush \in ToSet(packets)
    <3>1. PICK y \in Seq(S) : y = <<PackCell>> /\ Len(y) = 1
      <4>1. <<PackCell>> \in Seq(S) /\ Len(<<PackCell>>) = 1
        BY <1>4
      <4> QED
        BY <4>1
    <3>2. wire = flat \o y
      BY <1>7, <2>1, <3>1
    <3> QED
      BY <1>6, <1>8, <2>1, <3>1, <3>2, Placed
  <2>2. CASE Flush \notin ToSet(packets)
    <3>1. wire = flat \o <<>>
      BY <1>7, <2>2
    <3>2. wire = flat
      BY <1>6, <3>1
    <3> QED
      BY <1>6, <1>8, <3>2
  <2> QED
    BY <2>1, <2>2
<1>10. /\ start \in [1 .. n + 1 -> Nat] /\ start[1] = 0 /\ start[n + 1] = a
       /\ \A k \in 1 .. n : start[k + 1] = start[k] + (HeaderLen + packets[k].size)
       /\ \A k \in 1 .. n : start[k + 1] <= start[n + 1]
       /\ \A k \in 1 .. n : \A i \in 1 .. (HeaderLen + packets[k].size) : flat[start[k] + i] = <<packets[k], i>>
  <2>1. /\ start \in [1 .. n + 1 -> Nat] /\ start[1] = 0 /\ start[n + 1] = a
        /\ \A k \in 1 .. n : start[k + 1] = start[k] + Len(seqs[k])
        /\ \A k \in 1 .. n : start[k + 1] <= start[n + 1]
        /\ \A k \in 1 .. n : \A i \in 1 .. Len(seqs[k]) : flat[start[k] + i] = seqs[k][i]
    BY <1>5, <1>8 DEF Parts
  <2>2. \A k \in 1 .. n : Len(seqs[k]) = HeaderLen + packets[k].size
    BY <1>2, <1>3
  <2>3. \A k \in 1 .. n : \A i \in 1 .. (HeaderLen + packets[k].size) : seqs[k][i] = <<packets[k], i>>
    BY <1>2, <1>3
  <2>4. \A k \in 1 .. n : start[k + 1] = start[k] + (HeaderLen + packets[k].size)
    BY <2>1, <2>2
  <2>5. \A k \in 1 .. n : \A i \in 1 .. (HeaderLen + packets[k].size) : flat[start[k] + i] = <<packets[k], i>>
    BY <2>1, <2>2, <2>3
  <2> QED
    BY <2>1, <2>4, <2>5
<1>11. \A k \in 1 .. n : \A i \in 1 .. (HeaderLen + packets[k].size) : wire[start[k] + i] = <<packets[k], i>>
  <2> TAKE k \in 1 .. n
  <2> TAKE i \in 1 .. (HeaderLen + packets[k].size)
  <2>1. PICK m \in Nat : m = HeaderLen + packets[k].size /\ i \in 1 .. m
    BY <1>1 DEF HeaderLen
  <2>2. start[k] \in Nat /\ start[k] + m <= a
    <3>1. k \in 1 .. n + 1 /\ k + 1 \in 1 .. n + 1
      BY <1>1
    <3>2. start[k] \in Nat /\ start[k + 1] = start[k] + m /\ start[k + 1] <= a
      BY <1>10, <2>1, <3>1
    <3> QED
      BY <3>2
  <2>3. start[k] + i \in 1 .. a
    BY <2>1, <2>2
  <2> QED
    BY <1>9, <1>10, <2>3
<1>12. Laid(packets, wire, start)
  BY <1>1, <1>4, <1>9, <1>10, <1>11 DEF Laid, n
<1> QED
  BY <1>12 DEF wire

\* The reader at one place, and what it reads is a body from there on.
ReadAt(cells, from, here) ==
    IF here = Len(cells) THEN <<>>
    ELSE IF Len(cells) - here < HeaderLen \/ PacketAt(cells, here) = {} THEN Malformed
    ELSE LET p == CHOOSE q \in PacketAt(cells, here) : TRUE
             next == here + HeaderLen + p.size
         IN  IF p = Flush THEN <<>>
             ELSE IF next > Len(cells) \/ p.kind \in {"control", "reserved"} THEN Malformed
             ELSE IF from[next] = Malformed THEN Malformed
             ELSE <<p>> \o from[next]

ReadsFrom(cells, from, m) == from = [here \in m .. Len(cells) |-> ReadAt(cells, from, here)]

\* The reader looks only ahead.
Ahead(cells, here, f, g) ==
    /\ \A p \in PacketAt(cells, here) : p.size \in Nat
    /\ \A i \in (here + 1) .. Len(cells) : f[i] = g[i]

LEMMA LooksAhead ==
    ASSUME NEW cells, NEW L \in Nat, L = Len(cells), NEW here \in Nat, here <= L, NEW f, NEW g,
           Ahead(cells, here, f, g)
    PROVE  ReadAt(cells, f, here) = ReadAt(cells, g, here)
<1>1. CASE here = Len(cells) \/ Len(cells) - here < HeaderLen \/ PacketAt(cells, here) = {}
  BY <1>1 DEF ReadAt
<1>2. CASE ~(here = Len(cells) \/ Len(cells) - here < HeaderLen \/ PacketAt(cells, here) = {})
  <2>1. PICK p : p = CHOOSE q \in PacketAt(cells, here) : TRUE
    OBVIOUS
  <2>2. PICK next : next = here + HeaderLen + p.size
    OBVIOUS
  <2>3. p \in PacketAt(cells, here)
    BY <1>2, <2>1
  <2>4. next \in Nat /\ here < next
    <3>1. p.size \in Nat
      BY <2>3 DEF Ahead
    <3> QED
      BY <2>2, <3>1 DEF HeaderLen
  <2>5. ~(next > L) => f[next] = g[next]
    <3>1. \A i \in (here + 1) .. L : f[i] = g[i]
      BY DEF Ahead
    <3> QED
      BY <2>4, <3>1
  <2> DEFINE R(from) == IF p = Flush THEN <<>>
             ELSE IF next > Len(cells) \/ p.kind \in {"control", "reserved"} THEN Malformed
             ELSE IF from[next] = Malformed THEN Malformed
             ELSE <<p>> \o from[next]
  <2>6. ReadAt(cells, f, here) = R(f) /\ ReadAt(cells, g, here) = R(g)
    BY <1>2, <2>1, <2>2 DEF ReadAt
  <2>7. R(f) = R(g)
    BY <2>5
  <2> QED
    BY <2>6, <2>7
<1> QED
  BY <1>1, <1>2

LEMMA ReaderExists ==
    ASSUME NEW S, NEW cells \in Seq(S), \A c \in S : c[1].size \in Nat
    PROVE  ReadsFrom(cells, PacketsFrom(cells), 0)
<1>1. PICK L \in Nat : L = Len(cells) /\ DOMAIN cells = 1 .. L /\ \A i \in 1 .. L : cells[i][1].size \in Nat
  OBVIOUS
<1>2. \A here \in Nat : here < L => \A p \in PacketAt(cells, here) : p.size \in Nat
  <2> TAKE here \in Nat
  <2> HAVE here < L
  <2>1. here + 1 \in 1 .. L
    OBVIOUS
  <2> QED
    BY <1>1, <2>1 DEF PacketAt
<1> DEFINE Good == {d \in Nat : d <= L => \E f : ReadsFrom(cells, f, L - d)}
<1>3. 0 \in Good
  <2>1. \A f : ReadAt(cells, f, L) = <<>>
    BY <1>1 DEF ReadAt
  <2>2. L - 0 = L /\ L .. L = {L}
    OBVIOUS
  <2>3. ReadsFrom(cells, [here \in L .. L |-> <<>>], L)
    BY <1>1, <2>1, <2>2 DEF ReadsFrom
  <2> QED
    BY <2>2, <2>3
<1>4. ASSUME NEW d \in Nat, d < L, d \in Good PROVE d + 1 \in Good
  <2>1. PICK m \in Nat : m = L - (d + 1) /\ L - d = m + 1 /\ m < L
    BY <1>4
  <2>2. PICK f : ReadsFrom(cells, f, m + 1)
    BY <1>4, <2>1
  <2>3. \A here \in (m + 1) .. L : f[here] = ReadAt(cells, f, here)
    BY <1>1, <2>2 DEF ReadsFrom
  <2> DEFINE g == [here \in m .. L |-> ReadAt(cells, f, here)]
  <2>4. \A here \in m .. L : /\ g[here] = ReadAt(cells, f, here) /\ here \in Nat
                             /\ \A i \in (here + 1) .. L : i \in m .. L /\ i \in (m + 1) .. L
    BY <2>1
  <2>5. \A here \in m .. L : \A i \in (here + 1) .. L : f[i] = g[i]
    BY <2>3, <2>4
  <2> HIDE DEF g
  <2> HIDE DEF g
  <2>6. \A here \in m .. L : ReadAt(cells, f, here) = ReadAt(cells, g, here)
    <3> SUFFICES ASSUME NEW here \in m .. L PROVE ReadAt(cells, f, here) = ReadAt(cells, g, here)
      OBVIOUS
    <3>1. here \in Nat /\ here <= L
      BY <2>1
    <3>2. CASE here = L
      BY <1>1, <3>2 DEF ReadAt
    <3>3. CASE here < L
      <4>1. \A p \in PacketAt(cells, here) : p.size \in Nat
        BY <1>2, <3>1, <3>3
      <4>2. \A i \in (here + 1) .. L : f[i] = g[i]
        BY <2>5
      <4> QED
        <5>1. Ahead(cells, here, f, g)
          BY <1>1, <4>1, <4>2 DEF Ahead
        <5> QED
          BY <1>1, <3>1, <5>1, LooksAhead
    <3> QED
      BY <3>1, <3>2, <3>3
  <2>7. ReadsFrom(cells, g, m)
    BY <1>1, <2>6 DEF ReadsFrom, g
  <2> QED
    BY <2>1, <2>7
<1>5. \E f : ReadsFrom(cells, f, 0)
  <2>1. L \in Good
    <3> HIDE DEF Good
    <3>1. \A d \in Nat : d < L /\ d \in Good => d + 1 \in Good
      BY <1>4
    <3>2. \A d \in Nat : d <= L => d \in Good
      BY <1>3, <3>1, UpTo
    <3> QED BY <3>2
  <2>2. L - L = 0
    OBVIOUS
  <2> QED
    BY <2>1, <2>2
<1> DEFINE from == CHOOSE f : ReadsFrom(cells, f, 0)
<1>6. ReadsFrom(cells, from, 0)
  BY <1>5
<1>7. PacketsFrom(cells) = from
  BY DEF PacketsFrom, ReadsFrom, ReadAt
<1> QED
  BY <1>6, <1>7

LEMMA HeadOf ==
    ASSUME NEW packets \in Preludes, NEW wire, NEW start, Laid(packets, wire, start), NEW k \in 1 .. Len(packets),
           NEW cells, cells[start[k] + 1] = wire[start[k] + 1], cells[start[k] + 2] = wire[start[k] + 2]
    PROVE  PacketAt(cells, start[k]) = {packets[k]}
<1>1. 1 \in 1 .. (HeaderLen + packets[k].size) /\ 2 \in 1 .. (HeaderLen + packets[k].size)
  BY WhatIsSent DEF HeaderLen
<1>2. cells[start[k] + 1] = <<packets[k], 1>> /\ cells[start[k] + 2] = <<packets[k], 2>>
  BY <1>1 DEF Laid
<1>3. 1 .. HeaderLen = {1, 2}
  BY DEF HeaderLen
<1> QED
  BY <1>2, <1>3 DEF PacketAt

LEMMA OneMore ==
    ASSUME NEW S, NEW s \in Seq(S), NEW e \in Nat, e <= Len(s), NEW k \in 1 .. e
    PROVE  <<s[k]>> \o SubSeq(s, k + 1, e) = SubSeq(s, k, e)
  OBVIOUS

\* A body that has the packets up to the first flush, or all of them where there
\* is none, is read as those packets, or is malformed.
Covers(packets, wire, start, e, cells) ==
    /\ e \in 0 .. Len(packets) /\ \A j \in 1 .. e : packets[j] # Flush
    /\ \E S : cells \in Seq(S) /\ \A c \in S : c[1].size \in Nat
    /\ Len(cells) <= Len(wire) /\ \A i \in 1 .. Len(cells) : cells[i] = wire[i]
    /\ \/ e = Len(packets) /\ Len(cells) = start[e + 1]
       \/ e < Len(packets) /\ packets[e + 1] = Flush /\ start[e + 2] <= Len(cells)

LEMMA Parsed ==
    ASSUME NEW packets \in Preludes, NEW wire, NEW start, Laid(packets, wire, start),
           NEW e, NEW cells, Covers(packets, wire, start, e, cells)
    PROVE  Packets(cells) = Malformed \/ Packets(cells) = SubSeq(packets, 1, e)
<1> DEFINE f == PacketsFrom(cells)
<1>1. PICK n \in Nat, L \in Nat : n = Len(packets) /\ L = Len(cells)
  <2>1. PICK S : cells \in Seq(S)
    BY DEF Covers
  <2>2. Len(cells) \in Nat
    BY <2>1
  <2> QED
    BY <2>2, WhatIsSent
<1>2. \A here \in 0 .. L : f[here] = ReadAt(cells, f, here)
  <2>1. ReadsFrom(cells, f, 0)
    BY ReaderExists DEF Covers
  <2> QED
    BY <1>1, <2>1 DEF ReadsFrom
<1> HIDE DEF f
<1>3. /\ e \in Nat /\ e <= n /\ \A j \in 1 .. e : packets[j] # Flush
      /\ \A i \in 1 .. L : cells[i] = wire[i]
      /\ \/ e = n /\ L = start[e + 1]
         \/ e < n /\ packets[e + 1] = Flush /\ start[e + 2] <= L
  BY <1>1 DEF Covers
<1>4. /\ start \in [1 .. n + 1 -> Nat] /\ start[1] = 0
      /\ \A k \in 1 .. n : start[k + 1] = start[k] + (HeaderLen + packets[k].size)
      /\ \A k \in 1 .. n : packets[k].size \in Nat
  BY <1>1, WhatIsSent DEF Laid
<1>5. start[e + 1] \in Nat /\ start[e + 1] <= L
  <2>1. e + 1 \in 1 .. n + 1
    BY <1>1, <1>3
  <2>2. CASE e = n
    BY <1>3, <1>4, <2>1, <2>2
  <2>3. CASE e < n
    <3>1. e + 1 \in 1 .. n /\ e + 2 = (e + 1) + 1 /\ e + 2 \in 1 .. n + 1
      BY <1>3, <2>3
    <3>2. start[e + 2] = start[e + 1] + (HeaderLen + packets[e + 1].size) /\ start[e + 2] <= L
      BY <1>3, <1>4, <2>3, <3>1
    <3>3. start[e + 1] \in Nat
      BY <1>4, <2>1
    <3>4. packets[e + 1].size \in Nat
      BY <1>4, <3>1
    <3>5. \A x, y \in Nat : x <= x + (HeaderLen + y)
      BY DEF HeaderLen
    <3>6. start[e + 1] <= start[e + 2] /\ start[e + 2] \in Nat /\ L \in Nat
      BY <1>4, <3>1, <3>2, <3>3, <3>4, <3>5
    <3> QED
      BY <3>2, <3>3, <3>6
  <2> QED
    BY <1>3, <2>2, <2>3
\* The packet at its place, when it is in the body whole.
<1>6. ASSUME NEW k \in 1 .. n, start[k + 1] <= L
      PROVE  /\ PacketAt(cells, start[k]) = {packets[k]} /\ start[k] \in 0 .. L /\ start[k] # L
             /\ ~(L - start[k] < HeaderLen) /\ start[k] <= start[k + 1] /\ start[k + 1] \in Nat
             /\ start[k] + HeaderLen + packets[k].size = start[k + 1]
  <2>0. k \in 1 .. n + 1 /\ k \in 1 .. Len(packets)
    BY <1>1
  <2>1. PICK a \in Nat, z \in Nat : a = start[k] /\ z = packets[k].size /\ start[k + 1] = a + (2 + z)
    <3>1. start[k] \in Nat /\ packets[k].size \in Nat
      BY <1>4, <2>0
    <3> QED
      BY <1>4, <3>1 DEF HeaderLen
  <2>2. a + 1 \in 1 .. L /\ a + 2 \in 1 .. L /\ a # L /\ ~(L - a < 2) /\ a \in 0 .. L /\ a <= start[k + 1]
    BY <1>6, <2>1
  <2>3. cells[start[k] + 1] = wire[start[k] + 1] /\ cells[start[k] + 2] = wire[start[k] + 2]
    BY <1>3, <2>1, <2>2
  <2>4. PacketAt(cells, start[k]) = {packets[k]}
    BY <2>0, <2>3, HeadOf
  <2> QED
    BY <2>1, <2>2, <2>4 DEF HeaderLen
<1> DEFINE Rest(k) == f[start[k]] = Malformed \/ f[start[k]] = SubSeq(packets, k, e)
           Good == {d \in Nat : d <= e => start[(e + 1) - d] <= start[e + 1] /\ Rest((e + 1) - d)}
<1>7. packets \in Seq(ToSet(packets))
  BY WhatIsSent
<1>8. 0 \in Good
  <2>1. f[start[e + 1]] = <<>>
    <3>0. start[e + 1] \in 0 .. L
      BY <1>5
    <3>1. CASE e = n /\ L = start[e + 1]
      <4>1. f[start[e + 1]] = ReadAt(cells, f, start[e + 1]) /\ start[e + 1] = Len(cells)
        BY <1>1, <1>2, <3>0, <3>1
      <4> QED
        BY <4>1 DEF ReadAt
    <3>2. CASE e < n /\ packets[e + 1] = Flush /\ start[e + 2] <= L
      <4>1. e + 1 \in 1 .. n /\ start[(e + 1) + 1] <= L
        BY <1>3, <3>2
      <4>2. /\ PacketAt(cells, start[e + 1]) = {Flush} /\ start[e + 1] \in 0 .. L /\ start[e + 1] # L
            /\ ~(L - start[e + 1] < HeaderLen)
        BY <1>6, <3>2, <4>1
      <4>3. (CHOOSE q \in PacketAt(cells, start[e + 1]) : TRUE) = Flush
        BY <4>2
      <4> QED
        BY <1>1, <1>2, <4>2, <4>3 DEF ReadAt
    <3> QED
      BY <1>3, <3>1, <3>2
  <2>2. SubSeq(packets, e + 1, e) = <<>>
    BY <1>3, <1>7
  <2>3. (e + 1) - 0 = e + 1 /\ start[e + 1] <= start[e + 1]
    BY <1>3, <1>5
  <2> QED
    BY <2>1, <2>2, <2>3
<1>9. ASSUME NEW d \in Nat, d < e, d \in Good PROVE d + 1 \in Good
  <2>1. PICK k \in 1 .. n : k = (e + 1) - (d + 1) /\ k + 1 = (e + 1) - d /\ k \in 1 .. e
    <3> HIDE DEF Good
    <3>1. e - d \in 1 .. n /\ e - d = (e + 1) - (d + 1) /\ (e - d) + 1 = (e + 1) - d /\ e - d \in 1 .. e
      BY <1>3, <1>9
    <3> QED
      BY <3>1
  <2>2. start[k + 1] <= start[e + 1] /\ Rest(k + 1)
    <3> HIDE DEF Rest
    <3>1. d <= e => start[(e + 1) - d] <= start[e + 1] /\ Rest((e + 1) - d)
      BY <1>9
    <3>2. d <= e
      BY <1>3, <1>9
    <3>3. start[(e + 1) - d] <= start[e + 1] /\ Rest((e + 1) - d)
      BY <3>1, <3>2
    <3> QED
      BY <2>1, <3>3
  <2>3. k + 1 \in 1 .. n + 1 /\ start[k + 1] <= L
    <3>1. k + 1 \in 1 .. n + 1
      BY <2>1
    <3>2. start[k + 1] \in Nat
      BY <1>4, <3>1
    <3> QED
      BY <1>5, <2>2, <3>1, <3>2
  <2>4. /\ PacketAt(cells, start[k]) = {packets[k]} /\ start[k] \in 0 .. L /\ start[k] # L
        /\ ~(L - start[k] < HeaderLen) /\ start[k] <= start[k + 1] /\ start[k + 1] \in Nat
        /\ start[k] + HeaderLen + packets[k].size = start[k + 1]
    BY <1>6, <2>3
  <2>5. (CHOOSE q \in PacketAt(cells, start[k]) : TRUE) = packets[k] /\ packets[k] # Flush /\ ~(start[k + 1] > L)
    BY <1>3, <2>1, <2>3, <2>4
  <2>6. f[start[k]] = IF packets[k].kind \in {"control", "reserved"} THEN Malformed
                      ELSE IF f[start[k + 1]] = Malformed THEN Malformed
                      ELSE <<packets[k]>> \o f[start[k + 1]]
    <3>1. f[start[k]] = ReadAt(cells, f, start[k])
      BY <1>2, <2>4
    <3> QED
      BY <1>1, <2>4, <2>5, <3>1 DEF ReadAt
  <2>7. <<packets[k]>> \o SubSeq(packets, k + 1, e) = SubSeq(packets, k, e)
    BY <1>1, <1>3, <1>7, <2>1, OneMore
  <2>8. Rest(k)
    BY <2>2, <2>6, <2>7
  <2>9. start[k] <= start[e + 1]
    <3>1. start[k] \in Nat
      BY <2>4
    <3> QED
      BY <1>5, <2>2, <2>4, <3>1
  <2> HIDE DEF Rest
  <2> QED
    BY <2>1, <2>8, <2>9
<1>10. Rest(1)
  <2> HIDE DEF Good
  <2>1. \A d \in Nat : d < e /\ d \in Good => d + 1 \in Good
    BY <1>9
  <2>2. \A d \in Nat : d <= e => d \in Good
    BY <1>3, <1>8, <2>1, UpTo
  <2>3. e \in Good /\ (e + 1) - e = 1
    BY <1>3, <2>2
  <2> QED
    BY <1>3, <2>3 DEF Good
<1> QED
  BY <1>4, <1>10 DEF Packets, f

\* A body whose policy says nothing against it had its commands read, all of
\* those git will find, and none of them names main.
LEMMA Judged ==
    ASSUME NEW packets \in Preludes, NEW wire, NEW start, Laid(packets, wire, start),
           NEW e, NEW cells, Covers(packets, wire, start, e, cells), Policy(cells) = "none"
    PROVE  /\ ReceivePackCommands(cells) = CommandsOf(packets, BeforeFlush(packets))
           /\ \A i \in BeforeFlush(packets) : packets[i].ref # Main
<1> DEFINE s == SubSeq(packets, 1, e)
<1>1. PICK n \in Nat : n = Len(packets) /\ DOMAIN packets = 1 .. n
  BY WhatIsSent
<1>2. PICK last \in Nat : /\ last = e /\ last <= n /\ \A j \in 1 .. last : packets[j] # Flush
                          /\ last = n \/ (last < n /\ packets[last + 1] = Flush)
  <2>1. /\ e \in 0 .. Len(packets) /\ \A j \in 1 .. e : packets[j] # Flush
        /\ e = Len(packets) \/ (e < Len(packets) /\ packets[e + 1] = Flush)
    BY DEF Covers
  <2>2. e \in Nat /\ e <= n
    BY <1>1, <2>1
  <2> QED
    BY <1>1, <2>1, <2>2
<1>3. DOMAIN s = 1 .. last /\ \A i \in 1 .. last : s[i] = packets[i]
  <2>1. packets \in Seq(ToSet(packets))
    BY WhatIsSent
  <2> QED
    BY <1>1, <1>2, <2>1
<1>4. BeforeFlush(packets) = 1 .. last
  <2>1. ASSUME NEW i \in 1 .. last PROVE i \in BeforeFlush(packets)
    <3>1. i \in 1 .. n /\ \A j \in 1 .. i : j \in 1 .. last
      BY <1>2, <2>1
    <3> QED
      BY <1>1, <1>2, <3>1 DEF BeforeFlush
  <2>2. ASSUME NEW i \in BeforeFlush(packets) PROVE i \in 1 .. last
    <3>1. i \in 1 .. n /\ \A j \in 1 .. i : packets[j] # Flush
      BY <1>1, <2>2 DEF BeforeFlush
    <3>2. CASE ~(i <= last)
      <4>1. last + 1 \in 1 .. i /\ last < n
        BY <1>2, <3>1, <3>2
      <4> QED
        BY <1>2, <3>1, <4>1
    <3> QED
      BY <1>2, <3>1, <3>2
  <2> QED
    BY <2>1, <2>2
<1>5. ReceivePackCommands(cells) # Malformed /\ \A i \in DOMAIN ReceivePackCommands(cells) :
          ReceivePackCommands(cells)[i].ref # Main
  BY DEF Policy
<1>6. Packets(cells) = s
  BY <1>5, Parsed DEF ReceivePackCommands
<1> HIDE DEF s
<1>7. ReceivePackCommands(cells) = CommandsOf(s, DOMAIN s)
  BY <1>5, <1>6 DEF ReceivePackCommands
<1>8. CommandsOf(s, DOMAIN s) = CommandsOf(packets, 1 .. last)
  <2>1. {j \in DOMAIN s : s[j].kind = "command"} = {j \in 1 .. last : packets[j].kind = "command"}
    BY <1>3
  <2> QED
    BY <1>3, <2>1 DEF CommandsOf
<1>9. ASSUME NEW i \in 1 .. last PROVE packets[i].ref # Main
  <2>1. IsSent(packets[i])
    <3>1. i \in 1 .. Len(packets)
      BY <1>1, <1>2
    <3> QED
      BY <3>1, WhatIsSent
  <2>2. CASE packets[i] \in {Bad, Flush, Control, Reserved}
    <3>1. packets[i].ref = ""
      <4>1. Bad.ref = "" /\ Flush.ref = "" /\ Control.ref = "" /\ Reserved.ref = ""
        BY DEF Bad, Flush, Control, Reserved, Pkt
      <4> QED
        BY <2>2, <4>1
    <3> QED
      BY <3>1 DEF Main
  <2>3. CASE packets[i] = Command(packets[i].ref, packets[i].caps)
    <3>1. packets[i].kind = "command"
      BY <2>3 DEF Command, Pkt
    <3>2. /\ i \in DOMAIN CommandsOf(packets, 1 .. last)
          /\ CommandsOf(packets, 1 .. last)[i] = packets[i]
      BY <1>9, <3>1 DEF CommandsOf
    <3> QED
      BY <1>5, <1>7, <1>8, <3>2
  <2> QED
    BY <2>1, <2>2, <2>3 DEF IsSent
<1> QED
  BY <1>4, <1>7, <1>8, <1>9

----------------------------------------------------------------------------
(* The push edge *)

\* What a client sends.
IsRequest(req) ==
    /\ req.packets \in Preludes /\ req.wire = Wire(req.packets)
    /\ req.declared \in Int /\ req.declared >= NoLength
    /\ req.whole => req.declared = Len(req.wire)

\* What was read is the start of what the client sends, the whole of it where
\* it comes whole.
HasRead(req, pre) ==
    \E n \in Nat : /\ n <= req.declared /\ n <= Len(req.wire)
                   /\ pre = SubSeq(req.wire, 1, n)
                   /\ req.whole => n = Len(req.wire)

\* The scan stands at packet k, behind packets that are no flush.
StandsAt(req, pre, off, start, k) ==
    /\ Laid(req.packets, req.wire, start)
    /\ k \in 1 .. Len(req.packets) + 1 /\ \A j \in 1 .. k - 1 : req.packets[j] # Flush
    /\ off = start[k] /\ start[k] <= Len(pre)

Scanned(req, pre, off) == \E start : \E k \in Nat : StandsAt(req, pre, off, start, k)

\* The scan ended behind the first flush, packet k.
EndsAt(req, pre, off, start, k) ==
    /\ Laid(req.packets, req.wire, start)
    /\ k \in 1 .. Len(req.packets) /\ \A j \in 1 .. k - 1 : req.packets[j] # Flush
    /\ req.packets[k] = Flush /\ off = start[k + 1] /\ start[k + 1] <= Len(pre)

Cleared(req, pre, off) == \E start : \E k \in Nat : EndsAt(req, pre, off, start, k)

\* What git holds is the start of what the client sends, and its commands were judged.
Asked(req, pre, off) == IF req.whole THEN pre ELSE SubSeq(pre, 1, off)

Passed(req, pre, off) ==
    HasRead(req, pre) /\ (~req.whole => Cleared(req, pre, off)) /\ Policy(Asked(req, pre, off)) = "none"

Handed(req, stage, pre, off, out) ==
    /\ Passed(req, pre, off)
    /\ \E m \in Nat : /\ m <= req.declared /\ m <= Len(req.wire) /\ out = SubSeq(req.wire, 1, m)
                      /\ stage = "ended" => m = req.declared

\* What the client was told while and after git ran.
Told(req, stage, ans) ==
    IF req.whole THEN ans = (CASE stage = "pump" -> 0 [] stage = "ended" -> 200 [] OTHER -> 500) ELSE ans = 200

EdgeHolds(req, stage, pre, off, out, ans) ==
    /\ IsRequest(req)
    /\ stage \in {"head", "admit", "scan", "judge", "spawn", "pump", "cut", "ended"}
    /\ stage \in {"head", "admit", "scan", "judge", "spawn"} => out = NoGit /\ ans = 0
    /\ req.whole /\ ans = 200 => out = req.wire
    /\ out # NoGit => Told(req, stage, ans)
    /\ stage \in {"head", "admit"} => off = 0
    /\ stage \in {"admit", "scan", "judge"} => HasRead(req, pre)
    /\ stage = "scan" => ~req.whole /\ Scanned(req, pre, off)
    /\ stage = "judge" => req.whole \/ Cleared(req, pre, off)
    /\ stage = "spawn" => Passed(req, pre, off)
    /\ stage = "pump" => Passed(req, pre, off) /\ Told(req, stage, ans)
    /\ out # NoGit => Handed(req, stage, pre, off, out)

EdgeInv == EdgeHolds(request, edge, prefix, offset, stdin, answer)

LEMMA WireIsWhole ==
    ASSUME NEW packets \in Preludes
    PROVE  \E S : Wire(packets) \in Seq(S) /\ Len(Wire(packets)) \in Nat
<1>1. PICK start : Laid(packets, Wire(packets), start)
  BY WireIsLaid
<1>2. PICK S : Wire(packets) \in Seq(S)
  BY <1>1 DEF Laid
<1> QED
  BY <1>2

LEMMA LeastOfTwo ==
    ASSUME NEW a \in Int, NEW b \in Int
    PROVE  /\ Min({a, b}) \in {a, b} /\ Min({a, b}) <= a /\ Min({a, b}) <= b
<1>1. \E x \in {a, b} : \A y \in {a, b} : x <= y
  OBVIOUS
<1> QED
  BY <1>1 DEF Min

LEMMA AtLeastZero ==
    ASSUME NEW x \in Int
    PROVE  Max({0, x}) = IF x > 0 THEN x ELSE 0
<1>1. \E z \in {0, x} : \A y \in {0, x} : z >= y
  OBVIOUS
<1>2. Max({0, x}) \in {0, x} /\ \A y \in {0, x} : Max({0, x}) >= y
  BY <1>1 DEF Max
<1> QED
  BY <1>2

LEMMA PrefixesGlue ==
    ASSUME NEW S, NEW w \in Seq(S), NEW n \in Nat, NEW m \in Nat, n <= m, m <= Len(w)
    PROVE  /\ Len(SubSeq(w, 1, n)) = n
           /\ SubSeq(w, 1, n) \o SubSeq(w, n + 1, m) = SubSeq(w, 1, m)
           /\ IsPrefix(SubSeq(w, 1, n), SubSeq(w, 1, m))
           /\ SubSeq(w, 1, Len(w)) = w
           /\ SubSeq(SubSeq(w, 1, m), 1, n) = SubSeq(w, 1, n)
<1>1. Len(SubSeq(w, 1, n)) = n /\ Len(SubSeq(w, 1, m)) = m
  OBVIOUS
<1>2. SubSeq(w, 1, n) \o SubSeq(w, n + 1, m) = SubSeq(w, 1, m)
  OBVIOUS
<1>3. SubSeq(SubSeq(w, 1, m), 1, n) = SubSeq(w, 1, n) /\ SubSeq(SubSeq(w, 1, n), 1, n) = SubSeq(w, 1, n)
  OBVIOUS
<1>4. SubSeq(w, 1, Len(w)) = w
  OBVIOUS
<1> QED
  BY <1>1, <1>2, <1>3, <1>4 DEF IsPrefix

\* The first cells of what the client sends, as a body that has the packets up
\* to the first flush, or all of them.
LEMMA CutCovers ==
    ASSUME NEW req, IsRequest(req), NEW pre, HasRead(req, pre), NEW off, ~req.whole, Cleared(req, pre, off)
    PROVE  \E start : \E e \in Nat :
              Laid(req.packets, req.wire, start) /\ Covers(req.packets, req.wire, start, e, Asked(req, pre, off))
<1>1. PICK start : \E k \in Nat : EndsAt(req, pre, off, start, k)
  BY DEF Cleared
<1>2. PICK k \in Nat : EndsAt(req, pre, off, start, k)
  BY <1>1
<1>3. PICK S : req.wire \in Seq(S) /\ \A c \in S : c[1].size \in Nat
  BY <1>2 DEF EndsAt, Laid
<1>4. PICK n \in Nat : n <= Len(req.wire) /\ pre = SubSeq(req.wire, 1, n)
  BY DEF HasRead
<1>5. Len(pre) = n
  BY <1>3, <1>4
<1>6. Len(req.packets) \in Nat
  BY WhatIsSent DEF IsRequest
<1>7. PICK o \in Nat : o = start[k + 1] /\ o <= n /\ off = o
  <2>1. k + 1 \in 1 .. Len(req.packets) + 1
    BY <1>2, <1>6 DEF EndsAt
  <2>2. start[k + 1] \in Nat
    BY <1>2, <2>1 DEF EndsAt, Laid
  <2> QED
    BY <1>2, <1>5, <2>2 DEF EndsAt
<1>8. Asked(req, pre, off) = SubSeq(req.wire, 1, o)
  BY <1>3, <1>4, <1>7, PrefixesGlue DEF Asked
<1>9. PICK cells : cells = SubSeq(req.wire, 1, o)
  OBVIOUS
<1>10. /\ cells \in Seq(S) /\ Len(cells) = o /\ Len(cells) <= Len(req.wire)
       /\ \A i \in 1 .. Len(cells) : cells[i] = req.wire[i]
  BY <1>3, <1>4, <1>7, <1>9
<1>11. PICK e \in Nat : e = k - 1 /\ e + 1 = k /\ e + 2 = k + 1 /\ e \in 0 .. Len(req.packets) /\ e < Len(req.packets)
  BY <1>2, <1>6 DEF EndsAt
<1>12. Covers(req.packets, req.wire, start, e, cells)
  BY <1>2, <1>3, <1>7, <1>10, <1>11 DEF Covers, EndsAt
<1> QED
  BY <1>2, <1>8, <1>9, <1>12 DEF EndsAt

LEMMA WholeCovers ==
    ASSUME NEW req, IsRequest(req), NEW pre, HasRead(req, pre), NEW off, req.whole
    PROVE  \E start : \E e \in Nat :
              Laid(req.packets, req.wire, start) /\ Covers(req.packets, req.wire, start, e, Asked(req, pre, off))
<1>1. PICK start : Laid(req.packets, req.wire, start)
  BY WireIsLaid DEF IsRequest
<1>2. PICK S : req.wire \in Seq(S) /\ \A c \in S : c[1].size \in Nat
  BY <1>1 DEF Laid
<1>3. Asked(req, pre, off) = req.wire
  BY <1>2, PrefixesGlue DEF HasRead, Asked
<1>4. PICK n \in Nat : n = Len(req.packets) /\ DOMAIN req.packets = 1 .. n
  BY WhatIsSent DEF IsRequest
<1>5. /\ Len(req.wire) \in Nat /\ \A k \in 1 .. n : start[k + 1] <= start[n + 1]
      /\ start[n + 1] <= Len(req.wire) /\ start \in [1 .. n + 1 -> Nat]
      /\ Flush \notin ToSet(req.packets) => Len(req.wire) = start[n + 1]
  BY <1>1, <1>4 DEF Laid
<1>6. ASSUME NEW e \in 0 .. n, \A j \in 1 .. e : req.packets[j] # Flush,
             \/ e = n /\ Len(req.wire) = start[e + 1]
             \/ e < n /\ req.packets[e + 1] = Flush /\ start[e + 2] <= Len(req.wire)
      PROVE  Covers(req.packets, req.wire, start, e, req.wire)
  <2>1. Len(req.wire) <= Len(req.wire) /\ \A i \in 1 .. Len(req.wire) : req.wire[i] = req.wire[i]
    BY <1>5
  <2> QED
    BY <1>2, <1>4, <1>6, <2>1 DEF Covers
<1>7. \E e \in 0 .. n : /\ \A j \in 1 .. e : req.packets[j] # Flush
                        /\ \/ e = n /\ Len(req.wire) = start[e + 1]
                           \/ e < n /\ req.packets[e + 1] = Flush /\ start[e + 2] <= Len(req.wire)
  <2>1. CASE Flush \notin ToSet(req.packets)
    <3>1. \A j \in 1 .. n : req.packets[j] # Flush
      BY <1>4, <2>1 DEF ToSet
    <3>2. n \in 0 .. n /\ Len(req.wire) = start[n + 1]
      BY <1>5, <2>1
    <3> QED
      BY <3>1, <3>2
  <2>2. CASE Flush \in ToSet(req.packets)
    <3> DEFINE T == {k \in 1 .. n : req.packets[k] = Flush}
    <3>1. T # {} /\ T \subseteq Nat
      BY <1>4, <2>2 DEF ToSet
    <3>2. PICK k \in T : \A y \in T : k <= y
      <4> HIDE DEF T
      <4> QED
        BY <3>1, LeastNumber
    <3>3. k \in 1 .. n /\ req.packets[k] = Flush /\ \A j \in 1 .. n : req.packets[j] = Flush => k <= j
      BY <3>2
    <3> HIDE DEF T
    <3>4. PICK e \in 0 .. n : e < n /\ e + 1 = k /\ e + 2 = k + 1
      <4>1. k - 1 \in 0 .. n /\ k - 1 < n /\ (k - 1) + 1 = k /\ (k - 1) + 2 = k + 1
        BY <3>3
      <4> QED
        BY <4>1
    <3>5. \A j \in 1 .. e : req.packets[j] # Flush
      BY <3>3, <3>4
    <3>6. start[e + 2] <= Len(req.wire)
      <4>1. k + 1 \in 1 .. n + 1 /\ n + 1 \in 1 .. n + 1
        BY <3>3
      <4>2. start[k + 1] \in Nat /\ start[n + 1] \in Nat /\ start[k + 1] <= start[n + 1]
        BY <1>5, <3>3, <4>1
      <4> QED
        BY <1>5, <3>4, <4>2
    <3> QED
      BY <3>3, <3>4, <3>5, <3>6
  <2> QED
    BY <2>1, <2>2
<1>8. PICK e \in 0 .. n : Covers(req.packets, req.wire, start, e, req.wire)
  BY <1>6, <1>7
<1>9. e \in Nat
  OBVIOUS
<1> QED
  BY <1>1, <1>3, <1>8, <1>9

\* What the scan knows of the packet it stands at.
LEMMA ScanSees ==
    ASSUME IsRequest(request), HasRead(request, prefix), Scanned(request, prefix, offset)
    PROVE  /\ Missing \in Nat
           /\ Missing = 0 =>
                 \E start : \E k \in Nat :
                    /\ StandsAt(request, prefix, offset, start, k) /\ k \in 1 .. Len(request.packets)
                    /\ PacketAt(prefix, offset) = {request.packets[k]}
                    /\ offset + HeaderLen + request.packets[k].size = start[k + 1]
                    /\ start[k + 1] <= Len(prefix)
<1>1. PICK start : \E k \in Nat : StandsAt(request, prefix, offset, start, k)
  BY DEF Scanned
<1>2. PICK k \in Nat : StandsAt(request, prefix, offset, start, k)
  BY <1>1
<1>3. PICK S : request.wire \in Seq(S)
  BY <1>2 DEF StandsAt, Laid
<1>4. PICK r \in Nat : r <= Len(request.wire) /\ prefix = SubSeq(request.wire, 1, r)
  BY DEF HasRead
<1>5. Len(prefix) = r /\ Len(request.wire) \in Nat /\ \A i \in 1 .. r : prefix[i] = request.wire[i]
  BY <1>3, <1>4
<1>6. PICK n \in Nat : n = Len(request.packets) /\ DOMAIN request.packets = 1 .. n
                       /\ \A j \in 1 .. n : request.packets[j].size \in {0, 1}
  BY WhatIsSent DEF IsRequest
<1>7. /\ start \in [1 .. n + 1 -> Nat] /\ \A j \in 1 .. n : start[j + 1] = start[j] + (HeaderLen + request.packets[j].size)
      /\ Flush \notin ToSet(request.packets) => Len(request.wire) = start[n + 1]
      /\ k \in 1 .. n + 1 /\ (\A j \in 1 .. k - 1 : request.packets[j] # Flush) /\ offset = start[k]
  BY <1>2, <1>6 DEF StandsAt, Laid
<1>8. offset \in Nat /\ offset <= r
  BY <1>2, <1>5, <1>7 DEF StandsAt
\* Cells of a packet to come, or of none.
<1>9. ASSUME k \notin 1 .. n PROVE r - offset = 0
  <2>1. k = n + 1 /\ k - 1 = n
    BY <1>7, <1>9
  <2>2. Flush \notin ToSet(request.packets)
    BY <1>6, <1>7, <2>1 DEF ToSet
  <2> QED
    BY <1>4, <1>5, <1>7, <1>8, <2>1, <2>2
<1>10. ASSUME ~(r - offset < HeaderLen) PROVE k \in 1 .. n /\ PacketAt(prefix, offset) = {request.packets[k]}
  <2>1. k \in 1 .. n
    BY <1>9, <1>10 DEF HeaderLen
  <2>2. offset + 1 \in 1 .. r /\ offset + 2 \in 1 .. r
    BY <1>8, <1>10 DEF HeaderLen
  <2>3. prefix[start[k] + 1] = request.wire[start[k] + 1] /\ prefix[start[k] + 2] = request.wire[start[k] + 2]
    BY <1>5, <1>7, <2>2
  <2>4. PICK packets \in Preludes : packets = request.packets
    BY DEF IsRequest
  <2>5. PICK wire : wire = request.wire
    OBVIOUS
  <2>6. PICK cells : cells = prefix
    OBVIOUS
  <2>7. k \in 1 .. Len(packets) /\ Laid(packets, wire, start)
    BY <1>2, <1>6, <2>1, <2>4, <2>5 DEF StandsAt
  <2>8. cells[start[k] + 1] = wire[start[k] + 1] /\ cells[start[k] + 2] = wire[start[k] + 2]
    BY <2>3, <2>5, <2>6
  <2>9. PacketAt(cells, start[k]) = {packets[k]}
    BY <2>7, <2>8, HeadOf
  <2> QED
    BY <1>7, <2>1, <2>4, <2>6, <2>9
<1> DEFINE size == IF r - offset < HeaderLen \/ PacketAt(prefix, offset) = {} THEN 0
                   ELSE (CHOOSE p \in PacketAt(prefix, offset) : TRUE).size
<1>11. Missing = Max({0, HeaderLen + size - (r - offset)})
  BY <1>5 DEF Missing
<1>12. CASE r - offset < HeaderLen
  <2>1. size = 0
    BY <1>12
  <2> HIDE DEF size
  <2>2. PICK x \in Int : x = HeaderLen + size - (r - offset) /\ x > 0
    BY <1>8, <1>12, <2>1 DEF HeaderLen
  <2>3. Missing = x
    BY <1>11, <2>2, AtLeastZero
  <2> QED
    BY <2>2, <2>3
<1>13. CASE ~(r - offset < HeaderLen)
  <2>1. k \in 1 .. n /\ PacketAt(prefix, offset) = {request.packets[k]}
    BY <1>10, <1>13
  <2>2. size = request.packets[k].size
    BY <1>13, <2>1
  <2> HIDE DEF size
  <2>3. PICK z \in Nat : z = size /\ z = request.packets[k].size
    BY <1>6, <2>1, <2>2
  <2>4. PICK x \in Int : x = HeaderLen + size - (r - offset) /\ x = 2 + z - (r - offset)
    BY <1>8, <2>3 DEF HeaderLen
  <2>5. Missing = IF x > 0 THEN x ELSE 0
    BY <1>11, <2>4, AtLeastZero
  <2>6. Missing \in Nat /\ (Missing = 0 => x <= 0)
    BY <2>5
  <2>7. ASSUME x <= 0
        PROVE  offset + HeaderLen + request.packets[k].size = start[k + 1] /\ start[k + 1] <= r
    <3>1. start[k + 1] = offset + (HeaderLen + z)
      BY <1>7, <2>1, <2>3
    <3>2. offset + HeaderLen + z = offset + (HeaderLen + z) /\ offset + (HeaderLen + z) <= r
      BY <1>8, <2>4, <2>7 DEF HeaderLen
    <3> QED
      BY <2>3, <3>1, <3>2
  <2> QED
    BY <1>2, <1>5, <1>6, <2>1, <2>6, <2>7
<1> QED
  BY <1>12, <1>13

\* An answer instead of the push.
LEMMA RefusalKeepsEdge ==
    ASSUME EdgeInv, stdin = NoGit, NEW cause, Refuse(cause)
    PROVE  EdgeInv'
<1>1. IsRequest(request)
  BY DEF EdgeInv, EdgeHolds
<1>2. request' = request /\ edge' = "ended" /\ stdin' = NoGit /\ offset' = offset /\ prefix' = prefix
  BY DEF Refuse
<1>3. answer' # 200
  BY DEF Refuse, ErrorResponse
<1>4. EdgeHolds(request, "ended", prefix, offset, NoGit, answer')
  BY <1>1, <1>3 DEF EdgeHolds
<1> QED
  BY <1>2, <1>4 DEF EdgeInv

LEMMA ReadHeadKeepsEdge ==
    ASSUME EdgeInv, NEW n \in 0 .. Len(request.wire), ReadHead(n)
    PROVE  EdgeInv'
<1>1. /\ IsRequest(request) /\ stdin = NoGit /\ answer = 0 /\ offset = 0 /\ ~request.whole
      /\ edge = "head"
  BY DEF EdgeInv, EdgeHolds, ReadHead
<1>2. CASE request.declared = NoLength
  <2>1. Refuse("unsized")
    BY <1>2 DEF ReadHead
  <2> QED
    BY <1>1, <2>1, RefusalKeepsEdge
<1>3. CASE request.declared # NoLength
  <2>1. /\ prefix' = SubSeq(request.wire, 1, Min({n, request.declared})) /\ edge' = "admit"
        /\ request' = request /\ offset' = offset /\ stdin' = stdin /\ answer' = answer
    BY <1>3 DEF ReadHead
  <2>2. PICK d \in Nat, l \in Nat : d = request.declared /\ l = Len(request.wire)
    <3>1. Len(request.wire) \in Nat
      BY <1>1, WireIsWhole DEF IsRequest
    <3>2. request.declared \in Nat
      BY <1>1, <1>3 DEF IsRequest, NoLength
    <3> QED
      BY <3>1, <3>2
  <2>3. PICK m \in Nat : m = Min({n, request.declared}) /\ m <= d /\ m <= l
    <3>1. PICK c \in Nat : c = n /\ c <= l
      BY <2>2
    <3>2. Min({c, d}) \in {c, d} /\ Min({c, d}) <= c /\ Min({c, d}) <= d
      <4>1. \A x, y \in Int : Min({x, y}) \in {x, y} /\ Min({x, y}) <= x /\ Min({x, y}) <= y
        BY LeastOfTwo
      <4>2. c \in Int /\ d \in Int
        OBVIOUS
      <4> QED
        BY <4>1, <4>2
    <3> QED
      BY <2>2, <3>1, <3>2
  <2>4. HasRead(request, prefix')
    BY <1>1, <2>1, <2>2, <2>3 DEF HasRead
  <2>5. EdgeHolds(request, "admit", prefix', 0, NoGit, 0)
    BY <1>1, <2>4 DEF EdgeHolds
  <2> QED
    BY <1>1, <2>1, <2>5 DEF EdgeInv
<1> QED
  BY <1>2, <1>3

LEMMA HeadCutShortKeepsEdge ==
    ASSUME EdgeInv, HeadCutShort
    PROVE  EdgeInv'
<1>1. IsRequest(request) /\ stdin = NoGit /\ answer = 0
  BY DEF EdgeInv, EdgeHolds, HeadCutShort
<1>2. EdgeHolds(request, "ended", prefix, offset, NoGit, answer)
  BY <1>1 DEF EdgeHolds
<1> QED
  BY <1>1, <1>2 DEF EdgeInv, HeadCutShort

LEMMA WholeBodyKeepsEdge ==
    ASSUME EdgeInv, WholeBody
    PROVE  EdgeInv'
<1>1. IsRequest(request) /\ stdin = NoGit /\ answer = 0 /\ offset = 0 /\ request.whole
  BY DEF EdgeInv, EdgeHolds, WholeBody
<1>2. /\ prefix' = request.wire /\ edge' = "admit" /\ request' = request /\ offset' = offset
      /\ stdin' = stdin /\ answer' = answer
  BY DEF WholeBody
<1>3. PICK S : request.wire \in Seq(S) /\ Len(request.wire) \in Nat
  BY <1>1, WireIsWhole DEF IsRequest
<1>4. PICK l \in Nat : l = Len(request.wire) /\ l <= Len(request.wire) /\ l <= request.declared
                       /\ request.wire = SubSeq(request.wire, 1, l)
  <2>1. request.declared = Len(request.wire) /\ Len(request.wire) <= Len(request.wire)
    BY <1>1, <1>3 DEF IsRequest
  <2>2. request.wire = SubSeq(request.wire, 1, Len(request.wire))
    BY <1>3, PrefixesGlue
  <2> QED
    BY <1>3, <2>1, <2>2
<1>5. HasRead(request, prefix')
  BY <1>1, <1>2, <1>4 DEF HasRead
<1>6. EdgeHolds(request, "admit", prefix', 0, NoGit, 0)
  BY <1>1, <1>5 DEF EdgeHolds
<1> QED
  BY <1>1, <1>2, <1>6 DEF EdgeInv

LEMMA AdmitKeepsEdge ==
    ASSUME EdgeInv, NEW cause, Admit(cause)
    PROVE  EdgeInv'
<1>1. /\ IsRequest(request) /\ stdin = NoGit /\ answer = 0 /\ offset = 0 /\ HasRead(request, prefix)
      /\ edge = "admit"
  BY DEF EdgeInv, EdgeHolds, Admit
<1>2. CASE cause # "none"
  BY <1>1, <1>2, RefusalKeepsEdge DEF Admit
<1>3. CASE cause = "none"
  <2>1. /\ edge' = (IF request.whole THEN "judge" ELSE "scan") /\ request' = request /\ prefix' = prefix
        /\ offset' = offset /\ stdin' = stdin /\ answer' = answer
    BY <1>3 DEF Admit
  <2>2. CASE request.whole
    <3>1. EdgeHolds(request, "judge", prefix, 0, NoGit, 0)
      BY <1>1, <2>2 DEF EdgeHolds
    <3> QED
      BY <1>1, <2>1, <2>2, <3>1 DEF EdgeInv
  <2>3. CASE ~request.whole
    <3>1. Scanned(request, prefix, 0)
      <4>1. PICK start : Laid(request.packets, request.wire, start)
        BY <1>1, WireIsLaid DEF IsRequest
      <4>2. PICK r \in Nat : r <= Len(request.wire) /\ prefix = SubSeq(request.wire, 1, r)
        BY <1>1 DEF HasRead
      <4>3. PICK S : request.wire \in Seq(S)
        BY <4>1 DEF Laid
      <4>4. Len(prefix) \in Nat
        BY <4>2, <4>3
      <4>5. Len(request.packets) \in Nat
        BY <1>1, WhatIsSent DEF IsRequest
      <4>6. 1 \in 1 .. Len(request.packets) + 1 /\ 1 .. 1 - 1 = {} /\ 0 <= Len(prefix) /\ 1 \in Nat
        BY <4>4, <4>5
      <4>7. start[1] = 0
        BY <4>1 DEF Laid
      <4>8. StandsAt(request, prefix, 0, start, 1)
        BY <4>1, <4>6, <4>7 DEF StandsAt
      <4> QED
        BY <4>6, <4>8 DEF Scanned
    <3>2. EdgeHolds(request, "scan", prefix, 0, NoGit, 0)
      BY <1>1, <2>3, <3>1 DEF EdgeHolds
    <3> QED
      BY <1>1, <2>1, <2>3, <3>2 DEF EdgeInv
  <2> QED
    BY <2>2, <2>3
<1> QED
  BY <1>2, <1>3

LEMMA ScanKeepsEdge ==
    ASSUME EdgeInv, Scan
    PROVE  EdgeInv'
<1>1. /\ IsRequest(request) /\ stdin = NoGit /\ answer = 0 /\ HasRead(request, prefix)
      /\ ~request.whole /\ Scanned(request, prefix, offset) /\ Missing = 0
  BY DEF EdgeInv, EdgeHolds, Scan
<1>2. PICK start : \E k \in Nat :
         /\ StandsAt(request, prefix, offset, start, k) /\ k \in 1 .. Len(request.packets)
         /\ PacketAt(prefix, offset) = {request.packets[k]}
         /\ offset + HeaderLen + request.packets[k].size = start[k + 1]
         /\ start[k + 1] <= Len(prefix)
  BY <1>1, ScanSees
<1>3. PICK k \in Nat :
         /\ StandsAt(request, prefix, offset, start, k) /\ k \in 1 .. Len(request.packets)
         /\ PacketAt(prefix, offset) = {request.packets[k]}
         /\ offset + HeaderLen + request.packets[k].size = start[k + 1]
         /\ start[k + 1] <= Len(prefix)
  BY <1>2
<1>4. (CHOOSE q \in PacketAt(prefix, offset) : TRUE) = request.packets[k]
  BY <1>3
<1>5. CASE PacketAt(prefix, offset) = {} \/ Reserved \in PacketAt(prefix, offset)
  <2>1. Refuse("protocol")
    BY <1>5 DEF Scan
  <2> QED
    BY <1>1, <2>1, RefusalKeepsEdge
<1>6. CASE ~(PacketAt(prefix, offset) = {} \/ Reserved \in PacketAt(prefix, offset))
  <2>1. /\ offset' = start[k + 1] /\ edge' = (IF request.packets[k] = Flush THEN "judge" ELSE "scan")
        /\ request' = request /\ prefix' = prefix /\ stdin' = stdin /\ answer' = answer
    BY <1>3, <1>4, <1>6 DEF Scan
  <2>2. /\ Laid(request.packets, request.wire, start) /\ \A j \in 1 .. k - 1 : request.packets[j] # Flush
        /\ start[k + 1] <= Len(prefix) /\ k \in 1 .. Len(request.packets)
    BY <1>3 DEF StandsAt
  <2>3. CASE request.packets[k] = Flush
    <3>1. EndsAt(request, prefix, start[k + 1], start, k)
      BY <2>2, <2>3 DEF EndsAt
    <3>2. Cleared(request, prefix, start[k + 1])
      BY <1>3, <3>1 DEF Cleared
    <3>3. EdgeHolds(request, "judge", prefix, start[k + 1], NoGit, 0)
      BY <1>1, <3>2 DEF EdgeHolds
    <3> QED
      BY <1>1, <2>1, <2>3, <3>3 DEF EdgeInv
  <2>4. CASE request.packets[k] # Flush
    <3>1. Len(request.packets) \in Nat
      BY <1>1, WhatIsSent DEF IsRequest
    <3>2. k + 1 \in 1 .. Len(request.packets) + 1 /\ k + 1 \in Nat
      BY <2>2, <3>1
    <3>3. \A j \in 1 .. (k + 1) - 1 : request.packets[j] # Flush
      <4>1. \A j \in 1 .. (k + 1) - 1 : j \in 1 .. k - 1 \/ j = k
        OBVIOUS
      <4> QED
        BY <2>2, <2>4, <4>1
    <3>4. StandsAt(request, prefix, start[k + 1], start, k + 1)
      BY <2>2, <3>2, <3>3 DEF StandsAt
    <3>5. Scanned(request, prefix, start[k + 1])
      BY <3>2, <3>4 DEF Scanned
    <3>6. EdgeHolds(request, "scan", prefix, start[k + 1], NoGit, 0)
      BY <1>1, <3>5 DEF EdgeHolds
    <3> QED
      BY <1>1, <2>1, <2>4, <3>6 DEF EdgeInv
  <2> QED
    BY <2>3, <2>4
<1> QED
  BY <1>5, <1>6

LEMMA ReadMoreKeepsEdge ==
    ASSUME EdgeInv, ReadMore
    PROVE  EdgeInv'
<1>1. /\ IsRequest(request) /\ stdin = NoGit /\ answer = 0 /\ HasRead(request, prefix)
      /\ ~request.whole /\ Scanned(request, prefix, offset) /\ edge = "scan"
  BY DEF EdgeInv, EdgeHolds, ReadMore
<1> DEFINE length == Len(prefix) + Missing
<1>2. CASE length > MaxPrelude \/ length > request.declared \/ length > Len(request.wire)
  <2>1. Refuse("protocol")
    BY <1>2 DEF ReadMore
  <2> QED
    BY <1>1, <2>1, RefusalKeepsEdge
<1>3. CASE ~(length > MaxPrelude \/ length > request.declared \/ length > Len(request.wire))
  <2>1. /\ prefix' = SubSeq(request.wire, 1, length) /\ request' = request /\ edge' = edge
        /\ offset' = offset /\ stdin' = stdin /\ answer' = answer
    BY <1>3 DEF ReadMore
  <2>2. PICK start : \E k \in Nat : StandsAt(request, prefix, offset, start, k)
    BY <1>1 DEF Scanned
  <2>3. PICK k \in Nat : StandsAt(request, prefix, offset, start, k)
    BY <2>2
  <2>4. PICK S : request.wire \in Seq(S) /\ Len(request.wire) \in Nat
    BY <1>1, WireIsWhole DEF IsRequest
  <2>5. PICK r \in Nat : r <= Len(request.wire) /\ prefix = SubSeq(request.wire, 1, r)
    BY <1>1 DEF HasRead
  <2>6. Len(prefix) = r
    BY <2>4, <2>5
  <2>7. Missing \in Nat
    BY <1>1, ScanSees
  <2>8. PICK m \in Nat : m = length /\ r <= m /\ m <= Len(request.wire) /\ m <= request.declared
    <3>1. request.declared \in Int
      BY <1>1 DEF IsRequest
    <3> QED
      BY <1>3, <2>4, <2>6, <2>7, <3>1
  <2> HIDE DEF length
  <2>9. HasRead(request, prefix')
    BY <1>1, <2>1, <2>8 DEF HasRead
  <2>10. Len(prefix') = m
    BY <2>1, <2>4, <2>8
  <2>11. Scanned(request, prefix', offset)
    <3>1. start[k] \in Nat
      <4>1. Len(request.packets) \in Nat
        BY <1>1, WhatIsSent DEF IsRequest
      <4> QED
        BY <2>3, <4>1 DEF StandsAt, Laid
    <3>2. start[k] <= Len(prefix')
      <4>1. start[k] <= r
        BY <2>3, <2>6 DEF StandsAt
      <4> QED
        BY <2>8, <2>10, <3>1, <4>1
    <3>3. StandsAt(request, prefix', offset, start, k)
      BY <2>3, <3>2 DEF StandsAt
    <3> QED
      BY <3>3 DEF Scanned
  <2>12. EdgeHolds(request, "scan", prefix', offset, NoGit, 0)
    BY <1>1, <2>9, <2>11 DEF EdgeHolds
  <2> QED
    BY <1>1, <2>1, <2>12 DEF EdgeInv
<1> QED
  BY <1>2, <1>3

LEMMA JudgeKeepsEdge ==
    ASSUME EdgeInv, Judge
    PROVE  EdgeInv'
<1>1. /\ IsRequest(request) /\ stdin = NoGit /\ answer = 0 /\ HasRead(request, prefix)
      /\ request.whole \/ Cleared(request, prefix, offset)
  BY DEF EdgeInv, EdgeHolds, Judge
<1> DEFINE verdict == IF ~request.whole /\ offset > MaxPrelude THEN "protocol" ELSE Policy(Prelude)
<1>2. CASE verdict # "none"
  <2>1. Refuse(verdict)
    BY <1>2 DEF Judge
  <2> HIDE DEF verdict
  <2> QED
    BY <1>1, <2>1, RefusalKeepsEdge
<1>3. CASE verdict = "none"
  <2>1. Policy(Asked(request, prefix, offset)) = "none"
    BY <1>3 DEF Prelude, Asked
  <2>2. /\ edge' = "spawn" /\ stdin' = stdin /\ request' = request /\ prefix' = prefix
        /\ offset' = offset /\ answer' = answer
    BY <1>3 DEF Judge
  <2>3. Passed(request, prefix, offset)
    BY <1>1, <2>1 DEF Passed
  <2>4. EdgeHolds(request, "spawn", prefix, offset, NoGit, 0)
    BY <1>1, <2>3 DEF EdgeHolds
  <2> QED
    BY <1>1, <2>2, <2>4 DEF EdgeInv
<1> QED
  BY <1>2, <1>3

LEMMA SpawnKeepsEdge ==
    ASSUME EdgeInv, NEW cause, Spawn(cause)
    PROVE  EdgeInv'
<1>1. IsRequest(request) /\ stdin = NoGit /\ Passed(request, prefix, offset)
  BY DEF EdgeInv, EdgeHolds, Spawn
<1>2. CASE cause # "none"
  <2>1. Refuse(cause)
    BY <1>2 DEF Spawn
  <2> QED
    BY <1>1, <2>1, RefusalKeepsEdge
<1>3. CASE cause = "none"
  <2>1. /\ edge' = "pump" /\ stdin' = <<>> /\ answer' = (IF request.whole THEN 0 ELSE 200)
        /\ request' = request /\ prefix' = prefix /\ offset' = offset
    BY <1>3 DEF Spawn
  <2>2. /\ <<>> = SubSeq(request.wire, 1, 0)
        /\ 0 <= request.declared /\ 0 <= Len(request.wire)
    <3>1. PICK S : request.wire \in Seq(S) /\ Len(request.wire) \in Nat
      BY <1>1, WireIsWhole DEF IsRequest
    <3>2. PICK n \in Nat : n <= request.declared /\ n <= Len(request.wire)
      BY <1>1 DEF Passed, HasRead
    <3>3. SubSeq(request.wire, 1, 0) = <<>>
      BY <3>1
    <3>4. 0 <= request.declared
      <4>1. request.declared \in Int
        BY <1>1 DEF IsRequest
      <4> QED
        BY <3>2, <4>1
    <3> QED
      BY <3>1, <3>3, <3>4
  <2>3. Handed(request, "pump", prefix, offset, <<>>)
    <3>1. \E m \in Nat : /\ m <= request.declared /\ m <= Len(request.wire)
                         /\ <<>> = SubSeq(request.wire, 1, m)
      BY <2>2
    <3> QED
      BY <1>1, <3>1 DEF Handed
  <2>4. Told(request, "pump", answer')
    BY <2>1 DEF Told
  <2>5. ~(request.whole /\ answer' = 200)
    BY <2>1
  <2>6. EdgeHolds(request, "pump", prefix, offset, <<>>, answer')
    BY <1>1, <2>3, <2>4, <2>5 DEF EdgeHolds
  <2> QED
    BY <2>1, <2>6 DEF EdgeInv
<1> QED
  BY <1>2, <1>3

\* The body git is given is the start of what the client sends.
LEMMA BodyIsSent ==
    ASSUME IsRequest(request), HasRead(request, prefix)
    PROVE  \E e \in Nat : /\ e <= request.declared /\ e <= Len(request.wire)
                         /\ Body = SubSeq(request.wire, 1, e)
<1> DEFINE rest == IF request.whole THEN 0 ELSE Min({Remaining, Len(request.wire) - Len(prefix)})
<1>1. Body = prefix \o SubSeq(request.wire, Len(prefix) + 1, Len(prefix) + rest)
  BY DEF Body
<1>2. PICK S : request.wire \in Seq(S) /\ Len(request.wire) \in Nat
  BY WireIsWhole DEF IsRequest
<1>3. PICK r \in Nat : /\ r <= request.declared /\ r <= Len(request.wire)
                       /\ prefix = SubSeq(request.wire, 1, r)
  BY DEF HasRead
<1>4. Len(prefix) = r
  BY <1>2, <1>3
<1>5. PICK d \in Int, l \in Nat : d = request.declared /\ l = Len(request.wire)
  BY <1>2 DEF IsRequest
<1>6. rest \in Nat /\ r + rest <= d /\ r + rest <= l
  <2>1. CASE request.whole
    <3>1. rest = 0
      BY <2>1
    <3> HIDE DEF rest
    <3> QED
      BY <1>3, <1>5, <3>1
  <2>2. CASE ~request.whole
    <3>1. rest = Min({d - r, l - r})
      BY <1>4, <1>5, <2>2 DEF Remaining
    <3> HIDE DEF rest
    <3>2. PICK a \in Nat, b \in Nat : a = d - r /\ b = l - r
      <4>1. d - r \in Nat /\ l - r \in Nat
        BY <1>3, <1>5
      <4> QED
        BY <4>1
    <3>3. Min({a, b}) \in {a, b} /\ Min({a, b}) <= a /\ Min({a, b}) <= b
      BY LeastOfTwo
    <3>4. rest \in {a, b} /\ rest <= a /\ rest <= b
      BY <3>1, <3>2, <3>3
    <3> QED
      BY <1>5, <3>2, <3>4
  <2> QED
    BY <2>1, <2>2
<1> HIDE DEF rest
<1>7. PICK e \in Nat : e = r + rest /\ r <= e /\ e <= request.declared /\ e <= Len(request.wire)
  BY <1>5, <1>6
<1>8. Body = SubSeq(request.wire, 1, r) \o SubSeq(request.wire, r + 1, e)
  BY <1>1, <1>3, <1>4, <1>7
<1>9. SubSeq(request.wire, 1, r) \o SubSeq(request.wire, r + 1, e) = SubSeq(request.wire, 1, e)
  BY <1>2, <1>7, PrefixesGlue
<1> QED
  BY <1>7, <1>8, <1>9

LEMMA PumpKeepsEdge ==
    ASSUME EdgeInv, NEW n \in 0 .. Len(request.wire), NEW ok \in BOOLEAN, Pump(n, ok)
    PROVE  EdgeInv'
<1>1. /\ IsRequest(request) /\ edge = "pump"
      /\ Passed(request, prefix, offset) /\ Told(request, "pump", answer)
  BY DEF EdgeInv, EdgeHolds, Pump
<1>2. /\ n \in 0 .. Len(Body) /\ (ok => n = request.declared)
      /\ stdin' = SubSeq(Body, 1, n) /\ edge' = (IF ok THEN "ended" ELSE "cut")
      /\ answer' = (IF ~request.whole THEN answer ELSE IF ok THEN 200 ELSE 500)
      /\ request' = request /\ prefix' = prefix /\ offset' = offset
  BY DEF Pump
<1>3. PICK S : request.wire \in Seq(S) /\ Len(request.wire) \in Nat
  BY <1>1, WireIsWhole DEF IsRequest
<1>4. PICK e \in Nat : e <= request.declared /\ e <= Len(request.wire) /\ Body = SubSeq(request.wire, 1, e)
  BY <1>1, BodyIsSent DEF Passed
<1>5. Len(Body) = e
  BY <1>3, <1>4
<1>6. n \in Nat /\ n <= e
  BY <1>2, <1>5
<1>7. n <= request.declared /\ n <= Len(request.wire)
  <2>1. request.declared \in Int
    BY <1>1 DEF IsRequest
  <2> QED
    BY <1>3, <1>4, <1>6, <2>1
<1>8. stdin' = SubSeq(request.wire, 1, n)
  <2>1. SubSeq(SubSeq(request.wire, 1, e), 1, n) = SubSeq(request.wire, 1, n)
    BY <1>3, <1>4, <1>6, <1>7
  <2> QED
    BY <1>2, <1>4, <2>1
<1>9. edge' \in {"ended", "cut"} /\ (edge' = "ended" => n = request.declared)
  BY <1>2
<1>10. Handed(request, edge', prefix, offset, stdin')
  BY <1>1, <1>6, <1>7, <1>8, <1>9 DEF Handed
<1>11. Told(request, edge', answer')
  BY <1>1, <1>2 DEF Told
<1>12. request.whole /\ answer' = 200 => stdin' = request.wire
  <2> SUFFICES ASSUME request.whole, answer' = 200 PROVE stdin' = request.wire
    OBVIOUS
  <2>1. n = Len(request.wire)
    BY <1>1, <1>2 DEF IsRequest
  <2> QED
    BY <1>3, <1>8, <2>1
<1>13. EdgeHolds(request, edge', prefix, offset, stdin', answer')
  BY <1>1, <1>9, <1>10, <1>11, <1>12 DEF EdgeHolds
<1> QED
  BY <1>2, <1>13 DEF EdgeInv

LEMMA EdgeInvIsInductive ==
    EdgeSpec => []EdgeInv
<1>1. EdgeInit => EdgeInv
  <2> SUFFICES ASSUME EdgeInit PROVE EdgeInv
    OBVIOUS
  <2>1. IsRequest(request)
    <3>1. PICK packets \in Preludes :
             \/ request = Request(packets, Len(Wire(packets)), TRUE)
             \/ \E declared \in NoLength .. Len(Wire(packets)) + 1 : request = Request(packets, declared, FALSE)
      BY DEF EdgeInit
    <3>2. Len(Wire(packets)) \in Nat
      BY WireIsWhole
    <3>3. CASE request = Request(packets, Len(Wire(packets)), TRUE)
      <4>1. /\ request.packets = packets /\ request.wire = Wire(packets) /\ request.whole
            /\ request.declared = Len(Wire(packets))
        BY <3>3 DEF Request
      <4> QED
        BY <3>2, <4>1 DEF IsRequest, NoLength
    <3>4. CASE \E declared \in NoLength .. Len(Wire(packets)) + 1 : request = Request(packets, declared, FALSE)
      <4>1. PICK declared \in NoLength .. Len(Wire(packets)) + 1 : request = Request(packets, declared, FALSE)
        BY <3>4
      <4>2. /\ request.packets = packets /\ request.wire = Wire(packets) /\ ~request.whole
            /\ request.declared = declared
        BY <4>1 DEF Request
      <4> QED
        BY <3>2, <4>2 DEF IsRequest, NoLength
    <3> QED
      BY <3>1, <3>3, <3>4
  <2>2. edge = "head" /\ offset = 0 /\ stdin = NoGit /\ answer = 0
    BY DEF EdgeInit, EdgeStart
  <2>3. EdgeHolds(request, "head", prefix, 0, NoGit, 0)
    BY <2>1 DEF EdgeHolds
  <2> QED
    BY <2>2, <2>3 DEF EdgeInv
<1>2. EdgeInv /\ [EdgeNext]_edgeVars => EdgeInv'
  <2> SUFFICES ASSUME EdgeInv, [EdgeNext]_edgeVars PROVE EdgeInv'
    OBVIOUS
  <2>1. ASSUME NEW n \in 0 .. Len(request.wire), ReadHead(n) PROVE EdgeInv'
    BY <2>1, ReadHeadKeepsEdge
  <2>2. CASE HeadCutShort
    BY <2>2, HeadCutShortKeepsEdge
  <2>3. CASE WholeBody
    BY <2>3, WholeBodyKeepsEdge
  <2>4. ASSUME NEW cause, Admit(cause) PROVE EdgeInv'
    BY <2>4, AdmitKeepsEdge
  <2>5. CASE Scan
    BY <2>5, ScanKeepsEdge
  <2>6. CASE ReadMore
    BY <2>6, ReadMoreKeepsEdge
  <2>7. CASE Judge
    BY <2>7, JudgeKeepsEdge
  <2>8. ASSUME NEW n \in 0 .. Len(request.wire), NEW ok \in BOOLEAN, Pump(n, ok) PROVE EdgeInv'
    BY <2>8, PumpKeepsEdge
  <2>10. ASSUME NEW cause, Spawn(cause) PROVE EdgeInv'
    BY <2>10, SpawnKeepsEdge
  <2>9. CASE UNCHANGED edgeVars
    BY <2>9 DEF EdgeInv, edgeVars
  <2> QED
    BY <2>1, <2>2, <2>3, <2>4, <2>5, <2>6, <2>7, <2>8, <2>9, <2>10 DEF EdgeNext
<1> QED
  BY <1>1, <1>2, PTL DEF EdgeSpec

\* What the invariant says of a push git was given.
LEMMA HandedIsJudged ==
    ASSUME IsRequest(request), Handed(request, edge, prefix, offset, stdin)
    PROVE  LET body == SubSeq(request.wire, 1, Min({request.declared, Len(request.wire)}))
               found == BeforeFlush(request.packets) IN
           /\ IsPrefix(stdin, body)
           /\ edge = "ended" => stdin = body
           /\ ReceivePackCommands(Prelude) = CommandsOf(request.packets, found)
           /\ \A i \in found : request.packets[i].ref # Main
           /\ ~request.whole => Flush \in ToSet(request.packets)
<1>1. /\ HasRead(request, prefix) /\ (~request.whole => Cleared(request, prefix, offset))
      /\ Policy(Asked(request, prefix, offset)) = "none"
  BY DEF Handed, Passed
<1>2. PICK m \in Nat : /\ m <= request.declared /\ m <= Len(request.wire) /\ stdin = SubSeq(request.wire, 1, m)
                       /\ edge = "ended" => m = request.declared
  BY DEF Handed
<1>3. PICK S : request.wire \in Seq(S) /\ Len(request.wire) \in Nat
  BY WireIsWhole DEF IsRequest
<1>4. PICK d \in Int, l \in Nat : d = request.declared /\ l = Len(request.wire)
  BY <1>3 DEF IsRequest
<1>5. PICK b \in Nat : /\ b = Min({request.declared, Len(request.wire)}) /\ m <= b /\ b <= l
                       /\ edge = "ended" => m = b
  <2>1. Min({d, l}) \in {d, l} /\ Min({d, l}) <= d /\ Min({d, l}) <= l
    BY LeastOfTwo
  <2>2. PICK b \in {d, l} : b = Min({d, l}) /\ b <= d /\ b <= l
    BY <2>1
  <2>3. m <= d /\ m <= l
    BY <1>2, <1>4
  <2>4. b \in Nat /\ m <= b
    BY <2>2, <2>3
  <2>5. m = d \/ m = l => m = b
    BY <2>2, <2>3
  <2> QED
    BY <1>2, <1>4, <2>2, <2>4, <2>5
<1>6. IsPrefix(stdin, SubSeq(request.wire, 1, b))
  BY <1>2, <1>3, <1>4, <1>5, PrefixesGlue
<1>7. edge = "ended" => stdin = SubSeq(request.wire, 1, b)
  BY <1>2, <1>5
<1>8. PICK start : \E e \in Nat :
         Laid(request.packets, request.wire, start)
            /\ Covers(request.packets, request.wire, start, e, Asked(request, prefix, offset))
  BY <1>1, CutCovers, WholeCovers
<1>9. PICK e \in Nat :
         Laid(request.packets, request.wire, start)
            /\ Covers(request.packets, request.wire, start, e, Asked(request, prefix, offset))
  BY <1>8
<1>10. Prelude = Asked(request, prefix, offset)
  BY DEF Prelude, Asked
<1>11. PICK cells : cells = Asked(request, prefix, offset)
  OBVIOUS
<1>12. /\ ReceivePackCommands(cells) = CommandsOf(request.packets, BeforeFlush(request.packets))
       /\ \A i \in BeforeFlush(request.packets) : request.packets[i].ref # Main
  <2>1. request.packets \in Preludes
    BY DEF IsRequest
  <2> QED
    BY <1>1, <1>9, <1>11, <2>1, Judged
<1>13. ASSUME ~request.whole PROVE Flush \in ToSet(request.packets)
  <2>1. PICK other : \E k \in Nat : EndsAt(request, prefix, offset, other, k)
    BY <1>1, <1>13 DEF Cleared
  <2>2. PICK k \in Nat : EndsAt(request, prefix, offset, other, k)
    BY <2>1
  <2>3. DOMAIN request.packets = 1 .. Len(request.packets)
    BY WhatIsSent DEF IsRequest
  <2> QED
    BY <2>2, <2>3 DEF EndsAt, ToSet
<1> QED
  BY <1>5, <1>6, <1>7, <1>10, <1>11, <1>12, <1>13

\* However a push arrives, what git is given is the client's own bytes in order,
\* its commands were all judged and none names main; whoever is refused, or is
\* told 500 of a body that streams, never reached git (read_receive_pack_prefix,
\* prepare_streaming_rpc, ensure_receive_pack_policy, error_response).
THEOREM PushesAreJudged == EdgeSpec => []GitGetsWhatWasJudged
<1>1. EdgeInv => GitGetsWhatWasJudged
  <2> SUFFICES ASSUME EdgeInv PROVE GitGetsWhatWasJudged
    OBVIOUS
  <2>1. /\ request.whole /\ answer = 200 => stdin = request.wire
        /\ answer \in {401, 403, 411, 503} \/ (answer = 500 /\ ~request.whole) => stdin = NoGit
    <3>1. stdin # NoGit => Told(request, edge, answer)
      BY DEF EdgeInv, EdgeHolds
    <3>2. stdin # NoGit => answer \in {0, 200, 500} /\ (answer = 500 => request.whole)
      BY <3>1 DEF Told
    <3> QED
      BY <3>2 DEF EdgeInv, EdgeHolds
  <2>2. ASSUME stdin # NoGit PROVE IsRequest(request) /\ Handed(request, edge, prefix, offset, stdin)
    <3> QED
      BY <2>2 DEF EdgeInv, EdgeHolds
  <2> QED
    BY <2>1, <2>2, HandedIsJudged DEF GitGetsWhatWasJudged
<1> QED
  BY <1>1, EdgeInvIsInductive, PTL

----------------------------------------------------------------------------
(* The rows of a state.  The invariant is that the rows show a state: while    *)
(* the file is open the one in memory, exactly; while it is closed some state, *)
(* of which another release may have loosened values and dropped counters.     *)
(* A mutation leads to a state that may follow, and that is persisted without  *)
(* meeting a unique index or a foreign key, or to one that cannot be staged;   *)
(* an open makes of the rows a state they show, and of that the repaired one.  *)

MapTables == GlobalTables \cup ScopedTables
AllSlugs == RowSlugs \cup {NoSlug}

MapRow(s, e) ==
    [table |-> e.table, key |-> <<RowRepo(s, e.slug), e.key>>, repo |-> RowRepo(s, e.slug),
     val |-> e.val, pos |-> 0]
ListRow(s, l, i) ==
    [table |-> l[1], key |-> <<NoSlug, s.lists[l][i].id>>, repo |-> RowRepo(s, l[2]),
     val |-> s.lists[l][i].val, pos |-> i]
RepoRow(s, a) ==
    [table |-> "repositories", key |-> <<NoSlug, s.repos[a]>>, repo |-> NoSlug, val |-> a, pos |-> 0]
CountRow(s, a) ==
    [table |-> "repo_counters", key |-> <<s.repos[a], "next">>, repo |-> s.repos[a],
     val |-> IF s.counters[a] = NoCount THEN 1 ELSE s.counters[a] + 1, pos |-> 0]

\* What is staged, whatever the function of the code that stages it.
Staged(s, d) ==
    \/ \E e \in s.maps : e.table \in MapTables /\ d = MapRow(s, e)
    \/ \E l \in DOMAIN s.lists : l[1] \in ListTables /\ \E i \in DOMAIN s.lists[l] : d = ListRow(s, l, i)
    \/ \E a \in RowSlugs : s.repos[a] # NoUuid /\ (d = RepoRow(s, a) \/ d = CountRow(s, a))

\* A staged row of a map, by the entry it stands for.
LEMMA StagesMaps ==
    ASSUME NEW s, NEW T
    PROVE  \A d : d \in StagedMaps(s, T) <=> \E e \in s.maps : e.table \in T /\ d = MapRow(s, e)
  BY DEF StagedMaps, MapRow

\* A staged row of a list, by the place of its entry.
LEMMA StagesLists ==
    ASSUME NEW s, NEW T
    PROVE  \A d : d \in StagedLists(s, T) <=>
                \E l \in DOMAIN s.lists : l[1] \in T /\ \E i \in DOMAIN s.lists[l] : d = ListRow(s, l, i)
  BY DEF StagedLists, ListRow

\* stage_state stages exactly these rows.
LEMMA StageIs ==
    ASSUME NEW s
    PROVE  \A d : d \in StageState(s) <=> Staged(s, d)
<1> TAKE d
<1> DEFINE M(T) == \E e \in s.maps : e.table \in T /\ d = MapRow(s, e)
           L(T) == \E l \in DOMAIN s.lists : l[1] \in T /\ \E i \in DOMAIN s.lists[l] : d = ListRow(s, l, i)
<1>1. /\ d \in StageAccounts(s) <=> M(AccountTables)
      /\ d \in StageBots(s) <=> M(BotTables) \/ L({"bot_activity"})
      /\ d \in StageConnections(s) <=> M({"provider_connections"})
      /\ d \in StageAccessTokens(s) <=> M({"bot_access_tokens"})
      /\ d \in StageBotGrants(s) <=> M({"bot_repo_grants"})
      /\ d \in StageRecoveries(s) <=> M({"password_recovery_tokens"})
      /\ d \in StageMembers(s) <=> M(MemberTables)
      /\ d \in StageMoves(s) <=> M(MoveTables)
      /\ d \in StageTracker(s) <=> M(TrackerTables) \/ L({"issue_comments"})
      /\ d \in StagePulls(s) <=> M({"pull_requests"}) \/ L({"reviews", "review_comments"})
      /\ d \in StageRules(s) <=> M(RuleTables)
      /\ d \in StageChecks(s) <=> L({"commit_statuses", "check_runs", "jankurai_scores"})
      /\ d \in StageHooks(s) <=> L({"webhooks", "webhook_deliveries"})
  <2> HIDE DEF M, L
  <2>1. \A T : d \in StagedMaps(s, T) <=> M(T)
    BY StagesMaps DEF M
  <2>2. \A T : d \in StagedLists(s, T) <=> L(T)
    BY StagesLists DEF L
  <2> QED
    BY <2>1, <2>2 DEF StageAccounts, StageBots, StageConnections, StageAccessTokens, StageBotGrants,
         StageRecoveries, StageMembers, StageMoves, StageTracker, StagePulls, StageRules, StageChecks, StageHooks
<1>2. /\ d \in StageRepositories(s) <=> \E a \in RowSlugs : s.repos[a] # NoUuid /\ d = RepoRow(s, a)
      /\ d \in StageCounters(s) <=> \E a \in RowSlugs : s.repos[a] # NoUuid /\ d = CountRow(s, a)
  BY DEF StageRepositories, StageCounters, RepoRow, CountRow
<1>3. M(MapTables) <=> \/ M(AccountTables) \/ M(BotTables) \/ M({"provider_connections"})
                       \/ M({"bot_access_tokens"}) \/ M({"bot_repo_grants"})
                       \/ M({"password_recovery_tokens"}) \/ M(MemberTables) \/ M(MoveTables)
                       \/ M(TrackerTables) \/ M({"pull_requests"}) \/ M(RuleTables)
  <2>1. \A T : T \in MapTables <=>
           \/ T \in AccountTables \/ T \in BotTables \/ T \in {"provider_connections"}
           \/ T \in {"bot_access_tokens"} \/ T \in {"bot_repo_grants"}
           \/ T \in {"password_recovery_tokens"} \/ T \in MemberTables \/ T \in MoveTables
           \/ T \in TrackerTables \/ T \in {"pull_requests"} \/ T \in RuleTables
    BY DEF MapTables, GlobalTables, ScopedTables
  <2> QED BY <2>1
<1>4. L(ListTables) <=> \/ L({"bot_activity"}) \/ L({"issue_comments"}) \/ L({"reviews", "review_comments"})
                        \/ L({"commit_statuses", "check_runs", "jankurai_scores"})
                        \/ L({"webhooks", "webhook_deliveries"})
  <2>1. \A T : T \in ListTables <=>
           \/ T \in {"bot_activity"} \/ T \in {"issue_comments"} \/ T \in {"reviews", "review_comments"}
           \/ T \in {"commit_statuses", "check_runs", "jankurai_scores"} \/ T \in {"webhooks", "webhook_deliveries"}
    BY DEF ListTables
  <2> QED BY <2>1
<1>5. Staged(s, d) <=> \/ M(MapTables) \/ L(ListTables)
                       \/ \E a \in RowSlugs : s.repos[a] # NoUuid /\ d = RepoRow(s, a)
                       \/ \E a \in RowSlugs : s.repos[a] # NoUuid /\ d = CountRow(s, a)
  BY DEF Staged
<1> HIDE DEF M, L
<1> QED BY <1>1, <1>2, <1>3, <1>4, <1>5 DEF StageState

\* No table is of two kinds.
LEMMA TablesApart ==
    /\ \A x \in MapTables : x \notin ListTables /\ x # "repositories" /\ x # "repo_counters"
    /\ \A x \in ListTables : x # "repositories" /\ x # "repo_counters"
    /\ "issues" \in MapTables /\ "pull_requests" \in MapTables /\ "branch_protection_rules" \in MapTables
    /\ \A x \in Reserving : x \in GlobalTables /\ x \in MapTables /\ x \notin DOMAIN Parents
    /\ \A x \in {"issues", "pull_requests", "branch_protection_rules"} : x \notin GlobalTables /\ x \notin Reserving
    /\ \A x \in DOMAIN Parents : x \in MapTables
    /\ "issues" \notin DOMAIN Parents /\ "branch_protection_rules" \notin DOMAIN Parents
    /\ \A x : x \in {"repositories", "repo_counters"} => x \notin Reserving /\ x \notin DOMAIN Parents
    /\ \A x \in ListTables : x \notin Reserving /\ x \notin DOMAIN Parents
  BY DEF Reserving, Parents,  MapTables, ListTables, GlobalTables, ScopedTables, AccountTables, BotTables, MemberTables,
         MoveTables, TrackerTables, RuleTables

----------------------------------------------------------------------------
(* What the calls of the program make of a state *)

\* What belongs to the slug has an id to be staged with.
HasRepo(s, slug) == slug = NoSlug \/ (slug \in RowSlugs /\ s.repos[slug] # NoUuid)

Entries == [id : RowKeys, val : Nat]

IsState(s) ==
    /\ s = [repos |-> s.repos, maps |-> s.maps, lists |-> s.lists, counters |-> s.counters]
    /\ s.repos \in [RowSlugs -> RepoUuids \cup {NoUuid}]
    /\ s.lists \in [UsedLists \X AllSlugs -> Seq(Entries)]
    /\ s.counters \in [RowSlugs -> Nat \cup {NoCount}]

\* A repository has one slug.
ReposNormal(s) ==
    \A a, b \in RowSlugs : s.repos[a] = s.repos[b] /\ s.repos[a] # NoUuid => a = b

\* It has a counter, of at most n.
CountersNormal(s, n) ==
    \A a \in RowSlugs : (s.counters[a] = NoCount <=> s.repos[a] = NoUuid) /\ s.counters[a] <= n

SameEntry(e, f) == e.table = f.table /\ e.slug = f.slug /\ e.key = f.key

EntryNormal(s, e) ==
    /\ e = [table |-> e.table, slug |-> e.slug, key |-> e.key, val |-> e.val]
    /\ e.table \in MapTables /\ HasRepo(s, e.slug) /\ e.val \notin {"unsealed", ""}
    /\ e.table \in GlobalTables => e.slug = NoSlug
    /\ e.table = "issues" => e.slug \in RowSlugs /\ e.key \in Nat /\ e.key <= s.counters[e.slug]

\* A name is reserved once, and a child has its parent.
ReservedOnce(M) ==
    \A e, f \in M : e.table \in Reserving /\ f.table = e.table /\ e.val = f.val /\ e.val # "revoked" => e = f
HaveParents(M) ==
    \A e \in M : e.table \in DOMAIN Parents =>
        \E f \in M : f.table = Parents[e.table] /\ f.slug = e.slug /\ f.key = e.key

\* A key is in a map once.
MapsNormal(s) ==
    /\ \A e \in s.maps : EntryNormal(s, e)
    /\ \A e, f \in s.maps : SameEntry(e, f) => e = f
    /\ ReservedOnce(s.maps) /\ HaveParents(s.maps)

ListNormal(s, l, n) ==
    /\ Len(s.lists[l]) <= n /\ (s.lists[l] # <<>> => HasRepo(s, l[2]))
    /\ l[1] = "check_runs" => \A i \in DOMAIN s.lists[l] : s.lists[l][i].val # 0
    /\ l[1] = "bot_activity" /\ s.lists[l] # <<>> => l[2] = NoSlug
    /\ l = <<"bot_activity", NoSlug>> =>
          \A i, j \in DOMAIN s.lists[l] : s.lists[l][i].val = s.lists[l][j].val => i = j

\* An id is in the lists of a table once; no two events have one time.
ListsNormal(s, n) ==
    /\ \A l \in DOMAIN s.lists : ListNormal(s, l, n)
    /\ \A l, m \in DOMAIN s.lists : \A i \in DOMAIN s.lists[l], j \in DOMAIN s.lists[m] :
          l[1] = m[1] /\ s.lists[l][i].id = s.lists[m][j].id => l = m /\ i = j

\* A state after n mutations.
Normal(s, n) ==
    IsState(s) /\ ReposNormal(s) /\ CountersNormal(s, n) /\ MapsNormal(s) /\ ListsNormal(s, n)

\* Ids stand for slugs and back.
LEMMA IdOfSlug ==
    ASSUME NEW s, IsState(s), ReposNormal(s), NEW a, NEW b, HasRepo(s, a), HasRepo(s, b)
    PROVE  /\ RowRepo(s, a) # NoUuid /\ (RowRepo(s, a) = NoSlug <=> a = NoSlug)
           /\ RowRepo(s, a) = RowRepo(s, b) => a = b
  BY SnapshotRowsAssumption DEF IsState, ReposNormal, HasRepo, RowRepo, NoSlug, NoUuid

\* A list of a state and what it is made of.
LEMMA ListIs ==
    ASSUME NEW s, IsState(s), NEW l \in DOMAIN s.lists
    PROVE  /\ l \in UsedLists \X AllSlugs /\ l[1] \in ListTables /\ l[1] \in UsedLists /\ l[2] \in AllSlugs
           /\ l = <<l[1], l[2]>>
           /\ s.lists[l] \in Seq(Entries) /\ Len(s.lists[l]) \in Nat /\ DOMAIN s.lists[l] = 1 .. Len(s.lists[l])
           /\ \A i \in DOMAIN s.lists[l] : i \in Nat \ {0} /\ i \in 1 .. Len(s.lists[l])
                 /\ s.lists[l][i] \in Entries /\ s.lists[l][i].id \in RowKeys /\ s.lists[l][i].val \in Nat
                 /\ s.lists[l][i] = [id |-> s.lists[l][i].id, val |-> s.lists[l][i].val]
<1>1. l \in UsedLists \X AllSlugs /\ s.lists[l] \in Seq(Entries)
  BY DEF IsState
<1>2. l[1] \in ListTables
  BY <1>1, SnapshotRowsAssumption
<1>3. Len(s.lists[l]) \in Nat /\ DOMAIN s.lists[l] = 1 .. Len(s.lists[l])
  BY <1>1
<1>4. \A i \in DOMAIN s.lists[l] : s.lists[l][i] \in Entries /\ i \in Nat \ {0}
  BY <1>1, <1>3
<1>5. \A c \in Entries : c = [id |-> c.id, val |-> c.val] /\ c.id \in RowKeys /\ c.val \in Nat
  BY DEF Entries
<1> QED BY <1>1, <1>2, <1>3, <1>4, <1>5

\* Staging never meets a slug without its repository, nor two rows with one key.
LEMMA NormalIsStaged ==
    ASSUME NEW s, NEW n \in Nat, Normal(s, n)
    PROVE  /\ \A d \in StageState(s) : d.repo # NoUuid
           /\ \A x, y \in StageState(s) : SameRow(x, y) => x = y
<1> USE DEF Normal
<1>1. ASSUME NEW d, Staged(s, d)
      PROVE  /\ d.repo # NoUuid
             /\ \/ \E e \in s.maps : e.table \in MapTables /\ HasRepo(s, e.slug) /\ d = MapRow(s, e)
                \/ \E l \in DOMAIN s.lists : l[1] \in ListTables /\ HasRepo(s, l[2])
                      /\ \E i \in DOMAIN s.lists[l] : d = ListRow(s, l, i)
                \/ \E a \in RowSlugs : s.repos[a] # NoUuid /\ d = RepoRow(s, a)
                \/ \E a \in RowSlugs : s.repos[a] # NoUuid /\ d = CountRow(s, a)
  <2>1. CASE \E e \in s.maps : e.table \in MapTables /\ d = MapRow(s, e)
    <3>1. PICK e \in s.maps : e.table \in MapTables /\ d = MapRow(s, e)
      BY <2>1
    <3>2. HasRepo(s, e.slug)
      BY DEF MapsNormal, EntryNormal
    <3>3. d.repo = RowRepo(s, e.slug)
      BY <3>1 DEF MapRow
    <3> QED BY <3>1, <3>2, <3>3, IdOfSlug
  <2>2. CASE \E l \in DOMAIN s.lists : l[1] \in ListTables /\ \E i \in DOMAIN s.lists[l] : d = ListRow(s, l, i)
    <3>1. PICK l \in DOMAIN s.lists : l[1] \in ListTables /\ \E i \in DOMAIN s.lists[l] : d = ListRow(s, l, i)
      BY <2>2
    <3>2. PICK i \in DOMAIN s.lists[l] : d = ListRow(s, l, i)
      BY <3>1
    <3>3. s.lists[l] # <<>>
      BY <3>2
    <3>4. HasRepo(s, l[2])
      BY <3>3 DEF ListsNormal, ListNormal
    <3>5. d.repo = RowRepo(s, l[2])
      BY <3>2 DEF ListRow
    <3> QED BY <3>1, <3>2, <3>4, <3>5, IdOfSlug
  <2>3. CASE \E a \in RowSlugs : s.repos[a] # NoUuid /\ (d = RepoRow(s, a) \/ d = CountRow(s, a))
    <3>1. PICK a \in RowSlugs : s.repos[a] # NoUuid /\ (d = RepoRow(s, a) \/ d = CountRow(s, a))
      BY <2>3
    <3>2. d.repo = NoSlug \/ d.repo = s.repos[a]
      BY <3>1 DEF RepoRow, CountRow
    <3>3. NoSlug # NoUuid
      BY DEF NoSlug, NoUuid
    <3> QED BY <3>1, <3>2, <3>3
  <2> QED BY <1>1, <2>1, <2>2, <2>3 DEF Staged
<1>2. ASSUME NEW x, NEW y, Staged(s, x), Staged(s, y), SameRow(x, y)
      PROVE  x = y
  <2> USE <1>2, TablesApart
  <2>1. ASSUME NEW e \in s.maps, e.table \in MapTables, HasRepo(s, e.slug), x = MapRow(s, e)
        PROVE  x = y
    <3>1. PICK f \in s.maps : f.table \in MapTables /\ HasRepo(s, f.slug) /\ y = MapRow(s, f)
      BY <1>1, <2>1 DEF SameRow, MapRow, ListRow, RepoRow, CountRow
    <3>2. e.table = f.table /\ RowRepo(s, e.slug) = RowRepo(s, f.slug) /\ e.key = f.key
      BY <2>1, <3>1 DEF SameRow, MapRow
    <3>3. e.slug = f.slug
      BY <2>1, <3>1, <3>2, IdOfSlug
    <3>4. e = f
      BY <3>2, <3>3 DEF MapsNormal, SameEntry
    <3> QED BY <2>1, <3>1, <3>4
  <2>2. ASSUME NEW l \in DOMAIN s.lists, l[1] \in ListTables, NEW i \in DOMAIN s.lists[l], x = ListRow(s, l, i)
        PROVE  x = y
    <3>1. PICK m \in DOMAIN s.lists : m[1] \in ListTables /\ \E j \in DOMAIN s.lists[m] : y = ListRow(s, m, j)
      BY <1>1, <2>2 DEF SameRow, MapRow, ListRow, RepoRow, CountRow
    <3>2. PICK j \in DOMAIN s.lists[m] : y = ListRow(s, m, j)
      BY <3>1
    <3>3. l[1] = m[1] /\ s.lists[l][i].id = s.lists[m][j].id
      BY <2>2, <3>2 DEF SameRow, ListRow
    <3>4. l = m /\ i = j
      BY <3>3 DEF ListsNormal
    <3> QED BY <2>2, <3>2, <3>4
  <2>3. ASSUME NEW a \in RowSlugs, s.repos[a] # NoUuid, x = RepoRow(s, a)
        PROVE  x = y
    <3>1. PICK b \in RowSlugs : s.repos[b] # NoUuid /\ y = RepoRow(s, b)
      BY <1>1, <2>3 DEF SameRow, MapRow, ListRow, RepoRow, CountRow
    <3>2. s.repos[a] = s.repos[b]
      BY <2>3, <3>1 DEF SameRow, RepoRow
    <3>3. a = b
      BY <2>3, <3>2 DEF ReposNormal
    <3> QED BY <2>3, <3>1, <3>3
  <2>4. ASSUME NEW a \in RowSlugs, s.repos[a] # NoUuid, x = CountRow(s, a)
        PROVE  x = y
    <3>1. PICK b \in RowSlugs : s.repos[b] # NoUuid /\ y = CountRow(s, b)
      BY <1>1, <2>4 DEF SameRow, MapRow, ListRow, RepoRow, CountRow
    <3>2. s.repos[a] = s.repos[b]
      BY <2>4, <3>1 DEF SameRow, CountRow
    <3>3. a = b
      BY <2>4, <3>2 DEF ReposNormal
    <3> QED BY <2>4, <3>1, <3>3
  <2> QED BY <1>1, <2>1, <2>2, <2>3, <2>4
<1> QED BY <1>1, <1>2, StageIs

----------------------------------------------------------------------------
(* The rows of a file and the state they show *)

IsRow(r) ==
    /\ r = [table |-> r.table, key |-> r.key, repo |-> r.repo, val |-> r.val, foreign |-> r.foreign,
            rowid |-> r.rowid]
    /\ r.rowid \in Nat

\* What another release leaves in place of a value.
Loosened(r) ==
    \/ r.table = "check_runs" /\ r.val = 0
    \/ r.table = "bot_operations" /\ r.val = "unsealed"
    \/ r.table = "pull_requests" /\ r.val = ""

Agrees(r, d) == SameRow(r, d) /\ r.repo = d.repo /\ (r.val = d.val \/ Loosened(r))

Bounded(rs) == \E b \in Nat : \A r \in rs : r.rowid <= b

\* The rows of a list stand in its order, but for events.
InOrder(rs, s) ==
    \A l \in DOMAIN s.lists : \A i, j \in DOMAIN s.lists[l] : l[1] # "bot_activity" /\ i < j =>
        \A x, y \in rs : SameRow(x, ListRow(s, l, i)) /\ SameRow(y, ListRow(s, l, j)) => x.rowid < y.rowid

\* Each row is one of the state, each of the state is there, but for counters.
Shown(rs, s) ==
    /\ \A r \in rs : IsRow(r)
    /\ Bounded(rs)
    /\ \A x, y \in rs : SameRow(x, y) => x = y
    /\ \A r \in rs : \E d \in StageState(s) : Agrees(r, d)
    /\ \A d \in StageState(s) : d.table # "repo_counters" => \E r \in rs : SameRow(r, d)
    /\ InOrder(rs, s)

\* As it is once the state was persisted.
Exact(rs, s) ==
    /\ Shown(rs, s)
    /\ \A r \in rs : \A d \in StageState(s) : SameRow(r, d) => r.val = d.val
    /\ \A d \in StageState(s) : \E r \in rs : SameRow(r, d)

\* What of a state may come after what: a slug is taken from nobody, what
\* reserves a name keeps it or lets go, entries stay before those they were
\* before, and with their repository.
SlugsFollow(s, t) ==
    \A a \in RowSlugs : t.repos[a] # NoUuid => s.repos[a] = NoUuid \/ s.repos[a] = t.repos[a]

ReservedFollow(M, N) ==
    \A e \in M, f \in N : e.table \in Reserving /\ f.table = e.table /\ e.key = f.key =>
        f.val = e.val \/ f.val = "revoked"

ListsFollow(s, t) ==
    \A l \in DOMAIN t.lists : \A i, j \in DOMAIN t.lists[l] : l[1] # "bot_activity" /\ i < j =>
        \A m \in DOMAIN s.lists : \A k \in DOMAIN s.lists[m] :
            m[1] = l[1] /\ s.lists[m][k].id = t.lists[l][j].id =>
                \E h \in DOMAIN s.lists[m] : h < k /\ s.lists[m][h].id = t.lists[l][i].id

ReposFollow(s, t) ==
    \A l \in DOMAIN t.lists, m \in DOMAIN s.lists : \A i \in DOMAIN t.lists[l], k \in DOMAIN s.lists[m] :
        m[1] = l[1] /\ s.lists[m][k].id = t.lists[l][i].id => RowRepo(s, m[2]) = RowRepo(t, l[2])

Follows(s, t) ==
    SlugsFollow(s, t) /\ ReservedFollow(s.maps, t.maps) /\ ListsFollow(s, t) /\ ReposFollow(s, t)

----------------------------------------------------------------------------
(* Applying a state to the rows of the one before *)

\* A set of numbers with a bound has a largest.
LEMMA LargestOf ==
    ASSUME NEW S, S \subseteq Nat, S # {}, NEW b \in Nat, \A x \in S : x <= b
    PROVE  Max(S) \in S /\ \A x \in S : x <= Max(S)
<1> DEFINE T == {c \in Nat : \A x \in S : x <= c}
<1>1. PICK m \in T : \A c \in T : m <= c
  <2>1. b \in T
    OBVIOUS
  <2>2. T \subseteq Nat /\ T # {}
    BY <2>1
  <2> HIDE DEF T
  <2> QED BY <2>2, LeastNumber
<1>2. m \in Nat /\ \A x \in S : x <= m
  BY <1>1
<1>3. m \in S
  <2>1. SUFFICES ASSUME m \notin S PROVE FALSE
    OBVIOUS
  <2>2. PICK x \in S : TRUE
    OBVIOUS
  <2>3. x \in Nat /\ x <= m /\ x # m
    BY <1>2, <2>1
  <2>4. m - 1 \in Nat /\ ~(m <= m - 1)
    BY <1>2, <2>3
  <2>5. \A y \in S : y <= m - 1
    BY <1>2, <2>1
  <2>6. m - 1 \in T
    BY <2>4, <2>5
  <2> QED BY <1>1, <2>4, <2>6
<1>4. \A x \in S : m >= x
  BY <1>2
<1> HIDE DEF T
<1>5. Max(S) \in S /\ \A x \in S : Max(S) >= x
  BY <1>3, <1>4 DEF Max
<1> QED BY <1>5

\* The number of the last row of a table.
LEMMA LastIs ==
    ASSUME NEW rs, Bounded(rs), \A r \in rs : IsRow(r)
    PROVE  \E b \in Nat : \A t :
              /\ LastRowid(rs, t) \in Nat /\ LastRowid(rs, t) <= b
              /\ \A r \in rs : r.rowid <= b /\ (r.table = t => r.rowid <= LastRowid(rs, t))
<1>1. PICK b \in Nat : \A r \in rs : r.rowid <= b
  BY DEF Bounded
<1>2. ASSUME NEW t
      PROVE  /\ LastRowid(rs, t) \in Nat /\ LastRowid(rs, t) <= b
             /\ \A r \in rs : r.table = t => r.rowid <= LastRowid(rs, t)
  <2> DEFINE S == {0} \cup {r.rowid : r \in {x \in rs : x.table = t}}
  <2>1. S \subseteq Nat /\ S # {} /\ \A x \in S : x <= b
    BY <1>1 DEF IsRow
  <2>2. \A r \in rs : r.table = t => r.rowid \in S
    OBVIOUS
  <2>3. LastRowid(rs, t) = Max(S)
    BY DEF LastRowid
  <2> HIDE DEF S
  <2>4. Max(S) \in S /\ \A x \in S : x <= Max(S)
    BY <2>1, LargestOf
  <2> QED BY <2>1, <2>2, <2>3, <2>4
<1> QED BY <1>1, <1>2

\* To have one key is an equivalence.
LEMMA SameRows ==
    \A x, y, z : /\ SameRow(x, x) /\ (SameRow(x, y) => SameRow(y, x))
                 /\ (SameRow(x, y) /\ SameRow(y, z) => SameRow(x, z))
  BY DEF SameRow

WasUpdated(rs, t, x) ==
    \E r \in rs, d \in StageState(t) :
        /\ SameRow(r, d)
        /\ x = [table |-> r.table, key |-> r.key, repo |-> d.repo, val |-> d.val, foreign |-> r.foreign,
                rowid |-> r.rowid]

WasInserted(rs, t, x) ==
    \E d \in StageState(t) :
        /\ \A r \in rs : ~SameRow(r, d)
        /\ x = [table |-> d.table, key |-> d.key, repo |-> d.repo, val |-> d.val, foreign |-> "default",
                rowid |-> LastRowid(rs, d.table) + d.pos + 1]

\* The update of a row.
LEMMA RowChanged ==
    ASSUME NEW r, IsRow(r), NEW v, NEW w
    PROVE  [r EXCEPT !.val = v, !.repo = w] =
              [table |-> r.table, key |-> r.key, repo |-> w, val |-> v, foreign |-> r.foreign, rowid |-> r.rowid]
<1>1. PICK a1, a2, a3, a4, a5, a6 :
        r = [table |-> a1, key |-> a2, repo |-> a3, val |-> a4, foreign |-> a5, rowid |-> a6]
  BY DEF IsRow
<1>2. r \in [table : {a1}, key : {a2}, repo : {a3}, val : {a4}, foreign : {a5}, rowid : {a6}]
  BY <1>1
<1>3. PICK q : q = [r EXCEPT !.val = v, !.repo = w]
  OBVIOUS
<1>4. q \in [table : {a1}, key : {a2}, repo : {w}, val : {v}, foreign : {a5}, rowid : {a6}]
  BY <1>2, <1>3
<1>5. q = [table |-> a1, key |-> a2, repo |-> w, val |-> v, foreign |-> a5, rowid |-> a6]
  BY <1>4
<1>6. r.table = a1 /\ r.key = a2 /\ r.foreign = a5 /\ r.rowid = a6
  BY <1>1
<1> QED BY <1>3, <1>5, <1>6

\* No row whose key is staged goes with its repository.
NoneCascades(rs, staged) ==
    \A r \in rs : (\E d \in staged : SameRow(r, d)) => r.repo = NoSlug \/ \E p \in staged : IsRepository(p, r.repo)

LEMMA KeptAre ==
    ASSUME NEW rs, NEW st, NoneCascades(rs, st)
    PROVE  Kept(rs, st) = {r \in rs : \E d \in st : SameRow(r, d)}
  BY DEF NoneCascades, Kept

\* What is made of the rows that stay, one by one.
LEMMA UpdatesAre ==
    ASSUME NEW rs, NEW t, NoneCascades(rs, StageState(t)), \A r \in rs : IsRow(r), \A x, y \in StageState(t) : SameRow(x, y) => x = y
    PROVE  \A x : x \in UpdatedRows(Kept(rs, StageState(t)), StageState(t)) <=> WasUpdated(rs, t, x)
<1> DEFINE st == StageState(t)
           New(r) == LET d == CHOOSE x \in st : SameRow(r, x) IN [r EXCEPT !.val = d.val, !.repo = d.repo]
<1>1. ASSUME NEW r \in rs, NEW d \in st, SameRow(r, d)
      PROVE  New(r) = [table |-> r.table, key |-> r.key, repo |-> d.repo, val |-> d.val, foreign |-> r.foreign,
                       rowid |-> r.rowid]
  <2>1. (CHOOSE x \in st : SameRow(r, x)) = d
    <3>1. \A x \in st : SameRow(r, x) => x = d
      BY <1>1, SameRows
    <3> QED BY <1>1, <3>1
  <2>2. New(r) = [r EXCEPT !.val = d.val, !.repo = d.repo]
    BY <2>1
  <2>3. IsRow(r)
    OBVIOUS
  <2>4. PICK v, w : v = d.val /\ w = d.repo
    OBVIOUS
  <2>5. [r EXCEPT !.val = v, !.repo = w] =
              [table |-> r.table, key |-> r.key, repo |-> w, val |-> v, foreign |-> r.foreign, rowid |-> r.rowid]
    BY <2>3, RowChanged
  <2> QED BY <2>2, <2>4, <2>5
<1>2. \A x : x \in UpdatedRows(Kept(rs, st), st) <=> \E r \in rs : (\E d \in st : SameRow(r, d)) /\ x = New(r)
  <2>1. Kept(rs, st) = {r \in rs : \E d \in st : SameRow(r, d)}
    BY KeptAre
  <2>2. UpdatedRows(Kept(rs, st), st) = {New(r) : r \in Kept(rs, st)}
    BY DEF UpdatedRows
  <2> HIDE DEF New
  <2> QED BY <2>1, <2>2
<1> HIDE DEF New
<1> TAKE x
<1>3. ASSUME NEW r \in rs, NEW d \in st, SameRow(r, d), x = New(r) PROVE WasUpdated(rs, t, x)
  BY <1>1, <1>3 DEF WasUpdated
<1>4. ASSUME WasUpdated(rs, t, x) PROVE \E r \in rs : (\E d \in st : SameRow(r, d)) /\ x = New(r)
  <2>1. PICK r \in rs, d \in st :
          /\ SameRow(r, d)
          /\ x = [table |-> r.table, key |-> r.key, repo |-> d.repo, val |-> d.val, foreign |-> r.foreign,
                  rowid |-> r.rowid]
    BY <1>4 DEF WasUpdated
  <2>2. x = New(r)
    BY <1>1, <2>1
  <2> QED BY <2>1, <2>2
<1> QED BY <1>2, <1>3, <1>4

\* What is made of the staged rows that were not there.
LEMMA InsertsAre ==
    ASSUME NEW rs, NEW t, NoneCascades(rs, StageState(t)), \A r \in rs : IsRow(r)
    PROVE  \A x : x \in InsertedRows(rs, StageState(t)) <=> WasInserted(rs, t, x)
<1> DEFINE st == StageState(t)
           New(d) == [table |-> d.table, key |-> d.key, repo |-> d.repo, val |-> d.val, foreign |-> "default",
                      rowid |-> LastRowid(rs, d.table) + d.pos + 1]
<1>1. \A x : x \in InsertedRows(rs, st) <=> \E d \in NewRows(rs, st) : x = New(d)
  BY DEF InsertedRows
<1>2. \A x : WasInserted(rs, t, x) <=> \E d \in st : (\A r \in rs : ~SameRow(r, d)) /\ x = New(d)
  BY DEF WasInserted
<1>3. \A d : d \in NewRows(rs, st) <=> d \in st /\ \A r \in rs : ~SameRow(r, d)
  BY KeptAre DEF NewRows
<1> HIDE DEF st, New
<1> QED BY <1>1, <1>2, <1>3 DEF st

\* A staged row by its table.
LEMMA StagedByTable ==
    ASSUME NEW s, NEW n \in Nat, Normal(s, n)
    PROVE  \A d \in StageState(s) :
             /\ d.table \in MapTables => \E e \in s.maps : HasRepo(s, e.slug) /\ d = MapRow(s, e)
             /\ d.table \in ListTables => \E l \in DOMAIN s.lists : HasRepo(s, l[2])
                                             /\ \E i \in DOMAIN s.lists[l] : d = ListRow(s, l, i)
             /\ d.table = "repositories" => \E a \in RowSlugs : s.repos[a] # NoUuid /\ d = RepoRow(s, a)
             /\ d.table = "repo_counters" => \E a \in RowSlugs : s.repos[a] # NoUuid /\ d = CountRow(s, a)
             /\ \/ d.table \in MapTables \/ d.table \in ListTables
                \/ d.table = "repositories" \/ d.table = "repo_counters"
             /\ d.pos \in Nat /\ d.pos <= n
<1> TAKE d \in StageState(s)
<1> USE TablesApart DEF Normal
<1>1. Staged(s, d)
  BY StageIs
<1>2. CASE \E e \in s.maps : e.table \in MapTables /\ d = MapRow(s, e)
  <2>1. PICK e \in s.maps : e.table \in MapTables /\ d = MapRow(s, e)
    BY <1>2
  <2>2. HasRepo(s, e.slug) /\ d.table = e.table /\ d.pos = 0
    BY <2>1 DEF MapsNormal, EntryNormal, MapRow
  <2> QED BY <2>1, <2>2
<1>3. CASE \E l \in DOMAIN s.lists : l[1] \in ListTables /\ \E i \in DOMAIN s.lists[l] : d = ListRow(s, l, i)
  <2>1. PICK l \in DOMAIN s.lists : l[1] \in ListTables /\ \E i \in DOMAIN s.lists[l] : d = ListRow(s, l, i)
    BY <1>3
  <2>2. PICK i \in DOMAIN s.lists[l] : d = ListRow(s, l, i)
    BY <2>1
  <2>3. s.lists[l] # <<>>
    BY <2>2
  <2>4. HasRepo(s, l[2]) /\ Len(s.lists[l]) <= n
    BY <2>3 DEF ListsNormal, ListNormal
  <2>5. d.table = l[1] /\ d.pos = i
    BY <2>2 DEF ListRow
  <2>6. i \in Nat /\ i <= Len(s.lists[l]) /\ Len(s.lists[l]) \in Nat
    BY <2>2, ListIs
  <2>7. i <= n
    BY <2>4, <2>6
  <2> QED BY <2>1, <2>2, <2>4, <2>5, <2>6, <2>7
<1>4. CASE \E a \in RowSlugs : s.repos[a] # NoUuid /\ (d = RepoRow(s, a) \/ d = CountRow(s, a))
  <2>1. PICK a \in RowSlugs : s.repos[a] # NoUuid /\ (d = RepoRow(s, a) \/ d = CountRow(s, a))
    BY <1>4
  <2>2. CASE d = RepoRow(s, a)
    <3>1. d.table = "repositories" /\ d.pos = 0
      BY <2>2 DEF RepoRow
    <3> QED BY <2>1, <2>2, <3>1
  <2>3. CASE d = CountRow(s, a)
    <3>1. d.table = "repo_counters" /\ d.pos = 0
      BY <2>3 DEF CountRow
    <3> QED BY <2>1, <2>3, <3>1
  <2> QED BY <2>1, <2>2, <2>3
<1> QED BY <1>1, <1>2, <1>3, <1>4 DEF Staged

\* A state may be persisted over its own rows, as an open does.
LEMMA FollowsItself ==
    ASSUME NEW s, NEW n \in Nat, Normal(s, n)
    PROVE  Follows(s, s)
<1> USE DEF Normal
<1>1. SlugsFollow(s, s)
  BY DEF SlugsFollow
<1>2. ReservedFollow(s.maps, s.maps)
  <2> SUFFICES ASSUME NEW e \in s.maps, NEW f \in s.maps, e.table \in Reserving,
                      f.table = e.table, e.key = f.key
               PROVE  f.val = e.val
    BY DEF ReservedFollow
  <2>1. e.slug = NoSlug /\ f.slug = NoSlug
    BY TablesApart DEF MapsNormal, EntryNormal
  <2>2. e = f
    BY <2>1 DEF MapsNormal, SameEntry
  <2> QED BY <2>2
<1>3. ListsFollow(s, s)
  <2> SUFFICES ASSUME NEW l \in DOMAIN s.lists, NEW i \in DOMAIN s.lists[l], NEW j \in DOMAIN s.lists[l], i < j,
                      NEW m \in DOMAIN s.lists, NEW k \in DOMAIN s.lists[m],
                      m[1] = l[1], s.lists[m][k].id = s.lists[l][j].id
               PROVE  \E h \in DOMAIN s.lists[m] : h < k /\ s.lists[m][h].id = s.lists[l][i].id
    BY DEF ListsFollow
  <2>1. m = l /\ k = j
    BY DEF ListsNormal
  <2> QED BY <2>1
<1>4. ReposFollow(s, s)
  BY DEF ListsNormal, ReposFollow
<1> QED BY <1>1, <1>2, <1>3, <1>4 DEF Follows

\* What is reserved by a row depends on its table and value.
LEMMA ReservesIs ==
    \A r, x : x \in Reserves(r) => /\ x = <<r.table, r.val>>
                                   /\ \/ r.table = "repositories"
                                      \/ r.table \in Reserving /\ r.val # "revoked"
  BY DEF Reserves

\* A staged row that reserves a name, by its entry.
LEMMA ReservingRow ==
    ASSUME NEW s, NEW n \in Nat, Normal(s, n), NEW d \in StageState(s), d.table \in Reserving
    PROVE  \E e \in s.maps : /\ e.table = d.table /\ e.slug = NoSlug /\ d = MapRow(s, e)
                             /\ d.key = <<NoSlug, e.key>> /\ d.val = e.val
<1>1. PICK e \in s.maps : d = MapRow(s, e)
  BY StagedByTable, TablesApart
<1>2. e.table = d.table /\ e.slug = NoSlug
  BY <1>1, TablesApart DEF Normal, MapsNormal, EntryNormal, MapRow
<1> QED BY <1>1, <1>2 DEF MapRow, RowRepo

\* A row on its way to a new value meets no other row in what it reserves.
LEMMA NothingTaken ==
    ASSUME NEW s, NEW t, NEW n \in Nat, Normal(s, n), Normal(t, n), Follows(s, t),
           NEW b \in StageState(s), NEW c \in StageState(s), NEW d \in StageState(t), NEW y,
           SameRow(b, d), Agrees(y, c), ~SameRow(b, c)
    PROVE  Reserves(d) \cap Reserves(y) = {}
<1> SUFFICES ASSUME NEW x, x \in Reserves(d), x \in Reserves(y) PROVE FALSE
  OBVIOUS
<1>1. d.table = y.table /\ d.val = y.val
  BY ReservesIs
<1>2. y.table = c.table /\ y.key = c.key /\ b.table = d.table /\ b.key = d.key
  BY DEF Agrees, SameRow
<1>3. CASE d.table = "repositories"
  <2>1. y.val = c.val
    BY <1>1, <1>3 DEF Agrees, Loosened
  <2>2. PICK a \in RowSlugs : t.repos[a] # NoUuid /\ d = RepoRow(t, a)
    BY <1>3, StagedByTable
  <2>3. PICK e \in RowSlugs : s.repos[e] # NoUuid /\ c = RepoRow(s, e)
    BY <1>1, <1>2, <1>3, StagedByTable
  <2>4. a = e
    BY <1>1, <2>1, <2>2, <2>3 DEF RepoRow
  <2>5. s.repos[a] = t.repos[a]
    BY <2>2, <2>3, <2>4 DEF Follows, SlugsFollow
  <2>6. c.key = d.key /\ c.table = d.table
    BY <2>2, <2>3, <2>4, <2>5 DEF RepoRow
  <2> QED BY <1>2, <2>6 DEF SameRow
<1>4. CASE d.table \in Reserving /\ d.val # "revoked"
  <2>1. y.val = c.val /\ c.table = d.table /\ b.table = d.table
    BY <1>1, <1>2, <1>4 DEF Agrees, Loosened, Reserving
  <2>2. PICK f \in t.maps : f.table = d.table /\ d.key = <<NoSlug, f.key>> /\ d.val = f.val
    BY <1>4, ReservingRow
  <2>3. PICK e \in s.maps : e.table = d.table /\ b = MapRow(s, e) /\ b.key = <<NoSlug, e.key>> /\ b.val = e.val
    BY <1>4, <2>1, ReservingRow
  <2>4. PICK g \in s.maps : g.table = d.table /\ c = MapRow(s, g) /\ c.val = g.val
    BY <1>4, <2>1, ReservingRow
  <2>5. e.key = f.key
    BY <1>2, <2>2, <2>3
  <2>6. f.val = e.val
    BY <1>4, <2>2, <2>3, <2>5 DEF Follows, ReservedFollow
  <2>7. e.val = g.val /\ e.val # "revoked"
    BY <1>1, <1>4, <2>1, <2>2, <2>4, <2>6
  <2>8. e = g
    BY <1>4, <2>3, <2>4, <2>7 DEF Normal, MapsNormal, ReservedOnce
  <2> QED BY <2>3, <2>4, <2>8, SameRows
<1> QED BY <1>3, <1>4, ReservesIs

\* The repository of a staged row is staged.
LEMMA RepositoryStaged ==
    ASSUME NEW t, NEW n \in Nat, Normal(t, n), NEW d \in StageState(t)
    PROVE  /\ d.repo = NoSlug \/ \E p \in StageState(t) : IsRepository(p, d.repo)
           /\ d.table \in GlobalTables \/ d.table \in {"bot_activity", "repositories"} => d.repo = NoSlug
<1> USE TablesApart DEF Normal
<1>1. ASSUME NEW a, HasRepo(t, a), d.repo = RowRepo(t, a)
      PROVE  d.repo = NoSlug \/ \E p \in StageState(t) : IsRepository(p, d.repo)
  <2>1. CASE a = NoSlug
    BY <1>1, <2>1 DEF RowRepo
  <2>2. CASE a # NoSlug
    <3>1. a \in RowSlugs /\ t.repos[a] # NoUuid /\ d.repo = t.repos[a]
      BY <1>1, <2>2 DEF HasRepo, RowRepo
    <3>2. RepoRow(t, a) \in StageState(t)
      BY <3>1, StageIs DEF Staged
    <3>3. IsRepository(RepoRow(t, a), d.repo)
      BY <3>1 DEF IsRepository, RepoRow
    <3> QED BY <3>2, <3>3
  <2> QED BY <2>1, <2>2
<1>2. CASE d.table \in MapTables
  <2>1. PICK e \in t.maps : HasRepo(t, e.slug) /\ d = MapRow(t, e)
    BY <1>2, StagedByTable
  <2>2. d.repo = RowRepo(t, e.slug) /\ d.table = e.table
    BY <2>1 DEF MapRow
  <2>3. d.table \in GlobalTables => d.repo = NoSlug
    BY <2>2 DEF MapsNormal, EntryNormal, RowRepo
  <2>4. d.table \notin {"bot_activity", "repositories"}
    BY <1>2 DEF ListTables
  <2> QED BY <1>1, <2>1, <2>2, <2>3, <2>4
<1>3. CASE d.table \in ListTables
  <2>1. PICK l \in DOMAIN t.lists : HasRepo(t, l[2]) /\ \E i \in DOMAIN t.lists[l] : d = ListRow(t, l, i)
    BY <1>3, StagedByTable
  <2>2. PICK i \in DOMAIN t.lists[l] : d = ListRow(t, l, i)
    BY <2>1
  <2>3. d.repo = RowRepo(t, l[2]) /\ d.table = l[1] /\ t.lists[l] # <<>>
    BY <2>2 DEF ListRow
  <2>4. d.table = "bot_activity" => d.repo = NoSlug
    BY <2>3 DEF ListsNormal, ListNormal, RowRepo
  <2>5. d.table \notin GlobalTables
    BY <1>3 DEF MapTables
  <2> QED BY <1>1, <1>3, <2>1, <2>3, <2>4, <2>5
<1>4. CASE d.table = "repositories"
  <2>1. d.repo = NoSlug
    BY <1>4, StagedByTable DEF RepoRow
  <2> QED BY <2>1
<1>5. CASE d.table = "repo_counters"
  <2>1. PICK a \in RowSlugs : t.repos[a] # NoUuid /\ d = CountRow(t, a)
    BY <1>5, StagedByTable
  <2>2. HasRepo(t, a) /\ d.repo = RowRepo(t, a)
    BY <2>1, SnapshotRowsAssumption DEF HasRepo, RowRepo, CountRow
  <2>3. d.table \notin GlobalTables
    BY <1>5 DEF MapTables
  <2> QED BY <1>1, <1>5, <2>2, <2>3
<1> QED BY <1>2, <1>3, <1>4, <1>5, StagedByTable

\* OWNED_TABLES has parents before children.
LEMMA PlacesAre ==
    /\ \A x \in MapTables : x \notin GlobalTables => Place.repositories < Place[x]
    /\ \A x \in ListTables : x # "bot_activity" => Place.repositories < Place[x]
    /\ Place.repositories < Place["repo_counters"]
    /\ \A x \in DOMAIN Parents : Place[Parents[x]] < Place[x]
<1>1. \A x \in ScopedTables : Place.repositories < Place[x]
  BY DEF ScopedTables, TrackerTables, RuleTables, Place
<1>2. \A x \in ListTables : x # "bot_activity" => Place.repositories < Place[x]
  BY DEF ListTables, Place
<1>3. Place.repositories < Place["repo_counters"]
  BY DEF Place
<1>4. \A x \in DOMAIN Parents : Place[Parents[x]] < Place[x]
  BY DEF Parents, Place
<1> QED BY <1>1, <1>2, <1>3, <1>4 DEF MapTables

\* No foreign key is met while the rows of a state are written.
LEMMA ParentsFound ==
    ASSUME NEW t, NEW n \in Nat, Normal(t, n)
    PROVE  FindsParents(StageState(t))
<1> SUFFICES ASSUME NEW d \in StageState(t)
             PROVE  /\ d.repo = NoSlug \/ /\ \E p \in StageState(t) : IsRepository(p, d.repo)
                                          /\ Place.repositories < Place[d.table]
                    /\ d.table \in DOMAIN Parents =>
                          /\ \E p \in StageState(t) : p.table = Parents[d.table] /\ p.key = d.key
                          /\ Place[Parents[d.table]] < Place[d.table]
  BY DEF FindsParents
<1>1. d.repo = NoSlug \/ /\ \E p \in StageState(t) : IsRepository(p, d.repo)
                         /\ Place.repositories < Place[d.table]
  BY RepositoryStaged, StagedByTable, PlacesAre
<1>2. ASSUME d.table \in DOMAIN Parents
      PROVE  \E p \in StageState(t) : p.table = Parents[d.table] /\ p.key = d.key
  <2>1. PICK e \in t.maps : d = MapRow(t, e)
    BY <1>2, StagedByTable, TablesApart
  <2>2. d.table = e.table /\ d.key = <<RowRepo(t, e.slug), e.key>>
    BY <2>1 DEF MapRow
  <2>3. PICK f \in t.maps : f.table = Parents[e.table] /\ f.slug = e.slug /\ f.key = e.key
    BY <1>2, <2>2 DEF Normal, MapsNormal, HaveParents
  <2>4. f.table \in MapTables
    BY DEF Normal, MapsNormal, EntryNormal
  <2>5. MapRow(t, f) \in StageState(t)
    BY <2>4, StageIs DEF Staged
  <2>6. MapRow(t, f).table = f.table /\ MapRow(t, f).key = <<RowRepo(t, f.slug), f.key>>
    BY DEF MapRow
  <2> QED BY <2>2, <2>3, <2>5, <2>6
<1> QED BY <1>1, <1>2, PlacesAre

\* Rows keep their repository, so that none goes with another's.
LEMMA RowsStay ==
    ASSUME NEW rs, NEW s, NEW t, NEW n \in Nat, Normal(s, n), Normal(t, n), Shown(rs, s), Follows(s, t)
    PROVE  NoneCascades(rs, StageState(t))
<1> SUFFICES ASSUME NEW r \in rs, NEW d \in StageState(t), SameRow(r, d) PROVE r.repo = d.repo
  BY RepositoryStaged DEF NoneCascades
<1> USE TablesApart
<1>1. PICK b \in StageState(s) : Agrees(r, b)
  BY DEF Shown
<1>2. r.repo = b.repo /\ b.table = d.table /\ b.key = d.key
  BY <1>1 DEF Agrees, SameRow
<1>3. CASE d.table \in MapTables
  <2>1. PICK e \in s.maps : b = MapRow(s, e)
    BY <1>2, <1>3, StagedByTable
  <2>2. PICK f \in t.maps : d = MapRow(t, f)
    BY <1>3, StagedByTable
  <2> QED BY <1>2, <2>1, <2>2 DEF MapRow
<1>4. CASE d.table \in ListTables
  <2>1. PICK m \in DOMAIN s.lists : \E k \in DOMAIN s.lists[m] : b = ListRow(s, m, k)
    BY <1>2, <1>4, StagedByTable
  <2>2. PICK k \in DOMAIN s.lists[m] : b = ListRow(s, m, k)
    BY <2>1
  <2>3. PICK l \in DOMAIN t.lists : \E i \in DOMAIN t.lists[l] : d = ListRow(t, l, i)
    BY <1>4, StagedByTable
  <2>4. PICK i \in DOMAIN t.lists[l] : d = ListRow(t, l, i)
    BY <2>3
  <2>5. m[1] = l[1] /\ s.lists[m][k].id = t.lists[l][i].id /\ b.repo = RowRepo(s, m[2]) /\ d.repo = RowRepo(t, l[2])
    BY <1>2, <2>2, <2>4 DEF ListRow
  <2> QED BY <1>2, <2>5 DEF Follows, ReposFollow
<1>5. CASE d.table = "repositories"
  BY <1>2, <1>5, StagedByTable DEF RepoRow
<1>6. CASE d.table = "repo_counters"
  <2>1. PICK a \in RowSlugs : b = CountRow(s, a)
    BY <1>2, <1>6, StagedByTable
  <2>2. PICK c \in RowSlugs : d = CountRow(t, c)
    BY <1>6, StagedByTable
  <2> QED BY <1>2, <2>1, <2>2 DEF CountRow
<1> QED BY <1>3, <1>4, <1>5, <1>6, StagedByTable

\* A row after the apply has the staged row with its key, and what was there of
\* it keeps its place and its other columns.
Applies(rs, t, x) ==
    /\ IsRow(x)
    /\ \E d \in StageState(t) :
          /\ SameRow(x, d) /\ x.repo = d.repo /\ x.val = d.val
          /\ \/ \E r \in rs : SameRow(r, d) /\ x.rowid = r.rowid /\ x.foreign = r.foreign
             \/ (\A r \in rs : ~SameRow(r, d)) /\ x.rowid = LastRowid(rs, d.table) + d.pos + 1

\* The rows after the apply are the staged ones, each once.
LEMMA AppliedRows ==
    ASSUME NEW rs, NEW s, NEW t, NEW n \in Nat, Normal(s, n), Normal(t, n), Shown(rs, s), Follows(s, t)
    PROVE  /\ \A x \in ApplyRows(rs, StageState(t)) : Applies(rs, t, x)
           /\ \A d \in StageState(t) : \E x \in ApplyRows(rs, StageState(t)) : SameRow(x, d)
           /\ \A x, y \in ApplyRows(rs, StageState(t)) : SameRow(x, y) => x = y
           /\ Bounded(ApplyRows(rs, StageState(t)))
<1> DEFINE st == StageState(t)
           new == ApplyRows(rs, st)
<1>1. /\ \A r \in rs : IsRow(r) /\ r.rowid \in Nat
      /\ Bounded(rs)
      /\ \A x, y \in rs : SameRow(x, y) => x = y
  BY DEF Shown, IsRow
<1>2. \A x, y \in st : SameRow(x, y) => x = y
  BY NormalIsStaged
<1>3. \A x : x \in new <=> WasUpdated(rs, t, x) \/ WasInserted(rs, t, x)
  <2>1. NoneCascades(rs, st)
    BY RowsStay
  <2> QED BY <1>1, <1>2, <2>1, UpdatesAre, InsertsAre DEF ApplyRows
<1>4. \A d \in st : d.pos \in Nat /\ d.pos <= n
  BY StagedByTable
<1>5. PICK b \in Nat : \A u : /\ LastRowid(rs, u) \in Nat /\ LastRowid(rs, u) <= b
                              /\ \A r \in rs : r.rowid <= b /\ (r.table = u => r.rowid <= LastRowid(rs, u))
  BY <1>1, LastIs
<1> HIDE DEF st, new
<1>6. ASSUME NEW x, WasUpdated(rs, t, x)
      PROVE  /\ IsRow(x) /\ x.rowid <= b + n + 1
             /\ \E d \in st, r \in rs :
                   /\ SameRow(x, d) /\ x.repo = d.repo /\ x.val = d.val
                   /\ SameRow(r, d) /\ x.rowid = r.rowid /\ x.foreign = r.foreign
                   /\ x = [table |-> r.table, key |-> r.key, repo |-> d.repo, val |-> d.val,
                           foreign |-> r.foreign, rowid |-> r.rowid]
  <2>1. PICK r \in rs, d \in st :
          /\ SameRow(r, d)
          /\ x = [table |-> r.table, key |-> r.key, repo |-> d.repo, val |-> d.val, foreign |-> r.foreign,
                  rowid |-> r.rowid]
    BY <1>6 DEF WasUpdated, st
  <2>2. /\ x.table = r.table /\ x.key = r.key /\ x.repo = d.repo /\ x.val = d.val /\ x.foreign = r.foreign
        /\ x.rowid = r.rowid
    BY <2>1
  <2>3. IsRow(x)
    BY <1>1, <2>1, <2>2 DEF IsRow
  <2>4. x.rowid <= b + n + 1
    BY <1>1, <1>5, <2>2
  <2> QED BY <2>1, <2>2, <2>3, <2>4 DEF SameRow
<1>7. ASSUME NEW x, WasInserted(rs, t, x)
      PROVE  /\ IsRow(x) /\ x.rowid <= b + n + 1
             /\ \E d \in st :
                   /\ SameRow(x, d) /\ x.repo = d.repo /\ x.val = d.val
                   /\ \A r \in rs : ~SameRow(r, d)
                   /\ x.rowid = LastRowid(rs, d.table) + d.pos + 1
                   /\ x = [table |-> d.table, key |-> d.key, repo |-> d.repo, val |-> d.val,
                           foreign |-> "default", rowid |-> LastRowid(rs, d.table) + d.pos + 1]
  <2>1. PICK d \in st :
          /\ \A r \in rs : ~SameRow(r, d)
          /\ x = [table |-> d.table, key |-> d.key, repo |-> d.repo, val |-> d.val,
                  foreign |-> "default", rowid |-> LastRowid(rs, d.table) + d.pos + 1]
    BY <1>7 DEF WasInserted, st
  <2>2. /\ x.table = d.table /\ x.key = d.key /\ x.repo = d.repo /\ x.val = d.val /\ x.foreign = "default"
        /\ x.rowid = LastRowid(rs, d.table) + d.pos + 1
    BY <2>1
  <2>3. PICK z : z = LastRowid(rs, d.table)
    OBVIOUS
  <2>4. z \in Nat /\ z <= b /\ d.pos \in Nat /\ d.pos <= n
    BY <1>4, <1>5, <2>3
  <2>5. z + d.pos + 1 \in Nat /\ z + d.pos + 1 <= b + n + 1
    BY <2>4
  <2>6. x.rowid = z + d.pos + 1
    BY <2>2, <2>3
  <2>7. x = [table |-> x.table, key |-> x.key, repo |-> x.repo, val |-> x.val, foreign |-> x.foreign, rowid |-> x.rowid]
    BY <2>1
  <2>8. IsRow(x) /\ x.rowid <= b + n + 1
    BY <2>5, <2>6, <2>7 DEF IsRow
  <2> QED BY <2>1, <2>2, <2>8 DEF SameRow
<1>8. \A x \in new : Applies(rs, t, x)
  <2> TAKE x \in new
  <2>1. CASE WasUpdated(rs, t, x)
    BY <1>6, <2>1 DEF Applies, st
  <2>2. CASE WasInserted(rs, t, x)
    BY <1>7, <2>2 DEF Applies, st
  <2> QED BY <1>3, <2>1, <2>2
<1>9. \A d \in st : \E x \in new : SameRow(x, d)
  <2> TAKE d \in st
  <2>1. CASE \E r \in rs : SameRow(r, d)
    <3>1. PICK r \in rs : SameRow(r, d)
      BY <2>1
    <3>2. PICK x : x = [table |-> r.table, key |-> r.key, repo |-> d.repo, val |-> d.val, foreign |-> r.foreign,
                        rowid |-> r.rowid]
      OBVIOUS
    <3>3. WasUpdated(rs, t, x)
      BY <3>1, <3>2 DEF WasUpdated, st
    <3>4. SameRow(x, d)
      BY <3>1, <3>2 DEF SameRow
    <3> QED BY <1>3, <3>3, <3>4
  <2>2. CASE \A r \in rs : ~SameRow(r, d)
    <3>2. PICK x : x = [table |-> d.table, key |-> d.key, repo |-> d.repo, val |-> d.val, foreign |-> "default",
                        rowid |-> LastRowid(rs, d.table) + d.pos + 1]
      OBVIOUS
    <3>3. WasInserted(rs, t, x)
      BY <2>2, <3>2 DEF WasInserted, st
    <3>4. SameRow(x, d)
      BY <3>2 DEF SameRow
    <3> QED BY <1>3, <3>3, <3>4
  <2> QED BY <2>1, <2>2
<1>10. \A x, y \in new : SameRow(x, y) => x = y
  <2> SUFFICES ASSUME NEW x \in new, NEW y \in new, SameRow(x, y) PROVE x = y
    OBVIOUS
  <2>1. CASE WasUpdated(rs, t, x) /\ WasUpdated(rs, t, y)
    <3>1. PICK d \in st, r \in rs :
             SameRow(x, d) /\ SameRow(r, d)
             /\ x = [table |-> r.table, key |-> r.key, repo |-> d.repo, val |-> d.val,
                     foreign |-> r.foreign, rowid |-> r.rowid]
      BY <1>6, <2>1
    <3>2. PICK e \in st, q \in rs :
             SameRow(y, e) /\ SameRow(q, e)
             /\ y = [table |-> q.table, key |-> q.key, repo |-> e.repo, val |-> e.val,
                     foreign |-> q.foreign, rowid |-> q.rowid]
      BY <1>6, <2>1
    <3>3. SameRow(d, e)
      BY <3>1, <3>2, SameRows
    <3>4. d = e /\ SameRow(r, q)
      BY <1>2, <3>1, <3>2, <3>3, SameRows DEF st
    <3>5. r = q
      BY <1>1, <3>4
    <3> QED BY <3>1, <3>2, <3>4, <3>5
  <2>2. CASE WasInserted(rs, t, x) /\ WasInserted(rs, t, y)
    <3>1. PICK d \in st :
             SameRow(x, d) /\ x = [table |-> d.table, key |-> d.key, repo |-> d.repo, val |-> d.val,
                           foreign |-> "default", rowid |-> LastRowid(rs, d.table) + d.pos + 1]
      BY <1>7, <2>2
    <3>2. PICK e \in st :
             SameRow(y, e) /\ y = [table |-> e.table, key |-> e.key, repo |-> e.repo, val |-> e.val,
                           foreign |-> "default", rowid |-> LastRowid(rs, e.table) + e.pos + 1]
      BY <1>7, <2>2
    <3>3. d = e
      BY <1>2, <3>1, <3>2, SameRows DEF st
    <3> QED BY <3>1, <3>2, <3>3
  <2>3. ASSUME NEW u \in new, NEW v \in new, SameRow(u, v), WasUpdated(rs, t, u), WasInserted(rs, t, v)
        PROVE  FALSE
    <3>1. PICK d \in st, r \in rs : SameRow(u, d) /\ SameRow(r, d)
      BY <1>6, <2>3
    <3>2. PICK e \in st : SameRow(v, e) /\ \A q \in rs : ~SameRow(q, e)
      BY <1>7, <2>3
    <3>3. SameRow(r, e)
      BY <2>3, <3>1, <3>2, SameRows
    <3> QED BY <3>2, <3>3
  <2> QED BY <1>3, <2>1, <2>2, <2>3, SameRows
<1>11. Bounded(new)
  <2>1. b + n + 1 \in Nat /\ \A x \in new : x.rowid <= b + n + 1
    BY <1>3, <1>6, <1>7
  <2> QED BY <2>1 DEF Bounded
<1> QED BY <1>8, <1>9, <1>10, <1>11 DEF st, new

\* Rows of one list keep their order, new ones come behind.
LEMMA AppliedInOrder ==
    ASSUME NEW rs, NEW s, NEW t, NEW n \in Nat, Normal(s, n), Normal(t, n), Shown(rs, s), Follows(s, t)
    PROVE  InOrder(ApplyRows(rs, StageState(t)), t)
<1> DEFINE new == ApplyRows(rs, StageState(t))
<1> SUFFICES ASSUME NEW l \in DOMAIN t.lists, NEW i \in DOMAIN t.lists[l], NEW j \in DOMAIN t.lists[l],
                    l[1] # "bot_activity", i < j, NEW x \in new, NEW y \in new,
                    SameRow(x, ListRow(t, l, i)), SameRow(y, ListRow(t, l, j))
             PROVE  x.rowid < y.rowid
  BY DEF InOrder
<1> HIDE DEF new
<1>1. /\ \A r \in rs : IsRow(r) /\ r.rowid \in Nat
      /\ Bounded(rs)
      /\ \A r, q \in rs : SameRow(r, q) => r = q
  BY DEF Shown, IsRow
<1>2. /\ Applies(rs, t, x) /\ Applies(rs, t, y)
  BY AppliedRows DEF new
<1>3. /\ l[1] \in ListTables /\ i \in Nat /\ j \in Nat
  BY ListIs DEF Normal
<1>4. ListRow(t, l, i) \in StageState(t) /\ ListRow(t, l, j) \in StageState(t)
  BY <1>3, StageIs DEF Staged
<1>5. PICK d, e : d = ListRow(t, l, i) /\ e = ListRow(t, l, j)
  OBVIOUS
<1>6. /\ d.table = l[1] /\ e.table = l[1] /\ d.pos = i /\ e.pos = j
      /\ d.key = <<NoSlug, t.lists[l][i].id>> /\ e.key = <<NoSlug, t.lists[l][j].id>>
      /\ d \in StageState(t) /\ e \in StageState(t) /\ SameRow(x, d) /\ SameRow(y, e)
  BY <1>4, <1>5 DEF ListRow
<1>7. PICK last : last = LastRowid(rs, l[1])
  OBVIOUS
<1>8. last \in Nat /\ \A r \in rs : r.table = l[1] => r.rowid <= last
  BY <1>1, <1>7, LastIs
<1>9. \A f, g \in StageState(t) : SameRow(f, g) => f = g
  BY NormalIsStaged
<1>10. \/ \E r \in rs : SameRow(r, d) /\ x.rowid = r.rowid
       \/ (\A r \in rs : ~SameRow(r, d)) /\ x.rowid = last + i + 1
  <2>1. PICK f \in StageState(t) :
          /\ SameRow(x, f)
          /\ \/ \E r \in rs : SameRow(r, f) /\ x.rowid = r.rowid
             \/ (\A r \in rs : ~SameRow(r, f)) /\ x.rowid = LastRowid(rs, f.table) + f.pos + 1
    BY <1>2 DEF Applies
  <2>2. f = d
    BY <1>6, <1>9, <2>1, SameRows
  <2> QED BY <1>6, <1>7, <2>1, <2>2
<1>11. \/ \E r \in rs : SameRow(r, e) /\ y.rowid = r.rowid
       \/ (\A r \in rs : ~SameRow(r, e)) /\ y.rowid = last + j + 1
  <2>1. PICK f \in StageState(t) :
          /\ SameRow(y, f)
          /\ \/ \E r \in rs : SameRow(r, f) /\ y.rowid = r.rowid
             \/ (\A r \in rs : ~SameRow(r, f)) /\ y.rowid = LastRowid(rs, f.table) + f.pos + 1
    BY <1>2 DEF Applies
  <2>2. f = e
    BY <1>6, <1>9, <2>1, SameRows
  <2> QED BY <1>6, <1>7, <2>1, <2>2
<1>12. CASE \E r \in rs : SameRow(r, e) /\ y.rowid = r.rowid
  <2>1. PICK q \in rs : SameRow(q, e) /\ y.rowid = q.rowid
    BY <1>12
  <2>2. PICK c \in StageState(s) : SameRow(q, c)
    BY DEF Shown, Agrees
  <2>3. c.table = l[1] /\ c.key = <<NoSlug, t.lists[l][j].id>>
    BY <1>6, <2>1, <2>2 DEF SameRow
  <2>4. PICK m \in DOMAIN s.lists : \E k \in DOMAIN s.lists[m] : c = ListRow(s, m, k)
    BY <1>3, <2>3, StagedByTable
  <2>5. PICK k \in DOMAIN s.lists[m] : c = ListRow(s, m, k)
    BY <2>4
  <2>6. m[1] = l[1] /\ s.lists[m][k].id = t.lists[l][j].id
    BY <2>3, <2>5 DEF ListRow
  <2>7. PICK h \in DOMAIN s.lists[m] : h < k /\ s.lists[m][h].id = t.lists[l][i].id
    BY <2>6 DEF Follows, ListsFollow
  <2>8. ListRow(s, m, h) \in StageState(s) /\ ListRow(s, m, h).table # "repo_counters"
    <3>1. Staged(s, ListRow(s, m, h)) /\ ListRow(s, m, h).table = m[1]
      BY <1>3, <2>6 DEF Staged, ListRow
    <3> QED BY <1>3, <2>6, <3>1, StageIs, TablesApart
  <2>9. PICK p \in rs : SameRow(p, ListRow(s, m, h))
    BY <2>8 DEF Shown
  <2>10. SameRow(p, d)
    BY <1>6, <2>6, <2>7, <2>9 DEF SameRow, ListRow
  <2>11. p.rowid < q.rowid
    BY <2>2, <2>5, <2>6, <2>7, <2>9 DEF Shown, InOrder
  <2>12. x.rowid = p.rowid
    <3>1. PICK r \in rs : SameRow(r, d) /\ x.rowid = r.rowid
      BY <1>10, <2>10
    <3>2. r = p
      BY <1>1, <2>10, <3>1, SameRows
    <3> QED BY <3>1, <3>2
  <2> QED BY <2>1, <2>11, <2>12
<1>13. CASE y.rowid = last + j + 1
  <2>1. x.rowid \in Nat /\ (x.rowid <= last \/ x.rowid = last + i + 1)
    <3>1. CASE \E r \in rs : SameRow(r, d) /\ x.rowid = r.rowid
      <4>1. PICK r \in rs : SameRow(r, d) /\ x.rowid = r.rowid
        BY <3>1
      <4>2. r.table = l[1]
        BY <1>6, <4>1 DEF SameRow
      <4> QED BY <1>1, <1>8, <4>1, <4>2
    <3>2. CASE x.rowid = last + i + 1
      BY <1>3, <1>8, <3>2
    <3> QED BY <1>10, <3>1, <3>2
  <2> QED BY <1>3, <1>8, <1>13, <2>1
<1> QED BY <1>11, <1>12, <1>13

\* After the apply the rows are those of the state, each with its value.
LEMMA AppliedExact ==
    ASSUME NEW rs, NEW s, NEW t, NEW n \in Nat, Normal(s, n), Normal(t, n), Shown(rs, s), Follows(s, t)
    PROVE  Exact(ApplyRows(rs, StageState(t)), t)
<1> DEFINE new == ApplyRows(rs, StageState(t))
<1>1. /\ \A x \in new : Applies(rs, t, x)
      /\ \A d \in StageState(t) : \E x \in new : SameRow(x, d)
      /\ \A x, y \in new : SameRow(x, y) => x = y
      /\ Bounded(new)
  BY AppliedRows
<1>2. InOrder(new, t)
  BY AppliedInOrder
<1> HIDE DEF new
<1>3. \A x \in new : IsRow(x) /\ \E d \in StageState(t) : SameRow(x, d) /\ x.repo = d.repo /\ x.val = d.val
  BY <1>1 DEF Applies
<1>4. Shown(new, t)
  BY <1>1, <1>2, <1>3 DEF Shown, Agrees
<1>5. \A x \in new : \A d \in StageState(t) : SameRow(x, d) => x.val = d.val
  <2> TAKE x \in new
  <2>1. PICK e \in StageState(t) : SameRow(x, e) /\ x.val = e.val
    BY <1>3
  <2> TAKE d \in StageState(t)
  <2>2. SameRow(x, d) => d = e
    BY <2>1, NormalIsStaged, SameRows
  <2> QED BY <2>1, <2>2
<1> QED BY <1>1, <1>4, <1>5 DEF Exact, new

\* And no statement of it meets a unique index or a foreign key.
LEMMA AppliedSucceeds ==
    ASSUME NEW rs, NEW s, NEW t, NEW n \in Nat, Normal(s, n), Normal(t, n), Shown(rs, s), Follows(s, t)
    PROVE  StagingSucceeds(t) /\ ReconcileSucceeds(rs, StageState(t))
<1> DEFINE st == StageState(t)
<1>1. StagingSucceeds(t)
  BY NormalIsStaged DEF StagingSucceeds
<1>2. UpdateSucceeds(Kept(rs, st), st)
  <2> SUFFICES ASSUME NEW x \in Kept(rs, st), NEW y \in Kept(rs, st), ~SameRow(x, y)
               PROVE  Reserves(CHOOSE d \in st : SameRow(x, d)) \cap Reserves(y) = {}
    BY DEF UpdateSucceeds
  <2>1. PICK d \in st : d = CHOOSE e \in st : SameRow(x, e)
    BY DEF Kept
  <2>2. SameRow(x, d)
    BY <2>1 DEF Kept
  <2>3. x \in rs /\ y \in rs
    BY DEF Kept
  <2>4. PICK b \in StageState(s) : Agrees(x, b)
    BY <2>3 DEF Shown
  <2>5. PICK c \in StageState(s) : Agrees(y, c)
    BY <2>3 DEF Shown
  <2>6. SameRow(b, d) /\ ~SameRow(b, c)
    BY <2>2, <2>4, <2>5, SameRows DEF Agrees
  <2>7. Reserves(d) \cap Reserves(y) = {}
    BY <2>5, <2>6, NothingTaken
  <2> QED BY <2>1, <2>7
<1>3. Unique(ApplyRows(rs, st))
  <2> SUFFICES ASSUME NEW x \in ApplyRows(rs, st), NEW y \in ApplyRows(rs, st), ~SameRow(x, y)
               PROVE  Reserves(x) \cap Reserves(y) = {}
    BY DEF Unique
  <2>1. PICK d \in st : SameRow(x, d) /\ x.val = d.val
    BY AppliedRows DEF Applies
  <2>2. PICK e \in st : SameRow(y, e) /\ y.repo = e.repo /\ y.val = e.val
    BY AppliedRows DEF Applies
  <2>3. Agrees(y, e) /\ ~SameRow(d, e) /\ SameRow(d, d)
    BY <2>1, <2>2, SameRows DEF Agrees
  <2>4. Reserves(d) \cap Reserves(y) = {}
    BY <2>3, NothingTaken, FollowsItself
  <2>5. Reserves(x) = Reserves(d)
    BY <2>1 DEF Reserves, SameRow
  <2> QED BY <2>4, <2>5
<1>4. FindsParents(st)
  BY ParentsFound
<1> QED BY <1>1, <1>2, <1>3, <1>4 DEF ReconcileSucceeds, ApplyRows

\* A column of another tool keeps its value as long as its row lives.
LEMMA AppliedKeepsColumns ==
    ASSUME NEW rs, NEW s, NEW t, NEW n \in Nat, Normal(s, n), Normal(t, n), Shown(rs, s), Follows(s, t),
           NEW x \in ApplyRows(rs, StageState(t)), NEW r \in rs, SameRow(x, r)
    PROVE  x.foreign = r.foreign
<1>1. PICK d \in StageState(t) :
          /\ SameRow(x, d)
          /\ \/ \E q \in rs : SameRow(q, d) /\ x.foreign = q.foreign
             \/ \A q \in rs : ~SameRow(q, d)
  BY AppliedRows DEF Applies
<1>2. SameRow(r, d)
  BY <1>1, SameRows
<1>3. PICK q \in rs : SameRow(q, d) /\ x.foreign = q.foreign
  BY <1>1, <1>2
<1>4. q = r
  <2>1. \A u, v \in rs : SameRow(u, v) => u = v
    BY DEF Shown
  <2>2. SameRow(q, r)
    BY <1>2, <1>3, SameRows
  <2> QED BY <2>1, <2>2
<1> QED BY <1>3, <1>4

----------------------------------------------------------------------------
(* Reading the rows of a state *)

\* The row of a staged one says the same of it, unless it was loosened.
LEMMA RowAgrees ==
    ASSUME NEW rs, NEW s, NEW n \in Nat, Normal(s, n), Shown(rs, s), NEW r \in rs, NEW d \in StageState(s),
           SameRow(r, d)
    PROVE  Agrees(r, d)
<1>1. PICK e \in StageState(s) : Agrees(r, e)
  BY DEF Shown
<1>2. e = d
  BY <1>1, NormalIsStaged, SameRows DEF Agrees
<1> QED BY <1>1, <1>2

\* Ids are read as the slugs they stand for.
LEMMA ReadsSlugs ==
    ASSUME NEW rs, NEW s, NEW n \in Nat, Normal(s, n), Shown(rs, s)
    PROVE  /\ LoadRepositories(rs) = s.repos
           /\ \A r \in rs : \A a : HasRepo(s, a) /\ r.repo = RowRepo(s, a) =>
                 /\ r.repo = NoSlug \/ r.repo \in DOMAIN SlugsById(rs)
                 /\ SlugOfRow(rs, r) = a
<1> USE DEF Normal
<1>1. ASSUME NEW r \in rs, r.table = "repositories"
      PROVE  \E a \in RowSlugs : s.repos[a] # NoUuid /\ r.key = <<NoSlug, s.repos[a]>> /\ r.val = a
  <2>1. PICK d \in StageState(s) : Agrees(r, d)
    BY DEF Shown
  <2>2. d.table = "repositories" /\ r.val = d.val /\ r.key = d.key
    BY <1>1, <2>1 DEF Agrees, SameRow, Loosened
  <2>3. PICK a \in RowSlugs : s.repos[a] # NoUuid /\ d = RepoRow(s, a)
    BY <2>2, StagedByTable
  <2> QED BY <2>2, <2>3 DEF RepoRow
<1>2. ASSUME NEW a \in RowSlugs, s.repos[a] # NoUuid
      PROVE  \E r \in rs : r.table = "repositories" /\ r.key = <<NoSlug, s.repos[a]>> /\ r.val = a
  <2>1. RepoRow(s, a) \in StageState(s) /\ RepoRow(s, a).table # "repo_counters"
    BY <1>2, StageIs DEF Staged, RepoRow
  <2>2. PICK r \in rs : SameRow(r, RepoRow(s, a))
    BY <2>1 DEF Shown
  <2>3. r.table = "repositories" /\ r.key = <<NoSlug, s.repos[a]>>
    BY <2>2 DEF SameRow, RepoRow
  <2>4. PICK b \in RowSlugs : s.repos[b] # NoUuid /\ r.key = <<NoSlug, s.repos[b]>> /\ r.val = b
    BY <1>1, <2>3
  <2>5. a = b
    BY <1>2, <2>3, <2>4 DEF ReposNormal
  <2> QED BY <2>3, <2>4, <2>5
<1>3. ASSUME NEW a \in RowSlugs, s.repos[a] # NoUuid
      PROVE  s.repos[a] \in DOMAIN SlugsById(rs) /\ SlugsById(rs)[s.repos[a]] = a
  <2>1. PICK r \in rs : r.table = "repositories" /\ r.key = <<NoSlug, s.repos[a]>> /\ r.val = a
    BY <1>2, <1>3
  <2>2. PICK u : u = s.repos[a]
    OBVIOUS
  <2>3. r.key[2] = u
    BY <2>1, <2>2
  <2>4. u \in {x.key[2] : x \in {y \in rs : y.table = "repositories"}}
    BY <2>1, <2>3
  <2>5. u \in DOMAIN SlugsById(rs)
        /\ SlugsById(rs)[u] = (CHOOSE x \in rs : x.table = "repositories" /\ x.key[2] = u).val
    BY <2>4 DEF SlugsById
  <2>6. PICK x \in rs : /\ x.table = "repositories" /\ x.key[2] = u
                        /\ x = CHOOSE y \in rs : y.table = "repositories" /\ y.key[2] = u
    BY <2>1, <2>3
  <2>7. PICK b \in RowSlugs : s.repos[b] # NoUuid /\ x.key = <<NoSlug, s.repos[b]>> /\ x.val = b
    BY <1>1, <2>6
  <2>8. s.repos[b] = u
    BY <2>6, <2>7
  <2>9. b = a
    BY <1>3, <2>2, <2>8 DEF ReposNormal
  <2> QED BY <2>2, <2>5, <2>6, <2>7, <2>9
<1>4. ASSUME NEW r \in rs, NEW a, HasRepo(s, a), r.repo = RowRepo(s, a)
      PROVE  /\ r.repo = NoSlug \/ r.repo \in DOMAIN SlugsById(rs)
             /\ SlugOfRow(rs, r) = a
  <2>1. RowRepo(s, a) = NoSlug <=> a = NoSlug
    BY <1>4, IdOfSlug
  <2>2. CASE a = NoSlug
    BY <1>4, <2>1, <2>2 DEF SlugOfRow
  <2>3. CASE a # NoSlug
    <3>1. a \in RowSlugs /\ s.repos[a] # NoUuid /\ r.repo = s.repos[a]
      BY <1>4, <2>3 DEF HasRepo, RowRepo
    <3> QED BY <1>3, <1>4, <2>1, <2>3, <3>1 DEF SlugOfRow
  <2> QED BY <2>2, <2>3
<1>5. LoadRepositories(rs) = s.repos
  <2>1. ASSUME NEW a \in RowSlugs
        PROVE  LoadRepositories(rs)[a] = s.repos[a]
    <3> DEFINE place == {r \in rs : r.table = "repositories" /\ r.val = a}
    <3>1. LoadRepositories(rs)[a] = IF place = {} THEN NoUuid ELSE (CHOOSE r \in place : TRUE).key[2]
      BY DEF LoadRepositories
    <3>2. CASE place = {}
      BY <1>2, <3>1, <3>2
    <3>3. CASE place # {}
      <4>1. PICK r \in place : r = CHOOSE q \in place : TRUE
        BY <3>3
      <4>2. PICK b \in RowSlugs : s.repos[b] # NoUuid /\ r.key = <<NoSlug, s.repos[b]>> /\ r.val = b
        BY <1>1
      <4>3. b = a /\ r.key[2] = s.repos[b]
        BY <4>2
      <4> QED BY <3>1, <3>3, <4>1, <4>3
    <3> QED BY <3>2, <3>3
  <2>2. DOMAIN s.repos = RowSlugs /\ s.repos = [a \in RowSlugs |-> s.repos[a]]
    BY DEF IsState
  <2>3. LoadRepositories(rs) = [a \in RowSlugs |-> LoadRepositories(rs)[a]]
    BY DEF LoadRepositories
  <2>4. [a \in RowSlugs |-> LoadRepositories(rs)[a]] = [a \in RowSlugs |-> s.repos[a]]
    BY <2>1
  <2> QED BY <2>2, <2>3, <2>4
<1> QED BY <1>4, <1>5

\* The entries of maps: one for each row.
LEMMA ReadsMaps ==
    ASSUME NEW rs, NEW s, NEW n \in Nat, Normal(s, n), Shown(rs, s), NEW T, T \subseteq MapTables
    PROVE  \A e : e \in LoadedMaps(rs, T) <=>
              \E f \in s.maps, r \in rs :
                 /\ f.table \in T /\ SameRow(r, MapRow(s, f))
                 /\ e = [table |-> f.table, slug |-> f.slug, key |-> f.key, val |-> r.val]
<1> TAKE e
<1> DEFINE Read(r) == [table |-> r.table, slug |-> SlugOfRow(rs, r), key |-> r.key[2], val |-> r.val]
<1>1. e \in LoadedMaps(rs, T) <=>
        \E r \in rs : r.table \in T /\ (r.repo = NoSlug \/ r.repo \in DOMAIN SlugsById(rs)) /\ e = Read(r)
  BY DEF LoadedMaps, Joined
<1>2. ASSUME NEW r \in rs, NEW f \in s.maps, SameRow(r, MapRow(s, f))
      PROVE  /\ r.table = f.table /\ (r.repo = NoSlug \/ r.repo \in DOMAIN SlugsById(rs))
             /\ Read(r) = [table |-> f.table, slug |-> f.slug, key |-> f.key, val |-> r.val]
  <2>1. f.table \in MapTables /\ HasRepo(s, f.slug)
    BY DEF Normal, MapsNormal, EntryNormal
  <2>2. MapRow(s, f) \in StageState(s)
    BY <2>1, StageIs DEF Staged
  <2>3. Agrees(r, MapRow(s, f))
    BY <1>2, <2>2, RowAgrees
  <2>4. r.table = f.table /\ r.key = <<RowRepo(s, f.slug), f.key>> /\ r.repo = RowRepo(s, f.slug)
    BY <2>3 DEF Agrees, SameRow, MapRow
  <2>5. (r.repo = NoSlug \/ r.repo \in DOMAIN SlugsById(rs)) /\ SlugOfRow(rs, r) = f.slug
    BY <2>1, <2>4, ReadsSlugs
  <2>6. r.key[2] = f.key
    BY <2>4
  <2> QED BY <2>4, <2>5, <2>6
<1>3. ASSUME NEW r \in rs, r.table \in T
      PROVE  \E f \in s.maps : f.table \in T /\ SameRow(r, MapRow(s, f))
  <2>1. PICK d \in StageState(s) : Agrees(r, d)
    BY DEF Shown
  <2>2. d.table \in MapTables /\ d.table \in T
    BY <1>3, <2>1 DEF Agrees, SameRow
  <2>3. PICK f \in s.maps : d = MapRow(s, f)
    BY <2>2, StagedByTable
  <2> QED BY <2>1, <2>2, <2>3 DEF Agrees, MapRow
<1> HIDE DEF Read
<1> QED BY <1>1, <1>2, <1>3

\* Rows taken one by one in the order of a number each has.
Enumerates(f, k, rows, place) ==
    /\ f \in [1 .. k -> rows]
    /\ \A r \in rows : \E i \in 1 .. k : f[i] = r
    /\ \A i \in 1 .. k : place[f[i]] \in Int
    /\ \A i, j \in 1 .. k : i < j => place[f[i]] < place[f[j]]

\* The place of a row is how many stand at or before it.
LEMMA CountUpTo ==
    ASSUME NEW f, NEW k \in Nat, NEW rows, NEW place, Enumerates(f, k, rows, place), NEW i \in 1 .. k
    PROVE  Cardinality({y \in rows : place[y] <= place[f[i]]}) = i
<1> DEFINE B == {y \in rows : place[y] <= place[f[i]]}
           g == [j \in 1 .. i |-> f[j]]
<1>1. \A j \in 1 .. i : j \in 1 .. k
  OBVIOUS
<1>2. \A j \in 1 .. k : f[j] \in rows /\ place[f[j]] \in Int
  BY DEF Enumerates
<1>3. \A j, h \in 1 .. k : j < h => place[f[j]] < place[f[h]]
  BY DEF Enumerates
<1>4. \A j \in 1 .. i : f[j] \in B
  <2> TAKE j \in 1 .. i
  <2>1. j \in 1 .. k /\ (j < i \/ j = i)
    OBVIOUS
  <2>2. place[f[j]] < place[f[i]] \/ f[j] = f[i]
    BY <1>3, <2>1
  <2>3. f[j] \in rows /\ place[f[j]] \in Int /\ place[f[i]] \in Int
    BY <1>2, <2>1
  <2>4. place[f[j]] <= place[f[i]]
    BY <2>2, <2>3
  <2> QED BY <2>3, <2>4
<1>5. \A y \in B : \E j \in 1 .. i : f[j] = y
  <2> TAKE y \in B
  <2>1. PICK j \in 1 .. k : f[j] = y
    BY DEF Enumerates
  <2>2. ~(i < j)
    <3>1. SUFFICES ASSUME i < j PROVE FALSE
      OBVIOUS
    <3>2. place[f[i]] < place[f[j]] /\ place[f[j]] <= place[f[i]]
      BY <1>3, <2>1, <3>1
    <3>3. place[f[i]] \in Int /\ place[f[j]] \in Int
      BY <1>2, <2>1
    <3> QED BY <3>2, <3>3
  <2>3. j \in 1 .. i
    BY <2>1, <2>2
  <2> QED BY <2>1, <2>3
<1>6. \A j, h \in 1 .. i : f[j] = f[h] => j = h
  <2> SUFFICES ASSUME NEW j \in 1 .. i, NEW h \in 1 .. i, f[j] = f[h] PROVE j = h
    OBVIOUS
  <2>1. j \in 1 .. k /\ h \in 1 .. k /\ (j < h \/ h < j \/ j = h)
    OBVIOUS
  <2>2. place[f[j]] \in Int /\ ~(place[f[j]] < place[f[j]])
    BY <1>2, <2>1
  <2> QED BY <1>3, <2>1, <2>2
<1> HIDE DEF B
<1>7. g \in Bijection(1 .. i, B)
  BY <1>4, <1>5, <1>6 DEF Bijection, Injection, Surjection, IsInjective
<1>8. IsFiniteSet(1 .. i) /\ Cardinality(1 .. i) = i
  BY FS_Interval
<1> HIDE DEF g
<1>9. ExistsBijection(1 .. i, B)
  BY <1>7 DEF ExistsBijection
<1>10. Cardinality(B) = Cardinality(1 .. i)
  BY <1>8, <1>9, FS_Bijection
<1> QED BY <1>8, <1>10 DEF B

EntriesOf(f, k) == [i \in 1 .. k |-> [id |-> f[i].key[2], val |-> f[i].val]]

\* The i-th of rows taken one by one.
LEMMA RankedIs ==
    ASSUME NEW f, NEW k \in Nat, NEW rows, NEW place, Enumerates(f, k, rows, place)
    PROVE  Cardinality(rows) = k /\ \A i \in 1 .. k : Ranked(rows, place, i) = f[i]
<1>1. \A i \in 1 .. k : f[i] \in rows /\ Cardinality({y \in rows : place[y] <= place[f[i]]}) = i
  <2>1. \A i \in 1 .. k : f[i] \in rows
    BY DEF Enumerates
  <2>2. ASSUME NEW i \in 1 .. k
        PROVE  Cardinality({y \in rows : place[y] <= place[f[i]]}) = i
    BY CountUpTo
  <2> QED BY <2>1, <2>2
<1>2. Cardinality(rows) = k
  <2>1. f \in Bijection(1 .. k, rows)
    <3>1. \A i, j \in 1 .. k : f[i] = f[j] => i = j
      BY <1>1
    <3> QED BY <3>1 DEF Enumerates, Bijection, Injection, Surjection, IsInjective
  <2>2. IsFiniteSet(1 .. k) /\ Cardinality(1 .. k) = k
    BY FS_Interval
  <2>3. ExistsBijection(1 .. k, rows)
    BY <2>1 DEF ExistsBijection
  <2> QED BY <2>2, <2>3, FS_Bijection
<1>3. ASSUME NEW i \in 1 .. k
      PROVE  Ranked(rows, place, i) = f[i]
  <2>1. ASSUME NEW x \in rows, Cardinality({y \in rows : place[y] <= place[x]}) = i
        PROVE  x = f[i]
    <3>1. PICK j \in 1 .. k : f[j] = x
      BY DEF Enumerates
    <3>2. j = i
      BY <1>1, <2>1, <3>1
    <3> QED BY <3>1, <3>2
  <2> QED BY <1>1, <2>1 DEF Ranked
<1> QED BY <1>2, <1>3

\* Listed gives the entries of rows in the order they are taken.
LEMMA ListedIs ==
    ASSUME NEW f, NEW k \in Nat, NEW rows, NEW place, Enumerates(f, k, rows, place)
    PROVE  Listed(rows, place) = EntriesOf(f, k)
<1>1. Cardinality(rows) = k /\ \A i \in 1 .. k : Ranked(rows, place, i) = f[i]
  BY RankedIs
<1>2. Listed(rows, place) =
        [i \in 1 .. k |-> [id |-> Ranked(rows, place, i).key[2], val |-> Ranked(rows, place, i).val]]
  BY <1>1 DEF Listed
<1> QED BY <1>1, <1>2 DEF EntriesOf

\* The list of the events, and a state that has them in the order of their times.
Activity == <<"bot_activity", NoSlug>>
InTime(s) ==
    \A l \in DOMAIN s.lists : l = Activity =>
        \A i, j \in DOMAIN s.lists[l] : i < j => s.lists[l][i].val < s.lists[l][j].val

\* The rows of a list of the state, in its order; events aside, they are in the
\* order of the rows.
RowsAre(f, rs, s, l) ==
    /\ f \in [1 .. Len(s.lists[l]) -> RowsOf(rs, l)]
    /\ \A r \in RowsOf(rs, l) : \E i \in 1 .. Len(s.lists[l]) : f[i] = r
    /\ l # Activity => Enumerates(f, Len(s.lists[l]), RowsOf(rs, l), [r \in RowsOf(rs, l) |-> RowPlace(r)])
    /\ \A i \in DOMAIN s.lists[l] : f[i] \in rs /\ SameRow(f[i], ListRow(s, l, i)) /\ Agrees(f[i], ListRow(s, l, i))

\* The rows read for a list are those of its entries, in its order.
LEMMA RowsOfList ==
    ASSUME NEW rs, NEW s, NEW n \in Nat, Normal(s, n), Shown(rs, s), NEW l \in DOMAIN s.lists
    PROVE  \E f : RowsAre(f, rs, s, l)
<1> DEFINE k == Len(s.lists[l])
           rows == RowsOf(rs, l)
           Row(i) == CHOOSE r \in rs : SameRow(r, ListRow(s, l, i))
           f == [i \in 1 .. k |-> Row(i)]
<1>1. /\ l[1] \in ListTables /\ k \in Nat /\ DOMAIN s.lists[l] = 1 .. k
      /\ \A i \in 1 .. k : i \in Nat
  BY ListIs DEF Normal
<1>2. ASSUME NEW i \in 1 .. k
      PROVE  HasRepo(s, l[2]) /\ ListRow(s, l, i) \in StageState(s) /\ ListRow(s, l, i).table # "repo_counters"
  <2>1. s.lists[l] # <<>> /\ i \in DOMAIN s.lists[l]
    BY <1>1
  <2>2. HasRepo(s, l[2])
    BY <2>1 DEF Normal, ListsNormal, ListNormal
  <2>3. Staged(s, ListRow(s, l, i)) /\ ListRow(s, l, i).table = l[1]
    BY <1>1, <2>1 DEF Staged, ListRow
  <2> QED BY <1>1, <2>2, <2>3, StageIs, TablesApart
<1>3. ASSUME NEW i \in 1 .. k
      PROVE  Row(i) \in rs /\ SameRow(Row(i), ListRow(s, l, i)) /\ Agrees(Row(i), ListRow(s, l, i))
  <2>1. \E r \in rs : SameRow(r, ListRow(s, l, i))
    BY <1>2 DEF Shown
  <2>2. Row(i) \in rs /\ SameRow(Row(i), ListRow(s, l, i))
    BY <2>1
  <2> HIDE DEF Row
  <2> QED BY <1>2, <2>2, RowAgrees
<1> HIDE DEF Row
<1>4. ASSUME NEW i \in 1 .. k
      PROVE  f[i] \in rows
  <2>1. f[i] \in rs /\ f[i].table = l[1] /\ f[i].repo = RowRepo(s, l[2])
    BY <1>3 DEF Agrees, SameRow, ListRow
  <2>2. (f[i].repo = NoSlug \/ f[i].repo \in DOMAIN SlugsById(rs)) /\ SlugOfRow(rs, f[i]) = l[2]
    BY <1>2, <2>1, ReadsSlugs
  <2> HIDE DEF f
  <2> QED BY <2>1, <2>2 DEF RowsOf, Joined
<1>5. ASSUME NEW r \in rows
      PROVE  \E i \in 1 .. k : f[i] = r
  <2>1. r \in rs /\ r.table = l[1] /\ SlugOfRow(rs, r) = l[2]
    BY DEF RowsOf, Joined
  <2>2. PICK d \in StageState(s) : Agrees(r, d)
    BY <2>1 DEF Shown
  <2>3. d.table = l[1]
    BY <2>1, <2>2 DEF Agrees, SameRow
  <2>4. PICK m \in DOMAIN s.lists : HasRepo(s, m[2]) /\ \E i \in DOMAIN s.lists[m] : d = ListRow(s, m, i)
    BY <1>1, <2>3, StagedByTable
  <2>5. PICK i \in DOMAIN s.lists[m] : d = ListRow(s, m, i)
    BY <2>4
  <2>6. m[1] = l[1] /\ r.repo = RowRepo(s, m[2])
    BY <2>2, <2>3, <2>5 DEF Agrees, ListRow
  <2>7. m[2] = l[2]
    BY <2>1, <2>4, <2>6, ReadsSlugs
  <2>8. m = l
    <3>1. m = <<m[1], m[2]>> /\ l = <<l[1], l[2]>>
      BY ListIs DEF Normal
    <3> QED BY <2>6, <2>7, <3>1
  <2>9. i \in 1 .. k /\ SameRow(r, ListRow(s, l, i))
    BY <1>1, <2>2, <2>5, <2>8 DEF Agrees
  <2>10. f[i] \in rs /\ SameRow(f[i], ListRow(s, l, i))
    BY <1>3, <2>9
  <2>11. SameRow(f[i], r) /\ \A x, y \in rs : SameRow(x, y) => x = y
    BY <2>9, <2>10, SameRows DEF Shown
  <2> QED BY <2>1, <2>9, <2>10, <2>11
<1>6. ASSUME l # Activity, NEW i \in 1 .. k, NEW j \in 1 .. k, i < j
      PROVE  f[i].rowid < f[j].rowid
  <2>1. f[i] \in rs /\ f[j] \in rs /\ SameRow(f[i], ListRow(s, l, i)) /\ SameRow(f[j], ListRow(s, l, j))
    BY <1>3
  <2>2. i \in DOMAIN s.lists[l] /\ j \in DOMAIN s.lists[l] /\ s.lists[l] # <<>>
    BY <1>1
  <2>3. l[1] # "bot_activity"
    <3>1. l[1] = "bot_activity" => l[2] = NoSlug
      BY <2>2 DEF Normal, ListsNormal, ListNormal
    <3>2. l = <<l[1], l[2]>>
      BY ListIs DEF Normal
    <3> QED BY <1>6, <3>1, <3>2 DEF Activity
  <2> HIDE DEF f
  <2> QED BY <1>6, <2>1, <2>2, <2>3 DEF Shown, InOrder
<1>9. f \in [1 .. k -> rows]
  BY <1>4
<1>7. ASSUME l # Activity PROVE Enumerates(f, k, rows, [r \in rows |-> RowPlace(r)])
  <2>1. f \in [1 .. k -> rows]
    BY <1>9
  <2>2. \A i \in 1 .. k : [r \in rows |-> RowPlace(r)][f[i]] = f[i].rowid
    BY <1>4 DEF RowPlace
  <2>3. \A i \in 1 .. k : f[i].rowid \in Int
    BY <1>3 DEF Shown, IsRow
  <2>4. \A i, j \in 1 .. k : i < j => f[i].rowid < f[j].rowid
    BY <1>6, <1>7
  <2> HIDE DEF f
  <2> QED BY <1>5, <2>1, <2>2, <2>3, <2>4 DEF Enumerates
<1>8. RowsAre(f, rs, s, l)
  BY <1>1, <1>3, <1>5, <1>7, <1>9 DEF RowsAre
<1> HIDE DEF f
<1> QED BY <1>8

\* As many numbers as there are places have a bound.
LEMMA BoundOf ==
    ASSUME NEW k \in Nat, NEW g, \A i \in 1 .. k : g[i] \in Nat
    PROVE  \E b \in Nat : \A i \in 1 .. k : g[i] <= b
<1> DEFINE Good == {m \in Nat : m <= k => \E b \in Nat : \A i \in 1 .. m : g[i] <= b}
<1>1. 0 \in Good
  <2>1. \A i \in 1 .. 0 : g[i] <= 0
    OBVIOUS
  <2> QED BY <2>1
<1>2. ASSUME NEW m \in Nat, m < k, m \in Good
      PROVE  m + 1 \in Good
  <2>1. PICK b \in Nat : \A i \in 1 .. m : g[i] <= b
    BY <1>2
  <2>2. m + 1 \in 1 .. k /\ g[m + 1] \in Nat
    BY <1>2
  <2>3. PICK c : c = g[m + 1]
    OBVIOUS
  <2>4. b + c \in Nat /\ c <= b + c /\ c \in Nat
    BY <2>2, <2>3
  <2>5. ASSUME NEW i \in 1 .. (m + 1)
        PROVE  g[i] <= b + c
    <3>1. CASE i = m + 1
      BY <2>3, <2>4, <3>1
    <3>2. CASE i # m + 1
      <4>1. i \in 1 .. m /\ i \in 1 .. k
        BY <1>2, <3>2
      <4>2. g[i] \in Nat /\ g[i] <= b
        BY <2>1, <4>1
      <4> QED BY <2>4, <4>2
    <3> QED BY <3>1, <3>2
  <2> QED BY <2>4, <2>5
<1>3. \A m \in Nat : m < k /\ m \in Good => m + 1 \in Good
  BY <1>2
<1> HIDE DEF Good
<1>4. \A m \in Nat : m <= k => m \in Good
  BY <1>1, <1>3, UpTo
<1>5. k \in Good
  BY <1>4
<1> QED BY <1>5 DEF Good

\* b is the list c as it is read: runs without a number may have got one.
ListRead(b, c, t) ==
    /\ b \in Seq(Entries) /\ Len(b) = Len(c)
    /\ \A i \in 1 .. Len(c) : b[i].id = c[i].id /\ (b[i].val = c[i].val \/ (t = "check_runs" /\ b[i].val # 0))

\* Numbers given where there are none, above those there are.
LEMMA RunsNumbered ==
    ASSUME NEW rs, NEW l, NEW k \in Nat, NEW f,
           ListOf(rs, l) = [i \in 1 .. k |-> f[i]], \A i \in 1 .. k : f[i] \in Entries
    PROVE  /\ LoadChecks(rs, l) \in Seq(Entries) /\ Len(LoadChecks(rs, l)) = k
           /\ \A i \in 1 .. k : /\ LoadChecks(rs, l)[i].id = f[i].id /\ LoadChecks(rs, l)[i].val # 0
                                /\ f[i].val # 0 => LoadChecks(rs, l)[i] = f[i]
<1> DEFINE runs == ListOf(rs, l)
           top == Max({0} \cup {runs[i].val : i \in DOMAIN runs})
           Unnumbered(i) == Cardinality({j \in 1 .. i : runs[j].val = 0})
           out == [i \in DOMAIN runs |->
                     IF runs[i].val = 0 THEN [runs[i] EXCEPT !.val = top + Unnumbered(i)] ELSE runs[i]]
<1>1. LoadChecks(rs, l) = out
  BY DEF LoadChecks
<1>2. DOMAIN runs = 1 .. k /\ \A i \in 1 .. k : runs[i] = f[i] /\ f[i].id \in RowKeys /\ f[i].val \in Nat
  BY DEF Entries
<1>3. top \in Nat
  <2> DEFINE S == {0} \cup {runs[i].val : i \in DOMAIN runs}
  <2>1. PICK g : g = [i \in 1 .. k |-> f[i].val]
    OBVIOUS
  <2>2. \A i \in 1 .. k : g[i] \in Nat /\ g[i] = runs[i].val
    BY <1>2, <2>1
  <2>3. PICK b \in Nat : \A i \in 1 .. k : g[i] <= b
    BY <2>2, BoundOf
  <2>4. S \subseteq Nat /\ S # {} /\ \A x \in S : x <= b
    BY <1>2, <2>2, <2>3
  <2> HIDE DEF S
  <2>5. Max(S) \in S
    BY <2>4, LargestOf
  <2> QED BY <2>4, <2>5 DEF S
<1>4. ASSUME NEW i \in 1 .. k, f[i].val = 0
      PROVE  Unnumbered(i) \in Nat /\ Unnumbered(i) # 0
  <2> DEFINE U == {j \in 1 .. i : runs[j].val = 0}
  <2>1. IsFiniteSet(1 .. i)
    BY FS_Interval
  <2>2. U \in SUBSET (1 .. i) /\ i \in U
    BY <1>2, <1>4
  <2> HIDE DEF U
  <2>3. IsFiniteSet(U) /\ U # {}
    BY <2>1, <2>2, FS_Subset
  <2>4. Cardinality(U) \in Nat /\ Cardinality(U) # 0
    BY <2>3, FS_CardinalityType, FS_EmptySet
  <2> QED BY <2>4 DEF U
<1> HIDE DEF runs, top, Unnumbered
<1>5. ASSUME NEW i \in 1 .. k
      PROVE  /\ out[i] \in Entries /\ out[i].id = f[i].id /\ out[i].val # 0
             /\ f[i].val # 0 => out[i] = f[i]
  <2>1. out[i] = IF f[i].val = 0 THEN [f[i] EXCEPT !.val = top + Unnumbered(i)] ELSE f[i]
    BY <1>2
  <2>2. CASE f[i].val = 0
    <3>1. PICK c : c = top + Unnumbered(i)
      OBVIOUS
    <3>2. c \in Nat /\ c # 0
      BY <1>3, <1>4, <2>2, <3>1
    <3>3. out[i] = [f[i] EXCEPT !.val = c]
      BY <2>1, <2>2, <3>1
    <3>4. f[i] \in [id : RowKeys, val : Nat]
      BY DEF Entries
    <3> HIDE DEF out
    <3>5. out[i] \in [id : RowKeys, val : Nat] /\ out[i].val = c /\ out[i].id = f[i].id
      BY <3>2, <3>3, <3>4
    <3> QED BY <2>2, <3>2, <3>5 DEF Entries
  <2>3. CASE f[i].val # 0
    BY <1>2, <2>1, <2>3
  <2> QED BY <2>2, <2>3
<1>6. out \in Seq(Entries) /\ Len(out) = k
  <2>1. out \in [1 .. k -> Entries]
    BY <1>2, <1>5
  <2> HIDE DEF out
  <2> QED BY <2>1
<1> HIDE DEF out
<1> QED BY <1>1, <1>5, <1>6

\* A list is read back as it was, unnumbered check runs aside.
LEMMA ReadsLists ==
    ASSUME NEW rs, NEW s, NEW n \in Nat, Normal(s, n), InTime(s), Shown(rs, s), NEW l \in DOMAIN s.lists
    PROVE  /\ ListRead(LoadLists(rs)[l], s.lists[l], l[1])
           /\ Exact(rs, s) => LoadLists(rs)[l] = s.lists[l]
           /\ \A i \in DOMAIN s.lists[l], r \in rs : SameRow(r, ListRow(s, l, i)) =>
                 r.val = LoadLists(rs)[l][i].val \/ (l[1] = "check_runs" /\ r.val = 0)
<1> DEFINE c == s.lists[l]
           k == Len(c)
<1>1. PICK f : RowsAre(f, rs, s, l)
  BY RowsOfList
<1>2. /\ l \in UsedLists \X AllSlugs /\ l[1] \in ListTables /\ c \in Seq(Entries) /\ k \in Nat /\ DOMAIN c = 1 .. k
      /\ \A i \in 1 .. k : /\ i \in Nat /\ c[i].id \in RowKeys /\ c[i].val \in Nat
                           /\ c[i] = [id |-> c[i].id, val |-> c[i].val]
  <2>1. IsState(s)
    BY DEF Normal
  <2>2. /\ l \in UsedLists \X AllSlugs /\ l[1] \in ListTables
        /\ c \in Seq(Entries) /\ k \in Nat /\ DOMAIN c = 1 .. k
    BY <2>1, ListIs
  <2>3. \A i \in DOMAIN s.lists[l] :
           /\ i \in Nat \ {0} /\ c[i].id \in RowKeys /\ c[i].val \in Nat
           /\ c[i] = [id |-> c[i].id, val |-> c[i].val]
    <3> TAKE i \in DOMAIN s.lists[l]
    <3>1. i \in Nat \ {0} /\ s.lists[l][i].id \in RowKeys /\ s.lists[l][i].val \in Nat
      BY <2>1, ListIs
    <3>2. s.lists[l][i] = [id |-> s.lists[l][i].id, val |-> s.lists[l][i].val]
      <4>1. PICK e \in Entries : e = s.lists[l][i]
        BY <2>1, ListIs
      <4>2. e = [id |-> e.id, val |-> e.val]
        BY DEF Entries
      <4> QED BY <4>1, <4>2
    <3> QED BY <3>1, <3>2
  <2> QED BY <2>2, <2>3
<1>3. ASSUME l # Activity PROVE ListOf(rs, l) = [i \in 1 .. k |-> [id |-> f[i].key[2], val |-> f[i].val]]
  <2>1. PICK rows, place : rows = RowsOf(rs, l) /\ place = [r \in RowsOf(rs, l) |-> RowPlace(r)]
    OBVIOUS
  <2>2. Enumerates(f, k, rows, place)
    BY <1>1, <1>3, <2>1 DEF RowsAre
  <2>3. ListOf(rs, l) = Listed(rows, place)
    BY <2>1 DEF ListOf
  <2> HIDE DEF c, k
  <2>4. Listed(rows, place) = EntriesOf(f, k)
    BY <1>2, <2>2, ListedIs
  <2> QED BY <2>3, <2>4 DEF EntriesOf
<1> HIDE DEF c, k
<1>4. ASSUME NEW i \in 1 .. k
      PROVE  /\ f[i] \in rs /\ f[i].key[2] = c[i].id /\ f[i].val \in Nat
             /\ f[i].val = c[i].val \/ (l[1] = "check_runs" /\ f[i].val = 0)
             /\ Exact(rs, s) => f[i].val = c[i].val
  <2>1. i \in DOMAIN s.lists[l]
    BY <1>2 DEF c
  <2>2. f[i] \in rs /\ Agrees(f[i], ListRow(s, l, i)) /\ SameRow(f[i], ListRow(s, l, i))
    BY <1>1, <2>1 DEF RowsAre
  <2>3. f[i].table = l[1] /\ f[i].key = <<NoSlug, c[i].id>>
    BY <2>2 DEF SameRow, ListRow, c
  <2>4. f[i].val = c[i].val \/ (l[1] = "check_runs" /\ f[i].val = 0)
    <3>1. l[1] # "bot_operations" /\ l[1] # "pull_requests"
      BY <1>2 DEF ListTables
    <3> QED BY <2>2, <2>3, <3>1 DEF Agrees, Loosened, ListRow, c
  <2>5. Exact(rs, s) => f[i].val = c[i].val
    <3>1. ListRow(s, l, i) \in StageState(s)
      BY <1>2, <2>1, StageIs DEF Staged
    <3> QED BY <2>2, <3>1 DEF Exact, ListRow, c
  <2> QED BY <1>2, <2>2, <2>3, <2>4, <2>5
<1>5. PICK g : g = [i \in 1 .. k |-> [id |-> c[i].id, val |-> f[i].val]]
  OBVIOUS
<1>6. \A i \in 1 .. k : /\ g[i].id = c[i].id /\ g[i].val = f[i].val
                        /\ g[i] = [id |-> c[i].id, val |-> f[i].val] /\ g[i] \in Entries
  BY <1>2, <1>4, <1>5 DEF Entries
<1>7. EntriesOf(f, k) = g /\ g = [i \in 1 .. k |-> g[i]] /\ g \in Seq(Entries) /\ Len(g) = k
  <2>1. EntriesOf(f, k) = g
    BY <1>4, <1>5 DEF EntriesOf
  <2>2. g \in [1 .. k -> Entries]
    BY <1>5, <1>6
  <2> QED BY <1>2, <2>1, <2>2
<1>x. l # Activity => ListOf(rs, l) = g
  BY <1>3, <1>7 DEF EntriesOf
<1>8. Exact(rs, s) => g = c
  <2>1. SUFFICES ASSUME Exact(rs, s) PROVE g = c
    OBVIOUS
  <2>2. \A i \in 1 .. k : g[i] = c[i]
    BY <1>2, <1>4, <1>6, <2>1
  <2>3. c = [i \in 1 .. k |-> c[i]]
    BY <1>2 DEF k
  <2> QED BY <1>7, <2>2, <2>3
<1>9. LoadLists(rs)[l] = IF l[1] = "check_runs" THEN LoadChecks(rs, l)
                         ELSE IF l = Activity THEN LoadActivity(rs)
                         ELSE ListOf(rs, l)
  BY <1>2 DEF LoadLists, AllSlugs, Activity
<1>w. ASSUME NEW b, LoadLists(rs)[l] = b,
             \A i \in 1 .. k : f[i].val = b[i].val \/ (l[1] = "check_runs" /\ f[i].val = 0)
      PROVE  \A i \in DOMAIN s.lists[l], r \in rs : SameRow(r, ListRow(s, l, i)) =>
                 r.val = LoadLists(rs)[l][i].val \/ (l[1] = "check_runs" /\ r.val = 0)
  <2> SUFFICES ASSUME NEW i \in DOMAIN s.lists[l], NEW r \in rs, SameRow(r, ListRow(s, l, i))
               PROVE  r.val = b[i].val \/ (l[1] = "check_runs" /\ r.val = 0)
    BY <1>w
  <2>1. f[i] \in rs /\ SameRow(f[i], ListRow(s, l, i))
    BY <1>1 DEF RowsAre
  <2>2. SameRow(r, f[i]) /\ \A x, y \in rs : SameRow(x, y) => x = y
    BY <2>1, SameRows DEF Shown
  <2>3. r = f[i] /\ i \in 1 .. k
    BY <1>2, <2>1, <2>2 DEF c
  <2> QED BY <1>w, <2>3
<1>10. CASE l[1] = "check_runs"
  <2>1. PICK out : out = LoadChecks(rs, l)
    OBVIOUS
  <2>2. /\ out \in Seq(Entries) /\ Len(out) = k
        /\ \A i \in 1 .. k : out[i].id = g[i].id /\ out[i].val # 0 /\ (g[i].val # 0 => out[i] = g[i])
    <3>1. l # Activity
      BY <1>10 DEF Activity
    <3>2. ListOf(rs, l) = [i \in 1 .. k |-> g[i]]
      BY <1>7, <1>x, <3>1
    <3>3. \A i \in 1 .. k : g[i] \in Entries
      BY <1>6
    <3>4. k \in Nat
      BY <1>2
    <3> HIDE DEF c, k
    <3>5. /\ LoadChecks(rs, l) \in Seq(Entries) /\ Len(LoadChecks(rs, l)) = k
          /\ \A i \in 1 .. k : /\ LoadChecks(rs, l)[i].id = g[i].id /\ LoadChecks(rs, l)[i].val # 0
                               /\ g[i].val # 0 => LoadChecks(rs, l)[i] = g[i]
      BY <3>2, <3>3, <3>4, RunsNumbered
    <3> QED BY <2>1, <3>5
  <2>3. ListRead(out, c, l[1])
    BY <1>6, <1>10, <2>2 DEF ListRead, k
  <2>4. Exact(rs, s) => out = c
    <3>1. SUFFICES ASSUME Exact(rs, s) PROVE out = c
      OBVIOUS
    <3>2. \A i \in 1 .. k : c[i].val # 0
      BY <1>2, <1>10 DEF Normal, ListsNormal, ListNormal, c
    <3>3. \A i \in 1 .. k : out[i] = c[i]
      BY <1>8, <2>2, <3>1, <3>2
    <3>4. out = [i \in 1 .. k |-> out[i]] /\ c = [i \in 1 .. k |-> c[i]]
      BY <1>2, <2>2 DEF k
    <3> QED BY <3>3, <3>4
  <2>5. LoadLists(rs)[l] = out
    BY <1>9, <1>10, <2>1
  <2>6. \A i \in 1 .. k : f[i].val = out[i].val \/ (l[1] = "check_runs" /\ f[i].val = 0)
    BY <1>6, <1>10, <2>2
  <2> QED BY <1>w, <2>3, <2>4, <2>5, <2>6 DEF c
<1>11. CASE l[1] # "check_runs"
  <2>1. \A i \in 1 .. k : g[i] = c[i] /\ f[i].val = c[i].val
    BY <1>2, <1>4, <1>6, <1>11
  <2>2. g = c
    <3>1. c = [i \in 1 .. k |-> c[i]]
      BY <1>2 DEF k
    <3> QED BY <1>7, <2>1, <3>1
  <2>3. l = Activity => LoadActivity(rs) = c
    <3>1. SUFFICES ASSUME l = Activity PROVE LoadActivity(rs) = c
      OBVIOUS
    <3>2. PICK place : place = [r \in RowsOf(rs, l) |-> r.val]
      OBVIOUS
    <3>3. LoadActivity(rs) = Listed(RowsOf(rs, l), place)
      BY <3>1, <3>2 DEF LoadActivity, Activity
    <3>4. /\ f \in [1 .. k -> RowsOf(rs, l)]
          /\ \A r \in RowsOf(rs, l) : \E i \in 1 .. k : f[i] = r
      BY <1>1 DEF RowsAre, k, c
    <3>5. \A i \in 1 .. k : place[f[i]] = c[i].val
      BY <2>1, <3>2, <3>4
    <3>6. \A i, j \in 1 .. k : i < j => c[i].val < c[j].val
      BY <1>2, <3>1 DEF InTime, c
    <3>7. PICK rows : rows = RowsOf(rs, l)
      OBVIOUS
    <3>10. \A i \in 1 .. k : place[f[i]] \in Int
      BY <1>2, <3>5
    <3>11. ASSUME NEW i \in 1 .. k, NEW j \in 1 .. k, i < j
           PROVE  place[f[i]] < place[f[j]]
      <4>1. c[i].val < c[j].val
        BY <3>6, <3>11
      <4> QED BY <3>5, <4>1
    <3>8. Enumerates(f, k, rows, place)
      BY <3>4, <3>7, <3>10, <3>11 DEF Enumerates
    <3>9. Listed(rows, place) = EntriesOf(f, k)
      BY <1>2, <3>8, ListedIs
    <3> QED BY <1>7, <2>2, <3>3, <3>7, <3>9
  <2>4. LoadLists(rs)[l] = c
    BY <1>x, <1>9, <1>11, <2>2, <2>3
  <2>5. ListRead(c, c, l[1])
    BY <1>2 DEF ListRead
  <2> QED BY <1>w, <2>1, <2>4, <2>5 DEF c
<1> QED BY <1>10, <1>11

\* The next number is read back as the last one.
LEMMA ReadsCounters ==
    ASSUME NEW rs, NEW s, NEW n \in Nat, Normal(s, n), Shown(rs, s)
    PROVE  /\ LoadCounters(rs) \in [RowSlugs -> Nat \cup {NoCount}]
           /\ \A a \in RowSlugs : LoadCounters(rs)[a] = s.counters[a] \/ LoadCounters(rs)[a] = NoCount
           /\ \A a \in RowSlugs, r \in rs : s.repos[a] # NoUuid /\ SameRow(r, CountRow(s, a)) =>
                 LoadCounters(rs)[a] = s.counters[a] /\ r.val = s.counters[a] + 1
           /\ Exact(rs, s) => LoadCounters(rs) = s.counters
<1> USE DEF Normal
<1>1. ASSUME NEW a \in RowSlugs
      PROVE  /\ LoadCounters(rs)[a] = s.counters[a] \/ LoadCounters(rs)[a] = NoCount
             /\ \A r \in rs : s.repos[a] # NoUuid /\ SameRow(r, CountRow(s, a)) =>
                   LoadCounters(rs)[a] = s.counters[a] /\ r.val = s.counters[a] + 1
             /\ Exact(rs, s) => LoadCounters(rs)[a] = s.counters[a]
  <2> DEFINE place == {r \in Joined(rs, {"repo_counters"}) : SlugOfRow(rs, r) = a}
  <2>1. LoadCounters(rs)[a] = IF place = {} THEN NoCount ELSE Max({1, (CHOOSE r \in place : TRUE).val}) - 1
    BY DEF LoadCounters
  <2>2. ASSUME NEW r \in place
        PROVE  r.val = s.counters[a] + 1 /\ s.counters[a] \in Nat
    <3>1. r \in rs /\ r.table = "repo_counters" /\ SlugOfRow(rs, r) = a
      BY DEF Joined
    <3>2. PICK d \in StageState(s) : Agrees(r, d)
      BY <3>1 DEF Shown
    <3>3. d.table = "repo_counters" /\ r.val = d.val /\ r.repo = d.repo
      BY <3>1, <3>2 DEF Agrees, SameRow, Loosened
    <3>4. PICK b \in RowSlugs : s.repos[b] # NoUuid /\ d = CountRow(s, b)
      BY <3>3, StagedByTable
    <3>5. HasRepo(s, b) /\ RowRepo(s, b) = s.repos[b]
      BY <3>4, SnapshotRowsAssumption DEF HasRepo, RowRepo
    <3>6. r.repo = RowRepo(s, b)
      BY <3>3, <3>4, <3>5 DEF CountRow
    <3>7. b = a
      BY <3>1, <3>5, <3>6, ReadsSlugs
    <3>8. s.counters[a] # NoCount /\ s.counters[a] \in Nat
      BY <3>4, <3>7 DEF CountersNormal, IsState
    <3> QED BY <3>3, <3>4, <3>7, <3>8 DEF CountRow
  <2>r. ASSUME NEW r \in rs, s.repos[a] # NoUuid, SameRow(r, CountRow(s, a))
        PROVE  r \in place
    <3>1. CountRow(s, a) \in StageState(s)
      BY <2>r, StageIs DEF Staged
    <3>2. Agrees(r, CountRow(s, a))
      BY <2>r, <3>1, RowAgrees
    <3>3. HasRepo(s, a) /\ RowRepo(s, a) = s.repos[a]
      BY <2>r, SnapshotRowsAssumption DEF HasRepo, RowRepo
    <3>4. r.table = "repo_counters" /\ r.repo = RowRepo(s, a)
      BY <3>2, <3>3 DEF Agrees, SameRow, CountRow
    <3>5. (r.repo = NoSlug \/ r.repo \in DOMAIN SlugsById(rs)) /\ SlugOfRow(rs, r) = a
      BY <3>3, <3>4, ReadsSlugs
    <3> QED BY <3>4, <3>5 DEF Joined
  <2>3. CASE place # {}
    <3>1. PICK r \in place : r = CHOOSE q \in place : TRUE
      BY <2>3
    <3>2. PICK c : c = r.val
      OBVIOUS
    <3>3. c \in Nat /\ c >= 1 /\ c - 1 = s.counters[a]
      BY <2>2, <3>2
    <3>4. Max({1, c}) = c
      <4>1. Max({1, c}) \in {1, c} /\ \A x \in {1, c} : x <= Max({1, c})
        <5>1. {1, c} \subseteq Nat /\ {1, c} # {} /\ \A x \in {1, c} : x <= c
          BY <3>3
        <5> QED BY <3>3, <5>1, LargestOf
      <4> QED BY <3>3, <4>1
    <3>5. LoadCounters(rs)[a] = s.counters[a]
      <4> HIDE DEF place
      <4> QED BY <2>1, <2>3, <3>1, <3>2, <3>3, <3>4
    <3>6. \A q \in rs : s.repos[a] # NoUuid /\ SameRow(q, CountRow(s, a)) => q.val = s.counters[a] + 1
      <4> HIDE DEF place
      <4> QED BY <2>2, <2>r
    <3> QED BY <3>5, <3>6
  <2>4. CASE place = {}
    <3>1. LoadCounters(rs)[a] = NoCount
      BY <2>1, <2>4
    <3>2. ASSUME Exact(rs, s) PROVE s.counters[a] = NoCount
      <4>1. SUFFICES ASSUME s.repos[a] # NoUuid PROVE FALSE
        BY DEF CountersNormal
      <4>2. CountRow(s, a) \in StageState(s)
        BY <4>1, StageIs DEF Staged
      <4>3. PICK r \in rs : SameRow(r, CountRow(s, a))
        BY <3>2, <4>2 DEF Exact
      <4>4. r \in place
        BY <2>r, <4>1, <4>3
      <4> QED BY <2>4, <4>4
    <3>3. \A q \in rs : ~(s.repos[a] # NoUuid /\ SameRow(q, CountRow(s, a)))
      BY <2>4, <2>r
    <3> QED BY <3>1, <3>2, <3>3
  <2> QED BY <2>3, <2>4
<1>2. \A a \in RowSlugs : s.counters[a] \in Nat \cup {NoCount}
  BY DEF IsState
<1>3. LoadCounters(rs) = [a \in RowSlugs |-> LoadCounters(rs)[a]]
  BY DEF LoadCounters
<1>4. s.counters = [a \in RowSlugs |-> s.counters[a]]
  BY DEF IsState
<1>5. LoadCounters(rs) \in [RowSlugs -> Nat \cup {NoCount}]
  BY <1>1, <1>2, <1>3
<1>6. ASSUME Exact(rs, s) PROVE LoadCounters(rs) = s.counters
  <2>1. [a \in RowSlugs |-> LoadCounters(rs)[a]] = [a \in RowSlugs |-> s.counters[a]]
    BY <1>1, <1>6
  <2> QED BY <1>3, <1>4, <2>1
<1> QED BY <1>1, <1>5, <1>6

\* An entry as it is read from its row.
Unsealed(r) == r.table = "bot_operations" /\ r.val = "unsealed"
AsRead(f, r) ==
    [table |-> f.table, slug |-> f.slug, key |-> f.key,
     val |-> IF f.table = "pull_requests" /\ r.val = "" THEN "own" ELSE r.val]
ReadFrom(s, f, r, e) == SameRow(r, MapRow(s, f)) /\ ~Unsealed(r) /\ e = AsRead(f, r)

\* The repair of the value of an entry.
LEMMA EntryChanged ==
    ASSUME NEW a, NEW b, NEW c, NEW d, NEW v, NEW e, e = [table |-> a, slug |-> b, key |-> c, val |-> d]
    PROVE  [e EXCEPT !.val = v] = [table |-> a, slug |-> b, key |-> c, val |-> v]
<1>1. e \in [table : {a}, slug : {b}, key : {c}, val : {d}]
  OBVIOUS
<1>2. PICK q : q = [e EXCEPT !.val = v]
  OBVIOUS
<1>3. q \in [table : {a}, slug : {b}, key : {c}, val : {v}]
  BY <1>1, <1>2
<1>4. q = [table |-> a, slug |-> b, key |-> c, val |-> v]
  BY <1>3
<1> QED BY <1>2, <1>4

\* The entries of all maps, as load_state reads and repairs them.
LEMMA ReadsAllMaps ==
    ASSUME NEW rs, NEW s, NEW n \in Nat, Normal(s, n), Shown(rs, s)
    PROVE  \A e : e \in LoadState(rs).maps <=> \E f \in s.maps, r \in rs : ReadFrom(s, f, r, e)
<1> TAKE e
<1> DEFINE A(T) == \E f \in s.maps, r \in rs : f.table \in T /\ ReadFrom(s, f, r, e)
           Plain(T) == T \subseteq MapTables /\ "bot_operations" \notin T /\ "pull_requests" \notin T
<1>1. \A f \in s.maps : f.table \in MapTables
  BY DEF Normal, MapsNormal, EntryNormal
<1>2. \A r, f : SameRow(r, MapRow(s, f)) => r.table = f.table
  BY DEF SameRow, MapRow
<1>3. ASSUME NEW T, Plain(T)
      PROVE  e \in LoadedMaps(rs, T) <=> A(T)
  <2>1. ASSUME NEW f \in s.maps, NEW r \in rs, f.table \in T, SameRow(r, MapRow(s, f))
        PROVE  ReadFrom(s, f, r, e) <=> e = [table |-> f.table, slug |-> f.slug, key |-> f.key, val |-> r.val]
    BY <1>2, <1>3, <2>1 DEF ReadFrom, AsRead, Unsealed
  <2>2. \A f \in s.maps, r \in rs : ReadFrom(s, f, r, e) => SameRow(r, MapRow(s, f))
    BY DEF ReadFrom
  <2> QED BY <1>3, <2>1, <2>2, ReadsMaps
<1>4. e \in LoadBots(rs) <=> A(BotTables)
  <2>1. BotTables \subseteq MapTables /\ "pull_requests" \notin BotTables
    BY DEF BotTables, MapTables, GlobalTables
  <2>2. ASSUME NEW f \in s.maps, NEW r \in rs, f.table \in BotTables, SameRow(r, MapRow(s, f))
        PROVE  ReadFrom(s, f, r, e) <=> /\ e = [table |-> f.table, slug |-> f.slug, key |-> f.key, val |-> r.val]
                                        /\ ~(e.table = "bot_operations" /\ e.val = "unsealed")
    <3>1. PICK x : x = [table |-> f.table, slug |-> f.slug, key |-> f.key, val |-> r.val]
      OBVIOUS
    <3>2. x.table = f.table /\ x.val = r.val /\ r.table = f.table /\ f.table # "pull_requests"
      BY <1>2, <2>1, <2>2, <3>1
    <3>3. AsRead(f, r) = x
      BY <3>1, <3>2 DEF AsRead
    <3>4. Unsealed(r) <=> x.table = "bot_operations" /\ x.val = "unsealed"
      BY <3>2 DEF Unsealed
    <3> QED BY <2>2, <3>1, <3>3, <3>4 DEF ReadFrom
  <2>3. \A f \in s.maps, r \in rs : ReadFrom(s, f, r, e) => SameRow(r, MapRow(s, f))
    BY DEF ReadFrom
  <2>4. e \in LoadBots(rs) <=> e \in LoadedMaps(rs, BotTables) /\ ~(e.table = "bot_operations" /\ e.val = "unsealed")
    BY DEF LoadBots
  <2> QED BY <2>1, <2>2, <2>3, <2>4, ReadsMaps
<1>5. e \in LoadPulls(rs) <=> A({"pull_requests"})
  <2> DEFINE Own(x) == IF x.val = "" THEN [x EXCEPT !.val = "own"] ELSE x
  <2>1. {"pull_requests"} \subseteq MapTables
    BY DEF MapTables, ScopedTables
  <2>2. e \in LoadPulls(rs) <=> \E x \in LoadedMaps(rs, {"pull_requests"}) : e = Own(x)
    BY DEF LoadPulls
  <2>3. ASSUME NEW f \in s.maps, NEW r \in rs, f.table \in {"pull_requests"}, SameRow(r, MapRow(s, f)), NEW x,
               x = [table |-> f.table, slug |-> f.slug, key |-> f.key, val |-> r.val]
        PROVE  ReadFrom(s, f, r, e) <=> e = Own(x)
    <3>1. Own(x) = AsRead(f, r)
      <4>1. CASE r.val = ""
        <5>1. PICK a, b, c, d, v : a = f.table /\ b = f.slug /\ c = f.key /\ d = r.val /\ v = "own"
          OBVIOUS
        <5>2. x = [table |-> a, slug |-> b, key |-> c, val |-> d]
          BY <2>3, <5>1
        <5>3. [x EXCEPT !.val = v] = [table |-> a, slug |-> b, key |-> c, val |-> v]
          BY <5>2, EntryChanged
        <5>4. x.val = ""
          BY <2>3, <4>1
        <5> QED BY <2>3, <4>1, <5>1, <5>3, <5>4 DEF AsRead
      <4>2. CASE r.val # ""
        BY <2>3, <4>2 DEF AsRead
      <4> QED BY <4>1, <4>2
    <3>2. ~Unsealed(r)
      BY <1>2, <2>3 DEF Unsealed
    <3> HIDE DEF Own
    <3> QED BY <2>3, <3>1, <3>2 DEF ReadFrom
  <2> HIDE DEF Own
  <2>4. ASSUME NEW x \in LoadedMaps(rs, {"pull_requests"}), e = Own(x) PROVE A({"pull_requests"})
    <3>1. PICK f \in s.maps, r \in rs :
             /\ f.table \in {"pull_requests"} /\ SameRow(r, MapRow(s, f))
             /\ x = [table |-> f.table, slug |-> f.slug, key |-> f.key, val |-> r.val]
      BY <2>1, ReadsMaps
    <3> QED BY <2>3, <2>4, <3>1
  <2>5. ASSUME NEW f \in s.maps, NEW r \in rs, f.table \in {"pull_requests"}, ReadFrom(s, f, r, e)
        PROVE  \E x \in LoadedMaps(rs, {"pull_requests"}) : e = Own(x)
    <3>1. PICK x : x = [table |-> f.table, slug |-> f.slug, key |-> f.key, val |-> r.val]
      OBVIOUS
    <3>2. SameRow(r, MapRow(s, f))
      BY <2>5 DEF ReadFrom
    <3>3. x \in LoadedMaps(rs, {"pull_requests"})
      BY <2>1, <2>5, <3>1, <3>2, ReadsMaps
    <3>4. e = Own(x)
      BY <2>3, <2>5, <3>1, <3>2
    <3> QED BY <3>3, <3>4
  <2> QED BY <2>2, <2>4, <2>5
<1>6. A(MapTables) <=> \/ A(AccountTables) \/ A(BotTables) \/ A({"provider_connections"})
                       \/ A({"bot_access_tokens"}) \/ A({"bot_repo_grants"})
                       \/ A({"password_recovery_tokens"}) \/ A(MemberTables) \/ A(MoveTables)
                       \/ A(TrackerTables) \/ A({"pull_requests"}) \/ A(RuleTables)
  <2>1. \A T : T \in MapTables <=>
           \/ T \in AccountTables \/ T \in BotTables \/ T \in {"provider_connections"}
           \/ T \in {"bot_access_tokens"} \/ T \in {"bot_repo_grants"}
           \/ T \in {"password_recovery_tokens"} \/ T \in MemberTables \/ T \in MoveTables
           \/ T \in TrackerTables \/ T \in {"pull_requests"} \/ T \in RuleTables
    BY DEF MapTables, GlobalTables, ScopedTables
  <2> QED BY <2>1
<1>7. A(MapTables) <=> \E f \in s.maps, r \in rs : ReadFrom(s, f, r, e)
  BY <1>1
<1>8. /\ Plain(AccountTables) /\ Plain({"provider_connections"}) /\ Plain({"bot_access_tokens"})
      /\ Plain({"bot_repo_grants"}) /\ Plain({"password_recovery_tokens"}) /\ Plain(MemberTables)
      /\ Plain(MoveTables) /\ Plain(TrackerTables) /\ Plain(RuleTables)
  BY DEF MapTables, GlobalTables, ScopedTables, AccountTables, BotTables, MemberTables, MoveTables,
         TrackerTables, RuleTables
<1> HIDE DEF A, Plain
<1>9. /\ e \in LoadAccounts(rs) <=> A(AccountTables)
      /\ e \in LoadConnections(rs) <=> A({"provider_connections"})
      /\ e \in LoadAccessTokens(rs) <=> A({"bot_access_tokens"})
      /\ e \in LoadBotGrants(rs) <=> A({"bot_repo_grants"})
      /\ e \in LoadRecoveries(rs) <=> A({"password_recovery_tokens"})
      /\ e \in LoadMembers(rs) <=> A(MemberTables)
      /\ e \in LoadMoves(rs) <=> A(MoveTables)
      /\ e \in LoadTracker(rs) <=> A(TrackerTables)
      /\ e \in LoadRules(rs) <=> A(RuleTables)
  BY <1>3, <1>8 DEF LoadAccounts, LoadConnections, LoadAccessTokens, LoadBotGrants, LoadRecoveries,
     LoadMembers, LoadMoves, LoadTracker, LoadRules
<1>10. e \in LoadState(rs).maps <=> A(MapTables)
  <2>1. LoadState(rs).maps =
          LoadAccounts(rs) \cup LoadBots(rs) \cup LoadConnections(rs) \cup LoadAccessTokens(rs)
              \cup LoadBotGrants(rs) \cup LoadRecoveries(rs) \cup LoadMembers(rs) \cup LoadMoves(rs)
              \cup LoadTracker(rs) \cup LoadPulls(rs) \cup LoadRules(rs)
    BY DEF LoadState
  <2> QED BY <1>4, <1>5, <1>6, <1>9, <2>1
<1> QED BY <1>7, <1>10

\* A state is its four parts.
LEMMA StateIs ==
    \A s : IsState(s) =>
       s = [repos |-> s.repos, maps |-> s.maps, lists |-> s.lists, counters |-> s.counters]
  BY DEF IsState

\* The repair of the counters.
LEMMA CountersChanged ==
    ASSUME NEW s, NEW c, s = [repos |-> s.repos, maps |-> s.maps, lists |-> s.lists, counters |-> s.counters]
    PROVE  [s EXCEPT !.counters = c] = [repos |-> s.repos, maps |-> s.maps, lists |-> s.lists, counters |-> c]
<1>1. s \in [repos : {s.repos}, maps : {s.maps}, lists : {s.lists}, counters : {s.counters}]
  <2>1. PICK a1, a2, a3, a4 : a1 = s.repos /\ a2 = s.maps /\ a3 = s.lists /\ a4 = s.counters
    OBVIOUS
  <2>2. s = [repos |-> a1, maps |-> a2, lists |-> a3, counters |-> a4]
    BY <2>1
  <2>3. s \in [repos : {a1}, maps : {a2}, lists : {a3}, counters : {a4}]
    BY <2>2
  <2> QED BY <2>1, <2>3
<1>2. PICK q : q = [s EXCEPT !.counters = c]
  OBVIOUS
<1>3. q \in [repos : {s.repos}, maps : {s.maps}, lists : {s.lists}, counters : {c}]
  BY <1>1, <1>2
<1>4. q = [repos |-> s.repos, maps |-> s.maps, lists |-> s.lists, counters |-> c]
  BY <1>3
<1> QED BY <1>2, <1>4

\* What was persisted is read back as it was.
LEMMA LoadsExact ==
    ASSUME NEW rs, NEW s, NEW n \in Nat, Normal(s, n), InTime(s), Exact(rs, s)
    PROVE  LoadState(rs) = s
<1> USE DEF Normal
<1>1. Shown(rs, s)
  BY DEF Exact
<1>2. LoadRepositories(rs) = s.repos
  BY <1>1, ReadsSlugs
<1>3. LoadCounters(rs) = s.counters
  BY <1>1, ReadsCounters
<1>4. LoadLists(rs) = s.lists
  <2>1. \A l \in DOMAIN s.lists : LoadLists(rs)[l] = s.lists[l]
    BY <1>1, ReadsLists
  <2>2. DOMAIN s.lists = UsedLists \X AllSlugs /\ s.lists = [l \in DOMAIN s.lists |-> s.lists[l]]
    BY DEF IsState
  <2>3. LoadLists(rs) = [l \in UsedLists \X AllSlugs |-> LoadLists(rs)[l]]
    BY DEF LoadLists, AllSlugs
  <2>4. [l \in DOMAIN s.lists |-> LoadLists(rs)[l]] = [l \in DOMAIN s.lists |-> s.lists[l]]
    BY <2>1
  <2> QED BY <2>2, <2>3, <2>4
<1>5. LoadState(rs).maps = s.maps
  <2>1. ASSUME NEW f \in s.maps, NEW r \in rs, SameRow(r, MapRow(s, f))
        PROVE  ~Unsealed(r) /\ AsRead(f, r) = f
    <3>1. EntryNormal(s, f)
      BY DEF MapsNormal
    <3>2. MapRow(s, f) \in StageState(s)
      BY <3>1, StageIs DEF Staged, EntryNormal
    <3>3. r.val = f.val
      BY <2>1, <3>2 DEF Exact, MapRow
    <3>4. r.val # "unsealed" /\ r.val # ""
      BY <3>1, <3>3 DEF EntryNormal
    <3>5. ~Unsealed(r)
      BY <3>4 DEF Unsealed
    <3>6. AsRead(f, r) = [table |-> f.table, slug |-> f.slug, key |-> f.key, val |-> f.val]
      BY <3>3, <3>4 DEF AsRead
    <3> QED BY <3>1, <3>5, <3>6 DEF EntryNormal
  <2>2. ASSUME NEW f \in s.maps
        PROVE  \E r \in rs : SameRow(r, MapRow(s, f))
    <3>1. MapRow(s, f) \in StageState(s)
      BY StageIs DEF Staged, MapsNormal, EntryNormal
    <3> QED BY <3>1 DEF Exact
  <2>3. ASSUME NEW e, e \in LoadState(rs).maps
        PROVE  e \in s.maps
    <3>1. PICK f \in s.maps, r \in rs : ReadFrom(s, f, r, e)
      BY <1>1, <2>3, ReadsAllMaps
    <3> QED BY <2>1, <3>1 DEF ReadFrom
  <2>4. ASSUME NEW e \in s.maps
        PROVE  e \in LoadState(rs).maps
    <3>1. PICK r \in rs : SameRow(r, MapRow(s, e))
      BY <2>2
    <3>2. ReadFrom(s, e, r, e)
      BY <2>1, <3>1 DEF ReadFrom
    <3> QED BY <1>1, <3>2, ReadsAllMaps
  <2> QED BY <2>3, <2>4
<1>6. LoadState(rs) = [repos |-> LoadRepositories(rs), maps |-> LoadState(rs).maps,
                       lists |-> LoadLists(rs), counters |-> LoadCounters(rs)]
  BY DEF LoadState
<1> QED BY <1>2, <1>3, <1>4, <1>5, <1>6, StateIs

\* A state with all its counters has nothing to be repaired.
LEMMA NothingToBackfill ==
    ASSUME NEW s, NEW n \in Nat, Normal(s, n)
    PROVE  BackfillCounters(s) = s
<1> DEFINE c == [r \in RowSlugs |->
                   IF s.repos[r] # NoUuid /\ s.counters[r] = NoCount THEN Max({0} \cup Numbers(s, r))
                   ELSE s.counters[r]]
<1>1. c = s.counters
  <2>1. \A r \in RowSlugs : c[r] = s.counters[r]
    BY DEF Normal, CountersNormal
  <2>2. s.counters = [r \in RowSlugs |-> s.counters[r]]
    BY DEF Normal, IsState
  <2>3. c = [r \in RowSlugs |-> c[r]]
    OBVIOUS
  <2> HIDE DEF c
  <2>4. [r \in RowSlugs |-> c[r]] = [r \in RowSlugs |-> s.counters[r]]
    BY <2>1
  <2> QED BY <2>2, <2>3, <2>4
<1>2. BackfillCounters(s) = [s EXCEPT !.counters = c]
  BY DEF BackfillCounters
<1> HIDE DEF c
<1>3. [s EXCEPT !.counters = c] = [repos |-> s.repos, maps |-> s.maps, lists |-> s.lists, counters |-> c]
  BY CountersChanged, StateIs DEF Normal
<1> QED BY <1>1, <1>2, <1>3, StateIs DEF Normal

\* A state by its parts.
Is(s, a, b, c, d) == s = [repos |-> a, maps |-> b, lists |-> c, counters |-> d]

\* The parts of a state that is given by them.
LEMMA PartsAre ==
    ASSUME NEW s, NEW a, NEW b, NEW c, NEW d, Is(s, a, b, c, d)
    PROVE  s.repos = a /\ s.maps = b /\ s.lists = c /\ s.counters = d
  BY DEF Is

\* A change of some parts leaves the others.
LEMMA FieldsAre ==
    ASSUME NEW s, NEW a, NEW b, NEW c, NEW d, Is(s, a, b, c, d), NEW x, NEW y, NEW z, NEW w
    PROVE  /\ Is([s EXCEPT !.maps = y], a, y, c, d)
           /\ Is([s EXCEPT !.lists = z], a, b, z, d)
           /\ Is([s EXCEPT !.repos = x, !.counters = w, !.maps = y], x, y, c, w)
           /\ Is([s EXCEPT !.counters = w, !.maps = y], a, y, c, w)
           /\ Is([s EXCEPT !.repos = x, !.counters = w, !.maps = y, !.lists = z], x, y, z, w)
<1>1. s \in [repos : {a}, maps : {b}, lists : {c}, counters : {d}]
  BY DEF Is
<1>2. ASSUME NEW q, q = [s EXCEPT !.maps = y]
      PROVE  Is(q, a, y, c, d)
  <2>1. q \in [repos : {a}, maps : {y}, lists : {c}, counters : {d}]
    BY <1>1, <1>2
  <2> QED BY <2>1 DEF Is
<1>3. ASSUME NEW q, q = [s EXCEPT !.lists = z]
      PROVE  Is(q, a, b, z, d)
  <2>1. q \in [repos : {a}, maps : {b}, lists : {z}, counters : {d}]
    BY <1>1, <1>3
  <2> QED BY <2>1 DEF Is
<1>4. ASSUME NEW q, q = [s EXCEPT !.repos = x, !.counters = w, !.maps = y]
      PROVE  Is(q, x, y, c, w)
  <2>1. q \in [repos : {x}, maps : {y}, lists : {c}, counters : {w}]
    BY <1>1, <1>4
  <2> QED BY <2>1 DEF Is
<1>5. ASSUME NEW q, q = [s EXCEPT !.counters = w, !.maps = y]
      PROVE  Is(q, a, y, c, w)
  <2>1. q \in [repos : {a}, maps : {y}, lists : {c}, counters : {w}]
    BY <1>1, <1>5
  <2> QED BY <2>1 DEF Is
<1>6. ASSUME NEW q, q = [s EXCEPT !.repos = x, !.counters = w, !.maps = y, !.lists = z]
      PROVE  Is(q, x, y, z, w)
  <2>1. q \in [repos : {x}, maps : {y}, lists : {z}, counters : {w}]
    BY <1>1, <1>6
  <2> QED BY <2>1 DEF Is
<1> QED BY <1>2, <1>3, <1>4, <1>5, <1>6

\* A state is given by its parts.
LEMMA NormalIs ==
    ASSUME NEW s, NEW n, Normal(s, n)
    PROVE  Is(s, s.repos, s.maps, s.lists, s.counters)
  BY DEF Normal, IsState, Is

----------------------------------------------------------------------------
(* Events in the order of their times *)

\* Numbers that differ can be taken one by one, the smaller first.
Orders(p, k, v) ==
    /\ p \in [1 .. k -> 1 .. k]
    /\ \A m \in 1 .. k : \E i \in 1 .. k : p[i] = m
    /\ \A i, j \in 1 .. k : i < j => v[p[i]] < v[p[j]]

LEMMA OrderedIs ==
    ASSUME NEW k \in Nat, NEW v, \A i \in 1 .. k : v[i] \in Int, \A i, j \in 1 .. k : v[i] = v[j] => i = j
    PROVE  \E p : Orders(p, k, v)
<1> DEFINE Upto(i) == {j \in 1 .. k : v[j] <= v[i]}
           q == [i \in 1 .. k |-> Cardinality(Upto(i))]
<1>1. IsFiniteSet(1 .. k) /\ Cardinality(1 .. k) = k
  BY FS_Interval
<1>2. \A i \in 1 .. k : Upto(i) \in SUBSET (1 .. k) /\ i \in Upto(i)
  OBVIOUS
<1>3. \A i \in 1 .. k, j \in 1 .. k : j \in Upto(i) <=> v[j] <= v[i]
  OBVIOUS
<1>4. \A i \in 1 .. k : q[i] = Cardinality(Upto(i))
  OBVIOUS
<1>14. q = [i \in 1 .. k |-> q[i]]
  OBVIOUS
<1> HIDE DEF Upto, q
<1>5. ASSUME NEW i \in 1 .. k
      PROVE  IsFiniteSet(Upto(i)) /\ q[i] \in 1 .. k
  <2>1. IsFiniteSet(Upto(i)) /\ Cardinality(Upto(i)) <= k
    BY <1>1, <1>2, FS_Subset
  <2>2. Upto(i) # {}
    BY <1>2
  <2>3. Cardinality(Upto(i)) \in Nat /\ Cardinality(Upto(i)) # 0
    BY <2>1, <2>2, FS_CardinalityType, FS_EmptySet
  <2> QED BY <1>4, <2>1, <2>3
<1>6. ASSUME NEW i \in 1 .. k, NEW j \in 1 .. k, v[i] < v[j]
      PROVE  q[i] < q[j]
  <2>1. v[i] \in Int /\ v[j] \in Int
    OBVIOUS
  <2>2. Upto(i) \subseteq Upto(j)
    <3> SUFFICES ASSUME NEW m \in Upto(i) PROVE m \in Upto(j)
      OBVIOUS
    <3>1. m \in 1 .. k /\ v[m] <= v[i] /\ v[m] \in Int
      BY <1>2, <1>3
    <3>2. v[m] <= v[j]
      BY <1>6, <2>1, <3>1
    <3> QED BY <1>3, <3>1, <3>2
  <2>3. j \in Upto(j) /\ j \notin Upto(i)
    BY <1>2, <1>3, <1>6, <2>1
  <2>4. Upto(i) # Upto(j) /\ Upto(i) \in SUBSET Upto(j)
    BY <2>2, <2>3
  <2>5. Cardinality(Upto(i)) <= Cardinality(Upto(j)) /\ Cardinality(Upto(j)) # Cardinality(Upto(i))
    BY <1>5, <2>4, FS_Subset
  <2>6. q[i] <= q[j] /\ q[j] # q[i]
    BY <1>4, <2>5
  <2>7. q[i] \in 1 .. k /\ q[j] \in 1 .. k
    BY <1>5
  <2> QED BY <2>6, <2>7
<1>7. ASSUME NEW i \in 1 .. k, NEW j \in 1 .. k, q[i] = q[j]
      PROVE  i = j
  <2>1. v[i] \in Int /\ v[j] \in Int /\ q[i] \in 1 .. k /\ q[j] \in 1 .. k
    BY <1>5
  <2>2. ~(v[i] < v[j]) /\ ~(v[j] < v[i])
    BY <1>6, <1>7, <2>1
  <2>3. v[i] = v[j]
    BY <2>1, <2>2
  <2> QED BY <2>3
<1>8. q \in Injection(1 .. k, 1 .. k)
  BY <1>5, <1>7, <1>14 DEF Injection, IsInjective
<1>9. q \in Surjection(1 .. k, 1 .. k)
  BY <1>1, <1>8, FS_Injection
<1>10. \A m \in 1 .. k : \E i \in 1 .. k : q[i] = m
  BY <1>9 DEF Surjection
<1>11. PICK p : p = [m \in 1 .. k |-> CHOOSE i \in 1 .. k : q[i] = m]
  OBVIOUS
<1>12. \A m \in 1 .. k : p[m] \in 1 .. k /\ q[p[m]] = m
  BY <1>10, <1>11
<1>13. Orders(p, k, v)
  <2>1. p \in [1 .. k -> 1 .. k]
    BY <1>11, <1>12
  <2>2. ASSUME NEW m \in 1 .. k PROVE \E i \in 1 .. k : p[i] = m
    <3>1. q[m] \in 1 .. k
      BY <1>5
    <3>2. p[q[m]] \in 1 .. k /\ q[p[q[m]]] = q[m]
      BY <1>12, <3>1
    <3>3. p[q[m]] = m
      BY <1>7, <3>2
    <3> QED BY <3>1, <3>3
  <2>3. ASSUME NEW i \in 1 .. k, NEW j \in 1 .. k, i < j PROVE v[p[i]] < v[p[j]]
    <3>1. PICK a \in 1 .. k, b \in 1 .. k : a = p[i] /\ b = p[j] /\ q[a] = i /\ q[b] = j
      BY <1>12
    <3>2. v[a] \in Int /\ v[b] \in Int /\ a # b
      BY <2>3, <3>1
    <3>3. v[a] # v[b]
      BY <3>2
    <3>4. ~(v[b] < v[a])
      <4>1. v[b] < v[a] => j < i
        BY <1>6, <3>1
      <4> QED BY <2>3, <4>1
    <3>5. v[a] < v[b]
      BY <3>2, <3>3, <3>4
    <3> QED BY <3>1, <3>5
  <2> QED BY <2>1, <2>2, <2>3 DEF Orders
<1> QED BY <1>13

\* A list of events in the order of their times has the same events.
Permutes(p, b, c) ==
    /\ p \in [DOMAIN c -> DOMAIN c] /\ \A m \in DOMAIN c : \E i \in DOMAIN c : p[i] = m
    /\ \A i \in DOMAIN c : b[i] = c[p[i]]
    /\ \A i, j \in DOMAIN c : p[i] = p[j] => i = j

Rearranged(b, c) ==
    /\ b \in Seq(Entries) /\ DOMAIN b = DOMAIN c /\ Len(b) = Len(c)
    /\ \E p : Permutes(p, b, c)
    /\ \A i, j \in DOMAIN c : i < j => b[i].val < b[j].val

LEMMA EventsOrdered ==
    ASSUME NEW c \in Seq(Entries), \A i, j \in DOMAIN c : c[i].val = c[j].val => i = j
    PROVE  /\ Rearranged(InTimeOrder(c), c)
           /\ (\A i, j \in DOMAIN c : i < j => c[i].val < c[j].val) => InTimeOrder(c) = c
<1> DEFINE es == Events(c)
           when == [e \in es |-> e.val]
<1>1. PICK k \in Nat : Len(c) = k /\ DOMAIN c = 1 .. k
  OBVIOUS
<1>2. PICK v : v = [i \in 1 .. k |-> c[i].val]
  OBVIOUS
<1>3. \A i \in 1 .. k : c[i] \in Entries /\ c[i].val \in Nat /\ v[i] = c[i].val /\ v[i] \in Int
  <2>1. \A i \in 1 .. k : c[i] \in Entries
    BY <1>1
  <2>2. \A e \in Entries : e.val \in Nat
    BY DEF Entries
  <2> QED BY <1>2, <2>1, <2>2
<1>4. \A e \in es : e \in Entries /\ when[e] = e.val /\ \E i \in 1 .. k : c[i] = e
  BY <1>1, <1>3 DEF Events
<1>5. \A i \in 1 .. k : c[i] \in es
  BY <1>1 DEF Events
<1>6. InTimeOrder(c) = [i \in 1 .. Cardinality(es) |-> Ranked(es, when, i)]
  BY DEF InTimeOrder
<1> HIDE DEF es, when
<1>7. ASSUME NEW f, f \in [1 .. k -> es], \A e \in es : \E i \in 1 .. k : f[i] = e,
             \A i, j \in 1 .. k : i < j => f[i].val < f[j].val
      PROVE  InTimeOrder(c) = f
  <2>1. \A i \in 1 .. k : f[i] \in es /\ when[f[i]] = f[i].val /\ when[f[i]] \in Int
    BY <1>4, <1>7 DEF Entries
  <2>2. \A i, j \in 1 .. k : i < j => when[f[i]] < when[f[j]]
    BY <1>7, <2>1
  <2>3. Enumerates(f, k, es, when)
    BY <1>7, <2>1, <2>2 DEF Enumerates
  <2>4. Cardinality(es) = k /\ \A i \in 1 .. k : Ranked(es, when, i) = f[i]
    BY <2>3, RankedIs
  <2>5. InTimeOrder(c) = [i \in 1 .. k |-> Ranked(es, when, i)]
    BY <1>6, <2>4
  <2>6. [i \in 1 .. k |-> Ranked(es, when, i)] = [i \in 1 .. k |-> f[i]]
    BY <2>4
  <2>7. f = [i \in 1 .. k |-> f[i]]
    BY <1>7
  <2> QED BY <2>5, <2>6, <2>7
<1>8. ASSUME \A i, j \in DOMAIN c : i < j => c[i].val < c[j].val
      PROVE  InTimeOrder(c) = c
  <2>1. c \in [1 .. k -> es]
    BY <1>1, <1>5
  <2>2. \A e \in es : \E i \in 1 .. k : c[i] = e
    BY <1>4
  <2>3. \A i, j \in 1 .. k : i < j => c[i].val < c[j].val
    BY <1>1, <1>8
  <2> QED BY <1>7, <2>1, <2>2, <2>3
<1>9. PICK p : Orders(p, k, v)
  <2>1. \A i, j \in 1 .. k : v[i] = v[j] => i = j
    BY <1>1, <1>3
  <2> QED BY <1>3, <2>1, OrderedIs
<1>10. PICK f : f = [i \in 1 .. k |-> c[p[i]]]
  OBVIOUS
<1>11. \A i \in 1 .. k : p[i] \in 1 .. k /\ f[i] = c[p[i]] /\ f[i] \in es /\ f[i] \in Entries
  BY <1>3, <1>5, <1>9, <1>10 DEF Orders
<1>12. \A i, j \in 1 .. k : i < j => f[i].val < f[j].val
  <2>1. ASSUME NEW i \in 1 .. k, NEW j \in 1 .. k, i < j PROVE f[i].val < f[j].val
    <3>1. v[p[i]] < v[p[j]]
      BY <1>9, <2>1 DEF Orders
    <3> QED BY <1>3, <1>11, <3>1
  <2> QED BY <2>1
<1>13. \A e \in es : \E i \in 1 .. k : f[i] = e
  <2> TAKE e \in es
  <2>1. PICK m \in 1 .. k : c[m] = e
    BY <1>4
  <2>2. PICK i \in 1 .. k : p[i] = m
    BY <1>9 DEF Orders
  <2> QED BY <1>11, <2>1, <2>2
<1>14. f \in [1 .. k -> es] /\ f \in [1 .. k -> Entries]
  BY <1>10, <1>11
<1>15. InTimeOrder(c) = f
  BY <1>7, <1>12, <1>13, <1>14
<1>16. \A i, j \in 1 .. k : p[i] = p[j] => i = j
  <2>1. ASSUME NEW i \in 1 .. k, NEW j \in 1 .. k, p[i] = p[j] PROVE i = j
    <3>1. f[i].val = f[j].val /\ f[i].val \in Nat
      BY <1>11, <2>1 DEF Entries
    <3>2. ~(i < j) /\ ~(j < i)
      BY <1>12, <3>1
    <3> QED BY <3>2
  <2> QED BY <2>1
<1>17. Rearranged(f, c)
  <2>1. f \in Seq(Entries) /\ Len(f) = k /\ DOMAIN f = 1 .. k
    BY <1>14
  <2>2. p \in [1 .. k -> 1 .. k] /\ \A m \in 1 .. k : \E i \in 1 .. k : p[i] = m
    BY <1>9 DEF Orders
  <2>3. Permutes(p, f, c)
    BY <1>1, <1>11, <1>16, <2>2 DEF Permutes
  <2>4. \A i, j \in DOMAIN c : i < j => f[i].val < f[j].val
    BY <1>1, <1>12
  <2>6. DOMAIN f = DOMAIN c /\ Len(f) = Len(c)
    BY <1>1, <2>1
  <2> QED BY <2>1, <2>3, <2>4, <2>6 DEF Rearranged
<1> QED BY <1>8, <1>15, <1>17

\* The state with its events in order is as good as the other, and has its rows.
LEMMA SortedIs ==
    ASSUME NEW s, NEW n \in Nat, Normal(s, n)
    PROVE  /\ Normal(Sorted(s), n) /\ InTime(Sorted(s))
           /\ Sorted(s).repos = s.repos /\ Sorted(s).maps = s.maps /\ Sorted(s).counters = s.counters
           /\ InTime(s) => Sorted(s) = s
           /\ \A rs : /\ Shown(rs, s) => Shown(rs, Sorted(s))
                      /\ Exact(rs, s) => Exact(rs, Sorted(s))
<1> DEFINE L == [l \in DOMAIN s.lists |-> IF l = Activity THEN InTimeOrder(s.lists[l]) ELSE s.lists[l]]
<1>1. Sorted(s) = [s EXCEPT !.lists = L]
  BY DEF Sorted, Activity
<1>2. /\ DOMAIN s.lists = UsedLists \X AllSlugs /\ L = [l \in DOMAIN s.lists |-> L[l]]
      /\ \A l \in DOMAIN s.lists : L[l] = IF l = Activity THEN InTimeOrder(s.lists[l]) ELSE s.lists[l]
  BY DEF Normal, IsState
<1> HIDE DEF L
<1>3. Is(Sorted(s), s.repos, s.maps, L, s.counters)
  <2>1. Is(s, s.repos, s.maps, s.lists, s.counters)
    BY NormalIs
  <2>2. Is([s EXCEPT !.lists = L], s.repos, s.maps, L, s.counters)
    BY <2>1, FieldsAre
  <2> QED BY <1>1, <2>2
<1>4. PICK u : u = Sorted(s)
  OBVIOUS
<1>5. /\ u.repos = s.repos /\ u.maps = s.maps /\ u.lists = L /\ u.counters = s.counters
      /\ u = [repos |-> u.repos, maps |-> u.maps, lists |-> u.lists, counters |-> u.counters]
  BY <1>3, <1>4 DEF Is
<1>6. ASSUME NEW l \in DOMAIN s.lists
      PROVE  /\ s.lists[l] \in Seq(Entries) /\ DOMAIN s.lists[l] = 1 .. Len(s.lists[l])
             /\ l # Activity => L[l] = s.lists[l]
             /\ l = Activity => Rearranged(L[l], s.lists[l])
             /\ l = Activity /\ InTime(s) => L[l] = s.lists[l]
  <2>1. s.lists[l] \in Seq(Entries) /\ DOMAIN s.lists[l] = 1 .. Len(s.lists[l])
    BY ListIs DEF Normal
  <2>2. CASE l # Activity
    BY <1>2, <2>1, <2>2
  <2>3. CASE l = Activity
    <3>1. PICK c : c = s.lists[l]
      OBVIOUS
    <3>2. \A i, j \in DOMAIN c : c[i].val = c[j].val => i = j
      BY <2>3, <3>1 DEF Normal, ListsNormal, ListNormal, Activity
    <3>3. /\ Rearranged(InTimeOrder(c), c)
          /\ (\A i, j \in DOMAIN c : i < j => c[i].val < c[j].val) => InTimeOrder(c) = c
      BY <2>1, <3>1, <3>2, EventsOrdered
    <3>4. InTime(s) => \A i, j \in DOMAIN c : i < j => c[i].val < c[j].val
      BY <2>3, <3>1 DEF InTime
    <3> QED BY <1>2, <2>1, <2>3, <3>1, <3>3, <3>4
  <2> QED BY <2>2, <2>3
<1>7. ASSUME NEW l \in DOMAIN s.lists
      PROVE  /\ L[l] \in Seq(Entries) /\ Len(L[l]) = Len(s.lists[l]) /\ DOMAIN L[l] = DOMAIN s.lists[l]
             /\ \E p : Permutes(p, L[l], s.lists[l])
  <2>1. CASE l # Activity
    <3>1. PICK p : p = [i \in DOMAIN s.lists[l] |-> i]
      OBVIOUS
    <3>2. Permutes(p, s.lists[l], s.lists[l])
      BY <3>1 DEF Permutes
    <3> QED BY <1>6, <2>1, <3>2
  <2>2. CASE l = Activity
    BY <1>6, <2>2 DEF Rearranged
  <2> QED BY <2>1, <2>2
<1>8. /\ \A a : RowRepo(u, a) = RowRepo(s, a) /\ (HasRepo(u, a) <=> HasRepo(s, a))
      /\ \A e : MapRow(u, e) = MapRow(s, e)
      /\ \A a : RepoRow(u, a) = RepoRow(s, a) /\ CountRow(u, a) = CountRow(s, a)
  BY <1>5 DEF RowRepo, HasRepo, MapRow, RepoRow, CountRow
<1>9. IsState(u) /\ ReposNormal(u) /\ CountersNormal(u, n) /\ MapsNormal(u)
  <2>1. L \in [UsedLists \X AllSlugs -> Seq(Entries)]
    BY <1>2, <1>7
  <2>2. IsState(u) /\ ReposNormal(u) /\ CountersNormal(u, n)
    BY <1>5, <2>1 DEF Normal, IsState, ReposNormal, CountersNormal
  <2>3. \A e \in s.maps : EntryNormal(s, e) => EntryNormal(u, e)
    BY <1>5, <1>8 DEF EntryNormal
  <2> QED BY <1>5, <2>2, <2>3 DEF Normal, MapsNormal
<1>10. ListsNormal(u, n)
  <2>1. ASSUME NEW l \in DOMAIN s.lists
        PROVE  ListNormal(u, l, n)
    <3>1. ListNormal(s, l, n)
      BY DEF Normal, ListsNormal
    <3>2. CASE l # Activity
      BY <1>5, <1>6, <1>8, <3>1, <3>2 DEF ListNormal
    <3>3. CASE l = Activity
      <4>1. PICK b, c : b = L[l] /\ c = s.lists[l]
        OBVIOUS
      <4>2. Len(b) = Len(c) /\ DOMAIN b = DOMAIN c /\ Len(c) <= n
        BY <1>7, <3>1, <4>1 DEF ListNormal
      <4>3. \A i, j \in DOMAIN b : b[i].val = b[j].val => i = j
        <5>1. PICK p : Permutes(p, b, c)
          BY <1>7, <4>1
        <5>2. \A i, j \in DOMAIN c : c[i].val = c[j].val => i = j
          BY <3>1, <3>3, <4>1 DEF ListNormal, Activity
        <5>3. ASSUME NEW i \in DOMAIN b, NEW j \in DOMAIN b, b[i].val = b[j].val PROVE i = j
          <6>1. i \in DOMAIN c /\ j \in DOMAIN c
            BY <4>2
          <6>2. p[i] \in DOMAIN c /\ p[j] \in DOMAIN c /\ b[i] = c[p[i]] /\ b[j] = c[p[j]]
            BY <5>1, <6>1 DEF Permutes
          <6>3. p[i] = p[j]
            BY <5>2, <5>3, <6>2
          <6> QED BY <5>1, <6>1, <6>3 DEF Permutes
        <5> QED BY <5>3
      <4>4. l[1] = "bot_activity" /\ l[2] = NoSlug /\ HasRepo(u, l[2])
        BY <3>3 DEF Activity, HasRepo
      <4> QED BY <1>5, <4>1, <4>2, <4>3, <4>4 DEF ListNormal
    <3> QED BY <3>2, <3>3
  <2>2. ASSUME NEW l \in DOMAIN s.lists, NEW m \in DOMAIN s.lists, NEW i \in DOMAIN s.lists[l],
               NEW j \in DOMAIN s.lists[m], l[1] = m[1], L[l][i].id = L[m][j].id
        PROVE  l = m /\ i = j
    <3>1. PICK p : Permutes(p, L[l], s.lists[l])
      BY <1>7
    <3>2. PICK q : Permutes(q, L[m], s.lists[m])
      BY <1>7
    <3>3. s.lists[l][p[i]].id = s.lists[m][q[j]].id /\ p[i] \in DOMAIN s.lists[l] /\ q[j] \in DOMAIN s.lists[m]
      BY <2>2, <3>1, <3>2 DEF Permutes
    <3>4. l = m /\ p[i] = q[j]
      BY <2>2, <3>3 DEF Normal, ListsNormal
    <3>5. s.lists[l][p[i]] = L[l][i] /\ s.lists[l][p[j]] = s.lists[l][q[j]]
      BY <3>1, <3>2, <3>4 DEF Permutes
    <3>6. p[j] \in DOMAIN s.lists[l] /\ s.lists[l][p[j]].id = s.lists[l][p[i]].id
      BY <3>1, <3>4, <3>5 DEF Permutes
    <3>7. p[j] = p[i]
      BY <3>3, <3>6 DEF Normal, ListsNormal
    <3> QED BY <3>1, <3>4, <3>7 DEF Permutes
  <2>3. \A l \in DOMAIN u.lists : l \in DOMAIN s.lists /\ DOMAIN u.lists[l] = DOMAIN s.lists[l]
    BY <1>2, <1>5, <1>7
  <2> QED BY <1>5, <2>1, <2>2, <2>3 DEF ListsNormal
<1>11. Normal(u, n)
  BY <1>9, <1>10 DEF Normal
<1>12. InTime(u)
  <2> SUFFICES ASSUME NEW l \in DOMAIN u.lists, l = Activity
               PROVE  \A i, j \in DOMAIN u.lists[l] : i < j => u.lists[l][i].val < u.lists[l][j].val
    BY DEF InTime
  <2>1. l \in DOMAIN s.lists
    BY <1>2, <1>5
  <2>2. Rearranged(L[l], s.lists[l])
    BY <1>6, <2>1
  <2> QED BY <1>5, <2>2 DEF Rearranged
<1>13. ASSUME InTime(s) PROVE u = s
  <2>1. \A l \in DOMAIN s.lists : L[l] = s.lists[l]
    BY <1>6, <1>13
  <2>2. s.lists = [l \in DOMAIN s.lists |-> s.lists[l]]
    BY DEF Normal, IsState
  <2>3. [l \in DOMAIN s.lists |-> L[l]] = [l \in DOMAIN s.lists |-> s.lists[l]]
    BY <2>1
  <2>4. L = s.lists
    BY <1>2, <2>2, <2>3
  <2> QED BY <1>5, <2>4, NormalIs DEF Is
<1>14. ASSUME NEW d \in StageState(s)
       PROVE  \E e \in StageState(u) : SameRow(e, d) /\ e.repo = d.repo /\ e.val = d.val
  <2>1. CASE d.table \in ListTables
    <3>1. PICK l \in DOMAIN s.lists : \E i \in DOMAIN s.lists[l] : d = ListRow(s, l, i)
      BY <2>1, StagedByTable
    <3>2. PICK m \in DOMAIN s.lists[l] : d = ListRow(s, l, m)
      BY <3>1
    <3>3. PICK i \in DOMAIN s.lists[l] : L[l][i] = s.lists[l][m]
      BY <1>7 DEF Permutes
    <3>4. l[1] \in ListTables /\ l \in DOMAIN u.lists /\ i \in DOMAIN u.lists[l]
      BY <1>2, <1>5, <1>7, ListIs DEF Normal
    <3>5. ListRow(u, l, i) \in StageState(u)
      BY <3>4, StageIs DEF Staged
    <3>6. PICK e : e = ListRow(u, l, i)
      OBVIOUS
    <3>7. SameRow(e, d) /\ e.repo = d.repo /\ e.val = d.val
      BY <1>5, <1>8, <3>2, <3>3, <3>6 DEF ListRow, SameRow
    <3> QED BY <3>5, <3>6, <3>7
  <2>2. CASE d.table \notin ListTables
    <3>1. Staged(s, d)
      BY StageIs
    <3>2. \A l, i : d = ListRow(s, l, i) => l[1] \notin ListTables
      BY <2>2 DEF ListRow
    <3>3. Staged(u, d)
      BY <1>5, <1>8, <3>1, <3>2 DEF Staged
    <3>4. d \in StageState(u)
      BY <3>3, StageIs
    <3> QED BY <3>4, SameRows
  <2> QED BY <2>1, <2>2
<1>15. ASSUME NEW e \in StageState(u)
       PROVE  \E d \in StageState(s) : SameRow(e, d) /\ e.repo = d.repo /\ e.val = d.val
  <2>1. CASE e.table \in ListTables
    <3>1. PICK l \in DOMAIN u.lists : \E i \in DOMAIN u.lists[l] : e = ListRow(u, l, i)
      BY <1>11, <2>1, StagedByTable
    <3>2. PICK i \in DOMAIN u.lists[l] : e = ListRow(u, l, i)
      BY <3>1
    <3>3. l \in DOMAIN s.lists /\ i \in DOMAIN s.lists[l]
      BY <1>2, <1>5, <1>7
    <3>4. PICK m \in DOMAIN s.lists[l] : L[l][i] = s.lists[l][m]
      BY <1>7, <3>3 DEF Permutes
    <3>5. ListRow(s, l, m) \in StageState(s)
      BY <3>3, StageIs, ListIs DEF Staged, Normal
    <3>6. PICK d : d = ListRow(s, l, m)
      OBVIOUS
    <3>7. SameRow(e, d) /\ e.repo = d.repo /\ e.val = d.val
      BY <1>5, <1>8, <3>2, <3>4, <3>6 DEF ListRow, SameRow
    <3> QED BY <3>5, <3>6, <3>7
  <2>2. CASE e.table \notin ListTables
    <3>1. Staged(u, e)
      BY StageIs
    <3>2. \A l, i : e = ListRow(u, l, i) => l[1] \notin ListTables
      BY <2>2 DEF ListRow
    <3>3. Staged(s, e)
      BY <1>5, <1>8, <3>1, <3>2 DEF Staged
    <3>4. e \in StageState(s)
      BY <3>3, StageIs
    <3> QED BY <3>4, SameRows
  <2> QED BY <2>1, <2>2
<1>16. ASSUME NEW rs, Shown(rs, s) PROVE Shown(rs, u)
  <2>1. (\A r \in rs : IsRow(r)) /\ Bounded(rs) /\ \A x, y \in rs : SameRow(x, y) => x = y
    BY <1>16 DEF Shown
  <2>2. ASSUME NEW r \in rs PROVE \E e \in StageState(u) : Agrees(r, e)
    <3>1. PICK d \in StageState(s) : Agrees(r, d)
      BY <1>16 DEF Shown
    <3>2. PICK e \in StageState(u) : SameRow(e, d) /\ e.repo = d.repo /\ e.val = d.val
      BY <1>14
    <3>3. SameRow(r, e)
      BY <3>1, <3>2, SameRows DEF Agrees
    <3> QED BY <3>1, <3>2, <3>3 DEF Agrees
  <2>3. ASSUME NEW e \in StageState(u), e.table # "repo_counters" PROVE \E r \in rs : SameRow(r, e)
    <3>1. PICK d \in StageState(s) : SameRow(e, d)
      BY <1>15
    <3>2. d.table # "repo_counters"
      BY <2>3, <3>1 DEF SameRow
    <3>3. PICK r \in rs : SameRow(r, d)
      BY <1>16, <3>2 DEF Shown
    <3> QED BY <3>1, <3>3, SameRows
  <2>4. InOrder(rs, u)
    <3> SUFFICES ASSUME NEW l \in DOMAIN u.lists, NEW i \in DOMAIN u.lists[l], NEW j \in DOMAIN u.lists[l],
                        l[1] # "bot_activity", i < j, NEW x \in rs, NEW y \in rs,
                        SameRow(x, ListRow(u, l, i)), SameRow(y, ListRow(u, l, j))
                 PROVE  x.rowid < y.rowid
      BY DEF InOrder
    <3>1. l # Activity /\ l \in DOMAIN s.lists
      BY <1>2, <1>5 DEF Activity
    <3>2. u.lists[l] = s.lists[l]
      BY <1>5, <1>6, <3>1
    <3>3. ListRow(u, l, i) = ListRow(s, l, i) /\ ListRow(u, l, j) = ListRow(s, l, j)
      BY <1>8, <3>2 DEF ListRow
    <3>4. InOrder(rs, s)
      BY <1>16 DEF Shown
    <3> QED BY <3>1, <3>2, <3>3, <3>4 DEF InOrder
  <2> QED BY <2>1, <2>2, <2>3, <2>4 DEF Shown
<1>17. ASSUME NEW rs, Exact(rs, s) PROVE Exact(rs, u)
  <2>1. Shown(rs, u)
    BY <1>16, <1>17 DEF Exact
  <2>2. ASSUME NEW r \in rs, NEW e \in StageState(u), SameRow(r, e) PROVE r.val = e.val
    <3>1. PICK d \in StageState(s) : SameRow(e, d) /\ e.val = d.val
      BY <1>15
    <3>2. SameRow(r, d)
      BY <2>2, <3>1, SameRows
    <3> QED BY <1>17, <3>1, <3>2 DEF Exact
  <2>3. ASSUME NEW e \in StageState(u) PROVE \E r \in rs : SameRow(r, e)
    <3>1. PICK d \in StageState(s) : SameRow(e, d)
      BY <1>15
    <3>2. PICK r \in rs : SameRow(r, d)
      BY <1>17 DEF Exact
    <3> QED BY <3>1, <3>2, SameRows
  <2> QED BY <2>1, <2>2, <2>3 DEF Exact
<1> QED BY <1>4, <1>5, <1>11, <1>12, <1>13, <1>16, <1>17

\* What was persisted is read back, events in the order of their times.
LEMMA LoadsSorted ==
    ASSUME NEW rs, NEW s, NEW n \in Nat, Normal(s, n), Exact(rs, s)
    PROVE  LoadState(rs) = Sorted(s)
<1>1. Normal(Sorted(s), n) /\ InTime(Sorted(s)) /\ Exact(rs, Sorted(s))
  BY SortedIs
<1> QED BY <1>1, LoadsExact

----------------------------------------------------------------------------
(* Opening a file other releases may have written to *)

\* What an open makes of the rows: t, of the rows of s.
ReadsAs(rs, s, t) ==
    /\ t = [repos |-> s.repos, maps |-> t.maps, lists |-> t.lists, counters |-> t.counters]
    /\ \A e : e \in t.maps <=> \E f \in s.maps, r \in rs : ReadFrom(s, f, r, e)
    /\ t.lists = LoadLists(rs)
    /\ t.counters \in [RowSlugs -> Nat \cup {NoCount}]
    /\ \A a \in RowSlugs :
          /\ s.repos[a] = NoUuid => t.counters[a] = NoCount
          /\ s.repos[a] # NoUuid => /\ t.counters[a] \in Nat /\ t.counters[a] <= s.counters[a]
                                    /\ \A x \in Numbers(t, a) : x <= t.counters[a]
          /\ \A r \in rs : s.repos[a] # NoUuid /\ SameRow(r, CountRow(s, a)) =>
                t.counters[a] = s.counters[a] /\ r.val = s.counters[a] + 1

\* What is kept of an entry that is read from its row.
LEMMA ReadEntryIs ==
    ASSUME NEW s, NEW f, NEW r, NEW e, ReadFrom(s, f, r, e)
    PROVE  /\ SameRow(r, MapRow(s, f)) /\ ~Unsealed(r) /\ e = AsRead(f, r) /\ SameEntry(e, f)
           /\ e = [table |-> e.table, slug |-> e.slug, key |-> e.key, val |-> e.val]
           /\ (f.table = "pull_requests" /\ r.val = "" => e.val = "own")
           /\ (~(f.table = "pull_requests" /\ r.val = "") => e.val = r.val)
<1>1. PICK a, b, c, d : /\ a = f.table /\ b = f.slug /\ c = f.key
                        /\ d = (IF f.table = "pull_requests" /\ r.val = "" THEN "own" ELSE r.val)
  OBVIOUS
<1>2. e = [table |-> a, slug |-> b, key |-> c, val |-> d]
  BY <1>1 DEF ReadFrom, AsRead
<1>3. e.table = a /\ e.slug = b /\ e.key = c /\ e.val = d
  BY <1>2
<1> QED BY <1>1, <1>2, <1>3 DEF ReadFrom, SameEntry

\* What an open makes of the rows, backfill_missing_counters included.
LEMMA ReopenReads ==
    ASSUME NEW rs, NEW s, NEW n \in Nat, Normal(s, n), Shown(rs, s)
    PROVE  ReadsAs(rs, s, BackfillCounters(LoadState(rs)))
<1> USE DEF Normal
<1> DEFINE u == LoadState(rs)
           c == [a \in RowSlugs |->
                   IF u.repos[a] # NoUuid /\ u.counters[a] = NoCount THEN Max({0} \cup Numbers(u, a))
                   ELSE u.counters[a]]
           t == BackfillCounters(u)
<1>1. /\ u = [repos |-> u.repos, maps |-> u.maps, lists |-> u.lists, counters |-> u.counters]
      /\ u.repos = LoadRepositories(rs) /\ u.lists = LoadLists(rs) /\ u.counters = LoadCounters(rs)
  BY DEF LoadState
<1>2. \A e : e \in u.maps <=> \E f \in s.maps, r \in rs : ReadFrom(s, f, r, e)
  BY ReadsAllMaps
<1>3. u.repos = s.repos
  BY <1>1, ReadsSlugs
<1>4. /\ u.counters \in [RowSlugs -> Nat \cup {NoCount}]
      /\ \A a \in RowSlugs :
           /\ u.counters[a] = s.counters[a] \/ u.counters[a] = NoCount
           /\ \A r \in rs : s.repos[a] # NoUuid /\ SameRow(r, CountRow(s, a)) =>
                 u.counters[a] = s.counters[a] /\ r.val = s.counters[a] + 1
  BY <1>1, ReadsCounters
<1> HIDE DEF u
<1>5. t = [repos |-> s.repos, maps |-> u.maps, lists |-> LoadLists(rs), counters |-> c]
  <2>1. t = [u EXCEPT !.counters = c]
    BY DEF BackfillCounters
  <2> HIDE DEF c, t
  <2>2. [u EXCEPT !.counters = c] = [repos |-> u.repos, maps |-> u.maps, lists |-> u.lists, counters |-> c]
    BY <1>1, CountersChanged
  <2> QED BY <1>1, <1>3, <2>1, <2>2
<1>6. t.maps = u.maps /\ t.counters = c /\ t.lists = LoadLists(rs) /\ t.repos = s.repos
  <2> HIDE DEF c, t
  <2> QED BY <1>5
<1>7. ASSUME NEW a \in RowSlugs, s.repos[a] # NoUuid
      PROVE  /\ Numbers(u, a) \subseteq Nat /\ \A x \in Numbers(u, a) : x <= s.counters[a]
             /\ s.counters[a] \in Nat
  <2>1. s.counters[a] \in Nat
    BY <1>7 DEF CountersNormal, IsState
  <2>2. ASSUME NEW e \in u.maps, e.table = "issues", e.slug = a
        PROVE  e.key \in Nat /\ e.key <= s.counters[a]
    <3>1. PICK f \in s.maps, r \in rs : ReadFrom(s, f, r, e)
      BY <1>2
    <3>2. SameEntry(e, f)
      BY <3>1, ReadEntryIs
    <3> QED BY <2>2, <3>2 DEF SameEntry, MapsNormal, EntryNormal
  <2> QED BY <2>1, <2>2 DEF Numbers
<1>8. ASSUME NEW a \in RowSlugs, s.repos[a] # NoUuid
      PROVE  c[a] \in Nat /\ c[a] <= s.counters[a] /\ \A x \in Numbers(u, a) : x <= c[a]
  <2>1. CASE u.counters[a] = NoCount
    <3> DEFINE S == {0} \cup Numbers(u, a)
    <3>1. S \subseteq Nat /\ S # {} /\ \A x \in S : x <= s.counters[a]
      BY <1>7, <1>8
    <3>2. c[a] = Max(S)
      BY <1>3, <1>8, <2>1
    <3>3. \A x \in Numbers(u, a) : x \in S
      OBVIOUS
    <3> HIDE DEF S, c
    <3>4. Max(S) \in S /\ \A x \in S : x <= Max(S)
      BY <1>7, <1>8, <3>1, LargestOf
    <3> QED BY <3>1, <3>2, <3>3, <3>4
  <2>2. CASE u.counters[a] # NoCount
    <3>1. c[a] = s.counters[a]
      BY <1>4, <2>2
    <3> HIDE DEF c
    <3> QED BY <1>7, <1>8, <3>1
  <2> QED BY <2>1, <2>2
<1>9. ASSUME NEW a \in RowSlugs, s.repos[a] = NoUuid
      PROVE  c[a] = NoCount
  <2>1. s.counters[a] = NoCount
    BY <1>9 DEF CountersNormal
  <2> QED BY <1>3, <1>4, <1>9, <2>1
<1>10. ASSUME NEW a \in RowSlugs, NEW r \in rs, s.repos[a] # NoUuid, SameRow(r, CountRow(s, a))
       PROVE  c[a] = s.counters[a] /\ r.val = s.counters[a] + 1
  <2>1. u.counters[a] = s.counters[a] /\ r.val = s.counters[a] + 1 /\ s.counters[a] # NoCount
    BY <1>4, <1>10 DEF CountersNormal
  <2> QED BY <2>1
<1>11. c \in [RowSlugs -> Nat \cup {NoCount}]
  <2>1. \A a \in RowSlugs : c[a] \in Nat \cup {NoCount}
    BY <1>8, <1>9
  <2> QED BY <2>1
<1>12. \A a : Numbers(t, a) = Numbers(u, a)
  BY <1>6 DEF Numbers
<1> HIDE DEF c, t
<1>13. /\ t = [repos |-> s.repos, maps |-> t.maps, lists |-> t.lists, counters |-> t.counters]
  BY <1>5, <1>6
<1> QED BY <1>2, <1>6, <1>8, <1>9, <1>10, <1>11, <1>12, <1>13 DEF ReadsAs, t, u

\* It is a state the calls of the program may start from, its events in the
\* order of their times.
LEMMA ReopenNormal ==
    ASSUME NEW rs, NEW s, NEW t, NEW n \in Nat, Normal(s, n), InTime(s), Shown(rs, s), ReadsAs(rs, s, t),
           \A r \in rs : ~Unsealed(r)
    PROVE  Normal(t, n) /\ InTime(t)
<1> USE DEF Normal
<1>1. /\ t = [repos |-> s.repos, maps |-> t.maps, lists |-> t.lists, counters |-> t.counters]
      /\ t.repos = s.repos /\ t.lists = LoadLists(rs) /\ t.counters \in [RowSlugs -> Nat \cup {NoCount}]
  BY DEF ReadsAs
<1>2. /\ DOMAIN t.lists = UsedLists \X AllSlugs /\ DOMAIN s.lists = UsedLists \X AllSlugs
      /\ t.lists = [l \in UsedLists \X AllSlugs |-> t.lists[l]]
  <2>1. LoadLists(rs) = [l \in UsedLists \X AllSlugs |-> LoadLists(rs)[l]]
    BY DEF LoadLists, AllSlugs
  <2> QED BY <1>1, <2>1 DEF IsState
<1>3. ASSUME NEW l \in DOMAIN s.lists
      PROVE  /\ l[1] \in ListTables /\ t.lists[l] \in Seq(Entries) /\ Len(t.lists[l]) = Len(s.lists[l])
             /\ DOMAIN t.lists[l] = DOMAIN s.lists[l] /\ (s.lists[l] = <<>> => t.lists[l] = <<>>)
             /\ \A i \in DOMAIN s.lists[l] :
                   /\ t.lists[l][i].id = s.lists[l][i].id
                   /\ \/ t.lists[l][i].val = s.lists[l][i].val
                      \/ l[1] = "check_runs" /\ t.lists[l][i].val # 0
  <2>1. ListRead(t.lists[l], s.lists[l], l[1])
    BY <1>1, ReadsLists
  <2>2. l[1] \in ListTables /\ s.lists[l] \in Seq(Entries) /\ DOMAIN s.lists[l] = 1 .. Len(s.lists[l])
    BY ListIs
  <2>3. t.lists[l] \in Seq(Entries) /\ Len(t.lists[l]) = Len(s.lists[l])
    BY <2>1 DEF ListRead
  <2>4. DOMAIN t.lists[l] = DOMAIN s.lists[l] /\ (s.lists[l] = <<>> => t.lists[l] = <<>>)
    BY <2>2, <2>3
  <2> QED BY <2>1, <2>2, <2>3, <2>4 DEF ListRead
<1>4. IsState(t)
  <2>1. t.lists \in [UsedLists \X AllSlugs -> Seq(Entries)]
    BY <1>2, <1>3
  <2> QED BY <1>1, <2>1 DEF IsState
<1>5. ReposNormal(t)
  BY <1>1 DEF ReposNormal
<1>6. CountersNormal(t, n)
  <2> SUFFICES ASSUME NEW a \in RowSlugs
               PROVE  (t.counters[a] = NoCount <=> t.repos[a] = NoUuid) /\ t.counters[a] <= n
    BY DEF CountersNormal
  <2>1. CASE s.repos[a] = NoUuid
    BY <1>1, <2>1 DEF ReadsAs, NoCount
  <2>2. CASE s.repos[a] # NoUuid
    <3>1. t.counters[a] \in Nat /\ t.counters[a] <= s.counters[a]
      BY <2>2 DEF ReadsAs
    <3>2. s.counters[a] \in Nat /\ s.counters[a] <= n
      BY <2>2 DEF CountersNormal, IsState
    <3> QED BY <1>1, <2>2, <3>1, <3>2 DEF NoCount
  <2> QED BY <2>1, <2>2
<1>7. ASSUME NEW f \in s.maps, NEW r \in rs, NEW e, ReadFrom(s, f, r, e)
      PROVE  /\ EntryNormal(s, f) /\ SameEntry(e, f)
             /\ e.val \notin {"unsealed", ""} /\ (f.table \in Reserving => e.val = f.val)
             /\ SameRow(r, MapRow(s, f)) /\ e = AsRead(f, r)
             /\ e = [table |-> e.table, slug |-> e.slug, key |-> e.key, val |-> e.val]
  <2>1. EntryNormal(s, f)
    BY DEF MapsNormal
  <2>2. MapRow(s, f) \in StageState(s)
    BY <2>1, StageIs DEF Staged, EntryNormal
  <2>11. SameRow(r, MapRow(s, f)) /\ ~Unsealed(r) /\ e = AsRead(f, r) 
    BY <1>7 DEF ReadFrom
  <2>14. SameEntry(e, f)
    BY <1>7, ReadEntryIs
  <2>12. e = [table |-> e.table, slug |-> e.slug, key |-> e.key, val |-> e.val]
    BY <1>7, ReadEntryIs
  <2>13. /\ f.table = "pull_requests" /\ r.val = "" => e.val = "own"
         /\ ~(f.table = "pull_requests" /\ r.val = "") => e.val = r.val
    BY <1>7, ReadEntryIs
  <2>3. /\ SameRow(r, MapRow(s, f)) /\ ~Unsealed(r) /\ e = AsRead(f, r) /\ SameEntry(e, f)
        /\ e = [table |-> e.table, slug |-> e.slug, key |-> e.key, val |-> e.val]
        /\ f.table = "pull_requests" /\ r.val = "" => e.val = "own"
        /\ ~(f.table = "pull_requests" /\ r.val = "") => e.val = r.val
    BY <2>11, <2>12, <2>13, <2>14
  <2>4. Agrees(r, MapRow(s, f))
    BY <2>2, <2>3, RowAgrees
  <2>5. r.table = f.table /\ (r.val = f.val \/ Loosened(r))
    BY <2>4 DEF Agrees, SameRow, MapRow
  <2>6. f.table # "check_runs"
    BY <2>1, TablesApart DEF EntryNormal, ListTables
  <2>7. CASE f.table = "bot_operations"
    BY <2>1, <2>3, <2>5, <2>7 DEF EntryNormal, Loosened, Unsealed
  <2>8. CASE f.table = "pull_requests"
    BY <2>1, <2>3, <2>5, <2>8, TablesApart DEF EntryNormal, Loosened, Unsealed
  <2>9. CASE f.table # "bot_operations" /\ f.table # "pull_requests"
    <3>1. e.val = f.val
      BY <2>3, <2>5, <2>6, <2>9 DEF Loosened
    <3> QED BY <2>1, <2>3, <3>1 DEF EntryNormal
  <2> QED BY <2>1, <2>3, <2>7, <2>8, <2>9
<1>8. \A e \in t.maps : \E f \in s.maps, r \in rs : ReadFrom(s, f, r, e)
  BY DEF ReadsAs
<1>9. MapsNormal(t)
  <2>1. ASSUME NEW e \in t.maps
        PROVE  EntryNormal(t, e)
    <3>1. PICK f \in s.maps, r \in rs : ReadFrom(s, f, r, e)
      BY <1>8
    <3>2. /\ EntryNormal(s, f) /\ SameEntry(e, f) /\ e.val \notin {"unsealed", ""}
          /\ e = [table |-> e.table, slug |-> e.slug, key |-> e.key, val |-> e.val]
      BY <1>7, <3>1
    <3>3. HasRepo(t, e.slug) /\ e.table \in MapTables /\ (e.table \in GlobalTables => e.slug = NoSlug)
      BY <1>1, <3>2 DEF EntryNormal, SameEntry, HasRepo
    <3>4. ASSUME e.table = "issues"
          PROVE  e.slug \in RowSlugs /\ e.key \in Nat /\ e.key <= t.counters[e.slug]
      <4>1. e.slug \in RowSlugs /\ e.key \in Nat
        BY <3>2, <3>4 DEF EntryNormal, SameEntry
      <4>2. s.repos[e.slug] # NoUuid
        BY <1>1, <3>3, <4>1, SnapshotRowsAssumption DEF HasRepo
      <4>3. e.key \in Numbers(t, e.slug)
        BY <3>4 DEF Numbers
      <4> QED BY <4>1, <4>2, <4>3 DEF ReadsAs
    <3> QED BY <3>2, <3>3, <3>4 DEF EntryNormal
  <2>2. ASSUME NEW e \in t.maps, NEW g \in t.maps, SameEntry(e, g)
        PROVE  e = g
    <3>1. PICK f \in s.maps, r \in rs : ReadFrom(s, f, r, e)
      BY <1>8
    <3>2. PICK h \in s.maps, q \in rs : ReadFrom(s, h, q, g)
      BY <1>8
    <3>3. SameEntry(e, f) /\ SameEntry(g, h)
      BY <1>7, <3>1, <3>2
    <3>4. f = h
      BY <2>2, <3>3 DEF SameEntry, MapsNormal
    <3>5. SameRow(r, MapRow(s, f)) /\ SameRow(q, MapRow(s, f)) /\ e = AsRead(f, r) /\ g = AsRead(f, q)
      BY <1>7, <3>1, <3>2, <3>4
    <3>6. r = q
      <4>1. \A x, y \in rs : SameRow(x, y) => x = y
        BY DEF Shown
      <4> QED BY <3>5, <4>1, SameRows
    <3> QED BY <3>5, <3>6
  <2>3. ASSUME NEW e \in t.maps, NEW g \in t.maps, e.table \in Reserving,
               g.table = e.table, e.val = g.val, e.val # "revoked"
        PROVE  e = g
    <3>1. PICK f \in s.maps, r \in rs : ReadFrom(s, f, r, e)
      BY <1>8
    <3>2. PICK h \in s.maps, q \in rs : ReadFrom(s, h, q, g)
      BY <1>8
    <3>7. SameEntry(e, f) /\ SameEntry(g, h)
      BY <1>7, <3>1, <3>2
    <3>3. f.table \in Reserving /\ h.table = f.table
      BY <2>3, <3>7 DEF SameEntry
    <3>4. e.val = f.val /\ g.val = h.val
      BY <1>7, <3>1, <3>2, <3>3
    <3>5. f = h
      BY <2>3, <3>3, <3>4 DEF MapsNormal, ReservedOnce
    <3>6. SameEntry(e, g)
      BY <3>5, <3>7 DEF SameEntry
    <3> QED BY <2>2, <3>6
  <2>4. ASSUME NEW e \in t.maps, e.table \in DOMAIN Parents
        PROVE  \E g \in t.maps : g.table = Parents[e.table] /\ g.slug = e.slug /\ g.key = e.key
    <3>1. PICK f \in s.maps, r \in rs : ReadFrom(s, f, r, e)
      BY <1>8
    <3>2. SameEntry(e, f)
      BY <1>7, <3>1
    <3>3. PICK h \in s.maps : h.table = Parents[f.table] /\ h.slug = f.slug /\ h.key = f.key
      BY <2>4, <3>2 DEF SameEntry, MapsNormal, HaveParents
    <3>4. MapRow(s, h) \in StageState(s) /\ MapRow(s, h).table # "repo_counters"
      <4>1. h.table \in MapTables
        BY DEF MapsNormal, EntryNormal
      <4> QED BY <4>1, StageIs, TablesApart DEF Staged, MapRow
    <3>5. PICK q \in rs : SameRow(q, MapRow(s, h))
      BY <3>4 DEF Shown
    <3>6. PICK g : g = AsRead(h, q)
      OBVIOUS
    <3>7. ReadFrom(s, h, q, g)
      BY <3>5, <3>6 DEF ReadFrom
    <3>8. g \in t.maps
      BY <3>7 DEF ReadsAs
    <3>9. SameEntry(g, h)
      BY <1>7, <3>7
    <3> QED BY <3>2, <3>3, <3>8, <3>9 DEF SameEntry
  <2> QED BY <2>1, <2>2, <2>3, <2>4 DEF MapsNormal, ReservedOnce, HaveParents
<1>10. ListsNormal(t, n)
  <2>1. ASSUME NEW l \in DOMAIN t.lists
        PROVE  ListNormal(t, l, n)
    <3>1. l \in DOMAIN s.lists
      BY <1>2
    <3>2. ListNormal(s, l, n)
      BY <3>1 DEF ListsNormal
    <3>3. Len(t.lists[l]) <= n /\ (t.lists[l] # <<>> => HasRepo(t, l[2]))
      BY <1>1, <1>3, <3>1, <3>2 DEF ListNormal, HasRepo
    <3>4. l[1] = "check_runs" => \A i \in DOMAIN t.lists[l] : t.lists[l][i].val # 0
      BY <1>3, <3>1, <3>2 DEF ListNormal
    <3>5. ASSUME l = Activity
          PROVE  \A i, j \in DOMAIN t.lists[l] : t.lists[l][i].val = t.lists[l][j].val => i = j
      <4>1. l[1] # "check_runs"
        BY <3>5 DEF Activity
      <4>2. DOMAIN t.lists[l] = DOMAIN s.lists[l] /\ \A i \in DOMAIN s.lists[l] : t.lists[l][i].val = s.lists[l][i].val
        BY <1>3, <3>1, <4>1
      <4> QED BY <3>2, <3>5, <4>2 DEF ListNormal, Activity
    <3>6. l[1] = "bot_activity" /\ t.lists[l] # <<>> => l[2] = NoSlug
      BY <1>3, <3>1, <3>2 DEF ListNormal
    <3> QED BY <3>3, <3>4, <3>5, <3>6 DEF ListNormal, Activity
  <2>2. ASSUME NEW l \in DOMAIN t.lists, NEW m \in DOMAIN t.lists, NEW i \in DOMAIN t.lists[l],
               NEW j \in DOMAIN t.lists[m], l[1] = m[1], t.lists[l][i].id = t.lists[m][j].id
        PROVE  l = m /\ i = j
    <3>1. l \in DOMAIN s.lists /\ m \in DOMAIN s.lists
      BY <1>2
    <3>2. i \in DOMAIN s.lists[l] /\ j \in DOMAIN s.lists[m] /\ s.lists[l][i].id = s.lists[m][j].id
      BY <1>3, <2>2, <3>1
    <3> QED BY <2>2, <3>1, <3>2 DEF ListsNormal
  <2> QED BY <2>1, <2>2 DEF ListsNormal
<1>11. InTime(t)
  <2> SUFFICES ASSUME NEW l \in DOMAIN t.lists, l = Activity
               PROVE  \A i, j \in DOMAIN t.lists[l] : i < j => t.lists[l][i].val < t.lists[l][j].val
    BY DEF InTime
  <2>1. l \in DOMAIN s.lists /\ l[1] # "check_runs"
    BY <1>2 DEF Activity
  <2>2. DOMAIN t.lists[l] = DOMAIN s.lists[l] /\ \A i \in DOMAIN s.lists[l] : t.lists[l][i].val = s.lists[l][i].val
    BY <1>3, <2>1
  <2> QED BY <2>1, <2>2 DEF InTime
<1> QED BY <1>4, <1>5, <1>6, <1>9, <1>10, <1>11

\* The rows a state was opened from show it, values that were repaired aside.
LEMMA ReopenShown ==
    ASSUME NEW rs, NEW s, NEW t, NEW n \in Nat, Normal(s, n), InTime(s), Shown(rs, s), ReadsAs(rs, s, t),
           \A r \in rs : ~Unsealed(r)
    PROVE  Shown(rs, t)
<1>1. Normal(t, n)
  BY ReopenNormal
<1>2. /\ t.repos = s.repos /\ t.lists = LoadLists(rs)
      /\ \A a : RowRepo(t, a) = RowRepo(s, a) /\ (HasRepo(s, a) <=> HasRepo(t, a))
  <2>1. t.repos = s.repos /\ t.lists = LoadLists(rs)
    BY DEF ReadsAs
  <2> QED BY <2>1 DEF RowRepo, HasRepo
<1>3. ASSUME NEW f \in s.maps, NEW r \in rs, NEW e, ReadFrom(s, f, r, e)
      PROVE  /\ e \in t.maps /\ SameRow(MapRow(t, e), MapRow(s, f)) /\ MapRow(t, e).repo = MapRow(s, f).repo
             /\ (f.table = "pull_requests" /\ r.val = "") \/ MapRow(t, e).val = r.val
  <2>1. e \in t.maps
    BY <1>3 DEF ReadsAs
  <2>2. SameEntry(e, f)
    BY <1>3, ReadEntryIs
  <2>3. (f.table = "pull_requests" /\ r.val = "") \/ e.val = r.val
    BY <1>3, ReadEntryIs
  <2>4. SameRow(MapRow(t, e), MapRow(s, f)) /\ MapRow(t, e).repo = MapRow(s, f).repo
    BY <1>2, <2>2 DEF MapRow, SameRow, SameEntry
  <2>5. MapRow(t, e).val = e.val
    BY DEF MapRow
  <2> QED BY <2>1, <2>3, <2>4, <2>5
<1>4. /\ DOMAIN t.lists = DOMAIN s.lists
      /\ \A l \in DOMAIN s.lists : /\ DOMAIN t.lists[l] = DOMAIN s.lists[l]
            /\ \A i \in DOMAIN s.lists[l] : SameRow(ListRow(t, l, i), ListRow(s, l, i))
                                            /\ ListRow(t, l, i).repo = ListRow(s, l, i).repo
  <2>1. DOMAIN t.lists = DOMAIN s.lists
    BY <1>1 DEF Normal, IsState
  <2>2. ASSUME NEW l \in DOMAIN s.lists
        PROVE  /\ DOMAIN t.lists[l] = DOMAIN s.lists[l]
               /\ \A i \in DOMAIN s.lists[l] : t.lists[l][i].id = s.lists[l][i].id
    <3>1. ListRead(t.lists[l], s.lists[l], l[1])
      BY <1>2, ReadsLists
    <3>2. s.lists[l] \in Seq(Entries) /\ DOMAIN s.lists[l] = 1 .. Len(s.lists[l])
      BY ListIs DEF Normal
    <3> QED BY <3>1, <3>2 DEF ListRead
  <2> QED BY <1>2, <2>1, <2>2 DEF ListRow, SameRow
<1>5. ASSUME NEW r \in rs
      PROVE  \E d \in StageState(t) : Agrees(r, d)
  <2>1. PICK c \in StageState(s) : Agrees(r, c)
    BY DEF Shown
  <2>2. SameRow(r, c) /\ r.repo = c.repo /\ (r.val = c.val \/ Loosened(r))
    BY <2>1 DEF Agrees
  <2>3. CASE c.table \in MapTables
    <3>1. PICK f \in s.maps : HasRepo(s, f.slug) /\ c = MapRow(s, f)
      BY <2>3, StagedByTable
    <3>2. PICK e : e = AsRead(f, r)
      OBVIOUS
    <3>3. ReadFrom(s, f, r, e)
      BY <2>2, <3>1, <3>2 DEF ReadFrom
    <3>4. /\ e \in t.maps /\ SameRow(MapRow(t, e), c) /\ MapRow(t, e).repo = c.repo
          /\ (f.table = "pull_requests" /\ r.val = "") \/ MapRow(t, e).val = r.val
      BY <1>3, <3>1, <3>3
    <3>9. SameEntry(e, f)
      BY <3>1, <3>3, ReadEntryIs
    <3>5. e.table = f.table /\ f.table = c.table /\ c.table = r.table
      BY <2>2, <3>1, <3>9 DEF SameEntry, MapRow, SameRow
    <3>6. MapRow(t, e) \in StageState(t)
      BY <2>3, <3>4, <3>5, StageIs DEF Staged
    <3>7. SameRow(r, MapRow(t, e))
      BY <2>2, <3>4, SameRows
    <3>8. r.val = MapRow(t, e).val \/ Loosened(r)
      BY <3>4, <3>5 DEF Loosened
    <3> QED BY <2>2, <3>4, <3>6, <3>7, <3>8 DEF Agrees
  <2>4. CASE c.table \in ListTables
    <3>1. PICK l \in DOMAIN s.lists : HasRepo(s, l[2]) /\ \E i \in DOMAIN s.lists[l] : c = ListRow(s, l, i)
      BY <2>4, StagedByTable
    <3>2. PICK i \in DOMAIN s.lists[l] : c = ListRow(s, l, i)
      BY <3>1
    <3>3. c.table = l[1] /\ c.table = r.table
      BY <2>2, <3>2 DEF ListRow, SameRow
    <3>4. ListRow(t, l, i) \in StageState(t)
      BY <1>4, <2>4, <3>3, StageIs DEF Staged
    <3>5. SameRow(r, ListRow(t, l, i)) /\ r.repo = ListRow(t, l, i).repo
      BY <1>4, <2>2, <3>2, SameRows
    <3>6. r.val = LoadLists(rs)[l][i].val \/ (l[1] = "check_runs" /\ r.val = 0)
      BY <2>2, <3>2, ReadsLists
    <3>7. ListRow(t, l, i).val = LoadLists(rs)[l][i].val
      BY <1>2 DEF ListRow
    <3>8. r.val = ListRow(t, l, i).val \/ Loosened(r)
      BY <3>3, <3>6, <3>7 DEF Loosened
    <3> QED BY <3>4, <3>5, <3>8 DEF Agrees
  <2>5. CASE c.table = "repositories"
    <3>1. PICK a \in RowSlugs : s.repos[a] # NoUuid /\ c = RepoRow(s, a)
      BY <2>5, StagedByTable
    <3>2. c = RepoRow(t, a)
      BY <1>2, <3>1 DEF RepoRow
    <3>3. c \in StageState(t)
      BY <1>2, <3>1, <3>2, StageIs DEF Staged
    <3> QED BY <2>1, <3>3
  <2>6. CASE c.table = "repo_counters"
    <3>1. PICK a \in RowSlugs : s.repos[a] # NoUuid /\ c = CountRow(s, a)
      BY <2>6, StagedByTable
    <3>2. t.counters[a] = s.counters[a]
      BY <2>2, <3>1 DEF ReadsAs
    <3>3. c = CountRow(t, a)
      BY <1>2, <3>1, <3>2 DEF CountRow
    <3>4. c \in StageState(t)
      BY <1>2, <3>1, <3>3, StageIs DEF Staged
    <3> QED BY <2>1, <3>4
  <2> QED BY <2>3, <2>4, <2>5, <2>6, StagedByTable
<1>6. ASSUME NEW d \in StageState(t), d.table # "repo_counters"
      PROVE  \E r \in rs : SameRow(r, d)
  <2>1. \A c \in StageState(s) : c.table # "repo_counters" => \E r \in rs : SameRow(r, c)
    BY DEF Shown
  <2>2. CASE d.table \in MapTables
    <3>1. PICK e \in t.maps : HasRepo(t, e.slug) /\ d = MapRow(t, e)
      BY <1>1, <2>2, StagedByTable
    <3>2. PICK f \in s.maps, r \in rs : ReadFrom(s, f, r, e)
      BY DEF ReadsAs
    <3>3. SameRow(MapRow(t, e), MapRow(s, f)) /\ SameRow(r, MapRow(s, f))
      BY <1>3, <3>2 DEF ReadFrom
    <3> QED BY <3>1, <3>3, SameRows
  <2>3. CASE d.table \in ListTables
    <3>1. PICK l \in DOMAIN t.lists : HasRepo(t, l[2]) /\ \E i \in DOMAIN t.lists[l] : d = ListRow(t, l, i)
      BY <1>1, <2>3, StagedByTable
    <3>2. PICK i \in DOMAIN t.lists[l] : d = ListRow(t, l, i)
      BY <3>1
    <3>3. l \in DOMAIN s.lists /\ i \in DOMAIN s.lists[l] /\ SameRow(d, ListRow(s, l, i))
      BY <1>4, <3>2
    <3>4. ListRow(s, l, i).table = d.table
      BY <3>3 DEF SameRow
    <3>5. ListRow(s, l, i).table = l[1]
      BY DEF ListRow
    <3>6. ListRow(s, l, i) \in StageState(s)
      BY <2>3, <3>3, <3>4, <3>5, StageIs DEF Staged
    <3>7. PICK r \in rs : SameRow(r, ListRow(s, l, i))
      BY <1>6, <2>1, <3>4, <3>6
    <3> QED BY <3>3, <3>7, SameRows
  <2>4. CASE d.table = "repositories"
    <3>1. PICK a \in RowSlugs : t.repos[a] # NoUuid /\ d = RepoRow(t, a)
      BY <1>1, <2>4, StagedByTable
    <3>2. d = RepoRow(s, a)
      BY <1>2, <3>1 DEF RepoRow
    <3>3. d \in StageState(s)
      BY <1>2, <3>1, <3>2, StageIs DEF Staged
    <3> QED BY <1>6, <2>1, <3>3
  <2> QED BY <1>1, <1>6, <2>2, <2>3, <2>4, StagedByTable
<1>7. InOrder(rs, t)
  <2>1. ASSUME NEW l \in DOMAIN t.lists, NEW i \in DOMAIN t.lists[l], NEW j \in DOMAIN t.lists[l],
               l[1] # "bot_activity", i < j,
               NEW x \in rs, NEW y \in rs, SameRow(x, ListRow(t, l, i)), SameRow(y, ListRow(t, l, j))
        PROVE  x.rowid < y.rowid
    <3>1. l \in DOMAIN s.lists /\ i \in DOMAIN s.lists[l] /\ j \in DOMAIN s.lists[l]
      BY <1>4
    <3>2. SameRow(ListRow(t, l, i), ListRow(s, l, i)) /\ SameRow(ListRow(t, l, j), ListRow(s, l, j))
      BY <1>4, <3>1
    <3>3. SameRow(x, ListRow(s, l, i)) /\ SameRow(y, ListRow(s, l, j))
      BY <2>1, <3>2, SameRows
    <3> QED BY <2>1, <3>1, <3>3 DEF Shown, InOrder
  <2> QED BY <2>1 DEF InOrder
<1>8. (\A r \in rs : IsRow(r)) /\ Bounded(rs) /\ \A x, y \in rs : SameRow(x, y) => x = y
  BY DEF Shown
<1> QED BY <1>5, <1>6, <1>7, <1>8 DEF Shown

\* Without the rows that were not sealed there is a state without their entries.
LEMMA SealedShown ==
    ASSUME NEW rs, NEW s, NEW n \in Nat, Normal(s, n), Shown(rs, s)
    PROVE  \E u : Normal(u, n) /\ Shown({r \in rs : ~Unsealed(r)}, u)
<1> DEFINE M == {f \in s.maps : \A r \in rs : Unsealed(r) => ~SameRow(r, MapRow(s, f))}
           R == {r \in rs : ~Unsealed(r)}
<1>1. PICK u : u = [repos |-> s.repos, maps |-> M, lists |-> s.lists, counters |-> s.counters]
  OBVIOUS
<1>2. M \subseteq s.maps /\ \A f \in s.maps : f \in M <=> \A r \in rs : Unsealed(r) => ~SameRow(r, MapRow(s, f))
  OBVIOUS
<1>3. R \subseteq rs /\ \A r \in rs : r \in R <=> ~Unsealed(r)
  OBVIOUS
<1> HIDE DEF M, R
<1>4. u.repos = s.repos /\ u.maps = M /\ u.lists = s.lists /\ u.counters = s.counters
      /\ u = [repos |-> u.repos, maps |-> u.maps, lists |-> u.lists, counters |-> u.counters]
  BY <1>1
<1>5. Normal(u, n)
  <2>1. IsState(u) /\ ReposNormal(u) /\ CountersNormal(u, n)
    BY <1>4 DEF Normal, IsState, ReposNormal, CountersNormal
  <2>2. \A l \in DOMAIN s.lists : ListNormal(s, l, n) => ListNormal(u, l, n)
    BY <1>4 DEF ListNormal, HasRepo
  <2>3. ListsNormal(u, n)
    BY <1>4, <2>2 DEF Normal, ListsNormal
  <2>4. \A e \in s.maps : EntryNormal(s, e) => EntryNormal(u, e)
    BY <1>4 DEF EntryNormal, HasRepo
  <2>6. ReservedOnce(M)
    BY <1>2 DEF Normal, MapsNormal, ReservedOnce
  <2>7. HaveParents(M)
    <3> SUFFICES ASSUME NEW e \in M, e.table \in DOMAIN Parents
                 PROVE  \E g \in M : g.table = Parents[e.table] /\ g.slug = e.slug /\ g.key = e.key
      BY DEF HaveParents
    <3>1. PICK g \in s.maps : g.table = Parents[e.table] /\ g.slug = e.slug /\ g.key = e.key
      BY <1>2 DEF Normal, MapsNormal, HaveParents
    <3>2. g.table # "bot_operations"
      BY <3>1 DEF Parents
    <3>3. \A r \in rs : Unsealed(r) => ~SameRow(r, MapRow(s, g))
      BY <3>2 DEF Unsealed, SameRow, MapRow
    <3> QED BY <1>2, <3>1, <3>3
  <2>5. MapsNormal(u)
    BY <1>2, <1>4, <2>4, <2>6, <2>7 DEF Normal, MapsNormal
  <2> QED BY <2>1, <2>3, <2>5 DEF Normal
<1>6. /\ \A e : MapRow(u, e) = MapRow(s, e)
      /\ \A l, i : ListRow(u, l, i) = ListRow(s, l, i)
      /\ \A a : RepoRow(u, a) = RepoRow(s, a) /\ CountRow(u, a) = CountRow(s, a)
  BY <1>4 DEF MapRow, ListRow, RepoRow, CountRow, RowRepo
<1>7. StageState(u) \subseteq StageState(s)
  <2>1. ASSUME NEW d, Staged(u, d)
        PROVE  Staged(s, d)
    BY <1>2, <1>4, <1>6, <2>1 DEF Staged
  <2> QED BY <2>1, StageIs
<1>8. ASSUME NEW r \in R
      PROVE  \E d \in StageState(u) : Agrees(r, d)
  <2>1. PICK d \in StageState(s) : Agrees(r, d)
    BY <1>3 DEF Shown
  <2>2. SameRow(r, d)
    BY <2>1 DEF Agrees
  <2>3. CASE d.table \in MapTables
    <3>1. PICK f \in s.maps : HasRepo(s, f.slug) /\ d = MapRow(s, f)
      BY <2>3, StagedByTable
    <3>2. ASSUME NEW q \in rs, Unsealed(q), SameRow(q, MapRow(s, f))
          PROVE  FALSE
      <4>1. q = r
        BY <1>3, <2>2, <3>1, <3>2, SameRows DEF Shown
      <4> QED BY <1>3, <3>2, <4>1
    <3>3. f \in u.maps
      BY <1>2, <1>4, <3>2
    <3>4. f.table \in MapTables
      BY <2>3, <3>1 DEF MapRow
    <3>5. Staged(u, d)
      BY <1>6, <3>1, <3>3, <3>4 DEF Staged
    <3> QED BY <2>1, <3>5, StageIs
  <2>4. CASE d.table \notin MapTables
    <3>1. Staged(s, d)
      BY StageIs
    <3>2. \A e : d = MapRow(s, e) => e.table \notin MapTables
      BY <2>4 DEF MapRow
    <3>3. Staged(u, d)
      BY <1>4, <1>6, <3>1, <3>2 DEF Staged
    <3> QED BY <2>1, <3>3, StageIs
  <2> QED BY <2>3, <2>4
<1>9. ASSUME NEW d \in StageState(u), d.table # "repo_counters"
      PROVE  \E r \in R : SameRow(r, d)
  <2>1. PICK r \in rs : SameRow(r, d)
    BY <1>7, <1>9 DEF Shown
  <2>2. ~Unsealed(r)
    <3> SUFFICES ASSUME Unsealed(r)
                 PROVE  FALSE
      OBVIOUS
    <3>1. d.table = "bot_operations" /\ "bot_operations" \in MapTables
      BY <2>1 DEF SameRow, Unsealed, MapTables, GlobalTables, BotTables
    <3>2. d.table \in MapTables
      BY <3>1
    <3>3. PICK e \in u.maps : HasRepo(u, e.slug) /\ d = MapRow(u, e)
      BY <1>5, <3>2, StagedByTable
    <3>4. e \in M /\ SameRow(r, MapRow(s, e))
      BY <1>4, <1>6, <2>1, <3>3
    <3> QED BY <1>2, <3>4
  <2> QED BY <1>3, <2>1, <2>2
<1>10. InOrder(R, u)
  <2>1. InOrder(rs, s)
    BY DEF Shown
  <2> QED BY <1>3, <1>4, <1>6, <2>1 DEF InOrder
<1>11. (\A r \in R : IsRow(r)) /\ Bounded(R) /\ \A x, y \in R : SameRow(x, y) => x = y
  BY <1>3 DEF Shown, Bounded
<1>12. Shown(R, u)
  BY <1>8, <1>9, <1>10, <1>11 DEF Shown
<1> QED BY <1>5, <1>12 DEF R

\* A row that was loosened or got a foreign column shows the same state.
LEMMA RowReplaced ==
    ASSUME NEW rs, NEW s, NEW r \in rs, NEW q, Shown(rs, s), IsRow(q), SameRow(q, r),
           q.rowid = r.rowid, q.repo = r.repo, q.val = r.val \/ Loosened(q)
    PROVE  Shown((rs \ {r}) \cup {q}, s)
<1> DEFINE R == (rs \ {r}) \cup {q}
<1>1. \A x \in R : x = q \/ (x \in rs /\ x # r)
  OBVIOUS
<1>2. q \in R /\ \A x \in rs : x = r \/ x \in R
  OBVIOUS
<1> HIDE DEF R
<1>3. \A x \in R : \E y \in rs : SameRow(x, y) /\ x.rowid = y.rowid
  BY <1>1, SameRows
<1>4. \A x \in rs : \E y \in R : SameRow(y, x)
  BY <1>2, SameRows
<1>5. \A x \in R : IsRow(x)
  BY <1>1 DEF Shown
<1>6. Bounded(R)
  BY <1>3 DEF Shown, Bounded
<1>7. ASSUME NEW x \in R, NEW y \in R, SameRow(x, y)
      PROVE  x = y
  <2>1. \A z \in rs : SameRow(z, r) => z = r
    BY DEF Shown
  <2>2. CASE x = q
    BY <1>1, <1>7, <2>1, <2>2, SameRows
  <2>3. CASE y = q
    BY <1>1, <1>7, <2>1, <2>3, SameRows
  <2> QED BY <1>1, <1>7, <2>2, <2>3 DEF Shown
<1>8. ASSUME NEW x \in R
      PROVE  \E d \in StageState(s) : Agrees(x, d)
  <2>1. CASE x = q
    <3>1. PICK d \in StageState(s) : Agrees(r, d)
      BY DEF Shown
    <3>2. SameRow(q, d)
      BY <3>1, SameRows DEF Agrees
    <3>3. q.table = r.table
      BY DEF SameRow
    <3>4. q.val = d.val \/ Loosened(q)
      BY <3>1, <3>3 DEF Agrees, Loosened
    <3> QED BY <2>1, <3>1, <3>2, <3>4 DEF Agrees
  <2>2. CASE x \in rs
    BY <2>2 DEF Shown
  <2> QED BY <1>1, <2>1, <2>2
<1>9. ASSUME NEW d \in StageState(s), d.table # "repo_counters"
      PROVE  \E x \in R : SameRow(x, d)
  <2>1. PICK y \in rs : SameRow(y, d)
    BY <1>9 DEF Shown
  <2> QED BY <1>4, <2>1, SameRows
<1>10. InOrder(R, s)
  <2>1. ASSUME NEW l \in DOMAIN s.lists, NEW i \in DOMAIN s.lists[l], NEW j \in DOMAIN s.lists[l],
               l[1] # "bot_activity", i < j, NEW x \in R, NEW y \in R, SameRow(x, ListRow(s, l, i)), SameRow(y, ListRow(s, l, j))
        PROVE  x.rowid < y.rowid
    <3>1. PICK v \in rs : SameRow(x, v) /\ x.rowid = v.rowid
      BY <1>3
    <3>2. PICK w \in rs : SameRow(y, w) /\ y.rowid = w.rowid
      BY <1>3
    <3>3. SameRow(v, ListRow(s, l, i)) /\ SameRow(w, ListRow(s, l, j))
      BY <2>1, <3>1, <3>2, SameRows
    <3>4. v.rowid < w.rowid
      BY <2>1, <3>3 DEF Shown, InOrder
    <3> QED BY <3>1, <3>2, <3>4
  <2> QED BY <2>1 DEF InOrder
<1> QED BY <1>5, <1>6, <1>7, <1>8, <1>9, <1>10 DEF Shown, R

\* The counters of a repository and a rule of its may go.
LEMMA RowRemoved ==
    ASSUME NEW rs, NEW s, NEW n \in Nat, Normal(s, n), NEW r \in rs, Shown(rs, s),
           r.table \in {"repo_counters", "branch_protection_rules"}
    PROVE  \E u : Normal(u, n) /\ Shown(rs \ {r}, u)
<1> DEFINE M == {f \in s.maps : ~SameRow(r, MapRow(s, f))}
           R == rs \ {r}
<1>1. PICK u : u = [repos |-> s.repos, maps |-> M, lists |-> s.lists, counters |-> s.counters]
  OBVIOUS
<1>2. M \subseteq s.maps /\ \A f \in s.maps : f \in M <=> ~SameRow(r, MapRow(s, f))
  OBVIOUS
<1>3. R \subseteq rs /\ \A x \in rs : x \in R <=> x # r
  OBVIOUS
<1> HIDE DEF M, R
<1>4. u.repos = s.repos /\ u.maps = M /\ u.lists = s.lists /\ u.counters = s.counters
      /\ u = [repos |-> u.repos, maps |-> u.maps, lists |-> u.lists, counters |-> u.counters]
  BY <1>1
<1>5. Normal(u, n)
  <2>1. IsState(u) /\ ReposNormal(u) /\ CountersNormal(u, n)
    BY <1>4 DEF Normal, IsState, ReposNormal, CountersNormal
  <2>2. \A l \in DOMAIN s.lists : ListNormal(s, l, n) => ListNormal(u, l, n)
    BY <1>4 DEF ListNormal, HasRepo
  <2>3. ListsNormal(u, n)
    BY <1>4, <2>2 DEF Normal, ListsNormal
  <2>4. \A e \in s.maps : EntryNormal(s, e) => EntryNormal(u, e)
    BY <1>4 DEF EntryNormal, HasRepo
  <2>5. ReservedOnce(M)
    BY <1>2 DEF Normal, MapsNormal, ReservedOnce
  <2>6. HaveParents(M)
    <3> SUFFICES ASSUME NEW e \in M, e.table \in DOMAIN Parents
                 PROVE  \E g \in M : g.table = Parents[e.table] /\ g.slug = e.slug /\ g.key = e.key
      BY DEF HaveParents
    <3>1. PICK g \in s.maps : g.table = Parents[e.table] /\ g.slug = e.slug /\ g.key = e.key
      BY <1>2 DEF Normal, MapsNormal, HaveParents
    <3>2. g.table # "repo_counters" /\ g.table # "branch_protection_rules"
      BY <3>1 DEF Parents
    <3>3. ~SameRow(r, MapRow(s, g))
      BY <3>2 DEF SameRow, MapRow
    <3> QED BY <1>2, <3>1, <3>3
  <2>7. MapsNormal(u)
    BY <1>2, <1>4, <2>4, <2>5, <2>6 DEF Normal, MapsNormal
  <2> QED BY <2>1, <2>3, <2>7 DEF Normal
<1>6. /\ \A e : MapRow(u, e) = MapRow(s, e)
      /\ \A l, i : ListRow(u, l, i) = ListRow(s, l, i)
      /\ \A a : RepoRow(u, a) = RepoRow(s, a) /\ CountRow(u, a) = CountRow(s, a)
  BY <1>4 DEF MapRow, ListRow, RepoRow, CountRow, RowRepo
<1>7. StageState(u) \subseteq StageState(s)
  <2>1. ASSUME NEW d, Staged(u, d)
        PROVE  Staged(s, d)
    BY <1>2, <1>4, <1>6, <2>1 DEF Staged
  <2> QED BY <2>1, StageIs
<1>8. \A x, y \in rs : SameRow(x, y) => x = y
  BY DEF Shown
<1>9. ASSUME NEW x \in R
      PROVE  \E d \in StageState(u) : Agrees(x, d)
  <2>1. PICK d \in StageState(s) : Agrees(x, d)
    BY <1>3 DEF Shown
  <2>2. SameRow(x, d) /\ x \in rs /\ x # r
    BY <1>3, <2>1 DEF Agrees
  <2>3. ~SameRow(r, d)
    BY <1>8, <2>2, SameRows
  <2>4. Staged(s, d)
    BY StageIs
  <2>5. Staged(u, d)
    BY <1>2, <1>4, <1>6, <2>3, <2>4 DEF Staged
  <2> QED BY <2>1, <2>5, StageIs
<1>10. ASSUME NEW d \in StageState(u), d.table # "repo_counters"
       PROVE  \E x \in R : SameRow(x, d)
  <2>1. PICK x \in rs : SameRow(x, d)
    BY <1>7, <1>10 DEF Shown
  <2>2. x # r
    <3> SUFFICES ASSUME x = r PROVE FALSE
      OBVIOUS
    <3>1. d.table = "branch_protection_rules"
      BY <1>10, <2>1 DEF SameRow
    <3>2. PICK e \in u.maps : d = MapRow(u, e)
      BY <1>5, <3>1, StagedByTable, TablesApart
    <3>3. SameRow(r, MapRow(s, e)) /\ e \in M
      BY <1>4, <1>6, <2>1, <3>2
    <3> QED BY <1>2, <3>3
  <2> QED BY <1>3, <2>1, <2>2
<1>11. InOrder(R, u)
  <2>1. InOrder(rs, s)
    BY DEF Shown
  <2> QED BY <1>3, <1>4, <1>6, <2>1 DEF InOrder
<1>12. (\A x \in R : IsRow(x)) /\ Bounded(R) /\ \A x, y \in R : SameRow(x, y) => x = y
  BY <1>3 DEF Shown, Bounded
<1>13. Shown(R, u)
  BY <1>9, <1>10, <1>11, <1>12 DEF Shown
<1> QED BY <1>5, <1>13 DEF R

----------------------------------------------------------------------------
(* What every step keeps *)

\* A column of another tool is at a row that is there and holds its value.
Marks(rs, ms) ==
    /\ \A m \in ms : \E r \in rs : SameRow(r, m)
    /\ \A r \in rs : (\E m \in ms : SameRow(r, m)) => r.foreign = "set"

\* While the file is open the rows show the state in memory and are read back
\* as it, events by their times; while it is closed they show some state.
RowInv ==
    /\ mutations \in Nat /\ refusals = 0
    /\ Marks(main, marked)
    /\ opened => Normal(mem, mutations) /\ Shown(main, mem) /\ LoadState(main) = Sorted(mem)
    /\ ~opened => \E s : Normal(s, mutations) /\ Shown(main, s)

\* What bounds a state after some mutations bounds it after more.
LEMMA NormalLater ==
    ASSUME NEW s, NEW m \in Nat, NEW n \in Nat, m <= n, Normal(s, m)
    PROVE  Normal(s, n)
<1>1. \A a \in RowSlugs : s.counters[a] \in Nat \cup {NoCount}
  BY DEF Normal, IsState
<1>2. CountersNormal(s, n)
  <2>1. ASSUME NEW a \in RowSlugs
        PROVE  s.counters[a] <= n
    <3>1. s.counters[a] \in Int /\ s.counters[a] <= m
      BY <1>1 DEF Normal, CountersNormal, NoCount
    <3> QED BY <3>1
  <2> QED BY <2>1 DEF Normal, CountersNormal
<1>3. ASSUME NEW l \in DOMAIN s.lists
      PROVE  ListNormal(s, l, n)
  <2>1. ListNormal(s, l, m)
    BY DEF Normal, ListsNormal
  <2>2. Len(s.lists[l]) \in Nat /\ \A i \in DOMAIN s.lists[l] : s.lists[l][i].val \in Nat
    BY ListIs DEF Normal
  <2>3. Len(s.lists[l]) <= n
    BY <2>1, <2>2 DEF ListNormal
  <2> QED BY <2>1, <2>3 DEF ListNormal
<1>4. ListsNormal(s, n)
  BY <1>3 DEF Normal, ListsNormal
<1> QED BY <1>2, <1>4 DEF Normal

\* A mutation that is refused, or whose values do not fit, changes nothing.
LEMMA MutateRefused ==
    ASSUME RowInv, NEW new, NEW fits \in BOOLEAN, Mutate(new, fits), ~fits \/ ~StagingSucceeds(new)
    PROVE  RowInv'
<1>1. ~(fits /\ Persists(main, new)) /\ ~HasRoom(new, fits)
  BY DEF Persists, HasRoom
<1>2. /\ mem' = mem /\ main' = main /\ marked' = marked /\ refusals' = refusals + 0
      /\ mutations' = mutations + 1 /\ opened' = opened /\ opened
  BY <1>1 DEF Mutate
<1>3. mutations \in Nat /\ mutations' \in Nat /\ mutations <= mutations' /\ refusals' = 0
  BY <1>2 DEF RowInv
<1>4. Normal(mem, mutations')
  BY <1>2, <1>3, NormalLater DEF RowInv
<1> QED BY <1>2, <1>3, <1>4 DEF RowInv

\* A mutation that leads to a state that may follow is refused only for a value.
LEMMA MutateKeeps ==
    ASSUME RowInv, NEW new, NEW fits \in BOOLEAN, Mutate(new, fits), Normal(new, mutations + 1),
           Follows(mem, new)
    PROVE  RowInv'
<1> DEFINE n == mutations + 1
           rs == ApplyRows(main, StageState(new))
<1>1. mutations \in Nat /\ n \in Nat /\ mutations <= n
  BY DEF RowInv
<1>2. Normal(mem, mutations) /\ Shown(main, mem)
  BY DEF RowInv, Mutate
<1> HIDE DEF rs
<1>3. Normal(mem, n)
  <2> HIDE DEF n
  <2> QED BY <1>1, <1>2, NormalLater
<1>4. Normal(new, n)
  OBVIOUS
<1>5. n = mutations + 1
  OBVIOUS
<1> HIDE DEF n
<1>6. StagingSucceeds(new) /\ ReconcileSucceeds(main, StageState(new))
  BY <1>1, <1>2, <1>3, <1>4, AppliedSucceeds
<1>7. CASE ~fits
  BY <1>7, MutateRefused
<1>8. CASE fits
  <2>1. /\ mem' = new /\ main' = rs /\ marked' = {m \in marked : \E r \in main' : SameRow(r, m)}
        /\ refusals' = refusals /\ mutations' = n /\ opened' = opened /\ opened
    BY <1>5, <1>6, <1>8 DEF Mutate, Persists, rs
  <2>2. Exact(rs, new)
    BY <1>1, <1>2, <1>3, <1>4, AppliedExact DEF rs
  <2>3. LoadState(rs) = Sorted(new) /\ Shown(rs, new)
    BY <1>1, <1>4, <2>2, LoadsSorted DEF Exact
  <2>4. Marks(rs, marked')
    <3>1. ASSUME NEW x \in rs, NEW m \in marked', SameRow(x, m)
          PROVE  x.foreign = "set"
      <4>1. PICK r \in main : SameRow(r, m)
        BY <2>1, <3>1 DEF RowInv, Marks
      <4>2. r.foreign = "set"
        BY <2>1, <3>1, <4>1 DEF RowInv, Marks
      <4>3. SameRow(x, r)
        BY <3>1, <4>1, SameRows
      <4>4. x.foreign = r.foreign
        BY <1>1, <1>2, <1>3, <1>4, <4>3, AppliedKeepsColumns DEF rs
      <4> QED BY <4>2, <4>4
    <3> QED BY <2>1, <3>1 DEF Marks
  <2>5. refusals' = 0
    BY <2>1 DEF RowInv
  <2> QED BY <1>1, <1>4, <2>1, <2>3, <2>4, <2>5 DEF RowInv
<1> QED BY <1>7, <1>8

\* Closing: the rows show the state memory had.
LEMMA CloseKeeps ==
    ASSUME RowInv, CloseFile
    PROVE  RowInv'
<1>1. /\ opened' = FALSE /\ opened /\ main' = main /\ mutations' = mutations
      /\ refusals' = refusals /\ marked' = marked
  BY DEF CloseFile
<1>2. Normal(mem, mutations) /\ Shown(main, mem)
  BY <1>1 DEF RowInv
<1> QED BY <1>1, <1>2 DEF RowInv

\* Changes of other releases to one row.
LEMMA RewriteKeeps ==
    ASSUME RowInv, ~opened, mutations' = mutations + 1, opened' = opened, refusals' = refusals,
           NEW r \in main, NEW q, IsRow(q), SameRow(q, r), q.rowid = r.rowid, q.repo = r.repo,
           q.val = r.val \/ Loosened(q), q.foreign = r.foreign \/ q.foreign = "set",
           main' = (main \ {r}) \cup {q},
           marked' = marked \/ (q.foreign = "set" /\ marked' = marked \cup {[table |-> r.table, key |-> r.key]})
    PROVE  RowInv'
<1>1. PICK s : Normal(s, mutations) /\ Shown(main, s)
  BY DEF RowInv
<1>2. mutations \in Nat /\ mutations' \in Nat /\ mutations <= mutations'
  BY DEF RowInv
<1>3. Normal(s, mutations')
  BY <1>1, <1>2, NormalLater
<1>4. Shown(main', s)
  BY <1>1, RowReplaced
<1>5. PICK own : own = [table |-> r.table, key |-> r.key]
  OBVIOUS
<1>6. SameRow(r, own) /\ SameRow(q, own)
  BY <1>5 DEF SameRow
<1>7. \A m \in marked' : m \in marked \/ (m = own /\ q.foreign = "set")
  BY <1>5
<1>8. \A x \in main' : x = q \/ (x \in main /\ x # r)
  OBVIOUS
<1>9. q \in main' /\ \A x \in main : x = r \/ x \in main'
  OBVIOUS
<1>10. Marks(main', marked')
  <2>1. ASSUME NEW m \in marked'
        PROVE  \E x \in main' : SameRow(x, m)
    <3>1. CASE m \in marked
      <4>1. PICK x \in main : SameRow(x, m)
        BY <3>1 DEF RowInv, Marks
      <4>2. x = r => SameRow(q, m)
        BY <4>1, SameRows
      <4> QED BY <1>9, <4>1, <4>2
    <3>2. CASE m = own
      BY <1>6, <1>9, <3>2
    <3> QED BY <1>7, <3>1, <3>2
  <2>2. ASSUME NEW x \in main', NEW m \in marked', SameRow(x, m)
        PROVE  x.foreign = "set"
    <3>1. CASE x = q
      <4>1. CASE m \in marked
        <5>1. SameRow(r, m)
          BY <2>2, <3>1, SameRows
        <5>2. r.foreign = "set"
          BY <4>1, <5>1 DEF RowInv, Marks
        <5> QED BY <3>1, <5>2
      <4>2. CASE q.foreign = "set"
        BY <3>1, <4>2
      <4> QED BY <1>7, <4>1, <4>2
    <3>2. CASE x \in main /\ x # r
      <4>1. m # own
        <5>1. m = own => SameRow(x, r)
          BY <1>6, <2>2, SameRows
        <5> QED BY <1>1, <3>2, <5>1 DEF Shown
      <4>2. m \in marked
        BY <1>7, <4>1
      <4> QED BY <2>2, <3>2, <4>2 DEF RowInv, Marks
    <3> QED BY <1>8, <3>1, <3>2
  <2> QED BY <2>1, <2>2 DEF Marks
<1> QED BY <1>2, <1>3, <1>4, <1>10 DEF RowInv

\* Changes of one field of a row.
LEMMA FieldSet ==
    ASSUME NEW r, IsRow(r), NEW v
    PROVE  /\ [r EXCEPT !.val = v] =
                [table |-> r.table, key |-> r.key, repo |-> r.repo, val |-> v, foreign |-> r.foreign, rowid |-> r.rowid]
           /\ [r EXCEPT !.foreign = v] =
                [table |-> r.table, key |-> r.key, repo |-> r.repo, val |-> r.val, foreign |-> v, rowid |-> r.rowid]
<1>1. PICK a1, a2, a3, a4, a5, a6 :
        r = [table |-> a1, key |-> a2, repo |-> a3, val |-> a4, foreign |-> a5, rowid |-> a6]
  BY DEF IsRow
<1>2. r \in [table : {a1}, key : {a2}, repo : {a3}, val : {a4}, foreign : {a5}, rowid : {a6}]
  BY <1>1
<1>3. PICK p, q : p = [r EXCEPT !.val = v] /\ q = [r EXCEPT !.foreign = v]
  OBVIOUS
<1>4. p \in [table : {a1}, key : {a2}, repo : {a3}, val : {v}, foreign : {a5}, rowid : {a6}]
  BY <1>2, <1>3
<1>5. q \in [table : {a1}, key : {a2}, repo : {a3}, val : {a4}, foreign : {v}, rowid : {a6}]
  BY <1>2, <1>3
<1>6. p = [table |-> a1, key |-> a2, repo |-> a3, val |-> v, foreign |-> a5, rowid |-> a6]
  BY <1>4
<1>7. q = [table |-> a1, key |-> a2, repo |-> a3, val |-> a4, foreign |-> v, rowid |-> a6]
  BY <1>5
<1>8. r.table = a1 /\ r.key = a2 /\ r.repo = a3 /\ r.val = a4 /\ r.foreign = a5 /\ r.rowid = a6
  BY <1>1
<1> QED BY <1>3, <1>6, <1>7, <1>8

\* Whatever another release writes, the rows show a state.
LEMMA OtherKeeps ==
    ASSUME RowInv, OtherWriter
    PROVE  RowInv'
<1> USE DEF RowInv
<1>1. ~opened /\ mutations' = mutations + 1 /\ opened' = opened /\ refusals' = refusals
  BY DEF OtherWriter
<1>2. \A r \in main : IsRow(r)
  BY <1>1 DEF Shown
<1> HIDE DEF RowInv
<1>3. ASSUME NEW r \in main, NEW q, NEW v, IsRow(r),
             q = [table |-> r.table, key |-> r.key, repo |-> r.repo, val |-> v, foreign |-> r.foreign,
                  rowid |-> r.rowid]
      PROVE  IsRow(q) /\ SameRow(q, r) /\ q.rowid = r.rowid /\ q.repo = r.repo /\ q.val = v
             /\ q.foreign = r.foreign /\ q.table = r.table
  BY <1>3 DEF IsRow, SameRow
<1>4. ASSUME NEW r \in main, main' = (main \ {r}) \cup {[r EXCEPT !.foreign = "set"]},
             marked' = marked \cup {[table |-> r.table, key |-> r.key]}
      PROVE  RowInv'
  <2>1. PICK q : q = [r EXCEPT !.foreign = "set"]
    OBVIOUS
  <2>2. IsRow(r)
    BY <1>2
  <2>3. q = [table |-> r.table, key |-> r.key, repo |-> r.repo, val |-> r.val, foreign |-> "set", rowid |-> r.rowid]
    BY <2>1, <2>2, FieldSet
  <2>4. IsRow(q) /\ SameRow(q, r) /\ q.rowid = r.rowid /\ q.repo = r.repo /\ q.val = r.val /\ q.foreign = "set"
    BY <2>2, <2>3 DEF IsRow, SameRow
  <2> QED BY <1>1, <1>4, <2>1, <2>4, RewriteKeeps
<1>5. ASSUME NEW r \in main, NEW v, main' = (main \ {r}) \cup {[r EXCEPT !.val = v]}, marked' = marked,
             \/ r.table = "check_runs" /\ v = 0
             \/ r.table = "bot_operations" /\ v = "unsealed"
             \/ r.table = "pull_requests" /\ v = ""
      PROVE  RowInv'
  <2>1. PICK q : q = [r EXCEPT !.val = v]
    OBVIOUS
  <2>2. IsRow(r)
    BY <1>2
  <2>3. q = [table |-> r.table, key |-> r.key, repo |-> r.repo, val |-> v, foreign |-> r.foreign, rowid |-> r.rowid]
    BY <2>1, <2>2, FieldSet
  <2>4. IsRow(q) /\ SameRow(q, r) /\ q.rowid = r.rowid /\ q.repo = r.repo /\ q.val = v
        /\ q.foreign = r.foreign /\ q.table = r.table
    BY <1>3, <2>2, <2>3
  <2>5. Loosened(q)
    <3>1. CASE r.table = "check_runs" /\ v = 0
      BY <2>4, <3>1 DEF Loosened
    <3>2. CASE r.table = "bot_operations" /\ v = "unsealed"
      BY <2>4, <3>2 DEF Loosened
    <3>3. CASE r.table = "pull_requests" /\ v = ""
      BY <2>4, <3>3 DEF Loosened
    <3> QED BY <1>5, <3>1, <3>2, <3>3
  <2> QED BY <1>1, <1>5, <2>1, <2>4, <2>5, RewriteKeeps
<1>6. ASSUME NEW r \in main, r.table \in {"repo_counters", "branch_protection_rules"}, main' = main \ {r},
             marked' = {m \in marked : ~SameRow(m, r)}
      PROVE  RowInv'
  <2>1. PICK s : Normal(s, mutations) /\ Shown(main, s)
    BY <1>1 DEF RowInv
  <2>2. mutations \in Nat /\ mutations' \in Nat /\ mutations <= mutations'
    BY <1>1 DEF RowInv
  <2>3. Normal(s, mutations')
    BY <2>1, <2>2, NormalLater
  <2>4. \E u : Normal(u, mutations') /\ Shown(main', u)
    BY <1>6, <2>1, <2>2, <2>3, RowRemoved
  <2>5. Marks(main', marked')
    <3>1. Marks(main, marked)
      BY DEF RowInv
    <3>2. ASSUME NEW m \in marked'
          PROVE  \E x \in main' : SameRow(x, m)
      <4>1. m \in marked /\ ~SameRow(m, r)
        BY <1>6
      <4>2. PICK x \in main : SameRow(x, m)
        BY <3>1, <4>1 DEF Marks
      <4>3. x # r
        BY <4>1, <4>2, SameRows
      <4> QED BY <1>6, <4>2, <4>3
    <3> QED BY <1>6, <3>1, <3>2 DEF Marks
  <2> QED BY <1>1, <2>2, <2>4, <2>5 DEF RowInv
<1>7. \/ \E r \in main : /\ main' = (main \ {r}) \cup {[r EXCEPT !.foreign = "set"]}
                         /\ marked' = marked \cup {[table |-> r.table, key |-> r.key]}
      \/ \E r \in main : /\ r.table = "check_runs" /\ r.val > 0
                         /\ main' = (main \ {r}) \cup {[r EXCEPT !.val = 0]} /\ UNCHANGED marked
      \/ \E r \in main : /\ r.table = "bot_operations"
                         /\ main' = (main \ {r}) \cup {[r EXCEPT !.val = "unsealed"]} /\ UNCHANGED marked
      \/ \E r \in main : /\ r.table = "pull_requests"
                         /\ main' = (main \ {r}) \cup {[r EXCEPT !.val = ""]} /\ UNCHANGED marked
      \/ \E r \in main : /\ r.table \in {"repo_counters", "branch_protection_rules"} /\ main' = main \ {r}
                         /\ marked' = {m \in marked : ~SameRow(m, r)}
  BY DEF OtherWriter
<1>8. ASSUME \E r \in main : /\ r.table = "check_runs" /\ r.val > 0
                             /\ main' = (main \ {r}) \cup {[r EXCEPT !.val = 0]} /\ UNCHANGED marked
      PROVE  RowInv'
  <2>1. PICK r \in main : r.table = "check_runs" /\ main' = (main \ {r}) \cup {[r EXCEPT !.val = 0]}
                          /\ marked' = marked
    BY <1>8
  <2> QED BY <1>5, <2>1
<1>9. ASSUME \E r \in main : /\ r.table = "bot_operations"
                             /\ main' = (main \ {r}) \cup {[r EXCEPT !.val = "unsealed"]} /\ UNCHANGED marked
      PROVE  RowInv'
  <2>1. PICK r \in main : r.table = "bot_operations" /\ main' = (main \ {r}) \cup {[r EXCEPT !.val = "unsealed"]}
                          /\ marked' = marked
    BY <1>9
  <2> QED BY <1>5, <2>1
<1>10. ASSUME \E r \in main : /\ r.table = "pull_requests"
                              /\ main' = (main \ {r}) \cup {[r EXCEPT !.val = ""]} /\ UNCHANGED marked
       PROVE  RowInv'
  <2>1. PICK r \in main : r.table = "pull_requests" /\ main' = (main \ {r}) \cup {[r EXCEPT !.val = ""]}
                          /\ marked' = marked
    BY <1>10
  <2> QED BY <1>5, <2>1
<1>11. ASSUME \E r \in main : /\ main' = (main \ {r}) \cup {[r EXCEPT !.foreign = "set"]}
                              /\ marked' = marked \cup {[table |-> r.table, key |-> r.key]}
       PROVE  RowInv'
  BY <1>4, <1>11
<1>12. ASSUME \E r \in main : /\ r.table \in {"repo_counters", "branch_protection_rules"} /\ main' = main \ {r}
                              /\ marked' = {m \in marked : ~SameRow(m, r)}
       PROVE  RowInv'
  BY <1>6, <1>12
<1> QED BY <1>7, <1>8, <1>9, <1>10, <1>11, <1>12

\* Lists that are emptied, moved or left keep the order of their entries.
LEMMA ListsMoved ==
    ASSUME NEW s, NEW n \in Nat, Normal(s, n), NEW t,
           \A l \in DOMAIN t.lists : \/ t.lists[l] = <<>>
                                     \/ \E o \in DOMAIN s.lists : o[1] = l[1] /\ t.lists[l] = s.lists[o]
    PROVE  ListsFollow(s, t)
<1> SUFFICES ASSUME NEW l \in DOMAIN t.lists, NEW i \in DOMAIN t.lists[l], NEW j \in DOMAIN t.lists[l], i < j,
                    NEW m \in DOMAIN s.lists, NEW k \in DOMAIN s.lists[m],
                    m[1] = l[1], s.lists[m][k].id = t.lists[l][j].id
             PROVE  \E h \in DOMAIN s.lists[m] : h < k /\ s.lists[m][h].id = t.lists[l][i].id
  BY DEF ListsFollow
<1>1. t.lists[l] # <<>>
  OBVIOUS
<1>2. PICK o \in DOMAIN s.lists : o[1] = l[1] /\ t.lists[l] = s.lists[o]
  BY <1>1
<1>3. j \in DOMAIN s.lists[o] /\ i \in DOMAIN s.lists[o] /\ s.lists[m][k].id = s.lists[o][j].id /\ m[1] = o[1]
  BY <1>2
<1>4. m = o /\ k = j
  BY <1>3 DEF Normal, ListsNormal
<1> QED BY <1>2, <1>3, <1>4

\* Moved with their repository, entries belong to it as before.
Carried(s, o, t, l) ==
    /\ o[1] = l[1] /\ t.lists[l] = s.lists[o]
    /\ s.lists[o] # <<>> => RowRepo(s, o[2]) = RowRepo(t, l[2])

LEMMA ReposMoved ==
    ASSUME NEW s, NEW n \in Nat, Normal(s, n), NEW t,
           \A l \in DOMAIN t.lists : t.lists[l] = <<>> \/ \E o \in DOMAIN s.lists : Carried(s, o, t, l)
    PROVE  ReposFollow(s, t)
<1> SUFFICES ASSUME NEW l \in DOMAIN t.lists, NEW m \in DOMAIN s.lists, NEW i \in DOMAIN t.lists[l],
                    NEW k \in DOMAIN s.lists[m], m[1] = l[1], s.lists[m][k].id = t.lists[l][i].id
             PROVE  RowRepo(s, m[2]) = RowRepo(t, l[2])
  BY DEF ReposFollow
<1>1. t.lists[l] # <<>>
  OBVIOUS
<1>2. PICK o \in DOMAIN s.lists : Carried(s, o, t, l)
  BY <1>1
<1>3. o[1] = l[1] /\ t.lists[l] = s.lists[o] /\ (s.lists[o] # <<>> => RowRepo(s, o[2]) = RowRepo(t, l[2]))
  BY <1>2 DEF Carried
<1>4. i \in DOMAIN s.lists[o] /\ s.lists[m][k].id = s.lists[o][i].id /\ m[1] = o[1]
  BY <1>3
<1>5. m = o
  BY <1>4 DEF Normal, ListsNormal
<1> QED BY <1>1, <1>3, <1>5

\* Entries of lists that stay belong to the repository they belonged to.
LEMMA ListsStay ==
    ASSUME NEW s, NEW n \in Nat, Normal(s, n), NEW t, t.lists = s.lists, t.repos = s.repos
    PROVE  ReposFollow(s, t)
<1> SUFFICES ASSUME NEW l \in DOMAIN t.lists, NEW m \in DOMAIN s.lists, NEW i \in DOMAIN t.lists[l],
                    NEW k \in DOMAIN s.lists[m], m[1] = l[1], s.lists[m][k].id = t.lists[l][i].id
             PROVE  RowRepo(s, m[2]) = RowRepo(t, l[2])
  BY DEF ReposFollow
<1>1. m = l
  BY DEF Normal, ListsNormal
<1> QED BY <1>1 DEF RowRepo

\* Only maps change.
LEMMA MapsFollow ==
    ASSUME NEW s, NEW n \in Nat, Normal(s, n), NEW t, NEW M, Is(t, s.repos, M, s.lists, s.counters),
           \A e \in M : EntryNormal(s, e),
           \A e, f \in M : SameEntry(e, f) => e = f,
           ReservedOnce(M), HaveParents(M), ReservedFollow(s.maps, M)
    PROVE  Normal(t, n) /\ Normal(t, n + 1) /\ Follows(s, t)
<1>1. t.repos = s.repos /\ t.maps = M /\ t.lists = s.lists /\ t.counters = s.counters
  BY PartsAre
<1>2. Is(t, t.repos, t.maps, t.lists, t.counters)
  BY <1>1
<1>3. IsState(t) /\ ReposNormal(t) /\ CountersNormal(t, n)
  BY <1>1, <1>2 DEF Normal, IsState, Is, ReposNormal, CountersNormal
<1>4. \A l \in DOMAIN s.lists : ListNormal(s, l, n) => ListNormal(t, l, n)
  BY <1>1 DEF ListNormal, HasRepo
<1>5. ListsNormal(t, n)
  BY <1>1, <1>4 DEF Normal, ListsNormal
<1>6. \A e : EntryNormal(s, e) => EntryNormal(t, e)
  BY <1>1 DEF EntryNormal, HasRepo
<1>7. MapsNormal(t)
  BY <1>1, <1>6 DEF MapsNormal
<1>8. Normal(t, n)
  BY <1>3, <1>5, <1>7 DEF Normal
<1>9. Normal(t, n + 1)
  BY <1>8, NormalLater
<1>10. SlugsFollow(s, t) /\ ReservedFollow(s.maps, t.maps)
  BY <1>1 DEF SlugsFollow
<1>11. ListsFollow(s, t)
  BY <1>1, ListsMoved
<1>12. ReposFollow(s, t)
  BY <1>1, ListsStay
<1> QED BY <1>8, <1>9, <1>10, <1>11, <1>12 DEF Follows

\* Of two entries of a table that reserves names with one key there is one.
LEMMA ReservingKeys ==
    ASSUME NEW s, NEW n, Normal(s, n), NEW e \in s.maps, NEW f \in s.maps,
           e.table \in Reserving, f.table = e.table
    PROVE  e.slug = NoSlug /\ f.slug = NoSlug /\ (e.key = f.key => e = f)
<1>1. e.slug = NoSlug /\ f.slug = NoSlug
  BY TablesApart DEF Normal, MapsNormal, EntryNormal
<1> QED BY <1>1 DEF Normal, MapsNormal, SameEntry

\* What a repair leaves of an entry.
Repairs(e, f) ==
    /\ e = [table |-> f.table, slug |-> f.slug, key |-> f.key, val |-> e.val]
    /\ e.val = f.val \/ (f.table = "provider_connections" /\ e.val = "fenced")

LEMMA FencedIs ==
    ASSUME NEW f, f = [table |-> f.table, slug |-> f.slug, key |-> f.key, val |-> f.val]
    PROVE  Repairs(Fenced(f), f)
<1>1. CASE f.table = "provider_connections" /\ f.val = "rotating"
  <2>1. [f EXCEPT !.val = "fenced"] = [table |-> f.table, slug |-> f.slug, key |-> f.key, val |-> "fenced"]
    <3>1. PICK a, b, c, d : f = [table |-> a, slug |-> b, key |-> c, val |-> d]
      OBVIOUS
    <3>2. [f EXCEPT !.val = "fenced"] = [table |-> a, slug |-> b, key |-> c, val |-> "fenced"]
      BY <3>1, EntryChanged
    <3>3. f.table = a /\ f.slug = b /\ f.key = c
      BY <3>1
    <3> QED BY <3>2, <3>3
  <2>2. PICK e : e = [table |-> f.table, slug |-> f.slug, key |-> f.key, val |-> "fenced"]
    OBVIOUS
  <2>3. Fenced(f) = e
    BY <1>1, <2>1, <2>2 DEF Fenced
  <2> QED BY <1>1, <2>2, <2>3 DEF Repairs
<1>2. CASE ~(f.table = "provider_connections" /\ f.val = "rotating")
  BY <1>2 DEF Fenced, Repairs
<1> QED BY <1>1, <1>2

\* What an open repairs may follow what it has read.
LEMMA RepairFollows ==
    ASSUME NEW s, NEW n \in Nat, Normal(s, n)
    PROVE  /\ Normal(Repaired(s), n) /\ Follows(s, Repaired(s))
           /\ \E M : Is(Repaired(s), s.repos, M, s.lists, s.counters)
           /\ \A d \in StageState(Repaired(s)) : d.table = "bot_operations" => \E c \in StageState(s) : SameRow(c, d)
<1> DEFINE M == {Fenced(e) : e \in {x \in s.maps : ~Dead(x)}} \cup MissingRules(s)
           IsRule(e) == \E a \in RowSlugs :
                /\ e = NewRule(a) /\ s.repos[a] # NoUuid
                /\ ~\E f \in s.maps : f.table = "branch_protection_rules" /\ f.slug = a /\ f.key = DefaultRule
<1>1. Repaired(s) = [s EXCEPT !.maps = M]
  BY DEF Repaired
<1>2. \A f \in s.maps : /\ EntryNormal(s, f) /\ Repairs(Fenced(f), f)
                        /\ f = [table |-> f.table, slug |-> f.slug, key |-> f.key, val |-> f.val]
  <2>1. \A f \in s.maps : EntryNormal(s, f)
    BY DEF Normal, MapsNormal
  <2> QED BY <2>1, FencedIs DEF EntryNormal
<1>3. \A e \in M : IsRule(e) \/ \E f \in s.maps : ~Dead(f) /\ Repairs(e, f)
  BY <1>2 DEF MissingRules
<1>4. \A f \in s.maps : ~Dead(f) => Fenced(f) \in M
  OBVIOUS
<1> HIDE DEF M
<1>5. \A e : IsRule(e) => /\ e = [table |-> e.table, slug |-> e.slug, key |-> e.key, val |-> e.val]
                          /\ e.table = "branch_protection_rules" /\ e.key = DefaultRule /\ e.val = "default"
                          /\ e.slug \in RowSlugs /\ HasRepo(s, e.slug)
                          /\ \A f \in s.maps : ~SameEntry(e, f)
  BY DEF NewRule, HasRepo, SameEntry
<1>6. \A e, f : Repairs(e, f) => /\ SameEntry(e, f) /\ e.table = f.table /\ e.slug = f.slug /\ e.key = f.key
                                 /\ e = [table |-> e.table, slug |-> e.slug, key |-> e.key, val |-> e.val]
                                 /\ e.val = f.val \/ (f.table = "provider_connections" /\ e.val = "fenced")
  BY DEF Repairs, SameEntry
<1>7. \A e, f : IsRule(e) /\ IsRule(f) /\ SameEntry(e, f) => e = f
  BY DEF NewRule, SameEntry
<1> HIDE DEF IsRule
<1>8. \A e \in M : EntryNormal(s, e)
  <2> SUFFICES ASSUME NEW e \in M PROVE EntryNormal(s, e)
    OBVIOUS
  <2>1. CASE IsRule(e)
    <3>1. e.table \in MapTables /\ e.table \notin GlobalTables /\ e.table # "issues"
      BY <1>5, <2>1, TablesApart
    <3>2. e.val \notin {"unsealed", ""}
      BY <1>5, <2>1
    <3> QED BY <1>5, <2>1, <3>1, <3>2 DEF EntryNormal
  <2>2. ASSUME NEW f \in s.maps, Repairs(e, f)
        PROVE  EntryNormal(s, e)
    <3>1. EntryNormal(s, f)
      BY <1>2
    <3>2. e.table = f.table /\ e.slug = f.slug /\ e.key = f.key
          /\ e = [table |-> e.table, slug |-> e.slug, key |-> e.key, val |-> e.val]
      BY <1>6, <2>2
    <3>3. e.val \notin {"unsealed", ""}
      <4>1. f.val \notin {"unsealed", ""}
        BY <3>1 DEF EntryNormal
      <4>2. e.val = f.val \/ e.val = "fenced"
        BY <1>6, <2>2
      <4> QED BY <4>1, <4>2
    <3> QED BY <3>1, <3>2, <3>3 DEF EntryNormal
  <2> QED BY <1>3, <2>1, <2>2
<1>9. ASSUME NEW e \in M, NEW f \in M, SameEntry(e, f)
      PROVE  e = f
  <2>1. CASE IsRule(e) /\ IsRule(f)
    BY <1>7, <1>9, <2>1
  <2>2. CASE IsRule(e) /\ ~IsRule(f)
    <3>1. PICK g \in s.maps : Repairs(f, g)
      BY <1>3, <2>2
    <3>2. SameEntry(e, g)
      BY <1>6, <1>9, <3>1 DEF SameEntry
    <3> QED BY <1>5, <2>2, <3>2
  <2>3. CASE ~IsRule(e) /\ IsRule(f)
    <3>1. PICK g \in s.maps : Repairs(e, g)
      BY <1>3, <2>3
    <3>2. SameEntry(f, g)
      BY <1>6, <1>9, <3>1 DEF SameEntry
    <3> QED BY <1>5, <2>3, <3>2
  <2>4. CASE ~IsRule(e) /\ ~IsRule(f)
    <3>1. \A x \in M : ~IsRule(x) => \E g \in s.maps : x = Fenced(g) /\ SameEntry(x, g)
      BY <1>2, <1>6 DEF M, MissingRules, IsRule
    <3>2. PICK g \in s.maps : e = Fenced(g) /\ SameEntry(e, g)
      BY <2>4, <3>1
    <3>3. PICK h \in s.maps : f = Fenced(h) /\ SameEntry(f, h)
      BY <2>4, <3>1
    <3>4. SameEntry(g, h)
      BY <1>9, <3>2, <3>3 DEF SameEntry
    <3>5. g = h
      BY <3>4 DEF Normal, MapsNormal
    <3> QED BY <3>2, <3>3, <3>5
  <2> QED BY <2>1, <2>2, <2>3, <2>4
<1>10. ASSUME NEW e \in M, e.table \in Reserving
       PROVE  e \in s.maps
  <2>1. ~IsRule(e)
    BY <1>5, <1>10, TablesApart
  <2>2. PICK f \in s.maps : Repairs(e, f)
    BY <1>3, <2>1
  <2>3. e.table = f.table /\ f.table # "provider_connections"
    BY <1>6, <1>10, <2>2 DEF Reserving
  <2>4. e = [table |-> f.table, slug |-> f.slug, key |-> f.key, val |-> f.val]
    BY <1>6, <2>2, <2>3
  <2> QED BY <1>2, <2>4
<1>11. ReservedOnce(M)
  BY <1>10 DEF ReservedOnce, Normal, MapsNormal
<1>12. ReservedFollow(s.maps, M)
  <2> SUFFICES ASSUME NEW e \in s.maps, NEW f \in M, e.table \in Reserving, f.table = e.table, e.key = f.key
               PROVE  f.val = e.val
    BY DEF ReservedFollow
  <2>1. f \in s.maps
    BY <1>10
  <2> QED BY <2>1, ReservingKeys
<1>13. HaveParents(M)
  <2> SUFFICES ASSUME NEW e \in M, e.table \in DOMAIN Parents
               PROVE  \E f \in M : f.table = Parents[e.table] /\ f.slug = e.slug /\ f.key = e.key
    BY DEF HaveParents
  <2>1. ~IsRule(e)
    BY <1>5, TablesApart
  <2>2. PICK f \in s.maps : Repairs(e, f)
    BY <1>3, <2>1
  <2>3. e.table = f.table /\ e.slug = f.slug /\ e.key = f.key
    BY <1>6, <2>2
  <2>4. PICK g \in s.maps : g.table = Parents[f.table] /\ g.slug = f.slug /\ g.key = f.key
    BY <2>3 DEF Normal, MapsNormal, HaveParents
  <2>5. \A c \in DOMAIN Parents : Parents[c] # "password_recovery_tokens"
    BY DEF Parents
  <2>6. ~Dead(g)
    BY <2>3, <2>4, <2>5 DEF Dead
  <2>7. Fenced(g) \in M /\ Repairs(Fenced(g), g)
    BY <1>2, <1>4, <2>6
  <2>8. Fenced(g).table = g.table /\ Fenced(g).slug = g.slug /\ Fenced(g).key = g.key
    BY <1>6, <2>7
  <2> QED BY <2>3, <2>4, <2>7, <2>8
<1>14. Is(Repaired(s), s.repos, M, s.lists, s.counters)
  <2>1. Is(s, s.repos, s.maps, s.lists, s.counters)
    BY NormalIs
  <2>2. Is([s EXCEPT !.maps = M], s.repos, M, s.lists, s.counters)
    BY <2>1, FieldsAre
  <2> QED BY <1>1, <2>2
<1>15. Normal(Repaired(s), n) /\ Follows(s, Repaired(s))
  <2>1. PICK t : t = Repaired(s)
    OBVIOUS
  <2>2. Is(t, s.repos, M, s.lists, s.counters)
    BY <1>14, <2>1
  <2>3. Normal(t, n) /\ Follows(s, t)
    BY <1>8, <1>9, <1>11, <1>12, <1>13, <2>2, MapsFollow
  <2> QED BY <2>1, <2>3
<1>16. ASSUME NEW d \in StageState(Repaired(s)), d.table = "bot_operations"
       PROVE  \E c \in StageState(s) : SameRow(c, d)
  <2>1. PICK t : t = Repaired(s)
    OBVIOUS
  <2>2. t.repos = s.repos /\ t.maps = M /\ t.lists = s.lists /\ t.counters = s.counters
    BY <1>14, <2>1, PartsAre
  <2>3. Staged(t, d)
    BY <2>1, StageIs
  <2>4. "bot_operations" \in MapTables
    BY DEF MapTables, GlobalTables, BotTables
  <2>5. \A l \in DOMAIN t.lists : l[1] \in ListTables => \A i : ListRow(t, l, i).table # "bot_operations"
    BY <2>4, TablesApart DEF ListRow
  <2>6. \A a : RepoRow(t, a).table # "bot_operations" /\ CountRow(t, a).table # "bot_operations"
    BY DEF RepoRow, CountRow
  <2>7. PICK e \in t.maps : e.table \in MapTables /\ d = MapRow(t, e)
    BY <1>16, <2>3, <2>5, <2>6 DEF Staged
  <2>8. e.table = "bot_operations"
    BY <1>16, <2>7 DEF MapRow
  <2>9. PICK f \in s.maps : Repairs(e, f)
    BY <1>3, <1>5, <2>2, <2>7, <2>8
  <2>10. e.table = f.table /\ e.slug = f.slug /\ e.key = f.key
    BY <1>6, <2>9
  <2>11. MapRow(s, f) \in StageState(s)
    BY <2>7, <2>10, StageIs DEF Staged
  <2>12. SameRow(MapRow(s, f), d)
    BY <2>2, <2>7, <2>10 DEF SameRow, MapRow, RowRepo
  <2> QED BY <2>11, <2>12
<1> QED BY <1>14, <1>15, <1>16

\* Opening: what is read is a state the rows show, and its repair is persisted.
LEMMA ReopenKeeps ==
    ASSUME RowInv, Reopen
    PROVE  RowInv'
<1> DEFINE rows == {r \in main : ~Unsealed(r)}
           read == LoadState(rows)
           state == Repaired(BackfillCounters(read))
           n == mutations
<1>1. PICK s : Normal(s, n) /\ Shown(main, s)
  BY DEF Reopen, RowInv
<1>2. n \in Nat /\ Marks(main, marked) /\ refusals = 0
  BY DEF RowInv
<1>3. rows \subseteq main /\ (\A r \in rows : ~Unsealed(r)) /\ \A r \in main : Unsealed(r) \/ r \in rows
  OBVIOUS
<1>4. /\ ~opened
      /\ IF state = read \/ Persists(rows, state)
         THEN /\ opened' = TRUE /\ mem' = state
              /\ main' = IF state = read THEN rows ELSE ApplyRows(rows, StageState(state))
              /\ marked' = {m \in marked : \E r \in main' : SameRow(r, m)}
              /\ UNCHANGED refusals
         ELSE /\ main' = rows /\ marked' = {m \in marked : \E r \in rows : SameRow(r, m)}
              /\ refusals' = refusals + 1 /\ UNCHANGED <<opened, mem>>
      /\ mutations' = n
  BY DEF Reopen, Unsealed
<1>5. \E u : Normal(u, n) /\ Shown(rows, u)
  BY <1>1, <1>2, SealedShown
<1> HIDE DEF rows, n
<1>6. PICK u0 : Normal(u0, n) /\ Shown(rows, u0)
  BY <1>5
<1>7. PICK u : Normal(u, n) /\ InTime(u) /\ Shown(rows, u)
  BY <1>2, <1>6, SortedIs
<1>8. PICK t : t = BackfillCounters(read)
  OBVIOUS
<1>9. ReadsAs(rows, u, t)
  BY <1>2, <1>7, <1>8, ReopenReads
<1>10. Normal(t, n) /\ InTime(t) /\ Shown(rows, t)
  BY <1>2, <1>3, <1>7, <1>9, ReopenNormal, ReopenShown
<1>11. state = Repaired(t)
  BY <1>8
<1>12. t.maps = read.maps
  <2>1. PICK a, b, c, d : Is(read, a, b, c, d)
    BY DEF LoadState, Is
  <2>2. \E w : BackfillCounters(read) = [read EXCEPT !.counters = w]
    BY DEF BackfillCounters
  <2>3. PICK w : BackfillCounters(read) = [read EXCEPT !.counters = w]
    BY <2>2
  <2>4. read.maps = b /\ read = [repos |-> a, maps |-> b, lists |-> c, counters |-> d]
    BY <2>1, PartsAre DEF Is
  <2>5. read = [repos |-> read.repos, maps |-> read.maps, lists |-> read.lists, counters |-> read.counters]
    BY <2>4
  <2> HIDE DEF read
  <2>6. t = [repos |-> read.repos, maps |-> read.maps, lists |-> read.lists, counters |-> w]
    BY <1>8, <2>3, <2>5, CountersChanged
  <2> QED BY <2>6
<1> HIDE DEF read, state
<1>13. Normal(state, n) /\ Follows(t, state)
  BY <1>2, <1>10, <1>11, RepairFollows
<1>14. PICK M : Is(state, t.repos, M, t.lists, t.counters)
  BY <1>2, <1>10, <1>11, RepairFollows
<1>15. state.repos = t.repos /\ state.maps = M /\ state.lists = t.lists /\ state.counters = t.counters
  BY <1>14, PartsAre
<1>16. Persists(rows, state)
  BY <1>2, <1>10, <1>13, AppliedSucceeds DEF Persists
<1>17. /\ opened' = TRUE /\ mem' = state /\ refusals' = 0 /\ mutations' = n
       /\ main' = IF state = read THEN rows ELSE ApplyRows(rows, StageState(state))
       /\ marked' = {m \in marked : \E r \in main' : SameRow(r, m)}
  BY <1>2, <1>4, <1>16
<1>18. CASE state = read
  <2>1. main' = rows
    BY <1>17, <1>18
  <2>2. state = t
    <3>1. Is(t, t.repos, t.maps, t.lists, t.counters)
      BY <1>10, NormalIs
    <3>2. M = t.maps
      BY <1>12, <1>15, <1>18
    <3> QED BY <1>14, <3>1, <3>2 DEF Is
  <2>3. LoadState(main') = Sorted(state)
    BY <1>2, <1>10, <1>18, <2>1, <2>2, SortedIs DEF read
  <2>4. Marks(main', marked')
    BY <1>2, <1>3, <1>17, <2>1 DEF Marks
  <2> QED BY <1>2, <1>10, <1>17, <2>1, <2>2, <2>3, <2>4 DEF RowInv
<1>19. CASE state # read
  <2>1. main' = ApplyRows(rows, StageState(state))
    BY <1>17, <1>19
  <2>2. Exact(main', state)
    BY <1>2, <1>10, <1>13, <2>1, AppliedExact
  <2>3. LoadState(main') = Sorted(state) /\ Shown(main', state)
    BY <1>2, <1>13, <2>2, LoadsSorted DEF Exact
  <2>4. ASSUME NEW x \in main', NEW m \in marked', SameRow(x, m)
        PROVE  x.foreign = "set"
    <3>1. m \in marked
      BY <1>17
    <3>2. PICK r \in main : SameRow(r, m)
      BY <1>2, <3>1 DEF Marks
    <3>3. r.foreign = "set"
      BY <1>2, <3>1, <3>2 DEF Marks
    <3>4. SameRow(x, r)
      BY <2>4, <3>2, SameRows
    <3>5. r \in rows
      <4>1. CASE Unsealed(r)
        <5>1. PICK d \in StageState(state) : SameRow(x, d)
          BY <2>3 DEF Shown, Agrees
        <5>2. d.table = "bot_operations"
          BY <3>4, <4>1, <5>1 DEF SameRow, Unsealed
        <5>3. PICK c \in StageState(t) : SameRow(c, d)
          BY <1>2, <1>10, <1>11, <5>1, <5>2, RepairFollows
        <5>4. c.table # "repo_counters"
          BY <5>2, <5>3 DEF SameRow
        <5>5. PICK y \in rows : SameRow(y, c)
          BY <1>10, <5>4 DEF Shown
        <5>6. SameRow(y, r)
          BY <3>4, <5>1, <5>3, <5>5 DEF SameRow
        <5>7. y = r
          BY <1>1, <1>3, <5>6 DEF Shown
        <5> QED BY <5>7
      <4> QED BY <1>3, <4>1
    <3>6. x.foreign = r.foreign
      BY <1>2, <1>10, <1>13, <2>1, <3>4, <3>5, AppliedKeepsColumns
    <3> QED BY <3>3, <3>6
  <2>5. Marks(main', marked')
    BY <1>17, <2>4 DEF Marks
  <2> QED BY <1>2, <1>13, <1>17, <2>3, <2>5 DEF RowInv
<1> QED BY <1>18, <1>19

\* An empty file shows the empty state.
LEMMA RowInvInit ==
    ASSUME RowInit
    PROVE  RowInv
<1>1. /\ main = {} /\ opened = FALSE /\ marked = {} /\ refusals = 0 /\ mutations = 0
  BY DEF RowInit
<1>2. PICK e : e = EmptyState
  OBVIOUS
<1>3. /\ e.repos = [s \in RowSlugs |-> NoUuid] /\ e.maps = {}
      /\ e.lists = [l \in UsedLists \X AllSlugs |-> <<>>]
      /\ e.counters = [s \in RowSlugs |-> NoCount]
      /\ e = [repos |-> e.repos, maps |-> e.maps, lists |-> e.lists, counters |-> e.counters]
  BY <1>2 DEF EmptyState, AllSlugs
<1>4. IsState(e) /\ ReposNormal(e) /\ CountersNormal(e, 0) /\ MapsNormal(e)
  BY <1>3 DEF IsState, ReposNormal, CountersNormal, MapsNormal, NoCount, ReservedOnce, HaveParents
<1>5. DOMAIN e.lists = UsedLists \X AllSlugs /\ \A l \in DOMAIN e.lists : e.lists[l] = <<>>
  BY <1>3
<1>6. ListsNormal(e, 0)
  BY <1>5 DEF ListsNormal, ListNormal
<1>7. Normal(e, 0)
  BY <1>4, <1>6 DEF Normal
<1>8. Shown({}, e)
  <2>1. \A d : ~Staged(e, d)
    BY <1>3, <1>5 DEF Staged
  <2>2. \A d : d \notin StageState(e)
    BY <2>1, StageIs
  <2> QED BY <2>2 DEF Shown, Bounded, InOrder
<1>9. Marks(main, marked)
  BY <1>1 DEF Marks
<1> QED BY <1>1, <1>7, <1>8, <1>9 DEF RowInv

----------------------------------------------------------------------------
(* Each mutation leads to a state that may follow *)

\* What holds before a mutation.
LEMMA BeforeMutation ==
    ASSUME RowInv, NEW new, NEW fits, Mutate(new, fits)
    PROVE  opened /\ mutations \in Nat /\ Normal(mem, mutations)
  BY DEF RowInv, Mutate

\* What belongs to a slug without its repository cannot be staged.
LEMMA LostRefused ==
    ASSUME NEW t, \/ \E e \in t.maps : e.table \in MapTables /\ RowRepo(t, e.slug) = NoUuid
                  \/ \E l \in DOMAIN t.lists : /\ l[1] \in ListTables /\ DOMAIN t.lists[l] # {}
                                               /\ RowRepo(t, l[2]) = NoUuid
    PROVE  ~StagingSucceeds(t)
<1>1. ASSUME NEW e \in t.maps, e.table \in MapTables, RowRepo(t, e.slug) = NoUuid
      PROVE  \E d \in StageState(t) : d.repo = NoUuid
  <2>1. MapRow(t, e) \in StageState(t)
    BY <1>1, StageIs DEF Staged
  <2>2. MapRow(t, e).repo = NoUuid
    BY <1>1 DEF MapRow
  <2> QED BY <2>1, <2>2
<1>2. ASSUME NEW l \in DOMAIN t.lists, l[1] \in ListTables, NEW i \in DOMAIN t.lists[l],
             RowRepo(t, l[2]) = NoUuid
      PROVE  \E d \in StageState(t) : d.repo = NoUuid
  <2>1. ListRow(t, l, i) \in StageState(t)
    BY <1>2, StageIs DEF Staged
  <2>2. ListRow(t, l, i).repo = NoUuid
    BY <1>2 DEF ListRow
  <2> QED BY <2>1, <2>2
<1> QED BY <1>1, <1>2 DEF StagingSucceeds

\* A row of a map is put, replaced or removed.
LEMMA PutFollows ==
    ASSUME RowInv, NEW t \in UsedMaps \ (Reserving \cup {"issues", "pull_requests"}), NEW s \in SlugsFor(t),
           NEW k, NEW v \in RowVals(t), NEW fits \in BOOLEAN, PutRow(t, s, k, v, fits)
    PROVE  RowInv'
<1> DEFINE x == [table |-> t, slug |-> s, key |-> k, val |-> v]
           kept == {e \in mem.maps : ~(e.table = t /\ e.slug = s /\ e.key = k)}
           M == kept \cup (IF v = "gone" THEN {} ELSE {x})
           new == [mem EXCEPT !.maps = M]
<1>1. /\ Mutate(new, fits) /\ (v = "gone" => Removable(t))
      /\ t \in DOMAIN Parents => \E e \in mem.maps : e.table = Parents[t] /\ e.slug = s /\ e.key = k
  BY DEF PutRow
<1>2. /\ \A e \in M : (e \in mem.maps /\ ~(e.table = t /\ e.slug = s /\ e.key = k)) \/ (e = x /\ v # "gone")
      /\ \A e \in mem.maps : ~(e.table = t /\ e.slug = s /\ e.key = k) => e \in M
      /\ v # "gone" => x \in M
  OBVIOUS
<1>3. x.table = t /\ x.slug = s /\ x.key = k /\ x.val = v
  OBVIOUS
<1>4. x = [table |-> x.table, slug |-> x.slug, key |-> x.key, val |-> x.val]
  OBVIOUS
<1> HIDE DEF x, kept, M
<1>5. mutations \in Nat /\ Normal(mem, mutations)
  BY <1>1, BeforeMutation
<1>6. Is(new, mem.repos, M, mem.lists, mem.counters)
  BY <1>5, NormalIs, FieldsAre
<1>7. t \in MapTables /\ (t \in GlobalTables => s = NoSlug) /\ t # "issues" /\ t \notin Reserving
      /\ (s = NoSlug \/ s \in RowSlugs)
  BY SnapshotRowsAssumption DEF MapTables, SlugsFor
<1>8. v \notin {"unsealed", ""}
  BY DEF RowVals
<1>9. CASE v # "gone" /\ ~HasRepo(mem, s)
  <2>1. RowRepo(mem, s) = NoUuid
    BY <1>7, <1>9 DEF HasRepo, RowRepo
  <2>2. new.maps = M /\ new.repos = mem.repos
    BY <1>6, PartsAre
  <2> HIDE DEF new
  <2>3. RowRepo(new, x.slug) = NoUuid /\ x \in new.maps /\ x.table \in MapTables
    BY <1>2, <1>3, <1>7, <1>9, <2>1, <2>2 DEF RowRepo
  <2>4. ~StagingSucceeds(new)
    BY <2>3, LostRefused
  <2> QED BY <1>1, <2>4, MutateRefused
<1>10. CASE v = "gone" \/ HasRepo(mem, s)
  <2>1. v # "gone" => EntryNormal(mem, x)
    BY <1>3, <1>4, <1>7, <1>8, <1>10 DEF EntryNormal
  <2>2. \A e \in mem.maps : EntryNormal(mem, e)
    BY <1>5 DEF Normal, MapsNormal
  <2>3. \A e \in M : EntryNormal(mem, e)
    BY <1>2, <2>1, <2>2
  <2>4. \A e, f \in M : SameEntry(e, f) => e = f
    BY <1>2, <1>3, <1>5 DEF Normal, MapsNormal, SameEntry
  <2>5. \A e \in M : e.table \in Reserving => e \in mem.maps
    BY <1>2, <1>3, <1>7
  <2>6. ReservedOnce(M)
    BY <1>5, <2>5 DEF Normal, MapsNormal, ReservedOnce
  <2>7. ReservedFollow(mem.maps, M)
    <3> SUFFICES ASSUME NEW e \in mem.maps, NEW f \in M, e.table \in Reserving, f.table = e.table,
                        e.key = f.key
                 PROVE  f.val = e.val
      BY DEF ReservedFollow
    <3> QED BY <1>5, <2>5, ReservingKeys
  <2>8. HaveParents(M)
    <3> SUFFICES ASSUME NEW e \in M, e.table \in DOMAIN Parents
                 PROVE  \E f \in M : f.table = Parents[e.table] /\ f.slug = e.slug /\ f.key = e.key
      BY DEF HaveParents
    <3>1. PICK f \in mem.maps : f.table = Parents[e.table] /\ f.slug = e.slug /\ f.key = e.key
      <4>1. CASE e \in mem.maps
        BY <1>5, <4>1 DEF Normal, MapsNormal, HaveParents
      <4>2. CASE e = x
        BY <1>1, <1>3, <4>2
      <4> QED BY <1>2, <4>1, <4>2
    <3>2. CASE f \in M
      BY <3>1, <3>2
    <3>3. CASE f \notin M
      <4>1. f.table = t /\ f.slug = s /\ f.key = k
        BY <1>2, <3>3
      <4>2. t \in Range(Parents)
        BY <3>1, <4>1 DEF Range
      <4>3. v # "gone"
        BY <1>1, <4>2 DEF Removable
      <4> QED BY <1>2, <1>3, <3>1, <4>1, <4>3
    <3> QED BY <3>2, <3>3
  <2> HIDE DEF new
  <2>9. Normal(new, mutations + 1) /\ Follows(mem, new)
    BY <1>5, <1>6, <2>3, <2>4, <2>6, <2>7, <2>8, MapsFollow
  <2> QED BY <1>1, <2>9, MutateKeeps
<1> QED BY <1>9, <1>10

\* A name is reserved.
LEMMA ReserveFollows ==
    ASSUME RowInv, NEW t \in Reserving, NEW k, NEW fits \in BOOLEAN, ReserveRow(t, k, "name", fits)
    PROVE  RowInv'
<1> DEFINE x == [table |-> t, slug |-> NoSlug, key |-> k, val |-> "name"]
           M == mem.maps \cup {x}
           new == [mem EXCEPT !.maps = M]
<1>1. Mutate(new, fits) /\ \A e \in mem.maps : e.table = t => e.key # k /\ e.val # "name"
  BY DEF ReserveRow
<1>2. (\A e \in M : e \in mem.maps \/ e = x) /\ \A e \in mem.maps : e \in M
  OBVIOUS
<1>3. x.table = t /\ x.slug = NoSlug /\ x.key = k /\ x.val = "name"
  OBVIOUS
<1>4. x = [table |-> x.table, slug |-> x.slug, key |-> x.key, val |-> x.val]
  OBVIOUS
<1> HIDE DEF x, M
<1>5. mutations \in Nat /\ Normal(mem, mutations)
  BY <1>1, BeforeMutation
<1>6. Is(new, mem.repos, M, mem.lists, mem.counters)
  BY <1>5, NormalIs, FieldsAre
<1>7. t \in MapTables /\ t # "issues" /\ t \notin DOMAIN Parents
  BY TablesApart
<1>8. EntryNormal(mem, x)
  BY <1>3, <1>4, <1>7 DEF EntryNormal, HasRepo
<1>9. \A e \in mem.maps : EntryNormal(mem, e)
  BY <1>5 DEF Normal, MapsNormal
<1>10. \A e \in M : EntryNormal(mem, e)
  BY <1>2, <1>8, <1>9
<1>11. \A e, f \in M : SameEntry(e, f) => e = f
  BY <1>1, <1>2, <1>3, <1>5 DEF Normal, MapsNormal, SameEntry
<1>12. ReservedOnce(M)
  BY <1>1, <1>2, <1>3, <1>5 DEF Normal, MapsNormal, ReservedOnce
<1>13. ReservedFollow(mem.maps, M)
  <2> SUFFICES ASSUME NEW e \in mem.maps, NEW f \in M, e.table \in Reserving, f.table = e.table, e.key = f.key
               PROVE  f.val = e.val
    BY DEF ReservedFollow
  <2>1. f \in mem.maps
    BY <1>1, <1>2, <1>3
  <2> QED BY <1>5, <2>1, ReservingKeys
<1>14. HaveParents(M)
  <2> SUFFICES ASSUME NEW e \in M, e.table \in DOMAIN Parents
               PROVE  \E f \in M : f.table = Parents[e.table] /\ f.slug = e.slug /\ f.key = e.key
    BY DEF HaveParents
  <2>1. e \in mem.maps
    BY <1>2, <1>3, <1>7
  <2> QED BY <1>2, <1>5, <2>1 DEF Normal, MapsNormal, HaveParents
<1> HIDE DEF new
<1>15. Normal(new, mutations + 1) /\ Follows(mem, new)
  BY <1>5, <1>6, <1>10, <1>11, <1>12, <1>13, <1>14, MapsFollow
<1> QED BY <1>1, <1>15, MutateKeeps

\* The update of an entry.
LEMMA EntrySet ==
    ASSUME NEW e, e = [table |-> e.table, slug |-> e.slug, key |-> e.key, val |-> e.val], NEW v
    PROVE  /\ [e EXCEPT !.val = v] = [table |-> e.table, slug |-> e.slug, key |-> e.key, val |-> v]
           /\ [e EXCEPT !.key = v] = [table |-> e.table, slug |-> e.slug, key |-> v, val |-> e.val]
           /\ [e EXCEPT !.slug = v] = [table |-> e.table, slug |-> v, key |-> e.key, val |-> e.val]
<1>1. PICK a, b, c, d : e = [table |-> a, slug |-> b, key |-> c, val |-> d]
  OBVIOUS
<1>2. e \in [table : {a}, slug : {b}, key : {c}, val : {d}]
  BY <1>1
<1>3. e.table = a /\ e.slug = b /\ e.key = c /\ e.val = d
  BY <1>1
<1>4. ASSUME NEW q, q = [e EXCEPT !.val = v]
      PROVE  q = [table |-> a, slug |-> b, key |-> c, val |-> v]
  <2>1. q \in [table : {a}, slug : {b}, key : {c}, val : {v}]
    BY <1>2, <1>4
  <2> QED BY <2>1
<1>5. ASSUME NEW q, q = [e EXCEPT !.key = v]
      PROVE  q = [table |-> a, slug |-> b, key |-> v, val |-> d]
  <2>1. q \in [table : {a}, slug : {b}, key : {v}, val : {d}]
    BY <1>2, <1>5
  <2> QED BY <2>1
<1>6. ASSUME NEW q, q = [e EXCEPT !.slug = v]
      PROVE  q = [table |-> a, slug |-> v, key |-> c, val |-> d]
  <2>1. q \in [table : {a}, slug : {v}, key : {c}, val : {d}]
    BY <1>2, <1>6
  <2> QED BY <2>1
<1> QED BY <1>3, <1>4, <1>5, <1>6

\* An expired invitation is revoked and its login invited again.
LEMMA ReissueFollows ==
    ASSUME RowInv, NEW old \in Invitations, NEW k, NEW fits \in BOOLEAN, ReissueRow(old, k, fits)
    PROVE  RowInv'
<1> DEFINE x == [old EXCEPT !.val = "revoked"]
           y == [old EXCEPT !.key = k]
           M == (mem.maps \ {old}) \cup {x, y}
           new == [mem EXCEPT !.maps = M]
<1>1. /\ Mutate(new, fits) /\ \A e \in mem.maps : e.table = "account_invitations" => e.key # k
      /\ old.val # "revoked" /\ old \in mem.maps /\ old.table = "account_invitations"
  BY DEF ReissueRow, Invitations
<1>2. \A e \in M : (e \in mem.maps /\ e # old) \/ e = x \/ e = y
  OBVIOUS
<1>3. x \in M /\ \A e \in mem.maps : e # old => e \in M
  OBVIOUS
<1> HIDE DEF M
<1>4. mutations \in Nat /\ Normal(mem, mutations)
  BY <1>1, BeforeMutation
<1>5. \A e \in mem.maps : EntryNormal(mem, e)
  BY <1>4 DEF Normal, MapsNormal
<1>6. EntryNormal(mem, old) /\ old = [table |-> old.table, slug |-> old.slug, key |-> old.key, val |-> old.val]
  BY <1>1, <1>5 DEF EntryNormal
<1>7. /\ x = [table |-> old.table, slug |-> old.slug, key |-> old.key, val |-> "revoked"]
      /\ y = [table |-> old.table, slug |-> old.slug, key |-> k, val |-> old.val]
  BY <1>6, EntrySet
<1> HIDE DEF x, y
<1>8. /\ x.table = old.table /\ x.slug = old.slug /\ x.key = old.key /\ x.val = "revoked"
      /\ y.table = old.table /\ y.slug = old.slug /\ y.key = k /\ y.val = old.val
      /\ x = [table |-> x.table, slug |-> x.slug, key |-> x.key, val |-> x.val]
      /\ y = [table |-> y.table, slug |-> y.slug, key |-> y.key, val |-> y.val]
  BY <1>7
<1>9. Is(new, mem.repos, M, mem.lists, mem.counters)
  BY <1>4, NormalIs, FieldsAre
<1>10. EntryNormal(mem, x) /\ EntryNormal(mem, y)
  BY <1>1, <1>6, <1>8 DEF EntryNormal
<1>11. \A e \in M : EntryNormal(mem, e)
  BY <1>2, <1>5, <1>10
<1>12. \A e \in mem.maps : SameEntry(e, old) => e = old
  BY <1>1, <1>4 DEF Normal, MapsNormal
<1>13. \A e, f \in M : SameEntry(e, f) => e = f
  <2> SUFFICES ASSUME NEW e \in M, NEW f \in M, SameEntry(e, f)
               PROVE  e = f
    OBVIOUS
  <2>1. old.key # k
    BY <1>1
  <2>2. \A g \in mem.maps : g # old => ~SameEntry(g, x) /\ ~SameEntry(x, g)
    BY <1>8, <1>12 DEF SameEntry
  <2>3. \A g \in mem.maps : ~SameEntry(g, y) /\ ~SameEntry(y, g)
    BY <1>1, <1>8 DEF SameEntry
  <2>4. ~SameEntry(x, y) /\ ~SameEntry(y, x)
    BY <1>8, <2>1 DEF SameEntry
  <2>5. e \in mem.maps /\ f \in mem.maps => e = f
    BY <1>4, <2>1, <1>2 DEF Normal, MapsNormal
  <2> QED BY <1>2, <2>2, <2>3, <2>4, <2>5
<1>14. "account_invitations" \in Reserving
  BY DEF Reserving
<1>15. ReservedOnce(M)
  <2> SUFFICES ASSUME NEW e \in M, NEW f \in M, e.table \in Reserving, f.table = e.table, e.val = f.val,
                      e.val # "revoked"
               PROVE  e = f
    BY DEF ReservedOnce
  <2>1. e # x /\ f # x
    BY <1>8
  <2>2. \A g \in mem.maps : g.table = "account_invitations" /\ g.val = old.val => g = old
    BY <1>1, <1>4, <1>14 DEF Normal, MapsNormal, ReservedOnce
  <2>3. e \in mem.maps /\ f \in mem.maps => e = f
    BY <1>4 DEF Normal, MapsNormal, ReservedOnce
  <2> QED BY <1>1, <1>2, <1>8, <2>1, <2>2, <2>3
<1>16. ReservedFollow(mem.maps, M)
  <2> SUFFICES ASSUME NEW e \in mem.maps, NEW f \in M, e.table \in Reserving, f.table = e.table, e.key = f.key
               PROVE  f.val = e.val \/ f.val = "revoked"
    BY DEF ReservedFollow
  <2>1. f # y
    BY <1>1, <1>8
  <2>2. CASE f \in mem.maps
    BY <1>4, <2>2, ReservingKeys
  <2>3. CASE f = x
    BY <1>8, <2>3
  <2> QED BY <1>2, <2>1, <2>2, <2>3
<1>17. HaveParents(M)
  <2> SUFFICES ASSUME NEW e \in M, e.table \in DOMAIN Parents
               PROVE  \E f \in M : f.table = Parents[e.table] /\ f.slug = e.slug /\ f.key = e.key
    BY DEF HaveParents
  <2>1. e \in mem.maps
    BY <1>1, <1>2, <1>8, <1>14, TablesApart
  <2>2. PICK f \in mem.maps : f.table = Parents[e.table] /\ f.slug = e.slug /\ f.key = e.key
    BY <1>4, <2>1 DEF Normal, MapsNormal, HaveParents
  <2>3. CASE f # old
    BY <1>3, <2>2, <2>3
  <2>4. CASE f = old
    BY <1>8, <1>3, <2>2, <2>4
  <2> QED BY <2>3, <2>4
<1> HIDE DEF new
<1>18. Normal(new, mutations + 1) /\ Follows(mem, new)
  BY <1>4, <1>9, <1>11, <1>13, <1>15, <1>16, <1>17, MapsFollow
<1> QED BY <1>1, <1>18, MutateKeeps

\* An entry stays as it is with more repositories and higher counters.
LEMMA EntryStays ==
    ASSUME NEW s, NEW n, Normal(s, n), NEW t, NEW e \in s.maps, HasRepo(t, e.slug),
           e.slug \in RowSlugs => t.counters[e.slug] \in Nat /\ s.counters[e.slug] <= t.counters[e.slug]
    PROVE  EntryNormal(t, e)
<1>1. EntryNormal(s, e)
  BY DEF Normal, MapsNormal
<1>2. ASSUME e.table = "issues"
      PROVE  e.slug \in RowSlugs /\ e.key \in Nat /\ e.key <= t.counters[e.slug]
  <2>1. e.slug \in RowSlugs /\ e.key \in Nat /\ e.key <= s.counters[e.slug]
    BY <1>1, <1>2 DEF EntryNormal
  <2>2. s.counters[e.slug] \in Int
    BY <2>1 DEF Normal, IsState, NoCount
  <2> QED BY <2>1, <2>2
<1> QED BY <1>1, <1>2 DEF EntryNormal

\* The largest of nothing and a number.
LEMMA LargerThanNothing ==
    /\ \A c \in Nat : Max({0, c}) = c
    /\ Max({0, NoCount}) = 0
<1>1. ASSUME NEW c \in Nat
      PROVE  Max({0, c}) = c
  <2>1. {0, c} \subseteq Nat /\ {0, c} # {} /\ \A x \in {0, c} : x <= c
    OBVIOUS
  <2>2. Max({0, c}) \in {0, c} /\ \A x \in {0, c} : x <= Max({0, c})
    BY <2>1, LargestOf
  <2> QED BY <2>2
<1>2. Max({0, NoCount}) = 0
  BY DEF Max, NoCount
<1> QED BY <1>1, <1>2

\* An issue takes the next number, a pull request its issue's.
LEMMA NumberFollows ==
    ASSUME RowInv, NEW s \in RowSlugs, NEW tables \in {{"issues"}, {"issues", "pull_requests"}},
           NEW fits \in BOOLEAN, NumberedRow(s, tables, fits)
    PROVE  RowInv'
<1> DEFINE c == Max({0, mem.counters[s]}) + 1
           w == [mem.counters EXCEPT ![s] = c]
           X(t) == [table |-> t, slug |-> s, key |-> c, val |-> "open"]
           N == {X(t) : t \in tables}
           M == mem.maps \cup N
           new == [mem EXCEPT !.counters[s] = c, !.maps = M]
<1>1. Mutate(new, fits)
  BY DEF NumberedRow
<1>2. mutations \in Nat /\ Normal(mem, mutations)
  BY <1>1, BeforeMutation
<1>3. c \in Nat
  <2>1. mem.counters[s] \in Nat \cup {NoCount}
    BY <1>2 DEF Normal, IsState
  <2>2. Max({0, mem.counters[s]}) \in Nat
    BY <2>1, LargerThanNothing
  <2> QED BY <2>2
<1>4. (\A e \in M : e \in mem.maps \/ e \in N) /\ (\A e \in mem.maps : e \in M) /\ \A e \in N : e \in M
  OBVIOUS
<1>5. /\ \A e \in N : /\ e.table \in {"issues", "pull_requests"} /\ e.slug = s /\ e.key = c /\ e.val = "open"
                      /\ e = [table |-> e.table, slug |-> e.slug, key |-> e.key, val |-> e.val]
      /\ \E e \in N : e.table = "issues"
      /\ \A e, f \in N : e.table = f.table => e = f
  <2>1. \A t : /\ X(t).table = t /\ X(t).slug = s /\ X(t).key = c /\ X(t).val = "open"
               /\ X(t) = [table |-> X(t).table, slug |-> X(t).slug, key |-> X(t).key, val |-> X(t).val]
    OBVIOUS
  <2>2. (\A e \in N : \E t \in tables : e = X(t)) /\ \A t \in tables : X(t) \in N
    OBVIOUS
  <2> HIDE DEF X, N
  <2>3. tables \subseteq {"issues", "pull_requests"} /\ "issues" \in tables
    OBVIOUS
  <2>4. ASSUME NEW e \in N
        PROVE  /\ e.table \in {"issues", "pull_requests"} /\ e.slug = s /\ e.key = c /\ e.val = "open"
               /\ e = [table |-> e.table, slug |-> e.slug, key |-> e.key, val |-> e.val]
    <3>1. PICK t \in tables : e = X(t)
      BY <2>2
    <3> QED BY <2>1, <2>3, <3>1
  <2>5. \A e, f \in N : e.table = f.table => e = f
    <3> SUFFICES ASSUME NEW e \in N, NEW f \in N, e.table = f.table
                 PROVE  e = f
      OBVIOUS
    <3>1. PICK t \in tables : e = X(t)
      BY <2>2
    <3>2. PICK u \in tables : f = X(u)
      BY <2>2
    <3>3. t = u
      BY <2>1, <3>1, <3>2
    <3> QED BY <3>1, <3>2, <3>3
  <2>6. X("issues") \in N /\ X("issues").table = "issues"
    BY <2>1, <2>2, <2>3
  <2> QED BY <2>4, <2>5, <2>6
<1>6. /\ w \in [RowSlugs -> Nat \cup {NoCount}] /\ w[s] = c
      /\ \A a \in RowSlugs : a # s => w[a] = mem.counters[a]
  BY <1>2, <1>3 DEF Normal, IsState
<1>7. new = [mem EXCEPT !.counters = w, !.maps = M]
  OBVIOUS
<1> HIDE DEF N, M, w, new
<1>8. Is(new, mem.repos, M, mem.lists, w)
  BY <1>2, <1>7, NormalIs, FieldsAre
<1>9. new.repos = mem.repos /\ new.maps = M /\ new.lists = mem.lists /\ new.counters = w
      /\ Is(new, new.repos, new.maps, new.lists, new.counters)
  BY <1>8, PartsAre
<1>10. CASE mem.repos[s] = NoUuid
  <2>1. PICK x \in N : x.table = "issues"
    BY <1>5
  <2>2. x \in new.maps /\ x.table \in MapTables /\ RowRepo(new, x.slug) = NoUuid
    BY <1>4, <1>5, <1>9, <1>10, <2>1, TablesApart, SnapshotRowsAssumption DEF RowRepo
  <2>3. ~StagingSucceeds(new)
    BY <2>2, LostRefused
  <2> QED BY <1>1, <2>3, MutateRefused
<1>11. CASE mem.repos[s] # NoUuid
  <2>1. mem.counters[s] \in Nat /\ mem.counters[s] <= mutations /\ c = mem.counters[s] + 1
    <3>1. mem.counters[s] \in Nat /\ mem.counters[s] <= mutations
      BY <1>2, <1>11 DEF Normal, IsState, CountersNormal
    <3> QED BY <3>1, LargerThanNothing
  <2> HIDE DEF c
  <2>2. c <= mutations + 1 /\ mem.counters[s] < c
    BY <1>2, <2>1
  <2>3. IsState(new) /\ ReposNormal(new)
    BY <1>2, <1>6, <1>9 DEF Normal, IsState, Is, ReposNormal
  <2>4. CountersNormal(new, mutations + 1)
    <3> SUFFICES ASSUME NEW a \in RowSlugs
                 PROVE  (w[a] = NoCount <=> mem.repos[a] = NoUuid) /\ w[a] <= mutations + 1
      BY <1>9 DEF CountersNormal
    <3>1. CASE a = s
      BY <1>3, <1>6, <1>11, <2>2, <3>1 DEF NoCount
    <3>2. CASE a # s
      <4>1. mem.counters[a] \in Int /\ mem.counters[a] <= mutations
            /\ (mem.counters[a] = NoCount <=> mem.repos[a] = NoUuid)
        BY <1>2 DEF Normal, IsState, CountersNormal, NoCount
      <4>2. w[a] = mem.counters[a]
        BY <1>6, <3>2
      <4> QED BY <1>2, <4>1, <4>2
    <3> QED BY <3>1, <3>2
  <2>5. ASSUME NEW e \in mem.maps
        PROVE  EntryNormal(new, e) /\ ~(e.table = "issues" /\ e.slug = s /\ e.key = c)
    <3>1. EntryNormal(mem, e)
      BY <1>2 DEF Normal, MapsNormal
    <3>2. HasRepo(new, e.slug)
      BY <1>9, <3>1 DEF EntryNormal, HasRepo
    <3>3. ASSUME e.slug \in RowSlugs
          PROVE  new.counters[e.slug] \in Nat /\ mem.counters[e.slug] <= new.counters[e.slug]
      <4>1. mem.counters[e.slug] \in Nat
        <5>1. mem.repos[e.slug] # NoUuid
          BY <3>1, <3>3, SnapshotRowsAssumption DEF EntryNormal, HasRepo
        <5> QED BY <1>2, <3>3, <5>1 DEF Normal, CountersNormal, IsState
      <4>2. CASE e.slug = s
        BY <1>3, <1>6, <1>9, <2>1, <2>2, <4>2
      <4>3. CASE e.slug # s
        BY <1>6, <1>9, <3>3, <4>1, <4>3
      <4> QED BY <4>2, <4>3
    <3>4. EntryNormal(new, e)
      BY <1>2, <3>2, <3>3, EntryStays
    <3>5. ASSUME e.table = "issues", e.slug = s, e.key = c
          PROVE  FALSE
      <4>1. e.key <= mem.counters[s]
        BY <3>1, <3>5 DEF EntryNormal
      <4> QED BY <2>1, <3>5, <4>1
    <3> QED BY <3>4, <3>5
  <2>6. ASSUME NEW e \in mem.maps, NEW x \in N
        PROVE  ~SameEntry(e, x) /\ ~SameEntry(x, e)
    <3>1. ASSUME e.table = "pull_requests", e.slug = s, e.key = c
          PROVE  FALSE
      <4>1. "pull_requests" \in DOMAIN Parents /\ Parents["pull_requests"] = "issues"
        BY DEF Parents
      <4>2. \E f \in mem.maps : f.table = "issues" /\ f.slug = s /\ f.key = c
        BY <1>2, <3>1, <4>1 DEF Normal, MapsNormal, HaveParents
      <4> QED BY <2>5, <4>2
    <3>2. ~(e.table = x.table /\ e.slug = x.slug /\ e.key = x.key)
      BY <1>5, <2>5, <3>1
    <3> QED BY <3>2 DEF SameEntry
  <2>7. MapsNormal(new)
    <3>1. \A x \in N : EntryNormal(new, x)
      <4>1. HasRepo(new, s) /\ s # NoSlug
        BY <1>9, <1>11, SnapshotRowsAssumption DEF HasRepo
      <4>2. c <= new.counters[s]
        BY <1>3, <1>6, <1>9
      <4> QED BY <1>3, <1>5, <4>1, <4>2, TablesApart DEF EntryNormal
    <3>2. \A e \in M : EntryNormal(new, e)
      BY <1>4, <2>5, <3>1
    <3>3. \A e, f \in M : SameEntry(e, f) => e = f
      <4>1. \A e, f \in mem.maps : SameEntry(e, f) => e = f
        BY <1>2 DEF Normal, MapsNormal
      <4>2. \A e, f \in N : SameEntry(e, f) => e = f
        BY <1>5 DEF SameEntry
      <4> QED BY <1>4, <2>6, <4>1, <4>2
    <3>4. \A e \in M : e.table \in Reserving => e \in mem.maps
      BY <1>4, <1>5, TablesApart
    <3>5. ReservedOnce(M)
      BY <1>2, <3>4 DEF Normal, MapsNormal, ReservedOnce
    <3>6. HaveParents(M)
      <4> SUFFICES ASSUME NEW e \in M, e.table \in DOMAIN Parents
                   PROVE  \E f \in M : f.table = Parents[e.table] /\ f.slug = e.slug /\ f.key = e.key
        BY DEF HaveParents
      <4>1. CASE e \in mem.maps
        BY <1>2, <1>4, <4>1 DEF Normal, MapsNormal, HaveParents
      <4>2. CASE e \in N
        <5>1. e.table = "pull_requests" /\ Parents["pull_requests"] = "issues"
          BY <1>5, <4>2, TablesApart DEF Parents
        <5> QED BY <1>4, <1>5, <4>2, <5>1
      <4> QED BY <1>4, <4>1, <4>2
    <3> QED BY <1>9, <3>2, <3>3, <3>5, <3>6 DEF MapsNormal
  <2>8. ListsNormal(new, mutations + 1)
    <3>1. ListsNormal(mem, mutations + 1)
      <4>1. Normal(mem, mutations + 1)
        BY <1>2, NormalLater
      <4> QED BY <4>1 DEF Normal
    <3>2. \A l \in DOMAIN mem.lists : ListNormal(mem, l, mutations + 1) => ListNormal(new, l, mutations + 1)
      BY <1>9 DEF ListNormal, HasRepo
    <3> QED BY <1>9, <3>1, <3>2 DEF ListsNormal
  <2>9. Normal(new, mutations + 1)
    BY <2>3, <2>4, <2>7, <2>8 DEF Normal
  <2>10. Follows(mem, new)
    <3>1. SlugsFollow(mem, new)
      BY <1>9 DEF SlugsFollow
    <3>2. ReservedFollow(mem.maps, M)
      <4> SUFFICES ASSUME NEW e \in mem.maps, NEW f \in M, e.table \in Reserving, f.table = e.table, e.key = f.key
                   PROVE  f.val = e.val
        BY DEF ReservedFollow
      <4>1. f \in mem.maps
        BY <1>4, <1>5, TablesApart
      <4> QED BY <1>2, <4>1, ReservingKeys
    <3>3. ListsFollow(mem, new)
      BY <1>2, <1>9, ListsMoved
    <3>4. ReposFollow(mem, new)
      BY <1>2, <1>9, ListsStay
    <3> QED BY <1>9, <3>1, <3>2, <3>3, <3>4 DEF Follows
  <2> QED BY <1>1, <2>9, <2>10, MutateKeeps
<1> QED BY <1>10, <1>11

\* A repository is created, its counter with it.
LEMMA CreateFollows ==
    ASSUME RowInv, NEW s \in RowSlugs, NEW u \in RepoUuids, NEW fits \in BOOLEAN, CreateRow(s, u, fits)
    PROVE  RowInv'
<1> DEFINE v == [mem.repos EXCEPT ![s] = u]
           w == [mem.counters EXCEPT ![s] = 0]
           x == NewRule(s)
           M == mem.maps \cup {x}
           new == [mem EXCEPT !.repos[s] = u, !.counters[s] = 0, !.maps = M]
<1>1. Mutate(new, fits) /\ mem.repos[s] = NoUuid /\ \A a \in RowSlugs : mem.repos[a] # u
  BY DEF CreateRow
<1>2. mutations \in Nat /\ Normal(mem, mutations)
  BY <1>1, BeforeMutation
<1>3. u # NoUuid /\ u \in RepoUuids
  BY SnapshotRowsAssumption
<1>4. /\ w \in [RowSlugs -> Nat \cup {NoCount}] /\ w[s] = 0
      /\ \A a \in RowSlugs : a # s => w[a] = mem.counters[a]
  BY <1>2 DEF Normal, IsState
<1>5. /\ v \in [RowSlugs -> RepoUuids \cup {NoUuid}] /\ v[s] = u
      /\ \A a \in RowSlugs : a # s => v[a] = mem.repos[a]
  BY <1>2 DEF Normal, IsState
<1>6. new = [mem EXCEPT !.repos = v, !.counters = w, !.maps = M]
  OBVIOUS
<1>7. /\ x.table = "branch_protection_rules" /\ x.slug = s /\ x.val = "default"
       /\ x = [table |-> x.table, slug |-> x.slug, key |-> x.key, val |-> x.val]
       /\ (\A e \in M : e \in mem.maps \/ e = x) /\ \A e \in mem.maps : e \in M
  BY DEF NewRule
<1> HIDE DEF v, w, x, M, new
<1>8. Is(new, v, M, mem.lists, w)
  BY <1>2, <1>6, NormalIs, FieldsAre
<1>9. new.repos = v /\ new.maps = M /\ new.lists = mem.lists /\ new.counters = w
      /\ Is(new, new.repos, new.maps, new.lists, new.counters)
  BY <1>8, PartsAre
<1>10. IsState(new)
  BY <1>2, <1>4, <1>5, <1>9 DEF Normal, IsState, Is
<1>11. ReposNormal(new)
  BY <1>1, <1>2, <1>5, <1>9 DEF Normal, ReposNormal
<1>12. CountersNormal(new, mutations + 1)
  <2> SUFFICES ASSUME NEW a \in RowSlugs
               PROVE  (w[a] = NoCount <=> v[a] = NoUuid) /\ w[a] <= mutations + 1
    BY <1>9 DEF CountersNormal
  <2>1. CASE a = s
    BY <1>2, <1>3, <1>4, <1>5, <2>1 DEF NoCount
  <2>2. CASE a # s
    <3>1. mem.counters[a] \in Int /\ mem.counters[a] <= mutations
          /\ (mem.counters[a] = NoCount <=> mem.repos[a] = NoUuid)
      BY <1>2 DEF Normal, IsState, CountersNormal, NoCount
    <3>2. w[a] = mem.counters[a] /\ v[a] = mem.repos[a]
      BY <1>4, <1>5, <2>2
    <3> QED BY <1>2, <3>1, <3>2
  <2> QED BY <2>1, <2>2
<1>13. \A a : HasRepo(mem, a) => HasRepo(new, a) /\ a # s
  <2>1. s # NoSlug
    BY SnapshotRowsAssumption
  <2> QED BY <1>1, <1>3, <1>5, <1>9, <2>1 DEF HasRepo
<1>14. ASSUME NEW e \in mem.maps
       PROVE  EntryNormal(new, e)
  <2>1. HasRepo(mem, e.slug)
    BY <1>2 DEF Normal, MapsNormal, EntryNormal
  <2>2. HasRepo(new, e.slug) /\ e.slug # s
    BY <1>13, <2>1
  <2>3. ASSUME e.slug \in RowSlugs
        PROVE  new.counters[e.slug] \in Nat /\ mem.counters[e.slug] <= new.counters[e.slug]
    <3>1. mem.repos[e.slug] # NoUuid
      BY <2>1, <2>3, SnapshotRowsAssumption DEF HasRepo
    <3>2. mem.counters[e.slug] \in Nat
      BY <1>2, <2>3, <3>1 DEF Normal, CountersNormal, IsState
    <3>3. new.counters[e.slug] = mem.counters[e.slug]
      BY <1>4, <1>9, <2>2, <2>3
    <3> QED BY <3>2, <3>3
  <2> QED BY <1>2, <2>2, <2>3, EntryStays
<1>15. MapsNormal(new)
  <2>1. EntryNormal(new, x)
    <3>1. HasRepo(new, s)
      BY <1>3, <1>5, <1>9 DEF HasRepo
    <3>2. x.val \notin {"unsealed", ""}
      BY <1>7
    <3> QED BY <1>7, <3>1, <3>2, TablesApart DEF EntryNormal
  <2>2. \A e \in M : EntryNormal(new, e)
    BY <1>14, <1>7, <2>1
  <2>3. \A e, f \in M : SameEntry(e, f) => e = f
    <3>1. \A e \in mem.maps : e.slug # s
      BY <1>2, <1>13 DEF Normal, MapsNormal, EntryNormal
    <3>2. \A e, f \in mem.maps : SameEntry(e, f) => e = f
      BY <1>2 DEF Normal, MapsNormal
    <3> QED BY <1>7, <3>1, <3>2 DEF SameEntry
  <2>4. ReservedOnce(M)
    <3>1. \A e \in M : e.table \in Reserving => e \in mem.maps
      BY <1>7, TablesApart
    <3> QED BY <1>2, <3>1 DEF Normal, MapsNormal, ReservedOnce
  <2>5. HaveParents(M)
    <3> SUFFICES ASSUME NEW e \in M, e.table \in DOMAIN Parents
                 PROVE  \E f \in M : f.table = Parents[e.table] /\ f.slug = e.slug /\ f.key = e.key
      BY DEF HaveParents
    <3>1. e \in mem.maps
      BY <1>7, TablesApart
    <3> QED BY <1>2, <1>7, <3>1 DEF Normal, MapsNormal, HaveParents
  <2> QED BY <1>9, <2>2, <2>3, <2>4, <2>5 DEF MapsNormal
<1>16. ListsNormal(new, mutations + 1)
  <2>1. ListsNormal(mem, mutations + 1)
    <3>1. Normal(mem, mutations + 1)
      BY <1>2, NormalLater
    <3> QED BY <3>1 DEF Normal
  <2>2. \A l \in DOMAIN mem.lists : ListNormal(mem, l, mutations + 1) => ListNormal(new, l, mutations + 1)
    BY <1>9, <1>13 DEF ListNormal
  <2> QED BY <1>9, <2>1, <2>2 DEF ListsNormal
<1>17. Normal(new, mutations + 1)
  BY <1>10, <1>11, <1>12, <1>15, <1>16 DEF Normal
<1>18. Follows(mem, new)
  <2>1. SlugsFollow(mem, new)
    BY <1>1, <1>5, <1>9 DEF SlugsFollow
  <2>2. ReservedFollow(mem.maps, M)
    <3> SUFFICES ASSUME NEW e \in mem.maps, NEW f \in M, e.table \in Reserving, f.table = e.table, e.key = f.key
                 PROVE  f.val = e.val
      BY DEF ReservedFollow
    <3>1. f \in mem.maps
      BY <1>7, TablesApart
    <3> QED BY <1>2, <3>1, ReservingKeys
  <2>3. ListsFollow(mem, new)
    BY <1>2, <1>9, ListsMoved
  <2>4. ReposFollow(mem, new)
    <3>1. ASSUME NEW l \in DOMAIN mem.lists, mem.lists[l] # <<>>
          PROVE  RowRepo(mem, l[2]) = RowRepo(new, l[2])
      <4>1. HasRepo(mem, l[2])
        BY <1>2, <3>1 DEF Normal, ListsNormal, ListNormal
      <4>2. l[2] # s
        BY <1>13, <4>1
      <4> QED BY <1>5, <1>9, <4>1, <4>2 DEF RowRepo, HasRepo
    <3>2. \A l \in DOMAIN mem.lists : Carried(mem, l, new, l)
      BY <1>9, <3>1 DEF Carried
    <3> QED BY <1>2, <1>9, <3>2, ReposMoved
  <2> QED BY <1>9, <2>1, <2>2, <2>3, <2>4 DEF Follows
<1> QED BY <1>1, <1>17, <1>18, MutateKeeps

\* A repository is deleted with what belongs to it.
LEMMA DeleteFollows ==
    ASSUME RowInv, NEW s \in RowSlugs, DeleteRows(s)
    PROVE  RowInv'
<1> DEFINE v == [mem.repos EXCEPT ![s] = NoUuid]
           w == [mem.counters EXCEPT ![s] = NoCount]
           M == {e \in mem.maps : e.slug # s}
           L == [l \in DOMAIN mem.lists |-> IF l[2] = s THEN <<>> ELSE mem.lists[l]]
           new == [mem EXCEPT !.repos[s] = NoUuid, !.counters[s] = NoCount, !.maps = {e \in @ : e.slug # s},
                              !.lists = [l \in DOMAIN @ |-> IF l[2] = s THEN <<>> ELSE @[l]]]
<1>1. Mutate(new, TRUE) /\ mem.repos[s] # NoUuid
  BY DEF DeleteRows
<1>2. mutations \in Nat /\ Normal(mem, mutations)
  BY <1>1, BeforeMutation
<1>3. /\ w \in [RowSlugs -> Nat \cup {NoCount}] /\ w[s] = NoCount
      /\ \A a \in RowSlugs : a # s => w[a] = mem.counters[a]
  BY <1>2 DEF Normal, IsState
<1>4. /\ v \in [RowSlugs -> RepoUuids \cup {NoUuid}] /\ v[s] = NoUuid
      /\ \A a \in RowSlugs : a # s => v[a] = mem.repos[a]
  BY <1>2 DEF Normal, IsState
<1>5. DOMAIN mem.lists = UsedLists \X AllSlugs /\ \A l \in DOMAIN mem.lists : mem.lists[l] \in Seq(Entries)
  BY <1>2 DEF Normal, IsState
<1>6. /\ DOMAIN L = DOMAIN mem.lists /\ L \in [UsedLists \X AllSlugs -> Seq(Entries)]
      /\ \A l \in DOMAIN mem.lists : (l[2] = s => L[l] = <<>>) /\ (l[2] # s => L[l] = mem.lists[l])
  BY <1>5
<1>7. new = [mem EXCEPT !.repos = v, !.counters = w, !.maps = M, !.lists = L]
  OBVIOUS
<1>8. M \subseteq mem.maps /\ (\A e \in M : e.slug # s) /\ \A e \in mem.maps : e.slug # s => e \in M
  OBVIOUS
<1> HIDE DEF v, w, M, L, new
<1>9. Is(new, v, M, L, w)
  BY <1>2, <1>7, NormalIs, FieldsAre
<1>10. new.repos = v /\ new.maps = M /\ new.lists = L /\ new.counters = w
       /\ Is(new, new.repos, new.maps, new.lists, new.counters)
  BY <1>9, PartsAre
<1>11. IsState(new)
  BY <1>3, <1>4, <1>6, <1>10 DEF IsState, Is
<1>12. ReposNormal(new)
  BY <1>2, <1>4, <1>10 DEF Normal, ReposNormal
<1>13. CountersNormal(new, mutations + 1)
  <2> SUFFICES ASSUME NEW a \in RowSlugs
               PROVE  (w[a] = NoCount <=> v[a] = NoUuid) /\ w[a] <= mutations + 1
    BY <1>10 DEF CountersNormal
  <2>1. CASE a = s
    BY <1>2, <1>3, <1>4, <2>1 DEF NoCount
  <2>2. CASE a # s
    <3>1. mem.counters[a] \in Int /\ mem.counters[a] <= mutations
          /\ (mem.counters[a] = NoCount <=> mem.repos[a] = NoUuid)
      BY <1>2 DEF Normal, IsState, CountersNormal, NoCount
    <3>2. w[a] = mem.counters[a] /\ v[a] = mem.repos[a]
      BY <1>3, <1>4, <2>2
    <3> QED BY <1>2, <3>1, <3>2
  <2> QED BY <2>1, <2>2
<1>14. \A a : HasRepo(mem, a) /\ a # s => HasRepo(new, a)
  BY <1>4, <1>10 DEF HasRepo
<1>15. ASSUME NEW e \in M
       PROVE  EntryNormal(new, e)
  <2>1. HasRepo(mem, e.slug) /\ e \in mem.maps /\ e.slug # s
    BY <1>2, <1>8 DEF Normal, MapsNormal, EntryNormal
  <2>2. HasRepo(new, e.slug)
    BY <1>14, <2>1
  <2>3. ASSUME e.slug \in RowSlugs
        PROVE  new.counters[e.slug] \in Nat /\ mem.counters[e.slug] <= new.counters[e.slug]
    <3>1. mem.repos[e.slug] # NoUuid
      BY <2>1, <2>3, SnapshotRowsAssumption DEF HasRepo
    <3>2. mem.counters[e.slug] \in Nat
      BY <1>2, <2>3, <3>1 DEF Normal, CountersNormal, IsState
    <3>3. new.counters[e.slug] = mem.counters[e.slug]
      BY <1>3, <1>10, <2>1, <2>3
    <3> QED BY <3>2, <3>3
  <2> QED BY <1>2, <2>1, <2>2, <2>3, EntryStays
<1>16. MapsNormal(new)
  <2>1. ReservedOnce(M)
    BY <1>2, <1>8 DEF Normal, MapsNormal, ReservedOnce
  <2>2. HaveParents(M)
    <3> SUFFICES ASSUME NEW e \in M, e.table \in DOMAIN Parents
                 PROVE  \E f \in M : f.table = Parents[e.table] /\ f.slug = e.slug /\ f.key = e.key
      BY DEF HaveParents
    <3>1. e \in mem.maps /\ e.slug # s
      BY <1>8
    <3>2. PICK f \in mem.maps : f.table = Parents[e.table] /\ f.slug = e.slug /\ f.key = e.key
      BY <1>2, <3>1 DEF Normal, MapsNormal, HaveParents
    <3> QED BY <1>8, <3>1, <3>2
  <2>3. \A e, f \in M : SameEntry(e, f) => e = f
    BY <1>2, <1>8 DEF Normal, MapsNormal
  <2> QED BY <1>10, <1>15, <2>1, <2>2, <2>3 DEF MapsNormal
<1>17. ListsNormal(new, mutations + 1)
  <2>1. ListsNormal(mem, mutations + 1)
    <3>1. Normal(mem, mutations + 1)
      BY <1>2, NormalLater
    <3> QED BY <3>1 DEF Normal
  <2>2. ASSUME NEW l \in DOMAIN L
        PROVE  ListNormal(new, l, mutations + 1)
    <3>1. ListNormal(mem, l, mutations + 1)
      BY <1>6, <2>1 DEF ListsNormal
    <3>2. CASE l[2] = s
      <4>1. L[l] = <<>> /\ Len(L[l]) = 0 /\ DOMAIN L[l] = {}
        BY <1>6, <3>2
      <4> QED BY <1>2, <1>10, <4>1 DEF ListNormal
    <3>3. CASE l[2] # s
      <4>1. L[l] = mem.lists[l]
        BY <1>6, <3>3
      <4> QED BY <1>10, <1>14, <3>1, <3>3, <4>1 DEF ListNormal
    <3> QED BY <3>2, <3>3
  <2>3. ASSUME NEW l \in DOMAIN L, NEW m \in DOMAIN L, NEW i \in DOMAIN L[l], NEW j \in DOMAIN L[m],
               l[1] = m[1], L[l][i].id = L[m][j].id
        PROVE  l = m /\ i = j
    <3>1. L[l] = mem.lists[l] /\ L[m] = mem.lists[m]
      BY <1>6
    <3> QED BY <1>6, <2>1, <2>3, <3>1 DEF ListsNormal
  <2> QED BY <1>10, <2>2, <2>3 DEF ListsNormal
<1>18. Normal(new, mutations + 1)
  BY <1>11, <1>12, <1>13, <1>16, <1>17 DEF Normal
<1>19. Follows(mem, new)
  <2>1. SlugsFollow(mem, new)
    BY <1>4, <1>10 DEF SlugsFollow
  <2>2. ReservedFollow(mem.maps, M)
    <3> SUFFICES ASSUME NEW e \in mem.maps, NEW f \in M, e.table \in Reserving, f.table = e.table, e.key = f.key
                 PROVE  f.val = e.val
      BY DEF ReservedFollow
    <3>1. f \in mem.maps
      BY <1>8
    <3> QED BY <1>2, <3>1, ReservingKeys
  <2>3. ListsFollow(mem, new)
    BY <1>2, <1>6, <1>10, ListsMoved
  <2>4. ReposFollow(mem, new)
    <3>1. ASSUME NEW l \in DOMAIN mem.lists, l[2] # s
          PROVE  RowRepo(mem, l[2]) = RowRepo(new, l[2])
      <4>1. l[2] \in AllSlugs
        BY <1>2, ListIs DEF Normal
      <4> QED BY <1>4, <1>10, <3>1, <4>1 DEF RowRepo, AllSlugs
    <3>2. \A l \in DOMAIN mem.lists : l[2] # s => Carried(mem, l, new, l)
      BY <1>6, <1>10, <3>1 DEF Carried
    <3> QED BY <1>2, <1>6, <1>10, <3>2, ReposMoved
  <2> QED BY <1>10, <2>1, <2>2, <2>3, <2>4 DEF Follows
<1> QED BY <1>1, <1>18, <1>19, MutateKeeps

\* Where an entry and a list of a renamed repository were before.
Moved(e, s, t) == IF e.slug = s THEN [e EXCEPT !.slug = t] ELSE e
CameFrom(o, l, s, t) == (l[2] = t /\ o = <<l[1], s>>) \/ (l[2] # t /\ l[2] # s /\ o = l)

\* An entry of a renamed repository only changes its slug.
LEMMA MovedIs ==
    ASSUME NEW e, NEW s, NEW t, e = [table |-> e.table, slug |-> e.slug, key |-> e.key, val |-> e.val]
    PROVE  /\ Moved(e, s, t).table = e.table /\ Moved(e, s, t).key = e.key /\ Moved(e, s, t).val = e.val
           /\ e.slug = s => Moved(e, s, t).slug = t
           /\ e.slug # s => Moved(e, s, t).slug = e.slug
           /\ Moved(e, s, t) = [table |-> Moved(e, s, t).table, slug |-> Moved(e, s, t).slug,
                                key |-> Moved(e, s, t).key, val |-> Moved(e, s, t).val]
<1>1. CASE e.slug = s
  <2>1. PICK f : f = Moved(e, s, t)
    OBVIOUS
  <2>2. [e EXCEPT !.slug = t] = [table |-> e.table, slug |-> t, key |-> e.key, val |-> e.val]
    BY EntrySet
  <2>3. f = [table |-> e.table, slug |-> t, key |-> e.key, val |-> e.val]
    BY <1>1, <2>1, <2>2 DEF Moved
  <2>4. f.table = e.table /\ f.slug = t /\ f.key = e.key /\ f.val = e.val
    BY <2>3
  <2> QED BY <1>1, <2>1, <2>3, <2>4
<1>2. CASE e.slug # s
  <2>1. Moved(e, s, t) = e
    BY <1>2 DEF Moved
  <2> QED BY <1>2, <2>1
<1> QED BY <1>1, <1>2

\* A repository is renamed: nothing of another slug is where it goes.
LEMMA RenameFollows ==
    ASSUME RowInv, NEW s \in RowSlugs, NEW t \in RowSlugs, RenameRows(s, t)
    PROVE  RowInv'
<1> DEFINE v == [mem.repos EXCEPT ![s] = NoUuid, ![t] = mem.repos[s]]
           w == [mem.counters EXCEPT ![s] = NoCount, ![t] = mem.counters[s]]
           M == {Moved(e, s, t) : e \in mem.maps}
           L == [l \in DOMAIN mem.lists |-> IF l[2] = t THEN mem.lists[<<l[1], s>>]
                                            ELSE IF l[2] = s THEN <<>> ELSE mem.lists[l]]
           new == [mem EXCEPT
                     !.repos = [@ EXCEPT ![s] = NoUuid, ![t] = mem.repos[s]],
                     !.counters = [@ EXCEPT ![s] = NoCount, ![t] = mem.counters[s]],
                     !.maps = {IF e.slug = s THEN [e EXCEPT !.slug = t] ELSE e : e \in @},
                     !.lists = [l \in DOMAIN @ |-> IF l[2] = t THEN @[<<l[1], s>>]
                                                   ELSE IF l[2] = s THEN <<>> ELSE @[l]]]
<1>1. Mutate(new, TRUE) /\ mem.repos[s] # NoUuid /\ mem.repos[t] = NoUuid /\ s # t
  BY DEF RenameRows
<1>2. mutations \in Nat /\ Normal(mem, mutations)
  BY <1>1, BeforeMutation
<1>3. /\ w \in [RowSlugs -> Nat \cup {NoCount}] /\ w[s] = NoCount /\ w[t] = mem.counters[s]
      /\ \A a \in RowSlugs : a # s /\ a # t => w[a] = mem.counters[a]
  BY <1>1, <1>2 DEF Normal, IsState
<1>4. /\ v \in [RowSlugs -> RepoUuids \cup {NoUuid}] /\ v[s] = NoUuid /\ v[t] = mem.repos[s]
      /\ \A a \in RowSlugs : a # s /\ a # t => v[a] = mem.repos[a]
  BY <1>1, <1>2 DEF Normal, IsState
<1>5. /\ DOMAIN mem.lists = UsedLists \X AllSlugs /\ \A l \in DOMAIN mem.lists : mem.lists[l] \in Seq(Entries)
      /\ \A l \in DOMAIN mem.lists : <<l[1], s>> \in DOMAIN mem.lists /\ l = <<l[1], l[2]>>
  BY <1>2 DEF Normal, IsState, AllSlugs
<1>6. /\ DOMAIN L = DOMAIN mem.lists /\ L \in [UsedLists \X AllSlugs -> Seq(Entries)]
      /\ \A l \in DOMAIN mem.lists : /\ l[2] = t => L[l] = mem.lists[<<l[1], s>>]
                                     /\ l[2] # t /\ l[2] = s => L[l] = <<>>
                                     /\ l[2] # t /\ l[2] # s => L[l] = mem.lists[l]
  BY <1>5
<1>7. new = [mem EXCEPT !.repos = v, !.counters = w, !.maps = M, !.lists = L]
  BY DEF Moved
<1>8. (\A f \in M : \E e \in mem.maps : f = Moved(e, s, t)) /\ \A e \in mem.maps : Moved(e, s, t) \in M
  OBVIOUS
<1> HIDE DEF v, w, M, L, new
<1>9. Is(new, v, M, L, w)
  BY <1>2, <1>7, NormalIs, FieldsAre
<1>10. new.repos = v /\ new.maps = M /\ new.lists = L /\ new.counters = w
       /\ Is(new, new.repos, new.maps, new.lists, new.counters)
  BY <1>9, PartsAre
<1>11. IsState(new)
  BY <1>3, <1>4, <1>6, <1>10 DEF IsState, Is
<1>12. ReposNormal(new)
  <2>1. ReposNormal(mem)
    BY <1>2 DEF Normal
  <2>2. ASSUME NEW a \in RowSlugs, NEW b \in RowSlugs, v[a] = v[b], v[a] # NoUuid
        PROVE  a = b
    <3>1. a # s /\ b # s
      BY <1>4, <2>2
    <3>2. CASE a = t
      <4>1. CASE b # t
        <5>1. mem.repos[b] = mem.repos[s]
          BY <1>4, <2>2, <3>1, <3>2, <4>1
        <5>2. b = s
          BY <1>1, <2>1, <5>1 DEF ReposNormal
        <5> QED BY <3>1, <5>2
      <4> QED BY <3>2, <4>1
    <3>3. CASE a # t
      <4>1. v[a] = mem.repos[a]
        BY <1>4, <3>1, <3>3
      <4>2. CASE b = t
        <5>1. mem.repos[a] = mem.repos[s]
          BY <1>4, <2>2, <4>1, <4>2
        <5>2. a = s
          BY <1>1, <2>1, <5>1 DEF ReposNormal
        <5> QED BY <3>1, <5>2
      <4>3. CASE b # t
        <5>1. mem.repos[a] = mem.repos[b]
          BY <1>4, <2>2, <3>1, <4>1, <4>3
        <5> QED BY <2>1, <2>2, <4>1, <5>1 DEF ReposNormal
      <4> QED BY <4>2, <4>3
    <3> QED BY <3>2, <3>3
  <2> QED BY <1>10, <2>2 DEF ReposNormal
<1>13. CountersNormal(new, mutations + 1)
  <2> SUFFICES ASSUME NEW a \in RowSlugs
               PROVE  (w[a] = NoCount <=> v[a] = NoUuid) /\ w[a] <= mutations + 1
    BY <1>10 DEF CountersNormal
  <2>1. \A b \in RowSlugs : /\ mem.counters[b] \in Int /\ mem.counters[b] <= mutations
                            /\ (mem.counters[b] = NoCount <=> mem.repos[b] = NoUuid)
    BY <1>2 DEF Normal, IsState, CountersNormal, NoCount
  <2>2. CASE a = s
    BY <1>2, <1>3, <1>4, <2>2 DEF NoCount
  <2>3. CASE a = t
    <3>1. w[a] = mem.counters[s] /\ v[a] = mem.repos[s]
      BY <1>3, <1>4, <2>3
    <3> QED BY <1>2, <2>1, <3>1
  <2>4. CASE a # s /\ a # t
    <3>1. w[a] = mem.counters[a] /\ v[a] = mem.repos[a]
      BY <1>3, <1>4, <2>4
    <3> QED BY <1>2, <2>1, <3>1
  <2> QED BY <2>2, <2>3, <2>4
<1>14. /\ \A a : HasRepo(mem, a) => a # t /\ (a # s => HasRepo(new, a))
       /\ HasRepo(new, t) /\ s # NoSlug /\ t # NoSlug
  <2>1. s # NoSlug /\ t # NoSlug
    BY SnapshotRowsAssumption
  <2> QED BY <1>1, <1>4, <1>10, <2>1 DEF HasRepo
<1>15. \A e \in mem.maps : EntryNormal(mem, e) /\ HasRepo(mem, e.slug)
          /\ e = [table |-> e.table, slug |-> e.slug, key |-> e.key, val |-> e.val]
  BY <1>2 DEF Normal, MapsNormal, EntryNormal
<1>16. ASSUME NEW e \in mem.maps, NEW f, f = Moved(e, s, t)
       PROVE  /\ f.table = e.table /\ f.key = e.key /\ f.val = e.val
              /\ f = [table |-> f.table, slug |-> f.slug, key |-> f.key, val |-> f.val]
              /\ (e.slug = s /\ f.slug = t) \/ (e.slug # s /\ e.slug # t /\ f.slug = e.slug)
  <2>1. e.slug # t
    BY <1>14, <1>15
  <2> QED BY <1>15, <1>16, <2>1, MovedIs
<1>17. ASSUME NEW f \in M
       PROVE  EntryNormal(new, f)
  <2>1. PICK e \in mem.maps : f = Moved(e, s, t)
    BY <1>8
  <2>2. /\ f.table = e.table /\ f.key = e.key /\ f.val = e.val
        /\ f = [table |-> f.table, slug |-> f.slug, key |-> f.key, val |-> f.val]
        /\ (e.slug = s /\ f.slug = t) \/ (e.slug # s /\ e.slug # t /\ f.slug = e.slug)
    BY <1>16, <2>1
  <2>3. EntryNormal(mem, e) /\ HasRepo(mem, e.slug)
    BY <1>15
  <2>4. HasRepo(new, f.slug)
    BY <1>14, <2>2, <2>3
  <2>5. f.table \in GlobalTables => f.slug = NoSlug
    BY <1>14, <2>2, <2>3 DEF EntryNormal
  <2>6. ASSUME f.table = "issues"
        PROVE  f.slug \in RowSlugs /\ f.key \in Nat /\ f.key <= new.counters[f.slug]
    <3>1. e.slug \in RowSlugs /\ e.key \in Nat /\ e.key <= mem.counters[e.slug]
      BY <2>2, <2>3, <2>6 DEF EntryNormal
    <3>2. CASE e.slug = s /\ f.slug = t
      BY <1>3, <1>10, <2>2, <3>1, <3>2
    <3>3. CASE e.slug # s /\ e.slug # t /\ f.slug = e.slug
      BY <1>3, <1>10, <2>2, <3>1, <3>3
    <3> QED BY <2>2, <3>2, <3>3
  <2>7. f.table \in MapTables /\ f.val \notin {"unsealed", ""}
    BY <2>2, <2>3 DEF EntryNormal
  <2> QED BY <2>2, <2>4, <2>5, <2>6, <2>7 DEF EntryNormal
<1>18. MapsNormal(new)
  <2>1. ASSUME NEW f \in M, NEW g \in M, SameEntry(f, g)
        PROVE  f = g
    <3>1. PICK e \in mem.maps : f = Moved(e, s, t)
      BY <1>8
    <3>2. PICK h \in mem.maps : g = Moved(h, s, t)
      BY <1>8
    <3>3. /\ f.table = e.table /\ f.key = e.key
          /\ (e.slug = s /\ f.slug = t) \/ (e.slug # s /\ e.slug # t /\ f.slug = e.slug)
      BY <1>16, <3>1
    <3>4. /\ g.table = h.table /\ g.key = h.key
          /\ (h.slug = s /\ g.slug = t) \/ (h.slug # s /\ h.slug # t /\ g.slug = h.slug)
      BY <1>16, <3>2
    <3>5. SameEntry(e, h)
      BY <2>1, <3>3, <3>4 DEF SameEntry
    <3>6. e = h
      BY <1>2, <3>5 DEF Normal, MapsNormal
    <3> QED BY <3>1, <3>2, <3>6
  <2>2. ReservedOnce(M)
    <3> SUFFICES ASSUME NEW f \in M, NEW g \in M, f.table \in Reserving, g.table = f.table,
                        f.val = g.val, f.val # "revoked"
                 PROVE  f = g
      BY DEF ReservedOnce
    <3>1. PICK e \in mem.maps : f = Moved(e, s, t)
      BY <1>8
    <3>2. PICK h \in mem.maps : g = Moved(h, s, t)
      BY <1>8
    <3>3. f.table = e.table /\ f.val = e.val /\ g.table = h.table /\ g.val = h.val
      BY <1>16, <3>1, <3>2
    <3>4. e = h
      BY <1>2, <3>3 DEF Normal, MapsNormal, ReservedOnce
    <3> QED BY <3>1, <3>2, <3>4
  <2>3. HaveParents(M)
    <3> SUFFICES ASSUME NEW f \in M, f.table \in DOMAIN Parents
                 PROVE  \E g \in M : g.table = Parents[f.table] /\ g.slug = f.slug /\ g.key = f.key
      BY DEF HaveParents
    <3>1. PICK e \in mem.maps : f = Moved(e, s, t)
      BY <1>8
    <3>2. /\ f.table = e.table /\ f.key = e.key
          /\ (e.slug = s /\ f.slug = t) \/ (e.slug # s /\ e.slug # t /\ f.slug = e.slug)
      BY <1>16, <3>1
    <3>3. PICK h \in mem.maps : h.table = Parents[e.table] /\ h.slug = e.slug /\ h.key = e.key
      BY <1>2, <3>2 DEF Normal, MapsNormal, HaveParents
    <3>4. PICK g \in M : g = Moved(h, s, t)
      BY <1>8
    <3>5. /\ g.table = h.table /\ g.key = h.key
          /\ (h.slug = s /\ g.slug = t) \/ (h.slug # s /\ h.slug # t /\ g.slug = h.slug)
      BY <1>16, <3>4
    <3> QED BY <1>1, <3>2, <3>3, <3>5
  <2> QED BY <1>10, <1>17, <2>1, <2>2, <2>3 DEF MapsNormal
<1>19. ASSUME NEW l \in DOMAIN L, L[l] # <<>>
       PROVE  \E o \in DOMAIN mem.lists : o[1] = l[1] /\ L[l] = mem.lists[o] /\ CameFrom(o, l, s, t)
  <2>1. l \in DOMAIN mem.lists /\ <<l[1], s>> \in DOMAIN mem.lists /\ <<l[1], s>>[1] = l[1]
    BY <1>5, <1>6
  <2>2. CASE l[2] = t
    BY <1>6, <2>1, <2>2 DEF CameFrom
  <2>3. CASE l[2] # t
    BY <1>6, <1>19, <2>1, <2>3 DEF CameFrom
  <2> QED BY <2>2, <2>3
<1>20. ListsNormal(new, mutations + 1)
  <2>1. ListsNormal(mem, mutations + 1)
    <3>1. Normal(mem, mutations + 1)
      BY <1>2, NormalLater
    <3> QED BY <3>1 DEF Normal
  <2>2. ASSUME NEW l \in DOMAIN L
        PROVE  ListNormal(new, l, mutations + 1)
    <3>1. CASE L[l] = <<>>
      <4>1. Len(L[l]) = 0 /\ DOMAIN L[l] = {}
        BY <3>1
      <4> QED BY <1>2, <1>10, <3>1, <4>1 DEF ListNormal
    <3>2. CASE L[l] # <<>>
      <4>1. PICK o \in DOMAIN mem.lists : o[1] = l[1] /\ L[l] = mem.lists[o] /\ CameFrom(o, l, s, t)
        BY <1>19, <3>2
      <4>2. ListNormal(mem, o, mutations + 1)
        BY <2>1 DEF ListsNormal
      <4>3. HasRepo(mem, o[2])
        BY <3>2, <4>1, <4>2 DEF ListNormal
      <4>4. HasRepo(new, l[2])
        BY <1>14, <4>1, <4>3 DEF CameFrom
      <4>5. l = <<"bot_activity", NoSlug>> => o = <<"bot_activity", NoSlug>>
        BY <1>14, <4>1 DEF CameFrom
      <4>6. l[1] = "bot_activity" => l[2] = NoSlug
        BY <1>14, <3>2, <4>1, <4>2 DEF CameFrom, ListNormal
      <4> QED BY <1>10, <4>1, <4>2, <4>4, <4>5, <4>6 DEF ListNormal
    <3> QED BY <3>1, <3>2
  <2>3. ASSUME NEW l \in DOMAIN L, NEW m \in DOMAIN L, NEW i \in DOMAIN L[l], NEW j \in DOMAIN L[m],
               l[1] = m[1], L[l][i].id = L[m][j].id
        PROVE  l = m /\ i = j
    <3>1. PICK o \in DOMAIN mem.lists : o[1] = l[1] /\ L[l] = mem.lists[o] /\ CameFrom(o, l, s, t)
      BY <1>19
    <3>2. PICK p \in DOMAIN mem.lists : p[1] = m[1] /\ L[m] = mem.lists[p] /\ CameFrom(p, m, s, t)
      BY <1>19
    <3>3. i \in DOMAIN mem.lists[o] /\ j \in DOMAIN mem.lists[p] /\ o[1] = p[1]
          /\ mem.lists[o][i].id = mem.lists[p][j].id
      BY <2>3, <3>1, <3>2
    <3>4. o = p /\ i = j
      BY <2>1, <3>3 DEF ListsNormal
    <3>5. l = <<l[1], l[2]>> /\ m = <<m[1], m[2]>>
      BY <1>5, <1>6
    <3>6. l[2] = m[2]
      BY <3>1, <3>2, <3>4 DEF CameFrom
    <3> QED BY <2>3, <3>4, <3>5, <3>6
  <2> QED BY <1>10, <2>2, <2>3 DEF ListsNormal
<1>21. Normal(new, mutations + 1)
  BY <1>11, <1>12, <1>13, <1>18, <1>20 DEF Normal
<1>22. Follows(mem, new)
  <2>1. SlugsFollow(mem, new)
    BY <1>1, <1>4, <1>10 DEF SlugsFollow
  <2>2. ReservedFollow(mem.maps, M)
    <3> SUFFICES ASSUME NEW e \in mem.maps, NEW f \in M, e.table \in Reserving, f.table = e.table, e.key = f.key
                 PROVE  f.val = e.val
      BY DEF ReservedFollow
    <3>1. PICK h \in mem.maps : f = Moved(h, s, t)
      BY <1>8
    <3>2. f.table = h.table /\ f.key = h.key /\ f.val = h.val
      BY <1>16, <3>1
    <3>3. e = h
      BY <1>2, <3>2, ReservingKeys
    <3> QED BY <3>2, <3>3
  <2>3. ListsFollow(mem, new)
    BY <1>2, <1>10, <1>19, ListsMoved
  <2>4. ReposFollow(mem, new)
    <3>1. ASSUME NEW l \in DOMAIN L, L[l] # <<>>
          PROVE  \E o \in DOMAIN mem.lists : Carried(mem, o, new, l)
      <4>1. PICK o \in DOMAIN mem.lists : o[1] = l[1] /\ L[l] = mem.lists[o] /\ CameFrom(o, l, s, t)
        BY <1>19, <3>1
      <4>2. RowRepo(mem, o[2]) = RowRepo(new, l[2])
        <5>1. CASE l[2] = t /\ o = <<l[1], s>>
          BY <1>4, <1>10, <1>14, <5>1 DEF RowRepo
        <5>2. CASE l[2] # t /\ l[2] # s /\ o = l
          <6>1. l[2] \in AllSlugs
            BY <1>2, <5>2, ListIs DEF Normal
          <6> QED BY <1>4, <1>10, <5>2, <6>1 DEF RowRepo, AllSlugs
        <5> QED BY <4>1, <5>1, <5>2 DEF CameFrom
      <4> QED BY <1>10, <4>1, <4>2 DEF Carried
    <3> QED BY <1>2, <1>10, <3>1, ReposMoved
  <2> QED BY <1>10, <2>1, <2>2, <2>3, <2>4 DEF Follows
<1> QED BY <1>1, <1>21, <1>22, MutateKeeps

\* What a new list entry holds is not what another holds.
LEMMA NewIs ==
    ASSUME RowInv, opened, NEW l \in DOMAIN mem.lists, NEW v \in NewVals(l)
    PROVE  /\ v \in Nat
           /\ l[1] = "check_runs" => v # 0
           /\ l[1] # "check_runs" => \A i \in DOMAIN mem.lists[l] : mem.lists[l][i].val # v
<1>1. mutations \in Nat /\ Normal(mem, mutations)
  BY DEF RowInv
<1>2. DOMAIN mem.lists[l] = 1 .. Len(mem.lists[l]) /\ Len(mem.lists[l]) \in Nat
      /\ \A i \in DOMAIN mem.lists[l] : mem.lists[l][i].val \in Nat
  BY <1>1, ListIs DEF Normal
<1>3. CASE l[1] = "check_runs"
  <2> DEFINE S == {0} \cup {mem.lists[l][i].val : i \in DOMAIN mem.lists[l]}
             g == [i \in 1 .. Len(mem.lists[l]) |-> mem.lists[l][i].val]
  <2>1. \A i \in 1 .. Len(mem.lists[l]) : g[i] \in Nat /\ g[i] = mem.lists[l][i].val
    BY <1>2
  <2>2. S \subseteq Nat /\ S # {} /\ 0 \in S
    BY <1>2
  <2>3. \A x \in S : x = 0 \/ \E i \in 1 .. Len(mem.lists[l]) : x = g[i]
    BY <1>2, <2>1
  <2>4. v = Max(S) + 1
    BY <1>3 DEF NewVals
  <2> HIDE DEF S, g
  <2>5. \E b \in Nat : \A i \in 1 .. Len(mem.lists[l]) : g[i] <= b
    BY <1>2, <2>1, BoundOf
  <2>6. PICK b \in Nat : \A i \in 1 .. Len(mem.lists[l]) : g[i] <= b
    BY <2>5
  <2>7. \A x \in S : x <= b
    BY <2>3, <2>6
  <2>8. Max(S) \in S
    BY <2>2, <2>6, <2>7, LargestOf
  <2>9. Max(S) \in Nat
    BY <2>2, <2>8
  <2> QED BY <1>3, <2>4, <2>9
<1>4. CASE l[1] # "check_runs"
  <2>1. MaxMutations \in Nat
    BY SnapshotRowsAssumption
  <2> QED BY <1>4, <2>1 DEF NewVals
<1> QED BY <1>3, <1>4

\* An entry for a repository that has gone is refused.
LEMMA LostAppend ==
    ASSUME RowInv, NEW k \in RowKeys, NEW l \in DOMAIN mem.lists, ~HasRepo(mem, l[2]), NEW v,
           NEW fits \in BOOLEAN, AppendRow(l, k, v, fits)
    PROVE  RowInv'
<1> DEFINE c == [id |-> k, val |-> v]
           L == [mem.lists EXCEPT ![l] = Append(mem.lists[l], c)]
           new == [mem EXCEPT !.lists[l] = Append(@, c)]
<1>1. Mutate(new, fits)
  BY DEF AppendRow
<1>2. mutations \in Nat /\ Normal(mem, mutations)
  BY <1>1, BeforeMutation
<1>3. new = [mem EXCEPT !.lists = L]
  OBVIOUS
<1>4. mem.lists[l] \in Seq(Entries) /\ l[2] \in AllSlugs /\ l[1] \in ListTables
  BY <1>2, ListIs DEF Normal
<1>5. PICK grown : grown = Append(mem.lists[l], c)
  OBVIOUS
<1>6. L[l] = grown /\ l \in DOMAIN L
  BY <1>5
<1>7. DOMAIN grown # {}
  BY <1>4, <1>5
<1> HIDE DEF c, L, new
<1>8. Is(new, mem.repos, mem.maps, L, mem.counters)
  BY <1>2, <1>3, NormalIs, FieldsAre
<1>9. new.repos = mem.repos /\ new.lists = L
  BY <1>8, PartsAre
<1>10. RowRepo(new, l[2]) = NoUuid
  BY <1>4, <1>9 DEF HasRepo, RowRepo, AllSlugs
<1>11. ~StagingSucceeds(new)
  BY <1>4, <1>6, <1>7, <1>9, <1>10, LostRefused
<1> QED BY <1>1, <1>11, MutateRefused

\* An entry is appended to a list.
LEMMA AppendFollows ==
    ASSUME RowInv, NEW k \in RowKeys, NEW l \in DOMAIN mem.lists, HasRepo(mem, l[2]),
           l[1] = "bot_activity" => l[2] = NoSlug, NEW v, NEW fits \in BOOLEAN, AppendRow(l, k, v, fits)
    PROVE  RowInv'
<1> DEFINE c == [id |-> k, val |-> v]
           old == mem.lists[l]
           L == [mem.lists EXCEPT ![l] = Append(old, c)]
           new == [mem EXCEPT !.lists[l] = Append(@, c)]
<1>1. Mutate(new, fits) /\ v \in NewVals(l)
      /\ \A m \in DOMAIN mem.lists : m[1] = l[1] => \A i \in DOMAIN mem.lists[m] : mem.lists[m][i].id # k
  BY DEF AppendRow
<1>2. opened /\ mutations \in Nat /\ Normal(mem, mutations)
  BY <1>1, BeforeMutation
<1>3. v \in Nat /\ (l[1] = "check_runs" => v # 0)
      /\ (l[1] # "check_runs" => \A i \in DOMAIN mem.lists[l] : mem.lists[l][i].val # v)
  BY <1>1, <1>2, NewIs
<1>4. c \in Entries /\ c.id = k /\ c.val = v
  BY <1>3 DEF Entries
<1>5. new = [mem EXCEPT !.lists = L]
  OBVIOUS
<1>6. old \in Seq(Entries) /\ Len(old) \in Nat /\ DOMAIN old = 1 .. Len(old)
  BY <1>2, ListIs DEF Normal
<1>7. PICK grown : grown = Append(old, c)
  OBVIOUS
<1> HIDE DEF c
<1>8. /\ grown \in Seq(Entries) /\ Len(grown) = Len(old) + 1 /\ DOMAIN grown = 1 .. Len(old) + 1
      /\ grown[Len(old) + 1] = c /\ \A i \in 1 .. Len(old) : grown[i] = old[i]
  BY <1>4, <1>6, <1>7
<1>9. /\ DOMAIN mem.lists = UsedLists \X AllSlugs /\ DOMAIN L = DOMAIN mem.lists
      /\ L[l] = grown /\ \A m \in DOMAIN mem.lists : m # l => L[m] = mem.lists[m]
  BY <1>2, <1>7 DEF Normal, IsState
<1>10. L \in [UsedLists \X AllSlugs -> Seq(Entries)]
  BY <1>2, <1>7, <1>8 DEF Normal, IsState
<1> HIDE DEF L, new
<1>11. Is(new, mem.repos, mem.maps, L, mem.counters)
  BY <1>2, <1>5, NormalIs, FieldsAre
<1>12. new.repos = mem.repos /\ new.maps = mem.maps /\ new.lists = L /\ new.counters = mem.counters
       /\ Is(new, new.repos, new.maps, new.lists, new.counters)
  BY <1>11, PartsAre
<1>13. IsState(new)
  BY <1>2, <1>10, <1>12 DEF Normal, IsState, Is
<1>14. Normal(mem, mutations + 1)
  BY <1>2, NormalLater
<1>15. ReposNormal(new) /\ CountersNormal(new, mutations + 1)
  BY <1>12, <1>14 DEF Normal, ReposNormal, CountersNormal
<1>16. MapsNormal(new)
  <2>1. \A e : EntryNormal(mem, e) => EntryNormal(new, e)
    BY <1>12 DEF EntryNormal, HasRepo
  <2> QED BY <1>2, <1>12, <2>1 DEF Normal, MapsNormal
<1>17. \A a : HasRepo(mem, a) <=> HasRepo(new, a)
  BY <1>12 DEF HasRepo
\* Each entry is an old one or the new one.
<1>18. ASSUME NEW m \in DOMAIN L, NEW i \in DOMAIN L[m]
       PROVE  \/ m = l /\ i = Len(old) + 1 /\ L[m][i] = c
              \/ i \in DOMAIN mem.lists[m] /\ L[m][i] = mem.lists[m][i]
  <2>1. CASE m = l
    <3>1. i \in 1 .. Len(old) + 1 /\ L[m] = grown
      BY <1>8, <1>9, <1>18, <2>1
    <3>2. i = Len(old) + 1 \/ i \in 1 .. Len(old)
      BY <1>6, <3>1
    <3> QED BY <1>6, <1>8, <2>1, <3>1, <3>2
  <2>2. CASE m # l
    BY <1>9, <1>18, <2>2
  <2> QED BY <2>1, <2>2
<1>19. ASSUME NEW m \in DOMAIN L, NEW i \in DOMAIN mem.lists[m]
       PROVE  ~(m[1] = l[1] /\ mem.lists[m][i].id = k)
  BY <1>1, <1>9
<1>20. ListsNormal(new, mutations + 1)
  <2>1. ASSUME NEW m \in DOMAIN L
        PROVE  ListNormal(new, m, mutations + 1)
    <3>1. ListNormal(mem, m, mutations) /\ ListNormal(mem, m, mutations + 1)
      BY <1>2, <1>9, <1>14 DEF Normal, ListsNormal
    <3>2. CASE m # l
      <4>1. L[m] = mem.lists[m]
        BY <1>9, <3>2
      <4> QED BY <1>12, <1>17, <3>1, <4>1 DEF ListNormal
    <3>3. CASE m = l
      <4>1. L[m] = grown /\ Len(old) <= mutations
        BY <1>9, <3>1, <3>3 DEF ListNormal
      <4>2. Len(grown) <= mutations + 1 /\ HasRepo(new, m[2])
        BY <1>2, <1>6, <1>8, <1>17, <3>3, <4>1
      <4>3. ASSUME m[1] = "check_runs", NEW i \in DOMAIN grown
            PROVE  grown[i].val # 0
        <5>1. i = Len(old) + 1 \/ i \in 1 .. Len(old)
          BY <1>6, <1>8, <4>3
        <5> QED BY <1>3, <1>4, <1>6, <1>8, <3>1, <3>3, <4>3, <5>1 DEF ListNormal
      <4>4. ASSUME m = <<"bot_activity", NoSlug>>, NEW i \in DOMAIN grown, NEW j \in DOMAIN grown,
                   grown[i].val = grown[j].val
            PROVE  i = j
        <5>1. \A h \in 1 .. Len(old) : old[h].val # c.val
          BY <1>3, <1>4, <1>6, <3>3, <4>4
        <5>2. \A h, g \in 1 .. Len(old) : old[h].val = old[g].val => h = g
          BY <1>6, <3>1, <3>3, <4>4 DEF ListNormal
        <5>3. \A h \in 1 .. Len(old) + 1 : h = Len(old) + 1 \/ h \in 1 .. Len(old)
          BY <1>6
        <5>4. (i = Len(old) + 1 \/ i \in 1 .. Len(old)) /\ (j = Len(old) + 1 \/ j \in 1 .. Len(old))
          BY <1>8, <4>4, <5>3
        <5> QED BY <1>8, <4>4, <5>1, <5>2, <5>4
      <4>5. m[1] = "bot_activity" => m[2] = NoSlug
        BY <3>3
      <4> QED BY <1>12, <4>1, <4>2, <4>3, <4>4, <4>5 DEF ListNormal
    <3> QED BY <3>2, <3>3
  <2>2. ASSUME NEW m \in DOMAIN L, NEW o \in DOMAIN L, NEW i \in DOMAIN L[m], NEW j \in DOMAIN L[o],
               m[1] = o[1], L[m][i].id = L[o][j].id
        PROVE  m = o /\ i = j
    <3>1. CASE m = l /\ i = Len(old) + 1 /\ L[m][i] = c
      <4>1. L[o][j].id = k /\ o[1] = l[1]
        BY <1>4, <2>2, <3>1
      <4>2. ~(j \in DOMAIN mem.lists[o] /\ L[o][j] = mem.lists[o][j])
        BY <1>19, <4>1
      <4> QED BY <1>18, <3>1, <4>2
    <3>2. CASE i \in DOMAIN mem.lists[m] /\ L[m][i] = mem.lists[m][i]
      <4>1. CASE o = l /\ j = Len(old) + 1 /\ L[o][j] = c
        <5>1. mem.lists[m][i].id = k /\ m[1] = l[1]
          BY <1>4, <2>2, <3>2, <4>1
        <5> QED BY <1>19, <3>2, <5>1
      <4>2. CASE j \in DOMAIN mem.lists[o] /\ L[o][j] = mem.lists[o][j]
        <5>1. mem.lists[m][i].id = mem.lists[o][j].id
          BY <2>2, <3>2, <4>2
        <5> QED BY <1>2, <1>9, <2>2, <3>2, <4>2, <5>1 DEF Normal, ListsNormal
      <4> QED BY <1>18, <4>1, <4>2
    <3> QED BY <1>18, <3>1, <3>2
  <2> QED BY <1>12, <2>1, <2>2 DEF ListsNormal
<1>21. Normal(new, mutations + 1)
  BY <1>13, <1>15, <1>16, <1>20 DEF Normal
<1>22. Follows(mem, new)
  <2>1. SlugsFollow(mem, new) /\ ReservedFollow(mem.maps, new.maps)
    <3>1. SlugsFollow(mem, new)
      BY <1>12 DEF SlugsFollow
    <3>2. ReservedFollow(mem.maps, new.maps)
      BY <1>2, <1>12, ReservingKeys DEF ReservedFollow
    <3> QED BY <3>1, <3>2
  <2>2. ListsFollow(mem, new)
    <3> SUFFICES ASSUME NEW o \in DOMAIN L, NEW i \in DOMAIN L[o], NEW j \in DOMAIN L[o], i < j,
                        NEW m \in DOMAIN mem.lists, NEW h \in DOMAIN mem.lists[m],
                        m[1] = o[1], mem.lists[m][h].id = L[o][j].id
                 PROVE  \E g \in DOMAIN mem.lists[m] : g < h /\ mem.lists[m][g].id = L[o][i].id
      BY <1>12 DEF ListsFollow
    <3>1. ~(o = l /\ j = Len(old) + 1 /\ L[o][j] = c)
      BY <1>4, <1>9, <1>19
    <3>2. j \in DOMAIN mem.lists[o] /\ L[o][j] = mem.lists[o][j]
      BY <1>18, <3>1
    <3>3. m = o /\ h = j
      BY <1>2, <1>9, <3>2 DEF Normal, ListsNormal
    <3>4. i \in DOMAIN mem.lists[o] /\ L[o][i] = mem.lists[o][i]
      <4>1. CASE o = l
        <5>1. j \in 1 .. Len(old) /\ i \in 1 .. Len(old) + 1
          BY <1>6, <1>8, <1>9, <3>2, <4>1
        <5>2. i \in 1 .. Len(old)
          BY <1>6, <5>1
        <5> QED BY <1>6, <1>8, <1>9, <4>1, <5>2
      <4>2. CASE o # l
        BY <1>9, <4>2
      <4> QED BY <4>1, <4>2
    <3> QED BY <3>3, <3>4
  <2>3. ReposFollow(mem, new)
    <3> SUFFICES ASSUME NEW o \in DOMAIN L, NEW m \in DOMAIN mem.lists, NEW i \in DOMAIN L[o],
                        NEW h \in DOMAIN mem.lists[m], m[1] = o[1], mem.lists[m][h].id = L[o][i].id
                 PROVE  RowRepo(mem, m[2]) = RowRepo(new, o[2])
      BY <1>12 DEF ReposFollow
    <3>1. ~(o = l /\ i = Len(old) + 1 /\ L[o][i] = c)
      BY <1>4, <1>9, <1>19
    <3>2. i \in DOMAIN mem.lists[o] /\ L[o][i] = mem.lists[o][i]
      BY <1>18, <3>1
    <3>3. m = o
      BY <1>2, <1>9, <3>2 DEF Normal, ListsNormal
    <3> QED BY <1>12, <3>3 DEF RowRepo
  <2> QED BY <2>1, <2>2, <2>3 DEF Follows
<1> QED BY <1>1, <1>21, <1>22, MutateKeeps

\* The oldest event is dropped.
LEMMA CapFollows ==
    ASSUME RowInv, CapRows
    PROVE  RowInv'
<1> DEFINE l == <<"bot_activity", NoSlug>>
           old == mem.lists[l]
           L == [mem.lists EXCEPT ![l] = Tail(old)]
           new == [mem EXCEPT !.lists[l] = Tail(@)]
<1>1. Mutate(new, TRUE) /\ "bot_activity" \in UsedLists /\ old # <<>>
  BY DEF CapRows
<1>2. mutations \in Nat /\ Normal(mem, mutations)
  BY <1>1, BeforeMutation
<1>3. /\ DOMAIN mem.lists = UsedLists \X AllSlugs
      /\ l \in DOMAIN mem.lists /\ l[1] = "bot_activity" /\ l[1] # "check_runs"
  BY <1>1, <1>2 DEF Normal, IsState, AllSlugs
<1>4. new = [mem EXCEPT !.lists = L]
  OBVIOUS
<1>5. old \in Seq(Entries) /\ Len(old) \in Nat /\ DOMAIN old = 1 .. Len(old)
  BY <1>2, <1>3, ListIs DEF Normal
<1>6. PICK cut : cut = Tail(old)
  OBVIOUS
<1>7. /\ cut \in Seq(Entries) /\ Len(cut) = Len(old) - 1 /\ Len(cut) \in Nat /\ DOMAIN cut = 1 .. Len(cut)
      /\ \A i \in 1 .. Len(cut) : cut[i] = old[i + 1] /\ i + 1 \in 1 .. Len(old) /\ i \in Nat
  <2>1. old # <<>>
    BY <1>1
  <2> HIDE DEF old
  <2>2. cut \in Seq(Entries) /\ Len(cut) = Len(old) - 1 /\ Len(old) > 0
    BY <1>5, <1>6, <2>1
  <2>3. \A i \in 1 .. Len(cut) : cut[i] = old[i + 1]
    BY <1>5, <1>6, <2>1, <2>2
  <2>4. Len(cut) \in Nat /\ DOMAIN cut = 1 .. Len(cut)
    BY <1>5, <2>2
  <2>5. \A i \in 1 .. Len(cut) : i + 1 \in 1 .. Len(old) /\ i \in Nat
    BY <1>5, <2>2, <2>4
  <2> QED BY <2>2, <2>3, <2>4, <2>5
<1>8. /\ DOMAIN L = DOMAIN mem.lists
      /\ L[l] = cut /\ \A m \in DOMAIN mem.lists : m # l => L[m] = mem.lists[m]
  BY <1>3, <1>6, <1>2 DEF Normal, IsState
<1>9. L \in [UsedLists \X AllSlugs -> Seq(Entries)]
  BY <1>2, <1>6, <1>7 DEF Normal, IsState
<1> HIDE DEF L, new
<1>10. Is(new, mem.repos, mem.maps, L, mem.counters)
  BY <1>2, <1>4, NormalIs, FieldsAre
<1>11. new.repos = mem.repos /\ new.maps = mem.maps /\ new.lists = L /\ new.counters = mem.counters
       /\ Is(new, new.repos, new.maps, new.lists, new.counters)
  BY <1>10, PartsAre
<1>12. IsState(new)
  BY <1>2, <1>9, <1>11 DEF Normal, IsState, Is
<1>13. Normal(mem, mutations + 1)
  BY <1>2, NormalLater
<1>14. ReposNormal(new) /\ CountersNormal(new, mutations + 1)
  BY <1>11, <1>13 DEF Normal, ReposNormal, CountersNormal
<1>15. MapsNormal(new)
  <2>1. \A e : EntryNormal(mem, e) => EntryNormal(new, e)
    BY <1>11 DEF EntryNormal, HasRepo
  <2> QED BY <1>2, <1>11, <2>1 DEF Normal, MapsNormal
<1>16. \A a : HasRepo(mem, a) <=> HasRepo(new, a)
  BY <1>11 DEF HasRepo
\* Where an entry stood before.
<1> DEFINE Before(m, i) == IF m = l THEN i + 1 ELSE i
<1>17. ASSUME NEW m \in DOMAIN L, NEW i \in DOMAIN L[m]
       PROVE  i \in Int /\ Before(m, i) \in DOMAIN mem.lists[m] /\ L[m][i] = mem.lists[m][Before(m, i)]
  <2>1. CASE m = l
    <3>1. i \in 1 .. Len(cut) /\ L[m] = cut /\ mem.lists[m] = old
      BY <1>7, <1>8, <1>17, <2>1
    <3>2. cut[i] = old[i + 1] /\ i + 1 \in 1 .. Len(old) /\ i \in Nat
      BY <1>7, <3>1
    <3>3. Before(m, i) = i + 1
      BY <2>1
    <3> HIDE DEF Before
    <3> QED BY <1>5, <3>1, <3>2, <3>3
  <2>2. CASE m # l
    <3>1. DOMAIN mem.lists[m] = 1 .. Len(mem.lists[m])
      BY <1>2, <1>8, ListIs DEF Normal
    <3> QED BY <1>8, <2>2, <3>1
  <2> QED BY <2>1, <2>2
<1>18. \A m, i, j : i \in Int /\ j \in Int => (Before(m, i) = Before(m, j) => i = j) /\ (i < j => Before(m, i) < Before(m, j))
  OBVIOUS
<1> HIDE DEF Before
<1>19. ListsNormal(new, mutations + 1)
  <2>1. ASSUME NEW m \in DOMAIN L
        PROVE  ListNormal(new, m, mutations + 1)
    <3>1. ListNormal(mem, m, mutations + 1)
      BY <1>8, <1>13 DEF Normal, ListsNormal
    <3>2. CASE m # l
      <4>1. L[m] = mem.lists[m]
        BY <1>8, <3>2
      <4> QED BY <1>11, <1>16, <3>1, <4>1 DEF ListNormal
    <3>3. CASE m = l
      <4>1. L[m] = cut /\ Len(old) <= mutations + 1 /\ HasRepo(mem, m[2])
        BY <1>1, <1>8, <3>1, <3>3 DEF ListNormal
      <4>2. Len(cut) <= mutations + 1 /\ HasRepo(new, m[2])
        BY <1>2, <1>5, <1>7, <1>16, <4>1
      <4>3. \A i, j \in 1 .. Len(old) : old[i].val = old[j].val => i = j
        BY <1>5, <3>1, <3>3 DEF ListNormal
      <4>4. ASSUME NEW i \in DOMAIN cut, NEW j \in DOMAIN cut, cut[i].val = cut[j].val
            PROVE  i = j
        <5>1. /\ cut[i] = old[i + 1] /\ i + 1 \in 1 .. Len(old) /\ i \in Nat
              /\ cut[j] = old[j + 1] /\ j + 1 \in 1 .. Len(old) /\ j \in Nat
          BY <1>7, <4>4
        <5>2. i + 1 = j + 1
          BY <4>3, <4>4, <5>1
        <5> QED BY <5>1, <5>2
      <4>5. m[2] = NoSlug
        BY <3>3
      <4> QED BY <1>3, <1>11, <3>3, <4>1, <4>2, <4>4, <4>5 DEF ListNormal
    <3> QED BY <3>2, <3>3
  <2>2. ASSUME NEW m \in DOMAIN L, NEW o \in DOMAIN L, NEW i \in DOMAIN L[m], NEW j \in DOMAIN L[o],
               m[1] = o[1], L[m][i].id = L[o][j].id
        PROVE  m = o /\ i = j
    <3>1. Before(m, i) \in DOMAIN mem.lists[m] /\ L[m][i] = mem.lists[m][Before(m, i)] /\ i \in Int
      BY <1>17
    <3>2. Before(o, j) \in DOMAIN mem.lists[o] /\ L[o][j] = mem.lists[o][Before(o, j)] /\ j \in Int
      BY <1>17
    <3>3. m = o /\ Before(m, i) = Before(o, j)
      BY <1>2, <1>8, <2>2, <3>1, <3>2 DEF Normal, ListsNormal
    <3> QED BY <1>18, <3>1, <3>2, <3>3
  <2> QED BY <1>11, <2>1, <2>2 DEF ListsNormal
<1>20. Normal(new, mutations + 1)
  BY <1>12, <1>14, <1>15, <1>19 DEF Normal
<1>21. Follows(mem, new)
  <2>1. SlugsFollow(mem, new)
    BY <1>11 DEF SlugsFollow
  <2>2. ReservedFollow(mem.maps, new.maps)
    BY <1>2, <1>11, ReservingKeys DEF ReservedFollow
  <2>3. ListsFollow(mem, new)
    <3> SUFFICES ASSUME NEW o \in DOMAIN L, NEW i \in DOMAIN L[o], NEW j \in DOMAIN L[o], i < j,
                        NEW m \in DOMAIN mem.lists, NEW h \in DOMAIN mem.lists[m],
                        m[1] = o[1], mem.lists[m][h].id = L[o][j].id
                 PROVE  \E g \in DOMAIN mem.lists[m] : g < h /\ mem.lists[m][g].id = L[o][i].id
      BY <1>11 DEF ListsFollow
    <3>1. Before(o, i) \in DOMAIN mem.lists[o] /\ L[o][i] = mem.lists[o][Before(o, i)] /\ i \in Int
      BY <1>17
    <3>2. Before(o, j) \in DOMAIN mem.lists[o] /\ L[o][j] = mem.lists[o][Before(o, j)] /\ j \in Int
      BY <1>17
    <3>3. m = o /\ h = Before(o, j)
      BY <1>2, <1>8, <3>2 DEF Normal, ListsNormal
    <3>4. Before(o, i) < Before(o, j)
      BY <1>18, <3>1, <3>2
    <3> QED BY <3>1, <3>3, <3>4
  <2>4. ReposFollow(mem, new)
    <3> SUFFICES ASSUME NEW o \in DOMAIN L, NEW m \in DOMAIN mem.lists, NEW i \in DOMAIN L[o],
                        NEW h \in DOMAIN mem.lists[m], m[1] = o[1], mem.lists[m][h].id = L[o][i].id
                 PROVE  RowRepo(mem, m[2]) = RowRepo(new, o[2])
      BY <1>11 DEF ReposFollow
    <3>1. Before(o, i) \in DOMAIN mem.lists[o] /\ L[o][i] = mem.lists[o][Before(o, i)]
      BY <1>17
    <3>2. m = o
      BY <1>2, <1>8, <3>1 DEF Normal, ListsNormal
    <3> QED BY <1>11, <3>2 DEF RowRepo
  <2> QED BY <2>1, <2>2, <2>3, <2>4 DEF Follows
<1> QED BY <1>1, <1>20, <1>21, MutateKeeps

----------------------------------------------------------------------------
(* Opening restores the state *)

\* The invariant is kept by every step.
LEMMA RowStep ==
    ASSUME RowInv, [RowNext]_rowVars
    PROVE  RowInv'
<1>1. ASSUME NEW s \in RowSlugs, DeleteRows(s)
      PROVE  RowInv'
  BY <1>1, DeleteFollows
<1>2. ASSUME NEW s \in RowSlugs, NEW tables \in {{"issues"}, {"issues", "pull_requests"}},
             NEW fits \in BOOLEAN, NumberedRow(s, tables, fits)
      PROVE  RowInv'
  BY <1>2, NumberFollows
<1>3. ASSUME NEW s \in RowSlugs, NEW u \in RepoUuids, NEW fits \in BOOLEAN, CreateRow(s, u, fits)
      PROVE  RowInv'
  BY <1>3, CreateFollows
<1>4. ASSUME NEW s \in RowSlugs, NEW t \in RowSlugs, RenameRows(s, t)
      PROVE  RowInv'
  BY <1>4, RenameFollows
<1>5. ASSUME NEW t \in UsedMaps \ (Reserving \cup {"issues", "pull_requests"}), NEW s \in SlugsFor(t),
             NEW k \in RowKeys, NEW v \in RowVals(t), NEW fits \in BOOLEAN, PutRow(t, s, k, v, fits)
      PROVE  RowInv'
  BY <1>5, PutFollows
<1>6. ASSUME NEW t \in UsedMaps \cap Reserving, NEW k \in RowKeys, NEW fits \in BOOLEAN,
             ReserveRow(t, k, "name", fits)
      PROVE  RowInv'
  BY <1>6, ReserveFollows
<1>7. ASSUME NEW k \in RowKeys, NEW fits \in BOOLEAN, NEW e \in Invitations, ReissueRow(e, k, fits)
      PROVE  RowInv'
  BY <1>7, ReissueFollows
<1>8. ASSUME NEW t \in UsedLists, NEW k \in RowKeys, NEW fits \in BOOLEAN,
             NEW s \in (IF t = "bot_activity" THEN {NoSlug} ELSE RowSlugs),
             NEW v \in NewVals(<<t, s>>), AppendRow(<<t, s>>, k, v, fits)
      PROVE  RowInv'
  <2>1. Normal(mem, mutations)
    BY <1>8, BeforeMutation DEF AppendRow
  <2>2. s \in AllSlugs /\ (t = "bot_activity" => s = NoSlug)
    BY DEF AllSlugs
  <2>3. PICK l : l = <<t, s>>
    OBVIOUS
  <2>4. l \in DOMAIN mem.lists /\ l[1] = t /\ l[2] = s
    BY <2>1, <2>2, <2>3 DEF Normal, IsState
  <2>5. AppendRow(l, k, v, fits)
    BY <1>8, <2>3
  <2> QED BY <2>2, <2>4, <2>5, AppendFollows, LostAppend
<1>9. ASSUME AppendAuditRow
      PROVE  RowInv'
  <2>1. /\ mem' = mem /\ main' = main /\ opened' = opened /\ marked' = marked
        /\ refusals' = refusals /\ mutations' = mutations
    BY <1>9 DEF AppendAuditRow
  <2> QED BY <2>1 DEF RowInv
<1>10. ASSUME UNCHANGED rowVars
       PROVE  RowInv'
  <2>1. /\ mem' = mem /\ main' = main /\ opened' = opened /\ marked' = marked
        /\ refusals' = refusals /\ mutations' = mutations
    BY <1>10 DEF rowVars
  <2> QED BY <2>1 DEF RowInv
<1>11. ASSUME RowNext
       PROVE  RowInv'
  BY <1>1, <1>2, <1>3, <1>4, <1>5, <1>6, <1>7, <1>8, <1>9, <1>11,
     CapFollows, CloseKeeps, OtherKeeps, ReopenKeeps DEF RowNext
<1> QED BY <1>10, <1>11

\* And it gives the property.
LEMMA RowInvGives ==
    ASSUME RowInv
    PROVE  ReopenRestoresState
<1>1. ASSUME opened
      PROVE  /\ BackfillCounters(LoadState(main)) = Sorted(mem)
             /\ \A s \in RowSlugs : \A n \in Numbers(mem, s) : n <= mem.counters[s]
  <2>1. mutations \in Nat /\ Normal(mem, mutations) /\ LoadState(main) = Sorted(mem)
    BY <1>1 DEF RowInv
  <2>2. BackfillCounters(Sorted(mem)) = Sorted(mem)
    BY <2>1, SortedIs, NothingToBackfill
  <2>3. ASSUME NEW s \in RowSlugs, NEW n \in Numbers(mem, s)
        PROVE  n <= mem.counters[s]
    <3>1. PICK e \in mem.maps : e.table = "issues" /\ e.slug = s /\ n = e.key
      BY DEF Numbers
    <3>2. EntryNormal(mem, e)
      BY <2>1 DEF Normal, MapsNormal
    <3> QED BY <3>1, <3>2 DEF EntryNormal
  <2> QED BY <2>1, <2>2, <2>3
<1>2. refusals = 0 /\ \A r \in main : (\E m \in marked : SameRow(r, m)) => r.foreign = "set"
  BY DEF RowInv, Marks
<1> QED BY <1>1, <1>2 DEF ReopenRestoresState

\* Opening the file gives the state in memory, events by their times, whatever
\* was written to it and by which release; a mutation is refused only for a value
\* that does not fit or a repository that has gone, and the repairs of an open
\* never are; columns of other tools keep their values and the next number of a
\* repository is free (stage_state, snapshot::apply, load_state, open).
THEOREM ReopensRestore == RowSpec => []ReopenRestoresState
<1>1. RowInit => RowInv
  BY RowInvInit
<1>2. RowInv /\ [RowNext]_rowVars => RowInv'
  BY RowStep
<1>3. RowInv => ReopenRestoresState
  BY RowInvGives
<1> QED BY <1>1, <1>2, <1>3, PTL DEF RowSpec
=============================================================================
