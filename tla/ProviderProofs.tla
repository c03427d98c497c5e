--------------------------- MODULE ProviderProofs ---------------------------
(***************************************************************************)
(* Proofs about ProviderConnections: for any number of connections and     *)
(* sessions, whatever writes fail and wherever the process dies, a refresh *)
(* runs alone on its connection, the provider never sees a spent secret,   *)
(* access is handed out only against a durable secret, and a fenced        *)
(* generation stays fenced.                                                *)
(*                                                                         *)
(* The safety properties speak of rows in memory and in the database at    *)
(* once, so the inductive invariant is stated of a single row, GoodRow,    *)
(* and asked of both; a write then only has to produce a good row.  What   *)
(* ties rows to refreshes in flight is the connection a secret was issued  *)
(* for: two refreshes that hold one secret hold one connection, and the    *)
(* lock table lets only one of them run.                                   *)
(***************************************************************************)
EXTENDS ProviderConnections, TLAPS

Flying(t) == sess[t].at \in {"asking", "answered"}
HeldBy(t, c) == sess[t].lease # NoLease /\ sess[t].lease.conn = c

\* Nothing starts without a vault key, and the key changes only at a restart.
KeyInv ==
    /\ \A t \in Sessions : sess[t].at # "idle" => vault # NoKey
    /\ checked # {} => vault # NoKey

\* A session keeps its lock in the table for as long as it refers to it.
LockInv ==
    \A t \in Sessions :
        /\ sess[t].at # "idle" =>
              /\ sess[t].lease # NoLease
              /\ sess[t].lock \in Locks
              /\ table[sess[t].lease.conn] = sess[t].lock
        /\ Running(t) => holder[sess[t].lock] = t

\* A seal opens under its own row and holds a secret issued for it, marked if
\* it is spent or about to be.
SealInv(c, row) ==
    row # Absent =>
        /\ row.state = "connected" <=> row.sealed # NoSecret
        /\ row.sealed # NoSecret =>
              /\ row.sealed.gen = row.gen
              /\ row.sealed.version = row.version
              /\ row.sealed.kind = row.kind
              /\ row.sealed.secret \in Issued
              /\ issued[row.sealed.secret] = c
              /\ row.sealed.secret \in consumed => row.rotation # NoRotation
              /\ \A t \in Sessions : Flying(t) /\ HeldBy(t, c) =>
                    /\ row.sealed.secret = sess[t].secret => row.rotation # NoRotation
                    /\ sess[t].answer = "rotated" => row.sealed.secret # sess[t].fresh

\* No row is behind what was handed out, fenced or leased.
AgeInv(c, row) ==
    /\ handed[c].gen # 0 =>
          /\ row # Absent
          /\ \/ row.gen > handed[c].gen
             \/ row.gen = handed[c].gen /\ handed[c].version <= row.version
    /\ fenced[c] # 0 => row # Absent /\ fenced[c] <= row.gen
    /\ \A t \in Sessions : HeldBy(t, c) => row # Absent /\ sess[t].lease.gen <= row.gen

GoodRow(c, row) == SealInv(c, row) /\ AgeInv(c, row)

\* The database is never behind the memory.
AheadInv ==
    \A c \in Conns : mem.rows[c] # Absent =>
        disk.rows[c] # Absent /\ mem.rows[c].gen <= disk.rows[c].gen

\* What a refresh in flight knows of its secrets, and of its row while that is
\* still the one it marked.
Knows(t) ==
    /\ sess[t].secret \in Issued
    /\ issued[sess[t].secret] = sess[t].lease.conn
    /\ sess[t].at = "asking" \/ sess[t].answer = "unchanged"
          => sess[t].secret \notin consumed
    /\ sess[t].answer = "rotated" =>
          /\ sess[t].fresh \in Issued
          /\ issued[sess[t].fresh] = sess[t].lease.conn
          /\ sess[t].fresh \notin consumed
    /\ sess[t].at = "asking" => sess[t].answer = "none"
    /\ Ours(t) => /\ mem.rows[sess[t].lease.conn].sealed # NoSecret
                  /\ mem.rows[sess[t].lease.conn].sealed.secret = sess[t].secret

FlightInv == \A t \in Sessions : Flying(t) => Knows(t)

RowsInv == \A c \in Conns : GoodRow(c, mem.rows[c]) /\ GoodRow(c, disk.rows[c])

RefreshInv == TypeOK /\ KeyInv /\ LockInv /\ RowsInv /\ AheadInv /\ FlightInv
-----------------------------------------------------------------------------
(* Facts about rows and writes *)

\* A step wrote at most connection c, with one of the rows RS.
Wrote(c, RS) ==
    /\ mem' \in States
    /\ disk' \in States
    /\ \A d \in Conns : \/ mem'.rows[d] = mem.rows[d]
                        \/ d = c /\ mem'.rows[d] \in RS
    /\ \A d \in Conns : \/ disk'.rows[d] \in {disk.rows[d], mem.rows[d]}
                        \/ d = c /\ disk'.rows[d] \in RS

\* With replaces one row of the memory and nothing else.
LEMMA WithRow ==
    ASSUME mem \in States, NEW c \in Conns, NEW row \in Rows
    PROVE  /\ With(c, row) \in States
           /\ With(c, row).rows[c] = row
           /\ \A d \in Conns \ {c} : With(c, row).rows[d] = mem.rows[d]
  BY DEF With, States

\* persist_after_mutation leaves the memory and the database each with the old
\* rows or the written one.
LEMMA MutationWrites ==
    ASSUME mem \in States, disk \in States, NEW c \in Conns, NEW row \in Rows, NEW how,
           PersistAfterMutation(With(c, row), how)
    PROVE  Wrote(c, {row})
  BY WithRow DEF PersistAfterMutation, Wrote

\* So does a fence, whatever became of its write.
LEMMA FenceWrites ==
    ASSUME mem \in States, disk \in States, NEW c \in Conns, NEW row \in Rows,
           mem' = With(c, row), disk' \in {disk, With(c, row)}
    PROVE  Wrote(c, {row})
  BY WithRow DEF Wrote

\* If old rows stay good and the written ones are, every row is good.
LEMMA RowsAfterWrite ==
    ASSUME TypeOK, RowsInv, NEW c \in Conns, NEW RS, Wrote(c, RS),
           \A d \in Conns : \A r : GoodRow(d, r) => GoodRow(d, r)',
           \A r \in RS : GoodRow(c, r)'
    PROVE  RowsInv'
  BY DEF RowsInv, Wrote

\* The same when only the written state is left.
LEMMA RowsAfterSave ==
    ASSUME TypeOK, RowsInv, NEW c \in Conns, NEW row \in Rows,
           mem' = With(c, row), disk' = With(c, row),
           \A d \in Conns \ {c} : \A r : GoodRow(d, r) => GoodRow(d, r)',
           GoodRow(c, row)'
    PROVE  RowsInv'
<1>1. \A d \in Conns \ {c} : mem'.rows[d] = mem.rows[d] /\ disk'.rows[d] = mem.rows[d]
  BY WithRow DEF TypeOK
<1>2. mem'.rows[c] = row /\ disk'.rows[c] = row
  BY WithRow DEF TypeOK
<1> QED
  BY <1>1, <1>2 DEF RowsInv

\* A saved write leaves the memory and the database equal.
LEMMA AheadAfterSave ==
    ASSUME mem' \in States, disk' = mem'
    PROVE  AheadInv'
<1> SUFFICES ASSUME NEW d \in Conns, mem'.rows[d] # Absent
             PROVE  mem'.rows[d].gen <= mem'.rows[d].gen
  BY DEF AheadInv
<1>1. mem'.rows[d] \in Rows
  BY DEF States
<1> QED
  BY <1>1 DEF Rows

\* A newer version of a row is no further behind anything.
LEMMA NewerVersion ==
    ASSUME NEW c \in Conns, NEW row \in Rows, NEW r \in Rows, AgeInv(c, row),
           r # Absent, r.gen = row.gen, r.version = row.version + 1,
           handed \in [Conns -> [gen : Nat, version : Nat]]
    PROVE  AgeInv(c, r)
<1>1. handed[c] \in [gen : Nat, version : Nat] /\ row.version \in Nat
  BY DEF Rows
<1>2. handed[c].version \in Nat
  BY <1>1
<1>3. handed[c].version <= row.version => handed[c].version <= r.version
  BY <1>1, <1>2
<1> QED
  BY <1>3 DEF AgeInv

\* Rows stay good when refreshes only end and no history grows.
LEMMA RowsStayGood ==
    ASSUME \A u \in Sessions : /\ sess'[u].lease = sess[u].lease
                               /\ Flying(u)' => sess'[u] = sess[u],
           UNCHANGED <<issued, consumed, handed, fenced>>
    PROVE  \A d \in Conns : \A r : GoodRow(d, r) => GoodRow(d, r)'
  BY DEF GoodRow, SealInv, AgeInv, HeldBy, Flying, Issued

\* Secrets are only ever added.
Grows == Issued \subseteq Issued' /\ \A i \in Issued : issued'[i] = issued[i]

\* Rows of other connections stay good, whatever happens on one of them.
LEMMA OthersStayGood ==
    ASSUME NEW c \in Conns, Grows,
           \A u \in Sessions :
               /\ sess'[u].lease = sess[u].lease
               /\ Flying(u)' /\ sess[u].lease.conn # c => sess'[u] = sess[u],
           \A i \in consumed' : i \in consumed \/ (i \in Issued /\ issued[i] = c),
           \A d \in Conns \ {c} : handed'[d] = handed[d] /\ fenced'[d] = fenced[d]
    PROVE  \A d \in Conns \ {c} : \A r : GoodRow(d, r) => GoodRow(d, r)'
<1> SUFFICES ASSUME NEW d \in Conns \ {c}, NEW r, GoodRow(d, r)
             PROVE  GoodRow(d, r)'
  OBVIOUS
<1>1. \A u \in Sessions : HeldBy(u, d)' <=> HeldBy(u, d)
  BY DEF HeldBy
<1>2. \A u \in Sessions : Flying(u)' /\ HeldBy(u, d) => Flying(u) /\ sess'[u] = sess[u]
  BY DEF HeldBy, Flying
<1>3. AgeInv(d, r)'
  BY <1>1 DEF GoodRow, AgeInv
<1>4. SealInv(d, r)'
  BY <1>1, <1>2 DEF GoodRow, SealInv, Grows
<1> QED
  BY <1>3, <1>4 DEF GoodRow

\* A refresh in flight keeps what it knows as long as its row, if it is still
\* its own, is the same.
LEMMA FlightsStay ==
    ASSUME FlightInv, Grows, UNCHANGED consumed,
           \A u \in Sessions : Flying(u)' =>
               /\ sess'[u] = sess[u]
               /\ Ours(u)' => mem'.rows[sess[u].lease.conn] = mem.rows[sess[u].lease.conn]
    PROVE  FlightInv'
<1> SUFFICES ASSUME NEW u \in Sessions, Flying(u)'
             PROVE  Knows(u)'
  BY DEF FlightInv
<1>1. sess'[u] = sess[u] /\ Flying(u)
  BY DEF Flying
<1>2. Ours(u)' => Ours(u) /\ mem'.rows[sess[u].lease.conn] = mem.rows[sess[u].lease.conn]
  BY <1>1 DEF Ours
<1>3. Knows(u)
  BY <1>1 DEF FlightInv
<1> QED
  BY <1>1, <1>2, <1>3 DEF Knows, Grows

\* Nothing is issued in most steps.
LEMMA NothingIssued ==
    ASSUME UNCHANGED issued
    PROVE  Grows
  BY DEF Grows, Issued

\* Two running refreshes are on different connections.
LEMMA AloneOnConnection ==
    ASSUME TypeOK, LockInv
    PROVE  OneRefreshPerConnection
<1> SUFFICES ASSUME NEW t \in Sessions, NEW u \in Sessions, Running(t), Running(u),
                    sess[t].lease.conn = sess[u].lease.conn
             PROVE  t = u
  BY DEF OneRefreshPerConnection
<1>1. sess[t].lock = sess[u].lock
  BY DEF LockInv, Running
<1> QED
  BY <1>1 DEF LockInv
-----------------------------------------------------------------------------
(* The lock, and sessions that come and go *)

\* A refresh that leaves drops its guard and keeps its reference.
LEMMA LeavingKeepsLocks ==
    ASSUME TypeOK, KeyInv, LockInv, NEW t \in Sessions, Running(t),
           sess' = Leaving(t), Unlock(t), UNCHANGED <<vault, checked, table>>
    PROVE  /\ KeyInv' /\ LockInv'
           /\ sess' \in [Sessions -> SessionRecords]
           /\ holder' \in [Locks -> Sessions \cup {NoSession}]
           /\ \A u \in Sessions : /\ sess'[u].lease = sess[u].lease
                                  /\ Flying(u)' => u # t /\ sess'[u] = sess[u]
<1>1. /\ sess' \in [Sessions -> SessionRecords]
      /\ \A u \in Sessions \ {t} : sess'[u] = sess[u]
      /\ sess'[t].at = "leaving"
      /\ sess'[t].lease = sess[t].lease
      /\ sess'[t].lock = sess[t].lock
  BY DEF Leaving, Resting, TypeOK, SessionRecords, Phases, Answers
<1>2. /\ sess[t].lock \in Locks
      /\ holder[sess[t].lock] = t
      /\ sess[t].at # "idle"
  BY DEF LockInv, Running
<1>3. /\ holder' \in [Locks -> Sessions \cup {NoSession}]
      /\ \A l \in Locks : l # sess[t].lock => holder'[l] = holder[l]
  BY <1>2 DEF Unlock, TypeOK
<1>4. KeyInv'
  BY <1>1, <1>2 DEF KeyInv
<1>5. LockInv'
  <2> SUFFICES ASSUME NEW u \in Sessions
               PROVE  /\ sess'[u].at # "idle" =>
                            /\ sess'[u].lease # NoLease
                            /\ sess'[u].lock \in Locks
                            /\ table'[sess'[u].lease.conn] = sess'[u].lock
                      /\ Running(u)' => holder'[sess'[u].lock] = u
    BY DEF LockInv
  <2>1. CASE u = t
    BY <2>1, <1>1, <1>2 DEF LockInv, Running
  <2>2. CASE u # t
    <3>1. sess'[u] = sess[u] /\ (Running(u)' <=> Running(u))
      BY <2>2, <1>1 DEF Running
    <3>2. Running(u) => sess[u].lock # sess[t].lock /\ sess[u].lock \in Locks
      BY <2>2, <1>2 DEF LockInv, Running
    <3> QED
      BY <3>1, <3>2, <1>3 DEF LockInv
  <2> QED
    BY <2>1, <2>2
<1>6. \A u \in Sessions : /\ sess'[u].lease = sess[u].lease
                          /\ Flying(u)' => u # t /\ sess'[u] = sess[u]
  BY <1>1 DEF Flying
<1> QED
  BY <1>1, <1>3, <1>4, <1>5, <1>6

\* Leaving after a write to the refresh's own connection: the other refreshes in
\* flight are on other connections.
LEMMA LeavingKeepsFlights ==
    ASSUME TypeOK, LockInv, FlightInv, NEW t \in Sessions, Running(t), NEW RS,
           sess' = Leaving(t), Wrote(sess[t].lease.conn, RS),
           UNCHANGED <<issued, consumed>>
    PROVE  FlightInv'
<1>1. \A u \in Sessions : Flying(u)' => u # t /\ sess'[u] = sess[u]
  BY DEF Leaving, Resting, TypeOK, SessionRecords, Flying
<1>2. ASSUME NEW u \in Sessions, Flying(u)'
      PROVE  mem'.rows[sess[u].lease.conn] = mem.rows[sess[u].lease.conn]
  <2>1. u # t /\ Running(u)
    BY <1>1, <1>2 DEF Flying, Running
  <2>2. sess[u].lease.conn # sess[t].lease.conn
    BY <2>1, AloneOnConnection DEF OneRefreshPerConnection
  <2>3. sess[u].lease \in Leases
    BY <2>1 DEF LockInv, Running, TypeOK, SessionRecords
  <2> QED
    BY <2>2, <2>3 DEF Wrote, Leases
<1> QED
  BY <1>1, <1>2, FlightsStay, NothingIssued

\* Releasing a lock nobody else refers to leaves every other session its own.
LEMMA ReleaseStep ==
    ASSUME RefreshInv, NEW t \in Sessions, RefreshRelease(t)
    PROVE  RefreshInv'
<1> USE DEF RefreshInv
<1>1. /\ sess' \in [Sessions -> SessionRecords]
      /\ \A u \in Sessions \ {t} : sess'[u] = sess[u]
      /\ sess'[t].at = "idle"
      /\ sess'[t].lease = sess[t].lease
  BY DEF RefreshRelease, Idle, Resting, TypeOK, SessionRecords, Phases, Answers
<1>2. sess[t].lease \in Leases /\ sess[t].at # "idle"
  BY DEF RefreshRelease, LockInv, TypeOK, SessionRecords
<1>3. TypeOK'
  BY <1>1, <1>2 DEF RefreshRelease, TypeOK, Leases, Issued
<1>4. LockInv'
  <2> SUFFICES ASSUME NEW u \in Sessions, sess'[u].at # "idle"
               PROVE  /\ sess'[u].lease # NoLease
                      /\ sess'[u].lock \in Locks
                      /\ table'[sess'[u].lease.conn] = sess'[u].lock
                      /\ Running(u)' => holder'[sess'[u].lock] = u
    BY DEF LockInv, Running
  <2>1. u # t /\ sess'[u] = sess[u] /\ (Running(u)' <=> Running(u))
    BY <1>1 DEF Running
  <2>2. sess[u].lease.conn \in Conns
    BY <2>1 DEF LockInv, TypeOK, SessionRecords, Leases
  <2>3. table'[sess[u].lease.conn] = table[sess[u].lease.conn]
    <3>1. CASE sess[u].lease.conn = sess[t].lease.conn
      BY <2>1, <3>1 DEF RefreshRelease, Unused, Refs, LockInv, TypeOK
    <3>2. CASE sess[u].lease.conn # sess[t].lease.conn
      BY <2>2, <3>2 DEF RefreshRelease, TypeOK
    <3> QED
      BY <3>1, <3>2
  <2> QED
    BY <2>1, <2>3 DEF LockInv, RefreshRelease
<1>5. KeyInv'
  BY <1>1, <1>2 DEF KeyInv, RefreshRelease
<1>6. \A u \in Sessions : /\ sess'[u].lease = sess[u].lease
                          /\ Flying(u)' => sess'[u] = sess[u]
  BY <1>1 DEF Flying
<1>7. RowsInv'
  BY <1>6, RowsStayGood DEF RowsInv, RefreshRelease
<1>8. AheadInv'
  BY DEF AheadInv, RefreshRelease
<1>9. FlightInv'
  BY <1>6, FlightsStay, NothingIssued DEF RefreshRelease
<1> QED
  BY <1>3, <1>4, <1>5, <1>7, <1>8, <1>9

\* for_connection: a session that finds a lock in the table shares it.
LEMMA AskStep ==
    ASSUME RefreshInv, NEW t \in Sessions, RefreshAsk(t)
    PROVE  RefreshInv'
<1> USE DEF RefreshInv
<1> DEFINE c == sess[t].lease.conn
<1>1. PICK l \in Locks :
          /\ table[c] # NoLock => l = table[c]
          /\ table' = [table EXCEPT ![c] = l]
          /\ sess' = [sess EXCEPT ![t].at = "waiting", ![t].lock = l]
  BY DEF RefreshAsk
<1>2. c \in Conns /\ sess[t].lease # NoLease
  BY DEF RefreshAsk, TypeOK, SessionRecords, Leases
<1>3. /\ sess' \in [Sessions -> SessionRecords]
      /\ \A u \in Sessions \ {t} : sess'[u] = sess[u]
      /\ sess'[t].at = "waiting"
      /\ sess'[t].lock = l
      /\ sess'[t].lease = sess[t].lease
  <2>1. sess[t] \in SessionRecords
    BY DEF TypeOK
  <2>2. [sess[t] EXCEPT !.at = "waiting", !.lock = l] \in SessionRecords
    BY <2>1 DEF SessionRecords, Phases
  <2>3. sess' = [sess EXCEPT ![t] = [sess[t] EXCEPT !.at = "waiting", !.lock = l]]
    BY <1>1 DEF TypeOK
  <2> QED
    BY <2>1, <2>2, <2>3 DEF TypeOK, SessionRecords
<1>4. TypeOK'
  BY <1>1, <1>2, <1>3 DEF RefreshAsk, TypeOK, Issued
<1>5. LockInv'
  <2> SUFFICES ASSUME NEW u \in Sessions, sess'[u].at # "idle"
               PROVE  /\ sess'[u].lease # NoLease
                      /\ sess'[u].lock \in Locks
                      /\ table'[sess'[u].lease.conn] = sess'[u].lock
                      /\ Running(u)' => holder'[sess'[u].lock] = u
    BY DEF LockInv, Running
  <2>1. CASE u = t
    BY <2>1, <1>1, <1>2, <1>3 DEF Running, TypeOK
  <2>2. CASE u # t
    <3>1. sess'[u] = sess[u] /\ (Running(u)' <=> Running(u))
      BY <2>2, <1>3 DEF Running
    <3>2. sess[u].lease.conn \in Conns
      BY <3>1 DEF LockInv, TypeOK, SessionRecords, Leases
    <3>3. table'[sess[u].lease.conn] = sess[u].lock
      BY <3>1, <3>2, <1>1, <1>2, MarkersAreDistinct DEF LockInv, TypeOK
    <3> QED
      BY <3>1, <3>3 DEF LockInv, RefreshAsk
  <2> QED
    BY <2>1, <2>2
<1>6. KeyInv'
  BY <1>3 DEF KeyInv, RefreshAsk
<1>7. \A u \in Sessions : /\ sess'[u].lease = sess[u].lease
                          /\ Flying(u)' => sess'[u] = sess[u]
  BY <1>3 DEF Flying
<1>8. RowsInv' /\ AheadInv'
  BY <1>7, RowsStayGood DEF RowsInv, AheadInv, RefreshAsk
<1>9. FlightInv'
  BY <1>7, FlightsStay, NothingIssued DEF RefreshAsk
<1> QED
  BY <1>4, <1>5, <1>6, <1>8, <1>9

\* A session that moves to another phase keeps the rest.
LEMMA PhaseStep ==
    ASSUME sess \in [Sessions -> SessionRecords], NEW t \in Sessions, NEW phase \in Phases,
           sess' = [sess EXCEPT ![t].at = phase]
    PROVE  /\ sess' \in [Sessions -> SessionRecords]
           /\ \A u \in Sessions \ {t} : sess'[u] = sess[u]
           /\ sess'[t].at = phase
           /\ sess'[t].lock = sess[t].lock
           /\ sess'[t].lease = sess[t].lease
<1>1. sess'[t] = [sess[t] EXCEPT !.at = phase] /\ sess[t] \in SessionRecords
  OBVIOUS
<1>2. [sess[t] EXCEPT !.at = phase] \in SessionRecords
  BY <1>1 DEF SessionRecords
<1> QED
  BY <1>1, <1>2 DEF SessionRecords

\* try_lock_for: a free lock has no running refresh behind it.
LEMMA EnterStep ==
    ASSUME RefreshInv, NEW t \in Sessions, RefreshEnter(t)
    PROVE  RefreshInv'
<1> USE DEF RefreshInv
<1>1. /\ sess' \in [Sessions -> SessionRecords]
      /\ \A u \in Sessions \ {t} : sess'[u] = sess[u]
      /\ sess'[t].at = "entered"
      /\ sess'[t].lock = sess[t].lock
      /\ sess'[t].lease = sess[t].lease
  BY PhaseStep DEF RefreshEnter, TypeOK, Phases
<1>2. sess[t].lock \in Locks /\ sess[t].at = "waiting"
  BY DEF RefreshEnter, LockInv
<1>3. TypeOK'
  BY <1>1, <1>2 DEF RefreshEnter, TypeOK, Issued
<1>4. LockInv'
  <2> SUFFICES ASSUME NEW u \in Sessions, sess'[u].at # "idle"
               PROVE  /\ sess'[u].lease # NoLease
                      /\ sess'[u].lock \in Locks
                      /\ table'[sess'[u].lease.conn] = sess'[u].lock
                      /\ Running(u)' => holder'[sess'[u].lock] = u
    BY DEF LockInv, Running
  <2>1. CASE u = t
    BY <2>1, <1>1, <1>2 DEF LockInv, RefreshEnter, TypeOK
  <2>2. CASE u # t
    <3>1. sess'[u] = sess[u] /\ (Running(u)' <=> Running(u))
      BY <2>2, <1>1 DEF Running
    <3>2. Running(u) => sess[u].lock # sess[t].lock
      BY MarkersAreDistinct DEF LockInv, RefreshEnter
    <3> QED
      BY <3>1, <3>2, <1>2 DEF LockInv, RefreshEnter, TypeOK
  <2> QED
    BY <2>1, <2>2
<1>5. KeyInv'
  BY <1>1, <1>2 DEF KeyInv, RefreshEnter
<1>6. \A u \in Sessions : /\ sess'[u].lease = sess[u].lease
                          /\ Flying(u)' => sess'[u] = sess[u]
  BY <1>1 DEF Flying
<1>7. RowsInv' /\ AheadInv'
  BY <1>6, RowsStayGood DEF RowsInv, AheadInv, RefreshEnter
<1>8. FlightInv'
  BY <1>6, FlightsStay, NothingIssued DEF RefreshEnter
<1> QED
  BY <1>3, <1>4, <1>5, <1>7, <1>8

\* connection_busy: a waiter gives up and leaves every row alone.
LEMMA BusyStep ==
    ASSUME RefreshInv, NEW t \in Sessions, RefreshBusy(t)
    PROVE  RefreshInv'
<1> USE DEF RefreshInv
<1>1. /\ sess' \in [Sessions -> SessionRecords]
      /\ \A u \in Sessions \ {t} : sess'[u] = sess[u]
      /\ sess'[t].at = "leaving"
      /\ sess'[t].lock = sess[t].lock
      /\ sess'[t].lease = sess[t].lease
  BY PhaseStep DEF RefreshBusy, TypeOK, Phases
<1>2. sess[t].at = "waiting"
  BY DEF RefreshBusy
<1>3. TypeOK'
  BY <1>1 DEF RefreshBusy, TypeOK, Issued
<1>4. LockInv' /\ KeyInv'
  BY <1>1, <1>2 DEF LockInv, KeyInv, RefreshBusy, Running
<1>5. \A u \in Sessions : /\ sess'[u].lease = sess[u].lease
                          /\ Flying(u)' => sess'[u] = sess[u]
  BY <1>1 DEF Flying
<1>6. RowsInv' /\ AheadInv'
  BY <1>5, RowsStayGood DEF RowsInv, AheadInv, RefreshBusy
<1>7. FlightInv'
  BY <1>5, FlightsStay, NothingIssued DEF RefreshBusy
<1> QED
  BY <1>3, <1>4, <1>6, <1>7

\* A refresh refused, or superseded by a disconnect or a reconnect, writes nothing.
LEMMA NothingWrittenStep ==
    ASSUME RefreshInv, NEW t \in Sessions, RefreshRefused(t) \/ CommitSuperseded(t)
    PROVE  RefreshInv'
<1> USE DEF RefreshInv
<1>1. /\ Running(t)
      /\ sess' = Leaving(t)
      /\ Unlock(t)
      /\ UNCHANGED <<mem, disk, services, vault, checked, table, issued, consumed,
                     handed, fenced>>
  BY DEF RefreshRefused, CommitSuperseded, Running
<1>2. /\ KeyInv' /\ LockInv'
      /\ sess' \in [Sessions -> SessionRecords]
      /\ holder' \in [Locks -> Sessions \cup {NoSession}]
      /\ \A u \in Sessions : /\ sess'[u].lease = sess[u].lease
                             /\ Flying(u)' => u # t /\ sess'[u] = sess[u]
  BY <1>1, LeavingKeepsLocks
<1>3. TypeOK'
  BY <1>1, <1>2 DEF TypeOK, Issued
<1>4. RowsInv' /\ AheadInv'
  BY <1>1, <1>2, RowsStayGood DEF RowsInv, AheadInv
<1>5. FlightInv'
  BY <1>1, <1>2, FlightsStay, NothingIssued
<1> QED
  BY <1>2, <1>3, <1>4, <1>5
-----------------------------------------------------------------------------
(* Steps that write a row *)

\* A refresh that writes rows of its own connection, at the generation it
\* found, and leaves.
LEMMA LeavingAfterWrite ==
    ASSUME RefreshInv, NEW t \in Sessions, Running(t),
           NEW c \in Conns, c = sess[t].lease.conn,
           NEW RS \in SUBSET Rows, Wrote(c, RS),
           sess' = Leaving(t), Unlock(t),
           mem.rows[c] # Absent,
           \A r \in RS : r.gen = mem.rows[c].gen,
           \A r \in RS : GoodRow(c, r)',
           UNCHANGED <<services, vault, checked, table, issued, consumed, fenced>>,
           handed' \in [Conns -> [gen : Nat, version : Nat]],
           \A d \in Conns : \A r : GoodRow(d, r) => GoodRow(d, r)'
    PROVE  RefreshInv'
<1> USE DEF RefreshInv
<1>1. /\ KeyInv' /\ LockInv'
      /\ sess' \in [Sessions -> SessionRecords]
      /\ holder' \in [Locks -> Sessions \cup {NoSession}]
  BY LeavingKeepsLocks
<1>2. TypeOK'
  BY <1>1 DEF TypeOK, Issued, Wrote
<1>4. RowsInv'
  BY RowsAfterWrite
<1>5. AheadInv'
  <2> SUFFICES ASSUME NEW d \in Conns, mem'.rows[d] # Absent
               PROVE  disk'.rows[d] # Absent /\ mem'.rows[d].gen <= disk'.rows[d].gen
    BY DEF AheadInv
  <2>1. mem.rows[d] # Absent /\ mem'.rows[d].gen = mem.rows[d].gen
    BY DEF Wrote
  <2>2. mem.rows[d] \in Rows /\ mem.rows[d].gen \in Nat
    BY <2>1 DEF TypeOK, States, Rows
  <2>3. disk.rows[d] # Absent /\ mem.rows[d].gen <= disk.rows[d].gen
    BY <2>1 DEF AheadInv
  <2> QED
    BY <2>1, <2>2, <2>3, MarkersAreDistinct DEF Wrote
<1>6. FlightInv'
  BY LeavingKeepsFlights
<1> QED
  BY <1>1, <1>2, <1>4, <1>5, <1>6

\* A fenced row is as old as the row it fences, and holds no secret.
LEMMA FencedIsGood ==
    ASSUME NEW c \in Conns, NEW row \in Rows, GoodRow(c, row)
    PROVE  Fenced(row) \in Rows /\ Fenced(row).gen = row.gen /\ GoodRow(c, Fenced(row))
<1>1. /\ Fenced(row) \in Rows
      /\ Fenced(row).gen = row.gen
      /\ Fenced(row).version = row.version
      /\ Fenced(row).sealed = NoSecret
      /\ Fenced(row).state = "auth_required"
  BY DEF Fenced, Rows
<1>2. Fenced(row) # Absent
  BY <1>1, MarkersAreDistinct
<1> QED
  BY <1>1, <1>2 DEF GoodRow, SealInv, AgeInv

\* Sessions in the middle of refresh_locked hold a lease on a known connection.
LEMMA RunningRow ==
    ASSUME RefreshInv, NEW t \in Sessions, Running(t)
    PROVE  \E c \in Conns : \E row \in Rows :
               /\ c = sess[t].lease.conn
               /\ row = mem.rows[c]
               /\ row # Absent
               /\ GoodRow(c, row)
               /\ HeldBy(t, c)
<1> USE DEF RefreshInv
<1>1. sess[t].lease \in Leases /\ sess[t].lease # NoLease
  BY DEF LockInv, Running, TypeOK, SessionRecords
<1>2. sess[t].lease.conn \in Conns
  BY <1>1 DEF Leases
<1>3. GoodRow(sess[t].lease.conn, mem.rows[sess[t].lease.conn])
  BY <1>2 DEF RowsInv
<1>4. mem.rows[sess[t].lease.conn] # Absent
  BY <1>1, <1>2, <1>3 DEF GoodRow, AgeInv, HeldBy
<1> QED
  BY <1>1, <1>2, <1>3, <1>4 DEF TypeOK, States, HeldBy

\* What leaving does to the other refreshes' view of a row.
LEMMA LeavingKeepsGood ==
    ASSUME RefreshInv, NEW t \in Sessions, Running(t), sess' = Leaving(t),
           UNCHANGED <<issued, consumed, handed, fenced>>
    PROVE  \A d \in Conns : \A r : GoodRow(d, r) => GoodRow(d, r)'
<1>1. \A u \in Sessions : /\ sess'[u].lease = sess[u].lease
                          /\ Flying(u)' => sess'[u] = sess[u]
  BY DEF RefreshInv, Leaving, Resting, TypeOK, SessionRecords, Flying
<1> QED
  BY <1>1, RowsStayGood

\* Once a refresh leaves, none is in flight on its connection.
LEMMA NoneLeftBehind ==
    ASSUME RefreshInv, NEW t \in Sessions, Running(t), sess' = Leaving(t),
           NEW c \in Conns, c = sess[t].lease.conn
    PROVE  \A u \in Sessions : ~(Flying(u)' /\ HeldBy(u, c)')
<1> SUFFICES ASSUME NEW u \in Sessions, Flying(u)', sess'[u].lease.conn = c
             PROVE  FALSE
  BY DEF HeldBy
<1>1. u # t /\ sess'[u] = sess[u]
  BY DEF RefreshInv, Leaving, Resting, TypeOK, SessionRecords, Flying
<1> QED
  BY <1>1, AloneOnConnection DEF RefreshInv, OneRefreshPerConnection, Flying, Running

\* Step 4, and the fences of step 7: the connection loses its secret.
LEMMA FenceStep ==
    ASSUME RefreshInv, NEW t \in Sessions, NEW how \in Writes,
           RefreshFindsMarker(t, how) \/ CommitFence(t, how)
    PROVE  RefreshInv'
<1>1. /\ Running(t)
      /\ sess' = Leaving(t)
      /\ Unlock(t)
      /\ UNCHANGED <<services, vault, checked, table, issued, consumed, handed, fenced>>
  BY DEF RefreshFindsMarker, CommitFence, Running
<1>2. PICK c \in Conns, row \in Rows :
          c = sess[t].lease.conn /\ row = mem.rows[c] /\ row # Absent /\ GoodRow(c, row)
  BY <1>1, RunningRow
<1>3. PICK f \in Rows : f = Fenced(row) /\ f.gen = row.gen /\ GoodRow(c, f)
  BY <1>2, FencedIsGood
<1>4. Wrote(c, {f})
  <2>1. CASE RefreshFindsMarker(t, how)
    BY <2>1, <1>2, <1>3, MutationWrites DEF RefreshFindsMarker, RefreshInv, TypeOK
  <2>2. CASE CommitFence(t, how)
    <3>1. mem' = With(c, f) /\ disk' \in {disk, With(c, f)}
      BY <2>2, <1>2, <1>3 DEF CommitFence, PersistFence
    <3> QED
      BY <3>1, <1>2, <1>3, FenceWrites DEF RefreshInv, TypeOK
  <2> QED
    BY <2>1, <2>2
<1>5. \A d \in Conns : \A r : GoodRow(d, r) => GoodRow(d, r)'
  BY <1>1, LeavingKeepsGood
<1>6. GoodRow(c, f)'
  BY <1>3, <1>5
<1>7. handed' \in [Conns -> [gen : Nat, version : Nat]]
  BY <1>1 DEF RefreshInv, TypeOK
<1>8. /\ \A q \in {f} : q.gen = mem.rows[c].gen
      /\ \A q \in {f} : GoodRow(c, q)'
      /\ {f} \in SUBSET Rows
  BY <1>2, <1>3, <1>6
<1> QED
  BY <1>1, <1>2, <1>4, <1>5, <1>7, <1>8, LeavingAfterWrite

\* Step 7, unchanged: the marker goes, and the secret is not spent.
LEMMA UnchangedStep ==
    ASSUME RefreshInv, NEW t \in Sessions, NEW how \in Writes, CommitUnchanged(t, how)
    PROVE  RefreshInv'
<1>1. /\ Running(t) /\ Flying(t)
      /\ sess' = Leaving(t)
      /\ Unlock(t)
      /\ UNCHANGED <<services, vault, checked, table, issued, consumed, handed, fenced>>
  BY DEF CommitUnchanged, Running, Flying
<1>2. PICK c \in Conns, row \in Rows :
          c = sess[t].lease.conn /\ row = mem.rows[c] /\ row # Absent /\ GoodRow(c, row)
  BY <1>1, RunningRow
<1>3. PICK r \in Rows : r = [row EXCEPT !.rotation = NoRotation]
  BY <1>2 DEF Rows
<1>4. /\ r.gen = row.gen /\ r.version = row.version /\ r.state = row.state
      /\ r.sealed = row.sealed /\ r.kind = row.kind
      /\ r # Absent
  BY <1>3, MarkersAreDistinct DEF Rows
<1>5. Wrote(c, {r})
  BY <1>1, <1>2, <1>3, MutationWrites DEF CommitUnchanged, RefreshInv, TypeOK
<1>6. \A d \in Conns : \A q : GoodRow(d, q) => GoodRow(d, q)'
  BY <1>1, LeavingKeepsGood
<1>7. row.sealed # NoSecret /\ row.sealed.secret \notin consumed
  BY <1>1, <1>2 DEF RefreshInv, FlightInv, Knows, CommitUnchanged
<1>8. \A u \in Sessions : ~(Flying(u)' /\ HeldBy(u, c)')
  BY <1>1, <1>2, NoneLeftBehind
<1>9. GoodRow(c, r)'
  <2>1. GoodRow(c, row)'
    BY <1>2, <1>6
  <2> QED
    BY <2>1, <1>1, <1>2, <1>4, <1>7, <1>8 DEF GoodRow, SealInv, AgeInv
<1>10. handed' \in [Conns -> [gen : Nat, version : Nat]]
  BY <1>1 DEF RefreshInv, TypeOK
<1>11. /\ \A q \in {r} : q.gen = mem.rows[c].gen
       /\ \A q \in {r} : GoodRow(c, q)'
       /\ {r} \in SUBSET Rows
  BY <1>2, <1>4, <1>9
<1> QED
  BY <1>1, <1>2, <1>5, <1>6, <1>10, <1>11, LeavingAfterWrite

\* A row with the marker of step 5 is as good as the row it marks.
LEMMA MarkedIsGood ==
    ASSUME RefreshInv, NEW c \in Conns, NEW row \in Rows, GoodRow(c, row)
    PROVE  \E r \in Rows :
               /\ r = [row EXCEPT !.rotation = row.version]
               /\ r.gen = row.gen /\ r.version = row.version /\ r.state = row.state
               /\ r.sealed = row.sealed /\ r.kind = row.kind
               /\ r.rotation = row.version
               /\ r # Absent
               /\ r.rotation # NoRotation
               /\ GoodRow(c, r)
<1>1. PICK r \in Rows : r = [row EXCEPT !.rotation = row.version]
  BY DEF Rows
<1>2. /\ r.gen = row.gen /\ r.version = row.version /\ r.state = row.state
      /\ r.sealed = row.sealed /\ r.kind = row.kind
      /\ r.rotation = row.version
      /\ row.version \in Nat
      /\ r # Absent /\ row # Absent
  BY <1>1, MarkersAreDistinct DEF Rows
<1>3. r.rotation # NoRotation
  BY <1>2, MarkersAreDistinct
<1>4. GoodRow(c, r)
  BY <1>2, <1>3 DEF GoodRow, SealInv, AgeInv
<1> QED
  BY <1>1, <1>2, <1>3, <1>4

\* Step 5, not written: the marker may be in the database, and the secret was not
\* shown to the provider.
LEMMA MarkFailedStep ==
    ASSUME RefreshInv, NEW t \in Sessions, NEW how \in Writes, RefreshMark(t, how),
           how # "saved"
    PROVE  RefreshInv'
<1>1. /\ Running(t)
      /\ sess' = Leaving(t)
      /\ Unlock(t)
      /\ UNCHANGED <<services, vault, checked, table, issued, consumed, handed, fenced>>
  BY DEF RefreshMark, MarkRotation, Running
<1>2. PICK c \in Conns, row \in Rows :
          c = sess[t].lease.conn /\ row = mem.rows[c] /\ row # Absent /\ GoodRow(c, row)
  BY <1>1, RunningRow
<1>3. PICK r \in Rows : /\ r = [row EXCEPT !.rotation = row.version]
                        /\ r.gen = row.gen
                        /\ GoodRow(c, r)
  BY <1>2, MarkedIsGood
<1>4. Wrote(c, {r})
  BY <1>2, <1>3, MutationWrites DEF RefreshMark, MarkRotation, RefreshInv, TypeOK
<1>5. \A d \in Conns : \A q : GoodRow(d, q) => GoodRow(d, q)'
  BY <1>1, LeavingKeepsGood
<1>6. GoodRow(c, r)' /\ r.gen = row.gen
  BY <1>3, <1>5
<1>7. handed' \in [Conns -> [gen : Nat, version : Nat]]
  BY <1>1 DEF RefreshInv, TypeOK
<1>8. /\ \A q \in {r} : q.gen = mem.rows[c].gen
      /\ \A q \in {r} : GoodRow(c, q)'
      /\ {r} \in SUBSET Rows
  BY <1>2, <1>6
<1> QED
  BY <1>1, <1>2, <1>4, <1>5, <1>7, <1>8, LeavingAfterWrite

\* Step 5, written: from here on both the memory and the database carry the
\* marker, and the session holds the row's secret.
LEMMA MarkSavedStep ==
    ASSUME RefreshInv, NEW t \in Sessions, RefreshMark(t, "saved")
    PROVE  RefreshInv'
<1> USE DEF RefreshInv
<1>1. /\ Running(t) /\ sess[t].at = "entered"
      /\ sess' = Asking(t)
      /\ UNCHANGED <<holder, services, vault, checked, table, issued, consumed, handed,
                     fenced>>
      /\ LiveRecord(sess[t].lease)
      /\ Opens(mem.rows[sess[t].lease.conn])
      /\ mem.rows[sess[t].lease.conn].rotation = NoRotation
  BY DEF RefreshMark, MarkRotation, Running
<1>2. PICK c \in Conns, row \in Rows : /\ c = sess[t].lease.conn
                                       /\ row = mem.rows[c]
                                       /\ row # Absent
                                       /\ GoodRow(c, row)
                                       /\ HeldBy(t, c)
  BY <1>1, RunningRow
<1>3. PICK r \in Rows : /\ r = [row EXCEPT !.rotation = row.version]
                        /\ r.gen = row.gen /\ r.version = row.version
                        /\ r.state = row.state
                        /\ r.sealed = row.sealed /\ r.kind = row.kind
                        /\ r.rotation = row.version
                        /\ r # Absent
                        /\ r.rotation # NoRotation
                        /\ GoodRow(c, r)
  BY <1>2, MarkedIsGood
<1>4. mem' = With(c, r) /\ disk' = With(c, r)
  BY <1>2, <1>3 DEF RefreshMark, MarkRotation, PersistAfterMutation
<1>5. row.sealed \in Seals /\ row.sealed # NoSecret /\ row.sealed.secret \in Nat
  BY <1>1, <1>2 DEF Opens, Rows, Seals
<1>6. /\ sess' \in [Sessions -> SessionRecords]
      /\ \A u \in Sessions \ {t} : sess'[u] = sess[u]
      /\ sess'[t].at = "asking"
      /\ sess'[t].lock = sess[t].lock
      /\ sess'[t].lease = sess[t].lease
      /\ sess'[t].version = row.version
      /\ sess'[t].secret = row.sealed.secret
      /\ sess'[t].answer = "none"
  BY <1>1, <1>2, <1>5 DEF Asking, TypeOK, SessionRecords, Phases, Answers, Rows
<1>7. mem' \in States /\ disk' \in States /\ mem'.rows[c] = r
  BY <1>4, WithRow DEF TypeOK
<1>8. TypeOK'
  BY <1>1, <1>6, <1>7 DEF TypeOK, Issued
<1>9. LockInv' /\ KeyInv'
  BY <1>1, <1>6 DEF LockInv, KeyInv, Running
<1>10. \A u \in Sessions : HeldBy(u, c)' /\ Flying(u)' => u = t
  <2> SUFFICES ASSUME NEW u \in Sessions, Flying(u)', sess'[u].lease.conn = c, u # t
               PROVE  FALSE
    BY DEF HeldBy
  <2>1. sess'[u] = sess[u]
    BY <1>6
  <2> QED
    BY <2>1, <1>1, <1>2, AloneOnConnection DEF OneRefreshPerConnection, Flying, Running
<1>11. RowsInv'
  <2>1. \A d \in Conns \ {c} : \A q : GoodRow(d, q) => GoodRow(d, q)'
    <3>1. \A u \in Sessions :
              /\ sess'[u].lease = sess[u].lease
              /\ Flying(u)' /\ sess[u].lease.conn # c => sess'[u] = sess[u]
      BY <1>2, <1>6
    <3>2. \A i \in consumed' : i \in consumed
      BY <1>1
    <3>3. \A d \in Conns \ {c} : handed'[d] = handed[d] /\ fenced'[d] = fenced[d]
      BY <1>1
    <3>4. Grows
      BY <1>1, NothingIssued
    <3> QED
      BY <3>1, <3>2, <3>3, <3>4, OthersStayGood
  <2>2. GoodRow(c, r)'
    <3>1. \A u \in Sessions : HeldBy(u, c)' <=> HeldBy(u, c)
      BY <1>6 DEF HeldBy
    <3>2. AgeInv(c, r)'
      BY <3>1, <1>1, <1>3, <1>6 DEF GoodRow, AgeInv
    <3>3. SealInv(c, r)'
      BY <1>1, <1>3, <1>6, <1>10 DEF GoodRow, SealInv, Issued
    <3> QED
      BY <3>2, <3>3 DEF GoodRow
  <2> QED
    BY <2>1, <2>2, <1>4, RowsAfterSave
<1>12. AheadInv'
  BY <1>4, <1>7, AheadAfterSave
<1>13. FlightInv'
  <2> SUFFICES ASSUME NEW u \in Sessions, Flying(u)'
               PROVE  Knows(u)'
    BY DEF FlightInv
  <2>1. CASE u = t
    <3>1. row.sealed.secret \in Issued /\ issued[row.sealed.secret] = c
      BY <1>2, <1>5 DEF GoodRow, SealInv
    <3>2. row.sealed.secret \notin consumed
      BY <1>1, <1>2, <1>5 DEF GoodRow, SealInv
    <3>3. mem'.rows[sess'[t].lease.conn] = r
      BY <1>2, <1>6, <1>7
    <3>4. sess'[t].secret \in Issued' /\ issued'[sess'[t].secret] = sess'[t].lease.conn
      BY <3>1, <1>1, <1>2, <1>6 DEF Issued
    <3> QED
      BY <2>1, <3>2, <3>3, <3>4, <1>1, <1>3, <1>5, <1>6 DEF Knows
  <2>2. CASE u # t
    <3>1. sess'[u] = sess[u] /\ Flying(u) /\ Running(u)
      BY <2>2, <1>6 DEF Flying, Running
    <3>2. sess[u].lease.conn # c /\ sess[u].lease.conn \in Conns
      BY <2>2, <3>1, <1>1, <1>2, AloneOnConnection
         DEF OneRefreshPerConnection, LockInv, Running, TypeOK, SessionRecords, Leases
    <3>3. mem'.rows[sess[u].lease.conn] = mem.rows[sess[u].lease.conn]
      BY <3>2, <1>4, WithRow DEF TypeOK
    <3>4. Knows(u)
      BY <3>1 DEF FlightInv
    <3> QED
      BY <3>1, <3>3, <3>4, <1>1 DEF Knows, Ours, Issued
  <2> QED
    BY <2>1, <2>2
<1> QED
  BY <1>8, <1>9, <1>11, <1>12, <1>13

\* Step 6: the provider spends the secret in flight and no other, and what it
\* issues is in no row yet.
LEMMA AnswerStep ==
    ASSUME RefreshInv, NEW t \in Sessions, NEW answer \in Answers, NEW spends \in BOOLEAN,
           ProviderAnswers(t, answer, spends)
    PROVE  RefreshInv'
<1> USE DEF RefreshInv
<1>1. /\ Running(t) /\ Flying(t) /\ sess[t].at = "asking"
      /\ UNCHANGED <<mem, disk, services, vault, checked, table, holder, handed, fenced>>
  BY DEF ProviderAnswers, Running, Flying
<1>2. PICK c \in Conns : c = sess[t].lease.conn /\ HeldBy(t, c)
  BY <1>1, RunningRow
<1>3. PICK fresh \in Nat : fresh = IF answer = "rotated" THEN Len(issued) + 1 ELSE 0
  BY DEF TypeOK
<1>4. /\ sess' \in [Sessions -> SessionRecords]
      /\ \A u \in Sessions \ {t} : sess'[u] = sess[u]
      /\ sess'[t].at = "answered"
      /\ sess'[t].answer = answer
      /\ sess'[t].fresh = fresh
      /\ sess'[t].lock = sess[t].lock
      /\ sess'[t].lease = sess[t].lease
      /\ sess'[t].version = sess[t].version
      /\ sess'[t].secret = sess[t].secret
  <2>1. sess[t] \in SessionRecords
    BY DEF TypeOK
  <2>2. sess' = [sess EXCEPT ![t] = [sess[t] EXCEPT !.at = "answered", !.answer = answer,
                                                    !.fresh = fresh]]
    BY <1>3 DEF ProviderAnswers, TypeOK
  <2>3. [sess[t] EXCEPT !.at = "answered", !.answer = answer, !.fresh = fresh]
            \in SessionRecords
    BY <2>1 DEF SessionRecords, Phases
  <2> QED
    BY <2>1, <2>2, <2>3 DEF TypeOK, SessionRecords
<1>5. /\ Grows
      /\ issued' \in Seq(Conns)
      /\ answer = "rotated" => /\ fresh \in Issued' /\ fresh \notin Issued
                               /\ issued'[fresh] = c
  BY <1>2, <1>3 DEF ProviderAnswers, TypeOK, Grows, Issued
<1>6. Knows(t)
  BY <1>1 DEF FlightInv
<1>7. /\ sess[t].secret \in Issued /\ issued[sess[t].secret] = c
      /\ sess[t].secret \notin consumed
  BY <1>1, <1>2, <1>6 DEF Knows
<1>8. consumed' \in {consumed, consumed \cup {sess[t].secret}}
  BY DEF ProviderAnswers
<1>9. answer = "unchanged" => sess[t].secret \notin consumed'
  BY <1>7 DEF ProviderAnswers
<1>10. TypeOK'
  BY <1>1, <1>4, <1>5, <1>7, <1>8 DEF TypeOK, Grows
<1>11. LockInv' /\ KeyInv'
  BY <1>1, <1>4 DEF LockInv, KeyInv, Running
<1>12. ASSUME NEW u \in Sessions, u # t, Flying(u)'
       PROVE  sess'[u] = sess[u] /\ Flying(u) /\ Running(u) /\ sess[u].lease.conn # c
  BY <1>1, <1>2, <1>4, <1>12, AloneOnConnection
     DEF OneRefreshPerConnection, Flying, Running
<1>13. \A d \in Conns \ {c} : \A r : GoodRow(d, r) => GoodRow(d, r)'
  <2>1. \A u \in Sessions :
            /\ sess'[u].lease = sess[u].lease
            /\ Flying(u)' /\ sess[u].lease.conn # c => sess'[u] = sess[u]
    BY <1>2, <1>4
  <2>2. \A i \in consumed' : i \in consumed \/ (i \in Issued /\ issued[i] = c)
    BY <1>7, <1>8
  <2>3. \A d \in Conns \ {c} : handed'[d] = handed[d] /\ fenced'[d] = fenced[d]
    BY <1>1
  <2> QED
    BY <2>1, <2>2, <2>3, <1>5, OthersStayGood
<1>14. ASSUME NEW r, GoodRow(c, r)
       PROVE  GoodRow(c, r)'
  <2>1. \A u \in Sessions : HeldBy(u, c)' <=> HeldBy(u, c)
    BY <1>4 DEF HeldBy
  <2>2. AgeInv(c, r)'
    BY <1>14, <2>1, <1>1, <1>4 DEF GoodRow, AgeInv
  <2>3. \A u \in Sessions : Flying(u)' /\ HeldBy(u, c)' => u = t
    BY <1>12, <2>1 DEF HeldBy
  <2>4. r # Absent /\ r.sealed # NoSecret =>
           /\ r.sealed.secret \in Issued
           /\ r.sealed.secret = sess[t].secret => r.rotation # NoRotation
    BY <1>14, <1>1, <1>2 DEF GoodRow, SealInv
  <2>5. r # Absent /\ r.sealed # NoSecret =>
           /\ r.sealed.secret \in consumed' => r.rotation # NoRotation
           /\ answer = "rotated" => r.sealed.secret # fresh
    BY <1>14, <2>4, <1>5, <1>8 DEF GoodRow, SealInv
  <2>6. SealInv(c, r)'
    BY <1>14, <2>3, <2>4, <2>5, <1>4, <1>5 DEF GoodRow, SealInv, Grows
  <2> QED
    BY <2>2, <2>6 DEF GoodRow
<1>15. RowsInv' /\ AheadInv'
  BY <1>1, <1>13, <1>14 DEF RowsInv, AheadInv
<1>16. FlightInv'
  <2> SUFFICES ASSUME NEW u \in Sessions, Flying(u)'
               PROVE  Knows(u)'
    BY DEF FlightInv
  <2>1. CASE u = t
    <3>1. Ours(t)' => Ours(t)
      BY <1>1, <1>4 DEF Ours
    <3>2. fresh \notin consumed' \/ answer # "rotated"
      BY <1>5, <1>7, <1>8 DEF TypeOK
    <3> QED
      BY <2>1, <3>1, <3>2, <1>1, <1>2, <1>4, <1>5, <1>6, <1>7, <1>9 DEF Knows, Grows
  <2>2. CASE u # t
    <3>1. sess'[u] = sess[u] /\ Flying(u) /\ sess[u].lease.conn # c
      BY <2>2, <1>12
    <3>2. Knows(u) /\ (Ours(u)' => Ours(u))
      BY <3>1, <1>1 DEF FlightInv, Ours
    <3>3. \A i \in Issued : issued[i] # c /\ i \in consumed' => i \in consumed
      BY <1>7, <1>8
    <3> QED
      BY <3>1, <3>2, <3>3, <1>1, <1>5 DEF Knows, Grows
  <2> QED
    BY <2>1, <2>2
<1> QED
  BY <1>10, <1>11, <1>15, <1>16

\* The rotated row is sealed under its own binding, with the secret the provider
\* just issued.
LEMMA RotatedRow ==
    ASSUME vault \in Keys, NEW row \in Rows, NEW secret \in Nat
    PROVE  \E r \in Rows :
               /\ r = Rotated(row, secret)
               /\ r # Absent
               /\ r.gen = row.gen /\ r.version = row.version + 1
               /\ r.state = row.state /\ r.kind = row.kind
               /\ r.sealed # NoSecret
               /\ r.sealed.gen = r.gen
               /\ r.sealed.version = r.version
               /\ r.sealed.kind = r.kind
               /\ r.sealed.secret = secret
<1> DEFINE next == [row EXCEPT !.version = @ + 1]
<1>1. /\ next \in Rows
      /\ next.gen = row.gen /\ next.version = row.version + 1
      /\ next.state = row.state /\ next.kind = row.kind
  BY DEF Rows
<1>2. PICK seal \in Seals : seal = SealFor(next, secret)
  BY <1>1 DEF SealFor, Seals, Rows
<1>3. /\ seal.gen = next.gen /\ seal.version = next.version
      /\ seal.kind = next.kind /\ seal.secret = secret
  BY <1>2 DEF SealFor
<1>4. PICK r \in Rows : r = [next EXCEPT !.sealed = seal, !.rotation = NoRotation]
  BY <1>1 DEF Rows
<1>5. /\ r.gen = next.gen /\ r.version = next.version
      /\ r.state = next.state /\ r.kind = next.kind
      /\ r.sealed = seal
  BY <1>1, <1>4 DEF Rows
<1>6. r = Rotated(row, secret)
  BY <1>2, <1>4 DEF Rotated
<1> QED
  BY <1>1, <1>3, <1>5, <1>6, MarkersAreDistinct

\* What a refresh with a rotated answer may write.
LEMMA RotationReady ==
    ASSUME RefreshInv, NEW t \in Sessions, sess[t].at = "answered",
           sess[t].answer = "rotated", Ours(t)
    PROVE  /\ Running(t)
           /\ vault \in Keys
           /\ sess[t].fresh \in Nat
           /\ sess[t].fresh \in Issued
           /\ issued[sess[t].fresh] = sess[t].lease.conn
           /\ sess[t].fresh \notin consumed
           /\ mem.rows[sess[t].lease.conn].state = "connected"
<1> USE DEF RefreshInv
<1>1. Running(t) /\ Flying(t)
  BY DEF Running, Flying
<1>2. Knows(t)
  BY <1>1 DEF FlightInv
<1>3. vault \in Keys
  BY DEF KeyInv, TypeOK
<1> QED
  BY <1>1, <1>2, <1>3 DEF Knows, Ours, TypeOK, SessionRecords

\* Step 8, written: the access that is handed out is the row's.
LEMMA RotatedSavedStep ==
    ASSUME RefreshInv, NEW t \in Sessions, NEW fence \in Writes,
           CommitRotated(t, "saved", fence)
    PROVE  RefreshInv'
<1> USE DEF RefreshInv
<1>1. /\ sess[t].at = "answered" /\ sess[t].answer = "rotated" /\ Ours(t)
      /\ sess' = Leaving(t)
      /\ Unlock(t)
      /\ UNCHANGED <<services, vault, checked, table, issued, consumed, fenced>>
  BY DEF CommitRotated
<1>2. /\ Running(t) /\ vault \in Keys /\ sess[t].fresh \in Nat
      /\ sess[t].fresh \in Issued /\ sess[t].fresh \notin consumed
      /\ issued[sess[t].fresh] = sess[t].lease.conn
      /\ mem.rows[sess[t].lease.conn].state = "connected"
  BY <1>1, RotationReady
<1>3. PICK c \in Conns, row \in Rows :
          c = sess[t].lease.conn /\ row = mem.rows[c] /\ row # Absent /\ GoodRow(c, row)
  BY <1>2, RunningRow
<1>4. PICK r \in Rows :
               /\ r = Rotated(row, sess[t].fresh)
               /\ r # Absent
               /\ r.gen = row.gen /\ r.version = row.version + 1
               /\ r.state = row.state /\ r.kind = row.kind
               /\ r.sealed # NoSecret
               /\ r.sealed.gen = r.gen
               /\ r.sealed.version = r.version
               /\ r.sealed.kind = r.kind
               /\ r.sealed.secret = sess[t].fresh
  BY <1>2, <1>3, RotatedRow
<1>5. mem' = With(c, r) /\ disk' = With(c, r)
  BY <1>3, <1>4 DEF CommitRotated, PersistAfterMutation
<1>6. /\ handed' \in [Conns -> [gen : Nat, version : Nat]]
      /\ handed'[c].gen = r.gen /\ handed'[c].version = r.version
      /\ \A d \in Conns \ {c} : handed'[d] = handed[d]
  <2>1. r.gen \in Nat /\ r.version \in Nat
    BY DEF Rows
  <2>2. handed' = [handed EXCEPT ![c] = [gen |-> r.gen, version |-> r.version]]
    BY <1>3, <1>4 DEF CommitRotated
  <2> QED
    BY <2>1, <2>2 DEF TypeOK
<1>7. /\ KeyInv' /\ LockInv'
      /\ sess' \in [Sessions -> SessionRecords]
      /\ holder' \in [Locks -> Sessions \cup {NoSession}]
      /\ \A u \in Sessions : /\ sess'[u].lease = sess[u].lease
                             /\ Flying(u)' => u # t /\ sess'[u] = sess[u]
  BY <1>1, <1>2, LeavingKeepsLocks
<1>8. mem' \in States /\ disk' \in States /\ mem'.rows[c] = r
  BY <1>5, WithRow DEF TypeOK
<1>9. TypeOK'
  BY <1>1, <1>6, <1>7, <1>8 DEF TypeOK, Issued
<1>10. \A u \in Sessions : ~(Flying(u)' /\ HeldBy(u, c)')
  BY <1>1, <1>2, <1>3, NoneLeftBehind
<1>11. RowsInv'
  <2>1. \A d \in Conns \ {c} : \A q : GoodRow(d, q) => GoodRow(d, q)'
    BY <1>1, <1>6, <1>7, OthersStayGood, NothingIssued
  <2>2. GoodRow(c, r)'
    <3>1. SealInv(c, r)'
      BY <1>1, <1>2, <1>3, <1>4, <1>10 DEF SealInv, Issued
    <3>2. \A u \in Sessions : HeldBy(u, c)' <=> HeldBy(u, c)
      BY <1>7 DEF HeldBy
    <3>3. r.version \in Nat /\ r.gen \in Nat
      BY DEF Rows
    <3>4. AgeInv(c, r)'
      <4>1. /\ handed'[c].gen = r.gen
            /\ handed'[c].version <= r.version
        BY <3>3, <1>6
      <4>2. AgeInv(c, row)
        BY <1>3 DEF GoodRow
      <4>3. r # Absent /\ r.gen = row.gen /\ fenced'[c] = fenced[c]
        BY <1>1, <1>4
      <4> QED
        BY <4>1, <4>2, <4>3, <3>2, <1>7 DEF AgeInv
    <3> QED
      BY <3>1, <3>4 DEF GoodRow
  <2> QED
    BY <2>1, <2>2, <1>5, RowsAfterSave
<1>12. AheadInv'
  BY <1>5, <1>8, AheadAfterSave
<1>13. Wrote(c, {r})
  BY <1>5, FenceWrites DEF TypeOK
<1>14. FlightInv'
  BY <1>1, <1>2, <1>3, <1>13, LeavingKeepsFlights
<1> QED
  BY <1>7, <1>9, <1>11, <1>12, <1>14

\* Step 8, not written, or written and reported as an error: memory is fenced,
\* and the database holds the old row, the rotated one or the fence.
LEMMA RotatedFailedStep ==
    ASSUME RefreshInv, NEW t \in Sessions, NEW how \in Writes, NEW fence \in Writes,
           CommitRotated(t, how, fence), how # "saved"
    PROVE  RefreshInv'
<1>1. /\ sess[t].at = "answered" /\ sess[t].answer = "rotated" /\ Ours(t)
      /\ sess' = Leaving(t)
      /\ Unlock(t)
      /\ UNCHANGED <<services, vault, checked, table, issued, consumed, handed, fenced>>
  BY DEF CommitRotated
<1>2. /\ Running(t) /\ vault \in Keys /\ sess[t].fresh \in Nat
      /\ sess[t].fresh \in Issued /\ sess[t].fresh \notin consumed
      /\ issued[sess[t].fresh] = sess[t].lease.conn
      /\ mem.rows[sess[t].lease.conn].state = "connected"
  BY <1>1, RotationReady
<1>3. PICK c \in Conns, row \in Rows :
          c = sess[t].lease.conn /\ row = mem.rows[c] /\ row # Absent /\ GoodRow(c, row)
  BY <1>2, RunningRow
<1>4. PICK r \in Rows :
               /\ r = Rotated(row, sess[t].fresh)
               /\ r # Absent
               /\ r.gen = row.gen /\ r.version = row.version + 1
               /\ r.state = row.state /\ r.kind = row.kind
               /\ r.sealed # NoSecret
               /\ r.sealed.gen = r.gen
               /\ r.sealed.version = r.version
               /\ r.sealed.kind = r.kind
               /\ r.sealed.secret = sess[t].fresh
  BY <1>2, <1>3, RotatedRow
<1>5. PICK f \in Rows : f = Fenced(row) /\ f.gen = row.gen /\ GoodRow(c, f)
  BY <1>3, FencedIsGood
<1>6. /\ mem' = With(c, f)
      /\ disk' \in {disk, With(c, r), With(c, f)}
  BY <1>3, <1>4, <1>5 DEF CommitRotated, PersistFence
<1>7. Wrote(c, {f, r})
  BY <1>6, WithRow DEF RefreshInv, TypeOK, Wrote
<1>8. \A d \in Conns : \A q : GoodRow(d, q) => GoodRow(d, q)'
  BY <1>1, <1>2, LeavingKeepsGood
<1>9. \A u \in Sessions : ~(Flying(u)' /\ HeldBy(u, c)')
  BY <1>1, <1>2, <1>3, NoneLeftBehind
<1>10. GoodRow(c, r)'
  <2>1. SealInv(c, r)'
    BY <1>1, <1>2, <1>3, <1>4, <1>9 DEF SealInv, Issued
  <2>3. AgeInv(c, r)
    BY <1>3, <1>4, NewerVersion DEF GoodRow, RefreshInv, TypeOK
  <2>4. /\ \A u \in Sessions : sess'[u].lease = sess[u].lease
        /\ handed' = handed /\ fenced' = fenced
    BY <1>1 DEF Leaving, Resting, RefreshInv, TypeOK, SessionRecords
  <2>5. AgeInv(c, r)'
    BY <2>3, <2>4 DEF AgeInv, HeldBy
  <2> QED
    BY <2>1, <2>5 DEF GoodRow
<1>11. GoodRow(c, f)'
  BY <1>5, <1>8
<1>12. handed' \in [Conns -> [gen : Nat, version : Nat]]
  BY <1>1 DEF RefreshInv, TypeOK
<1>13. /\ \A q \in {f, r} : q.gen = mem.rows[c].gen
       /\ \A q \in {f, r} : GoodRow(c, q)'
       /\ {f, r} \in SUBSET Rows
  BY <1>3, <1>4, <1>5, <1>10, <1>11
<1> QED
  BY <1>1, <1>2, <1>3, <1>7, <1>8, <1>12, <1>13, LeavingAfterWrite
-----------------------------------------------------------------------------
(* Owners, connections and the process *)

\* A row that a connect or a disconnect puts at the next generation: no lease
\* reaches it, so no refresh in flight takes it for its own.
LEMMA NewGeneration ==
    ASSUME RefreshInv, NEW c \in Conns, NEW r \in Rows, NEW how \in Writes, r # Absent,
           PersistAfterMutation(With(c, r), how),
           mem.rows[c] # Absent => r.gen = mem.rows[c].gen + 1,
           fenced' = IF how = "saved" THEN [fenced EXCEPT ![c] = r.gen] ELSE fenced,
           Grows, issued' \in Seq(Conns), SealInv(c, r)',
           checked' \subseteq checked,
           UNCHANGED <<services, vault, table, holder, sess, consumed, handed>>
    PROVE  RefreshInv'
<1> USE DEF RefreshInv
<1>0. r.gen \in Nat
  BY DEF Rows
<1>1. Wrote(c, {r})
  BY MutationWrites DEF TypeOK
<1>2. fenced' \in [Conns -> Nat]
  BY <1>0 DEF TypeOK
<1>3. TypeOK'
  BY <1>1, <1>2 DEF TypeOK, Wrote, Grows
<1>4. LockInv' /\ KeyInv'
  BY DEF LockInv, KeyInv, Running
<1>5. /\ GoodRow(c, mem.rows[c])
      /\ mem.rows[c] # Absent => mem.rows[c] \in Rows /\ mem.rows[c].gen \in Nat
  BY DEF RowsInv, TypeOK, States, Rows
<1>6. \A u \in Sessions : HeldBy(u, c) =>
          /\ mem.rows[c] # Absent
          /\ sess[u].lease.gen <= mem.rows[c].gen
          /\ sess[u].lease.gen \in Nat
  BY <1>5 DEF GoodRow, AgeInv, HeldBy, TypeOK, SessionRecords, Leases
<1>7. AgeInv(c, r)'
  <2>1. handed[c].gen \in Nat /\ fenced[c] \in Nat
    BY DEF TypeOK
  <2>2. handed[c].gen # 0 => r.gen > handed[c].gen
    BY <2>1, <1>0, <1>5 DEF GoodRow, AgeInv
  <2>3. fenced[c] # 0 => fenced[c] <= r.gen
    BY <2>1, <1>0, <1>5 DEF GoodRow, AgeInv
  <2>4. fenced'[c] \in {fenced[c], r.gen}
    BY DEF TypeOK
  <2>5. fenced'[c] # 0 => fenced'[c] <= r.gen
    BY <2>3, <2>4, <1>0
  <2>6. \A u \in Sessions : HeldBy(u, c) => sess[u].lease.gen <= r.gen
    BY <1>0, <1>5, <1>6
  <2> QED
    BY <2>2, <2>5, <2>6 DEF AgeInv, HeldBy
<1>8. GoodRow(c, r)'
  BY <1>7 DEF GoodRow
<1>9. \A d \in Conns \ {c} : \A q : GoodRow(d, q) => GoodRow(d, q)'
  <2>1. \A d \in Conns \ {c} : handed'[d] = handed[d] /\ fenced'[d] = fenced[d]
    BY DEF TypeOK
  <2>2. /\ \A u \in Sessions : /\ sess'[u].lease = sess[u].lease
                               /\ Flying(u)' /\ sess[u].lease.conn # c
                                     => sess'[u] = sess[u]
        /\ \A i \in consumed' : i \in consumed
    OBVIOUS
  <2> QED
    BY <2>1, <2>2, OthersStayGood
<1>10. RowsInv'
  <2>1. CASE how = "saved"
    <3>1. mem' = With(c, r) /\ disk' = With(c, r)
      BY <2>1 DEF PersistAfterMutation
    <3> QED
      BY <3>1, <1>8, <1>9, RowsAfterSave
  <2>2. CASE how # "saved"
    <3>1. \A q : GoodRow(c, q) => GoodRow(c, q)'
      BY <2>2 DEF GoodRow, SealInv, AgeInv, HeldBy, Flying, Grows
    <3> QED
      BY <3>1, <1>1, <1>8, <1>9, RowsAfterWrite
  <2> QED
    BY <2>1, <2>2
<1>11. AheadInv'
  <2>1. CASE how = "saved"
    BY <2>1, <1>1, AheadAfterSave DEF PersistAfterMutation, Wrote
  <2>2. CASE how # "saved"
    <3> SUFFICES ASSUME NEW d \in Conns, mem.rows[d] # Absent
                 PROVE  disk'.rows[d] # Absent /\ mem.rows[d].gen <= disk'.rows[d].gen
      BY <2>2 DEF AheadInv, PersistAfterMutation
    <3>1. mem.rows[d] \in Rows /\ mem.rows[d].gen \in Nat
      BY DEF TypeOK, States, Rows
    <3>2. disk.rows[d] # Absent /\ mem.rows[d].gen <= disk.rows[d].gen
      BY DEF AheadInv
    <3>3. d = c => mem.rows[d].gen <= r.gen
      BY <1>0, <3>1
    <3> QED
      BY <1>1, <3>1, <3>2, <3>3 DEF Wrote
  <2> QED
    BY <2>1, <2>2
<1>12. ASSUME NEW u \in Sessions, Flying(u), Ours(u)'
       PROVE  mem'.rows[sess[u].lease.conn] = mem.rows[sess[u].lease.conn]
  <2>1. sess[u].lease # NoLease /\ sess[u].lease.conn \in Conns
    BY <1>12 DEF Flying, LockInv, TypeOK, SessionRecords, Leases
  <2>2. CASE sess[u].lease.conn # c
    BY <2>1, <2>2, <1>1 DEF Wrote
  <2>3. CASE sess[u].lease.conn = c
    <3>1. mem.rows[c] # Absent /\ sess[u].lease.gen # r.gen
      BY <2>1, <2>3, <1>0, <1>5, <1>6 DEF HeldBy
    <3>2. mem'.rows[c] # r
      BY <2>3, <3>1, <1>12 DEF Ours
    <3> QED
      BY <2>3, <3>2, <1>1 DEF Wrote
  <2> QED
    BY <2>2, <2>3
<1>13. FlightInv'
  <2>1. \A u \in Sessions : Flying(u)' <=> Flying(u)
    BY DEF Flying
  <2> QED
    BY <2>1, <1>12, FlightsStay
<1> QED
  BY <1>3, <1>4, <1>10, <1>11, <1>13

\* connect_provider seals a secret no refresh has seen.
LEMMA ConnectStep ==
    ASSUME RefreshInv, NEW c \in Conns, NEW kind \in Kinds, NEW how \in Writes,
           ConnectProvider(c, kind, how)
    PROVE  RefreshInv'
<1> USE DEF RefreshInv
<1> DEFINE gen == NextGeneration(mem.rows[c])
           row == [kind |-> kind, state |-> "connected", gen |-> gen, version |-> 0,
                   sealed |-> NoSecret, rotation |-> NoRotation]
           seal == SealFor(row, Len(issued) + 1)
<1>1. kind \in {"oauth_refresh", "api_key"} /\ vault \in Keys /\ Len(issued) \in Nat
  BY OwnersAreDeclared DEF ConnectProvider, KeyInv, TypeOK
<1>2. /\ gen \in Nat
      /\ mem.rows[c] # Absent => gen = mem.rows[c].gen + 1
  BY DEF NextGeneration, TypeOK, States, Rows
<1>3. PICK s \in Seals : /\ s = seal
                         /\ s.gen = gen /\ s.version = 0 /\ s.kind = kind
                         /\ s.secret = Len(issued) + 1
  <2> HIDE DEF gen
  <2>1. seal = [key |-> vault, gen |-> gen, version |-> 0, kind |-> kind,
                secret |-> Len(issued) + 1]
    BY DEF SealFor
  <2>2. seal \in Seals
    BY <2>1, <1>1, <1>2 DEF Seals
  <2> QED
    BY <2>1, <2>2
<1>4. PICK r \in Rows : /\ r = [row EXCEPT !.sealed = s]
                        /\ r.gen = gen /\ r.version = 0 /\ r.kind = kind
                        /\ r.state = "connected" /\ r.sealed = s
  <2> HIDE DEF gen
  <2>1. [row EXCEPT !.sealed = s] =
            [kind |-> kind, state |-> "connected", gen |-> gen, version |-> 0,
             sealed |-> s, rotation |-> NoRotation]
    OBVIOUS
  <2>2. [row EXCEPT !.sealed = s] \in Rows
    BY <2>1, <1>1, <1>2 DEF Rows
  <2> QED
    BY <2>1, <2>2
<1>5. r # Absent /\ s # NoSecret
  BY MarkersAreDistinct
<1>6. /\ Grows /\ issued' \in Seq(Conns)
      /\ Len(issued) + 1 \in Issued' /\ issued'[Len(issued) + 1] = c
      /\ Len(issued) + 1 \notin Issued
  BY <1>1 DEF ConnectProvider, TypeOK, Grows, Issued
<1>7. /\ PersistAfterMutation(With(c, r), how)
      /\ fenced' = IF how = "saved" THEN [fenced EXCEPT ![c] = r.gen] ELSE fenced
      /\ checked' \subseteq checked
      /\ UNCHANGED <<services, vault, table, holder, sess, consumed, handed>>
  BY <1>3, <1>4 DEF ConnectProvider
<1>8. SealInv(c, r)'
  <2>1. Len(issued) + 1 \notin consumed'
    BY <1>6, <1>7 DEF TypeOK
  <2>2. \A u \in Sessions : Flying(u)' =>
            /\ sess'[u].secret \in Issued
            /\ sess'[u].answer = "rotated" => sess'[u].fresh \in Issued
    BY <1>7 DEF FlightInv, Knows, Flying
  <2> QED
    BY <2>1, <2>2, <1>3, <1>4, <1>5, <1>6 DEF SealInv
<1> QED
  BY <1>2, <1>4, <1>5, <1>6, <1>7, <1>8, NewGeneration

\* A disconnected row is at the next generation and has no secret.
LEMMA DisconnectedRow ==
    ASSUME NEW row \in Rows
    PROVE  /\ Disconnected(row) \in Rows
           /\ Disconnected(row).gen = row.gen + 1
           /\ Disconnected(row).state = "disconnected"
           /\ Disconnected(row).sealed = NoSecret
<1>1. row.gen + 1 \in Nat
  BY DEF Rows
<1>2. PICK g \in Nat : g = row.gen + 1
  BY <1>1
<1>3. Disconnected(row) = [row EXCEPT !.state = "disconnected", !.gen = g,
                                      !.sealed = NoSecret, !.rotation = NoRotation]
  BY <1>2 DEF Disconnected, Rows
<1>4. /\ Disconnected(row) \in Rows
      /\ Disconnected(row).gen = g
      /\ Disconnected(row).state = "disconnected"
      /\ Disconnected(row).sealed = NoSecret
  BY <1>3 DEF Rows
<1> QED
  BY <1>2, <1>4

\* disconnect_provider fences the generation it found.
LEMMA DisconnectStep ==
    ASSUME RefreshInv, NEW c \in Conns, NEW how \in Writes, DisconnectProvider(c, how)
    PROVE  RefreshInv'
<1> USE DEF RefreshInv
<1>1. mem.rows[c] \in Rows /\ mem.rows[c] # Absent
  BY DEF DisconnectProvider, TypeOK, States
<1>2. PICK r \in Rows : /\ r = Disconnected(mem.rows[c])
                        /\ r.gen = mem.rows[c].gen + 1
                        /\ r.state = "disconnected" /\ r.sealed = NoSecret
  BY <1>1, DisconnectedRow
<1>3. r # Absent
  BY MarkersAreDistinct
<1>4. /\ PersistAfterMutation(With(c, r), how)
      /\ fenced' = IF how = "saved" THEN [fenced EXCEPT ![c] = r.gen] ELSE fenced
      /\ checked' \subseteq checked
      /\ UNCHANGED <<services, vault, table, holder, sess, consumed, handed, issued>>
  BY <1>2 DEF DisconnectProvider
<1>5. Grows /\ issued' \in Seq(Conns)
  BY <1>4, NothingIssued DEF TypeOK
<1>6. SealInv(c, r)'
  BY <1>2 DEF SealInv
<1> QED
  BY <1>2, <1>3, <1>4, <1>5, <1>6, NewGeneration

\* A lease is taken at the memory's generation, which the database has reached.
LEMMA BindStep ==
    ASSUME RefreshInv, NEW t \in Sessions, NEW c \in Conns, NEW named \in BOOLEAN,
           ResolveProviderBinding(t, c, named)
    PROVE  RefreshInv'
<1> USE DEF RefreshInv
<1>1. /\ sess[t].at = "idle"
      /\ mem.rows[c] \in Rows /\ mem.rows[c] # Absent /\ mem.rows[c].gen \in Nat
      /\ UNCHANGED <<mem, disk, services, vault, checked, table, holder, issued, consumed,
                     handed, fenced>>
  BY DEF ResolveProviderBinding, TypeOK, States, Rows
<1>2. PICK lease \in Leases :
          /\ lease.conn = c /\ lease.gen = mem.rows[c].gen
          /\ sess' = [sess EXCEPT ![t].lease = lease]
  BY <1>1, OwnersAreDeclared DEF ResolveProviderBinding, Leases
<1>3. /\ sess' \in [Sessions -> SessionRecords]
      /\ \A u \in Sessions \ {t} : sess'[u] = sess[u]
      /\ sess'[t].at = "idle"
      /\ sess'[t].lease = lease
  BY <1>1, <1>2 DEF TypeOK, SessionRecords
<1>4. TypeOK'
  BY <1>1, <1>3 DEF TypeOK, Issued
<1>5. LockInv' /\ KeyInv'
  BY <1>1, <1>3 DEF LockInv, KeyInv, Running
<1>6. \A u \in Sessions : Flying(u)' => sess'[u] = sess[u] /\ Flying(u)
  BY <1>3 DEF Flying
<1>7. ASSUME NEW d \in Conns, NEW r, GoodRow(d, r),
             d = c => r # Absent /\ mem.rows[c].gen <= r.gen
      PROVE  GoodRow(d, r)'
  <2>1. SealInv(d, r)'
    BY <1>1, <1>6, <1>7 DEF GoodRow, SealInv, HeldBy, Issued
  <2>2. ASSUME NEW u \in Sessions, HeldBy(u, d)'
        PROVE  r # Absent /\ sess'[u].lease.gen <= r.gen
    <3>1. CASE u = t
      BY <2>2, <3>1, <1>2, <1>3, <1>7 DEF HeldBy
    <3>2. CASE u # t
      BY <2>2, <3>2, <1>3, <1>7 DEF HeldBy, GoodRow, AgeInv
    <3> QED
      BY <3>1, <3>2
  <2>3. AgeInv(d, r)'
    BY <2>2, <1>1, <1>7 DEF GoodRow, AgeInv
  <2> QED
    BY <2>1, <2>3 DEF GoodRow
<1>8. RowsInv'
  <2>1. /\ mem.rows[c].gen <= mem.rows[c].gen
        /\ disk.rows[c] # Absent /\ mem.rows[c].gen <= disk.rows[c].gen
    BY <1>1 DEF AheadInv
  <2> QED
    BY <2>1, <1>1, <1>7 DEF RowsInv
<1>9. AheadInv'
  BY <1>1 DEF AheadInv
<1>10. FlightInv'
  BY <1>1, <1>6, FlightsStay, NothingIssued
<1> QED
  BY <1>4, <1>5, <1>8, <1>9, <1>10

\* Steps that touch neither rows nor sessions.
LEMMA OwnerStep ==
    ASSUME RefreshInv, OwnerSteps \/ \E c \in Conns : RequireOwner(c)
    PROVE  RefreshInv'
<1> USE DEF RefreshInv
<1>1. /\ mem' \in States /\ disk' \in States
      /\ services' \subseteq Services /\ checked' \subseteq Conns
      /\ mem'.rows = mem.rows /\ disk'.rows \in {disk.rows, mem.rows}
      /\ checked' # {} => vault # NoKey
      /\ UNCHANGED <<vault, table, holder, sess, issued, consumed, handed, fenced>>
  <2>1. ASSUME NEW u \in Users, NEW how \in Writes, TransitionAccountStatus(u, how)
        PROVE  <1>1!:
    BY <2>1 DEF TransitionAccountStatus, PersistAfterMutation, TypeOK, States, KeyInv
  <2>2. ASSUME NEW n \in Services,
               RegisterServiceNamespace(n) \/ RevokeServiceNamespace(n)
        PROVE  <1>1!:
    BY <2>2 DEF RegisterServiceNamespace, RevokeServiceNamespace, TypeOK, KeyInv
  <2>3. ASSUME NEW c \in Conns, RequireOwner(c)
        PROVE  <1>1!:
    BY <2>3 DEF RequireOwner, TypeOK
  <2> QED
    BY <2>1, <2>2, <2>3 DEF OwnerSteps
<1>2. TypeOK'
  BY <1>1 DEF TypeOK, Issued
<1>3. LockInv' /\ KeyInv'
  BY <1>1 DEF LockInv, KeyInv, Running
<1>4. RowsInv'
  BY <1>1, RowsStayGood DEF RowsInv
<1>5. AheadInv'
  <2> SUFFICES ASSUME NEW d \in Conns, mem.rows[d] # Absent
               PROVE  disk'.rows[d] # Absent /\ mem.rows[d].gen <= disk'.rows[d].gen
    BY <1>1 DEF AheadInv
  <2>1. mem.rows[d].gen \in Nat
    BY DEF TypeOK, States, Rows
  <2> QED
    BY <2>1, <1>1 DEF AheadInv
<1>6. FlightInv'
  BY <1>1, FlightsStay, NothingIssued DEF Ours, Flying
<1> QED
  BY <1>2, <1>3, <1>4, <1>5, <1>6

\* A process that starts over finds every row in question marked, and fences it.
LEMMA RestartStep ==
    ASSUME RefreshInv, NEW key \in Keys \cup {NoKey}, NEW lateSpent \in SUBSET Asked,
           Restart(key, lateSpent)
    PROVE  RefreshInv'
<1> USE DEF RefreshInv
<1>1. /\ mem' = FenceUnfinishedRotations(disk) /\ disk' = mem'
      /\ vault' = key /\ checked' = {}
      /\ consumed' = consumed \cup lateSpent
      /\ UNCHANGED <<issued, handed, fenced>>
  BY DEF Restart
<1>2. /\ sess' \in [Sessions -> SessionRecords]
      /\ \A u \in Sessions : sess'[u].at = "idle" /\ sess'[u].lease = sess[u].lease
  BY DEF Restart, Idle, Resting, TypeOK, SessionRecords, Phases, Answers
<1>3. ASSUME NEW c \in Conns
      PROVE  mem'.rows[c] = IF disk.rows[c] # Absent /\ disk.rows[c].rotation # NoRotation
                              THEN Fenced(disk.rows[c]) ELSE disk.rows[c]
  BY <1>1 DEF FenceUnfinishedRotations, TypeOK, States
<1>4. ASSUME NEW c \in Conns
      PROVE  GoodRow(c, disk.rows[c]) /\ disk.rows[c] \in Rows \cup {Absent}
  BY DEF RowsInv, TypeOK, States
<1>5. ASSUME NEW c \in Conns, disk.rows[c] # Absent
      PROVE  Fenced(disk.rows[c]) \in Rows /\ GoodRow(c, Fenced(disk.rows[c]))
  BY <1>4, <1>5, FencedIsGood
<1>6. mem' \in States
  <2>1. [c \in Conns |-> IF disk.rows[c] # Absent /\ disk.rows[c].rotation # NoRotation
                           THEN Fenced(disk.rows[c]) ELSE disk.rows[c]]
            \in [Conns -> Rows \cup {Absent}]
    BY <1>4, <1>5
  <2> QED
    BY <2>1, <1>1 DEF FenceUnfinishedRotations, TypeOK, States
<1>7. \A s \in lateSpent : \E t \in Sessions :
          /\ Flying(t) /\ sess[t].secret = s
          /\ s \in Issued /\ issued[s] = sess[t].lease.conn
          /\ HeldBy(t, sess[t].lease.conn)
  <2> SUFFICES ASSUME NEW t \in Sessions, sess[t].at = "asking"
               PROVE  /\ Flying(t)
                      /\ sess[t].secret \in Issued
                      /\ issued[sess[t].secret] = sess[t].lease.conn
                      /\ HeldBy(t, sess[t].lease.conn)
    BY DEF Asked
  <2> QED
    BY DEF Flying, FlightInv, Knows, LockInv, HeldBy
<1>8. TypeOK'
  BY <1>1, <1>2, <1>6, <1>7 DEF Restart, TypeOK, Issued
<1>9. LockInv' /\ KeyInv'
  BY <1>1, <1>2 DEF LockInv, KeyInv, Running
<1>10. AheadInv'
  BY <1>1, <1>6, AheadAfterSave
<1>11. FlightInv'
  BY <1>2 DEF FlightInv, Flying
<1>12. ASSUME NEW c \in Conns, NEW r, GoodRow(c, r),
              r # Absent /\ r.sealed # NoSecret => r.rotation = NoRotation
       PROVE  GoodRow(c, r)'
  <2>1. AgeInv(c, r)'
    BY <1>1, <1>2, <1>12 DEF GoodRow, AgeInv, HeldBy
  <2>2. r # Absent /\ r.sealed # NoSecret => r.sealed.secret \notin consumed'
    BY <1>1, <1>7, <1>12 DEF GoodRow, SealInv
  <2>3. SealInv(c, r)'
    BY <2>2, <1>1, <1>2, <1>12 DEF GoodRow, SealInv, Flying, Issued
  <2> QED
    BY <2>1, <2>3 DEF GoodRow
<1>13. RowsInv'
  <2> SUFFICES ASSUME NEW c \in Conns
               PROVE  GoodRow(c, mem.rows[c])'
    BY <1>1 DEF RowsInv
  <2>1. PICK r : r = mem'.rows[c]
    OBVIOUS
  <2>2. GoodRow(c, r) /\ (r # Absent /\ r.sealed # NoSecret => r.rotation = NoRotation)
    <3>1. CASE disk.rows[c] # Absent /\ disk.rows[c].rotation # NoRotation
      <4>1. r = Fenced(disk.rows[c])
        BY <2>1, <3>1, <1>3
      <4>2. r.rotation = NoRotation
        BY <4>1, <3>1, <1>4 DEF Fenced, Rows
      <4> QED
        BY <4>1, <4>2, <3>1, <1>5
    <3>2. CASE ~(disk.rows[c] # Absent /\ disk.rows[c].rotation # NoRotation)
      BY <2>1, <3>2, <1>3, <1>4
    <3> QED
      BY <3>1, <3>2
  <2> QED
    BY <2>1, <2>2, <1>12
<1> QED
  BY <1>8, <1>9, <1>10, <1>11, <1>13
-----------------------------------------------------------------------------
(* The invariant *)

\* A new process with an empty store.
LEMMA InitRefreshInv ==
    ASSUME Init
    PROVE  RefreshInv
<1> USE DEF Init
<1>1. TypeOK
  BY DEF TypeOK, States, Idle, Resting, SessionRecords, Phases, Answers, Issued
<1>2. \A t \in Sessions : sess[t].at = "idle" /\ sess[t].lease = NoLease
  BY DEF Idle, Resting
<1>3. KeyInv /\ LockInv /\ AheadInv /\ FlightInv
  BY <1>2 DEF KeyInv, LockInv, AheadInv, FlightInv, Flying, Running
<1>4. RowsInv
  BY <1>2 DEF RowsInv, GoodRow, SealInv, AgeInv, HeldBy
<1> QED
  BY <1>1, <1>3, <1>4 DEF RefreshInv

\* RefreshInv is inductive.
LEMMA NextRefreshInv ==
    ASSUME RefreshInv, [Next]_vars
    PROVE  RefreshInv'
<1>1. CASE OwnerSteps
  BY <1>1, OwnerStep
<1>2. CASE ConnectionSteps
  BY <1>2, OwnerStep, ConnectStep, DisconnectStep, BindStep DEF ConnectionSteps
<1>3. ASSUME NEW t \in Sessions, RefreshAsk(t)
      PROVE  RefreshInv'
  BY <1>3, AskStep
<1>4. ASSUME NEW t \in Sessions, RefreshStep(t)
      PROVE  RefreshInv'
  <2>1. CASE RefreshEnter(t) \/ RefreshBusy(t) \/ RefreshRelease(t)
    BY <2>1, EnterStep, BusyStep, ReleaseStep
  <2>2. CASE RefreshRefused(t) \/ CommitSuperseded(t)
    BY <2>2, NothingWrittenStep
  <2>3. ASSUME NEW how \in Writes, RefreshFindsMarker(t, how) \/ CommitFence(t, how)
        PROVE  RefreshInv'
    BY <2>3, FenceStep
  <2>4. ASSUME NEW how \in Writes, RefreshMark(t, how)
        PROVE  RefreshInv'
    BY <2>4, MarkSavedStep, MarkFailedStep
  <2>5. ASSUME NEW answer \in Answers, NEW spends \in BOOLEAN,
               ProviderAnswers(t, answer, spends)
        PROVE  RefreshInv'
    BY <2>5, AnswerStep
  <2>6. ASSUME NEW how \in Writes, CommitUnchanged(t, how)
        PROVE  RefreshInv'
    BY <2>6, UnchangedStep
  <2>7. ASSUME NEW how \in Writes, NEW fence \in Writes, CommitRotated(t, how, fence)
        PROVE  RefreshInv'
    BY <2>7, RotatedSavedStep, RotatedFailedStep
  <2> QED
    BY <2>1, <2>2, <2>3, <2>4, <2>5, <2>6, <2>7, <1>4 DEF RefreshStep
<1>5. CASE ProcessSteps
  BY <1>5, RestartStep DEF ProcessSteps
<1>6. CASE UNCHANGED vars
  <2> USE <1>6 DEF vars, RefreshInv
  <2>1. TypeOK'
    BY DEF TypeOK, Issued
  <2>2. KeyInv' /\ LockInv' /\ AheadInv'
    BY DEF KeyInv, LockInv, AheadInv, Running
  <2>3. RowsInv'
    BY RowsStayGood DEF RowsInv
  <2>4. FlightInv'
    BY FlightsStay, NothingIssued DEF Flying
  <2> QED
    BY <2>1, <2>2, <2>3, <2>4
<1> QED
  BY <1>1, <1>2, <1>3, <1>4, <1>5, <1>6 DEF Next

\* The inductive invariant holds in every reachable state, for any number of
\* connections, sessions, locks and keys, and any bound on secrets and generations.
THEOREM RefreshInvariant == Spec => []RefreshInv
<1>1. Init => RefreshInv
  BY InitRefreshInv
<1>2. RefreshInv /\ [Next]_vars => RefreshInv'
  BY NextRefreshInv
<1> QED
  BY <1>1, <1>2, PTL DEF Spec

\* Two refreshes of one connection never run at once, although RefreshLocks
\* forgets a lock as soon as nobody refers to it.
THEOREM AtMostOneRefresh == Spec => []OneRefreshPerConnection
<1>1. RefreshInv => OneRefreshPerConnection
  BY AloneOnConnection DEF RefreshInv
<1> QED
  BY <1>1, RefreshInvariant, PTL

\* A spent secret is never current and unmarked, in memory or in the database,
\* whichever writes fail and wherever the process dies.
THEOREM SpentSecretsAreMarked == Spec => []SpentSecretIsMarked
<1>1. RefreshInv => SpentSecretIsMarked
  <2> SUFFICES ASSUME RefreshInv, NEW st \in {mem, disk}, NEW c \in Conns,
                      st.rows[c] # Absent, st.rows[c].state = "connected",
                      st.rows[c].sealed.secret \in consumed
               PROVE  st.rows[c].rotation # NoRotation
    BY DEF SpentSecretIsMarked
  <2>1. GoodRow(c, st.rows[c])
    BY DEF RefreshInv, RowsInv
  <2> QED
    BY <2>1 DEF GoodRow, SealInv
<1> QED
  BY <1>1, RefreshInvariant, PTL

\* refresh_provider_secret shows the provider no spent secret, and no secret
\* twice at once.
THEOREM SecretsArePresentedOnce == Spec => []NeverPresentedTwice
<1>1. RefreshInv => NeverPresentedTwice
  <2> SUFFICES ASSUME RefreshInv, NEW t \in Sessions, sess[t].at = "asking"
               PROVE  /\ sess[t].secret \notin consumed
                      /\ \A u \in Sessions \ {t} :
                            sess[u].at = "asking" => sess[u].secret # sess[t].secret
    BY DEF NeverPresentedTwice
  <2>1. \A u \in Sessions : sess[u].at = "asking" => Knows(u) /\ Running(u)
    BY DEF RefreshInv, FlightInv, Flying, Running
  <2>2. OneRefreshPerConnection
    BY AloneOnConnection DEF RefreshInv
  <2> QED
    BY <2>1, <2>2 DEF Knows, OneRefreshPerConnection
<1> QED
  BY <1>1, RefreshInvariant, PTL

\* Access material reaches a caller only against a row the database holds.
THEOREM AccessIsBacked == Spec => []AccessIsDurable
<1>1. RefreshInv => AccessIsDurable
  BY DEF RefreshInv, RowsInv, GoodRow, AgeInv, AccessIsDurable
<1> QED
  BY <1>1, RefreshInvariant, PTL

\* Every stored seal is bound to the row it is in.
THEOREM SealsMatchTheirRows == Spec => []ConnectedRowsOpen
<1>1. RefreshInv => ConnectedRowsOpen
  BY DEF RefreshInv, RowsInv, GoodRow, SealInv, ConnectedRowsOpen
<1> QED
  BY <1>1, RefreshInvariant, PTL

\* A generation left behind by connect_provider or disconnect_provider is not
\* current again, in memory or in the database.
THEOREM GenerationsStayFenced == Spec => []FencedGenerationsStayFenced
<1>1. RefreshInv => FencedGenerationsStayFenced
  BY DEF RefreshInv, RowsInv, GoodRow, AgeInv, FencedGenerationsStayFenced
<1> QED
  BY <1>1, RefreshInvariant, PTL
-----------------------------------------------------------------------------
(* The lock table *)

\* What LockTableDrains needs to be inductive: a session at rest refers to no
\* lock, and no lock stands in the table for two connections.
DrainInv ==
    /\ \A t \in Sessions : sess[t].at = "idle" => sess[t].lock = NoLock
    /\ \A c, d \in Conns : table[c] # NoLock /\ table[c] = table[d] => c = d
    /\ LockTableDrains

\* A step of a session keeps its reference, and its connection unless it rests.
KeepsLock(t) ==
    /\ sess'[t].lock = sess[t].lock
    /\ sess'[t].at = "idle" <=> sess[t].at = "idle"
    /\ sess[t].at # "idle" => sess'[t].lease = sess[t].lease

\* Where every session keeps its lock the table stays drained.
LEMMA KeptLocksDrain ==
    ASSUME DrainInv, UNCHANGED table, \A t \in Sessions : KeepsLock(t)
    PROVE  DrainInv'
<1>1. \A t \in Sessions : sess'[t].at = "idle" => sess'[t].lock = NoLock
  BY DEF DrainInv, KeepsLock
<1>2. ASSUME NEW c \in Conns, table[c] # NoLock
      PROVE  \E t \in Sessions : sess'[t].lock = table[c] /\ sess'[t].lease.conn = c
  <2>1. PICK t \in Sessions : sess[t].lock = table[c] /\ sess[t].lease.conn = c
    BY <1>2 DEF DrainInv, LockTableDrains
  <2>2. sess[t].at # "idle"
    BY <1>2, <2>1 DEF DrainInv
  <2> QED
    BY <2>1, <2>2 DEF KeepsLock
<1>3. LockTableDrains'
  BY <1>2 DEF LockTableDrains
<1> QED
  BY <1>1, <1>3 DEF DrainInv

\* A session that leaves keeps its lock until it releases it.
LEMMA LeavingKeepsLock ==
    ASSUME TypeOK, NEW t \in Sessions, sess[t].at # "idle", sess' = Leaving(t)
    PROVE  \A u \in Sessions : KeepsLock(u)
  BY DEF TypeOK, Leaving, Resting, KeepsLock

\* A refresh between its request and its release keeps every lock.
LEMMA RefreshKeepsLocks ==
    ASSUME TypeOK, NEW t \in Sessions, RefreshStep(t), ~RefreshRelease(t)
    PROVE  UNCHANGED table /\ \A u \in Sessions : KeepsLock(u)
<1>1. CASE RefreshEnter(t) \/ RefreshBusy(t)
  <2>1. /\ sess[t].at = "waiting" /\ UNCHANGED table
        /\ \E phase \in {"entered", "leaving"} : sess' = [sess EXCEPT ![t].at = phase]
    BY <1>1 DEF RefreshEnter, RefreshBusy
  <2>2. PICK phase \in {"entered", "leaving"} : sess' = [sess EXCEPT ![t].at = phase]
    BY <2>1
  <2>3. /\ sess'[t].at = phase
        /\ sess'[t].lock = sess[t].lock /\ sess'[t].lease = sess[t].lease
        /\ \A u \in Sessions \ {t} : sess'[u] = sess[u]
    BY <2>2, PhaseStep DEF TypeOK, Phases
  <2> QED
    BY <2>1, <2>3 DEF KeepsLock
<1>2. CASE RefreshRefused(t) \/ CommitSuperseded(t)
  BY <1>2, LeavingKeepsLock DEF RefreshRefused, CommitSuperseded
<1>3. ASSUME NEW how \in Writes,
             RefreshFindsMarker(t, how) \/ CommitFence(t, how) \/ CommitUnchanged(t, how)
      PROVE  UNCHANGED table /\ \A u \in Sessions : KeepsLock(u)
  BY <1>3, LeavingKeepsLock DEF RefreshFindsMarker, CommitFence, CommitUnchanged
<1>4. ASSUME NEW how \in Writes, RefreshMark(t, how)
      PROVE  UNCHANGED table /\ \A u \in Sessions : KeepsLock(u)
  <2>1. sess[t].at = "entered" /\ UNCHANGED table
    BY <1>4 DEF RefreshMark
  <2>2. CASE sess' = Leaving(t)
    BY <2>1, <2>2, LeavingKeepsLock
  <2>3. CASE sess' = Asking(t)
    BY <2>1, <2>3 DEF TypeOK, Asking, KeepsLock
  <2> QED
    BY <1>4, <2>1, <2>2, <2>3 DEF RefreshMark, MarkRotation
<1>5. ASSUME NEW answer \in Answers, NEW spends \in BOOLEAN,
             ProviderAnswers(t, answer, spends)
      PROVE  UNCHANGED table /\ \A u \in Sessions : KeepsLock(u)
  BY <1>5 DEF ProviderAnswers, TypeOK, SessionRecords, KeepsLock
<1>6. ASSUME NEW how \in Writes, NEW fence \in Writes, CommitRotated(t, how, fence)
      PROVE  UNCHANGED table /\ \A u \in Sessions : KeepsLock(u)
  BY <1>6, LeavingKeepsLock DEF CommitRotated
<1> QED
  BY <1>1, <1>2, <1>3, <1>4, <1>5, <1>6 DEF RefreshStep

\* The lock a request takes is the connection's own or one nobody refers to.
LEMMA AskDrains ==
    ASSUME TypeOK, LockInv, DrainInv, NEW t \in Sessions, RefreshAsk(t)
    PROVE  DrainInv'
<1> DEFINE c == sess[t].lease.conn
<1>1. c \in Conns /\ sess[t].at = "idle"
  BY DEF RefreshAsk, TypeOK, SessionRecords, Leases
<1>2. PICK l \in Locks :
          /\ \/ l = table[c]
             \/ table[c] = NoLock /\ \A d \in Conns : table[d] # l
          /\ table' = [table EXCEPT ![c] = l]
          /\ sess' = [sess EXCEPT ![t].at = "waiting", ![t].lock = l]
  BY DEF RefreshAsk
<1>3. /\ table'[c] = l
      /\ \A d \in Conns \ {c} : table'[d] = table[d]
  BY <1>1, <1>2 DEF TypeOK
<1>4. /\ sess'[t].at = "waiting" /\ sess'[t].lock = l /\ sess'[t].lease = sess[t].lease
      /\ \A u \in Sessions \ {t} : sess'[u] = sess[u]
  BY <1>2 DEF TypeOK, SessionRecords
<1>5. l # NoLock
  BY MarkersAreDistinct
<1>6. \A u \in Sessions : sess'[u].at = "idle" => sess'[u].lock = NoLock
  BY <1>4 DEF DrainInv
<1>7. \A d \in Conns \ {c} : table[d] # l
  BY <1>1, <1>2, <1>5 DEF DrainInv
<1>8. \A d, e \in Conns : table'[d] # NoLock /\ table'[d] = table'[e] => d = e
  BY <1>3, <1>7 DEF DrainInv
<1>9. ASSUME NEW d \in Conns, table'[d] # NoLock
      PROVE  \E u \in Sessions : sess'[u].lock = table'[d] /\ sess'[u].lease.conn = d
  <2>1. CASE d = c
    BY <2>1, <1>3, <1>4
  <2>2. CASE d # c
    <3>1. PICK u \in Sessions : sess[u].lock = table[d] /\ sess[u].lease.conn = d
      BY <2>2, <1>3, <1>9 DEF DrainInv, LockTableDrains
    <3> QED
      BY <2>2, <3>1, <1>3, <1>4
  <2> QED
    BY <2>1, <2>2
<1> HIDE DEF c
<1> QED
  BY <1>6, <1>8, <1>9 DEF DrainInv, LockTableDrains

\* A lock that is kept at a release has another session of the same connection:
\* whoever refers to it does so for the one connection it stands for.
LEMMA ReleaseDrains ==
    ASSUME TypeOK, LockInv, DrainInv, NEW t \in Sessions, RefreshRelease(t)
    PROVE  DrainInv'
<1> DEFINE c == sess[t].lease.conn
<1>1. /\ \A u \in Sessions \ {t} : sess'[u] = sess[u]
      /\ sess'[t].at = "idle" /\ sess'[t].lock = NoLock
  BY DEF RefreshRelease, Idle, Resting, TypeOK
<1>2. c \in Conns
  BY DEF RefreshRelease, LockInv, TypeOK, SessionRecords, Leases
<1>3. /\ \A d \in Conns \ {c} : table'[d] = table[d]
      /\ table'[c] # NoLock =>
            table'[c] = table[c] /\ \E u \in Sessions \ {t} : sess[u].lock = table[c]
  BY <1>2 DEF RefreshRelease, TypeOK, Unused, Refs
<1>4. \A u \in Sessions : sess'[u].at = "idle" => sess'[u].lock = NoLock
  BY <1>1 DEF DrainInv
<1>5. \A d \in Conns : table'[d] # NoLock => table'[d] = table[d]
  BY <1>3
<1>6. \A d, e \in Conns : table'[d] # NoLock /\ table'[d] = table'[e] => d = e
  BY <1>5 DEF DrainInv
<1>7. ASSUME NEW d \in Conns, table'[d] # NoLock
      PROVE  \E u \in Sessions : sess'[u].lock = table'[d] /\ sess'[u].lease.conn = d
  <2>1. CASE d = c
    <3>1. PICK u \in Sessions \ {t} : sess[u].lock = table[c]
      BY <2>1, <1>3, <1>7
    <3>2. sess[u].at # "idle" /\ table[c] # NoLock
      BY <2>1, <3>1, <1>5, <1>7 DEF DrainInv
    <3>3. sess[u].lease.conn \in Conns /\ table[sess[u].lease.conn] = table[c]
      BY <3>1, <3>2 DEF LockInv, TypeOK, SessionRecords, Leases
    <3>4. sess[u].lease.conn = c
      BY <3>2, <3>3, <1>2 DEF DrainInv
    <3> QED
      BY <2>1, <3>1, <3>4, <1>1, <1>5, <1>7
  <2>2. CASE d # c
    <3>1. PICK u \in Sessions : sess[u].lock = table[d] /\ sess[u].lease.conn = d
      BY <1>5, <1>7 DEF DrainInv, LockTableDrains
    <3>2. u # t
      BY <2>2, <3>1
    <3> QED
      BY <3>1, <3>2, <1>1, <1>5, <1>7
  <2> QED
    BY <2>1, <2>2
<1> HIDE DEF c
<1> QED
  BY <1>4, <1>6, <1>7 DEF DrainInv, LockTableDrains

\* DrainInv is inductive beside RefreshInv.
LEMMA NextDrainInv ==
    ASSUME RefreshInv, DrainInv, [Next]_vars
    PROVE  DrainInv'
<1> USE DEF RefreshInv
<1>1. CASE OwnerSteps \/ UNCHANGED vars
  <2>1. UNCHANGED <<table, sess>>
    BY <1>1 DEF OwnerSteps, TransitionAccountStatus, RegisterServiceNamespace,
                RevokeServiceNamespace, vars
  <2> QED
    BY <2>1, KeptLocksDrain DEF KeepsLock
<1>2. ASSUME NEW c \in Conns, NEW t \in Sessions, NEW named \in BOOLEAN,
             ResolveProviderBinding(t, c, named)
      PROVE  DrainInv'
  <2>1. UNCHANGED table /\ \A u \in Sessions : KeepsLock(u)
    BY <1>2 DEF ResolveProviderBinding, TypeOK, SessionRecords, KeepsLock
  <2> QED
    BY <2>1, KeptLocksDrain
<1>3. ASSUME NEW c \in Conns, RequireOwner(c) \/ \E how \in Writes :
                 DisconnectProvider(c, how) \/ \E kind \in Kinds : ConnectProvider(c, kind, how)
      PROVE  DrainInv'
  <2>1. UNCHANGED <<table, sess>>
    BY <1>3 DEF RequireOwner, ConnectProvider, DisconnectProvider
  <2> QED
    BY <2>1, KeptLocksDrain DEF KeepsLock
<1>4. ASSUME NEW t \in Sessions, RefreshStep(t)
      PROVE  DrainInv'
  BY <1>4, ReleaseDrains, RefreshKeepsLocks, KeptLocksDrain
<1>5. ASSUME NEW t \in Sessions, RefreshAsk(t)
      PROVE  DrainInv'
  BY <1>5, AskDrains
<1>6. CASE ProcessSteps
  <2>1. /\ \A c \in Conns : table'[c] = NoLock
        /\ \A t \in Sessions : sess'[t].lock = NoLock
    BY <1>6 DEF ProcessSteps, Restart, Idle, Resting
  <2> QED
    BY <2>1 DEF DrainInv, LockTableDrains
<1> QED
  BY <1>1, <1>2, <1>3, <1>4, <1>5, <1>6 DEF Next, ConnectionSteps

\* RefreshLocks keeps no lock that no refresh of its connection refers to: the
\* part of RefreshEnds that every state must meet.
THEOREM LocksDrain == Spec => []LockTableDrains
<1>1. Init => DrainInv
  BY DEF Init, DrainInv, LockTableDrains, Idle, Resting
<1>2. RefreshInv /\ DrainInv /\ [Next]_vars => DrainInv'
  BY NextDrainInv
<1>3. DrainInv => LockTableDrains
  BY DEF DrainInv
<1> QED
  BY <1>1, <1>2, <1>3, RefreshInvariant, PTL DEF Spec
=============================================================================
